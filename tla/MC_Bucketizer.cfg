\* Every token count up to 1100, and Predict for it, for
\* maxOutputTokens from 1 to 4, at 2^k - 1, 2^k, 2^k + 1 for k = 3, 4, 10, and 1000:
\* counts past the last bucket are clamped, and every bucket count is met.
CONSTANTS
  MaxOutputTokensSet = {1, 2, 3, 4, 7, 8, 9, 15, 16, 17, 1000, 1023, 1024, 1025}
  MaxTokens = 1100

SPECIFICATION Spec

INVARIANT TypeOK
 
