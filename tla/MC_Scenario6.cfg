\* Spec scenario 6: maxOutputTokens = 1024.
CONSTANTS
  MaxOutputTokensSet = {1024}
  MaxTokens = 1100

SPECIFICATION Spec

INVARIANT PredictionAtMost512
