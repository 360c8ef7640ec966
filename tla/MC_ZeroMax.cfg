\* NewSimpleOutputPredictor with maxOutputTokens = 0 (a valid int).
CONSTANTS
  MaxOutputTokensSet = {0}
  MaxTokens = 4

SPECIFICATION Spec

INVARIANT BucketIsIndex
