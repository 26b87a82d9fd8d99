SPECIFICATION Spec
CONSTANTS
  bos = bos
  word = word
  eos1 = eos1
  eos2 = eos2
  Token <- MCToken
  Prompts <- MCPrompts
  Eos <- MCEos
  MaxTokens = 3
INVARIANTS TypeOK TextIsComplete
