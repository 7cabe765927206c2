CONSTANTS
  Vocab = {"a", "b"}
  Eos = "eos"
  MaxTokens = 4
  SpecK = 2
  Architectures = {"Qwen35"}
  ForceBatch = {TRUE}
  NoBonus = {TRUE}
  Sampled = FALSE
  IgnoreEos = {FALSE}
  NextBest <- MCNextBest
SPECIFICATION Spec
INVARIANTS RefusalIsNoFailure
