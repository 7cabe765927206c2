CONSTANTS
  Vocab = {"a", "b"}
  Eos = "eos"
  MaxTokens = 4
  SpecK = 2
  Architectures = {"Llama"}
  ForceBatch = {FALSE}
  NoBonus = {FALSE}
  Sampled = FALSE
  IgnoreEos = {TRUE}
  NextBest <- MCNextBest
SPECIFICATION Spec
INVARIANTS EosIsIgnored
