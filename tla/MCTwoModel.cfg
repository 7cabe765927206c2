CONSTANTS
  Vocab = {"a", "b"}
  Eos = "eos"
  MaxTokens = 4
  SpecK = 2
  Architectures = {"Llama", "GlmDsa"}
  IgnoreEos = {TRUE, FALSE}
  NextBest <- MCNextBest
SPECIFICATION Spec
INVARIANTS DraftHoldsNoRefused
PROPERTIES ImplementsGreedy
