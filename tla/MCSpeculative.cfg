CONSTANTS
  Vocab = {"a", "b"}
  Eos = "eos"
  MaxTokens = 4
  SpecK = 2
  Architectures = {"Llama", "GlmDsa", "Qwen35"}
  ForceBatch = {TRUE, FALSE}
  NoBonus = {TRUE, FALSE}
  Sampled = FALSE
  IgnoreEos = {TRUE, FALSE}
  NextBest <- MCNextBest
SPECIFICATION Spec
INVARIANTS TypeOK StateIsCommitted
PROPERTIES ImplementsGreedy RejectedTargetComesNext
