SPECIFICATION GSpec
CONSTANTS
  MaxContext = 16
  MaxCompletion = 4
  DefaultMaxTokens = 3
  MaxStops = 2
  MaxStopLength = 2
  Characters <- MCCharacters
  Bodies <- MCBodies
  Configs <- MCConfigs
  TokenText <- MCTokenText
  ImEndToken = 5
  Logits <- MCLogits
  LowCandidates = 3
  HighCandidates = 4
INVARIANTS
  PromptFaithful
  ContextFits
  DrawnFromNucleus
  StopExact
CHECK_DEADLOCK FALSE
