\* Two stages, an LLM and a diffusion one; a request with two companions.
SPECIFICATION FairSpec
CONSTANTS
  p1 = p1
  c1 = c1
  c2 = c2
  Parents = {p1}
  Companions = {c1, c2}
  ParentOf <- MCParentOf
  Stages = {0, 1}
  NoResult = NoResult
  NumStages = 2
  EmitStages = {0, 1}
  FinalStage <- MCFinalStage
  FinalOutputs <- MCFinalOutputs
  Pipelines <- MCPipelines
  EarlyKv = {p1, c1}
  Fragile = {0, 1}
  Stoppable = TRUE
  MaxUpsets = 2
CHECK_DEADLOCK FALSE
INVARIANTS
  OrchestratorTypeOK
  AbortReachesStages
  FatalTellsAll
  KnownAreUnderWay
PROPERTIES
  RequestsEnd
  JourneySpec
