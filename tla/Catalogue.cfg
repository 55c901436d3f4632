CONSTANTS
  NoModel = NoModel
  NoJob = NoJob
  NoPipeline = NoPipeline
  Uploads = {"gguf"}
  OtherIds = {"nano", "tuned", "stub"}
  Stub = "stub"
  StubTerm = 2
  Swept = Swept
  Nanos = {"nano"}
  Tunings = {"tuned"}
  Datasets = {"ample", "tiny"}
  Pipelines = {"pipe"}
  EpochSteps <- MCEpochSteps
  Conditions <- MCConditions
  Terms <- MCTerms
  Fee = 1
  Savings = 3
  MaxTokens = 1
  MaxHeight = 3
  MaxCalls = 5
  MinBlocks = 2
  Total = 2
  MaxEpochs = 1
  MaxSteps = 3
  TunedTerm = 2
  Target = 1
SPECIFICATION Spec
INVARIANTS LoadedAreRegistered NanochatIsWhole OneLayerAtATime
PROPERTY RemainingStorageIsKept
CHECK_DEADLOCK FALSE
