CONSTANTS
  MaxStages = 3
  PipeCap = 1
  Commands <- TypedCommands
SPECIFICATION Spec
INVARIANTS
  NoStrayEnds
  PromptIsClean
PROPERTIES
  PromptReturns
