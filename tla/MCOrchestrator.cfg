SPECIFICATION Spec
CONSTANTS
  Answers <- TwoQuestions
  Noise <- NoisyFirst
  CaptureBytes = 4
  CapBytes = 2
  PageSizes = {1, 2}
  MaxStarts = 2
  MaxForgets = 1
  None = None
INVARIANTS
  OrchestratorInv
  DistillHonest
  KeptTextJudged
PROPERTIES
  EveryQuestionDecided
CHECK_DEADLOCK FALSE
