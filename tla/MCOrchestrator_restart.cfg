SPECIFICATION UnaidedSpec
CONSTANTS
  Answers <- OneQuestion
  Noise <- Silence
  CaptureBytes = 2
  CapBytes = 2
  PageSizes = {1}
  MaxStarts = 2
  MaxForgets = 0
  None = None
PROPERTY PollingAgainSuffices
CHECK_DEADLOCK FALSE
