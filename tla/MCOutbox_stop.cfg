SPECIFICATION FairSpec
CONSTANTS
  Events = {1, 2}
  w1 = w1
  w2 = w2
  Workers = {w1, w2}
  NoWorker = NoWorker
  BatchSize = 2
  EnvMaxRetry <- MCEnvMaxRetry
  DefaultMaxRetry = 1
  CfgMaxRetry = 3
  WriterAttempts = 2
  Faults = {"stop"}
PROPERTIES EventuallySettled
CHECK_DEADLOCK FALSE
