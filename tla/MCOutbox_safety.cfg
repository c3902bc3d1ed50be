SPECIFICATION Spec
CONSTANTS
  Events = {1, 2, 3}
  w1 = w1
  w2 = w2
  Workers = {w1, w2}
  NoWorker = NoWorker
  BatchSize = 2
  EnvMaxRetry <- MCEnvMaxRetry
  DefaultMaxRetry = 1
  CfgMaxRetry = 3
  WriterAttempts = 2
  Faults = {"stop", "db", "ack"}
INVARIANTS TypeOK ClaimExclusive PublishedWasSent RetryBudget DuplicateNeedsLostAck
PROPERTIES SettledIsFinal ImplementsDelivery
CHECK_DEADLOCK FALSE
