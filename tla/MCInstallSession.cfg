SPECIFICATION FairSpec
CONSTANTS
  Windows = {1, 2}
  NoWindow = 0
  Executions = 3
  Steps = 2
INVARIANTS
  TypeOK
  OneAttendedService
  EvidenceIsTruthful
  StaleRetryNeverWrites
PROPERTIES
  VerdictsArrive
  ServicesAreTransactions
CONSTRAINT ThirdIsALaterRetry
CHECK_DEADLOCK FALSE
