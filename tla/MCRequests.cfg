SPECIFICATION FairSpec
CONSTANTS
  Peers = {1, 2}
  Actions <- TwoKinds
  Chunks <- ShortAnswers
  NonceMod = 2
  MaxSessions = 2
  Stalls = TRUE
  None = None
  Requesters = {1}
  Ids = {1, 2}
  Timed = {1}
  Past = {0}
INVARIANTS TypeOK Whole HandledOnce OutcomeTrue PendingHasPeer
PROPERTIES RequestsSettle
CHECK_DEADLOCK FALSE
