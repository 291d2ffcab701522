SPECIFICATION FairSpec
CONSTANTS
  Inbox = {n1}
  Reconciliation = {g1, g2}
  Outbox = {e1}
  NoMessage = NoMessage
  MaxAttempts = 2
  MaxSnoozes = 1
  BatchSize = 1
  MaxJobs = 2
INVARIANTS TypeOK LiveJobAccounted NoSilentLoss HandlerRunsBounded
PROPERTIES KeepsPromise EveryJobEnds
CHECK_DEADLOCK FALSE
