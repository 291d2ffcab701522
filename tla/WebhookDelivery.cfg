SPECIFICATION Spec
CONSTANTS
  Events = {e1}
  Secrets = {s1, s2}
  NoSecret = NoSecret
  Commands = {c1, c2, c3}
  MaxAttempts = 3
INVARIANTS DeliveredWasApplied RevisionNamesOneSecret
PROPERTY HandledOnce
CHECK_DEADLOCK FALSE
