SPECIFICATION FairSpec
CONSTANTS
  o1 = o1
  o2 = o2
  c1 = c1
  c2 = c2
  q1 = q1
  q2 = q2
  None = None
  Owners <- TwoOwners
  Sessions <- TwoSessions
  Timers <- TwoTimers
  Requests <- TwoRequests
  MaxTimers = 2
\* every session may have ended, with no id left to start another
CHECK_DEADLOCK FALSE
INVARIANTS
  TypeOK
  LockProtects
  FinishIsAtomic
  NoTimerOutlivesItsSession
PROPERTIES
  EndedStaysEnded
  EveryDueTimerEnds
