SPECIFICATION FairSpec
CONSTANTS
  DefaultInterval = 2
  MinInterval = 1
  SlowDown = 2
  DefaultTimeout = 4
  MinTimeout = 2
  Intervals = {0, 1, 3, None}
  Lifetimes = {1, 4, None}
  Token = {t1, t2, t3}
  None = None
INVARIANTS TypeOK ApprovalNotLost LoggedOutStaysOut
PROPERTIES PollsNeverTooSoon LoginEnds
