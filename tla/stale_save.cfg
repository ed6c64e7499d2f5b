\* A stale state.json written back.
CONSTANTS
  Key = {k1, k2}
  Process = {p1, p2}
  None = None
  Zeroed = Zeroed
  IssuedReplies <- OneReply
  Endorsements <- OneEndorsement
SPECIFICATION Spec
CHECK_DEADLOCK FALSE
PROPERTY NeverActiveAgain
