\* Two processes, fair: every command ends, and a waiting machine learns the decision.
CONSTANTS
  Key = {k1}
  Process = {p1, p2}
  None = None
  Zeroed = Zeroed
  IssuedReplies <- OneReply
  Endorsements <- OneEndorsement
SPECIFICATION FairSpec
CHECK_DEADLOCK FALSE
PROPERTIES CommandsFinish PendingIsDecided
