\* A crash after machine.key.new is gone.
CONSTANTS
  Key = {k1, k2}
  Process = {p1}
  None = None
  Zeroed = Zeroed
  IssuedReplies <- OneReply
  Endorsements <- OneEndorsement
SPECIFICATION Spec
CHECK_DEADLOCK FALSE
INVARIANT RenewalResumable
