\* One command at a time, cut short anywhere.
CONSTANTS
  Key = {k1, k2, k3}
  Process = {p1}
  None = None
  Zeroed = Zeroed
  IssuedReplies <- MCReplies
  Endorsements <- MCEndorsements
SPECIFICATION Spec
SYMMETRY Symmetry
CHECK_DEADLOCK FALSE
INVARIANTS TypeOK KeyCustody OneLiveCredential ActiveAgrees RenewalRecoverable DecommissionedIsClean AuditTrail OnlyIssued
PROPERTY ImplementsIdentity
