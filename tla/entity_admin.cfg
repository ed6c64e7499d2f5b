SPECIFICATION Spec
CONSTANTS
  Admin = {a1, a2}
  Ca = {c1, c2, c3}
  None = None
  NoValue = NoValue
  Id = {1, 2}
  Renewed = Renewed
  Machine = {a1}
  Clerk = {a1}
SYMMETRY Symmetry
INVARIANTS TypeOK RegisteredKeyKept MetadataComplete KickstartedIsOurs ApprovedKeyEnrolled ApprovedVerifies
PROPERTIES ConfirmedIsMeant ImplementsAuthority
