\* Hosts that share a storage, and a server whose licenses come and go.
CONSTANTS
  Host = {h1, h2}
  Account = {a1}
  Slot <- MCSlot
  License = {l1, l2}
  None = None
  Missing = Missing
  FarFuture = 100
  Half = 100
SPECIFICATION FairSpec
INVARIANTS TypeOK SyncReturnsMeant
PROPERTY SyncCatchesUp ImplementsService
