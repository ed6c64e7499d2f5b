CONSTANTS
  Process = {p1, p2}
  Key = {"machine.key", "machine.crt"}
  TempName = {"machine.tmp"}
  Temp <- MCTemp
  Value = {v1, v2}
  Absent = Absent
  Zeroed = Zeroed
  Empty = Empty
  Torn = Torn
  NoJob = NoJob
SPECIFICATION Spec
SYMMETRY Symmetry
INVARIANTS TypeOK NothingTorn OwnTemporary
PROPERTY ImplementsStore
