\* One command after the other, with reused pids.
CONSTANTS
  Pid = {p1, p2, p3}
SPECIFICATION FairSpec
INVARIANTS TypeOK OneAgent PidFileNamesAgent
PROPERTY KeepSucceeds
