CHECK_DEADLOCK FALSE
SPECIFICATION Spec
CONSTANTS
  Links = {l1}
  Cap = 1
  SockCap = 1
  MaxWrites = 2
  MaxPings = 1
  WriteFirst = {}
INVARIANT TypeOK
INVARIANT EofComplete
INVARIANT NothingStuck
PROPERTY ImplementsPipe
