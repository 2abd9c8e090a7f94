CHECK_DEADLOCK FALSE
SPECIFICATION Spec
CONSTANTS
  Links = {l1}
  Cap = 1
  SockCap = 1
  MaxWrites = 3
  MaxPings = 0
  WriteFirst = {"cli"}
INVARIANT OutgoingIndependent
