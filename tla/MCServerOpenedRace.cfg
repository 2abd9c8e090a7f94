SPECIFICATION Spec
CONSTANTS
  c1 = c1
  c2 = c2
  c3 = c3
  d1 = d1
  d2 = d2
  Conns <- OneConn
  Addrs <- OneAddr
  AddrOf <- Single
  Apps = {a1}
  NoApp = NoApp
  NoConn = NoConn
  NoAddr = NoAddr
  LinkIdWidth = 4
  SendBuffer = 1
  MaxWrites = 0
  Window = 1
  AllowShutdown = FALSE
  PeerActs = {}
PROPERTY ConfirmedStays
