SPECIFICATION FairSpec
CONSTANTS
  Conns = {c1}
  Apps = {a1}
  LinkIdWidth = 4
  NoApp = NoApp
  NoConn = NoConn
  SendBuffer = 1
  MaxWrites = 1
  Window = 1
  AllowShutdown = TRUE
  ServerActs = {"silent"}
  Commands = {"p"}
  Ticks = TRUE
INVARIANT OpenedFirst
PROPERTY LostServerLeft
PROPERTY LostLinksClosed
PROPERTY ClosedAppEnds
