SPECIFICATION Spec
CONSTANTS
  Conns = {c1, c2}
  Apps = {a1, a2}
  LinkIdWidth = 4
  NoApp = NoApp
  NoConn = NoConn
  SendBuffer = 1
  MaxWrites = 0
  Window = 1
  AllowShutdown = FALSE
  ServerActs = {"restart"}
  Commands = {}
  Ticks = FALSE
PROPERTY RemovesOwnLink
