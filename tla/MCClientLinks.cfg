SPECIFICATION Spec
CONSTANTS
  Conns = {c1, c2}
  Apps = {a1, a2}
  LinkIdWidth = 4
  NoApp = NoApp
  NoConn = NoConn
  SendBuffer = 1
  MaxWrites = 0
  Window = 1
  AllowShutdown = FALSE
  ServerActs = {"restart", "ping"}
  Commands = {}
  Ticks = FALSE
SYMMETRY Symmetry
INVARIANT TypeOK
INVARIANT RegistryCurrent
INVARIANT NoForeignData
INVARIANT OwnConnectionOnly
