CHECK_DEADLOCK FALSE
SPECIFICATION Spec
CONSTANTS
  MIN_COMPRESS_SIZE = 3
  NONCE_SIZE = 2
  RESPONSE_SIZE = 2
  PoolSize = 2
  Keys <- MCKeys
  Majors <- MCMajors
  Tasks <- MCTasks
  SideOf <- MCSideOf
  Scripts <- MCScripts
  Early <- MCEarly
  Loop <- MCLoop
INVARIANT TypeOK
INVARIANT FramesIntact
INVARIANT AuthAgreement
INVARIANT IdsUnique
INVARIANT StatsAgree
INVARIANT BuffersReturn
PROPERTY HandshakeEnds
