---------------------------- MODULE SessionProofs ----------------------------
(***************************************************************************)
(* What ServerWorld guarantees about client sessions: client_sessions and  *)
(* session_store agree, and the gateway state settles, whatever order the  *)
(* client tasks, reconnections and a shutdown interleave in.               *)
(***************************************************************************)
EXTENDS ServerProofs

(* Where the task of a client is between save_session and restore_session, *)
(* and, within that, where its session may be in client_sessions.          *)
StoredPc == {"insert", "loop", "pong", "deliver", "open", "unroute", "unlink",
             "shut", "sweep", "release", "releaseShut", "restore"}
ActivePc == StoredPc \ {"insert", "restore"}

(* A session in the registry is its owner's, at the owner's address.       *)
RegistrySound ==
  \A d \in Addrs : client_sessions[d] # NoConn =>
    /\ AddrOf[client_sessions[d]] = d
    /\ cpc[client_sessions[d]] \in ActivePc
    /\ client_sessions[d] \in session_store

StoreSound ==
  /\ \A c \in session_store : cpc[c] \in StoredPc
  /\ \A c \in Conns : cpc[c] = "insert" => c \in session_store

(* While the state is Connected, some task will still check for the end.   *)
SettlePc == StoredPc \cup {"save", "empty", "waiting"}
StateSound == state = "Connected" => \E c \in Conns : cpc[c] \in SettlePc

SessionInv == TypeInv /\ RegistrySound /\ StoreSound /\ StateSound

(* Only client tasks and shutdown touch what the session invariant is about. *)
LEMMA SessionFrame ==
  ASSUME Next, \A c \in Conns : ~ServerStep(c), ~Signal
  PROVE  UNCHANGED <<client_sessions, session_store, cpc, state>>
<1>1. ASSUME NEW a \in Apps, LinkStep(a)
      PROVE  UNCHANGED <<client_sessions, session_store, cpc, state>>
  BY <1>1
  DEF LinkStep, AppStep, TakeLinkId, PickClient, Reject, AddLink, AddRoute, SendOpen,
      SetLinkWaiting, ReadApp, ReadAppEnd, SendData, SendClose, AppUnroute, AppUnlink,
      AppShut, registry, connTask
<1>2. ASSUME NEW c \in Conns, PeerStep(c)
      PROVE  UNCHANGED <<client_sessions, session_store, cpc, state>>
  BY <1>2
  DEF PeerStep, Connect, PeerRead, PeerConsume, PeerAnswer, PeerPing, PeerGone, PeerSilent,
      KernelTimeout, PeerData, PeerClose, server, registry, connTask
<1>3. ASSUME NEW a \in Apps, AppConnect(a) \/ AppWrite(a) \/ AppClose(a)
      PROVE  UNCHANGED <<client_sessions, session_store, cpc, state>>
  BY <1>3 DEF AppConnect, AppWrite, AppClose, server, registry, connTask
<1> QED
  BY <1>1, <1>2, <1>3 DEF Next, Terminated, vars, registry, connTask

(* Every step of a client task keeps the registry and the store in step.   *)
LEMMA RegistryStep ==
  ASSUME SessionInv, NEW c \in Conns, ConnStep(c)
  PROVE  RegistrySound' /\ StoreSound'
<1> USE DEF SessionInv, RegistrySound, StoreSound, StoredPc, ActivePc, TypeInv, TypeOK,
            ServerTypeOK
<1>1. CASE ClosePrevious(c)
  BY <1>1, AddrAssumption DEF ClosePrevious
<1>2. CASE SaveSession(c)
  BY <1>2 DEF SaveSession
<1>3. CASE InsertSession(c)
  BY <1>3, AddrAssumption, NoConnAssumption DEF InsertSession
<1>4. CASE ForgetSession(c)
  BY <1>4, AddrAssumption, NoConnAssumption DEF ForgetSession
<1>5. CASE RestoreSession(c)
  BY <1>5, NoConnAssumption DEF RestoreSession
<1>6. CASE \/ Accept(c) \/ AuthOk(c) \/ AuthFail(c) \/ SetConnected(c)
           \/ CheckEmpty(c) \/ SetWaiting(c)
  <2>1. UNCHANGED <<client_sessions, session_store>> /\ cpc[c] \notin StoredPc
    BY <1>6
    DEF Accept, AuthOk, AuthFail, SetConnected, CheckEmpty, SetWaiting, registry
  <2>2. PICK s \in ConnPc \ {"insert"} : cpc' = [cpc EXCEPT ![c] = s]
    BY <1>6
    DEF Accept, AuthOk, AuthFail, SetConnected, CheckEmpty, SetWaiting, ConnPc
  <2> QED BY <2>1, <2>2, NoConnAssumption
<1>7. CASE \/ ReadPacket(c) \/ ReadEnd(c) \/ SendPong(c) \/ Deliver(c) \/ ConfirmOpen(c)
           \/ ConnUnroute(c) \/ ConnUnlink(c) \/ ConnShut(c) \/ Sweep(c)
           \/ (\E id \in LinkId : Release(c, id)) \/ ReleaseShut(c)
  <2>1. UNCHANGED <<client_sessions, session_store>>
    BY <1>7
    DEF ReadPacket, ReadEnd, SendPong, Deliver, ConfirmOpen, ConnUnroute, ConnUnlink,
        ConnShut, Sweep, Release, ReleaseShut, registry
  <2>2. PICK s \in ActivePc : cpc' = [cpc EXCEPT ![c] = s]
    BY <1>7
    DEF ReadPacket, Dispatch, ReadEnd, SendPong, Deliver, ConfirmOpen, ConnUnroute,
        ConnUnlink, ConnShut, Sweep, Release, ReleaseShut
  <2> QED BY <2>1, <2>2
<1> QED
  BY <1>1, <1>2, <1>3, <1>4, <1>5, <1>6, <1>7 DEF ConnStep

(* Every step of a client task keeps a witness for the state.              *)
LEMMA StateStep ==
  ASSUME SessionInv, NEW c \in Conns, ConnStep(c)
  PROVE  StateSound'
<1> USE DEF StateSound, SettlePc, StoredPc, TypeInv, TypeOK, ServerTypeOK
<1>1. CASE SetConnected(c)
  BY <1>1 DEF SetConnected, SessionInv
<1>2. CASE SetWaiting(c)
  BY <1>2 DEF SetWaiting, SessionInv
<1>3. CASE CheckEmpty(c)
  <2>1. CASE ActiveSessions = {}
    BY <1>3, <2>1 DEF CheckEmpty, SessionInv
  <2>2. CASE ActiveSessions # {}
    <3>1. PICK d \in Addrs : client_sessions[d] # NoConn
      BY <2>2 DEF ActiveSessions
    <3>2. client_sessions[d] \in Conns /\ cpc[client_sessions[d]] \in ActivePc
      BY <3>1 DEF SessionInv, RegistrySound
    <3>3. client_sessions[d] # c
      BY <1>3, <3>2 DEF CheckEmpty, ActivePc
    <3> QED BY <1>3, <3>2, <3>3 DEF CheckEmpty, SessionInv, ActivePc
  <2> QED BY <2>1, <2>2
<1>4. CASE /\ ~SetConnected(c) /\ ~SetWaiting(c) /\ ~CheckEmpty(c)
  <2>1. PICK s \in ConnPc : /\ cpc' = [cpc EXCEPT ![c] = s]
                            /\ cpc[c] \in SettlePc => s \in SettlePc
    BY <1>4
    DEF ConnStep, Accept, ClosePrevious, AuthOk, AuthFail, SaveSession, InsertSession,
        ReadPacket, Dispatch, ReadEnd, SendPong, Deliver, ConfirmOpen, ConnUnroute,
        ConnUnlink, ConnShut, Sweep, Release, ReleaseShut, ForgetSession, RestoreSession,
        ConnPc
  <2>2. state' = state
    BY <1>4
    DEF ConnStep, Accept, ClosePrevious, AuthOk, AuthFail, SaveSession, InsertSession,
        ReadPacket, ReadEnd, SendPong, Deliver, ConfirmOpen, ConnUnroute, ConnUnlink,
        ConnShut, Sweep, Release, ReleaseShut, ForgetSession, RestoreSession, registry
  <2>3. ASSUME state = "Connected" PROVE \E b \in Conns : cpc'[b] \in SettlePc
    <3>1. PICK b \in Conns : cpc[b] \in SettlePc
      BY <2>3 DEF SessionInv
    <3>2. cpc'[b] \in SettlePc
      BY <2>1, <3>1 DEF SessionInv
    <3> QED BY <3>2
  <2> QED BY <2>2, <2>3
<1> QED BY <1>1, <1>2, <1>3, <1>4

LEMMA SessionNext == SessionInv /\ [Next]_vars => SessionInv'
<1> SUFFICES ASSUME SessionInv, [Next]_vars PROVE SessionInv'
  OBVIOUS
<1>1. TypeInv'
  BY NextTyping DEF SessionInv
<1>2. ASSUME NEW c \in Conns, ServerStep(c)
      PROVE  RegistrySound' /\ StoreSound' /\ StateSound'
  BY <1>2, RegistryStep, StateStep DEF ServerStep
<1>3. CASE Signal
  <2>1. cpc' = cpc /\ state' = state
    BY <1>3 DEF Signal, ShutdownStep, CloseAllLinks, DrainSessions, Exit, connTask, registry
  <2>2. CASE DrainSessions
    <3>1. RegistrySound' /\ StateSound'
      BY <2>1, <2>2 DEF DrainSessions, SessionInv, RegistrySound, StateSound
    <3>2. \A c \in Conns : cpc[c] = "insert" => c \notin ActiveSessions
      BY DEF SessionInv, RegistrySound, ActiveSessions, ActivePc
    <3>3. StoreSound'
      BY <2>1, <2>2, <3>2 DEF DrainSessions, SessionInv, StoreSound
    <3> QED BY <1>1, <3>1, <3>3 DEF SessionInv
  <2>3. CASE CloseAllLinks \/ Exit
    BY <1>1, <2>1, <2>3 DEF CloseAllLinks, Exit, registry, SessionInv, RegistrySound, StoreSound,
                      StateSound
  <2> QED BY <1>3, <2>2, <2>3 DEF Signal, ShutdownStep
<1>4. CASE UNCHANGED <<client_sessions, session_store, cpc, state>>
  <2>1. RegistrySound'
    BY <1>4 DEF SessionInv, RegistrySound
  <2>2. StoreSound'
    BY <1>4 DEF SessionInv, StoreSound
  <2>3. StateSound'
    BY <1>4 DEF SessionInv, StateSound
  <2> QED BY <1>1, <2>1, <2>2, <2>3 DEF SessionInv
<1>5. CASE UNCHANGED vars
  BY <1>4, <1>5 DEF vars, registry, connTask
<1> QED BY <1>1, <1>2, <1>3, <1>4, <1>5, SessionFrame DEF SessionInv

LEMMA SessionInvariant == Spec => []SessionInv
<1>1. Init => SessionInv
  BY InitTyping DEF Init, ServerInit, SessionInv, RegistrySound, StoreSound, StateSound
<1> QED BY <1>1, SessionNext, PTL DEF Spec

(* client_sessions never holds a session the store has dropped, and the    *)
(* store holds none of a task that has finished its cleanup.               *)
THEOREM SessionsStoredTheorem == Spec => []SessionsStored
<1>1. SessionInv => SessionsStored
  BY DEF SessionInv, TypeInv, TypeOK, ServerTypeOK, RegistrySound, StoreSound, SessionsStored,
         ActiveSessions, StoredPc, ConnPc
<1> QED BY <1>1, SessionInvariant, PTL

(* Whatever order client tasks end in, the last one leaves Waiting behind. *)
THEOREM StateSettlesTheorem == Spec => []StateSettles
<1>1. SessionInv => StateSettles
  BY DEF SessionInv, TypeInv, TypeOK, ServerTypeOK, StateSound, StateSettles, SettlePc, StoredPc
<1> QED BY <1>1, SessionInvariant, PTL

(* A task cleans up only when its connection is lost, and a connection     *)
(* that is lost stays so.                                                  *)
CleanupPc == {"sweep", "release", "releaseShut"}
CleanupLost == \A c \in Conns : cpc[c] \in CleanupPc => net[c] = "lost"

(* A write by another task may stall a silent connection, no more.         *)
LEMMA WriteLost ==
  ASSUME TypeInv, NEW d, NEW p, WriteOk(d, p) \/ WriteErr(d), NEW c \in Conns, net[c] = "lost"
  PROVE  net'[c] = "lost"
BY DEF TypeInv, TypeOK, ServerTypeOK, WireTypeOK, WriteOk, WriteErr, wire

LEMMA LostStays ==
  ASSUME TypeInv, [Next]_vars, NEW c \in Conns, net[c] = "lost"
  PROVE  net'[c] = "lost"
<1> USE DEF TypeInv, TypeOK, ServerTypeOK, WireTypeOK
<1>1. ASSUME NEW b \in Conns, ServerStep(b) PROVE net'[c] = "lost"
  <2>1. CASE SendPong(b)
    BY <2>1, WriteLost DEF SendPong
  <2>2. CASE AuthOk(b) \/ AuthFail(b)
    BY <2>2 DEF AuthOk, AuthFail
  <2>3. CASE ~(SendPong(b) \/ AuthOk(b) \/ AuthFail(b))
    BY <1>1, <2>3
    DEF ServerStep, ConnStep, Accept, ClosePrevious, SetConnected, SaveSession,
        InsertSession, ReadPacket, ReadEnd, Deliver, ConfirmOpen, ConnUnroute, ConnUnlink,
        ConnShut, Sweep, Release, ReleaseShut, ForgetSession, RestoreSession, CheckEmpty,
        SetWaiting, wire
  <2> QED BY <2>1, <2>2, <2>3
<1>2. ASSUME NEW a \in Apps, LinkStep(a) PROVE net'[c] = "lost"
  <2>1. CASE SendOpen(a) \/ SendData(a) \/ SendClose(a)
    BY <2>1, WriteLost DEF SendOpen, SendData, SendClose
  <2>2. CASE ~(SendOpen(a) \/ SendData(a) \/ SendClose(a))
    BY <1>2, <2>2
    DEF LinkStep, AppStep, TakeLinkId, PickClient, Reject, AddLink, AddRoute,
        SetLinkWaiting, ReadApp, ReadAppEnd, AppUnroute, AppUnlink, AppShut, wire
  <2> QED BY <2>1, <2>2
<1>3. ASSUME NEW b \in Conns, PeerStep(b) PROVE net'[c] = "lost"
  BY <1>3
  DEF PeerStep, Connect, PeerRead, PeerConsume, PeerAnswer, PeerPing, PeerGone, PeerSilent,
      KernelTimeout, PeerData, PeerClose
<1>4. ASSUME NEW a \in Apps, AppConnect(a) \/ AppWrite(a) \/ AppClose(a)
      PROVE  net'[c] = "lost"
  BY <1>4 DEF AppConnect, AppWrite, AppClose, wire
<1>5. CASE Signal
  BY <1>5 DEF Signal, ShutdownStep, CloseAllLinks, DrainSessions, Exit, wire
<1> QED BY <1>1, <1>2, <1>3, <1>4, <1>5 DEF Next, Terminated, vars, wire

LEMMA CleanupNext == TypeInv /\ CleanupLost /\ [Next]_vars => CleanupLost'
<1> SUFFICES ASSUME TypeInv, CleanupLost, [Next]_vars, NEW c \in Conns, cpc'[c] \in CleanupPc
             PROVE  net[c] = "lost"
  BY LostStays DEF CleanupLost
<1>1. CASE cpc'[c] = cpc[c]
  BY <1>1 DEF CleanupLost
<1>2. ASSUME NEW b \in Conns, ServerStep(b), cpc'[c] # cpc[c] PROVE net[c] = "lost"
  <2> USE DEF TypeInv, TypeOK, ServerTypeOK, CleanupPc
  <2>1. CASE ReadEnd(b)
    BY <1>2, <2>1 DEF ReadEnd
  <2>2. CASE Sweep(b) \/ (\E id \in LinkId : Release(b, id)) \/ ReleaseShut(b)
    BY <1>2, <2>2 DEF Sweep, Release, ReleaseShut, CleanupLost
  <2>3. CASE ~(ReadEnd(b) \/ Sweep(b) \/ (\E id \in LinkId : Release(b, id)) \/ ReleaseShut(b))
    <3>1. PICK s \in ConnPc \ CleanupPc : cpc' = [cpc EXCEPT ![b] = s]
      BY <1>2, <2>3
      DEF ServerStep, ConnStep, Accept, ClosePrevious, AuthOk, AuthFail, SetConnected,
          SaveSession, InsertSession, ReadPacket, Dispatch, SendPong, Deliver, ConfirmOpen,
          ConnUnroute, ConnUnlink, ConnShut, ForgetSession, RestoreSession, CheckEmpty,
          SetWaiting, ConnPc
    <3> QED BY <1>2, <3>1
  <2> QED BY <2>1, <2>2, <2>3
<1>3. CASE Signal
  BY <1>1, <1>3 DEF Signal, ShutdownStep, CloseAllLinks, DrainSessions, Exit, connTask
<1> QED BY <1>1, <1>2, <1>3, SessionFrame DEF vars, connTask

(* A session is taken out by ClosePrevious and by shutdown, which shut its *)
(* writer down, by InsertSession, which leaves another in its place, and   *)
(* by the cleanup of its own task, whose connection is lost.               *)
LEMMA KeptStep ==
  ASSUME SessionInv, CleanupLost, [Next]_vars, NEW c \in ActiveSessions \ ActiveSessions'
  PROVE  net[c] = "lost" \/ wshut'[c] \/ client_sessions'[AddrOf[c]] # NoConn
<1> USE DEF SessionInv, RegistrySound, TypeInv, TypeOK, ServerTypeOK, WireTypeOK
<1>1. /\ c \in Conns /\ AddrOf[c] \in Addrs /\ client_sessions[AddrOf[c]] = c
      /\ client_sessions'[AddrOf[c]] # c
  <2>1. PICK d \in Addrs : client_sessions[d] = c /\ c # NoConn
    BY DEF ActiveSessions
  <2>2. c \in Conns /\ d = AddrOf[c]
    BY <2>1
  <2>3. client_sessions'[d] # c
    BY <2>1 DEF ActiveSessions
  <2> QED BY <2>1, <2>2, <2>3
<1>2. ASSUME NEW b \in Conns, ServerStep(b)
      PROVE  net[c] = "lost" \/ wshut'[c] \/ client_sessions'[AddrOf[c]] # NoConn
  <2>1. CASE ClosePrevious(b)
    BY <1>1, <2>1, AddrAssumption DEF ClosePrevious
  <2>2. CASE InsertSession(b)
    BY <1>1, <2>2, AddrAssumption, NoConnAssumption DEF InsertSession
  <2>3. CASE ForgetSession(b)
    <3>1. b = c
      BY <1>1, <2>3, AddrAssumption DEF ForgetSession
    <3> QED BY <1>1, <2>3, <3>1 DEF ForgetSession, CleanupLost, CleanupPc
  <2>4. CASE ~(ClosePrevious(b) \/ InsertSession(b) \/ ForgetSession(b))
    <3>1. client_sessions' = client_sessions
      BY <1>2, <2>4
      DEF ServerStep, ConnStep, Accept, AuthOk, AuthFail, SetConnected, SaveSession,
          ReadPacket, ReadEnd, SendPong, Deliver, ConfirmOpen, ConnUnroute, ConnUnlink,
          ConnShut, Sweep, Release, ReleaseShut, RestoreSession, CheckEmpty, SetWaiting,
          registry
    <3> QED BY <1>1, <3>1
  <2> QED BY <2>1, <2>2, <2>3, <2>4
<1>3. CASE Signal
  BY <1>1, <1>3
  DEF Signal, ShutdownStep, CloseAllLinks, DrainSessions, Exit, registry
<1> QED BY <1>1, <1>2, <1>3, SessionFrame DEF vars, registry

(* A client whose connection is not lost stays registered until its writer *)
(* is shut down or another connection from its address is registered in    *)
(* its place: no late cleanup of an older connection takes it out.         *)
THEOREM SessionKeptWhileUpTheorem == Spec => SessionKeptWhileUp
<1> DEFINE Kept == \A c \in ActiveSessions \ ActiveSessions' :
                     net[c] = "lost" \/ wshut'[c] \/ client_sessions'[AddrOf[c]] # NoConn
<1>1. Init => CleanupLost
  BY DEF Init, ServerInit, CleanupLost, CleanupPc
<1>2. SessionInv /\ CleanupLost /\ [Next]_vars => CleanupLost'
  BY CleanupNext DEF SessionInv
<1>3. SessionInv /\ CleanupLost /\ [Next]_vars => Kept
  BY KeptStep
<1> QED BY <1>1, <1>2, <1>3, SessionInvariant, PTL DEF Spec, SessionKeptWhileUp

(* A writer is shut down when its session leaves the registry, which its   *)
(* task has entered before and does not enter again.                       *)
EarlyPc == {"idle", "prev", "auth", "connected", "save", "insert"}
ShutGone ==
  \A c \in Conns : wshut[c] =>
    cpc[c] \notin EarlyPc /\ \A d \in Addrs : client_sessions[d] # c

LEMMA ShutStep ==
  ASSUME SessionInv, ShutGone, NEW c \in Conns, ConnStep(c)
  PROVE  ShutGone'
<1> USE DEF SessionInv, ShutGone, EarlyPc, TypeInv, TypeOK, ServerTypeOK, WireTypeOK
<1>1. CASE ClosePrevious(c)
  <2> DEFINE old == client_sessions[AddrOf[c]]
  <2>1. \A d \in Addrs : client_sessions'[d] =
          IF d = AddrOf[c] THEN NoConn ELSE client_sessions[d]
    BY <1>1, AddrAssumption DEF ClosePrevious
  <2>2. old \in Conns => /\ cpc[old] \notin EarlyPc /\ old # c
                         /\ \A d \in Addrs : d # AddrOf[c] => client_sessions[d] # old
    <3> SUFFICES ASSUME old \in Conns
        PROVE  /\ cpc[old] \notin EarlyPc /\ old # c
               /\ \A d \in Addrs : d # AddrOf[c] => client_sessions[d] # old
      OBVIOUS
    <3>1. AddrOf[old] = AddrOf[c] /\ cpc[old] \in ActivePc
      BY AddrAssumption, NoConnAssumption DEF RegistrySound
    <3>2. cpc[old] \notin EarlyPc /\ old # c
      BY <1>1, <3>1 DEF ClosePrevious, ActivePc, StoredPc
    <3>3. \A d \in Addrs : client_sessions[d] = old => d = AddrOf[c]
      BY <3>1, NoConnAssumption DEF RegistrySound
    <3> QED BY <3>2, <3>3
  <2>3. \A d \in Conns : wshut'[d] => wshut[d] \/ d = old
    BY <1>1 DEF ClosePrevious
  <2>4. cpc' = [cpc EXCEPT ![c] = "auth"] /\ ~wshut[c]
    BY <1>1 DEF ClosePrevious
  <2> HIDE DEF old
  <2> SUFFICES ASSUME NEW b \in Conns, wshut'[b]
      PROVE  cpc'[b] \notin EarlyPc /\ \A d \in Addrs : client_sessions'[d] # b
    OBVIOUS
  <2>5. CASE wshut[b]
    BY <2>1, <2>4, <2>5, NoConnAssumption
  <2>6. CASE b = old
    BY <2>1, <2>2, <2>4, <2>6, NoConnAssumption
  <2> QED BY <2>3, <2>5, <2>6
<1>2. CASE InsertSession(c)
  BY <1>2, AddrAssumption DEF InsertSession, wire
<1>3. CASE ForgetSession(c)
  BY <1>3, AddrAssumption, NoConnAssumption DEF ForgetSession, wire
<1>4. CASE ~(ClosePrevious(c) \/ InsertSession(c) \/ ForgetSession(c))
  <2>1. UNCHANGED <<client_sessions, wshut>>
    BY <1>4
    DEF ConnStep, Accept, AuthOk, AuthFail, SetConnected, SaveSession, ReadPacket, ReadEnd,
        SendPong, WriteOk, WriteErr, Deliver, ConfirmOpen, ConnUnroute, ConnUnlink, ConnShut,
        Sweep, Release, ReleaseShut, RestoreSession, CheckEmpty, SetWaiting, registry, wire
  <2>2. PICK s \in ConnPc : /\ cpc' = [cpc EXCEPT ![c] = s]
                            /\ cpc[c] \notin EarlyPc => s \notin EarlyPc
    BY <1>4
    DEF ConnStep, Accept, AuthOk, AuthFail, SetConnected, SaveSession, ReadPacket, Dispatch,
        ReadEnd, SendPong, Deliver, ConfirmOpen, ConnUnroute, ConnUnlink, ConnShut, Sweep,
        Release, ReleaseShut, RestoreSession, CheckEmpty, SetWaiting, ConnPc
  <2> QED BY <2>1, <2>2
<1> QED BY <1>1, <1>2, <1>3, <1>4

LEMMA ShutNext == SessionInv /\ ShutGone /\ [Next]_vars => ShutGone'
<1> SUFFICES ASSUME SessionInv, ShutGone, [Next]_vars PROVE ShutGone'
  OBVIOUS
<1>1. ASSUME NEW c \in Conns, ServerStep(c) PROVE ShutGone'
  BY <1>1, ShutStep DEF ServerStep
<1>2. CASE Signal
  <2>1. CASE DrainSessions
    <3>1. \A c \in ActiveSessions : cpc[c] \notin EarlyPc
      BY DEF SessionInv, RegistrySound, ActiveSessions, ActivePc, StoredPc, EarlyPc
    <3>2. \A c \in Conns : c # NoConn
      BY NoConnAssumption
    <3> QED BY <2>1, <3>1, <3>2 DEF DrainSessions, connTask, ShutGone
  <2>2. CASE CloseAllLinks \/ Exit
    BY <2>2 DEF CloseAllLinks, Exit, wire, registry, connTask, ShutGone
  <2> QED BY <1>2, <2>1, <2>2 DEF Signal, ShutdownStep
<1>3. CASE UNCHANGED <<client_sessions, cpc, wshut>>
  BY <1>3 DEF ShutGone
<1>4. CASE Next /\ ~Signal /\ \A c \in Conns : ~ServerStep(c)
  <2>1. UNCHANGED <<client_sessions, cpc>>
    BY <1>4, SessionFrame
  <2>2. wshut' = wshut
    <3>1. ASSUME NEW a \in Apps, LinkStep(a) PROVE wshut' = wshut
      BY <3>1 DEF LinkStep, AppStep, TakeLinkId, PickClient, Reject, AddLink, AddRoute,
         SendOpen, WriteOk, WriteErr, SetLinkWaiting, ReadApp, ReadAppEnd, SendData,
         SendClose, AppUnroute, AppUnlink, AppShut, wire
    <3>2. ASSUME NEW c \in Conns, PeerStep(c) PROVE wshut' = wshut
      BY <3>2 DEF PeerStep, Connect, PeerRead, PeerConsume, PeerAnswer, PeerPing, PeerGone,
         PeerSilent, KernelTimeout, PeerData, PeerClose
    <3>3. ASSUME NEW a \in Apps, AppConnect(a) \/ AppWrite(a) \/ AppClose(a)
          PROVE  wshut' = wshut
      BY <3>3 DEF AppConnect, AppWrite, AppClose, wire
    <3> QED BY <1>4, <3>1, <3>2, <3>3 DEF Next, Terminated, vars, wire
  <2> QED BY <1>3, <2>1, <2>2
<1> QED BY <1>1, <1>2, <1>3, <1>4 DEF vars, wire, registry, connTask

(* A session that may be picked for a new link has a writer that nobody    *)
(* has shut down, however reconnections from one address, cleanups and     *)
(* shutdown interleave.                                                    *)
THEOREM RegisteredWritableTheorem == Spec => []RegisteredWritable
<1>1. Init => ShutGone
  BY DEF Init, ServerInit, WireInit, ShutGone
<1>2. SessionInv /\ ShutGone => RegisteredWritable
  BY ZenonT(60)
  DEF SessionInv, TypeInv, TypeOK, ServerTypeOK, ShutGone, RegisteredWritable,
      ActiveSessions
<1> QED BY <1>1, <1>2, ShutNext, SessionInvariant, PTL DEF Spec
=============================================================================
