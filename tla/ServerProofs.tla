---------------------------- MODULE ServerProofs ----------------------------
(***************************************************************************)
(* Proofs about ServerWorld, for any number of clients, addresses and      *)
(* applications.                                                           *)
(***************************************************************************)
EXTENDS ServerWorld, FiniteSetTheorems, TLAPS

(* What the operators of Wire build and take apart is typed.               *)
LEMMA PacketTyping ==
  /\ NoPacket \in Packet
  /\ \A t \in PacketType : ControlPacket(t) \in Packet
  /\ \A t \in PacketType, i \in LinkId, a \in Apps \cup {NoApp} :
       LinkPacket(t, i, a) \in Packet
  /\ \A p \in Packet : /\ p.type \in PacketType
                       /\ p.link \in LinkId
                       /\ p.app \in Apps \cup {NoApp}
BY WidthAssumption DEF NoPacket, ControlPacket, LinkPacket, Packet, PacketType, LinkId

(* The queues stay sequences of packets when one is written.               *)
LEMMA WriteTyping ==
  ASSUME WireTypeOK, NEW c \in Conns, NEW p \in Packet,
         WriteOk(c, p) \/ WriteErr(c)
  PROVE  WireTypeOK'
<1>1. CASE WriteOk(c, p) /\ net[c] # "lost"
  <2>1. Append(down[c], p) \in Seq(Packet)
    BY DEF WireTypeOK
  <2>2. down' \in [Conns -> Seq(Packet)] /\ net' \in [Conns -> NetState]
    BY <1>1, <2>1 DEF WireTypeOK, WriteOk, NetState
  <2> QED BY <1>1, <2>2 DEF WireTypeOK, WriteOk
<1>2. CASE WriteErr(c) \/ (WriteOk(c, p) /\ net[c] = "lost")
  BY <1>2 DEF WireTypeOK, WriteOk, WriteErr, wire
<1> QED BY <1>1, <1>2

(* client_exchange, handle_gateway_connection and cleanup_client keep the  *)
(* types.                                                                  *)
LEMMA ConnTyping ==
  ASSUME TypeOK, NEW c \in Conns, ConnStep(c), UNCHANGED peerOpen
  PROVE  TypeOK'
<1> USE DEF TypeOK, ServerTypeOK
<1>1. CASE Accept(c)
  BY <1>1 DEF Accept, ConnPc, wire, registry, appTask, linkObj, appSock, WireTypeOK
<1>2. CASE ClosePrevious(c)
  BY <1>2, AddrAssumption DEF ClosePrevious, ConnPc, appTask, linkObj, appSock, WireTypeOK
<1>3. CASE AuthOk(c)
  BY <1>3 DEF AuthOk, ConnPc, NetState, registry, appTask, linkObj, appSock, WireTypeOK
<1>4. CASE AuthFail(c)
  BY <1>4 DEF AuthFail, ConnPc, NetState, registry, appTask, linkObj, appSock, WireTypeOK
<1>5. CASE SetConnected(c)
  BY <1>5 DEF SetConnected, ConnPc, wire, appTask, linkObj, appSock, WireTypeOK
<1>6. CASE SaveSession(c)
  BY <1>6 DEF SaveSession, ConnPc, wire, appTask, linkObj, appSock, WireTypeOK
<1>7. CASE InsertSession(c)
  BY <1>7, AddrAssumption
  DEF InsertSession, ConnPc, wire, appTask, linkObj, appSock, WireTypeOK
<1>8. CASE ReadPacket(c)
  <2>1. Head(up[c]) \in Packet /\ Tail(up[c]) \in Seq(Packet)
    BY <1>8 DEF ReadPacket, WireTypeOK
  <2>2. Dispatch(Head(up[c]).type) \in ConnPc
    BY DEF Dispatch, ConnPc
  <2> QED BY <1>8, <2>1, <2>2, PacketTyping
          DEF ReadPacket, registry, appTask, linkObj, appSock, WireTypeOK
<1>9. CASE ReadEnd(c)
  BY <1>9 DEF ReadEnd, ConnPc, wire, registry, appTask, linkObj, appSock, WireTypeOK
<1>10. CASE SendPong(c)
  <2>1. WireTypeOK'
    BY <1>10, PacketTyping, WriteTyping DEF SendPong, PacketType
  <2> QED BY <1>10, <2>1, PacketTyping
          DEF SendPong, ConnPc, registry, appTask, linkObj, appSock
<1>11. CASE Deliver(c)
  <2>1. pkt[c].app \in Apps \cup {NoApp}
    BY PacketTyping
  <2>2. foreign' \in [Apps -> SUBSET (Apps \cup {NoApp})]
    BY <1>11, <2>1 DEF Deliver
  <2> QED BY <1>11, <2>2, PacketTyping
          DEF Deliver, ConnPc, wire, registry, appTask, linkObj, WireTypeOK
<1>12. CASE ConfirmOpen(c)
  BY <1>12, PacketTyping
  DEF ConfirmOpen, ConnPc, LinkState, wire, registry, appTask, appSock, WireTypeOK
<1>13. CASE ConnUnroute(c)
  BY <1>13, PacketTyping
  DEF ConnUnroute, RouteRemove, ConnPc, wire, appTask, linkObj, appSock, WireTypeOK
<1>14. CASE ConnUnlink(c)
  BY <1>14, PacketTyping
  DEF ConnUnlink, RegistryRemove, ConnPc, wire, appTask, linkObj, appSock, WireTypeOK
<1>15. CASE ConnShut(c)
  BY <1>15, PacketTyping
  DEF ConnShut, CloseConnection, ConnPc, LinkState, wire, registry, appTask, linkObj,
      appSock, WireTypeOK
<1>16. CASE Sweep(c)
  BY <1>16 DEF Sweep, RoutesOf, ConnPc, wire, appTask, linkObj, appSock, WireTypeOK
<1>17. CASE \E id \in LinkId : Release(c, id)
  BY <1>17 DEF Release, RegistryRemove, ConnPc, wire, appTask, linkObj, appSock, WireTypeOK
<1>18. CASE ReleaseShut(c)
  BY <1>18
  DEF ReleaseShut, CloseConnection, ConnPc, LinkState, wire, registry, appTask, linkObj,
      appSock, WireTypeOK
<1>19. CASE ForgetSession(c)
  BY <1>19 DEF ForgetSession, ConnPc, wire, appTask, linkObj, appSock, WireTypeOK
<1>20. CASE RestoreSession(c)
  BY <1>20 DEF RestoreSession, ConnPc, wire, appTask, linkObj, appSock, WireTypeOK
<1>21. CASE CheckEmpty(c)
  BY <1>21 DEF CheckEmpty, ConnPc, wire, registry, appTask, linkObj, appSock, WireTypeOK
<1>22. CASE SetWaiting(c)
  BY <1>22 DEF SetWaiting, ConnPc, wire, appTask, linkObj, appSock, WireTypeOK
<1> QED
  BY <1>1, <1>2, <1>3, <1>4, <1>5, <1>6, <1>7, <1>8, <1>9, <1>10, <1>11, <1>12,
     <1>13, <1>14, <1>15, <1>16, <1>17, <1>18, <1>19, <1>20, <1>21, <1>22
  DEF ConnStep

(* A task past the choice of a session has a client to write to.           *)
ClientPicked ==
  \A a \in Apps : apc[a] \notin {"idle", "newid", "pick", "rejected"} => client[a] \in Conns

TypeInv == TypeOK /\ ClientPicked

(* handle_app_connection and app_exchange keep the types.                  *)
LEMMA AppTyping ==
  ASSUME TypeInv, NEW a \in Apps, AppStep(a), UNCHANGED peerOpen
  PROVE  TypeInv'
<1> USE DEF TypeInv, TypeOK, ServerTypeOK
<1>1. CASE TakeLinkId(a)
  <2>1. NextLinkId \in LinkId
    BY WidthAssumption DEF NextLinkId, LinkId
  <2> QED BY <1>1, <2>1 DEF TakeLinkId, ClientPicked, AppPc, wire, connTask, linkObj,
                            appSock, WireTypeOK
<1>2. CASE \E c \in Conns : PickClient(a, c)
  BY <1>2 DEF PickClient, ClientPicked, AppPc, wire, registry, connTask, linkObj, appSock,
              WireTypeOK
<1>3. CASE Reject(a)
  BY <1>3 DEF Reject, ClientPicked, AppPc, wire, registry, connTask, appSock, WireTypeOK
<1>4. CASE AddLink(a)
  BY <1>4 DEF AddLink, ClientPicked, AppPc, wire, connTask, linkObj, appSock, WireTypeOK
<1>5. CASE AddRoute(a)
  BY <1>5, AddrAssumption
  DEF AddRoute, ClientPicked, AppPc, wire, connTask, linkObj, appSock, WireTypeOK
<1>6. CASE SendOpen(a)
  <2>1. WireTypeOK'
    BY <1>6, PacketTyping, WriteTyping DEF SendOpen, ClientPicked, PacketType
  <2> QED BY <1>6, <2>1 DEF SendOpen, ClientPicked, AppPc, registry, connTask, linkObj, appSock
<1>7. CASE SetLinkWaiting(a)
  BY <1>7 DEF SetLinkWaiting, ClientPicked, AppPc, LinkState, wire, registry, connTask,
              appSock, WireTypeOK
<1>8. CASE ReadApp(a)
  BY <1>8 DEF ReadApp, ClientPicked, AppPc, wire, registry, connTask, linkObj, WireTypeOK
<1>9. CASE ReadAppEnd(a)
  BY <1>9 DEF ReadAppEnd, ClientPicked, AppPc, wire, registry, connTask, linkObj, appSock,
              WireTypeOK
<1>10. CASE SendData(a)
  <2>1. WireTypeOK'
    BY <1>10, PacketTyping, WriteTyping DEF SendData, ClientPicked, PacketType
  <2> QED BY <1>10, <2>1 DEF SendData, ClientPicked, AppPc, registry, connTask, linkObj, appSock
<1>11. CASE SendClose(a)
  <2>1. WireTypeOK'
    BY <1>11, PacketTyping, WriteTyping DEF SendClose, ClientPicked, PacketType
  <2> QED BY <1>11, <2>1 DEF SendClose, ClientPicked, AppPc, registry, connTask, linkObj, appSock
<1>12. CASE AppUnroute(a)
  BY <1>12 DEF AppUnroute, RouteRemove, ClientPicked, AppPc, wire, connTask, linkObj,
               appSock, WireTypeOK
<1>13. CASE AppUnlink(a)
  BY <1>13 DEF AppUnlink, RegistryRemove, ClientPicked, AppPc, wire, connTask, linkObj,
               appSock, WireTypeOK
<1>14. CASE AppShut(a)
  BY <1>14 DEF AppShut, CloseConnection, ClientPicked, AppPc, LinkState, wire, registry,
               connTask, linkObj, appSock, WireTypeOK
<1> QED
  BY <1>1, <1>2, <1>3, <1>4, <1>5, <1>6, <1>7, <1>8, <1>9, <1>10, <1>11, <1>12,
     <1>13, <1>14
  DEF AppStep

(* Peers and the network keep the types.                                   *)
LEMMA PeerTyping ==
  ASSUME TypeInv, NEW c \in Conns, PeerStep(c)
  PROVE  TypeInv'
<1> USE DEF TypeInv, TypeOK, ServerTypeOK, server, registry, connTask, appTask, linkObj,
            appSock, ClientPicked
<1>1. CASE Connect(c)
  BY <1>1 DEF Connect, WireTypeOK, NetState
<1>2. CASE PeerConsume(c)
  BY <1>2 DEF PeerConsume, WireTypeOK
<1>3. ASSUME NEW t \in {"Opened", "OpenFail"}, PeerAnswer(c, t)
      PROVE  TypeInv'
  <2> DEFINE p == Head(down[c])
             q == LinkPacket(t, p.link, p.app)
  <2>1. p \in Packet /\ Tail(down[c]) \in Seq(Packet)
    BY <1>3 DEF PeerAnswer, WireTypeOK
  <2>2. p.link \in LinkId /\ p.app \in Apps \cup {NoApp} /\ q \in Packet
    BY <1>3, <2>1, PacketTyping DEF PacketType
  <2>3. Append(up[c], q) \in Seq(Packet)
    BY <2>2 DEF WireTypeOK
  <2>4. WireTypeOK'
    BY <1>3, <2>1, <2>3 DEF PeerAnswer, WireTypeOK
  <2>5. (peerOpen \in [Conns -> SUBSET (LinkId \X (Apps \cup {NoApp}))])'
    BY <1>3, <2>2 DEF PeerAnswer
  <2> QED BY <1>3, <2>4, <2>5 DEF PeerAnswer
<1>4. CASE PeerPing(c)
  <2>1. ControlPacket("Ping") \in Packet
    BY PacketTyping DEF PacketType
  <2>2. Append(up[c], ControlPacket("Ping")) \in Seq(Packet)
    BY <2>1 DEF WireTypeOK
  <2> QED BY <1>4, <2>2 DEF PeerPing, WireTypeOK
<1>5. CASE PeerGone(c)
  <2>1. PICK k \in 0 .. Len(up[c]) : up' = [up EXCEPT ![c] = SubSeq(@, 1, k)]
    BY <1>5 DEF PeerGone
  <2>2. SubSeq(up[c], 1, k) \in Seq(Packet)
    BY DEF WireTypeOK
  <2> QED BY <1>5, <2>1, <2>2 DEF PeerGone, WireTypeOK, NetState
<1>6. CASE PeerSilent(c)
  BY <1>6 DEF PeerSilent, WireTypeOK, NetState
<1>7. CASE KernelTimeout(c)
  BY <1>7 DEF KernelTimeout, WireTypeOK, NetState
<1>8. ASSUME NEW l \in peerOpen[c], NEW t \in {"Regular", "Close"}
      PROVE  Append(up[c], LinkPacket(t, l[1], l[2])) \in Seq(Packet)
  <2>1. l[1] \in LinkId /\ l[2] \in Apps \cup {NoApp}
    OBVIOUS
  <2>2. LinkPacket(t, l[1], l[2]) \in Packet
    BY <2>1, PacketTyping DEF PacketType
  <2> QED BY <2>2 DEF WireTypeOK
<1>9. ASSUME NEW l \in peerOpen[c], PeerData(c, l)
      PROVE  TypeInv'
  BY <1>8, <1>9 DEF PeerData, WireTypeOK
<1>10. ASSUME NEW l \in peerOpen[c], PeerClose(c, l)
       PROVE  TypeInv'
  BY <1>8, <1>10 DEF PeerClose, WireTypeOK
<1> QED
  BY <1>1, <1>2, <1>3, <1>4, <1>5, <1>6, <1>7, <1>9, <1>10 DEF PeerStep, PeerRead

(* Applications keep the types.                                            *)
LEMMA SocketTyping ==
  ASSUME TypeInv, NEW a \in Apps, AppConnect(a) \/ AppWrite(a) \/ AppClose(a)
  PROVE  TypeInv'
<1> USE DEF TypeInv, TypeOK, ServerTypeOK, WireTypeOK, SockState, AppPc, ClientPicked, wire,
            server, registry, connTask, appTask, linkObj
<1>1. CASE AppConnect(a)
  BY <1>1 DEF AppConnect
<1>2. CASE AppWrite(a)
  BY <1>2 DEF AppWrite
<1>3. CASE AppClose(a)
  <2>1. asock' \in [Apps -> SockState]
    <3>1. PICK s \in {"fin", "rst"} : asock' = [asock EXCEPT ![a] = s]
      BY <1>3 DEF AppClose
    <3> QED BY <3>1
  <2>2. unread' \in [Apps -> Nat]
    BY <1>3 DEF AppClose
  <2> QED BY <1>3, <2>1, <2>2 DEF AppClose
<1> QED BY <1>1, <1>2, <1>3

(* GatewayServer::shutdown keeps the types.                                *)
LEMMA SignalTyping ==
  ASSUME TypeInv, Signal
  PROVE  TypeInv'
<1> USE DEF TypeInv, TypeOK, ServerTypeOK, WireTypeOK, LinkState, ShutdownPc, ClientPicked,
            wire, registry, connTask, appTask, linkObj, appSock
<1>1. CASE CloseAllLinks
  BY <1>1 DEF CloseAllLinks, Signal
<1>2. CASE DrainSessions
  BY <1>2 DEF DrainSessions, Signal
<1>3. CASE Exit
  BY <1>3 DEF Exit, Signal
<1> QED BY <1>1, <1>2, <1>3 DEF Signal, ShutdownStep

(* The type invariant holds initially and every step keeps it.             *)
LEMMA InitTyping == Init => TypeInv
<1> SUFFICES ASSUME Init PROVE TypeInv
  OBVIOUS
<1>1. WireTypeOK
  BY DEF Init, ServerInit, WireInit, WireTypeOK, NetState
<1>2. 0 \in LinkId /\ 1 \in LinkId
  BY WidthAssumption DEF LinkId
<1> QED BY <1>1, <1>2, PacketTyping
        DEF Init, ServerInit, TypeInv, TypeOK, ServerTypeOK, ClientPicked, ConnPc, AppPc,
            LinkState, SockState, ShutdownPc

LEMMA NextTyping == TypeInv /\ [Next]_vars => TypeInv'
<1> SUFFICES ASSUME TypeInv, [Next]_vars PROVE TypeInv'
  OBVIOUS
<1>1. ASSUME NEW c \in Conns, ServerStep(c) PROVE TypeInv'
  <2>1. TypeOK'
    BY <1>1, ConnTyping DEF ServerStep, TypeInv
  <2>2. UNCHANGED <<apc, client>>
    BY <1>1
    DEF ServerStep, ConnStep, Accept, ClosePrevious, AuthOk, AuthFail, SetConnected,
        SaveSession, InsertSession, ReadPacket, ReadEnd, SendPong, Deliver, ConfirmOpen,
        ConnUnroute, ConnUnlink, ConnShut, Sweep, Release, ReleaseShut, ForgetSession,
        RestoreSession, CheckEmpty, SetWaiting, appTask
  <2> QED BY <2>1, <2>2 DEF TypeInv, ClientPicked
<1>2. CASE UNCHANGED vars
  BY <1>2 DEF vars, wire, registry, connTask, appTask, linkObj, appSock, TypeInv, TypeOK,
              ServerTypeOK, WireTypeOK, ClientPicked
<1> QED
  BY <1>1, <1>2, AppTyping, PeerTyping, SocketTyping, SignalTyping
  DEF Next, LinkStep, Terminated

(* Every variable keeps its type, for any number of clients and            *)
(* applications.                                                           *)
THEOREM TypeCorrect == Spec => []TypeOK
<1>1. Spec => []TypeInv
  BY InitTyping, NextTyping, PTL DEF Spec
<1>2. TypeInv => TypeOK
  BY DEF TypeInv
<1> QED BY <1>1, <1>2, PTL
=============================================================================
