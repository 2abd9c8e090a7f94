---------------------------- MODULE ClientProofs ----------------------------
(***************************************************************************)
(* Proofs about ClientWorld, for any number of connections, applications   *)
(* and link numbers: the types, and the registry of links over             *)
(* reconnections.                                                          *)
(***************************************************************************)
EXTENDS ClientWorld, FiniteSetTheorems, TLAPS

(* What the operators of Wire build and take apart is typed.               *)
LEMMA PacketTyping ==
  /\ NoPacket \in Chan!Packet
  /\ \A t \in Chan!PacketType : Chan!ControlPacket(t) \in Chan!Packet
  /\ \A t \in Chan!PacketType, i \in Chan!LinkId, a \in Apps \cup {NoApp} :
       Chan!LinkPacket(t, i, a) \in Chan!Packet
  /\ \A p \in Chan!Packet : /\ p.type \in Chan!PacketType
                            /\ p.link \in Chan!LinkId
                            /\ p.app \in Apps \cup {NoApp}
BY ClientWidthAssumption
DEF NoPacket, Chan!ControlPacket, Chan!LinkPacket, Chan!Packet, Chan!PacketType, Chan!LinkId

(* What a write does: the packet is appended to a connection that is not   *)
(* lost and not shut down, or nothing happens.                             *)
Appended(c, p) ==
  /\ net[c] # "lost" /\ ~wshut[c]
  /\ outbox' = [outbox EXCEPT ![c] = Append(@, p)]
  /\ net' = [net EXCEPT ![c] = IF @ = "silent" THEN "stalled" ELSE @]
Dropped(c) ==
  /\ net[c] = "lost" \/ wshut[c]
  /\ outbox' = outbox /\ net' = net

LEMMA WriteEffect ==
  ASSUME NEW c, NEW p, Chan!WriteOk(c, p) \/ Chan!WriteErr(c)
  PROVE  /\ inbox' = inbox /\ wshut' = wshut
         /\ Appended(c, p) \/ Dropped(c)
BY DEF Chan!WriteOk, Chan!WriteErr, Chan!wire, Appended, Dropped

(* The queues stay sequences of packets when one is written.               *)
LEMMA WriteTyping ==
  ASSUME Chan!WireTypeOK, NEW c \in Conns, NEW p \in Chan!Packet,
         Chan!WriteOk(c, p) \/ Chan!WriteErr(c)
  PROVE  Chan!WireTypeOK'
<1>1. CASE Appended(c, p)
  <2>1. Append(outbox[c], p) \in Seq(Chan!Packet)
    BY DEF Chan!WireTypeOK
  <2>2. outbox' \in [Conns -> Seq(Chan!Packet)] /\ net' \in [Conns -> Chan!NetState]
    BY <1>1, <2>1 DEF Chan!WireTypeOK, Appended, Chan!NetState
  <2> QED BY <2>2, WriteEffect DEF Chan!WireTypeOK
<1>2. CASE Dropped(c)
  BY <1>2, WriteEffect DEF Chan!WireTypeOK, Dropped
<1> QED BY <1>1, <1>2, WriteEffect

(* The task of run has a connection from connect_gateway to the end of     *)
(* on_disconnection, an app_exchange one to write to, and connect_client   *)
(* makes a link with the number that the server sent.                      *)
Placed ==
  /\ mpc \notin {"connect", "sleep"} => conn \in Conns
  /\ \A a \in Apps : apc[a] # "idle" => writer[a] \in Conns
  /\ mpc \in {"add", "confirm", "opened"} =>
       /\ cur = pkt.app
       /\ \A a \in Apps : a = cur => linkId[a] = pkt.link /\ writer[a] = conn

TypeInv == TypeOK /\ Placed

(* The task of run keeps the types.                                        *)
LEMMA RunTyping ==
  ASSUME TypeInv, RunStep, UNCHANGED serverEnd
  PROVE  TypeInv'
<1> USE DEF TypeInv, TypeOK, ClientTypeOK, Placed, serverEnd
<1>1. CASE \E c \in Conns : ConnectGateway(c)
  BY <1>1 DEF ConnectGateway, RunPc, registry, appTask, linkObj, appSock, Chan!WireTypeOK,
              Chan!NetState
<1>2. CASE ConnectFail \/ Retry
  BY <1>2 DEF ConnectFail, Retry, RunPc, wire, registry, appTask, linkObj, appSock,
              Chan!WireTypeOK
<1>3. CASE StoreWriter \/ SetProcessing \/ ForgetWriter \/ SetWaiting
  BY <1>3 DEF StoreWriter, SetProcessing, ForgetWriter, SetWaiting, RunPc, wire, appTask,
              linkObj, appSock, Chan!WireTypeOK
<1>4. CASE AuthOk \/ AuthFail \/ ReadEnd \/ DialFail
  BY <1>4 DEF AuthOk, AuthFail, ReadEnd, DialFail, RunPc, wire, registry, appTask, linkObj,
              appSock, Chan!WireTypeOK
<1>5. CASE DiscardWriter
  BY <1>5 DEF DiscardWriter, RunPc, appTask, linkObj, appSock, Chan!WireTypeOK, Chan!NetState
<1>6. CASE SetConnected
  BY <1>6 DEF SetConnected, RunPc, PingState, wire, appTask, linkObj, appSock,
              Chan!WireTypeOK
<1>7. CASE ReadPacket
  <2>1. conn \in Conns
    BY <1>7 DEF ReadPacket
  <2>2. Head(inbox[conn]) \in Chan!Packet /\ Tail(inbox[conn]) \in Seq(Chan!Packet)
    BY <1>7, <2>1 DEF ReadPacket, Chan!WireTypeOK
  <2>3. mpc' \in RunPc /\ mpc' \notin {"connect", "sleep", "add", "confirm", "opened"}
    BY <1>7 DEF ReadPacket, Dispatch, RunPc
  <2> QED BY <1>7, <2>1, <2>2, <2>3
          DEF ReadPacket, registry, appTask, linkObj, appSock, Chan!WireTypeOK
<1>8. CASE SendPong
  <2>1. Chan!WireTypeOK'
    BY <1>8, PacketTyping, WriteTyping DEF SendPong, Answer, Chan!PacketType
  <2> QED BY <1>8, <2>1, PacketTyping
          DEF SendPong, RunPc, registry, appTask, linkObj, appSock
<1>9. CASE Dial
  BY <1>9, PacketTyping
  DEF Dial, RunPc, SockState, wire, registry, linkObj, Chan!WireTypeOK
<1>10. CASE SendOpenFail
  <2>1. Chan!WireTypeOK'
    BY <1>10, PacketTyping, WriteTyping DEF SendOpenFail, Answer, Chan!PacketType
  <2> QED BY <1>10, <2>1, PacketTyping
          DEF SendOpenFail, RunPc, registry, appTask, linkObj, appSock
<1>11. CASE AddLink
  BY <1>11, PacketTyping
  DEF AddLink, RunPc, wire, appTask, linkObj, appSock, Chan!WireTypeOK
<1>12. CASE ConfirmLink
  BY <1>12
  DEF ConfirmLink, RunPc, LinkState, wire, registry, appTask, appSock, Chan!WireTypeOK
<1>13. CASE SendOpened
  <2>1. Chan!WireTypeOK'
    BY <1>13, PacketTyping, WriteTyping DEF SendOpened, Answer, Chan!PacketType
  <2> QED BY <1>13, <2>1, PacketTyping
          DEF SendOpened, RunPc, AppPc, registry, linkObj, appSock
<1>14. CASE Unlink
  BY <1>14, PacketTyping
  DEF Unlink, RunPc, wire, appTask, linkObj, appSock, Chan!WireTypeOK
<1>15. CASE ShutLink
  BY <1>15, PacketTyping
  DEF ShutLink, RunPc, LinkState, wire, registry, appTask, appSock, Chan!WireTypeOK
<1>16. CASE Forward
  <2>1. pkt.app \in Apps \cup {NoApp}
    BY PacketTyping
  <2>2. foreign' \in [Apps -> SUBSET (Apps \cup {NoApp})]
    BY <1>16, <2>1 DEF Forward
  <2> QED BY <1>16, <2>2, PacketTyping
          DEF Forward, RunPc, wire, registry, appTask, linkObj, Chan!WireTypeOK
<1>17. CASE CloseLinks
  BY <1>17
  DEF CloseLinks, CloseAllLinks, RunPc, LinkState, wire, appTask, appSock, Chan!WireTypeOK
<1> QED
  BY <1>1, <1>2, <1>3, <1>4, <1>5, <1>6, <1>7, <1>8, <1>9, <1>10, <1>11, <1>12,
     <1>13, <1>14, <1>15, <1>16, <1>17 DEF RunStep

(* app_exchange keeps the types.                                           *)
LEMMA AppTyping ==
  ASSUME TypeInv, NEW a \in Apps, AppStep(a), UNCHANGED serverEnd
  PROVE  TypeInv'
<1> USE DEF TypeInv, TypeOK, ClientTypeOK, Placed, serverEnd
<1>1. CASE ReadApp(a)
  BY <1>1, SMTT(30) DEF ReadApp, AppPc, wire, registry, runTask, linkObj, Chan!WireTypeOK
<1>2. CASE ReadAppEnd(a)
  BY <1>2 DEF ReadAppEnd, AppPc, wire, registry, runTask, linkObj, appSock, Chan!WireTypeOK
<1>3. CASE SendData(a)
  <2>1. Chan!WireTypeOK'
    BY <1>3, PacketTyping, WriteTyping DEF SendData, Chan!PacketType
  <2> QED BY <1>3, <2>1 DEF SendData, AppPc, registry, runTask, linkObj, appSock
<1>4. CASE SendClose(a)
  <2>1. Chan!WireTypeOK'
    BY <1>4, PacketTyping, WriteTyping DEF SendClose, Answer, Chan!PacketType
  <2> QED BY <1>4, <2>1 DEF SendClose, AppPc, registry, runTask, linkObj, appSock
<1>5. CASE RemoveLink(a)
  BY <1>5 DEF RemoveLink, AppPc, wire, runTask, linkObj, appSock, Chan!WireTypeOK
<1> QED BY <1>1, <1>2, <1>3, <1>4, <1>5 DEF AppStep

(* So do the ping loops, the commands and graceful shutdown.               *)
LEMMA ProcessTyping ==
  ASSUME TypeInv, UNCHANGED serverEnd,
         ManualPing \/ ShutdownStep \/ \E c \in Conns : PingTick(c)
  PROVE  TypeInv'
<1> USE DEF TypeInv, TypeOK, ClientTypeOK, Placed, serverEnd
<1>1. CASE \E c \in Conns : PingTick(c)
  <2>1. PICK c \in Conns : PingTick(c)
    BY <1>1
  <2>2. Chan!WireTypeOK'
    BY <2>1, PacketTyping, WriteTyping DEF PingTick, Chan!PacketType
  <2> QED BY <2>1, <2>2 DEF PingTick, PingState, registry, runTask, appTask, linkObj, appSock
<1>2. CASE ManualPing
  <2>1. Chan!WireTypeOK'
    BY <1>2, PacketTyping, WriteTyping DEF ManualPing, Answer, Chan!PacketType
  <2> QED BY <1>2, <2>1 DEF ManualPing, registry, runTask, appTask, linkObj, appSock
<1>3. CASE BeginShutdown
  BY <1>3 DEF BeginShutdown, CloseAllLinks, ShutdownPc, LinkState, wire, runTask, appTask,
              appSock, Chan!WireTypeOK
<1>4. CASE TakeWriter
  BY <1>4 DEF TakeWriter, ShutdownPc, runTask, appTask, linkObj, appSock, Chan!WireTypeOK
<1>5. CASE Exit
  BY <1>5 DEF Exit, ShutdownPc, wire, registry, runTask, appTask, linkObj, appSock,
              Chan!WireTypeOK
<1> QED BY <1>1, <1>2, <1>3, <1>4, <1>5 DEF ShutdownStep

(* A packet that the server sends joins a sequence of packets.             *)
LEMMA SendTyping ==
  ASSUME Chan!WireTypeOK, NEW c \in Conns, NEW p \in Chan!Packet, Send(c, p),
         UNCHANGED <<outbox, net, wshut>>
  PROVE  Chan!WireTypeOK'
<1>1. Append(inbox[c], p) \in Seq(Chan!Packet)
  BY DEF Chan!WireTypeOK
<1> QED BY <1>1 DEF Send, Chan!WireTypeOK

(* The server's steps keep the types.                                      *)
LEMMA ServerTyping ==
  ASSUME TypeInv, NEW c \in Conns, ServerStep(c)
  PROVE  TypeInv'
<1> USE DEF TypeInv, TypeOK, ClientTypeOK, Placed, client, registry, runTask, appTask,
            linkObj, appSock, serverEnd
<1>1. CASE SrvRead(c)
  <2> DEFINE p == Head(outbox[c])
  <2>1. Tail(outbox[c]) \in Seq(Chan!Packet)
    BY <1>1 DEF SrvRead, Chan!WireTypeOK
  <2>2. Append(inbox[c], Chan!ControlPacket("Pong")) \in Seq(Chan!Packet)
    BY PacketTyping DEF Chan!WireTypeOK, Chan!PacketType
  <2>3. Chan!WireTypeOK'
    BY <1>1, <2>1, <2>2 DEF SrvRead, Chan!WireTypeOK
  <2>4. {l \in srvLinks[c] : l[1] # p.link} \in SUBSET (Chan!LinkId \X Apps)
    OBVIOUS
  <2> QED BY <1>1, <2>3, <2>4 DEF SrvRead
<1>2. CASE SrvPing(c)
  <2>1. Chan!WireTypeOK'
    BY <1>2, PacketTyping, SendTyping DEF SrvPing, Chan!PacketType
  <2> QED BY <1>2, <2>1 DEF SrvPing
<1>3. CASE SrvGone(c)
  <2>1. PICK k \in 0 .. Len(inbox[c]) : inbox' = [inbox EXCEPT ![c] = SubSeq(@, 1, k)]
    BY <1>3 DEF SrvGone
  <2>2. SubSeq(inbox[c], 1, k) \in Seq(Chan!Packet)
    BY DEF Chan!WireTypeOK
  <2>3. Chan!WireTypeOK'
    BY <1>3, <2>1, <2>2 DEF SrvGone, Chan!WireTypeOK, Chan!NetState
  <2>4. nextId' \in Chan!LinkId
    BY <1>3, ClientWidthAssumption DEF SrvGone, Chan!LinkId
  <2> QED BY <1>3, <2>3, <2>4 DEF SrvGone
<1>4. CASE SrvSilent(c)
  BY <1>4 DEF SrvSilent, Chan!WireTypeOK, Chan!NetState
<1>5. CASE KernelTimeout(c)
  BY <1>5 DEF KernelTimeout, Chan!WireTypeOK, Chan!NetState
<1>6. CASE \E a \in Apps : SrvOpen(c, a)
  <2>1. PICK a \in Apps : SrvOpen(c, a)
    BY <1>6
  <2>2. Chan!WireTypeOK'
    BY <2>1, PacketTyping, SendTyping DEF SrvOpen, Chan!PacketType
  <2>3. nextId' \in Chan!LinkId
    BY <2>1, ClientWidthAssumption DEF SrvOpen, Chan!LinkId
  <2> QED BY <2>1, <2>2, <2>3 DEF SrvOpen
<1>7. CASE \E l \in srvLinks[c] : SrvData(c, l) \/ SrvClose(c, l)
  <2>1. PICK l \in srvLinks[c] : SrvData(c, l) \/ SrvClose(c, l)
    BY <1>7
  <2>2. l[1] \in Chan!LinkId /\ l[2] \in Apps
    OBVIOUS
  <2>3. Chan!WireTypeOK'
    BY <2>1, <2>2, PacketTyping, SendTyping DEF SrvData, SrvClose, Chan!PacketType
  <2>4. CASE SrvData(c, l)
    BY <2>3, <2>4 DEF SrvData
  <2>5. CASE SrvClose(c, l)
    BY <2>3, <2>5 DEF SrvClose
  <2> QED BY <2>1, <2>4, <2>5
<1> QED BY <1>1, <1>2, <1>3, <1>4, <1>5, <1>6, <1>7 DEF ServerStep

(* So does the local application.                                          *)
LEMMA SocketTyping ==
  ASSUME TypeInv, NEW a \in Apps, AppWrite(a) \/ AppClose(a)
  PROVE  TypeInv'
<1> USE DEF TypeInv, TypeOK, ClientTypeOK, Placed, wire, client, registry, runTask, appTask,
            linkObj, serverEnd
<1>1. CASE AppWrite(a)
  BY <1>1, SMTT(30) DEF AppWrite, Chan!WireTypeOK
<1>2. CASE AppClose(a)
  <2>1. asock' \in [Apps -> SockState] /\ unread' \in [Apps -> Nat]
    BY <1>2 DEF AppClose, SockState
  <2>2. UNCHANGED <<wire, client, wrote, foreign, serverEnd>>
    BY <1>2 DEF AppClose
  <2> QED BY <2>1, <2>2 DEF Chan!WireTypeOK
<1> QED BY <1>1, <1>2

LEMMA InitTyping == Init => TypeInv
<1> SUFFICES ASSUME Init PROVE TypeInv
  OBVIOUS
<1>1. NoPacket \in Chan!Packet /\ 0 \in Chan!LinkId /\ 1 \in Chan!LinkId
  BY PacketTyping, ClientWidthAssumption DEF Chan!LinkId
<1>2. Chan!WireTypeOK
  BY DEF Init, ClientInit, Chan!WireInit, Chan!WireTypeOK, Chan!NetState
<1> QED BY <1>1, <1>2 DEF Init, ClientInit, TypeInv, TypeOK, ClientTypeOK, Placed, RunPc,
           AppPc, PingState, SockState, LinkState, ShutdownPc

LEMMA NextTyping == TypeInv /\ [Next]_vars => TypeInv'
<1> SUFFICES ASSUME TypeInv, [Next]_vars PROVE TypeInv'
  OBVIOUS
<1>1. CASE UNCHANGED vars
  BY <1>1 DEF vars, client, wire, registry, runTask, appTask, linkObj, appSock, serverEnd,
              TypeInv, TypeOK, ClientTypeOK, Placed, Chan!WireTypeOK
<1>2. CASE Next
  BY <1>1, <1>2, RunTyping, AppTyping, ProcessTyping, ServerTyping, SocketTyping
  DEF Next, ClientStep, Command, Signal, Stopped, PingStep, LinkStep
<1> QED BY <1>1, <1>2

LEMMA TypeInvariant == Spec => []TypeInv
BY InitTyping, NextTyping, PTL DEF Spec

(* Every variable of the client and its environment keeps its type.        *)
THEOREM ClientTypeCorrect == Spec => []TypeOK
<1>1. TypeInv => TypeOK
  BY DEF TypeInv
<1> QED BY <1>1, TypeInvariant, PTL
-----------------------------------------------------------------------------
(* Each application connection is dialled once. *)

(* What the operators on sequences do to the queues.                       *)
LEMMA AppendAt ==
  ASSUME NEW S, NEW s \in Seq(S), NEW p \in S
  PROVE  /\ Len(Append(s, p)) = Len(s) + 1
         /\ \A k \in 1 .. Len(Append(s, p)) :
              Append(s, p)[k] = IF k = Len(s) + 1 THEN p ELSE s[k]
         /\ \A k \in 1 .. Len(Append(s, p)) : k # Len(s) + 1 => k \in 1 .. Len(s)
OBVIOUS

LEMMA TailAt ==
  ASSUME NEW S, NEW s \in Seq(S), s # <<>>
  PROVE  /\ Head(s) = s[1] /\ 1 \in 1 .. Len(s)
         /\ \A k \in 1 .. Len(Tail(s)) : k + 1 \in 1 .. Len(s) /\ Tail(s)[k] = s[k + 1]
OBVIOUS

LEMMA PrefixAt ==
  ASSUME NEW S, NEW s \in Seq(S), NEW n \in 0 .. Len(s)
  PROVE  \A k \in 1 .. Len(SubSeq(s, 1, n)) : k \in 1 .. Len(s) /\ SubSeq(s, 1, n)[k] = s[k]
OBVIOUS

(* A connection of the server whose Open has not been dialled has no link  *)
(* and no task.                                                            *)
Undialled(a) == a \in Apps /\ phase[a] # "new" /\ writer[a] = NoConn /\ apc[a] = "idle"

IsOpen(c, k) == k \in 1 .. Len(inbox[c]) /\ inbox[c][k].type = "Open"

OpensUndialled ==
  /\ \A c \in Conns : \A k \in Nat : IsOpen(c, k) => Undialled(inbox[c][k].app)
  /\ mpc = "dial" => Undialled(pkt.app)

(* No connection is announced twice.                                       *)
OpensOnce ==
  /\ \A c, d \in Conns : \A k, j \in Nat :
       IsOpen(c, k) /\ IsOpen(d, j) /\ inbox[c][k].app = inbox[d][j].app => c = d /\ k = j
  /\ mpc = "dial" =>
       \A c \in Conns : \A k \in Nat : IsOpen(c, k) => inbox[c][k].app # pkt.app

(* Nor before the server has it; and its task starts after Opened.         *)
NotEarly ==
  /\ \A a \in Apps : phase[a] = "new" => writer[a] = NoConn /\ apc[a] = "idle"
  /\ mpc \in {"add", "confirm", "opened"} => cur \in Apps /\ apc[cur] = "idle"

DialInv == OpensUndialled /\ OpensOnce /\ NotEarly

(* Steps of run other than these do not matter to it.                      *)
DialQuiet ==
  /\ UNCHANGED <<inbox, writer, linkId, apc, phase>>
  /\ mpc' \notin {"dial", "add", "confirm", "opened"}

LEMMA RunSteps ==
  ASSUME RunStep, UNCHANGED serverEnd
  PROVE  \/ ReadPacket \/ Dial \/ AddLink \/ ConfirmLink \/ SendOpened \/ DialQuiet
<1> USE DEF DialQuiet, wire, registry, appTask, serverEnd
<1>1. CASE \E c \in Conns : ConnectGateway(c)
  BY <1>1 DEF ConnectGateway
<1>2. CASE ConnectFail \/ Retry \/ StoreWriter \/ SetProcessing \/ AuthOk \/ AuthFail
             \/ DiscardWriter \/ SetConnected \/ ReadEnd
  BY <1>2 DEF ConnectFail, Retry, StoreWriter, SetProcessing, AuthOk, AuthFail,
              DiscardWriter, SetConnected, ReadEnd
<1>3. CASE DialFail \/ Unlink \/ ShutLink \/ Forward \/ CloseLinks \/ ForgetWriter
             \/ SetWaiting
  BY <1>3 DEF DialFail, Unlink, ShutLink, Forward, CloseLinks, ForgetWriter, SetWaiting
<1>4. CASE SendPong \/ SendOpenFail
  BY <1>4, WriteEffect DEF SendPong, SendOpenFail, Answer
<1> QED BY <1>1, <1>2, <1>3, <1>4 DEF RunStep

LEMMA RunDials ==
  ASSUME TypeInv, DialInv, RunStep, UNCHANGED serverEnd
  PROVE  DialInv'
<1> USE DEF DialInv, OpensUndialled, OpensOnce, NotEarly, Undialled, IsOpen
<1>1. CASE DialQuiet
  BY <1>1 DEF DialQuiet
<1>2. CASE ReadPacket
  <2>1. conn \in Conns /\ inbox[conn] \in Seq(Chan!Packet) /\ inbox[conn] # <<>>
    BY <1>2 DEF ReadPacket, TypeInv, Placed, TypeOK, ClientTypeOK, Chan!WireTypeOK
  <2>2. \A c \in Conns : inbox'[c] = IF c = conn THEN Tail(inbox[c]) ELSE inbox[c]
    BY <1>2 DEF ReadPacket, TypeInv, TypeOK, ClientTypeOK, Chan!WireTypeOK
  <2>3. pkt' = inbox[conn][1] /\ 1 \in 1 .. Len(inbox[conn])
    BY <1>2, <2>1, TailAt DEF ReadPacket
  <2>4. UNCHANGED <<writer, apc, phase>> /\ mpc' \notin {"add", "confirm", "opened"}
    BY <1>2 DEF ReadPacket, Dispatch, appTask, serverEnd
  <2>5. mpc' = "dial" => IsOpen(conn, 1)
    BY <1>2, <2>1, <2>3 DEF ReadPacket, Dispatch
  <2> DEFINE at(c, k) == IF c = conn THEN k + 1 ELSE k
  <2>6. \A c \in Conns, k \in Nat : IsOpen(c, k)' =>
          IsOpen(c, at(c, k)) /\ inbox'[c][k] = inbox[c][at(c, k)]
    <3>1. \A k \in 1 .. Len(Tail(inbox[conn])) :
            k + 1 \in 1 .. Len(inbox[conn]) /\ Tail(inbox[conn])[k] = inbox[conn][k + 1]
      BY <2>1, TailAt
    <3>2. ASSUME NEW c \in Conns, c = conn, NEW k \in Nat, IsOpen(c, k)'
          PROVE  IsOpen(c, k + 1) /\ inbox'[c][k] = inbox[c][k + 1]
      <4>1. inbox'[c] = Tail(inbox[conn])
        BY <2>2, <3>2
      <4> DEFINE t == Tail(inbox[conn])
      <4>2. k \in 1 .. Len(t) /\ inbox'[c][k] = t[k] /\ t[k].type = "Open"
        BY <3>2, <4>1
      <4>3. k + 1 \in 1 .. Len(inbox[conn]) /\ t[k] = inbox[conn][k + 1]
        BY <3>1, <4>2
      <4> HIDE DEF t
      <4> QED BY <3>2, <4>2, <4>3
    <3>3. ASSUME NEW c \in Conns, c # conn, NEW k \in Nat, IsOpen(c, k)'
          PROVE  IsOpen(c, k) /\ inbox'[c][k] = inbox[c][k]
      BY <2>2, <3>3
    <3> QED BY <3>2, <3>3
  <2>7. \A c \in Conns, k \in Nat : at(c, k) \in Nat /\ (c = conn /\ k > 0 => at(c, k) # 1)
    OBVIOUS
  <2> HIDE DEF IsOpen
  <2>8. OpensUndialled'
    BY <2>1, <2>3, <2>4, <2>5, <2>6, <2>7
  <2>9. \A c, d \in Conns : \A k, j \in Nat :
          c = d /\ at(c, k) = at(d, j) => k = j
    OBVIOUS
  <2>10. \A c \in Conns, k \in Nat : IsOpen(c, k)' => k > 0
    BY DEF IsOpen
  <2> HIDE DEF at
  <2>11. \A c, d \in Conns : \A k, j \in Nat :
           IsOpen(c, k)' /\ IsOpen(d, j)' /\ inbox'[c][k].app = inbox'[d][j].app
             => c = d /\ k = j
    BY <2>6, <2>7, <2>9, SMTT(30)
  <2>12. ASSUME mpc' = "dial", NEW c \in Conns, NEW k \in Nat, IsOpen(c, k)'
         PROVE  inbox'[c][k].app # pkt'.app
    <3>1. IsOpen(c, at(c, k)) /\ inbox'[c][k] = inbox[c][at(c, k)] /\ at(c, k) \in Nat
      BY <2>6, <2>7, <2>12
    <3>2. ~(c = conn /\ at(c, k) = 1)
      BY <2>7, <2>10, <2>12
    <3>3. IsOpen(conn, 1) /\ conn \in Conns /\ pkt' = inbox[conn][1]
      BY <2>1, <2>3, <2>5, <2>12
    <3> QED BY <3>1, <3>2, <3>3
  <2>13. OpensOnce'
    BY <2>11, <2>12
  <2> QED BY <2>4, <2>8, <2>13
<1>3. CASE Dial
  <2>1. pkt.app \in Apps /\ cur' = pkt.app /\ mpc' = "add"
        /\ writer' = [writer EXCEPT ![pkt.app] = conn] /\ UNCHANGED <<inbox, apc, phase>>
    BY <1>3 DEF Dial, wire, serverEnd
  <2>2. \A c \in Conns : \A k \in Nat : IsOpen(c, k) => inbox[c][k].app # pkt.app
    BY <1>3 DEF Dial
  <2> HIDE DEF IsOpen
  <2>3. OpensUndialled'
    BY <2>1, <2>2 DEF TypeInv, TypeOK, ClientTypeOK, IsOpen
  <2>4. OpensOnce'
    BY <2>1 DEF IsOpen
  <2> QED BY <1>3, <2>1, <2>3, <2>4 DEF Dial, TypeInv, TypeOK, ClientTypeOK
<1>4. CASE AddLink \/ ConfirmLink
  BY <1>4 DEF AddLink, ConfirmLink, wire, appTask, serverEnd
<1>5. CASE SendOpened
  <2>1. UNCHANGED <<inbox, writer, phase>> /\ mpc' = "loop" /\ apc' = [apc EXCEPT ![cur] = "read"]
    BY <1>5, WriteEffect DEF SendOpened, Answer, serverEnd
  <2>2. cur \in Apps /\ writer[cur] \in Conns /\ writer[cur] # NoConn
    BY <1>5, ClientNoConnAssumption DEF SendOpened, TypeInv, Placed
  <2>3. phase[cur] # "new"
    BY <2>2
  <2> QED BY <2>1, <2>2, <2>3 DEF TypeInv, TypeOK, ClientTypeOK
<1> QED BY <1>1, <1>2, <1>3, <1>4, <1>5, RunSteps
(* app_exchange moves its own task on and touches no other.                *)
LEMMA AppFrame ==
  ASSUME TypeInv, NEW a \in Apps, AppStep(a)
  PROVE  /\ apc[a] \notin {"idle", "done"}
         /\ UNCHANGED <<inbox, wshut, runTask, linkId, writer>>
         /\ \E x \in AppPc \ {"idle"} : apc' = [apc EXCEPT ![a] = x]
         /\ RemoveLink(a) \/ (links' = links /\ apc'[a] # "done")
<1> USE DEF wire, registry, runTask, AppPc, TypeInv, TypeOK, ClientTypeOK
<1>1. CASE ReadApp(a) \/ ReadAppEnd(a)
  BY <1>1 DEF ReadApp, ReadAppEnd
<1>2. CASE SendData(a)
  BY <1>2, WriteEffect DEF SendData
<1>3. CASE SendClose(a)
  BY <1>3, WriteEffect DEF SendClose, Answer
<1>4. CASE RemoveLink(a)
  BY <1>4 DEF RemoveLink
<1> QED BY <1>1, <1>2, <1>3, <1>4 DEF AppStep

LEMMA AppDials ==
  ASSUME TypeInv, DialInv, NEW a \in Apps, AppStep(a), UNCHANGED serverEnd
  PROVE  DialInv'
<1>1. PICK x \in AppPc \ {"idle"} : apc' = [apc EXCEPT ![a] = x]
  BY AppFrame
<1>2. UNCHANGED <<inbox, mpc, pkt, cur, writer, phase>> /\ apc[a] # "idle"
  BY AppFrame DEF serverEnd, runTask
<1>3. \A b \in Apps : apc[b] = "idle" => apc'[b] = "idle"
  BY <1>1, <1>2 DEF TypeInv, TypeOK, ClientTypeOK
<1>4. \A b : Undialled(b) => Undialled(b)'
  BY <1>2, <1>3 DEF Undialled
<1>5. \A c, k : IsOpen(c, k)' <=> IsOpen(c, k)
  BY <1>2 DEF IsOpen
<1>6. OpensUndialled'
  BY <1>2, <1>4, <1>5 DEF DialInv, OpensUndialled
<1>7. OpensOnce'
  BY <1>2, <1>5 DEF DialInv, OpensOnce
<1>8. NotEarly'
  BY <1>2, <1>3 DEF DialInv, NotEarly
<1> QED BY <1>6, <1>7, <1>8 DEF DialInv

(* Ping loops, commands and shutdown, and the application's socket.        *)
LEMMA ProcessFrame ==
  ASSUME ManualPing \/ ShutdownStep \/ \E c \in Conns : PingTick(c)
  PROVE  UNCHANGED <<inbox, runTask, appTask>>
<1>1. CASE ManualPing \/ \E c \in Conns : PingTick(c)
  BY <1>1, WriteEffect DEF ManualPing, PingTick, Answer
<1>2. CASE ShutdownStep
  BY <1>2 DEF ShutdownStep, BeginShutdown, TakeWriter, Exit, wire
<1> QED BY <1>1, <1>2

LEMMA QuietDials ==
  ASSUME DialInv, UNCHANGED <<inbox, runTask, appTask, phase>>
  PROVE  DialInv'
BY DEF DialInv, OpensUndialled, OpensOnce, NotEarly, Undialled, IsOpen, runTask, appTask

(* Every packet in a queue to the client after a step of the server, other *)
(* than the Open of SrvOpen, was there before or is no Open.               *)
LEMMA ServerOpens ==
  ASSUME TypeInv, NEW c \in Conns, ServerStep(c)
  PROVE  \/ /\ \A d \in Conns : \A k \in Nat : IsOpen(d, k)' =>
                 IsOpen(d, k) /\ inbox'[d][k] = inbox[d][k]
            /\ \A a \in Apps : phase'[a] = "new" => phase[a] = "new"
         \/ \E a \in Apps :
              /\ phase[a] = "new" /\ phase' = [phase EXCEPT ![a] = "opened"]
              /\ \A d \in Conns : \A k \in Nat : IsOpen(d, k)' =>
                   \/ IsOpen(d, k) /\ inbox'[d][k] = inbox[d][k]
                   \/ d = c /\ k = Len(inbox[c]) + 1 /\ inbox'[d][k].app = a
<1> USE DEF TypeInv, TypeOK, ClientTypeOK, Chan!WireTypeOK
<1>1. \A d \in Conns : inbox[d] \in Seq(Chan!Packet)
  OBVIOUS
<1>2. ASSUME NEW p \in Chan!Packet, inbox' = [inbox EXCEPT ![c] = Append(@, p)]
      PROVE  \A d \in Conns : \A k \in Nat : IsOpen(d, k)' =>
               \/ IsOpen(d, k) /\ inbox'[d][k] = inbox[d][k]
               \/ d = c /\ k = Len(inbox[c]) + 1 /\ inbox'[d][k] = p /\ p.type = "Open"
  <2> SUFFICES ASSUME NEW d \in Conns, NEW k \in Nat, IsOpen(d, k)'
      PROVE  \/ IsOpen(d, k) /\ inbox'[d][k] = inbox[d][k]
             \/ d = c /\ k = Len(inbox[c]) + 1 /\ inbox'[d][k] = p /\ p.type = "Open"
    OBVIOUS
  <2>1. CASE d # c
    BY <1>2, <2>1 DEF IsOpen
  <2>2. CASE d = c
    <3>1. inbox'[d] = Append(inbox[d], p)
      BY <1>2, <2>2
    <3>2. /\ Append(inbox[d], p)[k] = IF k = Len(inbox[d]) + 1 THEN p ELSE inbox[d][k]
          /\ k # Len(inbox[d]) + 1 => k \in 1 .. Len(inbox[d])
      BY <1>1, <3>1, AppendAt DEF IsOpen
    <3> QED BY <2>2, <3>1, <3>2 DEF IsOpen
  <2> QED BY <2>1, <2>2
<1>3. ASSUME inbox' = inbox PROVE \A d \in Conns : \A k \in Nat : IsOpen(d, k)' =>
               IsOpen(d, k) /\ inbox'[d][k] = inbox[d][k]
  BY <1>3 DEF IsOpen
<1> DEFINE q(t) == Chan!ControlPacket(t)
<1>10. q("Pong") \in Chan!Packet /\ q("Pong").type # "Open" /\ q("Ping") \in Chan!Packet
      /\ q("Ping").type # "Open"
  BY PacketTyping DEF Chan!PacketType, Chan!ControlPacket
<1>4. CASE SrvRead(c)
  <2>1. \A a \in Apps : phase'[a] = "new" => phase[a] = "new"
    BY <1>4 DEF SrvRead
  <2>2. inbox' = inbox \/ inbox' = [inbox EXCEPT ![c] = Append(@, q("Pong"))]
    BY <1>4 DEF SrvRead
  <2> HIDE DEF q
  <2> QED BY <1>2, <1>3, <1>10, <2>1, <2>2
<1>5. CASE SrvPing(c)
  <2>1. phase' = phase /\ inbox' = [inbox EXCEPT ![c] = Append(@, q("Ping"))]
    BY <1>5 DEF SrvPing, Send, serverEnd
  <2> HIDE DEF q
  <2> QED BY <1>2, <1>10, <2>1
<1>6. CASE SrvGone(c)
  <2>1. PICK n \in 0 .. Len(inbox[c]) : inbox' = [inbox EXCEPT ![c] = SubSeq(@, 1, n)]
    BY <1>6 DEF SrvGone
  <2>2. \A k \in 1 .. Len(SubSeq(inbox[c], 1, n)) :
          k \in 1 .. Len(inbox[c]) /\ SubSeq(inbox[c], 1, n)[k] = inbox[c][k]
    BY <1>1, PrefixAt
  <2>3. ASSUME NEW d \in Conns, NEW k \in Nat, IsOpen(d, k)'
        PROVE  IsOpen(d, k) /\ inbox'[d][k] = inbox[d][k]
    <3> DEFINE t == SubSeq(inbox[c], 1, n)
    <3>1. CASE d = c
      <4>1. inbox'[d] = t
        BY <2>1, <3>1
      <4>2. \A j \in 1 .. Len(t) : j \in 1 .. Len(inbox[c]) /\ t[j] = inbox[c][j]
        BY <2>2
      <4> HIDE DEF t
      <4> QED BY <2>3, <3>1, <4>1, <4>2 DEF IsOpen
    <3>2. CASE d # c
      BY <2>1, <2>3, <3>2 DEF IsOpen
    <3> QED BY <3>1, <3>2
  <2> QED BY <1>6, <2>3 DEF SrvGone
<1>7. CASE \E a \in Apps : SrvOpen(c, a)
  <2>1. PICK a \in Apps : SrvOpen(c, a)
    BY <1>7
  <2> DEFINE p == Chan!LinkPacket("Open", nextId, a)
  <2>2. p \in Chan!Packet /\ p.app = a
    BY PacketTyping DEF Chan!PacketType, Chan!LinkPacket
  <2>3. inbox' = [inbox EXCEPT ![c] = Append(@, p)]
    BY <2>1 DEF SrvOpen, Send
  <2>4. phase[a] = "new" /\ phase' = [phase EXCEPT ![a] = "opened"]
    BY <2>1 DEF SrvOpen
  <2> HIDE DEF p
  <2>5. \A d \in Conns : \A k \in Nat : IsOpen(d, k)' =>
          \/ IsOpen(d, k) /\ inbox'[d][k] = inbox[d][k]
          \/ d = c /\ k = Len(inbox[c]) + 1 /\ inbox'[d][k].app = a
    <3>1. \A d \in Conns : \A k \in Nat : IsOpen(d, k)' =>
            \/ IsOpen(d, k) /\ inbox'[d][k] = inbox[d][k]
            \/ d = c /\ k = Len(inbox[c]) + 1 /\ inbox'[d][k] = p /\ p.type = "Open"
      BY <1>2, <2>2, <2>3
    <3> QED BY <2>2, <3>1
  <2> QED BY <2>4, <2>5
<1>8. CASE \E l \in srvLinks[c] : SrvData(c, l) \/ SrvClose(c, l)
  <2>1. PICK l \in srvLinks[c], t \in {"Regular", "Close"} :
          inbox' = [inbox EXCEPT ![c] = Append(@, Chan!LinkPacket(t, l[1], l[2]))]
    BY <1>8 DEF SrvData, SrvClose, Send
  <2> DEFINE p == Chan!LinkPacket(t, l[1], l[2])
  <2>2. l[1] \in Chan!LinkId /\ l[2] \in Apps
    OBVIOUS
  <2>3. p \in Chan!Packet /\ p.type # "Open"
    BY <2>2, PacketTyping DEF Chan!PacketType, Chan!LinkPacket
  <2>4. inbox' = [inbox EXCEPT ![c] = Append(@, p)]
    BY <2>1
  <2>5. phase' = phase
    BY <1>8 DEF SrvData, SrvClose, serverEnd
  <2> HIDE DEF p
  <2> QED BY <1>2, <2>3, <2>4, <2>5
<1>9. CASE SrvSilent(c) \/ KernelTimeout(c)
  BY <1>3, <1>9 DEF SrvSilent, KernelTimeout, serverEnd
<1> QED BY <1>4, <1>5, <1>6, <1>7, <1>8, <1>9 DEF ServerStep
LEMMA ServerDials ==
  ASSUME TypeInv, DialInv, NEW c \in Conns, ServerStep(c)
  PROVE  DialInv'
<1>1. UNCHANGED <<mpc, pkt, cur, writer, apc>>
  BY DEF ServerStep, SrvRead, SrvPing, SrvGone, SrvSilent, KernelTimeout, SrvOpen, SrvData,
         SrvClose, client, runTask, appTask
<1>2. CASE /\ \A d \in Conns : \A k \in Nat : IsOpen(d, k)' =>
                IsOpen(d, k) /\ inbox'[d][k] = inbox[d][k]
           /\ \A a \in Apps : phase'[a] = "new" => phase[a] = "new"
  BY <1>1, <1>2 DEF DialInv, OpensUndialled, OpensOnce, NotEarly, Undialled
<1>3. ASSUME NEW a \in Apps, phase[a] = "new", phase' = [phase EXCEPT ![a] = "opened"],
             \A d \in Conns : \A k \in Nat : IsOpen(d, k)' =>
               \/ IsOpen(d, k) /\ inbox'[d][k] = inbox[d][k]
               \/ d = c /\ k = Len(inbox[c]) + 1 /\ inbox'[d][k].app = a
      PROVE  DialInv'
  <2>1. \A b \in Apps : phase'[b] # "new" <=> (b = a \/ phase[b] # "new")
    BY <1>3 DEF TypeInv, TypeOK
  <2>2. \A b : Undialled(b) => b # a /\ Undialled(b)'
    BY <1>1, <1>3, <2>1 DEF Undialled
  <2>3. Undialled(a)'
    BY <1>1, <1>3, <2>1 DEF Undialled, DialInv, NotEarly
  <2>4. OpensUndialled'
    BY <1>1, <1>3, <2>2, <2>3 DEF DialInv, OpensUndialled
  <2>5. OpensOnce'
    BY <1>1, <1>3, <2>2 DEF DialInv, OpensUndialled, OpensOnce
  <2>6. NotEarly'
    BY <1>1, <2>1 DEF DialInv, NotEarly
  <2> QED BY <2>4, <2>5, <2>6 DEF DialInv
<1> QED BY <1>2, <1>3, ServerOpens

LEMMA InitDials == Init => DialInv
BY DEF Init, ClientInit, Chan!WireInit, DialInv, OpensUndialled, OpensOnce, NotEarly, IsOpen
-----------------------------------------------------------------------------
(* The registry. *)

(* close_all_links has emptied it before the client connects again, and    *)
(* gateway_exchange is the only one to fill it.                            *)
Emptied ==
  mpc \notin {"loop", "pong", "dial", "add", "confirm", "opened", "openfail", "unlink",
              "shut", "forward", "closeall"} =>
    \A i \in Chan!LinkId : links[i] = NoApp

RegistryInv == Emptied /\ RegistryCurrent

LEMMA RunRegistry ==
  ASSUME TypeInv, DialInv, RegistryInv, RunStep, UNCHANGED serverEnd
  PROVE  RegistryInv'
<1> USE DEF RegistryInv, Emptied, RegistryCurrent
<1>1. CASE \E c \in Conns : ConnectGateway(c)
  BY <1>1 DEF ConnectGateway, registry, appTask
<1>2. CASE ConnectFail \/ Retry \/ AuthOk \/ AuthFail \/ ReadEnd \/ DialFail
  BY <1>2 DEF ConnectFail, Retry, AuthOk, AuthFail, ReadEnd, DialFail, registry, appTask
<1>3. CASE StoreWriter \/ SetProcessing \/ DiscardWriter \/ SetConnected
             \/ ForgetWriter \/ SetWaiting
  BY <1>3 DEF StoreWriter, SetProcessing, DiscardWriter, SetConnected, ForgetWriter,
              SetWaiting, appTask
<1>4. CASE ReadPacket \/ SendPong \/ SendOpenFail \/ ConfirmLink \/ ShutLink \/ Forward
  <2>1. UNCHANGED <<links, conn, apc, linkId, writer>>
        /\ mpc \in {"loop", "pong", "openfail", "confirm", "shut", "forward"}
    BY <1>4 DEF ReadPacket, SendPong, SendOpenFail, ConfirmLink, ShutLink, Forward, registry,
                appTask
  <2>2. mpc' \in {"loop", "pong", "dial", "unlink", "forward", "opened"}
    BY <1>4 DEF ReadPacket, Dispatch, SendPong, SendOpenFail, ConfirmLink, ShutLink, Forward
  <2> QED BY <2>1, <2>2
<1>5. CASE Dial
  <2>1. writer[pkt.app] = NoConn /\ pkt.app \in Apps
    BY <1>5 DEF Dial, DialInv, OpensUndialled, Undialled
  <2>2. \A i \in Chan!LinkId : links[i] # NoApp => links[i] # pkt.app
    BY <2>1
  <2> QED BY <1>5, <2>1, <2>2 DEF Dial, registry, TypeInv, TypeOK, ClientTypeOK
<1>6. CASE AddLink
  <2>1. cur \in Apps /\ linkId[cur] = pkt.link /\ writer[cur] = conn /\ apc[cur] = "idle"
        /\ conn \in Conns /\ conn # NoConn
    BY <1>6, ClientNoConnAssumption DEF AddLink, DialInv, NotEarly, TypeInv, Placed
  <2>2. links' = [links EXCEPT ![pkt.link] = cur] /\ mpc' = "confirm"
        /\ UNCHANGED <<conn, apc, linkId, writer>>
    BY <1>6 DEF AddLink, appTask
  <2> QED BY <2>1, <2>2 DEF TypeInv, TypeOK, ClientTypeOK
<1>7. CASE SendOpened
  <2>1. UNCHANGED <<links, conn, linkId, writer>> /\ mpc' = "loop"
        /\ apc' = [apc EXCEPT ![cur] = "read"]
    BY <1>7 DEF SendOpened, registry
  <2> QED BY <2>1 DEF TypeInv, TypeOK, ClientTypeOK
<1>8. CASE Unlink
  BY <1>8 DEF Unlink, appTask, TypeInv, TypeOK, ClientTypeOK
<1>9. CASE CloseLinks
  BY <1>9 DEF CloseLinks, CloseAllLinks
<1> QED BY <1>1, <1>2, <1>3, <1>4, <1>5, <1>6, <1>7, <1>8, <1>9 DEF RunStep

(* A task removes the entry under its own number, so never leaves its own  *)
(* link behind.                                                            *)
LEMMA AppRegistry ==
  ASSUME TypeInv, RegistryInv, NEW a \in Apps, AppStep(a)
  PROVE  RegistryInv'
<1>1. PICK x \in AppPc \ {"idle"} : apc' = [apc EXCEPT ![a] = x]
  BY AppFrame
<1>2. UNCHANGED <<mpc, conn, linkId, writer>>
  BY AppFrame DEF runTask
<1>3. CASE links' = links /\ apc'[a] # "done"
  BY <1>1, <1>2, <1>3 DEF RegistryInv, Emptied, RegistryCurrent, TypeInv, TypeOK, ClientTypeOK
<1>4. CASE RemoveLink(a)
  <2>1. links' = [links EXCEPT ![linkId[a]] = NoApp]
    BY <1>4 DEF RemoveLink
  <2>2. \A i \in Chan!LinkId : links'[i] # NoApp => links'[i] = links[i] /\ links[i] # a
    BY <2>1 DEF RegistryInv, RegistryCurrent, TypeInv, TypeOK, ClientTypeOK
  <2> QED BY <1>1, <1>2, <2>1, <2>2
          DEF RegistryInv, Emptied, RegistryCurrent, TypeInv, TypeOK, ClientTypeOK
<1> QED BY <1>3, <1>4, AppFrame

LinkInv == TypeInv /\ DialInv /\ RegistryInv

LEMMA InitLinks == Init => LinkInv
BY InitTyping, InitDials
DEF Init, ClientInit, LinkInv, RegistryInv, Emptied, RegistryCurrent

LEMMA NextLinks == LinkInv /\ [Next]_vars => LinkInv'
<1> SUFFICES ASSUME LinkInv, [Next]_vars PROVE DialInv' /\ RegistryInv'
  BY NextTyping DEF LinkInv
<1> USE DEF LinkInv
<1>1. CASE UNCHANGED <<inbox, runTask, appTask, phase, links>>
  <2>1. RegistryInv'
    BY <1>1 DEF RegistryInv, Emptied, RegistryCurrent, runTask, appTask
  <2> QED BY <1>1, <2>1, QuietDials
<1>2. CASE ClientStep
  BY <1>2, RunDials, RunRegistry DEF ClientStep
<1>3. CASE \E a \in Apps : LinkStep(a)
  BY <1>3, AppDials, AppRegistry DEF LinkStep
<1>4. CASE Command \/ Signal \/ \E c \in Conns : PingStep(c)
  <2>1. UNCHANGED <<inbox, runTask, appTask, phase>>
    BY <1>4, ProcessFrame DEF Command, Signal, PingStep, serverEnd
  <2>2. links' = links \/ links' = [i \in Chan!LinkId |-> NoApp]
    BY <1>4 DEF Command, ManualPing, Signal, ShutdownStep, BeginShutdown, CloseAllLinks,
                TakeWriter, Exit, PingStep, PingTick, registry
  <2>3. RegistryInv'
    BY <2>1, <2>2 DEF RegistryInv, Emptied, RegistryCurrent, runTask, appTask
  <2> QED BY <2>1, <2>3, QuietDials
<1>5. CASE \E c \in Conns : ServerStep(c)
  <2>1. PICK c \in Conns : ServerStep(c)
    BY <1>5
  <2>2. UNCHANGED <<links, mpc, conn, apc, linkId, writer>>
    BY <2>1 DEF ServerStep, SrvRead, SrvPing, SrvGone, SrvSilent, KernelTimeout, SrvOpen,
                SrvData, SrvClose, client, runTask, appTask, registry
  <2>3. RegistryInv'
    BY <2>2 DEF RegistryInv, Emptied, RegistryCurrent
  <2> QED BY <2>1, <2>3, ServerDials
<1>6. CASE Stopped \/ UNCHANGED vars \/ \E a \in Apps : AppWrite(a) \/ AppClose(a)
  BY <1>1, <1>6
  DEF Stopped, vars, AppWrite, AppClose, client, wire, registry, runTask, appTask, serverEnd
<1> QED BY <1>2, <1>3, <1>4, <1>5, <1>6 DEF Next

LEMMA LinkInvariant == Spec => []LinkInv
BY InitLinks, NextLinks, PTL DEF Spec

(* Links of an earlier connection never get back into the registry,        *)
(* although their tasks go on, and a link whose task ended is not in it:   *)
(* for any number of reconnections, links and numbers, reused ones too.    *)
THEOREM RegistryCurrentTheorem == Spec => []RegistryCurrent
<1>1. LinkInv => RegistryCurrent
  BY DEF LinkInv, RegistryInv
<1> QED BY <1>1, LinkInvariant, PTL

=============================================================================
