---------------------------- MODULE TunnelProofs ----------------------------
(***************************************************************************)
(* Proofs about Tunnel, for any number of links and of chunks and any size *)
(* of the buffers: its types, that it implements Pipe, and that the client *)
(* signals the end of a stream after all of its data.                      *)
(***************************************************************************)
EXTENDS Tunnel, Integers, SequenceTheorems, TLAPS

(* The two sides and their ends.                                           *)
LEMMA SideFacts ==
  /\ \A s \in Side : /\ Other(s) \in Side /\ Other(s) # s
                     /\ Other(Other(s)) = s
  /\ \A s, t \in Side : t = s \/ t = Other(s)
  /\ Other("srv") = "cli" /\ Other("cli") = "srv"
  /\ "srv" \in Side /\ "cli" \in Side
  /\ \A s \in Side : s = "srv" \/ s = "cli"
BY DEF Side, Other

LEMMA EndFacts ==
  /\ \A s \in Side, l \in Links : <<s, l>> \in Ends
  /\ \A e \in Ends : \E s \in Side, l \in Links : e = <<s, l>>
  /\ \A s, t, l, m : <<s, l>> = <<t, m>> <=> s = t /\ l = m
  /\ \A s, l : <<s, l>>[1] = s /\ <<s, l>>[2] = l
BY DEF Ends

-----------------------------------------------------------------------------
(* Types. *)

MsgType == {"Ping", "Pong", "Open", "Opened", "OpenFail", "Close", "Regular"}
Msg     == [type : MsgType, link : Links, val : Nat]
Stage   == [pc : LoopPc, link : Links, val : Nat]

Typed ==
  /\ chan \in [Side -> Seq(Msg)] /\ loop \in [Side -> Stage]
  /\ reg \subseteq Ends /\ shut \subseteq Ends
  /\ apc \in [Ends -> AppPc]
  /\ lst \in [Ends -> {"Disconnected", "Waiting", "Connected"}]
  /\ sock \in [Ends -> {"none", "refused", "open", "fin", "rst"}]
  /\ wrote \in [Ends -> Nat] /\ taken \in [Ends -> Nat]
  /\ inbox \in [Ends -> Seq(Nat)] /\ got \in [Ends -> Seq(Nat)]

(* No buffer holds more than it can.                                       *)
Bounds ==
  /\ \A s \in Side : Len(chan[s]) <= Cap
  /\ \A e \in Ends : /\ Len(inbox[e]) <= SockCap
                     /\ taken[e] <= wrote[e] /\ wrote[e] - taken[e] <= SockCap
                     /\ wrote[e] <= MaxWrites

TypeInv == Typed /\ Bounds

LEMMA PacketTyping ==
  /\ \A t \in MsgType, l \in Links, v \in Nat : Packet(t, l, v) \in Msg
  /\ \A t \in MsgType : Control(t) \in Msg /\ Control(t).type = t
  /\ \A pc \in LoopPc : Idle(pc) \in Stage /\ Idle(pc).pc = pc
BY LinksAssumption DEF Packet, Control, Idle, Msg, Stage, MsgType

LEMMA DispatchTyping ==
  ASSUME NEW s, NEW p PROVE Dispatch(s, p) \in LoopPc
BY DEF Dispatch, LoopPc

(* What sending does to the connection.                                    *)
LEMMA SendTyping ==
  ASSUME TypeInv, NEW s \in Side, NEW p \in Msg, Send(s, p)
  PROVE  /\ chan' \in [Side -> Seq(Msg)]
         /\ \A r \in Side : Len(chan'[r]) <= Cap
         /\ chan'[Other(s)] = Append(chan[Other(s)], p)
         /\ chan'[s] = chan[s]
<1>1. chan[Other(s)] \in Seq(Msg) /\ Other(s) \in Side /\ Other(s) # s
  BY SideFacts DEF TypeInv, Typed
<1>2. Append(chan[Other(s)], p) \in Seq(Msg)
      /\ Len(Append(chan[Other(s)], p)) = Len(chan[Other(s)]) + 1
  BY <1>1
<1>3. chan' = [chan EXCEPT ![Other(s)] = Append(chan[Other(s)], p)]
      /\ Len(chan[Other(s)]) < Cap
  BY DEF Send
<1>4. chan' \in [Side -> Seq(Msg)] /\ chan'[Other(s)] = Append(chan[Other(s)], p)
      /\ \A r \in Side : r # Other(s) => chan'[r] = chan[r]
  BY <1>1, <1>2, <1>3 DEF TypeInv, Typed
<1>5. Len(chan[Other(s)]) \in Nat
  BY <1>1
<1> QED BY <1>1, <1>2, <1>3, <1>4, <1>5, CapAssumption DEF TypeInv, Bounds

LEMMA InitTypes == Init => TypeInv
<1> SUFFICES ASSUME Init PROVE TypeInv
  OBVIOUS
<1>1. Idle("loop") \in Stage
  BY PacketTyping DEF LoopPc
<1>2. Typed
  BY <1>1 DEF Init, Typed, AppPc
<1>3. Bounds
  BY <1>2, CapAssumption, SockCapAssumption, WritesAssumption DEF Init, Bounds
<1> QED BY <1>2, <1>3 DEF TypeInv

(* The loops: what changes besides the connection.                         *)
LEMMA LoopTypes ==
  ASSUME TypeInv, NEW s \in Side, LoopStep(s) PROVE TypeInv'
<1>a. /\ loop \in [Side -> Stage] /\ loop[s].link \in Links /\ loop[s].val \in Nat
      /\ <<s, loop[s].link>> \in Ends
  BY EndFacts DEF TypeInv, Typed, Stage
<1>b. Idle("loop") \in Stage
  BY PacketTyping DEF LoopPc
<1>c. \A pc \in LoopPc : [loop[s] EXCEPT !.pc = pc] \in Stage
  BY <1>a DEF TypeInv, Typed, Stage
<1>d. ASSUME loop' = [loop EXCEPT ![s] = Idle("loop")] PROVE loop' \in [Side -> Stage]
  BY <1>a, <1>b, <1>d
<1>1. CASE ReadPacket(s)
  <2>1. chan[s] \in Seq(Msg) /\ chan[s] # <<>>
    BY <1>1 DEF ReadPacket, TypeInv, Typed
  <2>2. Head(chan[s]) \in Msg /\ Tail(chan[s]) \in Seq(Msg)
        /\ Len(Tail(chan[s])) <= Len(chan[s]) /\ Len(Tail(chan[s])) \in Nat
        /\ Len(chan[s]) \in Nat
    BY <2>1
  <2>3. chan' = [chan EXCEPT ![s] = Tail(chan[s])]
    BY <1>1 DEF ReadPacket
  <2>4. chan' \in [Side -> Seq(Msg)] /\ \A r \in Side : Len(chan'[r]) <= Cap
    BY <2>2, <2>3, CapAssumption DEF TypeInv, Typed, Bounds
  <2>5. [pc |-> Dispatch(s, Head(chan[s])), link |-> Head(chan[s]).link,
         val |-> Head(chan[s]).val] \in Stage
    BY <2>2, DispatchTyping DEF Msg, Stage
  <2>6. loop' \in [Side -> Stage]
    BY <1>1, <1>a, <2>5 DEF ReadPacket
  <2> QED BY <1>1, <2>4, <2>6 DEF ReadPacket, app, TypeInv, Typed, Bounds
<1>2. CASE Deliver(s)
  <2> DEFINE e == <<s, loop[s].link>>
  <2>1. inbox[e] \in Seq(Nat) /\ Len(inbox[e]) \in Nat
    BY <1>a DEF TypeInv, Typed
  <2>2. Append(inbox[e], loop[s].val) \in Seq(Nat)
        /\ Len(Append(inbox[e], loop[s].val)) = Len(inbox[e]) + 1
    BY <2>1, <1>a
  <2>3. inbox' = inbox \/ (inbox' = [inbox EXCEPT ![e] = Append(inbox[e], loop[s].val)]
                             /\ Len(inbox[e]) < SockCap)
    BY <1>2 DEF Deliver
  <2>4. inbox' \in [Ends -> Seq(Nat)] /\ \A f \in Ends : Len(inbox'[f]) <= SockCap
    <3> HIDE DEF e
    <3>1. e \in Ends
      BY <1>a DEF e
    <3>2. inbox' \in [Ends -> Seq(Nat)]
      BY <3>1, <2>2, <2>3 DEF TypeInv, Typed
    <3>3. ASSUME NEW f \in Ends PROVE Len(inbox'[f]) <= SockCap
      <4>1. inbox'[f] = inbox[f]
            \/ (f = e /\ inbox'[f] = Append(inbox[e], loop[s].val) /\ Len(inbox[e]) < SockCap)
        BY <3>1, <2>3 DEF TypeInv, Typed
      <4>2. CASE inbox'[f] = inbox[f]
        BY <4>2 DEF TypeInv, Bounds
      <4>3. CASE inbox'[f] = Append(inbox[e], loop[s].val) /\ Len(inbox[e]) < SockCap
        BY <4>3, <2>1, <2>2, SockCapAssumption
      <4> QED BY <4>1, <4>2, <4>3
    <3> QED BY <3>2, <3>3
  <2>5. loop' \in [Side -> Stage]
    <3>1. loop' = [loop EXCEPT ![s] = Idle("loop")]
          \/ loop' = [loop EXCEPT ![s] = [loop[s] EXCEPT !.pc = "blocked"]]
      BY <1>2 DEF Deliver
    <3> QED BY <3>1, <1>a, <1>c, <1>d DEF LoopPc
  <2> QED BY <1>2, <2>4, <2>5 DEF Deliver, TypeInv, Typed, Bounds
<1>3. CASE RemoveByPeer(s)
  <2>1. loop' \in [Side -> Stage]
    BY <1>3, <1>d DEF RemoveByPeer
  <2>2. reg' \subseteq Ends /\ shut' \subseteq Ends
    BY <1>3 DEF RemoveByPeer, Release, TypeInv, Typed
  <2>3. lst' \in [Ends -> {"Disconnected", "Waiting", "Connected"}]
    BY <1>3 DEF RemoveByPeer, Release, TypeInv, Typed
  <2> QED BY <1>3, <2>1, <2>2, <2>3 DEF RemoveByPeer, app, TypeInv, Typed, Bounds
<1>4. CASE s = "srv" /\ SendPong(s)
  <2>1. Control("Pong") \in Msg
    BY PacketTyping DEF MsgType
  <2>2. chan' \in [Side -> Seq(Msg)] /\ \A r \in Side : Len(chan'[r]) <= Cap
    BY <1>4, <2>1, SendTyping DEF SendPong
  <2> QED BY <1>4, <1>d, <2>2 DEF SendPong, app, TypeInv, Typed, Bounds
<1>5. CASE s = "srv" /\ ConfirmOpen
  BY <1>5, <1>a, <1>d DEF ConfirmOpen, app, TypeInv, Typed, Bounds
<1>6. CASE s = "cli" /\ Dial
  <2>1. loop' \in [Side -> Stage]
    <3>1. loop' = [loop EXCEPT ![s] = [loop[s] EXCEPT !.pc = "opened"]]
      BY <1>6 DEF Dial
    <3> QED BY <3>1, <1>a, <1>c DEF LoopPc
  <2> QED BY <1>6, <1>a, <2>1 DEF Dial, TypeInv, Typed, Bounds
<1>7. CASE s = "cli" /\ DialFail
  <2>1. loop' \in [Side -> Stage]
    <3>1. loop' = [loop EXCEPT ![s] = [loop[s] EXCEPT !.pc = "refuse"]]
      BY <1>7 DEF DialFail
    <3> QED BY <3>1, <1>a, <1>c DEF LoopPc
  <2> QED BY <1>7, <1>a, <2>1 DEF DialFail, TypeInv, Typed, Bounds
<1>8. CASE s = "cli" /\ SendOpened
  <2>1. Packet("Opened", loop["cli"].link, 0) \in Msg
    BY <1>8, <1>a, PacketTyping DEF MsgType
  <2>2. chan' \in [Side -> Seq(Msg)] /\ \A r \in Side : Len(chan'[r]) <= Cap
    BY <1>8, <2>1, SendTyping, SideFacts DEF SendOpened
  <2>3. apc' \in [Ends -> AppPc]
    BY <1>8, <1>a DEF SendOpened, TypeInv, Typed, AppPc
  <2> QED BY <1>8, <1>d, <2>2, <2>3 DEF SendOpened, app, TypeInv, Typed, Bounds
<1>9. CASE s = "cli" /\ SendOpenFail
  <2>1. Packet("OpenFail", loop["cli"].link, 0) \in Msg
    BY <1>9, <1>a, PacketTyping DEF MsgType
  <2>2. chan' \in [Side -> Seq(Msg)] /\ \A r \in Side : Len(chan'[r]) <= Cap
    BY <1>9, <2>1, SendTyping, SideFacts DEF SendOpenFail
  <2> QED BY <1>9, <1>d, <2>2 DEF SendOpenFail, app, TypeInv, Typed, Bounds
<1> QED BY <1>1, <1>2, <1>3, <1>4, <1>5, <1>6, <1>7, <1>8, <1>9 DEF LoopStep

(* The application tasks, and the applications.                            *)
LEMMA TaskTypes ==
  ASSUME TypeInv, NEW e \in Ends, AppTask(e) PROVE TypeInv'
<1>a. e[1] \in Side /\ e[2] \in Links /\ taken[e] \in Nat /\ wrote[e] \in Nat
  BY DEF Ends, TypeInv, Typed
<1>b. ASSUME NEW pc \in AppPc, apc' = [apc EXCEPT ![e] = pc] PROVE apc' \in [Ends -> AppPc]
  BY <1>b DEF TypeInv, Typed
<1>c. \A t \in MsgType, v \in Nat : Packet(t, e[2], v) \in Msg
  BY <1>a, PacketTyping
<1>1. CASE SendOpen(e)
  <2>1. chan' \in [Side -> Seq(Msg)] /\ \A r \in Side : Len(chan'[r]) <= Cap
    BY <1>1, <1>c, SendTyping, SideFacts DEF SendOpen, MsgType
  <2> QED BY <1>1, <2>1, <1>b DEF SendOpen, app, TypeInv, Typed, Bounds, AppPc
<1>2. CASE SetLinkWaiting(e)
  BY <1>2, <1>b DEF SetLinkWaiting, app, TypeInv, Typed, Bounds, AppPc
<1>3. CASE TakeReader(e)
  BY <1>3, <1>b DEF TakeReader, app, TypeInv, Typed, Bounds, AppPc
<1>4. CASE ReadApp(e)
  <2>1. taken' = [taken EXCEPT ![e] = taken[e] + 1] /\ taken[e] < wrote[e]
        /\ wrote' = wrote
    BY <1>4 DEF ReadApp
  <2>2. taken' \in [Ends -> Nat]
    BY <2>1, <1>a DEF TypeInv, Typed
  <2>3. \A f \in Ends : taken'[f] <= wrote[f] /\ wrote[f] - taken'[f] <= SockCap
    BY <2>1, <1>a, SockCapAssumption DEF TypeInv, Typed, Bounds
  <2>4. apc' \in [Ends -> AppPc]
    BY <1>4, <1>b DEF ReadApp, AppPc
  <2> QED BY <1>4, <2>1, <2>2, <2>3, <2>4 DEF ReadApp, TypeInv, Typed, Bounds
<1>5. CASE ReadAppEnd(e)
  BY <1>5, <1>b DEF ReadAppEnd, app, TypeInv, Typed, Bounds, AppPc
<1>6. CASE AddIncoming(e)
  BY <1>6, <1>b DEF AddIncoming, app, TypeInv, Typed, Bounds, AppPc
<1>7. CASE SendData(e)
  <2>1. chan' \in [Side -> Seq(Msg)] /\ \A r \in Side : Len(chan'[r]) <= Cap
    BY <1>7, <1>a, <1>c, SendTyping DEF SendData, MsgType
  <2>2. apc' \in [Ends -> AppPc]
    BY <1>7, <1>b DEF SendData, AppPc
  <2> QED BY <1>7, <2>1, <2>2 DEF SendData, app, TypeInv, Typed, Bounds
<1>8. CASE SendClose(e)
  <2>1. chan' \in [Side -> Seq(Msg)] /\ \A r \in Side : Len(chan'[r]) <= Cap
    BY <1>8, <1>a, <1>c, SendTyping DEF SendClose, MsgType
  <2> QED BY <1>8, <2>1, <1>b DEF SendClose, app, TypeInv, Typed, Bounds, AppPc
<1>9. CASE Remove(e)
  <2>1. reg' \subseteq Ends /\ shut' \subseteq Ends
    BY <1>9 DEF Remove, TypeInv, Typed
  <2>2. lst' \in [Ends -> {"Disconnected", "Waiting", "Connected"}]
    BY <1>9 DEF Remove, TypeInv, Typed
  <2> QED BY <1>9, <2>1, <2>2, <1>b DEF Remove, app, TypeInv, Typed, Bounds, AppPc
<1> QED BY <1>1, <1>2, <1>3, <1>4, <1>5, <1>6, <1>7, <1>8, <1>9 DEF AppTask

LEMMA AppTypes ==
  ASSUME TypeInv, NEW e \in Ends, AppWrite(e) \/ AppRead(e) \/ AppClose(e)
  PROVE  TypeInv'
<1>a. taken[e] \in Nat /\ wrote[e] \in Nat
  BY DEF TypeInv, Typed
<1>1. CASE AppWrite(e)
  <2>1. wrote' = [wrote EXCEPT ![e] = wrote[e] + 1] /\ wrote[e] < MaxWrites
        /\ wrote[e] - taken[e] < SockCap /\ taken' = taken
    BY <1>1 DEF AppWrite
  <2>2. wrote' \in [Ends -> Nat]
    BY <2>1, <1>a DEF TypeInv, Typed
  <2>3. \A f \in Ends : /\ taken[f] <= wrote'[f] /\ wrote'[f] - taken[f] <= SockCap
                        /\ wrote'[f] <= MaxWrites
    BY <2>1, <1>a, SockCapAssumption, WritesAssumption DEF TypeInv, Typed, Bounds
  <2> QED BY <1>1, <2>1, <2>2, <2>3 DEF AppWrite, gateway, TypeInv, Typed, Bounds
<1>2. CASE AppRead(e)
  <2>1. inbox[e] \in Seq(Nat) /\ got[e] \in Seq(Nat) /\ inbox[e] # <<>>
    BY <1>2 DEF AppRead, TypeInv, Typed
  <2>2. Head(inbox[e]) \in Nat /\ Tail(inbox[e]) \in Seq(Nat)
        /\ Len(Tail(inbox[e])) <= Len(inbox[e]) /\ Len(Tail(inbox[e])) \in Nat
        /\ Len(inbox[e]) \in Nat
    BY <2>1
  <2>3. Append(got[e], Head(inbox[e])) \in Seq(Nat)
    BY <2>1, <2>2
  <2>4. got' = [got EXCEPT ![e] = Append(got[e], Head(inbox[e]))]
        /\ inbox' = [inbox EXCEPT ![e] = Tail(inbox[e])]
    BY <1>2 DEF AppRead
  <2>5. got' \in [Ends -> Seq(Nat)] /\ inbox' \in [Ends -> Seq(Nat)]
    BY <2>2, <2>3, <2>4 DEF TypeInv, Typed
  <2>6. \A f \in Ends : Len(inbox'[f]) <= SockCap
    BY <2>2, <2>4, SockCapAssumption DEF TypeInv, Typed, Bounds
  <2> QED BY <1>2, <2>5, <2>6 DEF AppRead, gateway, TypeInv, Typed, Bounds
<1>3. CASE AppClose(e)
  BY <1>3 DEF AppClose, gateway, TypeInv, Typed, Bounds
<1> QED BY <1>1, <1>2, <1>3

LEMMA OtherTypes ==
  ASSUME TypeInv, (\E l \in Links : AppConnect(l)) \/ Ping \/ UNCHANGED vars
  PROVE  TypeInv'
<1>1. CASE \E l \in Links : AppConnect(l)
  <2>1. PICK l \in Links : AppConnect(l)
    BY <1>1
  <2>2. <<"srv", l>> \in Ends
    BY EndFacts, SideFacts
  <2> QED BY <2>1, <2>2 DEF AppConnect, TypeInv, Typed, Bounds, AppPc
<1>2. CASE Ping
  <2>1. Control("Ping") \in Msg
    BY PacketTyping DEF MsgType
  <2>2. chan' \in [Side -> Seq(Msg)] /\ \A r \in Side : Len(chan'[r]) <= Cap
    BY <1>2, <2>1, SendTyping, SideFacts DEF Ping
  <2> QED BY <1>2, <2>2 DEF Ping, gateway, app, TypeInv, Typed, Bounds
<1>3. CASE UNCHANGED vars
  BY <1>3 DEF vars, gateway, app, TypeInv, Typed, Bounds
<1> QED BY <1>1, <1>2, <1>3

LEMMA TypeStep == TypeInv /\ [Next]_vars => TypeInv'
BY LoopTypes, TaskTypes, AppTypes, OtherTypes DEF Next, Moves

LEMMA TypeInvariance == Spec => []TypeInv
BY InitTypes, TypeStep, PTL DEF Spec

(* THEOREM: every variable of the tunnel keeps its type, and neither the   *)
(* connection nor a socket ever holds more than it can: each writer waits  *)
(* for room before it appends.                                             *)
THEOREM TunnelTypeCorrect == Spec => []TypeOK
<1>1. TypeInv => TypeOK
  <2> SUFFICES ASSUME TypeInv PROVE TypeOK
    OBVIOUS
  <2>1. \A e \in Ends : wrote[e] - taken[e] \in 0 .. SockCap
    BY SockCapAssumption DEF TypeInv, Typed, Bounds
  <2> QED BY <2>1 DEF TypeInv, Typed, Bounds, TypeOK, Stage
<1> QED BY <1>1, TypeInvariance, PTL

-----------------------------------------------------------------------------
(* The stream of one direction of a link: the packet that loop s handles,  *)
(* at place 0, and the packets of chan[s], at the places from 1 on.        *)

Doing(t, pc) ==
  \/ t = "Regular" /\ pc \in {"deliver", "blocked"}
  \/ t = "Open" /\ pc = "dial"
  \/ t = "Opened" /\ pc = "confirm"
  \/ t = "Close" /\ pc = "remove"
IsA(t, type) == type = t \/ (t = "Close" /\ type = "OpenFail")

Has(s, k, t, l) ==
  \/ k = 0 /\ Doing(t, loop[s].pc) /\ loop[s].link = l
  \/ k \in 1 .. Len(chan[s]) /\ IsA(t, chan[s][k].type) /\ chan[s][k].link = l
Val(s, k) == IF k = 0 THEN loop[s].val ELSE chan[s][k].val

(* What announces the sender of the data that comes to side s.             *)
Ann(s) == IF s = "cli" THEN "Open" ELSE "Opened"

(* The task that sends this data, before it has announced itself; how many *)
(* chunks it has sent; how many the receiver holds.                        *)
Source(s, l)  == <<Other(s), l>>
Mute(s, l)    == apc[Source(s, l)] \in {"idle", "open"}
Pending(e)    == apc[e] = "send" \/ (e[1] = "srv" /\ apc[e] = "count")
Sent(s, l)    == IF Pending(Source(s, l)) THEN taken[Source(s, l)] - 1
                                          ELSE taken[Source(s, l)]
Num(s, l)     == Len(got[<<s, l>>]) + Len(inbox[<<s, l>>])
Awaits(s, l)  == Mute(s, l) \/ \E k \in Nat : Has(s, k, Ann(s), l)
Open(s, l)    == Awaits(s, l) \/ Takes(<<s, l>>)

(* No sender speaks before it announces itself.                            *)
Silent(s, l) ==
  Mute(s, l) => /\ taken[Source(s, l)] = 0
                /\ \A k \in Nat : ~Has(s, k, Ann(s), l) /\ ~Has(s, k, "Regular", l)

(* It announces itself once, and its data follows.                         *)
Announced(s, l) ==
  \A k \in Nat : Has(s, k, Ann(s), l) =>
    /\ \A j \in Nat : Has(s, j, Ann(s), l) => j = k
    /\ \A j \in Nat : Has(s, j, "Regular", l) => k < j

(* Until then the receiving end takes nothing.                             *)
Closed(s, l) ==
  Awaits(s, l) => Num(s, l) = 0 /\ lst[<<s, l>>] # "Connected"

(* The chunks under way are in order, and have been sent.                  *)
Ordered(s, l) ==
  \A j, k \in Nat : Has(s, j, "Regular", l) /\ Has(s, k, "Regular", l) /\ j < k
                      => Val(s, j) < Val(s, k)
Bounded(s, l) ==
  \A k \in Nat : Has(s, k, "Regular", l) => Val(s, k) \in 1 .. Sent(s, l)

(* As long as the receiving end takes what comes, what comes is exactly    *)
(* what it has not got yet.                                                *)
Fresh(s, l) ==
  Open(s, l) => \A k \in Nat : Has(s, k, "Regular", l) => Val(s, k) > Num(s, l)
Complete(s, l) ==
  Open(s, l) => \A v \in Num(s, l) + 1 .. Sent(s, l) :
                  \E k \in Nat : Has(s, k, "Regular", l) /\ Val(s, k) = v

Stream(s, l) ==
  /\ Silent(s, l) /\ Announced(s, l) /\ Closed(s, l)
  /\ Ordered(s, l) /\ Bounded(s, l) /\ Fresh(s, l) /\ Complete(s, l)

(* What the receiver holds are the first chunks that were sent.            *)
Received(s, l) ==
  /\ \A k \in 1 .. Len(got[<<s, l>>]) : got[<<s, l>>][k] = k
  /\ \A k \in 1 .. Len(inbox[<<s, l>>]) :
       inbox[<<s, l>>][k] = Len(got[<<s, l>>]) + k
  /\ Num(s, l) <= Sent(s, l)

(* An end that is Connected, or about to be, is registered or shut down;   *)
(* the client's end comes after the announcement of the server's.          *)
Registered ==
  /\ \A e \in Ends : lst[e] = "Connected" => e \in reg \cup shut
  /\ loop["srv"].pc = "confirm" => <<"srv", loop["srv"].link>> \in reg \cup shut
Staged(l) ==
  /\ sock[<<"srv", l>>] = "none" => apc[<<"srv", l>>] = "idle"
  /\ apc[<<"cli", l>>] \notin {"open", "waiting"}
  /\ Awaits("cli", l) => apc[<<"cli", l>>] = "idle" /\ <<"cli", l>> \notin reg \cup shut
  /\ loop["cli"].pc \in {"opened", "refuse"} /\ loop["cli"].link = l
       => apc[<<"cli", l>>] = "idle" /\ ~Awaits("cli", l)

FlowInv ==
  /\ Registered
  /\ \A l \in Links : Staged(l)
  /\ \A s \in Side, l \in Links : Stream(s, l) /\ Received(s, l)

(* A task that closes its link has sent all there was to send, or its      *)
(* application is gone; at the client, Close comes after the data.         *)
Finished(e) ==
  apc[e] \in {"close", "remove", "done"}
    => sock[e] = "rst" \/ (sock[e] = "fin" /\ taken[e] = wrote[e])
CloseLast(l) ==
  \A k \in Nat : Has("cli", k, "Close", l) =>
    /\ apc[<<"srv", l>>] \in {"remove", "done"}
    /\ \A j \in Nat : Has("cli", j, "Regular", l) => j < k
Live(l) ==
  <<"cli", l>> \in reg => lst[<<"cli", l>>] = "Connected" /\ <<"cli", l>> \notin shut
Ended(l) ==
  <<"cli", l>> \in shut =>
    \/ sock[<<"cli", l>>] \in {"fin", "rst"}
    \/ sock[<<"srv", l>>] = "rst"
    \/ sock[<<"srv", l>>] = "fin" /\ Num("cli", l) = wrote[<<"srv", l>>]

EndInv ==
  /\ \A e \in Ends : Finished(e)
  /\ \A l \in Links : CloseLast(l) /\ Live(l) /\ Ended(l)

-----------------------------------------------------------------------------
(* What a step does to the line of packets towards side s. *)

Kinds == {"Regular", "Open", "Opened", "Close"}

SameLine(s) ==
  \A k \in Nat, t \in Kinds, l \in Links :
    /\ Has(s, k, t, l)' <=> Has(s, k, t, l)
    /\ Val(s, k)' = Val(s, k)

(* The loop has done with its packet.                                      *)
Drop(s) ==
  \A k \in Nat, t \in Kinds, l \in Links :
    /\ Has(s, k, t, l)' <=> k # 0 /\ Has(s, k, t, l)
    /\ k # 0 => Val(s, k)' = Val(s, k)

(* The loop reads the next one; client_exchange ignores data for a link    *)
(* that is not registered.                                                 *)
Shift(s) ==
  \A k \in Nat, t \in Kinds, l \in Links :
    /\ Has(s, k, t, l)' => Has(s, k + 1, t, l) /\ Val(s, k)' = Val(s, k + 1)
    /\ ~Has(s, 0, t, l)
    /\ t = "Regular" /\ Has(s, k + 1, t, l) /\ (s = "cli" \/ <<s, l>> \in reg)
         => Has(s, k, t, l)'
    /\ t = "Regular" /\ Has(s, k + 1, t, l) /\ k # 0 => Has(s, k, t, l)'

(* A packet is appended at place n.                                        *)
Put(s, p, n) ==
  /\ n \in Nat
  /\ \A k \in Nat, t \in Kinds, l \in Links :
       /\ Has(s, k, t, l)' <=> \/ Has(s, k, t, l)
                               \/ k = n /\ IsA(t, p.type) /\ p.link = l
       /\ Has(s, k, t, l) => Val(s, k)' = Val(s, k) /\ k < n
       /\ Val(s, n)' = p.val

LEMMA LineSame ==
  ASSUME TypeInv, NEW s \in Side, chan'[s] = chan[s],
         \/ loop'[s] = loop[s]
         \/ /\ loop[s].pc \in {"deliver", "blocked"} /\ loop'[s].pc \in {"deliver", "blocked"}
            /\ loop'[s].link = loop[s].link /\ loop'[s].val = loop[s].val
  PROVE  SameLine(s)
BY DEF SameLine, Has, Val, Doing, IsA

LEMMA LineDrop ==
  ASSUME TypeInv, NEW s \in Side, chan'[s] = chan[s],
         loop'[s].pc \in {"loop", "opened", "refuse"}
  PROVE  Drop(s)
BY DEF Drop, Has, Val, Doing, IsA

LEMMA LinePut ==
  ASSUME TypeInv, NEW s \in Side, NEW p \in Msg,
         chan'[s] = Append(chan[s], p), loop'[s] = loop[s]
  PROVE  \E n \in Nat : Put(s, p, n)
<1> DEFINE q == chan[s]
<1>1. q \in Seq(Msg) /\ Len(q) \in Nat
  BY DEF TypeInv, Typed
<1>2. PICK n \in Nat : n = Len(q) + 1
  BY <1>1
<1>3. Len(Append(q, p)) = n /\ Append(q, p)[n] = p
      /\ \A k \in 1 .. Len(q) : Append(q, p)[k] = q[k]
  BY <1>1, <1>2
<1> HIDE DEF q
<1>4. ASSUME NEW k \in Nat, NEW t \in Kinds, NEW l \in Links
      PROVE  /\ Has(s, k, t, l)' <=> \/ Has(s, k, t, l)
                                     \/ k = n /\ IsA(t, p.type) /\ p.link = l
             /\ Has(s, k, t, l) => Val(s, k)' = Val(s, k) /\ k < n
             /\ Val(s, n)' = p.val
  <2>1. chan[s] = q /\ chan'[s] = Append(q, p)
    BY DEF q
  <2>2. Has(s, k, t, l)' <=> \/ k = 0 /\ Doing(t, loop[s].pc) /\ loop[s].link = l
                             \/ /\ k \in 1 .. n
                                /\ IsA(t, Append(q, p)[k].type) /\ Append(q, p)[k].link = l
    BY <1>3, <2>1 DEF Has
  <2>3. Has(s, k, t, l) <=> \/ k = 0 /\ Doing(t, loop[s].pc) /\ loop[s].link = l
                            \/ /\ k \in 1 .. Len(q)
                               /\ IsA(t, q[k].type) /\ q[k].link = l
    BY <2>1 DEF Has
  <2>4. Val(s, k)' = IF k = 0 THEN loop[s].val ELSE Append(q, p)[k].val
    BY <2>1 DEF Val
  <2>5. Val(s, k) = IF k = 0 THEN loop[s].val ELSE q[k].val
    BY <2>1 DEF Val
  <2>6. Val(s, n)' = p.val
    BY <1>1, <1>2, <1>3, <2>1 DEF Val
  <2>7. CASE k = 0
    BY <1>1, <1>2, <2>2, <2>3, <2>4, <2>5, <2>6, <2>7
  <2>8. CASE k = n
    BY <1>1, <1>2, <1>3, <2>2, <2>3, <2>4, <2>5, <2>6, <2>8
  <2>9. CASE k # 0 /\ k # n
    <3>1. k \in 1 .. n <=> k \in 1 .. Len(q)
      BY <1>1, <1>2, <2>9
    <3>2. k \in 1 .. n => Append(q, p)[k] = q[k]
      BY <1>3, <3>1
    <3>3. k \in 1 .. n => k < n
      BY <2>9
    <3> QED BY <2>2, <2>3, <2>4, <2>5, <2>6, <2>9, <3>1, <3>2, <3>3
  <2> QED BY <2>7, <2>8, <2>9
<1> QED BY <1>2, <1>4 DEF Put

LEMMA LineShift ==
  ASSUME TypeInv, NEW s \in Side, ReadPacket(s)
  PROVE  Shift(s)
<1> DEFINE q == chan[s]
           p == Head(q)
<1>1. q \in Seq(Msg) /\ q # <<>> /\ Len(q) \in Nat
  BY DEF TypeInv, Typed, ReadPacket
<1>2. Len(Tail(q)) = Len(q) - 1 /\ p = q[1] /\ p \in Msg /\ Len(q) > 0
      /\ \A k \in 1 .. Len(q) - 1 : Tail(q)[k] = q[k + 1]
  BY <1>1
<1>3. chan'[s] = Tail(q)
  BY DEF ReadPacket, TypeInv, Typed
<1>4. loop'[s] = [pc |-> Dispatch(s, p), link |-> p.link, val |-> p.val]
  BY DEF ReadPacket, TypeInv, Typed
<1>5. loop[s].pc = "loop" /\ chan[s] = q
  BY DEF ReadPacket
<1> HIDE DEF q, p
<1>6. ASSUME NEW k \in Nat, NEW t \in Kinds, NEW l \in Links
      PROVE  /\ Has(s, k, t, l)' => Has(s, k + 1, t, l) /\ Val(s, k)' = Val(s, k + 1)
             /\ ~Has(s, 0, t, l)
             /\ t = "Regular" /\ Has(s, k + 1, t, l) /\ (s = "cli" \/ <<s, l>> \in reg)
                  => Has(s, k, t, l)'
             /\ t = "Regular" /\ Has(s, k + 1, t, l) /\ k # 0 => Has(s, k, t, l)'
  <2>1. ~Has(s, 0, t, l)
    BY <1>5 DEF Has, Doing
  <2>2. Has(s, k + 1, t, l) <=> k + 1 \in 1 .. Len(q) /\ IsA(t, q[k + 1].type)
                                /\ q[k + 1].link = l
    BY <1>5 DEF Has
  <2>3. Val(s, k + 1) = q[k + 1].val
    BY <1>5 DEF Val
  <2>4. CASE k = 0
    <3>1. Has(s, k, t, l)' <=> Doing(t, Dispatch(s, p)) /\ p.link = l
      BY <1>4, <2>4 DEF Has
    <3>2. Val(s, k)' = p.val
      BY <1>4, <2>4 DEF Val
    <3>3. Doing(t, Dispatch(s, p)) => IsA(t, p.type)
      BY DEF Doing, Dispatch, IsA
    <3>4. t = "Regular" /\ IsA(t, p.type) /\ p.link = l /\ (s = "cli" \/ <<s, l>> \in reg)
            => Doing(t, Dispatch(s, p))
      BY DEF Doing, Dispatch, IsA
    <3>5. k + 1 = 1 /\ 1 \in 1 .. Len(q)
      BY <1>1, <1>2, <2>4
    <3> QED BY <1>2, <2>1, <2>2, <2>3, <2>4, <3>1, <3>2, <3>3, <3>4, <3>5
  <2>5. CASE k # 0
    <3>1. Has(s, k, t, l)' <=> k \in 1 .. Len(Tail(q)) /\ IsA(t, Tail(q)[k].type)
                               /\ Tail(q)[k].link = l
      BY <1>3, <2>5 DEF Has
    <3>2. Val(s, k)' = Tail(q)[k].val
      BY <1>3, <2>5 DEF Val
    <3>3. k \in 1 .. Len(Tail(q)) <=> k + 1 \in 1 .. Len(q)
      BY <1>1, <1>2, <2>5
    <3>4. k \in 1 .. Len(Tail(q)) => Tail(q)[k] = q[k + 1]
      BY <1>2
    <3> QED BY <2>1, <2>2, <2>3, <3>1, <3>2, <3>3, <3>4
  <2> QED BY <2>4, <2>5
<1> QED BY <1>6 DEF Shift

-----------------------------------------------------------------------------
(* What a step does to the stream of one link. *)

LEMMA Counts ==
  ASSUME TypeInv, NEW s \in Side, NEW l \in Links
  PROVE  /\ Num(s, l) \in Nat /\ Sent(s, l) \in Int
         /\ \A k \in Nat, t \in Kinds : Has(s, k, t, l) => Val(s, k) \in Nat
<1>1. <<s, l>> \in Ends /\ Source(s, l) \in Ends
  BY EndFacts, SideFacts DEF Source
<1>2. Num(s, l) \in Nat /\ Sent(s, l) \in Int
  BY <1>1 DEF Num, Sent, TypeInv, Typed
<1>3. ASSUME NEW k \in Nat, NEW t \in Kinds, Has(s, k, t, l) PROVE Val(s, k) \in Nat
  <2>1. loop[s].val \in Nat /\ chan[s] \in Seq(Msg)
    BY DEF TypeInv, Typed, Stage
  <2>2. k # 0 => k \in 1 .. Len(chan[s])
    BY <1>3 DEF Has
  <2>3. k # 0 => chan[s][k] \in Msg
    BY <2>1, <2>2
  <2> QED BY <2>1, <2>3 DEF Val, Msg
<1> QED BY <1>2, <1>3

(* The data under way, its sender and its receiver are as before; at most  *)
(* the announcement has been dealt with.                                   *)
Kept(s, l) ==
  /\ \A k \in Nat : /\ Has(s, k, "Regular", l)' <=> Has(s, k, "Regular", l)
                    /\ Has(s, k, "Regular", l) => Val(s, k)' = Val(s, k)
                    /\ Has(s, k, Ann(s), l)' => Has(s, k, Ann(s), l)
  /\ Mute(s, l)' <=> Mute(s, l)
  /\ Mute(s, l) => taken'[Source(s, l)] = taken[Source(s, l)]
  /\ Sent(s, l)' = Sent(s, l) /\ Num(s, l)' = Num(s, l)

LEMMA KeptAwaits ==
  ASSUME NEW s \in Side, NEW l \in Links, Kept(s, l), Awaits(s, l)'
  PROVE  Awaits(s, l)
BY DEF Kept, Awaits

LEMMA KeptStream ==
  ASSUME NEW s \in Side, NEW l \in Links, Stream(s, l), Kept(s, l),
         Takes(<<s, l>>)' => Open(s, l),
         Awaits(s, l) => lst'[<<s, l>>] # "Connected" \/ ~Awaits(s, l)'
  PROVE  Stream(s, l)'
<1>1. Awaits(s, l)' => Awaits(s, l)
  BY KeptAwaits
<1>2. Silent(s, l)' /\ Announced(s, l)'
  BY DEF Stream, Kept, Silent, Announced
<1>3. Closed(s, l)'
  BY <1>1 DEF Stream, Kept, Closed
<1>4. Ordered(s, l)' /\ Bounded(s, l)'
  BY DEF Stream, Kept, Ordered, Bounded
<1>5. Open(s, l)' => Open(s, l)
  BY <1>1 DEF Open
<1>6. Fresh(s, l)' /\ Complete(s, l)'
  BY <1>5 DEF Stream, Kept, Fresh, Complete
<1> QED BY <1>2, <1>3, <1>4, <1>6 DEF Stream

(* The loop drops its data: the end takes nothing, now and later.          *)
LEMMA DroppedStream ==
  ASSUME NEW s \in Side, NEW l \in Links, Stream(s, l), Drop(s), ~Open(s, l)',
         Mute(s, l)' <=> Mute(s, l), Sent(s, l)' = Sent(s, l),
         taken'[Source(s, l)] = taken[Source(s, l)]
  PROVE  Stream(s, l)'
<1>1. \A k \in Nat : /\ Has(s, k, "Regular", l)' => k # 0 /\ Has(s, k, "Regular", l)
                     /\ k # 0 => Val(s, k)' = Val(s, k)
                     /\ Has(s, k, Ann(s), l)' => Has(s, k, Ann(s), l)
  BY DEF Drop, Kinds, Ann
<1>2. Silent(s, l)' /\ Announced(s, l)'
  BY <1>1 DEF Stream, Silent, Announced
<1>3. Ordered(s, l)' /\ Bounded(s, l)'
  BY <1>1 DEF Stream, Ordered, Bounded
<1> QED BY <1>2, <1>3 DEF Stream, Closed, Fresh, Complete, Open

(* The loop hands the next chunk on: it is the one that is due.            *)
LEMMA DueChunk ==
  ASSUME TypeInv, NEW s \in Side, NEW l \in Links, Stream(s, l),
         Has(s, 0, "Regular", l), Takes(<<s, l>>)
  PROVE  /\ Val(s, 0) = Num(s, l) + 1 /\ Val(s, 0) <= Sent(s, l)
         /\ ~Awaits(s, l)
<1>1. Open(s, l)
  BY DEF Open
<1>2. Num(s, l) \in Nat /\ Sent(s, l) \in Int /\ Val(s, 0) \in Nat
  BY Counts DEF Kinds
<1>3. Val(s, 0) > Num(s, l) /\ Val(s, 0) \in 1 .. Sent(s, l)
  BY <1>1 DEF Stream, Fresh, Bounded
<1>4. PICK k \in Nat : Has(s, k, "Regular", l) /\ Val(s, k) = Num(s, l) + 1
  BY <1>1, <1>2, <1>3 DEF Stream, Complete
<1>5. k = 0
  <2>1. k # 0 => 0 < k
    OBVIOUS
  <2>2. k # 0 => Val(s, 0) < Val(s, k)
    BY <1>4, <2>1 DEF Stream, Ordered
  <2> QED BY <1>2, <1>3, <1>4, <2>2
<1>6. ~Awaits(s, l)
  BY DEF Takes, Stream, Closed
<1> QED BY <1>2, <1>3, <1>4, <1>5, <1>6

LEMMA DeliveredStream ==
  ASSUME TypeInv, NEW s \in Side, NEW l \in Links, Stream(s, l),
         Has(s, 0, "Regular", l), Takes(<<s, l>>), Drop(s),
         Num(s, l)' = Num(s, l) + 1,
         Mute(s, l)' <=> Mute(s, l), Sent(s, l)' = Sent(s, l),
         taken'[Source(s, l)] = taken[Source(s, l)]
  PROVE  Stream(s, l)'
<1>a. \A k \in Nat : /\ Has(s, k, "Regular", l)' <=> k # 0 /\ Has(s, k, "Regular", l)
                     /\ k # 0 => Val(s, k)' = Val(s, k)
                     /\ Has(s, k, Ann(s), l)' => Has(s, k, Ann(s), l)
  BY DEF Drop, Kinds, Ann
<1>b. /\ Val(s, 0) = Num(s, l) + 1 /\ ~Awaits(s, l) /\ Open(s, l)
      /\ Num(s, l) \in Nat /\ Sent(s, l) \in Int
      /\ \A k \in Nat : Has(s, k, "Regular", l) => Val(s, k) \in Nat
  BY DueChunk, Counts DEF Open, Kinds
<1>1. ~Awaits(s, l)'
  BY <1>a, <1>b DEF Awaits
<1>2. Silent(s, l)' /\ Announced(s, l)' /\ Closed(s, l)'
  BY <1>a, <1>1 DEF Stream, Silent, Announced, Closed
<1>3. Ordered(s, l)' /\ Bounded(s, l)'
  BY <1>a DEF Stream, Ordered, Bounded
<1>4. Fresh(s, l)'
  <2>1. ASSUME NEW k \in Nat, Has(s, k, "Regular", l)' PROVE Val(s, k)' > Num(s, l)'
    <3>1. Has(s, k, "Regular", l) /\ 0 < k /\ Val(s, k)' = Val(s, k)
      BY <1>a, <2>1
    <3>2. Val(s, 0) < Val(s, k)
      BY <3>1 DEF Stream, Ordered
    <3> QED BY <1>b, <3>1, <3>2
  <2> QED BY <2>1 DEF Fresh
<1>5. Complete(s, l)'
  <2>1. ASSUME NEW v \in Num(s, l)' + 1 .. Sent(s, l)'
        PROVE  \E k \in Nat : Has(s, k, "Regular", l)' /\ Val(s, k)' = v
    <3>1. v \in Num(s, l) + 1 .. Sent(s, l) /\ v # Num(s, l) + 1
      BY <1>b, <2>1
    <3>2. PICK k \in Nat : Has(s, k, "Regular", l) /\ Val(s, k) = v
      BY <1>b, <3>1 DEF Stream, Complete
    <3>3. k # 0
      BY <1>b, <3>1, <3>2
    <3> QED BY <1>a, <3>2, <3>3
  <2> QED BY <2>1 DEF Complete
<1> QED BY <1>2, <1>3, <1>4, <1>5 DEF Stream

(* The loop reads a packet.  What client_exchange ignores is not for an    *)
(* end that takes data, nor for one that still awaits its announcement.    *)
LEMMA ShiftedStream ==
  ASSUME NEW s \in Side, NEW l \in Links, Stream(s, l), Shift(s),
         Takes(<<s, l>>)' => Takes(<<s, l>>) /\ (s = "cli" \/ <<s, l>> \in reg),
         lst'[<<s, l>>] = lst[<<s, l>>],
         Num(s, l)' = Num(s, l),
         Mute(s, l)' <=> Mute(s, l), Sent(s, l)' = Sent(s, l),
         taken'[Source(s, l)] = taken[Source(s, l)]
  PROVE  Stream(s, l)' /\ (Awaits(s, l)' => Awaits(s, l))
<1>a. \A k \in Nat :
        /\ Has(s, k, "Regular", l)' => Has(s, k + 1, "Regular", l) /\ Val(s, k)' = Val(s, k + 1)
        /\ Has(s, k, Ann(s), l)' => Has(s, k + 1, Ann(s), l)
        /\ ~Has(s, 0, "Regular", l)
        /\ Has(s, k + 1, "Regular", l) /\ (s = "cli" \/ <<s, l>> \in reg \/ k # 0)
             => Has(s, k, "Regular", l)'
  BY DEF Shift, Kinds, Ann
<1>1. Awaits(s, l)' => Awaits(s, l)
  <2>1. \A k \in Nat : Has(s, k, Ann(s), l)' => k + 1 \in Nat /\ Has(s, k + 1, Ann(s), l)
    BY <1>a
  <2> QED BY <2>1 DEF Awaits
<1>2. Silent(s, l)'
  <2>1. \A k \in Nat : k + 1 \in Nat
    OBVIOUS
  <2> QED BY <1>a, <2>1 DEF Stream, Silent
<1>3. Announced(s, l)'
  <2>1. ASSUME NEW k \in Nat, Has(s, k, Ann(s), l)', NEW j \in Nat,
               Has(s, j, Ann(s), l)'
        PROVE  j = k
    <3>1. k + 1 \in Nat /\ j + 1 \in Nat /\ Has(s, k + 1, Ann(s), l) /\ Has(s, j + 1, Ann(s), l)
      BY <1>a, <2>1
    <3>2. j + 1 = k + 1
      BY <3>1 DEF Stream, Announced
    <3> QED BY <3>2
  <2>2. ASSUME NEW k \in Nat, Has(s, k, Ann(s), l)', NEW j \in Nat,
               Has(s, j, "Regular", l)'
        PROVE  k < j
    <3>1. k + 1 \in Nat /\ j + 1 \in Nat /\ Has(s, k + 1, Ann(s), l) /\ Has(s, j + 1, "Regular", l)
      BY <1>a, <2>2
    <3>2. k + 1 < j + 1
      BY <3>1 DEF Stream, Announced
    <3> QED BY <3>2
  <2> QED BY <2>1, <2>2 DEF Announced
<1>4. Closed(s, l)'
  BY <1>1 DEF Stream, Closed
<1>5. Ordered(s, l)'
  <2>1. ASSUME NEW j \in Nat, NEW k \in Nat, Has(s, j, "Regular", l)',
               Has(s, k, "Regular", l)', j < k
        PROVE  Val(s, j)' < Val(s, k)'
    <3>1. /\ k + 1 \in Nat /\ j + 1 \in Nat /\ j + 1 < k + 1
          /\ Has(s, j + 1, "Regular", l) /\ Has(s, k + 1, "Regular", l)
          /\ Val(s, j)' = Val(s, j + 1) /\ Val(s, k)' = Val(s, k + 1)
      BY <1>a, <2>1
    <3>2. Val(s, j + 1) < Val(s, k + 1)
      BY <3>1 DEF Stream, Ordered
    <3> QED BY <3>1, <3>2
  <2> QED BY <2>1 DEF Ordered
<1>6. ASSUME NEW k \in Nat, Has(s, k, "Regular", l)'
      PROVE  /\ Val(s, k)' \in 1 .. Sent(s, l)'
             /\ Open(s, l) => Val(s, k)' > Num(s, l)'
  <2>1. k + 1 \in Nat /\ Has(s, k + 1, "Regular", l) /\ Val(s, k)' = Val(s, k + 1)
    BY <1>a, <1>6
  <2>2. Val(s, k + 1) \in 1 .. Sent(s, l) /\ (Open(s, l) => Val(s, k + 1) > Num(s, l))
    BY <2>1 DEF Stream, Bounded, Fresh
  <2> QED BY <2>1, <2>2
<1>7. Open(s, l)' => Open(s, l)
  BY <1>1 DEF Open
<1>8. Bounded(s, l)' /\ Fresh(s, l)'
  BY <1>6, <1>7 DEF Bounded, Fresh
<1>9. Complete(s, l)'
  <2>1. ASSUME Open(s, l)', NEW v \in Num(s, l)' + 1 .. Sent(s, l)'
        PROVE  \E k \in Nat : Has(s, k, "Regular", l)' /\ Val(s, k)' = v
    <3>1. v \in Num(s, l) + 1 .. Sent(s, l)
      BY <2>1
    <3>2. PICK k \in Nat : Has(s, k, "Regular", l) /\ Val(s, k) = v
      BY <3>1, <2>1, <1>7 DEF Stream, Complete
    <3>3. PICK j \in Nat : k = j + 1
      <4>1. k # 0
        BY <3>2, <1>a
      <4>2. k - 1 \in Nat /\ k = (k - 1) + 1
        BY <4>1
      <4> QED BY <4>2
    <3>4. j = 0 => s = "cli" \/ <<s, l>> \in reg
      <4>1. CASE Takes(<<s, l>>)'
        BY <4>1
      <4>2. CASE Mute(s, l)'
        BY <4>2, <3>2 DEF Stream, Silent
      <4>3. CASE \E i \in Nat : Has(s, i, Ann(s), l)'
        <5>1. PICK i \in Nat : Has(s, i, Ann(s), l)'
          BY <4>3
        <5>2. i + 1 \in Nat /\ Has(s, i + 1, Ann(s), l)
          BY <1>a, <5>1
        <5>3. i + 1 < k
          BY <5>2, <3>2 DEF Stream, Announced
        <5> QED BY <5>3, <3>3
      <4> QED BY <2>1, <4>1, <4>2, <4>3 DEF Open, Awaits
    <3>5. Has(s, j, "Regular", l)'
      BY <1>a, <3>2, <3>3, <3>4
    <3>6. Val(s, j)' = v
      BY <1>a, <3>2, <3>3, <3>5
    <3> QED BY <3>5, <3>6
  <2> QED BY <2>1 DEF Complete
<1> QED BY <1>1, <1>2, <1>3, <1>4, <1>5, <1>8, <1>9 DEF Stream

(* The sender announces itself.                                            *)
LEMMA AnnouncedStream ==
  ASSUME NEW s \in Side, NEW l \in Links, NEW p, NEW n, Stream(s, l), Put(s, p, n),
         p.type = Ann(s), p.link = l, Mute(s, l), ~Mute(s, l)',
         Takes(<<s, l>>)' => Takes(<<s, l>>), lst'[<<s, l>>] = lst[<<s, l>>],
         Sent(s, l)' = Sent(s, l), Num(s, l)' = Num(s, l)
  PROVE  Stream(s, l)' /\ Awaits(s, l)
<1>a. n \in Nat /\ \A k \in Nat : ~Has(s, k, "Regular", l)' /\ (Has(s, k, Ann(s), l)' => k = n)
  BY DEF Put, Kinds, Ann, IsA, Stream, Silent
<1>1. Awaits(s, l) /\ Open(s, l)
  BY DEF Awaits, Open
<1>2. Silent(s, l)' /\ Announced(s, l)' /\ Ordered(s, l)' /\ Bounded(s, l)' /\ Fresh(s, l)'
  BY <1>a DEF Silent, Announced, Ordered, Bounded, Fresh
<1>3. Closed(s, l)'
  BY <1>1 DEF Closed, Stream
<1>4. \A v \in Num(s, l) + 1 .. Sent(s, l) : FALSE
  BY <1>1 DEF Stream, Complete, Silent
<1>5. Complete(s, l)'
  BY <1>4 DEF Complete
<1> QED BY <1>1, <1>2, <1>3, <1>5 DEF Stream

(* The sender sends its next chunk.                                        *)
LEMMA ExtendedStream ==
  ASSUME TypeInv, NEW s \in Side, NEW l \in Links, NEW p, NEW n, Stream(s, l), Put(s, p, n),
         p.type = "Regular", p.link = l, p.val = Sent(s, l) + 1, ~Mute(s, l), ~Mute(s, l)',
         Takes(<<s, l>>)' => Takes(<<s, l>>), lst'[<<s, l>>] = lst[<<s, l>>],
         Num(s, l) <= Sent(s, l),
         Sent(s, l)' = Sent(s, l) + 1, Num(s, l)' = Num(s, l)
  PROVE  Stream(s, l)' /\ (Awaits(s, l)' => Awaits(s, l))
<1>a. n \in Nat /\ \A k \in Nat :
        /\ Has(s, k, "Regular", l)' <=> Has(s, k, "Regular", l) \/ k = n
        /\ Has(s, k, "Regular", l) => Val(s, k)' = Val(s, k) /\ k < n
        /\ Has(s, k, Ann(s), l)' <=> Has(s, k, Ann(s), l)
        /\ Has(s, k, Ann(s), l) => k < n
        /\ Val(s, n)' = p.val
  BY DEF Put, Kinds, Ann, IsA
<1>b. /\ Num(s, l) \in Nat /\ Sent(s, l) \in Int
      /\ \A k \in Nat : Has(s, k, "Regular", l) => Val(s, k) \in Nat
  BY Counts DEF Kinds
<1>1. (Awaits(s, l)' => Awaits(s, l)) /\ (Open(s, l)' => Open(s, l))
  BY <1>a DEF Awaits, Open
<1>2. Silent(s, l)' /\ Announced(s, l)'
  BY <1>a DEF Stream, Silent, Announced
<1>3. Closed(s, l)'
  BY <1>1 DEF Stream, Closed
<1>4. \A k \in Nat : Has(s, k, "Regular", l) => Val(s, k) \in 1 .. Sent(s, l)
  BY DEF Stream, Bounded
<1>5. Ordered(s, l)'
  <2>1. ASSUME NEW j \in Nat, NEW k \in Nat, Has(s, j, "Regular", l)',
               Has(s, k, "Regular", l)', j < k
        PROVE  Val(s, j)' < Val(s, k)'
    <3>1. Has(s, j, "Regular", l)
      BY <1>a, <2>1
    <3>2. CASE Has(s, k, "Regular", l)
      BY <1>a, <2>1, <3>1, <3>2 DEF Stream, Ordered
    <3>3. CASE k = n
      <4>1. Val(s, j)' = Val(s, j) /\ Val(s, k)' = Sent(s, l) + 1
        BY <1>a, <3>1, <3>3
      <4> QED BY <1>b, <1>4, <3>1, <4>1
    <3> QED BY <1>a, <2>1, <3>2, <3>3
  <2> QED BY <2>1 DEF Ordered
<1>6. ASSUME NEW k \in Nat, Has(s, k, "Regular", l)'
      PROVE  /\ Val(s, k)' \in 1 .. Sent(s, l)'
             /\ Open(s, l) => Val(s, k)' > Num(s, l)'
  <2>1. CASE Has(s, k, "Regular", l)
    <3>1. Val(s, k)' = Val(s, k) /\ Val(s, k) \in 1 .. Sent(s, l)
          /\ (Open(s, l) => Val(s, k) > Num(s, l))
      BY <1>a, <1>4, <2>1 DEF Stream, Fresh
    <3> QED BY <3>1, <1>b
  <2>2. CASE k = n
    BY <1>a, <1>b, <2>2
  <2> QED BY <1>a, <1>6, <2>1, <2>2
<1>7. Bounded(s, l)' /\ Fresh(s, l)'
  BY <1>1, <1>6 DEF Bounded, Fresh
<1>8. Complete(s, l)'
  <2>1. ASSUME Open(s, l)', NEW v \in Num(s, l)' + 1 .. Sent(s, l)'
        PROVE  \E k \in Nat : Has(s, k, "Regular", l)' /\ Val(s, k)' = v
    <3>1. CASE v = Sent(s, l) + 1
      BY <3>1, <1>a
    <3>2. CASE v # Sent(s, l) + 1
      <4>1. v \in Num(s, l) + 1 .. Sent(s, l)
        BY <1>b, <2>1, <3>2
      <4>2. PICK k \in Nat : Has(s, k, "Regular", l) /\ Val(s, k) = v
        BY <4>1, <2>1, <1>1 DEF Stream, Complete
      <4> QED BY <1>a, <4>2
    <3> QED BY <3>1, <3>2
  <2> QED BY <2>1 DEF Complete
<1> QED BY <1>1, <1>2, <1>3, <1>5, <1>7, <1>8 DEF Stream

-----------------------------------------------------------------------------
(* Frames: what most steps leave alone. *)

SourceKept(s, l) ==
  /\ Mute(s, l)' <=> Mute(s, l)
  /\ Mute(s, l) => taken'[Source(s, l)] = taken[Source(s, l)]
  /\ Sent(s, l)' = Sent(s, l)

EndKept(s, l) ==
  /\ lst'[<<s, l>>] = "Connected" => lst[<<s, l>>] = "Connected"
  /\ <<s, l>> \in shut => <<s, l>> \in shut'
  /\ sock[<<s, l>>] = "rst" => sock'[<<s, l>>] = "rst"
  /\ s = "cli" /\ <<s, l>> \in reg' => <<s, l>> \in reg

DataKept(s, l) == got'[<<s, l>>] = got[<<s, l>>] /\ inbox'[<<s, l>>] = inbox[<<s, l>>]

LEMMA SourceSame ==
  ASSUME NEW s \in Side, NEW l \in Links,
         apc'[Source(s, l)] = apc[Source(s, l)], taken'[Source(s, l)] = taken[Source(s, l)]
  PROVE  SourceKept(s, l)
BY DEF SourceKept, Mute, Sent, Pending, Source

LEMMA KeptSame ==
  ASSUME NEW s \in Side, NEW l \in Links, SameLine(s), SourceKept(s, l),
         Num(s, l)' = Num(s, l)
  PROVE  Kept(s, l)
BY DEF Kept, SameLine, SourceKept, Kinds, Ann

LEMMA KeptDrop ==
  ASSUME NEW s \in Side, NEW l \in Links, Drop(s), ~Has(s, 0, "Regular", l),
         SourceKept(s, l), Num(s, l)' = Num(s, l)
  PROVE  Kept(s, l)
BY DEF Kept, Drop, SourceKept, Kinds, Ann

LEMMA KeptPut ==
  ASSUME NEW s \in Side, NEW l \in Links, NEW p, NEW n, Put(s, p, n),
         p.link # l \/ p.type \notin {"Regular", Ann(s)},
         SourceKept(s, l), Num(s, l)' = Num(s, l)
  PROVE  Kept(s, l)
BY DEF Kept, Put, SourceKept, Kinds, Ann, IsA

LEMMA NumSame ==
  ASSUME NEW s, NEW l, DataKept(s, l)
  PROVE  Num(s, l)' = Num(s, l)
BY DEF DataKept, Num

LEMMA TakesKept ==
  ASSUME NEW s \in Side, NEW l \in Links, EndKept(s, l), Takes(<<s, l>>)'
  PROVE  Takes(<<s, l>>)
BY EndFacts DEF EndKept, Takes

LEMMA QuietEnd ==
  ASSUME NEW s \in Side, NEW l \in Links, FlowInv, Kept(s, l), EndKept(s, l), DataKept(s, l)
  PROVE  /\ Stream(s, l)' /\ Received(s, l)'
         /\ Awaits(s, l)' => Awaits(s, l)
<1>1. Stream(s, l) /\ Received(s, l)
  BY DEF FlowInv
<1>2. Awaits(s, l)' => Awaits(s, l)
  BY KeptAwaits
<1>3. Takes(<<s, l>>)' => Open(s, l)
  BY TakesKept DEF Open
<1>4. Awaits(s, l) => lst'[<<s, l>>] # "Connected"
  BY <1>1 DEF Stream, Closed, EndKept
<1>5. Stream(s, l)'
  BY <1>1, <1>3, <1>4, KeptStream
<1>6. Received(s, l)'
  BY <1>1 DEF Received, Kept, DataKept
<1> QED BY <1>2, <1>5, <1>6

LEMMA RegisteredKept ==
  ASSUME FlowInv,
         \A e \in Ends : lst'[e] = "Connected" => lst[e] = "Connected",
         reg \cup shut \subseteq reg' \cup shut',
         loop'["srv"].pc = "confirm" => loop'["srv"] = loop["srv"]
  PROVE  Registered'
BY DEF FlowInv, Registered

(* The stage of the link's opening is as before, or later.                 *)
StageKept(l) ==
  /\ sock'[<<"srv", l>>] = "none" => /\ sock[<<"srv", l>>] = "none"
                                     /\ apc'[<<"srv", l>>] = apc[<<"srv", l>>]
  /\ apc[<<"cli", l>>] = "idle" => apc'[<<"cli", l>>] = "idle"
  /\ apc'[<<"cli", l>>] \in {"open", "waiting"} => apc[<<"cli", l>>] \in {"open", "waiting"}
  /\ apc[<<"cli", l>>] = "idle" /\ <<"cli", l>> \in reg' \cup shut'
       => <<"cli", l>> \in reg \cup shut
  /\ loop'["cli"].pc \in {"opened", "refuse"} => loop'["cli"] = loop["cli"]

LEMMA StagedKept ==
  ASSUME NEW l \in Links, FlowInv, StageKept(l), Awaits("cli", l)' => Awaits("cli", l)
  PROVE  Staged(l)'
<1>1. Staged(l)
  BY DEF FlowInv
<1> QED BY <1>1 DEF Staged, StageKept

(* A step that is quiet for every end keeps the invariant.                 *)
LEMMA QuietStep ==
  ASSUME FlowInv, Registered',
         \A l \in Links : StageKept(l),
         \A s \in Side, l \in Links : Kept(s, l) /\ EndKept(s, l) /\ DataKept(s, l)
  PROVE  FlowInv'
<1>1. \A s \in Side, l \in Links : /\ Stream(s, l)' /\ Received(s, l)'
                                   /\ Awaits(s, l)' => Awaits(s, l)
  BY QuietEnd
<1>2. \A l \in Links : Staged(l)'
  BY <1>1, StagedKept, SideFacts
<1> QED BY <1>1, <1>2 DEF FlowInv

-----------------------------------------------------------------------------
(* The steps of the applications. *)

LEMMA SourceEnds ==
  ASSUME NEW s \in Side, NEW l \in Links
  PROVE  /\ Source(s, l) \in Ends /\ <<s, l>> \in Ends
         /\ \A r \in Side, m \in Links : Source(s, l) = <<r, m>> <=> r = Other(s) /\ m = l
BY EndFacts, SideFacts DEF Source

LEMMA StillLines ==
  ASSUME TypeInv, chan' = chan, loop' = loop
  PROVE  \A s \in Side : SameLine(s)
BY LineSame

LEMMA ConnectFlow ==
  ASSUME TypeInv, FlowInv, NEW m \in Links, AppConnect(m)
  PROVE  FlowInv'
<1> DEFINE a == <<"srv", m>>
<1>1. a \in Ends /\ sock[a] = "none" /\ apc[a] = "idle"
  BY EndFacts, SideFacts DEF AppConnect, FlowInv, Staged
<1>2. /\ chan' = chan /\ loop' = loop /\ lst' = lst /\ shut' = shut /\ taken' = taken
      /\ inbox' = inbox /\ got' = got /\ reg' = reg \cup {a}
      /\ sock' = [sock EXCEPT ![a] = "open"] /\ apc' = [apc EXCEPT ![a] = "open"]
  BY DEF AppConnect
<1>3. Registered'
  BY <1>2, RegisteredKept
<1>4. ASSUME NEW l \in Links PROVE StageKept(l)
  BY <1>1, <1>2, EndFacts, SideFacts DEF StageKept, TypeInv, Typed
<1>5. ASSUME NEW s \in Side, NEW l \in Links
      PROVE  Kept(s, l) /\ EndKept(s, l) /\ DataKept(s, l)
  <2>1. EndKept(s, l) /\ DataKept(s, l)
    BY <1>1, <1>2, EndFacts DEF EndKept, DataKept, TypeInv, Typed
  <2>2. Source(s, l) \in Ends
    BY SourceEnds
  <2>3. apc'[Source(s, l)] = apc[Source(s, l)]
        \/ (apc[Source(s, l)] = "idle" /\ apc'[Source(s, l)] = "open")
    BY <1>1, <1>2, <2>2 DEF TypeInv, Typed
  <2>4. SourceKept(s, l)
    BY <1>2, <2>3 DEF SourceKept, Mute, Sent, Pending, Source
  <2> QED BY <1>2, <2>1, <2>4, StillLines, KeptSame, NumSame
<1> QED BY <1>3, <1>4, <1>5, QuietStep

LEMMA StillFlow ==
  ASSUME TypeInv, FlowInv,
         (\E e \in Ends : AppWrite(e) \/ AppClose(e)) \/ UNCHANGED vars
  PROVE  FlowInv'
<1>1. /\ chan' = chan /\ loop' = loop /\ lst' = lst /\ shut' = shut /\ taken' = taken
      /\ inbox' = inbox /\ got' = got /\ reg' = reg /\ apc' = apc
  BY DEF AppWrite, AppClose, vars, gateway, app
<1>2. \A f \in Ends : /\ sock[f] = "rst" => sock'[f] = "rst"
                      /\ sock'[f] = "none" => sock[f] = "none"
  <2>1. CASE \E e \in Ends : AppClose(e)
    BY <2>1 DEF AppClose, TypeInv, Typed
  <2>2. CASE sock' = sock
    BY <2>2
  <2> QED BY <2>1, <2>2 DEF AppWrite, vars, app
<1>3. Registered'
  BY <1>1, RegisteredKept
<1>4. ASSUME NEW l \in Links PROVE StageKept(l)
  BY <1>1, <1>2, EndFacts, SideFacts DEF StageKept
<1>5. ASSUME NEW s \in Side, NEW l \in Links
      PROVE  Kept(s, l) /\ EndKept(s, l) /\ DataKept(s, l)
  <2>1. EndKept(s, l) /\ DataKept(s, l)
    BY <1>1, <1>2, EndFacts DEF EndKept, DataKept
  <2> QED BY <1>1, <2>1, SourceSame, StillLines, KeptSame, NumSame
<1> QED BY <1>3, <1>4, <1>5, QuietStep

(* What an application reads moves from its socket to what it has got.     *)
LEMMA ReadMoves ==
  ASSUME TypeInv, NEW r \in Side, NEW m \in Links, AppRead(<<r, m>>), Received(r, m)
  PROVE  Received(r, m)' /\ Num(r, m)' = Num(r, m)
<1> DEFINE e == <<r, m>>
           g == got[e]
           i == inbox[e]
<1>1. e \in Ends /\ g \in Seq(Nat) /\ i \in Seq(Nat) /\ i # <<>>
  BY EndFacts DEF TypeInv, Typed, AppRead
<1>2. got'[e] = Append(g, Head(i)) /\ inbox'[e] = Tail(i) /\ taken' = taken /\ apc' = apc
  BY <1>1 DEF AppRead, TypeInv, Typed, gateway
<1>3. (\A k \in 1 .. Len(g) : g[k] = k) /\ (\A k \in 1 .. Len(i) : i[k] = Len(g) + k)
      /\ Num(r, m) <= Sent(r, m)
  BY DEF Received
<1>4. Num(r, m) = Len(g) + Len(i) /\ Num(r, m)' = Len(got'[e]) + Len(inbox'[e])
  BY DEF Num
<1>5. Sent(r, m)' = Sent(r, m)
  BY <1>2 DEF Sent, Pending, Source
<1> HIDE DEF e, g, i
<1>6. /\ Len(g) \in Nat /\ Len(i) \in Nat /\ Len(i) > 0 /\ Head(i) = i[1]
      /\ Len(Append(g, Head(i))) = Len(g) + 1 /\ Len(Tail(i)) = Len(i) - 1
      /\ Append(g, Head(i))[Len(g) + 1] = Head(i)
      /\ \A k \in 1 .. Len(g) : Append(g, Head(i))[k] = g[k]
      /\ \A k \in 1 .. Len(i) - 1 : Tail(i)[k] = i[k + 1]
  BY <1>1
<1>7. Num(r, m)' = Num(r, m)
  <2>1. Num(r, m)' = (Len(g) + 1) + (Len(i) - 1)
    BY <1>2, <1>4, <1>6
  <2>2. Len(g) + Len(i) = (Len(g) + 1) + (Len(i) - 1)
    BY <1>6
  <2> QED BY <1>4, <2>1, <2>2
<1>8. ASSUME NEW k \in 1 .. Len(got'[e]) PROVE got'[e][k] = k
  <2>1. k \in 1 .. Len(g) \/ k = Len(g) + 1
    BY <1>2, <1>6
  <2>2. Head(i) = Len(g) + 1
    BY <1>3, <1>6
  <2>3. CASE k \in 1 .. Len(g)
    BY <1>2, <1>3, <1>6, <2>3
  <2>4. CASE k = Len(g) + 1
    BY <1>2, <1>6, <2>2, <2>4
  <2> QED BY <2>1, <2>3, <2>4
<1>9. ASSUME NEW k \in 1 .. Len(inbox'[e]) PROVE inbox'[e][k] = Len(got'[e]) + k
  <2>1. k \in 1 .. Len(i) - 1 /\ k + 1 \in 1 .. Len(i) /\ k \in Nat
    BY <1>2, <1>6
  <2>2. inbox'[e][k] = i[k + 1]
    BY <1>2, <1>6, <2>1
  <2>3. i[k + 1] = Len(g) + (k + 1)
    BY <1>3, <2>1
  <2> QED BY <1>2, <1>6, <2>1, <2>2, <2>3
<1>10. Received(r, m)'
  BY <1>3, <1>5, <1>7, <1>8, <1>9 DEF Received, e
<1> QED BY <1>7, <1>10

LEMMA ReadFlow ==
  ASSUME TypeInv, FlowInv, NEW e \in Ends, AppRead(e)
  PROVE  FlowInv'
<1>1. PICK r \in Side, m \in Links : e = <<r, m>>
  BY EndFacts
<1>2. /\ chan' = chan /\ loop' = loop /\ lst' = lst /\ shut' = shut /\ taken' = taken
      /\ sock' = sock /\ reg' = reg /\ apc' = apc
      /\ \A f \in Ends : f # e => got'[f] = got[f] /\ inbox'[f] = inbox[f]
  BY DEF AppRead, gateway, TypeInv, Typed
<1>3. Registered'
  BY <1>2, RegisteredKept
<1>4. \A l \in Links : StageKept(l)
  BY <1>2 DEF StageKept
<1>5. ASSUME NEW s \in Side, NEW l \in Links
      PROVE  /\ Stream(s, l)' /\ Received(s, l)'
             /\ Awaits(s, l)' => Awaits(s, l)
  <2>1. EndKept(s, l) /\ SourceKept(s, l) /\ SameLine(s)
    BY <1>2, StillLines, SourceSame DEF EndKept
  <2>2. Received(s, l)' /\ Num(s, l)' = Num(s, l)
    <3>1. CASE s = r /\ l = m
      BY <3>1, <1>1, ReadMoves DEF FlowInv
    <3>2. CASE ~(s = r /\ l = m)
      <4>1. DataKept(s, l)
        BY <3>2, <1>1, <1>2, EndFacts DEF DataKept
      <4> QED BY <4>1, <2>1, NumSame DEF FlowInv, Received, SourceKept, DataKept
    <3> QED BY <3>1, <3>2
  <2>3. Kept(s, l)
    BY <2>1, <2>2, KeptSame
  <2>4. Awaits(s, l)' => Awaits(s, l)
    BY <2>3, KeptAwaits
  <2>5. Stream(s, l)
    BY DEF FlowInv
  <2>6. Takes(<<s, l>>)' => Open(s, l)
    BY <2>1, TakesKept DEF Open
  <2>7. Awaits(s, l) => lst'[<<s, l>>] # "Connected"
    BY <1>2, <2>5 DEF Stream, Closed
  <2> QED BY <2>2, <2>3, <2>4, <2>5, <2>6, <2>7, KeptStream
<1>6. \A l \in Links : Staged(l)'
  BY <1>4, <1>5, StagedKept, SideFacts
<1> QED BY <1>3, <1>5, <1>6 DEF FlowInv

-----------------------------------------------------------------------------
(* The steps of the application tasks. *)

(* Task <<r, m>> is past its announcement and stays there.                 *)
TaskStep(r, m) ==
  /\ apc[<<r, m>>] \notin {"idle", "open"}
  /\ apc'[<<r, m>>] \notin {"idle", "open", "waiting"}
  /\ \A f \in Ends : f # <<r, m>> => apc'[f] = apc[f] /\ taken'[f] = taken[f]
  /\ sock' = sock /\ got' = got /\ inbox' = inbox
  /\ \A f \in Ends : lst'[f] = "Connected" => lst[f] = "Connected"
  /\ shut \subseteq shut' /\ reg' \subseteq reg /\ reg \cup shut \subseteq reg' \cup shut'
  /\ shut' \subseteq shut \cup {<<r, m>>}
  /\ loop' = loop

LEMMA TaskFrame ==
  ASSUME TypeInv, FlowInv, NEW r \in Side, NEW m \in Links, TaskStep(r, m)
  PROVE  /\ Registered'
         /\ \A l \in Links : StageKept(l)
         /\ \A s \in Side, l \in Links : EndKept(s, l) /\ DataKept(s, l)
         /\ \A s \in Side, l \in Links :
              Sent(Other(r), m)' = Sent(Other(r), m) \/ ~(s = Other(r) /\ l = m)
                => SourceKept(s, l)
<1>1. <<r, m>> \in Ends
  BY EndFacts
<1>2. Registered'
  BY RegisteredKept DEF TaskStep
<1>3. ASSUME NEW l \in Links PROVE StageKept(l)
  <2>1. <<"srv", l>> \in Ends /\ <<"cli", l>> \in Ends /\ Staged(l)
    BY EndFacts, SideFacts DEF FlowInv
  <2>2. sock'[<<"srv", l>>] = "none" => apc'[<<"srv", l>>] = apc[<<"srv", l>>]
    BY <2>1 DEF Staged, TaskStep
  <2>3. /\ apc[<<"cli", l>>] = "idle" => apc'[<<"cli", l>>] = "idle"
        /\ apc'[<<"cli", l>>] \in {"open", "waiting"} => apc[<<"cli", l>>] \in {"open", "waiting"}
    BY <2>1 DEF TaskStep
  <2>4. apc[<<"cli", l>>] = "idle" /\ <<"cli", l>> \in reg' \cup shut'
          => <<"cli", l>> \in reg \cup shut
    BY DEF TaskStep
  <2> QED BY <2>2, <2>3, <2>4 DEF StageKept, TaskStep
<1>4. ASSUME NEW s \in Side, NEW l \in Links PROVE EndKept(s, l) /\ DataKept(s, l)
  BY EndFacts DEF TaskStep, EndKept, DataKept
<1>5. ASSUME NEW s \in Side, NEW l \in Links,
             Sent(Other(r), m)' = Sent(Other(r), m) \/ ~(s = Other(r) /\ l = m)
      PROVE  SourceKept(s, l)
  <2>1. CASE s = Other(r) /\ l = m
    <3>1. Source(s, l) = <<r, m>>
      BY <2>1, SideFacts DEF Source
    <3>2. ~Mute(s, l) /\ ~Mute(s, l)'
      BY <3>1 DEF Mute, TaskStep, Source
    <3> QED BY <1>5, <2>1, <3>2 DEF SourceKept
  <2>2. CASE ~(s = Other(r) /\ l = m)
    <3>1. Source(s, l) # <<r, m>> /\ Source(s, l) \in Ends
      <4>1. r = Other(s) => s = Other(r)
        BY SideFacts
      <4>2. <<Other(s), l>> = <<r, m>> => Other(s) = r /\ l = m
        OBVIOUS
      <4> QED BY <2>2, <4>1, <4>2, SourceEnds DEF Source
    <3> QED BY <3>1, SourceSame DEF TaskStep
  <2> QED BY <2>1, <2>2
<1> QED BY <1>2, <1>3, <1>4, <1>5

LEMMA TaskFlow ==
  ASSUME TypeInv, FlowInv, NEW e \in Ends,
         \/ SetLinkWaiting(e) \/ TakeReader(e) \/ ReadApp(e) \/ ReadAppEnd(e)
         \/ AddIncoming(e) \/ Remove(e)
  PROVE  FlowInv'
<1>1. PICK r \in Side, m \in Links : e = <<r, m>>
  BY EndFacts
<1>a. /\ apc \in [Ends -> AppPc] /\ taken \in [Ends -> Nat] /\ e[1] = r
      /\ lst \in [Ends -> {"Disconnected", "Waiting", "Connected"}]
  BY <1>1 DEF TypeInv, Typed
<1>b. Sent(Other(r), m) = (IF Pending(e) THEN taken[e] - 1 ELSE taken[e])
  BY <1>1, SideFacts DEF Sent, Source
<1>c. Sent(Other(r), m)' = (IF Pending(e)' THEN taken'[e] - 1 ELSE taken'[e])
  BY <1>1, SideFacts DEF Sent, Source
<1>2. chan' = chan /\ TaskStep(r, m) /\ Sent(Other(r), m)' = Sent(Other(r), m)
  <2>1. CASE SetLinkWaiting(e)
    BY <2>1, <1>1, <1>a, <1>b, <1>c DEF SetLinkWaiting, TaskStep, app, Pending
  <2>2. CASE TakeReader(e)
    BY <2>2, <1>1, <1>a, <1>b, <1>c DEF TakeReader, TaskStep, app, Pending
  <2>3. CASE ReadApp(e)
    BY <2>3, <1>1, <1>a, <1>b, <1>c DEF ReadApp, TaskStep, Pending
  <2>4. CASE ReadAppEnd(e)
    BY <2>4, <1>1, <1>a, <1>b, <1>c DEF ReadAppEnd, TaskStep, app, Pending
  <2>5. CASE AddIncoming(e)
    BY <2>5, <1>1, <1>a, <1>b, <1>c DEF AddIncoming, TaskStep, app, Pending
  <2>6. CASE Remove(e)
    BY <2>6, <1>1, <1>a, <1>b, <1>c DEF Remove, TaskStep, app, Pending
  <2> QED BY <2>1, <2>2, <2>3, <2>4, <2>5, <2>6
<1>3. ASSUME NEW s \in Side, NEW l \in Links PROVE Kept(s, l)
  <2>1. SameLine(s)
    BY <1>2, StillLines DEF TaskStep
  <2>2. SourceKept(s, l) /\ DataKept(s, l)
    BY <1>2, TaskFrame
  <2> QED BY <2>1, <2>2, KeptSame, NumSame
<1> QED BY <1>2, <1>3, TaskFrame, QuietStep

(* A packet is sent from side r: the line to the other side grows.         *)
LEMMA SendLines ==
  ASSUME TypeInv, NEW r \in Side, NEW p \in Msg, Send(r, p)
  PROVE  /\ loop'[r] = loop[r] => SameLine(r)
         /\ loop'[r].pc \in {"loop", "opened", "refuse"} => Drop(r)
         /\ loop'[Other(r)] = loop[Other(r)] => \E n \in Nat : Put(Other(r), p, n)
<1>1. Other(r) \in Side /\ chan'[Other(r)] = Append(chan[Other(r)], p) /\ chan'[r] = chan[r]
  BY SideFacts, SendTyping
<1> QED BY <1>1, LineSame, LineDrop, LinePut

LEMMA FlowFrom ==
  ASSUME FlowInv, Registered', \A l \in Links : StageKept(l),
         \A s \in Side, l \in Links : /\ Stream(s, l)' /\ Received(s, l)'
                                      /\ Awaits(s, l)' => Awaits(s, l)
  PROVE  FlowInv'
<1>1. \A l \in Links : Staged(l)'
  BY StagedKept, SideFacts
<1> QED BY <1>1 DEF FlowInv

LEMMA CloseFlow ==
  ASSUME TypeInv, FlowInv, NEW e \in Ends, SendClose(e)
  PROVE  FlowInv'
<1>1. PICK r \in Side, m \in Links : e = <<r, m>>
  BY EndFacts
<1>2. TaskStep(r, m)
  BY <1>1 DEF SendClose, TaskStep, app, TypeInv, Typed
<1>3. Sent(Other(r), m)' = Sent(Other(r), m)
  <2>1. Source(Other(r), m) = e
    BY <1>1, SideFacts DEF Source
  <2>2. taken' = taken /\ ~Pending(e) /\ ~Pending(e)'
    BY <1>1 DEF SendClose, Pending, app, TypeInv, Typed
  <2>3. Sent(Other(r), m) = taken[e] /\ Sent(Other(r), m)' = taken'[e]
    BY <1>1, <2>2, SideFacts DEF Sent, Source
  <2> QED BY <2>2, <2>3
<1>4. ASSUME NEW s \in Side, NEW l \in Links PROVE Kept(s, l)
  <2>1. SourceKept(s, l) /\ Num(s, l)' = Num(s, l)
    BY <1>2, <1>3, TaskFrame, NumSame
  <2>2. Packet("Close", m, 0) \in Msg /\ Send(r, Packet("Close", m, 0)) /\ loop' = loop
    BY <1>1, PacketTyping DEF SendClose, MsgType
  <2>3. CASE s = r
    BY <2>1, <2>2, <2>3, SendLines, KeptSame
  <2>4. CASE s = Other(r)
    <3>1. PICK n \in Nat : Put(s, Packet("Close", m, 0), n)
      BY <2>2, <2>4, SendLines
    <3>2. Packet("Close", m, 0).type \notin {"Regular", Ann(s)}
      BY DEF Packet, Ann
    <3> QED BY <2>1, <3>1, <3>2, KeptPut
  <2> QED BY <2>3, <2>4, SideFacts
<1> QED BY <1>2, <1>4, TaskFrame, QuietStep

LEMMA DataFlow ==
  ASSUME TypeInv, FlowInv, NEW e \in Ends, SendData(e)
  PROVE  FlowInv'
<1>1. PICK r \in Side, m \in Links : e = <<r, m>>
  BY EndFacts
<1> DEFINE p == Packet("Regular", m, taken[e])
<1>2. TaskStep(r, m)
  BY <1>1 DEF SendData, TaskStep, app, TypeInv, Typed
<1>3. taken[e] \in Nat /\ p \in Msg /\ Send(r, p) /\ loop' = loop
  BY <1>1, PacketTyping DEF SendData, MsgType, TypeInv, Typed
<1>4. Sent(Other(r), m) = taken[e] - 1 /\ Sent(Other(r), m)' = taken[e]
      /\ ~Mute(Other(r), m) /\ ~Mute(Other(r), m)'
  <2>1. taken' = taken /\ Pending(e) /\ ~Pending(e)'
    BY <1>1 DEF SendData, Pending, app, TypeInv, Typed
  <2>2. Sent(Other(r), m) = taken[e] - 1 /\ Sent(Other(r), m)' = taken'[e]
    BY <1>1, <2>1, SideFacts DEF Sent, Source
  <2>3. ~Mute(Other(r), m) /\ ~Mute(Other(r), m)'
    BY <1>1, <1>2, SideFacts DEF Mute, Source, TaskStep
  <2> QED BY <2>1, <2>2, <2>3
<1>5. p.type = "Regular" /\ p.link = m /\ p.val = taken[e]
  BY DEF Packet
<1> HIDE DEF p
<1>6. ASSUME NEW s \in Side, NEW l \in Links
      PROVE  /\ Stream(s, l)' /\ Received(s, l)'
             /\ Awaits(s, l)' => Awaits(s, l)
  <2>1. EndKept(s, l) /\ DataKept(s, l) /\ Num(s, l)' = Num(s, l)
    BY <1>2, TaskFrame, NumSame
  <2>2. CASE s = Other(r) /\ l = m
    <3>1. PICK n \in Nat : Put(s, p, n)
      BY <1>3, <2>2, SendLines
    <3>2. Stream(s, l) /\ Received(s, l)
      BY DEF FlowInv
    <3>3. Num(s, l) <= Sent(s, l) /\ Num(s, l) \in Nat
      BY <3>2, Counts DEF Received
    <3>4. p.val = Sent(s, l) + 1 /\ Sent(s, l)' = Sent(s, l) + 1
      BY <1>3, <1>4, <1>5, <2>2
    <3>5. lst'[<<s, l>>] = lst[<<s, l>>]
      BY DEF SendData
    <3>6. Takes(<<s, l>>)' => Takes(<<s, l>>)
      BY <2>1, TakesKept
    <3>7. Stream(s, l)' /\ (Awaits(s, l)' => Awaits(s, l))
      BY <1>4, <1>5, <2>1, <2>2, <3>1, <3>2, <3>3, <3>4, <3>5, <3>6, ExtendedStream
    <3>8. Num(s, l)' <= Sent(s, l)'
      BY <1>3, <1>4, <2>1, <2>2, <3>3
    <3>9. Received(s, l)'
      BY <2>1, <3>2, <3>8 DEF Received, DataKept
    <3> QED BY <3>7, <3>9
  <2>3. CASE ~(s = Other(r) /\ l = m)
    <3>1. SourceKept(s, l)
      BY <1>2, <2>3, TaskFrame
    <3>2. Kept(s, l)
      <4>1. CASE s = r
        BY <1>3, <2>1, <3>1, <4>1, SendLines, KeptSame
      <4>2. CASE s = Other(r)
        <5>1. PICK n \in Nat : Put(s, p, n)
          BY <1>3, <4>2, SendLines
        <5> QED BY <1>5, <2>1, <2>3, <3>1, <4>2, <5>1, KeptPut
      <4> QED BY <4>1, <4>2, SideFacts
    <3> QED BY <2>1, <3>2, QuietEnd
  <2> QED BY <2>2, <2>3
<1> QED BY <1>2, <1>6, TaskFrame, FlowFrom

(* Open, from the server's task.                                           *)
LEMMA OpenFlow ==
  ASSUME TypeInv, FlowInv, NEW e \in Ends, SendOpen(e)
  PROVE  FlowInv'
<1>1. PICK r \in Side, m \in Links : e = <<r, m>>
  BY EndFacts
<1>2. r = "srv"
  BY <1>1, SideFacts DEF SendOpen, FlowInv, Staged
<1> DEFINE p == Packet("Open", m, 0)
<1>3. p \in Msg /\ Send("srv", p) /\ loop' = loop /\ p.type = "Open" /\ p.link = m
  BY <1>1, PacketTyping DEF SendOpen, MsgType, Packet
<1>4. /\ apc[e] = "open" /\ apc' = [apc EXCEPT ![e] = "waiting"] /\ taken' = taken
      /\ lst' = lst /\ reg' = reg /\ shut' = shut /\ sock' = sock /\ got' = got /\ inbox' = inbox
  BY DEF SendOpen, app
<1> HIDE DEF p
<1>5. Registered'
  BY <1>3, <1>4, RegisteredKept
<1>6. ASSUME NEW l \in Links PROVE StageKept(l)
  <2>1. <<"srv", l>> \in Ends /\ <<"cli", l>> \in Ends /\ Staged(l)
    BY EndFacts, SideFacts DEF FlowInv
  <2>2. apc'[<<"cli", l>>] = apc[<<"cli", l>>]
    BY <1>1, <1>2, <1>4, <2>1, EndFacts DEF TypeInv, Typed
  <2>3. sock[<<"srv", l>>] = "none" => <<"srv", l>> # e
    BY <1>4, <2>1 DEF Staged
  <2>4. sock[<<"srv", l>>] = "none" => apc'[<<"srv", l>>] = apc[<<"srv", l>>]
    BY <1>4, <2>1, <2>3 DEF TypeInv, Typed
  <2> QED BY <1>3, <1>4, <2>2, <2>4 DEF StageKept
<1>7. ASSUME NEW s \in Side, NEW l \in Links
      PROVE  /\ Stream(s, l)' /\ Received(s, l)'
             /\ Awaits(s, l)' => Awaits(s, l)
  <2>1. EndKept(s, l) /\ DataKept(s, l) /\ Num(s, l)' = Num(s, l)
    BY <1>4, NumSame DEF EndKept, DataKept
  <2>2. CASE s = "cli" /\ l = m
    <3>1. PICK n \in Nat : Put(s, p, n)
      BY <1>3, <2>2, SendLines, SideFacts
    <3>2. Stream(s, l) /\ Received(s, l)
      BY DEF FlowInv
    <3>3. Source(s, l) = e
      BY <1>1, <1>2, <2>2, SideFacts DEF Source
    <3>4. apc[Source(s, l)] = "open" /\ apc'[Source(s, l)] = "waiting"
      BY <1>4, <3>3 DEF TypeInv, Typed
    <3>5. Mute(s, l) /\ ~Mute(s, l)' /\ Sent(s, l)' = Sent(s, l)
      BY <1>4, <3>4 DEF Mute, Sent, Pending, Source
    <3>6. p.type = Ann(s) /\ p.link = l
      BY <1>3, <2>2 DEF Ann
    <3>7. Takes(<<s, l>>)' => Takes(<<s, l>>)
      BY <2>1, TakesKept
    <3>8. Stream(s, l)' /\ Awaits(s, l)
      BY <1>4, <2>1, <3>1, <3>2, <3>5, <3>6, <3>7, AnnouncedStream
    <3>9. Received(s, l)'
      BY <2>1, <3>2, <3>5 DEF Received, DataKept
    <3> QED BY <3>8, <3>9
  <2>3. CASE ~(s = "cli" /\ l = m)
    <3>1. SourceKept(s, l)
      <4>1. <<Other(s), l>> # e /\ Source(s, l) \in Ends
        BY <1>1, <1>2, <2>3, SourceEnds, SideFacts
      <4>2. apc'[Source(s, l)] = apc[Source(s, l)]
        BY <1>4, <4>1 DEF Source, TypeInv, Typed
      <4> QED BY <1>4, <4>2, SourceSame
    <3>2. Kept(s, l)
      <4>1. CASE s = "srv"
        BY <1>3, <2>1, <3>1, <4>1, SendLines, KeptSame
      <4>2. CASE s = "cli"
        <5>1. PICK n \in Nat : Put(s, p, n)
          BY <1>3, <4>2, SendLines, SideFacts
        <5> QED BY <1>3, <2>1, <2>3, <3>1, <4>2, <5>1, KeptPut
      <4> QED BY <4>1, <4>2, SideFacts
    <3> QED BY <2>1, <3>2, QuietEnd
  <2> QED BY <2>2, <2>3
<1> QED BY <1>5, <1>6, <1>7, FlowFrom

-----------------------------------------------------------------------------
(* The steps of the loops. *)

(* Keep-alives.                                                            *)
LEMMA PingFlow ==
  ASSUME TypeInv, FlowInv, Ping \/ SendPong("srv")
  PROVE  FlowInv'
<1>1. /\ taken' = taken /\ got' = got /\ inbox' = inbox /\ sock' = sock /\ apc' = apc
      /\ reg' = reg /\ lst' = lst /\ shut' = shut
  BY DEF Ping, SendPong, gateway, app
<1>2. Control("Ping") \in Msg /\ Control("Pong") \in Msg
      /\ Control("Ping").type = "Ping" /\ Control("Pong").type = "Pong"
  BY PacketTyping DEF MsgType
<1>3. \/ loop' = loop /\ Send("cli", Control("Ping"))
      \/ /\ loop' = [loop EXCEPT !["srv"] = Idle("loop")] /\ Send("srv", Control("Pong"))
         /\ loop["srv"].pc = "pong"
  BY DEF Ping, SendPong, gateway
<1>4. /\ loop'["cli"] = loop["cli"]
      /\ loop'["srv"] = loop["srv"] \/ (loop'["srv"].pc = "loop" /\ loop["srv"].pc = "pong")
  BY <1>3, PacketTyping, SideFacts DEF TypeInv, Typed, LoopPc
<1>5. Registered'
  BY <1>1, <1>4, RegisteredKept
<1>6. \A l \in Links : StageKept(l)
  BY <1>1, <1>4 DEF StageKept
<1>7. ASSUME NEW s \in Side, NEW l \in Links
      PROVE  Kept(s, l) /\ EndKept(s, l) /\ DataKept(s, l)
  <2>1. EndKept(s, l) /\ DataKept(s, l)
    BY <1>1 DEF EndKept, DataKept
  <2>2. SourceKept(s, l) /\ Num(s, l)' = Num(s, l)
    BY <1>1, <2>1, SourceSame, NumSame
  <2>3. \/ SameLine(s)
        \/ Drop(s) /\ ~Has(s, 0, "Regular", l)
        \/ \E n \in Nat : Put(s, Control("Ping"), n) \/ Put(s, Control("Pong"), n)
    <3>1. CASE loop' = loop /\ Send("cli", Control("Ping"))
      BY <1>2, <3>1, SendLines, SideFacts
    <3>2. CASE Send("srv", Control("Pong")) /\ loop'["srv"].pc = "loop" /\ loop["srv"].pc = "pong"
      <4>1. CASE s = "srv"
        <5>1. Drop(s)
          BY <1>2, <3>2, <4>1, SendLines, SideFacts
        <5>2. ~Has(s, 0, "Regular", l)
          BY <3>2, <4>1 DEF Has, Doing
        <5> QED BY <5>1, <5>2
      <4>2. CASE s = "cli"
        BY <1>2, <1>4, <3>2, <4>2, SendLines, SideFacts
      <4> QED BY <4>1, <4>2, SideFacts
    <3>3. loop' = [loop EXCEPT !["srv"] = Idle("loop")] => loop'["srv"].pc = "loop"
      BY PacketTyping, SideFacts DEF TypeInv, Typed, LoopPc
    <3> QED BY <1>3, <3>1, <3>2, <3>3
  <2>4. Kept(s, l)
    <3>1. CASE \E n \in Nat : Put(s, Control("Ping"), n) \/ Put(s, Control("Pong"), n)
      <4>1. Control("Ping").type \notin {"Regular", Ann(s)} /\ Control("Pong").type \notin {"Regular", Ann(s)}
        BY <1>2 DEF Ann
      <4> QED BY <2>2, <3>1, <4>1, KeptPut
    <3> QED BY <2>2, <2>3, <3>1, KeptSame, KeptDrop
  <2> QED BY <2>1, <2>4
<1> QED BY <1>5, <1>6, <1>7, QuietStep

(* OpenFail.                                                               *)
LEMMA OpenFailFlow ==
  ASSUME TypeInv, FlowInv, SendOpenFail
  PROVE  FlowInv'
<1> DEFINE m == loop["cli"].link
           p == Packet("OpenFail", m, 0)
<1>1. /\ taken' = taken /\ got' = got /\ inbox' = inbox /\ sock' = sock /\ apc' = apc
      /\ reg' = reg /\ lst' = lst /\ shut' = shut
  BY DEF SendOpenFail, app
<1>2. p \in Msg /\ p.type = "OpenFail" /\ Send("cli", p) /\ loop["cli"].pc = "refuse"
  BY PacketTyping, SideFacts DEF SendOpenFail, MsgType, Packet, TypeInv, Typed, Stage
<1>3. loop'["cli"].pc = "loop" /\ loop'["srv"] = loop["srv"]
  BY PacketTyping, SideFacts DEF SendOpenFail, TypeInv, Typed, LoopPc
<1> HIDE DEF p
<1>4. Registered'
  BY <1>1, <1>3, RegisteredKept
<1>5. \A l \in Links : StageKept(l)
  BY <1>1, <1>3 DEF StageKept
<1>6. ASSUME NEW s \in Side, NEW l \in Links
      PROVE  Kept(s, l) /\ EndKept(s, l) /\ DataKept(s, l)
  <2>1. EndKept(s, l) /\ DataKept(s, l)
    BY <1>1 DEF EndKept, DataKept
  <2>2. SourceKept(s, l) /\ Num(s, l)' = Num(s, l)
    BY <1>1, <2>1, SourceSame, NumSame
  <2>3. CASE s = "cli"
    <3>1. Drop(s)
      BY <1>2, <1>3, <2>3, SendLines
    <3>2. ~Has(s, 0, "Regular", l)
      BY <1>2, <2>3 DEF Has, Doing
    <3> QED BY <2>1, <2>2, <3>1, <3>2, KeptDrop
  <2>4. CASE s = "srv"
    <3>1. PICK n \in Nat : Put(s, p, n)
      BY <1>2, <1>3, <2>4, SendLines, SideFacts
    <3>2. p.type \notin {"Regular", Ann(s)}
      BY <1>2 DEF Ann
    <3> QED BY <2>1, <2>2, <3>1, <3>2, KeptPut
  <2> QED BY <2>3, <2>4, SideFacts
<1> QED BY <1>4, <1>5, <1>6, QuietStep

(* Opened: the client's task announces itself and starts.                  *)
LEMMA OpenedFlow ==
  ASSUME TypeInv, FlowInv, SendOpened
  PROVE  FlowInv'
<1>0. PICK m \in Links : m = loop["cli"].link
  BY SideFacts DEF TypeInv, Typed, Stage
<1> DEFINE p == Packet("Opened", m, 0)
           b == <<"cli", m>>
<1>1. /\ taken' = taken /\ got' = got /\ inbox' = inbox /\ sock' = sock
      /\ reg' = reg /\ lst' = lst /\ shut' = shut
      /\ apc' = [apc EXCEPT ![b] = "start"] /\ b \in Ends
  BY <1>0, EndFacts, SideFacts DEF SendOpened, app
<1>2. p \in Msg /\ p.type = "Opened" /\ p.link = m /\ Send("cli", p) /\ loop["cli"].pc = "opened"
  BY <1>0, PacketTyping DEF SendOpened, MsgType, Packet
<1>3. loop'["cli"].pc = "loop" /\ loop'["srv"] = loop["srv"]
  BY PacketTyping, SideFacts DEF SendOpened, TypeInv, Typed, LoopPc
<1>4. apc[b] = "idle" /\ ~Awaits("cli", m)
  BY <1>0, <1>2 DEF FlowInv, Staged
<1> HIDE DEF p
<1>5. Registered'
  BY <1>1, <1>3, RegisteredKept
<1>6. ASSUME NEW s \in Side, NEW l \in Links
      PROVE  /\ Stream(s, l)' /\ Received(s, l)'
             /\ Awaits(s, l)' => Awaits(s, l)
  <2>1. EndKept(s, l) /\ DataKept(s, l) /\ Num(s, l)' = Num(s, l)
    BY <1>1, NumSame DEF EndKept, DataKept
  <2>2. CASE s = "srv" /\ l = m
    <3>1. PICK n \in Nat : Put(s, p, n)
      BY <1>2, <1>3, <2>2, SendLines, SideFacts
    <3>2. Stream(s, l) /\ Received(s, l)
      BY DEF FlowInv
    <3>3. Source(s, l) = b
      BY <2>2, SideFacts DEF Source
    <3>4. apc[Source(s, l)] = "idle" /\ apc'[Source(s, l)] = "start"
      BY <1>1, <1>4, <3>3 DEF TypeInv, Typed
    <3>5. Mute(s, l) /\ ~Mute(s, l)' /\ Sent(s, l)' = Sent(s, l)
      BY <1>1, <3>4 DEF Mute, Sent, Pending, Source
    <3>6. p.type = Ann(s) /\ p.link = l
      BY <1>2, <2>2 DEF Ann
    <3>7. Takes(<<s, l>>)' => Takes(<<s, l>>)
      BY <2>1, TakesKept
    <3>8. Stream(s, l)' /\ Awaits(s, l)
      BY <1>1, <2>1, <3>1, <3>2, <3>5, <3>6, <3>7, AnnouncedStream
    <3>9. Received(s, l)'
      BY <2>1, <3>2, <3>5 DEF Received, DataKept
    <3> QED BY <3>8, <3>9
  <2>3. CASE ~(s = "srv" /\ l = m)
    <3>1. SourceKept(s, l)
      <4>1. <<Other(s), l>> # b /\ Source(s, l) \in Ends
        BY <2>3, SourceEnds, SideFacts
      <4>2. apc'[Source(s, l)] = apc[Source(s, l)]
        BY <1>1, <4>1 DEF Source, TypeInv, Typed
      <4> QED BY <1>1, <4>2, SourceSame
    <3>2. Kept(s, l)
      <4>1. CASE s = "cli"
        <5>1. Drop(s)
          BY <1>2, <1>3, <4>1, SendLines
        <5>2. ~Has(s, 0, "Regular", l)
          BY <1>2, <4>1 DEF Has, Doing
        <5> QED BY <2>1, <3>1, <5>1, <5>2, KeptDrop
      <4>2. CASE s = "srv"
        <5>1. PICK n \in Nat : Put(s, p, n)
          BY <1>2, <1>3, <4>2, SendLines, SideFacts
        <5> QED BY <1>2, <2>1, <2>3, <3>1, <4>2, <5>1, KeptPut
      <4> QED BY <4>1, <4>2, SideFacts
    <3> QED BY <2>1, <3>2, QuietEnd
  <2> QED BY <2>2, <2>3
<1>7. ASSUME NEW l \in Links PROVE Staged(l)'
  <2>1. <<"srv", l>> \in Ends /\ <<"cli", l>> \in Ends /\ Staged(l)
    BY EndFacts, SideFacts DEF FlowInv
  <2>2. apc'[<<"srv", l>>] = apc[<<"srv", l>>]
    BY <1>1, <2>1, EndFacts DEF TypeInv, Typed
  <2>3. apc'[<<"cli", l>>] = IF l = m THEN "start" ELSE apc[<<"cli", l>>]
    BY <1>1, <2>1, EndFacts DEF TypeInv, Typed
  <2>4. Awaits("cli", l)' => Awaits("cli", l) /\ l # m
    BY <1>4, <1>6, SideFacts
  <2> QED BY <1>1, <1>3, <2>1, <2>2, <2>3, <2>4 DEF Staged
<1> QED BY <1>5, <1>6, <1>7 DEF FlowInv

(* connect_client, and its failure: Open has been dealt with.              *)
LEMMA DialFlow ==
  ASSUME TypeInv, FlowInv, Dial \/ DialFail
  PROVE  FlowInv'
<1>0. PICK m \in Links : m = loop["cli"].link
  BY SideFacts DEF TypeInv, Typed, Stage
<1> DEFINE b == <<"cli", m>>
<1>1. /\ taken' = taken /\ got' = got /\ inbox' = inbox /\ apc' = apc
      /\ shut' = shut /\ chan' = chan /\ loop["cli"].pc = "dial"
      /\ sock' = [sock EXCEPT ![b] = "open"] \/ sock' = [sock EXCEPT ![b] = "refused"]
      /\ \/ reg' = reg \cup {b} /\ lst' = [lst EXCEPT ![b] = "Connected"]
         \/ reg' = reg /\ lst' = lst
  BY <1>0 DEF Dial, DialFail
<1>2. /\ loop'["cli"].pc \in {"opened", "refuse"} /\ loop'["cli"].link = m
      /\ loop'["srv"] = loop["srv"] /\ b \in Ends
  BY <1>0, SideFacts, EndFacts DEF Dial, DialFail, TypeInv, Typed, Stage
<1>3. Has("cli", 0, Ann("cli"), m) /\ Awaits("cli", m)
  BY <1>0, <1>1 DEF Has, Doing, Ann, Awaits
<1>4. Drop("cli") /\ SameLine("srv")
  BY <1>1, <1>2, LineDrop, LineSame, SideFacts
<1>5. \A f \in Ends : f # b => lst'[f] = lst[f] /\ sock'[f] = sock[f] /\ (f \in reg' <=> f \in reg)
  BY <1>1 DEF TypeInv, Typed
<1>6. ~Awaits("cli", m)'
  <2>1. Stream("cli", m)
    BY SideFacts DEF FlowInv
  <2>2. ~Mute("cli", m)
    BY <1>3, <2>1 DEF Stream, Silent
  <2>3. ~Mute("cli", m)'
    BY <1>1, <2>2 DEF Mute, Source
  <2>4. \A k \in Nat : Has("cli", k, Ann("cli"), m)' => k # 0 /\ Has("cli", k, Ann("cli"), m)
    BY <1>4 DEF Drop, Kinds, Ann
  <2>5. \A k \in Nat : ~Has("cli", k, Ann("cli"), m)'
    BY <1>3, <2>1, <2>4 DEF Stream, Announced
  <2> QED BY <2>3, <2>5 DEF Awaits
<1>7. ASSUME NEW s \in Side, NEW l \in Links
      PROVE  /\ Stream(s, l)' /\ Received(s, l)'
             /\ Awaits(s, l)' => Awaits(s, l)
  <2>1. DataKept(s, l) /\ Num(s, l)' = Num(s, l) /\ SourceKept(s, l)
    BY <1>1, NumSame, SourceSame DEF DataKept
  <2>2. Kept(s, l)
    <3>1. CASE s = "cli"
      <4>1. ~Has(s, 0, "Regular", l)
        BY <1>1, <3>1 DEF Has, Doing
      <4> QED BY <1>4, <2>1, <3>1, <4>1, KeptDrop
    <3>2. CASE s = "srv"
      BY <1>4, <2>1, <3>2, KeptSame
    <3> QED BY <3>1, <3>2, SideFacts
  <2>3. CASE <<s, l>> # b
    <3>1. EndKept(s, l)
      BY <1>1, <1>5, <2>3, EndFacts DEF EndKept
    <3> QED BY <2>1, <2>2, <3>1, QuietEnd
  <2>4. CASE <<s, l>> = b
    <3>1. s = "cli" /\ l = m
      BY <2>4
    <3>2. Stream(s, l) /\ Received(s, l) /\ Open(s, l)
      BY <1>3, <3>1 DEF FlowInv, Open
    <3>3. Stream(s, l)'
      BY <1>6, <2>2, <3>1, <3>2, KeptStream
    <3>4. Received(s, l)'
      BY <2>1, <3>2 DEF Received, DataKept, SourceKept
    <3> QED BY <1>3, <3>1, <3>3, <3>4
  <2> QED BY <2>3, <2>4
<1>8. Registered'
  BY <1>1, <1>2 DEF FlowInv, Registered, TypeInv, Typed
<1>9. ASSUME NEW l \in Links PROVE Staged(l)'
  <2>1. <<"srv", l>> \in Ends /\ <<"cli", l>> \in Ends /\ Staged(l)
    BY EndFacts, SideFacts DEF FlowInv
  <2>2. sock'[<<"srv", l>>] = sock[<<"srv", l>>]
    BY <1>5, <2>1, EndFacts
  <2>3. Awaits("cli", l)' => Awaits("cli", l) /\ l # m
    BY <1>6, <1>7, SideFacts
  <2>4. l # m => (<<"cli", l>> \in reg' <=> <<"cli", l>> \in reg)
    BY <1>5, <2>1, EndFacts
  <2>5. Awaits("cli", m) => apc[b] = "idle"
    BY DEF FlowInv, Staged
  <2> QED BY <1>1, <1>2, <1>3, <1>6, <2>1, <2>2, <2>3, <2>4, <2>5 DEF Staged
<1> QED BY <1>7, <1>8, <1>9 DEF FlowInv

(* Opened has been dealt with.                                             *)
LEMMA ConfirmFlow ==
  ASSUME TypeInv, FlowInv, ConfirmOpen
  PROVE  FlowInv'
<1>0. PICK m \in Links : m = loop["srv"].link
  BY SideFacts DEF TypeInv, Typed, Stage
<1> DEFINE a == <<"srv", m>>
<1>1. /\ taken' = taken /\ got' = got /\ inbox' = inbox /\ apc' = apc /\ sock' = sock
      /\ shut' = shut /\ reg' = reg /\ chan' = chan /\ loop["srv"].pc = "confirm"
      /\ lst' = [lst EXCEPT ![a] = "Connected"]
  BY <1>0 DEF ConfirmOpen, app
<1>2. loop'["srv"].pc = "loop" /\ loop'["cli"] = loop["cli"] /\ a \in Ends
  BY PacketTyping, SideFacts, EndFacts DEF ConfirmOpen, TypeInv, Typed, LoopPc
<1>3. Has("srv", 0, Ann("srv"), m) /\ Awaits("srv", m)
  BY <1>0, <1>1 DEF Has, Doing, Ann, Awaits
<1>4. Drop("srv") /\ SameLine("cli")
  BY <1>1, <1>2, LineDrop, LineSame, SideFacts
<1>6. ~Awaits("srv", m)'
  <2>1. Stream("srv", m)
    BY SideFacts DEF FlowInv
  <2>2. ~Mute("srv", m)
    BY <1>3, <2>1 DEF Stream, Silent
  <2>3. ~Mute("srv", m)'
    BY <1>1, <2>2 DEF Mute, Source
  <2>4. \A k \in Nat : Has("srv", k, Ann("srv"), m)' => k # 0 /\ Has("srv", k, Ann("srv"), m)
    BY <1>4 DEF Drop, Kinds, Ann
  <2>5. \A k \in Nat : ~Has("srv", k, Ann("srv"), m)'
    BY <1>3, <2>1, <2>4 DEF Stream, Announced
  <2> QED BY <2>3, <2>5 DEF Awaits
<1>7. ASSUME NEW s \in Side, NEW l \in Links
      PROVE  /\ Stream(s, l)' /\ Received(s, l)'
             /\ Awaits(s, l)' => Awaits(s, l)
  <2>1. DataKept(s, l) /\ Num(s, l)' = Num(s, l) /\ SourceKept(s, l)
    BY <1>1, NumSame, SourceSame DEF DataKept
  <2>2. Kept(s, l)
    <3>1. CASE s = "srv"
      <4>1. ~Has(s, 0, "Regular", l)
        BY <1>1, <3>1 DEF Has, Doing
      <4> QED BY <1>4, <2>1, <3>1, <4>1, KeptDrop
    <3>2. CASE s = "cli"
      BY <1>4, <2>1, <3>2, KeptSame
    <3> QED BY <3>1, <3>2, SideFacts
  <2>3. CASE <<s, l>> # a
    <3>1. EndKept(s, l)
      BY <1>1, <2>3, EndFacts DEF EndKept, TypeInv, Typed
    <3> QED BY <2>1, <2>2, <3>1, QuietEnd
  <2>4. CASE <<s, l>> = a
    <3>1. s = "srv" /\ l = m
      BY <2>4
    <3>2. Stream(s, l) /\ Received(s, l) /\ Open(s, l)
      BY <1>3, <3>1 DEF FlowInv, Open
    <3>3. Stream(s, l)'
      BY <1>6, <2>2, <3>1, <3>2, KeptStream
    <3>4. Received(s, l)'
      BY <2>1, <3>2 DEF Received, DataKept, SourceKept
    <3> QED BY <1>3, <3>1, <3>3, <3>4
  <2> QED BY <2>3, <2>4
<1>8. Registered'
  BY <1>0, <1>1, <1>2 DEF FlowInv, Registered, TypeInv, Typed
<1>9. \A l \in Links : StageKept(l)
  BY <1>1, <1>2 DEF StageKept
<1> QED BY <1>7, <1>8, <1>9, FlowFrom

(* Close or OpenFail.                                                      *)
LEMMA RemoveFlow ==
  ASSUME TypeInv, FlowInv, NEW r \in Side, RemoveByPeer(r)
  PROVE  FlowInv'
<1>0. PICK m \in Links : m = loop[r].link
  BY DEF TypeInv, Typed, Stage
<1> DEFINE e == <<r, m>>
<1>1. /\ taken' = taken /\ got' = got /\ inbox' = inbox /\ apc' = apc /\ sock' = sock
      /\ chan' = chan /\ loop[r].pc = "remove"
      /\ reg' = reg \ {e} /\ shut' = shut \cup ({e} \cap reg)
      /\ \A f \in Ends : lst'[f] = "Connected" => lst[f] = "Connected"
  BY <1>0 DEF RemoveByPeer, Release, app
<1>2. loop'[r].pc = "loop" /\ loop'[Other(r)] = loop[Other(r)]
  BY PacketTyping, SideFacts DEF RemoveByPeer, TypeInv, Typed, LoopPc
<1>3. /\ loop'["srv"] = loop["srv"] \/ loop'["srv"].pc = "loop"
      /\ loop'["cli"] = loop["cli"] \/ loop'["cli"].pc = "loop"
  BY <1>2, SideFacts
<1>4. Drop(r) /\ SameLine(Other(r))
  BY <1>1, <1>2, LineDrop, LineSame, SideFacts
<1>5. reg' \cup shut' = reg \cup shut
  BY <1>1
<1>6. Registered'
  BY <1>1, <1>3, <1>5, RegisteredKept
<1>7. \A l \in Links : StageKept(l)
  BY <1>1, <1>3, <1>5 DEF StageKept
<1>8. ASSUME NEW s \in Side, NEW l \in Links
      PROVE  Kept(s, l) /\ EndKept(s, l) /\ DataKept(s, l)
  <2>1. DataKept(s, l) /\ Num(s, l)' = Num(s, l) /\ SourceKept(s, l)
    BY <1>1, NumSame, SourceSame DEF DataKept
  <2>2. EndKept(s, l)
    BY <1>1, EndFacts DEF EndKept
  <2>3. CASE s = r
    <3>1. ~Has(s, 0, "Regular", l)
      BY <1>1, <2>3 DEF Has, Doing
    <3> QED BY <1>4, <2>1, <2>2, <2>3, <3>1, KeptDrop
  <2>4. CASE s = Other(r)
    BY <1>4, <2>1, <2>2, <2>4, KeptSame
  <2> QED BY <2>3, <2>4, SideFacts
<1> QED BY <1>6, <1>7, <1>8, QuietStep

(* A packet is read.                                                       *)
LEMMA PacketFlow ==
  ASSUME TypeInv, FlowInv, NEW r \in Side, ReadPacket(r)
  PROVE  FlowInv'
<1>1. /\ taken' = taken /\ got' = got /\ inbox' = inbox /\ apc' = apc /\ sock' = sock
      /\ reg' = reg /\ lst' = lst /\ shut' = shut
  BY DEF ReadPacket, app
<1>2. /\ loop'[r].pc = Dispatch(r, Head(chan[r])) /\ loop'[r].link = Head(chan[r]).link
      /\ loop'[Other(r)] = loop[Other(r)] /\ chan'[Other(r)] = chan[Other(r)]
  BY SideFacts DEF ReadPacket, TypeInv, Typed
<1>3. /\ loop'[r].pc \notin {"opened", "refuse"}
      /\ loop'[r].pc = "confirm" => <<r, loop'[r].link>> \in reg
  BY <1>2 DEF Dispatch
<1>4. Shift(r) /\ SameLine(Other(r))
  BY <1>2, LineShift, LineSame, SideFacts
<1>5. Registered'
  <2>1. CASE r = "srv"
    BY <1>1, <1>3, <2>1 DEF FlowInv, Registered
  <2>2. CASE r = "cli"
    BY <1>1, <1>2, <2>2, RegisteredKept, SideFacts
  <2> QED BY <2>1, <2>2, SideFacts
<1>6. \A l \in Links : StageKept(l)
  <2>1. loop'["cli"].pc \in {"opened", "refuse"} => loop'["cli"] = loop["cli"]
    BY <1>2, <1>3, SideFacts
  <2> QED BY <1>1, <2>1 DEF StageKept
<1>7. ASSUME NEW s \in Side, NEW l \in Links
      PROVE  /\ Stream(s, l)' /\ Received(s, l)'
             /\ Awaits(s, l)' => Awaits(s, l)
  <2>1. /\ DataKept(s, l) /\ Num(s, l)' = Num(s, l) /\ SourceKept(s, l) /\ EndKept(s, l)
        /\ Stream(s, l) /\ Received(s, l)
    BY <1>1, NumSame, SourceSame DEF DataKept, EndKept, FlowInv
  <2>2. CASE s = r
    <3>1. Takes(<<s, l>>)' => Takes(<<s, l>>)
      BY <2>1, TakesKept
    <3>2. Takes(<<s, l>>) => <<s, l>> \in reg
      BY EndFacts DEF Takes, FlowInv, Registered
    <3>3. (Mute(s, l)' <=> Mute(s, l)) /\ Sent(s, l)' = Sent(s, l)
          /\ taken'[Source(s, l)] = taken[Source(s, l)] /\ lst'[<<s, l>>] = lst[<<s, l>>]
      BY <1>1, <2>1 DEF SourceKept
    <3>4. Stream(s, l)' /\ (Awaits(s, l)' => Awaits(s, l))
      BY <1>4, <2>1, <2>2, <3>1, <3>2, <3>3, ShiftedStream
    <3>5. Received(s, l)'
      BY <2>1 DEF Received, DataKept, SourceKept
    <3> QED BY <3>4, <3>5
  <2>3. CASE s = Other(r)
    BY <1>4, <2>1, <2>3, KeptSame, QuietEnd
  <2> QED BY <2>2, <2>3, SideFacts
<1> QED BY <1>5, <1>6, <1>7, FlowFrom

(* What is handed to the socket is appended to what the application will   *)
(* read, and is the chunk that follows.                                    *)
LEMMA DeliverAppends ==
  ASSUME TypeInv, NEW r \in Side, NEW m \in Links, Stream(r, m), Received(r, m),
         Has(r, 0, "Regular", m), Takes(<<r, m>>), Sent(r, m)' = Sent(r, m),
         got' = got, inbox' = [inbox EXCEPT ![<<r, m>>] = Append(@, Val(r, 0))]
  PROVE  Received(r, m)' /\ Num(r, m)' = Num(r, m) + 1
<1> DEFINE e == <<r, m>>
           g == got[e]
           i == inbox[e]
           v == Val(r, 0)
<1>1. e \in Ends /\ g \in Seq(Nat) /\ i \in Seq(Nat) /\ v \in Nat
  BY EndFacts, Counts DEF TypeInv, Typed, Kinds
<1>2. got'[e] = g /\ inbox'[e] = Append(i, v)
  BY <1>1 DEF TypeInv, Typed
<1>3. (\A k \in 1 .. Len(g) : g[k] = k) /\ (\A k \in 1 .. Len(i) : i[k] = Len(g) + k)
  BY DEF Received
<1>4. v = Num(r, m) + 1 /\ v <= Sent(r, m)
  BY DueChunk
<1>5. Num(r, m) = Len(g) + Len(i) /\ Num(r, m)' = Len(got'[e]) + Len(inbox'[e])
  BY DEF Num
<1> HIDE DEF e, g, i, v
<1>6. /\ Len(g) \in Nat /\ Len(i) \in Nat /\ Len(Append(i, v)) = Len(i) + 1
      /\ Append(i, v)[Len(i) + 1] = v
      /\ \A k \in 1 .. Len(i) : Append(i, v)[k] = i[k]
  BY <1>1
<1>7. Num(r, m)' = Num(r, m) + 1
  <2>1. Num(r, m)' = Len(g) + (Len(i) + 1)
    BY <1>2, <1>5, <1>6
  <2>2. Len(g) + (Len(i) + 1) = (Len(g) + Len(i)) + 1
    BY <1>6
  <2> QED BY <1>5, <2>1, <2>2
<1>8. ASSUME NEW k \in 1 .. Len(inbox'[e]) PROVE inbox'[e][k] = Len(got'[e]) + k
  <2>1. k \in 1 .. Len(i) \/ k = Len(i) + 1
    BY <1>2, <1>6
  <2>2. CASE k \in 1 .. Len(i)
    BY <1>2, <1>3, <1>6, <2>2
  <2>3. CASE k = Len(i) + 1
    <3>1. inbox'[e][k] = v
      BY <1>2, <1>6, <2>3
    <3>2. v = Len(g) + (Len(i) + 1)
      BY <1>4, <1>5, <1>6
    <3> QED BY <1>2, <2>3, <3>1, <3>2
  <2> QED BY <2>1, <2>2, <2>3
<1>9. Num(r, m)' <= Sent(r, m)'
  BY <1>4, <1>7
<1>10. Received(r, m)'
  BY <1>2, <1>3, <1>8, <1>9 DEF Received, e
<1> QED BY <1>7, <1>10

LEMMA DeliverFlow ==
  ASSUME TypeInv, FlowInv, NEW r \in Side, Deliver(r)
  PROVE  FlowInv'
<1>0. PICK m \in Links : m = loop[r].link
  BY DEF TypeInv, Typed, Stage
<1> DEFINE e    == <<r, m>>
           room == Len(inbox[e]) < SockCap
<1>1. /\ taken' = taken /\ got' = got /\ apc' = apc /\ sock' = sock
      /\ reg' = reg /\ lst' = lst /\ shut' = shut /\ chan' = chan
      /\ loop[r].pc \in {"deliver", "blocked"} /\ e \in Ends
  BY EndFacts DEF Deliver
<1>2. /\ Takes(e) /\ room => /\ inbox' = [inbox EXCEPT ![e] = Append(@, Val(r, 0))]
                             /\ loop' = [loop EXCEPT ![r] = Idle("loop")]
      /\ Takes(e) /\ ~room => inbox' = inbox /\ loop' = [loop EXCEPT ![r].pc = "blocked"]
      /\ ~Takes(e) => inbox' = inbox /\ loop' = [loop EXCEPT ![r] = Idle("loop")]
  BY <1>0 DEF Deliver, Val
<1>3. /\ loop'[Other(r)] = loop[Other(r)] /\ r # Other(r) /\ Other(r) \in Side
      /\ loop'[r].pc \in {"loop", "blocked"}
  <2>1. r # Other(r) /\ Other(r) \in Side /\ Idle("loop").pc = "loop"
    BY PacketTyping, SideFacts DEF LoopPc
  <2>2. CASE loop' = [loop EXCEPT ![r] = Idle("loop")]
    BY <2>1, <2>2 DEF TypeInv, Typed
  <2>3. CASE loop' = [loop EXCEPT ![r].pc = "blocked"]
    BY <2>1, <2>3 DEF TypeInv, Typed, Stage
  <2> QED BY <1>2, <2>1, <2>2, <2>3
<1>4. SameLine(Other(r))
  BY <1>1, <1>3, LineSame
<1>5. IF Takes(e) /\ ~room THEN SameLine(r) ELSE Drop(r)
  <2>1. CASE Takes(e) /\ ~room
    <3>1. /\ loop'[r].pc = "blocked" /\ loop'[r].link = loop[r].link
          /\ loop'[r].val = loop[r].val
      BY <1>2, <2>1 DEF TypeInv, Typed, Stage
    <3> QED BY <1>1, <2>1, <3>1, LineSame
  <2>2. CASE ~(Takes(e) /\ ~room)
    <3>1. loop'[r].pc = "loop"
      BY <1>2, <2>2, PacketTyping DEF TypeInv, Typed, LoopPc
    <3> QED BY <1>1, <2>2, <3>1, LineDrop
  <2> QED BY <2>1, <2>2
<1>6. Has(r, 0, "Regular", m) /\ \A l \in Links : l # m => ~Has(r, 0, "Regular", l)
  BY <1>0, <1>1 DEF Has, Doing
<1>7. Registered'
  <2>1. loop'["srv"].pc = "confirm" => loop'["srv"] = loop["srv"]
    BY <1>3, SideFacts
  <2> QED BY <1>1, <2>1, RegisteredKept
<1>8. \A l \in Links : StageKept(l)
  <2>1. loop'["cli"].pc \in {"opened", "refuse"} => loop'["cli"] = loop["cli"]
    BY <1>3, SideFacts
  <2> QED BY <1>1, <2>1 DEF StageKept
<1>9. ASSUME NEW s \in Side, NEW l \in Links
      PROVE  /\ Stream(s, l)' /\ Received(s, l)'
             /\ Awaits(s, l)' => Awaits(s, l)
  <2>1. /\ SourceKept(s, l) /\ EndKept(s, l) /\ Stream(s, l) /\ Received(s, l)
        /\ (Mute(s, l)' <=> Mute(s, l)) /\ Sent(s, l)' = Sent(s, l)
        /\ taken'[Source(s, l)] = taken[Source(s, l)]
    BY <1>1, SourceSame DEF EndKept, FlowInv, SourceKept
  <2>2. CASE <<s, l>> # e \/ ~Takes(e) \/ ~room
    <3>1. DataKept(s, l) /\ Num(s, l)' = Num(s, l)
      <4>1. inbox'[<<s, l>>] = inbox[<<s, l>>]
        BY <1>1, <1>2, <2>2, EndFacts, SMTT(30) DEF TypeInv, Typed
      <4>2. DataKept(s, l)
        BY <1>1, <4>1 DEF DataKept
      <4> QED BY <4>2, NumSame
    <3>2. CASE s = Other(r)
      BY <1>4, <2>1, <3>1, <3>2, KeptSame, QuietEnd
    <3>3. CASE s = r /\ Takes(e) /\ ~room
      BY <1>5, <2>1, <3>1, <3>3, KeptSame, QuietEnd
    <3>4. CASE s = r /\ l # m /\ Drop(r)
      BY <1>6, <2>1, <3>1, <3>4, KeptDrop, QuietEnd
    <3>5. CASE s = r /\ l = m /\ ~Takes(e)
      <4>1. ~Awaits(s, l)
        BY <1>6, <2>1, <3>5 DEF Awaits, Stream, Silent, Announced
      <4>2. ~Takes(<<s, l>>)'
        BY <2>1, <3>5, TakesKept
      <4>3. Drop(s)
        BY <1>5, <3>5
      <4>4. ~Awaits(s, l)'
        BY <2>1, <4>1, <4>3 DEF Awaits, Drop, Kinds, Ann
      <4>5. Stream(s, l)'
        BY <2>1, <4>2, <4>3, <4>4, DroppedStream DEF Open
      <4>6. Received(s, l)'
        BY <2>1, <3>1 DEF Received, DataKept
      <4> QED BY <4>4, <4>5, <4>6
    <3> QED BY <1>5, <2>2, <3>2, <3>3, <3>4, <3>5, SideFacts
  <2>3. CASE <<s, l>> = e /\ Takes(e) /\ room
    <3>1. s = r /\ l = m /\ Drop(s)
      BY <1>5, <2>3
    <3>2. Received(s, l)' /\ Num(s, l)' = Num(s, l) + 1
      BY <1>1, <1>2, <1>6, <2>1, <2>3, <3>1, DeliverAppends
    <3>3. Stream(s, l)'
      BY <1>6, <2>1, <2>3, <3>1, <3>2, DeliveredStream
    <3>4. ~Awaits(s, l)
      BY <1>6, <2>1, <2>3, <3>1, DueChunk
    <3>5. ~Awaits(s, l)'
      BY <2>1, <3>1, <3>4 DEF Awaits, Drop, Kinds, Ann
    <3> QED BY <3>2, <3>3, <3>5
  <2> QED BY <2>2, <2>3
<1> QED BY <1>7, <1>8, <1>9, FlowFrom

-----------------------------------------------------------------------------
LEMMA InitFlow == Init => FlowInv
<1> SUFFICES ASSUME Init PROVE FlowInv
  OBVIOUS
<1>1. \A s \in Side : chan[s] = <<>> /\ loop[s].pc = "loop"
  BY PacketTyping DEF Init, LoopPc
<1>2. \A s \in Side, l \in Links, k \in Nat, t \in Kinds : ~Has(s, k, t, l)
  BY <1>1 DEF Has, Doing
<1>3. \A e \in Ends : /\ apc[e] = "idle" /\ lst[e] = "Disconnected" /\ taken[e] = 0
                      /\ got[e] = <<>> /\ inbox[e] = <<>>
  BY DEF Init
<1>4. Registered
  BY <1>1, <1>3, SideFacts DEF Registered
<1>5. ASSUME NEW l \in Links PROVE Staged(l)
  BY <1>1, <1>3, EndFacts, SideFacts DEF Staged, Init
<1>6. ASSUME NEW s \in Side, NEW l \in Links PROVE Stream(s, l) /\ Received(s, l)
  <2>1. <<s, l>> \in Ends /\ Source(s, l) \in Ends
    BY SourceEnds
  <2>2. Num(s, l) = 0 /\ Sent(s, l) = 0 /\ taken[Source(s, l)] = 0
    <3>1. apc[Source(s, l)] = "idle" /\ taken[Source(s, l)] = 0
      BY <1>3, <2>1
    <3>2. ~Pending(Source(s, l))
      BY <3>1 DEF Pending
    <3>3. got[<<s, l>>] = <<>> /\ inbox[<<s, l>>] = <<>>
      BY <1>3, <2>1
    <3> QED BY <3>1, <3>2, <3>3 DEF Num, Sent
  <2>3. \A k \in Nat : ~Has(s, k, "Regular", l) /\ ~Has(s, k, Ann(s), l)
    BY <1>2 DEF Kinds, Ann
  <2>4. Stream(s, l)
    BY <1>3, <2>1, <2>2, <2>3
    DEF Stream, Silent, Announced, Closed, Ordered, Bounded, Fresh, Complete
  <2>5. Received(s, l)
    BY <1>3, <2>1, <2>2 DEF Received
  <2> QED BY <2>4, <2>5
<1> QED BY <1>4, <1>5, <1>6 DEF FlowInv

LEMMA LoopFlow ==
  ASSUME TypeInv, FlowInv, NEW s \in Side, LoopStep(s) PROVE FlowInv'
BY PacketFlow, DeliverFlow, RemoveFlow, PingFlow, ConfirmFlow, DialFlow, OpenedFlow, OpenFailFlow
DEF LoopStep

LEMMA FlowStep == TypeInv /\ FlowInv /\ [Next]_vars => FlowInv'
<1> SUFFICES ASSUME TypeInv, FlowInv, [Next]_vars PROVE FlowInv'
  OBVIOUS
<1>1. ASSUME NEW e \in Ends, AppTask(e) PROVE FlowInv'
  BY <1>1, TaskFlow, OpenFlow, DataFlow, CloseFlow DEF AppTask
<1> QED BY <1>1, LoopFlow, ReadFlow, StillFlow, ConnectFlow, PingFlow DEF Next, Moves

LEMMA FlowInvariance == Spec => [](TypeInv /\ FlowInv)
BY InitTypes, InitFlow, TypeStep, FlowStep, PTL DEF Spec

-----------------------------------------------------------------------------
(* The tunnel implements Pipe. *)

(* The first chunks, as a sequence.                                        *)
LEMMA ChunksFacts ==
  ASSUME NEW n \in Nat
  PROVE  /\ Chunks(n) \in Seq(Nat) /\ Len(Chunks(n)) = n
         /\ \A k \in 1 .. n : Chunks(n)[k] = k
         /\ Chunks(n + 1) = Append(Chunks(n), n + 1)
         /\ Chunks(0) = <<>>
<1>1. \A j \in Nat : Chunks(j) \in Seq(Nat) /\ Len(Chunks(j)) = j
                     /\ \A k \in 1 .. j : Chunks(j)[k] = k
  <2>1. ASSUME NEW j \in Nat PROVE [i \in 1 .. j |-> i] \in Seq(Nat)
    BY IsASeq
  <2>2. ASSUME NEW j \in Nat
        PROVE  Len([i \in 1 .. j |-> i]) = j /\ \A k \in 1 .. j : [i \in 1 .. j |-> i][k] = k
    BY <2>1, LenProperties
  <2> QED BY <2>1, <2>2 DEF Chunks
<1>2. Chunks(n + 1) = Append(Chunks(n), n + 1)
  <2>1. n + 1 \in Nat
    OBVIOUS
  <2>2. /\ Append(Chunks(n), n + 1) \in Seq(Nat) /\ Len(Append(Chunks(n), n + 1)) = n + 1
        /\ Append(Chunks(n), n + 1)[n + 1] = n + 1
        /\ \A k \in 1 .. n : Append(Chunks(n), n + 1)[k] = Chunks(n)[k]
    <3>1. ASSUME NEW q \in Seq(Nat), NEW v \in Nat
          PROVE  /\ Append(q, v) \in Seq(Nat) /\ Len(Append(q, v)) = Len(q) + 1
                 /\ Append(q, v)[Len(q) + 1] = v
                 /\ \A k \in 1 .. Len(q) : Append(q, v)[k] = q[k]
      BY AppendProperties
    <3>2. Chunks(n) \in Seq(Nat) /\ Len(Chunks(n)) = n
      BY <1>1
    <3> QED BY <2>1, <3>1, <3>2
  <2>3. ASSUME NEW k \in 1 .. n + 1 PROVE Chunks(n + 1)[k] = Append(Chunks(n), n + 1)[k]
    <3>1. k \in 1 .. n \/ k = n + 1
      OBVIOUS
    <3> QED BY <1>1, <2>1, <2>2, <3>1
  <2> QED BY <1>1, <2>1, <2>2, <2>3, SeqEqual
<1>3. Chunks(0) = <<>>
  BY <1>1, EmptySeq
<1> QED BY <1>1, <1>2, <1>3

(* What the application at an end has got and will get is the first        *)
(* chunks of the other one.                                                *)
LEMMA HeldChunks ==
  ASSUME TypeInv, NEW s \in Side, NEW l \in Links, Received(s, l)
  PROVE  got[<<s, l>>] \o inbox[<<s, l>>] = Chunks(Num(s, l))
<1> DEFINE g == got[<<s, l>>]
           i == inbox[<<s, l>>]
<1>1. g \in Seq(Nat) /\ i \in Seq(Nat)
  BY EndFacts DEF TypeInv, Typed
<1>2. /\ \A k \in 1 .. Len(g) : g[k] = k
      /\ \A k \in 1 .. Len(i) : i[k] = Len(g) + k
      /\ Num(s, l) = Len(g) + Len(i)
  BY DEF Received, Num
<1> HIDE DEF g, i
<1>3. /\ g \o i \in Seq(Nat) /\ Len(g \o i) = Len(g) + Len(i)
      /\ \A k \in 1 .. Len(g) + Len(i) :
           (g \o i)[k] = IF k <= Len(g) THEN g[k] ELSE i[k - Len(g)]
  BY <1>1, ConcatProperties
<1>4. Len(g) \in Nat /\ Len(i) \in Nat /\ Num(s, l) \in Nat
  BY <1>1, <1>2
<1>5. ASSUME NEW k \in 1 .. Len(g) + Len(i) PROVE (g \o i)[k] = k
  <2>1. CASE k <= Len(g)
    <3>1. k \in 1 .. Len(g)
      BY <1>4, <2>1
    <3> QED BY <1>2, <1>3, <2>1, <3>1
  <2>2. CASE ~(k <= Len(g))
    <3>1. k - Len(g) \in 1 .. Len(i)
      BY <1>4, <2>2
    <3>2. i[k - Len(g)] = Len(g) + (k - Len(g))
      BY <1>2, <3>1
    <3> QED BY <1>3, <1>4, <2>2, <3>2
  <2> QED BY <2>1, <2>2
<1>6. Len(Chunks(Num(s, l))) = Num(s, l) /\ Chunks(Num(s, l)) \in Seq(Nat)
      /\ \A k \in 1 .. Num(s, l) : Chunks(Num(s, l))[k] = k
  BY <1>4, ChunksFacts
<1>7. g \o i = Chunks(Num(s, l))
  BY <1>2, <1>3, <1>5, <1>6, SeqEqual
<1> QED BY <1>7 DEF g, i

(* The steps that hand nothing to an application, and let none write.      *)
LEMMA OtherSteps ==
  ASSUME TypeInv, FlowInv, [Next]_vars,
         ~\E e \in Ends : AppWrite(e), ~\E s \in Side : Deliver(s)
  PROVE  /\ wrote' = wrote /\ shut \subseteq shut'
         /\ \A s \in Side, l \in Links : Num(s, l)' = Num(s, l)
<1>1. ASSUME wrote' = wrote, shut \subseteq shut', got' = got, inbox' = inbox
      PROVE  /\ wrote' = wrote /\ shut \subseteq shut'
             /\ \A s \in Side, l \in Links : Num(s, l)' = Num(s, l)
  BY <1>1 DEF Num
<1>2. CASE \E s \in Side : LoopStep(s)
  <2>1. PICK s \in Side : LoopStep(s)
    BY <1>2
  <2>2. wrote' = wrote /\ shut \subseteq shut' /\ got' = got /\ inbox' = inbox
    BY <2>1 DEF LoopStep, ReadPacket, RemoveByPeer, Release, SendPong, ConfirmOpen, Dial,
                DialFail, SendOpened, SendOpenFail, app
  <2> QED BY <1>1, <2>2
<1>3. CASE \E e \in Ends : AppTask(e)
  <2>1. PICK e \in Ends : AppTask(e)
    BY <1>3
  <2>2. wrote' = wrote /\ shut \subseteq shut' /\ got' = got /\ inbox' = inbox
    BY <2>1 DEF AppTask, SendOpen, SetLinkWaiting, TakeReader, ReadApp, ReadAppEnd,
                AddIncoming, SendData, SendClose, Remove, app
  <2> QED BY <1>1, <2>2
<1>4. CASE \E e \in Ends : AppRead(e)
  <2>1. PICK e \in Ends : AppRead(e)
    BY <1>4
  <2>2. PICK r \in Side, m \in Links : e = <<r, m>>
    BY EndFacts
  <2>3. wrote' = wrote /\ shut' = shut
        /\ \A f \in Ends : f # e => got'[f] = got[f] /\ inbox'[f] = inbox[f]
    BY <2>1 DEF AppRead, gateway, TypeInv, Typed
  <2>4. ASSUME NEW s \in Side, NEW l \in Links PROVE Num(s, l)' = Num(s, l)
    <3>1. CASE s = r /\ l = m
      BY <2>1, <2>2, <3>1, ReadMoves DEF FlowInv
    <3>2. CASE ~(s = r /\ l = m)
      BY <2>2, <2>3, <3>2, EndFacts DEF Num
    <3> QED BY <3>1, <3>2
  <2> QED BY <2>3, <2>4
<1>5. CASE \/ \E e \in Ends : AppClose(e)
           \/ \E l \in Links : AppConnect(l)
           \/ Ping \/ UNCHANGED vars
  <2>1. wrote' = wrote /\ shut \subseteq shut' /\ got' = got /\ inbox' = inbox
    BY <1>5 DEF AppClose, AppConnect, Ping, gateway, app, vars
  <2> QED BY <1>1, <2>1
<1> QED BY <1>2, <1>3, <1>4, <1>5 DEF Next, Moves

(* The streams of Pipe, as counts.                                         *)
LEMMA Mapping ==
  ASSUME TypeInv, FlowInv
  PROVE  /\ [e \in Ends |-> got[e] \o inbox[e]] = [e \in Ends |-> Chunks(Num(e[1], e[2]))]
         /\ \A e \in Ends : Num(e[1], e[2]) \in Nat /\ Num(e[1], e[2]) <= wrote[Peer(e)]
         /\ \A e \in Ends : wrote[Peer(e)] \in Nat
<1>1. ASSUME NEW e \in Ends
      PROVE  /\ got[e] \o inbox[e] = Chunks(Num(e[1], e[2]))
             /\ Num(e[1], e[2]) \in Nat /\ Num(e[1], e[2]) <= wrote[Peer(e)]
             /\ wrote[Peer(e)] \in Nat
  <2>1. PICK s \in Side, l \in Links : e = <<s, l>>
    BY EndFacts
  <2>2. Received(s, l)
    BY DEF FlowInv
  <2>3. got[<<s, l>>] \o inbox[<<s, l>>] = Chunks(Num(s, l))
    BY <2>2, HeldChunks
  <2>4. Peer(e) = Source(s, l) /\ Source(s, l) \in Ends
    BY <2>1, SourceEnds DEF Peer, Source
  <2>5. /\ Num(s, l) \in Nat /\ Num(s, l) <= Sent(s, l)
        /\ taken[Source(s, l)] \in Nat /\ wrote[Source(s, l)] \in Nat
        /\ taken[Source(s, l)] <= wrote[Source(s, l)]
    BY <2>2, <2>4, Counts DEF Received, TypeInv, Typed, Bounds
  <2>6. Sent(s, l) = taken[Source(s, l)] - 1 \/ Sent(s, l) = taken[Source(s, l)]
    BY DEF Sent
  <2>7. Num(s, l) <= wrote[Source(s, l)]
    BY <2>5, <2>6
  <2> QED BY <2>1, <2>3, <2>4, <2>5, <2>7
<1> QED BY <1>1

(* What the loop hands over makes one stream longer, by one chunk.         *)
LEMMA DeliverSteps ==
  ASSUME TypeInv, FlowInv, NEW r \in Side, Deliver(r)
  PROVE  /\ wrote' = wrote /\ shut' = shut
         /\ \/ \A s \in Side, l \in Links : Num(s, l)' = Num(s, l)
            \/ \E m \in Links :
                 /\ <<r, m>> \notin shut /\ Num(r, m)' = Num(r, m) + 1
                 /\ Num(r, m) + 1 <= Sent(r, m)
                 /\ \A s \in Side, l \in Links : <<s, l>> # <<r, m>> => Num(s, l)' = Num(s, l)
<1>0. PICK m \in Links : m = loop[r].link
  BY DEF TypeInv, Typed, Stage
<1> DEFINE e == <<r, m>>
<1>1. /\ wrote' = wrote /\ shut' = shut /\ got' = got /\ e \in Ends
      /\ \/ inbox' = inbox
         \/ /\ Takes(e) /\ inbox' = [inbox EXCEPT ![e] = Append(@, Val(r, 0))]
            /\ Sent(r, m)' = Sent(r, m) /\ Has(r, 0, "Regular", m)
  BY <1>0, EndFacts DEF Deliver, Val, Sent, Pending, Source, Has, Doing
<1>2. CASE inbox' = inbox
  BY <1>1, <1>2 DEF Num
<1>3. CASE /\ Takes(e) /\ inbox' = [inbox EXCEPT ![e] = Append(@, Val(r, 0))]
           /\ Sent(r, m)' = Sent(r, m) /\ Has(r, 0, "Regular", m)
  <2>1. Stream(r, m) /\ Received(r, m)
    BY DEF FlowInv
  <2>2. Num(r, m)' = Num(r, m) + 1
    BY <1>1, <1>3, <2>1, DeliverAppends
  <2>3. Num(r, m) + 1 <= Sent(r, m)
    BY <1>3, <2>1, DueChunk
  <2>4. e \notin shut
    BY <1>3 DEF Takes
  <2>5. ASSUME NEW s \in Side, NEW l \in Links, <<s, l>> # e PROVE Num(s, l)' = Num(s, l)
    BY <1>1, <1>3, <2>5, EndFacts DEF Num, TypeInv, Typed
  <2> QED BY <1>1, <2>2, <2>3, <2>4, <2>5
<1> QED BY <1>1, <1>2, <1>3

(* Both streams of every link hold the first chunks, as many as Num says.  *)
Mapped ==
  /\ [e \in Ends |-> got[e] \o inbox[e]] = [e \in Ends |-> Chunks(Num(e[1], e[2]))]
  /\ \A e \in Ends : /\ Num(e[1], e[2]) \in Nat /\ Num(e[1], e[2]) <= wrote[Peer(e)]
                     /\ wrote[Peer(e)] \in Nat

LEMMA MappedState == TypeInv /\ FlowInv => Mapped
BY Mapping DEF Mapped

LEMMA PeerFacts ==
  /\ \A e \in Ends : Peer(e) \in Ends /\ Peer(Peer(e)) = e
  /\ \A e, f \in Ends : Peer(e) = f <=> e = Peer(f)
<1>1. ASSUME NEW e \in Ends PROVE Peer(e) \in Ends /\ Peer(Peer(e)) = e
  <2>1. PICK s \in Side, l \in Links : e = <<s, l>>
    BY EndFacts
  <2>2. Peer(e) = <<Other(s), l>> /\ Peer(<<Other(s), l>>) = <<Other(Other(s)), l>>
    BY <2>1 DEF Peer
  <2> QED BY <2>1, <2>2, EndFacts, SideFacts
<1> QED BY <1>1

LEMMA EndRefines ==
  ASSUME Mapped, Mapped', wrote' = wrote, shut \subseteq shut',
         \A s \in Side, l \in Links : Num(s, l)' = Num(s, l)
  PROVE  Abstract!Next
<1>1. [e \in Ends |-> Chunks(wrote[Peer(e)])]' = [e \in Ends |-> Chunks(wrote[Peer(e)])]
  OBVIOUS
<1>2. \A e \in Ends : Num(e[1], e[2])' = Num(e[1], e[2])
  BY EndFacts
<1>3. [e \in Ends |-> got[e] \o inbox[e]]' = [e \in Ends |-> got[e] \o inbox[e]]
  BY <1>2 DEF Mapped
<1>4. [e \in Ends |-> e \in shut'] \in [Ends -> BOOLEAN]
  <2>1. \A S : \A e \in Ends : (e \in S) \in BOOLEAN
    OBVIOUS
  <2>2. \A e \in Ends : (e \in shut') \in BOOLEAN
    BY <2>1, Zenon
  <2> QED BY <2>2, Zenon
<1>5. \A e \in Ends : [f \in Ends |-> f \in shut][e] => [f \in Ends |-> f \in shut'][e]
  BY Zenon
<1>6. Abstract!End
  BY <1>1, <1>3, <1>4, <1>5, Zenon DEF Abstract!End
<1> QED BY <1>6 DEF Abstract!Next

LEMMA DeliverRefines ==
  ASSUME TypeInv, FlowInv, Mapped, Mapped', NEW r \in Side, Deliver(r)
  PROVE  Abstract!Next
<1>1. wrote' = wrote /\ shut' = shut
  BY DeliverSteps
<1>2. CASE \A s \in Side, l \in Links : Num(s, l)' = Num(s, l)
  BY <1>1, <1>2, EndRefines
<1>3. CASE \E m \in Links :
              /\ <<r, m>> \notin shut /\ Num(r, m)' = Num(r, m) + 1
              /\ Num(r, m) + 1 <= Sent(r, m)
              /\ \A s \in Side, l \in Links : <<s, l>> # <<r, m>> => Num(s, l)' = Num(s, l)
  <2>1. PICK m \in Links :
              /\ <<r, m>> \notin shut /\ Num(r, m)' = Num(r, m) + 1
              /\ Num(r, m) + 1 <= Sent(r, m)
              /\ \A s \in Side, l \in Links : <<s, l>> # <<r, m>> => Num(s, l)' = Num(s, l)
    BY <1>3
  <2>2. PICK e \in Ends : e = <<r, m>>
    BY EndFacts
  <2> DEFINE S == [f \in Ends |-> Chunks(wrote[Peer(f)])]
             R == [f \in Ends |-> got[f] \o inbox[f]]
             n == Num(r, m)
  <2>3. \A f \in Ends : Num(f[1], f[2])' = IF f = e THEN n + 1 ELSE Num(f[1], f[2])
    BY <2>1, <2>2, EndFacts
  <2>4. R = [f \in Ends |-> Chunks(Num(f[1], f[2]))] /\ Num(e[1], e[2]) = n
        /\ n \in Nat /\ n <= wrote[Peer(e)] /\ wrote[Peer(e)] \in Nat
    BY <2>2 DEF Mapped
  <2>5. R' = [f \in Ends |-> IF f = e THEN Chunks(n + 1) ELSE Chunks(Num(f[1], f[2]))]
    BY <2>3 DEF Mapped
  <2>6. n + 1 <= wrote[Peer(e)]
    <3>1. Source(r, m) \in Ends /\ Peer(e) = Source(r, m)
      BY <2>2, SourceEnds DEF Peer, Source
    <3>2. taken[Source(r, m)] \in Nat /\ taken[Source(r, m)] <= wrote[Source(r, m)]
      BY <3>1 DEF TypeInv, Typed, Bounds
    <3>3. Sent(r, m) = taken[Source(r, m)] - 1 \/ Sent(r, m) = taken[Source(r, m)]
      BY DEF Sent
    <3> QED BY <2>1, <2>4, <3>1, <3>2, <3>3
  <2>7. S' = S
    BY <1>1
  <2> HIDE DEF n
  <2>8. R[e] = Chunks(n) /\ Len(R[e]) = n /\ S[e] = Chunks(wrote[Peer(e)])
        /\ Len(S[e]) = wrote[Peer(e)] /\ S[e][n + 1] = n + 1
        /\ Chunks(n + 1) = Append(Chunks(n), n + 1)
    <3>1. n + 1 \in 1 .. wrote[Peer(e)]
      BY <2>4, <2>6
    <3>2. R[e] = Chunks(n) /\ S[e] = Chunks(wrote[Peer(e)])
      BY <2>4
    <3>3. Len(Chunks(n)) = n /\ Chunks(n + 1) = Append(Chunks(n), n + 1)
      BY <2>4, ChunksFacts
    <3>4. Len(Chunks(wrote[Peer(e)])) = wrote[Peer(e)] /\ Chunks(wrote[Peer(e)])[n + 1] = n + 1
      BY <2>4, <3>1, ChunksFacts
    <3> QED BY <3>2, <3>3, <3>4
  <2>9. R' = [R EXCEPT ![e] = Append(R[e], S[e][Len(R[e]) + 1])]
    <3>1. Append(R[e], S[e][Len(R[e]) + 1]) = Chunks(n + 1)
      BY <2>8
    <3>2. \A f \in Ends : R[f] = Chunks(Num(f[1], f[2]))
      BY <2>4
    <3>3. [R EXCEPT ![e] = Chunks(n + 1)] = [f \in Ends |-> IF f = e THEN Chunks(n + 1) ELSE R[f]]
      OBVIOUS
    <3> QED BY <2>5, <3>1, <3>2, <3>3
  <2>10. Len(R[e]) < Len(S[e])
    <3> HIDE DEF S, R
    <3>1. n < wrote[Peer(e)]
      BY <2>4, <2>6
    <3> QED BY <2>8, <3>1
  <2>11. ~[f \in Ends |-> f \in shut][e]
    BY <2>1, <2>2, Zenon
  <2>12. [f \in Ends |-> f \in shut]' = [f \in Ends |-> f \in shut]
    BY <1>1, Zenon
  <2>13. Abstract!Deliver(e)
    BY <2>7, <2>9, <2>10, <2>11, <2>12, Zenon DEF Abstract!Deliver
  <2> QED BY <2>13 DEF Abstract!Next
<1> QED BY <1>2, <1>3, DeliverSteps

LEMMA WriteRefines ==
  ASSUME TypeInv, NEW e \in Ends, AppWrite(e)
  PROVE  Abstract!Next
<1> DEFINE S == [f \in Ends |-> Chunks(wrote[Peer(f)])]
           R == [f \in Ends |-> got[f] \o inbox[f]]
           v == wrote[e] + 1
           p == Peer(e)
<1>1. /\ wrote[e] \in Nat /\ wrote[e] < MaxWrites /\ wrote' = [wrote EXCEPT ![e] = v]
      /\ got' = got /\ inbox' = inbox /\ shut' = shut
  BY DEF AppWrite, gateway, TypeInv, Typed
<1>2. p \in Ends /\ Peer(p) = e /\ \A f \in Ends : Peer(f) \in Ends /\ (Peer(f) = e <=> f = p)
  BY PeerFacts
<1>3. v \in 1 .. MaxWrites
  BY <1>1, WritesAssumption
<1>4. Chunks(v) = Append(Chunks(wrote[e]), v)
  BY <1>1, ChunksFacts
<1>5. \A f \in Ends : wrote'[Peer(f)] = IF f = p THEN v ELSE wrote[Peer(f)]
  BY <1>1, <1>2 DEF TypeInv, Typed
<1>6. S' = [f \in Ends |-> IF f = p THEN Chunks(v) ELSE Chunks(wrote[Peer(f)])]
  BY <1>5
<1>7. S[p] = Chunks(wrote[e]) /\ \A f \in Ends : S[f] = Chunks(wrote[Peer(f)])
  BY <1>2
<1> HIDE DEF v, p
<1>8. S' = [S EXCEPT ![p] = Append(S[p], v)]
  <2>1. [S EXCEPT ![p] = Chunks(v)] = [f \in Ends |-> IF f = p THEN Chunks(v) ELSE S[f]]
    OBVIOUS
  <2> QED BY <1>4, <1>6, <1>7, <2>1
<1>9. R' = R /\ [f \in Ends |-> f \in shut]' = [f \in Ends |-> f \in shut]
  BY <1>1, Zenon
<1>10. Abstract!Write(p)
  BY <1>3, <1>8, <1>9, Zenon DEF Abstract!Write
<1> QED BY <1>2, <1>10 DEF Abstract!Next

LEMMA StepRefines ==
  TypeInv /\ FlowInv /\ Mapped /\ Mapped' /\ [Next]_vars => [Abstract!Next]_(Abstract!vars)
<1> SUFFICES ASSUME TypeInv, FlowInv, Mapped, Mapped', [Next]_vars PROVE Abstract!Next
  OBVIOUS
<1>1. CASE \E e \in Ends : AppWrite(e)
  BY <1>1, WriteRefines
<1>2. CASE \E s \in Side : Deliver(s)
  BY <1>2, DeliverRefines
<1>3. CASE (~\E e \in Ends : AppWrite(e)) /\ ~\E s \in Side : Deliver(s)
  BY <1>3, OtherSteps, EndRefines
<1> QED BY <1>1, <1>2, <1>3

LEMMA InitRefines == Init => Abstract!Init
<1> SUFFICES ASSUME Init PROVE Abstract!Init
  OBVIOUS
<1>1. Chunks(0) = <<>> /\ <<>> \o <<>> = <<>>
  BY ChunksFacts
<1>2. [e \in Ends |-> Chunks(wrote[Peer(e)])] = [e \in Ends |-> <<>>]
  BY <1>1, PeerFacts DEF Init
<1>3. [e \in Ends |-> got[e] \o inbox[e]] = [e \in Ends |-> <<>>]
  BY <1>1 DEF Init
<1>4. [e \in Ends |-> e \in shut] = [e \in Ends |-> FALSE]
  <2>1. \A e \in Ends : (e \in shut) = FALSE
    BY DEF Init
  <2> QED BY <2>1, Zenon
<1> QED BY <1>2, <1>3, <1>4, Zenon DEF Abstract!Init

(* THEOREM: the two gateways implement Pipe, for any number of links and   *)
(* any size of the buffers.  What an application is handed is, in order    *)
(* and from the start, what the other one wrote, and nothing follows the   *)
(* end of the stream: the state that Link::send_packet checks, the order   *)
(* of Opened, Waiting and the data, and the packets that client_exchange   *)
(* ignores never make a hole in a stream.                                  *)
THEOREM TunnelImplementsPipe == Spec => ImplementsPipe
BY FlowInvariance, MappedState, StepRefines, InitRefines, PTL
DEF Spec, ImplementsPipe, Abstract!Spec

-----------------------------------------------------------------------------
(* The end of a stream at the client. *)

(* While Open is handled the client's end does not exist yet.              *)
LEMMA DialState ==
  ASSUME TypeInv, FlowInv, loop["cli"].pc = "dial"
  PROVE  \E m \in Links : /\ m = loop["cli"].link /\ <<"cli", m>> \in Ends
                          /\ apc[<<"cli", m>>] = "idle"
                          /\ <<"cli", m>> \notin reg /\ <<"cli", m>> \notin shut
<1>1. PICK m \in Links : m = loop["cli"].link
  BY SideFacts DEF TypeInv, Typed, Stage
<1>2. Awaits("cli", m)
  BY <1>1 DEF Has, Doing, Ann, Awaits
<1> QED BY <1>1, <1>2, EndFacts, SideFacts DEF FlowInv, Staged

(* What the steps do to an application's socket, and to its task.          *)
SockStep(e) ==
  \/ sock'[e] = sock[e]
  \/ sock[e] \in {"open", "fin"} /\ sock'[e] = "rst"
  \/ sock[e] = "open" /\ sock'[e] = "fin"
  \/ sock[e] = "none" /\ e[1] = "srv" /\ apc[e] = "idle"
  \/ loop["cli"].pc = "dial" /\ e = <<"cli", loop["cli"].link>>

LEMMA SockSteps ==
  ASSUME TypeInv, FlowInv, [Next]_vars, NEW e \in Ends
  PROVE  SockStep(e)
<1>1. CASE \E s \in Side : LoopStep(s)
  <2>1. CASE sock' = sock
    BY <2>1 DEF SockStep
  <2>2. CASE Dial \/ DialFail
    BY <2>2 DEF Dial, DialFail, SockStep, TypeInv, Typed
  <2> QED BY <1>1, <2>1, <2>2
          DEF LoopStep, ReadPacket, Deliver, RemoveByPeer, SendPong, ConfirmOpen,
              SendOpened, SendOpenFail, app
<1>2. CASE \E f \in Ends : AppTask(f)
  BY <1>2 DEF AppTask, SendOpen, SetLinkWaiting, TakeReader, ReadApp, ReadAppEnd,
              AddIncoming, SendData, SendClose, Remove, app, SockStep
<1>3. CASE \E f \in Ends : AppClose(f)
  BY <1>3 DEF AppClose, SockStep, TypeInv, Typed
<1>4. CASE \E l \in Links : AppConnect(l)
  <2>1. PICK l \in Links : AppConnect(l)
    BY <1>4
  <2>2. sock[<<"srv", l>>] = "none" /\ apc[<<"srv", l>>] = "idle"
    BY <2>1 DEF AppConnect, FlowInv, Staged
  <2>3. CASE e = <<"srv", l>>
    BY <2>2, <2>3 DEF SockStep
  <2>4. CASE e # <<"srv", l>>
    BY <2>1, <2>4 DEF AppConnect, SockStep, TypeInv, Typed
  <2> QED BY <2>3, <2>4
<1>5. CASE \/ \E f \in Ends : AppWrite(f) \/ AppRead(f)
           \/ Ping \/ UNCHANGED vars
  BY <1>5 DEF AppWrite, AppRead, Ping, gateway, app, vars, SockStep
<1> QED BY <1>1, <1>2, <1>3, <1>4, <1>5 DEF Next, Moves

Closing == {"close", "remove", "done"}

TaskOf(e) ==
  \/ apc'[e] = apc[e] /\ taken'[e] = taken[e] /\ (wrote'[e] = wrote[e] \/ sock[e] = "open")
  \/ apc'[e] \notin Closing /\ apc[e] \notin Closing
  \/ /\ apc[e] = "read" /\ apc'[e] = "close"
     /\ sock'[e] = "rst" \/ (sock'[e] = "fin" /\ taken'[e] = wrote'[e])
  \/ /\ apc[e] \in Closing /\ apc'[e] \in {"remove", "done"}
     /\ taken'[e] = taken[e] /\ wrote'[e] = wrote[e]

LEMMA TaskSteps ==
  ASSUME TypeInv, FlowInv, [Next]_vars, NEW e \in Ends
  PROVE  TaskOf(e)
<1>1. CASE \E s \in Side : LoopStep(s)
  <2>1. CASE apc' = apc /\ taken' = taken /\ wrote' = wrote
    BY <2>1 DEF TaskOf
  <2>2. CASE SendOpened
    <3>1. PICK m \in Links : m = loop["cli"].link
      BY SideFacts DEF TypeInv, Typed, Stage
    <3>2. apc[<<"cli", m>>] = "idle" /\ taken' = taken /\ wrote' = wrote
          /\ apc' = [apc EXCEPT ![<<"cli", m>>] = "start"]
      BY <2>2, <3>1 DEF SendOpened, FlowInv, Staged, app
    <3> QED BY <3>2 DEF TaskOf, Closing, TypeInv, Typed
  <2> QED BY <1>1, <2>1, <2>2
          DEF LoopStep, ReadPacket, Deliver, RemoveByPeer, SendPong, ConfirmOpen,
              Dial, DialFail, SendOpenFail, app
<1>2. CASE \E f \in Ends : AppTask(f)
  <2>1. PICK f \in Ends : AppTask(f)
    BY <1>2
  <2>2. CASE e # f
    BY <2>1, <2>2 DEF AppTask, SendOpen, SetLinkWaiting, TakeReader, ReadApp, ReadAppEnd,
       AddIncoming, SendData, SendClose, Remove, app, TaskOf, TypeInv, Typed
  <2>3. CASE e = f
    <3>1. CASE SendOpen(e) \/ SetLinkWaiting(e) \/ TakeReader(e) \/ ReadApp(e)
               \/ AddIncoming(e) \/ SendData(e)
      BY <3>1 DEF SendOpen, SetLinkWaiting, TakeReader, ReadApp, AddIncoming, SendData,
                  TaskOf, Closing, TypeInv, Typed
    <3>2. CASE ReadAppEnd(e)
      BY <3>2 DEF ReadAppEnd, app, TaskOf, TypeInv, Typed
    <3>3. CASE SendClose(e) \/ Remove(e)
      BY <3>3 DEF SendClose, Remove, app, TaskOf, Closing, TypeInv, Typed
    <3> QED BY <2>1, <2>3, <3>1, <3>2, <3>3 DEF AppTask
  <2> QED BY <2>2, <2>3
<1>3. CASE \E f \in Ends : AppWrite(f) \/ AppRead(f) \/ AppClose(f)
  BY <1>3 DEF AppWrite, AppRead, AppClose, gateway, TaskOf, TypeInv, Typed
<1>4. CASE \E l \in Links : AppConnect(l)
  <2>1. PICK l \in Links : AppConnect(l)
    BY <1>4
  <2>2. sock[<<"srv", l>>] = "none" /\ apc[<<"srv", l>>] = "idle"
    BY <2>1 DEF AppConnect, FlowInv, Staged
  <2>3. CASE e = <<"srv", l>>
    <3>1. apc'[e] = "open" /\ apc[e] = "idle"
      BY <2>1, <2>2, <2>3 DEF AppConnect, TypeInv, Typed
    <3> QED BY <3>1 DEF TaskOf, Closing
  <2>4. CASE e # <<"srv", l>>
    BY <2>1, <2>4 DEF AppConnect, TaskOf, TypeInv, Typed
  <2> QED BY <2>3, <2>4
<1>5. CASE Ping \/ UNCHANGED vars
  BY <1>5 DEF Ping, gateway, app, vars, TaskOf
<1> QED BY <1>1, <1>2, <1>3, <1>4, <1>5 DEF Next, Moves

LEMMA FinishedStep ==
  ASSUME TypeInv, FlowInv, [Next]_vars, NEW e \in Ends, Finished(e)
  PROVE  Finished(e)'
<1>1. SockStep(e) /\ TaskOf(e)
  BY SockSteps, TaskSteps
<1>2. loop["cli"].pc = "dial" /\ e = <<"cli", loop["cli"].link>> => apc[e] = "idle"
  BY DialState
<1>3. Finished(e) <=> (apc[e] \in Closing => sock[e] = "rst" \/ (sock[e] = "fin" /\ taken[e] = wrote[e]))
  BY DEF Finished, Closing
<1>4. Finished(e)' <=> (apc'[e] \in Closing
                          => sock'[e] = "rst" \/ (sock'[e] = "fin" /\ taken'[e] = wrote'[e]))
  BY DEF Finished, Closing
<1> QED BY <1>1, <1>2, <1>3, <1>4 DEF SockStep, TaskOf, Closing

(* The line to the client: what is appended comes from the server's tasks, *)
(* Close when they have done.                                              *)
CliPut(p) ==
  /\ p.type # "OpenFail"
  /\ p.type = "Regular" => apc[<<"srv", p.link>>] = "send"
  /\ p.type = "Close" => apc'[<<"srv", p.link>>] = "remove"
CliLine ==
  \/ SameLine("cli") \/ Drop("cli") \/ Shift("cli")
  \/ \E p \in Msg, n \in Nat : Put("cli", p, n) /\ CliPut(p)

LEMMA CliLoop ==
  ASSUME TypeInv, FlowInv, NEW s \in Side, LoopStep(s)
  PROVE  CliLine
<1>a. "srv" \in Side /\ "cli" \in Side /\ Other("srv") = "cli" /\ Other("cli") = "srv"
  BY SideFacts
<1>b. Idle("loop").pc = "loop" /\ loop \in [Side -> Stage] /\ chan \in [Side -> Seq(Msg)]
  BY PacketTyping DEF LoopPc, TypeInv, Typed
<1>1. CASE s = "cli"
  <2>1. CASE ReadPacket(s)
    BY <1>1, <2>1, LineShift DEF CliLine
  <2>2. CASE Deliver(s)
    <3>1. CASE loop' = [loop EXCEPT ![s] = Idle("loop")]
      BY <1>1, <1>a, <1>b, <2>2, <3>1, LineDrop DEF Deliver, CliLine
    <3>2. CASE loop' = [loop EXCEPT ![s].pc = "blocked"]
      <4>1. /\ loop[s].pc \in {"deliver", "blocked"} /\ loop'[s].pc = "blocked"
            /\ loop'[s].link = loop[s].link /\ loop'[s].val = loop[s].val /\ chan' = chan
        BY <1>b, <2>2, <3>2 DEF Deliver, Stage
      <4> QED BY <1>1, <4>1, LineSame DEF CliLine
    <3> QED BY <2>2, <3>1, <3>2 DEF Deliver
  <2>3. CASE RemoveByPeer(s)
    BY <1>1, <1>a, <1>b, <2>3, LineDrop DEF RemoveByPeer, CliLine
  <2>4. CASE Dial \/ DialFail
    <3>1. chan' = chan /\ loop'["cli"].pc \in {"opened", "refuse"}
      BY <1>a, <1>b, <2>4 DEF Dial, DialFail, Stage
    <3> QED BY <1>a, <3>1, LineDrop DEF CliLine
  <2>5. CASE SendOpened \/ SendOpenFail
    <3>1. loop'["cli"].pc = "loop"
      BY <1>a, <1>b, <2>5 DEF SendOpened, SendOpenFail
    <3>2. chan'["cli"] = chan["cli"]
      BY <1>a, <1>b, <2>5 DEF SendOpened, SendOpenFail, Send
    <3> QED BY <1>a, <3>1, <3>2, LineDrop DEF CliLine
  <2> QED BY <1>1, <2>1, <2>2, <2>3, <2>4, <2>5 DEF LoopStep
<1>2. CASE s = "srv"
  <2>1. CASE SendPong(s)
    <3>1. Send("srv", Control("Pong")) /\ loop'["cli"] = loop["cli"]
      BY <1>2, <1>a, <1>b, <2>1 DEF SendPong
    <3>2. Control("Pong") \in Msg /\ Control("Pong").type = "Pong"
      BY PacketTyping DEF MsgType
    <3>3. PICK n \in Nat : Put("cli", Control("Pong"), n)
      BY <1>a, <3>1, <3>2, SendLines
    <3> QED BY <3>2, <3>3 DEF CliLine, CliPut
  <2>2. CASE ReadPacket(s) \/ Deliver(s) \/ RemoveByPeer(s) \/ ConfirmOpen
    <3>1. chan'["cli"] = chan["cli"] /\ loop'["cli"] = loop["cli"]
      BY <1>2, <1>a, <1>b, <2>2 DEF ReadPacket, Deliver, RemoveByPeer, ConfirmOpen
    <3> QED BY <1>a, <3>1, LineSame DEF CliLine
  <2> QED BY <1>2, <2>1, <2>2 DEF LoopStep
<1> QED BY <1>1, <1>2, SideFacts

LEMMA CliTask ==
  ASSUME TypeInv, FlowInv, NEW e \in Ends, AppTask(e)
  PROVE  CliLine
<1>a. "srv" \in Side /\ "cli" \in Side /\ Other("srv") = "cli" /\ Other("cli") = "srv"
  BY SideFacts
<1>b. PICK r \in Side, m \in Links : e = <<r, m>>
  BY EndFacts
<1>1. CASE chan' = chan /\ loop' = loop
  BY <1>1, <1>a, LineSame DEF CliLine
<1>2. ASSUME NEW p \in Msg, Send(r, p), loop' = loop, r = "srv" => CliPut(p)
      PROVE  CliLine
  <2>1. CASE r = "cli"
    BY <1>2, <2>1, SendLines DEF CliLine
  <2>2. CASE r = "srv"
    BY <1>2, <1>a, <2>2, SendLines DEF CliLine
  <2> QED BY <2>1, <2>2, SideFacts
<1>c. taken[e] \in Nat /\ apc \in [Ends -> AppPc]
  BY DEF TypeInv, Typed
<1>3. CASE SendOpen(e)
  <2> DEFINE p == Packet("Open", m, 0)
  <2>1. p \in Msg /\ p.type = "Open" /\ Send("srv", p) /\ loop' = loop
    BY <1>3, <1>b, PacketTyping DEF SendOpen, MsgType, Packet
  <2>2. r = "srv"
    BY <1>b, <1>3, SideFacts DEF SendOpen, FlowInv, Staged
  <2> QED BY <1>2, <2>1, <2>2 DEF CliPut
<1>4. CASE SendData(e)
  <2> DEFINE p == Packet("Regular", m, taken[e])
  <2>1. p \in Msg /\ p.type = "Regular" /\ p.link = m /\ Send(r, p) /\ loop' = loop
        /\ apc[<<r, m>>] = "send"
    BY <1>4, <1>b, <1>c, PacketTyping DEF SendData, MsgType, Packet
  <2> HIDE DEF p
  <2> QED BY <1>2, <2>1 DEF CliPut
<1>5. CASE SendClose(e)
  <2> DEFINE p == Packet("Close", m, 0)
  <2>1. p \in Msg /\ p.type = "Close" /\ p.link = m /\ Send(r, p) /\ loop' = loop
        /\ apc'[<<r, m>>] = "remove"
    BY <1>5, <1>b, <1>c, PacketTyping DEF SendClose, MsgType, Packet
  <2> HIDE DEF p
  <2> QED BY <1>2, <2>1 DEF CliPut
<1> QED BY <1>1, <1>3, <1>4, <1>5
        DEF AppTask, SetLinkWaiting, TakeReader, ReadApp, ReadAppEnd, AddIncoming, Remove

LEMMA CliSteps ==
  ASSUME TypeInv, FlowInv, [Next]_vars
  PROVE  CliLine
<1>1. CASE \/ \E e \in Ends : AppWrite(e) \/ AppRead(e) \/ AppClose(e)
           \/ \E l \in Links : AppConnect(l)
           \/ UNCHANGED vars
  <2>1. chan' = chan /\ loop' = loop
    BY <1>1 DEF AppWrite, AppRead, AppClose, AppConnect, gateway, vars
  <2> QED BY <2>1, LineSame, SideFacts DEF CliLine
<1>2. CASE Ping
  <2>1. Send("cli", Control("Ping")) /\ loop' = loop /\ Control("Ping") \in Msg
    BY <1>2, PacketTyping DEF Ping, gateway, MsgType
  <2> QED BY <2>1, SendLines, SideFacts DEF CliLine
<1> QED BY <1>1, <1>2, CliLoop, CliTask DEF Next, Moves

LEMMA CloseLastStep ==
  ASSUME TypeInv, FlowInv, [Next]_vars, NEW l \in Links, CloseLast(l)
  PROVE  CloseLast(l)'
<1> DEFINE a == <<"srv", l>>
<1>1. a \in Ends
  BY EndFacts, SideFacts
<1>2. apc[a] \in {"remove", "done"} => apc'[a] \in {"remove", "done"}
  BY <1>1, TaskSteps DEF TaskOf, Closing
<1>3. CASE SameLine("cli") \/ Drop("cli")
  <2>1. \A k \in Nat : /\ Has("cli", k, "Close", l)' => Has("cli", k, "Close", l)
                       /\ Has("cli", k, "Regular", l)' => Has("cli", k, "Regular", l)
    BY <1>3 DEF SameLine, Drop, Kinds
  <2> QED BY <1>2, <2>1 DEF CloseLast
<1>4. CASE Shift("cli")
  <2>1. ASSUME NEW k \in Nat, Has("cli", k, "Close", l)'
        PROVE  /\ apc'[a] \in {"remove", "done"}
               /\ \A j \in Nat : Has("cli", j, "Regular", l)' => j < k
    <3>1. k + 1 \in Nat /\ Has("cli", k + 1, "Close", l)
      BY <1>4, <2>1 DEF Shift, Kinds
    <3>2. ASSUME NEW j \in Nat, Has("cli", j, "Regular", l)' PROVE j < k
      <4>1. j + 1 \in Nat /\ Has("cli", j + 1, "Regular", l)
        BY <1>4, <3>2 DEF Shift, Kinds
      <4>2. j + 1 < k + 1
        BY <3>1, <4>1 DEF CloseLast
      <4> QED BY <4>2
    <3> QED BY <1>2, <3>1, <3>2 DEF CloseLast
  <2> QED BY <2>1 DEF CloseLast
<1>5. CASE \E p \in Msg, n \in Nat : Put("cli", p, n) /\ CliPut(p)
  <2>1. PICK p \in Msg, n \in Nat : Put("cli", p, n) /\ CliPut(p)
    BY <1>5
  <2>2. \A k \in Nat :
          /\ Has("cli", k, "Close", l)' <=> \/ Has("cli", k, "Close", l)
                                            \/ k = n /\ p.type = "Close" /\ p.link = l
          /\ Has("cli", k, "Regular", l)' <=> \/ Has("cli", k, "Regular", l)
                                              \/ k = n /\ p.type = "Regular" /\ p.link = l
          /\ Has("cli", k, "Regular", l) => k < n
    BY <2>1 DEF Put, CliPut, Kinds, IsA
  <2>3. ASSUME NEW k \in Nat, Has("cli", k, "Close", l)'
        PROVE  /\ apc'[a] \in {"remove", "done"}
               /\ \A j \in Nat : Has("cli", j, "Regular", l)' => j < k
    <3>1. CASE Has("cli", k, "Close", l)
      <4>1. apc[a] \in {"remove", "done"}
        BY <3>1 DEF CloseLast
      <4>2. ~(p.type = "Regular" /\ p.link = l)
        BY <2>1, <4>1 DEF CliPut
      <4> QED BY <1>2, <2>2, <3>1, <4>1, <4>2 DEF CloseLast
    <3>2. CASE k = n /\ p.type = "Close" /\ p.link = l
      <4>1. apc'[a] = "remove"
        BY <2>1, <3>2 DEF CliPut
      <4> QED BY <2>2, <3>2, <4>1
    <3> QED BY <2>2, <2>3, <3>1, <3>2
  <2> QED BY <2>3 DEF CloseLast
<1> QED BY <1>3, <1>4, <1>5, CliSteps DEF CliLine

(* What the steps do to the client's end in the registry.                  *)
CliEnd(b) ==
  /\ b \in reg' => \/ b \in reg /\ lst'[b] = lst[b] /\ (b \in shut' => b \in shut)
                   \/ lst'[b] = "Connected" /\ b \notin shut'
  /\ b \in shut' => \/ b \in shut
                    \/ loop["cli"].pc = "remove" /\ b = <<"cli", loop["cli"].link>> /\ b \in reg
                    \/ apc[b] = "remove"

LEMMA CliEndSteps ==
  ASSUME TypeInv, FlowInv, [Next]_vars, NEW l \in Links
  PROVE  CliEnd(<<"cli", l>>)
<1>0. PICK b \in Ends : b = <<"cli", l>>
  BY EndFacts, SideFacts
<1> SUFFICES CliEnd(b)
  BY <1>0
<1>1. b[1] = "cli" /\ apc[b] # "waiting" /\ \A m : b # <<"srv", m>>
  BY <1>0, EndFacts DEF FlowInv, Staged
<1>2. CASE reg' = reg /\ shut' = shut /\ lst' = lst
  BY <1>2 DEF CliEnd
<1>3. CASE \E s \in Side : RemoveByPeer(s)
  <2>1. PICK s \in Side : RemoveByPeer(s)
    BY <1>3
  <2> DEFINE f == <<s, loop[s].link>>
  <2>2. /\ reg' = reg \ {f} /\ shut' = shut \cup ({f} \cap reg) /\ loop[s].pc = "remove"
        /\ lst' = [e \in Ends |-> IF e \in {f} \cap reg THEN "Disconnected" ELSE lst[e]]
    BY <2>1 DEF RemoveByPeer, Release
  <2>3. b = f => s = "cli"
    BY <1>1, EndFacts
  <2>4. b \in reg' => b \in reg /\ lst'[b] = lst[b] /\ (b \in shut' => b \in shut)
    BY <1>1, <2>2
  <2> QED BY <2>2, <2>3, <2>4 DEF CliEnd
<1>4. CASE ConfirmOpen
  BY <1>1, <1>4 DEF ConfirmOpen, CliEnd, TypeInv, Typed
<1>5. CASE Dial
  <2>1. PICK m \in Links : /\ m = loop["cli"].link /\ <<"cli", m>> \in Ends
                           /\ <<"cli", m>> \notin shut
    BY <1>5, DialState DEF Dial
  <2>2. /\ reg' = reg \cup {<<"cli", m>>} /\ shut' = shut
        /\ lst' = [lst EXCEPT ![<<"cli", m>>] = "Connected"]
    BY <1>5, <2>1 DEF Dial
  <2>3. CASE b = <<"cli", m>>
    BY <2>1, <2>2, <2>3 DEF CliEnd, TypeInv, Typed
  <2>4. CASE b # <<"cli", m>>
    BY <1>1, <2>2, <2>4 DEF CliEnd, TypeInv, Typed
  <2> QED BY <2>3, <2>4
<1>6. CASE \E l1 \in Links : AppConnect(l1)
  BY <1>1, <1>6 DEF AppConnect, CliEnd
<1>7. CASE \E e \in Ends : SetLinkWaiting(e)
  BY <1>1, <1>7 DEF SetLinkWaiting, CliEnd, TypeInv, Typed
<1>8. CASE \E e \in Ends : Remove(e)
  <2>1. PICK e \in Ends : Remove(e)
    BY <1>8
  <2>2. CASE b = e
    BY <2>1, <2>2 DEF Remove, CliEnd
  <2>3. CASE b # e
    BY <1>1, <2>1, <2>3 DEF Remove, CliEnd, TypeInv, Typed
  <2> QED BY <2>2, <2>3
<1>9. CASE \E s \in Side : LoopStep(s)
  BY <1>2, <1>3, <1>4, <1>5, <1>9
  DEF LoopStep, ReadPacket, Deliver, SendPong, DialFail, SendOpened, SendOpenFail
<1>10. CASE \E e \in Ends : AppTask(e)
  BY <1>2, <1>7, <1>8, <1>10
  DEF AppTask, SendOpen, TakeReader, ReadApp, ReadAppEnd, AddIncoming, SendData, SendClose
<1>11. CASE (\E e \in Ends : AppWrite(e) \/ AppRead(e) \/ AppClose(e)) \/ Ping \/ UNCHANGED vars
  BY <1>2, <1>11 DEF AppWrite, AppRead, AppClose, Ping, gateway, vars
<1> QED BY <1>6, <1>9, <1>10, <1>11 DEF Next, Moves

(* Once the client's end is shut down its data is final, and so is the     *)
(* reason.                                                                 *)
LEMMA NumFinal ==
  ASSUME TypeInv, FlowInv, [Next]_vars, NEW l \in Links, <<"cli", l>> \in shut
  PROVE  Num("cli", l)' = Num("cli", l)
<1>1. CASE \E e \in Ends : AppWrite(e)
  BY <1>1 DEF AppWrite, Num
<1>2. CASE \E s \in Side : Deliver(s)
  <2>1. PICK s \in Side : Deliver(s)
    BY <1>2
  <2> QED BY <2>1, DeliverSteps, SideFacts
<1> QED BY <1>1, <1>2, OtherSteps, SideFacts

LEMMA EndedStep ==
  ASSUME TypeInv, FlowInv, EndInv, [Next]_vars, NEW l \in Links
  PROVE  Live(l)' /\ Ended(l)'
<1> DEFINE a == <<"srv", l>>
           b == <<"cli", l>>
<1>1. /\ a \in Ends /\ b \in Ends /\ a[1] = "srv" /\ a # b /\ Source("cli", l) = a
      /\ Live(l) /\ Ended(l) /\ CloseLast(l) /\ Finished(a) /\ Finished(b)
      /\ Stream("cli", l) /\ Received("cli", l)
  BY EndFacts, SideFacts DEF Source, EndInv, FlowInv
<1>2. CliEnd(b) /\ SockStep(a) /\ SockStep(b) /\ TaskOf(a)
  BY <1>1, CliEndSteps, SockSteps, TaskSteps
<1>3. Live(l)'
  BY <1>1, <1>2 DEF CliEnd, Live
<1>4. loop["cli"].pc = "dial" /\ b = <<"cli", loop["cli"].link>> => b \notin shut /\ apc[b] = "idle"
  BY DialState
<1>5. a # <<"cli", loop["cli"].link>>
  BY EndFacts
<1>6. Num("cli", l) \in Nat /\ Sent("cli", l) \in Int /\ Num("cli", l) <= Sent("cli", l)
  BY <1>1, Counts, SideFacts DEF Received
<1>7. sock[a] = "rst" => sock'[a] = "rst"
  BY <1>2, <1>5 DEF SockStep
<1>8. sock[a] = "fin" => sock'[a] \in {"fin", "rst"} /\ wrote'[a] = wrote[a]
  <2>1. sock[a] = "fin" => sock'[a] \in {"fin", "rst"}
    BY <1>2, <1>5 DEF SockStep
  <2>2. ASSUME sock[a] = "fin" PROVE wrote'[a] = wrote[a]
    <3>1. CASE \E e \in Ends : AppWrite(e)
      BY <1>1, <2>2, <3>1 DEF AppWrite, TypeInv, Typed
    <3>2. CASE \E s \in Side : Deliver(s)
      BY <3>2 DEF Deliver
    <3> QED BY <3>1, <3>2, OtherSteps
  <2> QED BY <2>1, <2>2
<1>9. CASE b \in shut
  <2>1. Num("cli", l)' = Num("cli", l)
    BY <1>9, NumFinal
  <2>2. sock[b] \in {"fin", "rst"} => sock'[b] \in {"fin", "rst"}
    BY <1>2, <1>4, <1>9 DEF SockStep
  <2> QED BY <1>1, <1>3, <1>7, <1>8, <1>9, <2>1, <2>2 DEF Ended
<1>10. CASE b \notin shut /\ apc[b] = "remove"
  <2>1. sock[b] \in {"fin", "rst"}
    BY <1>1, <1>10 DEF Finished
  <2>2. sock'[b] \in {"fin", "rst"}
    BY <1>2, <1>4, <1>10, <2>1 DEF SockStep
  <2> QED BY <1>3, <2>2 DEF Ended
<1>11. CASE /\ b \notin shut /\ loop["cli"].pc = "remove" /\ b = <<"cli", loop["cli"].link>>
            /\ b \in reg /\ sock[b] # "rst" /\ sock[a] # "rst"
  <2>1. Has("cli", 0, "Close", l)
    BY <1>11, EndFacts DEF Has, Doing
  <2>2. apc[a] \in {"remove", "done"} /\ \A k \in Nat : ~Has("cli", k, "Regular", l)
    BY <1>1, <2>1 DEF CloseLast
  <2>3. sock[a] = "fin" /\ taken[a] = wrote[a]
    BY <1>1, <1>11, <2>2 DEF Finished
  <2>4. Sent("cli", l) = taken[a]
    BY <1>1, <2>2 DEF Sent, Pending
  <2>5. Takes(b)
    BY <1>1, <1>11 DEF Takes, Live
  <2>6. \A v \in Num("cli", l) + 1 .. Sent("cli", l) : FALSE
    BY <1>1, <2>2, <2>5 DEF Stream, Complete, Open
  <2>7. Num("cli", l) = wrote[a]
    BY <1>6, <2>3, <2>4, <2>6
  <2>8. Num("cli", l)' = Num("cli", l)
    <3>1. CASE \E e \in Ends : AppWrite(e)
      BY <3>1 DEF AppWrite, Num
    <3>2. CASE \E s \in Side : Deliver(s)
      <4>1. PICK s \in Side : Deliver(s)
        BY <3>2
      <4>2. s = "srv"
        BY <1>11, <4>1, SideFacts DEF Deliver
      <4>3. \A m \in Links : <<"cli", l>> # <<"srv", m>>
        BY EndFacts
      <4>4. \/ \A r \in Side, j \in Links : Num(r, j)' = Num(r, j)
            \/ \E m \in Links : \A r \in Side, j \in Links :
                 <<r, j>> # <<"srv", m>> => Num(r, j)' = Num(r, j)
        BY <4>1, <4>2, DeliverSteps
      <4>5. "cli" \in Side
        BY SideFacts
      <4> QED BY <4>3, <4>4, <4>5
    <3> QED BY <3>1, <3>2, OtherSteps, SideFacts
  <2> QED BY <1>3, <1>8, <2>3, <2>7, <2>8 DEF Ended
<1>12. CASE b \notin shut /\ b \notin shut'
  BY <1>3, <1>12 DEF Ended
<1>13. CASE b \notin shut /\ (sock[b] = "rst" \/ sock[a] = "rst") /\ b \in reg /\ loop["cli"].pc = "remove"
  <2>1. sock[b] = "rst" => sock'[b] = "rst"
    BY <1>2, <1>13 DEF SockStep
  <2> QED BY <1>3, <1>7, <1>13, <2>1 DEF Ended
<1> QED BY <1>2, <1>9, <1>10, <1>11, <1>12, <1>13 DEF CliEnd

LEMMA InitEnd == Init => EndInv
<1> SUFFICES ASSUME Init PROVE EndInv
  OBVIOUS
<1>1. chan["cli"] = <<>> /\ loop["cli"].pc = "loop"
  BY PacketTyping, SideFacts DEF Init, LoopPc
<1>2. \A l \in Links, k \in Nat : ~Has("cli", k, "Close", l)
  BY <1>1 DEF Has, Doing
<1>3. \A e \in Ends : Finished(e)
  BY DEF Init, Finished
<1>4. reg = {} /\ shut = {}
  BY DEF Init
<1>5. ASSUME NEW l \in Links PROVE CloseLast(l) /\ Live(l) /\ Ended(l)
  <2>1. CloseLast(l)
    BY <1>2 DEF CloseLast
  <2>2. Live(l) /\ Ended(l)
    BY <1>4 DEF Live, Ended
  <2> QED BY <2>1, <2>2
<1> QED BY <1>3, <1>5 DEF EndInv

LEMMA EndStep == TypeInv /\ FlowInv /\ EndInv /\ [Next]_vars => EndInv'
<1> SUFFICES ASSUME TypeInv, FlowInv, EndInv, [Next]_vars PROVE EndInv'
  OBVIOUS
<1>1. \A e \in Ends : Finished(e)'
  BY FinishedStep DEF EndInv
<1>2. \A l \in Links : CloseLast(l)'
  BY CloseLastStep DEF EndInv
<1>3. \A l \in Links : Live(l)' /\ Ended(l)'
  BY EndedStep
<1> QED BY <1>1, <1>2, <1>3 DEF EndInv

(* THEOREM: when the client signals the end of a stream to an application  *)
(* that is still there, with the other one not gone, it has handed on all  *)
(* that the other one wrote: Close never overtakes data, neither in        *)
(* app_exchange, on the connection nor at gateway_exchange.                *)
THEOREM EofCompleteTheorem == Spec => []EofComplete
<1>1. TypeInv /\ FlowInv /\ EndInv => EofComplete
  <2> SUFFICES ASSUME TypeInv, FlowInv, EndInv, NEW l \in Links,
                      <<"cli", l>> \in shut, sock[<<"cli", l>>] = "open",
                      sock[<<"srv", l>>] # "rst"
               PROVE  got[<<"cli", l>>] \o inbox[<<"cli", l>>] = Chunks(wrote[<<"srv", l>>])
    BY DEF EofComplete
  <2>1. Num("cli", l) = wrote[<<"srv", l>>]
    BY DEF EndInv, Ended
  <2>2. Received("cli", l)
    BY SideFacts DEF FlowInv
  <2>3. got[<<"cli", l>>] \o inbox[<<"cli", l>>] = Chunks(Num("cli", l))
    BY <2>2, HeldChunks, SideFacts
  <2> QED BY <2>1, <2>3
<1> QED BY <1>1, FlowInvariance, InitEnd, EndStep, PTL DEF Spec
=============================================================================
