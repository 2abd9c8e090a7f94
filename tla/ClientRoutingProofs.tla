------------------------- MODULE ClientRoutingProofs -------------------------
(***************************************************************************)
(* What the client says to the server and where it delivers what the       *)
(* server says: a task speaks on its own connection, after Opened; and     *)
(* while the server has not handed out more identifiers than LinkIdWidth   *)
(* has, data reaches the application connection it is for.                 *)
(***************************************************************************)
EXTENDS ClientProofs

-----------------------------------------------------------------------------
(* Speaking: what app_exchange and run put on the wire. *)

Out(c, k) == k \in 1 .. Len(outbox[c])

(* Data and Close come from running tasks of the connection; Opened is     *)
(* about a connection of the server.                                       *)
Spoken ==
  \A c \in Conns : \A k \in Nat : Out(c, k) =>
    /\ outbox[c][k].type \in {"Regular", "Close"} =>
         /\ outbox[c][k].app \in Apps
         /\ writer[outbox[c][k].app] = c
         /\ apc[outbox[c][k].app] # "idle"
    /\ outbox[c][k].type = "Opened" => outbox[c][k].app \in Apps

IsOpened(c, k, a) == Out(c, k) /\ outbox[c][k].type = "Opened" /\ outbox[c][k].app = a

(* A running task's Opened has been taken by the server, is on its way, or *)
(* nothing that is written gets anywhere any more.                         *)
Told ==
  \A a \in Apps : apc[a] # "idle" =>
    \/ phase[a] = "confirmed"
    \/ net[writer[a]] = "lost" \/ wshut[writer[a]]
    \/ \E k \in Nat : IsOpened(writer[a], k, a)

ToldFirst ==
  \A c \in Conns : \A k \in Nat :
    Out(c, k) /\ outbox[c][k].type \in {"Regular", "Close"} =>
      \/ phase[outbox[c][k].app] = "confirmed"
      \/ \E j \in Nat : j < k /\ IsOpened(c, j, outbox[c][k].app)

SpeechInv == Spoken /\ Told /\ ToldFirst

(* What is unsaid and what is confirmed stays so.                          *)
Steady ==
  /\ \A a \in Apps : phase[a] = "confirmed" => phase'[a] = "confirmed"
  /\ \A a \in Apps : apc[a] # "idle" => apc'[a] # "idle" /\ writer'[a] = writer[a]
  /\ \A c \in Conns : (net[c] = "lost" => net'[c] = "lost") /\ (wshut[c] => wshut'[c])

LEMMA QuietSpeech ==
  ASSUME TypeInv, SpeechInv, Steady, outbox' = outbox,
         \A a \in Apps : apc'[a] # "idle" => apc[a] # "idle"
  PROVE  SpeechInv'
<1>1. Spoken'
  BY DEF SpeechInv, Spoken, Out, Steady
<1>2. Told'
  BY DEF SpeechInv, Told, Out, IsOpened, Steady, TypeInv, Placed
<1>3. ToldFirst'
  BY DEF SpeechInv, Spoken, ToldFirst, Out, IsOpened, Steady
<1> QED BY <1>1, <1>2, <1>3 DEF SpeechInv

(* A packet p that may be written to c: of a running task of c, or the     *)
(* Opened with which a task of c starts.                                   *)
LEMMA WriteSpeech ==
  ASSUME TypeInv, SpeechInv, NEW c \in Conns, NEW p \in Chan!Packet,
         Chan!WriteOk(c, p) \/ Chan!WriteErr(c), phase' = phase, writer' = writer,
         p.type \in {"Regular", "Close"} =>
           p.app \in Apps /\ writer[p.app] = c /\ apc[p.app] # "idle",
         p.type = "Opened" => p.app \in Apps,
         \A a \in Apps : apc[a] # "idle" => apc'[a] # "idle",
         \A a \in Apps : apc[a] = "idle" /\ apc'[a] # "idle" =>
           p.type = "Opened" /\ p.app = a /\ writer[a] = c
  PROVE  SpeechInv'
<1>1. CASE Dropped(c)
  <2>1. UNCHANGED <<outbox, net, wshut>>
    BY <1>1, WriteEffect DEF Dropped
  <2>2. Spoken' /\ ToldFirst'
    BY <2>1 DEF SpeechInv, Spoken, ToldFirst, Out, IsOpened
  <2>3. Told'
    BY <1>1, <2>1 DEF SpeechInv, Told, Out, IsOpened, Dropped
  <2> QED BY <2>2, <2>3 DEF SpeechInv
<1>2. CASE Appended(c, p)
  <2> DEFINE n == Len(outbox[c]) + 1
  <2>1. outbox[c] \in Seq(Chan!Packet) /\ n \in Nat
    BY DEF TypeInv, TypeOK, ClientTypeOK, Chan!WireTypeOK
  <2> DEFINE q == Append(outbox[c], p)
  <2>2. \A d \in Conns : outbox'[d] = IF d = c THEN q ELSE outbox[d]
    BY <1>2 DEF Appended, TypeInv, TypeOK, ClientTypeOK, Chan!WireTypeOK
  <2>3. Len(q) = n /\ \A k \in 1 .. n : q[k] = IF k = n THEN p ELSE outbox[c][k]
    BY <2>1, AppendAt
  <2>14. Len(outbox[c]) \in Nat
    BY <2>1
  <2> HIDE DEF q
  <2>4. \A d \in Conns, k \in Nat : Out(d, k)' =>
          \/ d = c /\ k = n /\ outbox'[d][k] = p
          \/ Out(d, k) /\ outbox'[d][k] = outbox[d][k]
    BY <2>2, <2>3, <2>14 DEF Out
  <2>5. \A d \in Conns, k \in Nat : Out(d, k) => Out(d, k)' /\ outbox'[d][k] = outbox[d][k]
    BY <2>2, <2>3, <2>14 DEF Out
  <2>6. \E m \in Nat : Out(c, m)' /\ outbox'[c][m] = p
    <3>1. n \in 1 .. Len(outbox'[c]) /\ outbox'[c][n] = p /\ n \in Nat
      BY <2>2, <2>3, <2>14
    <3> HIDE DEF n
    <3> QED BY <3>1 DEF Out
  <2>7. \A k \in Nat : Out(c, k) => k < n
    BY <2>1 DEF Out
  <2>8. \A d \in Conns : net'[d] # "lost" => net[d] # "lost"
    BY <1>2 DEF Appended, TypeInv, TypeOK, ClientTypeOK, Chan!WireTypeOK
  <2>9. wshut' = wshut
    BY WriteEffect
  <2> HIDE DEF n
  <2>10. Spoken'
    BY <2>4 DEF SpeechInv, Spoken
  <2>11. \A d \in Conns, k \in Nat, a \in Apps : IsOpened(d, k, a) => IsOpened(d, k, a)'
    BY <2>5 DEF IsOpened
  <2>12. Told'
    <3> SUFFICES ASSUME NEW a \in Apps, apc'[a] # "idle", NEW w, w = writer[a]
        PROVE  \/ phase[a] = "confirmed"
               \/ net'[w] = "lost" \/ wshut'[w]
               \/ \E k \in Nat : IsOpened(w, k, a)'
      BY DEF Told, IsOpened, Out
    <3>1. CASE apc[a] = "idle"
      BY <2>1, <2>6, <3>1 DEF IsOpened
    <3>2. CASE apc[a] # "idle"
      <4>1. w \in Conns
        BY <3>2 DEF TypeInv, Placed
      <4>2. net[w] = "lost" => net'[w] = "lost"
        BY <1>2, <4>1 DEF Appended, TypeInv, TypeOK, ClientTypeOK, Chan!WireTypeOK
      <4> QED BY <2>9, <2>11, <3>2, <4>1, <4>2 DEF SpeechInv, Told
    <3> QED BY <3>1, <3>2
  <2>13. ToldFirst'
    <3> SUFFICES ASSUME NEW d \in Conns, NEW k \in Nat, Out(d, k)',
                        outbox'[d][k].type \in {"Regular", "Close"},
                        NEW b, b = outbox'[d][k].app
        PROVE  phase[b] = "confirmed" \/ \E j \in Nat : j < k /\ IsOpened(d, j, b)'
      BY DEF ToldFirst, IsOpened
    <3>1. CASE Out(d, k) /\ outbox'[d][k] = outbox[d][k]
      BY <2>11, <3>1 DEF SpeechInv, ToldFirst, Spoken
    <3>2. CASE d = c /\ k = n /\ outbox'[d][k] = p
      <4>1. p.app \in Apps /\ writer[p.app] = c /\ apc[p.app] # "idle"
        BY <3>2
      <4>2. ~wshut[c] /\ net[c] # "lost"
        BY <1>2 DEF Appended
      <4>3. phase[p.app] = "confirmed" \/ \E j \in Nat : IsOpened(c, j, p.app)
        BY <4>1, <4>2 DEF SpeechInv, Told
      <4> QED BY <2>7, <2>11, <3>2, <4>1, <4>3 DEF IsOpened
    <3> QED BY <2>4, <3>1, <3>2
  <2> QED BY <2>10, <2>12, <2>13 DEF SpeechInv
<1> QED BY <1>1, <1>2, WriteEffect

LEMMA RunSpeech ==
  ASSUME LinkInv, SpeechInv, RunStep, UNCHANGED serverEnd
  PROVE  SpeechInv'
<1> USE DEF LinkInv
<1>1. CASE SendPong
  <2>1. Chan!ControlPacket("Pong") \in Chan!Packet /\ Chan!ControlPacket("Pong").type = "Pong"
    BY PacketTyping DEF Chan!PacketType, Chan!ControlPacket
  <2>2. conn \in Conns /\ UNCHANGED <<apc, writer, phase>>
    BY <1>1 DEF SendPong, TypeInv, Placed, appTask, serverEnd
  <2>3. Chan!WriteOk(conn, Chan!ControlPacket("Pong")) \/ Chan!WriteErr(conn)
    BY <1>1 DEF SendPong, Answer
  <2> QED BY <2>1, <2>2, <2>3, WriteSpeech
<1>2. CASE SendOpenFail
  <2> DEFINE p == Chan!LinkPacket("OpenFail", pkt.link, pkt.app)
  <2>1. p \in Chan!Packet /\ p.type = "OpenFail"
    BY PacketTyping DEF TypeInv, TypeOK, ClientTypeOK, Chan!PacketType, Chan!LinkPacket
  <2>2. conn \in Conns /\ UNCHANGED <<apc, writer, phase>>
    BY <1>2 DEF SendOpenFail, TypeInv, Placed, appTask, serverEnd
  <2>3. Chan!WriteOk(conn, p) \/ Chan!WriteErr(conn)
    BY <1>2 DEF SendOpenFail, Answer
  <2> HIDE DEF p
  <2> QED BY <2>1, <2>2, <2>3, WriteSpeech
<1>3. CASE SendOpened
  <2> DEFINE p == Chan!LinkPacket("Opened", pkt.link, cur)
  <2>1. cur \in Apps /\ writer[cur] = conn /\ conn \in Conns
    BY <1>3 DEF SendOpened, TypeInv, Placed, DialInv, NotEarly
  <2>2. p \in Chan!Packet /\ p.type = "Opened" /\ p.app = cur
    BY <2>1, PacketTyping DEF TypeInv, TypeOK, ClientTypeOK, Chan!PacketType, Chan!LinkPacket
  <2>3. UNCHANGED <<writer, phase>> /\ apc' = [apc EXCEPT ![cur] = "read"]
    BY <1>3 DEF SendOpened, serverEnd
  <2>4. \A a \in Apps : apc'[a] = IF a = cur THEN "read" ELSE apc[a]
    BY <2>3 DEF TypeInv, TypeOK, ClientTypeOK
  <2>5. Chan!WriteOk(conn, p) \/ Chan!WriteErr(conn)
    BY <1>3 DEF SendOpened, Answer
  <2> HIDE DEF p
  <2> QED BY <2>1, <2>2, <2>3, <2>4, <2>5, WriteSpeech
<1>4. CASE Dial
  <2>1. UNCHANGED <<outbox, net, wshut, apc, phase>>
        /\ writer' = [writer EXCEPT ![pkt.app] = conn]
    BY <1>4 DEF Dial, wire, serverEnd
  <2>2. pkt.app \in Apps /\ apc[pkt.app] = "idle"
    BY <1>4 DEF Dial, DialInv, OpensUndialled, Undialled
  <2>3. Steady
    BY <2>1, <2>2 DEF Steady, TypeInv, TypeOK, ClientTypeOK
  <2> QED BY <2>1, <2>3, QuietSpeech
<1>5. CASE ~(SendPong \/ SendOpenFail \/ SendOpened \/ Dial)
  <2>1. UNCHANGED <<outbox, wshut, apc, writer, phase>>
    <3>1. CASE \E c \in Conns : ConnectGateway(c)
      BY <3>1 DEF ConnectGateway, appTask, serverEnd
    <3>2. CASE ConnectFail \/ Retry \/ StoreWriter \/ SetProcessing \/ AuthOk \/ AuthFail
                 \/ DiscardWriter \/ SetConnected \/ ReadPacket \/ ReadEnd
      BY <3>2 DEF ConnectFail, Retry, StoreWriter, SetProcessing, AuthOk, AuthFail,
                  DiscardWriter, SetConnected, ReadPacket, ReadEnd, wire, appTask, serverEnd
    <3>3. CASE DialFail \/ AddLink \/ ConfirmLink \/ Unlink \/ ShutLink \/ Forward
                 \/ CloseLinks \/ ForgetWriter \/ SetWaiting
      BY <3>3 DEF DialFail, AddLink, ConfirmLink, Unlink, ShutLink, Forward, CloseLinks,
                  ForgetWriter, SetWaiting, wire, appTask, serverEnd
    <3> QED BY <1>5, <3>1, <3>2, <3>3 DEF RunStep
  <2>2. \A c \in Conns : net[c] = "lost" => net'[c] = "lost"
    <3>1. CASE \E c \in Conns : ConnectGateway(c)
      BY <3>1 DEF ConnectGateway, TypeInv, TypeOK, ClientTypeOK, Chan!WireTypeOK
    <3>2. CASE DiscardWriter
      BY <3>2 DEF DiscardWriter, TypeInv, TypeOK, ClientTypeOK, Chan!WireTypeOK
    <3>3. CASE ConnectFail \/ Retry \/ StoreWriter \/ SetProcessing \/ AuthOk \/ AuthFail
                 \/ SetConnected \/ ReadPacket \/ ReadEnd
      BY <3>3 DEF ConnectFail, Retry, StoreWriter, SetProcessing, AuthOk, AuthFail,
                  SetConnected, ReadPacket, ReadEnd, wire
    <3>4. CASE DialFail \/ AddLink \/ ConfirmLink \/ Unlink \/ ShutLink \/ Forward
                 \/ CloseLinks \/ ForgetWriter \/ SetWaiting
      BY <3>4 DEF DialFail, AddLink, ConfirmLink, Unlink, ShutLink, Forward, CloseLinks,
                  ForgetWriter, SetWaiting, wire
    <3> QED BY <1>5, <3>1, <3>2, <3>3, <3>4 DEF RunStep
  <2>3. Steady
    BY <2>1, <2>2 DEF Steady
  <2> QED BY <2>1, <2>3, QuietSpeech
<1> QED BY <1>1, <1>2, <1>3, <1>4, <1>5

LEMMA AppSpeech ==
  ASSUME LinkInv, SpeechInv, NEW a \in Apps, AppStep(a), UNCHANGED serverEnd
  PROVE  SpeechInv'
<1> USE DEF LinkInv
<1>1. PICK x \in AppPc \ {"idle"} : apc' = [apc EXCEPT ![a] = x]
  BY AppFrame
<1>2. UNCHANGED <<wshut, writer, phase>> /\ apc[a] # "idle" /\ writer[a] \in Conns
  BY AppFrame DEF serverEnd, TypeInv, Placed
<1>3. \A b \in Apps : apc[b] # "idle" <=> apc'[b] # "idle"
  BY <1>1, <1>2 DEF TypeInv, TypeOK, ClientTypeOK
<1>4. CASE SendData(a) \/ SendClose(a)
  <2>1. PICK t \in {"Regular", "Close"} :
          \/ Chan!WriteOk(writer[a], Chan!LinkPacket(t, linkId[a], a))
          \/ Chan!WriteErr(writer[a])
    BY <1>4 DEF SendData, SendClose, Answer
  <2> DEFINE p == Chan!LinkPacket(t, linkId[a], a)
  <2>2. p \in Chan!Packet /\ p.type = t /\ p.app = a
    BY PacketTyping DEF TypeInv, TypeOK, ClientTypeOK, Chan!PacketType, Chan!LinkPacket
  <2>3. Chan!WriteOk(writer[a], p) \/ Chan!WriteErr(writer[a])
    BY <2>1
  <2> HIDE DEF p
  <2> QED BY <1>2, <1>3, <2>2, <2>3, WriteSpeech
<1>5. CASE ReadApp(a) \/ ReadAppEnd(a) \/ RemoveLink(a)
  <2>1. UNCHANGED <<outbox, net>>
    BY <1>5 DEF ReadApp, ReadAppEnd, RemoveLink, wire
  <2>2. Steady
    BY <1>2, <1>3, <2>1 DEF Steady
  <2> QED BY <1>3, <2>1, <2>2, QuietSpeech
<1> QED BY <1>4, <1>5 DEF AppStep

LEMMA ProcessSpeech ==
  ASSUME LinkInv, SpeechInv, UNCHANGED serverEnd,
         ManualPing \/ ShutdownStep \/ \E c \in Conns : PingTick(c)
  PROVE  SpeechInv'
<1> USE DEF LinkInv
<1>1. UNCHANGED <<apc, writer, phase>>
  BY ProcessFrame DEF appTask, serverEnd
<1>2. CASE ManualPing \/ \E c \in Conns : PingTick(c)
  <2>1. Chan!ControlPacket("Ping") \in Chan!Packet /\ Chan!ControlPacket("Ping").type = "Ping"
    BY PacketTyping DEF Chan!PacketType, Chan!ControlPacket
  <2>2. PICK c \in Conns : Chan!WriteOk(c, Chan!ControlPacket("Ping")) \/ Chan!WriteErr(c)
    BY <1>2 DEF ManualPing, PingTick, Answer, TypeInv, TypeOK, ClientTypeOK
  <2> QED BY <1>1, <2>1, <2>2, WriteSpeech
<1>3. CASE ShutdownStep
  <2>1. UNCHANGED <<outbox, net>> /\ \A c \in Conns : wshut[c] => wshut'[c]
    BY <1>3 DEF ShutdownStep, BeginShutdown, TakeWriter, Exit, wire
  <2>2. Steady
    BY <1>1, <2>1 DEF Steady
  <2> QED BY <1>1, <2>1, <2>2, QuietSpeech
<1> QED BY <1>2, <1>3

(* The server takes the first packet: an Opened confirms its connection,   *)
(* and what came after it may now come first.                              *)
LEMMA ReadSpeech ==
  ASSUME LinkInv, SpeechInv, NEW c \in Conns, SrvRead(c)
  PROVE  SpeechInv'
<1> USE DEF LinkInv
<1> DEFINE p == Head(outbox[c])
           t == Tail(outbox[c])
<1>1. outbox[c] \in Seq(Chan!Packet) /\ outbox[c] # <<>>
  BY DEF SrvRead, TypeInv, TypeOK, ClientTypeOK, Chan!WireTypeOK
<1>2. /\ p = outbox[c][1] /\ 1 \in 1 .. Len(outbox[c])
      /\ \A k \in 1 .. Len(t) : k + 1 \in 1 .. Len(outbox[c]) /\ t[k] = outbox[c][k + 1]
      /\ \A k \in 1 .. Len(outbox[c]) : k # 1 => k - 1 \in 1 .. Len(t) /\ k - 1 \in Nat
  BY <1>1, TailAt
<1>3. outbox' = [outbox EXCEPT ![c] = t]
  BY DEF SrvRead
<1>4. /\ p.type = "Opened" => phase' = [phase EXCEPT ![p.app] = "confirmed"]
      /\ p.type # "Opened" => phase' = phase
  BY DEF SrvRead
<1>5. UNCHANGED <<net, wshut, apc, writer>>
  BY DEF SrvRead, client, appTask
<1> HIDE DEF p, t
<1>6. \A d \in Conns : outbox'[d] = IF d = c THEN t ELSE outbox[d]
  BY <1>3 DEF TypeInv, TypeOK, ClientTypeOK, Chan!WireTypeOK
<1> DEFINE at(d, k) == IF d = c THEN k + 1 ELSE k
<1>7. \A d \in Conns, k \in Nat : Out(d, k)' =>
        Out(d, at(d, k)) /\ outbox'[d][k] = outbox[d][at(d, k)] /\ at(d, k) \in Nat
  BY <1>2, <1>6 DEF Out
<1>8. \A a \in Apps : phase[a] = "confirmed" => phase'[a] = "confirmed"
  BY <1>4 DEF TypeInv, TypeOK
<1>9. \A d \in Conns, k \in Nat, a \in Apps :
        IsOpened(d, k, a) => \/ phase'[a] = "confirmed"
                             \/ \E j \in Nat : at(d, j) = k /\ IsOpened(d, j, a)'
  <2> SUFFICES ASSUME NEW d \in Conns, NEW k \in Nat, NEW a \in Apps, IsOpened(d, k, a)
      PROVE  \/ phase'[a] = "confirmed"
             \/ \E j \in Nat : at(d, j) = k /\ IsOpened(d, j, a)'
    OBVIOUS
  <2>1. CASE d # c
    BY <1>6, <2>1 DEF IsOpened, Out
  <2>2. CASE d = c /\ k = 1
    <3>1. p.type = "Opened" /\ p.app = a
      BY <1>2, <2>2 DEF IsOpened
    <3> QED BY <1>4, <3>1 DEF TypeInv, TypeOK
  <2>3. CASE d = c /\ k # 1
    <3>1. k - 1 \in Nat /\ k - 1 \in 1 .. Len(t) /\ k - 1 + 1 = k
      BY <1>2, <2>3 DEF IsOpened, Out
    <3>2. t[k - 1] = outbox[c][k]
      BY <1>2, <3>1
    <3>3. PICK j \in Nat : j + 1 = k /\ j \in 1 .. Len(t) /\ t[j] = outbox[c][k]
      BY <3>1, <3>2
    <3>4. IsOpened(d, j, a)'
      BY <1>6, <2>3, <3>3 DEF IsOpened, Out
    <3> QED BY <2>3, <3>3, <3>4
  <2> QED BY <2>1, <2>2, <2>3
<1>10. \A d \in Conns, j, k \in Nat : at(d, j) < at(d, k) => j < k
  OBVIOUS
<1> HIDE DEF at
<1>11. Spoken'
  BY <1>5, <1>7 DEF SpeechInv, Spoken
<1>12. Told'
  <2> SUFFICES ASSUME NEW a \in Apps, apc[a] # "idle", NEW w, w = writer[a]
      PROVE  \/ phase'[a] = "confirmed" \/ net[w] = "lost" \/ wshut[w]
             \/ \E k \in Nat : IsOpened(w, k, a)'
    BY <1>5 DEF Told, IsOpened, Out
  <2>1. w \in Conns
    BY DEF TypeInv, Placed
  <2> QED BY <1>8, <1>9, <2>1 DEF SpeechInv, Told
<1>13. ToldFirst'
  <2> SUFFICES ASSUME NEW d \in Conns, NEW k \in Nat, Out(d, k)',
                      outbox'[d][k].type \in {"Regular", "Close"},
                      NEW b, b = outbox'[d][k].app
      PROVE  phase'[b] = "confirmed" \/ \E j \in Nat : j < k /\ IsOpened(d, j, b)'
    BY DEF ToldFirst, IsOpened
  <2>1. Out(d, at(d, k)) /\ outbox'[d][k] = outbox[d][at(d, k)] /\ at(d, k) \in Nat
    BY <1>7
  <2>2. b \in Apps /\ (phase[b] = "confirmed"
                         \/ \E j \in Nat : j < at(d, k) /\ IsOpened(d, j, b))
    BY <2>1 DEF SpeechInv, Spoken, ToldFirst
  <2> QED BY <1>8, <1>9, <1>10, <2>2
<1> QED BY <1>11, <1>12, <1>13 DEF SpeechInv

(* What was written to a connection that is lost does not arrive.          *)
LEMMA LostSpeech ==
  ASSUME LinkInv, SpeechInv, NEW c \in Conns, SrvGone(c) \/ KernelTimeout(c)
  PROVE  SpeechInv'
<1> USE DEF LinkInv
<1>1. /\ outbox' = [outbox EXCEPT ![c] = <<>>] /\ net' = [net EXCEPT ![c] = "lost"]
      /\ UNCHANGED <<wshut, apc, writer, phase>>
  BY DEF SrvGone, KernelTimeout, client, appTask, serverEnd
<1>2. \A d \in Conns : /\ outbox'[d] = IF d = c THEN <<>> ELSE outbox[d]
                       /\ net'[d] = IF d = c THEN "lost" ELSE net[d]
  BY <1>1 DEF TypeInv, TypeOK, ClientTypeOK, Chan!WireTypeOK
<1>3. \A d \in Conns, k \in Nat : Out(d, k)' => d # c
  BY <1>2 DEF Out
<1>4. \A d \in Conns, k \in Nat, a \in Apps : d # c => (IsOpened(d, k, a) <=> IsOpened(d, k, a)')
  BY <1>2 DEF IsOpened, Out
<1>5. Spoken'
  BY <1>1, <1>2, <1>3 DEF SpeechInv, Spoken, Out
<1>6. Told'
  <2> SUFFICES ASSUME NEW a \in Apps, apc[a] # "idle", NEW w, w = writer[a]
      PROVE  \/ phase[a] = "confirmed" \/ net'[w] = "lost" \/ wshut[w]
             \/ \E k \in Nat : IsOpened(w, k, a)'
    BY <1>1 DEF Told, IsOpened, Out
  <2>1. w \in Conns
    BY DEF TypeInv, Placed
  <2> QED BY <1>2, <1>4, <2>1 DEF SpeechInv, Told
<1>7. ToldFirst'
  <2> SUFFICES ASSUME NEW d \in Conns, NEW k \in Nat, Out(d, k)',
                      outbox'[d][k].type \in {"Regular", "Close"},
                      NEW b, b = outbox'[d][k].app
      PROVE  phase[b] = "confirmed" \/ \E j \in Nat : j < k /\ IsOpened(d, j, b)'
    BY <1>1 DEF ToldFirst, IsOpened
  <2>1. d # c /\ Out(d, k) /\ outbox[d][k] = outbox'[d][k]
    BY <1>2, <1>3 DEF Out
  <2>2. b \in Apps
    BY <2>1 DEF SpeechInv, Spoken
  <2> QED BY <1>4, <2>1, <2>2 DEF SpeechInv, ToldFirst
<1> QED BY <1>5, <1>6, <1>7 DEF SpeechInv

LEMMA ServerSpeech ==
  ASSUME LinkInv, SpeechInv, NEW c \in Conns, ServerStep(c)
  PROVE  SpeechInv'
<1> USE DEF LinkInv
<1>1. CASE SrvRead(c) \/ SrvGone(c) \/ KernelTimeout(c)
  BY <1>1, ReadSpeech, LostSpeech
<1>2. CASE SrvPing(c) \/ SrvSilent(c) \/ (\E a \in Apps : SrvOpen(c, a))
             \/ \E l \in srvLinks[c] : SrvData(c, l) \/ SrvClose(c, l)
  <2>1. UNCHANGED <<outbox, wshut, apc, writer>>
    BY <1>2 DEF SrvPing, SrvSilent, SrvOpen, SrvData, SrvClose, client, appTask
  <2>2. \A d \in Conns : net[d] = "lost" => net'[d] = "lost"
    BY <1>2 DEF SrvPing, SrvSilent, SrvOpen, SrvData, SrvClose, TypeInv, TypeOK, ClientTypeOK,
                Chan!WireTypeOK
  <2>3. \A a \in Apps : phase[a] = "confirmed" => phase'[a] = "confirmed"
    BY <1>2 DEF SrvPing, SrvSilent, SrvOpen, SrvData, SrvClose, TypeInv, TypeOK, serverEnd
  <2>4. Steady
    BY <2>1, <2>2, <2>3 DEF Steady
  <2> QED BY <2>1, <2>4, QuietSpeech
<1> QED BY <1>1, <1>2 DEF ServerStep

LEMMA InitSpeech == Init => SpeechInv
BY DEF Init, ClientInit, Chan!WireInit, SpeechInv, Spoken, Told, ToldFirst, Out

LEMMA NextSpeech == LinkInv /\ SpeechInv /\ [Next]_vars => SpeechInv'
<1> SUFFICES ASSUME LinkInv, SpeechInv, [Next]_vars PROVE SpeechInv'
  OBVIOUS
<1>1. CASE Stopped \/ UNCHANGED vars \/ \E a \in Apps : AppWrite(a) \/ AppClose(a)
  <2>1. UNCHANGED <<outbox, net, wshut, apc, writer, phase>>
    BY <1>1 DEF Stopped, vars, AppWrite, AppClose, client, wire, appTask, serverEnd
  <2>2. Steady
    BY <2>1 DEF Steady
  <2> QED BY <2>1, <2>2, QuietSpeech DEF LinkInv
<1> QED BY <1>1, RunSpeech, AppSpeech, ProcessSpeech, ServerSpeech
        DEF Next, ClientStep, Command, Signal, PingStep, LinkStep

LEMMA SpeechInvariant == Spec => []SpeechInv
BY LinkInvariant, InitSpeech, NextSpeech, PTL DEF Spec

(* app_exchange outlives its connection and speaks on no other, however    *)
(* often the client has connected again.                                   *)
THEOREM OwnConnectionTheorem == Spec => []OwnConnectionOnly
<1>1. SpeechInv => OwnConnectionOnly
  BY DEF SpeechInv, Spoken, Out, OwnConnectionOnly
<1> QED BY <1>1, SpeechInvariant, PTL

(* The server has Opened, or has it before it in the stream, when it gets  *)
(* data or Close of a link.                                                *)
THEOREM OpenedFirstTheorem == Spec => []OpenedFirst
<1>1. ASSUME SpeechInv, NEW c \in Conns, NEW k \in 1 .. Len(outbox[c]),
             outbox[c][k].type \in {"Regular", "Close"}
      PROVE  \/ phase[outbox[c][k].app] = "confirmed"
             \/ \E j \in 1 .. k - 1 : /\ outbox[c][j].type = "Opened"
                                      /\ outbox[c][j].app = outbox[c][k].app
  BY <1>1 DEF SpeechInv, ToldFirst, IsOpened, Out
<1>2. SpeechInv => OpenedFirst
  BY <1>1 DEF OpenedFirst
<1> QED BY <1>2, SpeechInvariant, PTL
-----------------------------------------------------------------------------
(* One connection at a time. *)

(* The client closes a connection, or has seen it closed, before it makes  *)
(* the next.                                                               *)
OneUp ==
  \A c \in Conns : net[c] \in {"up", "silent", "stalled"} =>
    c = conn /\ mpc \notin {"connect", "sleep", "closeall", "forget", "waiting"}

LEMMA WriteOneUp ==
  ASSUME TypeInv, OneUp, NEW c \in Conns, NEW p, Chan!WriteOk(c, p) \/ Chan!WriteErr(c),
         conn' = conn,
         mpc' \notin {"connect", "sleep", "closeall", "forget", "waiting"} \/ mpc' = mpc
  PROVE  OneUp'
<1>1. \A d \in Conns : net'[d] = net[d] \/ (net[d] = "silent" /\ net'[d] = "stalled")
  BY WriteEffect DEF Appended, Dropped, TypeInv, TypeOK, ClientTypeOK, Chan!WireTypeOK
<1> QED BY <1>1 DEF OneUp

LEMMA RunOneUp ==
  ASSUME TypeInv, OneUp, RunStep
  PROVE  OneUp'
<1>1. CASE \E c \in Conns : ConnectGateway(c)
  BY <1>1 DEF ConnectGateway, OneUp, TypeInv, TypeOK, ClientTypeOK, Chan!WireTypeOK
<1>2. CASE DiscardWriter
  BY <1>2 DEF DiscardWriter, OneUp, TypeInv, TypeOK, ClientTypeOK, Chan!WireTypeOK
<1>3. CASE ConnectFail \/ Retry \/ StoreWriter \/ SetProcessing \/ AuthOk \/ AuthFail
             \/ SetConnected \/ ReadEnd
  BY <1>3 DEF ConnectFail, Retry, StoreWriter, SetProcessing, AuthOk, AuthFail, SetConnected,
              ReadEnd, wire, OneUp
<1>4. CASE ReadPacket
  <2>1. mpc' \notin {"connect", "sleep", "closeall", "forget", "waiting"}
        /\ UNCHANGED <<net, conn>>
    BY <1>4 DEF ReadPacket, Dispatch
  <2> QED BY <2>1 DEF OneUp
<1>5. CASE SendPong \/ SendOpenFail \/ SendOpened
  <2>1. conn \in Conns
    BY <1>5 DEF SendPong, SendOpenFail, SendOpened, TypeInv, Placed
  <2>2. PICK p : Chan!WriteOk(conn, p) \/ Chan!WriteErr(conn)
    BY <1>5 DEF SendPong, SendOpenFail, SendOpened, Answer
  <2>3. conn' = conn /\ mpc' = "loop"
    BY <1>5 DEF SendPong, SendOpenFail, SendOpened
  <2> QED BY <2>1, <2>2, <2>3, WriteOneUp
<1>6. CASE Dial \/ DialFail \/ AddLink \/ ConfirmLink \/ Unlink \/ ShutLink \/ Forward
  BY <1>6 DEF Dial, DialFail, AddLink, ConfirmLink, Unlink, ShutLink, Forward, wire, OneUp
<1>7. CASE CloseLinks \/ ForgetWriter \/ SetWaiting
  BY <1>7 DEF CloseLinks, ForgetWriter, SetWaiting, wire, OneUp
<1> QED BY <1>1, <1>2, <1>3, <1>4, <1>5, <1>6, <1>7 DEF RunStep

LEMMA NextOneUp == TypeInv /\ OneUp /\ [Next]_vars => OneUp'
<1> SUFFICES ASSUME TypeInv, OneUp, [Next]_vars PROVE OneUp'
  OBVIOUS
<1>1. CASE ClientStep
  BY <1>1, RunOneUp DEF ClientStep
<1>2. CASE \E a \in Apps : LinkStep(a)
  <2>1. PICK a \in Apps : AppStep(a)
    BY <1>2 DEF LinkStep
  <2>2. UNCHANGED <<mpc, conn>> /\ writer[a] \in Conns
    BY <2>1, AppFrame DEF runTask, TypeInv, Placed
  <2>3. net' = net \/ \E p : Chan!WriteOk(writer[a], p) \/ Chan!WriteErr(writer[a])
    BY <2>1 DEF AppStep, ReadApp, ReadAppEnd, SendData, SendClose, Answer, RemoveLink, wire
  <2> QED BY <2>2, <2>3, WriteOneUp DEF OneUp
<1>3. CASE Command \/ Signal \/ \E c \in Conns : PingStep(c)
  <2>1. UNCHANGED <<mpc, conn>>
    BY <1>3, ProcessFrame DEF Command, Signal, PingStep, runTask
  <2>2. net' = net \/ \E c \in Conns, p \in {Chan!ControlPacket("Ping")} :
                        Chan!WriteOk(c, p) \/ Chan!WriteErr(c)
    BY <1>3 DEF Command, ManualPing, Answer, Signal, ShutdownStep, BeginShutdown, TakeWriter,
                Exit, PingStep, PingTick, wire, TypeInv, TypeOK, ClientTypeOK
  <2> QED BY <2>1, <2>2, WriteOneUp DEF OneUp
<1>4. CASE \E c \in Conns : ServerStep(c)
  <2>1. UNCHANGED <<mpc, conn>>
    BY <1>4 DEF ServerStep, SrvRead, SrvPing, SrvGone, SrvSilent, KernelTimeout, SrvOpen,
                SrvData, SrvClose, client, runTask
  <2>2. \A d \in Conns : net'[d] = net[d] \/ net'[d] = "lost" \/ net[d] = "up"
    BY <1>4 DEF ServerStep, SrvRead, SrvPing, SrvGone, SrvSilent, KernelTimeout, SrvOpen,
                SrvData, SrvClose, TypeInv, TypeOK, ClientTypeOK, Chan!WireTypeOK
  <2> QED BY <2>1, <2>2 DEF OneUp
<1>5. CASE Stopped \/ UNCHANGED vars \/ \E a \in Apps : AppWrite(a) \/ AppClose(a)
  BY <1>5 DEF Stopped, vars, AppWrite, AppClose, client, wire, runTask, OneUp
<1> QED BY <1>1, <1>2, <1>3, <1>4, <1>5 DEF Next
-----------------------------------------------------------------------------
(* Numbers and the connections they are for. *)

(* 65535 application connections at the server while the client runs, in   *)
(* the code.                                                               *)
EnoughIds == IsFiniteSet(Apps) /\ Cardinality(Apps) < LinkIdWidth

(* Connection c says or said that number i is for b: in a packet on its    *)
(* way, in the one that run handles, at the server, or in the link that    *)
(* was made.                                                               *)
HandlingPc == {"dial", "add", "confirm", "opened", "openfail", "unlink", "shut", "forward"}
InQueue(c, i, b) ==
  \E k \in Nat : /\ k \in 1 .. Len(inbox[c])
                 /\ inbox[c][k].type \in {"Open", "Regular", "Close"}
                 /\ inbox[c][k].link = i /\ inbox[c][k].app = b
Handled(c, i, b)  == c = conn /\ mpc \in HandlingPc /\ pkt.link = i /\ pkt.app = b
AtServer(c, i, b) == <<i, b>> \in srvLinks[c]
Linked(c, i, b)   == b \in Apps /\ writer[b] = c /\ linkId[b] = i
Names(c, i, b) == InQueue(c, i, b) \/ Handled(c, i, b) \/ AtServer(c, i, b) \/ Linked(c, i, b)

(* On one connection a number is for one application connection.  A server *)
(* that restarts numbers from 1 again, but on a connection without names.  *)
NamesDistinct ==
  \A c \in Conns : \A i, a, b : Names(c, i, a) /\ Names(c, i, b) => a = b
NamesBelow ==
  \A c \in Conns : \A i, b : Names(c, i, b) =>
    /\ net[c] # "none" /\ i \in Nat
    /\ net[c] = "up" => i > 0 /\ (nextId # 0 => i < nextId)

(* The counter has not come round.                                         *)
Announced == {a \in Apps : phase[a] # "new"}
Counted ==
  /\ nextId = 0 => Announced = Apps
  /\ nextId <= Cardinality(Announced) + 1

IdInv == NamesDistinct /\ NamesBelow /\ Counted

(* A step that brings no new name keeps them apart.                        *)
NoNewName == \A c \in Conns : \A i, b : Names(c, i, b)' => Names(c, i, b)

LEMMA QuietIds ==
  ASSUME EnoughIds, TypeInv, TypeInv', IdInv, NoNewName,
         \A a \in Apps : phase'[a] = "new" => phase[a] = "new",
         nextId' \in {nextId, 1},
         \A c \in Conns : net'[c] = "none" => net[c] = "none",
         \A c \in Conns : net'[c] = "up" =>
           net[c] = "none" \/ (net[c] = "up" /\ nextId' = nextId)
  PROVE  IdInv'
<1>1. NamesDistinct'
  BY DEF IdInv, NamesDistinct, NoNewName
<1>2. NamesBelow'
  BY DEF IdInv, NamesBelow, NoNewName
<1>3. Announced \subseteq Announced' /\ Announced' \subseteq Apps
  BY DEF Announced
<1>4. IsFiniteSet(Announced') /\ IsFiniteSet(Announced)
  BY <1>3, FS_Subset DEF EnoughIds
<1>5. Cardinality(Announced) <= Cardinality(Announced')
      /\ Cardinality(Announced) \in Nat /\ Cardinality(Announced') \in Nat
  BY <1>3, <1>4, FS_Subset, FS_CardinalityType
<1>6. nextId \in Nat
  BY DEF TypeInv, TypeOK, Chan!LinkId
<1>7. Counted'
  <2>1. nextId = 0 => Announced' = Apps
    BY <1>3 DEF IdInv, Counted
  <2> QED BY <1>5, <1>6, <2>1 DEF IdInv, Counted
<1> QED BY <1>1, <1>2, <1>7 DEF IdInv

(* Open brings one name, with a number that nothing on c has.              *)
LEMMA OpenIds ==
  ASSUME EnoughIds, TypeInv, IdInv, NEW c \in Conns, NEW a \in Apps,
         phase[a] = "new", phase' = [phase EXCEPT ![a] = "opened"],
         nextId' = (nextId + 1) % LinkIdWidth, net' = net, net[c] = "up",
         \A d \in Conns : net[d] = "up" => d = c,
         \A d \in Conns : \A i, b : Names(d, i, b)' =>
           Names(d, i, b) \/ (d = c /\ i = nextId /\ b = a)
  PROVE  IdInv'
<1>1. Announced' = Announced \cup {a} /\ a \notin Announced /\ Announced \subseteq Apps
  BY DEF Announced, TypeInv, TypeOK
<1>2. IsFiniteSet(Announced) /\ Cardinality(Announced) \in Nat
  BY <1>1, FS_Subset, FS_CardinalityType DEF EnoughIds
<1>3. Cardinality(Announced') = Cardinality(Announced) + 1
  BY <1>1, <1>2, FS_AddElement
<1>4. Announced' \subseteq Apps /\ IsFiniteSet(Announced')
  BY <1>1, <1>2, FS_AddElement
<1>5. /\ Cardinality(Announced') <= Cardinality(Apps)
      /\ Cardinality(Announced') = Cardinality(Apps) => Announced' = Apps
      /\ Cardinality(Apps) \in Nat /\ Cardinality(Apps) < LinkIdWidth
  BY <1>4, FS_Subset, FS_CardinalityType DEF EnoughIds
<1>6. nextId \in 1 .. LinkIdWidth - 1 /\ nextId <= Cardinality(Announced) + 1
  BY <1>1, ClientWidthAssumption DEF IdInv, Counted, TypeInv, TypeOK, Chan!LinkId
<1>7. CASE nextId + 1 < LinkIdWidth
  <2>1. nextId' = nextId + 1
    BY <1>6, <1>7, ClientWidthAssumption
  <2>2. Counted'
    BY <1>2, <1>3, <1>6, <2>1 DEF Counted
  <2>3. NamesBelow'
    BY <1>6, <2>1 DEF IdInv, NamesBelow
  <2>4. NamesDistinct'
    BY <1>6 DEF IdInv, NamesDistinct, NamesBelow
  <2> QED BY <2>2, <2>3, <2>4 DEF IdInv
<1>8. CASE nextId + 1 = LinkIdWidth
  <2>1. nextId' = 0
    BY <1>6, <1>8, ClientWidthAssumption
  <2>2. Announced' = Apps
    BY <1>2, <1>3, <1>5, <1>6, <1>8, ClientWidthAssumption
  <2>3. Counted'
    BY <1>2, <1>3, <2>1, <2>2 DEF Counted
  <2>4. NamesBelow'
    BY <1>6, <2>1 DEF IdInv, NamesBelow
  <2>5. NamesDistinct'
    BY <1>6 DEF IdInv, NamesDistinct, NamesBelow
  <2> QED BY <2>3, <2>4, <2>5 DEF IdInv
<1> QED BY <1>6, <1>7, <1>8, ClientWidthAssumption
(* The task of run: ReadPacket moves a name from the queue to the packet   *)
(* it handles, Dial from there to the link.                                *)
LEMMA RunNames ==
  ASSUME TypeInv, RunStep, UNCHANGED serverEnd
  PROVE  NoNewName
<1> SUFFICES ASSUME NEW c \in Conns, NEW i, NEW b, Names(c, i, b)' PROVE Names(c, i, b)
  BY DEF NoNewName
<1>1. AtServer(c, i, b)' => AtServer(c, i, b)
  BY DEF AtServer, serverEnd
<1>2. CASE ReadPacket
  <2>1. conn \in Conns /\ inbox[conn] \in Seq(Chan!Packet) /\ inbox[conn] # <<>>
    BY <1>2 DEF ReadPacket, TypeInv, Placed, TypeOK, ClientTypeOK, Chan!WireTypeOK
  <2> DEFINE t == Tail(inbox[conn])
  <2>2. inbox'[c] = IF c = conn THEN t ELSE inbox[c]
    BY <1>2 DEF ReadPacket, TypeInv, TypeOK, ClientTypeOK, Chan!WireTypeOK
  <2>3. /\ pkt' = inbox[conn][1] /\ 1 \in 1 .. Len(inbox[conn])
        /\ \A k \in 1 .. Len(t) : k + 1 \in 1 .. Len(inbox[conn]) /\ t[k] = inbox[conn][k + 1]
    BY <1>2, <2>1, TailAt DEF ReadPacket
  <2> HIDE DEF t
  <2>4. InQueue(c, i, b)' => InQueue(c, i, b)
    <3> SUFFICES ASSUME InQueue(c, i, b)' PROVE InQueue(c, i, b)
      OBVIOUS
    <3>1. PICK k \in Nat : /\ k \in 1 .. Len(inbox'[c])
                           /\ inbox'[c][k].type \in {"Open", "Regular", "Close"}
                           /\ inbox'[c][k].link = i /\ inbox'[c][k].app = b
      BY DEF InQueue
    <3>2. CASE c = conn
      <4>1. k + 1 \in Nat /\ k + 1 \in 1 .. Len(inbox[c]) /\ inbox'[c][k] = inbox[c][k + 1]
        BY <2>2, <2>3, <3>1, <3>2
      <4> QED BY <3>1, <4>1 DEF InQueue
    <3>3. CASE c # conn
      BY <2>2, <3>1, <3>3 DEF InQueue
    <3> QED BY <3>2, <3>3
  <2>5. Handled(c, i, b)' => InQueue(c, i, b)
    <3> SUFFICES ASSUME Handled(c, i, b)' PROVE InQueue(c, i, b)
      OBVIOUS
    <3>1. c = conn /\ pkt'.type \in {"Open", "Regular", "Close"}
      BY <1>2 DEF ReadPacket, Dispatch, Handled, HandlingPc
    <3> QED BY <2>3, <3>1 DEF InQueue, Handled
  <2>6. Linked(c, i, b)' => Linked(c, i, b)
    BY <1>2 DEF ReadPacket, Linked, appTask
  <2> QED BY <1>1, <2>4, <2>5, <2>6 DEF Names
<1>3. CASE Dial
  <2>1. InQueue(c, i, b)' => InQueue(c, i, b)
    BY <1>3 DEF Dial, InQueue, wire
  <2>2. Handled(c, i, b)' => Handled(c, i, b)
    BY <1>3 DEF Dial, Handled, HandlingPc
  <2>3. Linked(c, i, b)' => Linked(c, i, b) \/ Handled(c, i, b)
    BY <1>3 DEF Dial, Linked, Handled, HandlingPc, TypeInv, TypeOK, ClientTypeOK
  <2> QED BY <1>1, <2>1, <2>2, <2>3 DEF Names
<1>4. CASE ~(ReadPacket \/ Dial)
  <2>1. UNCHANGED <<inbox, linkId, writer>>
    BY <1>4, RunSteps DEF DialQuiet, AddLink, ConfirmLink, SendOpened, wire, appTask, Answer,
                          Chan!WriteOk, Chan!WriteErr, Chan!wire
  <2>2. InQueue(c, i, b)' => InQueue(c, i, b)
    BY <2>1 DEF InQueue
  <2>3. Linked(c, i, b)' => Linked(c, i, b)
    BY <2>1 DEF Linked
  <2>4. mpc' \in HandlingPc => mpc \in HandlingPc /\ UNCHANGED <<conn, pkt>>
    <3>1. CASE (\E d \in Conns : ConnectGateway(d)) \/ ConnectFail \/ Retry \/ StoreWriter
                 \/ SetProcessing \/ AuthOk \/ AuthFail \/ DiscardWriter \/ SetConnected
                 \/ ReadEnd
      BY <3>1 DEF ConnectGateway, ConnectFail, Retry, StoreWriter, SetProcessing, AuthOk,
                  AuthFail, DiscardWriter, SetConnected, ReadEnd, HandlingPc
    <3>2. CASE SendPong \/ SendOpenFail \/ SendOpened \/ ShutLink \/ Forward \/ CloseLinks
                 \/ ForgetWriter \/ SetWaiting
      BY <3>2 DEF SendPong, SendOpenFail, SendOpened, ShutLink, Forward, CloseLinks,
                  ForgetWriter, SetWaiting, HandlingPc
    <3>3. CASE DialFail \/ AddLink \/ ConfirmLink \/ Unlink
      BY <3>3 DEF DialFail, AddLink, ConfirmLink, Unlink, HandlingPc
    <3> QED BY <1>4, <3>1, <3>2, <3>3 DEF RunStep
  <2>5. Handled(c, i, b)' => Handled(c, i, b)
    BY <2>4 DEF Handled
  <2> QED BY <1>1, <2>2, <2>3, <2>5 DEF Names
<1> QED BY <1>2, <1>3, <1>4

(* The server: data and Close have the number and the application          *)
(* connection of a link that it has open.                                  *)
LEMMA ServerNames ==
  ASSUME TypeInv, NEW c \in Conns, ServerStep(c), ~\E a \in Apps : SrvOpen(c, a)
  PROVE  NoNewName
<1> USE DEF TypeInv, TypeOK, ClientTypeOK, Chan!WireTypeOK
<1>1. UNCHANGED <<mpc, conn, pkt, linkId, writer>>
  BY DEF ServerStep, SrvRead, SrvPing, SrvGone, SrvSilent, KernelTimeout, SrvData, SrvClose,
         client, runTask, appTask
<1>2. \A d \in Conns : srvLinks'[d] \subseteq srvLinks[d]
  <2>1. CASE SrvRead(c)
    BY <2>1 DEF SrvRead
  <2>2. CASE SrvGone(c) \/ SrvSilent(c)
    BY <2>2 DEF SrvGone, SrvSilent
  <2>3. CASE SrvPing(c) \/ KernelTimeout(c) \/ \E l \in srvLinks[c] : SrvData(c, l)
    BY <2>3 DEF SrvPing, KernelTimeout, SrvData, serverEnd
  <2>4. CASE \E l \in srvLinks[c] : SrvClose(c, l)
    BY <2>4 DEF SrvClose
  <2> QED BY <2>1, <2>2, <2>3, <2>4 DEF ServerStep
<1>3. \A d \in Conns : inbox[d] \in Seq(Chan!Packet)
  OBVIOUS
<1>4. ASSUME NEW d \in Conns, NEW i, NEW b, InQueue(d, i, b)'
      PROVE  InQueue(d, i, b) \/ AtServer(d, i, b)
  <2>1. PICK k \in Nat : /\ k \in 1 .. Len(inbox'[d])
                         /\ inbox'[d][k].type \in {"Open", "Regular", "Close"}
                         /\ inbox'[d][k].link = i /\ inbox'[d][k].app = b
    BY <1>4 DEF InQueue
  <2>2. CASE inbox'[d] = inbox[d]
    BY <2>1, <2>2 DEF InQueue
  <2>3. CASE d = c /\ \E p \in Chan!Packet : inbox'[d] = Append(inbox[d], p)
                 /\ (\/ p.type \in {"Ping", "Pong"}
                     \/ \E l \in srvLinks[c] : p.link = l[1] /\ p.app = l[2])
    <3>1. PICK p \in Chan!Packet :
            /\ inbox'[d] = Append(inbox[d], p)
            /\ \/ p.type \in {"Ping", "Pong"}
               \/ \E l \in srvLinks[c] : p.link = l[1] /\ p.app = l[2]
      BY <2>3
    <3>2. /\ inbox'[d][k] = IF k = Len(inbox[d]) + 1 THEN p ELSE inbox[d][k]
          /\ k # Len(inbox[d]) + 1 => k \in 1 .. Len(inbox[d])
      BY <1>3, <2>1, <3>1, AppendAt
    <3>3. CASE k # Len(inbox[d]) + 1
      BY <2>1, <3>2, <3>3 DEF InQueue
    <3>4. CASE k = Len(inbox[d]) + 1
      <4>1. PICK l \in srvLinks[c] : i = l[1] /\ b = l[2]
        BY <2>1, <3>1, <3>2, <3>4
      <4>2. l = <<i, b>>
        BY <4>1
      <4> QED BY <2>3, <4>2 DEF AtServer
    <3> QED BY <3>3, <3>4
  <2>4. CASE d = c /\ \E n \in 0 .. Len(inbox[d]) : inbox'[d] = SubSeq(inbox[d], 1, n)
    <3>1. PICK n \in 0 .. Len(inbox[d]) : inbox'[d] = SubSeq(inbox[d], 1, n)
      BY <2>4
    <3>2. k \in 1 .. Len(inbox[d]) /\ inbox'[d][k] = inbox[d][k]
      BY <1>3, <2>1, <3>1, PrefixAt
    <3> QED BY <2>1, <3>2 DEF InQueue
  <2>5. CASE SrvRead(c) \/ SrvPing(c)
    <3>1. \A t \in {"Ping", "Pong"} :
            Chan!ControlPacket(t) \in Chan!Packet /\ Chan!ControlPacket(t).type = t
      BY PacketTyping DEF Chan!PacketType, Chan!ControlPacket
    <3>2. inbox' = inbox \/ \E t \in {"Ping", "Pong"} :
                              inbox' = [inbox EXCEPT ![c] = Append(@, Chan!ControlPacket(t))]
      BY <2>5 DEF SrvRead, SrvPing, Send
    <3> QED BY <2>2, <2>3, <3>1, <3>2
  <2>6. CASE \E l \in srvLinks[c] : SrvData(c, l) \/ SrvClose(c, l)
    <3>1. PICK l \in srvLinks[c], t \in {"Regular", "Close"} :
            inbox' = [inbox EXCEPT ![c] = Append(@, Chan!LinkPacket(t, l[1], l[2]))]
      BY <2>6 DEF SrvData, SrvClose, Send
    <3> DEFINE p == Chan!LinkPacket(t, l[1], l[2])
    <3>2. l[1] \in Chan!LinkId /\ l[2] \in Apps
      OBVIOUS
    <3>3. p \in Chan!Packet /\ p.link = l[1] /\ p.app = l[2]
      BY <3>2, PacketTyping DEF Chan!PacketType, Chan!LinkPacket
    <3>4. inbox' = [inbox EXCEPT ![c] = Append(@, p)]
      BY <3>1
    <3> HIDE DEF p
    <3>5. inbox'[d] = IF d = c THEN Append(inbox[d], p) ELSE inbox[d]
      BY <3>4
    <3> QED BY <2>2, <2>3, <3>3, <3>5
  <2>7. CASE SrvGone(c) \/ SrvSilent(c) \/ KernelTimeout(c)
    <3>1. inbox'[d] = inbox[d]
            \/ (d = c /\ \E n \in 0 .. Len(inbox[d]) : inbox'[d] = SubSeq(inbox[d], 1, n))
      <4>1. CASE SrvGone(c)
        <5>1. PICK n \in 0 .. Len(inbox[c]) : inbox' = [inbox EXCEPT ![c] = SubSeq(@, 1, n)]
          BY <4>1 DEF SrvGone
        <5>2. inbox'[d] = IF d = c THEN SubSeq(inbox[d], 1, n) ELSE inbox[d]
          BY <5>1
        <5> QED BY <5>2
      <4>2. CASE SrvSilent(c) \/ KernelTimeout(c)
        BY <4>2 DEF SrvSilent, KernelTimeout
      <4> QED BY <2>7, <4>1, <4>2
    <3> QED BY <2>2, <2>4, <3>1
  <2> QED BY <2>5, <2>6, <2>7 DEF ServerStep
<1>5. ASSUME NEW d \in Conns, NEW i, NEW b, Names(d, i, b)' PROVE Names(d, i, b)
  <2>1. Handled(d, i, b)' => Handled(d, i, b)
    BY <1>1 DEF Handled
  <2>2. AtServer(d, i, b)' => AtServer(d, i, b)
    BY <1>2 DEF AtServer
  <2>3. Linked(d, i, b)' => Linked(d, i, b)
    BY <1>1 DEF Linked
  <2> QED BY <1>4, <1>5, <2>1, <2>2, <2>3 DEF Names
<1> QED BY <1>5 DEF NoNewName
LEMMA NextIds ==
  ASSUME EnoughIds, TypeInv, TypeInv', OneUp, IdInv, [Next]_vars
  PROVE  IdInv'
<1>1. CASE ClientStep
  <2>1. NoNewName
    BY <1>1, RunNames DEF ClientStep
  <2>2. UNCHANGED <<nextId, phase>>
    BY <1>1 DEF ClientStep, serverEnd
  <2>3. \A c \in Conns : /\ net'[c] = "none" => net[c] = "none"
                         /\ net'[c] = "up" => net[c] \in {"none", "up"}
    <3> USE DEF TypeInv, TypeOK, ClientTypeOK, Chan!WireTypeOK
    <3>1. CASE \E c \in Conns : ConnectGateway(c)
      BY <3>1 DEF ConnectGateway
    <3>2. CASE DiscardWriter
      BY <3>2 DEF DiscardWriter
    <3>3. CASE SendPong \/ SendOpenFail \/ SendOpened
      <4>1. PICK p : Chan!WriteOk(conn, p) \/ Chan!WriteErr(conn)
        BY <3>3 DEF SendPong, SendOpenFail, SendOpened, Answer
      <4>2. net' = net \/ net' = [net EXCEPT ![conn] = IF @ = "silent" THEN "stalled" ELSE @]
        BY <4>1, WriteEffect DEF Appended, Dropped
      <4> QED BY <4>2
    <3>4. CASE ConnectFail \/ Retry \/ StoreWriter \/ SetProcessing \/ AuthOk \/ AuthFail
                 \/ SetConnected \/ ReadPacket \/ ReadEnd
      BY <3>4 DEF ConnectFail, Retry, StoreWriter, SetProcessing, AuthOk, AuthFail,
                  SetConnected, ReadPacket, ReadEnd, wire
    <3>5. CASE Dial \/ DialFail \/ AddLink \/ ConfirmLink \/ Unlink \/ ShutLink \/ Forward
                 \/ CloseLinks \/ ForgetWriter \/ SetWaiting
      BY <3>5 DEF Dial, DialFail, AddLink, ConfirmLink, Unlink, ShutLink, Forward, CloseLinks,
                  ForgetWriter, SetWaiting, wire
    <3> QED BY <1>1, <3>1, <3>2, <3>3, <3>4, <3>5 DEF ClientStep, RunStep
  <2> QED BY <2>1, <2>2, <2>3, QuietIds
<1>2. CASE (\E a \in Apps : LinkStep(a)) \/ Command \/ Signal \/ \E c \in Conns : PingStep(c)
  <2>1. UNCHANGED <<inbox, runTask, linkId, writer>>
    BY <1>2, AppFrame, ProcessFrame DEF LinkStep, Command, Signal, PingStep, appTask
  <2>2. UNCHANGED serverEnd
    BY <1>2 DEF LinkStep, Command, Signal, PingStep
  <2>3. NoNewName
    BY <2>1, <2>2 DEF NoNewName, Names, InQueue, Handled, AtServer, Linked, runTask, serverEnd
  <2>4. \A c \in Conns : /\ net'[c] = "none" => net[c] = "none"
                         /\ net'[c] = "up" => net[c] = "up"
    <3> USE DEF TypeInv, TypeOK, ClientTypeOK, Chan!WireTypeOK
    <3>1. net' = net \/ \E c, p : Chan!WriteOk(c, p) \/ Chan!WriteErr(c)
      <4>1. CASE Command \/ Signal \/ \E c \in Conns : PingStep(c)
        BY <4>1 DEF Command, ManualPing, Answer, Signal, ShutdownStep, BeginShutdown,
                    TakeWriter, Exit, PingStep, PingTick, wire
      <4>2. CASE \E a \in Apps : LinkStep(a)
        BY <4>2 DEF LinkStep, AppStep, ReadApp, ReadAppEnd, SendData, SendClose, Answer,
                    RemoveLink, wire
      <4> QED BY <1>2, <4>1, <4>2
    <3> QED BY <3>1, WriteEffect, ZenonT(60) DEF Appended, Dropped
  <2> QED BY <2>2, <2>3, <2>4, QuietIds DEF serverEnd
<1>3. ASSUME NEW c \in Conns, NEW a \in Apps, SrvOpen(c, a) PROVE IdInv'
  <2> USE DEF TypeInv, TypeOK, ClientTypeOK, Chan!WireTypeOK
  <2> DEFINE p == Chan!LinkPacket("Open", nextId, a)
  <2>1. p \in Chan!Packet /\ p.link = nextId /\ p.app = a
    BY PacketTyping DEF Chan!PacketType, Chan!LinkPacket
  <2>2. inbox' = [inbox EXCEPT ![c] = Append(@, p)] /\ net[c] = "up"
    BY <1>3 DEF SrvOpen, Send
  <2> HIDE DEF p
  <2>3. inbox[c] \in Seq(Chan!Packet)
    OBVIOUS
  <2>4. \A d \in Conns : inbox'[d] = IF d = c THEN Append(inbox[c], p) ELSE inbox[d]
    BY <2>2
  <2>5. ASSUME NEW d \in Conns, NEW i, NEW b, InQueue(d, i, b)'
        PROVE  InQueue(d, i, b) \/ (d = c /\ i = nextId /\ b = a)
    <3>1. PICK k \in Nat : /\ k \in 1 .. Len(inbox'[d])
                           /\ inbox'[d][k].type \in {"Open", "Regular", "Close"}
                           /\ inbox'[d][k].link = i /\ inbox'[d][k].app = b
      BY <2>5 DEF InQueue
    <3>2. CASE d # c
      BY <2>4, <3>1, <3>2 DEF InQueue
    <3>3. CASE d = c
      <4>1. /\ inbox'[d][k] = IF k = Len(inbox[c]) + 1 THEN p ELSE inbox[c][k]
            /\ k # Len(inbox[c]) + 1 => k \in 1 .. Len(inbox[c])
        <5>1. inbox'[d] = Append(inbox[c], p)
          BY <2>4, <3>3
        <5> QED BY <2>1, <2>3, <3>1, <5>1, AppendAt
      <4> QED BY <2>1, <3>1, <3>3, <4>1 DEF InQueue
    <3> QED BY <3>2, <3>3
  <2>6. ASSUME NEW d \in Conns, NEW i, NEW b, Names(d, i, b)'
        PROVE  Names(d, i, b) \/ (d = c /\ i = nextId /\ b = a)
    <3>1. Handled(d, i, b)' => Handled(d, i, b)
      BY <1>3 DEF SrvOpen, client, runTask, Handled
    <3>2. Linked(d, i, b)' => Linked(d, i, b)
      BY <1>3 DEF SrvOpen, client, appTask, Linked
    <3>3. srvLinks'[d] = IF d = c THEN srvLinks[c] \cup {<<nextId, a>>} ELSE srvLinks[d]
      BY <1>3 DEF SrvOpen
    <3>4. AtServer(d, i, b)' => AtServer(d, i, b) \/ (d = c /\ i = nextId /\ b = a)
      BY <3>3 DEF AtServer
    <3> QED BY <2>5, <2>6, <3>1, <3>2, <3>4 DEF Names
  <2>7. \A d \in Conns : net[d] = "up" => d = c
    BY <2>2 DEF OneUp
  <2>8. phase[a] = "new" /\ phase' = [phase EXCEPT ![a] = "opened"]
        /\ nextId' = (nextId + 1) % LinkIdWidth /\ net' = net
    BY <1>3 DEF SrvOpen
  <2> HIDE DEF TypeInv, TypeOK, ClientTypeOK, Chan!WireTypeOK
  <2> QED BY <2>2, <2>6, <2>7, <2>8, OpenIds
<1>4. ASSUME NEW c \in Conns, ServerStep(c), ~\E a \in Apps : SrvOpen(c, a) PROVE IdInv'
  <2>1. NoNewName
    BY <1>4, ServerNames
  <2>2. \A a \in Apps : phase'[a] = "new" => phase[a] = "new"
    BY <1>4 DEF ServerStep, SrvRead, SrvPing, SrvGone, SrvSilent, KernelTimeout, SrvData,
                SrvClose, serverEnd, TypeInv, TypeOK
  <2>3. nextId' \in {nextId, 1} /\ (nextId' = nextId \/ SrvGone(c))
    BY <1>4 DEF ServerStep, SrvRead, SrvPing, SrvGone, SrvSilent, KernelTimeout, SrvData,
                SrvClose, serverEnd
  <2>4. \A d \in Conns : /\ net'[d] = "none" => net[d] = "none"
                         /\ net'[d] = "up" => net[d] = "up"
                         /\ SrvGone(c) => net'[d] # "up"
    <3> USE DEF TypeInv, TypeOK, ClientTypeOK, Chan!WireTypeOK
    <3>1. CASE SrvGone(c)
      BY <3>1 DEF SrvGone, OneUp
    <3>2. CASE SrvSilent(c) /\ ~SrvGone(c)
      BY <3>2 DEF SrvSilent
    <3>3. CASE KernelTimeout(c) /\ ~SrvGone(c)
      BY <3>3 DEF KernelTimeout
    <3>4. CASE net' = net /\ ~SrvGone(c)
      BY <3>4
    <3> QED BY <1>4, <3>1, <3>2, <3>3, <3>4 DEF ServerStep, SrvRead, SrvPing, SrvData, SrvClose
  <2> QED BY <2>1, <2>2, <2>3, <2>4, QuietIds
<1>5. CASE Stopped \/ UNCHANGED vars \/ \E a \in Apps : AppWrite(a) \/ AppClose(a)
  <2>1. UNCHANGED <<inbox, net, mpc, conn, pkt, linkId, writer, serverEnd>>
    BY <1>5 DEF Stopped, vars, AppWrite, AppClose, client, wire, runTask, appTask
  <2>2. NoNewName
    BY <2>1 DEF NoNewName, Names, InQueue, Handled, AtServer, Linked, serverEnd
  <2> QED BY <2>1, <2>2, QuietIds DEF serverEnd
<1> QED BY <1>1, <1>2, <1>3, <1>4, <1>5 DEF Next

(* What forward_to_app delivers has the number that the link has on the    *)
(* same connection.                                                        *)
LEMMA NextForeign ==
  ASSUME LinkInv, IdInv, NoForeignData, [Next]_vars
  PROVE  NoForeignData'
<1>1. CASE RunStep /\ Forward
  <2> DEFINE a == links[pkt.link]
  <2>1. pkt.link \in Chan!LinkId /\ conn \in Conns
    BY <1>1, PacketTyping DEF Forward, LinkInv, TypeInv, Placed, TypeOK, ClientTypeOK
  <2>2. ASSUME a # NoApp PROVE pkt.app = a
    <3>1. Names(conn, pkt.link, pkt.app)
      BY <1>1 DEF Forward, Names, Handled, HandlingPc
    <3>2. Linked(conn, pkt.link, a)
      BY <2>1, <2>2 DEF LinkInv, RegistryInv, RegistryCurrent, Linked, TypeInv, TypeOK,
                        ClientTypeOK
    <3> QED BY <2>1, <3>1, <3>2 DEF IdInv, NamesDistinct, Names
  <2> QED BY <1>1, <2>2 DEF Forward, NoForeignData, LinkInv, TypeInv, TypeOK, ClientTypeOK
<1>2. ASSUME foreign' = foreign PROVE NoForeignData'
  BY <1>2 DEF NoForeignData
<1>3. CASE ClientStep /\ ~Forward
  BY <1>2, <1>3 DEF ClientStep, RunStep, ConnectGateway, ConnectFail, Retry, StoreWriter,
     SetProcessing, AuthOk, AuthFail, DiscardWriter, SetConnected, ReadPacket, ReadEnd,
     SendPong, Dial, DialFail, SendOpenFail, AddLink, ConfirmLink, SendOpened, Unlink,
     ShutLink, CloseLinks, ForgetWriter, SetWaiting, appSock
<1>4. CASE Command \/ Signal \/ Stopped \/ UNCHANGED vars \/ \E c \in Conns : PingStep(c)
  BY <1>2, <1>4 DEF Command, ManualPing, Signal, ShutdownStep, BeginShutdown, TakeWriter,
     Exit, Stopped, vars, PingStep, PingTick, appSock
<1>5. CASE \E c \in Conns : ServerStep(c)
  BY <1>2, <1>5 DEF ServerStep, SrvRead, SrvPing, SrvGone, SrvSilent, KernelTimeout, SrvOpen,
     SrvData, SrvClose, appSock
<1>6. CASE \E a \in Apps : LinkStep(a) \/ AppWrite(a) \/ AppClose(a)
  BY <1>2, <1>6 DEF LinkStep, AppStep, ReadApp, ReadAppEnd, SendData, SendClose, RemoveLink,
     AppWrite, AppClose, appSock
<1> QED BY <1>1, <1>3, <1>4, <1>5, <1>6 DEF Next, ClientStep

LEMMA InitIds == ASSUME EnoughIds, Init PROVE OneUp /\ IdInv /\ NoForeignData
<1>1. OneUp /\ NoForeignData
  BY DEF Init, ClientInit, Chan!WireInit, OneUp, NoForeignData
<1>2. \A c \in Conns : \A i, b : ~Names(c, i, b)
  BY ClientNoConnAssumption DEF Init, ClientInit, Chan!WireInit, Names, InQueue, Handled,
     HandlingPc, AtServer, Linked
<1>3. IsFiniteSet(Announced) /\ Cardinality(Announced) \in Nat
  BY FS_Subset, FS_CardinalityType DEF EnoughIds, Announced
<1>4. Counted
  BY <1>3 DEF Init, Counted
<1> QED BY <1>1, <1>2, <1>4 DEF IdInv, NamesDistinct, NamesBelow

(* Data of a connection at the server reaches the application connection   *)
(* dialled for it and no other, over reconnections and restarts of the     *)
(* server that numbers links from 1 again.                                 *)
THEOREM DeliveredTheorem == ASSUME EnoughIds PROVE Spec => []NoForeignData
<1> DEFINE Inv == LinkInv /\ OneUp /\ IdInv /\ NoForeignData
<1>1. Init => Inv
  BY InitLinks, InitIds
<1>2. Inv /\ [Next]_vars => Inv'
  <2> SUFFICES ASSUME Inv, [Next]_vars PROVE Inv'
    OBVIOUS
  <2>1. LinkInv' /\ NoForeignData'
    BY NextLinks, NextForeign
  <2>2. TypeInv /\ TypeInv'
    BY <2>1 DEF LinkInv
  <2>3. OneUp' /\ IdInv'
    BY <2>2, NextOneUp, NextIds
  <2> QED BY <2>1, <2>3
<1>3. Inv => NoForeignData
  OBVIOUS
<1> QED BY <1>1, <1>2, <1>3, PTL DEF Spec

=============================================================================
