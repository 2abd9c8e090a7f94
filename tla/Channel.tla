------------------------------- MODULE Channel -------------------------------
(***************************************************************************)
(* One connection between the gateways as a byte stream in each direction: *)
(* the challenge-response handshake, and on the same streams the exchange  *)
(* that follows it (mod.rs, send_gw_packet and read_gw_packet; server.rs,  *)
(* authenticate_client; client.rs, gw_authenticate).                       *)
(*                                                                         *)
(* A packet is written in two pieces, header and data, by tasks that share *)
(* the writer through a mutex, and read in two pieces by one task, which   *)
(* takes its buffers from a pool.  A connection may break, or fall silent, *)
(* between any two pieces.                                                 *)
(***************************************************************************)
EXTENDS Frame, SequencesExt

CONSTANTS
  Tasks,      \* tasks that send packets
  SideOf,     \* SideOf[t]: the gateway task t runs in
  Scripts,    \* functions that give each task the packets it sends
  Early,      \* tasks that may send as soon as there is a connection
  Loop,       \* Loop[s]: the exchange loop of s, as a task that sends
  Keys,       \* pairs of general.key, one for each gateway
  Majors,     \* pairs of protocol versions (major)
  PoolSize,   \* POOL_SIZE
  NONCE_SIZE, RESPONSE_SIZE   \* 32 and 32 in the code

Side     == {"srv", "cli"}
Other(s) == IF s = "srv" THEN "cli" ELSE "srv"

Free == "free"

(* Packets that send_gw_packet is given: not those of the handshake, and   *)
(* with no more data than a buffer holds.                                  *)
BUFFER_SIZE == 16384
HsTypes == {"GwAuthChallenge", "GwAuthResponse", "GwConnected", "GwDeny"}
Payload ==
  {p \in [type : DOMAIN Code \ HsTypes, link : U16, data : Seq(Byte)] :
     Len(p.data) <= BUFFER_SIZE}

ASSUME PoolAssumption == PoolSize \in Nat \ {0}
ASSUME TasksAssumption ==
  /\ SideOf \in [Tasks -> Side]
  /\ Tasks \cap {Free, "handshake"} = {}
ASSUME LoopAssumption ==
  /\ Loop \in [Side -> Tasks]
  /\ \A s \in Side : SideOf[Loop[s]] = s
ASSUME ScriptsAssumption == \A script \in Scripts : script \in [Tasks -> Seq(Payload)]
(* Only the command p, at the client, does not wait for the handshake.     *)
ASSUME EarlyAssumption == \A t \in Early : SideOf[t] = "cli"
(* A key is told from another by one byte; a version is a u32.             *)
ASSUME ConfigAssumption ==
  /\ \A k \in Keys : k \in [Side -> Byte]
  /\ \A v \in Majors : v \in [Side -> Nat] /\ \A s \in Side : (v[s] \div 256) \div 256 \in U16
ASSUME SizesAssumption == {NONCE_SIZE, RESPONSE_SIZE} \subseteq U16 \ {0}

VARIABLES
  conn,      \* the connection: "up", "silent", "closed"
  stream,    \* stream[s]: bytes on their way to s
  lock,      \* lock[s]: who holds the mutex of s's writer
  key, major,             \* configuration and version of each gateway
  packet_id_counter,      \* Gateway.packet_id_counter
  hs,        \* hs[s]: the handshake: its step, the last header, the data
  snd,       \* snd[t]: a sending task: its step, packet number, what is left
  rdr,       \* rdr[s]: read_gw_packet: its step, the header
  pool,      \* pool[s]: free buffers of BUFFER_POOL
  stats,     \* stats[s]: Gateway.statistics
  sent,      \* sent[s]: packets in the order s wrote their headers
  received   \* received[s]: what read_gw_packet returned

config == <<key, major>>
count  == <<stats, pool>>
vars   == <<conn, stream, lock, config, packet_id_counter, hs, snd, rdr, count,
            sent, received>>

NoHeader == Header("Regular", 0, 0, 0, 0)

(* Steps of the handshake that read a header, that read data, that write.  *)
HsReading == {"wait", "waitBody", "result", "version", "reason", "await", "awaitBody"}
HsWriting == {"challenge", "nonce", "respond", "respondBody", "accept",
              "acceptBody", "deny", "denyBody"}
HsDone    == {"open", "refused"}

Init ==
  /\ conn   = "up"
  /\ stream = [s \in Side |-> <<>>]
  /\ lock   = [s \in Side |-> Free]
  /\ key   \in Keys
  /\ major \in Majors
  /\ packet_id_counter = [s \in Side |-> 0]
  /\ hs  = [s \in Side |-> [pc |-> IF s = "srv" THEN "challenge" ELSE "wait",
                            pkt |-> NoHeader, data |-> <<>>]]
  /\ \E script \in Scripts :
       snd = [t \in Tasks |-> [pc |-> "idle", id |-> 0, todo |-> script[t]]]
  /\ rdr = [s \in Side |-> [pc |-> "header", pkt |-> NoHeader]]
  /\ pool = [s \in Side |-> PoolSize]
  /\ stats = [s \in Side |-> [packets_in |-> 0, packets_out |-> 0,
                              bytes_in |-> 0, bytes_out |-> 0]]
  /\ sent     = [s \in Side |-> <<>>]
  /\ received = [s \in Side |-> <<>>]

-----------------------------------------------------------------------------
(* The streams. *)

(* write_all of side s, when it succeeds.  Bytes for a peer that is gone   *)
(* are accepted and lost.                                                  *)
Push(s, b) ==
  stream' = IF conn = "up" THEN [stream EXCEPT ![Other(s)] = @ \o b] ELSE stream

(* read_exact of n bytes by side s: it waits until they are there.         *)
Ready(s, n) == Len(stream[s]) >= n
Taken(s, n) == SubSeq(stream[s], 1, n)
Pull(s, n)  == stream' = [stream EXCEPT ![s] = SubSeq(@, n + 1, Len(@))]

(* What is under way may be cut off inside a piece.  (A cut between two    *)
(* pieces is a loss that came earlier.)                                    *)
Cut ==
  \E cut \in SUBSET Side :
    stream' = [s \in Side |->
                 IF s \in cut THEN SubSeq(stream[s], 1, Len(stream[s]) - 1)
                              ELSE stream[s]]

(* Mutant: the number is handed out and not counted.                       *)
SamePacketId(s) == 1

(* Gateway::next_packet_id, a u64.                                         *)
NextPacketId(s) == packet_id_counter[s] + 1

-----------------------------------------------------------------------------
(* The handshake of side s. *)

(* The mutex of the writer is taken with the header and released with the  *)
(* data.  No task but those of Early competes for it.                      *)
HsHeader(s, from, to, t, id, size) ==
  /\ hs[s].pc = from /\ lock[s] = Free
  /\ Push(s, ToBytes(Header(t, id, 0, size, 0)))
  /\ lock' = [lock EXCEPT ![s] = "handshake"]
  /\ hs' = [hs EXCEPT ![s].pc = to]
  /\ UNCHANGED <<conn, config, snd, rdr, count, sent, received>>

HsData(s, from, to, b) ==
  /\ hs[s].pc = from
  /\ Push(s, b)
  /\ lock' = [lock EXCEPT ![s] = Free]
  /\ hs' = [hs EXCEPT ![s].pc = to]
  /\ UNCHANGED <<config, packet_id_counter, snd, rdr, count, sent, received>>

Numbered(s) ==
  packet_id_counter' = [packet_id_counter EXCEPT ![s] = NextPacketId(s)]

(* read_exact of n bytes and what is decided by them; a gateway that       *)
(* refuses drops, and so closes, its socket.                               *)
HsRead(s, from, n, pkt, data, to) ==
  /\ hs[s].pc = from /\ Ready(s, n)
  /\ Pull(s, n)
  /\ hs' = [hs EXCEPT ![s] = [pc |-> to, pkt |-> pkt, data |-> data]]
  /\ conn' = IF to = "refused" /\ conn = "up" THEN "closed" ELSE conn
  /\ UNCHANGED <<lock, config, packet_id_counter, snd, rdr, count, sent, received>>

HeaderOf(s) == FromBytes(Taken(s, PACKET_HEADER_SIZE))

(* generate_nonce; compute_response stands for HMAC-SHA256(key, nonce): no *)
(* two keys give the same response.                                        *)
Nonce == [i \in 1 .. NONCE_SIZE |-> (100 + i) % 256]
ComputeResponse(k, nonce) == [i \in 1 .. RESPONSE_SIZE |-> (k + nonce[1]) % 256]

(* Mutant: only the length of the response is looked at.                   *)
VerifyLength(k, nonce, r) == Len(r) = RESPONSE_SIZE

VerifyResponse(k, nonce, r) ==
  Len(r) = RESPONSE_SIZE /\ r = ComputeResponse(k, nonce)

(* GwConnected carries the version as three u32.                           *)
VersionData(s) == LE(major[s], 4) \o LE(2, 4) \o LE(0, 4)

(* authenticate_client, step 1: the challenge.                             *)
SendChallenge ==
  \/ /\ HsHeader("srv", "challenge", "nonce", "GwAuthChallenge",
                 NextPacketId("srv"), NONCE_SIZE)
     /\ Numbered("srv")
  \/ HsData("srv", "nonce", "await", Nonce) /\ UNCHANGED conn

(* Step 2: the response.                                                   *)
ReadResponse ==
  \/ HsRead("srv", "await", PACKET_HEADER_SIZE, HeaderOf("srv"), <<>>,
            IF HeaderOf("srv").type = "GwAuthResponse" THEN "awaitBody"
                                                       ELSE "refused")
  \/ LET n == hs["srv"].pkt.size
     IN  HsRead("srv", "awaitBody", n, hs["srv"].pkt, Taken("srv", n),
                IF VerifyResponse(key["srv"], Nonce, Taken("srv", n))
                  THEN "accept" ELSE "deny")

(* Mutant: the wait for the response has no timeout.                       *)
NoTimeout == FALSE /\ UNCHANGED vars

(* GW_READINESS_TIMEOUT passes.                                            *)
ResponseTimeout ==
  /\ hs["srv"].pc \in {"await", "awaitBody"}
  /\ hs' = [hs EXCEPT !["srv"].pc = "refused"]
  /\ conn' = IF conn = "up" THEN "closed" ELSE conn
  /\ UNCHANGED <<stream, lock, config, packet_id_counter, snd, rdr, count, sent,
                 received>>

(* Step 3: the verdict, under the number of the response.                  *)
SendVerdict ==
  \/ /\ HsHeader("srv", "accept", "acceptBody", "GwConnected",
                 hs["srv"].pkt.id, Len(VersionData("srv")))
     /\ UNCHANGED packet_id_counter
  \/ HsData("srv", "acceptBody", "open", VersionData("srv")) /\ UNCHANGED conn
  \/ /\ HsHeader("srv", "deny", "denyBody", "GwDeny", hs["srv"].pkt.id, 1)
     /\ UNCHANGED packet_id_counter
  \/ /\ HsData("srv", "denyBody", "refused", <<0>>)
     /\ conn' = IF conn = "up" THEN "closed" ELSE conn

(* gw_authenticate, step 1.                                                *)
ReadChallenge ==
  \/ LET p == HeaderOf("cli")
     IN  HsRead("cli", "wait", PACKET_HEADER_SIZE, p, <<>>,
                IF p.type = "GwAuthChallenge" /\ p.size = NONCE_SIZE
                  THEN "waitBody" ELSE "refused")
  \/ HsRead("cli", "waitBody", NONCE_SIZE, hs["cli"].pkt,
            Taken("cli", NONCE_SIZE), "respond")

(* Step 2.                                                                 *)
SendResponse ==
  \/ /\ HsHeader("cli", "respond", "respondBody", "GwAuthResponse",
                 NextPacketId("cli"), RESPONSE_SIZE)
     /\ Numbered("cli")
  \/ /\ HsData("cli", "respondBody", "result",
               ComputeResponse(key["cli"], hs["cli"].data))
     /\ UNCHANGED conn

(* Mutant: the version is not compared.                                    *)
AnyVersion(s, b) == TRUE

VersionFits(s, b) == FromLE(SubSeq(b, 1, 4)) = major[s]

(* Step 3.                                                                 *)
ReadVerdict ==
  \/ LET p == HeaderOf("cli")
     IN  HsRead("cli", "result", PACKET_HEADER_SIZE, p, <<>>,
                CASE p.type = "GwConnected" /\ p.size >= 12 -> "version"
                  [] p.type = "GwConnected" /\ p.size < 12  -> "open"
                  [] p.type = "GwDeny" /\ p.size > 0        -> "reason"
                  [] OTHER -> "refused")
  \/ HsRead("cli", "version", 12, NoHeader, <<>>,
            IF VersionFits("cli", Taken("cli", 12)) THEN "open" ELSE "refused")
  \/ HsRead("cli", "reason", hs["cli"].pkt.size, NoHeader, <<>>, "refused")

(* A read finds the stream ended, or a write fails.                        *)
HsFail(s) ==
  /\ conn = "closed" /\ hs[s].pc \in HsReading \cup HsWriting
  /\ hs' = [hs EXCEPT ![s].pc = "refused"]
  /\ lock' = [lock EXCEPT ![s] = IF @ = "handshake" THEN Free ELSE @]
  /\ UNCHANGED <<conn, stream, config, packet_id_counter, snd, rdr, count, sent,
                 received>>

HandshakeStep(s) ==
  \/ s = "srv" /\ (SendChallenge \/ ReadResponse \/ SendVerdict)
  \/ s = "cli" /\ (ReadChallenge \/ SendResponse \/ ReadVerdict)
  \/ HsFail(s)

-----------------------------------------------------------------------------
(* Sending: send_gw_packet by task t. *)

(* The header and the data that follow from a packet to be sent.           *)
Framed(p, id) ==
  LET c == CompressData(p.data)
  IN  [head |-> Header(p.type, id, p.link, Len(c.data),
                       IF c.is_compressed THEN FLAG_COMPRESSED ELSE 0),
       data |-> c.data]

Current(t) == Framed(Head(snd[t].todo), snd[t].id)

TakeNumber(t) ==
  LET s == SideOf[t]
  IN  /\ snd[t].pc = "idle" /\ snd[t].todo # <<>>
      /\ hs[s].pc = "open" \/ (t \in Early /\ hs[s].pc # "refused")
      /\ Numbered(s)
      /\ snd' = [snd EXCEPT ![t].pc = "header", ![t].id = NextPacketId(s)]
      /\ UNCHANGED <<conn, stream, lock, config, hs, rdr, count, sent, received>>

(* Mutant: the mutex is taken for each piece.                              *)
WriteHeaderUnlocked(t) ==
  LET s == SideOf[t]
  IN  /\ snd[t].pc = "header" /\ lock[s] = Free
      /\ Push(s, ToBytes(Current(t).head))
      /\ snd' = [snd EXCEPT ![t].pc =
                   IF Current(t).data = <<>> THEN "count" ELSE "data"]
      /\ sent' = [sent EXCEPT ![s] =
                    Append(@, [id |-> snd[t].id, pkt |-> Head(snd[t].todo)])]
      /\ UNCHANGED <<conn, lock, config, packet_id_counter, hs, rdr, count, received>>

WriteHeader(t) ==
  LET s == SideOf[t]
  IN  /\ snd[t].pc = "header" /\ lock[s] = Free
      /\ Push(s, ToBytes(Current(t).head))
      /\ IF Current(t).data = <<>>
           THEN snd' = [snd EXCEPT ![t].pc = "count"] /\ UNCHANGED lock
           ELSE /\ snd'  = [snd EXCEPT ![t].pc = "data"]
                /\ lock' = [lock EXCEPT ![s] = t]
      /\ sent' = [sent EXCEPT ![s] =
                    Append(@, [id |-> snd[t].id, pkt |-> Head(snd[t].todo)])]
      /\ UNCHANGED <<conn, config, packet_id_counter, hs, rdr, count, received>>

WriteData(t) ==
  LET s == SideOf[t]
  IN  /\ snd[t].pc = "data"
      /\ Push(s, Current(t).data)
      /\ snd'  = [snd EXCEPT ![t].pc = "count"]
      /\ lock' = [lock EXCEPT ![s] = Free]
      /\ UNCHANGED <<conn, config, packet_id_counter, hs, rdr, count, sent,
                     received>>

(* What a task does after a failed write: the loop ignores that its Pong   *)
(* was not sent, the others stop sending.                                  *)
GiveUp(t) ==
  snd' = [snd EXCEPT ![t].pc   = IF t = Loop[SideOf[t]] THEN "idle" ELSE "failed",
                     ![t].todo = Tail(@)]

(* Mutant: a task that fails keeps the mutex.                              *)
WriteFailHolding(t) ==
  /\ snd[t].pc \in {"header", "data"} /\ conn = "closed"
  /\ GiveUp(t)
  /\ UNCHANGED <<conn, stream, lock, config, packet_id_counter, hs, rdr, count,
                 sent, received>>

(* A write fails: the mutex is released, and nothing is counted.           *)
WriteFail(t) ==
  /\ snd[t].pc \in {"header", "data"} /\ conn = "closed"
  /\ lock' = [lock EXCEPT ![SideOf[t]] = IF @ = t THEN Free ELSE @]
  /\ GiveUp(t)
  /\ UNCHANGED <<conn, stream, config, packet_id_counter, hs, rdr, count, sent,
                 received>>

(* Mutant: the size before compression is counted.                         *)
CountRaw(t) ==
  LET s == SideOf[t]
  IN  /\ snd[t].pc = "count"
      /\ stats' = [stats EXCEPT
                     ![s].packets_out = @ + 1,
                     ![s].bytes_out   = @ + PACKET_HEADER_SIZE
                                          + Len(Head(snd[t].todo).data)]
      /\ snd' = [snd EXCEPT ![t].pc = "idle", ![t].todo = Tail(@)]
      /\ UNCHANGED <<conn, stream, lock, config, packet_id_counter, hs, rdr,
                     pool, sent, received>>

CountSent(t) ==
  LET s == SideOf[t]
  IN  /\ snd[t].pc = "count"
      /\ stats' = [stats EXCEPT
                     ![s].packets_out = @ + 1,
                     ![s].bytes_out   = @ + PACKET_HEADER_SIZE + Len(Current(t).data)]
      /\ snd' = [snd EXCEPT ![t].pc = "idle", ![t].todo = Tail(@)]
      /\ UNCHANGED <<conn, stream, lock, config, packet_id_counter, hs, rdr,
                     pool, sent, received>>

SendStep(t) ==
  TakeNumber(t) \/ WriteHeader(t) \/ WriteData(t) \/ WriteFail(t) \/ CountSent(t)

-----------------------------------------------------------------------------
(* Receiving: read_gw_packet by the exchange loop of s. *)

(* BufferPool::acquire, and drop of a PooledBuffer: an empty pool makes a  *)
(* new buffer, a full one lets it go.                                      *)
Acquire(s) == pool' = [pool EXCEPT ![s] = IF @ > 0 THEN @ - 1 ELSE 0]
Release(s) == pool' = [pool EXCEPT ![s] = IF @ < PoolSize THEN @ + 1 ELSE @]

(* The loop gets the packet, and answers a Ping itself before it reads on. *)
Return(s, p, data) ==
  /\ received' = [received EXCEPT ![s] =
       Append(@, [id |-> p.id, pkt |-> [type |-> p.type, link |-> p.link,
                                        data |-> data]])]
  /\ snd' = IF p.type = "Ping"
              THEN [snd EXCEPT ![Loop[s]].todo =
                      Append(@, [type |-> "Pong", link |-> 0, data |-> <<>>])]
              ELSE snd

ReadHeader(s) ==
  LET p == HeaderOf(s)
  IN  /\ hs[s].pc = "open" /\ rdr[s].pc = "header"
      /\ snd[Loop[s]].pc = "idle" /\ snd[Loop[s]].todo = <<>>
      /\ Ready(s, PACKET_HEADER_SIZE)
      /\ Pull(s, PACKET_HEADER_SIZE)
      /\ stats' = [stats EXCEPT ![s].packets_in = @ + 1,
                                ![s].bytes_in   = @ + PACKET_HEADER_SIZE]
      /\ IF p.size = 0
           THEN Return(s, p, <<>>) /\ UNCHANGED <<rdr, pool>>
           ELSE /\ rdr' = [rdr EXCEPT ![s] = [pc |-> "data", pkt |-> p]]
                /\ Acquire(s)
                /\ UNCHANGED <<snd, received>>
      /\ UNCHANGED <<conn, lock, config, packet_id_counter, hs, sent>>

ReadData(s) ==
  LET p == rdr[s].pkt
  IN  /\ rdr[s].pc = "data" /\ Ready(s, p.size)
      /\ Pull(s, p.size)
      /\ stats' = [stats EXCEPT ![s].bytes_in = @ + p.size]
      /\ Release(s)
      /\ Return(s, p, DecompressData(Taken(s, p.size), IsCompressed(p)))
      /\ rdr' = [rdr EXCEPT ![s] = [pc |-> "header", pkt |-> NoHeader]]
      /\ UNCHANGED <<conn, lock, config, packet_id_counter, hs, sent>>

(* Mutant: the buffer is kept when the read fails.                         *)
ReadFailKeeping(s) ==
  /\ hs[s].pc = "open" /\ rdr[s].pc \in {"header", "data"} /\ conn = "closed"
  /\ rdr' = [rdr EXCEPT ![s].pc = "ended"]
  /\ UNCHANGED <<conn, stream, lock, config, packet_id_counter, hs, snd, stats,
                 pool, sent, received>>

(* The stream ends before the packet does, or a reset discards what was    *)
(* not read: None, and the loop ends.                                      *)
ReadFail(s) ==
  /\ hs[s].pc = "open" /\ rdr[s].pc \in {"header", "data"} /\ conn = "closed"
  /\ IF rdr[s].pc = "data" THEN Release(s) ELSE UNCHANGED pool
  /\ rdr' = [rdr EXCEPT ![s].pc = "ended"]
  /\ UNCHANGED <<conn, stream, lock, config, packet_id_counter, hs, snd, stats,
                 sent, received>>

ReadStep(s) == ReadHeader(s) \/ ReadData(s) \/ ReadFail(s)

-----------------------------------------------------------------------------
(* The connection breaks, or the path falls silent: no FIN, no RST.        *)
Fault ==
  /\ conn = "up"
  /\ conn' \in {"closed", "silent"}
  /\ Cut
  /\ UNCHANGED <<lock, config, packet_id_counter, hs, snd, rdr, count, sent,
                 received>>

Next ==
  \/ \E s \in Side : HandshakeStep(s) \/ ReadStep(s)
  \/ \E t \in Tasks : SendStep(t)
  \/ ResponseTimeout \/ Fault

(* Tasks that can go on are polled, and the timer fires.                   *)
Spec ==
  /\ Init /\ [][Next]_vars
  /\ \A s \in Side : WF_vars(HandshakeStep(s)) /\ WF_vars(ReadStep(s))
  /\ \A t \in Tasks : WF_vars(SendStep(t))
  /\ WF_vars(ResponseTimeout)

-----------------------------------------------------------------------------
(* Every variable keeps its type: streams carry bytes, a header that is    *)
(* about to be written has a size that its u16 holds, and only a task that *)
(* is between its two pieces has the writer's mutex.                       *)
TypeOK ==
  /\ conn \in {"up", "silent", "closed"}
  /\ \A s \in Side :
       /\ \A i \in 1 .. Len(stream[s]) : stream[s][i] \in Byte
       /\ lock[s] \in Tasks \cup {Free, "handshake"}
       /\ hs[s].pc \in HsReading \cup HsWriting \cup HsDone
       /\ rdr[s].pc \in {"header", "data", "ended"}
  /\ \A t \in Tasks :
       /\ snd[t].pc \in {"idle", "header", "data", "count", "failed"}
       /\ snd[t].pc = "header" => Current(t).head.size \in U16
       /\ lock[SideOf[t]] = t => snd[t].pc = "data"

(* What a gateway reads after the handshake is, packet by packet, what the *)
(* other one wrote: type, number, link and data survive header, flags and  *)
(* compression, no task's packet gets between the two pieces of another's, *)
(* and of a packet that is cut off nothing is seen.                        *)
FramesIntact == \A s \in Side : IsPrefix(received[s], sent[Other(s)])

(* The client takes itself for connected only when the server has accepted *)
(* it, with the same key and a version that fits; the server accepts only  *)
(* the holder of its key, whatever else was written, cut off or timed out. *)
AuthAgreement ==
  /\ hs["cli"].pc = "open" => hs["srv"].pc = "open" /\ major["cli"] = major["srv"]
  /\ hs["srv"].pc \in {"accept", "acceptBody", "open"} => key["cli"] = key["srv"]

(* Two packets that one gateway sends in the exchange never have the same  *)
(* number, whichever tasks send them, and in whatever order they get to    *)
(* the writer.  The verdicts of the handshake are left out: GwConnected    *)
(* and GwDeny carry the number of the client's response.                   *)
IdsUnique ==
  \A s \in Side : \A i, j \in 1 .. Len(sent[s]) :
    sent[s][i].id = sent[s][j].id => i = j

(* At rest on a connection that is up, each gateway has counted as many    *)
(* packets and bytes in as the other has counted out: what is compressed   *)
(* counts with its size on the wire at both ends, the handshake at none.   *)
StatsAgree ==
  (/\ conn = "up" /\ \A s \in Side : hs[s].pc = "open" /\ stream[s] = <<>>
                                       /\ rdr[s].pc = "header"
   /\ \A t \in Tasks : snd[t].pc = "idle")
    => \A s \in Side : /\ stats[s].packets_in = stats[Other(s)].packets_out
                       /\ stats[s].bytes_in   = stats[Other(s)].bytes_out

(* Every buffer taken from the pool is back when no read is under way,     *)
(* after a packet that was cut off as well.                                *)
BuffersReturn == \A s \in Side : rdr[s].pc # "data" => pool[s] = PoolSize

(* The handshake ends: at the server always, at the client unless the path *)
(* has fallen silent, for it waits without a timeout.                      *)
HandshakeEnds ==
  /\ <>(hs["srv"].pc \in HsDone)
  /\ <>(hs["cli"].pc \in HsDone \/ conn = "silent")
=============================================================================
