-------------------------------- MODULE Wire --------------------------------
(***************************************************************************)
(* The TCP connections between gateway clients and the gateway server, and *)
(* the packets of the binary protocol that travel on them.                 *)
(*                                                                         *)
(* A connection is a pair of FIFO queues.  TCP neither loses, duplicates   *)
(* nor reorders packets of a connection that stays up; what it does not    *)
(* promise is that the connection stays up, or that either end is told     *)
(* soon when it does not:                                                  *)
(*   "none"     not established yet                                        *)
(*   "up"       both ends reachable                                        *)
(*   "silent"   the client's host or the path vanished, no FIN or RST came *)
(*   "stalled"  silent, and the server has unacknowledged bytes out, so    *)
(*              its kernel will give up after its retransmissions          *)
(*   "lost"     the server's kernel has seen FIN, RST or a timeout         *)
(* A write is accepted while the send buffer has room, whether or not the  *)
(* peer still exists; a full buffer blocks the writer.                     *)
(***************************************************************************)
EXTENDS Naturals, Sequences

CONSTANTS
  Conns,        \* TCP connections of gateway clients, each used once
  Apps,         \* connections of local applications to the server's port_app
  LinkIdWidth,  \* number of link identifiers (u16 in the code: 65536)
  NoApp,        \* absent application
  SendBuffer    \* packets the path to a client holds before a write blocks

VARIABLES
  up,           \* up[c]:   packets in flight from the client to the server
  down,         \* down[c]: packets in flight from the server to the client
  net,          \* net[c]:  state of the TCP connection
  wshut         \* wshut[c]: the server called shutdown() on its write half

wire == <<up, down, net, wshut>>

ASSUME WidthAssumption == LinkIdWidth \in Nat /\ LinkIdWidth > 1
ASSUME NoAppAssumption == NoApp \notin Apps
ASSUME BufferAssumption == SendBuffer \in Nat /\ SendBuffer > 0

LinkId == 0 .. LinkIdWidth - 1

(* The packet types that reach an established channel.  packet_id and      *)
(* data_size are left out: no handler's control depends on them.           *)
PacketType ==
  {"Regular", "Ping", "Pong", "Open", "Opened", "OpenFail", "Close"}

(* app is a ghost field: the application connection the packet is about,   *)
(* as opposed to the one its link_id happens to name when it is handled.   *)
Packet == [type : PacketType, link : LinkId, app : Apps \cup {NoApp}]

LinkPacket(t, id, a) == [type |-> t, link |-> id, app |-> a]
ControlPacket(t)     == [type |-> t, link |-> 0, app |-> NoApp]

NetState == {"none", "up", "silent", "stalled", "lost"}

WireInit ==
  /\ up    = [c \in Conns |-> <<>>]
  /\ down  = [c \in Conns |-> <<>>]
  /\ net   = [c \in Conns |-> "none"]
  /\ wshut = [c \in Conns |-> FALSE]

WireTypeOK ==
  /\ up    \in [Conns -> Seq(Packet)]
  /\ down  \in [Conns -> Seq(Packet)]
  /\ net   \in [Conns -> NetState]
  /\ wshut \in [Conns -> BOOLEAN]

(* send_gw_packet under the writer's mutex, when both write_all succeed:   *)
(* header and payload enter the stream as one unit.  Not enabled while the *)
(* send buffer is full: the task waits in write_all, mutex held.           *)
WriteOk(c, p) ==
  /\ ~wshut[c]
  /\ \/ /\ net[c] = "lost"
        /\ UNCHANGED <<down, net>>
     \/ /\ net[c] # "lost" /\ Len(down[c]) < SendBuffer
        /\ down' = [down EXCEPT ![c] = Append(@, p)]
        /\ net'  = [net EXCEPT ![c] = IF @ = "silent" THEN "stalled" ELSE @]
  /\ UNCHANGED <<up, wshut>>

(* send_gw_packet when write_all returns an error.                         *)
WriteErr(c) ==
  /\ wshut[c] \/ net[c] = "lost"
  /\ UNCHANGED wire

=============================================================================
