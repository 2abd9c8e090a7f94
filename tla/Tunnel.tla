------------------------------- MODULE Tunnel -------------------------------
(***************************************************************************)
(* Both gateways around one authenticated connection, with every buffer on *)
(* the way bounded: application A - socket - server - connection - client  *)
(* - socket - application B, for each link.                                *)
(*                                                                         *)
(* Side "srv" runs client_exchange and one app_exchange per link, side     *)
(* "cli" gateway_exchange and one app_exchange per link.  What these tasks *)
(* wait for is modelled: room in the connection (write_all under the       *)
(* writer's mutex), room in an application's socket, and the two locks     *)
(* that are held across such a wait: the link's, while its data is being   *)
(* written to the application, and at the client the registry's as well.   *)
(* Registries, link numbers and cleanup are the matter of GatewayServer    *)
(* and GatewayClient, and take one step here: a link is its number.        *)
(***************************************************************************)
EXTENDS Naturals, Sequences

CONSTANTS
  Links,       \* links, each opened once
  Cap,         \* packets the connection holds in each direction
  SockCap,     \* chunks an application's socket holds in each direction
  MaxWrites,   \* chunks an application writes (bound)
  MaxPings,    \* keep-alives of the client (bound)
  WriteFirst   \* sides whose applications read only after they have written

ASSUME CapAssumption     == Cap \in Nat \ {0}
ASSUME SockCapAssumption == SockCap \in Nat \ {0}
ASSUME LinksAssumption   == Links # {}
ASSUME WritesAssumption  == MaxWrites \in Nat

Side == {"srv", "cli"}
Ends == Side \X Links

Other(s) == IF s = "srv" THEN "cli" ELSE "srv"
Peer(e)  == <<Other(e[1]), e[2]>>

VARIABLES
  chan,    \* chan[s]: packets on their way to side s
  loop,    \* loop[s]: exchange loop, its packet's link and data
  reg,     \* Gateway.links, as the set of registered ends
  apc,     \* apc[e]: application task
  lst,     \* lst[e]: Link.state
  shut,    \* ends whose Link.writer is shut down
  sock,    \* sock[e]: the application's end of its socket
  wrote,   \* wrote[e]: chunks the application has written
  taken,   \* taken[e]: of these, read by the gateway
  inbox,   \* inbox[e]: chunks in the socket towards the application
  got,     \* got[e]: chunks the application has read
  pings    \* keep-alives sent

gateway == <<loop, reg, apc, lst, shut>>
app     == <<sock, wrote, taken, inbox, got>>
vars    == <<chan, gateway, app, pings>>

LoopPc == {"loop", "pong", "deliver", "blocked", "confirm", "remove", "dial",
           "opened", "refuse"}
AppPc  == {"idle", "open", "waiting", "start", "read", "count", "send",
           "close", "remove", "done"}

Packet(t, l, v) == [type |-> t, link |-> l, val |-> v]
Control(t)      == Packet(t, CHOOSE l \in Links : TRUE, 0)
Idle(pc)        == [pc |-> pc, link |-> CHOOSE l \in Links : TRUE, val |-> 0]

Init ==
  /\ chan  = [s \in Side |-> <<>>]
  /\ loop  = [s \in Side |-> Idle("loop")]
  /\ reg   = {}
  /\ apc   = [e \in Ends |-> "idle"]
  /\ lst   = [e \in Ends |-> "Disconnected"]
  /\ shut  = {}
  /\ sock  = [e \in Ends |-> "none"]
  /\ wrote = [e \in Ends |-> 0]
  /\ taken = [e \in Ends |-> 0]
  /\ inbox = [e \in Ends |-> <<>>]
  /\ got   = [e \in Ends |-> <<>>]
  /\ pings = 0

-----------------------------------------------------------------------------
(* What the tasks wait for. *)

(* send_gw_packet of side s: with the connection's buffers full, the task  *)
(* waits in write_all, and the others that have to send wait for its mutex. *)
Send(s, p) ==
  /\ Len(chan[Other(s)]) < Cap
  /\ chan' = [chan EXCEPT ![Other(s)] = Append(@, p)]

(* link.lock(): held by the loop while it waits in Link::send_packet.      *)
LockFree(e) == loop[e[1]].pc = "blocked" => loop[e[1]].link # e[2]

(* links.write(): at the client, the guard that forward_to_app reads the   *)
(* registry with lives until the write to the application has ended.       *)
RegistryFree(s) == s = "cli" => loop[s].pc # "blocked"

-----------------------------------------------------------------------------
(* Exchange loops. *)

(* The step that follows the receipt of a packet.  client_exchange looks   *)
(* the link up at once; what it does not find is ignored.                  *)
Dispatch(s, p) ==
  CASE p.type = "Ping"   -> "pong"
    [] p.type = "Open"   -> "dial"
    [] p.type = "Regular" /\ (s = "cli" \/ <<s, p.link>> \in reg) -> "deliver"
    [] p.type = "Opened" /\ <<s, p.link>> \in reg                 -> "confirm"
    [] p.type \in {"OpenFail", "Close"}                           -> "remove"
    [] OTHER -> "loop"

(* Mutant: the socket is not split, and its one mutex is held by a task    *)
(* that waits for room to write.                                           *)
ReadPacketUnsplit(s) ==
  LET p == Head(chan[s])
  IN  /\ loop[s].pc = "loop" /\ chan[s] # <<>> /\ Len(chan[Other(s)]) < Cap
      /\ chan' = [chan EXCEPT ![s] = Tail(@)]
      /\ loop' = [loop EXCEPT ![s] =
                    [pc |-> Dispatch(s, p), link |-> p.link, val |-> p.val]]
      /\ UNCHANGED <<reg, apc, lst, shut, app, pings>>

ReadPacket(s) ==
  LET p == Head(chan[s])
  IN  /\ loop[s].pc = "loop" /\ chan[s] # <<>>
      /\ chan' = [chan EXCEPT ![s] = Tail(@)]
      /\ loop' = [loop EXCEPT ![s] =
                    [pc |-> Dispatch(s, p), link |-> p.link, val |-> p.val]]
      /\ UNCHANGED <<reg, apc, lst, shut, app, pings>>

SendPong(s) ==
  /\ loop[s].pc = "pong"
  /\ Send(s, Control("Pong"))
  /\ loop' = [loop EXCEPT ![s] = Idle("loop")]
  /\ UNCHANGED <<reg, apc, lst, shut, app, pings>>

(* Link::send_packet drops what comes for a link that is not Connected, or *)
(* whose socket no longer takes it.                                        *)
Takes(e) ==
  /\ lst[e] = "Connected" /\ e \notin shut /\ sock[e] # "rst"
  /\ e[1] = "cli" => e \in reg

(* forward_to_app; client_exchange, Regular.  When the socket is full the  *)
(* loop waits, with its locks.                                             *)
Deliver(s) ==
  LET e    == <<s, loop[s].link>>
      room == Len(inbox[e]) < SockCap
  IN  /\ \/ loop[s].pc = "deliver"
         \/ loop[s].pc = "blocked" /\ (room \/ ~Takes(e))
      /\ inbox' = IF Takes(e) /\ room
                    THEN [inbox EXCEPT ![e] = Append(@, loop[s].val)] ELSE inbox
      /\ loop' = IF Takes(e) /\ ~room
                   THEN [loop EXCEPT ![s].pc = "blocked"]
                   ELSE [loop EXCEPT ![s] = Idle("loop")]
      /\ UNCHANGED <<chan, reg, apc, lst, shut, sock, wrote, taken, got,
                     pings>>

(* Opened at the server.                                                   *)
ConfirmOpen ==
  /\ loop["srv"].pc = "confirm"
  /\ lst' = [lst EXCEPT ![<<"srv", loop["srv"].link>>] = "Connected"]
  /\ loop' = [loop EXCEPT !["srv"] = Idle("loop")]
  /\ UNCHANGED <<chan, reg, apc, shut, app, pings>>

(* remove_link and close_connection, if the link is still registered.      *)
Release(S) ==
  /\ reg'  = reg \ S
  /\ shut' = shut \cup (S \cap reg)
  /\ lst'  = [e \in Ends |-> IF e \in S \cap reg THEN "Disconnected" ELSE lst[e]]

(* OpenFail or Close from the other side.                                  *)
RemoveByPeer(s) ==
  /\ loop[s].pc = "remove"
  /\ Release({<<s, loop[s].link>>})
  /\ loop' = [loop EXCEPT ![s] = Idle("loop")]
  /\ UNCHANGED <<chan, apc, app, pings>>

(* Mutant: app_exchange runs before Opened is sent.                        *)
DialAndSpawn ==
  LET e == <<"cli", loop["cli"].link>>
  IN  /\ loop["cli"].pc = "dial"
      /\ sock' = [sock EXCEPT ![e] = "open"]
      /\ reg'  = reg \cup {e}
      /\ lst'  = [lst EXCEPT ![e] = "Connected"]
      /\ apc'  = [apc EXCEPT ![e] = "read"]
      /\ loop' = [loop EXCEPT !["cli"].pc = "opened"]
      /\ UNCHANGED <<chan, shut, wrote, taken, inbox, got, pings>>

(* connect_client up to set_state(Connected).                              *)
Dial ==
  LET e == <<"cli", loop["cli"].link>>
  IN  /\ loop["cli"].pc = "dial"
      /\ sock' = [sock EXCEPT ![e] = "open"]
      /\ reg'  = reg \cup {e}
      /\ lst'  = [lst EXCEPT ![e] = "Connected"]
      /\ loop' = [loop EXCEPT !["cli"].pc = "opened"]
      /\ UNCHANGED <<chan, apc, shut, wrote, taken, inbox, got, pings>>

DialFail ==
  /\ loop["cli"].pc = "dial"
  /\ sock' = [sock EXCEPT ![<<"cli", loop["cli"].link>>] = "refused"]
  /\ loop' = [loop EXCEPT !["cli"].pc = "refuse"]
  /\ UNCHANGED <<chan, reg, apc, lst, shut, wrote, taken, inbox, got, pings>>

(* send_opened, then app_exchange is spawned.                              *)
SendOpened ==
  /\ loop["cli"].pc = "opened"
  /\ Send("cli", Packet("Opened", loop["cli"].link, 0))
  /\ apc'  = [apc EXCEPT ![<<"cli", loop["cli"].link>>] = "start"]
  /\ loop' = [loop EXCEPT !["cli"] = Idle("loop")]
  /\ UNCHANGED <<reg, lst, shut, app, pings>>

SendOpenFail ==
  /\ loop["cli"].pc = "refuse"
  /\ Send("cli", Packet("OpenFail", loop["cli"].link, 0))
  /\ loop' = [loop EXCEPT !["cli"] = Idle("loop")]
  /\ UNCHANGED <<reg, apc, lst, shut, app, pings>>

LoopStep(s) ==
  \/ ReadPacket(s) \/ Deliver(s) \/ RemoveByPeer(s)
  \/ s = "srv" /\ (SendPong(s) \/ ConfirmOpen)
  \/ s = "cli" /\ (Dial \/ DialFail \/ SendOpened \/ SendOpenFail)

(* start_ping_loop, a tick.                                                *)
Ping ==
  /\ pings < MaxPings
  /\ Send("cli", Control("Ping"))
  /\ pings' = pings + 1
  /\ UNCHANGED <<gateway, app>>

-----------------------------------------------------------------------------
(* Application tasks: handle_app_connection, app_exchange. *)

(* An application connects to the server.                                  *)
AppConnect(l) ==
  LET e == <<"srv", l>>
  IN  /\ sock[e] = "none"
      /\ sock' = [sock EXCEPT ![e] = "open"]
      /\ reg'  = reg \cup {e}
      /\ apc'  = [apc EXCEPT ![e] = "open"]
      /\ UNCHANGED <<chan, loop, lst, shut, wrote, taken, inbox, got, pings>>

SendOpen(e) ==
  /\ apc[e] = "open"
  /\ Send("srv", Packet("Open", e[2], 0))
  /\ apc' = [apc EXCEPT ![e] = "waiting"]
  /\ UNCHANGED <<loop, reg, lst, shut, app, pings>>

SetLinkWaiting(e) ==
  /\ apc[e] = "waiting" /\ LockFree(e)
  /\ lst' = [lst EXCEPT ![e] = "Waiting"]
  /\ apc' = [apc EXCEPT ![e] = "start"]
  /\ UNCHANGED <<chan, loop, reg, shut, app, pings>>

(* app_exchange takes the reader out of the link.                          *)
TakeReader(e) ==
  /\ apc[e] = "start" /\ LockFree(e)
  /\ apc' = [apc EXCEPT ![e] = "read"]
  /\ UNCHANGED <<chan, loop, reg, lst, shut, app, pings>>

(* Mutant: a read that does not wait for data.                             *)
ReadAppUnwaited(e) ==
  /\ apc[e] = "read" /\ sock[e] # "rst"
  /\ taken' = [taken EXCEPT ![e] = @ + 1]
  /\ apc'   = [apc EXCEPT ![e] = IF e[1] = "srv" THEN "count" ELSE "send"]
  /\ UNCHANGED <<chan, loop, reg, lst, shut, sock, wrote, inbox, got, pings>>

(* The server counts the bytes it has read before it sends them, the       *)
(* client after.                                                           *)
ReadApp(e) ==
  /\ apc[e] = "read" /\ taken[e] < wrote[e] /\ sock[e] # "rst"
  /\ taken' = [taken EXCEPT ![e] = @ + 1]
  /\ apc'   = [apc EXCEPT ![e] = IF e[1] = "srv" THEN "count" ELSE "send"]
  /\ UNCHANGED <<chan, loop, reg, lst, shut, sock, wrote, inbox, got, pings>>

(* Mutant: the end is acted on with data still unread.                     *)
ReadAppEndEarly(e) ==
  /\ apc[e] = "read" /\ sock[e] \in {"fin", "rst"}
  /\ apc' = [apc EXCEPT ![e] = "close"]
  /\ UNCHANGED <<chan, loop, reg, lst, shut, app, pings>>

ReadAppEnd(e) ==
  /\ apc[e] = "read"
  /\ sock[e] = "rst" \/ (sock[e] = "fin" /\ taken[e] = wrote[e])
  /\ apc' = [apc EXCEPT ![e] = "close"]
  /\ UNCHANGED <<chan, loop, reg, lst, shut, app, pings>>

(* add_incoming, under the link's lock.                                    *)
AddIncoming(e) ==
  /\ apc[e] = "count" /\ LockFree(e)
  /\ apc' = [apc EXCEPT ![e] = IF e[1] = "srv" THEN "send" ELSE "read"]
  /\ UNCHANGED <<chan, loop, reg, lst, shut, app, pings>>

SendData(e) ==
  /\ apc[e] = "send"
  /\ Send(e[1], Packet("Regular", e[2], taken[e]))
  /\ apc' = [apc EXCEPT ![e] = IF e[1] = "srv" THEN "read" ELSE "count"]
  /\ UNCHANGED <<loop, reg, lst, shut, app, pings>>

SendClose(e) ==
  /\ apc[e] = "close"
  /\ Send(e[1], Packet("Close", e[2], 0))
  /\ apc' = [apc EXCEPT ![e] = "remove"]
  /\ UNCHANGED <<loop, reg, lst, shut, app, pings>>

(* remove_link.  The server closes the link; at the client the last        *)
(* reference to it is dropped, which closes the socket.                    *)
Remove(e) ==
  /\ apc[e] = "remove" /\ RegistryFree(e[1])
  /\ e[1] = "srv" => LockFree(e)
  /\ reg'  = reg \ {e}
  /\ shut' = shut \cup {e}
  /\ lst'  = [lst EXCEPT ![e] = "Disconnected"]
  /\ apc'  = [apc EXCEPT ![e] = "done"]
  /\ UNCHANGED <<chan, loop, app, pings>>

AppTask(e) ==
  \/ SendOpen(e) \/ SetLinkWaiting(e) \/ TakeReader(e)
  \/ ReadApp(e) \/ ReadAppEnd(e) \/ AddIncoming(e) \/ SendData(e)
  \/ SendClose(e) \/ Remove(e)

-----------------------------------------------------------------------------
(* The applications and the network. *)

AppWrite(e) ==
  /\ sock[e] = "open" /\ wrote[e] < MaxWrites /\ wrote[e] - taken[e] < SockCap
  /\ wrote' = [wrote EXCEPT ![e] = @ + 1]
  /\ UNCHANGED <<chan, gateway, sock, taken, inbox, got, pings>>

AppRead(e) ==
  /\ inbox[e] # <<>> /\ sock[e] \in {"open", "fin"}
  /\ e[1] \in WriteFirst => sock[e] = "fin" \/ wrote[e] = MaxWrites
  /\ got'   = [got EXCEPT ![e] = Append(@, Head(inbox[e]))]
  /\ inbox' = [inbox EXCEPT ![e] = Tail(@)]
  /\ UNCHANGED <<chan, gateway, sock, wrote, taken, pings>>

(* The application ends its output and goes on reading, or is gone.        *)
AppClose(e) ==
  /\ \E x \in {"fin", "rst"} :
       /\ sock[e] = "open" \/ (sock[e] = "fin" /\ x = "rst")
       /\ sock' = [sock EXCEPT ![e] = x]
  /\ UNCHANGED <<chan, gateway, wrote, taken, inbox, got, pings>>

-----------------------------------------------------------------------------
(* What happens without a decision of an application to write or to close. *)
Moves ==
  \/ \E s \in Side : LoopStep(s)
  \/ \E e \in Ends : AppTask(e) \/ AppRead(e)

AtRest == ~ENABLED Moves

Next ==
  \/ Moves
  \/ \E e \in Ends : AppWrite(e) \/ AppClose(e)
  \/ \E l \in Links : AppConnect(l)
  \/ Ping

Spec == Init /\ [][Next]_vars

-----------------------------------------------------------------------------
(* Every variable keeps its type, and no buffer holds more than it can. *)
TypeOK ==
  /\ \A s \in Side : Len(chan[s]) <= Cap /\ loop[s].pc \in LoopPc
  /\ reg \subseteq Ends /\ shut \subseteq Ends
  /\ \A e \in Ends :
       /\ apc[e] \in AppPc
       /\ lst[e] \in {"Disconnected", "Waiting", "Connected"}
       /\ sock[e] \in {"none", "refused", "open", "fin", "rst"}
       /\ Len(inbox[e]) <= SockCap /\ wrote[e] - taken[e] \in 0 .. SockCap

Chunks(n) == [i \in 1 .. n |-> i]

Abstract == INSTANCE Pipe WITH
  Chunk <- 1 .. MaxWrites,
  sent  <- [e \in Ends |-> Chunks(wrote[Peer(e)])],
  rcvd  <- [e \in Ends |-> got[e] \o inbox[e]],
  eof   <- [e \in Ends |-> e \in shut]

(* What each application is handed is, from the start and in order, what   *)
(* the other one wrote, and nothing comes after the end of the stream: no  *)
(* chunk is skipped or repeated, although Opened, Waiting and Close race   *)
(* with the data.  (A chunk is its number in its stream; that none gets    *)
(* onto another link is NoForeignData of ServerWorld and ClientWorld.)     *)
ImplementsPipe == Abstract!Spec

(* An end of stream that the client signals to its application, with       *)
(* neither application gone, comes after all the data that the server's    *)
(* application wrote.                                                      *)
EofComplete ==
  \A l \in Links :
    LET a == <<"srv", l>>
        b == <<"cli", l>>
    IN  b \in shut /\ sock[b] = "open" /\ sock[a] # "rst"
          => got[b] \o inbox[b] = Chunks(wrote[a])

(* When nothing moves any more, it is because all is done: both loops are  *)
(* back at their sockets, no packet is under way, no task waits for a      *)
(* lock or for room, and what an application wrote at the server has been  *)
(* read at the client, unless one of the two closed.  Both exchange loops  *)
(* write (Pong; Opened, OpenFail) before they read on, and may have to     *)
(* wait for each other's reading, so this depends on what can be under     *)
(* way: it holds for one link and at most Cap keep-alives, when either     *)
(* loop may wait for room and never both; Cap + 1 keep-alives, or a second *)
(* link, can block the two for good.                                       *)
NothingStuck ==
  AtRest =>
    /\ \A s \in Side : loop[s].pc = "loop" /\ chan[s] = <<>>
    /\ \A e \in Ends : apc[e] \in {"idle", "read", "done"}
    /\ \A l \in Links :
         sock[<<"srv", l>>] # "rst" /\ sock[<<"cli", l>>] = "open" =>
           got[<<"cli", l>>] = Chunks(wrote[<<"srv", l>>])

-----------------------------------------------------------------------------
(* What the documentation says and the code does not do: it is violated.   *)

(* link.rs:40, the socket is split "allowing incoming and outgoing traffic *)
(* to be handled independently": the gateway takes what an application     *)
(* writes, although that application does not yet read what it is sent.    *)
OutgoingIndependent ==
  AtRest => \A e \in Ends : apc[e] # "done" /\ sock[e] = "open"
                               => taken[e] = wrote[e]
=============================================================================
