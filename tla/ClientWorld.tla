----------------------------- MODULE ClientWorld -----------------------------
(***************************************************************************)
(* A gateway client with everything around it: the server it connects to,  *)
(* which may vanish, fall silent or restart, the network, the local        *)
(* application it dials, and the signal that ends the process.             *)
(*                                                                         *)
(* The server is what server.rs shows the client: it numbers the links it  *)
(* opens one after the other, from 1 again after a restart, may send data  *)
(* and Close for a link before the client has answered its Open, and       *)
(* answers Ping.                                                           *)
(***************************************************************************)
EXTENDS GatewayClient

CONSTANTS
  MaxWrites,      \* chunks a local application writes (bound)
  Window,         \* the server starts no new packet with this many in flight (bound)
  AllowShutdown,  \* whether the process may receive a termination signal
  ServerActs,     \* what the server does besides serving: {"silent", "restart",
                  \* "ping"}
  Commands,       \* commands typed at the client: {"p"}
  Ticks           \* whether GW_PING_PERIOD passes while a connection is used

VARIABLES
  nextId,         \* the server's link_id_counter
  srvLinks,       \* srvLinks[c]: <<id, app>> of links the server has open on c
  phase           \* phase[a]: the server has sent Open, has received Opened

serverEnd == <<nextId, srvLinks, phase>>
client == <<registry, runTask, ping, appTask, linkObj, sd>>
vars   == <<wire, client, appSock, serverEnd>>

Init ==
  /\ ClientInit
  /\ nextId = 1
  /\ srvLinks = [c \in Conns |-> {}]
  /\ phase = [a \in Apps |-> "new"]

-----------------------------------------------------------------------------
(* The server and the network. *)

Send(c, p) ==
  /\ net[c] = "up"
  /\ inbox' = [inbox EXCEPT ![c] = Append(@, p)]

(* Each application connection at the server is opened once.               *)
SrvOpen(c, a) ==
  /\ ping[c] # "off" /\ phase[a] = "new" /\ Len(inbox[c]) < Window
  /\ Send(c, Chan!LinkPacket("Open", nextId, a))
  /\ nextId' = (nextId + 1) % LinkIdWidth
  /\ srvLinks' = [srvLinks EXCEPT ![c] = @ \cup {<<nextId, a>>}]
  /\ phase' = [phase EXCEPT ![a] = "opened"]
  /\ UNCHANGED <<outbox, net, wshut, client, appSock>>

SrvData(c, l) ==
  /\ l \in srvLinks[c] /\ Len(inbox[c]) < Window
  /\ Send(c, Chan!LinkPacket("Regular", l[1], l[2]))
  /\ UNCHANGED <<outbox, net, wshut, client, appSock, serverEnd>>

SrvClose(c, l) ==
  /\ l \in srvLinks[c]
  /\ Send(c, Chan!LinkPacket("Close", l[1], l[2]))
  /\ srvLinks' = [srvLinks EXCEPT ![c] = @ \ {l}]
  /\ UNCHANGED <<outbox, net, wshut, client, appSock, nextId, phase>>

(* The protocol lets both ends ping; server.rs does not, client.rs answers. *)
SrvPing(c) ==
  /\ "ping" \in ServerActs
  /\ ping[c] # "off" /\ Len(inbox[c]) < Window
  /\ Send(c, Chan!ControlPacket("Ping"))
  /\ UNCHANGED <<outbox, net, wshut, client, appSock, serverEnd>>

(* The server takes a packet: Ping is answered, OpenFail and Close end its *)
(* link, Opened confirms it.  (A Pong beyond the window is left out: the   *)
(* client only notes the time of one.)                                     *)
SrvRead(c) ==
  LET p == Head(outbox[c])
  IN  /\ net[c] = "up" /\ outbox[c] # <<>>
      /\ outbox' = [outbox EXCEPT ![c] = Tail(@)]
      /\ inbox' = IF p.type = "Ping" /\ Len(inbox[c]) < Window
                    THEN [inbox EXCEPT ![c] = Append(@, Chan!ControlPacket("Pong"))]
                    ELSE inbox
      /\ srvLinks' = IF p.type \in {"OpenFail", "Close"}
                       THEN [srvLinks EXCEPT ![c] = {l \in @ : l[1] # p.link}]
                       ELSE srvLinks
      /\ phase' = IF p.type = "Opened" THEN [phase EXCEPT ![p.app] = "confirmed"]
                                       ELSE phase
      /\ UNCHANGED <<net, wshut, client, appSock, nextId>>

(* The server closes the connection or ends; what it sent and has not      *)
(* arrived may be cut off.  After a restart it numbers links anew.         *)
SrvGone(c) ==
  /\ net[c] = "up"
  /\ \E k \in 0 .. Len(inbox[c]) : inbox' = [inbox EXCEPT ![c] = SubSeq(@, 1, k)]
  /\ outbox' = [outbox EXCEPT ![c] = <<>>]
  /\ net' = [net EXCEPT ![c] = "lost"]
  /\ srvLinks' = [srvLinks EXCEPT ![c] = {}]
  /\ nextId' \in {nextId} \cup {i \in {1} : "restart" \in ServerActs}
  /\ UNCHANGED <<wshut, client, appSock, phase>>

(* The server's host or the path vanishes: no FIN, no RST.                 *)
SrvSilent(c) ==
  /\ "silent" \in ServerActs /\ net[c] = "up"
  /\ net' = [net EXCEPT ![c] = IF outbox[c] = <<>> THEN "silent" ELSE "stalled"]
  /\ srvLinks' = [srvLinks EXCEPT ![c] = {}]
  /\ UNCHANGED <<inbox, outbox, wshut, client, appSock, nextId, phase>>

(* Retransmissions of unacknowledged data are given up.                    *)
KernelTimeout(c) ==
  /\ net[c] = "stalled"
  /\ net' = [net EXCEPT ![c] = "lost"]
  /\ outbox' = [outbox EXCEPT ![c] = <<>>]
  /\ UNCHANGED <<inbox, wshut, client, appSock, serverEnd>>

-----------------------------------------------------------------------------
(* The local application. *)

AppWrite(a) ==
  /\ asock[a] = "open" /\ wrote[a] < MaxWrites
  /\ wrote'  = [wrote EXCEPT ![a] = @ + 1]
  /\ unread' = [unread EXCEPT ![a] = @ + 1]
  /\ UNCHANGED <<wire, client, asock, foreign, serverEnd>>

(* FIN after everything written, or RST, which discards what is unread.    *)
AppClose(a) ==
  /\ asock[a] = "open"
  /\ \/ asock' = [asock EXCEPT ![a] = "fin"] /\ UNCHANGED unread
     \/ asock' = [asock EXCEPT ![a] = "rst"] /\ unread' = [unread EXCEPT ![a] = 0]
  /\ UNCHANGED <<wire, client, wrote, foreign, serverEnd>>

-----------------------------------------------------------------------------
ClientStep == RunStep /\ UNCHANGED serverEnd
PingStep(c) == Ticks /\ PingTick(c) /\ UNCHANGED serverEnd
LinkStep(a) == AppStep(a) /\ UNCHANGED serverEnd
Command == "p" \in Commands /\ ManualPing /\ UNCHANGED serverEnd
Signal  == AllowShutdown /\ ShutdownStep /\ UNCHANGED serverEnd

(* The process is gone, or waits for an answer that will never come.       *)
Stopped ==
  /\ sd = "exited" \/ (mpc = "auth" /\ net[conn] = "silent")
  /\ UNCHANGED vars

ServerStep(c) ==
  \/ SrvRead(c) \/ SrvPing(c) \/ SrvGone(c) \/ SrvSilent(c) \/ KernelTimeout(c)
  \/ \E a \in Apps : SrvOpen(c, a)
  \/ \E l \in srvLinks[c] : SrvData(c, l) \/ SrvClose(c, l)

Next ==
  \/ ClientStep \/ Command \/ Signal \/ Stopped
  \/ \E c \in Conns : PingStep(c) \/ ServerStep(c)
  \/ \E a \in Apps : LinkStep(a) \/ AppWrite(a) \/ AppClose(a)

(* The runtime polls every task that can make progress, timers fire, and a *)
(* kernel gives up retransmitting after a while.  Strong fairness, because *)
(* tokio's Mutex is FIFO: a task that waits for the writer gets its turn   *)
(* although others keep filling the send buffer.                           *)
Fairness ==
  /\ SF_vars(ClientStep)
  /\ \A c \in Conns : SF_vars(PingStep(c)) /\ WF_vars(KernelTimeout(c))
  /\ \A a \in Apps : SF_vars(LinkStep(a))

(* A server that is connected keeps reading its socket.                    *)
ServerReads == \A c \in Conns : WF_vars(SrvRead(c))

Spec     == Init /\ [][Next]_vars
FairSpec == Spec /\ Fairness /\ ServerReads

-----------------------------------------------------------------------------
(* Every variable keeps its type. *)
TypeOK ==
  /\ ClientTypeOK
  /\ nextId \in Chan!LinkId
  /\ srvLinks \in [Conns -> SUBSET (Chan!LinkId \X Apps)]
  /\ phase \in [Apps -> {"new", "opened", "confirmed"}]

(* The registry holds links of the current connection only, under their    *)
(* own number, and none whose task has ended: what close_all_links left of *)
(* an earlier connection, when its tasks still run, never gets back in.    *)
RegistryCurrent ==
  \A i \in Chan!LinkId : links[i] # NoApp =>
    LET a == links[i]
    IN  linkId[a] = i /\ writer[a] = conn /\ conn # NoConn /\ apc[a] # "done"

(* Data of a connection at the server reaches only the application         *)
(* connection that was dialled for it, although forward_to_app finds it by *)
(* a number that a restarted server uses again.                            *)
NoForeignData == \A a \in Apps : foreign[a] = {}

(* app_exchange outlives the connection it was started on, and speaks on   *)
(* that one only: a new connection carries nothing about links of an       *)
(* earlier one.                                                            *)
OwnConnectionOnly ==
  \A c \in Conns : \A k \in 1 .. Len(outbox[c]) :
    outbox[c][k].type \in {"Regular", "Close"} => writer[outbox[c][k].app] = c

(* The server learns that a link is open before it gets its data or Close. *)
OpenedFirst ==
  \A c \in Conns : \A k \in 1 .. Len(outbox[c]) :
    outbox[c][k].type \in {"Regular", "Close"} =>
      \/ phase[outbox[c][k].app] = "confirmed"
      \/ \E j \in 1 .. k - 1 : outbox[c][j].type = "Opened"
                                 /\ outbox[c][j].app = outbox[c][k].app

(* The client leaves a lost connection and tries the next, until it ends.  *)
LostServerLeft ==
  \A c \in Conns : (conn = c /\ net[c] = "lost") ~> (conn # c \/ sd = "exited")

(* A link that is registered when its connection is lost is shut down      *)
(* towards the application, or its task ends.                              *)
LostLinksClosed ==
  \A a \in Apps :
    (\E c \in Conns, i \in Chan!LinkId :
       links[i] = a /\ writer[a] = c /\ net[c] = "lost")
      ~> (wclosed[a] \/ apc[a] = "done" \/ sd = "exited")

(* A local application that closes its socket gets its task ended, also    *)
(* when the server is gone, silent or slow.                                *)
ClosedAppEnds ==
  \A a \in Apps :
    asock[a] \in {"fin", "rst"} ~> (apc[a] = "done" \/ sd = "exited")

-----------------------------------------------------------------------------
(* What the code's comment says and the code does not do: it is violated.  *)

(* client.rs:425, app_exchange ends by "Send Close and remove the link":   *)
(* it takes no other link out of the registry.                             *)
RemovesOwnLink ==
  [][\A a \in Apps : apc[a] = "unlink" /\ apc'[a] = "done" =>
       \A i \in Chan!LinkId : links'[i] # links[i] => links[i] = a]_vars
=============================================================================
