----------------------------- MODULE ServerWorld -----------------------------
(***************************************************************************)
(* A gateway server with everything around it: gateway clients that        *)
(* connect, answer, fall silent or vanish, the network, the applications   *)
(* that use port_app, and the signal that ends the process.                *)
(*                                                                         *)
(* The peer of a connection is what client.rs shows the server: it answers *)
(* Open with Opened or OpenFail, forwards data and ends links it opened,   *)
(* and sends Ping.  It may go on forwarding for a link after the server's  *)
(* Close crossed its data, and may itself Close a link that was closed.    *)
(***************************************************************************)
EXTENDS GatewayServer

CONSTANTS
  MaxWrites,      \* chunks an application writes (bound)
  Window,         \* a peer starts no new packet with this many in flight (bound)
  AllowShutdown,  \* whether the process may receive a termination signal
  PeerActs        \* what peers do besides serving links: {"ping", "silent"}

VARIABLE peerOpen \* peerOpen[c]: <<id, app>> of links the peer serves

vars == <<wire, registry, connTask, appTask, linkObj, appSock, sd, peerOpen>>
server == <<registry, connTask, appTask, linkObj, sd>>

Init == ServerInit /\ peerOpen = [c \in Conns |-> {}]

-----------------------------------------------------------------------------
(* Gateway clients and the network. *)

(* A client host can reuse an address only when the old connection is over *)
(* for the server's kernel as well: a SYN on an established connection     *)
(* ends in its reset.                                                      *)
Connect(c) ==
  /\ sd # "exited" /\ net[c] = "none"
  /\ \A d \in Conns : AddrOf[d] = AddrOf[c] => net[d] # "up"
  /\ net' = [d \in Conns |->
               IF d = c THEN "up"
               ELSE IF AddrOf[d] = AddrOf[c] /\ net[d] # "none" THEN "lost"
               ELSE net[d]]
  /\ UNCHANGED <<up, down, wshut, server, appSock, peerOpen>>

PeerAnswer(c, t) ==
  LET p == Head(down[c])
  IN  /\ net[c] = "up" /\ down[c] # <<>> /\ p.type = "Open"
      /\ down' = [down EXCEPT ![c] = Tail(@)]
      /\ up' = [up EXCEPT ![c] = Append(@, LinkPacket(t, p.link, p.app))]
      /\ peerOpen' = IF t = "Opened"
                       THEN [peerOpen EXCEPT ![c] = @ \cup {<<p.link, p.app>>}]
                       ELSE peerOpen
      /\ UNCHANGED <<net, wshut, server, appSock>>

PeerConsume(c) ==
  /\ net[c] = "up" /\ down[c] # <<>> /\ Head(down[c]).type # "Open"
  /\ down' = [down EXCEPT ![c] = Tail(@)]
  /\ UNCHANGED <<up, net, wshut, server, appSock, peerOpen>>

PeerRead(c) == PeerConsume(c) \/ \E t \in {"Opened", "OpenFail"} : PeerAnswer(c, t)

PeerData(c, l) ==
  /\ net[c] = "up" /\ l \in peerOpen[c] /\ Len(up[c]) < Window
  /\ up' = [up EXCEPT ![c] = Append(@, LinkPacket("Regular", l[1], l[2]))]
  /\ UNCHANGED <<down, net, wshut, server, appSock, peerOpen>>

PeerClose(c, l) ==
  /\ net[c] = "up" /\ l \in peerOpen[c]
  /\ up' = [up EXCEPT ![c] = Append(@, LinkPacket("Close", l[1], l[2]))]
  /\ peerOpen' = [peerOpen EXCEPT ![c] = @ \ {l}]
  /\ UNCHANGED <<down, net, wshut, server, appSock>>

(* Keep-alive of an authenticated client.                                  *)
PeerPing(c) ==
  /\ "ping" \in PeerActs
  /\ net[c] = "up" /\ Len(up[c]) < Window
  /\ cpc[c] \notin {"idle", "prev", "auth"}
  /\ up' = [up EXCEPT ![c] = Append(@, ControlPacket("Ping"))]
  /\ UNCHANGED <<down, net, wshut, server, appSock, peerOpen>>

(* The client closes, or crashes with its host alive.  What it sent and    *)
(* has not arrived may be cut off.                                         *)
PeerGone(c) ==
  /\ net[c] = "up"
  /\ \E k \in 0 .. Len(up[c]) : up' = [up EXCEPT ![c] = SubSeq(@, 1, k)]
  /\ net'  = [net EXCEPT ![c] = "lost"]
  /\ down' = [down EXCEPT ![c] = <<>>]
  /\ peerOpen' = [peerOpen EXCEPT ![c] = {}]
  /\ UNCHANGED <<wshut, server, appSock>>

(* The client's host or the path vanishes: no FIN, no RST.                 *)
PeerSilent(c) ==
  /\ "silent" \in PeerActs /\ net[c] = "up"
  /\ net' = [net EXCEPT ![c] = IF down[c] = <<>> THEN "silent" ELSE "stalled"]
  /\ peerOpen' = [peerOpen EXCEPT ![c] = {}]
  /\ UNCHANGED <<up, down, wshut, server, appSock>>

(* Retransmissions of unacknowledged data are given up.                    *)
KernelTimeout(c) ==
  /\ net[c] = "stalled"
  /\ net'  = [net EXCEPT ![c] = "lost"]
  /\ down' = [down EXCEPT ![c] = <<>>]
  /\ UNCHANGED <<up, wshut, server, appSock, peerOpen>>

-----------------------------------------------------------------------------
(* Applications. *)

(* connect() to port_app; listen_app accepts and spawns the task.          *)
AppConnect(a) ==
  /\ sd # "exited" /\ asock[a] = "none" /\ apc[a] = "idle"
  /\ asock' = [asock EXCEPT ![a] = "open"]
  /\ apc'   = [apc EXCEPT ![a] = "newid"]
  /\ UNCHANGED <<wire, registry, connTask, linkId, client, acur, linkObj, wrote,
                 unread, foreign, sd, peerOpen>>

AppWrite(a) ==
  /\ asock[a] = "open" /\ wrote[a] < MaxWrites
  /\ wrote'  = [wrote EXCEPT ![a] = @ + 1]
  /\ unread' = [unread EXCEPT ![a] = @ + 1]
  /\ UNCHANGED <<wire, server, asock, foreign, peerOpen>>

(* FIN after everything written, or RST, which discards what is unread.    *)
AppClose(a) ==
  /\ asock[a] = "open"
  /\ \/ asock' = [asock EXCEPT ![a] = "fin"] /\ UNCHANGED unread
     \/ asock' = [asock EXCEPT ![a] = "rst"] /\ unread' = [unread EXCEPT ![a] = 0]
  /\ UNCHANGED <<wire, server, wrote, foreign, peerOpen>>

-----------------------------------------------------------------------------
(* Every task has ended, or waits for a client that will never speak; or   *)
(* the process is gone.                                                    *)
Terminated ==
  /\ \/ sd = "exited"
     \/ /\ \A a \in Apps : apc[a] \in {"done", "rejected"} /\ asock[a] # "open"
        /\ \A c \in Conns : \/ cpc[c] = "ended"
                            \/ cpc[c] = "loop" /\ net[c] = "silent" /\ up[c] = <<>>
  /\ UNCHANGED vars

ServerStep(c) == ConnStep(c) /\ UNCHANGED peerOpen
LinkStep(a)   == AppStep(a) /\ UNCHANGED peerOpen
Signal        == AllowShutdown /\ ShutdownStep /\ UNCHANGED peerOpen

PeerStep(c) ==
  \/ Connect(c) \/ PeerRead(c) \/ PeerPing(c) \/ PeerGone(c) \/ PeerSilent(c)
  \/ KernelTimeout(c)
  \/ \E l \in peerOpen[c] : PeerData(c, l) \/ PeerClose(c, l)

Next ==
  \/ \E c \in Conns : ServerStep(c) \/ PeerStep(c)
  \/ \E a \in Apps : LinkStep(a) \/ AppConnect(a) \/ AppWrite(a) \/ AppClose(a)
  \/ Signal
  \/ Terminated

(* The runtime polls every task that can make progress, and a kernel gives *)
(* up retransmitting after a while.  Strong fairness, because tokio's      *)
(* Mutex is FIFO: a task that waits for the writer gets its turn although  *)
(* Pongs keep filling the send buffer.                                     *)
Fairness ==
  /\ \A c \in Conns : SF_vars(ServerStep(c)) /\ WF_vars(KernelTimeout(c))
  /\ \A a \in Apps : SF_vars(LinkStep(a))

(* A client that is connected keeps reading its socket.                    *)
PeersRead == \A c \in Conns : WF_vars(PeerRead(c))

Spec     == Init /\ [][Next]_vars
FairSpec == Spec /\ Fairness
LiveSpec == Spec /\ Fairness /\ PeersRead

-----------------------------------------------------------------------------
(* Every variable keeps its type. *)
TypeOK ==
  /\ ServerTypeOK
  /\ peerOpen \in [Conns -> SUBSET (LinkId \X (Apps \cup {NoApp}))]

(* Until shutdown, a route in link_clients names a registered link, and    *)
(* its address is the one of the client that link sends to.  So neither    *)
(* remove_link nor the collection in cleanup_client can take the route of  *)
(* one link for that of another.                                           *)
RoutesRegistered ==
  sd = "running" =>
    \A i \in LinkId : link_clients[i] # NoAddr =>
      /\ links[i] # NoApp
      /\ link_clients[i] = AddrOf[client[links[i]]]

(* Data of a remote end reaches only the application connection it was     *)
(* opened for, although client_exchange looks the link up by number, in a  *)
(* registry that changes while the packet is on its way.                   *)
NoForeignData == \A a \in Apps : foreign[a] = {}

(* Once app_exchange has ended, its link is in no registry, and its socket *)
(* is shut down, or will be by the one task that took it out first.        *)
LinkReleased ==
  \A a \in Apps : apc[a] = "done" =>
    /\ \A i \in LinkId : links[i] # a
    /\ link_clients[linkId[a]] = NoAddr
    /\ \/ wclosed[a]
       \/ \E c \in Conns : cur[c] = a /\ cpc[c] \in {"shut", "releaseShut"}

(* The session store holds an entry for exactly the tasks between          *)
(* save_session and restore_session, and at least for every session in     *)
(* client_sessions.  Shutdown removes what it drains.                      *)
SessionsStored ==
  /\ ActiveSessions \subseteq session_store
  /\ \A c \in session_store :
       cpc[c] \in ConnPc \ {"idle", "prev", "auth", "connected", "save",
                            "empty", "waiting", "ended"}

(* A session that is registered, and so may be picked for a new link, has  *)
(* a writer that was not shut down, in whatever order the tasks of two     *)
(* connections from one address, and shutdown, get the registry's lock.    *)
RegisteredWritable == \A c \in ActiveSessions : ~wshut[c]

(* When the last client task has ended, the gateway is Waiting again,      *)
(* whichever order the tasks left in.                                      *)
StateSettles ==
  (\A c \in Conns : cpc[c] \in {"idle", "prev", "auth", "ended"})
    => state = "Waiting"

(* A client whose connection is not lost stays in client_sessions, where   *)
(* applications find it, whoever cleans up, registers or shuts down, until *)
(* the server shuts its writer down or registers another connection from   *)
(* the same address in its place.  So the cleanup_client of an older       *)
(* connection, which may come late, does not take a live session out with  *)
(* its own, and no task begins to clean up while its client is there.      *)
SessionKeptWhileUp ==
  [][\A c \in ActiveSessions \ ActiveSessions' :
       net[c] = "lost" \/ wshut'[c] \/ client_sessions'[AddrOf[c]] # NoConn]_vars

(* A link is shut down only by its own application task, by the task of    *)
(* the client it sends to, or by shutdown: clients do not disturb each     *)
(* other's links.                                                          *)
ClosedForCause ==
  [][\A a \in Apps : ~wclosed[a] /\ wclosed'[a] =>
       \/ apc[a] \in {"pick", "shut"}
       \/ client[a] # NoConn /\ cpc[client[a]] \in {"shut", "releaseShut"}
       \/ sd # sd']_vars

(* The task of a client whose connection is lost gets through its cleanup. *)
LostClientEnds == \A c \in Conns : net[c] = "lost" ~> cpc[c] = "ended"

Bound(a, c) == client[a] = c /\ links[linkId[a]] = a

(* A link routed to a client that is lost while its task is still reading  *)
(* leaves the registry, without the application's help.                    *)
RoutedLinksReleased ==
  \A a \in Apps, c \in Conns :
    (Bound(a, c) /\ link_clients[linkId[a]] = AddrOf[c]
       /\ cpc[c] = "loop" /\ net[c] = "lost") ~> ~Bound(a, c)

(* An application that closes its socket gets its task ended and its link  *)
(* released, also when the client is gone, silent or slow.                 *)
ClosedAppEnds ==
  \A a \in Apps : asock[a] \in {"fin", "rst"} ~> apc[a] \in {"done", "rejected"}

-----------------------------------------------------------------------------
(* What the documentation says and the code does not do: each is violated. *)

(* link.rs:24, a Waiting link waits "for the remote side to confirm the    *)
(* connection opening": a confirmed one does not go back to Waiting.       *)
ConfirmedStays ==
  [][\A a \in Apps : lstate[a] = "Connected" => lstate'[a] # "Waiting"]_vars

(* server.rs:245, "On connection loss, releases all links owned by this    *)
(* client": no link stays bound to a client whose task has ended.          *)
LostClientLinksReleased ==
  \A a \in Apps, c \in Conns : (Bound(a, c) /\ cpc[c] = "ended") ~> ~Bound(a, c)
=============================================================================
