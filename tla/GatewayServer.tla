---------------------------- MODULE GatewayServer ----------------------------
(***************************************************************************)
(* The gateway in server mode (server.rs, with the registry of mod.rs and  *)
(* the Link of link.rs).                                                   *)
(*                                                                         *)
(* Two kinds of tokio tasks share the registries:                          *)
(*   - one per client connection c: handle_gateway_connection, which turns *)
(*     into client_exchange and ends in cleanup_client;                    *)
(*   - one per application connection a: handle_app_connection, which      *)
(*     turns into app_exchange.                                            *)
(* Tasks may interleave at every .await that takes a lock or does I/O.  So *)
(* one action is what a task does under one lock, and cpc and apc name the *)
(* lock a task takes next.                                                 *)
(*                                                                         *)
(* The link object of an application connection (Arc<Mutex<Link>>) is      *)
(* identified with that connection, and a session_id with the connection   *)
(* it was generated for (UUIDs do not collide).                            *)
(***************************************************************************)
EXTENDS Wire

CONSTANTS
  Addrs,        \* SocketAddr values
  AddrOf,       \* AddrOf[c]: peer_addr() of connection c
  NoConn,       \* absent client session
  NoAddr        \* absent route

ASSUME AddrAssumption   == AddrOf \in [Conns -> Addrs]
ASSUME NoConnAssumption == NoConn \notin Conns
ASSUME NoAddrAssumption == NoAddr \notin Addrs

VARIABLES
  state,            \* Gateway.state
  links,            \* Gateway.links: id -> link object
  link_id_counter,  \* Gateway.link_id_counter
  client_sessions,  \* GatewayServer.client_sessions: addr -> session
  link_clients,     \* GatewayServer.link_clients: id -> addr
  session_store,    \* SessionStore.sessions, its keys
  cpc, pkt, cur, owned,          \* client connection tasks
  apc, linkId, client, acur,     \* application connection tasks
  lstate, wclosed,               \* Link.state, Link.writer shut down
  asock, wrote, unread, foreign, \* the application's end of its socket
  sd                \* graceful shutdown of the process

registry == <<state, links, link_id_counter, client_sessions, link_clients,
              session_store>>
connTask == <<cpc, pkt, cur, owned>>
appTask  == <<apc, linkId, client, acur>>
linkObj  == <<lstate, wclosed>>
appSock  == <<asock, wrote, unread, foreign>>

ConnPc == {"idle", "prev", "auth", "connected", "save", "insert", "loop",
           "pong", "deliver", "open", "unroute", "unlink", "shut",
           "sweep", "release", "releaseShut", "restore", "empty",
           "waiting", "ended"}
AppPc  == {"idle", "newid", "pick", "add", "route", "open", "wait", "read",
           "send", "close", "unroute", "unlink", "shut", "done", "rejected"}
SockState  == {"none", "open", "fin", "rst"}
LinkState  == {"Disconnected", "Waiting", "Connected"}
ShutdownPc == {"running", "sleeping", "drained", "exited"}

(* A client task's packet between two reads: out of scope.                  *)
NoPacket == ControlPacket("Pong")

ServerInit ==
  /\ WireInit
  /\ state           = "Waiting"
  /\ links           = [i \in LinkId |-> NoApp]
  /\ link_id_counter = 1
  /\ client_sessions = [d \in Addrs |-> NoConn]
  /\ link_clients    = [i \in LinkId |-> NoAddr]
  /\ session_store   = {}
  /\ cpc    = [c \in Conns |-> "idle"]
  /\ pkt    = [c \in Conns |-> NoPacket]
  /\ cur    = [c \in Conns |-> NoApp]
  /\ owned  = [c \in Conns |-> {}]
  /\ apc    = [a \in Apps |-> "idle"]
  /\ linkId = [a \in Apps |-> 0]
  /\ client = [a \in Apps |-> NoConn]
  /\ acur   = [a \in Apps |-> NoApp]
  /\ lstate  = [a \in Apps |-> "Disconnected"]
  /\ wclosed = [a \in Apps |-> FALSE]
  /\ asock  = [a \in Apps |-> "none"]
  /\ wrote  = [a \in Apps |-> 0]
  /\ unread = [a \in Apps |-> 0]
  /\ foreign = [a \in Apps |-> {}]
  /\ sd = "running"

ServerTypeOK ==
  /\ WireTypeOK
  /\ state           \in {"Waiting", "Connected"}
  /\ links           \in [LinkId -> Apps \cup {NoApp}]
  /\ link_id_counter \in LinkId
  /\ client_sessions \in [Addrs -> Conns \cup {NoConn}]
  /\ link_clients    \in [LinkId -> Addrs \cup {NoAddr}]
  /\ session_store   \in SUBSET Conns
  /\ cpc    \in [Conns -> ConnPc]
  /\ pkt    \in [Conns -> Packet]
  /\ cur    \in [Conns -> Apps \cup {NoApp}]
  /\ owned  \in [Conns -> SUBSET LinkId]
  /\ apc    \in [Apps -> AppPc]
  /\ linkId \in [Apps -> LinkId]
  /\ client \in [Apps -> Conns \cup {NoConn}]
  /\ acur   \in [Apps -> Apps \cup {NoApp}]
  /\ lstate  \in [Apps -> LinkState]
  /\ wclosed \in [Apps -> BOOLEAN]
  /\ asock  \in [Apps -> SockState]
  /\ wrote  \in [Apps -> Nat]
  /\ unread \in [Apps -> Nat]
  /\ foreign \in [Apps -> SUBSET (Apps \cup {NoApp})]
  /\ sd \in ShutdownPc

-----------------------------------------------------------------------------
(* The registries. *)

ActiveSessions == {client_sessions[d] : d \in Addrs} \ {NoConn}

(* Mutants: the filter on the address dropped, and nothing collected.      *)
RoutesOfAnyone(d) == {i \in LinkId : link_clients[i] # NoAddr}
RoutesOfNobody(d) == {}

RoutesOf(d) == {i \in LinkId : link_clients[i] = d}

(* Mutants: the counter not advanced, and advanced past its width.         *)
StuckLinkId    == link_id_counter
WideNextLinkId == link_id_counter + 1

(* Gateway::next_link_id.  wrapping_add: the successor of the last id is 0. *)
NextLinkId == (link_id_counter + 1) % LinkIdWidth

(* Gateway::remove_link takes the link out of the registry; close_connection *)
(* comes under the link's own lock, later.                                   *)
RegistryRemove(id) == links' = [links EXCEPT ![id] = NoApp]

(* Mutant: the route is forgotten.                                         *)
RouteKept(id) == UNCHANGED link_clients

RouteRemove(id) == link_clients' = [link_clients EXCEPT ![id] = NoAddr]

(* Mutant: the state changes, the socket is not shut down.                 *)
CloseStateOnly(a) ==
  /\ lstate' = [lstate EXCEPT ![a] = "Disconnected"]
  /\ UNCHANGED wclosed

(* Link::close_connection: shut the write half, leave the read half open.  *)
CloseConnection(a) ==
  /\ lstate'  = [lstate EXCEPT ![a] = "Disconnected"]
  /\ wclosed' = [wclosed EXCEPT ![a] = TRUE]

-----------------------------------------------------------------------------
(* Client connection c: handle_gateway_connection. *)

(* listen_gateway accepts a connection that exists and spawns its task.    *)
Accept(c) ==
  /\ cpc[c] = "idle" /\ net[c] # "none"
  /\ cpc' = [cpc EXCEPT ![c] = "prev"]
  /\ UNCHANGED <<wire, registry, pkt, cur, owned, appTask, linkObj, appSock, sd>>

(* Mutant: the old writer is shut down, its session stays registered.      *)
ShutPreviousOnly(c) ==
  /\ cpc[c] = "prev"
  /\ wshut' = [d \in Conns |-> wshut[d] \/ d = client_sessions[AddrOf[c]]]
  /\ cpc' = [cpc EXCEPT ![c] = "auth"]
  /\ UNCHANGED <<up, down, net, registry, pkt, cur, owned, appTask, linkObj,
                 appSock, sd>>

(* "Close the previous connection from this IP if present": the session    *)
(* leaves the registry and its writer is shut down under its mutex, both   *)
(* under the write lock of the registry.                                   *)
ClosePrevious(c) ==
  LET old == client_sessions[AddrOf[c]]
  IN  /\ cpc[c] = "prev"
      /\ client_sessions' = [client_sessions EXCEPT ![AddrOf[c]] = NoConn]
      /\ wshut' = [d \in Conns |-> wshut[d] \/ d = old]
      /\ cpc' = [cpc EXCEPT ![c] = "auth"]
      /\ UNCHANGED <<up, down, net, state, links, link_id_counter,
                     link_clients, session_store, pkt, cur, owned, appTask,
                     linkObj, appSock, sd>>

(* authenticate_client returns true: the response was right, GwConnected   *)
(* was accepted by the kernel.                                             *)
AuthOk(c) ==
  /\ cpc[c] = "auth"
  /\ cpc' = [cpc EXCEPT ![c] = "connected"]
  /\ net' = [net EXCEPT ![c] = IF @ = "silent" THEN "stalled" ELSE @]
  /\ UNCHANGED <<up, down, wshut, registry, pkt, cur, owned, appTask, linkObj,
                 appSock, sd>>

(* authenticate_client returns false (wrong response, timeout, connection  *)
(* lost): the task returns, which drops and so closes the socket.          *)
AuthFail(c) ==
  /\ cpc[c] = "auth"
  /\ cpc' = [cpc EXCEPT ![c] = "ended"]
  /\ net' = [net EXCEPT ![c] = "lost"]
  /\ UNCHANGED <<up, down, wshut, registry, pkt, cur, owned, appTask, linkObj,
                 appSock, sd>>

SetConnected(c) ==
  /\ cpc[c] = "connected"
  /\ state' = "Connected"
  /\ cpc' = [cpc EXCEPT ![c] = "save"]
  /\ UNCHANGED <<wire, links, link_id_counter, client_sessions, link_clients,
                 session_store, pkt, cur, owned, appTask, linkObj, appSock, sd>>

(* Mutant: the session is registered without having been saved.            *)
SaveNothing(c) ==
  /\ cpc[c] = "save"
  /\ cpc' = [cpc EXCEPT ![c] = "insert"]
  /\ UNCHANGED <<wire, registry, pkt, cur, owned, appTask, linkObj, appSock, sd>>

(* SessionStore::save_session, with an empty list of links.                *)
SaveSession(c) ==
  /\ cpc[c] = "save"
  /\ session_store' = session_store \cup {c}
  /\ cpc' = [cpc EXCEPT ![c] = "insert"]
  /\ UNCHANGED <<wire, state, links, link_id_counter, client_sessions,
                 link_clients, pkt, cur, owned, appTask, linkObj, appSock, sd>>

InsertSession(c) ==
  /\ cpc[c] = "insert"
  /\ client_sessions' = [client_sessions EXCEPT ![AddrOf[c]] = c]
  /\ cpc' = [cpc EXCEPT ![c] = "loop"]
  /\ UNCHANGED <<wire, state, links, link_id_counter, link_clients,
                 session_store, pkt, cur, owned, appTask, linkObj, appSock, sd>>

-----------------------------------------------------------------------------
(* Client connection c: client_exchange. *)

(* The step that follows the receipt of a packet, by its type.  A Pong, and *)
(* any type the match does not name, is ignored.                            *)
Dispatch(t) ==
  CASE t = "Ping"                  -> "pong"
    [] t = "Regular"               -> "deliver"
    [] t = "Opened"                -> "open"
    [] t \in {"OpenFail", "Close"} -> "unroute"
    [] OTHER                       -> "loop"

(* read_packet returns Some.  For Regular and Opened the link is cloned    *)
(* from the registry, to be locked later.                                  *)
ReadPacket(c) ==
  LET p == Head(up[c])
  IN  /\ cpc[c] = "loop" /\ up[c] # <<>>
      /\ up'  = [up EXCEPT ![c] = Tail(@)]
      /\ pkt' = [pkt EXCEPT ![c] = p]
      /\ cur' = [cur EXCEPT ![c] = IF p.type \in {"Regular", "Opened"}
                                     THEN links[p.link] ELSE NoApp]
      /\ cpc' = [cpc EXCEPT ![c] = Dispatch(p.type)]
      /\ UNCHANGED <<down, net, wshut, registry, owned, appTask, linkObj,
                     appSock, sd>>

(* Mutant: a read error makes the loop try again.                          *)
ReadEndRetried(c) ==
  /\ cpc[c] = "loop" /\ up[c] = <<>> /\ net[c] = "lost"
  /\ UNCHANGED <<wire, registry, connTask, appTask, linkObj, appSock, sd>>

(* read_packet returns None: end of stream or an error.  (The GwDeny exit  *)
(* of the loop is not taken: no gateway client sends that packet.)         *)
ReadEnd(c) ==
  /\ cpc[c] = "loop" /\ up[c] = <<>> /\ net[c] = "lost"
  /\ cpc' = [cpc EXCEPT ![c] = "sweep"]
  /\ UNCHANGED <<wire, registry, pkt, cur, owned, appTask, linkObj, appSock, sd>>

(* send_pong; a write error is ignored.                                    *)
SendPong(c) ==
  /\ cpc[c] = "pong"
  /\ WriteOk(c, ControlPacket("Pong")) \/ WriteErr(c)
  /\ cpc' = [cpc EXCEPT ![c] = "loop"]
  /\ pkt' = [pkt EXCEPT ![c] = NoPacket]
  /\ UNCHANGED <<registry, cur, owned, appTask, linkObj, appSock, sd>>

(* Link::send_packet under the link's lock.  The data reaches the          *)
(* application only if the link is Connected and its writer still works.   *)
(* foreign keeps where it came from, if not from a's own remote end.       *)
Deliver(c) ==
  LET a   == cur[c]
      got == a # NoApp /\ lstate[a] = "Connected" /\ ~wclosed[a]
               /\ asock[a] # "rst"
  IN  /\ cpc[c] = "deliver"
      /\ foreign' = IF got THEN [foreign EXCEPT ![a] = @ \cup ({pkt[c].app} \ {a})]
                           ELSE foreign
      /\ cpc' = [cpc EXCEPT ![c] = "loop"]
      /\ cur' = [cur EXCEPT ![c] = NoApp]
      /\ pkt' = [pkt EXCEPT ![c] = NoPacket]
      /\ UNCHANGED <<wire, registry, owned, appTask, linkObj, asock,
                     wrote, unread, sd>>

(* Opened: set_state(Connected) under the link's lock.                     *)
ConfirmOpen(c) ==
  LET a == cur[c]
  IN  /\ cpc[c] = "open"
      /\ lstate' = IF a = NoApp THEN lstate
                                ELSE [lstate EXCEPT ![a] = "Connected"]
      /\ cpc' = [cpc EXCEPT ![c] = "loop"]
      /\ cur' = [cur EXCEPT ![c] = NoApp]
      /\ pkt' = [pkt EXCEPT ![c] = NoPacket]
      /\ UNCHANGED <<wire, registry, owned, appTask, wclosed, appSock, sd>>

(* remove_link on OpenFail or Close: route, registry, then the link.       *)
ConnUnroute(c) ==
  /\ cpc[c] = "unroute"
  /\ RouteRemove(pkt[c].link)
  /\ cpc' = [cpc EXCEPT ![c] = "unlink"]
  /\ UNCHANGED <<wire, state, links, link_id_counter, client_sessions,
                 session_store, pkt, cur, owned, appTask, linkObj, appSock, sd>>

ConnUnlink(c) ==
  /\ cpc[c] = "unlink"
  /\ RegistryRemove(pkt[c].link)
  /\ cur' = [cur EXCEPT ![c] = links[pkt[c].link]]
  /\ cpc' = [cpc EXCEPT ![c] = "shut"]
  /\ UNCHANGED <<wire, state, link_id_counter, client_sessions, link_clients,
                 session_store, pkt, owned, appTask, linkObj, appSock, sd>>

ConnShut(c) ==
  /\ cpc[c] = "shut"
  /\ IF cur[c] = NoApp THEN UNCHANGED linkObj ELSE CloseConnection(cur[c])
  /\ cur' = [cur EXCEPT ![c] = NoApp]
  /\ pkt' = [pkt EXCEPT ![c] = NoPacket]
  /\ cpc' = [cpc EXCEPT ![c] = "loop"]
  /\ UNCHANGED <<wire, registry, owned, appTask, appSock, sd>>

-----------------------------------------------------------------------------
(* Client connection c: cleanup_client. *)

(* "Collect and remove routes owned by this client", found by address.     *)
Sweep(c) ==
  /\ cpc[c] = "sweep"
  /\ owned' = [owned EXCEPT ![c] = RoutesOf(AddrOf[c])]
  /\ link_clients' = [i \in LinkId |-> IF link_clients[i] = AddrOf[c]
                                         THEN NoAddr ELSE link_clients[i]]
  /\ cpc' = [cpc EXCEPT ![c] = "release"]
  /\ UNCHANGED <<wire, state, links, link_id_counter, client_sessions,
                 session_store, pkt, cur, appTask, linkObj, appSock, sd>>

(* One turn of the loop over owned_link_ids: remove_link, then close.      *)
Release(c, id) ==
  /\ cpc[c] = "release" /\ id \in owned[c]
  /\ RegistryRemove(id)
  /\ cur'   = [cur EXCEPT ![c] = links[id]]
  /\ owned' = [owned EXCEPT ![c] = @ \ {id}]
  /\ cpc'   = [cpc EXCEPT ![c] = "releaseShut"]
  /\ UNCHANGED <<wire, state, link_id_counter, client_sessions, link_clients,
                 session_store, pkt, appTask, linkObj, appSock, sd>>

ReleaseShut(c) ==
  /\ cpc[c] = "releaseShut"
  /\ IF cur[c] = NoApp THEN UNCHANGED linkObj ELSE CloseConnection(cur[c])
  /\ cur' = [cur EXCEPT ![c] = NoApp]
  /\ cpc' = [cpc EXCEPT ![c] = "release"]
  /\ UNCHANGED <<wire, registry, pkt, owned, appTask, appSock, sd>>

(* Mutants: whatever session the address has is removed, and none is.      *)
ForgetAny(c) ==
  /\ cpc[c] = "release" /\ owned[c] = {}
  /\ client_sessions' = [client_sessions EXCEPT ![AddrOf[c]] = NoConn]
  /\ cpc' = [cpc EXCEPT ![c] = "restore"]
  /\ UNCHANGED <<wire, state, links, link_id_counter, link_clients,
                 session_store, pkt, cur, owned, appTask, linkObj, appSock, sd>>

ForgetNone(c) ==
  /\ cpc[c] = "release" /\ owned[c] = {}
  /\ cpc' = [cpc EXCEPT ![c] = "restore"]
  /\ UNCHANGED <<wire, registry, pkt, cur, owned, appTask, linkObj, appSock, sd>>

(* "Remove the session only if it was not replaced by a newer one".        *)
ForgetSession(c) ==
  /\ cpc[c] = "release" /\ owned[c] = {}
  /\ client_sessions' = IF client_sessions[AddrOf[c]] = c
                          THEN [client_sessions EXCEPT ![AddrOf[c]] = NoConn]
                          ELSE client_sessions
  /\ cpc' = [cpc EXCEPT ![c] = "restore"]
  /\ UNCHANGED <<wire, state, links, link_id_counter, link_clients,
                 session_store, pkt, cur, owned, appTask, linkObj, appSock, sd>>

(* SessionStore::restore_session removes the entry it returns.             *)
RestoreSession(c) ==
  /\ cpc[c] = "restore"
  /\ session_store' = session_store \ {c}
  /\ cpc' = [cpc EXCEPT ![c] = "empty"]
  /\ UNCHANGED <<wire, state, links, link_id_counter, client_sessions,
                 link_clients, pkt, cur, owned, appTask, linkObj, appSock, sd>>

(* is_empty is read under one lock, the state written under another.  The  *)
(* task then ends; the last holder of the writer closes the socket.        *)
CheckEmpty(c) ==
  /\ cpc[c] = "empty"
  /\ cpc' = [cpc EXCEPT ![c] = IF ActiveSessions = {} THEN "waiting"
                                                      ELSE "ended"]
  /\ UNCHANGED <<wire, registry, pkt, cur, owned, appTask, linkObj, appSock, sd>>

SetWaiting(c) ==
  /\ cpc[c] = "waiting"
  /\ state' = "Waiting"
  /\ cpc' = [cpc EXCEPT ![c] = "ended"]
  /\ UNCHANGED <<wire, links, link_id_counter, client_sessions, link_clients,
                 session_store, pkt, cur, owned, appTask, linkObj, appSock, sd>>

ConnStep(c) ==
  /\ sd # "exited"
  /\ \/ Accept(c) \/ ClosePrevious(c) \/ AuthOk(c) \/ AuthFail(c)
     \/ SetConnected(c) \/ SaveSession(c) \/ InsertSession(c)
     \/ ReadPacket(c) \/ ReadEnd(c) \/ SendPong(c) \/ Deliver(c)
     \/ ConfirmOpen(c) \/ ConnUnroute(c) \/ ConnUnlink(c) \/ ConnShut(c)
     \/ Sweep(c) \/ (\E id \in LinkId : Release(c, id)) \/ ReleaseShut(c)
     \/ ForgetSession(c) \/ RestoreSession(c) \/ CheckEmpty(c) \/ SetWaiting(c)

-----------------------------------------------------------------------------
(* Application connection a: handle_app_connection. *)

TakeLinkId(a) ==
  /\ apc[a] = "newid"
  /\ linkId' = [linkId EXCEPT ![a] = link_id_counter]
  /\ link_id_counter' = NextLinkId
  /\ apc' = [apc EXCEPT ![a] = "pick"]
  /\ UNCHANGED <<wire, state, links, client_sessions, link_clients,
                 session_store, connTask, client, acur, linkObj, appSock, sd>>

(* sessions.values().next(): any session, HashMap order is unspecified.    *)
PickClient(a, c) ==
  /\ apc[a] = "pick" /\ c \in ActiveSessions
  /\ client' = [client EXCEPT ![a] = c]
  /\ apc' = [apc EXCEPT ![a] = "add"]
  /\ UNCHANGED <<wire, registry, connTask, linkId, acur, linkObj, appSock, sd>>

(* No client: the application's stream is shut down and dropped.           *)
Reject(a) ==
  /\ apc[a] = "pick" /\ ActiveSessions = {}
  /\ apc' = [apc EXCEPT ![a] = "rejected"]
  /\ wclosed' = [wclosed EXCEPT ![a] = TRUE]
  /\ UNCHANGED <<wire, registry, connTask, linkId, client, acur, lstate, appSock, sd>>

(* Link::new and Gateway::add_link: HashMap::insert replaces silently.     *)
AddLink(a) ==
  /\ apc[a] = "add"
  /\ links' = [links EXCEPT ![linkId[a]] = a]
  /\ apc' = [apc EXCEPT ![a] = "route"]
  /\ UNCHANGED <<wire, state, link_id_counter, client_sessions, link_clients,
                 session_store, connTask, linkId, client, acur, linkObj,
                 appSock, sd>>

AddRoute(a) ==
  /\ apc[a] = "route"
  /\ link_clients' = [link_clients EXCEPT ![linkId[a]] = AddrOf[client[a]]]
  /\ apc' = [apc EXCEPT ![a] = "open"]
  /\ UNCHANGED <<wire, state, links, link_id_counter, client_sessions,
                 session_store, connTask, linkId, client, acur, linkObj,
                 appSock, sd>>

(* A failed Open is only logged.                                           *)
SendOpen(a) ==
  /\ apc[a] = "open"
  /\ \/ WriteOk(client[a], LinkPacket("Open", linkId[a], a))
     \/ WriteErr(client[a])
  /\ apc' = [apc EXCEPT ![a] = "wait"]
  /\ UNCHANGED <<registry, connTask, linkId, client, acur, linkObj, appSock, sd>>

(* set_state(Waiting), whatever the state has become meanwhile.            *)
SetLinkWaiting(a) ==
  /\ apc[a] = "wait"
  /\ lstate' = [lstate EXCEPT ![a] = "Waiting"]
  /\ apc' = [apc EXCEPT ![a] = "read"]
  /\ UNCHANGED <<wire, registry, connTask, linkId, client, acur, wclosed, appSock, sd>>

-----------------------------------------------------------------------------
(* Application connection a: app_exchange. *)

ReadApp(a) ==
  /\ apc[a] = "read" /\ unread[a] > 0
  /\ unread' = [unread EXCEPT ![a] = @ - 1]
  /\ apc' = [apc EXCEPT ![a] = "send"]
  /\ UNCHANGED <<wire, registry, connTask, linkId, client, acur, linkObj,
                 asock, wrote, foreign, sd>>

ReadAppEnd(a) ==
  /\ apc[a] = "read"
  /\ asock[a] = "rst" \/ (asock[a] = "fin" /\ unread[a] = 0)
  /\ apc' = [apc EXCEPT ![a] = "close"]
  /\ UNCHANGED <<wire, registry, connTask, linkId, client, acur, linkObj,
                 appSock, sd>>

(* Mutant: a failed write is tried again.                                  *)
SendDataRetried(a) ==
  /\ apc[a] = "send"
  /\ \/ /\ net[client[a]] # "lost"
        /\ WriteOk(client[a], LinkPacket("Regular", linkId[a], a))
        /\ apc' = [apc EXCEPT ![a] = "read"]
     \/ WriteErr(client[a]) /\ UNCHANGED apc
  /\ UNCHANGED <<registry, connTask, linkId, client, acur, linkObj, appSock, sd>>

SendData(a) ==
  /\ apc[a] = "send"
  /\ \/ /\ WriteOk(client[a], LinkPacket("Regular", linkId[a], a))
        /\ apc' = [apc EXCEPT ![a] = "read"]
     \/ /\ WriteErr(client[a])
        /\ apc' = [apc EXCEPT ![a] = "close"]
  /\ UNCHANGED <<registry, connTask, linkId, client, acur, linkObj, appSock, sd>>

SendClose(a) ==
  /\ apc[a] = "close"
  /\ \/ WriteOk(client[a], LinkPacket("Close", linkId[a], a))
     \/ WriteErr(client[a])
  /\ apc' = [apc EXCEPT ![a] = "unroute"]
  /\ UNCHANGED <<registry, connTask, linkId, client, acur, linkObj, appSock, sd>>

(* remove_link, as on the other side: route, registry, then the link.      *)
AppUnroute(a) ==
  /\ apc[a] = "unroute"
  /\ RouteRemove(linkId[a])
  /\ apc' = [apc EXCEPT ![a] = "unlink"]
  /\ UNCHANGED <<wire, state, links, link_id_counter, client_sessions,
                 session_store, connTask, linkId, client, acur, linkObj,
                 appSock, sd>>

AppUnlink(a) ==
  /\ apc[a] = "unlink"
  /\ RegistryRemove(linkId[a])
  /\ acur' = [acur EXCEPT ![a] = links[linkId[a]]]
  /\ apc' = [apc EXCEPT ![a] = "shut"]
  /\ UNCHANGED <<wire, state, link_id_counter, client_sessions, link_clients,
                 session_store, connTask, linkId, client, linkObj, appSock, sd>>

AppShut(a) ==
  /\ apc[a] = "shut"
  /\ IF acur[a] = NoApp THEN UNCHANGED linkObj ELSE CloseConnection(acur[a])
  /\ acur' = [acur EXCEPT ![a] = NoApp]
  /\ apc' = [apc EXCEPT ![a] = "done"]
  /\ UNCHANGED <<wire, registry, connTask, linkId, client, appSock, sd>>

AppStep(a) ==
  /\ sd # "exited"
  /\ \/ TakeLinkId(a) \/ (\E c \in Conns : PickClient(a, c)) \/ Reject(a)
     \/ AddLink(a) \/ AddRoute(a) \/ SendOpen(a) \/ SetLinkWaiting(a)
     \/ ReadApp(a) \/ ReadAppEnd(a) \/ SendData(a) \/ SendClose(a)
     \/ AppUnroute(a) \/ AppUnlink(a) \/ AppShut(a)

-----------------------------------------------------------------------------
(* Graceful shutdown: GatewayServer::shutdown, called by main on a signal. *)

(* Mutant: the registry is emptied, the links are not closed.              *)
ClearAllLinks ==
  /\ sd = "running"
  /\ links' = [i \in LinkId |-> NoApp]
  /\ sd' = "sleeping"
  /\ UNCHANGED <<wire, state, link_id_counter, client_sessions, link_clients,
                 session_store, connTask, appTask, linkObj, appSock>>

(* Gateway::shutdown begins with close_all_links, under the registry lock. *)
CloseAllLinks ==
  LET live == {links[i] : i \in LinkId} \ {NoApp}
  IN  /\ sd = "running"
      /\ links'   = [i \in LinkId |-> NoApp]
      /\ lstate'  = [a \in Apps |-> IF a \in live THEN "Disconnected"
                                                  ELSE lstate[a]]
      /\ wclosed' = [a \in Apps |-> a \in live \/ wclosed[a]]
      /\ sd' = "sleeping"
      /\ UNCHANGED <<wire, state, link_id_counter, client_sessions,
                     link_clients, session_store, connTask, appTask, appSock>>

(* After two seconds of sleep, the sessions are drained, each writer shut  *)
(* down under its mutex: after the write of a task that holds it, and      *)
(* before that of a task that waits for it.  The routes stay.              *)
DrainSessions ==
  /\ sd = "sleeping"
  /\ wshut' = [c \in Conns |-> wshut[c] \/ c \in ActiveSessions]
  /\ session_store'   = session_store \ ActiveSessions
  /\ client_sessions' = [d \in Addrs |-> NoConn]
  /\ sd' = "drained"
  /\ UNCHANGED <<up, down, net, state, links, link_id_counter, link_clients,
                 connTask, appTask, linkObj, appSock>>

(* main returns: the runtime drops every task.                             *)
Exit ==
  /\ sd = "drained"
  /\ sd' = "exited"
  /\ UNCHANGED <<wire, registry, connTask, appTask, linkObj, appSock>>

ShutdownStep == CloseAllLinks \/ DrainSessions \/ Exit

=============================================================================
