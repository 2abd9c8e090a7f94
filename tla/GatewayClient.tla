---------------------------- MODULE GatewayClient ----------------------------
(***************************************************************************)
(* The gateway in client mode (client.rs, with the registry of mod.rs and  *)
(* the Link of link.rs).                                                   *)
(*                                                                         *)
(* Tasks of the process:                                                   *)
(*   - run: connect, authenticate, gateway_exchange, on_disconnection, and *)
(*     again from the start (mpc);                                         *)
(*   - one start_ping_loop for each connection that got that far (ping);   *)
(*   - one app_exchange for each link (apc), which is not stopped when the *)
(*     connection that its packets go to is lost.                          *)
(* One action is what a task does under one lock, and mpc and apc name the *)
(* lock a task takes next.                                                 *)
(*                                                                         *)
(* The link made for an Open is identified with the application connection *)
(* at the server that the Open is about.  The field gw_reader is left out: *)
(* it is written and never read.                                           *)
(***************************************************************************)
EXTENDS Naturals, Sequences

CONSTANTS Conns, Apps, LinkIdWidth, NoApp, SendBuffer,  \* as in Wire
          NoConn                                        \* absent connection

ASSUME ClientWidthAssumption  == LinkIdWidth \in Nat /\ LinkIdWidth > 1
ASSUME ClientNoAppAssumption  == NoApp \notin Apps
ASSUME ClientNoConnAssumption == NoConn \notin Conns

VARIABLES
  inbox, outbox, net, wshut,     \* connections to the server
  state, links,                  \* Gateway.state, Gateway.links
  gw_writer,                     \* GatewayClient.gw_writer
  mpc, conn, pkt, cur,           \* the task of run
  ping,                          \* ping loops
  apc, linkId, writer,           \* app_exchange tasks
  lstate, wclosed,               \* Link.state, Link.writer shut down
  asock, wrote, unread, foreign, \* the local application's end of its socket
  sd                             \* graceful shutdown of the process

(* The wire seen from this end: what the client writes is the outbox.      *)
Chan == INSTANCE Wire WITH up <- inbox, down <- outbox

wire     == <<inbox, outbox, net, wshut>>
registry == <<state, links, gw_writer>>
runTask  == <<mpc, conn, pkt, cur>>
appTask  == <<apc, linkId, writer>>
linkObj  == <<lstate, wclosed>>
appSock  == <<asock, wrote, unread, foreign>>

RunPc == {"connect", "sleep", "store", "processing", "auth", "discard",
          "connected", "loop", "pong", "dial", "add", "confirm", "opened",
          "openfail", "unlink", "shut", "forward", "closeall", "forget",
          "waiting"}
AppPc == {"idle", "read", "send", "close", "unlink", "done"}
PingState  == {"off", "on", "ended"}
SockState  == {"none", "open", "fin", "rst"}
LinkState  == {"Disconnected", "Connected"}
ShutdownPc == {"running", "sleeping", "drained", "exited"}

NoPacket == Chan!ControlPacket("Pong")

ClientInit ==
  /\ Chan!WireInit
  /\ state     = "Waiting"
  /\ links     = [i \in Chan!LinkId |-> NoApp]
  /\ gw_writer = NoConn
  /\ mpc  = "connect"
  /\ conn = NoConn
  /\ pkt  = NoPacket
  /\ cur  = NoApp
  /\ ping = [c \in Conns |-> "off"]
  /\ apc     = [a \in Apps |-> "idle"]
  /\ linkId  = [a \in Apps |-> 0]
  /\ writer  = [a \in Apps |-> NoConn]
  /\ lstate  = [a \in Apps |-> "Disconnected"]
  /\ wclosed = [a \in Apps |-> FALSE]
  /\ asock   = [a \in Apps |-> "none"]
  /\ wrote   = [a \in Apps |-> 0]
  /\ unread  = [a \in Apps |-> 0]
  /\ foreign = [a \in Apps |-> {}]
  /\ sd = "running"

ClientTypeOK ==
  /\ Chan!WireTypeOK
  /\ state     \in {"Waiting", "Processing", "Connected"}
  /\ links     \in [Chan!LinkId -> Apps \cup {NoApp}]
  /\ gw_writer \in Conns \cup {NoConn}
  /\ mpc  \in RunPc
  /\ conn \in Conns \cup {NoConn}
  /\ pkt  \in Chan!Packet
  /\ cur  \in Apps \cup {NoApp}
  /\ ping \in [Conns -> PingState]
  /\ apc     \in [Apps -> AppPc]
  /\ linkId  \in [Apps -> Chan!LinkId]
  /\ writer  \in [Apps -> Conns \cup {NoConn}]
  /\ lstate  \in [Apps -> LinkState]
  /\ wclosed \in [Apps -> BOOLEAN]
  /\ asock   \in [Apps -> SockState]
  /\ wrote   \in [Apps -> Nat]
  /\ unread  \in [Apps -> Nat]
  /\ foreign \in [Apps -> SUBSET (Apps \cup {NoApp})]
  /\ sd \in ShutdownPc

-----------------------------------------------------------------------------
(* run: connect_gateway and on_connection. *)

(* TcpStream::connect succeeds.                                            *)
ConnectGateway(c) ==
  /\ mpc = "connect" /\ net[c] = "none"
  /\ net' = [net EXCEPT ![c] = "up"]
  /\ conn' = c
  /\ mpc' = "store"
  /\ UNCHANGED <<inbox, outbox, wshut, registry, pkt, cur, ping, appTask,
                 linkObj, appSock, sd>>

(* It fails: "Retrying connection..." after GW_RECONNECT_TIMEOUT.          *)
ConnectFail ==
  /\ mpc = "connect"
  /\ mpc' = "sleep"
  /\ UNCHANGED <<wire, registry, conn, pkt, cur, ping, appTask, linkObj,
                 appSock, sd>>

Retry ==
  /\ mpc = "sleep"
  /\ mpc' = "connect"
  /\ UNCHANGED <<wire, registry, conn, pkt, cur, ping, appTask, linkObj,
                 appSock, sd>>

StoreWriter ==
  /\ mpc = "store"
  /\ gw_writer' = conn
  /\ mpc' = "processing"
  /\ UNCHANGED <<wire, state, links, conn, pkt, cur, ping, appTask, linkObj,
                 appSock, sd>>

SetProcessing ==
  /\ mpc = "processing"
  /\ state' = "Processing"
  /\ mpc' = "auth"
  /\ UNCHANGED <<wire, links, gw_writer, conn, pkt, cur, ping, appTask,
                 linkObj, appSock, sd>>

(* gw_authenticate returns true: the server confirmed a version that fits. *)
AuthOk ==
  /\ mpc = "auth" /\ net[conn] = "up"
  /\ mpc' = "connected"
  /\ UNCHANGED <<wire, registry, conn, pkt, cur, ping, appTask, linkObj,
                 appSock, sd>>

(* It returns false: refused, not understood, or the connection was lost.  *)
(* A server that falls silent is waited for: the reads have no timeout.    *)
AuthFail ==
  /\ mpc = "auth" /\ net[conn] \in {"up", "lost"}
  /\ mpc' = "discard"
  /\ UNCHANGED <<wire, registry, conn, pkt, cur, ping, appTask, linkObj,
                 appSock, sd>>

(* gw_writer is cleared and on_connection returns: the socket is closed.   *)
DiscardWriter ==
  /\ mpc = "discard"
  /\ gw_writer' = NoConn
  /\ net' = [net EXCEPT ![conn] = "lost"]
  /\ mpc' = "closeall"
  /\ UNCHANGED <<inbox, outbox, wshut, state, links, conn, pkt, cur, ping,
                 appTask, linkObj, appSock, sd>>

(* The ping loop is spawned, and gateway_exchange entered.                 *)
SetConnected ==
  /\ mpc = "connected"
  /\ state' = "Connected"
  /\ ping' = [ping EXCEPT ![conn] = "on"]
  /\ mpc' = "loop"
  /\ UNCHANGED <<wire, links, gw_writer, conn, pkt, cur, appTask, linkObj,
                 appSock, sd>>

-----------------------------------------------------------------------------
(* run: gateway_exchange. *)

(* Types the match does not name, and Pong, are not answered.              *)
Dispatch(t) ==
  CASE t = "Ping"    -> "pong"
    [] t = "Open"    -> "dial"
    [] t = "Close"   -> "unlink"
    [] t = "Regular" -> "forward"
    [] OTHER         -> "loop"

ReadPacket ==
  /\ mpc = "loop" /\ inbox[conn] # <<>>
  /\ pkt' = Head(inbox[conn])
  /\ inbox' = [inbox EXCEPT ![conn] = Tail(@)]
  /\ mpc' = Dispatch(pkt'.type)
  /\ UNCHANGED <<outbox, net, wshut, registry, conn, cur, ping, appTask,
                 linkObj, appSock, sd>>

(* Mutant: a read error makes the loop try again.                          *)
ReadEndRetried ==
  /\ mpc = "loop" /\ inbox[conn] = <<>> /\ net[conn] = "lost"
  /\ UNCHANGED <<wire, registry, runTask, ping, appTask, linkObj, appSock, sd>>

(* End of stream, or an error.  (No server sends GwDeny this late.)        *)
ReadEnd ==
  /\ mpc = "loop" /\ inbox[conn] = <<>> /\ net[conn] = "lost"
  /\ mpc' = "closeall"
  /\ UNCHANGED <<wire, registry, conn, pkt, cur, ping, appTask, linkObj,
                 appSock, sd>>

(* An answer: send_pong, send_opened, send_open_fail.  Errors are ignored. *)
Answer(c, p) == Chan!WriteOk(c, p) \/ Chan!WriteErr(c)

SendPong ==
  /\ mpc = "pong"
  /\ Answer(conn, Chan!ControlPacket("Pong"))
  /\ mpc' = "loop"
  /\ pkt' = NoPacket
  /\ UNCHANGED <<registry, conn, cur, ping, appTask, linkObj, appSock, sd>>

(* connect_client: TcpStream::connect to the application, Link::new.       *)
Dial ==
  LET a == pkt.app
  IN  /\ mpc = "dial"
      /\ cur' = a
      /\ linkId' = [linkId EXCEPT ![a] = pkt.link]
      /\ writer' = [writer EXCEPT ![a] = conn]
      /\ asock'  = [asock EXCEPT ![a] = "open"]
      /\ mpc' = "add"
      /\ UNCHANGED <<wire, registry, conn, pkt, ping, apc, linkObj, wrote,
                     unread, foreign, sd>>

DialFail ==
  /\ mpc = "dial"
  /\ mpc' = "openfail"
  /\ UNCHANGED <<wire, registry, conn, pkt, cur, ping, appTask, linkObj,
                 appSock, sd>>

SendOpenFail ==
  /\ mpc = "openfail"
  /\ Answer(conn, Chan!LinkPacket("OpenFail", pkt.link, pkt.app))
  /\ mpc' = "loop"
  /\ pkt' = NoPacket
  /\ UNCHANGED <<registry, conn, cur, ping, appTask, linkObj, appSock, sd>>

(* Gateway::add_link: HashMap::insert replaces silently.                   *)
AddLink ==
  /\ mpc = "add"
  /\ links' = [links EXCEPT ![pkt.link] = cur]
  /\ mpc' = "confirm"
  /\ UNCHANGED <<wire, state, gw_writer, conn, pkt, cur, ping, appTask,
                 linkObj, appSock, sd>>

(* Mutant: app_exchange is spawned before Opened is sent.                  *)
ConfirmAndSpawn ==
  /\ mpc = "confirm"
  /\ lstate' = [lstate EXCEPT ![cur] = "Connected"]
  /\ apc' = [apc EXCEPT ![cur] = "read"]
  /\ mpc' = "opened"
  /\ UNCHANGED <<wire, registry, conn, pkt, cur, ping, linkId, writer, wclosed,
                 appSock, sd>>

ConfirmLink ==
  /\ mpc = "confirm"
  /\ lstate' = [lstate EXCEPT ![cur] = "Connected"]
  /\ mpc' = "opened"
  /\ UNCHANGED <<wire, registry, conn, pkt, cur, ping, appTask, wclosed,
                 appSock, sd>>

(* Opened is sent, and then app_exchange spawned.                          *)
SendOpened ==
  /\ mpc = "opened"
  /\ Answer(conn, Chan!LinkPacket("Opened", pkt.link, cur))
  /\ apc' = [apc EXCEPT ![cur] = "read"]
  /\ mpc' = "loop"
  /\ pkt' = NoPacket
  /\ cur' = NoApp
  /\ UNCHANGED <<registry, conn, ping, linkId, writer, linkObj, appSock, sd>>

(* Close: remove_link, then close_connection under the link's lock.        *)
Unlink ==
  /\ mpc = "unlink"
  /\ cur' = links[pkt.link]
  /\ links' = [links EXCEPT ![pkt.link] = NoApp]
  /\ mpc' = "shut"
  /\ UNCHANGED <<wire, state, gw_writer, conn, pkt, ping, appTask, linkObj,
                 appSock, sd>>

ShutLink ==
  /\ mpc = "shut"
  /\ lstate'  = [a \in Apps |-> IF a = cur THEN "Disconnected" ELSE lstate[a]]
  /\ wclosed' = [a \in Apps |-> a = cur \/ wclosed[a]]
  /\ mpc' = "loop"
  /\ pkt' = NoPacket
  /\ cur' = NoApp
  /\ UNCHANGED <<wire, registry, conn, ping, appTask, appSock, sd>>

(* forward_to_app holds the registry's read lock and the link's lock while *)
(* it writes, so the link it finds is the one it writes to.  foreign keeps *)
(* where the data came from, if not from a's own remote end.               *)
Forward ==
  LET a   == links[pkt.link]
      got == a # NoApp /\ lstate[a] = "Connected" /\ ~wclosed[a]
               /\ asock[a] # "rst"
  IN  /\ mpc = "forward"
      /\ foreign' = IF got THEN [foreign EXCEPT ![a] = @ \cup ({pkt.app} \ {a})]
                           ELSE foreign
      /\ mpc' = "loop"
      /\ pkt' = NoPacket
      /\ UNCHANGED <<wire, registry, conn, cur, ping, appTask, linkObj, asock,
                     wrote, unread, sd>>

-----------------------------------------------------------------------------
(* run: on_disconnection. *)

(* Mutant: links are closed and stay registered.                           *)
CloseKeepingLinks ==
  LET live == {links[i] : i \in Chan!LinkId} \ {NoApp}
  IN  /\ lstate'  = [a \in Apps |-> IF a \in live THEN "Disconnected"
                                                  ELSE lstate[a]]
      /\ wclosed' = [a \in Apps |-> a \in live \/ wclosed[a]]
      /\ UNCHANGED links

(* Gateway::close_all_links, under the registry's write lock.              *)
CloseAllLinks ==
  LET live == {links[i] : i \in Chan!LinkId} \ {NoApp}
  IN  /\ links'   = [i \in Chan!LinkId |-> NoApp]
      /\ lstate'  = [a \in Apps |-> IF a \in live THEN "Disconnected"
                                                  ELSE lstate[a]]
      /\ wclosed' = [a \in Apps |-> a \in live \/ wclosed[a]]

(* Mutant: on_disconnection forgets the links.                             *)
CloseNoLinks ==
  /\ mpc = "closeall"
  /\ mpc' = "forget"
  /\ UNCHANGED <<wire, registry, conn, pkt, cur, ping, appTask, linkObj,
                 appSock, sd>>

CloseLinks ==
  /\ mpc = "closeall"
  /\ CloseAllLinks
  /\ mpc' = "forget"
  /\ UNCHANGED <<wire, state, gw_writer, conn, pkt, cur, ping, appTask,
                 appSock, sd>>

ForgetWriter ==
  /\ mpc = "forget"
  /\ gw_writer' = NoConn
  /\ mpc' = "waiting"
  /\ UNCHANGED <<wire, state, links, conn, pkt, cur, ping, appTask, linkObj,
                 appSock, sd>>

(* Here and, with no effect, at the top of the loop in run, which then     *)
(* connects again at once.                                                 *)
SetWaiting ==
  /\ mpc = "waiting"
  /\ state' = "Waiting"
  /\ conn' = NoConn
  /\ mpc' = "connect"
  /\ UNCHANGED <<wire, links, gw_writer, pkt, cur, ping, appTask, linkObj,
                 appSock, sd>>

RunStep ==
  /\ sd # "exited"
  /\ \/ (\E c \in Conns : ConnectGateway(c)) \/ ConnectFail \/ Retry
     \/ StoreWriter \/ SetProcessing \/ AuthOk \/ AuthFail \/ DiscardWriter
     \/ SetConnected \/ ReadPacket \/ ReadEnd \/ SendPong \/ Dial \/ DialFail
     \/ SendOpenFail \/ AddLink \/ ConfirmLink \/ SendOpened \/ Unlink
     \/ ShutLink \/ Forward \/ CloseLinks \/ ForgetWriter \/ SetWaiting

-----------------------------------------------------------------------------
(* start_ping_loop of connection c: a tick every GW_PING_PERIOD, until a   *)
(* write fails.                                                            *)
PingTick(c) ==
  /\ sd # "exited" /\ ping[c] = "on"
  /\ \/ Chan!WriteOk(c, Chan!ControlPacket("Ping")) /\ UNCHANGED ping
     \/ Chan!WriteErr(c) /\ ping' = [ping EXCEPT ![c] = "ended"]
  /\ UNCHANGED <<registry, runTask, appTask, linkObj, appSock, sd>>

(* send_ping, on the command p: the writer of the field, if there is one.  *)
ManualPing ==
  /\ sd # "exited" /\ gw_writer # NoConn
  /\ Answer(gw_writer, Chan!ControlPacket("Ping"))
  /\ UNCHANGED <<registry, runTask, ping, appTask, linkObj, appSock, sd>>

-----------------------------------------------------------------------------
(* app_exchange of link a. *)

(* Mutant: a read that does not wait for data.                             *)
ReadAppEarly(a) ==
  /\ apc[a] = "read"
  /\ unread' = [unread EXCEPT ![a] = @ - 1]
  /\ apc' = [apc EXCEPT ![a] = "send"]
  /\ UNCHANGED <<wire, registry, runTask, ping, linkId, writer, linkObj,
                 asock, wrote, foreign, sd>>

ReadApp(a) ==
  /\ apc[a] = "read" /\ unread[a] > 0
  /\ unread' = [unread EXCEPT ![a] = @ - 1]
  /\ apc' = [apc EXCEPT ![a] = "send"]
  /\ UNCHANGED <<wire, registry, runTask, ping, linkId, writer, linkObj,
                 asock, wrote, foreign, sd>>

ReadAppEnd(a) ==
  /\ apc[a] = "read"
  /\ asock[a] = "rst" \/ (asock[a] = "fin" /\ unread[a] = 0)
  /\ apc' = [apc EXCEPT ![a] = "close"]
  /\ UNCHANGED <<wire, registry, runTask, ping, linkId, writer, linkObj,
                 appSock, sd>>

(* Mutant: a failed write is tried again.                                  *)
SendDataRetried(a) ==
  /\ apc[a] = "send"
  /\ \/ /\ net[writer[a]] # "lost"
        /\ Chan!WriteOk(writer[a], Chan!LinkPacket("Regular", linkId[a], a))
        /\ apc' = [apc EXCEPT ![a] = "read"]
     \/ Chan!WriteErr(writer[a]) /\ UNCHANGED apc
  /\ UNCHANGED <<registry, runTask, ping, linkId, writer, linkObj, appSock, sd>>

SendData(a) ==
  /\ apc[a] = "send"
  /\ \/ /\ Chan!WriteOk(writer[a], Chan!LinkPacket("Regular", linkId[a], a))
        /\ apc' = [apc EXCEPT ![a] = "read"]
     \/ /\ Chan!WriteErr(writer[a])
        /\ apc' = [apc EXCEPT ![a] = "close"]
  /\ UNCHANGED <<registry, runTask, ping, linkId, writer, linkObj, appSock, sd>>

(* Mutant: the writer of the current connection is used.                   *)
SendCloseCurrent(a) ==
  /\ apc[a] = "close"
  /\ IF gw_writer = NoConn THEN UNCHANGED wire
       ELSE Answer(gw_writer, Chan!LinkPacket("Close", linkId[a], a))
  /\ apc' = [apc EXCEPT ![a] = "unlink"]
  /\ UNCHANGED <<registry, runTask, ping, linkId, writer, linkObj, appSock, sd>>

SendClose(a) ==
  /\ apc[a] = "close"
  /\ Answer(writer[a], Chan!LinkPacket("Close", linkId[a], a))
  /\ apc' = [apc EXCEPT ![a] = "unlink"]
  /\ UNCHANGED <<registry, runTask, ping, linkId, writer, linkObj, appSock, sd>>

(* remove_link: the entry under this number, whoever's it is.  The link is *)
(* not closed; its socket is, when the last reference to it is dropped.    *)
RemoveLink(a) ==
  /\ apc[a] = "unlink"
  /\ links' = [links EXCEPT ![linkId[a]] = NoApp]
  /\ apc' = [apc EXCEPT ![a] = "done"]
  /\ UNCHANGED <<wire, state, gw_writer, runTask, ping, linkId, writer,
                 linkObj, appSock, sd>>

AppStep(a) ==
  /\ sd # "exited"
  /\ ReadApp(a) \/ ReadAppEnd(a) \/ SendData(a) \/ SendClose(a) \/ RemoveLink(a)

-----------------------------------------------------------------------------
(* Graceful shutdown: GatewayClient::shutdown, called by main on a signal. *)

BeginShutdown ==
  /\ sd = "running"
  /\ CloseAllLinks
  /\ sd' = "sleeping"
  /\ UNCHANGED <<wire, state, gw_writer, runTask, ping, appTask, appSock>>

(* gw_writer.take(), and shutdown of the writer under its mutex.           *)
TakeWriter ==
  /\ sd = "sleeping"
  /\ wshut' = [c \in Conns |-> wshut[c] \/ c = gw_writer]
  /\ gw_writer' = NoConn
  /\ sd' = "drained"
  /\ UNCHANGED <<inbox, outbox, net, state, links, runTask, ping, appTask,
                 linkObj, appSock>>

(* main aborts the task of run and returns: the runtime drops every task.  *)
Exit ==
  /\ sd = "drained"
  /\ sd' = "exited"
  /\ UNCHANGED <<wire, registry, runTask, ping, appTask, linkObj, appSock>>

ShutdownStep == BeginShutdown \/ TakeWriter \/ Exit

=============================================================================
