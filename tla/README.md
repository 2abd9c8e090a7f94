# A TLA+ model of iog

iog tunnels TCP connections through one connection between two processes. An
application connects to the *gateway server*; the server picks one of its
*gateway clients*, opens a numbered *link* to it, and the client dials its own
local application. Packets of all links share the client's connection. These
modules model both processes, the connection between them and what surrounds them,
TLC checks them on small instances, and TLAPS proves all safety properties but one for
instances of every size.

## The system

| Part | State | Operations | Hard about it |
|---|---|---|---|
| Gateway server, `server.rs` | `client_sessions`, `link_clients`, `session_store`, the base gateway | accept a client, authenticate, exchange loop, cleanup; accept an application, forward it; shutdown | a task per client and per application share four registries, each under its own lock; a reconnecting client races the cleanup of its old connection |
| Gateway client, `client.rs` | `gw_writer`, state, the base gateway | connect, authenticate, exchange loop, disconnect and reconnect; ping loop; a task per link; shutdown | link tasks and ping loops outlive the connection they were started for |
| Base gateway, `mod.rs` | `state`, `links`, `link_id_counter`, statistics | number, add, remove, close links; send and read packets | numbers wrap; packets of many tasks share one writer |
| Link, `link.rs` | `ConnectionState`, write half | deliver, set state, close | closing shuts the write half only: the reading task goes on |
| Session store, `session_store.rs` | sessions in memory, id file | save, restore, remove | must follow `client_sessions` through reconnection and shutdown |
| Authentication, `auth.rs` | none | nonce, HMAC, compare | timeout at the server, none at the client |
| Codec, compression | none | header layout, zstd, thresholds | narrow integers, half-written packets |
| Buffer pool, metrics | free list, counters | acquire, drop; gauge | growth, publication out of order |
| Process, `main.rs`, configuration | none | signals, stdin commands | shutdown at any moment |

The parts interact by method calls under tokio locks inside a process, and by
packets on a TCP connection between processes. There is no storage that a crash
could leave half written except the client's session id file.

What makes each part correct: the server must hand data of a link to its own
application only, release links and sessions on every way out, not disturb one
client when another leaves, and settle in `Waiting`; the client must leave a lost
connection, close its links, and let nothing of an old connection into the new.
`PROJECT.json` lists the hazards one by one, with the property that covers each.

## Modules

| Module | Models |
|---|---|
| `Wire` | packets, and a TCP connection as two FIFO queues with a bounded send buffer that may be lost, or go silent without the other end being told |
| `GatewayServer` | `server.rs` with the registry of `mod.rs`, `Link` and `SessionStore` |
| `ServerWorld` | composes the server with gateway clients, the network, applications and the termination signal; states the properties |
| `GatewayClient` | `client.rs`, on the same `Wire` instantiated from the other end |
| `ClientWorld` | composes the client with the server, the network, the local application, the stdin command and the signal; states the properties |
| `Pipe` | what a tunnel promises to an application: a stream that arrives in order, from the start, and ends |
| `Tunnel` | both gateways and both applications of each link, all buffers bounded; implements `Pipe` |
| `Frame` | the packet header as bytes (`packet.rs`), the choice to compress (`compression.rs`) |
| `Channel` | the challenge-response handshake and the exchange after it over two byte streams (`mod.rs`, `auth.rs`, `buffer_pool.rs`), writers that compete, faults inside a packet |
| `MCServer`, `MCClient`, `MCChannel` | instances for TLC |
| `ServerProofs`, `SessionProofs`, `RoutingProofs` | theorems about `ServerWorld`: types, sessions, links and routes |
| `ClientProofs`, `ClientRoutingProofs` | theorems about `ClientWorld`: types and the registry, what is said and delivered |
| `TunnelProofs` | theorems about `Tunnel`, that it implements `Pipe` among them |
| `ChannelProofs`, `StreamProofs` | theorems about `Channel`: bytes of a packet, types, buffers and numbers; the packets in a stream and the handshake |

One action is what a task does under one lock; the program counters (`cpc`, `apc`
at the server; `mpc`, `apc`, `ping` at the client) name the lock that a task takes
next, so every `.await` between two locks is a place where other tasks may run.
Actions are named after what they do and, where the code has a name, after it;
`PROJECT.json` maps each to its lines. A link object is identified with the
application connection it was made for, and a session id with its connection.
`Tunnel` and `Channel` look at what the others take in one step: `Tunnel` at what a
task waits for and which locks it holds while it waits, with both gateways in one
state; `Channel` at a connection's bytes, with a step for each `write_all` and
`read_exact`.
Packets carry a ghost field `app`, the connection they are about; `foreign`
records data that reached another one.

Operators under the word *Mutant* are plausible mistakes in the definition that
follows them. No specification uses them: each replaces its neighbour in an
experiment that shows a property can fail.

## What TLC checks

Passing runs.

| Run | Instance | Shows |
|---|---|---|
| `server_links` | 1 client, 2 applications, 3 link numbers | routes name registered links (`RoutesRegistered`), no data to the wrong application (`NoForeignData`), links of ended tasks released and closed (`LinkReleased`) |
| `server_clients` | 2 clients at 2 addresses, 1 application, shutdown at any moment | the gateway settles in `Waiting` (`StateSettles`), a client's cleanup closes only its own links (`ClosedForCause`), and links are released when the process is told to stop as well (`LinkReleased`) |
| `server_reconnect` | 3 connections from 1 address, one after the other, no applications, shutdown, clients that fall silent | `SessionsStored`; a client that is there stays registered whatever older connections still clean up (`SessionKeptWhileUp`); a session in the registry can still be written to (`RegisteredWritable`) |
| `server_live` | 1 client, 1 application that writes twice | `LostClientEnds`, `RoutedLinksReleased`, `ClosedAppEnds` |
| `client_links` | 2 successive connections, 2 links, server restarts and pings | `RegistryCurrent`, `NoForeignData`, `OwnConnectionOnly`: nothing of the old connection gets into the new one |
| `client_live` | 1 connection, 1 link whose application writes, the client's pings, the command `p`, a server that falls silent, shutdown | `LostServerLeft`, `LostLinksClosed`, `ClosedAppEnds`; the server hears of a link before it hears from it (`OpenedFirst`) |
| `tunnel` | 1 link, room for 1 packet each way, sockets of 1 chunk, 2 chunks each way, 1 keep-alive | each application receives, in order, what the other wrote (`ImplementsPipe`), the end of a stream comes after its data (`EofComplete`), and when nothing moves, nothing waits (`NothingStuck`), although each exchange loop may have to wait for the other to read |
| `channel` | keys and versions equal or not, compressible and other data, 5 tasks that send, a connection that breaks or falls silent anywhere | packets are read as they were written (`FramesIntact`), the ends agree on who is connected (`AuthAgreement`), `IdsUnique`, `StatsAgree`, `BuffersReturn`, `HandshakeEnds` |

Runs that end in a violation, each of a statement quoted from the repository:

| Run | What happens |
|---|---|
| `opened_race` | the server sends Open and then sets the link to `Waiting`: a confirmation handled in between is undone, and data for the application is dropped |
| `orphan_link` | a client lost while an application is being bound to it leaves a link behind, until the application closes or its next write fails |
| `stale_remove` | a task of an old link removes, by number, the link of a new connection |
| `link_locks` | an application that writes before it reads stops being read: the client's exchange loop waits for room in its socket with the link locked |

**Further disagreements.** These sentences were checked in the same way on the same
specifications and are violated too; the project keeps no run for them.

- `server.rs:339`, the cleanup of a client "Closes all links owned by this client":
  it collects routes by address (`server.rs:354`), and so the cleanup of a connection
  that was replaced also closes links of the newer one from the same address
  (`ClosedForCause`, with two connections from one address).
- `NothingStuck` of `Tunnel` fails with two links and room for one packet each way:
  the server's loop waits to write a Pong, the client's to write Opened, and neither
  reads (`mod.rs:294`, `client.rs:342`). So it does with one link, three keep-alives
  and room for two packets. With data in place of the second link, any size of buffer
  can be filled. With one link, both loops wait for each other only if the server's
  has a Ping in hand and the way to it is full of more, for the client's has not
  started the application task yet: that takes one keep-alive more than there is room
  for packets. The run is the instance next to it, with as many keep-alives as room.
- `client.rs:122`, the protocol of authentication: the writer is published before it
  (`client.rs:94`), so that a `p` typed then puts a Ping where the server expects
  `GwAuthResponse`, and a client with the right key is refused. In `Channel` the
  server gets there in six steps.
- `operations.rs:60`, identifiers "unique within a single connection session":
  `GwConnected` and `GwDeny` carry the number of the client's response, which the
  server has used, or will use, for a packet of its own. `IdsUnique` is about the
  packets of the exchange.
- `server.rs:384`, "If there are no clients left, the server is waiting for
  connections again": `cleanup_client` reads `is_empty` and writes `Waiting` under
  two locks, so `Waiting` may overwrite the `Connected` of a client that registered
  in between. `StateSettles` is what does hold.
- `link.rs:47`, a number "unique within the gateway": `next_link_id` wraps without
  looking whether the number is in use (`EnoughIds` of the proofs excludes this).
- `DESCRIPTION.md:445`, a connection without keep-alive for 90 seconds "is considered
  broken": the server compares `keep_alive_stamp` with nothing, and a client that
  vanishes without FIN or RST, to which nothing is sent, is never noticed.
- `server.rs:57`, the "Active client sessions": of two connections accepted from one
  address, the task of the older may run last and take out, or overwrite, the session
  of the one that is served.
- `server.rs:638`, shutdown "Closes all active connections": links added after
  `close_all_links` has run, while the listeners are still up, stay.
- `DESCRIPTION.md:547`, "On reconnection from the same IP, previous connection is
  closed": sessions are keyed by address and port, and a reconnecting client comes
  from another port.
- `client.rs:11`, "reconnect after `GW_RECONNECT_TIMEOUT` ms": only a failed connect is
  followed by the pause.
- `README.md:11`, the "Client automatically reconnects on connection loss":
  `gw_authenticate` reads without a timeout, and a server that vanishes before its
  challenge is waited for for ever.

**Bounds.** `Conns` and `Apps` are finite: each stands for one connection in the
life of the process. Races in this code are between two connections, two links or
a connection and a link, and one of each pair is present in some run. `MaxWrites`
bounds what an application writes, `Window` what a peer has in flight beyond
answers, `SendBuffer` what a path holds before a write blocks; with 1 or 2, a full
buffer is reached. `MaxWrites` is 0 in `server_links`, `server_clients`,
`server_reconnect`, `opened_race`, `orphan_link`, `client_links` and `stale_remove`:
there an application says nothing before it closes. No packet of data enters the
connection from it, and a task of an old link has only a Close to send
(`OwnConnectionOnly`, which the theorem shows with data as well). `server_live`,
`client_live`, `tunnel` and the theorems have data. `server_reconnect` has no
application at all: for the links of a session that is replaced there is the theorem of
`LinkReleased`, and no run. `LinkIdWidth` is 65536 in the code; 3 or 4 are more than the
applications of the run, so that no number comes round to a link still in use (the
theorems assume the same). `Ticks` leaves the 30-second
ping out of the run where nothing depends on it. Symmetry is used over
applications, in runs without liveness. In `Tunnel` a chunk stands for what one read
takes, and `Cap` and `SockCap` for all the buffers on the way: with room for one
packet and one chunk, every kind of wait occurs, for the writer by either loop included. In `Channel` the threshold for
compression, the nonce and the response are shortened to 3, 2 and 2 bytes, headers
keep their 16 bytes and the widths of their fields, and link number 300 needs both
bytes of its field; a fault cuts a stream between two pieces or before the last byte
of one, which is all that a reader of whole pieces can tell apart.

**Fairness.** The runtime polls every task that can go on, so each task is fairly
scheduled; timers fire; a kernel gives up retransmitting. The other end of a
connection that is up keeps reading, which the code there does unless it is itself
blocked. Fairness of tasks is strong: tokio's `Mutex` is FIFO, so a task
waiting for the writer is served although Pings or Pongs keep filling the buffer. Nothing is assumed of
applications except that they take what is written to them. In `Channel`, weak
fairness is enough: every task has a few packets to send, after which the writer is
free for good. The timer of the server's handshake is fair, and there is no
other. `Tunnel` has no fairness: `NothingStuck` speaks of the states in which no task
can move.

## What is proved

Each theorem is about a property that some run checks, and holds for every value of
the constants that the `ASSUME`s admit: any number of connections, applications,
links, tasks and link numbers, any size of buffers, any scripts and payloads. Every
proof has the same three parts: an invariant that implies the property, that it
holds initially, and that every action keeps it.

**Server** (`ServerProofs`, `SessionProofs`, `RoutingProofs`).

- `TypeCorrect`: the type invariant. `TypeInv` adds that an
  application task past the choice of a client has one.
- `SessionsStoredTheorem`, `StateSettlesTheorem`, `RegisteredWritableTheorem`,
  `SessionKeptWhileUpTheorem`. The invariant `SessionInv` says which program counters a
  registered session may have (`RegistrySound`), that every task between save and
  restore is stored unless shutdown drained it (`StoreSound`), and that a state of
  `Connected` has a task that will account for it (`StateSound`). Neither of the first
  two is inductive without it; the third adds `ShutGone`: a writer that was shut
  down belongs to a session that has left the registry and does not enter it again.
  The fourth is an action property, and adds `CleanupLost`: a task cleans up only when its
  connection is lost, and no step of any task or peer brings a lost connection
  back (`LostStays`). With `RegistrySound`, a session that goes is the one of the
  address at which the step takes one out.
- `RoutesRegisteredTheorem`, `NoForeignDataTheorem`, `LinkReleasedTheorem`, under
  `EnoughIds`: the server has accepted fewer connections
  than there are link numbers. Without the hypothesis they are false: with two
  numbers and three applications TLC finds two live links that share one. The
  invariant `RoutingInv` follows an identifier through its life: handed
  out in order and once (`IdsFresh`), registered (`LinksOwned`, `AddedStays`),
  routed (`RoutesOwned`), named by packets in flight, at the peer and in hand
  (`PacketsOwned`, `HandledOwned`), removed (`Unrouted`) and closed
  (`NoneLeaked`). The argument that data cannot go astray is that a packet names a
  number whose owner has sent its Open to the same client, and numbers have one owner.
- `ClosedForCauseTheorem`, an action property, under `EnoughIds` and `AddrsApart`.
  `CauseInv` says that what a task has taken out of the registry, or collected for
  cleanup, is its own link or one that its client serves. The second hypothesis is
  needed where routes are collected by address: see *Further disagreements*.

**Client** (`ClientProofs`, `ClientRoutingProofs`).

- `ClientTypeCorrect`, and `RegistryCurrentTheorem`: links of an earlier connection do
  not get back into the registry. The invariant (`DialInv`, `RegistryInv`) says that an
  Open in flight is about an application not dialled yet, and where the registry is
  empty. There is no hypothesis on the numbers: reuse is covered.
- `OwnConnectionTheorem`, `OpenedFirstTheorem`, from `SpeechInv`: what a task has
  said is on its own connection, and is behind Opened there or Opened has arrived.
- `DeliveredTheorem` (`NoForeignData`), under the client's `EnoughIds`: fewer applications
  than link numbers. `IdInv` says that on one connection a number names one application,
  wherever it occurs: in the stream, in hand, or in the registry.

**Tunnel** (`TunnelProofs`).

- `TunnelTypeCorrect`: types, and that no buffer holds more than it can.
- `TunnelImplementsPipe`: the initial state maps to one of `Pipe`, and every step to a step
  of `Pipe` or a stutter, for each link and direction. `FlowInv` describes the line of
  packets from one application to the other: the numbers of the chunks in it are
  consecutive and continue what was handed over (`Stream`, `Received`), and Open and
  Opened are where the stages of the two tasks say (`Staged`).
- `EofCompleteTheorem`, from `EndInv`: Close is the last packet of its link, and is sent
  after everything that was written.

**Channel** (`ChannelProofs`, `StreamProofs`).

- `ChannelTypeCorrect`. That a header fits its fields needs what the bytes of integers
  are: `LE` and `FromLE` are worked out for 2, 4 and 8 bytes, and that reading a header
  gives back what was written is a lemma about them.
- `BuffersReturnTheorem`, `IdsUniqueTheorem`. `NumberInv` says that a number taken and not
  yet written is nobody else's, which is what lets tasks take numbers before they lock
  the writer.
- `AuthAgreementTheorem` and `FramesIntactTheorem`, from `StreamInv`. It describes a stream
  by the packets in it: there are packets `W[1]`, ..., `W[n]` and a place for each, so
  that the bytes of the stream are those of the packets behind the last one read, the last
  of which may lack its data, if a task holds the writer (`Holder`), or its end, if the
  connection is gone (`Runs`, `Pending`). `SrvLog` and `CliLog` say what the packets are:
  those of the handshake as far as it has got, then `sent`. So a reader of 16 bytes
  finds a header and not data, and a verdict read is the one that was sent. The
  command `p` may write before the client's response; then the server will not find a
  response (`Spoiled`), never accepts, and nothing is said of that stream.
  `FramesIntactTheorem` has the hypothesis that the packet numbers fit in the 64 bits of
  their field (`CountersFit`): the code's counter wraps around there and the model's does
  not, and beyond it a number read is the one written modulo 2^64.
- `StatsAgreeTheorem`, without that hypothesis. The difficulty is that a task counts a
  packet after it has given the writer back, and a reader counts the header before the
  data has come, so the counters of one end do not follow from its stream. `StatsInv`
  says what they are while the connection is up: the counters of a sender are the sum over the packets
  written without those that a task has still to count (`Counting`, `Counted`), and the
  counters of a reader the sum over the packets returned plus the header it has begun with
  (`Half`). A sum is a function that adds up place by place (`Total`), which the
  invariant says to exist. That there is only one such function, and that leaving out a
  place takes just that place's share from the sum, is shown by a least
  counterexample (`LeastNumber`, from `WFMin` of the library). At rest nothing is left
  out, nobody holds a writer, since only its own tasks can (`Owned`), and `AllReturned`
  concludes from `StreamInv` that an empty stream means that every packet written has been returned:
  the two sums are over the same packets.

The assumptions are named where the constants are declared. Server and client: more
than one link number, a send buffer that holds a packet, addresses assigned to
connections, values for *absent* that are not values. `Tunnel`: buffers that hold
something. `Channel`: a pool with a buffer, tasks with a side, each side's loop among
them, scripts of packets that a buffer holds, only client tasks early (the command
`p`), keys and versions of the widths of their stand-ins, nonce and response not empty and
in reach of the size field. `RoutingInv`, `CauseInv` and `SessionInv` were checked with TLC on the
passing instances, and so were `LinkInv` of the client and, with sums in place of the
functions that exist, `StatsInv`. `SpeechInv`, `IdInv` and
`StreamInv` speak of all places in a queue or of functions that exist, which TLC does
not enumerate: for those, the runs check the properties they imply.

Only model-checked:

- liveness, `HandshakeEnds` included, which is outside what the prover handles;
- `NothingStuck`, which is about `ENABLED` and, besides, is no property of every
  instance: it depends on the room in the buffers, see *Further disagreements*.

## Not modelled

The metrics endpoint and its counters, which nothing reads back; log output; the
parsing and validation of the configuration; the id in the client's session file,
which is loaded, saved, logged and used for nothing; byte counts of single links. HMAC
and zstd are libraries. The stand-in for HMAC gives no two keys, of one byte, the same
response; the one for zstd shortens runs of one byte that are shorter than 256 and
lengthens everything else, and decoding undoes encoding.

Except in `Tunnel` and `Channel`, writing a packet is one step, and so is taking a lock
together with what is done under it. `Tunnel` in turn leaves out the loss of the
connection and the numbering of links, which `ServerWorld` and `ClientWorld` have,
and `Channel` has one connection, whose readers alone use the buffer pool.
`EofComplete` is about the stream from the server's application to the client's only:
in the other direction data may be dropped while the server still has the link in
`Waiting` (`opened_race`), and a half-closed application of the client loses what
follows its Close.

`GwDeny` after authentication, and packets that do not decode, are not sent by the
programs and do not occur. The server never pings either; the protocol allows it and
the client answers, so the server of `ClientWorld` may ping.

## Plan

1. `NothingStuck`: a condition on `Cap` and the number of control packets under which
   the loops cannot block each other, as an assumption of `Tunnel`, and guards of the
   actions as formulas in place of `ENABLED`; then it can be proved as well.
2. The size of proofs: the steps of `StreamProofs` that treat the two directions of the
   stream alike could share more lemmas.
