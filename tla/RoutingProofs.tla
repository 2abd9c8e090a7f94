---------------------------- MODULE RoutingProofs ----------------------------
(***************************************************************************)
(* What ServerWorld guarantees about links and routes, as long as the      *)
(* server has not handed out more identifiers than LinkIdWidth has: routes *)
(* name registered links, data reaches only the connection it is for, a    *)
(* link whose task ended is released, and no client closes the links of    *)
(* another.                                                                *)
(***************************************************************************)
EXTENDS ServerProofs

(* 65535 application connections in the life of the process, in the code.  *)
EnoughIds == IsFiniteSet(Apps) /\ Cardinality(Apps) < LinkIdWidth

(* Application tasks that have taken an identifier, and stages after that. *)
Issued   == {a \in Apps : apc[a] \notin {"idle", "newid"}}
RoutedPc == {"open", "wait", "read", "send", "close", "unroute"}
LinkedPc == RoutedPc \cup {"route", "unlink"}
SpentPc  == RoutedPc \cup {"unlink", "shut", "done"}
OpenedPc == SpentPc \ {"open"}

(* Identifiers are handed out in order and, while enough, never twice.     *)
IdsFresh ==
  /\ link_id_counter = (Cardinality(Issued) + 1) % LinkIdWidth
  /\ \A a \in Issued : linkId[a] \in 1 .. Cardinality(Issued)
  /\ \A a, b \in Issued : linkId[a] = linkId[b] => a = b

LinksOwned ==
  \A i \in LinkId : links[i] # NoApp =>
    linkId[links[i]] = i /\ apc[links[i]] \in LinkedPc

(* Nothing takes a link out between add_link and the insertion of its      *)
(* route, except shutdown.                                                 *)
AddedStays ==
  sd = "running" => \A a \in Apps : apc[a] = "route" => links[linkId[a]] = a

RoutesOwned ==
  \A i \in LinkId : link_clients[i] # NoAddr =>
    \E a \in Apps : /\ linkId[a] = i
                    /\ apc[a] \in RoutedPc
                    /\ link_clients[i] = AddrOf[client[a]]
                    /\ sd = "running" => links[i] = a

(* A packet's number is that of the connection it is about, whose Open has *)
(* been sent to the client the packet goes to or comes from.               *)
Opened(c, a, i) == /\ a \in Apps /\ apc[a] \in OpenedPc
                   /\ linkId[a] = i /\ client[a] = c
About(c, p)     == p.type \in {"Ping", "Pong"} \/ Opened(c, p.app, p.link)

PacketsOwned ==
  \A c \in Conns :
    /\ \A k \in 1 .. Len(up[c]) : About(c, up[c][k])
    /\ \A k \in 1 .. Len(down[c]) : About(c, down[c][k])
    /\ \A l \in peerOpen[c] : Opened(c, l[2], l[1])

HandledOwned ==
  \A c \in Conns :
    /\ About(c, pkt[c])
    /\ cpc[c] \in {"deliver", "open", "unroute", "unlink"} =>
         pkt[c].type \notin {"Ping", "Pong"}
    /\ cpc[c] = "deliver" => cur[c] \in {NoApp, pkt[c].app}

(* An identifier about to be removed has no route any more, and belongs to *)
(* a connection past the insertion of its route, so it gets none again.    *)
Spent(i) == \E a \in Apps : linkId[a] = i /\ apc[a] \in SpentPc
Unrouted ==
  /\ \A c \in Conns : cpc[c] = "unlink" => link_clients[pkt[c].link] = NoAddr
  /\ \A c \in Conns : \A i \in owned[c] : link_clients[i] = NoAddr /\ Spent(i)
  /\ \A a \in Apps : apc[a] \in {"unlink", "shut", "done"} => link_clients[linkId[a]] = NoAddr

(* A link that is not registered any more is closed, or one task holds it  *)
(* and will close it.                                                      *)
InHand(a) ==
  \/ links[linkId[a]] = a
  \/ wclosed[a]
  \/ \E c \in Conns : cur[c] = a /\ cpc[c] \in {"shut", "releaseShut"}
  \/ apc[a] = "shut" /\ acur[a] = a
NoneLeaked == \A a \in Apps : apc[a] \in LinkedPc \cup {"shut", "done"} => InHand(a)

RoutingInv ==
  /\ TypeInv /\ IdsFresh /\ LinksOwned /\ AddedStays /\ RoutesOwned /\ PacketsOwned
  /\ HandledOwned /\ Unrouted /\ NoneLeaked /\ NoForeignData

-----------------------------------------------------------------------------
(* Steps of client tasks. *)

LEMMA ConnFrame ==
  ASSUME NEW c \in Conns, ConnStep(c)
  PROVE  UNCHANGED <<apc, linkId, client, acur, sd, link_id_counter>>
BY DEF ConnStep, Accept, ClosePrevious, AuthOk, AuthFail, SetConnected, SaveSession,
       InsertSession, ReadPacket, ReadEnd, SendPong, Deliver, ConfirmOpen, ConnUnroute,
       ConnUnlink, ConnShut, Sweep, Release, ReleaseShut, ForgetSession, RestoreSession,
       CheckEmpty, SetWaiting, appTask, registry

(* Identifiers of one connection are not those of another.                 *)
LEMMA OneOwner ==
  ASSUME IdsFresh, NEW a \in Apps, NEW b \in Apps, linkId[a] = linkId[b],
         apc[a] \in LinkedPc \cup SpentPc, apc[b] \in LinkedPc \cup SpentPc
  PROVE  a = b
BY DEF IdsFresh, Issued, LinkedPc, SpentPc, RoutedPc

(* A client task changes the registry of links only where it removes one,  *)
(* and then the identifier is spent and without a route.                   *)
LEMMA ConnLinks ==
  ASSUME RoutingInv, NEW c \in Conns, ConnStep(c)
  PROVE  \/ links' = links
         \/ \E i \in LinkId : /\ links' = [links EXCEPT ![i] = NoApp]
                              /\ Spent(i)
                              /\ link_clients[i] = NoAddr
                              /\ link_clients' = link_clients
                              /\ cur' = [cur EXCEPT ![c] = links[i]]
                              /\ cpc[c] \notin {"shut", "releaseShut"}
                              /\ cpc' \in {[cpc EXCEPT ![c] = s] : s \in {"shut", "releaseShut"}}
                              /\ wclosed' = wclosed
<1>1. CASE ConnUnlink(c)
  <2>1. pkt[c].link \in LinkId
    BY PacketTyping DEF RoutingInv, TypeInv, TypeOK, ServerTypeOK
  <2>2. Spent(pkt[c].link) /\ link_clients[pkt[c].link] = NoAddr
    BY <1>1 DEF ConnUnlink, RoutingInv, HandledOwned, About, Opened, Unrouted, Spent, OpenedPc
  <2> QED BY <1>1, <2>1, <2>2 DEF ConnUnlink, RegistryRemove, linkObj
<1>2. CASE \E id \in LinkId : Release(c, id)
  <2>1. PICK id \in LinkId : Release(c, id)
    BY <1>2
  <2>2. Spent(id) /\ link_clients[id] = NoAddr
    BY <2>1 DEF Release, RoutingInv, Unrouted
  <2>3. /\ links' = [links EXCEPT ![id] = NoApp]
        /\ cur' = [cur EXCEPT ![c] = links[id]]
        /\ cpc[c] = "release" /\ cpc' = [cpc EXCEPT ![c] = "releaseShut"]
        /\ wclosed' = wclosed /\ link_clients' = link_clients
    BY <2>1 DEF Release, RegistryRemove, linkObj
  <2> QED BY <2>2, <2>3
<1>3. CASE ~ConnUnlink(c) /\ ~(\E id \in LinkId : Release(c, id))
  BY <1>3 DEF ConnStep, Accept, ClosePrevious, AuthOk, AuthFail, SetConnected, SaveSession,
       InsertSession, ReadPacket, ReadEnd, SendPong, Deliver, ConfirmOpen, ConnUnroute,
       ConnShut, Sweep, ReleaseShut, ForgetSession, RestoreSession,
       CheckEmpty, SetWaiting, registry
<1> QED BY <1>1, <1>2, <1>3

LEMMA ConnLinksOwned ==
  ASSUME RoutingInv, NEW c \in Conns, ConnStep(c)
  PROVE  LinksOwned' /\ AddedStays'
<1> USE DEF RoutingInv, TypeInv, TypeOK, ServerTypeOK
<1>1. LinksOwned'
  <2>1. \A i \in LinkId : links'[i] \in {links[i], NoApp}
    BY ConnLinks
  <2> QED BY <2>1, ConnFrame DEF LinksOwned
<1>2. AddedStays'
  <2> SUFFICES ASSUME sd = "running", NEW a \in Apps, apc[a] = "route"
               PROVE  links'[linkId[a]] = a
    BY ConnFrame DEF AddedStays
  <2>1. links[linkId[a]] = a
    BY DEF AddedStays
  <2>2. ~Spent(linkId[a])
    BY OneOwner DEF Spent, SpentPc, RoutedPc, LinkedPc
  <2> QED BY <2>1, <2>2, ConnLinks
<1> QED BY <1>1, <1>2

(* The routes a client task leaves are those that were there, and none of  *)
(* them loses its link.                                                    *)
LEMMA ConnRoutes ==
  ASSUME RoutingInv, NEW c \in Conns, ConnStep(c)
  PROVE  \A i \in LinkId : link_clients'[i] \in {link_clients[i], NoAddr}
<1> USE DEF RoutingInv, TypeInv, TypeOK, ServerTypeOK
<1>1. CASE ConnUnroute(c)
  BY <1>1, PacketTyping DEF ConnUnroute, RouteRemove
<1>2. CASE Sweep(c)
  BY <1>2 DEF Sweep
<1>3. CASE ~ConnUnroute(c) /\ ~Sweep(c)
  <2>1. link_clients' = link_clients
    BY <1>3 DEF ConnStep, Accept, ClosePrevious, AuthOk, AuthFail, SetConnected, SaveSession,
       InsertSession, ReadPacket, ReadEnd, SendPong, Deliver, ConfirmOpen,
       ConnUnlink, ConnShut, Release, ReleaseShut, ForgetSession, RestoreSession,
       CheckEmpty, SetWaiting, registry
  <2> QED BY <2>1
<1> QED BY <1>1, <1>2, <1>3

LEMMA ConnRoutesOwned ==
  ASSUME RoutingInv, NEW c \in Conns, ConnStep(c)
  PROVE  RoutesOwned'
<1> SUFFICES ASSUME NEW i \in LinkId, link_clients'[i] # NoAddr
             PROVE  \E a \in Apps : /\ linkId[a] = i
                                    /\ apc[a] \in RoutedPc
                                    /\ link_clients'[i] = AddrOf[client[a]]
                                    /\ sd = "running" => links'[i] = a
  BY ConnFrame DEF RoutesOwned
<1>1. link_clients'[i] = link_clients[i]
  BY ConnRoutes
<1>2. PICK a \in Apps : /\ linkId[a] = i
                        /\ apc[a] \in RoutedPc
                        /\ link_clients[i] = AddrOf[client[a]]
                        /\ sd = "running" => links[i] = a
  BY <1>1 DEF RoutingInv, RoutesOwned
<1>3. links'[i] = links[i]
  BY <1>1, ConnLinks DEF RoutingInv, TypeInv, TypeOK, ServerTypeOK
<1> QED BY <1>1, <1>2, <1>3

(* What a queue holds after a packet is put at its end.                    *)
LEMMA AppendAt ==
  ASSUME NEW S, NEW s \in Seq(S), NEW e \in S
  PROVE  \A k \in 1 .. Len(Append(s, e)) :
           Append(s, e)[k] = IF k \in 1 .. Len(s) THEN s[k] ELSE e
OBVIOUS

(* Packets queued by client tasks are Pongs.                               *)
LEMMA ConnPacketsOwned ==
  ASSUME RoutingInv, NEW c \in Conns, ConnStep(c), UNCHANGED peerOpen
  PROVE  PacketsOwned'
<1> USE DEF RoutingInv, TypeInv, TypeOK, ServerTypeOK, WireTypeOK
<1>1. \A b, p : About(b, p)' <=> About(b, p)
  BY ConnFrame DEF About, Opened
<1>2. CASE ReadPacket(c)
  <2>1. down' = down /\ up' = [up EXCEPT ![c] = Tail(@)] /\ up[c] # <<>>
    BY <1>2 DEF ReadPacket
  <2>2. \A k \in 1 .. Len(Tail(up[c])) : /\ k + 1 \in 1 .. Len(up[c])
                                         /\ Tail(up[c])[k] = up[c][k + 1]
    BY <2>1
  <2> QED BY <2>1, <2>2, ConnFrame DEF PacketsOwned, About, Opened
<1>3. CASE SendPong(c)
  <2>1. CASE UNCHANGED <<up, down>>
    BY <2>1, ConnFrame DEF PacketsOwned, About, Opened
  <2>2. CASE up' = up /\ down' = [down EXCEPT ![c] = Append(@, ControlPacket("Pong"))]
    <3>1. ControlPacket("Pong") \in Packet /\ About(c, ControlPacket("Pong"))
      BY PacketTyping DEF ControlPacket, About, PacketType
    <3>2. \A k \in 1 .. Len(down'[c]) :
            down'[c][k] = IF k \in 1 .. Len(down[c]) THEN down[c][k] ELSE ControlPacket("Pong")
      <4>1. down[c] \in Seq(Packet) /\ down'[c] = Append(down[c], ControlPacket("Pong"))
        BY <2>2
      <4> QED BY <3>1, <4>1, AppendAt
    <3>3. \A k \in 1 .. Len(down'[c]) : About(c, down'[c][k])
      BY <3>1, <3>2 DEF PacketsOwned
    <3>4. \A b \in Conns : b # c => down'[b] = down[b]
      BY <2>2
    <3>5. PacketsOwned /\ up' = up /\ peerOpen' = peerOpen
      BY <2>2
    <3>6. ASSUME NEW b \in Conns, NEW k \in 1 .. Len(down'[b])
          PROVE  About(b, down'[b][k])
      <4>1. CASE b = c
        BY <3>3, <3>6, <4>1
      <4>2. CASE b # c
        BY <3>4, <3>5, <3>6, <4>2 DEF PacketsOwned
      <4> QED BY <4>1, <4>2
    <3> HIDE DEF RoutingInv, TypeInv, TypeOK, ServerTypeOK, WireTypeOK
    <3> QED BY <3>5, <3>6, ConnFrame DEF PacketsOwned, About, Opened
  <2> QED BY <1>3, <2>1, <2>2 DEF SendPong, WriteOk, WriteErr, wire
<1>4. CASE ~ReadPacket(c) /\ ~SendPong(c)
  <2>1. UNCHANGED <<up, down>>
    BY <1>4 DEF ConnStep, Accept, ClosePrevious, AuthOk, AuthFail, SetConnected, SaveSession,
       InsertSession, ReadEnd, Deliver, ConfirmOpen, ConnUnroute,
       ConnUnlink, ConnShut, Sweep, Release, ReleaseShut, ForgetSession, RestoreSession,
       CheckEmpty, SetWaiting, wire
  <2> QED BY <2>1, ConnFrame DEF PacketsOwned, About, Opened
<1> QED BY <1>2, <1>3, <1>4

(* A client task handles a packet it read from its queue.                  *)
LEMMA ConnHandledOwned ==
  ASSUME RoutingInv, NEW c \in Conns, ConnStep(c)
  PROVE  HandledOwned'
<1> USE DEF RoutingInv, TypeInv, TypeOK, ServerTypeOK, WireTypeOK
<1>1. CASE ReadPacket(c)
  <2> DEFINE p == Head(up[c])
  <2>1. p \in Packet /\ About(c, p)
    BY <1>1 DEF ReadPacket, PacketsOwned
  <2>2. /\ pkt' = [pkt EXCEPT ![c] = p]
        /\ cpc' = [cpc EXCEPT ![c] = Dispatch(p.type)]
        /\ cur' = [cur EXCEPT ![c] = IF p.type \in {"Regular", "Opened"}
                                       THEN links[p.link] ELSE NoApp]
    BY <1>1 DEF ReadPacket
  <2>3. p.type \in {"Ping", "Pong"} =>
          Dispatch(p.type) \notin {"deliver", "open", "unroute", "unlink"}
    BY DEF Dispatch
  <2>4. ASSUME p.type = "Regular" PROVE links[p.link] \in {NoApp, p.app}
    <3>1. Opened(c, p.app, p.link)
      BY <2>1, <2>4 DEF About
    <3>2. CASE links[p.link] = NoApp
      BY <3>2
    <3>3. CASE links[p.link] # NoApp
      <4>1. p.link \in LinkId
        BY <2>1, PacketTyping
      <4>2. /\ links[p.link] \in Apps
            /\ linkId[links[p.link]] = linkId[p.app]
            /\ apc[links[p.link]] \in LinkedPc
        BY <3>1, <3>3, <4>1 DEF LinksOwned, Opened
      <4> QED BY <3>1, <4>2, OneOwner DEF Opened, OpenedPc
    <3> QED BY <3>2, <3>3
  <2>5. Dispatch(p.type) = "deliver" => p.type = "Regular"
    BY DEF Dispatch
  <2> HIDE DEF p
  <2> QED BY <2>1, <2>2, <2>3, <2>4, <2>5, ConnFrame DEF HandledOwned, About, Opened
<1>2. CASE SendPong(c) \/ Deliver(c) \/ ConfirmOpen(c) \/ ConnShut(c)
  <2>1. About(c, NoPacket)
    BY DEF NoPacket, ControlPacket, About
  <2>2. pkt' = [pkt EXCEPT ![c] = NoPacket] /\ cpc' = [cpc EXCEPT ![c] = "loop"]
    BY <1>2 DEF SendPong, Deliver, ConfirmOpen, ConnShut
  <2>3. \A b \in Conns : b # c => cur'[b] = cur[b]
    BY <1>2 DEF SendPong, Deliver, ConfirmOpen, ConnShut
  <2> QED BY <2>1, <2>2, <2>3, ConnFrame DEF HandledOwned, About, Opened
<1>3. CASE ConnUnroute(c)
  BY <1>3, ConnFrame DEF ConnUnroute, HandledOwned, About, Opened
<1>4. CASE ~ReadPacket(c) /\ ~SendPong(c) /\ ~Deliver(c) /\ ~ConfirmOpen(c) /\ ~ConnShut(c)
           /\ ~ConnUnroute(c)
  <2>1. pkt' = pkt
    BY <1>4 DEF ConnStep, Accept, ClosePrevious, AuthOk, AuthFail, SetConnected, SaveSession,
       InsertSession, ReadEnd, ConnUnlink, Sweep, Release, ReleaseShut, ForgetSession,
       RestoreSession, CheckEmpty, SetWaiting
  <2>2. PICK s \in ConnPc \ {"deliver", "open", "unroute", "unlink"} :
          cpc' = [cpc EXCEPT ![c] = s]
    BY <1>4 DEF ConnStep, Accept, ClosePrevious, AuthOk, AuthFail, SetConnected, SaveSession,
       InsertSession, ReadEnd, ConnUnlink, Sweep, Release, ReleaseShut, ForgetSession,
       RestoreSession, CheckEmpty, SetWaiting, ConnPc
  <2>3. \A b \in Conns : b # c => cur'[b] = cur[b]
    BY <1>4 DEF ConnStep, Accept, ClosePrevious, AuthOk, AuthFail, SetConnected, SaveSession,
       InsertSession, ReadEnd, ConnUnlink, Sweep, Release, ReleaseShut, ForgetSession,
       RestoreSession, CheckEmpty, SetWaiting
  <2> QED BY <2>1, <2>2, <2>3, ConnFrame DEF HandledOwned, About, Opened
<1> QED BY <1>1, <1>2, <1>3, <1>4

(* A client task removes a link only after its route.                      *)
LEMMA ConnUnrouted ==
  ASSUME RoutingInv, NEW c \in Conns, ConnStep(c)
  PROVE  Unrouted'
<1> USE DEF RoutingInv, TypeInv, TypeOK, ServerTypeOK
<1>1. \A i \in LinkId : link_clients[i] = NoAddr => link_clients'[i] = NoAddr
  BY ConnRoutes
<1>2. \A i : Spent(i)' <=> Spent(i)
  BY ConnFrame DEF Spent
<1>3. \A a \in Apps : apc'[a] \in {"unlink", "shut", "done"} => link_clients'[linkId'[a]] = NoAddr
  BY <1>1, ConnFrame DEF Unrouted
<1>4. \A b \in Conns : b # c => pkt'[b] = pkt[b] /\ cpc'[b] = cpc[b] /\ owned'[b] = owned[b]
  BY DEF ConnStep, Accept, ClosePrevious, AuthOk, AuthFail, SetConnected, SaveSession,
       InsertSession, ReadPacket, ReadEnd, SendPong, Deliver, ConfirmOpen, ConnUnroute,
       ConnUnlink, ConnShut, Sweep, Release, ReleaseShut, ForgetSession, RestoreSession,
       CheckEmpty, SetWaiting
<1>5. cpc'[c] = "unlink" => link_clients'[pkt'[c].link] = NoAddr
  <2>1. CASE ConnUnroute(c)
    BY <2>1, PacketTyping DEF ConnUnroute, RouteRemove
  <2>2. CASE ~ConnUnroute(c)
    <3>1. cpc'[c] # "unlink"
      BY <2>2
      DEF ConnStep, Accept, ClosePrevious, AuthOk, AuthFail, SetConnected, SaveSession,
       InsertSession, ReadPacket, Dispatch, ReadEnd, SendPong, Deliver, ConfirmOpen,
       ConnUnlink, ConnShut, Sweep, Release, ReleaseShut, ForgetSession, RestoreSession,
       CheckEmpty, SetWaiting
    <3> QED BY <3>1
  <2> QED BY <2>1, <2>2
<1>6. \A i \in owned'[c] : i \in LinkId /\ link_clients'[i] = NoAddr /\ Spent(i)
  <2>1. CASE Sweep(c)
    <3>1. owned'[c] = {i \in LinkId : link_clients[i] = AddrOf[c]}
      BY <2>1 DEF Sweep, RoutesOf
    <3>2. ASSUME NEW i \in owned'[c] PROVE link_clients'[i] = NoAddr /\ Spent(i)
      <4>1. i \in LinkId /\ link_clients[i] = AddrOf[c] /\ AddrOf[c] # NoAddr
        BY <3>1, <3>2, AddrAssumption, NoAddrAssumption
      <4> QED BY <2>1, <4>1 DEF Sweep, RoutesOwned, Spent, SpentPc
    <3> QED BY <3>1, <3>2
  <2>2. CASE ~Sweep(c)
    <3>1. owned'[c] \subseteq owned[c]
      BY <2>2
      DEF ConnStep, Accept, ClosePrevious, AuthOk, AuthFail, SetConnected, SaveSession,
       InsertSession, ReadPacket, ReadEnd, SendPong, Deliver, ConfirmOpen, ConnUnroute,
       ConnUnlink, ConnShut, Release, ReleaseShut, ForgetSession, RestoreSession,
       CheckEmpty, SetWaiting
    <3> QED BY <1>1, <3>1 DEF Unrouted
  <2> QED BY <2>1, <2>2
<1>7. \A b \in Conns : cpc'[b] = "unlink" => link_clients'[pkt'[b].link] = NoAddr
  BY <1>1, <1>4, <1>5, PacketTyping, SMTT(30) DEF Unrouted
<1>8. \A b \in Conns : \A i \in owned'[b] : link_clients'[i] = NoAddr /\ Spent(i)
  BY <1>1, <1>4, <1>6 DEF Unrouted
<1> QED BY <1>2, <1>3, <1>7, <1>8 DEF Unrouted

(* A link that a client task takes out of the registry it also closes.     *)
LEMMA ConnNoneLeaked ==
  ASSUME RoutingInv, NEW c \in Conns, ConnStep(c)
  PROVE  NoneLeaked'
<1> USE DEF RoutingInv, TypeInv, TypeOK, ServerTypeOK
<1> SUFFICES ASSUME NEW a \in Apps, apc[a] \in LinkedPc \cup {"shut", "done"}
             PROVE  InHand(a)'
  BY ConnFrame DEF NoneLeaked
<1>1. InHand(a)
  BY DEF NoneLeaked
<1>2. CASE ConnShut(c) \/ ReleaseShut(c)
  <2>1. links' = links
    BY <1>2 DEF ConnShut, ReleaseShut, registry
  <2>2. wclosed[a] \/ cur[c] = a => wclosed'[a]
    BY <1>2, NoAppAssumption DEF ConnShut, ReleaseShut, CloseConnection, linkObj
  <2>3. \A b \in Conns : b # c => cur'[b] = cur[b] /\ cpc'[b] = cpc[b]
    BY <1>2 DEF ConnShut, ReleaseShut
  <2> QED BY <1>1, <2>1, <2>2, <2>3, ConnFrame DEF InHand
<1>3. CASE ~ConnShut(c) /\ ~ReleaseShut(c)
  <2>1. cpc[c] \notin {"shut", "releaseShut"} /\ wclosed' = wclosed
    BY <1>3
    DEF ConnStep, Accept, ClosePrevious, AuthOk, AuthFail, SetConnected, SaveSession,
       InsertSession, ReadPacket, ReadEnd, SendPong, Deliver, ConfirmOpen, ConnUnroute,
       ConnUnlink, Sweep, Release, ForgetSession, RestoreSession,
       CheckEmpty, SetWaiting, linkObj
  <2>2. \A b \in Conns : b # c => cur'[b] = cur[b] /\ cpc'[b] = cpc[b]
    BY DEF ConnStep, Accept, ClosePrevious, AuthOk, AuthFail, SetConnected, SaveSession,
       InsertSession, ReadPacket, ReadEnd, SendPong, Deliver, ConfirmOpen, ConnUnroute,
       ConnUnlink, ConnShut, Sweep, Release, ReleaseShut, ForgetSession, RestoreSession,
       CheckEmpty, SetWaiting
  <2>3. CASE links[linkId[a]] = a
    BY <2>3, ConnLinks, ConnFrame DEF InHand
  <2>4. CASE links[linkId[a]] # a
    BY <1>1, <2>1, <2>2, <2>4, ConnFrame DEF InHand
  <2> QED BY <2>3, <2>4
<1> QED BY <1>2, <1>3

(* Data is written to the link it is about.                                *)
LEMMA ConnNoForeign ==
  ASSUME RoutingInv, NEW c \in Conns, ConnStep(c)
  PROVE  NoForeignData'
<1> USE DEF RoutingInv, TypeInv, TypeOK, ServerTypeOK
<1>1. CASE Deliver(c)
  <2>1. cur[c] \in {NoApp, pkt[c].app}
    BY <1>1 DEF Deliver, HandledOwned
  <2> QED BY <1>1, <2>1 DEF Deliver, NoForeignData
<1>2. CASE ~Deliver(c)
  <2>1. foreign' = foreign
    BY <1>2
    DEF ConnStep, Accept, ClosePrevious, AuthOk, AuthFail, SetConnected, SaveSession,
       InsertSession, ReadPacket, ReadEnd, SendPong, ConfirmOpen, ConnUnroute,
       ConnUnlink, ConnShut, Sweep, Release, ReleaseShut, ForgetSession, RestoreSession,
       CheckEmpty, SetWaiting, appSock
  <2> QED BY <2>1 DEF NoForeignData
<1> QED BY <1>1, <1>2

LEMMA ConnRouting ==
  ASSUME RoutingInv, NEW c \in Conns, ServerStep(c), TypeInv'
  PROVE  RoutingInv'
<1>1. ConnStep(c) /\ UNCHANGED peerOpen
  BY DEF ServerStep
<1>2. IdsFresh'
  BY <1>1, ConnFrame DEF RoutingInv, IdsFresh, Issued
<1> QED
  BY <1>1, <1>2, ConnLinksOwned, ConnRoutesOwned, ConnPacketsOwned, ConnHandledOwned,
     ConnUnrouted, ConnNoneLeaked, ConnNoForeign
  DEF RoutingInv

-----------------------------------------------------------------------------
(* Steps of application tasks. *)

LEMMA AppFrame ==
  ASSUME TypeInv, NEW a \in Apps, AppStep(a)
  PROVE  /\ UNCHANGED <<cpc, pkt, cur, owned, foreign, sd>>
         /\ \A b \in Apps : b # a => /\ apc'[b] = apc[b]
                                     /\ linkId'[b] = linkId[b]
                                     /\ client'[b] = client[b]
                                     /\ acur'[b] = acur[b]
<1>1. UNCHANGED <<cpc, pkt, cur, owned, foreign, sd>>
  BY DEF AppStep, TakeLinkId, PickClient, Reject, AddLink, AddRoute, SendOpen,
      SetLinkWaiting, ReadApp, ReadAppEnd, SendData, SendClose, AppUnroute, AppUnlink,
      AppShut, connTask, appSock
<1>2. \A b \in Apps : b # a => /\ apc'[b] = apc[b] /\ linkId'[b] = linkId[b]
                               /\ client'[b] = client[b] /\ acur'[b] = acur[b]
  BY DEF TypeInv, TypeOK, ServerTypeOK, AppStep, TakeLinkId, PickClient, Reject, AddLink,
      AddRoute, SendOpen, SetLinkWaiting, ReadApp, ReadAppEnd, SendData, SendClose,
      AppUnroute, AppUnlink, AppShut
<1> QED BY <1>1, <1>2

(* A task moves forward through its stages, keeping its identifier.        *)
LEMMA AppForward ==
  ASSUME TypeInv, NEW a \in Apps, AppStep(a)
  PROVE  /\ apc[a] \in SpentPc => apc'[a] \in SpentPc
         /\ apc[a] \in OpenedPc => apc'[a] \in OpenedPc
         /\ TakeLinkId(a) \/ linkId'[a] = linkId[a]
         /\ apc[a] # "pick" => client'[a] = client[a]
BY DEF TypeInv, TypeOK, ServerTypeOK, SpentPc, OpenedPc, RoutedPc, AppStep, TakeLinkId,
       PickClient, Reject, AddLink, AddRoute, SendOpen, SetLinkWaiting, ReadApp, ReadAppEnd,
       SendData, SendClose, AppUnroute, AppUnlink, AppShut

LEMMA AppOpened ==
  ASSUME TypeInv, NEW a \in Apps, AppStep(a)
  PROVE  /\ \A d, b, i : Opened(d, b, i) => Opened(d, b, i)'
         /\ \A d, p : About(d, p) => About(d, p)'
         /\ \A i : Spent(i) => Spent(i)'
<1>1. TakeLinkId(a) => apc[a] \notin SpentPc
  BY DEF TakeLinkId, SpentPc, RoutedPc
<1>2. \A d, b, i : Opened(d, b, i) => Opened(d, b, i)'
  <2>1. apc[a] \in OpenedPc => apc[a] \in SpentPc /\ apc[a] # "pick"
    BY DEF OpenedPc, SpentPc, RoutedPc
  <2>2. apc[a] \in OpenedPc => /\ apc'[a] \in OpenedPc /\ linkId'[a] = linkId[a]
                               /\ client'[a] = client[a]
    BY <1>1, <2>1, AppForward
  <2> QED BY <2>2, AppFrame DEF Opened
<1>3. \A i : Spent(i) => Spent(i)'
  BY <1>1, AppFrame, AppForward DEF Spent
<1> QED BY <1>2, <1>3 DEF About

(* Two tasks that have an identifier have different ones.                  *)
LEMMA TwoIds ==
  ASSUME IdsFresh, NEW a \in Apps, NEW b \in Apps, a # b,
         apc[a] \notin {"idle", "newid"}, apc[b] \notin {"idle", "newid"}
  PROVE  linkId[a] # linkId[b]
BY DEF IdsFresh, Issued

(* An identifier below the width is not wrapped.                           *)
LEMMA SmallMod ==
  ASSUME NEW m \in Nat, NEW w \in Nat, m < w
  PROVE  m % w = m
OBVIOUS

LEMMA AppIdsFresh ==
  ASSUME EnoughIds, RoutingInv, NEW a \in Apps, AppStep(a)
  PROVE  IdsFresh'
<1> USE DEF RoutingInv, TypeInv, TypeOK, ServerTypeOK
<1>1. IsFiniteSet(Issued) /\ Cardinality(Issued) \in Nat
  BY FS_Subset, FS_CardinalityType DEF EnoughIds, Issued
<1>2. CASE TakeLinkId(a)
  <2> DEFINE n == Cardinality(Issued)
  <2>1. a \notin Issued /\ Issued' = Issued \cup {a}
    BY <1>2 DEF TakeLinkId, Issued
  <2>2. IsFiniteSet(Issued') /\ Cardinality(Issued') = n + 1
    BY <1>1, <2>1, FS_AddElement
  <2>3. n + 1 < LinkIdWidth
    <3>1. Issued' \subseteq Apps
      BY <2>1 DEF Issued
    <3>2. Cardinality(Issued') <= Cardinality(Apps)
      BY <3>1, FS_Subset DEF EnoughIds
    <3>3. Cardinality(Apps) \in Nat
      BY FS_CardinalityType DEF EnoughIds
    <3> QED BY <1>1, <2>2, <3>2, <3>3, WidthAssumption DEF EnoughIds
  <2>4. link_id_counter = n + 1
    BY <1>1, <2>3, SmallMod, WidthAssumption DEF IdsFresh
  <2>5. link_id_counter' = (Cardinality(Issued') + 1) % LinkIdWidth
    BY <1>2, <2>2, <2>4 DEF TakeLinkId, NextLinkId
  <2>6. linkId' = [linkId EXCEPT ![a] = n + 1]
    BY <1>2, <2>4 DEF TakeLinkId
  <2>7. \A b \in Issued' : linkId'[b] \in 1 .. (n + 1)
    <3>1. n \in Nat /\ \A b \in Issued : b \in Apps /\ linkId[b] \in 1 .. n
      BY <1>1 DEF IdsFresh, Issued
    <3> HIDE DEF n
    <3> QED BY <2>1, <2>6, <3>1
  <2>8. \A b \in Issued : linkId[b] # n + 1
    BY <1>1 DEF IdsFresh
  <2>9. \A b, d \in Issued' : linkId'[b] = linkId'[d] => b = d
    <3>1. Issued \subseteq Apps
      BY DEF Issued
    <3> QED BY <2>1, <2>6, <2>8, <3>1 DEF IdsFresh
  <2> QED BY <2>2, <2>5, <2>7, <2>9 DEF IdsFresh
<1>3. CASE ~TakeLinkId(a)
  <2>1. Issued' = Issued
    BY <1>3
    DEF Issued, AppStep, PickClient, Reject, AddLink, AddRoute, SendOpen, SetLinkWaiting,
        ReadApp, ReadAppEnd, SendData, SendClose, AppUnroute, AppUnlink, AppShut
  <2>2. UNCHANGED <<linkId, link_id_counter>>
    BY <1>3
    DEF AppStep, PickClient, Reject, AddLink, AddRoute, SendOpen, SetLinkWaiting, ReadApp,
        ReadAppEnd, SendData, SendClose, AppUnroute, AppUnlink, AppShut, registry
  <2> QED BY <2>1, <2>2 DEF IdsFresh
<1> QED BY <1>2, <1>3

(* An application task changes the registry only at its own identifier.    *)
LEMMA AppLinks ==
  ASSUME TypeInv, NEW a \in Apps, AppStep(a)
  PROVE  \/ links' = links /\ ~AddLink(a) /\ ~AppUnlink(a)
         \/ AddLink(a) /\ links' = [links EXCEPT ![linkId[a]] = a] /\ linkId' = linkId
         \/ AppUnlink(a) /\ links' = [links EXCEPT ![linkId[a]] = NoApp] /\ linkId' = linkId
<1>1. CASE AddLink(a)
  BY <1>1 DEF AddLink
<1>2. CASE AppUnlink(a)
  BY <1>2 DEF AppUnlink, RegistryRemove
<1>3. CASE ~AddLink(a) /\ ~AppUnlink(a)
  BY <1>3
  DEF AppStep, TakeLinkId, PickClient, Reject, AddRoute, SendOpen, SetLinkWaiting, ReadApp,
      ReadAppEnd, SendData, SendClose, AppUnroute, AppShut, registry
<1> QED BY <1>1, <1>2, <1>3

LEMMA AppLinksOwned ==
  ASSUME RoutingInv, NEW a \in Apps, AppStep(a)
  PROVE  LinksOwned' /\ AddedStays'
<1> USE DEF RoutingInv, TypeInv, TypeOK, ServerTypeOK
<1>1. CASE AddLink(a)
  <2>1. /\ links' = [links EXCEPT ![linkId[a]] = a] /\ linkId' = linkId
        /\ apc[a] = "add" /\ apc' = [apc EXCEPT ![a] = "route"] /\ sd' = sd
    BY <1>1 DEF AddLink
  <2>2. LinksOwned'
    BY <2>1 DEF LinksOwned, LinkedPc
  <2>3. \A b \in Apps : b # a /\ apc[b] = "route" => linkId[b] # linkId[a]
    BY <2>1, TwoIds
  <2>4. AddedStays'
    BY <2>1, <2>3 DEF AddedStays
  <2> QED BY <2>2, <2>4
<1>2. CASE AppUnlink(a)
  <2>1. /\ links' = [links EXCEPT ![linkId[a]] = NoApp] /\ linkId' = linkId
        /\ apc[a] = "unlink" /\ apc' = [apc EXCEPT ![a] = "shut"] /\ sd' = sd
    BY <1>2 DEF AppUnlink, RegistryRemove
  <2>2. LinksOwned'
    BY <2>1 DEF LinksOwned
  <2>3. \A b \in Apps : b # a /\ apc[b] = "route" => linkId[b] # linkId[a]
    BY <2>1, TwoIds
  <2>4. AddedStays'
    BY <2>1, <2>3 DEF AddedStays
  <2> QED BY <2>2, <2>4
<1>3. CASE ~AddLink(a) /\ ~AppUnlink(a)
  <2>1. links' = links /\ sd' = sd
    BY <1>3, AppLinks, AppFrame
  <2>2. /\ apc'[a] # "route"
        /\ apc[a] \in LinkedPc => apc'[a] \in LinkedPc /\ linkId'[a] = linkId[a]
    BY <1>3
    DEF AppStep, TakeLinkId, PickClient, Reject, AddRoute, SendOpen, SetLinkWaiting, ReadApp,
        ReadAppEnd, SendData, SendClose, AppUnroute, AppShut, LinkedPc, RoutedPc
  <2>3. \A b \in Apps : b # a => apc'[b] = apc[b] /\ linkId'[b] = linkId[b]
    BY AppFrame
  <2>4. LinksOwned /\ AddedStays /\ \A i \in LinkId : links[i] # NoApp => links[i] \in Apps
    OBVIOUS
  <2> HIDE DEF RoutingInv, TypeInv, TypeOK, ServerTypeOK
  <2>5. LinksOwned'
    BY <2>1, <2>2, <2>3, <2>4 DEF LinksOwned
  <2>6. AddedStays'
    BY <2>1, <2>2, <2>3, <2>4 DEF AddedStays
  <2> QED BY <2>5, <2>6
<1> QED BY <1>1, <1>2, <1>3

(* An application task routes its own identifier only.                     *)
LEMMA AppRoutes ==
  ASSUME TypeInv, NEW a \in Apps, AppStep(a)
  PROVE  \/ link_clients' = link_clients /\ ~AddRoute(a) /\ ~AppUnroute(a)
         \/ /\ AddRoute(a)
            /\ link_clients' = [link_clients EXCEPT ![linkId[a]] = AddrOf[client[a]]]
         \/ /\ AppUnroute(a)
            /\ link_clients' = [link_clients EXCEPT ![linkId[a]] = NoAddr]
<1>1. CASE AddRoute(a)
  BY <1>1 DEF AddRoute
<1>2. CASE AppUnroute(a)
  BY <1>2 DEF AppUnroute, RouteRemove
<1>3. CASE ~AddRoute(a) /\ ~AppUnroute(a)
  BY <1>3
  DEF AppStep, TakeLinkId, PickClient, Reject, AddLink, SendOpen, SetLinkWaiting, ReadApp,
      ReadAppEnd, SendData, SendClose, AppUnlink, AppShut, registry
<1> QED BY <1>1, <1>2, <1>3

LEMMA AppRoutesOwned ==
  ASSUME RoutingInv, NEW a \in Apps, AppStep(a)
  PROVE  RoutesOwned'
<1> USE DEF RoutingInv, TypeInv, TypeOK, ServerTypeOK
<1> SUFFICES ASSUME NEW i \in LinkId, link_clients'[i] # NoAddr
             PROVE  \E b \in Apps : /\ linkId'[b] = i
                                    /\ apc'[b] \in RoutedPc
                                    /\ link_clients'[i] = AddrOf[client'[b]]
                                    /\ sd' = "running" => links'[i] = b
  BY DEF RoutesOwned
<1>1. CASE AddRoute(a) /\ i = linkId[a]
  <2>1. /\ apc[a] = "route" /\ apc' = [apc EXCEPT ![a] = "open"]
        /\ UNCHANGED <<linkId, client, links, sd>>
        /\ link_clients'[i] = AddrOf[client[a]]
    BY <1>1 DEF AddRoute
  <2>2. sd = "running" => links[i] = a
    BY <1>1, <2>1 DEF AddedStays
  <2> QED BY <1>1, <2>1, <2>2 DEF RoutedPc
<1>2. CASE ~(AddRoute(a) /\ i = linkId[a])
  <2>1. link_clients'[i] = link_clients[i] /\ ~(AppUnroute(a) /\ i = linkId[a])
    BY <1>2, AppRoutes
  <2>2. PICK b \in Apps : /\ linkId[b] = i
                          /\ apc[b] \in RoutedPc
                          /\ link_clients[i] = AddrOf[client[b]]
                          /\ sd = "running" => links[i] = b
    BY <2>1 DEF RoutesOwned
  <2>3. links'[i] = links[i]
    <3>1. CASE AddLink(a)
      <4>1. a # b /\ apc[a] \notin {"idle", "newid"}
        BY <2>2, <3>1 DEF AddLink, RoutedPc
      <4>2. linkId[a] # i
        BY <2>2, <4>1, TwoIds DEF RoutedPc
      <4> QED BY <3>1, <4>2 DEF AddLink
    <3>2. CASE AppUnlink(a)
      <4>1. link_clients[linkId[a]] = NoAddr
        BY <3>2 DEF AppUnlink, Unrouted
      <4> QED BY <2>1, <3>2, <4>1 DEF AppUnlink, RegistryRemove
    <3>3. CASE ~AddLink(a) /\ ~AppUnlink(a)
      BY <3>3, AppLinks
    <3> QED BY <3>1, <3>2, <3>3
  <2>4. linkId'[b] = linkId[b] /\ client'[b] = client[b] /\ apc'[b] \in RoutedPc
    <3>1. CASE b = a
      BY <2>1, <2>2, <3>1
      DEF RoutedPc, AppStep, TakeLinkId, PickClient, Reject, AddLink, AddRoute, SendOpen,
          SetLinkWaiting, ReadApp, ReadAppEnd, SendData, SendClose, AppUnroute, AppUnlink,
          AppShut
    <3>2. CASE b # a
      BY <2>2, <3>2, AppFrame
    <3> QED BY <3>1, <3>2
  <2> QED BY <2>1, <2>2, <2>3, <2>4, AppFrame
<1> QED BY <1>1, <1>2

(* What an application task sends carries its own identifier.              *)
LEMMA AppPacketsOwned ==
  ASSUME RoutingInv, NEW a \in Apps, AppStep(a), UNCHANGED peerOpen
  PROVE  PacketsOwned'
<1> USE DEF RoutingInv, TypeInv, TypeOK, ServerTypeOK, WireTypeOK
<1>1. CASE UNCHANGED <<up, down>>
  BY <1>1, AppOpened DEF PacketsOwned
<1>2. ASSUME NEW t \in {"Open", "Regular", "Close"},
             WriteOk(client[a], LinkPacket(t, linkId[a], a)), apc'[a] \in OpenedPc,
             linkId'[a] = linkId[a], client'[a] = client[a], client[a] \in Conns,
             ~UNCHANGED <<up, down>>
      PROVE  PacketsOwned'
  <2>0. PICK c \in Conns : c = client[a]
    BY <1>2
  <2> DEFINE q == LinkPacket(t, linkId[a], a)
  <2>1. q \in Packet
    BY <1>2, PacketTyping DEF PacketType
  <2>2. ASSUME NEW p, p = q PROVE About(c, p)'
    BY <1>2, <2>0, <2>2 DEF LinkPacket, About, Opened
  <2>3. up' = up /\ down' = [down EXCEPT ![c] = Append(@, q)]
    BY <1>2, <2>0 DEF WriteOk
  <2> HIDE DEF q
  <2>4. \A k \in 1 .. Len(down'[c]) :
          down'[c][k] = IF k \in 1 .. Len(down[c]) THEN down[c][k] ELSE q
    <3>1. down[c] \in Seq(Packet) /\ down'[c] = Append(down[c], q)
      BY <1>2, <2>3
    <3> QED BY ONLY <2>1, <3>1, AppendAt
  <2>5. ASSUME NEW k \in 1 .. Len(down'[c]), NEW p, p = down'[c][k] PROVE About(c, p)'
    <3>1. CASE k \in 1 .. Len(down[c])
      <4>1. p = down[c][k] /\ About(c, p)
        BY <1>2, <2>4, <2>5, <3>1 DEF PacketsOwned
      <4> QED BY <4>1, AppOpened
    <3>2. CASE k \notin 1 .. Len(down[c])
      BY <2>2, <2>4, <2>5, <3>2
    <3> QED BY <3>1, <3>2
  <2>6. \A d \in Conns : d # c => down'[d] = down[d]
    BY <2>3
  <2>7. ASSUME NEW d \in Conns, NEW k \in 1 .. Len(down'[d]), NEW p, p = down'[d][k]
        PROVE  About(d, p)'
    <3>1. CASE d = c
      BY <2>5, <2>7, <3>1
    <3>2. CASE d # c
      <4>1. k \in 1 .. Len(down[d]) /\ p = down[d][k]
        BY <2>6, <2>7, <3>2
      <4> QED BY <4>1, AppOpened DEF PacketsOwned
    <3> QED BY <3>1, <3>2
  <2> QED BY <1>2, <2>3, <2>7, AppOpened DEF PacketsOwned
<1>3. CASE SendOpen(a) /\ ~UNCHANGED <<up, down>>
  <2>1. WriteOk(client[a], LinkPacket("Open", linkId[a], a))
    BY <1>3 DEF SendOpen, WriteErr, wire
  <2>2. /\ apc'[a] \in OpenedPc /\ linkId'[a] = linkId[a]
        /\ client'[a] = client[a] /\ client[a] \in Conns
    BY <1>3 DEF SendOpen, OpenedPc, SpentPc, RoutedPc, ClientPicked
  <2> QED BY <1>2, <1>3, <2>1, <2>2
<1>4. CASE SendData(a) /\ ~UNCHANGED <<up, down>>
  <2>1. WriteOk(client[a], LinkPacket("Regular", linkId[a], a))
    BY <1>4 DEF SendData, WriteErr, wire
  <2>2. /\ apc'[a] \in OpenedPc /\ linkId'[a] = linkId[a]
        /\ client'[a] = client[a] /\ client[a] \in Conns
    BY <1>4 DEF SendData, OpenedPc, SpentPc, RoutedPc, ClientPicked
  <2> QED BY <1>2, <1>4, <2>1, <2>2
<1>5. CASE SendClose(a) /\ ~UNCHANGED <<up, down>>
  <2>1. WriteOk(client[a], LinkPacket("Close", linkId[a], a))
    BY <1>5 DEF SendClose, WriteErr, wire
  <2>2. /\ apc'[a] \in OpenedPc /\ linkId'[a] = linkId[a]
        /\ client'[a] = client[a] /\ client[a] \in Conns
    BY <1>5 DEF SendClose, OpenedPc, SpentPc, RoutedPc, ClientPicked
  <2> QED BY <1>2, <1>5, <2>1, <2>2
<1>6. CASE ~SendOpen(a) /\ ~SendData(a) /\ ~SendClose(a)
  BY <1>1, <1>6
  DEF AppStep, TakeLinkId, PickClient, Reject, AddLink, AddRoute, SetLinkWaiting, ReadApp,
      ReadAppEnd, AppUnroute, AppUnlink, AppShut, wire
<1> QED BY <1>1, <1>3, <1>4, <1>5, <1>6

LEMMA AppHandledOwned ==
  ASSUME RoutingInv, NEW a \in Apps, AppStep(a)
  PROVE  HandledOwned'
<1>1. UNCHANGED <<cpc, pkt, cur>>
  BY AppFrame DEF RoutingInv
<1>2. \A d, p : About(d, p) => About(d, p)'
  BY AppOpened DEF RoutingInv
<1> QED BY <1>1, <1>2 DEF RoutingInv, HandledOwned

(* A route is inserted only for an identifier nobody is removing.          *)
LEMMA AppUnrouted ==
  ASSUME RoutingInv, NEW a \in Apps, AppStep(a)
  PROVE  Unrouted'
<1> USE DEF RoutingInv, TypeInv, TypeOK, ServerTypeOK
<1>1. ASSUME NEW i \in LinkId, Spent(i), link_clients[i] = NoAddr
      PROVE  link_clients'[i] = NoAddr
  <2>1. CASE AddRoute(a)
    <3>1. PICK b \in Apps : linkId[b] = i /\ apc[b] \in SpentPc
      BY <1>1 DEF Spent
    <3>2. linkId[a] # i
      BY <2>1, <3>1, TwoIds DEF AddRoute, SpentPc, RoutedPc
    <3> QED BY <1>1, <2>1, <3>2 DEF AddRoute
  <2>2. CASE ~AddRoute(a)
    BY <1>1, <2>2, AppRoutes
  <2> QED BY <2>1, <2>2
<1>2. ASSUME NEW c \in Conns, cpc[c] = "unlink"
      PROVE  link_clients'[pkt[c].link] = NoAddr
  <2>1. pkt[c].link \in LinkId /\ link_clients[pkt[c].link] = NoAddr
    BY <1>2, PacketTyping DEF Unrouted
  <2>2. Spent(pkt[c].link)
    BY <1>2 DEF HandledOwned, About, Opened, Spent, OpenedPc
  <2> QED BY <1>1, <2>1, <2>2
<1>3. ASSUME NEW c \in Conns, NEW i \in owned[c]
      PROVE  link_clients'[i] = NoAddr /\ Spent(i)'
  BY <1>1, AppOpened DEF Unrouted
<1>4. ASSUME NEW b \in Apps, apc'[b] \in {"unlink", "shut", "done"}
      PROVE  link_clients'[linkId'[b]] = NoAddr
  <2>1. CASE AppUnroute(a) /\ b = a
    BY <2>1 DEF AppUnroute, RouteRemove
  <2>2. CASE ~(AppUnroute(a) /\ b = a)
    <3>1. apc[b] \in {"unlink", "shut", "done"} /\ linkId'[b] = linkId[b]
      <4>1. CASE b = a
        BY <1>4, <2>2, <4>1
        DEF AppStep, TakeLinkId, PickClient, Reject, AddLink, AddRoute, SendOpen,
            SetLinkWaiting, ReadApp, ReadAppEnd, SendData, SendClose, AppUnlink, AppShut
      <4> QED BY <1>4, <4>1, AppFrame
    <3>2. Spent(linkId[b])
      BY <3>1 DEF Spent, SpentPc
    <3> QED BY <1>1, <3>1, <3>2 DEF Unrouted
  <2> QED BY <2>1, <2>2
<1> QED BY <1>2, <1>3, <1>4, AppFrame DEF Unrouted

(* The link an application task takes out of the registry it also closes.  *)
LEMMA AppNoneLeaked ==
  ASSUME RoutingInv, NEW a \in Apps, AppStep(a)
  PROVE  NoneLeaked'
<1> USE DEF RoutingInv, TypeInv, TypeOK, ServerTypeOK
<1> SUFFICES ASSUME NEW b \in Apps, apc'[b] \in LinkedPc \cup {"shut", "done"}
             PROVE  InHand(b)'
  BY DEF NoneLeaked
<1>1. UNCHANGED <<cur, cpc>>
  BY AppFrame
<1>2. wclosed[b] => wclosed'[b]
  BY DEF AppStep, TakeLinkId, PickClient, Reject, AddLink, AddRoute, SendOpen,
         SetLinkWaiting, ReadApp, ReadAppEnd, SendData, SendClose, AppUnroute, AppUnlink,
         AppShut, CloseConnection, linkObj
<1>3. CASE b = a
  <2>1. CASE AddLink(a)
    BY <1>3, <2>1 DEF AddLink, InHand
  <2>2. CASE AppUnlink(a)
    <3>1. InHand(a) /\ apc[a] = "unlink"
      BY <2>2 DEF AppUnlink, NoneLeaked, LinkedPc
    <3>2. linkId' = linkId /\ acur'[a] = links[linkId[a]] /\ apc'[a] = "shut"
      BY <2>2 DEF AppUnlink
    <3> QED BY <1>1, <1>2, <1>3, <3>1, <3>2 DEF InHand
  <2>3. CASE AppShut(a)
    <3>1. InHand(a) /\ apc[a] = "shut" /\ links' = links /\ linkId' = linkId
      BY <2>3 DEF AppShut, NoneLeaked, registry
    <3>2. acur[a] = a => wclosed'[a]
      BY <2>3, NoAppAssumption DEF AppShut, CloseConnection
    <3> QED BY <1>1, <1>2, <1>3, <3>1, <3>2 DEF InHand
  <2>4. CASE ~AddLink(a) /\ ~AppUnlink(a) /\ ~AppShut(a)
    <3>1. links' = links
      BY <2>4, AppLinks
    <3>2. apc[a] \in LinkedPc /\ linkId'[a] = linkId[a]
      BY <1>3, <2>4
      DEF AppStep, TakeLinkId, PickClient, Reject, AddRoute, SendOpen, SetLinkWaiting,
          ReadApp, ReadAppEnd, SendData, SendClose, AppUnroute, LinkedPc, RoutedPc
    <3>3. InHand(a) /\ apc[a] # "shut"
      BY <3>2 DEF NoneLeaked, LinkedPc, RoutedPc
    <3> QED BY <1>1, <1>2, <1>3, <3>1, <3>2, <3>3 DEF InHand
  <2> QED BY <2>1, <2>2, <2>3, <2>4
<1>4. CASE b # a
  <2>1. apc'[b] = apc[b] /\ linkId'[b] = linkId[b] /\ acur'[b] = acur[b]
    BY <1>4, AppFrame
  <2>2. InHand(b) /\ apc[b] \notin {"idle", "newid"}
    BY <2>1 DEF NoneLeaked, LinkedPc, RoutedPc
  <2>3. AddLink(a) \/ AppUnlink(a) => linkId[a] # linkId[b]
    BY <1>4, <2>2, TwoIds DEF AddLink, AppUnlink
  <2>4. links'[linkId[b]] = links[linkId[b]]
    BY <2>3, AppLinks
  <2> QED BY <1>1, <1>2, <2>1, <2>2, <2>4 DEF InHand
<1> QED BY <1>3, <1>4

LEMMA AppRouting ==
  ASSUME EnoughIds, RoutingInv, NEW a \in Apps, LinkStep(a), TypeInv'
  PROVE  RoutingInv'
<1>1. AppStep(a) /\ UNCHANGED peerOpen
  BY DEF LinkStep
<1>2. NoForeignData'
  BY <1>1, AppFrame DEF RoutingInv, NoForeignData
<1> QED
  BY <1>1, <1>2, AppIdsFresh, AppLinksOwned, AppRoutesOwned, AppPacketsOwned,
     AppHandledOwned, AppUnrouted, AppNoneLeaked
  DEF RoutingInv

-----------------------------------------------------------------------------
(* Steps of the environment and of shutdown. *)

(* A peer speaks only of links the server opened, by the server's number.  *)
LEMMA PeerPackets ==
  ASSUME RoutingInv, NEW c \in Conns, PeerStep(c)
  PROVE  PacketsOwned'
<1> USE DEF RoutingInv, TypeInv, TypeOK, ServerTypeOK, WireTypeOK
<1>0. UNCHANGED <<apc, linkId, client>>
  BY DEF PeerStep, Connect, PeerRead, PeerConsume, PeerAnswer, PeerPing, PeerGone,
         PeerSilent, KernelTimeout, PeerData, PeerClose, server, appTask
<1>1. \A d, p : About(d, p) => About(d, p)'
  BY <1>0 DEF About, Opened
<1>2. \A d, b, i : Opened(d, b, i) => Opened(d, b, i)'
  BY <1>0 DEF Opened
<1>3. ASSUME NEW q \in Packet, About(c, q), up' = [up EXCEPT ![c] = Append(@, q)]
      PROVE  \A d \in Conns : \A k \in 1 .. Len(up'[d]) : About(d, up'[d][k])
  <2> SUFFICES ASSUME NEW d \in Conns, NEW k \in 1 .. Len(up'[d]) PROVE About(d, up'[d][k])
    OBVIOUS
  <2>1. CASE d = c
    <3>1. up'[c][k] = IF k \in 1 .. Len(up[c]) THEN up[c][k] ELSE q
      <4>1. up[c] \in Seq(Packet) /\ up'[c] = Append(up[c], q)
        BY <1>3
      <4> QED BY ONLY <1>3, <2>1, <4>1, AppendAt
    <3> QED BY <1>3, <2>1, <3>1 DEF PacketsOwned
  <2>2. CASE d # c
    BY <1>3, <2>2 DEF PacketsOwned
  <2> QED BY <2>1, <2>2
<1>4. ASSUME down[c] # <<>>, down' = [down EXCEPT ![c] = Tail(@)]
      PROVE  \A d \in Conns : \A k \in 1 .. Len(down'[d]) : About(d, down'[d][k])
  <2>1. \A k \in 1 .. Len(Tail(down[c])) : /\ k + 1 \in 1 .. Len(down[c])
                                           /\ Tail(down[c])[k] = down[c][k + 1]
    BY <1>4
  <2> QED BY <1>4, <2>1 DEF PacketsOwned
<1>5. CASE Connect(c) \/ PeerSilent(c)
  <2>1. UNCHANGED <<up, down>> /\ \A d \in Conns : peerOpen'[d] \subseteq peerOpen[d]
    BY <1>5 DEF Connect, PeerSilent
  <2> QED BY <1>1, <1>2, <2>1 DEF PacketsOwned
<1>6. CASE PeerConsume(c)
  <2>1. down[c] # <<>> /\ down' = [down EXCEPT ![c] = Tail(@)] /\ UNCHANGED <<up, peerOpen>>
    BY <1>6 DEF PeerConsume
  <2> QED BY <1>1, <1>2, <1>4, <2>1 DEF PacketsOwned
<1>7. ASSUME NEW t \in {"Opened", "OpenFail"}, PeerAnswer(c, t)
      PROVE  PacketsOwned'
  <2> DEFINE p == Head(down[c])
             q == LinkPacket(t, p.link, p.app)
  <2>1. down[c] # <<>> /\ p.type = "Open" /\ p \in Packet /\ About(c, p)
    BY <1>7 DEF PeerAnswer, PacketsOwned
  <2>2. Opened(c, p.app, p.link) /\ p.link \in LinkId /\ p.app \in Apps \cup {NoApp}
    BY <2>1, PacketTyping DEF About
  <2>3. q \in Packet /\ About(c, q)
    BY <2>2, PacketTyping DEF LinkPacket, About, PacketType
  <2>4. /\ down' = [down EXCEPT ![c] = Tail(@)]
        /\ up' = [up EXCEPT ![c] = Append(@, q)]
        /\ peerOpen'[c] \subseteq peerOpen[c] \cup {<<p.link, p.app>>}
        /\ \A d \in Conns : d # c => peerOpen'[d] = peerOpen[d]
    BY <1>7 DEF PeerAnswer
  <2>5. ASSUME NEW d \in Conns, NEW l \in peerOpen'[d] PROVE Opened(d, l[2], l[1])
    <3>1. CASE l \in peerOpen[d]
      BY <3>1 DEF PacketsOwned
    <3>2. CASE l \notin peerOpen[d]
      <4>1. d = c /\ l = <<p.link, p.app>>
        BY <2>4, <2>5, <3>2
      <4> QED BY <2>2, <4>1
    <3> QED BY <3>1, <3>2
  <2> HIDE DEF q, p
  <2>6. \A d \in Conns : \A k \in 1 .. Len(up'[d]) : About(d, up'[d][k])
    BY <1>3, <2>3, <2>4
  <2>7. \A d \in Conns : \A k \in 1 .. Len(down'[d]) : About(d, down'[d][k])
    BY <1>4, <2>1, <2>4
  <2> QED BY <1>1, <1>2, <2>5, <2>6, <2>7 DEF PacketsOwned
<1>8. CASE PeerPing(c)
  <2>1. ControlPacket("Ping") \in Packet /\ About(c, ControlPacket("Ping"))
    BY PacketTyping DEF ControlPacket, About, PacketType
  <2>2. up' = [up EXCEPT ![c] = Append(@, ControlPacket("Ping"))] /\ UNCHANGED <<down, peerOpen>>
    BY <1>8 DEF PeerPing
  <2>3. \A d \in Conns : \A k \in 1 .. Len(up'[d]) : About(d, up'[d][k])
    BY <1>3, <2>1, <2>2
  <2> QED BY <1>1, <1>2, <2>2, <2>3 DEF PacketsOwned
<1>9. CASE PeerGone(c)
  <2>1. PICK n \in 0 .. Len(up[c]) : up' = [up EXCEPT ![c] = SubSeq(@, 1, n)]
    BY <1>9 DEF PeerGone
  <2>2. \A k \in 1 .. Len(up'[c]) : k \in 1 .. Len(up[c]) /\ up'[c][k] = up[c][k]
    BY <2>1
  <2>3. \A d \in Conns : /\ peerOpen'[d] \subseteq peerOpen[d]
                         /\ Len(down'[d]) = 0 \/ down'[d] = down[d]
                         /\ d # c => up'[d] = up[d]
    BY <1>9, <2>1 DEF PeerGone
  <2>4. \A d \in Conns : \A k \in 1 .. Len(up'[d]) : About(d, up'[d][k])
    BY <2>2, <2>3 DEF PacketsOwned
  <2>5. \A d \in Conns : \A k \in 1 .. Len(down'[d]) : About(d, down'[d][k])
    BY <2>3 DEF PacketsOwned
  <2> QED BY <1>1, <1>2, <2>3, <2>4, <2>5 DEF PacketsOwned
<1>10. CASE KernelTimeout(c)
  <2>1. \A d \in Conns : Len(down'[d]) = 0 \/ down'[d] = down[d]
    BY <1>10 DEF KernelTimeout
  <2>2. UNCHANGED <<up, peerOpen>>
    BY <1>10 DEF KernelTimeout
  <2> QED BY <1>1, <1>2, <2>1, <2>2 DEF PacketsOwned
<1>11. ASSUME NEW l \in peerOpen[c], NEW t \in {"Regular", "Close"},
              up' = [up EXCEPT ![c] = Append(@, LinkPacket(t, l[1], l[2]))],
              down' = down, \A d \in Conns : peerOpen'[d] \subseteq peerOpen[d]
       PROVE  PacketsOwned'
  <2>1. Opened(c, l[2], l[1]) /\ l[1] \in LinkId
    BY <1>11 DEF PacketsOwned
  <2>2. LinkPacket(t, l[1], l[2]) \in Packet /\ About(c, LinkPacket(t, l[1], l[2]))
    BY <2>1, PacketTyping DEF LinkPacket, About, Opened, PacketType
  <2>3. \A d \in Conns : \A k \in 1 .. Len(up'[d]) : About(d, up'[d][k])
    BY <1>3, <1>11, <2>2
  <2> QED BY <1>1, <1>2, <1>11, <2>3 DEF PacketsOwned
<1>12. ASSUME NEW l \in peerOpen[c], PeerData(c, l) \/ PeerClose(c, l)
       PROVE  PacketsOwned'
  <2>1. CASE PeerData(c, l)
    BY <1>11, <2>1 DEF PeerData
  <2>2. CASE PeerClose(c, l)
    <3>1. down' = down /\ \A d \in Conns : peerOpen'[d] \subseteq peerOpen[d]
      BY <2>2 DEF PeerClose
    <3> QED BY <1>11, <2>2, <3>1 DEF PeerClose
  <2> QED BY <1>12, <2>1, <2>2
<1> QED
  BY <1>5, <1>6, <1>7, <1>8, <1>9, <1>10, <1>12 DEF PeerStep, PeerRead

LEMMA PeerRouting ==
  ASSUME RoutingInv, NEW c \in Conns, PeerStep(c), TypeInv'
  PROVE  RoutingInv'
<1>1. UNCHANGED <<server, appSock>>
  BY DEF PeerStep, Connect, PeerRead, PeerConsume, PeerAnswer, PeerPing, PeerGone,
         PeerSilent, KernelTimeout, PeerData, PeerClose
<1>2. PacketsOwned'
  BY PeerPackets
<1>3. UNCHANGED <<links, link_id_counter, link_clients, cpc, pkt, cur, owned, apc, linkId,
                  client, acur, wclosed, foreign, sd>>
  BY <1>1 DEF server, registry, connTask, appTask, linkObj, appSock
<1>4. IdsFresh' /\ LinksOwned' /\ AddedStays' /\ RoutesOwned'
  BY <1>3 DEF RoutingInv, IdsFresh, Issued, LinksOwned, AddedStays, RoutesOwned
<1>5. HandledOwned' /\ Unrouted'
  BY <1>3 DEF RoutingInv, HandledOwned, About, Opened, Unrouted, Spent
<1>6. NoneLeaked' /\ NoForeignData'
  BY <1>3 DEF RoutingInv, NoneLeaked, InHand, NoForeignData
<1> QED BY <1>2, <1>4, <1>5, <1>6 DEF RoutingInv

(* An application that connects has no identifier yet.                     *)
LEMMA SocketRouting ==
  ASSUME RoutingInv, NEW a \in Apps, AppConnect(a) \/ AppWrite(a) \/ AppClose(a), TypeInv'
  PROVE  RoutingInv'
<1> USE DEF RoutingInv, TypeInv, TypeOK, ServerTypeOK
<1>1. UNCHANGED <<up, down, peerOpen, links, link_id_counter, link_clients, cpc, pkt, cur,
                  owned, linkId, client, acur, wclosed, foreign, sd>>
  BY DEF AppConnect, AppWrite, AppClose, wire, server, registry, connTask, appTask, linkObj
<1>2. \A b \in Apps : apc'[b] = apc[b] \/ (apc[b] = "idle" /\ apc'[b] = "newid")
  BY DEF AppConnect, AppWrite, AppClose, server, appTask
<1>3. Issued' = Issued
  BY <1>2 DEF Issued
<1>4. \A b \in Apps : \A S \in {RoutedPc, LinkedPc, SpentPc, OpenedPc, {"route"},
                                {"unlink", "shut", "done"}, LinkedPc \cup {"shut", "done"}, {"shut"}} :
        apc'[b] \in S <=> apc[b] \in S
  BY <1>2 DEF RoutedPc, LinkedPc, SpentPc, OpenedPc
<1>5. IdsFresh'
  BY <1>1, <1>3 DEF IdsFresh
<1>6. LinksOwned' /\ AddedStays' /\ RoutesOwned'
  BY <1>1, <1>4 DEF LinksOwned, AddedStays, RoutesOwned
<1>7. \A d, b, i : Opened(d, b, i) => Opened(d, b, i)'
  BY <1>1, <1>4 DEF Opened
<1>8. \A d, p : About(d, p) => About(d, p)'
  BY <1>7 DEF About
<1>9. PacketsOwned' /\ HandledOwned'
  BY <1>1, <1>7, <1>8 DEF PacketsOwned, HandledOwned
<1>10. Unrouted'
  BY <1>1, <1>4 DEF Unrouted, Spent
<1>11. NoneLeaked' /\ NoForeignData'
  BY <1>1, <1>4 DEF NoneLeaked, InHand, NoForeignData
<1> QED BY <1>5, <1>6, <1>9, <1>10, <1>11

(* Shutdown empties the registry of links, closing each, and keeps the     *)
(* routes.                                                                 *)
LEMMA SignalRouting ==
  ASSUME RoutingInv, Signal, TypeInv'
  PROVE  RoutingInv'
<1> USE DEF RoutingInv, TypeInv, TypeOK, ServerTypeOK
<1>1. UNCHANGED <<up, down, peerOpen, link_id_counter, link_clients, cpc, pkt, cur,
                  owned, linkId, client, apc, acur, foreign>> /\ sd' # "running"
  BY DEF Signal, ShutdownStep, CloseAllLinks, DrainSessions, Exit, wire, registry, connTask,
         appTask, appSock
<1>2. /\ \A i \in LinkId : links'[i] = links[i] \/ links'[i] = NoApp
      /\ \A a \in Apps, i \in LinkId : links[i] = a => links'[i] = a \/ wclosed'[a]
      /\ \A a \in Apps : wclosed[a] => wclosed'[a]
  <2>1. CASE CloseAllLinks
    <3>1. \A i \in LinkId : links'[i] = NoApp
      BY <2>1 DEF CloseAllLinks
    <3>2. \A a \in Apps : wclosed'[a] = (a \in {links[i] : i \in LinkId} \ {NoApp} \/ wclosed[a])
      BY <2>1 DEF CloseAllLinks
    <3>3. \A a \in Apps, i \in LinkId : links[i] = a => a \in {links[j] : j \in LinkId} \ {NoApp}
      BY NoAppAssumption
    <3> QED BY <3>1, <3>2, <3>3
  <2>2. CASE DrainSessions \/ Exit
    BY <2>2 DEF DrainSessions, Exit, registry, linkObj
  <2> QED BY <2>1, <2>2 DEF Signal, ShutdownStep
<1>3. IdsFresh' /\ LinksOwned' /\ AddedStays' /\ RoutesOwned'
  BY <1>1, <1>2 DEF IdsFresh, Issued, LinksOwned, AddedStays, RoutesOwned
<1>4. PacketsOwned' /\ HandledOwned' /\ Unrouted'
  BY <1>1 DEF PacketsOwned, HandledOwned, About, Opened, Unrouted, Spent
<1>5. NoneLeaked' /\ NoForeignData'
  BY <1>1, <1>2 DEF NoneLeaked, InHand, NoForeignData
<1> QED BY <1>3, <1>4, <1>5

-----------------------------------------------------------------------------
(* The invariant, and what follows from it. *)

LEMMA RoutingInit == Init => RoutingInv
<1> SUFFICES ASSUME Init PROVE RoutingInv
  OBVIOUS
<1>1. TypeInv
  BY InitTyping
<1>2. Issued = {} /\ Cardinality(Issued) = 0
  BY FS_EmptySet DEF Init, ServerInit, Issued
<1>3. IdsFresh
  BY <1>2, WidthAssumption, SmallMod DEF Init, ServerInit, IdsFresh
<1>4. LinksOwned /\ AddedStays /\ RoutesOwned /\ Unrouted /\ NoneLeaked /\ NoForeignData
  BY DEF Init, ServerInit, LinksOwned, AddedStays, RoutesOwned, Unrouted, NoneLeaked,
         NoForeignData, RoutedPc, LinkedPc
<1>5. PacketsOwned /\ HandledOwned
  BY DEF Init, ServerInit, WireInit, PacketsOwned, HandledOwned, About, NoPacket, ControlPacket
<1> QED BY <1>1, <1>3, <1>4, <1>5 DEF RoutingInv

LEMMA RoutingNext ==
  ASSUME EnoughIds, RoutingInv, [Next]_vars
  PROVE  RoutingInv'
<1>1. TypeInv'
  BY NextTyping DEF RoutingInv
<1>2. CASE UNCHANGED vars
  BY <1>2 DEF vars, wire, registry, connTask, appTask, linkObj, appSock, RoutingInv, TypeInv,
              TypeOK, ServerTypeOK, WireTypeOK, ClientPicked, IdsFresh, Issued, LinksOwned,
              AddedStays, RoutesOwned, PacketsOwned, HandledOwned, About, Opened, Unrouted,
              Spent, NoneLeaked, InHand, NoForeignData
<1> QED
  BY <1>1, <1>2, ConnRouting, AppRouting, PeerRouting, SocketRouting, SignalRouting
  DEF Next, ServerStep, LinkStep, Terminated

LEMMA RoutingInvariant == ASSUME EnoughIds PROVE Spec => []RoutingInv
<1>1. RoutingInv /\ [Next]_vars => RoutingInv'
  BY RoutingNext
<1> QED BY <1>1, RoutingInit, PTL DEF Spec

(* Until shutdown, every route names a registered link and the address of  *)
(* the client that link sends to: remove_link and cleanup_client act on    *)
(* the link they mean.                                                     *)
THEOREM RoutesRegisteredTheorem == ASSUME EnoughIds PROVE Spec => []RoutesRegistered
<1>1. RoutingInv => RoutesRegistered
  BY NoAppAssumption DEF RoutingInv, RoutesOwned, RoutesRegistered
<1> QED BY <1>1, RoutingInvariant, PTL

(* Data of a remote end reaches only the application connection it was     *)
(* opened for.                                                             *)
THEOREM NoForeignDataTheorem == ASSUME EnoughIds PROVE Spec => []NoForeignData
<1>1. RoutingInv => NoForeignData
  BY DEF RoutingInv
<1> QED BY <1>1, RoutingInvariant, PTL

(* Once app_exchange has ended, its link is in no registry and its socket  *)
(* is shut down, or about to be by the task that removed it.               *)
THEOREM LinkReleasedTheorem == ASSUME EnoughIds PROVE Spec => []LinkReleased
<1>1. ASSUME RoutingInv, NEW a \in Apps, apc[a] = "done", NEW i \in LinkId PROVE links[i] # a
  BY <1>1, NoAppAssumption DEF RoutingInv, LinksOwned, LinkedPc, RoutedPc
<1>2. ASSUME RoutingInv, NEW a \in Apps, apc[a] = "done"
      PROVE  /\ link_clients[linkId[a]] = NoAddr
             /\ InHand(a) /\ linkId[a] \in LinkId
  BY <1>2 DEF RoutingInv, Unrouted, NoneLeaked, TypeInv, TypeOK, ServerTypeOK
<1>3. RoutingInv => LinkReleased
  BY <1>1, <1>2 DEF LinkReleased, InHand
<1> QED BY <1>3, RoutingInvariant, PTL

-----------------------------------------------------------------------------
(* Who closes a link. *)

(* Every connection comes from an address of its own.                      *)
AddrsApart == \A c, d \in Conns : AddrOf[c] = AddrOf[d] => c = d

(* The connection a has been routed to client c, and keeps its identifier  *)
(* and its client.                                                         *)
Serves(c, a) == a \in Apps /\ apc[a] \in SpentPc /\ client[a] = c

(* What a task takes out of the registry to close it is its own link, or a *)
(* link that its own client serves; and so is what it has collected.       *)
CauseInv ==
  /\ \A c \in Conns : cpc[c] \in {"shut", "releaseShut"} =>
       cur[c] = NoApp \/ Serves(c, cur[c])
  /\ \A c \in Conns : \A i \in owned[c] : \E a \in Apps : linkId[a] = i /\ Serves(c, a)
  /\ \A a \in Apps : apc[a] = "shut" => acur[a] \in {NoApp, a}

(* A link that is registered under a number of c is one that c serves.     *)
LEMMA FoundIsServed ==
  ASSUME RoutingInv, NEW c \in Conns, NEW a \in Apps, Serves(c, a), NEW i \in LinkId,
         linkId[a] = i
  PROVE  links[i] \in {NoApp, a}
<1> SUFFICES ASSUME links[i] # NoApp PROVE links[i] = a
  OBVIOUS
<1>1. links[i] \in Apps /\ linkId[links[i]] = linkId[a] /\ apc[links[i]] \in LinkedPc
  BY DEF RoutingInv, TypeInv, TypeOK, ServerTypeOK, LinksOwned
<1> QED BY <1>1, OneOwner DEF RoutingInv, Serves

LEMMA ConnCause ==
  ASSUME AddrsApart, RoutingInv, CauseInv, NEW c \in Conns, ConnStep(c)
  PROVE  CauseInv'
<1> USE DEF RoutingInv, TypeInv, TypeOK, ServerTypeOK
<1>1. \A b, a : Serves(b, a)' <=> Serves(b, a)
  BY ConnFrame DEF Serves
<1>2. \A b \in Conns : b # c => cpc'[b] = cpc[b] /\ cur'[b] = cur[b] /\ owned'[b] = owned[b]
  BY DEF ConnStep, Accept, ClosePrevious, AuthOk, AuthFail, SetConnected, SaveSession,
       InsertSession, ReadPacket, ReadEnd, SendPong, Deliver, ConfirmOpen, ConnUnroute,
       ConnUnlink, ConnShut, Sweep, Release, ReleaseShut, ForgetSession, RestoreSession,
       CheckEmpty, SetWaiting
<1>3. cpc'[c] \in {"shut", "releaseShut"} => cur'[c] = NoApp \/ Serves(c, cur'[c])
  <2>1. CASE ConnUnlink(c)
    <3>1. Opened(c, pkt[c].app, pkt[c].link) /\ pkt[c].link \in LinkId
      BY <2>1, PacketTyping DEF ConnUnlink, HandledOwned, About
    <3>2. Serves(c, pkt[c].app) /\ linkId[pkt[c].app] = pkt[c].link /\ pkt[c].app \in Apps
      BY <3>1 DEF Opened, Serves, OpenedPc
    <3>3. cur'[c] = links[pkt[c].link]
      BY <2>1 DEF ConnUnlink
    <3> QED BY <3>1, <3>2, <3>3, FoundIsServed
  <2>2. ASSUME NEW i \in LinkId, Release(c, i)
        PROVE  cur'[c] = NoApp \/ Serves(c, cur'[c])
    <3>1. PICK a \in Apps : linkId[a] = i /\ Serves(c, a)
      BY <2>2 DEF Release, CauseInv
    <3>2. cur'[c] = links[i]
      BY <2>2 DEF Release
    <3> QED BY <3>1, <3>2, FoundIsServed
  <2>3. CASE ~ConnUnlink(c) /\ ~(\E i \in LinkId : Release(c, i))
    <3>1. cpc'[c] \notin {"shut", "releaseShut"}
      BY <2>3
      DEF ConnStep, Accept, ClosePrevious, AuthOk, AuthFail, SetConnected, SaveSession,
       InsertSession, ReadPacket, Dispatch, ReadEnd, SendPong, Deliver, ConfirmOpen,
       ConnUnroute, ConnShut, Sweep, ReleaseShut, ForgetSession, RestoreSession,
       CheckEmpty, SetWaiting
    <3> QED BY <3>1
  <2> QED BY <2>1, <2>2, <2>3
<1>4. \A i \in owned'[c] : \E a \in Apps : linkId[a] = i /\ Serves(c, a)
  <2>1. CASE Sweep(c)
    <3> SUFFICES ASSUME NEW i \in LinkId, link_clients[i] = AddrOf[c]
                 PROVE  \E a \in Apps : linkId[a] = i /\ Serves(c, a)
      BY <2>1 DEF Sweep, RoutesOf
    <3>1. link_clients[i] # NoAddr
      BY AddrAssumption, NoAddrAssumption
    <3>2. PICK a \in Apps : /\ linkId[a] = i /\ apc[a] \in RoutedPc
                            /\ link_clients[i] = AddrOf[client[a]]
      BY <3>1 DEF RoutesOwned
    <3>3. client[a] \in Conns
      BY <3>2 DEF ClientPicked, RoutedPc
    <3>4. client[a] = c
      BY <3>2, <3>3 DEF AddrsApart
    <3> QED BY <3>2, <3>4 DEF Serves, SpentPc
  <2>2. CASE ~Sweep(c)
    <3>1. owned'[c] \subseteq owned[c]
      BY <2>2
      DEF ConnStep, Accept, ClosePrevious, AuthOk, AuthFail, SetConnected, SaveSession,
       InsertSession, ReadPacket, ReadEnd, SendPong, Deliver, ConfirmOpen, ConnUnroute,
       ConnUnlink, ConnShut, Release, ReleaseShut, ForgetSession, RestoreSession,
       CheckEmpty, SetWaiting
    <3> QED BY <3>1 DEF CauseInv
  <2> QED BY <2>1, <2>2
<1> HIDE DEF RoutingInv, TypeInv, TypeOK, ServerTypeOK
<1>5. ASSUME NEW b \in Conns, cpc'[b] \in {"shut", "releaseShut"}
      PROVE  cur'[b] = NoApp \/ Serves(b, cur'[b])
  BY <1>2, <1>3, <1>5 DEF CauseInv
<1>6. ASSUME NEW b \in Conns, NEW i \in owned'[b]
      PROVE  \E a \in Apps : linkId[a] = i /\ Serves(b, a)
  BY <1>2, <1>4, <1>6 DEF CauseInv
<1> QED BY <1>1, <1>5, <1>6, ConnFrame DEF CauseInv

LEMMA AppCause ==
  ASSUME RoutingInv, CauseInv, NEW a \in Apps, AppStep(a)
  PROVE  CauseInv'
<1>0. TypeInv
  BY DEF RoutingInv
<1>1. apc[a] \in SpentPc => /\ apc'[a] \in SpentPc /\ client'[a] = client[a]
                            /\ linkId'[a] = linkId[a]
  BY <1>0, AppForward DEF SpentPc, RoutedPc, TakeLinkId
<1>2. \A c, b : Serves(c, b) => Serves(c, b)' /\ linkId'[b] = linkId[b]
  BY <1>0, <1>1, AppFrame DEF Serves
<1>3. apc'[a] = "shut" => acur'[a] \in {NoApp, a}
  <2>1. CASE AppUnlink(a)
    <3>1. linkId[a] \in LinkId /\ client[a] \in Conns /\ apc[a] = "unlink"
      BY <2>1 DEF AppUnlink, RoutingInv, TypeInv, TypeOK, ServerTypeOK, ClientPicked
    <3>2. Serves(client[a], a)
      BY <3>1 DEF Serves, SpentPc
    <3>3. acur'[a] = links[linkId[a]]
      BY <2>1 DEF AppUnlink, RoutingInv, TypeInv, TypeOK, ServerTypeOK
    <3> QED BY <3>1, <3>2, <3>3, FoundIsServed
  <2>2. CASE ~AppUnlink(a)
    <3>1. apc'[a] # "shut"
      BY <2>2
      DEF RoutingInv, TypeInv, TypeOK, ServerTypeOK, AppStep, TakeLinkId, PickClient, Reject,
          AddLink, AddRoute, SendOpen, SetLinkWaiting, ReadApp, ReadAppEnd, SendData,
          SendClose, AppUnroute, AppShut
    <3> QED BY <3>1
  <2> QED BY <2>1, <2>2
<1>4. UNCHANGED <<cpc, cur, owned>>
  BY <1>0, AppFrame
<1>5. \A b \in Apps : apc'[b] = "shut" => acur'[b] \in {NoApp, b}
  BY <1>0, <1>3, AppFrame DEF CauseInv
<1> QED BY <1>2, <1>4, <1>5 DEF CauseInv

LEMMA CauseNext ==
  ASSUME AddrsApart, RoutingInv, CauseInv, [Next]_vars
  PROVE  CauseInv'
<1>1. CASE \E c \in Conns : ServerStep(c)
  BY <1>1, ConnCause DEF ServerStep
<1>2. CASE \E a \in Apps : LinkStep(a)
  BY <1>2, AppCause DEF LinkStep
<1>3. CASE \/ \E c \in Conns : PeerStep(c)
           \/ \E a \in Apps : AppWrite(a) \/ AppClose(a)
           \/ Signal \/ UNCHANGED vars
  <2>1. UNCHANGED <<cpc, cur, owned, apc, linkId, client, acur>>
    BY <1>3
    DEF PeerStep, Connect, PeerRead, PeerConsume, PeerAnswer, PeerPing, PeerGone, PeerSilent,
        KernelTimeout, PeerData, PeerClose, AppWrite, AppClose, Signal, ShutdownStep,
        CloseAllLinks, DrainSessions, Exit, vars, server, connTask, appTask
  <2> QED BY <2>1 DEF CauseInv, Serves
<1>4. ASSUME NEW a \in Apps, AppConnect(a) PROVE CauseInv'
  <2>1. UNCHANGED <<cpc, cur, owned, linkId, client, acur>>
    BY <1>4 DEF AppConnect, connTask
  <2>2. \A b \in Apps : apc'[b] = apc[b] \/ (apc[b] = "idle" /\ apc'[b] = "newid")
    BY <1>4 DEF AppConnect, RoutingInv, TypeInv, TypeOK, ServerTypeOK
  <2>3. \A c, b : Serves(c, b) => Serves(c, b)'
    BY <2>1, <2>2 DEF Serves, SpentPc, RoutedPc
  <2> QED BY <2>1, <2>2, <2>3 DEF CauseInv
<1> QED BY <1>1, <1>2, <1>3, <1>4 DEF Next, Terminated

(* What ClosedForCause says of one step.                                   *)
CausedStep ==
  \A a \in Apps : ~wclosed[a] /\ wclosed'[a] =>
    \/ apc[a] \in {"pick", "shut"}
    \/ client[a] # NoConn /\ cpc[client[a]] \in {"shut", "releaseShut"}
    \/ sd # sd'

LEMMA ConnCloses ==
  ASSUME RoutingInv, CauseInv, NEW c \in Conns, ConnStep(c)
  PROVE  CausedStep
<1> SUFFICES ASSUME NEW a \in Apps, ~wclosed[a], wclosed'[a]
             PROVE  client[a] # NoConn /\ cpc[client[a]] \in {"shut", "releaseShut"}
  BY DEF CausedStep
<1>1. ConnShut(c) \/ ReleaseShut(c)
  BY DEF ConnStep, Accept, ClosePrevious, AuthOk, AuthFail, SetConnected, SaveSession,
       InsertSession, ReadPacket, ReadEnd, SendPong, Deliver, ConfirmOpen, ConnUnroute,
       ConnUnlink, Sweep, Release, ForgetSession, RestoreSession,
       CheckEmpty, SetWaiting, linkObj
<1>2. cpc[c] \in {"shut", "releaseShut"} /\ cur[c] # NoApp /\ a = cur[c]
  BY <1>1
  DEF ConnShut, ReleaseShut, CloseConnection, linkObj, RoutingInv, TypeInv, TypeOK, ServerTypeOK
<1>3. client[a] = c
  BY <1>2 DEF CauseInv, Serves
<1> QED BY <1>2, <1>3, NoConnAssumption

LEMMA AppCloses ==
  ASSUME RoutingInv, CauseInv, NEW a \in Apps, AppStep(a)
  PROVE  CausedStep
<1> SUFFICES ASSUME NEW b \in Apps, ~wclosed[b], wclosed'[b]
             PROVE  apc[b] \in {"pick", "shut"}
  BY DEF CausedStep
<1>1. Reject(a) \/ AppShut(a)
  BY DEF AppStep, TakeLinkId, PickClient, AddLink, AddRoute, SendOpen, SetLinkWaiting,
         ReadApp, ReadAppEnd, SendData, SendClose, AppUnroute, AppUnlink, linkObj
<1>2. CASE Reject(a)
  BY <1>2 DEF Reject, RoutingInv, TypeInv, TypeOK, ServerTypeOK
<1>3. CASE AppShut(a)
  <2>1. apc[a] = "shut" /\ acur[a] # NoApp /\ b = acur[a]
    BY <1>3
    DEF AppShut, CloseConnection, linkObj, RoutingInv, TypeInv, TypeOK, ServerTypeOK
  <2> QED BY <2>1 DEF CauseInv
<1> QED BY <1>1, <1>2, <1>3

LEMMA CausedNext ==
  ASSUME RoutingInv, CauseInv, [Next]_vars
  PROVE  CausedStep
<1>1. CASE \E c \in Conns : ServerStep(c)
  BY <1>1, ConnCloses DEF ServerStep
<1>2. CASE \E a \in Apps : LinkStep(a)
  BY <1>2, AppCloses DEF LinkStep
<1>3. CASE CloseAllLinks
  BY <1>3 DEF CloseAllLinks, CausedStep
<1>4. CASE \/ \E c \in Conns : PeerStep(c)
           \/ \E a \in Apps : AppConnect(a) \/ AppWrite(a) \/ AppClose(a)
           \/ DrainSessions \/ Exit \/ UNCHANGED vars
  <2>1. wclosed' = wclosed
    BY <1>4
    DEF PeerStep, Connect, PeerRead, PeerConsume, PeerAnswer, PeerPing, PeerGone, PeerSilent,
        KernelTimeout, PeerData, PeerClose, AppConnect, AppWrite, AppClose, DrainSessions,
        Exit, vars, server, linkObj
  <2> QED BY <2>1 DEF CausedStep
<1> QED BY <1>1, <1>2, <1>3, <1>4 DEF Next, Terminated, Signal, ShutdownStep

(* Clients do not disturb each other's links: the socket of an application *)
(* is shut down by its own task, by the task of the client that serves it  *)
(* or by shutdown.  cleanup_client collects by address, so connections     *)
(* have to come from different addresses: of two from one, the cleanup of  *)
(* the older takes the links of the newer.                                 *)
THEOREM ClosedForCauseTheorem ==
  ASSUME EnoughIds, AddrsApart PROVE Spec => ClosedForCause
<1>1. Init => CauseInv
  BY DEF Init, ServerInit, CauseInv
<1>2. RoutingInv /\ CauseInv /\ [Next]_vars => CauseInv'
  BY CauseNext
<1>3. RoutingInv /\ CauseInv /\ [Next]_vars => [CausedStep]_vars
  BY CausedNext
<1> QED BY <1>1, <1>2, <1>3, RoutingInvariant, PTL DEF Spec, ClosedForCause, CausedStep
=============================================================================
