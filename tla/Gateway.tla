------------------------------ MODULE Gateway -------------------------------
(***************************************************************************)
(* The control plane of the gateway: client sessions (handleConnect,       *)
(* readLoop and cleanupConnection of internal/server), the admin API's     *)
(* DELETE, and public requests on their way to a connection (the first     *)
(* half of ServeHTTP in internal/proxy), over the shared registry and      *)
(* broker.  A step is what one goroutine does between two mutexes; any     *)
(* other goroutine may run in between.                                     *)
(*                                                                         *)
(* Connection IDs and subdomains are strings.  Only their hyphens matter,  *)
(* so a string is the sequence of its hyphen-free pieces: "my-app" is      *)
(* <<"my", "app">>, and joining two strings with a hyphen is \o.           *)
(***************************************************************************)
EXTENDS Integers, Sequences, FiniteSets, Maps

CONSTANTS
  Session,    \* handleConnect calls, one per WebSocket ever accepted
  Request,    \* public HTTP requests
  ConnID,     \* the connection ID of each session: the client_id of its
              \* register frame, or a generated "conn-<nanoseconds>"
  UserID,     \* the user of each session's token
  Subdomain,  \* subdomains in use
  Reserved,   \* registry configuration, see Registry
  SubLength,
  MaxSubdomainLength,
  DefaultTTL,
  Offer,      \* the lists of subdomains a register frame may carry
  Deletable,  \* tunnel IDs the admin may name in a DELETE
  None        \* no value; Go's nil

VARIABLES
  tunnels, subdomainIndex,       \* registry
  connections, subdomainToConn,  \* broker
  activeTunnels,                 \* the gauge gotunnel_active_tunnels_total
  pc,          \* where each session is
  todo,        \* the tunnels it has yet to register
  tunnelIDs,   \* the IDs it has registered and not yet cleaned up
  found,       \* the subdomain cleanupConnection read from the registry
  peer,        \* the client's end of the socket: "up", "silent" or "down"
  writers,     \* the goroutines inside WriteMessage on its socket
  firstFrame,  \* the first frame it wrote to the client
  req          \* the state of each public request

registryVars == <<tunnels, subdomainIndex>>
brokerVars == <<connections, subdomainToConn>>
socketVars == <<writers, firstFrame>>
vars == <<tunnels, subdomainIndex, connections, subdomainToConn, activeTunnels,
          pc, todo, tunnelIDs, found, peer, writers, firstFrame, req>>

\* fmt.Sprintf("%s-%s", connID, tc.Subdomain)
TunnelID(s, sub) == ConnID[s] \o sub

TunnelOf(s, sub) ==
  [id |-> TunnelID(s, sub), owner |-> UserID[s], sub |-> sub, conn |-> ConnID[s], ttl |-> 0]

Submissions == {TunnelOf(s, sub) : s \in Session, sub \in Subdomain}

Name == {ConnID[s] : s \in Session}

ASSUME GatewayAssumption ==
  /\ IsFiniteSet(Session)
  /\ ConnID \in [Session -> Seq(STRING)]
  /\ Subdomain \subseteq Seq(STRING)
  /\ Reserved \subseteq Subdomain
  /\ SubLength \in [Subdomain -> Nat]
  /\ MaxSubdomainLength \in Nat
  /\ DefaultTTL \in Nat
  /\ Offer \subseteq Seq(Subdomain)
  /\ None \notin Subdomain \cup Session

\* No action of the gateway reads LastHeartbeatAt (CleanExpired has no
\* caller), so the registry's clock stands still.
Reg == INSTANCE Registry WITH
         Submitted <- Submissions,
         Nil <- None, MaxTime <- 0, now <- 0

\* nil is no tunnel and no tunnel ID.
ASSUME NilAssumption == None \notin Reg!ID /\ None \notin Reg!Tunnel

Brk == INSTANCE Broker WITH Sub <- Subdomain

Init ==
  /\ tunnels = EmptyMap /\ subdomainIndex = EmptyMap
  /\ Brk!NewBroker
  /\ activeTunnels = 0
  /\ pc = [s \in Session |-> "connect"]
  /\ todo = [s \in Session |-> <<>>]
  /\ tunnelIDs = [s \in Session |-> <<>>]
  /\ found = [s \in Session |-> None]
  /\ peer = [s \in Session |-> "up"]
  /\ writers = [s \in Session |-> {}]
  /\ firstFrame = [s \in Session |-> None]
  /\ req = [r \in Request |-> [pc |-> "idle", sub |-> None, tunnel |-> None, conn |-> None]]

Goto(s, from, to) == pc[s] = from /\ pc' = [pc EXCEPT ![s] = to]

\* The socket is closed by handleConnect's deferred ws.Close.
SocketClosed(s) == pc[s] \in {"closed", "panicked"}

\* Remember the frame if it is the first one on the socket.
Wrote(s, frame) ==
  firstFrame' = [firstFrame EXCEPT ![s] = IF @ = None THEN frame ELSE @]
-----------------------------------------------------------------------------
(* handleConnect *)

\* The socket fails before a frame is read; or the first frame is no register
\* frame, is malformed, or its token does not validate, which is answered.
Reject(s) ==
  /\ Goto(s, "connect", "closed")
  /\ UNCHANGED firstFrame \/ Wrote(s, "error")
  /\ UNCHANGED <<registryVars, brokerVars, activeTunnels, todo, tunnelIDs, found, peer,
                 writers, req>>

Accept(s) ==
  /\ Goto(s, "connect", "register")
  /\ Brk!AddConnection(ConnID[s], s)
  /\ \E offer \in Offer : todo' = [todo EXCEPT ![s] = offer]
  /\ UNCHANGED <<registryVars, activeTunnels, tunnelIDs, found, peer, socketVars, req>>

RegisterTunnel(s) ==
  /\ Goto(s, "register", "map")
  /\ todo[s] # <<>>
  /\ Reg!Register(TunnelOf(s, Head(todo[s])))
  /\ UNCHANGED <<brokerVars, activeTunnels, todo, tunnelIDs, found, peer, socketVars, req>>

\* Bug variant: the ID is not remembered, so that cleanup will not find it.
MapSubdomain_ForgetsID(s) ==
  /\ Goto(s, "map", "register")
  /\ Brk!MapSubdomain(Head(todo[s]), ConnID[s])
  /\ todo' = [todo EXCEPT ![s] = Tail(@)]
  /\ activeTunnels' = activeTunnels + 1
  /\ UNCHANGED <<registryVars, tunnelIDs, found, peer, socketVars, req>>

\* Lines 212-214: route, remember the ID, count.
MapSubdomain(s) ==
  /\ Goto(s, "map", "register")
  /\ Brk!MapSubdomain(Head(todo[s]), ConnID[s])
  /\ tunnelIDs' = [tunnelIDs EXCEPT ![s] = Append(@, TunnelID(s, Head(todo[s])))]
  /\ todo' = [todo EXCEPT ![s] = Tail(@)]
  /\ activeTunnels' = activeTunnels + 1
  /\ UNCHANGED <<registryVars, found, peer, socketVars, req>>

\* Bug variant: the subdomain that was refused is cleaned up as well.
RefuseTunnel_Unmaps(s) ==
  /\ Goto(s, "register", "refuse")
  /\ todo[s] # <<>>
  /\ ~Reg!CanRegister(Head(todo[s]))
  /\ Brk!UnmapSubdomain(Head(todo[s]))
  /\ UNCHANGED <<registryVars, activeTunnels, todo, tunnelIDs, found, peer, socketVars, req>>

\* Register returned an error: an error reply, then cleanup of the earlier ones.
RefuseTunnel(s) ==
  /\ Goto(s, "register", "refuse")
  /\ todo[s] # <<>>
  /\ ~Reg!CanRegister(Head(todo[s]))
  /\ UNCHANGED <<registryVars, brokerVars, activeTunnels, todo, tunnelIDs, found, peer,
                 socketVars, req>>

\* sendControlResponse calls ws.WriteMessage without sendMu.  The WebSocket
\* library allows one writer; with a second one it panics if it notices, and
\* the panic skips cleanupConnection.
StartReply(s) ==
  /\ \/ Goto(s, "register", "replying") /\ todo[s] = <<>>
     \/ Goto(s, "refuse", "refusing")
  /\ writers' = [writers EXCEPT ![s] = @ \cup {s}]
  /\ UNCHANGED <<registryVars, brokerVars, activeTunnels, todo, tunnelIDs, found, peer,
                 firstFrame, req>>

ReplyPanics(s) ==
  /\ \/ Goto(s, "register", "panicked") /\ todo[s] = <<>>
     \/ Goto(s, "refuse", "panicked")
  /\ writers[s] # {}
  /\ UNCHANGED <<registryVars, brokerVars, activeTunnels, todo, tunnelIDs, found, peer,
                 socketVars, req>>

EndReply(s) ==
  /\ \/ Goto(s, "replying", "serve") /\ Wrote(s, "ok")
     \/ Goto(s, "refusing", "cleanup") /\ Wrote(s, "error")
  /\ writers' = [writers EXCEPT ![s] = @ \ {s}]
  /\ UNCHANGED <<registryVars, brokerVars, activeTunnels, todo, tunnelIDs, found, peer, req>>
-----------------------------------------------------------------------------
(* readLoop and cleanupConnection *)

\* ReadMessage fails once the client's end is gone.  The read loop has no
\* deadline: a client that is only silent keeps it waiting.
ReadError(s) ==
  /\ Goto(s, "serve", "cleanup")
  /\ peer[s] = "down"
  /\ UNCHANGED <<registryVars, brokerVars, activeTunnels, todo, tunnelIDs, found, peer,
                 socketVars, req>>

\* Bug variant: the route is left to RemoveConnection.
CleanupLookup_NoUnmap(s) ==
  /\ tunnelIDs[s] # <<>>
  /\ Goto(s, "cleanup", "unregister")
  /\ UNCHANGED <<registryVars, brokerVars, activeTunnels, todo, tunnelIDs, found, peer,
                 socketVars, req>>

\* GetByID of the next tunnel ID; the subdomain it returns is unmapped in a
\* later step.
CleanupLookup(s) ==
  /\ tunnelIDs[s] # <<>>
  /\ LET id == Head(tunnelIDs[s])
     IN  \/ /\ Reg!GetByID(id)
            /\ Goto(s, "cleanup", "unmap")
            /\ found' = [found EXCEPT ![s] = tunnels[id].sub]
         \/ /\ ~Reg!GetByID(id)
            /\ Goto(s, "cleanup", "unregister")
            /\ UNCHANGED found
  /\ UNCHANGED <<registryVars, brokerVars, activeTunnels, todo, tunnelIDs, peer,
                 socketVars, req>>

CleanupUnmap(s) ==
  /\ Goto(s, "unmap", "unregister")
  /\ Brk!UnmapSubdomain(found[s])
  /\ found' = [found EXCEPT ![s] = None]
  /\ UNCHANGED <<registryVars, activeTunnels, todo, tunnelIDs, peer, socketVars, req>>

\* Bug variant: the gauge is not brought down.
CleanupUnregister_ForgetsGauge(s) ==
  /\ Goto(s, "unregister", "cleanup")
  /\ LET id == Head(tunnelIDs[s])
     IN  Reg!Unregister(id) \/ (~Reg!GetByID(id) /\ UNCHANGED registryVars)
  /\ tunnelIDs' = [tunnelIDs EXCEPT ![s] = Tail(@)]
  /\ UNCHANGED <<brokerVars, activeTunnels, todo, found, peer, socketVars, req>>

CleanupUnregister(s) ==
  /\ Goto(s, "unregister", "cleanup")
  /\ LET id == Head(tunnelIDs[s])
     IN  \/ Reg!Unregister(id) /\ activeTunnels' = activeTunnels - 1
         \/ ~Reg!GetByID(id) /\ UNCHANGED <<registryVars, activeTunnels>>
  /\ tunnelIDs' = [tunnelIDs EXCEPT ![s] = Tail(@)]
  /\ UNCHANGED <<brokerVars, todo, found, peer, socketVars, req>>

CleanupRemove(s) ==
  /\ Goto(s, "cleanup", "closed")
  /\ tunnelIDs[s] = <<>>
  /\ Brk!RemoveConnection(ConnID[s])
  /\ UNCHANGED <<registryVars, activeTunnels, todo, tunnelIDs, found, peer, socketVars, req>>
-----------------------------------------------------------------------------
(* The client's end of the socket *)

PeerGoes(s, how) ==
  /\ peer[s] = "up" /\ pc[s] # "connect" /\ ~SocketClosed(s)
  /\ peer' = [peer EXCEPT ![s] = how]
  /\ UNCHANGED <<registryVars, brokerVars, activeTunnels, pc, todo, tunnelIDs, found,
                 socketVars, req>>

\* The client exits, closes or loses the network; TCP reports it in time.
PeerDown(s) == PeerGoes(s, "down")

\* The client process hangs: the socket stays open, no frame is sent.
PeerSilent(s) == PeerGoes(s, "silent")
-----------------------------------------------------------------------------
(* DELETE /api/v1/tunnels/{id}: the registry entry goes, the route and the *)
(* gauge stay.                                                             *)

handleTunnelByID(id) ==
  /\ Reg!Unregister(id)
  /\ UNCHANGED <<brokerVars, activeTunnels, pc, todo, tunnelIDs, found, peer, socketVars, req>>
-----------------------------------------------------------------------------
(* ServeHTTP up to the open_stream frame.  A failed request was answered   *)
(* with 502.                                                               *)

sessionVars == <<registryVars, brokerVars, activeTunnels, pc, todo, tunnelIDs, found, peer>>

LookupTunnel(r, sub) ==
  /\ req[r].pc = "idle"
  /\ req' = [req EXCEPT ![r] =
       IF Reg!SubdomainTaken(sub)
       THEN [@ EXCEPT !.pc = "route", !.sub = sub,
                      !.tunnel = IF Reg!GetBySubdomain(sub) = None THEN None
                                 ELSE Reg!GetBySubdomain(sub).id]
       ELSE [@ EXCEPT !.pc = "failed"]]
  /\ UNCHANGED <<sessionVars, socketVars>>

\* Lines 83-92.  A nil tunnel is dereferenced as soon as a connection is found.
RouteRequest(r) ==
  /\ req[r].pc = "route"
  /\ LET sub == req[r].sub
     IN  req' = [req EXCEPT ![r] =
           IF ~Brk!Routable(sub) THEN [@ EXCEPT !.pc = "failed"]
           ELSE IF @.tunnel = None THEN [@ EXCEPT !.pc = "panicked"]
           ELSE [@ EXCEPT !.pc = "open", !.conn = Brk!GetConnectionBySubdomain(sub)]]
  /\ UNCHANGED <<sessionVars, socketVars>>

\* SendMessage: sendMu keeps other requests out, not the session itself.
StartSend(r) ==
  LET s == req[r].conn
  IN  /\ req[r].pc = "open"
      /\ ~SocketClosed(s)
      /\ writers[s] \cap Request = {}
      /\ writers' = [writers EXCEPT ![s] = @ \cup {r}]
      /\ req' = [req EXCEPT ![r].pc = "sending"]
      /\ UNCHANGED <<sessionVars, firstFrame>>

\* The write fails on a closed socket or a dead peer, or panics when it meets
\* the session's own write.
SendFails(r) ==
  LET s == req[r].conn
  IN  /\ req[r].pc = "open"
      /\ writers[s] \cap Request = {}
      /\ \/ SocketClosed(s) \/ peer[s] = "down"
         \/ writers[s] # {}
      /\ req' = [req EXCEPT ![r].pc = "failed"]
      /\ UNCHANGED <<sessionVars, socketVars>>

EndSend(r) ==
  LET s == req[r].conn
  IN  /\ req[r].pc = "sending"
      /\ writers' = [writers EXCEPT ![s] = @ \ {r}]
      /\ Wrote(s, "open_stream")
      /\ req' = [req EXCEPT ![r].pc = "sent"]
      /\ UNCHANGED sessionVars
-----------------------------------------------------------------------------
SessionStep(s) ==
  \/ RegisterTunnel(s) \/ MapSubdomain(s) \/ RefuseTunnel(s)
  \/ StartReply(s) \/ ReplyPanics(s) \/ EndReply(s)
  \/ ReadError(s)
  \/ CleanupLookup(s) \/ CleanupUnmap(s) \/ CleanupUnregister(s) \/ CleanupRemove(s)

RequestStep(r) ==
  \/ \E sub \in Subdomain : LookupTunnel(r, sub)
  \/ RouteRequest(r) \/ StartSend(r) \/ SendFails(r) \/ EndSend(r)

Next ==
  \/ \E s \in Session : Reject(s) \/ Accept(s) \/ SessionStep(s) \/ PeerDown(s) \/ PeerSilent(s)
  \/ \E r \in Request : RequestStep(r)
  \/ \E id \in Deletable : handleTunnelByID(id)

\* A goroutine that can run does run; nothing is assumed of the clients.
Spec == Init /\ [][Next]_vars /\ \A s \in Session : WF_vars(SessionStep(s))
-----------------------------------------------------------------------------
\* Hypotheses on the connection IDs.  The shipped client sends no client_id,
\* so its IDs are generated: two pieces, "conn" and a number, and distinct.
GeneratedIDs == \A s, t \in Session : Len(ConnID[s]) = Len(ConnID[t])
DistinctIDs  == \A s, t \in Session : ConnID[s] = ConnID[t] => s = t

SessionPC == {"connect", "register", "map", "refuse", "replying", "refusing", "serve",
              "cleanup", "unmap", "unregister", "closed", "panicked"}
RequestPC == {"idle", "route", "open", "sending", "sent", "failed", "panicked"}

SessionTypeOK ==
  /\ pc \in [Session -> SessionPC]
  /\ todo \in [Session -> Seq(Subdomain)]
  /\ tunnelIDs \in [Session -> Seq(Reg!ID)]
  /\ found \in [Session -> Subdomain \cup {None}]
  /\ \A s \in Session :
       /\ found[s] # None <=> pc[s] = "unmap"
       /\ pc[s] = "map" => todo[s] # <<>>
       /\ pc[s] \in {"unmap", "unregister"} => tunnelIDs[s] # <<>>
  /\ peer \in [Session -> {"up", "silent", "down"}]

RequestTypeOK ==
  /\ writers \in [Session -> SUBSET (Session \cup Request)]
  /\ firstFrame \in [Session -> {None, "ok", "error", "open_stream"}]
  /\ req \in [Request -> [pc : RequestPC, sub : Subdomain \cup {None},
                          tunnel : Reg!ID \cup {None}, conn : Session \cup {None}]]
  /\ \A r \in Request : req[r].pc = "route" => req[r].sub # None
  /\ \A r \in Request : req[r].pc \in {"open", "sending"} => req[r].conn # None

\* Every variable has its type: no reserved subdomain is ever registered, a
\* session has what its next step needs (a tunnel to map, an ID to clean up, a
\* subdomain to unmap), and a request that sends has a connection.
TypeOK ==
  /\ Reg!TypeOK
  /\ Brk!BrokerTypeOK
  /\ activeTunnels \in Int
  /\ SessionTypeOK
  /\ RequestTypeOK

\* The registry's table and index agree, whatever sessions and admin do.
IndexConsistent == Reg!IndexExact

\* The broker never routes a subdomain that the registry does not hold, nor
\* to another connection than the one the registry records: handleConnect
\* registers before it maps and cleanupConnection unmaps before it
\* unregisters, so no interleaving of sessions shows a route of its own.
RoutesFollowRegistry ==
  \A sub \in DOMAIN subdomainToConn :
    /\ sub \in DOMAIN subdomainIndex
    /\ tunnels[subdomainIndex[sub]].conn = subdomainToConn[sub]

\* A tunnel of a session in its read loop that is in the registry is routed
\* to that session: what other sessions register, fail to register or clean
\* up never takes a live tunnel off the air.
ServedTunnelsRoutable ==
  \A s \in Session : pc[s] = "serve" =>
    \A id \in Range(tunnelIDs[s]) : id \in DOMAIN tunnels =>
      /\ Brk!Routable(tunnels[id].sub)
      /\ Brk!GetConnectionBySubdomain(tunnels[id].sub) = s

\* Every route leads to a connection of the broker's table, after any mix of
\* sessions and DELETEs: RemoveConnection takes the routes along.
RoutesLead ==
  \A sub \in DOMAIN subdomainToConn : subdomainToConn[sub] \in DOMAIN connections

\* The gauge gotunnel_active_tunnels_total is the number of registered tunnels,
\* less those whose session has registered but not yet counted them.
Uncounted == {s \in Session : pc[s] = "map" /\ TunnelID(s, Head(todo[s])) \in DOMAIN tunnels}
GaugeCounts == activeTunnels + Cardinality(Uncounted) = Cardinality(DOMAIN tunnels)

\* A session that has ended leaves nothing behind: every tunnel in the
\* registry and every connection in the broker is of a session that has not
\* run cleanupConnection to its end.  The one session that stays in this state
\* for good is the one a panic in the reply (server.go:218, :355) took past
\* readLoop's deferred cleanup.
NothingLeaks ==
  /\ \A id \in DOMAIN tunnels :
       \E s \in Session : ConnID[s] = tunnels[id].conn /\ pc[s] # "closed"
  /\ \A c \in DOMAIN connections : pc[connections[c]] # "closed"

\* When the client of a session is gone, its subdomains become free again,
\* whatever state the registration was in and whoever sends requests to it;
\* only a session that panicked in its reply keeps them.
Held(s) == \E id \in DOMAIN tunnels : tunnels[id].conn = ConnID[s]
GoneClientsAreCleaned ==
  \A s \in Session : peer[s] = "down" ~> \/ pc[s] = "closed" /\ ~Held(s)
                                         \/ pc[s] = "panicked"

\* A request is never handed to another connection than the one that holds
\* its subdomain at that moment, although ServeHTTP asks the registry and the
\* broker one after the other.
HandedToHolder ==
  [][\A r \in Request : req[r].pc = "route" /\ req'[r].pc = "open" =>
       \A id \in DOMAIN tunnels :
         tunnels[id].sub = req[r].sub => tunnels[id].conn = ConnID[req'[r].conn]]_vars

\* A lookup that succeeds yields a tunnel: GetBySubdomain never returns nil
\* without an error, which ServeHTTP would dereference.
LookupsFindTunnels ==
  \A r \in Request : req[r].pc \notin {"idle", "failed"} => req[r].tunnel # None

\* The first frame a client receives answers its register frame.
ReplyComesFirst == \A s \in Session : firstFrame[s] # "open_stream"
-----------------------------------------------------------------------------
(* Inductive invariants, for the proofs.                                   *)

\* The broker files a connection under its own ID.
ConnectionsOwn == \A c \in DOMAIN connections : ConnID[connections[c]] = c

\* From Accept until cleanup starts a session is in the broker.
UpPC == {"register", "map", "refuse", "replying", "refusing", "serve"}

\* Behind RoutesLead: whoever may still add a route has its connection filed.
LeadInv ==
  /\ TypeOK /\ RoutesLead
  /\ \A s \in Session : pc[s] \in UpPC => ConnID[s] \in DOMAIN connections

\* The session will come to tunnel id in its cleanup.
Remembers(s, id) ==
  \/ id \in Range(tunnelIDs[s])
  \/ pc[s] = "map" /\ id = TunnelID(s, Head(todo[s]))

\* Behind NothingLeaks: every tunnel is remembered by a session that has not
\* ended, every connection in the broker is of one.
TunnelsKept ==
  \A id \in DOMAIN tunnels : \E s \in Session :
    tunnels[id].conn = ConnID[s] /\ pc[s] # "closed" /\ Remembers(s, id)
ConnectionsKept ==
  \A c \in DOMAIN connections : pc[connections[c]] \notin {"connect", "closed"}
KeptInv ==
  /\ TypeOK /\ ConnectionsOwn /\ TunnelsKept /\ ConnectionsKept
  /\ \A s \in Session : pc[s] = "connect" => tunnelIDs[s] = <<>>

\* No session was ended by a panic of the WebSocket library.
NoPanic == \A s \in Session : pc[s] # "panicked"
-----------------------------------------------------------------------------
(* Routing.  RoutesFollowRegistry and ServedTunnelsRoutable are not        *)
(* inductive: they rest on who owns which tunnel ID and on what a session  *)
(* knows between two of its steps.                                         *)

\* A stored tunnel bears the ID and the connection of the session it is of.
OwnersKnown ==
  \A id \in DOMAIN tunnels : \E s \in Session :
    id = TunnelID(s, tunnels[id].sub) /\ tunnels[id].conn = ConnID[s]

\* A session only remembers IDs of its own, and none before it is accepted.
OwnIDs ==
  \A s \in Session :
    /\ \A i \in DOMAIN tunnelIDs[s] : \E sub \in Subdomain : tunnelIDs[s][i] = TunnelID(s, sub)
    /\ pc[s] = "connect" => tunnelIDs[s] = <<>>

\* While it is up a session is in the broker and its tunnels are registered and
\* routed to it.
Routed(s, id) ==
  /\ id \in DOMAIN tunnels
  /\ tunnels[id].sub \in DOMAIN subdomainToConn
  /\ subdomainToConn[tunnels[id].sub] = ConnID[s]
UpRouted ==
  \A s \in Session : pc[s] \in UpPC =>
    /\ ConnID[s] \in DOMAIN connections /\ connections[ConnID[s]] = s
    /\ \A i \in DOMAIN tunnelIDs[s] : Routed(s, tunnelIDs[s][i])

\* What a session knows between Register and MapSubdomain, between GetByID and
\* UnmapSubdomain, and between UnmapSubdomain and Unregister.
AboutToMap ==
  \A s \in Session : pc[s] = "map" =>
    LET id == TunnelID(s, Head(todo[s]))
    IN  id \in DOMAIN tunnels /\ tunnels[id].sub = Head(todo[s])
AboutToUnmap ==
  \A s \in Session : pc[s] = "unmap" =>
    Head(tunnelIDs[s]) \in DOMAIN tunnels /\ tunnels[Head(tunnelIDs[s])].sub = found[s]
AboutToUnregister ==
  \A s \in Session : pc[s] = "unregister" /\ Head(tunnelIDs[s]) \in DOMAIN tunnels =>
    tunnels[Head(tunnelIDs[s])].sub \notin DOMAIN subdomainToConn

\* The inductive invariant behind the two, of sessions with generated and
\* distinct IDs, when nothing is deleted by an admin: no other session's step
\* between two steps of handleConnect or cleanupConnection invalidates what
\* that session knows.
RoutingInv ==
  /\ TypeOK /\ IndexConsistent /\ RoutesFollowRegistry
  /\ OwnersKnown /\ OwnIDs /\ ConnectionsOwn
  /\ UpRouted /\ AboutToMap /\ AboutToUnmap /\ AboutToUnregister
=============================================================================
