--------------------------- MODULE GatewayProofs ----------------------------
(***************************************************************************)
(* Proofs about the control plane of the gateway, for any number of        *)
(* sessions and requests and any register frames.                          *)
(***************************************************************************)
EXTENDS Gateway, TLAPS

\* The registry's theorems, for the registry of the gateway.
RegTh == INSTANCE RegistryProofs WITH
           Submitted <- Submissions, Nil <- None, MaxTime <- 0, now <- 0

\* What a session submits is one of the tunnels the registry may be given.
LEMMA TunnelOfType ==
  ASSUME NEW s \in Session, NEW sub \in Subdomain
  PROVE  /\ TunnelID(s, sub) \in Reg!ID
         /\ Reg!Stored(TunnelOf(s, sub)) \in Reg!Tunnel
         /\ Reg!Stored(TunnelOf(s, sub)).id = TunnelID(s, sub)
         /\ Reg!Stored(TunnelOf(s, sub)).sub = sub
         /\ Reg!Stored(TunnelOf(s, sub)).conn = ConnID[s]
         /\ Reg!Stored(TunnelOf(s, sub)).hb = 0
<1> DEFINE t == TunnelOf(s, sub)
<1>1. t \in Submissions
  BY DEF Submissions
<1>2. /\ t.id = TunnelID(s, sub) /\ t.owner = UserID[s] /\ t.sub = sub
      /\ t.conn = ConnID[s] /\ t.ttl = 0
  BY DEF TunnelOf
<1> HIDE DEF t
<1>3. t.id \in Reg!ID
  BY <1>1 DEF Reg!ID
<1>4. Reg!Stored(t) = [id |-> TunnelID(s, sub), owner |-> UserID[s], sub |-> sub,
                       conn |-> ConnID[s], ttl |-> DefaultTTL, hb |-> 0]
  BY <1>2 DEF Reg!Stored
<1>5. Reg!Stored(t) \in Reg!Tunnel
  <2>1. UserID[s] \in {u.owner : u \in Submissions} /\ ConnID[s] \in {u.conn : u \in Submissions}
    BY <1>1, <1>2
  <2>2. DefaultTTL \in Int
    BY GatewayAssumption
  <2> QED BY <1>2, <1>3, <1>4, <2>1, <2>2 DEF Reg!Tunnel
<1> QED BY <1>2, <1>3, <1>4, <1>5 DEF t

\* The registry keeps its type, whichever session or admin calls it.
LEMMA RegisterKeepsType ==
  ASSUME Reg!TypeOK, NEW s \in Session, NEW sub \in Subdomain, Reg!Register(TunnelOf(s, sub))
  PROVE  Reg!TypeOK'
<1>1. TunnelOf(s, sub).sub = sub /\ TunnelOf(s, sub).id = TunnelID(s, sub)
  BY DEF TunnelOf
<1>2. sub \notin Reserved
  BY <1>1 DEF Reg!Register, Reg!CanRegister, Reg!IsSubdomainReserved
<1> QED BY <1>1, <1>2, TunnelOfType DEF Reg!TypeOK, Reg!Register, Reg!Put

\* Taking a tunnel out keeps the types of the registry.
LEMMA UnregisterKeepsType ==
  ASSUME Reg!TypeOK, NEW id, Reg!Unregister(id)
  PROVE  Reg!TypeOK'
BY DEF Reg!TypeOK, Reg!Unregister, Reg!Delete, Reg!Restrict

\* So does leaving the registry alone.
LEMMA RegistryUnchanged ==
  ASSUME Reg!TypeOK, UNCHANGED registryVars
  PROVE  Reg!TypeOK'
BY DEF Reg!TypeOK, registryVars

\* Each step of a session keeps the types.
LEMMA SessionKeepsType ==
  ASSUME TypeOK, NEW s \in Session,
         Reject(s) \/ Accept(s) \/ SessionStep(s) \/ PeerDown(s) \/ PeerSilent(s)
  PROVE  TypeOK'
<1> USE GatewayAssumption
    DEF TypeOK, SessionTypeOK, SessionPC, Brk!BrokerTypeOK, brokerVars, socketVars, Goto, Name
<1>1. CASE Reject(s)
  BY <1>1, RegistryUnchanged, Zenon DEF Reject, Wrote, RequestTypeOK
<1>2. CASE Accept(s)
  BY <1>2, RegistryUnchanged DEF Accept, Brk!AddConnection, Brk!Put, RequestTypeOK
<1>3. CASE RegisterTunnel(s)
  <2>1. Head(todo[s]) \in Subdomain
    BY <1>3 DEF RegisterTunnel
  <2>2. Reg!TypeOK'
    BY <1>3, <2>1, RegisterKeepsType, Zenon DEF RegisterTunnel
  <2> QED BY <1>3, <2>2 DEF RegisterTunnel, RequestTypeOK
<1>4. CASE MapSubdomain(s)
  <2>1. Head(todo[s]) \in Subdomain /\ Tail(todo[s]) \in Seq(Subdomain)
    BY <1>4 DEF MapSubdomain
  <2>2. Append(tunnelIDs[s], TunnelID(s, Head(todo[s]))) \in Seq(Reg!ID)
    BY <2>1, TunnelOfType
  <2>3. Brk!BrokerTypeOK'
    BY <1>4, <2>1, Zenon DEF MapSubdomain, Brk!MapSubdomain, Brk!Put
  <2> QED BY <1>4, <2>1, <2>2, <2>3, RegistryUnchanged DEF MapSubdomain, RequestTypeOK
<1>5. CASE RefuseTunnel(s)
  BY <1>5, RegistryUnchanged DEF RefuseTunnel, RequestTypeOK
<1>6. CASE StartReply(s)
  <2>1. PICK q \in {"replying", "refusing"} : pc' = [pc EXCEPT ![s] = q] /\ pc[s] # "unmap"
    BY <1>6 DEF StartReply
  <2>2. SessionTypeOK'
    BY <1>6, <2>1 DEF StartReply
  <2>3. RequestTypeOK'
    BY <1>6 DEF StartReply, RequestTypeOK
  <2> QED BY <1>6, <2>2, <2>3, RegistryUnchanged, Zenon DEF StartReply
<1>7. CASE ReplyPanics(s)
  <2>1. PICK q \in {"panicked"} : pc' = [pc EXCEPT ![s] = q] /\ pc[s] # "unmap"
    BY <1>7 DEF ReplyPanics
  <2>2. SessionTypeOK'
    BY <1>7, <2>1, Zenon DEF ReplyPanics
  <2> QED BY <1>7, <2>2, RegistryUnchanged DEF ReplyPanics, RequestTypeOK
<1>8. CASE EndReply(s)
  <2>1. PICK q \in {"serve", "cleanup"} : pc' = [pc EXCEPT ![s] = q] /\ pc[s] # "unmap"
    BY <1>8, Zenon DEF EndReply
  <2>2. SessionTypeOK'
    BY <1>8, <2>1 DEF EndReply
  <2>3. RequestTypeOK'
    BY <1>8, ZenonT(30) DEF EndReply, Wrote, RequestTypeOK
  <2> QED BY <1>8, <2>2, <2>3, RegistryUnchanged, Zenon DEF EndReply
<1>9. CASE ReadError(s)
  BY <1>9, RegistryUnchanged, Zenon DEF ReadError, RequestTypeOK
<1>10. CASE CleanupLookup(s)
  <2>1. \A id \in DOMAIN tunnels : tunnels[id].sub \in Subdomain
    BY Zenon DEF Reg!TypeOK, Reg!Tunnel
  <2>2. \/ /\ pc' = [pc EXCEPT ![s] = "unmap"]
           /\ \E sub \in Subdomain : found' = [found EXCEPT ![s] = sub]
        \/ pc' = [pc EXCEPT ![s] = "unregister"] /\ UNCHANGED found
    BY <1>10, <2>1, Zenon DEF CleanupLookup, Reg!GetByID
  <2>3. pc[s] = "cleanup" /\ tunnelIDs[s] # <<>> /\ UNCHANGED <<todo, tunnelIDs, peer>>
    BY <1>10, Zenon DEF CleanupLookup
  <2>4. SessionTypeOK'
    <3>1. ASSUME pc' = [pc EXCEPT ![s] = "unmap"],
                 NEW sub \in Subdomain, found' = [found EXCEPT ![s] = sub]
          PROVE  SessionTypeOK'
      <4>1. sub # None
        OBVIOUS
      <4> QED BY <2>3, <3>1, <4>1
    <3>2. CASE pc' = [pc EXCEPT ![s] = "unregister"] /\ UNCHANGED found
      BY <2>3, <3>2, Zenon
    <3> QED BY <2>2, <3>1, <3>2, Zenon
  <2> QED BY <1>10, <2>4, RegistryUnchanged, Zenon DEF CleanupLookup, RequestTypeOK
<1>11. CASE CleanupUnmap(s)
  BY <1>11, RegistryUnchanged, Zenon
     DEF CleanupUnmap, Brk!UnmapSubdomain, Brk!Delete, Brk!Restrict, RequestTypeOK
<1>12. CASE CleanupUnregister(s)
  <2>1. Reg!TypeOK'
    BY <1>12, RegistryUnchanged, UnregisterKeepsType, Zenon DEF CleanupUnregister, registryVars
  <2>2. Tail(tunnelIDs[s]) \in Seq(Reg!ID)
    BY <1>12 DEF CleanupUnregister
  <2>3. /\ pc[s] = "unregister" /\ pc' = [pc EXCEPT ![s] = "cleanup"]
        /\ tunnelIDs' = [tunnelIDs EXCEPT ![s] = Tail(tunnelIDs[s])]
        /\ activeTunnels' \in {activeTunnels, activeTunnels - 1}
        /\ UNCHANGED <<connections, subdomainToConn, todo, found, peer, writers, firstFrame, req>>
    BY <1>12, Zenon DEF CleanupUnregister
  <2>4. SessionTypeOK'
    BY <2>2, <2>3, Zenon
  <2>5. Brk!BrokerTypeOK' /\ RequestTypeOK' /\ activeTunnels' \in Int
    BY <2>3, SMTT(20) DEF RequestTypeOK
  <2> QED BY <2>1, <2>4, <2>5, Zenon
<1>13. CASE CleanupRemove(s)
  BY <1>13, RegistryUnchanged, Zenon
     DEF CleanupRemove, Brk!RemoveConnection, Brk!Delete, Brk!Restrict, RequestTypeOK
<1>14. CASE PeerDown(s) \/ PeerSilent(s)
  BY <1>14, RegistryUnchanged, ZenonT(30) DEF PeerDown, PeerSilent, PeerGoes, RequestTypeOK
<1> QED BY ZenonT(30), <1>1, <1>2, <1>3, <1>4, <1>5, <1>6, <1>7, <1>8, <1>9, <1>10, <1>11, <1>12,
           <1>13, <1>14 DEF SessionStep

\* So does each step of a request: it leaves registry, broker and sessions alone.
LEMMA RequestKeepsType ==
  ASSUME TypeOK, NEW r \in Request, RequestStep(r)
  PROVE  TypeOK'
<1> DEFINE Req == [pc : RequestPC, sub : Subdomain \cup {None},
                   tunnel : Reg!ID \cup {None}, conn : Session \cup {None}]
<1>1. UNCHANGED sessionVars
  BY Zenon DEF RequestStep, LookupTunnel, RouteRequest, StartSend, SendFails, EndSend
<1>2. Reg!TypeOK' /\ Brk!BrokerTypeOK' /\ (activeTunnels \in Int)' /\ SessionTypeOK'
  BY <1>1, RegistryUnchanged DEF TypeOK, sessionVars, brokerVars, Brk!BrokerTypeOK, SessionTypeOK
<1>3. req[r] \in Req
  BY DEF TypeOK, RequestTypeOK
<1> DEFINE SocketsOK == /\ writers \in [Session -> SUBSET (Session \cup Request)]
                        /\ firstFrame \in [Session -> {None, "ok", "error", "open_stream"}]
<1>sockets. UNCHANGED socketVars => SocketsOK'
  BY DEF TypeOK, RequestTypeOK, socketVars
<1>becomes. ASSUME NEW q \in Req, req' = [req EXCEPT ![r] = q], SocketsOK',
             q.pc = "route" => q.sub # None, q.pc \in {"open", "sending"} => q.conn # None
      PROVE  RequestTypeOK'
  BY <1>becomes DEF TypeOK, RequestTypeOK
<1> HIDE DEF SocketsOK
<1>moves. ASSUME NEW p \in RequestPC \ {"route"}, req' = [req EXCEPT ![r].pc = p], SocketsOK',
              p \in {"open", "sending"} => req[r].conn # None
       PROVE  RequestTypeOK'
  <2> DEFINE q == [req[r] EXCEPT !.pc = p]
  <2>1. q \in Req /\ q.pc = p /\ q.conn = req[r].conn
    BY <1>3
  <2>2. req' = [req EXCEPT ![r] = q]
    BY <1>moves
  <2> QED BY <1>becomes, <1>moves, <2>1, <2>2, Zenon
<1>4. ASSUME NEW sub \in Subdomain, LookupTunnel(r, sub) PROVE RequestTypeOK'
  <2>1. sub # None
    BY GatewayAssumption
  <2>2. CASE ~Reg!SubdomainTaken(sub)
    BY <1>3, <1>sockets, <1>moves, <1>4, <2>2, Zenon DEF LookupTunnel, RequestPC
  <2>3. CASE Reg!SubdomainTaken(sub)
    <3> DEFINE t == IF Reg!GetBySubdomain(sub) = None THEN None ELSE Reg!GetBySubdomain(sub).id
    <3>1. t \in Reg!ID \cup {None}
      BY DEF Reg!GetBySubdomain, TypeOK, Reg!TypeOK, Reg!Tunnel
    <3>2. req' = [req EXCEPT ![r] = [req[r] EXCEPT !.pc = "route", !.sub = sub, !.tunnel = t]]
      BY <1>3, <1>4, <2>3 DEF LookupTunnel, TypeOK, RequestTypeOK
    <3> HIDE DEF t
    <3> DEFINE q == [req[r] EXCEPT !.pc = "route", !.sub = sub, !.tunnel = t]
    <3>3. q \in Req /\ q.sub # None /\ q.pc = "route"
      BY <1>3, <2>1, <3>1, Zenon DEF RequestPC
    <3> QED BY <1>becomes, <1>sockets, <1>4, <3>2, <3>3, Zenon DEF LookupTunnel
  <2> QED BY <2>2, <2>3
<1>5. ASSUME RouteRequest(r) PROVE RequestTypeOK'
  <2>1. \A sub : Brk!Routable(sub) => Brk!GetConnectionBySubdomain(sub) \in Session
    BY DEF Brk!Routable, Brk!GetConnectionBySubdomain, TypeOK, Brk!BrokerTypeOK
  <2>2. \/ req' = [req EXCEPT ![r] = [req[r] EXCEPT !.pc = "failed"]]
        \/ req' = [req EXCEPT ![r] = [req[r] EXCEPT !.pc = "panicked"]]
        \/ \E c \in Session : req' = [req EXCEPT ![r] = [req[r] EXCEPT !.pc = "open", !.conn = c]]
    BY <1>3, <1>5, <2>1, Zenon DEF RouteRequest, TypeOK, RequestTypeOK
  <2>3. \A c \in Session : c # None
    BY GatewayAssumption
  <2>4. SocketsOK'
    BY <1>sockets, <1>5 DEF RouteRequest
  <2>5. ASSUME NEW c \in Session, req' = [req EXCEPT ![r] = [req[r] EXCEPT !.pc = "open", !.conn = c]]
        PROVE  RequestTypeOK'
    <3> DEFINE q == [req[r] EXCEPT !.pc = "open", !.conn = c]
    <3>1. q \in Req /\ q.pc = "open" /\ q.conn # None
      BY <1>3, <2>3, Zenon DEF RequestPC
    <3> QED BY <1>becomes, <2>4, <2>5, <3>1, Zenon
  <2> QED BY <1>moves, <2>2, <2>4, <2>5, Zenon DEF RequestPC
<1>6. ASSUME StartSend(r) PROVE RequestTypeOK'
  <2>1. SocketsOK'
    BY <1>6 DEF StartSend, TypeOK, RequestTypeOK, SocketsOK
  <2>2. req[r].conn # None
    BY <1>6 DEF StartSend, TypeOK, RequestTypeOK
  <2> QED BY <1>6, <1>moves, <2>1, <2>2, Zenon DEF StartSend, RequestPC
<1>7. ASSUME SendFails(r) PROVE RequestTypeOK'
  BY <1>sockets, <1>7, <1>moves, Zenon DEF SendFails, RequestPC
<1>8. ASSUME EndSend(r) PROVE RequestTypeOK'
  <2>1. SocketsOK'
    BY <1>8 DEF EndSend, Wrote, TypeOK, RequestTypeOK, SocketsOK
  <2> QED BY <1>8, <1>moves, <2>1, ZenonT(30) DEF EndSend, RequestPC
<1> QED BY <1>2, <1>4, <1>5, <1>6, <1>7, <1>8 DEF RequestStep, TypeOK

\* The types are inductive.
LEMMA TypeInductive ==
  ASSUME TypeOK, [Next]_vars
  PROVE  TypeOK'
<1>1. ASSUME NEW id \in Deletable, handleTunnelByID(id) PROVE TypeOK'
  BY <1>1, UnregisterKeepsType, Zenon
     DEF handleTunnelByID, TypeOK, brokerVars, socketVars, Brk!BrokerTypeOK, SessionTypeOK,
         RequestTypeOK
<1>2. CASE UNCHANGED vars
  BY <1>2, RegistryUnchanged
     DEF vars, registryVars, TypeOK, Brk!BrokerTypeOK, SessionTypeOK, RequestTypeOK
<1> QED BY <1>1, <1>2, SessionKeepsType, RequestKeepsType, Zenon DEF Next

\* The gateway starts well-typed.
LEMMA InitTypeOK == Init => TypeOK
BY GatewayAssumption
   DEF Init, TypeOK, Reg!TypeOK, Brk!BrokerTypeOK, Brk!NewBroker, SessionTypeOK, RequestTypeOK,
       EmptyMap, Brk!EmptyMap, SessionPC, RequestPC

\* Type correctness of the gateway, for any sessions, requests and DELETEs.
THEOREM GatewayTypeCorrect == Spec => []TypeOK
<1>1. Init => TypeOK
  BY InitTypeOK
<1>2. TypeOK /\ [Next]_vars => TypeOK'
  BY TypeInductive
<1> QED BY <1>1, <1>2, PTL DEF Spec
-----------------------------------------------------------------------------
\* Sequences are equal if their elements are.
LEMMA SameSequences ==
  ASSUME NEW S, NEW a \in Seq(S), NEW b \in Seq(S), Len(a) = Len(b),
         \A i \in 1 .. Len(a) : a[i] = b[i]
  PROVE  a = b
OBVIOUS

\* Connection IDs with equally many hyphens: a tunnel ID tells its subdomain
\* and its connection ID.
LEMMA TunnelIDsTell ==
  ASSUME GeneratedIDs, NEW s \in Session, NEW t \in Session,
         NEW a \in Subdomain, NEW b \in Subdomain, TunnelID(s, a) = TunnelID(t, b)
  PROVE  ConnID[s] = ConnID[t] /\ a = b
<1> DEFINE p == ConnID[s]  q == ConnID[t]
<1>1. p \in Seq(STRING) /\ q \in Seq(STRING) /\ a \in Seq(STRING) /\ b \in Seq(STRING)
  BY GatewayAssumption
<1>2. Len(p) = Len(q) /\ p \o a = q \o b
  BY DEF GeneratedIDs, TunnelID
<1> HIDE DEF p, q
<1>3. Len(p \o a) = Len(p) + Len(a) /\ Len(q \o b) = Len(q) + Len(b)
  BY <1>1
<1>4. Len(a) = Len(b)
  BY <1>1, <1>2, <1>3
<1>5. \A i \in 1 .. Len(p) : p[i] = q[i]
  <2> TAKE i \in 1 .. Len(p)
  <2>1. (p \o a)[i] = p[i]
    BY <1>1
  <2>2. (q \o b)[i] = q[i]
    BY <1>1, <1>2
  <2> QED BY <1>2, <2>1, <2>2
<1>6. \A i \in 1 .. Len(a) : a[i] = b[i]
  <2> TAKE i \in 1 .. Len(a)
  <2>1. (p \o a)[Len(p) + i] = a[i]
    BY <1>1
  <2>2. (q \o b)[Len(p) + i] = b[i]
    BY <1>1, <1>2, <1>4
  <2> QED BY <1>2, <2>1, <2>2
<1>7. p = q /\ a = b
  BY <1>1, <1>2, <1>4, <1>5, <1>6, SameSequences
<1> QED BY <1>7 DEF p, q

\* What the gateway asks of its registry: sessions register tunnels of their
\* own, sessions and admins unregister, everything else leaves it alone.
LEMMA RegistryCalls ==
  ASSUME TypeOK, [Next]_vars
  PROVE  \/ \E s \in Session : RegisterTunnel(s)
         \/ \E id \in Reg!ID : Reg!Unregister(id)
         \/ UNCHANGED registryVars
<1>1. ASSUME NEW id, Reg!Unregister(id) PROVE id \in Reg!ID
  BY <1>1 DEF Reg!Unregister, TypeOK, Reg!TypeOK
<1>2. ASSUME NEW s \in Session,
             Reject(s) \/ Accept(s) \/ SessionStep(s) \/ PeerDown(s) \/ PeerSilent(s)
      PROVE  RegisterTunnel(s) \/ (\E id \in Reg!ID : Reg!Unregister(id)) \/ UNCHANGED registryVars
  BY <1>1, <1>2, ZenonT(30) DEF Reject, Accept, SessionStep, PeerDown, PeerSilent, PeerGoes, MapSubdomain,
     RefuseTunnel, StartReply, ReplyPanics, EndReply, ReadError, CleanupLookup, CleanupUnmap,
     CleanupUnregister, CleanupRemove, registryVars
<1>3. ASSUME NEW r \in Request, RequestStep(r) PROVE UNCHANGED registryVars
  BY <1>3, Zenon DEF RequestStep, LookupTunnel, RouteRequest, StartSend, SendFails, EndSend, sessionVars
<1>4. ASSUME NEW id \in Deletable, handleTunnelByID(id) PROVE Reg!Unregister(id)
  BY <1>4 DEF handleTunnelByID
<1>5. CASE UNCHANGED vars
  BY <1>5 DEF vars, registryVars
<1> QED BY <1>1, <1>2, <1>3, <1>4, <1>5, Zenon DEF Next

\* The assumption of the registry's theorems holds of what sessions submit.
LEMMA SubmissionsAssumption ==
  /\ RegTh!RegistryAssumption
  /\ GeneratedIDs => RegTh!IDsDetermineSubdomains
<1>1. \A t \in Submissions : t.sub \in Subdomain /\ t.ttl = 0
  BY DEF Submissions, TunnelOf
<1>2. RegTh!RegistryAssumption
  BY <1>1, GatewayAssumption DEF RegTh!RegistryAssumption
<1>3. ASSUME GeneratedIDs, NEW t \in Submissions, NEW u \in Submissions, t.id = u.id
      PROVE  t.sub = u.sub
  <2>1. PICK s \in Session, a \in Subdomain : t = TunnelOf(s, a)
    BY DEF Submissions
  <2>2. PICK r \in Session, b \in Subdomain : u = TunnelOf(r, b)
    BY DEF Submissions
  <2> QED BY <1>3, <2>1, <2>2, TunnelIDsTell DEF TunnelOf
<1> QED BY <1>2, <1>3 DEF RegTh!IDsDetermineSubdomains

\* Every step of the gateway is a call of the registry, or leaves it alone.
LEMMA StepsAreRegistrySteps ==
  ASSUME TypeOK, [Next]_vars
  PROVE  [RegTh!Next]_(RegTh!vars)
<1>1. ASSUME NEW s \in Session, RegisterTunnel(s) PROVE RegTh!Next
  <2> DEFINE t == TunnelOf(s, Head(todo[s]))
  <2>1. Head(todo[s]) \in Subdomain
    BY <1>1 DEF RegisterTunnel, TypeOK, SessionTypeOK
  <2>2. t \in Submissions
    BY <2>1 DEF Submissions
  <2>3. Reg!Register(t)
    BY <1>1, Zenon DEF RegisterTunnel
  <2> HIDE DEF t
  <2>4. RegTh!Register(t)
    BY <2>3 DEF Reg!Register, Reg!CanRegister, Reg!IsSubdomainReserved, Reg!SubdomainTooLong,
       Reg!SubdomainTaken, Reg!Put, Reg!Stored, RegTh!Register, RegTh!CanRegister,
       RegTh!IsSubdomainReserved, RegTh!SubdomainTooLong, RegTh!SubdomainTaken, RegTh!Put,
       RegTh!Stored
  <2> QED BY <2>2, <2>4 DEF RegTh!Next
<1>2. ASSUME NEW id \in Reg!ID, Reg!Unregister(id) PROVE RegTh!Next
  <2>1. RegTh!Unregister(id) /\ id \in RegTh!ID
    BY <1>2 DEF Reg!ID, RegTh!ID, Reg!Unregister, RegTh!Unregister, Reg!Delete, Reg!Restrict,
       RegTh!Delete, RegTh!Restrict
  <2> QED BY <2>1 DEF RegTh!Next
<1>3. CASE UNCHANGED registryVars
  BY <1>3 DEF registryVars, RegTh!vars
<1> QED BY <1>1, <1>2, <1>3, RegistryCalls

\* The gateway uses its registry as the registry may be used: whatever sessions,
\* requests and admins do, the two maps go through a behaviour of Registry.
THEOREM GatewayImplementsRegistry == Spec => RegTh!Spec
<1>1. Init => RegTh!Init
  BY DEF Init, RegTh!Init, EmptyMap, RegTh!EmptyMap
<1>2. TypeOK /\ [Next]_vars => [RegTh!Next]_(RegTh!vars)
  BY StepsAreRegistrySteps
<1> QED BY <1>1, <1>2, GatewayTypeCorrect, PTL DEF Spec, RegTh!Spec

\* Hence the registry's table and index agree, for any number of sessions with
\* generated IDs and with DELETEs at any moment.
THEOREM IndexStaysConsistent ==
  ASSUME GeneratedIDs
  PROVE  Spec => []IndexConsistent
<1>1. RegTh!Spec => []RegTh!IndexExact
  BY SubmissionsAssumption, RegTh!RegistryIndexExact, Zenon
<1>2. RegTh!IndexExact => IndexConsistent
  BY DEF IndexConsistent, Reg!IndexExact, RegTh!IndexExact
<1> QED BY <1>1, <1>2, GatewayImplementsRegistry, PTL

\* ... and to the outside it is a table of names, claimed while free and given
\* up together with their tunnels.
THEOREM GatewayImplementsNameTable ==
  ASSUME GeneratedIDs
  PROVE  Spec => RegTh!ImplementsNameTable
<1>1. RegTh!Spec => RegTh!ImplementsNameTable
  BY SubmissionsAssumption, RegTh!RegistryImplementsNameTable
<1> QED BY <1>1, GatewayImplementsRegistry, PTL
-----------------------------------------------------------------------------
\* Only its own steps change a request.
LEMMA RequestsMoveAlone ==
  ASSUME TypeOK, [Next]_vars
  PROVE  UNCHANGED req \/ \E r \in Request :
           /\ RequestStep(r)
           /\ \A q \in Request : q # r => req'[q] = req[q]
<1>1. ASSUME NEW s \in Session,
             Reject(s) \/ Accept(s) \/ SessionStep(s) \/ PeerDown(s) \/ PeerSilent(s)
      PROVE  UNCHANGED req
  BY <1>1, Zenon DEF Reject, Accept, SessionStep, PeerDown, PeerSilent, PeerGoes, RegisterTunnel,
     MapSubdomain, RefuseTunnel, StartReply, ReplyPanics, EndReply, ReadError, CleanupLookup,
     CleanupUnmap, CleanupUnregister, CleanupRemove
<1>2. ASSUME NEW id \in Deletable, handleTunnelByID(id) PROVE UNCHANGED req
  BY <1>2 DEF handleTunnelByID
<1>3. ASSUME NEW r \in Request, RequestStep(r)
      PROVE  \A q \in Request : q # r => req'[q] = req[q]
  BY <1>3, Zenon DEF RequestStep, LookupTunnel, RouteRequest, StartSend, SendFails, EndSend, TypeOK,
     RequestTypeOK
<1>4. CASE UNCHANGED vars
  BY <1>4 DEF vars
<1> QED BY <1>1, <1>2, <1>3, <1>4 DEF Next

\* A subdomain that is taken belongs to a tunnel, and nil is none.
LEMMA LookupYieldsTunnel ==
  ASSUME TypeOK, IndexConsistent, NEW sub, Reg!SubdomainTaken(sub)
  PROVE  Reg!GetBySubdomain(sub) # None /\ Reg!GetBySubdomain(sub).id # None
<1> DEFINE id == subdomainIndex[sub]
<1>1. id \in DOMAIN tunnels
  BY DEF IndexConsistent, Reg!IndexExact, Reg!SubdomainTaken
<1>2. tunnels[id] \in Reg!Tunnel /\ tunnels[id].id \in Reg!ID
  BY <1>1 DEF TypeOK, Reg!TypeOK, Reg!Tunnel
<1>3. Reg!GetBySubdomain(sub) = tunnels[id]
  BY <1>1 DEF Reg!GetBySubdomain
<1> QED BY <1>2, <1>3, NilAssumption

\* One step: a request that goes on has found its tunnel.
LEMMA LookupsInductive ==
  ASSUME TypeOK, IndexConsistent, LookupsFindTunnels, [Next]_vars
  PROVE  LookupsFindTunnels'
<1> DEFINE Req == [pc : RequestPC, sub : Subdomain \cup {None},
                   tunnel : Reg!ID \cup {None}, conn : Session \cup {None}]
           Fine(q) == q.pc \notin {"idle", "failed"} => q.tunnel # None
<1>1. req \in [Request -> Req] /\ \A r \in Request : Fine(req[r])
  BY DEF TypeOK, RequestTypeOK, LookupsFindTunnels
<1>2. ASSUME NEW r \in Request, RequestStep(r) PROVE Fine(req'[r])
  <2>1. ASSUME NEW sub \in Subdomain, LookupTunnel(r, sub) PROVE Fine(req'[r])
    <3>1. CASE Reg!SubdomainTaken(sub)
      <4>1. req'[r] = [req[r] EXCEPT !.pc = "route", !.sub = sub,
                                     !.tunnel = Reg!GetBySubdomain(sub).id]
        BY <1>1, <2>1, <3>1, LookupYieldsTunnel, Zenon DEF LookupTunnel
      <4> QED BY <1>1, <3>1, <4>1, LookupYieldsTunnel
    <3>2. CASE ~Reg!SubdomainTaken(sub)
      BY <1>1, <2>1, <3>2 DEF LookupTunnel
    <3> QED BY <3>1, <3>2
  <2>2. CASE RouteRequest(r)
    BY <1>1, <2>2 DEF RouteRequest
  <2>3. CASE StartSend(r) \/ SendFails(r) \/ EndSend(r)
    BY <1>1, <2>3 DEF StartSend, SendFails, EndSend
  <2> QED BY <1>2, <2>1, <2>2, <2>3 DEF RequestStep
<1> HIDE DEF Fine
<1>3. \A r \in Request : Fine(req'[r])
  BY <1>1, <1>2, RequestsMoveAlone
<1> QED BY <1>3 DEF Fine, LookupsFindTunnels

\* GetBySubdomain's success means a tunnel: ServeHTTP never dereferences nil,
\* for any sessions with generated IDs and with DELETEs at any moment.
THEOREM SuccessfulLookupsFindTunnels ==
  ASSUME GeneratedIDs
  PROVE  Spec => []LookupsFindTunnels
<1>1. Init => LookupsFindTunnels
  BY DEF Init, LookupsFindTunnels
<1>2. TypeOK /\ IndexConsistent /\ LookupsFindTunnels /\ [Next]_vars => LookupsFindTunnels'
  BY LookupsInductive
<1> QED BY <1>1, <1>2, GatewayTypeCorrect, IndexStaysConsistent, PTL DEF Spec
-----------------------------------------------------------------------------
\* A session that moves on, with at most a route less.
LEMMA LeadMove ==
  ASSUME LeadInv, TypeOK', UNCHANGED connections,
         \A t \in Session : pc'[t] \in UpPC => pc[t] \in UpPC,
         \A sub \in DOMAIN subdomainToConn' :
           sub \in DOMAIN subdomainToConn /\ subdomainToConn'[sub] = subdomainToConn[sub]
  PROVE  LeadInv'
BY DEF LeadInv, RoutesLead

\* One step of a session: who adds a route is in the broker, and who leaves
\* the broker takes its routes along.
LEMMA LeadSession ==
  ASSUME DistinctIDs, LeadInv, TypeOK', NEW s \in Session,
         Reject(s) \/ Accept(s) \/ SessionStep(s) \/ PeerDown(s) \/ PeerSilent(s)
  PROVE  LeadInv'
<1>0. pc \in [Session -> SessionPC]
  BY Zenon DEF LeadInv, TypeOK, SessionTypeOK
<1>1. CASE Accept(s)
  <2>1. pc' = [pc EXCEPT ![s] = "register"] /\ UNCHANGED subdomainToConn
        /\ connections' = Brk!Put(connections, ConnID[s], s)
    BY <1>1, Zenon DEF Accept, Goto, Brk!AddConnection
  <2>2. DOMAIN connections' = DOMAIN connections \cup {ConnID[s]}
    BY <2>1 DEF Brk!Put
  <2> QED BY <1>0, <2>1, <2>2 DEF LeadInv, RoutesLead
<1>2. CASE MapSubdomain(s)
  <2>1. /\ pc[s] = "map" /\ pc' = [pc EXCEPT ![s] = "register"] /\ UNCHANGED connections
        /\ subdomainToConn' = Brk!Put(subdomainToConn, Head(todo[s]), ConnID[s])
    BY <1>2 DEF MapSubdomain, Goto, Brk!MapSubdomain
  <2>2. ConnID[s] \in DOMAIN connections
    BY <2>1, Zenon DEF LeadInv, UpPC
  <2> QED BY <1>0, <2>1, <2>2 DEF LeadInv, RoutesLead, Brk!Put
<1>3. CASE CleanupRemove(s)
  <2>1. /\ pc[s] = "cleanup" /\ pc' = [pc EXCEPT ![s] = "closed"]
        /\ subdomainToConn' = IF ConnID[s] \in DOMAIN connections
                              THEN Brk!Delete(subdomainToConn, Brk!RoutesOf(ConnID[s]))
                              ELSE subdomainToConn
        /\ connections' = Brk!Delete(connections, {ConnID[s]})
    BY <1>3 DEF CleanupRemove, Goto, Brk!RemoveConnection
  <2>2. DOMAIN connections' = DOMAIN connections \ {ConnID[s]}
    BY <2>1 DEF Brk!Delete, Brk!Restrict
  <2>3. \A sub \in DOMAIN subdomainToConn' :
          /\ sub \in DOMAIN subdomainToConn /\ subdomainToConn'[sub] = subdomainToConn[sub]
          /\ ConnID[s] \in DOMAIN connections => subdomainToConn[sub] # ConnID[s]
    BY <2>1, Zenon DEF Brk!Delete, Brk!Restrict, Brk!RoutesOf
  <2>4. RoutesLead'
    BY <2>2, <2>3, Zenon DEF LeadInv, RoutesLead
  <2>5. \A t \in Session : pc'[t] \in UpPC => t # s /\ pc[t] \in UpPC
    BY <1>0, <2>1, Zenon DEF UpPC
  <2> QED BY <2>2, <2>4, <2>5 DEF LeadInv, DistinctIDs
<1>4. CASE CleanupUnmap(s)
  <2>1. /\ pc' = [pc EXCEPT ![s] = "unregister"] /\ UNCHANGED connections
        /\ subdomainToConn' = Brk!Delete(subdomainToConn, {found[s]})
    BY <1>4 DEF CleanupUnmap, Goto, Brk!UnmapSubdomain
  <2> QED BY <1>0, <2>1, LeadMove DEF UpPC, Brk!Delete, Brk!Restrict
<1>5. CASE PeerDown(s) \/ PeerSilent(s)
  BY <1>5, LeadMove DEF PeerDown, PeerSilent, PeerGoes, brokerVars
<1>6. CASE \/ Reject(s) \/ RegisterTunnel(s) \/ RefuseTunnel(s) \/ StartReply(s)
           \/ ReplyPanics(s) \/ EndReply(s) \/ ReadError(s) \/ CleanupLookup(s)
           \/ CleanupUnregister(s)
  <2>1. UNCHANGED <<connections, subdomainToConn>>
    BY <1>6, ZenonT(30) DEF Reject, RegisterTunnel, RefuseTunnel, StartReply, ReplyPanics, EndReply,
       ReadError, CleanupLookup, CleanupUnregister, brokerVars
  <2>2. \E p, q \in SessionPC : Goto(s, p, q) /\ (q \in UpPC => p \in UpPC)
    BY <1>6, Zenon DEF Reject, RegisterTunnel, RefuseTunnel, StartReply, ReplyPanics, EndReply,
       ReadError, CleanupLookup, CleanupUnregister, SessionPC, UpPC
  <2>3. \A t \in Session : pc'[t] \in UpPC => pc[t] \in UpPC
    BY <1>0, <2>2 DEF Goto
  <2> QED BY <2>1, <2>3, LeadMove
<1> QED BY <1>1, <1>2, <1>3, <1>4, <1>5, <1>6, Zenon DEF SessionStep

\* Every route leads to a connection, for any sessions with distinct IDs,
\* hyphens or not, and with DELETEs at any moment.
THEOREM EveryRouteLeads ==
  ASSUME DistinctIDs
  PROVE  Spec => []RoutesLead
<1>1. Init => LeadInv
  <2>1. Init => TypeOK
    BY InitTypeOK
  <2> QED BY <2>1 DEF Init, LeadInv, RoutesLead, UpPC, Brk!NewBroker, Brk!EmptyMap
<1>2. LeadInv /\ [Next]_vars => LeadInv'
  <2> SUFFICES ASSUME LeadInv, [Next]_vars PROVE LeadInv'
    OBVIOUS
  <2>0. TypeOK'
    BY TypeInductive DEF LeadInv
  <2>1. ASSUME NEW r \in Request, RequestStep(r) PROVE UNCHANGED sessionVars
    BY <2>1, Zenon DEF RequestStep, LookupTunnel, RouteRequest, StartSend, SendFails, EndSend
  <2>2. ASSUME NEW r \in Request, RequestStep(r) PROVE LeadInv'
    BY <2>0, <2>1, <2>2, LeadMove DEF sessionVars, brokerVars
  <2>3. ASSUME NEW id \in Deletable, handleTunnelByID(id) PROVE LeadInv'
    BY <2>0, <2>3, LeadMove DEF handleTunnelByID, brokerVars
  <2>4. CASE UNCHANGED vars
    BY <2>0, <2>4, LeadMove DEF vars
  <2> QED BY <2>0, <2>2, <2>3, <2>4, LeadSession DEF Next
<1>3. LeadInv => RoutesLead
  BY DEF LeadInv
<1> QED BY <1>1, <1>2, <1>3, PTL DEF Spec
-----------------------------------------------------------------------------
\* What a list holds is at its head or further on.
LEMMA HeadOrTail ==
  ASSUME NEW S, NEW q \in Seq(S), q # <<>>, NEW x \in Range(q)
  PROVE  x = Head(q) \/ x \in Range(Tail(q))
<1>1. PICK i \in DOMAIN q : x = q[i]
  BY DEF Range
<1>2. i \in 1 .. Len(q)
  BY <1>1
<1>3. CASE i = 1
  BY <1>1, <1>3
<1>4. CASE i # 1
  <2>1. i - 1 \in DOMAIN Tail(q) /\ Tail(q)[i - 1] = q[i]
    BY <1>2, <1>4
  <2> QED BY <1>1, <2>1 DEF Range
<1> QED BY <1>3, <1>4

\* A step of session s that registers nothing: s has to remember what it is
\* responsible for.
LEMMA KeepTunnels ==
  ASSUME TunnelsKept, NEW s \in Session,
         \A id \in DOMAIN tunnels' :
           id \in DOMAIN tunnels /\ tunnels'[id].conn = tunnels[id].conn,
         \A t \in Session : t # s =>
           pc'[t] = pc[t] /\ todo'[t] = todo[t] /\ tunnelIDs'[t] = tunnelIDs[t],
         \A id \in DOMAIN tunnels' : pc[s] # "closed" /\ Remembers(s, id) =>
           pc'[s] # "closed" /\ Remembers(s, id)'
  PROVE  TunnelsKept'
<1> SUFFICES ASSUME NEW id \in DOMAIN tunnels'
             PROVE  \E t \in Session :
                      tunnels'[id].conn = ConnID[t] /\ pc'[t] # "closed" /\ Remembers(t, id)'
  BY DEF TunnelsKept
<1>1. PICK t \in Session : tunnels[id].conn = ConnID[t] /\ pc[t] # "closed" /\ Remembers(t, id)
  BY Zenon DEF TunnelsKept
<1>2. CASE t = s
  BY <1>1, <1>2, Zenon
<1>3. CASE t # s
  BY <1>1, <1>3, Zenon DEF Remembers
<1> QED BY <1>2, <1>3, Zenon

\* A session that moves on without touching tunnels, connections or its lists.
LEMMA KeptMove ==
  ASSUME KeptInv, TypeOK', NEW s \in Session, NEW q, pc' = [pc EXCEPT ![s] = q],
         q \notin {"connect", "closed"}, pc[s] = "map" => q = "map",
         UNCHANGED <<tunnels, connections, todo, tunnelIDs>>
  PROVE  KeptInv'
<1>0. pc \in [Session -> SessionPC] /\ Brk!BrokerTypeOK
  BY DEF KeptInv, TypeOK, SessionTypeOK
<1>1. \A t \in Session : pc'[t] = IF t = s THEN q ELSE pc[t]
  BY <1>0, Zenon
<1>2. TunnelsKept'
  BY <1>1, KeepTunnels DEF KeptInv, Remembers
<1> QED BY <1>0, <1>1, <1>2, Zenon DEF KeptInv, ConnectionsOwn, ConnectionsKept, Brk!BrokerTypeOK

\* What a sequence holds once something is appended.
LEMMA RangeOfAppend ==
  ASSUME NEW S, NEW q \in Seq(S), NEW x \in S
  PROVE  Range(Append(q, x)) = Range(q) \cup {x}
<1> DEFINE a == Append(q, x)
           n == Len(q) + 1
<1>0. Len(q) \in Nat /\ DOMAIN q = 1 .. Len(q)
  OBVIOUS
<1>1. /\ DOMAIN a = 1 .. n /\ a[n] = x
      /\ \A i \in 1 .. Len(q) : a[i] = q[i]
  BY <1>0
<1>2. 1 .. n = (1 .. Len(q)) \cup {n}
  BY <1>0
<1> HIDE DEF a, n
<1>3. Range(a) = {a[i] : i \in 1 .. n} /\ Range(q) = {q[i] : i \in 1 .. Len(q)}
  BY <1>0, <1>1 DEF Range
<1> QED BY <1>1, <1>2, <1>3 DEF a

\* Register, MapSubdomain, Unregister: the tunnel is remembered while it is
\* registered.
LEMMA KeptTunnelSteps ==
  ASSUME KeptInv, TypeOK', NEW s \in Session,
         RegisterTunnel(s) \/ MapSubdomain(s) \/ CleanupUnregister(s)
  PROVE  KeptInv'
<1>0. /\ pc \in [Session -> SessionPC] /\ Brk!BrokerTypeOK
      /\ todo \in [Session -> Seq(Subdomain)] /\ tunnelIDs \in [Session -> Seq(Reg!ID)]
  BY DEF KeptInv, TypeOK, SessionTypeOK
<1>1. UNCHANGED connections
  BY Zenon DEF RegisterTunnel, MapSubdomain, CleanupUnregister, brokerVars, Brk!MapSubdomain
<1>2. \A t \in Session : t # s =>
        pc'[t] = pc[t] /\ todo'[t] = todo[t] /\ tunnelIDs'[t] = tunnelIDs[t]
  BY <1>0, Zenon DEF RegisterTunnel, MapSubdomain, CleanupUnregister, Goto
<1>3. pc[s] # "closed" /\ pc'[s] \in {"map", "register", "cleanup"}
  BY <1>0 DEF RegisterTunnel, MapSubdomain, CleanupUnregister, Goto
<1>4. TunnelsKept'
  <2>1. CASE RegisterTunnel(s)
    <3> DEFINE sub == Head(todo[s])
    <3>1. sub \in Subdomain
      BY <1>0, <2>1 DEF RegisterTunnel
    <3>2. /\ pc[s] = "register" /\ pc'[s] = "map" /\ UNCHANGED <<todo, tunnelIDs>>
          /\ tunnels' = Reg!Put(tunnels, TunnelID(s, sub), Reg!Stored(TunnelOf(s, sub)))
      BY <1>0, <2>1, ZenonT(30) DEF RegisterTunnel, Goto, Reg!Register, TunnelOf
    <3>3. Reg!Stored(TunnelOf(s, sub)).conn = ConnID[s]
      BY <3>1, TunnelOfType, Zenon
    <3>4. ASSUME NEW id \in DOMAIN tunnels'
          PROVE  \E t \in Session :
                   tunnels'[id].conn = ConnID[t] /\ pc'[t] # "closed" /\ Remembers(t, id)'
      <4>1. CASE id = TunnelID(s, sub)
        BY <3>2, <3>3, <4>1, Zenon DEF Reg!Put, Remembers
      <4>2. CASE id # TunnelID(s, sub)
        <5>1. id \in DOMAIN tunnels /\ tunnels'[id] = tunnels[id]
          BY <3>2, <4>2, Zenon DEF Reg!Put
        <5>2. PICK t \in Session :
                tunnels[id].conn = ConnID[t] /\ pc[t] # "closed" /\ Remembers(t, id)
          BY <5>1 DEF KeptInv, TunnelsKept
        <5> QED BY <1>2, <3>2, <5>1, <5>2, Zenon DEF Remembers
      <4> QED BY <4>1, <4>2, Zenon
    <3> QED BY <3>4 DEF TunnelsKept
  <2>2. CASE MapSubdomain(s)
    <3> DEFINE id == TunnelID(s, Head(todo[s]))
    <3>1. /\ pc[s] = "map" /\ UNCHANGED tunnels
          /\ tunnelIDs'[s] = Append(tunnelIDs[s], id)
      BY <1>0, <2>2, Zenon DEF MapSubdomain, Goto, registryVars
    <3>2. id \in Reg!ID
      <4>1. todo[s] # <<>>
        BY <3>1 DEF KeptInv, TypeOK, SessionTypeOK
      <4>2. todo[s] \in Seq(Subdomain)
        BY <1>0
      <4>3. Head(todo[s]) \in Subdomain
        BY <4>1, <4>2
      <4> QED BY <4>3, TunnelOfType, Zenon
    <3>3. Range(tunnelIDs'[s]) = Range(tunnelIDs[s]) \cup {id}
      <4>1. tunnelIDs[s] \in Seq(Reg!ID)
        BY <1>0
      <4> HIDE DEF id
      <4>2. Range(Append(tunnelIDs[s], id)) = Range(tunnelIDs[s]) \cup {id}
        BY <3>2, <4>1, RangeOfAppend
      <4> QED BY <3>1, <4>2
    <3> HIDE DEF id
    <3>4. \A x : Remembers(s, x) => Remembers(s, x)'
      BY <3>3 DEF Remembers, id
    <3> QED BY <1>2, <1>3, <3>1, <3>4, KeepTunnels, ZenonT(30) DEF KeptInv
  <2>3. CASE CleanupUnregister(s)
    <3> DEFINE id == Head(tunnelIDs[s])
    <3>1. /\ pc[s] = "unregister" /\ tunnelIDs'[s] = Tail(tunnelIDs[s])
          /\ id \notin DOMAIN tunnels'
          /\ \A x \in DOMAIN tunnels' : x \in DOMAIN tunnels /\ tunnels'[x] = tunnels[x]
      BY <1>0, <2>3 DEF CleanupUnregister, Goto, Reg!Unregister, Reg!GetByID, Reg!Delete,
         Reg!Restrict, registryVars
    <3>2. \A x \in Range(tunnelIDs[s]) : x = id \/ x \in Range(Tail(tunnelIDs[s]))
      <4>1. tunnelIDs[s] \in Seq(Reg!ID) /\ tunnelIDs[s] # <<>>
        BY <3>1, Zenon DEF KeptInv, TypeOK, SessionTypeOK
      <4> QED BY <4>1, HeadOrTail, ZenonT(30)
    <3> HIDE DEF id
    <3>3. \A x \in DOMAIN tunnels' : Remembers(s, x) => Remembers(s, x)'
      BY <3>1, <3>2 DEF Remembers
    <3> QED BY <1>2, <1>3, <3>1, <3>3, KeepTunnels, ZenonT(30) DEF KeptInv
  <2> QED BY <2>1, <2>2, <2>3, Zenon
<1>5. ConnectionsOwn' /\ ConnectionsKept'
  BY <1>0, <1>1, <1>2, <1>3, Zenon DEF KeptInv, ConnectionsOwn, ConnectionsKept, Brk!BrokerTypeOK
<1> QED BY <1>2, <1>3, <1>4, <1>5, ZenonT(30) DEF KeptInv

\* The beginning and the end of a session: it leaves once it has nothing left
\* to clean up, and takes its connection along.
LEMMA KeptEnds ==
  ASSUME KeptInv, TypeOK', NEW s \in Session, Reject(s) \/ Accept(s) \/ CleanupRemove(s)
  PROVE  KeptInv'
<1> USE DEF registryVars, brokerVars
<1>0. /\ pc \in [Session -> SessionPC] /\ Brk!BrokerTypeOK
      /\ todo \in [Session -> Seq(Subdomain)] /\ tunnelIDs \in [Session -> Seq(Reg!ID)]
  BY DEF KeptInv, TypeOK, SessionTypeOK
<1>1. pc[s] \in {"connect", "cleanup"} /\ tunnelIDs[s] = <<>> /\ UNCHANGED <<tunnels, tunnelIDs>>
  BY Zenon DEF Reject, Accept, CleanupRemove, Goto, KeptInv
<1>2. \A t \in Session : t # s => pc'[t] = pc[t] /\ todo'[t] = todo[t]
  BY <1>0 DEF Reject, Accept, CleanupRemove, Goto
<1>3. \A id : ~Remembers(s, id)
  BY <1>1 DEF Remembers, Range
<1>4. TunnelsKept'
  BY <1>1, <1>2, <1>3, KeepTunnels, ZenonT(30) DEF KeptInv
<1>5. CASE Reject(s)
  <2>1. pc[s] = "connect" /\ pc'[s] = "closed" /\ UNCHANGED connections
    BY <1>0, <1>5 DEF Reject, Goto
  <2> QED BY <1>0, <1>1, <1>2, <1>4, <2>1, ZenonT(30)
          DEF KeptInv, ConnectionsOwn, ConnectionsKept, Brk!BrokerTypeOK
<1>6. CASE Accept(s)
  <2>1. pc'[s] = "register" /\ connections' = Brk!Put(connections, ConnID[s], s)
    BY <1>0, <1>6 DEF Accept, Goto, Brk!AddConnection
  <2> QED BY <1>0, <1>1, <1>2, <1>4, <2>1, ZenonT(30)
          DEF KeptInv, ConnectionsOwn, ConnectionsKept, Brk!BrokerTypeOK, Brk!Put
<1>7. CASE CleanupRemove(s)
  <2>1. pc'[s] = "closed" /\ connections' = Brk!Delete(connections, {ConnID[s]})
    BY <1>0, <1>7, ZenonT(30) DEF CleanupRemove, Goto, Brk!RemoveConnection
  <2>2. /\ DOMAIN connections' = DOMAIN connections \ {ConnID[s]}
        /\ \A c \in DOMAIN connections' : connections'[c] = connections[c]
    BY <2>1, ZenonT(30) DEF Brk!Delete, Brk!Restrict
  <2>3. ConnectionsOwn'
    BY <2>2 DEF KeptInv, ConnectionsOwn
  <2>4. \A c \in DOMAIN connections' : connections[c] \in Session \ {s}
    BY <1>0, <2>2, Zenon DEF KeptInv, ConnectionsOwn, Brk!BrokerTypeOK
  <2>5. ConnectionsKept'
    BY <1>2, <2>2, <2>4 DEF KeptInv, ConnectionsKept
  <2> QED BY <1>1, <1>2, <1>4, <2>1, <2>3, <2>5, ZenonT(30) DEF KeptInv
<1> QED BY <1>5, <1>6, <1>7

\* That tunnels are kept is inductive.
LEMMA KeptInductive ==
  ASSUME KeptInv, [Next]_vars
  PROVE  KeptInv'
<1> USE DEF registryVars, brokerVars
<1>0. TypeOK'
  BY TypeInductive, Zenon DEF KeptInv
<1>still. UNCHANGED <<connections, pc, todo, tunnelIDs>> /\ TunnelsKept' => KeptInv'
  BY <1>0, Zenon DEF KeptInv, ConnectionsOwn, ConnectionsKept
<1>same. UNCHANGED <<tunnels, connections, pc, todo, tunnelIDs>> => KeptInv'
  BY <1>still DEF KeptInv, TunnelsKept, Remembers
<1>1. ASSUME NEW s \in Session,
             Reject(s) \/ Accept(s) \/ SessionStep(s) \/ PeerDown(s) \/ PeerSilent(s)
      PROVE  KeptInv'
  <2>1. CASE PeerDown(s) \/ PeerSilent(s)
    BY <1>same, <2>1 DEF PeerDown, PeerSilent, PeerGoes
  <2>2. CASE \/ RefuseTunnel(s) \/ StartReply(s) \/ ReplyPanics(s) \/ EndReply(s)
             \/ ReadError(s) \/ CleanupLookup(s) \/ CleanupUnmap(s)
    <3>1. UNCHANGED <<tunnels, connections, todo, tunnelIDs>>
      BY <2>2, Zenon DEF RefuseTunnel, StartReply, ReplyPanics, EndReply, ReadError, CleanupLookup,
         CleanupUnmap, Brk!UnmapSubdomain
    <3>2. PICK q \in SessionPC \ {"connect", "closed"} :
            pc' = [pc EXCEPT ![s] = q] /\ pc[s] # "map"
      BY <2>2, Zenon DEF RefuseTunnel, StartReply, ReplyPanics, EndReply, ReadError, CleanupLookup,
         CleanupUnmap, Goto, SessionPC
    <3> QED BY <1>0, <3>1, <3>2, KeptMove, ZenonT(30)
  <2> QED BY <1>0, <1>1, <2>1, <2>2, KeptEnds, KeptTunnelSteps, Zenon DEF SessionStep
<1>2. ASSUME NEW r \in Request, RequestStep(r) PROVE KeptInv'
  <2>1. UNCHANGED sessionVars
    BY <1>2, Zenon DEF RequestStep, LookupTunnel, RouteRequest, StartSend, SendFails, EndSend
  <2> QED BY <1>same, <2>1 DEF sessionVars
<1>3. ASSUME NEW id \in Deletable, handleTunnelByID(id) PROVE KeptInv'
  <2>1. \A x \in DOMAIN tunnels' : x \in DOMAIN tunnels /\ tunnels'[x] = tunnels[x]
    BY <1>3 DEF handleTunnelByID, Reg!Unregister, Reg!Delete, Reg!Restrict
  <2>2. UNCHANGED <<connections, pc, todo, tunnelIDs>>
    BY <1>3, Zenon DEF handleTunnelByID
  <2>3. TunnelsKept'
    BY <2>1, <2>2 DEF KeptInv, TunnelsKept, Remembers
  <2> QED BY <1>still, <2>2, <2>3, Zenon
<1>4. CASE UNCHANGED vars
  BY <1>same, <1>4, ZenonT(30) DEF vars
<1> QED BY <1>1, <1>2, <1>3, <1>4, Zenon DEF Next

\* KeptInv holds throughout, whatever connection IDs clients choose.
THEOREM TunnelsAreKept == Spec => []KeptInv
<1>1. Init => KeptInv
  <2>1. Init => TypeOK
    BY InitTypeOK
  <2> QED BY <2>1 DEF Init, KeptInv, ConnectionsOwn, TunnelsKept, ConnectionsKept, Brk!NewBroker,
          EmptyMap, Brk!EmptyMap
<1>2. KeptInv /\ [Next]_vars => KeptInv'
  BY KeptInductive
<1> QED BY <1>1, <1>2, PTL DEF Spec

\* A session that has run its cleanup to the end leaves no tunnel in the
\* registry and no connection in the broker, whatever IDs clients choose and
\* whatever an admin deletes: the only way to a leak is the panic that skips
\* cleanupConnection.
THEOREM OnlyPanicsLeak == Spec => []NothingLeaks
<1>1. KeptInv => NothingLeaks
  BY Zenon DEF KeptInv, TunnelsKept, ConnectionsKept, NothingLeaks
<1> QED BY <1>1, TunnelsAreKept, PTL

\* Without public requests nobody else writes to a session's socket while it
\* replies: no session panics, so that every session that ends has cleaned up.
THEOREM NoPanicWithoutTraffic ==
  ASSUME Request = {}
  PROVE  Spec => []NoPanic
<1> DEFINE Writing(s) == pc[s] \in {"replying", "refusing"}
           Alone == \A s \in Session : writers[s] = IF Writing(s) THEN {s} ELSE {}
<1>1. Init => NoPanic /\ Alone
  BY Zenon DEF Init, NoPanic
<1>2. TypeOK /\ NoPanic /\ Alone /\ [Next]_vars => (NoPanic /\ Alone)'
  <2> SUFFICES ASSUME TypeOK, NoPanic, Alone, [Next]_vars PROVE (NoPanic /\ Alone)'
    BY Zenon
  <2>0. pc \in [Session -> SessionPC] /\ writers \in [Session -> SUBSET (Session \cup Request)]
    BY DEF TypeOK, SessionTypeOK, RequestTypeOK
  <2>same. UNCHANGED <<pc, writers>> => (NoPanic /\ Alone)'
    BY DEF NoPanic
  <2>1. ASSUME NEW s \in Session,
               Reject(s) \/ Accept(s) \/ SessionStep(s) \/ PeerDown(s) \/ PeerSilent(s)
        PROVE  (NoPanic /\ Alone)'
    <3>1. CASE PeerDown(s) \/ PeerSilent(s)
      BY <2>same, <3>1, Zenon DEF PeerDown, PeerSilent, PeerGoes, socketVars
    <3>2. CASE StartReply(s)
      <4>1. PICK q \in {"replying", "refusing"} :
              pc' = [pc EXCEPT ![s] = q] /\ writers[s] = {}
        BY <3>2, Zenon DEF StartReply, Goto
      <4>2. writers' = [writers EXCEPT ![s] = writers[s] \cup {s}]
        BY <3>2 DEF StartReply
      <4> QED BY <2>0, <4>1, <4>2, Zenon DEF NoPanic
    <3>3. CASE EndReply(s)
      <4>1. PICK q \in {"serve", "cleanup"} :
              pc' = [pc EXCEPT ![s] = q] /\ writers[s] = {s}
        BY <3>3, Zenon DEF EndReply, Goto
      <4>2. writers' = [writers EXCEPT ![s] = writers[s] \ {s}]
        BY <3>3 DEF EndReply
      <4> QED BY <2>0, <4>1, <4>2, Zenon DEF NoPanic
    <3>4. CASE ReplyPanics(s)
      BY <3>4, ZenonT(30) DEF ReplyPanics, Goto
    <3>5. CASE \/ Reject(s) \/ Accept(s) \/ RegisterTunnel(s) \/ MapSubdomain(s)
               \/ RefuseTunnel(s) \/ ReadError(s) \/ CleanupLookup(s) \/ CleanupUnmap(s)
               \/ CleanupUnregister(s) \/ CleanupRemove(s)
      <4>1. UNCHANGED writers
        BY <3>5, Zenon DEF Reject, Accept, RegisterTunnel, MapSubdomain, RefuseTunnel, ReadError,
           CleanupLookup, CleanupUnmap, CleanupUnregister, CleanupRemove, socketVars
      <4>2. PICK q \in SessionPC \ {"replying", "refusing", "panicked"} :
              pc' = [pc EXCEPT ![s] = q] /\ ~Writing(s)
        BY <3>5, Zenon DEF Reject, Accept, RegisterTunnel, MapSubdomain, RefuseTunnel, ReadError,
           CleanupLookup, CleanupUnmap, CleanupUnregister, CleanupRemove, Goto, SessionPC
      <4> QED BY <2>0, <4>1, <4>2 DEF NoPanic
    <3> QED BY <2>1, <3>1, <3>2, <3>3, <3>4, <3>5, ZenonT(30) DEF SessionStep
  <2>2. ASSUME NEW id \in Deletable, handleTunnelByID(id) PROVE (NoPanic /\ Alone)'
    BY <2>same, <2>2, Zenon DEF handleTunnelByID, socketVars
  <2>3. CASE UNCHANGED vars
    BY <2>same, <2>3 DEF vars
  <2> QED BY <2>1, <2>2, <2>3, Zenon DEF Next
<1> HIDE DEF Alone
<1> QED BY <1>1, <1>2, GatewayTypeCorrect, PTL DEF Spec
=============================================================================
