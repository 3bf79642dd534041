--------------------------- MODULE RoutingProofs ----------------------------
(***************************************************************************)
(* Proofs about routing: for any number of sessions with generated,        *)
(* distinct connection IDs, in any interleaving, the broker's routes and   *)
(* the registry agree, as long as no admin deletes tunnels.                *)
(***************************************************************************)
EXTENDS GatewayProofs

\* Generated connection IDs have equally many hyphens, so a tunnel ID tells
\* its session and its subdomain.
LEMMA TunnelIDsAreUnique ==
  ASSUME GeneratedIDs, DistinctIDs, NEW s \in Session, NEW t \in Session,
         NEW a \in Subdomain, NEW b \in Subdomain, TunnelID(s, a) = TunnelID(t, b)
  PROVE  s = t /\ a = b
BY TunnelIDsTell DEF DistinctIDs

\* A stored tunnel with an ID of session s is a tunnel of s.
LEMMA OwnerOfID ==
  ASSUME GeneratedIDs, DistinctIDs, TypeOK, OwnersKnown,
         NEW s \in Session, NEW sub \in Subdomain, TunnelID(s, sub) \in DOMAIN tunnels
  PROVE  tunnels[TunnelID(s, sub)].sub = sub /\ tunnels[TunnelID(s, sub)].conn = ConnID[s]
<1> DEFINE id == TunnelID(s, sub)
<1>1. tunnels[id].sub \in Subdomain
  BY DEF TypeOK, Reg!TypeOK, Reg!Tunnel
<1>2. PICK t \in Session : id = TunnelID(t, tunnels[id].sub) /\ tunnels[id].conn = ConnID[t]
  BY DEF OwnersKnown
<1> QED BY <1>1, <1>2, TunnelIDsAreUnique

\* Two stored tunnels have different subdomains.
LEMMA SubdomainsDiffer ==
  ASSUME IndexConsistent, NEW i \in DOMAIN tunnels, NEW j \in DOMAIN tunnels,
         tunnels[i].sub = tunnels[j].sub
  PROVE  i = j
BY DEF IndexConsistent, Reg!IndexExact

\* A step that leaves what routing depends on alone.
LEMMA RoutingFrame ==
  ASSUME RoutingInv, TypeOK',
         UNCHANGED <<registryVars, brokerVars, pc, todo, tunnelIDs, found>>
  PROVE  RoutingInv'
<1> USE DEF registryVars, brokerVars
<1>1. IndexConsistent' /\ RoutesFollowRegistry' /\ OwnersKnown' /\ ConnectionsOwn'
  BY DEF RoutingInv, IndexConsistent, Reg!IndexExact, RoutesFollowRegistry, OwnersKnown,
         ConnectionsOwn
<1>2. OwnIDs' /\ UpRouted'
  BY DEF RoutingInv, OwnIDs, UpRouted, Routed
<1>3. AboutToMap' /\ AboutToUnmap' /\ AboutToUnregister'
  BY DEF RoutingInv, AboutToMap, AboutToUnmap, AboutToUnregister
<1> QED BY <1>1, <1>2, <1>3 DEF RoutingInv

\* A session that moves on without touching registry, broker or its own lists.
LEMMA RoutingMove ==
  ASSUME RoutingInv, TypeOK', NEW s \in Session, NEW q,
         pc' = [pc EXCEPT ![s] = q],
         q \notin {"connect", "map", "unmap", "unregister"},
         q \in UpPC => pc[s] \in UpPC,
         UNCHANGED <<registryVars, brokerVars, todo, tunnelIDs, found>>
  PROVE  RoutingInv'
<1> USE DEF registryVars, brokerVars
<1>0. pc \in [Session -> SessionPC]
  BY DEF RoutingInv, TypeOK, SessionTypeOK
<1>pc. \A t \in Session : pc'[t] = IF t = s THEN q ELSE pc[t]
  BY <1>0
<1>1. IndexConsistent' /\ RoutesFollowRegistry' /\ OwnersKnown' /\ ConnectionsOwn'
  BY DEF RoutingInv, IndexConsistent, Reg!IndexExact, RoutesFollowRegistry, OwnersKnown,
         ConnectionsOwn
<1>2. OwnIDs'
  BY <1>pc DEF RoutingInv, OwnIDs
<1>3. UpRouted'
  BY <1>pc DEF RoutingInv, UpRouted, Routed
<1>4. AboutToMap' /\ AboutToUnmap' /\ AboutToUnregister'
  BY <1>pc DEF RoutingInv, AboutToMap, AboutToUnmap, AboutToUnregister
<1> QED BY <1>1, <1>2, <1>3, <1>4 DEF RoutingInv

\* Accepting a registration keeps the routing invariant.
LEMMA RoutingAccept ==
  ASSUME DistinctIDs, RoutingInv, TypeOK', NEW s \in Session, Accept(s)
  PROVE  RoutingInv'
<1> USE DEF registryVars
<1>0. pc \in [Session -> SessionPC] /\ todo \in [Session -> Seq(Subdomain)]
  BY DEF RoutingInv, TypeOK, SessionTypeOK
<1>1. /\ pc[s] = "connect" /\ pc' = [pc EXCEPT ![s] = "register"]
      /\ connections' = Brk!Put(connections, ConnID[s], s)
      /\ UNCHANGED <<tunnels, subdomainIndex, subdomainToConn, tunnelIDs, found>>
      /\ \E offer \in Offer : todo' = [todo EXCEPT ![s] = offer]
  BY Zenon DEF Accept, Goto, Brk!AddConnection
<1>pc. \A t \in Session : pc'[t] = IF t = s THEN "register" ELSE pc[t]
  BY <1>0, <1>1
<1>todo. \A t \in Session : t # s => todo'[t] = todo[t]
  BY <1>0, <1>1
<1>2. IndexConsistent' /\ RoutesFollowRegistry' /\ OwnersKnown'
  BY <1>1 DEF RoutingInv, IndexConsistent, Reg!IndexExact, RoutesFollowRegistry, OwnersKnown
<1>3. OwnIDs'
  BY <1>1, <1>pc, Zenon DEF RoutingInv, OwnIDs
<1>4. ConnectionsOwn'
  BY <1>1 DEF RoutingInv, ConnectionsOwn, Brk!Put
<1>5. UpRouted'
  <2> SUFFICES ASSUME NEW t \in Session, pc'[t] \in UpPC
               PROVE  /\ ConnID[t] \in DOMAIN connections' /\ connections'[ConnID[t]] = t
                      /\ \A i \in DOMAIN tunnelIDs'[t] : Routed(t, tunnelIDs[t][i])'
    BY <1>1 DEF UpRouted
  <2>1. CASE t = s
    <3>1. tunnelIDs'[s] = <<>>
      BY <1>1, Zenon DEF RoutingInv, OwnIDs
    <3> QED BY <1>1, <2>1, <3>1 DEF Brk!Put
  <2>2. CASE t # s
    <3>1. ConnID[t] # ConnID[s] /\ pc[t] \in UpPC
      BY <1>pc, <2>2, Zenon DEF DistinctIDs
    <3> QED BY <1>1, <3>1 DEF RoutingInv, UpRouted, Routed, Brk!Put
  <2> QED BY <2>1, <2>2
<1>6. AboutToMap' /\ AboutToUnmap' /\ AboutToUnregister'
  BY <1>1, <1>pc, <1>todo DEF RoutingInv, AboutToMap, AboutToUnmap, AboutToUnregister
<1> QED BY <1>2, <1>3, <1>4, <1>5, <1>6, Zenon DEF RoutingInv

\* Register never replaces a tunnel: the subdomain is free, so no tunnel has
\* the ID.
LEMMA FreshID ==
  ASSUME GeneratedIDs, DistinctIDs, RoutingInv, NEW s \in Session, RegisterTunnel(s)
  PROVE  TunnelID(s, Head(todo[s])) \notin DOMAIN tunnels
<1> DEFINE sub == Head(todo[s])
           id == TunnelID(s, sub)
<1> SUFFICES ASSUME id \in DOMAIN tunnels PROVE FALSE
  OBVIOUS
<1>1. sub \in Subdomain
  BY DEF RoutingInv, TypeOK, SessionTypeOK, RegisterTunnel
<1>2. sub \notin DOMAIN subdomainIndex
  BY DEF RegisterTunnel, Reg!Register, Reg!CanRegister, Reg!SubdomainTaken, TunnelOf
<1>3. tunnels[id].sub = sub
  BY <1>1, OwnerOfID DEF RoutingInv
<1> QED BY <1>2, <1>3 DEF RoutingInv, IndexConsistent, Reg!IndexExact

\* Register adds a tunnel under a fresh ID and changes no other.
LEMMA RoutingRegister ==
  ASSUME GeneratedIDs, DistinctIDs, RoutingInv, TypeOK', NEW s \in Session, RegisterTunnel(s)
  PROVE  RoutingInv'
<1> DEFINE sub == Head(todo[s])
           id == TunnelID(s, sub)
           new == Reg!Stored(TunnelOf(s, sub))
<1>0. /\ pc \in [Session -> SessionPC] /\ sub \in Subdomain
      /\ \A i \in DOMAIN tunnels : tunnels[i].sub \in Subdomain
  BY DEF RoutingInv, TypeOK, SessionTypeOK, RegisterTunnel, Reg!TypeOK, Reg!Tunnel
<1>1. /\ pc[s] = "register" /\ pc' = [pc EXCEPT ![s] = "map"]
      /\ UNCHANGED <<connections, subdomainToConn, todo, tunnelIDs, found>>
  BY DEF RegisterTunnel, Goto, brokerVars
<1>pc. \A t \in Session : pc'[t] = IF t = s THEN "map" ELSE pc[t]
  BY <1>0, <1>1, Zenon
<1>2. /\ sub \notin DOMAIN subdomainIndex
      /\ tunnels' = Reg!Put(tunnels, id, new)
      /\ subdomainIndex' = Reg!Put(subdomainIndex, sub, id)
  BY DEF RegisterTunnel, Reg!Register, Reg!CanRegister, Reg!SubdomainTaken, TunnelOf
<1>3. new.id = id /\ new.sub = sub /\ new.conn = ConnID[s]
  BY <1>0, TunnelOfType
<1>4. id \notin DOMAIN tunnels
  BY FreshID
<1> HIDE DEF new, id, sub
<1>5. /\ DOMAIN tunnels' = DOMAIN tunnels \cup {id} /\ tunnels'[id] = new
      /\ \A i \in DOMAIN tunnels : tunnels'[i] = tunnels[i] /\ i # id
      /\ DOMAIN subdomainIndex' = DOMAIN subdomainIndex \cup {sub} /\ subdomainIndex'[sub] = id
      /\ \A x \in DOMAIN subdomainIndex : subdomainIndex'[x] = subdomainIndex[x] /\ x # sub
  BY <1>2, <1>4 DEF Reg!Put
<1>6. IndexConsistent'
  BY <1>3, <1>5 DEF RoutingInv, IndexConsistent, Reg!IndexExact
<1>7. RoutesFollowRegistry'
  BY <1>1, <1>5 DEF RoutingInv, RoutesFollowRegistry, IndexConsistent, Reg!IndexExact
<1>8. OwnersKnown'
  BY <1>3, <1>5 DEF RoutingInv, OwnersKnown, id
<1>9. OwnIDs' /\ ConnectionsOwn'
  <2>1. OwnIDs'
    BY <1>1, <1>pc DEF RoutingInv, OwnIDs
  <2>2. ConnectionsOwn'
    BY <1>1, Zenon DEF RoutingInv, ConnectionsOwn
  <2> QED BY <2>1, <2>2
<1>10. UpRouted'
  BY <1>1, <1>pc, <1>5, SMTT(20) DEF RoutingInv, UpRouted, UpPC, Routed
<1>11. AboutToMap'
  <2> SUFFICES ASSUME NEW t \in Session, pc'[t] = "map"
               PROVE  /\ TunnelID(t, Head(todo[t])) \in DOMAIN tunnels'
                      /\ tunnels'[TunnelID(t, Head(todo[t]))].sub = Head(todo[t])
    BY <1>1 DEF AboutToMap
  <2>1. CASE t = s
    BY <1>3, <1>5, <2>1, Zenon DEF id, sub
  <2>2. CASE t # s
    BY <1>pc, <1>5, <2>2, Zenon DEF RoutingInv, AboutToMap
  <2> QED BY <2>1, <2>2
<1>12. AboutToUnmap'
  BY <1>1, <1>pc, <1>5 DEF RoutingInv, AboutToUnmap
<1>13. AboutToUnregister'
  <2> SUFFICES ASSUME NEW t \in Session, pc'[t] = "unregister",
                      Head(tunnelIDs[t]) \in DOMAIN tunnels'
               PROVE  tunnels'[Head(tunnelIDs[t])].sub \notin DOMAIN subdomainToConn
    BY <1>1, Zenon DEF AboutToUnregister
  <2>1. CASE Head(tunnelIDs[t]) = id
    BY <1>2, <1>3, <1>5, <2>1 DEF RoutingInv, RoutesFollowRegistry
  <2>2. CASE Head(tunnelIDs[t]) # id
    BY <1>pc, <1>5, <2>2 DEF RoutingInv, AboutToUnregister
  <2> QED BY <2>1, <2>2
<1> QED BY <1>6, <1>7, <1>8, <1>9, <1>10, <1>11, <1>12, <1>13, Zenon DEF RoutingInv

\* MapSubdomain only redirects the subdomain of the session's own tunnel.
LEMMA RoutingMap ==
  ASSUME GeneratedIDs, DistinctIDs, RoutingInv, TypeOK', NEW s \in Session, MapSubdomain(s)
  PROVE  RoutingInv'
<1> DEFINE sub == Head(todo[s])
           id == TunnelID(s, sub)
<1>0. /\ pc \in [Session -> SessionPC] /\ todo \in [Session -> Seq(Subdomain)]
      /\ tunnelIDs \in [Session -> Seq(Reg!ID)] /\ todo[s] # <<>>
  BY DEF RoutingInv, TypeOK, SessionTypeOK, MapSubdomain, Goto
<1>1. /\ pc[s] = "map" /\ pc' = [pc EXCEPT ![s] = "register"]
      /\ subdomainToConn' = Brk!Put(subdomainToConn, sub, ConnID[s])
      /\ tunnelIDs' = [tunnelIDs EXCEPT ![s] = Append(tunnelIDs[s], id)]
      /\ todo' = [todo EXCEPT ![s] = Tail(todo[s])]
      /\ UNCHANGED <<tunnels, subdomainIndex, connections, found>>
  BY DEF MapSubdomain, Goto, Brk!MapSubdomain, registryVars
<1>sub. sub \in Subdomain /\ id \in Reg!ID
  BY <1>0, TunnelOfType
<1>pc. \A t \in Session : pc'[t] = IF t = s THEN "register" ELSE pc[t]
  BY <1>0, <1>1
<1>others. \A t \in Session : t # s => todo'[t] = todo[t] /\ tunnelIDs'[t] = tunnelIDs[t]
  BY <1>0, <1>1
<1>own. /\ DOMAIN tunnelIDs'[s] = DOMAIN tunnelIDs[s] \cup {Len(tunnelIDs[s]) + 1}
        /\ tunnelIDs'[s][Len(tunnelIDs[s]) + 1] = id
        /\ \A i \in DOMAIN tunnelIDs[s] : tunnelIDs'[s][i] = tunnelIDs[s][i]
  <2>1. tunnelIDs[s] \in Seq(Reg!ID) /\ tunnelIDs'[s] = Append(tunnelIDs[s], id)
    BY <1>0, <1>1
  <2> QED BY <1>sub, <2>1
<1>2. id \in DOMAIN tunnels /\ tunnels[id].sub = sub
  BY <1>1 DEF RoutingInv, AboutToMap
<1>3. tunnels[id].conn = ConnID[s]
  BY <1>2, <1>sub, OwnerOfID, Zenon DEF RoutingInv
<1> HIDE DEF id, sub
<1>4. /\ DOMAIN subdomainToConn' = DOMAIN subdomainToConn \cup {sub}
      /\ subdomainToConn'[sub] = ConnID[s]
      /\ \A x \in DOMAIN subdomainToConn : x # sub => subdomainToConn'[x] = subdomainToConn[x]
  BY <1>1, Zenon DEF Brk!Put
<1>5. IndexConsistent' /\ OwnersKnown' /\ ConnectionsOwn'
  BY <1>1 DEF RoutingInv, IndexConsistent, Reg!IndexExact, OwnersKnown, ConnectionsOwn
<1>6. RoutesFollowRegistry'
  BY <1>1, <1>2, <1>3, <1>4, SMTT(20) DEF RoutingInv, RoutesFollowRegistry, IndexConsistent, Reg!IndexExact
<1>7. OwnIDs'
  <2> SUFFICES ASSUME NEW t \in Session
               PROVE  /\ \A i \in DOMAIN tunnelIDs'[t] :
                           \E x \in Subdomain : tunnelIDs'[t][i] = TunnelID(t, x)
                      /\ pc'[t] = "connect" => tunnelIDs'[t] = <<>>
    BY DEF OwnIDs
  <2>1. CASE t = s
    BY <1>own, <1>pc, <1>sub, <2>1 DEF RoutingInv, OwnIDs, id
  <2>2. CASE t # s
    BY <1>others, <1>pc, <2>2 DEF RoutingInv, OwnIDs
  <2> QED BY <2>1, <2>2, Zenon
<1>8. UpRouted'
  <2> DEFINE After(t, i) == /\ i \in DOMAIN tunnels
                            /\ tunnels[i].sub \in DOMAIN subdomainToConn'
                            /\ subdomainToConn'[tunnels[i].sub] = ConnID[t]
  <2>1. \A t \in Session : \A i \in DOMAIN tunnels : Routed(t, i) /\ i # id => After(t, i)
    BY <1>2, <1>4, SubdomainsDiffer DEF RoutingInv, Routed
  <2>2. After(s, id)
    BY <1>2, <1>4
  <2>3. \A t \in Session : \A i \in DOMAIN tunnelIDs[t] : t # s => tunnelIDs[t][i] # id
    BY <1>sub, TunnelIDsAreUnique DEF RoutingInv, OwnIDs, id
  <2> HIDE DEF After
  <2>4. ASSUME NEW t \in Session, pc'[t] \in UpPC, NEW i \in DOMAIN tunnelIDs'[t]
        PROVE  After(t, tunnelIDs'[t][i])
    <3>1. CASE t = s
      <4>1. \A j \in DOMAIN tunnelIDs[s] : Routed(s, tunnelIDs[s][j])
        BY <1>1, Zenon DEF RoutingInv, UpRouted, UpPC
      <4>2. \A j \in DOMAIN tunnelIDs[s] : tunnelIDs[s][j] \in DOMAIN tunnels
        BY <4>1, Zenon DEF Routed
      <4> QED BY <1>own, <2>1, <2>2, <2>4, <3>1, <4>1, <4>2, Zenon
    <3>2. CASE t # s
      <4>1. Routed(t, tunnelIDs[t][i])
        BY <1>others, <1>pc, <2>4, <3>2, Zenon DEF RoutingInv, UpRouted
      <4>2. tunnelIDs[t][i] \in DOMAIN tunnels
        BY <4>1, Zenon DEF Routed
      <4> QED BY <1>others, <2>1, <2>3, <2>4, <3>2, <4>1, <4>2, Zenon
    <3> QED BY <3>1, <3>2, Zenon
  <2>5. ASSUME NEW t \in Session, pc'[t] \in UpPC
        PROVE  ConnID[t] \in DOMAIN connections' /\ connections'[ConnID[t]] = t
    BY <1>1, <1>pc, <2>5, Zenon DEF RoutingInv, UpRouted, UpPC
  <2> QED BY <1>1, <2>4, <2>5, ZenonT(30) DEF UpRouted, Routed, After
<1>9. AboutToMap'
  BY <1>1, <1>pc, <1>others, SMTT(20) DEF RoutingInv, AboutToMap
<1>10. AboutToUnmap'
  BY <1>1, <1>pc, <1>others DEF RoutingInv, AboutToUnmap
<1>11. AboutToUnregister'
  <2> SUFFICES ASSUME NEW t \in Session, pc'[t] = "unregister",
                      Head(tunnelIDs'[t]) \in DOMAIN tunnels
               PROVE  tunnels[Head(tunnelIDs'[t])].sub \notin DOMAIN subdomainToConn'
    BY <1>1 DEF AboutToUnregister
  <2>1. t # s /\ pc[t] = "unregister" /\ tunnelIDs'[t] = tunnelIDs[t]
    BY <1>pc, <1>others
  <2>2. tunnels[Head(tunnelIDs[t])].sub \notin DOMAIN subdomainToConn
    BY <2>1 DEF RoutingInv, AboutToUnregister
  <2>3. \E x \in Subdomain : Head(tunnelIDs[t]) = TunnelID(t, x)
    <3>1. tunnelIDs[t] \in Seq(Reg!ID) /\ tunnelIDs[t] # <<>>
      BY <2>1 DEF RoutingInv, TypeOK, SessionTypeOK
    <3>2. 1 \in DOMAIN tunnelIDs[t] /\ Head(tunnelIDs[t]) = tunnelIDs[t][1]
      BY <3>1
    <3> QED BY <3>2, Zenon DEF RoutingInv, OwnIDs
  <2>4. Head(tunnelIDs[t]) # id
    BY <1>sub, <2>1, <2>3, TunnelIDsAreUnique, Zenon DEF id
  <2> QED BY <1>2, <1>4, <2>1, <2>2, <2>4, SubdomainsDiffer, Zenon DEF RoutingInv
<1> QED BY <1>5, <1>6, <1>7, <1>8, <1>9, <1>10, <1>11, Zenon DEF RoutingInv

\* A session with tunnels to clean up has one of its own at the head.
LEMMA HeadIsOwn ==
  ASSUME RoutingInv, NEW s \in Session, tunnelIDs[s] # <<>>
  PROVE  /\ \E x \in Subdomain : Head(tunnelIDs[s]) = TunnelID(s, x)
         /\ Tail(tunnelIDs[s]) \in Seq(Reg!ID)
         /\ \A i \in DOMAIN Tail(tunnelIDs[s]) :
              i + 1 \in DOMAIN tunnelIDs[s] /\ Tail(tunnelIDs[s])[i] = tunnelIDs[s][i + 1]
<1>1. tunnelIDs[s] \in Seq(Reg!ID)
  BY DEF RoutingInv, TypeOK, SessionTypeOK
<1>2. 1 \in DOMAIN tunnelIDs[s] /\ Head(tunnelIDs[s]) = tunnelIDs[s][1]
  BY <1>1
<1>3. \A i \in DOMAIN Tail(tunnelIDs[s]) :
        i + 1 \in DOMAIN tunnelIDs[s] /\ Tail(tunnelIDs[s])[i] = tunnelIDs[s][i + 1]
  BY <1>1
<1> QED BY <1>1, <1>2, <1>3 DEF RoutingInv, OwnIDs

\* Collecting the tunnels of a lost connection keeps it.
LEMMA RoutingLookup ==
  ASSUME RoutingInv, TypeOK', NEW s \in Session, CleanupLookup(s)
  PROVE  RoutingInv'
<1> USE DEF registryVars, brokerVars
<1> DEFINE id == Head(tunnelIDs[s])
<1>0. pc \in [Session -> SessionPC] /\ found \in [Session -> Subdomain \cup {None}]
  BY Zenon DEF RoutingInv, TypeOK, SessionTypeOK
<1>1. /\ UNCHANGED <<tunnels, subdomainIndex, connections, subdomainToConn, todo, tunnelIDs>>
      /\ pc[s] = "cleanup"
      /\ \/ /\ id \in DOMAIN tunnels
            /\ pc' = [pc EXCEPT ![s] = "unmap"] /\ found' = [found EXCEPT ![s] = tunnels[id].sub]
         \/ /\ id \notin DOMAIN tunnels
            /\ pc' = [pc EXCEPT ![s] = "unregister"] /\ UNCHANGED found
  BY DEF CleanupLookup, Goto, Reg!GetByID
<1>pc. \A t \in Session : t # s => pc'[t] = pc[t] /\ found'[t] = found[t]
  BY <1>0, <1>1, Zenon
<1>own. \/ pc'[s] = "unmap" /\ id \in DOMAIN tunnels /\ found'[s] = tunnels[id].sub
        \/ pc'[s] = "unregister" /\ id \notin DOMAIN tunnels
  BY <1>0, <1>1, Zenon
<1>2. IndexConsistent' /\ RoutesFollowRegistry' /\ OwnersKnown' /\ ConnectionsOwn'
  BY <1>1 DEF RoutingInv, IndexConsistent, Reg!IndexExact, RoutesFollowRegistry, OwnersKnown,
         ConnectionsOwn
<1>3. OwnIDs'
  BY <1>1, <1>pc, <1>own, Zenon DEF RoutingInv, OwnIDs
<1>4. UpRouted'
  BY <1>1, <1>pc, <1>own, ZenonT(30) DEF RoutingInv, UpRouted, UpPC, Routed
<1>5. AboutToMap' /\ AboutToUnmap' /\ AboutToUnregister'
  BY <1>1, <1>pc, <1>own DEF RoutingInv, AboutToMap, AboutToUnmap, AboutToUnregister
<1> QED BY <1>2, <1>3, <1>4, <1>5, Zenon DEF RoutingInv

\* UnmapSubdomain takes away the route of the session's own tunnel only: the
\* subdomain read by GetByID is still the session's.
LEMMA RoutingUnmap ==
  ASSUME GeneratedIDs, DistinctIDs, RoutingInv, TypeOK', NEW s \in Session, CleanupUnmap(s)
  PROVE  RoutingInv'
<1> USE DEF registryVars
<1> DEFINE id == Head(tunnelIDs[s])
<1>0. pc \in [Session -> SessionPC] /\ found \in [Session -> Subdomain \cup {None}]
  BY DEF RoutingInv, TypeOK, SessionTypeOK
<1>1. /\ pc[s] = "unmap" /\ pc' = [pc EXCEPT ![s] = "unregister"]
      /\ found' = [found EXCEPT ![s] = None]
      /\ subdomainToConn' = Brk!Delete(subdomainToConn, {found[s]})
      /\ UNCHANGED <<tunnels, subdomainIndex, connections, todo, tunnelIDs>>
  BY DEF CleanupUnmap, Goto, Brk!UnmapSubdomain
<1>pc. \A t \in Session : /\ pc'[t] = IF t = s THEN "unregister" ELSE pc[t]
                          /\ t # s => found'[t] = found[t]
  BY <1>0, <1>1, Zenon
<1>2. id \in DOMAIN tunnels /\ tunnels[id].sub = found[s]
  BY <1>1 DEF RoutingInv, AboutToUnmap
<1>3. /\ DOMAIN subdomainToConn' = DOMAIN subdomainToConn \ {found[s]}
      /\ \A x \in DOMAIN subdomainToConn' : subdomainToConn'[x] = subdomainToConn[x]
  BY <1>1, Zenon DEF Brk!Delete, Brk!Restrict
<1>4. tunnelIDs[s] # <<>>
  BY <1>1 DEF RoutingInv, TypeOK, SessionTypeOK
<1>5. IndexConsistent' /\ RoutesFollowRegistry' /\ OwnersKnown' /\ ConnectionsOwn'
  BY <1>1, <1>3, ZenonT(30) DEF RoutingInv, IndexConsistent, Reg!IndexExact, RoutesFollowRegistry,
         OwnersKnown, ConnectionsOwn
<1>6. OwnIDs'
  BY <1>1, <1>pc DEF RoutingInv, OwnIDs
<1>7. UpRouted'
  <2> SUFFICES ASSUME NEW t \in Session, pc'[t] \in UpPC
               PROVE  /\ ConnID[t] \in DOMAIN connections /\ connections[ConnID[t]] = t
                      /\ \A i \in DOMAIN tunnelIDs[t] :
                           /\ tunnelIDs[t][i] \in DOMAIN tunnels
                           /\ tunnels[tunnelIDs[t][i]].sub \in DOMAIN subdomainToConn'
                           /\ subdomainToConn'[tunnels[tunnelIDs[t][i]].sub] = ConnID[t]
    BY <1>1, ZenonT(30) DEF UpRouted, Routed
  <2>1. t # s /\ pc[t] \in UpPC
    BY <1>pc DEF UpPC
  <2>2. \A i \in DOMAIN tunnelIDs[t] : tunnelIDs[t][i] # id
    BY <1>4, <2>1, HeadIsOwn, TunnelIDsAreUnique, SMTT(20) DEF RoutingInv, OwnIDs
  <2>3. \A i \in DOMAIN tunnelIDs[t] : tunnelIDs[t][i] \in DOMAIN tunnels =>
          tunnels[tunnelIDs[t][i]].sub # found[s]
    BY <1>2, <2>2, SubdomainsDiffer, Zenon DEF RoutingInv
  <2> QED BY <1>3, <2>1, <2>3, Zenon DEF RoutingInv, UpRouted, Routed
<1>8. AboutToMap' /\ AboutToUnmap'
  BY <1>1, <1>pc DEF RoutingInv, AboutToMap, AboutToUnmap
<1>9. AboutToUnregister'
  BY <1>1, <1>pc, <1>2, <1>3, SMTT(20) DEF RoutingInv, AboutToUnregister
<1> QED BY <1>5, <1>6, <1>7, <1>8, <1>9, Zenon DEF RoutingInv

\* Unregister removes a tunnel of the session that has no route any more.
LEMMA RoutingUnregister ==
  ASSUME GeneratedIDs, DistinctIDs, RoutingInv, TypeOK', NEW s \in Session, CleanupUnregister(s)
  PROVE  RoutingInv'
<1> DEFINE id == Head(tunnelIDs[s])
<1>0. pc \in [Session -> SessionPC] /\ tunnelIDs \in [Session -> Seq(Reg!ID)]
  BY DEF RoutingInv, TypeOK, SessionTypeOK
<1>1. /\ pc[s] = "unregister" /\ pc' = [pc EXCEPT ![s] = "cleanup"]
      /\ tunnelIDs' = [tunnelIDs EXCEPT ![s] = Tail(tunnelIDs[s])]
      /\ UNCHANGED <<connections, subdomainToConn, todo, found>>
  BY DEF CleanupUnregister, Goto, brokerVars
<1>pc. \A t \in Session : /\ pc'[t] = IF t = s THEN "cleanup" ELSE pc[t]
                          /\ tunnelIDs'[t] = IF t = s THEN Tail(tunnelIDs[s]) ELSE tunnelIDs[t]
  BY <1>0, <1>1, Zenon
<1>2. tunnelIDs[s] # <<>>
  BY <1>1, Zenon DEF RoutingInv, TypeOK, SessionTypeOK
<1>3. id \in DOMAIN tunnels => tunnels[id].sub \notin DOMAIN subdomainToConn
  BY <1>1, Zenon DEF RoutingInv, AboutToUnregister
<1>4. \/ /\ id \in DOMAIN tunnels
         /\ subdomainIndex' = Reg!Delete(subdomainIndex, {tunnels[id].sub})
         /\ tunnels' = Reg!Delete(tunnels, {id})
      \/ id \notin DOMAIN tunnels /\ UNCHANGED <<tunnels, subdomainIndex>>
  BY Zenon DEF CleanupUnregister, Reg!Unregister, Reg!GetByID, registryVars
<1>5. /\ DOMAIN tunnels' = DOMAIN tunnels \ {id}
      /\ \A i \in DOMAIN tunnels' : tunnels'[i] = tunnels[i]
      /\ \A x \in DOMAIN subdomainIndex' : /\ x \in DOMAIN subdomainIndex
                                           /\ subdomainIndex'[x] = subdomainIndex[x]
                                           /\ id \in DOMAIN tunnels => x # tunnels[id].sub
      /\ \A x \in DOMAIN subdomainIndex :
           x \in DOMAIN subdomainIndex' \/ (id \in DOMAIN tunnels /\ x = tunnels[id].sub)
  BY <1>4, Zenon DEF Reg!Delete, Reg!Restrict
<1>foreign. \A t \in Session : \A x \in Subdomain : t # s => TunnelID(t, x) # id
  BY <1>2, HeadIsOwn, TunnelIDsAreUnique
<1> HIDE DEF id
<1>6. IndexConsistent'
  BY <1>5, SubdomainsDiffer DEF RoutingInv, IndexConsistent, Reg!IndexExact
<1>7. RoutesFollowRegistry'
  BY <1>1, <1>3, <1>5 DEF RoutingInv, RoutesFollowRegistry, IndexConsistent, Reg!IndexExact
<1>8. OwnersKnown' /\ ConnectionsOwn'
  BY <1>1, <1>5, SMTT(20) DEF RoutingInv, OwnersKnown, ConnectionsOwn
<1>9. OwnIDs'
  <2> SUFFICES ASSUME NEW t \in Session
               PROVE  /\ \A i \in DOMAIN tunnelIDs'[t] :
                           \E x \in Subdomain : tunnelIDs'[t][i] = TunnelID(t, x)
                      /\ pc'[t] = "connect" => tunnelIDs'[t] = <<>>
    BY DEF OwnIDs
  <2>1. CASE t = s
    <3>1. \A j \in DOMAIN tunnelIDs[s] : \E x \in Subdomain : tunnelIDs[s][j] = TunnelID(s, x)
      BY Zenon DEF RoutingInv, OwnIDs
    <3>2. \A i \in DOMAIN Tail(tunnelIDs[s]) :
            \E x \in Subdomain : Tail(tunnelIDs[s])[i] = TunnelID(s, x)
      BY <1>2, <3>1, HeadIsOwn
    <3> QED BY <1>pc, <2>1, <3>2, Zenon
  <2>2. CASE t # s
    BY <1>pc, <2>2, ZenonT(30) DEF RoutingInv, OwnIDs
  <2> QED BY <2>1, <2>2
<1>10. UpRouted'
  <2> SUFFICES ASSUME NEW t \in Session, pc'[t] \in UpPC
               PROVE  /\ ConnID[t] \in DOMAIN connections' /\ connections'[ConnID[t]] = t
                      /\ \A i \in DOMAIN tunnelIDs'[t] : Routed(t, tunnelIDs[t][i])'
    BY DEF UpRouted
  <2>1. t # s /\ pc[t] \in UpPC /\ tunnelIDs'[t] = tunnelIDs[t]
    BY <1>pc DEF UpPC
  <2>2. \A i \in DOMAIN tunnelIDs[t] : tunnelIDs[t][i] # id
    BY <1>foreign, <2>1, Zenon DEF RoutingInv, OwnIDs
  <2> QED BY <1>1, <1>5, <2>1, <2>2, SMTT(20) DEF RoutingInv, UpRouted, Routed
<1>11. AboutToMap'
  <2> SUFFICES ASSUME NEW t \in Session, pc'[t] = "map"
               PROVE  /\ TunnelID(t, Head(todo[t])) \in DOMAIN tunnels'
                      /\ tunnels'[TunnelID(t, Head(todo[t]))].sub = Head(todo[t])
    BY <1>1 DEF AboutToMap
  <2>1. t # s /\ pc[t] = "map"
    BY <1>pc, Zenon
  <2>2. Head(todo[t]) \in Subdomain
    BY <2>1 DEF RoutingInv, TypeOK, SessionTypeOK
  <2> QED BY <1>5, <1>foreign, <2>1, <2>2 DEF RoutingInv, AboutToMap
<1>12. \A t \in Session : t # s /\ pc[t] \in {"unmap", "unregister"} => Head(tunnelIDs[t]) # id
  <2> SUFFICES ASSUME NEW t \in Session, t # s, pc[t] \in {"unmap", "unregister"}
               PROVE  Head(tunnelIDs[t]) # id
    OBVIOUS
  <2>1. tunnelIDs[t] # <<>>
    BY Zenon DEF RoutingInv, TypeOK, SessionTypeOK
  <2> QED BY <1>foreign, <2>1, HeadIsOwn
<1>13. AboutToUnmap'
  BY <1>1, <1>pc, <1>5, <1>12, SMTT(20) DEF RoutingInv, AboutToUnmap
<1>14. AboutToUnregister'
  BY <1>1, <1>pc, <1>5, <1>12 DEF RoutingInv, AboutToUnregister
<1> QED BY <1>6, <1>7, <1>8, <1>9, <1>10, <1>11, <1>13, <1>14, Zenon DEF RoutingInv

\* RemoveConnection takes away the session's own connection and routes only.
LEMMA RoutingRemove ==
  ASSUME DistinctIDs, RoutingInv, TypeOK', NEW s \in Session, CleanupRemove(s)
  PROVE  RoutingInv'
<1> USE DEF registryVars
<1>0. pc \in [Session -> SessionPC]
  BY Zenon DEF RoutingInv, TypeOK, SessionTypeOK
<1>1. /\ pc[s] = "cleanup" /\ pc' = [pc EXCEPT ![s] = "closed"]
      /\ UNCHANGED <<tunnels, subdomainIndex, todo, tunnelIDs, found>>
      /\ subdomainToConn' = IF ConnID[s] \in DOMAIN connections
                            THEN Brk!Delete(subdomainToConn, Brk!RoutesOf(ConnID[s]))
                            ELSE subdomainToConn
      /\ connections' = Brk!Delete(connections, {ConnID[s]})
  BY Zenon DEF CleanupRemove, Goto, Brk!RemoveConnection
<1>pc. \A t \in Session : pc'[t] = IF t = s THEN "closed" ELSE pc[t]
  BY <1>0, <1>1
<1>2. /\ DOMAIN subdomainToConn' \subseteq DOMAIN subdomainToConn
      /\ \A x \in DOMAIN subdomainToConn' : subdomainToConn'[x] = subdomainToConn[x]
      /\ \A x \in DOMAIN subdomainToConn :
           subdomainToConn[x] # ConnID[s] => x \in DOMAIN subdomainToConn'
  BY <1>1 DEF Brk!Delete, Brk!Restrict, Brk!RoutesOf
<1>3. /\ DOMAIN connections' = DOMAIN connections \ {ConnID[s]}
      /\ \A c \in DOMAIN connections' : connections'[c] = connections[c]
  BY <1>1 DEF Brk!Delete, Brk!Restrict
<1>4. IndexConsistent' /\ RoutesFollowRegistry' /\ OwnersKnown' /\ ConnectionsOwn'
  BY <1>1, <1>2, <1>3, ZenonT(30) DEF RoutingInv, IndexConsistent, Reg!IndexExact, RoutesFollowRegistry,
         OwnersKnown, ConnectionsOwn
<1>5. OwnIDs'
  BY <1>1, <1>pc DEF RoutingInv, OwnIDs
<1>6. UpRouted'
  <2> SUFFICES ASSUME NEW t \in Session, pc'[t] \in UpPC
               PROVE  /\ ConnID[t] \in DOMAIN connections' /\ connections'[ConnID[t]] = t
                      /\ \A i \in DOMAIN tunnelIDs'[t] : Routed(t, tunnelIDs[t][i])'
    BY DEF UpRouted
  <2>1. t # s /\ pc[t] \in UpPC /\ ConnID[t] # ConnID[s]
    BY <1>pc DEF UpPC, DistinctIDs
  <2>2. /\ ConnID[t] \in DOMAIN connections /\ connections[ConnID[t]] = t
        /\ \A i \in DOMAIN tunnelIDs[t] : Routed(t, tunnelIDs[t][i])
    BY <2>1 DEF RoutingInv, UpRouted
  <2>3. ConnID[t] \in DOMAIN connections' /\ connections'[ConnID[t]] = t
    BY <1>3, <2>1, <2>2, Zenon
  <2>4. ASSUME NEW i \in DOMAIN tunnelIDs'[t] PROVE Routed(t, tunnelIDs[t][i])'
    BY <1>1, <1>2, <2>1, <2>2, <2>4, Zenon DEF Routed
  <2> QED BY <2>3, <2>4, Zenon
<1>7. AboutToMap' /\ AboutToUnmap' /\ AboutToUnregister'
  BY <1>1, <1>2, <1>pc, SMTT(20) DEF RoutingInv, AboutToMap, AboutToUnmap, AboutToUnregister
<1> QED BY <1>4, <1>5, <1>6, <1>7, Zenon DEF RoutingInv

\* The routing invariant is inductive.
LEMMA RoutingInductive ==
  ASSUME GeneratedIDs, DistinctIDs, Deletable = {}, RoutingInv, [Next]_vars
  PROVE  RoutingInv'
<1>0. TypeOK'
  BY TypeInductive DEF RoutingInv
<1>1. ASSUME NEW s \in Session,
             Reject(s) \/ Accept(s) \/ SessionStep(s) \/ PeerDown(s) \/ PeerSilent(s)
      PROVE  RoutingInv'
  <2>1. CASE Accept(s)
    BY <1>0, <2>1, RoutingAccept
  <2>2. CASE RegisterTunnel(s)
    BY <1>0, <2>2, RoutingRegister
  <2>3. CASE MapSubdomain(s)
    BY <1>0, <2>3, RoutingMap
  <2>4. CASE CleanupLookup(s)
    BY <1>0, <2>4, RoutingLookup, Zenon
  <2>5. CASE CleanupUnmap(s)
    BY <1>0, <2>5, RoutingUnmap
  <2>6. CASE CleanupUnregister(s)
    BY <1>0, <2>6, RoutingUnregister
  <2>7. CASE CleanupRemove(s)
    BY <1>0, <2>7, RoutingRemove
  <2>8. CASE Reject(s) \/ RefuseTunnel(s) \/ StartReply(s) \/ ReplyPanics(s) \/ EndReply(s)
             \/ ReadError(s)
    <3>1. PICK q \in {"closed", "refuse", "replying", "refusing", "panicked", "serve", "cleanup"} :
            /\ pc' = [pc EXCEPT ![s] = q]
            /\ q \in UpPC => pc[s] \in UpPC
      BY <2>8, Zenon DEF Reject, RefuseTunnel, StartReply, ReplyPanics, EndReply, ReadError, Goto, UpPC
    <3>2. UNCHANGED <<registryVars, brokerVars, todo, tunnelIDs, found>>
      BY <2>8, Zenon DEF Reject, RefuseTunnel, StartReply, ReplyPanics, EndReply, ReadError
    <3> QED BY <1>0, <3>1, <3>2, RoutingMove, ZenonT(30)
  <2>9. CASE PeerDown(s) \/ PeerSilent(s)
    BY <1>0, <2>9, RoutingFrame, Zenon DEF PeerDown, PeerSilent, PeerGoes
  <2> QED BY <1>1, <2>1, <2>2, <2>3, <2>4, <2>5, <2>6, <2>7, <2>8, <2>9, Zenon DEF SessionStep
<1>2. ASSUME NEW r \in Request, RequestStep(r) PROVE RoutingInv'
  <2>1. UNCHANGED sessionVars
    BY <1>2, Zenon DEF RequestStep, LookupTunnel, RouteRequest, StartSend, SendFails, EndSend
  <2> QED BY <1>0, <2>1, RoutingFrame DEF sessionVars
<1>3. CASE UNCHANGED vars
  BY <1>0, <1>3, RoutingFrame DEF vars, registryVars, brokerVars
<1> QED BY <1>1, <1>2, <1>3 DEF Next

\* RoutingInv holds throughout: what handleConnect and cleanupConnection know
\* between two of their calls is not invalidated by any other session.
THEOREM RoutingInvariant ==
  ASSUME GeneratedIDs, DistinctIDs, Deletable = {}
  PROVE  Spec => []RoutingInv
<1>1. Init => RoutingInv
  <2> SUFFICES ASSUME Init PROVE RoutingInv
    OBVIOUS
  <2>1. TypeOK
    BY InitTypeOK
  <2> QED BY <2>1
       DEF Init, RoutingInv, IndexConsistent, Reg!IndexExact, RoutesFollowRegistry, OwnersKnown,
           OwnIDs, ConnectionsOwn, UpRouted, UpPC, AboutToMap, AboutToUnmap, AboutToUnregister,
           Brk!NewBroker, EmptyMap, Brk!EmptyMap
<1>2. RoutingInv /\ [Next]_vars => RoutingInv'
  BY RoutingInductive
<1> QED BY <1>1, <1>2, PTL DEF Spec

\* The broker's routes follow the registry: handleConnect registers before it
\* maps, cleanupConnection unmaps before it unregisters.
THEOREM RoutesAgree ==
  ASSUME GeneratedIDs, DistinctIDs, Deletable = {}
  PROVE  Spec => []RoutesFollowRegistry
<1>1. RoutingInv => RoutesFollowRegistry
  BY Zenon DEF RoutingInv
<1> QED BY <1>1, RoutingInvariant, PTL

\* No other session takes a tunnel of a session in its read loop off the air.
THEOREM LiveTunnelsStayRoutable ==
  ASSUME GeneratedIDs, DistinctIDs, Deletable = {}
  PROVE  Spec => []ServedTunnelsRoutable
<1>1. RoutingInv => ServedTunnelsRoutable
  <2> SUFFICES ASSUME RoutingInv, NEW s \in Session, pc[s] = "serve",
                      NEW id \in Range(tunnelIDs[s]), id \in DOMAIN tunnels
               PROVE  /\ Brk!Routable(tunnels[id].sub)
                      /\ Brk!GetConnectionBySubdomain(tunnels[id].sub) = s
    BY Zenon DEF ServedTunnelsRoutable
  <2>1. Routed(s, id) /\ ConnID[s] \in DOMAIN connections /\ connections[ConnID[s]] = s
    BY DEF RoutingInv, UpRouted, UpPC, Range
  <2> QED BY <2>1, Zenon DEF Routed, Brk!Routable, Brk!GetConnectionBySubdomain
<1> QED BY <1>1, RoutingInvariant, PTL

\* ServeHTTP, which asks the registry and then the broker, hands a request to
\* the connection that holds the subdomain when it is handed over, or to none.
THEOREM RequestsReachTheHolder ==
  ASSUME GeneratedIDs, DistinctIDs, Deletable = {}
  PROVE  Spec => HandedToHolder
<1> DEFINE Handed == \A r \in Request : req[r].pc = "route" /\ req'[r].pc = "open" =>
             \A id \in DOMAIN tunnels :
               tunnels[id].sub = req[r].sub => tunnels[id].conn = ConnID[req'[r].conn]
<1>1. RoutingInv /\ [Next]_vars => [Handed]_vars
  <2> SUFFICES ASSUME RoutingInv, Next, NEW r \in Request, req[r].pc = "route",
                      req'[r].pc = "open", NEW id \in DOMAIN tunnels,
                      tunnels[id].sub = req[r].sub
               PROVE  tunnels[id].conn = ConnID[req'[r].conn]
    BY Zenon
  <2> DEFINE sub == req[r].sub
  <2>0. req \in [Request -> [pc : RequestPC, sub : Subdomain \cup {None},
                             tunnel : Reg!ID \cup {None}, conn : Session \cup {None}]]
    BY DEF RoutingInv, TypeOK, RequestTypeOK
  <2>1. RouteRequest(r)
    <3>1. req' # req
      BY Zenon
    <3>2. PICK q \in Request : RequestStep(q)
      BY <3>1, ZenonT(30) DEF Next, Reject, Accept, SessionStep, PeerDown, PeerSilent, PeerGoes,
             RegisterTunnel, MapSubdomain, RefuseTunnel, StartReply, ReplyPanics, EndReply,
             ReadError, CleanupLookup, CleanupUnmap, CleanupUnregister, CleanupRemove,
             handleTunnelByID
    <3>3. q = r
      BY <2>0, <3>2, Zenon DEF RequestStep, LookupTunnel, RouteRequest, StartSend, SendFails, EndSend
    <3> QED BY <2>0, <3>2, <3>3, Zenon DEF RequestStep, LookupTunnel, StartSend, SendFails, EndSend
  <2>2. /\ Brk!Routable(sub)
        /\ req'[r].conn = Brk!GetConnectionBySubdomain(sub)
    BY <2>0, <2>1 DEF RouteRequest
  <2>3. /\ sub \in DOMAIN subdomainToConn /\ subdomainToConn[sub] \in DOMAIN connections
        /\ req'[r].conn = connections[subdomainToConn[sub]]
    BY <2>2, Zenon DEF Brk!Routable, Brk!GetConnectionBySubdomain
  <2>4. ConnID[req'[r].conn] = subdomainToConn[sub]
    BY <2>3, Zenon DEF RoutingInv, ConnectionsOwn
  <2>5. tunnels[subdomainIndex[sub]].conn = subdomainToConn[sub] /\ subdomainIndex[sub] = id
    BY <2>3, Zenon DEF RoutingInv, RoutesFollowRegistry, IndexConsistent, Reg!IndexExact
  <2> QED BY <2>4, <2>5, Zenon
<1> QED BY <1>1, RoutingInvariant, PTL DEF Spec, HandedToHolder
-----------------------------------------------------------------------------
(* The gauge *)

\* The gauge follows an Unregister: one tunnel less on both sides.
LEMMA GaugeSums ==
  ASSUME NEW a \in Int, NEW m \in Nat, NEW n \in Nat, a + m = n
  PROVE  (a - 1) + m = n - 1
OBVIOUS

INSTANCE FiniteSetTheorems

\* The sessions between Register and the gauge's increment.
Mapping == {s \in Session : pc[s] = "map"}

\* The gauge keeps up with Register and Unregister.
LEMMA GaugeStep ==
  ASSUME GeneratedIDs, DistinctIDs, Deletable = {}, RoutingInv, RoutingInv', [Next]_vars,
         IsFiniteSet(DOMAIN tunnels), GaugeCounts
  PROVE  IsFiniteSet(DOMAIN tunnels') /\ GaugeCounts'
<1>0. pc \in [Session -> SessionPC] /\ activeTunnels \in Int
  BY Zenon DEF RoutingInv, TypeOK, SessionTypeOK
<1>1. Uncounted = Mapping /\ Uncounted' = Mapping'
  BY Zenon DEF RoutingInv, AboutToMap, Uncounted, Mapping
<1>2. IsFiniteSet(Mapping)
  BY GatewayAssumption, FS_Subset, Zenon DEF Mapping
<1>3. Cardinality(Mapping) \in Nat /\ Cardinality(DOMAIN tunnels) \in Nat
  BY <1>2, FS_CardinalityType, Zenon
<1>4. activeTunnels + Cardinality(Mapping) = Cardinality(DOMAIN tunnels)
  BY <1>1, Zenon DEF GaugeCounts
<1> DEFINE Goal == /\ IsFiniteSet(DOMAIN tunnels')
                   /\ activeTunnels' + Cardinality(Mapping') = Cardinality(DOMAIN tunnels')
<1>same. Mapping' = Mapping /\ DOMAIN tunnels' = DOMAIN tunnels /\ UNCHANGED activeTunnels => Goal
  BY <1>4, Zenon
<1>5. ASSUME NEW s \in Session,
             Reject(s) \/ Accept(s) \/ SessionStep(s) \/ PeerDown(s) \/ PeerSilent(s)
      PROVE  Goal
  <2>1. CASE RegisterTunnel(s)
    <3> DEFINE id == TunnelID(s, Head(todo[s]))
    <3>1. DOMAIN tunnels' = DOMAIN tunnels \cup {id}
      BY <2>1, Zenon DEF RegisterTunnel, Reg!Register, Reg!Put, TunnelOf
    <3>2. id \notin DOMAIN tunnels
      BY <2>1, FreshID, Zenon
    <3>3. s \notin Mapping /\ Mapping' = Mapping \cup {s} /\ UNCHANGED activeTunnels
      BY <1>0, <2>1, Zenon DEF RegisterTunnel, Goto, Mapping
    <3> HIDE DEF id
    <3>4. /\ Cardinality(DOMAIN tunnels') = Cardinality(DOMAIN tunnels) + 1
          /\ Cardinality(Mapping') = Cardinality(Mapping) + 1
          /\ IsFiniteSet(DOMAIN tunnels')
      BY <1>2, <3>1, <3>2, <3>3, FS_AddElement, ZenonT(30)
    <3> QED BY <1>0, <1>3, <1>4, <3>3, <3>4
  <2>2. CASE MapSubdomain(s)
    <3>1. /\ s \in Mapping /\ Mapping' = Mapping \ {s}
          /\ activeTunnels' = activeTunnels + 1 /\ UNCHANGED tunnels
      BY <1>0, <2>2, Zenon DEF MapSubdomain, Goto, Mapping, registryVars
    <3>2. Cardinality(Mapping') = Cardinality(Mapping) - 1
      BY <1>2, <3>1, FS_RemoveElement, ZenonT(30)
    <3> QED BY <1>0, <1>3, <1>4, <3>1, <3>2
  <2>3. CASE CleanupUnregister(s)
    <3> DEFINE id == Head(tunnelIDs[s])
    <3>1. Mapping' = Mapping
      BY <1>0, <2>3, Zenon DEF CleanupUnregister, Goto, Mapping
    <3>2. CASE id \in DOMAIN tunnels
      <4>1. DOMAIN tunnels' = DOMAIN tunnels \ {id} /\ activeTunnels' = activeTunnels - 1
        BY <2>3, <3>2, Zenon DEF CleanupUnregister, Reg!GetByID, Reg!Unregister, Reg!Delete, Reg!Restrict
      <4> HIDE DEF id
      <4>2. /\ Cardinality(DOMAIN tunnels') = Cardinality(DOMAIN tunnels) - 1
            /\ IsFiniteSet(DOMAIN tunnels')
        BY <3>2, <4>1, FS_RemoveElement, Zenon
      <4> QED BY <1>0, <1>3, <1>4, <3>1, <4>1, <4>2, GaugeSums, Zenon
    <3>3. CASE id \notin DOMAIN tunnels
      BY <1>same, <2>3, <3>1, <3>3, Zenon DEF CleanupUnregister, Reg!Unregister, registryVars
    <3> QED BY <3>2, <3>3, Zenon
  <2>4. CASE \/ Reject(s) \/ Accept(s) \/ RefuseTunnel(s) \/ StartReply(s) \/ ReplyPanics(s)
             \/ EndReply(s) \/ ReadError(s) \/ CleanupLookup(s) \/ CleanupUnmap(s)
             \/ CleanupRemove(s) \/ PeerDown(s) \/ PeerSilent(s)
    <3>1. UNCHANGED <<tunnels, activeTunnels>>
      BY <2>4, ZenonT(30) DEF Reject, Accept, RefuseTunnel, StartReply, ReplyPanics, EndReply, ReadError,
         CleanupLookup, CleanupUnmap, CleanupRemove, PeerDown, PeerSilent, PeerGoes, registryVars
    <3>2. UNCHANGED pc \/ \E q \in SessionPC \ {"map"} :
            pc' = [pc EXCEPT ![s] = q] /\ pc[s] # "map"
      BY <2>4, ZenonT(30) DEF Reject, Accept, RefuseTunnel, StartReply, ReplyPanics, EndReply, ReadError,
         CleanupLookup, CleanupUnmap, CleanupRemove, PeerDown, PeerSilent, PeerGoes, Goto,
         SessionPC
    <3>3. Mapping' = Mapping
      BY <1>0, <3>2, Zenon DEF Mapping
    <3> QED BY <1>same, <3>1, <3>3, Zenon
  <2> QED BY <1>5, <2>1, <2>2, <2>3, <2>4, ZenonT(30) DEF SessionStep
<1>6. ASSUME NEW r \in Request, RequestStep(r) PROVE Goal
  <2>1. UNCHANGED sessionVars
    BY <1>6, Zenon DEF RequestStep, LookupTunnel, RouteRequest, StartSend, SendFails, EndSend
  <2> QED BY <1>same, <2>1, ZenonT(30) DEF sessionVars, registryVars, Mapping
<1>7. ASSUME UNCHANGED vars PROVE Goal
  <2>1. UNCHANGED <<tunnels, activeTunnels, pc>>
    BY <1>7, Zenon DEF vars
  <2>2. Mapping' = Mapping
    BY <2>1, Zenon DEF Mapping
  <2> QED BY <1>same, <2>1, <2>2, Zenon
<1> HIDE DEF Goal
<1>8. Goal
  BY <1>5, <1>6, <1>7, Zenon DEF Next
<1> QED BY <1>1, <1>8, Zenon DEF GaugeCounts, Goal

\* gotunnel_active_tunnels_total is the number of registered tunnels, less
\* those just registered and not yet counted, whatever sessions do at once.
THEOREM GaugeIsExact ==
  ASSUME GeneratedIDs, DistinctIDs, Deletable = {}
  PROVE  Spec => []GaugeCounts
<1> DEFINE Finite == IsFiniteSet(DOMAIN tunnels)
<1>1. Init => Finite /\ GaugeCounts
  <2> SUFFICES ASSUME Init PROVE Finite /\ GaugeCounts
    BY Zenon
  <2>1. DOMAIN tunnels = {} /\ Uncounted = {} /\ activeTunnels = 0
    BY DEF Init, EmptyMap, Uncounted
  <2> QED BY <2>1, FS_EmptySet DEF GaugeCounts
<1>2. RoutingInv /\ RoutingInv' /\ [Next]_vars /\ Finite /\ GaugeCounts => (Finite /\ GaugeCounts)'
  BY GaugeStep
<1> HIDE DEF Finite
<1> QED BY <1>1, <1>2, RoutingInvariant, PTL DEF Spec
=============================================================================
