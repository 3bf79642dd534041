--------------------------- MODULE RegistryProofs ---------------------------
(***************************************************************************)
(* Proofs about the tunnel registry, for every set of subdomains, every    *)
(* configuration and every set of submitted tunnels.                       *)
(***************************************************************************)
EXTENDS Registry, TLAPS

\* What Register stores is a well-formed tunnel stamped with the current time.
LEMMA StoredTunnel ==
  ASSUME NEW t \in Submitted, now \in Nat
  PROVE  Stored(t) \in Tunnel /\ Stored(t).sub = t.sub /\ Stored(t).hb = now /\ Stored(t).id = t.id
BY RegistryAssumption DEF Stored, Tunnel, ID

\* The types are inductive.
LEMMA TypeInductive ==
  ASSUME TypeOK, [Next]_vars
  PROVE  TypeOK'
<1> USE DEF TypeOK
<1>1. CASE Tick
  BY <1>1, RegistryAssumption DEF Tick, registryVars, Tunnel
<1>2. ASSUME UNCHANGED now, NEW t \in Submitted, Register(t) PROVE TypeOK'
  <2>1. t.sub \in Subdomain \ Reserved /\ t.id \in ID
    BY <1>2, RegistryAssumption DEF Register, CanRegister, IsSubdomainReserved, ID
  <2>2. now \in Nat
    BY RegistryAssumption
  <2>3. DOMAIN tunnels' \subseteq ID /\ DOMAIN subdomainIndex' \subseteq Subdomain \ Reserved
    BY <1>2, <2>1 DEF Register, Put
  <2>4. \A id \in DOMAIN tunnels' : tunnels'[id] \in Tunnel /\ tunnels'[id].hb <= now'
    BY <1>2, <2>2, StoredTunnel DEF Register, Put
  <2>5. \A sub \in DOMAIN subdomainIndex' : subdomainIndex'[sub] \in ID
    BY <1>2, <2>1 DEF Register, Put
  <2> QED BY <1>2, <2>3, <2>4, <2>5
<1>3. ASSUME UNCHANGED now, NEW id \in ID, Unregister(id) PROVE TypeOK'
  BY <1>3 DEF Unregister, Delete, Restrict
<1>4. ASSUME UNCHANGED now, NEW id \in ID, UpdateHeartbeat(id) PROVE TypeOK'
  <2>1. now \in Nat
    BY RegistryAssumption
  <2>2. [tunnels[id] EXCEPT !.hb = now] \in Tunnel
    BY <1>4, <2>1 DEF UpdateHeartbeat, Tunnel
  <2> QED BY <1>4, <2>1, <2>2 DEF UpdateHeartbeat, Tunnel
<1>5. CASE UNCHANGED now /\ CleanExpired
  BY <1>5 DEF CleanExpired, Delete, Restrict
<1>6. CASE UNCHANGED vars
  BY <1>6 DEF vars
<1> QED BY <1>1, <1>2, <1>3, <1>4, <1>5, <1>6 DEF Next

\* Type correctness of the registry: no call, in any order, stores a reserved
\* subdomain, an unknown ID or a heartbeat from the future.
THEOREM RegistryTypeCorrect == Spec => []TypeOK
<1>1. Init => TypeOK
  BY RegistryAssumption DEF Init, TypeOK, EmptyMap
<1>2. TypeOK /\ [Next]_vars => TypeOK'
  BY TypeInductive
<1> QED BY <1>1, <1>2, PTL DEF Spec
-----------------------------------------------------------------------------
\* Every stored tunnel was submitted with its ID and its subdomain.  With it
\* IndexExact is inductive: a Register whose ID is already in the table would
\* be for the same subdomain, which is then taken.
FromSubmitted ==
  \A id \in DOMAIN tunnels : \E u \in Submitted : u.id = id /\ u.sub = tunnels[id].sub

IndexInv == TypeOK /\ FromSubmitted /\ IndexExact

\* Under the callers' guarantee, a registration that is accepted is for a
\* fresh ID.
LEMMA AcceptedIsFresh ==
  ASSUME IDsDetermineSubdomains, IndexInv, NEW t \in Submitted, CanRegister(t.sub)
  PROVE  t.id \notin DOMAIN tunnels
BY DEF IDsDetermineSubdomains, IndexInv, FromSubmitted, IndexExact, CanRegister, SubdomainTaken

\* The index invariant is inductive.
LEMMA IndexInductive ==
  ASSUME IDsDetermineSubdomains, IndexInv, [Next]_vars
  PROVE  IndexInv'
<1>1. TypeOK'
  BY TypeInductive DEF IndexInv
<1>2. ASSUME NEW t \in Submitted, Register(t) PROVE (FromSubmitted /\ IndexExact)'
  <2>1. t.id \notin DOMAIN tunnels /\ t.sub \notin DOMAIN subdomainIndex
    BY <1>2, AcceptedIsFresh DEF Register, CanRegister, SubdomainTaken
  <2>2. Stored(t).sub = t.sub /\ Stored(t).id = t.id
    BY DEF Stored
  <2>3. FromSubmitted'
    BY <1>2, <2>2 DEF Register, Put, FromSubmitted, IndexInv
  <2>4. IndexExact'
    BY <1>2, <2>1, <2>2 DEF Register, Put, IndexExact, IndexInv
  <2> QED BY <2>3, <2>4
<1>3. ASSUME NEW id \in ID, Unregister(id) PROVE (FromSubmitted /\ IndexExact)'
  BY <1>3 DEF Unregister, Delete, Restrict, FromSubmitted, IndexExact, IndexInv
<1>4. ASSUME NEW id \in ID, UpdateHeartbeat(id) PROVE (FromSubmitted /\ IndexExact)'
  <2>1. /\ DOMAIN tunnels' = DOMAIN tunnels
        /\ \A i \in DOMAIN tunnels : tunnels'[i].sub = tunnels[i].sub /\ tunnels'[i].id = tunnels[i].id
    BY <1>4 DEF UpdateHeartbeat, IndexInv, TypeOK, Tunnel
  <2> QED BY <1>4, <2>1 DEF UpdateHeartbeat, FromSubmitted, IndexExact, IndexInv
<1>5. CASE CleanExpired
  BY <1>1, <1>5 DEF CleanExpired, Delete, Restrict, FromSubmitted, IndexExact, IndexInv
<1>6. CASE UNCHANGED registryVars
  BY <1>1, <1>6 DEF registryVars, FromSubmitted, IndexExact, IndexInv
<1> QED BY <1>1, <1>2, <1>3, <1>4, <1>5, <1>6 DEF Next, vars, Tick, registryVars, IndexInv

\* The index invariant holds throughout.
LEMMA IndexInvariant ==
  ASSUME IDsDetermineSubdomains
  PROVE  Spec => []IndexInv
<1>1. Init => IndexInv
  BY RegistryAssumption DEF Init, IndexInv, TypeOK, FromSubmitted, IndexExact, EmptyMap
<1>2. IndexInv /\ [Next]_vars => IndexInv'
  BY IndexInductive
<1> QED BY <1>1, <1>2, PTL DEF Spec

\* As long as callers never use one tunnel ID for two subdomains, table and
\* index agree after every sequence of calls: GetBySubdomain never returns a
\* nil tunnel, and no tunnel is lost to its subdomain.
THEOREM RegistryIndexExact ==
  ASSUME IDsDetermineSubdomains
  PROVE  Spec => []IndexExact
<1>1. IndexInv => IndexExact
  BY DEF IndexInv
<1> QED BY <1>1, IndexInvariant, PTL
-----------------------------------------------------------------------------
\* Every step of the registry is one of the name table or leaves it alone.
LEMMA StepsAreNameTableSteps ==
  ASSUME IDsDetermineSubdomains, IndexInv, [Next]_vars
  PROVE  [Names!Next]_<<subdomainIndex, DOMAIN tunnels>>
<1>1. ASSUME NEW t \in Submitted, Register(t) PROVE Names!Next
  <2>1. t.id \in ID /\ t.sub \in Subdomain
    BY RegistryAssumption DEF ID
  <2>2. Names!Claim(t.sub, t.id)
    BY <1>1, AcceptedIsFresh
       DEF Register, Put, CanRegister, SubdomainTaken, Names!Claim, Names!Put
  <2> QED BY <2>1, <2>2 DEF Names!Next
<1>2. ASSUME NEW id \in ID, Unregister(id) PROVE Names!Next
  <2>1. /\ {tunnels[id].sub} \in SUBSET DOMAIN subdomainIndex
        /\ subdomainIndex[tunnels[id].sub] = id
    BY <1>2 DEF Unregister, IndexInv, IndexExact
  <2>2. Names!Release({tunnels[id].sub})
    BY <1>2, <2>1 DEF Unregister, Delete, Restrict, Names!Release, Names!Delete, Names!Restrict
  <2> QED BY <2>1, <2>2 DEF Names!Next
<1>3. ASSUME CleanExpired PROVE Names!Next
  <2> DEFINE dead == {id \in DOMAIN tunnels : Expired(tunnels[id])}
             freed == {tunnels[id].sub : id \in dead}
  <2>1. freed \in SUBSET DOMAIN subdomainIndex
    BY DEF IndexInv, IndexExact
  <2>2. {subdomainIndex[n] : n \in freed} = dead
    BY DEF IndexInv, IndexExact
  <2>3. Names!Release(freed)
    BY <1>3, <2>2 DEF CleanExpired, Delete, Restrict, Names!Release, Names!Delete, Names!Restrict
  <2> QED BY <2>1, <2>3 DEF Names!Next
<1>4. ASSUME NEW id \in ID, UpdateHeartbeat(id)
      PROVE  UNCHANGED <<subdomainIndex, DOMAIN tunnels>>
  BY <1>4 DEF UpdateHeartbeat
<1>5. CASE UNCHANGED registryVars
  BY <1>5 DEF registryVars
<1> QED BY <1>1, <1>2, <1>3, <1>4, <1>5 DEF Next, vars, Tick, registryVars

\* The registry implements NameTable: in every behaviour a subdomain is
\* claimed only while free and by a fresh tunnel, and it is released together
\* with its tunnel, by Unregister and CleanExpired alike.
THEOREM RegistryImplementsNameTable ==
  ASSUME IDsDetermineSubdomains
  PROVE  Spec => ImplementsNameTable
<1>1. Init => Names!Init
  BY DEF Init, Names!Init, EmptyMap, Names!EmptyMap
<1>2. IndexInv /\ [Next]_vars => [Names!Next]_<<subdomainIndex, DOMAIN tunnels>>
  BY StepsAreNameTableSteps
<1> QED BY <1>1, <1>2, IndexInvariant, PTL DEF Spec, ImplementsNameTable, Names!Spec
=============================================================================
