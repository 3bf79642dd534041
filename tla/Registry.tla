------------------------------ MODULE Registry ------------------------------
(***************************************************************************)
(* internal/registry: MemoryRegistry, the table of tunnels and its index   *)
(* by subdomain.  Every method runs under one mutex, so each is one atomic *)
(* step.  Callers choose the tunnel IDs; the registry does not check that  *)
(* they are fresh.                                                         *)
(***************************************************************************)
EXTENDS Integers, Maps

CONSTANTS
  Subdomain,           \* subdomains clients may ask for
  SubLength,           \* the length of each of them
  Reserved,            \* reservedSubdomains
  MaxSubdomainLength,  \* 0: no limit
  DefaultTTL,          \* seconds; 0: tunnels without a TTL of their own never expire
  Submitted,           \* the tunnels callers may pass to Register
  Nil,                 \* the nil *Tunnel
  MaxTime              \* bound on the clock

ASSUME RegistryAssumption ==
  /\ Reserved \subseteq Subdomain
  /\ SubLength \in [Subdomain -> Nat]
  /\ MaxSubdomainLength \in Nat
  /\ DefaultTTL \in Nat
  /\ MaxTime \in Nat
  /\ \A t \in Submitted : t.sub \in Subdomain /\ t.ttl \in Int

VARIABLES
  tunnels,         \* tunnel ID -> tunnel
  subdomainIndex,  \* subdomain -> tunnel ID
  now              \* time.Now(), in seconds

registryVars == <<tunnels, subdomainIndex>>

ID == {t.id : t \in Submitted}

\* A stored tunnel.  Protocol, port, creation time and bandwidth are never
\* read by the registry.
Tunnel == [id : ID, owner : {t.owner : t \in Submitted}, sub : Subdomain,
           conn : {t.conn : t \in Submitted}, ttl : Int, hb : Nat]

Init ==
  /\ tunnels = EmptyMap
  /\ subdomainIndex = EmptyMap
  /\ now = 0

IsSubdomainReserved(sub) == sub \in Reserved

SubdomainTooLong(sub) ==
  MaxSubdomainLength > 0 /\ SubLength[sub] > MaxSubdomainLength

SubdomainTaken(sub) == sub \in DOMAIN subdomainIndex

\* Bug variant: reserved subdomains are handed out.
CanRegister_NoReservedCheck(sub) == ~SubdomainTooLong(sub) /\ ~SubdomainTaken(sub)

\* Bug variant: two callers that both saw the subdomain free are both accepted.
CanRegister_NoTakenCheck(sub) == ~IsSubdomainReserved(sub) /\ ~SubdomainTooLong(sub)

CanRegister(sub) ==
  ~IsSubdomainReserved(sub) /\ ~SubdomainTooLong(sub) /\ ~SubdomainTaken(sub)

\* The stored tunnel: a zero TTL is replaced by the default, and the caller
\* stamps LastHeartbeatAt with the current time.
Stored(t) ==
  [id |-> t.id, owner |-> t.owner, sub |-> t.sub, conn |-> t.conn,
   ttl |-> IF t.ttl = 0 THEN DefaultTTL ELSE t.ttl, hb |-> now]

Register(t) ==
  /\ CanRegister(t.sub)
  /\ tunnels' = Put(tunnels, t.id, Stored(t))
  /\ subdomainIndex' = Put(subdomainIndex, t.sub, t.id)

\* Bug variant: the index entry survives the tunnel.
Unregister_KeepsIndex(id) ==
  /\ id \in DOMAIN tunnels
  /\ tunnels' = Delete(tunnels, {id})
  /\ UNCHANGED subdomainIndex

Unregister(id) ==
  /\ id \in DOMAIN tunnels
  /\ subdomainIndex' = Delete(subdomainIndex, {tunnels[id].sub})
  /\ tunnels' = Delete(tunnels, {id})

UpdateHeartbeat(id) ==
  /\ id \in DOMAIN tunnels
  /\ tunnels' = [tunnels EXCEPT ![id].hb = now]
  /\ UNCHANGED subdomainIndex

Expired(t) == t.ttl > 0 /\ now - t.hb > t.ttl

CleanExpired ==
  LET dead == {id \in DOMAIN tunnels : Expired(tunnels[id])}
  IN  /\ subdomainIndex' = Delete(subdomainIndex, {tunnels[id].sub : id \in dead})
      /\ tunnels' = Delete(tunnels, dead)

GetByID(id) == id \in DOMAIN tunnels

\* GetBySubdomain returns r.tunnels[id] without looking whether id is there:
\* when it is not, the caller gets a nil tunnel and a nil error.
GetBySubdomain(sub) ==
  LET id == subdomainIndex[sub]
  IN  IF id \in DOMAIN tunnels THEN tunnels[id] ELSE Nil
-----------------------------------------------------------------------------
Tick == now < MaxTime /\ now' = now + 1 /\ UNCHANGED registryVars

Next ==
  \/ Tick
  \/ UNCHANGED now /\ \/ \E t \in Submitted : Register(t)
                      \/ \E id \in ID : Unregister(id)
                      \/ \E id \in ID : UpdateHeartbeat(id)
                      \/ CleanExpired

vars == <<tunnels, subdomainIndex, now>>

Spec == Init /\ [][Next]_vars
-----------------------------------------------------------------------------
\* What callers must guarantee and the registry does not check: a tunnel ID
\* names one subdomain.
IDsDetermineSubdomains ==
  \A t, u \in Submitted : t.id = u.id => t.sub = u.sub

\* Both maps hold well-formed entries: the subdomain of a stored tunnel is
\* one that was asked for, and no heartbeat lies in the future.
TypeOK ==
  /\ now \in 0..MaxTime
  /\ DOMAIN tunnels \subseteq ID
  /\ \A id \in DOMAIN tunnels : tunnels[id] \in Tunnel /\ tunnels[id].hb <= now
  /\ DOMAIN subdomainIndex \subseteq Subdomain \ Reserved
  /\ \A sub \in DOMAIN subdomainIndex : subdomainIndex[sub] \in ID

\* The table and its index agree in both directions after any sequence of
\* Register, Unregister, UpdateHeartbeat and CleanExpired calls: an index
\* entry leads to a stored tunnel of that subdomain (GetBySubdomain never
\* returns a nil tunnel), and a stored tunnel is found through its subdomain.
IndexExact ==
  /\ \A sub \in DOMAIN subdomainIndex :
       LET id == subdomainIndex[sub]
       IN  id \in DOMAIN tunnels /\ tunnels[id].sub = sub
  /\ \A id \in DOMAIN tunnels :
       /\ tunnels[id].id = id
       /\ tunnels[id].sub \in DOMAIN subdomainIndex
       /\ subdomainIndex[tunnels[id].sub] = id

\* The registry implements a table of names in which a name is claimed only
\* when free, by a fresh tunnel, and is released together with its tunnel.
Names == INSTANCE NameTable WITH
           Name <- Subdomain, Claimant <- ID,
           holder <- subdomainIndex, active <- DOMAIN tunnels

\* Register, Unregister and CleanExpired are claims and releases of
\* NameTable, heartbeats and the clock are invisible to it: no sequence of
\* calls hands a held subdomain to a second tunnel or drops half an entry.
ImplementsNameTable == Names!Spec
=============================================================================
