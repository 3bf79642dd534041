------------------------------ MODULE FrontDoor -----------------------------
(***************************************************************************)
(* What a request with a token meets on its way in: Start wraps the whole  *)
(* mux in RateLimiter.Middleware (internal/server/server.go), and behind   *)
(* it /connect and the admin endpoints validate the token (module Auth).   *)
(* Limiter and store share nothing but the clock and the request.          *)
(***************************************************************************)
EXTENDS RateLimiter, FiniteSets

CONSTANTS Token, BadToken, OldToken, ScopeSets, TTLs

ASSUME FrontDoorAssumption ==
  /\ IsFiniteSet(Call)
  /\ BadToken \notin Token /\ OldToken \notin Token
  /\ TTLs \subseteq Int

VARIABLES
  tokens,
  call,
  from,     \* address each request came from
  tries     \* address -> tokens it has had looked at

AU == INSTANCE Auth

doorVars == <<visitors, gate, served, now, tokens, call, from, tries>>

Endpoint == {"connect", "admin"}

DoorInit ==
  /\ Init
  /\ AU!Init
  /\ from = [k \in Call |-> None]
  /\ tries = [ip \in IP |-> 0]

Arrive(k, ip) ==
  /\ call[k].pc = "idle"
  /\ FindVisitor(k, ip)
  /\ from' = [from EXCEPT ![k] = ip]
  /\ UNCHANGED <<tokens, call, tries>>

Enter(k, op) == Allow(k) /\ AU!Route(k, op) /\ UNCHANGED <<from, tries>>

TooMany(k) ==
  /\ Reject(k)
  /\ from' = [from EXCEPT ![k] = None]
  /\ UNCHANGED <<tokens, call, tries>>

Present(k, tok) ==
  /\ AU!CheckSignature(k, tok)
  /\ tries' = [tries EXCEPT ![from[k]] = @ + 1]
  /\ UNCHANGED <<limiterVars, from>>

Check(k) ==
  /\ AU!NoToken(k) \/ AU!Lookup(k) \/ AU!CheckRevoked(k) \/ AU!CheckExpiry(k)
  /\ UNCHANGED <<limiterVars, from, tries>>

Leave(k) ==
  /\ \/ \E scopes \in ScopeSets, ttl \in TTLs : AU!HandleCreateToken(k, scopes, ttl)
     \/ AU!HandleOther(k)
     \/ AU!Finish(k)
  /\ from' = [from EXCEPT ![k] = None]
  /\ UNCHANGED <<limiterVars, tries>>

Owner == AU!Owner /\ UNCHANGED <<limiterVars, from, tries>>

Upkeep == (CleanupLoop \/ Tick) /\ UNCHANGED <<tokens, call, from, tries>>

DoorNext ==
  \/ \E k \in Call : \/ \E ip \in IP : Arrive(k, ip)
                     \/ \E op \in Endpoint : Enter(k, op)
                     \/ TooMany(k)
                     \/ \E tok \in Token \cup {BadToken, OldToken} : Present(k, tok)
                     \/ Check(k)
                     \/ Leave(k)
  \/ Owner
  \/ Upkeep

DoorSpec == DoorInit /\ [][DoorNext]_doorVars
-----------------------------------------------------------------------------
\* One address has tokens looked at no faster than its bucket fills, whatever
\* it sends: every ValidateToken is paid for by one request the limiter let in,
\* on /connect too, where handleConnect reads one register frame and no second.
TriesBounded == \A ip \in IP : Full * tries[ip] <= Capacity + Burst * now

\* Requests of ip that are let in and have shown no token yet.
Waiting(ip) == {k \in Call : call[k].pc = "routed" /\ from[k] = ip}

\* The inductive form of TriesBounded: each try, and each request that may still
\* make one, is one the limiter let through.
PaidFor ==
  /\ tries \in [IP -> Nat]
  /\ from \in [Call -> IP \cup {None}]
  /\ \A k \in Call : gate[k] # Outside => from[k] = gate[k].ip /\ call[k].pc = "idle"
  /\ \A k \in Call : call[k].pc = "routed" => from[k] \in IP
  /\ \A ip \in IP : tries[ip] + Cardinality(Waiting(ip)) <= served[ip]

\* Limiter and store are well-formed, and what a request has found under one
\* lock is still there when it goes on without it.
DoorTypeOK == LimiterTypeOK /\ AU!TypeOK

\* Whoever is let in held a live token when ValidateToken began, and whoever
\* held one and is refused has lost it since; see Auth.
VerdictsFair == AU!VerdictsFair

\* The inductive form of VerdictsFair.
VerdictInv == AU!VerdictInv
=============================================================================
