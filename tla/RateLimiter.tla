---------------------------- MODULE RateLimiter -----------------------------
(***************************************************************************)
(* internal/server/ratelimit.go: a token bucket per address, made on first *)
(* sight and thrown away when the address has not been seen for Idle.      *)
(* Allow finds the visitor under rl.mu and draws from its bucket after     *)
(* rl.mu is unlocked, so other calls and cleanupLoop may come in between.  *)
(*                                                                         *)
(* The code's Full is 60 s, the time in which burst / rps refills, and its *)
(* Idle 10 minutes.  The bucket itself is golang.org/x/time/rate.          *)
(***************************************************************************)
EXTENDS Integers, Maps

CONSTANTS
  IP,        \* remote addresses
  Call,      \* calls of Allow that may overlap
  Burst,     \* requestsPerMin
  Full,      \* time an empty bucket takes to fill
  Idle,      \* time after which an unseen visitor is stale
  MaxStall,  \* bound: time a call takes from rl.mu to its bucket
  MaxTime,   \* bound on the clock
  None       \* no value

ASSUME RateLimiterAssumption ==
  /\ Burst \in Nat /\ Full \in Nat \ {0} /\ Idle \in Nat
  /\ MaxStall \in Nat /\ MaxTime \in Nat
  /\ MaxStall + Full <= Idle
  /\ None \notin IP

VARIABLES
  visitors,  \* address -> credit and the time it was current, lastSeen
  gate,      \* each call: the address whose visitor it has found, and when
  served,    \* requests let through so far
  now

limiterVars == <<visitors, gate, served, now>>

Outside == [ip |-> None, at |-> 0]

Init ==
  /\ visitors = EmptyMap
  /\ gate = [k \in Call |-> Outside]
  /\ served = [ip \in IP |-> 0]
  /\ now = 0

Capacity == Burst * Full

\* What limiter v holds now; a request costs Full.
Tokens(v) ==
  LET x == v.credit + Burst * (now - v.last)
  IN  IF x <= Capacity THEN x ELSE Capacity

NewVisitor == [credit |-> Capacity, last |-> now, seen |-> now]

\* Bug variant: every request gets a new visitor.
FindVisitor_Fresh(k, ip) ==
  /\ gate[k] = Outside
  /\ visitors' = Put(visitors, ip, NewVisitor)
  /\ gate' = [gate EXCEPT ![k] = [ip |-> ip, at |-> now]]
  /\ UNCHANGED <<served, now>>

\* The part of Allow under rl.mu.
FindVisitor(k, ip) ==
  /\ gate[k] = Outside
  /\ visitors' = Put(visitors, ip, IF ip \in DOMAIN visitors
                                   THEN [visitors[ip] EXCEPT !.seen = now]
                                   ELSE NewVisitor)
  /\ gate' = [gate EXCEPT ![k] = [ip |-> ip, at |-> now]]
  /\ UNCHANGED <<served, now>>

\* limiter.Allow lets the request through ...
Allow(k) ==
  LET ip == gate[k].ip
      v == visitors[ip]
  IN  /\ gate[k] # Outside
      /\ Tokens(v) >= Full
      /\ visitors' = [visitors EXCEPT ![ip] = [@ EXCEPT !.credit = Tokens(v) - Full,
                                                        !.last = now]]
      /\ served' = [served EXCEPT ![ip] = @ + 1]
      /\ gate' = [gate EXCEPT ![k] = Outside]
      /\ UNCHANGED now

\* Bug variant: a rejected request empties the bucket.
Reject_Charges(k) ==
  /\ gate[k] # Outside
  /\ Tokens(visitors[gate[k].ip]) < Full
  /\ visitors' = [visitors EXCEPT ![gate[k].ip] = [@ EXCEPT !.credit = 0, !.last = now]]
  /\ gate' = [gate EXCEPT ![k] = Outside]
  /\ UNCHANGED <<served, now>>

\* ... or not: 429.
Reject(k) ==
  /\ gate[k] # Outside
  /\ Tokens(visitors[gate[k].ip]) < Full
  /\ gate' = [gate EXCEPT ![k] = Outside]
  /\ UNCHANGED <<visitors, served, now>>

\* Bug variant: visitors are stale as soon as they are not seen for a moment.
CleanupLoop_TooSoon ==
  /\ visitors' = Delete(visitors, {ip \in DOMAIN visitors : now - visitors[ip].seen >= 1})
  /\ UNCHANGED <<gate, served, now>>

CleanupLoop ==
  /\ visitors' = Delete(visitors, {ip \in DOMAIN visitors : now - visitors[ip].seen > Idle})
  /\ UNCHANGED <<gate, served, now>>

Tick ==
  /\ now < MaxTime
  /\ \A k \in Call : gate[k] = Outside \/ now - gate[k].at < MaxStall
  /\ now' = now + 1
  /\ UNCHANGED <<visitors, gate, served>>

Next ==
  \/ \E k \in Call : (\E ip \in IP : FindVisitor(k, ip)) \/ Allow(k) \/ Reject(k)
  \/ CleanupLoop \/ Tick

Spec == Init /\ [][Next]_limiterVars
-----------------------------------------------------------------------------
Visitor == [credit : Nat, last : Nat, seen : Nat]

\* Every variable has its type, no time is in the future, a bucket was drawn
\* from no later than MaxStall after its visitor was seen, and a call in flight
\* finds its visitor still in the table: cleanupLoop cannot overtake it.
LimiterTypeOK ==
  /\ now \in Nat
  /\ served \in [IP -> Nat]
  /\ DOMAIN visitors \subseteq IP
  /\ \A ip \in DOMAIN visitors :
       /\ visitors[ip] \in Visitor
       /\ visitors[ip].credit <= Capacity /\ visitors[ip].last <= now /\ visitors[ip].seen <= now
       /\ visitors[ip].last <= visitors[ip].seen + MaxStall
  /\ gate \in [Call -> [ip : IP \cup {None}, at : Nat]]
  /\ \A k \in Call : gate[k] # Outside =>
       /\ gate[k].ip \in DOMAIN visitors
       /\ gate[k].at <= visitors[gate[k].ip].seen
       /\ now - gate[k].at <= MaxStall

Level(ip) == IF ip \in DOMAIN visitors THEN Tokens(visitors[ip]) ELSE Capacity

Buckets == INSTANCE Bucket WITH level <- [ip \in IP |-> Level(ip)]

\* The limiter behaves as if every address had one bucket for ever: forgetting
\* a stale visitor never gives it more than it would have had, and calls that
\* overlap never draw the same token twice.
ImplementsBucket == Buckets!Spec

\* What an address has been let through plus what it may still draw grows no
\* faster than time passes.  Hence in any window of t it gets at most
\* Burst + t * Burst / Full requests: up to twice requestsPerMin in the first
\* minute, requestsPerMin in every further one.
CreditNeverGrows ==
  [][\A ip \in IP :
       Full * served'[ip] + Level(ip)' - Burst * now'
         <= Full * served[ip] + Level(ip) - Burst * now]_limiterVars
=============================================================================
