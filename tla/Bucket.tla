------------------------------- MODULE Bucket -------------------------------
(***************************************************************************)
(* What the rate limiter promises: one token bucket per address that fills *)
(* at a constant rate up to Burst requests, in Full units of time, and is  *)
(* never lost or replaced.  Levels are in fractions 1/Full of a request.   *)
(***************************************************************************)
EXTENDS Integers

CONSTANTS IP, Burst, Full

VARIABLES
  level,   \* what is in each bucket
  served,  \* requests admitted so far
  now

vars == <<level, served, now>>

Capped(x) == IF x <= Burst * Full THEN x ELSE Burst * Full

Init ==
  /\ level = [ip \in IP |-> Burst * Full]
  /\ served = [ip \in IP |-> 0]
  /\ now = 0

Tick ==
  /\ now' = now + 1
  /\ level' = [ip \in IP |-> Capped(level[ip] + Burst)]
  /\ UNCHANGED served

Admit(ip) ==
  /\ level[ip] >= Full
  /\ level' = [level EXCEPT ![ip] = @ - Full]
  /\ served' = [served EXCEPT ![ip] = @ + 1]
  /\ UNCHANGED now

Next == Tick \/ \E ip \in IP : Admit(ip)

Spec == Init /\ [][Next]_vars
=============================================================================
