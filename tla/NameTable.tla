----------------------------- MODULE NameTable ------------------------------
(***************************************************************************)
(* What the tunnel registry promises: names are claimed by one claimant at *)
(* a time, a claimant holds one name, and a name comes back exactly when   *)
(* its claimant goes.                                                      *)
(***************************************************************************)
EXTENDS Maps

CONSTANTS Name, Claimant

VARIABLES
  holder,  \* name -> claimant, for the names in use
  active   \* the claimants that hold a name

Init == holder = EmptyMap /\ active = {}

Claim(n, c) ==
  /\ n \notin DOMAIN holder
  /\ c \notin active
  /\ holder' = Put(holder, n, c)
  /\ active' = active \cup {c}

Release(N) ==
  /\ holder' = Delete(holder, N)
  /\ active' = active \ {holder[n] : n \in N}

Next ==
  \/ \E n \in Name, c \in Claimant : Claim(n, c)
  \/ \E N \in SUBSET DOMAIN holder : Release(N)

Spec == Init /\ [][Next]_<<holder, active>>
=============================================================================
