-------------------------- MODULE FrontDoorProofs ---------------------------
(***************************************************************************)
(* Theorems about the rate limiter, for every number of addresses and of   *)
(* calls, and about FrontDoor, which runs it before the token store.       *)
(***************************************************************************)
EXTENDS FrontDoor, TLAPS
-----------------------------------------------------------------------------
(* The limiter alone *)

\* The capacity of a bucket is a number, and what it gains in a time is too.
LEMMA Amounts ==
  /\ Capacity \in Nat
  /\ \A t \in Nat : Burst * t \in Nat /\ Burst * (t + 1) = Burst * t + Burst
  /\ \A t \in Nat : t >= Full => Burst * t >= Capacity
<1>1. Capacity \in Nat
  BY RateLimiterAssumption DEF Capacity
<1>2. ASSUME NEW t \in Nat PROVE Burst * t \in Nat /\ Burst * (t + 1) = Burst * t + Burst
  BY RateLimiterAssumption
<1>3. ASSUME NEW t \in Nat, t >= Full PROVE Burst * t >= Capacity
  <2>1. PICK d \in Nat : t = Full + d
    BY <1>3, RateLimiterAssumption, t - Full \in Nat
  <2>2. Burst * t = Burst * Full + Burst * d /\ Burst * d \in Nat
    BY <2>1, RateLimiterAssumption
  <2> QED BY <2>2, RateLimiterAssumption DEF Capacity
<1> QED BY <1>1, <1>2, <1>3

\* What a limiter holds lies between nothing and its capacity.
LEMMA TokensRange ==
  ASSUME LimiterTypeOK, NEW ip \in DOMAIN visitors
  PROVE  /\ Tokens(visitors[ip]) \in Nat
         /\ Tokens(visitors[ip]) <= Capacity
<1> DEFINE v == visitors[ip]
<1>1. v.credit \in Nat /\ now - v.last \in Nat
  BY DEF LimiterTypeOK, Visitor
<1>2. v.credit + Burst * (now - v.last) \in Nat
  BY <1>1, Amounts
<1> QED BY <1>2, Amounts DEF Tokens

\* ... and so does what an address may draw.
LEMMA LevelRange ==
  ASSUME LimiterTypeOK, NEW ip \in IP
  PROVE  Level(ip) \in Nat /\ Level(ip) <= Capacity
BY TokensRange, Amounts DEF Level
-----------------------------------------------------------------------------
\* The limiter starts well-typed.
LEMMA InitTypeOK == Init => LimiterTypeOK
BY RateLimiterAssumption DEF Init, LimiterTypeOK, EmptyMap, Outside

\* A call that finds its visitor, or makes it, under rl.mu.
LEMMA FindVisitorTypeOK ==
  ASSUME LimiterTypeOK, NEW k \in Call, NEW ip \in IP, FindVisitor(k, ip)
  PROVE  LimiterTypeOK'
<1> USE DEF FindVisitor
<1>1. now' = now /\ now' \in Nat /\ served' \in [IP -> Nat]
  BY DEF LimiterTypeOK
<1>2. DOMAIN visitors' = DOMAIN visitors \cup {ip}
  BY DEF Put
<1>3. ASSUME NEW x \in DOMAIN visitors, x # ip PROVE visitors'[x] = visitors[x]
  BY <1>3 DEF Put
<1>4. /\ visitors'[ip] \in Visitor /\ visitors'[ip].seen = now
      /\ visitors'[ip].credit <= Capacity /\ visitors'[ip].last <= now
  <2>1. CASE ip \in DOMAIN visitors
    BY <2>1 DEF Put, LimiterTypeOK, Visitor
  <2>2. CASE ip \notin DOMAIN visitors
    <3>1. visitors'[ip] = NewVisitor
      BY <2>2 DEF Put
    <3> QED BY <3>1, Amounts DEF NewVisitor, Visitor, LimiterTypeOK
  <2> QED BY <2>1, <2>2
<1>5. \A x \in DOMAIN visitors' :
        /\ visitors'[x] \in Visitor
        /\ visitors'[x].credit <= Capacity /\ visitors'[x].last <= now' /\ visitors'[x].seen <= now'
        /\ visitors'[x].last <= visitors'[x].seen + MaxStall
  BY <1>1, <1>2, <1>3, <1>4, RateLimiterAssumption DEF LimiterTypeOK, Visitor
<1>6. gate' \in [Call -> [ip : IP \cup {None}, at : Nat]]
  BY DEF LimiterTypeOK
<1>7. ASSUME NEW j \in Call, gate'[j] # Outside
      PROVE  /\ gate'[j].ip \in DOMAIN visitors'
             /\ gate'[j].at <= visitors'[gate'[j].ip].seen
             /\ now' - gate'[j].at <= MaxStall
  <2>1. CASE j = k
    BY <2>1, <1>1, <1>2, <1>4, RateLimiterAssumption DEF LimiterTypeOK
  <2>2. CASE j # k
    <3>1. gate'[j] = gate[j]
      BY <2>2 DEF LimiterTypeOK
    <3>2. /\ gate[j].ip \in DOMAIN visitors /\ gate[j].at \in Nat
          /\ gate[j].at <= visitors[gate[j].ip].seen /\ visitors[gate[j].ip].seen <= now
          /\ visitors[gate[j].ip].seen \in Nat
          /\ now - gate[j].at <= MaxStall
      BY <3>1, <1>7 DEF LimiterTypeOK, Visitor
    <3>3. gate[j].at <= visitors'[gate[j].ip].seen
      BY <3>2, <1>1, <1>3, <1>4
    <3> QED BY <3>1, <3>2, <3>3, <1>1, <1>2
  <2> QED BY <2>1, <2>2
<1>8. DOMAIN visitors' \subseteq IP
  BY <1>2 DEF LimiterTypeOK
<1> QED BY <1>1, <1>5, <1>6, <1>7, <1>8, Zenon DEF LimiterTypeOK, Capacity

\* A call that draws from its bucket.
LEMMA AllowTypeOK ==
  ASSUME LimiterTypeOK, NEW k \in Call, Allow(k)
  PROVE  LimiterTypeOK'
<1> DEFINE ip == gate[k].ip
           left == Tokens(visitors[ip]) - Full
<1>0. /\ ip \in DOMAIN visitors /\ ip \in IP /\ visitors[ip] \in Visitor
      /\ gate[k].at \in Nat /\ gate[k].at <= visitors[ip].seen /\ visitors[ip].seen <= now
      /\ now - gate[k].at <= MaxStall /\ now \in Nat
  BY DEF Allow, LimiterTypeOK
<1>1. left \in Nat /\ left <= Capacity
  BY <1>0, TokensRange, RateLimiterAssumption, Amounts DEF Allow
<1>2. visitors' = [visitors EXCEPT ![ip] = [@ EXCEPT !.credit = left, !.last = now]]
  BY DEF Allow
<1>3. /\ DOMAIN visitors' = DOMAIN visitors
      /\ \A x \in DOMAIN visitors \ {ip} : visitors'[x] = visitors[x]
      /\ visitors'[ip] = [visitors[ip] EXCEPT !.credit = left, !.last = now]
  BY <1>0, <1>2
<1> HIDE DEF left
<1>4. /\ visitors'[ip] \in Visitor /\ visitors'[ip].credit = left
      /\ visitors'[ip].last = now /\ visitors'[ip].seen = visitors[ip].seen
  BY <1>0, <1>1, <1>3, Zenon DEF Visitor
<1>5. now <= visitors[ip].seen + MaxStall
  BY <1>0, RateLimiterAssumption DEF Visitor
<1>6. now' = now /\ served' \in [IP -> Nat] /\ gate' \in [Call -> [ip : IP \cup {None}, at : Nat]]
  BY <1>0 DEF Allow, LimiterTypeOK, Outside
<1>7. \A x \in DOMAIN visitors' :
        /\ visitors'[x] \in Visitor
        /\ visitors'[x].credit <= Capacity /\ visitors'[x].last <= now' /\ visitors'[x].seen <= now'
        /\ visitors'[x].last <= visitors'[x].seen + MaxStall
  <2> SUFFICES ASSUME NEW x \in DOMAIN visitors'
               PROVE  /\ visitors'[x] \in Visitor
                      /\ visitors'[x].credit <= Capacity
                      /\ visitors'[x].last <= now /\ visitors'[x].seen <= now
                      /\ visitors'[x].last <= visitors'[x].seen + MaxStall
    BY <1>6
  <2>1. CASE x = ip
    BY <2>1, <1>0, <1>1, <1>4, <1>5
  <2>2. CASE x # ip
    BY <2>2, <1>3 DEF LimiterTypeOK
  <2> QED BY <2>1, <2>2
<1>8. \A x \in DOMAIN visitors : visitors'[x].seen = visitors[x].seen
  BY <1>3, <1>4, Zenon
<1>9. \A j \in Call : gate'[j] # Outside => gate'[j] = gate[j]
  BY DEF Allow, LimiterTypeOK
<1> QED BY <1>3, <1>6, <1>7, <1>8, <1>9 DEF LimiterTypeOK, Capacity

\* Stale visitors go; none that a call in flight has found is stale.
LEMMA CleanupTypeOK ==
  ASSUME LimiterTypeOK, CleanupLoop
  PROVE  LimiterTypeOK'
<1>1. /\ DOMAIN visitors' = DOMAIN visitors \ {ip \in DOMAIN visitors : now - visitors[ip].seen > Idle}
      /\ \A x \in DOMAIN visitors' : visitors'[x] = visitors[x]
  BY DEF CleanupLoop, Delete, Restrict
<1>2. ASSUME NEW j \in Call, gate[j] # Outside PROVE gate[j].ip \in DOMAIN visitors'
  <2>1. /\ gate[j].ip \in DOMAIN visitors /\ gate[j].at \in Nat /\ now \in Nat
        /\ gate[j].at <= visitors[gate[j].ip].seen /\ visitors[gate[j].ip].seen \in Nat
        /\ now - gate[j].at <= MaxStall
    BY <1>2 DEF LimiterTypeOK, Visitor
  <2>2. ~(now - visitors[gate[j].ip].seen > Idle)
    BY <2>1, RateLimiterAssumption
  <2> QED BY <1>1, <2>1, <2>2
<1> QED BY <1>1, <1>2, Zenon DEF LimiterTypeOK, CleanupLoop, Capacity

\* A call that is refused keeps the types.
LEMMA RejectTypeOK ==
  ASSUME LimiterTypeOK, NEW k \in Call, Reject(k)
  PROVE  LimiterTypeOK'
<1>1. visitors' = visitors /\ served' = served /\ now' = now
  BY DEF Reject
<1>2. gate' \in [Call -> [ip : IP \cup {None}, at : Nat]]
  BY DEF Reject, LimiterTypeOK, Outside
<1>3. \A j \in Call : gate'[j] # Outside => gate'[j] = gate[j]
  BY DEF Reject, LimiterTypeOK
<1> QED BY <1>1, <1>2, <1>3 DEF LimiterTypeOK, Capacity

\* So does the passing of time.
LEMMA TickTypeOK == LimiterTypeOK /\ Tick => LimiterTypeOK'
BY RateLimiterAssumption DEF LimiterTypeOK, Tick, Capacity, Visitor

\* Every step of the limiter keeps the invariant.
LEMMA NextTypeOK == LimiterTypeOK /\ [Next]_limiterVars => LimiterTypeOK'
<1> SUFFICES ASSUME LimiterTypeOK, [Next]_limiterVars PROVE LimiterTypeOK'
  OBVIOUS
<1>1. ASSUME NEW k \in Call, NEW ip \in IP, FindVisitor(k, ip) PROVE LimiterTypeOK'
  BY <1>1, FindVisitorTypeOK
<1>2. ASSUME NEW k \in Call, Allow(k) PROVE LimiterTypeOK'
  BY <1>2, AllowTypeOK
<1>3. ASSUME NEW k \in Call, Reject(k) PROVE LimiterTypeOK'
  BY <1>3, RejectTypeOK
<1>4. CASE CleanupLoop
  BY <1>4, CleanupTypeOK
<1>5. CASE Tick
  BY <1>5, TickTypeOK
<1>6. CASE UNCHANGED limiterVars
  BY <1>6 DEF limiterVars, LimiterTypeOK, Capacity
<1> QED BY <1>1, <1>2, <1>3, <1>4, <1>5, <1>6 DEF Next

\* A call that found its visitor under rl.mu still has it in the table when it
\* draws from the bucket, however cleanupLoop and other calls interleave.
THEOREM LimiterInvariant == Spec => []LimiterTypeOK
BY InitTypeOK, NextTypeOK, PTL DEF Spec
-----------------------------------------------------------------------------
Levels == [ip \in IP |-> Level(ip)]

\* Finding or making a visitor puts nothing into a bucket.
LEMMA FindVisitorLevels ==
  ASSUME LimiterTypeOK, NEW k \in Call, NEW ip \in IP, FindVisitor(k, ip)
  PROVE  UNCHANGED <<Levels, served, now>>
<1>1. now' = now /\ served' = served /\ DOMAIN visitors' = DOMAIN visitors \cup {ip}
  BY DEF FindVisitor, Put
<1>2. ASSUME NEW x \in IP PROVE Level(x)' = Level(x)
  <2>1. CASE x \in DOMAIN visitors
    <3>1. /\ x \in DOMAIN visitors'
          /\ visitors'[x].credit = visitors[x].credit
          /\ visitors'[x].last = visitors[x].last
      BY <2>1 DEF FindVisitor, Put, LimiterTypeOK, Visitor
    <3> QED BY <2>1, <3>1, <1>1 DEF Level, Tokens, Capacity
  <2>2. CASE x \notin DOMAIN visitors /\ x = ip
    <3>1. visitors'[ip] = NewVisitor /\ now - now = 0
      BY <2>2 DEF FindVisitor, Put, LimiterTypeOK
    <3>2. Burst * 0 = 0 /\ Capacity + 0 = Capacity /\ Capacity <= Capacity
      BY Amounts, RateLimiterAssumption
    <3>3. Tokens(visitors[ip])' = Capacity
      BY <3>1, <3>2, <1>1 DEF Tokens, NewVisitor, Capacity
    <3> QED BY <2>2, <3>3, <1>1 DEF Level
  <2>3. CASE x \notin DOMAIN visitors /\ x # ip
    BY <2>3, <1>1 DEF Level, Capacity
  <2> QED BY <2>1, <2>2, <2>3
<1> QED BY <1>1, <1>2 DEF Levels

\* A stale visitor's bucket is full again, so forgetting it changes nothing.
LEMMA CleanupLevels ==
  ASSUME LimiterTypeOK, CleanupLoop
  PROVE  UNCHANGED <<Levels, served, now>>
<1>1. /\ now' = now /\ served' = served
      /\ DOMAIN visitors' = DOMAIN visitors \ {ip \in DOMAIN visitors : now - visitors[ip].seen > Idle}
      /\ \A x \in DOMAIN visitors' : visitors'[x] = visitors[x]
  BY DEF CleanupLoop, Delete, Restrict
<1>2. ASSUME NEW x \in DOMAIN visitors, now - visitors[x].seen > Idle
      PROVE  Tokens(visitors[x]) = Capacity
  <2> DEFINE v == visitors[x]
  <2>1. /\ v.credit \in Nat /\ v.last \in Nat /\ v.seen \in Nat /\ now \in Nat
        /\ v.last <= v.seen + MaxStall /\ v.last <= now
    BY DEF LimiterTypeOK, Visitor
  <2>2. now - v.last \in Nat /\ now - v.last >= Full
    BY <1>2, <2>1, RateLimiterAssumption
  <2> DEFINE gain == Burst * (now - v.last)
  <2>3. gain \in Nat /\ gain >= Capacity
    BY <2>2, Amounts
  <2>4. Tokens(v) = IF v.credit + gain <= Capacity THEN v.credit + gain ELSE Capacity
    BY DEF Tokens
  <2>5. Capacity \in Nat
    BY Amounts
  <2> HIDE DEF gain
  <2>6. v.credit + gain >= Capacity
    BY <2>1, <2>3, <2>5
  <2> QED BY <2>1, <2>3, <2>4, <2>5, <2>6
<1>3. ASSUME NEW x \in IP PROVE Level(x)' = Level(x)
  <2>1. CASE x \in DOMAIN visitors'
    BY <2>1, <1>1 DEF Level, Tokens, Capacity
  <2>2. CASE x \notin DOMAIN visitors'
    BY <2>2, <1>1, <1>2 DEF Level, Capacity
  <2> QED BY <2>1, <2>2
<1> QED BY <1>1, <1>3 DEF Levels

\* A request let through takes its price from one bucket.
LEMMA AllowAdmits ==
  ASSUME LimiterTypeOK, NEW k \in Call, Allow(k), NEW ip \in IP, gate[k].ip = ip
  PROVE  Buckets!Admit(ip)
<1> DEFINE left == Tokens(visitors[ip]) - Full
<1>0. ip \in DOMAIN visitors /\ visitors[ip] \in Visitor /\ now \in Nat
  BY DEF Allow, LimiterTypeOK
<1>1. left \in Nat /\ left <= Capacity /\ Tokens(visitors[ip]) >= Full
  BY <1>0, TokensRange, RateLimiterAssumption, Amounts DEF Allow
<1>2. /\ DOMAIN visitors' = DOMAIN visitors
      /\ \A x \in DOMAIN visitors \ {ip} : visitors'[x] = visitors[x]
      /\ visitors'[ip] = [visitors[ip] EXCEPT !.credit = left, !.last = now]
      /\ now' = now /\ served' = [served EXCEPT ![ip] = @ + 1]
  BY <1>0 DEF Allow
<1> HIDE DEF left
<1>3. visitors'[ip].credit = left /\ visitors'[ip].last = now
  BY <1>0, <1>2 DEF Visitor
<1>4. left + Burst * (now - now) = left
  BY <1>0, <1>1, RateLimiterAssumption
<1>5. Tokens(visitors[ip])' = left
  BY <1>1, <1>2, <1>3, <1>4 DEF Tokens, Capacity
<1>6. Level(ip) = Tokens(visitors[ip]) /\ Level(ip)' = left
  BY <1>0, <1>2, <1>5 DEF Level
<1>7. \A x \in IP : x # ip => Level(x)' = Level(x)
  BY <1>2 DEF Level, Tokens, Capacity
<1>8. Levels' = [Levels EXCEPT ![ip] = @ - Full]
  BY <1>0, <1>6, <1>7, Zenon DEF Levels, left
<1> QED BY <1>0, <1>1, <1>2, <1>6, <1>8 DEF Buckets!Admit, Levels

\* When time passes every bucket fills, visitor or not.
LEMMA TickFills ==
  ASSUME LimiterTypeOK, Tick
  PROVE  Buckets!Tick
<1>1. now \in Nat /\ now' = now + 1 /\ visitors' = visitors /\ served' = served
  BY DEF Tick, LimiterTypeOK
<1>2. ASSUME NEW x \in IP PROVE Level(x)' = Buckets!Capped(Level(x) + Burst)
  <2>1. CASE x \in DOMAIN visitors
    <3> DEFINE v == visitors[x]
               gain == Burst * (now - v.last)
    <3>1. v.credit \in Nat /\ v.last \in Nat /\ now - v.last \in Nat
      BY <2>1 DEF LimiterTypeOK, Visitor
    <3>2. gain \in Nat /\ Burst * ((now + 1) - v.last) = gain + Burst
      <4>1. (now + 1) - v.last = (now - v.last) + 1
        BY <1>1, <3>1
      <4> QED BY <4>1, <3>1, Amounts
    <3>3. Level(x) = IF v.credit + gain <= Capacity THEN v.credit + gain ELSE Capacity
      BY <2>1 DEF Level, Tokens
    <3>4. Level(x)' = IF v.credit + (gain + Burst) <= Capacity
                      THEN v.credit + (gain + Burst) ELSE Capacity
      BY <2>1, <1>1, <3>2 DEF Level, Tokens, Capacity
    <3> HIDE DEF gain
    <3> QED BY <3>1, <3>2, <3>3, <3>4, Amounts, RateLimiterAssumption, Capacity = Burst * Full
            DEF Buckets!Capped, Capacity
  <2>2. CASE x \notin DOMAIN visitors
    <3>1. Level(x) = Capacity /\ Level(x)' = Capacity
      BY <2>2, <1>1 DEF Level, Capacity
    <3> QED BY <3>1, Amounts, RateLimiterAssumption DEF Buckets!Capped, Capacity
  <2> QED BY <2>1, <2>2
<1> QED BY <1>1, <1>2 DEF Buckets!Tick

\* Every step of the limiter is a step of the buckets, or none.
LEMMA StepRefines ==
  ASSUME LimiterTypeOK, [Next]_limiterVars
  PROVE  [Buckets!Next]_(Buckets!vars)
<1>1. ASSUME NEW k \in Call, NEW ip \in IP, FindVisitor(k, ip) PROVE UNCHANGED Buckets!vars
  BY <1>1, FindVisitorLevels DEF Buckets!vars, Levels
<1>2. ASSUME NEW k \in Call, Allow(k) PROVE Buckets!Next
  <2>1. PICK ip \in IP : gate[k].ip = ip
    BY <1>2 DEF Allow, LimiterTypeOK
  <2> QED BY <2>1, <1>2, AllowAdmits DEF Buckets!Next
<1>3. ASSUME NEW k \in Call, Reject(k) PROVE UNCHANGED Buckets!vars
  BY <1>3 DEF Reject, Buckets!vars, Level, Tokens, Capacity
<1>4. CASE CleanupLoop
  BY <1>4, CleanupLevels DEF Buckets!vars, Levels
<1>5. CASE Tick
  BY <1>5, TickFills DEF Buckets!Next
<1>6. CASE UNCHANGED limiterVars
  BY <1>6 DEF limiterVars, Buckets!vars, Level, Tokens, Capacity
<1> QED BY <1>1, <1>2, <1>3, <1>4, <1>5, <1>6 DEF Next

\* The table of visitors, made on demand and thrown away when stale, and the
\* Allow that unlocks it half way, implement one bucket per address for ever.
THEOREM LimiterRefinesBucket == Spec => ImplementsBucket
<1>1. Init => Buckets!Init
  <2> SUFFICES ASSUME Init PROVE Buckets!Init
    OBVIOUS
  <2>1. \A ip \in IP : Level(ip) = Burst * Full
    BY DEF Init, EmptyMap, Level, Capacity
  <2> QED BY <2>1 DEF Init, Buckets!Init
<1>2. LimiterTypeOK /\ [Next]_limiterVars => [Buckets!Next]_(Buckets!vars)
  BY StepRefines
<1> QED BY <1>1, <1>2, LimiterInvariant, PTL DEF Spec, ImplementsBucket, Buckets!Spec

\* What an address has got plus what it may still draw.
Claim(ip) == Full * served[ip] + Level(ip) - Burst * now

\* No step of the limiter gives an address more than time has earned it.
LEMMA StepCredit ==
  ASSUME LimiterTypeOK, LimiterTypeOK', [Next]_limiterVars, NEW x \in IP
  PROVE  Claim(x)' <= Claim(x)
<1> DEFINE lv == [y \in IP |-> Level(y)]
<1>0. /\ lv[x] \in Nat /\ lv[x] <= Capacity /\ lv[x] = Level(x) /\ lv'[x] = Level(x)'
      /\ served[x] \in Nat /\ now \in Nat /\ Full \in Nat /\ Burst \in Nat
  BY LevelRange, RateLimiterAssumption DEF LimiterTypeOK
<1>1. CASE UNCHANGED Buckets!vars
  <2>1. lv'[x] = lv[x] /\ served' = served /\ now' = now
    BY <1>1 DEF Buckets!vars
  <2> QED BY <2>1, <1>0 DEF Claim
<1>2. CASE Buckets!Tick
  <2>1. now' = now + 1 /\ served' = served /\ lv'[x] = Buckets!Capped(lv[x] + Burst)
    BY <1>2 DEF Buckets!Tick
  <2>2. lv'[x] \in Nat /\ lv'[x] <= lv[x] + Burst
    BY <2>1, <1>0, Amounts DEF Buckets!Capped, Capacity
  <2>3. Burst * now' = Burst * now + Burst /\ Burst * now \in Nat /\ Full * served[x] \in Nat
    BY <2>1, <1>0, Amounts
  <2> QED BY <2>1, <2>2, <2>3, <1>0 DEF Claim
<1>3. ASSUME NEW ip \in IP, Buckets!Admit(ip) PROVE Claim(x)' <= Claim(x)
  <2>1. now' = now
    BY <1>3 DEF Buckets!Admit
  <2>2. CASE x = ip
    <3>1. served'[x] = served[x] + 1 /\ lv'[x] = lv[x] - Full
      BY <1>3, <2>2, <1>0 DEF Buckets!Admit, LimiterTypeOK
    <3>2. Full * (served[x] + 1) = Full * served[x] + Full /\ Full * served[x] \in Nat
      BY <1>0
    <3> QED BY <2>1, <3>1, <3>2, <1>0, Amounts DEF Claim
  <2>3. CASE x # ip
    <3>1. served'[x] = served[x] /\ lv'[x] = lv[x]
      BY <1>3, <2>3, <1>0, Zenon DEF Buckets!Admit, LimiterTypeOK
    <3> QED BY <2>1, <3>1, <1>0, Amounts DEF Claim
  <2> QED BY <2>2, <2>3
<1> QED BY StepRefines, <1>1, <1>2, <1>3 DEF Buckets!Next

\* In any window of time an address is let through at most a full bucket of
\* requests plus what the window earns it.
THEOREM LimiterCredit == Spec => CreditNeverGrows
<1>1. LimiterTypeOK /\ LimiterTypeOK' /\ [Next]_limiterVars =>
        [\A ip \in IP : Full * served'[ip] + Level(ip)' - Burst * now'
                          <= Full * served[ip] + Level(ip) - Burst * now]_limiterVars
  BY StepCredit DEF Claim
<1> QED BY <1>1, LimiterInvariant, PTL DEF Spec, CreditNeverGrows
-----------------------------------------------------------------------------
(* Limiter and token store together *)

\* Behind the door the limiter does what it does alone.
LEMMA DoorStepIsLimiterStep == [DoorNext]_doorVars => [Next]_limiterVars
<1> SUFFICES ASSUME [DoorNext]_doorVars PROVE [Next]_limiterVars
  OBVIOUS
<1>1. ASSUME NEW k \in Call, NEW ip \in IP, Arrive(k, ip) PROVE Next
  BY <1>1 DEF Arrive, Next
<1>2. ASSUME NEW k \in Call, NEW op \in Endpoint, Enter(k, op) PROVE Next
  BY <1>2 DEF Enter, Next
<1>3. ASSUME NEW k \in Call, TooMany(k) PROVE Next
  BY <1>3 DEF TooMany, Next
<1>4. ASSUME NEW k \in Call, NEW tok, Present(k, tok) PROVE UNCHANGED limiterVars
  BY <1>4 DEF Present
<1>5. ASSUME NEW k \in Call, Check(k) \/ Leave(k) PROVE UNCHANGED limiterVars
  BY <1>5 DEF Check, Leave
<1>6. CASE Owner
  BY <1>6 DEF Owner
<1>7. CASE Upkeep
  BY <1>7 DEF Upkeep, Next
<1>8. CASE UNCHANGED doorVars
  BY <1>8 DEF doorVars, limiterVars
<1> QED BY <1>1, <1>2, <1>3, <1>4, <1>5, <1>6, <1>7, <1>8 DEF DoorNext

\* The door implements the limiter: nothing the endpoints do interferes.
THEOREM DoorImplementsLimiter == DoorSpec => Spec
BY DoorStepIsLimiterStep, PTL DEF DoorSpec, DoorInit, Spec

\* Hence what holds of the limiter holds at the door: one bucket per address.
THEOREM DoorKeepsBuckets == DoorSpec => ImplementsBucket
BY DoorImplementsLimiter, LimiterRefinesBucket, PTL

\* ... which never gives more than time has earned.
THEOREM DoorKeepsCredit == DoorSpec => CreditNeverGrows
BY DoorImplementsLimiter, LimiterCredit, PTL
-----------------------------------------------------------------------------
\* The store only grows, revocations stay, and time does not go back.
Onward ==
  /\ now \in Nat /\ now' \in Nat /\ now <= now'
  /\ DOMAIN tokens \subseteq DOMAIN tokens' /\ DOMAIN tokens' \subseteq Token
  /\ \A tok \in DOMAIN tokens' :
       tokens'[tok] \in [scopes : SUBSET AU!ValidScopes, expires : Int, revoked : BOOLEAN]
  /\ \A tok \in DOMAIN tokens :
       /\ tokens'[tok].scopes = tokens[tok].scopes
       /\ tokens'[tok].expires = tokens[tok].expires
       /\ tokens[tok].revoked => tokens'[tok].revoked

CallRecord(tok) == [pc : AU!Step, op : {"connect", "admin", None}, tok : tok, live : BOOLEAN]

Found(k) ==
  call[k].pc \in {"revoked?", "expired?", "handler", "accepted", "forbidden"} =>
    call[k].tok \in DOMAIN tokens

CallOK(k) == call[k] \in CallRecord(AU!AnyToken) /\ Found(k) /\ AU!Fair(k) /\ AU!Midway(k)

\* A token that is dead stays dead.
LEMMA DeadStaysDead ==
  ASSUME Onward, AU!TypeOK, NEW tok \in DOMAIN tokens \cup {OldToken}, ~AU!Live(tok)
  PROVE  ~AU!Live(tok)'
BY FrontDoorAssumption DEF Onward, AU!TypeOK, AU!Live

\* What the others do leaves a call's own knowledge true.
LEMMA OthersStayOK ==
  ASSUME Onward, AU!TypeOK, NEW j \in Call, CallOK(j), call'[j] = call[j]
  PROVE  CallOK(j)'
<1>1. call[j].tok \in AU!AnyToken /\ call[j].live \in BOOLEAN
  BY DEF CallOK, CallRecord
<1>2. CallRecord(AU!AnyToken)' = CallRecord(AU!AnyToken')
  BY DEF CallRecord, AU!Step
<1>3. AU!AnyToken \subseteq AU!AnyToken'
  BY DEF Onward, AU!AnyToken
<1>4. (call[j] \in CallRecord(AU!AnyToken) /\ Found(j))'
  BY <1>2, <1>3 DEF CallOK, CallRecord, Found, Onward, AU!Step
<1>5. AU!Fair(j)'
  <2>1. call[j].live => call[j].tok \in DOMAIN tokens
    BY DEF CallOK, AU!Midway
  <2>2. call[j].pc = "refused" /\ call[j].live => ~AU!Live(call[j].tok)'
    BY <2>1, DeadStaysDead DEF CallOK, AU!Fair, AU!Live, Onward, AU!TypeOK
  <2>3. call[j].pc = "handler" => "admin" \in tokens'[call[j].tok].scopes
    BY DEF CallOK, AU!Fair, Onward, Found
  <2> QED BY <2>2, <2>3 DEF CallOK, AU!Fair, AU!Live
<1>6. AU!Midway(j)'
  BY FrontDoorAssumption DEF CallOK, AU!Midway, AU!Live, Onward, AU!TypeOK, Found
<1> QED BY <1>4, <1>5, <1>6 DEF CallOK

\* The verdict invariant, call by call.
LEMMA CallsAreOK ==
  ASSUME now \in Nat
  PROVE  VerdictInv <=> /\ DOMAIN tokens \subseteq Token
                        /\ \A tok \in DOMAIN tokens :
                             tokens[tok] \in [scopes : SUBSET AU!ValidScopes, expires : Int,
                                              revoked : BOOLEAN]
                        /\ call = [k \in Call |-> call[k]]
                        /\ \A k \in Call : CallOK(k)
BY DEF VerdictInv, AU!VerdictInv, AU!TypeOK, CallOK, CallRecord, Found

\* A step of call k: the store and the clock go onward, the others stay as
\* they are, and k is in order afterwards.
LEMMA CallStep ==
  ASSUME VerdictInv, Onward, NEW k \in Call, NEW rec, call' = [call EXCEPT ![k] = rec],
         call'[k] = rec => CallOK(k)'
  PROVE  VerdictInv'
<1>1. call = [j \in Call |-> call[j]] /\ \A j \in Call : CallOK(j)
  BY CallsAreOK DEF Onward
<1>2. call'[k] = rec /\ \A j \in Call \ {k} : call'[j] = call[j]
  BY <1>1
<1>3. \A j \in Call : CallOK(j)'
  BY <1>1, <1>2, OthersStayOK DEF VerdictInv, AU!VerdictInv
<1>4. call' = [j \in Call |-> call'[j]]
  BY <1>1
<1>5. now' \in Nat
  BY DEF Onward
<1> QED BY <1>3, <1>4, <1>5, CallsAreOK DEF Onward, VerdictInv, AU!VerdictInv, AU!TypeOK, CallOK, CallRecord, Found

\* With no token touched and time standing still, no verdict changes.
LEMMA StillOnward ==
  ASSUME VerdictInv, now \in Nat, tokens' = tokens, now' = now
  PROVE  Onward
BY DEF Onward, VerdictInv, AU!VerdictInv, AU!TypeOK

\* A token created or revoked, with time standing still.
LEMMA CreateOnward ==
  ASSUME VerdictInv, now \in Nat, now' = now, NEW scopes, NEW ttl \in TTLs,
         AU!CreateToken(scopes, ttl)
  PROVE  Onward
<1>1. PICK tok \in Token \ DOMAIN tokens :
        tokens' = Put(tokens, tok, [scopes |-> scopes, expires |-> now + ttl, revoked |-> FALSE])
  BY DEF AU!CreateToken, AU!Put, Put
<1>2. ttl \in Int /\ scopes \subseteq AU!ValidScopes
  BY FrontDoorAssumption DEF AU!CreateToken
<1> QED BY <1>1, <1>2 DEF Onward, Put, VerdictInv, AU!VerdictInv, AU!TypeOK

\* Revoking takes scopes away and gives none.
LEMMA RevokeOnward ==
  ASSUME VerdictInv, now \in Nat, now' = now, NEW tok, AU!RevokeToken(tok)
  PROVE  Onward
<1>1. /\ tok \in DOMAIN tokens /\ DOMAIN tokens' = DOMAIN tokens
      /\ \A x \in DOMAIN tokens \ {tok} : tokens'[x] = tokens[x]
      /\ tokens'[tok] = [tokens[tok] EXCEPT !.revoked = TRUE]
  BY DEF AU!RevokeToken
<1>2. /\ DOMAIN tokens \subseteq Token
      /\ \A x \in DOMAIN tokens :
           tokens[x] \in [scopes : SUBSET AU!ValidScopes, expires : Int, revoked : BOOLEAN]
  BY DEF VerdictInv, AU!VerdictInv, AU!TypeOK
<1>3. /\ tokens'[tok] \in [scopes : SUBSET AU!ValidScopes, expires : Int, revoked : BOOLEAN]
      /\ tokens'[tok].scopes = tokens[tok].scopes
      /\ tokens'[tok].expires = tokens[tok].expires
      /\ tokens'[tok].revoked
  BY <1>1, <1>2, Zenon
<1>4. ASSUME NEW x \in DOMAIN tokens
      PROVE  /\ tokens'[x] \in [scopes : SUBSET AU!ValidScopes, expires : Int, revoked : BOOLEAN]
             /\ tokens'[x].scopes = tokens[x].scopes
             /\ tokens'[x].expires = tokens[x].expires
             /\ tokens[x].revoked => tokens'[x].revoked
  <2>1. CASE x = tok
    BY <2>1, <1>3
  <2>2. CASE x # tok
    BY <2>2, <1>1, <1>2
  <2> QED BY <2>1, <2>2
<1> QED BY <1>1, <1>2, <1>4 DEF Onward

\* No call moves while the store or the clock goes onward.
LEMMA CallsStay ==
  ASSUME VerdictInv, Onward, call' = call
  PROVE  VerdictInv'
<1>1. call = [j \in Call |-> call[j]] /\ \A j \in Call : CallOK(j)
  BY CallsAreOK DEF Onward
<1>2. \A j \in Call : CallOK(j)'
  BY <1>1, OthersStayOK DEF VerdictInv, AU!VerdictInv
<1>3. now' \in Nat
  BY DEF Onward
<1> QED BY <1>1, <1>2, <1>3, CallsAreOK DEF Onward, VerdictInv, AU!VerdictInv, AU!TypeOK, CallOK, CallRecord, Found

\* A request reaches its endpoint.
LEMMA RouteKeeps ==
  ASSUME VerdictInv, now \in Nat, now' = now, NEW k \in Call, NEW op \in Endpoint, AU!Route(k, op)
  PROVE  VerdictInv'
<1> DEFINE rec == [AU!NoCall EXCEPT !.pc = "routed", !.op = op]
<1>1. call' = [call EXCEPT ![k] = rec] /\ tokens' = tokens
  BY DEF AU!Route
<1>2. AU!NoCall \in CallRecord(AU!AnyToken) /\ ~AU!NoCall.live
  BY DEF AU!NoCall, CallRecord, AU!Step, AU!AnyToken
<1>3. rec \in CallRecord(AU!AnyToken) /\ rec.pc = "routed" /\ ~rec.live
  BY <1>2, Zenon DEF CallRecord, AU!Step, Endpoint
<1> HIDE DEF rec
<1>4. call'[k] = rec => CallOK(k)'
  BY <1>1, <1>3 DEF CallOK, CallRecord, Found, AU!Fair, AU!Midway, AU!AnyToken
<1> QED BY <1>1, <1>4, CallStep, StillOnward, Zenon

\* ValidateToken begins.
LEMMA SignatureKeeps ==
  ASSUME VerdictInv, now \in Nat, now' = now, NEW k \in Call, NEW tok, AU!CheckSignature(k, tok)
  PROVE  VerdictInv'
<1> DEFINE rec == [call[k] EXCEPT !.pc = IF tok = BadToken THEN "refused" ELSE "lookup",
                                  !.tok = tok, !.live = AU!Live(tok)]
<1>1. call' = [call EXCEPT ![k] = rec] /\ tokens' = tokens
  BY DEF AU!CheckSignature
<1>2. call[k] \in CallRecord(AU!AnyToken)
  BY CallsAreOK DEF CallOK
<1>3. AU!Live(tok) \in BOOLEAN /\ (AU!Live(tok) => tok \in DOMAIN tokens)
  BY DEF AU!Live
<1>4. tok \in DOMAIN tokens \cup {BadToken, OldToken} /\ BadToken \notin DOMAIN tokens
  BY FrontDoorAssumption DEF AU!CheckSignature, VerdictInv, AU!VerdictInv, AU!TypeOK
<1>5. /\ rec.pc = IF tok = BadToken THEN "refused" ELSE "lookup"
      /\ rec.tok = tok /\ rec.live = AU!Live(tok)
      /\ rec \in CallRecord(AU!AnyToken)
  BY <1>2, <1>3, <1>4, Zenon DEF CallRecord, AU!Step, AU!AnyToken
<1> HIDE DEF rec
<1>6. call'[k] = rec => CallOK(k)'
  BY <1>1, <1>3, <1>4, <1>5
     DEF CallOK, CallRecord, Found, AU!Fair, AU!Midway, AU!AnyToken, AU!Live
<1> QED BY <1>1, <1>6, CallStep, StillOnward, Zenon

\* A call goes to pc with what it knows.
LEMMA GotoKeeps ==
  ASSUME VerdictInv, now \in Nat, now' = now, NEW k \in Call, NEW pc \in AU!Step,
         AU!Goto(k, pc), tokens' = tokens,
         pc \in {"revoked?", "expired?", "handler", "accepted", "forbidden"} =>
           call[k].tok \in DOMAIN tokens,
         pc \in {"handler", "accepted", "forbidden"} => call[k].live,
         pc = "handler" => "admin" \in tokens[call[k].tok].scopes,
         pc = "refused" /\ call[k].live => ~AU!Live(call[k].tok),
         pc \notin {"routed", "lookup"},
         pc = "revoked?" /\ ~call[k].live => ~AU!Live(call[k].tok),
         pc = "expired?" /\ ~call[k].live => now > tokens[call[k].tok].expires
  PROVE  VerdictInv'
<1> DEFINE rec == [call[k] EXCEPT !.pc = pc]
<1>1. call[k] \in CallRecord(AU!AnyToken) /\ AU!Midway(k) /\ call = [j \in Call |-> call[j]]
  BY CallsAreOK DEF CallOK
<1>2. call' = [call EXCEPT ![k] = rec]
  BY <1>1 DEF AU!Goto
<1>3. /\ rec.pc = pc /\ rec.tok = call[k].tok /\ rec.live = call[k].live
      /\ rec \in CallRecord(AU!AnyToken)
  BY <1>1 DEF CallRecord
<1> HIDE DEF rec
<1>4. call'[k] = rec => CallOK(k)'
  BY <1>1, <1>3 DEF CallOK, CallRecord, Found, AU!Fair, AU!Midway, AU!AnyToken, AU!Live
<1> QED BY <1>2, <1>4, CallStep, StillOnward, Zenon

\* A call is over.
LEMMA DoneKeeps ==
  ASSUME VerdictInv, Onward, NEW k \in Call, AU!Done(k)
  PROVE  VerdictInv'
<1> DEFINE rec == [pc |-> "idle", op |-> None, tok |-> None, live |-> FALSE]
<1>1. call' = [call EXCEPT ![k] = rec]
  BY Zenon DEF AU!Done, AU!NoCall
<1>2. call'[k] = rec => CallOK(k)'
  BY DEF CallOK, CallRecord, Found, AU!Fair, AU!Midway, AU!Step, AU!AnyToken
<1> HIDE DEF rec
<1> QED BY <1>1, <1>2, CallStep, Zenon

\* ValidateToken goes on, or there was no token to validate.
LEMMA CheckKeeps ==
  ASSUME VerdictInv, now \in Nat, now' = now, NEW k \in Call,
         AU!NoToken(k) \/ AU!Lookup(k) \/ AU!CheckRevoked(k) \/ AU!CheckExpiry(k)
  PROVE  VerdictInv'
<1>1. CallOK(k)
  BY CallsAreOK
<1>2. CASE AU!NoToken(k)
  BY <1>1, <1>2, GotoKeeps DEF AU!NoToken, AU!Step, CallOK, AU!Midway
<1>3. CASE AU!Lookup(k)
  <2>1. CASE call[k].tok \in DOMAIN tokens
    <3>1. AU!Goto(k, "revoked?") /\ tokens' = tokens
      BY <1>3, <2>1 DEF AU!Lookup
    <3>2. ~call[k].live => ~AU!Live(call[k].tok)
      BY <1>1, <1>3 DEF AU!Lookup, CallOK, AU!Midway
    <3> QED BY <2>1, <3>1, <3>2, GotoKeeps DEF AU!Step
  <2>2. CASE call[k].tok \notin DOMAIN tokens
    <3>1. AU!Goto(k, "refused") /\ tokens' = tokens
      BY <1>3, <2>2 DEF AU!Lookup
    <3> QED BY <2>2, <3>1, GotoKeeps DEF AU!Step, AU!Live
  <2> QED BY <2>1, <2>2
<1>4. CASE AU!CheckRevoked(k)
  <2>1. call[k].tok \in DOMAIN tokens /\ (~call[k].live => ~AU!Live(call[k].tok))
    BY <1>1, <1>4 DEF AU!CheckRevoked, CallOK, AU!Midway, Found
  <2>2. CASE tokens[call[k].tok].revoked
    <3>1. AU!Goto(k, "refused") /\ tokens' = tokens /\ ~AU!Live(call[k].tok)
      BY <1>4, <2>2 DEF AU!CheckRevoked, AU!Live
    <3> QED BY <3>1, GotoKeeps DEF AU!Step
  <2>3. CASE ~tokens[call[k].tok].revoked
    <3>1. AU!Goto(k, "expired?") /\ tokens' = tokens
      BY <1>4, <2>3 DEF AU!CheckRevoked
    <3>2. tokens[call[k].tok].expires \in Int
      BY <2>1 DEF VerdictInv, AU!VerdictInv, AU!TypeOK
    <3>3. ~call[k].live => now > tokens[call[k].tok].expires
      BY <2>1, <2>3, <3>2 DEF AU!Live
    <3> QED BY <2>1, <3>1, <3>3, GotoKeeps DEF AU!Step
  <2> QED BY <2>2, <2>3
<1>5. CASE AU!CheckExpiry(k)
  <2>1. /\ call[k].tok \in DOMAIN tokens
        /\ ~call[k].live => now > tokens[call[k].tok].expires
    BY <1>1, <1>5, Zenon DEF AU!CheckExpiry, CallOK, AU!Midway, Found
  <2>2. CASE now > tokens[call[k].tok].expires
    <3>1. AU!Goto(k, "refused") /\ tokens' = tokens
      BY <1>5, <2>2 DEF AU!CheckExpiry
    <3>2. tokens[call[k].tok].expires \in Int
      BY <2>1 DEF VerdictInv, AU!VerdictInv, AU!TypeOK
    <3>3. ~AU!Live(call[k].tok)
      BY <2>2, <3>2 DEF AU!Live
    <3> QED BY <3>1, <3>3, GotoKeeps DEF AU!Step
  <2>3. CASE ~(now > tokens[call[k].tok].expires)
    <3>1. AU!Goto(k, AU!Authorised(k)) /\ tokens' = tokens
      BY <1>5, <2>3 DEF AU!CheckExpiry
    <3>2. /\ AU!Authorised(k) \in {"accepted", "handler", "forbidden"}
          /\ AU!Authorised(k) = "handler" => "admin" \in tokens[call[k].tok].scopes
      BY DEF AU!Authorised
    <3> QED BY <2>1, <2>3, <3>1, <3>2, GotoKeeps, Zenon DEF AU!Step
  <2> QED BY <2>2, <2>3
<1> QED BY <1>2, <1>3, <1>4, <1>5

\* The verdict invariant is inductive.
LEMMA DoorStepKeepsVerdicts ==
  VerdictInv /\ LimiterTypeOK /\ LimiterTypeOK' /\ [DoorNext]_doorVars => VerdictInv'
<1> SUFFICES ASSUME VerdictInv, LimiterTypeOK, LimiterTypeOK', [DoorNext]_doorVars
             PROVE  VerdictInv'
  OBVIOUS
<1>1. now \in Nat /\ now' \in Nat
  BY DEF LimiterTypeOK
<1>2. ASSUME NEW k \in Call, NEW ip \in IP, Arrive(k, ip) PROVE VerdictInv'
  BY <1>1, <1>2, StillOnward, CallsStay DEF Arrive, FindVisitor
<1>3. ASSUME NEW k \in Call, NEW op \in Endpoint, Enter(k, op) PROVE VerdictInv'
  BY <1>1, <1>3, RouteKeeps DEF Enter, Allow
<1>4. ASSUME NEW k \in Call, TooMany(k) PROVE VerdictInv'
  BY <1>1, <1>4, StillOnward, CallsStay DEF TooMany, Reject
<1>5. ASSUME NEW k \in Call, NEW tok, Present(k, tok) PROVE VerdictInv'
  BY <1>1, <1>5, SignatureKeeps DEF Present, limiterVars
<1>6. ASSUME NEW k \in Call, Check(k) PROVE VerdictInv'
  BY <1>1, <1>6, CheckKeeps DEF Check, limiterVars
<1>7. ASSUME NEW k \in Call, Leave(k) PROVE VerdictInv'
  <2>1. now' = now
    BY <1>7 DEF Leave, limiterVars
  <2>2. ASSUME NEW scopes, NEW ttl \in TTLs, AU!HandleCreateToken(k, scopes, ttl) PROVE VerdictInv'
    BY <1>1, <2>1, <2>2, CreateOnward, DoneKeeps DEF AU!HandleCreateToken
  <2>3. CASE AU!HandleOther(k) \/ AU!Finish(k)
    BY <1>1, <2>1, <2>3, StillOnward, DoneKeeps DEF AU!HandleOther, AU!Finish
  <2> QED BY <1>7, <2>2, <2>3 DEF Leave
<1>8. CASE Owner
  <2>1. now' = now
    BY <1>8 DEF Owner, limiterVars
  <2>2. ASSUME NEW scopes, NEW ttl \in TTLs, AU!Provision(scopes, ttl) PROVE VerdictInv'
    BY <1>1, <2>1, <2>2, CreateOnward, CallsStay DEF AU!Provision
  <2>3. ASSUME NEW tok, AU!Revoke(tok) PROVE VerdictInv'
    BY <1>1, <2>1, <2>3, RevokeOnward, CallsStay DEF AU!Revoke
  <2> QED BY <1>8, <2>2, <2>3 DEF Owner, AU!Owner
<1>9. CASE Upkeep
  <2>1. now <= now'
    BY <1>1, <1>9 DEF Upkeep, CleanupLoop, Tick
  <2>2. tokens' = tokens /\ call' = call
    BY <1>9 DEF Upkeep
  <2>3. Onward
    BY <1>1, <2>1, <2>2 DEF Onward, VerdictInv, AU!VerdictInv, AU!TypeOK
  <2> QED BY <2>2, <2>3, CallsStay
<1>10. CASE UNCHANGED doorVars
  BY <1>1, <1>10, StillOnward, CallsStay DEF doorVars
<1> QED BY <1>2, <1>3, <1>4, <1>5, <1>6, <1>7, <1>8, <1>9, <1>10 DEF DoorNext

\* It holds at the start.
LEMMA DoorStartsFair == DoorInit => VerdictInv
<1> SUFFICES ASSUME DoorInit PROVE VerdictInv
  OBVIOUS
<1>1. now \in Nat /\ DOMAIN tokens = {} /\ call = [k \in Call |-> AU!NoCall]
  BY DEF DoorInit, AU!Init, Init, AU!EmptyMap, EmptyMap
<1>2. \A k \in Call : CallOK(k)
  BY <1>1 DEF CallOK, CallRecord, Found, AU!Fair, AU!Midway, AU!Step, AU!AnyToken, AU!NoCall
<1> QED BY <1>1, <1>2, CallsAreOK

\* Every verdict of ValidateToken is fair, with any number of requests, tokens
\* and addresses, although it reads the Revoked flag and the clock after it has
\* let go of the store's lock.
THEOREM DoorVerdicts == DoorSpec => []VerdictsFair
<1>1. DoorSpec => []LimiterTypeOK
  BY DoorImplementsLimiter, LimiterInvariant, PTL
<1>2. VerdictInv => VerdictsFair
  BY DEF VerdictInv, AU!VerdictInv, VerdictsFair, AU!VerdictsFair
<1> QED BY <1>1, <1>2, DoorStartsFair, DoorStepKeepsVerdicts, PTL DEF DoorSpec

\* Limiter and store stay well-formed: a visitor a request holds without the
\* limiter's lock and a token it has found without the store's are still there.
THEOREM DoorTypeCorrect == DoorSpec => []DoorTypeOK
<1>1. DoorSpec => []LimiterTypeOK
  BY DoorImplementsLimiter, LimiterInvariant, PTL
<1>2. VerdictInv /\ LimiterTypeOK => DoorTypeOK
  BY DEF VerdictInv, AU!VerdictInv, DoorTypeOK
<1> QED BY <1>1, <1>2, DoorStartsFair, DoorStepKeepsVerdicts, PTL DEF DoorSpec
-----------------------------------------------------------------------------
(* Tries *)

INSTANCE FiniteSetTheorems

\* The calls of an address that wait can be counted.
LEMMA WaitingFinite ==
  ASSUME NEW ip
  PROVE  IsFiniteSet(Waiting(ip)) /\ Cardinality(Waiting(ip)) \in Nat
BY FrontDoorAssumption, FS_Subset, FS_CardinalityType, Zenon DEF Waiting

\* Nobody new waits, and nobody tries a token.
LEMMA FewerWait ==
  ASSUME PaidFor, LimiterTypeOK, tries' = tries, served' = served,
         NEW ip \in IP, Waiting(ip)' \subseteq Waiting(ip)
  PROVE  (tries[ip] + Cardinality(Waiting(ip)) <= served[ip])'
<1>1. Cardinality(Waiting(ip)') <= Cardinality(Waiting(ip)) /\ Cardinality(Waiting(ip)') \in Nat
  BY WaitingFinite, FS_Subset, FS_CardinalityType, Zenon
<1> QED BY <1>1, WaitingFinite DEF PaidFor, LimiterTypeOK

\* A request that is let in pays for the token it will show.
LEMMA EnterPays ==
  ASSUME PaidFor, VerdictInv, LimiterTypeOK, NEW k \in Call, NEW op \in Endpoint, Enter(k, op)
  PROVE  PaidFor'
<1> DEFINE a == gate[k].ip
<1>1. a \in IP /\ from[k] = a /\ call[k].pc = "idle" /\ gate[k] # Outside
  BY DEF Enter, Allow, LimiterTypeOK, PaidFor
<1>2. /\ served' = [served EXCEPT ![a] = @ + 1] /\ gate' = [gate EXCEPT ![k] = Outside]
      /\ from' = from /\ tries' = tries
  BY DEF Enter, Allow
<1>3. /\ call'[k].pc = "routed" /\ \A j \in Call \ {k} : call'[j] = call[j]
  BY Zenon DEF Enter, AU!Route, AU!NoCall, VerdictInv, AU!VerdictInv, AU!TypeOK
<1>4. ASSUME NEW ip \in IP PROVE (tries[ip] + Cardinality(Waiting(ip)) <= served[ip])'
  <2>1. CASE ip = a
    <3>1. Waiting(ip)' = Waiting(ip) \cup {k} /\ k \notin Waiting(ip)
      BY <1>1, <1>2, <1>3, <2>1 DEF Waiting
    <3>2. Cardinality(Waiting(ip)') = Cardinality(Waiting(ip)) + 1
      BY <3>1, WaitingFinite, FS_AddElement, Zenon
    <3>3. served'[ip] = served[ip] + 1 /\ served[ip] \in Nat /\ tries[ip] \in Nat
      BY <1>1, <1>2, <2>1, Zenon DEF LimiterTypeOK, PaidFor
    <3> QED BY <1>2, <3>2, <3>3, WaitingFinite, SMTT(20) DEF PaidFor
  <2>2. CASE ip # a
    <3>1. Waiting(ip)' = Waiting(ip)
      BY <1>1, <1>2, <1>3, <2>2, Zenon DEF Waiting
    <3>2. served'[ip] = served[ip]
      BY <1>2, <2>2, Zenon DEF LimiterTypeOK
    <3> QED BY <1>2, <3>1, <3>2, Zenon DEF PaidFor
  <2> QED BY <2>1, <2>2, Zenon
<1>5. \A j \in Call : gate'[j] # Outside => from'[j] = gate'[j].ip /\ call'[j].pc = "idle"
  BY <1>2, <1>3, Zenon DEF PaidFor, LimiterTypeOK
<1>6. \A j \in Call : call'[j].pc = "routed" => from'[j] \in IP
  BY <1>1, <1>2, <1>3, Zenon DEF PaidFor
<1> QED BY <1>2, <1>4, <1>5, <1>6, Zenon DEF PaidFor, Outside

\* ... and shows one.
LEMMA PresentSpends ==
  ASSUME PaidFor, VerdictInv, LimiterTypeOK, NEW k \in Call, NEW tok, Present(k, tok)
  PROVE  PaidFor'
<1> DEFINE a == from[k]
<1>1. a \in IP /\ call[k].pc = "routed" /\ gate[k] = Outside
  BY DEF Present, AU!CheckSignature, PaidFor
<1>2. /\ served' = served /\ gate' = gate /\ from' = from
      /\ tries' = [tries EXCEPT ![a] = @ + 1]
  BY DEF Present, limiterVars
<1>3. /\ call'[k].pc \notin {"routed", "idle"} /\ \A j \in Call \ {k} : call'[j] = call[j]
  BY DEF Present, AU!CheckSignature, VerdictInv, AU!VerdictInv, AU!TypeOK
<1>4. ASSUME NEW ip \in IP PROVE (tries[ip] + Cardinality(Waiting(ip)) <= served[ip])'
  <2>1. CASE ip = a
    <3>1. Waiting(ip)' = Waiting(ip) \ {k} /\ k \in Waiting(ip)
      BY <1>1, <1>2, <1>3, <2>1 DEF Waiting
    <3>2. Cardinality(Waiting(ip)') = Cardinality(Waiting(ip)) - 1
      BY <3>1, WaitingFinite, FS_RemoveElement, Zenon
    <3>3. tries'[ip] = tries[ip] + 1 /\ served[ip] \in Nat /\ tries[ip] \in Nat
      BY <1>1, <1>2, <2>1, Zenon DEF LimiterTypeOK, PaidFor
    <3> QED BY <1>2, <3>2, <3>3, WaitingFinite DEF PaidFor
  <2>2. CASE ip # a
    <3>1. Waiting(ip)' = Waiting(ip)
      BY <1>1, <1>2, <1>3, <2>2, Zenon DEF Waiting
    <3>2. tries'[ip] = tries[ip]
      BY <1>2, <2>2, Zenon DEF PaidFor
    <3> QED BY <1>2, <3>1, <3>2, Zenon DEF PaidFor
  <2> QED BY <2>1, <2>2, Zenon
<1>5. \A j \in Call : gate'[j] # Outside => from'[j] = gate'[j].ip /\ call'[j].pc = "idle"
  BY <1>1, <1>2, <1>3, Zenon DEF PaidFor
<1>6. \A j \in Call : call'[j].pc = "routed" => from'[j] \in IP
  BY <1>2, <1>3, Zenon DEF PaidFor
<1>7. tries' \in [IP -> Nat]
  BY <1>1, <1>2 DEF PaidFor
<1> QED BY <1>2, <1>4, <1>5, <1>6, <1>7 DEF PaidFor, Outside

\* Every other step of a request lets nobody new wait.
LEMMA OthersWaitNoMore ==
  ASSUME PaidFor, VerdictInv, LimiterTypeOK, NEW k \in Call, tries' = tries, served' = served,
         \A j \in Call \ {k} : call'[j] = call[j] /\ from'[j] = from[j] /\ gate'[j] = gate[j],
         from' \in [Call -> IP \cup {None}],
         call'[k].pc # "routed",
         gate'[k] # Outside => from'[k] = gate'[k].ip /\ call'[k].pc = "idle"
  PROVE  PaidFor'
<1>1. ASSUME NEW ip \in IP PROVE (tries[ip] + Cardinality(Waiting(ip)) <= served[ip])'
  <2>1. Waiting(ip)' \subseteq Waiting(ip)
    BY DEF Waiting
  <2> QED BY <2>1, FewerWait, Zenon
<1> QED BY <1>1 DEF PaidFor, Outside

\* Every attempt that is let through has been paid for with a token of the bucket.
LEMMA DoorStepPaidFor ==
  ASSUME PaidFor, VerdictInv, LimiterTypeOK, [DoorNext]_doorVars
  PROVE  PaidFor'
<1>1. /\ call = [j \in Call |-> call[j]] /\ gate = [j \in Call |-> gate[j]]
      /\ from = [j \in Call |-> from[j]]
      /\ \A j \in Call : gate[j] # Outside => from[j] = gate[j].ip /\ call[j].pc = "idle"
      /\ \A j \in Call : gate[j] # Outside => gate[j].ip \in IP
  BY DEF VerdictInv, AU!VerdictInv, AU!TypeOK, LimiterTypeOK, PaidFor
<1>2. ASSUME NEW k \in Call, NEW ip \in IP, Arrive(k, ip) PROVE PaidFor'
  <2>1. /\ call' = call /\ from' = [from EXCEPT ![k] = ip] /\ call[k].pc = "idle"
        /\ gate' = [gate EXCEPT ![k] = [ip |-> ip, at |-> now]]
        /\ tries' = tries /\ served' = served
    BY <1>2 DEF Arrive, FindVisitor
  <2>2. gate'[k].ip = ip /\ from'[k] = ip
    BY <1>1, <2>1, Zenon
  <2>3. from' \in [Call -> IP \cup {None}]
    BY <2>1 DEF PaidFor
  <2> QED BY <1>1, <2>1, <2>2, <2>3, OthersWaitNoMore
<1>3. ASSUME NEW k \in Call, NEW op \in Endpoint, Enter(k, op) PROVE PaidFor'
  BY <1>3, EnterPays
<1>4. ASSUME NEW k \in Call, TooMany(k) PROVE PaidFor'
  <2>1. /\ call' = call /\ from' = [from EXCEPT ![k] = None] /\ call[k].pc = "idle"
        /\ gate' = [gate EXCEPT ![k] = Outside]
        /\ tries' = tries /\ served' = served
    BY <1>1, <1>4 DEF TooMany, Reject
  <2>2. gate'[k] = Outside
    BY <1>1, <2>1
  <2>3. from' \in [Call -> IP \cup {None}]
    BY <2>1 DEF PaidFor
  <2> QED BY <1>1, <2>1, <2>2, <2>3, OthersWaitNoMore, Zenon
<1>5. ASSUME NEW k \in Call, NEW tok, Present(k, tok) PROVE PaidFor'
  BY <1>5, PresentSpends
<1>6. ASSUME NEW k \in Call, Check(k) PROVE PaidFor'
  <2>1. gate' = gate /\ served' = served /\ from' = from /\ tries' = tries
    BY <1>6, Zenon DEF Check, limiterVars
  <2>2. call[k].pc # "idle"
    BY <1>6 DEF Check, AU!NoToken, AU!Lookup, AU!CheckRevoked, AU!CheckExpiry
  <2>3. PICK pc : pc # "routed" /\ AU!Goto(k, pc)
    BY <1>6 DEF Check, AU!NoToken, AU!Lookup, AU!CheckRevoked, AU!CheckExpiry, AU!Authorised
  <2>4. call'[k].pc # "routed" /\ \A j \in Call \ {k} : call'[j] = call[j]
    BY <1>1, <2>3 DEF AU!Goto, VerdictInv, AU!VerdictInv, AU!TypeOK
  <2>5. from' \in [Call -> IP \cup {None}]
    BY <2>1 DEF PaidFor
  <2> QED BY <1>1, <2>1, <2>2, <2>4, <2>5, OthersWaitNoMore, Zenon
<1>7. ASSUME NEW k \in Call, Leave(k) PROVE PaidFor'
  <2>1. /\ gate' = gate /\ served' = served /\ tries' = tries
        /\ from' = [from EXCEPT ![k] = None]
    BY <1>7, Zenon DEF Leave, limiterVars
  <2>2. call[k].pc # "idle" /\ AU!Done(k)
    BY <1>7 DEF Leave, AU!HandleCreateToken, AU!HandleOther, AU!Finish
  <2>3. call'[k].pc # "routed" /\ \A j \in Call \ {k} : call'[j] = call[j]
    BY <1>1, <2>2 DEF AU!Done, AU!NoCall
  <2>4. gate'[k] = Outside
    BY <1>1, <2>1, <2>2, Zenon
  <2>5. from' \in [Call -> IP \cup {None}]
    BY <2>1, Zenon DEF PaidFor
  <2> QED BY <1>1, <2>1, <2>3, <2>4, <2>5, OthersWaitNoMore, Zenon
<1>8. CASE Owner \/ Upkeep \/ UNCHANGED doorVars
  <2>1. call' = call /\ from' = from /\ gate' = gate /\ served' = served /\ tries' = tries
    BY <1>8 DEF Owner, AU!Owner, AU!Provision, AU!Revoke, Upkeep, CleanupLoop, Tick, doorVars,
                limiterVars
  <2>2. \A ip \in IP : Waiting(ip)' = Waiting(ip)
    BY <2>1 DEF Waiting
  <2> QED BY <2>1, <2>2, Zenon DEF PaidFor, Outside
<1> QED BY <1>2, <1>3, <1>4, <1>5, <1>6, <1>7, <1>8, Zenon DEF DoorNext

\* What an address may still claim is a number.
LEMMA ClaimIsNumber == LimiterTypeOK => \A ip \in IP : Claim(ip) \in Int
<1> SUFFICES ASSUME LimiterTypeOK, NEW ip \in IP PROVE Claim(ip) \in Int
  BY Zenon
<1>1. Full * served[ip] \in Int /\ Burst * now \in Int
  BY RateLimiterAssumption DEF LimiterTypeOK
<1> QED BY <1>1, LevelRange DEF Claim

\* At the start nothing is claimed.
LEMMA DoorStartsPaid ==
  ASSUME DoorInit
  PROVE  PaidFor /\ \A ip \in IP : Claim(ip) <= Capacity
<1>1. /\ call = [k \in Call |-> AU!NoCall] /\ gate = [k \in Call |-> Outside]
      /\ from = [k \in Call |-> None] /\ tries = [ip \in IP |-> 0]
      /\ served = [ip \in IP |-> 0] /\ now = 0 /\ LimiterTypeOK
  BY InitTypeOK DEF DoorInit, Init, AU!Init
<1>2. \A ip \in IP : Waiting(ip) = {}
  BY <1>1 DEF Waiting, AU!NoCall
<1>3. PaidFor
  BY <1>1, <1>2, FS_EmptySet DEF PaidFor, AU!NoCall
<1>4. ASSUME NEW ip \in IP PROVE Claim(ip) <= Capacity
  <2>1. served[ip] = 0 /\ Full * 0 = 0 /\ Burst * 0 = 0
    BY <1>1, RateLimiterAssumption
  <2> QED BY <1>1, <2>1, LevelRange, Amounts DEF Claim
<1> QED BY <1>3, <1>4

\* What was earned and paid for bounds what was tried.
LEMMA PaidBounds ==
  ASSUME PaidFor, LimiterTypeOK, \A ip \in IP : Claim(ip) <= Capacity
  PROVE  TriesBounded
<1> SUFFICES ASSUME NEW ip \in IP PROVE Full * tries[ip] <= Capacity + Burst * now
  BY DEF TriesBounded
<1>1. /\ tries[ip] \in Nat /\ served[ip] \in Nat /\ now \in Nat /\ Full \in Nat
      /\ tries[ip] <= served[ip]
  BY WaitingFinite, RateLimiterAssumption DEF PaidFor, LimiterTypeOK
<1>2. PICK d \in Nat : served[ip] = tries[ip] + d
  BY <1>1, served[ip] - tries[ip] \in Nat
<1>3. /\ Full * served[ip] = Full * tries[ip] + Full * d
      /\ Full * d \in Nat /\ Full * tries[ip] \in Nat
  BY <1>1, <1>2
<1>4. Full * served[ip] + Level(ip) - Burst * now <= Capacity
  BY DEF Claim
<1> QED BY <1>1, <1>3, <1>4, LevelRange, Amounts

\* An address has tokens looked at no faster than its bucket fills, with any
\* number of requests under way: the limiter in front of the mux bounds what
\* handleConnect and requireAdmin behind it do.
THEOREM DoorTries == DoorSpec => []TriesBounded
<1> DEFINE Thrifty == PaidFor /\ \A ip \in IP : Claim(ip) <= Capacity
<1>0. LimiterTypeOK' => (\A ip \in IP : Claim(ip) \in Int)'
  BY ClaimIsNumber, PTL
<1>1. DoorSpec => []LimiterTypeOK
  BY DoorImplementsLimiter, LimiterInvariant, PTL
<1>2. DoorSpec => []VerdictInv
  BY <1>1, DoorStartsFair, DoorStepKeepsVerdicts, PTL DEF DoorSpec
<1>3. DoorInit => Thrifty
  BY DoorStartsPaid
<1>4. Thrifty /\ VerdictInv /\ LimiterTypeOK /\ LimiterTypeOK' /\ [DoorNext]_doorVars => Thrifty'
  <2> SUFFICES ASSUME Thrifty, VerdictInv, LimiterTypeOK, LimiterTypeOK', [DoorNext]_doorVars
               PROVE  Thrifty'
    OBVIOUS
  <2>1. PaidFor'
    BY DoorStepPaidFor
  <2>2. ASSUME NEW ip \in IP PROVE (Claim(ip) <= Capacity)'
    <3>1. Claim(ip)' <= Claim(ip)
      BY DoorStepIsLimiterStep, StepCredit
    <3>2. Claim(ip) \in Int /\ Claim(ip)' \in Int /\ Capacity' = Capacity /\ Capacity \in Int
      BY <1>0, ClaimIsNumber, Amounts DEF Capacity
    <3> QED BY <3>1, <3>2
  <2> QED BY <2>1, <2>2
<1>5. Thrifty /\ LimiterTypeOK => TriesBounded
  BY PaidBounds
<1> HIDE DEF Thrifty
<1> QED BY <1>1, <1>2, <1>3, <1>4, <1>5, PTL DEF DoorSpec
=============================================================================
