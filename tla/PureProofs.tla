----------------------------- MODULE PureProofs -----------------------------
(***************************************************************************)
(* What Names, Frames and Settings compute, for inputs of any length: TLC  *)
(* checks the same statements on all small ones.                           *)
(***************************************************************************)
EXTENDS MCPure, SequenceTheorems, WellFoundedInduction, TLAPS

-----------------------------------------------------------------------------
(* Smallest and largest positions *)

\* Positions are numbers.
LEMMA Positions == \A n \in Nat : \A i \in 1 .. n : i \in Nat
OBVIOUS

\* Where a position is in a part of a text.
LEMMA Placement ==
  ASSUME NEW l \in Nat, NEW i \in 1 .. l
  PROVE  /\ i \in Nat /\ 1 <= i /\ i <= l /\ l \in 1 .. l
         /\ \A n \in 1 .. l : l <= n => n = l
         /\ i \in 1 .. l + 1 /\ l \in i - 1 .. l
         /\ \A m \in 1 .. i : /\ m \in Nat /\ l - m + 1 \in Nat
                              /\ i - m + 1 \in 1 .. l - m + 1 /\ m - 1 + (i - m + 1) = i
                              /\ \A d \in 1 .. l - m + 1 : m - 1 + d \in 1 .. l
OBVIOUS

\* Which part of a text of two parts and a separator a position is in.
LEMMA WhichPart ==
  ASSUME NEW a \in Nat, NEW b \in Nat, NEW i \in 1 .. a + 1 + b
  PROVE  /\ i <= a \/ i = a + 1 \/ i > a + 1
         /\ i <= a => i \in 1 .. a
         /\ i > a + 1 => i - (a + 1) \in 1 .. b /\ a + 1 + (i - (a + 1)) = i
OBVIOUS

\* The first and the last position, and a part that leaves out the first.
LEMMA FirstAndLast ==
  ASSUME NEW l \in Nat \ {0}
  PROVE  /\ 1 \in 1 .. l /\ l \in 1 .. l
         /\ \A m, n \in 1 .. l : m <= 1 /\ l <= n => m = 1 /\ n = l
         /\ \A m, n \in 1 .. l : m <= n /\ m # 1 =>
              m \in 1 .. l + 1 /\ n \in m - 1 .. l /\ n - m + 1 # l
OBVIOUS

\* Min finds the smallest number of a set that has one.
LEMMA MinIsLeast ==
  ASSUME NEW S, S \subseteq Nat, S # {}
  PROVE  Min(S) \in S /\ \A y \in S : Min(S) <= y
<1> DEFINE R == OpToRel(<, Nat)
<1>1. IsWellFoundedOn(R, Nat)
  BY NatLessThanWellFounded, Zenon
<1>2. \A x, y \in Nat : <<y, x>> \in R <=> y < x
  BY DEF OpToRel
<1> HIDE DEF R
<1>3. \E x \in S : \A y \in S : ~(<<y, x>> \in R)
  BY <1>1, WFMin, Zenon
<1>4. \E x \in S : \A y \in S : x =< y
  <2>1. PICK x \in S : \A y \in S : ~(<<y, x>> \in R)
    BY <1>3
  <2>2. \A y \in S : y \in Nat /\ x \in Nat /\ ~(y < x)
    BY <1>2, <2>1, Zenon
  <2>3. \A y \in S : x =< y
    BY <2>2
  <2> QED BY <2>3
<1> QED BY <1>4, Zenon DEF Min

\* Max finds the largest of a set of positions.
LEMMA MaxIsGreatest ==
  ASSUME NEW n \in Nat, NEW S, S \subseteq 1 .. n, S # {}
  PROVE  Max(S) \in S /\ \A y \in S : Max(S) >= y
<1> DEFINE T == {n - x : x \in S}
<1>0. \A x \in S : x \in Nat /\ x <= n
  OBVIOUS
<1>1. T \subseteq Nat /\ T # {}
  <2>1. \A x \in S : n - x \in Nat
    BY <1>0
  <2> QED BY <2>1, Zenon
<1>2. Min(T) \in T /\ \A y \in T : Min(T) <= y
  BY <1>1, MinIsLeast, Zenon
<1>3. PICK x \in S : Min(T) = n - x
  BY <1>2, Zenon
<1>4. \A y \in S : n - x <= n - y
  BY <1>2, <1>3, Zenon
<1>5. \A y \in S : x >= y
  BY <1>0, <1>4
<1> QED BY <1>5, Zenon DEF Max
-----------------------------------------------------------------------------
(* Settings *)

\* Setting by setting the server runs with what its flag, else its variable, else
\* the file, else the default says, it listens where the file or the default
\* says, and it exits exactly when a named file cannot be read or the level or
\* the format is none, whatever flags, variables and files there are.
THEOREM SettingsFollowPrecedence ==
  ASSUME NEW args, NEW env, NEW files
  PROVE  Precedence(args, env, files)
<1> DEFINE flags == Parse(args)
           p == Path(flags.config, env)
           FromFile(f) ==
             IF p # "" THEN IF f \in DOMAIN files[p] THEN files[p][f] ELSE Defaults[f]
             ELSE Defaults[f]
           FromEnv(f) ==
             IF f \in DOMAIN Variable
             THEN IF env[Variable[f]] # "" THEN env[Variable[f]] ELSE FromFile(f)
             ELSE FromFile(f)
           level == IF flags.logLevel # "" THEN flags.logLevel ELSE FromEnv("level")
           unreadable == p # "" /\ files[p] = Unreadable
           file == IF p = "" THEN Defaults ELSE Unmarshal(files[p], Defaults)
           loaded == Load(flags.config, env, files)
           cfg == [loaded EXCEPT !.level = IF flags.logLevel # "" THEN flags.logLevel ELSE @]
           Field == {"level", "format", "storage", "redis", "key", "http", "https"}
<1>1. DOMAIN file = Field /\ \A f \in Field : file[f] = FromFile(f)
  BY DEF Defaults, Unmarshal
<1>2. loaded = IF unreadable THEN NoSettings ELSE ApplyServerEnv(file, env)
  BY Zenon DEF Load
<1>3. /\ RunServer(args, env, files) =
           IF loaded = NoSettings \/ ~LoggingNew(cfg) THEN NoSettings ELSE cfg
      /\ Precedence(args, env, files) <=>
           IF /\ ~unreadable
              /\ ParseLevel(level)
              /\ StringsToLower(FromFile("format")) \in {"json", "", "text"}
           THEN /\ RunServer(args, env, files) # NoSettings
                /\ RunServer(args, env, files).level = level
                /\ \A f \in {"format", "storage", "redis", "key", "http"} :
                     RunServer(args, env, files)[f] = FromEnv(f)
                /\ RunServer(args, env, files).https =
                     IF IsPort(env.PORT) THEN ":8080" ELSE FromFile("https")
           ELSE RunServer(args, env, files) = NoSettings
  BY Zenon DEF RunServer, Precedence
<1>4. CASE unreadable
  BY <1>2, <1>3, <1>4, Zenon
<1>5. CASE ~unreadable
  <2>1. /\ FromEnv("format") = FromFile("format") /\ FromEnv("http") = FromFile("http")
        /\ FromEnv("level") = IF env.GOTUNNEL_LOG_LEVEL # "" THEN env.GOTUNNEL_LOG_LEVEL
                              ELSE FromFile("level")
        /\ FromEnv("storage") = IF env.GOTUNNEL_STORAGE_TYPE # "" THEN env.GOTUNNEL_STORAGE_TYPE
                                ELSE FromFile("storage")
        /\ FromEnv("redis") = IF env.GOTUNNEL_REDIS_ADDR # "" THEN env.GOTUNNEL_REDIS_ADDR
                              ELSE FromFile("redis")
        /\ FromEnv("key") = IF env.GOTUNNEL_AUTH_KEY # "" THEN env.GOTUNNEL_AUTH_KEY
                            ELSE FromFile("key")
    <3> HIDE DEF FromFile
    <3> QED BY DEF Variable
  <2>2. /\ DOMAIN loaded = Field
        /\ loaded.level = FromEnv("level") /\ loaded.format = FromEnv("format")
        /\ loaded.storage = FromEnv("storage") /\ loaded.redis = FromEnv("redis")
        /\ loaded.key = FromEnv("key") /\ loaded.http = FromEnv("http")
        /\ loaded.https = IF IsPort(env.PORT) THEN ":8080" ELSE FromFile("https")
    <3> HIDE DEF FromEnv, FromFile, file, loaded
    <3> QED BY <1>1, <1>2, <1>5, <2>1, Zenon DEF ApplyServerEnv
  <2> HIDE DEF FromEnv, FromFile, loaded
  <2>3. /\ DOMAIN cfg = Field /\ cfg.level = level
        /\ \A f \in Field : f # "level" => cfg[f] = loaded[f]
    BY <2>2, Zenon
  <2>4. DOMAIN NoSettings = {"level"}
    BY DEF NoSettings
  <2>5. loaded # NoSettings /\ cfg # NoSettings
    <3>1. "http" \in Field /\ "http" \notin {"level"}
      OBVIOUS
    <3> HIDE DEF cfg, Field
    <3> QED BY <2>2, <2>3, <2>4, <3>1, Zenon
  <2> HIDE DEF cfg, level
  <2>6. /\ cfg.format = FromEnv("format") /\ cfg.storage = FromEnv("storage")
        /\ cfg.redis = FromEnv("redis") /\ cfg.key = FromEnv("key")
        /\ cfg.http = FromEnv("http") /\ cfg.https = loaded.https
    BY <2>2, <2>3
  <2>7. LoggingNew(cfg) <=> ParseLevel(level) /\ StringsToLower(FromFile("format")) \in {"json", "", "text"}
    BY <2>1, <2>3, <2>6, Zenon DEF LoggingNew
  <2>8. \A f \in {"format", "storage", "redis", "key", "http"} : cfg[f] = FromEnv(f)
    BY <2>6, Zenon
  <2> QED BY <1>3, <1>5, <2>2, <2>3, <2>5, <2>6, <2>7, <2>8, Zenon
<1> QED BY <1>4, <1>5, Zenon
-----------------------------------------------------------------------------
(* Texts *)

\* The positions of a text joined of two by a separator.
LEMMA JoinedText ==
  ASSUME NEW C, NEW a \in Seq(C), NEW c \in C, NEW b \in Seq(C)
  PROVE  LET t == a \o <<c>> \o b IN
         /\ t \in Seq(C) /\ Len(t) = Len(a) + 1 + Len(b)
         /\ \A i \in 1 .. Len(a) : t[i] = a[i]
         /\ t[Len(a) + 1] = c
         /\ \A i \in 1 .. Len(b) : t[Len(a) + 1 + i] = b[i]
<1> DEFINE ac == a \o <<c>>
<1>1. /\ ac \in Seq(C) /\ Len(ac) = Len(a) + 1
      /\ \A i \in 1 .. Len(a) : ac[i] = a[i]
      /\ ac[Len(a) + 1] = c
  OBVIOUS
<1> HIDE DEF ac
<1>2. /\ ac \o b \in Seq(C) /\ Len(ac \o b) = Len(ac) + Len(b)
      /\ \A i \in 1 .. Len(ac) + Len(b) : (ac \o b)[i] = IF i <= Len(ac) THEN ac[i] ELSE b[i - Len(ac)]
  BY <1>1, ConcatProperties, Zenon
<1>3. Len(a) \in Nat /\ Len(b) \in Nat
  OBVIOUS
<1>4. /\ \A i \in 1 .. Len(a) : (ac \o b)[i] = a[i]
      /\ (ac \o b)[Len(a) + 1] = c
      /\ \A i \in 1 .. Len(b) : (ac \o b)[Len(a) + 1 + i] = b[i]
  BY <1>1, <1>2, <1>3
<1> QED BY <1>1, <1>2, <1>4 DEF ac

\* The same with nothing before the separator.
LEMMA PrefixedText ==
  ASSUME NEW C, NEW c \in C, NEW b \in Seq(C)
  PROVE  LET t == <<c>> \o b IN
         /\ t \in Seq(C) /\ Len(t) = 1 + Len(b) /\ t[1] = c
         /\ \A i \in 1 .. Len(b) : t[1 + i] = b[i]
<1>1. /\ <<c>> \in Seq(C) /\ Len(<<c>>) = 1 /\ <<c>>[1] = c
  OBVIOUS
<1>2. /\ <<c>> \o b \in Seq(C) /\ Len(<<c>> \o b) = 1 + Len(b)
      /\ \A i \in 1 .. 1 + Len(b) : (<<c>> \o b)[i] = IF i <= 1 THEN <<c>>[i] ELSE b[i - 1]
  BY <1>1, ConcatProperties
<1>3. Len(b) \in Nat
  OBVIOUS
<1> QED BY <1>1, <1>2, <1>3

\* Part of a text.
LEMMA PartOfText ==
  ASSUME NEW C, NEW s \in Seq(C), NEW m \in 1 .. Len(s) + 1, NEW n \in m - 1 .. Len(s)
  PROVE  /\ SubSeq(s, m, n) \in Seq(C) /\ Len(SubSeq(s, m, n)) = n - m + 1
         /\ \A i \in 1 .. n - m + 1 : SubSeq(s, m, n)[i] = s[m - 1 + i]
<1>1. Len(s) \in Nat /\ m \in Int /\ n \in Int /\ \A i \in m .. n : s[i] \in C
  OBVIOUS
<1>2. /\ SubSeq(s, m, n) \in Seq(C)
      /\ Len(SubSeq(s, m, n)) = IF m <= n THEN n - m + 1 ELSE 0
      /\ \A i \in 1 .. n - m + 1 : SubSeq(s, m, n)[i] = s[m + i - 1]
  BY <1>1, SubSeqProperties
<1>3. \A i \in 1 .. n - m + 1 : m + i - 1 = m - 1 + i
  BY <1>1
<1> QED BY <1>1, <1>2, <1>3
-----------------------------------------------------------------------------
(* Frames *)

\* A product grows with its factor.
LEMMA ProductGrows ==
  ASSUME NEW d \in Nat, NEW a \in Int, NEW b \in Int, a + 1 <= b
  PROVE  d * a + d <= d * b
<1>1. PICK c \in Nat : b = a + 1 + c
  BY b - a - 1 \in Nat
<1>2. d * b = d * a + d + d * c /\ d * c \in Nat
  BY <1>1
<1> QED BY <1>2

\* Quotient and remainder are the only ones.
LEMMA DivisionUnique ==
  ASSUME NEW d \in Nat \ {0}, NEW q \in Nat, NEW r \in 0 .. d - 1
  PROVE  (d * q + r) \div d = q /\ (d * q + r) % d = r
<1> DEFINE n == d * q + r
           Q == n \div d
           R == n % d
<1>1. n \in Nat /\ Q \in Int /\ R \in 0 .. d - 1 /\ n = d * Q + R
  OBVIOUS
<1>2. d * q + r = d * Q + R
  BY <1>1
<1> HIDE DEF Q, R, n
<1>3. d * q \in Int /\ d * Q \in Int
  BY <1>1
<1>4. ~(q + 1 <= Q)
  BY <1>1, <1>2, <1>3, ProductGrows
<1>5. ~(Q + 1 <= q)
  BY <1>1, <1>2, <1>3, ProductGrows
<1>6. Q = q
  BY <1>1, <1>4, <1>5
<1>7. R = r
  BY <1>1, <1>2, <1>3, <1>6
<1> QED BY <1>6, <1>7 DEF Q, R, n

\* A digit is split off a number.
LEMMA SplitDigit ==
  ASSUME NEW n \in Nat
  PROVE  \E q \in Nat, r \in 0 .. Base - 1 :
           n = Base * q + r /\ n \div Base = q /\ n % Base = r
<1> DEFINE q == n \div Base
           r == n % Base
<1>1. q \in Int /\ r \in 0 .. Base - 1 /\ n = Base * q + r
  BY BaseAssumption
<1> HIDE DEF q, r
<1>2. ~(q + 1 <= 0)
  <2>1. q + 1 <= 0 => Base * q + Base <= Base * 0
    BY <1>1, BaseAssumption, ProductGrows
  <2>2. Base * q \in Int /\ Base * 0 = 0
    BY <1>1, BaseAssumption
  <2> QED BY <1>1, <2>1, <2>2, BaseAssumption
<1>3. q \in Nat
  BY <1>1, <1>2
<1> QED BY <1>1, <1>3 DEF q, r

\* A digit put after a number below a bound gives one below Base times the bound.
LEMMA DigitsBelow ==
  ASSUME NEW w \in Nat, NEW q \in 0 .. w - 1, NEW r \in 0 .. Base - 1
  PROVE  Base * q + r \in 0 .. Base * w - 1
<1>1. Base * q + Base <= Base * w /\ Base * q \in Nat /\ Base * w \in Nat
  BY BaseAssumption, ProductGrows
<1> QED BY <1>1, BaseAssumption

\* Four digits tell a number up to multiples of Width.
LEMMA DigitsRead ==
  ASSUME NEW n \in Nat
  PROVE  /\ Uint32(PutUint32(n)) = n % Width
         /\ Width \in Nat \ {0}
         /\ n % Width \in 0 .. n
         /\ n < Width => n % Width = n
<1> DEFINE B == Base
           B2 == Base * Base
           B3 == Base * Base * Base
           B4 == Base * Base * Base * Base
<1>0. B \in Nat \ {0} /\ B2 \in Nat \ {0} /\ B3 \in Nat \ {0} /\ B4 \in Nat \ {0}
  <2>1. \A x, y \in Nat \ {0} : x * y \in Nat \ {0}
    OBVIOUS
  <2>2. B \in Nat \ {0}
    BY BaseAssumption
  <2>3. B2 \in Nat \ {0}
    BY <2>1, <2>2, Zenon
  <2>4. B3 \in Nat \ {0}
    BY <2>1, <2>2, <2>3, Zenon
  <2>5. B4 \in Nat \ {0}
    BY <2>1, <2>2, <2>4, Zenon
  <2> QED BY <2>2, <2>3, <2>4, <2>5, Zenon
<1>1. PICK q1 \in Nat, r1 \in 0 .. B - 1 : n = B * q1 + r1 /\ n \div B = q1 /\ n % B = r1
  BY SplitDigit, Zenon
<1>2. PICK q2 \in Nat, r2 \in 0 .. B - 1 : q1 = B * q2 + r2 /\ q1 \div B = q2 /\ q1 % B = r2
  BY SplitDigit, Zenon
<1>3. PICK q3 \in Nat, r3 \in 0 .. B - 1 : q2 = B * q3 + r3 /\ q2 \div B = q3 /\ q2 % B = r3
  BY SplitDigit, Zenon
<1>4. PICK q4 \in Nat, r4 \in 0 .. B - 1 : q3 = B * q4 + r4 /\ q3 \div B = q4 /\ q3 % B = r4
  BY SplitDigit, Zenon
<1> DEFINE s2 == B * r2 + r1
           s3 == B2 * r3 + s2
           s4 == B3 * r4 + s3
<1>5. s2 \in 0 .. B2 - 1 /\ s3 \in 0 .. B3 - 1 /\ s4 \in 0 .. B4 - 1
  <2>1. s2 \in 0 .. B2 - 1
    BY <1>0, DigitsBelow
  <2>2. B * r3 + r2 \in 0 .. B2 - 1
    BY <1>0, DigitsBelow
  <2>3. B * (B * r3 + r2) + r1 \in 0 .. B * B2 - 1
    BY <1>0, <2>2, DigitsBelow, Zenon
  <2>4. B * r4 + r3 \in 0 .. B2 - 1
    BY <1>0, DigitsBelow
  <2>5. B * (B * r4 + r3) + r2 \in 0 .. B * B2 - 1
    BY <1>0, <2>4, DigitsBelow, Zenon
  <2>6. B * (B * (B * r4 + r3) + r2) + r1 \in 0 .. B * (B * B2) - 1
    BY <1>0, <2>5, DigitsBelow
  <2>7. B * B2 = B3 /\ B * (B * B2) = B4
    BY <1>0
  <2>8. s3 = B * (B * r3 + r2) + r1 /\ s4 = B * (B * (B * r4 + r3) + r2) + r1
    BY <1>0
  <2> QED BY <2>1, <2>3, <2>6, <2>7, <2>8
<1>6. n = B2 * q2 + s2 /\ n = B3 * q3 + s3 /\ n = B4 * q4 + s4
  BY <1>0, <1>1, <1>2, <1>3, <1>4
<1> HIDE DEF s2, s3, s4, B2, B3, B4
<1>7. n \div B2 = q2 /\ n \div B3 = q3 /\ n % B4 = s4
  <2>1. (B2 * q2 + s2) \div B2 = q2
    <3>1. B2 \in Nat \ {0} /\ s2 \in 0 .. B2 - 1
      BY <1>0, <1>5
    <3> QED BY <3>1, DivisionUnique, ZenonT(30)
  <2>2. (B3 * q3 + s3) \div B3 = q3
    <3>1. B3 \in Nat \ {0} /\ s3 \in 0 .. B3 - 1
      BY <1>0, <1>5
    <3> QED BY <3>1, DivisionUnique, ZenonT(30)
  <2>3. (B4 * q4 + s4) % B4 = s4
    <3>1. B4 \in Nat \ {0} /\ s4 \in 0 .. B4 - 1
      BY <1>0, <1>5
    <3> QED BY <3>1, DivisionUnique, ZenonT(30)
  <2> QED BY <1>6, <2>1, <2>2, <2>3, Zenon
<1>8. PutUint32(n) = <<r4, r3, r2, r1>>
  BY <1>1, <1>2, <1>3, <1>4, <1>7 DEF PutUint32, B2, B3
<1>9. Uint32(PutUint32(n)) = s4
  BY <1>0, <1>8 DEF Uint32, s4, s3, s2, B2, B3
<1>10. B4 * q4 \in Nat /\ s4 \in Nat /\ s4 <= n
  BY <1>0, <1>5, <1>6
<1>11. n < B4 => s4 = n
  <2>1. SUFFICES ASSUME n < B4 PROVE n % B4 = n
    BY <1>7
  <2>2. n \in 0 .. B4 - 1 /\ B4 * 0 + n = n
    BY <1>0, <2>1
  <2> QED BY <1>0, <2>2, DivisionUnique, Zenon
<1> QED BY <1>0, <1>7, <1>9, <1>10, <1>11 DEF Width, B4

\* f is a frame of the payload p, byte by byte.
LaidOut(f, frameType, p) ==
  /\ Len(f) = 5 + Len(p) /\ f[1] = frameType
  /\ \A i \in 1 .. 4 : f[1 + i] = PutUint32(Len(p))[i]
  /\ \A i \in 1 .. Len(p) : f[5 + i] = p[i]

\* What EncodeFrame puts into a frame.
LEMMA FrameBytes ==
  ASSUME NEW frameType, NEW P, NEW p \in Seq(P)
  PROVE  /\ EncodeFrame(frameType, p) \in Seq(P \cup {frameType} \cup Int)
         /\ LaidOut(EncodeFrame(frameType, p), frameType, p)
<1> DEFINE V == P \cup {frameType} \cup Int
           u == PutUint32(Len(p))
           h == <<frameType>> \o u
<1>1. u \in Seq(V) /\ Len(u) = 4
  <2>1. \A x \in Int : x % Base \in Int
    BY BaseAssumption
  <2>2. \A x \in Int, d \in Nat \ {0} : x \div d \in Int
    OBVIOUS
  <2>3. u \in Seq(Int) /\ Len(u) = 4
    BY <2>1, <2>2, BaseAssumption DEF PutUint32
  <2> QED BY <2>3
<1> HIDE DEF u
<1>2. frameType \in V /\ p \in Seq(V) /\ Len(p) \in Nat
  OBVIOUS
<1> HIDE DEF V
<1>3. h \in Seq(V) /\ Len(h) = 5 /\ h[1] = frameType /\ \A i \in 1 .. 4 : h[1 + i] = u[i]
  <2> DEFINE a == <<frameType>>
  <2>1. a \in Seq(V) /\ Len(a) = 1 /\ a[1] = frameType
    BY <1>2
  <2> HIDE DEF a
  <2>2. /\ a \o u \in Seq(V) /\ Len(a \o u) = Len(a) + Len(u)
        /\ \A i \in 1 .. Len(a) + Len(u) : (a \o u)[i] = IF i <= Len(a) THEN a[i] ELSE u[i - Len(a)]
    BY <1>1, <2>1, ConcatProperties, Zenon
  <2>3. a \o u \in Seq(V) /\ Len(a \o u) = 5 /\ (a \o u)[1] = frameType
    BY <1>1, <2>1, <2>2
  <2>4. \A i \in 1 .. 4 : (a \o u)[1 + i] = u[i]
    BY <1>1, <2>1, <2>2
  <2> QED BY <2>3, <2>4, Zenon DEF a
<1> HIDE DEF h
<1>4. /\ h \o p \in Seq(V) /\ Len(h \o p) = 5 + Len(p)
      /\ \A i \in 1 .. 5 + Len(p) : (h \o p)[i] = IF i <= 5 THEN h[i] ELSE p[i - 5]
  <2>1. /\ h \o p \in Seq(V) /\ Len(h \o p) = Len(h) + Len(p)
        /\ \A i \in 1 .. Len(h) + Len(p) : (h \o p)[i] = IF i <= Len(h) THEN h[i] ELSE p[i - Len(h)]
    BY <1>2, <1>3, ConcatProperties, Zenon
  <2> QED BY <1>3, <2>1, Zenon
<1>5. /\ (h \o p)[1] = frameType /\ \A i \in 1 .. 4 : (h \o p)[1 + i] = u[i]
      /\ \A i \in 1 .. Len(p) : (h \o p)[5 + i] = p[i]
  BY <1>2, <1>3, <1>4
<1>6. EncodeFrame(frameType, p) = h \o p
  BY Zenon DEF EncodeFrame, h, u
<1> QED BY <1>4, <1>5, <1>6, Zenon DEF LaidOut, u, V

\* What DecodeFrame makes of as much of a frame as has come.
LEMMA FrameRead ==
  ASSUME NEW frameType, NEW P, NEW p \in Seq(P), NEW n \in 0 .. HeaderSize + Len(p)
  PROVE  LET f == EncodeFrame(frameType, p)
             length == Len(p) % Width
             d == DecodeFrame(SubSeq(f, 1, n))
         IN  /\ n < HeaderSize + length => ~d.ok
             /\ n >= HeaderSize + length =>
                  d = [ok |-> TRUE, type |-> frameType, payload |-> SubSeq(p, 1, length)]
<1> DEFINE V == P \cup {frameType} \cup Int
           f == EncodeFrame(frameType, p)
           g == SubSeq(f, 1, n)
           u == PutUint32(Len(p))
           length == Len(p) % Width
<1>1. /\ f \in Seq(V) /\ Len(f) = 5 + Len(p) /\ f[1] = frameType
      /\ \A i \in 1 .. 4 : f[1 + i] = u[i]
      /\ \A i \in 1 .. Len(p) : f[5 + i] = p[i]
  <2>1. f \in Seq(V) /\ LaidOut(f, frameType, p)
    BY FrameBytes, Zenon
  <2> QED BY <2>1, Zenon DEF LaidOut
<1>2. Len(p) \in Nat /\ n \in 0 .. 5 + Len(p) /\ length \in 0 .. Len(p)
  BY DigitsRead DEF HeaderSize
<1> HIDE DEF f, V, length
<1>3. g \in Seq(V) /\ Len(g) = n /\ \A i \in 1 .. n : g[i] = f[i]
  <2>1. 1 \in 1 .. Len(f) + 1 /\ n \in 1 - 1 .. Len(f) /\ n - 1 + 1 = n
    BY <1>1, <1>2
  <2>2. g \in Seq(V) /\ Len(g) = n - 1 + 1 /\ \A i \in 1 .. n - 1 + 1 : g[i] = f[1 - 1 + i]
    BY <1>1, <2>1, PartOfText
  <2>3. \A i \in 1 .. n : 1 - 1 + i = i
    BY <1>2
  <2> QED BY <2>1, <2>2, <2>3, Zenon
<1> HIDE DEF g
<1>4. CASE n < 5
  <2>1. DecodeFrame(g) = Failed
    BY <1>3, <1>4, Zenon DEF DecodeFrame, HeaderSize
  <2>2. n < 5 + length /\ ~(n >= 5 + length)
    BY <1>2, <1>4
  <2> QED BY <2>1, <2>2 DEF Failed, HeaderSize, f, g, length
<1>5. CASE n >= 5
  <2> DEFINE head == SubSeq(g, 2, 5)
  <2>1. \A i \in 1 .. 4 : head[i] = g[1 + i]
    <3>1. 2 \in 1 .. Len(g) + 1 /\ 5 \in 2 - 1 .. Len(g) /\ 5 - 2 + 1 = 4 /\ 2 - 1 = 1
      BY <1>2, <1>3, <1>5
    <3> QED BY <1>3, <3>1, PartOfText
  <2>2. /\ head[1] = u[1] /\ head[2] = u[2] /\ head[3] = u[3] /\ head[4] = u[4]
    BY <1>1, <1>2, <1>3, <1>5, <2>1
  <2> HIDE DEF head, u
  <2>3. Uint32(head) = length
    <3>1. Uint32(head) = Uint32(u)
      BY <2>2 DEF Uint32
    <3>2. Uint32(u) = length
      BY <1>2, DigitsRead, Zenon DEF u, length
    <3> QED BY <3>1, <3>2, Zenon
  <2>4. DecodeFrame(g) = IF n < 5 \/ n < 5 + length THEN Failed
                         ELSE [ok |-> TRUE, type |-> g[1], payload |-> SubSeq(g, 5 + 1, 5 + length)]
    BY <1>3, <2>3, Zenon DEF DecodeFrame, HeaderSize, head
  <2>5. CASE n < 5 + length
    <3>1. DecodeFrame(g) = Failed /\ ~(n >= 5 + length)
      BY <1>2, <2>4, <2>5
    <3> QED BY <2>5, <3>1 DEF Failed, HeaderSize, f, g, length
  <2>6. CASE n >= 5 + length
    <3> DEFINE a == SubSeq(g, 5 + 1, 5 + length)
               b == SubSeq(p, 1, length)
    <3>1. ~(n < 5 \/ n < 5 + length) /\ g[1] = frameType
      BY <1>1, <1>2, <1>3, <1>5, <2>6
    <3>2. a \in Seq(V) /\ Len(a) = length /\ \A i \in 1 .. length : a[i] = g[5 + i]
      <4>1. /\ 5 + 1 \in 1 .. Len(g) + 1 /\ 5 + length \in (5 + 1) - 1 .. Len(g)
            /\ (5 + length) - (5 + 1) + 1 = length /\ (5 + 1) - 1 = 5
        BY <1>2, <1>3, <2>6
      <4> QED BY <1>3, <4>1, PartOfText
    <3>3. b \in Seq(P) /\ Len(b) = length /\ \A i \in 1 .. length : b[i] = p[i]
      <4>1. /\ 1 \in 1 .. Len(p) + 1 /\ length \in 1 - 1 .. Len(p) /\ length - 1 + 1 = length
            /\ \A i \in 1 .. length : 1 - 1 + i = i
        BY <1>2
      <4> QED BY <4>1, PartOfText
    <3>4. \A i \in 1 .. length : a[i] = b[i]
      BY <1>1, <1>2, <1>3, <2>6, <3>2, <3>3
    <3> HIDE DEF a, b
    <3>5. b \in Seq(V)
      BY <3>3 DEF V
    <3>6. a = b
      BY <3>2, <3>3, <3>4, <3>5, SeqEqual, Zenon
    <3>7. DecodeFrame(g) = [ok |-> TRUE, type |-> frameType, payload |-> b]
      BY <2>4, <3>1, <3>6, Zenon DEF a
    <3>8. ~(n < 5 + length)
      BY <3>1
    <3> QED BY <3>7, <3>8 DEF HeaderSize, b, f, g, length
  <2>7. n < 5 + length \/ n >= 5 + length
    BY <1>2
  <2> QED BY <2>5, <2>6, <2>7, Zenon
<1> QED BY <1>2, <1>4, <1>5

\* A payload comes back from its frame up to the width of the length.
THEOREM FramesComeBack ==
  ASSUME NEW frameType, NEW P, NEW p \in Seq(P)
  PROVE  RoundTrip(frameType, p)
<1> DEFINE f == EncodeFrame(frameType, p)
           n == HeaderSize + Len(p)
<1>1. f \in Seq(P \cup {frameType} \cup Int) /\ Len(f) = n
  BY FrameBytes, Zenon DEF LaidOut, HeaderSize
<1>2. Len(p) \in Nat /\ Len(p) % Width \in 0 .. Len(p) /\ HeaderSize = 5
  BY DigitsRead DEF HeaderSize
<1>3. SubSeq(f, 1, n) = f
  BY <1>1
<1>4. n \in 0 .. HeaderSize + Len(p) /\ n >= HeaderSize + (Len(p) % Width)
  BY <1>2
<1>5. DecodeFrame(f) = [ok |-> TRUE, type |-> frameType, payload |-> SubSeq(p, 1, Len(p) % Width)]
  BY <1>3, <1>4, FrameRead, Zenon
<1> DEFINE d == DecodeFrame(f)
           whole == SubSeq(p, 1, Len(p) % Width)
<1> HIDE DEF f, n, d, whole
<1>6. d = [ok |-> TRUE, type |-> frameType, payload |-> whole]
  BY <1>5 DEF d, whole
<1>7. d.ok
  BY <1>6
<1>8. d.type = frameType /\ d.payload = whole
  BY <1>6
<1> QED BY <1>7, <1>8, Zenon DEF RoundTrip, d, f, whole

\* DecodeFrame refuses every frame that is cut short.
THEOREM FramesAreWhole ==
  ASSUME NEW frameType, NEW P, NEW p \in Seq(P)
  PROVE  NoPartialFrame(frameType, p)
<1> DEFINE f == EncodeFrame(frameType, p)
<1> SUFFICES ASSUME Len(p) < Width, NEW n \in 0 .. Len(f) - 1
             PROVE  ~DecodeFrame(SubSeq(f, 1, n)).ok
  BY DEF NoPartialFrame
<1>1. Len(f) = HeaderSize + Len(p)
  BY FrameBytes, Zenon DEF LaidOut, HeaderSize
<1>2. Len(p) \in Nat /\ Len(p) % Width = Len(p) /\ HeaderSize = 5
  BY DigitsRead DEF HeaderSize
<1>3. n \in 0 .. HeaderSize + Len(p) /\ n < HeaderSize + (Len(p) % Width)
  BY <1>1, <1>2
<1> QED BY <1>3, FrameRead, Zenon
-----------------------------------------------------------------------------
(* Ports *)

\* A suffix, position by position.
LEMMA SuffixAt ==
  ASSUME NEW C, NEW s \in Seq(C), NEW t \in Seq(C)
  PROVE  HasSuffix(s, t) <=>
           /\ Len(t) <= Len(s)
           /\ \A i \in 1 .. Len(t) : s[Len(s) - Len(t) + i] = t[i]
<1>0. Len(s) \in Nat /\ Len(t) \in Nat
  OBVIOUS
<1>1. CASE Len(t) <= Len(s)
  <2> DEFINE m == Len(s) - Len(t) + 1
             sub == SubSeq(s, m, Len(s))
  <2>1. m \in Int /\ Len(s) \in Int /\ \A i \in m .. Len(s) : s[i] \in C
    BY <1>0, <1>1
  <2>2. /\ sub \in Seq(C) /\ Len(sub) = Len(t)
        /\ \A i \in 1 .. Len(t) : sub[i] = s[Len(s) - Len(t) + i]
    BY <1>0, <1>1, <2>1, SubSeqProperties
  <2> HIDE DEF sub
  <2>3. sub = t <=> \A i \in 1 .. Len(t) : sub[i] = t[i]
    BY <2>2, SeqEqual, Zenon
  <2> QED BY <1>1, <2>2, <2>3, Zenon DEF HasSuffix, sub
<1> QED BY <1>1 DEF HasSuffix

\* The last separator of a text tells where its last part begins.
LEMMA LastPart ==
  ASSUME NEW C, NEW a \in Seq(C), NEW s \in Seq(C), NEW t \in Seq(C), NEW c \in C,
         ~Contains(s, c), ~Contains(t, c)
  PROVE  HasSuffix(a \o <<c>> \o s, <<c>> \o t) <=> s = t
<1> DEFINE T == a \o <<c>> \o s
           U == <<c>> \o t
<1>0. /\ Len(a) \in Nat /\ Len(s) \in Nat /\ Len(t) \in Nat
      /\ \A i \in 1 .. Len(s) : s[i] # c
      /\ \A i \in 1 .. Len(t) : t[i] # c
  BY DEF Contains
<1>1. /\ T \in Seq(C) /\ Len(T) = Len(a) + 1 + Len(s) /\ T[Len(a) + 1] = c
      /\ \A i \in 1 .. Len(s) : T[Len(a) + 1 + i] = s[i]
  BY JoinedText
<1>2. /\ U \in Seq(C) /\ Len(U) = 1 + Len(t) /\ U[1] = c
      /\ \A i \in 1 .. Len(t) : U[1 + i] = t[i]
  BY PrefixedText
<1> HIDE DEF T, U
<1>suffix. HasSuffix(T, U) <=> /\ Len(U) <= Len(T)
                               /\ \A i \in 1 .. Len(U) : T[Len(T) - Len(U) + i] = U[i]
  <2>1. T \in Seq(C) /\ U \in Seq(C)
    BY <1>1, <1>2, Zenon
  <2> QED BY <2>1, SuffixAt
<1>3. ASSUME HasSuffix(T, U) PROVE s = t
  <2>1. \A i \in 1 .. Len(U) : T[Len(T) - Len(U) + i] = U[i]
    BY <1>3, <1>suffix, Zenon
  <2>2. ~(Len(t) < Len(s))
    <3> SUFFICES ASSUME Len(t) < Len(s) PROVE FALSE
      OBVIOUS
    <3>1. T[Len(T) - Len(U) + 1] = c
      BY <1>0, <1>2, <2>1
    <3>2. Len(s) - Len(t) \in 1 .. Len(s) /\ Len(T) - Len(U) + 1 = Len(a) + 1 + (Len(s) - Len(t))
      BY <1>0, <1>1, <1>2
    <3> QED BY <1>0, <1>1, <3>1, <3>2, ZenonT(30)
  <2>3. ~(Len(s) < Len(t))
    <3> SUFFICES ASSUME Len(s) < Len(t) PROVE FALSE
      OBVIOUS
    <3> DEFINE d == Len(t) - Len(s)
    <3>1. d \in 1 .. Len(t) /\ Len(T) - Len(U) + (1 + d) = Len(a) + 1 /\ 1 + d \in 1 .. Len(U)
      BY <1>0, <1>1, <1>2
    <3> HIDE DEF d
    <3>2. U[1 + d] = t[d]
      BY <1>2, <3>1, Zenon
    <3> QED BY <1>0, <1>1, <2>1, <3>1, <3>2, Zenon
  <2>4. Len(s) = Len(t)
    BY <1>0, <2>2, <2>3
  <2>5. \A i \in 1 .. Len(s) : s[i] = t[i]
    <3> TAKE i \in 1 .. Len(s)
    <3>1. 1 + i \in 1 .. Len(U) /\ Len(T) - Len(U) + (1 + i) = Len(a) + 1 + i
      BY <1>0, <1>1, <1>2, <2>4
    <3> QED BY <1>1, <1>2, <2>1, <2>4, <3>1, Zenon
  <2> QED BY <2>4, <2>5, SeqEqual, Zenon
<1>4. ASSUME s = t PROVE HasSuffix(T, U)
  <2>1. \A i \in 1 .. Len(U) : T[Len(T) - Len(U) + i] = U[i]
    <3> TAKE i \in 1 .. Len(U)
    <3>1. i \in Int /\ 1 <= i /\ i <= 1 + Len(s) /\ Len(T) - Len(U) + i = Len(a) + i
      BY <1>0, <1>1, <1>2, <1>4
    <3>2. CASE i = 1
      BY <1>1, <1>2, <3>1, <3>2, Zenon
    <3>3. CASE i # 1
      <4>1. i - 1 \in 1 .. Len(s) /\ 1 + (i - 1) = i /\ Len(a) + 1 + (i - 1) = Len(a) + i
        BY <1>0, <3>1, <3>3
      <4> QED BY <1>1, <1>2, <1>4, <3>1, <4>1, ZenonT(40)
    <3> QED BY <3>2, <3>3, Zenon
  <2>2. Len(U) <= Len(T)
    BY <1>0, <1>1, <1>2, <1>4
  <2> QED BY <2>1, <2>2, <1>suffix, Zenon
<1> QED BY <1>3, <1>4, Zenon DEF T, U

\* resolvePort sends a request to the port of its own tunnel if no subdomain has
\* a dash, for any number of tunnels, in any order, with names of any length and
\* whatever the connection is called.
THEOREM PortsAreRight ==
  ASSUME NEW Char, NEW Port, NEW connID \in Seq(Char),
         NEW tunnels \in Seq([subdomain : Seq(Char), port : Port])
  PROVE  PortIsRight(tunnels, connID)
<1> SUFFICES ASSUME \A i \in DOMAIN tunnels : ~Contains(tunnels[i].subdomain, "-"),
                    NEW i \in DOMAIN tunnels,
                    \A j \in 1 .. i - 1 : tunnels[j].subdomain # tunnels[i].subdomain
             PROVE  ResolvePort(tunnels, TunnelID(connID, tunnels[i].subdomain)) = tunnels[i].port
  BY DEF PortIsRight
<1> DEFINE target == TunnelID(connID, tunnels[i].subdomain)
           match == {k \in DOMAIN tunnels : HasSuffix(target, <<"-">> \o tunnels[k].subdomain)}
           C == Char \cup {"-"}
<1>1. /\ DOMAIN tunnels = 1 .. Len(tunnels) /\ Len(tunnels) \in Nat
      /\ connID \in Seq(C) /\ \A k \in DOMAIN tunnels : tunnels[k].subdomain \in Seq(C)
  <2>1. \A k \in DOMAIN tunnels : tunnels[k] \in [subdomain : Seq(Char), port : Port]
    <3> TAKE k \in DOMAIN tunnels
    <3>1. k \in 1 .. Len(tunnels)
      BY LenProperties
    <3> QED BY <3>1, ElementOfSeq, Zenon
  <2>2. \A k \in DOMAIN tunnels : tunnels[k].subdomain \in Seq(Char)
    BY <2>1
  <2>3. Char \subseteq C
    OBVIOUS
  <2>4. \A w \in Seq(Char) : w \in Seq(C)
    BY <2>3, SeqMonotonic
  <2> QED BY <2>2, <2>4
<1>2. \A k \in DOMAIN tunnels : k \in match <=> tunnels[i].subdomain = tunnels[k].subdomain
  <2> TAKE k \in DOMAIN tunnels
  <2>1. "-" \in C
    OBVIOUS
  <2> HIDE DEF C
  <2> QED BY <1>1, <2>1, LastPart DEF TunnelID
<1>3. i \in match /\ \A k \in match : k \in 1 .. Len(tunnels) /\ i <= k
  <2>1. \A k \in match : k \in 1 .. Len(tunnels) /\ tunnels[k].subdomain = tunnels[i].subdomain
    BY <1>1, <1>2
  <2>2. \A k \in match : ~(k \in 1 .. i - 1)
    BY <2>1
  <2>3. \A k \in match : i <= k
    BY <1>1, <2>1, <2>2
  <2> QED BY <1>2, <2>1, <2>3, Zenon
<1> HIDE DEF match
<1>4. Min(match) \in match /\ \A y \in match : Min(match) <= y
  <2>1. match \subseteq Nat /\ match # {}
    BY <1>3
  <2> QED BY <2>1, MinIsLeast, Zenon
<1>5. Min(match) = i
  BY <1>1, <1>3, <1>4
<1>6. match # {}
  BY <1>3
<1> QED BY <1>5, <1>6, Zenon DEF ResolvePort, match
-----------------------------------------------------------------------------
(* Hosts *)

\* strings.ToLower, character by character.
Lower(c) == IF c \in DOMAIN LowerOf THEN LowerOf[c] ELSE c

\* Only letters change, and lower-case letters do not.
LEMMA LowerCharacters ==
  ASSUME NEW c
  PROVE  /\ Lower(Lower(c)) = Lower(c)
         /\ \A x \in {".", ":"} : Lower(c) = x <=> c = x
         /\ Lower(c) \in {c, "a", "p"}
BY DEF Lower, LowerOf

\* A text in lower case is as long as it was.
LEMMA LowerText ==
  ASSUME NEW C, {"a", "p"} \subseteq C, NEW s \in Seq(C)
  PROVE  /\ ToLower(s) \in Seq(C) /\ Len(ToLower(s)) = Len(s)
         /\ \A i \in 1 .. Len(s) : ToLower(s)[i] = Lower(s[i])
<1>1. Len(s) \in Nat /\ DOMAIN s = 1 .. Len(s) /\ \A i \in 1 .. Len(s) : s[i] \in C
  OBVIOUS
<1>2. \A c \in C : Lower(c) \in C
  BY LowerCharacters
<1>3. ToLower(s) = [i \in 1 .. Len(s) |-> Lower(s[i])]
  BY <1>1 DEF ToLower, Lower
<1> DEFINE n == Len(s)
           t == [i \in 1 .. n |-> Lower(s[i])]
<1>4. t \in [1 .. n -> C]
  BY <1>1, <1>2
<1> HIDE DEF t
<1>5. t \in Seq(C) /\ Len(t) = n
  BY <1>1, <1>4
<1> QED BY <1>3, <1>5 DEF t

\* strings.TrimSpace keeps everything from the first to the last character that
\* is no space.
LEMMA TrimmedText ==
  ASSUME NEW C, NEW s \in Seq(C), NEW k \in 1 .. Len(s), s[k] # " "
  PROVE  \E m, n \in 1 .. Len(s) :
           /\ m <= n /\ TrimSpace(s) = SubSeq(s, m, n) /\ s[m] # " " /\ s[n] # " "
           /\ \A i \in 1 .. Len(s) : s[i] # " " => m <= i /\ i <= n
<1> DEFINE ink == {i \in DOMAIN s : s[i] # " "}
<1>1. Len(s) \in Nat /\ DOMAIN s = 1 .. Len(s)
  BY LenProperties, Zenon
<1>2. ink \subseteq 1 .. Len(s) /\ ink \subseteq Nat /\ ink # {}
  <2>1. ink \subseteq 1 .. Len(s) /\ k \in ink
    BY <1>1, Zenon
  <2>2. \A i \in 1 .. Len(s) : i \in Nat
    BY <1>1, Positions, Zenon
  <2> QED BY <2>1, <2>2, Zenon
<1>3. TrimSpace(s) = SubSeq(s, Min(ink), Max(ink))
  BY <1>2, Zenon DEF TrimSpace
<1>4. \A i \in 1 .. Len(s) : i \in ink <=> s[i] # " "
  BY <1>1, Zenon
<1> HIDE DEF ink
<1>5. Min(ink) \in ink /\ \A i \in ink : Min(ink) <= i
  BY <1>2, MinIsLeast, Zenon
<1>6. Max(ink) \in ink /\ \A i \in ink : Max(ink) >= i
  BY <1>1, <1>2, MaxIsGreatest, Zenon
<1>7. \A i \in 1 .. Len(s) : s[i] # " " => Min(ink) <= i /\ i <= Max(ink)
  BY <1>2, <1>4, <1>5, <1>6, Zenon
<1>8. Min(ink) <= Max(ink)
  BY <1>5, <1>6, Zenon
<1> QED BY <1>2, <1>3, <1>4, <1>5, <1>6, <1>7, <1>8, ZenonT(30)

\* What ExtractSubdomain looks at is text.
LEMMA NormalText ==
  ASSUME NEW C, {"a", "p"} \subseteq C, NEW s \in Seq(C)
  PROVE  TrimSpace(s) \in Seq(C) /\ ToLower(TrimSpace(s)) \in Seq(C)
<1>1. TrimSpace(s) \in Seq(C)
  <2>1. CASE \E k \in 1 .. Len(s) : s[k] # " "
    <3>1. PICK m, n \in 1 .. Len(s) : m <= n /\ TrimSpace(s) = SubSeq(s, m, n)
      BY <2>1, TrimmedText, Zenon
    <3>2. m \in 1 .. Len(s) + 1 /\ n \in m - 1 .. Len(s)
      BY <3>1
    <3> QED BY <3>1, <3>2, PartOfText, Zenon
  <2>2. CASE ~\E k \in 1 .. Len(s) : s[k] # " "
    <3>0. DOMAIN s = 1 .. Len(s)
      BY LenProperties
    <3>1. {i \in DOMAIN s : s[i] # " "} = {}
      BY <2>2, <3>0, Zenon
    <3>2. TrimSpace(s) = <<>>
      BY <3>1, Zenon DEF TrimSpace
    <3> QED BY <3>2
  <2> QED BY <2>1, <2>2, Zenon
<1> QED BY <1>1, LowerText

\* What has something else than digits and signs in it is no number, and a
\* number ends in a digit.
LEMMA Numbers ==
  ASSUME NEW C, NEW s \in Seq(C), IsNumber(s)
  PROVE  /\ s # <<>> /\ s[Len(s)] \in Digits
         /\ \A i \in 1 .. Len(s) : s[i] \in Digits \cup {"-", "+"}
<1> DEFINE signed == s # <<>> /\ Head(s) \in {"-", "+"}
<1>0. Len(s) \in Nat
  BY LenProperties
<1>1. CASE signed
  <2>1. /\ s # <<>> /\ Tail(s) \in Seq(C) /\ Len(Tail(s)) = Len(s) - 1 /\ Len(s) >= 1
        /\ \A i \in 1 .. Len(Tail(s)) : Tail(s)[i] = s[i + 1]
        /\ s[1] \in {"-", "+"}
    BY <1>0, <1>1, HeadTailProperties
  <2>2. Tail(s) # <<>> /\ \A i \in 1 .. Len(Tail(s)) : Tail(s)[i] \in Digits
    <3>1. Tail(s) # <<>> /\ \A i \in DOMAIN Tail(s) : Tail(s)[i] \in Digits
      BY <1>1 DEF IsNumber
    <3>2. DOMAIN Tail(s) = 1 .. Len(Tail(s))
      BY <2>1, LenProperties
    <3> QED BY <3>1, <3>2, Zenon
  <2>3. \A i \in 1 .. Len(s) - 1 : s[i + 1] \in Digits
    BY <2>1, <2>2
  <2>4. Len(s) - 1 \in 1 .. Len(s) - 1
    BY <1>0, <2>1, <2>2, EmptySeq
  <2>5. s[Len(s)] \in Digits
    BY <1>0, <2>3, <2>4
  <2>6. \A i \in 1 .. Len(s) : i = 1 \/ (i - 1 \in 1 .. Len(s) - 1 /\ i = (i - 1) + 1)
    BY <1>0
  <2> QED BY <2>1, <2>3, <2>5, <2>6, Zenon
<1>2. CASE ~signed
  <2>1. s # <<>> /\ \A i \in DOMAIN s : s[i] \in Digits
    BY <1>2 DEF IsNumber
  <2>2. DOMAIN s = 1 .. Len(s) /\ Len(s) \in 1 .. Len(s)
    BY <1>0, <2>1, LenProperties, EmptySeq
  <2> QED BY <2>1, <2>2
<1> QED BY <1>1, <1>2

\* Nothing is cut off if no colon is followed by a number.
LEMMA NoPortToStrip ==
  ASSUME NEW C, NEW host \in Seq(C),
         \A i \in 1 .. Len(host) : host[i] = ":" => ~IsNumber(SubSeq(host, i + 1, Len(host)))
  PROVE  StripPort(host) = host
<1> DEFINE colons == {i \in DOMAIN host : host[i] = ":"}
<1>1. Len(host) \in Nat /\ DOMAIN host = 1 .. Len(host)
  BY LenProperties
<1>2. CASE colons = {}
  BY <1>2 DEF StripPort
<1>3. CASE colons # {}
  <2>1. colons \subseteq 1 .. Len(host)
    BY <1>1
  <2>2. Max(colons) \in colons
    <3> HIDE DEF colons
    <3> QED BY <1>1, <1>3, <2>1, MaxIsGreatest, Zenon
  <2>3. ~IsNumber(SubSeq(host, Max(colons) + 1, Len(host)))
    BY <1>1, <2>2, Zenon
  <2> QED BY <2>3 DEF StripPort
<1> QED BY <1>2, <1>3

\* The number that follows a colon is cut off with it; there is one such colon
\* at most.
LEMMA PortToStrip ==
  ASSUME NEW C, NEW host \in Seq(C), NEW i \in 1 .. Len(host), host[i] = ":",
         IsNumber(SubSeq(host, i + 1, Len(host)))
  PROVE  /\ StripPort(host) = SubSeq(host, 1, i - 1)
         /\ \A j \in 1 .. Len(host) : i < j => host[j] \in Digits \cup {"-", "+"}
         /\ i < Len(host) /\ host[Len(host)] \in Digits
<1> DEFINE colons == {j \in DOMAIN host : host[j] = ":"}
           rest == SubSeq(host, i + 1, Len(host))
           n == Len(host) - i
<1>1. Len(host) \in Nat /\ DOMAIN host = 1 .. Len(host) /\ i \in Nat /\ n \in Nat /\ 1 <= i
  BY LenProperties
<1>2. rest \in Seq(C) /\ Len(rest) = n /\ \A j \in 1 .. n : rest[j] = host[i + j]
  <2>1. i + 1 \in 1 .. Len(host) + 1 /\ Len(host) \in (i + 1) - 1 .. Len(host)
    BY <1>1
  <2>2. /\ rest \in Seq(C) /\ Len(rest) = Len(host) - (i + 1) + 1
        /\ \A j \in 1 .. Len(host) - (i + 1) + 1 : rest[j] = host[(i + 1) - 1 + j]
    BY <2>1, PartOfText
  <2>3. Len(host) - (i + 1) + 1 = n /\ \A j \in 1 .. n : (i + 1) - 1 + j = i + j
    BY <1>1
  <2> HIDE DEF rest
  <2> QED BY <2>2, <2>3, Zenon
<1>3. /\ rest # <<>> /\ rest[Len(rest)] \in Digits
      /\ \A j \in 1 .. Len(rest) : rest[j] \in Digits \cup {"-", "+"}
  BY <1>2, Numbers, Zenon
<1>4. 1 <= n
  <2> HIDE DEF rest
  <2>1. Len(rest) \in Nat \ {0}
    BY <1>2, <1>3, EmptySeq, Zenon
  <2> QED BY <1>2, <2>1
<1>5. \A j \in 1 .. Len(host) : i < j => host[j] \in Digits \cup {"-", "+"}
  <2> SUFFICES ASSUME NEW j \in 1 .. Len(host), i < j PROVE host[j] \in Digits \cup {"-", "+"}
    OBVIOUS
  <2>1. j - i \in 1 .. n /\ i + (j - i) = j
    BY <1>1
  <2> QED BY <1>2, <1>3, <2>1, Zenon
<1>6. host[Len(host)] \in Digits /\ i < Len(host)
  <2>1. n \in 1 .. n /\ i + n = Len(host) /\ i < Len(host)
    BY <1>1, <1>4
  <2> QED BY <1>2, <1>3, <2>1, Zenon
<1>7. i \in colons /\ \A j \in colons : j \in Nat /\ j <= i
  <2>1. i \in colons
    BY <1>1
  <2>2. \A j \in colons : j \in 1 .. Len(host) /\ host[j] = ":"
    BY <1>1
  <2>3. ":" \notin Digits \cup {"-", "+"}
    BY DEF Digits
  <2>4. \A j \in colons : ~(i < j)
    BY <1>5, <2>2, <2>3, Zenon
  <2> HIDE DEF colons
  <2> QED BY <1>1, <2>1, <2>2, <2>4
<1>8. Max(colons) = i
  <2> HIDE DEF colons
  <2>1. colons \subseteq 1 .. i
    BY <1>1, <1>7, LenProperties DEF colons
  <2>2. Max(colons) \in colons /\ \A y \in colons : Max(colons) >= y
    BY <1>1, <1>7, <2>1, MaxIsGreatest, Zenon
  <2>3. Max(colons) \in Nat /\ Max(colons) <= i /\ Max(colons) >= i
    BY <1>7, <2>2, Zenon
  <2> QED BY <1>1, <2>3
<1>9. StripPort(host) = SubSeq(host, 1, i - 1)
  BY <1>7, <1>8, Zenon DEF StripPort
<1> QED BY <1>5, <1>6, <1>9, Zenon

\* A text reads as a label, a dot and a name exactly if it ends in them, and
\* then the label is what comes before.
Reads(h, w, pub) == h = w \o <<".">> \o pub
Ends(h, w, pub) ==
  HasSuffix(h, <<".">> \o pub) /\ w = SubSeq(h, 1, Len(h) - Len(<<".">> \o pub))

\* Two ways to say it.
LEMMA Labelled ==
  ASSUME NEW C, "." \in C, NEW h \in Seq(C), NEW w \in Seq(C), NEW pub \in Seq(C)
  PROVE  Reads(h, w, pub) <=> Ends(h, w, pub)
<1> DEFINE T == w \o <<".">> \o pub
           U == <<".">> \o pub
           n == Len(h) - Len(U)
           P == SubSeq(h, 1, n)
<1>0. Len(h) \in Nat /\ Len(w) \in Nat /\ Len(pub) \in Nat
  BY LenProperties
<1>1. /\ T \in Seq(C) /\ Len(T) = Len(w) + 1 + Len(pub) /\ T[Len(w) + 1] = "."
      /\ \A i \in 1 .. Len(w) : T[i] = w[i]
      /\ \A i \in 1 .. Len(pub) : T[Len(w) + 1 + i] = pub[i]
  BY JoinedText
<1>2. /\ U \in Seq(C) /\ Len(U) = 1 + Len(pub) /\ U[1] = "."
      /\ \A i \in 1 .. Len(pub) : U[1 + i] = pub[i]
  BY PrefixedText
<1> HIDE DEF T, U
<1>3. HasSuffix(h, U) <=> Len(U) <= Len(h) /\ \A i \in 1 .. Len(U) : h[n + i] = U[i]
  <2>1. U \in Seq(C)
    BY <1>2
  <2> QED BY <2>1, SuffixAt
<1>4. ASSUME Len(U) <= Len(h)
      PROVE  n \in Nat /\ P \in Seq(C) /\ Len(P) = n /\ \A i \in 1 .. n : P[i] = h[i]
  <2>1. n \in Nat /\ n <= Len(h)
    BY <1>0, <1>2, <1>4
  <2> HIDE DEF n
  <2>2. \A i \in 1 .. n : h[i] \in C /\ 1 + i - 1 = i
    BY <1>0, <2>1
  <2>3. /\ P \in Seq(C) /\ Len(P) = (IF 1 <= n THEN n - 1 + 1 ELSE 0)
        /\ \A i \in 1 .. n - 1 + 1 : P[i] = h[1 + i - 1]
    BY <2>1, <2>2, SubSeqProperties
  <2> HIDE DEF P
  <2>4. n - 1 + 1 = n /\ (IF 1 <= n THEN n - 1 + 1 ELSE 0) = n
    BY <2>1
  <2> QED BY <2>1, <2>2, <2>3, <2>4, Zenon
<1>5. ASSUME h = T PROVE HasSuffix(h, U) /\ w = P
  <2>1. Len(U) <= Len(h) /\ n = Len(w)
    BY <1>0, <1>1, <1>2, <1>5
  <2>2. \A i \in 1 .. Len(U) : h[n + i] = U[i]
    <3> SUFFICES ASSUME NEW i \in 1 .. Len(U) PROVE T[Len(w) + i] = U[i]
      BY <1>5, <2>1, Zenon
    <3>1. CASE i = 1
      BY <1>1, <1>2, <3>1, Zenon
    <3>2. CASE i # 1
      <4>1. i - 1 \in 1 .. Len(pub) /\ Len(w) + 1 + (i - 1) = Len(w) + i /\ 1 + (i - 1) = i
        BY <1>0, <1>2, <3>2
      <4> QED BY <1>1, <1>2, <4>1, ZenonT(30)
    <3> QED BY <3>1, <3>2, Zenon
  <2>3. P \in Seq(C) /\ Len(P) = Len(w) /\ \A i \in 1 .. Len(w) : P[i] = w[i]
    BY <1>1, <1>4, <1>5, <2>1, Zenon
  <2> HIDE DEF P, n
  <2>4. w = P
    BY <2>3, SeqEqual, Zenon
  <2> QED BY <1>3, <2>1, <2>2, <2>4, Zenon
<1>6. ASSUME HasSuffix(h, U), w = P PROVE h = T
  <2>1. Len(U) <= Len(h) /\ \A i \in 1 .. Len(U) : h[n + i] = U[i]
    BY <1>3, <1>6, Zenon
  <2>2. n \in Nat /\ Len(w) = n /\ \A i \in 1 .. n : w[i] = h[i]
    BY <1>4, <1>6, <2>1, Zenon
  <2>3. Len(h) = Len(T)
    BY <1>0, <1>1, <1>2, <2>2
  <2>4. \A i \in 1 .. Len(h) : h[i] = T[i]
    <3> TAKE i \in 1 .. Len(h)
    <3>1. CASE i <= Len(w)
      BY <1>0, <1>1, <2>2, <3>1
    <3>2. CASE i = Len(w) + 1
      <4>1. 1 \in 1 .. Len(U) /\ n + 1 = i
        BY <1>0, <1>2, <2>2, <3>2
      <4> QED BY <1>1, <1>2, <2>1, <3>2, <4>1, Zenon
    <3>3. CASE i > Len(w) + 1
      <4> DEFINE j == i - (Len(w) + 1)
      <4>1. j \in 1 .. Len(pub) /\ Len(w) + 1 + j = i /\ 1 + j \in 1 .. Len(U) /\ n + (1 + j) = i
        BY <1>0, <1>1, <1>2, <2>2, <2>3, <3>3
      <4> HIDE DEF j, n
      <4> QED BY <1>1, <1>2, <2>1, <4>1
    <3> QED BY <1>0, <1>1, <2>3, <3>1, <3>2, <3>3, WhichPart, Zenon
  <2> QED BY <1>1, <2>3, <2>4, SeqEqual, Zenon
<1> QED BY <1>5, <1>6, Zenon DEF T, U, Reads, Ends

\* A text without spaces around it is not changed by strings.TrimSpace.
LEMMA NothingToTrim ==
  ASSUME NEW C, NEW s \in Seq(C), s # <<>>, s[1] # " ", s[Len(s)] # " "
  PROVE  TrimSpace(s) = s /\ Len(s) \in Nat \ {0}
<1>1. Len(s) \in Nat \ {0}
  BY EmptySeq, Zenon
<1>2. 1 \in 1 .. Len(s) /\ Len(s) \in 1 .. Len(s)
  BY <1>1, FirstAndLast, Zenon
<1>3. PICK m, n \in 1 .. Len(s) :
        /\ TrimSpace(s) = SubSeq(s, m, n)
        /\ \A i \in 1 .. Len(s) : s[i] # " " => m <= i /\ i <= n
  BY <1>2, TrimmedText, Zenon
<1>4. m <= 1 /\ Len(s) <= n
  BY <1>2, <1>3, Zenon
<1>5. m = 1 /\ n = Len(s)
  BY <1>1, <1>4, FirstAndLast, Zenon
<1> QED BY <1>1, <1>3, <1>5, SubSeqFull, ZenonT(30)

\* The public hostname as it is meant to be configured: a name in lower case,
\* without a port and without spaces around it.
PublicName(pub) ==
  /\ pub # <<>> /\ ToLower(pub) = pub /\ ~Contains(pub, ":")
  /\ pub[1] # " " /\ pub[Len(pub)] # " "

\* Such a name is not changed by extractSubdomain.
LEMMA PublicNameStays ==
  ASSUME NEW C, NEW pub \in Seq(C), PublicName(pub)
  PROVE  ToLower(TrimSpace(pub)) = pub /\ Len(pub) \in Nat \ {0}
BY NothingToTrim, Zenon DEF PublicName

\* What extractSubdomain returns: the label, if the host as it is normalised
\* reads as one label under the public name.
LEMMA ExtractedLabel ==
  ASSUME NEW C, {"a", "p", "."} \subseteq C, NEW host \in Seq(C), NEW pub \in Seq(C), PublicName(pub),
         NEW h \in Seq(C)
  PROVE  h = ToLower(TrimSpace(StripPort(host))) =>
         /\ \A w \in Seq(C) : Reads(h, w, pub) =>
              ExtractSubdomain(host, pub) = IF Contains(w, ".") THEN <<>> ELSE w
         /\ ExtractSubdomain(host, pub) # <<>> =>
              /\ Reads(h, ExtractSubdomain(host, pub), pub) /\ Ends(h, ExtractSubdomain(host, pub), pub)
              /\ ~Contains(ExtractSubdomain(host, pub), ".")
<1> DEFINE U == <<".">> \o pub
           P == SubSeq(h, 1, Len(h) - Len(U))
<1>1. ToLower(TrimSpace(pub)) = pub /\ pub # <<>>
  BY PublicNameStays, Zenon DEF PublicName
<1>2. h = ToLower(TrimSpace(StripPort(host))) =>
        ExtractSubdomain(host, pub) = IF ~HasSuffix(h, U) \/ Contains(P, ".") THEN <<>> ELSE P
  BY <1>1 DEF ExtractSubdomain
<1>3. "." \in C
  OBVIOUS
<1>4. \A w \in Seq(C) : h = w \o <<".">> \o pub <=> HasSuffix(h, U) /\ w = P
  <2>1. \A w \in Seq(C) : Reads(h, w, pub) <=> Ends(h, w, pub)
    BY <1>3, Labelled, Zenon
  <2> QED BY <2>1, Zenon DEF Reads, Ends
<1>5. HasSuffix(h, U) => P \in Seq(C)
  <2> SUFFICES ASSUME HasSuffix(h, U) PROVE P \in Seq(C)
    OBVIOUS
  <2>1. U \in Seq(C) /\ Len(U) \in Nat /\ Len(h) \in Nat
    BY <1>3, PrefixedText, LenProperties, Zenon
  <2>2. Len(U) <= Len(h)
    BY DEF HasSuffix
  <2> HIDE DEF U
  <2>3. 1 \in 1 .. Len(h) + 1 /\ Len(h) - Len(U) \in 1 - 1 .. Len(h)
    BY <2>1, <2>2
  <2> QED BY <2>3, PartOfText, Zenon
<1> HIDE DEF P, U
<1> SUFFICES ASSUME h = ToLower(TrimSpace(StripPort(host)))
             PROVE  /\ \A w \in Seq(C) : h = w \o <<".">> \o pub =>
                         ExtractSubdomain(host, pub) = IF Contains(w, ".") THEN <<>> ELSE w
                    /\ ExtractSubdomain(host, pub) # <<>> =>
                         /\ h = ExtractSubdomain(host, pub) \o <<".">> \o pub
                         /\ ~Contains(ExtractSubdomain(host, pub), ".")
                         /\ HasSuffix(h, U) /\ ExtractSubdomain(host, pub) = P
  BY Zenon DEF U, P, Reads, Ends
<1>6. \A w \in Seq(C) : h = w \o <<".">> \o pub =>
        ExtractSubdomain(host, pub) = IF Contains(w, ".") THEN <<>> ELSE w
  BY <1>2, <1>4, Zenon
<1>7. ExtractSubdomain(host, pub) # <<>> =>
        ExtractSubdomain(host, pub) = P /\ ~Contains(P, ".") /\ HasSuffix(h, U)
  BY <1>2, Zenon
<1>8. HasSuffix(h, U) => h = P \o <<".">> \o pub
  BY <1>4, <1>5, Zenon
<1> QED BY <1>6, <1>7, <1>8, Zenon

\* A host that ends in a port does not read as a label under the public name:
\* the last dot comes before the colon, which would then be in the name.
LEMMA PortsAreNotNames ==
  ASSUME NEW C, {"a", "p", "."} \subseteq C, NEW host \in Seq(C), NEW pub \in Seq(C), PublicName(pub),
         NEW i \in 1 .. Len(host), host[i] = ":", IsNumber(SubSeq(host, i + 1, Len(host))),
         NEW w \in Seq(C)
  PROVE  ToLower(TrimSpace(host)) # w \o <<".">> \o pub
<1> SUFFICES ASSUME ToLower(TrimSpace(host)) = w \o <<".">> \o pub PROVE FALSE
  OBVIOUS
<1> DEFINE l == Len(host)
           t == TrimSpace(host)
           T == w \o <<".">> \o pub
<1>0. l \in Nat /\ Len(w) \in Nat /\ Len(pub) \in Nat
  BY LenProperties
<1>1. /\ \A j \in 1 .. l : i < j => host[j] \in Digits \cup {"-", "+"}
      /\ i < l /\ host[l] \in Digits
  BY PortToStrip, Zenon
<1>2. host[l] # " " /\ l \in 1 .. l /\ \A x \in Digits \cup {"-", "+"} : x # "."
  <2>1. \A x \in Digits \cup {"-", "+"} : x # "." /\ x # " "
    BY Zenon DEF Digits
  <2>2. l \in 1 .. l
    BY <1>0, Placement, Zenon
  <2> QED BY <1>1, <2>1, <2>2, Zenon
<1>3. PICK m, n \in 1 .. l : /\ m <= n /\ t = SubSeq(host, m, n)
                             /\ \A j \in 1 .. l : host[j] # " " => m <= j /\ j <= n
  BY <1>2, TrimmedText, Zenon
<1>4. n = l /\ m \in 1 .. i /\ i \in Nat
  <2>1. l <= n /\ m <= i
    BY <1>2, <1>3, Zenon
  <2>2. n = l
    BY <1>0, <2>1, Placement, Zenon
  <2>3. m \in Nat /\ 1 <= m /\ i \in Nat
    BY <1>0, <1>3, Placement, Zenon
  <2> QED BY <2>1, <2>2, <2>3
<1> DEFINE k == l - m + 1
<1>5. t \in Seq(C) /\ Len(t) = k /\ \A j \in 1 .. k : t[j] = host[m - 1 + j]
  <2>1. m \in 1 .. l + 1 /\ l \in m - 1 .. l /\ t = SubSeq(host, m, l)
    BY <1>0, <1>3, <1>4, Placement, ZenonT(30)
  <2> DEFINE sub == SubSeq(host, m, l)
  <2>2. sub \in Seq(C) /\ Len(sub) = k /\ \A j \in 1 .. k : sub[j] = host[m - 1 + j]
    BY <2>1, PartOfText, Zenon
  <2> HIDE DEF sub
  <2> QED BY <2>1, <2>2, Zenon DEF sub
<1>6. \A j \in 1 .. k : T[j] = Lower(t[j])
  <2>1. {"a", "p"} \subseteq C
    OBVIOUS
  <2> HIDE DEF t, k
  <2>2. \A j \in 1 .. Len(t) : ToLower(t)[j] = Lower(t[j])
    BY <1>5, <2>1, LowerText, Zenon
  <2> QED BY <1>5, <2>2, Zenon DEF t
<1>7. Len(T) = k
  <2>1. {"a", "p"} \subseteq C
    OBVIOUS
  <2> HIDE DEF t, k
  <2>2. Len(ToLower(t)) = Len(t)
    BY <1>5, <2>1, LowerText, Zenon
  <2> QED BY <1>5, <2>2, Zenon DEF t
<1>8. /\ Len(T) = Len(w) + 1 + Len(pub) /\ T[Len(w) + 1] = "."
      /\ \A j \in 1 .. Len(pub) : T[Len(w) + 1 + j] = pub[j]
  <2>1. "." \in C
    OBVIOUS
  <2> QED BY <2>1, JoinedText
<1> HIDE DEF t, T
<1> DEFINE d == Len(w) + 1
           e == i - m + 1
<1>9. d \in 1 .. k /\ e \in 1 .. k /\ m - 1 + d \in 1 .. l /\ m - 1 + e = i /\ m \in Nat /\ k \in Nat
  <2>1. /\ m \in Nat /\ k \in Nat /\ e \in 1 .. k /\ m - 1 + e = i
        /\ \A x \in 1 .. k : m - 1 + x \in 1 .. l
    BY <1>0, <1>4, Placement, Zenon
  <2>2. d \in 1 .. k
    <3> HIDE DEF k
    <3> QED BY <1>0, <1>7, <1>8
  <2> QED BY <2>1, <2>2, Zenon
<1>10. host[m - 1 + d] = "."
  BY <1>5, <1>6, <1>8, <1>9, LowerCharacters, ZenonT(30)
<1>11. ~(i < m - 1 + d) /\ i # m - 1 + d
  BY <1>1, <1>2, <1>4, <1>9, <1>10, ZenonT(30)
<1>12. T[e] = ":"
  <2>1. T[e] = Lower(host[i])
    BY <1>5, <1>6, <1>9, ZenonT(40)
  <2>2. Lower(":") = ":"
    BY LowerCharacters
  <2> QED BY <2>1, <2>2, Zenon
<1>13. e - d \in 1 .. Len(pub) /\ d + (e - d) = e
  BY <1>0, <1>4, <1>7, <1>8, <1>9, <1>11
<1>14. pub[e - d] = ":"
  BY <1>8, <1>12, <1>13, Zenon
<1> QED BY <1>13, <1>14, Zenon DEF PublicName, Contains

\* Cutting a port off leaves text.
LEMMA StrippedText ==
  ASSUME NEW C, NEW host \in Seq(C)
  PROVE  StripPort(host) \in Seq(C)
<1>1. CASE \E i \in 1 .. Len(host) : host[i] = ":" /\ IsNumber(SubSeq(host, i + 1, Len(host)))
  <2>1. PICK i \in 1 .. Len(host) : host[i] = ":" /\ IsNumber(SubSeq(host, i + 1, Len(host)))
    BY <1>1
  <2>2. StripPort(host) = SubSeq(host, 1, i - 1)
    BY <2>1, PortToStrip, Zenon
  <2>3. Len(host) \in Nat
    BY LenProperties
  <2>4. 1 \in 1 .. Len(host) + 1 /\ i - 1 \in 1 - 1 .. Len(host)
    BY <2>3
  <2> QED BY <2>2, <2>4, PartOfText
<1>2. CASE ~\E i \in 1 .. Len(host) : host[i] = ":" /\ IsNumber(SubSeq(host, i + 1, Len(host)))
  BY <1>2, NoPortToStrip, Zenon
<1> QED BY <1>1, <1>2, Zenon

\* extractSubdomain finds the label of a host exactly when the host reads as one
\* label under the public name, in any case, with spaces around it and with any
\* port, for hosts and public names of any length.
THEOREM HostsAreRead ==
  ASSUME NEW Char, NEW host \in Seq(Char), NEW pub \in Seq(Char), PublicName(pub)
  PROVE  HostRead(host, pub)
<1> DEFINE C == Char \cup {"a", "p", "."}
           L(x) == ToLower(TrimSpace(x))
           H == StripPort(host)
           cut == {i \in DOMAIN host : host[i] = ":" /\ IsNumber(SubSeq(host, i + 1, Len(host)))}
           hosts == {host} \cup {SubSeq(host, 1, i - 1) : i \in cut}
           labels == UNION {{SubSeq(h, 1, n) : n \in 1 .. Len(h)} : h \in {L(x) : x \in hosts}}
           e == ExtractSubdomain(host, pub)
<1>1. {"a", "p", "."} \subseteq C /\ {"a", "p"} \subseteq C /\ "." \in C /\ Char \subseteq C
  OBVIOUS
<1> HIDE DEF C
<1>2. host \in Seq(C) /\ pub \in Seq(C)
  BY <1>1, SeqMonotonic, Zenon
<1>3. H \in Seq(C)
  BY <1>2, StrippedText, Zenon
<1>4. L(host) \in Seq(C) /\ L(H) \in Seq(C)
  BY <1>1, <1>2, <1>3, NormalText, Zenon
<1>5. DOMAIN host = 1 .. Len(host)
  BY <1>2, LenProperties, Zenon
<1>6. hosts \subseteq {host, H} /\ H \in hosts
  <2>1. \A i \in cut : H = SubSeq(host, 1, i - 1)
    BY <1>2, <1>5, PortToStrip, Zenon
  <2>2. cut = {} => H = host
    BY <1>2, <1>5, NoPortToStrip, Zenon
  <2> HIDE DEF cut, H
  <2> QED BY <2>1, <2>2, Zenon
<1>7. \A x \in hosts, w \in Seq(C) : Reads(L(x), w, pub) => L(x) = L(H)
  <2> SUFFICES ASSUME NEW w \in Seq(C), Reads(L(host), w, pub), host # H PROVE FALSE
    BY <1>6
  <2>1. PICK i \in 1 .. Len(host) : host[i] = ":" /\ IsNumber(SubSeq(host, i + 1, Len(host)))
    BY <1>2, NoPortToStrip
  <2>2. L(host) # w \o <<".">> \o pub
    BY <1>1, <1>2, <2>1, PortsAreNotNames, Zenon
  <2> QED BY <2>2 DEF Reads
<1>8. \A w \in labels : w \in Seq(C) /\ w # <<>>
  <2> SUFFICES ASSUME NEW x \in hosts, NEW n \in 1 .. Len(L(x))
               PROVE  SubSeq(L(x), 1, n) \in Seq(C) /\ SubSeq(L(x), 1, n) # <<>>
    OBVIOUS
  <2> DEFINE h == L(x)
  <2>1. h \in Seq(C)
    BY <1>4, <1>6, Zenon
  <2> HIDE DEF h
  <2>2. Len(h) \in Nat /\ n \in 1 .. Len(h)
    BY <2>1, LenProperties, Zenon DEF h
  <2>3. 1 \in 1 .. Len(h) + 1 /\ n \in 1 - 1 .. Len(h) /\ n - 1 + 1 # 0
    BY <2>2
  <2>4. SubSeq(h, 1, n) \in Seq(C) /\ Len(SubSeq(h, 1, n)) = n - 1 + 1
    BY <2>1, <2>3, PartOfText, ZenonT(30)
  <2>5. SubSeq(h, 1, n) # <<>>
    BY <2>3, <2>4, EmptySeq, Zenon
  <2> QED BY <2>4, <2>5, Zenon DEF h
<1>9. /\ \A w \in Seq(C) : Reads(L(H), w, pub) => e = IF Contains(w, ".") THEN <<>> ELSE w
      /\ e # <<>> => Reads(L(H), e, pub) /\ ~Contains(e, ".") /\ Ends(L(H), e, pub)
  <2> DEFINE h == L(H)
  <2>1. h \in Seq(C) /\ h = ToLower(TrimSpace(StripPort(host)))
    BY <1>4
  <2> HIDE DEF h
  <2>2. /\ \A w \in Seq(C) : Reads(h, w, pub) => e = IF Contains(w, ".") THEN <<>> ELSE w
        /\ e # <<>> => Reads(h, e, pub) /\ ~Contains(e, ".") /\ Ends(h, e, pub)
    BY <1>1, <1>2, <2>1, ExtractedLabel, Zenon
  <2> QED BY <2>2 DEF h
<1>10. Readings(host, pub) = {w \in labels : ~Contains(w, ".") /\ \E x \in hosts : Reads(L(x), w, pub)}
  BY DEF Readings, Reads
<1> HIDE DEF labels, hosts, H, L, e
<1>11. \A w \in Readings(host, pub) : w = e /\ e # <<>>
  BY <1>7, <1>8, <1>9, <1>10, Zenon
<1>12. e # <<>> => e \in Readings(host, pub)
  <2> SUFFICES ASSUME e # <<>> PROVE e \in labels
    BY <1>6, <1>9, <1>10, Zenon
  <2> DEFINE h == L(H)
             U == <<".">> \o pub
             n == Len(h) - Len(U)
  <2>1. HasSuffix(h, U) /\ e = SubSeq(h, 1, n)
    BY <1>9 DEF Ends
  <2>2. U \in Seq(C) /\ Len(U) = 1 + Len(pub) /\ Len(pub) \in Nat /\ Len(h) \in Nat
    BY <1>1, <1>2, <1>4, PrefixedText, LenProperties, ZenonT(30)
  <2> HIDE DEF U, h
  <2>3. Len(U) <= Len(h)
    BY <2>1 DEF HasSuffix
  <2>4. n \in Nat /\ n <= Len(h)
    BY <2>2, <2>3
  <2>5. n # 0
    <3>1. SubSeq(h, 1, 0) = <<>>
      BY SubSeqEmpty
    <3> QED BY <2>1, <3>1, Zenon
  <2>6. n \in 1 .. Len(h)
    BY <2>2, <2>4, <2>5
  <2> HIDE DEF n
  <2>7. h \in {L(x) : x \in hosts}
    BY <1>6, Zenon DEF h
  <2>8. e \in {SubSeq(h, 1, k) : k \in 1 .. Len(h)}
    BY <2>1, <2>6, Zenon
  <2> QED BY <2>7, <2>8, Zenon DEF labels
<1>13. IF Readings(host, pub) = {} THEN e = <<>> ELSE Readings(host, pub) = {e}
  BY <1>11, <1>12, Zenon
<1> QED BY <1>13 DEF HostRead, e

\* A label under the public name is not cut at a colon.
LEMMA NamesHaveNoPort ==
  ASSUME NEW C, "." \in C, NEW s \in Seq(C), NEW pub \in Seq(C), PublicName(pub)
  PROVE  StripPort(s \o <<".">> \o pub) = s \o <<".">> \o pub
<1> DEFINE T == s \o <<".">> \o pub
           l == Len(T)
<1>0. Len(s) \in Nat /\ Len(pub) \in Nat
  BY LenProperties
<1>1. /\ T \in Seq(C) /\ l = Len(s) + 1 + Len(pub) /\ T[Len(s) + 1] = "."
      /\ \A i \in 1 .. Len(pub) : T[Len(s) + 1 + i] = pub[i]
  BY JoinedText
<1> HIDE DEF T
<1>2. ASSUME NEW i \in 1 .. l
      PROVE  T[i] = ":" => ~IsNumber(SubSeq(T, i + 1, l))
  <2> DEFINE k == i + 1
             rest == SubSeq(T, k, l)
             d == Len(s) + 1 - i
  <2>1. l \in Nat /\ i \in Nat /\ k \in 1 .. l + 1 /\ l \in k - 1 .. l
    BY <1>0, <1>1
  <2>2. /\ rest \in Seq(C) /\ Len(rest) = l - k + 1
        /\ \A j \in 1 .. l - k + 1 : rest[j] = T[k - 1 + j]
    <3>1. T \in Seq(C)
      BY <1>1, Zenon
    <3> HIDE DEF k
    <3> QED BY <2>1, <3>1, PartOfText, ZenonT(30)
  <2> HIDE DEF rest
  <2>3. CASE i <= Len(s)
    <3>1. d \in 1 .. l - k + 1 /\ k - 1 + d = Len(s) + 1
      BY <1>0, <1>1, <2>1, <2>3
    <3> HIDE DEF d
    <3>2. rest[d] = "." /\ d \in 1 .. Len(rest)
      BY <1>1, <2>2, <3>1, Zenon
    <3>3. "." \notin Digits \cup {"-", "+"}
      BY DEF Digits
    <3>4. ~IsNumber(rest)
      BY <2>2, <3>2, <3>3, Numbers, Zenon
    <3> QED BY <3>4, Zenon DEF rest
  <2>4. CASE i = Len(s) + 1
    BY <1>1, <2>4, Zenon
  <2>5. CASE i > Len(s) + 1
    <3> DEFINE j == i - (Len(s) + 1)
    <3>1. j \in 1 .. Len(pub) /\ Len(s) + 1 + j = i
      BY <1>0, <1>1, <2>1, <2>5
    <3> HIDE DEF j
    <3>2. T[i] = pub[j]
      BY <1>1, <3>1, Zenon
    <3> QED BY <3>1, <3>2, Zenon DEF PublicName, Contains
  <2> QED BY <1>0, <1>1, <2>3, <2>4, <2>5, WhichPart, Zenon
<1>3. StripPort(T) = T
  BY <1>1, <1>2, NoPortToStrip, Zenon
<1> QED BY <1>3 DEF T

\* A label under the public name in lower case.
LEMMA LowerLabel ==
  ASSUME NEW C, {"a", "p", "."} \subseteq C, NEW s \in Seq(C), NEW pub \in Seq(C), PublicName(pub)
  PROVE  Reads(ToLower(s \o <<".">> \o pub), ToLower(s), pub)
<1> DEFINE T == s \o <<".">> \o pub
           t == ToLower(T)
           r == ToLower(s)
           R == r \o <<".">> \o pub
<1>0. Len(s) \in Nat /\ Len(pub) \in Nat /\ {"a", "p"} \subseteq C /\ "." \in C
  BY LenProperties, Zenon
<1>1. /\ T \in Seq(C) /\ Len(T) = Len(s) + 1 + Len(pub)
      /\ \A i \in 1 .. Len(s) : T[i] = s[i]
      /\ T[Len(s) + 1] = "."
      /\ \A i \in 1 .. Len(pub) : T[Len(s) + 1 + i] = pub[i]
  BY <1>0, JoinedText
<1> HIDE DEF T
<1>2. t \in Seq(C) /\ Len(t) = Len(T) /\ \A i \in 1 .. Len(T) : t[i] = Lower(T[i])
  BY <1>0, <1>1, LowerText, Zenon
<1>3. r \in Seq(C) /\ Len(r) = Len(s) /\ \A i \in 1 .. Len(s) : r[i] = Lower(s[i])
  BY <1>0, LowerText, Zenon
<1> HIDE DEF t, r
<1>4. /\ R \in Seq(C) /\ Len(R) = Len(r) + 1 + Len(pub)
      /\ \A i \in 1 .. Len(r) : R[i] = r[i]
      /\ R[Len(r) + 1] = "."
      /\ \A i \in 1 .. Len(pub) : R[Len(r) + 1 + i] = pub[i]
  <2>1. r \in Seq(C) /\ "." \in C
    BY <1>0, <1>3, Zenon
  <2> QED BY <2>1, JoinedText
<1> HIDE DEF R
<1>5. \A i \in 1 .. Len(pub) : Lower(pub[i]) = pub[i]
  BY <1>0, LowerText, Zenon DEF PublicName
<1>6. Lower(".") = "."
  BY LowerCharacters, Zenon
<1>7. \A i \in 1 .. Len(t) : t[i] = R[i]
  <2> TAKE i \in 1 .. Len(t)
  <2>0. i \in 1 .. Len(T) /\ i \in Nat
    BY <1>0, <1>1, <1>2
  <2>1. CASE i <= Len(s)
    <3>1. i \in 1 .. Len(s)
      BY <1>0, <2>0, <2>1
    <3> QED BY <1>1, <1>2, <1>3, <1>4, <2>0, <3>1, ZenonT(30)
  <2>2. CASE i = Len(s) + 1
    BY <1>1, <1>2, <1>3, <1>4, <1>6, <2>0, <2>2, Zenon
  <2>3. CASE i > Len(s) + 1
    <3> DEFINE j == i - (Len(s) + 1)
    <3>1. j \in 1 .. Len(pub) /\ Len(s) + 1 + j = i
      BY <1>0, <1>1, <2>0, <2>3, WhichPart, Zenon
    <3> HIDE DEF j
    <3> QED BY <1>1, <1>2, <1>3, <1>4, <1>5, <2>0, <3>1, ZenonT(30)
  <2> QED BY <1>0, <1>1, <2>0, <2>1, <2>2, <2>3, WhichPart, Zenon
<1>8. t = R
  BY <1>1, <1>2, <1>3, <1>4, <1>7, SeqEqual, Zenon
<1> QED BY <1>8, Zenon DEF Reads, R, r, t, T

\* A tunnel can be visited under its own name exactly when that is one label in
\* lower case that does not begin with a space, for names of any length.
THEOREM NamesAreReachable ==
  ASSUME NEW Char, NEW s \in Seq(Char), NEW pub \in Seq(Char), PublicName(pub)
  PROVE  NameReachable(s, pub)
<1> DEFINE C == Char \cup {"a", "p", "."}
           T == s \o <<".">> \o pub
           h == ToLower(TrimSpace(T))
           e == ExtractSubdomain(T, pub)
           r == ToLower(s)
<1>1. {"a", "p", "."} \subseteq C /\ {"a", "p"} \subseteq C /\ "." \in C /\ Char \subseteq C
  OBVIOUS
<1> HIDE DEF C
<1>2. s \in Seq(C) /\ pub \in Seq(C) /\ Len(s) \in Nat /\ Len(pub) \in Nat \ {0}
  BY <1>1, SeqMonotonic, LenProperties, PublicNameStays, Zenon
<1>3. /\ T \in Seq(C) /\ Len(T) = Len(s) + 1 + Len(pub)
      /\ \A i \in 1 .. Len(s) : T[i] = s[i]
      /\ T[Len(s) + 1] = "."
      /\ \A i \in 1 .. Len(pub) : T[Len(s) + 1 + i] = pub[i]
  BY <1>1, <1>2, JoinedText
<1>4. StripPort(T) = T
  BY <1>1, <1>2, NamesHaveNoPort, Zenon
<1>5. Reads(ToLower(T), r, pub)
  BY <1>1, <1>2, LowerLabel, Zenon
<1>6. T[Len(T)] # " " /\ T # <<>>
  <2>1. Len(pub) \in 1 .. Len(pub) /\ Len(T) = Len(s) + 1 + Len(pub) /\ Len(T) # 0
    BY <1>2, <1>3
  <2>2. T[Len(T)] = pub[Len(pub)]
    BY <1>3, <2>1, Zenon
  <2> HIDE DEF T
  <2> QED BY <2>1, <2>2, EmptySeq, ZenonT(30) DEF PublicName
<1>7. Reads(h, s, pub) => h = T
  BY DEF Reads
<1> HIDE DEF T
<1>8. h \in Seq(C) /\ TrimSpace(T) \in Seq(C) /\ Len(h) = Len(TrimSpace(T))
  BY <1>1, <1>3, NormalText, LowerText, Zenon
<1>9. h = ToLower(TrimSpace(StripPort(T)))
  BY <1>4, Zenon
<1> HIDE DEF h
<1>10. /\ \A w \in Seq(C) : Reads(h, w, pub) => e = IF Contains(w, ".") THEN <<>> ELSE w
       /\ e # <<>> => Reads(h, e, pub)
  BY <1>1, <1>2, <1>3, <1>8, <1>9, ExtractedLabel, Zenon
<1>11. r \in Seq(C) /\ Len(r) = Len(s) /\ (Contains(r, ".") <=> Contains(s, "."))
  <2>1. r \in Seq(C) /\ Len(r) = Len(s) /\ \A i \in 1 .. Len(s) : r[i] = Lower(s[i])
    BY <1>1, <1>2, LowerText, Zenon
  <2>2. \A i \in 1 .. Len(s) : r[i] = "." <=> s[i] = "."
    BY <2>1, LowerCharacters, Zenon
  <2> HIDE DEF r
  <2> QED BY <2>1, <2>2, Zenon DEF Contains
<1> HIDE DEF r, e
<1>12. CASE T[1] # " "
  <2>1. TrimSpace(T) = T
    BY <1>3, <1>6, <1>12, NothingToTrim, ZenonT(30)
  <2>2. e = IF Contains(s, ".") THEN <<>> ELSE r
    BY <1>5, <1>10, <1>11, <2>1, Zenon DEF h
  <2>3. CASE s = <<>>
    <3>1. Len(s) = 0 /\ ~Contains(s, ".") /\ r = <<>>
      BY <1>11, <2>3, EmptySeq DEF Contains
    <3> QED BY <2>2, <2>3, <3>1, Zenon DEF NameReachable, e, T
  <2>4. CASE s # <<>>
    <3>1. 1 \in 1 .. Len(s)
      BY <1>2, <2>4, EmptySeq
    <3>2. s[1] # " "
      BY <1>3, <1>12, <3>1, ZenonT(30)
    <3>3. e = s <=> ~Contains(s, ".") /\ r = s
      BY <2>2, <2>4, Zenon
    <3> QED BY <2>4, <3>2, <3>3, Zenon DEF NameReachable, e, T, r
  <2> QED BY <2>3, <2>4, Zenon
<1>13. CASE T[1] = " "
  <2>1. s # <<>> /\ s[1] = " "
    <3>1. Len(s) # 0
      <4> SUFFICES ASSUME Len(s) = 0 PROVE FALSE
        OBVIOUS
      <4>1. T[1] = "."
        BY <1>3
      <4> QED BY <1>13, <4>1, Zenon
    <3>2. 1 \in 1 .. Len(s)
      BY <1>2, <3>1
    <3> QED BY <1>2, <1>3, <1>13, <3>1, <3>2, EmptySeq, ZenonT(30)
  <2>2. Len(h) # Len(T)
    <3>0. Len(T) \in Nat \ {0} /\ Len(T) \in 1 .. Len(T)
      BY <1>2, <1>3, FirstAndLast
    <3>1. PICK m, n \in 1 .. Len(T) : m <= n /\ TrimSpace(T) = SubSeq(T, m, n) /\ T[m] # " "
      BY <1>3, <1>6, <3>0, TrimmedText, ZenonT(30)
    <3>2. m # 1
      BY <1>13, <3>1, Zenon
    <3>3. m \in 1 .. Len(T) + 1 /\ n \in m - 1 .. Len(T) /\ n - m + 1 # Len(T)
      BY <3>0, <3>1, <3>2, FirstAndLast, ZenonT(30)
    <3>4. Len(SubSeq(T, m, n)) = n - m + 1
      BY <1>3, <3>3, PartOfText, Zenon
    <3> QED BY <1>8, <3>1, <3>3, <3>4, ZenonT(30)
  <2>3. e # s
    BY <1>7, <1>10, <2>1, <2>2, Zenon
  <2> QED BY <2>1, <2>3, ZenonT(30) DEF NameReachable, e, T
<1> QED BY <1>12, <1>13, Zenon
-----------------------------------------------------------------------------
(* Every input that MCPure builds, whatever its bounds *)

\* What MCPure has built so far.
HostInput == [kind : {"host"}, host : Seq(HostChar)]
TunnelsInput ==
  [kind : {"tunnels"}, names : [1 .. 2 -> Seq(NameChar)], conn : Seq(NameChar)]
FrameInput == [kind : {"frame"}, type : {1, 2}, payload : Seq(0 .. Base - 1)]
InputOK == in \in HostInput \/ in \in TunnelsInput \/ in \in FrameInput \/ in.kind = "settings"

\* An input stays of its kind.
LEMMA InputsTyped == Spec => []InputOK
<1>1. Init => InputOK
  <2> SUFFICES ASSUME Init PROVE InputOK
    OBVIOUS
  <2>1. CASE in = [kind |-> "host", host |-> <<>>]
    BY <2>1 DEF InputOK, HostInput
  <2>2. CASE in = [kind |-> "tunnels", names |-> [i \in 1 .. 2 |-> <<>>], conn |-> <<>>]
    BY <2>2 DEF InputOK, TunnelsInput
  <2>3. CASE \E t \in {1, 2} : in = [kind |-> "frame", type |-> t, payload |-> <<>>]
    BY <2>3 DEF InputOK, FrameInput
  <2>4. CASE in \in SettingsInput
    BY <2>4 DEF InputOK, SettingsInput
  <2> QED BY <2>1, <2>2, <2>3, <2>4, Zenon DEF Init
<1>2. InputOK /\ [Next]_in => InputOK'
  <2> SUFFICES ASSUME InputOK, [Next]_in PROVE InputOK'
    OBVIOUS
  <2>1. CASE LongerHost
    <3>1. in \in HostInput
      BY <2>1 DEF LongerHost, InputOK, HostInput, TunnelsInput, FrameInput
    <3>2. PICK c \in HostChar : in' = [in EXCEPT !.host = Append(@, c)]
      BY <2>1 DEF LongerHost
    <3>3. in' \in HostInput
      BY <3>1, <3>2 DEF HostInput
    <3> QED BY <3>3 DEF InputOK
  <2>2. CASE LongerName
    <3>1. in \in TunnelsInput
      BY <2>2, Zenon DEF LongerName, InputOK, HostInput, TunnelsInput, FrameInput
    <3>2. PICK i \in 1 .. 2, c \in NameChar : in' = [in EXCEPT !.names[i] = Append(@, c)]
      BY <2>2 DEF LongerName
    <3>3. Append(in.names[i], c) \in Seq(NameChar) /\ in.names \in [1 .. 2 -> Seq(NameChar)]
      BY <3>1 DEF TunnelsInput
    <3>4. in' \in TunnelsInput
      BY <3>1, <3>2, <3>3 DEF TunnelsInput
    <3> QED BY <3>4 DEF InputOK
  <2>3. CASE LongerConn
    <3>1. in \in TunnelsInput
      BY <2>3 DEF LongerConn, InputOK, HostInput, TunnelsInput, FrameInput
    <3>2. PICK c \in NameChar : in' = [in EXCEPT !.conn = Append(@, c)]
      BY <2>3, Zenon DEF LongerConn
    <3> DEFINE longer == Append(in.conn, c)
    <3>3. longer \in Seq(NameChar)
      BY <3>1 DEF TunnelsInput
    <3> HIDE DEF longer
    <3>4. in' = [in EXCEPT !.conn = longer]
      BY <3>2 DEF longer
    <3>5. in' \in TunnelsInput
      BY <3>1, <3>3, <3>4 DEF TunnelsInput
    <3> QED BY <3>5 DEF InputOK
  <2>4. CASE LongerPayload
    <3>1. in \in FrameInput
      BY <2>4 DEF LongerPayload, InputOK, HostInput, TunnelsInput, FrameInput
    <3>2. PICK b \in 0 .. Base - 1 : in' = [in EXCEPT !.payload = Append(@, b)]
      BY <2>4 DEF LongerPayload
    <3> DEFINE longer == Append(in.payload, b)
    <3>3. longer \in Seq(0 .. Base - 1)
      BY <3>1 DEF FrameInput
    <3> HIDE DEF longer
    <3>4. in' = [in EXCEPT !.payload = longer]
      BY <3>2 DEF longer
    <3>5. in' \in FrameInput
      BY <3>1, <3>3, <3>4 DEF FrameInput
    <3> QED BY <3>5 DEF InputOK
  <2>5. CASE UNCHANGED in
    BY <2>5 DEF InputOK
  <2> QED BY <2>1, <2>2, <2>3, <2>4, <2>5 DEF Next
<1> QED BY <1>1, <1>2, PTL DEF Spec

\* The public name of the run is one that a gateway is set up with.
LEMMA PubIsPublic == Pub \in Seq(HostChar) /\ PublicName(Pub)
<1>1. /\ Pub \in Seq(HostChar) /\ Pub \in Seq({"a", "p"}) /\ Len(Pub) = 1 /\ Pub[1] = "p"
      /\ Pub # <<>> /\ DOMAIN Pub = {1}
  BY DEF Pub, HostChar
<1>2. ToLower(Pub) = Pub
  <2>1. /\ ToLower(Pub) \in Seq({"a", "p"}) /\ Len(ToLower(Pub)) = 1
        /\ ToLower(Pub)[1] = Lower(Pub[1])
    BY <1>1, LowerText
  <2>2. Lower("p") = "p"
    BY DEF Lower, LowerOf
  <2>3. \A i \in 1 .. 1 : ToLower(Pub)[i] = Pub[i]
    BY <1>1, <2>1, <2>2
  <2> QED BY <1>1, <2>1, <2>3, SeqEqual, Zenon
<1>3. ~Contains(Pub, ":")
  BY <1>1 DEF Contains
<1> QED BY <1>1, <1>2, <1>3, Zenon DEF PublicName

\* extractSubdomain reads every host that can be built as it should.
THEOREM HostsReadThroughout == Spec => []HostsRead
<1>1. InputOK => HostsRead
  <2> SUFFICES ASSUME InputOK, in.kind = "host" PROVE HostRead(in.host, Pub)
    BY DEF HostsRead
  <2>1. in.host \in Seq(HostChar)
    BY Zenon DEF InputOK, HostInput, TunnelsInput, FrameInput
  <2> QED BY <2>1, PubIsPublic, HostsAreRead, Zenon
<1> QED BY <1>1, InputsTyped, PTL

\* Every name that can be built is visited exactly if it is a lower-case label.
THEOREM NamesReachableThroughout == Spec => []NamesReachable
<1>1. InputOK => NamesReachable
  <2> SUFFICES ASSUME InputOK, in.kind = "host" PROVE NameReachable(in.host, Pub)
    BY DEF NamesReachable
  <2>1. in.host \in Seq(HostChar)
    BY Zenon DEF InputOK, HostInput, TunnelsInput, FrameInput
  <2> QED BY <2>1, PubIsPublic, NamesAreReachable, Zenon
<1> QED BY <1>1, InputsTyped, PTL

\* resolvePort is right about all tunnels and connections that can be built.
THEOREM PortsRightThroughout == Spec => []PortsRight
<1>1. InputOK => PortsRight
  <2> SUFFICES ASSUME InputOK, in.kind = "tunnels" PROVE PortIsRight(Tunnels, in.conn)
    BY DEF PortsRight
  <2>1. in.names \in [1 .. 2 -> Seq(NameChar)] /\ in.conn \in Seq(NameChar)
    BY DEF InputOK, HostInput, TunnelsInput, FrameInput
  <2>2. Tunnels \in Seq([subdomain : Seq(NameChar), port : 1 .. 2])
    BY <2>1 DEF Tunnels
  <2> QED BY <2>1, <2>2, PortsAreRight, Zenon
<1> QED BY <1>1, InputsTyped, PTL

\* Every payload that can be built comes back from its frame.
THEOREM FramesRoundTripThroughout == Spec => []FramesRoundTrip
<1>1. InputOK => FramesRoundTrip
  <2> SUFFICES ASSUME InputOK, in.kind = "frame" PROVE RoundTrip(in.type, in.payload)
    BY DEF FramesRoundTrip
  <2>1. in.payload \in Seq(0 .. Base - 1)
    BY Zenon DEF InputOK, HostInput, TunnelsInput, FrameInput
  <2> QED BY <2>1, FramesComeBack, Zenon
<1> QED BY <1>1, InputsTyped, PTL

\* No frame of a payload that can be built is read when it is cut short.
THEOREM FramesWholeThroughout == Spec => []FramesWhole
<1>1. InputOK => FramesWhole
  <2> SUFFICES ASSUME InputOK, in.kind = "frame" PROVE NoPartialFrame(in.type, in.payload)
    BY DEF FramesWhole
  <2>1. in.payload \in Seq(0 .. Base - 1)
    BY DEF InputOK, HostInput, TunnelsInput, FrameInput
  <2> QED BY <2>1, FramesAreWhole, Zenon
<1> QED BY <1>1, InputsTyped, PTL

\* The server's settings follow the order of their sources in every combination.
THEOREM SettingsPrecedenceThroughout == Spec => []SettingsPrecedence
<1>1. SettingsPrecedence
  BY SettingsFollowPrecedence, Zenon DEF SettingsPrecedence
<1> QED BY <1>1, PTL
=============================================================================
