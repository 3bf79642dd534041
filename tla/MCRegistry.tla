----------------------------- MODULE MCRegistry -----------------------------
EXTENDS Registry

Sub == {"app", "www", "blog", "api"}
SubLen == [s \in Sub |-> IF s = "blog" THEN 4 ELSE 3]

\* Two connections, c and d, whose tunnel IDs carry the connection and the
\* subdomain; c may also submit its tunnel with a TTL of its own.
Distinct ==
  {[id |-> <<c, s>>, owner |-> "u", sub |-> s, conn |-> c, ttl |-> 0] :
     c \in {"c", "d"}, s \in Sub}
  \cup {[id |-> <<"c", "app">>, owner |-> "u", sub |-> "app", conn |-> "c", ttl |-> 2]}
=============================================================================
