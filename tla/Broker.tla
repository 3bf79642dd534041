------------------------------- MODULE Broker -------------------------------
(***************************************************************************)
(* internal/broker: the routing tables of the Broker.  Every method holds  *)
(* b.mu, so each is one atomic step.  A *ClientConn is identified with the *)
(* session (the handleConnect call) that created it; the stream table of a *)
(* connection is in module Exchange.                                       *)
(***************************************************************************)
EXTENDS Maps

CONSTANTS
  Session,  \* ClientConn objects
  Name,     \* connection IDs
  Sub       \* subdomains

VARIABLES
  connections,     \* connection ID -> ClientConn
  subdomainToConn  \* subdomain -> connection ID

NewBroker == connections = EmptyMap /\ subdomainToConn = EmptyMap

BrokerTypeOK ==
  /\ DOMAIN connections \subseteq Name
  /\ \A c \in DOMAIN connections : connections[c] \in Session
  /\ DOMAIN subdomainToConn \subseteq Sub
  /\ \A sub \in DOMAIN subdomainToConn : subdomainToConn[sub] \in Name

\* A connection that already uses the ID is replaced without notice.
AddConnection(c, conn) ==
  /\ connections' = Put(connections, c, conn)
  /\ UNCHANGED subdomainToConn

MapSubdomain(sub, c) ==
  /\ subdomainToConn' = Put(subdomainToConn, sub, c)
  /\ UNCHANGED connections

\* The entry goes whichever connection it names.
UnmapSubdomain(sub) ==
  /\ subdomainToConn' = Delete(subdomainToConn, {sub})
  /\ UNCHANGED connections

RoutesOf(c) == {sub \in DOMAIN subdomainToConn : subdomainToConn[sub] = c}

\* Bug variant: the routes of the connection stay behind.
RemoveConnection_KeepsRoutes(c) ==
  connections' = Delete(connections, {c}) /\ UNCHANGED subdomainToConn

\* An unknown ID is ignored, routes that name it included.
RemoveConnection(c) ==
  /\ subdomainToConn' = IF c \in DOMAIN connections
                        THEN Delete(subdomainToConn, RoutesOf(c))
                        ELSE subdomainToConn
  /\ connections' = Delete(connections, {c})

\* Whether GetConnectionBySubdomain finds a connection, and which.
Routable(sub) ==
  sub \in DOMAIN subdomainToConn /\ subdomainToConn[sub] \in DOMAIN connections
GetConnectionBySubdomain(sub) == connections[subdomainToConn[sub]]
=============================================================================
