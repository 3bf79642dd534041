-------------------------------- MODULE Names -------------------------------
(***************************************************************************)
(* How a name gets from a visitor's Host header to a local port:           *)
(* extractSubdomain (internal/proxy), the tunnel ID of handleConnect       *)
(* (internal/server) and resolvePort (internal/client).  Text is a         *)
(* sequence of one-character strings.                                      *)
(***************************************************************************)
EXTENDS Integers, SequencesExt

Digits == {"0", "1"}

LowerOf == [c \in {"A", "P"} |-> IF c = "A" THEN "a" ELSE "p"]

\* strings.ToLower
ToLower(s) == [i \in DOMAIN s |-> IF s[i] \in DOMAIN LowerOf THEN LowerOf[s[i]] ELSE s[i]]

\* strings.TrimSpace
TrimSpace(s) ==
  LET ink == {i \in DOMAIN s : s[i] # " "}
  IN  IF ink = {} THEN <<>> ELSE SubSeq(s, Min(ink), Max(ink))

\* strconv.Atoi succeeds: digits after an optional sign, of a number that fits.
IsNumber(s) ==
  LET d == IF s # <<>> /\ Head(s) \in {"-", "+"} THEN Tail(s) ELSE s
  IN  d # <<>> /\ \A i \in DOMAIN d : d[i] \in Digits

\* Bug variant: the port stays.
StripPort_Never(host) == host

\* What follows the last colon is cut off if it is a number.
StripPort(host) ==
  LET colons == {i \in DOMAIN host : host[i] = ":"}
      idx == Max(colons)
  IN  IF colons # {} /\ IsNumber(SubSeq(host, idx + 1, Len(host)))
      THEN SubSeq(host, 1, idx - 1)
      ELSE host

HasSuffix(s, suffix) ==
  Len(suffix) <= Len(s) /\ SubSeq(s, Len(s) - Len(suffix) + 1, Len(s)) = suffix

\* Bug variant: subdomains of any depth.
ExtractSubdomain_AnyDepth(host, publicHostname) ==
  LET h == ToLower(TrimSpace(StripPort(host)))
      pub == ToLower(TrimSpace(publicHostname))
      suffix == <<".">> \o pub
  IN  IF pub = <<>> \/ ~HasSuffix(h, suffix) THEN <<>>
      ELSE SubSeq(h, 1, Len(h) - Len(suffix))

\* The empty sequence: no subdomain.
ExtractSubdomain(host, publicHostname) ==
  LET h == ToLower(TrimSpace(StripPort(host)))
      pub == ToLower(TrimSpace(publicHostname))
      suffix == <<".">> \o pub
      subdomain == SubSeq(h, 1, Len(h) - Len(suffix))
  IN  IF pub = <<>> \/ ~HasSuffix(h, suffix) \/ Contains(subdomain, ".") THEN <<>>
      ELSE subdomain

TunnelID(connID, subdomain) == connID \o <<"-">> \o subdomain

\* Bug variant: the dash is not part of the suffix.
ResolvePort_NoDash(tunnels, targetTunnel) ==
  LET match == {i \in DOMAIN tunnels : HasSuffix(targetTunnel, tunnels[i].subdomain)}
  IN  CASE match # {} -> tunnels[Min(match)].port
        [] match = {} /\ tunnels # <<>> -> tunnels[1].port
        [] OTHER -> 0

ResolvePort(tunnels, targetTunnel) ==
  LET match == {i \in DOMAIN tunnels : HasSuffix(targetTunnel, <<"-">> \o tunnels[i].subdomain)}
  IN  CASE match # {} -> tunnels[Min(match)].port
        [] match = {} /\ tunnels # <<>> -> tunnels[1].port
        [] OTHER -> 0
-----------------------------------------------------------------------------
\* The ways to read a host as "label.pub", with a port or without.
Readings(host, pub) ==
  LET cut == {i \in DOMAIN host : host[i] = ":" /\ IsNumber(SubSeq(host, i + 1, Len(host)))}
      hosts == {host} \cup {SubSeq(host, 1, i - 1) : i \in cut}
      labels == UNION {{SubSeq(h, 1, n) : n \in 1 .. Len(h)} : h \in {ToLower(TrimSpace(x)) : x \in hosts}}
  IN  {w \in labels : /\ ~Contains(w, ".")
                      /\ \E h \in hosts : ToLower(TrimSpace(h)) = w \o <<".">> \o pub}

\* extractSubdomain finds the label exactly when the host reads as a label
\* under the public name, in any case and with any port, and then that label.
HostRead(host, pub) ==
  IF Readings(host, pub) = {}
  THEN ExtractSubdomain(host, pub) = <<>>
  ELSE Readings(host, pub) = {ExtractSubdomain(host, pub)}

\* Register takes any text for a subdomain, while visitors look names up in
\* lower case and never look up the empty one: a tunnel can be visited under its
\* own name exactly when that is one label in lower case that does not begin
\* with a space.
NameReachable(s, pub) ==
  LET subdomain == ExtractSubdomain(s \o <<".">> \o pub, pub)
  IN  subdomain # <<>> /\ subdomain = s
        <=> s # <<>> /\ ~Contains(s, ".") /\ ToLower(s) = s /\ s[1] # " "

\* A request for a tunnel is sent to the port of that tunnel, whatever the
\* connection is called and in whatever order the tunnels are listed, if no
\* subdomain has a dash.  With dashes an earlier tunnel "b" gets what is meant
\* for "a-b".
PortIsRight(tunnels, connID) ==
  (\A i \in DOMAIN tunnels : ~Contains(tunnels[i].subdomain, "-")) =>
    \A i \in DOMAIN tunnels :
      (\A j \in 1 .. i - 1 : tunnels[j].subdomain # tunnels[i].subdomain) =>
        ResolvePort(tunnels, TunnelID(connID, tunnels[i].subdomain)) = tunnels[i].port
=============================================================================
