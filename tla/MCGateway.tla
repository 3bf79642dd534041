----------------------------- MODULE MCGateway ------------------------------
EXTENDS Gateway

CONSTANTS s1, s2

app   == <<"app">>
myapp == <<"my", "app">>
admin == <<"admin">>

Subs == {app, myapp, admin}
SubLen == [s \in Subs |-> Len(s)]
ReservedSubs == {admin}
User == [s \in Session |-> "user"]

\* IDs as the gateway generates them: "conn-1", "conn-2", ...
Generated == [s \in Session |-> <<"conn", IF s = s1 THEN "1" ELSE "2">>]

\* For variations: two sessions of one client that sends its client_id.
SameClient == [s \in Session |-> <<"laptop">>]

\* For variations: "pc" + "my-app" and "pc-my" + "app" are one tunnel ID.
Hyphenated == [s \in Session |-> IF s = s1 THEN <<"pc">> ELSE <<"pc", "my">>]

OneTunnel == {<<app>>}
Offers == {<<app>>, <<myapp, app>>, <<app, admin>>, <<app, app>>}
Either == {<<app>>, <<myapp>>}

AllIDs == {TunnelID(s, sub) : s \in Session, sub \in {app, myapp}}
=============================================================================
