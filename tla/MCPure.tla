------------------------------- MODULE MCPure -------------------------------
(* Every small input of the pure functions of Names, Frames and Settings. *)
EXTENDS Names, Frames, Settings, TLC

CONSTANTS MaxHost, MaxName, MaxPayload, MaxFree

VARIABLE in

Pub == <<"p">>
HostChar == {"a", "A", "p", ".", ":", "1", "-", " "}
NameChar == {"a", "-"}

\* strings.ToLower, on the texts below.
Lowered(text) ==
  CASE text = "DEBUG" -> "debug" [] text = "Error" -> "error" [] text = "Text" -> "text"
    [] OTHER -> text

File == {Unreadable, <<>>, [level |-> "DEBUG", storage |-> "redis", http |-> ":81"],
         [level |-> "", key |-> "k", format |-> "Text", https |-> ":444"], [format |-> "xml"]}

Args == {c @@ l : c \in {<<>>, [config |-> ""], [config |-> "flag"]},
                  l \in {<<>>, [logLevel |-> "Error"], [logLevel |-> "loud"]}}

SettingsInput ==
            [kind : {"settings"},
             args : Args,
             env : [GOTUNNEL_CONFIG : {"", "env"}, GOTUNNEL_LOG_LEVEL : {"", "warn", "loud"},
                    GOTUNNEL_STORAGE_TYPE : {"", "postgres"}, GOTUNNEL_REDIS_ADDR : {""},
                    GOTUNNEL_AUTH_KEY : {"", "secret"}, PORT : {"", "8080", "x"}],
             files : [{"flag", "env", DefaultPath} -> File]]

Init ==
  \/ in = [kind |-> "host", host |-> <<>>]
  \/ in = [kind |-> "tunnels", names |-> [i \in 1 .. 2 |-> <<>>], conn |-> <<>>]
  \/ \E t \in {1, 2} : in = [kind |-> "frame", type |-> t, payload |-> <<>>]
  \/ in \in SettingsInput

LongerHost ==
  /\ in.kind = "host" /\ Len(in.host) < MaxHost
  /\ \E c \in HostChar : in' = [in EXCEPT !.host = Append(@, c)]

LongerName ==
  /\ in.kind = "tunnels"
  /\ \E i \in 1 .. 2, c \in NameChar : /\ Len(in.names[i]) < MaxName
                                       /\ in' = [in EXCEPT !.names[i] = Append(@, c)]

LongerConn ==
  /\ in.kind = "tunnels" /\ Len(in.conn) < MaxName
  /\ \E c \in NameChar : in' = [in EXCEPT !.conn = Append(@, c)]

\* Any MaxFree bytes, followed by bytes that alternate.
LongerPayload ==
  /\ in.kind = "frame" /\ Len(in.payload) < MaxPayload
  /\ \E b \in 0 .. Base - 1 :
       /\ Len(in.payload) >= MaxFree => b = Len(in.payload) % Base
       /\ in' = [in EXCEPT !.payload = Append(@, b)]

Next == LongerHost \/ LongerName \/ LongerConn \/ LongerPayload

Spec == Init /\ [][Next]_in

Tunnels == [i \in 1 .. 2 |-> [subdomain |-> in.names[i], port |-> i]]
-----------------------------------------------------------------------------
\* extractSubdomain agrees with the reading of every host; see Names.
HostsRead == in.kind = "host" => HostRead(in.host, Pub)

\* Exactly the lower-case labels can be visited; see Names.
NamesReachable == in.kind = "host" => NameReachable(in.host, Pub)

\* resolvePort finds the tunnel's own port if no subdomain has a dash; see Names.
PortsRight == in.kind = "tunnels" => PortIsRight(Tunnels, in.conn)

\* DecodeFrame undoes EncodeFrame up to the width of the length; see Frames.
FramesRoundTrip == in.kind = "frame" => RoundTrip(in.type, in.payload)

\* DecodeFrame refuses a frame cut short; see Frames.
FramesWhole == in.kind = "frame" => NoPartialFrame(in.type, in.payload)

\* runServer takes each setting from the right source; see Settings.
SettingsPrecedence == in.kind = "settings" => Precedence(in.args, in.env, in.files)

\* The variables are enough to start the server, as README.md:28-29 does it, and
\* GOTUNNEL_CONFIG is the path of its file (README.md:96); see Settings.
EnvironmentSuffices == in.kind = "settings" => EnvironmentServes(in.env, in.files)
=============================================================================
