# GoTunnel: TLA+ specification

GoTunnel publishes HTTP services behind a firewall. A client keeps a WebSocket
to a gateway and registers tunnels, one per subdomain; the gateway turns each
public request for `<subdomain>.<public hostname>` into a stream over that
WebSocket and the client answers it from a local service.

This directory holds TLA+ models of the gateway and of the client, TLC
configurations that check them on small instances, and TLAPS
proofs of the properties that matter most for instances of any size.
`PROJECT.json` relates every definition to the lines of `src/` it models.

## 1. Inventory

| Component | State | Operations | Talks to |
|---|---|---|---|
| registry (`internal/registry`) | `tunnels` by ID, `subdomainIndex`, one mutex | Register, Unregister, UpdateHeartbeat, CleanExpired, lookups | called by sessions, proxy, admin |
| broker (`internal/broker`) | `connections`, `subdomainToConn` (one mutex); per connection the stream table (its own mutex), `sendMu`; the stream ID counter | AddConnection, RemoveConnection, MapSubdomain, UnmapSubdomain, lookups, OpenStream, CloseStream, SendMessage | called by sessions and proxy |
| server sessions (`internal/server`) | one goroutine per WebSocket: its tunnel IDs | handleConnect, readLoop, cleanupConnection, sendControlResponse, frame handlers | registry, broker, metrics, client (frames) |
| proxy (`internal/proxy`) | one goroutine per public request: stream, timer | ServeHTTP, extractSubdomain | registry, broker, client (frames) |
| client (`internal/client`) | `ws`, `done`, `closed`, `pendingStreams` | Run, Connect, Close, readLoop, heartbeatLoop, one handleOpenStream goroutine per stream | gateway (frames), local service |
| admin API (`internal/admin`) | none of its own | create token, list tunnels, DELETE tunnel | auth, registry |
| auth (`internal/auth`) | tokens with expiry and revocation | CreateToken, ValidateToken, RevokeToken, listings | sessions, admin |
| rate limiter (`internal/server/ratelimit.go`) | a token bucket per IP, last use | Allow, cleanupLoop | in front of everything |
| protocol | none | framing, JSON messages | all frames |
| metrics, config, logging, main | counters; values read at start | | |

**Hard behaviours.** Sessions, requests and DELETEs interleave between the
mutexes of registry and broker: a registration is two steps (Register, then
MapSubdomain), a cleanup three per tunnel and one more at the end, a request's
routing two. Registration may fail half-way. The WebSocket has one writer by
contract and two in the code. On a connection, handlers of many requests, the
gateway's read loop, the client's read loop and its handler goroutines
communicate through two FIFO directions that can fill up and break, through
channels of capacity one, and through 30 second timers. `PROJECT.json` lists the
hazards one by one, at their lines.

**What makes each part correct.**

- registry: a subdomain has at most one tunnel; table and index agree.
- broker and sessions: a route exists only for a registered subdomain and leads
  to the connection that holds it; a live tunnel stays routed whatever others
  do; nothing survives its session; the gauge counts the tunnels.
- proxy: a request is handed to the holder of its subdomain, gets its own
  answer, is answered in the end, leaves no stream behind.
- server dispatch: the read loop never waits for one stream, ends when the
  connection does.
- client: handlers end; one read loop at a time, on the connection it was started
  for; a lost connection is replaced and its tunnels registered again; Close ends
  everything; late answers do not reach other visitors.
- auth: a verdict agrees with what the token was at some moment of its validation.
- rate limiter: an address gets one bucket for ever, although visitors are
  forgotten; one admitted request is worth one token validation.
- pure functions: a host is read as the label it names, a request goes to its
  tunnel's port, a frame comes back as it was sent or not at all, each setting comes
  from the first of flag, variable, file and default that gives it.

## 2. Modules

| Module | Models |
|---|---|
| `Maps` | Go maps: empty map, store, delete |
| `Registry` | `MemoryRegistry`; every method is atomic (one mutex) |
| `NameTable` | abstract specification of the registry: names are claimed and released |
| `Broker` | the broker's two routing tables |
| `Gateway` | composes `Registry` and `Broker` with sessions, DELETE and the routing half of requests |
| `Exchange` | data plane of one connection, from OpenStream to the client's handler and back |
| `Client` | the client across connections, with the gateway process it connects to, its shutdown and restarts |
| `RateLimiter` | `RateLimiter`: Allow in its two halves, Middleware, cleanupLoop |
| `Bucket` | abstract specification of the limiter: a bucket per address, never forgotten |
| `Auth` | `MemoryTokenStore`, and its use by handleConnect and requireAdmin |
| `FrontDoor` | composes `RateLimiter` and `Auth`, as Start and the mux do |
| `Names`, `Frames`, `Settings` | pure functions: host to subdomain to port; framing; sources of the settings |
| `MCRegistry`, `MCGateway`, `MCExchange`, `MCClient`, `MCFrontDoor`, `MCPure` | values of the constants, and the inputs of the pure functions, for TLC |
| `RegistryProofs`, `GatewayProofs`, `RoutingProofs` (routes and gauge), `ExchangeProofs`, `AnswerProofs` (whose answer is whose), `ClientProofs`, `FrontDoorProofs` (limiter, token store and both together), `PureProofs` | theorems |

**Gateway.** `pc[s]` is the line a session's goroutine has reached:
`connect` (before authentication), `register` (head of the loop over the tunnels),
`map` (between lines 206 and 212), `refuse`, `replying`/`refusing` (inside
`ws.WriteMessage`), `serve` (readLoop), `cleanup`, `unmap`, `unregister` (between
the calls of cleanupConnection), `closed`, `panicked`. `todo` and `tunnelIDs` are
the loop's remaining tunnels and the `tunnelIDs` slice. A step is what happens
between two mutex acquisitions. `writers[s]` holds the goroutines inside
`WriteMessage`; a goroutine that finds another there may panic, as the WebSocket
library does when it notices, or go unnoticed. A string is a sequence of its
hyphen-free pieces, which is what the tunnel ID (`connID + "-" + subdomain`)
depends on.

**Exchange.** `handler[r]` is ServeHTTP of request `r`, `task[r]` the client's
handleOpenStream for it, `loop` the gateway's read loop. `response` and `done` are
the channels of the stream, `dataCh` that of the client's handler. A change of
the stream table is two steps (`inserting`, `deleting`), so that the unlocked
read of getStream can fall in between: it finds the entry, misses it, or the
runtime aborts the gateway (`crashed`). Message bodies are the request they
belong to. The visitor's own connection is in two steps, the read of its body
(`ReadBody`) and the write of the response (`WriteResponse`); both may fail, and both may
never end, as the code sets no deadline on them. A timer may fire at any moment, which covers every duration. `hung` is
a client process that has stopped while its connection stays up.

**Client.** `run` is the goroutine of Run, with Connect inlined; `heartbeat[k]`,
`reader[k]` and `task[r]` are the goroutines it leaves behind. They all use the
fields `c.ws` and `c.done`, which Run replaces without a lock: `heartbeat[k].on` is
the channel a select has evaluated, everything else is read when it is used, as
in the code. Turn `k` of Run makes channel `k` and socket `k`; a number is used again
when nothing refers to it, so that runs are as long as they like. The gateway
side keeps what the client can notice: the session of each socket, who holds the
subdomain, the stream ID counter, which a restart resets. A session is `new` until it
has read a frame, `replying` from MapSubdomain until its reply is out
(`server.go:212-218`), then `serving`. Visitors are routed to it as soon as it is
`replying`: open_stream may then come first on the socket, and Connect fails, or it
meets the reply in the WebSocket library, which may panic (`ReplyPanics`) and leave the
tunnel with no session to clean it up (`Orphaned`). Two writers at a time
on one socket may panic (`WriteCollides`), and that ends the client.

**RateLimiter, Auth, FrontDoor.** `gate[k]` says that call `k` has released `rl.mu`
and has not drawn from its bucket yet. Credit is counted in units of 1/`Full` of
a request, so that a bucket gains `Burst` per unit of time in whole numbers.
`call[k].pc` is the check ValidateToken comes to next (`lookup`, `revoked?`,
`expired?`), between which anything may happen; `call[k].live` remembers whether
the token was good when validation began. Nothing in the repository calls
RevokeToken, and the first admin token can come only from a program that embeds
the store (`Revoke`, `Provision`).

**Names, Frames, Settings.** Text is a sequence of characters, a frame a sequence of
digits to base `Base`, which is 256 in the code: the 32-bit length has four of them.
Atoi accepts any run of digits here (`IsNumber`); the code's refuses numbers beyond 64
bits, which no host has for a port. The flags of the command line are a function of
those that are given, so that `Parse` can fill in their defaults; letters have case
(`StringsToLower`), since level and format are compared in lower case.

## 3. Runs

Passing runs:

| Run | Instance | Shows |
|---|---|---|
| `registry` | 3 subdomains (one reserved), clock to 4, TTL 1 | `TypeOK`; `IndexExact`: table and index agree; `ImplementsNameTable`: refinement |
| `sessions` | 2 sessions, register frames with one or two tunnels, overlapping, incl. reserved and repeated ones; 1 request at any moment | `RoutesFollowRegistry`, `ServedTunnelsRoutable`, the inductive invariant `RoutingInv`, `GaugeCounts`, `NothingLeaks`, and `GoneClientsAreCleaned` (liveness) on every path through partial failure; `LookupsFindTunnels`, `HandedToHolder` with the panics and broken sockets of the real code |
| `admin` | 2 sessions, 1 request, DELETE of any tunnel at any time | `IndexConsistent`, `RoutesLead`: what a DELETE cannot break |
| `exchange_safety` | 2 requests, 2 stream IDs (wrap), connection may break | `OwnResponse`, `DeliveryNeverBlocks`, `NoStreamLeaks` |
| `exchange_liveness` | 2 requests, room for one frame per direction; the connection may break before or after the first request starts, the client may hang after it; a visitor may stall | `RequestsAnswered`, `LoopEnds`, `TasksEnd`: no deadlock of writers and read loops, with lost frames and with a client that reads no more |
| `client_life` | 3 turns of Run that are referred to at a time, 1 fault (a lost connection, a failed dial or a restart), 1 request, which may overtake or break the reply to the registration, `max_retries` 0 and 2, Close at any time | `OneReader`, `LossIsRetried`, and `CloseEnds` and `Reconnects` (liveness) |
| `client_answers` | 2 requests, 2 turns at a time, 2 faults | `AnswersStayInEpoch`: late answers on a new connection |
| `front_door` | 1 address, 2 overlapping requests, 2 tokens, clock to 4 with a bucket that fills in 2 and is forgotten after 3 | `VerdictsFair`, `TriesBounded`, `CreditNeverGrows`, `ImplementsBucket` (refinement) |
| `pure` | hosts of 6 characters, names of 3, payloads of up to 18 digits to base 2 (the first 6 arbitrary), all combinations of settings | `HostsRead`, `NamesReachable`, `PortsRight`, `FramesRoundTrip`, `FramesWhole`, `SettingsPrecedence` |

Runs that end in a counterexample. Each states what a comment, a document or a
test of the repository says, and is explained under `findings`:

| Run | Property | Trace in short |
|---|---|---|
| `map_race` | `StreamMapSafe` | getStream without the mutex |
| `lost_envelope` | `EnvelopesArrive` | the envelope is read before its handler goroutine runs |
| `environment` | `EnvironmentSuffices` | started without flags, the server reads the default path, whatever `GOTUNNEL_CONFIG` says, and exits if there is no such file |

`lost_envelope` needs the client's read loop to be ahead of a goroutine it has
just started. A further finding is one that `pure` documents: `SettingsPrecedence` says that
no variable reaches `listen_http`, while `README.md:101` of the repository calls `PORT` the
"Fallback server port".

Variations of the passing runs, to see that hypotheses and exceptions are
needed; each changes constants of a `.cfg`, or the property, and ends in a
counterexample:

- `sessions` with `ConnID <- SameClient`: the cleanup of a client's old session
  removes its new connection, filed under the same client_id
  (`ServedTunnelsRoutable`).
- `sessions` with `ConnID <- Hyphenated` and `Offer <- Either`: two pairs of
  client_id and subdomain join to one tunnel ID, and GetBySubdomain returns a nil
  tunnel without an error (`LookupsFindTunnels`).
- `sessions` with `Deletable <- AllIDs`: a DELETE does not bring the gauge down,
  nor does cleanup later (`GaugeCounts`); a DELETE between GetByID and
  UnmapSubdomain makes a cleanup remove the next holder's route
  (`ServedTunnelsRoutable`).
- `admin` with `Offer <- OneTunnel` and `HandedToHolder`: a DELETE leaves the route
  (`admin.go:215`); a request for the next holder of the subdomain that comes
  between its Register and its MapSubdomain goes to the old connection.
- `sessions` with `Offer <- OneTunnel` and without the second disjunct of
  `GoneClientsAreCleaned`: the reply at `server.go:218` is written without `sendMu`
  beside a request's frame, panics before readLoop has deferred cleanupConnection,
  and the tunnels stay.
- the same with `ReplyComesFirst`: tunnels are routed at `server.go:212`, before the
  reply, so open_stream may come first; the client gives up that connection
  (`client.go:144`) and Run makes another, which is part of `client_life`.
- `client_life` with `Reconnects` without `<>[]Orphaned`: the same panic leaves a tunnel that
  no session owns, and the client's later registrations are refused until the gateway
  restarts; without `<>[]StaleLoop`: see the heartbeat loop below.
- `client_answers` without the second disjunct of `AnswersStayInEpoch`: after a
  restart the gateway counts streams from 1 again, and the late answer of an old
  handler comes out of a new visitor's request.

More behaviours the models have and the properties allow for:

- The select of ServeHTTP may answer 502 when response and close frame both
  arrive before the goroutine gets there (`SeeDone` with a response in the channel).
- A client that hangs with its socket open keeps its tunnels for ever
  (`PeerSilent`), since nothing calls CleanExpired. A request whose frame does not
  fit the buffers of such a client waits as long as the socket lives
  (`Stuck`, an exception in `RequestsAnswered`).
- A visitor that stops sending its body, or stops reading the response, keeps its
  ServeHTTP and its stream as long as its connection lives (`Stalled`, the other
  exception); the client's handler gives up after 30 seconds, and no other request waits.
- Close while Connect is under way closes the previous socket or none; if Connect
  then succeeds, Run stays connected (`MissedByClose`, the exception in `CloseEnds`).
- A heartbeat loop that turns round after the next turn of Run has begun selects
  on that turn's channel. If that turn's Connect fails, nobody closes the channel,
  and the loop goes on beside the loops of later connections (`StaleLoop`); its
  frame may then be the first on a new socket, which the gateway refuses.
- The register frame and Close's message are written without `wsMu`; beside a
  heartbeat or an answer the library panics (`WriteCollides`).
- `max_retries` = n allows n - 1 redials after a loss; with 1 the client gives up at
  the first loss (hence `run.limit # 1` in `LossIsRetried`).
- An address gets up to twice `requestsPerMin` in a minute that starts with a full
  bucket, which is its first and any that follows an idle one, and `requestsPerMin` in
  the others; the comment at
  `ratelimit.go:26` names only the latter. `CreditNeverGrows` is the exact bound.
- A token revoked or expired during a session does not end it; `VerdictsFair` is
  about the moment of validation.
- A tunnel with a capital letter, a dot or a leading space in its subdomain can be
  registered and not visited (`NamesReachable`). With dashes in subdomains the first
  listed tunnel that is a suffix gets the request: "app" that of "my-app"
  (hence the premise of `PortsRight`).
- A payload of 2^32 bytes or more is shortened without an error (`FramesRoundTrip`).

**Bounds.** Two sessions show every pairwise interleaving, a hand-over of a
subdomain in the middle of a step included; for more sessions there is the
proof of `RoutingInv`. Lists of two tunnels are the shortest with a partial failure; two subdomains and a
reserved one cover each refusal (length is covered in `registry`). Two requests
are needed for one to disturb the other in Exchange; in Gateway a request is disturbed by
sessions and meets other requests only at `sendMu`, so one suffices. `Room` is the number of frames the
socket buffers; 1 makes every write block behind the previous one. `IDSpace` is
2^32 in the code; with 2 the counter wraps within the run. Two requests are also
the most for which IDs are distinct then; a request that lives while the
counter goes all the way round would lose its stream, in the code as in the
model. `BreakAt` and `HangAt` are the numbers of requests
begun at which the connection may break or the client hang; with two requests
and room for one frame, all moments at once are too many states for a liveness
check, and safety with breaks at any moment is in `exchange_safety`. The registry's clock needs to pass a TTL twice.

`MaxConn` = 3 lets the loops of two earlier turns live beside the current one. A handler
refers to no turn, only to its stream ID and to `c.ws` when it writes, so that 2 is enough
for `client_answers`; there `MaxFaults` = 2 allows two restarts, so that a handler may be two
processes late. `client_life` has one fault, which is enough there: a turn of Run
also fails when the client's old session still holds the subdomain, or when the
request overtakes the reply, and neither is counted as a fault. The stale heartbeat loop
needs a loss and a failed turn, the orphaned tunnel a request in the reply window; TLC
reaches both, as the variations of `Reconnects` show. There are finitely many requests,
so that visitors overtake a reply finitely often; a gateway whose visitors did so at
every attempt would keep its client out. `client_answers` has no Close, which it does not use. In `front_door` the ratios matter, not the amounts: a bucket fills
(`Full` = 2) before a visitor is stale (`Idle` = 3), the clock passes both, and
`MaxStall` = 1 is the longest a call may dawdle, `Idle - Full`; in the code that is
nine minutes. One address suffices as buckets are independent; more are
covered by the proof. A host of 6 characters holds a label, a port and the public
name, or two labels; 18 digits of payload wrap a length of 4 binary digits at 16.

**Deadlock** checking is off for Gateway, Exchange and Client: every session and
every request runs once and ends, and so may Run. It is off in `pure`, where the
inputs end. That nobody waits for ever is what the
liveness properties say.

**Fairness.** Gateway: weak fairness of each session's own steps, the Go
scheduler's promise to a goroutine that can run. A client may stay connected or
silent for ever; no fairness is assumed of clients, visitors or the administrator. Exchange: weak
fairness of each handler, each client goroutine and both read loops, and none of what
the visitor has to do (`VisitorStep`: its body, and taking the response). For the
client's side it holds as long as the process runs: `hung` disables its steps, and
the properties say what is owed then. Timers are part of a handler's steps, so they fire if nothing
else happens. After an abort of the runtime (`crashed`) nothing is owed.
Client: weak fairness of Run, of Close once called, of each loop and handler, of
each session of the gateway (it replies, and its read of a dead socket fails in the
end), of the end of
a shutdown (15 seconds) and of the gateway being started again, without which no
client could reconnect. None of faults, of Close being called, or of visitors.

## 4. Theorems

All are checked by TLAPS for any values of the constants that meet the named
assumptions.

- `RegistryTypeCorrect`, `RegistryIndexExact`, `RegistryImplementsNameTable`.
  The latter two assume `IDsDetermineSubdomains` (a tunnel ID names one
  subdomain), which the registry leaves to its callers; section 3 shows what
  happens without it. `IndexExact` is inductive together with `TypeOK`.
- `GatewayTypeCorrect`: the type invariant of the composition, for any number of
  sessions, requests and DELETEs, and any connection IDs. It says more than
  types: a session about to map has a tunnel to map, one about to unmap has a
  subdomain, a request about to send has a connection.
- `GatewayImplementsRegistry`: every step of the gateway is a step of `Registry` or
  leaves its maps alone, so that what is proved of the registry holds in the gateway:
  `IndexStaysConsistent` and `GatewayImplementsNameTable`, under `GeneratedIDs` (all
  connection IDs have equally many pieces, as those the gateway makes up for
  clients that send none, such as the one in this repository), from which the registry's
  `IDsDetermineSubdomains` follows. `SuccessfulLookupsFindTunnels` is the consequence
  ServeHTTP relies on. DELETEs may come at any moment.
- `EveryRouteLeads`, under `DistinctIDs` (no two sessions share a connection ID), with
  DELETEs at any moment.
- `OnlyPanicsLeak`, without hypotheses: `NothingLeaks`, that is, what is in the tables is
  of sessions that have not ended, or that a panic ended. `NoPanicWithoutTraffic`: without
  requests nobody panics. Section 3 has the leak that remains.
- `RoutingInvariant`, and from it `RoutesAgree`, `LiveTunnelsStayRoutable`,
  `RequestsReachTheHolder` and `GaugeIsExact`. Hypotheses: `GeneratedIDs`, `DistinctIDs`
  and no DELETE (`Deletable = {}`). Each is needed: see the variations of section 3.
- `ExchangeTypeCorrect` and `StreamsDoNotLeak`, without hypotheses: also when the
  stream ID counter comes round. `ExchangeInvariant`, and with it
  `VisitorsGetTheirOwnAnswer` and `TheReadLoopNeverBlocks`, under `NoReuse`: no more
  requests than stream IDs (2^32 in the code, over the life of the process).
- `ClientTypeCorrect`, `OneReadLoop`, `LossesAreRetried` and
  `AnswersStayWithTheirProcess`, for any number of turns, faults, restarts and (finitely
  many) requests; only `ClientAssumption` is used, which says what the constants are.
- `LimiterInvariant`, `LimiterRefinesBucket`, `LimiterCredit`: for any number of
  addresses and calls, any `Burst`, and any times with `MaxStall + Full <= Idle`
  (`RateLimiterAssumption`).
- `DoorImplementsLimiter`, hence `DoorKeepsBuckets` and `DoorKeepsCredit`: the endpoints
  behind the limiter do not interfere with it. `DoorTypeCorrect`, `DoorVerdicts` and `DoorTries`: for any
  number of requests and tokens, and lifetimes of either sign.
- `HostsAreRead`, `NamesAreReachable`, `PortsAreRight`, `FramesComeBack`, `FramesAreWhole`,
  `SettingsFollowPrecedence`: what the run `pure` checks on small inputs (`HostRead`,
  `NameReachable`, `PortIsRight`, `RoundTrip`, `NoPartialFrame`, `Precedence`), for text of
  any length over any alphabet, any list of tunnels, payloads of any length over
  bytes of any base, and any flags, variables and files. `Precedence` is stated from a table
of settings and their variables and looks each source up for itself; it also says when
the server exits instead. Six corollaries
  (`HostsReadThroughout`, ...) state the run's own properties for any bounds. `HostsAreRead` and `NamesAreReachable` assume `PublicName`: the configured
  name is not empty, is in lower case, has no space at either end and no colon. The
  colon matters: with `public_hostname: example:80` the name itself ends
  in what extractSubdomain takes for a port, and a visitor of `a.example:80` is not led to `a`.

*The argument for routing.* `RoutesFollowRegistry` and `ServedTunnelsRoutable` are not
inductive: whether CleanupUnmap removes a foreign route depends on what the
session read in an earlier step. `RoutingInv` adds who owns what (`OwnersKnown`,
`OwnIDs`, `ConnectionsOwn`) and what a session knows in between: after Register
its tunnel is in the table (`AboutToMap`); after GetByID the tunnel it found is
still there under that subdomain (`AboutToUnmap`); after UnmapSubdomain the
subdomain is unrouted as long as its tunnel is registered (`AboutToUnregister`);
until cleanup starts its tunnels are registered and routed to it (`UpRouted`).
Since tunnel IDs determine session and subdomain (lemma `TunnelIDsAreUnique`), a
step of another session touches another ID, and since a taken subdomain cannot
be registered, another subdomain. TLC checks `RoutingInv` in `sessions`; the
proof has one lemma per action (`RoutingRegister`, `RoutingMap`, `RoutingLookup`,
`RoutingUnmap`, `RoutingUnregister`, `RoutingRemove`, ...) and two for the actions
that leave the tables alone.

*The argument for leaks.* That a closed session has left nothing is not inductive: it
has to be known who will remove a tunnel. `KeptInv`: every tunnel in the table is
remembered by a session that has not ended and whose connection it names, in its
`tunnelIDs` or as the one it is about to map (`Remembers`), and every connection in
the broker is of a session between Accept and its end. Cleanup forgets an ID only
after Unregister, and an ID registered a second time is remembered by whoever
registered it last. No assumption on IDs is needed. `LeadInv`, behind
`EveryRouteLeads`, says that whoever may still add a route has its connection filed.

*The argument for the gauge.* `RoutingInv` gives that tunnel IDs of different sessions
differ, so that each Register adds one tunnel, each Unregister that moves the gauge
takes one away, and the sessions between Register and the increment are the
difference; the rest is cardinalities of finite sets.

*The argument for the exchange.* While IDs are given out once (`IDsInOrder`,
`IDsDiffer`), everything filed, sent or kept under an ID belongs to the request that
has it: frames in both directions and in the read loop's hands (`FramesOwn`), the
client's table and goroutines (`ClientOwn`), the channels (`ChannelsOwn`). `OwnResponse`
follows. That delivery never blocks needs more, since Response has room for one:
a request is opened once (`OpenedOnce`), so there is one handler goroutine for it,
and its answer is on the wire, in the read loop's hands or in the channel, and
in no two of them (`AnsweredOnce`). For `NoStreamLeaks`, `StreamsOwn` suffices: a stream
is filed under the ID of a request that is still being served. TLC agrees with
`ExchangeInv` on the instance of `exchange_safety`.

*The argument for the client.* `OneReader` needs that the channel of a connection under
construction is still open (`ReaderInv`): the loop that starts on it is then the
only one. `LossIsRetried` needs that failures before a connection are forgotten when it is
established (`LossInv`). For answers, `AnswersInv` says that an ID tells the requests of
one gateway process apart, that whoever waits was given its ID by the process that
runs, and that what is on the way to the client or at work there carries the ID of its
request, from whatever process. An answer is accepted by ID, so it comes from
the visitor's own request or from one of an earlier process. Steps are reduced to what
they do to visitors, handlers and inboxes (`OrdinarySteps`); arrivals, shutdown and
restart are on their own. TLC agrees with these invariants on the instance of
`client_answers`.

*The argument for the limiter.* The level of an address's bucket is what its
visitor's limiter holds now, or a full bucket if there is no visitor. Refinement
needs that a visitor is forgotten only when its bucket is full: it has been drawn
from no later than `MaxStall` after it was seen (in `LimiterTypeOK`), so after `Idle` it
has had `Full` to fill. The same bound keeps a visitor in the table while a call
has it in hand. Each step then is a step of `Bucket` or a stutter (`StepRefines`), and
the credit follows from `Bucket`'s steps (`StepCredit`).

*The argument for verdicts.* `VerdictsFair` speaks of the end of a validation;
`VerdictInv` adds what holds between its steps (`Midway`): a token that was dead at
the start is still dead, and once its flag has been found clear it is dead by the
clock. This is stable because the store and the clock only go `Onward`: no
token is removed, revived or extended. `CallStep` reduces an action to its own
request; one lemma per action does the rest.

*The argument for tries.* `PaidFor`: tries made, plus requests let in that have shown
no token yet, are at most the requests served. Enter moves both sides, Present
moves a request from one summand to the other, every other step leaves or
shrinks the left side. With the credit bound this gives `TriesBounded`. TLC agrees
with `VerdictInv` and `PaidFor` on the instance of `front_door`.

*The argument for names.* `Min` and `Max` of a set of positions are a least and a
greatest element because `<` is well-founded on the naturals (`MinIsLeast`,
`MaxIsGreatest`), which says where TrimSpace, LastIndex and the loop of resolvePort
stop. A number has no colon, so at most one colon can start a port, and a host with a
port does not also end in the public name: there is one reading at most. A tunnel ID that ends in a
dash and a name without dashes ends in no other such name, so the
first tunnel that matches is the one meant.

*The argument for frames.* Quotient and remainder are unique (`DivisionUnique`), so the
digits taken off a length one by one are those EncodeFrame writes, and what DecodeFrame
adds up is the length modulo `Width` (`DigitsRead`). The rest is positions:
`FrameBytes` says what is where in a frame, `FrameRead` what DecodeFrame makes of the
first `n` bytes of it, for every `n`; the two theorems are its cases.

*Model-checked only.* Liveness (`GoneClientsAreCleaned`, `RequestsAnswered`,
`LoopEnds`, `TasksEnd`, `CloseEnds`, `Reconnects`) is beyond the prover.

## 5. Not modelled, and why

- heartbeats in Gateway: they only set `LastHeartbeatAt`, which nothing reads
  while CleanExpired has no caller; UpdateHeartbeat and CleanExpired are in Registry;
- read-only listings, `conn.Tunnels`, counters other than the tunnel gauge;
- several connections in Exchange: streams of different connections share only
  the ID counter;
- JSON, HTTP headers and bodies, HMAC: a message, a body, a signature is what it
  stands for;
- LoadClientConfig and runClient: one file over defaults, nothing to combine;
- settings nothing reads (limits on tunnels and streams, storage, token lifetime),
  log output, health checks;
- durations: timers fire at some time, so nothing is said about how long a
  back-off or a heartbeat interval is;
- tokens and sessions in one module: a session does not look at its token again,
  so Gateway's two outcomes of authentication (`Reject`, `Accept`) are all there is.

## 6. Possible extensions

1. If the reply of handleConnect is written under `sendMu`: `NoPanic` with requests, and
   `Reconnects` without `Orphaned`.
2. Several connections in Exchange, with the shared ID counter.
3. If CleanExpired gets a caller: heartbeats in Gateway, and expiry racing a
   session's own cleanup.
