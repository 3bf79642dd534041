------------------------------- MODULE Client -------------------------------
(***************************************************************************)
(* The life of a client across connections: Run, Connect, Close,           *)
(* heartbeatLoop, readLoop and the handler goroutines (internal/client),   *)
(* with the gateway process they connect to: Start and its shutdown        *)
(* (internal/server), restarts, and what handleConnect, readLoop and       *)
(* cleanupConnection do to one tunnel.                                     *)
(*                                                                         *)
(* The goroutines of an old connection are not waited for.  They share the *)
(* fields c.ws and c.done with those of the next one and read them again   *)
(* each time round; that is what this module is about.  How one request    *)
(* passes through one connection is the subject of Exchange: here          *)
(* open_stream and its envelope are one frame.                             *)
(*                                                                         *)
(* Each turn of Run makes a done channel and dials at most one socket;     *)
(* both carry the number of the turn.  A number nobody refers to any more  *)
(* is used again.                                                          *)
(***************************************************************************)
EXTENDS Integers, FiniteSets

CONSTANTS
  Request,     \* public requests
  MaxConn,     \* bound: turns of Run some goroutine still refers to
  MaxFaults,   \* bound: failures of the network and restarts of the gateway
  RetryLimits, \* the values of max_retries; 0: unlimited
  Closable,    \* whether somebody calls Close
  None         \* no value; Go's nil

Conn == 1 .. MaxConn

ASSUME ClientAssumption ==
  /\ MaxConn \in Nat \ {0} /\ MaxFaults \in Nat
  /\ RetryLimits \subseteq Nat /\ Closable \in BOOLEAN
  /\ IsFiniteSet(Request) /\ "error" \notin Request
  /\ None \notin Request \cup Nat \cup {"ok", "refused", "error"}

VARIABLES
  run,        \* Run: pc, attempt, max_retries
  c,          \* the shared fields of Client: ws, done, closed; the set of done
              \* channels that are closed
  closing,    \* Close: pc and the socket it took
  heartbeat,  \* the heartbeatLoop each turn started: pc, the channel it selects on
  reader,     \* the readLoop each turn started
  task,       \* handleOpenStream for each request: pc, stream ID
  sock,       \* each socket: up, the requests and the reply under way to the client
  gw,         \* the gateway: state, number of restarts, nextStreamID, the session
              \* of each socket, the one that holds the subdomain
  visitor,    \* ServeHTTP for each request: state, socket, stream ID, restarts, answer
  faults      \* failures and restarts so far

gatewayVars == <<gw, visitor>>
goroutineVars == <<heartbeat, reader, task>>
vars == <<run, c, closing, heartbeat, reader, task, sock, gw, visitor, faults>>

Idle == [pc |-> "none", on |-> None]
NoSocket == [up |-> FALSE, inbox |-> {}, reply |-> None]

Init ==
  /\ run \in [pc : {"reset"}, attempt : {0}, limit : RetryLimits]
  /\ c = [ws |-> None, done |-> None, closed |-> FALSE, dropped |-> {}]
  /\ closing = [pc |-> "no", ws |-> None]
  /\ heartbeat = [k \in Conn |-> Idle]
  /\ reader = [k \in Conn |-> "none"]
  /\ task = [r \in Request |-> [pc |-> "none", id |-> None]]
  /\ sock = [k \in Conn |-> NoSocket]
  /\ gw = [state |-> "up", epoch |-> 0, nextID |-> 0, holder |-> None,
           session |-> [k \in Conn |-> "none"]]
  /\ visitor = [r \in Request |-> [state |-> "idle", conn |-> None, id |-> None,
                                   epoch |-> None, got |-> None]]
  /\ faults = 0

Alive == run.pc # "crashed"

Waiting(k) == {r \in Request : visitor[r].state = "waiting" /\ visitor[r].conn = k}

\* ServeHTTP of the requests in R answers with got and closes the stream.
Answered(R, got) ==
  [r \in Request |-> IF r \in R
                     THEN [visitor[r] EXCEPT !.state = "ended", !.conn = None, !.got = got]
                     ELSE visitor[r]]
-----------------------------------------------------------------------------
(* The gateway *)

\* handleConnect reads the first frame on a socket: a register frame claims the
\* subdomain if it is free, and visitors are routed here from now on; anything
\* else is refused and the socket closed.
Greets(k, type) ==
  /\ IF type = "register" /\ gw.holder = None
     THEN /\ gw' = [gw EXCEPT !.session[k] = "replying", !.holder = k]
          /\ UNCHANGED sock
     ELSE /\ gw' = [gw EXCEPT !.session[k] = "none"]
          /\ sock' = [sock EXCEPT ![k].reply = "refused", ![k].up = FALSE]
  /\ UNCHANGED visitor

\* The session's readLoop takes a frame: stream_data answers the request that
\* waits on this stream ID, close_stream ends it, a heartbeat does neither.
Serves(k, type, id, body) ==
  LET R == {r \in Waiting(k) : visitor[r].id = id}
  IN  /\ visitor' = CASE type = "data"  -> Answered(R, body)
                      [] type = "close" -> Answered(R, "error")
                      [] OTHER          -> visitor
      /\ UNCHANGED <<gw, sock>>

\* A frame written to socket k arrives, or is lost with the connection.  Writing
\* and reading it are one step, which waits while the session is replying.
Sent(k, type, id, body) ==
  \/ sock[k].up /\ gw.session[k] = "new" /\ Greets(k, type)
  \/ sock[k].up /\ gw.session[k] = "serving" /\ Serves(k, type, id, body)
  \/ ~sock[k].up /\ UNCHANGED <<gatewayVars, sock>>

\* The session's reply goes out and its readLoop starts.  Behind an open_stream
\* frame the reply is not read any more.
Reply(k) ==
  /\ gw.session[k] = "replying"
  /\ gw' = [gw EXCEPT !.session[k] = "serving"]
  /\ sock' = IF sock[k].up /\ sock[k].inbox = {} THEN [sock EXCEPT ![k].reply = "ok"] ELSE sock
  /\ UNCHANGED <<run, c, closing, goroutineVars, visitor, faults>>

\* The reply is written without sendMu beside a visitor's frame, and
\* gorilla/websocket panics, before or after the reply has gone out.  readLoop has
\* not deferred cleanupConnection yet: the socket is closed, the tunnel stays.
ReplyPanics(k) ==
  /\ gw.session[k] = "replying" /\ Waiting(k) # {}
  /\ gw' = [gw EXCEPT !.session[k] = "none"]
  /\ \E reply \in {None, "ok"} :
       /\ reply = "ok" => sock[k].up
       /\ sock' = [sock EXCEPT ![k].up = FALSE, ![k].reply = reply]
  /\ UNCHANGED <<run, c, closing, goroutineVars, visitor, faults>>

\* Bug variant: stream IDs are counted per connection.
OpenStream_PerConnection(r) ==
  LET k == gw.holder
      id == Cardinality(Waiting(k)) + 1
  IN  /\ gw.state = "up" /\ k # None /\ visitor[r].state = "idle"
      /\ visitor' = [visitor EXCEPT ![r] = [state |-> "waiting", conn |-> k, id |-> id,
                                            epoch |-> gw.epoch, got |-> None]]
      /\ sock' = IF sock[k].up THEN [sock EXCEPT ![k].inbox = @ \cup {r}] ELSE sock
      /\ UNCHANGED <<run, c, closing, goroutineVars, gw, faults>>

\* A public request is routed to the session and sent to the client.
OpenStream(r) ==
  LET k == gw.holder
      id == gw.nextID + 1
  IN  /\ gw.state = "up" /\ k # None /\ visitor[r].state = "idle"
      /\ gw' = [gw EXCEPT !.nextID = id]
      /\ visitor' = [visitor EXCEPT ![r] = [state |-> "waiting", conn |-> k, id |-> id,
                                            epoch |-> gw.epoch, got |-> None]]
      /\ sock' = IF sock[k].up THEN [sock EXCEPT ![k].inbox = @ \cup {r}] ELSE sock
      /\ UNCHANGED <<run, c, closing, goroutineVars, faults>>

\* 30 seconds without an answer.
Timeout(r) ==
  /\ visitor[r].state = "waiting"
  /\ visitor' = Answered({r}, "error")
  /\ UNCHANGED <<run, c, closing, goroutineVars, sock, gw, faults>>

\* The gateway's read fails: the session is cleaned up.
CleanupConnection(k) ==
  /\ gw.session[k] \in {"new", "serving"} /\ ~sock[k].up
  /\ gw' = [gw EXCEPT !.session[k] = "none", !.holder = IF @ = k THEN None ELSE @]
  /\ visitor' = Answered(Waiting(k), "error")
  /\ UNCHANGED <<run, c, closing, goroutineVars, sock, faults>>

\* SIGINT or SIGTERM: Shutdown closes the listener.  Client sockets are
\* hijacked, so it neither closes them nor waits for them.
Signal ==
  /\ gw.state = "up" /\ faults < MaxFaults
  /\ faults' = faults + 1
  /\ gw' = [gw EXCEPT !.state = "draining"]
  /\ UNCHANGED <<run, c, closing, goroutineVars, sock, visitor>>

\* Start returns, when no request is in flight or after 15 seconds, and the
\* process exits.  Every table was in memory.  A gateway that is killed does
\* the same right after Signal.
Exit ==
  /\ gw.state = "draining"
  /\ gw' = [gw EXCEPT !.state = "down", !.nextID = 0, !.holder = None,
                      !.session = [k \in Conn |-> "none"]]
  /\ sock' = [k \in Conn |-> [sock[k] EXCEPT !.up = FALSE]]
  /\ visitor' = Answered({r \in Request : visitor[r].state = "waiting"}, "error")
  /\ UNCHANGED <<run, c, closing, goroutineVars, faults>>

Start ==
  /\ gw.state = "down"
  /\ gw' = [gw EXCEPT !.state = "up", !.epoch = @ + 1]
  /\ UNCHANGED <<run, c, closing, goroutineVars, sock, visitor, faults>>
-----------------------------------------------------------------------------
(* The network *)

Drop(k) ==
  /\ sock[k].up /\ faults < MaxFaults
  /\ sock' = [sock EXCEPT ![k].up = FALSE]
  /\ faults' = faults + 1
  /\ UNCHANGED <<run, c, closing, goroutineVars, gatewayVars>>
-----------------------------------------------------------------------------
(* Run, with Connect *)

Goto(from, to) == run.pc = from /\ run' = [run EXCEPT !.pc = to]

\* Nobody refers to number k, as a socket or as a channel.
Unused(k) ==
  /\ k \notin {c.ws, closing.ws, gw.holder}
  /\ heartbeat[k] = Idle /\ reader[k] = "none" /\ gw.session[k] = "none"
  /\ \A j \in Conn : heartbeat[j].on # k
  /\ Waiting(k) = {}

\* c.done = make(chan struct{}).  The empty pendingStreams that comes with it
\* is in Exchange.
Reset ==
  LET new == CHOOSE k \in Conn : Unused(k)
  IN  /\ Goto("reset", "dial") /\ \E k \in Conn : Unused(k)
      /\ c' = [c EXCEPT !.done = new, !.dropped = @ \ {new}]
      /\ sock' = [sock EXCEPT ![new] = NoSocket]
      /\ UNCHANGED <<closing, goroutineVars, gatewayVars, faults>>

\* Bug variant: the new socket is kept in a local variable only.
Dial_Shadows ==
  /\ gw.state = "up" /\ Goto("dial", "register")
  /\ sock' = [sock EXCEPT ![c.done].up = TRUE]
  /\ gw' = [gw EXCEPT !.session[c.done] = "new"]
  /\ UNCHANGED <<c, closing, goroutineVars, visitor, faults>>

\* c.ws = ws, without wsMu.
Dial ==
  /\ gw.state = "up" /\ Goto("dial", "register")
  /\ c' = [c EXCEPT !.ws = c.done]
  /\ sock' = [sock EXCEPT ![c.done].up = TRUE]
  /\ gw' = [gw EXCEPT !.session[c.done] = "new"]
  /\ UNCHANGED <<closing, goroutineVars, visitor, faults>>

DialFails ==
  /\ Goto("dial", "failed")
  /\ \/ gw.state # "up" /\ UNCHANGED faults
     \/ faults < MaxFaults /\ faults' = faults + 1
  /\ UNCHANGED <<c, closing, goroutineVars, sock, gatewayVars>>

\* The register frame is written, without wsMu.
SendRegister ==
  /\ Goto("register", "reply")
  /\ Sent(c.ws, "register", None, None)
  /\ UNCHANGED <<c, closing, goroutineVars, faults>>

\* Bug variant: the count of failures survives a successful connection.
Connected_KeepsAttempt ==
  /\ run.pc = "reply" /\ sock[c.ws].reply = "ok"
  /\ run' = [run EXCEPT !.pc = "connected"]
  /\ sock' = [sock EXCEPT ![c.ws].reply = None]
  /\ heartbeat' = [heartbeat EXCEPT ![c.ws].pc = "top"]
  /\ reader' = [reader EXCEPT ![c.ws] = "read"]
  /\ UNCHANGED <<c, closing, task, gatewayVars, faults>>

\* The control_response says OK: Connect starts the two loops and Run waits.
Connected ==
  /\ run.pc = "reply" /\ sock[c.ws].reply = "ok"
  /\ run' = [run EXCEPT !.pc = "connected", !.attempt = 0]
  /\ sock' = [sock EXCEPT ![c.ws].reply = None]
  /\ heartbeat' = [heartbeat EXCEPT ![c.ws].pc = "top"]
  /\ reader' = [reader EXCEPT ![c.ws] = "read"]
  /\ UNCHANGED <<c, closing, task, gatewayVars, faults>>

\* The register frame cannot be written, no reply comes, the gateway refuses, or
\* the first frame that comes is a visitor's.
CannotConnect ==
  \/ run.pc \in {"register", "reply"} /\ ~sock[c.ws].up
  \/ run.pc = "reply" /\ sock[c.ws].reply = "refused"
  \/ run.pc = "reply" /\ sock[c.ws].reply = None /\ sock[c.ws].inbox # {}

\* Bug variant: the socket of a failed attempt stays open.
ConnectFails_KeepsSocket ==
  /\ CannotConnect
  /\ run' = [run EXCEPT !.pc = "failed"]
  /\ UNCHANGED <<c, closing, goroutineVars, sock, gatewayVars, faults>>

\* Connect fails once it has a socket, and closes it.
ConnectFails ==
  /\ CannotConnect
  /\ run' = [run EXCEPT !.pc = "failed"]
  /\ sock' = [sock EXCEPT ![c.ws] = NoSocket]
  /\ UNCHANGED <<c, closing, goroutineVars, gatewayVars, faults>>

\* Bug variant: Run looks at the socket instead of waiting for c.done.
Lost_EarlyReturn ==
  /\ Goto("connected", "lost") /\ ~sock[c.ws].up
  /\ UNCHANGED <<c, closing, goroutineVars, sock, gatewayVars, faults>>

\* <-c.done
Lost ==
  /\ Goto("connected", "lost") /\ c.done \in c.dropped
  /\ UNCHANGED <<c, closing, goroutineVars, sock, gatewayVars, faults>>

\* The end of a turn: Run returns after Close, gives up, or waits.  The loss of
\* an established connection counts as an attempt.  The counter is kept no
\* higher than decisions depend on.
Retry ==
  LET n == IF run.attempt < run.limit THEN run.attempt + 1 ELSE run.limit
  IN  /\ run.pc \in {"lost", "failed"}
      /\ run' = CASE c.closed -> [run EXCEPT !.pc = "returned"]
                  [] ~c.closed /\ run.limit > 0 /\ n >= run.limit ->
                       [run EXCEPT !.pc = "gave up", !.attempt = n]
                  [] OTHER -> [run EXCEPT !.pc = "backoff", !.attempt = n]
      /\ UNCHANGED <<c, closing, goroutineVars, sock, gatewayVars, faults>>

Backoff ==
  /\ Goto("backoff", "reset") \/ (c.closed /\ Goto("backoff", "returned"))
  /\ UNCHANGED <<c, closing, goroutineVars, sock, gatewayVars, faults>>
-----------------------------------------------------------------------------
(* Close *)

CloseSignals ==
  /\ Closable /\ Alive /\ closing.pc = "no"
  /\ closing' = [closing EXCEPT !.pc = "signalled"]
  /\ c' = [c EXCEPT !.closed = TRUE]
  /\ UNCHANGED <<run, goroutineVars, sock, gatewayVars, faults>>

CloseTakesSocket ==
  /\ closing.pc = "signalled"
  /\ closing' = [pc |-> "taken", ws |-> c.ws]
  /\ UNCHANGED <<run, c, goroutineVars, sock, gatewayVars, faults>>

\* Bug variant: the socket stays open.
CloseSocket_Skipped ==
  /\ closing.pc = "taken"
  /\ closing' = [closing EXCEPT !.pc = "finished"]
  /\ UNCHANGED <<run, c, goroutineVars, sock, gatewayVars, faults>>

\* The close message, without wsMu, and ws.Close.
CloseSocket ==
  /\ closing.pc = "taken"
  /\ closing' = [closing EXCEPT !.pc = "finished"]
  /\ sock' = IF closing.ws = None THEN sock ELSE [sock EXCEPT ![closing.ws].up = FALSE]
  /\ UNCHANGED <<run, c, goroutineVars, gatewayVars, faults>>
-----------------------------------------------------------------------------
(* The loops and the handlers *)

HeartbeatEnters(k) ==
  /\ heartbeat[k].pc = "top"
  /\ heartbeat' = [heartbeat EXCEPT ![k] = [pc |-> "select", on |-> c.done]]
  /\ UNCHANGED <<run, c, closing, reader, task, sock, gatewayVars, faults>>

Stops(k) == heartbeat[k].on \in c.dropped \/ c.closed

\* With Stops ready as well, taking the tick is no different from a tick that
\* came just before.
HeartbeatTicks(k) ==
  /\ heartbeat[k].pc = "select" /\ ~Stops(k)
  /\ heartbeat' = [heartbeat EXCEPT ![k] = [pc |-> "write", on |-> None]]
  /\ UNCHANGED <<run, c, closing, reader, task, sock, gatewayVars, faults>>

HeartbeatWrites(k) ==
  /\ heartbeat[k].pc = "write"
  /\ \/ /\ Sent(c.ws, "heartbeat", None, None)
        /\ heartbeat' = [heartbeat EXCEPT ![k].pc = "top"]
     \/ /\ ~sock[c.ws].up
        /\ heartbeat' = [heartbeat EXCEPT ![k] = Idle]
        /\ UNCHANGED <<sock, gatewayVars>>
  /\ UNCHANGED <<run, c, closing, reader, task, faults>>

HeartbeatStops(k) ==
  /\ heartbeat[k].pc = "select" /\ Stops(k)
  /\ heartbeat' = [heartbeat EXCEPT ![k] = Idle]
  /\ UNCHANGED <<run, c, closing, reader, task, sock, gatewayVars, faults>>

\* readLoop takes a request off c.ws and starts its handler.
ReadRequest(k) ==
  /\ reader[k] = "read"
  /\ \E r \in sock[c.ws].inbox :
       /\ sock' = [sock EXCEPT ![c.ws].inbox = @ \ {r}]
       /\ task' = [task EXCEPT ![r] = [pc |-> "local", id |-> visitor[r].id]]
  /\ UNCHANGED <<run, c, closing, heartbeat, reader, gatewayVars, faults>>

ReadError(k) ==
  /\ reader[k] = "read" /\ ~sock[c.ws].up
  /\ reader' = [reader EXCEPT ![k] = "exit"]
  /\ UNCHANGED <<run, c, closing, heartbeat, task, sock, gatewayVars, faults>>

\* The deferred close of whatever c.done is now, unless it is closed.  What is
\* left on the socket is never read.
ReaderExits(k) ==
  /\ reader[k] = "exit"
  /\ reader' = [reader EXCEPT ![k] = "none"]
  /\ c' = [c EXCEPT !.dropped = @ \cup {c.done}]
  /\ sock' = [sock EXCEPT ![c.ws].inbox = {}]
  /\ UNCHANGED <<run, closing, heartbeat, task, gatewayVars, faults>>

\* The local request ends, with an answer or not.  It outlives the connection.
LocalRequest(r) ==
  /\ task[r].pc = "local"
  /\ \/ task' = [task EXCEPT ![r].pc = "send"]
     \/ task' = [task EXCEPT ![r] = [pc |-> "none", id |-> None]]
  /\ UNCHANGED <<run, c, closing, heartbeat, reader, sock, gatewayVars, faults>>

\* sendStreamData and sendCloseStream write to whatever c.ws is now.
SendStreamData(r) ==
  /\ task[r].pc = "send"
  /\ Sent(c.ws, "data", task[r].id, r)
  /\ task' = [task EXCEPT ![r].pc = "close"]
  /\ UNCHANGED <<run, c, closing, heartbeat, reader, faults>>

SendCloseStream(r) ==
  /\ task[r].pc = "close"
  /\ Sent(c.ws, "close", task[r].id, None)
  /\ task' = [task EXCEPT ![r] = [pc |-> "none", id |-> None]]
  /\ UNCHANGED <<run, c, closing, heartbeat, reader, faults>>

\* Whoever is inside a write that does not hold wsMu: SendRegister or Close.
Unlocked ==
  \/ run.pc = "register"
  \/ closing.pc = "taken" /\ closing.ws = c.ws

\* A goroutine that holds wsMu writes at the same time: gorilla/websocket panics
\* when it notices, and the process is gone.
WriteCollides ==
  /\ Unlocked
  /\ \/ \E k \in Conn : heartbeat[k].pc = "write"
     \/ \E r \in Request : task[r].pc \in {"send", "close"}
  /\ run' = [run EXCEPT !.pc = "crashed"]
  /\ c' = [ws |-> None, done |-> None, closed |-> FALSE, dropped |-> {}]
  /\ closing' = [pc |-> "no", ws |-> None]
  /\ heartbeat' = [k \in Conn |-> Idle]
  /\ reader' = [k \in Conn |-> "none"]
  /\ task' = [r \in Request |-> [pc |-> "none", id |-> None]]
  /\ sock' = [k \in Conn |-> NoSocket]
  /\ UNCHANGED <<gatewayVars, faults>>
-----------------------------------------------------------------------------
RunStep ==
  \/ Reset \/ Dial \/ DialFails \/ SendRegister \/ Connected \/ ConnectFails
  \/ Lost \/ Retry \/ Backoff

CloseStep == CloseTakesSocket \/ CloseSocket

HeartbeatStep(k) ==
  HeartbeatEnters(k) \/ HeartbeatTicks(k) \/ HeartbeatWrites(k) \/ HeartbeatStops(k)

ReaderStep(k) == ReadRequest(k) \/ ReadError(k) \/ ReaderExits(k)

SessionStep(k) == Reply(k) \/ ReplyPanics(k) \/ CleanupConnection(k)

TaskStep(r) == LocalRequest(r) \/ SendStreamData(r) \/ SendCloseStream(r)

Next ==
  \/ RunStep \/ CloseSignals \/ CloseStep \/ WriteCollides
  \/ \E k \in Conn : HeartbeatStep(k) \/ ReaderStep(k) \/ SessionStep(k) \/ Drop(k)
  \/ \E r \in Request : TaskStep(r) \/ OpenStream(r) \/ Timeout(r)
  \/ Signal \/ Exit \/ Start

\* Goroutines that can run do; the gateway replies, notices a lost connection,
\* drains for 15 seconds at most, and is started again.
Fairness ==
  /\ WF_vars(RunStep) /\ WF_vars(CloseStep)
  /\ \A k \in Conn : WF_vars(HeartbeatStep(k)) /\ WF_vars(ReaderStep(k))
                     /\ WF_vars(SessionStep(k))
  /\ \A r \in Request : WF_vars(TaskStep(r))
  /\ WF_vars(Exit) /\ WF_vars(Start)

Spec == Init /\ [][Next]_vars /\ Fairness
-----------------------------------------------------------------------------
RunPC == {"reset", "dial", "register", "reply", "connected", "lost", "failed",
          "backoff", "returned", "gave up", "crashed"}

RunState == [pc : RunPC, attempt : Nat, limit : RetryLimits]
Fields == [ws : Conn \cup {None}, done : Conn \cup {None}, closed : BOOLEAN, dropped : SUBSET Conn]
Closing == [pc : {"no", "signalled", "taken", "finished"}, ws : Conn \cup {None}]
Heartbeat == [pc : {"none", "top", "select", "write"}, on : Conn \cup {None}]
StreamID == 1 .. Cardinality(Request)
Task == [pc : {"none", "local", "send", "close"}, id : StreamID \cup {None}]
Socket == [up : BOOLEAN, inbox : SUBSET Request, reply : {None, "ok", "refused"}]
Gateway == [state : {"up", "draining", "down"}, epoch : 0 .. MaxFaults,
            nextID : 0 .. Cardinality(Request), holder : Conn \cup {None},
            session : [Conn -> {"none", "new", "replying", "serving"}]]
Visitor == [state : {"idle", "waiting", "ended"}, conn : Conn \cup {None},
            id : StreamID \cup {None}, epoch : 0 .. MaxFaults \cup {None},
            got : Request \cup {None, "error"}]

RunTypeOK ==
  /\ run \in RunState /\ run.attempt <= run.limit
  /\ c \in Fields /\ closing \in Closing
  /\ run.pc \in {"dial", "register", "reply", "connected"} => c.done # None
  /\ run.pc \in {"register", "reply", "connected"} => c.ws = c.done
LoopTypeOK ==
  /\ heartbeat \in [Conn -> Heartbeat] /\ task \in [Request -> Task]
  /\ reader \in [Conn -> {"none", "read", "exit"}]
WorldTypeOK ==
  /\ sock \in [Conn -> Socket] /\ gw \in Gateway /\ visitor \in [Request -> Visitor]
  /\ faults \in 0 .. MaxFaults

\* Every variable has its type, no counter exceeds its limit, and past the dial
\* there is a socket.
TypeOK == RunTypeOK /\ LoopTypeOK /\ WorldTypeOK

\* There is never more than one readLoop, it reads the socket it was started
\* for, and the c.done its deferred close will close is the open channel Run
\* waits on: no loop steals another's frames, none ends another's connection,
\* and close is never called on a closed channel.
OneReader ==
  \A k \in Conn : reader[k] # "none" /\ Alive =>
    c.ws = k /\ c.done = k /\ k \notin c.dropped /\ run.pc = "connected"

\* Handlers that outlive their connection send their answer on the next one.
\* As long as the gateway that gave out the stream ID still runs, the answer
\* goes to its own request or nowhere; only a restart, which counts from 1
\* again, can make it another visitor's answer.
AnswersStayInEpoch ==
  \A r \in Request : visitor[r].got \in Request =>
    visitor[r].got = r \/ visitor[visitor[r].got].epoch < visitor[r].epoch

\* A client that may retry does so when an established connection is lost: the
\* failures before it was established are forgotten.
LossIsRetried ==
  [][run.pc = "lost" /\ run.limit # 1 => run'.pc # "gave up"]_vars

\* The connection Close did not know of, because Connect was busy making it.
MissedByClose == run.pc = "connected" /\ closing.ws # c.ws

Quiet ==
  /\ run.pc \in {"returned", "gave up"}
  /\ \A k \in Conn : heartbeat[k].pc = "none" /\ reader[k] = "none"

\* Close ends Run and both loops, whatever they are doing; the one exception
\* is a Connect that succeeds after Close took c.ws.
CloseEnds == c.closed ~> Quiet \/ MissedByClose \/ ~Alive

Registered == run.pc = "connected" /\ sock[c.ws].up /\ gw.holder = c.ws

\* A heartbeatLoop of an earlier turn is still running.
StaleLoop == \E k \in Conn \ {c.ws} : heartbeat[k].pc # "none"

\* The tunnel is registered and no session will clean it up: see ReplyPanics.
Orphaned == gw.holder # None /\ gw.session[gw.holder] = "none"

\* With unlimited retries the client gets its tunnel registered again after
\* every loss, every restart of the gateway and every visitor whose open_stream
\* overtakes the reply, although its own old session may still hold the
\* subdomain when it first tries.  Two things can prevent it.  A heartbeatLoop
\* that never ends, because it waits on the done channel of a turn whose Connect
\* failed, may write to each new socket before the register frame; and a tunnel
\* left behind by a reply that panicked stays taken until the gateway restarts.
Reconnects ==
  run.limit = 0 =>
    []<>Registered \/ <>(c.closed \/ ~Alive) \/ <>[]StaleLoop \/ <>[]Orphaned
-----------------------------------------------------------------------------
(* Inductive invariants, for the proofs.                                   *)

\* The gateway has been restarted no more often than something failed, and has
\* given out no more stream IDs than requests have come.
Opened == {r \in Request : visitor[r].state # "idle"}
CountsOK ==
  /\ gw.epoch + (IF gw.state = "up" THEN 0 ELSE 1) <= faults
  /\ gw.nextID <= Cardinality(Opened)

\* While Connect is at work its done channel is open, and a client that is gone
\* has no readLoop.
ReaderInv ==
  /\ TypeOK /\ OneReader
  /\ run.pc \in {"dial", "register", "reply"} => c.done \notin c.dropped
  /\ ~Alive => \A k \in Conn : reader[k] = "none"

\* The failures before a connection are forgotten when it is established.
LossInv == TypeOK /\ (run.pc \in {"connected", "lost"} => run.attempt = 0)

\* A stream ID tells the requests of one process of the gateway apart; whoever
\* waits was given its ID by the one that runs; and whatever is on the way to
\* the client or at work there carries the ID of its request.
StreamIDsTell ==
  /\ \A r \in Opened : visitor[r].id # None /\ visitor[r].epoch # None
  /\ \A r \in Opened : visitor[r].epoch <= gw.epoch
  /\ \A r \in Opened : gw.state # "down" /\ visitor[r].epoch = gw.epoch => visitor[r].id <= gw.nextID
  /\ \A r, q \in Opened : visitor[r].epoch = visitor[q].epoch /\ visitor[r].id = visitor[q].id => r = q
  /\ \A r \in Request : visitor[r].state = "waiting" =>
       visitor[r].epoch = gw.epoch /\ gw.state # "down"
RequestsKnown ==
  /\ \A k \in Conn : sock[k].inbox \subseteq Opened
  /\ \A r \in Request : task[r].pc # "none" => r \in Opened /\ task[r].id = visitor[r].id
  /\ \A r \in Request : visitor[r].got \in Request => r \in Opened /\ visitor[r].got \in Opened
AnswersInv == TypeOK /\ StreamIDsTell /\ RequestsKnown /\ AnswersStayInEpoch
=============================================================================
