---------------------------- MODULE ClientProofs ----------------------------
(* Proofs about the life of a client, for any number of turns of Run,       *)
(* requests, faults and restarts, and any values of max_retries.            *)
EXTENDS Client, FiniteSetTheorems, TLAPS

\* The inductive invariant behind TypeOK.
TypeInv == TypeOK /\ CountsOK

\* What a step leaves alone keeps its type.
LEMMA TypeFrames ==
  ASSUME TypeOK
  PROVE  /\ UNCHANGED <<run, c, closing>> => RunTypeOK'
         /\ UNCHANGED <<heartbeat, reader, task>> => LoopTypeOK'
         /\ UNCHANGED <<sock, gw, visitor, faults>> => WorldTypeOK'
<1>1. UNCHANGED <<run, c, closing>> => RunTypeOK'
  BY DEF TypeOK, RunTypeOK
<1>2. UNCHANGED <<heartbeat, reader, task>> => LoopTypeOK'
  BY DEF TypeOK, LoopTypeOK
<1>3. UNCHANGED <<sock, gw, visitor, faults>> => WorldTypeOK'
  BY DEF TypeOK, WorldTypeOK
<1> QED BY <1>1, <1>2, <1>3

\* Answering requests keeps their types, IDs and processes, and nobody who has
\* come is forgotten.
LEMMA AnsweredEffects ==
  ASSUME WorldTypeOK, NEW R, NEW got \in Request \cup {None, "error"},
         \A r \in Request : r \in R => visitor[r].state # "idle",
         visitor' = Answered(R, got)
  PROVE  /\ visitor' \in [Request -> Visitor] /\ Opened' = Opened
         /\ \A r \in Request : /\ visitor'[r].id = visitor[r].id
                               /\ visitor'[r].epoch = visitor[r].epoch
                               /\ visitor'[r].state = "idle" <=> visitor[r].state = "idle"
         /\ \A r \in Request : r \in R => visitor'[r].state = "ended" /\ visitor'[r].got = got
         /\ \A r \in Request : r \notin R => visitor'[r] = visitor[r]
<1>1. visitor \in [Request -> Visitor]
  BY DEF WorldTypeOK
<1>2. ASSUME NEW r \in Request, r \in R
      PROVE  /\ visitor'[r] \in Visitor /\ visitor'[r].state = "ended" /\ visitor'[r].got = got
             /\ visitor'[r].id = visitor[r].id /\ visitor'[r].epoch = visitor[r].epoch
  <2>1. visitor'[r] = [visitor[r] EXCEPT !.state = "ended", !.conn = None, !.got = got]
    BY <1>2, Zenon DEF Answered
  <2>2. visitor[r] \in Visitor
    BY <1>1
  <2> QED BY <2>1, <2>2, ZenonT(30) DEF Visitor
<1>3. \A r \in Request : r \notin R => visitor'[r] = visitor[r]
  BY ZenonT(30) DEF Answered
<1>4. visitor' \in [Request -> Visitor]
  <2>1. \A r \in Request : visitor'[r] \in Visitor
    BY <1>1, <1>2, <1>3
  <2> QED BY <2>1, Zenon DEF Answered
<1>5. Opened' = Opened
  BY <1>2, <1>3 DEF Opened
<1> QED BY <1>2, <1>3, <1>4, <1>5

\* What a frame written to a socket does: the gateway's counters and the
\* requests under way stay, and requests that wait on the stream may be answered.
LEMMA SentEffects ==
  ASSUME WorldTypeOK, NEW k \in Conn \cup {None}, NEW type, NEW id,
         NEW body \in Request \cup {None}, Sent(k, type, id, body)
  PROVE  /\ sock' \in [Conn -> Socket] /\ gw' \in Gateway
         /\ gw'.state = gw.state /\ gw'.epoch = gw.epoch /\ gw'.nextID = gw.nextID
         /\ \A j \in Conn : sock'[j].inbox = sock[j].inbox
         /\ \/ UNCHANGED visitor
            \/ \E R \in SUBSET Waiting(k) :
                 \/ visitor' = Answered(R, "error")
                 \/ /\ type = "data" /\ visitor' = Answered(R, body)
                    /\ \A r \in R : visitor[r].id = id
<1>0. sock \in [Conn -> Socket] /\ gw \in Gateway
  BY DEF WorldTypeOK
<1>1. CASE Greets(k, type)
  <2>1. CASE gw' = [gw EXCEPT !.session[k] = "replying", !.holder = k] /\ UNCHANGED sock
    <3>1. /\ gw' \in Gateway /\ gw'.state = gw.state /\ gw'.epoch = gw.epoch
          /\ gw'.nextID = gw.nextID
      BY <1>0, <2>1, Zenon DEF Gateway
    <3>2. sock' \in [Conn -> Socket] /\ \A j \in Conn : sock'[j].inbox = sock[j].inbox
      BY <1>0, <2>1
    <3> QED BY <1>1, <3>1, <3>2 DEF Greets
  <2>2. CASE /\ gw' = [gw EXCEPT !.session[k] = "none"]
             /\ sock' = [sock EXCEPT ![k].reply = "refused", ![k].up = FALSE]
    <3>1. /\ gw' \in Gateway /\ gw'.state = gw.state /\ gw'.epoch = gw.epoch
          /\ gw'.nextID = gw.nextID
      BY <1>0, <2>2 DEF Gateway
    <3>2. sock' \in [Conn -> Socket] /\ \A j \in Conn : sock'[j].inbox = sock[j].inbox
      BY <1>0, <2>2, ZenonT(30) DEF Socket
    <3> QED BY <1>1, <3>1, <3>2 DEF Greets
  <2> QED BY <1>1, <2>1, <2>2 DEF Greets
<1>2. CASE Serves(k, type, id, body)
  <2> DEFINE R == {r \in Waiting(k) : visitor[r].id = id}
  <2>1. /\ UNCHANGED <<gw, sock>>
        /\ \/ UNCHANGED visitor
           \/ visitor' = Answered(R, "error")
           \/ type = "data" /\ visitor' = Answered(R, body)
    BY <1>2 DEF Serves
  <2>2. R \in SUBSET Waiting(k) /\ \A r \in R : visitor[r].id = id
    OBVIOUS
  <2> HIDE DEF R
  <2> QED BY <1>0, <2>1, <2>2
<1>3. CASE UNCHANGED <<gatewayVars, sock>>
  BY <1>0, <1>3 DEF gatewayVars
<1> QED BY <1>1, <1>2, <1>3 DEF Sent

\* What the end of a session's reply does: visitors wait on.
LEMMA ReplyEffects ==
  ASSUME WorldTypeOK, NEW k \in Conn, Reply(k) \/ ReplyPanics(k)
  PROVE  /\ sock' \in [Conn -> Socket] /\ gw' \in Gateway
         /\ gw'.state = gw.state /\ gw'.epoch = gw.epoch /\ gw'.nextID = gw.nextID
         /\ \A j \in Conn : sock'[j].inbox = sock[j].inbox
         /\ UNCHANGED <<run, c, closing, heartbeat, reader, task, visitor, faults>>
<1>0. sock \in [Conn -> Socket] /\ gw \in Gateway
  BY DEF WorldTypeOK
<1>1. PICK to \in {"serving", "none"} : gw' = [gw EXCEPT !.session[k] = to]
  BY Zenon DEF Reply, ReplyPanics
<1>2. gw' \in Gateway /\ gw'.state = gw.state /\ gw'.epoch = gw.epoch /\ gw'.nextID = gw.nextID
  BY <1>0, <1>1, Zenon DEF Gateway
<1>3. UNCHANGED <<run, c, closing, heartbeat, reader, task, visitor, faults>>
  BY Zenon DEF Reply, ReplyPanics, goroutineVars
<1>4. \/ UNCHANGED sock
      \/ sock' = [sock EXCEPT ![k].reply = "ok"]
      \/ \E reply \in {None, "ok"} : sock' = [sock EXCEPT ![k].up = FALSE, ![k].reply = reply]
  BY Zenon DEF Reply, ReplyPanics
<1>5. CASE UNCHANGED sock
  BY <1>0, <1>2, <1>3, <1>5, Zenon
<1>6. CASE sock' = [sock EXCEPT ![k].reply = "ok"]
  <2>1. sock' \in [Conn -> Socket] /\ \A j \in Conn : sock'[j].inbox = sock[j].inbox
    BY <1>0, <1>6, Zenon DEF Socket
  <2> QED BY <1>2, <1>3, <2>1, Zenon
<1>7. ASSUME NEW reply \in {None, "ok"}, sock' = [sock EXCEPT ![k].up = FALSE, ![k].reply = reply]
      PROVE  sock' \in [Conn -> Socket] /\ \A j \in Conn : sock'[j].inbox = sock[j].inbox
  BY <1>0, <1>7, ZenonT(30) DEF Socket
<1> QED BY <1>2, <1>3, <1>4, <1>5, <1>6, <1>7, Zenon

\* The counts stay within their bounds while nobody comes and the gateway is
\* neither stopped nor started.
LEMMA CountsStay ==
  ASSUME CountsOK, gw'.state = gw.state, gw'.epoch = gw.epoch, gw'.nextID = gw.nextID,
         faults' = faults, Opened' = Opened
  PROVE  CountsOK'
BY DEF CountsOK

\* A frame that is written keeps the types and the counts.
LEMMA SentTypes ==
  ASSUME WorldTypeOK, CountsOK, NEW k \in Conn \cup {None}, NEW type, NEW id,
         NEW body \in Request \cup {None}, Sent(k, type, id, body), UNCHANGED faults
  PROVE  WorldTypeOK' /\ CountsOK' /\ Opened' = Opened
<1>1. /\ sock' \in [Conn -> Socket] /\ gw' \in Gateway
      /\ gw'.state = gw.state /\ gw'.epoch = gw.epoch /\ gw'.nextID = gw.nextID
  BY SentEffects
<1>2. visitor' \in [Request -> Visitor] /\ Opened' = Opened
  <2>1. CASE UNCHANGED visitor
    BY <2>1 DEF WorldTypeOK, Opened
  <2>2. ASSUME NEW R \in SUBSET Waiting(k), NEW got \in Request \cup {None, "error"},
               visitor' = Answered(R, got)
        PROVE  visitor' \in [Request -> Visitor] /\ Opened' = Opened
    <3>1. \A r \in Request : r \in R => visitor[r].state # "idle"
      BY DEF Waiting
    <3> QED BY <2>2, <3>1, AnsweredEffects
  <2>3. CASE ~UNCHANGED visitor
    <3>1. PICK R \in SUBSET Waiting(k) :
            visitor' = Answered(R, "error") \/ visitor' = Answered(R, body)
      BY <2>3, SentEffects
    <3> QED BY <2>2, <3>1
  <2> QED BY <2>1, <2>3
<1> QED BY <1>1, <1>2, CountsStay DEF WorldTypeOK

\* Each step of Run keeps the types.
LEMMA RunStepType ==
  ASSUME TypeInv, RunStep
  PROVE  TypeInv'
<1> USE DEF goroutineVars, gatewayVars
<1>0. TypeOK /\ CountsOK /\ RunTypeOK /\ LoopTypeOK /\ WorldTypeOK
  BY DEF TypeInv, TypeOK
<1>run. /\ run \in RunState /\ c \in Fields /\ closing \in Closing /\ run.limit \in Nat
        /\ run.attempt \in Nat /\ run.attempt <= run.limit
        /\ run.pc \in {"dial", "register", "reply", "connected"} => c.done # None
        /\ run.pc \in {"register", "reply", "connected"} => c.ws = c.done
  BY <1>0, ClientAssumption, Zenon DEF RunTypeOK, RunState
<1>world. /\ sock \in [Conn -> Socket] /\ gw \in Gateway /\ visitor \in [Request -> Visitor]
          /\ faults \in 0 .. MaxFaults
  BY <1>0 DEF WorldTypeOK
<1>goto. ASSUME NEW to \in RunPC, run' = [run EXCEPT !.pc = to]
         PROVE  run' \in RunState /\ run'.pc = to /\ run'.attempt = run.attempt /\ run'.limit = run.limit
  BY <1>run, <1>goto DEF RunState
<1>still. UNCHANGED <<gw, visitor, faults>> => CountsOK'
  BY <1>0, CountsStay DEF Opened
<1>loops. UNCHANGED <<heartbeat, reader, task>> => LoopTypeOK'
  BY <1>0, TypeFrames
<1>1. CASE Reset
  <2> DEFINE new == CHOOSE k \in Conn : Unused(k)
  <2>1. /\ run' = [run EXCEPT !.pc = "dial"] /\ \E k \in Conn : Unused(k)
        /\ c' = [c EXCEPT !.done = new, !.dropped = c.dropped \ {new}]
        /\ sock' = [sock EXCEPT ![new] = NoSocket]
        /\ UNCHANGED <<closing, heartbeat, reader, task, gw, visitor, faults>>
    BY <1>1 DEF Reset, Goto
  <2>2. new \in Conn /\ new # None
    BY <2>1, ClientAssumption DEF Conn
  <2> HIDE DEF new
  <2>3. c' \in Fields /\ c'.done = new
    BY <1>run, <2>1, <2>2, Zenon DEF Fields
  <2>4. NoSocket \in Socket
    BY DEF NoSocket, Socket
  <2>5. RunTypeOK'
    BY <1>goto, <1>run, <2>1, <2>2, <2>3, Zenon DEF RunTypeOK, RunPC
  <2>6. WorldTypeOK'
    BY <1>world, <2>1, <2>4, Zenon DEF WorldTypeOK
  <2> QED BY <1>loops, <1>still, <2>1, <2>5, <2>6 DEF TypeInv, TypeOK
<1>2. CASE Dial
  <2>1. /\ run.pc = "dial" /\ run' = [run EXCEPT !.pc = "register"]
        /\ c' = [c EXCEPT !.ws = c.done]
        /\ sock' = [sock EXCEPT ![c.done].up = TRUE]
        /\ gw' = [gw EXCEPT !.session[c.done] = "new"]
        /\ UNCHANGED <<closing, heartbeat, reader, task, visitor, faults>>
    BY <1>2 DEF Dial, Goto
  <2>2. c' \in Fields /\ c'.done = c.done /\ c'.ws = c.done
    BY <1>run, <2>1 DEF Fields
  <2>3. RunTypeOK'
    BY <1>goto, <1>run, <2>1, <2>2, Zenon DEF RunTypeOK, RunPC
  <2>4. sock' \in [Conn -> Socket]
    BY <1>world, <2>1, ZenonT(40) DEF Socket
  <2>5. gw' \in Gateway /\ gw'.state = gw.state /\ gw'.epoch = gw.epoch /\ gw'.nextID = gw.nextID
    BY <1>world, <2>1 DEF Gateway
  <2>6. CountsOK'
    BY <1>0, <2>1, <2>5, CountsStay DEF Opened
  <2> QED BY <1>loops, <1>world, <2>1, <2>3, <2>4, <2>5, <2>6 DEF TypeInv, TypeOK, WorldTypeOK
<1>3. CASE DialFails
  <2>1. /\ run' = [run EXCEPT !.pc = "failed"] /\ faults' \in {faults, faults + 1}
        /\ faults' \in 0 .. MaxFaults
        /\ UNCHANGED <<c, closing, heartbeat, reader, task, sock, gw, visitor>>
    BY <1>3, <1>world, ClientAssumption DEF DialFails, Goto
  <2>2. RunTypeOK'
    BY <1>goto, <1>run, <2>1, Zenon DEF RunTypeOK, RunPC
  <2>3. CountsOK'
    BY <1>0, <1>world, <2>1 DEF CountsOK, Opened, Gateway
  <2> QED BY <1>loops, <1>world, <2>1, <2>2, <2>3 DEF TypeInv, TypeOK, WorldTypeOK
<1>4. CASE SendRegister
  <2>1. /\ run.pc = "register" /\ run' = [run EXCEPT !.pc = "reply"]
        /\ Sent(c.ws, "register", None, None) /\ c.ws \in Conn \cup {None}
        /\ UNCHANGED <<c, closing, heartbeat, reader, task, faults>>
    BY <1>4, <1>run DEF SendRegister, Goto, Fields
  <2>2. RunTypeOK'
    BY <1>goto, <1>run, <2>1, Zenon DEF RunTypeOK, RunPC
  <2>3. WorldTypeOK' /\ CountsOK'
    BY <1>0, <2>1, SentTypes
  <2> QED BY <1>loops, <2>1, <2>2, <2>3 DEF TypeInv, TypeOK
<1>5. CASE Connected
  <2>1. /\ run.pc = "reply" /\ run' = [run EXCEPT !.pc = "connected", !.attempt = 0]
        /\ sock' = [sock EXCEPT ![c.ws].reply = None]
        /\ heartbeat' = [heartbeat EXCEPT ![c.ws].pc = "top"]
        /\ reader' = [reader EXCEPT ![c.ws] = "read"]
        /\ UNCHANGED <<c, closing, task, gw, visitor, faults>>
    BY <1>5 DEF Connected
  <2>2. run' \in RunState /\ run'.pc = "connected" /\ run'.attempt = 0 /\ run'.limit = run.limit
    BY <1>run, <2>1, Zenon DEF RunState, RunPC
  <2>3. RunTypeOK'
    BY <1>run, <2>1, <2>2 DEF RunTypeOK
  <2>4. sock' \in [Conn -> Socket]
    BY <1>world, <2>1, ZenonT(40) DEF Socket
  <2>5. LoopTypeOK'
    BY <1>0, <2>1, Zenon DEF LoopTypeOK, Heartbeat
  <2> QED BY <1>still, <1>world, <2>1, <2>3, <2>4, <2>5 DEF TypeInv, TypeOK, WorldTypeOK
<1>6. CASE ConnectFails
  <2>1. /\ run' = [run EXCEPT !.pc = "failed"] /\ sock' = [sock EXCEPT ![c.ws] = NoSocket]
        /\ UNCHANGED <<c, closing, heartbeat, reader, task, gw, visitor, faults>>
    BY <1>6 DEF ConnectFails
  <2>2. RunTypeOK'
    BY <1>goto, <1>run, <2>1, Zenon DEF RunTypeOK, RunPC
  <2>3. sock' \in [Conn -> Socket]
    BY <1>world, <2>1, Zenon DEF Socket, NoSocket
  <2> QED BY <1>loops, <1>still, <1>world, <2>1, <2>2, <2>3 DEF TypeInv, TypeOK, WorldTypeOK
<1>7. CASE Lost \/ Backoff
  <2>1. /\ \E to \in {"lost", "reset", "returned"} : run' = [run EXCEPT !.pc = to]
        /\ UNCHANGED <<c, closing, heartbeat, reader, task, sock, gw, visitor, faults>>
    BY <1>7 DEF Lost, Backoff, Goto
  <2>2. RunTypeOK'
    BY <1>goto, <1>run, <2>1, Zenon DEF RunTypeOK, RunPC
  <2> QED BY <1>0, <1>still, <2>1, <2>2, TypeFrames DEF TypeInv, TypeOK
<1>8. CASE Retry
  <2> DEFINE n == IF run.attempt < run.limit THEN run.attempt + 1 ELSE run.limit
  <2>1. /\ \/ run' = [run EXCEPT !.pc = "returned"]
           \/ run' = [run EXCEPT !.pc = "gave up", !.attempt = n]
           \/ run' = [run EXCEPT !.pc = "backoff", !.attempt = n]
        /\ UNCHANGED <<c, closing, heartbeat, reader, task, sock, gw, visitor, faults>>
    BY <1>8 DEF Retry
  <2>2. n \in Nat /\ n <= run.limit
    BY <1>run
  <2> HIDE DEF n
  <2>3. run' \in RunState /\ run'.attempt <= run'.limit /\ run'.pc \in {"returned", "gave up", "backoff"}
    BY <1>run, <2>1, <2>2, Zenon DEF RunState, RunPC
  <2>4. RunTypeOK'
    BY <1>run, <2>1, <2>3, Zenon DEF RunTypeOK
  <2> QED BY <1>0, <1>still, <2>1, <2>4, TypeFrames DEF TypeInv, TypeOK
<1> QED BY <1>1, <1>2, <1>3, <1>4, <1>5, <1>6, <1>7, <1>8 DEF RunStep

\* Close, the loops, the handlers and a crash keep the types.
LEMMA GoroutineStepType ==
  ASSUME TypeInv, ReaderInv,
         \/ CloseSignals \/ CloseStep \/ WriteCollides
         \/ \E k \in Conn : HeartbeatStep(k) \/ ReaderStep(k)
         \/ \E r \in Request : TaskStep(r)
  PROVE  TypeInv'
<1> USE DEF goroutineVars, gatewayVars
<1>0. TypeOK /\ CountsOK /\ RunTypeOK /\ LoopTypeOK /\ WorldTypeOK
  BY DEF TypeInv, TypeOK
<1>run. c \in Fields /\ closing \in Closing /\ c.ws \in Conn \cup {None} /\ c.done \in Conn \cup {None}
  BY <1>0 DEF RunTypeOK, Fields
<1>loops. /\ heartbeat \in [Conn -> Heartbeat] /\ reader \in [Conn -> {"none", "read", "exit"}]
          /\ task \in [Request -> Task]
  BY <1>0 DEF LoopTypeOK
<1>world. sock \in [Conn -> Socket] /\ visitor \in [Request -> Visitor]
  BY <1>0 DEF WorldTypeOK
<1>still. UNCHANGED <<gw, visitor, faults>> => CountsOK'
  BY <1>0, CountsStay DEF Opened
<1>unset. [pc |-> "none", id |-> None] \in Task /\ Idle \in Heartbeat /\ NoSocket \in Socket
  BY DEF Task, Idle, Heartbeat, NoSocket, Socket
<1>close. CASE CloseSignals \/ CloseStep
  <2>1. /\ closing' \in Closing
    BY <1>close, <1>run DEF CloseSignals, CloseStep, CloseTakesSocket, CloseSocket, Closing
  <2>2. /\ c' \in Fields /\ c'.ws = c.ws /\ c'.done = c.done
    BY <1>close, <1>run, Zenon DEF CloseSignals, CloseStep, CloseTakesSocket, CloseSocket, Fields
  <2>3. sock' \in [Conn -> Socket]
    <3>1. sock' = sock \/ sock' = [sock EXCEPT ![closing.ws].up = FALSE]
      BY <1>close DEF CloseSignals, CloseStep, CloseTakesSocket, CloseSocket
    <3> QED BY <1>world, <3>1, ZenonT(40) DEF Socket
  <2>4. UNCHANGED <<run, heartbeat, reader, task, gw, visitor, faults>>
    BY <1>close DEF CloseSignals, CloseStep, CloseTakesSocket, CloseSocket
  <2>5. RunTypeOK'
    BY <1>0, <2>1, <2>2, <2>4 DEF RunTypeOK
  <2> QED BY <1>0, <1>still, <2>3, <2>4, <2>5, TypeFrames DEF TypeInv, TypeOK, WorldTypeOK
<1>crash. CASE WriteCollides
  <2>1. /\ run' = [run EXCEPT !.pc = "crashed"]
        /\ c' = [ws |-> None, done |-> None, closed |-> FALSE, dropped |-> {}]
        /\ closing' = [pc |-> "no", ws |-> None]
        /\ heartbeat' = [k \in Conn |-> Idle] /\ reader' = [k \in Conn |-> "none"]
        /\ task' = [r \in Request |-> [pc |-> "none", id |-> None]]
        /\ sock' = [k \in Conn |-> NoSocket] /\ UNCHANGED <<gw, visitor, faults>>
    BY <1>crash DEF WriteCollides
  <2>2. run' \in RunState /\ run'.attempt <= run'.limit /\ run'.pc = "crashed"
    BY <1>0, <2>1, Zenon DEF RunTypeOK, RunState, RunPC
  <2>3. c' \in Fields /\ closing' \in Closing
    BY <2>1 DEF Fields, Closing
  <2>4. LoopTypeOK'
    BY <1>unset, <2>1 DEF LoopTypeOK
  <2>5. WorldTypeOK'
    BY <1>0, <1>unset, <2>1 DEF WorldTypeOK
  <2> QED BY <1>still, <2>1, <2>2, <2>3, <2>4, <2>5 DEF TypeInv, TypeOK, RunTypeOK
<1>sent. ASSUME NEW type, NEW id, NEW body \in Request \cup {None}, Sent(c.ws, type, id, body),
                LoopTypeOK', UNCHANGED <<run, c, closing, faults>>
         PROVE  TypeInv'
  BY <1>0, <1>run, <1>sent, SentTypes, TypeFrames DEF TypeInv, TypeOK
<1>quiet. ASSUME LoopTypeOK', UNCHANGED <<run, c, closing, sock, gw, visitor, faults>>
          PROVE  TypeInv'
  BY <1>0, <1>quiet, <1>still, TypeFrames DEF TypeInv, TypeOK
<1>heartbeat. ASSUME NEW k \in Conn, HeartbeatStep(k) PROVE TypeInv'
  <2>1. heartbeat' \in [Conn -> Heartbeat] /\ UNCHANGED <<reader, task>>
    BY <1>heartbeat, <1>loops, <1>run, <1>unset
       DEF HeartbeatStep, HeartbeatEnters, HeartbeatTicks, HeartbeatWrites, HeartbeatStops, Heartbeat
  <2>2. LoopTypeOK'
    BY <1>loops, <2>1 DEF LoopTypeOK
  <2>3. UNCHANGED <<run, c, closing, faults>>
        /\ (Sent(c.ws, "heartbeat", None, None) \/ UNCHANGED <<sock, gw, visitor>>)
    BY <1>heartbeat
       DEF HeartbeatStep, HeartbeatEnters, HeartbeatTicks, HeartbeatWrites, HeartbeatStops
  <2> QED BY <1>sent, <1>quiet, <2>2, <2>3, Zenon
<1>reader. ASSUME NEW k \in Conn, ReaderStep(k) PROVE TypeInv'
  <2>1. CASE ReadRequest(k)
    <3>1. PICK r : /\ sock' = [sock EXCEPT ![c.ws].inbox = sock[c.ws].inbox \ {r}]
                   /\ task' = [task EXCEPT ![r] = [pc |-> "local", id |-> visitor[r].id]]
      BY <2>1, Zenon DEF ReadRequest
    <3>2. UNCHANGED <<run, c, closing, heartbeat, reader, gw, visitor, faults>>
      BY <2>1 DEF ReadRequest
    <3>3. sock' \in [Conn -> Socket]
      BY <1>world, <3>1, ZenonT(40) DEF Socket
    <3>4. r \in Request => visitor[r].id \in StreamID \cup {None}
      BY <1>world DEF Visitor
    <3>5. task' \in [Request -> Task]
      BY <1>loops, <3>1, <3>4, Zenon DEF Task
    <3> QED BY <1>0, <1>loops, <1>still, <3>2, <3>3, <3>5, TypeFrames
            DEF TypeInv, TypeOK, WorldTypeOK, LoopTypeOK
  <2>2. CASE ReadError(k)
    <3>1. LoopTypeOK'
      BY <1>loops, <2>2 DEF LoopTypeOK, ReadError
    <3> QED BY <1>quiet, <2>2, <3>1 DEF ReadError
  <2>3. CASE ReaderExits(k)
    <3>1. /\ reader' = [reader EXCEPT ![k] = "none"]
          /\ c' = [c EXCEPT !.dropped = c.dropped \cup {c.done}]
          /\ sock' = [sock EXCEPT ![c.ws].inbox = {}]
          /\ UNCHANGED <<run, closing, heartbeat, task, gw, visitor, faults>>
      BY <2>3 DEF ReaderExits
    <3>2. c' \in Fields /\ c'.ws = c.ws /\ c'.done = c.done
      <4>1. c.done \in Conn
        BY <2>3, ClientAssumption DEF ReaderExits, ReaderInv, OneReader
      <4> QED BY <1>run, <3>1, <4>1 DEF Fields
    <3>3. RunTypeOK'
      BY <1>0, <3>1, <3>2 DEF RunTypeOK
    <3>4. sock' \in [Conn -> Socket]
      BY <1>world, <3>1, ZenonT(40) DEF Socket
    <3>5. LoopTypeOK'
      BY <1>loops, <3>1 DEF LoopTypeOK
    <3> QED BY <1>0, <1>still, <3>1, <3>3, <3>4, <3>5 DEF TypeInv, TypeOK, WorldTypeOK
  <2> QED BY <1>reader, <2>1, <2>2, <2>3, Zenon DEF ReaderStep
<1>task. ASSUME NEW r \in Request, TaskStep(r) PROVE TypeInv'
  <2>1. task' \in [Request -> Task] /\ UNCHANGED <<heartbeat, reader>>
    BY <1>task, <1>loops, <1>unset
       DEF TaskStep, LocalRequest, SendStreamData, SendCloseStream, Task
  <2>2. LoopTypeOK'
    BY <1>loops, <2>1 DEF LoopTypeOK
  <2>3. UNCHANGED <<run, c, closing, faults>>
        /\ \/ Sent(c.ws, "data", task[r].id, r) \/ Sent(c.ws, "close", task[r].id, None)
           \/ UNCHANGED <<sock, gw, visitor>>
    BY <1>task DEF TaskStep, LocalRequest, SendStreamData, SendCloseStream
  <2> QED BY <1>sent, <1>quiet, <2>2, <2>3
<1> QED BY <1>close, <1>crash, <1>heartbeat, <1>reader, <1>task

\* The gateway and the network keep the types.
LEMMA GatewayStepType ==
  ASSUME TypeInv,
         \/ \E k \in Conn : SessionStep(k) \/ Drop(k)
         \/ \E r \in Request : OpenStream(r) \/ Timeout(r)
         \/ Signal \/ Exit \/ Start
  PROVE  TypeInv'
<1> USE DEF goroutineVars, gatewayVars
<1>0. TypeOK /\ CountsOK /\ RunTypeOK /\ LoopTypeOK /\ WorldTypeOK
  BY DEF TypeInv, TypeOK
<1>world. /\ sock \in [Conn -> Socket] /\ gw \in Gateway /\ visitor \in [Request -> Visitor]
          /\ faults \in 0 .. MaxFaults /\ MaxFaults \in Nat
          /\ gw.epoch \in 0 .. MaxFaults /\ gw.nextID \in 0 .. Cardinality(Request)
  BY <1>0, ClientAssumption DEF WorldTypeOK, Gateway
<1>client. UNCHANGED <<run, c, closing, heartbeat, reader, task>>
  BY Zenon DEF SessionStep, Reply, ReplyPanics, CleanupConnection, Drop, OpenStream, Timeout, Signal, Exit, Start
<1>qed. ASSUME WorldTypeOK', CountsOK' PROVE TypeInv'
  BY <1>0, <1>client, <1>qed, TypeFrames DEF TypeInv, TypeOK
<1>1. ASSUME NEW k \in Conn, CleanupConnection(k) PROVE TypeInv'
  <2>1. /\ gw' = [gw EXCEPT !.session[k] = "none", !.holder = IF gw.holder = k THEN None ELSE gw.holder]
        /\ visitor' = Answered(Waiting(k), "error") /\ UNCHANGED <<sock, faults>>
    BY <1>1, Zenon DEF CleanupConnection
  <2>2. gw' \in Gateway /\ gw'.state = gw.state /\ gw'.epoch = gw.epoch /\ gw'.nextID = gw.nextID
    BY <1>world, <2>1, Zenon DEF Gateway
  <2>3. visitor' \in [Request -> Visitor] /\ Opened' = Opened
    <3>1. \A r \in Request : r \in Waiting(k) => visitor[r].state # "idle"
      BY DEF Waiting
    <3> QED BY <1>0, <2>1, <3>1, AnsweredEffects
  <2> QED BY <1>0, <1>qed, <1>world, <2>1, <2>2, <2>3, CountsStay DEF WorldTypeOK
<1>8. ASSUME NEW k \in Conn, Reply(k) \/ ReplyPanics(k) PROVE TypeInv'
  <2>1. CountsOK'
    BY <1>0, <1>8, ReplyEffects, CountsStay, Zenon DEF Opened
  <2> QED BY <1>0, <1>8, <1>qed, <1>world, <2>1, ReplyEffects, Zenon DEF WorldTypeOK
<1>2. ASSUME NEW k \in Conn, Drop(k) PROVE TypeInv'
  <2>1. /\ sock' = [sock EXCEPT ![k].up = FALSE] /\ faults < MaxFaults /\ faults' = faults + 1
        /\ UNCHANGED <<gw, visitor>>
    BY <1>2 DEF Drop
  <2>2. sock' \in [Conn -> Socket]
    BY <1>world, <2>1, Zenon DEF Socket
  <2>3. CountsOK' /\ faults' \in 0 .. MaxFaults
    BY <1>0, <1>world, <2>1 DEF CountsOK, Opened
  <2> QED BY <1>qed, <1>world, <2>1, <2>2, <2>3 DEF WorldTypeOK
<1>3. ASSUME NEW r \in Request, OpenStream(r) PROVE TypeInv'
  <2> DEFINE k == gw.holder
             id == gw.nextID + 1
  <2>1. /\ visitor[r].state = "idle" /\ gw' = [gw EXCEPT !.nextID = id] /\ UNCHANGED faults
        /\ visitor' = [visitor EXCEPT ![r] = [state |-> "waiting", conn |-> k, id |-> id,
                                              epoch |-> gw.epoch, got |-> None]]
        /\ sock' = sock \/ sock' = [sock EXCEPT ![k].inbox = sock[k].inbox \cup {r}]
    BY <1>3 DEF OpenStream
  <2>2. Opened' = Opened \cup {r} /\ r \notin Opened
    BY <1>world, <2>1 DEF Opened
  <2>3. /\ Cardinality(Opened') = Cardinality(Opened) + 1 /\ Cardinality(Opened) \in Nat
        /\ Cardinality(Opened') <= Cardinality(Request) /\ Cardinality(Request) \in Nat
    <3>1. Opened \in SUBSET Request /\ Opened' \in SUBSET Request /\ IsFiniteSet(Request)
      BY ClientAssumption DEF Opened
    <3>2. IsFiniteSet(Opened) /\ Cardinality(Opened') <= Cardinality(Request)
      BY <3>1, FS_Subset
    <3> QED BY <2>2, <3>1, <3>2, FS_AddElement, FS_CardinalityType
  <2>4. id \in Nat /\ id <= Cardinality(Opened') /\ id \in StreamID
    BY <1>0, <1>world, <2>3 DEF CountsOK, StreamID
  <2>5. k \in Conn \cup {None} /\ id \in 0 .. Cardinality(Request)
    BY <1>world, <2>4 DEF Gateway, StreamID
  <2> HIDE DEF k, id
  <2>6. gw' \in Gateway /\ gw'.state = gw.state /\ gw'.epoch = gw.epoch /\ gw'.nextID = id
    BY <1>world, <2>1, <2>5 DEF Gateway
  <2>7. visitor' \in [Request -> Visitor]
    BY <1>world, <2>1, <2>4, <2>5 DEF Visitor
  <2>8. sock' \in [Conn -> Socket]
    BY <1>world, <2>1 DEF Socket
  <2>9. CountsOK'
    BY <1>0, <2>1, <2>4, <2>6 DEF CountsOK
  <2> QED BY <1>qed, <1>world, <2>1, <2>6, <2>7, <2>8, <2>9, Zenon DEF WorldTypeOK
<1>4. ASSUME NEW r \in Request, Timeout(r) PROVE TypeInv'
  <2>1. visitor[r].state = "waiting" /\ visitor' = Answered({r}, "error") /\ UNCHANGED <<sock, gw, faults>>
    BY <1>4 DEF Timeout
  <2>2. visitor' \in [Request -> Visitor] /\ Opened' = Opened
    <3>1. \A q \in Request : q \in {r} => visitor[q].state # "idle"
      BY <2>1
    <3> QED BY <1>0, <2>1, <3>1, AnsweredEffects, Zenon
  <2> QED BY <1>0, <1>qed, <1>world, <2>1, <2>2, CountsStay DEF WorldTypeOK
<1>5. CASE Signal
  <2>1. /\ gw.state = "up" /\ gw' = [gw EXCEPT !.state = "draining"]
        /\ faults < MaxFaults /\ faults' = faults + 1 /\ UNCHANGED <<sock, visitor>>
    BY <1>5 DEF Signal
  <2>2. gw' \in Gateway /\ gw'.state = "draining" /\ gw'.epoch = gw.epoch /\ gw'.nextID = gw.nextID
    BY <1>world, <2>1 DEF Gateway
  <2>3. CountsOK' /\ faults' \in 0 .. MaxFaults
    BY <1>0, <1>world, <2>1, <2>2 DEF CountsOK, Opened
  <2> QED BY <1>qed, <1>world, <2>1, <2>2, <2>3 DEF WorldTypeOK
<1>6. CASE Exit
  <2> DEFINE W == {r \in Request : visitor[r].state = "waiting"}
             none == [k \in Conn |-> "none"]
  <2>1. /\ gw.state = "draining" /\ UNCHANGED faults
        /\ gw' = [gw EXCEPT !.state = "down", !.nextID = 0, !.holder = None, !.session = none]
        /\ sock' = [k \in Conn |-> [sock[k] EXCEPT !.up = FALSE]]
        /\ visitor' = Answered(W, "error")
    BY <1>6 DEF Exit
  <2>2. gw' \in Gateway /\ gw'.state = "down" /\ gw'.epoch = gw.epoch /\ gw'.nextID = 0
    <3>1. none \in [Conn -> {"none", "new", "replying", "serving"}] /\ 0 \in 0 .. Cardinality(Request)
      BY ClientAssumption, FS_CardinalityType
    <3> HIDE DEF none
    <3> QED BY <1>world, <2>1, <3>1, Zenon DEF Gateway
  <2>3. visitor' \in [Request -> Visitor] /\ Opened' = Opened
    BY <1>0, <2>1, AnsweredEffects
  <2>4. sock' \in [Conn -> Socket]
    BY <1>world, <2>1, Zenon DEF Socket
  <2>5. CountsOK'
    <3>1. Cardinality(Opened) \in Nat
      <4>1. Opened \in SUBSET Request
        BY DEF Opened
      <4> QED BY <4>1, ClientAssumption, FS_Subset, FS_CardinalityType
    <3> QED BY <1>0, <2>1, <2>2, <2>3, <3>1 DEF CountsOK
  <2> QED BY <1>qed, <1>world, <2>1, <2>2, <2>3, <2>4, <2>5 DEF WorldTypeOK
<1>7. CASE Start
  <2>1. /\ gw.state = "down" /\ gw' = [gw EXCEPT !.state = "up", !.epoch = gw.epoch + 1]
        /\ UNCHANGED <<sock, visitor, faults>>
    BY <1>7 DEF Start
  <2>2. gw.epoch + 1 <= faults /\ gw.epoch + 1 \in 0 .. MaxFaults
    BY <1>0, <1>world, <2>1 DEF CountsOK
  <2>3. gw' \in Gateway /\ gw'.state = "up" /\ gw'.epoch = gw.epoch + 1 /\ gw'.nextID = gw.nextID
    BY <1>world, <2>1, <2>2, Zenon DEF Gateway
  <2>4. CountsOK'
    BY <1>0, <1>world, <2>1, <2>2, <2>3 DEF CountsOK, Opened
  <2> QED BY <1>qed, <1>world, <2>1, <2>3, <2>4 DEF WorldTypeOK
<1> QED BY <1>1, <1>2, <1>3, <1>4, <1>5, <1>6, <1>7, <1>8 DEF SessionStep
-----------------------------------------------------------------------------
(* One readLoop *)

\* Run starts a readLoop only when the last one has ended.
LEMMA ReaderInductive ==
  ASSUME ReaderInv, TypeOK', [Next]_vars
  PROVE  ReaderInv'
<1> USE DEF goroutineVars, gatewayVars
<1> DEFINE Connecting == run.pc \in {"dial", "register", "reply"}
<1>0. /\ TypeOK /\ OneReader /\ run \in RunState /\ c \in Fields
      /\ reader \in [Conn -> {"none", "read", "exit"}]
      /\ Connecting => c.done \notin c.dropped
      /\ ~Alive => \A k \in Conn : reader[k] = "none"
      /\ run.pc # "connected" => \A k \in Conn : reader[k] = "none"
  BY DEF ReaderInv, TypeOK, RunTypeOK, LoopTypeOK, OneReader
<1>same. ASSUME UNCHANGED reader, c'.ws = c.ws, c'.done = c.done, c'.dropped = c.dropped,
                run'.pc = run.pc
         PROVE  ReaderInv'
  BY <1>0, <1>same DEF ReaderInv, OneReader, Alive
<1>away. ASSUME UNCHANGED <<reader, c>>, \A k \in Conn : reader[k] = "none",
                run'.pc \in {"dial", "register", "reply"} => Connecting
         PROVE  ReaderInv'
  BY <1>0, <1>away DEF ReaderInv, OneReader, Alive
<1>goto. ASSUME NEW to, run' = [run EXCEPT !.pc = to] PROVE run'.pc = to
  BY <1>0, <1>goto DEF RunState
<1>1. CASE Reset
  <2> DEFINE new == CHOOSE k \in Conn : Unused(k)
  <2>1. /\ run.pc = "reset" /\ run' = [run EXCEPT !.pc = "dial"] /\ UNCHANGED reader
        /\ c' = [c EXCEPT !.done = new, !.dropped = c.dropped \ {new}]
    BY <1>1 DEF Reset, Goto
  <2> HIDE DEF new
  <2>2. c'.done = new /\ c'.dropped = c.dropped \ {new} /\ run'.pc = "dial"
    BY <1>0, <1>goto, <2>1 DEF Fields
  <2> QED BY <1>0, <2>1, <2>2 DEF ReaderInv, OneReader, Alive
<1>2. CASE Dial
  <2>1. /\ run.pc = "dial" /\ run' = [run EXCEPT !.pc = "register"] /\ UNCHANGED reader
        /\ c' = [c EXCEPT !.ws = c.done]
    BY <1>2 DEF Dial, Goto
  <2>2. c'.done = c.done /\ c'.dropped = c.dropped /\ run'.pc = "register"
    BY <1>0, <1>goto, <2>1 DEF Fields
  <2> QED BY <1>0, <2>1, <2>2 DEF ReaderInv, OneReader, Alive
<1>3. CASE DialFails \/ SendRegister \/ ConnectFails
  <2>1. /\ run.pc \in {"dial", "register", "reply"} /\ UNCHANGED <<reader, c>>
        /\ \E to \in {"failed", "reply"} : run' = [run EXCEPT !.pc = to]
    BY <1>3 DEF DialFails, SendRegister, ConnectFails, CannotConnect, Goto
  <2> QED BY <1>0, <1>away, <1>goto, <2>1
<1>4. CASE Connected
  <2>1. /\ run.pc = "reply" /\ run' = [run EXCEPT !.pc = "connected", !.attempt = 0]
        /\ reader' = [reader EXCEPT ![c.ws] = "read"] /\ UNCHANGED c
    BY <1>4 DEF Connected
  <2>2. run'.pc = "connected" /\ c.ws = c.done /\ c.done \notin c.dropped
    BY <1>0, <2>1 DEF RunState, TypeOK, RunTypeOK
  <2>3. \A k \in Conn : reader'[k] # "none" => k = c.ws
    BY <1>0, <2>1
  <2> QED BY <1>0, <2>1, <2>2, <2>3 DEF ReaderInv, OneReader, Alive
<1>5. CASE Lost
  <2>1. /\ run.pc = "connected" /\ run' = [run EXCEPT !.pc = "lost"] /\ UNCHANGED <<reader, c>>
        /\ c.done \in c.dropped
    BY <1>5 DEF Lost, Goto
  <2>2. \A k \in Conn : reader[k] = "none"
    BY <1>0, <2>1 DEF OneReader, Alive
  <2> QED BY <1>away, <1>goto, <2>1, <2>2
<1>6. CASE Retry
  <2>1. run.pc \in {"lost", "failed"} /\ UNCHANGED <<reader, c>>
    BY <1>6 DEF Retry
  <2>2. run'.pc \in {"returned", "gave up", "backoff"}
    BY <1>0, <1>6 DEF Retry, RunState
  <2> QED BY <1>0, <1>away, <2>1, <2>2, Zenon
<1>7. CASE Backoff
  <2>1. /\ run.pc = "backoff" /\ UNCHANGED <<reader, c>>
        /\ \E to \in {"reset", "returned"} : run' = [run EXCEPT !.pc = to]
    BY <1>7 DEF Backoff, Goto
  <2> QED BY <1>0, <1>away, <1>goto, <2>1
<1>8. CASE CloseSignals
  <2>1. UNCHANGED <<run, reader>> /\ c' = [c EXCEPT !.closed = TRUE]
    BY <1>8 DEF CloseSignals
  <2>2. c'.ws = c.ws /\ c'.done = c.done /\ c'.dropped = c.dropped
    BY <1>0, <2>1 DEF Fields
  <2> QED BY <1>same, <2>1, <2>2
<1>9. CASE WriteCollides
  <2>1. run' = [run EXCEPT !.pc = "crashed"] /\ reader' = [k \in Conn |-> "none"]
    BY <1>9 DEF WriteCollides
  <2>2. run'.pc = "crashed" /\ \A k \in Conn : reader'[k] = "none"
    BY <1>goto, <2>1
  <2> QED BY <2>2 DEF ReaderInv, OneReader
<1>10. ASSUME NEW k \in Conn, ReadError(k) PROVE ReaderInv'
  <2>1. reader[k] = "read" /\ reader' = [reader EXCEPT ![k] = "exit"] /\ UNCHANGED <<run, c>>
    BY <1>10 DEF ReadError
  <2>2. \A j \in Conn : reader'[j] # "none" <=> reader[j] # "none"
    BY <1>0, <2>1
  <2> QED BY <1>0, <2>1, <2>2 DEF ReaderInv, OneReader, Alive
<1>11. ASSUME NEW k \in Conn, ReaderExits(k) PROVE ReaderInv'
  <2>1. /\ reader[k] = "exit" /\ reader' = [reader EXCEPT ![k] = "none"] /\ UNCHANGED run
    BY <1>11 DEF ReaderExits
  <2>2. run.pc = "connected" /\ \A j \in Conn : reader[j] # "none" => j = k
    BY <1>0, <2>1 DEF OneReader
  <2>3. \A j \in Conn : reader'[j] = "none"
    BY <1>0, <2>1, <2>2
  <2> QED BY <2>1, <2>2, <2>3 DEF ReaderInv, OneReader
<1>12. CASE \/ CloseStep
            \/ \E k \in Conn : HeartbeatStep(k) \/ ReadRequest(k) \/ SessionStep(k) \/ Drop(k)
            \/ \E r \in Request : TaskStep(r) \/ OpenStream(r) \/ Timeout(r)
            \/ Signal \/ Exit \/ Start \/ UNCHANGED vars
  <2>1. UNCHANGED <<run, c, reader>>
    BY <1>12, Zenon DEF CloseStep, CloseTakesSocket, CloseSocket, HeartbeatStep, HeartbeatEnters,
       HeartbeatTicks, HeartbeatWrites, HeartbeatStops, ReadRequest, SessionStep, Reply, ReplyPanics, CleanupConnection, Drop,
       TaskStep, LocalRequest, SendStreamData, SendCloseStream, OpenStream, Timeout, Signal, Exit,
       Start, vars
  <2> QED BY <1>same, <2>1
<1> QED BY <1>1, <1>2, <1>3, <1>4, <1>5, <1>6, <1>7, <1>8, <1>9, <1>10, <1>11, <1>12, Zenon
        DEF Next, RunStep, ReaderStep

\* The types, at the start and throughout.
LEMMA InitTypes == Init => TypeInv /\ ReaderInv
<1> SUFFICES ASSUME Init PROVE TypeInv /\ ReaderInv
  OBVIOUS
<1>0. /\ MaxFaults \in Nat /\ RetryLimits \subseteq Nat /\ Cardinality(Request) \in Nat
  BY ClientAssumption, FS_CardinalityType
<1>1. run \in RunState /\ run.pc = "reset" /\ run.attempt = 0 /\ run.limit \in Nat
  <2>1. run \in [pc : {"reset"}, attempt : {0}, limit : RetryLimits]
    BY DEF Init
  <2>2. /\ run = [pc |-> run.pc, attempt |-> run.attempt, limit |-> run.limit]
        /\ run.pc = "reset" /\ run.attempt = 0 /\ run.limit \in RetryLimits
    BY <2>1
  <2>3. \A m \in RetryLimits : [pc |-> "reset", attempt |-> 0, limit |-> m] \in RunState
    BY DEF RunState, RunPC
  <2> QED BY <1>0, <2>2, <2>3
<1>2. c \in Fields /\ closing \in Closing
  BY DEF Init, Fields, Closing
<1>3. RunTypeOK
  BY <1>1, <1>2 DEF RunTypeOK
<1>4. LoopTypeOK /\ \A k \in Conn : reader[k] = "none"
  BY DEF Init, LoopTypeOK, Idle, Heartbeat, Task
<1>5. gw \in Gateway /\ gw.state = "up" /\ gw.epoch = 0 /\ gw.nextID = 0 /\ faults = 0
  BY <1>0 DEF Init, Gateway
<1>6. visitor \in [Request -> Visitor] /\ sock \in [Conn -> Socket]
  BY DEF Init, Visitor, NoSocket, Socket
<1>7. CountsOK
  <2>1. Opened = {}
    BY DEF Opened, Init
  <2> QED BY <1>5, <2>1, FS_EmptySet DEF CountsOK
<1>8. TypeOK
  BY <1>0, <1>3, <1>4, <1>5, <1>6 DEF TypeOK, WorldTypeOK
<1> QED BY <1>1, <1>4, <1>7, <1>8 DEF TypeInv, ReaderInv, OneReader, Alive

\* They are inductive together: the deferred close of a readLoop is a close of a
\* channel because there is one readLoop.
LEMMA TypesInductive ==
  ASSUME TypeInv, ReaderInv, [Next]_vars
  PROVE  TypeInv' /\ ReaderInv'
<1>1. TypeInv'
  <2>1. CASE UNCHANGED vars
    <3>1. CountsOK'
      BY <2>1, CountsStay DEF TypeInv, vars, Opened
    <3> QED BY <2>1, <3>1, TypeFrames DEF TypeInv, TypeOK, vars
  <2> QED BY <2>1, RunStepType, GoroutineStepType, GatewayStepType DEF Next
<1> QED BY <1>1, ReaderInductive DEF TypeInv

\* Type correctness of the client and its gateway, for any number of turns,
\* requests and faults.
THEOREM ClientTypeCorrect == Spec => []TypeOK
<1>1. TypeInv /\ ReaderInv /\ [Next]_vars => TypeInv' /\ ReaderInv'
  BY TypesInductive
<1>2. TypeInv => TypeOK
  BY DEF TypeInv
<1> QED BY <1>1, <1>2, InitTypes, PTL DEF Spec

\* There is never more than one readLoop, and the channel its deferred close
\* closes is the open one that Run waits on, however often the client
\* reconnects and whenever Close is called.
THEOREM OneReadLoop == Spec => []OneReader
<1>1. TypeInv /\ ReaderInv /\ [Next]_vars => TypeInv' /\ ReaderInv'
  BY TypesInductive
<1>2. ReaderInv => OneReader
  BY DEF ReaderInv
<1> QED BY <1>1, <1>2, InitTypes, PTL DEF Spec
-----------------------------------------------------------------------------
(* Retries *)

\* An established connection starts with no failures counted.
LEMMA LossInductive ==
  ASSUME LossInv, TypeOK', [Next]_vars
  PROVE  LossInv'
<1>0. run \in RunState
  BY DEF LossInv, TypeOK, RunTypeOK
<1>1. CASE RunStep
  <2>1. CASE Connected
    <3>1. run' = [run EXCEPT !.pc = "connected", !.attempt = 0]
      BY <2>1 DEF Connected
    <3> QED BY <1>0, <3>1 DEF LossInv, RunState
  <2>2. CASE Lost
    <3>1. run.pc = "connected" /\ run' = [run EXCEPT !.pc = "lost"]
      BY <2>2 DEF Lost, Goto
    <3> QED BY <1>0, <3>1 DEF LossInv, RunState
  <2>3. CASE Reset \/ Dial \/ DialFails \/ SendRegister \/ ConnectFails \/ Retry \/ Backoff
    <3>1. run'.pc \notin {"connected", "lost"}
      BY <1>0, <2>3, Zenon DEF Reset, Dial, DialFails, SendRegister, ConnectFails, CannotConnect, Retry, Backoff, Goto, RunState
    <3> QED BY <3>1 DEF LossInv
  <2> QED BY <1>1, <2>1, <2>2, <2>3 DEF RunStep
<1>2. CASE WriteCollides
  <2>1. run' = [run EXCEPT !.pc = "crashed"]
    BY <1>2 DEF WriteCollides
  <2> QED BY <1>0, <2>1 DEF LossInv, RunState
<1>3. CASE \/ CloseSignals \/ CloseStep
           \/ \E k \in Conn : HeartbeatStep(k) \/ ReaderStep(k) \/ SessionStep(k) \/ Drop(k)
           \/ \E r \in Request : TaskStep(r) \/ OpenStream(r) \/ Timeout(r)
           \/ Signal \/ Exit \/ Start \/ UNCHANGED vars
  <2>1. UNCHANGED run
    BY <1>3, Zenon DEF CloseSignals, CloseStep, CloseTakesSocket, CloseSocket, HeartbeatStep,
       HeartbeatEnters, HeartbeatTicks, HeartbeatWrites, HeartbeatStops, ReaderStep, ReadRequest,
       ReadError, ReaderExits, SessionStep, Reply, ReplyPanics, CleanupConnection, Drop, TaskStep,
       LocalRequest, SendStreamData,
       SendCloseStream, OpenStream, Timeout, Signal, Exit, Start, vars
  <2> QED BY <2>1 DEF LossInv
<1> QED BY <1>1, <1>2, <1>3 DEF Next

\* One failure does not exhaust a limit of two or more.
LEMMA FirstFailure ==
  ASSUME NEW m \in Nat, m # 1, m > 0
  PROVE  ~((IF 0 < m THEN 0 + 1 ELSE m) >= m)
OBVIOUS

\* What Run does once the connection is lost.
LEMMA LossStep ==
  ASSUME LossInv, [Next]_vars
  PROVE  [run.pc = "lost" /\ run.limit # 1 => run'.pc # "gave up"]_vars
<1> SUFFICES ASSUME run.pc = "lost", run.limit # 1, run'.pc = "gave up" PROVE FALSE
  BY Zenon
<1>0. run \in RunState /\ run.limit \in Nat /\ run.attempt = 0
  BY ClientAssumption, Zenon DEF LossInv, TypeOK, RunTypeOK, RunState
<1>1. CASE Retry
  <2>1. run.limit > 0 /\ (IF run.attempt < run.limit THEN run.attempt + 1 ELSE run.limit) >= run.limit
    BY <1>0, <1>1 DEF Retry, RunState
  <2> QED BY <1>0, <2>1, FirstFailure, Zenon
<1>2. CASE UNCHANGED run
  BY <1>2, Zenon
<1>3. CASE RunStep /\ ~Retry
  BY <1>3, Zenon DEF RunStep, Reset, Dial, DialFails, SendRegister, Connected, ConnectFails, CannotConnect, Lost, Backoff, Goto
<1>4. CASE WriteCollides
  BY <1>0, <1>4 DEF WriteCollides, RunState
<1>5. CASE \/ CloseSignals \/ CloseStep
           \/ \E k \in Conn : HeartbeatStep(k) \/ ReaderStep(k) \/ SessionStep(k) \/ Drop(k)
           \/ \E r \in Request : TaskStep(r) \/ OpenStream(r) \/ Timeout(r)
           \/ Signal \/ Exit \/ Start \/ UNCHANGED vars
  BY <1>2, <1>5, Zenon DEF CloseSignals, CloseStep, CloseTakesSocket, CloseSocket, HeartbeatStep,
       HeartbeatEnters, HeartbeatTicks, HeartbeatWrites, HeartbeatStops, ReaderStep, ReadRequest,
       ReadError, ReaderExits, SessionStep, Reply, ReplyPanics, CleanupConnection, Drop, TaskStep,
       LocalRequest, SendStreamData,
       SendCloseStream, OpenStream, Timeout, Signal, Exit, Start, vars
<1> QED BY <1>1, <1>3, <1>4, <1>5, Zenon DEF Next

\* The loss of an established connection is retried unless max_retries is 1,
\* whatever failed before it was established.
THEOREM LossesAreRetried == Spec => LossIsRetried
<1>1. Init => LossInv
  BY InitTypes DEF LossInv, TypeInv, Init
<1>2. LossInv /\ TypeOK' /\ [Next]_vars => LossInv'
  BY LossInductive
<1>3. LossInv /\ [Next]_vars => [run.pc = "lost" /\ run.limit # 1 => run'.pc # "gave up"]_vars
  BY LossStep, Zenon
<1> QED BY <1>1, <1>2, <1>3, ClientTypeCorrect, PTL DEF Spec, LossIsRetried
-----------------------------------------------------------------------------
(* Whose answer *)

\* A request keeps its stream ID; it may be answered, with an error or with
\* what some handler that was given the same ID has to say.
Keeps(r) ==
  /\ visitor'[r].id = visitor[r].id /\ visitor'[r].epoch = visitor[r].epoch
  /\ visitor'[r].state = "idle" <=> visitor[r].state = "idle"
  /\ visitor'[r].state = "waiting" => visitor[r].state = "waiting"
Hears(r) ==
  \/ visitor'[r].got \in {visitor[r].got, "error"}
  \/ /\ visitor[r].state = "waiting"
     /\ \E q \in Request : /\ task[q].pc # "none" /\ task[q].id = visitor[r].id
                           /\ visitor'[r].got = q
VisitorsKeep == \A r \in Request : Keeps(r) /\ Hears(r)

\* The handlers work on what they had, or on what was under way to the client.
Continues(r) ==
  task'[r].pc # "none" =>
    \/ task[r].pc # "none" /\ task'[r].id = task[r].id
    \/ (\E k \in Conn : r \in sock[k].inbox) /\ task'[r].id = visitor[r].id
TasksContinue == \A r \in Request : Continues(r)
InboxesShrink == \A k \in Conn : sock'[k].inbox \subseteq sock[k].inbox
GatewayRuns == gw'.state = gw.state /\ gw'.epoch = gw.epoch /\ gw'.nextID = gw.nextID

\* A frame written by anybody but a handler with an answer.
LEMMA SentKeeps ==
  ASSUME WorldTypeOK, NEW k \in Conn \cup {None}, NEW type, NEW id,
         NEW body \in Request \cup {None}, Sent(k, type, id, body),
         type = "data" => \E q \in Request : task[q].pc # "none" /\ task[q].id = id /\ body = q
  PROVE  VisitorsKeep /\ InboxesShrink /\ GatewayRuns
<1>1. InboxesShrink /\ GatewayRuns
  BY SentEffects DEF InboxesShrink, GatewayRuns
<1>2. CASE UNCHANGED visitor
  BY <1>1, <1>2, Zenon DEF VisitorsKeep, Keeps, Hears
<1>3. ASSUME NEW R \in SUBSET Waiting(k), visitor' = Answered(R, "error")
      PROVE  VisitorsKeep
  <2>1. \A r \in Request : r \in R => visitor[r].state = "waiting"
    BY DEF Waiting
  <2> QED BY <1>3, <2>1, AnsweredEffects, SMTT(20) DEF VisitorsKeep, Keeps, Hears
<1>4. ASSUME NEW R \in SUBSET Waiting(k), visitor' = Answered(R, body), type = "data",
             \A r \in R : visitor[r].id = id
      PROVE  VisitorsKeep
  <2>1. \A r \in Request : r \in R => visitor[r].state = "waiting"
    BY DEF Waiting
  <2>2. PICK q \in Request : task[q].pc # "none" /\ task[q].id = id /\ body = q
    BY <1>4
  <2>3. \A r \in Request : Keeps(r)
    BY <1>4, <2>1, AnsweredEffects DEF Keeps
  <2>4. \A r \in Request : Hears(r)
    BY <1>4, <2>1, <2>2, AnsweredEffects DEF Hears
  <2> QED BY <2>3, <2>4 DEF VisitorsKeep
<1>5. CASE ~UNCHANGED visitor
  <2>1. PICK R \in SUBSET Waiting(k) :
          \/ visitor' = Answered(R, "error")
          \/ /\ type = "data" /\ visitor' = Answered(R, body)
             /\ \A r \in R : visitor[r].id = id
    BY <1>5, SentEffects
  <2> QED BY <1>1, <1>3, <1>4, <2>1, Zenon
<1> QED BY <1>2, <1>5

\* What any step but OpenStream, Exit and Start does to visitors and handlers.
LEMMA OrdinarySteps ==
  ASSUME TypeOK, ReaderInv, [Next]_vars, ~(\E r \in Request : OpenStream(r)), ~Signal, ~Exit, ~Start
  PROVE  VisitorsKeep /\ TasksContinue /\ InboxesShrink /\ GatewayRuns
<1> USE DEF goroutineVars, gatewayVars
<1>0. /\ WorldTypeOK /\ sock \in [Conn -> Socket] /\ gw \in Gateway /\ task \in [Request -> Task]
      /\ c.ws \in Conn \cup {None} /\ c.done \in Conn \cup {None} /\ closing.ws \in Conn \cup {None}
  BY Zenon DEF TypeOK, RunTypeOK, LoopTypeOK, WorldTypeOK, Fields, Closing
<1>still. UNCHANGED visitor => VisitorsKeep
  BY DEF VisitorsKeep, Keeps, Hears
<1>tasks. UNCHANGED task => TasksContinue
  BY DEF TasksContinue, Continues
<1>socks. UNCHANGED sock => InboxesShrink
  BY DEF InboxesShrink
<1>gw. UNCHANGED gw => GatewayRuns
  BY DEF GatewayRuns
<1>1. CASE RunStep
  <2>1. UNCHANGED task
    BY <1>1 DEF RunStep, Reset, Dial, DialFails, SendRegister, Connected, ConnectFails, Lost,
       Retry, Backoff
  <2>2. CASE SendRegister
    <3>1. Sent(c.ws, "register", None, None)
      BY <2>2 DEF SendRegister
    <3> QED BY <1>0, <1>tasks, <2>1, <3>1, SentKeeps
  <2>3. CASE Dial
    <3>1. /\ sock' = [sock EXCEPT ![c.done].up = TRUE] /\ UNCHANGED visitor
          /\ gw' = [gw EXCEPT !.session[c.done] = "new"]
      BY <2>3 DEF Dial
    <3>2. InboxesShrink
      BY <1>0, <3>1 DEF InboxesShrink, Socket
    <3>3. GatewayRuns
      BY <1>0, <3>1 DEF GatewayRuns, Gateway
    <3> QED BY <1>still, <1>tasks, <2>1, <3>1, <3>2, <3>3
  <2>4. CASE Reset \/ DialFails \/ Connected \/ ConnectFails \/ Lost \/ Retry \/ Backoff
    <3>1. UNCHANGED <<gw, visitor>>
      BY <2>4 DEF Reset, DialFails, Connected, ConnectFails, Lost, Retry, Backoff
    <3>2. \/ UNCHANGED sock \/ \E k : sock' = [sock EXCEPT ![k] = NoSocket]
          \/ sock' = [sock EXCEPT ![c.ws].reply = None]
      BY <2>4, Zenon DEF Reset, DialFails, Connected, ConnectFails, Lost, Retry, Backoff
    <3>3. InboxesShrink
      BY <1>0, <3>2 DEF InboxesShrink, Socket, NoSocket
    <3> QED BY <1>gw, <1>still, <1>tasks, <2>1, <3>1, <3>3
  <2> QED BY <1>1, <2>2, <2>3, <2>4 DEF RunStep
<1>2. CASE CloseSignals \/ CloseStep
  <2>1. UNCHANGED <<gw, visitor, task>>
    BY <1>2 DEF CloseSignals, CloseStep, CloseTakesSocket, CloseSocket
  <2>2. UNCHANGED sock \/ sock' = [sock EXCEPT ![closing.ws].up = FALSE]
    BY <1>2 DEF CloseSignals, CloseStep, CloseTakesSocket, CloseSocket
  <2>3. InboxesShrink
    BY <1>0, <2>2 DEF InboxesShrink, Socket
  <2> QED BY <1>gw, <1>still, <1>tasks, <2>1, <2>3
<1>3. CASE WriteCollides
  <2>1. /\ task' = [r \in Request |-> [pc |-> "none", id |-> None]]
        /\ sock' = [k \in Conn |-> NoSocket] /\ UNCHANGED <<gw, visitor>>
    BY <1>3 DEF WriteCollides
  <2>2. TasksContinue
    BY <2>1 DEF TasksContinue, Continues
  <2>3. InboxesShrink
    BY <2>1 DEF InboxesShrink, NoSocket
  <2> QED BY <1>gw, <1>still, <2>1, <2>2, <2>3
<1>4. ASSUME NEW k \in Conn, HeartbeatStep(k)
      PROVE  VisitorsKeep /\ TasksContinue /\ InboxesShrink /\ GatewayRuns
  <2>1. /\ UNCHANGED task
        /\ Sent(c.ws, "heartbeat", None, None) \/ UNCHANGED <<sock, gw, visitor>>
    BY <1>4 DEF HeartbeatStep, HeartbeatEnters, HeartbeatTicks, HeartbeatWrites, HeartbeatStops
  <2> QED BY <1>0, <1>gw, <1>socks, <1>still, <1>tasks, <2>1, SentKeeps
<1>5. ASSUME NEW k \in Conn, ReaderStep(k)
      PROVE  VisitorsKeep /\ TasksContinue /\ InboxesShrink /\ GatewayRuns
  <2>0. UNCHANGED <<gw, visitor>>
    BY <1>5, Zenon DEF ReaderStep, ReadRequest, ReadError, ReaderExits
  <2>1. CASE ReadRequest(k)
    <3>0. c.ws \in Conn
      BY <2>1 DEF ReadRequest, ReaderInv, OneReader
    <3>1. PICK r \in sock[c.ws].inbox :
            /\ sock' = [sock EXCEPT ![c.ws].inbox = sock[c.ws].inbox \ {r}]
            /\ task' = [task EXCEPT ![r] = [pc |-> "local", id |-> visitor[r].id]]
      BY <2>1, Zenon DEF ReadRequest
    <3>2. InboxesShrink
      BY <1>0, <3>1 DEF InboxesShrink, Socket
    <3>3. TasksContinue
      <4>1. \A q \in Request : q # r => task'[q] = task[q]
        BY <1>0, <3>1
      <4>2. r \in Request => task'[r].id = visitor[r].id
        BY <1>0, <3>1
      <4> QED BY <3>0, <3>1, <4>1, <4>2 DEF TasksContinue, Continues
    <3> QED BY <1>gw, <1>still, <2>0, <3>2, <3>3, Zenon
  <2>2. CASE ReadError(k)
    BY <1>gw, <1>socks, <1>still, <1>tasks, <2>0, <2>2 DEF ReadError
  <2>3. CASE ReaderExits(k)
    <3>1. sock' = [sock EXCEPT ![c.ws].inbox = {}] /\ UNCHANGED task
      BY <2>3 DEF ReaderExits
    <3>2. InboxesShrink
      BY <1>0, <3>1 DEF InboxesShrink, Socket
    <3> QED BY <1>gw, <1>still, <1>tasks, <2>0, <3>1, <3>2, Zenon
  <2> QED BY <1>5, <2>1, <2>2, <2>3, Zenon DEF ReaderStep
<1>6. ASSUME NEW r \in Request, TaskStep(r)
      PROVE  VisitorsKeep /\ TasksContinue /\ InboxesShrink /\ GatewayRuns
  <2>1. /\ task[r].pc # "none" /\ \A q \in Request : q # r => task'[q] = task[q]
        /\ task'[r].pc # "none" => task'[r].id = task[r].id
    BY <1>0, <1>6 DEF TaskStep, LocalRequest, SendStreamData, SendCloseStream, Task
  <2>2. TasksContinue
    BY <2>1 DEF TasksContinue, Continues
  <2>3. \/ Sent(c.ws, "data", task[r].id, r) \/ Sent(c.ws, "close", task[r].id, None)
        \/ UNCHANGED <<sock, gw, visitor>>
    BY <1>6, Zenon DEF TaskStep, LocalRequest, SendStreamData, SendCloseStream
  <2>4. CASE Sent(c.ws, "data", task[r].id, r)
    <3>1. \E q \in Request : task[q].pc # "none" /\ task[q].id = task[r].id /\ r = q
      BY <2>1, Zenon
    <3> QED BY <1>0, <2>2, <2>4, <3>1, SentKeeps
  <2>5. CASE Sent(c.ws, "close", task[r].id, None)
    BY <1>0, <2>2, <2>5, SentKeeps
  <2> QED BY <1>gw, <1>socks, <1>still, <2>2, <2>3, <2>4, <2>5, Zenon
<1>7. ASSUME NEW k \in Conn, CleanupConnection(k)
      PROVE  VisitorsKeep /\ TasksContinue /\ InboxesShrink /\ GatewayRuns
  <2>1. /\ gw' = [gw EXCEPT !.session[k] = "none", !.holder = IF gw.holder = k THEN None ELSE gw.holder]
        /\ visitor' = Answered(Waiting(k), "error") /\ UNCHANGED <<sock, task>>
    BY <1>7 DEF CleanupConnection
  <2>2. GatewayRuns
    BY <1>0, <2>1 DEF GatewayRuns, Gateway
  <2>3. \A r \in Request : r \in Waiting(k) => visitor[r].state = "waiting"
    BY DEF Waiting
  <2>4. VisitorsKeep
    BY <1>0, <2>1, <2>3, AnsweredEffects DEF VisitorsKeep, Keeps, Hears
  <2> QED BY <1>socks, <1>tasks, <2>1, <2>2, <2>4, Zenon
<1>11. ASSUME NEW k \in Conn, Reply(k) \/ ReplyPanics(k)
       PROVE  VisitorsKeep /\ TasksContinue /\ InboxesShrink /\ GatewayRuns
  <2>1. GatewayRuns /\ UNCHANGED <<visitor, task>>
    BY <1>0, <1>11, ReplyEffects, Zenon DEF GatewayRuns
  <2>2. InboxesShrink
    BY <1>0, <1>11, ReplyEffects, Zenon DEF InboxesShrink
  <2> QED BY <1>still, <1>tasks, <2>1, <2>2, Zenon
<1>8. ASSUME NEW k \in Conn, Drop(k)
      PROVE  VisitorsKeep /\ TasksContinue /\ InboxesShrink /\ GatewayRuns
  <2>1. sock' = [sock EXCEPT ![k].up = FALSE] /\ UNCHANGED <<gw, visitor, task>>
    BY <1>8 DEF Drop
  <2>2. InboxesShrink
    BY <1>0, <2>1 DEF InboxesShrink, Socket
  <2> QED BY <1>gw, <1>still, <1>tasks, <2>1, <2>2
<1>9. ASSUME NEW r \in Request, Timeout(r)
      PROVE  VisitorsKeep /\ TasksContinue /\ InboxesShrink /\ GatewayRuns
  <2> DEFINE R == {r}
  <2>1. visitor' = Answered(R, "error") /\ UNCHANGED <<sock, gw, task>>
    BY <1>9 DEF Timeout
  <2>2. \A q \in Request : q \in R => visitor[q].state = "waiting"
    BY <1>9, Zenon DEF Timeout
  <2> HIDE DEF R
  <2>3. VisitorsKeep
    BY <1>0, <2>1, <2>2, AnsweredEffects, SMTT(20) DEF VisitorsKeep, Keeps, Hears
  <2> QED BY <1>gw, <1>socks, <1>tasks, <2>1, <2>3, Zenon
<1>10. CASE UNCHANGED vars
  BY <1>10, <1>gw, <1>socks, <1>still, <1>tasks DEF vars
<1> QED BY <1>1, <1>2, <1>3, <1>4, <1>5, <1>6, <1>7, <1>8, <1>9, <1>10, <1>11, Zenon
        DEF Next, SessionStep

\* Stream IDs and processes are numbers where there are any.
LEMMA OpenedTypes ==
  ASSUME TypeOK, StreamIDsTell
  PROVE  /\ gw.epoch \in Nat /\ gw.nextID \in Nat /\ Opened \subseteq Request
         /\ \A r \in Opened : visitor[r].id \in Nat /\ visitor[r].epoch \in Nat
<1>1. gw \in Gateway /\ visitor \in [Request -> Visitor] /\ Cardinality(Request) \in Nat /\ MaxFaults \in Nat
  BY ClientAssumption, FS_CardinalityType DEF TypeOK, WorldTypeOK
<1>2. gw.epoch \in Nat /\ gw.nextID \in Nat
  BY <1>1 DEF Gateway
<1>3. Opened \subseteq Request
  BY DEF Opened
<1>4. \A r \in Request : /\ visitor[r].id \in StreamID \cup {None}
                         /\ visitor[r].epoch \in 0 .. MaxFaults \cup {None}
  BY <1>1 DEF Visitor
<1>5. StreamID \subseteq Nat /\ 0 .. MaxFaults \subseteq Nat
  BY <1>1 DEF StreamID
<1> QED BY <1>2, <1>3, <1>4, <1>5, Zenon DEF StreamIDsTell

\* The invariant is kept while visitors keep their IDs: an answer comes from a
\* handler with the ID its request was given, by this process or an earlier one.
LEMMA AnswersKept ==
  ASSUME AnswersInv, TypeOK', VisitorsKeep, TasksContinue, InboxesShrink,
         gw'.epoch = gw.epoch,
         gw'.state # "down" => gw.state # "down" /\ gw'.nextID = gw.nextID,
         \A r \in Request : visitor'[r].state = "waiting" => gw'.state # "down"
  PROVE  AnswersInv'
<1>0. TypeOK /\ StreamIDsTell /\ RequestsKnown /\ AnswersStayInEpoch
  BY DEF AnswersInv
<1>1. /\ gw.epoch \in Nat /\ Opened \subseteq Request /\ "error" \notin Request
      /\ \A r \in Opened : visitor[r].id \in Nat /\ visitor[r].epoch \in Nat
  BY <1>0, OpenedTypes, ClientAssumption
<1>2. \A r \in Request : Keeps(r)
  BY DEF VisitorsKeep
<1>3. Opened' = Opened
  BY <1>2, Zenon DEF Keeps, Opened
<1>4. StreamIDsTell'
  <2>1. \A r \in Opened : visitor'[r].id = visitor[r].id /\ visitor'[r].epoch = visitor[r].epoch
    BY <1>1, <1>2, Zenon DEF Keeps
  <2>2. \A r \in Request : visitor'[r].state = "waiting" =>
          visitor'[r].epoch = gw'.epoch /\ gw'.state # "down"
    BY <1>0, <1>2, Zenon DEF Keeps, StreamIDsTell
  <2> QED BY <1>0, <1>3, <2>1, <2>2 DEF StreamIDsTell
<1>5. ASSUME NEW r \in Request, visitor'[r].got \in Request
      PROVE  /\ r \in Opened /\ visitor'[r].got \in Opened
             /\ visitor'[r].got = r \/ visitor[visitor'[r].got].epoch < visitor[r].epoch
  <2>0. Hears(r)
    BY Zenon DEF VisitorsKeep
  <2>1. CASE visitor'[r].got = visitor[r].got
    BY <1>0, <1>5, <2>1, Zenon DEF RequestsKnown, AnswersStayInEpoch
  <2>2. ASSUME NEW q \in Request, visitor[r].state = "waiting", task[q].pc # "none",
               task[q].id = visitor[r].id, visitor'[r].got = q
        PROVE  r \in Opened /\ q \in Opened /\ (q = r \/ visitor[q].epoch < visitor[r].epoch)
    <3>1. r \in Opened /\ q \in Opened /\ visitor[q].id = visitor[r].id
      BY <1>0, <2>2, Zenon DEF RequestsKnown, Opened
    <3>2. visitor[r].epoch = gw.epoch /\ visitor[q].epoch <= gw.epoch
      BY <1>0, <2>2, <3>1, Zenon DEF StreamIDsTell
    <3>3. visitor[q].epoch = visitor[r].epoch => q = r
      BY <1>0, <3>1 DEF StreamIDsTell
    <3>4. visitor[q].epoch \in Nat /\ visitor[r].epoch \in Nat
      BY <1>1, <3>1
    <3> QED BY <1>1, <3>1, <3>2, <3>3, <3>4
  <2> QED BY <1>1, <1>5, <2>0, <2>1, <2>2, Zenon DEF Hears
<1>6. AnswersStayInEpoch'
  <2>1. \A r \in Request : visitor'[r].epoch = visitor[r].epoch
    BY <1>2, Zenon DEF Keeps
  <2> QED BY <1>5, <2>1 DEF AnswersStayInEpoch
<1>7. RequestsKnown'
  <2>1. \A k \in Conn : sock'[k].inbox \subseteq Opened
    BY <1>0 DEF RequestsKnown, InboxesShrink
  <2>2. \A r \in Request : task'[r].pc # "none" => r \in Opened /\ task'[r].id = visitor'[r].id
    <3>1. \A r \in Request : visitor'[r].id = visitor[r].id
      BY <1>2 DEF Keeps
    <3> QED BY <1>0, <3>1 DEF RequestsKnown, TasksContinue, Continues
  <2> QED BY <1>3, <1>5, <2>1, <2>2, Zenon DEF RequestsKnown
<1> QED BY <1>4, <1>6, <1>7, Zenon DEF AnswersInv

\* A request that comes gets an ID that this process has not given out.
LEMMA OpenStreamAnswers ==
  ASSUME AnswersInv, TypeOK', NEW r \in Request, OpenStream(r)
  PROVE  AnswersInv'
<1> DEFINE k == gw.holder
           id == gw.nextID + 1
<1>0. TypeOK /\ StreamIDsTell /\ RequestsKnown /\ AnswersStayInEpoch
  BY DEF AnswersInv
<1>1. /\ gw.epoch \in Nat /\ gw.nextID \in Nat /\ Opened \subseteq Request
      /\ \A q \in Opened : visitor[q].id \in Nat /\ visitor[q].epoch \in Nat
  BY <1>0, OpenedTypes
<1>2. /\ gw.state = "up" /\ visitor[r].state = "idle" /\ gw' = [gw EXCEPT !.nextID = id] /\ UNCHANGED task
      /\ visitor' = [visitor EXCEPT ![r] = [state |-> "waiting", conn |-> k, id |-> id,
                                            epoch |-> gw.epoch, got |-> None]]
      /\ sock' = sock \/ sock' = [sock EXCEPT ![k].inbox = sock[k].inbox \cup {r}]
  BY DEF OpenStream, goroutineVars
<1>3. id \in Nat /\ \A n \in Nat : n <= gw.nextID => n <= id /\ n # id
  BY <1>1
<1> HIDE DEF k, id
<1>4. gw \in Gateway /\ visitor \in [Request -> Visitor] /\ sock \in [Conn -> Socket]
  BY <1>0 DEF TypeOK, WorldTypeOK
<1>5. gw'.state = "up" /\ gw'.epoch = gw.epoch /\ gw'.nextID = id
  BY <1>2, <1>4 DEF Gateway
<1>6. /\ visitor'[r].state = "waiting" /\ visitor'[r].id = id /\ visitor'[r].epoch = gw.epoch
      /\ visitor'[r].got = None
      /\ \A q \in Request : q # r => visitor'[q] = visitor[q]
  BY <1>2, <1>4
<1>7. Opened' = Opened \cup {r} /\ r \notin Opened
  BY <1>2, <1>6 DEF Opened
<1>8. /\ None \notin Request /\ None \notin Nat
  BY ClientAssumption, Zenon
<1>9. StreamIDsTell'
  <2>1. \A q \in Opened' : /\ visitor'[q].id \in Nat /\ visitor'[q].epoch \in Nat
                           /\ visitor'[q].epoch <= gw'.epoch
    BY <1>0, <1>1, <1>3, <1>5, <1>6, <1>7 DEF StreamIDsTell
  <2>2. \A q \in Opened : visitor'[q].epoch = gw'.epoch => visitor'[q].id <= id /\ visitor'[q].id # id
    BY <1>0, <1>1, <1>2, <1>3, <1>5, <1>6, <1>7 DEF StreamIDsTell
  <2>3. \A p, q \in Opened' : visitor'[p].epoch = visitor'[q].epoch /\ visitor'[p].id = visitor'[q].id => p = q
    <3>1. \A p, q \in Opened : visitor'[p].epoch = visitor'[q].epoch /\ visitor'[p].id = visitor'[q].id => p = q
      BY <1>0, <1>1, <1>6, <1>7 DEF StreamIDsTell
    <3> QED BY <1>5, <1>6, <1>7, <2>2, <3>1
  <2>4. \A q \in Opened' : visitor'[q].epoch = gw'.epoch => visitor'[q].id <= gw'.nextID
    BY <1>3, <1>5, <1>6, <1>7, <2>2
  <2>5. \A q \in Request : visitor'[q].state = "waiting" => visitor'[q].epoch = gw'.epoch
    BY <1>0, <1>5, <1>6, Zenon DEF StreamIDsTell
  <2> QED BY <1>5, <1>8, <2>1, <2>3, <2>4, <2>5, Zenon DEF StreamIDsTell
<1>10. RequestsKnown'
  <2>1. \A j \in Conn : sock'[j].inbox \subseteq Opened'
    <3>1. \A j \in Conn : sock'[j].inbox \subseteq sock[j].inbox \cup {r}
      BY <1>2, <1>4 DEF Socket
    <3> QED BY <1>0, <1>7, <3>1 DEF RequestsKnown
  <2>2. \A q \in Request : task'[q].pc # "none" => q \in Opened' /\ task'[q].id = visitor'[q].id
    BY <1>0, <1>2, <1>6, <1>7, Zenon DEF RequestsKnown
  <2>3. \A q \in Request : visitor'[q].got \in Request => q \in Opened' /\ visitor'[q].got \in Opened'
    BY <1>0, <1>6, <1>7, <1>8, Zenon DEF RequestsKnown
  <2> QED BY <2>1, <2>2, <2>3, Zenon DEF RequestsKnown
<1>11. AnswersStayInEpoch'
  <2>1. ASSUME NEW q \in Request, visitor'[q].got \in Request
        PROVE  visitor'[q].got = q \/ visitor'[visitor'[q].got].epoch < visitor'[q].epoch
    <3>1. q # r /\ visitor'[q] = visitor[q]
      BY <1>6, <1>8, <2>1
    <3>2. visitor[q].got \in Request /\ visitor[q].got # r
      BY <1>0, <1>7, <2>1, <3>1, Zenon DEF RequestsKnown
    <3>3. visitor'[visitor[q].got] = visitor[visitor[q].got]
      BY <1>6, <3>2
    <3> QED BY <1>0, <3>1, <3>2, <3>3 DEF AnswersStayInEpoch
  <2> QED BY <2>1, Zenon DEF AnswersStayInEpoch
<1> QED BY <1>9, <1>10, <1>11 DEF AnswersInv

\* Every step keeps the invariant.
LEMMA AnswersInductive ==
  ASSUME AnswersInv, ReaderInv, TypeOK', [Next]_vars
  PROVE  AnswersInv'
<1> USE DEF goroutineVars, gatewayVars
<1>0. /\ TypeOK /\ StreamIDsTell /\ WorldTypeOK /\ gw \in Gateway /\ sock \in [Conn -> Socket]
  BY DEF AnswersInv, TypeOK, WorldTypeOK
<1>1. CASE \E r \in Request : OpenStream(r)
  BY <1>1, OpenStreamAnswers
<1>2. CASE Signal
  <2>1. gw'.state = "draining" /\ gw.state = "up" /\ gw'.epoch = gw.epoch /\ gw'.nextID = gw.nextID
    BY <1>0, <1>2 DEF Signal, Gateway
  <2>2. VisitorsKeep /\ TasksContinue /\ InboxesShrink
    BY <1>2 DEF Signal, VisitorsKeep, Keeps, Hears, TasksContinue, Continues, InboxesShrink
  <2> QED BY <2>1, <2>2, AnswersKept
<1>3. CASE Exit
  <2> DEFINE R == {r \in Request : visitor[r].state = "waiting"}
  <2>1. gw'.state = "down" /\ gw'.epoch = gw.epoch
    BY <1>0, <1>3 DEF Exit, Gateway
  <2>2. visitor' = Answered(R, "error") /\ UNCHANGED task
    BY <1>3 DEF Exit
  <2>3. \A r \in Request : r \in R <=> visitor[r].state = "waiting"
    BY Zenon
  <2> HIDE DEF R
  <2>4. /\ \A r \in Request : /\ visitor'[r].id = visitor[r].id
                              /\ visitor'[r].epoch = visitor[r].epoch
                              /\ visitor'[r].state = "idle" <=> visitor[r].state = "idle"
        /\ \A r \in Request : r \in R => visitor'[r].state = "ended" /\ visitor'[r].got = "error"
        /\ \A r \in Request : r \notin R => visitor'[r] = visitor[r]
    BY <1>0, <2>2, <2>3, AnsweredEffects
  <2>5. \A r \in Request : visitor'[r].state # "waiting"
    BY <2>3, <2>4, Zenon
  <2>6. VisitorsKeep
    BY <2>4, <2>5 DEF VisitorsKeep, Keeps, Hears
  <2>7. InboxesShrink
    BY <1>0, <1>3, Zenon DEF Exit, InboxesShrink, Socket
  <2>8. TasksContinue
    BY <2>2 DEF TasksContinue, Continues
  <2> QED BY <2>1, <2>5, <2>6, <2>7, <2>8, AnswersKept
<1>4. CASE Start
  <2>1. gw.state = "down" /\ gw'.state = "up" /\ gw'.epoch = gw.epoch + 1 /\ UNCHANGED <<visitor, task, sock>>
    BY <1>0, <1>4 DEF Start, Gateway
  <2>2. /\ gw.epoch \in Nat /\ \A r \in Opened : visitor[r].epoch \in Nat
    BY <1>0, OpenedTypes
  <2>3. Opened' = Opened
    BY <2>1, Zenon DEF Opened
  <2>4. \A r \in Opened : visitor[r].epoch <= gw'.epoch /\ visitor[r].epoch # gw'.epoch
    BY <1>0, <2>1, <2>2 DEF StreamIDsTell
  <2>5. StreamIDsTell'
    BY <1>0, <2>1, <2>3, <2>4 DEF StreamIDsTell
  <2>6. RequestsKnown' /\ AnswersStayInEpoch'
    BY <2>1, <2>3 DEF AnswersInv, RequestsKnown, AnswersStayInEpoch
  <2> QED BY <2>5, <2>6 DEF AnswersInv
<1>5. CASE ~(\E r \in Request : OpenStream(r)) /\ ~Signal /\ ~Exit /\ ~Start
  <2>1. VisitorsKeep /\ TasksContinue /\ InboxesShrink /\ GatewayRuns
    BY <1>0, <1>5, OrdinarySteps, Zenon
  <2>2. \A r \in Request : visitor'[r].state = "waiting" => gw'.state # "down"
    BY <1>0, <2>1, Zenon DEF VisitorsKeep, Keeps, GatewayRuns, StreamIDsTell
  <2> QED BY <2>1, <2>2, AnswersKept DEF GatewayRuns
<1> QED BY <1>1, <1>2, <1>3, <1>4, <1>5

\* At the start nobody has asked for anything.
LEMMA InitAnswers ==
  ASSUME Init, TypeOK
  PROVE  AnswersInv
<1>1. Opened = {}
  BY Zenon DEF Init, Opened
<1>2. \A r \in Request : visitor[r].state = "idle" /\ visitor[r].got = None /\ task[r].pc = "none"
  BY Zenon DEF Init
<1>3. \A k \in Conn : sock[k].inbox = {}
  BY Zenon DEF Init, NoSocket
<1>4. None \notin Request
  BY ClientAssumption
<1> QED BY <1>1, <1>2, <1>3, <1>4, Zenon DEF AnswersInv, StreamIDsTell, RequestsKnown, AnswersStayInEpoch

\* A visitor is never given the answer to another request of the same gateway
\* process, for any number of requests, connections, faults and restarts: stream
\* IDs start over with every process, so only an answer to a request of an
\* earlier process can be taken for its own.
THEOREM AnswersStayWithTheirProcess == Spec => []AnswersStayInEpoch
<1>1. TypeInv /\ ReaderInv /\ [Next]_vars => TypeInv' /\ ReaderInv'
  BY TypesInductive
<1>2. TypeInv => TypeOK
  BY DEF TypeInv
<1>3. AnswersInv /\ ReaderInv /\ TypeOK' /\ [Next]_vars => AnswersInv'
  BY AnswersInductive
<1>4. Init /\ TypeOK => AnswersInv
  BY InitAnswers
<1>5. AnswersInv => AnswersStayInEpoch
  BY DEF AnswersInv
<1> QED BY <1>1, <1>2, <1>3, <1>4, <1>5, InitTypes, PTL DEF Spec
=============================================================================
