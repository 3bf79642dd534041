--------------------------- MODULE ExchangeProofs ---------------------------
(***************************************************************************)
(* Proofs about the data plane of one connection, for any number of        *)
(* requests and any interleaving of the goroutines on both ends.           *)
(***************************************************************************)
EXTENDS Exchange, TLAPS

\* Stream IDs wrap at 2^32.
LEMMA ModRange ==
  ASSUME NEW n \in Nat, NEW m \in Nat \ {0}
  PROVE  n % m \in 0 .. m - 1
BY Z3

\* What counting modulo m gives below m ...
LEMMA ModSmall ==
  ASSUME NEW m \in Nat \ {0}, NEW n \in 0 .. m - 1
  PROVE  n % m = n
BY Z3

\* ... and at m.
LEMMA ModSelf ==
  ASSUME NEW m \in Nat \ {0}
  PROVE  m % m = 0
BY Z3

HandlerRecord == [pc : HandlerPC, id : StreamID \cup {None}, outcome : Outcome \cup {None}]
LoopRecord == [pc : LoopPC, frame : Frame \cup {None}, stream : Request \cup {None}]
TaskRecord == [pc : TaskPC, id : StreamID \cup {None}, envelope : Request \cup {None}]

\* ServeHTTP of r goes on; its stream ID and what it answered stay.
LEMMA HandlerMoves ==
  ASSUME HandlerTypeOK, NEW r \in Request, NEW to \in HandlerPC,
         handler' = [handler EXCEPT ![r].pc = to]
  PROVE  /\ handler' \in [Request -> HandlerRecord]
         /\ handler'[r].pc = to /\ handler'[r].id = handler[r].id
         /\ handler'[r].outcome = handler[r].outcome
         /\ \A q \in Request : q # r => handler'[q] = handler[q]
BY DEF HandlerTypeOK, HandlerRecord

\* ServeHTTP of r answers; its stream ID stays.
LEMMA HandlerAnswers ==
  ASSUME HandlerTypeOK, NEW r \in Request, NEW from, NEW out \in Outcome, Answer(r, from, out)
  PROVE  /\ handler' \in [Request -> HandlerRecord]
         /\ handler'[r].pc \in {"writing", "answered"} /\ handler'[r].id = handler[r].id
         /\ handler'[r].outcome = out
         /\ \A q \in Request : q # r => handler'[q] = handler[q]
<1>1. PICK to \in {"writing", "answered"} :
        handler' = [handler EXCEPT ![r].pc = to, ![r].outcome = out]
  BY Zenon DEF Answer
<1> QED BY <1>1, Zenon DEF HandlerTypeOK, HandlerRecord, HandlerPC

\* OpenStream gives r its stream ID.
LEMMA HandlerOpens ==
  ASSUME HandlerTypeOK, NEW r \in Request, OpenStream(r)
  PROVE  LET id == (nextStreamID + 1) % IDSpace
         IN  /\ handler' \in [Request -> HandlerRecord] /\ id \in StreamID
             /\ nextStreamID' = id
             /\ handler'[r].pc = "inserting" /\ handler'[r].id = id
             /\ handler'[r].outcome = handler[r].outcome
             /\ \A q \in Request : q # r => handler'[q] = handler[q]
<1> DEFINE id == (nextStreamID + 1) % IDSpace
<1>1. id \in StreamID
  <2>1. nextStreamID + 1 \in Nat /\ IDSpace \in Nat \ {0}
    <3>1. nextStreamID \in 0 .. IDSpace - 1
      BY DEF HandlerTypeOK, StreamID
    <3>2. IDSpace \in Nat \ {0}
      BY ExchangeAssumption, Zenon
    <3> QED BY <3>1, <3>2
  <2> QED BY <2>1, ModRange DEF StreamID
<1>2. handler' = [handler EXCEPT ![r].pc = "inserting", ![r].id = id] /\ nextStreamID' = id
  BY DEF OpenStream
<1> HIDE DEF id
<1>3. /\ handler' \in [Request -> HandlerRecord]
      /\ handler'[r].pc = "inserting" /\ handler'[r].id = id
      /\ handler'[r].outcome = handler[r].outcome
      /\ \A q \in Request : q # r => handler'[q] = handler[q]
  BY <1>1, <1>2, Zenon DEF HandlerTypeOK, HandlerRecord, HandlerPC
<1> QED BY <1>1, <1>2, <1>3 DEF id

\* A goroutine of the client goes on with its ID and envelope.
LEMMA TaskMoves ==
  ASSUME ClientTypeOK, NEW r \in Request, NEW to \in TaskPC,
         task' = [task EXCEPT ![r].pc = to]
  PROVE  /\ task' \in [Request -> TaskRecord]
         /\ task'[r].pc = to /\ task'[r].id = task[r].id /\ task'[r].envelope = task[r].envelope
         /\ \A q \in Request : q # r => task'[q] = task[q]
BY Zenon DEF ClientTypeOK, TaskRecord

\* The open frame of r gives its goroutine the ID.
LEMMA TaskSpawns ==
  ASSUME ClientTypeOK, NEW r \in Request, NEW id \in StreamID,
         task' = [task EXCEPT ![r].pc = "spawned", ![r].id = id]
  PROVE  /\ task' \in [Request -> TaskRecord]
         /\ task'[r].pc = "spawned" /\ task'[r].id = id /\ task'[r].envelope = task[r].envelope
         /\ \A q \in Request : q # r => task'[q] = task[q]
BY Zenon DEF ClientTypeOK, TaskRecord, TaskPC

\* The goroutine of r takes its envelope.
LEMMA TaskTakes ==
  ASSUME ClientTypeOK, NEW r \in Request, NEW e \in Request,
         task' = [task EXCEPT ![r].pc = "local", ![r].envelope = e]
  PROVE  /\ task' \in [Request -> TaskRecord]
         /\ task'[r].pc = "local" /\ task'[r].id = task[r].id /\ task'[r].envelope = e
         /\ \A q \in Request : q # r => task'[q] = task[q]
BY Zenon DEF ClientTypeOK, TaskRecord, TaskPC
-----------------------------------------------------------------------------
(* Type correctness *)

\* What a step leaves alone keeps its type.
LEMMA TypeFrames ==
  ASSUME TypeOK
  PROVE  /\ UNCHANGED handlerVars => HandlerTypeOK'
         /\ UNCHANGED <<response, done, loop>> => LoopTypeOK'
         /\ UNCHANGED wireVars => WireTypeOK'
         /\ UNCHANGED <<pendingStreams, dataCh, task, clientDone, hung>> => ClientTypeOK'
<1>1. UNCHANGED handlerVars => HandlerTypeOK'
  BY DEF TypeOK, HandlerTypeOK, handlerVars
<1>2. UNCHANGED <<response, done, loop>> => LoopTypeOK'
  BY DEF TypeOK, LoopTypeOK
<1>3. UNCHANGED wireVars => WireTypeOK'
  BY DEF TypeOK, WireTypeOK, wireVars
<1>4. UNCHANGED <<pendingStreams, dataCh, task, clientDone, hung>> => ClientTypeOK'
  BY DEF TypeOK, ClientTypeOK
<1> QED BY <1>1, <1>2, <1>3, <1>4

\* Each step of ServeHTTP keeps the types.
LEMMA HandlerStepType ==
  ASSUME TypeOK, NEW r \in Request, OpenStream(r) \/ ServeStep(r)
  PROVE  TypeOK'
<1> USE DEF channelVars, clientVars
<1>0. HandlerTypeOK /\ LoopTypeOK /\ WireTypeOK /\ ClientTypeOK
  BY DEF TypeOK
<1>frame. /\ handler[r] \in HandlerRecord
          /\ handler[r].pc # "idle" => handler[r].id \in StreamID
          /\ \A t \in {"open", "data", "close"} : handler[r].pc # "idle" =>
               [type |-> t, id |-> handler[r].id, body |-> r] \in Frame
  BY <1>0 DEF HandlerTypeOK, HandlerRecord, Frame
<1>keeps. ASSUME handler' \in [Request -> HandlerRecord],
                 handler'[r].pc # "idle" => handler'[r].id # None,
                 \A q \in Request : q # r => handler'[q] = handler[q],
                 nextStreamID' \in StreamID,
                 DOMAIN streams' \subseteq StreamID, \A id \in DOMAIN streams' : streams'[id] \in Request
          PROVE  HandlerTypeOK'
  BY <1>0, <1>keeps DEF HandlerTypeOK, HandlerRecord
<1>streams. nextStreamID \in StreamID /\ DOMAIN streams \subseteq StreamID
            /\ \A id \in DOMAIN streams : streams[id] \in Request
  BY <1>0 DEF HandlerTypeOK
<1>moves. ASSUME NEW from \in HandlerPC \ {"idle"}, NEW to \in HandlerPC, Move(r, from, to),
                 nextStreamID' \in StreamID,
                 DOMAIN streams' \subseteq StreamID, \A id \in DOMAIN streams' : streams'[id] \in Request
          PROVE  HandlerTypeOK'
  <2>1. handler' = [handler EXCEPT ![r].pc = to] /\ handler[r].pc # "idle"
    BY <1>moves DEF Move
  <2> QED BY <1>0, <1>frame, <1>keeps, <1>moves, <2>1, HandlerMoves DEF HandlerTypeOK
<1>answers. ASSUME NEW from \in HandlerPC \ {"idle"}, NEW out \in Outcome, Answer(r, from, out),
                   UNCHANGED <<nextStreamID, streams>>
            PROVE  HandlerTypeOK'
  <2>1. handler[r].pc # "idle"
    BY <1>answers, Zenon DEF Answer
  <2>2. handler[r].id # None
    BY <1>0, <2>1 DEF HandlerTypeOK
  <2>3. /\ handler' \in [Request -> HandlerRecord] /\ handler'[r].id = handler[r].id
        /\ \A q \in Request : q # r => handler'[q] = handler[q]
    BY <1>0, <1>answers, HandlerAnswers, Zenon
  <2> QED BY <1>streams, <1>keeps, <1>answers, <2>2, <2>3
<1>1. CASE OpenStream(r)
  <2>1. UNCHANGED <<streams, channelVars, loop, wireVars, clientVars>>
    BY <1>1 DEF OpenStream
  <2>2. /\ handler' \in [Request -> HandlerRecord] /\ nextStreamID' \in StreamID
        /\ handler'[r].id = nextStreamID'
        /\ \A q \in Request : q # r => handler'[q] = handler[q]
    BY <1>0, <1>1, HandlerOpens
  <2>3. handler'[r].id # None
    BY <2>2, ExchangeAssumption, Zenon
  <2>4. HandlerTypeOK'
    BY <1>keeps, <1>streams, <2>1, <2>2, <2>3
  <2> QED BY <2>1, <2>4, TypeFrames DEF TypeOK
<1>2. CASE InsertStream(r)
  <2>1. /\ Move(r, "inserting", "open") /\ streams' = Put(streams, handler[r].id, r)
        /\ UNCHANGED <<nextStreamID, channelVars, loop, wireVars, clientVars>>
    BY <1>2 DEF InsertStream
  <2>2. handler[r].id \in StreamID
    BY <1>frame, <2>1 DEF Move
  <2>3. DOMAIN streams' \subseteq StreamID /\ \A id \in DOMAIN streams' : streams'[id] \in Request
    BY <1>streams, <2>1, <2>2 DEF Put
  <2>4. HandlerTypeOK'
    BY <1>moves, <1>streams, <2>1, <2>3 DEF HandlerPC
  <2> QED BY <2>1, <2>4, TypeFrames DEF TypeOK
<1>3. CASE SendOpen(r) \/ SendData(r)
  <2>1. PICK from \in {"open", "body"}, to \in {"reading", "wait"}, t \in {"open", "data"} :
          Move(r, from, to) /\ Writes(toClient, [type |-> t, id |-> handler[r].id, body |-> r])
    BY <1>3 DEF SendOpen, SendData
  <2>2. UNCHANGED <<nextStreamID, streams, channelVars, loop, link, toServer, clientVars>>
    BY <1>3 DEF SendOpen, SendData
  <2>3. HandlerTypeOK'
    BY <1>moves, <1>streams, <2>1, <2>2 DEF HandlerPC
  <2>4. [type |-> t, id |-> handler[r].id, body |-> r] \in Frame
    BY <1>frame, <2>1 DEF Move
  <2>5. WireTypeOK'
    BY <1>0, <2>1, <2>2, <2>4 DEF WireTypeOK, Writes
  <2> QED BY <2>2, <2>3, <2>5, TypeFrames DEF TypeOK
<1>4. CASE SendFails(r) \/ SeeDone(r) \/ Timeout(r) \/ (ReadBody(r) /\ Answer(r, "reading", "error"))
  <2>1. PICK from \in {"open", "reading", "body", "wait"}, out \in {"error", "stream closed"} :
          Answer(r, from, out)
    BY <1>4, Zenon DEF SendFails, SeeDone, Timeout
  <2>2. UNCHANGED <<nextStreamID, streams, channelVars, loop, wireVars, clientVars>>
    BY <1>4, Zenon DEF SendFails, SeeDone, Timeout, ReadBody
  <2>3. HandlerTypeOK'
    BY <1>answers, <2>1, <2>2, Zenon DEF HandlerPC, Outcome
  <2> QED BY <2>2, <2>3, TypeFrames, Zenon DEF TypeOK
<1>5. CASE ReceiveResponse(r)
  <2>1. /\ response[r] # <<>> /\ Answer(r, "wait", Head(response[r]))
        /\ response' = [response EXCEPT ![r] = Tail(response[r])]
        /\ UNCHANGED <<nextStreamID, streams, done, loop, wireVars, clientVars>>
    BY <1>5 DEF ReceiveResponse
  <2>2. Head(response[r]) \in Request /\ Tail(response[r]) \in Seq(Request)
    BY <1>0, <2>1 DEF LoopTypeOK
  <2>3. HandlerTypeOK'
    BY <1>answers, <2>1, <2>2, Zenon DEF HandlerPC, Outcome
  <2>4. LoopTypeOK'
    BY <1>0, <2>1, <2>2 DEF LoopTypeOK
  <2> QED BY <2>1, <2>3, <2>4, TypeFrames DEF TypeOK
<1>6. CASE LockClose(r) \/ WriteResponse(r) \/ (ReadBody(r) /\ Move(r, "reading", "body"))
  <2>1. PICK from \in {"answered", "writing", "reading"}, to \in {"deleting", "answered", "body"} :
          Move(r, from, to)
    BY <1>6, Zenon DEF LockClose, WriteResponse
  <2>3. UNCHANGED <<nextStreamID, streams, channelVars, loop, wireVars, clientVars>>
    BY <1>6, Zenon DEF LockClose, WriteResponse, ReadBody
  <2>2. HandlerTypeOK'
    BY <1>moves, <1>streams, <2>1, <2>3 DEF HandlerPC
  <2> QED BY <2>3, <2>2, TypeFrames DEF TypeOK
<1>7. CASE CloseStream(r)
  <2>1. /\ Move(r, "deleting", "finished") /\ Closes(handler[r].id)
        /\ UNCHANGED <<nextStreamID, response, loop, wireVars, clientVars>>
    BY <1>7 DEF CloseStream
  <2>2. /\ DOMAIN streams' \subseteq StreamID /\ \A id \in DOMAIN streams' : streams'[id] \in Request
        /\ done' \in [Request -> BOOLEAN]
    BY <1>0, <1>streams, <2>1 DEF Closes, Delete, Restrict, LoopTypeOK
  <2>3. HandlerTypeOK'
    BY <1>moves, <1>streams, <2>1, <2>2 DEF HandlerPC
  <2>4. LoopTypeOK'
    BY <1>0, <2>1, <2>2 DEF LoopTypeOK
  <2> QED BY <2>1, <2>3, <2>4, TypeFrames DEF TypeOK
<1>8. ReadBody(r) => Move(r, "reading", "body") \/ Answer(r, "reading", "error")
  BY Zenon DEF ReadBody
<1> QED BY <1>1, <1>2, <1>3, <1>4, <1>5, <1>6, <1>7, <1>8 DEF ServeStep, HandlerStep, VisitorStep

\* Reading a frame leaves the rest of the queue.
LEMMA QueueReads ==
  ASSUME NEW S, NEW q \in Seq(S), q # <<>>
  PROVE  /\ Head(q) \in S /\ Tail(q) \in Seq(S)
         /\ 1 \in DOMAIN q /\ Head(q) = q[1]
         /\ \A i \in DOMAIN Tail(q) : i + 1 \in DOMAIN q /\ Tail(q)[i] = q[i + 1] /\ i + 1 # 1
         /\ \A i \in DOMAIN q, j \in DOMAIN q : i + 1 = j + 1 => i = j
BY DEF Seq

\* A prefix of a queue.
LEMMA QueueCut ==
  ASSUME NEW S, NEW q \in Seq(S), NEW n \in 0 .. Len(q)
  PROVE  /\ SubSeq(q, 1, n) \in Seq(S)
         /\ \A i \in DOMAIN SubSeq(q, 1, n) : i \in DOMAIN q /\ SubSeq(q, 1, n)[i] = q[i]
<1>1. n \in Nat /\ Len(q) \in Nat /\ n <= Len(q)
  OBVIOUS
<1>2. SubSeq(q, 1, n) = [i \in 1 .. n |-> q[i]]
  BY <1>1
<1>3. \A i \in 1 .. n : i \in DOMAIN q /\ q[i] \in S
  BY <1>1
<1> QED BY <1>1, <1>2, <1>3 DEF Seq

\* Each step of the gateway's read loop keeps the types.
LEMMA LoopStepType ==
  ASSUME TypeOK, LoopStep
  PROVE  TypeOK'
<1> USE DEF channelVars, clientVars, handlerVars, wireVars
<1>0. HandlerTypeOK /\ LoopTypeOK /\ WireTypeOK /\ ClientTypeOK
  BY DEF TypeOK
<1>loop. /\ loop \in LoopRecord /\ None \notin Frame /\ None \notin Request
         /\ loop.frame # None <=> loop.pc \in {"handle", "deliver"}
         /\ loop.stream # None <=> loop.pc = "deliver"
         /\ response \in [Request -> Seq(Request)] /\ done \in [Request -> BOOLEAN]
  BY <1>0, ExchangeAssumption, Zenon DEF LoopTypeOK, LoopRecord
<1>keeps. ASSUME loop' \in LoopRecord,
                 loop'.frame # None <=> loop'.pc \in {"handle", "deliver"},
                 loop'.stream # None <=> loop'.pc = "deliver",
                 response' \in [Request -> Seq(Request)], done' \in [Request -> BOOLEAN]
          PROVE  LoopTypeOK'
  BY <1>keeps DEF LoopTypeOK, LoopRecord
<1>frame. loop.pc \in {"handle", "deliver"} =>
            loop.frame \in Frame /\ loop.frame.body \in Request /\ loop.frame.id \in StreamID
  BY <1>loop DEF LoopRecord, Frame
<1>1. CASE ReadFrame
  <2>1. /\ loop.pc = "read" /\ toServer # <<>> /\ toServer' = Tail(toServer)
        /\ loop' = [loop EXCEPT !.pc = "handle", !.frame = Head(toServer)]
        /\ UNCHANGED <<handlerVars, channelVars, link, toClient, clientVars>>
    BY <1>1 DEF ReadFrame
  <2>2. Head(toServer) \in Frame /\ Tail(toServer) \in Seq(Frame)
    BY <1>0, <2>1, QueueReads DEF WireTypeOK
  <2>3. LoopTypeOK'
    BY <1>loop, <1>keeps, <2>1, <2>2, Zenon DEF LoopRecord, LoopPC
  <2>4. WireTypeOK'
    BY <1>0, <2>1, <2>2 DEF WireTypeOK
  <2> QED BY <2>1, <2>3, <2>4, TypeFrames DEF TypeOK
<1>2. CASE GetStream
  <2>1. /\ loop.pc = "handle" /\ UNCHANGED <<handlerVars, channelVars, toClient, toServer, clientVars>>
        /\ link' = link \/ link' = "down"
        /\ \/ /\ loop.frame.id \in DOMAIN streams
              /\ loop' = [loop EXCEPT !.pc = "deliver", !.stream = streams[loop.frame.id]]
           \/ loop' = [loop EXCEPT !.pc = "read", !.frame = None]
           \/ loop' = [loop EXCEPT !.pc = "crashed", !.frame = None]
    BY <1>2 DEF GetStream
  <2>2. \A id \in DOMAIN streams : streams[id] \in Request
    BY <1>0 DEF HandlerTypeOK
  <2>3. LoopTypeOK'
    <3>1. CASE loop.frame.id \in DOMAIN streams
               /\ loop' = [loop EXCEPT !.pc = "deliver", !.stream = streams[loop.frame.id]]
      BY <1>loop, <1>keeps, <2>1, <2>2, <3>1, Zenon DEF LoopRecord, LoopPC
    <3>2. CASE loop' = [loop EXCEPT !.pc = "read", !.frame = None]
      BY <1>loop, <1>keeps, <2>1, <3>2, Zenon DEF LoopRecord, LoopPC
    <3>3. CASE loop' = [loop EXCEPT !.pc = "crashed", !.frame = None]
      BY <1>loop, <1>keeps, <2>1, <3>3, Zenon DEF LoopRecord, LoopPC
    <3> QED BY <2>1, <3>1, <3>2, <3>3
  <2>4. WireTypeOK'
    BY <1>0, <2>1 DEF WireTypeOK
  <2> QED BY <2>1, <2>3, <2>4, TypeFrames DEF TypeOK
<1>3. CASE DeliverStreamData
  <2>1. /\ loop.pc = "deliver" /\ loop' = [pc |-> "read", frame |-> None, stream |-> None]
        /\ \/ response' = [response EXCEPT ![loop.stream] = <<loop.frame.body>>]
           \/ UNCHANGED response
        /\ UNCHANGED <<handlerVars, done, wireVars, clientVars>>
    BY <1>3 DEF DeliverStreamData
  <2>2. <<loop.frame.body>> \in Seq(Request)
    BY <1>frame, <2>1
  <2>3. response' \in [Request -> Seq(Request)]
    BY <1>loop, <2>1, <2>2, Zenon
  <2>4. LoopTypeOK'
    BY <1>loop, <1>keeps, <2>1, <2>3 DEF LoopRecord, LoopPC
  <2> QED BY <2>1, <2>4, TypeFrames DEF TypeOK
<1>4. CASE handleCloseStream
  <2>1. /\ loop.pc = "handle" /\ Closes(loop.frame.id)
        /\ loop' = [loop EXCEPT !.pc = "read", !.frame = None]
        /\ UNCHANGED <<nextStreamID, handler, response, wireVars, clientVars>>
    BY <1>4 DEF handleCloseStream
  <2>2. /\ DOMAIN streams' \subseteq DOMAIN streams
        /\ \A id \in DOMAIN streams' : streams'[id] = streams[id]
        /\ done' \in [Request -> BOOLEAN]
    BY <1>0, <1>loop, <2>1, Zenon DEF Closes, Delete, Restrict
  <2>3. HandlerTypeOK'
    BY <1>0, <2>1, <2>2 DEF HandlerTypeOK
  <2>4. LoopTypeOK'
    BY <1>loop, <1>keeps, <2>1, <2>2, Zenon DEF LoopRecord, LoopPC
  <2> QED BY <2>1, <2>3, <2>4, TypeFrames DEF TypeOK
<1>5. CASE ReadError \/ RemoveConnection \/ CloseSocket
  <2>1. PICK q \in {"cleanup", "removed", "closed"} :
          /\ loop.pc \in {"read", "cleanup", "removed"} /\ loop' = [loop EXCEPT !.pc = q]
          /\ done' \in [Request -> BOOLEAN]
          /\ UNCHANGED <<handlerVars, response, wireVars, clientVars>>
    BY <1>5, <1>loop, Zenon DEF ReadError, RemoveConnection, CloseSocket
  <2>2. LoopTypeOK'
    BY <1>loop, <1>keeps, <2>1 DEF LoopRecord, LoopPC
  <2> QED BY <2>1, <2>2, TypeFrames DEF TypeOK
<1> QED BY <1>1, <1>2, <1>3, <1>4, <1>5 DEF LoopStep

\* Each step of the client's read loop and goroutines keeps the types.
LEMMA ClientStepType ==
  ASSUME TypeOK, ClientLoopStep \/ (\E r \in Request : TaskStep(r))
  PROVE  TypeOK'
<1> USE DEF channelVars, handlerVars, wireVars
<1>0. HandlerTypeOK /\ LoopTypeOK /\ WireTypeOK /\ ClientTypeOK
  BY DEF TypeOK
<1>client. /\ DOMAIN pendingStreams \subseteq StreamID
           /\ \A id \in DOMAIN pendingStreams : pendingStreams[id] \in Request
           /\ dataCh \in [Request -> Seq(Request)] /\ task \in [Request -> TaskRecord]
           /\ clientDone \in BOOLEAN /\ hung \in BOOLEAN
           /\ None \notin Request /\ None \notin StreamID
  BY <1>0, ExchangeAssumption, Zenon DEF ClientTypeOK, TaskRecord
<1> DEFINE TaskOK(t) == /\ t.pc \notin {"none", "ended"} => t.id # None
                        /\ t.pc \in {"local", "respond", "close"} => t.envelope # None
<1>tasks. \A r \in Request : TaskOK(task[r])
  BY <1>0 DEF ClientTypeOK
<1>keeps. ASSUME NEW r \in Request, task' \in [Request -> TaskRecord], TaskOK(task'[r]),
                 \A q \in Request : q # r => task'[q] = task[q],
                 DOMAIN pendingStreams' \subseteq StreamID,
                 \A id \in DOMAIN pendingStreams' : pendingStreams'[id] \in Request,
                 dataCh' \in [Request -> Seq(Request)],
                 UNCHANGED <<clientDone, hung>>
          PROVE  ClientTypeOK'
  BY <1>client, <1>tasks, <1>keeps, Zenon DEF ClientTypeOK, TaskRecord
<1>1. CASE ClientRead
  <2> DEFINE frame == Head(toClient)
  <2>1. /\ toClient # <<>> /\ toClient' = Tail(toClient)
        /\ UNCHANGED <<handlerVars, channelVars, loop, link, toServer, pendingStreams,
                       clientDone, hung>>
        /\ \/ /\ task' = [task EXCEPT ![frame.body].pc = "spawned", ![frame.body].id = frame.id]
              /\ UNCHANGED dataCh
           \/ deliverStreamData(frame) /\ UNCHANGED task
    BY <1>1 DEF ClientRead
  <2>2. frame \in Frame /\ Tail(toClient) \in Seq(Frame)
    BY <1>0, <2>1, QueueReads DEF WireTypeOK
  <2>3. frame.body \in Request /\ frame.id \in StreamID
    BY <2>2 DEF Frame
  <2> HIDE DEF frame
  <2>4. WireTypeOK'
    BY <1>0, <2>1, <2>2 DEF WireTypeOK
  <2>5. ClientTypeOK'
    <3>1. CASE /\ task' = [task EXCEPT ![frame.body].pc = "spawned", ![frame.body].id = frame.id]
               /\ UNCHANGED dataCh
      <4>1. /\ task' \in [Request -> TaskRecord] /\ task'[frame.body].pc = "spawned"
            /\ task'[frame.body].id = frame.id
            /\ \A q \in Request : q # frame.body => task'[q] = task[q]
        BY <1>0, <2>3, <3>1, TaskSpawns, Zenon
      <4>2. TaskOK(task'[frame.body])
        BY <1>client, <2>3, <4>1
      <4> QED BY <1>client, <1>keeps, <2>1, <2>3, <3>1, <4>1, <4>2, Zenon
    <3>2. CASE deliverStreamData(frame) /\ UNCHANGED task
      <4>1. <<frame.body>> \in Seq(Request)
        BY <2>3
      <4>2. dataCh' \in [Request -> Seq(Request)]
        BY <1>client, <3>2, <4>1 DEF deliverStreamData
      <4> QED BY <1>0, <2>1, <3>2, <4>2 DEF ClientTypeOK
    <3> QED BY <2>1, <3>1, <3>2
  <2> QED BY <2>1, <2>4, <2>5, TypeFrames DEF TypeOK
<1>2. CASE ClientReadError
  <2>1. /\ clientDone' = TRUE
        /\ UNCHANGED <<handlerVars, channelVars, loop, wireVars, pendingStreams, dataCh, task, hung>>
    BY <1>2 DEF ClientReadError
  <2>2. ClientTypeOK'
    BY <1>0, <2>1 DEF ClientTypeOK
  <2> QED BY <2>1, <2>2, TypeFrames DEF TypeOK
<1>3. ASSUME NEW r \in Request, TaskStep(r) PROVE TypeOK'
  <2> DEFINE Rest == UNCHANGED <<handlerVars, channelVars, loop, link, toClient, clientDone, hung>>
  <2>frames. \A t \in {"open", "data", "close"} : task[r].pc \in {"respond", "close"} =>
               [type |-> t, id |-> task[r].id, body |-> task[r].envelope] \in Frame
    BY <1>client, <1>tasks DEF TaskRecord, Frame
  <2>moves. ASSUME NEW from \in TaskPC, NEW to \in TaskPC, Step(r, from, to),
                   from \notin {"none", "ended"},
                   to \in {"local", "respond", "close"} => from \in {"local", "respond", "close"},
                   DOMAIN pendingStreams' \subseteq StreamID,
                   \A id \in DOMAIN pendingStreams' : pendingStreams'[id] \in Request,
                   UNCHANGED <<dataCh, clientDone, hung>>
            PROVE  ClientTypeOK'
    <3>1. task' = [task EXCEPT ![r].pc = to] /\ task[r].pc = from
      BY <2>moves DEF Step
    <3>2. /\ task' \in [Request -> TaskRecord] /\ task'[r].pc = to
          /\ task'[r].id = task[r].id /\ task'[r].envelope = task[r].envelope
          /\ \A q \in Request : q # r => task'[q] = task[q]
      BY <1>0, <3>1, TaskMoves, Zenon
    <3>3. TaskOK(task'[r])
      BY <1>tasks, <2>moves, <3>1, <3>2
    <3> QED BY <1>client, <1>keeps, <2>moves, <3>2, <3>3, Zenon
  <2>1. CASE Expect(r)
    <3>1. /\ Step(r, "spawned", "waiting") /\ pendingStreams' = Put(pendingStreams, task[r].id, r)
          /\ UNCHANGED <<dataCh, toServer>> /\ Rest
      BY <2>1 DEF Expect
    <3>2. task[r].id \in StreamID
      BY <1>client, <1>tasks, <3>1, Zenon DEF Step, TaskRecord
    <3>3. /\ DOMAIN pendingStreams' \subseteq StreamID
          /\ \A id \in DOMAIN pendingStreams' : pendingStreams'[id] \in Request
      BY <1>client, <3>1, <3>2, Zenon DEF Put
    <3>4. ClientTypeOK'
      BY <2>moves, <3>1, <3>3 DEF TaskPC
    <3> QED BY <3>1, <3>4, TypeFrames DEF TypeOK
  <2>2. CASE TakeData(r)
    <3>1. /\ task[r].pc = "waiting" /\ dataCh[r] # <<>>
          /\ task' = [task EXCEPT ![r].pc = "local", ![r].envelope = Head(dataCh[r])]
          /\ dataCh' = [dataCh EXCEPT ![r] = Tail(dataCh[r])]
          /\ UNCHANGED <<pendingStreams, toServer>> /\ Rest
      BY <2>2 DEF TakeData
    <3>2. Head(dataCh[r]) \in Request /\ Tail(dataCh[r]) \in Seq(Request)
      BY <1>client, <3>1
    <3>3. /\ task' \in [Request -> TaskRecord] /\ task'[r].pc = "local"
          /\ task'[r].id = task[r].id /\ task'[r].envelope = Head(dataCh[r])
          /\ \A q \in Request : q # r => task'[q] = task[q]
      BY <1>0, <3>1, <3>2, TaskTakes, Zenon
    <3>4. TaskOK(task'[r])
      <4>1. task[r].id # None
        BY <1>tasks, <3>1
      <4>2. Head(dataCh[r]) # None
        BY <1>client, <3>2
      <4> QED BY <3>3, <4>1, <4>2
    <3>5. dataCh' \in [Request -> Seq(Request)]
      BY <1>client, <3>1, <3>2
    <3>6. ClientTypeOK'
      BY <1>client, <1>keeps, <3>1, <3>3, <3>4, <3>5, Zenon
    <3> QED BY <3>1, <3>6, TypeFrames DEF TypeOK
  <2>3. CASE GiveUp(r) \/ LocalRequest(r)
    <3>1. PICK from \in {"waiting", "local"}, to \in {"respond", "leaving"} :
            Step(r, from, to) /\ (to = "respond" => from = "local")
      BY <2>3 DEF GiveUp, LocalRequest
    <3>2. UNCHANGED <<pendingStreams, dataCh, toServer>> /\ Rest
      BY <2>3 DEF GiveUp, LocalRequest
    <3>3. ClientTypeOK'
      BY <1>client, <2>moves, <3>1, <3>2 DEF TaskPC
    <3> QED BY <3>2, <3>3, TypeFrames DEF TypeOK
  <2>4. CASE sendStreamData(r) \/ sendCloseStream(r)
    <3>1. PICK from \in {"respond", "close"}, to \in {"close", "leaving"}, t \in {"data", "close"} :
            /\ Step(r, from, to)
            /\ Writes(toServer, [type |-> t, id |-> task[r].id, body |-> task[r].envelope])
      BY <2>4 DEF sendStreamData, sendCloseStream
    <3>2. UNCHANGED <<pendingStreams, dataCh>> /\ Rest
      BY <2>4 DEF sendStreamData, sendCloseStream
    <3>3. ClientTypeOK'
      BY <1>client, <2>moves, <3>1, <3>2 DEF TaskPC
    <3>4. [type |-> t, id |-> task[r].id, body |-> task[r].envelope] \in Frame
      BY <2>frames, <3>1 DEF Step
    <3>5. WireTypeOK'
      BY <1>0, <3>1, <3>2, <3>4 DEF WireTypeOK, Writes
    <3> QED BY <3>2, <3>3, <3>5, TypeFrames DEF TypeOK
  <2>5. CASE Leave(r)
    <3>1. /\ task' = [task EXCEPT ![r] = [pc |-> "ended", id |-> None, envelope |-> None]]
          /\ pendingStreams' = Delete(pendingStreams, {task[r].id})
          /\ UNCHANGED <<dataCh, toServer>> /\ Rest
      BY <2>5 DEF Leave
    <3>2. /\ task' \in [Request -> TaskRecord] /\ task'[r].pc = "ended"
          /\ \A q \in Request : q # r => task'[q] = task[q]
      BY <1>client, <3>1 DEF TaskRecord, TaskPC
    <3>3. /\ DOMAIN pendingStreams' \subseteq StreamID
          /\ \A id \in DOMAIN pendingStreams' : pendingStreams'[id] \in Request
      BY <1>client, <3>1 DEF Delete, Restrict
    <3>4. ClientTypeOK'
      BY <1>client, <1>keeps, <3>1, <3>2, <3>3, Zenon
    <3> QED BY <3>1, <3>4, TypeFrames DEF TypeOK
  <2> QED BY <1>3, <2>1, <2>2, <2>3, <2>4, <2>5 DEF TaskStep
<1> QED BY <1>1, <1>2, <1>3 DEF ClientLoopStep

\* The types are inductive.
LEMMA TypeInductive ==
  ASSUME TypeOK, [Next]_vars
  PROVE  TypeOK'
<1> USE DEF channelVars, handlerVars, wireVars, clientVars
<1>1. CASE ConnectionDrops
  <2>1. /\ link' = "down" /\ UNCHANGED <<handlerVars, channelVars, loop, clientVars>>
        /\ \E n \in 0 .. Len(toClient) : toClient' = SubSeq(toClient, 1, n)
        /\ \E n \in 0 .. Len(toServer) : toServer' = SubSeq(toServer, 1, n)
    BY <1>1 DEF ConnectionDrops
  <2>2. WireTypeOK'
    BY <2>1, QueueCut DEF TypeOK, WireTypeOK
  <2> QED BY <2>1, <2>2, TypeFrames DEF TypeOK
<1>2. CASE Hang
  <2>1. ClientTypeOK'
    BY <1>2 DEF Hang, TypeOK, ClientTypeOK
  <2> QED BY <1>2, <2>1, TypeFrames DEF TypeOK, Hang
<1>3. CASE UNCHANGED vars
  BY <1>3, TypeFrames DEF vars, TypeOK
<1> QED BY <1>1, <1>2, <1>3, HandlerStepType, LoopStepType, ClientStepType DEF Next

\* The exchange starts well-typed.
LEMMA InitTypeOK == Init => TypeOK
<1> SUFFICES ASSUME Init PROVE TypeOK
  OBVIOUS
<1>1. HandlerTypeOK
  <2>1. 0 \in StreamID
    <3>1. IDSpace \in Nat \ {0}
      BY ExchangeAssumption, Zenon
    <3> QED BY <3>1 DEF StreamID
  <2>2. DOMAIN streams = {} /\ nextStreamID = 0
    BY DEF Init, EmptyMap
  <2>3. handler = [r \in Request |-> [pc |-> "idle", id |-> None, outcome |-> None]]
    BY DEF Init
  <2> QED BY <2>1, <2>2, <2>3 DEF HandlerTypeOK, HandlerPC
<1>2. LoopTypeOK /\ WireTypeOK
  BY DEF Init, LoopTypeOK, LoopPC, WireTypeOK
<1>3. ClientTypeOK
  <2>1. DOMAIN pendingStreams = {}
    BY DEF Init, EmptyMap
  <2>2. task = [r \in Request |-> [pc |-> "none", id |-> None, envelope |-> None]]
    BY DEF Init
  <2>3. dataCh = [r \in Request |-> <<>>] /\ clientDone = FALSE /\ hung = FALSE
    BY DEF Init
  <2>4. dataCh \in [Request -> Seq(Request)]
    BY <2>3
  <2>5. task \in [Request -> TaskRecord] /\ \A r \in Request : task[r].pc = "none"
    BY <2>2 DEF TaskRecord, TaskPC
  <2> QED BY <2>1, <2>3, <2>4, <2>5, Zenon DEF ClientTypeOK, TaskRecord
<1> QED BY <1>1, <1>2, <1>3 DEF TypeOK

\* Type correctness of the exchange, for any number of requests, also when
\* stream IDs come round.
THEOREM ExchangeTypeCorrect == Spec => []TypeOK
<1>1. TypeOK /\ [Next]_vars => TypeOK'
  BY TypeInductive
<1> QED BY <1>1, InitTypeOK, PTL DEF Spec
-----------------------------------------------------------------------------
(* The stream table *)

\* The steps of ServeHTTP in which a request is served.
Served == {"open", "reading", "body", "wait", "writing", "answered", "deleting"}

\* What a step of ServeHTTP after OpenStream does to its handler and the table.
LEMMA HandlerEffects ==
  ASSUME TypeOK, NEW r \in Request, ServeStep(r)
  PROVE  /\ \A q \in Request : q # r => handler'[q] = handler[q]
         /\ handler'[r].id = handler[r].id /\ handler[r].id \in StreamID
         /\ UNCHANGED <<nextStreamID, loop, link, toServer, clientVars>>
         /\ \/ /\ handler[r].pc = "inserting" /\ handler'[r].pc = "open"
               /\ streams' = Put(streams, handler[r].id, r)
            \/ /\ handler[r].pc \in Served /\ handler'[r].pc \in Served \ {"open"}
               /\ UNCHANGED streams
            \/ /\ handler[r].pc = "deleting" /\ handler'[r].pc = "finished"
               /\ streams' = Delete(streams, {handler[r].id})
<1> USE DEF wireVars
<1>0. HandlerTypeOK /\ LoopTypeOK
  BY DEF TypeOK
<1>id. handler[r].pc # "idle" => handler[r].id \in StreamID
  BY <1>0 DEF HandlerTypeOK
<1>moves. ASSUME NEW from \in HandlerPC, NEW to \in HandlerPC, Move(r, from, to)
          PROVE  /\ \A q \in Request : q # r => handler'[q] = handler[q]
                 /\ handler'[r].id = handler[r].id /\ handler[r].pc = from /\ handler'[r].pc = to
  BY <1>0, <1>moves, HandlerMoves, Zenon DEF Move
<1>answers. ASSUME NEW from \in HandlerPC, NEW out \in Outcome, Answer(r, from, out)
            PROVE  /\ \A q \in Request : q # r => handler'[q] = handler[q]
                   /\ handler'[r].id = handler[r].id
                   /\ handler[r].pc = from /\ handler'[r].pc \in {"writing", "answered"}
  BY <1>0, <1>answers, HandlerAnswers, ZenonT(30) DEF Answer
<1>1. CASE InsertStream(r)
  BY <1>1, <1>id, <1>moves, Zenon DEF InsertStream, HandlerPC
<1>2. CASE SendOpen(r)
  BY <1>2, <1>id, <1>moves, Zenon DEF SendOpen, HandlerPC, Served
<1>3. CASE SendData(r)
  BY <1>3, <1>id, <1>moves DEF SendData, HandlerPC, Served
<1>4. CASE SendFails(r)
  BY <1>4, <1>id, <1>answers, ZenonT(30) DEF SendFails, HandlerPC, Served, Outcome
<1>5. CASE ReceiveResponse(r)
  <2>1. Head(response[r]) \in Request
    BY <1>0, <1>5 DEF ReceiveResponse, LoopTypeOK
  <2> QED BY <1>5, <1>id, <1>answers, <2>1, Zenon DEF ReceiveResponse, HandlerPC, Served, Outcome
<1>6. CASE SeeDone(r) \/ Timeout(r)
  BY <1>6, <1>id, <1>answers, ZenonT(30) DEF SeeDone, Timeout, HandlerPC, Served, Outcome
<1>7. CASE LockClose(r) \/ WriteResponse(r)
  BY <1>7, <1>id, <1>moves, ZenonT(30) DEF LockClose, WriteResponse, HandlerPC, Served
<1>8. CASE CloseStream(r)
  BY <1>8, <1>id, <1>moves DEF CloseStream, Closes, HandlerPC
<1>9. CASE ReadBody(r)
  <2>1. CASE Move(r, "reading", "body")
    BY <1>9, <1>id, <1>moves, <2>1, Zenon DEF ReadBody, HandlerPC, Served
  <2>2. CASE Answer(r, "reading", "error")
    BY <1>9, <1>id, <1>answers, <2>2, ZenonT(30) DEF ReadBody, HandlerPC, Served, Outcome
  <2> QED BY <1>9, <2>1, <2>2, Zenon DEF ReadBody
<1> QED BY <1>1, <1>2, <1>3, <1>4, <1>5, <1>6, <1>7, <1>8, <1>9, Zenon DEF ServeStep, HandlerStep, VisitorStep

\* Everything else leaves the handlers alone, and at most takes a stream off
\* the table.
LEMMA OtherEffects ==
  ASSUME [Next]_vars, ~(\E r \in Request : OpenStream(r) \/ ServeStep(r))
  PROVE  /\ UNCHANGED <<nextStreamID, handler>>
         /\ \A id \in DOMAIN streams' : id \in DOMAIN streams /\ streams'[id] = streams[id]
<1> USE DEF handlerVars
<1>1. CASE LoopStep
  BY <1>1 DEF LoopStep, ReadFrame, GetStream, DeliverStreamData, handleCloseStream, ReadError,
     RemoveConnection, CloseSocket, Closes, Delete, Restrict
<1>2. CASE ClientLoopStep \/ ConnectionDrops \/ Hang
  BY <1>2 DEF ClientLoopStep, ClientRead, ClientReadError, ConnectionDrops, Hang
<1>3. ASSUME NEW r \in Request, TaskStep(r)
      PROVE  UNCHANGED handlerVars
  BY <1>3 DEF TaskStep, Expect, TakeData, GiveUp, LocalRequest, sendStreamData,
     sendCloseStream, Leave
<1>4. CASE UNCHANGED vars
  BY <1>4 DEF vars
<1> QED BY <1>1, <1>2, <1>3, <1>4 DEF Next

\* A stream in the table is one of a request being served, filed under its ID.
LEMMA StreamsInductive ==
  ASSUME TypeOK, StreamsOwn, [Next]_vars
  PROVE  StreamsOwn'
<1> USE DEF Served
<1>0. \A id \in DOMAIN streams : streams[id] \in Request
  BY DEF TypeOK, HandlerTypeOK
<1>1. ASSUME NEW r \in Request, OpenStream(r) PROVE StreamsOwn'
  <2>1. /\ \A q \in Request : q # r => handler'[q] = handler[q]
        /\ handler[r].pc = "idle" /\ UNCHANGED streams
    BY <1>1, HandlerOpens, Zenon DEF OpenStream, TypeOK
  <2>2. \A id \in DOMAIN streams : streams[id] # r
    BY <2>1, Zenon DEF StreamsOwn
  <2> QED BY <1>0, <2>1, <2>2 DEF StreamsOwn
<1>2. ASSUME NEW r \in Request, ServeStep(r) PROVE StreamsOwn'
  <2>1. /\ \A q \in Request : q # r => handler'[q] = handler[q]
        /\ handler'[r].id = handler[r].id
    BY <1>2, HandlerEffects, Zenon
  <2>2. CASE /\ handler[r].pc = "inserting" /\ handler'[r].pc = "open"
             /\ streams' = Put(streams, handler[r].id, r)
    BY <1>0, <2>1, <2>2 DEF StreamsOwn, Put
  <2>3. CASE handler'[r].pc \in Served /\ UNCHANGED streams
    BY <1>0, <2>1, <2>3 DEF StreamsOwn
  <2>4. CASE handler'[r].pc = "finished" /\ streams' = Delete(streams, {handler[r].id})
    BY <1>0, <2>1, <2>4 DEF StreamsOwn, Delete, Restrict
  <2> QED BY <1>2, <2>2, <2>3, <2>4, HandlerEffects
<1>3. CASE ~(\E r \in Request : OpenStream(r) \/ ServeStep(r))
  BY <1>0, <1>3, OtherEffects DEF StreamsOwn
<1> QED BY <1>1, <1>2, <1>3

\* A stream is out of the table when its ServeHTTP has returned, for any
\* number of requests, also when stream IDs come round.
THEOREM StreamsDoNotLeak == Spec => []NoStreamLeaks
<1>1. Init => StreamsOwn
  BY DEF Init, StreamsOwn, EmptyMap
<1>2. TypeOK /\ StreamsOwn /\ [Next]_vars => StreamsOwn'
  BY StreamsInductive
<1>3. StreamsOwn => NoStreamLeaks
  BY Zenon DEF StreamsOwn, NoStreamLeaks
<1> QED BY <1>1, <1>2, <1>3, ExchangeTypeCorrect, PTL DEF Spec
-----------------------------------------------------------------------------
(* What the steps do with frames *)

OpenFrame(r) == [type |-> "open", id |-> handler[r].id, body |-> r]
DataFrame(r) == [type |-> "data", id |-> handler[r].id, body |-> r]

\* What a step of ServeHTTP writes.
LEMMA HandlerSends ==
  ASSUME TypeOK, NEW r \in Request, ServeStep(r)
  PROVE  \/ UNCHANGED toClient
         \/ /\ handler[r].pc = "open" /\ handler'[r].pc = "reading"
            /\ toClient' = Append(toClient, OpenFrame(r))
         \/ handler[r].pc # "idle" /\ toClient' = Append(toClient, DataFrame(r))
<1> USE DEF wireVars
<1>1. CASE SendOpen(r)
  <2>1. handler[r].pc = "open" /\ handler'[r].pc = "reading"
    BY <1>1, HandlerMoves, Zenon DEF SendOpen, Move, TypeOK, HandlerPC
  <2> QED BY <1>1, <2>1 DEF SendOpen, Writes, OpenFrame
<1>2. CASE SendData(r)
  BY <1>2 DEF SendData, Writes, DataFrame, Move
<1>3. CASE \/ InsertStream(r) \/ SendFails(r) \/ ReceiveResponse(r) \/ SeeDone(r)
           \/ Timeout(r) \/ LockClose(r) \/ CloseStream(r) \/ ReadBody(r) \/ WriteResponse(r)
  BY <1>3, ZenonT(30) DEF InsertStream, SendFails, ReceiveResponse, SeeDone, Timeout, LockClose, CloseStream,
     ReadBody, WriteResponse
<1> QED BY <1>1, <1>2, <1>3 DEF ServeStep, HandlerStep, VisitorStep

\* What a step of ServeHTTP takes from its channel and answers.
LEMMA HandlerReceives ==
  ASSUME TypeOK, NEW r \in Request, ServeStep(r)
  PROVE  \/ /\ UNCHANGED response
            /\ handler'[r].outcome \in {handler[r].outcome, "error", "stream closed"}
         \/ /\ response[r] # <<>> /\ response' = [response EXCEPT ![r] = Tail(response[r])]
            /\ handler'[r].outcome = Head(response[r])
<1> USE DEF channelVars
<1>0. HandlerTypeOK /\ LoopTypeOK
  BY DEF TypeOK
<1>1. CASE ReceiveResponse(r)
  <2>1. /\ response[r] # <<>> /\ response' = [response EXCEPT ![r] = Tail(response[r])]
        /\ Answer(r, "wait", Head(response[r]))
    BY <1>1 DEF ReceiveResponse
  <2>2. Head(response[r]) \in Request
    BY <1>0, <2>1 DEF LoopTypeOK
  <2>3. Head(response[r]) \in Outcome
    BY <2>2, Zenon DEF Outcome
  <2> QED BY <1>0, <2>1, <2>3, HandlerAnswers, Zenon
<1>2. CASE SendFails(r) \/ SeeDone(r) \/ Timeout(r) \/ (ReadBody(r) /\ Answer(r, "reading", "error"))
  <2>1. PICK from \in {"open", "reading", "body", "wait"}, out \in {"error", "stream closed"} :
          Answer(r, from, out)
    BY <1>2, Zenon DEF SendFails, SeeDone, Timeout
  <2>2. UNCHANGED response
    BY <1>2, Zenon DEF SendFails, SeeDone, Timeout, ReadBody
  <2> QED BY <1>0, <2>1, <2>2, HandlerAnswers, Zenon DEF Outcome
<1>3. CASE \/ InsertStream(r) \/ SendOpen(r) \/ SendData(r) \/ LockClose(r) \/ CloseStream(r)
           \/ WriteResponse(r) \/ (ReadBody(r) /\ Move(r, "reading", "body"))
  <2>1. PICK to \in HandlerPC : handler' = [handler EXCEPT ![r].pc = to]
    BY <1>3 DEF InsertStream, SendOpen, SendData, LockClose, CloseStream, WriteResponse, Move, HandlerPC
  <2>2. UNCHANGED response
    BY <1>3 DEF InsertStream, SendOpen, SendData, LockClose, CloseStream, WriteResponse, ReadBody
  <2> QED BY <1>0, <2>1, <2>2, HandlerMoves
<1>4. ReadBody(r) => Move(r, "reading", "body") \/ Answer(r, "reading", "error")
  BY Zenon DEF ReadBody
<1> QED BY <1>1, <1>2, <1>3, <1>4, Zenon DEF ServeStep, HandlerStep, VisitorStep

\* Writing adds one frame at the end.
LEMMA QueueWrites ==
  ASSUME NEW S, NEW q \in Seq(S), NEW x
  PROVE  /\ DOMAIN Append(q, x) = DOMAIN q \cup {Len(q) + 1} /\ Len(q) + 1 \notin DOMAIN q
         /\ Append(q, x)[Len(q) + 1] = x
         /\ \A i \in DOMAIN q : Append(q, x)[i] = q[i]
OBVIOUS

\* What a step of the gateway's read loop does with frames: it reads one, finds
\* the stream of an answer, puts the answer in the stream's Response channel, or
\* has none in hand any more.
LEMMA LoopEffects ==
  ASSUME TypeOK, LoopStep
  PROVE  /\ UNCHANGED <<handler, toClient, clientVars>>
         /\ \/ /\ toServer # <<>> /\ toServer' = Tail(toServer) /\ UNCHANGED response
               /\ loop.frame = None /\ loop'.frame = Head(toServer)
               /\ loop'.stream = None /\ loop'.pc # "deliver"
            \/ /\ loop.frame # None /\ loop.frame.type = "data" /\ loop.frame.id \in DOMAIN streams
               /\ loop'.frame = loop.frame /\ loop'.stream = streams[loop.frame.id]
               /\ UNCHANGED <<toServer, response>>
            \/ /\ loop'.frame = None /\ loop'.stream = None /\ loop'.pc # "deliver"
               /\ UNCHANGED <<toServer, response>>
            \/ /\ loop.pc = "deliver" /\ loop.frame # None /\ loop.stream \in Request
               /\ loop'.frame = None /\ loop'.stream = None /\ loop'.pc # "deliver"
               /\ response' = [response EXCEPT ![loop.stream] = <<loop.frame.body>>]
               /\ UNCHANGED toServer
<1> USE DEF handlerVars, channelVars, wireVars, clientVars
<1>0. /\ loop \in LoopRecord
      /\ loop.frame # None <=> loop.pc \in {"handle", "deliver"}
      /\ loop.stream # None <=> loop.pc = "deliver"
  BY DEF TypeOK, LoopTypeOK, LoopRecord
<1>1. CASE ReadFrame
  <2>1. /\ loop'.frame = Head(toServer) /\ loop'.stream = loop.stream /\ loop'.pc = "handle"
    BY <1>0, <1>1 DEF ReadFrame, LoopRecord
  <2> QED BY <1>0, <1>1, <2>1 DEF ReadFrame
<1>2. CASE GetStream
  <2>1. \/ /\ loop.frame.id \in DOMAIN streams /\ loop'.frame = loop.frame
           /\ loop'.stream = streams[loop.frame.id]
        \/ loop'.frame = None /\ loop'.stream = loop.stream /\ loop'.pc # "deliver"
    BY <1>0, <1>2, ZenonT(30) DEF GetStream, LoopRecord
  <2> QED BY <1>0, <1>2, <2>1 DEF GetStream
<1>3. CASE DeliverStreamData
  <2>1. /\ loop'.frame = None /\ loop'.stream = None /\ loop'.pc = "read"
    BY <1>3, Zenon DEF DeliverStreamData
  <2>2. loop.stream \in Request
    BY <1>0, <1>3 DEF DeliverStreamData, LoopRecord
  <2> QED BY <1>0, <1>3, <2>1, <2>2, Zenon DEF DeliverStreamData
<1>4. CASE handleCloseStream \/ ReadError \/ RemoveConnection \/ CloseSocket
  <2>1. /\ loop'.frame = None /\ loop'.stream = None /\ loop'.pc # "deliver"
    BY <1>0, <1>4, Zenon DEF handleCloseStream, ReadError, RemoveConnection, CloseSocket, LoopRecord
  <2> QED BY <1>4, <2>1 DEF handleCloseStream, ReadError, RemoveConnection, CloseSocket
<1> QED BY <1>1, <1>2, <1>3, <1>4, Zenon DEF LoopStep

Reply(r, type) == [type |-> type, id |-> task[r].id, body |-> task[r].envelope]

\* What a step of a handler goroutine of the client does to its own state, to
\* the table of pending streams, to its channel and to the wire.
LEMMA TaskEffects ==
  ASSUME TypeOK, NEW r \in Request, TaskStep(r)
  PROVE  /\ UNCHANGED <<handler, response, loop, toClient>>
         /\ \A q \in Request : q # r => task'[q] = task[q]
         /\ task'[r].id \in {task[r].id, None} /\ task[r].pc # "none" /\ task'[r].pc # "none"
         /\ Sent(r) => Sent(r)'
         /\ \A id \in DOMAIN pendingStreams' :
              \/ id \in DOMAIN pendingStreams /\ pendingStreams'[id] = pendingStreams[id]
              \/ task[r].id # None /\ id = task[r].id /\ pendingStreams'[id] = r
         /\ \/ UNCHANGED dataCh /\ task'[r].envelope \in {task[r].envelope, None}
            \/ /\ dataCh[r] # <<>> /\ dataCh' = [dataCh EXCEPT ![r] = Tail(dataCh[r])]
               /\ task'[r].envelope = Head(dataCh[r])
         /\ \/ UNCHANGED toServer
            \/ /\ task[r].id # None /\ task[r].envelope # None
               /\ \/ /\ task[r].pc = "respond" /\ task'[r].pc = "close"
                     /\ toServer' = Append(toServer, Reply(r, "data"))
                  \/ toServer' = Append(toServer, Reply(r, "close"))
<1> USE DEF handlerVars, channelVars, wireVars, Sent
<1>0. ClientTypeOK
  BY DEF TypeOK
<1>step. ASSUME NEW from \in TaskPC, NEW to \in TaskPC, Step(r, from, to)
         PROVE  /\ task[r].pc = from /\ task'[r].pc = to /\ task'[r].id = task[r].id
                /\ task'[r].envelope = task[r].envelope
                /\ \A q \in Request : q # r => task'[q] = task[q]
  BY <1>0, <1>step, TaskMoves, Zenon DEF Step
<1>has. /\ task[r].pc \notin {"none", "ended"} => task[r].id # None
        /\ task[r].pc \in {"local", "respond", "close"} => task[r].envelope # None
  BY <1>0 DEF ClientTypeOK
<1>1. CASE Expect(r)
  <2>1. /\ Step(r, "spawned", "waiting") /\ pendingStreams' = Put(pendingStreams, task[r].id, r)
        /\ UNCHANGED <<handler, response, loop, toClient, toServer, dataCh>>
    BY <1>1 DEF Expect
  <2>2. task[r].pc = "spawned" /\ task'[r].pc = "waiting" /\ task'[r].id = task[r].id
        /\ task'[r].envelope = task[r].envelope /\ \A q \in Request : q # r => task'[q] = task[q]
    BY <1>step, <2>1, ZenonT(30) DEF TaskPC
  <2>3. \A id \in DOMAIN pendingStreams' :
              \/ id \in DOMAIN pendingStreams /\ pendingStreams'[id] = pendingStreams[id]
              \/ id = task[r].id /\ pendingStreams'[id] = r
    BY <2>1 DEF Put
  <2> QED BY <1>has, <2>1, <2>2, <2>3, Zenon
<1>2. CASE TakeData(r)
  <2>1. /\ task[r].pc = "waiting" /\ dataCh[r] # <<>>
        /\ task' = [task EXCEPT ![r].pc = "local", ![r].envelope = Head(dataCh[r])]
        /\ dataCh' = [dataCh EXCEPT ![r] = Tail(dataCh[r])]
        /\ UNCHANGED <<handler, response, loop, toClient, toServer, pendingStreams>>
    BY <1>2 DEF TakeData
  <2>2. Head(dataCh[r]) \in Request
    BY <1>0, <2>1 DEF ClientTypeOK
  <2> QED BY <1>0, <2>1, <2>2, TaskTakes, Zenon
<1>3. CASE GiveUp(r) \/ LocalRequest(r)
  <2>1. /\ \E from, to \in TaskPC : /\ from \in {"waiting", "local"} /\ to \in {"respond", "leaving"}
                                    /\ Step(r, from, to)
        /\ UNCHANGED <<handler, response, loop, toClient, toServer, pendingStreams, dataCh>>
    BY <1>3, Zenon DEF GiveUp, LocalRequest, TaskPC
  <2> QED BY <1>step, <2>1, Zenon
<1>4. CASE sendStreamData(r)
  <2>1. /\ Step(r, "respond", "close") /\ Writes(toServer, Reply(r, "data"))
        /\ UNCHANGED <<handler, response, loop, toClient, pendingStreams, dataCh>>
    BY <1>4 DEF sendStreamData, Reply
  <2>2. /\ task[r].pc = "respond" /\ task'[r].pc = "close" /\ task'[r].id = task[r].id
        /\ task'[r].envelope = task[r].envelope /\ \A q \in Request : q # r => task'[q] = task[q]
    BY <1>step, <2>1, ZenonT(30) DEF TaskPC
  <2> QED BY <1>has, <2>1, <2>2 DEF Writes
<1>5. CASE sendCloseStream(r)
  <2>1. /\ Step(r, "close", "leaving") /\ Writes(toServer, Reply(r, "close"))
        /\ UNCHANGED <<handler, response, loop, toClient, pendingStreams, dataCh>>
    BY <1>5 DEF sendCloseStream, Reply
  <2>2. /\ task[r].pc = "close" /\ task'[r].pc = "leaving" /\ task'[r].id = task[r].id
        /\ task'[r].envelope = task[r].envelope /\ \A q \in Request : q # r => task'[q] = task[q]
    BY <1>step, <2>1, ZenonT(30) DEF TaskPC
  <2> QED BY <1>has, <2>1, <2>2, Zenon DEF Writes
<1>6. CASE Leave(r)
  <2>1. /\ task[r].pc = "leaving" /\ pendingStreams' = Delete(pendingStreams, {task[r].id})
        /\ task' = [task EXCEPT ![r] = [pc |-> "ended", id |-> None, envelope |-> None]]
        /\ UNCHANGED <<handler, response, loop, toClient, toServer, dataCh>>
    BY <1>6 DEF Leave
  <2>2. /\ task'[r] = [pc |-> "ended", id |-> None, envelope |-> None]
        /\ \A q \in Request : q # r => task'[q] = task[q]
    BY <1>0, <2>1, Zenon DEF ClientTypeOK
  <2>3. \A id \in DOMAIN pendingStreams' :
          id \in DOMAIN pendingStreams /\ pendingStreams'[id] = pendingStreams[id]
    BY <2>1, Zenon DEF Delete, Restrict
  <2> QED BY <2>1, <2>2, <2>3
<1> QED BY <1>1, <1>2, <1>3, <1>4, <1>5, <1>6, Zenon DEF TaskStep

\* What the client's read loop does with the first frame under way: it starts
\* the request's handler goroutine, or hands the envelope to the one that waits.
LEMMA ClientReadEffects ==
  ASSUME TypeOK, ClientRead
  PROVE  LET frame == Head(toClient)
         IN  /\ toClient # <<>> /\ toClient' = Tail(toClient) /\ frame \in Frame
             /\ UNCHANGED <<handler, response, loop, toServer, pendingStreams>>
             /\ \/ /\ frame.type = "open" /\ UNCHANGED dataCh
                   /\ \A q \in Request : q # frame.body => task'[q] = task[q]
                   /\ task'[frame.body].pc = "spawned" /\ task'[frame.body].id = frame.id
                   /\ task'[frame.body].envelope = task[frame.body].envelope
                \/ /\ frame.type = "data" /\ UNCHANGED task
                   /\ \/ UNCHANGED dataCh
                      \/ /\ frame.id \in DOMAIN pendingStreams
                         /\ dataCh' = [dataCh EXCEPT ![pendingStreams[frame.id]] = <<frame.body>>]
<1> USE DEF handlerVars, channelVars
<1> DEFINE frame == Head(toClient)
<1>1. toClient # <<>> /\ toClient' = Tail(toClient)
      /\ UNCHANGED <<handler, response, loop, toServer, pendingStreams>>
  BY DEF ClientRead
<1>2. frame \in Frame /\ frame.id \in StreamID /\ frame.body \in Request
  <2>1. frame \in Frame
    BY <1>1, QueueReads, Zenon DEF TypeOK, WireTypeOK
  <2> QED BY <2>1 DEF Frame
<1>3. \/ /\ frame.type = "open" /\ UNCHANGED dataCh
         /\ task' = [task EXCEPT ![frame.body].pc = "spawned", ![frame.body].id = frame.id]
      \/ /\ frame.type = "data" /\ UNCHANGED task
         /\ \/ UNCHANGED dataCh
            \/ /\ frame.id \in DOMAIN pendingStreams
               /\ dataCh' = [dataCh EXCEPT ![pendingStreams[frame.id]] = <<frame.body>>]
  BY DEF ClientRead, deliverStreamData
<1> HIDE DEF frame
<1>4. CASE /\ frame.type = "open" /\ UNCHANGED dataCh
           /\ task' = [task EXCEPT ![frame.body].pc = "spawned", ![frame.body].id = frame.id]
  <2>1. /\ task'[frame.body].pc = "spawned" /\ task'[frame.body].id = frame.id
        /\ task'[frame.body].envelope = task[frame.body].envelope
        /\ \A q \in Request : q # frame.body => task'[q] = task[q]
    BY <1>2, <1>4, TaskSpawns, ZenonT(30) DEF TypeOK
  <2> QED BY <1>1, <1>2, <1>4, <2>1, Zenon DEF frame
<1> QED BY <1>1, <1>2, <1>3, <1>4 DEF frame

\* What is left of the frames under way when the connection breaks is a prefix.
LEMMA DropEffects ==
  ASSUME TypeOK, ConnectionDrops
  PROVE  /\ UNCHANGED <<handler, response, loop, pendingStreams, dataCh, task>>
         /\ \A i \in DOMAIN toClient' : i \in DOMAIN toClient /\ toClient'[i] = toClient[i]
         /\ \A i \in DOMAIN toServer' : i \in DOMAIN toServer /\ toServer'[i] = toServer[i]
<1>1. toClient \in Seq(Frame) /\ toServer \in Seq(Frame)
  BY DEF TypeOK, WireTypeOK
<1>2. PICK n \in 0 .. Len(toClient) : toClient' = SubSeq(toClient, 1, n)
  BY DEF ConnectionDrops
<1>3. PICK m \in 0 .. Len(toServer) : toServer' = SubSeq(toServer, 1, m)
  BY DEF ConnectionDrops
<1>4. \A i \in DOMAIN toClient' : i \in DOMAIN toClient /\ toClient'[i] = toClient[i]
  BY <1>1, <1>2, QueueCut
<1>5. \A i \in DOMAIN toServer' : i \in DOMAIN toServer /\ toServer'[i] = toServer[i]
  BY <1>1, <1>3, QueueCut
<1>6. UNCHANGED <<handler, response, loop, pendingStreams, dataCh, task>>
  BY DEF ConnectionDrops, handlerVars, channelVars, clientVars
<1> QED BY <1>4, <1>5, <1>6
=============================================================================
