------------------------------ MODULE Exchange ------------------------------
(***************************************************************************)
(* The data plane of one client connection: public requests that the       *)
(* gateway has routed to it (ServeHTTP from OpenStream on), the stream     *)
(* table of the connection (internal/broker), the gateway's read loop      *)
(* (internal/server), the two directions of the WebSocket, and the         *)
(* client's read loop and its one handler goroutine per request            *)
(* (internal/client).  Both ends have finished registration.               *)
(*                                                                         *)
(* The body of a message is abstracted to the request it belongs to: the   *)
(* envelope of request r, and the answer of the local service to r, are r. *)
(* A 30 second timer may fire at any moment.                               *)
(***************************************************************************)
EXTENDS Integers, Sequences, FiniteSets, Maps

CONSTANTS
  Request,  \* public requests
  IDSpace,  \* number of stream IDs, 2^32 in the code
  Room,     \* frames each direction of the socket buffers before a write blocks
  BreakAt,  \* bound: the connection may break when this many requests have come
  HangAt,   \* bound: the client's process may hang when this many have come
  None      \* no value

StreamID == 0 .. IDSpace - 1

Frame == [type : {"open", "data", "close"}, id : StreamID, body : Request]

ASSUME ExchangeAssumption ==
  /\ IDSpace \in Nat \ {0}
  /\ Room \in Nat \ {0}
  /\ BreakAt \subseteq Nat /\ HangAt \subseteq Nat
  /\ None \notin Request \cup StreamID \cup Frame
  /\ {"stream closed", "error"} \cap Request = {}

VARIABLES
  nextStreamID,    \* Broker.nextStreamID
  streams,         \* ClientConn.Streams: stream ID -> the request that opened it
  handler,         \* ServeHTTP of each request: pc, stream ID, outcome
  response, done,  \* the Response and Done channels of each request's stream
  loop,            \* the gateway's read loop: pc, frame in hand, stream found
  link,            \* "up" or "down"
  toClient, toServer,
  pendingStreams,  \* Client.pendingStreams: stream ID -> handler goroutine
  dataCh,          \* the channel of each handler goroutine
  task,            \* handleOpenStream for each request: pc, stream ID, envelope
  clientDone,      \* Client.done is closed
  hung             \* the client's process is suspended, or its host is gone

handlerVars == <<nextStreamID, streams, handler>>
channelVars == <<response, done>>
wireVars == <<link, toClient, toServer>>
clientVars == <<pendingStreams, dataCh, task, clientDone, hung>>
vars == <<nextStreamID, streams, handler, response, done, loop, link, toClient,
          toServer, pendingStreams, dataCh, task, clientDone, hung>>

Arrived == Cardinality({r \in Request : handler[r].pc # "idle"})

Init ==
  /\ nextStreamID = 0
  /\ streams = EmptyMap
  /\ handler = [r \in Request |-> [pc |-> "idle", id |-> None, outcome |-> None]]
  /\ response = [r \in Request |-> <<>>]
  /\ done = [r \in Request |-> FALSE]
  /\ loop = [pc |-> "read", frame |-> None, stream |-> None]
  /\ link = "up"
  /\ toClient = <<>> /\ toServer = <<>>
  /\ pendingStreams = EmptyMap
  /\ dataCh = [r \in Request |-> <<>>]
  /\ task = [r \in Request |-> [pc |-> "none", id |-> None, envelope |-> None]]
  /\ clientDone = FALSE
  /\ hung = FALSE
-----------------------------------------------------------------------------
(* The socket.  A write blocks while the buffers are full.  On a broken    *)
(* connection it fails, or succeeds for the last time with the frame lost. *)

Writes(queue, frame) ==
  \/ link = "up" /\ Len(queue) < Room /\ queue' = Append(queue, frame)
  \/ link = "down" /\ UNCHANGED queue

\* The connection breaks; of what is under way each side still gets a prefix.
ConnectionDrops ==
  /\ Arrived \in BreakAt
  /\ link = "up" /\ link' = "down"
  /\ \E n \in 0 .. Len(toClient) : toClient' = SubSeq(toClient, 1, n)
  /\ \E n \in 0 .. Len(toServer) : toServer' = SubSeq(toServer, 1, n)
  /\ UNCHANGED <<handlerVars, channelVars, loop, clientVars>>
-----------------------------------------------------------------------------
(* ServeHTTP *)

\* Some handler is inside OpenStream or CloseStream, with conn.mu locked.
MapBusy == \E r \in Request : handler[r].pc \in {"inserting", "deleting"}

\* The Go runtime has aborted the gateway: no goroutine of it runs any more.
Crashed == loop.pc = "crashed"

Move(r, from, to) ==
  handler[r].pc = from /\ ~Crashed /\ handler' = [handler EXCEPT ![r].pc = to]

\* The visitor is answered: with 502 because the stream was closed, with another
\* 502 or 504 ("error"), which fit in net/http's buffer, or with the response of
\* a request, which remains to be written.  The deferred CloseStream comes next.
Answer(r, from, outcome) ==
  /\ handler[r].pc = from /\ ~Crashed
  /\ handler' = [handler EXCEPT ![r].pc = IF outcome \in Request THEN "writing" ELSE "answered",
                                ![r].outcome = outcome]

\* Bug variant: a counter wider than the stream ID.
OpenStream_NoWrap(r) ==
  /\ handler[r].pc = "idle" /\ ~Crashed /\ ~MapBusy
  /\ nextStreamID' = nextStreamID + 1
  /\ handler' = [handler EXCEPT ![r].pc = "inserting", ![r].id = nextStreamID']
  /\ UNCHANGED <<streams, channelVars, loop, wireVars, clientVars>>

\* Bug variant: the ID is the size of the table instead of a counter.
OpenStream_CountsTable(r) ==
  LET id == Cardinality(DOMAIN streams) % IDSpace
  IN  /\ handler[r].pc = "idle" /\ ~Crashed /\ ~MapBusy
      /\ handler' = [handler EXCEPT ![r].pc = "inserting", ![r].id = id]
      /\ UNCHANGED <<nextStreamID, streams, channelVars, loop, wireVars, clientVars>>

\* OpenStream takes an ID and locks conn.mu ...
OpenStream(r) ==
  LET id == (nextStreamID + 1) % IDSpace
  IN  /\ handler[r].pc = "idle" /\ ~Crashed /\ ~MapBusy
      /\ nextStreamID' = id
      /\ handler' = [handler EXCEPT ![r].pc = "inserting", ![r].id = id]
      /\ UNCHANGED <<streams, channelVars, loop, wireVars, clientVars>>

\* ... and enters the stream in the table.
InsertStream(r) ==
  /\ Move(r, "inserting", "open")
  /\ streams' = Put(streams, handler[r].id, r)
  /\ UNCHANGED <<nextStreamID, channelVars, loop, wireVars, clientVars>>

SendOpen(r) ==
  /\ Move(r, "open", "reading")
  /\ loop.pc # "closed"
  /\ Writes(toClient, [type |-> "open", id |-> handler[r].id, body |-> r])
  /\ UNCHANGED <<nextStreamID, streams, channelVars, loop, link, toServer, clientVars>>

\* io.ReadAll: the visitor sends the rest of the body, or its connection fails
\* and the answer is 502.  No deadline is set on it.
ReadBody(r) ==
  /\ Move(r, "reading", "body") \/ Answer(r, "reading", "error")
  /\ UNCHANGED <<nextStreamID, streams, channelVars, loop, wireVars, clientVars>>

SendData(r) ==
  /\ Move(r, "body", "wait")
  /\ loop.pc # "closed"
  /\ Writes(toClient, [type |-> "data", id |-> handler[r].id, body |-> r])
  /\ UNCHANGED <<nextStreamID, streams, channelVars, loop, link, toServer, clientVars>>

\* A write fails: 502.
SendFails(r) ==
  /\ Answer(r, "open", "error") \/ Answer(r, "body", "error")
  /\ link = "down"
  /\ UNCHANGED <<nextStreamID, streams, channelVars, loop, wireVars, clientVars>>

\* The select of lines 169-181: every case that is ready may be taken.
ReceiveResponse(r) ==
  /\ response[r] # <<>>
  /\ Answer(r, "wait", Head(response[r]))
  /\ response' = [response EXCEPT ![r] = Tail(@)]
  /\ UNCHANGED <<nextStreamID, streams, done, loop, wireVars, clientVars>>

SeeDone(r) ==
  /\ done[r]
  /\ Answer(r, "wait", "stream closed")
  /\ UNCHANGED <<nextStreamID, streams, channelVars, loop, wireVars, clientVars>>

\* Bug variant: no timer.
Timeout_Never(r) == FALSE /\ UNCHANGED vars

Timeout(r) ==
  /\ Answer(r, "wait", "error")
  /\ UNCHANGED <<nextStreamID, streams, channelVars, loop, wireVars, clientVars>>

\* w.Write: the visitor takes the response, or its connection fails.  No deadline
\* is set on it either.
WriteResponse(r) ==
  /\ Move(r, "writing", "answered")
  /\ UNCHANGED <<nextStreamID, streams, channelVars, loop, wireVars, clientVars>>

\* What CloseStream does to the table and the stream, under conn.mu.
Closes(id) ==
  /\ done' = IF id \in DOMAIN streams THEN [done EXCEPT ![streams[id]] = TRUE] ELSE done
  /\ streams' = Delete(streams, {id})

LockClose(r) ==
  /\ Move(r, "answered", "deleting")
  /\ ~MapBusy
  /\ UNCHANGED <<nextStreamID, streams, channelVars, loop, wireVars, clientVars>>

\* Bug variant: the stream is closed and stays in the table.
CloseStream_KeepsEntry(r) ==
  /\ Move(r, "deleting", "finished")
  /\ done' = [done EXCEPT ![r] = TRUE]
  /\ UNCHANGED <<nextStreamID, streams, response, loop, wireVars, clientVars>>

CloseStream(r) ==
  /\ Move(r, "deleting", "finished")
  /\ Closes(handler[r].id)
  /\ UNCHANGED <<nextStreamID, response, loop, wireVars, clientVars>>
-----------------------------------------------------------------------------
(* The gateway's read loop *)

ReadFrame ==
  /\ loop.pc = "read" /\ toServer # <<>>
  /\ loop' = [loop EXCEPT !.pc = "handle", !.frame = Head(toServer)]
  /\ toServer' = Tail(toServer)
  /\ UNCHANGED <<handlerVars, channelVars, link, toClient, clientVars>>

\* getStream reads the map without conn.mu.  If a handler is changing the map
\* at that moment the runtime aborts the program, or goes undetected and finds
\* the stream or misses it.
GetStream ==
  /\ loop.pc = "handle" /\ loop.frame.type = "data"
  /\ \/ /\ loop.frame.id \in DOMAIN streams
        /\ loop' = [loop EXCEPT !.pc = "deliver", !.stream = streams[loop.frame.id]]
        /\ UNCHANGED link
     \/ /\ loop.frame.id \notin DOMAIN streams \/ MapBusy
        /\ loop' = [loop EXCEPT !.pc = "read", !.frame = None]
        /\ UNCHANGED link
     \/ /\ MapBusy
        /\ loop' = [loop EXCEPT !.pc = "crashed", !.frame = None]
        /\ link' = "down"
  /\ UNCHANGED <<handlerVars, channelVars, toClient, toServer, clientVars>>

\* deliverStreamData waits until the channel has room or the stream is closed.
DeliverStreamData ==
  /\ loop.pc = "deliver"
  /\ \/ /\ response[loop.stream] = <<>>
        /\ response' = [response EXCEPT ![loop.stream] = <<loop.frame.body>>]
     \/ done[loop.stream] /\ UNCHANGED response
  /\ loop' = [pc |-> "read", frame |-> None, stream |-> None]
  /\ UNCHANGED <<handlerVars, done, wireVars, clientVars>>

handleCloseStream ==
  /\ loop.pc = "handle" /\ loop.frame.type = "close"
  /\ ~MapBusy
  /\ Closes(loop.frame.id)
  /\ loop' = [loop EXCEPT !.pc = "read", !.frame = None]
  /\ UNCHANGED <<nextStreamID, handler, response, wireVars, clientVars>>

\* Bug variant: a read error is treated like a frame that does not decode.
ReadError_Continues ==
  /\ loop.pc = "read" /\ toServer = <<>> /\ link = "down"
  /\ UNCHANGED vars

ReadError ==
  /\ loop.pc = "read" /\ toServer = <<>> /\ link = "down"
  /\ loop' = [loop EXCEPT !.pc = "cleanup"]
  /\ UNCHANGED <<handlerVars, channelVars, wireVars, clientVars>>

\* The streams are closed; the table keeps them.
RemoveConnection ==
  /\ loop.pc = "cleanup"
  /\ ~MapBusy
  /\ done' = [r \in Request |-> done[r] \/ r \in Range(streams)]
  /\ loop' = [loop EXCEPT !.pc = "removed"]
  /\ UNCHANGED <<handlerVars, response, wireVars, clientVars>>

\* handleConnect's deferred ws.Close: from here on every write fails.
CloseSocket ==
  /\ loop.pc = "removed"
  /\ loop' = [loop EXCEPT !.pc = "closed"]
  /\ UNCHANGED <<handlerVars, channelVars, wireVars, clientVars>>
-----------------------------------------------------------------------------
(* The client *)

\* Nothing tells the gateway: the connection stays up and is not read.
Hang ==
  /\ Arrived \in HangAt /\ ~hung /\ hung' = TRUE
  /\ UNCHANGED <<handlerVars, channelVars, loop, wireVars, pendingStreams, dataCh, task,
                 clientDone>>

Step(r, from, to) ==
  task[r].pc = from /\ ~hung /\ task' = [task EXCEPT ![r].pc = to]

\* The envelope goes to the channel of the handler that waits for it; it is
\* dropped if there is none or the channel is full.
deliverStreamData(frame) ==
  LET waiting == frame.id \in DOMAIN pendingStreams
      ch == pendingStreams[frame.id]
  IN  dataCh' = IF waiting /\ dataCh[ch] = <<>>
                THEN [dataCh EXCEPT ![ch] = <<frame.body>>]
                ELSE dataCh

\* readLoop: open_stream starts a handler goroutine, stream_data is delivered.
ClientRead ==
  LET frame == Head(toClient)
  IN  /\ ~clientDone /\ ~hung /\ toClient # <<>>
      /\ toClient' = Tail(toClient)
      /\ \/ /\ frame.type = "open"
            /\ task' = [task EXCEPT ![frame.body].pc = "spawned", ![frame.body].id = frame.id]
            /\ UNCHANGED dataCh
         \/ /\ frame.type = "data"
            /\ deliverStreamData(frame)
            /\ UNCHANGED task
      /\ UNCHANGED <<handlerVars, channelVars, loop, link, toServer, pendingStreams,
                     clientDone, hung>>

ClientReadError ==
  /\ ~clientDone /\ ~hung /\ toClient = <<>> /\ link = "down"
  /\ clientDone' = TRUE
  /\ UNCHANGED <<handlerVars, channelVars, loop, wireVars, pendingStreams, dataCh, task, hung>>

\* handleOpenStream, in a goroutine of its own.
Expect(r) ==
  /\ Step(r, "spawned", "waiting")
  /\ pendingStreams' = Put(pendingStreams, task[r].id, r)
  /\ UNCHANGED <<handlerVars, channelVars, loop, wireVars, dataCh, clientDone, hung>>

TakeData(r) ==
  /\ task[r].pc = "waiting" /\ ~hung /\ dataCh[r] # <<>>
  /\ task' = [task EXCEPT ![r].pc = "local", ![r].envelope = Head(dataCh[r])]
  /\ dataCh' = [dataCh EXCEPT ![r] = Tail(@)]
  /\ UNCHANGED <<handlerVars, channelVars, loop, wireVars, pendingStreams, clientDone, hung>>

\* Bug variant: only the end of the connection stops the wait for the envelope.
GiveUp_OnlyWhenDone(r) ==
  /\ Step(r, "waiting", "leaving")
  /\ clientDone
  /\ UNCHANGED <<handlerVars, channelVars, loop, wireVars, pendingStreams, dataCh,
                 clientDone, hung>>

\* The connection is done, or 30 seconds have passed.
GiveUp(r) ==
  /\ Step(r, "waiting", "leaving")
  /\ UNCHANGED <<handlerVars, channelVars, loop, wireVars, pendingStreams, dataCh,
                 clientDone, hung>>

\* The local service answers or is unavailable, which is answered too; or its
\* answer cannot be read, and nothing is sent.
LocalRequest(r) ==
  /\ Step(r, "local", "respond") \/ Step(r, "local", "leaving")
  /\ UNCHANGED <<handlerVars, channelVars, loop, wireVars, pendingStreams, dataCh,
                 clientDone, hung>>

\* Bug variant: the error path falls through and the answer is sent again.
sendStreamData_Again(r) ==
  /\ Step(r, "respond", "close") \/ Step(r, "respond", "respond")
  /\ Writes(toServer, [type |-> "data", id |-> task[r].id, body |-> task[r].envelope])
  /\ UNCHANGED <<handlerVars, channelVars, loop, link, toClient, pendingStreams,
                 dataCh, clientDone, hung>>

sendStreamData(r) ==
  /\ Step(r, "respond", "close")
  /\ Writes(toServer, [type |-> "data", id |-> task[r].id, body |-> task[r].envelope])
  /\ UNCHANGED <<handlerVars, channelVars, loop, link, toClient, pendingStreams,
                 dataCh, clientDone, hung>>

sendCloseStream(r) ==
  /\ Step(r, "close", "leaving")
  /\ Writes(toServer, [type |-> "close", id |-> task[r].id, body |-> task[r].envelope])
  /\ UNCHANGED <<handlerVars, channelVars, loop, link, toClient, pendingStreams,
                 dataCh, clientDone, hung>>

Leave(r) ==
  /\ task[r].pc = "leaving" /\ ~hung
  /\ task' = [task EXCEPT ![r] = [pc |-> "ended", id |-> None, envelope |-> None]]
  /\ pendingStreams' = Delete(pendingStreams, {task[r].id})
  /\ UNCHANGED <<handlerVars, channelVars, loop, wireVars, dataCh, clientDone, hung>>
-----------------------------------------------------------------------------
HandlerStep(r) ==
  \/ InsertStream(r) \/ SendOpen(r) \/ SendData(r) \/ SendFails(r)
  \/ ReceiveResponse(r) \/ SeeDone(r) \/ Timeout(r) \/ LockClose(r) \/ CloseStream(r)

\* What ServeHTTP cannot do without its visitor.
VisitorStep(r) == ReadBody(r) \/ WriteResponse(r)

ServeStep(r) == HandlerStep(r) \/ VisitorStep(r)

LoopStep ==
  \/ ReadFrame \/ GetStream \/ DeliverStreamData \/ handleCloseStream
  \/ ReadError \/ RemoveConnection \/ CloseSocket

ClientLoopStep == ClientRead \/ ClientReadError

TaskStep(r) ==
  \/ Expect(r) \/ TakeData(r) \/ GiveUp(r) \/ LocalRequest(r)
  \/ sendStreamData(r) \/ sendCloseStream(r) \/ Leave(r)

Next ==
  \/ \E r \in Request : OpenStream(r) \/ ServeStep(r) \/ TaskStep(r)
  \/ LoopStep \/ ClientLoopStep \/ ConnectionDrops \/ Hang

\* Every goroutine that can run does run; those of a client that hangs cannot.
\* Requests need not come, a visitor need not send its body to the end or read
\* its answer, and the connection need not break.
Fairness ==
  /\ \A r \in Request : WF_vars(HandlerStep(r)) /\ WF_vars(TaskStep(r))
  /\ WF_vars(LoopStep) /\ WF_vars(ClientLoopStep)

Spec == Init /\ [][Next]_vars /\ Fairness
-----------------------------------------------------------------------------
HandlerPC == {"idle", "inserting", "open", "reading", "body", "wait", "writing", "answered",
              "deleting", "finished"}
Outcome == Request \cup {"stream closed", "error"}
LoopPC == {"read", "handle", "deliver", "cleanup", "removed", "closed", "crashed"}
TaskPC == {"none", "spawned", "waiting", "local", "respond", "close", "leaving", "ended"}

HandlerTypeOK ==
  /\ nextStreamID \in StreamID
  /\ DOMAIN streams \subseteq StreamID /\ \A id \in DOMAIN streams : streams[id] \in Request
  /\ handler \in [Request -> [pc : HandlerPC, id : StreamID \cup {None},
                              outcome : Outcome \cup {None}]]
  /\ \A r \in Request : handler[r].pc # "idle" => handler[r].id # None

LoopTypeOK ==
  /\ response \in [Request -> Seq(Request)] /\ done \in [Request -> BOOLEAN]
  /\ loop \in [pc : LoopPC, frame : Frame \cup {None}, stream : Request \cup {None}]
  /\ loop.frame # None <=> loop.pc \in {"handle", "deliver"}
  /\ loop.stream # None <=> loop.pc = "deliver"

WireTypeOK == link \in {"up", "down"} /\ toClient \in Seq(Frame) /\ toServer \in Seq(Frame)

ClientTypeOK ==
  /\ DOMAIN pendingStreams \subseteq StreamID
  /\ \A id \in DOMAIN pendingStreams : pendingStreams[id] \in Request
  /\ dataCh \in [Request -> Seq(Request)]
  /\ task \in [Request -> [pc : TaskPC, id : StreamID \cup {None}, envelope : Request \cup {None}]]
  /\ \A r \in Request : task[r].pc \notin {"none", "ended"} => task[r].id # None
  /\ \A r \in Request : task[r].pc \in {"local", "respond", "close"} => task[r].envelope # None
  /\ clientDone \in BOOLEAN /\ hung \in BOOLEAN

\* Every variable has its type; a handler past OpenStream has a stream ID, the
\* read loop has the frame and the stream its next step needs, and the client's
\* handler the stream ID and the envelope it needs.
TypeOK == HandlerTypeOK /\ LoopTypeOK /\ WireTypeOK /\ ClientTypeOK

\* A visitor gets the answer to its own request: neither the concurrency of
\* handlers on both sides, nor a timeout whose answer is still under way, nor a
\* lost connection makes an answer come out of another request's ServeHTTP.
OwnResponse == \A r \in Request : handler[r].outcome \in Request => handler[r].outcome = r

\* The read loop of the gateway never blocks on a stream: the Response channel
\* has room when deliverStreamData gets there.  A slow visitor therefore holds
\* up neither the other streams of the connection nor its heartbeats.
DeliveryNeverBlocks == loop.pc = "deliver" => response[loop.stream] = <<>> \/ done[loop.stream]

\* When ServeHTTP has returned its stream is out of the table, whichever of
\* response, close frame, timeout, write error and disconnection came first.
NoStreamLeaks ==
  \A id \in DOMAIN streams : handler[streams[id]].pc \notin {"idle", "finished"}

\* The write of one of r's frames blocks because the client reads no more.
Stuck(r) ==
  /\ hung /\ link = "up" /\ Len(toClient) = Room
  /\ handler[r].pc \in {"open", "body"}

\* The visitor of r neither sends the rest of its body, or takes the answer, nor
\* closes its connection.
Stalled(r) == handler[r].pc \in {"reading", "writing"}

\* Every request is answered and its ServeHTTP returns, also when buffers are
\* full, frames are lost or the client hangs, and whatever other requests and
\* their visitors do.  Waiting for the response ends after 30 seconds; only what
\* has no deadline can hold a request for ever: the writes to a hung client whose
\* connection stays up, the body of a visitor that stops sending, and the answer
\* to one that stops reading.
RequestsAnswered ==
  \A r \in Request :
    \/ handler[r].pc # "idle" ~> handler[r].pc = "finished" \/ Crashed
    \/ <>[]Stuck(r) \/ <>[]Stalled(r)

\* When the connection breaks the read loop comes to its end, so that cleanup
\* runs: no delivery or close frame in between holds it up.
LoopEnds == link = "down" ~> loop.pc = "closed" \/ Crashed

\* No handler goroutine of a running client stays behind, whatever frame is lost.
TasksEnd == \A r \in Request : task[r].pc # "none" ~> task[r].pc = "ended" \/ hung

\* getStream reads the stream table safely: the runtime never finds a
\* concurrent write.
StreamMapSafe == ~Crashed

\* While the connection is up, a request envelope that the client reads gets
\* to the handler that waits for it.
EnvelopesArrive ==
  [][link = "up" /\ Len(toClient') < Len(toClient) /\ Head(toClient).type = "data"
       => dataCh' # dataCh]_vars
-----------------------------------------------------------------------------
(* Inductive invariants, for the proofs.                                   *)

\* A stream in the table is filed under the ID of a request that is still
\* being served.
StreamsOwn ==
  \A id \in DOMAIN streams :
    /\ handler[streams[id]].id = id
    /\ handler[streams[id]].pc \in
         {"open", "reading", "body", "wait", "writing", "answered", "deleting"}

\* The counter has not come round: no more requests than stream IDs.
NoReuse == IsFiniteSet(Request) /\ Cardinality(Request) <= IDSpace

\* Then stream IDs are given out one after the other ...
IDsInOrder ==
  /\ nextStreamID = Arrived % IDSpace
  /\ \A r \in Request : handler[r].pc # "idle" =>
       \E k \in 1 .. Arrived : handler[r].id = k % IDSpace

\* ... and tell the requests apart.
Bears(id, r) == handler[r].pc # "idle" /\ handler[r].id = id
IDsDiffer == \A r, q \in Request : \A id \in StreamID : Bears(id, r) /\ Bears(id, q) => r = q

\* Whatever is filed, sent or kept under a stream ID belongs to the request
\* that has it.
FramesOwn ==
  /\ \A i \in DOMAIN toClient : Bears(toClient[i].id, toClient[i].body)
  /\ \A i \in DOMAIN toServer : Bears(toServer[i].id, toServer[i].body)
  /\ loop.frame # None => Bears(loop.frame.id, loop.frame.body)
  /\ loop.stream # None => loop.stream = loop.frame.body
ClientOwn ==
  /\ \A id \in DOMAIN pendingStreams : Bears(id, pendingStreams[id])
  /\ \A r \in Request : task[r].id # None => Bears(task[r].id, r)
  /\ \A r \in Request : task[r].envelope \in {None, r}
ChannelsOwn ==
  \A r \in Request : dataCh[r] \in {<<>>, <<r>>} /\ response[r] \in {<<>>, <<r>>}

\* A request is opened once: before its open frame is written, and until the
\* client reads it, there is no handler goroutine for it.
IsOpen(frame, r) == frame.type = "open" /\ frame.body = r
OpenedOnce ==
  /\ \A r \in Request : handler[r].pc \in {"idle", "inserting", "open"} =>
       task[r].pc = "none" /\ \A i \in DOMAIN toClient : ~IsOpen(toClient[i], r)
  /\ \A r \in Request : \A i, j \in DOMAIN toClient : IsOpen(toClient[i], r) =>
       task[r].pc = "none" /\ (IsOpen(toClient[j], r) => i = j)

\* A request is answered by the client once: its answer is on the wire, in the
\* read loop's hands or in the Response channel, and nowhere else, and the
\* handler goroutine has sent it.
IsAnswer(frame, r) == frame.type = "data" /\ frame.body = r
Sent(r) == task[r].pc \in {"close", "leaving", "ended"}
InHand(r) == loop.frame # None /\ IsAnswer(loop.frame, r)
AnsweredOnce ==
  \A r \in Request :
    /\ response[r] # <<>> => Sent(r)
    /\ InHand(r) => Sent(r) /\ response[r] = <<>>
    /\ \A i, j \in DOMAIN toServer : IsAnswer(toServer[i], r) =>
         /\ Sent(r) /\ response[r] = <<>> /\ ~InHand(r)
         /\ IsAnswer(toServer[j], r) => i = j

\* The inductive invariant behind OwnResponse and DeliveryNeverBlocks.
ExchangeInv ==
  /\ TypeOK /\ StreamsOwn /\ IDsInOrder /\ IDsDiffer
  /\ FramesOwn /\ ClientOwn /\ ChannelsOwn /\ OwnResponse
  /\ loop.pc = "deliver" => loop.frame.type = "data"
  /\ OpenedOnce /\ AnsweredOnce
=============================================================================
