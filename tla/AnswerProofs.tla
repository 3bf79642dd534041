---------------------------- MODULE AnswerProofs ----------------------------
(***************************************************************************)
(* Proofs that a visitor gets the answer to its own request, once: who     *)
(* owns the stream IDs, the frames and what is in the channels.            *)
(***************************************************************************)
EXTENDS ExchangeProofs
-----------------------------------------------------------------------------
(* Stream IDs, while the counter has not come round *)

StillBears(id, r) == handler'[r].pc # "idle" /\ handler'[r].id = id

\* A request that has a stream ID keeps it.
LEMMA IDsStay ==
  ASSUME TypeOK, [Next]_vars, NEW r \in Request, NEW id, Bears(id, r)
  PROVE  StillBears(id, r)
<1> USE DEF StillBears
<1>1. ASSUME NEW q \in Request, OpenStream(q) PROVE StillBears(id, r)
  <2>1. q # r
    BY <1>1 DEF OpenStream, Bears
  <2> QED BY <1>1, <2>1, HandlerOpens DEF Bears, TypeOK
<1>2. ASSUME NEW q \in Request, ServeStep(q) PROVE StillBears(id, r)
  <2>1. /\ \A t \in Request : t # q => handler'[t] = handler[t]
        /\ handler'[q].id = handler[q].id /\ handler'[q].pc # "idle"
    BY <1>2, HandlerEffects, ZenonT(30) DEF Served
  <2> QED BY <2>1 DEF Bears
<1>3. CASE ~(\E q \in Request : OpenStream(q) \/ ServeStep(q))
  BY <1>3, OtherEffects DEF Bears
<1> QED BY <1>1, <1>2, <1>3
-----------------------------------------------------------------------------
(* Whose is what *)

\* Frames under way name a stream ID and a request.
LEMMA FrameTypes ==
  ASSUME TypeOK
  PROVE  /\ \A i \in DOMAIN toClient :
              toClient[i] \in Frame /\ toClient[i].id \in StreamID /\ toClient[i].body \in Request
         /\ \A i \in DOMAIN toServer :
              toServer[i] \in Frame /\ toServer[i].id \in StreamID /\ toServer[i].body \in Request
         /\ loop.frame # None =>
              loop.frame \in Frame /\ loop.frame.id \in StreamID /\ loop.frame.body \in Request
<1>1. toClient \in Seq(Frame) /\ toServer \in Seq(Frame) /\ loop.frame \in Frame \cup {None}
  BY DEF TypeOK, WireTypeOK, LoopTypeOK
<1>2. \A f \in Frame : f.id \in StreamID /\ f.body \in Request
  BY DEF Frame
<1>3. /\ \A i \in DOMAIN toClient : toClient[i] \in Frame
      /\ \A i \in DOMAIN toServer : toServer[i] \in Frame
  BY <1>1
<1> QED BY <1>1, <1>2, <1>3

\* The invariants about ownership.
OwnInv ==
  /\ TypeOK /\ StreamsOwn /\ IDsDiffer /\ FramesOwn /\ ClientOwn /\ ChannelsOwn /\ OwnResponse

\* What has an owner keeps it.
LEMMA OwnersStay ==
  ASSUME OwnInv, [Next]_vars
  PROVE  /\ \A i \in DOMAIN toClient : StillBears(toClient[i].id, toClient[i].body)
         /\ \A i \in DOMAIN toServer : StillBears(toServer[i].id, toServer[i].body)
         /\ loop.frame # None => StillBears(loop.frame.id, loop.frame.body)
         /\ \A id \in DOMAIN pendingStreams : StillBears(id, pendingStreams[id])
         /\ \A r \in Request : task[r].id # None => StillBears(task[r].id, r)
<1>1. TypeOK /\ FramesOwn /\ ClientOwn
  BY DEF OwnInv
<1>2. \A id \in DOMAIN pendingStreams : pendingStreams[id] \in Request
  BY <1>1 DEF TypeOK, ClientTypeOK
<1> QED BY <1>1, <1>2, FrameTypes, IDsStay DEF FramesOwn, ClientOwn

\* What a step leaves alone stays with its owner.
LEMMA OwnStays ==
  ASSUME OwnInv, [Next]_vars
  PROVE  /\ UNCHANGED <<toClient, toServer, loop>> => FramesOwn'
         /\ UNCHANGED <<pendingStreams, task>> => ClientOwn'
         /\ UNCHANGED <<dataCh, response>> => ChannelsOwn'
         /\ UNCHANGED handler => OwnResponse'
<1>1. UNCHANGED <<toClient, toServer, loop>> => FramesOwn'
  BY OwnersStay DEF OwnInv, FramesOwn, Bears, StillBears
<1>2. UNCHANGED <<pendingStreams, task>> => ClientOwn'
  BY OwnersStay, Zenon DEF OwnInv, ClientOwn, Bears, StillBears
<1>3. UNCHANGED <<dataCh, response>> => ChannelsOwn'
  BY DEF OwnInv, ChannelsOwn
<1>4. UNCHANGED handler => OwnResponse'
  BY DEF OwnInv, OwnResponse
<1> QED BY <1>1, <1>2, <1>3, <1>4, Zenon

\* ServeHTTP writes frames of its own and answers with what is its own.
LEMMA OwnHandler ==
  ASSUME OwnInv, [Next]_vars, NEW r \in Request, OpenStream(r) \/ ServeStep(r)
  PROVE  FramesOwn' /\ ClientOwn' /\ ChannelsOwn' /\ OwnResponse'
<1> USE DEF channelVars, clientVars, wireVars
<1>0. TypeOK
  BY DEF OwnInv
<1>1. CASE OpenStream(r)
  <2>1. UNCHANGED <<streams, channelVars, loop, wireVars, clientVars>>
    BY <1>1 DEF OpenStream
  <2>2. \A q \in Request : handler'[q].outcome = handler[q].outcome
    BY <1>0, <1>1, HandlerOpens, ZenonT(30) DEF TypeOK
  <2>3. OwnResponse'
    BY <2>2 DEF OwnInv, OwnResponse
  <2> QED BY <2>1, <2>3, OwnStays
<1>2. CASE ServeStep(r)
  <2>1. /\ UNCHANGED <<loop, toServer, clientVars>> /\ handler[r].pc # "idle"
        /\ \A q \in Request : q # r => handler'[q] = handler[q]
    BY <1>0, <1>2, HandlerEffects, Zenon DEF Served
  <2>2. FramesOwn'
    <3>1. CASE UNCHANGED toClient
      BY <2>1, <3>1, OwnStays, Zenon
    <3>2. ASSUME NEW frame, frame.id = handler[r].id, frame.body = r,
                 toClient' = Append(toClient, frame)
          PROVE  FramesOwn'
      <4>1. StillBears(frame.id, frame.body)
        BY <1>0, <2>1, <3>2, IDsStay DEF Bears
      <4>2. \A i \in DOMAIN toClient' : StillBears(toClient'[i].id, toClient'[i].body)
        <5>1. toClient \in Seq(Frame)
          BY <1>0 DEF TypeOK, WireTypeOK
        <5> QED BY <3>2, <4>1, <5>1, QueueWrites, OwnersStay
      <4> QED BY <2>1, <4>2, OwnersStay DEF OwnInv, FramesOwn, Bears, StillBears
    <3> QED BY <1>0, <1>2, <3>1, <3>2, HandlerSends, ZenonT(30) DEF OpenFrame, DataFrame
  <2>3. ClientOwn'
    BY <2>1, OwnStays, Zenon
  <2>4. ChannelsOwn' /\ OwnResponse'
    <3>1. CASE /\ UNCHANGED response
               /\ handler'[r].outcome \in {handler[r].outcome, "error", "stream closed"}
      <4>1. OwnResponse'
        BY <2>1, <3>1, ExchangeAssumption, Zenon DEF OwnInv, OwnResponse
      <4> QED BY <2>1, <3>1, <4>1, OwnStays, Zenon
    <3>2. CASE /\ response[r] # <<>> /\ response' = [response EXCEPT ![r] = Tail(response[r])]
               /\ handler'[r].outcome = Head(response[r])
      <4>1. response[r] = <<r>> /\ response \in [Request -> Seq(Request)]
        BY <1>0, <3>2 DEF OwnInv, ChannelsOwn, TypeOK, LoopTypeOK
      <4>2. Head(response[r]) = r /\ Tail(response[r]) = <<>>
        BY <4>1
      <4>3. OwnResponse'
        BY <2>1, <3>2, <4>2 DEF OwnInv, OwnResponse
      <4>4. ChannelsOwn'
        BY <2>1, <3>2, <4>1, <4>2 DEF OwnInv, ChannelsOwn
      <4> QED BY <4>3, <4>4
    <3> QED BY <1>0, <1>2, <3>1, <3>2, HandlerReceives, Zenon
  <2> QED BY <2>2, <2>3, <2>4
<1> QED BY <1>1, <1>2

\* The read loop puts an answer in the channel of the request it is for.
LEMMA OwnLoop ==
  ASSUME OwnInv, [Next]_vars, LoopStep
  PROVE  FramesOwn' /\ ClientOwn' /\ ChannelsOwn' /\ OwnResponse'
<1> USE DEF clientVars
<1>0. TypeOK
  BY DEF OwnInv
<1>1. UNCHANGED <<handler, toClient, clientVars>>
  BY <1>0, LoopEffects
<1>2. ClientOwn' /\ OwnResponse'
  BY <1>1, OwnStays
<1>3. UNCHANGED response => ChannelsOwn'
  BY <1>1, OwnStays
<1>4. CASE /\ toServer # <<>> /\ toServer' = Tail(toServer) /\ UNCHANGED response
           /\ loop'.frame = Head(toServer) /\ loop'.stream = None
  <2>1. toServer \in Seq(Frame)
    BY <1>0 DEF TypeOK, WireTypeOK
  <2>2. /\ \A i \in DOMAIN toServer' : StillBears(toServer'[i].id, toServer'[i].body)
        /\ StillBears(loop'.frame.id, loop'.frame.body)
    BY <1>4, <2>1, QueueReads, OwnersStay
  <2>3. FramesOwn'
    BY <1>1, <1>4, <2>2, OwnersStay DEF FramesOwn, Bears, StillBears
  <2> QED BY <1>2, <1>3, <1>4, <2>3
<1>5. CASE /\ loop.frame # None /\ loop.frame.id \in DOMAIN streams
           /\ loop'.frame = loop.frame /\ loop'.stream = streams[loop.frame.id]
           /\ UNCHANGED <<toServer, response>>
  <2>1. /\ loop.frame.id \in StreamID /\ loop.frame.body \in Request
        /\ streams[loop.frame.id] \in Request
    BY <1>0, <1>5, FrameTypes DEF TypeOK, HandlerTypeOK
  <2>2. Bears(loop.frame.id, loop.frame.body) /\ Bears(loop.frame.id, streams[loop.frame.id])
    BY <1>5 DEF OwnInv, FramesOwn, StreamsOwn, Bears
  <2>3. loop'.stream = loop'.frame.body
    BY <1>5, <2>1, <2>2 DEF OwnInv, IDsDiffer
  <2>4. FramesOwn'
    BY <1>1, <1>5, <2>3, OwnersStay DEF FramesOwn, Bears, StillBears
  <2> QED BY <1>2, <1>3, <1>5, <2>4
<1>6. ASSUME loop'.frame = None, loop'.stream = None, UNCHANGED toServer
      PROVE  FramesOwn'
  BY <1>1, <1>6, OwnersStay DEF FramesOwn, Bears, StillBears
<1>7. CASE loop'.frame = None /\ loop'.stream = None /\ UNCHANGED <<toServer, response>>
  BY <1>2, <1>3, <1>6, <1>7
<1>8. CASE /\ loop.frame # None /\ loop.stream \in Request
           /\ loop'.frame = None /\ loop'.stream = None
           /\ response' = [response EXCEPT ![loop.stream] = <<loop.frame.body>>]
           /\ UNCHANGED toServer
  <2>1. loop.stream = loop.frame.body
    BY <1>8, ExchangeAssumption, Zenon DEF OwnInv, FramesOwn
  <2>2. response \in [Request -> Seq(Request)]
    BY <1>0 DEF TypeOK, LoopTypeOK
  <2>3. ChannelsOwn'
    BY <1>1, <1>8, <2>1, <2>2 DEF OwnInv, ChannelsOwn
  <2> QED BY <1>2, <1>6, <1>8, <2>3
<1> QED BY <1>0, <1>4, <1>5, <1>7, <1>8, LoopEffects

\* A handler goroutine of the client keeps to the request it was started for.
LEMMA OwnTask ==
  ASSUME OwnInv, [Next]_vars, NEW r \in Request, TaskStep(r)
  PROVE  FramesOwn' /\ ClientOwn' /\ ChannelsOwn' /\ OwnResponse'
<1>0. TypeOK
  BY DEF OwnInv
<1>1. /\ UNCHANGED <<handler, response, loop, toClient>>
      /\ \A q \in Request : q # r => task'[q] = task[q]
      /\ task'[r].id \in {task[r].id, None}
  BY <1>0, TaskEffects, ZenonT(30)
<1>2. FramesOwn'
  <2>1. CASE UNCHANGED toServer
    BY <1>1, <2>1, OwnStays
  <2>2. ASSUME NEW frame, frame.id = task[r].id, frame.body = task[r].envelope,
               task[r].id # None, task[r].envelope # None, toServer' = Append(toServer, frame)
        PROVE  FramesOwn'
    <3>1. task[r].envelope = r
      BY <2>2 DEF OwnInv, ClientOwn
    <3>2. StillBears(frame.id, frame.body)
      BY <2>2, <3>1, OwnersStay, Zenon
    <3>3. toServer \in Seq(Frame)
      BY <1>0 DEF TypeOK, WireTypeOK
    <3>4. \A i \in DOMAIN toServer' : StillBears(toServer'[i].id, toServer'[i].body)
      BY <2>2, <3>2, <3>3, QueueWrites, OwnersStay
    <3> QED BY <1>1, <3>4, OwnersStay, ZenonT(30) DEF OwnInv, FramesOwn, Bears, StillBears
  <2> QED BY <1>0, <2>1, <2>2, TaskEffects, Zenon DEF Reply
<1>3. ChannelsOwn' /\ task'[r].envelope \in {None, r}
  <2>1. CASE UNCHANGED dataCh /\ task'[r].envelope \in {task[r].envelope, None}
    BY <1>1, <2>1, OwnStays, ZenonT(30) DEF OwnInv, ClientOwn
  <2>2. CASE /\ dataCh[r] # <<>> /\ dataCh' = [dataCh EXCEPT ![r] = Tail(dataCh[r])]
             /\ task'[r].envelope = Head(dataCh[r])
    <3>1. dataCh[r] = <<r>> /\ dataCh \in [Request -> Seq(Request)]
      BY <1>0, <2>2 DEF OwnInv, ChannelsOwn, TypeOK, ClientTypeOK
    <3>2. Head(dataCh[r]) = r /\ Tail(dataCh[r]) = <<>>
      BY <3>1
    <3> QED BY <1>1, <2>2, <3>1, <3>2, ZenonT(30) DEF OwnInv, ChannelsOwn
  <2> QED BY <1>0, <2>1, <2>2, TaskEffects, Zenon
<1>4. ClientOwn'
  <2>1. \A q \in Request : task'[q].id # None => StillBears(task'[q].id, q)
    BY <1>1, OwnersStay
  <2>2. \A q \in Request : task'[q].envelope \in {None, q}
    BY <1>1, <1>3 DEF OwnInv, ClientOwn
  <2>3. \A id \in DOMAIN pendingStreams' : StillBears(id, pendingStreams'[id])
    BY <1>0, OwnersStay, TaskEffects
  <2> QED BY <2>1, <2>2, <2>3 DEF ClientOwn, Bears, StillBears
<1> QED BY <1>1, <1>2, <1>3, <1>4, OwnStays, Zenon

\* The client's read loop hands a frame to the request it is for.
LEMMA OwnClientRead ==
  ASSUME OwnInv, [Next]_vars, ClientRead
  PROVE  FramesOwn' /\ ClientOwn' /\ ChannelsOwn' /\ OwnResponse'
<1> DEFINE frame == Head(toClient)
<1>0. TypeOK
  BY DEF OwnInv
<1>1. /\ toClient # <<>> /\ toClient' = Tail(toClient) /\ frame.id \in StreamID /\ frame.body \in Request
      /\ UNCHANGED <<handler, response, loop, toServer, pendingStreams>>
  BY <1>0, ClientReadEffects DEF Frame
<1>2. toClient \in Seq(Frame)
  BY <1>0 DEF TypeOK, WireTypeOK
<1>3. FramesOwn'
  <2>1. \A i \in DOMAIN toClient' : StillBears(toClient'[i].id, toClient'[i].body)
    <3> TAKE i \in DOMAIN toClient'
    <3>1. i + 1 \in DOMAIN toClient /\ toClient'[i] = toClient[i + 1]
      BY <1>1, <1>2, QueueReads
    <3> QED BY <3>1, OwnersStay
  <2> QED BY <1>1, <2>1, OwnersStay, ZenonT(30) DEF OwnInv, FramesOwn, Bears, StillBears
<1>4. Bears(frame.id, frame.body) /\ StillBears(frame.id, frame.body)
  BY <1>1, <1>2, QueueReads, OwnersStay DEF OwnInv, FramesOwn
<1> HIDE DEF frame
<1>5. CASE /\ UNCHANGED dataCh /\ \A q \in Request : q # frame.body => task'[q] = task[q]
           /\ task'[frame.body].id = frame.id
           /\ task'[frame.body].envelope = task[frame.body].envelope
  <2>1. ClientOwn'
    <3>1. \A q \in Request : task'[q].id # None => StillBears(task'[q].id, q)
      BY <1>4, <1>5, OwnersStay
    <3>2. \A q \in Request : task'[q].envelope \in {None, q}
      BY <1>5 DEF OwnInv, ClientOwn
    <3>3. \A id \in DOMAIN pendingStreams' : StillBears(id, pendingStreams'[id])
      BY <1>1, OwnersStay
    <3> QED BY <3>1, <3>2, <3>3 DEF ClientOwn, Bears, StillBears
  <2> QED BY <1>1, <1>3, <1>5, <2>1, OwnStays
<1>6. CASE UNCHANGED <<task, dataCh>>
  BY <1>1, <1>3, <1>6, OwnStays
<1>7. CASE /\ UNCHANGED task /\ frame.id \in DOMAIN pendingStreams
           /\ dataCh' = [dataCh EXCEPT ![pendingStreams[frame.id]] = <<frame.body>>]
  <2>1. /\ pendingStreams[frame.id] \in Request /\ dataCh \in [Request -> Seq(Request)]
        /\ Bears(frame.id, pendingStreams[frame.id])
    BY <1>0, <1>7 DEF OwnInv, ClientOwn, TypeOK, ClientTypeOK
  <2>2. pendingStreams[frame.id] = frame.body
    BY <1>1, <1>4, <2>1 DEF OwnInv, IDsDiffer
  <2>3. ChannelsOwn'
    BY <1>1, <1>7, <2>1, <2>2 DEF OwnInv, ChannelsOwn
  <2> QED BY <1>1, <1>3, <1>7, <2>3, OwnStays
<1> QED BY <1>0, <1>5, <1>6, <1>7, ClientReadEffects, Zenon DEF frame

\* The ownership invariants are inductive.
LEMMA OwnInductive ==
  ASSUME OwnInv, [Next]_vars
  PROVE  FramesOwn' /\ ClientOwn' /\ ChannelsOwn' /\ OwnResponse'
<1>0. TypeOK
  BY DEF OwnInv
<1>1. CASE ConnectionDrops
  <2>1. FramesOwn'
    BY <1>0, <1>1, DropEffects, OwnersStay DEF OwnInv, FramesOwn, Bears, StillBears
  <2> QED BY <1>0, <1>1, <2>1, DropEffects, OwnStays, Zenon
<1>2. CASE ClientReadError \/ Hang \/ UNCHANGED vars
  <2>1. UNCHANGED <<handler, response, loop, toClient, toServer, pendingStreams, dataCh, task>>
    BY <1>2 DEF ClientReadError, Hang, vars, handlerVars, channelVars, wireVars
  <2> QED BY <2>1, OwnStays
<1> QED BY <1>1, <1>2, OwnHandler, OwnLoop, OwnTask, OwnClientRead DEF Next, ClientLoopStep
-----------------------------------------------------------------------------
(* Once only *)

\* A request is opened once.
LEMMA OpenedInductive ==
  ASSUME TypeOK, OpenedOnce, [Next]_vars
  PROVE  OpenedOnce'
<1> DEFINE Early == {"idle", "inserting", "open"}
<1>0. toClient \in Seq(Frame)
  BY DEF TypeOK, WireTypeOK
<1>1. ASSUME NEW r \in Request, OpenStream(r) PROVE OpenedOnce'
  <2>1. /\ handler[r].pc = "idle" /\ UNCHANGED <<toClient, task>>
        /\ \A q \in Request : q # r => handler'[q] = handler[q]
    BY <1>1, HandlerOpens, Zenon DEF OpenStream, wireVars, clientVars, TypeOK
  <2> QED BY <2>1 DEF OpenedOnce, IsOpen
<1>2. ASSUME NEW r \in Request, ServeStep(r) PROVE OpenedOnce'
  <2>1. /\ UNCHANGED task
        /\ handler'[r].pc \in Early => handler[r].pc \in Early
        /\ \A q \in Request : q # r => handler'[q] = handler[q]
    BY <1>2, HandlerEffects, ZenonT(30) DEF Served, clientVars
  <2>2. CASE UNCHANGED toClient
    BY <2>1, <2>2 DEF OpenedOnce, IsOpen
  <2>3. CASE /\ handler[r].pc = "open" /\ handler'[r].pc = "reading"
             /\ toClient' = Append(toClient, OpenFrame(r))
    <3>1. /\ task[r].pc = "none" /\ \A i \in DOMAIN toClient : ~IsOpen(toClient[i], r)
      BY <2>3 DEF OpenedOnce
    <3>2. \A q \in Request : q # r => ~IsOpen(OpenFrame(r), q)
      BY DEF OpenFrame, IsOpen
    <3>3. \A i \in DOMAIN toClient' : \/ i \in DOMAIN toClient /\ toClient'[i] = toClient[i]
                                      \/ i = Len(toClient) + 1 /\ toClient'[i] = OpenFrame(r)
      BY <1>0, <2>3, QueueWrites
    <3>4. \A q \in Request : handler'[q].pc \in Early =>
            task'[q].pc = "none" /\ \A i \in DOMAIN toClient' : ~IsOpen(toClient'[i], q)
      BY <2>1, <2>3, <3>2, <3>3 DEF OpenedOnce
    <3>5. \A q \in Request : \A i, j \in DOMAIN toClient' : IsOpen(toClient'[i], q) =>
            task'[q].pc = "none" /\ (IsOpen(toClient'[j], q) => i = j)
      BY <2>1, <3>1, <3>2, <3>3 DEF OpenedOnce
    <3> QED BY <3>4, <3>5 DEF OpenedOnce, IsOpen
  <2>4. CASE toClient' = Append(toClient, DataFrame(r))
    <3>1. \A q \in Request : ~IsOpen(DataFrame(r), q)
      BY DEF DataFrame, IsOpen
    <3>2. \A i \in DOMAIN toClient' : \/ i \in DOMAIN toClient /\ toClient'[i] = toClient[i]
                                      \/ toClient'[i] = DataFrame(r)
      BY <1>0, <2>4, QueueWrites
    <3>3. \A q \in Request : handler'[q].pc \in Early =>
            task'[q].pc = "none" /\ \A i \in DOMAIN toClient' : ~IsOpen(toClient'[i], q)
      BY <2>1, <3>1, <3>2 DEF OpenedOnce
    <3>4. \A q \in Request : \A i, j \in DOMAIN toClient' : IsOpen(toClient'[i], q) =>
            task'[q].pc = "none" /\ (IsOpen(toClient'[j], q) => i = j)
      BY <2>1, <3>1, <3>2 DEF OpenedOnce
    <3> QED BY <3>3, <3>4 DEF OpenedOnce, IsOpen
  <2> QED BY <1>2, <2>2, <2>3, <2>4, HandlerSends, ZenonT(30)
<1>3. ASSUME NEW r \in Request, TaskStep(r) PROVE OpenedOnce'
  <2>1. /\ UNCHANGED <<handler, toClient>> /\ task[r].pc # "none"
        /\ \A q \in Request : q # r => task'[q] = task[q]
    BY <1>3, TaskEffects
  <2> QED BY <2>1 DEF OpenedOnce, IsOpen
<1>4. CASE ClientRead
  <2> DEFINE frame == Head(toClient)
  <2>1. /\ toClient # <<>> /\ toClient' = Tail(toClient) /\ UNCHANGED handler
        /\ \/ UNCHANGED task
           \/ frame.type = "open" /\ \A q \in Request : q # frame.body => task'[q] = task[q]
    BY <1>4, ClientReadEffects, Zenon
  <2>2. /\ \A i \in DOMAIN toClient' : /\ i + 1 \in DOMAIN toClient /\ toClient'[i] = toClient[i + 1]
                                       /\ i + 1 # 1
        /\ \A i, j \in DOMAIN toClient' : i + 1 = j + 1 => i = j
        /\ 1 \in DOMAIN toClient /\ frame = toClient[1]
    <3>1. toClient' \in Seq(Frame)
      BY <1>0, <2>1, QueueReads
    <3>2. \A i, j \in DOMAIN toClient' : i + 1 = j + 1 => i = j
      BY <3>1
    <3> QED BY <1>0, <2>1, <3>2, QueueReads
  <2> HIDE DEF frame
  <2>3. CASE UNCHANGED task
    BY <2>1, <2>2, <2>3 DEF OpenedOnce, IsOpen
  <2>4. CASE frame.type = "open" /\ \A q \in Request : q # frame.body => task'[q] = task[q]
    <3>1. frame.body \in Request => /\ handler[frame.body].pc \notin Early
                                    /\ \A i \in DOMAIN toClient' : ~IsOpen(toClient'[i], frame.body)
      BY <2>2, <2>4 DEF OpenedOnce, IsOpen
    <3>2. \A q \in Request : handler'[q].pc \in Early =>
            task'[q].pc = "none" /\ \A i \in DOMAIN toClient' : ~IsOpen(toClient'[i], q)
      BY <2>1, <2>2, <2>4, <3>1 DEF OpenedOnce
    <3>3. \A q \in Request : \A i, j \in DOMAIN toClient' : IsOpen(toClient'[i], q) =>
            task'[q].pc = "none" /\ (IsOpen(toClient'[j], q) => i = j)
      BY <2>1, <2>2, <2>4, <3>1 DEF OpenedOnce
    <3> QED BY <3>2, <3>3 DEF OpenedOnce, IsOpen
  <2> QED BY <2>1, <2>3, <2>4
<1>5. CASE ConnectionDrops
  BY <1>5, DropEffects DEF OpenedOnce, IsOpen
<1>6. CASE LoopStep \/ ClientReadError \/ Hang \/ UNCHANGED vars
  <2>1. UNCHANGED <<handler, toClient, task>>
    BY <1>6, LoopEffects, Zenon DEF ClientReadError, Hang, vars, handlerVars, wireVars, clientVars
  <2> QED BY <2>1 DEF OpenedOnce, IsOpen
<1> QED BY <1>1, <1>2, <1>3, <1>4, <1>5, <1>6 DEF Next, ClientLoopStep

DeliversData == loop.pc = "deliver" => loop.frame.type = "data"

\* Only the answer to a request is delivered.
LEMMA DeliversInductive ==
  ASSUME TypeOK, DeliversData, [Next]_vars
  PROVE  DeliversData'
<1>1. CASE LoopStep
  BY <1>1, LoopEffects DEF DeliversData
<1>2. CASE UNCHANGED loop
  BY <1>2 DEF DeliversData
<1>3. ASSUME NEW r \in Request, OpenStream(r) \/ ServeStep(r) \/ TaskStep(r)
      PROVE  UNCHANGED loop
  BY <1>3, HandlerEffects, TaskEffects, Zenon DEF OpenStream
<1> QED BY <1>1, <1>2, <1>3, DropEffects, ClientReadEffects
        DEF Next, ClientLoopStep, ClientReadError, Hang, vars

\* A request is answered by the client once.
LEMMA AnsweredInductive ==
  ASSUME OwnInv, OpenedOnce, DeliversData, AnsweredOnce, [Next]_vars
  PROVE  AnsweredOnce'
<1> USE DEF Sent
<1>0. TypeOK /\ toServer \in Seq(Frame) /\ response \in [Request -> Seq(Request)]
  BY DEF OwnInv, TypeOK, WireTypeOK, LoopTypeOK
<1>1. ASSUME NEW r \in Request, OpenStream(r) PROVE AnsweredOnce'
  <2>1. UNCHANGED <<response, loop, toServer, task>>
    BY <1>1 DEF OpenStream, channelVars, wireVars, clientVars
  <2> QED BY <2>1 DEF AnsweredOnce, InHand, IsAnswer
<1>2. ASSUME NEW r \in Request, ServeStep(r) PROVE AnsweredOnce'
  <2>1. UNCHANGED <<loop, toServer, task>>
    BY <1>0, <1>2, HandlerEffects, Zenon DEF clientVars
  <2>2. \A q \in Request : response'[q] = response[q] \/ response'[q] = <<>>
    <3>1. response[r] # <<>> => response[r] = <<r>>
      BY DEF OwnInv, ChannelsOwn
    <3>2. response[r] # <<>> => Tail(response[r]) = <<>>
      <4>1. CASE response[r] = <<r>>
        BY <4>1
      <4> QED BY <3>1, <4>1
    <3> QED BY <1>0, <1>2, <3>2, HandlerReceives, Zenon
  <2> QED BY <2>1, <2>2 DEF AnsweredOnce, InHand, IsAnswer
<1>3. CASE LoopStep
  <2>1. UNCHANGED task
    BY <1>0, <1>3, LoopEffects, Zenon DEF clientVars
  <2>2. CASE /\ toServer # <<>> /\ toServer' = Tail(toServer) /\ UNCHANGED response
             /\ loop'.frame = Head(toServer)
    <3>1. /\ \A i \in DOMAIN toServer' : /\ i + 1 \in DOMAIN toServer /\ toServer'[i] = toServer[i + 1]
                                         /\ i + 1 # 1
          /\ 1 \in DOMAIN toServer /\ loop'.frame = toServer[1]
      BY <1>0, <2>2, QueueReads
    <3>2. \A i, j \in DOMAIN toServer' : i + 1 = j + 1 => i = j
      <4>1. toServer' \in Seq(Frame)
        BY <1>0, <2>2, QueueReads, Zenon
      <4> QED BY <4>1
    <3>3. ASSUME NEW q \in Request
          PROVE  /\ response'[q] # <<>> => Sent(q)'
                 /\ InHand(q)' => Sent(q)' /\ response'[q] = <<>>
                 /\ \A i, j \in DOMAIN toServer' : IsAnswer(toServer'[i], q) =>
                      /\ Sent(q)' /\ response'[q] = <<>> /\ ~InHand(q)'
                      /\ IsAnswer(toServer'[j], q) => i = j
      <4>1. InHand(q)' => IsAnswer(toServer[1], q)
        BY <3>1 DEF InHand, IsAnswer
      <4> QED BY <2>1, <2>2, <3>1, <3>2, <4>1 DEF AnsweredOnce
    <3> QED BY <3>3 DEF AnsweredOnce, InHand, IsAnswer
  <2>3. CASE loop'.frame = loop.frame /\ UNCHANGED <<toServer, response>>
    BY <2>1, <2>3 DEF AnsweredOnce, InHand, IsAnswer
  <2>4. CASE loop'.frame = None /\ UNCHANGED <<toServer, response>>
    BY <2>1, <2>4 DEF AnsweredOnce, InHand, IsAnswer
  <2>5. CASE /\ loop.pc = "deliver" /\ loop.frame # None /\ loop.stream \in Request
             /\ loop'.frame = None /\ UNCHANGED toServer
             /\ response' = [response EXCEPT ![loop.stream] = <<loop.frame.body>>]
    <3>1. loop.stream = loop.frame.body
      BY <2>5, ExchangeAssumption, Zenon DEF OwnInv, FramesOwn
    <3>2. InHand(loop.stream)
      BY <2>5, <3>1, ZenonT(30) DEF InHand, IsAnswer, DeliversData
    <3>3. Sent(loop.stream) /\ \A i \in DOMAIN toServer : ~IsAnswer(toServer[i], loop.stream)
      BY <2>5, <3>2, Zenon DEF AnsweredOnce
    <3>4. \A q \in Request : q # loop.stream => response'[q] = response[q]
      BY <1>0, <2>5
    <3> QED BY <2>1, <2>5, <3>3, <3>4 DEF AnsweredOnce, InHand, IsAnswer
  <2> QED BY <1>0, <1>3, <2>2, <2>3, <2>4, <2>5, LoopEffects, ZenonT(30)
<1>4. ASSUME NEW r \in Request, TaskStep(r) PROVE AnsweredOnce'
  <2>1. /\ UNCHANGED <<response, loop>> /\ \A q \in Request : q # r => task'[q] = task[q]
        /\ Sent(r) => Sent(r)'
    BY <1>0, <1>4, TaskEffects, Zenon
  <2>2. CASE UNCHANGED toServer
    BY <2>1, <2>2 DEF AnsweredOnce, InHand, IsAnswer
  <2>3. ASSUME NEW frame, frame.type = "data" => /\ task[r].pc = "respond" /\ task'[r].pc = "close"
                                                 /\ frame.body = r,
               toServer' = Append(toServer, frame)
        PROVE  AnsweredOnce'
    <3>1. \A i \in DOMAIN toServer' : \/ i \in DOMAIN toServer /\ toServer'[i] = toServer[i]
                                      \/ i = Len(toServer) + 1 /\ toServer'[i] = frame
      BY <1>0, <2>3, QueueWrites
    <3>2. \A q \in Request : IsAnswer(frame, q) => q = r /\ ~Sent(r) /\ Sent(r)'
      BY <2>3, Zenon DEF IsAnswer
    <3>3. \A q \in Request : ~Sent(q) => /\ response[q] = <<>> /\ ~InHand(q)
                                         /\ \A i \in DOMAIN toServer : ~IsAnswer(toServer[i], q)
      BY DEF AnsweredOnce
    <3>4. \A q \in Request : InHand(q)' <=> InHand(q)
      BY <2>1 DEF InHand, IsAnswer
    <3>5. \A q \in Request : Sent(q) => Sent(q)'
      BY <2>1
    <3>6. ASSUME NEW q \in Request
          PROVE  /\ response'[q] # <<>> => Sent(q)'
                 /\ InHand(q)' => Sent(q)' /\ response'[q] = <<>>
                 /\ \A i, j \in DOMAIN toServer' : IsAnswer(toServer'[i], q) =>
                      /\ Sent(q)' /\ response'[q] = <<>> /\ ~InHand(q)'
                      /\ IsAnswer(toServer'[j], q) => i = j
      <4> HIDE DEF Sent
      <4>1. CASE IsAnswer(frame, q)
        BY <2>1, <3>1, <3>2, <3>3, <3>4, <4>1, ZenonT(30)
      <4>2. CASE ~IsAnswer(frame, q)
        BY <2>1, <3>1, <3>4, <3>5, <4>2, ZenonT(30) DEF AnsweredOnce
      <4> QED BY <4>1, <4>2, ZenonT(30)
    <3> QED BY <3>6, ZenonT(30) DEF AnsweredOnce, InHand, IsAnswer
  <2>4. task[r].envelope # None => task[r].envelope = r
    BY Zenon DEF OwnInv, ClientOwn
  <2> QED BY <1>0, <1>4, <2>2, <2>3, <2>4, TaskEffects, ZenonT(30) DEF Reply
<1>5. CASE ClientRead
  <2> DEFINE frame == Head(toClient)
  <2>1. /\ toClient # <<>> /\ UNCHANGED <<response, loop, toServer>>
        /\ \/ UNCHANGED task
           \/ frame.type = "open" /\ \A q \in Request : q # frame.body => task'[q] = task[q]
    BY <1>0, <1>5, ClientReadEffects, ZenonT(30)
  <2>2. 1 \in DOMAIN toClient /\ frame = toClient[1]
    BY <1>0, <2>1, QueueReads DEF TypeOK, WireTypeOK
  <2> HIDE DEF frame
  <2>3. \A q \in Request : q = frame.body /\ frame.type = "open" => ~Sent(q)
    BY <2>2, Zenon DEF OpenedOnce, IsOpen
  <2> QED BY <2>1, <2>3 DEF AnsweredOnce, InHand, IsAnswer
<1>6. CASE ConnectionDrops
  BY <1>0, <1>6, DropEffects DEF AnsweredOnce, InHand, IsAnswer
<1>7. CASE ClientReadError \/ Hang \/ UNCHANGED vars
  <2>1. UNCHANGED <<response, loop, toServer, task>>
    BY <1>7 DEF ClientReadError, Hang, vars, channelVars, wireVars
  <2> QED BY <2>1 DEF AnsweredOnce, InHand, IsAnswer
<1> QED BY <1>1, <1>2, <1>3, <1>4, <1>5, <1>6, <1>7 DEF Next, ClientLoopStep
-----------------------------------------------------------------------------
(* The counter of stream IDs, and the invariants together *)

INSTANCE FiniteSetTheorems

Come == {r \in Request : handler[r].pc # "idle"}

\* OpenStream counts on: the ID is one that no request before has had.
LEMMA OpenStreamFresh ==
  ASSUME NoReuse, TypeOK, IDsInOrder, NEW r \in Request, OpenStream(r)
  PROVE  /\ Come' = Come \cup {r} /\ Arrived \in Nat /\ Arrived' = Arrived + 1
         /\ nextStreamID' = (Arrived + 1) % IDSpace
         /\ \A k \in 1 .. Arrived : k % IDSpace # (Arrived + 1) % IDSpace
<1>0. handler[r].pc = "idle" /\ Arrived = Cardinality(Come) /\ Arrived' = Cardinality(Come')
  BY DEF OpenStream, Arrived, Come
<1>1. Come' = Come \cup {r}
  BY HandlerOpens DEF Come, TypeOK
<1>2. IsFiniteSet(Come) /\ IsFiniteSet(Come \cup {r}) /\ r \notin Come
  BY <1>0, FS_Subset DEF NoReuse, Come
<1>3. /\ Cardinality(Come) \in Nat /\ Cardinality(Come \cup {r}) = Cardinality(Come) + 1
      /\ Cardinality(Come \cup {r}) <= Cardinality(Request) /\ Cardinality(Request) \in Nat
  <2>1. Come \cup {r} \in SUBSET Request
    BY DEF Come
  <2> QED BY <1>2, <2>1, FS_AddElement, FS_CardinalityType, FS_Subset, Zenon DEF NoReuse
<1>4. IDSpace \in Nat \ {0}
  BY ExchangeAssumption, ZenonT(30)
<1>5. Arrived \in Nat /\ Arrived' = Arrived + 1 /\ Arrived + 1 <= IDSpace
  BY <1>0, <1>1, <1>3, <1>4 DEF NoReuse
<1>6. \A k \in 0 .. Arrived : k % IDSpace = k
  BY <1>4, <1>5, ModSmall
<1>7. nextStreamID = Arrived
  BY <1>5, <1>6 DEF IDsInOrder
<1>8. nextStreamID' = (Arrived + 1) % IDSpace
  BY <1>7, HandlerOpens DEF TypeOK
<1>9. (Arrived + 1) % IDSpace \in {Arrived + 1, 0}
  <2>1. CASE Arrived + 1 = IDSpace
    BY <1>4, <2>1, ModSelf
  <2>2. CASE Arrived + 1 # IDSpace
    BY <1>4, <1>5, <2>2, ModSmall
  <2> QED BY <2>1, <2>2
<1>10. \A k \in 1 .. Arrived : k % IDSpace # (Arrived + 1) % IDSpace
  BY <1>5, <1>6, <1>9
<1> QED BY <1>1, <1>5, <1>8, <1>10, Zenon

\* Stream IDs go on in order and tell the requests apart.
LEMMA IDsInductive ==
  ASSUME NoReuse, TypeOK, IDsInOrder, IDsDiffer, [Next]_vars
  PROVE  IDsInOrder' /\ IDsDiffer'
<1>1. ASSUME NEW r \in Request, OpenStream(r) PROVE IDsInOrder' /\ IDsDiffer'
  <2>1. /\ nextStreamID' = Arrived' % IDSpace /\ Arrived \in Nat /\ Arrived' = Arrived + 1
        /\ \A k \in 1 .. Arrived : k % IDSpace # nextStreamID'
    BY <1>1, OpenStreamFresh
  <2>2. /\ handler'[r].pc # "idle" /\ handler'[r].id = nextStreamID' /\ handler[r].pc = "idle"
        /\ \A q \in Request : q # r => handler'[q] = handler[q]
    BY <1>1, HandlerOpens, ZenonT(30) DEF TypeOK, OpenStream
  <2>3. \A q \in Request : q # r /\ handler'[q].pc # "idle" =>
          \E k \in 1 .. Arrived : handler'[q].id = k % IDSpace
    BY <2>2, Zenon DEF IDsInOrder
  <2>4. IDsInOrder'
    <3>1. \A k \in 1 .. Arrived : k \in 1 .. Arrived'
      BY <2>1
    <3>2. Arrived' \in 1 .. Arrived'
      BY <2>1
    <3> QED BY <2>1, <2>2, <2>3, <3>1, <3>2, Zenon DEF IDsInOrder
  <2>5. IDsDiffer'
    <3> SUFFICES ASSUME NEW p \in Request, NEW q \in Request, NEW id \in StreamID,
                        Bears(id, p)', Bears(id, q)'
                 PROVE  p = q
      BY Zenon DEF IDsDiffer
    <3>1. \A t \in Request : t # r /\ Bears(id, t)' => Bears(id, t) /\ id # nextStreamID'
      BY <2>1, <2>2, <2>3, Zenon DEF Bears
    <3>2. Bears(id, r)' => id = nextStreamID'
      BY <2>2, Zenon DEF Bears
    <3> QED BY <3>1, <3>2 DEF IDsDiffer
  <2> QED BY <2>4, <2>5
<1>still. ASSUME UNCHANGED nextStreamID,
                 \A q \in Request : handler'[q].id = handler[q].id
                                    /\ (handler'[q].pc = "idle" <=> handler[q].pc = "idle")
          PROVE  IDsInOrder' /\ IDsDiffer'
  <2>1. Arrived' = Arrived
    <3>1. {r \in Request : handler'[r].pc # "idle"} = {r \in Request : handler[r].pc # "idle"}
      BY <1>still
    <3> QED BY <3>1, ZenonT(30) DEF Arrived
  <2> QED BY <1>still, <2>1 DEF IDsInOrder, IDsDiffer, Bears
<1>2. ASSUME NEW r \in Request, ServeStep(r) PROVE IDsInOrder' /\ IDsDiffer'
  <2>1. \A q \in Request : handler'[q].id = handler[q].id
                           /\ (handler'[q].pc = "idle" <=> handler[q].pc = "idle")
    BY <1>2, HandlerEffects, ZenonT(30) DEF Served
  <2> QED BY <1>2, <1>still, <2>1, HandlerEffects, Zenon
<1>3. CASE ~(\E r \in Request : OpenStream(r) \/ ServeStep(r))
  BY <1>3, <1>still, OtherEffects, Zenon
<1> QED BY <1>1, <1>2, <1>3

\* At the start nothing is under way.
LEMMA InitOwnInv == Init => OwnInv /\ IDsInOrder /\ OpenedOnce /\ AnsweredOnce
<1> SUFFICES ASSUME Init PROVE OwnInv /\ IDsInOrder /\ OpenedOnce /\ AnsweredOnce
  OBVIOUS
<1>0. IDSpace \in Nat \ {0} /\ None \notin Request
  BY ExchangeAssumption, ZenonT(30)
<1>1. /\ \A r \in Request : handler[r].pc = "idle" /\ handler[r].outcome = None
      /\ \A r \in Request : /\ task[r].pc = "none" /\ task[r].id = None /\ task[r].envelope = None
                            /\ dataCh[r] = <<>> /\ response[r] = <<>>
      /\ loop.frame = None /\ loop.stream = None
      /\ DOMAIN toClient = {} /\ DOMAIN toServer = {} /\ nextStreamID = 0
      /\ DOMAIN streams = {} /\ DOMAIN pendingStreams = {}
  BY DEF Init, EmptyMap
<1>2. IDsInOrder
  <2>1. {r \in Request : handler[r].pc # "idle"} = {}
    BY <1>1
  <2>2. Arrived = 0
    BY <2>1, FS_EmptySet DEF Arrived
  <2>3. 0 % IDSpace = 0
    BY <1>0, ModSmall
  <2> QED BY <1>1, <2>2, <2>3, ZenonT(30) DEF IDsInOrder
<1>3. OpenedOnce /\ AnsweredOnce
  BY <1>1, ZenonT(30) DEF OpenedOnce, AnsweredOnce, InHand
<1>4. StreamsOwn /\ IDsDiffer /\ FramesOwn /\ ClientOwn /\ ChannelsOwn /\ OwnResponse
  BY <1>0, <1>1 DEF StreamsOwn, IDsDiffer, FramesOwn, ClientOwn, ChannelsOwn, OwnResponse, Bears
<1> QED BY <1>2, <1>3, <1>4, InitTypeOK, Zenon DEF OwnInv

\* The ownership invariants hold while no stream ID has been given out twice.
LEMMA EveryFrameHasItsOwner ==
  ASSUME NoReuse
  PROVE  Spec => [](OwnInv /\ IDsInOrder)
<1>1. OwnInv /\ IDsInOrder /\ [Next]_vars => (OwnInv /\ IDsInOrder)'
  <2> SUFFICES ASSUME OwnInv, IDsInOrder, [Next]_vars PROVE OwnInv' /\ IDsInOrder'
    OBVIOUS
  <2>1. TypeOK /\ StreamsOwn /\ IDsDiffer
    BY DEF OwnInv
  <2>2. TypeOK' /\ StreamsOwn' /\ IDsDiffer' /\ IDsInOrder'
    BY <2>1, TypeInductive, StreamsInductive, IDsInductive
  <2> QED BY <2>2, OwnInductive DEF OwnInv
<1> QED BY <1>1, InitOwnInv, PTL DEF Spec

\* A visitor gets the answer to its own request and no other, for any number of
\* requests up to the number of stream IDs, whatever is concurrent, late or lost.
THEOREM VisitorsGetTheirOwnAnswer ==
  ASSUME NoReuse
  PROVE  Spec => []OwnResponse
<1>1. OwnInv => OwnResponse
  BY DEF OwnInv
<1> QED BY <1>1, EveryFrameHasItsOwner, PTL

\* The inductive invariant of the exchange, while no stream ID is given out twice.
THEOREM ExchangeInvariant ==
  ASSUME NoReuse
  PROVE  Spec => []ExchangeInv
<1> DEFINE Inv == OpenedOnce /\ AnsweredOnce /\ DeliversData
<1>1. Init => Inv
  <2>1. Init => DeliversData
    BY DEF Init, DeliversData
  <2> QED BY <2>1, InitOwnInv, Zenon
<1>2. OwnInv /\ Inv /\ [Next]_vars => Inv'
  <2> SUFFICES ASSUME OwnInv, Inv, [Next]_vars PROVE Inv'
    OBVIOUS
  <2>1. TypeOK
    BY DEF OwnInv
  <2> QED BY <2>1, OpenedInductive, DeliversInductive, AnsweredInductive, Zenon
<1>3. OwnInv /\ IDsInOrder /\ Inv => ExchangeInv
  BY DEF OwnInv, ExchangeInv, DeliversData
<1> QED BY <1>1, <1>2, <1>3, EveryFrameHasItsOwner, PTL DEF Spec

\* The gateway's read loop never blocks on a stream, for any number of requests
\* up to the number of stream IDs: the answer it holds is the only one to its
\* request, so that the Response channel has room for it.
THEOREM TheReadLoopNeverBlocks ==
  ASSUME NoReuse
  PROVE  Spec => []DeliveryNeverBlocks
<1>1. ExchangeInv => DeliveryNeverBlocks
  <2> SUFFICES ASSUME ExchangeInv, loop.pc = "deliver" PROVE response[loop.stream] = <<>>
    BY DEF DeliveryNeverBlocks
  <2>1. loop.frame # None /\ loop.stream # None /\ loop.stream \in Request
    BY DEF ExchangeInv, TypeOK, LoopTypeOK
  <2>2. InHand(loop.stream)
    BY <2>1 DEF ExchangeInv, FramesOwn, InHand, IsAnswer
  <2> QED BY <2>1, <2>2, Zenon DEF ExchangeInv, AnsweredOnce
<1> QED BY <1>1, ExchangeInvariant, PTL
=============================================================================
