-------------------------------- MODULE GoClient -------------------------------
(******************************************************************************)
(* client/client.go, and what internal/transport/ws.go and the hub make of    *)
(* its frames.                                                                *)
(*                                                                            *)
(* run owns the connection: it dials, queues a subscribe frame per topic,     *)
(* starts reader and writer, and dials again when the reader has ended.  The  *)
(* goroutines of the application change the topics under Client.mu and queue  *)
(* their frames after they have released it.                                  *)
(*                                                                            *)
(* The server takes a frame when the writer writes it and keeps one position  *)
(* per subscribed topic and connection.  It refuses a second subscribe and    *)
(* one whose backfill cannot be read, and a full channel of the hub or of the *)
(* session drops an event or a response: the channels themselves are not      *)
(* here, whether they were full when something arrived is a choice.  What is  *)
(* in flight is lost with a connection.                                       *)
(******************************************************************************)
EXTENDS Core

CONSTANTS
  Callers,   \* goroutines of the application
  Froms,     \* core.From values they subscribe with
  SendBuf,   \* capacity of sendCh, 256 in the code
  MaxCalls,  \* bound on the calls of the API
  MaxEvents, \* bound on the events of a topic
  MaxFaults, \* bound on lost connections and missed write deadlines
  MaxDrops,  \* bound on failed reads, dropped events and dropped responses
  Closes     \* whether Client.Close may be called

ASSUME SendBufAssumption == SendBuf \in Nat \ {0}
ASSUME ClientBoundsAssumption == {MaxCalls, MaxEvents, MaxFaults, MaxDrops} \subseteq Nat
ASSUME ClientFromsAssumption == Froms \subseteq From
ASSUME ClosesAssumption == Closes \in BOOLEAN

VARIABLES
  run,        \* where run is
  link,       \* the connection: "up" or "down"
  writer,     \* "none", "run" or "exit"
  reader,     \* likewise
  resub,      \* frames of resubscribeAll that are still to be queued
  sendCh,     \* Client.sendCh
  closed,     \* Client.closed, and done
  callbacks,  \* topicSub.callbacks; a topic is in Client.topics iff not empty
  from,       \* topicSub.from
  lastSeen,   \* topicSub.lastSeenSeq
  pending,    \* keys of Client.pending
  answered,   \* requests whose response is in their channel
  at,         \* where a caller is: "idle", "send", "wait"
  frame,      \* the frame it queues or waits for
  calls,      \* calls of the API so far; numbers callbacks and requests
  stream,     \* length of a topic's stream
  upstream,   \* next seq of a topic that reaches the client, 0 without a subscription
  stale,      \* seqs in flight although their subscription has ended
  replies,    \* responses in flight
  refused,    \* topics whose subscribe this connection's session could not serve
  faults,     \* lost connections and missed deadlines so far
  drops,      \* failed reads and drops so far
  dropped,    \* history: seqs dropped since the last event the subscription brought
  handed,     \* history: seq of the event last handed to a topic's callbacks
  entangled   \* history: topics (re)subscribed while older traffic of theirs remained

runVars == <<run, link, writer, reader, resub>>
topicVars == <<callbacks, from, lastSeen, handed>>
requestVars == <<pending, answered>>
callerVars == <<at, frame, calls>>
sessionVars == <<upstream, stale, replies, refused, dropped>>
serverVars == <<stream, sessionVars>>
faultVars == <<faults, drops>>
vars == <<runVars, sendCh, closed, topicVars, requestVars, callerVars, serverVars, faultVars,
          entangled>>

Known(t) == callbacks[t] # {}

(* Dial has connected and starts run.                                         *)
Init ==
  /\ run = "resubscribe" /\ link = "up"
  /\ writer = "none" /\ reader = "none"
  /\ resub = {}
  /\ sendCh = <<>>
  /\ closed = FALSE
  /\ callbacks = [t \in Topics |-> {}]
  /\ from = [t \in Topics |-> None]
  /\ lastSeen = [t \in Topics |-> 0]
  /\ handed = [t \in Topics |-> 0]
  /\ pending = {} /\ answered = {}
  /\ at = [a \in Callers |-> "idle"]
  /\ frame = [a \in Callers |-> None]
  /\ calls = 0
  /\ stream = [t \in Topics |-> 0]
  /\ upstream = [t \in Topics |-> 0]
  /\ stale = [t \in Topics |-> {}] /\ dropped = [t \in Topics |-> {}]
  /\ replies = {} /\ refused = {}
  /\ faults = 0 /\ drops = 0
  /\ entangled = {}

--------------------------------------------------------------------------------
(* Frames                                                                     *)

Unsubscribe(t) == [op |-> "unsubscribe", topic |-> t]
Request(n) == [op |-> "request", id |-> n]

(* A seq to resume from takes precedence over the origin first asked for.     *)
SubscribeFrame(t, f, resume) ==
  [op |-> "subscribe", topic |-> t,
   from |-> IF resume > 0 THEN [kind |-> "seq", value |-> resume] ELSE f]

Concerns(f, t) == f.op # "request" /\ f.topic = t

(* A frame of the topic is queued or about to be, or an older subscription of *)
(* it still sends or has something in flight.                                 *)
Remains(t) ==
  \/ \E i \in 1 .. Len(sendCh) : Concerns(sendCh[i], t)
  \/ \E f \in resub : Concerns(f, t)
  \/ \E a \in Callers : at[a] = "send" /\ Concerns(frame[a], t)
  \/ link = "up" /\ (upstream[t] # 0 \/ stale[t] # {})

(* send: queued when sendCh has room, discarded once the client is closed.    *)
Queue(f) ==
  \/ Len(sendCh) < SendBuf /\ sendCh' = Append(sendCh, f)
  \/ closed /\ UNCHANGED sendCh

--------------------------------------------------------------------------------
(* run                                                                        *)

(* The select of done and time.After: a client that is closed when it gets    *)
(* there never waits for the timer.                                           *)
Backoff ==
  /\ run = "wait"
  /\ ~ closed
  /\ run' = "dial"
  /\ UNCHANGED <<link, writer, reader, resub, sendCh, closed, topicVars, requestVars,
                 callerVars, serverVars, faultVars, entangled>>

Dial ==
  /\ run = "dial"
  /\ run' = "resubscribe"
  /\ link' = "up"
  /\ upstream' = [t \in Topics |-> 0]
  /\ stale' = [t \in Topics |-> {}] /\ dropped' = [t \in Topics |-> {}]
  /\ replies' = {} /\ refused' = {}
  /\ UNCHANGED <<writer, reader, resub, sendCh, closed, topicVars, requestVars, callerVars,
                 stream, faultVars, entangled>>

ResumeFrom(t) == IF lastSeen[t] > 0 THEN lastSeen[t] + 1 ELSE 0

(* Mutant: a new connection starts without subscriptions.                     *)
MakeFrames_None ==
  /\ run = "resubscribe"
  /\ run' = "queueing"
  /\ UNCHANGED <<link, writer, reader, resub, sendCh, closed, topicVars, requestVars,
                 callerVars, serverVars, faultVars, entangled>>

(* resubscribeAll: the frames are made under mu ...                           *)
MakeFrames ==
  /\ run = "resubscribe"
  /\ run' = "queueing"
  /\ resub' = {SubscribeFrame(t, from[t], ResumeFrom(t)) : t \in {u \in Topics : Known(u)}}
  /\ entangled' = entangled \cup {t \in Topics : Known(t) /\ Remains(t)}
  /\ UNCHANGED <<link, writer, reader, sendCh, closed, topicVars, requestVars, callerVars,
                 serverVars, faultVars>>

(* ... and queued one by one, in any order, while nobody drains the queue.    *)
QueueFrame(f) ==
  /\ run = "queueing"
  /\ f \in resub
  /\ Queue(f)
  /\ resub' = resub \ {f}
  /\ UNCHANGED <<run, link, writer, reader, closed, topicVars, requestVars, callerVars,
                 serverVars, faultVars, entangled>>

StartPumps ==
  /\ run = "queueing"
  /\ resub = {}
  /\ run' = "serve"
  /\ writer' = "run" /\ reader' = "run"
  /\ UNCHANGED <<link, resub, sendCh, closed, topicVars, requestVars, callerVars,
                 serverVars, faultVars, entangled>>

(* The reader has ended, or the client is closed: conn.Close().               *)
Disconnect ==
  /\ run = "serve"
  /\ \/ reader = "exit" /\ run' = "drain"
     \/ closed /\ run' = "stop"
  /\ link' = "down"
  /\ UNCHANGED <<writer, reader, resub, sendCh, closed, topicVars, requestVars, callerVars,
                 serverVars, faultVars, entangled>>

(* <-writerDone, before the next dial.                                        *)
Drained ==
  /\ run = "drain"
  /\ writer = "exit"
  /\ run' = "wait"
  /\ UNCHANGED <<link, writer, reader, resub, sendCh, closed, topicVars, requestVars,
                 callerVars, serverVars, faultVars, entangled>>

(* Mutant: only the timer ends the wait before a dial.                        *)
RunEnds_WhenServing ==
  /\ run = "stop" /\ writer = "exit" /\ reader = "exit"
  /\ run' = "end"
  /\ UNCHANGED <<link, writer, reader, resub, sendCh, closed, topicVars, requestVars,
                 callerVars, serverVars, faultVars, entangled>>

RunEnds ==
  /\ \/ run = "wait" /\ closed
     \/ run = "stop" /\ writer = "exit" /\ reader = "exit"
  /\ run' = "end"
  /\ UNCHANGED <<link, writer, reader, resub, sendCh, closed, topicVars, requestVars,
                 callerVars, serverVars, faultVars, entangled>>

RunStep ==
  \/ Backoff \/ Dial \/ MakeFrames \/ (\E f \in resub : QueueFrame(f)) \/ StartPumps
  \/ Disconnect \/ Drained \/ RunEnds

--------------------------------------------------------------------------------
(* writer, and the server behind it                                           *)

(* The first event the server sends: lastn of 0 is everything, and a seq the  *)
(* stream does not have, which 0 is, is no different from latest.             *)
Start(t, f) ==
  CASE f.kind = "latest" -> stream[t] + 1
    [] f.kind = "lastn"  -> IF f.value \in 1 .. stream[t] THEN stream[t] - f.value + 1 ELSE 1
    [] f.kind = "seq"    -> IF f.value \in 1 .. stream[t] THEN f.value ELSE stream[t] + 1

(* A topic the session has gets an error, without a request id and so ignored *)
(* by dispatch.                                                               *)
ServeAgain(t) ==
  /\ upstream[t] # 0
  /\ UNCHANGED <<sessionVars, faultVars>>

ServeSubscribe(t, f) ==
  /\ upstream[t] = 0
  /\ upstream' = [upstream EXCEPT ![t] = Start(t, f)]
  /\ dropped' = [dropped EXCEPT ![t] = {}]
  /\ refused' = refused \ {t}
  /\ UNCHANGED <<stale, replies, faultVars>>

(* The backfill cannot be read: an error that is ignored likewise.            *)
RefuseSubscribe(t, f) ==
  /\ upstream[t] = 0
  /\ f.kind # "latest"
  /\ drops < MaxDrops
  /\ drops' = drops + 1
  /\ refused' = refused \cup {t}
  /\ UNCHANGED <<upstream, dropped, stale, replies, faults>>

(* What the forwarder has passed on still reaches the client.                 *)
ServeUnsubscribe(t) ==
  /\ upstream' = [upstream EXCEPT ![t] = 0]
  /\ refused' = refused \ {t}
  /\ \E sent \in SUBSET (upstream[t] .. stream[t]) :
       stale' = [stale EXCEPT ![t] = IF upstream[t] = 0 THEN @ ELSE @ \cup sent]
  /\ UNCHANGED <<dropped, replies, faultVars>>

ServeRequest(n) ==
  /\ replies' = replies \cup {n}
  /\ UNCHANGED <<upstream, dropped, refused, stale, faultVars>>

Serve(f) ==
  \/ /\ f.op = "subscribe"
     /\ \/ ServeAgain(f.topic)
        \/ ServeSubscribe(f.topic, f.from)
        \/ RefuseSubscribe(f.topic, f.from)
  \/ f.op = "unsubscribe" /\ ServeUnsubscribe(f.topic)
  \/ f.op = "request" /\ ServeRequest(f.id)

WriteFrame ==
  /\ writer = "run" /\ link = "up"
  /\ sendCh # <<>>
  /\ Serve(Head(sendCh))
  /\ sendCh' = Tail(sendCh)
  /\ UNCHANGED <<runVars, closed, topicVars, requestVars, callerVars, stream, entangled>>

(* A failed write loses its frame; a failed ping loses nothing.               *)
WriteFails ==
  /\ writer = "run" /\ link = "down"
  /\ writer' = "exit"
  /\ \/ sendCh # <<>> /\ sendCh' = Tail(sendCh)
     \/ UNCHANGED sendCh
  /\ UNCHANGED <<run, link, reader, resub, closed, topicVars, requestVars, callerVars,
                 serverVars, faultVars, entangled>>

WriterSeesDone ==
  /\ writer = "run" /\ closed
  /\ writer' = "exit"
  /\ UNCHANGED <<run, link, reader, resub, sendCh, closed, topicVars, requestVars, callerVars,
                 serverVars, faultVars, entangled>>

WriterStep == WriteFrame \/ WriteFails \/ WriterSeesDone

--------------------------------------------------------------------------------
(* reader and dispatch                                                        *)

(* Mutant: lastSeenSeq is not kept.                                           *)
Seen_Forgotten(t, n) == 0

Seen(t, n) == IF n > lastSeen[t] THEN n ELSE lastSeen[t]

(* The topic's callbacks get an event; they run once mu is released.          *)
Hand(t, n) ==
  /\ lastSeen' = IF Known(t) THEN [lastSeen EXCEPT ![t] = Seen(t, n)] ELSE lastSeen
  /\ handed' = IF Known(t) THEN [handed EXCEPT ![t] = n] ELSE handed

(* An event arrives ...                                                       *)
DispatchEvent(t) ==
  /\ reader = "run" /\ link = "up"
  /\ upstream[t] \in 1 .. stream[t]
  /\ Hand(t, upstream[t])
  /\ upstream' = [upstream EXCEPT ![t] = @ + 1]
  /\ dropped' = [dropped EXCEPT ![t] = {}]
  /\ UNCHANGED <<runVars, sendCh, closed, callbacks, from, requestVars, callerVars,
                 stream, stale, replies, refused, faultVars, entangled>>

(* ... or one of a subscription that has ended.                               *)
DispatchStale(t, n) ==
  /\ reader = "run" /\ link = "up"
  /\ n \in stale[t]
  /\ Hand(t, n)
  /\ stale' = [stale EXCEPT ![t] = @ \ {n}]
  /\ UNCHANGED <<runVars, sendCh, closed, callbacks, from, requestVars, callerVars,
                 stream, upstream, replies, refused, dropped, faultVars, entangled>>

(* Mutant: the entry stays in pending.                                        *)
DispatchReply_Keeps(n) ==
  /\ reader = "run" /\ link = "up"
  /\ n \in replies
  /\ replies' = replies \ {n}
  /\ answered' = IF n \in pending THEN answered \cup {n} ELSE answered
  /\ UNCHANGED <<runVars, sendCh, closed, topicVars, pending, callerVars, stream, upstream,
                 stale, refused, dropped, faultVars, entangled>>

(* A response finds its request in pending, unless that has given up.         *)
DispatchReply(n) ==
  /\ reader = "run" /\ link = "up"
  /\ n \in replies
  /\ replies' = replies \ {n}
  /\ pending' = pending \ {n}
  /\ answered' = IF n \in pending THEN answered \cup {n} ELSE answered
  /\ UNCHANGED <<runVars, sendCh, closed, topicVars, callerVars, stream, upstream,
                 stale, refused, dropped, faultVars, entangled>>

(* The connection is gone, or no pong came since the writer ended.            *)
ReadFails ==
  /\ reader = "run"
  /\ link = "down" \/ writer = "exit"
  /\ reader' = "exit"
  /\ UNCHANGED <<run, link, writer, resub, sendCh, closed, topicVars, requestVars, callerVars,
                 serverVars, faultVars, entangled>>

ReaderStep ==
  \/ \E t \in Topics : DispatchEvent(t) \/ \E n \in stale[t] : DispatchStale(t, n)
  \/ \E n \in replies : DispatchReply(n)
  \/ ReadFails

--------------------------------------------------------------------------------
(* The application                                                            *)

Calls(a) ==
  /\ at[a] = "idle"
  /\ calls < MaxCalls
  /\ calls' = calls + 1

Sends(a, f) ==
  /\ at' = [at EXCEPT ![a] = "send"]
  /\ frame' = [frame EXCEPT ![a] = f]

(* Subscribe: only the first callback of a topic opens it upstream.           *)
Subscribe(a, t, f) ==
  /\ Calls(a)
  /\ callbacks' = [callbacks EXCEPT ![t] = @ \cup {calls + 1}]
  /\ IF Known(t)
     THEN UNCHANGED <<from, lastSeen, handed, at, frame, entangled>>
     ELSE /\ from' = [from EXCEPT ![t] = f]
          /\ lastSeen' = [lastSeen EXCEPT ![t] = 0]
          /\ handed' = [handed EXCEPT ![t] = 0]
          /\ Sends(a, SubscribeFrame(t, f, 0))
          /\ entangled' = IF Remains(t) THEN entangled \cup {t} ELSE entangled
  /\ UNCHANGED <<runVars, sendCh, closed, requestVars, serverVars, faultVars>>

(* Handle.Close: the last callback takes the topic with it.                   *)
CloseHandle(a, t, n) ==
  /\ at[a] = "idle"
  /\ n \in callbacks[t]
  /\ callbacks' = [callbacks EXCEPT ![t] = @ \ {n}]
  /\ IF callbacks[t] = {n}
     THEN Sends(a, Unsubscribe(t))
     ELSE UNCHANGED <<at, frame>>
  /\ UNCHANGED <<runVars, sendCh, closed, from, lastSeen, handed, requestVars, calls, serverVars,
                 faultVars, entangled>>

(* Publish and GetState: request registers before it sends ...                *)
BeginRequest(a) ==
  /\ Calls(a)
  /\ pending' = pending \cup {calls + 1}
  /\ Sends(a, Request(calls + 1))
  /\ UNCHANGED <<runVars, sendCh, closed, topicVars, answered, serverVars, faultVars, entangled>>

Send(a) ==
  /\ at[a] = "send"
  /\ Queue(frame[a])
  /\ at' = [at EXCEPT ![a] = IF frame[a].op = "request" THEN "wait" ELSE "idle"]
  /\ frame' = [frame EXCEPT ![a] = IF frame[a].op = "request" THEN @ ELSE None]
  /\ UNCHANGED <<runVars, closed, topicVars, requestVars, calls, serverVars, faultVars, entangled>>

(* ... then waits for the response or for its context.                        *)
LeaveRequest(a) ==
  /\ at[a] = "wait"
  /\ answered' = answered \ {frame[a].id}
  /\ at' = [at EXCEPT ![a] = "idle"]
  /\ frame' = [frame EXCEPT ![a] = None]
  /\ UNCHANGED <<runVars, sendCh, closed, topicVars, calls, serverVars, faultVars, entangled>>

TakeResponse(a) ==
  /\ LeaveRequest(a)
  /\ frame[a].id \in answered
  /\ UNCHANGED pending

GiveUp(a) ==
  /\ LeaveRequest(a)
  /\ pending' = pending \ {frame[a].id}

CallerStep(a) == Send(a) \/ TakeResponse(a)

(* Client.Close                                                               *)
CloseClient ==
  /\ Closes
  /\ ~ closed
  /\ closed' = TRUE
  /\ UNCHANGED <<runVars, sendCh, topicVars, requestVars, callerVars, serverVars, faultVars, entangled>>

--------------------------------------------------------------------------------
(* The world                                                                  *)

Ingest(t) ==
  /\ stream[t] < MaxEvents
  /\ stream' = [stream EXCEPT ![t] = @ + 1]
  /\ UNCHANGED <<runVars, sendCh, closed, topicVars, requestVars, callerVars, sessionVars,
                 faultVars, entangled>>

(* The subscription's channel was full when the event came, or the session's  *)
(* when its frame did; dispatch ignores the lagging frame that may follow.    *)
DropEvent(t) ==
  /\ link = "up"
  /\ upstream[t] \in 1 .. stream[t]
  /\ drops < MaxDrops
  /\ drops' = drops + 1
  /\ dropped' = [dropped EXCEPT ![t] = @ \cup {upstream[t]}]
  /\ upstream' = [upstream EXCEPT ![t] = @ + 1]
  /\ UNCHANGED <<runVars, sendCh, closed, topicVars, requestVars, callerVars, stream, stale,
                 replies, refused, faults, entangled>>

(* The session's channel was full when the response came.                     *)
DropReply(n) ==
  /\ link = "up"
  /\ n \in replies
  /\ drops < MaxDrops
  /\ drops' = drops + 1
  /\ replies' = replies \ {n}
  /\ UNCHANGED <<runVars, sendCh, closed, topicVars, requestVars, callerVars, stream, upstream,
                 stale, refused, dropped, faults, entangled>>

LoseLink ==
  /\ link = "up"
  /\ faults < MaxFaults
  /\ faults' = faults + 1
  /\ link' = "down"
  /\ UNCHANGED <<run, writer, reader, resub, sendCh, closed, topicVars, requestVars, callerVars,
                 serverVars, drops, entangled>>

(* A write misses its deadline although the connection still delivers.        *)
WriteTimeout ==
  /\ writer = "run" /\ link = "up"
  /\ sendCh # <<>>
  /\ faults < MaxFaults
  /\ faults' = faults + 1
  /\ sendCh' = Tail(sendCh)
  /\ writer' = "exit"
  /\ UNCHANGED <<run, link, reader, resub, closed, topicVars, requestVars, callerVars,
                 serverVars, drops, entangled>>

Next ==
  \/ RunStep \/ WriterStep \/ ReaderStep
  \/ CloseClient \/ LoseLink \/ WriteTimeout
  \/ \E t \in Topics : Ingest(t) \/ DropEvent(t)
  \/ \E n \in replies : DropReply(n)
  \/ \E a \in Callers :
       \/ CallerStep(a) \/ GiveUp(a)
       \/ BeginRequest(a)
       \/ \E t \in Topics :
            \/ \E f \in Froms : Subscribe(a, t, f)
            \/ \E n \in callbacks[t] : CloseHandle(a, t, n)

(* Goroutines run, and a dial succeeds sooner or later.  Faults and calls     *)
(* need not happen, and the context of a request need not end.                *)
Fairness ==
  /\ WF_vars(RunStep) /\ WF_vars(WriterStep) /\ WF_vars(ReaderStep)
  /\ \A a \in Callers : WF_vars(CallerStep(a))

Spec == Init /\ [][Next]_vars /\ Fairness

--------------------------------------------------------------------------------
(* Properties                                                                 *)

(* Nothing is queued, in the making or on a connection about to be replaced.  *)
Settled ==
  /\ ~ closed
  /\ run = "serve" /\ link = "up" /\ writer = "run" /\ reader = "run"
  /\ sendCh = <<>>
  /\ \A a \in Callers : at[a] # "send"

(* With one goroutine calling the API, a topic that has callbacks is          *)
(* subscribed upstream whenever things have settled, whatever the calls, the  *)
(* reconnects and the resubscriptions that ran between them, unless the       *)
(* server could not read the backfill that was asked for: nothing tells the   *)
(* client so (client.go:259-286, 331-351, 368-384, 409-423; ws.go:193-196).   *)
CallbacksServed == Settled => \A t \in Topics : Known(t) => upstream[t] # 0 \/ t \in refused

(* "on drop the client re-subscribes each topic from the last seq it          *)
(* observed, so callers see no gap" (client.go:3-5): once a callback has seen *)
(* an event, the next one it sees is the next one of the stream, across any   *)
(* loss of the connection, but for those the server dropped before it on this *)
(* connection: they are skipped, and nothing else is (hub.go:116-120,         *)
(* ws.go:108-115, client.go:287-288).  Not so when the topic was subscribed   *)
(* while older traffic of its own remained: a stale frame may win on the new  *)
(* connection, and events of an old subscription pass for those of the new.   *)
ResumesExactly ==
  [][\A t \in Topics \ entangled :
       Known(t) /\ handed[t] > 0 =>
         /\ DispatchEvent(t) => /\ handed'[t] > handed[t]
                               /\ handed[t] + 1 .. handed'[t] - 1 = dropped[t]
         /\ handed'[t] # handed[t] => DispatchEvent(t) \/ handed'[t] = 0]_vars

(* The table of requests holds exactly those that still wait: none leaks when *)
(* a response races with a deadline or a connection is lost                   *)
(* (client.go:267-286, 303-322).                                              *)
PendingExact ==
  pending = {frame[a].id : a \in {b \in Callers :
               at[b] # "idle" /\ frame[b].op = "request" /\ frame[b].id \notin answered}}

(* A lost connection is replaced and every topic is subscribed again, as long *)
(* as the queue holds what is to be sent and the server can read the backfill *)
(* of the topic (client.go:156-197, 409-423; ws.go:193-196).                  *)
Recovers ==
  \A t \in Topics :
    Known(t) ~> (upstream[t] # 0 /\ link = "up") \/ t \in refused \/ ~ Known(t) \/ closed

(* Close ends run, writer and reader wherever they are, and releases every    *)
(* caller from send (client.go:128-134, 156-197, 294-299).  A request that    *)
(* waits for its response is released by its own context, not by Close        *)
(* (client.go:313-321).                                                       *)
CloseEnds ==
  closed ~> /\ run = "end"
            /\ writer # "run" /\ reader # "run"
            /\ \A a \in Callers : at[a] # "send"

================================================================================
