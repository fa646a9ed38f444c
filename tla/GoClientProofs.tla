------------------------------ MODULE GoClientProofs -----------------------------
(******************************************************************************)
(* Proofs about the Go client: its table of requests, the topics it has       *)
(* subscribed when things have settled, and the event a callback sees next.   *)
(* Topics, callers, origins and bounds are arbitrary.                         *)
(******************************************************************************)
EXTENDS GoClient, SequenceTheorems, TLAPS

Outgoing ==
  [op : {"subscribe"}, topic : Topics, from : From]
    \cup [op : {"unsubscribe"}, topic : Topics]
    \cup [op : {"request"}, id : Nat]

ClientTypeOK ==
  /\ run \in {"resubscribe", "queueing", "serve", "drain", "stop", "wait", "dial", "end"}
  /\ link \in {"up", "down"}
  /\ writer \in {"none", "run", "exit"}
  /\ resub \subseteq Outgoing
  /\ sendCh \in Seq(Outgoing)
  /\ callbacks \in [Topics -> SUBSET Nat]
  /\ from \in [Topics -> From \cup {None}]
  /\ lastSeen \in [Topics -> Nat]
  /\ handed \in [Topics -> Nat]
  /\ at \in [Callers -> {"idle", "send", "wait"}]
  /\ frame \in [Callers -> Outgoing \cup {None}]
  /\ calls \in Nat
  /\ stream \in [Topics -> Nat]
  /\ upstream \in [Topics -> Nat]
  /\ stale \in [Topics -> SUBSET Nat]
  /\ dropped \in [Topics -> SUBSET Nat]
  /\ \A t \in Topics : Known(t) => from[t] \in From
  /\ \A a \in Callers : at[a] # "idle" => frame[a] \in Outgoing

(* A request has a number of its own, and an answer waits for its caller.     *)
Asks(a) == at[a] # "idle" /\ frame[a].op = "request"

(* The caller leaves, with its response or without.                           *)
EndRequest(a) == TakeResponse(a) \/ GiveUp(a)

RequestInv ==
  /\ \A a \in Callers : Asks(a) => frame[a].id \in 1 .. calls
  /\ \A a, b \in Callers : Asks(a) /\ Asks(b) /\ frame[a].id = frame[b].id => a = b
  /\ \A a \in Callers : at[a] = "wait" => frame[a].op = "request"
  /\ answered \subseteq 1 .. calls
  /\ PendingExact

--------------------------------------------------------------------------------
Brings(f, t) == f.op = "subscribe" /\ f.topic = t
Ends(f, t) == f.op = "unsubscribe" /\ f.topic = t

(* The pumps run while run serves, and resub is used up before that.          *)
RunInv ==
  /\ writer = "run" => run \in {"serve", "drain", "stop"}
  /\ resub # {} => run = "queueing"
  /\ \A f \in resub : f.op = "subscribe"

(* A single caller that is about to unsubscribe a topic has just removed it.  *)
LeaveInv ==
  \A a \in Callers, t \in Topics : at[a] = "send" /\ Ends(frame[a], t) => ~ Known(t)

(* The last frame of the topic that the server gets, or has got, subscribes,  *)
(* and the server sends the topic or could not read it.                       *)
Taken(t) == upstream[t] # 0 \/ t \in refused

BroughtFromQueue(t) ==
  \E i \in 1 .. Len(sendCh) :
    Brings(sendCh[i], t) /\ \A j \in 1 .. Len(sendCh) : j > i => ~ Ends(sendCh[j], t)

Brought(t) ==
  \/ \E f \in resub : Brings(f, t)
  \/ \E a \in Callers : at[a] = "send" /\ Brings(frame[a], t)
  \/ BroughtFromQueue(t)
  \/ Taken(t) /\ \A i \in 1 .. Len(sendCh) : ~ Ends(sendCh[i], t)

(* The connection is good, or was when its subscriptions were made.           *)
Healthy ==
  /\ ~ closed
  /\ link = "up"
  /\ run = "queueing" \/ (run = "serve" /\ writer = "run")

ServedInv ==
  /\ RunInv
  /\ LeaveInv
  /\ Healthy => \A t \in Topics : Known(t) => Brought(t)

--------------------------------------------------------------------------------
(* The frames of a topic that are still to be written, by where they are.     *)
InQueue(t) == {i \in 1 .. Len(sendCh) : Concerns(sendCh[i], t)}
InResub(t) == {f \in resub : Concerns(f, t)}
InHand(t) == {a \in Callers : at[a] = "send" /\ Concerns(frame[a], t)}

Nothing(t) == InQueue(t) = {} /\ InResub(t) = {} /\ InHand(t) = {}

(* There is at most one ...                                                   *)
Single(t) ==
  /\ \A i, j \in InQueue(t) : i = j
  /\ \A f, g \in InResub(t) : f = g
  /\ \A a, b \in InHand(t) : a = b
  /\ InQueue(t) = {} \/ InResub(t) = {}
  /\ InQueue(t) = {} \/ InHand(t) = {}
  /\ InResub(t) = {} \/ InHand(t) = {}

(* ... which asks for what follows the last event handed out ...              *)
Resumes(f, t) ==
  /\ f.op = "subscribe"
  /\ handed[t] > 0 => f.from = [kind |-> "seq", value |-> handed[t] + 1]

AllResume(t) ==
  /\ \A i \in InQueue(t) : Resumes(sendCh[i], t)
  /\ \A f \in InResub(t) : Resumes(f, t)
  /\ \A a \in InHand(t) : Resumes(frame[a], t)

(* ... and none once the server sends: what lies between the last event       *)
(* handed out and the next one was dropped.                                   *)
Skips(t) == upstream[t] > handed[t] /\ dropped[t] = handed[t] + 1 .. upstream[t] - 1

Clean(t) ==
  /\ Single(t) /\ AllResume(t)
  /\ handed[t] = lastSeen[t] /\ handed[t] <= stream[t]
  /\ link = "up" => stale[t] = {}
  /\ link = "up" /\ upstream[t] # 0 => Nothing(t) /\ (handed[t] > 0 => Skips(t))

ResumeInv == \A t \in Topics \ entangled : Known(t) => Clean(t)

--------------------------------------------------------------------------------
(* Frames and the queue of frames.                                            *)
LEMMA OutgoingCases ==
  ASSUME NEW f \in Outgoing
  PROVE  /\ f.op \in {"subscribe", "unsubscribe", "request"}
         /\ f.op = "subscribe" => f.topic \in Topics /\ f.from \in From
         /\ f.op = "unsubscribe" => f.topic \in Topics
         /\ f.op = "request" => f.id \in Nat
BY DEF Outgoing

LEMMA MadeFrames ==
  /\ \A t \in Topics : /\ Unsubscribe(t) \in Outgoing
                       /\ Unsubscribe(t).op = "unsubscribe" /\ Unsubscribe(t).topic = t
  /\ \A n \in Nat : /\ Request(n) \in Outgoing
                    /\ Request(n).op = "request" /\ Request(n).id = n
  /\ \A t \in Topics, f \in From, n \in Nat :
       /\ SubscribeFrame(t, f, n) \in Outgoing
       /\ SubscribeFrame(t, f, n).op = "subscribe" /\ SubscribeFrame(t, f, n).topic = t
       /\ n > 0 => SubscribeFrame(t, f, n).from = [kind |-> "seq", value |-> n]
<1>1. \A n \in Nat : [kind |-> "seq", value |-> n] \in From
  BY DEF From
<1>2. ASSUME NEW t \in Topics
      PROVE  /\ Unsubscribe(t) \in Outgoing
             /\ Unsubscribe(t).op = "unsubscribe" /\ Unsubscribe(t).topic = t
  BY DEF Unsubscribe, Outgoing
<1>3. ASSUME NEW n \in Nat
      PROVE  /\ Request(n) \in Outgoing
             /\ Request(n).op = "request" /\ Request(n).id = n
  BY DEF Request, Outgoing
<1>4. ASSUME NEW t \in Topics, NEW f \in From, NEW n \in Nat
      PROVE  /\ SubscribeFrame(t, f, n) \in Outgoing
             /\ SubscribeFrame(t, f, n).op = "subscribe" /\ SubscribeFrame(t, f, n).topic = t
             /\ n > 0 => SubscribeFrame(t, f, n).from = [kind |-> "seq", value |-> n]
  <2>. DEFINE g == IF n > 0 THEN [kind |-> "seq", value |-> n] ELSE f
  <2>1. g \in From /\ SubscribeFrame(t, f, n) = [op |-> "subscribe", topic |-> t, from |-> g]
    BY <1>1 DEF SubscribeFrame
  <2>2. n > 0 => g = [kind |-> "seq", value |-> n]
    OBVIOUS
  <2>. HIDE DEF g
  <2>. QED BY <2>1, <2>2 DEF Outgoing
<1>. QED BY <1>2, <1>3, <1>4

(* What Queue does, unless the client is closed ...                           *)
Queues(f) ==
  LET n == Len(sendCh) IN
  /\ n \in Nat /\ Len(sendCh') = n + 1
  /\ \A i \in 1 .. n : sendCh'[i] = sendCh[i]
  /\ sendCh'[n + 1] = f

LEMMA QueueFacts ==
  ASSUME sendCh \in Seq(Outgoing), NEW f \in Outgoing, Queue(f)
  PROVE  /\ sendCh' \in Seq(Outgoing)
         /\ Queues(f) \/ (closed /\ sendCh' = sendCh)
<1>1. Len(sendCh) \in Nat
  BY LenProperties
<1>2. CASE sendCh' = Append(sendCh, f)
  BY <1>1, <1>2, AppendProperties DEF Queues
<1>3. CASE closed /\ sendCh' = sendCh
  BY <1>3
<1>. QED BY <1>2, <1>3 DEF Queue

(* ... and what taking the first frame off it does.                           *)
Shifts ==
  LET n == Len(sendCh') IN
  /\ n \in Nat /\ Len(sendCh) = n + 1
  /\ \A i \in 1 .. n : sendCh'[i] = sendCh[i + 1]

LEMMA TailFacts ==
  ASSUME sendCh \in Seq(Outgoing), sendCh # <<>>, sendCh' = Tail(sendCh)
  PROVE  /\ sendCh' \in Seq(Outgoing) /\ Shifts
         /\ Head(sendCh) = sendCh[1] /\ sendCh[1] \in Outgoing
<1>1. Len(sendCh) \in Nat /\ Len(sendCh) # 0
  BY EmptySeq, LenProperties
<1>2. sendCh' \in Seq(Outgoing) /\ Len(sendCh') = Len(sendCh) - 1
      /\ \A i \in 1 .. Len(sendCh') : sendCh'[i] = sendCh[i + 1]
  BY HeadTailProperties
<1>3. sendCh[1] \in Outgoing /\ Head(sendCh) = sendCh[1]
  BY <1>1, ElementOfSeq
<1>. QED BY <1>1, <1>2, <1>3 DEF Shifts

--------------------------------------------------------------------------------
(* The types of the client's variables.                                       *)
LEMMA ClientTypeInit == Init => ClientTypeOK
<1>1. <<>> \in Seq(Outgoing)
  BY EmptySeq
<1>. QED BY <1>1 DEF Init, ClientTypeOK, Known

LEMMA ResumeType ==
  ASSUME ClientTypeOK
  PROVE  \A t \in Topics : ResumeFrom(t) \in Nat
<1>1. \A t \in Topics : lastSeen[t] \in Nat
  BY DEF ClientTypeOK
<1>2. ASSUME NEW t \in Topics PROVE ResumeFrom(t) \in Nat
  <2>1. lastSeen[t] \in Nat
    BY <1>1
  <2>2. ResumeFrom(t) = lastSeen[t] + 1 \/ ResumeFrom(t) = 0
    BY DEF ResumeFrom
  <2>. HIDE DEF ResumeFrom
  <2>. QED BY <2>1, <2>2
<1>. QED BY <1>2

LEMMA RunType ==
  ASSUME ClientTypeOK, RunStep
  PROVE  ClientTypeOK'
<1>. USE DEF ClientTypeOK, topicVars, callerVars, requestVars, serverVars, sessionVars
<1>1. CASE Backoff
  BY <1>1 DEF Backoff, Known
<1>2. CASE Dial
  BY <1>2 DEF Dial, Known
<1>3. CASE MakeFrames
  <2>1. \A t \in Topics : Known(t) => SubscribeFrame(t, from[t], ResumeFrom(t)) \in Outgoing
    <3>1. \A t \in Topics : Known(t) => from[t] \in From
      OBVIOUS
    <3>. QED BY <3>1, ResumeType, MadeFrames
  <2>2. resub' \subseteq Outgoing
    BY <1>3, <2>1 DEF MakeFrames
  <2>. QED BY <1>3, <2>2 DEF MakeFrames, Known
<1>4. ASSUME NEW f \in resub, QueueFrame(f) PROVE ClientTypeOK'
  <2>1. sendCh' \in Seq(Outgoing)
    BY <1>4, QueueFacts DEF QueueFrame
  <2>. QED BY <1>4, <2>1 DEF QueueFrame, Known
<1>5. CASE StartPumps
  BY <1>5 DEF StartPumps, Known
<1>6. CASE Disconnect
  BY <1>6 DEF Disconnect, Known
<1>7. CASE Drained
  BY <1>7 DEF Drained, Known
<1>8. CASE RunEnds
  BY <1>8 DEF RunEnds, Known
<1>. QED BY <1>1, <1>2, <1>3, <1>4, <1>5, <1>6, <1>7, <1>8 DEF RunStep

(* What the server does with a frame.                                         *)
LEMMA StartIsSeq ==
  ASSUME ClientTypeOK, NEW t \in Topics, NEW f \in From
  PROVE  /\ Start(t, f) \in Nat \ {0}
         /\ f.kind = "seq" /\ f.value \in 1 .. stream[t] + 1 => Start(t, f) = f.value
<1>1. stream[t] \in Nat /\ f.value \in Nat /\ f.kind \in {"latest", "lastn", "seq"}
  BY DEF ClientTypeOK, From
<1>. QED BY <1>1 DEF Start

Started(t, f) ==
  /\ upstream[t] = 0 /\ upstream'[t] = Start(t, f.from)
  /\ dropped'[t] = {}

LEMMA ServeFacts ==
  ASSUME ClientTypeOK, NEW f \in Outgoing, Serve(f)
  PROVE  /\ upstream' \in [Topics -> Nat]
         /\ stale' \in [Topics -> SUBSET Nat] /\ dropped' \in [Topics -> SUBSET Nat]
         /\ \A t \in Topics : ~ Concerns(f, t) =>
              /\ upstream'[t] = upstream[t] /\ stale'[t] = stale[t] /\ dropped'[t] = dropped[t]
              /\ t \in refused => t \in refused'
         /\ \A t \in Topics : Brings(f, t) =>
              /\ \/ upstream[t] # 0 /\ upstream'[t] = upstream[t]
                 \/ Started(t, f)
                 \/ upstream[t] = 0 /\ upstream'[t] = 0 /\ t \in refused'
              /\ stale'[t] = stale[t]
<1>1. /\ upstream \in [Topics -> Nat] /\ stream \in [Topics -> Nat]
      /\ stale \in [Topics -> SUBSET Nat] /\ dropped \in [Topics -> SUBSET Nat]
  BY DEF ClientTypeOK
<1>. DEFINE u == f.topic
<1>2. CASE f.op = "subscribe"
  <2>1. u \in Topics /\ f.from \in From
    BY <1>2, OutgoingCases
  <2>2. Start(u, f.from) \in Nat
    BY <2>1, StartIsSeq
  <2>3. \A t : Concerns(f, t) <=> t = u
    BY <1>2 DEF Concerns
  <2>4. \A t : Brings(f, t) <=> t = u
    BY <1>2 DEF Brings
  <2>5. ServeAgain(u) \/ ServeSubscribe(u, f.from) \/ RefuseSubscribe(u, f.from)
    BY <1>2 DEF Serve
  <2>. HIDE DEF u
  <2>6. CASE ServeAgain(u)
    BY <1>1, <2>1, <2>3, <2>4, <2>6 DEF ServeAgain, sessionVars
  <2>7. CASE ServeSubscribe(u, f.from)
    BY <1>1, <2>1, <2>2, <2>3, <2>4, <2>7 DEF ServeSubscribe, Started
  <2>8. CASE RefuseSubscribe(u, f.from)
    BY <1>1, <2>1, <2>3, <2>4, <2>8 DEF RefuseSubscribe
  <2>. QED BY <2>5, <2>6, <2>7, <2>8
<1>3. CASE f.op = "unsubscribe"
  <2>1. u \in Topics
    BY <1>3, OutgoingCases
  <2>2. \A t : Concerns(f, t) <=> t = u
    BY <1>3 DEF Concerns
  <2>3. \A t : ~ Brings(f, t)
    BY <1>3 DEF Brings
  <2>4. ServeUnsubscribe(u)
    BY <1>3 DEF Serve
  <2>. HIDE DEF u
  <2>5. PICK sent \in SUBSET (upstream[u] .. stream[u]) :
          stale' = [stale EXCEPT ![u] = IF upstream[u] = 0 THEN @ ELSE @ \cup sent]
    BY <2>4 DEF ServeUnsubscribe
  <2>6. sent \in SUBSET Nat
    BY <1>1, <2>1
  <2>7. stale' \in [Topics -> SUBSET Nat] /\ \A t \in Topics : t # u => stale'[t] = stale[t]
    BY <1>1, <2>1, <2>5, <2>6
  <2>8. /\ upstream' = [upstream EXCEPT ![u] = 0] /\ dropped' = dropped
        /\ refused' = refused \ {u}
    BY <2>4 DEF ServeUnsubscribe
  <2>. QED BY <1>1, <2>1, <2>2, <2>3, <2>7, <2>8
<1>4. CASE f.op = "request"
  <2>1. UNCHANGED <<upstream, dropped, stale, refused>>
    BY <1>4 DEF Serve, ServeRequest
  <2>2. \A t : ~ Brings(f, t)
    BY <1>4 DEF Brings
  <2>. QED BY <1>1, <2>1, <2>2
<1>. QED BY <1>2, <1>3, <1>4, OutgoingCases

LEMMA HandFacts ==
  ASSUME ClientTypeOK, NEW t \in Topics, NEW n \in Nat, Hand(t, n)
  PROVE  /\ lastSeen' \in [Topics -> Nat] /\ handed' \in [Topics -> Nat]
         /\ \A u \in Topics : u # t => lastSeen'[u] = lastSeen[u] /\ handed'[u] = handed[u]
         /\ Known(t) => lastSeen'[t] = Seen(t, n) /\ handed'[t] = n
<1>1. lastSeen \in [Topics -> Nat] /\ handed \in [Topics -> Nat]
  BY DEF ClientTypeOK
<1>2. Seen(t, n) \in Nat
  BY <1>1 DEF Seen
<1>. QED BY <1>1, <1>2 DEF Hand

LEMMA PumpType ==
  ASSUME ClientTypeOK, WriterStep \/ ReaderStep
  PROVE  ClientTypeOK'
<1>. USE DEF ClientTypeOK, runVars, topicVars, callerVars, requestVars
<1>1. CASE WriteFrame
  <2>1. sendCh' \in Seq(Outgoing) /\ upstream' \in [Topics -> Nat]
        /\ stale' \in [Topics -> SUBSET Nat] /\ dropped' \in [Topics -> SUBSET Nat]
    BY <1>1, TailFacts, ServeFacts DEF WriteFrame
  <2>. QED BY <1>1, <2>1 DEF WriteFrame, Known
<1>2. CASE WriteFails
  <2>1. sendCh' \in Seq(Outgoing)
    BY <1>2, TailFacts DEF WriteFails
  <2>. QED BY <1>2, <2>1 DEF WriteFails, Known, serverVars, sessionVars
<1>3. CASE WriterSeesDone
  BY <1>3 DEF WriterSeesDone, Known, serverVars, sessionVars
<1>4. ASSUME NEW t \in Topics, DispatchEvent(t) PROVE ClientTypeOK'
  <2>1. upstream[t] \in Nat /\ Hand(t, upstream[t])
    BY <1>4 DEF DispatchEvent
  <2>2. lastSeen' \in [Topics -> Nat] /\ handed' \in [Topics -> Nat]
    BY <2>1, HandFacts
  <2>3. upstream' \in [Topics -> Nat] /\ dropped' \in [Topics -> SUBSET Nat]
    BY <1>4 DEF DispatchEvent
  <2>. QED BY <1>4, <2>2, <2>3 DEF DispatchEvent, Known
<1>5. ASSUME NEW t \in Topics, NEW n \in stale[t], DispatchStale(t, n) PROVE ClientTypeOK'
  <2>1. n \in Nat /\ Hand(t, n)
    BY <1>5 DEF DispatchStale
  <2>2. lastSeen' \in [Topics -> Nat] /\ handed' \in [Topics -> Nat]
    BY <2>1, HandFacts
  <2>3. stale' \in [Topics -> SUBSET Nat]
    BY <1>5 DEF DispatchStale
  <2>. QED BY <1>5, <2>2, <2>3 DEF DispatchStale, Known
<1>6. ASSUME NEW n \in replies, DispatchReply(n) PROVE ClientTypeOK'
  BY <1>6 DEF DispatchReply, Known
<1>7. CASE ReadFails
  BY <1>7 DEF ReadFails, Known, serverVars, sessionVars
<1>. QED BY <1>1, <1>2, <1>3, <1>4, <1>5, <1>6, <1>7 DEF WriterStep, ReaderStep

LEMMA CallerType ==
  ASSUME ClientTypeOK, NEW a \in Callers,
         \/ CallerStep(a) \/ GiveUp(a) \/ BeginRequest(a)
         \/ \E t \in Topics : \/ \E f \in Froms : Subscribe(a, t, f)
                              \/ \E n \in callbacks[t] : CloseHandle(a, t, n)
  PROVE  ClientTypeOK'
<1>. USE DEF ClientTypeOK, runVars, topicVars, callerVars, requestVars, serverVars, sessionVars
<1>1. CASE Send(a)
  <2>1. sendCh' \in Seq(Outgoing)
    BY <1>1, QueueFacts DEF Send
  <2>. QED BY <1>1, <2>1 DEF Send, Known
<1>2. CASE EndRequest(a)
  BY <1>2 DEF EndRequest, TakeResponse, GiveUp, LeaveRequest, Known
<1>3. CASE BeginRequest(a)
  <2>1. Request(calls + 1) \in Outgoing
    <3>1. calls + 1 \in Nat
      OBVIOUS
    <3>. QED BY <3>1, MadeFrames
  <2>. QED BY <1>3, <2>1 DEF BeginRequest, Calls, Sends, Known
<1>4. ASSUME NEW t \in Topics, NEW f \in Froms, Subscribe(a, t, f) PROVE ClientTypeOK'
  <2>1. f \in From /\ SubscribeFrame(t, f, 0) \in Outgoing
    BY ClientFromsAssumption, MadeFrames
  <2>2. callbacks' \in [Topics -> SUBSET Nat] /\ calls' \in Nat
    BY <1>4 DEF Subscribe, Calls
  <2>3. CASE Known(t)
    BY <1>4, <2>2, <2>3 DEF Subscribe, Known
  <2>4. CASE ~ Known(t)
    <3>1. /\ at' = [at EXCEPT ![a] = "send"]
          /\ frame' = [frame EXCEPT ![a] = SubscribeFrame(t, f, 0)]
          /\ from' = [from EXCEPT ![t] = f] /\ lastSeen' = [lastSeen EXCEPT ![t] = 0]
          /\ handed' = [handed EXCEPT ![t] = 0]
          /\ UNCHANGED <<runVars, sendCh, stream, upstream, stale, dropped>>
      BY <1>4, <2>4 DEF Subscribe, Sends
    <3>2. frame' \in [Callers -> Outgoing \cup {None}]
          /\ \A b \in Callers : at'[b] # "idle" => frame'[b] \in Outgoing
      BY <2>1, <3>1
    <3>3. \A u \in Topics : Known(u)' => from'[u] \in From
      BY <1>4, <2>1, <3>1 DEF Subscribe, Known
    <3>. QED BY <2>1, <2>2, <3>1, <3>2, <3>3
  <2>. QED BY <2>3, <2>4
<1>5. ASSUME NEW t \in Topics, NEW n \in callbacks[t], CloseHandle(a, t, n) PROVE ClientTypeOK'
  <2>1. Unsubscribe(t) \in Outgoing
    BY MadeFrames
  <2>2. callbacks' \in [Topics -> SUBSET Nat] /\ \A u \in Topics : callbacks'[u] \subseteq callbacks[u]
    BY <1>5 DEF CloseHandle
  <2>3. /\ at' \in [Callers -> {"idle", "send", "wait"}]
        /\ frame' \in [Callers -> Outgoing \cup {None}]
        /\ \A b \in Callers : at'[b] # "idle" => frame'[b] \in Outgoing
    <3>1. \/ UNCHANGED <<at, frame>>
          \/ /\ at' = [at EXCEPT ![a] = "send"]
             /\ frame' = [frame EXCEPT ![a] = Unsubscribe(t)]
      BY <1>5 DEF CloseHandle, Sends
    <3>. QED BY <2>1, <3>1
  <2>4. \A u \in Topics : Known(u)' => from'[u] \in From
    BY <1>5, <2>2 DEF CloseHandle, Known
  <2>. QED BY <1>5, <2>2, <2>3, <2>4 DEF CloseHandle
<1>. QED BY <1>1, <1>2, <1>3, <1>4, <1>5 DEF CallerStep, EndRequest

LEMMA ClientTypeStep ==
  ASSUME ClientTypeOK, [Next]_vars
  PROVE  ClientTypeOK'
<1>. USE DEF runVars, topicVars, callerVars, requestVars, serverVars, sessionVars
<1>1. CASE CloseClient \/ LoseLink \/ UNCHANGED vars
  BY <1>1 DEF CloseClient, LoseLink, vars, ClientTypeOK, Known
<1>2. CASE WriteTimeout
  <2>1. sendCh' \in Seq(Outgoing)
    BY <1>2, TailFacts DEF WriteTimeout, ClientTypeOK
  <2>. QED BY <1>2, <2>1 DEF WriteTimeout, ClientTypeOK, Known
<1>3. ASSUME NEW t \in Topics, Ingest(t) PROVE ClientTypeOK'
  BY <1>3 DEF Ingest, ClientTypeOK, Known
<1>6. ASSUME NEW t \in Topics, DropEvent(t) PROVE ClientTypeOK'
  <2>1. upstream[t] \in Nat /\ upstream' \in [Topics -> Nat] /\ dropped' \in [Topics -> SUBSET Nat]
    BY <1>6 DEF DropEvent, ClientTypeOK
  <2>. QED BY <1>6, <2>1 DEF DropEvent, ClientTypeOK, Known
<1>7. ASSUME NEW n \in replies, DropReply(n) PROVE ClientTypeOK'
  BY <1>7 DEF DropReply, ClientTypeOK, Known
<1>4. CASE RunStep
  BY <1>4, RunType
<1>5. CASE WriterStep \/ ReaderStep
  BY <1>5, PumpType
<1>. QED BY <1>1, <1>2, <1>3, <1>4, <1>5, <1>6, <1>7, CallerType DEF Next

--------------------------------------------------------------------------------
(* The table of requests.                                                     *)
Waits(n) == \E a \in Callers : Asks(a) /\ frame[a].id = n /\ n \notin answered

LEMMA PendingIsWaits ==
  /\ PendingExact <=> \A n : n \in pending <=> Waits(n)
  /\ PendingExact' <=> \A n : n \in pending' <=> Waits(n)'
BY DEF PendingExact, Waits, Asks

LEMMA RequestInit == Init => RequestInv
BY DEF Init, RequestInv, PendingExact, Asks

LEMMA QuietRequests ==
  ASSUME RequestInv, UNCHANGED <<requestVars, callerVars>>
  PROVE  RequestInv'
BY DEF RequestInv, PendingExact, Asks, requestVars, callerVars

(* A caller gets a frame that asks for nothing, or loses one.                 *)
LEMMA OtherCalls ==
  ASSUME ClientTypeOK, RequestInv, NEW a \in Callers, UNCHANGED requestVars,
         calls' \in Nat, calls' >= calls,
         \A b \in Callers : b # a => at'[b] = at[b] /\ frame'[b] = frame[b],
         Asks(a)' => Asks(a) /\ frame'[a] = frame[a],
         Asks(a) => Asks(a)',
         at'[a] = "wait" => frame'[a].op = "request"
  PROVE  RequestInv'
<1>1. \A b \in Callers : Asks(b)' <=> Asks(b)
  BY DEF Asks
<1>2. \A b \in Callers : Asks(b) => frame'[b] = frame[b]
  BY DEF Asks
<1>3. calls \in Nat
  BY DEF ClientTypeOK
<1>4. \A n : Waits(n)' <=> Waits(n)
  BY <1>1, <1>2 DEF Waits, requestVars
<1>5. PendingExact'
  <2>1. \A n : n \in pending' <=> Waits(n)'
    BY <1>4, PendingIsWaits DEF RequestInv, requestVars
  <2>. QED BY <2>1, PendingIsWaits
<1>6. \A b \in Callers : at'[b] = "wait" => frame'[b].op = "request"
  <2>1. \A b \in Callers : at[b] = "wait" => frame[b].op = "request"
    BY DEF RequestInv
  <2>. QED BY <2>1
<1>7. answered' \subseteq 1 .. calls'
  BY <1>3 DEF RequestInv, requestVars
<1>8. \A b \in Callers : Asks(b)' => frame'[b].id \in 1 .. calls'
  BY <1>1, <1>2, <1>3 DEF RequestInv
<1>9. \A b, c \in Callers : Asks(b)' /\ Asks(c)' /\ frame'[b].id = frame'[c].id => b = c
  BY <1>1, <1>2 DEF RequestInv
<1>. QED BY <1>5, <1>6, <1>7, <1>8, <1>9 DEF RequestInv

LEMMA DispatchReplyRequests ==
  ASSUME RequestInv, NEW n, DispatchReply(n)
  PROVE  RequestInv'
<1>1. /\ pending' = pending \ {n}
      /\ answered' = IF n \in pending THEN answered \cup {n} ELSE answered
      /\ UNCHANGED callerVars
  BY DEF DispatchReply
<1>2. \A m : m \in pending <=> Waits(m)
  BY PendingIsWaits DEF RequestInv
<1>3. \A m : m \in pending' <=> Waits(m)'
  BY <1>1, <1>2 DEF Waits, Asks, callerVars
<1>5. n \in pending => n \in 1 .. calls
  BY <1>2 DEF Waits, RequestInv
<1>6. answered' \subseteq 1 .. calls'
  BY <1>1, <1>5 DEF RequestInv, callerVars
<1>7. /\ \A a \in Callers : Asks(a)' => frame'[a].id \in 1 .. calls'
      /\ \A a, b \in Callers : Asks(a)' /\ Asks(b)' /\ frame'[a].id = frame'[b].id => a = b
      /\ \A a \in Callers : at'[a] = "wait" => frame'[a].op = "request"
  BY <1>1 DEF RequestInv, Asks, callerVars
<1>. QED BY <1>3, <1>6, <1>7, PendingIsWaits DEF RequestInv

LEMMA BeginRequestRequests ==
  ASSUME ClientTypeOK, RequestInv, NEW a \in Callers, BeginRequest(a)
  PROVE  RequestInv'
<1>. DEFINE k == calls + 1
<1>1. k \in Nat /\ calls \in Nat /\ k \notin answered
  BY DEF ClientTypeOK, RequestInv
<1>2. /\ at[a] = "idle" /\ calls' = k
      /\ at'[a] = "send" /\ frame'[a] = Request(k)
      /\ \A b \in Callers : b # a => at'[b] = at[b] /\ frame'[b] = frame[b]
      /\ pending' = pending \cup {k} /\ answered' = answered
  BY DEF BeginRequest, Calls, Sends, ClientTypeOK
<1>3. Request(k).op = "request" /\ Request(k).id = k
  BY <1>1, MadeFrames
<1>4. ~ Asks(a) /\ Asks(a)' /\ frame'[a].id = k
  BY <1>2, <1>3 DEF Asks
<1>5. \A b \in Callers : b # a => (Asks(b)' <=> Asks(b)) /\ frame'[b] = frame[b]
  BY <1>2 DEF Asks
<1>6. \A b \in Callers : Asks(b) => frame[b].id \in 1 .. calls /\ frame[b].id # k
  BY <1>1 DEF RequestInv
<1>. HIDE DEF k
<1>7. PendingExact'
  <2>1. \A m : m \in pending <=> Waits(m)
    BY PendingIsWaits DEF RequestInv
  <2>2. \A m : m \in pending' <=> Waits(m)'
    BY <1>1, <1>2, <1>4, <1>5, <1>6, <2>1 DEF Waits
  <2>. QED BY <2>2, PendingIsWaits
<1>8. 1 .. calls \subseteq 1 .. calls' /\ k \in 1 .. calls'
  BY <1>1, <1>2 DEF k
<1>9. \A b \in Callers : Asks(b)' => frame'[b].id \in 1 .. calls'
  BY <1>4, <1>5, <1>6, <1>8
<1>10. \A b, c \in Callers : Asks(b)' /\ Asks(c)' /\ frame'[b].id = frame'[c].id => b = c
  BY <1>4, <1>5, <1>6 DEF RequestInv
<1>11. \A b \in Callers : at'[b] = "wait" => frame'[b].op = "request"
  <2>1. \A b \in Callers : at[b] = "wait" => frame[b].op = "request"
    BY DEF RequestInv
  <2>. QED BY <1>2, <2>1
<1>. QED BY <1>2, <1>7, <1>8, <1>9, <1>10, <1>11 DEF RequestInv

LEMMA EndRequestRequests ==
  ASSUME ClientTypeOK, RequestInv, NEW a \in Callers, EndRequest(a)
  PROVE  RequestInv'
<1>. DEFINE k == frame[a].id
<1>1. /\ at[a] = "wait" /\ at'[a] = "idle"
      /\ \A b \in Callers : b # a => at'[b] = at[b] /\ frame'[b] = frame[b]
      /\ answered' = answered \ {k} /\ calls' = calls
      /\ (k \in answered /\ pending' = pending) \/ pending' = pending \ {k}
  BY DEF EndRequest, TakeResponse, GiveUp, LeaveRequest, ClientTypeOK
<1>2. \A m : m \in pending <=> Waits(m)
  BY PendingIsWaits DEF RequestInv
<1>3. pending' = pending \ {k}
  <2>1. k \in answered => k \notin pending
    BY <1>2 DEF Waits
  <2>. QED BY <1>1, <2>1
<1>4. Asks(a) /\ ~ Asks(a)'
  BY <1>1 DEF Asks, RequestInv
<1>5. \A b \in Callers : b # a => (Asks(b)' <=> Asks(b)) /\ frame'[b] = frame[b]
  BY <1>1 DEF Asks
<1>6. \A b \in Callers : Asks(b) /\ frame[b].id = k => b = a
  BY <1>4 DEF RequestInv
<1>. HIDE DEF k
<1>7. PendingExact'
  <2>1. ASSUME NEW m PROVE m \in pending' <=> Waits(m)'
    <3>1. CASE m = k
      BY <1>3, <1>4, <1>5, <1>6, <3>1 DEF Waits
    <3>2. CASE m # k
      <4>1. m \in answered' <=> m \in answered
        BY <1>1, <3>2
      <4>2. frame[a].id # m
        BY <3>2 DEF k
      <4>. QED BY <1>2, <1>3, <1>4, <1>5, <3>2, <4>1, <4>2 DEF Waits
    <3>. QED BY <3>1, <3>2
  <2>. QED BY <2>1, PendingIsWaits
<1>8. \A b \in Callers : Asks(b)' => frame'[b].id \in 1 .. calls'
  BY <1>1, <1>4, <1>5 DEF RequestInv
<1>9. \A b, c \in Callers : Asks(b)' /\ Asks(c)' /\ frame'[b].id = frame'[c].id => b = c
  BY <1>4, <1>5 DEF RequestInv
<1>10. \A b \in Callers : at'[b] = "wait" => frame'[b].op = "request"
  <2>1. \A b \in Callers : at[b] = "wait" => frame[b].op = "request"
    BY DEF RequestInv
  <2>. QED BY <1>1, <2>1
<1>. QED BY <1>1, <1>7, <1>8, <1>9, <1>10 DEF RequestInv

LEMMA RequestStep ==
  ASSUME ClientTypeOK, RequestInv, [Next]_vars
  PROVE  RequestInv'
<1>1. CASE RunStep
  <2>1. UNCHANGED <<requestVars, callerVars>>
    BY <1>1 DEF RunStep, Backoff, Dial, MakeFrames, QueueFrame, StartPumps, Disconnect,
                Drained, RunEnds
  <2>. QED BY <2>1, QuietRequests
<1>2. CASE WriterStep \/ WriteTimeout \/ CloseClient \/ LoseLink \/ UNCHANGED vars
  <2>1. UNCHANGED <<requestVars, callerVars>>
    BY <1>2 DEF WriterStep, WriteFrame, WriteFails, WriterSeesDone, WriteTimeout, CloseClient,
                LoseLink, vars
  <2>. QED BY <2>1, QuietRequests
<1>3. ASSUME NEW t \in Topics,
             Ingest(t) \/ DropEvent(t) \/ DispatchEvent(t) \/ \E n \in stale[t] : DispatchStale(t, n)
      PROVE RequestInv'
  <2>1. UNCHANGED <<requestVars, callerVars>>
    BY <1>3 DEF Ingest, DropEvent, DispatchEvent, DispatchStale
  <2>. QED BY <2>1, QuietRequests
<1>4. CASE ReaderStep
  <2>1. CASE ReadFails
    BY <2>1, QuietRequests DEF ReadFails
  <2>. QED BY <1>3, <1>4, <2>1, DispatchReplyRequests DEF ReaderStep
<1>8. ASSUME NEW n \in replies, DropReply(n) PROVE RequestInv'
  BY <1>8, QuietRequests DEF DropReply
<1>5. ASSUME NEW a \in Callers, CallerStep(a) \/ GiveUp(a) PROVE RequestInv'
  <2>1. CASE Send(a)
    <3>1. /\ at[a] = "send" /\ UNCHANGED requestVars /\ calls' = calls
          /\ \A b \in Callers : b # a => at'[b] = at[b] /\ frame'[b] = frame[b]
          /\ at'[a] = IF frame[a].op = "request" THEN "wait" ELSE "idle"
          /\ frame'[a] = IF frame[a].op = "request" THEN frame[a] ELSE None
      BY <2>1 DEF Send, ClientTypeOK
    <3>2. calls \in Nat
      BY DEF ClientTypeOK
    <3>. QED BY <3>1, <3>2, OtherCalls DEF Asks
  <2>. QED BY <1>5, <2>1, EndRequestRequests DEF CallerStep, EndRequest
<1>6. ASSUME NEW a \in Callers, NEW t \in Topics, NEW f \in Froms, Subscribe(a, t, f)
      PROVE RequestInv'
  <2>1. /\ at[a] = "idle" /\ UNCHANGED requestVars /\ calls' = calls + 1
        /\ \A b \in Callers : b # a => at'[b] = at[b] /\ frame'[b] = frame[b]
        /\ at'[a] \in {"idle", "send"}
        /\ at'[a] = "send" => frame'[a] = SubscribeFrame(t, f, 0)
    BY <1>6 DEF Subscribe, Calls, Sends, ClientTypeOK
  <2>2. calls \in Nat
    BY DEF ClientTypeOK
  <2>3. SubscribeFrame(t, f, 0).op = "subscribe"
    BY DEF SubscribeFrame
  <2>4. ~ Asks(a) /\ ~ Asks(a)'
    BY <2>1, <2>3 DEF Asks
  <2>. QED BY <2>1, <2>2, <2>4, OtherCalls
<1>7. ASSUME NEW a \in Callers, NEW t \in Topics, NEW n \in callbacks[t], CloseHandle(a, t, n)
      PROVE RequestInv'
  <2>1. /\ at[a] = "idle" /\ UNCHANGED requestVars /\ calls' = calls
        /\ \A b \in Callers : b # a => at'[b] = at[b] /\ frame'[b] = frame[b]
        /\ at'[a] \in {"idle", "send"}
        /\ at'[a] = "send" => frame'[a] = Unsubscribe(t)
    BY <1>7 DEF CloseHandle, Sends, ClientTypeOK
  <2>2. calls \in Nat
    BY DEF ClientTypeOK
  <2>3. Unsubscribe(t).op = "unsubscribe"
    BY MadeFrames
  <2>4. ~ Asks(a) /\ ~ Asks(a)'
    BY <2>1, <2>3 DEF Asks
  <2>. QED BY <2>1, <2>2, <2>4, OtherCalls
<1>. QED BY <1>1, <1>2, <1>3, <1>4, <1>5, <1>6, <1>7, <1>8, BeginRequestRequests DEF Next

(* A request is in the table from before it is sent until its answer has come *)
(* or its caller has given up, whichever goroutine removes it, whatever       *)
(* answers come late or never, and whatever connections are lost between      *)
(* (client.go:267-286, 294-322).                                              *)
THEOREM RequestsAreKept == Spec => []PendingExact
<1>1. Init => ClientTypeOK /\ RequestInv
  BY ClientTypeInit, RequestInit
<1>2. ClientTypeOK /\ RequestInv /\ [Next]_vars => (ClientTypeOK /\ RequestInv)'
  BY ClientTypeStep, RequestStep
<1>3. RequestInv => PendingExact
  BY DEF RequestInv
<1>. QED BY <1>1, <1>2, <1>3, PTL DEF Spec

--------------------------------------------------------------------------------
(* The topics that have callbacks, with one goroutine calling the API.        *)
LEMMA ServedInit == Init => ServedInv
BY DEF Init, ServedInv, RunInv, LeaveInv, Healthy

(* A frame at the end of the queue undoes a subscription only if it ends it.  *)
LEMMA QueueBrings ==
  ASSUME sendCh \in Seq(Outgoing), NEW f, Queues(f), NEW t
  PROVE  /\ Brings(f, t) => BroughtFromQueue(t)'
         /\ BroughtFromQueue(t) /\ ~ Ends(f, t) => BroughtFromQueue(t)'
         /\ ~ Ends(f, t) /\ (\A i \in 1 .. Len(sendCh) : ~ Ends(sendCh[i], t)) =>
              \A i \in 1 .. Len(sendCh') : ~ Ends(sendCh'[i], t)
<1>. DEFINE n == Len(sendCh)
<1>1. /\ n \in Nat /\ Len(sendCh') = n + 1
      /\ \A i \in 1 .. n : sendCh'[i] = sendCh[i]
      /\ sendCh'[n + 1] = f
  BY DEF Queues
<1>2. BroughtFromQueue(t) =>
        \E i \in 1 .. n : Brings(sendCh[i], t) /\ \A j \in 1 .. n : j > i => ~ Ends(sendCh[j], t)
  BY DEF BroughtFromQueue
<1>3. (\E i \in 1 .. n + 1 :
         Brings(sendCh'[i], t) /\ \A j \in 1 .. n + 1 : j > i => ~ Ends(sendCh'[j], t)) =>
        BroughtFromQueue(t)'
  BY <1>1 DEF BroughtFromQueue, Brings, Ends
<1>. HIDE DEF n
<1>4. ASSUME Brings(f, t) PROVE BroughtFromQueue(t)'
  <2>1. n + 1 \in 1 .. n + 1 /\ \A j \in 1 .. n + 1 : ~ (j > n + 1)
    BY <1>1
  <2>. QED BY <1>1, <1>3, <1>4, <2>1
<1>5. ASSUME BroughtFromQueue(t), ~ Ends(f, t) PROVE BroughtFromQueue(t)'
  <2>1. PICK i \in 1 .. n : /\ Brings(sendCh[i], t)
                            /\ \A j \in 1 .. n : j > i => ~ Ends(sendCh[j], t)
    BY <1>2, <1>5
  <2>2. i \in 1 .. n + 1 /\ sendCh'[i] = sendCh[i]
    BY <1>1
  <2>3. \A j \in 1 .. n + 1 : j \in 1 .. n \/ j = n + 1
    BY <1>1
  <2>4. \A j \in 1 .. n + 1 : j > i => ~ Ends(sendCh'[j], t)
    BY <1>1, <1>5, <2>1, <2>3
  <2>. QED BY <1>3, <2>1, <2>2, <2>4
<1>6. ASSUME ~ Ends(f, t), \A i \in 1 .. n : ~ Ends(sendCh[i], t)
      PROVE \A i \in 1 .. Len(sendCh') : ~ Ends(sendCh'[i], t)
  <2>1. \A j \in 1 .. n + 1 : j \in 1 .. n \/ j = n + 1
    BY <1>1
  <2>. QED BY <1>1, <1>6, <2>1
<1>. QED BY <1>4, <1>5, <1>6 DEF n

(* What the writer does to a topic that is brought.                           *)
LEMMA WriteBrings ==
  ASSUME ClientTypeOK, WriteFrame, NEW t \in Topics, Brought(t)
  PROVE  Brought(t)'
<1>. DEFINE n == Len(sendCh')
            h == Head(sendCh)
<1>1. /\ sendCh' = Tail(sendCh) /\ sendCh # <<>> /\ Serve(h)
      /\ UNCHANGED <<resub, at, frame>>
  BY DEF WriteFrame, runVars, callerVars
<1>2. n \in Nat /\ Len(sendCh) = n + 1 /\ h = sendCh[1] /\ h \in Outgoing
      /\ \A i \in 1 .. n : sendCh'[i] = sendCh[i + 1]
  BY <1>1, TailFacts DEF Shifts, ClientTypeOK
<1>3. /\ ~ Concerns(h, t) => upstream'[t] = upstream[t] /\ (t \in refused => t \in refused')
      /\ Brings(h, t) => \/ upstream[t] # 0 /\ upstream'[t] = upstream[t]
                         \/ Started(t, h)
                         \/ t \in refused'
  BY <1>1, <1>2, ServeFacts
<1>4. Brings(h, t) => Taken(t)'
  <2>1. Brings(h, t) => h.from \in From
    BY <1>2, OutgoingCases DEF Brings
  <2>2. Brings(h, t) => Start(t, h.from) # 0
    BY <2>1, StartIsSeq
  <2>. QED BY <1>3, <2>2 DEF Taken, Started
<1>5. Taken(t) /\ ~ Ends(h, t) => Taken(t)'
  <2>1. Concerns(h, t) => Brings(h, t) \/ Ends(h, t)
    BY <1>2, OutgoingCases DEF Concerns, Brings, Ends
  <2>. QED BY <1>3, <1>4, <2>1 DEF Taken
<1>6. CASE \E f \in resub : Brings(f, t)
  BY <1>1, <1>6 DEF Brought
<1>7. CASE \E a \in Callers : at[a] = "send" /\ Brings(frame[a], t)
  BY <1>1, <1>7 DEF Brought
<1>. HIDE DEF n, h
<1>8. CASE BroughtFromQueue(t)
  <2>1. PICK i \in 1 .. n + 1 :
          Brings(sendCh[i], t) /\ \A j \in 1 .. n + 1 : j > i => ~ Ends(sendCh[j], t)
    BY <1>2, <1>8 DEF BroughtFromQueue
  <2>2. CASE i = 1
    <3>1. Taken(t)'
      BY <1>2, <1>4, <2>1, <2>2
    <3>2. ASSUME NEW j \in 1 .. n PROVE ~ Ends(sendCh'[j], t)
      <4>1. j + 1 \in 1 .. n + 1 /\ j + 1 > i
        BY <1>2, <2>2
      <4>. QED BY <1>2, <2>1, <4>1
    <3>. QED BY <3>1, <3>2 DEF Brought, n
  <2>3. CASE i # 1
    <3>1. PICK k \in 1 .. n : i = k + 1
      BY <1>2, <2>3
    <3>2. Brings(sendCh'[k], t)
      BY <1>2, <2>1, <3>1
    <3>3. ASSUME NEW j \in 1 .. n, j > k PROVE ~ Ends(sendCh'[j], t)
      <4>1. j + 1 \in 1 .. n + 1 /\ j + 1 > i
        BY <1>2, <3>1, <3>3
      <4>. QED BY <1>2, <2>1, <4>1
    <3>4. BroughtFromQueue(t)'
      BY <3>2, <3>3 DEF BroughtFromQueue, n
    <3>. QED BY <3>4 DEF Brought
  <2>. QED BY <2>2, <2>3
<1>9. CASE Taken(t) /\ \A i \in 1 .. Len(sendCh) : ~ Ends(sendCh[i], t)
  <2>1. 1 \in 1 .. n + 1 /\ \A j \in 1 .. n : j + 1 \in 1 .. n + 1
    BY <1>2
  <2>2. Taken(t)'
    BY <1>2, <1>5, <1>9, <2>1
  <2>3. \A j \in 1 .. n : ~ Ends(sendCh'[j], t)
    BY <1>2, <1>9, <2>1
  <2>. QED BY <2>2, <2>3 DEF Brought, n
<1>. QED BY <1>6, <1>7, <1>8, <1>9 DEF Brought

LEMMA RunInvStep ==
  ASSUME ClientTypeOK, RunInv, [Next]_vars
  PROVE  RunInv'
<1>. USE DEF RunInv
<1>1. CASE RunStep
  <2>1. CASE MakeFrames
    <3>1. \A t, f, n : SubscribeFrame(t, f, n).op = "subscribe"
      BY DEF SubscribeFrame
    <3>2. \A f \in resub' : f.op = "subscribe"
      BY <2>1, <3>1 DEF MakeFrames
    <3>. QED BY <2>1, <3>2 DEF MakeFrames
  <2>2. CASE Backoff \/ Dial \/ Drained \/ RunEnds
    BY <2>2 DEF Backoff, Dial, Drained, RunEnds
  <2>3. CASE StartPumps \/ Disconnect
    BY <2>3 DEF StartPumps, Disconnect
  <2>4. ASSUME NEW f \in resub, QueueFrame(f) PROVE RunInv'
    BY <2>4 DEF QueueFrame
  <2>. QED BY <1>1, <2>1, <2>2, <2>3, <2>4 DEF RunStep
<1>2. CASE WriterStep \/ WriteTimeout \/ CloseClient \/ LoseLink \/ UNCHANGED vars
  BY <1>2 DEF WriterStep, WriteFrame, WriteFails, WriterSeesDone, WriteTimeout, CloseClient,
              LoseLink, vars, runVars
<1>3. CASE ReaderStep
  BY <1>3 DEF ReaderStep, DispatchEvent, DispatchStale, DispatchReply, ReadFails, runVars
<1>4. CASE (\E t \in Topics : Ingest(t) \/ DropEvent(t)) \/ \E n \in replies : DropReply(n)
  BY <1>4 DEF Ingest, DropEvent, DropReply, runVars
<1>5. ASSUME NEW a \in Callers, CallerStep(a) \/ GiveUp(a) \/ BeginRequest(a) PROVE RunInv'
  BY <1>5 DEF CallerStep, Send, EndRequest, TakeResponse, GiveUp, LeaveRequest, BeginRequest, runVars
<1>6. ASSUME NEW a \in Callers, NEW t \in Topics, NEW f \in Froms, Subscribe(a, t, f)
      PROVE RunInv'
  BY <1>6 DEF Subscribe, runVars
<1>7. ASSUME NEW a \in Callers, NEW t \in Topics, NEW n \in callbacks[t], CloseHandle(a, t, n)
      PROVE RunInv'
  BY <1>7 DEF CloseHandle, runVars
<1>. QED BY <1>1, <1>2, <1>3, <1>4, <1>5, <1>6, <1>7 DEF Next

(* What a step of the caller does to the frame it holds.                      *)
LEMMA LeaveInvStep ==
  ASSUME ClientTypeOK, LeaveInv, \A a, b \in Callers : a = b, [Next]_vars
  PROVE  LeaveInv'
<1>1. ASSUME UNCHANGED <<callbacks, at, frame>> PROVE LeaveInv'
  BY <1>1 DEF LeaveInv, Known
<1>2. CASE RunStep
  BY <1>1, <1>2 DEF RunStep, Backoff, Dial, MakeFrames, QueueFrame, StartPumps, Disconnect,
                    Drained, RunEnds, topicVars, callerVars
<1>3. CASE WriterStep \/ WriteTimeout \/ CloseClient \/ LoseLink \/ UNCHANGED vars
  BY <1>1, <1>3 DEF WriterStep, WriteFrame, WriteFails, WriterSeesDone, WriteTimeout,
                    CloseClient, LoseLink, vars, topicVars, callerVars
<1>4. CASE ReaderStep
  BY <1>1, <1>4 DEF ReaderStep, DispatchEvent, DispatchStale, DispatchReply, ReadFails, topicVars,
                    callerVars
<1>5. CASE (\E t \in Topics : Ingest(t) \/ DropEvent(t)) \/ \E n \in replies : DropReply(n)
  BY <1>1, <1>5 DEF Ingest, DropEvent, DropReply, topicVars, callerVars
<1>6. ASSUME NEW a \in Callers, CallerStep(a) \/ GiveUp(a) PROVE LeaveInv'
  <2>1. at'[a] # "send" /\ callbacks' = callbacks
    BY <1>6 DEF CallerStep, Send, EndRequest, TakeResponse, GiveUp, LeaveRequest, topicVars, ClientTypeOK
  <2>. QED BY <2>1 DEF LeaveInv
<1>7. ASSUME NEW a \in Callers, BeginRequest(a) PROVE LeaveInv'
  <2>1. frame'[a] = Request(calls + 1)
    BY <1>7 DEF BeginRequest, Sends, ClientTypeOK
  <2>2. \A t \in Topics : ~ Ends(frame'[a], t)
    BY <2>1 DEF Request, Ends
  <2>. QED BY <2>2 DEF LeaveInv
<1>8. ASSUME NEW a \in Callers, NEW t \in Topics, NEW f \in Froms, Subscribe(a, t, f)
      PROVE LeaveInv'
  <2>1. at[a] = "idle"
        /\ \/ at' = at
           \/ frame'[a] = SubscribeFrame(t, f, 0)
    BY <1>8 DEF Subscribe, Calls, Sends, ClientTypeOK
  <2>2. CASE at' = at
    BY <2>1, <2>2 DEF LeaveInv
  <2>3. CASE frame'[a] = SubscribeFrame(t, f, 0)
    <3>1. \A u \in Topics : ~ Ends(frame'[a], u)
      BY <2>3 DEF SubscribeFrame, Ends
    <3>. QED BY <3>1 DEF LeaveInv
  <2>. QED BY <2>1, <2>2, <2>3
<1>9. ASSUME NEW a \in Callers, NEW t \in Topics, NEW n \in callbacks[t], CloseHandle(a, t, n)
      PROVE LeaveInv'
  <2>1. at[a] = "idle" /\ callbacks' = [callbacks EXCEPT ![t] = @ \ {n}]
        /\ \/ at' = at
           \/ callbacks[t] = {n} /\ frame'[a] = Unsubscribe(t)
    BY <1>9 DEF CloseHandle, Sends, ClientTypeOK
  <2>2. CASE at' = at
    BY <2>1, <2>2 DEF LeaveInv
  <2>3. CASE callbacks[t] = {n} /\ frame'[a] = Unsubscribe(t)
    <3>1. callbacks'[t] = {}
      BY <2>1, <2>3 DEF ClientTypeOK
    <3>2. \A u \in Topics : Ends(frame'[a], u) => u = t
      BY <2>3 DEF Unsubscribe, Ends
    <3>. QED BY <3>1, <3>2 DEF LeaveInv, Known
  <2>. QED BY <2>1, <2>2, <2>3
<1>. QED BY <1>2, <1>3, <1>4, <1>5, <1>6, <1>7, <1>8, <1>9 DEF Next

(* The frames of a topic stay brought when only the caller moves.             *)
BroughtElsewhere(t) ==
  \/ \E f \in resub : Brings(f, t)
  \/ BroughtFromQueue(t)
  \/ Taken(t) /\ \A i \in 1 .. Len(sendCh) : ~ Ends(sendCh[i], t)

LEMMA CallerBrings ==
  ASSUME UNCHANGED <<resub, sendCh, upstream, refused>>, NEW t
  PROVE  BroughtElsewhere(t) => Brought(t)'
BY DEF BroughtElsewhere, Brought, BroughtFromQueue, Taken

LEMMA SendBrings ==
  ASSUME ClientTypeOK, \A a, b \in Callers : a = b, LeaveInv, ~ closed,
         NEW a \in Callers, Send(a), NEW t \in Topics, Known(t), Brought(t)
  PROVE  Brought(t)'
<1>1. at[a] = "send" /\ Queue(frame[a]) /\ UNCHANGED <<resub, upstream, refused>>
  BY DEF Send, runVars, serverVars, sessionVars
<1>2. sendCh \in Seq(Outgoing) /\ frame[a] \in Outgoing
  BY <1>1 DEF ClientTypeOK
<1>3. Queues(frame[a])
  BY <1>1, <1>2, QueueFacts
<1>4. ~ Ends(frame[a], t)
  BY <1>1 DEF LeaveInv
<1>5. CASE \E b \in Callers : at[b] = "send" /\ Brings(frame[b], t)
  <2>1. Brings(frame[a], t)
    BY <1>5
  <2>2. BroughtFromQueue(t)'
    BY <1>2, <1>3, <2>1, QueueBrings
  <2>. QED BY <2>2 DEF Brought
<1>6. CASE BroughtFromQueue(t)
  <2>1. BroughtFromQueue(t)'
    BY <1>2, <1>3, <1>4, <1>6, QueueBrings
  <2>. QED BY <2>1 DEF Brought
<1>7. CASE Taken(t) /\ \A i \in 1 .. Len(sendCh) : ~ Ends(sendCh[i], t)
  <2>1. \A i \in 1 .. Len(sendCh') : ~ Ends(sendCh'[i], t)
    BY <1>2, <1>3, <1>4, <1>7, QueueBrings
  <2>. QED BY <1>1, <1>7, <2>1 DEF Brought, Taken
<1>8. CASE \E f \in resub : Brings(f, t)
  BY <1>1, <1>8 DEF Brought
<1>. QED BY <1>5, <1>6, <1>7, <1>8 DEF Brought

LEMMA QueueFrameBrings ==
  ASSUME ClientTypeOK, RunInv, ~ closed,
         NEW f \in resub, QueueFrame(f), NEW t \in Topics, Brought(t)
  PROVE  Brought(t)'
<1>1. Queue(f) /\ resub' = resub \ {f} /\ UNCHANGED <<at, frame, upstream, refused>>
  BY DEF QueueFrame, callerVars, serverVars, sessionVars
<1>2. sendCh \in Seq(Outgoing) /\ f \in Outgoing
  BY DEF ClientTypeOK
<1>3. Queues(f)
  BY <1>1, <1>2, QueueFacts
<1>4. ~ Ends(f, t)
  BY DEF RunInv, Ends
<1>5. CASE \E g \in resub : Brings(g, t)
  <2>1. PICK g \in resub : Brings(g, t)
    BY <1>5
  <2>2. CASE g = f
    <3>1. BroughtFromQueue(t)'
      BY <1>2, <1>3, <2>1, <2>2, QueueBrings
    <3>. QED BY <3>1 DEF Brought
  <2>3. CASE g # f
    BY <1>1, <2>1, <2>3 DEF Brought
  <2>. QED BY <2>2, <2>3
<1>6. CASE BroughtFromQueue(t)
  <2>1. BroughtFromQueue(t)'
    BY <1>2, <1>3, <1>4, <1>6, QueueBrings
  <2>. QED BY <2>1 DEF Brought
<1>7. CASE Taken(t) /\ \A i \in 1 .. Len(sendCh) : ~ Ends(sendCh[i], t)
  <2>1. \A i \in 1 .. Len(sendCh') : ~ Ends(sendCh'[i], t)
    BY <1>2, <1>3, <1>4, <1>7, QueueBrings
  <2>. QED BY <1>1, <1>7, <2>1 DEF Brought, Taken
<1>8. CASE \E a \in Callers : at[a] = "send" /\ Brings(frame[a], t)
  BY <1>1, <1>8 DEF Brought
<1>. QED BY <1>5, <1>6, <1>7, <1>8 DEF Brought

(* Each topic that has callbacks is brought, or the connection is not good.   *)
WellServed == Healthy => \A t \in Topics : Known(t) => Brought(t)

LEMMA WellServedQuiet ==
  ASSUME WellServed, UNCHANGED <<callbacks, resub, at, frame, sendCh, upstream, refused>>,
         Healthy' => Healthy
  PROVE  WellServed'
BY DEF WellServed, Known, Brought, BroughtFromQueue, Taken

LEMMA WellServedRun ==
  ASSUME ClientTypeOK, RunInv, WellServed, RunStep
  PROVE  WellServed'
<1>1. CASE Backoff \/ Dial \/ Disconnect \/ Drained \/ RunEnds
  <2>1. ~ Healthy'
    BY <1>1 DEF Backoff, Dial, Disconnect, Drained, RunEnds, Healthy
  <2>. QED BY <2>1 DEF WellServed
<1>2. CASE MakeFrames
  <2>1. ASSUME NEW t \in Topics, Known(t)' PROVE Brought(t)'
    <3>1. Known(t)
      BY <1>2, <2>1 DEF MakeFrames, topicVars, Known
    <3>. DEFINE f == SubscribeFrame(t, from[t], ResumeFrom(t))
    <3>2. f \in resub'
      BY <1>2, <3>1 DEF MakeFrames
    <3>3. Brings(f, t)
      BY DEF SubscribeFrame, Brings
    <3>. HIDE DEF f
    <3>. QED BY <3>2, <3>3 DEF Brought
  <2>. QED BY <2>1 DEF WellServed
<1>3. ASSUME NEW f \in resub, QueueFrame(f) PROVE WellServed'
  <2>1. callbacks' = callbacks /\ (Healthy' => Healthy)
    BY <1>3 DEF QueueFrame, topicVars, Healthy
  <2>2. ASSUME NEW t \in Topics, Healthy', Known(t)' PROVE Brought(t)'
    <3>1. Known(t) /\ ~ closed /\ Brought(t)
      BY <2>1, <2>2 DEF Known, WellServed, Healthy
    <3>. QED BY <1>3, <3>1, QueueFrameBrings
  <2>. QED BY <2>2 DEF WellServed
<1>4. CASE StartPumps
  <2>1. Healthy' => Healthy
    BY <1>4 DEF StartPumps, Healthy
  <2>. QED BY <1>4, <2>1, WellServedQuiet DEF StartPumps, topicVars, callerVars, serverVars, sessionVars
<1>. QED BY <1>1, <1>2, <1>3, <1>4 DEF RunStep

(* An event that has come, or was dropped, moves its topic's subscription on. *)
LEMMA WellServedMoves ==
  ASSUME ClientTypeOK, WellServed, NEW t \in Topics,
         upstream[t] \in 1 .. stream[t], upstream' = [upstream EXCEPT ![t] = @ + 1],
         UNCHANGED <<runVars, closed, callbacks, at, frame, sendCh, refused>>
  PROVE  WellServed'
<1>1. UNCHANGED <<callbacks, resub, at, frame, sendCh, refused>> /\ (Healthy' => Healthy)
  BY DEF runVars, Healthy
<1>2. \A u \in Topics : upstream[u] # 0 => upstream'[u] # 0
  BY DEF ClientTypeOK
<1>3. ASSUME NEW u \in Topics, Brought(u) PROVE Brought(u)'
  BY <1>1, <1>2, <1>3 DEF Brought, BroughtFromQueue, Taken
<1>. QED BY <1>1, <1>3 DEF WellServed, Known

LEMMA WellServedPumps ==
  ASSUME ClientTypeOK, RunInv, WellServed, WriterStep \/ ReaderStep \/ WriteTimeout
  PROVE  WellServed'
<1>1. CASE WriteFrame
  <2>1. callbacks' = callbacks /\ (Healthy' => Healthy)
    BY <1>1 DEF WriteFrame, topicVars, runVars, Healthy
  <2>2. ASSUME NEW t \in Topics, Healthy', Known(t)' PROVE Brought(t)'
    <3>1. Known(t) /\ Brought(t)
      BY <2>1, <2>2 DEF Known, WellServed
    <3>. QED BY <1>1, <3>1, WriteBrings
  <2>. QED BY <2>2 DEF WellServed
<1>2. CASE WriteFails \/ WriterSeesDone \/ WriteTimeout
  <2>1. ~ Healthy'
    BY <1>2 DEF WriteFails, WriterSeesDone, WriteTimeout, Healthy, RunInv
  <2>. QED BY <2>1 DEF WellServed
<1>3. ASSUME NEW t \in Topics, DispatchEvent(t) PROVE WellServed'
  BY <1>3, WellServedMoves DEF DispatchEvent, runVars, callerVars
<1>4. ASSUME NEW n \in replies, DispatchReply(n) PROVE WellServed'
  <2>1. Healthy' => Healthy
    BY <1>4 DEF DispatchReply, runVars, Healthy
  <2>. QED BY <1>4, <2>1, WellServedQuiet DEF DispatchReply, runVars, topicVars, callerVars
<1>5. CASE ReadFails
  <2>1. Healthy' => Healthy
    BY <1>5 DEF ReadFails, Healthy
  <2>. QED BY <1>5, <2>1, WellServedQuiet DEF ReadFails, topicVars, callerVars, serverVars, sessionVars
<1>6. ASSUME NEW t \in Topics, NEW n \in stale[t], DispatchStale(t, n) PROVE WellServed'
  <2>1. Healthy' => Healthy
    BY <1>6 DEF DispatchStale, runVars, Healthy
  <2>. QED BY <1>6, <2>1, WellServedQuiet DEF DispatchStale, runVars, callerVars
<1>. QED BY <1>1, <1>2, <1>3, <1>4, <1>5, <1>6 DEF WriterStep, ReaderStep

LEMMA WellServedCaller ==
  ASSUME ClientTypeOK, LeaveInv, WellServed, \A a, b \in Callers : a = b, NEW a \in Callers,
         \/ CallerStep(a) \/ GiveUp(a) \/ BeginRequest(a)
         \/ \E t \in Topics : \/ \E f \in Froms : Subscribe(a, t, f)
                              \/ \E n \in callbacks[t] : CloseHandle(a, t, n)
  PROVE  WellServed'
<1>1. CASE Send(a)
  <2>1. callbacks' = callbacks /\ (Healthy' => Healthy)
    BY <1>1 DEF Send, topicVars, runVars, Healthy
  <2>2. ASSUME NEW t \in Topics, Healthy', Known(t)' PROVE Brought(t)'
    <3>1. Known(t) /\ ~ closed /\ Brought(t)
      BY <2>1, <2>2 DEF Known, WellServed, Healthy
    <3>. QED BY <1>1, <3>1, SendBrings
  <2>. QED BY <2>2 DEF WellServed
<1>2. ASSUME at[a] # "send", UNCHANGED <<runVars, sendCh, closed, upstream, refused>>,
             NEW t \in Topics, Healthy', Known(t)
      PROVE Brought(t)'
  <2>1. Healthy /\ UNCHANGED <<resub, sendCh, upstream, refused>>
    BY <1>2 DEF runVars, Healthy
  <2>2. Brought(t) /\ ~ \E b \in Callers : at[b] = "send" /\ Brings(frame[b], t)
    BY <1>2, <2>1 DEF WellServed
  <2>3. BroughtElsewhere(t)
    BY <2>2 DEF Brought, BroughtElsewhere
  <2>. QED BY <2>1, <2>3, CallerBrings
<1>3. CASE EndRequest(a)
  <2>1. /\ at[a] # "send" /\ UNCHANGED <<runVars, sendCh, closed, upstream, refused>>
        /\ callbacks' = callbacks
    BY <1>3 DEF EndRequest, TakeResponse, GiveUp, LeaveRequest, topicVars, serverVars, sessionVars
  <2>. QED BY <1>2, <2>1 DEF WellServed, Known
<1>4. CASE BeginRequest(a)
  <2>1. /\ at[a] # "send" /\ UNCHANGED <<runVars, sendCh, closed, upstream, refused>>
        /\ callbacks' = callbacks
    BY <1>4 DEF BeginRequest, Calls, topicVars, serverVars, sessionVars
  <2>. QED BY <1>2, <2>1 DEF WellServed, Known
<1>5. ASSUME NEW t \in Topics, NEW f \in Froms, Subscribe(a, t, f) PROVE WellServed'
  <2>1. /\ at[a] # "send" /\ UNCHANGED <<runVars, sendCh, closed, upstream, refused>>
        /\ \A u \in Topics : u # t => callbacks'[u] = callbacks[u]
        /\ ~ Known(t) => at'[a] = "send" /\ frame'[a] = SubscribeFrame(t, f, 0)
    BY <1>5 DEF Subscribe, Calls, Sends, serverVars, sessionVars, ClientTypeOK
  <2>2. ASSUME NEW u \in Topics, Healthy', Known(u)' PROVE Brought(u)'
    <3>1. CASE Known(u)
      BY <1>2, <2>1, <2>2, <3>1
    <3>2. CASE ~ Known(u)
      <4>1. u = t
        BY <2>1, <2>2, <3>2 DEF Known
      <4>2. at'[a] = "send" /\ Brings(frame'[a], u)
        BY <2>1, <3>2, <4>1 DEF SubscribeFrame, Brings
      <4>. QED BY <4>2 DEF Brought
    <3>. QED BY <3>1, <3>2
  <2>. QED BY <2>2 DEF WellServed
<1>6. ASSUME NEW t \in Topics, NEW n \in callbacks[t], CloseHandle(a, t, n) PROVE WellServed'
  <2>1. /\ at[a] # "send" /\ UNCHANGED <<runVars, sendCh, closed, upstream, refused>>
        /\ \A u \in Topics : callbacks'[u] \subseteq callbacks[u]
    BY <1>6 DEF CloseHandle, serverVars, sessionVars, ClientTypeOK
  <2>2. \A u \in Topics : Known(u)' => Known(u)
    BY <2>1 DEF Known
  <2>. QED BY <1>2, <2>1, <2>2 DEF WellServed
<1>. QED BY <1>1, <1>3, <1>4, <1>5, <1>6 DEF CallerStep, EndRequest

LEMMA ServedStep ==
  ASSUME ClientTypeOK, ServedInv, \A a, b \in Callers : a = b, [Next]_vars
  PROVE  ServedInv'
<1>1. RunInv /\ LeaveInv /\ WellServed
  BY DEF ServedInv, WellServed
<1>2. RunInv' /\ LeaveInv'
  BY <1>1, RunInvStep, LeaveInvStep
<1>3. WellServed'
  <2>1. CASE RunStep
    BY <1>1, <2>1, WellServedRun
  <2>2. CASE WriterStep \/ ReaderStep \/ WriteTimeout
    BY <1>1, <2>2, WellServedPumps
  <2>3. CASE CloseClient \/ LoseLink
    <3>1. ~ Healthy'
      BY <2>3 DEF CloseClient, LoseLink, Healthy
    <3>. QED BY <3>1 DEF WellServed
  <2>4. CASE (\E t \in Topics : Ingest(t)) \/ UNCHANGED vars
    <3>1. UNCHANGED <<runVars, sendCh, closed, callbacks, at, frame, upstream, refused>>
      BY <2>4 DEF Ingest, vars, topicVars, callerVars, serverVars, sessionVars
    <3>2. Healthy' => Healthy
      BY <3>1 DEF runVars, Healthy
    <3>. QED BY <1>1, <3>1, <3>2, WellServedQuiet DEF runVars
  <2>5. ASSUME NEW t \in Topics, DropEvent(t) PROVE WellServed'
    BY <1>1, <2>5, WellServedMoves DEF DropEvent, topicVars, callerVars
  <2>6. ASSUME NEW n \in replies, DropReply(n) PROVE WellServed'
    <3>1. Healthy' => Healthy
      BY <2>6 DEF DropReply, runVars, Healthy
    <3>. QED BY <1>1, <2>6, <3>1, WellServedQuiet DEF DropReply, runVars, topicVars, callerVars
  <2>. QED BY <1>1, <2>1, <2>2, <2>3, <2>4, <2>5, <2>6, WellServedCaller DEF Next
<1>. QED BY <1>2, <1>3 DEF ServedInv, WellServed

(* However often one goroutine subscribes and closes, and however often the   *)
(* connection is lost between, once the queue is empty and the pumps run the  *)
(* server sends each topic that has callbacks, or could not read the backfill *)
(* of its subscribe (client.go:156-197, 331-384, 409-423; ws.go:193-196).  A  *)
(* second goroutine could queue its unsubscribe after the        *)
(* subscribe of the first, so there is to be one.                             *)
THEOREM TopicsAreServed ==
  ASSUME \A a, b \in Callers : a = b
  PROVE  Spec => []CallbacksServed
<1>1. Init => ClientTypeOK /\ ServedInv
  BY ClientTypeInit, ServedInit
<1>2. ClientTypeOK /\ ServedInv /\ [Next]_vars => (ClientTypeOK /\ ServedInv)'
  BY ClientTypeStep, ServedStep
<1>3. ClientTypeOK /\ ServedInv => CallbacksServed
  <2>1. SUFFICES ASSUME ServedInv, Settled, NEW t \in Topics, Known(t) PROVE Taken(t)
    BY DEF CallbacksServed, Taken
  <2>2. Healthy /\ resub = {} /\ \A a \in Callers : at[a] # "send"
    BY <2>1 DEF Settled, Healthy, ServedInv, RunInv
  <2>3. Brought(t)
    BY <2>1, <2>2 DEF ServedInv
  <2>4. 1 .. Len(sendCh) = {}
    BY <2>1 DEF Settled
  <2>. QED BY <2>2, <2>3, <2>4 DEF Brought, BroughtFromQueue
<1>. QED BY <1>1, <1>2, <1>3, PTL DEF Spec

--------------------------------------------------------------------------------
(* What the callbacks of a topic see next.                                    *)
LEMMA ResumeInit == Init => ResumeInv
BY DEF Init, ResumeInv, Known

(* The frames of a topic are those there were, or fewer, k places further up. *)
Fewer(t, k) ==
  /\ \A i \in InQueue(t)' : i \in Nat /\ i + k \in InQueue(t) /\ sendCh'[i] = sendCh[i + k]
  /\ InResub(t)' \subseteq InResub(t)
  /\ \A a \in InHand(t)' : a \in InHand(t) /\ frame'[a] = frame[a]

(* What the server still sends of the topic is what it was about to send.     *)
Stays(t) ==
  /\ link' = "up" => stale'[t] = {} \/ (link = "up" /\ stale'[t] = stale[t])
  /\ link' = "up" /\ upstream'[t] # 0 =>
       link = "up" /\ upstream'[t] = upstream[t] /\ dropped'[t] = dropped[t]

LEMMA FewerClean ==
  ASSUME ClientTypeOK, NEW t \in Topics, Clean(t), NEW k \in Nat, Fewer(t, k),
         handed'[t] = handed[t], lastSeen'[t] = lastSeen[t],
         stream'[t] \in Nat, stream'[t] >= stream[t], Stays(t)
  PROVE  Clean(t)'
<1>1. Single(t)'
  <2>1. \A i, j \in InQueue(t)' : i = j
    <3>1. SUFFICES ASSUME NEW i \in InQueue(t)', NEW j \in InQueue(t)' PROVE i = j
      OBVIOUS
    <3>2. i \in Nat /\ j \in Nat /\ i + k = j + k
      BY <3>1 DEF Clean, Single, Fewer
    <3>. QED BY <3>2
  <2>2. /\ InQueue(t)' # {} => InQueue(t) # {}
        /\ InResub(t)' # {} => InResub(t) # {}
        /\ InHand(t)' # {} => InHand(t) # {}
    BY DEF Fewer
  <2>3. /\ \A f, g \in InResub(t)' : f = g
        /\ \A a, b \in InHand(t)' : a = b
    BY DEF Clean, Single, Fewer
  <2>. QED BY <2>1, <2>2, <2>3 DEF Clean, Single
<1>2. AllResume(t)'
  <2>1. \A f : Resumes(f, t) => Resumes(f, t)'
    BY DEF Resumes
  <2>2. \A i \in InQueue(t)' : Resumes(sendCh[i], t)'
    <3>1. \A i \in InQueue(t)' : Resumes(sendCh'[i], t)
      BY DEF Clean, AllResume, Fewer
    <3>. QED BY <3>1 DEF Resumes
  <2>3. \A f \in InResub(t)' : Resumes(f, t)'
    BY <2>1 DEF Clean, AllResume, Fewer
  <2>4. \A a \in InHand(t)' : Resumes(frame[a], t)'
    <3>1. \A a \in InHand(t)' : Resumes(frame'[a], t)
      BY DEF Clean, AllResume, Fewer
    <3>. QED BY <3>1 DEF Resumes
  <2>. QED BY <2>2, <2>3, <2>4 DEF AllResume
<1>3. handed'[t] = lastSeen'[t] /\ handed'[t] <= stream'[t]
  <2>1. handed[t] \in Nat /\ stream[t] \in Nat /\ handed[t] = lastSeen[t] /\ handed[t] <= stream[t]
    BY DEF ClientTypeOK, Clean
  <2>. QED BY <2>1
<1>4. ASSUME link' = "up", upstream'[t] # 0
      PROVE Nothing(t)' /\ (handed'[t] > 0 => Skips(t)')
  <2>1. Nothing(t) /\ (handed[t] > 0 => Skips(t))
    BY <1>4 DEF Clean, Stays
  <2>2. Nothing(t)'
    BY <2>1 DEF Nothing, Fewer
  <2>3. handed'[t] > 0 => Skips(t)'
    BY <1>4, <2>1 DEF Stays, Skips
  <2>. QED BY <2>2, <2>3
<1>5. link' = "up" => stale'[t] = {}
  BY DEF Clean, Stays
<1>. QED BY <1>1, <1>2, <1>3, <1>4, <1>5 DEF Clean

(* Where a frame goes that is queued.                                         *)
LEMMA QueuesInto ==
  ASSUME sendCh \in Seq(Outgoing), NEW f, Queues(f), NEW t
  PROVE  /\ ~ Concerns(f, t) =>
              \A i \in InQueue(t)' : i \in Nat /\ i \in InQueue(t) /\ sendCh'[i] = sendCh[i]
         /\ Concerns(f, t) /\ InQueue(t) = {} =>
              \A i \in InQueue(t)' : i = Len(sendCh) + 1 /\ sendCh'[i] = f
<1>. DEFINE n == Len(sendCh)
<1>1. /\ n \in Nat /\ Len(sendCh') = n + 1
      /\ \A i \in 1 .. n : sendCh'[i] = sendCh[i]
      /\ sendCh'[n + 1] = f
  BY DEF Queues
<1>2. \A i \in InQueue(t)' : i \in 1 .. n + 1 /\ Concerns(sendCh'[i], t)
  BY <1>1 DEF InQueue, Concerns
<1>3. \A i \in 1 .. n : Concerns(sendCh[i], t) => i \in InQueue(t)
  BY DEF InQueue
<1>. HIDE DEF n
<1>4. \A i \in 1 .. n + 1 : i \in Nat /\ (i \in 1 .. n \/ i = n + 1)
  BY <1>1
<1>5. ASSUME ~ Concerns(f, t), NEW i \in InQueue(t)'
      PROVE i \in Nat /\ i \in InQueue(t) /\ sendCh'[i] = sendCh[i]
  <2>1. i \in Nat /\ i \in 1 .. n
    BY <1>1, <1>2, <1>4, <1>5
  <2>. QED BY <1>1, <1>2, <1>3, <1>5, <2>1
<1>6. ASSUME Concerns(f, t), InQueue(t) = {}, NEW i \in InQueue(t)'
      PROVE i = n + 1 /\ sendCh'[i] = f
  <2>1. i \notin 1 .. n
    BY <1>1, <1>2, <1>3, <1>6
  <2>. QED BY <1>1, <1>2, <1>4, <1>6, <2>1
<1>. QED BY <1>5, <1>6 DEF n

LEMMA ShiftsOut ==
  ASSUME Shifts, NEW t
  PROVE  \A i \in InQueue(t)' :
           i \in Nat \ {0} /\ i + 1 \in InQueue(t) /\ sendCh'[i] = sendCh[i + 1]
<1>. DEFINE n == Len(sendCh')
<1>1. n \in Nat /\ Len(sendCh) = n + 1 /\ \A i \in 1 .. n : sendCh'[i] = sendCh[i + 1]
  BY DEF Shifts
<1>2. \A i \in InQueue(t)' : i \in 1 .. n /\ Concerns(sendCh'[i], t)
  BY DEF InQueue, Concerns
<1>3. \A i \in 1 .. n + 1 : Concerns(sendCh[i], t) => i \in InQueue(t)
  BY <1>1 DEF InQueue
<1>. HIDE DEF n
<1>4. \A i \in 1 .. n : i \in Nat \ {0} /\ i + 1 \in 1 .. n + 1
  BY <1>1
<1>. QED BY <1>1, <1>2, <1>3, <1>4

(* The frames resubscribeAll makes, where nothing of the topic remained.      *)
LEMMA NothingRemains ==
  ASSUME NEW t, ~ Remains(t)
  PROVE  Nothing(t) /\ (link = "up" => upstream[t] = 0 /\ stale[t] = {})
BY DEF Remains, Nothing, InQueue, InResub, InHand

LEMMA MakeFramesClean ==
  ASSUME ClientTypeOK, MakeFrames, NEW t \in Topics, t \notin entangled', Known(t), Clean(t)
  PROVE  Clean(t)'
<1>. DEFINE F(u) == SubscribeFrame(u, from[u], ResumeFrom(u))
<1>1. /\ resub' = {F(u) : u \in {v \in Topics : Known(v)}}
      /\ UNCHANGED <<link, sendCh, at, frame, upstream, stale, handed, lastSeen, stream>>
  BY DEF MakeFrames, topicVars, callerVars, serverVars, sessionVars
<1>2. ~ Remains(t)
  BY DEF MakeFrames
<1>3. Nothing(t) /\ (link = "up" => upstream[t] = 0 /\ stale[t] = {})
  BY <1>2, NothingRemains
<1>4. InQueue(t)' = {} /\ InHand(t)' = {}
  BY <1>1, <1>3 DEF Nothing, InQueue, InHand
<1>5. \A u \in Topics : Concerns(F(u), t) => u = t
  BY DEF SubscribeFrame, Concerns
<1>6. \A f \in InResub(t)' : f = F(t)
  <2>. HIDE DEF F
  <2>. QED BY <1>1, <1>5 DEF InResub
<1>7. ASSUME NEW f, f = F(t) PROVE Resumes(f, t)'
  <2>1. handed[t] = lastSeen[t] /\ handed[t] \in Nat /\ handed'[t] = handed[t]
    BY <1>1 DEF Clean, ClientTypeOK
  <2>2. handed'[t] > 0 => ResumeFrom(t) = handed'[t] + 1 /\ ResumeFrom(t) > 0
    BY <2>1 DEF ResumeFrom
  <2>3. F(t).op = "subscribe"
        /\ (ResumeFrom(t) > 0 => F(t).from = [kind |-> "seq", value |-> ResumeFrom(t)])
    BY DEF SubscribeFrame
  <2>. HIDE DEF F, ResumeFrom
  <2>. QED BY <1>7, <2>2, <2>3 DEF Resumes
<1>. HIDE DEF F
<1>8. Single(t)'
  BY <1>4, <1>6 DEF Single
<1>9. AllResume(t)'
  BY <1>4, <1>6, <1>7 DEF AllResume
<1>10. handed[t] = lastSeen[t] /\ handed[t] <= stream[t]
  BY DEF Clean
<1>. QED BY <1>1, <1>3, <1>8, <1>9, <1>10 DEF Clean

(* A frame on its way into the queue is the only one of its topic.            *)
LEMMA QueueFrameClean ==
  ASSUME ClientTypeOK, NEW f \in resub, QueueFrame(f), NEW t \in Topics, Clean(t)
  PROVE  Clean(t)'
<1>1. /\ Queue(f) /\ resub' = resub \ {f}
      /\ UNCHANGED <<link, at, frame, upstream, stale, dropped, handed, lastSeen, stream>>
  BY DEF QueueFrame, topicVars, callerVars, serverVars, sessionVars
<1>2. sendCh \in Seq(Outgoing) /\ f \in Outgoing /\ stream[t] \in Nat
  BY DEF ClientTypeOK
<1>3. Queues(f) \/ (closed /\ sendCh' = sendCh)
  BY <1>1, <1>2, QueueFacts
<1>4. InResub(t)' \subseteq InResub(t) /\ InHand(t)' = InHand(t)
      /\ \A a \in InHand(t)' : frame'[a] = frame[a]
  BY <1>1 DEF InResub, InHand
<1>5. ASSUME \A i \in InQueue(t)' : i \in Nat /\ i \in InQueue(t) /\ sendCh'[i] = sendCh[i]
      PROVE Clean(t)'
  <2>1. \A i \in InQueue(t)' : i + 0 = i
    BY <1>5
  <2>2. Fewer(t, 0)
    BY <1>4, <1>5, <2>1 DEF Fewer
  <2>. QED BY <1>1, <1>2, <2>2, FewerClean DEF Stays
<1>6. CASE closed /\ sendCh' = sendCh
  <2>1. \A i \in InQueue(t)' : i \in Nat /\ i \in InQueue(t) /\ sendCh'[i] = sendCh[i]
    BY <1>2, <1>6, LenProperties DEF InQueue
  <2>. QED BY <1>5, <2>1
<1>7. CASE Queues(f) /\ ~ Concerns(f, t)
  BY <1>2, <1>5, <1>7, QueuesInto
<1>8. CASE Queues(f) /\ Concerns(f, t)
  <2>1. f \in InResub(t)
    BY <1>8 DEF InResub
  <2>2. /\ InQueue(t) = {} /\ InHand(t) = {} /\ \A g \in InResub(t) : g = f
        /\ Resumes(f, t) /\ handed[t] = lastSeen[t] /\ handed[t] <= stream[t]
        /\ link = "up" => upstream[t] = 0 /\ stale[t] = {}
    BY <2>1 DEF Clean, Single, AllResume, Nothing
  <2>3. InResub(t)' = {} /\ InHand(t)' = {}
    BY <1>1, <1>4, <2>2 DEF InResub
  <2>4. \A i \in InQueue(t)' : i = Len(sendCh) + 1 /\ sendCh'[i] = f
    BY <1>2, <1>8, <2>2, QueuesInto
  <2>5. Single(t)'
    BY <2>3, <2>4 DEF Single
  <2>6. Resumes(f, t)'
    BY <1>1, <2>2 DEF Resumes
  <2>7. AllResume(t)'
    BY <2>3, <2>4, <2>6 DEF AllResume
  <2>. QED BY <1>1, <2>2, <2>5, <2>7 DEF Clean
<1>. QED BY <1>3, <1>6, <1>7, <1>8

LEMMA SendClean ==
  ASSUME ClientTypeOK, NEW a \in Callers, Send(a), NEW t \in Topics, Clean(t)
  PROVE  Clean(t)'
<1>1. /\ at[a] = "send" /\ Queue(frame[a])
      /\ at'[a] # "send" /\ \A b \in Callers : b # a => at'[b] = at[b] /\ frame'[b] = frame[b]
      /\ UNCHANGED <<link, resub, upstream, stale, dropped, handed, lastSeen, stream>>
  BY DEF Send, runVars, topicVars, serverVars, sessionVars, ClientTypeOK
<1>2. sendCh \in Seq(Outgoing) /\ frame[a] \in Outgoing /\ stream[t] \in Nat
  BY <1>1 DEF ClientTypeOK
<1>3. Queues(frame[a]) \/ (closed /\ sendCh' = sendCh)
  BY <1>1, <1>2, QueueFacts
<1>4. /\ InResub(t)' = InResub(t)
      /\ \A b \in InHand(t)' : b # a /\ b \in InHand(t) /\ frame'[b] = frame[b]
  BY <1>1 DEF InResub, InHand
<1>5. ASSUME \A i \in InQueue(t)' : i \in Nat /\ i \in InQueue(t) /\ sendCh'[i] = sendCh[i]
      PROVE Clean(t)'
  <2>1. \A i \in InQueue(t)' : i + 0 = i
    BY <1>5
  <2>2. Fewer(t, 0)
    BY <1>4, <1>5, <2>1 DEF Fewer
  <2>. QED BY <1>1, <1>2, <2>2, FewerClean DEF Stays
<1>6. CASE closed /\ sendCh' = sendCh
  <2>1. \A i \in InQueue(t)' : i \in Nat /\ i \in InQueue(t) /\ sendCh'[i] = sendCh[i]
    BY <1>2, <1>6, LenProperties DEF InQueue
  <2>. QED BY <1>5, <2>1
<1>7. CASE Queues(frame[a]) /\ ~ Concerns(frame[a], t)
  BY <1>2, <1>5, <1>7, QueuesInto
<1>8. CASE Queues(frame[a]) /\ Concerns(frame[a], t)
  <2>1. a \in InHand(t)
    BY <1>1, <1>8 DEF InHand
  <2>2. /\ InQueue(t) = {} /\ InResub(t) = {} /\ \A b \in InHand(t) : b = a
        /\ Resumes(frame[a], t) /\ handed[t] = lastSeen[t] /\ handed[t] <= stream[t]
        /\ link = "up" => upstream[t] = 0 /\ stale[t] = {}
    BY <2>1 DEF Clean, Single, AllResume, Nothing
  <2>3. InResub(t)' = {} /\ InHand(t)' = {}
    BY <1>4, <2>2
  <2>4. \A i \in InQueue(t)' : i = Len(sendCh) + 1 /\ sendCh'[i] = frame[a]
    BY <1>2, <1>8, <2>2, QueuesInto
  <2>5. Single(t)'
    BY <2>3, <2>4 DEF Single
  <2>6. \A i \in InQueue(t)' : Resumes(sendCh[i], t)'
    BY <1>1, <2>2, <2>4 DEF Resumes
  <2>7. AllResume(t)'
    BY <2>3, <2>6 DEF AllResume
  <2>. QED BY <1>1, <2>2, <2>5, <2>7 DEF Clean
<1>. QED BY <1>3, <1>6, <1>7, <1>8

(* The server starts where the frame says.                                    *)
LEMMA WriteFrameClean ==
  ASSUME ClientTypeOK, WriteFrame, NEW t \in Topics, Clean(t)
  PROVE  Clean(t)'
<1>. DEFINE h == Head(sendCh)
<1>1. /\ link = "up" /\ sendCh # <<>> /\ sendCh' = Tail(sendCh) /\ Serve(h)
      /\ UNCHANGED <<link, resub, at, frame, handed, lastSeen, stream>>
  BY DEF WriteFrame, runVars, topicVars, callerVars
<1>2. Shifts /\ h = sendCh[1] /\ h \in Outgoing /\ stream[t] \in Nat /\ handed[t] \in Nat
  BY <1>1, TailFacts DEF ClientTypeOK
<1>3. \A i \in InQueue(t)' :
        i \in Nat \ {0} /\ i + 1 \in InQueue(t) /\ sendCh'[i] = sendCh[i + 1]
  BY <1>2, ShiftsOut
<1>4. InResub(t)' = InResub(t) /\ InHand(t)' = InHand(t)
      /\ \A a \in InHand(t)' : frame'[a] = frame[a]
  BY <1>1 DEF InResub, InHand
<1>5. Fewer(t, 1)
  BY <1>3, <1>4 DEF Fewer
<1>6. CASE ~ Concerns(h, t)
  <2>1. upstream'[t] = upstream[t] /\ stale'[t] = stale[t] /\ dropped'[t] = dropped[t]
    BY <1>1, <1>2, <1>6, ServeFacts
  <2>2. Stays(t)
    BY <1>1, <2>1 DEF Stays
  <2>. QED BY <1>1, <1>2, <1>5, <2>2, FewerClean
<1>7. CASE Concerns(h, t)
  <2>1. 1 \in InQueue(t)
    BY <1>2, <1>7 DEF InQueue, Shifts
  <2>. HIDE DEF h
  <2>2. /\ \A i \in InQueue(t) : i = 1
        /\ InResub(t) = {} /\ InHand(t) = {}
        /\ Resumes(h, t) /\ handed[t] = lastSeen[t] /\ handed[t] <= stream[t]
        /\ upstream[t] = 0 /\ stale[t] = {}
    <3>1. Single(t) /\ AllResume(t) /\ (upstream[t] # 0 => Nothing(t)) /\ stale[t] = {}
          /\ handed[t] = lastSeen[t] /\ handed[t] <= stream[t]
      BY <1>1 DEF Clean
    <3>2. Resumes(h, t)
      BY <1>2, <2>1, <3>1 DEF AllResume
    <3>. QED BY <2>1, <3>1, <3>2 DEF Single, Nothing
  <2>3. InQueue(t)' = {}
    BY <1>3, <2>2
  <2>4. Nothing(t)'
    BY <1>4, <2>2, <2>3 DEF Nothing
  <2>5. Brings(h, t) /\ h.from \in From
    BY <1>2, <1>7, <2>2, OutgoingCases DEF Resumes, Brings, Concerns
  <2>6. Started(t, h) \/ upstream'[t] = 0
    BY <1>1, <1>2, <2>2, <2>5, ServeFacts
  <2>7. stale'[t] = {}
    BY <1>1, <1>2, <2>2, <2>5, ServeFacts
  <2>8. ASSUME handed[t] > 0, Started(t, h) PROVE Skips(t)'
    <3>1. h.from = [kind |-> "seq", value |-> handed[t] + 1]
      BY <2>2, <2>8 DEF Resumes
    <3>2. h.from.kind = "seq" /\ h.from.value = handed[t] + 1
      BY <3>1
    <3>3. handed[t] + 1 \in 1 .. stream[t] + 1
      BY <1>2, <2>2
    <3>4. upstream'[t] = handed[t] + 1 /\ dropped'[t] = {}
      BY <2>5, <2>8, <3>2, <3>3, StartIsSeq DEF Started
    <3>. QED BY <1>1, <1>2, <3>4 DEF Skips
  <2>9. Single(t)' /\ AllResume(t)'
    BY <2>4 DEF Nothing, Single, AllResume
  <2>. QED BY <1>1, <2>2, <2>4, <2>6, <2>7, <2>8, <2>9 DEF Clean
<1>. QED BY <1>6, <1>7

(* The event that arrives is the one after the last and those dropped.        *)
Advances(t) == handed'[t] > handed[t] /\ handed[t] + 1 .. handed'[t] - 1 = dropped[t]

LEMMA DispatchClean ==
  ASSUME ClientTypeOK, NEW t \in Topics, DispatchEvent(t), Known(t), Clean(t)
  PROVE  /\ Clean(t)'
         /\ handed[t] > 0 => Advances(t)
<1>1. /\ link = "up" /\ upstream[t] \in 1 .. stream[t]
      /\ upstream'[t] = upstream[t] + 1 /\ dropped'[t] = {}
      /\ Hand(t, upstream[t])
      /\ UNCHANGED <<link, resub, sendCh, at, frame, stream, stale>>
  BY DEF DispatchEvent, runVars, callerVars, ClientTypeOK
<1>2. /\ handed[t] \in Nat /\ stream[t] \in Nat /\ upstream[t] \in Nat
      /\ handed[t] = lastSeen[t] /\ stale[t] = {}
  BY <1>1 DEF ClientTypeOK, Clean
<1>3. lastSeen'[t] = Seen(t, upstream[t]) /\ handed'[t] = upstream[t]
  BY <1>1, <1>2, HandFacts
<1>4. Nothing(t) /\ (handed[t] > 0 => Skips(t))
  BY <1>1, <1>2 DEF Clean
<1>5. Nothing(t)'
  BY <1>1, <1>4 DEF Nothing, InQueue, InResub, InHand
<1>6. Single(t)' /\ AllResume(t)'
  BY <1>5 DEF Nothing, Single, AllResume
<1>7. upstream[t] > handed[t]
  BY <1>1, <1>2, <1>4 DEF Skips
<1>8. lastSeen'[t] = handed'[t] /\ handed'[t] <= stream'[t]
  BY <1>1, <1>2, <1>3, <1>7 DEF Seen
<1>9. Skips(t)'
  <2>1. handed'[t] + 1 .. upstream'[t] - 1 = {}
    BY <1>1, <1>2, <1>3
  <2>. QED BY <1>1, <1>2, <1>3, <2>1 DEF Skips
<1>10. handed[t] > 0 => Advances(t)
  BY <1>3, <1>4 DEF Advances, Skips
<1>. QED BY <1>1, <1>2, <1>5, <1>6, <1>8, <1>9, <1>10 DEF Clean

(* A drop widens what is skipped.                                             *)
LEMMA DropClean ==
  ASSUME ClientTypeOK, NEW t \in Topics, DropEvent(t), Clean(t)
  PROVE  Clean(t)'
<1>1. /\ link = "up" /\ upstream[t] \in 1 .. stream[t]
      /\ upstream'[t] = upstream[t] + 1 /\ dropped'[t] = dropped[t] \cup {upstream[t]}
      /\ UNCHANGED <<link, resub, sendCh, at, frame, stream, stale, handed, lastSeen>>
  BY DEF DropEvent, runVars, topicVars, callerVars, ClientTypeOK
<1>2. handed[t] \in Nat /\ stream[t] \in Nat /\ upstream[t] \in Nat
  BY <1>1 DEF ClientTypeOK
<1>3. /\ handed[t] = lastSeen[t] /\ handed[t] <= stream[t] /\ stale[t] = {}
      /\ Nothing(t) /\ (handed[t] > 0 => Skips(t))
  BY <1>1, <1>2 DEF Clean
<1>4. Nothing(t)'
  BY <1>1, <1>3 DEF Nothing, InQueue, InResub, InHand
<1>5. Single(t)' /\ AllResume(t)'
  BY <1>4 DEF Nothing, Single, AllResume
<1>6. ASSUME handed[t] > 0 PROVE Skips(t)'
  <2>1. upstream[t] > handed[t] /\ dropped[t] = handed[t] + 1 .. upstream[t] - 1
    BY <1>3, <1>6 DEF Skips
  <2>2. (handed[t] + 1 .. upstream[t] - 1) \cup {upstream[t]} = handed[t] + 1 .. upstream[t]
    BY <1>2, <2>1
  <2>3. upstream'[t] - 1 = upstream[t] /\ upstream'[t] > handed[t]
    BY <1>1, <1>2, <2>1
  <2>. QED BY <1>1, <2>1, <2>2, <2>3 DEF Skips
<1>. QED BY <1>1, <1>3, <1>4, <1>5, <1>6 DEF Clean

(* The first callback of a topic that has left nothing behind.                *)
LEMMA SubscribeClean ==
  ASSUME ClientTypeOK, NEW a \in Callers, NEW t \in Topics, NEW f \in Froms,
         Subscribe(a, t, f), ~ Known(t), t \notin entangled'
  PROVE  Clean(t)'
<1>. DEFINE g == SubscribeFrame(t, f, 0)
<1>1. /\ at[a] = "idle" /\ ~ Remains(t)
      /\ at'[a] = "send" /\ frame'[a] = g
      /\ \A b \in Callers : b # a => at'[b] = at[b] /\ frame'[b] = frame[b]
      /\ handed'[t] = 0 /\ lastSeen'[t] = 0
      /\ UNCHANGED <<link, resub, sendCh, upstream, stale, stream>>
  BY DEF Subscribe, Calls, Sends, runVars, serverVars, sessionVars, ClientTypeOK
<1>2. Nothing(t) /\ (link = "up" => upstream[t] = 0 /\ stale[t] = {})
  BY <1>1, NothingRemains
<1>3. g.op = "subscribe"
  BY DEF SubscribeFrame
<1>. HIDE DEF g
<1>4. InQueue(t)' = {} /\ InResub(t)' = {}
  BY <1>1, <1>2 DEF Nothing, InQueue, InResub
<1>5. \A b \in InHand(t)' : b = a
  BY <1>1, <1>2 DEF Nothing, InHand
<1>6. \A b \in InHand(t)' : Resumes(frame[b], t)'
  BY <1>1, <1>3, <1>5 DEF Resumes
<1>7. Single(t)' /\ AllResume(t)'
  BY <1>4, <1>5, <1>6 DEF Single, AllResume
<1>8. stream'[t] \in Nat
  BY <1>1 DEF ClientTypeOK
<1>. QED BY <1>1, <1>2, <1>7, <1>8 DEF Clean

LEMMA QuietClean ==
  ASSUME ClientTypeOK, NEW t \in Topics, Clean(t), UNCHANGED <<resub, sendCh>>,
         \A a \in InHand(t)' : a \in InHand(t) /\ frame'[a] = frame[a],
         handed'[t] = handed[t], lastSeen'[t] = lastSeen[t],
         stream'[t] \in Nat, stream'[t] >= stream[t], Stays(t)
  PROVE  Clean(t)'
<1>1. Len(sendCh) \in Nat
  BY LenProperties DEF ClientTypeOK
<1>2. \A i \in InQueue(t)' : i \in Nat /\ i + 0 \in InQueue(t) /\ sendCh'[i] = sendCh[i + 0]
  BY <1>1 DEF InQueue
<1>3. InResub(t)' \subseteq InResub(t)
  BY DEF InResub
<1>4. Fewer(t, 0)
  BY <1>2, <1>3 DEF Fewer
<1>. QED BY <1>4, FewerClean

(* The caller holds a frame of another topic, of none, or no frame.           *)
LEMMA CallerClean ==
  ASSUME ClientTypeOK, NEW t \in Topics, Clean(t), NEW a \in Callers,
         UNCHANGED <<resub, sendCh, link, upstream, stale, dropped, stream>>,
         handed'[t] = handed[t], lastSeen'[t] = lastSeen[t],
         \A b \in Callers : b # a => at'[b] = at[b] /\ frame'[b] = frame[b],
         at'[a] = "send" => ~ Concerns(frame'[a], t)
  PROVE  Clean(t)'
<1>1. \A b \in InHand(t)' : b \in InHand(t) /\ frame'[b] = frame[b]
  BY DEF InHand, Concerns
<1>2. stream'[t] \in Nat /\ stream'[t] >= stream[t]
  BY DEF ClientTypeOK
<1>3. Stays(t)
  BY DEF Stays
<1>. QED BY <1>1, <1>2, <1>3, QuietClean

LEMMA RunClean ==
  ASSUME ClientTypeOK, RunStep, NEW t \in Topics, t \notin entangled', Known(t), Clean(t)
  PROVE  Clean(t)'
<1>1. stream[t] \in Nat /\ stream[t] >= stream[t] /\ \A a \in InHand(t) : a \in InHand(t)
  BY DEF ClientTypeOK
<1>2. CASE Backoff \/ StartPumps \/ Drained \/ RunEnds \/ Disconnect \/ Dial
  <2>1. /\ UNCHANGED <<resub, sendCh, at, frame, handed, lastSeen, stream>>
        /\ \/ UNCHANGED <<link, upstream, stale, dropped>>
           \/ link' = "down"
           \/ upstream'[t] = 0 /\ stale'[t] = {}
    BY <1>2 DEF Backoff, StartPumps, Drained, RunEnds, Disconnect, Dial, topicVars, callerVars,
                serverVars, sessionVars
  <2>2. \A a \in InHand(t)' : a \in InHand(t) /\ frame'[a] = frame[a]
    BY <2>1 DEF InHand
  <2>3. Stays(t)
    BY <2>1 DEF Stays
  <2>. QED BY <1>1, <2>1, <2>2, <2>3, QuietClean
<1>. QED BY <1>2, MakeFramesClean, QueueFrameClean DEF RunStep

LEMMA WriterClean ==
  ASSUME ClientTypeOK, WriterStep \/ WriteTimeout, NEW t \in Topics, Clean(t)
  PROVE  Clean(t)'
<1>1. CASE WriterSeesDone \/ WriteFails \/ WriteTimeout
  <2>1. /\ UNCHANGED <<resub, at, frame, handed, lastSeen, stream, link, upstream, stale, dropped>>
        /\ (sendCh # <<>> /\ sendCh' = Tail(sendCh)) \/ UNCHANGED sendCh
    BY <1>1 DEF WriterSeesDone, WriteFails, WriteTimeout, runVars, topicVars, callerVars,
                serverVars, sessionVars
  <2>2. InResub(t)' \subseteq InResub(t)
        /\ \A a \in InHand(t)' : a \in InHand(t) /\ frame'[a] = frame[a]
    BY <2>1 DEF InResub, InHand
  <2>3. stream'[t] \in Nat /\ stream'[t] >= stream[t] /\ Stays(t)
    BY <2>1 DEF ClientTypeOK, Stays
  <2>4. CASE UNCHANGED sendCh
    BY <2>1, <2>2, <2>3, <2>4, QuietClean
  <2>5. CASE sendCh # <<>> /\ sendCh' = Tail(sendCh)
    <3>1. Shifts
      BY <2>5, TailFacts DEF ClientTypeOK
    <3>2. Fewer(t, 1)
      BY <2>2, <3>1, ShiftsOut DEF Fewer
    <3>. QED BY <2>1, <2>3, <3>2, FewerClean
  <2>. QED BY <2>1, <2>4, <2>5
<1>. QED BY <1>1, WriteFrameClean DEF WriterStep

LEMMA ReaderClean ==
  ASSUME ClientTypeOK, ReaderStep, NEW t \in Topics, Known(t), Clean(t)
  PROVE  Clean(t)'
<1>. USE DEF runVars, topicVars, callerVars
<1>1. stream[t] \in Nat /\ stream[t] >= stream[t]
  BY DEF ClientTypeOK
<1>2. ASSUME UNCHANGED <<resub, sendCh, at, frame, stream, link>>,
             handed'[t] = handed[t], lastSeen'[t] = lastSeen[t], upstream'[t] = upstream[t],
             stale'[t] = stale[t], dropped'[t] = dropped[t]
      PROVE Clean(t)'
  <2>1. \A a \in InHand(t)' : a \in InHand(t) /\ frame'[a] = frame[a]
    BY <1>2 DEF InHand
  <2>2. Stays(t)
    BY <1>2 DEF Stays
  <2>. QED BY <1>1, <1>2, <2>1, <2>2, QuietClean
<1>3. ASSUME NEW u \in Topics, DispatchEvent(u) PROVE Clean(t)'
  <2>1. CASE u = t
    BY <1>3, <2>1, DispatchClean
  <2>2. CASE u # t
    <3>1. /\ UNCHANGED <<resub, sendCh, at, frame, stream, link, stale>>
          /\ upstream'[t] = upstream[t] /\ dropped'[t] = dropped[t]
          /\ upstream[u] \in Nat /\ Hand(u, upstream[u])
      BY <1>3, <2>2 DEF DispatchEvent, ClientTypeOK
    <3>2. handed'[t] = handed[t] /\ lastSeen'[t] = lastSeen[t]
      BY <2>2, <3>1, HandFacts
    <3>. QED BY <1>2, <3>1, <3>2
  <2>. QED BY <2>1, <2>2
<1>4. ASSUME NEW n \in replies, DispatchReply(n) PROVE Clean(t)'
  BY <1>2, <1>4 DEF DispatchReply
<1>5. CASE ReadFails
  BY <1>2, <1>5 DEF ReadFails, serverVars, sessionVars
<1>6. ASSUME NEW u \in Topics, NEW n \in stale[u], DispatchStale(u, n) PROVE Clean(t)'
  <2>1. u # t
    BY <1>6 DEF DispatchStale, Clean
  <2>2. /\ UNCHANGED <<resub, sendCh, at, frame, stream, link, upstream, dropped>>
        /\ stale'[t] = stale[t] /\ n \in Nat /\ Hand(u, n)
    BY <1>6, <2>1 DEF DispatchStale, ClientTypeOK
  <2>3. handed'[t] = handed[t] /\ lastSeen'[t] = lastSeen[t]
    BY <2>1, <2>2, HandFacts
  <2>. QED BY <1>2, <2>2, <2>3
<1>. QED BY <1>3, <1>4, <1>5, <1>6 DEF ReaderStep

LEMMA ResumeStep ==
  ASSUME ClientTypeOK, ResumeInv, [Next]_vars
  PROVE  ResumeInv'
<1>. SUFFICES ASSUME NEW t \in Topics, t \notin entangled', Known(t)' PROVE Clean(t)'
  BY DEF ResumeInv
<1>. USE DEF runVars, topicVars, callerVars, serverVars, sessionVars
<1>1. ASSUME Known(t), entangled \subseteq entangled' PROVE Clean(t)
  BY <1>1 DEF ResumeInv
<1>2. CASE RunStep
  <2>1. callbacks' = callbacks /\ entangled \subseteq entangled'
    BY <1>2 DEF RunStep, Backoff, Dial, MakeFrames, QueueFrame, StartPumps, Disconnect,
                Drained, RunEnds
  <2>. QED BY <1>1, <1>2, <2>1, RunClean DEF Known
<1>3. CASE WriterStep \/ WriteTimeout
  <2>1. callbacks' = callbacks /\ entangled' = entangled
    BY <1>3 DEF WriterStep, WriteFrame, WriteFails, WriterSeesDone, WriteTimeout
  <2>. QED BY <1>1, <1>3, <2>1, WriterClean DEF Known
<1>4. CASE ReaderStep
  <2>1. callbacks' = callbacks /\ entangled' = entangled
    BY <1>4 DEF ReaderStep, DispatchEvent, DispatchStale, DispatchReply, ReadFails
  <2>. QED BY <1>1, <1>4, <2>1, ReaderClean DEF Known
<1>5. CASE \/ CloseClient \/ LoseLink \/ (\E u \in Topics : Ingest(u))
           \/ (\E n \in replies : DropReply(n)) \/ UNCHANGED vars
  <2>1. /\ UNCHANGED <<callbacks, entangled, resub, sendCh, at, frame, handed, lastSeen, upstream,
                       stale, dropped>>
        /\ link' = link \/ link' = "down"
        /\ stream' = stream \/ \E u \in Topics : stream' = [stream EXCEPT ![u] = @ + 1]
    BY <1>5 DEF CloseClient, LoseLink, Ingest, DropReply, vars
  <2>2. stream'[t] \in Nat /\ stream'[t] >= stream[t]
    <3>1. stream \in [Topics -> Nat]
      BY DEF ClientTypeOK
    <3>2. stream'[t] = stream[t] \/ stream'[t] = stream[t] + 1
      BY <2>1, <3>1
    <3>3. stream[t] \in Nat
      BY <3>1
    <3>. QED BY <3>2, <3>3
  <2>3. \A a \in InHand(t)' : a \in InHand(t) /\ frame'[a] = frame[a]
    BY <2>1 DEF InHand
  <2>4. Stays(t)
    BY <2>1 DEF Stays
  <2>. QED BY <1>1, <2>1, <2>2, <2>3, <2>4, QuietClean DEF Known
<1>10. ASSUME NEW u \in Topics, DropEvent(u) PROVE Clean(t)'
  <2>1. callbacks' = callbacks /\ entangled' = entangled
    BY <1>10 DEF DropEvent
  <2>2. Known(t) /\ Clean(t)
    BY <1>1, <2>1 DEF Known
  <2>3. CASE u = t
    BY <1>10, <2>2, <2>3, DropClean
  <2>4. CASE u # t
    <3>1. /\ UNCHANGED <<resub, sendCh, at, frame, stream, link, stale, handed, lastSeen>>
          /\ upstream'[t] = upstream[t] /\ dropped'[t] = dropped[t]
      BY <1>10, <2>4 DEF DropEvent, ClientTypeOK
    <3>2. stream'[t] \in Nat /\ stream'[t] >= stream[t] /\ Stays(t)
      BY <3>1 DEF ClientTypeOK, Stays
    <3>3. \A a \in InHand(t)' : a \in InHand(t) /\ frame'[a] = frame[a]
      BY <3>1 DEF InHand
    <3>. QED BY <2>2, <3>1, <3>2, <3>3, QuietClean
  <2>. QED BY <2>3, <2>4
<1>6. ASSUME NEW a \in Callers, Send(a) PROVE Clean(t)'
  <2>1. callbacks' = callbacks /\ entangled' = entangled
    BY <1>6 DEF Send
  <2>. QED BY <1>1, <1>6, <2>1, SendClean DEF Known
<1>7. ASSUME NEW a \in Callers, EndRequest(a) \/ BeginRequest(a) PROVE Clean(t)'
  <2>1. /\ UNCHANGED <<callbacks, entangled, resub, sendCh, link, upstream, stale, dropped, stream,
                       handed, lastSeen>>
        /\ \A b \in Callers : b # a => at'[b] = at[b] /\ frame'[b] = frame[b]
        /\ at'[a] = "idle" \/ frame'[a] = Request(calls + 1)
    BY <1>7 DEF EndRequest, TakeResponse, GiveUp, LeaveRequest, BeginRequest, Sends, ClientTypeOK
  <2>2. at'[a] = "send" => ~ Concerns(frame'[a], t)
    BY <2>1 DEF Request, Concerns
  <2>. QED BY <1>1, <2>1, <2>2, CallerClean DEF Known
<1>8. ASSUME NEW a \in Callers, NEW u \in Topics, NEW f \in Froms, Subscribe(a, u, f)
      PROVE Clean(t)'
  <2>1. /\ UNCHANGED <<resub, sendCh, link, upstream, stale, dropped, stream>> /\ entangled \subseteq entangled'
        /\ at[a] = "idle" /\ (u # t => callbacks'[t] = callbacks[t])
        /\ \A b \in Callers : b # a => at'[b] = at[b] /\ frame'[b] = frame[b]
    BY <1>8 DEF Subscribe, Calls, Sends, ClientTypeOK
  <2>2. CASE ~ Known(t)
    <3>1. u = t
      BY <2>1, <2>2 DEF Known
    <3>. QED BY <1>8, <2>2, <3>1, SubscribeClean
  <2>3. CASE Known(t)
    <3>1. handed'[t] = handed[t] /\ lastSeen'[t] = lastSeen[t]
      BY <1>8, <2>3 DEF Subscribe, ClientTypeOK
    <3>2. at'[a] = "send" => ~ Concerns(frame'[a], t)
      <4>1. CASE Known(u)
        BY <1>8, <2>1, <4>1 DEF Subscribe
      <4>2. CASE ~ Known(u)
        <5>1. u # t /\ frame'[a] = SubscribeFrame(u, f, 0)
          BY <1>8, <2>3, <4>2 DEF Subscribe, Sends, ClientTypeOK
        <5>. QED BY <5>1 DEF SubscribeFrame, Concerns
      <4>. QED BY <4>1, <4>2
    <3>. QED BY <1>1, <2>1, <2>3, <3>1, <3>2, CallerClean
  <2>. QED BY <2>2, <2>3
<1>9. ASSUME NEW a \in Callers, NEW u \in Topics, NEW n \in callbacks[u], CloseHandle(a, u, n)
      PROVE Clean(t)'
  <2>1. /\ UNCHANGED <<resub, sendCh, link, upstream, stale, dropped, stream, handed, lastSeen,
                       entangled>>
        /\ at[a] = "idle"
        /\ \A b \in Callers : b # a => at'[b] = at[b] /\ frame'[b] = frame[b]
        /\ callbacks' = [callbacks EXCEPT ![u] = @ \ {n}]
        /\ \/ UNCHANGED <<at, frame>>
           \/ callbacks[u] = {n} /\ frame'[a] = Unsubscribe(u)
    BY <1>9 DEF CloseHandle, Sends, ClientTypeOK
  <2>2. Known(t) /\ (callbacks[u] = {n} => u # t)
    BY <2>1 DEF Known, ClientTypeOK
  <2>3. at'[a] = "send" => ~ Concerns(frame'[a], t)
    BY <2>1, <2>2 DEF Unsubscribe, Concerns
  <2>. QED BY <1>1, <2>1, <2>2, <2>3, CallerClean
<1>. QED BY <1>2, <1>3, <1>4, <1>5, <1>6, <1>7, <1>8, <1>9, <1>10 DEF Next, CallerStep, EndRequest

(* A step moves on in a topic by an event that has come, or hands out nothing *)
(* of it.                                                                     *)
LEMMA MovesOn ==
  ASSUME ClientTypeOK, ResumeInv, Next,
         NEW t \in Topics \ entangled, Known(t), handed[t] > 0
  PROVE  /\ DispatchEvent(t) => Advances(t)
         /\ handed'[t] # handed[t] => DispatchEvent(t) \/ handed'[t] = 0
<1>. USE DEF topicVars
<1>1. Clean(t)
  BY DEF ResumeInv
<1>2. DispatchEvent(t) => Advances(t)
  BY <1>1, DispatchClean
<1>. SUFFICES ASSUME ~ DispatchEvent(t) PROVE handed'[t] = handed[t]
  BY <1>2
<1>3. CASE RunStep \/ CloseClient \/ LoseLink \/ WriteTimeout
  BY <1>3 DEF RunStep, Backoff, Dial, MakeFrames, QueueFrame, StartPumps, Disconnect, Drained,
              RunEnds, CloseClient, LoseLink, WriteTimeout
<1>4. CASE WriterStep
  BY <1>4 DEF WriterStep, WriteFrame, WriteFails, WriterSeesDone
<1>5. CASE ReaderStep
  <2>1. ASSUME NEW u \in Topics, DispatchEvent(u) PROVE handed'[t] = handed[t]
    <3>1. u # t /\ upstream[u] \in Nat /\ Hand(u, upstream[u])
      BY <2>1 DEF DispatchEvent, ClientTypeOK
    <3>. QED BY <3>1, HandFacts
  <2>2. ASSUME NEW u \in Topics, NEW n \in stale[u], DispatchStale(u, n)
        PROVE handed'[t] = handed[t]
    <3>1. u # t /\ n \in Nat /\ Hand(u, n)
      BY <1>1, <2>2 DEF DispatchStale, Clean, ClientTypeOK
    <3>. QED BY <3>1, HandFacts
  <2>3. ASSUME NEW n \in replies, DispatchReply(n) PROVE handed'[t] = handed[t]
    BY <2>3 DEF DispatchReply
  <2>4. CASE ReadFails
    BY <2>4 DEF ReadFails
  <2>. QED BY <1>5, <2>1, <2>2, <2>3, <2>4 DEF ReaderStep
<1>6. CASE (\E u \in Topics : Ingest(u) \/ DropEvent(u)) \/ \E n \in replies : DropReply(n)
  BY <1>6 DEF Ingest, DropEvent, DropReply
<1>7. ASSUME NEW a \in Callers, CallerStep(a) \/ GiveUp(a) \/ BeginRequest(a)
      PROVE handed'[t] = handed[t]
  BY <1>7 DEF CallerStep, Send, TakeResponse, GiveUp, LeaveRequest, BeginRequest
<1>8. ASSUME NEW a \in Callers, NEW u \in Topics, NEW f \in Froms, Subscribe(a, u, f)
      PROVE handed'[t] = handed[t]
  BY <1>8 DEF Subscribe, ClientTypeOK
<1>9. ASSUME NEW a \in Callers, NEW u \in Topics, NEW n \in callbacks[u], CloseHandle(a, u, n)
      PROVE handed'[t] = handed[t]
  BY <1>9 DEF CloseHandle
<1>. QED BY <1>3, <1>4, <1>5, <1>6, <1>7, <1>8, <1>9 DEF Next

(* "On drop the client re-subscribes each topic from the last seq it          *)
(* observed, so callers see no gap" (client.go:3-5), up to what the server    *)
(* drops: whatever the number of callers, topics, faults and reconnects, a    *)
(* topic whose older traffic is gone when it is subscribed goes on with the   *)
(* next event of the stream that the server did not drop, and what it skips   *)
(* was dropped on the connection that brings that event (client.go:206-265,   *)
(* 287-288, 331-384, 409-423; hub.go:116-120; ws.go:108-115).                 *)
THEOREM NoGapButDrops == Spec => ResumesExactly
<1>1. Init => ClientTypeOK /\ ResumeInv
  BY ClientTypeInit, ResumeInit
<1>2. ClientTypeOK /\ ResumeInv /\ [Next]_vars => (ClientTypeOK /\ ResumeInv)'
  BY ClientTypeStep, ResumeStep
<1>3. ClientTypeOK /\ ResumeInv /\ [Next]_vars =>
        [\A t \in Topics \ entangled :
           Known(t) /\ handed[t] > 0 =>
             /\ DispatchEvent(t) => /\ handed'[t] > handed[t]
                                   /\ handed[t] + 1 .. handed'[t] - 1 = dropped[t]
             /\ handed'[t] # handed[t] => DispatchEvent(t) \/ handed'[t] = 0]_vars
  BY MovesOn DEF Advances
<1>. QED BY <1>1, <1>2, <1>3, PTL DEF Spec, ResumesExactly

================================================================================
