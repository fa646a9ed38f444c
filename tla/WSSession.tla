-------------------------------- MODULE WSSession ------------------------------
(******************************************************************************)
(* internal/transport/ws.go over the broker.                                  *)
(*                                                                            *)
(* A connection has a reader that handles one client frame at a time, one     *)
(* forwarder per subscription, and a writer; all frames for the client pass   *)
(* through the bounded queue out, where a full queue drops them silently.     *)
(*                                                                            *)
(* The queue is kept as the history sent of accepted frames with the number   *)
(* written of those that left it.  A frame carries the subscription it was    *)
(* made for (by), which the wire format does not.                             *)
(******************************************************************************)
EXTENDS Broker

CONSTANTS
  Conns,    \* connections; the reader of one calls Publish for its client
  OutBuf,   \* outBuf, 512 in the code
  Ops,      \* client operations and faults under study
  MaxRequests  \* bound on the frames a client sends

ASSUME ConnsAssumption == Conns \subseteq Publishers
ASSUME OutBufAssumption == OutBuf \in Nat \ {0}
ASSUME MaxRequestsAssumption == MaxRequests \in Nat
ASSUME OpsAssumption ==
  Ops \subseteq {"subscribe", "unsubscribe", "get_state", "publish", "ping", "unknown",
           "break", "timeout"}

VARIABLES
  link,      \* the WebSocket: "up" or "down"
  ctxDone,   \* the connection's context is cancelled
  writer,    \* writePump: "run" or "exit"
  reader,    \* where readPump is
  subsMap,   \* wsSession.subs: topic -> subscription
  busy,      \* the subscription handleSubscribe is working on
  pos,       \* backfill events it has passed to send
  closing,   \* subscriptions handleUnsubscribe or closeAllSubs has to close
  sent,      \* frames accepted by out
  written,   \* how many of them writePump has taken
  owner,     \* the connection of a subscription
  fwd,       \* where forward is
  held,      \* the frame forward received
  cancelled, \* subForward.cancel was called
  lastLag,   \* local of forward
  asked,     \* frames the client has sent
  lost       \* history: subscriptions that had a frame dropped by send

connVars == <<link, ctxDone, writer, reader, subsMap, busy, pos, closing>>
outVars == <<sent, written, lost>>
fwdVars == <<owner, fwd, held, cancelled, lastLag>>
wsVars == <<connVars, outVars, fwdVars, asked>>
vars == <<brokerVars, wsVars>>

WSInit ==
  /\ BrokerInit
  /\ link = [c \in Conns |-> "up"]
  /\ ctxDone = [c \in Conns |-> FALSE]
  /\ writer = [c \in Conns |-> "run"]
  /\ reader = [c \in Conns |-> "read"]
  /\ subsMap = [c \in Conns |-> [t \in Topics |-> None]]
  /\ busy = [c \in Conns |-> None]
  /\ pos = [c \in Conns |-> 0]
  /\ closing = [c \in Conns |-> {}]
  /\ sent = [c \in Conns |-> <<>>]
  /\ written = [c \in Conns |-> 0]
  /\ owner = [s \in Subs |-> None]
  /\ fwd = [s \in Subs |-> "none"]
  /\ held = [s \in Subs |-> None]
  /\ cancelled = [s \in Subs |-> FALSE]
  /\ lastLag = [s \in Subs |-> 0]
  /\ asked = [c \in Conns |-> 0]
  /\ lost = {}

--------------------------------------------------------------------------------
(* The outgoing queue                                                         *)

(* n is the seq of an event, the last_seq of an ack, missed of a lagging.     *)
Msg(type, s, n) == [type |-> type, by |-> s, n |-> n]

Queued(c) == Len(sent[c]) - written[c]

(* send: accepted when out has room, dropped without a trace otherwise.       *)
Enqueue(c, m) ==
  IF Queued(c) < OutBuf
  THEN sent' = [sent EXCEPT ![c] = Append(@, m)] /\ UNCHANGED lost
  ELSE lost' = lost \cup {m.by} /\ UNCHANGED sent

(* writePump: a frame is taken and written, or the write fails; the first     *)
(* error, or a cancelled context, ends the writer and cancels the context.    *)
Write(c) ==
  /\ writer[c] = "run"
  /\ Queued(c) > 0
  /\ link[c] = "up"
  /\ written' = [written EXCEPT ![c] = @ + 1]
  /\ UNCHANGED <<brokerVars, connVars, sent, lost, fwdVars>>

WriterExit(c) ==
  /\ writer[c] = "run"
  /\ link[c] = "down" \/ ctxDone[c]
  /\ writer' = [writer EXCEPT ![c] = "exit"]
  /\ ctxDone' = [ctxDone EXCEPT ![c] = TRUE]
  /\ UNCHANGED <<brokerVars, link, reader, subsMap, busy, pos, closing, outVars, fwdVars>>

(* A write to a client that stopped reading misses its deadline.  The client  *)
(* still sends, and the reader knows nothing until its own deadline passes,   *)
(* now that no ping goes out.                                                 *)
WriteTimeout(c) ==
  /\ "timeout" \in Ops
  /\ writer[c] = "run"
  /\ writer' = [writer EXCEPT ![c] = "exit"]
  /\ ctxDone' = [ctxDone EXCEPT ![c] = TRUE]
  /\ UNCHANGED <<brokerVars, link, reader, subsMap, busy, pos, closing, outVars, fwdVars>>

(* The connection breaks; neither pump knows until its next call fails.       *)
Break(c) ==
  /\ "break" \in Ops
  /\ link[c] = "up"
  /\ link' = [link EXCEPT ![c] = "down"]
  /\ UNCHANGED <<brokerVars, ctxDone, writer, reader, subsMap, busy, pos, closing, outVars, fwdVars>>

--------------------------------------------------------------------------------
(* readPump                                                                   *)

Reading(c, op) ==
  /\ reader[c] = "read"
  /\ link[c] = "up"
  /\ op \in Ops
  /\ asked[c] < MaxRequests
  /\ asked' = [asked EXCEPT ![c] = @ + 1]

(* handleSubscribe for a topic that is already in the map.                    *)
RefuseSubscribe(c, t) ==
  /\ Reading(c, "subscribe")
  /\ subsMap[c][t] # None
  /\ Enqueue(c, Msg("error", None, 0))
  /\ UNCHANGED <<brokerVars, connVars, written, fwdVars>>

(* handleSubscribe: the map is consulted, then broker.Subscribe begins.       *)
BeginSubscribe(c, t, from, s) ==
  /\ Reading(c, "subscribe")
  /\ subsMap[c][t] = None
  /\ SubscribeHub(s, t, from)
  /\ owner' = [owner EXCEPT ![s] = c]
  /\ reader' = [reader EXCEPT ![c] = "subscribe"]
  /\ busy' = [busy EXCEPT ![c] = s]
  /\ pos' = [pos EXCEPT ![c] = 0]
  /\ UNCHANGED <<link, ctxDone, writer, subsMap, closing, outVars, fwd, held, cancelled, lastLag>>

(* broker.Subscribe failed and has closed the subscription.                   *)
SubscribeError(c) ==
  /\ reader[c] = "subscribe"
  /\ phase[busy[c]] = "done"
  /\ Enqueue(c, Msg("error", None, 0))
  /\ reader' = [reader EXCEPT ![c] = "read"]
  /\ busy' = [busy EXCEPT ![c] = None]
  /\ UNCHANGED <<brokerVars, link, ctxDone, writer, subsMap, pos, closing, written, fwdVars>>

(* One send per backfill event ...                                            *)
SendBackfill(c) ==
  LET s == busy[c] IN
  /\ reader[c] = "subscribe"
  /\ stage[s] = "live"
  /\ pos[c] < Len(backfill[s])
  /\ Enqueue(c, Msg("event", s, backfill[s][pos[c] + 1].seq))
  /\ pos' = [pos EXCEPT ![c] = @ + 1]
  /\ UNCHANGED <<brokerVars, link, ctxDone, writer, reader, subsMap, busy, closing, written, fwdVars>>

(* Mutant: forward is never started.                                          *)
FinishSubscribe_NoForward(c) ==
  LET s == busy[c] IN
  /\ reader[c] = "subscribe"
  /\ stage[s] = "live"
  /\ pos[c] = Len(backfill[s])
  /\ Enqueue(c, Msg("ack", s, fence[s]))
  /\ subsMap' = [subsMap EXCEPT ![c][subTopic[s]] = s]
  /\ reader' = [reader EXCEPT ![c] = "read"]
  /\ busy' = [busy EXCEPT ![c] = None]
  /\ UNCHANGED <<brokerVars, link, ctxDone, writer, pos, closing, written, fwdVars>>

(* ... then the ack, the entry in the map, and go forward(...).               *)
FinishSubscribe(c) ==
  LET s == busy[c] IN
  /\ reader[c] = "subscribe"
  /\ stage[s] = "live"
  /\ pos[c] = Len(backfill[s])
  /\ Enqueue(c, Msg("ack", s, fence[s]))
  /\ subsMap' = [subsMap EXCEPT ![c][subTopic[s]] = s]
  /\ fwd' = [fwd EXCEPT ![s] = "select"]
  /\ reader' = [reader EXCEPT ![c] = "read"]
  /\ busy' = [busy EXCEPT ![c] = None]
  /\ UNCHANGED <<brokerVars, link, ctxDone, writer, pos, closing, written,
                 owner, held, cancelled, lastLag>>

(* Mutant: the entry stays in the map.                                        *)
RecvUnsubscribe_KeepsEntry(c, t) ==
  /\ Reading(c, "unsubscribe")
  /\ closing' = [closing EXCEPT ![c] = {subsMap[c][t]} \ {None}]
  /\ reader' = [reader EXCEPT ![c] = "unsubscribe"]
  /\ UNCHANGED <<brokerVars, link, ctxDone, writer, subsMap, busy, pos, outVars, fwdVars>>

(* Mutant: the forwarder is cancelled, its subscription stays open.           *)
RecvUnsubscribe_OnlyCancels(c, t) ==
  /\ Reading(c, "unsubscribe")
  /\ cancelled' = [s \in Subs |-> cancelled[s] \/ s = subsMap[c][t]]
  /\ subsMap' = [subsMap EXCEPT ![c][t] = None]
  /\ reader' = [reader EXCEPT ![c] = "unsubscribe"]
  /\ UNCHANGED <<brokerVars, link, ctxDone, writer, busy, pos, closing, outVars,
                 owner, fwd, held, lastLag>>

(* handleUnsubscribe removes the entry and closes the subscription, if any.   *)
RecvUnsubscribe(c, t) ==
  /\ Reading(c, "unsubscribe")
  /\ closing' = [closing EXCEPT ![c] = {subsMap[c][t]} \ {None}]
  /\ subsMap' = [subsMap EXCEPT ![c][t] = None]
  /\ reader' = [reader EXCEPT ![c] = "unsubscribe"]
  /\ UNCHANGED <<brokerVars, link, ctxDone, writer, busy, pos, outVars, fwdVars>>

(* Mutant: closeAllSubs is not deferred.                                      *)
ReadError_KeepsSubs(c) ==
  /\ reader[c] = "read"
  /\ link[c] = "down" \/ writer[c] = "exit"
  /\ link' = [link EXCEPT ![c] = "down"]
  /\ reader' = [reader EXCEPT ![c] = "closeall"]
  /\ UNCHANGED <<brokerVars, ctxDone, writer, subsMap, busy, pos, closing, outVars, fwdVars>>

(* ReadJSON fails; the deferred calls of the handler close the connection,    *)
(* then every subscription, then cancel the context.                          *)
ReadError(c) ==
  /\ reader[c] = "read"
  /\ link[c] = "down" \/ writer[c] = "exit"
  /\ link' = [link EXCEPT ![c] = "down"]
  /\ closing' = [closing EXCEPT ![c] = {subsMap[c][t] : t \in Topics} \ {None}]
  /\ subsMap' = [subsMap EXCEPT ![c] = [t \in Topics |-> None]]
  /\ reader' = [reader EXCEPT ![c] = "closeall"]
  /\ UNCHANGED <<brokerVars, ctxDone, writer, busy, pos, outVars, fwdVars>>

(* fw.cancel() and broker.Unsubscribe(fw.sub), one subscription at a time.    *)
CancelSub(c, s) ==
  /\ reader[c] \in {"unsubscribe", "closeall"}
  /\ s \in closing[c]
  /\ \A r \in closing[c] : stage[r] = "closed" => phase[r] = "done"
  /\ Unsubscribe(s)
  /\ cancelled' = [cancelled EXCEPT ![s] = TRUE]
  /\ UNCHANGED <<connVars, outVars, owner, fwd, held, lastLag>>

AllClosed(c) == \A s \in closing[c] : phase[s] = "done"

FinishUnsubscribe(c) ==
  /\ reader[c] = "unsubscribe"
  /\ AllClosed(c)
  /\ closing' = [closing EXCEPT ![c] = {}]
  /\ reader' = [reader EXCEPT ![c] = "read"]
  /\ UNCHANGED <<brokerVars, link, ctxDone, writer, subsMap, busy, pos, outVars, fwdVars>>

HandlerReturn(c) ==
  /\ reader[c] = "closeall"
  /\ AllClosed(c)
  /\ closing' = [closing EXCEPT ![c] = {}]
  /\ ctxDone' = [ctxDone EXCEPT ![c] = TRUE]
  /\ reader' = [reader EXCEPT ![c] = "end"]
  /\ UNCHANGED <<brokerVars, link, writer, subsMap, busy, pos, outVars, fwdVars>>

(* get_state, ping and an unknown op are answered at once.                    *)
Answer(c, op) ==
  /\ Reading(c, op)
  /\ \/ op = "get_state" /\ \E t \in Topics :
          Enqueue(c, Msg(IF GetState(t) = <<>> THEN "error" ELSE "state", None, Len(GetState(t))))
     \/ op = "ping" /\ Enqueue(c, Msg("pong", None, 0))
     \/ op = "unknown" /\ Enqueue(c, Msg("error", None, 0))
  /\ UNCHANGED <<brokerVars, connVars, written, fwdVars>>

(* handlePublish: the reader goroutine itself runs Broker.Publish ...         *)
BeginPublish(c, t, ok) ==
  /\ Reading(c, "publish")
  /\ PublishCall(c, t, ok, 0)
  /\ reader' = [reader EXCEPT ![c] = "publish"]
  /\ UNCHANGED <<link, ctxDone, writer, subsMap, busy, pos, closing, outVars, fwdVars>>

(* ... and acknowledges the seq, or reports the error, when it returns.       *)
EndPublish(c) ==
  /\ \/ FinishPublish(c) /\ Enqueue(c, Msg("ack", None, cur[c].seq))
     \/ AppendFails(c) /\ Enqueue(c, Msg("error", None, 0))
  /\ reader' = [reader EXCEPT ![c] = "read"]
  /\ UNCHANGED <<link, ctxDone, writer, subsMap, busy, pos, closing, written, fwdVars>>

--------------------------------------------------------------------------------
(* forward                                                                    *)

(* Mutant: the event at the fence is not taken for a duplicate.               *)
ForwardTake_OffByOne(s) ==
  /\ fwd[s] = "select"
  /\ Take(s)
  /\ LET f == Head(chan[s]) IN
     IF f.event.seq < fence[s]
     THEN UNCHANGED <<fwd, held>>
     ELSE /\ held' = [held EXCEPT ![s] = f]
          /\ fwd' = [fwd EXCEPT ![s] = "check"]
  /\ UNCHANGED <<connVars, outVars, owner, cancelled, lastLag>>

(* The select receives a frame; one at or below the fence is passed over,     *)
(* before the drop counter is looked at.                                      *)
ForwardTake(s) ==
  /\ fwd[s] = "select"
  /\ Take(s)
  /\ LET f == Head(chan[s]) IN
     IF f.event.seq <= fence[s]
     THEN UNCHANGED <<fwd, held>>
     ELSE /\ held' = [held EXCEPT ![s] = f]
          /\ fwd' = [fwd EXCEPT ![s] = "check"]
  /\ UNCHANGED <<connVars, outVars, owner, cancelled, lastLag>>

(* Mutant: drops are noticed but not announced.                               *)
ForwardLag_Silent(s) ==
  /\ fwd[s] = "check"
  /\ lastLag' = [lastLag EXCEPT ![s] = lag[s]]
  /\ fwd' = [fwd EXCEPT ![s] = "deliver"]
  /\ UNCHANGED <<brokerVars, connVars, outVars, owner, held, cancelled>>

(* New drops are announced first ...                                          *)
ForwardLag(s) ==
  /\ fwd[s] = "check"
  /\ IF lag[s] > lastLag[s]
     THEN /\ Enqueue(owner[s], Msg("lagging", s, lag[s] - lastLag[s]))
          /\ lastLag' = [lastLag EXCEPT ![s] = lag[s]]
     ELSE UNCHANGED <<sent, lost, lastLag>>
  /\ fwd' = [fwd EXCEPT ![s] = "deliver"]
  /\ UNCHANGED <<brokerVars, connVars, written, owner, held, cancelled>>

(* ... then the event is sent.                                                *)
ForwardEvent(s) ==
  /\ fwd[s] = "deliver"
  /\ Enqueue(owner[s], Msg("event", s, held[s].event.seq))
  /\ held' = [held EXCEPT ![s] = None]
  /\ fwd' = [fwd EXCEPT ![s] = "select"]
  /\ UNCHANGED <<brokerVars, connVars, written, owner, cancelled, lastLag>>

(* The select sees a context or the subscription end.                         *)
ForwardExit(s) ==
  /\ fwd[s] = "select"
  /\ cancelled[s] \/ ctxDone[owner[s]] \/ phase[s] = "done"
  /\ fwd' = [fwd EXCEPT ![s] = "exit"]
  /\ UNCHANGED <<brokerVars, connVars, outVars, owner, held, cancelled, lastLag>>

Forward(s) ==
  /\ ForwardTake(s) \/ ForwardLag(s) \/ ForwardEvent(s) \/ ForwardExit(s)
  /\ UNCHANGED asked

--------------------------------------------------------------------------------
(* The client sends a frame, in any order it likes.                           *)
ClientOp(c) ==
  \/ \E t \in Topics :
       \/ RefuseSubscribe(c, t)
       \/ RecvUnsubscribe(c, t)
       \/ \E from \in Froms, s \in Subs : BeginSubscribe(c, t, from, s)
       \/ \E ok \in Outcomes(t) : BeginPublish(c, t, ok)
  \/ \E op \in Ops : Answer(c, op)

(* What the reader goroutine does without the client.                         *)
ReaderStep(c) ==
  /\ \/ SubscribeError(c) \/ SendBackfill(c) \/ FinishSubscribe(c)
     \/ \E s \in Subs : CancelSub(c, s)
     \/ FinishUnsubscribe(c) \/ ReadError(c) \/ HandlerReturn(c) \/ EndPublish(c)
  /\ UNCHANGED asked

WriterStep(c) == (Write(c) \/ WriterExit(c)) /\ UNCHANGED asked

(* The steps of broker and hub that a connection does not refine: Publish of  *)
(* any goroutine, except the return into handlePublish, and Subscribe.        *)
PublisherStep(p) ==
  /\ PublishStep(p)
  /\ p \in Conns => pc'[p] # "idle"
  /\ UNCHANGED wsVars

SubscriptionStep(s) == SubscribeStep(s) /\ UNCHANGED wsVars

WSNext ==
  \/ \E c \in Conns :
       \/ ClientOp(c) \/ ReaderStep(c) \/ WriterStep(c)
       \/ (Break(c) \/ WriteTimeout(c)) /\ UNCHANGED asked
  \/ \E s \in Subs : Forward(s) \/ SubscriptionStep(s)
  \/ \E p \in Publishers : (Lock(p) /\ UNCHANGED wsVars) \/ PublisherStep(p)
  \/ \E p \in Publishers \ Conns, t \in Topics :
       \E ok \in Outcomes(t) : PublishCall(p, t, ok, 0) /\ UNCHANGED wsVars

(* Every goroutine that can run is run; a read of a dead connection fails     *)
(* after pongWait, a write after writeWait.  Clients and callers of Publish   *)
(* owe nothing, and connections need not break.                               *)
WSFairness ==
  /\ \A c \in Conns : WF_vars(ReaderStep(c)) /\ WF_vars(WriterStep(c))
  /\ \A s \in Subs : WF_vars(Forward(s)) /\ WF_vars(SubscriptionStep(s))
  /\ \A p \in Publishers : WF_vars(PublisherStep(p))
                           /\ SF_vars(Lock(p) /\ UNCHANGED wsVars)

WSSpec == WSInit /\ [][WSNext]_vars /\ WSFairness

--------------------------------------------------------------------------------
(* Properties                                                                 *)

(* What a list of frames tells the client of s: the events it gets, in that   *)
(* order, and the number of missed events it is told of.                      *)
EventsIn(frames, s) ==
  LET mine(m) == m.type = "event" /\ m.by = s
      got[i \in 0 .. Len(frames)] ==
        IF i = 0 THEN <<>>
        ELSE IF mine(frames[i]) THEN Append(got[i - 1], frames[i].n) ELSE got[i - 1]
  IN  got[Len(frames)]

MissedIn(frames, s) ==
  LET missed(m) == IF m.type = "lagging" /\ m.by = s THEN m.n ELSE 0
      sum[i \in 0 .. Len(frames)] == IF i = 0 THEN 0 ELSE sum[i - 1] + missed(frames[i])
  IN  sum[Len(frames)]

(* The stream as a subscription promises it to its client: see EventStream.   *)
Opened(s) == stage[s] = "live" \/ cancelled[s]

(* It is owed what comes after this seq: the backfill and what follows it, or *)
(* what follows the stream as it was when no backfill was read from it.       *)
BaseOf(s) == IF backfill[s] = <<>> THEN seenTo[s] ELSE backfill[s][1].seq - 1

GivenTo(s) == IF owner[s] = None THEN <<>> ELSE EventsIn(sent[owner[s]], s)

ToldTo(s) == IF owner[s] = None THEN 0 ELSE MissedIn(sent[owner[s]], s)

Promise == INSTANCE EventStream WITH
  stream <- [t \in Topics |-> Len(events[t])],
  view <- [s \in Subs |-> IF Opened(s) THEN subTopic[s] ELSE None],
  base <- [s \in Subs |-> IF Opened(s) THEN BaseOf(s) ELSE 0],
  given <- [s \in Subs |-> GivenTo(s)],
  told <- [s \in Subs |-> ToldTo(s)],
  void <- lost \ {None}

(* Every subscription gets a strictly increasing part of its stream without   *)
(* duplicates, and is told of at least as many missed events as it misses     *)
(* before it gets the next one, unless the out queue overflowed on it         *)
(* (ws.go:182-235, docs/architecture.md "drop-and-mark").                     *)
ImplementsEventStream == Promise!Spec

(* The ack is the fence on the wire: the events before it are exactly those   *)
(* at or below its last_seq (docs/wire-protocol.md:125-127).                  *)
AckIsFence ==
  \A c \in Conns : \A i, j \in 1 .. Len(sent[c]) :
    LET ack == sent[c][i]  e == sent[c][j] IN
    ack.type = "ack" /\ e.type = "event" /\ ack.by = e.by => (j < i <=> e.n <= ack.n)

(* A client that leaves a topic and subscribes to it again may still get a    *)
(* frame the old forwarder held, after the new ack and indistinguishable from *)
(* the frames of the new stream.  Unless the new backfill was empty its seq   *)
(* is at or below the last_seq of that ack, so that the client can tell that  *)
(* it has the event already (ws.go:213-248).                                  *)
StaleAreDuplicates ==
  \A c \in Conns : \A i, j, k \in 1 .. Len(sent[c]) :
    LET old == sent[c][i]  ack == sent[c][j]  late == sent[c][k] IN
    /\ i < j /\ j < k
    /\ ack.type = "ack" /\ late.type = "event" /\ old.by = late.by
    /\ ack.by \notin {None, late.by}
    /\ subTopic[ack.by] = subTopic[late.by]
    /\ backfill[ack.by] # <<>>
    => late.n <= ack.n

(* What the client has been told of its subscriptions is what exists: an idle *)
(* reader's map holds exactly the open subscriptions of the connection.       *)
MapIsExact ==
  \A c \in Conns : reader[c] \in {"read", "publish"} =>
    \A s \in Subs : (owner[s] = c /\ stage[s] = "live") <=> \E t \in Topics : subsMap[c][t] = s

(* After a connection breaks or its writer gives up, each of its              *)
(* subscriptions leaves the hub and its forwarder and writer end, also those  *)
(* the reader still accepted meanwhile: no goroutine or registration leaks    *)
(* (ws.go:92-104, 250-259).                                                   *)
BrokenConnsCleanUp ==
  \A c \in Conns : link[c] = "down" \/ writer[c] = "exit" ~>
    /\ writer[c] = "exit"
    /\ reader[c] = "end"
    /\ \A s \in Subs : owner[s] = c => phase[s] = "done" /\ fwd[s] \in {"none", "exit"}

(* On a connection that stays up, each event published while a subscription   *)
(* is live is written to the client, unless the subscription is closed or a   *)
(* full buffer dropped something (ws.go:117-137, 213-235, hub.go:99-123).     *)
Delivered(s, n) ==
  \E c \in Conns : owner[s] = c /\
    \E i \in 1 .. written[c] : sent[c][i] = Msg("event", s, n)

EventuallyDelivered ==
  \A s \in Subs, n \in 1 .. MaxEvents :
    (stage[s] = "live" /\ seenTo[s] < n /\ n = Len(events[subTopic[s]]))
    ~> \/ Delivered(s, n)
       \/ lag[s] > 0
       \/ s \in lost
       \/ stage[s] = "closed"
       \/ \E c \in Conns : owner[s] = c /\ (link[c] = "down" \/ writer[c] = "exit")

================================================================================
