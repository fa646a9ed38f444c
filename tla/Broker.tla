--------------------------------- MODULE Broker --------------------------------
(******************************************************************************)
(* internal/broker/broker.go over the memory store and the hub.               *)
(*                                                                            *)
(* Publish runs append, reduce, save, upsert and fan-out under the ingest     *)
(* mutex, each store call and each visit of the fan-out being a step of its   *)
(* own, so that subscribers, unsubscribers and readers interleave with it.    *)
(* Subscribe registers with the hub in one step and reads the backfill in     *)
(* another.  StoreErrors names the store calls that may return an error: the  *)
(* memory store never does, the interface allows it and Publish handles it.   *)
(*                                                                            *)
(* Not here: topic and type validation (only valid topics occur) and metrics. *)
(******************************************************************************)
EXTENDS Hub, MemoryStore

CONSTANTS
  Reduced,      \* topics whose object type has a registered reducer
  Froms,        \* core.From values subscribers ask for
  StoreErrors,  \* subset of {"append", "getstate", "setstate", "upsertmeta", "read"}
  MaxEvents     \* bound on the calls of Publish

ASSUME ReducedAssumption == Reduced \subseteq Topics
ASSUME MaxEventsAssumption == MaxEvents \in Nat
ASSUME FromsAssumption ==
  Froms \subseteq From

VARIABLES
  ingest,    \* holder of Broker.ingest, None when free
  pc,        \* where a publisher is in Publish
  cur,       \* the *core.Event of its call
  next,      \* the state its reducer call returned
  issued,    \* calls of Publish so far; numbers the events
  want,      \* the From of a subscription
  stage,     \* where its caller is in Subscribe
  backfill,  \* what Subscribe returned to the caller
  fence,     \* fenceSeq
  seenTo,    \* history: length of the stream when the backfill was read
  taken      \* history: seq of the last event received from the channel

publishVars == <<ingest, pc, cur, next, issued>>
subscribeVars == <<want, stage, backfill, fence>>
historyVars == <<seenTo, taken>>
brokerVars == <<hubVars, storeVars, publishVars, subscribeVars, historyVars>>

PcValues == {"idle", "lock", "append", "apply", "save", "meta", "fanout", "sending"}

(* The frame handed to the hub: the event with State attached to the copy.    *)
Fanout(p) == [event |-> cur[p], state |-> next[p]]

BrokerInit ==
  /\ HubInit
  /\ StoreInit
  /\ ingest = None
  /\ pc = [p \in Publishers |-> "idle"]
  /\ cur = [p \in Publishers |-> None]
  /\ next = [p \in Publishers |-> <<>>]
  /\ issued = 0
  /\ want = [s \in Subs |-> None]
  /\ stage = [s \in Subs |-> "none"]
  /\ backfill = [s \in Subs |-> <<>>]
  /\ fence = [s \in Subs |-> 0]
  /\ seenTo = [s \in Subs |-> 0]
  /\ taken = [s \in Subs |-> 0]

--------------------------------------------------------------------------------
(* Publish                                                                    *)

(* Without a reducer there is nothing that could reject an event.             *)
Outcomes(t) == IF t \in Reduced THEN BOOLEAN ELSE {TRUE}

(* A handler builds the event, stamps it and calls Publish.                   *)
PublishCall(p, t, ok, at) ==
  /\ pc[p] = "idle"
  /\ issued < MaxEvents
  /\ issued' = issued + 1
  /\ cur' = [cur EXCEPT ![p] =
               [id |-> issued + 1, topic |-> t, seq |-> 0, ok |-> ok, at |-> at]]
  /\ pc' = [pc EXCEPT ![p] = "lock"]
  /\ UNCHANGED <<hubVars, storeVars, ingest, next, subscribeVars, historyVars>>

(* Mutant: no mutual exclusion.                                               *)
Lock_Shared(p) ==
  /\ pc[p] = "lock"
  /\ ingest' = p
  /\ pc' = [pc EXCEPT ![p] = "append"]
  /\ UNCHANGED <<hubVars, storeVars, cur, next, issued, subscribeVars, historyVars>>

(* b.ingest.Lock()                                                            *)
Lock(p) ==
  /\ pc[p] = "lock"
  /\ ingest = None
  /\ ingest' = p
  /\ pc' = [pc EXCEPT ![p] = "append"]
  /\ UNCHANGED <<hubVars, storeVars, cur, next, issued, subscribeVars, historyVars>>

(* Store.Append also writes the seq into the caller's event.                  *)
AppendEvent(p) ==
  /\ pc[p] = "append"
  /\ StoreAppend(cur[p].topic, cur[p])
  /\ cur' = [cur EXCEPT ![p].seq = NextSeq(cur[p].topic)]
  /\ pc' = [pc EXCEPT ![p] = "apply"]
  /\ UNCHANGED <<hubVars, ingest, next, issued, subscribeVars, historyVars>>

(* The deferred Unlock, on every way out of Publish.                          *)
Return(p) ==
  /\ ingest' = None
  /\ pc' = [pc EXCEPT ![p] = "idle"]
  /\ cur' = [cur EXCEPT ![p] = None]
  /\ next' = [next EXCEPT ![p] = <<>>]

(* Mutant: the early return does not unlock.                                  *)
AppendFails_KeepsLock(p) ==
  /\ pc[p] = "append"
  /\ "append" \in StoreErrors
  /\ pc' = [pc EXCEPT ![p] = "idle"]
  /\ cur' = [cur EXCEPT ![p] = None]
  /\ UNCHANGED <<hubVars, storeVars, ingest, next, issued, subscribeVars, historyVars>>

AppendFails(p) ==
  /\ pc[p] = "append"
  /\ "append" \in StoreErrors
  /\ Return(p)
  /\ UNCHANGED <<hubVars, storeVars, issued, subscribeVars, historyVars>>

(* Registry.Apply.  The state after an event: without a reducer, or when the  *)
(* reducer rejects the event, it is the state before.                         *)
Accepts(e) == e.topic \in Reduced /\ e.ok

Apply(prev, e) == IF Accepts(e) THEN Append(prev, e) ELSE prev

(* Mutant: a rejected event changes the state that is fanned out.             *)
Returned_Rejected(prev, e) == {IF e.topic \in Reduced THEN Append(prev, e) ELSE prev}

(* What Apply returns: a reducer that cannot parse prev hands it back, one    *)
(* that cannot marshal its result returns nil.                                *)
Returned(prev, e) ==
  IF e.topic \in Reduced /\ ~ e.ok THEN {prev, <<>>} ELSE {Apply(prev, e)}

(* GetState, whose error leaves prev nil, and Reducers.Apply.                 *)
ApplyReducer(p) ==
  /\ pc[p] = "apply"
  /\ \E prev \in {GetState(cur[p].topic)} \cup (IF "getstate" \in StoreErrors THEN {<<>>} ELSE {}) :
       \E st \in Returned(prev, cur[p]) : next' = [next EXCEPT ![p] = st]
  /\ pc' = [pc EXCEPT ![p] = "save"]
  /\ UNCHANGED <<hubVars, storeVars, ingest, cur, issued, subscribeVars, historyVars>>

(* The state is saved when the reducer reported no error and returned one; an *)
(* error of SetState is discarded.                                            *)
Saves(p) == (cur[p].topic \in Reduced => cur[p].ok) /\ next[p] # <<>>

SaveState(p) ==
  /\ pc[p] = "save"
  /\ \/ Saves(p) /\ StoreSetState(cur[p].topic, next[p])
     \/ Saves(p) /\ "setstate" \in StoreErrors /\ UNCHANGED storeVars
     \/ ~ Saves(p) /\ UNCHANGED storeVars
  /\ pc' = [pc EXCEPT ![p] = "meta"]
  /\ UNCHANGED <<hubVars, ingest, cur, next, issued, subscribeVars, historyVars>>

(* Mutant: the lock is released before the fan-out.                           *)
UpsertMeta_Unlocks(p) ==
  /\ pc[p] = "meta"
  /\ StoreUpsertMeta(cur[p].topic)
  /\ pc' = [pc EXCEPT ![p] = "fanout"]
  /\ ingest' = None
  /\ UNCHANGED <<hubVars, cur, next, issued, subscribeVars, historyVars>>

UpsertMeta(p) ==
  /\ pc[p] = "meta"
  /\ \/ StoreUpsertMeta(cur[p].topic)
     \/ "upsertmeta" \in StoreErrors /\ UNCHANGED storeVars
  /\ pc' = [pc EXCEPT ![p] = "fanout"]
  /\ UNCHANGED <<hubVars, ingest, cur, next, issued, subscribeVars, historyVars>>

(* Hub.Publish(&fanout): the snapshot, the visits, the return.                *)
StartFanout(p) ==
  /\ pc[p] = "fanout"
  /\ Snapshot(p, cur[p].topic, Fanout(p))
  /\ pc' = [pc EXCEPT ![p] = "sending"]
  /\ UNCHANGED <<storeVars, ingest, cur, next, issued, subscribeVars, historyVars>>

VisitSub(p) ==
  /\ pc[p] = "sending"
  /\ Visit(p)
  /\ UNCHANGED <<storeVars, publishVars, subscribeVars, historyVars>>

FinishPublish(p) ==
  /\ pc[p] = "sending"
  /\ PublishReturn(p)
  /\ Return(p)
  /\ UNCHANGED <<storeVars, issued, subscribeVars, historyVars>>

PublishStep(p) ==
  \/ AppendEvent(p) \/ AppendFails(p)
  \/ ApplyReducer(p) \/ SaveState(p) \/ UpsertMeta(p)
  \/ StartFanout(p) \/ VisitSub(p) \/ FinishPublish(p)

--------------------------------------------------------------------------------
(* Subscribe, Unsubscribe and the consumer                                    *)

(* Hub.Subscribe comes first ...                                              *)
SubscribeHub(s, t, from) ==
  /\ stage[s] = "none"
  /\ HubSubscribe(s, t)
  /\ want' = [want EXCEPT ![s] = from]
  /\ stage' = [stage EXCEPT ![s] = "read"]
  /\ UNCHANGED <<storeVars, publishVars, backfill, fence, historyVars>>

Backfill(t, from) ==
  CASE from.kind = "latest" -> <<>>
    [] from.kind = "lastn"  -> Latest(t, from.value)
    [] from.kind = "seq"    -> Read(t, from.value)

(* Mutant: the number of backfilled events is taken for the last seq.         *)
FenceOf_Length(b) == Len(b)

FenceOf(b) == IF b = <<>> THEN 0 ELSE b[Len(b)].seq

(* ... then the backfill is read; its last seq is the fence.                  *)
ReadBackfill(s) ==
  /\ stage[s] = "read"
  /\ LET b == Backfill(subTopic[s], want[s])
     IN  /\ backfill' = [backfill EXCEPT ![s] = b]
         /\ fence' = [fence EXCEPT ![s] = FenceOf(b)]
  /\ seenTo' = [seenTo EXCEPT ![s] = Len(events[subTopic[s]])]
  /\ stage' = [stage EXCEPT ![s] = "live"]
  /\ UNCHANGED <<hubVars, storeVars, publishVars, want, taken>>

(* When the read fails the subscription is closed before the error returns.   *)
ReadFails(s) ==
  /\ stage[s] = "read"
  /\ "read" \in StoreErrors
  /\ want[s].kind # "latest"
  /\ CloseSwap(s)
  /\ stage' = [stage EXCEPT ![s] = "closed"]
  /\ UNCHANGED <<storeVars, publishVars, want, backfill, fence, historyVars>>

(* Unsubscribe; the rest of Subscription.Close follows in FinishClose.        *)
Unsubscribe(s) ==
  /\ stage[s] = "live"
  /\ CloseSwap(s)
  /\ stage' = [stage EXCEPT ![s] = "closed"]
  /\ UNCHANGED <<storeVars, publishVars, want, backfill, fence, historyVars>>

FinishClose(s) ==
  /\ CloseRemove(s) \/ CloseDone(s)
  /\ UNCHANGED <<storeVars, publishVars, subscribeVars, historyVars>>

(* The owner of the subscription receives from its channel.                   *)
Take(s) ==
  /\ Receive(s)
  /\ taken' = [taken EXCEPT ![s] = Head(chan[s]).event.seq]
  /\ UNCHANGED <<storeVars, publishVars, subscribeVars, seenTo>>

Consume(s) == stage[s] \in {"live", "closed"} /\ Take(s)

SubscribeStep(s) == ReadBackfill(s) \/ ReadFails(s) \/ FinishClose(s)

--------------------------------------------------------------------------------
BrokerNext ==
  \/ \E p \in Publishers :
       \/ \E t \in Topics : \E ok \in Outcomes(t) : PublishCall(p, t, ok, 0)
       \/ Lock(p)
       \/ PublishStep(p)
  \/ \E s \in Subs :
       \/ \E t \in Topics, from \in Froms : SubscribeHub(s, t, from)
       \/ SubscribeStep(s)
       \/ Unsubscribe(s)
       \/ Consume(s)

(* Go's scheduler runs every runnable goroutine, and sync.Mutex hands the     *)
(* lock to a waiter that has waited long enough.  Consumers owe nothing.      *)
BrokerFairness ==
  \A p \in Publishers : WF_brokerVars(PublishStep(p)) /\ SF_brokerVars(Lock(p))

BrokerSpec == BrokerInit /\ [][BrokerNext]_brokerVars /\ BrokerFairness

--------------------------------------------------------------------------------
(* Properties                                                                 *)

Frame == [event : Event, state : Seq(Event)]

(* Type invariant.                                                            *)
BrokerTypeOK ==
  /\ HubTypeOK(Frame)
  /\ known \subseteq Topics
  /\ events \in [Topics -> Seq(Event)]
  /\ state \in [Topics -> Seq(Event)]
  /\ ttl \in [Topics -> Nat]
  /\ ingest \in Publishers \cup {None}
  /\ pc \in [Publishers -> PcValues]
  /\ cur \in [Publishers -> Event \cup {None}]
  /\ next \in [Publishers -> Seq(Event)]
  /\ issued \in 0 .. MaxEvents
  /\ want \in [Subs -> From \cup {None}]
  /\ stage \in [Subs -> {"none", "read", "live", "closed"}]
  /\ backfill \in [Subs -> Seq(Event)]
  /\ fence \in [Subs -> Nat]
  /\ seenTo \in [Subs -> Nat]
  /\ taken \in [Subs -> Nat]

(* st is the state of a reducer that saw the stream log: exactly the events   *)
(* of log it accepts, each once, in stream order.                             *)
FoldOf(st, log) ==
  /\ \A i, j \in 1 .. Len(st) : i < j => st[i].seq < st[j].seq
  /\ {st[i] : i \in 1 .. Len(st)} = {log[i] : i \in {k \in 1 .. Len(log) : Accepts(log[k])}}

(* The part of the stream the saved state must account for: all of it, except *)
(* for an event whose Publish has appended but not yet saved.                 *)
Unsaved(t) == \E p \in Publishers : pc[p] \in {"apply", "save"} /\ cur[p].topic = t

Saved(t) == SubSeq(events[t], 1, Len(events[t]) - (IF Unsaved(t) THEN 1 ELSE 0))

(* "The current shape is a pure function of that stream": with any number of  *)
(* concurrent publishers the saved state is the fold of the whole stream;     *)
(* an update is neither lost nor applied twice or out of order                *)
(* (broker.go:55-68, docs/architecture.md:13-17).                             *)
StateIsFold == \A t \in Topics : FoldOf(state[t], Saved(t))

(* st is the state right after e, the last event of log; only with an event   *)
(* that its reducer rejected may there be none.                               *)
Carries(st, e, log) == FoldOf(st, log) \/ (st = <<>> /\ e.topic \in Reduced /\ ~ e.ok)

(* A live frame carries the state right after its own event, never that of    *)
(* an earlier or a later event; only the frame of an event that the reducer   *)
(* rejected may come without one (broker.go:63-79).                           *)
CarriesOwnState(s) ==
  \A i \in 1 .. Len(chan[s]) :
    LET f == chan[s][i]
    IN  Carries(f.state, f.event, SubSeq(events[f.event.topic], 1, f.event.seq))

FramesCarryOwnState == \A s \in Subs : CarriesOwnState(s)

(* Concurrent publishers never reorder a topic: what waits in a channel is in *)
(* stream order and later than everything received before (broker.go:1-4).    *)
InOrder(s) ==
  /\ \A i, j \in 1 .. Len(chan[s]) : i < j => chan[s][i].event.seq < chan[s][j].event.seq
  /\ \A i \in 1 .. Len(chan[s]) : taken[s] < chan[s][i].event.seq

LiveInOrder == \A s \in Subs : InOrder(s)

(* An appended event that its publisher has not yet offered to s.             *)
InCritical(p) == pc[p] \notin {"idle", "lock"}
Appended(p) == InCritical(p) /\ pc[p] # "append"
Owed(p, s) == s \in list[p] \/ target[p] = s

Pending(p, s) ==
  /\ Appended(p)
  /\ cur[p].topic = subTopic[s]
  /\ pc[p] = "sending" => Owed(p, s)

(* The n-th event was there when the backfill was read, or it was received,   *)
(* waits in the channel or is on its way there.                               *)
Accounted(s, n) ==
  \/ n <= seenTo[s]
  \/ n <= taken[s]
  \/ \E i \in 1 .. Len(chan[s]) : chan[s][i].event.seq = n
  \/ n = Len(events[subTopic[s]]) /\ \E p \in Publishers : Pending(p, s)

(* Subscribing before reading leaves no hole between backfill and live events *)
(* and none later: as long as the hub dropped nothing for an open             *)
(* subscription, every event of its stream is accounted for                   *)
(* (broker.go:98-99).                                                         *)
MissesNothing(s) ==
  stage[s] = "live" /\ lag[s] = 0 =>
    \A n \in 1 .. Len(events[subTopic[s]]) : Accounted(s, n)

NothingMissed == \A s \in Subs : MissesNothing(s)

(* The fence tells apart what the backfill contained from what it did not:    *)
(* an event received from the channel is in the backfill exactly when its seq *)
(* is at or below the fence, provided the read started at or before it        *)
(* (broker.go:86-89, 113-115).                                                *)
InBackfill(s, e) == \E j \in 1 .. Len(backfill[s]) : backfill[s][j] = e

FenceSeparates ==
  \A s \in Subs : stage[s] = "live" =>
    \A i \in 1 .. Len(chan[s]) :
      LET e == chan[s][i].event
      IN  /\ InBackfill(s, e) => e.seq <= fence[s]
          /\ e.seq <= fence[s] /\ ~ InBackfill(s, e) => backfill[s][1].seq > e.seq

(* The facts the proofs of BrokerProofs rest on, an inductive invariant of    *)
(* the broker together with its type.  Only the holder of ingest is between   *)
(* Lock and the deferred Unlock ...                                           *)
LockHeld ==
  /\ \A p \in Publishers : InCritical(p) <=> ingest = p
  /\ \A p \in Publishers : pc[p] # "idle" => cur[p] \in Event
  /\ \A p \in Publishers : job[p] = (IF pc[p] = "sending" THEN Fanout(p) ELSE None)
  /\ \A p \in Publishers : target[p] # None => pc[p] = "sending"
  /\ \A s \in Subs : stage[s] # "none" => want[s] \in From /\ subTopic[s] \in Topics

(* ... the seq of an event is its position in its topic's stream ...          *)
SeqIsPosition ==
  \A t \in Topics : \A i \in 1 .. Len(events[t]) :
    events[t][i].seq = i /\ events[t][i].topic = t

(* ... and, topic by topic, what the holder works on is the last event of its *)
(* stream, ...                                                                *)
WorksOnLast(t) ==
  \A p \in Publishers : Appended(p) /\ cur[p].topic = t =>
    events[t] # <<>> /\ cur[p] = events[t][Len(events[t])]

(* ... what the reducer returned is what must be saved, ...                   *)
NextIsFold(t) ==
  \A p \in Publishers : pc[p] = "save" /\ cur[p].topic = t =>
    next[p] \in Returned(state[t], cur[p])

(* ... and what is fanned out is the fold of the stream up to the event.      *)
FanoutIsFold(t) ==
  \A p \in Publishers : Appended(p) /\ pc[p] \notin {"apply", "save"} /\ cur[p].topic = t =>
    Carries(next[p], cur[p], events[t])

TopicInv(t) ==
  WorksOnLast(t) /\ NextIsFold(t) /\ FanoutIsFold(t) /\ FoldOf(state[t], Saved(t))

TypeInv == BrokerTypeOK /\ LockHeld /\ SeqIsPosition
StateInv == \A t \in Topics : TopicInv(t)

(* TypeInv is inductive whichever store calls fail; with StateInv it is       *)
(* inductive when GetState and SetState do not (broker.go:55-68).             *)
StateIInv == TypeInv /\ StateInv

(* Every call of Publish returns, however many publishers compete for the     *)
(* ingest lock and whichever of their appends fail: each path of Publish      *)
(* releases the lock (broker.go:55-84).  That the fan-out does not wait for a *)
(* consumer is PublishNeverBlocks of Hub.                                     *)
PublishReturns == \A p \in Publishers : pc[p] # "idle" ~> pc[p] = "idle"

================================================================================
