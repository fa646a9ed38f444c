------------------------------ MODULE BrokerProofs -----------------------------
(******************************************************************************)
(* Proofs about Broker, for any number of topics, publishers, subscriptions   *)
(* and events, any buffer size and any set of subscription origins.           *)
(******************************************************************************)
EXTENDS Broker, SequenceTheorems, TLAPS

(* What one step may do to the broker.  A specification that extends Broker   *)
(* takes such steps or leaves the variables of the broker alone, and so keeps *)
(* every invariant that these steps keep.                                     *)
PublisherAct(p) ==
  \/ \E t \in Topics, at \in Nat : \E ok \in Outcomes(t) : PublishCall(p, t, ok, at)
  \/ Lock(p)
  \/ PublishStep(p)

SubscriberAct(s) ==
  \/ \E t \in Topics, from \in From : SubscribeHub(s, t, from)
  \/ SubscribeStep(s)
  \/ Unsubscribe(s)
  \/ Consume(s)

BrokerAct ==
  \/ \E p \in Publishers : PublisherAct(p)
  \/ \E s \in Subs : SubscriberAct(s)
  \/ UNCHANGED brokerVars

LEMMA NextIsAct == [BrokerNext]_brokerVars => BrokerAct
BY FromsAssumption DEF BrokerNext, BrokerAct, PublisherAct, SubscriberAct

(* The hub's steps keep the types of its variables.                           *)
LEMMA VisitType ==
  ASSUME NEW M, HubTypeOK(M), NEW p \in Publishers, Visit(p),
         target[p] # None => job[p] \in M
  PROVE  HubTypeOK(M)'
<1>. USE BufAssumption, NoneAssumption DEF HubTypeOK
<1>1. ASSUME NEW s \in Subs, SkipClosed(p, s) PROVE HubTypeOK(M)'
  BY <1>1 DEF SkipClosed
<1>2. ASSUME NEW s \in Subs, LoadOpen(p, s) PROVE HubTypeOK(M)'
  BY <1>2 DEF LoadOpen
<1>3. CASE Send(p)
  <2>. DEFINE u == target[p]
  <2>1. u \in Subs /\ job[p] \in M /\ chan[u] \in Seq(M) /\ Len(chan[u]) < Buf
    BY <1>3 DEF Send
  <2>2. /\ Append(chan[u], job[p]) \in Seq(M)
        /\ Len(Append(chan[u], job[p])) <= Buf
    BY <2>1, AppendProperties
  <2>3. chan' \in [Subs -> Seq(M)] /\ \A s \in Subs : Len(chan'[s]) <= Buf
    BY <1>3, <2>1, <2>2 DEF Send
  <2>. QED BY <1>3, <2>3 DEF Send
<1>4. CASE SeeDone(p)
  BY <1>4 DEF SeeDone
<1>5. CASE Drop(p)
  BY <1>5 DEF Drop
<1>. QED BY <1>1, <1>2, <1>3, <1>4, <1>5 DEF Visit

LEMMA CloseType ==
  ASSUME NEW M, HubTypeOK(M), NEW s \in Subs, Close(s)
  PROVE  HubTypeOK(M)'
<1>. USE DEF HubTypeOK, Phases
<1>1. CASE CloseSwap(s)
  BY <1>1 DEF CloseSwap
<1>2. CASE CloseRemove(s)
  <2>. DEFINE t == subTopic[s]
  <2>1. \A u \in Topics : registry'[u] \subseteq Subs
    BY <1>2 DEF CloseRemove
  <2>2. registry' \in [Topics -> SUBSET Subs]
    BY <1>2, <2>1 DEF CloseRemove
  <2>. QED BY <1>2, <2>2 DEF CloseRemove
<1>3. CASE CloseDone(s)
  BY <1>3 DEF CloseDone
<1>. QED BY <1>1, <1>2, <1>3 DEF Close

(* Since an event's seq is its position, the binary search of Read ends at    *)
(* the position it looks for, or one past the end.                            *)
LEMMA SearchType ==
  ASSUME NEW t \in Topics, events \in [Topics -> Seq(Event)], SeqIsPosition, NEW n \in Nat
  PROVE  SearchSeq(t, n) \in 1 .. Len(events[t]) + 1
<1>. DEFINE log == events[t]
            Found(i) == /\ \A j \in 1 .. i - 1 : log[j].seq < n
                        /\ i <= Len(log) => log[i].seq >= n
            w == IF n = 0 THEN 1 ELSE IF n > Len(log) THEN Len(log) + 1 ELSE n
<1>1. Len(log) \in Nat
  BY LenProperties
<1>2. \A i \in 1 .. Len(log) : log[i].seq = i
  BY DEF SeqIsPosition
<1>3. w \in 1 .. Len(log) + 1 /\ Found(w)
  BY <1>1, <1>2
<1>4. \E i \in 1 .. Len(log) + 1 : Found(i)
  BY <1>3
<1>. QED BY <1>4 DEF SearchSeq

(* Read and Latest return events of the stream.                               *)
LEMMA BackfillType ==
  ASSUME NEW t \in Topics, events \in [Topics -> Seq(Event)], SeqIsPosition, NEW from \in From
  PROVE  Backfill(t, from) \in Seq(Event)
<1>. DEFINE log == events[t]
            n == from.value
<1>1. log \in Seq(Event) /\ Len(log) \in Nat /\ n \in Nat
  BY LenProperties DEF From
<1>2. Latest(t, n) \in Seq(Event)
  <2>1. \A i \in Len(log) - n + 1 .. Len(log) : n > 0 /\ Len(log) > n => log[i] \in Event
    BY <1>1, ElementOfSeq
  <2>2. n > 0 /\ Len(log) > n => SubSeq(log, Len(log) - n + 1, Len(log)) \in Seq(Event)
    BY <1>1, <2>1, SubSeqProperties
  <2>. QED BY <1>1, <2>2 DEF Latest
<1>3. Read(t, n) \in Seq(Event)
  <2>. DEFINE i == SearchSeq(t, n)
  <2>1. i \in 1 .. Len(log) + 1
    BY <1>1, SearchType
  <2>2. \A j \in i .. Len(log) : log[j] \in Event
    BY <1>1, <2>1, ElementOfSeq
  <2>. HIDE DEF i
  <2>3. SubSeq(log, i, Len(log)) \in Seq(Event)
    BY <1>1, <2>1, <2>2, SubSeqProperties
  <2>. QED BY <2>3 DEF Read, i
<1>4. <<>> \in Seq(Event)
  BY EmptySeq
<1>. QED BY <1>2, <1>3, <1>4 DEF Backfill, From

--------------------------------------------------------------------------------
(* Each step keeps TypeInv.  Publish ...                                      *)
LEMMA PublishCallType ==
  ASSUME TypeInv, NEW p \in Publishers, NEW t \in Topics, NEW ok \in Outcomes(t),
         NEW at \in Nat, PublishCall(p, t, ok, at)
  PROVE  TypeInv'
<1>. DEFINE e == [id |-> issued + 1, topic |-> t, seq |-> 0, ok |-> ok, at |-> at]
<1>. USE DEF TypeInv, PublishCall
<1>1. issued \in Nat /\ issued + 1 \in Nat \ {0} /\ issued + 1 \in 0 .. MaxEvents
  BY MaxEventsAssumption DEF BrokerTypeOK
<1>2. e \in Event
  BY <1>1 DEF Event, Outcomes
<1>. HIDE DEF e
<1>3. cur' = [cur EXCEPT ![p] = e] /\ issued' = issued + 1
  BY DEF e
<1>4. BrokerTypeOK'
  BY <1>1, <1>2, <1>3 DEF BrokerTypeOK, PcValues, hubVars, storeVars, subscribeVars, historyVars, HubTypeOK
<1>5. LockHeld'
  BY <1>2, <1>3 DEF BrokerTypeOK, LockHeld, InCritical, Fanout, PcValues, hubVars, subscribeVars
<1>6. SeqIsPosition'
  BY DEF SeqIsPosition, storeVars
<1>. QED BY <1>4, <1>5, <1>6

LEMMA LockType ==
  ASSUME TypeInv, NEW p \in Publishers, Lock(p)
  PROVE  TypeInv'
<1>. USE DEF TypeInv, Lock
<1>1. BrokerTypeOK'
  BY DEF BrokerTypeOK, PcValues, hubVars, storeVars, subscribeVars, historyVars, HubTypeOK
<1>2. LockHeld'
  BY NoneAssumption DEF BrokerTypeOK, LockHeld, InCritical, Fanout, PcValues, hubVars, subscribeVars
<1>3. SeqIsPosition'
  BY DEF SeqIsPosition, storeVars
<1>. QED BY <1>1, <1>2, <1>3

LEMMA WithSeq ==
  ASSUME NEW e \in Event, NEW n \in Nat
  PROVE  LET f == [e EXCEPT !.seq = n]
         IN  f \in Event /\ f.seq = n /\ f.topic = e.topic /\ f.ok = e.ok
BY DEF Event

LEMMA AppendEventType ==
  ASSUME TypeInv, NEW p \in Publishers, AppendEvent(p)
  PROVE  TypeInv'
<1>. DEFINE t == cur[p].topic
            log == events[t]
            e == [cur[p] EXCEPT !.seq = NextSeq(t)]
<1>. USE DEF TypeInv, AppendEvent
<1>1. cur[p] \in Event /\ t \in Topics /\ log \in Seq(Event) /\ Len(log) \in Nat
  BY LenProperties DEF BrokerTypeOK, LockHeld, Event
<1>2. e \in Event /\ e.topic = t /\ e.seq = Len(log) + 1
  <2>1. NextSeq(t) = Len(log) + 1 /\ NextSeq(t) \in Nat
    BY <1>1 DEF NextSeq
  <2>. QED BY <1>1, <2>1, WithSeq
<1>. HIDE DEF e
<1>3. /\ events' = [events EXCEPT ![t] = Append(log, e)]
      /\ cur' = [cur EXCEPT ![p] = e]
      /\ known' = known \cup {t}
  BY <1>1 DEF StoreAppend, e, BrokerTypeOK
<1>4. /\ Append(log, e) \in Seq(Event)
      /\ Len(Append(log, e)) = Len(log) + 1
      /\ \A i \in 1 .. Len(log) : Append(log, e)[i] = log[i]
      /\ Append(log, e)[Len(log) + 1] = e
  BY <1>1, <1>2, AppendProperties
<1>. HIDE DEF t, log
<1>5. BrokerTypeOK'
  <2>1. events' \in [Topics -> Seq(Event)] /\ known' \subseteq Topics
    BY <1>1, <1>3, <1>4 DEF BrokerTypeOK
  <2>2. state' = state /\ ttl' = ttl
    BY DEF StoreAppend
  <2>3. cur' \in [Publishers -> Event \cup {None}]
    BY <1>2, <1>3 DEF BrokerTypeOK
  <2>. QED
    BY <2>1, <2>2, <2>3
       DEF BrokerTypeOK, PcValues, hubVars, subscribeVars, historyVars, HubTypeOK
<1>6. LockHeld'
  BY <1>1, <1>2, <1>3
     DEF BrokerTypeOK, LockHeld, InCritical, Fanout, PcValues, hubVars, subscribeVars
<1>7. SeqIsPosition'
  <2>1. \A u \in Topics : events'[u] = IF u = t THEN Append(log, e) ELSE events[u]
    BY <1>1, <1>3 DEF BrokerTypeOK
  <2>2. ASSUME NEW i \in 1 .. Len(log) + 1
        PROVE  Append(log, e)[i].seq = i /\ Append(log, e)[i].topic = t
    <3>1. CASE i = Len(log) + 1
      BY <3>1, <1>2, <1>4
    <3>2. CASE i # Len(log) + 1
      BY <3>2, <1>1, <1>4 DEF SeqIsPosition, log
    <3>. QED BY <3>1, <3>2
  <2>. QED BY <2>1, <2>2, <1>4 DEF SeqIsPosition
<1>. QED BY <1>5, <1>6, <1>7

(* Leaving Publish, after a failed append or a finished fan-out.              *)
LEMMA ReturnType ==
  ASSUME TypeInv, NEW p \in Publishers, InCritical(p), Return(p),
         job' = [job EXCEPT ![p] = None], target[p] = None,
         UNCHANGED <<registry, subTopic, phase, chan, lag, list, target>>,
         UNCHANGED <<storeVars, issued, subscribeVars, historyVars>>
  PROVE  TypeInv'
<1>. USE DEF TypeInv, Return
<1>1. <<>> \in Seq(Event)
  BY EmptySeq
<1>2. BrokerTypeOK'
  BY <1>1 DEF BrokerTypeOK, PcValues, storeVars, subscribeVars, historyVars, HubTypeOK
<1>3. LockHeld'
  BY NoneAssumption
     DEF BrokerTypeOK, HubTypeOK, LockHeld, InCritical, Fanout, PcValues, subscribeVars
<1>4. SeqIsPosition'
  BY DEF SeqIsPosition, storeVars
<1>. QED BY <1>2, <1>3, <1>4

LEMMA AppendFailsType ==
  ASSUME TypeInv, NEW p \in Publishers, AppendFails(p)
  PROVE  TypeInv'
<1>1. InCritical(p) /\ target[p] = None /\ job[p] = None
  BY DEF TypeInv, LockHeld, AppendFails, InCritical
<1>2. job' = [job EXCEPT ![p] = None]
  BY <1>1 DEF TypeInv, BrokerTypeOK, HubTypeOK, AppendFails, hubVars
<1>. QED BY <1>1, <1>2, ReturnType DEF AppendFails, hubVars

LEMMA FinishPublishType ==
  ASSUME TypeInv, NEW p \in Publishers, FinishPublish(p)
  PROVE  TypeInv'
<1>1. InCritical(p) /\ target[p] = None
  BY DEF FinishPublish, PublishReturn, FanoutDone, InCritical
<1>. QED BY <1>1, ReturnType DEF FinishPublish, PublishReturn

(* The state a reducer returns consists of events.                            *)
LEMMA ReturnedType ==
  ASSUME NEW st \in Seq(Event), NEW e \in Event
  PROVE  Returned(st, e) \subseteq Seq(Event)
<1>1. Apply(st, e) \in Seq(Event)
  BY AppendProperties DEF Apply
<1>. QED BY <1>1, EmptySeq DEF Returned

LEMMA ApplyReducerType ==
  ASSUME TypeInv, NEW p \in Publishers, ApplyReducer(p)
  PROVE  TypeInv'
<1>. USE DEF TypeInv, ApplyReducer
<1>1. cur[p] \in Event /\ cur[p].topic \in Topics
  BY DEF LockHeld, Event
<1>2. PICK st \in Seq(Event) : next' = [next EXCEPT ![p] = st]
  <2>. DEFINE S == IF "getstate" \in StoreErrors THEN {<<>>} ELSE {}
              Q(prev) == \E st \in Returned(prev, cur[p]) : next' = [next EXCEPT ![p] = st]
  <2>1. PICK prev \in {state[cur[p].topic], <<>>} : Q(prev)
    <3>1. \E prev \in {state[cur[p].topic]} \cup S : Q(prev)
      BY DEF GetState
    <3>2. {state[cur[p].topic]} \cup S \subseteq {state[cur[p].topic], <<>>}
      OBVIOUS
    <3>. HIDE DEF S, Q
    <3>. QED BY <3>1, <3>2
  <2>2. prev \in Seq(Event)
    <3>1. state[cur[p].topic] \in Seq(Event) /\ <<>> \in Seq(Event)
      BY <1>1, EmptySeq DEF BrokerTypeOK
    <3>2. prev = state[cur[p].topic] \/ prev = <<>>
      BY <2>1
    <3>. QED BY <3>1, <3>2
  <2>. QED BY <2>1, <2>2, <1>1, ReturnedType
<1>3. st \in Seq(Event)
  BY <1>2
<1>4. BrokerTypeOK'
  BY <1>2, <1>3 DEF BrokerTypeOK, PcValues, hubVars, storeVars, subscribeVars, historyVars, HubTypeOK
<1>5. LockHeld'
  BY <1>2 DEF BrokerTypeOK, LockHeld, InCritical, Fanout, PcValues, hubVars, subscribeVars
<1>6. SeqIsPosition'
  BY DEF SeqIsPosition, storeVars
<1>. QED BY <1>4, <1>5, <1>6

LEMMA SaveStateType ==
  ASSUME TypeInv, NEW p \in Publishers, SaveState(p)
  PROVE  TypeInv'
<1>. USE DEF TypeInv, SaveState
<1>1. cur[p].topic \in Topics /\ next[p] \in Seq(Event)
  BY DEF LockHeld, Event, BrokerTypeOK
<1>2. /\ events' = events /\ ttl' = ttl
      /\ known' \subseteq Topics
      /\ state' \in [Topics -> Seq(Event)]
  BY <1>1 DEF StoreSetState, storeVars, BrokerTypeOK
<1>3. BrokerTypeOK'
  BY <1>2 DEF BrokerTypeOK, PcValues, hubVars, subscribeVars, historyVars, HubTypeOK
<1>4. LockHeld'
  BY DEF BrokerTypeOK, LockHeld, InCritical, Fanout, PcValues, hubVars, subscribeVars
<1>5. SeqIsPosition'
  BY <1>2 DEF SeqIsPosition
<1>. QED BY <1>3, <1>4, <1>5

LEMMA UpsertMetaType ==
  ASSUME TypeInv, NEW p \in Publishers, UpsertMeta(p)
  PROVE  TypeInv'
<1>. USE DEF TypeInv, UpsertMeta
<1>1. cur[p].topic \in Topics
  BY DEF LockHeld, Event
<1>2. /\ events' = events /\ state' = state
      /\ known' \subseteq Topics
      /\ ttl' \in [Topics -> Nat]
  BY <1>1, TTLAssumption DEF StoreUpsertMeta, storeVars, BrokerTypeOK
<1>3. BrokerTypeOK'
  BY <1>2 DEF BrokerTypeOK, PcValues, hubVars, subscribeVars, historyVars, HubTypeOK
<1>4. LockHeld'
  BY DEF BrokerTypeOK, LockHeld, InCritical, Fanout, PcValues, hubVars, subscribeVars
<1>5. SeqIsPosition'
  BY <1>2 DEF SeqIsPosition
<1>. QED BY <1>3, <1>4, <1>5

LEMMA StartFanoutType ==
  ASSUME TypeInv, NEW p \in Publishers, StartFanout(p)
  PROVE  TypeInv'
<1>. USE DEF TypeInv, StartFanout, Snapshot
<1>1. cur[p] \in Event /\ cur[p].topic \in Topics
  BY DEF LockHeld, Event
<1>2. Fanout(p) \in Frame
  BY <1>1 DEF Fanout, Frame, BrokerTypeOK
<1>3. BrokerTypeOK'
  BY <1>1, <1>2 DEF BrokerTypeOK, PcValues, storeVars, subscribeVars, historyVars, HubTypeOK
<1>4. LockHeld'
  BY DEF BrokerTypeOK, HubTypeOK, LockHeld, InCritical, Fanout, PcValues, subscribeVars
<1>5. SeqIsPosition'
  BY DEF SeqIsPosition, storeVars
<1>. QED BY <1>3, <1>4, <1>5

LEMMA VisitSubType ==
  ASSUME TypeInv, NEW p \in Publishers, VisitSub(p)
  PROVE  TypeInv'
<1>. USE DEF TypeInv, VisitSub
<1>1. job[p] \in Frame
  <2>1. cur[p] \in Event /\ next[p] \in Seq(Event) /\ job[p] = Fanout(p)
    BY DEF BrokerTypeOK, LockHeld
  <2>. QED BY <2>1 DEF Fanout, Frame
<1>2. HubTypeOK(Frame)'
  BY <1>1, VisitType DEF BrokerTypeOK
<1>3. BrokerTypeOK'
  BY <1>2 DEF BrokerTypeOK, storeVars, publishVars, subscribeVars, historyVars
<1>4. subTopic' = subTopic /\ job' = job /\ \A q \in Publishers : q # p => target'[q] = target[q]
  BY DEF Visit, SkipClosed, LoadOpen, Send, SeeDone, Drop, BrokerTypeOK, HubTypeOK
<1>5. LockHeld'
  BY <1>4 DEF LockHeld, InCritical, Fanout, publishVars, subscribeVars
<1>6. SeqIsPosition'
  BY DEF SeqIsPosition, storeVars
<1>. QED BY <1>3, <1>5, <1>6

(* ... Subscribe, Unsubscribe and the consumer ...                            *)
LEMMA SubscribeHubType ==
  ASSUME TypeInv, NEW s \in Subs, NEW t \in Topics, NEW from \in From,
         SubscribeHub(s, t, from)
  PROVE  TypeInv'
<1>. USE DEF TypeInv, SubscribeHub, HubSubscribe
<1>1. registry' \in [Topics -> SUBSET Subs]
  BY DEF BrokerTypeOK, HubTypeOK
<1>2. BrokerTypeOK'
  BY <1>1 DEF BrokerTypeOK, Phases, storeVars, publishVars, historyVars, HubTypeOK
<1>3. LockHeld'
  BY DEF BrokerTypeOK, HubTypeOK, LockHeld, InCritical, Fanout, publishVars
<1>4. SeqIsPosition'
  BY DEF SeqIsPosition, storeVars
<1>. QED BY <1>2, <1>3, <1>4

LEMMA ReadBackfillType ==
  ASSUME TypeInv, NEW s \in Subs, ReadBackfill(s)
  PROVE  TypeInv'
<1>. DEFINE b == Backfill(subTopic[s], want[s])
<1>. USE DEF TypeInv
<1>1. subTopic[s] \in Topics /\ want[s] \in From
  BY DEF LockHeld, ReadBackfill
<1>2. b \in Seq(Event)
  BY <1>1, BackfillType DEF BrokerTypeOK
<1>3. FenceOf(b) \in Nat
  <2>1. CASE b = <<>>
    BY <2>1 DEF FenceOf
  <2>2. CASE b # <<>>
    <3>1. Len(b) \in 1 .. Len(b)
      BY <1>2, <2>2, EmptySeq
    <3>2. b[Len(b)] \in Event
      BY <1>2, <3>1, ElementOfSeq
    <3>. QED BY <2>2, <3>2 DEF FenceOf, Event
  <2>. QED BY <2>1, <2>2
<1>4. Len(events[subTopic[s]]) \in Nat
  BY <1>1, LenProperties DEF BrokerTypeOK
<1>. HIDE DEF b
<1>5. /\ backfill' = [backfill EXCEPT ![s] = b]
      /\ fence' = [fence EXCEPT ![s] = FenceOf(b)]
      /\ seenTo' = [seenTo EXCEPT ![s] = Len(events[subTopic[s]])]
      /\ stage' = [stage EXCEPT ![s] = "live"]
      /\ stage[s] = "read"
      /\ UNCHANGED <<hubVars, storeVars, publishVars, want, taken>>
  BY DEF b, ReadBackfill
<1>6. BrokerTypeOK'
  BY <1>2, <1>3, <1>4, <1>5 DEF BrokerTypeOK, hubVars, storeVars, publishVars, HubTypeOK
<1>7. LockHeld'
  BY <1>1, <1>5 DEF BrokerTypeOK, LockHeld, InCritical, Fanout, hubVars, publishVars
<1>8. SeqIsPosition'
  BY <1>5 DEF SeqIsPosition, storeVars
<1>. QED BY <1>6, <1>7, <1>8

(* A step of Subscription.Close, with or without a move of its caller.        *)
LEMMA CloseStepType ==
  ASSUME TypeInv, NEW s \in Subs, Close(s),
         \/ stage' = stage
         \/ stage[s] # "none" /\ stage' = [stage EXCEPT ![s] = "closed"],
         UNCHANGED <<storeVars, publishVars, want, backfill, fence, historyVars>>
  PROVE  TypeInv'
<1>. USE DEF TypeInv
<1>1. HubTypeOK(Frame)'
  BY CloseType DEF BrokerTypeOK
<1>2. BrokerTypeOK'
  BY <1>1 DEF BrokerTypeOK, storeVars, publishVars, historyVars
<1>3. UNCHANGED <<subTopic, job, target>>
  BY DEF Close, CloseSwap, CloseRemove, CloseDone
<1>4. LockHeld'
  BY <1>3 DEF BrokerTypeOK, LockHeld, InCritical, Fanout, publishVars
<1>5. SeqIsPosition'
  BY DEF SeqIsPosition, storeVars
<1>. QED BY <1>2, <1>4, <1>5

LEMMA ClosingType ==
  ASSUME TypeInv, NEW s \in Subs, ReadFails(s) \/ Unsubscribe(s) \/ FinishClose(s)
  PROVE  TypeInv'
<1>1. CASE ReadFails(s)
  BY <1>1, CloseStepType DEF ReadFails, Close
<1>2. CASE Unsubscribe(s)
  BY <1>2, CloseStepType DEF Unsubscribe, Close
<1>3. CASE FinishClose(s)
  <2>1. Close(s)
    BY <1>3 DEF FinishClose, Close
  <2>2. /\ stage' = stage
        /\ UNCHANGED <<storeVars, publishVars, want, backfill, fence, historyVars>>
    BY <1>3 DEF FinishClose, subscribeVars
  <2>. QED BY <2>1, <2>2, CloseStepType
<1>. QED BY <1>1, <1>2, <1>3

LEMMA ConsumeType ==
  ASSUME TypeInv, NEW s \in Subs, Take(s)
  PROVE  TypeInv'
<1>. USE DEF TypeInv, Take, Receive
<1>1. chan[s] \in Seq(Frame) /\ chan[s] # <<>> /\ Len(chan[s]) <= Buf
  BY DEF BrokerTypeOK, HubTypeOK
<1>2. /\ Head(chan[s]) \in Frame
      /\ Tail(chan[s]) \in Seq(Frame)
      /\ Len(Tail(chan[s])) = Len(chan[s]) - 1
      /\ Len(chan[s]) \in Nat
  BY <1>1, HeadTailProperties, LenProperties
<1>3. Head(chan[s]).event.seq \in Nat
  BY <1>2 DEF Frame, Event
<1>4. HubTypeOK(Frame)'
  BY <1>1, <1>2, BufAssumption DEF BrokerTypeOK, HubTypeOK
<1>5. BrokerTypeOK'
  BY <1>3, <1>4 DEF BrokerTypeOK, storeVars, publishVars, subscribeVars
<1>6. LockHeld'
  BY DEF BrokerTypeOK, LockHeld, InCritical, Fanout, publishVars, subscribeVars
<1>7. SeqIsPosition'
  BY DEF SeqIsPosition, storeVars
<1>. QED BY <1>5, <1>6, <1>7

(* ... so TypeInv is inductive.                                               *)
LEMMA TypeInit == BrokerInit => TypeInv
<1>. SUFFICES ASSUME BrokerInit PROVE TypeInv
  OBVIOUS
<1>. USE DEF BrokerInit, HubInit, StoreInit
<1>1. /\ <<>> \in Seq(Event) /\ <<>> \in Seq(Frame) /\ Len(<<>>) = 0
  BY EmptySeq
<1>2. BrokerTypeOK
  BY <1>1, BufAssumption, MaxEventsAssumption DEF BrokerTypeOK, HubTypeOK, Phases, PcValues
<1>3. LockHeld
  BY NoneAssumption DEF LockHeld, InCritical
<1>4. SeqIsPosition
  BY <1>1 DEF SeqIsPosition
<1>. QED BY <1>2, <1>3, <1>4 DEF TypeInv

LEMMA PublishStepType ==
  ASSUME TypeInv, NEW p \in Publishers, PublishStep(p)
  PROVE  TypeInv'
BY AppendEventType, AppendFailsType, ApplyReducerType, SaveStateType, UpsertMetaType,
   StartFanoutType, VisitSubType, FinishPublishType DEF PublishStep

LEMMA TypeStutter ==
  ASSUME TypeInv, UNCHANGED brokerVars
  PROVE  TypeInv'
<1>. USE DEF TypeInv, brokerVars, hubVars, storeVars, publishVars, subscribeVars, historyVars
<1>1. BrokerTypeOK'
  BY DEF BrokerTypeOK, HubTypeOK
<1>2. LockHeld'
  BY DEF LockHeld, InCritical, Fanout
<1>3. SeqIsPosition'
  BY DEF SeqIsPosition
<1>. QED BY <1>1, <1>2, <1>3

LEMMA TypeStep ==
  ASSUME TypeInv, BrokerAct
  PROVE  TypeInv'
<1>1. ASSUME NEW p \in Publishers, PublisherAct(p) PROVE TypeInv'
  BY <1>1, PublishCallType, LockType, PublishStepType DEF PublisherAct
<1>2. ASSUME NEW s \in Subs, SubscriberAct(s) PROVE TypeInv'
  BY <1>2, SubscribeHubType, ReadBackfillType, ClosingType, ConsumeType
     DEF SubscriberAct, SubscribeStep, Consume
<1>. QED BY <1>1, <1>2, TypeStutter DEF BrokerAct

LEMMA TypeInvariant == BrokerSpec => []TypeInv
BY TypeInit, TypeStep, NextIsAct, PTL DEF BrokerSpec

(* Every variable of broker, hub and store keeps its type, whichever store    *)
(* calls fail (broker.go, hub.go, memory/store.go).                           *)
THEOREM TypeCorrect == BrokerSpec => []BrokerTypeOK
<1>1. TypeInv => BrokerTypeOK
  BY DEF TypeInv
<1>. QED BY <1>1, TypeInvariant, PTL

(* The ingest lock excludes: two publishers are never both between Lock and   *)
(* the deferred Unlock, whatever returns early (broker.go:55-61).             *)
THEOREM LockExcludes ==
  BrokerSpec => [](\A p, q \in Publishers : InCritical(p) /\ InCritical(q) => p = q)
<1>1. TypeInv => \A p, q \in Publishers : InCritical(p) /\ InCritical(q) => p = q
  BY DEF TypeInv, LockHeld
<1>. QED BY <1>1, TypeInvariant, PTL

--------------------------------------------------------------------------------
(* The derived state.                                                         *)

(* Applying a reducer to the fold of all but the last event of a stream gives *)
(* the fold of the stream.                                                    *)
LEMMA FoldExtend ==
  ASSUME NEW log \in Seq(Event), log # <<>>, \A i \in 1 .. Len(log) : log[i].seq = i,
         NEW st \in Seq(Event), FoldOf(st, SubSeq(log, 1, Len(log) - 1))
  PROVE  FoldOf(Apply(st, log[Len(log)]), log)
<1>. DEFINE n == Len(log)
            e == log[n]
            front == SubSeq(log, 1, n - 1)
            Kept(l) == {l[i] : i \in {k \in 1 .. Len(l) : Accepts(l[k])}}
            Elements(s) == {s[i] : i \in 1 .. Len(s)}
<1>1. n \in Nat \ {0} /\ e \in Event /\ e.seq = n
  <2>1. n \in Nat \ {0}
    BY EmptySeq
  <2>. QED BY <2>1, ElementOfSeq
<1>2. /\ Len(front) = n - 1
      /\ \A i \in 1 .. n - 1 : front[i] = log[i]
  <2>1. \A i \in 1 .. n - 1 : log[i] \in Event
    BY <1>1, ElementOfSeq
  <2>2. n - 1 \in Nat
    BY <1>1
  <2>3. /\ Len(front) = IF 1 <= n - 1 THEN (n - 1) - 1 + 1 ELSE 0
        /\ \A i \in 1 .. (n - 1) - 1 + 1 : front[i] = log[1 + i - 1]
    BY <2>1, <2>2, SubSeqProperties
  <2>. HIDE DEF n, front
  <2>. QED BY <2>2, <2>3
<1>3. /\ \A i, j \in 1 .. Len(st) : i < j => st[i].seq < st[j].seq
      /\ Elements(st) = Kept(front)
  BY DEF FoldOf
<1>. HIDE DEF front, e
<1>4. Kept(log) = IF Accepts(e) THEN Kept(front) \cup {e} ELSE Kept(front)
  <2>1. ASSUME NEW x PROVE x \in Kept(front) <=> \E k \in 1 .. n - 1 : Accepts(log[k]) /\ x = log[k]
    BY <1>1, <1>2
  <2>2. ASSUME NEW x PROVE x \in Kept(log) <=> \E k \in 1 .. n : Accepts(log[k]) /\ x = log[k]
    OBVIOUS
  <2>. HIDE DEF Kept, n
  <2>3. 1 .. n = (1 .. n - 1) \cup {n}
    BY <1>1
  <2>4. ASSUME NEW x PROVE x \in Kept(log) <=> (x \in Kept(front) \/ (Accepts(e) /\ x = e))
    BY <2>1, <2>2, <2>3 DEF e
  <2>. QED BY <2>4
<1>5. CASE ~ Accepts(e)
  <2>1. Apply(st, e) = st
    BY <1>5 DEF Apply
  <2>. QED BY <2>1, <1>3, <1>4, <1>5 DEF FoldOf, e
<1>6. CASE Accepts(e)
  <2>. DEFINE a == Append(st, e)
  <2>0. Len(st) \in Nat
    BY LenProperties
  <2>1. /\ Apply(st, e) = a
        /\ Len(a) = Len(st) + 1
        /\ \A i \in 1 .. Len(st) : a[i] = st[i]
        /\ a[Len(st) + 1] = e
    BY <1>1, <1>6, AppendProperties DEF Apply
  <2>2. \A i \in 1 .. Len(st) : st[i].seq \in Nat /\ st[i].seq < n
    <3>1. ASSUME NEW i \in 1 .. Len(st) PROVE \E k \in 1 .. n - 1 : st[i] = log[k]
      <4>1. st[i] \in Kept(front)
        BY <1>3
      <4>. QED BY <4>1, <1>1, <1>2
    <3>2. \A k \in 1 .. n - 1 : log[k].seq \in Nat /\ log[k].seq < n
      BY <1>1
    <3>. QED BY <3>1, <3>2
  <2>. HIDE DEF a
  <2>3. ASSUME NEW i \in 1 .. Len(a), NEW j \in 1 .. Len(a), i < j
        PROVE  a[i].seq < a[j].seq
    <3>1. i \in 1 .. Len(st) /\ a[i] = st[i]
      BY <2>0, <2>1, <2>3
    <3>2. CASE j = Len(st) + 1
      BY <3>1, <3>2, <1>1, <2>1, <2>2
    <3>3. CASE j # Len(st) + 1
      BY <3>1, <3>3, <1>3, <2>0, <2>1, <2>3
    <3>. QED BY <3>2, <3>3
  <2>4. Elements(a) = Elements(st) \cup {e}
    BY <2>0, <2>1
  <2>5. Elements(a) = Kept(log)
    BY <2>4, <1>3, <1>4, <1>6
  <2>. QED BY <2>1, <2>3, <2>5 DEF FoldOf, e
<1>. QED BY <1>5, <1>6

(* Steps that neither touch the stream and the state of a topic nor move a    *)
(* publisher of it into, within or out of the part of Publish between append  *)
(* and save.                                                                  *)
Apart(p) == pc[p] \notin {"apply", "save"}

LEMMA StateUntouched ==
  ASSUME NEW t \in Topics, TopicInv(t), events'[t] = events[t], state'[t] = state[t],
         \A p \in Publishers :
           \/ pc'[p] = pc[p] /\ cur'[p] = cur[p] /\ next'[p] = next[p]
           \/ /\ Apart(p) /\ Apart(p)'
              /\ Appended(p)' => Appended(p) /\ cur'[p] = cur[p] /\ next'[p] = next[p]
           \/ cur[p].topic # t /\ cur'[p].topic # t
  PROVE  TopicInv(t)'
<1>. USE DEF TopicInv, Apart
<1>1. WorksOnLast(t)'
  BY DEF WorksOnLast, Appended, InCritical
<1>2. NextIsFold(t)'
  BY DEF NextIsFold
<1>3. FanoutIsFold(t)'
  BY DEF FanoutIsFold, Appended, InCritical
<1>4. Saved(t)' = Saved(t)
  <2>1. Unsaved(t)' <=> Unsaved(t)
    BY DEF Unsaved
  <2>. QED BY <2>1 DEF Saved
<1>5. FoldOf(state[t], Saved(t))'
  BY <1>4
<1>. QED BY <1>1, <1>2, <1>3, <1>5

(* Only the holder of ingest can be between append and save.                  *)
LEMMA UnsavedByHolder ==
  ASSUME TypeInv, NEW p \in Publishers, InCritical(p), NEW t \in Topics
  PROVE  Unsaved(t) <=> (pc[p] \in {"apply", "save"} /\ cur[p].topic = t)
BY DEF TypeInv, LockHeld, InCritical, Unsaved

LEMMA AppendEventState ==
  ASSUME TypeInv, NEW u \in Topics, TopicInv(u), NEW p \in Publishers, AppendEvent(p)
  PROVE  TopicInv(u)'
<1>. DEFINE t == cur[p].topic
            log == events[t]
            e == [cur[p] EXCEPT !.seq = NextSeq(t)]
<1>1. /\ cur[p] \in Event /\ t \in Topics /\ log \in Seq(Event) /\ Len(log) \in Nat
      /\ InCritical(p) /\ pc[p] = "append"
  BY LenProperties DEF TypeInv, BrokerTypeOK, LockHeld, Event, AppendEvent, InCritical
<1>2. e \in Event /\ e.topic = t
  <2>1. NextSeq(t) \in Nat
    BY <1>1 DEF NextSeq
  <2>. QED BY <1>1, <2>1, WithSeq
<1>. HIDE DEF e
<1>3. /\ events' = [events EXCEPT ![t] = Append(log, e)]
      /\ state' = state
      /\ cur' = [cur EXCEPT ![p] = e]
      /\ pc' = [pc EXCEPT ![p] = "apply"]
      /\ next' = next
  BY <1>1 DEF StoreAppend, AppendEvent, e, TypeInv, BrokerTypeOK
<1>4. /\ cur'[p] = e /\ pc'[p] = "apply" /\ InCritical(p)'
      /\ events'[t] = Append(log, e)
      /\ \A v \in Topics : v # t => events'[v] = events[v]
      /\ \A q \in Publishers : q # p => cur'[q] = cur[q] /\ pc'[q] = pc[q] /\ ~ InCritical(q)
  BY <1>1, <1>3 DEF TypeInv, BrokerTypeOK, LockHeld, InCritical
<1>5. CASE u # t
  <2>1. cur[p].topic # u /\ cur'[p].topic # u
    BY <1>2, <1>4, <1>5
  <2>2. \A q \in Publishers : q # p => pc'[q] = pc[q] /\ cur'[q] = cur[q] /\ next'[q] = next[q]
    BY <1>3, <1>4
  <2>3. events'[u] = events[u] /\ state'[u] = state[u]
    BY <1>3, <1>4, <1>5
  <2>. QED BY <2>1, <2>2, <2>3, StateUntouched
<1>6. CASE u = t
  <2>. USE <1>6 DEF TopicInv
  <2>1. /\ Append(log, e) # <<>>
        /\ Len(Append(log, e)) = Len(log) + 1
        /\ \A i \in 1 .. Len(log) : Append(log, e)[i] = log[i]
        /\ Append(log, e)[Len(log) + 1] = e
    BY <1>1, <1>2, AppendProperties
  <2>2. WorksOnLast(u)'
    BY <1>2, <1>4, <2>1 DEF WorksOnLast, Appended, InCritical
  <2>3. NextIsFold(u)' /\ FanoutIsFold(u)'
    BY <1>4 DEF NextIsFold, FanoutIsFold, Appended, InCritical
  <2>4. ~ Unsaved(u) /\ Unsaved(u)'
    <3>1. ~ Unsaved(u)
      BY <1>1, UnsavedByHolder
    <3>2. Unsaved(u)'
      BY <1>2, <1>4 DEF Unsaved
    <3>. QED BY <3>1, <3>2
  <2>5. Saved(u) = log
    <3>1. Saved(u) = SubSeq(log, 1, Len(log))
      BY <2>4, <1>1 DEF Saved
    <3>. QED BY <3>1, <1>1, SubSeqFull
  <2>6. Saved(u)' = log
    <3>. DEFINE a == Append(log, e)
    <3>1. Saved(u)' = SubSeq(a, 1, Len(log))
      BY <2>1, <2>4, <1>1, <1>4 DEF Saved
    <3>2. \A i \in 1 .. Len(log) : a[i] \in Event
      BY <1>1, <2>1, ElementOfSeq
    <3>. HIDE DEF a
    <3>3. /\ SubSeq(a, 1, Len(log)) \in Seq(Event)
          /\ Len(SubSeq(a, 1, Len(log))) = Len(log)
          /\ \A i \in 1 .. Len(log) : SubSeq(a, 1, Len(log))[i] = a[i]
      BY <1>1, <3>2, SubSeqProperties
    <3>4. \A i \in 1 .. Len(log) : SubSeq(a, 1, Len(log))[i] = log[i]
      BY <3>3, <2>1 DEF a
    <3>5. SubSeq(a, 1, Len(log)) = log
      BY <1>1, <3>3, <3>4, SeqEqual
    <3>. QED BY <3>1, <3>5
  <2>7. FoldOf(state[u], Saved(u))'
    BY <2>5, <2>6, <1>3
  <2>. QED BY <2>2, <2>3, <2>7
<1>. QED BY <1>5, <1>6

LEMMA ApplyReducerState ==
  ASSUME TypeInv, NEW t \in Topics, TopicInv(t), NEW p \in Publishers, ApplyReducer(p),
         "getstate" \notin StoreErrors
  PROVE  TopicInv(t)'
<1>1. /\ pc[p] = "apply"
      /\ \E st \in Returned(state[cur[p].topic], cur[p]) : next' = [next EXCEPT ![p] = st]
      /\ pc' = [pc EXCEPT ![p] = "save"]
      /\ cur' = cur /\ events' = events /\ state' = state
  BY DEF ApplyReducer, GetState, storeVars
<1>2. /\ pc'[p] = "save"
      /\ \A q \in Publishers : q # p => pc'[q] = pc[q] /\ next'[q] = next[q]
      /\ next'[p] \in Returned(state[cur[p].topic], cur[p])
  BY <1>1 DEF TypeInv, BrokerTypeOK
<1>. USE DEF TopicInv
<1>3. WorksOnLast(t)'
  BY <1>1, <1>2 DEF WorksOnLast, Appended, InCritical
<1>4. NextIsFold(t)'
  BY <1>1, <1>2 DEF NextIsFold, Returned, Apply, Accepts
<1>5. FanoutIsFold(t)'
  BY <1>1, <1>2 DEF FanoutIsFold, Appended, InCritical
<1>6. Saved(t)' = Saved(t)
  <2>1. Unsaved(t)' <=> Unsaved(t)
    BY <1>1, <1>2 DEF Unsaved
  <2>. QED BY <2>1, <1>1 DEF Saved
<1>7. FoldOf(state[t], Saved(t))'
  BY <1>1, <1>6
<1>. QED BY <1>3, <1>4, <1>5, <1>7

LEMMA SaveStateState ==
  ASSUME TypeInv, NEW u \in Topics, TopicInv(u), NEW p \in Publishers, SaveState(p),
         "setstate" \notin StoreErrors
  PROVE  TopicInv(u)'
<1>. DEFINE t == cur[p].topic
            log == events[t]
<1>1. /\ pc[p] = "save" /\ InCritical(p) /\ Appended(p)
      /\ cur[p] \in Event /\ t \in Topics
      /\ log \in Seq(Event) /\ Len(log) \in Nat /\ state[t] \in Seq(Event)
      /\ next[p] \in Seq(Event)
  BY LenProperties DEF SaveState, TypeInv, BrokerTypeOK, LockHeld, Event, InCritical, Appended
<1>2. /\ pc' = [pc EXCEPT ![p] = "meta"]
      /\ cur' = cur /\ next' = next /\ events' = events
  BY DEF SaveState, StoreSetState, storeVars
<1>3. /\ pc'[p] = "meta"
      /\ \A q \in Publishers : q # p => pc'[q] = pc[q] /\ ~ InCritical(q)
  BY <1>1, <1>2 DEF TypeInv, BrokerTypeOK, LockHeld
<1>4. CASE u # t
  <2>1. state'[u] = state[u]
    BY <1>1, <1>4 DEF SaveState, StoreSetState, storeVars, TypeInv, BrokerTypeOK
  <2>2. cur[p].topic # u /\ cur'[p].topic # u
    BY <1>2, <1>4
  <2>. QED BY <2>1, <2>2, <1>2, <1>3, StateUntouched
<1>5. CASE u = t
  <2>. USE <1>5 DEF TopicInv
  <2>1. /\ log # <<>> /\ cur[p] = log[Len(log)]
        /\ next[p] \in Returned(state[t], cur[p])
    BY <1>1 DEF WorksOnLast, NextIsFold
  <2>2. FoldOf(state[t], SubSeq(log, 1, Len(log) - 1))
    <3>1. Unsaved(t)
      BY <1>1, UnsavedByHolder
    <3>2. Saved(t) = SubSeq(log, 1, Len(log) - 1)
      BY <3>1, <1>1 DEF Saved
    <3>. QED BY <3>2
  <2>3. FoldOf(Apply(state[t], cur[p]), log)
    <3>1. \A i \in 1 .. Len(log) : log[i].seq = i
      BY <1>1 DEF TypeInv, SeqIsPosition
    <3>. QED BY <2>1, <2>2, <3>1, <1>1, FoldExtend
  <2>4. state'[t] = Apply(state[t], cur[p])
    <3>1. CASE t \in Reduced /\ ~ cur[p].ok
      BY <3>1, <1>1 DEF SaveState, Saves, storeVars, Apply, Accepts
    <3>2. CASE ~ (t \in Reduced /\ ~ cur[p].ok) /\ next[p] # <<>>
      <4>1. next[p] = Apply(state[t], cur[p])
        BY <3>2, <2>1 DEF Returned
      <4>. QED BY <4>1, <3>2, <1>1 DEF SaveState, Saves, StoreSetState, TypeInv, BrokerTypeOK
    <3>3. CASE ~ (t \in Reduced /\ ~ cur[p].ok) /\ next[p] = <<>>
      <4>1. next[p] = Apply(state[t], cur[p])
        BY <3>3, <2>1 DEF Returned
      <4>2. Append(state[t], cur[p]) # <<>>
        BY <1>1, AppendProperties
      <4>3. Apply(state[t], cur[p]) = state[t]
        BY <4>1, <4>2, <3>3 DEF Apply
      <4>. QED BY <4>3, <3>3 DEF SaveState, Saves, storeVars
    <3>. QED BY <3>1, <3>2, <3>3
  <2>5. Carries(next[p], cur[p], log)
    <3>1. CASE t \in Reduced /\ ~ cur[p].ok
      <4>1. Apply(state[t], cur[p]) = state[t]
        BY <3>1 DEF Apply, Accepts
      <4>2. next[p] = state[t] \/ next[p] = <<>>
        BY <3>1, <2>1 DEF Returned
      <4>. QED BY <4>1, <4>2, <3>1, <2>3 DEF Carries
    <3>2. CASE ~ (t \in Reduced /\ ~ cur[p].ok)
      BY <3>2, <2>1, <2>3 DEF Returned, Carries
    <3>. QED BY <3>1, <3>2
  <2>6. WorksOnLast(u)'
    BY <1>1, <1>2, <1>3 DEF WorksOnLast, Appended, InCritical
  <2>7. NextIsFold(u)'
    BY <1>2, <1>3 DEF NextIsFold, InCritical
  <2>8. FanoutIsFold(u)'
    BY <2>5, <1>1, <1>2, <1>3 DEF FanoutIsFold, Appended, InCritical
  <2>9. FoldOf(state[u], Saved(u))'
    <3>1. ~ Unsaved(u)'
      BY <1>3 DEF Unsaved, InCritical
    <3>2. Saved(u)' = SubSeq(log, 1, Len(log))
      <4>1. events'[u] = log /\ Len(log) - 0 = Len(log)
        BY <1>1, <1>2
      <4>2. Saved(u)' = SubSeq(events'[u], 1, Len(events'[u]) - 0)
        BY <3>1 DEF Saved
      <4>. QED BY <4>1, <4>2
    <3>3. Saved(u)' = log
      BY <3>2, <1>1, SubSeqFull
    <3>. QED BY <3>3, <2>3, <2>4
  <2>. QED BY <2>6, <2>7, <2>8, <2>9
<1>. QED BY <1>4, <1>5

LEMMA TopicInit ==
  ASSUME BrokerInit, NEW t \in Topics
  PROVE  TopicInv(t)
<1>. USE DEF BrokerInit, StoreInit
<1>1. WorksOnLast(t) /\ NextIsFold(t) /\ FanoutIsFold(t)
  BY DEF WorksOnLast, NextIsFold, FanoutIsFold, Appended, InCritical
<1>2. state[t] = <<>> /\ Saved(t) = <<>>
  <2>1. Saved(t) = SubSeq(<<>>, 1, 0)
    BY EmptySeq DEF Saved, Unsaved
  <2>. QED BY <2>1, SubSeqEmpty
<1>3. FoldOf(<<>>, <<>>)
  BY EmptySeq DEF FoldOf
<1>. QED BY <1>1, <1>2, <1>3 DEF TopicInv

(* A step of a publisher, respectively of a subscriber.                       *)
LEMMA PublishStepState ==
  ASSUME "getstate" \notin StoreErrors, "setstate" \notin StoreErrors,
         TypeInv, NEW u \in Topics, TopicInv(u), NEW p \in Publishers,
         PublisherAct(p)
  PROVE  TopicInv(u)'
<1>. USE DEF Apart, Appended, InCritical
<1>1. ASSUME NEW t \in Topics, NEW at \in Nat, NEW ok \in Outcomes(t), PublishCall(p, t, ok, at)
      PROVE  TopicInv(u)'
  BY <1>1, StateUntouched DEF PublishCall, storeVars, TypeInv, BrokerTypeOK
<1>2. CASE Lock(p)
  BY <1>2, StateUntouched DEF Lock, storeVars, TypeInv, BrokerTypeOK
<1>3. CASE AppendEvent(p)
  BY <1>3, AppendEventState
<1>4. CASE AppendFails(p)
  BY <1>4, StateUntouched DEF AppendFails, Return, storeVars, TypeInv, BrokerTypeOK
<1>5. CASE ApplyReducer(p)
  BY <1>5, ApplyReducerState
<1>6. CASE SaveState(p)
  BY <1>6, SaveStateState
<1>7. CASE UpsertMeta(p)
  <2>1. events' = events /\ state' = state
    BY <1>7 DEF UpsertMeta, StoreUpsertMeta, storeVars
  <2>. QED BY <1>7, <2>1, StateUntouched DEF UpsertMeta, TypeInv, BrokerTypeOK
<1>8. CASE StartFanout(p)
  BY <1>8, StateUntouched DEF StartFanout, storeVars, TypeInv, BrokerTypeOK
<1>9. CASE VisitSub(p)
  BY <1>9, StateUntouched DEF VisitSub, storeVars, publishVars
<1>10. CASE FinishPublish(p)
  BY <1>10, StateUntouched DEF FinishPublish, Return, storeVars, TypeInv, BrokerTypeOK
<1>. QED BY <1>1, <1>2, <1>3, <1>4, <1>5, <1>6, <1>7, <1>8, <1>9, <1>10 DEF PublisherAct, PublishStep

LEMMA SubscriberState ==
  ASSUME NEW u \in Topics, TopicInv(u), UNCHANGED <<storeVars, publishVars>>
  PROVE  TopicInv(u)'
BY StateUntouched DEF storeVars, publishVars

LEMMA StateStep ==
  ASSUME "getstate" \notin StoreErrors, "setstate" \notin StoreErrors,
         TypeInv, NEW u \in Topics, TopicInv(u), BrokerAct
  PROVE  TopicInv(u)'
<1>1. ASSUME NEW p \in Publishers, PublisherAct(p) PROVE TopicInv(u)'
  BY <1>1, PublishStepState
<1>2. ASSUME NEW s \in Subs, SubscriberAct(s) PROVE TopicInv(u)'
  BY <1>2, SubscriberState
     DEF SubscriberAct, SubscribeHub, SubscribeStep, ReadBackfill, ReadFails, FinishClose,
         Unsubscribe, Consume, Take
<1>3. CASE UNCHANGED brokerVars
  BY <1>3, SubscriberState DEF brokerVars
<1>. QED BY <1>1, <1>2, <1>3 DEF BrokerAct

LEMMA StateInvariant ==
  ASSUME "getstate" \notin StoreErrors, "setstate" \notin StoreErrors
  PROVE  BrokerSpec => []StateIInv
<1>1. BrokerInit => TypeInv /\ StateInv
  BY TypeInit, TopicInit DEF StateInv
<1>2. TypeInv /\ StateInv /\ [BrokerNext]_brokerVars => (TypeInv /\ StateInv)'
  BY TypeStep, StateStep, NextIsAct DEF StateInv
<1>. QED BY <1>1, <1>2, PTL DEF BrokerSpec, StateIInv

(* With a store whose GetState and SetState do not fail, the saved state of   *)
(* every topic is at every moment the fold of its whole stream, the event     *)
(* being ingested excepted, whatever publishers and subscribers do            *)
(* (broker.go:55-68).                                                         *)
THEOREM StateFollowsStream ==
  ASSUME "getstate" \notin StoreErrors, "setstate" \notin StoreErrors
  PROVE  BrokerSpec => []StateIsFold
<1>1. StateIInv => StateIsFold
  BY DEF StateIInv, StateInv, TopicInv, StateIsFold
<1>. QED BY <1>1, StateInvariant, PTL

--------------------------------------------------------------------------------
(* What the broker delivers: the registry of the hub inside the broker, the   *)
(* order of live events, the state they carry, the seam between backfill and  *)
(* live events, and that nothing is missed.                                   *)

(* The life of a subscription in the hub follows that of its caller ...       *)
StageIsPhase ==
  \A s \in Subs :
    /\ stage[s] = "none" <=> phase[s] = "new"
    /\ stage[s] \in {"read", "live"} <=> phase[s] = "open"
    /\ phase[s] = "new" => subTopic[s] = None

(* ... and a fan-out visits subscriptions of its own topic, each once.        *)
VisitsTopic ==
  \A p \in Publishers, s \in Subs : Owed(p, s) =>
    /\ pc[p] = "sending"
    /\ subTopic[s] = cur[p].topic
    /\ ~ (s \in list[p] /\ target[p] = s)

HubInv == RegistryExact /\ StageIsPhase /\ VisitsTopic

OnLast == \A t \in Topics : WorksOnLast(t)

(* A channel holds events of its topic's stream ...                           *)
FromStream(s) ==
  \A i \in 1 .. Len(chan[s]) :
    LET e == chan[s][i].event
    IN  /\ subTopic[s] \in Topics
        /\ e.seq \in 1 .. Len(events[subTopic[s]])
        /\ e = events[subTopic[s]][e.seq]

(* ... as was what was taken from it, ...                                     *)
TakenFromStream(s) ==
  taken[s] # 0 => subTopic[s] \in Topics /\ taken[s] <= Len(events[subTopic[s]])

(* ... and an event still to be offered is later than all of them.            *)
PendingIsLater(s) ==
  \A p \in Publishers : Pending(p, s) =>
    /\ taken[s] < cur[p].seq
    /\ \A i \in 1 .. Len(chan[s]) : chan[s][i].event.seq < cur[p].seq

(* The backfill of a live subscription is the stretch of the stream that ends *)
(* at its fence.                                                              *)
BackfillIsStretch(s) ==
  stage[s] = "live" =>
    LET b == backfill[s]
    IN  b # <<>> => /\ fence[s] \in Len(b) .. Len(events[subTopic[s]])
                    /\ \A j \in 1 .. Len(b) : b[j] = events[subTopic[s]][fence[s] - Len(b) + j]

FenceOfEmpty(s) == stage[s] = "live" /\ backfill[s] = <<>> => fence[s] = 0

OrderInv(s) ==
  /\ FromStream(s) /\ TakenFromStream(s) /\ PendingIsLater(s) /\ InOrder(s)
  /\ BackfillIsStretch(s) /\ FenceOfEmpty(s) /\ MissesNothing(s)

BaseInv == TypeInv /\ HubInv /\ OnLast
DInv == BaseInv /\ \A s \in Subs : OrderInv(s)

--------------------------------------------------------------------------------
(* What the steps of a publisher leave alone, and what they do to pc and cur. *)
LEMMA PublisherFrame ==
  ASSUME NEW p \in Publishers, PublisherAct(p)
  PROVE  UNCHANGED <<registry, subTopic, phase, want, stage, backfill, fence, seenTo, taken>>
<1>1. ASSUME NEW t \in Topics, NEW at \in Nat, NEW ok \in Outcomes(t), PublishCall(p, t, ok, at)
      PROVE  UNCHANGED <<registry, subTopic, phase, subscribeVars, historyVars>>
  BY <1>1 DEF PublishCall, hubVars
<1>2. CASE Lock(p)
  BY <1>2 DEF Lock, hubVars, subscribeVars, historyVars
<1>3. CASE AppendEvent(p) \/ AppendFails(p)
  BY <1>3 DEF AppendEvent, AppendFails, hubVars, subscribeVars, historyVars
<1>4. CASE ApplyReducer(p) \/ SaveState(p) \/ UpsertMeta(p)
  BY <1>4 DEF ApplyReducer, SaveState, UpsertMeta, hubVars, subscribeVars, historyVars
<1>5. CASE StartFanout(p) \/ FinishPublish(p)
  BY <1>5 DEF StartFanout, Snapshot, FinishPublish, PublishReturn, subscribeVars, historyVars
<1>6. CASE VisitSub(p)
  BY <1>6 DEF VisitSub, Visit, SkipClosed, LoadOpen, Send, SeeDone, Drop, subscribeVars, historyVars
<1>. QED BY <1>1, <1>2, <1>3, <1>4, <1>5, <1>6 DEF PublisherAct, PublishStep, subscribeVars, historyVars

(* Only the holder of ingest moves, once it has the lock; the others keep     *)
(* their place, their event and their visits.                                 *)
LEMMA OthersStay ==
  ASSUME TypeInv, NEW p \in Publishers, PublisherAct(p), NEW q \in Publishers, q # p
  PROVE  /\ pc'[q] = pc[q] /\ cur'[q] = cur[q] /\ next'[q] = next[q]
         /\ list'[q] = list[q] /\ target'[q] = target[q] /\ job'[q] = job[q]
<1>. USE DEF TypeInv, BrokerTypeOK, HubTypeOK
<1>1. ASSUME NEW t \in Topics, NEW at \in Nat, NEW ok \in Outcomes(t), PublishCall(p, t, ok, at)
      PROVE  /\ pc'[q] = pc[q] /\ cur'[q] = cur[q] /\ next'[q] = next[q]
             /\ list'[q] = list[q] /\ target'[q] = target[q] /\ job'[q] = job[q]
  BY <1>1 DEF PublishCall, hubVars
<1>2. CASE Lock(p)
  BY <1>2 DEF Lock, hubVars
<1>3. CASE AppendEvent(p)
  BY <1>3 DEF AppendEvent, hubVars
<1>4. CASE AppendFails(p)
  BY <1>4 DEF AppendFails, Return, hubVars
<1>5. CASE ApplyReducer(p)
  BY <1>5 DEF ApplyReducer, hubVars
<1>6. CASE SaveState(p) \/ UpsertMeta(p)
  BY <1>6 DEF SaveState, UpsertMeta, hubVars
<1>7. CASE StartFanout(p)
  BY <1>7 DEF StartFanout, Snapshot
<1>8. CASE FinishPublish(p)
  BY <1>8 DEF FinishPublish, PublishReturn, Return
<1>9. CASE VisitSub(p)
  BY <1>9 DEF VisitSub, Visit, SkipClosed, LoadOpen, Send, SeeDone, Drop, publishVars
<1>. QED BY <1>1, <1>2, <1>3, <1>4, <1>5, <1>6, <1>7, <1>8, <1>9 DEF PublisherAct, PublishStep

(* What the steps of a subscriber leave alone.                                *)
LEMMA SubscriberFrame ==
  ASSUME NEW s \in Subs, SubscriberAct(s)
  PROVE  UNCHANGED <<storeVars, publishVars, lag, job, list, target>>
<1>1. ASSUME NEW t \in Topics, NEW from \in From, SubscribeHub(s, t, from)
      PROVE  UNCHANGED <<storeVars, publishVars, lag, job, list, target>>
  BY <1>1 DEF SubscribeHub, HubSubscribe
<1>2. CASE ReadBackfill(s) \/ ReadFails(s) \/ Unsubscribe(s) \/ FinishClose(s) \/ Consume(s)
  BY <1>2 DEF ReadBackfill, ReadFails, Unsubscribe, FinishClose, CloseSwap, CloseRemove, CloseDone,
              Consume, Take, Receive, hubVars
<1>. QED BY <1>1, <1>2 DEF SubscriberAct, SubscribeStep

--------------------------------------------------------------------------------
(* The hub inside the broker.                                                 *)
LEMMA RegistryStep ==
  ASSUME TypeInv, RegistryExact, BrokerAct
  PROVE  RegistryExact'
<1>0. /\ registry \in [Topics -> SUBSET Subs]
      /\ subTopic \in [Subs -> Topics \cup {None}]
      /\ phase \in [Subs -> Phases]
  BY DEF TypeInv, BrokerTypeOK, HubTypeOK
<1>1. ASSUME NEW p \in Publishers, PublisherAct(p) PROVE RegistryExact'
  BY <1>1, PublisherFrame DEF RegistryExact
<1>2. ASSUME NEW s \in Subs, NEW t \in Topics, NEW from \in From, SubscribeHub(s, t, from)
      PROVE  RegistryExact'
  <2>1. /\ registry' = [registry EXCEPT ![t] = registry[t] \cup {s}]
        /\ subTopic' = [subTopic EXCEPT ![s] = t]
        /\ phase' = [phase EXCEPT ![s] = "open"]
        /\ phase[s] = "new"
    BY <1>2 DEF SubscribeHub, HubSubscribe
  <2>2. /\ \A u \in Topics : registry'[u] = IF u = t THEN registry[u] \cup {s} ELSE registry[u]
        /\ \A r \in Subs : subTopic'[r] = IF r = s THEN t ELSE subTopic[r]
        /\ \A r \in Subs : phase'[r] = IF r = s THEN "open" ELSE phase[r]
    BY <1>0, <2>1
  <2>. QED BY <2>1, <2>2 DEF RegistryExact
<1>3. ASSUME NEW s \in Subs, CloseSwap(s) \/ CloseDone(s) PROVE RegistryExact'
  BY <1>0, <1>3 DEF CloseSwap, CloseDone, RegistryExact
<1>4. ASSUME NEW s \in Subs, CloseRemove(s) PROVE RegistryExact'
  BY <1>0, <1>4, NoneAssumption DEF CloseRemove, RegistryExact
<1>5. ASSUME NEW s \in Subs, ReadBackfill(s) \/ Consume(s) PROVE RegistryExact'
  BY <1>5 DEF ReadBackfill, Consume, Take, Receive, hubVars, RegistryExact
<1>6. CASE UNCHANGED brokerVars
  BY <1>6 DEF brokerVars, hubVars, RegistryExact
<1>. QED
  BY <1>1, <1>2, <1>3, <1>4, <1>5, <1>6
     DEF BrokerAct, SubscriberAct, SubscribeStep, ReadFails, FinishClose, Unsubscribe

LEMMA StageStep ==
  ASSUME TypeInv, StageIsPhase, BrokerAct
  PROVE  StageIsPhase'
<1>. USE DEF TypeInv, BrokerTypeOK, HubTypeOK, StageIsPhase
<1>1. ASSUME NEW p \in Publishers, PublisherAct(p) PROVE StageIsPhase'
  BY <1>1, PublisherFrame
<1>2. ASSUME NEW s \in Subs, NEW t \in Topics, NEW from \in From, SubscribeHub(s, t, from)
      PROVE  StageIsPhase'
  BY <1>2 DEF SubscribeHub, HubSubscribe
<1>3. ASSUME NEW s \in Subs, ReadFails(s) \/ Unsubscribe(s) PROVE StageIsPhase'
  BY <1>3 DEF ReadFails, Unsubscribe, CloseSwap
<1>4. ASSUME NEW s \in Subs, FinishClose(s) PROVE StageIsPhase'
  BY <1>4 DEF FinishClose, CloseRemove, CloseDone, subscribeVars
<1>5. ASSUME NEW s \in Subs, ReadBackfill(s) \/ Consume(s) PROVE StageIsPhase'
  BY <1>5 DEF ReadBackfill, Consume, Take, Receive, hubVars, subscribeVars
<1>6. CASE UNCHANGED brokerVars
  BY <1>6 DEF brokerVars, hubVars, subscribeVars
<1>. QED
  BY <1>1, <1>2, <1>3, <1>4, <1>5, <1>6 DEF BrokerAct, SubscriberAct, SubscribeStep

LEMMA VisitsStep ==
  ASSUME TypeInv, HubInv, BrokerAct
  PROVE  VisitsTopic'
<1>. USE DEF HubInv, VisitsTopic, Owed
<1>1. ASSUME NEW p \in Publishers, PublisherAct(p) PROVE VisitsTopic'
  <2>1. SUFFICES ASSUME NEW s \in Subs, Owed(p, s)'
                 PROVE  /\ pc'[p] = "sending"
                        /\ subTopic[s] = cur'[p].topic
                        /\ ~ (s \in list'[p] /\ target'[p] = s)
    BY <1>1, OthersStay, PublisherFrame
  <2>. USE DEF TypeInv, BrokerTypeOK, HubTypeOK, LockHeld
  <2>2. CASE pc[p] # "sending"
    <3>1. \A u \in Subs : ~ Owed(p, u)
      BY <2>2
    <3>2. StartFanout(p) \/ (list'[p] = list[p] /\ target'[p] = target[p])
      BY <1>1, <2>2
         DEF PublisherAct, PublishCall, Lock, PublishStep, AppendEvent, AppendFails, ApplyReducer,
             SaveState, UpsertMeta, VisitSub, FinishPublish, hubVars
    <3>3. CASE StartFanout(p)
      <4>1. cur[p].topic \in Topics /\ target[p] = None
        BY <3>3, NoneAssumption DEF StartFanout, Event
      <4>2. list'[p] = registry[cur[p].topic] /\ target'[p] = None /\ pc'[p] = "sending" /\ cur' = cur
        BY <3>3, <4>1 DEF StartFanout, Snapshot
      <4>. QED BY <4>1, <4>2, <2>1, NoneAssumption DEF RegistryExact
    <3>. QED BY <2>1, <3>1, <3>2, <3>3
  <2>3. CASE pc[p] = "sending"
    <3>1. VisitSub(p) \/ FinishPublish(p)
      BY <1>1, <2>3
         DEF PublisherAct, PublishCall, Lock, PublishStep, AppendEvent, AppendFails, ApplyReducer,
             SaveState, UpsertMeta, StartFanout
    <3>2. CASE VisitSub(p)
      <4>1. pc' = pc /\ cur' = cur
        BY <3>2 DEF VisitSub, publishVars
      <4>2. s # None /\ (s \in list'[p] \/ target'[p] = s)
        BY <2>1, NoneAssumption
      <4>3. Owed(p, s) /\ ~ (s \in list'[p] /\ target'[p] = s)
        <5>1. ASSUME NEW u \in Subs, SkipClosed(p, u) \/ LoadOpen(p, u)
              PROVE  Owed(p, s) /\ ~ (s \in list'[p] /\ target'[p] = s)
          <6>1. /\ list'[p] = list[p] \ {u} /\ target[p] = None
                /\ target'[p] = None \/ (u \in list[p] /\ target'[p] = u)
            BY <5>1 DEF SkipClosed, LoadOpen
          <6>. QED BY <6>1, <4>2
        <5>2. CASE Send(p) \/ SeeDone(p) \/ Drop(p)
          <6>1. list'[p] = list[p] /\ target'[p] = None
            BY <5>2 DEF Send, SeeDone, Drop
          <6>. QED BY <6>1, <4>2
        <5>. QED BY <3>2, <5>1, <5>2 DEF VisitSub, Visit
      <4>4. subTopic[s] = cur[p].topic
        BY <4>3
      <4>. QED BY <2>3, <4>1, <4>3, <4>4
    <3>3. CASE FinishPublish(p)
      BY <2>1, <3>3, NoneAssumption DEF FinishPublish, PublishReturn, FanoutDone
    <3>. QED BY <3>1, <3>2, <3>3
  <2>. QED BY <2>2, <2>3
<1>2. ASSUME NEW s \in Subs, SubscriberAct(s) PROVE VisitsTopic'
  <2>1. UNCHANGED <<publishVars, list, target>>
    BY <1>2, SubscriberFrame
  <2>2. \/ subTopic' = subTopic
        \/ /\ subTopic[s] = None
           /\ \A u \in Subs : u # s => subTopic'[u] = subTopic[u]
    BY <1>2
       DEF TypeInv, BrokerTypeOK, HubTypeOK, StageIsPhase, SubscriberAct, SubscribeHub, HubSubscribe,
           SubscribeStep, ReadBackfill, ReadFails, FinishClose, Unsubscribe, Consume, Take, Receive,
           CloseSwap, CloseRemove, CloseDone, hubVars
  <2>3. \A p \in Publishers : pc[p] = "sending" => cur[p].topic # None
    BY NoneAssumption DEF TypeInv, LockHeld, Event
  <2>. QED BY <2>1, <2>2, <2>3 DEF publishVars
<1>3. CASE UNCHANGED brokerVars
  BY <1>3 DEF brokerVars, hubVars, publishVars
<1>. QED BY <1>1, <1>2, <1>3 DEF BrokerAct
--------------------------------------------------------------------------------
(* For what waits in the channels only two steps of a publisher matter, the   *)
(* append and the send.  Every other step leaves streams and channels alone,  *)
(* makes nothing pending, and takes a pending event from an open subscription *)
(* only by counting it as dropped.                                            *)
Quiet ==
  /\ UNCHANGED <<events, chan>>
  /\ \A q \in Publishers : Appended(q)' => Appended(q) /\ cur'[q] = cur[q]
  /\ \A q \in Publishers, s \in Subs : Pending(q, s)' => Pending(q, s)
  /\ \A s \in Subs : stage[s] \in {"read", "live"} /\ lag'[s] = 0 =>
       lag[s] = 0 /\ \A q \in Publishers : Pending(q, s) => Pending(q, s)'

LEMMA QuietByOwner ==
  ASSUME TypeInv, NEW p \in Publishers, PublisherAct(p),
         UNCHANGED <<events, chan>>,
         Appended(p)' => Appended(p) /\ cur'[p] = cur[p],
         \A s \in Subs : Pending(p, s)' => Pending(p, s),
         \A s \in Subs : stage[s] \in {"read", "live"} /\ lag'[s] = 0 =>
           lag[s] = 0 /\ (Pending(p, s) => Pending(p, s)')
  PROVE  Quiet
<1>1. \A q \in Publishers : q # p =>
        /\ Appended(q)' <=> Appended(q)
        /\ cur'[q] = cur[q]
        /\ \A s \in Subs : Pending(q, s)' <=> Pending(q, s)
  BY OthersStay, PublisherFrame DEF Appended, InCritical, Pending, Owed
<1>. QED BY <1>1 DEF Quiet

LEMMA PublisherCases ==
  ASSUME TypeInv, HubInv, NEW p \in Publishers, PublisherAct(p)
  PROVE  AppendEvent(p) \/ (VisitSub(p) /\ Send(p)) \/ Quiet
<1>0. /\ pc \in [Publishers -> PcValues]
      /\ cur \in [Publishers -> Event \cup {None}]
      /\ list \in [Publishers -> SUBSET Subs]
      /\ target \in [Publishers -> Subs \cup {None}]
      /\ lag \in [Subs -> Nat]
      /\ target[p] # None => pc[p] = "sending"
      /\ subTopic' = subTopic /\ stage' = stage
      /\ \A s \in Subs : s # None
  BY PublisherFrame, NoneAssumption DEF TypeInv, BrokerTypeOK, HubTypeOK, LockHeld
<1>1. ASSUME NEW t \in Topics, NEW at \in Nat, NEW ok \in Outcomes(t), PublishCall(p, t, ok, at)
      PROVE  Quiet
  <2>1. /\ pc[p] = "idle" /\ pc'[p] = "lock"
        /\ UNCHANGED <<events, chan, lag>>
    BY <1>0, <1>1 DEF PublishCall, storeVars, hubVars
  <2>. QED BY <2>1, QuietByOwner DEF Appended, InCritical, Pending
<1>2. CASE Lock(p)
  <2>1. /\ pc[p] = "lock" /\ pc'[p] = "append"
        /\ UNCHANGED <<events, chan, lag>>
    BY <1>0, <1>2 DEF Lock, storeVars, hubVars
  <2>. QED BY <2>1, QuietByOwner DEF Appended, InCritical, Pending
<1>3. CASE AppendFails(p)
  <2>1. /\ pc[p] = "append" /\ pc'[p] = "idle"
        /\ UNCHANGED <<events, chan, lag>>
    BY <1>0, <1>3 DEF AppendFails, Return, storeVars, hubVars
  <2>. QED BY <2>1, QuietByOwner DEF Appended, InCritical, Pending
<1>4. CASE ApplyReducer(p) \/ SaveState(p) \/ UpsertMeta(p)
  <2>1. /\ pc[p] \in {"apply", "save", "meta"} /\ pc'[p] \in {"save", "meta", "fanout"}
        /\ UNCHANGED <<events, cur, chan, lag>>
    BY <1>0, <1>4
       DEF ApplyReducer, SaveState, StoreSetState, UpsertMeta, StoreUpsertMeta, storeVars, hubVars
  <2>. QED BY <1>0, <2>1, QuietByOwner DEF Appended, InCritical, Pending
<1>5. CASE StartFanout(p)
  <2>1. /\ pc[p] = "fanout" /\ pc'[p] = "sending"
        /\ UNCHANGED <<events, cur, chan, lag>>
        /\ cur[p].topic \in Topics
        /\ list' = [list EXCEPT ![p] = registry[cur[p].topic]]
    BY <1>0, <1>5 DEF StartFanout, Snapshot, storeVars, TypeInv, LockHeld, Event
  <2>2. \A s \in Subs : stage[s] \in {"read", "live"} /\ cur[p].topic = subTopic[s] => s \in list'[p]
    BY <1>0, <2>1 DEF HubInv, StageIsPhase, RegistryExact
  <2>. QED BY <1>0, <2>1, <2>2, QuietByOwner DEF Appended, InCritical, Pending, Owed
<1>6. CASE FinishPublish(p)
  <2>1. /\ pc[p] = "sending" /\ pc'[p] = "idle"
        /\ UNCHANGED <<events, chan, lag>>
        /\ list[p] = {} /\ target[p] = None
    BY <1>0, <1>6 DEF FinishPublish, PublishReturn, FanoutDone, Return, storeVars
  <2>. QED BY <1>0, <2>1, QuietByOwner DEF Appended, InCritical, Pending, Owed
<1>7. ASSUME NEW u \in Subs, VisitSub(p), SkipClosed(p, u) PROVE Quiet
  <2>1. /\ UNCHANGED <<events, cur, pc, chan, lag, target>>
        /\ list' = [list EXCEPT ![p] = list[p] \ {u}]
        /\ Closed(u)
    BY <1>7 DEF VisitSub, SkipClosed, publishVars, storeVars
  <2>2. stage[u] \notin {"read", "live"}
    BY <2>1 DEF Closed, HubInv, StageIsPhase
  <2>. QED BY <1>0, <2>1, <2>2, QuietByOwner DEF Appended, InCritical, Pending, Owed
<1>8. ASSUME NEW u \in Subs, VisitSub(p), LoadOpen(p, u) PROVE Quiet
  <2>1. /\ UNCHANGED <<events, cur, pc, chan, lag>>
        /\ u \in list[p] /\ target[p] = None
        /\ list' = [list EXCEPT ![p] = list[p] \ {u}]
        /\ target' = [target EXCEPT ![p] = u]
    BY <1>8 DEF VisitSub, LoadOpen, publishVars, storeVars
  <2>. QED BY <1>0, <2>1, QuietByOwner DEF Appended, InCritical, Pending, Owed
<1>9. CASE VisitSub(p) /\ SeeDone(p)
  <2>1. /\ UNCHANGED <<events, cur, pc, chan, lag, list>>
        /\ target' = [target EXCEPT ![p] = None]
        /\ target[p] # None /\ phase[target[p]] = "done"
    BY <1>9 DEF VisitSub, SeeDone, publishVars, storeVars
  <2>2. stage[target[p]] \notin {"read", "live"}
    BY <1>0, <2>1 DEF HubInv, StageIsPhase
  <2>. QED BY <1>0, <2>1, <2>2, QuietByOwner DEF Appended, InCritical, Pending, Owed
<1>10. CASE VisitSub(p) /\ Drop(p)
  <2>1. /\ UNCHANGED <<events, cur, pc, chan, list>>
        /\ target' = [target EXCEPT ![p] = None]
        /\ target[p] \in Subs
        /\ lag' = [lag EXCEPT ![target[p]] = lag[target[p]] + 1]
    BY <1>0, <1>10 DEF VisitSub, Drop, publishVars, storeVars
  <2>2. \A s \in Subs : lag'[s] = IF s = target[p] THEN lag[s] + 1 ELSE lag[s]
    BY <1>0, <2>1
  <2>. QED BY <1>0, <2>1, <2>2, QuietByOwner DEF Appended, InCritical, Pending, Owed
<1>. QED
  BY <1>1, <1>2, <1>3, <1>4, <1>5, <1>6, <1>7, <1>8, <1>9, <1>10
     DEF PublisherAct, PublishStep, VisitSub, Visit
(* The other two steps of a publisher.  An append extends one stream by the   *)
(* event that its publisher then works on, while nobody else is past it.      *)
LEMMA AppendFacts ==
  ASSUME TypeInv, NEW p \in Publishers, AppendEvent(p)
  PROVE  LET t == cur[p].topic
             n == Len(events[t])
         IN  /\ t \in Topics /\ n \in Nat
             /\ \A u \in Topics : u # t => events'[u] = events[u]
             /\ Len(events'[t]) = n + 1
             /\ \A i \in 1 .. n : events'[t][i] = events[t][i]
             /\ cur'[p] = events'[t][n + 1] /\ cur'[p].topic = t /\ cur'[p].seq = n + 1
             /\ Appended(p)' /\ pc'[p] = "apply"
             /\ \A q \in Publishers : ~ Appended(q) /\ (Appended(q)' => q = p)
             /\ UNCHANGED <<hubVars, subscribeVars, historyVars>>
<1>. DEFINE t == cur[p].topic
            log == events[t]
            e == [cur[p] EXCEPT !.seq = NextSeq(t)]
<1>1. /\ cur[p] \in Event /\ t \in Topics /\ log \in Seq(Event) /\ Len(log) \in Nat
      /\ InCritical(p) /\ pc[p] = "append"
  BY LenProperties DEF TypeInv, BrokerTypeOK, LockHeld, Event, AppendEvent, InCritical
<1>2. e \in Event /\ e.topic = t /\ e.seq = Len(log) + 1
  <2>1. NextSeq(t) = Len(log) + 1 /\ NextSeq(t) \in Nat
    BY <1>1 DEF NextSeq
  <2>. QED BY <1>1, <2>1, WithSeq
<1>. HIDE DEF e
<1>3. /\ events' = [events EXCEPT ![t] = Append(log, e)]
      /\ cur' = [cur EXCEPT ![p] = e]
      /\ pc' = [pc EXCEPT ![p] = "apply"]
      /\ UNCHANGED <<hubVars, subscribeVars, historyVars>>
  BY <1>1 DEF StoreAppend, AppendEvent, e, TypeInv, BrokerTypeOK
<1>4. /\ cur'[p] = e /\ pc'[p] = "apply"
      /\ events'[t] = Append(log, e)
      /\ \A u \in Topics : u # t => events'[u] = events[u]
      /\ \A q \in Publishers : q # p => pc'[q] = pc[q] /\ ~ InCritical(q)
  BY <1>1, <1>3 DEF TypeInv, BrokerTypeOK, LockHeld, InCritical
<1>5. /\ Len(Append(log, e)) = Len(log) + 1
      /\ \A i \in 1 .. Len(log) : Append(log, e)[i] = log[i]
      /\ Append(log, e)[Len(log) + 1] = e
  BY <1>1, <1>2, AppendProperties
<1>6. Appended(p)' /\ \A q \in Publishers : ~ Appended(q) /\ (Appended(q)' => q = p)
  BY <1>1, <1>4 DEF Appended, InCritical
<1>. QED BY <1>1, <1>2, <1>3, <1>4, <1>5, <1>6

LEMMA LastStep ==
  ASSUME TypeInv, HubInv, OnLast, BrokerAct
  PROVE  OnLast'
<1>1. ASSUME NEW p \in Publishers, AppendEvent(p) PROVE OnLast'
  <2>. DEFINE t == cur[p].topic
  <2>1. SUFFICES ASSUME NEW u \in Topics, NEW q \in Publishers, Appended(q)', cur'[q].topic = u
                 PROVE  events'[u] # <<>> /\ cur'[q] = events'[u][Len(events'[u])]
    BY DEF OnLast, WorksOnLast
  <2>2. q = p /\ u = t
    BY <1>1, <2>1, AppendFacts
  <2>3. Len(events'[u]) = Len(events[t]) + 1 /\ Len(events[t]) \in Nat
    BY <1>1, <2>2, AppendFacts
  <2>4. events'[u] # <<>>
    BY <2>3, EmptySeq
  <2>. QED BY <1>1, <2>2, <2>3, <2>4, AppendFacts
<1>2. ASSUME UNCHANGED events, \A q \in Publishers : Appended(q)' => Appended(q) /\ cur'[q] = cur[q]
      PROVE  OnLast'
  BY <1>2 DEF OnLast, WorksOnLast
<1>3. ASSUME NEW p \in Publishers, PublisherAct(p) PROVE OnLast'
  BY <1>1, <1>2, <1>3, PublisherCases
     DEF Quiet, VisitSub, storeVars, publishVars, Appended, InCritical
<1>4. ASSUME NEW s \in Subs, SubscriberAct(s) PROVE OnLast'
  BY <1>2, <1>4, SubscriberFrame DEF storeVars, publishVars, Appended, InCritical
<1>5. CASE UNCHANGED brokerVars
  BY <1>2, <1>5 DEF brokerVars, storeVars, publishVars, Appended, InCritical
<1>. QED BY <1>3, <1>4, <1>5 DEF BrokerAct

(* What a publisher has appended is the last event of its topic's stream.     *)
LEMMA AppendedIsLast ==
  ASSUME TypeInv, OnLast, NEW p \in Publishers, Appended(p)
  PROVE  LET log == events[cur[p].topic]
         IN  /\ cur[p] \in Event /\ cur[p].topic \in Topics
             /\ Len(log) \in Nat \ {0}
             /\ cur[p] = log[Len(log)] /\ cur[p].seq = Len(log)
             /\ \A q \in Publishers : Appended(q) => q = p
<1>1. cur[p] \in Event /\ cur[p].topic \in Topics /\ events[cur[p].topic] \in Seq(Event)
  BY DEF TypeInv, BrokerTypeOK, LockHeld, Appended, InCritical, Event
<1>2. events[cur[p].topic] # <<>> /\ cur[p] = events[cur[p].topic][Len(events[cur[p].topic])]
  BY <1>1 DEF OnLast, WorksOnLast
<1>3. Len(events[cur[p].topic]) \in Nat \ {0}
  BY <1>1, <1>2, EmptySeq, LenProperties
<1>4. cur[p].seq = Len(events[cur[p].topic])
  BY <1>1, <1>2, <1>3 DEF TypeInv, SeqIsPosition
<1>5. \A q \in Publishers : Appended(q) => q = p
  BY DEF TypeInv, LockHeld, Appended
<1>. QED BY <1>1, <1>2, <1>3, <1>4, <1>5

(* A send puts the last event of the stream into one channel of its topic.    *)
LEMMA SendFacts ==
  ASSUME BaseInv, NEW p \in Publishers, VisitSub(p), Send(p)
  PROVE  LET u == target[p]
         IN  /\ u \in Subs /\ Pending(p, u)
             /\ Len(chan[u]) \in Nat /\ Len(chan'[u]) = Len(chan[u]) + 1
             /\ \A i \in 1 .. Len(chan[u]) : chan'[u][i] = chan[u][i]
             /\ chan'[u][Len(chan[u]) + 1] = Fanout(p)
             /\ \A s \in Subs : s # u => chan'[s] = chan[s]
             /\ \A q \in Publishers, s \in Subs :
                  Pending(q, s)' <=> Pending(q, s) /\ s # u
             /\ UNCHANGED <<registry, subTopic, phase, lag, job, list>>
             /\ UNCHANGED <<storeVars, publishVars, subscribeVars, historyVars>>
<1>. DEFINE u == target[p]
<1>1. /\ u \in Subs /\ pc[p] = "sending" /\ job[p] = Fanout(p) /\ Fanout(p) \in Frame
      /\ chan \in [Subs -> Seq(Frame)] /\ target \in [Publishers -> Subs \cup {None}]
      /\ \A s \in Subs : s # None
  BY NoneAssumption DEF BaseInv, TypeInv, BrokerTypeOK, HubTypeOK, LockHeld, Send, VisitSub, Fanout, Frame
<1>2. /\ chan' = [chan EXCEPT ![u] = Append(chan[u], Fanout(p))]
      /\ target' = [target EXCEPT ![p] = None]
      /\ UNCHANGED <<registry, subTopic, phase, lag, job, list>>
      /\ UNCHANGED <<storeVars, publishVars, subscribeVars, historyVars>>
  BY <1>1 DEF Send, VisitSub
<1>3. /\ Len(chan[u]) \in Nat /\ Len(Append(chan[u], Fanout(p))) = Len(chan[u]) + 1
      /\ \A i \in 1 .. Len(chan[u]) : Append(chan[u], Fanout(p))[i] = chan[u][i]
      /\ Append(chan[u], Fanout(p))[Len(chan[u]) + 1] = Fanout(p)
  BY <1>1, LenProperties, AppendProperties
<1>4. /\ Pending(p, u) /\ u \notin list[p]
      /\ \A q \in Publishers : Appended(q) => q = p
  BY <1>1 DEF BaseInv, TypeInv, LockHeld, HubInv, VisitsTopic, Owed, Pending, Appended, InCritical
<1>5. \A q \in Publishers, s \in Subs : Pending(q, s)' <=> Pending(q, s) /\ s # u
  BY <1>1, <1>2, <1>4 DEF publishVars, Pending, Appended, InCritical, Owed
<1>. QED BY <1>1, <1>2, <1>3, <1>4, <1>5
--------------------------------------------------------------------------------
(* What is delivered to one subscription, step by step.                       *)
LEMMA ChannelType ==
  ASSUME TypeInv, NEW s \in Subs
  PROVE  /\ Len(chan[s]) \in Nat /\ taken[s] \in Nat /\ seenTo[s] \in Nat
         /\ \A i \in 1 .. Len(chan[s]) : chan[s][i].event \in Event /\ chan[s][i].event.seq \in Nat
         /\ subTopic[s] \in Topics => Len(events[subTopic[s]]) \in Nat
<1>1. chan[s] \in Seq(Frame) /\ taken[s] \in Nat /\ seenTo[s] \in Nat /\ events \in [Topics -> Seq(Event)]
  BY DEF TypeInv, BrokerTypeOK, HubTypeOK
<1>2. \A i \in 1 .. Len(chan[s]) : chan[s][i] \in Frame
  BY <1>1, ElementOfSeq
<1>. QED BY <1>1, <1>2, LenProperties DEF Frame, Event

LEMMA OrderQuiet ==
  ASSUME NEW s \in Subs, OrderInv(s), Quiet,
         UNCHANGED <<subTopic, stage, backfill, fence, seenTo, taken>>
  PROVE  OrderInv(s)'
<1>. USE DEF OrderInv, Quiet
<1>1. FromStream(s)' /\ TakenFromStream(s)' /\ InOrder(s)'
  BY DEF FromStream, TakenFromStream, InOrder
<1>2. PendingIsLater(s)'
  <2>1. \A q \in Publishers : Pending(q, s)' => Pending(q, s) /\ cur'[q] = cur[q]
    BY DEF Pending
  <2>. QED BY <2>1 DEF PendingIsLater
<1>3. BackfillIsStretch(s)' /\ FenceOfEmpty(s)'
  BY DEF BackfillIsStretch, FenceOfEmpty
<1>4. MissesNothing(s)'
  BY DEF MissesNothing, Accounted
<1>. QED BY <1>1, <1>2, <1>3, <1>4

LEMMA OrderAppend ==
  ASSUME BaseInv, NEW s \in Subs, OrderInv(s), NEW p \in Publishers, AppendEvent(p)
  PROVE  OrderInv(s)'
<1>. DEFINE t == cur[p].topic
            n == Len(events[t])
<1>. USE DEF OrderInv
<1>1. TypeInv
  BY DEF BaseInv
<1>2. /\ t \in Topics /\ n \in Nat
      /\ \A u \in Topics : u # t => events'[u] = events[u]
      /\ Len(events'[t]) = n + 1
      /\ \A i \in 1 .. n : events'[t][i] = events[t][i]
      /\ cur'[p].topic = t /\ cur'[p].seq = n + 1
      /\ Appended(p)' /\ pc'[p] = "apply"
      /\ \A q \in Publishers : ~ Appended(q) /\ (Appended(q)' => q = p)
      /\ UNCHANGED <<chan, lag, subTopic, stage, backfill, fence, seenTo, taken>>
  BY <1>1, AppendFacts DEF hubVars, subscribeVars, historyVars
<1>. HIDE DEF t, n
<1>3. subTopic[s] \in Topics =>
        /\ Len(events[subTopic[s]]) \in Nat
        /\ \/ subTopic[s] = t /\ Len(events'[subTopic[s]]) = Len(events[subTopic[s]]) + 1
           \/ subTopic[s] # t /\ Len(events'[subTopic[s]]) = Len(events[subTopic[s]])
        /\ \A i \in 1 .. Len(events[subTopic[s]]) : events'[subTopic[s]][i] = events[subTopic[s]][i]
  <2>1. CASE subTopic[s] = t
    BY <1>2, <2>1 DEF n
  <2>2. CASE subTopic[s] # t
    BY <1>1, <1>2, <2>2, ChannelType
  <2>. QED BY <2>1, <2>2
<1>4. subTopic[s] \in Topics =>
        /\ \A i \in 1 .. Len(events[subTopic[s]]) : i \in 1 .. Len(events'[subTopic[s]])
        /\ \A i \in Nat : i <= Len(events[subTopic[s]]) => i <= Len(events'[subTopic[s]])
  <2>. DEFINE m == Len(events[subTopic[s]])
              mm == Len(events'[subTopic[s]])
  <2>1. subTopic[s] \in Topics => m \in Nat /\ (mm = m + 1 \/ mm = m)
    BY <1>3
  <2>. HIDE DEF m, mm
  <2>2. subTopic[s] \in Topics =>
          /\ \A i \in 1 .. m : i \in 1 .. mm
          /\ \A i \in Nat : i <= m => i <= mm
    BY <2>1
  <2>. QED BY <2>2 DEF m, mm
<1>5. FromStream(s)' /\ TakenFromStream(s)' /\ InOrder(s)'
  <2>1. FromStream(s)'
    <3>1. SUFFICES ASSUME NEW i \in 1 .. Len(chan[s])
                   PROVE  LET e == chan[s][i].event
                          IN  /\ subTopic[s] \in Topics
                              /\ e.seq \in 1 .. Len(events'[subTopic[s]])
                              /\ e = events'[subTopic[s]][e.seq]
      BY <1>2 DEF FromStream
    <3>2. /\ subTopic[s] \in Topics
          /\ chan[s][i].event.seq \in 1 .. Len(events[subTopic[s]])
          /\ chan[s][i].event = events[subTopic[s]][chan[s][i].event.seq]
      BY DEF FromStream
    <3>. QED BY <1>3, <1>4, <3>2
  <2>2. TakenFromStream(s)'
    <3>1. taken[s] \in Nat
      BY <1>1, ChannelType
    <3>. QED BY <1>2, <1>4, <3>1 DEF TakenFromStream
  <2>3. InOrder(s)'
    BY <1>2 DEF InOrder
  <2>. QED BY <2>1, <2>2, <2>3
<1>6. PendingIsLater(s)'
  <2>1. SUFFICES ASSUME NEW q \in Publishers, Pending(q, s)'
                 PROVE  /\ taken[s] < cur'[q].seq
                        /\ \A i \in 1 .. Len(chan[s]) : chan[s][i].event.seq < cur'[q].seq
    BY <1>2 DEF PendingIsLater
  <2>2. q = p /\ subTopic[s] = t
    BY <1>2, <2>1 DEF Pending
  <2>3. taken[s] <= n /\ \A i \in 1 .. Len(chan[s]) : chan[s][i].event.seq <= n
    BY <1>1, <1>2, <2>2, ChannelType DEF FromStream, TakenFromStream, n
  <2>. QED BY <1>1, <1>2, <2>2, <2>3, ChannelType
<1>7. BackfillIsStretch(s)' /\ FenceOfEmpty(s)'
  <2>1. FenceOfEmpty(s)'
    BY <1>2 DEF FenceOfEmpty
  <2>2. SUFFICES ASSUME stage[s] = "live", backfill[s] # <<>>
                 PROVE  /\ fence[s] \in Len(backfill[s]) .. Len(events'[subTopic[s]])
                        /\ \A j \in 1 .. Len(backfill[s]) :
                             backfill[s][j] = events'[subTopic[s]][fence[s] - Len(backfill[s]) + j]
    BY <1>2, <2>1 DEF BackfillIsStretch
  <2>3. subTopic[s] \in Topics /\ Len(backfill[s]) \in Nat
    BY <1>1, <2>2, LenProperties DEF TypeInv, BrokerTypeOK, LockHeld
  <2>4. /\ fence[s] \in Len(backfill[s]) .. Len(events[subTopic[s]])
        /\ \A j \in 1 .. Len(backfill[s]) :
             /\ backfill[s][j] = events[subTopic[s]][fence[s] - Len(backfill[s]) + j]
             /\ fence[s] - Len(backfill[s]) + j \in 1 .. Len(events[subTopic[s]])
    BY <1>3, <2>2, <2>3 DEF BackfillIsStretch
  <2>5. fence[s] \in Nat
    BY <1>1 DEF TypeInv, BrokerTypeOK
  <2>6. fence[s] <= Len(events'[subTopic[s]])
    BY <1>4, <2>3, <2>4, <2>5
  <2>7. Len(events'[subTopic[s]]) \in Nat
    BY <1>3, <2>3
  <2>. QED BY <1>3, <2>3, <2>4, <2>5, <2>6, <2>7
<1>8. MissesNothing(s)'
  <2>1. SUFFICES ASSUME stage[s] = "live", lag[s] = 0, NEW k \in 1 .. Len(events'[subTopic[s]])
                 PROVE  Accounted(s, k)'
    BY <1>2 DEF MissesNothing
  <2>2. subTopic[s] \in Topics
    BY <1>1, <2>1 DEF TypeInv, LockHeld
  <2>3. CASE k <= Len(events[subTopic[s]])
    <3>1. k \in 1 .. Len(events[subTopic[s]])
      BY <1>3, <2>2, <2>3
    <3>2. Accounted(s, k)
      BY <2>1, <3>1 DEF MissesNothing
    <3>. QED BY <1>2, <3>2 DEF Accounted, Pending
  <2>4. CASE k > Len(events[subTopic[s]])
    <3>1. subTopic[s] = t /\ k = Len(events'[subTopic[s]])
      <4>. DEFINE m == Len(events[subTopic[s]])
                  mm == Len(events'[subTopic[s]])
      <4>1. /\ m \in Nat /\ k \in 1 .. mm /\ k > m
            /\ (subTopic[s] = t /\ mm = m + 1) \/ (subTopic[s] # t /\ mm = m)
        BY <1>3, <2>1, <2>2, <2>4
      <4>. HIDE DEF m, mm
      <4>2. subTopic[s] = t /\ k = mm
        BY <4>1
      <4>. QED BY <4>2 DEF mm
    <3>2. Pending(p, s)'
      BY <1>2, <3>1 DEF Pending
    <3>. QED BY <1>2, <3>1, <3>2 DEF Accounted
  <2>. QED BY <1>3, <2>1, <2>2, <2>3, <2>4
<1>. QED BY <1>5, <1>6, <1>7, <1>8

LEMMA OrderSend ==
  ASSUME BaseInv, NEW s \in Subs, OrderInv(s), NEW p \in Publishers, VisitSub(p), Send(p)
  PROVE  OrderInv(s)'
<1>. DEFINE u == target[p]
<1>. USE DEF OrderInv
<1>1. /\ u \in Subs /\ Pending(p, u)
      /\ Len(chan[u]) \in Nat /\ Len(chan'[u]) = Len(chan[u]) + 1
      /\ \A i \in 1 .. Len(chan[u]) : chan'[u][i] = chan[u][i]
      /\ chan'[u][Len(chan[u]) + 1].event = cur[p]
      /\ \A r \in Subs : r # u => chan'[r] = chan[r]
      /\ \A q \in Publishers, r \in Subs : Pending(q, r)' <=> Pending(q, r) /\ r # u
      /\ UNCHANGED <<subTopic, lag, events, cur, stage, backfill, fence, seenTo, taken>>
  <2>1. Fanout(p).event = cur[p]
    BY DEF Fanout
  <2>2. UNCHANGED <<subTopic, lag, events, cur, stage, backfill, fence, seenTo, taken>>
    BY SendFacts DEF storeVars, publishVars, subscribeVars, historyVars
  <2>. QED BY SendFacts, <2>1, <2>2
<1>2. /\ cur[p].topic = subTopic[u] /\ cur[p].topic \in Topics
      /\ Len(events[subTopic[u]]) \in Nat \ {0}
      /\ cur[p] = events[subTopic[u]][Len(events[subTopic[u]])]
      /\ cur[p].seq = Len(events[subTopic[u]])
      /\ \A q \in Publishers : Pending(q, u) => q = p
  BY <1>1, AppendedIsLast DEF BaseInv, Pending
<1>. HIDE DEF u
<1>3. BackfillIsStretch(s)' /\ FenceOfEmpty(s)' /\ TakenFromStream(s)'
  BY <1>1 DEF BackfillIsStretch, FenceOfEmpty, TakenFromStream
<1>4. CASE s # u
  <2>1. FromStream(s)' /\ InOrder(s)' /\ PendingIsLater(s)'
    BY <1>1, <1>4 DEF FromStream, InOrder, PendingIsLater
  <2>2. MissesNothing(s)'
    BY <1>1, <1>4 DEF MissesNothing, Accounted
  <2>. QED BY <1>3, <2>1, <2>2
<1>5. CASE s = u
  <2>. DEFINE n == Len(chan[s])
  <2>1. /\ n \in Nat /\ taken[s] < cur[p].seq
        /\ \A i \in 1 .. n : chan[s][i].event.seq < cur[p].seq
    BY <1>1, <1>5 DEF PendingIsLater
  <2>2. /\ Len(chan'[s]) = n + 1
        /\ \A i \in 1 .. n + 1 :
             \/ i \in 1 .. n /\ chan'[s][i] = chan[s][i]
             \/ i = n + 1 /\ chan'[s][i].event = cur[p]
    BY <1>1, <1>5
  <2>. HIDE DEF n
  <2>3. FromStream(s)'
    <3>1. SUFFICES ASSUME NEW i \in 1 .. n + 1
                   PROVE  LET e == chan'[s][i].event
                          IN  /\ subTopic[s] \in Topics
                              /\ e.seq \in 1 .. Len(events[subTopic[s]])
                              /\ e = events[subTopic[s]][e.seq]
      BY <1>1, <2>2 DEF FromStream
    <3>2. CASE i \in 1 .. n
      BY <2>1, <2>2, <3>2 DEF FromStream, n
    <3>3. CASE i = n + 1
      BY <1>2, <1>5, <2>1, <2>2, <3>3
    <3>. QED BY <2>2, <3>2, <3>3
  <2>4. InOrder(s)'
    <3>1. ASSUME NEW i \in 1 .. n + 1, NEW j \in 1 .. n + 1, i < j
          PROVE  chan'[s][i].event.seq < chan'[s][j].event.seq
      <4>1. i \in 1 .. n /\ chan'[s][i] = chan[s][i]
        BY <2>1, <2>2, <3>1
      <4>2. CASE j = n + 1
        BY <2>1, <2>2, <4>1, <4>2
      <4>3. CASE j # n + 1
        BY <2>1, <2>2, <3>1, <4>1, <4>3 DEF InOrder, n
      <4>. QED BY <4>2, <4>3
    <3>2. \A i \in 1 .. n + 1 : taken[s] < chan'[s][i].event.seq
      BY <2>1, <2>2 DEF InOrder, n
    <3>. QED BY <1>1, <2>2, <3>1, <3>2 DEF InOrder
  <2>5. PendingIsLater(s)'
    BY <1>1, <1>5 DEF PendingIsLater
  <2>6. MissesNothing(s)'
    <3>1. SUFFICES ASSUME stage[s] = "live", lag[s] = 0, NEW k \in 1 .. Len(events[subTopic[s]])
                   PROVE  Accounted(s, k)'
      BY <1>1 DEF MissesNothing
    <3>2. Accounted(s, k)
      BY <3>1 DEF MissesNothing
    <3>3. CASE k = Len(events[subTopic[s]])
      BY <1>1, <1>2, <1>5, <2>1, <2>2, <3>3 DEF Accounted
    <3>4. CASE k # Len(events[subTopic[s]])
      <4>1. ASSUME NEW i \in 1 .. n, chan[s][i].event.seq = k PROVE Accounted(s, k)'
        <5>1. i \in 1 .. Len(chan'[s]) /\ chan'[s][i] = chan[s][i]
          BY <2>1, <2>2
        <5>. QED BY <4>1, <5>1 DEF Accounted
      <4>. QED BY <1>1, <3>2, <3>4, <4>1 DEF Accounted, n
    <3>. QED BY <3>3, <3>4
  <2>. QED BY <1>3, <2>3, <2>4, <2>5, <2>6
<1>. QED BY <1>4, <1>5
(* A step of another subscriber, or of a subscription's own Close.            *)
LEMMA OrderOther ==
  ASSUME NEW s \in Subs, OrderInv(s),
         subTopic'[s] = subTopic[s], chan'[s] = chan[s], taken'[s] = taken[s],
         lag' = lag, backfill'[s] = backfill[s], fence'[s] = fence[s], seenTo'[s] = seenTo[s],
         stage'[s] = "live" => stage[s] = "live",
         UNCHANGED <<events, pc, cur, list, target>>
  PROVE  OrderInv(s)'
<1>. USE DEF OrderInv
<1>1. \A q \in Publishers : Pending(q, s)' <=> Pending(q, s)
  BY DEF Pending, Appended, InCritical, Owed
<1>2. FromStream(s)' /\ TakenFromStream(s)' /\ InOrder(s)'
  BY DEF FromStream, TakenFromStream, InOrder
<1>3. PendingIsLater(s)'
  BY <1>1 DEF PendingIsLater
<1>4. BackfillIsStretch(s)' /\ FenceOfEmpty(s)'
  BY DEF BackfillIsStretch, FenceOfEmpty
<1>5. MissesNothing(s)'
  BY <1>1 DEF MissesNothing, Accounted
<1>. QED BY <1>2, <1>3, <1>4, <1>5

(* A new subscription has an empty channel and nothing taken from it.         *)
LEMMA OrderSubscribe ==
  ASSUME BaseInv, NEW s \in Subs, OrderInv(s), NEW t \in Topics, NEW from \in From,
         SubscribeHub(s, t, from)
  PROVE  OrderInv(s)'
<1>. USE DEF OrderInv
<1>1. TypeInv /\ OnLast
  BY DEF BaseInv
<1>2. /\ UNCHANGED <<storeVars, publishVars, chan, lag, list, target, taken>>
      /\ stage'[s] = "read"
      /\ subTopic[s] = None
  BY <1>1 DEF SubscribeHub, HubSubscribe, historyVars, BaseInv, HubInv, StageIsPhase, TypeInv, BrokerTypeOK
<1>3. Len(chan[s]) = 0 /\ taken[s] = 0
  <2>1. Len(chan[s]) \in Nat
    BY <1>1, ChannelType
  <2>2. \A i \in 1 .. Len(chan[s]) : FALSE
    BY <1>2, NoneAssumption DEF FromStream
  <2>3. taken[s] = 0
    BY <1>2, NoneAssumption DEF TakenFromStream
  <2>. QED BY <2>1, <2>2, <2>3
<1>4. FromStream(s)' /\ TakenFromStream(s)' /\ InOrder(s)'
  BY <1>2, <1>3 DEF FromStream, TakenFromStream, InOrder
<1>5. PendingIsLater(s)'
  <2>1. \A p \in Publishers : Appended(p) => taken[s] < cur[p].seq
    BY <1>1, <1>3, AppendedIsLast
  <2>2. \A p \in Publishers : Pending(p, s)' => Appended(p)
    BY <1>2 DEF Pending, Appended, InCritical, publishVars
  <2>. QED BY <1>2, <1>3, <2>1, <2>2 DEF PendingIsLater, publishVars
<1>6. BackfillIsStretch(s)' /\ FenceOfEmpty(s)' /\ MissesNothing(s)'
  BY <1>2 DEF BackfillIsStretch, FenceOfEmpty, MissesNothing
<1>. QED BY <1>4, <1>5, <1>6

(* Read and Latest return the end of the stream.                              *)
LEMMA BackfillStretch ==
  ASSUME TypeInv, NEW t \in Topics, NEW from \in From, Backfill(t, from) # <<>>
  PROVE  LET b == Backfill(t, from)
             log == events[t]
         IN  /\ Len(b) \in 1 .. Len(log)
             /\ \A j \in 1 .. Len(b) : b[j] = log[Len(log) - Len(b) + j]
<1>. DEFINE log == events[t]
            k == from.value
            b == Backfill(t, from)
            Stretch(c) == /\ Len(c) \in 1 .. Len(log)
                          /\ \A j \in 1 .. Len(c) : c[j] = log[Len(log) - Len(c) + j]
<1>1. /\ events \in [Topics -> Seq(Event)] /\ SeqIsPosition
      /\ log \in Seq(Event) /\ Len(log) \in Nat /\ k \in Nat
  BY LenProperties DEF TypeInv, BrokerTypeOK, From
<1>. HIDE DEF k
<1>2. ASSUME NEW m \in 1 .. Len(log) + 1, SubSeq(log, m, Len(log)) # <<>>
      PROVE  Stretch(SubSeq(log, m, Len(log)))
  <2>. DEFINE c == SubSeq(log, m, Len(log))
              n == Len(log)
  <2>1. \A i \in m .. n : log[i] \in Event
    BY <1>1, ElementOfSeq
  <2>2. /\ c \in Seq(Event)
        /\ Len(c) = IF m <= n THEN n - m + 1 ELSE 0
        /\ \A i \in 1 .. n - m + 1 : c[i] = log[m + i - 1]
    BY <1>1, <2>1, SubSeqProperties
  <2>3. Len(c) # 0
    BY <1>2, <2>2, EmptySeq
  <2>. HIDE DEF c, n
  <2>4. n \in Nat /\ m \in 1 .. n + 1
    BY <1>1 DEF n
  <2>5. m <= n /\ Len(c) = n - m + 1
    BY <2>2, <2>3
  <2>6. Len(c) \in 1 .. n /\ \A j \in 1 .. Len(c) : c[j] = log[m + j - 1] /\ m + j - 1 = n - Len(c) + j
    <3>1. n - m + 1 \in 1 .. n
      BY <2>4, <2>5
    <3>2. \A j \in 1 .. n - m + 1 : m + j - 1 = n - (n - m + 1) + j
      BY <2>4
    <3>. QED BY <2>2, <2>5, <3>1, <3>2
  <2>. QED BY <2>6 DEF c, n
<1>3. log # <<>> => Stretch(log)
  <2>1. log # <<>> => Len(log) # 0
    BY <1>1, EmptySeq
  <2>2. \A j \in 1 .. Len(log) : Len(log) - Len(log) + j = j
    BY <1>1
  <2>. QED BY <1>1, <2>1, <2>2
<1>4. CASE b = Latest(t, k)
  <2>1. CASE k > 0 /\ Len(log) > k
    <3>1. Len(log) - k + 1 \in 1 .. Len(log) + 1
      BY <1>1, <2>1
    <3>2. b = SubSeq(log, Len(log) - k + 1, Len(log))
      BY <1>4, <2>1 DEF Latest
    <3>. QED BY <1>2, <3>1, <3>2
  <2>2. CASE ~ (k > 0 /\ Len(log) > k)
    <3>1. b = log
      BY <1>4, <2>2 DEF Latest
    <3>. QED BY <1>3, <3>1
  <2>. QED BY <2>1, <2>2
<1>5. CASE b = Read(t, k)
  <2>1. SearchSeq(t, k) \in 1 .. Len(log) + 1
    BY <1>1, SearchType
  <2>. QED BY <1>2, <1>5, <2>1 DEF Read
<1>. QED BY <1>4, <1>5 DEF Backfill, From, k

(* Reading the backfill accounts for every event of the stream.               *)
LEMMA OrderRead ==
  ASSUME BaseInv, NEW s \in Subs, OrderInv(s), ReadBackfill(s)
  PROVE  OrderInv(s)'
<1>. DEFINE t == subTopic[s]
            b == Backfill(t, want[s])
            log == events[t]
<1>. USE DEF OrderInv
<1>1. TypeInv
  BY DEF BaseInv
<1>2. /\ stage[s] = "read" /\ t \in Topics /\ want[s] \in From
      /\ log \in Seq(Event) /\ Len(log) \in Nat
      /\ backfill'[s] = b /\ fence'[s] = FenceOf(b) /\ seenTo'[s] = Len(log)
      /\ UNCHANGED <<hubVars, storeVars, publishVars, taken>>
  BY <1>1, LenProperties DEF ReadBackfill, TypeInv, BrokerTypeOK, LockHeld
<1>3. FromStream(s)' /\ TakenFromStream(s)' /\ InOrder(s)'
  BY <1>2 DEF FromStream, TakenFromStream, InOrder, hubVars, storeVars
<1>4. PendingIsLater(s)'
  BY <1>2 DEF PendingIsLater, Pending, Appended, InCritical, Owed, hubVars, publishVars
<1>5. FenceOfEmpty(s)'
  BY <1>2 DEF FenceOfEmpty, FenceOf
<1>6. BackfillIsStretch(s)'
  <2>1. SUFFICES ASSUME b # <<>>
                 PROVE  /\ FenceOf(b) \in Len(b) .. Len(log)
                        /\ \A j \in 1 .. Len(b) : b[j] = log[FenceOf(b) - Len(b) + j]
    BY <1>2 DEF BackfillIsStretch, hubVars, storeVars
  <2>2. /\ Len(b) \in 1 .. Len(log)
        /\ \A j \in 1 .. Len(b) : b[j] = log[Len(log) - Len(b) + j]
    BY <1>1, <1>2, <2>1, BackfillStretch
  <2>. HIDE DEF b, log
  <2>3. b[Len(b)] = log[Len(log)]
    <3>1. Len(b) \in 1 .. Len(b) /\ Len(log) - Len(b) + Len(b) = Len(log)
      BY <1>2, <2>2
    <3>. QED BY <2>2, <3>1
  <2>4. FenceOf(b) = Len(log)
    <3>1. log[Len(log)].seq = Len(log)
      BY <1>1, <1>2, <2>2 DEF TypeInv, SeqIsPosition, log
    <3>. QED BY <2>1, <2>3, <3>1 DEF FenceOf
  <2>. QED BY <1>2, <2>2, <2>4
<1>7. MissesNothing(s)'
  BY <1>2 DEF MissesNothing, Accounted, hubVars, storeVars
<1>. QED BY <1>3, <1>4, <1>5, <1>6, <1>7
(* Receiving moves the oldest waiting event to what was taken.                *)
LEMMA OrderTake ==
  ASSUME BaseInv, NEW s \in Subs, OrderInv(s), Take(s)
  PROVE  OrderInv(s)'
<1>. DEFINE n == Len(chan[s])
<1>. USE DEF OrderInv
<1>1. TypeInv
  BY DEF BaseInv
<1>2. /\ UNCHANGED <<subTopic, lag, list, target>>
      /\ UNCHANGED <<storeVars, publishVars, subscribeVars, seenTo>>
      /\ n \in Nat \ {0} /\ Len(chan'[s]) = n - 1
      /\ \A i \in 1 .. n - 1 : chan'[s][i] = chan[s][i + 1]
      /\ taken'[s] = chan[s][1].event.seq
  <2>1. chan \in [Subs -> Seq(Frame)] /\ taken \in [Subs -> Nat] /\ chan[s] # <<>>
    BY <1>1 DEF TypeInv, BrokerTypeOK, HubTypeOK, Take, Receive
  <2>2. /\ n \in Nat \ {0}
        /\ Len(Tail(chan[s])) = n - 1
        /\ \A i \in 1 .. Len(Tail(chan[s])) : Tail(chan[s])[i] = chan[s][i + 1]
        /\ Head(chan[s]) = chan[s][1]
    BY <2>1, HeadTailProperties, EmptySeq, LenProperties
  <2>. QED BY <2>1, <2>2 DEF Take, Receive
<1>3. \A i \in 1 .. n : chan[s][i].event.seq \in Nat
  BY <1>1, ChannelType
<1>. HIDE DEF n
<1>4. \A i \in 1 .. n - 1 : i \in 1 .. n /\ i + 1 \in 1 .. n /\ 1 < i + 1
  BY <1>2
<1>5. FromStream(s)' /\ TakenFromStream(s)'
  <2>1. FromStream(s)'
    <3>1. SUFFICES ASSUME NEW i \in 1 .. n - 1
                   PROVE  LET e == chan'[s][i].event
                          IN  /\ subTopic[s] \in Topics
                              /\ e.seq \in 1 .. Len(events[subTopic[s]])
                              /\ e = events[subTopic[s]][e.seq]
      BY <1>2 DEF FromStream, storeVars
    <3>2. i + 1 \in 1 .. Len(chan[s]) /\ chan'[s][i] = chan[s][i + 1]
      BY <1>2, <1>4 DEF n
    <3>. QED BY <3>2 DEF FromStream
  <2>2. 1 \in 1 .. n
    BY <1>2
  <2>3. subTopic[s] \in Topics /\ taken'[s] \in 1 .. Len(events[subTopic[s]])
    BY <1>2, <2>2 DEF FromStream, n
  <2>. QED BY <1>2, <2>1, <2>3 DEF TakenFromStream, storeVars
<1>6. InOrder(s)'
  <2>1. 1 \in 1 .. n
    BY <1>2
  <2>2. \A i \in 1 .. n - 1 : taken'[s] < chan'[s][i].event.seq
    BY <1>2, <1>4, <2>1 DEF InOrder, n
  <2>3. \A i, j \in 1 .. n - 1 : i < j => i + 1 < j + 1
    BY <1>2
  <2>4. \A i, j \in 1 .. n - 1 : i < j => chan'[s][i].event.seq < chan'[s][j].event.seq
    BY <1>2, <1>4, <2>3 DEF InOrder, n
  <2>. QED BY <1>2, <2>2, <2>4 DEF InOrder
<1>7. PendingIsLater(s)'
  <2>1. \A q \in Publishers : Pending(q, s)' <=> Pending(q, s)
    BY <1>2 DEF Pending, Appended, InCritical, Owed, publishVars
  <2>2. 1 \in 1 .. n
    BY <1>2
  <2>. QED BY <1>2, <1>4, <2>1, <2>2 DEF PendingIsLater, n, publishVars
<1>8. BackfillIsStretch(s)' /\ FenceOfEmpty(s)'
  BY <1>2 DEF BackfillIsStretch, FenceOfEmpty, storeVars, subscribeVars
<1>9. MissesNothing(s)'
  <2>1. SUFFICES ASSUME stage[s] = "live", lag[s] = 0, NEW k \in 1 .. Len(events[subTopic[s]])
                 PROVE  Accounted(s, k)'
    BY <1>2 DEF MissesNothing, storeVars, subscribeVars
  <2>2. Accounted(s, k)
    BY <2>1 DEF MissesNothing
  <2>3. CASE k <= seenTo[s]
    BY <1>2, <2>3 DEF Accounted
  <2>4. CASE k <= taken[s]
    <3>1. 1 \in 1 .. n /\ taken[s] < taken'[s]
      BY <1>2 DEF InOrder, n
    <3>2. k \in Nat /\ taken[s] \in Nat /\ taken'[s] \in Nat
      BY <1>1, <1>2, <1>3, <3>1, ChannelType
    <3>3. k <= taken'[s]
      BY <2>4, <3>1, <3>2
    <3>. QED BY <3>3 DEF Accounted
  <2>5. ASSUME NEW i \in 1 .. n, chan[s][i].event.seq = k PROVE Accounted(s, k)'
    <3>1. CASE i = 1
      BY <1>2, <2>5, <3>1 DEF Accounted
    <3>2. CASE i # 1
      <4>1. i - 1 \in 1 .. n - 1 /\ (i - 1) + 1 = i
        BY <1>2, <3>2
      <4>2. chan'[s][i - 1].event.seq = k
        BY <1>2, <2>5, <4>1
      <4>. QED BY <1>2, <4>1, <4>2 DEF Accounted
    <3>. QED BY <3>1, <3>2
  <2>6. ASSUME k = Len(events[subTopic[s]]), NEW q \in Publishers, Pending(q, s)
        PROVE  Accounted(s, k)'
    <3>1. Pending(q, s)'
      BY <1>2, <2>6 DEF Pending, Appended, InCritical, Owed, publishVars
    <3>. QED BY <1>2, <2>6, <3>1 DEF Accounted, storeVars
  <2>. QED BY <2>2, <2>3, <2>4, <2>5, <2>6 DEF Accounted, n
<1>. QED BY <1>5, <1>6, <1>7, <1>8, <1>9

--------------------------------------------------------------------------------
(* The invariant.                                                             *)
LEMMA BaseInit == BrokerInit => BaseInv /\ \A s \in Subs : OrderInv(s)
<1>. SUFFICES ASSUME BrokerInit PROVE BaseInv /\ \A s \in Subs : OrderInv(s)
  OBVIOUS
<1>1. TypeInv
  BY TypeInit
<1>. USE NoneAssumption DEF BrokerInit, HubInit
<1>2. RegistryExact /\ StageIsPhase /\ VisitsTopic
  BY DEF RegistryExact, StageIsPhase, VisitsTopic, Owed
<1>3. OnLast
  BY DEF OnLast, WorksOnLast, Appended, InCritical
<1>4. ASSUME NEW s \in Subs PROVE OrderInv(s)
  <2>1. Len(chan[s]) = 0 /\ taken[s] = 0 /\ stage[s] = "none" /\ \A p \in Publishers : ~ Pending(p, s)
    BY EmptySeq DEF Pending, Appended, InCritical
  <2>. QED
    BY <2>1
       DEF OrderInv, FromStream, TakenFromStream, PendingIsLater, InOrder, BackfillIsStretch,
           FenceOfEmpty, MissesNothing
<1>. QED BY <1>1, <1>2, <1>3, <1>4 DEF BaseInv, HubInv

LEMMA BaseStep ==
  ASSUME BaseInv, BrokerAct
  PROVE  BaseInv'
BY TypeStep, RegistryStep, StageStep, VisitsStep, LastStep DEF BaseInv, HubInv

LEMMA OrderStep ==
  ASSUME BaseInv, NEW s \in Subs, OrderInv(s), BrokerAct
  PROVE  OrderInv(s)'
<1>1. ASSUME NEW p \in Publishers, PublisherAct(p) PROVE OrderInv(s)'
  BY <1>1, PublisherFrame, PublisherCases, OrderAppend, OrderSend, OrderQuiet DEF BaseInv
<1>2. ASSUME NEW r \in Subs, SubscriberAct(r) PROVE OrderInv(s)'
  <2>1. UNCHANGED <<events, pc, cur, list, target, lag>>
    BY <1>2, SubscriberFrame DEF storeVars, publishVars
  <2>2. CASE r = s
    <3>1. ASSUME NEW t \in Topics, NEW from \in From, SubscribeHub(s, t, from) PROVE OrderInv(s)'
      BY <3>1, OrderSubscribe
    <3>2. CASE ReadFails(s) \/ Unsubscribe(s) \/ FinishClose(s)
      <4>1. /\ UNCHANGED <<subTopic, chan, taken, backfill, fence, seenTo>>
            /\ stage'[s] = "live" => stage[s] = "live"
        BY <3>2
           DEF ReadFails, Unsubscribe, FinishClose, CloseSwap, CloseRemove, CloseDone, subscribeVars,
               historyVars, BaseInv, TypeInv, BrokerTypeOK
      <4>. QED BY <2>1, <4>1, OrderOther
    <3>. QED
      BY <1>2, <2>2, <3>1, <3>2, OrderRead, OrderTake DEF SubscriberAct, SubscribeStep, Consume
  <2>3. CASE r # s
    <3>. DEFINE Same == /\ subTopic'[s] = subTopic[s] /\ chan'[s] = chan[s] /\ taken'[s] = taken[s]
                        /\ backfill'[s] = backfill[s] /\ fence'[s] = fence[s]
                        /\ seenTo'[s] = seenTo[s] /\ stage'[s] = stage[s]
    <3>1. Same
      <4>. USE DEF BaseInv, TypeInv, BrokerTypeOK, HubTypeOK
      <4>1. ASSUME NEW t \in Topics, NEW from \in From, SubscribeHub(r, t, from) PROVE Same
        BY <2>3, <4>1 DEF SubscribeHub, HubSubscribe, historyVars
      <4>2. CASE ReadBackfill(r)
        BY <2>3, <4>2 DEF ReadBackfill, hubVars
      <4>3. CASE ReadFails(r) \/ Unsubscribe(r) \/ FinishClose(r)
        BY <2>3, <4>3
           DEF ReadFails, Unsubscribe, FinishClose, CloseSwap, CloseRemove, CloseDone,
               subscribeVars, historyVars
      <4>4. CASE Consume(r)
        BY <2>3, <4>4 DEF Consume, Take, Receive, subscribeVars
      <4>. QED BY <1>2, <4>1, <4>2, <4>3, <4>4 DEF SubscriberAct, SubscribeStep
    <3>. QED BY <2>1, <3>1, OrderOther
  <2>. QED BY <2>2, <2>3
<1>3. CASE UNCHANGED brokerVars
  BY <1>3, OrderOther DEF brokerVars, hubVars, storeVars, publishVars, subscribeVars, historyVars
<1>. QED BY <1>1, <1>2, <1>3 DEF BrokerAct

LEMMA DeliveryInvariant == BrokerSpec => []DInv
<1>1. BrokerInit => DInv
  BY BaseInit DEF DInv
<1>2. DInv /\ [BrokerNext]_brokerVars => DInv'
  BY BaseStep, OrderStep, NextIsAct DEF DInv
<1>. QED BY <1>1, <1>2, PTL DEF BrokerSpec

(* The registry of the hub lists a subscription under its topic, and nowhere  *)
(* else, from Subscribe until hub.remove, while the broker publishes, closes  *)
(* and fails as it may (hub.go:34-40, 63-94).                                 *)
THEOREM BrokerRegistryExact == BrokerSpec => []RegistryExact
<1>1. DInv => RegistryExact
  BY DEF DInv, BaseInv, HubInv
<1>. QED BY <1>1, DeliveryInvariant, PTL

(* Live events of a topic reach every subscription in stream order, whichever *)
(* store calls fail (broker.go:1-4, 55-61).                                   *)
THEOREM DeliveryInOrder == BrokerSpec => []LiveInOrder
<1>1. DInv => LiveInOrder
  BY DEF DInv, OrderInv, LiveInOrder
<1>. QED BY <1>1, DeliveryInvariant, PTL

(* As long as the hub dropped nothing for it, an open subscription misses no  *)
(* event between its backfill and its channel, nor later                      *)
(* (broker.go:98-115, hub.go:99-119).                                         *)
THEOREM DeliveryComplete == BrokerSpec => []NothingMissed
<1>1. DInv => NothingMissed
  BY DEF DInv, OrderInv, NothingMissed
<1>. QED BY <1>1, DeliveryInvariant, PTL

(* A stretch of m events of n that ends at the f-th, and the q-th event.      *)
LEMMA Stretches ==
  ASSUME NEW m \in Nat \ {0}, NEW n \in Nat, NEW f \in m .. n, NEW q \in 1 .. n
  PROVE  /\ \A j \in 1 .. m : f - m + j \in 1 .. n /\ f - m + j <= f
         /\ f - m < q /\ q <= f => q - (f - m) \in 1 .. m /\ f - m + (q - (f - m)) = q
         /\ ~ (f - m < q) => f - m + 1 > q
OBVIOUS

(* The fence is exact: since the backfill is the stretch of the stream that   *)
(* ends at the fence and a live event has its position as its seq, an event   *)
(* is in both only at or below the fence (broker.go:86-89, 113-115).          *)
THEOREM FenceIsExact == BrokerSpec => []FenceSeparates
<1>1. ASSUME DInv PROVE FenceSeparates
  <2>1. SUFFICES ASSUME NEW s \in Subs, stage[s] = "live", NEW i \in 1 .. Len(chan[s])
                 PROVE  LET e == chan[s][i].event
                        IN  /\ InBackfill(s, e) => e.seq <= fence[s]
                            /\ e.seq <= fence[s] /\ ~ InBackfill(s, e) => backfill[s][1].seq > e.seq
    BY DEF FenceSeparates
  <2>. DEFINE e == chan[s][i].event
              log == events[subTopic[s]]
              b == backfill[s]
  <2>2. TypeInv /\ OrderInv(s)
    BY <1>1 DEF DInv, BaseInv
  <2>3. /\ subTopic[s] \in Topics /\ b \in Seq(Event) /\ Len(b) \in Nat /\ fence[s] \in Nat
        /\ Len(log) \in Nat /\ \A k \in 1 .. Len(log) : log[k].seq = k
    BY <2>1, <2>2, LenProperties DEF TypeInv, BrokerTypeOK, LockHeld, SeqIsPosition
  <2>4. e.seq \in 1 .. Len(log) /\ e = log[e.seq]
    BY <2>2 DEF OrderInv, FromStream
  <2>5. CASE b = <<>>
    BY <2>1, <2>2, <2>4, <2>5, EmptySeq DEF InBackfill, OrderInv, FenceOfEmpty
  <2>6. CASE b # <<>>
    <3>1. /\ Len(b) \in Nat \ {0}
          /\ fence[s] \in Len(b) .. Len(log)
          /\ \A j \in 1 .. Len(b) : b[j] = log[fence[s] - Len(b) + j]
      <4>1. Len(b) # 0
        BY <2>3, <2>6, EmptySeq
      <4>. QED BY <2>1, <2>2, <2>3, <2>6, <4>1 DEF OrderInv, BackfillIsStretch
    <3>2. e.seq \in 1 .. Len(log) /\ 1 \in 1 .. Len(b)
      BY <2>4, <3>1
    <3>. DEFINE m == Len(b)
                f == fence[s]
    <3>3. /\ \A j \in 1 .. m : f - m + j \in 1 .. Len(log) /\ f - m + j <= f
          /\ f - m < e.seq /\ e.seq <= f => e.seq - (f - m) \in 1 .. m /\ f - m + (e.seq - (f - m)) = e.seq
          /\ ~ (f - m < e.seq) => f - m + 1 > e.seq
      BY <2>3, <3>1, <3>2, Stretches
    <3>4. \A j \in 1 .. m : b[j].seq = f - m + j
      BY <2>3, <3>1, <3>3
    <3>. HIDE DEF m, f
    <3>5. ASSUME InBackfill(s, e) PROVE e.seq <= f
      <4>1. PICK j \in 1 .. m : b[j] = e
        BY <3>5 DEF InBackfill, m
      <4>. QED BY <3>3, <3>4, <4>1
    <3>6. ASSUME e.seq <= f, ~ InBackfill(s, e) PROVE b[1].seq > e.seq
      <4>1. CASE f - m < e.seq
        <5>1. b[e.seq - (f - m)] = e
          BY <2>4, <3>1, <3>3, <3>6, <4>1 DEF m, f
        <5>. QED BY <3>3, <3>6, <4>1, <5>1 DEF InBackfill, m
      <4>2. CASE ~ (f - m < e.seq)
        BY <3>2, <3>3, <3>4, <4>2 DEF m
      <4>. QED BY <4>1, <4>2
    <3>. QED BY <3>5, <3>6 DEF f
  <2>. QED BY <2>5, <2>6
<1>. QED BY <1>1, DeliveryInvariant, PTL
--------------------------------------------------------------------------------
(* The state a live event carries.                                            *)

(* An event in a channel is of the topic it was published to, and the part of *)
(* the stream up to it never changes.                                         *)
LEMMA FrameTopic ==
  ASSUME TypeInv, NEW s \in Subs, FromStream(s), NEW i \in 1 .. Len(chan[s])
  PROVE  LET e == chan[s][i].event
         IN  e.topic \in Topics /\ e.seq \in 1 .. Len(events[e.topic])
<1>. DEFINE e == chan[s][i].event
            t == subTopic[s]
<1>1. t \in Topics /\ e.seq \in 1 .. Len(events[t]) /\ e = events[t][e.seq]
  BY DEF FromStream
<1>2. SeqIsPosition
  BY DEF TypeInv
<1>. HIDE DEF e, t
<1>3. e.topic = t
  BY <1>1, <1>2 DEF SeqIsPosition
<1>. QED BY <1>1, <1>3 DEF e

LEMMA PrefixStays ==
  ASSUME TypeInv, NEW t \in Topics, NEW k \in 1 .. Len(events[t]),
         UNCHANGED events \/ \E p \in Publishers : AppendEvent(p)
  PROVE  SubSeq(events'[t], 1, k) = SubSeq(events[t], 1, k)
<1>1. CASE UNCHANGED events
  BY <1>1
<1>2. ASSUME NEW p \in Publishers, AppendEvent(p), cur[p].topic = t
      PROVE  SubSeq(events'[t], 1, k) = SubSeq(events[t], 1, k)
  <2>. DEFINE log == events[t]
              new == events'[t]
  <2>1. /\ log \in Seq(Event) /\ new \in Seq(Event) /\ Len(log) \in Nat
        /\ Len(new) = Len(log) + 1
        /\ \A i \in 1 .. Len(log) : new[i] = log[i]
    <3>1. TypeInv'
      BY <1>2, AppendEventType
    <3>2. events \in [Topics -> Seq(Event)] /\ events' \in [Topics -> Seq(Event)]
      BY <3>1 DEF TypeInv, BrokerTypeOK
    <3>3. log \in Seq(Event) /\ new \in Seq(Event) /\ Len(log) \in Nat
      BY <3>2, LenProperties
    <3>4. /\ Len(events'[t]) = Len(events[t]) + 1
          /\ \A i \in 1 .. Len(events[t]) : events'[t][i] = events[t][i]
      BY <1>2, AppendFacts
    <3>. QED BY <3>3, <3>4
  <2>. HIDE DEF log, new
  <2>2. k \in Nat /\ \A i \in 1 .. k : i \in 1 .. Len(log) /\ i \in 1 .. Len(new)
    BY <2>1 DEF log
  <2>3. \A i \in 1 .. k : log[i] \in Event /\ new[i] = log[i]
    BY <2>1, <2>2, ElementOfSeq
  <2>4. /\ SubSeq(log, 1, k) \in Seq(Event) /\ SubSeq(new, 1, k) \in Seq(Event)
        /\ Len(SubSeq(log, 1, k)) = k /\ Len(SubSeq(new, 1, k)) = k
        /\ \A i \in 1 .. k : SubSeq(log, 1, k)[i] = log[i] /\ SubSeq(new, 1, k)[i] = new[i]
    <3>1. \A i \in 1 .. k : new[i] \in Event
      BY <2>3
    <3>2. k \in Nat /\ 1 <= k /\ k - 1 + 1 = k /\ 1 \in Nat /\ \A i \in 1 .. k : 1 + i - 1 = i
      BY <2>2
    <3>3. /\ SubSeq(log, 1, k) \in Seq(Event) /\ Len(SubSeq(log, 1, k)) = k
          /\ \A i \in 1 .. k : SubSeq(log, 1, k)[i] = log[i]
      BY <2>1, <2>3, <3>2, SubSeqProperties
    <3>4. /\ SubSeq(new, 1, k) \in Seq(Event) /\ Len(SubSeq(new, 1, k)) = k
          /\ \A i \in 1 .. k : SubSeq(new, 1, k)[i] = new[i]
      BY <2>1, <3>1, <3>2, SubSeqProperties
    <3>. QED BY <3>3, <3>4
  <2>5. SubSeq(new, 1, k) = SubSeq(log, 1, k)
    BY <2>3, <2>4, SeqEqual
  <2>. QED BY <2>5 DEF log, new
<1>3. ASSUME NEW p \in Publishers, AppendEvent(p), cur[p].topic # t
      PROVE  SubSeq(events'[t], 1, k) = SubSeq(events[t], 1, k)
  BY <1>3, AppendFacts
<1>. QED BY <1>1, <1>2, <1>3

LEMMA CarriesStep ==
  ASSUME BaseInv, NEW s \in Subs, OrderInv(s), StateInv, CarriesOwnState(s), BrokerAct
  PROVE  CarriesOwnState(s)'
<1>0. TypeInv /\ FromStream(s)
  BY DEF BaseInv, OrderInv
<1>1. UNCHANGED events \/ \E p \in Publishers : AppendEvent(p)
  <2>1. ASSUME NEW p \in Publishers, PublisherAct(p) PROVE UNCHANGED events \/ AppendEvent(p)
    BY <2>1, PublisherCases DEF BaseInv, Quiet, VisitSub, storeVars
  <2>. QED BY <2>1, SubscriberFrame DEF BrokerAct, brokerVars, storeVars
<1>. DEFINE Ok(f) == Carries(f.state, f.event, SubSeq(events'[f.event.topic], 1, f.event.seq))
<1>2. \A i \in 1 .. Len(chan[s]) : Ok(chan[s][i])
  BY <1>0, <1>1, FrameTopic, PrefixStays DEF CarriesOwnState
<1>3. SUFFICES ASSUME NEW i \in 1 .. Len(chan'[s]) PROVE Ok(chan'[s][i])
  BY DEF CarriesOwnState, Carries, FoldOf, Accepts
<1>. HIDE DEF Ok
<1>4. CASE chan'[s] = chan[s]
  BY <1>2, <1>4
<1>5. ASSUME NEW p \in Publishers, VisitSub(p), Send(p) PROVE Ok(chan'[s][i])
  <2>. DEFINE u == target[p]
              n == Len(chan[u])
  <2>1. /\ u \in Subs /\ Pending(p, u)
        /\ n \in Nat /\ Len(chan'[u]) = n + 1
        /\ \A j \in 1 .. n : chan'[u][j] = chan[u][j]
        /\ chan'[u][n + 1] = Fanout(p)
        /\ \A r \in Subs : r # u => chan'[r] = chan[r]
        /\ events' = events
    BY <1>5, SendFacts DEF storeVars
  <2>2. CASE s # u
    BY <1>4, <2>1, <2>2
  <2>3. CASE s = u
    <3>. DEFINE log == events[cur[p].topic]
    <3>1. /\ Appended(p) /\ pc[p] = "sending"
          /\ cur[p].topic \in Topics /\ log \in Seq(Event)
          /\ Len(log) \in Nat /\ cur[p].seq = Len(log)
      BY <1>0, <1>5, <2>1, AppendedIsLast
         DEF BaseInv, Pending, VisitSub, TypeInv, BrokerTypeOK
    <3>2. Carries(next[p], cur[p], log)
      BY <3>1 DEF StateInv, TopicInv, FanoutIsFold
    <3>3. SubSeq(log, 1, cur[p].seq) = log
      BY <3>1, SubSeqFull
    <3>4. Fanout(p).event = cur[p] /\ Fanout(p).state = next[p]
      BY DEF Fanout
    <3>5. Ok(Fanout(p))
      BY <2>1, <3>2, <3>3, <3>4 DEF Ok
    <3>6. i \in 1 .. n + 1
      BY <2>1, <2>3
    <3>. HIDE DEF n
    <3>7. i \in 1 .. n \/ i = n + 1
      BY <2>1, <3>6
    <3>. QED BY <1>2, <2>1, <2>3, <3>5, <3>7 DEF n
  <2>. QED BY <2>2, <2>3
<1>6. CASE Take(s)
  <2>. DEFINE n == Len(chan[s])
  <2>1. /\ n \in Nat \ {0} /\ Len(chan'[s]) = n - 1
        /\ \A j \in 1 .. n - 1 : chan'[s][j] = chan[s][j + 1]
    <3>1. chan \in [Subs -> Seq(Frame)] /\ chan[s] # <<>>
      BY <1>0, <1>6 DEF TypeInv, BrokerTypeOK, HubTypeOK, Take, Receive
    <3>2. /\ n \in Nat \ {0}
          /\ Len(Tail(chan[s])) = n - 1
          /\ \A j \in 1 .. Len(Tail(chan[s])) : Tail(chan[s])[j] = chan[s][j + 1]
      BY <3>1, HeadTailProperties, EmptySeq, LenProperties
    <3>. QED BY <1>6, <3>1, <3>2 DEF Take, Receive
  <2>. HIDE DEF n
  <2>2. i \in 1 .. n - 1 /\ i + 1 \in 1 .. n
    BY <2>1
  <2>. QED BY <1>2, <2>1, <2>2 DEF n
<1>7. \/ chan'[s] = chan[s] \/ Take(s)
      \/ \E p \in Publishers : VisitSub(p) /\ Send(p)
  <2>1. ASSUME NEW p \in Publishers, PublisherAct(p) PROVE chan'[s] = chan[s] \/ (VisitSub(p) /\ Send(p))
    BY <1>0, <2>1, PublisherCases, AppendFacts DEF BaseInv, Quiet, hubVars
  <2>2. ASSUME NEW r \in Subs, SubscriberAct(r) PROVE chan'[s] = chan[s] \/ Take(s)
    BY <1>0, <2>2
       DEF TypeInv, BrokerTypeOK, HubTypeOK, SubscriberAct, SubscribeHub, HubSubscribe, SubscribeStep,
           ReadBackfill, ReadFails, FinishClose, Unsubscribe, Consume, Take, Receive, CloseSwap,
           CloseRemove, CloseDone, hubVars
  <2>. QED BY <2>1, <2>2 DEF BrokerAct, brokerVars, hubVars
<1>. QED BY <1>4, <1>5, <1>6, <1>7

(* With a store whose GetState and SetState do not fail, a live event carries *)
(* the state right after itself however many publishers run, however long it  *)
(* waits, and whichever other store calls fail (broker.go:63-79).             *)
THEOREM DeliveryCarriesState ==
  ASSUME "getstate" \notin StoreErrors, "setstate" \notin StoreErrors
  PROVE  BrokerSpec => []FramesCarryOwnState
<1>. DEFINE Inv == DInv /\ StateInv /\ FramesCarryOwnState
<1>1. BrokerInit => Inv
  <2>1. BrokerInit => FramesCarryOwnState
    BY EmptySeq DEF BrokerInit, HubInit, FramesCarryOwnState, CarriesOwnState
  <2>. QED BY <2>1, BaseInit, TopicInit DEF DInv, StateInv
<1>2. Inv /\ [BrokerNext]_brokerVars => Inv'
  <2>1. SUFFICES ASSUME Inv, BrokerAct PROVE Inv'
    BY NextIsAct
  <2>2. BaseInv' /\ \A s \in Subs : OrderInv(s)'
    BY <2>1, BaseStep, OrderStep DEF DInv
  <2>3. \A t \in Topics : TopicInv(t)'
    BY <2>1, StateStep DEF DInv, BaseInv, StateInv
  <2>4. \A s \in Subs : CarriesOwnState(s)'
    BY <2>1, CarriesStep DEF DInv, FramesCarryOwnState
  <2>. QED BY <2>2, <2>3, <2>4 DEF DInv, StateInv, FramesCarryOwnState
<1>3. Inv => FramesCarryOwnState
  OBVIOUS
<1>. QED BY <1>1, <1>2, <1>3, PTL DEF BrokerSpec

================================================================================
