--------------------------- MODULE PollArchiverProofs --------------------------
(******************************************************************************)
(* Proofs about the two parts that use the broker from inside the server, for *)
(* any number of topics and publishers, any capacities and any faults.  Long  *)
(* poll, for any number of clients: what a polling client may miss and the    *)
(* order of what it gets.  The archiver, for any TTLs: what expiry can break. *)
(* The invariants of the broker come from BrokerProofs.                       *)
(******************************************************************************)
EXTENDS Poll, Archiver, BrokerProofs, WellFoundedInduction

(* An event that is where its topic and seq say.                              *)
Stored(e) ==
  /\ e.topic \in Topics
  /\ e.seq \in 1 .. Len(events[e.topic])
  /\ e = events[e.topic][e.seq]

(* The n-th event of its topic has been received from s, waits in its channel *)
(* or is about to be offered to it.                                           *)
Reaches(s, n) ==
  \/ n <= taken[s]
  \/ \E i \in 1 .. Len(chan[s]) : chan[s][i].event.seq = n
  \/ n = Len(events[subTopic[s]]) /\ \E p \in Publishers : Pending(p, s)

--------------------------------------------------------------------------------
(* What a step of the broker does to the streams and to a subscription.       *)
LEMMA StreamsGrow ==
  ASSUME BaseInv, BrokerAct, NEW t \in Topics
  PROVE  /\ Len(events[t]) \in Nat /\ Len(events'[t]) \in Nat
         /\ Len(events[t]) <= Len(events'[t])
         /\ \A n \in 1 .. Len(events[t]) : events'[t][n] = events[t][n]
<1>. DEFINE Grown == /\ Len(events[t]) \in Nat /\ Len(events'[t]) \in Nat
                     /\ Len(events[t]) <= Len(events'[t])
                     /\ \A n \in 1 .. Len(events[t]) : events'[t][n] = events[t][n]
<1>1. TypeInv /\ HubInv /\ Len(events[t]) \in Nat
  BY LenProperties DEF BaseInv, TypeInv, BrokerTypeOK
<1>2. CASE UNCHANGED events
  BY <1>1, <1>2
<1>3. ASSUME NEW p \in Publishers, AppendEvent(p) PROVE Grown
  <2>1. CASE t = cur[p].topic
    BY <1>1, <1>3, <2>1, AppendFacts
  <2>2. CASE t # cur[p].topic
    BY <1>1, <1>3, <2>2, AppendFacts
  <2>. QED BY <2>1, <2>2
<1>4. UNCHANGED events \/ \E p \in Publishers : AppendEvent(p)
  BY <1>1, PublisherCases, SubscriberFrame DEF BrokerAct, Quiet, storeVars, brokerVars, VisitSub
<1>. QED BY <1>2, <1>3, <1>4

LEMMA StoredStays ==
  ASSUME BaseInv, BrokerAct, NEW e, Stored(e)
  PROVE  Stored(e)'
BY StreamsGrow DEF Stored

(* What is in a channel afterwards was there before, or is the last event of  *)
(* the stream.                                                                *)
LEMMA ChannelGrows ==
  ASSUME BaseInv, BrokerAct, NEW s \in Subs, phase[s] # "new", NEW i \in 1 .. Len(chan'[s])
  PROVE  \/ \E j \in 1 .. Len(chan[s]) : chan'[s][i] = chan[s][j]
         \/ chan'[s][i].event.seq = Len(events[subTopic[s]])
<1>. DEFINE Old == \/ \E j \in 1 .. Len(chan[s]) : chan'[s][i] = chan[s][j]
                   \/ chan'[s][i].event.seq = Len(events[subTopic[s]])
<1>0. TypeInv /\ HubInv /\ OnLast /\ chan \in [Subs -> Seq(Frame)]
  BY DEF BaseInv, TypeInv, BrokerTypeOK, HubTypeOK
<1>1. CASE chan'[s] = chan[s]
  BY <1>1
<1>2. ASSUME NEW p \in Publishers, VisitSub(p), Send(p) PROVE Old
  <2>1. CASE s # target[p]
    BY <1>2, <2>1, SendFacts
  <2>2. CASE s = target[p]
    <3>. DEFINE n == Len(chan[s])
    <3>1. /\ Pending(p, s) /\ n \in Nat /\ Len(chan'[s]) = n + 1
          /\ \A k \in 1 .. n : chan'[s][k] = chan[s][k]
          /\ chan'[s][n + 1] = Fanout(p)
      BY <1>2, <2>2, SendFacts
    <3>2. Fanout(p).event = cur[p]
      BY DEF Fanout
    <3>3. cur[p].seq = Len(events[subTopic[s]])
      BY <1>0, <3>1, AppendedIsLast DEF Pending
    <3>. HIDE DEF n
    <3>4. i \in 1 .. n \/ i = n + 1
      BY <3>1
    <3>. QED BY <3>1, <3>2, <3>3, <3>4 DEF n
  <2>. QED BY <2>1, <2>2
<1>3. CASE Take(s)
  <2>1. chan[s] # <<>> /\ chan'[s] = Tail(chan[s]) /\ chan[s] \in Seq(Frame)
    BY <1>0, <1>3 DEF Take, Receive
  <2>2. Len(chan'[s]) = Len(chan[s]) - 1 /\ chan'[s][i] = chan[s][i + 1] /\ Len(chan[s]) \in Nat
    BY <2>1, HeadTailProperties, EmptySeq
  <2>3. i + 1 \in 1 .. Len(chan[s])
    BY <2>2
  <2>. QED BY <2>2, <2>3
<1>4. ASSUME NEW p \in Publishers, PublisherAct(p) PROVE Old
  <2>1. CASE Quiet
    BY <1>1, <2>1 DEF Quiet
  <2>2. CASE AppendEvent(p)
    BY <1>1, <2>2 DEF AppendEvent, hubVars
  <2>. QED BY <1>0, <1>2, <1>4, <2>1, <2>2, PublisherCases
<1>5. ASSUME NEW r \in Subs, SubscriberAct(r) PROVE chan'[s] = chan[s] \/ Take(s)
  BY <1>0, <1>5
     DEF SubscriberAct, SubscribeStep, SubscribeHub, HubSubscribe, ReadBackfill, ReadFails,
         Unsubscribe, FinishClose, CloseSwap, CloseRemove, CloseDone, Consume, Take, Receive, hubVars
<1>. QED BY <1>1, <1>3, <1>4, <1>5 DEF BrokerAct, brokerVars, hubVars

(* The drop counters only grow.                                               *)
LEMMA LagGrows ==
  ASSUME TypeInv, BrokerAct, NEW s \in Subs
  PROVE  lag[s] \in Nat /\ lag'[s] \in Nat /\ lag[s] <= lag'[s]
<1>1. lag \in [Subs -> Nat] /\ target \in [Publishers -> Subs \cup {None}]
  BY DEF TypeInv, BrokerTypeOK, HubTypeOK
<1>2. CASE lag' = lag
  BY <1>1, <1>2
<1>3. ASSUME NEW p \in Publishers, Drop(p) PROVE lag[s] \in Nat /\ lag'[s] \in Nat /\ lag[s] <= lag'[s]
  BY <1>1, <1>3 DEF Drop
<1>4. ASSUME NEW p \in Publishers, PublisherAct(p) PROVE lag' = lag \/ Drop(p)
  BY <1>4
     DEF PublisherAct, PublishCall, Lock, PublishStep, AppendEvent, AppendFails, ApplyReducer,
         SaveState, UpsertMeta, StartFanout, Snapshot, VisitSub, Visit, SkipClosed, LoadOpen, Send,
         SeeDone, FinishPublish, PublishReturn, hubVars
<1>. QED BY <1>2, <1>3, <1>4, SubscriberFrame DEF BrokerAct, brokerVars, hubVars

(* An event that has reached an open subscription stays with it, and a new    *)
(* one reaches it, unless the hub drops one.                                  *)
LEMMA ReachStep ==
  ASSUME BaseInv, BrokerAct, NEW s \in Subs, OrderInv(s), phase[s] = "open", lag'[s] = 0,
         NEW k \in 1 .. Len(events'[subTopic[s]])
  PROVE  \/ Reaches(s, k)'
         \/ k \in 1 .. Len(events[subTopic[s]]) /\ ~ Reaches(s, k)
<1>. DEFINE t == subTopic[s]
            Goal == Reaches(s, k)' \/ (k \in 1 .. Len(events[t]) /\ ~ Reaches(s, k))
<1>0. /\ TypeInv /\ HubInv /\ OnLast
      /\ chan \in [Subs -> Seq(Frame)]
      /\ stage[s] \in {"read", "live"} /\ stage[s] # "none"
      /\ subTopic[s] \in Topics
      /\ taken[s] \in Nat
  BY DEF BaseInv, TypeInv, BrokerTypeOK, HubTypeOK, HubInv, StageIsPhase, LockHeld
<1>1. /\ Len(events[t]) \in Nat /\ Len(events'[t]) \in Nat /\ Len(events[t]) <= Len(events'[t])
  BY <1>0, StreamsGrow
<1>2. CASE /\ UNCHANGED <<events, subTopic>>
           /\ chan'[s] = chan[s] /\ taken'[s] = taken[s]
           /\ \A p \in Publishers : Pending(p, s) => Pending(p, s)'
  BY <1>2 DEF Reaches
<1>3. ASSUME NEW p \in Publishers, PublisherAct(p), AppendEvent(p) PROVE Goal
  <2>1. /\ UNCHANGED <<subTopic, chan, taken>>
        /\ \A q \in Publishers : ~ Pending(q, s)
    BY <1>0, <1>3, AppendFacts DEF hubVars, historyVars, Pending
  <2>2. CASE k <= Len(events[t])
    <3>1. k \in 1 .. Len(events[t])
      BY <1>1, <2>2
    <3>. QED BY <2>1, <3>1 DEF Reaches
  <2>3. CASE k > Len(events[t])
    <3>1. t = cur[p].topic /\ k = Len(events'[t])
      BY <1>0, <1>1, <1>3, <2>3, AppendFacts
    <3>2. Pending(p, s)'
      BY <1>0, <1>3, <2>1, <3>1, AppendFacts DEF Pending
    <3>. QED BY <2>1, <3>1, <3>2 DEF Reaches
  <2>. QED BY <1>1, <2>2, <2>3
<1>4. ASSUME NEW p \in Publishers, VisitSub(p), Send(p) PROVE Goal
  <2>. DEFINE u == target[p]
              n == Len(chan[u])
  <2>1. /\ u \in Subs /\ Pending(p, u)
        /\ n \in Nat /\ Len(chan'[u]) = n + 1
        /\ \A i \in 1 .. n : chan'[u][i] = chan[u][i]
        /\ chan'[u][n + 1].event = cur[p]
        /\ \A r \in Subs : r # u => chan'[r] = chan[r]
        /\ \A q \in Publishers : Pending(q, s)' <=> Pending(q, s) /\ s # u
        /\ UNCHANGED <<subTopic, events, taken>>
    <3>1. Fanout(p).event = cur[p]
      BY DEF Fanout
    <3>2. UNCHANGED <<subTopic, events, taken>>
      BY <1>4, SendFacts DEF storeVars, historyVars
    <3>. QED BY <1>4, SendFacts, <3>1, <3>2
  <2>2. CASE s # u
    BY <1>2, <2>1, <2>2
  <2>3. CASE s = u
    <3>1. SUFFICES ASSUME Reaches(s, k) PROVE Reaches(s, k)'
      BY <2>1
    <3>2. CASE k <= taken[s]
      BY <2>1, <3>2 DEF Reaches
    <3>3. ASSUME NEW i \in 1 .. n, chan[s][i].event.seq = k PROVE Reaches(s, k)'
      <4>1. i \in 1 .. Len(chan'[s]) /\ chan'[s][i] = chan[s][i]
        BY <2>1, <2>3
      <4>. QED BY <3>3, <4>1 DEF Reaches
    <3>4. CASE k = Len(events[t])
      <4>1. cur[p].seq = k
        BY <1>0, <2>1, <2>3, <3>4, AppendedIsLast DEF Pending
      <4>2. n + 1 \in 1 .. Len(chan'[s]) /\ chan'[s][n + 1].event.seq = k
        BY <2>1, <2>3, <4>1
      <4>. QED BY <4>2 DEF Reaches
    <3>. QED BY <2>3, <3>1, <3>2, <3>3, <3>4 DEF Reaches
  <2>. QED BY <2>2, <2>3
<1>5. CASE Take(s)
  <2>. DEFINE n == Len(chan[s])
  <2>1. /\ chan[s] # <<>> /\ chan'[s] = Tail(chan[s]) /\ chan[s] \in Seq(Frame)
        /\ taken'[s] = Head(chan[s]).event.seq
        /\ UNCHANGED <<subTopic, storeVars, publishVars, list, target>>
    BY <1>0, <1>5 DEF Take, Receive, TypeInv, BrokerTypeOK
  <2>2. /\ n \in Nat \ {0} /\ Len(chan'[s]) = n - 1
        /\ \A i \in 1 .. n - 1 : chan'[s][i] = chan[s][i + 1]
    BY <2>1, HeadTailProperties, EmptySeq
  <2>3. 1 \in 1 .. n /\ Head(chan[s]) = chan[s][1]
    BY <2>1, <2>2, HeadTailProperties, ElementOfSeq
  <2>4. /\ taken'[s] = chan[s][1].event.seq /\ chan[s][1].event.seq \in Nat
        /\ taken[s] < chan[s][1].event.seq
    BY <1>0, <2>1, <2>3, ChannelType DEF OrderInv, InOrder
  <2>5. SUFFICES ASSUME Reaches(s, k) PROVE Reaches(s, k)'
    BY <2>1 DEF storeVars
  <2>. HIDE DEF n
  <2>6. CASE k <= taken[s]
    BY <1>0, <1>1, <2>4, <2>6 DEF Reaches
  <2>7. ASSUME NEW i \in 1 .. n, chan[s][i].event.seq = k PROVE Reaches(s, k)'
    <3>1. CASE i = 1
      BY <1>1, <2>4, <2>7, <3>1 DEF Reaches
    <3>2. CASE i # 1
      <4>1. i - 1 \in 1 .. n - 1 /\ (i - 1) + 1 = i
        BY <2>2, <3>2
      <4>. QED BY <2>2, <2>7, <4>1 DEF Reaches
    <3>. QED BY <3>1, <3>2
  <2>8. ASSUME k = Len(events[t]), NEW p \in Publishers, Pending(p, s) PROVE Reaches(s, k)'
    <3>1. Pending(p, s)'
      BY <2>1, <2>8 DEF Pending, Appended, InCritical, Owed, publishVars
    <3>. QED BY <2>1, <2>8, <3>1 DEF Reaches, storeVars
  <2>. QED BY <2>5, <2>6, <2>7, <2>8 DEF Reaches, n
<1>6. ASSUME NEW p \in Publishers, PublisherAct(p) PROVE Goal
  <2>1. CASE Quiet
    BY <1>0, <1>2, <1>6, <2>1, PublisherFrame DEF Quiet
  <2>. QED BY <1>0, <1>3, <1>4, <1>6, <2>1, PublisherCases
<1>7. ASSUME NEW r \in Subs, SubscriberAct(r), ~ Take(s) PROVE Goal
  <2>1. UNCHANGED <<events, pc, cur, list, target>>
    BY <1>7, SubscriberFrame DEF storeVars, publishVars
  <2>2. subTopic'[s] = subTopic[s] /\ chan'[s] = chan[s] /\ taken'[s] = taken[s]
    BY <1>0, <1>7
       DEF SubscriberAct, SubscribeStep, SubscribeHub, HubSubscribe, ReadBackfill, ReadFails,
           Unsubscribe, FinishClose, CloseSwap, CloseRemove, CloseDone, Consume, Take, Receive,
           hubVars, historyVars, TypeInv, BrokerTypeOK, HubTypeOK
  <2>. QED BY <2>1, <2>2 DEF Reaches, Pending, Appended, InCritical, Owed
<1>8. CASE UNCHANGED brokerVars
  BY <1>8 DEF brokerVars, hubVars, storeVars, publishVars, historyVars, Reaches, Pending, Appended,
              InCritical, Owed
<1>. QED BY <1>5, <1>6, <1>7, <1>8 DEF BrokerAct

--------------------------------------------------------------------------------
(* Sequences, and the largest seq in one.                                     *)
LEMMA Least ==
  ASSUME NEW T, T \subseteq Nat, T # {}
  PROVE  \E x \in T : \A y \in T : x <= y
<1>1. \E x \in T : \A y \in T : ~ (<<y, x>> \in OpToRel(<, Nat))
  BY NatLessThanWellFounded, WFMin, Zenon
<1>2. PICK x \in T : \A y \in T : ~ (<<y, x>> \in OpToRel(<, Nat))
  BY <1>1, Zenon
<1>3. ASSUME NEW y \in T PROVE ~ (y < x)
  BY <1>2, Zenon DEF OpToRel
<1>4. \A y \in T : x <= y
  BY <1>3
<1>. QED BY <1>4

LEMMA HeadAndTail ==
  ASSUME NEW S, NEW u \in Seq(S), u # <<>>
  PROVE  /\ Len(u) \in Nat \ {0}
         /\ Head(u) = u[1] /\ Head(u) \in S /\ Tail(u) \in Seq(S)
         /\ Len(Tail(u)) = Len(u) - 1
         /\ \A i \in 1 .. Len(u) - 1 : Tail(u)[i] = u[i + 1]
         /\ ToSet(Tail(u)) \subseteq ToSet(u)
         /\ \A x \in ToSet(u) : x = Head(u) \/ x \in ToSet(Tail(u))
         /\ Head(u) \in ToSet(u)
<1>. DEFINE n == Len(u)
<1>1. /\ n \in Nat \ {0} /\ Head(u) \in S /\ Tail(u) \in Seq(S)
      /\ Len(Tail(u)) = n - 1 /\ \A i \in 1 .. n - 1 : Tail(u)[i] = u[i + 1]
  BY EmptySeq, HeadTailProperties
<1>2. DOMAIN u = 1 .. n /\ DOMAIN Tail(u) = 1 .. n - 1
  BY <1>1, LenProperties
<1>3. Head(u) = u[1]
  BY <1>1, EmptySeq
<1>. HIDE DEF n
<1>4. ToSet(Tail(u)) \subseteq ToSet(u)
  <2>1. ASSUME NEW i \in 1 .. n - 1 PROVE Tail(u)[i] \in ToSet(u)
    <3>1. i + 1 \in 1 .. n
      BY <1>1
    <3>. QED BY <1>1, <1>2, <3>1 DEF ToSet
  <2>. QED BY <1>2, <2>1 DEF ToSet
<1>5. ASSUME NEW i \in 1 .. n PROVE u[i] = Head(u) \/ u[i] \in ToSet(Tail(u))
  <2>1. CASE i = 1
    BY <1>3, <2>1
  <2>2. CASE i # 1
    <3>1. i - 1 \in 1 .. n - 1 /\ (i - 1) + 1 = i
      BY <1>1, <2>2
    <3>. QED BY <1>1, <1>2, <3>1 DEF ToSet
  <2>. QED BY <2>1, <2>2
<1>6. Head(u) \in ToSet(u)
  <2>1. 1 \in 1 .. n
    BY <1>1
  <2>. QED BY <1>2, <1>3, <2>1 DEF ToSet
<1>. QED BY <1>1, <1>2, <1>3, <1>4, <1>5, <1>6 DEF ToSet, n

LEMMA Bounded ==
  ASSUME NEW n \in Nat, NEW f \in [1 .. n -> Nat]
  PROVE  \E b \in Nat : \A i \in 1 .. n : f[i] <= b
<1>. DEFINE Bad == {k \in 0 .. n : ~ \E b \in Nat : \A i \in 1 .. k : f[i] <= b}
<1>1. SUFFICES ASSUME Bad # {} PROVE FALSE
  <2>1. n \in 0 .. n
    OBVIOUS
  <2>. QED BY <2>1
<1>2. Bad \subseteq Nat
  OBVIOUS
<1>. HIDE DEF Bad
<1>3. PICK k \in Bad : \A j \in Bad : k <= j
  BY <1>1, <1>2, Least
<1>4. k \in 0 .. n /\ ~ \E b \in Nat : \A i \in 1 .. k : f[i] <= b
  BY DEF Bad
<1>5. k # 0
  <2>1. 0 \in Nat /\ \A i \in 1 .. 0 : f[i] <= 0
    OBVIOUS
  <2>. QED BY <1>4, <2>1
<1>6. k - 1 \in 0 .. n /\ k \in 1 .. n /\ ~ (k <= k - 1)
  BY <1>4, <1>5
<1>7. k - 1 \notin Bad
  BY <1>3, <1>6
<1>8. PICK b \in Nat : \A i \in 1 .. k - 1 : f[i] <= b
  BY <1>6, <1>7 DEF Bad
<1>9. PICK c \in Nat : b <= c /\ f[k] <= c
  <2>1. f[k] \in Nat
    BY <1>6
  <2>2. b <= f[k] \/ f[k] <= b
    BY <2>1
  <2>. QED BY <2>1, <2>2
<1>10. \A i \in 1 .. k : f[i] <= c
  <2>1. ASSUME NEW i \in 1 .. k PROVE f[i] <= c
    <3>1. f[i] \in Nat /\ (i = k \/ i \in 1 .. k - 1)
      BY <1>6
    <3>. QED BY <1>8, <1>9, <3>1
  <2>. QED BY <2>1
<1>. QED BY <1>4, <1>10

LEMMA MaxOf ==
  ASSUME NEW S, S \subseteq Nat, S # {}, NEW c \in Nat, \A x \in S : x <= c
  PROVE  Max(S) \in S /\ \A y \in S : y <= Max(S)
<1>. DEFINE Bounds == {b \in Nat : \A x \in S : x <= b}
<1>1. PICK b \in Bounds : \A d \in Bounds : b <= d
  <2>1. Bounds \subseteq Nat /\ c \in Bounds
    OBVIOUS
  <2>. HIDE DEF Bounds
  <2>. QED BY <2>1, Least
<1>2. b \in S
  <2>1. SUFFICES ASSUME b \notin S PROVE FALSE
    OBVIOUS
  <2>2. \A x \in S : x <= b /\ x # b /\ x \in Nat
    BY <2>1
  <2>3. \A x \in S : x <= b - 1
    BY <2>2
  <2>4. b - 1 \in Nat
    <3>1. PICK x \in S : x <= b /\ x # b /\ x \in Nat
      BY <2>2
    <3>2. b \in Nat
      BY <1>1
    <3>. QED BY <3>1, <3>2
  <2>5. b - 1 \in Bounds /\ ~ (b <= b - 1)
    BY <2>3, <2>4
  <2>. QED BY <1>1, <2>5
<1>3. \E x \in S : \A y \in S : x >= y
  BY <1>2
<1>4. Max(S) \in S /\ \A y \in S : Max(S) >= y
  BY <1>3 DEF Max
<1>. QED BY <1>4

LEMMA MaxSeqFacts ==
  ASSUME NEW es \in Seq(Event), \A i \in 1 .. Len(es) : es[i].seq \in Nat \ {0}
  PROVE  /\ maxSeq(es) \in Nat
         /\ \A i \in 1 .. Len(es) : es[i].seq <= maxSeq(es)
         /\ es # <<>> => \E i \in 1 .. Len(es) : es[i].seq = maxSeq(es)
<1>. DEFINE n == Len(es)
            f == [i \in 1 .. n |-> es[i].seq]
            S == {0} \cup {e.seq : e \in ToSet(es)}
<1>1. n \in Nat /\ DOMAIN es = 1 .. n
  BY LenProperties
<1>2. f \in [1 .. n -> Nat]
  OBVIOUS
<1>3. /\ 0 \in S
      /\ \A i \in 1 .. n : es[i].seq \in S
      /\ \A x \in S : x = 0 \/ \E i \in 1 .. n : es[i].seq = x
  BY <1>1, Zenon DEF ToSet
<1>4. PICK c \in Nat : \A i \in 1 .. n : es[i].seq <= c
  <2>1. PICK c \in Nat : \A i \in 1 .. n : f[i] <= c
    <3>. HIDE DEF f, n
    <3>. QED BY <1>1, <1>2, Bounded
  <2>. QED BY <2>1
<1>. HIDE DEF S, f
<1>5. S \subseteq Nat /\ \A x \in S : x <= c
  BY <1>3, <1>4
<1>6. maxSeq(es) \in S /\ \A y \in S : y <= maxSeq(es)
  <2>1. Max(S) \in S /\ \A y \in S : y <= Max(S)
    BY <1>3, <1>5, MaxOf
  <2>. QED BY <2>1 DEF maxSeq, S
<1>7. \A i \in 1 .. n : es[i].seq <= maxSeq(es)
  BY <1>3, <1>6
<1>8. es # <<>> => \E i \in 1 .. n : es[i].seq = maxSeq(es)
  <2>1. SUFFICES ASSUME es # <<>> PROVE \E i \in 1 .. n : es[i].seq = maxSeq(es)
    OBVIOUS
  <2>2. 1 \in 1 .. n
    BY <2>1, EmptySeq
  <2>3. maxSeq(es) # 0
    BY <1>5, <1>6, <1>7, <2>2
  <2>. QED BY <1>3, <1>6, <2>3
<1>. QED BY <1>5, <1>6, <1>7, <1>8

--------------------------------------------------------------------------------
(* The inductive invariant.  Types ...                                        *)
Places == {"idle", "fetch", "subscribe", "wait", "batch", "respond", "close"}

PollTypeOK ==
  /\ topicsOf \in [Pollers -> TopicLists]
  /\ at \in [Pollers -> Places]
  /\ unread \in [Pollers -> Seq(Topics)]
  /\ subs \in [Pollers -> SUBSET Subs]
  /\ merged \in [Pollers -> Seq(Event)]
  /\ out \in [Pollers -> Seq(Event)]
  /\ fwd \in [Subs -> {"none", "run", "exit"}]
  /\ held \in [Subs -> Event \cup {None}]
  /\ fromSeq \in [Pollers -> Nat \ {0}]
  /\ got \in [Pollers -> SUBSET Event]
  /\ fetched \in [Pollers -> [Topics -> Nat]]
  /\ gap \in [Pollers -> [Topics -> SUBSET Nat]]

(* ... a forwarder runs for a subscription that Subscribe has returned ...    *)
FwdInv(s) ==
  /\ fwd[s] = "none" => held[s] = None
  /\ fwd[s] # "none" => stage[s] \in {"live", "closed"}

Disjoint == \A q, r \in Pollers : q # r => subs[q] \cap subs[r] = {}

(* ... what a handler has at each place ...                                   *)
Attached(q) == at[q] \in {"subscribe", "wait", "batch"}

PlaceInv(q) ==
  /\ at[q] = "fetch" => unread[q] # <<>>
  /\ ToSet(unread[q]) \subseteq ToSet(topicsOf[q])
  /\ at[q] \in {"idle", "fetch", "respond"} => subs[q] = {} /\ merged[q] = <<>>
  /\ at[q] = "idle" => out[q] = <<>>
  /\ at[q] = "subscribe" => out[q] = <<>> /\ merged[q] = <<>>

SubsInv(q) ==
  /\ \A s \in subs[q] : phase[s] # "new" /\ subTopic[s] \in ToSet(topicsOf[q])
  /\ Attached(q) => \A s \in subs[q] : phase[s] = "open"
  /\ at[q] = "subscribe" =>
       /\ \A s \in subs[q] : fwd[s] = "none"
       /\ \A r, s \in subs[q] : stage[r] = "read" /\ stage[s] = "read" => r = s
  /\ at[q] # "subscribe" => \A s \in subs[q] : stage[s] # "read"

(* ... and where the events come from that a request has in hand, out and     *)
(* merged in one line.                                                        *)
Line(q) == out[q] \o merged[q]

Asked(q, e) == Stored(e) /\ e.topic \in ToSet(topicsOf[q])

LineInv(q) ==
  /\ \A e \in got[q] : Asked(q, e)
  /\ at[q] # "close" => \A i \in 1 .. Len(Line(q)) : Asked(q, Line(q)[i])
  /\ at[q] # "close" =>
       \A s \in subs[q] : held[s] # None =>
         Stored(held[s]) /\ held[s].topic = subTopic[s] /\ held[s].seq = taken[s]
  /\ fromSeq[q] = 1 \/ \E e \in got[q] : e.seq = fromSeq[q] - 1

PollBase ==
  /\ DInv /\ PollTypeOK /\ Disjoint
  /\ \A s \in Subs : FwdInv(s)
  /\ \A q \in Pollers : PlaceInv(q) /\ SubsInv(q) /\ LineInv(q)

(* An event that a request has in hand does not skip one before it ...        *)
LineSkips(q) ==
  at[q] # "close" =>
    \A i \in 1 .. Len(Line(q)) : \A n \in fromSeq[q] .. Line(q)[i].seq - 1 :
      \/ n \in gap[q][Line(q)[i].topic]
      \/ \E j \in 1 .. i - 1 : Line(q)[j] = events[Line(q)[i].topic][n]

(* ... a poll that goes on to wait has fetched all there was ...              *)
FetchedAll(q) ==
  /\ Attached(q) => \A t \in ToSet(topicsOf[q]) : fetched[q][t] < fromSeq[q]
  /\ at[q] = "fetch" /\ out[q] = <<>> =>
       \A t \in ToSet(topicsOf[q]) : t \in ToSet(unread[q]) \/ fetched[q][t] < fromSeq[q]

(* ... and what comes later reaches its subscriptions, and from there the     *)
(* line, in turn.                                                             *)
LaterReach(q) ==
  Attached(q) => \A s \in subs[q] :
    \A n \in fetched[q][subTopic[s]] + 1 .. Len(events[subTopic[s]]) :
      n \in gap[q][subTopic[s]] \/ Reaches(s, n)

TakenOn(q) ==
  Attached(q) => \A s \in subs[q] : fwd[s] # "exit" =>
    \A n \in fetched[q][subTopic[s]] + 1 .. taken[s] :
      \/ n \in gap[q][subTopic[s]]
      \/ \E j \in 1 .. Len(Line(q)) : Line(q)[j] = events[subTopic[s]][n]
      \/ held[s] # None /\ n = taken[s]

SkipsOf(q) ==
  \A t \in ToSet(topicsOf[q]) : \A n \in Skipped(q, t) :
    n \in gap[q][t] \/ \E e \in got[q] : e.topic # t /\ e.seq >= n

SkipInv(q) ==
  ~ Dropped => LineSkips(q) /\ FetchedAll(q) /\ LaterReach(q) /\ TakenOn(q) /\ SkipsOf(q)

(* Within a response to a request that names no topic twice: IsInjective.     *)
Injective(l) == \A i, j \in 1 .. Len(l) : l[i] = l[j] => i = j

ListsApart(q) ==
  /\ Injective(unread[q])
  /\ at[q] = "fetch" => \A i \in 1 .. Len(Line(q)) : Line(q)[i].topic \notin ToSet(unread[q])
  /\ at[q] = "subscribe" => \A s \in subs[q] : subTopic[s] \notin ToSet(unread[q])
  /\ \A r, s \in subs[q] : subTopic[r] = subTopic[s] => r = s

LineOrder(q) ==
  at[q] # "close" =>
    \A i, j \in 1 .. Len(Line(q)) :
      i < j /\ Line(q)[i].topic = Line(q)[j].topic => Line(q)[i].seq < Line(q)[j].seq

LineBehind(q) ==
  Attached(q) =>
    \A i \in 1 .. Len(Line(q)) : \A s \in subs[q] : Line(q)[i].topic = subTopic[s] =>
      Line(q)[i].seq <= taken[s] /\ (held[s] # None => Line(q)[i].seq < taken[s])

OrderedLine(q) == ListsApart(q) /\ LineOrder(q) /\ LineBehind(q)

(* A client of one topic is behind nothing it has received.                   *)
AloneLine(q) ==
  \A i \in 1 .. Len(Line(q)) : Line(q)[i].seq >= fromSeq[q] - 1

AloneSub(q, s) ==
  /\ held[s] # None => held[s].seq >= fromSeq[q] - 1
  /\ \A i \in 1 .. Len(chan[s]) : chan[s][i].event.seq >= fromSeq[q] - 1

AloneInv(q) ==
  Alone(q) =>
    /\ \A e \in got[q] : e.seq < fromSeq[q]
    /\ at[q] # "close" => AloneLine(q) /\ \A s \in subs[q] : AloneSub(q, s)

--------------------------------------------------------------------------------
(* What a request has in hand, and what the steps do to it.                   *)
LEMMA Elements ==
  ASSUME NEW S, NEW u \in Seq(S)
  PROVE  /\ Len(u) \in Nat /\ ToSet(u) \subseteq S
         /\ \A i \in 1 .. Len(u) : u[i] \in S /\ u[i] \in ToSet(u)
         /\ \A x \in ToSet(u) : \E i \in 1 .. Len(u) : u[i] = x
<1>1. DOMAIN u = 1 .. Len(u) /\ Len(u) \in Nat /\ \A i \in 1 .. Len(u) : u[i] \in S
  BY LenProperties, ElementOfSeq
<1>. QED BY <1>1 DEF ToSet

LEMMA ReadFacts ==
  ASSUME TypeInv, NEW t \in Topics, NEW f \in Nat \ {0}
  PROVE  LET b == Read(t, f)
         IN  /\ b \in Seq(Event) /\ Len(b) \in Nat
             /\ \A j \in 1 .. Len(b) : /\ f + j - 1 \in 1 .. Len(events[t])
                                       /\ b[j] = events[t][f + j - 1]
                                       /\ b[j].topic = t /\ b[j].seq = f + j - 1
                                       /\ Stored(b[j])
             /\ b = <<>> => Len(events[t]) < f
<1>. DEFINE log == events[t]
            n == Len(log)
            k == SearchSeq(t, f)
            c == SubSeq(log, k, n)
<1>1. /\ events \in [Topics -> Seq(Event)] /\ SeqIsPosition
      /\ log \in Seq(Event) /\ n \in Nat
      /\ \A i \in 1 .. n : log[i].seq = i /\ log[i].topic = t
  BY LenProperties DEF TypeInv, BrokerTypeOK, SeqIsPosition
<1>2. k = IF f <= n THEN f ELSE n + 1
  <2>. DEFINE Found(i) == /\ \A j \in 1 .. i - 1 : log[j].seq < f
                          /\ i <= n => log[i].seq >= f
              w == IF f <= n THEN f ELSE n + 1
  <2>1. w \in 1 .. n + 1 /\ Found(w)
    BY <1>1
  <2>2. k \in 1 .. n + 1 /\ Found(k)
    <3>1. \E i \in 1 .. n + 1 : Found(i)
      BY <2>1
    <3>. QED BY <3>1 DEF SearchSeq
  <2>. HIDE DEF k
  <2>3. CASE k > w
    <3>1. w \in 1 .. k - 1 /\ w \in 1 .. n /\ w = f
      BY <1>1, <2>1, <2>2, <2>3
    <3>. QED BY <1>1, <2>2, <3>1
  <2>4. CASE k < w
    <3>1. k \in 1 .. n /\ k < f
      BY <1>1, <2>1, <2>2, <2>4
    <3>. QED BY <1>1, <2>2, <3>1
  <2>. QED BY <1>1, <2>1, <2>2, <2>3, <2>4
<1>. HIDE DEF k
<1>3. \A i \in k .. n : log[i] \in Event
  BY <1>1, <1>2, ElementOfSeq
<1>4. /\ c \in Seq(Event)
      /\ Len(c) = IF k <= n THEN n - k + 1 ELSE 0
      /\ \A i \in 1 .. n - k + 1 : c[i] = log[k + i - 1]
  BY <1>1, <1>2, <1>3, SubSeqProperties
<1>. HIDE DEF c, n
<1>5. Len(c) \in Nat /\ (c = <<>> => n < f)
  BY <1>1, <1>2, <1>4, EmptySeq
<1>6. ASSUME NEW j \in 1 .. Len(c)
      PROVE  f + j - 1 \in 1 .. n /\ c[j] = log[f + j - 1]
  BY <1>1, <1>2, <1>4
<1>7. ASSUME NEW j \in 1 .. Len(c)
      PROVE  c[j].topic = t /\ c[j].seq = f + j - 1 /\ Stored(c[j])
  <2>1. f + j - 1 \in 1 .. n /\ c[j] = log[f + j - 1]
    BY <1>6
  <2>2. c[j].topic = t /\ c[j].seq = f + j - 1
    BY <1>1, <2>1
  <2>3. c[j].seq \in 1 .. Len(events[t]) /\ c[j] = events[t][c[j].seq]
    BY <2>1, <2>2 DEF n
  <2>. QED BY <2>2, <2>3 DEF Stored
<1>8. Read(t, f) = c
  BY DEF Read, c, k, n
<1>. QED BY <1>4, <1>5, <1>6, <1>7, <1>8 DEF n

LEMMA LineType ==
  ASSUME PollTypeOK, NEW q \in Pollers
  PROVE  /\ out[q] \in Seq(Event) /\ merged[q] \in Seq(Event) /\ Line(q) \in Seq(Event)
         /\ Len(out[q]) \in Nat /\ Len(Line(q)) \in Nat /\ Len(out[q]) <= Len(Line(q))
         /\ \A i \in 1 .. Len(out[q]) : Line(q)[i] = out[q][i]
         /\ \A i \in 1 .. Len(Line(q)) : Line(q)[i] \in Event
         /\ out[q] = <<>> /\ merged[q] = <<>> => Line(q) = <<>>
<1>1. out[q] \in Seq(Event) /\ merged[q] \in Seq(Event)
  BY DEF PollTypeOK
<1>2. Len(out[q]) \in Nat /\ Len(merged[q]) \in Nat
  BY <1>1, LenProperties
<1>3. /\ Line(q) \in Seq(Event) /\ Len(Line(q)) = Len(out[q]) + Len(merged[q])
      /\ \A i \in 1 .. Len(out[q]) + Len(merged[q]) :
           Line(q)[i] = IF i <= Len(out[q]) THEN out[q][i] ELSE merged[q][i - Len(out[q])]
  BY <1>1, ConcatProperties DEF Line
<1>. DEFINE k == Len(out[q])
            l == Len(merged[q])
            L == Line(q)
<1>4. \A i \in 1 .. Len(Line(q)) : Line(q)[i] \in Event
  BY <1>3, ElementOfSeq
<1>5. out[q] = <<>> /\ merged[q] = <<>> => Line(q) = <<>>
  BY <1>1, ConcatEmptySeq DEF Line
<1>. HIDE DEF k, l, L
<1>6. /\ k \in Nat /\ l \in Nat /\ Len(L) = k + l
      /\ \A i \in 1 .. k + l : L[i] = IF i <= k THEN out[q][i] ELSE merged[q][i - k]
  BY <1>2, <1>3 DEF k, l, L
<1>7. Len(L) \in Nat /\ k <= Len(L)
  BY <1>6
<1>8. \A i \in 1 .. k : L[i] = out[q][i]
  <2>1. \A i \in 1 .. k : i \in 1 .. k + l /\ i <= k
    BY <1>6
  <2>. QED BY <1>6, <2>1
<1>. QED BY <1>1, <1>2, <1>3, <1>4, <1>5, <1>7, <1>8 DEF k, L

LEMMA LineCollect ==
  ASSUME PollTypeOK, NEW q \in Pollers, Collect(q)
  PROVE  Line(q)' = Line(q)
<1>. DEFINE o == out[q]
            m == merged[q]
            h == Head(m)
            k == Len(o)
            l == Len(m)
<1>1. o \in Seq(Event) /\ m \in Seq(Event) /\ m # <<>> /\ k \in Nat
  BY LenProperties DEF PollTypeOK, Collect
<1>2. Line(q)' = Append(o, h) \o Tail(m) /\ Line(q) = o \o m
  BY DEF Line, Collect, PollTypeOK
<1>. HIDE DEF o, m
<1>3. /\ l \in Nat \ {0} /\ h = m[1] /\ h \in Event /\ Tail(m) \in Seq(Event) /\ Len(Tail(m)) = l - 1
      /\ \A i \in 1 .. l - 1 : Tail(m)[i] = m[i + 1]
  BY <1>1, HeadAndTail
<1>. HIDE DEF h
<1>4. /\ Append(o, h) \in Seq(Event) /\ Len(Append(o, h)) = k + 1
      /\ \A i \in 1 .. k : Append(o, h)[i] = o[i]
      /\ Append(o, h)[k + 1] = h
  BY <1>1, <1>3, AppendProperties
<1>. DEFINE a == Append(o, h)
            b == Tail(m)
<1>. HIDE DEF a, b, k, l
<1>10. a \in Seq(Event) /\ Len(a) = k + 1 /\ b \in Seq(Event) /\ Len(b) = l - 1
  BY <1>3, <1>4 DEF a, b
<1>5. /\ a \o b \in Seq(Event) /\ Len(a \o b) = (k + 1) + (l - 1)
      /\ \A i \in 1 .. (k + 1) + (l - 1) : (a \o b)[i] = IF i <= k + 1 THEN a[i] ELSE b[i - (k + 1)]
  <2>1. /\ a \o b \in Seq(Event) /\ Len(a \o b) = Len(a) + Len(b)
        /\ \A i \in 1 .. Len(a) + Len(b) : (a \o b)[i] = IF i <= Len(a) THEN a[i] ELSE b[i - Len(a)]
    BY <1>10, ConcatProperties
  <2>. DEFINE x == Len(a)
              y == Len(b)
  <2>. HIDE DEF x, y
  <2>2. x = k + 1 /\ y = l - 1
    BY <1>10 DEF x, y
  <2>3. /\ a \o b \in Seq(Event) /\ Len(a \o b) = x + y
        /\ \A i \in 1 .. x + y : (a \o b)[i] = IF i <= x THEN a[i] ELSE b[i - x]
    BY <2>1 DEF x, y
  <2>. QED BY <2>2, <2>3, Zenon
<1>6. /\ o \o m \in Seq(Event) /\ Len(o \o m) = k + l
      /\ \A i \in 1 .. k + l : (o \o m)[i] = IF i <= k THEN o[i] ELSE m[i - k]
  BY <1>1, ConcatProperties DEF k, l
<1>7. (k + 1) + (l - 1) = k + l
  BY <1>1, <1>3
<1>8. ASSUME NEW i \in 1 .. k + l PROVE (a \o b)[i] = (o \o m)[i]
  <2>1. CASE i <= k
    <3>1. i \in 1 .. k /\ i <= k + 1
      BY <1>1, <2>1
    <3>. QED BY <1>4, <1>5, <1>6, <1>7, <2>1, <3>1 DEF a
  <2>2. CASE i = k + 1
    <3>1. i <= k + 1 /\ ~ (i <= k) /\ i - k = 1
      BY <1>1, <2>2
    <3>. QED BY <1>3, <1>4, <1>5, <1>6, <1>7, <2>2, <3>1 DEF a
  <2>3. CASE i > k + 1
    <3>1. ~ (i <= k + 1) /\ ~ (i <= k) /\ i - (k + 1) \in 1 .. l - 1 /\ (i - (k + 1)) + 1 = i - k
      BY <1>1, <1>3, <2>3
    <3>. QED BY <1>3, <1>5, <1>6, <1>7, <3>1 DEF b
  <2>4. i <= k \/ i = k + 1 \/ i > k + 1
    BY <1>1, <1>3
  <2>. QED BY <2>1, <2>2, <2>3, <2>4, Zenon
<1>9. a \o b = o \o m
  BY <1>5, <1>6, <1>7, <1>8, SeqEqual
<1>. QED BY <1>2, <1>9 DEF a, b

LEMMA LinePass ==
  ASSUME PollTypeOK, NEW q \in Pollers, NEW s \in Subs, ForwardPass(q, s)
  PROVE  /\ Len(Line(q)') = Len(Line(q)) + 1
         /\ \A i \in 1 .. Len(Line(q)) : Line(q)'[i] = Line(q)[i]
         /\ Line(q)'[Len(Line(q)) + 1] = held[s]
<1>1. out[q] \in Seq(Event) /\ merged[q] \in Seq(Event) /\ held[s] \in Event
  BY DEF PollTypeOK, ForwardPass
<1>2. Line(q)' = out[q] \o Append(merged[q], held[s])
  BY DEF Line, ForwardPass, PollTypeOK
<1>3. Line(q)' = Append(Line(q), held[s])
  <2>1. <<held[s]>> \in Seq(Event)
    BY <1>1
  <2>2. out[q] \o merged[q] \in Seq(Event)
    BY <1>1, ConcatProperties
  <2>3. /\ Append(merged[q], held[s]) = merged[q] \o <<held[s]>>
        /\ Append(out[q] \o merged[q], held[s]) = (out[q] \o merged[q]) \o <<held[s]>>
    BY <1>1, <2>2, AppendIsConcat
  <2>4. (out[q] \o merged[q]) \o <<held[s]>> = out[q] \o (merged[q] \o <<held[s]>>)
    <3>. DEFINE o == out[q]
                m == merged[q]
                e == <<held[s]>>
    <3>1. o \in Seq(Event) /\ m \in Seq(Event) /\ e \in Seq(Event)
      BY <1>1, <2>1, Zenon
    <3>. HIDE DEF o, m, e
    <3>2. (o \o m) \o e = o \o (m \o e)
      BY <3>1, ConcatAssociative
    <3>. QED BY <3>2 DEF o, m, e
  <2>5. Line(q) = out[q] \o merged[q]
    BY DEF Line
  <2>. QED BY <1>2, <2>3, <2>4, <2>5, Zenon
<1>4. Line(q) \in Seq(Event)
  BY LineType
<1>. QED BY <1>1, <1>3, <1>4, AppendProperties

LEMMA LineFetch ==
  ASSUME PollTypeOK, TypeInv, NEW q \in Pollers, PlaceInv(q), Fetch(q)
  PROVE  LET n == Len(Line(q))
             t == Head(unread[q])
             b == Read(t, fromSeq[q])
         IN  /\ t \in Topics /\ t \in ToSet(unread[q])
             /\ Len(Line(q)') = n + Len(b)
             /\ \A i \in 1 .. n : Line(q)'[i] = Line(q)[i]
             /\ \A j \in 1 .. Len(b) : Line(q)'[n + j] = b[j]
             /\ out'[q] = <<>> => out[q] = <<>> /\ b = <<>>
<1>. DEFINE o == out[q]
            t == Head(unread[q])
            b == Read(t, fromSeq[q])
<1>1. unread[q] \in Seq(Topics) /\ unread[q] # <<>> /\ fromSeq[q] \in Nat \ {0}
  BY DEF PollTypeOK, PlaceInv, Fetch
<1>2. t \in Topics /\ t \in ToSet(unread[q])
  BY <1>1, HeadAndTail
<1>3. b \in Seq(Event) /\ Len(b) \in Nat
  BY <1>1, <1>2, ReadFacts
<1>4. o \in Seq(Event) /\ Len(o) \in Nat
  BY LineType
<1>5. out'[q] = o \o b /\ merged[q] = <<>> /\ merged'[q] = <<>>
  BY DEF Fetch, PlaceInv, PollTypeOK, ReadFrom
<1>. HIDE DEF o, b
<1>6. Line(q) = o
  BY <1>4, <1>5, ConcatEmptySeq DEF Line, o
<1>7. /\ o \o b \in Seq(Event) /\ Len(o \o b) = Len(o) + Len(b)
      /\ \A i \in 1 .. Len(o) + Len(b) : (o \o b)[i] = IF i <= Len(o) THEN o[i] ELSE b[i - Len(o)]
      /\ o \o b = <<>> => o = <<>> /\ b = <<>>
  BY <1>3, <1>4, ConcatProperties, ConcatEqualIffEmpty
<1>8. Line(q)' = o \o b
  BY <1>5, <1>7, ConcatEmptySeq DEF Line
<1>9. ASSUME NEW j \in 1 .. Len(b) PROVE (o \o b)[Len(o) + j] = b[j]
  <2>1. Len(o) + j \in 1 .. Len(o) + Len(b) /\ ~ (Len(o) + j <= Len(o)) /\ (Len(o) + j) - Len(o) = j
    BY <1>3, <1>4
  <2>. QED BY <1>7, <2>1
<1>10. \A i \in 1 .. Len(o) : (o \o b)[i] = o[i]
  BY <1>3, <1>4, <1>7
<1>. QED BY <1>2, <1>5, <1>6, <1>7, <1>8, <1>9, <1>10 DEF o, b

--------------------------------------------------------------------------------
(* The steps, from the broker's side and from that of one client.             *)
LEMMA StoredFacts ==
  ASSUME TypeInv, NEW e, Stored(e)
  PROVE  e.topic \in Topics /\ e.seq \in Nat \ {0} /\ Len(events[e.topic]) \in Nat
<1>1. e.topic \in Topics /\ events \in [Topics -> Seq(Event)]
  BY DEF Stored, TypeInv, BrokerTypeOK
<1>2. Len(events[e.topic]) \in Nat
  BY <1>1, LenProperties
<1>. QED BY <1>1, <1>2 DEF Stored

LEMMA ListFacts ==
  ASSUME PollTypeOK, NEW q \in Pollers
  PROVE  /\ topicsOf[q] \in Seq(Topics) /\ topicsOf[q] # <<>>
         /\ Len(topicsOf[q]) \in Nat \ {0} /\ ToSet(topicsOf[q]) \subseteq Topics
<1>1. topicsOf[q] \in Seq(Topics) /\ topicsOf[q] # <<>>
  BY TopicListsAssumption DEF PollTypeOK
<1>. QED BY <1>1, Elements, EmptySeq

LEMMA PollIsBroker ==
  ASSUME PollBase, PollNext
  PROVE  BrokerAct
<1>1. ASSUME NEW p \in Publishers,
             \/ \E t \in Topics : PublishCall(p, t, TRUE, 0)
             \/ Lock(p)
             \/ PublishStep(p)
      PROVE  BrokerAct
  <2>1. \A t \in Topics : TRUE \in Outcomes(t)
    BY DEF Outcomes
  <2>2. 0 \in Nat
    OBVIOUS
  <2>. QED BY <1>1, <2>1, <2>2 DEF BrokerAct, PublisherAct
<1>2. ASSUME NEW q \in Pollers, PollCall(q) \/ Fetch(q) \/ FetchFails(q) \/ Collect(q) \/ Deadline(q)
                                \/ Respond(q) \/ PollReturn(q)
      PROVE  BrokerAct
  <2>1. UNCHANGED brokerVars
    BY <1>2 DEF PollCall, Fetch, FetchFails, Collect, Deadline, Respond, PollReturn, End
  <2>. QED BY <2>1 DEF BrokerAct
<1>3. ASSUME NEW q \in Pollers, NEW s \in Subs, Join(q, s) PROVE BrokerAct
  <2>1. [kind |-> "latest", value |-> 0] \in From
    BY DEF From
  <2>2. Head(unread[q]) \in Topics
    BY <1>3, HeadAndTail DEF Join, PollBase, PollTypeOK
  <2>. QED BY <1>3, <2>1, <2>2 DEF BrokerAct, SubscriberAct, Join
<1>4. ASSUME NEW q \in Pollers, NEW s \in Subs, Joined(q, s) \/ Leave(q, s) \/ LeaveStep(q, s)
      PROVE  BrokerAct
  BY <1>4 DEF BrokerAct, SubscriberAct, SubscribeStep, Joined, Leave, LeaveStep
<1>5. ASSUME NEW s \in Subs, ForwardTake(s) PROVE BrokerAct
  BY <1>5 DEF BrokerAct, SubscriberAct, Consume, ForwardTake, PollBase, FwdInv
<1>6. ASSUME NEW s \in Subs, ForwardExit(s) \/ \E q \in Pollers : ForwardPass(q, s) PROVE BrokerAct
  BY <1>6 DEF BrokerAct, ForwardExit, ForwardPass
<1>. QED BY <1>1, <1>2, <1>3, <1>4, <1>5, <1>6 DEF PollNext, HandlerStep, ForwardStep

(* A step that is none of the client's own and at most one of its forwarders. *)
PollerSame(q) ==
  /\ at'[q] = at[q] /\ unread'[q] = unread[q] /\ subs'[q] = subs[q]
  /\ merged'[q] = merged[q] /\ out'[q] = out[q]
  /\ topicsOf'[q] = topicsOf[q] /\ fromSeq'[q] = fromSeq[q] /\ got'[q] = got[q]
  /\ fetched'[q] = fetched[q] /\ gap'[q] = gap[q]

SubSame(s) ==
  /\ phase'[s] = phase[s] /\ stage'[s] = stage[s] /\ subTopic'[s] = subTopic[s]
  /\ taken'[s] = taken[s] /\ fwd'[s] = fwd[s] /\ held'[s] = held[s]

Closes(s) ==
  /\ phase'[s] # "new" /\ stage'[s] # "read" /\ subTopic'[s] = subTopic[s]
  /\ fwd'[s] = fwd[s] /\ held'[s] = held[s]

Passive(q) ==
  /\ PollerSame(q)
  /\ \A s \in subs[q] : \/ SubSame(s) \/ ForwardTake(s) \/ ForwardExit(s)
                        \/ at[q] = "close" /\ Closes(s)

LEMMA SubOfOne ==
  ASSUME PollBase, NEW q \in Pollers, NEW s \in subs[q]
  PROVE  /\ s \in Subs /\ phase[s] # "new" /\ phase[s] \in Phases
         /\ \A r \in Pollers : s \in subs[r] => r = q
BY DEF PollBase, PollTypeOK, SubsInv, Disjoint, DInv, BaseInv, TypeInv, BrokerTypeOK, HubTypeOK

(* The subscriptions of a client during steps of the broker that others take. *)
LEMMA CallSame ==
  ASSUME PollBase, NEW q \in Pollers, NEW r \in Pollers,
         PollCall(r) \/ Fetch(r) \/ FetchFails(r) \/ Collect(r) \/ Deadline(r) \/ Respond(r) \/ PollReturn(r)
  PROVE  /\ \A s \in Subs : SubSame(s)
         /\ r # q => PollerSame(q)
<1>0. PollTypeOK
  BY DEF PollBase
<1>1. UNCHANGED <<phase, stage, subTopic, taken, fwd, held>>
  BY DEF PollCall, Fetch, FetchFails, Collect, Deadline, Respond, PollReturn, End,
         brokerVars, hubVars, subscribeVars, historyVars, forwardVars
<1>2. ASSUME r # q, PollCall(r) PROVE PollerSame(q)
  BY <1>0, <1>2 DEF PollTypeOK, PollCall, PollerSame
<1>3. ASSUME r # q, FetchFails(r) \/ PollReturn(r) PROVE PollerSame(q)
  BY <1>0, <1>3 DEF PollTypeOK, FetchFails, PollReturn, End, PollerSame
<1>4. ASSUME r # q, Collect(r) PROVE PollerSame(q)
  BY <1>0, <1>4 DEF PollTypeOK, Collect, PollerSame, clientVars
<1>5. ASSUME r # q, Deadline(r) PROVE PollerSame(q)
  BY <1>0, <1>5 DEF PollTypeOK, Deadline, PollerSame, clientVars
<1>6. ASSUME r # q, Respond(r) PROVE PollerSame(q)
  BY <1>0, <1>6 DEF PollTypeOK, Respond, PollerSame
<1>7. ASSUME r # q, Fetch(r) PROVE PollerSame(q)
  BY <1>0, <1>7 DEF PollTypeOK, Fetch, PollerSame
<1>. QED BY <1>1, <1>2, <1>3, <1>4, <1>5, <1>6, <1>7 DEF SubSame

LEMMA ClosesOne ==
  ASSUME PollBase, NEW r \in Pollers, NEW u \in Subs, Leave(r, u) \/ LeaveStep(r, u)
  PROVE  /\ \A s \in Subs : s # u => SubSame(s)
         /\ at[r] = "close" /\ u \in subs[r] /\ Closes(u)
         /\ \A q \in Pollers : PollerSame(q)
<1>0. /\ phase \in [Subs -> Phases] /\ stage \in [Subs -> {"none", "read", "live", "closed"}]
      /\ StageIsPhase
  BY DEF PollBase, DInv, BaseInv, TypeInv, BrokerTypeOK, HubTypeOK, HubInv
<1>1. UNCHANGED <<subTopic, taken, fwd, held, requestVars, clientVars>> /\ u \in subs[r]
  BY DEF Leave, LeaveStep, Unsubscribe, FinishClose, CloseSwap, CloseRemove, CloseDone, historyVars,
         forwardVars
<1>2. CASE Leave(r, u)
  <2>1. /\ phase' = [phase EXCEPT ![u] = "closing"] /\ stage' = [stage EXCEPT ![u] = "closed"]
        /\ at[r] = "close"
    BY <1>2 DEF Leave, Unsubscribe, CloseSwap
  <2>. QED BY <1>0, <1>1, <2>1 DEF SubSame, Closes, PollerSame, requestVars, clientVars
<1>3. CASE LeaveStep(r, u)
  <2>1. \/ phase' = [phase EXCEPT ![u] = "removed"] /\ phase[u] = "closing"
        \/ phase' = [phase EXCEPT ![u] = "done"] /\ phase[u] = "removed"
    BY <1>3 DEF LeaveStep, FinishClose, CloseRemove, CloseDone
  <2>2. stage' = stage /\ stage[u] # "read"
    BY <1>0, <1>3, <2>1 DEF LeaveStep, FinishClose, subscribeVars, StageIsPhase
  <2>3. at[r] = "close"
    <3>1. PlaceInv(r) /\ SubsInv(r) /\ at[r] \in Places
      BY DEF PollBase, PollTypeOK
    <3>. QED BY <1>1, <2>1, <3>1 DEF PlaceInv, SubsInv, Attached, Places
  <2>. QED BY <1>0, <1>1, <2>1, <2>2, <2>3 DEF SubSame, Closes, PollerSame, requestVars, clientVars
<1>. QED BY <1>2, <1>3

LEMMA PollCases ==
  ASSUME PollBase, PollNext, NEW q \in Pollers
  PROVE  \/ Passive(q)
         \/ PollCall(q) \/ Fetch(q) \/ FetchFails(q) \/ Collect(q) \/ Respond(q) \/ PollReturn(q)
         \/ \E s \in Subs : Join(q, s) \/ Joined(q, s) \/ ForwardPass(q, s)
<1>. DEFINE Own == \/ PollCall(q) \/ Fetch(q) \/ FetchFails(q) \/ Collect(q) \/ Respond(q) \/ PollReturn(q)
                   \/ \E s \in Subs : Join(q, s) \/ Joined(q, s) \/ ForwardPass(q, s)
<1>. HIDE DEF Own
<1>0. /\ PollTypeOK /\ subTopic \in [Subs -> Topics \cup {None}]
      /\ phase \in [Subs -> Phases] /\ stage \in [Subs -> {"none", "read", "live", "closed"}]
      /\ taken \in [Subs -> Nat]
      /\ \A s \in subs[q] : s \in Subs /\ phase[s] # "new" /\ \A r \in Pollers : s \in subs[r] => r = q
  BY SubOfOne DEF PollBase, DInv, BaseInv, TypeInv, BrokerTypeOK, HubTypeOK
<1>1. ASSUME NEW p \in Publishers, PublisherAct(p), UNCHANGED <<requestVars, forwardVars, clientVars>>
      PROVE  Passive(q)
  <2>1. UNCHANGED <<phase, stage, subTopic, taken>>
    BY <1>1, PublisherFrame
  <2>. QED BY <1>1, <2>1 DEF Passive, PollerSame, SubSame, requestVars, forwardVars, clientVars
<1>2. ASSUME NEW p \in Publishers,
             \/ \E t \in Topics : PublishCall(p, t, TRUE, 0)
             \/ Lock(p)
             \/ PublishStep(p)
      PROVE  PublisherAct(p)
  <2>1. 0 \in Nat /\ \A t \in Topics : TRUE \in Outcomes(t)
    BY DEF Outcomes
  <2>. QED BY <1>2, <2>1 DEF PublisherAct
<1>3. ASSUME NEW r \in Pollers,
             PollCall(r) \/ Fetch(r) \/ FetchFails(r) \/ Collect(r) \/ Deadline(r) \/ Respond(r) \/ PollReturn(r)
      PROVE  Passive(q) \/ Own
  <2>1. CASE r # q
    BY <1>0, <1>3, <2>1, CallSame DEF Passive
  <2>2. CASE r = q /\ Deadline(q)
    <3>1. PollerSame(q)
      BY <2>2 DEF Deadline, PollerSame, clientVars
    <3>. QED BY <1>0, <2>2, <3>1, CallSame DEF Passive
  <2>. QED BY <1>3, <2>1, <2>2 DEF Own
<1>4. ASSUME NEW r \in Pollers, NEW u \in Subs, Leave(r, u) \/ LeaveStep(r, u) PROVE Passive(q)
  BY <1>0, <1>4, ClosesOne DEF Passive
<1>5. ASSUME NEW r \in Pollers, r # q, NEW u \in Subs, Join(r, u) PROVE Passive(q)
  <2>1. PollerSame(q) /\ phase[u] = "new"
    BY <1>0, <1>5 DEF PollTypeOK, Join, SubscribeHub, HubSubscribe, PollerSame
  <2>2. \A s \in Subs : s # u => SubSame(s)
    BY <1>0, <1>5 DEF Join, SubscribeHub, HubSubscribe, SubSame, historyVars, forwardVars
  <2>. QED BY <1>0, <2>1, <2>2 DEF Passive
<1>6. ASSUME NEW r \in Pollers, r # q, NEW u \in Subs, Joined(r, u) PROVE Passive(q)
  <2>1. PollerSame(q) /\ u \in subs[r]
    BY <1>0, <1>6 DEF PollTypeOK, Joined, PollerSame, clientVars
  <2>2. \A s \in Subs : s # u => phase'[s] = phase[s] /\ stage'[s] = stage[s] /\ subTopic'[s] = subTopic[s]
                                 /\ taken'[s] = taken[s] /\ held'[s] = held[s]
    BY <1>0, <1>6 DEF Joined, ReadBackfill, hubVars
  <2>3. \A s \in Subs : s \notin subs[r] => fwd'[s] = fwd[s]
    BY <1>0, <1>6 DEF Joined
  <2>. QED BY <1>0, <1>6, <2>1, <2>2, <2>3 DEF Passive, SubSame
<1>7. ASSUME NEW r \in Pollers, r # q, NEW u \in Subs, ForwardPass(r, u) PROVE Passive(q)
  <2>1. PollerSame(q) /\ u \in subs[r]
    BY <1>0, <1>7 DEF PollTypeOK, ForwardPass, PollerSame, clientVars
  <2>2. \A s \in Subs : s # u => SubSame(s)
    BY <1>0, <1>7 DEF PollTypeOK, ForwardPass, SubSame, brokerVars, hubVars, subscribeVars, historyVars
  <2>. QED BY <1>0, <1>7, <2>1, <2>2 DEF Passive
<1>8. ASSUME NEW u \in Subs, ForwardTake(u) PROVE Passive(q)
  <2>1. PollerSame(q)
    BY <1>8 DEF ForwardTake, PollerSame, requestVars, clientVars
  <2>2. \A s \in Subs : s # u => SubSame(s)
    BY <1>0, <1>8 DEF PollTypeOK, ForwardTake, Take, Receive, SubSame, subscribeVars
  <2>. QED BY <1>0, <1>8, <2>1, <2>2 DEF Passive
<1>9. ASSUME NEW u \in Subs, ForwardExit(u) PROVE Passive(q)
  <2>1. PollerSame(q)
    BY <1>9 DEF ForwardExit, PollerSame, requestVars, clientVars
  <2>2. \A s \in Subs : s # u => SubSame(s)
    BY <1>0, <1>9 DEF PollTypeOK, ForwardExit, SubSame, brokerVars, hubVars, subscribeVars, historyVars
  <2>. QED BY <1>0, <1>9, <2>1, <2>2 DEF Passive
<1>10. ASSUME NEW r \in Pollers, HandlerStep(r) \/ PollCall(r) PROVE Passive(q) \/ Own
  <2>1. ASSUME NEW u \in Subs, Join(r, u) \/ Joined(r, u) PROVE Passive(q) \/ Own
    BY <1>5, <1>6, <2>1 DEF Own
  <2>. QED BY <1>3, <1>4, <1>10, <2>1 DEF HandlerStep
<1>11. ASSUME NEW u \in Subs, ForwardStep(u) PROVE Passive(q) \/ Own
  BY <1>7, <1>8, <1>9, <1>11 DEF ForwardStep, Own
<1>12. Passive(q) \/ Own
  BY <1>1, <1>2, <1>10, <1>11 DEF PollNext
<1>. QED BY <1>12 DEF Own

--------------------------------------------------------------------------------
(* The base of the invariant, part by part.                                   *)
LEMMA PollTypeStep ==
  ASSUME PollBase, PollNext
  PROVE  PollTypeOK'
<1>0. PollTypeOK /\ TypeInv /\ \A q \in Pollers : PlaceInv(q) /\ LineInv(q)
  BY DEF PollBase, DInv, BaseInv
<1>e. <<>> \in Seq(Event) /\ <<>> \in Seq(Topics)
  BY EmptySeq
<1>1. ASSUME UNCHANGED <<requestVars, forwardVars, clientVars>> PROVE PollTypeOK'
  BY <1>0, <1>1 DEF PollTypeOK, requestVars, forwardVars, clientVars
<1>2. ASSUME NEW q \in Pollers, PollCall(q) PROVE PollTypeOK'
  <2>1. topicsOf[q] \in Seq(Topics)
    BY <1>0, ListFacts
  <2>. QED BY <1>0, <1>2, <2>1 DEF PollCall, PollTypeOK, forwardVars, Places
<1>3. ASSUME NEW q \in Pollers, End(q) PROVE PollTypeOK'
  BY <1>0, <1>e, <1>3 DEF End, PollTypeOK, forwardVars, Places
<1>4. ASSUME NEW q \in Pollers, Fetch(q) PROVE PollTypeOK'
  <2>. DEFINE t == Head(unread[q])
  <2>1. unread[q] \in Seq(Topics) /\ unread[q] # <<>> /\ fromSeq[q] \in Nat \ {0} /\ out[q] \in Seq(Event)
    BY <1>0, <1>4 DEF PollTypeOK, PlaceInv, Fetch
  <2>2. t \in Topics /\ Tail(unread[q]) \in Seq(Topics)
    BY <2>1, HeadAndTail
  <2>3. Len(events[t]) \in Nat
    BY <1>0, <2>2, LenProperties DEF TypeInv, BrokerTypeOK
  <2>4. out[q] \o ReadFrom(q, t) \in Seq(Event)
    <3>1. ReadFrom(q, t) \in Seq(Event)
      BY <1>0, <2>1, <2>2, ReadFacts DEF ReadFrom
    <3>. QED BY <2>1, <3>1, ConcatProperties
  <2>. HIDE DEF t
  <2>5. topicsOf[q] \in Seq(Topics)
    BY <1>0, ListFacts
  <2>6. out' = [out EXCEPT ![q] = out[q] \o ReadFrom(q, t)] /\ out' \in [Pollers -> Seq(Event)]
    BY <1>0, <1>4, <2>4 DEF Fetch, PollTypeOK, t
  <2>7. fetched' \in [Pollers -> [Topics -> Nat]]
    <3>1. fetched' = [fetched EXCEPT ![q][t] = Len(events[t])]
      BY <1>4 DEF Fetch, t
    <3>. QED BY <1>0, <2>2, <2>3, <3>1 DEF PollTypeOK
  <2>8. unread' \in [Pollers -> Seq(Topics)]
    BY <1>0, <1>4, <1>e, <2>2, <2>5 DEF Fetch, PollTypeOK
  <2>9. at' \in [Pollers -> Places]
    <3>1. at' = at \/ at' = [at EXCEPT ![q] = "respond"] \/ at' = [at EXCEPT ![q] = "subscribe"]
      BY <1>4 DEF Fetch
    <3>2. at \in [Pollers -> Places] /\ "respond" \in Places /\ "subscribe" \in Places
      BY <1>0 DEF PollTypeOK, Places
    <3>. QED BY <3>1, <3>2
  <2>. QED BY <1>0, <1>4, <2>6, <2>7, <2>8, <2>9 DEF Fetch, PollTypeOK, forwardVars
<1>5. ASSUME NEW q \in Pollers, NEW s \in Subs, Join(q, s) PROVE PollTypeOK'
  <2>. DEFINE t == Head(unread[q])
              new == fetched[q][t] + 1 .. Len(events[t])
  <2>1. unread[q] \in Seq(Topics) /\ unread[q] # <<>>
    BY <1>0, <1>5 DEF PollTypeOK, Join
  <2>2. t \in Topics /\ Tail(unread[q]) \in Seq(Topics)
    BY <2>1, HeadAndTail
  <2>3. Len(events[t]) \in Nat /\ fetched[q][t] \in Nat
    BY <1>0, <2>2, LenProperties DEF TypeInv, BrokerTypeOK, PollTypeOK
  <2>4. new \subseteq Nat
    BY <2>3
  <2>. HIDE DEF new
  <2>5. gap' = [gap EXCEPT ![q][t] = gap[q][t] \cup new]
    BY <1>0, <1>5, <2>2 DEF Join, new, PollTypeOK
  <2>. HIDE DEF t
  <2>6. gap' \in [Pollers -> [Topics -> SUBSET Nat]]
    <3>1. gap \in [Pollers -> [Topics -> SUBSET Nat]]
      BY <1>0 DEF PollTypeOK
    <3>2. gap[q] \in [Topics -> SUBSET Nat] /\ gap[q][t] \cup new \in SUBSET Nat
      BY <2>2, <2>4, <3>1
    <3>3. [gap[q] EXCEPT ![t] = gap[q][t] \cup new] \in [Topics -> SUBSET Nat]
      BY <3>2
    <3>. QED BY <2>5, <3>1, <3>3
  <2>7. unread' \in [Pollers -> Seq(Topics)] /\ subs' \in [Pollers -> SUBSET Subs]
    BY <1>0, <1>5, <2>2 DEF Join, PollTypeOK
  <2>. QED BY <1>0, <1>5, <2>6, <2>7 DEF Join, PollTypeOK, forwardVars
<1>6. ASSUME NEW q \in Pollers, NEW s \in Subs, Joined(q, s) PROVE PollTypeOK'
  <2>1. /\ UNCHANGED <<unread, subs, merged, out, held, clientVars>>
        /\ \/ fwd' = [r \in Subs |-> IF r \in subs[q] THEN "run" ELSE fwd[r]]
              /\ at' = [at EXCEPT ![q] = "wait"]
           \/ UNCHANGED <<fwd, at>>
    BY <1>6 DEF Joined
  <2>2. /\ fwd' \in [Subs -> {"none", "run", "exit"}]
        /\ at' \in [Pollers -> Places]
    BY <1>0, <2>1 DEF PollTypeOK, Places
  <2>. QED BY <1>0, <2>1, <2>2 DEF PollTypeOK, clientVars
<1>7. ASSUME NEW s \in Subs, ForwardTake(s) PROVE PollTypeOK'
  <2>1. chan[s] \in Seq(Frame) /\ chan[s] # <<>>
    BY <1>0, <1>7 DEF ForwardTake, Take, Receive, TypeInv, BrokerTypeOK, HubTypeOK
  <2>2. Head(chan[s]).event \in Event
    <3>1. Head(chan[s]) \in Frame
      BY <2>1, HeadAndTail
    <3>. QED BY <3>1 DEF Frame
  <2>. QED BY <1>0, <1>7, <2>2 DEF ForwardTake, PollTypeOK, requestVars, clientVars
<1>8. ASSUME NEW q \in Pollers, NEW s \in Subs, ForwardPass(q, s) PROVE PollTypeOK'
  <2>1. Append(merged[q], held[s]) \in Seq(Event)
    BY <1>0, <1>8, AppendProperties DEF ForwardPass, PollTypeOK
  <2>. QED BY <1>0, <1>8, <2>1 DEF ForwardPass, PollTypeOK, clientVars
<1>9. ASSUME NEW s \in Subs, ForwardExit(s) PROVE PollTypeOK'
  BY <1>0, <1>9 DEF ForwardExit, PollTypeOK, requestVars, clientVars
<1>10. ASSUME NEW q \in Pollers, Collect(q) PROVE PollTypeOK'
  <2>1. /\ merged[q] \in Seq(Event) /\ merged[q] # <<>> /\ out[q] \in Seq(Event)
        /\ out' = [out EXCEPT ![q] = Append(out[q], Head(merged[q]))]
        /\ merged' = [merged EXCEPT ![q] = Tail(merged[q])]
    BY <1>0, <1>10 DEF Collect, PollTypeOK
  <2>2. Head(merged[q]) \in Event /\ Tail(merged[q]) \in Seq(Event)
    BY <2>1, HeadAndTail
  <2>3. Append(out[q], Head(merged[q])) \in Seq(Event)
    BY <2>1, <2>2, AppendProperties
  <2>4. out' \in [Pollers -> Seq(Event)] /\ merged' \in [Pollers -> Seq(Event)]
    BY <1>0, <2>1, <2>2, <2>3 DEF PollTypeOK
  <2>. QED BY <1>0, <1>10, <2>4 DEF Collect, PollTypeOK, forwardVars, clientVars, Places
<1>11. ASSUME NEW q \in Pollers, Deadline(q) PROVE PollTypeOK'
  BY <1>0, <1>11 DEF Deadline, PollTypeOK, brokerVars, forwardVars, clientVars
<1>12. ASSUME NEW q \in Pollers, Respond(q) PROVE PollTypeOK'
  <2>1. at[q] # "close" /\ out[q] \in Seq(Event) /\ ToSet(out[q]) \subseteq Event
    <3>1. at[q] # "close" /\ out[q] \in Seq(Event)
      BY <1>0, <1>12 DEF Respond, Ready, PollTypeOK
    <3>. QED BY <3>1, Elements
  <2>2. ASSUME NEW i \in 1 .. Len(out[q]) PROVE out[q][i].seq \in Nat \ {0}
    <3>1. i \in 1 .. Len(Line(q)) /\ out[q][i] = Line(q)[i]
      BY <1>0, LineType
    <3>2. Stored(out[q][i])
      BY <1>0, <2>1, <3>1 DEF LineInv, Asked
    <3>. QED BY <1>0, <3>2, StoredFacts
  <2>3. maxSeq(out[q]) \in Nat
    BY <2>1, <2>2, MaxSeqFacts
  <2>. DEFINE m == maxSeq(out[q])
  <2>. HIDE DEF m
  <2>4. m + 1 \in Nat \ {0}
    BY <2>3 DEF m
  <2>5. CASE UNCHANGED <<got, fromSeq>>
    BY <1>0, <1>12, <2>5 DEF Respond, PollTypeOK, forwardVars, Places
  <2>6. CASE /\ got' = [got EXCEPT ![q] = @ \cup ToSet(out[q])]
             /\ fromSeq' = [fromSeq EXCEPT ![q] = m + 1]
    BY <1>0, <1>12, <2>1, <2>4, <2>6 DEF Respond, PollTypeOK, forwardVars, Places
  <2>. QED BY <1>12, <2>5, <2>6 DEF Respond, m
<1>13. ASSUME NEW q \in Pollers, NEW s \in Subs, Leave(q, s) \/ LeaveStep(q, s) PROVE PollTypeOK'
  BY <1>1, <1>13 DEF Leave, LeaveStep
<1>14. ASSUME NEW q \in Pollers, HandlerStep(q) PROVE PollTypeOK'
  BY <1>3, <1>4, <1>5, <1>6, <1>10, <1>11, <1>12, <1>13, <1>14 DEF HandlerStep, FetchFails, PollReturn
<1>15. ASSUME NEW s \in Subs, ForwardStep(s) PROVE PollTypeOK'
  BY <1>7, <1>8, <1>9, <1>15 DEF ForwardStep
<1>. QED BY <1>1, <1>2, <1>14, <1>15 DEF PollNext

(* A subscription that its caller has stays so.                               *)
LEMMA StageStays ==
  ASSUME TypeInv, BrokerAct, NEW s \in Subs, stage[s] \in {"live", "closed"}
  PROVE  stage'[s] \in {"live", "closed"}
<1>0. stage \in [Subs -> {"none", "read", "live", "closed"}]
  BY DEF TypeInv, BrokerTypeOK
<1>1. ASSUME NEW r \in Subs, SubscriberAct(r) PROVE stage'[s] \in {"live", "closed"}
  BY <1>0, <1>1
     DEF SubscriberAct, SubscribeHub, SubscribeStep, ReadBackfill, ReadFails, Unsubscribe, FinishClose,
         Consume, Take, subscribeVars
<1>. QED BY <1>1, PublisherFrame DEF BrokerAct, brokerVars, subscribeVars

LEMMA FwdStep ==
  ASSUME PollBase, PollNext, NEW s \in Subs
  PROVE  FwdInv(s)'
<1>0. /\ PollTypeOK /\ FwdInv(s) /\ BrokerAct /\ TypeInv
      /\ stage \in [Subs -> {"none", "read", "live", "closed"}]
  BY PollIsBroker DEF PollBase, DInv, BaseInv, TypeInv, BrokerTypeOK
<1>1. stage[s] \in {"live", "closed"} => stage'[s] \in {"live", "closed"}
  BY <1>0, StageStays
<1>2. CASE /\ fwd'[s] = fwd[s] \/ (fwd[s] = "run" /\ fwd'[s] = "exit")
           /\ fwd[s] = "none" => held'[s] = held[s]
  BY <1>0, <1>1, <1>2 DEF FwdInv
<1>3. CASE UNCHANGED forwardVars
  BY <1>2, <1>3 DEF forwardVars
<1>4. ASSUME NEW q \in Pollers, NEW r \in Subs, Joined(q, r) PROVE FwdInv(s)'
  <2>1. CASE s \notin subs[q] \/ unread[q] # <<>>
    <3>1. fwd'[s] = fwd[s] /\ held' = held
      BY <1>0, <1>4, <2>1 DEF Joined, PollTypeOK
    <3>. QED BY <1>2, <3>1
  <2>2. CASE s \in subs[q] /\ unread[q] = <<>>
    <3>1. stage'[s] \in {"live", "closed"}
      <4>1. SubsInv(q) /\ at[q] \in Places /\ r \in subs[q] /\ stage[r] = "read" /\ StageIsPhase
        BY <1>4 DEF PollBase, PollTypeOK, Joined, ReadBackfill, DInv, BaseInv, HubInv
      <4>2. at[q] = "subscribe" /\ phase[s] = "open" /\ (stage[s] = "read" => s = r)
        BY <2>2, <4>1 DEF SubsInv, Attached
      <4>3. s # r => stage[s] = "live"
        BY <4>1, <4>2 DEF StageIsPhase
      <4>. QED BY <1>0, <1>4, <4>3 DEF Joined, ReadBackfill
    <3>2. fwd'[s] = "run"
      BY <1>4, <2>2 DEF Joined
    <3>. QED BY <3>1, <3>2 DEF FwdInv
  <2>. QED BY <2>1, <2>2
<1>5. ASSUME NEW r \in Subs, ForwardStep(r) PROVE FwdInv(s)'
  <2>1. CASE ForwardTake(r)
    <3>1. fwd' = fwd /\ (r # s => held'[s] = held[s]) /\ fwd[r] = "run"
      BY <1>0, <2>1 DEF ForwardTake, PollTypeOK
    <3>. QED BY <1>2, <3>1
  <2>2. ASSUME NEW q \in Pollers, ForwardPass(q, r) PROVE FwdInv(s)'
    <3>1. fwd' = fwd /\ (r # s => held'[s] = held[s]) /\ fwd[r] = "run"
      BY <1>0, <2>2 DEF ForwardPass, PollTypeOK
    <3>. QED BY <1>2, <3>1
  <2>3. CASE ForwardExit(r)
    <3>1. /\ r # s => fwd'[s] = fwd[s] /\ held'[s] = held[s]
          /\ fwd[r] = "run" /\ fwd'[r] = "exit"
      BY <1>0, <2>3 DEF ForwardExit, PollTypeOK
    <3>. QED BY <1>2, <3>1
  <2>. QED BY <1>5, <2>1, <2>2, <2>3 DEF ForwardStep
<1>6. ASSUME NEW q \in Pollers, HandlerStep(q) PROVE FwdInv(s)'
  <2>1. UNCHANGED forwardVars \/ \E r \in Subs : Joined(q, r)
    BY <1>6 DEF HandlerStep, Fetch, FetchFails, Collect, Deadline, Respond, PollReturn, End, Join,
                Leave, LeaveStep
  <2>. QED BY <1>3, <1>4, <2>1
<1>7. ASSUME NEW q \in Pollers, PollCall(q) PROVE FwdInv(s)'
  BY <1>3, <1>7 DEF PollCall
<1>. QED BY <1>3, <1>5, <1>6, <1>7 DEF PollNext

LEMMA DisjointStep ==
  ASSUME PollBase, PollNext
  PROVE  Disjoint'
<1>0. PollTypeOK /\ Disjoint
  BY DEF PollBase
<1>1. CASE UNCHANGED subs
  BY <1>0, <1>1 DEF Disjoint
<1>2. ASSUME NEW q \in Pollers, End(q) PROVE Disjoint'
  <2>1. \A r \in Pollers : subs'[r] \subseteq subs[r]
    BY <1>0, <1>2 DEF End, PollTypeOK
  <2>. QED BY <1>0, <2>1 DEF Disjoint
<1>3. ASSUME NEW q \in Pollers, NEW s \in Subs, Join(q, s) PROVE Disjoint'
  <2>1. phase[s] = "new" /\ \A r \in Pollers : subs'[r] = IF r = q THEN subs[q] \cup {s} ELSE subs[r]
    BY <1>0, <1>3 DEF Join, SubscribeHub, HubSubscribe, PollTypeOK
  <2>2. \A r \in Pollers : s \notin subs[r]
    BY <2>1, SubOfOne
  <2>. QED BY <1>0, <2>1, <2>2 DEF Disjoint
<1>4. ASSUME NEW q \in Pollers, HandlerStep(q) PROVE Disjoint'
  <2>1. UNCHANGED subs \/ End(q) \/ \E s \in Subs : Join(q, s)
    BY <1>4 DEF HandlerStep, Fetch, FetchFails, Collect, Deadline, Respond, PollReturn, Joined, Leave,
                LeaveStep, requestVars
  <2>. QED BY <1>1, <1>2, <1>3, <2>1
<1>5. ASSUME NEW q \in Pollers, PollCall(q) PROVE Disjoint'
  BY <1>1, <1>5 DEF PollCall
<1>6. ASSUME NEW s \in Subs, ForwardStep(s) PROVE Disjoint'
  BY <1>1, <1>6 DEF ForwardStep, ForwardTake, ForwardPass, ForwardExit, requestVars
<1>. QED BY <1>1, <1>4, <1>5, <1>6 DEF PollNext, requestVars

LEMMA PlaceStep ==
  ASSUME PollBase, PollNext, NEW q \in Pollers
  PROVE  PlaceInv(q)'
<1>0. PollTypeOK /\ PlaceInv(q) /\ SubsInv(q) /\ unread[q] \in Seq(Topics)
  BY DEF PollBase, PollTypeOK
<1>e. ToSet(<<>>) = {}
  <2>1. <<>> \in Seq({})
    BY EmptySeq
  <2>. DEFINE u == <<>>
  <2>2. u \in Seq({})
    BY <2>1
  <2>. HIDE DEF u
  <2>3. ToSet(u) \subseteq {}
    BY <2>2, Elements
  <2>4. ToSet(u) = {}
    BY <2>3
  <2>. QED BY <2>4 DEF u
<1>1. CASE Passive(q)
  BY <1>0, <1>1 DEF PlaceInv, Passive, PollerSame
<1>2. CASE PollCall(q)
  <2>1. topicsOf[q] # <<>>
    BY <1>0, ListFacts
  <2>2. /\ at[q] = "idle" /\ at'[q] = "fetch" /\ unread'[q] = topicsOf[q]
        /\ UNCHANGED <<subs, merged, topicsOf>>
    BY <1>0, <1>2 DEF PollCall, PollTypeOK
  <2>. QED BY <1>0, <2>1, <2>2 DEF PlaceInv
<1>3. CASE FetchFails(q) \/ PollReturn(q)
  <2>1. /\ at'[q] = "idle" /\ unread'[q] = <<>> /\ subs'[q] = {} /\ merged'[q] = <<>> /\ out'[q] = <<>>
    BY <1>0, <1>3 DEF FetchFails, PollReturn, End, PollTypeOK
  <2>. QED BY <1>e, <2>1 DEF PlaceInv
<1>4. CASE Fetch(q)
  <2>1. /\ at[q] = "fetch" /\ UNCHANGED <<subs, merged, topicsOf>>
        /\ \/ /\ Len(unread[q]) > 1 /\ unread'[q] = Tail(unread[q]) /\ at'[q] = "fetch"
           \/ at'[q] = "respond" /\ unread'[q] = <<>>
           \/ at'[q] = "subscribe" /\ unread'[q] = topicsOf[q] /\ out'[q] = <<>>
    BY <1>0, <1>4 DEF Fetch, PollTypeOK
  <2>2. unread[q] # <<>> /\ ToSet(unread[q]) \subseteq ToSet(topicsOf[q])
    BY <1>0, <2>1 DEF PlaceInv
  <2>3. /\ ToSet(Tail(unread[q])) \subseteq ToSet(unread[q])
        /\ Len(unread[q]) > 1 => Tail(unread[q]) # <<>>
    <3>1. /\ ToSet(Tail(unread[q])) \subseteq ToSet(unread[q])
          /\ Len(Tail(unread[q])) = Len(unread[q]) - 1 /\ Len(unread[q]) \in Nat
      BY <1>0, <2>2, HeadAndTail
    <3>. QED BY <3>1, EmptySeq
  <2>. QED BY <1>0, <1>e, <2>1, <2>2, <2>3 DEF PlaceInv
<1>5. CASE Collect(q)
  <2>1. at'[q] = "batch" /\ UNCHANGED <<unread, topicsOf>>
    BY <1>0, <1>5 DEF Collect, PollTypeOK, clientVars
  <2>. QED BY <1>0, <2>1 DEF PlaceInv
<1>6. CASE Respond(q)
  <2>1. at'[q] = "close" /\ UNCHANGED <<unread, topicsOf>>
    BY <1>0, <1>6 DEF Respond, PollTypeOK
  <2>. QED BY <1>0, <2>1 DEF PlaceInv
<1>7. ASSUME NEW s \in Subs, Join(q, s) PROVE PlaceInv(q)'
  <2>1. /\ at[q] = "subscribe" /\ unread[q] # <<>> /\ unread'[q] = Tail(unread[q])
        /\ UNCHANGED <<at, merged, out, topicsOf>>
    BY <1>0, <1>7 DEF Join, PollTypeOK
  <2>2. ToSet(Tail(unread[q])) \subseteq ToSet(unread[q])
    BY <1>0, <2>1, HeadAndTail
  <2>. QED BY <1>0, <2>1, <2>2 DEF PlaceInv
<1>8. ASSUME NEW s \in Subs, Joined(q, s) PROVE PlaceInv(q)'
  <2>1. /\ UNCHANGED <<unread, subs, merged, out, topicsOf>>
        /\ at'[q] = "wait" \/ at'[q] = at[q]
    BY <1>0, <1>8 DEF Joined, PollTypeOK, clientVars
  <2>. QED BY <1>0, <2>1 DEF PlaceInv
<1>9. ASSUME NEW s \in Subs, ForwardPass(q, s) PROVE PlaceInv(q)'
  <2>1. UNCHANGED <<at, unread, subs, out, topicsOf>> /\ s \in subs[q] /\ fwd[s] # "none"
    BY <1>9 DEF ForwardPass, clientVars
  <2>2. at[q] # "subscribe" /\ subs[q] # {}
    BY <1>0, <2>1 DEF SubsInv
  <2>. QED BY <1>0, <2>1, <2>2 DEF PlaceInv
<1>. QED BY <1>1, <1>2, <1>3, <1>4, <1>5, <1>6, <1>7, <1>8, <1>9, PollCases

LEMMA SubsStep ==
  ASSUME PollBase, PollNext, NEW q \in Pollers
  PROVE  SubsInv(q)'
<1>0. /\ PollTypeOK /\ PlaceInv(q) /\ SubsInv(q) /\ at[q] \in Places
      /\ unread[q] \in Seq(Topics) /\ StageIsPhase
      /\ subTopic \in [Subs -> Topics \cup {None}]
      /\ phase \in [Subs -> Phases] /\ stage \in [Subs -> {"none", "read", "live", "closed"}]
      /\ \A s \in subs[q] : s \in Subs
  BY SubOfOne DEF PollBase, PollTypeOK, DInv, BaseInv, HubInv, TypeInv, BrokerTypeOK, HubTypeOK
<1>1. CASE Passive(q)
  <2>1. at'[q] = at[q] /\ subs'[q] = subs[q] /\ topicsOf'[q] = topicsOf[q]
    BY <1>1 DEF Passive, PollerSame
  <2>2. ASSUME NEW s \in subs[q]
        PROVE  /\ phase'[s] # "new" /\ subTopic'[s] = subTopic[s] /\ (stage[s] # "read" => stage'[s] # "read")
               /\ at[q] # "close" => /\ phase'[s] = phase[s] /\ stage'[s] = stage[s]
                                     /\ fwd[s] = "none" => fwd'[s] = "none"
    <3>0. phase[s] # "new"
      BY <1>0 DEF SubsInv
    <3>1. CASE SubSame(s)
      BY <3>0, <3>1 DEF SubSame
    <3>2. CASE ForwardTake(s)
      BY <3>0, <3>2 DEF ForwardTake, Take, Receive, subscribeVars
    <3>3. CASE ForwardExit(s)
      BY <3>0, <3>3 DEF ForwardExit, brokerVars, hubVars, subscribeVars
    <3>4. CASE at[q] = "close" /\ Closes(s)
      BY <3>4 DEF Closes
    <3>. QED BY <1>1, <3>1, <3>2, <3>3, <3>4 DEF Passive
  <2>3. \A s \in subs'[q] : phase'[s] # "new" /\ subTopic'[s] \in ToSet(topicsOf'[q])
    BY <1>0, <2>1, <2>2 DEF SubsInv
  <2>4. Attached(q)' => \A s \in subs'[q] : phase'[s] = "open"
    BY <1>0, <2>1, <2>2 DEF SubsInv, Attached
  <2>5. at'[q] = "subscribe" =>
          /\ \A s \in subs'[q] : fwd'[s] = "none"
          /\ \A r, s \in subs'[q] : stage'[r] = "read" /\ stage'[s] = "read" => r = s
    BY <1>0, <2>1, <2>2 DEF SubsInv
  <2>6. at'[q] # "subscribe" => \A s \in subs'[q] : stage'[s] # "read"
    BY <1>0, <2>1, <2>2 DEF SubsInv
  <2>. QED BY <2>3, <2>4, <2>5, <2>6 DEF SubsInv
<1>2. CASE subs'[q] = {}
  BY <1>2 DEF SubsInv
<1>3. CASE PollCall(q) \/ Fetch(q) \/ FetchFails(q) \/ PollReturn(q)
  <2>1. subs'[q] = {}
    BY <1>0, <1>3 DEF PollCall, Fetch, FetchFails, PollReturn, End, PollTypeOK, PlaceInv
  <2>. QED BY <1>2, <2>1
<1>4. CASE Collect(q) \/ Respond(q)
  <2>1. /\ UNCHANGED <<subs, phase, subTopic, stage, topicsOf>>
        /\ at[q] # "subscribe" /\ at'[q] \in {"batch", "close"}
        /\ at'[q] = "batch" => Attached(q)
    BY <1>0, <1>4 DEF Collect, Respond, Ready, PollTypeOK, Attached, clientVars, brokerVars, hubVars,
                      subscribeVars
  <2>. QED BY <1>0, <2>1 DEF SubsInv, Attached
<1>5. ASSUME NEW s \in Subs, Join(q, s) PROVE SubsInv(q)'
  <2>1. /\ at[q] = "subscribe" /\ unread[q] # <<>> /\ UNCHANGED <<at, fwd, topicsOf>>
        /\ \A r \in subs[q] : stage[r] = "live"
        /\ subs'[q] = subs[q] \cup {s} /\ stage[s] = "none"
        /\ phase' = [phase EXCEPT ![s] = "open"]
        /\ stage' = [stage EXCEPT ![s] = "read"]
        /\ subTopic' = [subTopic EXCEPT ![s] = Head(unread[q])]
    BY <1>0, <1>5 DEF Join, SubscribeHub, HubSubscribe, PollTypeOK, forwardVars
  <2>2. Head(unread[q]) \in ToSet(topicsOf[q])
    BY <1>0, <2>1, HeadAndTail DEF PlaceInv
  <2>3. fwd[s] = "none"
    BY <2>1 DEF PollBase, FwdInv
  <2>. QED BY <1>0, <2>1, <2>2, <2>3 DEF SubsInv, Attached
<1>6. ASSUME NEW s \in Subs, Joined(q, s) PROVE SubsInv(q)'
  <2>1. /\ s \in subs[q] /\ stage[s] = "read"
        /\ UNCHANGED <<subs, topicsOf, phase, subTopic>>
        /\ stage' = [stage EXCEPT ![s] = "live"]
        /\ at'[q] = "wait" \/ (at'[q] = at[q] /\ fwd' = fwd)
    BY <1>0, <1>6 DEF Joined, ReadBackfill, PollTypeOK, hubVars, clientVars
  <2>2. at[q] = "subscribe"
    BY <1>0, <2>1 DEF SubsInv
  <2>. QED BY <1>0, <2>1, <2>2 DEF SubsInv, Attached
<1>7. ASSUME NEW s \in Subs, ForwardPass(q, s) PROVE SubsInv(q)'
  BY <1>0, <1>7
     DEF ForwardPass, SubsInv, Attached, brokerVars, hubVars, subscribeVars, clientVars
<1>. QED BY <1>1, <1>3, <1>4, <1>5, <1>6, <1>7, PollCases

(* What a forwarder takes is the next event of its channel.                   *)
LEMMA TakeFacts ==
  ASSUME TypeInv, PollTypeOK, NEW s \in Subs, OrderInv(s), ForwardTake(s)
  PROVE  /\ held[s] = None /\ held'[s] = chan[s][1].event
         /\ 1 \in 1 .. Len(chan[s])
         /\ Stored(chan[s][1].event) /\ chan[s][1].event.topic = subTopic[s]
         /\ taken'[s] = chan[s][1].event.seq /\ taken[s] < chan[s][1].event.seq
         /\ taken[s] \in Nat /\ taken'[s] \in Nat
         /\ Len(chan'[s]) = Len(chan[s]) - 1
         /\ \A i \in 1 .. Len(chan[s]) - 1 : chan'[s][i] = chan[s][i + 1]
         /\ UNCHANGED <<subTopic, events, fwd, phase, stage>>
<1>1. /\ chan \in [Subs -> Seq(Frame)] /\ chan[s] # <<>> /\ taken \in [Subs -> Nat]
      /\ SeqIsPosition
  BY DEF TypeInv, BrokerTypeOK, HubTypeOK, ForwardTake, Take, Receive
<1>2. /\ Len(chan[s]) \in Nat \ {0} /\ Head(chan[s]) = chan[s][1]
      /\ Len(Tail(chan[s])) = Len(chan[s]) - 1
      /\ \A i \in 1 .. Len(chan[s]) - 1 : Tail(chan[s])[i] = chan[s][i + 1]
  BY <1>1, HeadAndTail
<1>3. 1 \in 1 .. Len(chan[s])
  BY <1>2
<1>. DEFINE e == chan[s][1].event
<1>4. /\ subTopic[s] \in Topics /\ e.seq \in 1 .. Len(events[subTopic[s]])
      /\ e = events[subTopic[s]][e.seq] /\ taken[s] < e.seq
  BY <1>3 DEF OrderInv, FromStream, InOrder
<1>5. e.topic = subTopic[s]
  BY <1>1, <1>4 DEF SeqIsPosition
<1>6. Stored(e)
  BY <1>4, <1>5 DEF Stored
<1>7. e.seq \in Nat
  BY <1>6, StoredFacts
<1>8. /\ taken'[s] = e.seq /\ chan'[s] = Tail(chan[s])
      /\ held[s] = None /\ held'[s] = e
      /\ UNCHANGED <<subTopic, events, fwd, phase, stage>>
  BY <1>1, <1>2 DEF PollTypeOK, ForwardTake, Take, Receive, storeVars, subscribeVars
<1>. QED BY <1>1, <1>2, <1>3, <1>4, <1>5, <1>6, <1>7, <1>8

(* Only an appended event changes a stream; the steps of requests and         *)
(* forwarders append none.                                                    *)
LEMMA AskedStays ==
  ASSUME BaseInv, BrokerAct, NEW q \in Pollers, topicsOf'[q] = topicsOf[q], NEW e, Asked(q, e)
  PROVE  Asked(q, e)'
<1>1. Stored(e)'
  BY StoredStays DEF Asked
<1>. QED BY <1>1 DEF Asked

LEMMA TopicsStay ==
  ASSUME PollNext
  PROVE  topicsOf' = topicsOf
<1>1. ASSUME NEW q \in Pollers, PollCall(q) \/ HandlerStep(q) PROVE topicsOf' = topicsOf
  BY <1>1 DEF PollCall, HandlerStep, Fetch, FetchFails, Collect, Deadline, Respond, PollReturn, End,
              Join, Joined, Leave, LeaveStep, clientVars
<1>2. ASSUME NEW s \in Subs, ForwardStep(s) PROVE topicsOf' = topicsOf
  BY <1>2 DEF ForwardStep, ForwardTake, ForwardPass, ForwardExit, clientVars
<1>. QED BY <1>1, <1>2 DEF PollNext, clientVars

LEMMA LineStep ==
  ASSUME PollBase, PollNext, NEW q \in Pollers
  PROVE  LineInv(q)'
<1>0. /\ PollTypeOK /\ PlaceInv(q) /\ SubsInv(q) /\ LineInv(q) /\ BaseInv /\ TypeInv /\ BrokerAct
      /\ at[q] \in Places /\ topicsOf'[q] = topicsOf[q] /\ fromSeq[q] \in Nat \ {0}
      /\ \A s \in subs[q] : s \in Subs /\ OrderInv(s)
  BY SubOfOne, PollIsBroker, TopicsStay DEF PollBase, PollTypeOK, DInv, BaseInv
<1>. DEFINE InLine == \A i \in 1 .. Len(Line(q)') : Asked(q, Line(q)[i])'
            InHand == \A s \in subs'[q] : held'[s] # None =>
                        Stored(held[s])' /\ held'[s].topic = subTopic'[s] /\ held'[s].seq = taken'[s]
            Got == \A e \in got'[q] : Asked(q, e)'
            Resumes == fromSeq'[q] = 1 \/ \E e \in got'[q] : e.seq = fromSeq'[q] - 1
<1>1. SUFFICES Got /\ Resumes /\ (at'[q] # "close" => InLine /\ InHand)
  BY DEF LineInv, Asked, Stored
<1>a. \A e : Asked(q, e) => Asked(q, e)'
  BY <1>0, AskedStays
<1>b. ASSUME NEW i, NEW e, Line(q)'[i] = e, Asked(q, e) PROVE Asked(q, Line(q)[i])'
  BY <1>a, <1>b DEF Asked, Stored
<1>c. ASSUME NEW s, NEW e, held'[s] = e, Stored(e) PROVE Stored(held[s])'
  <2>1. Stored(e)'
    BY <1>0, <1>c, StoredStays
  <2>. QED BY <1>c, <2>1 DEF Stored
<1>2. ASSUME got'[q] = got[q], fromSeq'[q] = fromSeq[q] PROVE Got /\ Resumes
  BY <1>0, <1>2, <1>a DEF LineInv
<1>3. ASSUME at[q] # "close", Line(q)' = Line(q) PROVE InLine
  BY <1>0, <1>3, <1>b DEF LineInv
<1>4. ASSUME at[q] # "close", \A s \in subs'[q] : held'[s] # None =>
               s \in subs[q] /\ held'[s] = held[s] /\ subTopic'[s] = subTopic[s] /\ taken'[s] = taken[s]
      PROVE  InHand
  BY <1>0, <1>4, <1>c DEF LineInv
<1>5. CASE Passive(q)
  <2>1. /\ at'[q] = at[q] /\ subs'[q] = subs[q] /\ Line(q)' = Line(q)
        /\ got'[q] = got[q] /\ fromSeq'[q] = fromSeq[q]
    BY <1>5 DEF Passive, PollerSame, Line
  <2>2. ASSUME NEW s \in subs[q], held'[s] # None, at[q] # "close"
        PROVE  Stored(held[s])' /\ held'[s].topic = subTopic'[s] /\ held'[s].seq = taken'[s]
    <3>1. CASE SubSame(s)
      BY <1>0, <1>c, <2>2, <3>1 DEF SubSame, LineInv
    <3>2. CASE ForwardTake(s)
      <4>1. /\ held'[s] = chan[s][1].event /\ Stored(chan[s][1].event)
            /\ chan[s][1].event.topic = subTopic[s] /\ taken'[s] = chan[s][1].event.seq
            /\ subTopic' = subTopic
        BY <1>0, <3>2, TakeFacts
      <4>2. Stored(held[s])'
        BY <1>c, <4>1
      <4>. QED BY <4>1, <4>2
    <3>3. CASE ForwardExit(s)
      BY <1>0, <2>2, <3>3 DEF ForwardExit, PollTypeOK
    <3>. QED BY <1>5, <2>2, <3>1, <3>2, <3>3 DEF Passive
  <2>. QED BY <1>2, <1>3, <2>1, <2>2
<1>6. ASSUME at[q] # "close", Line(q)' = Line(q), UNCHANGED brokerVars, got'[q] = got[q],
             fromSeq'[q] = fromSeq[q], held' = held, subs'[q] \subseteq subs[q]
      PROVE  Got /\ Resumes /\ InLine /\ InHand
  <2>1. subTopic' = subTopic /\ taken' = taken
    BY <1>6 DEF brokerVars, hubVars, historyVars
  <2>2. InHand
    BY <1>4, <1>6, <2>1
  <2>. QED BY <1>2, <1>3, <1>6, <2>2
<1>7. CASE PollCall(q)
  <2>1. /\ at[q] = "idle" /\ UNCHANGED <<brokerVars, got, fromSeq, held, subs, out, merged>>
    BY <1>7 DEF PollCall, forwardVars
  <2>2. Line(q)' = Line(q)
    BY <2>1 DEF Line
  <2>. QED BY <1>6, <2>1, <2>2
<1>8. CASE FetchFails(q) \/ PollReturn(q)
  <2>1. /\ got'[q] = got[q] /\ fromSeq'[q] = fromSeq[q] /\ subs'[q] = {}
        /\ out'[q] = <<>> /\ merged'[q] = <<>>
    BY <1>0, <1>8 DEF FetchFails, PollReturn, End, PollTypeOK
  <2>2. Line(q)' = <<>>
    BY <2>1, EmptySeq, ConcatEmptySeq DEF Line
  <2>. QED BY <1>2, <2>1, <2>2, EmptySeq
<1>9. CASE Fetch(q)
  <2>. DEFINE n == Len(Line(q))
              t == Head(unread[q])
              b == Read(t, fromSeq[q])
  <2>1. /\ at[q] = "fetch" /\ subs[q] = {} /\ UNCHANGED <<brokerVars, got, fromSeq, subs>>
    BY <1>0, <1>9 DEF Fetch, PlaceInv
  <2>2. /\ t \in Topics /\ t \in ToSet(unread[q])
        /\ Len(Line(q)') = n + Len(b)
        /\ \A i \in 1 .. n : Line(q)'[i] = Line(q)[i]
        /\ \A j \in 1 .. Len(b) : Line(q)'[n + j] = b[j]
    BY <1>0, <1>9, LineFetch
  <2>3. /\ Len(b) \in Nat /\ n \in Nat
        /\ \A j \in 1 .. Len(b) : b[j].topic = t /\ Stored(b[j])
    BY <1>0, <2>2, ReadFacts, LineType
  <2>4. \A j \in 1 .. Len(b) : Asked(q, b[j])
    BY <1>0, <2>2, <2>3 DEF Asked, PlaceInv
  <2>. HIDE DEF n, b
  <2>5. InLine
    <3>1. SUFFICES ASSUME NEW i \in 1 .. n + Len(b) PROVE Asked(q, Line(q)[i])'
      BY <2>2
    <3>2. CASE i <= n
      <4>1. i \in 1 .. n
        BY <2>3, <3>2
      <4>2. Asked(q, Line(q)[i])
        BY <1>0, <2>1, <4>1 DEF LineInv, n
      <4>. QED BY <1>b, <2>2, <4>1, <4>2
    <3>3. CASE i > n
      <4>1. i - n \in 1 .. Len(b) /\ n + (i - n) = i
        BY <2>3, <3>3
      <4>. QED BY <1>b, <2>2, <2>4, <4>1
    <3>. QED BY <2>3, <3>2, <3>3
  <2>. QED BY <1>2, <2>1, <2>5
<1>10. CASE Collect(q)
  <2>1. at[q] # "close" /\ UNCHANGED <<brokerVars, subs, held, got, fromSeq>>
    BY <1>10 DEF Collect, forwardVars, clientVars
  <2>2. Line(q)' = Line(q)
    BY <1>0, <1>10, LineCollect
  <2>. QED BY <1>6, <2>1, <2>2
<1>11. CASE Respond(q)
  <2>1. at[q] # "close" /\ at'[q] = "close"
    BY <1>0, <1>11 DEF Respond, Ready, PollTypeOK
  <2>2. CASE UNCHANGED <<got, fromSeq>>
    BY <1>2, <2>1, <2>2
  <2>3. CASE out[q] # <<>> /\ got'[q] = got[q] \cup ToSet(out[q]) /\ fromSeq'[q] = maxSeq(out[q]) + 1
    <3>1. out[q] \in Seq(Event) /\ Len(out[q]) \in Nat
      BY <1>0, LineType
    <3>2. ASSUME NEW i \in 1 .. Len(out[q]) PROVE Asked(q, out[q][i]) /\ out[q][i].seq \in Nat \ {0}
      <4>1. i \in 1 .. Len(Line(q)) /\ out[q][i] = Line(q)[i]
        BY <1>0, LineType
      <4>2. Asked(q, out[q][i])
        BY <1>0, <2>1, <4>1 DEF LineInv
      <4>. QED BY <1>0, <4>2, StoredFacts DEF Asked
    <3>3. PICK i \in 1 .. Len(out[q]) : out[q][i].seq = maxSeq(out[q])
      BY <2>3, <3>1, <3>2, MaxSeqFacts
    <3>4. /\ out[q][i] \in ToSet(out[q])
          /\ \A e \in ToSet(out[q]) : \E j \in 1 .. Len(out[q]) : out[q][j] = e
      BY <3>1, Elements
    <3>5. Resumes
      <4>1. fromSeq'[q] - 1 = out[q][i].seq
        BY <2>3, <3>2, <3>3
      <4>. QED BY <2>3, <3>4, <4>1
    <3>6. Got
      <4>1. \A e \in got'[q] : Asked(q, e)
        BY <1>0, <2>3, <3>2, <3>4 DEF LineInv
      <4>. QED BY <1>a, <4>1
    <3>. QED BY <2>1, <3>5, <3>6
  <2>. QED BY <1>0, <1>11, <2>2, <2>3 DEF Respond, PollTypeOK
<1>12. ASSUME NEW s \in Subs, Join(q, s)
       PROVE  Got /\ Resumes /\ (at'[q] # "close" => InLine /\ InHand)
  <2>1. /\ at[q] = "subscribe" /\ UNCHANGED <<got, fromSeq, out, merged, held, taken>>
        /\ subs'[q] = subs[q] \cup {s} /\ stage[s] = "none"
        /\ \A r \in Subs : r # s => subTopic'[r] = subTopic[r]
    BY <1>0, <1>12
       DEF Join, SubscribeHub, HubSubscribe, PollTypeOK, forwardVars, historyVars, TypeInv, BrokerTypeOK,
           HubTypeOK
  <2>2. held[s] = None
    BY <2>1 DEF PollBase, FwdInv
  <2>3. Line(q)' = Line(q)
    BY <2>1 DEF Line
  <2>4. InHand
    BY <1>0, <1>4, <2>1, <2>2
  <2>. QED BY <1>2, <1>3, <2>1, <2>3, <2>4
<1>13. ASSUME NEW s \in Subs, Joined(q, s)
       PROVE  Got /\ Resumes /\ (at'[q] # "close" => InLine /\ InHand)
  <2>1. /\ UNCHANGED <<got, fromSeq, out, merged, held, taken, subs, subTopic>>
        /\ s \in subs[q] /\ stage[s] = "read"
    BY <1>13 DEF Joined, ReadBackfill, hubVars, clientVars
  <2>2. at[q] # "close"
    BY <1>0, <2>1 DEF SubsInv
  <2>3. Line(q)' = Line(q)
    BY <2>1 DEF Line
  <2>. QED BY <1>2, <1>3, <1>4, <2>1, <2>2, <2>3
<1>14. ASSUME NEW s \in Subs, ForwardPass(q, s)
       PROVE  Got /\ Resumes /\ (at'[q] # "close" => InLine /\ InHand)
  <2>. DEFINE n == Len(Line(q))
  <2>1. /\ UNCHANGED <<at, got, fromSeq, subs, subTopic, taken>>
        /\ s \in subs[q] /\ held[s] # None
        /\ \A r \in Subs : held'[r] = IF r = s THEN None ELSE held[r]
    BY <1>0, <1>14 DEF ForwardPass, PollTypeOK, brokerVars, hubVars, historyVars, clientVars
  <2>2. /\ Len(Line(q)') = n + 1 /\ \A i \in 1 .. n : Line(q)'[i] = Line(q)[i]
        /\ Line(q)'[n + 1] = held[s] /\ n \in Nat
    BY <1>0, <1>14, LinePass, LineType
  <2>3. ASSUME at[q] # "close" PROVE InLine /\ InHand
    <3>1. InHand
      BY <1>0, <1>4, <2>1, <2>3
    <3>2. Asked(q, held[s])
      BY <1>0, <2>1, <2>3 DEF LineInv, SubsInv, Asked
    <3>3. \A i \in 1 .. n : Asked(q, Line(q)[i])
      BY <1>0, <2>3 DEF LineInv
    <3>4. \A i \in 1 .. n + 1 : i \in 1 .. n \/ i = n + 1
      BY <2>2
    <3>. HIDE DEF n
    <3>5. InLine
      BY <1>b, <2>2, <3>2, <3>3, <3>4
    <3>. QED BY <3>1, <3>5
  <2>. QED BY <1>2, <2>1, <2>3
<1>. QED
  BY <1>5, <1>7, <1>8, <1>9, <1>10, <1>11, <1>12, <1>13, <1>14, PollCases

LEMMA PollBaseStep ==
  ASSUME PollBase, PollNext
  PROVE  PollBase'
<1>1. DInv'
  BY PollIsBroker, BaseStep, OrderStep DEF PollBase, DInv
<1>. QED
  BY <1>1, PollTypeStep, FwdStep, DisjointStep, PlaceStep, SubsStep, LineStep DEF PollBase

(* In one place: what a step changes of a client's request.                   *)
LEMMA Frames ==
  ASSUME PollBase, PollNext, NEW q \in Pollers
  PROVE  /\ \A t \in Topics : gap[q][t] \subseteq gap'[q][t]
         /\ Respond(q) \/ (got'[q] = got[q] /\ fromSeq'[q] = fromSeq[q])
         /\ \A s \in subs'[q] : \/ s \in subs[q] /\ subTopic'[s] = subTopic[s]
                                \/ Join(q, s)
         /\ Attached(q)' /\ subs'[q] # {} => Attached(q) /\ fetched'[q] = fetched[q]
         /\ at'[q] # "close" =>
              \/ Line(q)' = <<>> /\ subs'[q] = {}
              \/ at[q] # "close" /\ (Line(q)' = Line(q) \/ Fetch(q) \/ \E s \in Subs : ForwardPass(q, s))
         /\ at[q] # "close" => \A s \in subs[q] :
              \/ taken'[s] = taken[s] /\ held'[s] = held[s] /\ (fwd'[s] = fwd[s] \/ fwd[s] = "none")
              \/ ForwardTake(s) \/ ForwardExit(s) \/ ForwardPass(q, s)
<1>. DEFINE GapGrows == \A t \in Topics : gap[q][t] \subseteq gap'[q][t]
            Learns == Respond(q) \/ (got'[q] = got[q] /\ fromSeq'[q] = fromSeq[q])
            SubsStay == \A s \in subs'[q] : (s \in subs[q] /\ subTopic'[s] = subTopic[s]) \/ Join(q, s)
            Fetches == Attached(q)' /\ subs'[q] # {} => Attached(q) /\ fetched'[q] = fetched[q]
            LineGoes == at'[q] # "close" =>
                \/ Line(q)' = <<>> /\ subs'[q] = {}
                \/ at[q] # "close" /\ (Line(q)' = Line(q) \/ Fetch(q) \/ \E s \in Subs : ForwardPass(q, s))
            Same(s) == taken'[s] = taken[s] /\ held'[s] = held[s] /\ (fwd'[s] = fwd[s] \/ fwd[s] = "none")
            SubGoes == at[q] # "close" =>
                \A s \in subs[q] : Same(s) \/ ForwardTake(s) \/ ForwardExit(s) \/ ForwardPass(q, s)
            Goal == GapGrows /\ Learns /\ SubsStay /\ Fetches /\ LineGoes /\ SubGoes
<1>. SUFFICES Goal
  OBVIOUS
<1>0. /\ PollTypeOK /\ PlaceInv(q) /\ SubsInv(q) /\ at[q] \in Places
      /\ subTopic \in [Subs -> Topics \cup {None}] /\ taken \in [Subs -> Nat]
      /\ \A s \in subs[q] : s \in Subs
  BY SubOfOne DEF PollBase, PollTypeOK, DInv, BaseInv, TypeInv, BrokerTypeOK, HubTypeOK
<1>1. CASE Passive(q)
  <2>1. PollerSame(q) /\ Line(q)' = Line(q)
    BY <1>1 DEF Passive, PollerSame, Line
  <2>2. \A s \in subs[q] : subTopic'[s] = subTopic[s]
    BY <1>1 DEF Passive, SubSame, ForwardTake, Take, Receive, ForwardExit, brokerVars, hubVars, Closes
  <2>3. SubGoes
    BY <1>1 DEF Passive, SubSame
  <2>. QED BY <2>1, <2>2, <2>3 DEF PollerSame, Attached
<1>2. ASSUME UNCHANGED <<brokerVars, forwardVars>> PROVE SubGoes /\ UNCHANGED <<subTopic, fwd>>
  BY <1>2 DEF brokerVars, hubVars, historyVars, forwardVars
<1>3. CASE PollCall(q)
  <2>1. /\ at[q] = "idle" /\ at'[q] = "fetch"
        /\ UNCHANGED <<brokerVars, forwardVars, subs, out, merged, fromSeq, got, gap>>
    BY <1>0, <1>3 DEF PollCall, PollTypeOK
  <2>. QED BY <1>2, <2>1 DEF Line, Attached
<1>4. CASE FetchFails(q) \/ PollReturn(q)
  <2>1. /\ at'[q] = "idle" /\ subs'[q] = {} /\ out'[q] = <<>> /\ merged'[q] = <<>>
        /\ UNCHANGED <<brokerVars, forwardVars, fromSeq, got, gap>>
    BY <1>0, <1>4 DEF FetchFails, PollReturn, End, PollTypeOK
  <2>2. Line(q)' = <<>>
    BY <2>1, EmptySeq, ConcatEmptySeq DEF Line
  <2>. QED BY <1>2, <2>1, <2>2 DEF Attached
<1>5. CASE Fetch(q)
  <2>1. at[q] = "fetch" /\ subs'[q] = {} /\ UNCHANGED <<brokerVars, forwardVars, fromSeq, got, gap>>
    BY <1>0, <1>5 DEF Fetch, PlaceInv
  <2>. QED BY <1>2, <1>5, <2>1
<1>6. CASE Collect(q)
  <2>1. /\ at[q] \in {"wait", "batch"} /\ at'[q] = "batch"
        /\ UNCHANGED <<brokerVars, forwardVars, subs, fromSeq, got, gap, fetched>>
    BY <1>0, <1>6 DEF Collect, PollTypeOK, clientVars
  <2>2. Line(q)' = Line(q)
    BY <1>0, <1>6, LineCollect
  <2>. QED BY <1>2, <2>1, <2>2 DEF Attached
<1>7. CASE Respond(q)
  <2>1. at'[q] = "close" /\ UNCHANGED <<brokerVars, forwardVars, subs, gap>>
    BY <1>0, <1>7 DEF Respond, PollTypeOK
  <2>. QED BY <1>2, <1>7, <2>1 DEF Attached
<1>8. ASSUME NEW s \in Subs, Join(q, s) PROVE Goal
  <2>. DEFINE t == Head(unread[q])
  <2>1. /\ at[q] = "subscribe" /\ UNCHANGED <<at, out, merged, fromSeq, got, fetched, fwd, held, taken>>
        /\ subs'[q] = subs[q] \cup {s} /\ \A r \in Subs : r # s => subTopic'[r] = subTopic[r]
        /\ unread[q] # <<>> /\ unread[q] \in Seq(Topics)
    BY <1>0, <1>8 DEF Join, SubscribeHub, HubSubscribe, PollTypeOK, forwardVars, historyVars
  <2>2. t \in Topics
    BY <2>1, HeadAndTail
  <2>3. GapGrows
    BY <1>0, <1>8, <2>2 DEF Join, PollTypeOK
  <2>4. Line(q)' = Line(q)
    BY <2>1 DEF Line
  <2>. QED BY <1>0, <1>8, <2>1, <2>3, <2>4 DEF Attached
<1>9. ASSUME NEW s \in Subs, Joined(q, s) PROVE Goal
  <2>1. /\ UNCHANGED <<subs, out, merged, fromSeq, got, fetched, held, taken, subTopic, gap>>
        /\ s \in subs[q] /\ stage[s] = "read"
        /\ (at'[q] = "wait" \/ (at'[q] = at[q] /\ fwd' = fwd))
    BY <1>0, <1>9 DEF Joined, ReadBackfill, PollTypeOK, hubVars, clientVars
  <2>2. at[q] = "subscribe" /\ \A r \in subs[q] : fwd[r] = "none"
    BY <1>0, <2>1 DEF SubsInv
  <2>3. Line(q)' = Line(q)
    BY <2>1 DEF Line
  <2>. QED BY <2>1, <2>2, <2>3 DEF Attached
<1>10. ASSUME NEW s \in Subs, ForwardPass(q, s) PROVE Goal
  <2>1. /\ UNCHANGED <<at, subs, fromSeq, got, fetched, taken, subTopic, gap, fwd>>
        /\ \A r \in Subs : r # s => held'[r] = held[r]
    BY <1>0, <1>10 DEF ForwardPass, PollTypeOK, brokerVars, hubVars, historyVars, clientVars
  <2>. QED BY <1>0, <1>10, <2>1 DEF Attached
<1>. HIDE DEF Goal
<1>11. Goal
  BY <1>1, <1>3, <1>4, <1>5, <1>6, <1>7, <1>8, <1>9, <1>10, PollCases DEF Goal
<1>. QED BY <1>11

--------------------------------------------------------------------------------
(* What a client skips.                                                       *)
LEMMA NoDrops ==
  ASSUME PollBase, BrokerAct, ~ Dropped'
  PROVE  ~ Dropped /\ \A s \in Subs : lag'[s] = 0
<1>1. ASSUME NEW s \in Subs PROVE lag[s] = 0 /\ lag'[s] = 0
  <2>1. lag[s] \in Nat /\ lag'[s] \in Nat /\ lag[s] <= lag'[s]
    BY LagGrows DEF PollBase, DInv, BaseInv
  <2>2. ~ (lag'[s] > 0)
    BY DEF Dropped
  <2>. QED BY <2>1, <2>2
<1>. QED BY <1>1 DEF Dropped

(* A subscription of a poll, its topic and stream.                            *)
LEMMA SubFacts ==
  ASSUME PollBase, NEW q \in Pollers, NEW s \in subs[q]
  PROVE  LET t == subTopic[s]
         IN  /\ s \in Subs /\ t \in Topics /\ t \in ToSet(topicsOf[q])
             /\ fetched[q][t] \in Nat /\ Len(events[t]) \in Nat
             /\ taken[s] \in Nat /\ taken[s] <= Len(events[t])
             /\ OrderInv(s) /\ FwdInv(s) /\ TypeInv /\ BaseInv
<1>1. /\ s \in Subs /\ subTopic[s] \in ToSet(topicsOf[q]) /\ PollTypeOK
      /\ OrderInv(s) /\ FwdInv(s) /\ TypeInv /\ BaseInv
  BY SubOfOne DEF PollBase, SubsInv, DInv, BaseInv
<1>2. subTopic[s] \in Topics
  BY <1>1, ListFacts
<1>3. fetched[q][subTopic[s]] \in Nat /\ taken[s] \in Nat /\ Len(events[subTopic[s]]) \in Nat
  BY <1>1, <1>2, LenProperties DEF PollTypeOK, TypeInv, BrokerTypeOK
<1>4. taken[s] <= Len(events[subTopic[s]])
  BY <1>1, <1>3 DEF OrderInv, TakenFromStream
<1>. QED BY <1>1, <1>2, <1>3, <1>4

LEMMA LaterStep ==
  ASSUME PollBase, PollNext, NEW q \in Pollers, LaterReach(q), ~ Dropped'
  PROVE  LaterReach(q)'
<1>0. BrokerAct /\ PollBase' /\ \A r \in Subs : lag'[r] = 0
  BY PollIsBroker, PollBaseStep, NoDrops
<1>1. SUFFICES ASSUME Attached(q)', NEW s \in subs'[q],
                      NEW n \in fetched'[q][subTopic'[s]] + 1 .. Len(events'[subTopic'[s]])
               PROVE  n \in gap'[q][subTopic'[s]] \/ Reaches(s, n)'
  BY DEF LaterReach
<1>. DEFINE t == subTopic'[s]
<1>2. Attached(q) /\ fetched'[q] = fetched[q] /\ \A u \in Topics : gap[q][u] \subseteq gap'[q][u]
  BY <1>1, Frames
<1>3. CASE s \in subs[q] /\ subTopic'[s] = subTopic[s]
  <2>1. /\ s \in Subs /\ t \in Topics /\ fetched[q][t] \in Nat /\ OrderInv(s) /\ BaseInv
        /\ Len(events[t]) \in Nat
    BY <1>3, SubFacts
  <2>2. Len(events'[t]) \in Nat /\ phase[s] = "open"
    <3>1. Len(events'[t]) \in Nat
      BY <1>0, <2>1, StreamsGrow
    <3>2. phase[s] = "open"
      BY <1>2, <1>3 DEF PollBase, SubsInv
    <3>. QED BY <3>1, <3>2
  <2>3. n \in 1 .. Len(events'[t]) /\ n >= fetched[q][t] + 1
    BY <1>2, <2>1, <2>2
  <2>4. Reaches(s, n)' \/ (n \in 1 .. Len(events[t]) /\ ~ Reaches(s, n))
    BY <1>0, <1>3, <2>1, <2>2, <2>3, ReachStep
  <2>5. ASSUME n \in 1 .. Len(events[t]), ~ Reaches(s, n) PROVE n \in gap[q][t]
    <3>1. n \in fetched[q][t] + 1 .. Len(events[t])
      BY <2>1, <2>3, <2>5
    <3>. QED BY <1>2, <1>3, <2>5, <3>1 DEF LaterReach
  <2>. QED BY <1>2, <2>1, <2>4, <2>5
<1>4. CASE Join(q, s)
  <2>1. PollTypeOK /\ unread[q] \in Seq(Topics) /\ unread[q] # <<>>
    BY <1>4 DEF PollBase, PollTypeOK, Join
  <2>2. Head(unread[q]) \in Topics
    BY <2>1, HeadAndTail
  <2>3. s \in Subs /\ subTopic \in [Subs -> Topics \cup {None}]
    <3>1. s \in Subs
      BY <1>0, <1>1 DEF PollBase, PollTypeOK
    <3>. QED BY <3>1 DEF PollBase, DInv, BaseInv, TypeInv, BrokerTypeOK, HubTypeOK
  <2>4. t = Head(unread[q]) /\ events' = events
    BY <1>4, <2>3 DEF Join, SubscribeHub, HubSubscribe, storeVars
  <2>5. gap'[q][t] = gap[q][t] \cup (fetched[q][t] + 1 .. Len(events[t]))
    BY <1>4, <2>1, <2>2, <2>4 DEF Join, PollTypeOK
  <2>. QED BY <1>2, <2>4, <2>5
<1>. QED BY <1>1, <1>3, <1>4, Frames

LEMMA FetchedStep ==
  ASSUME PollBase, PollNext, NEW q \in Pollers, FetchedAll(q)
  PROVE  FetchedAll(q)'
<1>0. PollTypeOK /\ PlaceInv(q) /\ at[q] \in Places /\ topicsOf'[q] = topicsOf[q] /\ TypeInv
  BY TopicsStay DEF PollBase, PollTypeOK, DInv, BaseInv
<1>1. CASE Passive(q)
  BY <1>0, <1>1 DEF Passive, PollerSame, FetchedAll, Attached
<1>2. CASE PollCall(q)
  <2>1. at'[q] = "fetch" /\ unread'[q] = topicsOf[q]
    BY <1>0, <1>2 DEF PollCall, PollTypeOK
  <2>. QED BY <1>0, <2>1 DEF FetchedAll, Attached
<1>3. CASE FetchFails(q) \/ PollReturn(q) \/ Respond(q)
  <2>1. at'[q] \in {"idle", "close"}
    BY <1>0, <1>3 DEF FetchFails, PollReturn, Respond, End, PollTypeOK
  <2>. QED BY <2>1 DEF FetchedAll, Attached
<1>4. CASE Fetch(q)
  <2>. DEFINE h == Head(unread[q])
              b == Read(h, fromSeq[q])
  <2>1. /\ at[q] = "fetch" /\ fromSeq' = fromSeq
        /\ fetched' = [fetched EXCEPT ![q][h] = Len(events[h])]
        /\ \/ Len(unread[q]) > 1 /\ unread'[q] = Tail(unread[q]) /\ at'[q] = "fetch"
           \/ ~ (Len(unread[q]) > 1) /\ at'[q] = "respond"
           \/ ~ (Len(unread[q]) > 1) /\ at'[q] = "subscribe" /\ out'[q] = <<>>
    BY <1>0, <1>4 DEF Fetch, PollTypeOK
  <2>2. SUFFICES ASSUME out'[q] = <<>>, NEW t \in ToSet(topicsOf[q])
                 PROVE  \/ fetched'[q][t] < fromSeq'[q]
                        \/ Len(unread[q]) > 1 /\ t \in ToSet(Tail(unread[q]))
    BY <1>0, <2>1 DEF FetchedAll, Attached
  <2>3. /\ unread[q] # <<>> /\ unread[q] \in Seq(Topics) /\ t \in Topics /\ fromSeq[q] \in Nat \ {0}
    BY <1>0, <2>1, ListFacts DEF PlaceInv, PollTypeOK
  <2>4. /\ out[q] = <<>> /\ b = <<>> /\ h \in Topics
    BY <1>0, <1>4, <2>2, LineFetch
  <2>5. Len(events[h]) < fromSeq[q]
    BY <1>0, <2>3, <2>4, ReadFacts
  <2>6. \A u \in Topics : fetched'[q][u] = IF u = h THEN Len(events[h]) ELSE fetched[q][u]
    BY <1>0, <2>1, <2>4 DEF PollTypeOK
  <2>7. CASE t = h
    BY <2>1, <2>3, <2>5, <2>6, <2>7
  <2>8. CASE t # h /\ t \in ToSet(unread[q])
    <3>1. t \in ToSet(Tail(unread[q])) /\ Len(Tail(unread[q])) = Len(unread[q]) - 1
      BY <2>3, <2>8, HeadAndTail
    <3>2. Len(unread[q]) \in Nat /\ \E i \in 1 .. Len(unread[q]) - 1 : TRUE
      <4>1. Tail(unread[q]) \in Seq(Topics) /\ Len(unread[q]) \in Nat
        BY <2>3, HeadAndTail
      <4>. QED BY <3>1, <4>1, Elements
    <3>3. Len(unread[q]) > 1
      BY <3>2
    <3>. QED BY <3>1, <3>3
  <2>9. CASE t # h /\ fetched[q][t] < fromSeq[q]
    BY <2>1, <2>3, <2>6, <2>9
  <2>. QED BY <1>0, <2>1, <2>2, <2>4, <2>7, <2>8, <2>9 DEF FetchedAll
<1>5. CASE Collect(q)
  <2>1. Attached(q) /\ at'[q] = "batch" /\ fetched' = fetched /\ fromSeq' = fromSeq
    BY <1>0, <1>5 DEF Collect, PollTypeOK, clientVars, Attached
  <2>. QED BY <1>0, <2>1 DEF FetchedAll, Attached
<1>6. ASSUME NEW s \in Subs, Join(q, s) PROVE FetchedAll(q)'
  <2>1. Attached(q) /\ at[q] = "subscribe" /\ at' = at /\ fetched' = fetched /\ fromSeq' = fromSeq
    BY <1>0, <1>6 DEF Join, Attached
  <2>. QED BY <1>0, <2>1 DEF FetchedAll, Attached
<1>7. ASSUME NEW s \in Subs, Joined(q, s) PROVE FetchedAll(q)'
  <2>1. /\ s \in subs[q] /\ stage[s] = "read" /\ UNCHANGED <<fetched, fromSeq>>
        /\ at'[q] = "wait" \/ at'[q] = at[q]
    BY <1>0, <1>7 DEF Joined, ReadBackfill, PollTypeOK, clientVars
  <2>2. at[q] = "subscribe"
    BY <2>1 DEF PollBase, SubsInv
  <2>. QED BY <1>0, <2>1, <2>2 DEF FetchedAll, Attached
<1>8. ASSUME NEW s \in Subs, ForwardPass(q, s) PROVE FetchedAll(q)'
  BY <1>0, <1>8 DEF ForwardPass, FetchedAll, Attached, clientVars
<1>. QED BY <1>1, <1>2, <1>3, <1>4, <1>5, <1>6, <1>7, <1>8, PollCases

(* Where a step keeps an element of the line.                                 *)
LEMMA LineKeeps ==
  ASSUME PollBase, PollNext, NEW q \in Pollers, at[q] # "close", at'[q] # "close", at'[q] # "idle",
         NEW j \in 1 .. Len(Line(q))
  PROVE  j \in 1 .. Len(Line(q)') /\ Line(q)'[j] = Line(q)[j]
<1>0. PollTypeOK /\ TypeInv /\ PlaceInv(q) /\ Len(Line(q)) \in Nat /\ at[q] \in Places
  BY LineType DEF PollBase, DInv, BaseInv, PollTypeOK
<1>1. CASE Line(q)' = Line(q)
  BY <1>1
<1>2. CASE Fetch(q)
  <2>. DEFINE n == Len(Line(q))
              b == Read(Head(unread[q]), fromSeq[q])
  <2>1. Len(Line(q)') = n + Len(b) /\ \A i \in 1 .. n : Line(q)'[i] = Line(q)[i]
    BY <1>0, <1>2, LineFetch
  <2>2. Len(b) \in Nat
    BY <1>0, <1>2, LineFetch, ReadFacts DEF PollTypeOK
  <2>. HIDE DEF n, b
  <2>3. j \in 1 .. n + Len(b)
    BY <1>0, <2>2 DEF n
  <2>. QED BY <2>1, <2>3 DEF n
<1>3. ASSUME NEW s \in Subs, ForwardPass(q, s) PROVE j \in 1 .. Len(Line(q)') /\ Line(q)'[j] = Line(q)[j]
  <2>. DEFINE n == Len(Line(q))
  <2>1. Len(Line(q)') = n + 1 /\ \A i \in 1 .. n : Line(q)'[i] = Line(q)[i]
    BY <1>0, <1>3, LinePass
  <2>. HIDE DEF n
  <2>2. j \in 1 .. n + 1
    BY <1>0 DEF n
  <2>. QED BY <2>1, <2>2 DEF n
<1>4. CASE Passive(q)
  BY <1>1, <1>4 DEF Passive, PollerSame, Line
<1>5. CASE PollCall(q)
  BY <1>1, <1>5 DEF PollCall, Line
<1>6. CASE FetchFails(q) \/ PollReturn(q) \/ Respond(q)
  BY <1>0, <1>6 DEF FetchFails, PollReturn, End, Respond, PollTypeOK
<1>7. CASE Collect(q)
  BY <1>0, <1>1, <1>7, LineCollect
<1>8. ASSUME NEW s \in Subs, Join(q, s) \/ Joined(q, s) PROVE Line(q)' = Line(q)
  BY <1>8 DEF Join, Joined, Line
<1>. QED BY <1>1, <1>2, <1>3, <1>4, <1>5, <1>6, <1>7, <1>8, PollCases

LEMMA TakenStep ==
  ASSUME PollBase, PollNext, NEW q \in Pollers, TakenOn(q), LaterReach(q)
  PROVE  TakenOn(q)'
<1>0. BrokerAct /\ PollBase' /\ PollTypeOK
  BY PollIsBroker, PollBaseStep DEF PollBase
<1>1. SUFFICES ASSUME Attached(q)', NEW s \in subs'[q], fwd'[s] # "exit",
                      NEW n \in fetched'[q][subTopic'[s]] + 1 .. taken'[s]
               PROVE  \/ n \in gap'[q][subTopic'[s]]
                      \/ \E j \in 1 .. Len(Line(q)') : Line(q)'[j] = events'[subTopic'[s]][n]
                      \/ held'[s] # None /\ n = taken'[s]
  BY DEF TakenOn
<1>. DEFINE t == subTopic'[s]
            Goal == \/ n \in gap'[q][t]
                    \/ \E j \in 1 .. Len(Line(q)') : Line(q)'[j] = events'[t][n]
                    \/ held'[s] # None /\ n = taken'[s]
<1>2. Attached(q) /\ fetched'[q] = fetched[q] /\ \A u \in Topics : gap[q][u] \subseteq gap'[q][u]
  BY <1>1, Frames
<1>3. ASSUME s \in subs[q], subTopic'[s] = subTopic[s] PROVE Goal
  <2>1. /\ s \in Subs /\ t \in Topics /\ fetched[q][t] \in Nat /\ OrderInv(s) /\ BaseInv /\ TypeInv
        /\ taken[s] \in Nat /\ Len(events[t]) \in Nat /\ taken[s] <= Len(events[t])
    BY <1>3, SubFacts
  <2>2. \A k \in 1 .. Len(events[t]) : events'[t][k] = events[t][k]
    BY <1>0, <2>1, StreamsGrow
  <2>3. at[q] # "close" /\ at'[q] # "close" /\ at'[q] # "idle"
    BY <1>1, <1>2 DEF Attached
  (* Before, the n-th event was accounted for. *)
  <2>4. ASSUME n <= taken[s], fwd[s] # "exit"
        PROVE  \/ n \in gap'[q][t]
               \/ \E j \in 1 .. Len(Line(q)') : Line(q)'[j] = events'[t][n]
               \/ held[s] # None /\ n = taken[s]
    <3>1. n \in fetched[q][t] + 1 .. taken[s] /\ n \in 1 .. Len(events[t])
      BY <1>2, <2>1, <2>4
    <3>2. \/ n \in gap[q][t]
          \/ \E j \in 1 .. Len(Line(q)) : Line(q)[j] = events[t][n]
          \/ held[s] # None /\ n = taken[s]
      BY <1>2, <1>3, <2>4, <3>1 DEF TakenOn
    <3>3. ASSUME NEW j \in 1 .. Len(Line(q)), Line(q)[j] = events[t][n]
          PROVE  \E k \in 1 .. Len(Line(q)') : Line(q)'[k] = events'[t][n]
      <4>1. j \in 1 .. Len(Line(q)') /\ Line(q)'[j] = Line(q)[j]
        BY <2>3, LineKeeps
      <4>2. events'[t][n] = events[t][n]
        BY <2>2, <3>1
      <4>. QED BY <3>3, <4>1, <4>2
    <3>. QED BY <1>2, <2>1, <3>2, <3>3
  <2>5. CASE taken'[s] = taken[s] /\ held'[s] = held[s] /\ (fwd'[s] = fwd[s] \/ fwd[s] = "none")
    <3>1. n <= taken[s] /\ fwd[s] # "exit"
      BY <1>1, <1>2, <2>1, <2>5
    <3>. QED BY <2>4, <2>5, <3>1
  <2>6. CASE ForwardTake(s)
    <3>. DEFINE k == chan[s][1].event.seq
    <3>1. /\ held'[s] = chan[s][1].event /\ held[s] = None /\ Stored(chan[s][1].event)
          /\ chan[s][1].event.topic = subTopic[s] /\ 1 \in 1 .. Len(chan[s])
          /\ taken'[s] = k /\ taken[s] < k /\ fwd' = fwd /\ taken'[s] \in Nat
      BY <1>0, <2>1, <2>6, TakeFacts
    <3>2. held'[s] # None
      <4>1. chan[s][1].event \in Event
        BY <2>1, <3>1, ChannelType
      <4>. QED BY <3>1, <4>1, NoneIsNoEvent
    <3>3. CASE n = k
      BY <3>1, <3>2, <3>3
    <3>4. CASE n <= taken[s]
      BY <1>1, <2>4, <3>1, <3>4
    <3>5. CASE n < k /\ ~ (n <= taken[s])
      <4>1. /\ n \in fetched[q][t] + 1 .. Len(events[t])
        <5>1. k \in 1 .. Len(events[t])
          BY <1>3, <3>1 DEF Stored
        <5>. QED BY <1>2, <2>1, <3>1, <3>5, <5>1
      <4>2. n \in gap[q][t] \/ Reaches(s, n)
        BY <1>2, <1>3, <4>1 DEF LaterReach
      <4>3. ~ Reaches(s, n)
        <5>1. ASSUME NEW i \in 1 .. Len(chan[s]) PROVE chan[s][i].event.seq # n
          <6>1. i = 1 \/ 1 < i
            BY <3>1
          <6>2. 1 < i => k < chan[s][i].event.seq
            BY <2>1, <3>1 DEF OrderInv, InOrder
          <6>3. chan[s][i].event.seq \in Nat
            BY <2>1, ChannelType
          <6>. QED BY <2>1, <3>1, <3>5, <6>1, <6>2, <6>3
        <5>2. ASSUME NEW p \in Publishers, Pending(p, s), n = Len(events[t]) PROVE FALSE
          <6>1. cur[p].seq = n
            BY <1>3, <2>1, <5>2, AppendedIsLast DEF Pending, BaseInv
          <6>2. k < cur[p].seq
            BY <2>1, <3>1, <5>2 DEF OrderInv, PendingIsLater
          <6>. QED BY <2>1, <3>1, <3>5, <6>1, <6>2
        <5>. QED BY <1>3, <3>5, <5>1, <5>2 DEF Reaches
      <4>. QED BY <1>2, <2>1, <4>2, <4>3
    <3>6. n <= k /\ n \in Nat
      BY <1>1, <1>2, <2>1, <3>1
    <3>. QED BY <2>1, <3>1, <3>3, <3>4, <3>5, <3>6
  <2>7. CASE ForwardExit(s)
    BY <1>0, <1>1, <2>1, <2>7 DEF ForwardExit, PollTypeOK
  <2>8. CASE ForwardPass(q, s)
    <3>1. taken'[s] = taken[s] /\ fwd[s] = "run" /\ held[s] # None
      BY <2>8 DEF ForwardPass, brokerVars, historyVars
    <3>2. n <= taken[s]
      BY <1>1, <1>2, <2>1, <3>1
    <3>3. ASSUME n = taken[s] PROVE \E j \in 1 .. Len(Line(q)') : Line(q)'[j] = events'[t][n]
      <4>1. Stored(held[s]) /\ held[s].topic = subTopic[s] /\ held[s].seq = taken[s]
        BY <1>3, <2>3, <3>1 DEF PollBase, LineInv
      <4>2. n \in 1 .. Len(events[t]) /\ held[s] = events[t][n]
        BY <1>3, <3>3, <4>1 DEF Stored
      <4>. DEFINE m == Len(Line(q))
      <4>3. m \in Nat /\ Len(Line(q)') = m + 1 /\ Line(q)'[m + 1] = held[s]
        BY <1>0, <2>1, <2>8, LinePass, LineType
      <4>. HIDE DEF m
      <4>4. m + 1 \in 1 .. Len(Line(q)')
        BY <4>3
      <4>. QED BY <2>2, <4>2, <4>3, <4>4
    <3>. QED BY <2>4, <3>1, <3>2, <3>3
  <2>. QED BY <1>3, <2>3, <2>5, <2>6, <2>7, <2>8, Frames
<1>4. ASSUME Join(q, s) PROVE Goal
  <2>1. s \in Subs /\ stage[s] = "none" /\ taken' = taken
    BY <1>0, <1>1, <1>4 DEF PollBase, PollTypeOK, Join, SubscribeHub, historyVars
  <2>2. taken[s] = 0
    <3>1. /\ StageIsPhase /\ TakenFromStream(s)
      BY <2>1 DEF PollBase, DInv, BaseInv, HubInv, OrderInv
    <3>2. subTopic[s] = None
      BY <2>1, <3>1 DEF StageIsPhase
    <3>. QED BY <3>1, <3>2, NoneAssumption DEF TakenFromStream
  <2>3. t \in Topics
    <3>1. s \in subs'[q] /\ PollTypeOK' /\ subTopic'[s] \in ToSet(topicsOf'[q])
      BY <1>0, <1>1 DEF PollBase, SubsInv
    <3>2. topicsOf'[q] = topicsOf[q]
      BY TopicsStay
    <3>. QED BY <1>0, <3>1, <3>2, ListFacts
  <2>4. fetched[q][t] \in Nat
    BY <1>0, <2>3 DEF PollTypeOK
  <2>. QED BY <1>1, <1>2, <2>1, <2>2, <2>4
<1>. QED BY <1>1, <1>3, <1>4, Frames


LEMMA LineSkipsStep ==
  ASSUME PollBase, PollNext, NEW q \in Pollers, LineSkips(q), FetchedAll(q), TakenOn(q)
  PROVE  LineSkips(q)'
<1>0. /\ PollTypeOK /\ PlaceInv(q) /\ SubsInv(q) /\ LineInv(q) /\ BaseInv /\ TypeInv /\ BrokerAct
      /\ at[q] \in Places /\ fromSeq[q] \in Nat \ {0}
  BY PollIsBroker DEF PollBase, PollTypeOK, DInv, BaseInv
<1>1. SUFFICES ASSUME at'[q] # "close", NEW i \in 1 .. Len(Line(q)'),
                      NEW x \in fromSeq'[q] .. Line(q)'[i].seq - 1
               PROVE  \/ x \in gap'[q][Line(q)'[i].topic]
                      \/ \E j \in 1 .. i - 1 : Line(q)'[j] = events'[Line(q)'[i].topic][x]
  BY DEF LineSkips
<1>. DEFINE Goal == \/ x \in gap'[q][Line(q)'[i].topic]
                    \/ \E j \in 1 .. i - 1 : Line(q)'[j] = events'[Line(q)'[i].topic][x]
<1>2. fromSeq'[q] = fromSeq[q] /\ \A t \in Topics : gap[q][t] \subseteq gap'[q][t]
  <2>1. ~ Respond(q)
    BY <1>0, <1>1 DEF Respond, PollTypeOK
  <2>. QED BY <2>1, Frames
(* What was in the line keeps its account. *)
<1>3. ASSUME at[q] # "close", i \in 1 .. Len(Line(q)), Line(q)'[i] = Line(q)[i],
             \A j \in 1 .. i - 1 : Line(q)'[j] = Line(q)[j]
      PROVE  Goal
  <2>. DEFINE e == Line(q)[i]
  <2>1. Stored(e) /\ e.topic \in Topics /\ e.seq \in Nat \ {0} /\ e.seq <= Len(events[e.topic])
        /\ Len(events[e.topic]) \in Nat
    <3>1. Stored(e)
      BY <1>0, <1>3 DEF LineInv, Asked
    <3>2. e.topic \in Topics /\ e.seq \in Nat \ {0} /\ Len(events[e.topic]) \in Nat
      BY <1>0, <3>1, StoredFacts
    <3>. QED BY <3>1, <3>2 DEF Stored
  <2>2. x \in fromSeq[q] .. e.seq - 1
    BY <1>1, <1>2, <1>3
  <2>. HIDE DEF e
  <2>3. x \in 1 .. Len(events[e.topic])
    BY <1>0, <2>1, <2>2
  <2>4. events'[e.topic][x] = events[e.topic][x]
    BY <1>0, <2>1, <2>3, StreamsGrow
  <2>5. \/ x \in gap[q][e.topic]
        \/ \E j \in 1 .. i - 1 : Line(q)[j] = events[e.topic][x]
    BY <1>3, <2>2 DEF LineSkips, e
  <2>6. Line(q)'[i].topic = e.topic
    BY <1>3 DEF e
  <2>. QED BY <1>2, <1>3, <2>1, <2>4, <2>5, <2>6
<1>4. CASE Line(q)' = <<>>
  BY <1>1, <1>4, EmptySeq
<1>5. CASE at[q] # "close" /\ Line(q)' = Line(q)
  BY <1>1, <1>3, <1>5
<1>6. CASE Fetch(q)
  <2>. DEFINE n == Len(Line(q))
              t == Head(unread[q])
              f == fromSeq[q]
              b == Read(t, f)
  <2>1. at[q] # "close" /\ events' = events /\ Len(Line(q)) \in Nat
    BY <1>0, <1>6, LineType DEF Fetch, brokerVars, storeVars
  <2>2. /\ t \in Topics /\ Len(Line(q)') = n + Len(b)
        /\ \A j \in 1 .. n : Line(q)'[j] = Line(q)[j]
        /\ \A j \in 1 .. Len(b) : Line(q)'[n + j] = b[j]
    BY <1>0, <1>6, LineFetch
  <2>4. n \in Nat /\ f \in Nat \ {0}
    BY <1>0, <2>1
  <2>. HIDE DEF n, f, t
  <2>3. /\ Len(b) \in Nat
        /\ \A j \in 1 .. Len(b) : b[j] = events[t][f + j - 1] /\ b[j].topic = t /\ b[j].seq = f + j - 1
    BY <1>0, <2>2, <2>4, ReadFacts
  <2>. HIDE DEF b
  <2>5. CASE i <= n
    <3>1. i \in 1 .. n /\ \A j \in 1 .. i - 1 : j \in 1 .. n
      BY <2>4, <2>5
    <3>. QED BY <1>3, <2>1, <2>2, <3>1 DEF n
  <2>6. CASE i > n
    <3>1. i - n \in 1 .. Len(b) /\ n + (i - n) = i
      BY <1>1, <2>2, <2>3, <2>4, <2>6
    <3>. DEFINE k == i - n
                l == Len(b)
                y == x - f + 1
    <3>. HIDE DEF k, l
    <3>a. k \in 1 .. l /\ n + k = i /\ l \in Nat
      BY <2>3, <3>1 DEF k, l
    <3>2. Line(q)'[i] = b[k] /\ b[k].topic = t /\ b[k].seq = f + k - 1
      BY <2>2, <2>3, <3>a DEF l
    <3>3. x \in f .. f + k - 2
      <4>1. x \in f .. (f + k - 1) - 1
        BY <1>1, <1>2, <3>2 DEF f
      <4>. QED BY <2>4, <3>a, <4>1
    <3>4. y \in 1 .. l /\ n + y \in 1 .. i - 1 /\ f + y - 1 = x
      BY <2>4, <3>a, <3>3
    <3>. HIDE DEF y
    <3>5. Line(q)'[n + y] = b[y] /\ b[y] = events[t][x]
      BY <2>2, <2>3, <3>4 DEF l
    <3>. QED BY <2>1, <3>2, <3>4, <3>5
  <2>. QED BY <1>1, <2>2, <2>3, <2>4, <2>5, <2>6
<1>7. ASSUME NEW s \in Subs, at[q] # "close", ForwardPass(q, s) PROVE Goal
  <2>. DEFINE n == Len(Line(q))
              t == subTopic[s]
  <2>1. /\ s \in subs[q] /\ fwd[s] = "run" /\ held[s] # None /\ events' = events
        /\ Len(Line(q)) \in Nat
    BY <1>0, <1>7, LineType DEF ForwardPass, brokerVars, storeVars
  <2>2. /\ Len(Line(q)') = n + 1 /\ Line(q)'[n + 1] = held[s]
        /\ \A j \in 1 .. n : Line(q)'[j] = Line(q)[j]
    BY <1>0, <1>7, LinePass
  <2>. HIDE DEF n
  <2>3. n \in Nat /\ i \in 1 .. n + 1
    BY <1>1, <2>1, <2>2 DEF n
  <2>4. CASE i \in 1 .. n
    <3>1. \A j \in 1 .. i - 1 : j \in 1 .. n
      BY <2>3, <2>4
    <3>. QED BY <1>3, <1>7, <2>2, <2>4, <3>1 DEF n
  <2>5. CASE i = n + 1
    <3>1. held[s].topic = t /\ held[s].seq = taken[s]
      BY <1>0, <1>7, <2>1 DEF LineInv
    <3>2. Attached(q)
      BY <1>0, <1>7, <2>1 DEF Attached, PlaceInv, Places
    <3>3. /\ t \in Topics /\ t \in ToSet(topicsOf[q]) /\ fetched[q][t] \in Nat /\ taken[s] \in Nat
      BY <2>1, SubFacts
    <3>4. fetched[q][t] < fromSeq[q]
      BY <3>2, <3>3 DEF FetchedAll
    <3>5. x \in fromSeq[q] .. taken[s] - 1
      BY <1>1, <1>2, <2>2, <2>5, <3>1
    <3>6. x \in fetched[q][t] + 1 .. taken[s] /\ x # taken[s]
      BY <1>0, <3>3, <3>4, <3>5
    <3>7. x \in gap[q][t] \/ \E j \in 1 .. Len(Line(q)) : Line(q)[j] = events[t][x]
      BY <2>1, <3>2, <3>6 DEF TakenOn
    <3>8. i - 1 = n /\ Line(q)'[i].topic = t
      BY <2>2, <2>3, <2>5, <3>1
    <3>. HIDE DEF t
    <3>9. ASSUME NEW j \in 1 .. n, Line(q)[j] = events[t][x] PROVE Line(q)'[j] = events'[t][x]
      BY <2>1, <2>2, <3>9
    <3>. QED BY <1>2, <3>3, <3>7, <3>8, <3>9 DEF n
  <2>. QED BY <2>3, <2>4, <2>5
<1>. QED BY <1>1, <1>4, <1>5, <1>6, <1>7, Frames


LEMMA SkipsOfStep ==
  ASSUME PollBase, PollNext, NEW q \in Pollers, LineSkips(q), SkipsOf(q)
  PROVE  SkipsOf(q)'
<1>0. /\ PollTypeOK /\ LineInv(q) /\ BaseInv /\ TypeInv /\ BrokerAct
      /\ at[q] \in Places /\ topicsOf'[q] = topicsOf[q] /\ fromSeq[q] \in Nat \ {0}
  BY PollIsBroker, TopicsStay DEF PollBase, PollTypeOK, DInv, BaseInv
<1>1. SUFFICES ASSUME NEW t \in ToSet(topicsOf[q]), NEW n \in 1 .. fromSeq'[q] - 1,
                      n <= Len(events'[t]), events'[t][n] \notin got'[q]
               PROVE  n \in gap'[q][t] \/ \E e \in got'[q] : e.topic # t /\ e.seq >= n
  BY <1>0 DEF SkipsOf, Skipped
<1>. DEFINE Goal == n \in gap'[q][t] \/ \E e \in got'[q] : e.topic # t /\ e.seq >= n
<1>2. t \in Topics /\ gap[q][t] \subseteq gap'[q][t]
  BY <1>0, ListFacts, Frames
<1>3. /\ Len(events[t]) \in Nat
      /\ \A k \in 1 .. Len(events[t]) : events'[t][k] = events[t][k]
  BY <1>0, <1>2, StreamsGrow
(* What was skipped before has its account. *)
<1>4. ASSUME n <= Len(events[t]), n < fromSeq[q], got[q] \subseteq got'[q] PROVE Goal
  <2>1. n \in 1 .. Len(events[t]) /\ n \in 1 .. fromSeq[q] - 1 /\ n \in Nat
    BY <1>0, <1>1, <1>3, <1>4
  <2>2. events[t][n] \notin got[q]
    BY <1>1, <1>3, <1>4, <2>1
  <2>3. n \in Skipped(q, t)
    BY <1>4, <2>1, <2>2 DEF Skipped
  <2>. QED BY <1>2, <1>4, <2>3 DEF SkipsOf
<1>5. CASE got'[q] = got[q] /\ fromSeq'[q] = fromSeq[q]
  <2>0. n \in 1 .. fromSeq[q] - 1
    BY <1>1, <1>5
  <2>1. CASE n <= Len(events[t])
    <3>1. n < fromSeq[q]
      BY <1>0, <2>0
    <3>. QED BY <1>4, <1>5, <2>1, <3>1
  <2>2. CASE n > Len(events[t])
    <3>1. fromSeq[q] # 1
      BY <2>0
    <3>2. PICK e \in got[q] : e.seq = fromSeq[q] - 1
      BY <1>0, <3>1 DEF LineInv
    <3>3. Stored(e)
      BY <1>0 DEF LineInv, Asked
    <3>4. e.seq >= n
      BY <1>0, <2>0, <3>2
    <3>5. e.topic # t
      <4>1. e.seq \in 1 .. Len(events[e.topic])
        BY <3>3 DEF Stored
      <4>. QED BY <1>3, <2>0, <2>2, <3>4, <4>1
    <3>. QED BY <1>5, <3>4, <3>5
  <2>. QED BY <1>3, <2>0, <2>1, <2>2
<1>6. CASE /\ Respond(q) /\ out[q] # <<>>
           /\ got'[q] = got[q] \cup ToSet(out[q]) /\ fromSeq'[q] = maxSeq(out[q]) + 1
  <2>. DEFINE m == maxSeq(out[q])
  <2>0. /\ at[q] # "close" /\ events' = events
        /\ out[q] \in Seq(Event) /\ Len(out[q]) \in Nat /\ Len(Line(q)) \in Nat /\ Len(out[q]) <= Len(Line(q))
        /\ \A i \in 1 .. Len(out[q]) : Line(q)[i] = out[q][i]
    BY <1>0, <1>6, LineType DEF Respond, Ready, brokerVars, storeVars
  <2>1. \A i \in 1 .. Len(out[q]) : i \in 1 .. Len(Line(q))
    BY <2>0
  <2>2. ASSUME NEW i \in 1 .. Len(out[q]) PROVE Stored(out[q][i]) /\ out[q][i].seq \in Nat \ {0}
    <3>1. Stored(out[q][i])
      BY <1>0, <2>0, <2>1 DEF LineInv, Asked
    <3>. QED BY <1>0, <3>1, StoredFacts
  <2>3. m \in Nat /\ \E i \in 1 .. Len(out[q]) : out[q][i].seq = m
    BY <1>6, <2>0, <2>2, MaxSeqFacts
  <2>4. PICK i \in 1 .. Len(out[q]) : out[q][i].seq = m
    BY <2>3
  <2>5. \A j \in 1 .. Len(out[q]) : out[q][j] \in got'[q]
    BY <1>6, <2>0, Elements
  <2>. DEFINE e == out[q][i]
  <2>6. n \in 1 .. m
    BY <1>1, <1>6, <2>3
  <2>7. CASE e.topic # t
    BY <2>4, <2>5, <2>6, <2>7
  <2>8. CASE e.topic = t
    <3>1. m \in 1 .. Len(events[t]) /\ e = events[t][m]
      BY <2>2, <2>4, <2>8 DEF Stored
    <3>2. n # m
      BY <1>1, <2>0, <2>5, <3>1
    <3>3. n < m /\ n <= Len(events[t])
      BY <1>3, <2>3, <2>6, <3>1, <3>2
    <3>4. CASE n < fromSeq[q]
      BY <1>4, <1>6, <3>3, <3>4
    <3>5. CASE n >= fromSeq[q]
      <4>1. Line(q)[i] = e /\ i \in 1 .. Len(Line(q)) /\ n \in fromSeq[q] .. e.seq - 1
        <5>1. n \in fromSeq[q] .. m - 1
          BY <1>0, <2>3, <2>6, <3>3, <3>5
        <5>. QED BY <2>0, <2>1, <2>4, <5>1
      <4>2. n \in gap[q][t] \/ \E j \in 1 .. i - 1 : Line(q)[j] = events[t][n]
        BY <2>0, <2>8, <4>1 DEF LineSkips
      <4>3. ASSUME NEW j \in 1 .. i - 1, Line(q)[j] = events[t][n] PROVE FALSE
        <5>1. j \in 1 .. Len(out[q])
          BY <2>0
        <5>. QED BY <1>1, <2>0, <2>5, <4>3, <5>1
      <4>. QED BY <1>2, <4>2, <4>3
    <3>. QED BY <1>0, <2>6, <3>4, <3>5
  <2>. QED BY <2>7, <2>8
<1>7. ASSUME Respond(q)
      PROVE  \/ got'[q] = got[q] /\ fromSeq'[q] = fromSeq[q]
             \/ out[q] # <<>> /\ got'[q] = got[q] \cup ToSet(out[q]) /\ fromSeq'[q] = maxSeq(out[q]) + 1
  BY <1>0, <1>7 DEF Respond, PollTypeOK
<1>. QED BY <1>5, <1>6, <1>7, Frames

LEMMA SkipStep ==
  ASSUME PollBase, PollNext, NEW q \in Pollers, SkipInv(q)
  PROVE  SkipInv(q)'
<1>1. SUFFICES ASSUME ~ Dropped'
               PROVE  LineSkips(q)' /\ FetchedAll(q)' /\ LaterReach(q)' /\ TakenOn(q)' /\ SkipsOf(q)'
  BY DEF SkipInv
<1>2. LineSkips(q) /\ FetchedAll(q) /\ LaterReach(q) /\ TakenOn(q) /\ SkipsOf(q)
  BY <1>1, PollIsBroker, NoDrops DEF SkipInv
<1>. QED BY <1>1, <1>2, LineSkipsStep, FetchedStep, LaterStep, TakenStep, SkipsOfStep


--------------------------------------------------------------------------------
(* At the start, and when nothing happens.                                    *)
LEMMA PollBaseInit == PollInit => PollBase
<1>. SUFFICES ASSUME PollInit PROVE PollBase
  OBVIOUS
<1>. <<>> \in Seq(Event) /\ <<>> \in Seq(Topics) /\ Len(<<>>) = 0
  BY EmptySeq
<1>1. BrokerInit
  BY DEF PollInit
<1>2. DInv
  BY <1>1, BaseInit DEF DInv
<1>3. PollTypeOK
  <2>1. [t \in Topics |-> 0] \in [Topics -> Nat] /\ [t \in Topics |-> {}] \in [Topics -> SUBSET Nat]
    OBVIOUS
  <2>2. fetched \in [Pollers -> [Topics -> Nat]] /\ gap \in [Pollers -> [Topics -> SUBSET Nat]]
    BY <2>1 DEF PollInit
  <2>3. merged \in [Pollers -> Seq(Event)] /\ out \in [Pollers -> Seq(Event)] /\ unread \in [Pollers -> Seq(Topics)]
    BY DEF PollInit
  <2>4. got \in [Pollers -> SUBSET Event] /\ subs \in [Pollers -> SUBSET Subs]
    BY DEF PollInit
  <2>5. /\ topicsOf \in [Pollers -> TopicLists] /\ at \in [Pollers -> Places]
        /\ fwd \in [Subs -> {"none", "run", "exit"}] /\ held \in [Subs -> Event \cup {None}]
        /\ fromSeq \in [Pollers -> Nat \ {0}]
    BY DEF PollInit, Places
  <2>. QED BY <2>2, <2>3, <2>4, <2>5 DEF PollTypeOK
<1>4. Disjoint
  BY DEF PollInit, Disjoint
<1>5. \A s \in Subs : FwdInv(s)
  BY DEF PollInit, FwdInv
<1>6. ASSUME NEW q \in Pollers PROVE PlaceInv(q) /\ SubsInv(q) /\ LineInv(q)
  <2>1. /\ at[q] = "idle" /\ unread[q] = <<>> /\ subs[q] = {} /\ merged[q] = <<>> /\ out[q] = <<>>
        /\ got[q] = {} /\ fromSeq[q] = 1
    BY DEF PollInit
  <2>2. Line(q) = <<>>
    BY <1>3, <2>1, LineType
  <2>3. ToSet(unread[q]) = {}
    <3>1. unread[q] \in Seq(Topics) /\ Len(unread[q]) = 0
      BY <2>1
    <3>. QED BY <3>1, Elements
  <2>4. PlaceInv(q)
    BY <2>1, <2>3 DEF PlaceInv
  <2>5. SubsInv(q)
    BY <2>1 DEF SubsInv
  <2>6. LineInv(q)
    BY <2>1, <2>2 DEF LineInv
  <2>. QED BY <2>4, <2>5, <2>6
<1>. QED BY <1>2, <1>3, <1>4, <1>5, <1>6 DEF PollBase

LEMMA SkipInit ==
  ASSUME PollInit, NEW q \in Pollers
  PROVE  SkipInv(q)
<1>0. PollTypeOK
  BY PollBaseInit DEF PollBase
<1>1. /\ at[q] = "idle" /\ subs[q] = {} /\ merged[q] = <<>> /\ out[q] = <<>>
      /\ got[q] = {} /\ fromSeq[q] = 1
  BY DEF PollInit
<1>2. Line(q) = <<>> /\ Len(<<>>) = 0
  BY <1>0, <1>1, LineType, EmptySeq
<1>3. LineSkips(q)
  BY <1>2 DEF LineSkips
<1>4. FetchedAll(q) /\ LaterReach(q) /\ TakenOn(q)
  BY <1>1 DEF FetchedAll, LaterReach, TakenOn, Attached
<1>5. SkipsOf(q)
  BY <1>1 DEF SkipsOf, Skipped
<1>. QED BY <1>3, <1>4, <1>5 DEF SkipInv

LEMMA PollStutters ==
  ASSUME UNCHANGED pollVars, PollBase
  PROVE  PollBase'
<1>0. /\ UNCHANGED brokerVars
      /\ UNCHANGED <<at, waits, unread, subs, merged, out, fwd, held, topicsOf, fromSeq, got, fetched, gap>>
      /\ UNCHANGED <<phase, subTopic, stage, taken, events>>
  BY DEF pollVars, requestVars, forwardVars, clientVars, brokerVars, hubVars, storeVars, subscribeVars,
         historyVars
<1>1. DInv'
  BY <1>0, BaseStep, OrderStep DEF PollBase, DInv, BrokerAct
<1>2. PollTypeOK' /\ Disjoint' /\ \A s \in Subs : FwdInv(s)'
  BY <1>0 DEF PollBase, PollTypeOK, Disjoint, FwdInv
<1>3. ASSUME NEW q \in Pollers PROVE PlaceInv(q)' /\ SubsInv(q)' /\ LineInv(q)'
  <2>1. PlaceInv(q) /\ SubsInv(q) /\ LineInv(q)
    BY DEF PollBase
  <2>2. PlaceInv(q)'
    BY <1>0, <2>1 DEF PlaceInv
  <2>3. SubsInv(q)'
    BY <1>0, <2>1 DEF SubsInv, Attached
  <2>4. Line(q)' = Line(q)
    BY <1>0 DEF Line
  <2>5. LineInv(q)'
    BY <1>0, <2>1, <2>4 DEF LineInv, Asked, Stored
  <2>. QED BY <2>2, <2>3, <2>5
<1>. QED BY <1>1, <1>2, <1>3 DEF PollBase

LEMMA SkipStutters ==
  ASSUME UNCHANGED pollVars, NEW q \in Pollers, SkipInv(q)
  PROVE  SkipInv(q)'
<1>0. UNCHANGED <<at, out, merged, unread, subs, topicsOf, fromSeq, got, fetched, gap, fwd, held,
                  events, subTopic, chan, lag, list, target, pc, cur, taken>>
  BY DEF pollVars, requestVars, forwardVars, clientVars, brokerVars, hubVars, storeVars, publishVars,
         historyVars
<1>1. Dropped' <=> Dropped
  BY <1>0 DEF Dropped
<1>2. LineSkips(q) => LineSkips(q)'
  <2>1. Line(q)' = Line(q)
    BY <1>0 DEF Line
  <2>2. SUFFICES ASSUME LineSkips(q), at'[q] # "close", NEW i \in 1 .. Len(Line(q)'),
                        NEW n \in fromSeq'[q] .. Line(q)'[i].seq - 1
                 PROVE  \/ n \in gap'[q][Line(q)'[i].topic]
                        \/ \E j \in 1 .. i - 1 : Line(q)'[j] = events'[Line(q)'[i].topic][n]
    BY DEF LineSkips
  <2>3. at[q] # "close" /\ i \in 1 .. Len(Line(q)) /\ n \in fromSeq[q] .. Line(q)[i].seq - 1
    BY <1>0, <2>1, <2>2
  <2>4. \/ n \in gap[q][Line(q)[i].topic]
        \/ \E j \in 1 .. i - 1 : Line(q)[j] = events[Line(q)[i].topic][n]
    BY <2>2, <2>3 DEF LineSkips
  <2>. QED BY <1>0, <2>1, <2>4
<1>3. FetchedAll(q) => FetchedAll(q)'
  BY <1>0 DEF FetchedAll, Attached
<1>4. ASSUME NEW s \in subs[q], NEW n, Reaches(s, n) PROVE Reaches(s, n)'
  BY <1>0, <1>4 DEF Reaches, Pending, Appended, InCritical, Owed
<1>5. LaterReach(q) => LaterReach(q)'
  <2>1. SUFFICES ASSUME LaterReach(q), Attached(q), NEW s \in subs[q],
                        NEW n \in fetched[q][subTopic[s]] + 1 .. Len(events[subTopic[s]])
                 PROVE  n \in gap[q][subTopic[s]] \/ Reaches(s, n)'
    BY <1>0, Zenon DEF LaterReach, Attached
  <2>. QED BY <1>4, <2>1 DEF LaterReach
<1>6. TakenOn(q) => TakenOn(q)'
  <2>1. Line(q)' = Line(q)
    BY <1>0 DEF Line
  <2>2. SUFFICES ASSUME TakenOn(q), Attached(q)', NEW s \in subs'[q], fwd'[s] # "exit",
                        NEW n \in fetched'[q][subTopic'[s]] + 1 .. taken'[s]
                 PROVE  \/ n \in gap'[q][subTopic'[s]]
                        \/ \E j \in 1 .. Len(Line(q)') : Line(q)'[j] = events'[subTopic'[s]][n]
                        \/ held'[s] # None /\ n = taken'[s]
    BY DEF TakenOn
  <2>3. /\ Attached(q) /\ s \in subs[q] /\ fwd[s] # "exit"
        /\ n \in fetched[q][subTopic[s]] + 1 .. taken[s]
    BY <1>0, <2>2 DEF Attached
  <2>4. \/ n \in gap[q][subTopic[s]]
        \/ \E j \in 1 .. Len(Line(q)) : Line(q)[j] = events[subTopic[s]][n]
        \/ held[s] # None /\ n = taken[s]
    BY <2>2, <2>3 DEF TakenOn
  <2>. QED BY <1>0, <2>1, <2>4
<1>7. SkipsOf(q) => SkipsOf(q)'
  BY <1>0 DEF SkipsOf, Skipped
<1>. QED BY <1>1, <1>2, <1>3, <1>5, <1>6, <1>7 DEF SkipInv

(* A client that resumes from last_seq + 1 skips an event only for one of the *)
(* three reasons given with SkipsAccounted (poll.go:82-121), however many     *)
(* clients, topics and publishers there are and whatever fails.               *)
THEOREM PollSkipsAccounted == PollSpec => []SkipsAccounted
<1>. DEFINE Inv == PollBase /\ \A q \in Pollers : SkipInv(q)
<1>1. PollInit => Inv
  BY PollBaseInit, SkipInit
<1>2. Inv /\ [PollNext]_pollVars => Inv'
  <2>1. ASSUME Inv, PollNext PROVE Inv'
    BY <2>1, PollBaseStep, SkipStep
  <2>2. ASSUME Inv, UNCHANGED pollVars PROVE Inv'
    BY <2>2, PollStutters, SkipStutters
  <2>. QED BY <2>1, <2>2
<1>3. Inv => SkipsAccounted
  BY DEF SkipInv, SkipsOf, SkipsAccounted
<1>. QED BY <1>1, <1>2, <1>3, PTL DEF PollSpec


--------------------------------------------------------------------------------
(* The order of a response.                                                   *)
LEMMA InjectiveTail ==
  ASSUME NEW S, NEW u \in Seq(S), u # <<>>, Injective(u)
  PROVE  Injective(Tail(u)) /\ Head(u) \notin ToSet(Tail(u))
<1>1. /\ Len(u) \in Nat \ {0} /\ Head(u) = u[1] /\ Tail(u) \in Seq(S)
      /\ Len(Tail(u)) = Len(u) - 1
      /\ \A i \in 1 .. Len(u) - 1 : Tail(u)[i] = u[i + 1]
  BY HeadAndTail
<1>2. 1 \in 1 .. Len(u) /\ \A i \in 1 .. Len(u) - 1 : i + 1 \in 1 .. Len(u) /\ i + 1 # 1
  BY <1>1
<1>3. Injective(Tail(u))
  <2>1. SUFFICES ASSUME NEW i \in 1 .. Len(u) - 1, NEW j \in 1 .. Len(u) - 1, Tail(u)[i] = Tail(u)[j]
                 PROVE  i = j
    BY <1>1 DEF Injective
  <2>2. i + 1 = j + 1
    BY <1>1, <1>2, <2>1 DEF Injective
  <2>. QED BY <2>2
<1>4. ASSUME NEW i \in 1 .. Len(u) - 1 PROVE Tail(u)[i] # Head(u)
  <2>1. i + 1 \in 1 .. Len(u) /\ i + 1 # 1 /\ 1 \in 1 .. Len(u)
    BY <1>2
  <2>2. u[i + 1] # u[1]
    BY <2>1 DEF Injective
  <2>. QED BY <1>1, <2>2
<1>5. \A x \in ToSet(Tail(u)) : \E i \in 1 .. Len(u) - 1 : Tail(u)[i] = x
  <2>. DEFINE v == Tail(u)
  <2>1. v \in Seq(S) /\ Len(v) = Len(u) - 1
    BY <1>1
  <2>. HIDE DEF v
  <2>2. \A x \in ToSet(v) : \E i \in 1 .. Len(v) : v[i] = x
    BY <2>1, Elements
  <2>. QED BY <2>1, <2>2 DEF v
<1>. QED BY <1>3, <1>4, <1>5

LEMMA ListsApartStep ==
  ASSUME PollBase, PollNext, NEW q \in Pollers, IsInjective(topicsOf[q]), ListsApart(q)
  PROVE  ListsApart(q)'
<1>0. /\ PollTypeOK /\ PlaceInv(q) /\ TypeInv
      /\ at[q] \in Places /\ topicsOf'[q] = topicsOf[q] /\ unread[q] \in Seq(Topics)
      /\ subTopic \in [Subs -> Topics \cup {None}] /\ subs[q] \subseteq Subs
  BY TopicsStay DEF PollBase, PollTypeOK, DInv, BaseInv, TypeInv, BrokerTypeOK, HubTypeOK
<1>e. Injective(<<>>) /\ Len(<<>>) = 0
  BY EmptySeq DEF Injective
<1>t. Injective(topicsOf[q])
  <2>1. DOMAIN topicsOf[q] = 1 .. Len(topicsOf[q])
    BY <1>0, ListFacts, LenProperties
  <2>. QED BY <2>1 DEF IsInjective, Injective
<1>1. ASSUME Injective(unread[q])', at'[q] # "fetch", at'[q] # "subscribe",
             subs'[q] = subs[q], \A s \in subs[q] : subTopic'[s] = subTopic[s]
      PROVE  ListsApart(q)'
  BY <1>1 DEF ListsApart, Injective
<1>2. ASSUME Injective(unread[q])', subs'[q] = {}, Line(q)' = <<>>
      PROVE  ListsApart(q)'
  BY <1>e, <1>2 DEF ListsApart, Injective
<1>3. CASE Passive(q)
  <2>1. PollerSame(q) /\ Line(q)' = Line(q)
    BY <1>3 DEF Passive, PollerSame, Line
  <2>2. \A s \in subs[q] : subTopic'[s] = subTopic[s]
    BY <1>3 DEF Passive, SubSame, Closes, ForwardTake, Take, ForwardExit, subscribeVars, Receive,
                brokerVars, hubVars
  <2>3. at'[q] = at[q] /\ unread'[q] = unread[q] /\ subs'[q] = subs[q]
    BY <2>1 DEF PollerSame
  <2>4. at'[q] = "fetch" => \A i \in 1 .. Len(Line(q)') : Line(q)'[i].topic \notin ToSet(unread'[q])
    BY <2>1, <2>3 DEF ListsApart
  <2>. QED BY <2>2, <2>3, <2>4 DEF ListsApart, Injective
<1>4. CASE PollCall(q)
  <2>1. /\ subs'[q] = {} /\ out'[q] = <<>> /\ merged'[q] = <<>> /\ unread'[q] = topicsOf[q]
    BY <1>0, <1>4 DEF PollCall, PlaceInv, PollTypeOK
  <2>2. Line(q)' = <<>>
    BY <2>1, EmptySeq, ConcatEmptySeq DEF Line
  <2>3. Injective(unread[q])'
    BY <1>t, <2>1 DEF Injective
  <2>. QED BY <1>2, <2>1, <2>2, <2>3
<1>5. CASE FetchFails(q) \/ PollReturn(q)
  <2>1. /\ subs'[q] = {} /\ out'[q] = <<>> /\ merged'[q] = <<>> /\ unread'[q] = <<>>
    BY <1>0, <1>5 DEF FetchFails, PollReturn, End, PollTypeOK
  <2>2. Line(q)' = <<>>
    BY <2>1, EmptySeq, ConcatEmptySeq DEF Line
  <2>3. Injective(unread[q])'
    BY <1>e, <2>1 DEF Injective
  <2>. QED BY <1>2, <2>1, <2>2, <2>3
<1>6. CASE Fetch(q)
  <2>. DEFINE t == Head(unread[q])
              b == Read(t, fromSeq[q])
  <2>1. /\ at[q] = "fetch" /\ subs'[q] = {} /\ unread[q] # <<>> /\ merged'[q] = <<>>
        /\ fromSeq[q] \in Nat \ {0}
        /\ \/ unread'[q] = Tail(unread[q]) /\ at'[q] = "fetch"
           \/ unread'[q] = <<>> /\ at'[q] = "respond"
           \/ unread'[q] = topicsOf[q] /\ at'[q] = "subscribe" /\ out'[q] = <<>>
    BY <1>0, <1>6 DEF Fetch, PlaceInv, PollTypeOK
  <2>2. CASE unread'[q] = Tail(unread[q]) /\ at'[q] = "fetch"
    <3>1. /\ Injective(Tail(unread[q])) /\ t \notin ToSet(Tail(unread[q]))
          /\ ToSet(Tail(unread[q])) \subseteq ToSet(unread[q])
      BY <1>0, <2>1, InjectiveTail, HeadAndTail DEF ListsApart
    <3>. DEFINE n == Len(Line(q))
    <3>2. /\ t \in Topics /\ Len(Line(q)') = n + Len(b) /\ Len(Line(q)) \in Nat
          /\ \A i \in 1 .. n : Line(q)'[i] = Line(q)[i]
          /\ \A j \in 1 .. Len(b) : Line(q)'[n + j] = b[j]
      BY <1>0, <1>6, LineFetch, LineType
    <3>3. Len(b) \in Nat /\ \A j \in 1 .. Len(b) : b[j].topic = t
      BY <1>0, <2>1, <3>2, ReadFacts
    <3>. HIDE DEF n, b, t
    <3>4. ASSUME NEW i \in 1 .. Len(Line(q)') PROVE Line(q)'[i].topic \notin ToSet(Tail(unread[q]))
      <4>1. CASE i <= n
        <5>1. i \in 1 .. Len(Line(q))
          BY <3>2, <4>1 DEF n
        <5>2. Line(q)[i].topic \notin ToSet(unread[q])
          BY <2>1, <5>1 DEF ListsApart
        <5>. QED BY <3>1, <3>2, <5>1, <5>2 DEF n
      <4>2. CASE i > n
        <5>1. i - n \in 1 .. Len(b) /\ n + (i - n) = i
          BY <3>2, <3>3, <4>2 DEF n
        <5>. QED BY <3>1, <3>2, <3>3, <5>1
      <4>. QED BY <3>2, <4>1, <4>2 DEF n
    <3>. QED BY <2>1, <2>2, <3>1, <3>4 DEF ListsApart, Injective
  <2>3. CASE unread'[q] = <<>> /\ at'[q] = "respond"
    BY <1>e, <2>1, <2>3 DEF ListsApart, Injective
  <2>4. CASE unread'[q] = topicsOf[q] /\ at'[q] = "subscribe" /\ out'[q] = <<>>
    <3>1. Line(q)' = <<>>
      BY <2>1, <2>4, EmptySeq, ConcatEmptySeq DEF Line
    <3>2. Injective(unread[q])'
      BY <1>t, <2>4 DEF Injective
    <3>. QED BY <1>2, <2>1, <3>1, <3>2
  <2>. QED BY <2>1, <2>2, <2>3, <2>4
<1>7. CASE Collect(q) \/ Respond(q)
  <2>1. /\ at'[q] \in {"batch", "close"} /\ UNCHANGED <<unread, subs, subTopic>>
    BY <1>0, <1>7 DEF Collect, Respond, PollTypeOK, brokerVars, hubVars
  <2>2. Injective(unread[q])'
    BY <2>1 DEF ListsApart, Injective
  <2>. QED BY <1>1, <2>1, <2>2
<1>8. ASSUME NEW s \in Subs, Join(q, s) PROVE ListsApart(q)'
  <2>1. /\ at[q] = "subscribe" /\ unread[q] # <<>> /\ at' = at
        /\ subs'[q] = subs[q] \cup {s} /\ stage[s] = "none"
        /\ subTopic' = [subTopic EXCEPT ![s] = Head(unread[q])]
        /\ unread'[q] = Tail(unread[q])
    BY <1>0, <1>8 DEF Join, SubscribeHub, HubSubscribe, PollTypeOK
  <2>2. /\ Injective(Tail(unread[q])) /\ Head(unread[q]) \notin ToSet(Tail(unread[q]))
        /\ ToSet(Tail(unread[q])) \subseteq ToSet(unread[q]) /\ Head(unread[q]) \in ToSet(unread[q])
    BY <1>0, <2>1, InjectiveTail, HeadAndTail DEF ListsApart
  <2>3. s \notin subs[q]
    <3>1. phase[s] = "new"
      BY <1>8 DEF Join, SubscribeHub, HubSubscribe
    <3>. QED BY <3>1, SubOfOne
  <2>4. /\ subTopic'[s] = Head(unread[q])
        /\ \A r \in subs[q] : subTopic'[r] = subTopic[r] /\ subTopic[r] \notin ToSet(unread[q])
    BY <1>0, <2>1, <2>3 DEF ListsApart
  <2>. HIDE DEF ListsApart
  <2>5. \A r \in subs'[q] : subTopic'[r] \notin ToSet(Tail(unread[q]))
    BY <2>1, <2>2, <2>4
  <2>6. \A r, u \in subs'[q] : subTopic'[r] = subTopic'[u] => r = u
    <3>1. \A r, u \in subs[q] : subTopic[r] = subTopic[u] => r = u
      BY DEF ListsApart
    <3>. QED BY <2>1, <2>2, <2>4, <3>1
  <2>7. Injective(unread'[q]) /\ at'[q] = "subscribe"
    BY <2>1, <2>2
  <2>. QED BY <2>1, <2>5, <2>6, <2>7 DEF ListsApart, Injective
<1>9. ASSUME NEW s \in Subs, Joined(q, s) PROVE ListsApart(q)'
  <2>1. /\ UNCHANGED <<unread, subs, subTopic, out, merged>> /\ s \in subs[q] /\ stage[s] = "read"
        /\ at'[q] = "wait" \/ at'[q] = at[q]
    BY <1>0, <1>9 DEF Joined, ReadBackfill, hubVars, PollTypeOK
  <2>2. at[q] = "subscribe"
    BY <2>1 DEF PollBase, SubsInv
  <2>. QED BY <2>1, <2>2 DEF ListsApart, Injective
<1>10. ASSUME NEW s \in Subs, ForwardPass(q, s) PROVE ListsApart(q)'
  <2>1. /\ UNCHANGED <<at, unread, subs, subTopic>> /\ s \in subs[q] /\ fwd[s] = "run"
    BY <1>10 DEF ForwardPass, brokerVars, hubVars
  <2>2. at[q] # "fetch"
    BY <2>1 DEF PollBase, PlaceInv
  <2>. QED BY <2>1, <2>2 DEF ListsApart, Injective
<1>. QED BY <1>3, <1>4, <1>5, <1>6, <1>7, <1>8, <1>9, <1>10, PollCases


LEMMA LineOrderStep ==
  ASSUME PollBase, PollNext, NEW q \in Pollers, OrderedLine(q)
  PROVE  LineOrder(q)'
<1>0. /\ PollTypeOK /\ PlaceInv(q) /\ LineInv(q) /\ TypeInv
      /\ at[q] \in Places /\ ListsApart(q) /\ LineOrder(q) /\ LineBehind(q)
  BY DEF PollBase, PollTypeOK, DInv, BaseInv, OrderedLine
<1>1. SUFFICES ASSUME at'[q] # "close", NEW i \in 1 .. Len(Line(q)'), NEW j \in 1 .. Len(Line(q)'),
                      i < j, Line(q)'[i].topic = Line(q)'[j].topic
               PROVE  Line(q)'[i].seq < Line(q)'[j].seq
  BY DEF LineOrder
<1>. DEFINE Goal == Line(q)'[i].seq < Line(q)'[j].seq
<1>2. CASE Line(q)' = <<>>
  BY <1>1, <1>2, EmptySeq
<1>3. CASE at[q] # "close" /\ Line(q)' = Line(q)
  BY <1>0, <1>1, <1>3 DEF LineOrder
<1>4. CASE Fetch(q)
  <2>. DEFINE n == Len(Line(q))
              t == Head(unread[q])
              f == fromSeq[q]
              b == Read(t, f)
              l == Len(b)
  <2>1. at[q] = "fetch" /\ n \in Nat /\ f \in Nat \ {0}
    BY <1>0, <1>4, LineType DEF Fetch, PollTypeOK
  <2>2. /\ t \in Topics /\ t \in ToSet(unread[q]) /\ Len(Line(q)') = n + l
        /\ \A k \in 1 .. n : Line(q)'[k] = Line(q)[k]
        /\ \A k \in 1 .. l : Line(q)'[n + k] = b[k]
    BY <1>0, <1>4, LineFetch
  <2>. HIDE DEF f, t
  <2>3. l \in Nat /\ \A k \in 1 .. l : b[k].topic = t /\ b[k].seq = f + k - 1
    BY <1>0, <2>1, <2>2, ReadFacts
  <2>4. \A k \in 1 .. n : Line(q)[k].topic # t
    BY <1>0, <2>1, <2>2 DEF ListsApart
  <2>. HIDE DEF n, b, l
  <2>5. CASE j <= n
    <3>1. i \in 1 .. n /\ j \in 1 .. n
      BY <1>1, <2>1, <2>5
    <3>. QED BY <1>0, <1>1, <2>1, <2>2, <3>1 DEF LineOrder, n
  <2>6. CASE i <= n /\ j > n
    <3>. DEFINE k == j - n
    <3>1. i \in 1 .. n /\ k \in 1 .. l /\ n + k = j
      BY <1>1, <2>1, <2>2, <2>3, <2>6
    <3>. HIDE DEF k
    <3>2. Line(q)'[j] = b[k] /\ Line(q)'[i] = Line(q)[i]
      BY <2>2, <3>1
    <3>3. b[k].topic = t /\ Line(q)[i].topic # t
      BY <2>3, <2>4, <3>1
    <3>. QED BY <1>1, <3>2, <3>3
  <2>7. CASE i > n
    <3>1. /\ i - n \in 1 .. l /\ n + (i - n) = i /\ j - n \in 1 .. l /\ n + (j - n) = j
          /\ f + (i - n) - 1 < f + (j - n) - 1
      BY <1>1, <2>1, <2>2, <2>3, <2>7
    <3>2. Line(q)'[i].seq = f + (i - n) - 1 /\ Line(q)'[j].seq = f + (j - n) - 1
      BY <2>2, <2>3, <3>1
    <3>. QED BY <3>1, <3>2
  <2>. QED BY <1>1, <2>1, <2>2, <2>3, <2>5, <2>6, <2>7
<1>5. ASSUME NEW s \in Subs, at[q] # "close", ForwardPass(q, s) PROVE Goal
  <2>. DEFINE n == Len(Line(q))
  <2>1. s \in subs[q] /\ held[s] # None /\ Len(Line(q)) \in Nat
    BY <1>0, <1>5, LineType DEF ForwardPass
  <2>2. /\ Len(Line(q)') = n + 1 /\ Line(q)'[n + 1] = held[s]
        /\ \A k \in 1 .. n : Line(q)'[k] = Line(q)[k]
    BY <1>0, <1>5, LinePass
  <2>. HIDE DEF n
  <2>3. i \in 1 .. n /\ (j \in 1 .. n \/ j = n + 1)
    BY <1>1, <2>1, <2>2 DEF n
  <2>4. CASE j \in 1 .. n
    BY <1>0, <1>1, <1>5, <2>2, <2>3, <2>4 DEF LineOrder, n
  <2>5. CASE j = n + 1
    <3>1. held[s].topic = subTopic[s] /\ held[s].seq = taken[s]
      BY <1>0, <1>5, <2>1 DEF LineInv
    <3>2. Attached(q)
      BY <1>0, <1>5, <2>1 DEF Attached, PlaceInv, Places
    <3>3. Line(q)[i].topic = subTopic[s]
      BY <1>1, <2>2, <2>3, <2>5, <3>1
    <3>4. Line(q)[i].seq < taken[s]
      BY <1>0, <2>1, <2>3, <3>2, <3>3 DEF LineBehind, n
    <3>. QED BY <2>2, <2>3, <2>5, <3>1, <3>4
  <2>. QED BY <2>3, <2>4, <2>5
<1>. QED BY <1>1, <1>2, <1>3, <1>4, <1>5, Frames

LEMMA LineBehindStep ==
  ASSUME PollBase, PollNext, NEW q \in Pollers, OrderedLine(q)
  PROVE  LineBehind(q)'
<1>0. /\ PollTypeOK /\ PlaceInv(q) /\ LineInv(q) /\ TypeInv /\ PollBase'
      /\ at[q] \in Places /\ ListsApart(q) /\ LineBehind(q)
  BY PollBaseStep DEF PollBase, PollTypeOK, DInv, BaseInv, OrderedLine
<1>1. SUFFICES ASSUME Attached(q)', NEW i \in 1 .. Len(Line(q)'), NEW s \in subs'[q],
                      Line(q)'[i].topic = subTopic'[s]
               PROVE  Line(q)'[i].seq <= taken'[s] /\ (held'[s] # None => Line(q)'[i].seq < taken'[s])
  BY DEF LineBehind
<1>. DEFINE Goal == Line(q)'[i].seq <= taken'[s] /\ (held'[s] # None => Line(q)'[i].seq < taken'[s])
<1>2. /\ Attached(q) /\ at'[q] # "close" /\ at[q] # "close" /\ subs'[q] # {}
  BY <1>1, Frames DEF Attached
<1>3. CASE Join(q, s)
  <2>1. at[q] = "subscribe" /\ at' = at
    BY <1>3 DEF Join
  <2>2. out'[q] = <<>> /\ merged'[q] = <<>> /\ PollTypeOK'
    BY <1>0, <2>1 DEF PollBase, PlaceInv
  <2>3. Line(q)' = <<>>
    BY <2>2, EmptySeq, ConcatEmptySeq DEF Line
  <2>. QED BY <1>1, <2>3, EmptySeq
<1>4. ASSUME s \in subs[q], subTopic'[s] = subTopic[s] PROVE Goal
  <2>1. s \in Subs /\ taken[s] \in Nat /\ OrderInv(s)
    BY <1>4, SubFacts
  <2>2. ASSUME i \in 1 .. Len(Line(q)), Line(q)'[i] = Line(q)[i] PROVE Goal
    <3>1. /\ Line(q)[i].seq <= taken[s] /\ (held[s] # None => Line(q)[i].seq < taken[s])
      BY <1>0, <1>1, <1>2, <1>4, <2>2 DEF LineBehind
    <3>2. Line(q)[i].seq \in Nat
      <4>1. Stored(Line(q)[i])
        BY <1>0, <1>2, <2>2 DEF LineInv, Asked
      <4>. QED BY <1>0, <4>1, StoredFacts
    <3>3. CASE taken'[s] = taken[s] /\ held'[s] = held[s]
      BY <2>2, <3>1, <3>3
    <3>4. CASE ForwardTake(s)
      <4>1. taken[s] < taken'[s] /\ taken'[s] \in Nat
        BY <1>0, <2>1, <3>4, TakeFacts
      <4>. QED BY <2>1, <2>2, <3>1, <3>2, <4>1
    <3>5. CASE ForwardExit(s) \/ ForwardPass(q, s)
      <4>1. taken'[s] = taken[s] /\ held'[s] = None
        BY <1>0, <2>1, <3>5 DEF ForwardExit, ForwardPass, PollTypeOK, brokerVars, historyVars
      <4>. QED BY <2>2, <3>1, <4>1
    <3>. QED BY <1>2, <1>4, <3>3, <3>4, <3>5, Frames
  <2>3. CASE Line(q)' = <<>>
    BY <1>1, <2>3, EmptySeq
  <2>4. CASE Line(q)' = Line(q)
    BY <1>1, <2>2, <2>4
  <2>5. CASE Fetch(q)
    BY <1>2, <2>5 DEF Fetch, Attached
  <2>6. ASSUME NEW r \in Subs, ForwardPass(q, r) PROVE Goal
    <3>. DEFINE n == Len(Line(q))
    <3>1. /\ r \in subs[q] /\ held[r] # None /\ taken' = taken /\ held'[r] = None
          /\ Len(Line(q)) \in Nat /\ taken[r] \in Nat
      <4>1. r \in subs[q] /\ held[r] # None /\ taken' = taken /\ held'[r] = None
        BY <1>0, <2>6 DEF ForwardPass, PollTypeOK, brokerVars, historyVars
      <4>. QED BY <1>0, <4>1, LineType, SubFacts
    <3>2. /\ Len(Line(q)') = n + 1 /\ Line(q)'[n + 1] = held[r]
          /\ \A k \in 1 .. n : Line(q)'[k] = Line(q)[k]
      BY <1>0, <2>6, LinePass
    <3>. HIDE DEF n
    <3>3. i \in 1 .. n \/ i = n + 1
      BY <1>1, <3>1, <3>2 DEF n
    <3>4. CASE i \in 1 .. n
      BY <2>2, <3>2, <3>4 DEF n
    <3>5. CASE i = n + 1
      <4>1. held[r].topic = subTopic[r] /\ held[r].seq = taken[r]
        BY <1>0, <1>2, <3>1 DEF LineInv
      <4>2. r = s
        BY <1>0, <1>1, <1>4, <3>1, <3>2, <3>5, <4>1 DEF ListsApart
      <4>. QED BY <2>1, <3>1, <3>2, <3>5, <4>1, <4>2
    <3>. QED BY <3>3, <3>4, <3>5
  <2>. QED BY <1>2, <2>3, <2>4, <2>5, <2>6, Frames
<1>. QED BY <1>1, <1>3, <1>4, Frames


(* A client of one topic.                                                     *)
LEMMA OneTopic ==
  ASSUME PollTypeOK, NEW q \in Pollers, Alone(q), NEW t \in ToSet(topicsOf[q]), NEW u \in ToSet(topicsOf[q])
  PROVE  t = u
<1>1. topicsOf[q] \in Seq(Topics)
  BY ListFacts
<1>2. PICK i \in 1 .. Len(topicsOf[q]), j \in 1 .. Len(topicsOf[q]) : topicsOf[q][i] = t /\ topicsOf[q][j] = u
  BY <1>1, Elements
<1>3. i = 1 /\ j = 1
  BY DEF Alone
<1>. QED BY <1>2, <1>3

LEMMA AloneSubStep ==
  ASSUME PollBase, PollNext, NEW q \in Pollers, Alone(q), at[q] # "close", fromSeq'[q] = fromSeq[q],
         NEW s \in subs[q], subTopic'[s] = subTopic[s], AloneSub(q, s)
  PROVE  AloneSub(q, s)'
<1>0. /\ PollTypeOK /\ TypeInv /\ BaseInv /\ LineInv(q) /\ BrokerAct /\ fromSeq[q] \in Nat \ {0}
      /\ s \in Subs /\ OrderInv(s) /\ phase[s] # "new"
      /\ subTopic[s] \in ToSet(topicsOf[q]) /\ Len(events[subTopic[s]]) \in Nat
  BY PollIsBroker, SubFacts, SubOfOne DEF PollBase, PollTypeOK
<1>1. Len(events[subTopic[s]]) >= fromSeq[q] - 1
  <2>1. CASE fromSeq[q] = 1
    BY <1>0, <2>1
  <2>2. CASE fromSeq[q] # 1
    <3>1. PICK e \in got[q] : e.seq = fromSeq[q] - 1
      BY <1>0, <2>2 DEF LineInv
    <3>2. Stored(e) /\ e.topic \in ToSet(topicsOf[q])
      BY <1>0, <3>1 DEF LineInv, Asked
    <3>3. e.topic = subTopic[s]
      BY <1>0, <3>2, OneTopic
    <3>4. e.seq \in 1 .. Len(events[subTopic[s]])
      BY <3>2, <3>3 DEF Stored
    <3>. QED BY <1>0, <3>1, <3>4
  <2>. QED BY <2>1, <2>2
<1>2. ASSUME NEW i \in 1 .. Len(chan'[s]) PROVE chan'[s][i].event.seq >= fromSeq'[q] - 1
  BY <1>0, <1>1, ChannelGrows DEF AloneSub
<1>3. ASSUME held'[s] # None PROVE held'[s].seq >= fromSeq'[q] - 1
  <2>1. CASE held'[s] = held[s]
    BY <1>3, <2>1 DEF AloneSub
  <2>2. CASE ForwardTake(s)
    <3>1. held'[s] = chan[s][1].event /\ 1 \in 1 .. Len(chan[s])
      BY <1>0, <2>2, TakeFacts
    <3>. QED BY <3>1 DEF AloneSub
  <2>3. CASE ForwardExit(s) \/ ForwardPass(q, s)
    BY <1>0, <1>3, <2>3 DEF ForwardExit, ForwardPass, PollTypeOK
  <2>. QED BY <2>1, <2>2, <2>3, Frames
<1>. QED BY <1>2, <1>3 DEF AloneSub

LEMMA AloneLineStep ==
  ASSUME PollBase, PollNext, NEW q \in Pollers, at[q] # "close", at'[q] # "close",
         fromSeq'[q] = fromSeq[q], AloneLine(q), \A s \in subs[q] : AloneSub(q, s)
  PROVE  AloneLine(q)'
<1>0. /\ PollTypeOK /\ TypeInv /\ PlaceInv(q) /\ fromSeq[q] \in Nat \ {0}
  BY DEF PollBase, PollTypeOK, DInv, BaseInv
<1>1. SUFFICES ASSUME NEW i \in 1 .. Len(Line(q)') PROVE Line(q)'[i].seq >= fromSeq[q] - 1
  BY DEF AloneLine
<1>2. CASE Line(q)' = <<>>
  BY <1>1, <1>2, EmptySeq
<1>3. CASE Line(q)' = Line(q)
  BY <1>1, <1>3 DEF AloneLine
<1>4. CASE Fetch(q)
  <2>. DEFINE n == Len(Line(q))
              t == Head(unread[q])
              f == fromSeq[q]
              b == Read(t, f)
              l == Len(b)
  <2>1. n \in Nat /\ f \in Nat \ {0}
    BY <1>0, LineType
  <2>2. /\ t \in Topics /\ Len(Line(q)') = n + l
        /\ \A k \in 1 .. n : Line(q)'[k] = Line(q)[k]
        /\ \A k \in 1 .. l : Line(q)'[n + k] = b[k]
    BY <1>0, <1>4, LineFetch
  <2>. HIDE DEF f, t
  <2>3. l \in Nat /\ \A k \in 1 .. l : b[k].seq = f + k - 1
    BY <1>0, <2>1, <2>2, ReadFacts
  <2>4. \A k \in 1 .. n : Line(q)[k].seq >= f - 1
    BY DEF AloneLine, f
  <2>. HIDE DEF n, b, l
  <2>5. CASE i <= n
    <3>1. i \in 1 .. n
      BY <1>1, <2>1, <2>2, <2>3, <2>5
    <3>. QED BY <2>2, <2>4, <3>1 DEF f
  <2>6. CASE i > n
    <3>. DEFINE k == i - n
    <3>1. k \in 1 .. l /\ n + k = i /\ f + k - 1 >= f - 1
      BY <1>1, <2>1, <2>2, <2>3, <2>6
    <3>. HIDE DEF k
    <3>2. Line(q)'[i] = b[k] /\ b[k].seq = f + k - 1
      BY <2>2, <2>3, <3>1
    <3>. QED BY <3>1, <3>2 DEF f
  <2>. QED BY <1>1, <2>1, <2>2, <2>3, <2>5, <2>6
<1>5. ASSUME NEW s \in Subs, ForwardPass(q, s) PROVE Line(q)'[i].seq >= fromSeq[q] - 1
  <2>. DEFINE n == Len(Line(q))
  <2>1. s \in subs[q] /\ held[s] # None /\ n \in Nat
    BY <1>0, <1>5, LineType DEF ForwardPass
  <2>2. /\ Len(Line(q)') = n + 1 /\ Line(q)'[n + 1] = held[s]
        /\ \A k \in 1 .. n : Line(q)'[k] = Line(q)[k]
    BY <1>0, <1>5, LinePass
  <2>3. held[s].seq >= fromSeq[q] - 1 /\ \A k \in 1 .. n : Line(q)[k].seq >= fromSeq[q] - 1
    BY <2>1 DEF AloneSub, AloneLine
  <2>. HIDE DEF n
  <2>4. i \in 1 .. n \/ i = n + 1
    BY <1>1, <2>1, <2>2
  <2>. QED BY <2>2, <2>3, <2>4
<1>. QED BY <1>2, <1>3, <1>4, <1>5, Frames

LEMMA AloneStep ==
  ASSUME PollBase, PollNext, NEW q \in Pollers, AloneInv(q)
  PROVE  AloneInv(q)'
<1>0. /\ PollTypeOK /\ TypeInv /\ PlaceInv(q) /\ LineInv(q) /\ at[q] \in Places
      /\ fromSeq[q] \in Nat \ {0} /\ topicsOf'[q] = topicsOf[q]
  BY TopicsStay DEF PollBase, PollTypeOK, DInv, BaseInv
<1>1. SUFFICES ASSUME Alone(q)
               PROVE  /\ \A e \in got'[q] : e.seq < fromSeq'[q]
                      /\ at'[q] # "close" => AloneLine(q)' /\ \A s \in subs'[q] : AloneSub(q, s)'
  BY <1>0 DEF AloneInv, Alone
<1>2. /\ \A e \in got[q] : e.seq < fromSeq[q]
      /\ at[q] # "close" => AloneLine(q) /\ \A s \in subs[q] : AloneSub(q, s)
  BY <1>1 DEF AloneInv
<1>3. ASSUME at'[q] # "close" PROVE AloneLine(q)' /\ \A s \in subs'[q] : AloneSub(q, s)'
  <2>1. ~ Respond(q)
    BY <1>0, <1>3 DEF Respond, PollTypeOK
  <2>2. fromSeq'[q] = fromSeq[q]
    BY <2>1, Frames
  <2>3. CASE Line(q)' = <<>> /\ subs'[q] = {}
    BY <2>3, EmptySeq DEF AloneLine
  <2>4. CASE at[q] # "close"
    <3>1. AloneLine(q)'
      BY <1>2, <1>3, <2>2, <2>4, AloneLineStep
    <3>2. ASSUME NEW s \in subs'[q], Join(q, s) PROVE AloneSub(q, s)'
      <4>1. /\ s \in Subs /\ phase[s] = "new" /\ stage[s] = "none" /\ chan' = chan /\ held' = held
        <5>1. s \in Subs
          BY <3>2, PollTypeStep DEF PollTypeOK
        <5>. QED BY <3>2, <5>1 DEF Join, SubscribeHub, HubSubscribe, forwardVars
      <4>2. StageIsPhase /\ FromStream(s) /\ FwdInv(s) /\ chan \in [Subs -> Seq(Frame)]
        BY <4>1 DEF PollBase, DInv, BaseInv, HubInv, OrderInv, TypeInv, BrokerTypeOK, HubTypeOK
      <4>3. subTopic[s] = None /\ held[s] = None
        BY <4>1, <4>2 DEF StageIsPhase, FwdInv
      <4>4. \A i \in 1 .. Len(chan[s]) : FALSE
        BY <4>2, <4>3, NoneAssumption DEF FromStream
      <4>. QED BY <4>1, <4>3, <4>4 DEF AloneSub
    <3>3. ASSUME NEW s \in subs[q], subTopic'[s] = subTopic[s] PROVE AloneSub(q, s)'
      BY <1>1, <1>2, <2>2, <2>4, <3>3, AloneSubStep
    <3>. QED BY <3>1, <3>2, <3>3, Frames
  <2>. QED BY <1>3, <2>3, <2>4, Frames
<1>4. CASE got'[q] = got[q] /\ fromSeq'[q] = fromSeq[q]
  BY <1>2, <1>3, <1>4
<1>5. CASE /\ Respond(q) /\ out[q] # <<>>
           /\ got'[q] = got[q] \cup ToSet(out[q]) /\ fromSeq'[q] = maxSeq(out[q]) + 1
  <2>. DEFINE m == maxSeq(out[q])
              o == out[q]
  <2>1. /\ at[q] # "close" /\ o \in Seq(Event) /\ o # <<>> /\ Len(o) \in Nat
        /\ Len(Line(q)) \in Nat /\ Len(o) <= Len(Line(q))
        /\ \A i \in 1 .. Len(o) : Line(q)[i] = o[i]
    BY <1>0, <1>5, LineType DEF Respond, Ready
  <2>2. ASSUME NEW i \in 1 .. Len(o) PROVE o[i].seq \in Nat \ {0} /\ o[i].seq >= fromSeq[q] - 1
    <3>1. i \in 1 .. Len(Line(q)) /\ Line(q)[i] = o[i]
      BY <2>1
    <3>2. Stored(o[i])
      BY <1>0, <2>1, <3>1 DEF LineInv, Asked
    <3>3. o[i].seq \in Nat \ {0}
      BY <1>0, <3>2, StoredFacts
    <3>4. o[i].seq >= fromSeq[q] - 1
      BY <1>2, <2>1, <3>1 DEF AloneLine
    <3>. QED BY <3>3, <3>4
  <2>. HIDE DEF o
  <2>3. m \in Nat /\ \A i \in 1 .. Len(o) : o[i].seq <= m
    BY <2>1, <2>2, MaxSeqFacts DEF o
  <2>. HIDE DEF m
  <2>4. 1 \in 1 .. Len(o)
    BY <2>1, EmptySeq
  <2>5. fromSeq[q] - 1 <= m
    BY <1>0, <2>2, <2>3, <2>4
  <2>6. ASSUME NEW e \in got[q] PROVE e.seq < m + 1
    <3>1. e.seq \in Nat /\ e.seq < fromSeq[q]
      BY <1>0, <1>2, StoredFacts DEF LineInv, Asked
    <3>. QED BY <1>0, <2>3, <2>5, <3>1
  <2>7. ASSUME NEW e \in ToSet(o) PROVE e.seq < m + 1
    <3>1. PICK i \in 1 .. Len(o) : o[i] = e
      BY <2>1, Elements
    <3>. QED BY <2>2, <2>3, <3>1
  <2>8. fromSeq'[q] = m + 1 /\ got'[q] = got[q] \cup ToSet(o)
    BY <1>5 DEF m, o
  <2>. QED BY <1>3, <2>6, <2>7, <2>8
<1>6. ASSUME Respond(q)
      PROVE  \/ got'[q] = got[q] /\ fromSeq'[q] = fromSeq[q]
             \/ out[q] # <<>> /\ got'[q] = got[q] \cup ToSet(out[q]) /\ fromSeq'[q] = maxSeq(out[q]) + 1
  BY <1>0, <1>6 DEF Respond, PollTypeOK
<1>. QED BY <1>4, <1>5, <1>6, Frames


LEMMA OrderInit ==
  ASSUME PollInit, NEW q \in Pollers
  PROVE  OrderedLine(q) /\ AloneInv(q)
<1>1. /\ at[q] = "idle" /\ subs[q] = {} /\ merged[q] = <<>> /\ out[q] = <<>> /\ unread[q] = <<>>
      /\ got[q] = {}
  BY DEF PollInit
<1>2. Line(q) = <<>> /\ Len(<<>>) = 0
  BY <1>1, PollBaseInit, LineType, EmptySeq DEF PollBase
<1>3. ListsApart(q) /\ LineOrder(q) /\ LineBehind(q)
  BY <1>1, <1>2 DEF ListsApart, Injective, LineOrder, LineBehind
<1>4. AloneInv(q)
  BY <1>1, <1>2 DEF AloneInv, AloneLine
<1>. QED BY <1>3, <1>4 DEF OrderedLine

LEMMA OrderStutters ==
  ASSUME UNCHANGED pollVars, NEW q \in Pollers
  PROVE  (OrderedLine(q) => OrderedLine(q)') /\ (AloneInv(q) => AloneInv(q)')
<1>0. UNCHANGED <<at, out, merged, unread, subs, topicsOf, fromSeq, got, held, subTopic, chan, taken>>
  BY DEF pollVars, requestVars, forwardVars, clientVars, brokerVars, hubVars, historyVars
<1>1. Line(q)' = Line(q)
  BY <1>0 DEF Line
<1>2. ASSUME OrderedLine(q) PROVE ListsApart(q)' /\ LineOrder(q)' /\ LineBehind(q)'
  BY <1>0, <1>1, <1>2 DEF OrderedLine, ListsApart, Injective, LineOrder, LineBehind, Attached
<1>3. AloneInv(q) => AloneInv(q)'
  BY <1>0, <1>1 DEF AloneInv, Alone, AloneLine, AloneSub
<1>. QED BY <1>2, <1>3 DEF OrderedLine

LEMMA InOrderFromInv ==
  ASSUME PollBase, \A q \in Pollers : (IsInjective(topicsOf[q]) => OrderedLine(q)) /\ AloneInv(q)
  PROVE  ResponsesInOrder
<1>1. SUFFICES ASSUME NEW q \in Pollers, at[q] \notin {"idle", "close"}
               PROVE  /\ IsInjective(topicsOf[q]) => \A i, j \in DOMAIN out[q] :
                           i < j /\ out[q][i].topic = out[q][j].topic => out[q][i].seq < out[q][j].seq
                      /\ Alone(q) => \A i \in DOMAIN out[q] : \A e \in got[q] : out[q][i].seq >= e.seq
  BY DEF ResponsesInOrder
<1>2. /\ TypeInv /\ LineInv(q) /\ AloneInv(q) /\ fromSeq[q] \in Nat \ {0}
      /\ PollTypeOK
  BY DEF PollBase, PollTypeOK, DInv, BaseInv
<1>3. /\ DOMAIN out[q] = 1 .. Len(out[q])
      /\ \A i \in 1 .. Len(out[q]) : i \in 1 .. Len(Line(q)) /\ Line(q)[i] = out[q][i]
  <2>1. /\ out[q] \in Seq(Event) /\ Len(out[q]) \in Nat /\ Len(Line(q)) \in Nat /\ Len(out[q]) <= Len(Line(q))
        /\ \A i \in 1 .. Len(out[q]) : Line(q)[i] = out[q][i]
    BY <1>2, LineType
  <2>2. DOMAIN out[q] = 1 .. Len(out[q])
    BY <2>1, LenProperties
  <2>. QED BY <2>1, <2>2
<1>4. ASSUME IsInjective(topicsOf[q]), NEW i \in 1 .. Len(out[q]), NEW j \in 1 .. Len(out[q]),
             i < j, out[q][i].topic = out[q][j].topic
      PROVE  out[q][i].seq < out[q][j].seq
  BY <1>1, <1>2, <1>3, <1>4 DEF OrderedLine, LineOrder
<1>5. ASSUME Alone(q), NEW i \in 1 .. Len(out[q]), NEW e \in got[q] PROVE out[q][i].seq >= e.seq
  <2>1. out[q][i].seq >= fromSeq[q] - 1 /\ e.seq < fromSeq[q]
    BY <1>1, <1>2, <1>3, <1>5 DEF AloneInv, AloneLine
  <2>2. e.seq \in Nat /\ out[q][i].seq \in Nat
    <3>1. Stored(e) /\ Stored(out[q][i])
      BY <1>1, <1>2, <1>3 DEF LineInv, Asked
    <3>. QED BY <1>2, <3>1, StoredFacts
  <2>. QED BY <1>2, <2>1, <2>2
<1>. QED BY <1>3, <1>4, <1>5

(* A response has each of its topics in order and without duplicates, unless  *)
(* the request names one of them twice, and a client of one topic is never    *)
(* sent anything older than what it has received (poll.go:44-121).            *)
THEOREM PollResponsesInOrder == PollSpec => []ResponsesInOrder
<1>. DEFINE Inv == PollBase /\ \A q \in Pollers : (IsInjective(topicsOf[q]) => OrderedLine(q)) /\ AloneInv(q)
<1>1. PollInit => Inv
  BY PollBaseInit, OrderInit
<1>2. Inv /\ [PollNext]_pollVars => Inv'
  <2>1. ASSUME Inv, PollNext PROVE Inv'
    <3>1. topicsOf' = topicsOf
      BY <2>1, TopicsStay
    <3>2. ASSUME NEW q \in Pollers, IsInjective(topicsOf[q]) PROVE OrderedLine(q)'
      <4>1. OrderedLine(q) /\ ListsApart(q)
        BY <2>1, <3>2 DEF OrderedLine
      <4>2. ListsApart(q)' /\ LineOrder(q)' /\ LineBehind(q)'
        BY <2>1, <3>2, <4>1, ListsApartStep, LineOrderStep, LineBehindStep
      <4>. QED BY <4>2 DEF OrderedLine
    <3>3. \A q \in Pollers : AloneInv(q)'
      BY <2>1, AloneStep
    <3>4. \A q \in Pollers : IsInjective(topicsOf[q])' => IsInjective(topicsOf[q])
      BY <3>1 DEF IsInjective
    <3>. QED BY <2>1, <3>2, <3>3, <3>4, PollBaseStep
  <2>2. ASSUME Inv, UNCHANGED pollVars PROVE Inv'
    <3>1. topicsOf' = topicsOf
      BY <2>2 DEF pollVars, clientVars
    <3>2. \A q \in Pollers : IsInjective(topicsOf[q])' => IsInjective(topicsOf[q])
      BY <3>1 DEF IsInjective
    <3>. QED BY <2>2, <3>2, PollStutters, OrderStutters
  <2>. QED BY <2>1, <2>2
<1>3. Inv => ResponsesInOrder
  BY InOrderFromInv
<1>. QED BY <1>1, <1>2, <1>3, PTL DEF PollSpec

--------------------------------------------------------------------------------
(* The archiver adds deletions to the steps of the broker.                    *)
ArchTypeOK ==
  /\ clock \in Nat /\ now \in Nat /\ now <= clock
  /\ todo \subseteq Topics
  /\ victim \in Topics \cup {None}
  /\ raced \subseteq Topics
  /\ checked \in Nat

ArchTypeInv == TypeInv /\ ArchTypeOK

(* Topics that were not deleted under a Publish keep the invariant of the     *)
(* broker.                                                                    *)
UnracedInv == \A t \in Topics \ raced : TopicInv(t)

(* As long as nothing was appended to it, the topic found aged is aged.       *)
VictimInv ==
  victim # None =>
    /\ checked <= Len(events[victim])
    /\ Len(events[victim]) = checked => AgedAt(victim, now)

TtlInv == \A t \in Topics : ttl[t] \in {0, DefaultTTL}

(* A step is one of the broker, with the clock, the sweep and its history     *)
(* left alone, or one of the archiver, or a tick.                             *)
LEMMA ArchCases ==
  ASSUME ArchTypeInv, [ArchNext]_vars
  PROVE  \/ BrokerAct /\ UNCHANGED archVars
         \/ Tick
         \/ SweepStart
         \/ \E t \in Topics : SweepCheck(t)
         \/ SweepDelete
<1>1. CASE Tick
  BY <1>1
<1>2. CASE SweepStep
  BY <1>2 DEF SweepStep
<1>3. ASSUME NEW p \in Publishers, UNCHANGED archVars,
             \/ \E t \in Topics : \E ok \in Outcomes(t) : PublishCall(p, t, ok, clock)
             \/ Lock(p)
             \/ PublishStep(p)
      PROVE  BrokerAct
  <2>1. clock \in Nat
    BY DEF ArchTypeInv, ArchTypeOK
  <2>2. PublisherAct(p)
    BY <1>3, <2>1 DEF PublisherAct
  <2>. QED BY <2>2 DEF BrokerAct
<1>4. CASE UNCHANGED vars
  BY <1>4 DEF vars, BrokerAct
<1>. QED BY <1>1, <1>2, <1>3, <1>4 DEF ArchNext

(* What the archiver's steps other than the deletion leave alone.             *)
LEMMA LooksOnly ==
  ASSUME Tick \/ SweepStart \/ \E t \in Topics : SweepCheck(t)
  PROVE  UNCHANGED <<brokerVars, raced>>
BY DEF Tick, SweepStart, SweepCheck

LEMMA SweepDeleteType ==
  ASSUME ArchTypeInv, SweepDelete
  PROVE  TypeInv'
<1>. USE DEF SweepDelete, StoreDeleteTopic
<1>1. <<>> \in Seq(Event) /\ Len(<<>>) = 0
  BY EmptySeq
<1>2. BrokerTypeOK'
  BY <1>1 DEF ArchTypeInv, TypeInv, BrokerTypeOK, hubVars, publishVars, subscribeVars, historyVars, HubTypeOK
<1>3. LockHeld'
  BY DEF ArchTypeInv, TypeInv, LockHeld, InCritical, Fanout, hubVars, publishVars, subscribeVars
<1>4. SeqIsPosition'
  BY <1>1 DEF ArchTypeInv, TypeInv, BrokerTypeOK, SeqIsPosition
<1>. QED BY <1>2, <1>3, <1>4 DEF TypeInv

LEMMA ArchTypeInit == ArchInit => ArchTypeInv
BY TypeInit DEF ArchInit, ArchTypeInv, ArchTypeOK

LEMMA ArchTypeStep ==
  ASSUME ArchTypeInv, [ArchNext]_vars
  PROVE  ArchTypeInv'
<1>. USE DEF ArchTypeInv, ArchTypeOK
<1>1. CASE BrokerAct /\ UNCHANGED archVars
  BY <1>1, TypeStep DEF archVars
<1>2. CASE Tick
  BY <1>2, TypeStutter DEF Tick
<1>3. CASE SweepStart
  BY <1>3, TypeStutter DEF SweepStart, TypeInv, BrokerTypeOK
<1>4. ASSUME NEW t \in Topics, SweepCheck(t) PROVE ArchTypeInv'
  <2>1. Len(events[t]) \in Nat
    BY LenProperties DEF TypeInv, BrokerTypeOK
  <2>. QED BY <1>4, <2>1, TypeStutter DEF SweepCheck
<1>5. CASE SweepDelete
  BY <1>5, SweepDeleteType DEF SweepDelete
<1>. QED BY <1>1, <1>2, <1>3, <1>4, <1>5, ArchCases

LEMMA ArchTypeInvariant == ArchSpec => []ArchTypeInv
BY ArchTypeInit, ArchTypeStep, PTL DEF ArchSpec

--------------------------------------------------------------------------------
(* Expiry and the derived state.                                              *)

(* Deleting a topic empties stream and state together, which is consistent as *)
(* long as no Publish of it is past its append; it does not touch others.     *)
LEMMA DeletedTopic ==
  ASSUME ArchTypeInv, SweepDelete, NEW u \in Topics, u = victim, ~ InPublish(u)
  PROVE  TopicInv(u)'
<1>1. /\ events'[u] = <<>> /\ state'[u] = <<>>
      /\ UNCHANGED <<pc, cur, next>>
  BY DEF SweepDelete, StoreDeleteTopic, publishVars, ArchTypeInv, TypeInv, BrokerTypeOK
<1>2. \A p \in Publishers : cur[p].topic = u => pc[p] \in {"idle", "lock", "append"}
  BY DEF InPublish, ArchTypeInv, TypeInv, BrokerTypeOK, PcValues
<1>3. WorksOnLast(u)' /\ NextIsFold(u)' /\ FanoutIsFold(u)'
  BY <1>1, <1>2 DEF WorksOnLast, NextIsFold, FanoutIsFold, Appended, InCritical
<1>4. FoldOf(state[u], Saved(u))'
  <2>1. Saved(u)' = SubSeq(<<>>, 1, 0)
    BY <1>1, <1>2, EmptySeq DEF Saved, Unsaved
  <2>2. Saved(u)' = <<>>
    BY <2>1, SubSeqEmpty
  <2>. QED BY <1>1, <2>2, EmptySeq DEF FoldOf
<1>. QED BY <1>3, <1>4 DEF TopicInv

LEMMA OtherTopic ==
  ASSUME ArchTypeInv, SweepDelete, NEW u \in Topics, u # victim, TopicInv(u)
  PROVE  TopicInv(u)'
<1>1. events'[u] = events[u] /\ state'[u] = state[u] /\ UNCHANGED <<pc, cur, next>>
  BY DEF SweepDelete, StoreDeleteTopic, publishVars, ArchTypeInv, TypeInv, BrokerTypeOK
<1>. QED BY <1>1, StateUntouched

LEMMA UnracedStep ==
  ASSUME "getstate" \notin StoreErrors, "setstate" \notin StoreErrors,
         ArchTypeInv, UnracedInv, [ArchNext]_vars
  PROVE  UnracedInv'
<1>1. CASE BrokerAct /\ UNCHANGED archVars
  <2>1. TypeInv /\ raced' = raced
    BY <1>1 DEF ArchTypeInv, archVars
  <2>. QED BY <1>1, <2>1, StateStep DEF UnracedInv
<1>2. CASE Tick \/ SweepStart \/ \E t \in Topics : SweepCheck(t)
  <2>1. UNCHANGED <<storeVars, publishVars, raced>>
    BY <1>2, LooksOnly DEF brokerVars
  <2>. QED BY <2>1, SubscriberState DEF UnracedInv
<1>3. CASE SweepDelete
  <2>1. SUFFICES ASSUME NEW u \in Topics, u \notin raced' PROVE TopicInv(u)'
    BY DEF UnracedInv
  <2>2. u \notin raced /\ (u = victim => ~ InPublish(u))
    BY <1>3, <2>1 DEF SweepDelete
  <2>3. TopicInv(u)
    BY <2>2 DEF UnracedInv
  <2>. QED BY <1>3, <2>2, <2>3, DeletedTopic, OtherTopic
<1>. QED BY <1>1, <1>2, <1>3, ArchCases

(* Whatever the archiver deletes and whenever, the saved state of a topic is  *)
(* the fold of its stream, unless the topic was deleted between the append    *)
(* and the end of a Publish (archiver.go:47-60, broker.go:58-71).             *)
THEOREM ExpiryKeepsState ==
  ASSUME "getstate" \notin StoreErrors, "setstate" \notin StoreErrors
  PROVE  ArchSpec => []StateIsFoldUnlessRaced
<1>1. ArchInit => UnracedInv
  BY TopicInit DEF ArchInit, UnracedInv
<1>2. UnracedInv => StateIsFoldUnlessRaced
  BY DEF UnracedInv, TopicInv, StateIsFoldUnlessRaced
<1>3. ArchTypeInv /\ UnracedInv /\ [ArchNext]_vars => UnracedInv'
  BY UnracedStep
<1>. QED BY <1>1, <1>2, <1>3, ArchTypeInvariant, PTL DEF ArchSpec

--------------------------------------------------------------------------------
(* Which topics are deleted.                                                  *)

(* What a step of the broker does to a stream and to a TTL: the stream stays  *)
(* or grows by one event, the TTL stays or becomes the broker's.              *)
LEMMA BrokerGrows ==
  ASSUME TypeInv, BrokerAct, NEW t \in Topics
  PROVE  /\ events'[t] = events[t] \/ Len(events'[t]) = Len(events[t]) + 1
         /\ ttl'[t] \in {ttl[t], DefaultTTL}
<1>1. ASSUME NEW p \in Publishers, AppendEvent(p)
      PROVE  /\ events'[t] = events[t] \/ Len(events'[t]) = Len(events[t]) + 1
             /\ ttl' = ttl
  <2>. DEFINE c == cur[p].topic
              e == [cur[p] EXCEPT !.seq = NextSeq(c)]
  <2>1. /\ cur[p] \in Event /\ c \in Topics /\ events \in [Topics -> Seq(Event)]
        /\ Len(events[c]) \in Nat
    BY <1>1, LenProperties DEF AppendEvent, TypeInv, BrokerTypeOK, LockHeld, Event
  <2>2. e \in Event
    <3>1. NextSeq(c) \in Nat
      BY <2>1 DEF NextSeq
    <3>. QED BY <2>1, <3>1, WithSeq
  <2>. HIDE DEF e
  <2>3. events' = [events EXCEPT ![c] = Append(events[c], e)] /\ ttl' = ttl
    BY <1>1, <2>1 DEF AppendEvent, StoreAppend, e
  <2>4. Len(Append(events[c], e)) = Len(events[c]) + 1
    BY <2>1, <2>2, AppendProperties
  <2>. QED BY <2>1, <2>3, <2>4
<1>2. ASSUME NEW p \in Publishers, UpsertMeta(p)
      PROVE  events' = events /\ ttl'[t] \in {ttl[t], DefaultTTL}
  BY <1>2 DEF UpsertMeta, StoreUpsertMeta, storeVars, TypeInv, BrokerTypeOK
<1>3. ASSUME NEW p \in Publishers, PublisherAct(p), ~ AppendEvent(p), ~ UpsertMeta(p)
      PROVE  events' = events /\ ttl' = ttl
  BY <1>3
     DEF PublisherAct, PublishCall, Lock, PublishStep, AppendFails, ApplyReducer, SaveState,
         StoreSetState, StartFanout, VisitSub, FinishPublish, storeVars
<1>4. ASSUME NEW s \in Subs, SubscriberAct(s)
      PROVE  events' = events /\ ttl' = ttl
  BY <1>4
     DEF SubscriberAct, SubscribeHub, SubscribeStep, ReadBackfill, ReadFails, FinishClose,
         Unsubscribe, Consume, Take, storeVars
<1>5. CASE UNCHANGED brokerVars
  BY <1>5 DEF brokerVars, storeVars
<1>. QED BY <1>1, <1>2, <1>3, <1>4, <1>5 DEF BrokerAct

LEMMA LastIsEvent ==
  ASSUME TypeInv, NEW t \in Topics, HasEvents(t)
  PROVE  LastEventAt(t) \in Nat
<1>1. events[t] \in Seq(Event) /\ events[t] # <<>>
  BY DEF TypeInv, BrokerTypeOK, HasEvents
<1>2. Len(events[t]) \in 1 .. Len(events[t])
  BY <1>1, EmptySeq
<1>3. events[t][Len(events[t])] \in Event
  BY <1>1, <1>2, ElementOfSeq
<1>. QED BY <1>3 DEF LastEventAt, Event

(* A topic is aged for as long as its last event is the last and its TTL does *)
(* not become a longer one.                                                   *)
LEMMA AgedStays ==
  ASSUME DefaultTTL <= ArchiverTTL, TypeInv, TtlInv, NEW t \in Topics, NEW n \in Nat,
         AgedAt(t, n), events'[t] = events[t], ttl'[t] \in {ttl[t], DefaultTTL}
  PROVE  HasEvents(t)' /\ n - LastEventAt(t)' > TTL(t)'
<1>1. HasEvents(t) /\ n - LastEventAt(t) > TTL(t) /\ LastEventAt(t) \in Nat
  BY LastIsEvent DEF AgedAt
<1>2. HasEvents(t)' /\ LastEventAt(t)' = LastEventAt(t)
  BY <1>1 DEF HasEvents, LastEventAt
<1>3. TTL(t)' <= TTL(t) /\ TTL(t) \in Nat /\ TTL(t)' \in Nat
  BY TTLAssumption, ArchiverTTLAssumption DEF TTL, TtlInv
<1>. QED BY <1>1, <1>2, <1>3

LEMMA VictimStep ==
  ASSUME DefaultTTL <= ArchiverTTL, ArchTypeInv, TtlInv, VictimInv, [ArchNext]_vars
  PROVE  TtlInv' /\ VictimInv'
<1>. USE DEF ArchTypeInv, ArchTypeOK
<1>0. \A t \in Topics : events[t] \in Seq(Event) /\ Len(events[t]) \in Nat
  BY LenProperties DEF TypeInv, BrokerTypeOK
<1>1. CASE BrokerAct /\ UNCHANGED archVars
  <2>1. /\ victim' = victim /\ checked' = checked /\ now' = now
        /\ now \in Nat /\ checked \in Nat
    BY <1>1 DEF archVars
  <2>2. TtlInv'
    BY <1>1, BrokerGrows DEF TtlInv
  <2>3. SUFFICES ASSUME victim # None PROVE VictimInv'
    BY <2>1, <2>2 DEF VictimInv
  <2>. DEFINE v == victim
  <2>4. v \in Topics /\ checked <= Len(events[v]) /\ Len(events[v]) \in Nat
    BY <2>3, <1>0 DEF VictimInv
  <2>5. CASE events'[v] = events[v]
    <3>1. ASSUME Len(events[v]) = checked PROVE AgedAt(v, now)'
      <4>1. AgedAt(v, now)
        BY <2>3, <3>1 DEF VictimInv
      <4>2. ttl'[v] \in {ttl[v], DefaultTTL}
        BY <1>1, <2>4, BrokerGrows
      <4>3. \A u \in Topics : u = v => HasEvents(u)' /\ now - LastEventAt(u)' > TTL(u)'
        BY <4>1, <4>2, <2>1, <2>4, <2>5, AgedStays
      <4>. QED BY <4>3, <2>1, <2>4 DEF AgedAt, HasEvents, LastEventAt, TTL
    <3>. QED BY <3>1, <2>1, <2>4, <2>5 DEF VictimInv
  <2>6. CASE Len(events'[v]) = Len(events[v]) + 1
    BY <2>1, <2>4, <2>6 DEF VictimInv
  <2>. QED BY <1>1, <2>4, <2>5, <2>6, BrokerGrows
<1>2. CASE Tick
  BY <1>2 DEF Tick, brokerVars, storeVars, TtlInv, VictimInv, AgedAt, HasEvents, LastEventAt, TTL
<1>3. CASE SweepStart
  BY <1>3 DEF SweepStart, brokerVars, storeVars, TtlInv, VictimInv
<1>4. ASSUME NEW t \in Topics, SweepCheck(t) PROVE TtlInv' /\ VictimInv'
  <2>1. UNCHANGED storeVars /\ now' = now
    BY <1>4 DEF SweepCheck, brokerVars
  <2>2. TtlInv'
    BY <2>1 DEF TtlInv, storeVars
  <2>3. CASE ~ (t \in known /\ AgedAt(t, now))
    BY <1>4, <2>2, <2>3 DEF SweepCheck, VictimInv
  <2>4. CASE t \in known /\ AgedAt(t, now)
    <3>1. victim' = t /\ checked' = Len(events[t]) /\ events' = events /\ ttl' = ttl
      BY <1>4, <2>1, <2>4 DEF SweepCheck, storeVars
    <3>2. VictimInv'
      BY <1>0, <2>1, <2>4, <3>1 DEF VictimInv, AgedAt, HasEvents, LastEventAt, TTL
    <3>. QED BY <2>2, <3>2
  <2>. QED BY <2>3, <2>4
<1>5. CASE SweepDelete
  BY <1>5 DEF SweepDelete, StoreDeleteTopic, VictimInv, TtlInv, TypeInv, BrokerTypeOK
<1>. QED BY <1>1, <1>2, <1>3, <1>4, <1>5, ArchCases

(* A sweep deletes a topic that is not aged only if an event was appended to  *)
(* it after the sweep had found it aged (archiver.go:48-57), provided that    *)
(* the archiver's default TTL is not the shorter one.                         *)
THEOREM ExpirySparesFresh ==
  ASSUME DefaultTTL <= ArchiverTTL
  PROVE  ArchSpec => FreshLostOnlyByRace
<1>. DEFINE Spared(t) ==
       HasEvents(t) /\ events'[t] = <<>> /\ ~ AgedAt(t, clock) => Len(events[t]) > checked
<1>1. ArchInit => TtlInv /\ VictimInv
  BY DEF ArchInit, BrokerInit, StoreInit, TtlInv, VictimInv
<1>2. ArchTypeInv /\ TtlInv /\ VictimInv /\ [ArchNext]_vars => TtlInv' /\ VictimInv'
  BY VictimStep
<1>3. ArchTypeInv /\ TtlInv /\ VictimInv /\ [ArchNext]_vars => [\A t \in Topics : Spared(t)]_vars
  <2>. SUFFICES ASSUME ArchTypeInv, TtlInv, VictimInv, [ArchNext]_vars, NEW t \in Topics,
                       HasEvents(t), events'[t] = <<>>, ~ AgedAt(t, clock)
                PROVE  Len(events[t]) > checked
    OBVIOUS
  <2>0. events[t] \in Seq(Event) /\ Len(events[t]) \in Nat /\ events[t] # <<>> /\ TypeInv
    BY LenProperties DEF ArchTypeInv, TypeInv, BrokerTypeOK, HasEvents
  <2>1. victim = t /\ t # None
    <3>1. CASE BrokerAct
      <4>1. Len(events[t]) + 1 # Len(<<>>)
        BY <2>0, EmptySeq
      <4>. QED BY <3>1, <4>1, <2>0, BrokerGrows
    <3>2. CASE Tick \/ SweepStart \/ \E u \in Topics : SweepCheck(u)
      BY <3>2, <2>0, LooksOnly DEF brokerVars, storeVars
    <3>3. CASE SweepDelete
      BY <3>3, <2>0, NoneAssumption
         DEF SweepDelete, StoreDeleteTopic, ArchTypeInv, ArchTypeOK, TypeInv, BrokerTypeOK
    <3>. QED BY <3>1, <3>2, <3>3, ArchCases
  <2>2. checked <= Len(events[t]) /\ (Len(events[t]) = checked => AgedAt(t, now))
    BY <2>1 DEF VictimInv
  <2>3. ~ AgedAt(t, now)
    <3>1. LastEventAt(t) \in Nat /\ TTL(t) \in Nat
      BY LastIsEvent, <2>0, TTLAssumption, ArchiverTTLAssumption DEF TTL, TtlInv
    <3>2. now \in Nat /\ clock \in Nat /\ now <= clock
      BY DEF ArchTypeInv, ArchTypeOK
    <3>. QED BY <3>1, <3>2 DEF AgedAt
  <2>4. checked \in Nat
    BY DEF ArchTypeInv, ArchTypeOK
  <2>. QED BY <2>0, <2>2, <2>3, <2>4
<1>. QED BY <1>1, <1>2, <1>3, ArchTypeInvariant, PTL DEF ArchSpec, FreshLostOnlyByRace

================================================================================
