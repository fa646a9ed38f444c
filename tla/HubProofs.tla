------------------------------- MODULE HubProofs -------------------------------
(******************************************************************************)
(* Proofs about the hub by itself, for any number of topics, subscriptions    *)
(* and publishers without a common lock, and any channel capacity.            *)
(******************************************************************************)
EXTENDS MCHub, SequenceTheorems, FiniteSetTheorems, TLAPS

(* A publisher outside Publish has nothing left to visit, and one inside      *)
(* visits every subscription of its snapshot once.                            *)
VisitsOnce ==
  \A p \in Publishers :
    /\ job[p] = None => list[p] = {} /\ target[p] = None
    /\ target[p] \notin list[p]

(* A subscription that does not exist yet is nobody's.                        *)
NewIsFresh ==
  \A s \in Subs : phase[s] = "new" =>
    /\ subTopic[s] = None /\ chan[s] = <<>> /\ lag[s] = 0 /\ owed[s] = 0
    /\ \A p \in Publishers : s \notin list[p] /\ target[p] # s

HubType == HubTypeOK(Nat) /\ calls \in Nat /\ DOMAIN owed = Subs

(* An inductive invariant of the hub.                                         *)
HubIInv == HubType /\ RegistryExact /\ VisitsOnce /\ NewIsFresh

--------------------------------------------------------------------------------
(* What each step does, variable by variable.                                 *)
Listed(s) == {p \in Publishers : s \in list[p]}
Targeting(s) == {p \in Publishers : target[p] = s}

LEMMA HubTypeStep ==
  ASSUME HubIInv, [Next]_mcVars
  PROVE  HubType'
<1>. USE NoneAssumption, BufAssumption DEF HubIInv, HubType, HubTypeOK, Phases
<1>1. ASSUME NEW p \in Publishers, NEW t \in Topics, Call(p, t) PROVE HubType'
  BY <1>1 DEF Call, Snapshot
<1>2. ASSUME NEW p \in Publishers, NEW s \in Subs, UNCHANGED <<calls, owed>>,
             SkipClosed(p, s) \/ LoadOpen(p, s)
      PROVE  HubType'
  <2>1. CASE SkipClosed(p, s)
    BY <1>2, <2>1 DEF SkipClosed
  <2>2. CASE LoadOpen(p, s)
    BY <1>2, <2>2 DEF LoadOpen
  <2>. QED BY <1>2, <2>1, <2>2
<1>3. ASSUME NEW p \in Publishers, UNCHANGED <<calls, owed>>, Send(p) PROVE HubType'
  <2>. DEFINE u == target[p]
  <2>1. u \in Subs /\ job[p] \in Nat /\ chan[u] \in Seq(Nat) /\ Len(chan[u]) < Buf
    BY <1>3 DEF Send, VisitsOnce
  <2>2. /\ Append(chan[u], job[p]) \in Seq(Nat)
        /\ Len(Append(chan[u], job[p])) <= Buf
    BY <2>1, AppendProperties
  <2>3. chan' \in [Subs -> Seq(Nat)] /\ \A s \in Subs : Len(chan'[s]) <= Buf
    BY <1>3, <2>1, <2>2 DEF Send
  <2>. QED BY <1>3, <2>3 DEF Send
<1>4. ASSUME NEW p \in Publishers, UNCHANGED <<calls, owed>>,
             SeeDone(p) \/ Drop(p) \/ PublishReturn(p)
      PROVE  HubType'
  <2>1. CASE SeeDone(p)
    BY <1>4, <2>1 DEF SeeDone
  <2>2. CASE Drop(p)
    BY <1>4, <2>2 DEF Drop
  <2>3. CASE PublishReturn(p)
    BY <1>4, <2>3 DEF PublishReturn
  <2>. QED BY <1>4, <2>1, <2>2, <2>3
<1>5. ASSUME NEW s \in Subs, NEW t \in Topics, HubSubscribe(s, t), UNCHANGED <<calls, owed>>
      PROVE  HubType'
  BY <1>5 DEF HubSubscribe
<1>6. ASSUME NEW s \in Subs, CloseSwap(s) \/ CloseDone(s), UNCHANGED calls, DOMAIN owed' = Subs
      PROVE  HubType'
  BY <1>6 DEF CloseSwap, CloseDone
<1>7. ASSUME NEW s \in Subs, CloseRemove(s), UNCHANGED <<calls, owed>>
      PROVE  HubType'
  <2>1. \A u \in Topics : registry'[u] \subseteq Subs
    BY <1>7 DEF CloseRemove
  <2>2. registry' \in [Topics -> SUBSET Subs]
    BY <1>7, <2>1 DEF CloseRemove
  <2>. QED BY <1>7, <2>2 DEF CloseRemove
<1>8. ASSUME NEW s \in Subs, Receive(s), UNCHANGED calls, DOMAIN owed' = Subs
      PROVE  HubType'
  <2>1. chan[s] \in Seq(Nat) /\ chan[s] # <<>> /\ Len(chan[s]) <= Buf
    BY <1>8 DEF Receive
  <2>2. /\ Tail(chan[s]) \in Seq(Nat) /\ Len(Tail(chan[s])) = Len(chan[s]) - 1
        /\ Len(chan[s]) \in Nat
    BY <2>1, HeadTailProperties, LenProperties
  <2>3. Len(Tail(chan[s])) <= Buf
    BY <2>1, <2>2
  <2>. QED BY <1>8, <2>2, <2>3 DEF Receive
<1>9. CASE UNCHANGED mcVars
  BY <1>9 DEF mcVars, hubVars
<1>. QED
  BY <1>1, <1>2, <1>3, <1>4, <1>5, <1>6, <1>7, <1>8, <1>9
     DEF Next, Step, Visit, Consumer

LEMMA HubRegistryStep ==
  ASSUME HubIInv, [Next]_mcVars
  PROVE  RegistryExact'
<1>0. /\ registry \in [Topics -> SUBSET Subs]
      /\ subTopic \in [Subs -> Topics \cup {None}]
      /\ phase \in [Subs -> Phases]
  BY DEF HubIInv, HubType, HubTypeOK
<1>1. RegistryExact
  BY DEF HubIInv
<1>2. ASSUME UNCHANGED <<registry, subTopic, phase>> PROVE RegistryExact'
  BY <1>2, <1>1 DEF RegistryExact
<1>3. ASSUME NEW p \in Publishers, Step(p) PROVE RegistryExact'
  BY <1>2, <1>3 DEF Step, Visit, SkipClosed, LoadOpen, Send, SeeDone, Drop, PublishReturn
<1>4. ASSUME NEW p \in Publishers, NEW t \in Topics, Call(p, t) PROVE RegistryExact'
  BY <1>2, <1>4 DEF Call, Snapshot
<1>5. ASSUME NEW s \in Subs, NEW t \in Topics, HubSubscribe(s, t) PROVE RegistryExact'
  <2>1. /\ \A u \in Topics : registry'[u] = IF u = t THEN registry[u] \cup {s} ELSE registry[u]
        /\ \A r \in Subs : subTopic'[r] = IF r = s THEN t ELSE subTopic[r]
        /\ \A r \in Subs : phase'[r] = IF r = s THEN "open" ELSE phase[r]
        /\ phase[s] = "new"
    BY <1>0, <1>5 DEF HubSubscribe
  <2>2. SUFFICES ASSUME NEW r \in Subs, NEW u \in Topics
                 PROVE  r \in registry'[u] <=> subTopic'[r] = u /\ phase'[r] \in {"open", "closing"}
    BY DEF RegistryExact
  <2>3. r \in registry[u] <=> subTopic[r] = u /\ phase[r] \in {"open", "closing"}
    BY <1>1 DEF RegistryExact
  <2>. QED BY <2>1, <2>3
<1>6. ASSUME NEW s \in Subs, CloseSwap(s) \/ CloseDone(s) PROVE RegistryExact'
  BY <1>0, <1>6, <1>1 DEF CloseSwap, CloseDone, RegistryExact
<1>7. ASSUME NEW s \in Subs, CloseRemove(s) PROVE RegistryExact'
  BY <1>0, <1>7, <1>1, NoneAssumption DEF CloseRemove, RegistryExact
<1>8. ASSUME NEW s \in Subs, Receive(s) PROVE RegistryExact'
  BY <1>2, <1>8 DEF Receive
<1>9. CASE UNCHANGED mcVars
  BY <1>2, <1>9 DEF mcVars, hubVars
<1>. QED BY <1>3, <1>4, <1>5, <1>6, <1>7, <1>8, <1>9 DEF Next, Consumer
LEMMA VisitsOnceStep ==
  ASSUME HubIInv, [Next]_mcVars
  PROVE  VisitsOnce'
<1>0. /\ job \in [Publishers -> Nat \cup {None}]
      /\ list \in [Publishers -> SUBSET Subs]
      /\ target \in [Publishers -> Subs \cup {None}]
      /\ calls \in Nat
  BY DEF HubIInv, HubType, HubTypeOK
<1>1. VisitsOnce
  BY DEF HubIInv
<1>2. ASSUME UNCHANGED <<job, list, target>> PROVE VisitsOnce'
  BY <1>1, <1>2 DEF VisitsOnce
<1>3. ASSUME NEW p \in Publishers, NEW t \in Topics, Call(p, t) PROVE VisitsOnce'
  <2>1. /\ job'[p] = calls + 1 /\ target' = target /\ target[p] = None
        /\ list'[p] = registry[t] /\ registry[t] \subseteq Subs
        /\ \A q \in Publishers : q # p => job'[q] = job[q] /\ list'[q] = list[q]
    BY <1>0, <1>1, <1>3 DEF Call, Snapshot, VisitsOnce, HubIInv, HubType, HubTypeOK
  <2>2. job'[p] # None /\ target'[p] \notin list'[p]
    BY <1>0, <2>1, NoneIsNoCall, NoneAssumption
  <2>. QED BY <1>1, <2>1, <2>2 DEF VisitsOnce
<1>4. ASSUME NEW p \in Publishers, Step(p) PROVE VisitsOnce'
  <2>1. ASSUME NEW s \in Subs, SkipClosed(p, s) PROVE VisitsOnce'
    BY <1>0, <1>1, <2>1, NoneAssumption DEF SkipClosed, VisitsOnce
  <2>2. ASSUME NEW s \in Subs, LoadOpen(p, s) PROVE VisitsOnce'
    BY <1>0, <1>1, <2>2, NoneAssumption DEF LoadOpen, VisitsOnce
  <2>3. CASE Send(p) \/ SeeDone(p) \/ Drop(p)
    <3>1. /\ job' = job /\ list' = list
          /\ target' = [target EXCEPT ![p] = None]
      BY <2>3 DEF Send, SeeDone, Drop
    <3>. QED BY <1>0, <1>1, <3>1, NoneAssumption DEF VisitsOnce
  <2>4. CASE PublishReturn(p)
    BY <1>0, <1>1, <2>4 DEF PublishReturn, FanoutDone, VisitsOnce
  <2>. QED BY <1>4, <2>1, <2>2, <2>3, <2>4 DEF Step, Visit
<1>5. ASSUME NEW s \in Subs, Consumer(s) PROVE VisitsOnce'
  BY <1>2, <1>5 DEF Consumer, HubSubscribe, CloseSwap, CloseRemove, CloseDone, Receive
<1>6. CASE UNCHANGED mcVars
  BY <1>2, <1>6 DEF mcVars, hubVars
<1>. QED BY <1>3, <1>4, <1>5, <1>6 DEF Next

LEMMA NewIsFreshStep ==
  ASSUME HubIInv, [Next]_mcVars
  PROVE  NewIsFresh'
<1>0. /\ subTopic \in [Subs -> Topics \cup {None}]
      /\ phase \in [Subs -> Phases]
      /\ chan \in [Subs -> Seq(Nat)]
      /\ lag \in [Subs -> Nat]
      /\ list \in [Publishers -> SUBSET Subs]
      /\ target \in [Publishers -> Subs \cup {None}]
      /\ registry \in [Topics -> SUBSET Subs]
      /\ DOMAIN owed = Subs
      /\ \A s \in Subs : s # None
  BY NoneAssumption DEF HubIInv, HubType, HubTypeOK
<1>1. SUFFICES ASSUME NEW s \in Subs, phase'[s] = "new"
               PROVE  /\ subTopic'[s] = None /\ chan'[s] = <<>> /\ lag'[s] = 0 /\ owed'[s] = 0
                      /\ \A q \in Publishers : s \notin list'[q] /\ target'[q] # s
  BY DEF NewIsFresh
<1>. DEFINE Goal == /\ subTopic'[s] = None /\ chan'[s] = <<>> /\ lag'[s] = 0 /\ owed'[s] = 0
                    /\ \A q \in Publishers : s \notin list'[q] /\ target'[q] # s
<1>2. phase[s] = "new"
  <2>1. ASSUME NEW p \in Publishers, Step(p) PROVE phase[s] = "new"
    BY <1>1, <2>1 DEF Step, Visit, SkipClosed, LoadOpen, Send, SeeDone, Drop, PublishReturn
  <2>2. ASSUME NEW p \in Publishers, NEW t \in Topics, Call(p, t) PROVE phase[s] = "new"
    BY <1>1, <2>2 DEF Call, Snapshot
  <2>3. ASSUME NEW r \in Subs, Consumer(r) PROVE phase[s] = "new"
    BY <1>0, <1>1, <2>3 DEF Consumer, HubSubscribe, CloseSwap, CloseRemove, CloseDone, Receive
  <2>. QED BY <1>1, <2>1, <2>2, <2>3 DEF Next, mcVars, hubVars
<1>3. /\ subTopic[s] = None /\ chan[s] = <<>> /\ lag[s] = 0 /\ owed[s] = 0
      /\ \A q \in Publishers : s \notin list[q] /\ target[q] # s
  BY <1>2 DEF HubIInv, NewIsFresh
<1>4. \A t \in Topics : s \notin registry[t]
  BY <1>2 DEF HubIInv, RegistryExact
<1>5. ASSUME NEW p \in Publishers, NEW t \in Topics, Call(p, t) PROVE Goal
  <2>1. /\ UNCHANGED <<subTopic, chan, lag, target>>
        /\ owed'[s] = owed[s]
        /\ \A q \in Publishers : list'[q] = list[q] \/ list'[q] = registry[t]
    BY <1>0, <1>4, <1>5 DEF Call, Snapshot
  <2>. QED BY <1>3, <1>4, <2>1
<1>6. ASSUME NEW p \in Publishers, Step(p) PROVE Goal
  <2>1. ASSUME NEW r \in Subs, SkipClosed(p, r) \/ LoadOpen(p, r) PROVE Goal
    <3>1. /\ UNCHANGED <<subTopic, chan, lag, owed>>
          /\ r # s
          /\ \A q \in Publishers : list'[q] \subseteq list[q] /\ (target'[q] = target[q] \/ target'[q] = r)
      <4>1. r \in list[p] /\ r # s /\ UNCHANGED owed
        BY <1>3, <1>6, <2>1 DEF Step, SkipClosed, LoadOpen
      <4>2. /\ UNCHANGED <<subTopic, chan, lag>>
            /\ list' = [list EXCEPT ![p] = list[p] \ {r}]
            /\ target' = target \/ target' = [target EXCEPT ![p] = r]
        BY <2>1 DEF SkipClosed, LoadOpen
      <4>. QED BY <1>0, <4>1, <4>2
    <3>. QED BY <1>3, <3>1
  <2>2. CASE Send(p) \/ SeeDone(p) \/ Drop(p)
    <3>1. target[p] \in Subs /\ target[p] # s
      BY <1>0, <1>3, <2>2 DEF Send, SeeDone, Drop
    <3>2. /\ UNCHANGED <<subTopic, list, owed>>
          /\ chan'[s] = chan[s] /\ lag'[s] = lag[s]
          /\ \A q \in Publishers : target'[q] = target[q] \/ target'[q] = None
      BY <1>0, <1>6, <2>2, <3>1 DEF Step, Send, SeeDone, Drop
    <3>. QED BY <1>0, <1>3, <3>2
  <2>3. CASE PublishReturn(p)
    BY <1>3, <1>6, <2>3 DEF Step, PublishReturn
  <2>. QED BY <1>6, <2>1, <2>2, <2>3 DEF Step, Visit
<1>7. ASSUME NEW r \in Subs, Consumer(r) PROVE Goal
  <2>1. /\ r # s \/ UNCHANGED <<subTopic, chan, lag, owed>>
        /\ UNCHANGED <<list, target, lag>>
    BY <1>0, <1>1, <1>2, <1>3, <1>7 DEF Consumer, HubSubscribe, CloseSwap, CloseRemove, CloseDone, Receive
  <2>2. r # s => subTopic'[s] = subTopic[s] /\ chan'[s] = chan[s] /\ owed'[s] = owed[s]
    BY <1>0, <1>7 DEF Consumer, HubSubscribe, CloseSwap, CloseRemove, CloseDone, Receive
  <2>. QED BY <1>3, <2>1, <2>2
<1>8. CASE UNCHANGED mcVars
  BY <1>3, <1>8 DEF mcVars, hubVars
<1>. QED BY <1>5, <1>6, <1>7, <1>8 DEF Next

LEMMA HubInvariant == Spec => []HubIInv
<1>1. Init => HubIInv
  <2>. SUFFICES ASSUME Init PROVE HubIInv
    OBVIOUS
  <2>. USE NoneAssumption DEF Init, HubInit
  <2>1. HubType
    BY BufAssumption, EmptySeq DEF HubType, HubTypeOK, Phases
  <2>2. RegistryExact /\ VisitsOnce /\ NewIsFresh
    BY DEF RegistryExact, VisitsOnce, NewIsFresh
  <2>. QED BY <2>1, <2>2 DEF HubIInv
<1>2. HubIInv /\ [Next]_mcVars => HubIInv'
  BY HubTypeStep, HubRegistryStep, VisitsOnceStep, NewIsFreshStep DEF HubIInv
<1>. QED BY <1>1, <1>2, PTL DEF Spec

(* Without any lock between publishers the registry lists a subscription      *)
(* exactly from Subscribe until hub.remove (hub.go:34-40, 63-94).             *)
THEOREM HubRegistryExact == Spec => []RegistryExact
<1>1. HubIInv => RegistryExact
  BY DEF HubIInv
<1>. QED BY <1>1, HubInvariant, PTL

(* Once a subscription is done and no call of Publish refers to it, none ever *)
(* does again and nothing more enters its channel (hub.go:18-19, 99-106).     *)
THEOREM HubQuietAfterClose == Spec => QuietAfterClose
<1>. DEFINE A == \A s \in Subs : phase[s] = "done" /\ ~ Referenced(s) =>
                   ~ Referenced(s)' /\ Len(chan'[s]) <= Len(chan[s])
<1>1. ASSUME HubIInv, [Next]_mcVars PROVE A
  <2>1. SUFFICES ASSUME NEW s \in Subs, phase[s] = "done", ~ Referenced(s)
                 PROVE  ~ Referenced(s)' /\ Len(chan'[s]) <= Len(chan[s])
    OBVIOUS
  <2>. DEFINE Goal == ~ Referenced(s)' /\ Len(chan'[s]) <= Len(chan[s])
  <2>0. /\ chan \in [Subs -> Seq(Nat)] /\ Len(chan[s]) \in Nat
        /\ list \in [Publishers -> SUBSET Subs]
        /\ target \in [Publishers -> Subs \cup {None}]
        /\ \A r \in Subs : r # None
    BY <1>1, LenProperties, NoneAssumption DEF HubIInv, HubType, HubTypeOK
  <2>2. \A q \in Publishers : s \notin list[q] /\ target[q] # s
    BY <2>1 DEF Referenced
  <2>3. \A t \in Topics : s \notin registry[t]
    BY <1>1, <2>1 DEF HubIInv, RegistryExact
  <2>4. ASSUME NEW p \in Publishers, NEW t \in Topics, Call(p, t) PROVE Goal
    <3>1. /\ UNCHANGED <<chan, target>>
          /\ \A q \in Publishers : list'[q] = list[q] \/ list'[q] = registry[t]
      BY <2>0, <2>4 DEF Call, Snapshot
    <3>. QED BY <2>0, <2>2, <2>3, <3>1 DEF Referenced
  <2>5. ASSUME NEW p \in Publishers, NEW r \in Subs, SkipClosed(p, r) \/ LoadOpen(p, r) PROVE Goal
    <3>1. /\ UNCHANGED chan /\ r # s
          /\ \A q \in Publishers : list'[q] \subseteq list[q] /\ (target'[q] = target[q] \/ target'[q] = r)
      BY <2>0, <2>2, <2>5 DEF SkipClosed, LoadOpen
    <3>. QED BY <2>0, <2>2, <3>1 DEF Referenced
  <2>6. ASSUME NEW p \in Publishers, Send(p) \/ SeeDone(p) \/ Drop(p) PROVE Goal
    <3>1. target[p] \in Subs /\ target[p] # s
      BY <2>0, <2>2, <2>6 DEF Send, SeeDone, Drop
    <3>2. /\ UNCHANGED list /\ chan'[s] = chan[s]
          /\ \A q \in Publishers : target'[q] = target[q] \/ target'[q] = None
      BY <2>0, <2>6, <3>1 DEF Send, SeeDone, Drop
    <3>. QED BY <2>0, <2>2, <3>2 DEF Referenced
  <2>7. ASSUME NEW p \in Publishers, PublishReturn(p) PROVE Goal
    BY <2>0, <2>2, <2>7 DEF PublishReturn, Referenced
  <2>8. ASSUME NEW r \in Subs, Consumer(r) PROVE Goal
    <3>1. /\ UNCHANGED <<list, target>>
          /\ chan'[s] = chan[s] \/ (chan[s] # <<>> /\ chan'[s] = Tail(chan[s]))
      BY <2>0, <2>8 DEF Consumer, HubSubscribe, CloseSwap, CloseRemove, CloseDone, Receive
    <3>2. chan[s] # <<>> => Len(Tail(chan[s])) = Len(chan[s]) - 1
      BY <2>0, HeadTailProperties
    <3>. QED BY <2>0, <2>2, <3>1, <3>2 DEF Referenced
  <2>9. CASE UNCHANGED mcVars
    BY <2>0, <2>2, <2>9 DEF mcVars, hubVars, Referenced
  <2>. QED BY <1>1, <2>4, <2>5, <2>6, <2>7, <2>8, <2>9 DEF Next, Step, Visit
<1>2. HubIInv /\ [Next]_mcVars => [A]_hubVars
  BY <1>1
<1>. QED BY <1>2, HubInvariant, PTL DEF Spec, QuietAfterClose
--------------------------------------------------------------------------------
(* Counting the offers of one subscription.                                   *)
Offers(s) == Len(chan[s]) + lag[s] + Cardinality(Listed(s)) + Cardinality(Targeting(s))

LEMMA OffersFinite ==
  ASSUME IsFiniteSet(Publishers), NEW s \in Subs
  PROVE  /\ IsFiniteSet(Listed(s)) /\ Cardinality(Listed(s)) \in Nat
         /\ IsFiniteSet(Targeting(s)) /\ Cardinality(Targeting(s)) \in Nat
BY FS_Subset, FS_CardinalityType DEF Listed, Targeting

(* A publisher enters or leaves one of the two sets.                          *)
LEMMA OneMore ==
  ASSUME NEW S, NEW T, IsFiniteSet(S), NEW p, p \notin S, T = S \cup {p}
  PROVE  Cardinality(T) = Cardinality(S) + 1 /\ Cardinality(S) \in Nat
BY FS_AddElement, FS_CardinalityType

LEMMA OneLess ==
  ASSUME NEW S, NEW T, IsFiniteSet(S), NEW p, p \in S, T = S \ {p}
  PROVE  Cardinality(T) = Cardinality(S) - 1 /\ Cardinality(S) \in Nat
BY FS_RemoveElement, FS_CardinalityType

(* Snapshot: every registered subscription, and no other, is owed one more.   *)
LEMMA OffersCall ==
  ASSUME HubIInv, IsFiniteSet(Publishers), NEW s \in Subs, phase[s] = "open", owed[s] = Offers(s),
         NEW p \in Publishers, NEW t \in Topics, Call(p, t)
  PROVE  owed'[s] = Offers(s)'
<1>1. /\ UNCHANGED <<chan, lag, target>> /\ list[p] = {}
      /\ list \in [Publishers -> SUBSET Subs]
      /\ list' = [list EXCEPT ![p] = registry[t]]
      /\ owed'[s] = IF s \in registry[t] THEN owed[s] + 1 ELSE owed[s]
  BY DEF HubIInv, HubType, HubTypeOK, VisitsOnce, Call, Snapshot, Closed
<1>2. Targeting(s)' = Targeting(s)
  BY <1>1 DEF Targeting
<1>3. /\ Len(chan[s]) \in Nat /\ lag[s] \in Nat
      /\ Cardinality(Listed(s)) \in Nat /\ Cardinality(Targeting(s)) \in Nat
  BY OffersFinite, LenProperties DEF HubIInv, HubType, HubTypeOK
<1>4. CASE s \in registry[t]
  <2>1. p \notin Listed(s) /\ Listed(s)' = Listed(s) \cup {p}
    BY <1>1, <1>4 DEF Listed
  <2>2. Cardinality(Listed(s)') = Cardinality(Listed(s)) + 1
    BY <2>1, OneMore, OffersFinite
  <2>. QED BY <1>1, <1>2, <1>3, <1>4, <2>2 DEF Offers
<1>5. CASE s \notin registry[t]
  <2>1. Listed(s)' = Listed(s)
    BY <1>1, <1>5 DEF Listed
  <2>. QED BY <1>1, <1>2, <1>5, <2>1 DEF Offers
<1>. QED BY <1>4, <1>5

(* A visit moves an offer from the snapshot to the loaded target, and from    *)
(* there to the channel or to the drop counter.                               *)
LEMMA OffersVisit ==
  ASSUME HubIInv, IsFiniteSet(Publishers), NEW s \in Subs, phase[s] = "open", owed[s] = Offers(s),
         NEW p \in Publishers, Step(p)
  PROVE  owed'[s] = Offers(s)'
<1>. DEFINE u == target[p]
<1>0. /\ list \in [Publishers -> SUBSET Subs]
      /\ target \in [Publishers -> Subs \cup {None}]
      /\ chan \in [Subs -> Seq(Nat)] /\ lag \in [Subs -> Nat] /\ s # None
      /\ owed' = owed
  BY NoneAssumption DEF HubIInv, HubType, HubTypeOK, Step
<1>1. /\ Len(chan[s]) \in Nat /\ lag[s] \in Nat
      /\ Cardinality(Listed(s)) \in Nat /\ Cardinality(Targeting(s)) \in Nat
  BY <1>0, OffersFinite, LenProperties
<1>2. ASSUME NEW r \in Subs, SkipClosed(p, r) PROVE owed'[s] = Offers(s)'
  <2>1. /\ UNCHANGED <<chan, lag, target>> /\ r # s
        /\ list' = [list EXCEPT ![p] = list[p] \ {r}]
    BY <1>2 DEF SkipClosed, Closed
  <2>2. Listed(s)' = Listed(s) /\ Targeting(s)' = Targeting(s)
    BY <1>0, <2>1 DEF Listed, Targeting
  <2>. QED BY <1>0, <2>1, <2>2 DEF Offers
<1>3. ASSUME NEW r \in Subs, LoadOpen(p, r) PROVE owed'[s] = Offers(s)'
  <2>1. /\ UNCHANGED <<chan, lag>>
        /\ r \in list[p] /\ target[p] = None
        /\ list' = [list EXCEPT ![p] = list[p] \ {r}]
        /\ target' = [target EXCEPT ![p] = r]
    BY <1>3 DEF LoadOpen
  <2>2. CASE r = s
    <3>1. p \in Listed(s) /\ Listed(s)' = Listed(s) \ {p}
      BY <1>0, <2>1, <2>2 DEF Listed
    <3>2. p \notin Targeting(s) /\ Targeting(s)' = Targeting(s) \cup {p}
      BY <1>0, <2>1, <2>2 DEF Targeting
    <3>3. /\ Cardinality(Listed(s)') = Cardinality(Listed(s)) - 1
          /\ Cardinality(Targeting(s)') = Cardinality(Targeting(s)) + 1
      BY <3>1, <3>2, OneLess, OneMore, OffersFinite
    <3>. QED BY <1>0, <1>1, <2>1, <3>3 DEF Offers
  <2>3. CASE r # s
    <3>1. Listed(s)' = Listed(s) /\ Targeting(s)' = Targeting(s)
      BY <1>0, <2>1, <2>3 DEF Listed, Targeting
    <3>. QED BY <1>0, <2>1, <3>1 DEF Offers
  <2>. QED BY <2>2, <2>3
<1>4. CASE Send(p) \/ SeeDone(p) \/ Drop(p)
  <2>1. /\ UNCHANGED list /\ u \in Subs
        /\ target' = [target EXCEPT ![p] = None]
    BY <1>0, <1>4 DEF Send, SeeDone, Drop
  <2>2. Listed(s)' = Listed(s)
    BY <2>1 DEF Listed
  <2>3. CASE u # s
    <3>1. Targeting(s)' = Targeting(s)
      BY <1>0, <2>1, <2>3 DEF Targeting
    <3>2. chan'[s] = chan[s] /\ lag'[s] = lag[s]
      BY <1>0, <1>4, <2>1, <2>3 DEF Send, SeeDone, Drop
    <3>. QED BY <1>0, <2>2, <3>1, <3>2 DEF Offers
  <2>4. CASE u = s
    <3>1. p \in Targeting(s) /\ Targeting(s)' = Targeting(s) \ {p}
      BY <1>0, <2>1, <2>4 DEF Targeting
    <3>2. Cardinality(Targeting(s)') = Cardinality(Targeting(s)) - 1
      BY <3>1, OneLess, OffersFinite
    <3>3. \/ Len(chan'[s]) = Len(chan[s]) + 1 /\ lag'[s] = lag[s]
          \/ chan'[s] = chan[s] /\ lag'[s] = lag[s] + 1
      <4>1. CASE Send(p)
        <5>1. job[p] \in Nat
          BY <1>0, <2>1, <2>4 DEF HubIInv, HubType, HubTypeOK, VisitsOnce
        <5>2. chan'[s] = Append(chan[s], job[p]) /\ lag' = lag
          BY <1>0, <2>4, <4>1 DEF Send
        <5>. QED BY <1>0, <5>1, <5>2, AppendProperties
      <4>2. CASE Drop(p)
        BY <1>0, <2>4, <4>2 DEF Drop
      <4>. QED BY <1>4, <2>4, <4>1, <4>2 DEF SeeDone
    <3>. QED BY <1>0, <1>1, <2>2, <3>2, <3>3 DEF Offers
  <2>. QED BY <2>3, <2>4
<1>5. CASE PublishReturn(p)
  <2>1. Listed(s)' = Listed(s) /\ Targeting(s)' = Targeting(s) /\ UNCHANGED <<chan, lag>>
    BY <1>5 DEF PublishReturn, Listed, Targeting
  <2>. QED BY <1>0, <2>1 DEF Offers
<1>. QED BY <1>2, <1>3, <1>4, <1>5 DEF Step, Visit

(* A subscription starts with nothing, and receiving pays one offer.          *)
LEMMA OffersConsumer ==
  ASSUME HubIInv, IsFiniteSet(Publishers), NEW s \in Subs, phase'[s] = "open",
         phase[s] = "open" => owed[s] = Offers(s),
         NEW r \in Subs, Consumer(r)
  PROVE  owed'[s] = Offers(s)'
<1>0. /\ chan \in [Subs -> Seq(Nat)] /\ lag \in [Subs -> Nat] /\ phase \in [Subs -> Phases]
      /\ DOMAIN owed = Subs
  BY DEF HubIInv, HubType, HubTypeOK
<1>1. UNCHANGED <<list, target, lag>>
  BY DEF Consumer, HubSubscribe, CloseSwap, CloseRemove, CloseDone, Receive
<1>2. Listed(s)' = Listed(s) /\ Targeting(s)' = Targeting(s)
  BY <1>1 DEF Listed, Targeting
<1>3. CASE phase[s] = "new"
  <2>1. chan[s] = <<>> /\ lag[s] = 0 /\ owed[s] = 0 /\ Listed(s) = {} /\ Targeting(s) = {}
    BY <1>3 DEF HubIInv, NewIsFresh, Listed, Targeting
  <2>2. UNCHANGED <<chan, owed>>
    BY <1>0, <1>3 DEF Consumer, HubSubscribe, CloseSwap, CloseRemove, CloseDone, Receive
  <2>. QED BY <1>1, <1>2, <2>1, <2>2, EmptySeq, FS_EmptySet DEF Offers
<1>4. CASE phase[s] # "new"
  <2>1. phase[s] = "open"
    BY <1>0, <1>4 DEF Consumer, HubSubscribe, CloseSwap, CloseRemove, CloseDone, Receive
  <2>. DEFINE Pays == r = s /\ Receive(s) /\ owed' = [owed EXCEPT ![s] = IF Closed(s) THEN 0 ELSE @ - 1]
  <2>2. CASE Pays
    <3>1. owed'[s] = owed[s] - 1 /\ chan[s] # <<>> /\ chan'[s] = Tail(chan[s])
      BY <1>0, <2>1, <2>2 DEF Receive, Closed
    <3>2. Len(chan[s]) \in Nat /\ Len(Tail(chan[s])) = Len(chan[s]) - 1
      BY <1>0, <3>1, HeadTailProperties, LenProperties
    <3>3. lag[s] \in Nat /\ Cardinality(Listed(s)) \in Nat /\ Cardinality(Targeting(s)) \in Nat
      BY <1>0, OffersFinite
    <3>. QED BY <1>1, <1>2, <2>1, <3>1, <3>2, <3>3 DEF Offers
  <2>3. CASE ~ Pays
    <3>1. owed'[s] = owed[s] /\ chan'[s] = chan[s]
      BY <1>0, <2>1, <2>3 DEF Consumer, HubSubscribe, CloseSwap, CloseRemove, CloseDone, Receive
    <3>. QED BY <1>1, <1>2, <2>1, <3>1 DEF Offers
  <2>. QED BY <2>2, <2>3
<1>. QED BY <1>3, <1>4

(* Among finitely many publishers without a common lock, every call of        *)
(* Publish whose snapshot held an open subscription ends exactly once, in its *)
(* channel, in its drop counter, or still on the way (hub.go:99-123).         *)
THEOREM HubConservesOffers ==
  ASSUME IsFiniteSet(Publishers)
  PROVE  Spec => []OffersConserved
<1>. DEFINE Conserved == \A s \in Subs : phase[s] = "open" => owed[s] = Offers(s)
<1>1. Init => Conserved
  BY DEF Init, HubInit
<1>2. ASSUME HubIInv, Conserved, [Next]_mcVars PROVE Conserved'
  <2>1. SUFFICES ASSUME NEW s \in Subs, phase'[s] = "open" PROVE owed'[s] = Offers(s)'
    OBVIOUS
  <2>2. ASSUME NEW p \in Publishers, NEW t \in Topics, Call(p, t) PROVE owed'[s] = Offers(s)'
    <3>1. phase' = phase
      BY <2>2 DEF Call, Snapshot
    <3>. QED BY <1>2, <2>1, <2>2, <3>1, OffersCall
  <2>3. ASSUME NEW p \in Publishers, Step(p) PROVE owed'[s] = Offers(s)'
    <3>1. phase' = phase
      BY <2>3 DEF Step, Visit, SkipClosed, LoadOpen, Send, SeeDone, Drop, PublishReturn
    <3>. QED BY <1>2, <2>1, <2>3, <3>1, OffersVisit
  <2>4. ASSUME NEW r \in Subs, Consumer(r) PROVE owed'[s] = Offers(s)'
    BY <1>2, <2>1, <2>4, OffersConsumer
  <2>5. CASE UNCHANGED mcVars
    BY <1>2, <2>1, <2>5 DEF mcVars, hubVars, Offers, Listed, Targeting
  <2>. QED BY <1>2, <2>2, <2>3, <2>4, <2>5 DEF Next
<1>3. Conserved <=> OffersConserved
  BY DEF OffersConserved, Offers, Listed, Targeting
<1>. QED BY <1>1, <1>2, <1>3, HubInvariant, PTL DEF Spec

================================================================================
