------------------------------ MODULE RedisProofs ------------------------------
(******************************************************************************)
(* Proofs about RedisIngest, for any number of handlers, topics, deliveries,  *)
(* attempts, faults, crashes and expiries.                                    *)
(******************************************************************************)
EXTENDS RedisIngest, Recursion, SequenceTheorems, FiniteSetTheorems

Requests == Deliveries \X Nat
Entries == [id : Requests \X Topics, topic : Topics, seq : Nat]

KeysTypeOK ==
  /\ stream \in [Topics -> Seq(Entries)]
  /\ saved \in [Topics -> Seq(Entries)]
  /\ meta \in [Topics -> [exists : BOOLEAN, last_seq : Nat]]
  /\ seqKey \in [Topics -> Nat]
  /\ topics \subseteq Topics

HandlersTypeOK ==
  /\ pc \in [Handlers -> {"idle", "lock"} \cup Commands]
  /\ request \in [Handlers -> Requests \cup {None}]
  /\ left \in [Handlers -> Seq(Wants)]
  /\ seq \in [Handlers -> Nat]
  /\ next \in [Handlers -> Seq(Entries)]
  /\ \A h \in Handlers : pc[h] # "idle" => request[h] \in Requests /\ left[h] # <<>>

(* Only the holder of ingest is between Lock and the end of Publish.          *)
LockHeld ==
  /\ ingest \in Handlers \cup {None}
  /\ \A h \in Handlers : pc[h] \in Commands <=> ingest = h

OthersTypeOK ==
  /\ victim \in Topics \cup {None}
  /\ tries \in Nat
  /\ accepted \subseteq Requests
  /\ returned \subseteq Entries
  /\ raced \subseteq Topics \X Commands

TypeInv == KeysTypeOK /\ HandlersTypeOK /\ LockHeld /\ OthersTypeOK

LEMMA TypeInit == Init => TypeInv
<1>. SUFFICES ASSUME Init PROVE TypeInv
  OBVIOUS
<1>. USE EmptySeq DEF Init, RedisInit
<1>1. KeysTypeOK
  BY DEF KeysTypeOK, NoMeta
<1>2. HandlersTypeOK
  BY DEF HandlersTypeOK
<1>3. LockHeld
  BY NoneIsFree DEF LockHeld, Commands
<1>4. OthersTypeOK
  BY DEF OthersTypeOK
<1>. QED BY <1>1, <1>2, <1>3, <1>4 DEF TypeInv

(* What a handler in Publish works on.                                        *)
LEMMA WorksOn ==
  ASSUME TypeInv, NEW h \in Handlers, pc[h] # "idle"
  PROVE  /\ Topic(h) \in Topics
         /\ request[h] \in Requests
         /\ Entry(h) \in Entries
         /\ Entry(h).topic = Topic(h)
         /\ Tail(left[h]) \in Seq(Wants)
         /\ Len(left[h]) > 1 => Tail(left[h]) # <<>>
<1>1. left[h] \in Seq(Wants) /\ left[h] # <<>> /\ request[h] \in Requests /\ seq[h] \in Nat
  BY DEF TypeInv, HandlersTypeOK
<1>2. Head(left[h]) \in Wants
  BY <1>1, HeadTailProperties
<1>3. Topic(h) \in Topics
  BY <1>2 DEF Topic, Wants
<1>4. Tail(left[h]) \in Seq(Wants) /\ (Len(left[h]) > 1 => Tail(left[h]) # <<>>)
  <2>. DEFINE tail == Tail(left[h])
  <2>1. tail \in Seq(Wants) /\ Len(tail) = Len(left[h]) - 1
    BY <1>1, HeadTailProperties
  <2>. HIDE DEF tail
  <2>2. Len(left[h]) > 1 => Len(tail) # 0
    BY <2>1, <1>1, LenProperties
  <2>3. tail = <<>> => Len(tail) = 0
    BY EmptySeq
  <2>. QED BY <2>1, <2>2, <2>3 DEF tail
<1>5. <<request[h], Topic(h)>> \in Requests \X Topics
  BY <1>1, <1>3
<1>. HIDE DEF Requests
<1>. QED BY <1>1, <1>3, <1>4, <1>5 DEF Entry, Entries

(* Each command keeps the types of the keys.                                  *)
LEMMA KeysStep ==
  ASSUME KeysTypeOK, NEW t \in Topics, NEW e \in Entries, NEW st \in Seq(Entries),
         UNCHANGED redisVars \/ Incr(t) \/ Pipeline(e) \/ SetState(t, st) \/ UpsertMeta(t)
           \/ DeleteTopic(t)
  PROVE  KeysTypeOK'
<1>. USE DEF KeysTypeOK
<1>1. CASE UNCHANGED redisVars
  BY <1>1 DEF redisVars
<1>2. CASE Incr(t)
  BY <1>2 DEF Incr
<1>3. CASE Pipeline(e)
  <2>1. e.topic \in Topics /\ e.seq \in Nat
    BY DEF Entries
  <2>2. Append(stream[e.topic], e) \in Seq(Entries)
    BY <2>1, AppendProperties
  <2>. QED BY <1>3, <2>1, <2>2 DEF Pipeline
<1>4. CASE SetState(t, st)
  BY <1>4 DEF SetState
<1>5. CASE UpsertMeta(t)
  BY <1>5 DEF UpsertMeta
<1>6. CASE DeleteTopic(t)
  BY <1>6, EmptySeq DEF DeleteTopic, NoMeta
<1>. QED BY <1>1, <1>2, <1>3, <1>4, <1>5, <1>6

(* A handler that holds the lock moves on ...                                 *)
LEMMA MoveType ==
  ASSUME HandlersTypeOK, LockHeld, NEW h \in Handlers, pc[h] \in Commands,
         NEW c \in Commands, pc' = [pc EXCEPT ![h] = c],
         UNCHANGED <<ingest, request, left>>,
         seq' \in [Handlers -> Nat], next' \in [Handlers -> Seq(Entries)]
  PROVE  (HandlersTypeOK /\ LockHeld)'
BY DEF HandlersTypeOK, LockHeld, Commands

(* ... or leaves Publish, for good or for its next event.                     *)
LEMMA RefuseType ==
  ASSUME HandlersTypeOK, LockHeld, NEW h \in Handlers, pc[h] \in Commands, Refuse(h)
  PROVE  (HandlersTypeOK /\ LockHeld)'
<1>1. HandlersTypeOK'
  BY EmptySeq DEF HandlersTypeOK, Refuse, Idle
<1>2. LockHeld'
  BY NoneIsFree DEF HandlersTypeOK, LockHeld, Refuse, Idle, Commands
<1>. QED BY <1>1, <1>2

LEMMA NextEventType ==
  ASSUME TypeInv, NEW h \in Handlers, pc[h] \in Commands, Len(left[h]) > 1,
         ingest' = None,
         pc' = [pc EXCEPT ![h] = "lock"],
         left' = [left EXCEPT ![h] = Tail(@)],
         seq' = [seq EXCEPT ![h] = 0],
         next' = [next EXCEPT ![h] = <<>>],
         request' = request
  PROVE  (HandlersTypeOK /\ LockHeld)'
<1>0. Tail(left[h]) \in Seq(Wants) /\ Tail(left[h]) # <<>> /\ request[h] \in Requests
  BY WorksOn DEF Commands
<1>1. HandlersTypeOK'
  BY <1>0, EmptySeq DEF TypeInv, HandlersTypeOK
<1>2. LockHeld'
  BY NoneIsFree DEF TypeInv, HandlersTypeOK, LockHeld, Commands
<1>. QED BY <1>1, <1>2

LEMMA DeliverType ==
  ASSUME TypeInv, NEW h \in Handlers, NEW d \in Deliveries, Deliver(h, d)
  PROVE  TypeInv'
<1>. USE DEF TypeInv, Deliver
<1>1. tries' \in Nat /\ <<d, tries'>> \in Requests /\ Wanted(d).events \in Seq(Wants)
  BY DeliveriesAssumption DEF OthersTypeOK, Requests
<1>2. HandlersTypeOK'
  BY <1>1 DEF HandlersTypeOK
<1>3. LockHeld'
  BY DEF HandlersTypeOK, LockHeld, Commands
<1>4. OthersTypeOK'
  BY <1>1 DEF OthersTypeOK, historyVars
<1>5. KeysTypeOK'
  BY DEF KeysTypeOK, redisVars
<1>. QED BY <1>2, <1>3, <1>4, <1>5

LEMMA LockType ==
  ASSUME TypeInv, NEW h \in Handlers, Lock(h)
  PROVE  TypeInv'
<1>. USE DEF TypeInv, Lock
<1>1. HandlersTypeOK'
  BY DEF HandlersTypeOK, Commands
<1>2. LockHeld'
  BY NoneIsFree DEF HandlersTypeOK, LockHeld, Commands
<1>3. OthersTypeOK'
  BY DEF OthersTypeOK, historyVars, boundVars
<1>4. KeysTypeOK'
  BY DEF KeysTypeOK, redisVars
<1>. QED BY <1>1, <1>2, <1>3, <1>4

LEMMA AppendIncrType ==
  ASSUME TypeInv, NEW h \in Handlers, AppendIncr(h)
  PROVE  TypeInv'
<1>. USE DEF TypeInv
<1>1. pc[h] = "incr" /\ pc[h] \in Commands /\ Topic(h) \in Topics
  BY WorksOn DEF AppendIncr, Commands
<1>2. KeysTypeOK'
  <2>1. UNCHANGED redisVars \/ Incr(Topic(h))
    BY DEF AppendIncr, Exec
  <2>2. Entry(h) \in Entries /\ <<>> \in Seq(Entries)
    BY <1>1, WorksOn, EmptySeq DEF Commands
  <2>. QED BY <2>1, <2>2, <1>1, KeysStep
<1>3. (HandlersTypeOK /\ LockHeld)'
  <2>1. CASE Refuse(h)
    BY <2>1, <1>1, RefuseType
  <2>2. CASE UNCHANGED handlerVars
    BY <2>2 DEF handlerVars, HandlersTypeOK, LockHeld
  <2>3. CASE /\ seq' = [seq EXCEPT ![h] = seqKey'[Topic(h)]]
             /\ pc' = [pc EXCEPT ![h] = "xadd"]
             /\ UNCHANGED <<ingest, request, left, next>>
    <3>1. seqKey'[Topic(h)] \in Nat
      BY <1>1, <1>2 DEF KeysTypeOK
    <3>2. seq' \in [Handlers -> Nat] /\ next' \in [Handlers -> Seq(Entries)]
      BY <2>3, <3>1 DEF HandlersTypeOK
    <3>. QED BY <2>3, <3>2, <1>1, MoveType DEF Commands
  <2>. QED BY <2>1, <2>2, <2>3 DEF AppendIncr
<1>4. OthersTypeOK'
  BY DEF AppendIncr, OthersTypeOK, historyVars
<1>. QED BY <1>2, <1>3, <1>4

LEMMA AppendXaddType ==
  ASSUME TypeInv, NEW h \in Handlers, AppendXadd(h)
  PROVE  TypeInv'
<1>. USE DEF TypeInv
<1>1. pc[h] \in Commands /\ Topic(h) \in Topics /\ Entry(h) \in Entries
  BY WorksOn DEF AppendXadd, Commands
<1>2. KeysTypeOK'
  <2>1. UNCHANGED redisVars \/ Pipeline(Entry(h))
    BY DEF AppendXadd, Exec
  <2>. QED BY <2>1, <1>1, KeysStep, EmptySeq
<1>3. (HandlersTypeOK /\ LockHeld)'
  <2>1. CASE Refuse(h)
    BY <2>1, <1>1, RefuseType
  <2>2. CASE pc' = [pc EXCEPT ![h] = "get"] /\ UNCHANGED <<ingest, request, left, seq, next>>
    <3>1. seq' \in [Handlers -> Nat] /\ next' \in [Handlers -> Seq(Entries)]
      BY <2>2 DEF HandlersTypeOK
    <3>. QED BY <2>2, <3>1, <1>1, MoveType DEF Commands
  <2>. QED BY <2>1, <2>2 DEF AppendXadd
<1>4. OthersTypeOK'
  BY DEF AppendXadd, OthersTypeOK
<1>. QED BY <1>2, <1>3, <1>4

LEMMA GetStateType ==
  ASSUME TypeInv, NEW h \in Handlers, GetState(h)
  PROVE  TypeInv'
<1>. USE DEF TypeInv
<1>1. pc[h] \in Commands /\ Topic(h) \in Topics /\ Entry(h) \in Entries
  BY WorksOn DEF GetState, Commands
<1>2. KeysTypeOK' /\ OthersTypeOK'
  BY DEF GetState, KeysTypeOK, OthersTypeOK, redisVars
<1>3. PICK st \in {<<>>, saved[Topic(h)]} : next' = [next EXCEPT ![h] = Append(st, Entry(h))]
  BY DEF GetState
<1>4. Append(st, Entry(h)) \in Seq(Entries)
  BY <1>1, EmptySeq, AppendProperties DEF KeysTypeOK
<1>5. /\ pc' = [pc EXCEPT ![h] = "set"]
      /\ UNCHANGED <<ingest, request, left, seq>>
  BY DEF GetState
<1>6. (HandlersTypeOK /\ LockHeld)'
  <2>1. seq' \in [Handlers -> Nat] /\ next' \in [Handlers -> Seq(Entries)]
    BY <1>3, <1>4, <1>5 DEF HandlersTypeOK
  <2>. QED BY <2>1, <1>1, <1>5, MoveType DEF Commands
<1>. QED BY <1>2, <1>6

LEMMA SaveStateType ==
  ASSUME TypeInv, NEW h \in Handlers, SaveState(h)
  PROVE  TypeInv'
<1>. USE DEF TypeInv
<1>1. pc[h] \in Commands /\ Topic(h) \in Topics /\ Entry(h) \in Entries /\ next[h] \in Seq(Entries)
  BY WorksOn DEF SaveState, Commands, HandlersTypeOK
<1>2. KeysTypeOK'
  <2>1. UNCHANGED redisVars \/ SetState(Topic(h), next[h])
    BY DEF SaveState, Exec
  <2>. QED BY <2>1, <1>1, KeysStep
<1>3. OthersTypeOK'
  BY DEF SaveState, OthersTypeOK
<1>4. (HandlersTypeOK /\ LockHeld)'
  <2>1. seq' \in [Handlers -> Nat] /\ next' \in [Handlers -> Seq(Entries)]
    BY DEF SaveState, HandlersTypeOK
  <2>. QED BY <2>1, <1>1, MoveType DEF SaveState, Commands
<1>. QED BY <1>2, <1>3, <1>4

LEMMA SaveMetaType ==
  ASSUME TypeInv, NEW h \in Handlers, SaveMeta(h)
  PROVE  TypeInv'
<1>. USE DEF TypeInv
<1>1. /\ pc[h] \in Commands /\ Topic(h) \in Topics /\ Entry(h) \in Entries
      /\ request[h] \in Requests
  BY WorksOn DEF SaveMeta, Commands
<1>2. KeysTypeOK'
  <2>1. UNCHANGED redisVars \/ UpsertMeta(Topic(h))
    BY DEF SaveMeta, Exec
  <2>. QED BY <2>1, <1>1, KeysStep, EmptySeq
<1>3. OthersTypeOK'
  BY <1>1 DEF SaveMeta, OthersTypeOK
<1>4. (HandlersTypeOK /\ LockHeld)'
  BY <1>1, NextEventType, RefuseType DEF SaveMeta, Refuse
<1>. QED BY <1>2, <1>3, <1>4

LEMMA SweepDeleteType ==
  ASSUME TypeInv, SweepDelete
  PROVE  TypeInv'
<1>. USE DEF TypeInv
<1>1. victim \in Topics
  BY DEF SweepDelete, OthersTypeOK
<1>2. (HandlersTypeOK /\ LockHeld)'
  BY DEF SweepDelete, handlerVars, HandlersTypeOK, LockHeld
<1>3. KeysTypeOK'
  <2>1. UNCHANGED redisVars \/ DeleteTopic(victim)
    BY DEF SweepDelete, Exec
  <2>2. CASE UNCHANGED redisVars
    BY <2>2 DEF redisVars, KeysTypeOK
  <2>3. CASE DeleteTopic(victim)
    BY <2>3, <1>1, EmptySeq DEF DeleteTopic, KeysTypeOK, NoMeta
  <2>. QED BY <2>1, <2>2, <2>3
<1>4. OthersTypeOK'
  <2>1. \A h \in Under(victim) : pc[h] \in Commands
    BY DEF Under
  <2>. QED BY <2>1, <1>1 DEF SweepDelete, OthersTypeOK, historyVars
<1>. QED BY <1>2, <1>3, <1>4

LEMMA CrashType ==
  ASSUME TypeInv, Crash
  PROVE  TypeInv'
<1>. USE DEF TypeInv, Crash
<1>1. HandlersTypeOK' /\ LockHeld'
  BY EmptySeq, NoneIsFree DEF HandlersTypeOK, LockHeld, Commands
<1>2. KeysTypeOK' /\ OthersTypeOK'
  BY DEF KeysTypeOK, OthersTypeOK, redisVars
<1>. QED BY <1>1, <1>2

LEMMA TypeStep ==
  ASSUME TypeInv, [Next]_vars
  PROVE  TypeInv'
<1>1. ASSUME NEW h \in Handlers, PublishStep(h) PROVE TypeInv'
  BY <1>1, LockType, AppendIncrType, AppendXaddType, GetStateType, SaveStateType, SaveMetaType
     DEF PublishStep
<1>2. ASSUME NEW t \in Topics, SweepCheck(t) PROVE TypeInv'
  BY <1>2
     DEF SweepCheck, TypeInv, KeysTypeOK, HandlersTypeOK, LockHeld, OthersTypeOK, redisVars,
         handlerVars, historyVars
<1>3. CASE UNCHANGED vars
  BY <1>3
     DEF TypeInv, KeysTypeOK, HandlersTypeOK, LockHeld, OthersTypeOK, vars, redisVars,
         handlerVars, boundVars, historyVars
<1>. QED BY <1>1, <1>2, <1>3, DeliverType, SweepDeleteType, CrashType DEF Next

LEMMA TypeInvariant == Spec => []TypeInv
BY TypeInit, TypeStep, PTL DEF Spec

--------------------------------------------------------------------------------
(* How a handler moves through Publish: it starts, takes its next command, or *)
(* leaves; the others stay where they are.                                    *)
Stays(k) == UNCHANGED <<pc[k], request[k], left[k], seq[k], next[k]>>

Advances(k) ==
  /\ UNCHANGED <<request[k], left[k]>>
  /\ \/ pc[k] = "incr" /\ pc'[k] = "xadd" /\ next'[k] = next[k]
     \/ pc[k] = "xadd" /\ pc'[k] = "get" /\ seq'[k] = seq[k] /\ next'[k] = next[k]
     \/ pc[k] = "get" /\ pc'[k] = "set" /\ seq'[k] = seq[k]
     \/ pc[k] = "set" /\ pc'[k] = "hset" /\ seq'[k] = seq[k] /\ next'[k] = next[k]

Outside(k) == pc[k] \in {"idle", "lock", "incr"}

LEMMA HandlerStep ==
  ASSUME TypeInv, NEW h \in Handlers,
         PublishStep(h) \/ \E d \in Deliveries : Deliver(h, d)
  PROVE  /\ \A k \in Handlers \ {h} : Stays(k)
         /\ Outside(h)' \/ Stays(h) \/ Advances(h)
<1>. USE DEF TypeInv, HandlersTypeOK, Stays, Advances, Outside
<1>1. ASSUME NEW d \in Deliveries, Deliver(h, d)
      PROVE  (\A k \in Handlers \ {h} : Stays(k)) /\ Outside(h)'
  BY <1>1 DEF Deliver
<1>2. CASE Lock(h)
  BY <1>2 DEF Lock
<1>3. CASE AppendIncr(h)
  BY <1>3 DEF AppendIncr, Refuse, Idle, handlerVars
<1>4. CASE AppendXadd(h)
  BY <1>4 DEF AppendXadd, Refuse, Idle
<1>5. CASE GetState(h)
  BY <1>5 DEF GetState
<1>6. CASE SaveState(h)
  BY <1>6 DEF SaveState
<1>7. CASE SaveMeta(h)
  BY <1>7 DEF SaveMeta, Idle
<1>. QED BY <1>1, <1>2, <1>3, <1>4, <1>5, <1>6, <1>7 DEF PublishStep

LEMMA OthersWait ==
  ASSUME TypeInv, NEW h \in Handlers, pc[h] \in Commands, NEW k \in Handlers, k # h
  PROVE  pc[k] \in {"idle", "lock"}
BY DEF TypeInv, HandlersTypeOK, LockHeld, Commands

LEMMA TopicStays ==
  ASSUME NEW k, Stays(k) \/ Advances(k)
  PROVE  /\ Topic(k)' = Topic(k)
         /\ Stays(k) => Entry(k)' = Entry(k)
         /\ pc[k] # "incr" => Entry(k)' = Entry(k)
BY DEF Stays, Advances, Topic, Entry

(* Every step as Redis sees it: one command of a handler, a deletion, or      *)
(* nothing.                                                                   *)
Idles ==
  /\ UNCHANGED <<redisVars, raced, expired, returned, hit>>
  /\ \A k \in Handlers : (Outside(k) /\ Outside(k)') \/ Stays(k)

LEMMA RedisCases ==
  ASSUME TypeInv, [Next]_vars
  PROVE  \/ Idles
         \/ \E h \in Handlers : \/ AppendIncr(h) \/ AppendXadd(h) \/ GetState(h)
                                \/ SaveState(h) \/ SaveMeta(h)
         \/ SweepDelete
         \/ Crash
<1>1. ASSUME NEW h \in Handlers, NEW d \in Deliveries, Deliver(h, d) PROVE Idles
  <2>1. UNCHANGED <<redisVars, raced, expired, returned, hit>> /\ Outside(h) /\ Outside(h)'
    BY <1>1 DEF Deliver, historyVars, Outside, TypeInv, HandlersTypeOK
  <2>. QED BY <1>1, <2>1, HandlerStep DEF Idles
<1>2. ASSUME NEW h \in Handlers, Lock(h) PROVE Idles
  <2>1. UNCHANGED <<redisVars, raced, expired, returned, hit>> /\ Outside(h) /\ Outside(h)'
    BY <1>2 DEF Lock, historyVars, Outside, TypeInv, HandlersTypeOK
  <2>. QED BY <1>2, <2>1, HandlerStep DEF Idles, PublishStep
<1>3. ASSUME NEW t \in Topics, SweepCheck(t) PROVE Idles
  BY <1>3 DEF SweepCheck, historyVars, handlerVars, Idles, Stays
<1>4. CASE UNCHANGED vars
  BY <1>4 DEF vars, historyVars, handlerVars, Idles, Stays
<1>. QED BY <1>1, <1>2, <1>3, <1>4 DEF Next, PublishStep

(* What a deletion does to the topics.                                        *)
LEMMA DeleteCases ==
  ASSUME TypeInv, SweepDelete, NEW t \in Topics
  PROVE  \/ UNCHANGED redisVars /\ UNCHANGED historyVars
         \/ /\ t # victim
            /\ stream'[t] = stream[t] /\ saved'[t] = saved[t] /\ meta'[t] = meta[t]
            /\ seqKey'[t] = seqKey[t]
            /\ t \in topics' <=> t \in topics
            /\ t \in hit' <=> t \in hit
            /\ \A c : <<t, c>> \in raced' <=> <<t, c>> \in raced
         \/ /\ t = victim
            /\ stream'[t] = <<>> /\ saved'[t] = <<>> /\ meta'[t] = NoMeta
            /\ seqKey'[t] = 0
            /\ t \notin topics'
            /\ \A h \in Handlers : Topic(h) = t /\ pc[h] \in Commands \ {"incr"} =>
                 <<t, pc[h]>> \in raced'
<1>1. victim \in Topics
  BY DEF SweepDelete, TypeInv, OthersTypeOK
<1>2. CASE UNCHANGED redisVars /\ UNCHANGED historyVars
  BY <1>2
<1>3. CASE /\ DeleteTopic(victim)
           /\ raced' = {r \in raced : r[1] # victim} \cup {<<victim, pc[h]>> : h \in Under(victim)}
           /\ hit' = hit \ {victim}
  <2>1. CASE t # victim
    <3>1. \A c : <<t, c>> \in raced' <=> <<t, c>> \in raced
      BY <1>3, <2>1
    <3>. QED BY <1>1, <1>3, <2>1, <3>1 DEF DeleteTopic, TypeInv, KeysTypeOK
  <2>2. CASE t = victim
    <3>1. \A h \in Handlers : Topic(h) = t /\ pc[h] \in Commands \ {"incr"} =>
            <<t, pc[h]>> \in raced'
      BY <1>3, <2>2 DEF Under
    <3>. QED BY <1>1, <1>3, <2>2, <3>1 DEF DeleteTopic, TypeInv, KeysTypeOK
  <2>. QED BY <2>1, <2>2
<1>. QED BY <1>2, <1>3 DEF SweepDelete, Exec

--------------------------------------------------------------------------------
(* The inductive invariants, topic by topic.                                  *)
Unraced(t) == \A c \in Commands : <<t, c>> \notin raced

(* A Publish past its XADD writes to a topic that is there, unless it was     *)
(* deleted under it.                                                          *)
KeysInv(t) ==
  /\ t \in topics <=> stream[t] # <<>>
  /\ t \in topics => meta[t].exists /\ meta[t].last_seq = stream[t][Len(stream[t])].seq
  /\ t \notin topics /\ Unraced(t) =>
       /\ saved[t] = <<>> /\ ~ meta[t].exists
       /\ \A h \in Handlers : pc[h] \in {"get", "set", "hset"} => Topic(h) # t

(* The seq a handler got from INCR is above those of the stream.              *)
SeqInv(t) ==
  <<t, "xadd">> \notin raced =>
    /\ \A i, j \in DOMAIN stream[t] : i < j => stream[t][i].seq < stream[t][j].seq
    /\ \A i \in DOMAIN stream[t] : stream[t][i].seq <= seqKey[t]
    /\ \A h \in Handlers : pc[h] = "xadd" /\ Topic(h) = t =>
         /\ seq[h] <= seqKey[t]
         /\ \A i \in DOMAIN stream[t] : stream[t][i].seq < seq[h]

(* Between XADD and SET the state lags by the event in Publish.               *)
Unsaved(t) == \E h \in Handlers : pc[h] \in {"get", "set"} /\ Topic(h) = t

FoldInv(t) ==
  t \notin hit /\ Unraced(t) =>
    /\ ~ Unsaved(t) => saved[t] = stream[t]
    /\ \A h \in Handlers : pc[h] \in {"get", "set"} /\ Topic(h) = t =>
         /\ stream[t] = Append(saved[t], Entry(h))
         /\ pc[h] = "set" => next[h] = stream[t]

--------------------------------------------------------------------------------
(* The keys of a topic.                                                       *)
Past(h, t) == pc[h] \in {"get", "set", "hset"} /\ Topic(h) = t

LEMMA KeysUntouched ==
  ASSUME NEW t \in Topics, KeysInv(t),
         stream'[t] = stream[t], saved'[t] = saved[t], meta'[t] = meta[t],
         t \in topics' <=> t \in topics,
         \A c : <<t, c>> \in raced' <=> <<t, c>> \in raced,
         \A h \in Handlers : Past(h, t)' => Past(h, t)
  PROVE  KeysInv(t)'
BY DEF KeysInv, Unraced, Past

LEMMA PastStays ==
  ASSUME NEW h \in Handlers, NEW t, Outside(h)' \/ Stays(h) \/ (Advances(h) /\ pc[h] # "xadd")
  PROVE  Past(h, t)' => Past(h, t)
BY TopicStays DEF Outside, Stays, Advances, Past

LEMMA KeysIdle ==
  ASSUME NEW t \in Topics, KeysInv(t), UNCHANGED <<redisVars, raced>>,
         \A h \in Handlers : Outside(h)' \/ Stays(h)
  PROVE  KeysInv(t)'
BY PastStays, KeysUntouched DEF redisVars

LEMMA XaddKeys ==
  ASSUME TypeInv, NEW t \in Topics, KeysInv(t), NEW h \in Handlers, AppendXadd(h)
  PROVE  KeysInv(t)'
<1>. DEFINE u == Topic(h)
            e == Entry(h)
<1>1. /\ u \in Topics /\ e \in Entries /\ e.topic = u /\ pc[h] = "xadd"
      /\ UNCHANGED raced
  BY WorksOn DEF AppendXadd
<1>2. \A k \in Handlers \ {h} : ~ Past(k, t)'
  <2>1. \A k \in Handlers \ {h} : Stays(k) /\ pc[k] \in {"idle", "lock"}
    BY <1>1, HandlerStep, OthersWait DEF PublishStep, Commands
  <2>. QED BY <2>1 DEF Past, Stays
<1>3. CASE UNCHANGED redisVars /\ Outside(h)'
  BY <1>1, <1>2, <1>3, KeysUntouched DEF redisVars, Past, Outside
<1>4. CASE Pipeline(e)
  <2>1. Past(h, t)' => u = t
    BY <1>1, HandlerStep, TopicStays DEF PublishStep, Past, Outside
  <2>2. CASE t # u
    <3>1. stream'[t] = stream[t] /\ saved'[t] = saved[t] /\ meta'[t] = meta[t]
      BY <1>1, <1>4, <2>2 DEF Pipeline, TypeInv, KeysTypeOK
    <3>. QED BY <1>1, <1>2, <1>4, <2>1, <2>2, <3>1, KeysUntouched DEF Pipeline
  <2>3. CASE t = u
    <3>1. /\ stream'[t] = Append(stream[t], e)
          /\ t \in topics'
          /\ meta'[t] = [exists |-> TRUE, last_seq |-> e.seq]
      BY <1>1, <1>4, <2>3 DEF Pipeline, TypeInv, KeysTypeOK
    <3>2. /\ Append(stream[t], e) # <<>>
          /\ Append(stream[t], e)[Len(Append(stream[t], e))] = e
      BY <1>1, AppendProperties DEF TypeInv, KeysTypeOK
    <3>. QED BY <3>1, <3>2 DEF KeysInv
  <2>. QED BY <2>2, <2>3
<1>5. \/ UNCHANGED redisVars /\ Outside(h)'
      \/ Pipeline(e)
  BY DEF AppendXadd, Exec, Refuse, Idle, Outside, TypeInv, HandlersTypeOK
<1>. QED BY <1>3, <1>4, <1>5

(* SET and HSET write to a topic that is listed or was raced.                 *)
LEMMA WriteKeys ==
  ASSUME TypeInv, NEW t \in Topics, KeysInv(t), NEW h \in Handlers,
         SaveState(h) \/ SaveMeta(h)
  PROVE  KeysInv(t)'
<1>. DEFINE u == Topic(h)
<1>1. u \in Topics /\ Past(h, u) /\ pc[h] # "xadd" /\ UNCHANGED raced
  BY WorksOn DEF SaveState, SaveMeta, Past
<1>2. \A k \in Handlers : Past(k, t)' => Past(k, t)
  <2>1. \A k \in Handlers : k = h \/ Stays(k)
    BY HandlerStep DEF PublishStep
  <2>2. Outside(h)' \/ Stays(h) \/ Advances(h)
    BY HandlerStep DEF PublishStep
  <2>. QED BY <2>1, <2>2, <1>1, PastStays
<1>3. CASE UNCHANGED redisVars
  BY <1>1, <1>2, <1>3, KeysUntouched DEF redisVars
<1>4. CASE SetState(u, next[h]) \/ UpsertMeta(u)
  <2>1. UNCHANGED <<stream, topics>>
    BY <1>4 DEF SetState, UpsertMeta
  <2>2. CASE t # u
    <3>1. saved'[t] = saved[t] /\ meta'[t] = meta[t]
      BY <1>1, <1>4, <2>2 DEF SetState, UpsertMeta, TypeInv, KeysTypeOK
    <3>. QED BY <1>1, <1>2, <2>1, <3>1, KeysUntouched
  <2>3. CASE t = u
    <3>1. t \in topics \/ ~ Unraced(t)
      BY <1>1, <2>3 DEF KeysInv, Past
    <3>2. meta'[t].last_seq = meta[t].last_seq /\ (meta[t].exists => meta'[t].exists)
      BY <1>1, <1>4, <2>3 DEF SetState, UpsertMeta, TypeInv, KeysTypeOK
    <3>. QED BY <1>1, <2>1, <3>1, <3>2 DEF KeysInv, Unraced
  <2>. QED BY <2>2, <2>3
<1>5. UNCHANGED redisVars \/ SetState(u, next[h]) \/ UpsertMeta(u)
  BY DEF SaveState, SaveMeta, Exec
<1>. QED BY <1>3, <1>4, <1>5

LEMMA DeleteKeys ==
  ASSUME TypeInv, NEW t \in Topics, KeysInv(t), SweepDelete
  PROVE  KeysInv(t)'
<1>1. \A h \in Handlers : Stays(h) /\ Topic(h)' = Topic(h)
  BY DEF SweepDelete, handlerVars, Stays, Topic
<1>2. CASE UNCHANGED redisVars /\ UNCHANGED historyVars
  BY <1>1, <1>2, KeysIdle DEF historyVars
<1>3. CASE t # victim /\ stream'[t] = stream[t] /\ saved'[t] = saved[t] /\ meta'[t] = meta[t]
           /\ (t \in topics' <=> t \in topics)
           /\ \A c : <<t, c>> \in raced' <=> <<t, c>> \in raced
  BY <1>1, <1>3, KeysUntouched DEF Past, Stays
<1>4. CASE /\ stream'[t] = <<>> /\ saved'[t] = <<>> /\ meta'[t] = NoMeta
           /\ t \notin topics'
           /\ \A h \in Handlers : Topic(h) = t /\ pc[h] \in Commands \ {"incr"} =>
                 <<t, pc[h]>> \in raced'
  <2>1. Unraced(t)' => \A h \in Handlers : pc'[h] \in {"get", "set", "hset"} => Topic(h)' # t
    BY <1>1, <1>4 DEF Unraced, Commands, Stays
  <2>. QED BY <1>4, <2>1 DEF KeysInv, NoMeta
<1>. QED BY <1>2, <1>3, <1>4, DeleteCases

LEMMA KeysInvStep ==
  ASSUME TypeInv, NEW t \in Topics, KeysInv(t), [Next]_vars
  PROVE  KeysInv(t)'
<1>1. CASE Idles
  BY <1>1, KeysIdle DEF Idles
<1>2. ASSUME NEW h \in Handlers, AppendIncr(h) \/ GetState(h) PROVE KeysInv(t)'
  <2>1. /\ UNCHANGED <<stream, saved, meta, topics, raced>>
        /\ pc[h] # "xadd"
    BY <1>2 DEF AppendIncr, GetState, Exec, Incr, redisVars, historyVars
  <2>2. \A k \in Handlers : Past(k, t)' => Past(k, t)
    <3>1. \A k \in Handlers : k = h \/ Stays(k)
      BY <1>2, HandlerStep DEF PublishStep
    <3>2. Outside(h)' \/ Stays(h) \/ Advances(h)
      BY <1>2, HandlerStep DEF PublishStep
    <3>. QED BY <2>1, <3>1, <3>2, PastStays
  <2>. QED BY <2>1, <2>2, KeysUntouched
<1>3. CASE Crash
  <2>1. UNCHANGED <<redisVars, raced>> /\ \A h \in Handlers : Outside(h)'
    BY <1>3 DEF Crash, Outside
  <2>. QED BY <2>1, KeysIdle
<1>. QED BY <1>1, <1>2, <1>3, XaddKeys, WriteKeys, DeleteKeys, RedisCases

LEMMA KeysInvInit ==
  ASSUME Init, NEW t \in Topics
  PROVE  KeysInv(t)
BY DEF Init, RedisInit, NoMeta, KeysInv

LEMMA LatestOne ==
  ASSUME TypeInv, NEW t \in Topics, stream[t] # <<>>
  PROVE  Latest(t, 1)[1] = stream[t][Len(stream[t])]
<1>. DEFINE s == stream[t]
            n == Len(s)
<1>1. s \in Seq(Entries) /\ n \in Nat /\ n >= 1
  BY EmptySeq, LenProperties DEF TypeInv, KeysTypeOK
<1>. HIDE DEF s, n
<1>2. (IF 1 < n THEN n + 1 - 1 ELSE 1) = n
  BY <1>1
<1>3. Latest(t, 1) = SubSeq(s, n, n)
  BY <1>2 DEF Latest, s, n
<1>4. SubSeq(s, n, n)[1] = s[n]
  <2>1. \A i \in n .. n : s[i] \in Entries
    BY <1>1, ElementOfSeq DEF n
  <2>2. /\ Len(SubSeq(s, n, n)) = IF n <= n THEN n - n + 1 ELSE 0
        /\ \A i \in 1 .. n - n + 1 : SubSeq(s, n, n)[i] = s[n + i - 1]
    BY <1>1, <2>1, SubSeqProperties
  <2>. QED BY <1>1, <2>2
<1>. QED BY <1>3, <1>4 DEF s, n

(* The keys of a topic come and go together, and its meta names the last      *)
(* entry of its stream, whichever commands fail or lose their reply, wherever *)
(* the process crashes, and whatever the archiver deletes                     *)
(* (store.go:73-88, 241-247).                                                 *)
THEOREM RedisKeysTogether == Spec => []KeysTogether
<1>1. Init => TypeInv /\ \A t \in Topics : KeysInv(t)
  BY TypeInit, KeysInvInit
<1>2. TypeInv /\ (\A t \in Topics : KeysInv(t)) /\ [Next]_vars => (\A t \in Topics : KeysInv(t))'
  BY KeysInvStep
<1>3. TypeInv /\ (\A t \in Topics : KeysInv(t)) => KeysTogether
  BY LatestOne DEF KeysInv, KeysTogether, Unraced
<1>. QED BY <1>1, <1>2, <1>3, TypeInvariant, PTL DEF Spec

--------------------------------------------------------------------------------
(* The seqs of a stream.                                                      *)
AtXadd(h, t) == pc[h] = "xadd" /\ Topic(h) = t

LEMMA SeqTypes ==
  ASSUME TypeInv, NEW t \in Topics
  PROVE  /\ stream[t] \in Seq(Entries) /\ Len(stream[t]) \in Nat
         /\ DOMAIN stream[t] = 1 .. Len(stream[t])
         /\ \A i \in DOMAIN stream[t] : stream[t][i] \in Entries /\ stream[t][i].seq \in Nat
         /\ seqKey[t] \in Nat
<1>1. stream[t] \in Seq(Entries) /\ seqKey[t] \in Nat
  BY DEF TypeInv, KeysTypeOK
<1>2. Len(stream[t]) \in Nat /\ DOMAIN stream[t] = 1 .. Len(stream[t])
  BY <1>1, LenProperties
<1>3. \A i \in DOMAIN stream[t] : stream[t][i] \in Entries
  BY <1>1, <1>2, ElementOfSeq
<1>. QED BY <1>1, <1>2, <1>3 DEF Entries

LEMMA SeqUntouched ==
  ASSUME TypeInv, NEW t \in Topics, SeqInv(t),
         stream'[t] = stream[t], seqKey'[t] \in Nat, seqKey[t] <= seqKey'[t],
         <<t, "xadd">> \in raced' <=> <<t, "xadd">> \in raced,
         \A h \in Handlers : AtXadd(h, t)' => AtXadd(h, t) /\ seq'[h] = seq[h]
  PROVE  SeqInv(t)'
<1>1. /\ \A i \in DOMAIN stream[t] : stream[t][i].seq \in Nat
      /\ seqKey[t] \in Nat
      /\ \A h \in Handlers : seq[h] \in Nat
  BY SeqTypes DEF TypeInv, HandlersTypeOK
<1>2. SUFFICES ASSUME <<t, "xadd">> \notin raced
               PROVE  /\ \A i \in DOMAIN stream[t] : stream[t][i].seq <= seqKey'[t]
                      /\ \A h \in Handlers : AtXadd(h, t)' =>
                           /\ seq'[h] <= seqKey'[t]
                           /\ \A i \in DOMAIN stream[t] : stream[t][i].seq < seq'[h]
  BY DEF SeqInv, AtXadd
<1>. QED BY <1>1, <1>2 DEF SeqInv, AtXadd

LEMMA XaddStays ==
  ASSUME NEW h \in Handlers, NEW t,
         Outside(h)' \/ Stays(h) \/ (Advances(h) /\ pc[h] # "incr")
  PROVE  AtXadd(h, t)' => AtXadd(h, t) /\ seq'[h] = seq[h]
BY TopicStays DEF Outside, Stays, Advances, AtXadd

LEMMA SeqIdle ==
  ASSUME TypeInv, NEW t \in Topics, SeqInv(t),
         UNCHANGED <<stream, seqKey, raced>>,
         \A h \in Handlers : Outside(h)' \/ Stays(h) \/ (Advances(h) /\ pc[h] # "incr")
  PROVE  SeqInv(t)'
<1>1. seqKey[t] \in Nat
  BY SeqTypes
<1>. QED BY <1>1, XaddStays, SeqUntouched

LEMMA IncrSeqs ==
  ASSUME TypeInv, NEW t \in Topics, SeqInv(t), NEW h \in Handlers, AppendIncr(h)
  PROVE  SeqInv(t)'
<1>. DEFINE u == Topic(h)
<1>1. /\ u \in Topics /\ pc[h] = "incr"
      /\ UNCHANGED <<stream, raced>>
      /\ seqKey \in [Topics -> Nat]
      /\ UNCHANGED redisVars \/ Incr(u)
  BY WorksOn DEF AppendIncr, Exec, Incr, redisVars, historyVars, TypeInv, KeysTypeOK
<1>2. seqKey'[t] \in Nat /\ seqKey[t] <= seqKey'[t]
  BY <1>1 DEF Incr, redisVars
<1>3. \A k \in Handlers \ {h} : Stays(k) /\ ~ AtXadd(k, t) /\ ~ AtXadd(k, t)'
  <2>1. \A k \in Handlers \ {h} : Stays(k) /\ pc[k] \in {"idle", "lock"}
    BY <1>1, HandlerStep, OthersWait DEF PublishStep, Commands
  <2>. QED BY <2>1 DEF AtXadd, Stays
<1>4. CASE ~ AtXadd(h, t)'
  BY <1>1, <1>2, <1>3, <1>4, SeqUntouched
<1>5. CASE AtXadd(h, t)'
  <2>1. Incr(u) /\ seq'[h] = seqKey'[u] /\ u = t /\ seqKey'[t] = seqKey[t] + 1
    <3>1. Incr(u) /\ seq'[h] = seqKey'[u]
      BY <1>1, <1>5 DEF AppendIncr, Exec, Refuse, Idle, handlerVars, AtXadd, TypeInv, HandlersTypeOK
    <3>2. Topic(h)' = Topic(h)
      BY <1>1, <1>5, HandlerStep, TopicStays DEF PublishStep, AtXadd, Outside, Stays
    <3>. QED BY <1>1, <1>5, <3>1, <3>2 DEF AtXadd, Incr
  <2>2. /\ \A i \in DOMAIN stream[t] : stream[t][i].seq \in Nat
        /\ seqKey[t] \in Nat
    BY SeqTypes
  <2>3. SUFFICES ASSUME <<t, "xadd">> \notin raced
                 PROVE  /\ \A i \in DOMAIN stream[t] : stream[t][i].seq < seqKey'[t]
                        /\ \A k \in Handlers : AtXadd(k, t)' => seq'[k] = seqKey'[t]
    BY <1>1, <2>1, <2>2 DEF SeqInv, AtXadd
  <2>. QED BY <1>3, <2>1, <2>2, <2>3 DEF SeqInv
<1>. QED BY <1>4, <1>5

LEMMA XaddSeqs ==
  ASSUME TypeInv, NEW t \in Topics, SeqInv(t), NEW h \in Handlers, AppendXadd(h)
  PROVE  SeqInv(t)'
<1>. DEFINE u == Topic(h)
            e == Entry(h)
<1>1. /\ u \in Topics /\ e \in Entries /\ e.topic = u /\ e.seq = seq[h] /\ pc[h] = "xadd"
      /\ UNCHANGED raced
      /\ UNCHANGED redisVars \/ Pipeline(e)
      /\ seq[h] \in Nat
  BY WorksOn DEF AppendXadd, Entry, Exec, TypeInv, HandlersTypeOK
<1>2. \A k \in Handlers : ~ AtXadd(k, t)'
  <2>1. \A k \in Handlers \ {h} : Stays(k) /\ pc[k] \in {"idle", "lock"}
    BY <1>1, HandlerStep, OthersWait DEF PublishStep, Commands
  <2>2. pc'[h] # "xadd"
    BY <1>1 DEF AppendXadd, Refuse, Idle, TypeInv, HandlersTypeOK
  <2>. QED BY <2>1, <2>2 DEF AtXadd, Stays
<1>3. seqKey' = seqKey
  BY <1>1 DEF redisVars, Pipeline
<1>4. CASE stream'[t] = stream[t]
  BY <1>1, <1>2, <1>3, <1>4, SeqTypes, SeqUntouched
<1>5. CASE Pipeline(e) /\ t = u
  <2>. DEFINE s == stream[t]
              r == Append(s, e)
  <2>1. stream'[t] = r
    BY <1>1, <1>5 DEF Pipeline, TypeInv, KeysTypeOK
  <2>2. /\ s \in Seq(Entries) /\ Len(s) \in Nat /\ DOMAIN s = 1 .. Len(s)
        /\ \A i \in DOMAIN s : s[i].seq \in Nat
    BY SeqTypes
  <2>3. /\ DOMAIN r = 1 .. Len(s) + 1
        /\ \A i \in 1 .. Len(s) : r[i] = s[i]
        /\ r[Len(s) + 1] = e
    <3>1. r \in Seq(Entries)
      BY <1>1, <2>2, AppendProperties
    <3>2. DOMAIN r = 1 .. Len(r)
      BY <3>1, LenProperties
    <3>. QED BY <1>1, <2>2, <3>2, AppendProperties
  <2>. HIDE DEF r
  <2>4. SUFFICES ASSUME <<t, "xadd">> \notin raced
                 PROVE  /\ \A i, j \in DOMAIN r : i < j => r[i].seq < r[j].seq
                        /\ \A i \in DOMAIN r : r[i].seq <= seqKey[t]
    BY <1>1, <1>2, <1>3, <2>1 DEF SeqInv, AtXadd
  <2>5. /\ \A i, j \in DOMAIN s : i < j => s[i].seq < s[j].seq
        /\ \A i \in DOMAIN s : s[i].seq <= seqKey[t]
        /\ e.seq <= seqKey[t]
        /\ \A i \in DOMAIN s : s[i].seq < e.seq
    BY <1>1, <1>5, <2>4 DEF SeqInv
  <2>. HIDE DEF s, e
  <2>6. ASSUME NEW i \in 1 .. Len(s) + 1, NEW j \in 1 .. Len(s) + 1, i < j
        PROVE  r[i].seq < r[j].seq
    <3>1. i \in 1 .. Len(s)
      BY <2>2, <2>6
    <3>2. CASE j = Len(s) + 1
      BY <2>2, <2>3, <2>5, <3>1, <3>2
    <3>3. CASE j \in 1 .. Len(s)
      BY <2>2, <2>3, <2>5, <2>6, <3>1, <3>3
    <3>. QED BY <2>2, <3>2, <3>3
  <2>7. ASSUME NEW i \in 1 .. Len(s) + 1 PROVE r[i].seq <= seqKey[t]
    BY <2>2, <2>3, <2>5
  <2>. QED BY <2>3, <2>6, <2>7
<1>6. CASE Pipeline(e) /\ t # u
  <2>1. stream'[t] = stream[t]
    BY <1>1, <1>6 DEF Pipeline, TypeInv, KeysTypeOK
  <2>. QED BY <1>4, <2>1
<1>. QED BY <1>1, <1>4, <1>5, <1>6 DEF redisVars

LEMMA DeleteSeqs ==
  ASSUME TypeInv, NEW t \in Topics, SeqInv(t), SweepDelete
  PROVE  SeqInv(t)'
<1>1. \A h \in Handlers : Stays(h) /\ Topic(h)' = Topic(h)
  BY DEF SweepDelete, handlerVars, Stays, Topic
<1>2. CASE UNCHANGED redisVars /\ UNCHANGED historyVars
  BY <1>1, <1>2, SeqIdle DEF historyVars, redisVars
<1>3. CASE /\ stream'[t] = stream[t] /\ seqKey'[t] = seqKey[t]
           /\ \A c : <<t, c>> \in raced' <=> <<t, c>> \in raced
  <2>1. seqKey'[t] \in Nat /\ seqKey[t] <= seqKey'[t]
    BY <1>3, SeqTypes
  <2>2. \A h \in Handlers : AtXadd(h, t)' => AtXadd(h, t) /\ seq'[h] = seq[h]
    BY <1>1, XaddStays
  <2>. QED BY <1>3, <2>1, <2>2, SeqUntouched
<1>4. CASE /\ stream'[t] = <<>>
           /\ \A h \in Handlers : Topic(h) = t /\ pc[h] \in Commands \ {"incr"} =>
                 <<t, pc[h]>> \in raced'
  <2>1. DOMAIN <<>> = {}
    OBVIOUS
  <2>2. <<t, "xadd">> \notin raced' => \A h \in Handlers : ~ AtXadd(h, t)'
    BY <1>1, <1>4 DEF AtXadd, Stays, Commands
  <2>. QED BY <1>4, <2>1, <2>2 DEF SeqInv, AtXadd
<1>. QED BY <1>2, <1>3, <1>4, DeleteCases

LEMMA SeqInvStep ==
  ASSUME TypeInv, NEW t \in Topics, SeqInv(t), [Next]_vars
  PROVE  SeqInv(t)'
<1>1. CASE Idles
  BY <1>1, SeqIdle DEF Idles, redisVars
<1>2. ASSUME NEW h \in Handlers, GetState(h) \/ SaveState(h) \/ SaveMeta(h) PROVE SeqInv(t)'
  <2>1. UNCHANGED <<stream, seqKey, raced>> /\ pc[h] # "incr"
    BY <1>2 DEF GetState, SaveState, SaveMeta, Exec, SetState, UpsertMeta, redisVars
  <2>2. /\ \A k \in Handlers \ {h} : Stays(k)
        /\ Outside(h)' \/ Stays(h) \/ Advances(h)
    BY <1>2, HandlerStep DEF PublishStep
  <2>. QED BY <2>1, <2>2, SeqIdle
<1>3. CASE Crash
  <2>1. UNCHANGED <<stream, seqKey, raced>> /\ \A h \in Handlers : Outside(h)'
    BY <1>3 DEF Crash, Outside, redisVars
  <2>. QED BY <2>1, SeqIdle
<1>. QED BY <1>1, <1>2, <1>3, IncrSeqs, XaddSeqs, DeleteSeqs, RedisCases

LEMMA SeqInvInit ==
  ASSUME Init, NEW t \in Topics
  PROVE  SeqInv(t)
<1>1. DOMAIN <<>> = {}
  OBVIOUS
<1>. QED BY <1>1 DEF Init, RedisInit, SeqInv

(* The seqs of a stream increase and never exceed the counter, with any       *)
(* repeated INCR, failed XADD and crash between the two, unless the topic was *)
(* deleted between them (store.go:54-90).                                     *)
THEOREM RedisSeqsIncrease == Spec => []SeqsIncrease
<1>1. Init => TypeInv /\ \A t \in Topics : SeqInv(t)
  BY TypeInit, SeqInvInit
<1>2. TypeInv /\ (\A t \in Topics : SeqInv(t)) /\ [Next]_vars => (\A t \in Topics : SeqInv(t))'
  BY SeqInvStep
<1>3. (\A t \in Topics : SeqInv(t)) => SeqsIncrease
  BY DEF SeqInv, SeqsIncrease
<1>. QED BY <1>1, <1>2, <1>3, TypeInvariant, PTL DEF Spec

--------------------------------------------------------------------------------
(* The derived state.                                                         *)
Works(h, t) == pc[h] \in {"get", "set"} /\ Topic(h) = t

LEMMA FoldUntouched ==
  ASSUME NEW t \in Topics, FoldInv(t),
         stream'[t] = stream[t], saved'[t] = saved[t],
         t \in hit => t \in hit',
         \A c : <<t, c>> \in raced' <=> <<t, c>> \in raced,
         \A h \in Handlers : Works(h, t)' => Works(h, t),
         \A h \in Handlers : Works(h, t) =>
           t \in hit' \/ (Works(h, t)' /\ Stays(h))
  PROVE  FoldInv(t)'
<1>1. SUFFICES ASSUME t \notin hit', Unraced(t)'
               PROVE  /\ ~ Unsaved(t)' => saved[t] = stream[t]
                      /\ \A h \in Handlers : Works(h, t)' =>
                           /\ stream[t] = Append(saved[t], Entry(h)')
                           /\ pc'[h] = "set" => next'[h] = stream[t]
  BY DEF FoldInv, Works
<1>2. t \notin hit /\ Unraced(t)
  BY <1>1 DEF Unraced
<1>3. ~ Unsaved(t)' => ~ Unsaved(t)
  BY <1>1 DEF Unsaved, Works
<1>4. ASSUME NEW h \in Handlers, Works(h, t)'
      PROVE  /\ stream[t] = Append(saved[t], Entry(h)')
             /\ pc'[h] = "set" => next'[h] = stream[t]
  <2>1. Works(h, t) /\ Stays(h) /\ Entry(h)' = Entry(h)
    BY <1>1, <1>4, TopicStays
  <2>. QED BY <1>2, <2>1 DEF FoldInv, Works, Stays
<1>. QED BY <1>2, <1>3, <1>4 DEF FoldInv

(* A step of a handler that is not, and does not get, between XADD and SET,   *)
(* or works on another topic.                                                 *)
LEMMA FoldElsewhere ==
  ASSUME TypeInv, NEW t \in Topics, FoldInv(t), NEW h \in Handlers, PublishStep(h),
         stream'[t] = stream[t], saved'[t] = saved[t], UNCHANGED raced,
         t \in hit => t \in hit',
         t \in hit' \/ ~ Works(h, t), ~ Works(h, t)'
  PROVE  FoldInv(t)'
<1>1. \A k \in Handlers \ {h} : Stays(k) /\ Topic(k)' = Topic(k)
  BY HandlerStep, TopicStays
<1>2. \A k \in Handlers : Works(k, t)' => Works(k, t)
  BY <1>1 DEF Works, Stays
<1>3. \A k \in Handlers : Works(k, t) => t \in hit' \/ (Works(k, t)' /\ Stays(k))
  BY <1>1 DEF Works, Stays
<1>. QED BY <1>2, <1>3, FoldUntouched

LEMMA HandlerOnTopic ==
  ASSUME TypeInv, NEW h \in Handlers, PublishStep(h), NEW t, Works(h, t)'
  PROVE  Topic(h) = t /\ pc[h] \in {"xadd", "get", "set"} /\ Entry(h)' = Entry(h)
BY HandlerStep, TopicStays DEF Works, Outside, Stays, Advances

(* A topic that is written to while its FoldInv need not hold.                *)
LEMMA FoldVacuous ==
  ASSUME NEW t, t \in hit' \/ ~ Unraced(t)'
  PROVE  FoldInv(t)'
BY DEF FoldInv

(* The holder of the lock is the only one to work on its topic.               *)
LEMMA OthersDoNotWork ==
  ASSUME TypeInv, NEW h \in Handlers, pc[h] \in Commands, PublishStep(h), NEW t
  PROVE  \A k \in Handlers \ {h} : ~ Works(k, t) /\ ~ Works(k, t)'
<1>1. \A k \in Handlers \ {h} : Stays(k) /\ pc[k] \in {"idle", "lock"}
  BY HandlerStep, OthersWait
<1>. QED BY <1>1 DEF Works, Stays

LEMMA XaddFold ==
  ASSUME TypeInv, NEW t \in Topics, FoldInv(t), NEW h \in Handlers, AppendXadd(h)
  PROVE  FoldInv(t)'
<1>. DEFINE u == Topic(h)
            e == Entry(h)
<1>1. /\ u \in Topics /\ e.topic = u /\ pc[h] = "xadd" /\ pc[h] \in Commands
      /\ UNCHANGED raced
      /\ PublishStep(h)
      /\ t \in hit => t \in hit'
  BY WorksOn DEF AppendXadd, PublishStep, Commands
<1>2. PICK o \in {"replied", "failed", "lost"} :
        /\ Exec(o, Pipeline(e))
        /\ IF o = "replied"
           THEN pc' = [pc EXCEPT ![h] = "get"] /\ UNCHANGED <<ingest, request, left, seq, next>>
           ELSE Refuse(h)
        /\ hit' = IF o = "lost" THEN hit \cup {u} ELSE hit
  BY DEF AppendXadd
<1>3. saved' = saved /\ (t # u \/ o = "failed" => stream'[t] = stream[t])
  BY <1>1, <1>2 DEF Exec, Pipeline, redisVars, TypeInv, KeysTypeOK
<1>4. CASE t # u \/ o = "failed"
  <2>1. ~ Works(h, t) /\ ~ Works(h, t)'
    <3>1. o = "failed" => pc'[h] = "idle"
      BY <1>2 DEF Refuse, Idle, TypeInv, HandlersTypeOK
    <3>. QED BY <1>1, <1>4, <3>1, HandlerOnTopic DEF Works
  <2>. QED BY <1>1, <1>3, <1>4, <2>1, FoldElsewhere
<1>5. CASE t = u /\ o = "lost"
  BY <1>2, <1>5, FoldVacuous
<1>6. CASE t = u /\ o = "replied"
  <2>1. /\ stream'[t] = Append(stream[t], e)
        /\ pc'[h] = "get" /\ hit' = hit
        /\ Entry(h)' = e
    BY <1>1, <1>2, <1>6 DEF Exec, Pipeline, TypeInv, KeysTypeOK, HandlersTypeOK, Entry, Topic
  <2>2. \A k \in Handlers : ~ Works(k, t) /\ (k # h => ~ Works(k, t)')
    BY <1>1, OthersDoNotWork DEF Works
  <2>3. Unsaved(t)' /\ ~ Unsaved(t)
    <3>1. Topic(h)' = t
      BY <1>2, <1>6 DEF Topic
    <3>2. Works(h, t)'
      BY <2>1, <3>1 DEF Works
    <3>. QED BY <2>2, <3>2 DEF Unsaved, Works
  <2>4. t \notin hit /\ Unraced(t) => stream'[t] = Append(saved'[t], e)
    BY <1>3, <2>1, <2>3 DEF FoldInv
  <2>. QED BY <1>1, <2>1, <2>2, <2>3, <2>4 DEF FoldInv, Unraced, Works
<1>. QED BY <1>4, <1>5, <1>6

LEMMA GetFold ==
  ASSUME TypeInv, NEW t \in Topics, FoldInv(t), NEW h \in Handlers, GetState(h)
  PROVE  FoldInv(t)'
<1>. DEFINE u == Topic(h)
            e == Entry(h)
<1>1. /\ u \in Topics /\ pc[h] = "get" /\ pc[h] \in Commands
      /\ UNCHANGED <<stream, saved, raced>>
      /\ PublishStep(h)
      /\ t \in hit => t \in hit'
  BY WorksOn DEF GetState, PublishStep, Commands, redisVars
<1>2. CASE t # u
  <2>1. ~ Works(h, t) /\ ~ Works(h, t)'
    BY <1>1, <1>2, HandlerOnTopic DEF Works
  <2>. QED BY <1>1, <2>1, FoldElsewhere
<1>3. CASE t = u /\ t \notin hit'
  <2>1. /\ next'[h] = Append(saved[t], e)
        /\ pc'[h] = "set"
        /\ Topic(h)' = t /\ Entry(h)' = e
    BY <1>1, <1>3 DEF GetState, TypeInv, HandlersTypeOK, Entry, Topic
  <2>2. \A k \in Handlers \ {h} : ~ Works(k, t)'
    BY <1>1, OthersDoNotWork
  <2>3. Works(h, t) /\ Works(h, t)' /\ Unsaved(t)'
    BY <1>1, <1>3, <2>1 DEF Works, Unsaved
  <2>4. t \notin hit /\ Unraced(t) => stream[t] = Append(saved[t], e)
    BY <2>3 DEF FoldInv, Works
  <2>. QED BY <1>1, <2>1, <2>2, <2>3, <2>4 DEF FoldInv, Unraced, Works
<1>. QED BY <1>2, <1>3, FoldVacuous

LEMMA SetFold ==
  ASSUME TypeInv, NEW t \in Topics, FoldInv(t), NEW h \in Handlers, SaveState(h)
  PROVE  FoldInv(t)'
<1>. DEFINE u == Topic(h)
<1>1. /\ u \in Topics /\ pc[h] = "set" /\ pc[h] \in Commands /\ pc'[h] = "hset"
      /\ UNCHANGED raced
      /\ PublishStep(h)
      /\ t \in hit => t \in hit'
  BY WorksOn DEF SaveState, PublishStep, Commands, TypeInv, HandlersTypeOK
<1>2. /\ stream' = stream
      /\ t # u => saved'[t] = saved[t]
      /\ t = u /\ t \notin hit' => saved'[t] = next[h]
  BY <1>1 DEF SaveState, Exec, SetState, redisVars, TypeInv, KeysTypeOK
<1>3. CASE t # u
  <2>1. ~ Works(h, t) /\ ~ Works(h, t)'
    BY <1>1, <1>3 DEF Works
  <2>. QED BY <1>1, <1>2, <1>3, <2>1, FoldElsewhere
<1>4. CASE t = u /\ t \notin hit'
  <2>1. \A k \in Handlers : ~ Works(k, t)'
    BY <1>1, OthersDoNotWork DEF Works
  <2>2. t \notin hit /\ Unraced(t) => next[h] = stream[t]
    BY <1>1, <1>4 DEF FoldInv
  <2>. QED BY <1>1, <1>2, <1>4, <2>1, <2>2 DEF FoldInv, Unraced, Works
<1>. QED BY <1>3, <1>4, FoldVacuous

LEMMA DeleteFold ==
  ASSUME TypeInv, NEW t \in Topics, FoldInv(t), SweepDelete
  PROVE  FoldInv(t)'
<1>1. \A h \in Handlers : Stays(h) /\ Topic(h)' = Topic(h)
  BY DEF SweepDelete, handlerVars, Stays, Topic
<1>2. \A h \in Handlers : Works(h, t)' <=> Works(h, t)
  BY <1>1 DEF Works, Stays
<1>3. CASE /\ stream'[t] = stream[t] /\ saved'[t] = saved[t]
           /\ t \in hit => t \in hit'
           /\ \A c : <<t, c>> \in raced' <=> <<t, c>> \in raced
  BY <1>1, <1>2, <1>3, FoldUntouched
<1>4. CASE /\ stream'[t] = <<>> /\ saved'[t] = <<>>
           /\ \A h \in Handlers : Topic(h) = t /\ pc[h] \in Commands \ {"incr"} =>
                 <<t, pc[h]>> \in raced'
  <2>1. Unraced(t)' => \A h \in Handlers : ~ Works(h, t)'
    BY <1>2, <1>4 DEF Unraced, Works, Commands
  <2>. QED BY <1>4, <2>1 DEF FoldInv, Works
<1>. QED BY <1>3, <1>4, DeleteCases DEF redisVars, historyVars

LEMMA FoldInvStep ==
  ASSUME TypeInv, NEW t \in Topics, FoldInv(t), [Next]_vars
  PROVE  FoldInv(t)'
<1>1. CASE Idles
  <2>1. \A h \in Handlers : Works(h, t)' => Works(h, t)
    BY <1>1, TopicStays DEF Idles, Works, Outside, Stays
  <2>2. \A h \in Handlers : Works(h, t) => Works(h, t)' /\ Stays(h)
    BY <1>1, TopicStays DEF Idles, Works, Outside, Stays
  <2>. QED BY <1>1, <2>1, <2>2, FoldUntouched DEF Idles, redisVars
<1>2. ASSUME NEW h \in Handlers, AppendIncr(h) \/ SaveMeta(h) PROVE FoldInv(t)'
  <2>1. /\ UNCHANGED <<stream, saved, raced, hit>> /\ PublishStep(h)
        /\ pc[h] \in {"incr", "hset"}
    BY <1>2 DEF AppendIncr, SaveMeta, Exec, Incr, UpsertMeta, redisVars, historyVars, PublishStep
  <2>2. ~ Works(h, t) /\ ~ Works(h, t)'
    BY <2>1, HandlerOnTopic DEF Works
  <2>. QED BY <2>1, <2>2, FoldElsewhere
<1>3. CASE Crash
  <2>1. /\ UNCHANGED <<redisVars, raced>>
        /\ \A h \in Handlers : pc'[h] = "idle"
        /\ t \in hit => t \in hit'
        /\ \A h \in Handlers : Works(h, t) => t \in hit'
    BY <1>3 DEF Crash, Works
  <2>. QED BY <2>1, FoldUntouched DEF redisVars, Works
<1>. QED BY <1>1, <1>2, <1>3, XaddFold, GetFold, SetFold, DeleteFold, RedisCases

LEMMA FoldInvInit ==
  ASSUME Init, NEW t \in Topics
  PROVE  FoldInv(t)
BY DEF Init, RedisInit, FoldInv

(* A handler that adds to a stream leaves all of it but the last event as the *)
(* front.                                                                     *)
LEMMA FrontOfAppend ==
  ASSUME NEW s \in Seq(Entries), NEW e \in Entries
  PROVE  Front(Append(s, e)) = s
<1>. DEFINE r == Append(s, e)
<1>1. /\ r \in Seq(Entries) /\ Len(s) \in Nat /\ Len(r) = Len(s) + 1
      /\ \A i \in 1 .. Len(s) : r[i] = s[i]
  BY AppendProperties, LenProperties
<1>. HIDE DEF r
<1>2. Front(r) = SubSeq(r, 1, Len(s))
  BY <1>1 DEF Front
<1>3. \A i \in 1 .. Len(s) : r[i] \in Entries
  BY <1>1, ElementOfSeq
<1>4. /\ SubSeq(r, 1, Len(s)) \in Seq(Entries)
      /\ Len(SubSeq(r, 1, Len(s))) = Len(s)
      /\ \A i \in 1 .. Len(s) : SubSeq(r, 1, Len(s))[i] = r[i]
  BY <1>1, <1>3, SubSeqProperties
<1>5. SubSeq(r, 1, Len(s)) = s
  BY <1>1, <1>4, SeqEqual
<1>. QED BY <1>2, <1>5 DEF r

LEMMA FoldIsFront ==
  ASSUME TypeInv, NEW t \in Topics, FoldInv(t), t \notin hit, Unraced(t)
  PROVE  saved[t] = IF Unsaved(t) THEN Front(stream[t]) ELSE stream[t]
<1>1. CASE ~ Unsaved(t)
  BY <1>1 DEF FoldInv
<1>2. CASE Unsaved(t)
  <2>1. PICK h \in Handlers : pc[h] \in {"get", "set"} /\ Topic(h) = t
    BY <1>2 DEF Unsaved
  <2>2. stream[t] = Append(saved[t], Entry(h))
    BY <2>1 DEF FoldInv
  <2>3. saved[t] \in Seq(Entries) /\ Entry(h) \in Entries
    BY <2>1, WorksOn DEF TypeInv, KeysTypeOK
  <2>. QED BY <1>2, <2>2, <2>3, FrontOfAppend
<1>. QED BY <1>1, <1>2

(* With Redis commands that fail or lose their reply, crashes and expiries at *)
(* any point, the saved state is the fold of the stream, but for a topic that *)
(* was hit, and deletion heals it (broker.go:58-68).                          *)
THEOREM RedisStateFollows == Spec => []StateIsFoldUnlessHit
<1>1. Init => TypeInv /\ \A t \in Topics : FoldInv(t)
  BY TypeInit, FoldInvInit
<1>2. TypeInv /\ (\A t \in Topics : FoldInv(t)) /\ [Next]_vars => (\A t \in Topics : FoldInv(t))'
  BY FoldInvStep
<1>3. TypeInv /\ (\A t \in Topics : FoldInv(t)) => StateIsFoldUnlessHit
  BY FoldIsFront DEF StateIsFoldUnlessHit, Unraced, Unsaved
<1>. QED BY <1>1, <1>2, <1>3, TypeInvariant, PTL DEF Spec

--------------------------------------------------------------------------------
(* What is stored of a delivery.                                              *)
Want(h) == Wanted(request[h][1]).events
At(h) == Len(Want(h)) - Len(left[h]) + 1   \* position of the event in Publish
Stored(h) == IF pc[h] \in {"get", "set", "hset"} THEN At(h) ELSE At(h) - 1

(* A handler publishes the events of its request in order, those before the   *)
(* one in Publish are stored, and those after it are not.                     *)
ProgressInv(h) ==
  pc[h] # "idle" =>
    /\ Wanted(request[h][1]).ok
    /\ At(h) \in 1 .. Len(Want(h))
    /\ left[h] = SubSeq(Want(h), At(h), Len(Want(h)))
    /\ \A i \in 1 .. Stored(h) : <<request[h], Want(h)[i].topic>> \in Entered

AcceptedInv ==
  \A a \in accepted :
    /\ Wanted(a[1]).ok
    /\ \A i \in DOMAIN Wanted(a[1]).events : <<a, Wanted(a[1]).events[i].topic>> \in Entered

LEMMA WantType ==
  ASSUME TypeInv, NEW h \in Handlers, pc[h] # "idle"
  PROVE  /\ Want(h) \in Seq(Wants) /\ Len(Want(h)) \in Nat
         /\ DOMAIN Want(h) = 1 .. Len(Want(h))
         /\ left[h] \in Seq(Wants) /\ Len(left[h]) \in Nat /\ At(h) \in Int
         /\ \A i \in DOMAIN Want(h) : Want(h)[i].topic \in Topics
<1>1. request[h] \in Deliveries \X Nat /\ left[h] \in Seq(Wants)
  BY DEF TypeInv, HandlersTypeOK, Requests
<1>2. Want(h) \in Seq(Wants)
  BY <1>1, DeliveriesAssumption DEF Want
<1>3. /\ Len(Want(h)) \in Nat /\ DOMAIN Want(h) = 1 .. Len(Want(h))
      /\ Len(left[h]) \in Nat
  BY <1>1, <1>2, LenProperties
<1>4. \A i \in DOMAIN Want(h) : Want(h)[i] \in Wants
  BY <1>2, <1>3, ElementOfSeq
<1>. QED BY <1>1, <1>2, <1>3, <1>4 DEF At, Wants

(* The event in Publish is the one at its position.                           *)
LEMMA AtHead ==
  ASSUME TypeInv, NEW h \in Handlers, pc[h] # "idle", ProgressInv(h)
  PROVE  /\ Topic(h) = Want(h)[At(h)].topic
         /\ Entry(h).id = <<request[h], Want(h)[At(h)].topic>>
         /\ Tail(left[h]) = SubSeq(Want(h), At(h) + 1, Len(Want(h)))
         /\ Len(left[h]) = Len(Want(h)) - At(h) + 1
<1>1. /\ Want(h) \in Seq(Wants) /\ At(h) \in 1 .. Len(Want(h))
      /\ left[h] = SubSeq(Want(h), At(h), Len(Want(h)))
      /\ Len(Want(h)) \in Nat /\ Len(left[h]) \in Nat
  BY WantType DEF ProgressInv
<1>2. /\ Head(left[h]) = Want(h)[At(h)]
      /\ Tail(left[h]) = SubSeq(Want(h), At(h) + 1, Len(Want(h)))
  <2>. DEFINE w == Want(h)
              m == At(h)
              n == Len(w)
  <2>1. w \in Seq(Wants) /\ m \in 1 .. Len(w) /\ left[h] = SubSeq(w, m, n) /\ n = Len(w) /\ n \in Nat
    BY <1>1
  <2>. HIDE DEF w, m, n
  <2>2. n \in m .. Len(w)
    BY <2>1
  <2>3. Head(SubSeq(w, m, n)) = w[m] /\ Tail(SubSeq(w, m, n)) = SubSeq(w, m + 1, n)
    BY <2>1, <2>2, HeadTailOfSubSeq
  <2>. QED BY <2>1, <2>3 DEF w, m, n
<1>3. Len(left[h]) = Len(Want(h)) - At(h) + 1
  BY <1>1 DEF At
<1>. QED BY <1>2, <1>3 DEF Entry, Topic

(* Nothing that was stored is forgotten: a deletion records the ids of the    *)
(* stream it removes, and a transaction adds one.                             *)
LEMMA IdsFacts ==
  ASSUME TypeInv, NEW t \in Topics, NEW e \in Entries
  PROVE  {Append(stream[t], e)[i].id : i \in DOMAIN Append(stream[t], e)} = Ids(t) \cup {e.id}
<1>. DEFINE s == stream[t]
            r == Append(s, e)
<1>1. /\ s \in Seq(Entries) /\ Len(s) \in Nat /\ DOMAIN s = 1 .. Len(s)
  BY SeqTypes
<1>2. /\ r \in Seq(Entries) /\ Len(r) = Len(s) + 1
      /\ \A i \in 1 .. Len(s) : r[i] = s[i]
      /\ r[Len(s) + 1] = e
  BY <1>1, AppendProperties
<1>3. DOMAIN r = 1 .. Len(s) + 1
  BY <1>2, LenProperties
<1>. HIDE DEF s, r
<1>4. DOMAIN r = DOMAIN s \cup {Len(s) + 1}
  BY <1>1, <1>3
<1>5. {r[i].id : i \in DOMAIN r} = {s[i].id : i \in DOMAIN s} \cup {e.id}
  BY <1>1, <1>2, <1>4
<1>. QED BY <1>5 DEF Ids, s, r

LEMMA PipelineEnters ==
  ASSUME TypeInv, NEW h \in Handlers, pc[h] # "idle", Pipeline(Entry(h)), expired' = expired
  PROVE  Entered' = Entered \cup {Entry(h).id}
<1>. DEFINE e == Entry(h)
<1>1. e \in Entries /\ e.topic \in Topics /\ Pipeline(e)
  BY WorksOn
<1>. HIDE DEF e
<1>2. \A t \in Topics : Ids(t)' = IF t = e.topic THEN Ids(t) \cup {e.id} ELSE Ids(t)
  <2>1. \A t \in Topics : stream'[t] = IF t = e.topic THEN Append(stream[t], e) ELSE stream[t]
    BY <1>1 DEF Pipeline, TypeInv, KeysTypeOK
  <2>2. \A t \in Topics : Ids(t)' = {stream'[t][i].id : i \in DOMAIN stream'[t]}
    BY DEF Ids
  <2>3. SUFFICES ASSUME NEW t \in Topics
                 PROVE  Ids(t)' = IF t = e.topic THEN Ids(t) \cup {e.id} ELSE Ids(t)
    OBVIOUS
  <2>4. CASE t = e.topic
    <3>. DEFINE r == Append(stream[t], e)
    <3>1. stream'[t] = r
      BY <2>1, <2>4
    <3>2. {r[i].id : i \in DOMAIN r} = Ids(t) \cup {e.id}
      BY <1>1, IdsFacts
    <3>. HIDE DEF r
    <3>3. Ids(t)' = {r[i].id : i \in DOMAIN r}
      BY <3>1 DEF Ids
    <3>. QED BY <2>4, <3>2, <3>3
  <2>5. CASE t # e.topic
    BY <2>1, <2>2, <2>5 DEF Ids
  <2>. QED BY <2>4, <2>5
<1>3. \A x : x \in Entered <=> x \in expired \/ \E t \in Topics : x \in Ids(t)
  BY DEF Entered
<1>4. \A x : x \in Entered' <=> x \in expired' \/ \E t \in Topics : x \in Ids(t)'
  BY DEF Entered
<1>5. \A x : x \in Entered' <=> x \in Entered \/ x = e.id
  BY <1>1, <1>2, <1>3, <1>4
<1>. QED BY <1>5 DEF e

LEMMA EnteredStep ==
  ASSUME TypeInv, [Next]_vars
  PROVE  \/ Entered' = Entered
         \/ \E h \in Handlers : /\ pc[h] = "xadd" /\ pc'[h] \in {"idle", "get"}
                                /\ Entered' = Entered \cup {Entry(h).id}
<1>1. CASE UNCHANGED <<stream, expired>>
  BY <1>1 DEF Entered, Ids
<1>2. ASSUME NEW h \in Handlers, AppendIncr(h) \/ GetState(h) \/ SaveState(h) \/ SaveMeta(h)
      PROVE  UNCHANGED <<stream, expired>>
  BY <1>2
     DEF AppendIncr, GetState, SaveState, SaveMeta, Exec, Incr, SetState, UpsertMeta, redisVars,
         historyVars
<1>3. ASSUME NEW h \in Handlers, AppendXadd(h), ~ UNCHANGED <<stream, expired>>
      PROVE  /\ pc[h] = "xadd" /\ pc'[h] \in {"idle", "get"}
             /\ Entered' = Entered \cup {Entry(h).id}
  <2>1. pc[h] = "xadd" /\ Pipeline(Entry(h)) /\ expired' = expired
    BY <1>3 DEF AppendXadd, Exec, redisVars
  <2>2. pc'[h] \in {"idle", "get"}
    BY <1>3 DEF AppendXadd, Refuse, Idle, TypeInv, HandlersTypeOK
  <2>. QED BY <2>1, <2>2, PipelineEnters
<1>4. ASSUME SweepDelete, ~ UNCHANGED <<stream, expired>>
      PROVE  Entered' = Entered
  <2>1. /\ DeleteTopic(victim) /\ victim \in Topics
        /\ expired' = expired \cup Ids(victim)
    BY <1>4 DEF SweepDelete, Exec, redisVars, historyVars, TypeInv, OthersTypeOK, Ids
  <2>2. \A t \in Topics : Ids(t)' = IF t = victim THEN {} ELSE Ids(t)
    <3>1. \A t \in Topics : stream'[t] = IF t = victim THEN <<>> ELSE stream[t]
      BY <2>1 DEF DeleteTopic, TypeInv, KeysTypeOK
    <3>2. \A t \in Topics : Ids(t)' = {stream'[t][i].id : i \in DOMAIN stream'[t]}
      BY DEF Ids
    <3>. QED BY <3>1, <3>2 DEF Ids
  <2>. QED BY <2>1, <2>2 DEF Entered
<1>5. CASE Crash
  BY <1>1, <1>5 DEF Crash, redisVars
<1>. QED BY <1>1, <1>2, <1>3, <1>4, <1>5, RedisCases DEF Idles, redisVars

LEMMA EnteredGrows ==
  ASSUME TypeInv, [Next]_vars
  PROVE  Entered \subseteq Entered'
BY EnteredStep

(* The ways a handler goes.                                                   *)
Early == {"lock", "incr", "xadd"}
Late == {"get", "set", "hset"}

Starts(k) ==
  /\ pc[k] = "idle" /\ pc'[k] = "lock"
  /\ \E d \in Deliveries : /\ Wanted(d).ok /\ Wanted(d).events # <<>>
                           /\ request'[k] = <<d, tries + 1>> /\ left'[k] = Wanted(d).events
  /\ tries' = tries + 1
  /\ UNCHANGED <<stream, expired, accepted>>
  /\ \A h \in Handlers \ {k} : request'[h] = request[h] /\ pc'[h] = pc[h]

Continues(k) ==
  /\ pc[k] # "idle"
  /\ UNCHANGED <<request[k], left[k]>>
  /\ \/ pc[k] \in Early /\ pc'[k] \in Early
     \/ pc[k] \in Late /\ pc'[k] \in Late /\ seq'[k] = seq[k]

Stores(k) ==
  /\ pc[k] = "xadd" /\ pc'[k] = "get"
  /\ UNCHANGED <<request[k], left[k], seq[k]>>
  /\ Pipeline(Entry(k)) /\ Entry(k).id \in Entered'

Proceeds(k) ==
  /\ pc[k] = "hset" /\ pc'[k] = "lock"
  /\ request'[k] = request[k]
  /\ Len(left[k]) > 1 /\ left'[k] = Tail(left[k])

LEMMA Paths ==
  ASSUME TypeInv, [Next]_vars, NEW k \in Handlers
  PROVE  pc'[k] = "idle" \/ Starts(k) \/ Continues(k) \/ Stores(k) \/ Proceeds(k)
<1>. USE DEF Continues, Early, Late
<1>0. /\ \A h \in Handlers : pc[h] \in {"idle"} \cup Early \cup Late
      /\ pc \in [Handlers -> {"idle", "lock"} \cup Commands]
      /\ DOMAIN request = Handlers /\ DOMAIN left = Handlers
  BY DEF TypeInv, HandlersTypeOK, Commands
<1>1. CASE Stays(k)
  BY <1>0, <1>1 DEF Stays
<1>2. ASSUME NEW d \in Deliveries, Deliver(k, d), ~ Stays(k) PROVE Starts(k)
  BY <1>0, <1>2 DEF Deliver, Starts, redisVars, historyVars, Stays
<1>3. CASE Lock(k)
  BY <1>0, <1>3 DEF Lock
<1>4. CASE AppendIncr(k)
  BY <1>0, <1>4 DEF AppendIncr, Refuse, Idle, handlerVars
<1>5. CASE AppendXadd(k)
  <2>1. CASE pc'[k] = "idle"
    BY <2>1
  <2>2. CASE pc'[k] # "idle"
    <3>1. /\ pc[k] = "xadd" /\ pc'[k] = "get" /\ UNCHANGED <<request, left, seq>>
          /\ Pipeline(Entry(k)) /\ expired' = expired
      BY <1>0, <1>5, <2>2 DEF AppendXadd, Refuse, Idle, Exec
    <3>. QED BY <3>1, PipelineEnters DEF Stores
  <2>. QED BY <2>1, <2>2
<1>6. CASE GetState(k)
  BY <1>0, <1>6 DEF GetState
<1>7. CASE SaveState(k)
  BY <1>0, <1>7 DEF SaveState
<1>8. CASE SaveMeta(k)
  BY <1>0, <1>8 DEF SaveMeta, Idle, Proceeds
<1>9. CASE Crash
  BY <1>9 DEF Crash
<1>10. ASSUME NEW h \in Handlers, h # k, PublishStep(h) \/ \E d \in Deliveries : Deliver(h, d)
       PROVE  Stays(k)
  BY <1>10, HandlerStep
<1>11. CASE SweepDelete \/ (\E t \in Topics : SweepCheck(t)) \/ UNCHANGED vars
  BY <1>1, <1>11 DEF SweepDelete, SweepCheck, vars, handlerVars, Stays
<1>. QED BY <1>1, <1>2, <1>3, <1>4, <1>5, <1>6, <1>7, <1>8, <1>9, <1>10, <1>11
     DEF Next, PublishStep

(* A handler that goes on to its next event.                                  *)
LEMMA ProceedsOn ==
  ASSUME TypeInv, NEW k \in Handlers, ProgressInv(k), Proceeds(k)
  PROVE  /\ pc[k] # "idle" /\ request'[k] = request[k] /\ Want(k)' = Want(k)
         /\ Stored(k)' = Stored(k)
         /\ At(k)' \in 1 .. Len(Want(k))
         /\ left'[k] = SubSeq(Want(k), At(k)', Len(Want(k)))
<1>1. /\ Want(k)' = Want(k) /\ pc[k] # "idle" /\ request'[k] = request[k]
      /\ left'[k] = Tail(left[k]) /\ Len(left[k]) > 1
      /\ pc[k] = "hset" /\ pc'[k] = "lock"
  BY DEF Proceeds, Want
<1>. DEFINE n == Len(Want(k))
            m == At(k)
            l == Len(left[k])
            tail == Tail(left[k])
<1>2. tail = SubSeq(Want(k), m + 1, n) /\ l = n - m + 1 /\ n \in Nat /\ m \in 1 .. n
  BY <1>1, AtHead, WantType DEF ProgressInv
<1>3. Len(tail) = l - 1
  BY <1>1, WantType, HeadTailProperties, EmptySeq
<1>. HIDE DEF n, m, l, tail
<1>4. At(k)' = n - Len(tail) + 1
  BY <1>1 DEF At, n, tail
<1>5. At(k)' = m + 1 /\ l > 1 /\ m + 1 \in 1 .. n
  BY <1>1, <1>2, <1>3, <1>4 DEF l
<1>6. Stored(k) = m /\ Stored(k)' = m
  BY <1>1, <1>2, <1>5 DEF Stored, m
<1>7. left'[k] = SubSeq(Want(k), At(k)', n)
  BY <1>1, <1>2, <1>5 DEF tail
<1>. QED BY <1>1, <1>5, <1>6, <1>7 DEF n

LEMMA ProgressInvStep ==
  ASSUME TypeInv, [Next]_vars, NEW k \in Handlers, ProgressInv(k)
  PROVE  ProgressInv(k)'
<1>. SUFFICES ASSUME pc'[k] # "idle" PROVE ProgressInv(k)'
  BY DEF ProgressInv
<1>0. TypeInv' /\ Entered \subseteq Entered'
  BY TypeStep, EnteredGrows
<1>1. CASE Starts(k)
  <2>1. PICK d \in Deliveries : /\ Wanted(d).ok /\ Wanted(d).events # <<>>
                                /\ request'[k] = <<d, tries + 1>> /\ left'[k] = Wanted(d).events
    BY <1>1 DEF Starts
  <2>. DEFINE w == Wanted(d).events
              n == Len(w)
  <2>2. w \in Seq(Wants) /\ w # <<>> /\ n \in Nat /\ n # 0 /\ w = SubSeq(w, 1, n)
    BY <2>1, DeliveriesAssumption, LenProperties, EmptySeq, SubSeqFull
  <2>3. Want(k)' = w /\ left'[k] = w /\ Wanted(request[k][1])'.ok
    BY <2>1 DEF Want
  <2>4. At(k)' = 1 /\ Stored(k)' = 0
    <3>1. At(k)' = Len(w) - Len(w) + 1
      BY <2>3 DEF At
    <3>2. At(k)' = 1
      BY <2>2, <3>1
    <3>. QED BY <3>2, <1>1 DEF Stored, Starts
  <2>. HIDE DEF w, n
  <2>5. Len(Want(k)') = n
    BY <2>3 DEF n
  <2>. QED BY <2>2, <2>3, <2>4, <2>5 DEF ProgressInv
<1>2. CASE Continues(k)
  <2>1. /\ Want(k)' = Want(k) /\ At(k)' = At(k) /\ Stored(k)' = Stored(k)
        /\ request'[k] = request[k] /\ left'[k] = left[k] /\ pc[k] # "idle"
    BY <1>2 DEF Continues, Want, At, Stored, Early, Late
  <2>. QED BY <1>0, <2>1 DEF ProgressInv
<1>3. CASE Stores(k)
  <2>1. /\ Want(k)' = Want(k) /\ At(k)' = At(k) /\ Stored(k) = At(k) - 1 /\ Stored(k)' = At(k)
        /\ request'[k] = request[k] /\ left'[k] = left[k] /\ pc[k] # "idle"
    BY <1>3 DEF Stores, Want, At, Stored
  <2>2. Entry(k).id = <<request[k], Want(k)[At(k)].topic>> /\ Entry(k).id \in Entered'
    BY <1>3, <2>1, AtHead DEF Stores
  <2>3. At(k) \in Int
    BY <2>1, WantType
  <2>4. \A i \in 1 .. At(k) - 1 : <<request[k], Want(k)[i].topic>> \in Entered'
    BY <1>0, <2>1 DEF ProgressInv
  <2>5. \A i \in 1 .. At(k) : i \in 1 .. At(k) - 1 \/ i = At(k)
    BY <2>3
  <2>6. \A i \in 1 .. At(k) : <<request[k], Want(k)[i].topic>> \in Entered'
    BY <2>2, <2>4, <2>5
  <2>. QED BY <2>1, <2>6 DEF ProgressInv
<1>4. CASE Proceeds(k)
  BY <1>0, <1>4, ProceedsOn DEF ProgressInv
<1>. QED BY <1>1, <1>2, <1>3, <1>4, Paths

(* An attempt is accepted when its last event is stored, or when it has none. *)
LEMMA AcceptedStep ==
  ASSUME TypeInv, [Next]_vars, NEW a \in accepted', a \notin accepted
  PROVE  \/ \E h \in Handlers : pc[h] = "hset" /\ ~ Len(left[h]) > 1 /\ a = request[h]
         \/ Wanted(a[1]).ok /\ Wanted(a[1]).events = <<>>
<1>1. ASSUME NEW h \in Handlers, NEW d \in Deliveries, Deliver(h, d)
      PROVE  Wanted(a[1]).ok /\ Wanted(a[1]).events = <<>>
  BY <1>1 DEF Deliver
<1>2. ASSUME NEW h \in Handlers, PublishStep(h)
      PROVE  pc[h] = "hset" /\ ~ Len(left[h]) > 1 /\ a = request[h]
  BY <1>2
     DEF PublishStep, Lock, AppendIncr, AppendXadd, GetState, SaveState, SaveMeta, boundVars
<1>3. CASE SweepDelete \/ Crash \/ (\E t \in Topics : SweepCheck(t)) \/ UNCHANGED vars
  BY <1>3 DEF SweepDelete, SweepCheck, Crash, vars, boundVars
<1>. QED BY <1>1, <1>2, <1>3 DEF Next

LEMMA AcceptedInvStep ==
  ASSUME TypeInv, [Next]_vars, AcceptedInv, \A h \in Handlers : ProgressInv(h)
  PROVE  AcceptedInv'
<1>0. Entered \subseteq Entered'
  BY EnteredGrows
<1>. SUFFICES ASSUME NEW a \in accepted'
              PROVE  /\ Wanted(a[1]).ok
                     /\ \A i \in DOMAIN Wanted(a[1]).events :
                          <<a, Wanted(a[1]).events[i].topic>> \in Entered'
  BY DEF AcceptedInv
<1>1. CASE a \in accepted
  BY <1>0, <1>1 DEF AcceptedInv
<1>2. ASSUME NEW h \in Handlers, pc[h] = "hset", ~ Len(left[h]) > 1, a = request[h]
      PROVE  /\ Wanted(a[1]).ok
             /\ \A i \in DOMAIN Want(h) : <<a, Want(h)[i].topic>> \in Entered'
  <2>. DEFINE n == Len(Want(h))
              m == At(h)
              l == Len(left[h])
  <2>1. l = n - m + 1 /\ n \in Nat /\ m \in 1 .. n /\ ~ l > 1 /\ l \in Nat
    BY <1>2, AtHead, WantType DEF ProgressInv
  <2>. HIDE DEF n, m, l
  <2>2. m = n
    BY <2>1
  <2>3. DOMAIN Want(h) = 1 .. Stored(h)
    BY <1>2, <2>2, WantType DEF Stored, n, m
  <2>. QED BY <1>0, <1>2, <2>3 DEF ProgressInv
<1>3. CASE Wanted(a[1]).ok /\ Wanted(a[1]).events = <<>>
  BY <1>3, EmptySeq
<1>. QED BY <1>1, <1>2, <1>3, AcceptedStep DEF Want

LEMMA ProgressInit == Init => AcceptedInv /\ \A h \in Handlers : ProgressInv(h)
BY DEF Init, AcceptedInv, ProgressInv

(* A delivery that is not refused leads to an event for every pull request it *)
(* is about.                                                                  *)
Covered(d, n) == \E i \in DOMAIN Wanted(d).events : Wanted(d).events[i].topic = n

LEMMA OneCovers ==
  ASSUME NEW d, NEW n, NEW type, Wanted(d) = One(n, type)
  PROVE  Covered(d, n)
<1>1. Wanted(d).events = <<[topic |-> n, type |-> type]>>
  BY DEF One, Events, topicFor
<1>2. DOMAIN <<[topic |-> n, type |-> type]>> = {1}
  OBVIOUS
<1>. QED BY <1>1, <1>2 DEF Covered

LEMMA ToSetAppend ==
  ASSUME NEW S, NEW s \in Seq(S), NEW e \in S
  PROVE  ToSet(Append(s, e)) = ToSet(s) \cup {e}
<1>1. /\ Append(s, e) \in Seq(S) /\ Len(Append(s, e)) = Len(s) + 1 /\ Len(s) \in Nat
      /\ \A i \in 1 .. Len(s) : Append(s, e)[i] = s[i]
      /\ Append(s, e)[Len(s) + 1] = e
  BY AppendProperties, LenProperties
<1>2. DOMAIN s = 1 .. Len(s) /\ DOMAIN Append(s, e) = 1 .. Len(s) + 1
  BY <1>1, LenProperties
<1>. QED BY <1>1, <1>2 DEF ToSet

(* The loop over a payload's pull requests keeps those with a number: after i *)
(* of them out[i] lists what it found so far.                                 *)
LEMMA NumberedKeeps ==
  ASSUME NEW d \in Deliveries, NEW m \in ToSet(d.prs), m # 0
  PROVE  m \in ToSet(numbered(d))
<1>. DEFINE prs == d.prs
            n == Len(prs)
            Next1(i, out) == IF prs[i] = 0 THEN out ELSE Append(out, prs[i])
            Is(g) == g = [i \in 0 .. n |-> IF i = 0 THEN <<>> ELSE Next1(i, g[i - 1])]
            out == CHOOSE g : Is(g)
            h == [i \in 1 .. n |-> [x \in Seq(Nat) |-> Next1(i, x)]]
            S == {k \in 0 .. n : /\ out[k] \in Seq(Nat)
                                 /\ \A i \in 1 .. k : prs[i] # 0 => prs[i] \in ToSet(out[k])}
<1>1. prs \in Seq(Nat) /\ n \in Nat /\ \A i \in 1 .. n : prs[i] \in Nat
  BY PayloadsAssumption, LenProperties, ElementOfSeq
<1>2. numbered(d) = out[n]
  BY DEF numbered
<1>. HIDE DEF prs, n
<1>3. \A i \in 1 .. n : \A x \in Seq(Nat) : Next1(i, x) \in Seq(Nat)
  BY <1>1, AppendProperties
<1>4. Is(out)
  <2>1. h \in [1 .. n -> [Seq(Nat) -> Seq(Nat)]]
    BY <1>3
  <2>2. <<>> \in Seq(Nat)
    BY EmptySeq
  <2>3. PICK g \in [0 .. n -> Seq(Nat)] :
          \A i \in 0 .. n : g[i] = IF i = 0 THEN <<>> ELSE h[i][g[i - 1]]
    <3>. DEFINE D == Seq(Nat)
                b == <<>>
    <3>1. b \in D /\ h \in [1 .. n -> [D -> D]]
      BY <2>1, <2>2
    <3>. HIDE DEF D, b, h
    <3>2. \E g : IsLoop(g, n, D, b, h)
      BY <1>1, <3>1, LoopExists
    <3>. QED BY <3>2 DEF D, b, IsLoop
  <2>4. \A i \in 0 .. n : i # 0 => h[i][g[i - 1]] = Next1(i, g[i - 1])
    <3>. HIDE DEF Next1
    <3>. QED BY <1>1, <2>3
  <2>5. Is(g)
    <3>. HIDE DEF Next1, h
    <3>. QED BY <2>3, <2>4
  <2>. HIDE DEF Is
  <2>. QED BY <2>5
<1>5. out[0] = <<>> /\ \A i \in 1 .. n : out[i] = Next1(i, out[i - 1])
  <2>. HIDE DEF Next1, out
  <2>1. \A i \in 0 .. n : out[i] = IF i = 0 THEN <<>> ELSE Next1(i, out[i - 1])
    BY <1>4
  <2>. QED BY <1>1, <2>1
<1>. HIDE DEF out
<1>6. 0 \in S
  <2>1. out[0] \in Seq(Nat)
    BY <1>5, EmptySeq
  <2>. QED BY <1>1, <2>1
<1>7. ASSUME NEW k \in 0 .. n, k < n, k \in S PROVE k + 1 \in S
  <2>1. /\ out[k] \in Seq(Nat) /\ out[k + 1] = Next1(k + 1, out[k]) /\ k + 1 \in 1 .. n
        /\ \A i \in 1 .. k : prs[i] # 0 => prs[i] \in ToSet(out[k])
    BY <1>1, <1>5, <1>7
  <2>2. out[k + 1] \in Seq(Nat)
    BY <1>3, <2>1
  <2>3. ToSet(out[k]) \subseteq ToSet(out[k + 1])
        /\ (prs[k + 1] # 0 => prs[k + 1] \in ToSet(out[k + 1]))
    <3>1. CASE prs[k + 1] = 0
      BY <2>1, <3>1
    <3>2. CASE prs[k + 1] # 0
      <4>1. out[k + 1] = Append(out[k], prs[k + 1]) /\ prs[k + 1] \in Nat
        BY <1>1, <2>1, <3>2
      <4>. QED BY <2>1, <4>1, ToSetAppend
    <3>. QED BY <3>1, <3>2
  <2>4. ASSUME NEW i \in 1 .. k + 1, prs[i] # 0 PROVE prs[i] \in ToSet(out[k + 1])
    <3>1. CASE i = k + 1
      BY <2>3, <2>4, <3>1
    <3>2. CASE i # k + 1
      <4>1. i \in 1 .. k
        BY <3>2
      <4>. QED BY <2>1, <2>3, <2>4, <4>1
    <3>. QED BY <3>1, <3>2
  <2>5. k + 1 \in 0 .. n
    BY <1>1, <1>7
  <2>. HIDE DEF Next1
  <2>. QED BY <2>2, <2>4, <2>5
<1>8. n \in S
  <2>1. \A k \in 0 .. n : k < n /\ k \in S => k + 1 \in S
    <3>. HIDE DEF S
    <3>. QED BY <1>7
  <2>. HIDE DEF S
  <2>2. \A k \in 0 .. n : k \in S
    BY <1>1, <1>6, <2>1, Induction
  <2>. QED BY <1>1, <2>2
<1>9. PICK i \in 1 .. n : prs[i] = m
  <2>1. DOMAIN d.prs = 1 .. Len(d.prs)
    BY PayloadsAssumption, LenProperties
  <2>. QED BY <2>1 DEF ToSet, prs, n
<1>10. \A j \in 1 .. n : prs[j] # 0 => prs[j] \in ToSet(out[n])
  BY <1>8
<1>. QED BY <1>2, <1>9, <1>10

LEMMA AboutIsCovered ==
  ASSUME NEW d \in Deliveries, Wanted(d).ok, NEW n \in About(d)
  PROVE  Covered(d, n)
<1>1. CASE d.event = "publish"
  BY <1>1, OneCovers DEF About, Wanted
<1>2. ASSUME d.event # "publish" PROVE d.repo /\ Wanted(d) = Transform(d)
  BY <1>2 DEF Wanted, Transform, Refused
<1>3. CASE d.event = "pull_request"
  <2>1. Wanted(d) = prEvent(d) /\ n = d.num /\ d.action \in DOMAIN prTypes \cup {"closed"}
    BY <1>2, <1>3 DEF Transform, About
  <2>2. d.num # 0
    BY <2>1 DEF prEvent, Refused
  <2>. QED BY <2>1, <2>2, OneCovers DEF prEvent
<1>4. CASE d.event = "pull_request_review"
  <2>1. Wanted(d) = prReviewEvent(d) /\ n = d.num /\ d.action = "submitted" /\ n # 0
    BY <1>2, <1>4 DEF Transform, About
  <2>. QED BY <2>1, OneCovers DEF prReviewEvent
<1>5. CASE d.event = "issue_comment"
  <2>1. Wanted(d) = issueCommentEvent(d) /\ n = d.num /\ d.action = "created" /\ d.isPR
    BY <1>2, <1>5 DEF Transform, About
  <2>. QED BY <2>1, OneCovers DEF issueCommentEvent
<1>6. CASE d.event = "check_run"
  <2>. DEFINE nums == numbered(d)
              es == [i \in DOMAIN nums |-> [topic |-> nums[i], type |-> "check_run_completed"]]
  <2>1. /\ Wanted(d) = checkRunEvent(d) /\ d.action = "completed"
        /\ n \in ToSet(d.prs) /\ n # 0
    BY <1>2, <1>6 DEF Transform, About
  <2>2. n \in ToSet(nums)
    BY <2>1, NumberedKeeps
  <2>. HIDE DEF nums
  <2>3. PICK i \in DOMAIN nums : nums[i] = n
    BY <2>2 DEF ToSet
  <2>4. Wanted(d).events = es
    BY <2>1 DEF checkRunEvent, Events, topicFor, nums
  <2>5. DOMAIN es = DOMAIN nums /\ es[i].topic = n
    BY <2>3
  <2>. HIDE DEF es
  <2>. QED BY <2>3, <2>4, <2>5 DEF Covered
<1>. QED BY <1>1, <1>3, <1>4, <1>5, <1>6 DEF About

(* A delivery is acknowledged only when an event for every pull request it is *)
(* about is stored, whatever fails, crashes or is delivered twice             *)
(* (publish.go:78-87).                                                        *)
THEOREM RedisAcceptedIsStored == Spec => []AcceptedIsStored
<1>1. Init => AcceptedInv /\ \A h \in Handlers : ProgressInv(h)
  BY ProgressInit
<1>2. TypeInv /\ AcceptedInv /\ (\A h \in Handlers : ProgressInv(h)) /\ [Next]_vars
        => AcceptedInv' /\ (\A h \in Handlers : ProgressInv(h))'
  BY ProgressInvStep, AcceptedInvStep
<1>3. TypeInv /\ AcceptedInv => AcceptedIsStored
  <2>1. SUFFICES ASSUME TypeInv, AcceptedInv, NEW a \in accepted, NEW n \in About(a[1])
                 PROVE  <<a, n>> \in Entered
    BY DEF AcceptedIsStored
  <2>2. a[1] \in Deliveries /\ Wanted(a[1]).ok
    BY <2>1 DEF AcceptedInv, TypeInv, OthersTypeOK, Requests
  <2>3. Covered(a[1], n)
    BY <2>2, AboutIsCovered
  <2>. QED BY <2>1, <2>3 DEF Covered, AcceptedInv
<1>. QED BY <1>1, <1>2, <1>3, TypeInvariant, PTL DEF Spec

--------------------------------------------------------------------------------
(* Which attempts stored what.                                                *)

(* Every attempt in progress has a number of its own.                         *)
FreshInv ==
  /\ \A h \in Handlers : pc[h] # "idle" => request[h][2] <= tries
  /\ \A h, k \in Handlers : pc[h] # "idle" /\ pc[k] # "idle" /\ h # k =>
       request[h][2] # request[k][2]
  /\ \A id \in Entered : id[1][2] \in 0 .. tries

(* A handler has stored nothing after the event in Publish ...                *)
AheadInv(h) ==
  pc[h] # "idle" =>
    \A i \in DOMAIN Want(h) : i > Stored(h) => <<request[h], Want(h)[i].topic>> \notin Entered

(* ... so that every attempt, also a failed one, leaves a prefix, ...         *)
PrefixInv ==
  \A id \in Entered :
    \A i, j \in DOMAIN Wanted(id[1][1]).events :
      i < j /\ Wanted(id[1][1]).events[j].topic = id[2] =>
        <<id[1], Wanted(id[1][1]).events[i].topic>> \in Entered

(* ... and no event twice.                                                    *)
OnceInv ==
  \A t \in Topics : \A i, j \in DOMAIN stream[t] : stream[t][i].id = stream[t][j].id => i = j

(* What a step adds is an event of an attempt in progress.                    *)
LEMMA NewId ==
  ASSUME TypeInv, [Next]_vars, Entered' # Entered, \A h \in Handlers : ProgressInv(h)
  PROVE  \E h \in Handlers : /\ pc[h] = "xadd" /\ pc'[h] \in {"idle", "get"}
                             /\ request[h] \in Requests
                             /\ At(h) \in DOMAIN Want(h) /\ Stored(h) = At(h) - 1
                             /\ Entry(h).id = <<request[h], Want(h)[At(h)].topic>>
                             /\ Entered' = Entered \cup {Entry(h).id}
<1>1. PICK h \in Handlers : /\ pc[h] = "xadd" /\ pc'[h] \in {"idle", "get"}
                            /\ Entered' = Entered \cup {Entry(h).id}
  BY EnteredStep
<1>2. At(h) \in DOMAIN Want(h) /\ Stored(h) = At(h) - 1
  BY <1>1, WantType DEF ProgressInv, Stored
<1>3. Entry(h).id = <<request[h], Want(h)[At(h)].topic>> /\ request[h] \in Requests
  BY <1>1, AtHead, WorksOn
<1>. QED BY <1>1, <1>2, <1>3

LEMMA TriesGrow ==
  ASSUME TypeInv, [Next]_vars
  PROVE  tries' \in Nat /\ tries \in Nat /\ tries <= tries'
<1>1. tries \in Nat /\ (tries' = tries \/ tries' = tries + 1)
  BY DEF Next, PublishStep, Deliver, Lock, AppendIncr, AppendXadd, GetState, SaveState, SaveMeta,
         SweepCheck, SweepDelete, Crash, vars, boundVars, TypeInv, OthersTypeOK
<1>. QED BY <1>1

LEMMA FreshInvStep ==
  ASSUME TypeInv, [Next]_vars, FreshInv, \A h \in Handlers : ProgressInv(h)
  PROVE  FreshInv'
<1>0. tries' \in Nat /\ tries \in Nat /\ tries <= tries'
  BY TriesGrow
<1>1. \A h \in Handlers : pc[h] # "idle" => request[h] \in Requests /\ request[h][2] \in Nat
  BY WorksOn DEF Requests
<1>2. \A h \in Handlers :
        \/ pc'[h] = "idle"
        \/ Starts(h)
        \/ pc[h] # "idle" /\ request'[h] = request[h]
  BY Paths DEF Continues, Stores, Proceeds
<1>3. \A h \in Handlers : Starts(h) =>
        request'[h][2] = tries + 1 /\ tries' = tries + 1 /\ Entered' = Entered
  BY DEF Starts, Entered, Ids
<1>4. \A h \in Handlers : pc'[h] # "idle" => request'[h][2] <= tries'
  BY <1>0, <1>1, <1>2, <1>3 DEF FreshInv
<1>5. ASSUME NEW h \in Handlers, NEW k \in Handlers, pc'[h] # "idle", pc'[k] # "idle", h # k,
             Starts(h)
      PROVE  request'[h][2] # request'[k][2]
  <2>1. request'[k] = request[k] /\ pc[k] # "idle"
    BY <1>5 DEF Starts
  <2>. QED BY <1>0, <1>1, <1>3, <1>5, <2>1 DEF FreshInv
<1>6. \A h, k \in Handlers : pc'[h] # "idle" /\ pc'[k] # "idle" /\ h # k =>
        request'[h][2] # request'[k][2]
  BY <1>2, <1>5 DEF FreshInv
<1>7. \A id \in Entered' : id[1][2] \in 0 .. tries'
  <2>1. CASE Entered' = Entered
    <3>. SUFFICES ASSUME NEW id \in Entered PROVE id[1][2] \in 0 .. tries'
      BY <2>1
    <3>. QED BY <1>0 DEF FreshInv
  <2>2. CASE Entered' # Entered
    <3>1. PICK h \in Handlers : /\ pc[h] = "xadd" /\ Entry(h).id[1] = request[h]
                                /\ Entered' = Entered \cup {Entry(h).id}
      BY <2>2, NewId
    <3>2. Entry(h).id[1][2] \in 0 .. tries'
      BY <1>0, <1>1, <3>1 DEF FreshInv
    <3>3. \A id \in Entered : id[1][2] \in 0 .. tries'
      BY <1>0 DEF FreshInv
    <3>. QED BY <3>1, <3>2, <3>3
  <2>. QED BY <2>1, <2>2
<1>. QED BY <1>4, <1>6, <1>7 DEF FreshInv

LEMMA AheadInvStep ==
  ASSUME TypeInv, [Next]_vars, FreshInv, \A h \in Handlers : ProgressInv(h),
         NEW k \in Handlers, AheadInv(k)
  PROVE  AheadInv(k)'
<1>. SUFFICES ASSUME pc'[k] # "idle", NEW i \in DOMAIN Want(k)', i > Stored(k)'
              PROVE  <<request'[k], Want(k)'[i].topic>> \notin Entered'
  BY DEF AheadInv
<1>1. CASE Starts(k)
  <2>1. request'[k][2] = tries + 1 /\ Entered' = Entered /\ tries \in Nat
    BY <1>1 DEF Starts, Entered, Ids, TypeInv, OthersTypeOK
  <2>. QED BY <2>1 DEF FreshInv
<1>2. ASSUME pc[k] # "idle", request'[k] = request[k], Want(k)' = Want(k), i > Stored(k),
             pc[k] = "xadd" /\ pc'[k] = "get" => i # At(k)
      PROVE  <<request'[k], Want(k)'[i].topic>> \notin Entered'
  <2>1. <<request[k], Want(k)[i].topic>> \notin Entered
    BY <1>2 DEF AheadInv
  <2>2. CASE Entered' = Entered
    BY <1>2, <2>1, <2>2
  <2>3. CASE Entered' # Entered
    <3>1. PICK h \in Handlers : /\ pc[h] = "xadd" /\ pc'[h] \in {"idle", "get"}
                                /\ At(h) \in DOMAIN Want(h)
                                /\ Entry(h).id = <<request[h], Want(h)[At(h)].topic>>
                                /\ Entered' = Entered \cup {Entry(h).id}
      BY <2>3, NewId
    <3>2. CASE h # k
      BY <1>2, <2>1, <3>1, <3>2 DEF FreshInv
    <3>3. CASE h = k
      <4>1. i # At(k) /\ At(k) \in DOMAIN Want(k) /\ i \in DOMAIN Want(k)
        BY <1>2, <3>1, <3>3
      <4>2. request[k][1] \in Deliveries
        BY <1>2, WorksOn DEF Requests
      <4>3. Want(k)[i].topic # Want(k)[At(k)].topic
        BY <4>1, <4>2, DistinctTopics DEF Want
      <4>. QED BY <1>2, <2>1, <3>1, <3>3, <4>3
    <3>. QED BY <3>2, <3>3
  <2>. QED BY <2>2, <2>3
<1>3. CASE Continues(k)
  BY <1>2, <1>3 DEF Continues, Want, At, Stored, Early, Late
<1>4. CASE Stores(k)
  <2>1. /\ pc[k] # "idle" /\ request'[k] = request[k] /\ Want(k)' = Want(k)
        /\ Stored(k) = At(k) - 1 /\ Stored(k)' = At(k)
    BY <1>4 DEF Stores, Want, At, Stored
  <2>2. At(k) \in Int /\ i \in Int
    BY <2>1, WantType
  <2>. QED BY <1>2, <2>1, <2>2
<1>5. CASE Proceeds(k)
  BY <1>2, <1>5, ProceedsOn DEF Proceeds
<1>. QED BY <1>1, <1>3, <1>4, <1>5, Paths

LEMMA PrefixInvStep ==
  ASSUME TypeInv, [Next]_vars, PrefixInv, \A h \in Handlers : ProgressInv(h)
  PROVE  PrefixInv'
<1>1. CASE Entered' = Entered
  BY <1>1 DEF PrefixInv
<1>2. CASE Entered' # Entered
  <2>1. PICK h \in Handlers : /\ pc[h] = "xadd" /\ request[h] \in Requests
                              /\ At(h) \in DOMAIN Want(h) /\ Stored(h) = At(h) - 1
                              /\ Entry(h).id = <<request[h], Want(h)[At(h)].topic>>
                              /\ Entered' = Entered \cup {Entry(h).id}
    BY <1>2, NewId
  <2>2. SUFFICES ASSUME NEW id \in Entered',
                        NEW i \in DOMAIN Wanted(id[1][1]).events,
                        NEW j \in DOMAIN Wanted(id[1][1]).events,
                        i < j, Wanted(id[1][1]).events[j].topic = id[2]
                 PROVE  <<id[1], Wanted(id[1][1]).events[i].topic>> \in Entered'
    BY DEF PrefixInv
  <2>3. CASE id \in Entered
    BY <2>1, <2>2, <2>3 DEF PrefixInv
  <2>4. CASE id = Entry(h).id
    <3>1. id[1] = request[h] /\ id[2] = Want(h)[At(h)].topic /\ Wanted(id[1][1]).events = Want(h)
      BY <2>1, <2>4 DEF Want
    <3>2. j = At(h)
      BY <2>1, <2>2, <3>1, DistinctTopics DEF Want, Requests
    <3>3. i \in 1 .. Stored(h)
      <4>1. DOMAIN Want(h) = 1 .. Len(Want(h)) /\ Len(Want(h)) \in Nat
        BY <2>1, WantType
      <4>. QED BY <2>1, <2>2, <3>1, <3>2, <4>1
    <3>. QED BY <2>1, <3>1, <3>3 DEF ProgressInv
  <2>. QED BY <2>1, <2>3, <2>4
<1>. QED BY <1>1, <1>2

LEMMA StreamStep ==
  ASSUME TypeInv, [Next]_vars, NEW t \in Topics
  PROVE  \/ stream'[t] = stream[t]
         \/ SweepDelete /\ stream'[t] = <<>>
         \/ \E h \in Handlers : pc[h] = "xadd" /\ stream'[t] = Append(stream[t], Entry(h))
<1>1. ASSUME NEW h \in Handlers, AppendIncr(h) \/ GetState(h) \/ SaveState(h) \/ SaveMeta(h)
      PROVE  stream' = stream
  BY <1>1 DEF AppendIncr, GetState, SaveState, SaveMeta, Exec, Incr, SetState, UpsertMeta, redisVars
<1>2. ASSUME NEW h \in Handlers, AppendXadd(h), stream'[t] # stream[t]
      PROVE  pc[h] = "xadd" /\ stream'[t] = Append(stream[t], Entry(h))
  <2>1. pc[h] = "xadd" /\ Pipeline(Entry(h))
    BY <1>2 DEF AppendXadd, Exec, redisVars
  <2>. QED BY <1>2, <2>1 DEF Pipeline, TypeInv, KeysTypeOK
<1>3. CASE SweepDelete
  BY <1>3, DeleteCases DEF redisVars
<1>4. CASE Crash
  BY <1>4 DEF Crash, redisVars
<1>. QED BY <1>1, <1>2, <1>3, <1>4, RedisCases DEF Idles, redisVars

LEMMA OnceInvStep ==
  ASSUME TypeInv, [Next]_vars, OnceInv, \A h \in Handlers : ProgressInv(h) /\ AheadInv(h)
  PROVE  OnceInv'
<1>. SUFFICES ASSUME NEW t \in Topics, NEW i \in DOMAIN stream'[t], NEW j \in DOMAIN stream'[t],
                     stream'[t][i].id = stream'[t][j].id
              PROVE  i = j
  BY DEF OnceInv
<1>1. CASE stream'[t] = stream[t]
  BY <1>1 DEF OnceInv
<1>2. CASE stream'[t] = <<>>
  BY <1>2, EmptySeq
<1>3. ASSUME NEW h \in Handlers, pc[h] = "xadd", stream'[t] = Append(stream[t], Entry(h))
      PROVE  i = j
  <2>. DEFINE s == stream[t]
              e == Entry(h)
              r == Append(s, e)
              n == Len(s)
  <2>1. /\ s \in Seq(Entries) /\ n \in Nat /\ DOMAIN s = 1 .. n /\ e \in Entries
    BY <1>3, SeqTypes, WorksOn
  <2>2. /\ r \in Seq(Entries) /\ Len(r) = n + 1
        /\ \A x \in 1 .. n : r[x] = s[x]
        /\ r[n + 1] = e
    BY <2>1, AppendProperties
  <2>3. DOMAIN r = 1 .. n + 1
    BY <2>2, LenProperties
  <2>4. e.id \notin Entered
    <3>1. At(h) \in DOMAIN Want(h) /\ At(h) > Stored(h)
      BY <1>3, WantType DEF ProgressInv, Stored
    <3>2. e.id = <<request[h], Want(h)[At(h)].topic>>
      BY <1>3, AtHead
    <3>. QED BY <1>3, <3>1, <3>2 DEF AheadInv
  <2>5. \A x \in 1 .. n : s[x].id # e.id
    BY <2>1, <2>4 DEF Entered, Ids
  <2>6. \A x, y \in 1 .. n : s[x].id = s[y].id => x = y
    BY <2>1 DEF OnceInv
  <2>7. i \in 1 .. n + 1 /\ j \in 1 .. n + 1 /\ r[i].id = r[j].id
    BY <1>3, <2>3
  <2>. HIDE DEF s, e, r, n
  <2>. QED BY <2>1, <2>2, <2>5, <2>6, <2>7
<1>. QED BY <1>1, <1>2, <1>3, StreamStep

LEMMA StoredInit ==
  ASSUME Init
  PROVE  FreshInv /\ PrefixInv /\ OnceInv /\ \A h \in Handlers : AheadInv(h)
<1>1. Entered = {}
  BY EmptySeq DEF Init, RedisInit, Entered, Ids
<1>2. OnceInv
  BY EmptySeq DEF Init, RedisInit, OnceInv
<1>. QED BY <1>1, <1>2 DEF Init, FreshInv, PrefixInv, AheadInv

(* The ids of a stream without a repetition are as many as its entries.       *)
LEMMA IdsCount ==
  ASSUME TypeInv, OnceInv, NEW t \in Topics
  PROVE  Cardinality(Ids(t)) = Len(stream[t])
<1>. DEFINE s == stream[t]
            n == Len(s)
            f == [i \in 1 .. n |-> s[i].id]
<1>1. n \in Nat /\ DOMAIN s = 1 .. n
  BY SeqTypes
<1>2. f \in Bijection(1 .. n, Ids(t))
  <2>1. f \in [1 .. n -> Ids(t)]
    BY <1>1 DEF Ids
  <2>2. \A i, j \in 1 .. n : f[i] = f[j] => i = j
    BY <1>1 DEF OnceInv
  <2>3. \A x \in Ids(t) : \E i \in 1 .. n : f[i] = x
    BY <1>1 DEF Ids
  <2>. HIDE DEF f, n
  <2>. QED BY <2>1, <2>2, <2>3 DEF Bijection, Injection, Surjection, IsInjective
<1>3. IsFiniteSet(1 .. n) /\ Cardinality(1 .. n) = n
  BY <1>1, FS_Interval
<1>. HIDE DEF f, n
<1>4. Cardinality(Ids(t)) = Cardinality(1 .. n)
  BY <1>2, <1>3, FS_Bijection DEF ExistsBijection
<1>. QED BY <1>3, <1>4 DEF n

(* A failed attempt has stored a prefix of its events, and no attempt stores  *)
(* an event twice, also when commands are lost (publish.go:78-85).            *)
THEOREM RedisPrefixStored == Spec => []PrefixStored
<1>. DEFINE Inv == /\ FreshInv /\ PrefixInv /\ OnceInv
                   /\ \A h \in Handlers : ProgressInv(h) /\ AheadInv(h)
<1>1. Init => Inv
  BY ProgressInit, StoredInit
<1>2. TypeInv /\ Inv /\ [Next]_vars => Inv'
  BY ProgressInvStep, FreshInvStep, AheadInvStep, PrefixInvStep, OnceInvStep
<1>3. TypeInv /\ Inv => PrefixStored
  BY IdsCount DEF PrefixInv, PrefixStored
<1>. QED BY <1>1, <1>2, <1>3, TypeInvariant, PTL DEF Spec

--------------------------------------------------------------------------------
(* What Publish returned for.                                                 *)
InStream(e) == \E i \in DOMAIN stream[e.topic] : stream[e.topic][i] = e

WrittenInv(h) == pc[h] \in Late => InStream(Entry(h)) \/ Entry(h).id \in expired

ReturnedInv == \A e \in returned : InStream(e)

LEMMA StreamKeeps ==
  ASSUME TypeInv, [Next]_vars, NEW e \in Entries, InStream(e)
  PROVE  \/ InStream(e)'
         \/ SweepDelete /\ e.topic = victim /\ e.id \in expired'
              /\ returned' = {r \in returned : r.topic # victim}
<1>. DEFINE t == e.topic
            s == stream[t]
<1>0. t \in Topics /\ s \in Seq(Entries) /\ DOMAIN s = 1 .. Len(s) /\ Len(s) \in Nat
  BY SeqTypes DEF Entries
<1>1. CASE stream'[t] = s
  BY <1>1 DEF InStream
<1>2. ASSUME NEW h \in Handlers, pc[h] = "xadd", stream'[t] = Append(s, Entry(h))
      PROVE  InStream(e)'
  <2>. DEFINE r == Append(s, Entry(h))
  <2>1. /\ r \in Seq(Entries) /\ Len(r) = Len(s) + 1
        /\ \A i \in 1 .. Len(s) : r[i] = s[i]
    BY <1>0, <1>2, WorksOn, AppendProperties
  <2>2. DOMAIN r = 1 .. Len(s) + 1
    BY <2>1, LenProperties
  <2>3. PICK i \in 1 .. Len(s) : s[i] = e
    BY <1>0 DEF InStream
  <2>4. i \in DOMAIN r /\ r[i] = e
    BY <1>0, <2>1, <2>2, <2>3
  <2>. HIDE DEF r
  <2>5. stream'[t] = r
    BY <1>2 DEF r
  <2>. QED BY <2>4, <2>5 DEF InStream
<1>3. CASE SweepDelete /\ stream'[t] # s
  <2>1. /\ DeleteTopic(victim)
        /\ expired' = expired \cup {stream[victim][i].id : i \in DOMAIN stream[victim]}
        /\ returned' = {r \in returned : r.topic # victim}
    BY <1>3 DEF SweepDelete, Exec, redisVars
  <2>2. t = victim
    BY <1>0, <1>3, <2>1 DEF DeleteTopic, TypeInv, KeysTypeOK
  <2>3. e.id \in expired'
    BY <2>1, <2>2 DEF InStream
  <2>. QED BY <1>3, <2>1, <2>2, <2>3
<1>. QED BY <1>0, <1>1, <1>2, <1>3, StreamStep

LEMMA ExpiredGrows ==
  ASSUME TypeInv, [Next]_vars
  PROVE  expired \subseteq expired'
<1>1. ASSUME NEW h \in Handlers,
             \/ AppendIncr(h) \/ AppendXadd(h) \/ GetState(h) \/ SaveState(h) \/ SaveMeta(h)
      PROVE  expired' = expired
  BY <1>1 DEF AppendIncr, AppendXadd, GetState, SaveState, SaveMeta, historyVars
<1>2. CASE SweepDelete
  BY <1>2 DEF SweepDelete, historyVars
<1>3. CASE Crash
  BY <1>3 DEF Crash
<1>. QED BY <1>1, <1>2, <1>3, RedisCases DEF Idles

LEMMA WrittenInvStep ==
  ASSUME TypeInv, [Next]_vars, NEW h \in Handlers, WrittenInv(h)
  PROVE  WrittenInv(h)'
<1>. SUFFICES ASSUME pc'[h] \in Late
              PROVE  InStream(Entry(h))' \/ Entry(h)'.id \in expired'
  BY DEF WrittenInv
<1>0. Entry(h)' = Entry(h) /\ (Stores(h) \/ (Continues(h) /\ pc[h] \in Late))
  BY Paths DEF Starts, Stores, Continues, Proceeds, Early, Late, Entry, Topic
<1>1. Entry(h) \in Entries /\ Entry(h).topic \in Topics
  BY <1>0, WorksOn DEF Stores, Continues
<1>. DEFINE e == Entry(h)
<1>2. CASE Stores(h)
  <2>. DEFINE s == stream[e.topic]
              r == Append(s, e)
  <2>1. stream'[e.topic] = r
    BY <1>1, <1>2 DEF Stores, Pipeline, TypeInv, KeysTypeOK
  <2>2. s \in Seq(Entries) /\ Len(s) \in Nat
    BY <1>1, SeqTypes
  <2>3. r \in Seq(Entries) /\ Len(r) = Len(s) + 1 /\ r[Len(s) + 1] = e
    BY <1>1, <2>2, AppendProperties
  <2>4. Len(s) + 1 \in DOMAIN r
    BY <2>2, <2>3, LenProperties
  <2>. HIDE DEF e, r
  <2>5. InStream(e)'
    BY <1>0, <2>1, <2>3, <2>4 DEF InStream, e
  <2>. QED BY <1>0, <2>5 DEF e
<1>3. CASE Continues(h) /\ pc[h] \in Late
  <2>1. InStream(e) \/ e.id \in expired
    BY <1>3 DEF WrittenInv
  <2>2. CASE InStream(e)
    <3>1. PICK u \in Entries : u = e
      BY <1>1
    <3>2. InStream(u)' \/ u.id \in expired'
      BY <2>2, <3>1, StreamKeeps DEF InStream
    <3>. QED BY <1>0, <3>1, <3>2 DEF InStream
  <2>3. CASE e.id \in expired
    BY <1>0, <2>3, ExpiredGrows
  <2>. QED BY <2>1, <2>2, <2>3
<1>. QED BY <1>0, <1>2, <1>3

LEMMA ReturnedInvStep ==
  ASSUME TypeInv, [Next]_vars, ReturnedInv, \A h \in Handlers : WrittenInv(h)
  PROVE  ReturnedInv'
<1>. SUFFICES ASSUME NEW e \in returned' PROVE InStream(e)'
  BY DEF ReturnedInv
<1>1. CASE e \in returned
  <2>1. e \in Entries /\ InStream(e)
    BY <1>1 DEF ReturnedInv, TypeInv, OthersTypeOK
  <2>. QED BY <2>1, StreamKeeps
<1>2. CASE e \notin returned
  <2>1. PICK h \in Handlers : SaveMeta(h)
    <3>1. ASSUME NEW h \in Handlers,
                 AppendIncr(h) \/ AppendXadd(h) \/ GetState(h) \/ SaveState(h)
          PROVE  returned' = returned
      BY <3>1 DEF AppendIncr, AppendXadd, GetState, SaveState, historyVars
    <3>2. CASE SweepDelete
      BY <1>2, <3>2 DEF SweepDelete, historyVars
    <3>3. CASE Crash \/ Idles
      BY <1>2, <3>3 DEF Crash, Idles
    <3>. QED BY <1>2, <3>1, <3>2, <3>3, RedisCases
  <2>2. e = Entry(h) /\ pc[h] = "hset" /\ Entry(h).id \notin expired /\ stream' = stream
    BY <1>2, <2>1 DEF SaveMeta, Exec, UpsertMeta, redisVars
  <2>3. InStream(e)
    BY <2>2 DEF WrittenInv, Late
  <2>. QED BY <2>2, <2>3 DEF InStream
<1>. QED BY <1>1, <1>2

(* What a reader finds that starts at the seq Publish returned: the event is  *)
(* in its stream, at the first position with at least that seq, so that an    *)
(* entry is at or after it exactly when its seq is no smaller                 *)
(* (store.go:92-117).                                                         *)
ReturnedIsFirst ==
  \A e \in returned : <<e.topic, "xadd">> \notin raced =>
    \E i \in DOMAIN stream[e.topic] :
      /\ stream[e.topic][i] = e
      /\ \A j \in DOMAIN stream[e.topic] : stream[e.topic][j].seq >= e.seq <=> j >= i

LEMMA ReturnedFirst == Spec => []ReturnedIsFirst
<1>. DEFINE Inv == /\ \A t \in Topics : SeqInv(t)
                   /\ \A h \in Handlers : WrittenInv(h)
                   /\ ReturnedInv
<1>1. Init => Inv
  BY SeqInvInit DEF Init, WrittenInv, ReturnedInv, Late
<1>2. TypeInv /\ Inv /\ [Next]_vars => Inv'
  BY SeqInvStep, WrittenInvStep, ReturnedInvStep
<1>3. TypeInv /\ Inv => ReturnedIsFirst
  <2>1. SUFFICES ASSUME TypeInv, Inv, NEW e \in returned, <<e.topic, "xadd">> \notin raced
                 PROVE  \E i \in DOMAIN stream[e.topic] :
                          /\ stream[e.topic][i] = e
                          /\ \A j \in DOMAIN stream[e.topic] :
                               stream[e.topic][j].seq >= e.seq <=> j >= i
    BY DEF ReturnedIsFirst
  <2>. DEFINE s == stream[e.topic]
              n == Len(s)
  <2>2. e.topic \in Topics /\ e \in Entries
    BY <2>1 DEF TypeInv, OthersTypeOK, Entries
  <2>3. PICK i \in DOMAIN s : s[i] = e
    BY <2>1 DEF ReturnedInv, InStream
  <2>4. /\ DOMAIN s = 1 .. n /\ n \in Nat
        /\ \A j \in 1 .. n : s[j].seq \in Nat
        /\ \A j, k \in 1 .. n : j < k => s[j].seq < s[k].seq
    BY <2>1, <2>2, SeqTypes, ElementOfSeq DEF SeqInv, Entries
  <2>. HIDE DEF s, n
  <2>5. ASSUME NEW j \in 1 .. n PROVE s[j].seq >= e.seq <=> j >= i
    <3>1. i \in 1 .. n /\ e.seq = s[i].seq
      BY <2>3, <2>4
    <3>2. (j < i => s[j].seq < s[i].seq) /\ (i < j => s[i].seq < s[j].seq)
      BY <2>4, <2>5, <3>1
    <3>3. s[j].seq \in Nat /\ s[i].seq \in Nat
      BY <2>4, <2>5, <3>1
    <3>4. CASE j < i
      BY <2>4, <2>5, <3>1, <3>2, <3>3, <3>4
    <3>5. CASE j = i
      BY <2>4, <2>5, <3>1, <3>3, <3>5
    <3>6. CASE i < j
      BY <2>4, <2>5, <3>1, <3>2, <3>3, <3>6
    <3>. QED BY <2>4, <2>5, <3>1, <3>4, <3>5, <3>6
  <2>. QED BY <2>3, <2>4, <2>5 DEF s
<1>. QED BY <1>1, <1>2, <1>3, TypeInvariant, PTL DEF Spec

(* The loop of Read, asked for one event, keeps nothing before the first      *)
(* entry with the seq it looks for, and nothing after it.                     *)
LEMMA ReadFindsFirst ==
  ASSUME NEW t \in Topics, stream[t] \in Seq(Entries), NEW from \in Nat,
         NEW i \in DOMAIN stream[t],
         \A j \in DOMAIN stream[t] : stream[t][j].seq >= from <=> j >= i
  PROVE  Read(t, from, 1) = <<stream[t][i]>>
<1>. DEFINE log == stream[t]
            n == Len(log)
            D == Seq(Entries)
            Full(kept) == 1 > 0 /\ Len(kept) >= 1
            Step(k, kept) ==
              IF log[k].seq < from \/ Full(kept) THEN kept ELSE Append(kept, log[k])
            Is(g) == g = [k \in 0 .. n |-> IF k = 0 THEN <<>> ELSE
                            IF log[k].seq < from \/ Full(g[k - 1]) THEN g[k - 1]
                            ELSE Append(g[k - 1], log[k])]
            out == CHOOSE g : Is(g)
            h == [k \in 1 .. n |-> [kept \in D |-> Step(k, kept)]]
            S == {k \in 0 .. n : out[k] = IF k < i THEN <<>> ELSE <<log[i]>>}
<1>1. /\ n \in Nat /\ DOMAIN log = 1 .. n /\ i \in 1 .. n
      /\ \A k \in 1 .. n : log[k] \in Entries /\ log[k].seq \in Nat
  <2>1. n \in Nat /\ DOMAIN log = 1 .. n /\ \A k \in 1 .. n : log[k] \in Entries
    BY LenProperties, ElementOfSeq
  <2>. HIDE DEF n, log
  <2>2. \A k \in 1 .. n : log[k].seq \in Nat
    BY <2>1 DEF Entries
  <2>3. i \in 1 .. n
    BY <2>1 DEF log
  <2>. QED BY <2>1, <2>2, <2>3
<1>2. Read(t, from, 1) = out[n]
  BY DEF Read
<1>3. \A k \in 1 .. n : log[k].seq < from <=> k < i
  BY <1>1
<1>. HIDE DEF log, n
<1>4. Is(out)
  <2>1. \A k \in 1 .. n : \A kept \in D : Step(k, kept) \in D
    BY <1>1, AppendProperties
  <2>2. <<>> \in D
    BY EmptySeq
  <2>. HIDE DEF Step, D
  <2>3. h \in [1 .. n -> [D -> D]]
    BY <2>1
  <2>4. PICK g : IsLoop(g, n, D, <<>>, h)
    <3>. DEFINE b == <<>>
    <3>1. b \in D
      BY <2>2
    <3>. HIDE DEF b, h
    <3>2. \E g : IsLoop(g, n, D, b, h)
      BY <1>1, <2>3, <3>1, LoopExists
    <3>. QED BY <3>2 DEF b
  <2>5. g = [k \in 0 .. n |-> IF k = 0 THEN <<>> ELSE Step(k, g[k - 1])]
    <3>1. \A k \in 0 .. n : k # 0 => h[k][g[k - 1]] = Step(k, g[k - 1])
      BY <1>1, <2>4 DEF IsLoop
    <3>. HIDE DEF h
    <3>. QED BY <2>4, <3>1 DEF IsLoop
  <2>6. Is(g)
    BY <2>5 DEF Step
  <2>. HIDE DEF Is
  <2>. QED BY <2>6
<1>5. out[0] = <<>> /\ \A k \in 1 .. n : out[k] = Step(k, out[k - 1])
  <2>. HIDE DEF out, Full
  <2>1. \A k \in 0 .. n : out[k] = IF k = 0 THEN <<>> ELSE Step(k, out[k - 1])
    BY <1>4
  <2>. QED BY <1>1, <2>1
<1>. HIDE DEF out
<1>6. 0 \in S
  BY <1>1, <1>5
<1>7. ASSUME NEW k \in 0 .. n, k < n, k \in S PROVE k + 1 \in S
  <2>1. k + 1 \in 1 .. n /\ out[k + 1] = Step(k + 1, out[k])
    BY <1>1, <1>5, <1>7
  <2>2. out[k] = IF k < i THEN <<>> ELSE <<log[i]>>
    BY <1>7
  <2>3. CASE k + 1 < i
    <3>1. out[k + 1] = out[k] /\ k < i
      BY <1>1, <1>3, <2>1, <2>3
    <3>. QED BY <1>1, <2>1, <2>2, <2>3, <3>1
  <2>4. CASE k + 1 = i
    <3>1. out[k] = <<>> /\ ~ (log[k + 1].seq < from) /\ Len(out[k]) = 0
      BY <1>1, <1>3, <2>1, <2>2, <2>4, EmptySeq
    <3>2. out[k + 1] = Append(<<>>, log[i])
      BY <2>1, <2>4, <3>1
    <3>. QED BY <1>1, <2>1, <2>4, <3>2
  <2>5. CASE k + 1 > i
    <3>1. out[k] = <<log[i]>> /\ Len(out[k]) = 1
      BY <1>1, <2>1, <2>2, <2>5
    <3>2. out[k + 1] = out[k]
      BY <2>1, <3>1
    <3>. QED BY <1>1, <2>1, <2>5, <3>1, <3>2
  <2>. QED BY <1>1, <2>1, <2>3, <2>4, <2>5
<1>8. n \in S
  <2>1. \A k \in 0 .. n : k < n /\ k \in S => k + 1 \in S
    <3>. HIDE DEF S
    <3>. QED BY <1>7
  <2>. HIDE DEF S
  <2>2. \A k \in 0 .. n : k \in S
    BY <1>1, <1>6, <2>1, Induction
  <2>. QED BY <1>1, <2>2
<1>9. out[n] = <<log[i]>>
  BY <1>1, <1>8
<1>. QED BY <1>2, <1>9 DEF log

(* The seq that Publish returned to its caller leads back to the event: Read, *)
(* asked for one event from there, returns it, until its topic expires        *)
(* (store.go:92-115).                                                         *)
THEOREM RedisSeqLeadsBack == Spec => []ReturnedSeqLeadsBack
<1>1. TypeInv /\ ReturnedIsFirst => ReturnedSeqLeadsBack
  <2>1. SUFFICES ASSUME TypeInv, ReturnedIsFirst, NEW e \in returned,
                        <<e.topic, "xadd">> \notin raced
                 PROVE  Read(e.topic, e.seq, 1) = <<e>>
    BY DEF ReturnedSeqLeadsBack
  <2>2. e.topic \in Topics /\ e.seq \in Nat /\ stream[e.topic] \in Seq(Entries)
    BY <2>1 DEF TypeInv, OthersTypeOK, KeysTypeOK, Entries
  <2>3. PICK i \in DOMAIN stream[e.topic] :
          /\ stream[e.topic][i] = e
          /\ \A j \in DOMAIN stream[e.topic] : stream[e.topic][j].seq >= e.seq <=> j >= i
    BY <2>1 DEF ReturnedIsFirst
  <2>. DEFINE t == e.topic
              from == e.seq
  <2>4. t \in Topics /\ stream[t] \in Seq(Entries) /\ from \in Nat /\ i \in DOMAIN stream[t]
        /\ \A j \in DOMAIN stream[t] : stream[t][j].seq >= from <=> j >= i
    BY <2>2, <2>3
  <2>. HIDE DEF t, from
  <2>5. Read(t, from, 1) = <<stream[t][i]>>
    BY <2>4, ReadFindsFirst
  <2>. QED BY <2>3, <2>5 DEF t, from
<1>. QED BY <1>1, ReturnedFirst, TypeInvariant, PTL

================================================================================
