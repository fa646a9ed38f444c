------------------------------ MODULE RedisIngest ------------------------------
(******************************************************************************)
(* Ingest over Redis: the handlers of POST /publish and POST /webhook         *)
(* (internal/transport/publish.go), Broker.Publish on the Redis store, and    *)
(* the archiver, with a provider that may deliver anything twice.             *)
(*                                                                            *)
(* A command to Redis may fail without being executed, or be executed while   *)
(* its reply is lost (a broken connection, a caller that hung up); go-redis   *)
(* repeats an INCR whose reply was lost, so that it counts twice, and does    *)
(* not repeat a transaction.  The server process may crash and start again;   *)
(* Redis keeps its keys.  All topics are pull requests, whose reducer rejects *)
(* nothing.  There are no subscribers here: Broker models the fan-out.        *)
(******************************************************************************)
EXTENDS RedisStore, GitHub, FiniteSets

CONSTANTS
  Handlers,    \* goroutines that serve a request
  Deliveries,  \* requests: payloads of GitHub, or event = "publish"
  MaxTries,    \* bound on the attempts to deliver
  MaxFaults,   \* bound on failed commands and crashes
  MaxSweeps    \* bound on the topics the archiver deletes

ASSUME NoneIsFree == None \notin Handlers \cup Topics

VARIABLES
  ingest,    \* holder of Broker.ingest
  pc,        \* the next command of a handler's Publish, see Commands
  request,   \* the delivery a handler serves and which attempt it is
  left,      \* events it has yet to publish; the first one is in Publish
  seq,       \* the seq INCR returned
  next,      \* the state its reducer call returned
  victim,    \* the topic the archiver found aged
  tries,     \* attempts so far
  accepted,  \* deliveries answered with success, with the attempt
  faults, sweeps,
  returned,  \* history: events still stored whose Publish returned no error
  expired,   \* history: ids of the events the archiver deleted
  raced,     \* history: <<topic, command>> deleted under a Publish
  hit        \* history: topics whose state missed a step of Publish by a fault

handlerVars == <<ingest, pc, request, left, seq, next>>
boundVars == <<tries, accepted, faults, sweeps>>
historyVars == <<returned, expired, raced, hit>>
vars == <<redisVars, handlerVars, victim, boundVars, historyVars>>

Commands == {"incr", "xadd", "get", "set", "hset"}

Init ==
  /\ RedisInit
  /\ ingest = None
  /\ pc = [h \in Handlers |-> "idle"]
  /\ request = [h \in Handlers |-> None]
  /\ left = [h \in Handlers |-> <<>>]
  /\ seq = [h \in Handlers |-> 0]
  /\ next = [h \in Handlers |-> <<>>]
  /\ victim = None
  /\ tries = 0
  /\ accepted = {}
  /\ faults = 0 /\ sweeps = 0
  /\ returned = {} /\ expired = {} /\ raced = {} /\ hit = {}

Topic(h) == Head(left[h]).topic

(* The event in Publish.  Its id is new in every attempt, as core.NewID makes *)
(* it: the handler passes none.                                               *)
Entry(h) == [id |-> <<request[h], Topic(h)>>, topic |-> Topic(h), seq |-> seq[h]]

(* How a command ends: replied; failed, not executed; lost, executed but not  *)
(* replied.  Exec is its effect.                                              *)
Outcome(o) == o \in {"replied", "failed", "lost"} /\ (o # "replied" => faults < MaxFaults)
               /\ faults' = faults + (IF o = "replied" THEN 0 ELSE 1)

Exec(o, effect) == IF o = "failed" THEN UNCHANGED redisVars ELSE effect

--------------------------------------------------------------------------------
(* The handlers                                                               *)

Wanted(d) == IF d.event = "publish" THEN One(d.num, "any") ELSE Transform(d)

(* Only valid topics occur.                                                   *)
Wants == [topic : Topics, type : STRING]

ASSUME DeliveriesAssumption == \A d \in Deliveries : Wanted(d).events \in Seq(Wants)

(* A payload names no pull request twice, so that the attempt and the topic   *)
(* identify an event.                                                         *)
ASSUME DistinctTopics ==
  \A d \in Deliveries : \A i, j \in DOMAIN Wanted(d).events :
    Wanted(d).events[i].topic = Wanted(d).events[j].topic => i = j

ASSUME PayloadsAssumption == \A d \in Deliveries : d.prs \in Seq(Nat)

Idle(h) ==
  /\ pc' = [pc EXCEPT ![h] = "idle"]
  /\ request' = [request EXCEPT ![h] = None]
  /\ left' = [left EXCEPT ![h] = <<>>]
  /\ seq' = [seq EXCEPT ![h] = 0]
  /\ next' = [next EXCEPT ![h] = <<>>]

(* A request is transformed; one that cannot be is refused, one without       *)
(* events accepted, at once.  The provider may repeat any delivery: it may    *)
(* have got no answer, or not the one that was sent.                          *)
Deliver(h, d) ==
  /\ pc[h] = "idle"
  /\ tries < MaxTries
  /\ tries' = tries + 1
  /\ IF Wanted(d).ok /\ Wanted(d).events # <<>>
     THEN /\ request' = [request EXCEPT ![h] = <<d, tries'>>]
          /\ left' = [left EXCEPT ![h] = Wanted(d).events]
          /\ pc' = [pc EXCEPT ![h] = "lock"]
          /\ UNCHANGED accepted
     ELSE /\ accepted' = IF Wanted(d).ok THEN accepted \cup {<<d, tries'>>} ELSE accepted
          /\ UNCHANGED <<request, left, pc>>
  /\ UNCHANGED <<redisVars, ingest, seq, next, victim, faults, sweeps, historyVars>>

(* Mutant: no mutual exclusion.                                               *)
Lock_Shared(h) ==
  /\ pc[h] = "lock"
  /\ ingest' = h
  /\ pc' = [pc EXCEPT ![h] = "incr"]
  /\ UNCHANGED <<redisVars, request, left, seq, next, victim, boundVars, historyVars>>

Lock(h) ==
  /\ pc[h] = "lock"
  /\ ingest = None
  /\ ingest' = h
  /\ pc' = [pc EXCEPT ![h] = "incr"]
  /\ UNCHANGED <<redisVars, request, left, seq, next, victim, boundVars, historyVars>>

(* Mutant: an event that failed is left out and the rest is published.        *)
Refuse_GoesOn(h) ==
  /\ ingest' = None
  /\ IF Len(left[h]) > 1
     THEN /\ pc' = [pc EXCEPT ![h] = "lock"]
          /\ left' = [left EXCEPT ![h] = Tail(@)]
          /\ UNCHANGED <<request, seq, next>>
     ELSE Idle(h)

(* Publish returned an error: the handler answers 400 and leaves the rest.    *)
Refuse(h) == ingest' = None /\ Idle(h)

(* INCR: also repeated by the client library after a lost reply.              *)
AppendIncr(h) ==
  /\ pc[h] = "incr"
  /\ \E o \in {"replied", "failed", "lost"} :
       /\ Outcome(o)
       /\ Exec(o, Incr(Topic(h)))
       /\ IF o = "replied"
          THEN /\ seq' = [seq EXCEPT ![h] = seqKey'[Topic(h)]]
               /\ pc' = [pc EXCEPT ![h] = "xadd"]
               /\ UNCHANGED <<ingest, request, left, next>>
          ELSE \/ Refuse(h)
               \/ o = "lost" /\ UNCHANGED handlerVars
  /\ UNCHANGED <<victim, tries, accepted, sweeps, historyVars>>

(* Mutant: an error of the transaction is not returned.                       *)
AppendXadd_Unchecked(h) ==
  /\ pc[h] = "xadd"
  /\ \E o \in {"replied", "failed", "lost"} :
       /\ Outcome(o)
       /\ Exec(o, Pipeline(Entry(h)))
       /\ pc' = [pc EXCEPT ![h] = "get"]
       /\ UNCHANGED <<ingest, request, left, seq, next, hit>>
  /\ UNCHANGED <<victim, tries, accepted, sweeps, returned, expired, raced>>

(* The transaction.                                                           *)
AppendXadd(h) ==
  /\ pc[h] = "xadd"
  /\ \E o \in {"replied", "failed", "lost"} :
       /\ Outcome(o)
       /\ Exec(o, Pipeline(Entry(h)))
       /\ IF o = "replied"
          THEN pc' = [pc EXCEPT ![h] = "get"] /\ UNCHANGED <<ingest, request, left, seq, next>>
          ELSE Refuse(h)
       /\ hit' = IF o = "lost" THEN hit \cup {Topic(h)} ELSE hit
  /\ UNCHANGED <<victim, tries, accepted, sweeps, returned, expired, raced>>

(* GetState, whose error is taken for "no state", and the reducer.            *)
GetState(h) ==
  /\ pc[h] = "get"
  /\ \E o \in {"replied", "failed"} :
       /\ Outcome(o)
       /\ next' = [next EXCEPT ![h] =
                     Append(IF o = "failed" THEN <<>> ELSE saved[Topic(h)], Entry(h))]
       /\ hit' = IF o = "failed" THEN hit \cup {Topic(h)} ELSE hit
  /\ pc' = [pc EXCEPT ![h] = "set"]
  /\ UNCHANGED <<redisVars, ingest, request, left, seq, victim, tries, accepted, sweeps,
                 returned, expired, raced>>

(* SetState, whose error is discarded.                                        *)
SaveState(h) ==
  /\ pc[h] = "set"
  /\ \E o \in {"replied", "failed", "lost"} :
       /\ Outcome(o)
       /\ Exec(o, SetState(Topic(h), next[h]))
       /\ hit' = IF o = "failed" THEN hit \cup {Topic(h)} ELSE hit
  /\ pc' = [pc EXCEPT ![h] = "hset"]
  /\ UNCHANGED <<ingest, request, left, seq, next, victim, tries, accepted, sweeps,
                 returned, expired, raced>>

(* UpsertMeta, likewise; then Publish returns and the handler goes on to its  *)
(* next event, or answers 202 (200 for /publish).                             *)
SaveMeta(h) ==
  /\ pc[h] = "hset"
  /\ \E o \in {"replied", "failed", "lost"} :
       /\ Outcome(o)
       /\ Exec(o, UpsertMeta(Topic(h)))
  /\ returned' = IF Entry(h).id \in expired THEN returned ELSE returned \cup {Entry(h)}
  /\ ingest' = None
  /\ IF Len(left[h]) > 1
     THEN /\ pc' = [pc EXCEPT ![h] = "lock"]
          /\ left' = [left EXCEPT ![h] = Tail(@)]
          /\ seq' = [seq EXCEPT ![h] = 0]
          /\ next' = [next EXCEPT ![h] = <<>>]
          /\ UNCHANGED <<request, accepted>>
     ELSE Idle(h) /\ accepted' = accepted \cup {request[h]}
  /\ UNCHANGED <<victim, tries, sweeps, expired, raced, hit>>

PublishStep(h) ==
  Lock(h) \/ AppendIncr(h) \/ AppendXadd(h) \/ GetState(h) \/ SaveState(h) \/ SaveMeta(h)

--------------------------------------------------------------------------------
(* The archiver and crashes                                                   *)

(* A sweep finds a listed topic aged.  Any time may have passed since its     *)
(* last event; without a last_event_at it is not looked at further.  Nobody   *)
(* else deletes topics, so what was listed still is.                          *)
SweepCheck(t) ==
  /\ victim = None
  /\ sweeps < MaxSweeps
  /\ t \in topics
  /\ meta[t].last_seq # 0
  /\ victim' = t
  /\ sweeps' = sweeps + 1
  /\ UNCHANGED <<redisVars, handlerVars, tries, accepted, faults, historyVars>>

(* Handlers that are past their INCR when the topic is deleted.  A deletion   *)
(* that meets none takes all traces of earlier ones along.                    *)
Under(t) == {h \in Handlers : pc[h] \in Commands \ {"incr"} /\ Topic(h) = t}

SweepDelete ==
  /\ victim # None
  /\ \E o \in {"replied", "failed", "lost"} :
       /\ Outcome(o)
       /\ Exec(o, DeleteTopic(victim))
       /\ IF o = "failed" THEN UNCHANGED historyVars
          ELSE /\ expired' = expired \cup {stream[victim][i].id : i \in DOMAIN stream[victim]}
               /\ returned' = {e \in returned : e.topic # victim}
               /\ raced' = {r \in raced : r[1] # victim} \cup {<<victim, pc[h]>> : h \in Under(victim)}
               /\ hit' = hit \ {victim}
  /\ victim' = None
  /\ UNCHANGED <<handlerVars, tries, accepted, sweeps>>

(* The server process dies and is started again.                              *)
Crash ==
  /\ faults < MaxFaults
  /\ faults' = faults + 1
  /\ ingest' = None
  /\ pc' = [h \in Handlers |-> "idle"]
  /\ request' = [h \in Handlers |-> None]
  /\ left' = [h \in Handlers |-> <<>>]
  /\ seq' = [h \in Handlers |-> 0]
  /\ next' = [h \in Handlers |-> <<>>]
  /\ victim' = None
  /\ hit' = hit \cup {Topic(h) : h \in {k \in Handlers : pc[k] \in {"get", "set"}}}
  /\ UNCHANGED <<redisVars, tries, accepted, sweeps, returned, expired, raced>>

Next ==
  \/ \E h \in Handlers : PublishStep(h) \/ \E d \in Deliveries : Deliver(h, d)
  \/ \E t \in Topics : SweepCheck(t)
  \/ SweepDelete
  \/ Crash

Spec == Init /\ [][Next]_vars

--------------------------------------------------------------------------------
(* Properties                                                                 *)

Ids(t) == {stream[t][i].id : i \in DOMAIN stream[t]}
Entered == expired \cup UNION {Ids(t) : t \in Topics}

(* The pull requests a payload is about, read off the payload.                *)
About(d) ==
  CASE d.event = "check_run" -> {n \in ToSet(d.prs) : d.action = "completed" /\ n # 0}
    [] d.event = "issue_comment" -> {n \in {d.num} : d.action = "created" /\ d.isPR}
    [] d.event = "pull_request_review" -> {n \in {d.num} : d.action = "submitted" /\ n # 0}
    [] d.event = "pull_request" -> {n \in {d.num} : d.action \in DOMAIN prTypes \cup {"closed"}}
    [] d.event = "publish" -> {d.num}
    [] OTHER -> {}

(* A delivery is acknowledged only when an event for every pull request it is *)
(* about is stored, and nothing but an expiry takes them away again: not a    *)
(* crash, not a fault, not a second attempt (publish.go:78-87).               *)
AcceptedIsStored ==
  \A a \in accepted : \A n \in About(a[1]) : <<a, n>> \in Entered

(* An attempt that fails in the middle has stored the events before the       *)
(* failing one, possibly that one, and none after it; no attempt stores an    *)
(* event twice (publish.go:78-85, store.go:54-90).                            *)
PrefixStored ==
  /\ \A id \in Entered :
       LET es == Wanted(id[1][1]).events
       IN  \A i, j \in DOMAIN es : i < j /\ es[j].topic = id[2] => <<id[1], es[i].topic>> \in Entered
  /\ \A t \in Topics : Cardinality(Ids(t)) = Len(stream[t])

(* "Streams are chronological and the seq is monotonic" (store.go:94-95), and *)
(* no seq is given twice, with gaps where a Publish failed: unless the topic  *)
(* was deleted between the INCR and the XADD of a Publish.                    *)
SeqsIncrease ==
  \A t \in Topics : <<t, "xadd">> \notin raced =>
    /\ \A i, j \in DOMAIN stream[t] : i < j => stream[t][i].seq < stream[t][j].seq
    /\ \A i \in DOMAIN stream[t] : stream[t][i].seq <= seqKey[t]

(* The seq Publish returned leads back to its event: Read from there yields   *)
(* it first, whatever failed around it, as long as the topic is not deleted.  *)
ReturnedSeqLeadsBack ==
  \A e \in returned : <<e.topic, "xadd">> \notin raced => Read(e.topic, e.seq, 1) = <<e>>

(* The keys of a topic come and go together: it is listed exactly while it    *)
(* has a stream, its meta names the last entry, and so the archiver finds it; *)
(* without a stream there is neither state nor meta, unless the topic was     *)
(* deleted while a Publish had still to write them (store.go:73-88, 241-247). *)
KeysTogether ==
  \A t \in Topics :
    /\ t \in topics <=> stream[t] # <<>>
    /\ t \in topics => meta[t].exists /\ meta[t].last_seq = Latest(t, 1)[1].seq
    /\ t \notin topics /\ (\A c \in Commands : <<t, c>> \notin raced) =>
         saved[t] = <<>> /\ ~ meta[t].exists

(* The saved state is the fold of the stream, but for the event in Publish,   *)
(* unless the topic missed a GetState, a SetState or the reply to its XADD,   *)
(* lost the process before the SetState, or was deleted under a Publish.      *)
(* Expiry heals all of it (broker.go:58-68).                                  *)
StateIsFoldUnlessHit ==
  \A t \in Topics : t \notin hit /\ (\A c \in Commands : <<t, c>> \notin raced) =>
    LET unsaved == \E h \in Handlers : pc[h] \in {"get", "set"} /\ Topic(h) = t
    IN  saved[t] = (IF unsaved THEN Front(stream[t]) ELSE stream[t])

================================================================================
