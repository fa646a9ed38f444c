-------------------------------- MODULE Archiver -------------------------------
(******************************************************************************)
(* internal/archiver/archiver.go next to the broker, on one memory store.     *)
(*                                                                            *)
(* A sweep lists the topics, then reads the meta of each in one store call    *)
(* and deletes an aged topic in another.  It does not take the ingest lock,   *)
(* so both calls interleave with the steps of Publish.                        *)
(*                                                                            *)
(* Time is a bounded counter.  A handler stamps OccurredAt before Publish     *)
(* waits for the lock; TopicMeta.LastEventAt is the stamp of the event that   *)
(* was appended last, and is the zero time while a topic has no events.       *)
(******************************************************************************)
EXTENDS Broker

CONSTANTS
  ArchiverTTL,  \* Archiver.DefaultTTL, for topics without a TTL of their own
  MaxClock      \* bound on the clock

ASSUME ArchiverTTLAssumption == ArchiverTTL \in Nat
ASSUME MaxClockAssumption == MaxClock \in Nat

VARIABLES
  clock,     \* time.Now()
  now,       \* the time the sweep took at its start
  todo,      \* listed topics the sweep has not looked at
  victim,    \* the topic found aged, to be deleted next
  raced,     \* history: topics deleted under a Publish that had appended
  checked    \* history: length of the victim's stream when it was found aged

archVars == <<clock, now, todo, victim, raced, checked>>
vars == <<brokerVars, archVars>>

ArchInit ==
  /\ BrokerInit
  /\ clock = 1
  /\ now = 0
  /\ todo = {}
  /\ victim = None
  /\ raced = {}
  /\ checked = 0

--------------------------------------------------------------------------------
Tick ==
  /\ clock < MaxClock
  /\ clock' = clock + 1
  /\ UNCHANGED <<brokerVars, now, todo, victim, raced, checked>>

HasEvents(t) == events[t] # <<>>
LastEventAt(t) == events[t][Len(events[t])].at
TTL(t) == IF ttl[t] = 0 THEN ArchiverTTL ELSE ttl[t]
AgedAt(t, time) == HasEvents(t) /\ time - LastEventAt(t) > TTL(t)

(* The ticker fires when no sweep is running: ListTopics and time.Now().      *)
SweepStart ==
  /\ todo = {} /\ victim = None
  /\ todo' = known
  /\ now' = clock
  /\ UNCHANGED <<brokerVars, clock, victim, raced, checked>>

(* Mutant: the age is not compared with the TTL.                              *)
SweepCheck_NoTTL(t) ==
  /\ victim = None
  /\ t \in todo
  /\ todo' = todo \ {t}
  /\ victim' = IF t \in known /\ HasEvents(t) THEN t ELSE None
  /\ checked' = Len(events[t])
  /\ UNCHANGED <<brokerVars, clock, now, raced>>

(* Mutant: a topic that is not aged ends the sweep.                           *)
SweepCheck_GivesUp(t) ==
  /\ victim = None
  /\ t \in todo
  /\ todo' = IF t \in known /\ AgedAt(t, now) THEN todo \ {t} ELSE {}
  /\ victim' = IF t \in known /\ AgedAt(t, now) THEN t ELSE None
  /\ checked' = Len(events[t])
  /\ UNCHANGED <<brokerVars, clock, now, raced>>

(* GetMeta and the comparison; a topic that is gone meanwhile is skipped.     *)
SweepCheck(t) ==
  /\ victim = None
  /\ t \in todo
  /\ todo' = todo \ {t}
  /\ victim' = IF t \in known /\ AgedAt(t, now) THEN t ELSE None
  /\ checked' = Len(events[t])
  /\ UNCHANGED <<brokerVars, clock, now, raced>>

(* DeleteTopic.                                                               *)
InPublish(t) ==
  \E p \in Publishers :
    pc[p] \in {"apply", "save", "meta", "fanout", "sending"} /\ cur[p].topic = t

SweepDelete ==
  /\ victim # None
  /\ StoreDeleteTopic(victim)
  /\ victim' = None
  /\ raced' = IF InPublish(victim) THEN raced \cup {victim} ELSE raced
  /\ UNCHANGED <<hubVars, publishVars, subscribeVars, historyVars, clock, now, todo, checked>>

SweepStep == SweepStart \/ (\E t \in Topics : SweepCheck(t)) \/ SweepDelete

(* Subscriptions only read the store and take no part here.                   *)
ArchNext ==
  \/ Tick
  \/ SweepStep
  \/ \E p \in Publishers :
       /\ \/ \E t \in Topics : \E ok \in Outcomes(t) : PublishCall(p, t, ok, clock)
          \/ Lock(p)
          \/ PublishStep(p)
       /\ UNCHANGED archVars

(* The archiver's goroutine keeps running and its ticker keeps firing;        *)
(* publishers are scheduled as in Broker.                                     *)
ArchFairness ==
  /\ WF_vars(SweepStep)
  /\ \A p \in Publishers : /\ WF_vars(PublishStep(p) /\ UNCHANGED archVars)
                           /\ SF_vars(Lock(p) /\ UNCHANGED archVars)

ArchSpec == ArchInit /\ [][ArchNext]_vars /\ ArchFairness

--------------------------------------------------------------------------------
(* Properties                                                                 *)

(* As long as no topic was deleted between the append and the end of a        *)
(* Publish, expiry is harmless to the derived state: it vanishes with the     *)
(* stream, and the stream that restarts at 1 is folded from nothing           *)
(* (archiver.go:47-60 against broker.go:58-71).                               *)
StateIsFoldUnlessRaced == \A t \in Topics \ raced : FoldOf(state[t], Saved(t))

(* The race between check and delete is the only way to lose a topic that is  *)
(* not aged: a sweep deletes one only if events were appended to it after the *)
(* sweep had found it aged (archiver.go:48-57).  This needs a DefaultTTL of   *)
(* the archiver not below the broker's: else a topic judged by the former     *)
(* before its first UpsertMeta is judged by the longer one at its deletion.   *)
FreshLostOnlyByRace ==
  [][\A t \in Topics :
       HasEvents(t) /\ events'[t] = <<>> /\ ~ AgedAt(t, clock) => Len(events[t]) > checked]_vars

(* An aged topic is eventually deleted, or revived by a new event, whatever   *)
(* publishers do meanwhile (archiver.go:24-66).                               *)
AgedTopicsExpire == \A t \in Topics : AgedAt(t, clock) ~> ~ AgedAt(t, clock)

================================================================================
