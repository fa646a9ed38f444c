---------------------------------- MODULE Hub ----------------------------------
(******************************************************************************)
(* The in-process fan-out registry of internal/hub/hub.go.                    *)
(*                                                                            *)
(* Each subscription owns a channel of capacity Buf, a drop counter (lag) and *)
(* a close protocol of three steps (closed flag, registry removal, closing of *)
(* the done channel).  A call of Publish snapshots the registry under the     *)
(* read lock, then visits the snapshot without any lock: it loads the closed  *)
(* flag of a subscription in one step and executes the select in another, so  *)
(* everything else may happen in between.                                     *)
(*                                                                            *)
(* The actions take the publisher and the event as arguments and are reused   *)
(* by Broker, which calls Publish under its ingest lock.  HubSpec closes the  *)
(* module on its own, with publishers that share no lock.                     *)
(******************************************************************************)
EXTENDS Core, FiniteSets

CONSTANTS
  Subs,        \* identities of *Subscription values, each used once
  Publishers,  \* goroutines that call Publish
  Buf          \* Hub.buf, 256 in the code

ASSUME BufAssumption == Buf \in Nat \ {0}
ASSUME NoneAssumption == None \notin Topics \cup Subs \cup Publishers

VARIABLES
  registry,  \* Hub.topics: topic -> the subscriptions registered for it
  subTopic,  \* Subscription.Topic, None before Subscribe
  phase,     \* life of a Subscription, see Phases
  chan,      \* Subscription.C, oldest element first
  lag,       \* Subscription.lag
  job,       \* the event a publisher is fanning out, None outside Publish
  list,      \* the part of Publish's snapshot that is still to be visited
  target     \* subscription whose closed flag was just loaded as false

hubVars == <<registry, subTopic, phase, chan, lag, job, list, target>>

\* new: not created; open: registered; closing: closed flag set;
\* removed: also out of the registry; done: also the done channel closed.
Phases == {"new", "open", "closing", "removed", "done"}

Closed(s) == phase[s] \in {"closing", "removed", "done"}

HubInit ==
  /\ registry = [t \in Topics |-> {}]
  /\ subTopic = [s \in Subs |-> None]
  /\ phase = [s \in Subs |-> "new"]
  /\ chan = [s \in Subs |-> <<>>]
  /\ lag = [s \in Subs |-> 0]
  /\ job = [p \in Publishers |-> None]
  /\ list = [p \in Publishers |-> {}]
  /\ target = [p \in Publishers |-> None]

--------------------------------------------------------------------------------
(* Hub.Subscribe, whole under the write lock.                                 *)
HubSubscribe(s, t) ==
  /\ phase[s] = "new"
  /\ phase' = [phase EXCEPT ![s] = "open"]
  /\ subTopic' = [subTopic EXCEPT ![s] = t]
  /\ registry' = [registry EXCEPT ![t] = @ \cup {s}]
  /\ UNCHANGED <<chan, lag, job, list, target>>

(* Subscription.Close: closed.Swap(true) ...                                  *)
CloseSwap(s) ==
  /\ phase[s] = "open"
  /\ phase' = [phase EXCEPT ![s] = "closing"]
  /\ UNCHANGED <<registry, subTopic, chan, lag, job, list, target>>

(* Mutant: hub.remove finds nothing to delete.                                *)
CloseRemove_Leaks(s) ==
  /\ phase[s] = "closing"
  /\ phase' = [phase EXCEPT ![s] = "removed"]
  /\ UNCHANGED <<registry, subTopic, chan, lag, job, list, target>>

(* ... then hub.remove under the write lock ...                               *)
CloseRemove(s) ==
  /\ phase[s] = "closing"
  /\ phase' = [phase EXCEPT ![s] = "removed"]
  /\ registry' = [registry EXCEPT ![subTopic[s]] = @ \ {s}]
  /\ UNCHANGED <<subTopic, chan, lag, job, list, target>>

(* ... then close(done).                                                      *)
CloseDone(s) ==
  /\ phase[s] = "removed"
  /\ phase' = [phase EXCEPT ![s] = "done"]
  /\ UNCHANGED <<registry, subTopic, chan, lag, job, list, target>>

(* Publish: the snapshot of the registry, under the read lock.                *)
Snapshot(p, t, m) ==
  /\ job[p] = None
  /\ job' = [job EXCEPT ![p] = m]
  /\ list' = [list EXCEPT ![p] = registry[t]]
  /\ UNCHANGED <<registry, subTopic, phase, chan, lag, target>>

(* The closed flag is loaded; a closed subscription is passed over.           *)
SkipClosed(p, s) ==
  /\ s \in list[p]
  /\ target[p] = None
  /\ Closed(s)
  /\ list' = [list EXCEPT ![p] = @ \ {s}]
  /\ UNCHANGED <<registry, subTopic, phase, chan, lag, job, target>>

LoadOpen(p, s) ==
  /\ s \in list[p]
  /\ target[p] = None
  /\ ~ Closed(s)
  /\ list' = [list EXCEPT ![p] = @ \ {s}]
  /\ target' = [target EXCEPT ![p] = s]
  /\ UNCHANGED <<registry, subTopic, phase, chan, lag, job>>

(* The select of Publish: when both the send and <-done are ready Go picks    *)
(* either; default is taken only when neither is.                             *)
Send(p) ==
  /\ target[p] # None
  /\ Len(chan[target[p]]) < Buf
  /\ chan' = [chan EXCEPT ![target[p]] = Append(@, job[p])]
  /\ target' = [target EXCEPT ![p] = None]
  /\ UNCHANGED <<registry, subTopic, phase, lag, job, list>>

SeeDone(p) ==
  /\ target[p] # None
  /\ phase[target[p]] = "done"
  /\ target' = [target EXCEPT ![p] = None]
  /\ UNCHANGED <<registry, subTopic, phase, chan, lag, job, list>>

(* Mutant: the counter is not incremented.                                    *)
Drop_Uncounted(p) ==
  /\ target[p] # None
  /\ Len(chan[target[p]]) = Buf
  /\ phase[target[p]] # "done"
  /\ target' = [target EXCEPT ![p] = None]
  /\ UNCHANGED <<registry, subTopic, phase, chan, lag, job, list>>

(* Mutant: the select has no default case.                                    *)
Drop_Waits(p) ==
  /\ FALSE
  /\ UNCHANGED hubVars

Drop(p) ==
  /\ target[p] # None
  /\ Len(chan[target[p]]) = Buf
  /\ phase[target[p]] # "done"
  /\ lag' = [lag EXCEPT ![target[p]] = @ + 1]
  /\ target' = [target EXCEPT ![p] = None]
  /\ UNCHANGED <<registry, subTopic, phase, chan, job, list>>

(* One step of the loop over the snapshot.                                    *)
Visit(p) ==
  \/ \E s \in Subs : SkipClosed(p, s) \/ LoadOpen(p, s)
  \/ Send(p)
  \/ SeeDone(p)
  \/ Drop(p)

FanoutDone(p) == job[p] # None /\ list[p] = {} /\ target[p] = None

PublishReturn(p) ==
  /\ FanoutDone(p)
  /\ job' = [job EXCEPT ![p] = None]
  /\ UNCHANGED <<registry, subTopic, phase, chan, lag, list, target>>

(* A consumer takes the head of the channel (<-sub.C).                        *)
Receive(s) ==
  /\ chan[s] # <<>>
  /\ chan' = [chan EXCEPT ![s] = Tail(@)]
  /\ UNCHANGED <<registry, subTopic, phase, lag, job, list, target>>

Close(s) == CloseSwap(s) \/ CloseRemove(s) \/ CloseDone(s)

--------------------------------------------------------------------------------
(* Properties.                                                                *)

(* Type invariant; M is the set of what publishers fan out.                   *)
HubTypeOK(M) ==
  /\ registry \in [Topics -> SUBSET Subs]
  /\ subTopic \in [Subs -> Topics \cup {None}]
  /\ phase \in [Subs -> Phases]
  /\ chan \in [Subs -> Seq(M)]
  /\ \A s \in Subs : Len(chan[s]) <= Buf
  /\ lag \in [Subs -> Nat]
  /\ job \in [Publishers -> M \cup {None}]
  /\ list \in [Publishers -> SUBSET Subs]
  /\ target \in [Publishers -> Subs \cup {None}]

(* A subscription is in the registry, and in no other topic's entry, from     *)
(* Subscribe until hub.remove: none is leaked and none vanishes while open    *)
(* (hub.go:34-40, 63-94).                                                     *)
RegistryExact ==
  \A s \in Subs, t \in Topics :
    s \in registry[t] <=> subTopic[s] = t /\ phase[s] \in {"open", "closing"}

(* A call of Publish whose snapshot raced with Close may still deliver after  *)
(* done is closed; once those calls are through with a subscription, no later *)
(* call ever comes back to it (hub.go:18-19, 34-40, 99-106).                  *)
Referenced(s) == \E p \in Publishers : s \in list[p] \/ target[p] = s

QuietAfterClose ==
  [][\A s \in Subs : phase[s] = "done" /\ ~ Referenced(s) =>
       ~ Referenced(s)' /\ Len(chan'[s]) <= Len(chan[s])]_hubVars

(* A call of Publish returns whatever the consumers do: a full channel makes  *)
(* it drop, never wait (hub.go:96-98).                                        *)
PublishNeverBlocks == \A p \in Publishers : job[p] # None ~> job[p] = None

================================================================================
