--------------------------------- MODULE MCHub ---------------------------------
(******************************************************************************)
(* The hub by itself, used by publishers that share no lock.  calls numbers   *)
(* the calls of Publish, bounds them with MaxCalls, and is the message that   *)
(* is fanned out.                                                             *)
(******************************************************************************)
EXTENDS Hub, TLC

CONSTANT MaxCalls

ASSUME NoneIsNoCall == None \notin Nat

VARIABLES
  calls,
  owed    \* history: calls whose snapshot held an open subscription, minus
          \* the messages its consumer received; 0 once it is closed

mcVars == <<hubVars, calls, owed>>

Init ==
  /\ HubInit
  /\ calls = 0
  /\ owed = [s \in Subs |-> 0]

Call(p, t) ==
  /\ calls < MaxCalls
  /\ Snapshot(p, t, calls + 1)
  /\ calls' = calls + 1
  /\ owed' = [s \in Subs |->
               IF s \in registry[t] /\ ~ Closed(s) THEN owed[s] + 1 ELSE owed[s]]

Step(p) == (Visit(p) \/ PublishReturn(p)) /\ UNCHANGED <<calls, owed>>

Consumer(s) ==
  /\ \/ \E t \in Topics : HubSubscribe(s, t) /\ UNCHANGED owed
     \/ CloseSwap(s) /\ owed' = [owed EXCEPT ![s] = 0]
     \/ (CloseRemove(s) \/ CloseDone(s)) /\ UNCHANGED owed
     \/ Receive(s) /\ owed' = [owed EXCEPT ![s] = IF Closed(s) THEN 0 ELSE @ - 1]
  /\ UNCHANGED calls

Next ==
  \/ \E p \in Publishers : Step(p) \/ \E t \in Topics : Call(p, t)
  \/ \E s \in Subs : Consumer(s)

(* Only a publisher inside Publish is obliged to move: consumers may never    *)
(* read or close.                                                             *)
Spec == Init /\ [][Next]_mcVars /\ \A p \in Publishers : WF_mcVars(Step(p))

(* While a subscription is open, each call of Publish whose snapshot held it  *)
(* ends exactly once: in its channel, in its drop counter, or still on the    *)
(* way; nothing is lost uncounted and nothing is offered twice, whatever the  *)
(* publishers and the consumer interleave (hub.go:99-123).                    *)
OffersConserved ==
  \A s \in Subs : phase[s] = "open" =>
    owed[s] = Len(chan[s]) + lag[s]
              + Cardinality({p \in Publishers : s \in list[p]})
              + Cardinality({p \in Publishers : target[p] = s})

================================================================================
