------------------------------ MODULE MemoryStore ------------------------------
(******************************************************************************)
(* The in-memory implementation of store.Store,                               *)
(* internal/store/memory/store.go.  Every method holds the store's mutex from *)
(* beginning to end, so each is one step.                                     *)
(*                                                                            *)
(* A reducer's state is represented by the sequence of the events it was      *)
(* applied to: the state of any deterministic reducer is a function of that   *)
(* sequence, and two histories the sequence tells apart are told apart by     *)
(* some reducer.  <<>> stands for the nil state.                              *)
(******************************************************************************)
EXTENDS Core

CONSTANT
  DefaultTTL   \* Broker.DefaultTTL, written into TopicMeta.TTL

ASSUME TTLAssumption == DefaultTTL \in Nat

VARIABLES
  known,   \* the keys of Store.topics
  events,  \* topicData.events
  state,   \* topicData.state
  ttl      \* topicData.meta.TTL, 0 when unset

storeVars == <<known, events, state, ttl>>

StoreInit ==
  /\ known = {}
  /\ events = [t \in Topics |-> <<>>]
  /\ state = [t \in Topics |-> <<>>]
  /\ ttl = [t \in Topics |-> 0]

--------------------------------------------------------------------------------
(* Append creates the topic on demand and numbers the event with the length   *)
(* of the slice.  The caller passes the event without its seq.                *)
NextSeq(t) == Len(events[t]) + 1

StoreAppend(t, e) ==
  /\ known' = known \cup {t}
  /\ events' = [events EXCEPT ![t] = Append(@, [e EXCEPT !.seq = NextSeq(t)])]
  /\ UNCHANGED <<state, ttl>>

(* SetState goes through get, so it too creates the topic on demand.          *)
StoreSetState(t, st) ==
  /\ known' = known \cup {t}
  /\ state' = [state EXCEPT ![t] = st]
  /\ UNCHANGED <<events, ttl>>

(* UpsertMeta likewise; a TTL of 0 leaves the stored one alone.               *)
StoreUpsertMeta(t) ==
  /\ known' = known \cup {t}
  /\ ttl' = IF DefaultTTL = 0 THEN ttl ELSE [ttl EXCEPT ![t] = DefaultTTL]
  /\ UNCHANGED <<events, state>>

(* Mutant: DeleteTopic forgets the state.                                     *)
StoreDeleteTopic_KeepsState(t) ==
  /\ known' = known \ {t}
  /\ events' = [events EXCEPT ![t] = <<>>]
  /\ ttl' = [ttl EXCEPT ![t] = 0]
  /\ UNCHANGED state

(* DeleteTopic drops events, state and meta in one step, and is idempotent.   *)
StoreDeleteTopic(t) ==
  /\ known' = known \ {t}
  /\ events' = [events EXCEPT ![t] = <<>>]
  /\ state' = [state EXCEPT ![t] = <<>>]
  /\ ttl' = [ttl EXCEPT ![t] = 0]

--------------------------------------------------------------------------------
(* Read: sort.Search finds the first event with Seq >= from, limit 0.         *)
SearchSeq(t, from) ==
  CHOOSE i \in 1 .. Len(events[t]) + 1 :
    /\ \A j \in 1 .. i - 1 : events[t][j].seq < from
    /\ i <= Len(events[t]) => events[t][i].seq >= from

Read(t, from) == SubSeq(events[t], SearchSeq(t, from), Len(events[t]))

(* Latest: the last n events; n = 0 means all of them.                        *)
Latest(t, n) ==
  IF n > 0 /\ Len(events[t]) > n
  THEN SubSeq(events[t], Len(events[t]) - n + 1, Len(events[t]))
  ELSE events[t]

(* GetState returns nil and ErrNotFound when there is no topic or no state.   *)
GetState(t) == state[t]

================================================================================
