------------------------------ MODULE EventStream ------------------------------
(******************************************************************************)
(* What the server promises an observer, without brokers, hubs, buffers or    *)
(* goroutines: each topic is a growing stream of events 1, 2, 3, ...; an      *)
(* observer gets events of the stream in order, may miss some, and is told    *)
(* how many before it gets an event beyond them.  An observer whose outgoing  *)
(* queue overflowed is void: it still gets events in order, but nobody tells  *)
(* it what it missed.                                                         *)
(******************************************************************************)
EXTENDS Naturals, FiniteSets, Sequences

CONSTANTS Topics, Subs, None

VARIABLES
  stream,  \* length of the stream of a topic
  view,    \* the topic an observer watches
  base,    \* from here on the observer is owed every event
  given,   \* seqs of the events it got, in the order in which it got them
  told,    \* how many missed events it was told of
  void     \* observers that are owed nothing any more

esVars == <<stream, view, base, given, told, void>>

Init ==
  /\ stream = [t \in Topics |-> 0]
  /\ view = [s \in Subs |-> None]
  /\ base = [s \in Subs |-> 0]
  /\ given = [s \in Subs |-> <<>>]
  /\ told = [s \in Subs |-> 0]
  /\ void = {}

Ingest(t) ==
  /\ stream' = [stream EXCEPT ![t] = @ + 1]
  /\ UNCHANGED <<view, base, given, told, void>>

(* An observer starts at a position of the existing stream.                   *)
Observe(s, t, b) ==
  /\ view[s] = None
  /\ b \in 0 .. stream[t]
  /\ view' = [view EXCEPT ![s] = t]
  /\ base' = [base EXCEPT ![s] = b]
  /\ UNCHANGED <<stream, given, told, void>>

Got(s) == LET list == given[s] IN {list[i] : i \in 1 .. Len(list)}

Missing(s, n) == (base[s] + 1 .. n) \ Got(s)

Give(s, n) ==
  /\ view[s] # None
  /\ n \in 1 .. stream[view[s]]
  /\ \A m \in Got(s) : m < n
  /\ s \in void \/ Cardinality(Missing(s, n - 1)) <= told[s]
  /\ given' = [given EXCEPT ![s] = Append(@, n)]
  /\ UNCHANGED <<stream, view, base, told, void>>

Tell(s, k) ==
  /\ view[s] # None
  /\ told' = [told EXCEPT ![s] = @ + k]
  /\ UNCHANGED <<stream, view, base, given, void>>

Overflow(s) ==
  /\ view[s] # None
  /\ void' = void \cup {s}
  /\ UNCHANGED <<stream, view, base, given, told>>

Next ==
  \/ \E t \in Topics : Ingest(t)
  \/ \E s \in Subs :
       \/ \E t \in Topics : \E b \in 0 .. stream[t] : Observe(s, t, b)
       \/ \E n \in 1 .. (IF view[s] = None THEN 0 ELSE stream[view[s]]) : Give(s, n)
       \/ \E k \in 1 .. (IF view[s] = None THEN 0 ELSE stream[view[s]]) : Tell(s, k)
       \/ Overflow(s)

Spec == Init /\ [][Next]_esVars

================================================================================
