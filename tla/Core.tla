---------------------------------- MODULE Core ---------------------------------
(******************************************************************************)
(* The types of internal/core: topics, events and subscription origins.       *)
(* A topic is a name that ValidateTopic accepts.                              *)
(******************************************************************************)
EXTENDS Naturals, Sequences

CONSTANTS
  Topics,  \* valid topic names
  None     \* no topic, event, subscription or goroutine

(* Event: id stands for ID, ok says whether the reducer of the topic accepts  *)
(* type and payload, at is OccurredAt.  seq is 0 until Store.Append set it.   *)
Event == [id : Nat \ {0}, topic : Topics, seq : Nat, ok : BOOLEAN, at : Nat]

(* From: the last N events, or every event from a seq on, or none.            *)
From == [kind : {"latest", "lastn", "seq"}, value : Nat]

================================================================================
