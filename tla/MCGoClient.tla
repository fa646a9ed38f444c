------------------------------- MODULE MCGoClient ------------------------------
(******************************************************************************)
(* Constants for checking GoClient.                                           *)
(******************************************************************************)
EXTENDS GoClient, TLC

LastOne == {[kind |-> "lastn", value |-> 1]}
LatestOrLast == {[kind |-> "latest", value |-> 0], [kind |-> "lastn", value |-> 1]}

================================================================================
