------------------------------- MODULE MCArchiver ------------------------------
(******************************************************************************)
(* Constants for checking Archiver.                                           *)
(******************************************************************************)
EXTENDS Archiver, TLC

LatestOnly == {[kind |-> "latest", value |-> 0]}

================================================================================
