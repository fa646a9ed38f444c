-------------------------------- MODULE MCBroker -------------------------------
(******************************************************************************)
(* Constants for checking Broker.                                             *)
(******************************************************************************)
EXTENDS Broker, TLC

MCFroms == {[kind |-> "latest", value |-> 0],
            [kind |-> "lastn", value |-> 1],
            [kind |-> "seq", value |-> 2]}

Symmetry == Permutations(Publishers) \cup Permutations(Subs)

================================================================================
