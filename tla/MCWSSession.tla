------------------------------ MODULE MCWSSession ------------------------------
(******************************************************************************)
(* Constants for checking WSSession.                                          *)
(******************************************************************************)
EXTENDS WSSession, TLC

Latest0 == [kind |-> "latest", value |-> 0]
LastTwo == [kind |-> "lastn", value |-> 2]
FromSeq(n) == [kind |-> "seq", value |-> n]

AllFroms == {Latest0, LastTwo, FromSeq(2)}
LatestOnly == {Latest0}
Resume == {FromSeq(1)}

Symmetry == Permutations(Subs)

================================================================================
