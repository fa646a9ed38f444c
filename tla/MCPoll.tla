--------------------------------- MODULE MCPoll --------------------------------
(******************************************************************************)
(* Constants for checking Poll.                                               *)
(******************************************************************************)
EXTENDS Poll, TLC

CONSTANTS t1, t2

LatestOnly == {[kind |-> "latest", value |-> 0]}

OneOrBoth == {<<t1>>, <<t1, t2>>}
OneOnly == {<<t1>>}

================================================================================
