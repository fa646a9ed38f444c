----------------------------- MODULE MCRedisIngest -----------------------------
(******************************************************************************)
(* Constants for checking RedisIngest.                                        *)
(******************************************************************************)
EXTENDS RedisIngest, TLC

Payload(event, action, num, prs) ==
  [event |-> event, repo |-> TRUE, action |-> action, num |-> num,
   merged |-> TRUE, isPR |-> TRUE, prs |-> prs]

\* A check run of two pull requests, events of one of them, and payloads that
\* are refused or lead to no event.
MCDeliveries ==
  {Payload("check_run", "completed", 0, <<1, 0, 2>>),
   Payload("pull_request", "closed", 2, <<>>),
   Payload("pull_request", "closed", 0, <<>>),
   Payload("pull_request", "assigned", 2, <<>>),
   Payload("pull_request_review", "submitted", 2, <<>>),
   Payload("publish", "none", 1, <<>>),
   Payload("issue_comment", "created", 2, <<>>),
   Payload("issue_comment", "deleted", 2, <<>>),
   [Payload("ping", "none", 0, <<>>) EXCEPT !.repo = FALSE]}

Symmetry == Permutations(Handlers)

================================================================================
