--------------------------------- MODULE GitHub --------------------------------
(******************************************************************************)
(* internal/webhook/github/github.go: what Plugin.Transform makes of a        *)
(* payload.  A payload is a record of the fields the control depends on:      *)
(*   event   the X-GitHub-Event header                                        *)
(*   repo    repository info can be derived                                   *)
(*   action  its action                                                       *)
(*   num     number of its pull request or issue, 0 when it is missing        *)
(*   merged  pull_request.merged                                              *)
(*   isPR    the issue is a pull request                                      *)
(*   prs     numbers in check_run.pull_requests, 0 for one without            *)
(* The texts it copies (titles, names, logins) are left out.  All payloads    *)
(* are of one repository, so that a number identifies a topic.                *)
(******************************************************************************)
EXTENDS Naturals, Sequences

Refused == [ok |-> FALSE, events |-> <<>>]
Events(es) == [ok |-> TRUE, events |-> es]

topicFor(num) == num

One(num, type) == Events(<<[topic |-> topicFor(num), type |-> type]>>)

prTypes ==
  [opened |-> "pr_opened", reopened |-> "pr_opened", synchronize |-> "pr_sync",
   review_requested |-> "pr_review_requested", labeled |-> "pr_labeled",
   unlabeled |-> "pr_unlabeled"]

prEvent(raw) ==
  CASE raw.num = 0 -> Refused
    [] raw.num # 0 /\ raw.action \in DOMAIN prTypes -> One(raw.num, prTypes[raw.action])
    [] raw.num # 0 /\ raw.action = "closed" ->
         One(raw.num, IF raw.merged THEN "pr_merged" ELSE "pr_closed")
    [] OTHER -> Events(<<>>)

prReviewEvent(raw) ==
  IF raw.action = "submitted" /\ raw.num # 0 THEN One(raw.num, "pr_reviewed") ELSE Events(<<>>)

(* The number of a commented pull request is not checked.                     *)
issueCommentEvent(raw) ==
  IF raw.action = "created" /\ raw.isPR THEN One(raw.num, "pr_commented") ELSE Events(<<>>)

(* One event for each pull request of a completed check run that has a number:*)
(* out is the loop's list of them after so many pull requests.                *)
numbered(raw) ==
  LET out[i \in 0 .. Len(raw.prs)] ==
        IF i = 0 THEN <<>>
        ELSE IF raw.prs[i] = 0 THEN out[i - 1] ELSE Append(out[i - 1], raw.prs[i])
  IN  out[Len(raw.prs)]

checkRunEvent(raw) ==
  LET nums == numbered(raw)
  IN  IF raw.action # "completed" THEN Events(<<>>)
      ELSE Events([i \in DOMAIN nums |->
                     [topic |-> topicFor(nums[i]), type |-> "check_run_completed"]])

Transform(raw) ==
  CASE ~ raw.repo -> Refused
    [] raw.repo /\ raw.event = "pull_request" -> prEvent(raw)
    [] raw.repo /\ raw.event = "pull_request_review" -> prReviewEvent(raw)
    [] raw.repo /\ raw.event = "issue_comment" -> issueCommentEvent(raw)
    [] raw.repo /\ raw.event = "check_run" -> checkRunEvent(raw)
    [] OTHER -> Events(<<>>)

================================================================================
