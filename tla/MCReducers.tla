------------------------------- MODULE MCReducers ------------------------------
(* Reducers on short streams of every event type, with and without payloads.  *)
EXTENDS Reducers

Bare(type) == In(type, [other |-> "x"])

(* The bodies arrive at each of the field handlers.                           *)
Fields(ot, bodies) == UNION {FieldRequests(ot, body) : body \in bodies}

MCInputs ==
  [pr |-> {In("pr_opened", [title |-> "t", author |-> "a", base |-> "b", head |-> "h1"]),
           In("pr_sync", [head |-> "h2"]), In("pr_review_requested", [reviewer |-> "r"]),
           In("pr_reviewed", [state |-> "approved"]),
           In("pr_reviewed", [state |-> "changes_requested"]),
           Bare("pr_commented"), In("pr_labeled", [label |-> "x"]),
           In("pr_labeled", [label |-> "y"]), In("pr_unlabeled", [label |-> "x"]),
           Bare("pr_merged"), Bare("pr_closed"),
           In("check_run_completed", [conclusion |-> "success"]),
           In("check_run_completed", [conclusion |-> "timed_out"]),
           In("check_run_completed", [conclusion |-> "queued"]), Bare("check_run_completed")},
   build |-> {Bare("build_queued"), Bare("build_started"), Bare("build_finished"),
              In("step_started", [step |-> "s"]), In("step_started", [step |-> "t"]),
              In("step_finished", [step |-> "s"]),
              In("step_finished", [step |-> "t", status |-> "failed"]), Bare("step_finished")},
   job |-> {In("job_started", [name |-> "j"]), In("job_progress", [percent |-> 40]),
            In("job_progress", [percent |-> 0, eta_seconds |-> 5]), In("job_log", [line |-> "l"]),
            Bare("job_finished"), Bare("job_failed")},
   deploy |-> {In("deploy_started", [version |-> "v1", env |-> "e"]),
               In("deploy_started", [version |-> "v2", service |-> "s"]),
               Bare("deploy_started"), Bare("health_check_pass"), Bare("health_check_fail"),
               Bare("rollback"), In("rollback", [to |-> "v0"]),
               Bare("deploy_finished"), In("deploy_finished", [status |-> "failed"])},
   chat |-> {In("user_joined", [user |-> "u"]), In("user_joined", [user |-> "w"]),
             In("user_left", [user |-> "u"]), In("msg_posted", [id |-> "m", text |-> "a"]),
             In("msg_posted", [text |-> "b"]), In("msg_edited", [id |-> "m", text |-> "c"]),
             In("msg_edited", [id |-> "2", text |-> "d"]), In("msg_deleted", [id |-> "m"]),
             In("msg_deleted", [id |-> "1"])},
   str |-> Fields("str", {[value |-> "a"], [value |-> ""], [other |-> "x"]})
             \cup StringField("b"),
   int |-> Fields("int", {[value |-> 29], [delta |-> 17], [other |-> "x"]})
             \cup IntField(-30) \cup IntField(5) \cup {Bare("int_incr"), Bare("incr")},
   time |-> Fields("time", {[value |-> 30], [seconds |-> 9], [other |-> "x"]})
              \cup TimeField(61, 21) \cup TimeField(7, -5) \cup {Bare("time_add")}]

MCDepth ==
  [pr |-> 4, build |-> 5, job |-> 5, deploy |-> 5, chat |-> 5, str |-> 4, int |-> 4, time |-> 4]

(* The zero time is the begin of the year 1.                                  *)
YearZero == -9

(* Events need not be stamped in the order in which they arrive.              *)
MCClock == <<3, 10, 8, 15, 11>>

================================================================================
