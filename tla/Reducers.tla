-------------------------------- MODULE Reducers -------------------------------
(******************************************************************************)
(* internal/objtypes: the reducers that fold a topic's events into its        *)
(* snapshot.  A topic of one object type receives any sequence of the events  *)
(* in Inputs; each is applied to the snapshot the way Broker.Publish does it, *)
(* under the ingest lock, so one step per event is all there is to see.  The  *)
(* properties compare the snapshot with what the whole stream says, without   *)
(* replaying it.                                                              *)
(*                                                                            *)
(* A payload is a record; a key that is missing, has the wrong JSON type or   *)
(* cannot be parsed reads as "" or as absent.  Times are integers, the zero   *)
(* time is 0 and events occur later; publishers stamp them, so a later event  *)
(* may carry an earlier time.  A snapshot of the JSON store is parsed back    *)
(* into the value that was marshalled; where that is not evident (Wire,       *)
(* Marshalled) the conversion is spelled out.                                 *)
(******************************************************************************)
EXTENDS Integers, Sequences, SequencesExt, FiniteSetsExt

CONSTANTS
  Nil,      \* no snapshot, and what a reducer returns with an error
  Inputs,   \* object type -> set of [type, payload]
  Depth,    \* object type -> bound on the number of events
  Clock,    \* OccurredAt of the n-th event
  LogCap,   \* jobLogCap and chatMsgCap (50)
  Bits,     \* width of int64 and of time.Duration
  Mantissa, \* float64 holds every integer up to 2^Mantissa (53)
  Second,   \* time.Second
  MinTime,  \* the first and the last time that json.Marshal accepts:
  MaxTime   \* the begin of the year 0 and the end of the year 9999

Kinds == DOMAIN Inputs

ASSUME DepthAssumption == Depth \in [Kinds -> Nat]

ASSUME LogCapAssumption == LogCap \in Nat \ {0}

(* The last clauses are arithmetic.                                           *)
ASSUME WidthAssumption ==
  /\ Bits \in Nat \ {0} /\ Mantissa \in Nat \ {0}
  /\ 2 ^ (Bits - 1) \in Nat \ {0} /\ 2 ^ Bits = 2 * 2 ^ (Bits - 1)
  /\ 2 ^ Mantissa \in Nat \ {0, 1}

(* Events occur after the zero time, which is the begin of the year 1.        *)
ASSUME ClockAssumption ==
  /\ Second \in Nat \ {0} /\ MaxTime \in Nat /\ MinTime \in Int /\ MinTime <= 0
  /\ \A k \in Kinds : \A n \in 1 .. Depth[k] : Clock[n] \in 1 .. MaxTime

ASSUME NilAssumption ==
  Nil \notin [value : Int \cup STRING \cup {""}, exists : BOOLEAN, updatedAt : Int]

VARIABLES
  kind,  \* ParseObjectType of the topic
  log,   \* the topic's stream; ok says that the reducer returned no error
  snap   \* Store.GetState of the topic

vars == <<kind, log, snap>>

--------------------------------------------------------------------------------
(* Reading payloads and keeping lists                                         *)

Get(e, k, default) == IF k \in DOMAIN e.payload THEN e.payload[k] ELSE default
Str(e, k) == Get(e, k, "")

(* if v := getStr(k); v != "" { field = v }                                   *)
Update(old, e, k) == IF Str(e, k) # "" THEN Str(e, k) ELSE old

addUnique(xs, v) == IF v = "" \/ Contains(xs, v) THEN xs ELSE Append(xs, v)

(* The loop that copies a list without the entries at the positions in gone.  *)
Without(xs, gone) ==
  LET out[n \in 0 .. Len(xs)] ==
        IF n = 0 THEN <<>> ELSE IF n \in gone THEN out[n - 1] ELSE Append(out[n - 1], xs[n])
  IN  out[Len(xs)]

removeString(xs, v) == Without(xs, {n \in 1 .. Len(xs) : xs[n] = v})

(* Mutant: the oldest entries are kept.                                       *)
Capped_Oldest(xs) == SubSeq(xs, 1, IF Len(xs) > LogCap THEN LogCap ELSE Len(xs))

Capped(xs) == SubSeq(xs, IF Len(xs) > LogCap THEN Len(xs) - LogCap + 1 ELSE 1, Len(xs))

(* The distance of neighbouring float64 integers near x; it doubles with each *)
(* power of two.                                                              *)
Spacing(x) ==
  LET abs == IF x < 0 THEN -x ELSE x
      unit[n \in 0 .. Bits] ==
        IF n = 0 THEN 1
        ELSE IF abs >= 2 ^ Mantissa * unit[n - 1] THEN 2 * unit[n - 1] ELSE unit[n - 1]
  IN  unit[Bits]

(* numberAsInt64: a JSON number is a float64 first, rounded half to even.     *)
Float(x) ==
  LET u == Spacing(x)
      q == (2 * x + u) \div (2 * u)
  IN  IF (2 * x + u) % (2 * u) = 0 /\ q % 2 = 1 THEN (q - 1) * u ELSE q * u

(* Mutant: arithmetic saturates.                                              *)
Wrap_Saturates(x) ==
  IF x >= 2 ^ (Bits - 1) THEN 2 ^ (Bits - 1) - 1
  ELSE IF x < -(2 ^ (Bits - 1)) THEN -(2 ^ (Bits - 1)) ELSE x

(* Two's complement.                                                          *)
Wrap(x) == ((x + 2 ^ (Bits - 1)) % 2 ^ Bits) - 2 ^ (Bits - 1)

InWidth(x) == x \in -(2 ^ (Bits - 1)) .. 2 ^ (Bits - 1) - 1

--------------------------------------------------------------------------------
(* pr                                                                         *)

PRZero ==
  [title |-> "", author |-> "", base |-> "", head |-> "", state |-> "", reviewers |-> <<>>,
   approvals |-> 0, changesRequested |-> 0, labels |-> <<>>, passed |-> 0, failed |-> 0,
   pending |-> 0, comments |-> 0, mergedAt |-> 0, updatedAt |-> 0]

(* Mutant: the guard of Pending-- is gone.                                    *)
Settle_Unguarded(pending) == pending - 1

Settle(pending) == IF pending > 0 THEN pending - 1 ELSE pending

Succeeded == {"success"}
Failing == {"failure", "timed_out", "cancelled"}
Waiting == {"pending", "queued", "in_progress"}

CheckRun(s, c) ==
  CASE c \in Succeeded -> [s EXCEPT !.passed = @ + 1, !.pending = Settle(@)]
    [] c \in Failing -> [s EXCEPT !.failed = @ + 1, !.pending = Settle(@)]
    [] c \in Waiting -> [s EXCEPT !.pending = @ + 1]
    [] OTHER -> s

PRApply(prev, e) ==
  LET s == [prev EXCEPT !.state = IF @ = "" THEN "open" ELSE @, !.updatedAt = e.at]
  IN CASE e.type = "pr_opened" ->
            [s EXCEPT !.title = Update(@, e, "title"), !.author = Update(@, e, "author"),
                      !.base = Update(@, e, "base"), !.head = Update(@, e, "head"),
                      !.state = "open"]
       [] e.type = "pr_sync" -> [s EXCEPT !.head = Update(@, e, "head")]
       [] e.type = "pr_review_requested" ->
            [s EXCEPT !.reviewers = addUnique(@, Str(e, "reviewer"))]
       [] e.type = "pr_reviewed" ->
            [s EXCEPT !.approvals = IF Str(e, "state") = "approved" THEN @ + 1 ELSE @,
                      !.changesRequested =
                        IF Str(e, "state") = "changes_requested" THEN @ + 1 ELSE @]
       [] e.type = "pr_commented" -> [s EXCEPT !.comments = @ + 1]
       [] e.type = "pr_labeled" -> [s EXCEPT !.labels = addUnique(@, Str(e, "label"))]
       [] e.type = "pr_unlabeled" -> [s EXCEPT !.labels = removeString(@, Str(e, "label"))]
       [] e.type = "pr_merged" -> [s EXCEPT !.state = "merged", !.mergedAt = e.at]
       [] e.type = "pr_closed" -> [s EXCEPT !.state = IF @ = "merged" THEN @ ELSE "closed"]
       [] e.type = "check_run_completed" -> CheckRun(s, Str(e, "conclusion"))
       [] OTHER -> s

--------------------------------------------------------------------------------
(* build                                                                      *)

BuildZero ==
  [status |-> "", currentStep |-> "", steps |-> <<>>, startedAt |-> 0, finishedAt |-> 0,
   durationMs |-> 0, stepStarts |-> {}]

(* Mutant: the times of running steps are lost in the store.                  *)
Wire_NoStarts(s) == [s EXCEPT !.stepStarts = {}]

(* MarshalJSON and UnmarshalJSON by way of buildStateWire, which repeats each *)
(* field, the unexported stepStarts too.                                      *)
Wire(s) ==
  [status |-> s.status, currentStep |-> s.currentStep, steps |-> s.steps,
   startedAt |-> s.startedAt, finishedAt |-> s.finishedAt, durationMs |-> s.durationMs,
   stepStarts |-> s.stepStarts]

(* stepStarts is the map's set of [name, at], one per name.                   *)
StartsOf(s, name) == {x \in s.stepStarts : x.name = name}

(* The first running step of that name ends.                                  *)
EndStep(steps, name, status, dur) ==
  LET running == {i \in 1 .. Len(steps) : steps[i].name = name /\ steps[i].status = "running"}
  IN  IF running = {} THEN steps
      ELSE [steps EXCEPT ![Min(running)] = [name |-> name, status |-> status, durationMs |-> dur]]

Outcome(e) == IF Str(e, "status") = "" THEN "success" ELSE Str(e, "status")

BuildStep(s, e) ==
  LET name == Str(e, "step")
      dur == IF StartsOf(s, name) = {} THEN 0
             ELSE e.at - (CHOOSE x \in StartsOf(s, name) : TRUE).at
  IN CASE e.type = "build_queued" -> [s EXCEPT !.status = "queued"]
       [] e.type = "build_started" -> [s EXCEPT !.status = "running", !.startedAt = e.at]
       [] e.type = "step_started" ->
            [s EXCEPT !.currentStep = name,
                      !.stepStarts = (@ \ StartsOf(s, name)) \cup {[name |-> name, at |-> e.at]},
                      !.steps = Append(@, [name |-> name, status |-> "running", durationMs |-> 0])]
       [] e.type = "step_finished" ->
            [s EXCEPT !.stepStarts = @ \ StartsOf(s, name),
                      !.steps = EndStep(@, name, Outcome(e), dur),
                      !.currentStep = IF @ = name THEN "" ELSE @]
       [] e.type = "build_finished" ->
            [s EXCEPT !.status = Outcome(e), !.finishedAt = e.at,
                      !.durationMs = IF s.startedAt # 0 THEN e.at - s.startedAt ELSE @]
       [] OTHER -> s

BuildApply(prev, e) == Wire(BuildStep(prev, e))

--------------------------------------------------------------------------------
(* job                                                                        *)

JobZero ==
  [name |-> "", percent |-> 0, eta |-> 0, status |-> "", logs |-> <<>>, startedAt |-> 0,
   finishedAt |-> 0]

(* Zero and negative numbers are ignored.                                     *)
Positive(old, e, k) == IF Get(e, k, 0) > 0 THEN Get(e, k, 0) ELSE old

JobApply(s, e) ==
  CASE e.type = "job_started" ->
         [s EXCEPT !.status = "running", !.startedAt = e.at, !.name = Update(@, e, "name")]
    [] e.type = "job_progress" ->
         [s EXCEPT !.percent = Positive(@, e, "percent"), !.eta = Positive(@, e, "eta_seconds")]
    [] e.type = "job_log" ->
         [s EXCEPT !.logs = Capped(Append(@, [at |-> e.at, line |-> Str(e, "line")]))]
    [] e.type = "job_finished" ->
         [s EXCEPT !.status = "succeeded", !.percent = 100, !.finishedAt = e.at]
    [] e.type = "job_failed" -> [s EXCEPT !.status = "failed", !.finishedAt = e.at]
    [] OTHER -> s

--------------------------------------------------------------------------------
(* deploy                                                                     *)

DeployZero ==
  [env |-> "", service |-> "", current |-> "", previous |-> "", health |-> "",
   inProgress |-> FALSE, lastDeployAt |-> 0, lastSuccessAt |-> 0]

(* Mutant: one failed check takes a healthy service down.                     *)
Worse_Down(health) == "down"

Worse(health) == IF health = "healthy" THEN "degraded" ELSE "down"

DeployApply(prev, e) ==
  LET s == [prev EXCEPT !.health = IF @ = "" THEN "unknown" ELSE @]
      version == Str(e, "version")
  IN CASE e.type = "deploy_started" ->
            [s EXCEPT !.inProgress = TRUE, !.lastDeployAt = e.at,
                      !.previous = IF version # "" THEN s.current ELSE @,
                      !.current = Update(@, e, "version"),
                      !.env = Update(@, e, "env"), !.service = Update(@, e, "service")]
       [] e.type = "health_check_pass" -> [s EXCEPT !.health = "healthy"]
       [] e.type = "health_check_fail" -> [s EXCEPT !.health = Worse(@)]
       [] e.type = "rollback" ->
            [s EXCEPT !.inProgress = FALSE, !.previous = s.current,
                      !.current = Update(s.previous, e, "to")]
       [] e.type = "deploy_finished" ->
            [s EXCEPT !.inProgress = FALSE,
                      !.lastSuccessAt = IF Outcome(e) = "success" THEN e.at ELSE @,
                      !.health = IF Outcome(e) = "success" /\ @ = "unknown" THEN "healthy" ELSE @]
       [] OTHER -> s

--------------------------------------------------------------------------------
(* chat                                                                       *)

ChatZero == [participants |-> <<>>, recent |-> <<>>]

(* A message without an id takes the event's.                                 *)
Message(e) ==
  [id |-> IF Str(e, "id") = "" THEN e.id ELSE Str(e, "id"), user |-> Str(e, "user"),
   text |-> Str(e, "text"), postedAt |-> e.at, edited |-> FALSE]

(* The first message with that id.                                            *)
Edit(recent, id, text) ==
  LET same == {i \in 1 .. Len(recent) : recent[i].id = id}
  IN  IF same = {} THEN recent
      ELSE [recent EXCEPT ![Min(same)].text = text, ![Min(same)].edited = TRUE]

ChatApply(s, e) ==
  CASE e.type = "user_joined" -> [s EXCEPT !.participants = addUnique(@, Str(e, "user"))]
    [] e.type = "user_left" -> [s EXCEPT !.participants = removeString(@, Str(e, "user"))]
    [] e.type = "msg_posted" -> [s EXCEPT !.recent = Capped(Append(@, Message(e)))]
    [] e.type = "msg_edited" -> [s EXCEPT !.recent = Edit(@, Str(e, "id"), Str(e, "text"))]
    [] e.type = "msg_deleted" ->
         [s EXCEPT !.recent =
            Without(@, {n \in 1 .. Len(s.recent) : s.recent[n].id = Str(e, "id")})]
    [] OTHER -> s

--------------------------------------------------------------------------------
(* str, int and time                                                          *)

StrZero == [value |-> "", exists |-> FALSE, updatedAt |-> 0]
NumZero == [value |-> 0, exists |-> FALSE, updatedAt |-> 0]

Has(e, k) == k \in DOMAIN e.payload

(* Every event of the topic touches updatedAt.                                *)
Field(prev, e, value, exists) ==
  [prev EXCEPT !.value = value, !.exists = exists, !.updatedAt = e.at]

StrApply(prev, e) ==
  CASE e.type = "str_set" /\ Has(e, "value") -> Field(prev, e, e.payload.value, TRUE)
    [] e.type = "str_delete" -> Field(prev, e, "", FALSE)
    [] OTHER -> Field(prev, e, prev.value, prev.exists)

Delta(e) == IF Has(e, "delta") THEN Float(e.payload.delta) ELSE 1

IntApply(prev, e) ==
  CASE e.type = "int_set" /\ Has(e, "value") -> Field(prev, e, Float(e.payload.value), TRUE)
    [] e.type = "int_incr" -> Field(prev, e, Wrap(prev.value + Delta(e)), TRUE)
    [] e.type = "int_decr" -> Field(prev, e, Wrap(prev.value - Delta(e)), TRUE)
    [] e.type = "int_delete" -> Field(prev, e, 0, FALSE)
    [] OTHER -> Field(prev, e, prev.value, prev.exists)

(* time.Duration(v) * time.Second                                             *)
Span(e) == Wrap(Float(e.payload.seconds) * Second)

(* The year has four digits.                                                  *)
Printable(t) == t \in MinTime .. MaxTime

(* Mutant: every time is marshalled.                                          *)
Marshalled_Any(s) == s

Marshalled(s) == IF Printable(s.value) THEN s ELSE Nil

TimeApply(prev, e) ==
  Marshalled(
    CASE e.type = "time_set" /\ Has(e, "value") -> Field(prev, e, e.payload.value, TRUE)
      [] e.type = "time_now" -> Field(prev, e, e.at, TRUE)
      [] e.type = "time_add" /\ Has(e, "seconds") -> Field(prev, e, prev.value + Span(e), TRUE)
      [] e.type = "time_delete" -> Field(prev, e, 0, FALSE)
      [] OTHER -> Field(prev, e, prev.value, prev.exists))

--------------------------------------------------------------------------------
(* Field requests: internal/transport/field.go and client/field.go turn an    *)
(* operation on a field into an event, and nothing keeps one away from a      *)
(* topic of another type.  A null payload has no keys.                        *)

In(type, payload) == [type |-> type, payload |-> payload]
Null == <<>>

(* POST /field/...; the body's numbers are float64 and are sent on as int64.  *)
Number(body, k, default) == IF k \in DOMAIN body THEN Float(body[k]) ELSE default

FieldSet(ot, body) == In(ot \o "_set", body)
FieldIncr(body) == In("int_incr", [delta |-> Number(body, "delta", 1)])
FieldDecr(body) == In("int_decr", [delta |-> Number(body, "delta", 1)])
FieldDelete(ot) == In(ot \o "_delete", Null)
FieldTimeNow == In("time_now", Null)
FieldTimeAdd(body) == In("time_add", [seconds |-> Number(body, "seconds", 0)])

FieldRequests(ot, body) ==
  {FieldSet(ot, body), FieldIncr(body), FieldDecr(body), FieldDelete(ot), FieldTimeNow,
   FieldTimeAdd(body)}

(* The methods of the Go client's fields.  A time is formatted, which nobody  *)
(* parses back once its year has five digits; of a duration only the whole    *)
(* seconds are sent.                                                          *)
Seconds(d) == IF d >= 0 THEN d \div Second ELSE -((-d) \div Second)

StringField(v) == {In("str_set", [value |-> v]), In("str_delete", Null)}
IntField(n) ==
  {In("int_set", [value |-> n]), In("int_incr", [delta |-> n]), In("int_decr", [delta |-> n]),
   In("int_delete", Null)}
TimeField(t, d) ==
  {In("time_set", IF Printable(t) THEN [value |-> t] ELSE Null), In("time_now", Null),
   In("time_add", [seconds |-> Seconds(d)]), In("time_delete", Null)}

--------------------------------------------------------------------------------
(* The topic                                                                  *)

(* A key of the wrong type or that does not parse counts as absent.  A number *)
(* that int64 cannot hold is converted as the processor sees fit: there is    *)
(* none.                                                                      *)
ASSUME InputsAssumption == \A k \in Kinds : \A in \in Inputs[k] :
  /\ in.type = "str_set" /\ Has(in, "value") => in.payload.value \in STRING
  /\ in.type = "int_set" /\ Has(in, "value") =>
       in.payload.value \in Int /\ InWidth(Float(in.payload.value))
  /\ in.type \in {"int_incr", "int_decr"} /\ Has(in, "delta") =>
       in.payload.delta \in Int /\ InWidth(Float(in.payload.delta))
  /\ in.type = "time_set" /\ Has(in, "value") => Printable(in.payload.value)
  /\ in.type = "time_add" /\ Has(in, "seconds") =>
       in.payload.seconds \in Int /\ InWidth(Float(in.payload.seconds))

Zero(k) ==
  CASE k = "pr" -> PRZero [] k = "build" -> BuildZero [] k = "job" -> JobZero
    [] k = "deploy" -> DeployZero [] k = "chat" -> ChatZero [] k = "str" -> StrZero
    [] k \in {"int", "time"} -> NumZero

(* Registry.For and the reducer's Apply; no bytes are an empty struct.        *)
Apply(k, raw, e) ==
  LET s == IF raw = Nil THEN Zero(k) ELSE raw
  IN CASE k = "pr" -> PRApply(s, e) [] k = "build" -> BuildApply(s, e)
       [] k = "job" -> JobApply(s, e) [] k = "deploy" -> DeployApply(s, e)
       [] k = "chat" -> ChatApply(s, e) [] k = "str" -> StrApply(s, e)
       [] k = "int" -> IntApply(s, e) [] k = "time" -> TimeApply(s, e)

Init ==
  /\ kind \in Kinds
  /\ log = <<>>
  /\ snap = Nil

(* Publish keeps the event in any case and saves the state unless the reducer *)
(* returned an error.                                                         *)
Publish(in) ==
  /\ Len(log) < Depth[kind]
  /\ LET n == Len(log) + 1
         e == [type |-> in.type, payload |-> in.payload, at |-> Clock[n], id |-> ToString(n)]
         next == Apply(kind, snap, e)
     IN  /\ log' = Append(log, [event |-> e, ok |-> next # Nil])
         /\ snap' = IF next # Nil THEN next ELSE snap
  /\ UNCHANGED kind

(* What the client's Get returns: get_state answers ErrNotFound, an error     *)
(* frame, for a topic without a snapshot.                                     *)
FieldGet ==
  [err |-> snap = Nil,
   value |-> IF snap = Nil THEN Zero(kind).value ELSE snap.value,
   exists |-> IF snap = Nil THEN FALSE ELSE snap.exists]

Next == \E in \in Inputs[kind] : Publish(in)

Spec == Init /\ [][Next]_vars

--------------------------------------------------------------------------------
(* What a stream says, by positions in it                                     *)

Pos == {i \in 1 .. Len(log) : log[i].ok}
At(i) == log[i].event.at
Val(i, k) == Str(log[i].event, k)

Of(types) == {i \in Pos : log[i].event.type \in types}
With(S, k, vs) == {i \in S : Val(i, k) \in vs}
After(S, i) == {j \in S : j > i}
Before(S, i) == {j \in S : j < i}
Newest(S) == IF S = {} THEN 0 ELSE Max(S)

(* A counter that plus raises and minus lowers, but never below zero, stands  *)
(* after position n at the largest surplus of any final stretch.              *)
Balance(plus, minus, n) ==
  Max({Cardinality({j \in plus : i < j /\ j <= n}) - Cardinality({j \in minus : i < j /\ j <= n})
         : i \in 0 .. n})

(* The sum of f over the positions in S.                                      *)
Total(S, f) ==
  LET sum[i \in 0 .. Len(log)] ==
        IF i = 0 THEN 0 ELSE sum[i - 1] + (IF i \in S THEN f[i] ELSE 0)
  IN  sum[Len(log)]

(* What the last of S that has a value for k gave it.                         *)
Latest(S, k) == LET i == Newest({j \in S : Val(j, k) # ""}) IN IF i = 0 THEN "" ELSE Val(i, k)

(* xs lists, once each and oldest first, the values that were added and not   *)
(* removed since.                                                             *)
Lists(xs, k, adds, removes) ==
  LET since(v) == After(With(adds, k, {v}), Newest(With(removes, k, {v})))
      present == {v \in {Val(i, k) : i \in adds} \ {""} : since(v) # {}}
  IN  /\ ToSet(xs) = present
      /\ \A i, j \in 1 .. Len(xs) : i < j => Min(since(xs[i])) < Min(since(xs[j]))

Is(k) == kind = k /\ snap # Nil

(* A pull request: merged is final until it is opened again, however often it *)
(* is closed; Pending never goes below zero and counts the runs that have not *)
(* been settled by a later one; labels and reviewers are sets in the order of *)
(* their arrival; a push leaves the runs alone, although the comment on it    *)
(* says that it resets those that are pending (pr.go:35-143, 76).             *)
PRSnapshot == Is("pr") =>
  LET opened == Newest(Of({"pr_opened"}))
      runs(cs) == With(Of({"check_run_completed"}), "conclusion", cs)
  IN  /\ snap.state = IF After(Of({"pr_merged"}), opened) # {} THEN "merged"
                      ELSE IF After(Of({"pr_closed"}), opened) # {} THEN "closed" ELSE "open"
      /\ snap.pending = Balance(runs(Waiting), runs(Succeeded \cup Failing), Len(log))
      /\ snap.passed + snap.failed = Cardinality(runs(Succeeded \cup Failing))
      /\ snap.approvals + snap.changesRequested + snap.comments =
           Cardinality(With(Of({"pr_reviewed"}), "state", {"approved", "changes_requested"}))
             + Cardinality(Of({"pr_commented"}))
      /\ snap.head = Latest(Of({"pr_opened", "pr_sync"}), "head")
      /\ Lists(snap.labels, "label", Of({"pr_labeled"}), Of({"pr_unlabeled"}))
      /\ Lists(snap.reviewers, "reviewer", Of({"pr_review_requested"}), {})
      /\ snap.updatedAt = At(Newest(Pos))

(* A build, whose steps may overlap, repeat and end without having begun: the *)
(* n-th end of a step that finds it running closes its n-th entry, and lasts  *)
(* from the latest start of that name, unless an earlier end used that start  *)
(* up; the current step is one that runs (build.go:72-133).                   *)
BuildSnapshot == Is("build") =>
  LET begun == Of({"step_started"})
      starts(n) == With(begun, "step", {n})
      ends(n) == With(Of({"step_finished"}), "step", {n})
      closing(n) == {j \in ends(n) : Balance(starts(n), ends(n), j - 1) > 0}
      rank(S, i) == Cardinality(Before(S, i))
      closer(n, i) == {j \in closing(n) : rank(closing(n), j) = rank(starts(n), i)}
      lasts(n, j) == LET i == Newest(Before(starts(n), j))
                     IN  IF i > Newest(Before(ends(n), j)) THEN At(j) - At(i) ELSE 0
      over == Newest(Of({"build_finished"}))
      before == Newest(Before(Of({"build_started"}), over))
      now == Newest(begun)
  IN  /\ Len(snap.steps) = Cardinality(begun)
      /\ \A i \in begun :
           LET n == Val(i, "step")
               step == snap.steps[rank(begun, i) + 1]
           IN  /\ step.name = n
               /\ step.status = "running" <=> closer(n, i) = {}
               /\ \A j \in closer(n, i) : step.durationMs = lasts(n, j)
      /\ snap.currentStep =
           IF now = 0 \/ After(ends(Val(now, "step")), now) # {} THEN "" ELSE Val(now, "step")
      /\ snap.durationMs = IF before = 0 THEN 0 ELSE At(over) - At(before)

(* A job: progress that is not positive changes nothing, an end sets 100 and  *)
(* a later report overrides it; the log keeps exactly its newest lines, in    *)
(* order (job.go:51-80).                                                      *)
JobSnapshot == Is("job") =>
  LET reports == {i \in Of({"job_progress"}) : Get(log[i].event, "percent", 0) > 0}
      decided == Newest(reports \cup Of({"job_finished"}))
      lines == Of({"job_log"})
      newer(i) == Cardinality(After(lines, i))
      kept == Len(snap.logs)
  IN  /\ snap.percent = IF decided = 0 THEN 0
                        ELSE IF decided \in reports THEN log[decided].event.payload.percent ELSE 100
      /\ kept = IF Cardinality(lines) < LogCap THEN Cardinality(lines) ELSE LogCap
      /\ \A i \in lines : newer(i) < LogCap =>
           snap.logs[kept - newer(i)] = [at |-> At(i), line |-> Val(i, "line")]
      /\ snap.finishedAt =
           LET i == Newest(Of({"job_finished", "job_failed"})) IN IF i = 0 THEN 0 ELSE At(i)

(* A deployment: its health counts the checks that failed since it was last   *)
(* known to be healthy; a finished deployment vouches for a service nobody    *)
(* has checked and for no other; the version deployed last is current after   *)
(* an even number of plain rollbacks and previous after an odd number         *)
(* (deploy.go:41-78).                                                         *)
DeploySnapshot == Is("deploy") =>
  LET pass == Of({"health_check_pass"})
      fail == Of({"health_check_fail"})
      vouched == {i \in With(Of({"deploy_finished"}), "status", {"", "success"}) :
                    Before(pass \cup fail, i) = {}}
      well == Newest(pass \cup vouched)
      fails == Cardinality(After(fail, well))
      named(i) == Val(i, IF log[i].event.type = "rollback" THEN "to" ELSE "version")
      chosen == Newest({i \in Of({"deploy_started", "rollback"}) : named(i) # ""})
      swaps == Cardinality(After(Of({"rollback"}), chosen))
  IN  /\ snap.health = CASE fails = 0 -> IF well = 0 THEN "unknown" ELSE "healthy"
                         [] fails = 1 -> IF well = 0 THEN "down" ELSE "degraded"
                         [] OTHER -> "down"
      /\ chosen # 0 =>
           named(chosen) = IF swaps % 2 = 0 THEN snap.current ELSE snap.previous
      /\ snap.inProgress <=>
           Of({"deploy_started"}) # {} /\
             Newest(Of({"deploy_started"})) > Newest(Of({"rollback", "deploy_finished"}))

(* A room: the messages shown are those not deleted since they were posted    *)
(* and never pushed out by LogCap later ones, in order; a message whose id is *)
(* its own shows the last edit; participants are those who joined and did not *)
(* leave (chat.go:43-83).                                                     *)
ChatSnapshot == Is("chat") =>
  LET posts == Of({"msg_posted"})
      idOf(i) == Message(log[i].event).id
      deletes(i, n) == {j \in Of({"msg_deleted"}) : i < j /\ j <= n /\ Val(j, "id") = idOf(i)}
      later(i, n) == {j \in posts : i < j /\ j <= n /\ deletes(j, n) = {}}
      shown == {i \in posts : /\ deletes(i, Len(log)) = {}
                              /\ \A n \in i .. Len(log) : Cardinality(later(i, n)) < LogCap}
      edits(i) == With(After(Of({"msg_edited"}), i), "id", {idOf(i)})
      alone(i) == \A j \in posts \ {i} : idOf(j) # idOf(i)
  IN  /\ Len(snap.recent) = Cardinality(shown)
      /\ \A i \in shown :
           LET m == snap.recent[Cardinality(Before(shown, i)) + 1]
           IN  /\ m.id = idOf(i) /\ m.postedAt = At(i)
               /\ alone(i) => /\ m.edited <=> edits(i) # {}
                              /\ m.text = Val(Newest({i} \cup edits(i)), "text")
      /\ Lists(snap.participants, "user", Of({"user_joined"}), Of({"user_left"}))

(* The value of an int field is its last setting plus every increment and     *)
(* minus every decrement since, each rounded as a float64, modulo the width   *)
(* of int64; an increment that names no delta counts one, and one on a        *)
(* deleted field starts from zero.  A string field holds its last setting;    *)
(* events that set nothing leave both alone.  Get returns that (field.go:34-  *)
(* 101 of objtypes, field.go:30-92 of the client).                            *)
FieldSnapshot == kind \in {"int", "str"} =>
  LET int == kind = "int"
      sets == {i \in Of({IF int THEN "int_set" ELSE "str_set"}) : Has(log[i].event, "value")}
      from == Newest(sets \cup Of({IF int THEN "int_delete" ELSE "str_delete"}))
      moves == IF int THEN After(Of({"int_incr", "int_decr"}), from) ELSE {}
      sign(i) == IF log[i].event.type = "int_incr" THEN 1 ELSE -1
      move == [i \in moves |-> sign(i) * Float(Get(log[i].event, "delta", 1))]
      base == IF from \in sets THEN Float(log[from].event.payload.value) ELSE 0
      got == FieldGet
  IN  /\ got.exists <=> moves # {} \/ from \in sets
      /\ int =>
           /\ (got.value - base - Total(moves, move)) % 2 ^ Bits = 0
           /\ InWidth(got.value)
      /\ ~ int => got.value = IF from \in sets THEN log[from].event.payload.value ELSE ""

(* "value += N seconds" (cheatsheet.md:189): the time that Get returns is the *)
(* last setting plus the seconds of every addition accepted since, as long as *)
(* each of them fits in a Duration (292 years), and modulo its width if one   *)
(* does not.  It can always be printed: an addition is refused exactly if the *)
(* sum would leave the years 0 to 9999, changes nothing then, and is the only *)
(* kind of event a reducer refuses (field.go:116-147).                        *)
TimeSnapshot == kind = "time" =>
  LET sets == {i \in Of({"time_set"}) : Has(log[i].event, "value")}
      adds(i) == log[i].event.type = "time_add" /\ Has(log[i].event, "seconds")
      span(i) == Float(log[i].event.payload.seconds) * Second
      from(n) == Newest(Before(sets \cup Of({"time_now", "time_delete"}), n + 1))
      since(n) == {i \in After(Of({"time_add"}), from(n)) : i <= n /\ Has(log[i].event, "seconds")}
      valueAt(n) ==
        Total(since(n), [i \in since(n) |-> span(i)]) +
          (IF from(n) \in sets THEN log[from(n)].event.payload.value
           ELSE IF from(n) \in Of({"time_now"}) THEN At(from(n)) ELSE 0)
      fit(S) == \A i \in S : InWidth(span(i))
      all == Len(log)
  IN  /\ (FieldGet.value - valueAt(all)) % 2 ^ Bits = 0
      /\ fit(since(all)) => FieldGet.value = valueAt(all)
      /\ Printable(FieldGet.value)
      /\ snap # Nil => snap.updatedAt = At(Newest(Pos))
      /\ \A i \in 1 .. all : adds(i) /\ fit(since(i - 1) \cup {i}) =>
           (log[i].ok <=> Printable(valueAt(i - 1) + span(i)))
      /\ \A i \in 1 .. all : ~ adds(i) => log[i].ok


================================================================================
