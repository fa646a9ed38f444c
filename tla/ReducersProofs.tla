----------------------------- MODULE ReducersProofs ----------------------------
(******************************************************************************)
(* Proofs about the reducers, for any inputs, lengths of the stream, times,   *)
(* caps and widths.  The snapshot is compared with what the stream as a whole *)
(* says, in sets of positions; each invariant follows those sets and what     *)
(* they say through one more event.                                           *)
(******************************************************************************)
EXTENDS Reducers, Recursion, SequenceTheorems, FiniteSetTheorems

(* The newest of a set of positions.                                          *)
LEMMA MaxExists ==
  ASSUME NEW n \in Nat, NEW S \in SUBSET (1 .. n), S # {}
  PROVE  \E m \in S : \A x \in S : x <= m
<1>. DEFINE T == {k \in 0 .. n : (S \cap (1 .. k)) # {} =>
                    \E m \in S \cap (1 .. k) : \A x \in S \cap (1 .. k) : x <= m}
<1>1. 0 \in T
  OBVIOUS
<1>2. ASSUME NEW k \in 0 .. n, k < n, k \in T PROVE k + 1 \in T
  <2>1. CASE k + 1 \in S
    <3>1. k + 1 \in S \cap (1 .. k + 1) /\ \A x \in S \cap (1 .. k + 1) : x <= k + 1
      BY <2>1
    <3>. QED BY <1>2, <3>1
  <2>2. CASE k + 1 \notin S
    <3>1. S \cap (1 .. k + 1) = S \cap (1 .. k)
      BY <2>2
    <3>. QED BY <1>2, <3>1
  <2>. QED BY <2>1, <2>2
<1>3. n \in T
  <2>1. \A k \in 0 .. n : k < n /\ k \in T => k + 1 \in T
    <3>. HIDE DEF T
    <3>. QED BY <1>2
  <2>. HIDE DEF T
  <2>2. \A k \in 0 .. n : k \in T
    BY <1>1, <2>1, Induction
  <2>. QED BY <2>2
<1>. QED BY <1>3

LEMMA MaxIs ==
  ASSUME NEW S, NEW m \in S, S \subseteq Int, \A x \in S : x <= m
  PROVE  Max(S) = m
<1>1. Max(S) \in S /\ \A x \in S : Max(S) >= x
  BY DEF Max
<1>2. Max(S) >= m /\ Max(S) <= m /\ Max(S) \in Int /\ m \in Int
  BY <1>1
<1>. QED BY <1>2

LEMMA NewestIs ==
  ASSUME NEW n \in Nat, NEW S \in SUBSET (1 .. n)
  PROVE  /\ Newest(S) \in 0 .. n
         /\ S = {} <=> Newest(S) = 0
         /\ S # {} => Newest(S) \in S
         /\ \A x \in S : x <= Newest(S)
<1>1. CASE S = {}
  BY <1>1 DEF Newest
<1>2. CASE S # {}
  <2>1. PICK m \in S : \A x \in S : x <= m
    BY <1>2, MaxExists
  <2>2. Max(S) = m
    <3>1. S \subseteq Int
      OBVIOUS
    <3>. QED BY <2>1, <3>1, MaxIs
  <2>3. Newest(S) = m
    BY <1>2, <2>2 DEF Newest
  <2>. QED BY <1>2, <2>1, <2>3
<1>. QED BY <1>1, <1>2

(* A position joins those before it.                                          *)
LEMMA NewestAdd ==
  ASSUME NEW n \in Nat \ {0}, NEW S \in SUBSET (1 .. n - 1)
  PROVE  /\ Newest(S \cup {n}) = n
         /\ Newest(S) \in 0 .. n - 1 /\ (S = {} <=> Newest(S) = 0)
         /\ S # {} => Newest(S) \in S
         /\ \A x \in S : x <= Newest(S)
<1>1. Max(S \cup {n}) = n
  <2>1. n \in S \cup {n} /\ S \cup {n} \subseteq Int /\ \A x \in S \cup {n} : x <= n
    OBVIOUS
  <2>. QED BY <2>1, MaxIs
<1>2. n - 1 \in Nat
  OBVIOUS
<1>. QED BY <1>1, <1>2, NewestIs DEF Newest

LEMMA CountAdd ==
  ASSUME NEW n \in Nat \ {0}, NEW S \in SUBSET (1 .. n - 1)
  PROVE  /\ Cardinality(S) \in Nat /\ Cardinality(S \cup {n}) = Cardinality(S) + 1
         /\ Cardinality(S) = 0 <=> S = {}
         /\ IsFiniteSet(S)
<1>1. IsFiniteSet(S)
  <2>1. IsFiniteSet(1 .. n - 1)
    BY FS_Interval
  <2>. QED BY <2>1, FS_Subset
<1>2. n \notin S
  OBVIOUS
<1>. QED BY <1>1, <1>2, FS_CardinalityType, FS_AddElement, FS_EmptySet

LEMMA BeforeAdd ==
  ASSUME NEW n \in Nat \ {0}, NEW S \in SUBSET (1 .. n - 1)
  PROVE  /\ Before(S, n) = S /\ Before(S \cup {n}, n) = S
         /\ \A i \in 0 .. n - 1 : Before(S \cup {n}, i) = Before(S, i)
         /\ \A i : Before(S, i) \subseteq S
<1>1. \A j \in S : j < n
  OBVIOUS
<1>2. Before(S, n) = S
  BY <1>1 DEF Before
<1>3. Before(S \cup {n}, n) = S
  <2>1. ASSUME NEW j \in S PROVE j \in Before(S \cup {n}, n)
    BY <1>1 DEF Before
  <2>2. ASSUME NEW j \in Before(S \cup {n}, n) PROVE j \in S
    BY DEF Before
  <2>. QED BY <2>1, <2>2
<1>4. ASSUME NEW i \in 0 .. n - 1 PROVE Before(S \cup {n}, i) = Before(S, i)
  BY DEF Before
<1>. QED BY <1>2, <1>3, <1>4 DEF Before

LEMMA AfterAdd ==
  ASSUME NEW n \in Nat \ {0}, NEW S \in SUBSET (1 .. n - 1)
  PROVE  /\ After(S, n) = {} /\ After(S \cup {n}, n) = {} /\ After(S, 0) = S
         /\ \A i \in 0 .. n - 1 : After(S \cup {n}, i) = After(S, i) \cup {n}
         /\ \A i : After(S, i) \subseteq S
<1>1. \A j \in S \cup {n} : j > 0 /\ ~ (j > n)
  OBVIOUS
<1>2. After(S, n) = {} /\ After(S \cup {n}, n) = {}
  BY <1>1 DEF After
<1>3. After(S, 0) = S
  BY <1>1 DEF After
<1>4. ASSUME NEW i \in 0 .. n - 1 PROVE After(S \cup {n}, i) = After(S, i) \cup {n}
  BY DEF After
<1>. QED BY <1>2, <1>3, <1>4 DEF After

--------------------------------------------------------------------------------
(* One event more.                                                            *)
Extends(n, e, ok) ==
  /\ ok \in BOOLEAN
  /\ Len(log) \in Nat /\ n = Len(log) + 1 /\ Len(log') = n
  /\ \A i \in 1 .. Len(log) : log'[i] = log[i]
  /\ log'[n] = [event |-> e, ok |-> ok]
  /\ kind' = kind /\ kind \in Kinds
  /\ n \in 1 .. Depth[kind] /\ e.at = Clock[n]
  /\ \E in \in Inputs[kind] : e.type = in.type /\ e.payload = in.payload

(* The state the next event is applied to.                                    *)
Cur == IF snap = Nil THEN Zero(kind) ELSE snap

(* What every object type has: a stream, and a snapshot once an event was     *)
(* accepted.                                                                  *)
LogInv ==
  /\ kind \in Kinds
  /\ \E S : log \in Seq(S)
  /\ snap = Nil => Pos = {}

(* The reducer accepts the event, or returns an error for it.                 *)
Takes(n, e) == Extends(n, e, TRUE) /\ snap' = Apply(kind, snap, e) /\ snap' # Nil
Refuses(n, e) == Extends(n, e, FALSE) /\ snap' = snap /\ Apply(kind, snap, e) = Nil

(* Publish is one or the other.                                               *)
LEMMA Steps ==
  ASSUME LogInv, Next
  PROVE  \E n, e : Takes(n, e) \/ Refuses(n, e)
<1>1. PICK in \in Inputs[kind] : Publish(in)
  BY DEF Next
<1>. DEFINE n == Len(log) + 1
            e == [type |-> in.type, payload |-> in.payload, at |-> Clock[n], id |-> ToString(n)]
            ok == Apply(kind, snap, e) # Nil
<1>2. PICK S : log \in Seq(S)
  BY DEF LogInv
<1>3. log' = Append(log, [event |-> e, ok |-> ok])
  BY <1>1 DEF Publish
<1>4. kind' = kind /\ Len(log) < Depth[kind] /\ kind \in Kinds
  BY <1>1 DEF Publish, LogInv
<1>5. snap' = IF ok THEN Apply(kind, snap, e) ELSE snap
  BY <1>1 DEF Publish
<1>6. e.type = in.type /\ e.payload = in.payload /\ e.at = Clock[n]
  OBVIOUS
<1>7. ok \in BOOLEAN
  OBVIOUS
<1>. HIDE DEF e, ok
<1>8. n \in 1 .. Depth[kind]
  BY <1>2, <1>4, LenProperties, DepthAssumption
<1>9. Extends(n, e, ok)
  <2>. DEFINE x == [event |-> e, ok |-> ok]
              U == S \cup {x}
  <2>. HIDE DEF x
  <2>1. log \in Seq(U) /\ x \in U
    BY <1>2
  <2>2. log' = Append(log, x)
    BY <1>3 DEF x
  <2>. HIDE DEF U
  <2>3. /\ Len(log) \in Nat /\ Len(log') = Len(log) + 1
        /\ \A i \in 1 .. Len(log) : log'[i] = log[i]
        /\ log'[Len(log) + 1] = x
    BY <2>1, <2>2, AppendProperties, LenProperties
  <2>. QED BY <1>4, <1>6, <1>7, <1>8, <2>3 DEF Extends, x
<1>10. CASE ok
  <2>1. Extends(n, e, TRUE)
    BY <1>7, <1>9, <1>10
  <2>. QED BY <1>5, <1>10, <2>1 DEF ok, Takes
<1>11. CASE ~ ok
  <2>1. Extends(n, e, FALSE)
    BY <1>7, <1>9, <1>11
  <2>. QED BY <1>5, <1>11, <2>1 DEF ok, Refuses
<1>. QED BY <1>10, <1>11

(* How the sets of positions grow.                                            *)
LEMMA PosStep ==
  ASSUME NEW n, NEW e, NEW ok, Extends(n, e, ok)
  PROVE  /\ Pos \subseteq 1 .. n - 1
         /\ Pos' = IF ok THEN Pos \cup {n} ELSE Pos
BY DEF Extends, Pos

LEMMA LogNext == ASSUME LogInv, Next PROVE LogInv'
<1>1. PICK in \in Inputs[kind] : Publish(in)
  BY DEF Next
<1>2. PICK S : log \in Seq(S)
  BY DEF LogInv
<1>3. PICK x : log' = Append(log, x)
  BY <1>1 DEF Publish
<1>4. log' \in Seq(S \cup {x})
  <2>. DEFINE U == S \cup {x}
  <2>1. log \in Seq(U) /\ x \in U
    BY <1>2
  <2>. HIDE DEF U
  <2>2. log' \in Seq(U)
    BY <1>3, <2>1, AppendProperties
  <2>. QED BY <2>2 DEF U
<1>5. PICK n, e : Takes(n, e) \/ Refuses(n, e)
  BY Steps
<1>6. CASE Takes(n, e)
  BY <1>4, <1>6 DEF Takes, Extends, LogInv
<1>7. CASE Refuses(n, e)
  <2>1. kind' = kind /\ snap' = snap /\ Pos' = Pos
    BY <1>7, PosStep DEF Refuses, Extends
  <2>. QED BY <1>4, <2>1 DEF LogInv
<1>. QED BY <1>5, <1>6, <1>7

LEMMA Earlier ==
  ASSUME NEW n, NEW e, NEW ok, Extends(n, e, ok)
  PROVE  /\ \A i \in 1 .. n - 1 : log'[i] = log[i]
         /\ log'[n].event = e /\ log'[n].ok = ok
         /\ n \in Nat \ {0} /\ Len(log') = n /\ Len(log) = n - 1
BY DEF Extends

LEMMA OfStep ==
  ASSUME NEW n, NEW e, NEW ok, Extends(n, e, ok), NEW types
  PROVE  /\ Of(types) \subseteq 1 .. n - 1
         /\ Of(types)' = IF ok /\ e.type \in types THEN Of(types) \cup {n} ELSE Of(types)
BY PosStep, Earlier DEF Of

LEMMA OfOne ==
  ASSUME NEW n, NEW e, NEW ok, Extends(n, e, ok), NEW type
  PROVE  /\ Of({type}) \in SUBSET (1 .. n - 1)
         /\ Of({type})' = IF ok /\ e.type = type THEN Of({type}) \cup {n} ELSE Of({type})
<1>. DEFINE types == {type}
<1>1. e.type \in types <=> e.type = type
  OBVIOUS
<1>. HIDE DEF types
<1>2. /\ Of(types) \subseteq 1 .. n - 1
      /\ Of(types)' = IF ok /\ e.type \in types THEN Of(types) \cup {n} ELSE Of(types)
  BY OfStep
<1>. QED BY <1>1, <1>2 DEF types

LEMMA WithStep ==
  ASSUME NEW n, NEW e, NEW ok, Extends(n, e, ok), NEW types, NEW k, NEW vs
  PROVE  /\ With(Of(types), k, vs) \subseteq 1 .. n - 1
         /\ With(Of(types), k, vs)' =
              IF ok /\ e.type \in types /\ Str(e, k) \in vs
              THEN With(Of(types), k, vs) \cup {n} ELSE With(Of(types), k, vs)
<1>1. \A i \in 1 .. n - 1 : Val(i, k)' = Val(i, k)
  BY Earlier DEF Val
<1>2. Val(n, k)' = Str(e, k)
  BY Earlier DEF Val
<1>3. /\ Of(types) \subseteq 1 .. n - 1
      /\ Of(types)' = IF ok /\ e.type \in types THEN Of(types) \cup {n} ELSE Of(types)
  BY OfStep
<1>4. With(Of(types), k, vs)' = {i \in Of(types)' : Val(i, k)' \in vs}
  BY DEF With
<1>5. With(Of(types), k, vs) = {i \in Of(types) : Val(i, k) \in vs}
  BY DEF With
<1>. QED BY <1>1, <1>2, <1>3, <1>4, <1>5

(* A list that is cut at its cap keeps its newest entries.                    *)
LEMMA CappedAppend ==
  ASSUME NEW X, NEW L \in Seq(X), NEW x \in X, Len(L) <= LogCap
  PROVE  LET r == Capped(Append(L, x))
         IN  /\ r \in Seq(X)
             /\ Len(r) = IF Len(L) < LogCap THEN Len(L) + 1 ELSE LogCap
             /\ r[Len(r)] = x
             /\ \A d \in 0 .. Len(r) - 2 : r[Len(r) - (d + 1)] = L[Len(L) - d]
<1>. DEFINE M == Append(L, x)
            k == Len(L)
            first == IF k + 1 > LogCap THEN (k + 1) - LogCap + 1 ELSE 1
            r == SubSeq(M, first, k + 1)
<1>1. /\ k \in Nat /\ k <= LogCap /\ Len(M) = k + 1 /\ M[k + 1] = x
      /\ \A i \in 1 .. k : M[i] = L[i]
      /\ \A i \in 1 .. k + 1 : M[i] \in X
  <2>1. M \in Seq(X)
    BY AppendProperties
  <2>. QED BY <2>1, AppendProperties, LenProperties, ElementOfSeq
<1>2. r = Capped(M)
  <2>. HIDE DEF M
  <2>. QED BY <1>1 DEF Capped
<1>. HIDE DEF M, k
<1>3. first \in 1 .. k + 1 /\ (k + 1) - first + 1 = IF k < LogCap THEN k + 1 ELSE LogCap
  <2>1. LogCap \in Nat /\ LogCap >= 1
    BY LogCapAssumption
  <2>2. CASE k < LogCap
    BY <1>1, <2>1, <2>2
  <2>3. CASE ~ (k < LogCap)
    BY <1>1, <2>1, <2>3
  <2>. QED BY <2>2, <2>3
<1>. HIDE DEF first
<1>4. /\ r \in Seq(X) /\ Len(r) = (k + 1) - first + 1
      /\ \A i \in 1 .. (k + 1) - first + 1 : r[i] = M[first + i - 1]
  <2>1. \A i \in first .. k + 1 : M[i] \in X
    BY <1>1, <1>3
  <2>2. first <= k + 1 /\ first \in Int /\ k + 1 \in Int /\ first <= k + 1
    BY <1>1, <1>3
  <2>. QED BY <2>1, <2>2, SubSeqProperties
<1>. HIDE DEF r
<1>5. r[Len(r)] = x
  <2>1. Len(r) \in 1 .. (k + 1) - first + 1 /\ first + Len(r) - 1 = k + 1
    BY <1>1, <1>3, <1>4
  <2>. QED BY <1>1, <1>4, <2>1
<1>6. ASSUME NEW d \in 0 .. Len(r) - 2 PROVE r[Len(r) - (d + 1)] = L[k - d]
  <2>1. /\ Len(r) - (d + 1) \in 1 .. (k + 1) - first + 1
        /\ first + (Len(r) - (d + 1)) - 1 = k - d
        /\ k - d \in 1 .. k
    BY <1>1, <1>3, <1>4
  <2>. QED BY <1>1, <1>4, <2>1
<1>. QED BY <1>2, <1>3, <1>4, <1>5, <1>6 DEF k, M

(* What the newest of the events of some types says of the topic.             *)
LEMMA NewestStep ==
  ASSUME NEW n, NEW e, NEW ok, Extends(n, e, ok), NEW types
  PROVE  /\ Newest(Of(types))' = IF ok /\ e.type \in types THEN n ELSE Newest(Of(types))
         /\ Newest(Of(types)) \in 0 .. n - 1
         /\ Newest(Of(types)) # 0 => Newest(Of(types)) \in Of(types)
<1>. DEFINE S == Of(types)
<1>1. n \in Nat \ {0} /\ S \in SUBSET (1 .. n - 1)
      /\ S' = IF ok /\ e.type \in types THEN S \cup {n} ELSE S
  BY OfStep, Earlier
<1>. HIDE DEF S
<1>2. /\ Newest(S \cup {n}) = n /\ Newest(S) \in 0 .. n - 1
      /\ Newest(S) # 0 => Newest(S) \in S
  BY <1>1, NewestAdd
<1>3. Newest(S)' = Newest(S')
  OBVIOUS
<1>. QED BY <1>1, <1>2, <1>3 DEF S

(* The events before the new one are as they were.                            *)
LEMMA AtStep ==
  ASSUME NEW n, NEW e, NEW ok, Extends(n, e, ok)
  PROVE  /\ At(n)' = e.at /\ \A i \in 1 .. n - 1 : At(i)' = At(i)
         /\ \A k : Val(n, k)' = Str(e, k) /\ \A i \in 1 .. n - 1 : Val(i, k)' = Val(i, k)
BY Earlier DEF At, Val

--------------------------------------------------------------------------------
(* Deployments.                                                               *)
DeployKeys ==
  {"env", "service", "current", "previous", "health", "inProgress", "lastDeployAt",
   "lastSuccessAt"}

(* What an event does to the fields the snapshot is judged by.                *)
DeployStep(s, e, r) ==
  LET h == IF s.health = "" THEN "unknown" ELSE s.health
      done == e.type = "deploy_finished" /\ Outcome(e) = "success"
      is(t) == e.type = t
  IN  /\ DOMAIN r = DeployKeys
      /\ r.health = IF is("health_check_pass") \/ (done /\ h = "unknown") THEN "healthy"
                    ELSE IF is("health_check_fail") THEN Worse(h) ELSE h
      /\ r.inProgress = IF is("deploy_started") THEN TRUE
                        ELSE IF is("rollback") \/ is("deploy_finished") THEN FALSE
                        ELSE s.inProgress
      /\ r.current = IF is("deploy_started") THEN Update(s.current, e, "version")
                     ELSE IF is("rollback") THEN Update(s.previous, e, "to")
                     ELSE s.current
      /\ r.previous = IF \/ is("rollback")
                         \/ is("deploy_started") /\ Str(e, "version") # ""
                      THEN s.current ELSE s.previous

(* The reducer does so, event by event.                                       *)
LEMMA DeployFields ==
  ASSUME NEW s, DOMAIN s = DeployKeys, NEW e
  PROVE  DeployStep(s, e, DeployApply(s, e))
<1>. DEFINE h == IF s.health = "" THEN "unknown" ELSE s.health
            u == [s EXCEPT !.health = IF @ = "" THEN "unknown" ELSE @]
            r == DeployApply(s, e)
<1>1. /\ DOMAIN u = DeployKeys /\ u.health = h /\ u.inProgress = s.inProgress
      /\ u.current = s.current /\ u.previous = s.previous
  BY DEF DeployKeys
<1>. SUFFICES DeployStep(s, e, r)
  OBVIOUS
<1>2. CASE e.type = "deploy_started"
  <2>1. r = [u EXCEPT !.inProgress = TRUE, !.lastDeployAt = e.at,
                      !.previous = IF Str(e, "version") # "" THEN u.current ELSE @,
                      !.current = Update(@, e, "version"),
                      !.env = Update(@, e, "env"), !.service = Update(@, e, "service")]
    BY <1>2 DEF DeployApply
  <2>. HIDE DEF r, u
  <2>2. DOMAIN r = DeployKeys /\ r.inProgress = TRUE /\ r.health = u.health
    BY <1>1, <2>1 DEF DeployKeys
  <2>3. /\ r.current = Update(u.current, e, "version")
        /\ r.previous = IF Str(e, "version") # "" THEN u.current ELSE u.previous
    BY <1>1, <2>1 DEF DeployKeys
  <2>. QED BY <1>1, <1>2, <2>2, <2>3 DEF DeployStep, Update
<1>3. CASE e.type = "health_check_pass"
  <2>1. r = [u EXCEPT !.health = "healthy"]
    BY <1>3 DEF DeployApply
  <2>. HIDE DEF r, u
  <2>. QED BY <1>1, <1>3, <2>1 DEF DeployKeys, DeployStep, Update
<1>4. CASE e.type = "health_check_fail"
  <2>1. r = [u EXCEPT !.health = Worse(@)]
    BY <1>4 DEF DeployApply
  <2>. HIDE DEF r, u
  <2>. QED BY <1>1, <1>4, <2>1 DEF DeployKeys, DeployStep, Update
<1>5. CASE e.type = "rollback"
  <2>1. r = [u EXCEPT !.inProgress = FALSE, !.previous = u.current,
                      !.current = Update(u.previous, e, "to")]
    BY <1>5 DEF DeployApply
  <2>. HIDE DEF r, u
  <2>. QED BY <1>1, <1>5, <2>1 DEF DeployKeys, DeployStep, Update
<1>6. CASE e.type = "deploy_finished"
  <2>1. r = [u EXCEPT !.inProgress = FALSE,
                      !.lastSuccessAt = IF Outcome(e) = "success" THEN e.at ELSE @,
                      !.health = IF Outcome(e) = "success" /\ @ = "unknown" THEN "healthy" ELSE @]
    BY <1>6 DEF DeployApply
  <2>. HIDE DEF r, u
  <2>. QED BY <1>1, <1>6, <2>1 DEF DeployKeys, DeployStep, Update
<1>7. CASE e.type \notin {"deploy_started", "health_check_pass", "health_check_fail", "rollback",
                         "deploy_finished"}
  <2>1. r = u
    BY <1>7 DEF DeployApply
  <2>. HIDE DEF r, u
  <2>. QED BY <1>1, <1>7, <2>1 DEF DeployStep
<1>. QED BY <1>2, <1>3, <1>4, <1>5, <1>6, <1>7

(* Health: the checks, the finished deployments that count for the first of   *)
(* them, the last sign of health and the failures since.                      *)
Pass == Of({"health_check_pass"})
Fail == Of({"health_check_fail"})
Vouched ==
  {i \in With(Of({"deploy_finished"}), "status", {"", "success"}) : Before(Pass \cup Fail, i) = {}}
Well == Newest(Pass \cup Vouched)
Fails == Cardinality(After(Fail, Well))

(* What they say of the health.                                               *)
Verdict(fails, well) ==
  CASE fails = 0 -> IF well = 0 THEN "unknown" ELSE "healthy"
    [] fails = 1 -> IF well = 0 THEN "down" ELSE "degraded"
    [] OTHER -> "down"

LEMMA VerdictIs ==
  ASSUME NEW fails \in Nat, NEW well
  PROVE  Verdict(fails, well) =
           IF fails = 0 THEN IF well = 0 THEN "unknown" ELSE "healthy"
           ELSE IF fails = 1 /\ well # 0 THEN "degraded" ELSE "down"
BY DEF Verdict

LEMMA HealthSets ==
  ASSUME NEW n, NEW e, NEW ok, Extends(n, e, ok)
  PROVE  /\ n \in Nat \ {0}
         /\ Pass \subseteq 1 .. n - 1 /\ Fail \subseteq 1 .. n - 1 /\ Vouched \subseteq 1 .. n - 1
         /\ Pass' = IF ok /\ e.type = "health_check_pass" THEN Pass \cup {n} ELSE Pass
         /\ Fail' = IF ok /\ e.type = "health_check_fail" THEN Fail \cup {n} ELSE Fail
         /\ Vouched' = IF /\ ok /\ e.type = "deploy_finished" /\ Outcome(e) = "success"
                         /\ Pass \cup Fail = {}
                       THEN Vouched \cup {n} ELSE Vouched
<1>. DEFINE D == With(Of({"deploy_finished"}), "status", {"", "success"})
            C == Pass \cup Fail
            ends == ok /\ e.type = "deploy_finished" /\ Outcome(e) = "success"
<1>1. /\ n \in Nat \ {0} /\ ok \in BOOLEAN
      /\ Pass \subseteq 1 .. n - 1 /\ Fail \subseteq 1 .. n - 1
      /\ Pass' = IF ok /\ e.type = "health_check_pass" THEN Pass \cup {n} ELSE Pass
      /\ Fail' = IF ok /\ e.type = "health_check_fail" THEN Fail \cup {n} ELSE Fail
  <2>1. n \in Nat \ {0} /\ ok \in BOOLEAN
    BY Earlier DEF Extends
  <2>2. /\ Pass \in SUBSET (1 .. n - 1)
        /\ Pass' = IF ok /\ e.type = "health_check_pass" THEN Pass \cup {n} ELSE Pass
    BY OfOne DEF Pass
  <2>3. /\ Fail \in SUBSET (1 .. n - 1)
        /\ Fail' = IF ok /\ e.type = "health_check_fail" THEN Fail \cup {n} ELSE Fail
    BY OfOne DEF Fail
  <2>. QED BY <2>1, <2>2, <2>3
<1>2. D \subseteq 1 .. n - 1 /\ D' = IF ends THEN D \cup {n} ELSE D
  <2>1. Outcome(e) = "success" <=> Str(e, "status") \in {"", "success"}
    BY DEF Outcome
  <2>2. /\ With(Of({"deploy_finished"}), "status", {"", "success"}) \subseteq 1 .. n - 1
        /\ With(Of({"deploy_finished"}), "status", {"", "success"})' =
             IF /\ ok /\ e.type \in {"deploy_finished"}
                /\ Str(e, "status") \in {"", "success"}
             THEN With(Of({"deploy_finished"}), "status", {"", "success"}) \cup {n}
             ELSE With(Of({"deploy_finished"}), "status", {"", "success"})
    <3>. DEFINE types == {"deploy_finished"}
                vs == {"", "success"}
    <3>. HIDE DEF types, vs
    <3>1. /\ With(Of(types), "status", vs) \subseteq 1 .. n - 1
          /\ With(Of(types), "status", vs)' =
               IF ok /\ e.type \in types /\ Str(e, "status") \in vs
               THEN With(Of(types), "status", vs) \cup {n} ELSE With(Of(types), "status", vs)
      BY WithStep
    <3>. QED BY <3>1 DEF types, vs
  <2>. QED BY <2>1, <2>2
<1>3. C \in SUBSET (1 .. n - 1) /\ (C' = C \/ C' = C \cup {n})
  BY <1>1
<1>4. \A i \in 1 .. n - 1 : Before(C', i) = Before(C, i)
  <2>. HIDE DEF C
  <2>1. \A i \in 0 .. n - 1 : Before(C \cup {n}, i) = Before(C, i)
    BY <1>1, <1>3, BeforeAdd
  <2>. QED BY <1>3, <2>1
<1>5. ends => Before(C', n) = C
  <2>1. ends => C' = C
    BY <1>1
  <2>. HIDE DEF C
  <2>. QED BY <1>1, <1>3, <2>1, BeforeAdd
<1>6. Vouched' = {i \in D' : Before(C', i) = {}} /\ Vouched = {i \in D : Before(C, i) = {}}
  BY DEF Vouched
<1>7. Vouched' = IF ends /\ C = {} THEN Vouched \cup {n} ELSE Vouched
  <2>. HIDE DEF D, C, ends
  <2>. QED BY <1>1, <1>2, <1>4, <1>5, <1>6
<1>8. Vouched \subseteq 1 .. n - 1
  <2>. HIDE DEF D, C
  <2>. QED BY <1>2, <1>6
<1>. QED BY <1>1, <1>7, <1>8

LEMMA HealthStep ==
  ASSUME NEW n, NEW e, NEW ok, Extends(n, e, ok)
  PROVE  /\ Well \in Nat /\ Fails \in Nat /\ n # 0
         /\ ok /\ e.type = "health_check_pass" => Well' = n /\ Fails' = 0
         /\ ok /\ e.type = "health_check_fail" => Well' = Well /\ Fails' = Fails + 1
         /\ ok /\ e.type = "deploy_finished" /\ Outcome(e) = "success" =>
              \/ Fails = 0 /\ Well' = n /\ Fails' = 0
              \/ (Well # 0 \/ Fails # 0) /\ Well' = Well /\ Fails' = Fails
         /\ \/ ~ ok
            \/ /\ e.type \notin {"health_check_pass", "health_check_fail"}
               /\ ~ (e.type = "deploy_finished" /\ Outcome(e) = "success")
            => Well' = Well /\ Fails' = Fails
<1>. DEFINE P == Pass \cup Vouched
            ends == ok /\ e.type = "deploy_finished" /\ Outcome(e) = "success"
<1>1. /\ n \in Nat \ {0} /\ Fail \in SUBSET (1 .. n - 1) /\ P \in SUBSET (1 .. n - 1)
      /\ ok \in BOOLEAN
  BY HealthSets DEF Extends
<1>2. Well = Newest(P) /\ Well' = Newest(P')
  BY DEF Well
<1>3. Well \in 0 .. n - 1 /\ (P = {} <=> Well = 0) /\ Newest(P \cup {n}) = n
  BY <1>1, <1>2, NewestAdd
<1>4. P' = IF (ok /\ e.type = "health_check_pass") \/ (ends /\ Pass \cup Fail = {})
           THEN P \cup {n} ELSE P
  BY HealthSets
<1>5. /\ Fail' = IF ok /\ e.type = "health_check_fail" THEN Fail \cup {n} ELSE Fail
      /\ Pass # {} => Well # 0
  BY <1>3, HealthSets
<1>. HIDE DEF P
<1>6. /\ After(Fail, Well) \in SUBSET (1 .. n - 1)
      /\ After(Fail \cup {n}, Well) = After(Fail, Well) \cup {n}
      /\ After(Fail, n) = {} /\ After(Fail, 0) = Fail
  <2>1. /\ \A i \in 0 .. n - 1 : After(Fail \cup {n}, i) = After(Fail, i) \cup {n}
        /\ \A i : After(Fail, i) \subseteq Fail
        /\ After(Fail, n) = {} /\ After(Fail, 0) = Fail
    BY <1>1, AfterAdd
  <2>. QED BY <1>1, <1>3, <2>1
<1>7. /\ Fails \in Nat /\ Cardinality(After(Fail \cup {n}, Well)) = Fails + 1
      /\ Fails = 0 <=> After(Fail, Well) = {}
  <2>. DEFINE F == After(Fail, Well)
  <2>. HIDE DEF F
  <2>1. F \in SUBSET (1 .. n - 1)
    BY <1>6 DEF F
  <2>2. Cardinality(F) \in Nat /\ Cardinality(F \cup {n}) = Cardinality(F) + 1
        /\ (Cardinality(F) = 0 <=> F = {})
    BY <1>1, <2>1, CountAdd
  <2>. QED BY <1>6, <2>2 DEF Fails, F
<1>8. Fails' = Cardinality(After(Fail', Well')) /\ Fails = Cardinality(After(Fail, Well))
  BY DEF Fails
<1>9. Cardinality({}) = 0
  BY FS_EmptySet
<1>0. Well \in Nat /\ Fails \in Nat /\ n # 0
  BY <1>1, <1>3, <1>7
<1>10. CASE ok /\ e.type = "health_check_pass"
  <2>1. Well' = n /\ Fail' = Fail
    BY <1>2, <1>3, <1>4, <1>5, <1>10
  <2>. QED BY <1>1, <1>3, <1>6, <1>7, <1>8, <1>9, <1>10, <2>1
<1>11. CASE ok /\ e.type = "health_check_fail"
  <2>1. Well' = Well /\ Fail' = Fail \cup {n}
    BY <1>2, <1>4, <1>5, <1>11
  <2>2. Fails' = Fails + 1
    BY <1>6, <1>7, <1>8, <2>1
  <2>. QED BY <1>1, <1>3, <1>7, <1>11, <2>1, <2>2
<1>12. CASE ends /\ Pass \cup Fail = {}
  <2>1. Well' = n /\ Fail' = Fail /\ Fail = {}
    BY <1>2, <1>3, <1>4, <1>5, <1>12
  <2>2. After(Fail, Well) = {}
    BY <2>1 DEF After
  <2>3. Fails = 0 /\ After(Fail', Well') = {}
    BY <1>6, <1>7, <2>1, <2>2
  <2>. QED BY <1>0, <1>8, <1>9, <1>12, <2>1, <2>3
<1>13. CASE ends /\ Pass \cup Fail # {}
  <2>1. Well' = Well /\ Fail' = Fail
    BY <1>2, <1>4, <1>5, <1>13
  <2>2. Well # 0 \/ Fails # 0
    BY <1>5, <1>6, <1>7, <1>13
  <2>. QED BY <1>1, <1>3, <1>7, <1>8, <1>13, <2>1, <2>2
<1>14. CASE /\ ~ (ok /\ e.type \in {"health_check_pass", "health_check_fail"})
            /\ ~ ends
  <2>1. Well' = Well /\ Fail' = Fail
    BY <1>2, <1>4, <1>5, <1>14
  <2>. QED BY <1>1, <1>3, <1>7, <1>8, <1>14, <2>1
<1>. QED BY <1>1, <1>10, <1>11, <1>12, <1>13, <1>14

(* Versions: the decision that stands, and the rollbacks since.               *)
Named(i) == Val(i, IF log[i].event.type = "rollback" THEN "to" ELSE "version")
Decisions == {i \in Of({"deploy_started", "rollback"}) : Named(i) # ""}
Chosen == Newest(Decisions)
Swaps == Cardinality(After(Of({"rollback"}), Chosen))

LEMMA VersionStep ==
  ASSUME NEW n, NEW e, NEW ok, Extends(n, e, ok)
  PROVE  LET new == \/ ok /\ e.type = "deploy_started" /\ Str(e, "version") # ""
                    \/ ok /\ e.type = "rollback" /\ Str(e, "to") # ""
             swap == ok /\ e.type = "rollback" /\ Str(e, "to") = ""
         IN  /\ Chosen \in Nat /\ Swaps \in Nat /\ n # 0
             /\ Chosen # 0 => Chosen \in 1 .. n - 1
             /\ new => Chosen' = n /\ Swaps' = 0
             /\ swap => Chosen' = Chosen /\ Swaps' = Swaps + 1
             /\ ~ new /\ ~ swap => Chosen' = Chosen /\ Swaps' = Swaps
             /\ Named(n)' = Str(e, IF e.type = "rollback" THEN "to" ELSE "version")
             /\ \A i \in 1 .. n - 1 : Named(i)' = Named(i)
<1>. DEFINE D == Decisions
            R == Of({"rollback"})
            back == ok /\ e.type = "rollback"
            start == ok /\ e.type = "deploy_started"
<1>1. n \in Nat \ {0} /\ ok \in BOOLEAN
  BY Earlier DEF Extends
<1>2. R \in SUBSET (1 .. n - 1) /\ R' = IF back THEN R \cup {n} ELSE R
  BY OfOne
<1>3. /\ \A i \in 1 .. n - 1 : Named(i)' = Named(i)
      /\ Named(n)' = Str(e, IF e.type = "rollback" THEN "to" ELSE "version")
  BY Earlier DEF Named, Val
<1>4. /\ D \in SUBSET (1 .. n - 1)
      /\ D' = IF (start /\ Str(e, "version") # "") \/ (back /\ Str(e, "to") # "")
              THEN D \cup {n} ELSE D
  <2>. DEFINE types == {"deploy_started", "rollback"}
              S == Of(types)
  <2>1. ok /\ e.type \in types <=> start \/ back
    BY <1>1
  <2>. HIDE DEF types
  <2>2. /\ S \subseteq 1 .. n - 1
        /\ S' = IF ok /\ e.type \in types THEN S \cup {n} ELSE S
    BY OfStep
  <2>3. D = {i \in S : Named(i) # ""} /\ D' = {i \in S' : Named(i)' # ""}
    BY DEF Decisions, types
  <2>4. start => Named(n)' = Str(e, "version")
    BY <1>3
  <2>5. back => Named(n)' = Str(e, "to")
    BY <1>3
  <2>6. ~ (start /\ back)
    OBVIOUS
  <2>. HIDE DEF S, D, start, back
  <2>7. CASE start \/ back
    <3>1. S' = S \cup {n}
      BY <2>1, <2>2, <2>7
    <3>. QED BY <1>1, <1>3, <2>2, <2>3, <2>4, <2>5, <2>6, <2>7, <3>1
  <2>8. CASE ~ (start \/ back)
    <3>1. S' = S
      BY <2>1, <2>2, <2>8
    <3>. QED BY <1>1, <1>3, <2>2, <2>3, <2>8, <3>1
  <2>. QED BY <2>7, <2>8
<1>5. Chosen = Newest(D) /\ Chosen' = Newest(D')
  BY DEF Chosen
<1>. HIDE DEF D
<1>6. /\ Chosen \in 0 .. n - 1 /\ Newest(D \cup {n}) = n
      /\ Chosen # 0 => Chosen \in 1 .. n - 1
  BY <1>1, <1>4, <1>5, NewestAdd
<1>7. Swaps = Cardinality(After(R, Chosen)) /\ Swaps' = Cardinality(After(R', Chosen'))
  BY DEF Swaps
<1>. HIDE DEF R
<1>8. /\ After(R, Chosen) \in SUBSET (1 .. n - 1)
      /\ After(R \cup {n}, Chosen) = After(R, Chosen) \cup {n}
      /\ After(R, n) = {} /\ After(R \cup {n}, n) = {}
  <2>1. /\ \A i \in 0 .. n - 1 : After(R \cup {n}, i) = After(R, i) \cup {n}
        /\ \A i : After(R, i) \subseteq R
        /\ After(R, n) = {} /\ After(R \cup {n}, n) = {}
    BY <1>1, <1>2, AfterAdd
  <2>. QED BY <1>2, <1>6, <2>1
<1>9. Swaps \in Nat /\ Cardinality(After(R \cup {n}, Chosen)) = Swaps + 1
  <2>. DEFINE F == After(R, Chosen)
  <2>. HIDE DEF F
  <2>1. F \in SUBSET (1 .. n - 1)
    BY <1>8 DEF F
  <2>2. Cardinality(F) \in Nat /\ Cardinality(F \cup {n}) = Cardinality(F) + 1
    BY <1>1, <2>1, CountAdd
  <2>. QED BY <1>7, <1>8, <2>2 DEF F
<1>10. Cardinality({}) = 0
  BY FS_EmptySet
<1>11. Chosen \in Nat /\ Swaps \in Nat /\ n # 0 /\ (Chosen # 0 => Chosen \in 1 .. n - 1)
  BY <1>1, <1>6, <1>9
<1>12. CASE (start /\ Str(e, "version") # "") \/ (back /\ Str(e, "to") # "")
  <2>1. Chosen' = n /\ (R' = R \/ R' = R \cup {n})
    BY <1>2, <1>4, <1>5, <1>6, <1>12
  <2>2. Swaps' = 0
    BY <1>7, <1>8, <1>10, <2>1
  <2>. QED BY <1>3, <1>11, <1>12, <2>1, <2>2
<1>13. CASE back /\ Str(e, "to") = ""
  <2>1. Chosen' = Chosen /\ R' = R \cup {n}
    BY <1>2, <1>4, <1>5, <1>13
  <2>2. Swaps' = Swaps + 1
    BY <1>7, <1>9, <2>1
  <2>. QED BY <1>3, <1>11, <1>13, <2>1, <2>2
<1>14. CASE ~ (start /\ Str(e, "version") # "") /\ ~ back
  <2>1. Chosen' = Chosen /\ R' = R
    BY <1>2, <1>4, <1>5, <1>14
  <2>2. Swaps' = Swaps
    BY <1>7, <2>1
  <2>. QED BY <1>3, <1>11, <1>14, <2>1, <2>2
<1>. QED BY <1>12, <1>13, <1>14

(* Whether a deployment is under way.                                         *)
Starts == Of({"deploy_started"})
Ends == Of({"rollback", "deploy_finished"})
Going == Starts # {} /\ Newest(Starts) > Newest(Ends)

(* Only a start sets it, and the two ends clear it.                           *)
LEMMA ProgressStep ==
  ASSUME NEW n, NEW e, NEW ok, Extends(n, e, ok)
  PROVE  /\ ok /\ e.type = "deploy_started" => Going'
         /\ ok /\ e.type \in {"rollback", "deploy_finished"} => ~ Going'
         /\ ~ ok \/ e.type \notin {"deploy_started", "rollback", "deploy_finished"}
            => (Going' <=> Going)
<1>. DEFINE types == {"rollback", "deploy_finished"}
<1>1. n \in Nat \ {0} /\ ok \in BOOLEAN
  BY Earlier DEF Extends
<1>2. /\ Starts \in SUBSET (1 .. n - 1)
      /\ Starts' = IF ok /\ e.type = "deploy_started" THEN Starts \cup {n} ELSE Starts
  BY OfOne DEF Starts
<1>3. ~ (e.type = "deploy_started" /\ e.type \in types)
  OBVIOUS
<1>. HIDE DEF types
<1>4. /\ Ends \in SUBSET (1 .. n - 1)
      /\ Ends' = IF ok /\ e.type \in types THEN Ends \cup {n} ELSE Ends
  BY OfStep DEF Ends, types
<1>5. /\ Newest(Starts) \in 0 .. n - 1 /\ Newest(Starts \cup {n}) = n
      /\ Newest(Ends) \in 0 .. n - 1 /\ Newest(Ends \cup {n}) = n
  BY <1>1, <1>2, <1>4, NewestAdd
<1>6. CASE ok /\ e.type = "deploy_started"
  <2>1. Starts' = Starts \cup {n} /\ Ends' = Ends
    BY <1>2, <1>3, <1>4, <1>6
  <2>2. Newest(Starts') > Newest(Ends')
    BY <1>1, <1>5, <2>1
  <2>3. Going'
    BY <2>1, <2>2 DEF Going
  <2>. QED BY <1>3, <1>6, <2>3 DEF types
<1>7. CASE ok /\ e.type \in types
  <2>1. Starts' = Starts /\ Ends' = Ends \cup {n}
    BY <1>2, <1>3, <1>4, <1>7
  <2>2. ~ (Newest(Starts') > Newest(Ends'))
    BY <1>1, <1>5, <2>1
  <2>3. ~ Going'
    BY <2>2 DEF Going
  <2>. QED BY <1>3, <1>7, <2>3 DEF types
<1>8. CASE ~ (ok /\ e.type = "deploy_started") /\ ~ (ok /\ e.type \in types)
  <2>1. Starts' = Starts /\ Ends' = Ends
    BY <1>2, <1>4, <1>8
  <2>2. Going' <=> Going
    BY <2>1 DEF Going
  <2>. QED BY <1>8, <2>2 DEF types
<1>. QED BY <1>6, <1>7, <1>8

(* An inductive invariant of deployments. A version is current or previous by *)
(* the parity of the rollbacks that named none.                               *)
DeployInv == kind = "deploy" =>
  /\ DOMAIN Cur = DeployKeys
  /\ (IF Cur.health = "" THEN "unknown" ELSE Cur.health) = Verdict(Fails, Well)
  /\ snap # Nil => Cur.health # ""
  /\ Chosen = 0 => Cur.current = "" /\ Cur.previous = ""
  /\ Chosen # 0 => Named(Chosen) = IF Swaps % 2 = 0 THEN Cur.current ELSE Cur.previous
  /\ Cur.inProgress <=> Going
  /\ Cur.inProgress \in BOOLEAN

LEMMA DeployInit == Init => LogInv /\ DeployInv
<1>1. SUFFICES ASSUME Init PROVE LogInv /\ DeployInv
  OBVIOUS
<1>2. Pos = {} /\ \A types : Of(types) = {}
  BY <1>1, EmptySeq DEF Init, Pos, Of
<1>3. LogInv
  <2>1. <<>> \in Seq({})
    BY EmptySeq
  <2>. QED BY <1>1, <1>2, <2>1 DEF Init, LogInv
<1>4. ASSUME kind = "deploy" PROVE DeployInv
  <2>1. Cur = DeployZero
    BY <1>1, <1>4 DEF Init, Cur, Zero
  <2>2. Pass = {} /\ Fail = {} /\ Vouched = {} /\ Decisions = {} /\ Starts = {}
    BY <1>2 DEF Pass, Fail, Vouched, With, Decisions, Starts
  <2>3. Well = 0 /\ Chosen = 0
    BY <2>2 DEF Well, Chosen, Newest
  <2>4. Fails = 0
    BY <2>2, FS_EmptySet DEF Fails, After
  <2>5. DOMAIN Cur = DeployKeys
    BY <2>1 DEF DeployZero, DeployKeys
  <2>6. Cur.health = "" /\ Cur.current = "" /\ Cur.previous = "" /\ Cur.inProgress = FALSE
    BY <2>1 DEF DeployZero
  <2>7. Verdict(Fails, Well) = "unknown" /\ ~ Going /\ snap = Nil
    BY <1>1, <2>2, <2>3, <2>4 DEF Verdict, Going, Init
  <2>. QED BY <2>3, <2>5, <2>6, <2>7 DEF DeployInv
<1>. QED BY <1>3, <1>4 DEF DeployInv

LEMMA DeployNext ==
  ASSUME LogInv, DeployInv, Next PROVE DeployInv'
<1>1. PICK n, e : Takes(n, e) \/ Refuses(n, e)
  BY Steps
<1>2. SUFFICES ASSUME kind = "deploy" PROVE DeployInv'
  BY <1>1 DEF DeployInv, Extends, Takes, Refuses
<1>. DEFINE s == Cur
            r == DeployApply(s, e)
<1>3. kind' = kind
  BY <1>1 DEF Extends, Takes, Refuses
<1>4. Apply(kind, snap, e) = r
  BY <1>2 DEF Apply, Cur
<1>5. DOMAIN s = DeployKeys /\ DeployStep(s, e, r)
  BY <1>2, DeployFields DEF DeployInv
<1>. HIDE DEF r
<1>6. CASE Takes(n, e)
  <2>1. Cur' = r /\ snap' # Nil /\ Extends(n, e, TRUE)
    BY <1>4, <1>6 DEF Takes, Cur
  <2>. DEFINE h == IF s.health = "" THEN "unknown" ELSE s.health
              success == e.type = "deploy_finished" /\ Outcome(e) = "success"
  <2>2. h = Verdict(Fails, Well)
    BY <1>2 DEF DeployInv
  <2>3. DOMAIN Cur' = DeployKeys /\ Cur'.health # "" /\ Cur'.health = Verdict(Fails', Well')
    <3>0. /\ DOMAIN r = DeployKeys
          /\ r.health = IF e.type = "health_check_pass" \/ (success /\ h = "unknown") THEN "healthy"
                        ELSE IF e.type = "health_check_fail" THEN Worse(h) ELSE h
      BY <1>5 DEF DeployStep
    <3>1. Well \in Nat /\ Fails \in Nat /\ n # 0
      BY <2>1, HealthStep
    <3>2. CASE e.type = "health_check_pass"
      <4>1. Well' = n /\ Fails' = 0
        BY <2>1, <3>2, HealthStep
      <4>2. Verdict(0, n) = "healthy"
        BY <3>1, VerdictIs
      <4>. QED BY <2>1, <3>0, <3>2, <4>1, <4>2
    <3>3. CASE e.type = "health_check_fail"
      <4>1. Well' = Well /\ Fails' = Fails + 1
        BY <2>1, <3>3, HealthStep
      <4>2. Worse(h) = Verdict(Fails + 1, Well) /\ Worse(h) # ""
        <5>1. Fails + 1 \in Nat /\ Fails + 1 # 0 /\ (Fails + 1 = 1 <=> Fails = 0)
          BY <3>1
        <5>. QED BY <2>2, <3>1, <5>1, VerdictIs DEF Worse
      <4>. QED BY <2>1, <3>0, <3>3, <4>1, <4>2
    <3>4. CASE success
      <4>1. \/ Fails = 0 /\ Well' = n /\ Fails' = 0
            \/ (Well # 0 \/ Fails # 0) /\ Well' = Well /\ Fails' = Fails
        BY <2>1, <3>4, HealthStep
      <4>2. Fails = 0 => h \in {"unknown", "healthy"}
        BY <2>2, <3>1, VerdictIs
      <4>3. Well # 0 \/ Fails # 0 => h # "unknown" /\ h # ""
        BY <2>2, <3>1, VerdictIs
      <4>4. Verdict(0, n) = "healthy"
        BY <3>1, VerdictIs
      <4>5. ~ (e.type = "health_check_pass") /\ ~ (e.type = "health_check_fail")
        BY <3>4
      <4>6. CASE Fails = 0 /\ Well' = n /\ Fails' = 0
        <5>1. r.health = "healthy"
          BY <3>0, <3>4, <4>2, <4>5, <4>6
        <5>. QED BY <2>1, <3>0, <4>4, <4>6, <5>1
      <4>7. CASE (Well # 0 \/ Fails # 0) /\ Well' = Well /\ Fails' = Fails
        <5>1. r.health = h
          BY <3>0, <4>3, <4>5, <4>7
        <5>. QED BY <2>1, <2>2, <3>0, <4>3, <4>7, <5>1
      <4>. QED BY <4>1, <4>6, <4>7
    <3>5. CASE e.type \notin {"health_check_pass", "health_check_fail"} /\ ~ success
      <4>1. Well' = Well /\ Fails' = Fails
        BY <2>1, <3>5, HealthStep
      <4>2. h # ""
        BY <2>2, <3>1, VerdictIs
      <4>. QED BY <2>1, <2>2, <3>0, <3>5, <4>1, <4>2
    <3>. QED BY <3>2, <3>3, <3>4, <3>5
  <2>4. /\ Chosen' = 0 => Cur'.current = "" /\ Cur'.previous = ""
        /\ Chosen' # 0 =>
             Named(Chosen)' = IF Swaps' % 2 = 0 THEN Cur'.current ELSE Cur'.previous
    <3>1. /\ Chosen = 0 => s.current = "" /\ s.previous = ""
          /\ Chosen # 0 => Named(Chosen) = IF Swaps % 2 = 0 THEN s.current ELSE s.previous
      BY <1>2 DEF DeployInv
    <3>2. /\ r.current = IF e.type = "deploy_started" THEN Update(s.current, e, "version")
                         ELSE IF e.type = "rollback" THEN Update(s.previous, e, "to")
                         ELSE s.current
          /\ r.previous = IF \/ e.type = "rollback"
                             \/ e.type = "deploy_started" /\ Str(e, "version") # ""
                          THEN s.current ELSE s.previous
      BY <1>5 DEF DeployStep
    <3>3. /\ Chosen \in Nat /\ Swaps \in Nat /\ n # 0
          /\ Chosen # 0 => Chosen \in 1 .. n - 1
          /\ Named(n)' = Str(e, IF e.type = "rollback" THEN "to" ELSE "version")
          /\ \A i \in 1 .. n - 1 : Named(i)' = Named(i)
      BY <2>1, VersionStep
    <3>4. CASE e.type = "deploy_started" /\ Str(e, "version") # ""
      <4>1. Chosen' = n /\ Swaps' = 0
        BY <2>1, <3>4, VersionStep
      <4>2. r.current = Str(e, "version") /\ Named(n)' = Str(e, "version")
        BY <3>2, <3>3, <3>4 DEF Update
      <4>3. Named(Chosen)' = r.current /\ Swaps' % 2 = 0 /\ Chosen' # 0
        BY <3>3, <4>1, <4>2
      <4>. QED BY <2>1, <4>3
    <3>5. CASE e.type = "rollback" /\ Str(e, "to") # ""
      <4>1. Chosen' = n /\ Swaps' = 0
        BY <2>1, <3>5, VersionStep
      <4>2. r.current = Str(e, "to") /\ Named(n)' = Str(e, "to")
        BY <3>2, <3>3, <3>5 DEF Update
      <4>3. Named(Chosen)' = r.current /\ Swaps' % 2 = 0 /\ Chosen' # 0
        BY <3>3, <4>1, <4>2
      <4>. QED BY <2>1, <4>3
    <3>6. CASE e.type = "rollback" /\ Str(e, "to") = ""
      <4>1. Chosen' = Chosen /\ Swaps' = Swaps + 1
        BY <2>1, <3>6, VersionStep
      <4>2. r.current = s.previous /\ r.previous = s.current
        BY <3>2, <3>6 DEF Update
      <4>3. (Swaps + 1) % 2 = 0 <=> Swaps % 2 # 0
        BY <3>3
      <4>4. Chosen # 0 => Named(Chosen)' = Named(Chosen)
        BY <3>3, <4>1
      <4>. QED BY <2>1, <3>1, <4>1, <4>2, <4>3, <4>4
    <3>7. CASE ~ (e.type = "deploy_started" /\ Str(e, "version") # "") /\ e.type # "rollback"
      <4>1. Chosen' = Chosen /\ Swaps' = Swaps
        BY <2>1, <3>7, VersionStep
      <4>2. r.current = s.current /\ r.previous = s.previous
        BY <3>2, <3>7 DEF Update
      <4>3. Chosen # 0 => Named(Chosen)' = Named(Chosen)
        BY <3>3, <4>1
      <4>. QED BY <2>1, <3>1, <4>1, <4>2, <4>3
    <3>. QED BY <3>4, <3>5, <3>6, <3>7
  <2>5. Cur'.inProgress \in BOOLEAN /\ (Cur'.inProgress <=> Going')
    <3>1. r.inProgress = IF e.type = "deploy_started" THEN TRUE
                         ELSE IF e.type = "rollback" \/ e.type = "deploy_finished" THEN FALSE
                         ELSE s.inProgress
      BY <1>5 DEF DeployStep
    <3>2. s.inProgress \in BOOLEAN /\ (s.inProgress <=> Going)
      BY <1>2 DEF DeployInv
    <3>3. CASE e.type = "deploy_started"
      <4>1. Going'
        BY <2>1, <3>3, ProgressStep
      <4>. QED BY <2>1, <3>1, <3>3, <4>1
    <3>4. CASE e.type \in {"rollback", "deploy_finished"}
      <4>1. ~ Going'
        BY <2>1, <3>4, ProgressStep
      <4>. QED BY <2>1, <3>1, <3>4, <4>1
    <3>5. CASE e.type \notin {"deploy_started", "rollback", "deploy_finished"}
      <4>1. Going' <=> Going
        BY <2>1, <3>5, ProgressStep
      <4>. QED BY <2>1, <3>1, <3>2, <3>5, <4>1
    <3>. QED BY <3>3, <3>4, <3>5
  <2>. QED BY <2>1, <2>3, <2>4, <2>5 DEF DeployInv
<1>7. CASE Refuses(n, e)
  <2>1. Cur' = Cur /\ snap' = snap /\ Extends(n, e, FALSE)
    BY <1>3, <1>7 DEF Refuses, Cur
  <2>2. Well' = Well /\ Fails' = Fails
    BY <2>1, HealthStep
  <2>3. Chosen' = Chosen /\ Swaps' = Swaps /\ (Chosen # 0 => Named(Chosen)' = Named(Chosen))
    BY <2>1, VersionStep
  <2>4. Going' <=> Going
    BY <2>1, ProgressStep
  <2>. QED BY <1>2, <1>3, <2>1, <2>2, <2>3, <2>4 DEF DeployInv, s
<1>. QED BY <1>1, <1>6, <1>7

(* However starts, finishes, health checks and rollbacks follow each other,   *)
(* the snapshot's health, versions and progress are what the whole stream     *)
(* says of them (deploy.go:41-78).                                            *)
THEOREM DeploysAreTold == Spec => []DeploySnapshot
<1>1. Init => LogInv /\ DeployInv
  BY DeployInit
<1>2. LogInv /\ DeployInv /\ [Next]_vars => LogInv' /\ DeployInv'
  <2>1. SUFFICES ASSUME LogInv, DeployInv, [Next]_vars PROVE LogInv' /\ DeployInv'
    OBVIOUS
  <2>2. CASE Next
    BY <2>1, <2>2, LogNext, DeployNext
  <2>3. CASE UNCHANGED vars
    <3>1. LogInv'
      BY <2>1, <2>3 DEF vars, LogInv, Pos
    <3>2. DeployInv' <=> DeployInv
      BY <2>3 DEF vars, DeployInv, Cur, Fails, Well, Vouched, Pass, Fail, Chosen, Swaps, Decisions,
                  Named, Going, Starts, Ends, With, Of, Pos, Val
    <3>. QED BY <2>1, <3>1, <3>2
  <2>. QED BY <2>1, <2>2, <2>3
<1>3. DeployInv => DeploySnapshot
  <2>1. SUFFICES ASSUME DeployInv, kind = "deploy", snap # Nil PROVE DeploySnapshot
    BY DEF DeploySnapshot, Is
  <2>2. /\ snap.health = Verdict(Fails, Well)
        /\ Chosen # 0 => Named(Chosen) = IF Swaps % 2 = 0 THEN snap.current ELSE snap.previous
        /\ snap.inProgress <=> Going
    BY <2>1 DEF DeployInv, Cur
  <2>. QED BY <2>2 DEF DeploySnapshot, Verdict, Fails, Well, Vouched, Pass, Fail, Chosen, Swaps,
                       Decisions, Named, Going, Starts, Ends
<1>. QED BY <1>1, <1>2, <1>3, PTL DEF Spec

--------------------------------------------------------------------------------
(* Jobs.                                                                      *)

(* The last event that decides the percentage, and what it says.              *)
Reports == {i \in Of({"job_progress"}) : Get(log[i].event, "percent", 0) > 0}
Decided == Newest(Reports \cup Of({"job_finished"}))
Percent ==
  IF Decided = 0 THEN 0
  ELSE IF Decided \in Reports THEN log[Decided].event.payload.percent ELSE 100

LEMMA PercentStep ==
  ASSUME NEW n, NEW e, NEW ok, Extends(n, e, ok)
  PROVE  Percent' = IF ok /\ e.type = "job_progress" THEN Positive(Percent, e, "percent")
                    ELSE IF ok /\ e.type = "job_finished" THEN 100 ELSE Percent
<1>. DEFINE F == Of({"job_finished"})
            R == Of({"job_progress"})
            D == Reports \cup F
            more == Get(e, "percent", 0) > 0
<1>1. /\ n \in Nat \ {0} /\ ok \in BOOLEAN
      /\ R \in SUBSET (1 .. n - 1) /\ F \in SUBSET (1 .. n - 1)
      /\ R' = IF ok /\ e.type = "job_progress" THEN R \cup {n} ELSE R
      /\ F' = IF ok /\ e.type = "job_finished" THEN F \cup {n} ELSE F
  <2>1. /\ R \in SUBSET (1 .. n - 1)
        /\ R' = IF ok /\ e.type = "job_progress" THEN R \cup {n} ELSE R
    BY OfOne
  <2>2. /\ F \in SUBSET (1 .. n - 1)
        /\ F' = IF ok /\ e.type = "job_finished" THEN F \cup {n} ELSE F
    BY OfOne
  <2>3. n \in Nat \ {0} /\ ok \in BOOLEAN
    BY Earlier DEF Extends
  <2>. HIDE DEF R, F
  <2>. QED BY <2>1, <2>2, <2>3
<1>. HIDE DEF F, R
<1>2. /\ Reports \in SUBSET (1 .. n - 1)
      /\ Reports' = IF ok /\ e.type = "job_progress" /\ more THEN Reports \cup {n} ELSE Reports
  <2>1. /\ Reports = {i \in R : Get(log[i].event, "percent", 0) > 0}
        /\ Reports' = {i \in R' : Get(log'[i].event, "percent", 0) > 0}
    BY DEF Reports, R
  <2>2. (\A i \in 1 .. n - 1 : log'[i] = log[i]) /\ log'[n].event = e
    BY Earlier
  <2>3. CASE ok /\ e.type = "job_progress"
    <3>1. R' = R \cup {n}
      BY <1>1, <2>3
    <3>. QED BY <1>1, <2>1, <2>2, <2>3, <3>1
  <2>4. CASE ~ (ok /\ e.type = "job_progress")
    <3>1. R' = R
      BY <1>1, <2>4
    <3>. QED BY <1>1, <2>1, <2>2, <2>4, <3>1
  <2>. QED BY <2>3, <2>4
<1>3. Decided = Newest(D) /\ Decided' = Newest(D')
  BY DEF Decided, F
<1>4. D \in SUBSET (1 .. n - 1)
  BY <1>1, <1>2
<1>5. /\ Newest(D \cup {n}) = n /\ Newest(D) \in 0 .. n - 1
      /\ Decided # 0 => Decided \in 1 .. n - 1
  <2>. HIDE DEF D
  <2>. QED BY <1>1, <1>3, <1>4, NewestAdd
<1>6. n \notin Reports /\ 0 \notin Reports
  BY <1>1, <1>2
<1>7. CASE ok /\ e.type = "job_progress" /\ more
  <2>1. Reports' = Reports \cup {n} /\ F' = F
    BY <1>1, <1>2, <1>7
  <2>2. D' = D \cup {n}
    BY <2>1
  <2>3. Decided' = n /\ n \in Reports' /\ log'[n].event = e
    BY <1>3, <1>5, <2>1, <2>2, Earlier
  <2>4. Percent' = e.payload.percent
    BY <1>1, <2>3 DEF Percent
  <2>5. Get(e, "percent", 0) = e.payload.percent
    BY <1>7 DEF Get
  <2>. QED BY <1>7, <2>4, <2>5 DEF Positive
<1>8. CASE ok /\ e.type = "job_finished"
  <2>1. Reports' = Reports /\ F' = F \cup {n}
    BY <1>1, <1>2, <1>8
  <2>2. D' = D \cup {n}
    BY <2>1
  <2>3. Decided' = n /\ n \notin Reports'
    BY <1>3, <1>5, <1>6, <2>1, <2>2
  <2>. QED BY <1>1, <1>8, <2>3 DEF Percent
<1>9. CASE ~ (ok /\ e.type = "job_progress" /\ more) /\ ~ (ok /\ e.type = "job_finished")
  <2>1. Reports' = Reports /\ F' = F
    BY <1>1, <1>2, <1>9
  <2>2. Decided' = Decided
    BY <1>3, <2>1
  <2>3. Decided # 0 => log'[Decided] = log[Decided]
    BY <1>5, Earlier
  <2>4. Percent' = Percent
    BY <2>1, <2>2, <2>3 DEF Percent
  <2>. QED BY <1>9, <2>4 DEF Positive
<1>. QED BY <1>7, <1>8, <1>9

(* The lines of the log, and how many are newer than the one at i.            *)
Lines == Of({"job_log"})
Newer(i) == Cardinality(After(Lines, i))
Line(i) == [at |-> At(i), line |-> Val(i, "line")]
Kept == IF Cardinality(Lines) < LogCap THEN Cardinality(Lines) ELSE LogCap

(* The list ends with the newest lines, in their order.                       *)
LogsAre(logs) ==
  /\ \E X : logs \in Seq(X)
  /\ Len(logs) = Kept
  /\ \A i \in Lines : Newer(i) < LogCap => logs[Kept - Newer(i)] = Line(i)

LEMMA LinesStep ==
  ASSUME NEW n, NEW e, NEW ok, Extends(n, e, ok)
  PROVE  /\ Lines' = IF ok /\ e.type = "job_log" THEN Lines \cup {n} ELSE Lines
         /\ Lines \subseteq 1 .. n - 1 /\ n \notin Lines
         /\ Cardinality(Lines) \in Nat
         /\ Line(n)' = [at |-> e.at, line |-> Str(e, "line")]
         /\ \A i \in 1 .. n - 1 : Line(i)' = Line(i)
         /\ \A i \in Lines : Newer(i) \in Nat /\ Newer(i) + 1 <= Cardinality(Lines)
         /\ ok /\ e.type = "job_log" =>
              /\ Cardinality(Lines)' = Cardinality(Lines) + 1
              /\ Newer(n)' = 0
              /\ \A i \in Lines : Newer(i)' = Newer(i) + 1
         /\ ~ (ok /\ e.type = "job_log") =>
              /\ Cardinality(Lines)' = Cardinality(Lines)
              /\ \A i \in Lines : Newer(i)' = Newer(i)
<1>. DEFINE S == Lines
<1>1. /\ S \in SUBSET (1 .. n - 1)
      /\ S' = IF ok /\ e.type = "job_log" THEN S \cup {n} ELSE S
  BY OfOne DEF Lines
<1>2. n \in Nat \ {0} /\ ok \in BOOLEAN
  BY Earlier DEF Extends
<1>3. Line(n)' = [at |-> e.at, line |-> Str(e, "line")] /\ \A i \in 1 .. n - 1 : Line(i)' = Line(i)
  BY Earlier DEF Line, At, Val
<1>4. \A i : Newer(i) = Cardinality(After(S, i)) /\ Newer(i)' = Cardinality(After(S', i))
  BY DEF Newer
<1>5. Cardinality(Lines) = Cardinality(S) /\ Cardinality(Lines)' = Cardinality(S')
  OBVIOUS
<1>. HIDE DEF S
<1>6. Cardinality(S) \in Nat /\ Cardinality(S \cup {n}) = Cardinality(S) + 1 /\ IsFiniteSet(S)
  BY <1>1, <1>2, CountAdd
<1>7. /\ After(S \cup {n}, n) = {}
      /\ \A i \in 0 .. n - 1 : After(S \cup {n}, i) = After(S, i) \cup {n}
      /\ \A i : After(S, i) \subseteq S
  BY <1>1, <1>2, AfterAdd
<1>8. ASSUME NEW i \in S
      PROVE  /\ Newer(i) \in Nat /\ Newer(i) + 1 <= Cardinality(S)
             /\ Cardinality(After(S, i) \cup {n}) = Newer(i) + 1
             /\ i \in 0 .. n - 1
  <2>. DEFINE F == After(S, i)
  <2>1. F \subseteq S /\ i \notin F /\ F \cup {i} \subseteq S
    BY <1>7, <1>1 DEF After
  <2>2. Newer(i) = Cardinality(F)
    BY <1>4
  <2>. HIDE DEF F
  <2>3. IsFiniteSet(F) /\ F \in SUBSET (1 .. n - 1)
    BY <1>1, <1>6, <2>1, FS_Subset
  <2>4. Cardinality(F) \in Nat /\ Cardinality(F \cup {i}) = Cardinality(F) + 1
    BY <2>1, <2>3, FS_AddElement, FS_CardinalityType
  <2>5. Cardinality(F \cup {i}) <= Cardinality(S)
    BY <1>6, <2>1, FS_Subset
  <2>6. Cardinality(F \cup {n}) = Cardinality(F) + 1
    BY <1>2, <2>3, CountAdd
  <2>7. i \in 0 .. n - 1
    BY <1>1
  <2>. QED BY <2>2, <2>4, <2>5, <2>6, <2>7 DEF F
<1>9. CASE ok /\ e.type = "job_log"
  <2>1. S' = S \cup {n}
    BY <1>1, <1>9
  <2>2. Newer(n)' = 0
    BY <1>4, <1>7, <2>1, FS_EmptySet
  <2>3. \A i \in S : Newer(i)' = Newer(i) + 1
    BY <1>4, <1>7, <1>8, <2>1
  <2>4. n \notin S
    BY <1>1, <1>2
  <2>. QED BY <1>1, <1>3, <1>5, <1>6, <1>8, <1>9, <2>1, <2>2, <2>3, <2>4 DEF S
<1>10. CASE ~ (ok /\ e.type = "job_log")
  <2>1. S' = S
    BY <1>1, <1>10
  <2>3. \A i \in S : Newer(i)' = Newer(i)
    BY <1>4, <2>1
  <2>4. n \notin S
    BY <1>1, <1>2
  <2>. QED BY <1>1, <1>3, <1>5, <1>6, <1>8, <1>10, <2>1, <2>3, <2>4 DEF S
<1>. QED BY <1>9, <1>10

LEMMA LogsStep ==
  ASSUME NEW n, NEW e, NEW ok, Extends(n, e, ok), NEW logs, LogsAre(logs)
  PROVE  LET r == IF ok /\ e.type = "job_log"
                  THEN Capped(Append(logs, [at |-> e.at, line |-> Str(e, "line")])) ELSE logs
         IN  /\ \E X : r \in Seq(X)
             /\ Len(r) = Kept'
             /\ \A i \in Lines' : Newer(i)' < LogCap => r[Kept' - Newer(i)'] = Line(i)'
<1>. DEFINE x == [at |-> e.at, line |-> Str(e, "line")]
            r == Capped(Append(logs, x))
            c == Cardinality(Lines)
<1>0. LogCap \in Nat /\ LogCap >= 1
  BY LogCapAssumption
<1>1. /\ Lines' = IF ok /\ e.type = "job_log" THEN Lines \cup {n} ELSE Lines
      /\ Lines \subseteq 1 .. n - 1 /\ n \notin Lines /\ c \in Nat
      /\ Line(n)' = x
      /\ \A i \in 1 .. n - 1 : Line(i)' = Line(i)
      /\ \A i \in Lines : Newer(i) \in Nat /\ Newer(i) + 1 <= c
  BY LinesStep
<1>2. /\ Len(logs) = Kept /\ Kept = IF c < LogCap THEN c ELSE LogCap
      /\ Kept' = IF Cardinality(Lines)' < LogCap THEN Cardinality(Lines)' ELSE LogCap
      /\ \A i \in Lines : Newer(i) < LogCap => logs[Kept - Newer(i)] = Line(i)
  BY DEF LogsAre, Kept
<1>3. CASE ok /\ e.type = "job_log"
  <2>1. /\ Cardinality(Lines)' = c + 1 /\ Newer(n)' = 0
        /\ \A i \in Lines : Newer(i)' = Newer(i) + 1
    BY <1>3, LinesStep
  <2>2. PICK Y : logs \in Seq(Y)
    BY DEF LogsAre
  <2>. DEFINE X == Y \cup {x}
  <2>3. logs \in Seq(X) /\ x \in X
    BY <2>2
  <2>. HIDE DEF X, x, c
  <2>4. Len(logs) <= LogCap /\ Kept \in Nat
    BY <1>0, <1>1, <1>2
  <2>5. /\ r \in Seq(X)
        /\ Len(r) = IF Len(logs) < LogCap THEN Len(logs) + 1 ELSE LogCap
        /\ r[Len(r)] = x
        /\ \A d \in 0 .. Len(r) - 2 : r[Len(r) - (d + 1)] = logs[Len(logs) - d]
    BY <2>3, <2>4, CappedAppend
  <2>. HIDE DEF r
  <2>6. Len(r) = Kept' /\ Kept' \in Nat
    BY <1>0, <1>1, <1>2, <2>1, <2>5
  <2>7. ASSUME NEW i \in Lines', Newer(i)' < LogCap PROVE r[Kept' - Newer(i)'] = Line(i)'
    <3>1. CASE i = n
      <4>1. Newer(i)' = 0 /\ Line(i)' = x
        BY <1>1, <2>1, <3>1
      <4>2. \A k \in Nat : k - 0 = k
        OBVIOUS
      <4>3. r[Kept' - 0] = x
        BY <2>5, <2>6, <4>2
      <4>. QED BY <4>1, <4>3
    <3>2. CASE i \in Lines
      <4>1. Newer(i)' = Newer(i) + 1 /\ Newer(i) \in Nat /\ Newer(i) + 1 <= c
        BY <1>1, <2>1, <3>2
      <4>2. Newer(i) + 1 < LogCap
        BY <2>7, <4>1
      <4>3. Newer(i) \in 0 .. Kept' - 2
        BY <1>0, <1>1, <1>2, <2>1, <4>1, <4>2
      <4>4. r[Kept' - (Newer(i) + 1)] = logs[Kept - Newer(i)]
        BY <1>2, <2>5, <2>6, <4>3
      <4>5. logs[Kept - Newer(i)] = Line(i)
        BY <1>0, <1>2, <3>2, <4>1, <4>2
      <4>. QED BY <1>1, <3>2, <4>1, <4>4, <4>5
    <3>. QED BY <1>1, <1>3, <3>1, <3>2
  <2>. QED BY <1>3, <2>5, <2>6, <2>7 DEF r, x
<1>4. CASE ~ (ok /\ e.type = "job_log")
  <2>1. Cardinality(Lines)' = c /\ \A i \in Lines : Newer(i)' = Newer(i)
    BY <1>4, LinesStep
  <2>2. Kept' = Kept /\ Lines' = Lines
    BY <1>1, <1>2, <1>4, <2>1
  <2>3. \A i \in Lines : Line(i)' = Line(i)
    BY <1>1
  <2>. HIDE DEF c, r
  <2>4. \E X : logs \in Seq(X)
    BY DEF LogsAre
  <2>. QED BY <1>2, <1>4, <2>1, <2>2, <2>3, <2>4
<1>. QED BY <1>3, <1>4

(* How a job ended last.                                                      *)
Over == Newest(Of({"job_finished", "job_failed"}))
Ended == IF Over = 0 THEN 0 ELSE At(Over)

(* What an event does to the fields the snapshot is judged by.                *)
JobKeys == {"name", "percent", "eta", "status", "logs", "startedAt", "finishedAt"}

JobStep(s, e, r) ==
  /\ DOMAIN r = JobKeys
  /\ r.percent = IF e.type = "job_progress" THEN Positive(s.percent, e, "percent")
                 ELSE IF e.type = "job_finished" THEN 100 ELSE s.percent
  /\ r.logs = IF e.type = "job_log"
              THEN Capped(Append(s.logs, [at |-> e.at, line |-> Str(e, "line")])) ELSE s.logs
  /\ r.finishedAt = IF e.type \in {"job_finished", "job_failed"} THEN e.at ELSE s.finishedAt

LEMMA JobFields ==
  ASSUME NEW s, DOMAIN s = JobKeys, NEW e
  PROVE  JobStep(s, e, JobApply(s, e))
<1>. DEFINE r == JobApply(s, e)
<1>. SUFFICES JobStep(s, e, r)
  OBVIOUS
<1>1. CASE e.type = "job_started"
  <2>1. r = [s EXCEPT !.status = "running", !.startedAt = e.at, !.name = Update(@, e, "name")]
    BY <1>1 DEF JobApply
  <2>. HIDE DEF r
  <2>. QED BY <1>1, <2>1 DEF JobStep, JobKeys
<1>2. CASE e.type = "job_progress"
  <2>1. r = [s EXCEPT !.percent = Positive(@, e, "percent"),
                      !.eta = Positive(@, e, "eta_seconds")]
    BY <1>2 DEF JobApply
  <2>. HIDE DEF r
  <2>. QED BY <1>2, <2>1 DEF JobStep, JobKeys
<1>3. CASE e.type = "job_log"
  <2>1. r = [s EXCEPT !.logs = Capped(Append(@, [at |-> e.at, line |-> Str(e, "line")]))]
    BY <1>3 DEF JobApply
  <2>. HIDE DEF r
  <2>. QED BY <1>3, <2>1 DEF JobStep, JobKeys
<1>4. CASE e.type = "job_finished"
  <2>1. r = [s EXCEPT !.status = "succeeded", !.percent = 100, !.finishedAt = e.at]
    BY <1>4 DEF JobApply
  <2>. HIDE DEF r
  <2>. QED BY <1>4, <2>1 DEF JobStep, JobKeys
<1>5. CASE e.type = "job_failed"
  <2>1. r = [s EXCEPT !.status = "failed", !.finishedAt = e.at]
    BY <1>5 DEF JobApply
  <2>. HIDE DEF r
  <2>. QED BY <1>5, <2>1 DEF JobStep, JobKeys
<1>6. CASE e.type \notin {"job_started", "job_progress", "job_log", "job_finished", "job_failed"}
  <2>1. r = s
    BY <1>6 DEF JobApply
  <2>. HIDE DEF r
  <2>. QED BY <1>6, <2>1 DEF JobStep
<1>. QED BY <1>1, <1>2, <1>3, <1>4, <1>5, <1>6

LEMMA EndedStep ==
  ASSUME NEW n, NEW e, NEW ok, Extends(n, e, ok)
  PROVE  Ended' = IF ok /\ e.type \in {"job_finished", "job_failed"} THEN e.at ELSE Ended
<1>. DEFINE types == {"job_finished", "job_failed"}
<1>1. Over = Newest(Of(types)) /\ Over' = Newest(Of(types))'
  BY DEF Over
<1>. HIDE DEF types
<1>2. /\ Over' = IF ok /\ e.type \in types THEN n ELSE Over
      /\ Over \in 0 .. n - 1
  <2>1. /\ Newest(Of(types))' = IF ok /\ e.type \in types THEN n ELSE Newest(Of(types))
        /\ Newest(Of(types)) \in 0 .. n - 1
    BY NewestStep
  <2>. QED BY <1>1, <2>1
<1>3. n \in Nat \ {0} /\ At(n)' = e.at /\ \A i \in 1 .. n - 1 : At(i)' = At(i)
  BY AtStep, Earlier
<1>4. Over # 0 => Over \in 1 .. n - 1
  BY <1>2, <1>3
<1>5. Ended' = IF Over' = 0 THEN 0 ELSE At(Over)'
  BY DEF Ended
<1>6. CASE ok /\ e.type \in types
  <2>1. Over' = n /\ Over' # 0
    BY <1>2, <1>3, <1>6
  <2>2. At(Over)' = e.at
    BY <1>3, <2>1 DEF At
  <2>. QED BY <1>5, <1>6, <2>1, <2>2 DEF types
<1>7. CASE ~ (ok /\ e.type \in types)
  <2>1. Over' = Over
    BY <1>2, <1>7
  <2>2. Over # 0 => At(Over)' = At(Over)
    BY <1>4, Earlier, <2>1 DEF At
  <2>. QED BY <1>5, <1>7, <2>1, <2>2 DEF types, Ended
<1>. QED BY <1>6, <1>7

(* An inductive invariant of jobs.                                            *)
JobInv == kind = "job" =>
  /\ DOMAIN Cur = JobKeys
  /\ Cur.percent = Percent
  /\ LogsAre(Cur.logs)
  /\ Cur.finishedAt = Ended

LEMMA JobInit == Init => JobInv
<1>1. SUFFICES ASSUME Init, kind = "job" PROVE JobInv
  BY DEF JobInv
<1>2. Pos = {} /\ \A types : Of(types) = {}
  BY <1>1, EmptySeq DEF Init, Pos, Of
<1>3. Cur = JobZero
  BY <1>1 DEF Init, Cur, Zero
<1>4. DOMAIN Cur = JobKeys /\ Cur.percent = 0 /\ Cur.logs = <<>> /\ Cur.finishedAt = 0
  BY <1>3 DEF JobZero, JobKeys
<1>5. Reports = {} /\ Lines = {}
  BY <1>2 DEF Reports, Lines
<1>6. Decided = 0 /\ Over = 0
  BY <1>2, <1>5 DEF Decided, Over, Newest
<1>7. Kept = 0
  BY <1>5, FS_EmptySet, LogCapAssumption DEF Kept
<1>8. LogsAre(<<>>)
  <2>1. <<>> \in Seq({}) /\ Len(<<>>) = 0
    BY EmptySeq
  <2>. QED BY <1>5, <1>7, <2>1 DEF LogsAre
<1>. QED BY <1>4, <1>6, <1>8 DEF JobInv, Percent, Ended

LEMMA JobNext ==
  ASSUME LogInv, JobInv, Next PROVE JobInv'
<1>1. PICK n, e : Takes(n, e) \/ Refuses(n, e)
  BY Steps
<1>2. SUFFICES ASSUME kind = "job" PROVE JobInv'
  BY <1>1 DEF JobInv, Extends, Takes, Refuses
<1>. DEFINE s == Cur
            r == JobApply(s, e)
<1>3. kind' = kind
  BY <1>1 DEF Extends, Takes, Refuses
<1>4. Apply(kind, snap, e) = r
  BY <1>2 DEF Apply, Cur
<1>5. JobStep(s, e, r) /\ s.percent = Percent /\ LogsAre(s.logs) /\ s.finishedAt = Ended
  BY <1>2, JobFields DEF JobInv
<1>. HIDE DEF r
<1>6. CASE Takes(n, e)
  <2>1. Cur' = r /\ Extends(n, e, TRUE)
    BY <1>4, <1>6 DEF Takes, Cur
  <2>2. r.percent = Percent'
    <3>1. r.percent = IF e.type = "job_progress" THEN Positive(Percent, e, "percent")
                      ELSE IF e.type = "job_finished" THEN 100 ELSE Percent
      BY <1>5 DEF JobStep
    <3>2. Percent' = IF TRUE /\ e.type = "job_progress" THEN Positive(Percent, e, "percent")
                     ELSE IF TRUE /\ e.type = "job_finished" THEN 100 ELSE Percent
      BY <2>1, PercentStep
    <3>. QED BY <3>1, <3>2
  <2>3. r.finishedAt = Ended'
    BY <1>5, <2>1, EndedStep DEF JobStep
  <2>4. LogsAre(Cur.logs)'
    <3>1. r.logs = IF e.type = "job_log"
                   THEN Capped(Append(s.logs, [at |-> e.at, line |-> Str(e, "line")]))
                   ELSE s.logs
      BY <1>5 DEF JobStep
    <3>. DEFINE logs == s.logs
    <3>2. LogsAre(logs)
      BY <1>5
    <3>. HIDE DEF logs
    <3>3. LET v == IF TRUE /\ e.type = "job_log"
                   THEN Capped(Append(logs, [at |-> e.at, line |-> Str(e, "line")])) ELSE logs
          IN  /\ \E X : v \in Seq(X)
              /\ Len(v) = Kept'
              /\ \A i \in Lines' : Newer(i)' < LogCap => v[Kept' - Newer(i)'] = Line(i)'
      BY <2>1, <3>2, LogsStep
    <3>4. /\ \E X : r.logs \in Seq(X)
          /\ Len(r.logs) = Kept'
          /\ \A i \in Lines' : Newer(i)' < LogCap => r.logs[Kept' - Newer(i)'] = Line(i)'
      BY <3>1, <3>3 DEF logs
    <3>. QED BY <2>1, <3>4 DEF LogsAre
  <2>. QED BY <1>5, <2>1, <2>2, <2>3, <2>4 DEF JobInv, JobStep
<1>7. CASE Refuses(n, e)
  <2>1. Cur' = Cur /\ snap' = snap /\ Extends(n, e, FALSE)
    BY <1>3, <1>7 DEF Refuses, Cur
  <2>2. Percent' = Percent
    BY <2>1, PercentStep
  <2>3. Ended' = Ended
    BY <2>1, EndedStep
  <2>. DEFINE logs == Cur.logs
  <2>4. LogsAre(logs) /\ logs' = logs
    BY <1>5, <2>1
  <2>. HIDE DEF logs
  <2>5. /\ \E X : logs \in Seq(X)
        /\ Len(logs) = Kept'
        /\ \A i \in Lines' : Newer(i)' < LogCap => logs[Kept' - Newer(i)'] = Line(i)'
    BY <2>1, <2>4, LogsStep
  <2>6. LogsAre(logs)'
    BY <2>4, <2>5 DEF LogsAre
  <2>. QED BY <1>2, <1>3, <2>1, <2>2, <2>3, <2>6 DEF JobInv, logs
<1>. QED BY <1>1, <1>6, <1>7

(* For any cap, the log of the snapshot is the newest lines of the stream in  *)
(* their order, the percentage that of the last report or finish, and the end *)
(* time that of the last end (job.go:51-80).                                  *)
THEOREM JobsAreTold == Spec => []JobSnapshot
<1>1. Init => LogInv /\ JobInv
  BY DeployInit, JobInit
<1>2. LogInv /\ JobInv /\ [Next]_vars => LogInv' /\ JobInv'
  <2>1. SUFFICES ASSUME LogInv, JobInv, [Next]_vars PROVE LogInv' /\ JobInv'
    OBVIOUS
  <2>2. CASE Next
    BY <2>1, <2>2, LogNext, JobNext
  <2>3. CASE UNCHANGED vars
    <3>1. LogInv'
      BY <2>1, <2>3 DEF vars, LogInv, Pos
    <3>2. JobInv' <=> JobInv
      BY <2>3 DEF vars, JobInv, Cur, Percent, Decided, Reports, LogsAre, Kept, Lines, Newer, Line,
                  Ended, Over, Of, Pos, Val, At
    <3>. QED BY <2>1, <3>1, <3>2
  <2>. QED BY <2>1, <2>2, <2>3
<1>3. JobInv => JobSnapshot
  <2>1. SUFFICES ASSUME JobInv, kind = "job", snap # Nil PROVE JobSnapshot
    BY DEF JobSnapshot, Is
  <2>2. /\ snap.percent = Percent /\ LogsAre(snap.logs) /\ snap.finishedAt = Ended
    BY <2>1 DEF JobInv, Cur
  <2>. QED BY <2>2 DEF JobSnapshot, Percent, Decided, Reports, LogsAre, Kept, Lines, Newer, Line,
                       Ended, Over
<1>. QED BY <1>1, <1>2, <1>3, PTL DEF Spec

--------------------------------------------------------------------------------
(* The running sum of f over the positions in S.                              *)
IsSum(g, S, f, n) ==
  g = [i \in 0 .. n |-> IF i = 0 THEN 0 ELSE g[i - 1] + (IF i \in S THEN f[i] ELSE 0)]
SumOf(S, f, n) == CHOOSE g : IsSum(g, S, f, n)
Sum(S, f, n) == SumOf(S, f, n)[n]

(* The sum of the model is this one.                                          *)
LEMMA TotalIs == ASSUME NEW S, NEW f PROVE Total(S, f) = Sum(S, f, Len(log))
BY DEF Total, Sum, SumOf, IsSum

LEMMA SumSteps ==
  ASSUME NEW n \in Nat, NEW S, NEW f, \A i \in S \cap (1 .. n) : f[i] \in Int
  PROVE  LET g == SumOf(S, f, n)
         IN  /\ g[0] = 0
             /\ \A i \in 1 .. n : g[i] = g[i - 1] + (IF i \in S THEN f[i] ELSE 0)
             /\ \A i \in 0 .. n : g[i] \in Int
<1>. DEFINE Add(i, x) == x + (IF i \in S THEN f[i] ELSE 0)
            h == [i \in 1 .. n |-> [x \in Int |-> Add(i, x)]]
            g == SumOf(S, f, n)
<1>1. IsSum(g, S, f, n)
  <2>1. h \in [1 .. n -> [Int -> Int]]
    OBVIOUS
  <2>0. 0 \in Int
    OBVIOUS
  <2>. HIDE DEF h, Add
  <2>2. PICK u : IsLoop(u, n, Int, 0, h)
    <3>. DEFINE D == Int
                b == 0
    <3>1. b \in D /\ h \in [1 .. n -> [D -> D]]
      BY <2>0, <2>1
    <3>. HIDE DEF D, b
    <3>2. \E u : IsLoop(u, n, D, b, h)
      BY <3>1, LoopExists
    <3>. QED BY <3>2 DEF D, b
  <2>3. \A i \in 1 .. n : u[i - 1] \in Int /\ h[i][u[i - 1]] = Add(i, u[i - 1])
    BY <2>2 DEF IsLoop, h
  <2>4. u = [i \in 0 .. n |-> IF i = 0 THEN 0 ELSE Add(i, u[i - 1])]
    <3>1. \A i \in 0 .. n : i # 0 => i \in 1 .. n
      OBVIOUS
    <3>. HIDE DEF Add
    <3>. QED BY <2>2, <2>3, <3>1 DEF IsLoop
  <2>5. IsSum(u, S, f, n)
    BY <2>4 DEF IsSum, Add
  <2>. QED BY <2>5 DEF SumOf
<1>. HIDE DEF g
<1>2. g[0] = 0 /\ \A i \in 1 .. n : g[i] = Add(i, g[i - 1])
  <2>1. \A i \in 0 .. n : g[i] = IF i = 0 THEN 0 ELSE Add(i, g[i - 1])
    BY <1>1 DEF IsSum
  <2>. HIDE DEF Add
  <2>. QED BY <2>1
<1>3. \A i \in 0 .. n : g[i] \in Int
  <2>. DEFINE T == {i \in 0 .. n : g[i] \in Int}
  <2>1. 0 \in T
    BY <1>2
  <2>2. ASSUME NEW i \in 0 .. n, i < n, i \in T PROVE i + 1 \in T
    <3>1. i + 1 \in 1 .. n /\ g[i + 1] = Add(i + 1, g[i]) /\ g[i] \in Int
      BY <1>2, <2>2
    <3>2. g[i + 1] \in Int
      BY <3>1
    <3>. QED BY <3>1, <3>2
  <2>. HIDE DEF T
  <2>3. \A i \in 0 .. n : i \in T
    BY <2>1, <2>2, Induction
  <2>. QED BY <2>3 DEF T
<1>. QED BY <1>2, <1>3 DEF g

(* A sum looks at nothing after n.                                            *)
LEMMA SumSame ==
  ASSUME NEW n \in Nat, NEW m \in Nat, n <= m, NEW S, NEW T, NEW f, NEW g,
         \A i \in S \cap (1 .. n) : f[i] \in Int /\ g[i] = f[i],
         \A i \in T \cap (1 .. m) : g[i] \in Int,
         S \cap (1 .. n) = T \cap (1 .. n)
  PROVE  \A i \in 0 .. n : SumOf(T, g, m)[i] = SumOf(S, f, n)[i]
<1>. DEFINE u == SumOf(S, f, n)
            v == SumOf(T, g, m)
            K == {i \in 0 .. n : v[i] = u[i]}
<1>1. u[0] = 0 /\ \A i \in 1 .. n : u[i] = u[i - 1] + (IF i \in S THEN f[i] ELSE 0)
  BY SumSteps
<1>2. v[0] = 0 /\ \A i \in 1 .. m : v[i] = v[i - 1] + (IF i \in T THEN g[i] ELSE 0)
  BY SumSteps
<1>. HIDE DEF u, v
<1>3. 0 \in K
  BY <1>1, <1>2
<1>4. ASSUME NEW i \in 0 .. n, i < n, i \in K PROVE i + 1 \in K
  <2>1. i + 1 \in 1 .. n /\ i + 1 \in 1 .. m /\ (i + 1) - 1 = i
    BY <1>4
  <2>2. /\ u[i + 1] = u[i] + (IF i + 1 \in S THEN f[i + 1] ELSE 0)
        /\ v[i + 1] = v[i] + (IF i + 1 \in T THEN g[i + 1] ELSE 0)
    BY <1>1, <1>2, <2>1
  <2>3. (i + 1 \in S <=> i + 1 \in T) /\ (i + 1 \in S => g[i + 1] = f[i + 1])
    BY <2>1
  <2>. QED BY <1>4, <2>1, <2>2, <2>3
<1>5. \A i \in 0 .. n : i \in K
  <2>. HIDE DEF K
  <2>. QED BY <1>3, <1>4, Induction
<1>. QED BY <1>5 DEF u, v

LEMMA SumAdd ==
  ASSUME NEW n \in Nat \ {0}, NEW S \in SUBSET (1 .. n - 1), NEW f, NEW g,
         \A i \in S : f[i] \in Int /\ g[i] = f[i]
  PROVE  /\ Sum(S, f, n - 1) \in Int
         /\ Sum(S, g, n) = Sum(S, f, n - 1)
         /\ g[n] \in Int => Sum(S \cup {n}, g, n) = Sum(S, f, n - 1) + g[n]
<1>. DEFINE k == n - 1
            u == SumOf(S, f, k)
<1>1. k \in Nat /\ n = k + 1 /\ S \in SUBSET (1 .. k) /\ n \in Nat /\ n - 1 = k
  OBVIOUS
<1>. HIDE DEF k
<1>2. Sum(S, f, k) = u[k] /\ u[k] \in Int
  <2>1. \A i \in S \cap (1 .. k) : f[i] \in Int
    OBVIOUS
  <2>2. \A i \in 0 .. k : u[i] \in Int
    BY <1>1, <2>1, SumSteps
  <2>. QED BY <1>1, <2>2 DEF Sum
<1>3. Sum(S, g, n) = u[k]
  <2>. DEFINE v == SumOf(S, g, n)
  <2>1. /\ \A i \in S \cap (1 .. k) : f[i] \in Int /\ g[i] = f[i]
        /\ \A i \in S \cap (1 .. n) : g[i] \in Int
        /\ S \cap (1 .. k) = S \cap (1 .. k) /\ k <= n
    BY <1>1
  <2>2. \A i \in 0 .. k : v[i] = u[i]
    BY <1>1, <2>1, SumSame
  <2>3. \A i \in 1 .. n : v[i] = v[i - 1] + (IF i \in S THEN g[i] ELSE 0)
    BY <1>1, <2>1, SumSteps
  <2>. HIDE DEF v, u
  <2>4. v[n] = v[k] + (IF n \in S THEN g[n] ELSE 0)
    BY <1>1, <2>3
  <2>5. v[k] = u[k] /\ n \notin S
    BY <1>1, <2>2
  <2>. QED BY <1>2, <2>4, <2>5 DEF Sum, v
<1>4. ASSUME g[n] \in Int PROVE Sum(S \cup {n}, g, n) = u[k] + g[n]
  <2>. DEFINE T == S \cup {n}
              v == SumOf(T, g, n)
  <2>1. /\ \A i \in S \cap (1 .. k) : f[i] \in Int /\ g[i] = f[i]
        /\ \A i \in T \cap (1 .. n) : g[i] \in Int
        /\ S \cap (1 .. k) = T \cap (1 .. k) /\ k <= n /\ n \in T
    BY <1>1, <1>4
  <2>. HIDE DEF T
  <2>2. \A i \in 0 .. k : v[i] = u[i]
    BY <1>1, <2>1, SumSame
  <2>3. \A i \in 1 .. n : v[i] = v[i - 1] + (IF i \in T THEN g[i] ELSE 0)
    BY <1>1, <2>1, SumSteps
  <2>. HIDE DEF v, u
  <2>4. v[n] = v[k] + (IF n \in T THEN g[n] ELSE 0)
    BY <1>1, <2>3
  <2>5. v[k] = u[k]
    BY <1>1, <2>2
  <2>. QED BY <1>2, <2>1, <2>4, <2>5 DEF Sum, v, T
<1>. QED BY <1>2, <1>3, <1>4 DEF k

LEMMA SumOne ==
  ASSUME NEW n \in Nat \ {0}, NEW S \in SUBSET (1 .. n - 1), NEW f, NEW g,
         \A i \in S : f[i] \in Int /\ g[i] = f[i], g[n] \in Int
  PROVE  Sum(S \cup {n}, g, n) = Sum(S, f, n - 1) + g[n]
<1>1. g[n] \in Int => Sum(S \cup {n}, g, n) = Sum(S, f, n - 1) + g[n]
  BY SumAdd
<1>. QED BY <1>1

LEMMA SumNone ==
  ASSUME NEW n \in Nat, NEW f PROVE Sum({}, f, n) = 0
<1>. DEFINE u == SumOf({}, f, n)
            K == {i \in 0 .. n : u[i] = 0}
<1>1. u[0] = 0 /\ \A i \in 1 .. n : u[i] = u[i - 1] + 0
  <2>1. /\ u[0] = 0
        /\ \A i \in 1 .. n : u[i] = u[i - 1] + (IF i \in {} THEN f[i] ELSE 0)
    BY SumSteps
  <2>. HIDE DEF u
  <2>. QED BY <2>1
<1>. HIDE DEF u
<1>2. 0 \in K
  BY <1>1
<1>3. ASSUME NEW i \in 0 .. n, i < n, i \in K PROVE i + 1 \in K
  BY <1>1, <1>3
<1>4. \A i \in 0 .. n : i \in K
  <2>. HIDE DEF K
  <2>. QED BY <1>2, <1>3, Induction
<1>. QED BY <1>4 DEF Sum, u

(* The loop behind Spacing starts at 1 and stays in every set that contains   *)
(* 1 and what the loop's body makes of a member.                              *)
LEMMA SpacingIn ==
  ASSUME NEW x \in Int, NEW D, 1 \in D,
         \A u \in D : (IF (IF x < 0 THEN -x ELSE x) >= 2 ^ Mantissa * u THEN 2 * u ELSE u) \in D
  PROVE  Spacing(x) \in D
<1>. DEFINE abs == IF x < 0 THEN -x ELSE x
            Grow(u) == IF abs >= 2 ^ Mantissa * u THEN 2 * u ELSE u
            h == [i \in 1 .. Bits |-> [u \in D |-> Grow(u)]]
            Unit(g) == \A i \in 0 .. Bits : g[i] = IF i = 0 THEN 1 ELSE Grow(g[i - 1])
            unit == CHOOSE g : g = [i \in 0 .. Bits |-> IF i = 0 THEN 1 ELSE Grow(g[i - 1])]
<1>1. Bits \in Nat
  BY WidthAssumption
<1>2. h \in [1 .. Bits -> [D -> D]]
  OBVIOUS
<1>3. PICK g : IsLoop(g, Bits, D, 1, h)
  <2>. HIDE DEF h
  <2>. QED BY <1>1, <1>2, LoopExists
<1>4. g \in [0 .. Bits -> D] /\ \A i \in 0 .. Bits : g[i] = IF i = 0 THEN 1 ELSE h[i][g[i - 1]]
  BY <1>3 DEF IsLoop
<1>5. \A i \in 0 .. Bits : g[i] = IF i = 0 THEN 1 ELSE Grow(g[i - 1])
  <2>1. ASSUME NEW i \in 0 .. Bits, i # 0 PROVE h[i][g[i - 1]] = Grow(g[i - 1])
    <3>1. i \in 1 .. Bits /\ g[i - 1] \in D
      BY <1>1, <1>4, <2>1
    <3>. HIDE DEF Grow
    <3>. QED BY <3>1
  <2>. HIDE DEF h, Grow
  <2>. QED BY <1>4, <2>1
<1>6. g = [i \in 0 .. Bits |-> IF i = 0 THEN 1 ELSE Grow(g[i - 1])]
  <2>. HIDE DEF Grow
  <2>. QED BY <1>4, <1>5
<1>7. unit = [i \in 0 .. Bits |-> IF i = 0 THEN 1 ELSE Grow(unit[i - 1])]
  <2>. HIDE DEF Grow
  <2>. QED BY <1>6
<1>8. Spacing(x) = unit[Bits]
  BY DEF Spacing
<1>9. \A i \in 0 .. Bits : unit[i] \in D
  <2>. DEFINE K == {i \in 0 .. Bits : unit[i] \in D}
  <2>. HIDE DEF unit
  <2>1. 0 \in K
    BY <1>1, <1>7
  <2>2. ASSUME NEW i \in 0 .. Bits, i < Bits, i \in K PROVE i + 1 \in K
    <3>1. i + 1 \in 0 .. Bits /\ i + 1 # 0 /\ (i + 1) - 1 = i /\ unit[i] \in D
      BY <1>1, <2>2
    <3>2. unit[i + 1] = Grow(unit[i])
      <4>. HIDE DEF Grow
      <4>. QED BY <1>7, <3>1
    <3>3. Grow(unit[i]) \in D
      BY <3>1
    <3>. QED BY <3>1, <3>2, <3>3
  <2>. HIDE DEF K
  <2>3. \A i \in 0 .. Bits : i \in K
    BY <1>1, <2>1, <2>2, Induction
  <2>. QED BY <2>3 DEF K
<1>. HIDE DEF unit
<1>. QED BY <1>1, <1>8, <1>9

(* A number read from JSON stays an integer, and 1 stays 1.                   *)
LEMMA FloatInt == ASSUME NEW x \in Int PROVE Float(x) \in Int
<1>. DEFINE u == Spacing(x)
            q == (2 * x + u) \div (2 * u)
<1>1. u \in Nat \ {0}
  <2>. DEFINE D == Nat \ {0}
  <2>1. 2 ^ Mantissa \in Nat
    BY WidthAssumption
  <2>2. \A w \in D :
          (IF (IF x < 0 THEN -x ELSE x) >= 2 ^ Mantissa * w THEN 2 * w ELSE w) \in D
    BY <2>1
  <2>3. 1 \in D
    OBVIOUS
  <2>. HIDE DEF D
  <2>4. Spacing(x) \in D
    BY <2>2, <2>3, SpacingIn
  <2>. QED BY <2>4 DEF D
<1>2. Float(x) = IF (2 * x + u) % (2 * u) = 0 /\ q % 2 = 1 THEN (q - 1) * u ELSE q * u
  BY DEF Float
<1>. HIDE DEF u
<1>3. q \in Int
  <2>1. 2 * x + u \in Int /\ 2 * u \in Nat \ {0}
    BY <1>1
  <2>2. \A y \in Int, w \in Nat \ {0} : y \div w \in Int
    OBVIOUS
  <2>. QED BY <2>1, <2>2
<1>. HIDE DEF q
<1>4. (q - 1) * u \in Int /\ q * u \in Int
  BY <1>1, <1>3
<1>. QED BY <1>2, <1>4

LEMMA FloatOne == Float(1) = 1
<1>1. Spacing(1) \in {1}
  <2>. DEFINE M == 2 ^ Mantissa
  <2>1. M \in Nat \ {0, 1}
    BY WidthAssumption
  <2>. DEFINE D == {1}
              x == 1
  <2>2. \A w \in D : (IF (IF x < 0 THEN -x ELSE x) >= M * w THEN 2 * w ELSE w) \in D
    <3>. HIDE DEF M
    <3>. QED BY <2>1
  <2>3. x \in Int /\ 1 \in D
    OBVIOUS
  <2>. HIDE DEF D, x
  <2>4. Spacing(x) \in D
    BY <2>2, <2>3, SpacingIn
  <2>. QED BY <2>4 DEF D, x
<1>2. Spacing(1) = 1 /\ 2 * 1 + 1 = 3 /\ 2 * 1 = 2
  BY <1>1
<1>3. 3 \div 2 = 1 /\ 3 % 2 = 1 /\ 1 * 1 = 1
  OBVIOUS
<1>. QED BY <1>2, <1>3 DEF Float

Whole == 2 ^ Bits

LEMMA WholeIs == Whole \in Nat \ {0} /\ 2 ^ (Bits - 1) \in Nat \ {0}
BY WidthAssumption DEF Whole

(* Wrapping stays in the width and adds whole multiples of it.                *)
LEMMA WrapIs ==
  ASSUME NEW x \in Int
  PROVE  /\ Wrap(x) \in -(2 ^ (Bits - 1)) .. 2 ^ (Bits - 1) - 1
         /\ \E q \in Int : Wrap(x) = x + q * 2 ^ Bits
<1>. DEFINE H == 2 ^ (Bits - 1)
            W == 2 ^ Bits
<1>1. H \in Nat \ {0} /\ W = 2 * H
  BY WidthAssumption
<1>2. Wrap(x) = ((x + H) % W) - H
  BY DEF Wrap
<1>. HIDE DEF H, W
<1>3. W \in Nat \ {0} /\ x + H \in Int
  BY <1>1
<1>4. (x + H) % W \in 0 .. W - 1 /\ x + H = W * ((x + H) \div W) + ((x + H) % W)
      /\ (x + H) \div W \in Int
  <2>1. \A y \in Int, w \in Nat \ {0} : y % w \in 0 .. w - 1
    OBVIOUS
  <2>2. \A y \in Int, w \in Nat \ {0} : y = w * (y \div w) + (y % w)
    OBVIOUS
  <2>3. \A y \in Int, w \in Nat \ {0} : y \div w \in Int
    OBVIOUS
  <2>. QED BY <1>3, <2>1, <2>2, <2>3
<1>5. Wrap(x) \in -H .. H - 1
  BY <1>1, <1>2, <1>4
<1>6. -((x + H) \div W) \in Int /\ Wrap(x) = x + (-((x + H) \div W)) * W
  BY <1>1, <1>2, <1>3, <1>4
<1>. QED BY <1>5, <1>6 DEF H, W

--------------------------------------------------------------------------------
(* The events of a stream are inputs, and their times are known.              *)
Typed(e) ==
  /\ e.at \in 1 .. MaxTime
  /\ \E in \in Inputs[kind] : e.type = in.type /\ e.payload = in.payload
EventsInv == \A i \in 1 .. Len(log) : Typed(log[i].event)

(* So is the new event, and all of them after it.                             *)
LEMMA EventTyped == ASSUME NEW n, NEW e, NEW ok, Extends(n, e, ok) PROVE Typed(e)
BY ClockAssumption DEF Extends, Typed

LEMMA EventsNext ==
  ASSUME NEW n, NEW e, NEW ok, Extends(n, e, ok), EventsInv PROVE EventsInv'
<1>1. Typed(e) /\ kind' = kind
  BY EventTyped DEF Extends
<1>2. \A i \in 1 .. n - 1 : log'[i] = log[i]
  BY Earlier
<1>3. ASSUME NEW i \in 1 .. n PROVE Typed(log'[i].event)
  <2>1. CASE i = n
    BY <1>1, <2>1, Earlier
  <2>2. CASE i # n
    <3>1. i \in 1 .. Len(log) /\ log'[i] = log[i]
      BY <1>2, <2>2, Earlier
    <3>. QED BY <3>1 DEF EventsInv
  <2>. QED BY <2>1, <2>2
<1>. QED BY <1>1, <1>3, Earlier DEF EventsInv, Typed

LEMMA Values ==
  ASSUME kind \in Kinds, NEW e, Typed(e)
  PROVE  /\ e.at \in Int /\ Printable(e.at)
         /\ e.type = "str_set" /\ Has(e, "value") => e.payload.value \in STRING
         /\ e.type = "int_set" /\ Has(e, "value") =>
              e.payload.value \in Int /\ InWidth(Float(e.payload.value))
         /\ e.type \in {"int_incr", "int_decr"} /\ Has(e, "delta") => e.payload.delta \in Int
         /\ e.type = "time_set" /\ Has(e, "value") =>
              e.payload.value \in Int /\ Printable(e.payload.value)
         /\ e.type = "time_add" /\ Has(e, "seconds") => e.payload.seconds \in Int /\ Span(e) \in Int
<1>1. PICK in \in Inputs[kind] : e.type = in.type /\ e.payload = in.payload
  BY DEF Typed
<1>2. \A k : Has(e, k) <=> Has(in, k)
  BY <1>1 DEF Has
<1>3. e.at \in 1 .. MaxTime /\ MaxTime \in Nat /\ Second \in Nat /\ MinTime \in Int /\ MinTime <= 0
  BY ClockAssumption DEF Typed
<1>4. e.at \in Int /\ Printable(e.at)
  BY <1>3 DEF Printable
<1>5. \A t : Printable(t) => t \in Int
  BY <1>3 DEF Printable
<1>6. /\ in.type = "str_set" /\ Has(in, "value") => in.payload.value \in STRING
      /\ in.type = "int_set" /\ Has(in, "value") =>
           in.payload.value \in Int /\ InWidth(Float(in.payload.value))
      /\ in.type \in {"int_incr", "int_decr"} /\ Has(in, "delta") =>
           in.payload.delta \in Int /\ InWidth(Float(in.payload.delta))
      /\ in.type = "time_set" /\ Has(in, "value") => Printable(in.payload.value)
      /\ in.type = "time_add" /\ Has(in, "seconds") =>
           in.payload.seconds \in Int /\ InWidth(Float(in.payload.seconds))
  BY InputsAssumption
<1>7. ASSUME e.payload.seconds \in Int PROVE Span(e) \in Int
  <2>1. Float(e.payload.seconds) \in Int
    BY <1>7, FloatInt
  <2>2. Float(e.payload.seconds) * Second \in Int
    BY <1>3, <2>1
  <2>3. \A x \in Int : Wrap(x) \in Int
    <3>1. 2 ^ (Bits - 1) \in Nat
      BY WidthAssumption
    <3>. QED BY <3>1, WrapIs
  <2>. QED BY <2>2, <2>3 DEF Span
<1>. QED BY <1>1, <1>2, <1>4, <1>5, <1>6, <1>7

--------------------------------------------------------------------------------
(* Time fields.                                                               *)

(* What the value starts from after position m, and the additions since.      *)
TimeSets == {i \in Of({"time_set"}) : Has(log[i].event, "value")}
Bases == TimeSets \cup Of({"time_now", "time_delete"})
From(m) == Newest(Before(Bases, m + 1))
Additions == {i \in Of({"time_add"}) : Has(log[i].event, "seconds")}
Adds(m) == {i \in After(Of({"time_add"}), From(m)) : i <= m /\ Has(log[i].event, "seconds")}
Base(i) ==
  IF i \in TimeSets THEN log[i].event.payload.value
  ELSE IF i \in Of({"time_now"}) THEN At(i) ELSE 0
Spans(m) == [i \in Adds(m) |-> Span(log[i].event)]
ValueAt(m) == Total(Adds(m), Spans(m)) + Base(From(m))

(* What an event, if it is accepted, makes of the value.                      *)
Moved(v, e) ==
  IF e.type = "time_set" /\ Has(e, "value") THEN e.payload.value
  ELSE IF e.type = "time_now" THEN e.at
  ELSE IF e.type = "time_add" /\ Has(e, "seconds") THEN v + Span(e)
  ELSE IF e.type = "time_delete" THEN 0 ELSE v

(* How the new event changes them.                                            *)
LEMMA BasesStep ==
  ASSUME NEW n, NEW e, NEW ok, Extends(n, e, ok)
  PROVE  /\ Bases \in SUBSET (1 .. n - 1)
         /\ Bases' = IF ok /\ ((e.type = "time_set" /\ Has(e, "value"))
                              \/ e.type \in {"time_now", "time_delete"})
                     THEN Bases \cup {n} ELSE Bases
         /\ \A i \in 1 .. n - 1 : (i \in TimeSets' <=> i \in TimeSets)
         /\ n \in TimeSets' <=> ok /\ e.type = "time_set" /\ Has(e, "value")
<1>. DEFINE types == {"time_now", "time_delete"}
            S == Of({"time_set"})
            T == Of(types)
            set == e.type = "time_set" /\ Has(e, "value")
<1>1. n \in Nat \ {0} /\ ok \in BOOLEAN /\ log'[n].event = e
      /\ \A i \in 1 .. n - 1 : log'[i] = log[i]
  BY Earlier DEF Extends
<1>2. /\ S \in SUBSET (1 .. n - 1)
      /\ S' = IF ok /\ e.type = "time_set" THEN S \cup {n} ELSE S
  BY OfOne
<1>. HIDE DEF S, types
<1>3. /\ T \subseteq 1 .. n - 1
      /\ T' = IF ok /\ e.type \in types THEN T \cup {n} ELSE T
  BY OfStep
<1>4. /\ TimeSets = {i \in S : Has(log[i].event, "value")}
      /\ TimeSets' = {i \in S' : Has(log'[i].event, "value")}
  BY DEF TimeSets, S, Has
<1>5. Bases = TimeSets \cup T /\ Bases' = TimeSets' \cup T'
  BY DEF Bases, types
<1>. HIDE DEF T
<1>6. /\ TimeSets \in SUBSET (1 .. n - 1)
      /\ TimeSets' = IF ok /\ set THEN TimeSets \cup {n} ELSE TimeSets
  <2>1. CASE ok /\ e.type = "time_set"
    <3>1. S' = S \cup {n}
      BY <1>2, <2>1
    <3>. QED BY <1>1, <1>2, <1>4, <2>1, <3>1
  <2>2. CASE ~ (ok /\ e.type = "time_set")
    <3>1. S' = S
      BY <1>2, <2>2
    <3>. QED BY <1>1, <1>2, <1>4, <2>2, <3>1
  <2>. QED BY <2>1, <2>2
<1>7. n \notin TimeSets
  BY <1>1, <1>6
<1>8. \A i \in 1 .. n - 1 : (i \in TimeSets' <=> i \in TimeSets)
  BY <1>1, <1>6
<1>9. n \in TimeSets' <=> ok /\ set
  BY <1>6, <1>7
<1>10. Bases' = IF ok /\ (set \/ e.type \in types) THEN Bases \cup {n} ELSE Bases
  <2>1. ~ (set /\ e.type \in types)
    BY DEF types
  <2>. HIDE DEF set
  <2>2. CASE ok /\ set
    BY <1>3, <1>5, <1>6, <2>1, <2>2
  <2>3. CASE ok /\ e.type \in types
    BY <1>3, <1>5, <1>6, <2>1, <2>3
  <2>4. CASE ~ (ok /\ (set \/ e.type \in types))
    BY <1>3, <1>5, <1>6, <2>4
  <2>. QED BY <2>2, <2>3, <2>4
<1>11. Bases \in SUBSET (1 .. n - 1)
  BY <1>3, <1>5, <1>6
<1>12. Bases' = IF ok /\ (set \/ e.type \in {"time_now", "time_delete"})
               THEN Bases \cup {n} ELSE Bases
  BY <1>10 DEF types
<1>. QED BY <1>8, <1>9, <1>11, <1>12

LEMMA AddsStep ==
  ASSUME NEW n, NEW e, NEW ok, Extends(n, e, ok)
  PROVE  /\ Additions \in SUBSET (1 .. n - 1)
         /\ Additions' = IF ok /\ e.type = "time_add" /\ Has(e, "seconds")
                         THEN Additions \cup {n} ELSE Additions
<1>. DEFINE S == Of({"time_add"})
<1>1. n \in Nat \ {0} /\ ok \in BOOLEAN /\ log'[n].event = e
      /\ \A i \in 1 .. n - 1 : log'[i] = log[i]
  BY Earlier DEF Extends
<1>2. /\ S \in SUBSET (1 .. n - 1)
      /\ S' = IF ok /\ e.type = "time_add" THEN S \cup {n} ELSE S
  BY OfOne
<1>4. /\ Additions = {i \in S : Has(log[i].event, "seconds")}
      /\ Additions' = {i \in S' : Has(log'[i].event, "seconds")}
  BY DEF Additions, S, Has
<1>. HIDE DEF S
<1>5. CASE ok /\ e.type = "time_add"
  <2>1. S' = S \cup {n}
    BY <1>2, <1>5
  <2>. QED BY <1>1, <1>2, <1>4, <1>5, <2>1
<1>6. CASE ~ (ok /\ e.type = "time_add")
  <2>1. S' = S
    BY <1>2, <1>6
  <2>. QED BY <1>1, <1>2, <1>4, <1>6, <2>1
<1>. QED BY <1>5, <1>6

LEMMA AddsAre == ASSUME NEW m PROVE Adds(m) = {i \in Additions : i > From(m) /\ i <= m}
BY DEF Adds, Additions, After

(* The values before the event are as they were.                              *)
LEMMA ValueSteps ==
  ASSUME NEW n, NEW e, NEW ok, Extends(n, e, ok), EventsInv
  PROVE  /\ \A m \in 0 .. n - 1 : ValueAt(m)' = ValueAt(m)
         /\ ValueAt(n)' = IF ok THEN Moved(ValueAt(n - 1), e) ELSE ValueAt(n - 1)
<1>. DEFINE A == Additions
            B == Bases
            add == e.type = "time_add" /\ Has(e, "seconds")
            base == \/ e.type = "time_set" /\ Has(e, "value")
                    \/ e.type \in {"time_now", "time_delete"}
<1>1. n \in Nat \ {0} /\ ok \in BOOLEAN /\ log'[n].event = e /\ kind \in Kinds
      /\ (\A i \in 1 .. n - 1 : log'[i] = log[i]) /\ Len(log') = n /\ Len(log) = n - 1
  BY Earlier DEF Extends
<1>2. /\ B \in SUBSET (1 .. n - 1) /\ B' = IF ok /\ base THEN B \cup {n} ELSE B
      /\ \A i \in 1 .. n - 1 : (i \in TimeSets' <=> i \in TimeSets)
      /\ n \in TimeSets' <=> ok /\ e.type = "time_set" /\ Has(e, "value")
  <2>1. /\ Bases \in SUBSET (1 .. n - 1) /\ Bases' = IF ok /\ base THEN Bases \cup {n} ELSE Bases
        /\ \A i \in 1 .. n - 1 : (i \in TimeSets' <=> i \in TimeSets)
    BY BasesStep
  <2>2. n \in TimeSets' <=> ok /\ e.type = "time_set" /\ Has(e, "value")
    BY BasesStep
  <2>. QED BY <2>1, <2>2
<1>3. A \in SUBSET (1 .. n - 1) /\ A' = IF ok /\ add THEN A \cup {n} ELSE A
  BY AddsStep
<1>4. ~ (base /\ add)
  OBVIOUS
<1>5. \A m : /\ From(m) = Newest(Before(B, m + 1)) /\ From(m)' = Newest(Before(B', m + 1))
             /\ Adds(m) = {i \in A : i > From(m) /\ i <= m}
  BY AddsAre DEF From
<1>6. \A m : Adds(m)' = {i \in A' : i > From(m)' /\ i <= m}
  BY DEF Adds, Additions, After, Has, Of
<1>. HIDE DEF A, B
<1>7. /\ \A i \in 1 .. n - 1 : Base(i)' = Base(i)
      /\ 0 \notin TimeSets /\ 0 \notin TimeSets'
  <2>1. /\ Of({"time_now"}) \in SUBSET (1 .. n - 1)
        /\ Of({"time_now"})' = IF ok /\ e.type = "time_now" THEN Of({"time_now"}) \cup {n}
                               ELSE Of({"time_now"})
    BY OfOne
  <2>2. \A i \in 1 .. n - 1 : (i \in Of({"time_now"})' <=> i \in Of({"time_now"}))
    BY <1>1, <2>1
  <2>3. TimeSets \subseteq Pos /\ TimeSets' \subseteq Pos' /\ Pos \subseteq 1 .. n - 1
        /\ Pos' \subseteq 1 .. n
    BY <1>1, PosStep DEF TimeSets, Of
  <2>4. 0 \notin TimeSets /\ 0 \notin TimeSets'
    BY <1>1, <2>3
  <2>. QED BY <1>1, <1>2, <2>2, <2>4 DEF Base, At
<1>8. Base(0) = 0 /\ Base(0)' = 0
  <2>1. 0 \notin Of({"time_now"}) /\ 0 \notin Of({"time_now"})'
    BY DEF Of, Pos
  <2>. QED BY <1>7, <2>1 DEF Base
<1>9. ASSUME NEW m \in 0 .. n - 1
      PROVE  /\ From(m)' = From(m) /\ From(m) \in 0 .. n - 1
             /\ Adds(m)' = Adds(m) /\ Adds(m) \in SUBSET (1 .. n - 1)
  <2>1. Before(B', m + 1) = Before(B, m + 1)
    <3>1. m + 1 \in 0 .. n - 1 \/ m + 1 = n
      BY <1>1
    <3>2. /\ Before(B, n) = B /\ Before(B \cup {n}, n) = B
          /\ \A i \in 0 .. n - 1 : Before(B \cup {n}, i) = Before(B, i)
      BY <1>1, <1>2, BeforeAdd
    <3>. QED BY <1>2, <3>1, <3>2
  <2>2. From(m)' = From(m)
    BY <1>5, <2>1
  <2>3. From(m) \in 0 .. n - 1
    <3>. DEFINE S == Before(B, m + 1)
    <3>1. S \in SUBSET (1 .. n - 1)
      BY <1>2 DEF Before
    <3>. HIDE DEF S
    <3>2. Newest(S) \in 0 .. n - 1
      BY <1>1, <3>1, NewestAdd
    <3>. QED BY <1>5, <3>2 DEF S
  <2>4. Adds(m)' = {i \in A' : i > From(m) /\ i <= m}
    BY <1>6, <2>2
  <2>5. \A i \in A' : i <= m => i \in A
    BY <1>1, <1>3
  <2>6. A \subseteq A'
    BY <1>3
  <2>7. Adds(m) = {i \in A : i > From(m) /\ i <= m}
    BY <1>5
  <2>8. Adds(m)' = Adds(m)
    BY <2>4, <2>5, <2>6, <2>7
  <2>9. Adds(m) \in SUBSET (1 .. n - 1)
    BY <1>3, <2>7
  <2>. QED BY <2>2, <2>3, <2>8, <2>9
<1>10. \A i \in A : Span(log[i].event) \in Int
  <2>1. ASSUME NEW i \in A PROVE Span(log[i].event) \in Int
    <3>1. i \in 1 .. Len(log) /\ i \in Additions
      BY <1>1, <1>3 DEF A
    <3>2. Typed(log[i].event) /\ log[i].event.type = "time_add" /\ Has(log[i].event, "seconds")
      BY <3>1 DEF EventsInv, Additions, Of
    <3>. QED BY <1>1, <3>2, Values
  <2>. QED BY <2>1
<1>11. /\ \A i \in 1 .. n - 1 : Span(log'[i].event) = Span(log[i].event)
       /\ Span(log'[n].event) = Span(e)
  BY <1>1
<1>12. ASSUME NEW m \in 0 .. n - 1
       PROVE  /\ Total(Adds(m), Spans(m)) = Sum(Adds(m), Spans(m), n - 1)
              /\ \A i \in Adds(m) : Spans(m)[i] = Span(log[i].event) /\ Spans(m)[i] \in Int
  <2>1. Adds(m) \subseteq A
    BY <1>5
  <2>2. Total(Adds(m), Spans(m)) = Sum(Adds(m), Spans(m), n - 1)
    BY <1>1, TotalIs
  <2>. QED BY <1>10, <2>1, <2>2 DEF Spans
<1>13. \A m : Spans(m)' = [i \in Adds(m)' |-> Span(log'[i].event)]
  BY DEF Spans, Span
<1>14. \A m : Total(Adds(m), Spans(m))' = Sum(Adds(m)', Spans(m)', n)
  <2>1. ASSUME NEW m PROVE Total(Adds(m), Spans(m))' = Sum(Adds(m)', Spans(m)', Len(log'))
    BY DEF Total, Sum, SumOf, IsSum
  <2>. QED BY <1>1, <2>1
<1>15. ASSUME NEW m \in 0 .. n - 1 PROVE ValueAt(m)' = ValueAt(m)
  <2>. DEFINE S == Adds(m)
              f == Spans(m)
  <2>0. PICK g : g = Spans(m)'
    OBVIOUS
  <2>1. S \in SUBSET (1 .. n - 1) /\ Adds(m)' = S
    BY <1>9
  <2>2. \A i \in S : f[i] \in Int /\ g[i] = f[i]
    BY <1>11, <1>12, <1>13, <2>0, <2>1
  <2>3. Total(Adds(m), Spans(m))' = Sum(S, g, n) /\ Total(Adds(m), Spans(m)) = Sum(S, f, n - 1)
    BY <1>12, <1>14, <2>0, <2>1
  <2>4. Base(From(m))' = Base(From(m))
    <3>1. From(m)' = From(m) /\ (From(m) = 0 \/ From(m) \in 1 .. n - 1)
      BY <1>1, <1>9
    <3>2. \A i : From(m)' = i => Base(From(m))' = Base(i)'
      BY DEF Base, At
    <3>. QED BY <1>7, <1>8, <3>1, <3>2
  <2>. HIDE DEF S, f
  <2>5. n \in Nat \ {0}
    BY <1>1
  <2>6. Sum(S, g, n) = Sum(S, f, n - 1)
    BY <2>1, <2>2, <2>5, SumAdd
  <2>. QED BY <2>3, <2>4, <2>6 DEF ValueAt
<1>. SUFFICES ValueAt(n)' = IF ok THEN Moved(ValueAt(n - 1), e) ELSE ValueAt(n - 1)
  BY <1>15
<1>16. Before(B', n + 1) = B' /\ Before(B, n) = B
  <2>1. \A j \in 1 .. n - 1 : j < n /\ j < n + 1
    BY <1>1
  <2>2. n < n + 1
    BY <1>1
  <2>3. \A j \in B : j < n /\ j < n + 1
    BY <1>2, <2>1
  <2>4. \A j \in B' : j \in B \/ j = n
    BY <1>2
  <2>5. (\A j \in B' : j < n + 1) /\ (\A j \in B : j < n)
    BY <2>2, <2>3, <2>4
  <2>. QED BY <2>5 DEF Before
<1>17. n - 1 \in 0 .. n - 1 /\ (n - 1) + 1 = n
  BY <1>1
<1>18. /\ From(n)' = Newest(B') /\ From(n - 1) = Newest(B)
       /\ Newest(B \cup {n}) = n /\ Newest(B) \in 0 .. n - 1
  <2>1. Newest(B \cup {n}) = n /\ Newest(B) \in 0 .. n - 1
    BY <1>1, <1>2, NewestAdd
  <2>2. From(n)' = Newest(B')
    BY <1>5, <1>16
  <2>3. From(n - 1) = Newest(Before(B, (n - 1) + 1))
    BY <1>5
  <2>. QED BY <1>16, <1>17, <2>1, <2>2, <2>3
<1>19. ValueAt(n)' = Total(Adds(n), Spans(n))' + Base(From(n))'
  BY DEF ValueAt
<1>20. PICK g : g = Spans(n)'
  OBVIOUS
<1>21. CASE ok /\ base
  <2>1. From(n)' = n
    BY <1>2, <1>18, <1>21
  <2>2. A' = A
    BY <1>3, <1>4, <1>21
  <2>3. Adds(n)' = {}
    <3>1. Adds(n)' = {i \in A : i > n /\ i <= n}
      BY <1>6, <2>1, <2>2
    <3>2. \A i \in A : ~ (i > n /\ i <= n)
      BY <1>1, <1>3
    <3>. QED BY <3>1, <3>2
  <2>4. Total(Adds(n), Spans(n))' = 0
    <3>1. n \in Nat
      BY <1>1
    <3>. QED BY <1>14, <1>20, <2>3, <3>1, SumNone
  <2>5. Base(From(n))' = Base(n)'
    BY <2>1 DEF Base, At
  <2>6. Base(n)' = Moved(ValueAt(n - 1), e)
    <3>1. n \in Of({"time_now"})' <=> e.type = "time_now"
      <4>1. /\ Of({"time_now"}) \in SUBSET (1 .. n - 1)
            /\ Of({"time_now"})' = IF ok /\ e.type = "time_now" THEN Of({"time_now"}) \cup {n}
                                   ELSE Of({"time_now"})
        BY OfOne
      <4>. QED BY <1>1, <1>21, <4>1
    <3>2. n \in TimeSets' <=> e.type = "time_set" /\ Has(e, "value")
      BY <1>2, <1>21
    <3>3. Base(n)' = IF n \in TimeSets' THEN log'[n].event.payload.value
                     ELSE IF n \in Of({"time_now"})' THEN log'[n].event.at ELSE 0
      BY DEF Base, At
    <3>. QED BY <1>1, <1>21, <3>1, <3>2, <3>3 DEF Moved
  <2>7. Moved(ValueAt(n - 1), e) \in Int
    <3>1. Typed(e)
      BY EventTyped
    <3>. QED BY <1>1, <1>21, <3>1, Values DEF Moved
  <2>8. ValueAt(n)' = 0 + Moved(ValueAt(n - 1), e)
    BY <1>19, <2>4, <2>5, <2>6
  <2>. QED BY <1>21, <2>7, <2>8
<1>22. CASE ~ (ok /\ base)
  <2>. DEFINE S == Adds(n - 1)
              f == Spans(n - 1)
  <2>1. From(n)' = From(n - 1) /\ From(n - 1) \in 0 .. n - 1
    BY <1>2, <1>18, <1>22
  <2>2. S = {i \in A : i > From(n - 1) /\ i <= n - 1} /\ S \in SUBSET (1 .. n - 1)
    BY <1>5, <1>9, <1>17
  <2>3. Adds(n)' = {i \in A' : i > From(n - 1) /\ i <= n}
    BY <1>6, <2>1
  <2>4. Base(From(n))' = Base(From(n - 1))
    <3>1. From(n - 1) = 0 \/ From(n - 1) \in 1 .. n - 1
      BY <1>1, <2>1
    <3>2. \A i : From(n)' = i => Base(From(n))' = Base(i)'
      BY DEF Base, At
    <3>. QED BY <1>7, <1>8, <2>1, <3>1, <3>2
  <2>5. /\ Total(Adds(n - 1), Spans(n - 1)) = Sum(S, f, n - 1)
        /\ \A i \in S : f[i] \in Int /\ f[i] = Span(log[i].event)
    BY <1>12, <1>17
  <2>6. \A i \in Adds(n)' : g[i] = Span(log'[i].event)
    BY <1>13, <1>20
  <2>7. n \in Nat \ {0}
    BY <1>1
  <2>8. Total(Adds(n), Spans(n))' = Sum(Adds(n)', g, n)
    BY <1>14, <1>20
  <2>9. ValueAt(n - 1) = Sum(S, f, n - 1) + Base(From(n - 1))
    BY <2>5 DEF ValueAt
  <2>10. Base(From(n - 1)) \in Int
    <3>1. Base(From(n - 1)) = 0 \/ From(n - 1) \in 1 .. n - 1
      BY <1>1, <1>8, <2>1
    <3>2. ASSUME NEW i \in 1 .. n - 1 PROVE Base(i) \in Int
      <4>1. Typed(log[i].event)
        BY <1>1, <3>2 DEF EventsInv
      <4>2. i \in TimeSets => log[i].event.type = "time_set" /\ Has(log[i].event, "value")
        BY DEF TimeSets, Of
      <4>3. log[i].event.at \in Int
        BY <1>1, <4>1, Values
      <4>4. i \in TimeSets => log[i].event.payload.value \in Int
        BY <1>1, <4>1, <4>2, Values
      <4>. QED BY <4>3, <4>4 DEF Base, At
    <3>. QED BY <3>1, <3>2
  <2>. HIDE DEF S, f
  <2>11. CASE ok /\ add
    <3>1. A' = A \cup {n}
      BY <1>3, <2>11
    <3>2. Adds(n)' = S \cup {n}
      <4>1. \A i \in A : i <= n <=> i <= n - 1
        BY <1>1, <1>3
      <4>2. n > From(n - 1) /\ n <= n
        BY <1>1, <2>1
      <4>. QED BY <2>2, <2>3, <3>1, <4>1, <4>2
    <3>3. \A i \in S : f[i] \in Int /\ g[i] = f[i]
      BY <1>11, <2>2, <2>5, <2>6, <3>2
    <3>4. g[n] = Span(e) /\ Span(e) \in Int
      <4>1. Typed(e)
        BY EventTyped
      <4>2. Span(e) \in Int
        BY <1>1, <2>11, <4>1, Values
      <4>. QED BY <1>11, <2>6, <3>2, <4>2
    <3>5. Sum(S \cup {n}, g, n) = Sum(S, f, n - 1) + g[n] /\ Sum(S, f, n - 1) \in Int
      <4>1. g[n] \in Int
        BY <3>4
      <4>2. g[n] \in Int => Sum(S \cup {n}, g, n) = Sum(S, f, n - 1) + g[n]
        BY <2>2, <2>7, <3>3, SumAdd
      <4>3. Sum(S, f, n - 1) \in Int
        BY <2>2, <2>7, <3>3, SumAdd
      <4>. QED BY <4>1, <4>2, <4>3
    <3>6. ValueAt(n)' = (Sum(S, f, n - 1) + Span(e)) + Base(From(n - 1))
      BY <1>19, <2>4, <2>8, <3>2, <3>4, <3>5
    <3>7. ValueAt(n)' = ValueAt(n - 1) + Span(e)
      BY <2>9, <2>10, <3>4, <3>5, <3>6
    <3>. QED BY <2>11, <3>7 DEF Moved
  <2>12. CASE ~ (ok /\ add)
    <3>1. A' = A
      BY <1>3, <2>12
    <3>2. Adds(n)' = S
      <4>1. \A i \in A : i <= n <=> i <= n - 1
        BY <1>1, <1>3
      <4>. QED BY <2>2, <2>3, <3>1, <4>1
    <3>3. \A i \in S : f[i] \in Int /\ g[i] = f[i]
      BY <1>11, <2>2, <2>5, <2>6, <3>2
    <3>5. Sum(S, g, n) = Sum(S, f, n - 1)
      BY <2>2, <2>7, <3>3, SumAdd
    <3>6. ValueAt(n)' = ValueAt(n - 1)
      BY <1>19, <2>4, <2>8, <2>9, <3>2, <3>5
    <3>. QED BY <1>22, <2>12, <3>6 DEF Moved
  <2>. QED BY <2>11, <2>12
<1>. QED BY <1>15, <1>21, <1>22

(* The states of integer and time fields; TimeApply moves the value, or       *)
(* refuses what cannot be marshalled.                                         *)
NumState == [value : Int, exists : BOOLEAN, updatedAt : Int]

LEMMA TimeApplied ==
  ASSUME NEW s \in NumState, Printable(s.value), kind \in Kinds, NEW e, Typed(e)
  PROVE  LET v == Moved(s.value, e)
             r == TimeApply(s, e)
         IN  /\ v \in Int
             /\ Printable(v) => r \in NumState /\ r.value = v /\ r.updatedAt = e.at /\ r # Nil
             /\ ~ Printable(v) => r = Nil
             /\ ~ (e.type = "time_add" /\ Has(e, "seconds")) => Printable(v)
<1>. DEFINE v == Moved(s.value, e)
            set == e.type = "time_set" /\ Has(e, "value")
            add == e.type = "time_add" /\ Has(e, "seconds")
            f == IF set \/ add \/ e.type = "time_now" THEN TRUE
                 ELSE IF e.type = "time_delete" THEN FALSE ELSE s.exists
            u == Field(s, e, v, f)
<1>1. /\ e.at \in Int /\ Printable(e.at)
      /\ e.type = "time_set" /\ Has(e, "value") =>
           e.payload.value \in Int /\ Printable(e.payload.value)
      /\ e.type = "time_add" /\ Has(e, "seconds") => Span(e) \in Int
  BY Values
<1>2. Printable(0)
  BY ClockAssumption DEF Printable
<1>3. s.value \in Int /\ s.exists \in BOOLEAN
  BY DEF NumState
<1>4. v \in Int /\ f \in BOOLEAN
  <2>1. f \in BOOLEAN
    BY <1>3
  <2>2. CASE add
    <3>1. v = s.value + Span(e)
      BY <2>2 DEF Moved
    <3>. QED BY <1>1, <1>3, <2>1, <2>2, <3>1
  <2>3. CASE ~ add
    <3>2. set => v = e.payload.value
      BY DEF Moved
    <3>3. ~ set => v \in Int
      BY <1>1, <1>3, <2>3 DEF Moved
    <3>. QED BY <1>1, <2>1, <3>2, <3>3
  <2>. QED BY <2>2, <2>3
<1>5. ~ (e.type = "time_add" /\ Has(e, "seconds")) => Printable(v)
  BY <1>1, <1>2 DEF Moved
<1>6. TimeApply(s, e) = Marshalled(u)
  <2>1. CASE set
    <3>1. v = e.payload.value /\ f = TRUE
      BY <2>1 DEF Moved
    <3>. QED BY <2>1, <3>1 DEF TimeApply
  <2>2. CASE e.type = "time_now"
    <3>1. v = e.at /\ f = TRUE
      BY <2>2 DEF Moved
    <3>. QED BY <2>2, <3>1 DEF TimeApply
  <2>3. CASE add
    <3>1. v = s.value + Span(e) /\ f = TRUE
      BY <2>3 DEF Moved
    <3>. QED BY <2>3, <3>1 DEF TimeApply
  <2>4. CASE e.type = "time_delete"
    BY <2>4 DEF TimeApply, Moved
  <2>5. CASE /\ ~ (e.type = "time_set" /\ Has(e, "value")) /\ e.type # "time_now"
             /\ ~ (e.type = "time_add" /\ Has(e, "seconds")) /\ e.type # "time_delete"
    BY <2>5 DEF TimeApply, Moved
  <2>. QED BY <2>1, <2>2, <2>3, <2>4, <2>5
<1>. HIDE DEF v, f
<1>7. u \in NumState /\ u.value = v /\ u.updatedAt = e.at
  BY <1>1, <1>4 DEF Field, NumState
<1>. HIDE DEF u
<1>8. u # Nil
  BY <1>7, NilAssumption DEF NumState
<1>. QED BY <1>4, <1>5, <1>6, <1>7, <1>8 DEF Marshalled, v

(* An event is refused only if its sum is no printable time.                  *)
Accepted(i) ==
  log[i].ok <=> \/ ~ (log[i].event.type = "time_add" /\ Has(log[i].event, "seconds"))
                \/ Printable(ValueAt(i - 1) + Span(log[i].event))

(* An inductive invariant of time fields.                                     *)
TimeInv == kind = "time" =>
  /\ EventsInv
  /\ Cur \in NumState /\ Printable(Cur.value)
  /\ Cur.value = ValueAt(Len(log))
  /\ snap # Nil => Pos # {} /\ snap.updatedAt = At(Newest(Pos))
  /\ \A i \in 1 .. Len(log) : Accepted(i)

LEMMA TimeInit == Init => TimeInv
<1>1. SUFFICES ASSUME Init, kind = "time" PROVE TimeInv
  BY DEF TimeInv
<1>2. log = <<>> /\ Len(log) = 0 /\ snap = Nil /\ Pos = {} /\ \A types : Of(types) = {}
  BY <1>1, EmptySeq DEF Init, Pos, Of
<1>3. Cur = NumZero
  BY <1>1, <1>2 DEF Cur, Zero
<1>4. Cur \in NumState /\ Cur.value = 0 /\ Printable(0)
  BY <1>3, ClockAssumption DEF NumZero, NumState, Printable
<1>5. Bases = {} /\ TimeSets = {}
  BY <1>2 DEF Bases, TimeSets
<1>6. From(0) = 0
  BY <1>5 DEF From, Before, Newest
<1>7. Adds(0) = {} /\ Base(From(0)) = 0
  BY <1>2, <1>5, <1>6 DEF Adds, After, Base
<1>8. Total(Adds(0), Spans(0)) = 0
  <2>1. Total(Adds(0), Spans(0)) = Sum({}, Spans(0), 0)
    BY <1>2, <1>7, TotalIs
  <2>. QED BY <2>1, SumNone
<1>9. ValueAt(0) = 0
  BY <1>7, <1>8 DEF ValueAt
<1>. QED BY <1>2, <1>4, <1>9 DEF TimeInv, EventsInv

LEMMA TimeNext ==
  ASSUME LogInv, TimeInv, Next PROVE TimeInv'
<1>1. PICK n, e : Takes(n, e) \/ Refuses(n, e)
  BY Steps
<1>2. SUFFICES ASSUME kind = "time" PROVE TimeInv'
  BY <1>1 DEF TimeInv, Extends, Takes, Refuses
<1>. DEFINE s == Cur
            r == TimeApply(s, e)
            v == Moved(s.value, e)
            adds == e.type = "time_add" /\ Has(e, "seconds")
<1>3. PICK ok : Extends(n, e, ok) /\ (ok <=> Takes(n, e)) /\ (~ ok => Refuses(n, e))
  <2>1. CASE Takes(n, e)
    BY <2>1 DEF Takes
  <2>2. CASE ~ Takes(n, e)
    BY <1>1, <2>2 DEF Refuses
  <2>. QED BY <2>1, <2>2
<1>4. Apply(kind, snap, e) = r
  BY <1>2 DEF Apply, Cur
<1>5. /\ EventsInv /\ s \in NumState /\ Printable(s.value) /\ s.value = ValueAt(Len(log))
      /\ snap # Nil => Pos # {} /\ snap.updatedAt = At(Newest(Pos))
      /\ \A i \in 1 .. Len(log) : Accepted(i)
  BY <1>2 DEF TimeInv
<1>6. /\ n \in Nat \ {0} /\ Len(log) = n - 1 /\ Len(log') = n /\ ok \in BOOLEAN
      /\ kind' = kind /\ kind \in Kinds /\ log'[n].event = e /\ log'[n].ok = ok
      /\ \A i \in 1 .. n - 1 : log'[i] = log[i]
  BY <1>3, Earlier DEF Extends
<1>7. /\ v \in Int
      /\ Printable(v) => r \in NumState /\ r.value = v /\ r.updatedAt = e.at /\ r # Nil
      /\ ~ Printable(v) => r = Nil
      /\ ~ adds => Printable(v)
  <2>1. Typed(e)
    BY <1>3, EventTyped
  <2>. QED BY <1>5, <1>6, <2>1, TimeApplied
<1>. HIDE DEF r
<1>8. /\ \A m \in 0 .. n - 1 : ValueAt(m)' = ValueAt(m)
      /\ ValueAt(n)' = IF ok THEN Moved(ValueAt(n - 1), e) ELSE ValueAt(n - 1)
  BY <1>3, <1>5, ValueSteps
<1>9. ok <=> Printable(v)
  BY <1>3, <1>4, <1>7 DEF Takes, Refuses
<1>10. v = Moved(ValueAt(n - 1), e)
  BY <1>5, <1>6
<1>11. EventsInv'
  BY <1>3, <1>5, EventsNext
<1>12. \A i \in 1 .. n : Accepted(i)'
  <2>1. ASSUME NEW i \in 1 .. n - 1 PROVE Accepted(i)'
    <3>1. log'[i] = log[i] /\ ValueAt(i - 1)' = ValueAt(i - 1) /\ Accepted(i)
      BY <1>5, <1>6, <1>8
    <3>. QED BY <3>1 DEF Accepted, Has, Span
  <2>2. Accepted(n)'
    <3>1. ValueAt(n - 1)' = ValueAt(n - 1)
      BY <1>6, <1>8
    <3>2. adds => v = ValueAt(n - 1) + Span(e)
      BY <1>10 DEF Moved
    <3>3. ok <=> ~ adds \/ Printable(ValueAt(n - 1) + Span(e))
      BY <1>7, <1>9, <3>2
    <3>. QED BY <1>6, <3>1, <3>3 DEF Accepted, Has, Span
  <2>. QED BY <1>6, <2>1, <2>2
<1>13. CASE ok
  <2>1. Cur' = r /\ snap' = r /\ r # Nil
    BY <1>3, <1>4, <1>13 DEF Takes, Cur
  <2>2. Cur' \in NumState /\ Cur'.value = v /\ Printable(v) /\ snap'.updatedAt = e.at
    BY <1>7, <1>9, <1>13, <2>1
  <2>3. ValueAt(Len(log))' = v
    <3>1. ValueAt(Len(log))' = ValueAt(n)'
      BY <1>6 DEF ValueAt, Total, Adds, Spans, Base, From, After, Has, At
    <3>. QED BY <1>8, <1>10, <1>13, <3>1
  <2>4. At(Newest(Pos))' = e.at /\ Pos' # {}
    <3>0. Pos' # {}
      BY <1>3, <1>13, PosStep
    <3>1. Newest(Pos)' = n
      <4>1. Pos \in SUBSET (1 .. n - 1) /\ Pos' = Pos \cup {n}
        BY <1>3, <1>13, PosStep
      <4>. QED BY <1>6, <4>1, NewestAdd
    <3>. QED BY <1>6, <3>0, <3>1 DEF At
  <2>. QED BY <1>6, <1>11, <1>12, <2>1, <2>2, <2>3, <2>4 DEF TimeInv
<1>14. CASE ~ ok
  <2>1. Cur' = s /\ snap' = snap
    BY <1>3, <1>6, <1>14 DEF Refuses, Cur
  <2>2. ValueAt(Len(log))' = s.value
    <3>1. ValueAt(Len(log))' = ValueAt(n)'
      BY <1>6 DEF ValueAt, Total, Adds, Spans, Base, From, After, Has, At
    <3>. QED BY <1>5, <1>6, <1>8, <1>14, <3>1
  <2>3. snap # Nil => Pos' # {} /\ At(Newest(Pos))' = At(Newest(Pos))
    <3>1. Pos' = Pos /\ Pos \in SUBSET (1 .. n - 1)
      BY <1>3, <1>14, PosStep
    <3>2. /\ Newest(Pos)' = Newest(Pos) /\ Newest(Pos) \in 0 .. n - 1
          /\ Pos # {} => Newest(Pos) \in 1 .. n - 1
      <4>1. Newest(Pos)' = Newest(Pos')
        OBVIOUS
      <4>. QED BY <1>6, <3>1, <4>1, NewestAdd
    <3>3. Pos # {} => At(Newest(Pos))' = At(Newest(Pos))
      BY <1>6, <3>2 DEF At
    <3>. QED BY <1>5, <3>1, <3>3
  <2>. QED BY <1>5, <1>6, <1>11, <1>12, <2>1, <2>2, <2>3 DEF TimeInv
<1>. QED BY <1>6, <1>13, <1>14

(* The seconds that an event adds, before the product wraps around; it does   *)
(* not if a Duration holds it.                                                *)
Exact(i) == Float(log[i].event.payload.seconds) * Second

LEMMA WrapFits == ASSUME NEW x \in Int, InWidth(x) PROVE Wrap(x) = x
<1>. DEFINE H == 2 ^ (Bits - 1)
            W == 2 ^ Bits
<1>1. H \in Nat \ {0} /\ W = 2 * H
  BY WidthAssumption
<1>2. Wrap(x) = ((x + H) % W) - H /\ x \in -H .. H - 1
  BY DEF Wrap, InWidth
<1>. HIDE DEF H, W
<1>3. x + H \in 0 .. W - 1 /\ W \in Nat \ {0}
  BY <1>1, <1>2
<1>4. \A w \in Nat \ {0} : \A y \in 0 .. w - 1 : y % w = y
  OBVIOUS
<1>5. (x + H) % W = x + H
  BY <1>3, <1>4
<1>. QED BY <1>1, <1>2, <1>5

(* Sums of numbers that differ by multiples of w do so themselves.            *)
Congruent(a, b, w) == a \in Int /\ b \in Int /\ \E q \in Int : a = b + q * w

LEMMA SumModulo ==
  ASSUME NEW n \in Nat, NEW S, NEW f, NEW g, NEW w \in Nat,
         \A i \in S \cap (1 .. n) : Congruent(f[i], g[i], w)
  PROVE  Congruent(Sum(S, f, n), Sum(S, g, n), w)
<1>. DEFINE u == SumOf(S, f, n)
            v == SumOf(S, g, n)
            K == {i \in 0 .. n : Congruent(u[i], v[i], w)}
<1>0. \A i \in S \cap (1 .. n) : f[i] \in Int /\ g[i] \in Int
  BY DEF Congruent
<1>1. /\ u[0] = 0 /\ \A i \in 1 .. n : u[i] = u[i - 1] + (IF i \in S THEN f[i] ELSE 0)
      /\ \A i \in 0 .. n : u[i] \in Int
  BY <1>0, SumSteps
<1>2. /\ v[0] = 0 /\ \A i \in 1 .. n : v[i] = v[i - 1] + (IF i \in S THEN g[i] ELSE 0)
      /\ \A i \in 0 .. n : v[i] \in Int
  BY <1>0, SumSteps
<1>. HIDE DEF u, v
<1>3. 0 \in K
  <2>1. 0 \in 0 .. n /\ 0 \in Int /\ u[0] = 0 /\ v[0] = 0 /\ 0 = 0 + 0 * w
    BY <1>1, <1>2
  <2>2. Congruent(0, 0, w)
    BY <2>1, Zenon DEF Congruent
  <2>. QED BY <2>1, <2>2
<1>4. ASSUME NEW i \in 0 .. n, i < n, i \in K PROVE i + 1 \in K
  <2>1. i + 1 \in 1 .. n /\ i + 1 \in 0 .. n /\ (i + 1) - 1 = i
    BY <1>4
  <2>2. PICK q \in Int : u[i] = v[i] + q * w
    BY <1>4 DEF Congruent
  <2>3. u[i] \in Int /\ v[i] \in Int
    BY <1>1, <1>2
  <2>4. CASE i + 1 \in S
    <3>1. f[i + 1] \in Int /\ g[i + 1] \in Int /\ \E p \in Int : f[i + 1] = g[i + 1] + p * w
      BY <2>1, <2>4 DEF Congruent
    <3>2. PICK p \in Int : f[i + 1] = g[i + 1] + p * w
      BY <3>1
    <3>3. u[i + 1] = u[i] + f[i + 1] /\ v[i + 1] = v[i] + g[i + 1]
      BY <1>1, <1>2, <2>1, <2>4
    <3>4. (q + p) * w = q * w + p * w /\ q * w \in Int /\ p * w \in Int /\ q + p \in Int
      OBVIOUS
    <3>5. u[i + 1] = v[i + 1] + (q + p) * w
      <4>1. \A a, b, c, d, y, z \in Int : a = b + y /\ c = d + z => a + c = (b + d) + (y + z)
        OBVIOUS
      <4>. QED BY <2>2, <2>3, <3>1, <3>2, <3>3, <3>4, <4>1
    <3>6. u[i + 1] \in Int /\ v[i + 1] \in Int
      BY <1>1, <1>2, <2>1
    <3>7. Congruent(u[i + 1], v[i + 1], w)
      BY <3>4, <3>5, <3>6, Zenon DEF Congruent
    <3>. QED BY <2>1, <3>7
  <2>5. CASE i + 1 \notin S
    <3>1. u[i + 1] = u[i] /\ v[i + 1] = v[i]
      BY <1>1, <1>2, <2>1, <2>3, <2>5
    <3>2. Congruent(u[i + 1], v[i + 1], w)
      BY <1>4, <3>1
    <3>. QED BY <2>1, <3>2
  <2>. QED BY <2>4, <2>5
<1>5. \A i \in 0 .. n : i \in K
  <2>. HIDE DEF K
  <2>. QED BY <1>3, <1>4, Induction
<1>6. n \in 0 .. n
  OBVIOUS
<1>. QED BY <1>5, <1>6 DEF Sum, u, v

LEMMA SpansAre ==
  ASSUME LogInv, EventsInv, NEW m
  PROVE  LET f == [i \in Adds(m) |-> Exact(i)]
         IN  /\ Congruent(Total(Adds(m), Spans(m)), Total(Adds(m), f), 2 ^ Bits)
             /\ (\A i \in Adds(m) : InWidth(Exact(i))) => Spans(m) = f
<1>. DEFINE f == [i \in Adds(m) |-> Exact(i)]
            n == Len(log)
            W == 2 ^ Bits
<1>1. n \in Nat /\ kind \in Kinds /\ W \in Nat
  <2>1. PICK S : log \in Seq(S)
    BY DEF LogInv
  <2>2. W \in Nat
    BY WholeIs DEF Whole
  <2>. QED BY <2>1, <2>2 DEF LogInv
<1>2. Adds(m) \subseteq 1 .. n
  BY DEF Adds, After, Of, Pos
<1>3. ASSUME NEW i \in Adds(m)
      PROVE  /\ Exact(i) \in Int /\ Span(log[i].event) = Wrap(Exact(i))
             /\ Spans(m)[i] = Wrap(Exact(i)) /\ f[i] = Exact(i)
  <2>1. Typed(log[i].event)
    BY <1>2, <1>3 DEF EventsInv
  <2>2. log[i].event.type = "time_add" /\ Has(log[i].event, "seconds")
    BY <1>3 DEF Adds, After, Of
  <2>3. log[i].event.payload.seconds \in Int
    BY <1>1, <2>1, <2>2, Values
  <2>4. Exact(i) \in Int
    BY <2>3, FloatInt, ClockAssumption DEF Exact
  <2>. QED BY <1>3, <2>4 DEF Span, Spans, Exact
<1>4. ASSUME NEW i \in Adds(m)
      PROVE  Congruent(Spans(m)[i], f[i], W)
  <2>1. Exact(i) \in Int /\ Spans(m)[i] = Wrap(Exact(i)) /\ f[i] = Exact(i)
    BY <1>3
  <2>2. Wrap(Exact(i)) \in Int /\ \E q \in Int : Wrap(Exact(i)) = Exact(i) + q * W
    <3>1. 2 ^ (Bits - 1) \in Nat
      BY WidthAssumption
    <3>. QED BY <2>1, <3>1, WrapIs
  <2>. HIDE DEF W, f
  <2>. QED BY <2>1, <2>2 DEF Congruent
<1>5. (\A i \in Adds(m) : InWidth(Exact(i))) => Spans(m) = f
  <2>1. SUFFICES ASSUME \A i \in Adds(m) : InWidth(Exact(i)) PROVE Spans(m) = f
    OBVIOUS
  <2>2. \A i \in Adds(m) : Span(log[i].event) = Exact(i)
    BY <1>3, <2>1, WrapFits
  <2>. QED BY <2>2 DEF Spans
<1>6. /\ Total(Adds(m), Spans(m)) = Sum(Adds(m), Spans(m), n)
      /\ Total(Adds(m), f) = Sum(Adds(m), f, n)
  BY TotalIs
<1>. HIDE DEF f, n, W
<1>7. Congruent(Sum(Adds(m), Spans(m), n), Sum(Adds(m), f, n), W)
  <2>1. \A i \in Adds(m) \cap (1 .. n) : Congruent(Spans(m)[i], f[i], W)
    BY <1>4
  <2>. QED BY <1>1, <2>1, SumModulo
<1>. QED BY <1>5, <1>6, <1>7 DEF f, W

LEMMA BaseInt ==
  ASSUME LogInv, EventsInv, NEW m PROVE Base(m) \in Int
<1>1. m \in TimeSets => log[m].event.payload.value \in Int
  <2>1. SUFFICES ASSUME m \in TimeSets PROVE log[m].event.payload.value \in Int
    OBVIOUS
  <2>2. m \in 1 .. Len(log) /\ log[m].event.type = "time_set" /\ Has(log[m].event, "value")
    BY <2>1 DEF TimeSets, Of, Pos
  <2>. QED BY <2>2, Values DEF EventsInv, LogInv
<1>2. m \in Of({"time_now"}) => At(m) \in Int
  BY Values DEF Of, Pos, EventsInv, LogInv, At
<1>. QED BY <1>1, <1>2 DEF Base

(* The time that Get returns is the last setting and the seconds added since, *)
(* exactly while a Duration holds each addition and modulo its width beyond;  *)
(* an addition is refused exactly if the sum could not be marshalled, and no  *)
(* other event is (field.go:116-147).                                         *)
THEOREM TimesAreTold == Spec => []TimeSnapshot
<1>1. Init => LogInv /\ TimeInv
  BY DeployInit, TimeInit
<1>2. LogInv /\ TimeInv /\ [Next]_vars => LogInv' /\ TimeInv'
  <2>1. SUFFICES ASSUME LogInv, TimeInv, [Next]_vars PROVE LogInv' /\ TimeInv'
    OBVIOUS
  <2>2. CASE Next
    BY <2>1, <2>2, LogNext, TimeNext
  <2>3. CASE UNCHANGED vars
    <3>1. LogInv'
      BY <2>1, <2>3 DEF vars, LogInv, Pos
    <3>2. TimeInv' <=> TimeInv
      BY <2>3 DEF vars, TimeInv, Cur, EventsInv, Typed, ValueAt, Accepted, Total, Spans, Adds, Base,
                  From, Bases, TimeSets, Of, Pos, Val, At, After, Before, Has, Span
    <3>. QED BY <2>1, <3>1, <3>2
  <2>. QED BY <2>1, <2>2, <2>3
<1>3. LogInv /\ TimeInv => TimeSnapshot
  <2>1. SUFFICES ASSUME LogInv, TimeInv, kind = "time" PROVE TimeSnapshot
    BY DEF TimeSnapshot
  <2>2. FieldGet.value = Cur.value
    BY <2>1 DEF FieldGet, Cur
  <2>3. /\ FieldGet.value = ValueAt(Len(log))
        /\ snap # Nil => snap.updatedAt = At(Newest(Pos))
        /\ \A i \in 1 .. Len(log) : Accepted(i)
        /\ Printable(FieldGet.value) /\ FieldGet.value \in Int /\ EventsInv
    BY <2>1, <2>2 DEF TimeInv, NumState
  <2>. DEFINE adds(i) == log[i].event.type = "time_add" /\ Has(log[i].event, "seconds")
              f(m) == [i \in Adds(m) |-> Exact(i)]
              valueAt(m) == Total(Adds(m), f(m)) + Base(From(m))
              fit(S) == \A i \in S : InWidth(Exact(i))
              all == Len(log)
  <2>4. ASSUME NEW m, fit(Adds(m)) PROVE ValueAt(m) = valueAt(m)
    BY <2>1, <2>3, <2>4, SpansAre DEF ValueAt
  <2>5. (FieldGet.value - valueAt(all)) % 2 ^ Bits = 0
    <3>. DEFINE t == Total(Adds(all), Spans(all))
                x == Total(Adds(all), f(all))
                b == Base(From(all))
    <3>1. t \in Int /\ x \in Int /\ \E q \in Int : t = x + q * 2 ^ Bits
      <4>1. Congruent(t, x, 2 ^ Bits)
        BY <2>1, <2>3, SpansAre
      <4>. QED BY <4>1 DEF Congruent
    <3>2. b \in Int
      BY <2>1, <2>3, BaseInt
    <3>3. FieldGet.value = t + b /\ valueAt(all) = x + b
      BY <2>3 DEF ValueAt
    <3>. HIDE DEF t, x, b
    <3>4. PICK q \in Int : t = x + q * 2 ^ Bits
      BY <3>1
    <3>5. 2 ^ Bits \in Nat \ {0}
      BY WholeIs DEF Whole
    <3>6. \A w \in Nat \ {0} : (t + b) - (x + b) = t - x /\ (q * w) % w = 0 /\ (x + q * w) - x = q * w
      BY <3>1, <3>2
    <3>. QED BY <3>3, <3>4, <3>5, <3>6
  <2>6. fit(Adds(all)) => FieldGet.value = valueAt(all)
    BY <2>3, <2>4
  <2>7. ASSUME NEW i \in 1 .. all, adds(i), fit(Adds(i - 1) \cup {i})
        PROVE  log[i].ok <=> Printable(valueAt(i - 1) + Exact(i))
    <3>1. ValueAt(i - 1) = valueAt(i - 1)
      BY <2>4, <2>7
    <3>2. Span(log[i].event) = Exact(i)
      <4>1. Typed(log[i].event)
        BY <2>3 DEF EventsInv
      <4>2. log[i].event.payload.seconds \in Int
        BY <2>1, <2>7, <4>1, Values DEF LogInv
      <4>3. Exact(i) \in Int
        <5>1. Float(log[i].event.payload.seconds) \in Int
          BY <4>2, FloatInt
        <5>2. Second \in Int
          BY ClockAssumption
        <5>. QED BY <5>1, <5>2 DEF Exact
      <4>. QED BY <2>7, <4>3, WrapFits DEF Span, Exact
    <3>. HIDE DEF valueAt
    <3>. QED BY <2>3, <2>7, <3>1, <3>2 DEF Accepted
  <2>8. \A i \in 1 .. all : ~ adds(i) => log[i].ok
    BY <2>3 DEF Accepted
  <2>9. \A i \in 1 .. all : adds(i) /\ fit(Adds(i - 1) \cup {i}) =>
          (log[i].ok <=> Printable(valueAt(i - 1) + Exact(i)))
    <3>. HIDE DEF valueAt, fit, adds
    <3>. QED BY <2>7
  <2>. QED BY <2>1, <2>3, <2>5, <2>6, <2>8, <2>9
       DEF TimeSnapshot, Adds, Base, From, Bases, TimeSets, Exact
<1>. QED BY <1>1, <1>2, <1>3, PTL DEF Spec

--------------------------------------------------------------------------------
(* String and integer fields.                                                 *)

(* The settings of a field and what they or a deletion left last.             *)
SetsOf(t) == {i \in Of({t}) : Has(log[i].event, "value")}
FromOf(t, d) == Newest(SetsOf(t) \cup Of({d}))
IsSet(t, d) == FromOf(t, d) \in SetsOf(t)

LEMMA FieldSteps ==
  ASSUME NEW n, NEW e, NEW ok, Extends(n, e, ok), NEW t, NEW d, t # d
  PROVE  LET set == e.type = t /\ Has(e, "value")
             v == FromOf(t, d)
         IN  /\ v \in 0 .. n - 1
             /\ FromOf(t, d)' = IF ok /\ (set \/ e.type = d) THEN n ELSE v
             /\ IsSet(t, d)' <=> IF ok /\ set THEN TRUE
                                 ELSE IF ok /\ e.type = d THEN FALSE ELSE IsSet(t, d)
             /\ IsSet(t, d) => v \in 1 .. n - 1 /\ log'[v] = log[v]
<1>. DEFINE set == e.type = t /\ Has(e, "value")
            S == SetsOf(t)
            T == Of({t})
            D == Of({d})
            U == S \cup D
<1>1. n \in Nat \ {0} /\ ok \in BOOLEAN /\ log'[n].event = e
      /\ \A i \in 1 .. n - 1 : log'[i] = log[i]
  BY Earlier DEF Extends
<1>2. T \in SUBSET (1 .. n - 1) /\ T' = IF ok /\ e.type = t THEN T \cup {n} ELSE T
  BY OfOne
<1>3. D \in SUBSET (1 .. n - 1) /\ D' = IF ok /\ e.type = d THEN D \cup {n} ELSE D
  BY OfOne
<1>4. /\ S = {i \in T : Has(log[i].event, "value")}
      /\ S' = {i \in T' : Has(log'[i].event, "value")}
  BY DEF SetsOf, Has
<1>5. FromOf(t, d) = Newest(S \cup D) /\ FromOf(t, d)' = Newest(S' \cup D')
  BY DEF FromOf
<1>6. (IsSet(t, d) <=> FromOf(t, d) \in S) /\ (IsSet(t, d)' <=> FromOf(t, d)' \in S')
  BY DEF IsSet
<1>. HIDE DEF S, T, D
<1>7. S \in SUBSET (1 .. n - 1) /\ S' = IF ok /\ set THEN S \cup {n} ELSE S
  <2>1. CASE ok /\ e.type = t
    <3>1. T' = T \cup {n}
      BY <1>2, <2>1
    <3>. QED BY <1>1, <1>2, <1>4, <2>1, <3>1
  <2>2. CASE ~ (ok /\ e.type = t)
    <3>1. T' = T
      BY <1>2, <2>2
    <3>. QED BY <1>1, <1>2, <1>4, <2>2, <3>1
  <2>. QED BY <2>1, <2>2
<1>8. U \in SUBSET (1 .. n - 1) /\ n \notin S
  BY <1>1, <1>3, <1>7
<1>9. Newest(U \cup {n}) = n /\ Newest(U) \in 0 .. n - 1
  <2>. HIDE DEF U
  <2>. QED BY <1>1, <1>8, NewestAdd
<1>10. IsSet(t, d) => FromOf(t, d) \in 1 .. n - 1 /\ log'[FromOf(t, d)] = log[FromOf(t, d)]
  BY <1>1, <1>6, <1>7
<1>11. CASE ok /\ set
  <2>1. S' = S \cup {n} /\ D' = D
    BY <1>3, <1>7, <1>11
  <2>2. S' \cup D' = U \cup {n}
    BY <2>1
  <2>3. FromOf(t, d)' = n /\ n \in S'
    BY <1>5, <1>9, <2>1, <2>2
  <2>. QED BY <1>5, <1>6, <1>9, <1>10, <1>11, <2>3
<1>12. CASE ok /\ e.type = d
  <2>1. S' = S /\ D' = D \cup {n}
    BY <1>3, <1>7, <1>12
  <2>2. S' \cup D' = U \cup {n}
    BY <2>1
  <2>3. FromOf(t, d)' = n /\ n \notin S'
    BY <1>5, <1>8, <1>9, <2>1, <2>2
  <2>. QED BY <1>5, <1>6, <1>9, <1>10, <1>12, <2>3
<1>13. CASE ~ (ok /\ set) /\ ~ (ok /\ e.type = d)
  <2>1. S' = S /\ D' = D
    BY <1>3, <1>7, <1>13
  <2>2. FromOf(t, d)' = FromOf(t, d)
    BY <1>5, <2>1
  <2>. QED BY <1>5, <1>6, <1>9, <1>10, <1>13, <2>1, <2>2
<1>. QED BY <1>11, <1>12, <1>13

(* A string field.                                                            *)
StrFrom == FromOf("str_set", "str_delete")
StrIsSet == IsSet("str_set", "str_delete")
StrState == [value : STRING \cup {""}, exists : BOOLEAN, updatedAt : Int]

(* Its invariant: nothing is refused and the last setting or deletion         *)
(* decides.                                                                   *)
StrInv == kind = "str" =>
  /\ EventsInv
  /\ Cur \in StrState
  /\ snap = Nil <=> Len(log) = 0
  /\ Cur.exists <=> StrIsSet
  /\ Cur.value = IF StrIsSet THEN log[StrFrom].event.payload.value ELSE ""

LEMMA StrNext ==
  ASSUME LogInv, StrInv, Next PROVE StrInv'
<1>1. PICK n, e : Takes(n, e) \/ Refuses(n, e)
  BY Steps
<1>2. SUFFICES ASSUME kind = "str" PROVE StrInv'
  BY <1>1 DEF StrInv, Extends, Takes, Refuses
<1>. DEFINE s == Cur
            r == StrApply(s, e)
            set == e.type = "str_set" /\ Has(e, "value")
            del == e.type = "str_delete"
            v == IF set THEN e.payload.value ELSE IF del THEN "" ELSE s.value
            x == IF set THEN TRUE ELSE IF del THEN FALSE ELSE s.exists
            u == Field(s, e, v, x)
<1>3. PICK ok : Extends(n, e, ok) /\ (ok <=> Takes(n, e)) /\ (~ ok => Refuses(n, e))
  <2>1. CASE Takes(n, e)
    BY <2>1 DEF Takes
  <2>2. CASE ~ Takes(n, e)
    BY <1>1, <2>2 DEF Refuses
  <2>. QED BY <2>1, <2>2
<1>4. Apply(kind, snap, e) = r
  BY <1>2 DEF Apply, Cur
<1>5. /\ EventsInv /\ s \in StrState
      /\ s.exists <=> StrIsSet
      /\ s.value = IF StrIsSet THEN log[StrFrom].event.payload.value ELSE ""
  BY <1>2 DEF StrInv
<1>6. /\ n \in Nat \ {0} /\ Len(log') = n /\ ok \in BOOLEAN
      /\ kind' = kind /\ kind \in Kinds /\ log'[n].event = e
  BY <1>3, Earlier DEF Extends
<1>7. /\ e.at \in Int /\ (set => e.payload.value \in STRING)
  <2>1. Typed(e)
    BY <1>3, EventTyped
  <2>. QED BY <1>6, <2>1, Values
<1>8. r = u
  BY DEF StrApply
<1>9. s.value \in STRING \cup {""} /\ s.exists \in BOOLEAN
  BY <1>5 DEF StrState
<1>10. v \in STRING \cup {""} /\ x \in BOOLEAN
  BY <1>7, <1>9
<1>. HIDE DEF v, x, r
<1>11. u \in StrState /\ u.value = v /\ u.exists = x
  BY <1>5, <1>7, <1>10 DEF Field, StrState
<1>. HIDE DEF u
<1>12. r # Nil
  BY <1>8, <1>11, NilAssumption DEF StrState
<1>13. ok
  BY <1>3, <1>4, <1>12 DEF Refuses
<1>14. Cur' = r /\ snap' # Nil
  BY <1>3, <1>4, <1>13 DEF Takes, Cur
<1>15. /\ StrFrom' = IF set \/ del THEN n ELSE StrFrom
       /\ StrIsSet' <=> IF set THEN TRUE ELSE IF del THEN FALSE ELSE StrIsSet
       /\ StrIsSet => log'[StrFrom] = log[StrFrom]
  <2>. DEFINE a == "str_set"
              b == "str_delete"
  <2>1. a # b
    OBVIOUS
  <2>. HIDE DEF a, b
  <2>2. LET st == e.type = a /\ Has(e, "value")
            w == FromOf(a, b)
        IN  /\ w \in 0 .. n - 1
            /\ FromOf(a, b)' = IF ok /\ (st \/ e.type = b) THEN n ELSE w
            /\ IsSet(a, b)' <=> IF ok /\ st THEN TRUE
                                ELSE IF ok /\ e.type = b THEN FALSE ELSE IsSet(a, b)
            /\ IsSet(a, b) => w \in 1 .. n - 1 /\ log'[w] = log[w]
    BY <1>3, <2>1, FieldSteps
  <2>. QED BY <1>13, <2>2 DEF StrFrom, StrIsSet, a, b
<1>16. x <=> StrIsSet'
  BY <1>5, <1>15 DEF x
<1>17. v = IF StrIsSet' THEN log'[StrFrom'].event.payload.value ELSE ""
  BY <1>5, <1>6, <1>15 DEF v
<1>18. EventsInv'
  BY <1>3, <1>5, EventsNext
<1>19. Len(log') # 0
  BY <1>6
<1>. QED BY <1>8, <1>11, <1>14, <1>16, <1>17, <1>18, <1>19 DEF StrInv

(* An integer field.                                                          *)
IntFrom == FromOf("int_set", "int_delete")
IntIsSet == IsSet("int_set", "int_delete")
IntMoves == After(Of({"int_incr", "int_decr"}), IntFrom)
Sign(i) == IF log[i].event.type = "int_incr" THEN 1 ELSE -1
Step(i) == Sign(i) * Float(Get(log[i].event, "delta", 1))
IntSteps == [i \in IntMoves |-> Step(i)]
IntBase == IF IntIsSet THEN Float(log[IntFrom].event.payload.value) ELSE 0
Moves == Total(IntMoves, IntSteps)

(* An increment without a delta is one by 1.                                  *)
LEMMA DeltaIs ==
  ASSUME kind \in Kinds, NEW e, Typed(e), e.type \in {"int_incr", "int_decr"}
  PROVE  Delta(e) = Float(Get(e, "delta", 1)) /\ Delta(e) \in Int
<1>1. CASE Has(e, "delta")
  <2>1. e.payload.delta \in Int
    BY <1>1, Values
  <2>2. Delta(e) = Float(e.payload.delta) /\ Get(e, "delta", 1) = e.payload.delta
    BY <1>1 DEF Delta, Get, Has
  <2>. QED BY <2>1, <2>2, FloatInt
<1>2. CASE ~ Has(e, "delta")
  BY <1>2, FloatOne DEF Delta, Get, Has
<1>. QED BY <1>1, <1>2

(* What the event adds, and when nothing before it counts any more.           *)
LEMMA MovesStep ==
  ASSUME NEW n, NEW e, NEW ok, Extends(n, e, ok), EventsInv
  PROVE  ok =>
         LET reset == \/ e.type = "int_set" /\ Has(e, "value")
                      \/ e.type = "int_delete"
         IN  /\ Moves \in Int
             /\ reset => Moves' = 0 /\ IntMoves' = {}
             /\ e.type = "int_incr" => Moves' = Moves + Delta(e) /\ IntMoves' # {}
             /\ e.type = "int_decr" => Moves' = Moves - Delta(e) /\ IntMoves' # {}
             /\ ~ reset /\ e.type \notin {"int_incr", "int_decr"} =>
                  Moves' = Moves /\ IntMoves' = IntMoves
<1>. DEFINE types == {"int_incr", "int_decr"}
            M == Of(types)
            set == e.type = "int_set" /\ Has(e, "value")
            del == e.type = "int_delete"
            S == IntMoves
            f == IntSteps
<1>1. /\ n \in Nat \ {0} /\ log'[n].event = e /\ kind \in Kinds
      /\ \A i \in 1 .. n - 1 : log'[i] = log[i]
      /\ Len(log') = n /\ Len(log) = n - 1
  BY Earlier DEF Extends
<1>0. IntFrom' = (IF ok /\ (set \/ del) THEN n ELSE IntFrom) /\ IntFrom \in 0 .. n - 1
  <2>. DEFINE a == "int_set"
              b == "int_delete"
  <2>1. a # b
    OBVIOUS
  <2>. HIDE DEF a, b
  <2>2. LET st == e.type = a /\ Has(e, "value")
            w == FromOf(a, b)
        IN  /\ w \in 0 .. n - 1
            /\ FromOf(a, b)' = IF ok /\ (st \/ e.type = b) THEN n ELSE w
            /\ IsSet(a, b)' <=> IF ok /\ st THEN TRUE
                                ELSE IF ok /\ e.type = b THEN FALSE ELSE IsSet(a, b)
            /\ IsSet(a, b) => w \in 1 .. n - 1 /\ log'[w] = log[w]
    BY <2>1, FieldSteps
  <2>3. FromOf(a, b)' =
          IF ok /\ ((e.type = a /\ Has(e, "value")) \/ e.type = b) THEN n ELSE FromOf(a, b)
    BY <2>2
  <2>. QED BY <2>2, <2>3 DEF IntFrom, a, b
<1>. SUFFICES ASSUME ok
             PROVE  /\ Moves \in Int
                    /\ set \/ del => Moves' = 0 /\ IntMoves' = {}
                    /\ e.type = "int_incr" => Moves' = Moves + Delta(e) /\ IntMoves' # {}
                    /\ e.type = "int_decr" => Moves' = Moves - Delta(e) /\ IntMoves' # {}
                    /\ ~ (set \/ del) /\ e.type \notin types =>
                         Moves' = Moves /\ IntMoves' = IntMoves
  OBVIOUS
<1>3. IntFrom' = (IF set \/ del THEN n ELSE IntFrom) /\ IntFrom \in 0 .. n - 1
  BY <1>0
<1>2. M \in SUBSET (1 .. n - 1) /\ M' = IF e.type \in types THEN M \cup {n} ELSE M
  <2>. HIDE DEF types
  <2>1. /\ Of(types) \subseteq 1 .. n - 1
        /\ Of(types)' = IF ok /\ e.type \in types THEN Of(types) \cup {n} ELSE Of(types)
    BY OfStep
  <2>. QED BY <2>1
<1>4. S = After(M, IntFrom) /\ S' = After(M', IntFrom')
  BY DEF IntMoves
<1>5. ASSUME NEW i \in M PROVE Step(i) \in Int
  <2>1. i \in 1 .. Len(log) /\ log[i].event.type \in types
    BY DEF Of, Pos
  <2>2. Typed(log[i].event)
    BY <2>1 DEF EventsInv
  <2>3. Float(Get(log[i].event, "delta", 1)) \in Int
    BY <1>1, <2>1, <2>2, DeltaIs
  <2>. QED BY <2>3 DEF Step, Sign
<1>6. /\ \A i \in 1 .. n - 1 : Step(i)' = Step(i)
      /\ e.type = "int_incr" => Step(n)' = Delta(e) /\ Delta(e) \in Int
      /\ e.type = "int_decr" => Step(n)' = -Delta(e) /\ Delta(e) \in Int
  <2>1. \A i \in 1 .. n - 1 : Step(i)' = Step(i)
    BY <1>1 DEF Step, Sign, Get
  <2>2. Step(n)' = (IF e.type = "int_incr" THEN 1 ELSE -1) * Float(Get(e, "delta", 1))
    BY <1>1 DEF Step, Sign, Get, Float
  <2>3. Typed(e)
    BY EventTyped
  <2>4. e.type \in types => Delta(e) = Float(Get(e, "delta", 1)) /\ Delta(e) \in Int
    BY <1>1, <2>3, DeltaIs
  <2>. QED BY <2>1, <2>2, <2>4
<1>. HIDE DEF M
<1>7. /\ After(M, n) = {} /\ After(M \cup {n}, IntFrom) = S \cup {n} /\ S \in SUBSET (1 .. n - 1)
      /\ S \subseteq M
  <2>1. /\ After(M, n) = {} /\ \A i : After(M, i) \subseteq M
        /\ \A i \in 0 .. n - 1 : After(M \cup {n}, i) = After(M, i) \cup {n}
    BY <1>1, <1>2, AfterAdd
  <2>. QED BY <1>2, <1>3, <1>4, <2>1
<1>8. \A i \in S : f[i] = Step(i) /\ f[i] \in Int
  BY <1>5, <1>7 DEF IntSteps
<1>9. PICK g : g = IntSteps'
  OBVIOUS
<1>10. \A i \in S' : g[i] = Step(i)'
  BY <1>9 DEF IntSteps
<1>11. Moves = Sum(S, f, n - 1)
  BY <1>1, TotalIs DEF Moves
<1>12. Moves' = Sum(S', g, n)
  <2>1. Moves' = Sum(S', IntSteps', Len(log'))
    BY DEF Moves, Total, Sum, SumOf, IsSum
  <2>. QED BY <1>1, <1>9, <2>1
<1>. HIDE DEF S, f
<1>17. n \in Nat \ {0} /\ S \in SUBSET (1 .. n - 1)
  BY <1>1, <1>7
<1>13. Moves \in Int
  BY <1>1, <1>7, <1>8, <1>11, SumAdd
<1>14. CASE set \/ del
  <2>1. M' = M /\ IntFrom' = n
    BY <1>2, <1>3, <1>14
  <2>2. S' = {}
    BY <1>4, <1>7, <2>1
  <2>3. n \in Nat
    BY <1>1
  <2>4. Moves' = 0
    BY <1>12, <2>2, <2>3, SumNone
  <2>. QED BY <1>13, <1>14, <2>2, <2>4 DEF S
<1>15. CASE e.type \in types
  <2>1. M' = M \cup {n} /\ IntFrom' = IntFrom
    BY <1>2, <1>3, <1>15
  <2>2. S' = S \cup {n}
    BY <1>4, <1>7, <2>1
  <2>3. \A i \in S : f[i] \in Int /\ g[i] = f[i]
    BY <1>6, <1>7, <1>8, <1>10, <2>2
  <2>4. g[n] = Step(n)' /\ g[n] \in Int
    BY <1>6, <1>10, <1>15, <2>2
  <2>5. Sum(S \cup {n}, g, n) = Sum(S, f, n - 1) + g[n]
    BY <1>17, <2>3, <2>4, SumOne
  <2>6. Moves' = Moves + g[n]
    BY <1>11, <1>12, <2>2, <2>4, <2>5
  <2>7. IntMoves' # {}
    BY <2>2 DEF S
  <2>8. /\ e.type = "int_incr" => Moves' = Moves + Delta(e)
        /\ e.type = "int_decr" => Moves' = Moves - Delta(e)
    BY <1>6, <1>13, <2>4, <2>6
  <2>. QED BY <1>13, <1>15, <2>7, <2>8
<1>16. CASE ~ (set \/ del) /\ e.type \notin types
  <2>1. M' = M /\ IntFrom' = IntFrom
    BY <1>2, <1>3, <1>16
  <2>2. S' = S
    BY <1>4, <2>1
  <2>3. \A i \in S : f[i] \in Int /\ g[i] = f[i]
    BY <1>6, <1>7, <1>8, <1>10, <2>2
  <2>4. Sum(S, g, n) = Sum(S, f, n - 1)
    BY <1>17, <2>3, SumAdd
  <2>. QED BY <1>11, <1>12, <1>13, <1>16, <2>2, <2>4 DEF S
<1>. QED BY <1>14, <1>15, <1>16

(* Values that int64 holds, and its modulus.                                  *)

(* The invariant of integer fields: the value is base and moves up to whole   *)
(* multiples of the width.                                                    *)
IntInv == kind = "int" =>
  /\ EventsInv
  /\ Cur \in NumState
  /\ snap = Nil <=> Len(log) = 0
  /\ Cur.exists <=> IntMoves # {} \/ IntIsSet
  /\ InWidth(Cur.value)
  /\ IntBase \in Int /\ Moves \in Int
  /\ \E q \in Int : Cur.value = (IntBase + Moves) + q * Whole

LEMMA WrapMore ==
  ASSUME NEW x \in Int
  PROVE  /\ InWidth(Wrap(x)) /\ Wrap(x) \in Int
         /\ \E q \in Int : Wrap(x) = x + q * Whole
<1>1. PICK q \in Int : Wrap(x) = x + q * Whole
  BY WrapIs DEF Whole
<1>2. InWidth(Wrap(x))
  BY WrapIs DEF InWidth
<1>3. Wrap(x) \in Int
  BY <1>1, WholeIs
<1>. QED BY <1>1, <1>2, <1>3

LEMMA IntNext ==
  ASSUME LogInv, IntInv, Next PROVE IntInv'
<1>1. PICK n, e : Takes(n, e) \/ Refuses(n, e)
  BY Steps
<1>2. SUFFICES ASSUME kind = "int" PROVE IntInv'
  BY <1>1 DEF IntInv, Extends, Takes, Refuses
<1>. DEFINE s == Cur
            r == IntApply(s, e)
            set == e.type = "int_set" /\ Has(e, "value")
            del == e.type = "int_delete"
            incr == e.type = "int_incr"
            decr == e.type = "int_decr"
            v == IF set THEN Float(e.payload.value)
                 ELSE IF incr THEN Wrap(s.value + Delta(e))
                 ELSE IF decr THEN Wrap(s.value - Delta(e))
                 ELSE IF del THEN 0 ELSE s.value
            x == IF set \/ incr \/ decr THEN TRUE ELSE IF del THEN FALSE ELSE s.exists
            u == Field(s, e, v, x)
<1>3. PICK ok : Extends(n, e, ok) /\ (ok <=> Takes(n, e)) /\ (~ ok => Refuses(n, e))
  <2>1. CASE Takes(n, e)
    BY <2>1 DEF Takes
  <2>2. CASE ~ Takes(n, e)
    BY <1>1, <2>2 DEF Refuses
  <2>. QED BY <2>1, <2>2
<1>4. Apply(kind, snap, e) = r
  BY <1>2 DEF Apply, Cur
<1>5. /\ EventsInv /\ s \in NumState
      /\ s.exists <=> IntMoves # {} \/ IntIsSet
      /\ InWidth(s.value) /\ IntBase \in Int
      /\ \E q \in Int : s.value = (IntBase + Moves) + q * Whole
  BY <1>2 DEF IntInv
<1>6. /\ n \in Nat \ {0} /\ Len(log') = n /\ ok \in BOOLEAN
      /\ kind' = kind /\ kind \in Kinds /\ log'[n].event = e
  BY <1>3, Earlier DEF Extends
<1>7. /\ Typed(e) /\ e.at \in Int
      /\ set => Float(e.payload.value) \in Int /\ InWidth(Float(e.payload.value))
      /\ incr \/ decr => Delta(e) \in Int
  <2>1. Typed(e)
    BY <1>3, EventTyped
  <2>2. incr \/ decr => Delta(e) \in Int
    BY <1>6, <2>1, DeltaIs
  <2>3. set => /\ e.payload.value \in Int
               /\ InWidth(Float(e.payload.value))
    BY <1>6, <2>1, Values
  <2>4. e.at \in Int
    BY <1>6, <2>1, Values
  <2>. QED BY <2>1, <2>2, <2>3, <2>4, FloatInt DEF InWidth
<1>8. s.value \in Int /\ s.exists \in BOOLEAN
  BY <1>5 DEF NumState
<1>9. r = u
  <2>1. CASE set
    BY <2>1 DEF IntApply
  <2>2. CASE incr
    BY <2>2 DEF IntApply
  <2>3. CASE decr
    BY <2>3 DEF IntApply
  <2>4. CASE del
    BY <2>4 DEF IntApply
  <2>5. CASE ~ set /\ ~ incr /\ ~ decr /\ ~ del
    BY <2>5 DEF IntApply
  <2>. QED BY <2>1, <2>2, <2>3, <2>4, <2>5
<1>10. v \in Int /\ x \in BOOLEAN
  <2>1. x \in BOOLEAN
    BY <1>8
  <2>2. \A y \in Int : Wrap(y) \in Int
    <3>1. 2 ^ (Bits - 1) \in Nat
      BY WidthAssumption
    <3>. QED BY <3>1, WrapIs
  <2>3. incr \/ decr => s.value + Delta(e) \in Int /\ s.value - Delta(e) \in Int
    BY <1>7, <1>8
  <2>4. incr \/ decr => Wrap(s.value + Delta(e)) \in Int /\ Wrap(s.value - Delta(e)) \in Int
    BY <2>2, <2>3
  <2>5. CASE set
    BY <1>7, <2>1, <2>5
  <2>6. CASE incr
    BY <2>1, <2>4, <2>6
  <2>7. CASE decr
    BY <2>1, <2>4, <2>7
  <2>8. CASE ~ set /\ ~ incr /\ ~ decr
    <3>1. v = IF del THEN 0 ELSE s.value
      BY <2>8
    <3>. HIDE DEF v, x
    <3>. QED BY <1>8, <2>1, <3>1
  <2>. QED BY <2>5, <2>6, <2>7, <2>8
<1>. HIDE DEF v, x, r
<1>11. u \in NumState /\ u.value = v /\ u.exists = x
  BY <1>5, <1>7, <1>10 DEF Field, NumState
<1>. HIDE DEF u
<1>12. r # Nil
  BY <1>9, <1>11, NilAssumption DEF NumState
<1>13. ok
  BY <1>3, <1>4, <1>12 DEF Refuses
<1>14. Cur' = r /\ snap' # Nil
  BY <1>3, <1>4, <1>13 DEF Takes, Cur
<1>15. /\ IntFrom' = IF set \/ del THEN n ELSE IntFrom
       /\ IntIsSet' <=> IF set THEN TRUE ELSE IF del THEN FALSE ELSE IntIsSet
       /\ IntIsSet => log'[IntFrom] = log[IntFrom]
  <2>. DEFINE a == "int_set"
              b == "int_delete"
  <2>1. a # b
    OBVIOUS
  <2>. HIDE DEF a, b
  <2>2. LET st == e.type = a /\ Has(e, "value")
            w == FromOf(a, b)
        IN  /\ w \in 0 .. n - 1
            /\ FromOf(a, b)' = IF ok /\ (st \/ e.type = b) THEN n ELSE w
            /\ IsSet(a, b)' <=> IF ok /\ st THEN TRUE
                                ELSE IF ok /\ e.type = b THEN FALSE ELSE IsSet(a, b)
            /\ IsSet(a, b) => w \in 1 .. n - 1 /\ log'[w] = log[w]
    BY <1>3, <2>1, FieldSteps
  <2>. QED BY <1>13, <2>2 DEF IntFrom, IntIsSet, a, b
<1>16. IntBase' = IF set THEN Float(e.payload.value) ELSE IF del THEN 0 ELSE IntBase
  <2>1. IntBase' = IF IntIsSet' THEN Float(log'[IntFrom'].event.payload.value) ELSE 0
    BY DEF IntBase, Float
  <2>2. CASE set
    BY <1>6, <1>15, <2>1, <2>2
  <2>3. CASE ~ set /\ del
    BY <1>15, <2>1, <2>3
  <2>4. CASE ~ set /\ ~ del
    <3>1. IntFrom' = IntFrom /\ (IntIsSet' <=> IntIsSet)
      BY <1>15, <2>4
    <3>. QED BY <1>15, <2>1, <2>4, <3>1 DEF IntBase
  <2>. QED BY <2>2, <2>3, <2>4
<1>17. /\ Moves \in Int
       /\ set \/ del => Moves' = 0 /\ IntMoves' = {}
       /\ incr => Moves' = Moves + Delta(e) /\ IntMoves' # {}
       /\ decr => Moves' = Moves - Delta(e) /\ IntMoves' # {}
       /\ ~ (set \/ del) /\ ~ incr /\ ~ decr => Moves' = Moves /\ IntMoves' = IntMoves
  <2>1. ok => LET reset == \/ e.type = "int_set" /\ Has(e, "value")
                           \/ e.type = "int_delete"
              IN  /\ Moves \in Int
                  /\ reset => Moves' = 0 /\ IntMoves' = {}
                  /\ e.type = "int_incr" => Moves' = Moves + Delta(e) /\ IntMoves' # {}
                  /\ e.type = "int_decr" => Moves' = Moves - Delta(e) /\ IntMoves' # {}
                  /\ ~ reset /\ e.type \notin {"int_incr", "int_decr"} =>
                       Moves' = Moves /\ IntMoves' = IntMoves
    BY <1>3, <1>5, MovesStep
  <2>. QED BY <1>13, <2>1
<1>18. ~ (set /\ del) /\ ~ (set /\ incr) /\ ~ (set /\ decr) /\ ~ (incr /\ decr)
       /\ ~ (incr /\ del) /\ ~ (decr /\ del)
  OBVIOUS
<1>19. /\ v = IF set THEN Float(e.payload.value)
              ELSE IF incr THEN Wrap(s.value + Delta(e))
              ELSE IF decr THEN Wrap(s.value - Delta(e))
              ELSE IF del THEN 0 ELSE s.value
       /\ x = IF set \/ incr \/ decr THEN TRUE ELSE IF del THEN FALSE ELSE s.exists
  BY DEF v, x
<1>20. EventsInv' /\ Len(log') # 0
  BY <1>3, <1>5, <1>6, EventsNext
<1>. HIDE DEF set, del, incr, decr, s
<1>21. x <=> IntMoves' # {} \/ IntIsSet'
  BY <1>5, <1>15, <1>17, <1>18, <1>19
<1>22. IntBase' \in Int /\ Moves' \in Int
  BY <1>5, <1>7, <1>16, <1>17
<1>23. 0 \in Int /\ \A y \in Int : y = (y + 0) + 0 * Whole
  BY WholeIs
<1>24. InWidth(0)
  BY WidthAssumption DEF InWidth
<1>25. InWidth(v) /\ \E q \in Int : v = (IntBase' + Moves') + q * Whole
  <2>1. CASE set \/ del
    <3>1. v = IntBase' /\ Moves' = 0 /\ InWidth(v)
      BY <1>7, <1>16, <1>17, <1>18, <1>19, <1>24, <2>1
    <3>2. v = (IntBase' + Moves') + 0 * Whole
      BY <1>22, <1>23, <3>1
    <3>. QED BY <1>23, <3>1, <3>2
  <2>2. CASE incr
    <3>1. v = Wrap(s.value + Delta(e)) /\ Moves' = Moves + Delta(e) /\ IntBase' = IntBase
      BY <1>16, <1>17, <1>18, <1>19, <2>2
    <3>2. PICK d \in Int : d = Delta(e)
      BY <1>7, <2>2
    <3>3. /\ InWidth(Wrap(s.value + d))
          /\ \E q \in Int : Wrap(s.value + d) = (IntBase + (Moves + d)) + q * Whole
      <4>1. PICK q \in Int : s.value = (IntBase + Moves) + q * Whole
        BY <1>5
      <4>2. PICK b \in Int, m \in Int, w \in Int : b = IntBase /\ m = Moves /\ w = s.value
        BY <1>5, <1>8, <1>17
      <4>3. w = (b + m) + q * Whole
        BY <4>1, <4>2
      <4>4. InWidth(Wrap(w + d)) /\ \E p \in Int : Wrap(w + d) = (w + d) + p * Whole
        BY WrapMore
      <4>5. PICK p \in Int : Wrap(w + d) = (w + d) + p * Whole
        BY <4>4
      <4>6. q + p \in Int /\ Wrap(w + d) = (b + (m + d)) + (q + p) * Whole
        BY <4>3, <4>5, WholeIs
      <4>. QED BY <4>2, <4>4, <4>6
    <3>. QED BY <3>1, <3>2, <3>3
  <2>3. CASE decr
    <3>1. v = Wrap(s.value - Delta(e)) /\ Moves' = Moves - Delta(e) /\ IntBase' = IntBase
      BY <1>16, <1>17, <1>18, <1>19, <2>3
    <3>2. PICK d \in Int : d = -Delta(e)
      BY <1>7, <2>3
    <3>3. /\ InWidth(Wrap(s.value + d))
          /\ \E q \in Int : Wrap(s.value + d) = (IntBase + (Moves + d)) + q * Whole
      <4>1. PICK q \in Int : s.value = (IntBase + Moves) + q * Whole
        BY <1>5
      <4>2. PICK b \in Int, m \in Int, w \in Int : b = IntBase /\ m = Moves /\ w = s.value
        BY <1>5, <1>8, <1>17
      <4>3. w = (b + m) + q * Whole
        BY <4>1, <4>2
      <4>4. InWidth(Wrap(w + d)) /\ \E p \in Int : Wrap(w + d) = (w + d) + p * Whole
        BY WrapMore
      <4>5. PICK p \in Int : Wrap(w + d) = (w + d) + p * Whole
        BY <4>4
      <4>6. q + p \in Int /\ Wrap(w + d) = (b + (m + d)) + (q + p) * Whole
        BY <4>3, <4>5, WholeIs
      <4>. QED BY <4>2, <4>4, <4>6
    <3>4. s.value - Delta(e) = s.value + d /\ Moves - Delta(e) = Moves + d
      BY <1>7, <1>8, <1>17, <2>3, <3>2
    <3>. QED BY <3>1, <3>3, <3>4
  <2>4. CASE ~ (set \/ del) /\ ~ incr /\ ~ decr
    <3>1. v = s.value /\ Moves' = Moves /\ IntBase' = IntBase
      BY <1>16, <1>17, <1>19, <2>4
    <3>. QED BY <1>5, <3>1
  <2>. QED BY <2>1, <2>2, <2>3, <2>4
<1>26. Cur' \in NumState /\ Cur'.value = v /\ Cur'.exists = x
  BY <1>9, <1>11, <1>14
<1>. QED BY <1>14, <1>20, <1>21, <1>22, <1>25, <1>26 DEF IntInv, InWidth, Whole

(* Both hold of an empty stream.                                              *)
LEMMA FieldInit == Init => StrInv /\ IntInv
<1>1. SUFFICES ASSUME Init PROVE StrInv /\ IntInv
  OBVIOUS
<1>2. log = <<>> /\ Len(log) = 0 /\ snap = Nil /\ \A types : Of(types) = {}
  BY <1>1, EmptySeq DEF Init, Pos, Of
<1>3. EventsInv
  BY <1>2 DEF EventsInv
<1>4. ~ StrIsSet /\ ~ IntIsSet /\ IntMoves = {}
  BY <1>2 DEF StrIsSet, IntIsSet, IsSet, SetsOf, IntMoves, After
<1>5. ASSUME kind = "str" PROVE StrInv
  <2>1. Cur = StrZero
    BY <1>2, <1>5 DEF Cur, Zero
  <2>2. Cur.value = "" /\ Cur.exists = FALSE
    BY <2>1 DEF StrZero
  <2>3. Cur \in StrState
    <3>. DEFINE T == STRING \cup {""}
                o == ""
    <3>1. o \in T /\ FALSE \in BOOLEAN /\ 0 \in Int
      OBVIOUS
    <3>2. Cur = [value |-> o, exists |-> FALSE, updatedAt |-> 0]
      BY <2>1 DEF StrZero
    <3>. HIDE DEF T, o
    <3>3. Cur \in [value : T, exists : BOOLEAN, updatedAt : Int]
      BY <3>1, <3>2
    <3>. QED BY <3>3 DEF T, StrState
  <2>. QED BY <1>2, <1>3, <1>4, <2>2, <2>3 DEF StrInv
<1>6. ASSUME kind = "int" PROVE IntInv
  <2>1. Cur = NumZero
    BY <1>2, <1>6 DEF Cur, Zero
  <2>2. Cur \in NumState /\ Cur.value = 0 /\ Cur.exists = FALSE
    BY <2>1 DEF NumZero, NumState
  <2>3. IntBase = 0 /\ Moves = 0
    <3>1. Moves = Sum({}, IntSteps, 0)
      BY <1>2, <1>4, TotalIs DEF Moves
    <3>. QED BY <1>4, <3>1, SumNone DEF IntBase
  <2>4. InWidth(0)
    BY WidthAssumption DEF InWidth
  <2>5. 0 = (0 + 0) + 0 * Whole /\ 0 \in Int
    BY WholeIs
  <2>. QED BY <1>2, <1>3, <1>4, <2>2, <2>3, <2>4, <2>5 DEF IntInv
<1>. QED BY <1>5, <1>6 DEF StrInv, IntInv

(* What Get of the Go client returns is the last setting; for integers the    *)
(* moves since are added, modulo the width of int64, and the field exists     *)
(* unless it was deleted last (objtypes/field.go:34-101,                      *)
(* client/field.go:30-92).                                                    *)
THEOREM FieldsAreTold == Spec => []FieldSnapshot
<1>1. Init => LogInv /\ StrInv /\ IntInv
  BY DeployInit, FieldInit
<1>2. LogInv /\ StrInv /\ IntInv /\ [Next]_vars => LogInv' /\ StrInv' /\ IntInv'
  <2>1. SUFFICES ASSUME LogInv, StrInv, IntInv, [Next]_vars PROVE LogInv' /\ StrInv' /\ IntInv'
    OBVIOUS
  <2>2. CASE Next
    BY <2>1, <2>2, LogNext, StrNext, IntNext
  <2>3. CASE UNCHANGED vars
    <3>1. LogInv'
      BY <2>1, <2>3 DEF vars, LogInv, Pos
    <3>2. StrInv' <=> StrInv
      BY <2>3 DEF vars, StrInv, Cur, EventsInv, Typed, StrFrom, StrIsSet, FromOf, IsSet, SetsOf, Of,
                  Pos, Has
    <3>3. IntInv' <=> IntInv
      BY <2>3 DEF vars, IntInv, Cur, EventsInv, Typed, IntFrom, IntIsSet, FromOf, IsSet, SetsOf, Of,
                  Pos, Has, IntMoves, IntBase, IntSteps, Step, Sign, Moves, Total, After, Whole,
                  InWidth, Get, Float
    <3>. QED BY <2>1, <3>1, <3>2, <3>3
  <2>. QED BY <2>1, <2>2, <2>3
<1>3. LogInv /\ StrInv /\ IntInv => FieldSnapshot
  <2>1. SUFFICES ASSUME LogInv, StrInv, IntInv, kind \in {"int", "str"} PROVE FieldSnapshot
    BY DEF FieldSnapshot
  <2>2. /\ FieldGet.value = Cur.value
        /\ FieldGet.exists = IF snap = Nil THEN FALSE ELSE Cur.exists
    BY DEF FieldGet, Cur
  <2>3. Len(log) = 0 <=> log = <<>>
    BY <2>1, EmptySeq DEF LogInv
  <2>4. snap = Nil => Cur.exists = FALSE
    BY <2>1 DEF Cur, Zero, StrZero, NumZero
  <2>5. CASE kind = "str"
    <3>1. /\ snap = Nil <=> Len(log) = 0
          /\ Cur.exists <=> StrIsSet
          /\ Cur.value = IF StrIsSet THEN log[StrFrom].event.payload.value ELSE ""
      BY <2>1, <2>5 DEF StrInv
    <3>. DEFINE got == FieldGet
                sets == {i \in Of({"str_set"}) : Has(log[i].event, "value")}
                from == Newest(sets \cup Of({"str_delete"}))
    <3>2. /\ got.exists <=> from \in sets
          /\ got.value = IF from \in sets THEN log[from].event.payload.value ELSE ""
      BY <2>2, <2>3, <2>4, <3>1 DEF StrIsSet, StrFrom, IsSet, FromOf, SetsOf
    <3>. QED BY <2>5, <3>2 DEF FieldSnapshot
  <2>6. CASE kind = "int"
    <3>1. /\ snap = Nil <=> Len(log) = 0
          /\ Cur.exists <=> IntMoves # {} \/ IntIsSet
          /\ InWidth(Cur.value) /\ Cur.value \in Int /\ IntBase \in Int /\ Moves \in Int
          /\ \E q \in Int : Cur.value = (IntBase + Moves) + q * Whole
      BY <2>1, <2>6 DEF IntInv, NumState
    <3>2. PICK q \in Int : Cur.value = (IntBase + Moves) + q * Whole
      BY <3>1
    <3>3. (Cur.value - IntBase - Moves) % Whole = 0
      <4>1. Cur.value - IntBase - Moves = q * Whole
        BY <3>1, <3>2, WholeIs
      <4>2. \A w \in Nat \ {0} : (q * w) % w = 0
        OBVIOUS
      <4>. QED BY <4>1, <4>2, WholeIs
    <3>. DEFINE got == FieldGet
                sets == {i \in Of({"int_set"}) : Has(log[i].event, "value")}
                from == Newest(sets \cup Of({"int_delete"}))
                moves == After(Of({"int_incr", "int_decr"}), from)
                sign(i) == IF log[i].event.type = "int_incr" THEN 1 ELSE -1
                move == [i \in moves |-> sign(i) * Float(Get(log[i].event, "delta", 1))]
                base == IF from \in sets THEN Float(log[from].event.payload.value) ELSE 0
    <3>4. /\ got.exists <=> moves # {} \/ from \in sets
          /\ (got.value - base - Total(moves, move)) % 2 ^ Bits = 0
          /\ InWidth(got.value)
      BY <2>2, <2>3, <2>4, <3>1, <3>3
         DEF IntIsSet, IntFrom, IsSet, FromOf, SetsOf, IntMoves, IntBase, IntSteps, Step, Sign, Moves,
             Whole
    <3>. QED BY <2>6, <3>4 DEF FieldSnapshot
  <2>. QED BY <2>1, <2>5, <2>6
<1>. QED BY <1>1, <1>2, <1>3, PTL DEF Spec

--------------------------------------------------------------------------------
(* Pull requests: what each event does to the state and to the counters.      *)
PRKeys ==
  {"title", "author", "base", "head", "state", "reviewers", "approvals", "changesRequested",
   "labels", "passed", "failed", "pending", "comments", "mergedAt", "updatedAt"}

(* What an event does to a state, and to the fields the snapshot is judged by. *)
PRState(st, e) ==
  LET s == IF st = "" THEN "open" ELSE st
  IN  IF e.type = "pr_opened" THEN "open" ELSE IF e.type = "pr_merged" THEN "merged"
      ELSE IF e.type = "pr_closed" /\ s # "merged" THEN "closed" ELSE s

Ran(e, cs) == e.type = "check_run_completed" /\ Str(e, "conclusion") \in cs
Reviewed(e, state) == e.type = "pr_reviewed" /\ Str(e, "state") = state

PRStep(s, e, r) ==
  /\ DOMAIN r = PRKeys
  /\ r.state = PRState(s.state, e)
  /\ r.updatedAt = e.at
  /\ r.head = IF e.type \in {"pr_opened", "pr_sync"} THEN Update(s.head, e, "head") ELSE s.head
  /\ r.reviewers = IF e.type = "pr_review_requested"
                   THEN addUnique(s.reviewers, Str(e, "reviewer")) ELSE s.reviewers
  /\ r.labels = IF e.type = "pr_labeled" THEN addUnique(s.labels, Str(e, "label"))
                ELSE IF e.type = "pr_unlabeled" THEN removeString(s.labels, Str(e, "label"))
                ELSE s.labels

PRCounts(s, e, r) ==
  /\ r.approvals = IF Reviewed(e, "approved") THEN s.approvals + 1 ELSE s.approvals
  /\ r.changesRequested = IF Reviewed(e, "changes_requested")
                          THEN s.changesRequested + 1 ELSE s.changesRequested
  /\ r.comments = IF e.type = "pr_commented" THEN s.comments + 1 ELSE s.comments
  /\ r.passed = IF Ran(e, Succeeded) THEN s.passed + 1 ELSE s.passed
  /\ r.failed = IF Ran(e, Failing) THEN s.failed + 1 ELSE s.failed
  /\ r.pending = IF Ran(e, Waiting) THEN s.pending + 1
                 ELSE IF Ran(e, Succeeded \cup Failing) THEN Settle(s.pending) ELSE s.pending

(* A check run moves one counter and may settle one that waits.               *)
LEMMA CheckRunFields ==
  ASSUME NEW u, DOMAIN u = PRKeys, NEW c
  PROVE  LET r == CheckRun(u, c)
         IN  /\ DOMAIN r = PRKeys
             /\ r.state = u.state /\ r.updatedAt = u.updatedAt /\ r.head = u.head
             /\ r.reviewers = u.reviewers /\ r.labels = u.labels /\ r.approvals = u.approvals
             /\ r.changesRequested = u.changesRequested /\ r.comments = u.comments
             /\ r.passed = IF c \in Succeeded THEN u.passed + 1 ELSE u.passed
             /\ r.failed = IF c \in Failing THEN u.failed + 1 ELSE u.failed
             /\ r.pending = IF c \in Waiting THEN u.pending + 1
                            ELSE IF c \in Succeeded \cup Failing THEN Settle(u.pending)
                            ELSE u.pending
<1>. DEFINE r == CheckRun(u, c)
<1>1. /\ ~ (c \in Succeeded /\ c \in Failing) /\ ~ (c \in Succeeded /\ c \in Waiting)
      /\ ~ (c \in Failing /\ c \in Waiting)
  BY DEF Succeeded, Failing, Waiting
<1>2. CASE c \in Succeeded
  <2>1. r = [u EXCEPT !.passed = @ + 1, !.pending = Settle(@)]
    BY <1>1, <1>2 DEF CheckRun
  <2>. HIDE DEF r
  <2>. QED BY <1>1, <1>2, <2>1 DEF PRKeys, r
<1>3. CASE c \in Failing
  <2>1. r = [u EXCEPT !.failed = @ + 1, !.pending = Settle(@)]
    BY <1>1, <1>3 DEF CheckRun
  <2>. HIDE DEF r
  <2>. QED BY <1>1, <1>3, <2>1 DEF PRKeys, r
<1>4. CASE c \in Waiting
  <2>1. r = [u EXCEPT !.pending = @ + 1]
    BY <1>1, <1>4 DEF CheckRun
  <2>. HIDE DEF r
  <2>. QED BY <1>1, <1>4, <2>1 DEF PRKeys, r
<1>5. CASE c \notin Succeeded /\ c \notin Failing /\ c \notin Waiting
  <2>1. r = u
    BY <1>5 DEF CheckRun
  <2>. HIDE DEF r
  <2>. QED BY <1>5, <2>1 DEF r
<1>. QED BY <1>2, <1>3, <1>4, <1>5

(* PRApply does what PRStep and PRCounts say.                                 *)
LEMMA PRFields ==
  ASSUME NEW s, DOMAIN s = PRKeys, NEW e
  PROVE  PRStep(s, e, PRApply(s, e)) /\ PRCounts(s, e, PRApply(s, e))
<1>. DEFINE u == [s EXCEPT !.state = IF @ = "" THEN "open" ELSE @, !.updatedAt = e.at]
            st == IF s.state = "" THEN "open" ELSE s.state
            r == PRApply(s, e)
<1>1. /\ DOMAIN u = PRKeys /\ u.state = st /\ u.updatedAt = e.at /\ u.head = s.head
      /\ u.reviewers = s.reviewers /\ u.labels = s.labels /\ u.approvals = s.approvals
      /\ u.changesRequested = s.changesRequested /\ u.comments = s.comments
      /\ u.passed = s.passed /\ u.failed = s.failed /\ u.pending = s.pending
  BY DEF PRKeys
<1>. SUFFICES PRStep(s, e, r) /\ PRCounts(s, e, r)
  OBVIOUS
<1>2. CASE e.type = "pr_opened"
  <2>1. r = [u EXCEPT !.title = Update(@, e, "title"), !.author = Update(@, e, "author"),
                      !.base = Update(@, e, "base"), !.head = Update(@, e, "head"),
                      !.state = "open"]
    BY <1>2 DEF PRApply
  <2>. HIDE DEF r, u
  <2>2. PRStep(s, e, r)
    BY <1>1, <1>2, <2>1 DEF PRKeys, PRStep, PRState
  <2>3. PRCounts(s, e, r)
    BY <1>1, <1>2, <2>1 DEF PRKeys, PRCounts, Ran, Reviewed
  <2>. QED BY <2>2, <2>3
<1>3. CASE e.type = "pr_sync"
  <2>1. r = [u EXCEPT !.head = Update(@, e, "head")]
    BY <1>3 DEF PRApply
  <2>. HIDE DEF r, u
  <2>2. PRStep(s, e, r)
    BY <1>1, <1>3, <2>1 DEF PRKeys, PRStep, PRState
  <2>3. PRCounts(s, e, r)
    BY <1>1, <1>3, <2>1 DEF PRKeys, PRCounts, Ran, Reviewed
  <2>. QED BY <2>2, <2>3
<1>4. CASE e.type = "pr_review_requested"
  <2>1. r = [u EXCEPT !.reviewers = addUnique(@, Str(e, "reviewer"))]
    BY <1>4 DEF PRApply
  <2>. HIDE DEF r, u
  <2>2. PRStep(s, e, r)
    BY <1>1, <1>4, <2>1 DEF PRKeys, PRStep, PRState
  <2>3. PRCounts(s, e, r)
    BY <1>1, <1>4, <2>1 DEF PRKeys, PRCounts, Ran, Reviewed
  <2>. QED BY <2>2, <2>3
<1>5. CASE e.type = "pr_reviewed"
  <2>1. r = [u EXCEPT !.approvals = IF Str(e, "state") = "approved" THEN @ + 1 ELSE @,
                      !.changesRequested =
                        IF Str(e, "state") = "changes_requested" THEN @ + 1 ELSE @]
    BY <1>5 DEF PRApply
  <2>. HIDE DEF r, u
  <2>2. PRStep(s, e, r)
    BY <1>1, <1>5, <2>1 DEF PRKeys, PRStep, PRState
  <2>3. PRCounts(s, e, r)
    BY <1>1, <1>5, <2>1 DEF PRKeys, PRCounts, Ran, Reviewed
  <2>. QED BY <2>2, <2>3
<1>6. CASE e.type = "pr_commented"
  <2>1. r = [u EXCEPT !.comments = @ + 1]
    BY <1>6 DEF PRApply
  <2>. HIDE DEF r, u
  <2>2. PRStep(s, e, r)
    BY <1>1, <1>6, <2>1 DEF PRKeys, PRStep, PRState
  <2>3. PRCounts(s, e, r)
    BY <1>1, <1>6, <2>1 DEF PRKeys, PRCounts, Ran, Reviewed
  <2>. QED BY <2>2, <2>3
<1>7. CASE e.type = "pr_labeled"
  <2>1. r = [u EXCEPT !.labels = addUnique(@, Str(e, "label"))]
    BY <1>7 DEF PRApply
  <2>. HIDE DEF r, u
  <2>2. PRStep(s, e, r)
    BY <1>1, <1>7, <2>1 DEF PRKeys, PRStep, PRState
  <2>3. PRCounts(s, e, r)
    BY <1>1, <1>7, <2>1 DEF PRKeys, PRCounts, Ran, Reviewed
  <2>. QED BY <2>2, <2>3
<1>8. CASE e.type = "pr_unlabeled"
  <2>1. r = [u EXCEPT !.labels = removeString(@, Str(e, "label"))]
    BY <1>8 DEF PRApply
  <2>. HIDE DEF r, u
  <2>2. PRStep(s, e, r)
    BY <1>1, <1>8, <2>1 DEF PRKeys, PRStep, PRState
  <2>3. PRCounts(s, e, r)
    BY <1>1, <1>8, <2>1 DEF PRKeys, PRCounts, Ran, Reviewed
  <2>. QED BY <2>2, <2>3
<1>9. CASE e.type = "pr_merged"
  <2>1. r = [u EXCEPT !.state = "merged", !.mergedAt = e.at]
    BY <1>9 DEF PRApply
  <2>. HIDE DEF r, u
  <2>2. PRStep(s, e, r)
    BY <1>1, <1>9, <2>1 DEF PRKeys, PRStep, PRState
  <2>3. PRCounts(s, e, r)
    BY <1>1, <1>9, <2>1 DEF PRKeys, PRCounts, Ran, Reviewed
  <2>. QED BY <2>2, <2>3
<1>10. CASE e.type = "pr_closed"
  <2>1. r = [u EXCEPT !.state = IF @ = "merged" THEN @ ELSE "closed"]
    BY <1>10 DEF PRApply
  <2>. HIDE DEF r, u
  <2>2. PRStep(s, e, r)
    BY <1>1, <1>10, <2>1 DEF PRKeys, PRStep, PRState
  <2>3. PRCounts(s, e, r)
    BY <1>1, <1>10, <2>1 DEF PRKeys, PRCounts, Ran, Reviewed
  <2>. QED BY <2>2, <2>3
<1>11. CASE e.type = "check_run_completed"
  <2>. DEFINE c == Str(e, "conclusion")
  <2>1. r = CheckRun(u, c)
    BY <1>11 DEF PRApply
  <2>. HIDE DEF r, u, c
  <2>2. /\ DOMAIN r = PRKeys
        /\ r.state = u.state /\ r.updatedAt = u.updatedAt /\ r.head = u.head
        /\ r.reviewers = u.reviewers /\ r.labels = u.labels /\ r.approvals = u.approvals
        /\ r.changesRequested = u.changesRequested /\ r.comments = u.comments
        /\ r.passed = IF c \in Succeeded THEN u.passed + 1 ELSE u.passed
        /\ r.failed = IF c \in Failing THEN u.failed + 1 ELSE u.failed
        /\ r.pending = IF c \in Waiting THEN u.pending + 1
                       ELSE IF c \in Succeeded \cup Failing THEN Settle(u.pending)
                       ELSE u.pending
    BY <1>1, <2>1, CheckRunFields
  <2>3. PRStep(s, e, r)
    BY <1>1, <1>11, <2>2 DEF PRStep, PRState
  <2>4. PRCounts(s, e, r)
    BY <1>1, <1>11, <2>2 DEF PRCounts, Ran, Reviewed, c
  <2>. QED BY <2>3, <2>4
<1>12. CASE e.type \notin {"pr_opened", "pr_sync", "pr_review_requested", "pr_reviewed",
                          "pr_commented", "pr_labeled", "pr_unlabeled", "pr_merged", "pr_closed",
                          "check_run_completed"}
  <2>1. r = u
    BY <1>12 DEF PRApply
  <2>. HIDE DEF r, u
  <2>2. PRStep(s, e, r)
    BY <1>1, <1>12, <2>1 DEF PRStep, PRState
  <2>3. PRCounts(s, e, r)
    BY <1>1, <1>12, <2>1 DEF PRCounts, Ran, Reviewed
  <2>. QED BY <2>2, <2>3
<1>. QED BY <1>2, <1>3, <1>4, <1>5, <1>6, <1>7, <1>8, <1>9, <1>10, <1>11, <1>12

--------------------------------------------------------------------------------
(* The surplus of plus over minus after i, up to n; and the largest.          *)
Stretch(S, i, n) == {j \in S : i < j /\ j <= n}
Surplus(P, M, i, n) == Cardinality(Stretch(P, i, n)) - Cardinality(Stretch(M, i, n))
IsBalance(P, M, n, b) ==
  /\ b \in Nat
  /\ \A i \in 0 .. n : Surplus(P, M, i, n) \in Int /\ Surplus(P, M, i, n) <= b
  /\ \E i \in 0 .. n : Surplus(P, M, i, n) = b

(* Such a bound is the balance of the stream.                                 *)
LEMMA BalanceIs ==
  ASSUME NEW P, NEW M, NEW n, NEW b, IsBalance(P, M, n, b)
  PROVE  Balance(P, M, n) = b
<1>. DEFINE S == {Surplus(P, M, i, n) : i \in 0 .. n}
<1>1. Balance(P, M, n) = Max(S)
  BY DEF Balance, Surplus, Stretch
<1>2. b \in S /\ S \subseteq Int /\ \A x \in S : x <= b
  BY DEF IsBalance
<1>. HIDE DEF S
<1>. QED BY <1>1, <1>2, MaxIs

(* A final stretch with one more position.                                    *)
LEMMA RangeAdd ==
  ASSUME NEW n \in Nat \ {0}, NEW S \in SUBSET (1 .. n - 1), NEW i \in 0 .. n - 1
  PROVE  /\ Cardinality(Stretch(S, i, n - 1)) \in Nat
         /\ Stretch(S, i, n) = Stretch(S, i, n - 1)
         /\ Cardinality(Stretch(S \cup {n}, i, n)) = Cardinality(Stretch(S, i, n - 1)) + 1
         /\ Stretch(S, n, n) = {} /\ Stretch(S \cup {n}, n, n) = {}
<1>. DEFINE F == {j \in S : i < j /\ j <= n - 1}
<1>1. \A j \in S : j <= n - 1 /\ j <= n /\ ~ (n < j)
  OBVIOUS
<1>2. {j \in S : i < j /\ j <= n} = F
  BY <1>1
<1>3. i < n /\ n <= n /\ ~ (n < n)
  OBVIOUS
<1>4. {j \in S \cup {n} : i < j /\ j <= n} = F \cup {n}
  BY <1>1, <1>3
<1>5. F \in SUBSET (1 .. n - 1)
  OBVIOUS
<1>6. {j \in S : n < j /\ j <= n} = {} /\ {j \in S \cup {n} : n < j /\ j <= n} = {}
  BY <1>1, <1>3
<1>. HIDE DEF F
<1>7. Cardinality(F) \in Nat /\ Cardinality(F \cup {n}) = Cardinality(F) + 1
  BY <1>5, CountAdd
<1>. QED BY <1>2, <1>4, <1>6, <1>7 DEF F, Stretch

(* One more plus raises the balance, one more minus settles it.               *)
LEMMA BalanceStep ==
  ASSUME NEW n \in Nat \ {0}, NEW P \in SUBSET (1 .. n - 1), NEW M \in SUBSET (1 .. n - 1),
         NEW b, IsBalance(P, M, n - 1, b)
  PROVE  /\ IsBalance(P, M, n, b)
         /\ IsBalance(P \cup {n}, M, n, b + 1)
         /\ IsBalance(P, M \cup {n}, n, Settle(b))
<1>. DEFINE c(i) == Surplus(P, M, i, n - 1)
            Q == P \cup {n}
            L == M \cup {n}
<1>1. /\ \A i \in 0 .. n - 1 : /\ Surplus(P, M, i, n) = c(i) /\ Surplus(Q, M, i, n) = c(i) + 1
                               /\ Surplus(P, L, i, n) = c(i) - 1 /\ c(i) \in Int
      /\ Surplus(P, M, n, n) = 0 /\ Surplus(Q, M, n, n) = 0 /\ Surplus(P, L, n, n) = 0
  <2>1. ASSUME NEW i \in 0 .. n - 1
        PROVE  /\ Surplus(P, M, i, n) = c(i) /\ Surplus(Q, M, i, n) = c(i) + 1
               /\ Surplus(P, L, i, n) = c(i) - 1 /\ c(i) \in Int
    <3>1. /\ Cardinality(Stretch(P, i, n - 1)) \in Nat
          /\ Stretch(P, i, n) = Stretch(P, i, n - 1)
          /\ Cardinality(Stretch(Q, i, n)) = Cardinality(Stretch(P, i, n - 1)) + 1
      BY RangeAdd
    <3>2. /\ Cardinality(Stretch(M, i, n - 1)) \in Nat
          /\ Stretch(M, i, n) = Stretch(M, i, n - 1)
          /\ Cardinality(Stretch(L, i, n)) = Cardinality(Stretch(M, i, n - 1)) + 1
      BY RangeAdd
    <3>. QED BY <3>1, <3>2 DEF Surplus
  <2>2. 0 \in 0 .. n - 1
    OBVIOUS
  <2>3. /\ Stretch(P, n, n) = {} /\ Stretch(Q, n, n) = {}
        /\ Stretch(M, n, n) = {} /\ Stretch(L, n, n) = {}
    BY <2>2, RangeAdd
  <2>4. Cardinality({}) = 0
    BY FS_EmptySet
  <2>5. Surplus(P, M, n, n) = 0 - 0 /\ Surplus(Q, M, n, n) = 0 - 0 /\ Surplus(P, L, n, n) = 0 - 0
    BY <2>3, <2>4 DEF Surplus
  <2>. QED BY <2>1, <2>5
<1>2. b \in Nat /\ (\A i \in 0 .. n - 1 : c(i) <= b) /\ \E i \in 0 .. n - 1 : c(i) = b
  BY DEF IsBalance
<1>3. PICK k \in 0 .. n - 1 : c(k) = b
  BY <1>2
<1>4. \A i \in 0 .. n : i \in 0 .. n - 1 \/ i = n
  OBVIOUS
<1>5. n \in 0 .. n /\ \A i \in 0 .. n - 1 : i \in 0 .. n
  OBVIOUS
<1>. HIDE DEF c, Q, L
<1>6. IsBalance(P, M, n, b)
  <2>1. \A i \in 0 .. n : Surplus(P, M, i, n) \in Int /\ Surplus(P, M, i, n) <= b
    BY <1>1, <1>2, <1>4
  <2>. QED BY <1>1, <1>2, <1>3, <1>5, <2>1 DEF IsBalance
<1>7. IsBalance(Q, M, n, b + 1)
  <2>1. \A i \in 0 .. n : Surplus(Q, M, i, n) \in Int /\ Surplus(Q, M, i, n) <= b + 1
    BY <1>1, <1>2, <1>4
  <2>. QED BY <1>1, <1>2, <1>3, <1>5, <2>1 DEF IsBalance
<1>8. IsBalance(P, L, n, Settle(b))
  <2>1. Settle(b) \in Nat /\ Settle(b) >= b - 1 /\ (b > 0 => Settle(b) = b - 1)
        /\ (b = 0 => Settle(b) = 0)
    BY <1>2 DEF Settle
  <2>2. \A i \in 0 .. n : Surplus(P, L, i, n) \in Int /\ Surplus(P, L, i, n) <= Settle(b)
    BY <1>1, <1>2, <1>4, <2>1
  <2>3. CASE b > 0
    <3>1. Surplus(P, L, k, n) = Settle(b)
      BY <1>1, <1>3, <2>1, <2>3
    <3>. QED BY <1>5, <2>1, <2>2, <3>1 DEF IsBalance
  <2>4. CASE ~ (b > 0)
    <3>1. Surplus(P, L, n, n) = Settle(b)
      BY <1>1, <1>2, <2>1, <2>4
    <3>. QED BY <1>5, <2>1, <2>2, <3>1 DEF IsBalance
  <2>. QED BY <2>3, <2>4
<1>. QED BY <1>6, <1>7, <1>8 DEF Q, L

--------------------------------------------------------------------------------
(* What the stream says of the state.                                         *)
Opened == Newest(Of({"pr_opened"}))
Stands ==
  IF After(Of({"pr_merged"}), Opened) # {} THEN "merged"
  ELSE IF After(Of({"pr_closed"}), Opened) # {} THEN "closed" ELSE "open"

(* The state follows the event as the reducer does.                           *)
LEMMA StandsStep ==
  ASSUME NEW n, NEW e, NEW ok, Extends(n, e, ok)
  PROVE  Stands' = IF ok THEN PRState(Stands, e) ELSE Stands
<1>. DEFINE O == Of({"pr_opened"})
            M == Of({"pr_merged"})
            C == Of({"pr_closed"})
<1>1. n \in Nat \ {0} /\ ok \in BOOLEAN
  BY Earlier DEF Extends
<1>2. O \in SUBSET (1 .. n - 1) /\ O' = IF ok /\ e.type = "pr_opened" THEN O \cup {n} ELSE O
  BY OfOne
<1>3. M \in SUBSET (1 .. n - 1) /\ M' = IF ok /\ e.type = "pr_merged" THEN M \cup {n} ELSE M
  BY OfOne
<1>4. C \in SUBSET (1 .. n - 1) /\ C' = IF ok /\ e.type = "pr_closed" THEN C \cup {n} ELSE C
  BY OfOne
<1>5. /\ Opened = Newest(O) /\ Opened' = Newest(O')
      /\ Stands = IF After(M, Opened) # {} THEN "merged"
                  ELSE IF After(C, Opened) # {} THEN "closed" ELSE "open"
      /\ Stands' = IF After(M', Opened') # {} THEN "merged"
                   ELSE IF After(C', Opened') # {} THEN "closed" ELSE "open"
  BY DEF Stands, Opened, After
<1>. HIDE DEF O, M, C
<1>6. Opened \in 0 .. n - 1 /\ Newest(O \cup {n}) = n
  BY <1>1, <1>2, <1>5, NewestAdd
<1>7. /\ After(M, n) = {} /\ After(C, n) = {}
      /\ After(M \cup {n}, Opened) = After(M, Opened) \cup {n}
      /\ After(C \cup {n}, Opened) = After(C, Opened) \cup {n}
  <2>1. After(M, n) = {} /\ After(M \cup {n}, Opened) = After(M, Opened) \cup {n}
    <3>1. /\ After(M, n) = {}
          /\ \A i \in 0 .. n - 1 : After(M \cup {n}, i) = After(M, i) \cup {n}
      BY <1>1, <1>3, AfterAdd
    <3>. QED BY <1>6, <3>1
  <2>2. After(C, n) = {} /\ After(C \cup {n}, Opened) = After(C, Opened) \cup {n}
    <3>1. /\ After(C, n) = {}
          /\ \A i \in 0 .. n - 1 : After(C \cup {n}, i) = After(C, i) \cup {n}
      BY <1>1, <1>4, AfterAdd
    <3>. QED BY <1>6, <3>1
  <2>. QED BY <2>1, <2>2
<1>8. CASE ~ ok
  BY <1>2, <1>3, <1>4, <1>5, <1>8
<1>9. CASE ok /\ e.type = "pr_opened"
  <2>1. Stands' = "open"
    BY <1>2, <1>3, <1>4, <1>5, <1>6, <1>7, <1>9
  <2>. QED BY <1>9, <2>1 DEF PRState
<1>10. CASE ok /\ e.type = "pr_merged"
  <2>1. Opened' = Opened /\ M' = M \cup {n}
    BY <1>2, <1>3, <1>5, <1>10
  <2>2. Stands' = "merged"
    BY <1>5, <1>7, <2>1
  <2>. QED BY <1>10, <2>2 DEF PRState
<1>11. CASE ok /\ e.type = "pr_closed"
  <2>1. Opened' = Opened /\ M' = M /\ C' = C \cup {n}
    BY <1>2, <1>3, <1>4, <1>5, <1>11
  <2>2. Stands' = IF Stands = "merged" THEN "merged" ELSE "closed"
    BY <1>5, <1>7, <2>1
  <2>3. Stands \in {"open", "closed", "merged"}
    BY DEF Stands
  <2>. QED BY <1>11, <2>2, <2>3 DEF PRState
<1>12. CASE ok /\ e.type \notin {"pr_opened", "pr_merged", "pr_closed"}
  <2>1. Stands' = Stands
    BY <1>2, <1>3, <1>4, <1>5, <1>12
  <2>2. Stands \in {"open", "closed", "merged"}
    BY DEF Stands
  <2>. QED BY <1>12, <2>1, <2>2 DEF PRState
<1>. QED BY <1>1, <1>8, <1>9, <1>10, <1>11, <1>12

(* The events of some types whose value of k is in vs, and how many.          *)
LEMMA WithCount ==
  ASSUME NEW n, NEW e, NEW ok, Extends(n, e, ok), NEW types, NEW k, NEW vs
  PROVE  LET S == With(Of(types), k, vs)
         IN  /\ Cardinality(S) \in Nat
             /\ Cardinality(S)' = IF ok /\ e.type \in types /\ Str(e, k) \in vs
                                  THEN Cardinality(S) + 1 ELSE Cardinality(S)
<1>. DEFINE S == With(Of(types), k, vs)
<1>1. /\ n \in Nat \ {0} /\ S \in SUBSET (1 .. n - 1)
      /\ S' = IF ok /\ e.type \in types /\ Str(e, k) \in vs THEN S \cup {n} ELSE S
  BY WithStep, Earlier
<1>. HIDE DEF S
<1>2. Cardinality(S) \in Nat /\ Cardinality(S \cup {n}) = Cardinality(S) + 1
  BY <1>1, CountAdd
<1>3. Cardinality(S)' = Cardinality(S')
  OBVIOUS
<1>4. CASE ok /\ e.type \in types /\ Str(e, k) \in vs
  BY <1>1, <1>2, <1>3, <1>4 DEF S
<1>5. CASE ~ (ok /\ e.type \in types /\ Str(e, k) \in vs)
  BY <1>1, <1>2, <1>3, <1>5 DEF S
<1>. QED BY <1>4, <1>5

LEMMA OfCount ==
  ASSUME NEW n, NEW e, NEW ok, Extends(n, e, ok), NEW types
  PROVE  /\ Cardinality(Of(types)) \in Nat
         /\ Cardinality(Of(types))' = IF ok /\ e.type \in types
                                      THEN Cardinality(Of(types)) + 1 ELSE Cardinality(Of(types))
<1>. DEFINE S == Of(types)
<1>1. /\ n \in Nat \ {0} /\ S \in SUBSET (1 .. n - 1)
      /\ S' = IF ok /\ e.type \in types THEN S \cup {n} ELSE S
  BY OfStep, Earlier
<1>. HIDE DEF S
<1>2. Cardinality(S) \in Nat /\ Cardinality(S \cup {n}) = Cardinality(S) + 1
  BY <1>1, CountAdd
<1>3. Cardinality(S)' = Cardinality(S')
  OBVIOUS
<1>4. CASE ok /\ e.type \in types
  BY <1>1, <1>2, <1>3, <1>4 DEF S
<1>5. CASE ~ (ok /\ e.type \in types)
  BY <1>1, <1>2, <1>3, <1>5 DEF S
<1>. QED BY <1>4, <1>5

(* The last value that was not empty.                                         *)
LEMMA LatestStep ==
  ASSUME NEW n, NEW e, NEW ok, Extends(n, e, ok), NEW types, NEW k
  PROVE  Latest(Of(types), k)' = IF ok /\ e.type \in types
                                 THEN Update(Latest(Of(types), k), e, k) ELSE Latest(Of(types), k)
<1>. DEFINE S == Of(types)
            F == {j \in S : Val(j, k) # ""}
            T == Latest(Of(types), k)
            add == ok /\ e.type \in types /\ Str(e, k) # ""
<1>1. /\ n \in Nat \ {0} /\ S \in SUBSET (1 .. n - 1)
      /\ S' = IF ok /\ e.type \in types THEN S \cup {n} ELSE S
  BY OfStep, Earlier
<1>2. Val(n, k)' = Str(e, k) /\ \A i \in 1 .. n - 1 : Val(i, k)' = Val(i, k)
  BY AtStep
<1>3. F' = {j \in S' : Val(j, k)' # ""}
  OBVIOUS
<1>0. PICK m : m = Newest(F)'
  OBVIOUS
<1>4. /\ T = IF Newest(F) = 0 THEN "" ELSE Val(Newest(F), k)
      /\ T' = IF m = 0 THEN "" ELSE Val(m, k)'
      /\ m = Newest(F')
  BY <1>0 DEF Latest
<1>. HIDE DEF S, T
<1>5. F \in SUBSET (1 .. n - 1) /\ F' = IF add THEN F \cup {n} ELSE F
  BY <1>1, <1>2, <1>3
<1>. HIDE DEF F
<1>6. Newest(F \cup {n}) = n /\ Newest(F) \in 0 .. n - 1
  BY <1>1, <1>5, NewestAdd
<1>7. CASE add
  <2>1. m = n /\ n # 0
    BY <1>1, <1>4, <1>5, <1>6, <1>7
  <2>2. T' = Val(n, k)'
    BY <1>4, <2>1
  <2>. QED BY <1>2, <1>7, <2>2 DEF Update, T
<1>8. CASE ~ add
  <2>0. F' = F
    BY <1>5, <1>8
  <2>1. m = Newest(F) /\ (Newest(F) # 0 => Newest(F) \in 1 .. n - 1)
    <3>1. m = Newest(F)
      BY <1>4, <2>0
    <3>2. Newest(F) # 0 => Newest(F) \in 1 .. n - 1
      BY <1>1, <1>6
    <3>. QED BY <3>1, <3>2
  <2>2. T' = T
    BY <1>2, <1>4, <2>1
  <2>. QED BY <1>8, <2>2 DEF Update, T
<1>. QED BY <1>7, <1>8

(* The time of the last accepted event.                                       *)
LEMMA UpdatedStep ==
  ASSUME NEW n, NEW e, NEW ok, Extends(n, e, ok)
  PROVE  At(Newest(Pos))' = IF ok THEN e.at ELSE IF Pos = {} THEN At(0)' ELSE At(Newest(Pos))
<1>1. Pos \in SUBSET (1 .. n - 1) /\ Pos' = (IF ok THEN Pos \cup {n} ELSE Pos) /\ n \in Nat \ {0}
  BY PosStep, Earlier
<1>2. At(n)' = e.at /\ \A i \in 1 .. n - 1 : At(i)' = At(i)
  BY AtStep
<1>3. /\ Newest(Pos \cup {n}) = n /\ (Pos = {} <=> Newest(Pos) = 0)
      /\ (Pos # {} => Newest(Pos) \in Pos)
  BY <1>1, NewestAdd
<1>4. PICK m : m = Newest(Pos)'
  OBVIOUS
<1>5. m = Newest(Pos') /\ At(Newest(Pos))' = At(m)'
  BY <1>4
<1>6. CASE ok
  BY <1>1, <1>2, <1>3, <1>5, <1>6
<1>7. CASE ~ ok
  BY <1>1, <1>2, <1>3, <1>5, <1>7
<1>. QED BY <1>6, <1>7

--------------------------------------------------------------------------------
(* The oldest of a set of positions.                                          *)
LEMMA MinExists ==
  ASSUME NEW n \in Nat, NEW S \in SUBSET (1 .. n), S # {}
  PROVE  \E m \in S : \A x \in S : m <= x
<1>. DEFINE T == {n + 1 - x : x \in S}
<1>1. T \in SUBSET (1 .. n) /\ T # {}
  <2>1. \A x \in S : n + 1 - x \in 1 .. n
    OBVIOUS
  <2>2. PICK x \in S : TRUE
    OBVIOUS
  <2>. QED BY <2>1, <2>2
<1>. HIDE DEF T
<1>2. PICK t \in T : \A x \in T : x <= t
  BY <1>1, MaxExists
<1>3. PICK m \in S : t = n + 1 - m
  BY <1>2 DEF T
<1>4. \A x \in S : n + 1 - x <= t
  BY <1>2 DEF T
<1>. QED BY <1>3, <1>4

LEMMA MinIs ==
  ASSUME NEW S, NEW m \in S, S \subseteq Int, \A x \in S : m <= x
  PROVE  Min(S) = m
<1>1. Min(S) \in S /\ \A x \in S : Min(S) <= x
  BY DEF Min
<1>2. Min(S) <= m /\ m <= Min(S) /\ Min(S) \in Int /\ m \in Int
  BY <1>1
<1>. QED BY <1>2

LEMMA MinAdd ==
  ASSUME NEW n \in Nat \ {0}, NEW S \in SUBSET (1 .. n - 1)
  PROVE  /\ S # {} => Min(S) \in S /\ Min(S \cup {n}) = Min(S)
         /\ S # {} => \A x \in S : Min(S) <= x
         /\ Min({n}) = n
<1>1. Min({n}) = n
  BY MinIs
<1>2. CASE S # {}
  <2>1. PICK m \in S : \A x \in S : m <= x
    <3>1. n - 1 \in Nat
      OBVIOUS
    <3>. QED BY <1>2, <3>1, MinExists
  <2>2. Min(S) = m
    <3>1. S \subseteq Int
      OBVIOUS
    <3>. QED BY <2>1, <3>1, MinIs
  <2>3. Min(S \cup {n}) = m
    <3>. DEFINE T == S \cup {n}
    <3>1. T \subseteq Int /\ m \in T /\ \A x \in T : m <= x
      BY <2>1
    <3>. HIDE DEF T
    <3>2. Min(T) = m
      BY <3>1, MinIs
    <3>. QED BY <3>2 DEF T
  <2>. QED BY <1>1, <2>1, <2>2, <2>3
<1>. QED BY <1>1, <1>2

(* out is the first m entries of xs without those in gone; ix is where they   *)
(* were.                                                                      *)
IsKept(xs, gone, m, out, ix) ==
  /\ \A j \in 1 .. Len(out) : ix[j] \in (1 .. m) \ gone /\ out[j] = xs[ix[j]]
  /\ \A i, j \in 1 .. Len(out) : i < j => ix[i] < ix[j]
  /\ \A p \in (1 .. m) \ gone : \E j \in 1 .. Len(out) : ix[j] = p

(* Without is the last of its own copies, by length.                          *)
LEMMA WithoutSteps ==
  ASSUME NEW X, NEW xs \in Seq(X), NEW gone
  PROVE  \E g : /\ g[0] = <<>> /\ Without(xs, gone) = g[Len(xs)]
                /\ \A i \in 0 .. Len(xs) : g[i] \in Seq(X)
                /\ \A i \in 1 .. Len(xs) :
                     g[i] = IF i \in gone THEN g[i - 1] ELSE Append(g[i - 1], xs[i])
<1>. DEFINE n == Len(xs)
            D == Seq(X)
            Keep(i, x) == IF i \in gone THEN x ELSE Append(x, xs[i])
            h == [i \in 1 .. n |-> [x \in D |-> Keep(i, x)]]
            IsCopy(g) == g = [i \in 0 .. n |-> IF i = 0 THEN <<>> ELSE Keep(i, g[i - 1])]
            g == CHOOSE u : IsCopy(u)
<1>1. n \in Nat /\ \A i \in 1 .. n : xs[i] \in X
  BY LenProperties, ElementOfSeq
<1>2. \A i \in 1 .. n : \A x \in D : Keep(i, x) \in D
  BY <1>1, AppendProperties
<1>3. <<>> \in D
  OBVIOUS
<1>4. Without(xs, gone) = g[n]
  BY DEF Without
<1>. HIDE DEF n, D, Keep
<1>5. h \in [1 .. n -> [D -> D]]
  BY <1>2
<1>. HIDE DEF h
<1>6. PICK u : IsLoop(u, n, D, <<>>, h)
  <2>. DEFINE b == <<>>
  <2>1. b \in D
    BY <1>3
  <2>. HIDE DEF b
  <2>2. \E u : IsLoop(u, n, D, b, h)
    BY <1>1, <1>5, <2>1, LoopExists
  <2>. QED BY <2>2 DEF b
<1>7. \A i \in 1 .. n : u[i - 1] \in D /\ h[i][u[i - 1]] = Keep(i, u[i - 1])
  BY <1>1, <1>6 DEF IsLoop, h
<1>8. IsCopy(u)
  <2>1. \A i \in 0 .. n : i # 0 => i \in 1 .. n
    BY <1>1
  <2>. QED BY <1>6, <1>7, <2>1 DEF IsLoop
<1>9. IsCopy(g)
  BY <1>8
<1>. HIDE DEF g
<1>10. g[0] = <<>> /\ \A i \in 1 .. n : g[i] = Keep(i, g[i - 1])
  <2>1. \A i \in 0 .. n : g[i] = IF i = 0 THEN <<>> ELSE Keep(i, g[i - 1])
    BY <1>9
  <2>. QED BY <1>1, <2>1
<1>11. \A i \in 0 .. n : g[i] \in D
  <2>. DEFINE T == {i \in 0 .. n : g[i] \in D}
  <2>1. 0 \in T
    BY <1>1, <1>3, <1>10
  <2>2. ASSUME NEW i \in 0 .. n, i < n, i \in T PROVE i + 1 \in T
    <3>1. i + 1 \in 1 .. n /\ g[i + 1] = Keep(i + 1, g[i]) /\ g[i] \in D
      BY <1>1, <1>10, <2>2
    <3>2. g[i + 1] \in D
      BY <1>2, <3>1
    <3>. QED BY <3>1, <3>2
  <2>. HIDE DEF T
  <2>3. \A i \in 0 .. n : i \in T
    BY <1>1, <2>1, <2>2, Induction
  <2>. QED BY <2>3 DEF T
<1>. QED BY <1>4, <1>10, <1>11 DEF n, D, Keep

(* The copy with one entry more.                                              *)
LEMMA KeptMore ==
  ASSUME NEW X, NEW xs \in Seq(X), NEW gone, NEW m \in 0 .. Len(xs) - 1, NEW out \in Seq(X),
         NEW ix, IsKept(xs, gone, m, out, ix)
  PROVE  LET r == IF m + 1 \in gone THEN out ELSE Append(out, xs[m + 1])
         IN  \E iy : IsKept(xs, gone, m + 1, r, iy)
<1>1. Len(xs) \in Nat /\ Len(out) \in Nat /\ m + 1 \in 1 .. Len(xs)
  BY LenProperties
<1>2. CASE m + 1 \in gone
  <2>1. (1 .. m + 1) \ gone = (1 .. m) \ gone
    BY <1>1, <1>2
  <2>2. IsKept(xs, gone, m + 1, out, ix)
    BY <2>1 DEF IsKept
  <2>. QED BY <1>2, <2>2
<1>3. CASE m + 1 \notin gone
  <2>. DEFINE r == Append(out, xs[m + 1])
              k == Len(out) + 1
              iy == [j \in 1 .. k |-> IF j = k THEN m + 1 ELSE ix[j]]
  <2>1. xs[m + 1] \in X
    BY <1>1, ElementOfSeq
  <2>2. /\ Len(r) = k /\ r[k] = xs[m + 1]
        /\ \A j \in 1 .. Len(out) : r[j] = out[j]
    BY <2>1, AppendProperties
  <2>3. /\ k \in 1 .. k /\ iy[k] = m + 1
        /\ \A j \in 1 .. Len(out) : j \in 1 .. k /\ iy[j] = ix[j] /\ j # k
        /\ \A j \in 1 .. k : j = k \/ j \in 1 .. Len(out)
    BY <1>1
  <2>. HIDE DEF r, iy, k
  <2>4. \A j \in 1 .. k : iy[j] \in (1 .. m + 1) \ gone /\ r[j] = xs[iy[j]]
    <3>1. \A j \in 1 .. Len(out) : ix[j] \in (1 .. m) \ gone /\ out[j] = xs[ix[j]]
      BY DEF IsKept
    <3>2. m + 1 \in (1 .. m + 1) \ gone /\ \A p \in (1 .. m) \ gone : p \in (1 .. m + 1) \ gone
      BY <1>3
    <3>3. iy[k] \in (1 .. m + 1) \ gone /\ r[k] = xs[iy[k]]
      BY <2>2, <2>3, <3>2
    <3>4. ASSUME NEW j \in 1 .. Len(out) PROVE iy[j] \in (1 .. m + 1) \ gone /\ r[j] = xs[iy[j]]
      BY <2>2, <2>3, <3>1, <3>2
    <3>. QED BY <2>3, <3>3, <3>4
  <2>5. ASSUME NEW i \in 1 .. k, NEW j \in 1 .. k, i < j PROVE iy[i] < iy[j]
    <3>1. i \in 1 .. Len(out)
      BY <1>1, <2>5 DEF k
    <3>2. ix[i] \in 1 .. m
      BY <3>1 DEF IsKept
    <3>3. CASE j = k
      BY <2>3, <3>1, <3>2, <3>3
    <3>4. CASE j # k
      <4>1. j \in 1 .. Len(out)
        BY <2>3, <3>4
      <4>. QED BY <2>3, <2>5, <3>1, <4>1 DEF IsKept
    <3>. QED BY <3>3, <3>4
  <2>6. ASSUME NEW p \in (1 .. m + 1) \ gone PROVE \E j \in 1 .. k : iy[j] = p
    <3>1. CASE p = m + 1
      BY <2>3, <3>1
    <3>2. CASE p # m + 1
      <4>1. p \in (1 .. m) \ gone
        BY <3>2
      <4>2. PICK j \in 1 .. Len(out) : ix[j] = p
        BY <4>1 DEF IsKept
      <4>. QED BY <2>3, <4>2
    <3>. QED BY <3>1, <3>2
  <2>7. IsKept(xs, gone, m + 1, r, iy)
    BY <2>2, <2>4, <2>5, <2>6 DEF IsKept
  <2>. QED BY <1>3, <2>7 DEF r
<1>. QED BY <1>2, <1>3

(* Without keeps the other entries, each once and in their order.             *)
LEMMA WithoutIs ==
  ASSUME NEW X, NEW xs \in Seq(X), NEW gone
  PROVE  /\ Without(xs, gone) \in Seq(X)
         /\ \E ix : IsKept(xs, gone, Len(xs), Without(xs, gone), ix)
<1>1. PICK g : /\ g[0] = <<>> /\ Without(xs, gone) = g[Len(xs)]
               /\ \A i \in 0 .. Len(xs) : g[i] \in Seq(X)
               /\ \A i \in 1 .. Len(xs) :
                    g[i] = IF i \in gone THEN g[i - 1] ELSE Append(g[i - 1], xs[i])
  BY WithoutSteps
<1>. DEFINE n == Len(xs)
            T == {i \in 0 .. n : \E ix : IsKept(xs, gone, i, g[i], ix)}
<1>2. n \in Nat
  BY LenProperties
<1>3. 0 \in T
  <2>1. g[0] = <<>> /\ Len(<<>>) = 0 /\ 0 \in 0 .. n
    BY <1>1, <1>2, EmptySeq
  <2>2. IsKept(xs, gone, 0, <<>>, <<>>)
    BY DEF IsKept
  <2>. QED BY <2>1, <2>2
<1>4. ASSUME NEW i \in 0 .. n, i < n, i \in T PROVE i + 1 \in T
  <2>1. PICK ix : IsKept(xs, gone, i, g[i], ix)
    BY <1>4
  <2>2. /\ g[i] \in Seq(X) /\ i \in 0 .. n - 1 /\ i + 1 \in 1 .. n /\ i + 1 \in 0 .. n
        /\ i + 1 - 1 = i
    BY <1>1, <1>2, <1>4
  <2>3. g[i + 1] = IF i + 1 \in gone THEN g[i] ELSE Append(g[i], xs[i + 1])
    BY <1>1, <2>2
  <2>. DEFINE u == g[i]
  <2>4. u \in Seq(X) /\ IsKept(xs, gone, i, u, ix)
    BY <2>1, <2>2
  <2>. HIDE DEF u
  <2>5. \E iy : IsKept(xs, gone, i + 1, IF i + 1 \in gone THEN u ELSE Append(u, xs[i + 1]), iy)
    BY <2>2, <2>4, KeptMore
  <2>6. \E iy : IsKept(xs, gone, i + 1, g[i + 1], iy)
    BY <2>3, <2>5 DEF u
  <2>. QED BY <2>2, <2>6
<1>5. n \in T
  <2>. HIDE DEF T
  <2>1. \A i \in 0 .. n : i \in T
    BY <1>2, <1>3, <1>4, Induction
  <2>. QED BY <1>2, <2>1
<1>. QED BY <1>1, <1>2, <1>5

--------------------------------------------------------------------------------
(* The additions of v that no later removal has undone, for events of the     *)
(* types at and rt that name v under k.                                       *)
Since(k, at, rt, v) == After(With(Of(at), k, {v}), Newest(With(Of(rt), k, {v})))

(* The list holds the values added and not removed, in the order of arrival.  *)
Listed(xs, k, at, rt) ==
  /\ \E X : xs \in Seq(X)
  /\ \A i \in 1 .. Len(xs) : xs[i] # "" /\ Since(k, at, rt, xs[i]) # {}
  /\ \A v : v # "" /\ Since(k, at, rt, v) # {} => \E i \in 1 .. Len(xs) : xs[i] = v
  /\ \A i, j \in 1 .. Len(xs) :
       i < j => Min(Since(k, at, rt, xs[i])) < Min(Since(k, at, rt, xs[j]))

(* Such a list is the one the snapshot is to show.                            *)
LEMMA ListedLists ==
  ASSUME NEW xs, NEW k, NEW at, NEW rt, Listed(xs, k, at, rt)
  PROVE  Lists(xs, k, Of(at), Of(rt))
<1>. DEFINE F(v) == Since(k, at, rt, v)
            A == Of(at)
            present == {v \in {Val(i, k) : i \in A} \ {""} : F(v) # {}}
<1>1. Lists(xs, k, Of(at), Of(rt)) <=>
        /\ ToSet(xs) = present
        /\ \A i, j \in 1 .. Len(xs) : i < j => Min(F(xs[i])) < Min(F(xs[j]))
  BY DEF Lists, Since
<1>2. \A v : F(v) # {} => \E i \in A : Val(i, k) = v
  BY DEF Since, After, With
<1>3. /\ \A i \in 1 .. Len(xs) : xs[i] # "" /\ F(xs[i]) # {}
      /\ \A v : v # "" /\ F(v) # {} => \E i \in 1 .. Len(xs) : xs[i] = v
      /\ \A i, j \in 1 .. Len(xs) : i < j => Min(F(xs[i])) < Min(F(xs[j]))
  BY DEF Listed
<1>4. DOMAIN xs = 1 .. Len(xs)
  BY LenProperties DEF Listed
<1>. HIDE DEF F, A
<1>5. ToSet(xs) = {xs[i] : i \in 1 .. Len(xs)}
  BY <1>4 DEF ToSet
<1>6. ASSUME NEW v \in ToSet(xs) PROVE v \in present
  <2>1. PICK i \in 1 .. Len(xs) : v = xs[i]
    BY <1>5
  <2>2. v # "" /\ F(v) # {}
    BY <1>3, <2>1
  <2>3. PICK j \in A : Val(j, k) = v
    BY <1>2, <2>2
  <2>. QED BY <2>2, <2>3
<1>7. ASSUME NEW v \in present PROVE v \in ToSet(xs)
  <2>1. v # "" /\ F(v) # {}
    OBVIOUS
  <2>. QED BY <1>3, <1>5, <2>1
<1>8. ToSet(xs) = present
  BY <1>6, <1>7
<1>. QED BY <1>1, <1>3, <1>8

(* An addition counts from now on, a removal undoes the earlier ones.         *)
LEMMA SinceStep ==
  ASSUME NEW n, NEW e, NEW ok, Extends(n, e, ok), NEW k, NEW at, NEW rt, NEW v,
         ~ (e.type \in at /\ e.type \in rt)
  PROVE  /\ Since(k, at, rt, v) \in SUBSET (1 .. n - 1)
         /\ Since(k, at, rt, v)' =
              IF ok /\ Str(e, k) = v /\ e.type \in at THEN Since(k, at, rt, v) \cup {n}
              ELSE IF ok /\ Str(e, k) = v /\ e.type \in rt THEN {} ELSE Since(k, at, rt, v)
<1>. DEFINE vs == {v}
            A == With(Of(at), k, vs)
            R == With(Of(rt), k, vs)
            F == Since(k, at, rt, v)
<1>1. Str(e, k) \in vs <=> Str(e, k) = v
  OBVIOUS
<1>2. F = After(A, Newest(R)) /\ F' = After(A', Newest(R'))
  BY DEF Since, After
<1>. HIDE DEF vs, F
<1>3. /\ n \in Nat \ {0} /\ A \in SUBSET (1 .. n - 1)
      /\ A' = IF ok /\ e.type \in at /\ Str(e, k) \in vs THEN A \cup {n} ELSE A
  BY WithStep, Earlier
<1>4. /\ R \in SUBSET (1 .. n - 1)
      /\ R' = IF ok /\ e.type \in rt /\ Str(e, k) \in vs THEN R \cup {n} ELSE R
  BY WithStep, Earlier
<1>. HIDE DEF A, R
<1>5. Newest(R) \in 0 .. n - 1 /\ Newest(R \cup {n}) = n
  BY <1>3, <1>4, NewestAdd
<1>6. /\ After(A, n) = {} /\ After(A \cup {n}, Newest(R)) = F \cup {n}
      /\ F \in SUBSET (1 .. n - 1)
  <2>1. /\ After(A, n) = {}
        /\ \A i \in 0 .. n - 1 : After(A \cup {n}, i) = After(A, i) \cup {n}
        /\ \A i : After(A, i) \subseteq A
    BY <1>3, AfterAdd
  <2>. QED BY <1>2, <1>3, <1>5, <2>1
<1>7. CASE ok /\ Str(e, k) = v /\ e.type \in at /\ e.type \notin rt
  BY <1>1, <1>2, <1>3, <1>4, <1>6, <1>7 DEF F
<1>8. CASE ok /\ Str(e, k) = v /\ e.type \in rt /\ e.type \notin at
  BY <1>1, <1>2, <1>3, <1>4, <1>5, <1>6, <1>8 DEF F
<1>9. CASE ~ (ok /\ Str(e, k) = v /\ (e.type \in at \/ e.type \in rt))
  <2>1. A' = A /\ R' = R
    BY <1>1, <1>3, <1>4, <1>9
  <2>2. F' = F
    BY <1>2, <2>1
  <2>. QED BY <1>6, <1>9, <2>2 DEF F
<1>. QED BY <1>6, <1>7, <1>8, <1>9 DEF F

(* addUnique follows an addition.                                             *)
LEMMA ListAdd ==
  ASSUME NEW n, NEW e, NEW ok, Extends(n, e, ok), NEW k, NEW at, NEW rt, NEW xs,
         Listed(xs, k, at, rt), e.type \in at, e.type \notin rt
  PROVE  ok => Listed(addUnique(xs, Str(e, k)), k, at, rt)'
<1>. DEFINE v == Str(e, k)
            ys == addUnique(xs, v)
            F(u) == Since(k, at, rt, u)
            G(u) == Since(k, at, rt, u)'
<1>1. n \in Nat \ {0} /\ \A u : F(u) \in SUBSET (1 .. n - 1)
  BY Earlier, SinceStep
<1>0. ASSUME NEW u
      PROVE  G(u) = IF ok /\ Str(e, k) = u /\ e.type \in at THEN F(u) \cup {n}
                    ELSE IF ok /\ Str(e, k) = u /\ e.type \in rt THEN {} ELSE F(u)
  BY SinceStep
<1>2. ASSUME NEW u PROVE G(u) = IF ok /\ u = v THEN F(u) \cup {n} ELSE F(u)
  BY <1>0
<1>3. /\ \E X : xs \in Seq(X)
      /\ \A i \in 1 .. Len(xs) : xs[i] # "" /\ F(xs[i]) # {}
      /\ \A u : u # "" /\ F(u) # {} => \E i \in 1 .. Len(xs) : xs[i] = u
      /\ \A i, j \in 1 .. Len(xs) : i < j => Min(F(xs[i])) < Min(F(xs[j]))
  BY DEF Listed
<1>4. Listed(ys, k, at, rt)' <=>
        /\ \E X : ys \in Seq(X)
        /\ \A i \in 1 .. Len(ys) : ys[i] # "" /\ G(ys[i]) # {}
        /\ \A u : u # "" /\ G(u) # {} => \E i \in 1 .. Len(ys) : ys[i] = u
        /\ \A i, j \in 1 .. Len(ys) : i < j => Min(G(ys[i])) < Min(G(ys[j]))
  BY DEF Listed
<1>5. ys = IF v = "" \/ (\E i \in 1 .. Len(xs) : xs[i] = v) THEN xs ELSE Append(xs, v)
  BY DEF addUnique, Contains
<1>. SUFFICES ASSUME ok PROVE Listed(ys, k, at, rt)'
  OBVIOUS
<1>. HIDE DEF F, G, v
<1>6. \A u : F(u) # {} => F(u) \cup {n} # {} /\ Min(F(u) \cup {n}) = Min(F(u)) /\ Min(F(u)) \in F(u)
  BY <1>1, MinAdd
<1>7. \A i \in 1 .. Len(xs) : G(xs[i]) # {} /\ Min(G(xs[i])) = Min(F(xs[i]))
  BY <1>2, <1>3, <1>6
<1>8. ASSUME v = "" \/ \E i \in 1 .. Len(xs) : xs[i] = v PROVE Listed(ys, k, at, rt)'
  <2>1. ys = xs
    BY <1>5, <1>8
  <2>2. \A u : u # "" /\ G(u) # {} => \E i \in 1 .. Len(xs) : xs[i] = u
    BY <1>2, <1>3, <1>8
  <2>. HIDE DEF ys
  <2>. QED BY <1>3, <1>4, <1>7, <2>1, <2>2
<1>9. ASSUME v # "" /\ ~ \E i \in 1 .. Len(xs) : xs[i] = v PROVE Listed(ys, k, at, rt)'
  <2>1. PICK Y : xs \in Seq(Y)
    BY <1>3
  <2>. DEFINE X == Y \cup {v}
              m == Len(xs)
  <2>2. xs \in Seq(X) /\ v \in X /\ m \in Nat
    BY <2>1, LenProperties
  <2>. HIDE DEF X
  <2>3. ys = Append(xs, v)
    BY <1>5, <1>9
  <2>. HIDE DEF ys
  <2>4. ys \in Seq(X) /\ Len(ys) = m + 1 /\ ys[m + 1] = v /\ \A i \in 1 .. m : ys[i] = xs[i]
    BY <2>2, <2>3, AppendProperties
  <2>. HIDE DEF m
  <2>5. F(v) = {} /\ G(v) = {n} /\ Min(G(v)) = n
    <3>1. F(v) = {}
      BY <1>3, <1>9
    <3>2. G(v) = {n}
      BY <1>2, <3>1
    <3>. QED BY <1>1, <3>1, <3>2, MinAdd
  <2>6. \A i \in 1 .. m + 1 : i = m + 1 \/ i \in 1 .. m
    BY <2>2
  <2>7. \A i \in 1 .. m : xs[i] # "" /\ G(xs[i]) # {} /\ Min(G(xs[i])) < n
    <3>1. \A i \in 1 .. m : F(xs[i]) # {}
      BY <1>3 DEF m
    <3>2. \A i \in 1 .. m : Min(F(xs[i])) \in 1 .. n - 1
      BY <1>1, <1>6, <3>1
    <3>3. \A x \in 1 .. n - 1 : x < n
      BY <1>1
    <3>. QED BY <1>3, <1>7, <3>2, <3>3 DEF m
  <2>8. \A i \in 1 .. Len(ys) : ys[i] # "" /\ G(ys[i]) # {}
    <3>1. ASSUME NEW i \in 1 .. m + 1 PROVE ys[i] # "" /\ G(ys[i]) # {}
      BY <1>9, <2>4, <2>5, <2>6, <2>7
    <3>. QED BY <2>4, <3>1
  <2>9. \A u : u # "" /\ G(u) # {} => \E i \in 1 .. Len(ys) : ys[i] = u
    <3>1. ASSUME NEW u, u # "", G(u) # {} PROVE \E i \in 1 .. m + 1 : ys[i] = u
      <4>1. CASE u = v
        BY <2>2, <2>4, <4>1
      <4>2. CASE u # v
        <5>1. PICK i \in 1 .. m : xs[i] = u
          BY <1>2, <1>3, <3>1, <4>2 DEF m
        <5>2. i \in 1 .. m + 1
          BY <2>2
        <5>. QED BY <2>4, <5>1, <5>2
      <4>. QED BY <4>1, <4>2
    <3>. QED BY <2>4, <3>1
  <2>10. \A i, j \in 1 .. Len(ys) : i < j => Min(G(ys[i])) < Min(G(ys[j]))
    <3>1. ASSUME NEW i \in 1 .. m + 1, NEW j \in 1 .. m + 1, i < j
          PROVE  Min(G(ys[i])) < Min(G(ys[j]))
      <4>1. i \in 1 .. m
        BY <2>2, <3>1
      <4>2. CASE j = m + 1
        BY <2>4, <2>5, <2>7, <4>1, <4>2
      <4>3. CASE j # m + 1
        <5>1. j \in 1 .. m
          BY <2>6, <4>3
        <5>2. Min(F(xs[i])) < Min(F(xs[j]))
          BY <1>3, <3>1, <4>1, <5>1 DEF m
        <5>. QED BY <1>7, <2>4, <4>1, <5>1, <5>2 DEF m
      <4>. QED BY <4>2, <4>3
    <3>. QED BY <2>4, <3>1
  <2>. QED BY <1>4, <2>4, <2>8, <2>9, <2>10
<1>. QED BY <1>8, <1>9

(* removeString follows a removal.                                            *)
LEMMA ListRemove ==
  ASSUME NEW n, NEW e, NEW ok, Extends(n, e, ok), NEW k, NEW at, NEW rt, NEW xs,
         Listed(xs, k, at, rt), e.type \in rt, e.type \notin at
  PROVE  ok => Listed(removeString(xs, Str(e, k)), k, at, rt)'
<1>. DEFINE v == Str(e, k)
            gone == {p \in 1 .. Len(xs) : xs[p] = v}
            ys == Without(xs, gone)
            F(u) == Since(k, at, rt, u)
            G(u) == Since(k, at, rt, u)'
<1>1. removeString(xs, v) = ys
  BY DEF removeString
<1>0. ASSUME NEW u
      PROVE  G(u) = IF ok /\ Str(e, k) = u /\ e.type \in at THEN F(u) \cup {n}
                    ELSE IF ok /\ Str(e, k) = u /\ e.type \in rt THEN {} ELSE F(u)
  BY SinceStep
<1>2. ASSUME NEW u PROVE G(u) = IF ok /\ u = v THEN {} ELSE F(u)
  BY <1>0
<1>3. /\ \A i \in 1 .. Len(xs) : xs[i] # "" /\ F(xs[i]) # {}
      /\ \A u : u # "" /\ F(u) # {} => \E i \in 1 .. Len(xs) : xs[i] = u
      /\ \A i, j \in 1 .. Len(xs) : i < j => Min(F(xs[i])) < Min(F(xs[j]))
  BY DEF Listed
<1>4. Listed(ys, k, at, rt)' <=>
        /\ \E X : ys \in Seq(X)
        /\ \A i \in 1 .. Len(ys) : ys[i] # "" /\ G(ys[i]) # {}
        /\ \A u : u # "" /\ G(u) # {} => \E i \in 1 .. Len(ys) : ys[i] = u
        /\ \A i, j \in 1 .. Len(ys) : i < j => Min(G(ys[i])) < Min(G(ys[j]))
  BY DEF Listed
<1>5. PICK X : xs \in Seq(X)
  BY DEF Listed
<1>6. ys \in Seq(X) /\ \E ix : IsKept(xs, gone, Len(xs), ys, ix)
  <2>. HIDE DEF gone
  <2>. QED BY <1>5, WithoutIs
<1>7. PICK ix : IsKept(xs, gone, Len(xs), ys, ix)
  BY <1>6
<1>8. \A p \in (1 .. Len(xs)) \ gone : p \in 1 .. Len(xs) /\ xs[p] # v
  OBVIOUS
<1>9. \A p \in 1 .. Len(xs) : xs[p] # v => p \in (1 .. Len(xs)) \ gone
  OBVIOUS
<1>. SUFFICES ASSUME ok PROVE Listed(ys, k, at, rt)'
  BY <1>1
<1>. HIDE DEF gone, ys, F, G, v
<1>10. \A j \in 1 .. Len(ys) : /\ ix[j] \in 1 .. Len(xs) /\ ys[j] = xs[ix[j]]
                               /\ G(ys[j]) = F(xs[ix[j]])
  BY <1>2, <1>7, <1>8 DEF IsKept
<1>11. ASSUME NEW i \in 1 .. Len(ys) PROVE ys[i] # "" /\ G(ys[i]) # {}
  <2>1. ix[i] \in 1 .. Len(xs) /\ ys[i] = xs[ix[i]] /\ G(ys[i]) = F(xs[ix[i]])
    BY <1>10
  <2>2. xs[ix[i]] # "" /\ F(xs[ix[i]]) # {}
    BY <1>3, <2>1
  <2>. QED BY <2>1, <2>2
<1>12. ASSUME NEW u, u # "", G(u) # {} PROVE \E i \in 1 .. Len(ys) : ys[i] = u
  <2>1. u # v /\ F(u) # {}
    BY <1>2, <1>12
  <2>2. PICK p \in 1 .. Len(xs) : xs[p] = u
    BY <1>3, <1>12, <2>1
  <2>3. PICK j \in 1 .. Len(ys) : ix[j] = p
    BY <1>7, <1>9, <2>1, <2>2 DEF IsKept
  <2>. QED BY <1>10, <2>2, <2>3
<1>13. ASSUME NEW i \in 1 .. Len(ys), NEW j \in 1 .. Len(ys), i < j
       PROVE  Min(G(ys[i])) < Min(G(ys[j]))
  <2>1. ix[i] < ix[j]
    BY <1>7, <1>13 DEF IsKept
  <2>2. Min(F(xs[ix[i]])) < Min(F(xs[ix[j]]))
    BY <1>3, <1>10, <2>1
  <2>. QED BY <1>10, <2>2
<1>. QED BY <1>4, <1>6, <1>11, <1>12, <1>13

(* Other events leave the list as it is.                                      *)
LEMMA ListSame ==
  ASSUME NEW n, NEW e, NEW ok, Extends(n, e, ok), NEW k, NEW at, NEW rt, NEW xs,
         Listed(xs, k, at, rt), ~ ok \/ (e.type \notin at /\ e.type \notin rt),
         ~ (e.type \in at /\ e.type \in rt)
  PROVE  Listed(xs, k, at, rt)'
<1>1. \A u : Since(k, at, rt, u)' = Since(k, at, rt, u)
  BY SinceStep
<1>. QED BY <1>1 DEF Listed

--------------------------------------------------------------------------------
(* Check runs that wait, and those that have ended.                           *)
RunEnds == Succeeded \cup Failing
Runs(cs) == With(Of({"check_run_completed"}), "conclusion", cs)

(* Check runs by conclusion, with one event more.                             *)
LEMMA RunsStep ==
  ASSUME NEW n, NEW e, NEW ok, Extends(n, e, ok), NEW cs
  PROVE  /\ Runs(cs) \in SUBSET (1 .. n - 1)
         /\ Runs(cs)' = IF ok /\ Ran(e, cs) THEN Runs(cs) \cup {n} ELSE Runs(cs)
<1>. DEFINE types == {"check_run_completed"}
            S == With(Of(types), "conclusion", cs)
<1>1. Runs(cs) = S /\ Runs(cs)' = S'
  BY DEF Runs
<1>2. Ran(e, cs) <=> e.type \in types /\ Str(e, "conclusion") \in cs
  BY DEF Ran
<1>. HIDE DEF types
<1>3. /\ S \subseteq 1 .. n - 1
      /\ S' = IF ok /\ e.type \in types /\ Str(e, "conclusion") \in cs THEN S \cup {n} ELSE S
  BY WithStep
<1>. HIDE DEF S
<1>. QED BY <1>1, <1>2, <1>3

(* Pending follows the balance of waiting and ended runs.                     *)
LEMMA PendingStep ==
  ASSUME NEW n, NEW e, NEW ok, Extends(n, e, ok), NEW b,
         IsBalance(Runs(Waiting), Runs(RunEnds), Len(log), b)
  PROVE  IsBalance(Runs(Waiting), Runs(RunEnds), Len(log),
                   IF ok /\ Ran(e, Waiting) THEN b + 1
                   ELSE IF ok /\ Ran(e, RunEnds) THEN Settle(b) ELSE b)'
<1>. DEFINE P == Runs(Waiting)
            M == Runs(RunEnds)
            c == IF ok /\ Ran(e, Waiting) THEN b + 1
                 ELSE IF ok /\ Ran(e, RunEnds) THEN Settle(b) ELSE b
<1>1. ok \in BOOLEAN /\ Len(log) = n - 1 /\ Len(log') = n /\ n \in Nat \ {0}
  BY Earlier DEF Extends
<1>2. ~ (Ran(e, Waiting) /\ Ran(e, RunEnds))
  BY DEF Ran, Waiting, RunEnds, Succeeded, Failing
<1>4. P \in SUBSET (1 .. n - 1) /\ P' = IF ok /\ Ran(e, Waiting) THEN P \cup {n} ELSE P
  BY RunsStep
<1>5. M \in SUBSET (1 .. n - 1) /\ M' = IF ok /\ Ran(e, RunEnds) THEN M \cup {n} ELSE M
  BY RunsStep
<1>6. IsBalance(P, M, Len(log), c)' <=> IsBalance(P', M', n, c)
  BY <1>1 DEF IsBalance, Surplus, Stretch, Ran, Str, Get, Settle, Waiting, RunEnds, Succeeded, Failing
<1>7. IsBalance(P, M, n - 1, b)
  BY <1>1
<1>. HIDE DEF P, M, c
<1>8. /\ IsBalance(P, M, n, b) /\ IsBalance(P \cup {n}, M, n, b + 1)
      /\ IsBalance(P, M \cup {n}, n, Settle(b))
  BY <1>1, <1>4, <1>5, <1>7, BalanceStep
<1>9. IsBalance(P', M', n, c)
  <2>1. CASE ok /\ Ran(e, Waiting)
    <3>1. P' = P \cup {n} /\ M' = M /\ c = b + 1
      BY <1>2, <1>4, <1>5, <2>1 DEF c
    <3>. QED BY <1>8, <3>1
  <2>2. CASE ok /\ Ran(e, RunEnds)
    <3>1. P' = P /\ M' = M \cup {n} /\ c = Settle(b)
      BY <1>2, <1>4, <1>5, <2>2 DEF c
    <3>. QED BY <1>8, <3>1
  <2>3. CASE ~ (ok /\ Ran(e, Waiting)) /\ ~ (ok /\ Ran(e, RunEnds))
    <3>1. P' = P /\ M' = M /\ c = b
      BY <1>4, <1>5, <2>3 DEF c
    <3>. QED BY <1>8, <3>1
  <2>. QED BY <2>1, <2>2, <2>3
<1>. QED BY <1>6, <1>9 DEF P, M, c

(* The counters of the snapshot, against the stream.                          *)
Judged == With(Of({"pr_reviewed"}), "state", {"approved", "changes_requested"})
Comments == Of({"pr_commented"})
NewestHead == Latest(Of({"pr_opened", "pr_sync"}), "head")

CountsAre(s) ==
  /\ s.passed \in Nat /\ s.failed \in Nat
  /\ s.approvals \in Nat /\ s.changesRequested \in Nat /\ s.comments \in Nat
  /\ s.passed + s.failed = Cardinality(Runs(RunEnds))
  /\ s.approvals + s.changesRequested + s.comments = Cardinality(Judged) + Cardinality(Comments)

(* The other counters follow what they count.                                 *)
LEMMA CountsStep ==
  ASSUME NEW n, NEW e, NEW ok, Extends(n, e, ok), NEW s, NEW r, CountsAre(s), PRCounts(s, e, r)
  PROVE  CountsAre(IF ok THEN r ELSE s)'
<1>1. /\ Cardinality(Runs(RunEnds)) \in Nat
      /\ Cardinality(Runs(RunEnds))' = IF ok /\ Ran(e, RunEnds) THEN Cardinality(Runs(RunEnds)) + 1
                                    ELSE Cardinality(Runs(RunEnds))
  <2>. DEFINE types == {"check_run_completed"}
              S == With(Of(types), "conclusion", RunEnds)
  <2>1. /\ Cardinality(S) \in Nat
        /\ Cardinality(S)' = IF ok /\ e.type \in types /\ Str(e, "conclusion") \in RunEnds
                             THEN Cardinality(S) + 1 ELSE Cardinality(S)
    <3>. HIDE DEF types
    <3>. QED BY WithCount DEF RunEnds, Succeeded, Failing
  <2>2. Ran(e, RunEnds) <=> e.type \in types /\ Str(e, "conclusion") \in RunEnds
    BY DEF Ran
  <2>3. S = Runs(RunEnds) /\ Cardinality(S)' = Cardinality(Runs(RunEnds))'
    BY DEF Runs
  <2>. HIDE DEF S, types
  <2>. QED BY <2>1, <2>2, <2>3
<1>2. /\ Cardinality(Judged) \in Nat
      /\ Cardinality(Judged)' = IF ok /\ (Reviewed(e, "approved") \/ Reviewed(e, "changes_requested"))
                                THEN Cardinality(Judged) + 1 ELSE Cardinality(Judged)
  <2>. DEFINE types == {"pr_reviewed"}
              vs == {"approved", "changes_requested"}
              S == With(Of(types), "state", vs)
  <2>1. /\ Cardinality(S) \in Nat
        /\ Cardinality(S)' = IF ok /\ e.type \in types /\ Str(e, "state") \in vs
                             THEN Cardinality(S) + 1 ELSE Cardinality(S)
    <3>. HIDE DEF types, vs
    <3>. QED BY WithCount
  <2>2. Reviewed(e, "approved") \/ Reviewed(e, "changes_requested")
          <=> e.type \in types /\ Str(e, "state") \in vs
    BY DEF Reviewed
  <2>3. S = Judged /\ Cardinality(S)' = Cardinality(Judged)'
    BY DEF Judged
  <2>. HIDE DEF S, types, vs
  <2>. QED BY <2>1, <2>2, <2>3
<1>3. /\ Cardinality(Comments) \in Nat
      /\ Cardinality(Comments)' = IF ok /\ e.type = "pr_commented"
                                  THEN Cardinality(Comments) + 1 ELSE Cardinality(Comments)
  <2>. DEFINE types == {"pr_commented"}
              S == Of(types)
  <2>1. /\ Cardinality(S) \in Nat
        /\ Cardinality(S)' = IF ok /\ e.type \in types THEN Cardinality(S) + 1 ELSE Cardinality(S)
    <3>. HIDE DEF types
    <3>. QED BY OfCount
  <2>3. S = Comments /\ Cardinality(S)' = Cardinality(Comments)'
    BY DEF Comments
  <2>4. e.type = "pr_commented" <=> e.type \in types
    OBVIOUS
  <2>. HIDE DEF S, types
  <2>. QED BY <2>1, <2>3, <2>4
<1>4. /\ ~ (Ran(e, Succeeded) /\ Ran(e, Failing))
      /\ Ran(e, RunEnds) <=> Ran(e, Succeeded) \/ Ran(e, Failing)
      /\ ~ (Reviewed(e, "approved") /\ Reviewed(e, "changes_requested"))
      /\ ~ ((Reviewed(e, "approved") \/ Reviewed(e, "changes_requested")) /\ e.type = "pr_commented")
  BY DEF Ran, RunEnds, Succeeded, Failing, Reviewed
<1>5. ok \in BOOLEAN
  BY DEF Extends
<1>. DEFINE t == IF ok THEN r ELSE s
            E == Cardinality(Runs(RunEnds))
            J == Cardinality(Judged)
            C == Cardinality(Comments)
<1>6. CountsAre(t)' <=>
        /\ t.passed \in Nat /\ t.failed \in Nat
        /\ t.approvals \in Nat /\ t.changesRequested \in Nat /\ t.comments \in Nat
        /\ t.passed + t.failed = E'
        /\ t.approvals + t.changesRequested + t.comments = J' + C'
  BY DEF CountsAre
<1>7. /\ s.passed \in Nat /\ s.failed \in Nat
      /\ s.approvals \in Nat /\ s.changesRequested \in Nat /\ s.comments \in Nat
      /\ s.passed + s.failed = E
      /\ s.approvals + s.changesRequested + s.comments = J + C
  BY DEF CountsAre
<1>8. E \in Nat /\ J \in Nat /\ C \in Nat
  BY <1>1, <1>2, <1>3
<1>9. /\ r.approvals = IF Reviewed(e, "approved") THEN s.approvals + 1 ELSE s.approvals
      /\ r.changesRequested = IF Reviewed(e, "changes_requested")
                              THEN s.changesRequested + 1 ELSE s.changesRequested
      /\ r.comments = IF e.type = "pr_commented" THEN s.comments + 1 ELSE s.comments
      /\ r.passed = IF Ran(e, Succeeded) THEN s.passed + 1 ELSE s.passed
      /\ r.failed = IF Ran(e, Failing) THEN s.failed + 1 ELSE s.failed
  BY DEF PRCounts
<1>10. CASE ok
  <2>1. /\ E' = IF Ran(e, Succeeded) \/ Ran(e, Failing) THEN E + 1 ELSE E
        /\ J' = IF Reviewed(e, "approved") \/ Reviewed(e, "changes_requested") THEN J + 1 ELSE J
        /\ C' = IF e.type = "pr_commented" THEN C + 1 ELSE C
    BY <1>1, <1>2, <1>3, <1>4, <1>10
  <2>2. t = r
    BY <1>10
  <2>. HIDE DEF E, J, C
  <2>3. r.passed \in Nat /\ r.failed \in Nat /\ r.passed + r.failed = E'
    <3>1. CASE Ran(e, Succeeded)
      BY <1>4, <1>7, <1>8, <1>9, <2>1, <3>1
    <3>2. CASE Ran(e, Failing)
      <4>1. r.passed = s.passed /\ r.failed = s.failed + 1 /\ E' = E + 1
        BY <1>4, <1>9, <2>1, <3>2
      <4>. QED BY <1>7, <1>8, <4>1
    <3>3. CASE ~ Ran(e, Succeeded) /\ ~ Ran(e, Failing)
      BY <1>4, <1>7, <1>8, <1>9, <2>1, <3>3
    <3>. QED BY <3>1, <3>2, <3>3
  <2>4. /\ r.approvals \in Nat /\ r.changesRequested \in Nat /\ r.comments \in Nat
        /\ r.approvals + r.changesRequested + r.comments = J' + C'
    <3>1. CASE Reviewed(e, "approved")
      BY <1>4, <1>7, <1>8, <1>9, <2>1, <3>1
    <3>2. CASE Reviewed(e, "changes_requested")
      <4>1. /\ r.approvals = s.approvals /\ r.changesRequested = s.changesRequested + 1
            /\ r.comments = s.comments /\ J' = J + 1 /\ C' = C
        BY <1>4, <1>9, <2>1, <3>2
      <4>. QED BY <1>7, <1>8, <4>1
    <3>3. CASE e.type = "pr_commented"
      BY <1>4, <1>7, <1>8, <1>9, <2>1, <3>3
    <3>4. CASE ~ Reviewed(e, "approved") /\ ~ Reviewed(e, "changes_requested") /\ e.type # "pr_commented"
      BY <1>4, <1>7, <1>8, <1>9, <2>1, <3>4
    <3>. QED BY <3>1, <3>2, <3>3, <3>4
  <2>. QED BY <1>6, <1>10, <2>3, <2>4
<1>11. CASE ~ ok
  <2>1. E' = E /\ J' = J /\ C' = C /\ t = s
    BY <1>1, <1>2, <1>3, <1>11
  <2>. QED BY <1>6, <1>7, <2>1
<1>. QED BY <1>5, <1>10, <1>11

(* The lists, whichever way the event touches them.                           *)
LEMMA ListStep ==
  ASSUME NEW n, NEW e, NEW ok, Extends(n, e, ok), NEW k, NEW a, NEW d, a # d, NEW xs,
         Listed(xs, k, {a}, {d})
  PROVE  Listed(IF ok /\ e.type = a THEN addUnique(xs, Str(e, k))
                ELSE IF ok /\ e.type = d THEN removeString(xs, Str(e, k))
                ELSE xs, k, {a}, {d})'
<1>. DEFINE at == {a}
            rt == {d}
            v == Str(e, k)
            add == addUnique(xs, v)
            rem == removeString(xs, v)
            ys == IF ok /\ e.type = a THEN add
                  ELSE IF ok /\ e.type = d THEN rem ELSE xs
<1>1. /\ e.type \in at <=> e.type = a
      /\ e.type \in rt <=> e.type = d
      /\ ~ (e.type \in at /\ e.type \in rt)
  OBVIOUS
<1>2. ok \in BOOLEAN
  BY DEF Extends
<1>3. Listed(xs, k, at, rt)
  OBVIOUS
<1>. HIDE DEF at, rt
<1>4. ASSUME e.type \in at PROVE ok => Listed(add, k, at, rt)'
  BY <1>1, <1>3, <1>4, ListAdd
<1>5. ASSUME e.type \in rt PROVE ok => Listed(rem, k, at, rt)'
  BY <1>1, <1>3, <1>5, ListRemove
<1>6. ASSUME ~ ok \/ (e.type \notin at /\ e.type \notin rt) PROVE Listed(xs, k, at, rt)'
  BY <1>1, <1>3, <1>6, ListSame
<1>7. Listed(ys, k, at, rt)'
  <2>1. CASE ok /\ e.type \in at
    <3>1. ys = add
      BY <1>1, <2>1
    <3>. HIDE DEF add, rem
    <3>2. Listed(add, k, at, rt)'
      BY <1>4, <2>1
    <3>. QED BY <1>1, <2>1, <3>2
  <2>2. CASE ok /\ e.type \in rt
    <3>. HIDE DEF add, rem
    <3>2. Listed(rem, k, at, rt)'
      BY <1>5, <2>2
    <3>. QED BY <1>1, <2>2, <3>2
  <2>3. CASE ~ ok \/ (e.type \notin at /\ e.type \notin rt)
    <3>. HIDE DEF add, rem
    <3>2. Listed(xs, k, at, rt)'
      BY <1>6, <2>3
    <3>. QED BY <1>1, <2>3, <3>2
  <2>. QED BY <1>2, <2>1, <2>2, <2>3
<1>. QED BY <1>7 DEF at, rt

LEMMA ReviewersStep ==
  ASSUME NEW n, NEW e, NEW ok, Extends(n, e, ok), NEW xs,
         Listed(xs, "reviewer", {"pr_review_requested"}, {})
  PROVE  Listed(IF ok /\ e.type = "pr_review_requested"
                THEN addUnique(xs, Str(e, "reviewer")) ELSE xs,
                "reviewer", {"pr_review_requested"}, {})'
<1>. DEFINE at == {"pr_review_requested"}
            rt == {}
            add == addUnique(xs, Str(e, "reviewer"))
            ys == IF ok /\ e.type = "pr_review_requested" THEN add ELSE xs
<1>1. (e.type \in at <=> e.type = "pr_review_requested") /\ e.type \notin rt
  OBVIOUS
<1>2. ok \in BOOLEAN
  BY DEF Extends
<1>3. Listed(xs, "reviewer", at, rt)
  OBVIOUS
<1>. HIDE DEF at, rt
<1>4. ASSUME e.type \in at PROVE ok => Listed(add, "reviewer", at, rt)'
  BY <1>1, <1>3, <1>4, ListAdd
<1>6. ASSUME ~ ok \/ (e.type \notin at /\ e.type \notin rt) PROVE Listed(xs, "reviewer", at, rt)'
  BY <1>1, <1>3, <1>6, ListSame
<1>7. Listed(ys, "reviewer", at, rt)'
  <2>1. CASE ok /\ e.type \in at
    <3>. HIDE DEF add
    <3>2. Listed(add, "reviewer", at, rt)'
      BY <1>4, <2>1
    <3>. QED BY <1>1, <2>1, <3>2
  <2>3. CASE ~ ok \/ e.type \notin at
    <3>. HIDE DEF add
    <3>2. Listed(xs, "reviewer", at, rt)'
      BY <1>1, <1>6, <2>3
    <3>. QED BY <1>1, <2>3, <3>2
  <2>. QED BY <1>2, <2>1, <2>3
<1>. QED BY <1>7 DEF at, rt

(* An inductive invariant of pull requests.                                   *)
Stood(state) == IF state = "" THEN "open" ELSE state

PRInv == kind = "pr" =>
  /\ DOMAIN Cur = PRKeys
  /\ Stood(Cur.state) = Stands
  /\ IsBalance(Runs(Waiting), Runs(RunEnds), Len(log), Cur.pending)
  /\ CountsAre(Cur)
  /\ Cur.head = NewestHead
  /\ Listed(Cur.labels, "label", {"pr_labeled"}, {"pr_unlabeled"})
  /\ Listed(Cur.reviewers, "reviewer", {"pr_review_requested"}, {})
  /\ snap # Nil => snap.state # "" /\ Pos # {} /\ snap.updatedAt = At(Newest(Pos))

LEMMA PRInit == Init => PRInv
<1>1. SUFFICES ASSUME Init, kind = "pr" PROVE PRInv
  BY DEF PRInv
<1>2. Len(log) = 0 /\ Pos = {} /\ (\A types : Of(types) = {})
      /\ \A types, k, vs : With(Of(types), k, vs) = {}
  BY <1>1, EmptySeq DEF Init, Pos, Of, With
<1>3. Cur = PRZero /\ snap = Nil
  BY <1>1 DEF Init, Cur, Zero
<1>4. /\ DOMAIN Cur = PRKeys /\ Cur.state = "" /\ Cur.pending = 0 /\ Cur.head = ""
      /\ Cur.labels = <<>> /\ Cur.reviewers = <<>>
      /\ Cur.passed = 0 /\ Cur.failed = 0 /\ Cur.approvals = 0 /\ Cur.changesRequested = 0
      /\ Cur.comments = 0
  BY <1>3 DEF PRZero, PRKeys
<1>5. Cardinality({}) = 0
  BY FS_EmptySet
<1>6. Stood(Cur.state) = Stands
  BY <1>2, <1>4 DEF Stood, Stands, After
<1>7. IsBalance(Runs(Waiting), Runs(RunEnds), Len(log), 0)
  <2>1. Runs(Waiting) = {} /\ Runs(RunEnds) = {}
    BY <1>2 DEF Runs
  <2>2. \A i : Surplus({}, {}, i, 0) = 0
    BY <1>5 DEF Surplus, Stretch
  <2>. QED BY <1>2, <2>1, <2>2 DEF IsBalance
<1>8. CountsAre(Cur)
  <2>1. Runs(RunEnds) = {} /\ Judged = {} /\ Comments = {}
    BY <1>2 DEF Runs, Judged, Comments
  <2>2. Cardinality(Runs(RunEnds)) = 0 /\ Cardinality(Judged) = 0 /\ Cardinality(Comments) = 0
    BY <1>5, <2>1
  <2>3. 0 \in Nat /\ 0 + 0 = 0 /\ 0 + 0 + 0 = 0
    OBVIOUS
  <2>. QED BY <1>4, <2>2, <2>3, Zenon DEF CountsAre
<1>9. Cur.head = NewestHead
  BY <1>2, <1>4 DEF NewestHead, Latest, Newest
<1>10. \A k, at, rt : Listed(<<>>, k, at, rt)
  <2>1. <<>> \in Seq({}) /\ Len(<<>>) = 0
    BY EmptySeq
  <2>2. \A k, at, rt, v : Since(k, at, rt, v) = {}
    BY <1>2 DEF Since, After
  <2>3. ASSUME NEW k, NEW at, NEW rt PROVE Listed(<<>>, k, at, rt)
    <3>1. \A v : Since(k, at, rt, v) = {}
      BY <2>2
    <3>2. \E X : <<>> \in Seq(X)
      BY <2>1
    <3>3. \A i \in 1 .. Len(<<>>) : FALSE
      BY <2>1
    <3>4. \A v : v # "" /\ Since(k, at, rt, v) # {} => \E i \in 1 .. Len(<<>>) : <<>>[i] = v
      BY <3>1
    <3>. QED BY <3>2, <3>3, <3>4, Zenon DEF Listed
  <2>. QED BY <2>3
<1>. QED BY <1>3, <1>4, <1>6, <1>7, <1>8, <1>9, <1>10 DEF PRInv

LEMMA PRNext ==
  ASSUME LogInv, PRInv, Next PROVE PRInv'
<1>1. PICK n, e : Takes(n, e) \/ Refuses(n, e)
  BY Steps
<1>2. SUFFICES ASSUME kind = "pr" PROVE PRInv'
  BY <1>1 DEF PRInv, Extends, Takes, Refuses
<1>. DEFINE r == PRApply(Cur, e)
<1>3. PICK s : s = Cur
  OBVIOUS
<1>4. kind' = kind /\ Apply(kind, snap, e) = r
  BY <1>1, <1>2 DEF Extends, Takes, Refuses, Apply, Cur
<1>5. /\ DOMAIN s = PRKeys /\ Stood(s.state) = Stands
      /\ IsBalance(Runs(Waiting), Runs(RunEnds), Len(log), s.pending)
      /\ CountsAre(s) /\ s.head = NewestHead
      /\ Listed(s.labels, "label", {"pr_labeled"}, {"pr_unlabeled"})
      /\ Listed(s.reviewers, "reviewer", {"pr_review_requested"}, {})
      /\ snap # Nil => snap.state # "" /\ Pos # {} /\ snap.updatedAt = At(Newest(Pos))
  BY <1>2, <1>3 DEF PRInv
<1>6. PICK q : q = PRApply(s, e)
  OBVIOUS
<1>7. PRStep(s, e, q) /\ PRCounts(s, e, q) /\ r = q
  BY <1>3, <1>5, <1>6, PRFields
<1>. HIDE DEF r
<1>8. CASE Takes(n, e)
  <2>1. snap' = q /\ snap' # Nil /\ Cur' = q /\ Extends(n, e, TRUE)
    BY <1>4, <1>7, <1>8 DEF Takes, Cur
  <2>2. q.state # "" /\ Stood(q.state) = Stands'
    <3>1. Stands' = IF TRUE THEN PRState(Stands, e) ELSE Stands
      BY <2>1, StandsStep
    <3>2. Stands # ""
      BY DEF Stands
    <3>3. q.state = PRState(s.state, e)
      BY <1>7 DEF PRStep
    <3>4. PRState(s.state, e) = PRState(Stands, e) /\ PRState(Stands, e) # ""
      BY <1>5, <3>2 DEF PRState, Stood
    <3>. QED BY <3>1, <3>3, <3>4 DEF Stood
  <2>3. IsBalance(Runs(Waiting), Runs(RunEnds), Len(log), q.pending)'
    <3>1. PICK b : b = s.pending
      OBVIOUS
    <3>. DEFINE c == IF TRUE /\ Ran(e, Waiting) THEN b + 1
                     ELSE IF TRUE /\ Ran(e, RunEnds) THEN Settle(b) ELSE b
    <3>2. IsBalance(Runs(Waiting), Runs(RunEnds), Len(log), c)'
      BY <1>5, <2>1, <3>1, PendingStep
    <3>3. q.pending = c
      BY <1>7, <3>1 DEF PRCounts, RunEnds
    <3>. QED BY <3>2, <3>3
  <2>4. CountsAre(q)'
    <3>1. CountsAre(IF TRUE THEN q ELSE s)'
      BY <1>5, <1>7, <2>1, CountsStep
    <3>. QED BY <3>1
  <2>5. q.head = NewestHead'
    <3>. DEFINE types == {"pr_opened", "pr_sync"}
    <3>1. NewestHead = Latest(Of(types), "head") /\ NewestHead' = Latest(Of(types), "head")'
      BY DEF NewestHead
    <3>2. q.head = IF e.type \in types THEN Update(s.head, e, "head") ELSE s.head
      BY <1>7 DEF PRStep
    <3>. HIDE DEF types
    <3>3. Latest(Of(types), "head")' = IF TRUE /\ e.type \in types
                                       THEN Update(Latest(Of(types), "head"), e, "head")
                                       ELSE Latest(Of(types), "head")
      BY <2>1, LatestStep
    <3>. QED BY <1>5, <3>1, <3>2, <3>3
  <2>6. Listed(q.labels, "label", {"pr_labeled"}, {"pr_unlabeled"})'
    <3>1. PICK xs : xs = s.labels
      OBVIOUS
    <3>. DEFINE ys == IF TRUE /\ e.type = "pr_labeled" THEN addUnique(xs, Str(e, "label"))
                      ELSE IF TRUE /\ e.type = "pr_unlabeled"
                      THEN removeString(xs, Str(e, "label")) ELSE xs
    <3>2. Listed(xs, "label", {"pr_labeled"}, {"pr_unlabeled"})
      BY <1>5, <3>1
    <3>3. Listed(ys, "label", {"pr_labeled"}, {"pr_unlabeled"})'
      <4>1. "pr_labeled" # "pr_unlabeled"
        OBVIOUS
      <4>. QED BY <2>1, <3>2, <4>1, ListStep
    <3>4. q.labels = ys
      BY <1>7, <3>1 DEF PRStep
    <3>. HIDE DEF ys
    <3>. QED BY <3>3, <3>4
  <2>7. Listed(q.reviewers, "reviewer", {"pr_review_requested"}, {})'
    <3>1. PICK xs : xs = s.reviewers
      OBVIOUS
    <3>. DEFINE ys == IF TRUE /\ e.type = "pr_review_requested"
                      THEN addUnique(xs, Str(e, "reviewer")) ELSE xs
    <3>2. Listed(xs, "reviewer", {"pr_review_requested"}, {})
      BY <1>5, <3>1
    <3>3. Listed(ys, "reviewer", {"pr_review_requested"}, {})'
      BY <2>1, <3>2, ReviewersStep
    <3>4. q.reviewers = ys
      BY <1>7, <3>1 DEF PRStep
    <3>. HIDE DEF ys
    <3>. QED BY <3>3, <3>4
  <2>8. Pos' # {} /\ q.updatedAt = At(Newest(Pos))'
    <3>1. Pos' = IF TRUE THEN Pos \cup {n} ELSE Pos
      BY <2>1, PosStep
    <3>2. At(Newest(Pos))' = IF TRUE THEN e.at ELSE IF Pos = {} THEN At(0)' ELSE At(Newest(Pos))
      BY <2>1, UpdatedStep
    <3>. QED BY <1>7, <3>1, <3>2 DEF PRStep
  <2>9. DOMAIN q = PRKeys
    BY <1>7 DEF PRStep
  <2>. QED BY <2>1, <2>2, <2>3, <2>4, <2>5, <2>6, <2>7, <2>8, <2>9 DEF PRInv
<1>9. CASE Refuses(n, e)
  <2>1. Cur' = s /\ snap' = snap /\ Extends(n, e, FALSE)
    BY <1>3, <1>4, <1>9 DEF Refuses, Cur
  <2>2. Stands' = Stands
    <3>1. Stands' = IF FALSE THEN PRState(Stands, e) ELSE Stands
      BY <2>1, StandsStep
    <3>. QED BY <3>1
  <2>3. IsBalance(Runs(Waiting), Runs(RunEnds), Len(log), s.pending)'
    <3>1. PICK b : b = s.pending
      OBVIOUS
    <3>2. IsBalance(Runs(Waiting), Runs(RunEnds), Len(log),
                    IF FALSE /\ Ran(e, Waiting) THEN b + 1
                    ELSE IF FALSE /\ Ran(e, RunEnds) THEN Settle(b) ELSE b)'
      BY <1>5, <2>1, <3>1, PendingStep
    <3>. QED BY <3>1, <3>2
  <2>4. CountsAre(s)'
    <3>1. CountsAre(IF FALSE THEN q ELSE s)'
      BY <1>5, <1>7, <2>1, CountsStep
    <3>. QED BY <3>1
  <2>5. NewestHead' = NewestHead
    <3>. DEFINE types == {"pr_opened", "pr_sync"}
    <3>1. NewestHead = Latest(Of(types), "head") /\ NewestHead' = Latest(Of(types), "head")'
      BY DEF NewestHead
    <3>. HIDE DEF types
    <3>2. Latest(Of(types), "head")' = IF FALSE /\ e.type \in types
                                       THEN Update(Latest(Of(types), "head"), e, "head")
                                       ELSE Latest(Of(types), "head")
      BY <2>1, LatestStep
    <3>. QED BY <3>1, <3>2
  <2>6. Listed(s.labels, "label", {"pr_labeled"}, {"pr_unlabeled"})'
    <3>1. PICK xs : xs = s.labels
      OBVIOUS
    <3>2. Listed(xs, "label", {"pr_labeled"}, {"pr_unlabeled"})
      BY <1>5, <3>1
    <3>3. Listed(IF FALSE /\ e.type = "pr_labeled" THEN addUnique(xs, Str(e, "label"))
                 ELSE IF FALSE /\ e.type = "pr_unlabeled"
                 THEN removeString(xs, Str(e, "label")) ELSE xs,
                 "label", {"pr_labeled"}, {"pr_unlabeled"})'
      <4>1. "pr_labeled" # "pr_unlabeled"
        OBVIOUS
      <4>. QED BY <2>1, <3>2, <4>1, ListStep
    <3>. QED BY <3>1, <3>3
  <2>7. Listed(s.reviewers, "reviewer", {"pr_review_requested"}, {})'
    <3>1. PICK xs : xs = s.reviewers
      OBVIOUS
    <3>2. Listed(xs, "reviewer", {"pr_review_requested"}, {})
      BY <1>5, <3>1
    <3>3. Listed(IF FALSE /\ e.type = "pr_review_requested"
                 THEN addUnique(xs, Str(e, "reviewer")) ELSE xs,
                 "reviewer", {"pr_review_requested"}, {})'
      BY <2>1, <3>2, ReviewersStep
    <3>. QED BY <3>1, <3>3
  <2>8. snap # Nil => snap.state # "" /\ Pos' # {} /\ snap.updatedAt = At(Newest(Pos))'
    <3>1. Pos' = IF FALSE THEN Pos \cup {n} ELSE Pos
      BY <2>1, PosStep
    <3>2. At(Newest(Pos))' = IF FALSE THEN e.at ELSE IF Pos = {} THEN At(0)' ELSE At(Newest(Pos))
      BY <2>1, UpdatedStep
    <3>. QED BY <1>5, <3>1, <3>2
  <2>. QED BY <1>5, <2>1, <2>2, <2>3, <2>4, <2>5, <2>6, <2>7, <2>8 DEF PRInv
<1>. QED BY <1>1, <1>8, <1>9

(* A pull request's snapshot says of its stream whether it is merged, closed  *)
(* or open since it was last opened, how many check runs wait, passed and     *)
(* failed, how many reviews and comments there were, the newest head, the     *)
(* labels and the reviewers asked, each once and in the order of their        *)
(* arrival, and when it last changed (pr.go:35-143).                          *)
THEOREM PullRequestsAreTold == Spec => []PRSnapshot
<1>1. Init => LogInv /\ PRInv
  BY DeployInit, PRInit
<1>2. LogInv /\ PRInv /\ [Next]_vars => LogInv' /\ PRInv'
  <2>1. SUFFICES ASSUME LogInv, PRInv, [Next]_vars PROVE LogInv' /\ PRInv'
    OBVIOUS
  <2>2. CASE Next
    BY <2>1, <2>2, LogNext, PRNext
  <2>3. CASE UNCHANGED vars
    <3>1. LogInv'
      BY <2>1, <2>3 DEF vars, LogInv, Pos
    <3>2. PRInv' <=> PRInv
      BY <2>3 DEF vars, PRInv, Cur, Stands, Opened, IsBalance, Surplus, Stretch, Runs, CountsAre,
                  Judged, Comments, NewestHead, Latest, Listed, Since, Newest, After, With, Of, Pos, Val, At
    <3>. QED BY <2>1, <3>1, <3>2
  <2>. QED BY <2>1, <2>2, <2>3
<1>3. PRInv => PRSnapshot
  <2>1. SUFFICES ASSUME PRInv, kind = "pr", snap # Nil PROVE PRSnapshot
    BY DEF PRSnapshot, Is
  <2>2. /\ snap.state = Stands
        /\ IsBalance(Runs(Waiting), Runs(RunEnds), Len(log), snap.pending)
        /\ CountsAre(snap) /\ snap.head = NewestHead
        /\ Listed(snap.labels, "label", {"pr_labeled"}, {"pr_unlabeled"})
        /\ Listed(snap.reviewers, "reviewer", {"pr_review_requested"}, {})
        /\ snap.updatedAt = At(Newest(Pos))
    BY <2>1 DEF PRInv, Cur, Stood
  <2>3. Balance(Runs(Waiting), Runs(RunEnds), Len(log)) = snap.pending
    BY <2>2, BalanceIs
  <2>4. Lists(snap.labels, "label", Of({"pr_labeled"}), Of({"pr_unlabeled"}))
    BY <2>2, ListedLists
  <2>5. Lists(snap.reviewers, "reviewer", Of({"pr_review_requested"}), {})
    <3>1. Lists(snap.reviewers, "reviewer", Of({"pr_review_requested"}), Of({}))
      BY <2>2, ListedLists
    <3>2. Of({}) = {}
      BY DEF Of
    <3>. QED BY <3>1, <3>2
  <2>6. /\ snap.passed + snap.failed = Cardinality(Runs(RunEnds))
        /\ snap.approvals + snap.changesRequested + snap.comments =
             Cardinality(Judged) + Cardinality(Comments)
    BY <2>2 DEF CountsAre
  <2>. QED BY <2>2, <2>3, <2>4, <2>5, <2>6
           DEF PRSnapshot, Stands, Opened, Runs, RunEnds, Judged, Comments, NewestHead
<1>. QED BY <1>1, <1>2, <1>3, PTL DEF Spec

--------------------------------------------------------------------------------
(* Counting a set by an enumeration of it.                                    *)
LEMMA CountIs ==
  ASSUME NEW m \in Nat, NEW S, NEW f,
         \A j \in 1 .. m : f[j] \in S,
         \A i, j \in 1 .. m : f[i] = f[j] => i = j,
         \A x \in S : \E j \in 1 .. m : f[j] = x
  PROVE  Cardinality(S) = m
<1>. DEFINE g == [j \in 1 .. m |-> f[j]]
<1>1. g \in Bijection(1 .. m, S)
  BY DEF Bijection, Injection, Surjection, IsInjective
<1>2. ExistsBijection(1 .. m, S)
  BY <1>1 DEF ExistsBijection
<1>3. IsFiniteSet(1 .. m) /\ Cardinality(1 .. m) = m
  BY FS_Interval
<1>. QED BY <1>2, <1>3, FS_Bijection

(* ix runs through S upwards.                                                 *)
Enumerates(ix, m, S) ==
  /\ \A j \in 1 .. m : ix[j] \in S
  /\ \A i, j \in 1 .. m : i < j => ix[i] < ix[j]
  /\ \A x \in S : \E j \in 1 .. m : ix[j] = x

(* The rank of an entry is the number of those before it.                     *)
LEMMA RankIs ==
  ASSUME NEW m \in Nat, NEW S \in SUBSET Nat, NEW ix, Enumerates(ix, m, S)
  PROVE  /\ Cardinality(S) = m
         /\ \A j \in 1 .. m : /\ Cardinality(Before(S, ix[j])) = j - 1
                              /\ Cardinality(After(S, ix[j])) = m - j
<1>0. /\ \A j \in 1 .. m : ix[j] \in S
      /\ \A i, j \in 1 .. m : i < j => ix[i] < ix[j]
      /\ \A x \in S : \E j \in 1 .. m : ix[j] = x
  BY DEF Enumerates
<1>1. \A j \in 1 .. m : ix[j] \in Nat
  <2>1. \A x \in S : x \in Nat
    OBVIOUS
  <2>. QED BY <1>0, <2>1
<1>2. \A i, j \in 1 .. m : (i < j => ix[i] < ix[j]) /\ (ix[i] < ix[j] => i < j) /\ (ix[i] = ix[j] => i = j)
  <2>1. ASSUME NEW i \in 1 .. m, NEW j \in 1 .. m
        PROVE  (i < j => ix[i] < ix[j]) /\ (ix[i] < ix[j] => i < j) /\ (ix[i] = ix[j] => i = j)
    <3>1. (i < j => ix[i] < ix[j]) /\ (j < i => ix[j] < ix[i]) /\ ix[i] \in Nat /\ ix[j] \in Nat
      BY <1>1 DEF Enumerates
    <3>. QED BY <3>1
  <2>. QED BY <2>1
<1>3. Cardinality(S) = m
  <2>1. \A i, j \in 1 .. m : ix[i] = ix[j] => i = j
    BY <1>2
  <2>. QED BY <1>0, <2>1, CountIs
<1>4. ASSUME NEW j \in 1 .. m
      PROVE  Cardinality(Before(S, ix[j])) = j - 1
  <2>. DEFINE B == Before(S, ix[j])
              k == j - 1
  <2>1. k \in Nat /\ \A l \in 1 .. k : l \in 1 .. m /\ l < j
    OBVIOUS
  <2>2. \A l \in 1 .. m : l < j => l \in 1 .. k
    OBVIOUS
  <2>3. \A l \in 1 .. k : ix[l] \in B
    BY <1>2, <2>1 DEF Before, Enumerates
  <2>4. \A x \in B : \E l \in 1 .. k : ix[l] = x
    <3>1. SUFFICES ASSUME NEW x \in B PROVE \E l \in 1 .. k : ix[l] = x
      OBVIOUS
    <3>2. PICK l \in 1 .. m : ix[l] = x /\ ix[l] < ix[j]
      BY DEF Before, Enumerates
    <3>. QED BY <1>2, <2>2, <3>2
  <2>5. \A i, l \in 1 .. k : ix[i] = ix[l] => i = l
    BY <1>2, <2>1
  <2>. HIDE DEF B, k
  <2>6. Cardinality(B) = k
    BY <2>1, <2>3, <2>4, <2>5, CountIs
  <2>. QED BY <2>6 DEF B, k
<1>5. ASSUME NEW j \in 1 .. m
      PROVE  Cardinality(After(S, ix[j])) = m - j
  <2>. DEFINE A == After(S, ix[j])
              k == m - j
              f == [l \in 1 .. k |-> ix[j + l]]
  <2>1. k \in Nat /\ \A l \in 1 .. k : j + l \in 1 .. m /\ j < j + l
    OBVIOUS
  <2>2. \A l \in 1 .. m : j < l => l - j \in 1 .. k /\ j + (l - j) = l
    OBVIOUS
  <2>3. \A l \in 1 .. k : f[l] = ix[j + l]
    OBVIOUS
  <2>. HIDE DEF f
  <2>4. \A l \in 1 .. k : f[l] \in A
    BY <1>2, <2>1, <2>3 DEF After, Enumerates
  <2>5. \A x \in A : \E l \in 1 .. k : f[l] = x
    <3>1. SUFFICES ASSUME NEW x \in A PROVE \E l \in 1 .. k : f[l] = x
      OBVIOUS
    <3>2. PICK l \in 1 .. m : ix[l] = x /\ ix[j] < ix[l]
      BY DEF After, Enumerates
    <3>3. l - j \in 1 .. k /\ f[l - j] = x
      BY <1>2, <2>2, <2>3, <3>2
    <3>. QED BY <3>3
  <2>6. \A i, l \in 1 .. k : f[i] = f[l] => i = l
    <3>1. ASSUME NEW i \in 1 .. k, NEW l \in 1 .. k, f[i] = f[l] PROVE i = l
      <4>1. j + i = j + l
        BY <1>2, <2>1, <2>3, <3>1
      <4>. QED BY <4>1
    <3>. QED BY <3>1
  <2>. HIDE DEF A, k
  <2>7. Cardinality(A) = k
    BY <2>1, <2>4, <2>5, <2>6, CountIs
  <2>. QED BY <2>7 DEF A, k
<1>. QED BY <1>3, <1>4, <1>5

--------------------------------------------------------------------------------
(* Chats.                                                                     *)
Posts == Of({"msg_posted"})
IdOf(i) == Message(log[i].event).id
Deletes(i, n) == {j \in Of({"msg_deleted"}) : i < j /\ j <= n /\ Val(j, "id") = IdOf(i)}
Later(i, n) == {j \in Posts : i < j /\ j <= n /\ Deletes(j, n) = {}}
Shown == {i \in Posts : /\ Deletes(i, Len(log)) = {}
                        /\ \A n \in i .. Len(log) : Cardinality(Later(i, n)) < LogCap}

(* What the event does to a message that is there.                            *)
Posted(e, ok) == ok /\ e.type = "msg_posted"
Drops(e, ok, i) == ok /\ e.type = "msg_deleted" /\ Str(e, "id") = IdOf(i)

(* What one event more does to the deletions and the later messages.          *)
LEMMA LaterStep ==
  ASSUME NEW n, NEW e, NEW ok, Extends(n, e, ok)
  PROVE  /\ Posts \in SUBSET (1 .. n - 1)
         /\ Posts' = IF Posted(e, ok) THEN Posts \cup {n} ELSE Posts
         /\ \A i \in 1 .. n - 1 : IdOf(i)' = IdOf(i)
         /\ IdOf(n)' = Message(e).id
         /\ \A i \in 1 .. n - 1 :
              /\ \A m \in i .. n - 1 : Deletes(i, m)' = Deletes(i, m) /\ Later(i, m)' = Later(i, m)
              /\ Deletes(i, n)' = IF Drops(e, ok, i) THEN Deletes(i, n - 1) \cup {n}
                                  ELSE Deletes(i, n - 1)
              /\ Later(i, n)' = IF Posted(e, ok) THEN Later(i, n - 1) \cup {n}
                                ELSE {j \in Later(i, n - 1) : ~ Drops(e, ok, j)}
         /\ Deletes(n, n)' = {} /\ Later(n, n)' = {}
<1>. DEFINE D == Of({"msg_deleted"})
<1>1. n \in Nat \ {0} /\ ok \in BOOLEAN /\ Len(log) = n - 1 /\ Len(log') = n
  BY Earlier DEF Extends
<1>2. /\ Posts \in SUBSET (1 .. n - 1)
      /\ Posts' = IF Posted(e, ok) THEN Posts \cup {n} ELSE Posts
  BY OfOne DEF Posts, Posted
<1>3. D \in SUBSET (1 .. n - 1) /\ D' = IF ok /\ e.type = "msg_deleted" THEN D \cup {n} ELSE D
  BY OfOne
<1>4. (\A i \in 1 .. n - 1 : IdOf(i)' = IdOf(i)) /\ IdOf(n)' = Message(e).id
  BY Earlier DEF IdOf
<1>5. Val(n, "id")' = Str(e, "id") /\ \A i \in 1 .. n - 1 : Val(i, "id")' = Val(i, "id")
  BY AtStep
<1>6. /\ \A i, m : Deletes(i, m) = {j \in D : i < j /\ j <= m /\ Val(j, "id") = IdOf(i)}
      /\ \A i, m : Deletes(i, m)' = {j \in D' : i < j /\ j <= m /\ Val(j, "id")' = IdOf(i)'}
      /\ \A i, m : Later(i, m) = {j \in Posts : i < j /\ j <= m /\ Deletes(j, m) = {}}
      /\ \A i, m : Later(i, m)' = {j \in Posts' : i < j /\ j <= m /\ Deletes(j, m)' = {}}
  BY DEF Deletes, Later
<1>. HIDE DEF D
<1>7. \A x \in 1 .. n - 1 : x < n /\ x <= n /\ x <= n - 1 /\ ~ (n <= x) /\ ~ (n < x) /\ x # n
  BY <1>1
<1>8. ASSUME NEW i \in 1 .. n - 1, NEW m \in i .. n - 1 PROVE Deletes(i, m)' = Deletes(i, m)
  <2>1. m \in 1 .. n - 1
    BY <1>1
  <2>. QED BY <1>3, <1>4, <1>5, <1>6, <1>7, <2>1
<1>9. ASSUME NEW i \in 1 .. n - 1
      PROVE  Deletes(i, n)' = IF Drops(e, ok, i) THEN Deletes(i, n - 1) \cup {n}
                              ELSE Deletes(i, n - 1)
  <2>1. Deletes(i, n - 1) = {j \in D : i < j /\ j <= n - 1 /\ Val(j, "id") = IdOf(i)}
    BY <1>6
  <2>2. Deletes(i, n)' = {j \in D' : i < j /\ j <= n /\ Val(j, "id")' = IdOf(i)}
    BY <1>4, <1>6
  <2>3. \A j \in D : j <= n /\ j <= n - 1 /\ Val(j, "id")' = Val(j, "id")
    BY <1>3, <1>5, <1>7
  <2>4. i < n /\ n <= n
    BY <1>1
  <2>5. CASE ok /\ e.type = "msg_deleted"
    <3>1. Deletes(i, n)' = {j \in D \cup {n} : i < j /\ j <= n /\ Val(j, "id")' = IdOf(i)}
      BY <1>3, <2>2, <2>5
    <3>. QED BY <1>5, <2>1, <2>3, <2>4, <2>5, <3>1 DEF Drops
  <2>6. CASE ~ (ok /\ e.type = "msg_deleted")
    BY <1>3, <2>1, <2>2, <2>3, <2>6 DEF Drops
  <2>. QED BY <2>5, <2>6
<1>10. Deletes(n, n)' = {}
  <2>1. \A j \in D' : ~ (n < j)
    BY <1>1, <1>3, <1>7
  <2>. QED BY <1>6, <2>1
<1>11. ASSUME NEW i \in 1 .. n - 1, NEW m \in i .. n - 1 PROVE Later(i, m)' = Later(i, m)
  <2>1. m \in 1 .. n - 1
    BY <1>1
  <2>2. ASSUME NEW j \in 1 .. n - 1, j <= m PROVE Deletes(j, m)' = Deletes(j, m)
    <3>1. m \in j .. n - 1
      BY <1>1, <2>1, <2>2
    <3>. QED BY <1>8, <3>1
  <2>3. \A j \in Posts' : j <= m => j \in Posts
    BY <1>2, <1>7, <2>1
  <2>. QED BY <1>2, <1>6, <2>2, <2>3
<1>12. Later(n, n)' = {}
  <2>1. \A j \in Posts' : ~ (n < j)
    BY <1>1, <1>2, <1>7
  <2>. QED BY <1>6, <2>1
<1>13. ASSUME NEW i \in 1 .. n - 1
       PROVE  Later(i, n)' = IF Posted(e, ok) THEN Later(i, n - 1) \cup {n}
                             ELSE {j \in Later(i, n - 1) : ~ Drops(e, ok, j)}
  <2>1. \A j \in Posts : Deletes(j, n)' = {} <=> Deletes(j, n - 1) = {} /\ ~ Drops(e, ok, j)
    BY <1>2, <1>9
  <2>2. CASE Posted(e, ok)
    <3>1. \A j : ~ Drops(e, ok, j)
      BY <2>2 DEF Posted, Drops
    <3>2. i < n /\ n <= n
      BY <1>1
    <3>3. \A j \in Posts : j <= n /\ j <= n - 1
      BY <1>2, <1>7
    <3>4. Posts' = Posts \cup {n}
      BY <1>2, <2>2
    <3>5. Later(i, n)' = {j \in Posts \cup {n} : i < j /\ j <= n /\ Deletes(j, n)' = {}}
      BY <1>6, <3>4
    <3>6. Later(i, n - 1) = {j \in Posts : i < j /\ j <= n - 1 /\ Deletes(j, n - 1) = {}}
      BY <1>6
    <3>. QED BY <1>10, <2>1, <2>2, <3>1, <3>2, <3>3, <3>5, <3>6
  <2>3. CASE ~ Posted(e, ok)
    <3>3. \A j \in Posts : j <= n /\ j <= n - 1
      BY <1>2, <1>7
    <3>5. Later(i, n)' = {j \in Posts : i < j /\ j <= n /\ Deletes(j, n)' = {}}
      BY <1>2, <1>6, <2>3
    <3>6. Later(i, n - 1) = {j \in Posts : i < j /\ j <= n - 1 /\ Deletes(j, n - 1) = {}}
      BY <1>6
    <3>. QED BY <2>1, <2>3, <3>3, <3>5, <3>6
  <2>. QED BY <2>2, <2>3
<1>. QED BY <1>2, <1>4, <1>8, <1>9, <1>10, <1>11, <1>12, <1>13

(* What is shown after one event more.                                        *)
LEMMA ShownStep ==
  ASSUME NEW n, NEW e, NEW ok, Extends(n, e, ok)
  PROVE  /\ Shown \in SUBSET (1 .. n - 1)
         /\ Shown' = IF Posted(e, ok)
                     THEN {i \in Shown : Cardinality(After(Shown, i)) + 1 < LogCap} \cup {n}
                     ELSE {i \in Shown : ~ Drops(e, ok, i)}
<1>1. n \in Nat \ {0} /\ ok \in BOOLEAN /\ Len(log) = n - 1 /\ Len(log') = n
  BY Earlier DEF Extends
<1>2. /\ Posts \in SUBSET (1 .. n - 1)
      /\ Posts' = IF Posted(e, ok) THEN Posts \cup {n} ELSE Posts
      /\ Deletes(n, n)' = {} /\ Later(n, n)' = {}
  BY LaterStep
<1>3. /\ \A i \in 1 .. n - 1 : \A m \in i .. n - 1 : Later(i, m)' = Later(i, m)
      /\ \A i \in 1 .. n - 1 :
           Deletes(i, n)' = IF Drops(e, ok, i) THEN Deletes(i, n - 1) \cup {n}
                            ELSE Deletes(i, n - 1)
      /\ \A i \in 1 .. n - 1 :
           Later(i, n)' = IF Posted(e, ok) THEN Later(i, n - 1) \cup {n}
                          ELSE {j \in Later(i, n - 1) : ~ Drops(e, ok, j)}
  BY LaterStep
<1>4. \A i, m : Later(i, m) \in SUBSET (1 .. n - 1)
  BY <1>2 DEF Later
<1>5. \A F \in SUBSET (1 .. n - 1) :
        Cardinality(F) \in Nat /\ Cardinality(F \cup {n}) = Cardinality(F) + 1 /\ IsFiniteSet(F)
  BY <1>1, CountAdd
<1>6. \A F \in SUBSET (1 .. n - 1) : \A G \in SUBSET F : Cardinality(G) <= Cardinality(F)
  BY <1>5, FS_Subset
<1>. DEFINE S == Shown
            Holds(i) == \A m \in i .. n - 1 : Cardinality(Later(i, m)) < LogCap
<1>7. S = {i \in Posts : Deletes(i, n - 1) = {} /\ Holds(i)}
  BY <1>1 DEF Shown
<1>8. S' = {i \in Posts' : /\ Deletes(i, n)' = {}
                           /\ \A m \in i .. n : Cardinality(Later(i, m)') < LogCap}
  BY <1>1 DEF Shown
<1>9. S \in SUBSET (1 .. n - 1)
  BY <1>2, <1>7
<1>10. ASSUME NEW i \in 1 .. n - 1
       PROVE  i \in S' <=> /\ i \in Posts /\ Deletes(i, n - 1) = {} /\ ~ Drops(e, ok, i) /\ Holds(i)
                           /\ Cardinality(Later(i, n)') < LogCap
  <2>1. \A m : m \in i .. n <=> m \in i .. n - 1 \/ m = n
    BY <1>1
  <2>2. (\A m \in i .. n : Cardinality(Later(i, m)') < LogCap)
          <=> Holds(i) /\ Cardinality(Later(i, n)') < LogCap
    <3>1. \A m \in i .. n - 1 : Later(i, m)' = Later(i, m)
      BY <1>3
    <3>. QED BY <2>1, <3>1
  <2>3. Deletes(i, n)' = {} <=> Deletes(i, n - 1) = {} /\ ~ Drops(e, ok, i)
    BY <1>3
  <2>4. i \in Posts' <=> i \in Posts
    BY <1>1, <1>2
  <2>. QED BY <1>8, <2>2, <2>3, <2>4
<1>11. n \in S' <=> Posted(e, ok)
  <2>1. \A m \in n .. n : m = n
    BY <1>1
  <2>2. Cardinality({}) < LogCap
    BY FS_EmptySet, LogCapAssumption
  <2>3. n \in Posts' <=> Posted(e, ok)
    BY <1>1, <1>2
  <2>. QED BY <1>2, <1>8, <2>1, <2>2, <2>3
<1>12. S' \subseteq (1 .. n - 1) \cup {n}
  BY <1>2, <1>8
<1>13. ASSUME NEW i \in S PROVE Later(i, n - 1) = After(S, i)
  <2>1. ASSUME NEW j \in Later(i, n - 1) PROVE j \in After(S, i)
    <3>1. j \in Posts /\ i < j /\ j <= n - 1 /\ Deletes(j, n - 1) = {}
      BY DEF Later
    <3>2. i \in 1 .. n - 1 /\ j \in 1 .. n - 1
      BY <1>2, <1>9, <3>1
    <3>3. ASSUME NEW m \in j .. n - 1 PROVE Cardinality(Later(j, m)) < LogCap
      <4>1. m \in i .. n - 1
        BY <3>1, <3>2
      <4>2. Cardinality(Later(i, m)) < LogCap
        BY <1>7, <4>1
      <4>3. Later(j, m) \in SUBSET Later(i, m)
        <5>1. \A l \in Posts : j < l => i < l
          BY <1>2, <3>1, <3>2
        <5>. QED BY <5>1 DEF Later
      <4>4. Cardinality(Later(j, m)) <= Cardinality(Later(i, m))
        BY <1>4, <1>6, <4>3
      <4>5. Cardinality(Later(j, m)) \in Nat /\ Cardinality(Later(i, m)) \in Nat
        BY <1>4, <1>5
      <4>. QED BY <4>2, <4>4, <4>5, LogCapAssumption
    <3>. QED BY <1>7, <3>1, <3>3 DEF After
  <2>2. ASSUME NEW j \in After(S, i) PROVE j \in Later(i, n - 1)
    <3>1. j \in S /\ i < j /\ j \in Posts /\ Deletes(j, n - 1) = {}
      BY <1>7 DEF After
    <3>2. j <= n - 1
      BY <1>1, <1>9, <3>1
    <3>. QED BY <3>1, <3>2 DEF Later
  <2>. QED BY <2>1, <2>2
<1>14. ASSUME NEW i \in S PROVE i \in 1 .. n - 1 /\ Cardinality(Later(i, n - 1)) < LogCap /\ Holds(i)
  <2>1. i \in 1 .. n - 1 /\ n - 1 \in i .. n - 1
    BY <1>1, <1>9
  <2>. QED BY <1>7, <2>1
<1>. HIDE DEF S, Holds
<1>15. CASE Posted(e, ok)
  <2>1. \A i : ~ Drops(e, ok, i)
    BY <1>15 DEF Posted, Drops
  <2>2. ASSUME NEW i \in 1 .. n - 1
        PROVE  i \in S' <=> i \in S /\ Cardinality(After(S, i)) + 1 < LogCap
    <3>1. CASE i \in S
      <4>1. Later(i, n)' = After(S, i) \cup {n} /\ After(S, i) \in SUBSET (1 .. n - 1)
        BY <1>3, <1>4, <1>13, <1>15, <3>1
      <4>2. Cardinality(Later(i, n)') = Cardinality(After(S, i)) + 1
        BY <1>5, <4>1
      <4>3. i \in Posts /\ Deletes(i, n - 1) = {} /\ Holds(i)
        BY <1>7, <3>1
      <4>. QED BY <1>10, <2>1, <3>1, <4>2, <4>3
    <3>2. CASE i \notin S
      BY <1>7, <1>10, <3>2
    <3>. QED BY <3>1, <3>2
  <2>3. S' = {i \in S : Cardinality(After(S, i)) + 1 < LogCap} \cup {n}
    <3>1. n \in S'
      BY <1>11, <1>15
    <3>. QED BY <1>9, <1>12, <2>2, <3>1
  <2>. QED BY <1>9, <1>15, <2>3 DEF S
<1>16. CASE ~ Posted(e, ok)
  <2>2. ASSUME NEW i \in 1 .. n - 1
        PROVE  i \in S' <=> i \in S /\ ~ Drops(e, ok, i)
    <3>1. CASE i \in S
      <4>1. Later(i, n)' \in SUBSET Later(i, n - 1)
        BY <1>3, <1>16
      <4>2. /\ Cardinality(Later(i, n)') <= Cardinality(Later(i, n - 1))
            /\ Later(i, n)' \in SUBSET (1 .. n - 1)
        BY <1>4, <1>6, <4>1
      <4>3. Cardinality(Later(i, n)') \in Nat /\ Cardinality(Later(i, n - 1)) \in Nat
        BY <1>4, <1>5, <4>2
      <4>4. Cardinality(Later(i, n)') < LogCap
        BY <1>14, <3>1, <4>2, <4>3, LogCapAssumption
      <4>5. i \in Posts /\ Deletes(i, n - 1) = {} /\ Holds(i)
        BY <1>7, <3>1
      <4>. QED BY <1>10, <3>1, <4>4, <4>5
    <3>2. CASE i \notin S
      BY <1>7, <1>10, <3>2
    <3>. QED BY <3>1, <3>2
  <2>3. S' = {i \in S : ~ Drops(e, ok, i)}
    <3>1. n \notin S'
      BY <1>11, <1>16
    <3>. QED BY <1>9, <1>12, <2>2, <3>1
  <2>. QED BY <1>9, <1>16, <2>3 DEF S
<1>. QED BY <1>15, <1>16

(* An entry of the list, for the message posted at i.                         *)
Edits(i) == With(After(Of({"msg_edited"}), i), "id", {IdOf(i)})
Alone(i) == \A j \in Posts \ {i} : IdOf(j) # IdOf(i)
Text(i) == Val(Newest({i} \cup Edits(i)), "text")

EntryIs(x, i) ==
  /\ DOMAIN x = {"id", "user", "text", "postedAt", "edited"}
  /\ x.id = IdOf(i) /\ x.postedAt = At(i)
  /\ Alone(i) => (x.edited <=> Edits(i) # {}) /\ x.text = Text(i)

Hits(e, ok, i) == ok /\ e.type = "msg_edited" /\ Str(e, "id") = IdOf(i)

(* What it does to the edits of a message.                                    *)
LEMMA EditsStep ==
  ASSUME NEW n, NEW e, NEW ok, Extends(n, e, ok)
  PROVE  /\ \A i \in 1 .. n - 1 :
              /\ Edits(i) \in SUBSET (1 .. n - 1)
              /\ Edits(i)' = IF Hits(e, ok, i) THEN Edits(i) \cup {n} ELSE Edits(i)
              /\ Alone(i)' => Alone(i)
         /\ Edits(n)' = {}
<1>. DEFINE E == Of({"msg_edited"})
<1>1. n \in Nat \ {0} /\ ok \in BOOLEAN
  BY Earlier DEF Extends
<1>2. E \in SUBSET (1 .. n - 1) /\ E' = IF ok /\ e.type = "msg_edited" THEN E \cup {n} ELSE E
  BY OfOne
<1>3. Val(n, "id")' = Str(e, "id") /\ \A i \in 1 .. n - 1 : Val(i, "id")' = Val(i, "id")
  BY AtStep
<1>4. /\ \A i \in 1 .. n - 1 : IdOf(i)' = IdOf(i)
      /\ Posts \in SUBSET (1 .. n - 1) /\ Posts \subseteq Posts'
  BY LaterStep
<1>5. /\ \A i : Edits(i) = {j \in E : i < j /\ Val(j, "id") = IdOf(i)}
      /\ \A i : Edits(i)' = {j \in E' : i < j /\ Val(j, "id")' = IdOf(i)'}
  BY DEF Edits, With, After
<1>. HIDE DEF E
<1>6. ASSUME NEW i \in 1 .. n - 1
      PROVE  /\ Edits(i) \in SUBSET (1 .. n - 1)
             /\ Edits(i)' = IF Hits(e, ok, i) THEN Edits(i) \cup {n} ELSE Edits(i)
  <2>1. i < n
    BY <1>1
  <2>2. Edits(i)' = {j \in E' : i < j /\ Val(j, "id")' = IdOf(i)}
    BY <1>4, <1>5
  <2>3. Edits(i) = {j \in E : i < j /\ Val(j, "id") = IdOf(i)}
    BY <1>5
  <2>4. \A j \in E : Val(j, "id")' = Val(j, "id")
    BY <1>2, <1>3
  <2>5. CASE ok /\ e.type = "msg_edited"
    <3>1. Edits(i)' = {j \in E \cup {n} : i < j /\ Val(j, "id")' = IdOf(i)}
      BY <1>2, <2>2, <2>5
    <3>. QED BY <1>2, <1>3, <2>1, <2>3, <2>4, <2>5, <3>1 DEF Hits
  <2>6. CASE ~ (ok /\ e.type = "msg_edited")
    BY <1>2, <2>2, <2>3, <2>4, <2>6 DEF Hits
  <2>. QED BY <2>5, <2>6
<1>7. ASSUME NEW i \in 1 .. n - 1 PROVE Alone(i)' => Alone(i)
  <2>1. Alone(i)' <=> \A j \in Posts' \ {i} : IdOf(j)' # IdOf(i)'
    BY DEF Alone
  <2>. QED BY <1>4, <2>1 DEF Alone
<1>8. Edits(n)' = {}
  <2>1. \A j \in E' : ~ (n < j)
    BY <1>1, <1>2
  <2>. QED BY <1>5, <2>1
<1>. QED BY <1>6, <1>7, <1>8

(* The entries that the event leaves alone, the one it posts, the one it      *)
(* edits.                                                                     *)
LEMMA EntrySteps ==
  ASSUME NEW n, NEW e, NEW ok, Extends(n, e, ok)
  PROVE  /\ \A x : \A i \in 1 .. n - 1 :
              EntryIs(x, i) /\ (~ Hits(e, ok, i) \/ ~ Alone(i)') => EntryIs(x, i)'
         /\ EntryIs(Message(e), n)'
         /\ \A x : \A i \in 1 .. n - 1 :
              EntryIs(x, i) /\ Hits(e, ok, i) =>
                EntryIs([x EXCEPT !.text = Str(e, "text"), !.edited = TRUE], i)'
<1>1. n \in Nat \ {0}
  BY Earlier
<1>2. /\ \A i \in 1 .. n - 1 :
           /\ Edits(i) \in SUBSET (1 .. n - 1)
           /\ Edits(i)' = IF Hits(e, ok, i) THEN Edits(i) \cup {n} ELSE Edits(i)
           /\ Alone(i)' => Alone(i)
      /\ Edits(n)' = {}
  BY EditsStep
<1>3. (\A i \in 1 .. n - 1 : IdOf(i)' = IdOf(i)) /\ IdOf(n)' = Message(e).id
  BY LaterStep
<1>4. /\ At(n)' = e.at /\ \A i \in 1 .. n - 1 : At(i)' = At(i)
      /\ Val(n, "text")' = Str(e, "text") /\ \A i \in 1 .. n - 1 : Val(i, "text")' = Val(i, "text")
  BY AtStep
<1>5. \A y, i : EntryIs(y, i)' <=>
        /\ DOMAIN y = {"id", "user", "text", "postedAt", "edited"}
        /\ y.id = IdOf(i)' /\ y.postedAt = At(i)'
        /\ Alone(i)' => (y.edited <=> Edits(i)' # {}) /\ y.text = Text(i)'
  BY DEF EntryIs
<1>6. ASSUME NEW i \in 1 .. n - 1
      PROVE  Text(i)' = IF Hits(e, ok, i) THEN Str(e, "text") ELSE Text(i)
  <2>. DEFINE F == {i} \cup Edits(i)
  <2>1. F \in SUBSET (1 .. n - 1) /\ F # {}
    BY <1>2
  <2>2. F' = IF Hits(e, ok, i) THEN F \cup {n} ELSE F
    BY <1>2
  <2>3. PICK m : m = Newest(F)'
    OBVIOUS
  <2>4. m = Newest(F') /\ Text(i)' = Val(m, "text")' /\ Text(i) = Val(Newest(F), "text")
    BY <2>3 DEF Text
  <2>. HIDE DEF F
  <2>5. Newest(F \cup {n}) = n /\ Newest(F) \in 1 .. n - 1
    BY <1>1, <2>1, NewestAdd
  <2>6. CASE Hits(e, ok, i)
    BY <1>4, <2>2, <2>4, <2>5, <2>6
  <2>7. CASE ~ Hits(e, ok, i)
    BY <1>4, <2>2, <2>4, <2>5, <2>7
  <2>. QED BY <2>6, <2>7
<1>7. ASSUME NEW x, NEW i \in 1 .. n - 1, EntryIs(x, i), ~ Hits(e, ok, i) \/ ~ Alone(i)'
      PROVE  EntryIs(x, i)'
  <2>1. /\ DOMAIN x = {"id", "user", "text", "postedAt", "edited"}
        /\ x.id = IdOf(i)' /\ x.postedAt = At(i)'
    BY <1>3, <1>4, <1>7 DEF EntryIs
  <2>2. ASSUME Alone(i)' PROVE (x.edited <=> Edits(i)' # {}) /\ x.text = Text(i)'
    <3>1. Alone(i) /\ Edits(i)' = Edits(i) /\ Text(i)' = Text(i)
      BY <1>2, <1>6, <1>7, <2>2
    <3>2. (x.edited <=> Edits(i) # {}) /\ x.text = Text(i)
      BY <1>7, <3>1 DEF EntryIs
    <3>. QED BY <3>1, <3>2
  <2>. QED BY <1>5, <2>1, <2>2
<1>8. EntryIs(Message(e), n)'
  <2>. DEFINE y == Message(e)
  <2>1. /\ DOMAIN y = {"id", "user", "text", "postedAt", "edited"}
        /\ y.postedAt = e.at /\ y.edited = FALSE /\ y.text = Str(e, "text")
    BY DEF Message
  <2>2. Text(n)' = Str(e, "text")
    <3>1. PICK m : m = Newest({n} \cup Edits(n))'
      OBVIOUS
    <3>2. m = Newest({n} \cup Edits(n)') /\ Text(n)' = Val(m, "text")'
      BY <3>1 DEF Text
    <3>3. {n} \cup Edits(n)' = {} \cup {n}
      BY <1>2
    <3>4. Newest({} \cup {n}) = n
      BY <1>1, NewestAdd
    <3>. QED BY <1>4, <3>2, <3>3, <3>4
  <2>3. y.id = IdOf(n)'
    BY <1>3
  <2>. HIDE DEF y
  <2>4. y.edited <=> Edits(n)' # {}
    BY <1>2, <2>1
  <2>5. EntryIs(y, n)'
    BY <1>4, <1>5, <2>1, <2>2, <2>3, <2>4
  <2>. QED BY <2>5 DEF y
<1>9. ASSUME NEW x, NEW i \in 1 .. n - 1, EntryIs(x, i), Hits(e, ok, i)
      PROVE  EntryIs([x EXCEPT !.text = Str(e, "text"), !.edited = TRUE], i)'
  <2>. DEFINE y == [x EXCEPT !.text = Str(e, "text"), !.edited = TRUE]
  <2>1. /\ DOMAIN y = {"id", "user", "text", "postedAt", "edited"}
        /\ y.id = x.id /\ y.postedAt = x.postedAt /\ y.edited = TRUE /\ y.text = Str(e, "text")
    BY <1>9 DEF EntryIs
  <2>2. x.id = IdOf(i)' /\ x.postedAt = At(i)'
    BY <1>3, <1>4, <1>9 DEF EntryIs
  <2>3. Edits(i)' # {} /\ Text(i)' = Str(e, "text")
    BY <1>2, <1>6, <1>9
  <2>. HIDE DEF y
  <2>4. y.edited <=> Edits(i)' # {}
    BY <2>1, <2>3
  <2>5. EntryIs(y, i)'
    BY <1>5, <2>1, <2>2, <2>3, <2>4
  <2>. QED BY <2>5 DEF y
<1>. QED BY <1>7, <1>8, <1>9

(* The list shows what is shown, oldest first.                                *)
RecentIs(xs) ==
  \E ix : /\ \E X : xs \in Seq(X)
          /\ Len(xs) <= LogCap
          /\ Enumerates(ix, Len(xs), Shown)
          /\ \A j \in 1 .. Len(xs) : EntryIs(xs[j], ix[j])

(* RecentIs in the next state.                                                *)
LEMMA RecentNow ==
  ASSUME NEW ys, NEW iy, NEW U, ys \in Seq(U), Len(ys) <= LogCap,
         Enumerates(iy, Len(ys), Shown'),
         \A j \in 1 .. Len(ys) : EntryIs(ys[j], iy[j])'
  PROVE  RecentIs(ys)'
<1>1. RecentIs(ys)' <=>
        \E ix : /\ \E X : ys \in Seq(X)
                /\ Len(ys) <= LogCap
                /\ Enumerates(ix, Len(ys), Shown')
                /\ \A j \in 1 .. Len(ys) : EntryIs(ys[j], ix[j])'
  BY DEF RecentIs, Enumerates
<1>. QED BY <1>1

(* A message is posted: the oldest one is pushed out at the cap.              *)
LEMMA RecentPost ==
  ASSUME NEW n, NEW e, NEW ok, Extends(n, e, ok), NEW xs, RecentIs(xs), Posted(e, ok)
  PROVE  RecentIs(Capped(Append(xs, Message(e))))'
<1>1. PICK ix : /\ \E X : xs \in Seq(X)
                /\ Len(xs) <= LogCap
                /\ Enumerates(ix, Len(xs), Shown)
                /\ \A j \in 1 .. Len(xs) : EntryIs(xs[j], ix[j])
  BY DEF RecentIs
<1>2. PICK X : xs \in Seq(X)
  BY <1>1
<1>3. PICK y : y = Message(e)
  OBVIOUS
<1>. DEFINE U == X \cup {y}
            m == Len(xs)
            ys == Capped(Append(xs, y))
            k == Len(ys)
            drop == m + 1 - k
            iy == [j \in 1 .. k |-> IF j < k THEN ix[j + drop] ELSE n]
            S == Shown
<1>4. xs \in Seq(U) /\ y \in U /\ m \in Nat
  BY <1>2, LenProperties
<1>. HIDE DEF U
<1>5. /\ ys \in Seq(U) /\ k = (IF m < LogCap THEN m + 1 ELSE LogCap) /\ ys[k] = y
      /\ \A d \in 0 .. k - 2 : ys[k - (d + 1)] = xs[m - d]
  BY <1>1, <1>4, CappedAppend
<1>. HIDE DEF ys
<1>6. /\ k \in Nat \ {0} /\ k <= LogCap /\ drop \in {0, 1}
      /\ drop = 0 => m < LogCap
      /\ drop = 1 => m = LogCap
  BY <1>1, <1>4, <1>5, LogCapAssumption
<1>7. \A j \in 1 .. k : j < k => j + drop \in 1 .. m /\ j + drop > drop /\ ys[j] = xs[j + drop]
  <2>1. SUFFICES ASSUME NEW j \in 1 .. k, j < k
                 PROVE  j + drop \in 1 .. m /\ j + drop > drop /\ ys[j] = xs[j + drop]
    OBVIOUS
  <2>2. k - j - 1 \in 0 .. k - 2 /\ k - ((k - j - 1) + 1) = j /\ m - (k - j - 1) = j + drop
    BY <1>4, <1>6, <2>1
  <2>3. ys[k - ((k - j - 1) + 1)] = xs[m - (k - j - 1)]
    BY <1>5, <2>2
  <2>4. j + drop \in 1 .. m /\ j + drop > drop
    BY <1>4, <1>6, <2>1
  <2>. QED BY <2>2, <2>3, <2>4
<1>8. \A l \in 1 .. m : l > drop => l - drop \in 1 .. k /\ l - drop < k /\ (l - drop) + drop = l
  BY <1>4, <1>6
<1>9. \A j \in 1 .. k : iy[j] = IF j < k THEN ix[j + drop] ELSE n
  OBVIOUS
<1>10. /\ S \in SUBSET (1 .. n - 1)
       /\ S' = {i \in S : Cardinality(After(S, i)) + 1 < LogCap} \cup {n}
  BY ShownStep
<1>11. n \in Nat \ {0}
  BY Earlier
<1>12. /\ \A j \in 1 .. m : ix[j] \in S /\ ix[j] \in 1 .. n - 1
       /\ \A i, j \in 1 .. m : i < j => ix[i] < ix[j]
       /\ \A i \in S : \E j \in 1 .. m : ix[j] = i
  BY <1>1, <1>10 DEF Enumerates
<1>13. \A j \in 1 .. m : Cardinality(After(S, ix[j])) = m - j
  <2>1. S \in SUBSET Nat /\ Enumerates(ix, m, S)
    BY <1>1, <1>10
  <2>2. m \in Nat
    BY <1>4
  <2>. HIDE DEF m, S
  <2>3. /\ Cardinality(S) = m
        /\ \A j \in 1 .. m : /\ Cardinality(Before(S, ix[j])) = j - 1
                             /\ Cardinality(After(S, ix[j])) = m - j
    BY <2>1, <2>2, RankIs
  <2>. QED BY <2>3
<1>. HIDE DEF S, m, k, iy
<1>14. \A l \in 1 .. m : ix[l] \in S' <=> l > drop
  <2>1. SUFFICES ASSUME NEW l \in 1 .. m PROVE ix[l] \in S' <=> l > drop
    OBVIOUS
  <2>2. ix[l] # n /\ ix[l] \in S /\ Cardinality(After(S, ix[l])) = m - l
    BY <1>11, <1>12, <1>13
  <2>3. ix[l] \in S' <=> m - l + 1 < LogCap
    BY <1>10, <2>2
  <2>4. m - l + 1 < LogCap <=> l > drop
    BY <1>4, <1>6, LogCapAssumption
  <2>. QED BY <2>3, <2>4
<1>. HIDE DEF drop
<1>15. Enumerates(iy, k, S')
  <2>1. ASSUME NEW j \in 1 .. k PROVE iy[j] \in S'
    <3>1. CASE j < k
      BY <1>7, <1>9, <1>14, <3>1
    <3>2. CASE ~ (j < k)
      BY <1>9, <1>10, <3>2
    <3>. QED BY <3>1, <3>2
  <2>2. ASSUME NEW i \in 1 .. k, NEW j \in 1 .. k, i < j PROVE iy[i] < iy[j]
    <3>0. i < k
      BY <1>6, <2>2
    <3>1. CASE j < k
      <4>1. i + drop < j + drop
        BY <1>6, <2>2
      <4>. QED BY <1>7, <1>9, <1>12, <3>0, <3>1, <4>1
    <3>2. CASE ~ (j < k)
      <4>1. ix[i + drop] \in 1 .. n - 1
        BY <1>7, <1>12, <3>0
      <4>2. ix[i + drop] < n
        BY <1>11, <4>1
      <4>. QED BY <1>9, <3>0, <3>2, <4>2
    <3>. QED BY <3>1, <3>2
  <2>3. ASSUME NEW i \in S' PROVE \E j \in 1 .. k : iy[j] = i
    <3>1. CASE i = n
      <4>1. k \in 1 .. k /\ ~ (k < k)
        BY <1>6
      <4>. QED BY <1>9, <3>1, <4>1
    <3>2. CASE i # n
      <4>1. PICK l \in 1 .. m : ix[l] = i
        BY <1>10, <1>12, <3>2
      <4>2. l > drop
        BY <1>14, <4>1
      <4>3. l - drop \in 1 .. k /\ iy[l - drop] = ix[l]
        BY <1>8, <1>9, <4>2
      <4>. QED BY <4>1, <4>3
    <3>. QED BY <3>1, <3>2
  <2>. QED BY <2>1, <2>2, <2>3 DEF Enumerates
<1>16. ASSUME NEW j \in 1 .. k PROVE EntryIs(ys[j], iy[j])'
  <2>1. \A i : ~ Hits(e, ok, i)
    BY DEF Hits, Posted
  <2>2. /\ \A x : \A i \in 1 .. n - 1 :
             EntryIs(x, i) /\ (~ Hits(e, ok, i) \/ ~ Alone(i)') => EntryIs(x, i)'
        /\ EntryIs(Message(e), n)'
    BY EntrySteps
  <2>3. CASE j < k
    <3>1. PICK i : i = ix[j + drop]
      OBVIOUS
    <3>2. PICK x : x = xs[j + drop]
      OBVIOUS
    <3>3. EntryIs(x, i) /\ i \in 1 .. n - 1
      BY <1>1, <1>7, <1>12, <2>3, <3>1, <3>2 DEF m
    <3>4. EntryIs(x, i)'
      BY <2>1, <2>2, <3>3
    <3>5. ys[j] = x /\ iy[j] = i
      BY <1>7, <1>9, <2>3, <3>1, <3>2
    <3>. QED BY <3>4, <3>5
  <2>4. CASE ~ (j < k)
    <3>1. ys[j] = y /\ iy[j] = n
      <4>1. j = k
        BY <1>6, <2>4
      <4>. QED BY <1>5, <1>9, <2>4, <4>1
    <3>2. EntryIs(y, n)'
      BY <1>3, <2>2
    <3>. QED BY <3>1, <3>2
  <2>. QED BY <2>3, <2>4
<1>17. RecentIs(ys)'
  BY <1>5, <1>6, <1>15, <1>16, RecentNow DEF k, S
<1>. QED BY <1>3, <1>17 DEF ys

(* A message is deleted, with all that bear its id.                           *)
LEMMA RecentDelete ==
  ASSUME NEW n, NEW e, NEW ok, Extends(n, e, ok), NEW xs, RecentIs(xs), ok,
         e.type = "msg_deleted"
  PROVE  RecentIs(Without(xs, {p \in 1 .. Len(xs) : xs[p].id = Str(e, "id")}))'
<1>1. PICK ix : /\ \E X : xs \in Seq(X)
                /\ Len(xs) <= LogCap
                /\ Enumerates(ix, Len(xs), Shown)
                /\ \A j \in 1 .. Len(xs) : EntryIs(xs[j], ix[j])
  BY DEF RecentIs
<1>2. PICK X : xs \in Seq(X)
  BY <1>1
<1>. DEFINE gone == {p \in 1 .. Len(xs) : xs[p].id = Str(e, "id")}
            m == Len(xs)
            ys == Without(xs, gone)
            k == Len(ys)
            S == Shown
<1>3. ys \in Seq(X) /\ \E iz : IsKept(xs, gone, m, ys, iz)
  <2>. HIDE DEF gone
  <2>. QED BY <1>2, WithoutIs
<1>4. PICK iz : IsKept(xs, gone, m, ys, iz)
  BY <1>3
<1>. DEFINE iy == [j \in 1 .. k |-> ix[iz[j]]]
<1>5. S \in SUBSET (1 .. n - 1) /\ S' = {i \in S : ~ Drops(e, ok, i)}
  BY ShownStep DEF Posted
<1>6. n \in Nat \ {0} /\ m \in Nat /\ k \in Nat
  BY <1>2, <1>3, Earlier, LenProperties
<1>7. \A j \in 1 .. k : iy[j] = ix[iz[j]]
  OBVIOUS
<1>8. \A p \in 1 .. m : xs[p].id = IdOf(ix[p])
  BY <1>1 DEF EntryIs
<1>9. /\ \A p \in (1 .. m) \ gone : p \in 1 .. m /\ xs[p].id # Str(e, "id")
      /\ \A p \in 1 .. m : xs[p].id # Str(e, "id") => p \in (1 .. m) \ gone
  OBVIOUS
<1>. HIDE DEF gone, ys, iy, S, m, k
<1>10. /\ \A j \in 1 .. m : ix[j] \in S /\ ix[j] \in 1 .. n - 1
       /\ \A i, j \in 1 .. m : i < j => ix[i] < ix[j]
       /\ \A i \in S : \E j \in 1 .. m : ix[j] = i
  BY <1>1, <1>5 DEF Enumerates, m, S
<1>11. /\ \A j \in 1 .. k : iz[j] \in (1 .. m) \ gone /\ ys[j] = xs[iz[j]]
       /\ \A i, j \in 1 .. k : i < j => iz[i] < iz[j]
       /\ \A p \in (1 .. m) \ gone : \E j \in 1 .. k : iz[j] = p
  BY <1>4 DEF IsKept, k
<1>12. \A p \in 1 .. m : ix[p] \in S' <=> xs[p].id # Str(e, "id")
  BY <1>5, <1>8, <1>10 DEF Drops
<1>13. Enumerates(iy, k, S')
  <2>1. \A j \in 1 .. k : iy[j] \in S'
    BY <1>7, <1>9, <1>11, <1>12
  <2>2. \A i, j \in 1 .. k : i < j => iy[i] < iy[j]
    BY <1>7, <1>9, <1>10, <1>11
  <2>3. ASSUME NEW i \in S' PROVE \E j \in 1 .. k : iy[j] = i
    <3>1. PICK p \in 1 .. m : ix[p] = i
      BY <1>5, <1>10
    <3>2. PICK j \in 1 .. k : iz[j] = p
      BY <1>9, <1>11, <1>12, <3>1
    <3>. QED BY <1>7, <3>1, <3>2
  <2>. QED BY <2>1, <2>2, <2>3 DEF Enumerates
<1>14. k <= LogCap
  <2>1. S' \in SUBSET S /\ S' \in SUBSET (1 .. n - 1)
    BY <1>5
  <2>2. PICK T : T = S'
    OBVIOUS
  <2>3. Cardinality(T) = k
    <3>1. T \in SUBSET Nat /\ Enumerates(iy, k, T)
      BY <1>13, <2>1, <2>2
    <3>. QED BY <1>6, <3>1, RankIs
  <2>4. Cardinality(S) = m
    <3>1. S \in SUBSET Nat /\ Enumerates(ix, m, S)
      BY <1>1, <1>5 DEF m, S
    <3>. QED BY <1>6, <3>1, RankIs
  <2>5. Cardinality(T) <= Cardinality(S)
    <3>1. IsFiniteSet(S)
      BY <1>5, <1>6, CountAdd
    <3>. QED BY <2>1, <2>2, <3>1, FS_Subset
  <2>6. m <= LogCap
    BY <1>1 DEF m
  <2>. QED BY <1>6, <2>3, <2>4, <2>5, <2>6, LogCapAssumption
<1>15. ASSUME NEW j \in 1 .. k PROVE EntryIs(ys[j], iy[j])'
  <2>1. \A i : ~ Hits(e, ok, i)
    BY DEF Hits
  <2>2. \A x : \A i \in 1 .. n - 1 :
          EntryIs(x, i) /\ (~ Hits(e, ok, i) \/ ~ Alone(i)') => EntryIs(x, i)'
    BY EntrySteps
  <2>3. PICK i : i = ix[iz[j]]
    OBVIOUS
  <2>4. PICK x : x = xs[iz[j]]
    OBVIOUS
  <2>5. EntryIs(x, i) /\ i \in 1 .. n - 1
    BY <1>1, <1>9, <1>10, <1>11, <2>3, <2>4 DEF m
  <2>6. EntryIs(x, i)'
    BY <2>1, <2>2, <2>5
  <2>7. ys[j] = x /\ iy[j] = i
    BY <1>7, <1>11, <2>3, <2>4
  <2>. QED BY <2>6, <2>7
<1>16. RecentIs(ys)'
  BY <1>3, <1>13, <1>14, <1>15, RecentNow DEF k, S
<1>. QED BY <1>16 DEF ys, gone

(* A message is edited: the first that bears the id.                          *)
LEMMA RecentEdit ==
  ASSUME NEW n, NEW e, NEW ok, Extends(n, e, ok), NEW xs, RecentIs(xs), ok,
         e.type = "msg_edited"
  PROVE  RecentIs(Edit(xs, Str(e, "id"), Str(e, "text")))'
<1>1. PICK ix : /\ \E X : xs \in Seq(X)
                /\ Len(xs) <= LogCap
                /\ Enumerates(ix, Len(xs), Shown)
                /\ \A j \in 1 .. Len(xs) : EntryIs(xs[j], ix[j])
  BY DEF RecentIs
<1>2. PICK X : xs \in Seq(X)
  BY <1>1
<1>3. PICK id, text : id = Str(e, "id") /\ text = Str(e, "text")
  OBVIOUS
<1>. DEFINE m == Len(xs)
            same == {p \in 1 .. m : xs[p].id = id}
            ys == Edit(xs, id, text)
            S == Shown
<1>4. n \in Nat \ {0} /\ m \in Nat /\ DOMAIN xs = 1 .. m
  BY <1>2, Earlier, LenProperties
<1>5. S \in SUBSET (1 .. n - 1) /\ S' = S
  <2>1. S \in SUBSET (1 .. n - 1) /\ S' = {i \in S : ~ Drops(e, ok, i)}
    BY ShownStep DEF Posted
  <2>2. \A i : ~ Drops(e, ok, i)
    BY DEF Drops
  <2>. HIDE DEF S
  <2>. QED BY <2>1, <2>2
<1>6. /\ \A j \in 1 .. m : ix[j] \in S /\ ix[j] \in 1 .. n - 1
      /\ \A i, j \in 1 .. m : i < j => ix[i] < ix[j]
      /\ \A j \in 1 .. m : EntryIs(xs[j], ix[j])
  BY <1>1, <1>5 DEF Enumerates
<1>7. \A p \in 1 .. m : xs[p].id = IdOf(ix[p])
  BY <1>6 DEF EntryIs
<1>8. S \subseteq Posts'
  BY <1>5 DEF Shown
<1>9. /\ \A x : \A i \in 1 .. n - 1 :
           EntryIs(x, i) /\ (~ Hits(e, ok, i) \/ ~ Alone(i)') => EntryIs(x, i)'
      /\ \A x : \A i \in 1 .. n - 1 :
           EntryIs(x, i) /\ Hits(e, ok, i) =>
             EntryIs([x EXCEPT !.text = text, !.edited = TRUE], i)'
  BY <1>3, EntrySteps
<1>10. \A i : Hits(e, ok, i) <=> id = IdOf(i)
  BY <1>3 DEF Hits
<1>11. \A i \in 1 .. n - 1 : IdOf(i)' = IdOf(i)
  BY LaterStep
<1>. HIDE DEF S
<1>12. CASE same = {}
  <2>1. ys = xs
    BY <1>12 DEF Edit
  <2>2. ASSUME NEW j \in 1 .. m PROVE EntryIs(xs[j], ix[j])'
    <3>1. PICK i : i = ix[j]
      OBVIOUS
    <3>2. PICK x : x = xs[j]
      OBVIOUS
    <3>3. EntryIs(x, i) /\ i \in 1 .. n - 1 /\ ~ Hits(e, ok, i)
      BY <1>6, <1>7, <1>10, <1>12, <3>1, <3>2
    <3>4. EntryIs(x, i)'
      BY <1>9, <3>3
    <3>. QED BY <3>1, <3>2, <3>4
  <2>. HIDE DEF ys
  <2>3. RecentIs(xs)'
    BY <1>1, <1>2, <1>5, <2>2, RecentNow DEF S
  <2>. QED BY <1>3, <2>1, <2>3 DEF ys
<1>13. CASE same # {}
  <2>. DEFINE k == Min(same)
              y == [xs[k] EXCEPT !.text = text, !.edited = TRUE]
              U == X \cup {y}
  <2>1. k \in 1 .. m /\ xs[k].id = id
    <3>1. m + 1 \in Nat \ {0} /\ same \in SUBSET (1 .. (m + 1) - 1)
      BY <1>4
    <3>. HIDE DEF same
    <3>2. k \in same
      BY <1>13, <3>1, MinAdd
    <3>. QED BY <3>2 DEF same
  <2>2. ys = [xs EXCEPT ![k].text = text, ![k].edited = TRUE]
    BY <1>13 DEF Edit
  <2>. HIDE DEF ys, k, same
  <2>3. /\ DOMAIN ys = 1 .. m
        /\ ys[k] = y
        /\ \A j \in 1 .. m : j # k => ys[j] = xs[j]
    BY <1>4, <2>1, <2>2
  <2>. HIDE DEF y
  <2>4. ys \in Seq(U) /\ Len(ys) = m
    <3>0. ys = [j \in 1 .. m |-> ys[j]]
      BY <1>4, <2>1, <2>2, <2>3
    <3>1. \A j \in 1 .. m : xs[j] \in X
      BY <1>2, <1>4, ElementOfSeq
    <3>2. \A j \in 1 .. m : ys[j] \in U
      BY <2>3, <3>1
    <3>. HIDE DEF U
    <3>3. ys \in [1 .. m -> U]
      BY <3>0, <3>2
    <3>. QED BY <1>4, <3>3, SeqDef, LenProperties
  <2>5. ASSUME NEW j \in 1 .. m PROVE EntryIs(ys[j], ix[j])'
    <3>1. PICK i : i = ix[j]
      OBVIOUS
    <3>2. PICK x : x = xs[j]
      OBVIOUS
    <3>3. EntryIs(x, i) /\ i \in 1 .. n - 1
      BY <1>6, <3>1, <3>2
    <3>4. CASE j = k
      <4>1. Hits(e, ok, i)
        BY <1>7, <1>10, <2>1, <3>1, <3>4
      <4>2. EntryIs([x EXCEPT !.text = text, !.edited = TRUE], i)'
        BY <1>9, <3>3, <4>1
      <4>3. ys[j] = [x EXCEPT !.text = text, !.edited = TRUE]
        BY <2>3, <3>2, <3>4 DEF y
      <4>. QED BY <3>1, <4>2, <4>3
    <3>5. CASE j # k
      <4>1. ~ Hits(e, ok, i) \/ ~ Alone(i)'
        <5>1. SUFFICES ASSUME Hits(e, ok, i) PROVE ~ Alone(i)'
          OBVIOUS
        <5>2. PICK l : l = ix[k]
          OBVIOUS
        <5>3. /\ l \in S /\ l \in 1 .. n - 1 /\ l # i /\ i \in 1 .. n - 1
              /\ IdOf(l) = IdOf(i)
          <6>1. l \in S /\ l \in 1 .. n - 1 /\ i \in 1 .. n - 1
            BY <1>6, <2>1, <3>1, <5>2
          <6>2. l # i
            <7>1. j < k \/ k < j
              BY <1>4, <2>1, <3>5
            <7>2. l < i \/ i < l
              BY <1>6, <2>1, <3>1, <5>2, <7>1
            <7>. QED BY <6>1, <7>2
          <6>3. IdOf(l) = IdOf(i)
            BY <1>7, <1>10, <2>1, <5>1, <5>2
          <6>. QED BY <6>1, <6>2, <6>3
        <5>4. Alone(i)' => IdOf(l)' # IdOf(i)'
          BY <1>8, <5>3 DEF Alone
        <5>. QED BY <1>11, <5>3, <5>4
      <4>2. EntryIs(x, i)'
        BY <1>9, <3>3, <4>1
      <4>3. ys[j] = x
        BY <2>3, <3>2, <3>5
      <4>. QED BY <3>1, <4>2, <4>3
    <3>. QED BY <3>4, <3>5
  <2>6. RecentIs(ys)'
    BY <1>1, <1>5, <2>4, <2>5, RecentNow DEF S
  <2>. QED BY <1>3, <2>6 DEF ys
<1>. QED BY <1>12, <1>13

(* Other events leave the list as it is.                                      *)
LEMMA RecentSame ==
  ASSUME NEW n, NEW e, NEW ok, Extends(n, e, ok), NEW xs, RecentIs(xs),
         ~ ok \/ e.type \notin {"msg_posted", "msg_edited", "msg_deleted"}
  PROVE  RecentIs(xs)'
<1>1. PICK ix : /\ \E X : xs \in Seq(X)
                /\ Len(xs) <= LogCap
                /\ Enumerates(ix, Len(xs), Shown)
                /\ \A j \in 1 .. Len(xs) : EntryIs(xs[j], ix[j])
  BY DEF RecentIs
<1>2. PICK X : xs \in Seq(X)
  BY <1>1
<1>. DEFINE S == Shown
<1>3. (\A i : ~ Hits(e, ok, i) /\ ~ Drops(e, ok, i)) /\ ~ Posted(e, ok)
  BY DEF Hits, Drops, Posted
<1>4. S \in SUBSET (1 .. n - 1) /\ S' = S
  <2>1. S \in SUBSET (1 .. n - 1) /\ S' = {i \in S : ~ Drops(e, ok, i)}
    BY <1>3, ShownStep
  <2>. HIDE DEF S
  <2>. QED BY <1>3, <2>1
<1>5. \A j \in 1 .. Len(xs) : ix[j] \in 1 .. n - 1
  BY <1>1, <1>4 DEF Enumerates
<1>6. \A x : \A i \in 1 .. n - 1 :
        EntryIs(x, i) /\ (~ Hits(e, ok, i) \/ ~ Alone(i)') => EntryIs(x, i)'
  BY EntrySteps
<1>. HIDE DEF S
<1>7. ASSUME NEW j \in 1 .. Len(xs) PROVE EntryIs(xs[j], ix[j])'
  <2>1. PICK i : i = ix[j]
    OBVIOUS
  <2>2. PICK x : x = xs[j]
    OBVIOUS
  <2>3. EntryIs(x, i)'
    BY <1>1, <1>3, <1>5, <1>6, <2>1, <2>2
  <2>. QED BY <2>1, <2>2, <2>3
<1>. QED BY <1>1, <1>2, <1>4, <1>7, RecentNow DEF S

ChatKeys == {"participants", "recent"}

ChatStep(s, e, r) ==
  /\ DOMAIN r = ChatKeys
  /\ r.participants = IF e.type = "user_joined" THEN addUnique(s.participants, Str(e, "user"))
                      ELSE IF e.type = "user_left"
                      THEN removeString(s.participants, Str(e, "user")) ELSE s.participants
  /\ r.recent =
       IF e.type = "msg_posted" THEN Capped(Append(s.recent, Message(e)))
       ELSE IF e.type = "msg_edited" THEN Edit(s.recent, Str(e, "id"), Str(e, "text"))
       ELSE IF e.type = "msg_deleted"
       THEN Without(s.recent, {p \in 1 .. Len(s.recent) : s.recent[p].id = Str(e, "id")})
       ELSE s.recent

(* ChatApply does what ChatStep says.                                         *)
LEMMA ChatFields ==
  ASSUME NEW s, DOMAIN s = ChatKeys, NEW e
  PROVE  ChatStep(s, e, ChatApply(s, e))
<1>. DEFINE r == ChatApply(s, e)
            gone == {p \in 1 .. Len(s.recent) : s.recent[p].id = Str(e, "id")}
<1>. SUFFICES ChatStep(s, e, r)
  OBVIOUS
<1>1. CASE e.type = "user_joined"
  <2>1. r = [s EXCEPT !.participants = addUnique(@, Str(e, "user"))]
    BY <1>1 DEF ChatApply
  <2>. HIDE DEF r
  <2>. QED BY <1>1, <2>1 DEF ChatKeys, ChatStep
<1>2. CASE e.type = "user_left"
  <2>1. r = [s EXCEPT !.participants = removeString(@, Str(e, "user"))]
    BY <1>2 DEF ChatApply
  <2>. HIDE DEF r
  <2>. QED BY <1>2, <2>1 DEF ChatKeys, ChatStep
<1>3. CASE e.type = "msg_posted"
  <2>1. r = [s EXCEPT !.recent = Capped(Append(@, Message(e)))]
    BY <1>3 DEF ChatApply
  <2>. HIDE DEF r
  <2>. QED BY <1>3, <2>1 DEF ChatKeys, ChatStep
<1>4. CASE e.type = "msg_edited"
  <2>1. r = [s EXCEPT !.recent = Edit(@, Str(e, "id"), Str(e, "text"))]
    BY <1>4 DEF ChatApply
  <2>. HIDE DEF r
  <2>. QED BY <1>4, <2>1 DEF ChatKeys, ChatStep
<1>5. CASE e.type = "msg_deleted"
  <2>1. r = [s EXCEPT !.recent = Without(@, gone)]
    BY <1>5 DEF ChatApply
  <2>. HIDE DEF r
  <2>2. DOMAIN r = ChatKeys /\ r.recent = Without(s.recent, gone) /\ r.participants = s.participants
    <3>. HIDE DEF gone
    <3>. QED BY <2>1 DEF ChatKeys
  <2>. QED BY <1>5, <2>2 DEF ChatStep
<1>6. CASE e.type \notin {"user_joined", "user_left", "msg_posted", "msg_edited", "msg_deleted"}
  <2>1. r = s
    BY <1>6 DEF ChatApply
  <2>. HIDE DEF r
  <2>. QED BY <1>6, <2>1 DEF ChatStep
<1>. QED BY <1>1, <1>2, <1>3, <1>4, <1>5, <1>6

(* An inductive invariant of chats.                                           *)
ChatInv == kind = "chat" =>
  /\ DOMAIN Cur = ChatKeys
  /\ RecentIs(Cur.recent)
  /\ Listed(Cur.participants, "user", {"user_joined"}, {"user_left"})

LEMMA ChatInit == Init => ChatInv
<1>1. SUFFICES ASSUME Init, kind = "chat" PROVE ChatInv
  BY DEF ChatInv
<1>2. (\A types : Of(types) = {}) /\ \A types, k, vs : With(Of(types), k, vs) = {}
  BY <1>1, EmptySeq DEF Init, Pos, Of, With
<1>3. Cur = ChatZero
  BY <1>1 DEF Init, Cur, Zero
<1>4. DOMAIN Cur = ChatKeys /\ Cur.recent = <<>> /\ Cur.participants = <<>>
  BY <1>3 DEF ChatZero, ChatKeys
<1>5. <<>> \in Seq({}) /\ Len(<<>>) = 0
  BY EmptySeq
<1>6. RecentIs(<<>>)
  <2>1. Shown = {}
    BY <1>2 DEF Shown, Posts
  <2>2. (\E X : <<>> \in Seq(X)) /\ Len(<<>>) <= LogCap
    BY <1>5, LogCapAssumption
  <2>3. Enumerates(<<>>, Len(<<>>), Shown)
    <3>1. \A j \in 1 .. Len(<<>>) : FALSE
      BY <1>5
    <3>. QED BY <2>1, <3>1 DEF Enumerates
  <2>4. \A j \in 1 .. Len(<<>>) : EntryIs(<<>>[j], <<>>[j])
    BY <1>5
  <2>. QED BY <2>2, <2>3, <2>4 DEF RecentIs
<1>7. Listed(<<>>, "user", {"user_joined"}, {"user_left"})
  <2>. DEFINE at == {"user_joined"}
              rt == {"user_left"}
  <2>1. \A v : Since("user", at, rt, v) = {}
    BY <1>2 DEF Since, After
  <2>. HIDE DEF at, rt
  <2>2. \E X : <<>> \in Seq(X)
    BY <1>5
  <2>3. \A i \in 1 .. Len(<<>>) : FALSE
    BY <1>5
  <2>4. \A v : v # "" /\ Since("user", at, rt, v) # {} => \E i \in 1 .. Len(<<>>) : <<>>[i] = v
    BY <2>1
  <2>5. Listed(<<>>, "user", at, rt)
    BY <2>2, <2>3, <2>4, Zenon DEF Listed
  <2>. QED BY <2>5 DEF at, rt
<1>. QED BY <1>4, <1>6, <1>7 DEF ChatInv

LEMMA ChatNext ==
  ASSUME LogInv, ChatInv, Next PROVE ChatInv'
<1>1. PICK n, e : Takes(n, e) \/ Refuses(n, e)
  BY Steps
<1>2. SUFFICES ASSUME kind = "chat" PROVE ChatInv'
  BY <1>1 DEF ChatInv, Extends, Takes, Refuses
<1>. DEFINE r == ChatApply(Cur, e)
<1>3. PICK s : s = Cur
  OBVIOUS
<1>4. kind' = kind /\ Apply(kind, snap, e) = r
  BY <1>1, <1>2 DEF Extends, Takes, Refuses, Apply, Cur
<1>5. /\ DOMAIN s = ChatKeys
      /\ RecentIs(s.recent)
      /\ Listed(s.participants, "user", {"user_joined"}, {"user_left"})
  BY <1>2, <1>3 DEF ChatInv
<1>6. PICK q : q = ChatApply(s, e)
  OBVIOUS
<1>7. ChatStep(s, e, q) /\ r = q
  BY <1>3, <1>5, <1>6, ChatFields
<1>8. PICK xs, ps : xs = s.recent /\ ps = s.participants
  OBVIOUS
<1>9. RecentIs(xs) /\ Listed(ps, "user", {"user_joined"}, {"user_left"})
  BY <1>5, <1>8
<1>. HIDE DEF r
<1>10. CASE Takes(n, e)
  <2>1. snap' = q /\ snap' # Nil /\ Cur' = q /\ Extends(n, e, TRUE)
    BY <1>4, <1>7, <1>10 DEF Takes, Cur
  <2>2. Listed(q.participants, "user", {"user_joined"}, {"user_left"})'
    <3>. DEFINE ys == IF TRUE /\ e.type = "user_joined" THEN addUnique(ps, Str(e, "user"))
                      ELSE IF TRUE /\ e.type = "user_left"
                      THEN removeString(ps, Str(e, "user")) ELSE ps
    <3>1. "user_joined" # "user_left"
      OBVIOUS
    <3>2. Listed(ys, "user", {"user_joined"}, {"user_left"})'
      BY <1>9, <2>1, <3>1, ListStep
    <3>3. q.participants = ys
      BY <1>7, <1>8 DEF ChatStep
    <3>. HIDE DEF ys
    <3>. QED BY <3>2, <3>3
  <2>3. RecentIs(q.recent)'
    <3>1. CASE e.type = "msg_posted"
      <4>1. Posted(e, TRUE)
        BY <3>1 DEF Posted
      <4>2. RecentIs(Capped(Append(xs, Message(e))))'
        BY <1>9, <2>1, <4>1, RecentPost
      <4>3. q.recent = Capped(Append(xs, Message(e)))
        BY <1>7, <1>8, <3>1 DEF ChatStep
      <4>. QED BY <4>2, <4>3
    <3>2. CASE e.type = "msg_edited"
      <4>1. RecentIs(Edit(xs, Str(e, "id"), Str(e, "text")))'
        BY <1>9, <2>1, <3>2, RecentEdit
      <4>2. q.recent = Edit(xs, Str(e, "id"), Str(e, "text"))
        BY <1>7, <1>8, <3>2 DEF ChatStep
      <4>. QED BY <4>1, <4>2
    <3>3. CASE e.type = "msg_deleted"
      <4>1. RecentIs(Without(xs, {p \in 1 .. Len(xs) : xs[p].id = Str(e, "id")}))'
        BY <1>9, <2>1, <3>3, RecentDelete
      <4>2. q.recent = Without(xs, {p \in 1 .. Len(xs) : xs[p].id = Str(e, "id")})
        BY <1>7, <1>8, <3>3 DEF ChatStep
      <4>. QED BY <4>1, <4>2
    <3>4. CASE e.type \notin {"msg_posted", "msg_edited", "msg_deleted"}
      <4>1. RecentIs(xs)'
        BY <1>9, <2>1, <3>4, RecentSame
      <4>2. q.recent = xs
        BY <1>7, <1>8, <3>4 DEF ChatStep
      <4>. QED BY <4>1, <4>2
    <3>. QED BY <3>1, <3>2, <3>3, <3>4
  <2>4. DOMAIN q = ChatKeys
    BY <1>7 DEF ChatStep
  <2>. QED BY <2>1, <2>2, <2>3, <2>4 DEF ChatInv
<1>11. CASE Refuses(n, e)
  <2>1. Cur' = s /\ Extends(n, e, FALSE)
    BY <1>3, <1>4, <1>11 DEF Refuses, Cur
  <2>2. Listed(ps, "user", {"user_joined"}, {"user_left"})'
    <3>. DEFINE at == {"user_joined"}
                rt == {"user_left"}
    <3>1. Listed(ps, "user", at, rt) /\ ~ (e.type \in at /\ e.type \in rt)
      BY <1>9
    <3>. HIDE DEF at, rt
    <3>2. Listed(ps, "user", at, rt)'
      BY <2>1, <3>1, ListSame
    <3>. QED BY <3>2 DEF at, rt
  <2>3. RecentIs(xs)'
    BY <1>9, <2>1, RecentSame
  <2>. QED BY <1>5, <1>8, <2>1, <2>2, <2>3 DEF ChatInv
<1>. QED BY <1>1, <1>10, <1>11

(* For any cap, a chat's snapshot shows the newest messages that were not     *)
(* deleted since and that no cap has pushed out, oldest first, with the text  *)
(* of the last edit where no other message bears the id, and the users that   *)
(* joined and have not left, each once (chat.go:43-83).                       *)
THEOREM ChatsAreTold == Spec => []ChatSnapshot
<1>1. Init => LogInv /\ ChatInv
  BY DeployInit, ChatInit
<1>2. LogInv /\ ChatInv /\ [Next]_vars => LogInv' /\ ChatInv'
  <2>1. SUFFICES ASSUME LogInv, ChatInv, [Next]_vars PROVE LogInv' /\ ChatInv'
    OBVIOUS
  <2>2. CASE Next
    BY <2>1, <2>2, LogNext, ChatNext
  <2>3. CASE UNCHANGED vars
    <3>1. LogInv'
      BY <2>1, <2>3 DEF vars, LogInv, Pos
    <3>2. ChatInv' <=> ChatInv
      BY <2>3 DEF vars, ChatInv, Cur, RecentIs, EntryIs, Text, Edits, Alone, Shown, Later, Deletes,
                  IdOf, Posts, Listed, Since, Newest, After, With, Of, Pos, Val, At, Enumerates
    <3>. QED BY <2>1, <3>1, <3>2
  <2>. QED BY <2>1, <2>2, <2>3
<1>3. LogInv /\ ChatInv => ChatSnapshot
  <2>1. SUFFICES ASSUME LogInv, ChatInv, kind = "chat", snap # Nil PROVE ChatSnapshot
    BY DEF ChatSnapshot, Is
  <2>2. RecentIs(snap.recent) /\ Listed(snap.participants, "user", {"user_joined"}, {"user_left"})
    BY <2>1 DEF ChatInv, Cur
  <2>3. Lists(snap.participants, "user", Of({"user_joined"}), Of({"user_left"}))
    BY <2>2, ListedLists
  <2>. DEFINE xs == snap.recent
              S == Shown
  <2>4. PICK ix : /\ \E X : xs \in Seq(X)
                  /\ Enumerates(ix, Len(xs), S)
                  /\ \A j \in 1 .. Len(xs) : EntryIs(xs[j], ix[j])
    BY <2>2 DEF RecentIs
  <2>5. Len(xs) \in Nat
    BY <2>4, LenProperties
  <2>6. S \in SUBSET Nat
    BY <2>1, LenProperties DEF LogInv, Shown, Posts, Of, Pos
  <2>. HIDE DEF S, xs
  <2>7. /\ Cardinality(S) = Len(xs)
        /\ \A j \in 1 .. Len(xs) : /\ Cardinality(Before(S, ix[j])) = j - 1
                                   /\ Cardinality(After(S, ix[j])) = Len(xs) - j
    BY <2>4, <2>5, <2>6, RankIs
  <2>8. ASSUME NEW i \in S PROVE EntryIs(xs[Cardinality(Before(S, i)) + 1], i)
    <3>1. PICK j \in 1 .. Len(xs) : ix[j] = i
      BY <2>4 DEF Enumerates
    <3>2. Cardinality(Before(S, i)) + 1 = j
      BY <2>7, <3>1
    <3>. QED BY <2>4, <3>1, <3>2
  <2>9. /\ Len(snap.recent) = Cardinality(Shown)
        /\ \A i \in Shown :
             LET m == snap.recent[Cardinality(Before(Shown, i)) + 1]
             IN  /\ m.id = IdOf(i) /\ m.postedAt = At(i)
                 /\ Alone(i) => (m.edited <=> Edits(i) # {}) /\ m.text = Text(i)
    BY <2>7, <2>8 DEF EntryIs, S, xs
  <2>. QED BY <2>3, <2>9
           DEF ChatSnapshot, Shown, Posts, Later, Deletes, IdOf, Edits, Alone, Text
<1>. QED BY <1>1, <1>2, <1>3, PTL DEF Spec

--------------------------------------------------------------------------------
(* Builds.                                                                    *)
BuildKeys ==
  {"status", "currentStep", "steps", "startedAt", "finishedAt", "durationMs", "stepStarts"}

Took(s, e) ==
  IF StartsOf(s, Str(e, "step")) = {} THEN 0
  ELSE e.at - (CHOOSE x \in StartsOf(s, Str(e, "step")) : TRUE).at

BuildDoes(s, e, r) ==
  LET v == Str(e, "step")
  IN  /\ DOMAIN r = BuildKeys
      /\ r.startedAt = IF e.type = "build_started" THEN e.at ELSE s.startedAt
      /\ r.durationMs = IF e.type = "build_finished" /\ s.startedAt # 0 THEN e.at - s.startedAt
                        ELSE s.durationMs
      /\ r.currentStep = IF e.type = "step_started" THEN v
                         ELSE IF e.type = "step_finished" /\ s.currentStep = v THEN ""
                         ELSE s.currentStep
      /\ r.steps =
           IF e.type = "step_started"
           THEN Append(s.steps, [name |-> v, status |-> "running", durationMs |-> 0])
           ELSE IF e.type = "step_finished" THEN EndStep(s.steps, v, Outcome(e), Took(s, e))
           ELSE s.steps
      /\ \A w : StartsOf(r, w) =
           IF e.type = "step_started" /\ w = v THEN {[name |-> v, at |-> e.at]}
           ELSE IF e.type = "step_finished" /\ w = v THEN {} ELSE StartsOf(s, w)

LEMMA BuildFields ==
  ASSUME NEW s, DOMAIN s = BuildKeys, NEW e
  PROVE  BuildDoes(s, e, BuildApply(s, e))
<1>. DEFINE t == BuildStep(s, e)
            r == BuildApply(s, e)
            v == Str(e, "step")
            dur == Took(s, e)
            start == [name |-> v, at |-> e.at]
            entry == [name |-> v, status |-> "running", durationMs |-> 0]
            out == Outcome(e)
            kept == s.stepStarts \ StartsOf(s, v)
<1>1. r = [status |-> t.status, currentStep |-> t.currentStep, steps |-> t.steps,
           startedAt |-> t.startedAt, finishedAt |-> t.finishedAt, durationMs |-> t.durationMs,
           stepStarts |-> t.stepStarts]
  BY DEF BuildApply, Wire
<1>. SUFFICES BuildDoes(s, e, r)
  OBVIOUS
<1>2. start.name = v
  OBVIOUS
<1>3. \A w : StartsOf(r, w) = {x \in r.stepStarts : x.name = w}
  BY DEF StartsOf
<1>4. \A w : StartsOf(s, w) = {x \in s.stepStarts : x.name = w}
  BY DEF StartsOf
<1>5. CASE e.type = "step_started"
  <2>1. t = [s EXCEPT !.currentStep = v, !.stepStarts = kept \cup {start},
                      !.steps = Append(@, entry)]
    BY <1>5 DEF BuildStep
  <2>. HIDE DEF t, start, entry, kept
  <2>2. /\ DOMAIN r = BuildKeys /\ r.startedAt = s.startedAt /\ r.durationMs = s.durationMs
        /\ r.currentStep = v /\ r.steps = Append(s.steps, entry)
        /\ r.stepStarts = kept \cup {start}
    <3>. HIDE DEF r, v
    <3>. QED BY <1>1, <2>1 DEF BuildKeys
  <2>. HIDE DEF r
  <2>3. \A w : StartsOf(r, w) = IF w = v THEN {start} ELSE StartsOf(s, w)
    <3>. HIDE DEF v
    <3>1. \A x : x \in r.stepStarts <=> (x \in s.stepStarts /\ x.name # v) \/ x = start
      BY <1>4, <2>2 DEF kept
    <3>2. ASSUME NEW w PROVE StartsOf(r, w) = IF w = v THEN {start} ELSE StartsOf(s, w)
      <4>1. \A x : x \in StartsOf(r, w) <=> x \in r.stepStarts /\ x.name = w
        BY <1>3
      <4>2. \A x : x \in StartsOf(s, w) <=> x \in s.stepStarts /\ x.name = w
        BY <1>4
      <4>3. CASE w = v
        BY <1>2, <3>1, <4>1, <4>3
      <4>4. CASE w # v
        BY <1>2, <3>1, <4>1, <4>2, <4>4
      <4>. QED BY <4>3, <4>4
    <3>. QED BY <3>2
  <2>. QED BY <1>5, <2>2, <2>3 DEF BuildDoes, start, entry
<1>6. CASE e.type = "step_finished"
  <2>1. t = [s EXCEPT !.stepStarts = kept, !.steps = EndStep(@, v, out, dur),
                      !.currentStep = IF @ = v THEN "" ELSE @]
    BY <1>6 DEF BuildStep, Took
  <2>. HIDE DEF t, out, dur, kept
  <2>2. /\ DOMAIN r = BuildKeys /\ r.startedAt = s.startedAt /\ r.durationMs = s.durationMs
        /\ r.currentStep = (IF s.currentStep = v THEN "" ELSE s.currentStep)
        /\ r.steps = EndStep(s.steps, v, out, dur)
        /\ r.stepStarts = kept
    <3>. HIDE DEF r, v
    <3>. QED BY <1>1, <2>1 DEF BuildKeys
  <2>. HIDE DEF r
  <2>3. \A w : StartsOf(r, w) = IF w = v THEN {} ELSE StartsOf(s, w)
    <3>. HIDE DEF v
    <3>1. \A x : x \in r.stepStarts <=> x \in s.stepStarts /\ x.name # v
      BY <1>4, <2>2 DEF kept
    <3>2. ASSUME NEW w PROVE StartsOf(r, w) = IF w = v THEN {} ELSE StartsOf(s, w)
      <4>1. \A x : x \in StartsOf(r, w) <=> x \in r.stepStarts /\ x.name = w
        BY <1>3
      <4>2. \A x : x \in StartsOf(s, w) <=> x \in s.stepStarts /\ x.name = w
        BY <1>4
      <4>3. CASE w = v
        BY <3>1, <4>1, <4>3
      <4>4. CASE w # v
        BY <3>1, <4>1, <4>2, <4>4
      <4>. QED BY <4>3, <4>4
    <3>. QED BY <3>2
  <2>. QED BY <1>6, <2>2, <2>3 DEF BuildDoes, out, dur
<1>7. CASE e.type \notin {"step_started", "step_finished"}
  <2>1. /\ DOMAIN t = BuildKeys /\ t.currentStep = s.currentStep /\ t.steps = s.steps
        /\ t.stepStarts = s.stepStarts
        /\ t.startedAt = (IF e.type = "build_started" THEN e.at ELSE s.startedAt)
        /\ t.durationMs = IF e.type = "build_finished" /\ s.startedAt # 0
                          THEN e.at - s.startedAt ELSE s.durationMs
    <3>1. CASE e.type = "build_queued"
      <4>1. t = [s EXCEPT !.status = "queued"]
        BY <3>1 DEF BuildStep
      <4>. HIDE DEF t
      <4>. QED BY <3>1, <4>1 DEF BuildKeys
    <3>2. CASE e.type = "build_started"
      <4>1. t = [s EXCEPT !.status = "running", !.startedAt = e.at]
        BY <3>2 DEF BuildStep
      <4>. HIDE DEF t
      <4>. QED BY <3>2, <4>1 DEF BuildKeys
    <3>3. CASE e.type = "build_finished"
      <4>1. t = [s EXCEPT !.status = out, !.finishedAt = e.at,
                          !.durationMs = IF s.startedAt # 0 THEN e.at - s.startedAt ELSE @]
        BY <3>3 DEF BuildStep
      <4>. HIDE DEF t, out
      <4>. QED BY <3>3, <4>1 DEF BuildKeys
    <3>4. CASE e.type \notin {"build_queued", "build_started", "build_finished"}
      <4>1. t = s
        BY <1>7, <3>4 DEF BuildStep
      <4>. HIDE DEF t
      <4>. QED BY <3>4, <4>1
    <3>. QED BY <3>1, <3>2, <3>3, <3>4
  <2>. HIDE DEF t
  <2>2. /\ DOMAIN r = BuildKeys /\ r.currentStep = s.currentStep /\ r.steps = s.steps
        /\ r.stepStarts = s.stepStarts /\ r.startedAt = t.startedAt /\ r.durationMs = t.durationMs
    BY <1>1, <2>1 DEF BuildKeys
  <2>. HIDE DEF r
  <2>3. \A w : StartsOf(r, w) = StartsOf(s, w)
    BY <1>3, <1>4, <2>2
  <2>. QED BY <1>7, <2>1, <2>2, <2>3 DEF BuildDoes
<1>. QED BY <1>5, <1>6, <1>7

--------------------------------------------------------------------------------
(* Ranks in a set of positions.                                               *)
Rank(S, i) == Cardinality(Before(S, i))

LEMMA TopRank ==
  ASSUME NEW n \in Nat, NEW S \in SUBSET (1 .. n), S # {}
  PROVE  \E m \in S : Rank(S, m) + 1 = Cardinality(S) /\ Rank(S, m) \in Nat
<1>1. PICK m \in S : \A x \in S : x <= m
  BY MaxExists
<1>2. Before(S, m) = S \ {m}
  <2>1. \A x \in S : x \in Int /\ (x < m <=> x # m)
    BY <1>1
  <2>. QED BY <2>1 DEF Before
<1>3. IsFiniteSet(S)
  <2>1. IsFiniteSet(1 .. n)
    BY FS_Interval
  <2>. QED BY <2>1, FS_Subset
<1>4. Cardinality(S \ {m}) = Cardinality(S) - 1 /\ Cardinality(S) \in Nat /\ IsFiniteSet(S \ {m})
  BY <1>3, FS_RemoveElement, FS_CardinalityType
<1>5. Cardinality(S \ {m}) \in Nat
  BY <1>4, FS_CardinalityType
<1>. QED BY <1>2, <1>4, <1>5 DEF Rank

(* They run from 0 upwards, without a gap.                                    *)
LEMMA Ranks ==
  ASSUME NEW n \in Nat, NEW S \in SUBSET (1 .. n)
  PROVE  /\ Cardinality(S) \in Nat
         /\ \A i \in S : Rank(S, i) \in Nat /\ Rank(S, i) < Cardinality(S)
         /\ \A i, j \in S : i < j => Rank(S, i) < Rank(S, j)
         /\ \A k \in Nat : k < Cardinality(S) => \E i \in S : Rank(S, i) = k
<1>1. \A T \in SUBSET S : IsFiniteSet(T) /\ Cardinality(T) \in Nat
  <2>1. IsFiniteSet(1 .. n)
    BY FS_Interval
  <2>. QED BY <2>1, FS_Subset, FS_CardinalityType
<1>2. ASSUME NEW i \in S, NEW T \in SUBSET S, i \in T, Before(S, i) \subseteq T
      PROVE  Rank(S, i) \in Nat /\ Rank(S, i) < Cardinality(T)
  <2>. DEFINE B == Before(S, i)
  <2>1. B \in SUBSET S /\ i \notin B
    BY DEF Before
  <2>2. B \subseteq T \ {i} /\ T \ {i} \in SUBSET S
    BY <1>2, <2>1
  <2>. HIDE DEF B
  <2>3. Cardinality(B) <= Cardinality(T \ {i})
    BY <1>1, <2>2, FS_Subset
  <2>4. Cardinality(T \ {i}) = Cardinality(T) - 1
    BY <1>1, <1>2, FS_RemoveElement
  <2>5. Cardinality(T) \in Nat /\ Cardinality(B) \in Nat
    BY <1>1, <2>1
  <2>6. Cardinality(B) \in Nat /\ Cardinality(B) < Cardinality(T)
    BY <2>3, <2>4, <2>5
  <2>. QED BY <2>6 DEF B, Rank
<1>3. \A i \in S : Rank(S, i) \in Nat /\ Rank(S, i) < Cardinality(S)
  <2>1. ASSUME NEW i \in S PROVE Before(S, i) \subseteq S
    BY DEF Before
  <2>. QED BY <1>2, <2>1
<1>4. ASSUME NEW i \in S, NEW j \in S, i < j PROVE Rank(S, i) < Rank(S, j)
  <2>. DEFINE B == Before(S, j)
  <2>0. \A x \in S : x < i => x < j
    BY <1>4
  <2>1. B \in SUBSET S /\ i \in B /\ Before(S, i) \subseteq B
    BY <1>4, <2>0 DEF Before
  <2>. HIDE DEF B
  <2>2. Rank(S, i) < Cardinality(B)
    BY <1>2, <2>1
  <2>. QED BY <2>2 DEF B, Rank
<1>5. ASSUME NEW k \in Nat, k < Cardinality(S) PROVE \E i \in S : Rank(S, i) = k
  <2>. DEFINE T == {i \in S : Rank(S, i) >= k}
  <2>1. T # {}
    <3>1. S # {}
      BY <1>5, FS_EmptySet
    <3>2. PICK m \in S : Rank(S, m) + 1 = Cardinality(S)
      BY <3>1, TopRank
    <3>3. Rank(S, m) \in Nat /\ Rank(S, m) >= k
      BY <1>1, <1>3, <1>5, <3>2
    <3>. QED BY <3>3
  <2>2. T \in SUBSET (1 .. n)
    OBVIOUS
  <2>. HIDE DEF T
  <2>3. PICK i \in T : \A x \in T : i <= x
    BY <2>1, <2>2, MinExists
  <2>4. i \in S /\ Rank(S, i) \in Nat /\ Rank(S, i) >= k
    BY <1>3, <2>3 DEF T
  <2>5. ASSUME Rank(S, i) > k PROVE FALSE
    <3>. DEFINE B == Before(S, i)
    <3>1. B \in SUBSET S /\ B \in SUBSET (1 .. n) /\ \A j \in B : j < i
      BY DEF Before
    <3>2. B # {}
      BY <2>4, <2>5, FS_EmptySet DEF Rank
    <3>0. \A j, x \in S : j < i /\ x < j => x < i
      BY <2>4
    <3>3. \A j \in B : Before(B, j) = Before(S, j)
      BY <3>0 DEF Before
    <3>. HIDE DEF B
    <3>4. PICK j \in B : Rank(B, j) + 1 = Cardinality(B) /\ Rank(B, j) \in Nat
      BY <3>1, <3>2, TopRank
    <3>5. Rank(S, j) = Rank(B, j) /\ Rank(S, i) = Cardinality(B)
      BY <3>3 DEF Rank, B
    <3>6. j \in T
      BY <2>4, <2>5, <3>1, <3>4, <3>5 DEF T
    <3>7. i <= j /\ j < i /\ i \in Int /\ j \in Int
      BY <2>2, <2>3, <3>1, <3>6
    <3>. QED BY <3>7
  <2>. QED BY <2>4, <2>5
<1>. QED BY <1>1, <1>3, <1>4, <1>5

(* One position more: the others keep their ranks.                            *)
LEMMA RankAdd ==
  ASSUME NEW n \in Nat \ {0}, NEW S \in SUBSET (1 .. n - 1)
  PROVE  /\ \A i \in 1 .. n - 1 : Rank(S \cup {n}, i) = Rank(S, i)
         /\ Rank(S, n) = Cardinality(S) /\ Rank(S \cup {n}, n) = Cardinality(S)
         /\ Cardinality(S \cup {n}) = Cardinality(S) + 1
<1>1. /\ \A i \in 0 .. n - 1 : Before(S \cup {n}, i) = Before(S, i)
      /\ Before(S, n) = S /\ Before(S \cup {n}, n) = S
  BY BeforeAdd
<1>2. \A i \in 1 .. n - 1 : i \in 0 .. n - 1
  OBVIOUS
<1>3. Cardinality(S \cup {n}) = Cardinality(S) + 1
  BY CountAdd
<1>. QED BY <1>1, <1>2, <1>3 DEF Rank

--------------------------------------------------------------------------------
(* What the stream says of the steps of a build: the starts and ends of a     *)
(* name, the ends that found it running, and the one that closed the entry of *)
(* a start.                                                                   *)
Begun == Of({"step_started"})
StepStarts(v) == With(Begun, "step", {v})
StepEnds(v) == With(Of({"step_finished"}), "step", {v})
Closing(v) == {j \in StepEnds(v) : Balance(StepStarts(v), StepEnds(v), j - 1) > 0}
Closer(v, i) == {j \in Closing(v) : Rank(Closing(v), j) = Rank(StepStarts(v), i)}
Lasts(v, j) == LET i == Newest(Before(StepStarts(v), j))
               IN  IF i > Newest(Before(StepEnds(v), j)) THEN At(j) - At(i) ELSE 0

(* The balance of a name is how many of its entries are open.                 *)
Open(v) == Cardinality(StepStarts(v)) - Cardinality(Closing(v))
OpenIs(v) == IsBalance(StepStarts(v), StepEnds(v), Len(log), Open(v))

Begins(e, ok, v) == ok /\ e.type = "step_started" /\ Str(e, "step") = v
Finishes(e, ok, v) == ok /\ e.type = "step_finished" /\ Str(e, "step") = v

LEMMA StepSets ==
  ASSUME NEW n, NEW e, NEW ok, Extends(n, e, ok), NEW v
  PROVE  /\ StepStarts(v) \in SUBSET (1 .. n - 1) /\ StepEnds(v) \in SUBSET (1 .. n - 1)
         /\ StepStarts(v)' = IF Begins(e, ok, v) THEN StepStarts(v) \cup {n} ELSE StepStarts(v)
         /\ StepEnds(v)' = IF Finishes(e, ok, v) THEN StepEnds(v) \cup {n} ELSE StepEnds(v)
<1>. DEFINE st == {"step_started"}
            ft == {"step_finished"}
            vs == {v}
<1>1. /\ StepStarts(v) = With(Of(st), "step", vs) /\ StepEnds(v) = With(Of(ft), "step", vs)
      /\ StepStarts(v)' = With(Of(st), "step", vs)' /\ StepEnds(v)' = With(Of(ft), "step", vs)'
  BY DEF StepStarts, StepEnds, Begun
<1>2. /\ Begins(e, ok, v) <=> ok /\ e.type \in st /\ Str(e, "step") \in vs
      /\ Finishes(e, ok, v) <=> ok /\ e.type \in ft /\ Str(e, "step") \in vs
  BY DEF Begins, Finishes
<1>. HIDE DEF st, ft, vs
<1>3. /\ With(Of(st), "step", vs) \subseteq 1 .. n - 1
      /\ With(Of(st), "step", vs)' = IF ok /\ e.type \in st /\ Str(e, "step") \in vs
                                    THEN With(Of(st), "step", vs) \cup {n}
                                    ELSE With(Of(st), "step", vs)
  BY WithStep
<1>4. /\ With(Of(ft), "step", vs) \subseteq 1 .. n - 1
      /\ With(Of(ft), "step", vs)' = IF ok /\ e.type \in ft /\ Str(e, "step") \in vs
                                    THEN With(Of(ft), "step", vs) \cup {n}
                                    ELSE With(Of(ft), "step", vs)
  BY WithStep
<1>. QED BY <1>1, <1>2, <1>3, <1>4

(* A balance up to a position forgets what came after it.                     *)
LEMMA BalanceSame ==
  ASSUME NEW n \in Nat \ {0}, NEW P \in SUBSET (1 .. n - 1), NEW M \in SUBSET (1 .. n - 1),
         NEW Q, Q = P \/ Q = P \cup {n}, NEW L, L = M \/ L = M \cup {n}, NEW m \in 0 .. n - 1
  PROVE  Balance(Q, L, m) = Balance(P, M, m)
<1>0. ~ (n <= m)
  OBVIOUS
<1>1. \A i : {j \in Q : i < j /\ j <= m} = {j \in P : i < j /\ j <= m}
  BY <1>0
<1>2. \A i : {j \in L : i < j /\ j <= m} = {j \in M : i < j /\ j <= m}
  BY <1>0
<1>. QED BY <1>1, <1>2 DEF Balance

LEMMA ClosingStep ==
  ASSUME NEW n, NEW e, NEW ok, Extends(n, e, ok), NEW v, OpenIs(v)
  PROVE  /\ Closing(v) \in SUBSET (1 .. n - 1) /\ Open(v) \in Nat
         /\ Closing(v)' = IF Finishes(e, ok, v) /\ Open(v) > 0
                          THEN Closing(v) \cup {n} ELSE Closing(v)
<1>. DEFINE P == StepStarts(v)
            M == StepEnds(v)
            C == Closing(v)
<1>1. /\ P \in SUBSET (1 .. n - 1) /\ M \in SUBSET (1 .. n - 1)
      /\ P' = IF Begins(e, ok, v) THEN P \cup {n} ELSE P
      /\ M' = IF Finishes(e, ok, v) THEN M \cup {n} ELSE M
  BY StepSets
<1>2. n \in Nat \ {0} /\ Len(log) = n - 1
  BY Earlier
<1>3. PICK Q, L, D : Q = P' /\ L = M' /\ D = C'
  OBVIOUS
<1>4. /\ C = {j \in M : Balance(P, M, j - 1) > 0}
      /\ D = {j \in L : Balance(Q, L, j - 1) > 0}
  BY <1>3 DEF Closing
<1>5. Balance(P, M, n - 1) = Open(v) /\ Open(v) \in Nat
  <2>1. IsBalance(P, M, n - 1, Open(v))
    BY <1>2 DEF OpenIs
  <2>. QED BY <2>1, BalanceIs DEF IsBalance
<1>. HIDE DEF P, M, C
<1>6. (Q = P \/ Q = P \cup {n}) /\ (L = M \/ L = M \cup {n})
  BY <1>1, <1>3
<1>7. \A m \in 0 .. n - 1 : Balance(Q, L, m) = Balance(P, M, m)
  <2>1. n \in Nat \ {0} /\ P \in SUBSET (1 .. n - 1) /\ M \in SUBSET (1 .. n - 1)
    BY <1>1, <1>2
  <2>. QED BY <1>6, <2>1, BalanceSame
<1>8. \A j \in 1 .. n : Balance(Q, L, j - 1) = Balance(P, M, j - 1)
  <2>1. \A j \in 1 .. n : j - 1 \in 0 .. n - 1
    BY <1>2
  <2>. QED BY <1>7, <2>1
<1>9. n \in 1 .. n /\ \A j \in M : j \in 1 .. n
  BY <1>1, <1>2
<1>10. D = IF Finishes(e, ok, v) /\ Open(v) > 0 THEN C \cup {n} ELSE C
  <2>1. CASE Finishes(e, ok, v)
    <3>1. L = M \cup {n}
      BY <1>1, <1>3, <2>1
    <3>2. Balance(Q, L, n - 1) = Open(v)
      BY <1>5, <1>8, <1>9
    <3>3. CASE Open(v) > 0
      BY <1>4, <1>8, <1>9, <2>1, <3>1, <3>2, <3>3
    <3>4. CASE ~ (Open(v) > 0)
      BY <1>4, <1>8, <1>9, <2>1, <3>1, <3>2, <3>4
    <3>. QED BY <3>3, <3>4
  <2>2. CASE ~ Finishes(e, ok, v)
    <3>1. L = M
      BY <1>1, <1>3, <2>2
    <3>. QED BY <1>4, <1>8, <1>9, <2>2, <3>1
  <2>. QED BY <2>1, <2>2
<1>11. C \in SUBSET (1 .. n - 1)
  BY <1>1, <1>4
<1>. QED BY <1>3, <1>5, <1>10, <1>11 DEF C

LEMMA OpenStep ==
  ASSUME NEW n, NEW e, NEW ok, Extends(n, e, ok), NEW v, OpenIs(v)
  PROVE  OpenIs(v)'
<1>. DEFINE P == StepStarts(v)
            M == StepEnds(v)
            C == Closing(v)
            b == Open(v)
<1>1. /\ P \in SUBSET (1 .. n - 1) /\ M \in SUBSET (1 .. n - 1)
      /\ P' = IF Begins(e, ok, v) THEN P \cup {n} ELSE P
      /\ M' = IF Finishes(e, ok, v) THEN M \cup {n} ELSE M
  BY StepSets
<1>2. n \in Nat \ {0} /\ Len(log) = n - 1 /\ Len(log') = n
  BY Earlier
<1>3. /\ C \in SUBSET (1 .. n - 1) /\ b \in Nat
      /\ C' = IF Finishes(e, ok, v) /\ b > 0 THEN C \cup {n} ELSE C
  BY ClosingStep
<1>4. PICK Q, L, D, c : Q = P' /\ L = M' /\ D = C' /\ c = b'
  OBVIOUS
<1>5. b = Cardinality(P) - Cardinality(C) /\ c = Cardinality(Q) - Cardinality(D)
  BY <1>4 DEF Open
<1>6. IsBalance(P, M, n - 1, b) /\ (OpenIs(v)' <=> IsBalance(Q, L, n, c))
  BY <1>2, <1>4 DEF OpenIs, IsBalance, Surplus, Stretch
<1>7. ~ (Begins(e, ok, v) /\ Finishes(e, ok, v))
  BY DEF Begins, Finishes
<1>. HIDE DEF P, M, C, b
<1>8. /\ IsBalance(P, M, n, b) /\ IsBalance(P \cup {n}, M, n, b + 1)
      /\ IsBalance(P, M \cup {n}, n, Settle(b))
  BY <1>1, <1>2, <1>6, BalanceStep
<1>9. /\ Cardinality(P) \in Nat /\ Cardinality(P \cup {n}) = Cardinality(P) + 1
      /\ Cardinality(C) \in Nat /\ Cardinality(C \cup {n}) = Cardinality(C) + 1
  BY <1>1, <1>2, <1>3, CountAdd
<1>10. IsBalance(Q, L, n, c)
  <2>1. CASE Begins(e, ok, v)
    <3>1. Q = P \cup {n} /\ L = M /\ D = C
      BY <1>1, <1>3, <1>4, <1>7, <2>1
    <3>2. c = b + 1
      BY <1>5, <1>9, <3>1
    <3>. QED BY <1>8, <3>1, <3>2
  <2>2. CASE Finishes(e, ok, v) /\ b > 0
    <3>1. Q = P /\ L = M \cup {n} /\ D = C \cup {n}
      BY <1>1, <1>3, <1>4, <1>7, <2>2
    <3>2. c = b - 1
      BY <1>5, <1>9, <3>1
    <3>3. c = Settle(b)
      BY <1>3, <2>2, <3>2 DEF Settle
    <3>. QED BY <1>8, <3>1, <3>3
  <2>3. CASE Finishes(e, ok, v) /\ ~ (b > 0)
    <3>1. Q = P /\ L = M \cup {n} /\ D = C
      BY <1>1, <1>3, <1>4, <1>7, <2>3
    <3>2. c = b
      BY <1>5, <3>1
    <3>3. c = Settle(b)
      BY <1>3, <2>3, <3>2 DEF Settle
    <3>. QED BY <1>8, <3>1, <3>3
  <2>4. CASE ~ Begins(e, ok, v) /\ ~ Finishes(e, ok, v)
    <3>1. Q = P /\ L = M /\ D = C
      BY <1>1, <1>3, <1>4, <2>4
    <3>2. c = b
      BY <1>5, <3>1
    <3>. QED BY <1>8, <3>1, <3>2
  <2>. QED BY <2>1, <2>2, <2>3, <2>4
<1>. QED BY <1>6, <1>10

(* How long an end lasts is settled when it comes.                            *)
LEMMA LastsStep ==
  ASSUME NEW n, NEW e, NEW ok, Extends(n, e, ok), NEW v
  PROVE  /\ \A j \in 1 .. n - 1 : Lasts(v, j)' = Lasts(v, j)
         /\ Finishes(e, ok, v) =>
              Lasts(v, n)' = IF Newest(StepStarts(v)) > Newest(StepEnds(v))
                             THEN e.at - At(Newest(StepStarts(v))) ELSE 0
<1>. DEFINE P == StepStarts(v)
            M == StepEnds(v)
<1>1. /\ P \in SUBSET (1 .. n - 1) /\ M \in SUBSET (1 .. n - 1)
      /\ P' = IF Begins(e, ok, v) THEN P \cup {n} ELSE P
      /\ M' = IF Finishes(e, ok, v) THEN M \cup {n} ELSE M
  BY StepSets
<1>2. /\ n \in Nat \ {0} /\ n - 1 \in Nat
      /\ At(n)' = e.at /\ \A i \in 1 .. n - 1 : At(i)' = At(i)
  BY Earlier, AtStep
<1>3. ASSUME NEW j \in 1 .. n, NEW F \in SUBSET (1 .. n - 1), NEW G \in SUBSET (1 .. n - 1),
             F = Before(P, j), G = Before(M, j), Before(P', j) = F, Before(M', j) = G
      PROVE  Lasts(v, j)' = IF Newest(F) > Newest(G) THEN At(j)' - At(Newest(F)) ELSE 0
  <2>1. PICK i, l : i = Newest(Before(P', j)) /\ l = Newest(Before(M', j))
    OBVIOUS
  <2>2. Lasts(v, j)' = IF i > l THEN At(j)' - At(i)' ELSE 0
    BY <2>1 DEF Lasts
  <2>3. i = Newest(F) /\ l = Newest(G)
    BY <1>3, <2>1
  <2>4. i \in 0 .. n - 1 /\ l \in 0 .. n - 1
    BY <1>2, <2>3, NewestIs
  <2>5. i > l => At(i)' = At(i)
    <3>1. i > l => i \in 1 .. n - 1
      BY <1>2, <2>4
    <3>. QED BY <1>2, <3>1
  <2>. QED BY <2>2, <2>3, <2>5
<1>4. ASSUME NEW j \in 1 .. n - 1 PROVE Lasts(v, j)' = Lasts(v, j)
  <2>. DEFINE F == Before(P, j)
              G == Before(M, j)
  <2>0. j \in 0 .. n - 1 /\ j \in 1 .. n
    BY <1>2
  <2>1. F \in SUBSET (1 .. n - 1) /\ G \in SUBSET (1 .. n - 1)
    BY <1>1 DEF Before
  <2>2. Before(P', j) = F
    BY <1>1, <1>2, <2>0, BeforeAdd
  <2>3. Before(M', j) = G
    BY <1>1, <1>2, <2>0, BeforeAdd
  <2>4. Lasts(v, j) = IF Newest(F) > Newest(G) THEN At(j) - At(Newest(F)) ELSE 0
    BY DEF Lasts
  <2>. HIDE DEF F, G
  <2>5. Lasts(v, j)' = IF Newest(F) > Newest(G) THEN At(j)' - At(Newest(F)) ELSE 0
    BY <1>3, <2>0, <2>1, <2>2, <2>3 DEF F, G
  <2>. QED BY <1>2, <2>4, <2>5
<1>5. Lasts(v, n)' = IF Newest(P) > Newest(M) THEN e.at - At(Newest(P)) ELSE 0
  <2>1. Before(P, n) = P /\ Before(M, n) = M /\ Before(P', n) = P /\ Before(M', n) = M
    <3>1. Before(P, n) = P /\ Before(P \cup {n}, n) = P
      <4>. HIDE DEF P, M
      <4>. QED BY <1>1, <1>2, BeforeAdd
    <3>2. Before(M, n) = M /\ Before(M \cup {n}, n) = M
      <4>. HIDE DEF P, M
      <4>. QED BY <1>1, <1>2, BeforeAdd
    <3>. QED BY <1>1, <3>1, <3>2
  <2>2. n \in 1 .. n
    BY <1>2
  <2>. HIDE DEF P, M
  <2>3. Lasts(v, n)' = IF Newest(P) > Newest(M) THEN At(n)' - At(Newest(P)) ELSE 0
    BY <1>1, <1>3, <2>1, <2>2
  <2>. QED BY <1>2, <2>3
<1>. QED BY <1>4, <1>5

(* x is the entry of the start of v at i.                                     *)
StepOf(x, v, i) ==
  /\ x.name = v
  /\ x.status = "running" <=> Rank(StepStarts(v), i) >= Cardinality(Closing(v))
  /\ \A j \in Closer(v, i) : x.durationMs = Lasts(v, j)

LEMMA StepOfNow ==
  ASSUME NEW n, NEW e, NEW ok, Extends(n, e, ok), NEW v, OpenIs(v), NEW x, NEW i \in 1 .. n,
         NEW D, D = IF Finishes(e, ok, v) /\ Open(v) > 0
                    THEN Closing(v) \cup {n} ELSE Closing(v),
         NEW k, k = IF i = n THEN Cardinality(StepStarts(v)) ELSE Rank(StepStarts(v), i)
  PROVE  StepOf(x, v, i)' <=>
           /\ x.name = v
           /\ x.status = "running" <=> k >= Cardinality(D)
           /\ \A j \in D : Rank(D, j) = k =>
                x.durationMs = IF j = n THEN Lasts(v, n)' ELSE Lasts(v, j)
<1>. DEFINE P == StepStarts(v)
<1>1. P \in SUBSET (1 .. n - 1) /\ P' = IF Begins(e, ok, v) THEN P \cup {n} ELSE P
  BY StepSets
<1>2. Closing(v)' = D /\ Closing(v) \in SUBSET (1 .. n - 1)
  BY ClosingStep
<1>3. n \in Nat \ {0}
  BY Earlier
<1>4. Rank(P', i) = k
  <2>1. i # n => i \in 1 .. n - 1
    BY <1>3
  <2>2. /\ \A l \in 1 .. n - 1 : Rank(P \cup {n}, l) = Rank(P, l)
        /\ Rank(P, n) = Cardinality(P) /\ Rank(P \cup {n}, n) = Cardinality(P)
    <3>. HIDE DEF P
    <3>. QED BY <1>1, <1>3, RankAdd
  <2>. QED BY <1>1, <2>1, <2>2
<1>5. \A j \in D : Lasts(v, j)' = IF j = n THEN Lasts(v, n)' ELSE Lasts(v, j)
  <2>1. \A j \in 1 .. n - 1 : Lasts(v, j)' = Lasts(v, j)
    BY LastsStep
  <2>. QED BY <1>2, <2>1
<1>6. StepOf(x, v, i)' <=>
        /\ x.name = v
        /\ x.status = "running" <=> Rank(P', i) >= Cardinality(Closing(v)')
        /\ \A j \in Closing(v)' : Rank(Closing(v)', j) = Rank(P', i) => x.durationMs = Lasts(v, j)'
  BY DEF StepOf, Closer, Rank, Before
<1>. HIDE DEF P
<1>7. StepOf(x, v, i)' <=>
        /\ x.name = v
        /\ x.status = "running" <=> k >= Cardinality(D)
        /\ \A j \in D : Rank(D, j) = k => x.durationMs = Lasts(v, j)'
  BY <1>2, <1>4, <1>6
<1>8. StepOf(x, v, i)' <=>
        /\ x.name = v
        /\ x.status = "running" <=> k >= Cardinality(D)
        /\ \A j \in D : Rank(D, j) = k => x.durationMs = IF j = n THEN Lasts(v, n)' ELSE Lasts(v, j)
  BY <1>5, <1>7
<1>. QED BY <1>8

(* An entry keeps what it says, unless the event is the end that closes it.   *)
LEMMA StepStays ==
  ASSUME NEW n, NEW e, NEW ok, Extends(n, e, ok), NEW v, OpenIs(v), NEW x,
         NEW i \in StepStarts(v), StepOf(x, v, i),
         ~ (Finishes(e, ok, v) /\ Open(v) > 0
              /\ Rank(StepStarts(v), i) = Cardinality(Closing(v)))
  PROVE  StepOf(x, v, i)'
<1>. DEFINE closes == Finishes(e, ok, v) /\ Open(v) > 0
            C == Closing(v)
            D == IF closes THEN C \cup {n} ELSE C
            k == Rank(StepStarts(v), i)
<1>1. StepStarts(v) \in SUBSET (1 .. n - 1) /\ C \in SUBSET (1 .. n - 1) /\ n \in Nat \ {0}
  BY StepSets, ClosingStep, Earlier
<1>2. i \in 1 .. n /\ i # n /\ \A j \in C : j # n /\ j \in 1 .. n - 1
  BY <1>1
<1>3. k \in Nat
  <2>1. n - 1 \in Nat
    BY <1>1
  <2>. QED BY <1>1, <2>1, Ranks
<1>4. /\ \A j \in 1 .. n - 1 : Rank(C \cup {n}, j) = Rank(C, j)
      /\ Rank(C \cup {n}, n) = Cardinality(C)
      /\ Cardinality(C \cup {n}) = Cardinality(C) + 1 /\ Cardinality(C) \in Nat
  BY <1>1, RankAdd, CountAdd
<1>5. /\ x.name = v
      /\ x.status = "running" <=> k >= Cardinality(C)
      /\ \A j \in C : Rank(C, j) = k => x.durationMs = Lasts(v, j)
  BY DEF StepOf, Closer
<1>6. ~ (closes /\ k = Cardinality(C))
  OBVIOUS
<1>7. StepOf(x, v, i)' <=>
        /\ x.name = v
        /\ x.status = "running" <=> k >= Cardinality(D)
        /\ \A j \in D : Rank(D, j) = k => x.durationMs = IF j = n THEN Lasts(v, n)' ELSE Lasts(v, j)
  <2>. HIDE DEF D, k
  <2>1. D = IF Finishes(e, ok, v) /\ Open(v) > 0 THEN Closing(v) \cup {n} ELSE Closing(v)
    BY DEF D
  <2>2. k = IF i = n THEN Cardinality(StepStarts(v)) ELSE Rank(StepStarts(v), i)
    BY <1>2 DEF k
  <2>. QED BY <1>2, <2>1, <2>2, StepOfNow
<1>. HIDE DEF closes, C, k
<1>8. CASE closes
  <2>1. D = C \cup {n}
    BY <1>8
  <2>2. k # Cardinality(C)
    BY <1>6, <1>8
  <2>3. k >= Cardinality(D) <=> k >= Cardinality(C)
    BY <1>3, <1>4, <2>1, <2>2
  <2>4. \A j \in D : Rank(D, j) = k => j \in C /\ j # n /\ Rank(C, j) = k
    BY <1>2, <1>4, <2>1, <2>2
  <2>. QED BY <1>5, <1>7, <2>3, <2>4
<1>9. CASE ~ closes
  <2>1. D = C
    BY <1>9
  <2>. QED BY <1>2, <1>5, <1>7, <2>1
<1>. QED BY <1>8, <1>9

(* That end closes it.                                                        *)
LEMMA StepCloses ==
  ASSUME NEW n, NEW e, NEW ok, Extends(n, e, ok), NEW v, OpenIs(v), NEW y,
         NEW i \in StepStarts(v), Finishes(e, ok, v), Open(v) > 0,
         Rank(StepStarts(v), i) = Cardinality(Closing(v)),
         y.name = v, y.status # "running",
         y.durationMs = IF Newest(StepStarts(v)) > Newest(StepEnds(v))
                        THEN e.at - At(Newest(StepStarts(v))) ELSE 0
  PROVE  StepOf(y, v, i)'
<1>. DEFINE C == Closing(v)
            D == C \cup {n}
            k == Rank(StepStarts(v), i)
<1>1. StepStarts(v) \in SUBSET (1 .. n - 1) /\ C \in SUBSET (1 .. n - 1) /\ n \in Nat \ {0}
  BY StepSets, ClosingStep, Earlier
<1>2. i \in 1 .. n /\ i # n /\ \A j \in C : j # n /\ j \in 1 .. n - 1
  BY <1>1
<1>3. k = Cardinality(C) /\ k \in Nat
  BY <1>1, CountAdd
<1>4. /\ \A j \in 1 .. n - 1 : Rank(C \cup {n}, j) = Rank(C, j)
      /\ Cardinality(D) = Cardinality(C) + 1
  BY <1>1, RankAdd
<1>5. \A j \in C : Rank(C, j) < Cardinality(C) /\ Rank(C, j) \in Nat
  <2>1. n - 1 \in Nat
    BY <1>1
  <2>. HIDE DEF C
  <2>. QED BY <1>1, <2>1, Ranks
<1>6. y.durationMs = Lasts(v, n)'
  BY LastsStep
<1>7. StepOf(y, v, i)' <=>
        /\ y.name = v
        /\ y.status = "running" <=> k >= Cardinality(D)
        /\ \A j \in D : Rank(D, j) = k => y.durationMs = IF j = n THEN Lasts(v, n)' ELSE Lasts(v, j)
  <2>. HIDE DEF D, k
  <2>1. D = IF Finishes(e, ok, v) /\ Open(v) > 0 THEN Closing(v) \cup {n} ELSE Closing(v)
    BY DEF D
  <2>2. k = IF i = n THEN Cardinality(StepStarts(v)) ELSE Rank(StepStarts(v), i)
    BY <1>2 DEF k
  <2>3. i \in 1 .. n
    BY <1>2
  <2>. QED BY <2>1, <2>2, <2>3, StepOfNow
<1>. HIDE DEF C, k
<1>8. \A j \in D : Rank(D, j) = k => j = n
  <2>1. ASSUME NEW j \in C, Rank(D, j) = k PROVE FALSE
    <3>1. Rank(D, j) = Rank(C, j)
      BY <1>2, <1>4
    <3>. QED BY <1>3, <1>5, <2>1, <3>1
  <2>. QED BY <2>1
<1>9. ~ (k >= Cardinality(D))
  BY <1>3, <1>4
<1>. QED BY <1>6, <1>7, <1>8, <1>9

(* A start opens one.                                                         *)
LEMMA StepOpens ==
  ASSUME NEW n, NEW e, NEW ok, Extends(n, e, ok), NEW v, OpenIs(v), NEW x,
         Begins(e, ok, v), x.name = v, x.status = "running"
  PROVE  StepOf(x, v, n)'
<1>. DEFINE C == Closing(v)
            k == Cardinality(StepStarts(v))
<1>1. StepStarts(v) \in SUBSET (1 .. n - 1) /\ C \in SUBSET (1 .. n - 1) /\ n \in Nat \ {0}
  BY StepSets, ClosingStep, Earlier
<1>2. n \in 1 .. n /\ ~ Finishes(e, ok, v)
  BY <1>1 DEF Begins, Finishes
<1>3. k \in Nat /\ Cardinality(C) \in Nat /\ k >= Cardinality(C)
  <2>1. k \in Nat /\ Cardinality(C) \in Nat
    BY <1>1, CountAdd
  <2>2. k - Cardinality(C) \in Nat
    BY ClosingStep DEF Open
  <2>. QED BY <2>1, <2>2
<1>4. \A j \in C : Rank(C, j) < Cardinality(C) /\ Rank(C, j) \in Nat
  <2>1. n - 1 \in Nat
    BY <1>1
  <2>. HIDE DEF C
  <2>. QED BY <1>1, <2>1, Ranks
<1>5. StepOf(x, v, n)' <=>
        /\ x.name = v
        /\ x.status = "running" <=> k >= Cardinality(C)
        /\ \A j \in C : Rank(C, j) = k => x.durationMs = IF j = n THEN Lasts(v, n)' ELSE Lasts(v, j)
  <2>. HIDE DEF C, k
  <2>1. C = IF Finishes(e, ok, v) /\ Open(v) > 0 THEN Closing(v) \cup {n} ELSE Closing(v)
    BY <1>2 DEF C
  <2>2. k = IF n = n THEN Cardinality(StepStarts(v)) ELSE Rank(StepStarts(v), n)
    BY DEF k
  <2>. QED BY <1>2, <2>1, <2>2, StepOfNow
<1>. HIDE DEF C, k
<1>6. \A j \in C : Rank(C, j) # k
  BY <1>3, <1>4
<1>. QED BY <1>3, <1>5, <1>6

(* The list holds an entry for each start, in their order.                    *)
StepsAre(xs) ==
  /\ \E X : xs \in Seq(X)
  /\ Len(xs) = Cardinality(Begun)
  /\ \A i \in Begun : \A k, v :
       k = Rank(Begun, i) + 1 /\ v = Val(i, "step") => StepOf(xs[k], v, i)

LEMMA BegunStep ==
  ASSUME NEW n, NEW e, NEW ok, Extends(n, e, ok)
  PROVE  /\ Begun \in SUBSET (1 .. n - 1)
         /\ Begun' = IF ok /\ e.type = "step_started" THEN Begun \cup {n} ELSE Begun
         /\ Val(n, "step")' = Str(e, "step")
         /\ \A i \in Begun : Val(i, "step")' = Val(i, "step") /\ i \in StepStarts(Val(i, "step"))
         /\ \A v : \A i \in StepStarts(v) : i \in Begun /\ Val(i, "step") = v
<1>1. /\ Begun \in SUBSET (1 .. n - 1)
      /\ Begun' = IF ok /\ e.type = "step_started" THEN Begun \cup {n} ELSE Begun
  BY OfOne DEF Begun
<1>2. Val(n, "step")' = Str(e, "step") /\ \A i \in 1 .. n - 1 : Val(i, "step")' = Val(i, "step")
  BY AtStep
<1>3. \A v : StepStarts(v) = {i \in Begun : Val(i, "step") \in {v}}
  BY DEF StepStarts, With
<1>4. \A v, i : i \in StepStarts(v) <=> i \in Begun /\ Val(i, "step") = v
  BY <1>3
<1>. QED BY <1>1, <1>2, <1>4

(* A start appends an entry.                                                  *)
LEMMA StepsStart ==
  ASSUME NEW n, NEW e, NEW ok, Extends(n, e, ok), NEW v, Begins(e, ok, v), \A w : OpenIs(w),
         NEW xs, StepsAre(xs), NEW y, y.name = v, y.status = "running"
  PROVE  StepsAre(Append(xs, y))'
<1>. DEFINE B == Begun
            ys == Append(xs, y)
<1>1. PICK X : xs \in Seq(X)
  BY DEF StepsAre
<1>2. /\ B \in SUBSET (1 .. n - 1) /\ B' = B \cup {n} /\ Val(n, "step")' = v
      /\ \A i \in B : Val(i, "step")' = Val(i, "step") /\ i \in StepStarts(Val(i, "step"))
  BY BegunStep DEF Begins
<1>3. n \in Nat \ {0} /\ n - 1 \in Nat
  BY Earlier
<1>4. /\ Len(xs) = Cardinality(B)
      /\ \A i \in B : StepOf(xs[Rank(B, i) + 1], Val(i, "step"), i)
  BY DEF StepsAre
<1>. HIDE DEF B
<1>5. /\ \A i \in 1 .. n - 1 : Rank(B \cup {n}, i) = Rank(B, i)
      /\ Rank(B \cup {n}, n) = Cardinality(B) /\ Cardinality(B \cup {n}) = Cardinality(B) + 1
  BY <1>2, <1>3, RankAdd
<1>6. \A i \in B : Rank(B, i) \in Nat /\ Rank(B, i) < Cardinality(B)
  BY <1>2, <1>3, Ranks
<1>7. /\ ys \in Seq(X \cup {y}) /\ Len(ys) = Len(xs) + 1 /\ Len(xs) \in Nat
      /\ \A k \in 1 .. Len(xs) : ys[k] = xs[k]
      /\ ys[Len(xs) + 1] = y
  <2>. DEFINE Y == X \cup {y}
  <2>1. xs \in Seq(Y) /\ y \in Y
    BY <1>1
  <2>. HIDE DEF Y
  <2>2. /\ ys \in Seq(Y) /\ Len(ys) = Len(xs) + 1 /\ Len(xs) \in Nat
        /\ \A k \in 1 .. Len(xs) : ys[k] = xs[k]
        /\ ys[Len(xs) + 1] = y
    BY <2>1, AppendProperties, LenProperties
  <2>. QED BY <2>2 DEF Y
<1>. HIDE DEF ys
<1>8. ASSUME NEW i \in B', NEW k, NEW w, k = Rank(B', i) + 1, w = Val(i, "step")'
      PROVE  StepOf(ys[k], w, i)'
  <2>1. CASE i = n
    <3>1. w = v /\ k = Len(xs) + 1
      BY <1>2, <1>4, <1>5, <1>8, <2>1
    <3>2. StepOf(y, v, n)'
      BY StepOpens
    <3>3. ys[k] = y
      BY <1>7, <3>1
    <3>. QED BY <2>1, <3>1, <3>2, <3>3
  <2>2. CASE i # n
    <3>1. i \in B /\ w = Val(i, "step") /\ k = Rank(B, i) + 1 /\ i \in StepStarts(w)
      BY <1>2, <1>5, <1>8, <2>2
    <3>2. k \in 1 .. Len(xs)
      BY <1>4, <1>6, <1>7, <3>1
    <3>3. StepOf(xs[k], w, i)
      BY <1>4, <3>1
    <3>4. ~ Finishes(e, ok, w)
      BY DEF Begins, Finishes
    <3>5. StepOf(xs[k], w, i)'
      BY <3>1, <3>3, <3>4, StepStays
    <3>. QED BY <1>7, <3>2, <3>5
  <2>. QED BY <2>1, <2>2
<1>9. Len(ys) = Cardinality(B')
  BY <1>2, <1>4, <1>5, <1>7
<1>10. StepsAre(ys)'
  BY <1>7, <1>8, <1>9 DEF StepsAre, B, Rank, Before
<1>. QED BY <1>10 DEF ys

(* Other events, and refused ones, leave the list alone.                      *)
LEMMA StepsSame ==
  ASSUME NEW n, NEW e, NEW ok, Extends(n, e, ok), \A w : OpenIs(w), NEW xs, StepsAre(xs),
         ~ (ok /\ e.type = "step_started"),
         \A w : ~ (Finishes(e, ok, w) /\ Open(w) > 0)
  PROVE  StepsAre(xs)'
<1>. DEFINE B == Begun
<1>1. /\ B' = B
      /\ \A i \in B : Val(i, "step")' = Val(i, "step") /\ i \in StepStarts(Val(i, "step"))
  BY BegunStep
<1>2. /\ Len(xs) = Cardinality(B) /\ \E X : xs \in Seq(X)
      /\ \A i \in B : StepOf(xs[Rank(B, i) + 1], Val(i, "step"), i)
  BY DEF StepsAre
<1>. HIDE DEF B
<1>3. ASSUME NEW i \in B', NEW k, NEW w, k = Rank(B', i) + 1, w = Val(i, "step")'
      PROVE  StepOf(xs[k], w, i)'
  <2>1. i \in B /\ w = Val(i, "step") /\ k = Rank(B, i) + 1 /\ i \in StepStarts(w)
    BY <1>1, <1>3
  <2>2. StepOf(xs[k], w, i)
    BY <1>2, <2>1
  <2>. QED BY <2>1, <2>2, StepStays
<1>4. Len(xs) = Cardinality(B')
  BY <1>1, <1>2
<1>. QED BY <1>2, <1>3, <1>4 DEF StepsAre, B, Rank, Before

(* An end closes the oldest open entry of its name, if there is one.          *)
LEMMA StepsEnd ==
  ASSUME NEW n, NEW e, NEW ok, Extends(n, e, ok), NEW v, Finishes(e, ok, v), \A w : OpenIs(w),
         NEW xs, StepsAre(xs), NEW out, out # "running", NEW dur,
         dur = IF Newest(StepStarts(v)) > Newest(StepEnds(v))
               THEN e.at - At(Newest(StepStarts(v))) ELSE 0
  PROVE  StepsAre(EndStep(xs, v, out, dur))'
<1>. DEFINE B == Begun
            S == StepStarts(v)
            c == Cardinality(Closing(v))
            R == {p \in 1 .. Len(xs) : xs[p].name = v /\ xs[p].status = "running"}
            y == [name |-> v, status |-> out, durationMs |-> dur]
            ys == EndStep(xs, v, out, dur)
<1>1. PICK X : xs \in Seq(X)
  BY DEF StepsAre
<1>2. /\ B \in SUBSET (1 .. n - 1) /\ B' = B
      /\ \A i \in B : Val(i, "step")' = Val(i, "step") /\ i \in StepStarts(Val(i, "step"))
      /\ \A i \in S : i \in B /\ Val(i, "step") = v
  BY BegunStep DEF Finishes
<1>3. n \in Nat \ {0} /\ n - 1 \in Nat /\ S \in SUBSET (1 .. n - 1)
  BY Earlier, StepSets
<1>4. /\ Len(xs) = Cardinality(B)
      /\ \A i \in B : StepOf(xs[Rank(B, i) + 1], Val(i, "step"), i)
  BY DEF StepsAre
<1>5. Open(v) \in Nat /\ Open(v) = Cardinality(S) - c /\ c \in Nat /\ Cardinality(S) \in Nat
  <2>1. Closing(v) \in SUBSET (1 .. n - 1) /\ Open(v) \in Nat
    BY ClosingStep
  <2>2. c \in Nat /\ Cardinality(S) \in Nat
    BY <1>3, <2>1, CountAdd
  <2>. QED BY <2>1, <2>2 DEF Open
<1>6. ys = IF R = {} THEN xs ELSE [xs EXCEPT ![Min(R)] = y]
  BY DEF EndStep
<1>7. \A i \in B : /\ xs[Rank(B, i) + 1].name = Val(i, "step")
                   /\ Val(i, "step") = v =>
                        (xs[Rank(B, i) + 1].status = "running" <=> Rank(S, i) >= c)
  BY <1>4 DEF StepOf
<1>. HIDE DEF B, S, c, y, ys
<1>8. /\ \A i \in B : Rank(B, i) \in Nat /\ Rank(B, i) < Cardinality(B)
      /\ \A i, j \in B : i < j => Rank(B, i) < Rank(B, j)
      /\ \A k \in Nat : k < Cardinality(B) => \E i \in B : Rank(B, i) = k
      /\ Cardinality(B) \in Nat
  BY <1>2, <1>3, Ranks
<1>9. /\ \A i \in S : Rank(S, i) \in Nat /\ Rank(S, i) < Cardinality(S)
      /\ \A i, j \in S : i < j => Rank(S, i) < Rank(S, j)
      /\ \A k \in Nat : k < Cardinality(S) => \E i \in S : Rank(S, i) = k
  BY <1>3, Ranks
<1>10. \A p \in R : \E i \in S : Rank(B, i) + 1 = p /\ Rank(S, i) >= c
  <2>1. SUFFICES ASSUME NEW p \in R PROVE \E i \in S : Rank(B, i) + 1 = p /\ Rank(S, i) >= c
    OBVIOUS
  <2>2. p \in 1 .. Cardinality(B) /\ p - 1 \in Nat /\ p - 1 < Cardinality(B)
    BY <1>4, <1>8
  <2>3. PICK i \in B : Rank(B, i) = p - 1
    BY <1>8, <2>2
  <2>4. Rank(B, i) + 1 = p
    BY <2>2, <2>3
  <2>5. Val(i, "step") = v /\ Rank(S, i) >= c
    BY <1>7, <2>4
  <2>6. i \in S
    BY <1>2, <2>5 DEF S
  <2>. QED BY <2>4, <2>5, <2>6
<1>11. CASE ~ (Open(v) > 0)
  <2>1. c = Cardinality(S)
    BY <1>5, <1>11
  <2>2. R = {}
    <3>1. ASSUME NEW p \in R PROVE FALSE
      <4>1. PICK i \in S : Rank(S, i) >= c
        BY <1>10
      <4>. QED BY <1>5, <1>9, <2>1, <4>1
    <3>. QED BY <3>1
  <2>3. ys = xs
    BY <1>6, <2>2
  <2>4. \A w : ~ (Finishes(e, ok, w) /\ Open(w) > 0)
    BY <1>11 DEF Finishes
  <2>5. ~ (ok /\ e.type = "step_started")
    BY DEF Finishes
  <2>6. StepsAre(xs)'
    BY <2>4, <2>5, StepsSame
  <2>. QED BY <2>3, <2>6 DEF ys
<1>12. CASE Open(v) > 0
  <2>1. c < Cardinality(S)
    BY <1>5, <1>12
  <2>2. PICK f \in S : Rank(S, f) = c
    BY <1>5, <1>9, <2>1
  <2>3. PICK q : q = Rank(B, f) + 1
    OBVIOUS
  <2>4. f \in B /\ Val(f, "step") = v
    BY <1>2
  <2>5. q \in 1 .. Len(xs)
    BY <1>4, <1>8, <2>3, <2>4
  <2>6. q \in R
    <3>1. c >= c
      BY <1>5
    <3>. QED BY <1>7, <2>2, <2>3, <2>4, <2>5, <3>1
  <2>7. \A p \in R : q <= p
    <3>1. SUFFICES ASSUME NEW p \in R PROVE q <= p
      OBVIOUS
    <3>2. PICK i \in S : Rank(B, i) + 1 = p /\ Rank(S, i) >= c
      BY <1>10
    <3>3. ~ (i < f)
      BY <1>5, <1>9, <2>2, <3>2
    <3>4. i \in B /\ i \in Int /\ f \in Int
      BY <1>2, <1>3
    <3>5. i = f \/ f < i
      BY <3>3, <3>4
    <3>6. i = f \/ Rank(B, f) < Rank(B, i)
      BY <1>8, <2>4, <3>4, <3>5
    <3>7. Rank(B, f) \in Nat /\ Rank(B, i) \in Nat
      BY <1>8, <2>4, <3>4
    <3>. QED BY <2>3, <3>2, <3>6, <3>7
  <2>8. Min(R) = q
    <3>1. R \subseteq Int
      OBVIOUS
    <3>. HIDE DEF R
    <3>. QED BY <2>6, <2>7, <3>1, MinIs
  <2>9. ys = [xs EXCEPT ![q] = y]
    BY <1>6, <2>6, <2>8
  <2>. HIDE DEF R
  <2>10. /\ ys \in Seq(X \cup {y}) /\ Len(ys) = Len(xs) /\ ys[q] = y
         /\ \A k \in 1 .. Len(xs) : k # q => ys[k] = xs[k]
    <3>. DEFINE Y == X \cup {y}
    <3>1. xs \in Seq(Y) /\ y \in Y
      BY <1>1
    <3>. HIDE DEF Y
    <3>2. ys \in Seq(Y) /\ Len(ys) = Len(xs) /\ \A k \in 1 .. Len(xs) : ys[k] = IF k = q THEN y ELSE xs[k]
      BY <2>5, <2>9, <3>1, ExceptSeq
    <3>. QED BY <2>5, <3>2 DEF Y
  <2>11. ASSUME NEW i \in B', NEW k, NEW w, k = Rank(B', i) + 1, w = Val(i, "step")'
         PROVE  StepOf(ys[k], w, i)'
    <3>1. i \in B /\ w = Val(i, "step") /\ k = Rank(B, i) + 1 /\ i \in StepStarts(w)
      BY <1>2, <2>11
    <3>2. CASE i = f
      <4>1. w = v /\ ys[k] = y
        BY <2>3, <2>4, <2>10, <3>1, <3>2
      <4>2. y.name = v /\ y.status # "running" /\ y.durationMs = dur
        BY DEF y
      <4>3. StepOf(y, v, f)'
        BY <1>12, <2>2, <4>2, StepCloses DEF S, c
      <4>. QED BY <3>2, <4>1, <4>3
    <3>3. CASE i # f
      <4>1. i \in Int /\ f \in Int /\ Rank(B, i) \in Nat /\ Rank(B, f) \in Nat
        BY <1>2, <1>3, <1>8, <2>4, <3>1
      <4>2. i < f \/ f < i
        BY <3>3, <4>1
      <4>3. Rank(B, i) # Rank(B, f)
        BY <1>8, <2>4, <3>1, <4>1, <4>2
      <4>4. k # q /\ k \in 1 .. Len(xs)
        BY <1>4, <1>8, <2>3, <3>1, <4>1, <4>3
      <4>5. ys[k] = xs[k]
        BY <2>10, <4>4
      <4>6. StepOf(xs[k], w, i)
        BY <1>4, <3>1
      <4>7. ~ (w = v /\ Rank(S, i) = c)
        <5>1. SUFFICES ASSUME w = v, Rank(S, i) = c PROVE FALSE
          OBVIOUS
        <5>2. i \in S
          BY <3>1, <5>1 DEF S
        <5>3. Rank(S, i) \in Nat /\ Rank(S, i) # Rank(S, f)
          BY <1>9, <4>2, <5>2
        <5>. QED BY <2>2, <5>1, <5>3
      <4>8. ~ (Finishes(e, ok, w) /\ Open(w) > 0
                 /\ Rank(StepStarts(w), i) = Cardinality(Closing(w)))
        BY <4>7 DEF Finishes, S, c
      <4>9. StepOf(xs[k], w, i)'
        BY <3>1, <4>6, <4>8, StepStays
      <4>. QED BY <4>5, <4>9
    <3>. QED BY <3>2, <3>3
  <2>12. Len(ys) = Cardinality(B')
    BY <1>2, <1>4, <2>10
  <2>13. StepsAre(ys)'
    BY <2>10, <2>11, <2>12 DEF StepsAre, B, Rank, Before
  <2>. QED BY <2>13 DEF ys
<1>. QED BY <1>11, <1>12

(* The time a running step counts from.                                       *)
Times(v) == LET i == Newest(StepStarts(v))
            IN  IF i > Newest(StepEnds(v)) THEN {[name |-> v, at |-> At(i)]} ELSE {}

LEMMA TimesStep ==
  ASSUME NEW n, NEW e, NEW ok, Extends(n, e, ok), NEW v
  PROVE  Times(v)' = IF Begins(e, ok, v) THEN {[name |-> v, at |-> e.at]}
                     ELSE IF Finishes(e, ok, v) THEN {} ELSE Times(v)
<1>. DEFINE P == StepStarts(v)
            M == StepEnds(v)
<1>1. /\ P \in SUBSET (1 .. n - 1) /\ M \in SUBSET (1 .. n - 1)
      /\ P' = IF Begins(e, ok, v) THEN P \cup {n} ELSE P
      /\ M' = IF Finishes(e, ok, v) THEN M \cup {n} ELSE M
  BY StepSets
<1>2. n \in Nat \ {0} /\ At(n)' = e.at /\ \A i \in 1 .. n - 1 : At(i)' = At(i)
  BY Earlier, AtStep
<1>3. PICK i, l : i = Newest(P)' /\ l = Newest(M)'
  OBVIOUS
<1>4. Times(v)' = IF i > l THEN {[name |-> v, at |-> At(i)']} ELSE {}
  BY <1>3 DEF Times
<1>5. Times(v) = IF Newest(P) > Newest(M) THEN {[name |-> v, at |-> At(Newest(P))]} ELSE {}
  BY DEF Times
<1>6. ~ (Begins(e, ok, v) /\ Finishes(e, ok, v))
  BY DEF Begins, Finishes
<1>7. i = Newest(P') /\ l = Newest(M')
  BY <1>3
<1>. HIDE DEF P, M
<1>8. /\ Newest(P \cup {n}) = n /\ Newest(P) \in 0 .. n - 1
      /\ Newest(M \cup {n}) = n /\ Newest(M) \in 0 .. n - 1
  BY <1>1, <1>2, NewestAdd
<1>9. CASE Begins(e, ok, v)
  <2>1. i = n /\ l = Newest(M) /\ i > l
    BY <1>1, <1>2, <1>6, <1>7, <1>8, <1>9
  <2>. QED BY <1>2, <1>4, <1>9, <2>1
<1>10. CASE Finishes(e, ok, v)
  <2>1. i = Newest(P) /\ l = n /\ ~ (i > l)
    BY <1>1, <1>2, <1>6, <1>7, <1>8, <1>10
  <2>. QED BY <1>4, <1>6, <1>10, <2>1
<1>11. CASE ~ Begins(e, ok, v) /\ ~ Finishes(e, ok, v)
  <2>1. i = Newest(P) /\ l = Newest(M)
    BY <1>1, <1>7, <1>11
  <2>2. i > l => i \in 1 .. n - 1
    BY <1>2, <1>8, <2>1
  <2>. QED BY <1>2, <1>4, <1>5, <1>11, <2>1, <2>2
<1>. QED BY <1>9, <1>10, <1>11

(* The step that began last, unless it has ended.                             *)
CurrentIs(x) == \A now, v : now = Newest(Begun) /\ v = Val(now, "step") =>
  x = IF now = 0 \/ After(StepEnds(v), now) # {} THEN "" ELSE v

LEMMA CurrentStep ==
  ASSUME NEW n, NEW e, NEW ok, Extends(n, e, ok), NEW x, CurrentIs(x)
  PROVE  CurrentIs(IF ok /\ e.type = "step_started" THEN Str(e, "step")
                   ELSE IF ok /\ e.type = "step_finished" /\ x = Str(e, "step") THEN ""
                   ELSE x)'
<1>. DEFINE B == Begun
            u == Str(e, "step")
            y == IF ok /\ e.type = "step_started" THEN u
                 ELSE IF ok /\ e.type = "step_finished" /\ x = u THEN "" ELSE x
<1>1. /\ B \in SUBSET (1 .. n - 1)
      /\ B' = IF ok /\ e.type = "step_started" THEN B \cup {n} ELSE B
      /\ Val(n, "step")' = u
  BY BegunStep
<1>2. n \in Nat \ {0} /\ \A i \in 1 .. n - 1 : Val(i, "step")' = Val(i, "step")
  BY Earlier, AtStep
<1>3. \A w : /\ StepEnds(w) \in SUBSET (1 .. n - 1)
             /\ StepEnds(w)' = IF Finishes(e, ok, w) THEN StepEnds(w) \cup {n} ELSE StepEnds(w)
  BY StepSets
<1>4. \A now, v : now = Newest(B) /\ v = Val(now, "step") =>
        x = IF now = 0 \/ After(StepEnds(v), now) # {} THEN "" ELSE v
  BY DEF CurrentIs
<1>. HIDE DEF B
<1>5. /\ Newest(B \cup {n}) = n /\ Newest(B) \in 0 .. n - 1
      /\ Newest(B) # 0 => Newest(B) \in B
  BY <1>1, <1>2, NewestAdd
<1>6. ASSUME NEW now, NEW v, now = Newest(B'), v = Val(now, "step")'
      PROVE  y = IF now = 0 \/ After(StepEnds(v)', now) # {} THEN "" ELSE v
  <2>1. CASE ok /\ e.type = "step_started"
    <3>1. now = n /\ v = u /\ y = u
      BY <1>1, <1>5, <1>6, <2>1
    <3>2. StepEnds(v)' = StepEnds(v)
      BY <1>3, <2>1 DEF Finishes
    <3>3. After(StepEnds(v), n) = {}
      <4>1. \A j \in StepEnds(v) : ~ (j > n)
        BY <1>2, <1>3
      <4>. QED BY <4>1 DEF After
    <3>. QED BY <1>2, <3>1, <3>2, <3>3
  <2>2. CASE ~ (ok /\ e.type = "step_started")
    <3>1. now = Newest(B)
      BY <1>1, <1>6, <2>2
    <3>2. CASE now = 0
      <4>1. x = ""
        BY <1>4, <3>1, <3>2
      <4>. QED BY <2>2, <3>2, <4>1
    <3>3. CASE now # 0
      <4>1. now \in 1 .. n - 1 /\ v = Val(now, "step")
        <5>1. now \in 1 .. n - 1
          BY <1>2, <1>5, <3>1, <3>3
        <5>. QED BY <1>2, <1>6, <5>1
      <4>2. x = IF After(StepEnds(v), now) # {} THEN "" ELSE v
        BY <1>4, <3>1, <3>3, <4>1
      <4>3. CASE Finishes(e, ok, v)
        <5>1. StepEnds(v)' = StepEnds(v) \cup {n} /\ n > now /\ v = u /\ ok /\ e.type = "step_finished"
          BY <1>2, <1>3, <4>1, <4>3 DEF Finishes
        <5>2. n \in After(StepEnds(v)', now)
          BY <5>1 DEF After
        <5>3. y = ""
          BY <2>2, <4>2, <5>1
        <5>. QED BY <5>2, <5>3
      <4>4. CASE ~ Finishes(e, ok, v)
        <5>1. StepEnds(v)' = StepEnds(v)
          BY <1>3, <4>4
        <5>2. y = x
          BY <2>2, <4>2, <4>4 DEF Finishes
        <5>. QED BY <3>3, <4>2, <5>1, <5>2
      <4>. QED BY <4>3, <4>4
    <3>. QED BY <3>2, <3>3
  <2>. QED BY <2>1, <2>2
<1>7. PICK z : z = y
  OBVIOUS
<1>. HIDE DEF y
<1>8. CurrentIs(z)'
  BY <1>6, <1>7 DEF CurrentIs, B, After
<1>. QED BY <1>7, <1>8 DEF y

(* How long a build lasted: from the last start before its last end.          *)
BuildBegun == Of({"build_started"})
BuildOver == Of({"build_finished"})
StartedIs(t) == \A i : i = Newest(BuildBegun) => t = IF i = 0 THEN 0 ELSE At(i)
DurationIs(d) == \A over, before :
  over = Newest(BuildOver) /\ before = Newest(Before(BuildBegun, over)) =>
    d = IF before = 0 THEN 0 ELSE At(over) - At(before)

LEMMA DurationStep ==
  ASSUME NEW n, NEW e, NEW ok, Extends(n, e, ok), EventsInv,
         NEW t, StartedIs(t), NEW d, DurationIs(d),
         NEW a, a = IF ok /\ e.type = "build_started" THEN e.at ELSE t,
         NEW c, c = IF ok /\ e.type = "build_finished" /\ t # 0 THEN e.at - t ELSE d
  PROVE  StartedIs(a)' /\ DurationIs(c)'
<1>. DEFINE S == BuildBegun
            F == BuildOver
<1>1. /\ S \in SUBSET (1 .. n - 1) /\ F \in SUBSET (1 .. n - 1)
      /\ S' = IF ok /\ e.type = "build_started" THEN S \cup {n} ELSE S
      /\ F' = IF ok /\ e.type = "build_finished" THEN F \cup {n} ELSE F
  BY OfOne DEF BuildBegun, BuildOver
<1>2. /\ n \in Nat \ {0} /\ n - 1 \in Nat
      /\ At(n)' = e.at /\ \A i \in 1 .. n - 1 : At(i)' = At(i)
  BY Earlier, AtStep
<1>3. \A i \in 1 .. n - 1 : At(i) # 0
  <2>1. \A i \in 1 .. n - 1 : log[i].event.at \in 1 .. MaxTime
    BY Earlier DEF EventsInv, Typed
  <2>. QED BY <2>1, ClockAssumption DEF At
<1>4. \A i : i = Newest(S) => t = IF i = 0 THEN 0 ELSE At(i)
  BY DEF StartedIs
<1>5. \A over, before : over = Newest(F) /\ before = Newest(Before(S, over)) =>
        d = IF before = 0 THEN 0 ELSE At(over) - At(before)
  BY DEF DurationIs
<1>. HIDE DEF S, F
<1>6. /\ Newest(S \cup {n}) = n /\ Newest(S) \in 0 .. n - 1 /\ (Newest(S) # 0 => Newest(S) \in S)
      /\ Newest(F \cup {n}) = n /\ Newest(F) \in 0 .. n - 1 /\ (S = {} <=> Newest(S) = 0)
  <2>1. /\ Newest(S \cup {n}) = n /\ Newest(S) \in 0 .. n - 1 /\ (Newest(S) # 0 => Newest(S) \in S)
        /\ (S = {} <=> Newest(S) = 0)
    BY <1>1, <1>2, NewestAdd
  <2>2. Newest(F \cup {n}) = n /\ Newest(F) \in 0 .. n - 1
    BY <1>1, <1>2, NewestAdd
  <2>. QED BY <2>1, <2>2
<1>7. ASSUME NEW i, i = Newest(S') PROVE a = IF i = 0 THEN 0 ELSE At(i)'
  <2>1. CASE ok /\ e.type = "build_started"
    <3>1. i = n /\ a = e.at
      BY <1>1, <1>6, <1>7, <2>1
    <3>. QED BY <1>2, <3>1
  <2>2. CASE ~ (ok /\ e.type = "build_started")
    <3>1. i = Newest(S) /\ a = t
      BY <1>1, <1>7, <2>2
    <3>2. i # 0 => i \in 1 .. n - 1
      BY <1>2, <1>6, <3>1
    <3>. QED BY <1>2, <1>4, <3>1, <3>2
  <2>. QED BY <2>1, <2>2
<1>8. ASSUME NEW over, NEW before, over = Newest(F'), before = Newest(Before(S', over))
      PROVE  c = IF before = 0 THEN 0 ELSE At(over)' - At(before)'
  <2>1. CASE ok /\ e.type = "build_finished"
    <3>1. over = n /\ S' = S
      BY <1>1, <1>6, <1>8, <2>1
    <3>2. Before(S, n) = S
      BY <1>1, <1>2, BeforeAdd
    <3>3. before = Newest(S)
      BY <1>8, <3>1, <3>2
    <3>4. CASE before = 0
      <4>1. t = 0 /\ S = {}
        BY <1>4, <1>6, <3>3, <3>4
      <4>2. \A k : Before(S, k) = {}
        BY <4>1 DEF Before
      <4>3. Newest(Before(S, Newest(F))) = 0
        BY <4>2 DEF Newest
      <4>4. d = 0
        BY <1>5, <4>3
      <4>. QED BY <3>4, <4>1, <4>4
    <3>5. CASE before # 0
      <4>1. before \in 1 .. n - 1
        BY <1>2, <1>6, <3>3, <3>5
      <4>2. t = At(before) /\ t # 0
        BY <1>3, <1>4, <3>3, <3>5, <4>1
      <4>. QED BY <1>2, <2>1, <3>1, <3>5, <4>1, <4>2
    <3>. QED BY <3>4, <3>5
  <2>2. CASE ~ (ok /\ e.type = "build_finished")
    <3>1. over = Newest(F) /\ c = d /\ over \in 0 .. n - 1
      BY <1>1, <1>6, <1>8, <2>2
    <3>2. Before(S \cup {n}, over) = Before(S, over)
      <4>1. ~ (n < over)
        BY <1>2, <3>1
      <4>. QED BY <4>1 DEF Before
    <3>3. before = Newest(Before(S, over))
      BY <1>1, <1>8, <3>2
    <3>4. Before(S, over) \in SUBSET (1 .. n - 1) /\ \A i \in Before(S, over) : i < over
      BY <1>1 DEF Before
    <3>5. before \in 0 .. n - 1 /\ (before # 0 => before \in Before(S, over))
      BY <1>2, <3>3, <3>4, NewestIs
    <3>6. d = IF before = 0 THEN 0 ELSE At(over) - At(before)
      BY <1>5, <3>1, <3>3
    <3>7. before # 0 => before \in 1 .. n - 1 /\ over \in 1 .. n - 1
      BY <1>2, <3>1, <3>4, <3>5
    <3>. QED BY <1>2, <3>1, <3>6, <3>7
  <2>. QED BY <2>1, <2>2
<1>9. StartedIs(a)'
  BY <1>7 DEF StartedIs, S, Newest
<1>10. DurationIs(c)'
  BY <1>8 DEF DurationIs, S, F, Newest, Before
<1>. QED BY <1>9, <1>10

--------------------------------------------------------------------------------
(* No end of a step reports that it runs: a status is one of success, failed  *)
(* and skipped (build.go:12, docs/cheatsheet.md:130).                         *)
EndsAsTold ==
  \A in \in Inputs["build"] : in.type = "step_finished" => Str(in, "status") # "running"

(* An inductive invariant of builds.                                          *)
BuildInv == kind = "build" =>
  /\ DOMAIN Cur = BuildKeys
  /\ \A v : OpenIs(v)
  /\ StepsAre(Cur.steps)
  /\ \A v : StartsOf(Cur, v) = Times(v)
  /\ CurrentIs(Cur.currentStep)
  /\ StartedIs(Cur.startedAt)
  /\ DurationIs(Cur.durationMs)

LEMMA BuildInit == Init => EventsInv /\ BuildInv
<1>1. SUFFICES ASSUME Init PROVE EventsInv /\ BuildInv
  OBVIOUS
<1>2. /\ Len(log) = 0 /\ (\A types : Of(types) = {})
      /\ \A types, k, vs : With(Of(types), k, vs) = {}
  BY <1>1, EmptySeq DEF Init, Pos, Of, With
<1>3. EventsInv
  BY <1>2 DEF EventsInv
<1>4. ASSUME kind = "build" PROVE BuildInv
  <2>1. Cur = BuildZero
    BY <1>1, <1>4 DEF Init, Cur, Zero
  <2>2. /\ DOMAIN Cur = BuildKeys /\ Cur.steps = <<>> /\ Cur.currentStep = ""
        /\ Cur.startedAt = 0 /\ Cur.durationMs = 0 /\ Cur.stepStarts = {}
    BY <2>1 DEF BuildZero, BuildKeys
  <2>3. Cardinality({}) = 0
    BY FS_EmptySet
  <2>4. \A v : StepStarts(v) = {} /\ StepEnds(v) = {} /\ Closing(v) = {}
    BY <1>2 DEF StepStarts, StepEnds, Begun, Closing
  <2>5. Newest({}) = 0
    BY DEF Newest
  <2>6. ASSUME NEW v PROVE OpenIs(v)
    <3>1. Open(v) = 0
      BY <2>3, <2>4 DEF Open
    <3>2. \A i : Surplus({}, {}, i, 0) = 0
      BY <2>3 DEF Surplus, Stretch
    <3>3. IsBalance({}, {}, 0, 0)
      BY <3>2 DEF IsBalance
    <3>. QED BY <1>2, <2>4, <3>1, <3>3 DEF OpenIs
  <2>7. Begun = {} /\ BuildBegun = {} /\ BuildOver = {}
    BY <1>2 DEF Begun, BuildBegun, BuildOver
  <2>8. StepsAre(<<>>)
    <3>1. <<>> \in Seq({}) /\ Len(<<>>) = 0
      BY EmptySeq
    <3>. QED BY <2>3, <2>7, <3>1 DEF StepsAre
  <2>9. \A v : StartsOf(Cur, v) = Times(v)
    <3>1. \A v : Times(v) = {}
      BY <2>4, <2>5 DEF Times
    <3>2. \A v : StartsOf(Cur, v) = {}
      BY <2>2 DEF StartsOf
    <3>. QED BY <3>1, <3>2
  <2>10. CurrentIs("") /\ StartedIs(0) /\ DurationIs(0)
    <3>1. \A k : Before({}, k) = {}
      BY DEF Before
    <3>. QED BY <2>5, <2>7, <3>1 DEF CurrentIs, StartedIs, DurationIs
  <2>. QED BY <2>2, <2>6, <2>8, <2>9, <2>10 DEF BuildInv
<1>. QED BY <1>3, <1>4 DEF BuildInv

LEMMA BuildNext ==
  ASSUME EndsAsTold, LogInv, EventsInv, BuildInv, Next PROVE BuildInv'
<1>1. PICK n, e : Takes(n, e) \/ Refuses(n, e)
  BY Steps
<1>2. SUFFICES ASSUME kind = "build" PROVE BuildInv'
  BY <1>1 DEF BuildInv, Extends, Takes, Refuses
<1>. DEFINE r == BuildApply(Cur, e)
<1>3. PICK s : s = Cur
  OBVIOUS
<1>4. kind' = kind /\ Apply(kind, snap, e) = r
  BY <1>1, <1>2 DEF Extends, Takes, Refuses, Apply, Cur
<1>5. /\ DOMAIN s = BuildKeys /\ (\A v : OpenIs(v)) /\ StepsAre(s.steps)
      /\ \A v : StartsOf(s, v) = Times(v)
      /\ CurrentIs(s.currentStep) /\ StartedIs(s.startedAt) /\ DurationIs(s.durationMs)
  BY <1>2, <1>3 DEF BuildInv
<1>6. PICK q : q = BuildApply(s, e)
  OBVIOUS
<1>7. BuildDoes(s, e, q) /\ r = q
  BY <1>3, <1>5, <1>6, BuildFields
<1>8. PICK xs, c, t, d : xs = s.steps /\ c = s.currentStep /\ t = s.startedAt /\ d = s.durationMs
  OBVIOUS
<1>9. StepsAre(xs) /\ CurrentIs(c) /\ StartedIs(t) /\ DurationIs(d)
  BY <1>5, <1>8
<1>10. PICK v : v = Str(e, "step")
  OBVIOUS
<1>. HIDE DEF r
<1>11. CASE Takes(n, e)
  <2>1. snap' = q /\ snap' # Nil /\ Cur' = q /\ Extends(n, e, TRUE)
    BY <1>4, <1>7, <1>11 DEF Takes, Cur
  <2>2. ASSUME NEW w PROVE OpenIs(w)'
    BY <1>5, <2>1, OpenStep
  <2>3. \A w : /\ Begins(e, TRUE, w) <=> e.type = "step_started" /\ w = v
               /\ Finishes(e, TRUE, w) <=> e.type = "step_finished" /\ w = v
    BY <1>10 DEF Begins, Finishes
  <2>4. ASSUME NEW w PROVE StartsOf(q, w) = Times(w)'
    <3>1. Times(w)' = IF Begins(e, TRUE, w) THEN {[name |-> w, at |-> e.at]}
                      ELSE IF Finishes(e, TRUE, w) THEN {} ELSE Times(w)
      BY <2>1, TimesStep
    <3>2. \A u : StartsOf(q, u) =
                   IF e.type = "step_started" /\ u = Str(e, "step")
                   THEN {[name |-> Str(e, "step"), at |-> e.at]}
                   ELSE IF e.type = "step_finished" /\ u = Str(e, "step")
                   THEN {} ELSE StartsOf(s, u)
      BY <1>7 DEF BuildDoes
    <3>3. StartsOf(q, w) = IF e.type = "step_started" /\ w = v THEN {[name |-> w, at |-> e.at]}
                           ELSE IF e.type = "step_finished" /\ w = v THEN {} ELSE StartsOf(s, w)
      <4>1. CASE w = v
        BY <1>10, <3>2, <4>1
      <4>2. CASE w # v
        BY <1>10, <3>2, <4>2
      <4>. QED BY <4>1, <4>2
    <3>4. /\ Begins(e, TRUE, w) <=> e.type = "step_started" /\ w = v
          /\ Finishes(e, TRUE, w) <=> e.type = "step_finished" /\ w = v
          /\ StartsOf(s, w) = Times(w)
      BY <1>5, <2>3
    <3>. QED BY <3>1, <3>3, <3>4
  <2>5. CurrentIs(q.currentStep)'
    <3>. DEFINE z == IF TRUE /\ e.type = "step_started" THEN Str(e, "step")
                     ELSE IF TRUE /\ e.type = "step_finished" /\ c = Str(e, "step") THEN ""
                     ELSE c
    <3>1. CurrentIs(z)'
      BY <1>9, <2>1, CurrentStep
    <3>2. q.currentStep = z
      BY <1>7, <1>8 DEF BuildDoes
    <3>. HIDE DEF z
    <3>. QED BY <3>1, <3>2
  <2>6. StartedIs(q.startedAt)' /\ DurationIs(q.durationMs)'
    <3>1. /\ q.startedAt = IF TRUE /\ e.type = "build_started" THEN e.at ELSE t
          /\ q.durationMs = IF TRUE /\ e.type = "build_finished" /\ t # 0 THEN e.at - t ELSE d
      BY <1>7, <1>8 DEF BuildDoes
    <3>. QED BY <1>9, <2>1, <3>1, DurationStep
  <2>7. StepsAre(q.steps)'
    <3>1. CASE e.type = "step_started"
      <4>. DEFINE y == [name |-> v, status |-> "running", durationMs |-> 0]
      <4>1. Begins(e, TRUE, v) /\ y.name = v /\ y.status = "running"
        BY <2>3, <3>1
      <4>2. q.steps = Append(xs, y)
        BY <1>7, <1>8, <1>10, <3>1 DEF BuildDoes
      <4>. HIDE DEF y
      <4>3. StepsAre(Append(xs, y))'
        BY <1>5, <1>9, <2>1, <4>1, StepsStart
      <4>. QED BY <4>2, <4>3
    <3>2. CASE e.type = "step_finished"
      <4>1. PICK out, dur : out = Outcome(e) /\ dur = Took(s, e)
        OBVIOUS
      <4>2. out # "running"
        <5>1. Str(e, "status") # "running"
          <6>1. PICK in \in Inputs["build"] : e.type = in.type /\ e.payload = in.payload
            BY <1>2, <2>1 DEF Extends
          <6>2. Str(e, "status") = Str(in, "status")
            BY <6>1 DEF Str, Get, Has
          <6>. QED BY <3>2, <6>1, <6>2 DEF EndsAsTold
        <5>. QED BY <4>1, <5>1 DEF Outcome
      <4>3. dur = IF Newest(StepStarts(v)) > Newest(StepEnds(v))
                  THEN e.at - At(Newest(StepStarts(v))) ELSE 0
        <5>. DEFINE i == Newest(StepStarts(v))
                    o == [name |-> v, at |-> At(i)]
        <5>1. StartsOf(s, v) = IF i > Newest(StepEnds(v)) THEN {o} ELSE {}
          BY <1>5 DEF Times
        <5>2. dur = IF StartsOf(s, v) = {} THEN 0
                    ELSE e.at - (CHOOSE x \in StartsOf(s, v) : TRUE).at
          BY <1>10, <4>1 DEF Took
        <5>3. o.at = At(i)
          OBVIOUS
        <5>. HIDE DEF i, o
        <5>4. (CHOOSE x \in {o} : TRUE) = o
          OBVIOUS
        <5>5. CASE i > Newest(StepEnds(v))
          <6>1. StartsOf(s, v) = {o}
            BY <5>1, <5>5
          <6>2. dur = e.at - o.at
            BY <5>2, <5>4, <6>1
          <6>. QED BY <5>3, <5>5, <6>2 DEF i
        <5>6. CASE ~ (i > Newest(StepEnds(v)))
          <6>1. StartsOf(s, v) = {}
            BY <5>1, <5>6
          <6>. QED BY <5>2, <5>6, <6>1 DEF i
        <5>. QED BY <5>5, <5>6
      <4>4. Finishes(e, TRUE, v)
        BY <2>3, <3>2
      <4>5. StepsAre(EndStep(xs, v, out, dur))'
        BY <1>5, <1>9, <2>1, <4>2, <4>3, <4>4, StepsEnd
      <4>6. q.steps = EndStep(xs, v, out, dur)
        BY <1>7, <1>8, <1>10, <3>2, <4>1 DEF BuildDoes
      <4>. QED BY <4>5, <4>6
    <3>3. CASE e.type \notin {"step_started", "step_finished"}
      <4>1. \A w : ~ (Finishes(e, TRUE, w) /\ Open(w) > 0)
        BY <2>3, <3>3
      <4>2. StepsAre(xs)'
        BY <1>5, <1>9, <2>1, <3>3, <4>1, StepsSame
      <4>3. q.steps = xs
        BY <1>7, <1>8, <3>3 DEF BuildDoes
      <4>. QED BY <4>2, <4>3
    <3>. QED BY <3>1, <3>2, <3>3
  <2>8. DOMAIN q = BuildKeys
    BY <1>7 DEF BuildDoes
  <2>. QED BY <2>1, <2>2, <2>4, <2>5, <2>6, <2>7, <2>8 DEF BuildInv, StartsOf
<1>12. CASE Refuses(n, e)
  <2>1. Cur' = s /\ Extends(n, e, FALSE)
    BY <1>3, <1>4, <1>12 DEF Refuses, Cur
  <2>2. ASSUME NEW w PROVE OpenIs(w)'
    BY <1>5, <2>1, OpenStep
  <2>3. \A w : ~ Begins(e, FALSE, w) /\ ~ Finishes(e, FALSE, w)
    BY DEF Begins, Finishes
  <2>4. ASSUME NEW w PROVE StartsOf(s, w) = Times(w)'
    <3>1. Times(w)' = IF Begins(e, FALSE, w) THEN {[name |-> w, at |-> e.at]}
                      ELSE IF Finishes(e, FALSE, w) THEN {} ELSE Times(w)
      BY <2>1, TimesStep
    <3>. QED BY <1>5, <2>3, <3>1
  <2>5. CurrentIs(c)'
    <3>. DEFINE z == IF FALSE /\ e.type = "step_started" THEN Str(e, "step")
                     ELSE IF FALSE /\ e.type = "step_finished" /\ c = Str(e, "step") THEN ""
                     ELSE c
    <3>1. CurrentIs(z)'
      BY <1>9, <2>1, CurrentStep
    <3>. QED BY <3>1
  <2>6. StartedIs(t)' /\ DurationIs(d)'
    <3>1. /\ t = IF FALSE /\ e.type = "build_started" THEN e.at ELSE t
          /\ d = IF FALSE /\ e.type = "build_finished" /\ t # 0 THEN e.at - t ELSE d
      OBVIOUS
    <3>. QED BY <1>9, <2>1, <3>1, DurationStep
  <2>7. StepsAre(xs)'
    BY <1>5, <1>9, <2>1, <2>3, StepsSame
  <2>. QED BY <1>5, <1>8, <2>1, <2>2, <2>4, <2>5, <2>6, <2>7 DEF BuildInv, StartsOf
<1>. QED BY <1>1, <1>11, <1>12

(* While every end of a step reports one of the ends, a build's snapshot has  *)
(* an entry for each start of a step, in their order: it runs exactly until   *)
(* the end that comes for it, those that find no entry of the name running    *)
(* aside, and it lasted from the latest start of the name unless an end has   *)
(* used that up; the current step is the one that began last, unless it has   *)
(* ended; the build lasted from the last start before its last end            *)
(* (build.go:72-133).                                                         *)
THEOREM BuildsAreTold == ASSUME EndsAsTold PROVE Spec => []BuildSnapshot
<1>. DEFINE IInv == LogInv /\ EventsInv /\ BuildInv
<1>1. Init => IInv
  BY DeployInit, BuildInit
<1>2. IInv /\ [Next]_vars => IInv'
  <2>1. SUFFICES ASSUME LogInv, EventsInv, BuildInv, [Next]_vars PROVE IInv'
    OBVIOUS
  <2>2. CASE Next
    <3>1. PICK n, e : Takes(n, e) \/ Refuses(n, e)
      BY <2>1, <2>2, Steps
    <3>2. EventsInv'
      BY <2>1, <3>1, EventsNext DEF Takes, Refuses
    <3>. QED BY <2>1, <2>2, <3>2, LogNext, BuildNext
  <2>3. CASE UNCHANGED vars
    <3>1. LogInv'
      BY <2>1, <2>3 DEF vars, LogInv, Pos
    <3>2. EventsInv'
      BY <2>1, <2>3 DEF vars, EventsInv, Typed
    <3>3. BuildInv' <=> BuildInv
      BY <2>3 DEF vars, BuildInv, Cur, OpenIs, Open, IsBalance, Surplus, Stretch, StepsAre, StepOf,
                  Closer, Closing, Balance, Lasts, Rank, StepStarts, StepEnds, Begun, Times,
                  CurrentIs, StartedIs, DurationIs, BuildBegun, BuildOver, StartsOf, Newest,
                  Before, After, With, Of, Pos, Val, At
    <3>. QED BY <2>1, <3>1, <3>2, <3>3
  <2>. QED BY <2>1, <2>2, <2>3
<1>3. IInv => BuildSnapshot
  <2>1. SUFFICES ASSUME LogInv, BuildInv, kind = "build", snap # Nil PROVE BuildSnapshot
    BY DEF BuildSnapshot, Is
  <2>2. /\ (\A v : OpenIs(v)) /\ StepsAre(snap.steps)
        /\ CurrentIs(snap.currentStep) /\ StartedIs(snap.startedAt) /\ DurationIs(snap.durationMs)
    BY <2>1 DEF BuildInv, Cur
  <2>3. Len(log) \in Nat /\ \A v : StepStarts(v) \in SUBSET (1 .. Len(log))
                                /\ Closing(v) \in SUBSET (1 .. Len(log))
    BY <2>1, LenProperties DEF LogInv, StepStarts, StepEnds, Closing, Begun, With, Of, Pos
  <2>4. ASSUME NEW i \in Begun
        PROVE  LET v == Val(i, "step")
                   step == snap.steps[Rank(Begun, i) + 1]
               IN  /\ step.name = v
                   /\ step.status = "running" <=> Closer(v, i) = {}
                   /\ \A j \in Closer(v, i) : step.durationMs = Lasts(v, j)
    <3>. DEFINE v == Val(i, "step")
                step == snap.steps[Rank(Begun, i) + 1]
                S == StepStarts(v)
                C == Closing(v)
    <3>1. StepOf(step, v, i)
      BY <2>2 DEF StepsAre
    <3>2. i \in S
      BY DEF StepStarts, With
    <3>3. S \in SUBSET (1 .. Len(log)) /\ C \in SUBSET (1 .. Len(log))
      BY <2>3
    <3>. HIDE DEF v, step, S, C
    <3>4. Rank(S, i) \in Nat
      BY <2>3, <3>2, <3>3, Ranks
    <3>5. /\ Cardinality(C) \in Nat
          /\ \A j \in C : Rank(C, j) \in Nat /\ Rank(C, j) < Cardinality(C)
          /\ \A k \in Nat : k < Cardinality(C) => \E j \in C : Rank(C, j) = k
      BY <2>3, <3>3, Ranks
    <3>6. Rank(S, i) >= Cardinality(C) <=> Closer(v, i) = {}
      <4>1. Closer(v, i) = {j \in C : Rank(C, j) = Rank(S, i)}
        BY DEF Closer, S, C
      <4>2. CASE Rank(S, i) >= Cardinality(C)
        <5>1. \A j \in C : Rank(C, j) # Rank(S, i)
          BY <3>4, <3>5, <4>2
        <5>. QED BY <4>1, <4>2, <5>1
      <4>3. CASE ~ (Rank(S, i) >= Cardinality(C))
        <5>1. PICK j \in C : Rank(C, j) = Rank(S, i)
          BY <3>4, <3>5, <4>3
        <5>. QED BY <4>1, <4>3, <5>1
      <4>. QED BY <4>2, <4>3
    <3>. QED BY <3>1, <3>6 DEF StepOf, v, step, S, C
  <2>5. Len(snap.steps) = Cardinality(Begun)
    BY <2>2 DEF StepsAre
  <2>6. LET now == Newest(Begun)
        IN  snap.currentStep = IF now = 0 \/ After(StepEnds(Val(now, "step")), now) # {}
                               THEN "" ELSE Val(now, "step")
    BY <2>2 DEF CurrentIs
  <2>7. LET over == Newest(Of({"build_finished"}))
            before == Newest(Before(Of({"build_started"}), over))
        IN  snap.durationMs = IF before = 0 THEN 0 ELSE At(over) - At(before)
    BY <2>2 DEF DurationIs, BuildBegun, BuildOver
  <2>. QED BY <2>4, <2>5, <2>6, <2>7
           DEF BuildSnapshot, Begun, StepStarts, StepEnds, Closing, Closer, Lasts, Rank
<1>. QED BY <1>1, <1>2, <1>3, PTL DEF Spec

================================================================================
