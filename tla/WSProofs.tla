--------------------------------- MODULE WSProofs -------------------------------
(******************************************************************************)
(* Proofs about the WebSocket session: what a connection's map of             *)
(* subscriptions says, the place of the ack in the frames of a subscription,  *)
(* what a cancelled subscription may still send, and that a session keeps the *)
(* promise of EventStream.  The session runs over the broker, whose           *)
(* invariants come from BrokerProofs.                                         *)
(******************************************************************************)
EXTENDS WSSession, BrokerProofs, Recursion, FiniteSetTheorems

(* The frames for a client; n is a seq, a count or 0.                         *)
FrameTypes == {"event", "ack", "lagging", "error", "pong", "state"}
Msgs == [type : FrameTypes, by : Subs \cup {None}, n : Nat]

Working(s) == owner[s] \in Conns /\ busy[owner[s]] = s

Holds(s) == fwd[s] \in {"check", "deliver"}

WSTypeOK ==
  /\ reader \in [Conns -> {"read", "subscribe", "publish", "unsubscribe", "closeall", "end"}]
  /\ subsMap \in [Conns -> [Topics -> Subs \cup {None}]]
  /\ busy \in [Conns -> Subs \cup {None}]
  /\ pos \in [Conns -> Nat]
  /\ closing \in [Conns -> SUBSET Subs]
  /\ sent \in [Conns -> Seq(Msgs)]
  /\ owner \in [Subs -> Conns \cup {None}]
  /\ fwd \in [Subs -> {"none", "select", "check", "deliver", "exit"}]
  /\ held \in [Subs -> Frame \cup {None}]
  /\ lastLag \in [Subs -> Nat]
  /\ \A s \in Subs : Holds(s) => held[s] \in Frame

(* What handleSubscribe is working on is neither in the map nor forwarded,    *)
(* and the entry it will make is free ...                                     *)
BusyInv(c) ==
  /\ reader[c] = "subscribe" <=> busy[c] # None
  /\ pc[c] # "idle" => reader[c] = "publish"
  /\ closing[c] # {} => reader[c] \in {"unsubscribe", "closeall"}
  /\ busy[c] # None => /\ owner[busy[c]] = c
                       /\ stage[busy[c]] # "none"
                       /\ fwd[busy[c]] = "none"
                       /\ subsMap[c][subTopic[busy[c]]] = None

(* ... an entry of the map is a live subscription of its topic ...            *)
EntryInv(c) ==
  \A t \in Topics : LET s == subsMap[c][t] IN
    s # None => /\ owner[s] = c /\ stage[s] = "live" /\ subTopic[s] = t
                /\ fwd[s] # "none" /\ s \notin closing[c]

(* ... one that is being closed has left it ...                               *)
ClosingInv(c) ==
  \A s \in closing[c] : owner[s] = c /\ stage[s] \in {"live", "closed"} /\ fwd[s] # "none"

(* ... and a subscription is in one of these places from Subscribe until it   *)
(* is done.                                                                   *)
PlaceInv(s) ==
  /\ owner[s] = None <=> stage[s] = "none"
  /\ stage[s] = "none" => fwd[s] = "none"
  /\ fwd[s] # "none" => stage[s] \in {"live", "closed"}
  /\ stage[s] = "read" => Working(s)
  /\ stage[s] = "live" =>
       Working(s) \/ subsMap[owner[s]][subTopic[s]] = s \/ s \in closing[owner[s]]
  /\ stage[s] = "closed" => Working(s) \/ s \in closing[owner[s]] \/ phase[s] = "done"

PlacesInv ==
  /\ \A c \in Conns : BusyInv(c) /\ EntryInv(c) /\ ClosingInv(c)
  /\ \A s \in Subs : PlaceInv(s)

(* What forward holds is above the fence and from the stream.                 *)
HeldInv(s) ==
  Holds(s) => LET e == held[s].event IN
    /\ fence[s] < e.seq
    /\ subTopic[s] \in Topics /\ e.seq <= Len(events[subTopic[s]])

(* The frames of a connection belong to its subscriptions; their ack carries  *)
(* the fence, and until it comes they are events up to the fence.             *)
FrameInv(c) ==
  \A i \in 1 .. Len(sent[c]) : LET m == sent[c][i] IN
    /\ m.type \in {"event", "lagging"} => m.by # None
    /\ m.by # None =>
         /\ owner[m.by] = c /\ stage[m.by] \in {"live", "closed"}
         /\ m.type = "ack" => m.n = fence[m.by]
         /\ fwd[m.by] = "none" => m.type = "event" /\ m.n <= fence[m.by]

(* A nonempty backfill ends with the last event there was.                    *)
SeenInv(s) == backfill[s] # <<>> => fence[s] = seenTo[s]

(* s is over, and nothing later than the n-th event is on its way through it. *)
Dry(s, n) ==
  /\ phase[s] = "done"
  /\ \A i \in 1 .. Len(chan[s]) : chan[s][i].event.seq <= n
  /\ \A p \in Publishers : Owed(p, s) => cur[p].seq <= n

Spent(s, n) == Dry(s, n) /\ (Holds(s) => held[s].event.seq <= n)

Rivals(r, s) == r # s /\ owner[r] = owner[s] /\ subTopic[r] = subTopic[s]

(* Of the subscriptions of a topic that a connection had, all but the newest  *)
(* are over, and they hold nothing that was not there when the newest one     *)
(* read its backfill.                                                         *)
RivalInv(c) ==
  LET r == busy[c] IN
  r # None => \A s \in Subs : Rivals(r, s) =>
    /\ phase[s] = "done"
    /\ stage[r] = "live" => Spent(s, seenTo[r])

Overtaken(c) ==
  \A i, j \in 1 .. Len(sent[c]) : LET s == sent[c][i].by  r == sent[c][j].by IN
    i < j /\ sent[c][j].type = "ack" /\ s # None /\ r # None /\ Rivals(r, s)
      => Spent(s, seenTo[r])

--------------------------------------------------------------------------------
(* The steps of the session, sorted by what they have in common.              *)
Idle(c) == Write(c) \/ WriterExit(c) \/ WriteTimeout(c) \/ Break(c)

AtOnce(c) ==
  \/ \E t \in Topics : RefuseSubscribe(c, t)
  \/ \E op \in Ops : Answer(c, op)

Finish(c) == FinishUnsubscribe(c) \/ HandlerReturn(c)

PublisherMove(p) ==
  /\ UNCHANGED wsVars
  /\ \/ Lock(p)
     \/ PublishStep(p) /\ (p \in Conns => pc'[p] # "idle")
     \/ p \notin Conns /\ \E t \in Topics : \E ok \in Outcomes(t) : PublishCall(p, t, ok, 0)

ConnMove(c) ==
  \/ Idle(c) \/ AtOnce(c) \/ Finish(c)
  \/ \E t \in Topics, from \in From, s \in Subs : BeginSubscribe(c, t, from, s)
  \/ SubscribeError(c) \/ SendBackfill(c) \/ FinishSubscribe(c)
  \/ \E t \in Topics : RecvUnsubscribe(c, t)
  \/ ReadError(c)
  \/ \E s \in Subs : CancelSub(c, s)
  \/ \E t \in Topics : \E ok \in Outcomes(t) : BeginPublish(c, t, ok)
  \/ EndPublish(c)

SubMove(s) ==
  \/ ForwardTake(s) \/ ForwardLag(s) \/ ForwardEvent(s) \/ ForwardExit(s)
  \/ SubscriptionStep(s)

WSAct ==
  \/ \E c \in Conns : ConnMove(c)
  \/ \E s \in Subs : SubMove(s)
  \/ \E p \in Publishers : PublisherMove(p)
  \/ UNCHANGED vars

LEMMA NextIsWSAct == [WSNext]_vars => WSAct
<1>1. ASSUME NEW c \in Conns, ClientOp(c) PROVE ConnMove(c)
  BY <1>1, FromsAssumption DEF ClientOp, ConnMove, AtOnce
<1>2. ASSUME NEW c \in Conns, ReaderStep(c) PROVE ConnMove(c)
  BY <1>2 DEF ReaderStep, ConnMove, Finish
<1>3. ASSUME NEW c \in Conns, WriterStep(c) \/ Break(c) \/ WriteTimeout(c) PROVE ConnMove(c)
  BY <1>3 DEF WriterStep, ConnMove, Idle
<1>4. ASSUME NEW s \in Subs, Forward(s) \/ SubscriptionStep(s) PROVE SubMove(s)
  BY <1>4 DEF Forward, SubMove
<1>. QED
  BY <1>1, <1>2, <1>3, <1>4 DEF WSNext, WSAct, PublisherStep, PublisherMove

(* Seen from the broker, the session does what its callers may do.            *)
LEMMA ActIsBrokerAct ==
  ASSUME WSAct, \A s \in Subs : PlaceInv(s)
  PROVE  BrokerAct
<1>1. ASSUME NEW c \in Conns, ConnMove(c) PROVE BrokerAct
  <2>0. c \in Publishers
    BY ConnsAssumption
  <2>1. CASE Idle(c) \/ AtOnce(c) \/ Finish(c)
    BY <2>1
       DEF Idle, Write, WriterExit, WriteTimeout, Break, AtOnce, RefuseSubscribe, Answer, Finish,
           FinishUnsubscribe, HandlerReturn, BrokerAct
  <2>2. ASSUME NEW t \in Topics, NEW from \in From, NEW s \in Subs, BeginSubscribe(c, t, from, s)
        PROVE  BrokerAct
    BY <2>2 DEF BeginSubscribe, BrokerAct, SubscriberAct
  <2>3. CASE SubscribeError(c) \/ SendBackfill(c) \/ FinishSubscribe(c) \/ ReadError(c)
    BY <2>3 DEF SubscribeError, SendBackfill, FinishSubscribe, ReadError, BrokerAct
  <2>4. ASSUME NEW t \in Topics, RecvUnsubscribe(c, t) PROVE BrokerAct
    BY <2>4 DEF RecvUnsubscribe, BrokerAct
  <2>5. ASSUME NEW s \in Subs, CancelSub(c, s) PROVE BrokerAct
    BY <2>5 DEF CancelSub, BrokerAct, SubscriberAct
  <2>6. ASSUME NEW t \in Topics, NEW ok \in Outcomes(t), BeginPublish(c, t, ok) PROVE BrokerAct
    BY <2>0, <2>6 DEF BeginPublish, BrokerAct, PublisherAct
  <2>7. CASE EndPublish(c)
    BY <2>0, <2>7 DEF EndPublish, BrokerAct, PublisherAct, PublishStep
  <2>. QED BY <1>1, <2>1, <2>2, <2>3, <2>4, <2>5, <2>6, <2>7 DEF ConnMove
<1>2. ASSUME NEW s \in Subs, SubMove(s) PROVE BrokerAct
  <2>1. CASE ForwardTake(s)
    BY <2>1 DEF ForwardTake, PlaceInv, BrokerAct, SubscriberAct, Consume
  <2>2. CASE ForwardLag(s) \/ ForwardEvent(s) \/ ForwardExit(s)
    BY <2>2 DEF ForwardLag, ForwardEvent, ForwardExit, BrokerAct
  <2>3. CASE SubscriptionStep(s)
    BY <2>3 DEF SubscriptionStep, BrokerAct, SubscriberAct
  <2>. QED BY <1>2, <2>1, <2>2, <2>3 DEF SubMove
<1>3. ASSUME NEW p \in Publishers, PublisherMove(p) PROVE BrokerAct
  <2>1. 0 \in Nat
    OBVIOUS
  <2>. QED BY <1>3, <2>1 DEF PublisherMove, BrokerAct, PublisherAct
<1>4. CASE UNCHANGED vars
  BY <1>4 DEF vars, BrokerAct
<1>. QED BY <1>1, <1>2, <1>3, <1>4 DEF WSAct

--------------------------------------------------------------------------------
(* What a step puts into the outgoing queues: at most one frame, which is an  *)
(* answer, or a frame of the subscription being set up, or one of a forwarder *)
(* (ws.go:108-115, 201-235).                                                  *)
Answers(m) == m.by = None /\ m.type \notin {"event", "lagging"}

SetsUp(c, m) ==
  LET s == busy[c] IN
  /\ s \in Subs /\ m.by = s /\ owner[s] = c /\ stage[s] = "live" /\ fwd[s] = "none"
  /\ \/ m.type = "event" /\ m.n <= fence[s]
     \/ m.type = "ack" /\ m.n = fence[s] /\ fwd'[s] # "none"

Forwards(c, m) ==
  LET s == m.by IN
  /\ s \in Subs /\ owner[s] = c /\ Holds(s)
  /\ \/ m.type = "lagging"
     \/ m.type = "event" /\ m.n = held[s].event.seq

NewFrame(c, m) == Answers(m) \/ SetsUp(c, m) \/ Forwards(c, m)

Posts(c) ==
  \E m \in Msgs : NewFrame(c, m) /\ sent'[c] = Append(sent[c], m)

SentOK == /\ sent' \in [Conns -> Seq(Msgs)]
          /\ \A c \in Conns : sent'[c] = sent[c] \/ Posts(c)

LEMMA SentSame ==
  ASSUME WSTypeOK, UNCHANGED sent
  PROVE  SentOK
BY DEF SentOK, WSTypeOK

LEMMA EnqueueFacts ==
  ASSUME WSTypeOK, NEW c \in Conns, NEW m \in Msgs, Enqueue(c, m), NewFrame(c, m)
  PROVE  SentOK
<1>1. sent \in [Conns -> Seq(Msgs)]
  BY DEF WSTypeOK
<1>2. Append(sent[c], m) \in Seq(Msgs)
  BY <1>1, AppendProperties
<1>3. CASE sent' = [sent EXCEPT ![c] = Append(@, m)]
  BY <1>1, <1>2, <1>3 DEF SentOK, Posts
<1>4. CASE sent' = sent
  BY <1>4, SentSame
<1>. QED BY <1>3, <1>4 DEF Enqueue

(* The events that handleSubscribe sends are those up to the fence.           *)
LEMMA BackfillEvent ==
  ASSUME TypeInv, NEW s \in Subs, BackfillIsStretch(s), stage[s] = "live",
         NEW j \in 1 .. Len(backfill[s])
  PROVE  backfill[s][j].seq \in Nat /\ backfill[s][j].seq <= fence[s]
<1>. DEFINE b == backfill[s]
            log == events[subTopic[s]]
<1>1. /\ b \in Seq(Event) /\ subTopic[s] \in Topics /\ SeqIsPosition /\ fence[s] \in Nat
      /\ log \in Seq(Event)
  BY DEF TypeInv, BrokerTypeOK, LockHeld
<1>2. Len(b) \in Nat /\ Len(log) \in Nat /\ b[j] \in Event /\ b # <<>>
  BY <1>1, ElementOfSeq, LenProperties
<1>3. /\ fence[s] \in Len(b) .. Len(log)
      /\ b[j] = log[fence[s] - Len(b) + j]
  BY <1>2 DEF BackfillIsStretch
<1>. HIDE DEF b, log
<1>4. fence[s] - Len(b) + j \in 1 .. Len(log)
  BY <1>1, <1>2, <1>3 DEF b
<1>5. b[j].seq = fence[s] - Len(b) + j
  BY <1>1, <1>3, <1>4 DEF SeqIsPosition, log
<1>6. j \in Nat /\ j <= Len(b)
  BY DEF b
<1>. QED BY <1>1, <1>2, <1>3, <1>5, <1>6 DEF b

LEMMA MsgType ==
  ASSUME NEW type \in FrameTypes, NEW s \in Subs \cup {None}, NEW n \in Nat
  PROVE  /\ Msg(type, s, n) \in Msgs
         /\ Msg(type, s, n).type = type /\ Msg(type, s, n).by = s /\ Msg(type, s, n).n = n
BY DEF Msg, Msgs

LEMMA SentStep ==
  ASSUME BaseInv, \A s \in Subs : BackfillIsStretch(s), WSTypeOK, PlacesInv, WSAct
  PROVE  SentOK
<1>0. TypeInv /\ \A s \in Subs : s # None
  BY NoneAssumption DEF BaseInv
<1>1. ASSUME NEW c \in Conns, Idle(c) \/ Finish(c) \/ ReadError(c) PROVE UNCHANGED sent
  BY <1>1
     DEF Idle, Write, WriterExit, WriteTimeout, Break, Finish, FinishUnsubscribe, HandlerReturn,
         ReadError, outVars
<1>2. ASSUME NEW c \in Conns, NEW t \in Topics, NEW from \in From, NEW s \in Subs,
             BeginSubscribe(c, t, from, s)
      PROVE  UNCHANGED sent
  BY <1>2 DEF BeginSubscribe, outVars
<1>3. ASSUME NEW c \in Conns, NEW t \in Topics,
             RecvUnsubscribe(c, t) \/ \E ok \in Outcomes(t) : BeginPublish(c, t, ok)
      PROVE  UNCHANGED sent
  BY <1>3 DEF RecvUnsubscribe, BeginPublish, outVars
<1>4. ASSUME NEW c \in Conns, NEW s \in Subs, CancelSub(c, s) PROVE UNCHANGED sent
  BY <1>4 DEF CancelSub, outVars
<1>5. ASSUME NEW c \in Conns, NEW type \in FrameTypes, NEW n \in Nat,
             type \notin {"event", "lagging"}, Enqueue(c, Msg(type, None, n))
      PROVE  SentOK
  BY <1>5, MsgType, EnqueueFacts DEF NewFrame, Answers
<1>6. ASSUME NEW c \in Conns, AtOnce(c) \/ SubscribeError(c) PROVE SentOK
  <2>1. \A t \in Topics : Len(GetState(t)) \in Nat
    BY <1>0, LenProperties DEF TypeInv, BrokerTypeOK, GetState
  <2>2. {"error", "pong", "state"} \subseteq FrameTypes
    BY DEF FrameTypes
  <2>3. CASE \E t \in Topics : RefuseSubscribe(c, t)
    BY <1>5, <2>2, <2>3 DEF RefuseSubscribe
  <2>4. CASE SubscribeError(c)
    BY <1>5, <2>2, <2>4 DEF SubscribeError
  <2>5. CASE \E op \in Ops : Answer(c, op)
    BY <1>5, <2>1, <2>2, <2>5 DEF Answer
  <2>. QED BY <1>6, <2>3, <2>4, <2>5 DEF AtOnce
<1>7. ASSUME NEW c \in Conns, EndPublish(c) PROVE SentOK
  <2>1. {"error", "ack"} \subseteq FrameTypes
    BY DEF FrameTypes
  <2>2. c \in Publishers
    BY ConnsAssumption
  <2>3. CASE FinishPublish(c) /\ Enqueue(c, Msg("ack", None, cur[c].seq))
    <3>1. cur[c].seq \in Nat
      BY <1>0, <2>2, <2>3 DEF FinishPublish, TypeInv, LockHeld, Event
    <3>. QED BY <1>5, <2>1, <2>3, <3>1
  <2>4. CASE AppendFails(c) /\ Enqueue(c, Msg("error", None, 0))
    BY <1>5, <2>1, <2>4
  <2>. QED BY <1>7, <2>3, <2>4 DEF EndPublish
<1>8. ASSUME NEW c \in Conns, SendBackfill(c) PROVE SentOK
  <2>. DEFINE s == busy[c]
              m == Msg("event", s, backfill[s][pos[c] + 1].seq)
  <2>1. s \in Subs /\ owner[s] = c /\ fwd[s] = "none"
    BY <1>8 DEF SendBackfill, PlacesInv, BusyInv, WSTypeOK
  <2>2. stage[s] = "live" /\ pos[c] + 1 \in 1 .. Len(backfill[s])
    <3>1. pos[c] \in Nat /\ Len(backfill[s]) \in Nat
      BY <1>0, <2>1, LenProperties DEF WSTypeOK, TypeInv, BrokerTypeOK
    <3>. QED BY <1>8, <3>1 DEF SendBackfill
  <2>3. backfill[s][pos[c] + 1].seq \in Nat /\ backfill[s][pos[c] + 1].seq <= fence[s]
    BY <1>0, <2>1, <2>2, BackfillEvent
  <2>4. m \in Msgs /\ m.type = "event" /\ m.by = s /\ m.n <= fence[s]
    BY <2>1, <2>3, MsgType DEF FrameTypes
  <2>5. Enqueue(c, m)
    BY <1>8 DEF SendBackfill
  <2>. HIDE DEF m
  <2>. QED BY <2>1, <2>2, <2>4, <2>5, EnqueueFacts DEF NewFrame, SetsUp
<1>9. ASSUME NEW c \in Conns, FinishSubscribe(c) PROVE SentOK
  <2>. DEFINE s == busy[c]
              m == Msg("ack", s, fence[s])
  <2>1. s \in Subs /\ owner[s] = c /\ fwd[s] = "none"
    BY <1>9 DEF FinishSubscribe, PlacesInv, BusyInv, WSTypeOK
  <2>2. stage[s] = "live" /\ fwd'[s] = "select" /\ Enqueue(c, m)
    BY <1>9, <2>1 DEF FinishSubscribe, WSTypeOK
  <2>3. m \in Msgs /\ m.type = "ack" /\ m.by = s /\ m.n = fence[s]
    BY <1>0, <2>1, MsgType DEF FrameTypes, TypeInv, BrokerTypeOK
  <2>. HIDE DEF m
  <2>. QED BY <2>1, <2>2, <2>3, EnqueueFacts DEF NewFrame, SetsUp
<1>10. ASSUME NEW s \in Subs, ForwardTake(s) \/ ForwardExit(s) \/ SubscriptionStep(s)
       PROVE  UNCHANGED sent
  BY <1>10 DEF ForwardTake, ForwardExit, SubscriptionStep, wsVars, outVars
<1>11. ASSUME NEW s \in Subs, Holds(s) PROVE owner[s] \in Conns
  BY <1>0, <1>11 DEF Holds, PlacesInv, PlaceInv, WSTypeOK
<1>12. ASSUME NEW s \in Subs, ForwardLag(s) PROVE SentOK
  <2>1. CASE lag[s] > lastLag[s]
    <3>. DEFINE m == Msg("lagging", s, lag[s] - lastLag[s])
    <3>1. lag[s] - lastLag[s] \in Nat
      BY <1>0, <2>1 DEF WSTypeOK, TypeInv, BrokerTypeOK, HubTypeOK
    <3>2. m \in Msgs /\ m.type = "lagging" /\ m.by = s
      BY <3>1, MsgType DEF FrameTypes
    <3>3. Holds(s) /\ Enqueue(owner[s], m)
      BY <1>12, <2>1 DEF ForwardLag, Holds
    <3>. HIDE DEF m
    <3>. QED BY <1>11, <3>2, <3>3, EnqueueFacts DEF NewFrame, Forwards
  <2>2. CASE ~ (lag[s] > lastLag[s])
    BY <1>12, <2>2, SentSame DEF ForwardLag
  <2>. QED BY <2>1, <2>2
<1>13. ASSUME NEW s \in Subs, ForwardEvent(s) PROVE SentOK
  <2>. DEFINE m == Msg("event", s, held[s].event.seq)
  <2>1. Holds(s) /\ Enqueue(owner[s], m)
    BY <1>13 DEF ForwardEvent, Holds
  <2>2. held[s].event.seq \in Nat
    BY <2>1 DEF WSTypeOK, Frame, Event
  <2>3. m \in Msgs /\ m.type = "event" /\ m.by = s /\ m.n = held[s].event.seq
    BY <2>2, MsgType DEF FrameTypes
  <2>. HIDE DEF m
  <2>. QED BY <1>11, <2>1, <2>3, EnqueueFacts DEF NewFrame, Forwards
<1>14. ASSUME NEW p \in Publishers, PublisherMove(p) PROVE UNCHANGED sent
  BY <1>14 DEF PublisherMove, wsVars, outVars
<1>15. CASE UNCHANGED vars
  BY <1>15, SentSame DEF vars, wsVars, outVars
<1>16. ASSUME NEW c \in Conns, ConnMove(c) PROVE SentOK
  <2>1. CASE Idle(c) \/ Finish(c) \/ ReadError(c)
    BY <1>1, <2>1, SentSame
  <2>2. CASE \E t \in Topics, from \in From, s \in Subs : BeginSubscribe(c, t, from, s)
    BY <1>2, <2>2, SentSame
  <2>3. CASE \E t \in Topics : RecvUnsubscribe(c, t) \/ \E ok \in Outcomes(t) : BeginPublish(c, t, ok)
    BY <1>3, <2>3, SentSame
  <2>4. CASE \E s \in Subs : CancelSub(c, s)
    BY <1>4, <2>4, SentSame
  <2>. QED BY <1>6, <1>7, <1>8, <1>9, <1>16, <2>1, <2>2, <2>3, <2>4 DEF ConnMove
<1>17. ASSUME NEW s \in Subs, SubMove(s) PROVE SentOK
  BY <1>10, <1>12, <1>13, <1>17, SentSame DEF SubMove
<1>. QED BY <1>14, <1>15, <1>16, <1>17, SentSame DEF WSAct

--------------------------------------------------------------------------------
(* The types of the session's variables.                                      *)
LEMMA WSTypeInit == WSInit => WSTypeOK
<1>1. \A S : <<>> \in Seq(S)
  BY EmptySeq
<1>. QED BY <1>1 DEF WSInit, WSTypeOK, Holds

LEMMA ConnType ==
  ASSUME WSTypeOK, SentOK, NEW c \in Conns, ConnMove(c)
  PROVE  WSTypeOK'
<1>. USE DEF WSTypeOK, Holds
<1>0. sent' \in [Conns -> Seq(Msgs)]
  BY DEF SentOK
<1>1. CASE Idle(c) \/ AtOnce(c) \/ Finish(c)
  BY <1>0, <1>1
     DEF Idle, Write, WriterExit, WriteTimeout, Break, AtOnce, RefuseSubscribe, Answer, Finish,
         FinishUnsubscribe, HandlerReturn, connVars, fwdVars
<1>2. ASSUME NEW t \in Topics, NEW from \in From, NEW s \in Subs, BeginSubscribe(c, t, from, s)
      PROVE  WSTypeOK'
  BY <1>0, <1>2 DEF BeginSubscribe
<1>3. CASE SubscribeError(c)
  BY <1>0, <1>3 DEF SubscribeError, fwdVars
<1>10. CASE SendBackfill(c)
  BY <1>0, <1>10 DEF SendBackfill, fwdVars
<1>4. CASE FinishSubscribe(c)
  BY <1>0, <1>4 DEF FinishSubscribe
<1>5. ASSUME NEW t \in Topics, RecvUnsubscribe(c, t) PROVE WSTypeOK'
  BY <1>0, <1>5 DEF RecvUnsubscribe, fwdVars
<1>6. CASE ReadError(c)
  BY <1>0, <1>6 DEF ReadError, fwdVars
<1>7. ASSUME NEW s \in Subs, CancelSub(c, s) PROVE WSTypeOK'
  BY <1>0, <1>7 DEF CancelSub, connVars
<1>8. ASSUME NEW t \in Topics, NEW ok \in Outcomes(t), BeginPublish(c, t, ok) PROVE WSTypeOK'
  BY <1>0, <1>8 DEF BeginPublish, fwdVars
<1>9. CASE EndPublish(c)
  BY <1>0, <1>9 DEF EndPublish, fwdVars
<1>. QED
  BY <1>1, <1>2, <1>3, <1>4, <1>5, <1>6, <1>7, <1>8, <1>9, <1>10 DEF ConnMove

LEMMA SubType ==
  ASSUME TypeInv, WSTypeOK, SentOK, NEW s \in Subs, SubMove(s)
  PROVE  WSTypeOK'
<1>. USE DEF WSTypeOK, Holds
<1>0. sent' \in [Conns -> Seq(Msgs)]
  BY DEF SentOK
<1>1. CASE ForwardTake(s)
  <2>1. Head(chan[s]) \in Frame
    BY <1>1, HeadTailProperties DEF ForwardTake, Take, Receive, TypeInv, BrokerTypeOK, HubTypeOK
  <2>. QED BY <1>0, <1>1, <2>1 DEF ForwardTake, connVars
<1>2. CASE ForwardLag(s)
  <2>1. lag[s] \in Nat
    BY DEF TypeInv, BrokerTypeOK, HubTypeOK
  <2>. QED BY <1>0, <1>2, <2>1 DEF ForwardLag, connVars
<1>3. CASE ForwardEvent(s) \/ ForwardExit(s)
  BY <1>0, <1>3 DEF ForwardEvent, ForwardExit, connVars
<1>4. CASE SubscriptionStep(s)
  BY <1>0, <1>4 DEF SubscriptionStep, wsVars, connVars, fwdVars
<1>. QED BY <1>1, <1>2, <1>3, <1>4 DEF SubMove

LEMMA WSTypeStep ==
  ASSUME TypeInv, WSTypeOK, SentOK, WSAct
  PROVE  WSTypeOK'
<1>1. ASSUME UNCHANGED wsVars PROVE WSTypeOK'
  BY <1>1 DEF wsVars, connVars, outVars, fwdVars, WSTypeOK, Holds
<1>. QED BY <1>1, ConnType, SubType DEF WSAct, PublisherMove, vars

--------------------------------------------------------------------------------
(* Once its Subscribe has returned, a subscription keeps its topic, its       *)
(* backfill and its fence; a closed one stays closed (broker.go:98-118).      *)
Keeps(s) ==
  /\ subTopic'[s] = subTopic[s]
  /\ backfill'[s] = backfill[s] /\ fence'[s] = fence[s] /\ seenTo'[s] = seenTo[s]

LEMMA BrokerSteady ==
  ASSUME BaseInv, BrokerAct, NEW s \in Subs
  PROVE  /\ phase[s] = "done" => phase'[s] = "done"
         /\ stage[s] \in {"live", "closed"} => Keeps(s) /\ stage'[s] \in {"live", "closed"}
<1>0. /\ stage[s] = "none" <=> phase[s] = "new"
      /\ BrokerTypeOK
  BY DEF BaseInv, HubInv, StageIsPhase, TypeInv
<1>. USE DEF Keeps
<1>1. ASSUME NEW p \in Publishers, PublisherAct(p)
      PROVE  Keeps(s) /\ phase'[s] = phase[s] /\ stage'[s] = stage[s]
  BY <1>1, PublisherFrame
<1>2. ASSUME NEW r \in Subs, SubscriberAct(r)
      PROVE  /\ phase[s] = "done" => phase'[s] = "done"
             /\ stage[s] \in {"live", "closed"} => Keeps(s) /\ stage'[s] \in {"live", "closed"}
  <2>. USE <1>0 DEF BrokerTypeOK, HubTypeOK
  <2>1. ASSUME NEW t \in Topics, NEW from \in From, SubscribeHub(r, t, from)
        PROVE  /\ phase[s] = "done" => phase'[s] = "done"
               /\ stage[s] \in {"live", "closed"} => Keeps(s) /\ stage'[s] = stage[s]
    BY <2>1 DEF SubscribeHub, HubSubscribe, historyVars
  <2>2. CASE ReadBackfill(r)
    BY <2>2 DEF ReadBackfill, hubVars
  <2>3. CASE ReadFails(r) \/ Unsubscribe(r)
    BY <2>3 DEF ReadFails, Unsubscribe, CloseSwap, historyVars
  <2>4. CASE FinishClose(r)
    BY <2>4 DEF FinishClose, CloseRemove, CloseDone, subscribeVars, historyVars
  <2>5. CASE Consume(r)
    BY <2>5 DEF Consume, Take, Receive, subscribeVars
  <2>. QED BY <1>2, <2>1, <2>2, <2>3, <2>4, <2>5 DEF SubscriberAct, SubscribeStep
<1>3. CASE UNCHANGED brokerVars
  BY <1>3 DEF brokerVars, hubVars, subscribeVars, historyVars
<1>. QED BY <1>1, <1>2, <1>3 DEF BrokerAct

Steady(s) ==
  stage[s] \in {"live", "closed"} =>
    /\ Keeps(s) /\ owner'[s] = owner[s]
    /\ stage'[s] \in {"live", "closed"}
    /\ fwd[s] # "none" => fwd'[s] # "none"

LEMMA SteadyStep ==
  ASSUME BaseInv, WSTypeOK, PlacesInv, WSAct, NEW s \in Subs
  PROVE  Steady(s)
<1>. DEFINE Same == /\ owner'[s] = owner[s]
                    /\ fwd[s] # "none" => fwd'[s] # "none"
<1>1. stage[s] \in {"live", "closed"} => Keeps(s) /\ stage'[s] \in {"live", "closed"}
  BY ActIsBrokerAct, BrokerSteady DEF PlacesInv
<1>2. owner \in [Subs -> Conns \cup {None}] /\ fwd \in [Subs -> {"none", "select", "check", "deliver", "exit"}]
  BY DEF WSTypeOK
<1>3. ASSUME NEW c \in Conns, NEW t \in Topics, NEW from \in From, NEW r \in Subs,
             BeginSubscribe(c, t, from, r), stage[s] \in {"live", "closed"}
      PROVE  Same
  BY <1>2, <1>3 DEF BeginSubscribe, SubscribeHub
<1>4. ASSUME NEW c \in Conns, FinishSubscribe(c) PROVE Same
  BY <1>2, <1>4 DEF FinishSubscribe
<1>5. ASSUME NEW c \in Conns,
             \/ Idle(c) \/ AtOnce(c) \/ Finish(c) \/ SubscribeError(c) \/ SendBackfill(c)
             \/ ReadError(c) \/ EndPublish(c)
      PROVE  Same
  BY <1>5
     DEF Idle, Write, WriterExit, WriteTimeout, Break, AtOnce, RefuseSubscribe, Answer, Finish,
         FinishUnsubscribe, HandlerReturn, SubscribeError, SendBackfill, ReadError, EndPublish, fwdVars
<1>6. ASSUME NEW c \in Conns, NEW t \in Topics,
             RecvUnsubscribe(c, t) \/ \E ok \in Outcomes(t) : BeginPublish(c, t, ok)
      PROVE  Same
  BY <1>6 DEF RecvUnsubscribe, BeginPublish, fwdVars
<1>7. ASSUME NEW c \in Conns, NEW r \in Subs, CancelSub(c, r) PROVE Same
  BY <1>7 DEF CancelSub
<1>8. ASSUME NEW r \in Subs, SubMove(r) PROVE Same
  BY <1>2, <1>8
     DEF SubMove, ForwardTake, ForwardLag, ForwardEvent, ForwardExit, SubscriptionStep, wsVars, fwdVars
<1>9. ASSUME UNCHANGED wsVars PROVE Same
  BY <1>9 DEF wsVars, fwdVars
<1>10. ASSUME NEW c \in Conns, ConnMove(c), stage[s] \in {"live", "closed"} PROVE Same
  <2>1. CASE \E t \in Topics, from \in From, r \in Subs : BeginSubscribe(c, t, from, r)
    BY <1>3, <1>10, <2>1
  <2>2. CASE \E t \in Topics : RecvUnsubscribe(c, t) \/ \E ok \in Outcomes(t) : BeginPublish(c, t, ok)
    BY <1>6, <2>2
  <2>3. CASE \E r \in Subs : CancelSub(c, r)
    BY <1>7, <2>3
  <2>. QED BY <1>4, <1>5, <1>10, <2>1, <2>2, <2>3 DEF ConnMove
<1>11. stage[s] \in {"live", "closed"} => Same
  BY <1>8, <1>9, <1>10 DEF WSAct, PublisherMove, vars
<1>. QED BY <1>1, <1>11 DEF Steady

--------------------------------------------------------------------------------
(* A subscription that is done gets nothing new: a later Publish does not     *)
(* find it in the registry, and what is on its way was there before           *)
(* (hub.go:34-40, 99-119).                                                    *)
LEMMA OwedStep ==
  ASSUME BaseInv, NEW p \in Publishers, PublisherAct(p), NEW s \in Subs, phase[s] = "done",
         NEW q \in Publishers, Owed(q, s)'
  PROVE  Owed(q, s) /\ cur'[q] = cur[q]
<1>0. /\ BrokerTypeOK /\ TypeInv
      /\ \A t \in Topics : s \notin registry[t]
      /\ \A r \in Publishers : Owed(r, s) => pc[r] = "sending"
      /\ s # None
  BY NoneAssumption DEF BaseInv, HubInv, TypeInv, RegistryExact, VisitsTopic
<1>. USE DEF Owed
<1>1. CASE q # p
  BY <1>1, OthersStay, <1>0
<1>2. CASE q = p
  <2>. USE <1>0, <1>2 DEF BrokerTypeOK, HubTypeOK
  <2>1. ASSUME NEW t \in Topics, NEW at \in Nat, NEW ok \in Outcomes(t), PublishCall(p, t, ok, at)
        PROVE  Owed(p, s) /\ cur'[p] = cur[p]
    BY <2>1 DEF PublishCall, hubVars
  <2>2. CASE Lock(p) \/ AppendEvent(p) \/ AppendFails(p) \/ ApplyReducer(p) \/ SaveState(p) \/ UpsertMeta(p)
    BY <2>2 DEF Lock, AppendEvent, AppendFails, ApplyReducer, SaveState, UpsertMeta, hubVars
  <2>3. CASE StartFanout(p)
    <3>1. cur[p].topic \in Topics
      BY <2>3 DEF StartFanout, TypeInv, LockHeld, Event
    <3>. QED BY <2>3, <3>1 DEF StartFanout, Snapshot
  <2>4. CASE VisitSub(p)
    BY <2>4 DEF VisitSub, Visit, SkipClosed, LoadOpen, Send, SeeDone, Drop, publishVars
  <2>5. CASE FinishPublish(p)
    BY <2>5 DEF FinishPublish, PublishReturn, FanoutDone
  <2>. QED BY <2>1, <2>2, <2>3, <2>4, <2>5 DEF PublisherAct, PublishStep
<1>. QED BY <1>1, <1>2

LEMMA DryStep ==
  ASSUME BaseInv, BrokerAct, NEW s \in Subs, NEW n \in Nat, Dry(s, n)
  PROVE  Dry(s, n)'
<1>. DEFINE InChan == \A i \in 1 .. Len(chan[s]) : chan[s][i].event.seq <= n
<1>0. phase'[s] = "done" /\ Len(chan[s]) \in Nat /\ TypeInv
  BY BrokerSteady, ChannelType DEF Dry, BaseInv
<1>1. ASSUME NEW p \in Publishers, PublisherAct(p) PROVE Dry(s, n)'
  <2>1. \A q \in Publishers : Owed(q, s)' => cur'[q].seq <= n
    BY <1>1, OwedStep DEF Dry
  <2>2. InChan'
    <3>1. CASE VisitSub(p) /\ Send(p)
      <4>1. CASE target[p] = s
        <5>1. Owed(p, s)
          BY <4>1 DEF Owed
        <5>2. Fanout(p).event.seq <= n
          BY <5>1 DEF Dry, Fanout
        <5>3. /\ Len(chan'[s]) = Len(chan[s]) + 1
              /\ \A i \in 1 .. Len(chan[s]) : chan'[s][i] = chan[s][i]
              /\ chan'[s][Len(chan[s]) + 1] = Fanout(p)
          BY <3>1, <4>1, SendFacts
        <5>4. \A i \in 1 .. Len(chan[s]) + 1 : i \in 1 .. Len(chan[s]) \/ i = Len(chan[s]) + 1
          BY <1>0
        <5>. QED BY <5>2, <5>3, <5>4 DEF Dry
      <4>2. CASE target[p] # s
        BY <3>1, <4>2, SendFacts DEF Dry
      <4>. QED BY <4>1, <4>2
    <3>2. CASE AppendEvent(p)
      BY <3>2 DEF AppendEvent, hubVars, Dry
    <3>3. CASE Quiet
      BY <3>3 DEF Quiet, Dry
    <3>. QED BY <1>0, <1>1, <3>1, <3>2, <3>3, PublisherCases DEF BaseInv
  <2>. QED BY <1>0, <2>1, <2>2 DEF Dry
<1>2. ASSUME NEW r \in Subs, SubscriberAct(r) PROVE Dry(s, n)'
  <2>1. UNCHANGED <<list, target, cur>>
    BY <1>2, SubscriberFrame DEF publishVars
  <2>2. InChan'
    <3>1. CASE Consume(r)
      <4>1. chan \in [Subs -> Seq(Frame)]
        BY <1>0 DEF TypeInv, BrokerTypeOK, HubTypeOK
      <4>2. CASE r = s
        <5>1. chan[s] # <<>> /\ chan'[s] = Tail(chan[s])
          BY <3>1, <4>1, <4>2 DEF Consume, Take, Receive
        <5>2. /\ Len(chan'[s]) = Len(chan[s]) - 1
              /\ \A i \in 1 .. Len(chan'[s]) : chan'[s][i] = chan[s][i + 1]
          BY <4>1, <5>1, HeadTailProperties
        <5>. QED BY <1>0, <5>2 DEF Dry
      <4>3. CASE r # s
        BY <3>1, <4>1, <4>3 DEF Consume, Take, Receive, Dry
      <4>. QED BY <4>2, <4>3
    <3>2. CASE ~ Consume(r)
      <4>1. UNCHANGED chan
        BY <1>2, <3>2
           DEF SubscriberAct, SubscribeStep, SubscribeHub, HubSubscribe, ReadBackfill, ReadFails,
               Unsubscribe, FinishClose, CloseSwap, CloseRemove, CloseDone, hubVars
      <4>. QED BY <4>1 DEF Dry
    <3>. QED BY <3>1, <3>2
  <2>. QED BY <1>0, <2>1, <2>2 DEF Dry, Owed
<1>3. CASE UNCHANGED brokerVars
  BY <1>3 DEF brokerVars, hubVars, publishVars, Dry, Owed
<1>. QED BY <1>1, <1>2, <1>3 DEF BrokerAct

(* All that is on its way through a subscription is in its topic's stream.    *)
LEMMA DryNow ==
  ASSUME BaseInv, NEW s \in Subs, OrderInv(s), phase[s] = "done"
  PROVE  Dry(s, Len(events[subTopic[s]]))
<1>1. \A i \in 1 .. Len(chan[s]) : chan[s][i].event.seq <= Len(events[subTopic[s]])
  <2>1. subTopic[s] \in Topics => Len(events[subTopic[s]]) \in Nat
    BY ChannelType DEF BaseInv
  <2>. QED BY <2>1 DEF OrderInv, FromStream
<1>2. ASSUME NEW p \in Publishers, Owed(p, s) PROVE cur[p].seq <= Len(events[subTopic[s]])
  <2>1. pc[p] = "sending" /\ subTopic[s] = cur[p].topic
    BY <1>2 DEF BaseInv, HubInv, VisitsTopic
  <2>2. Appended(p)
    BY <2>1 DEF Appended, InCritical
  <2>. QED BY <2>1, <2>2, AppendedIsLast DEF BaseInv
<1>. QED BY <1>1, <1>2 DEF Dry

--------------------------------------------------------------------------------
(* What a forwarder holds.                                                    *)
LEMMA StreamsGrow ==
  ASSUME BaseInv, BrokerAct, NEW t \in Topics
  PROVE  Len(events[t]) \in Nat /\ Len(events'[t]) \in Nat /\ Len(events[t]) <= Len(events'[t])
<1>0. TypeInv /\ HubInv /\ Len(events[t]) \in Nat
  BY LenProperties DEF BaseInv, TypeInv, BrokerTypeOK
<1>1. ASSUME NEW p \in Publishers, PublisherAct(p)
      PROVE  Len(events'[t]) = Len(events[t]) \/ Len(events'[t]) = Len(events[t]) + 1
  <2>1. CASE AppendEvent(p)
    BY <1>0, <2>1, AppendFacts
  <2>2. CASE VisitSub(p) /\ Send(p)
    BY <2>2 DEF VisitSub, storeVars
  <2>3. CASE Quiet
    BY <2>3 DEF Quiet
  <2>. QED BY <1>0, <1>1, <2>1, <2>2, <2>3, PublisherCases
<1>2. ASSUME NEW s \in Subs, SubscriberAct(s) PROVE UNCHANGED events
  BY <1>2, SubscriberFrame DEF storeVars
<1>3. CASE UNCHANGED brokerVars
  BY <1>0, <1>3 DEF brokerVars, storeVars
<1>. QED BY <1>0, <1>1, <1>2, <1>3 DEF BrokerAct

TakesUp(s) ==
  /\ Take(s) /\ UNCHANGED fence
  /\ held'[s] = Head(chan[s]) /\ fence[s] < Head(chan[s]).event.seq

LEMMA HeadIsFirst ==
  ASSUME TypeInv, NEW s \in Subs, Take(s)
  PROVE  Head(chan[s]) = chan[s][1] /\ 1 \in 1 .. Len(chan[s])
<1>1. chan[s] \in Seq(Frame) /\ chan[s] # <<>>
  BY DEF TypeInv, BrokerTypeOK, HubTypeOK, Take, Receive
<1>2. Len(chan[s]) \in Nat /\ Len(chan[s]) # 0
  BY <1>1, EmptySeq, LenProperties
<1>. QED BY <1>1, <1>2

LEMMA HoldsStep ==
  ASSUME TypeInv, WSTypeOK, WSAct, NEW s \in Subs, Holds(s)'
  PROVE  (Holds(s) /\ held'[s] = held[s]) \/ TakesUp(s)
<1>. DEFINE Same == Holds(s) /\ held'[s] = held[s]
<1>. USE DEF Holds
<1>0. /\ fwd \in [Subs -> {"none", "select", "check", "deliver", "exit"}]
      /\ held \in [Subs -> Frame \cup {None}]
      /\ fence[s] \in Nat
  BY DEF WSTypeOK, TypeInv, BrokerTypeOK
<1>1. ASSUME UNCHANGED <<fwd, held>> PROVE Same
  BY <1>1
<1>2. ASSUME NEW c \in Conns, ConnMove(c) PROVE Same
  <2>1. CASE \/ Idle(c) \/ AtOnce(c) \/ Finish(c) \/ SubscribeError(c) \/ SendBackfill(c)
             \/ ReadError(c) \/ EndPublish(c)
    BY <1>1, <2>1
       DEF Idle, Write, WriterExit, WriteTimeout, Break, AtOnce, RefuseSubscribe, Answer, Finish,
           FinishUnsubscribe, HandlerReturn, SubscribeError, SendBackfill, ReadError, EndPublish, fwdVars
  <2>2. CASE \E t \in Topics, from \in From, r \in Subs : BeginSubscribe(c, t, from, r)
    BY <1>1, <2>2 DEF BeginSubscribe
  <2>3. CASE FinishSubscribe(c)
    BY <1>0, <2>3 DEF FinishSubscribe
  <2>4. CASE \E t \in Topics : RecvUnsubscribe(c, t) \/ \E ok \in Outcomes(t) : BeginPublish(c, t, ok)
    BY <1>1, <2>4 DEF RecvUnsubscribe, BeginPublish, fwdVars
  <2>5. CASE \E r \in Subs : CancelSub(c, r)
    BY <1>1, <2>5 DEF CancelSub
  <2>. QED BY <1>2, <2>1, <2>2, <2>3, <2>4, <2>5 DEF ConnMove
<1>3. ASSUME NEW r \in Subs, SubMove(r) PROVE Same \/ TakesUp(s)
  <2>1. CASE ForwardTake(r) /\ r # s
    BY <1>0, <2>1 DEF ForwardTake
  <2>2. CASE ForwardTake(s)
    <3>1. CASE Head(chan[s]).event.seq <= fence[s]
      BY <1>1, <2>2, <3>1 DEF ForwardTake
    <3>2. CASE ~ (Head(chan[s]).event.seq <= fence[s])
      <4>1. held'[s] = Head(chan[s]) /\ Take(s) /\ UNCHANGED fence
        BY <1>0, <2>2, <3>2 DEF ForwardTake, Take, subscribeVars
      <4>2. Head(chan[s]).event.seq \in Nat
        BY <4>1, HeadIsFirst, ChannelType
      <4>. QED BY <1>0, <3>2, <4>1, <4>2 DEF TakesUp
    <3>. QED BY <3>1, <3>2
  <2>3. CASE ForwardLag(r)
    BY <1>0, <2>3 DEF ForwardLag
  <2>4. CASE ForwardEvent(r) \/ ForwardExit(r)
    BY <1>0, <2>4 DEF ForwardEvent, ForwardExit
  <2>5. CASE SubscriptionStep(r)
    BY <1>1, <2>5 DEF SubscriptionStep, wsVars, fwdVars
  <2>. QED BY <1>3, <2>1, <2>2, <2>3, <2>4, <2>5 DEF SubMove
<1>4. CASE UNCHANGED wsVars
  BY <1>1, <1>4 DEF wsVars, fwdVars
<1>. QED BY <1>2, <1>3, <1>4 DEF WSAct, PublisherMove, vars

LEMMA HeldStep ==
  ASSUME BaseInv, WSTypeOK, PlacesInv, WSAct, NEW s \in Subs, OrderInv(s), HeldInv(s)
  PROVE  HeldInv(s)'
<1>. DEFINE e == held'[s].event
<1>0. TypeInv /\ BrokerAct
  BY ActIsBrokerAct DEF BaseInv, PlacesInv
<1>1. SUFFICES ASSUME Holds(s)'
               PROVE  /\ fence'[s] < e.seq /\ subTopic'[s] \in Topics
                      /\ e.seq <= Len(events'[subTopic'[s]])
  BY DEF HeldInv
<1>2. CASE Holds(s) /\ held'[s] = held[s]
  <2>1. fence'[s] = fence[s] /\ subTopic'[s] = subTopic[s]
    BY <1>2, SteadyStep DEF Holds, PlacesInv, PlaceInv, Steady, Keeps
  <2>2. e.seq \in Nat
    BY <1>2 DEF WSTypeOK, Frame, Event
  <2>3. fence[s] < e.seq /\ subTopic[s] \in Topics /\ e.seq <= Len(events[subTopic[s]])
    BY <1>2 DEF HeldInv
  <2>. HIDE DEF e
  <2>. QED BY <1>0, <2>1, <2>2, <2>3, StreamsGrow
<1>3. CASE TakesUp(s)
  <2>1. e = chan[s][1].event /\ 1 \in 1 .. Len(chan[s])
    BY <1>0, <1>3, HeadIsFirst DEF TakesUp
  <2>2. subTopic[s] \in Topics /\ e.seq \in 1 .. Len(events[subTopic[s]])
    BY <2>1 DEF OrderInv, FromStream
  <2>3. UNCHANGED <<subTopic, events>> /\ fence'[s] < e.seq
    BY <1>3 DEF TakesUp, Take, Receive, storeVars
  <2>. HIDE DEF e
  <2>. QED BY <1>0, <2>2, <2>3, StreamsGrow
<1>. QED BY <1>0, <1>1, <1>2, <1>3, HoldsStep

LEMMA SpentStep ==
  ASSUME BaseInv, WSTypeOK, PlacesInv, WSAct, NEW s \in Subs, NEW n \in Nat, Spent(s, n)
  PROVE  Spent(s, n)'
<1>0. TypeInv /\ BrokerAct
  BY ActIsBrokerAct DEF BaseInv, PlacesInv
<1>1. Dry(s, n)'
  BY <1>0, DryStep DEF Spent
<1>2. ASSUME Holds(s)' PROVE held'[s].event.seq <= n
  <2>1. CASE Holds(s) /\ held'[s] = held[s]
    BY <2>1 DEF Spent
  <2>2. CASE TakesUp(s)
    <3>1. held'[s] = chan[s][1] /\ 1 \in 1 .. Len(chan[s])
      BY <1>0, <2>2, HeadIsFirst DEF TakesUp
    <3>. QED BY <3>1 DEF Spent, Dry
  <2>. QED BY <1>0, <1>2, <2>1, <2>2, HoldsStep
<1>. QED BY <1>1, <1>2 DEF Spent

LEMMA SpentNow ==
  ASSUME BaseInv, NEW s \in Subs, OrderInv(s), HeldInv(s), phase[s] = "done"
  PROVE  Spent(s, Len(events[subTopic[s]]))
BY DryNow DEF Spent, HeldInv

(* The fence of a nonempty backfill is the length of the stream then.         *)
LEMMA SeenStep ==
  ASSUME BaseInv, BrokerAct, NEW s \in Subs, SeenInv(s)
  PROVE  SeenInv(s)'
<1>. DEFINE Same == backfill'[s] = backfill[s] /\ fence'[s] = fence[s] /\ seenTo'[s] = seenTo[s]
<1>0. TypeInv
  BY DEF BaseInv
<1>1. ASSUME NEW p \in Publishers, PublisherAct(p) PROVE Same
  BY <1>1, PublisherFrame
<1>2. ASSUME NEW r \in Subs, SubscriberAct(r), ~ (r = s /\ ReadBackfill(s)) PROVE Same
  <2>1. CASE ReadBackfill(r)
    BY <1>0, <1>2, <2>1 DEF ReadBackfill, TypeInv, BrokerTypeOK
  <2>2. CASE ~ ReadBackfill(r)
    BY <1>2, <2>2
       DEF SubscriberAct, SubscribeStep, SubscribeHub, ReadFails, Unsubscribe, FinishClose, Consume,
           Take, subscribeVars, historyVars
  <2>. QED BY <2>1, <2>2
<1>3. CASE UNCHANGED brokerVars
  BY <1>3 DEF brokerVars, subscribeVars, historyVars, SeenInv
<1>4. CASE ReadBackfill(s)
  <2>. DEFINE t == subTopic[s]
              b == Backfill(t, want[s])
              log == events[t]
  <2>1. t \in Topics /\ want[s] \in From
    BY <1>0, <1>4 DEF ReadBackfill, TypeInv, LockHeld
  <2>2. backfill'[s] = b /\ fence'[s] = FenceOf(b) /\ seenTo'[s] = Len(log)
    BY <1>0, <1>4 DEF ReadBackfill, TypeInv, BrokerTypeOK
  <2>3. Len(log) \in Nat /\ \A k \in 1 .. Len(log) : log[k].seq = k
    BY <1>0, <2>1, LenProperties DEF TypeInv, BrokerTypeOK, SeqIsPosition
  <2>4. ASSUME b # <<>> PROVE FenceOf(b) = Len(log)
    <3>1. /\ Len(b) \in 1 .. Len(log)
          /\ \A j \in 1 .. Len(b) : b[j] = log[Len(log) - Len(b) + j]
      BY <1>0, <2>1, <2>4, BackfillStretch
    <3>. HIDE DEF b, log
    <3>2. Len(b) \in 1 .. Len(b) /\ Len(log) - Len(b) + Len(b) = Len(log) /\ Len(log) \in 1 .. Len(log)
      BY <2>3, <3>1
    <3>3. b[Len(b)].seq = Len(log)
      BY <2>3, <3>1, <3>2
    <3>. QED BY <2>4, <3>3 DEF FenceOf
  <2>. HIDE DEF b, log
  <2>. QED BY <2>2, <2>4 DEF SeenInv
<1>. QED BY <1>1, <1>2, <1>3, <1>4 DEF BrokerAct, SeenInv

--------------------------------------------------------------------------------
(* The frames in the queue of a connection.                                   *)
FrameOf(c, m) ==
  /\ m.type \in {"event", "lagging"} => m.by # None
  /\ m.by # None =>
       /\ owner[m.by] = c /\ stage[m.by] \in {"live", "closed"}
       /\ m.type = "ack" => m.n = fence[m.by]
       /\ fwd[m.by] = "none" => m.type = "event" /\ m.n <= fence[m.by]

(* The frames there were stay what they were ...                              *)
LEMMA OldFrames ==
  ASSUME WSTypeOK, NEW c \in Conns, sent'[c] = sent[c] \/ Posts(c)
  PROVE  /\ Len(sent[c]) \in Nat
         /\ \A i \in 1 .. Len(sent[c]) :
              sent'[c][i] = sent[c][i] /\ sent[c][i] \in Msgs /\ sent[c][i].by \in Subs \cup {None}
         /\ \/ Len(sent'[c]) = Len(sent[c])
            \/ /\ Len(sent'[c]) = Len(sent[c]) + 1
               /\ sent'[c][Len(sent[c]) + 1] \in Msgs
               /\ NewFrame(c, sent'[c][Len(sent[c]) + 1])
<1>1. sent[c] \in Seq(Msgs) /\ Len(sent[c]) \in Nat
  BY LenProperties DEF WSTypeOK
<1>2. \A i \in 1 .. Len(sent[c]) : sent[c][i] \in Msgs
  BY <1>1, ElementOfSeq
<1>3. \A i \in 1 .. Len(sent[c]) : sent[c][i].by \in Subs \cup {None}
  BY <1>2 DEF Msgs
<1>4. ASSUME NEW m \in Msgs, NewFrame(c, m), sent'[c] = Append(sent[c], m)
      PROVE  /\ \A i \in 1 .. Len(sent[c]) : sent'[c][i] = sent[c][i]
             /\ Len(sent'[c]) = Len(sent[c]) + 1
             /\ sent'[c][Len(sent[c]) + 1] = m
  BY <1>1, <1>4, AppendProperties
<1>. QED BY <1>1, <1>2, <1>3, <1>4 DEF Posts

(* ... and the new one fits.                                                  *)
LEMMA FrameStep ==
  ASSUME BaseInv, WSTypeOK, PlacesInv, SentOK, WSAct, NEW c \in Conns, FrameInv(c)
  PROVE  FrameInv(c)'
<1>. DEFINE n == Len(sent[c])
<1>0. /\ n \in Nat
      /\ \A i \in 1 .. n : sent'[c][i] = sent[c][i] /\ sent[c][i].by \in Subs \cup {None}
      /\ \/ Len(sent'[c]) = n
         \/ /\ Len(sent'[c]) = n + 1 /\ NewFrame(c, sent'[c][n + 1])
            /\ sent'[c][n + 1] \in Msgs
  BY OldFrames DEF SentOK
<1>1. ASSUME NEW s \in Subs
      PROVE  /\ Steady(s) /\ fwd[s] \in {"none", "select", "check", "deliver", "exit"}
             /\ fwd[s] # "none" => stage[s] \in {"live", "closed"}
             /\ s # None
  BY SteadyStep, NoneAssumption DEF WSTypeOK, PlacesInv, PlaceInv
<1>2. ASSUME NEW i \in 1 .. n PROVE FrameOf(c, sent[c][i])'
  <2>1. FrameOf(c, sent[c][i])
    BY DEF FrameInv, FrameOf
  <2>2. sent'[c][i] = sent[c][i] /\ sent[c][i].by \in Subs \cup {None}
    BY <1>0
  <2>. QED BY <1>1, <2>1, <2>2 DEF FrameOf, Steady, Keeps
<1>3. ASSUME NEW m \in Msgs, NewFrame(c, m) PROVE FrameOf(c, m)'
  <2>1. CASE Answers(m)
    BY <2>1 DEF Answers, FrameOf
  <2>2. CASE SetsUp(c, m)
    BY <1>1, <2>2 DEF SetsUp, FrameOf, Steady, Keeps
  <2>3. CASE Forwards(c, m)
    BY <1>1, <2>3 DEF Forwards, Holds, FrameOf, Steady, Keeps
  <2>. QED BY <1>3, <2>1, <2>2, <2>3 DEF NewFrame
<1>4. ASSUME NEW i \in 1 .. Len(sent'[c]), i \notin 1 .. n PROVE FrameOf(c, sent[c][i])'
  <2>1. i = n + 1 /\ sent'[c][i] \in Msgs /\ NewFrame(c, sent'[c][i])
    BY <1>0, <1>4
  <2>2. PICK m \in Msgs : m = sent'[c][i]
    BY <2>1
  <2>3. FrameOf(c, m)'
    BY <1>3, <2>1, <2>2
  <2>. QED BY <2>2, <2>3 DEF FrameOf
<1>. HIDE DEF n
<1>. QED BY <1>2, <1>4 DEF FrameInv, FrameOf

--------------------------------------------------------------------------------
(* Several subscriptions of a topic on one connection.                        *)
LEMMA StageMoves ==
  ASSUME BaseInv, BrokerAct, NEW s \in Subs
  PROVE  /\ stage[s] # "none" => subTopic'[s] = subTopic[s]
         /\ stage'[s] = "live" => stage[s] = "live" \/ ReadBackfill(s)
<1>. DEFINE Goal == /\ stage[s] # "none" => subTopic'[s] = subTopic[s]
                    /\ stage'[s] = "live" => stage[s] = "live" \/ ReadBackfill(s)
<1>0. /\ stage[s] = "none" <=> phase[s] = "new"
      /\ BrokerTypeOK
  BY DEF BaseInv, HubInv, StageIsPhase, TypeInv
<1>1. ASSUME NEW p \in Publishers, PublisherAct(p) PROVE Goal
  BY <1>1, PublisherFrame
<1>2. ASSUME NEW r \in Subs, SubscriberAct(r) PROVE Goal
  <2>. USE <1>0 DEF BrokerTypeOK, HubTypeOK
  <2>1. ASSUME NEW t \in Topics, NEW from \in From, SubscribeHub(r, t, from) PROVE Goal
    BY <2>1 DEF SubscribeHub, HubSubscribe
  <2>2. CASE ReadBackfill(r)
    BY <2>2 DEF ReadBackfill, hubVars
  <2>3. CASE ReadFails(r) \/ Unsubscribe(r)
    BY <2>3 DEF ReadFails, Unsubscribe, CloseSwap
  <2>4. CASE FinishClose(r) \/ Consume(r)
    BY <2>4 DEF FinishClose, CloseRemove, CloseDone, Consume, Take, Receive, subscribeVars
  <2>. QED BY <1>2, <2>1, <2>2, <2>3, <2>4 DEF SubscriberAct, SubscribeStep
<1>3. CASE UNCHANGED brokerVars
  BY <1>3 DEF brokerVars, hubVars, subscribeVars
<1>. QED BY <1>1, <1>2, <1>3 DEF BrokerAct

Begins ==
  \E c \in Conns, t \in Topics, from \in From, s \in Subs : BeginSubscribe(c, t, from, s)

LEMMA BusyStep ==
  ASSUME WSTypeOK, WSAct
  PROVE  Begins \/ (UNCHANGED owner /\ \A c \in Conns : busy'[c] \in {busy[c], None})
<1>. DEFINE Same == UNCHANGED owner /\ \A c \in Conns : busy'[c] \in {busy[c], None}
<1>0. busy \in [Conns -> Subs \cup {None}]
  BY DEF WSTypeOK
<1>1. ASSUME UNCHANGED <<owner, busy>> PROVE Same
  BY <1>1
<1>2. ASSUME NEW c \in Conns, ConnMove(c) PROVE Begins \/ Same
  <2>1. CASE Idle(c) \/ AtOnce(c) \/ Finish(c) \/ SendBackfill(c) \/ ReadError(c) \/ EndPublish(c)
    BY <1>1, <2>1
       DEF Idle, Write, WriterExit, WriteTimeout, Break, AtOnce, RefuseSubscribe, Answer, Finish,
           FinishUnsubscribe, HandlerReturn, SendBackfill, ReadError, EndPublish, fwdVars, connVars
  <2>2. CASE SubscribeError(c) \/ FinishSubscribe(c)
    BY <1>0, <2>2 DEF SubscribeError, FinishSubscribe, fwdVars
  <2>3. CASE \E t \in Topics : RecvUnsubscribe(c, t) \/ \E ok \in Outcomes(t) : BeginPublish(c, t, ok)
    BY <1>1, <2>3 DEF RecvUnsubscribe, BeginPublish, fwdVars
  <2>4. CASE \E r \in Subs : CancelSub(c, r)
    BY <1>1, <2>4 DEF CancelSub, connVars
  <2>. QED BY <1>2, <2>1, <2>2, <2>3, <2>4 DEF ConnMove, Begins
<1>3. ASSUME NEW r \in Subs, SubMove(r) PROVE Same
  BY <1>1, <1>3
     DEF SubMove, ForwardTake, ForwardLag, ForwardEvent, ForwardExit, SubscriptionStep, wsVars,
         fwdVars, connVars
<1>4. CASE UNCHANGED wsVars
  BY <1>1, <1>4 DEF wsVars, fwdVars, connVars
<1>. QED BY <1>2, <1>3, <1>4 DEF WSAct, PublisherMove, vars

(* A new Subscribe finds the earlier subscriptions of its topic done.         *)
LEMMA BeginsAlone ==
  ASSUME TypeInv, PlacesInv, WSTypeOK, NEW c \in Conns, NEW t \in Topics,
         reader[c] = "read", subsMap[c][t] = None,
         NEW s \in Subs, owner[s] = c, subTopic[s] = t
  PROVE  phase[s] = "done"
<1>1. busy[c] = None /\ closing[c] = {} /\ c # None /\ s # None
  BY ConnsAssumption, NoneAssumption DEF PlacesInv, BusyInv
<1>2. stage[s] \in {"read", "live", "closed"} => phase[s] = "done"
  BY <1>1 DEF PlacesInv, PlaceInv, Working
<1>3. stage[s] # "none"
  BY <1>1 DEF PlacesInv, PlaceInv
<1>. QED BY <1>2, <1>3 DEF TypeInv, BrokerTypeOK

LEMMA RivalStep ==
  ASSUME BaseInv, WSTypeOK, PlacesInv, WSAct, \A s \in Subs : OrderInv(s) /\ HeldInv(s),
         NEW c \in Conns, RivalInv(c)
  PROVE  RivalInv(c)'
<1>0. /\ TypeInv /\ BrokerAct /\ c # None
      /\ subTopic \in [Subs -> Topics \cup {None}] /\ stage \in [Subs -> {"none", "read", "live", "closed"}]
      /\ owner \in [Subs -> Conns \cup {None}] /\ busy \in [Conns -> Subs \cup {None}]
      /\ \A s \in Subs : s # None
  BY ActIsBrokerAct, ConnsAssumption, NoneAssumption
     DEF BaseInv, PlacesInv, TypeInv, BrokerTypeOK, HubTypeOK, WSTypeOK
<1>1. ASSUME NEW r \in Subs, busy[c] = r, busy'[c] = r, NEW s \in Subs, Rivals(r, s)',
             owner'[r] = owner[r], owner'[s] = owner[s]
      PROVE  phase'[s] = "done" /\ (stage'[r] = "live" => Spent(s, seenTo[r])')
  <2>1. /\ owner[r] = c /\ stage[r] # "none"
        /\ owner[s] = c
    <3>1. BusyInv(c) /\ busy[c] # None
      BY <1>0, <1>1 DEF PlacesInv
    <3>2. owner[r] = owner[s]
      BY <1>1 DEF Rivals
    <3>. QED BY <1>1, <3>1, <3>2 DEF BusyInv
  <2>2. stage[s] \notin {"none", "read"}
    BY <1>0, <1>1, <2>1 DEF PlacesInv, PlaceInv, Working, Rivals
  <2>3. Rivals(r, s)
    BY <1>0, <1>1, <2>1, <2>2, StageMoves DEF Rivals
  <2>4. phase[s] = "done" /\ (stage[r] = "live" => Spent(s, seenTo[r]))
    BY <1>0, <1>1, <2>3 DEF RivalInv
  <2>5. phase'[s] = "done"
    BY <1>0, <2>4, BrokerSteady
  <2>6. CASE stage[r] = "live"
    <3>1. PICK n \in Nat : n = seenTo[r]
      BY <1>0 DEF TypeInv, BrokerTypeOK
    <3>2. Spent(s, n)'
      BY <2>4, <2>6, <3>1, SpentStep
    <3>3. seenTo'[r] = n
      BY <2>6, <3>1, SteadyStep DEF Steady, Keeps
    <3>. QED BY <2>5, <3>2, <3>3 DEF Spent, Dry
  <2>7. CASE ReadBackfill(r)
    <3>1. subTopic[r] \in Topics /\ subTopic[s] = subTopic[r]
      BY <1>0, <2>1, <2>3 DEF TypeInv, LockHeld, Rivals
    <3>2. PICK n \in Nat : n = Len(events[subTopic[s]])
      BY <1>0, <3>1, StreamsGrow
    <3>3. Spent(s, n)
      BY <2>4, <3>2, SpentNow
    <3>4. Spent(s, n)'
      BY <3>3, SpentStep
    <3>5. seenTo'[r] = n
      BY <1>0, <2>7, <3>1, <3>2 DEF ReadBackfill, TypeInv, BrokerTypeOK
    <3>. QED BY <2>5, <3>4, <3>5 DEF Spent, Dry
  <2>8. CASE stage[r] # "live" /\ ~ ReadBackfill(r)
    BY <1>0, <2>5, <2>8, StageMoves
  <2>. QED BY <2>6, <2>7, <2>8
<1>2. ASSUME NEW d \in Conns, NEW t \in Topics, NEW from \in From, NEW r \in Subs,
             BeginSubscribe(d, t, from, r)
      PROVE  RivalInv(c)'
  <2>1. /\ stage[r] = "none" /\ reader[d] = "read" /\ subsMap[d][t] = None
        /\ stage' = [stage EXCEPT ![r] = "read"] /\ subTopic' = [subTopic EXCEPT ![r] = t]
        /\ owner' = [owner EXCEPT ![r] = d] /\ busy' = [busy EXCEPT ![d] = r]
    BY <1>2 DEF BeginSubscribe, Reading, SubscribeHub, HubSubscribe
  <2>2. CASE c = d
    <3>1. ASSUME NEW s \in Subs, Rivals(r, s)' PROVE phase'[s] = "done"
      <4>1. owner[s] = d /\ subTopic[s] = t
        BY <1>0, <2>1, <3>1 DEF Rivals
      <4>2. phase[s] = "done"
        BY <1>0, <2>1, <4>1, BeginsAlone
      <4>. QED BY <1>0, <4>2, BrokerSteady
    <3>2. busy'[c] = r /\ stage'[r] = "read"
      BY <1>0, <2>1, <2>2
    <3>. QED BY <3>1, <3>2 DEF RivalInv
  <2>3. CASE c # d
    <3>1. busy'[c] = busy[c]
      BY <1>0, <2>1, <2>3
    <3>2. CASE busy[c] = None
      BY <3>1, <3>2 DEF RivalInv
    <3>3. CASE busy[c] # None
      <4>1. PICK q \in Subs : busy[c] = q /\ busy'[c] = q
        BY <1>0, <3>1, <3>3
      <4>2. owner[q] = c /\ q # r
        BY <1>0, <2>1, <4>1 DEF PlacesInv, BusyInv
      <4>3. owner'[q] = c /\ \A s \in Subs : Rivals(q, s)' => owner'[s] = owner[s]
        BY <1>0, <2>1, <2>3, <4>2 DEF Rivals
      <4>. QED BY <1>1, <4>1, <4>2, <4>3 DEF RivalInv
    <3>. QED BY <3>2, <3>3
  <2>. QED BY <2>2, <2>3
<1>3. ASSUME UNCHANGED owner, busy'[c] \in {busy[c], None} PROVE RivalInv(c)'
  <2>1. CASE busy'[c] = None
    BY <2>1 DEF RivalInv
  <2>2. CASE busy'[c] # None
    <3>1. PICK r \in Subs : busy[c] = r /\ busy'[c] = r
      BY <1>0, <1>3, <2>2
    <3>. QED BY <1>1, <1>3, <3>1 DEF RivalInv
  <2>. QED BY <2>1, <2>2
<1>. QED BY <1>2, <1>3, BusyStep DEF Begins

--------------------------------------------------------------------------------
(* What the frames of a connection say, one connection at a time.             *)
AckOf(c) ==
  \A i, j \in 1 .. Len(sent[c]) :
    LET ack == sent[c][i]  e == sent[c][j] IN
    ack.type = "ack" /\ e.type = "event" /\ ack.by = e.by => (j < i <=> e.n <= ack.n)

StaleOf(c) ==
  \A i, j, k \in 1 .. Len(sent[c]) :
    LET old == sent[c][i]  ack == sent[c][j]  late == sent[c][k] IN
    /\ i < j /\ j < k
    /\ ack.type = "ack" /\ late.type = "event" /\ old.by = late.by
    /\ ack.by \notin {None, late.by}
    /\ subTopic[ack.by] = subTopic[late.by]
    /\ backfill[ack.by] # <<>>
    => late.n <= ack.n

Queue(c) ==
  LET n == Len(sent[c]) IN
  /\ n \in Nat
  /\ \A i \in 1 .. n : /\ sent'[c][i] = sent[c][i]
                       /\ sent[c][i] \in Msgs /\ FrameOf(c, sent[c][i])
  /\ \A i \in 1 .. Len(sent'[c]) :
       \/ i \in 1 .. n
       \/ i = n + 1 /\ sent'[c][i] \in Msgs /\ NewFrame(c, sent'[c][i])

LEMMA QueueFacts ==
  ASSUME WSTypeOK, SentOK, NEW c \in Conns, FrameInv(c)
  PROVE  Queue(c)
<1>1. /\ Len(sent[c]) \in Nat
      /\ \A i \in 1 .. Len(sent[c]) : sent'[c][i] = sent[c][i] /\ sent[c][i] \in Msgs
      /\ \/ Len(sent'[c]) = Len(sent[c])
         \/ /\ Len(sent'[c]) = Len(sent[c]) + 1
            /\ sent'[c][Len(sent[c]) + 1] \in Msgs
            /\ NewFrame(c, sent'[c][Len(sent[c]) + 1])
  BY OldFrames DEF SentOK
<1>2. \A i \in 1 .. Len(sent[c]) : FrameOf(c, sent[c][i])
  BY DEF FrameInv, FrameOf
<1>3. \A i \in 1 .. Len(sent'[c]) :
        \/ i \in 1 .. Len(sent[c])
        \/ i = Len(sent[c]) + 1 /\ sent'[c][i] \in Msgs /\ NewFrame(c, sent'[c][i])
  BY <1>1
<1>. QED BY <1>1, <1>2, <1>3 DEF Queue

LEMMA AckStep ==
  ASSUME TypeInv, WSTypeOK, NEW c \in Conns, Queue(c), AckOf(c), \A s \in Subs : HeldInv(s)
  PROVE  AckOf(c)'
<1>. DEFINE n == Len(sent[c])
            S == sent'[c]
<1>1. SUFFICES ASSUME NEW i \in 1 .. Len(S), NEW j \in 1 .. Len(S),
                      S[i].type = "ack", S[j].type = "event", S[i].by = S[j].by
               PROVE  j < i <=> S[j].n <= S[i].n
  BY DEF AckOf
<1>2. /\ n \in Nat
      /\ \A k \in 1 .. n : S[k] = sent[c][k] /\ S[k] \in Msgs /\ FrameOf(c, S[k])
      /\ \A k \in {i, j} : k \in 1 .. n \/ (k = n + 1 /\ S[k] \in Msgs /\ NewFrame(c, S[k]))
  BY DEF Queue
<1>3. S[i].n \in Nat /\ S[j].n \in Nat /\ S[i].by \in Subs \cup {None}
  BY <1>2 DEF Msgs
<1>4. CASE i \in 1 .. n /\ j \in 1 .. n
  BY <1>1, <1>2, <1>4 DEF AckOf
<1>5. CASE i \notin 1 .. n
  <2>1. i = n + 1 /\ NewFrame(c, S[i]) /\ j \in 1 .. n
    <3>1. i = n + 1 /\ NewFrame(c, S[i])
      BY <1>2, <1>5
    <3>2. j # i
      BY <1>1
    <3>. QED BY <1>2, <3>1, <3>2
  <2>2. S[i].by # None
    BY <1>1, <1>2, <2>1 DEF FrameOf
  <2>3. S[i].n = fence[S[i].by] /\ fwd[S[i].by] = "none"
    BY <1>1, <2>1, <2>2 DEF NewFrame, Answers, SetsUp, Forwards
  <2>4. S[j].n <= fence[S[i].by]
    BY <1>1, <1>2, <2>1, <2>2, <2>3 DEF FrameOf
  <2>5. j < i
    BY <1>2, <2>1
  <2>. QED BY <2>3, <2>4, <2>5
<1>6. CASE i \in 1 .. n /\ j \notin 1 .. n
  <2>1. j = n + 1 /\ NewFrame(c, S[j]) /\ FrameOf(c, S[i])
    BY <1>2, <1>6
  <2>2. ~ Answers(S[j]) /\ S[j].by = S[i].by
    BY <1>1 DEF Answers
  <2>3. ~ SetsUp(c, S[j])
    <3>1. SUFFICES ASSUME SetsUp(c, S[j]) PROVE FALSE
      OBVIOUS
    <3>2. fwd[S[i].by] = "none" /\ S[i].by \in Subs /\ S[i].by # None
      BY <2>2, <3>1, NoneAssumption DEF SetsUp
    <3>. QED BY <1>1, <2>1, <3>2 DEF FrameOf
  <2>4. Forwards(c, S[j])
    BY <2>1, <2>2, <2>3 DEF NewFrame
  <2>5. PICK s \in Subs : s = S[i].by /\ s = S[j].by /\ s # None
    BY <2>2, <2>4, NoneAssumption DEF Forwards
  <2>6. Holds(s) /\ S[j].n = held[s].event.seq
    BY <1>1, <2>4, <2>5 DEF Forwards
  <2>7. fence[s] < S[j].n /\ S[i].n = fence[s]
    BY <1>1, <2>1, <2>5, <2>6 DEF HeldInv, FrameOf
  <2>8. ~ (j < i)
    BY <1>2, <1>6, <2>1
  <2>. QED BY <1>3, <2>7, <2>8
<1>. QED BY <1>2, <1>4, <1>5, <1>6

(* Two frames of a connection are of rivals after the step only if they were  *)
(* before it.                                                                 *)
LEMMA RivalsStay ==
  ASSUME BaseInv, WSTypeOK, PlacesInv, WSAct, NEW c \in Conns,
         NEW r \in Subs, owner[r] = c, stage[r] \in {"live", "closed"},
         NEW s \in Subs, owner[s] = c, stage[s] \in {"live", "closed"}
  PROVE  /\ Rivals(r, s)' <=> Rivals(r, s)
         /\ backfill'[r] = backfill[r] /\ seenTo'[r] = seenTo[r]
         /\ subTopic'[r] = subTopic[r] /\ subTopic'[s] = subTopic[s]
<1>1. Steady(r) /\ Steady(s)
  BY SteadyStep
<1>. QED BY <1>1 DEF Steady, Keeps, Rivals

LEMMA OvertakenStep ==
  ASSUME BaseInv, WSTypeOK, PlacesInv, WSAct, NEW c \in Conns, Queue(c), RivalInv(c), Overtaken(c)
  PROVE  Overtaken(c)'
<1>. DEFINE n == Len(sent[c])
            S == sent'[c]
<1>1. SUFFICES ASSUME NEW i \in 1 .. Len(S), NEW j \in 1 .. Len(S),
                      i < j, S[j].type = "ack", S[i].by # None, S[j].by # None,
                      Rivals(sent[c][j].by, sent[c][i].by)'
               PROVE  Spent(sent[c][i].by, seenTo[sent[c][j].by])'
  BY DEF Overtaken
<1>2. /\ n \in Nat
      /\ \A k \in 1 .. n : S[k] = sent[c][k] /\ S[k] \in Msgs /\ FrameOf(c, S[k])
      /\ \A k \in {i, j} : k \in 1 .. n \/ (k = n + 1 /\ S[k] \in Msgs /\ NewFrame(c, S[k]))
  BY DEF Queue
<1>3. i \in 1 .. n
  BY <1>1, <1>2
<1>4. PICK s \in Subs : s = S[i].by
  BY <1>1, <1>2, <1>3 DEF Msgs
<1>5. PICK r \in Subs : r = S[j].by
  BY <1>1, <1>2 DEF Msgs
<1>6. owner[s] = c /\ stage[s] \in {"live", "closed"}
  BY <1>1, <1>2, <1>3, <1>4 DEF FrameOf
<1>7. Rivals(r, s)'
  BY <1>1, <1>4, <1>5 DEF Rivals
<1>8. ASSUME owner[r] = c, stage[r] \in {"live", "closed"}, Rivals(r, s) => Spent(s, seenTo[r])
      PROVE  Spent(s, seenTo[r])'
  <2>1. Rivals(r, s) /\ seenTo'[r] = seenTo[r]
    BY <1>6, <1>7, <1>8, RivalsStay
  <2>2. PICK m \in Nat : m = seenTo[r]
    BY DEF BaseInv, TypeInv, BrokerTypeOK
  <2>3. Spent(s, m)'
    BY <1>8, <2>1, <2>2, SpentStep
  <2>. QED BY <2>1, <2>2, <2>3 DEF Spent, Dry
<1>9. CASE j \in 1 .. n
  <2>1. owner[r] = c /\ stage[r] \in {"live", "closed"}
    BY <1>1, <1>2, <1>5, <1>9 DEF FrameOf
  <2>2. Rivals(r, s) => Spent(s, seenTo[r])
    BY <1>1, <1>2, <1>3, <1>4, <1>5, <1>9 DEF Overtaken
  <2>3. Spent(s, seenTo[r])'
    BY <1>8, <2>1, <2>2
  <2>. QED BY <1>4, <1>5, <2>3 DEF Spent, Dry
<1>10. CASE j \notin 1 .. n
  <2>1. NewFrame(c, S[j])
    BY <1>2, <1>10
  <2>2. r = busy[c] /\ owner[r] = c /\ stage[r] = "live"
    BY <1>1, <1>5, <2>1 DEF NewFrame, Answers, SetsUp, Forwards
  <2>3. Rivals(r, s) => Spent(s, seenTo[r])
    BY <1>1, <1>5, <2>2 DEF RivalInv
  <2>4. Spent(s, seenTo[r])'
    BY <1>8, <2>2, <2>3
  <2>. QED BY <1>4, <1>5, <2>4 DEF Spent, Dry
<1>. QED BY <1>9, <1>10

LEMMA StaleStep ==
  ASSUME BaseInv, WSTypeOK, PlacesInv, WSAct, NEW c \in Conns, Queue(c), Overtaken(c), StaleOf(c),
         \A s \in Subs : SeenInv(s)
  PROVE  StaleOf(c)'
<1>. DEFINE n == Len(sent[c])
            S == sent'[c]
<1>1. SUFFICES ASSUME NEW i \in 1 .. Len(S), NEW j \in 1 .. Len(S), NEW k \in 1 .. Len(S),
                      i < j, j < k, S[j].type = "ack", S[k].type = "event", S[i].by = S[k].by,
                      S[j].by \notin {None, S[k].by},
                      subTopic'[S[j].by] = subTopic'[S[k].by], backfill'[S[j].by] # <<>>
               PROVE  S[k].n <= S[j].n
  BY DEF StaleOf
<1>2. /\ n \in Nat
      /\ \A l \in 1 .. n : S[l] = sent[c][l] /\ S[l] \in Msgs /\ FrameOf(c, S[l])
      /\ \A l \in {i, j, k} : l \in 1 .. n \/ (l = n + 1 /\ S[l] \in Msgs /\ NewFrame(c, S[l]))
  BY DEF Queue
<1>3. i \in 1 .. n /\ j \in 1 .. n
  BY <1>1, <1>2
<1>4. S[k].by # None
  <2>1. CASE k \in 1 .. n
    BY <1>1, <1>2, <2>1 DEF FrameOf
  <2>2. CASE NewFrame(c, S[k])
    BY <1>1, <2>2, NoneAssumption DEF NewFrame, Answers, SetsUp, Forwards
  <2>. QED BY <1>2, <2>1, <2>2
<1>5. PICK s \in Subs : s = S[i].by /\ s = S[k].by
  BY <1>1, <1>2, <1>3, <1>4 DEF Msgs
<1>6. PICK r \in Subs : r = S[j].by /\ r # s
  BY <1>1, <1>2, <1>3, <1>5 DEF Msgs
<1>7. /\ owner[s] = c /\ stage[s] \in {"live", "closed"}
      /\ owner[r] = c /\ stage[r] \in {"live", "closed"} /\ S[j].n = fence[r]
  BY <1>1, <1>2, <1>3, <1>4, <1>5, <1>6 DEF FrameOf
<1>8. subTopic[r] = subTopic[s] /\ backfill[r] # <<>>
  BY <1>1, <1>5, <1>6, <1>7, RivalsStay
<1>9. CASE k \in 1 .. n
  BY <1>1, <1>2, <1>3, <1>5, <1>6, <1>8, <1>9 DEF StaleOf
<1>10. CASE k \notin 1 .. n
  <2>1. Spent(s, seenTo[r])
    <3>1. Rivals(r, s)
      BY <1>6, <1>7, <1>8 DEF Rivals
    <3>. QED BY <1>1, <1>2, <1>3, <1>4, <1>5, <1>6, <3>1 DEF Overtaken
  <2>2. seenTo[r] = fence[r]
    BY <1>8 DEF SeenInv
  <2>3. stage[s] # "live"
    BY <2>1 DEF Spent, Dry, BaseInv, HubInv, StageIsPhase
  <2>4. Forwards(c, S[k])
    BY <1>1, <1>2, <1>5, <1>10, <2>3 DEF NewFrame, Answers, SetsUp
  <2>5. Holds(s) /\ S[k].n = held[s].event.seq
    BY <1>1, <1>5, <2>4 DEF Forwards
  <2>. QED BY <1>7, <2>1, <2>2, <2>5 DEF Spent
<1>. QED BY <1>9, <1>10

--------------------------------------------------------------------------------
(* Where a subscription is.  Most steps move none.                            *)
PlacesSame ==
  /\ UNCHANGED <<reader, busy, subsMap, closing, owner, stage, subTopic>>
  /\ \A s \in Subs : /\ fwd'[s] = "none" <=> fwd[s] = "none"
                     /\ phase[s] = "done" => phase'[s] = "done"
  /\ \A c \in Conns : pc'[c] # "idle" => pc[c] # "idle"

LEMMA PlacesQuiet ==
  ASSUME WSTypeOK, PlacesInv, PlacesSame
  PROVE  PlacesInv'
<1>1. \A c \in Conns : busy[c] \in Subs \cup {None} /\ closing[c] \subseteq Subs
                       /\ \A t \in Topics : subsMap[c][t] \in Subs \cup {None}
  BY DEF WSTypeOK
<1>2. ASSUME NEW c \in Conns PROVE BusyInv(c)' /\ EntryInv(c)' /\ ClosingInv(c)'
  BY <1>1 DEF PlacesInv, PlacesSame, BusyInv, EntryInv, ClosingInv
<1>3. ASSUME NEW s \in Subs PROVE PlaceInv(s)'
  BY DEF PlacesInv, PlacesSame, PlaceInv, Working
<1>. QED BY <1>2, <1>3 DEF PlacesInv

LEMMA PublisherPlaces ==
  ASSUME BaseInv, WSTypeOK, PlacesInv, NEW p \in Publishers, PublisherMove(p)
  PROVE  PlacesInv'
<1>0. TypeInv /\ UNCHANGED wsVars
  BY DEF BaseInv, PublisherMove
<1>1. PublisherAct(p)
  <2>1. 0 \in Nat
    OBVIOUS
  <2>. QED BY <2>1 DEF PublisherMove, PublisherAct
<1>2. UNCHANGED <<phase, subTopic, stage>>
  BY <1>1, PublisherFrame
<1>3. \A q \in Publishers : q # p => pc'[q] = pc[q]
  BY <1>0, <1>1, OthersStay
<1>4. p \in Conns => pc[p] # "idle"
  BY DEF PublisherMove, Lock, PublishStep, AppendEvent, AppendFails, ApplyReducer, SaveState,
         UpsertMeta, StartFanout, VisitSub, FinishPublish
<1>. QED BY <1>0, <1>2, <1>3, <1>4, PlacesQuiet, ConnsAssumption
         DEF PlacesSame, wsVars, connVars, fwdVars

LEMMA ConnPlaces ==
  ASSUME WSTypeOK, PlacesInv, NEW c \in Conns, Idle(c) \/ AtOnce(c) \/ SendBackfill(c)
  PROVE  PlacesInv'
<1>1. UNCHANGED <<reader, busy, subsMap, closing, fwdVars, brokerVars>>
  BY DEF Idle, Write, WriterExit, WriteTimeout, Break, AtOnce, RefuseSubscribe, Answer,
         SendBackfill, connVars
<1>. QED BY <1>1, PlacesQuiet
         DEF PlacesSame, fwdVars, brokerVars, hubVars, publishVars, subscribeVars

LEMMA ForwardPlaces ==
  ASSUME WSTypeOK, PlacesInv, NEW s \in Subs,
         ForwardTake(s) \/ ForwardLag(s) \/ ForwardEvent(s) \/ ForwardExit(s)
  PROVE  PlacesInv'
<1>1. UNCHANGED <<owner, connVars, stage, subTopic, phase, pc>>
  BY DEF ForwardTake, ForwardLag, ForwardEvent, ForwardExit, Take, Receive, brokerVars, hubVars,
         publishVars, subscribeVars
<1>2. \A r \in Subs : fwd'[r] = "none" <=> fwd[r] = "none"
  BY DEF WSTypeOK, ForwardTake, ForwardLag, ForwardEvent, ForwardExit
<1>. QED BY <1>1, <1>2, PlacesQuiet DEF PlacesSame, connVars

(* The step of Subscribe or Close of one subscription.                        *)
LEMMA SubscriptionPlaces ==
  ASSUME BaseInv, WSTypeOK, PlacesInv, NEW s \in Subs, SubscriptionStep(s)
  PROVE  PlacesInv'
<1>0. /\ UNCHANGED wsVars /\ stage \in [Subs -> {"none", "read", "live", "closed"}]
      /\ phase \in [Subs -> Phases] /\ owner \in [Subs -> Conns \cup {None}]
  BY DEF SubscriptionStep, BaseInv, TypeInv, BrokerTypeOK, HubTypeOK, WSTypeOK
<1>1. UNCHANGED <<reader, busy, subsMap, closing, owner, fwd, subTopic, pc>>
  BY <1>0
     DEF wsVars, connVars, fwdVars, SubscriptionStep, SubscribeStep, ReadBackfill, ReadFails,
         FinishClose, CloseSwap, CloseRemove, CloseDone, hubVars, publishVars
<1>2. \A r \in Subs : phase[r] = "done" => phase'[r] = "done"
  BY <1>0
     DEF SubscriptionStep, SubscribeStep, ReadBackfill, ReadFails,
         FinishClose, CloseSwap, CloseRemove, CloseDone, hubVars
<1>3. CASE FinishClose(s)
  BY <1>1, <1>2, <1>3, PlacesQuiet DEF PlacesSame, FinishClose, subscribeVars
<1>4. CASE ~ FinishClose(s)
  <2>1. /\ stage[s] = "read" /\ stage'[s] \in {"live", "closed"}
        /\ \A r \in Subs : r # s => stage'[r] = stage[r]
    BY <1>0, <1>4 DEF SubscriptionStep, SubscribeStep, ReadBackfill, ReadFails
  <2>2. Working(s) /\ fwd[s] = "none" /\ owner[s] # None
    <3>1. Working(s)
      BY <2>1 DEF PlacesInv, PlaceInv
    <3>. QED BY <2>1, <3>1 DEF PlacesInv, PlaceInv
  <2>3. ASSUME NEW c \in Conns PROVE BusyInv(c)' /\ EntryInv(c)' /\ ClosingInv(c)'
    <3>1. busy[c] \in Subs \cup {None} /\ closing[c] \subseteq Subs
          /\ \A t \in Topics : subsMap[c][t] \in Subs \cup {None}
      BY DEF WSTypeOK
    <3>2. BusyInv(c) /\ EntryInv(c) /\ ClosingInv(c)
      BY DEF PlacesInv
    <3>3. BusyInv(c)'
      BY <1>1, <2>1, <3>1, <3>2 DEF BusyInv
    <3>4. EntryInv(c)' /\ ClosingInv(c)'
      BY <1>1, <2>1, <3>1, <3>2 DEF EntryInv, ClosingInv
    <3>. QED BY <3>3, <3>4
  <2>4. ASSUME NEW r \in Subs PROVE PlaceInv(r)'
    BY <1>1, <1>2, <2>1, <2>2 DEF PlacesInv, PlaceInv, Working
  <2>. QED BY <2>3, <2>4 DEF PlacesInv
<1>. QED BY <1>3, <1>4

(* The types the next lemmas need.                                            *)
PlaceTypes ==
  /\ reader \in [Conns -> {"read", "subscribe", "publish", "unsubscribe", "closeall", "end"}]
  /\ subsMap \in [Conns -> [Topics -> Subs \cup {None}]]
  /\ busy \in [Conns -> Subs \cup {None}]
  /\ closing \in [Conns -> SUBSET Subs]
  /\ owner \in [Subs -> Conns \cup {None}]
  /\ fwd \in [Subs -> {"none", "select", "check", "deliver", "exit"}]
  /\ stage \in [Subs -> {"none", "read", "live", "closed"}]
  /\ subTopic \in [Subs -> Topics \cup {None}]
  /\ phase \in [Subs -> Phases]
  /\ pc \in [Publishers -> PcValues]
  /\ \A s \in Subs : s # None
  /\ \A c \in Conns : c # None /\ c \in Publishers

LEMMA PlaceTypesHold ==
  ASSUME BaseInv, WSTypeOK
  PROVE  PlaceTypes
BY ConnsAssumption, NoneAssumption DEF PlaceTypes, WSTypeOK, BaseInv, TypeInv, BrokerTypeOK, HubTypeOK

LEMMA BeginPlaces ==
  ASSUME PlaceTypes, PlacesInv, NEW c \in Conns, NEW t \in Topics, NEW from \in From, NEW s \in Subs,
         BeginSubscribe(c, t, from, s)
  PROVE  PlacesInv'
<1>1. /\ reader[c] = "read" /\ subsMap[c][t] = None /\ stage[s] = "none"
      /\ reader' = [reader EXCEPT ![c] = "subscribe"] /\ busy' = [busy EXCEPT ![c] = s]
      /\ owner' = [owner EXCEPT ![s] = c] /\ stage' = [stage EXCEPT ![s] = "read"]
      /\ subTopic' = [subTopic EXCEPT ![s] = t] /\ phase' = [phase EXCEPT ![s] = "open"]
      /\ UNCHANGED <<subsMap, closing, fwd, pc>>
      /\ phase[s] = "new"
  BY DEF BeginSubscribe, Reading, SubscribeHub, HubSubscribe, publishVars
<1>2. owner[s] = None /\ fwd[s] = "none"
  BY <1>1 DEF PlacesInv, PlaceInv
<1>3. busy[c] = None /\ pc[c] = "idle" /\ closing[c] = {}
  BY <1>1 DEF PlacesInv, BusyInv
<1>4. ASSUME NEW d \in Conns PROVE BusyInv(d)' /\ EntryInv(d)' /\ ClosingInv(d)'
  <2>1. BusyInv(d) /\ EntryInv(d) /\ ClosingInv(d)
    BY DEF PlacesInv
  <2>2. BusyInv(d)'
    BY <1>1, <1>2, <1>3, <2>1 DEF PlaceTypes, BusyInv
  <2>3. EntryInv(d)' /\ ClosingInv(d)'
    BY <1>1, <1>2, <2>1 DEF PlaceTypes, EntryInv, ClosingInv
  <2>. QED BY <2>2, <2>3
<1>5. ASSUME NEW r \in Subs PROVE PlaceInv(r)'
  <2>1. PlaceInv(r)
    BY DEF PlacesInv
  <2>2. CASE r = s
    BY <1>1, <1>2, <2>2 DEF PlaceTypes, PlaceInv, Working
  <2>3. CASE r # s
    <3>1. Working(r) => Working(r)'
      BY <1>1, <1>3, <2>3 DEF PlaceTypes, Working
    <3>. QED BY <1>1, <2>1, <2>3, <3>1 DEF PlaceTypes, PlaceInv
  <2>. QED BY <2>2, <2>3
<1>. QED BY <1>4, <1>5 DEF PlacesInv

LEMMA ErrorPlaces ==
  ASSUME StageIsPhase, PlaceTypes, PlacesInv, NEW c \in Conns, SubscribeError(c)
  PROVE  PlacesInv'
<1>1. /\ reader[c] = "subscribe" /\ phase[busy[c]] = "done"
      /\ reader' = [reader EXCEPT ![c] = "read"] /\ busy' = [busy EXCEPT ![c] = None]
      /\ UNCHANGED <<subsMap, closing, owner, fwd, stage, subTopic, phase, pc>>
  BY DEF SubscribeError, fwdVars, brokerVars, hubVars, subscribeVars, publishVars
<1>2. PICK s \in Subs : s = busy[c] /\ stage[s] = "closed"
  BY <1>1 DEF PlaceTypes, PlacesInv, BusyInv, StageIsPhase
<1>3. ASSUME NEW d \in Conns PROVE BusyInv(d)' /\ EntryInv(d)' /\ ClosingInv(d)'
  <2>1. BusyInv(d) /\ EntryInv(d) /\ ClosingInv(d)
    BY DEF PlacesInv
  <2>. QED BY <1>1, <2>1 DEF PlaceTypes, BusyInv, EntryInv, ClosingInv
<1>4. ASSUME NEW r \in Subs PROVE PlaceInv(r)'
  <2>1. PlaceInv(r)
    BY DEF PlacesInv
  <2>2. r # s => (Working(r) => Working(r)')
    BY <1>1, <1>2 DEF PlaceTypes, Working
  <2>. QED BY <1>1, <1>2, <2>1, <2>2 DEF PlaceTypes, PlaceInv
<1>. QED BY <1>3, <1>4 DEF PlacesInv

LEMMA FinishPlaces ==
  ASSUME TypeInv, PlaceTypes, PlacesInv, NEW c \in Conns, FinishSubscribe(c)
  PROVE  PlacesInv'
<1>1. PICK s \in Subs : s = busy[c]
  <2>1. reader[c] = "subscribe"
    BY DEF FinishSubscribe
  <2>. QED BY <2>1 DEF PlaceTypes, PlacesInv, BusyInv
<1>2. /\ reader[c] = "subscribe" /\ stage[s] = "live"
      /\ reader' = [reader EXCEPT ![c] = "read"] /\ busy' = [busy EXCEPT ![c] = None]
      /\ subsMap' = [subsMap EXCEPT ![c][subTopic[s]] = s] /\ fwd' = [fwd EXCEPT ![s] = "select"]
      /\ UNCHANGED <<closing, owner, stage, subTopic, phase, pc>>
  BY <1>1 DEF FinishSubscribe, brokerVars, hubVars, subscribeVars, publishVars
<1>3. owner[s] = c /\ subsMap[c][subTopic[s]] = None /\ closing[c] = {} /\ fwd[s] = "none"
  BY <1>1, <1>2 DEF PlacesInv, BusyInv, PlaceTypes
<1>4. subTopic[s] \in Topics
  BY <1>2 DEF TypeInv, LockHeld
<1>5. /\ \A t \in Topics : subsMap'[c][t] = IF t = subTopic[s] THEN s ELSE subsMap[c][t]
      /\ \A d \in Conns : d # c => subsMap'[d] = subsMap[d]
  BY <1>2, <1>4 DEF PlaceTypes
<1>6. ASSUME NEW d \in Conns PROVE BusyInv(d)' /\ EntryInv(d)' /\ ClosingInv(d)'
  <2>1. BusyInv(d) /\ EntryInv(d) /\ ClosingInv(d)
    BY DEF PlacesInv
  <2>2. BusyInv(d)'
    BY <1>1, <1>2, <1>3, <1>5, <2>1 DEF PlaceTypes, BusyInv
  <2>3. EntryInv(d)'
    BY <1>2, <1>3, <1>4, <1>5, <2>1 DEF PlaceTypes, EntryInv
  <2>4. ClosingInv(d)'
    BY <1>2, <2>1 DEF PlaceTypes, ClosingInv
  <2>. QED BY <2>2, <2>3, <2>4
<1>7. ASSUME NEW r \in Subs PROVE PlaceInv(r)'
  <2>1. PlaceInv(r)
    BY DEF PlacesInv
  <2>2. CASE r = s
    BY <1>2, <1>3, <1>4, <1>5, <2>1, <2>2 DEF PlaceTypes, PlaceInv
  <2>3. CASE r # s
    <3>1. Working(r) => Working(r)'
      BY <1>1, <1>2, <2>3 DEF PlaceTypes, Working
    <3>2. stage[r] = "live" /\ subsMap[owner[r]][subTopic[r]] = r
            => subsMap'[owner[r]][subTopic[r]] = r
      <4>1. stage[r] = "live" => subTopic[r] \in Topics /\ owner[r] \in Conns
        BY <2>1 DEF TypeInv, LockHeld, PlaceTypes, PlaceInv
      <4>. QED BY <1>3, <1>5, <4>1 DEF PlaceTypes
    <3>. QED BY <1>2, <2>1, <2>3, <3>1, <3>2 DEF PlaceTypes, PlaceInv
  <2>. QED BY <2>2, <2>3
<1>. QED BY <1>6, <1>7 DEF PlacesInv

(* Entries that leave the map are being closed (ws.go:139-150, 250-259).      *)
LEMMA LeavePlaces ==
  ASSUME TypeInv, PlaceTypes, PlacesInv, NEW c \in Conns, reader[c] = "read",
         reader'[c] \in {"unsubscribe", "closeall"},
         \A d \in Conns : d # c => /\ reader'[d] = reader[d] /\ subsMap'[d] = subsMap[d]
                                   /\ closing'[d] = closing[d],
         \A t \in Topics : \/ subsMap'[c][t] = subsMap[c][t]
                           \/ subsMap'[c][t] = None,
         \A s \in Subs : s \in closing'[c] <=>
           \E t \in Topics : subsMap[c][t] = s /\ subsMap'[c][t] # s,
         closing'[c] \subseteq Subs,
         UNCHANGED <<busy, owner, fwd, stage, subTopic, phase, pc>>
  PROVE  PlacesInv'
<1>1. BusyInv(c) /\ EntryInv(c) /\ ClosingInv(c) /\ busy[c] = None /\ pc[c] = "idle" /\ closing[c] = {}
  BY DEF PlacesInv, BusyInv
<1>2. ASSUME NEW d \in Conns, d # c PROVE BusyInv(d)' /\ EntryInv(d)' /\ ClosingInv(d)'
  <2>1. BusyInv(d) /\ EntryInv(d) /\ ClosingInv(d)
    BY DEF PlacesInv
  <2>. QED BY <1>2, <2>1 DEF PlaceTypes, BusyInv, EntryInv, ClosingInv
<1>3. BusyInv(c)'
  BY <1>1 DEF BusyInv
<1>4. EntryInv(c)'
  <2>1. SUFFICES ASSUME NEW t \in Topics, subsMap'[c][t] # None
                 PROVE  LET s == subsMap[c][t] IN
                        /\ subsMap'[c][t] = s
                        /\ owner[s] = c /\ stage[s] = "live" /\ subTopic[s] = t
                        /\ fwd[s] # "none" /\ s \notin closing'[c]
    BY DEF EntryInv
  <2>2. PICK s \in Subs : s = subsMap[c][t] /\ s = subsMap'[c][t] /\ s # None
    BY <2>1 DEF PlaceTypes
  <2>3. owner[s] = c /\ stage[s] = "live" /\ subTopic[s] = t /\ fwd[s] # "none"
    BY <1>1, <2>2 DEF EntryInv
  <2>4. \A u \in Topics : subsMap[c][u] = s => u = t
    BY <1>1, <2>2, <2>3 DEF EntryInv
  <2>. QED BY <2>2, <2>3, <2>4
<1>5. ClosingInv(c)'
  <2>1. SUFFICES ASSUME NEW s \in Subs, s \in closing'[c]
                 PROVE  owner[s] = c /\ stage[s] = "live" /\ fwd[s] # "none"
    BY DEF ClosingInv
  <2>2. PICK t \in Topics : subsMap[c][t] = s /\ s # None
    BY <2>1 DEF PlaceTypes
  <2>. QED BY <1>1, <2>2 DEF EntryInv
<1>6. ASSUME NEW s \in Subs PROVE PlaceInv(s)'
  <2>1. PlaceInv(s) /\ (Working(s) => Working(s)')
    BY DEF PlacesInv, Working
  <2>2. CASE owner[s] = c
    <3>1. stage[s] = "live" => subTopic[s] \in Topics
      BY DEF TypeInv, LockHeld
    <3>2. stage[s] = "live" /\ subsMap[c][subTopic[s]] = s
            => subsMap'[c][subTopic[s]] = s \/ s \in closing'[c]
      BY <3>1
    <3>. QED BY <1>1, <2>1, <2>2, <3>2 DEF PlaceInv
  <2>3. CASE owner[s] # c
    BY <2>1, <2>3 DEF PlaceTypes, PlaceInv
  <2>. QED BY <2>2, <2>3
<1>. QED BY <1>2, <1>3, <1>4, <1>5, <1>6 DEF PlacesInv

LEMMA UnsubscribePlaces ==
  ASSUME TypeInv, PlaceTypes, PlacesInv, NEW c \in Conns,
         ReadError(c) \/ \E t \in Topics : RecvUnsubscribe(c, t)
  PROVE  PlacesInv'
<1>0. \A t \in Topics : subsMap[c][t] \in Subs \cup {None}
  <2>1. subsMap \in [Conns -> [Topics -> Subs \cup {None}]]
    BY DEF PlaceTypes
  <2>. QED BY <2>1
<1>1. ASSUME NEW t \in Topics, RecvUnsubscribe(c, t) PROVE PlacesInv'
  <2>1. /\ reader[c] = "read" /\ reader' = [reader EXCEPT ![c] = "unsubscribe"]
        /\ closing' = [closing EXCEPT ![c] = {subsMap[c][t]} \ {None}]
        /\ subsMap' = [subsMap EXCEPT ![c][t] = None]
        /\ UNCHANGED <<busy, owner, fwd, stage, subTopic, phase, pc>>
    BY <1>1 DEF RecvUnsubscribe, Reading, fwdVars, brokerVars, hubVars, subscribeVars, publishVars
  <2>2. /\ \A u \in Topics : subsMap'[c][u] = IF u = t THEN None ELSE subsMap[c][u]
        /\ closing'[c] = {subsMap[c][t]} \ {None} /\ reader'[c] = "unsubscribe"
        /\ \A d \in Conns : d # c => /\ reader'[d] = reader[d] /\ subsMap'[d] = subsMap[d]
                                     /\ closing'[d] = closing[d]
    BY <2>1 DEF PlaceTypes
  <2>3. \A s \in Subs : s \in closing'[c] <=>
          \E u \in Topics : subsMap[c][u] = s /\ subsMap'[c][u] # s
    BY <2>2 DEF PlaceTypes
  <2>. QED BY <1>0, <2>1, <2>2, <2>3, LeavePlaces
<1>2. CASE ReadError(c)
  <2>1. /\ reader[c] = "read" /\ reader' = [reader EXCEPT ![c] = "closeall"]
        /\ closing' = [closing EXCEPT ![c] = {subsMap[c][t] : t \in Topics} \ {None}]
        /\ subsMap' = [subsMap EXCEPT ![c] = [t \in Topics |-> None]]
        /\ UNCHANGED <<busy, owner, fwd, stage, subTopic, phase, pc>>
    BY <1>2 DEF ReadError, fwdVars, brokerVars, hubVars, subscribeVars, publishVars
  <2>2. /\ \A u \in Topics : subsMap'[c][u] = None
        /\ closing'[c] = {subsMap[c][t] : t \in Topics} \ {None} /\ reader'[c] = "closeall"
        /\ \A d \in Conns : d # c => /\ reader'[d] = reader[d] /\ subsMap'[d] = subsMap[d]
                                     /\ closing'[d] = closing[d]
    BY <2>1 DEF PlaceTypes
  <2>3. \A s \in Subs : s \in closing'[c] <=>
          \E u \in Topics : subsMap[c][u] = s /\ subsMap'[c][u] # s
    BY <2>2 DEF PlaceTypes
  <2>4. closing'[c] \subseteq Subs
    BY <1>0, <2>2
  <2>. QED BY <2>1, <2>2, <2>3, <2>4, LeavePlaces
<1>. QED BY <1>1, <1>2

LEMMA CancelPlaces ==
  ASSUME PlaceTypes, PlacesInv, NEW c \in Conns, NEW s \in Subs, CancelSub(c, s)
  PROVE  PlacesInv'
<1>1. /\ s \in closing[c] /\ stage[s] = "live" /\ stage' = [stage EXCEPT ![s] = "closed"]
      /\ phase[s] = "open" /\ phase' = [phase EXCEPT ![s] = phase'[s]]
      /\ UNCHANGED <<reader, busy, subsMap, closing, owner, fwd, subTopic, pc>>
  BY DEF PlaceTypes, CancelSub, Unsubscribe, CloseSwap, connVars, publishVars
<1>2. owner[s] = c /\ fwd[s] # "none"
  BY <1>1 DEF PlacesInv, ClosingInv
<1>3. ASSUME NEW d \in Conns PROVE BusyInv(d)' /\ EntryInv(d)' /\ ClosingInv(d)'
  <2>1. BusyInv(d) /\ EntryInv(d) /\ ClosingInv(d)
    BY DEF PlacesInv
  <2>2. BusyInv(d)'
    BY <1>1, <2>1 DEF PlaceTypes, BusyInv
  <2>3. EntryInv(d)'
    BY <1>1, <1>2, <2>1 DEF PlaceTypes, EntryInv
  <2>4. ClosingInv(d)'
    BY <1>1, <2>1 DEF PlaceTypes, ClosingInv
  <2>. QED BY <2>2, <2>3, <2>4
<1>4. ASSUME NEW r \in Subs PROVE PlaceInv(r)'
  <2>1. PlaceInv(r) /\ (Working(r) <=> Working(r)')
    BY <1>1 DEF PlacesInv, Working
  <2>2. CASE r = s
    BY <1>1, <1>2, <2>1, <2>2 DEF PlaceTypes, PlaceInv
  <2>3. CASE r # s
    BY <1>1, <2>1, <2>3 DEF PlaceTypes, PlaceInv
  <2>. QED BY <2>2, <2>3
<1>. QED BY <1>3, <1>4 DEF PlacesInv

LEMMA ClosedPlaces ==
  ASSUME StageIsPhase, PlaceTypes, PlacesInv, NEW c \in Conns, Finish(c)
  PROVE  PlacesInv'
<1>1. /\ reader[c] \in {"unsubscribe", "closeall"} /\ AllClosed(c)
      /\ reader' = [reader EXCEPT ![c] = reader'[c]] /\ reader'[c] \in {"read", "end"}
      /\ closing' = [closing EXCEPT ![c] = {}]
      /\ UNCHANGED <<busy, subsMap, owner, fwd, stage, subTopic, phase, pc>>
  BY DEF PlaceTypes, Finish, FinishUnsubscribe, HandlerReturn, fwdVars, brokerVars, hubVars,
         subscribeVars, publishVars
<1>2. ASSUME NEW d \in Conns PROVE BusyInv(d)' /\ EntryInv(d)' /\ ClosingInv(d)'
  <2>1. BusyInv(d) /\ EntryInv(d) /\ ClosingInv(d)
    BY DEF PlacesInv
  <2>. QED BY <1>1, <2>1 DEF PlaceTypes, BusyInv, EntryInv, ClosingInv
<1>3. ASSUME NEW s \in Subs PROVE PlaceInv(s)'
  <2>1. PlaceInv(s) /\ (Working(s) <=> Working(s)')
    BY <1>1 DEF PlacesInv, Working
  <2>2. s \in closing[c] => phase[s] = "done" /\ stage[s] # "live"
    BY <1>1 DEF AllClosed, StageIsPhase
  <2>3. stage[s] = "live" /\ s \in closing[owner[s]] => s \in closing'[owner[s]]
    BY <1>1, <2>1, <2>2 DEF PlaceTypes, PlaceInv
  <2>4. stage[s] = "closed" /\ s \in closing[owner[s]] => s \in closing'[owner[s]] \/ phase[s] = "done"
    BY <1>1, <2>1, <2>2 DEF PlaceTypes, PlaceInv
  <2>. QED BY <1>1, <2>1, <2>3, <2>4 DEF PlaceInv
<1>. QED BY <1>2, <1>3 DEF PlacesInv

LEMMA PublishPlaces ==
  ASSUME PlaceTypes, PlacesInv, NEW c \in Conns,
         EndPublish(c) \/ \E t \in Topics : \E ok \in Outcomes(t) : BeginPublish(c, t, ok)
  PROVE  PlacesInv'
<1>1. /\ reader[c] \in {"read", "publish"} /\ reader' = [reader EXCEPT ![c] = reader'[c]]
      /\ \/ reader'[c] = "publish"
         \/ reader'[c] = "read" /\ pc'[c] = "idle"
      /\ \A d \in Conns : d # c => pc'[d] = pc[d]
      /\ UNCHANGED <<busy, subsMap, closing, owner, fwd, stage, subTopic, phase>>
  <2>1. ASSUME NEW t \in Topics, NEW ok \in Outcomes(t), BeginPublish(c, t, ok)
        PROVE  /\ reader[c] = "read" /\ reader' = [reader EXCEPT ![c] = "publish"]
               /\ pc' = [pc EXCEPT ![c] = "lock"]
               /\ UNCHANGED <<busy, subsMap, closing, owner, fwd, stage, subTopic, phase>>
    BY <2>1 DEF BeginPublish, Reading, PublishCall, fwdVars, hubVars, subscribeVars
  <2>2. ASSUME EndPublish(c)
        PROVE  /\ reader' = [reader EXCEPT ![c] = "read"] /\ pc[c] # "idle"
               /\ pc' = [pc EXCEPT ![c] = "idle"]
               /\ UNCHANGED <<busy, subsMap, closing, owner, fwd, stage, subTopic, phase>>
    BY <2>2 DEF EndPublish, FinishPublish, PublishReturn, AppendFails, Return, fwdVars, hubVars, subscribeVars
  <2>3. pc[c] # "idle" => reader[c] = "publish"
    BY DEF PlacesInv, BusyInv
  <2>. QED BY <2>1, <2>2, <2>3 DEF PlaceTypes
<1>2. ASSUME NEW d \in Conns PROVE BusyInv(d)' /\ EntryInv(d)' /\ ClosingInv(d)'
  <2>1. BusyInv(d) /\ EntryInv(d) /\ ClosingInv(d)
    BY DEF PlacesInv
  <2>. QED BY <1>1, <2>1 DEF PlaceTypes, BusyInv, EntryInv, ClosingInv
<1>3. ASSUME NEW s \in Subs PROVE PlaceInv(s)'
  BY <1>1 DEF PlacesInv, PlaceInv, Working
<1>. QED BY <1>2, <1>3 DEF PlacesInv

LEMMA PlacesStep ==
  ASSUME BaseInv, WSTypeOK, PlacesInv, WSAct
  PROVE  PlacesInv'
<1>0. TypeInv /\ StageIsPhase /\ PlaceTypes
  BY PlaceTypesHold DEF BaseInv, HubInv
<1>1. ASSUME NEW c \in Conns, ConnMove(c) PROVE PlacesInv'
  <2>1. CASE \E t \in Topics, from \in From, s \in Subs : BeginSubscribe(c, t, from, s)
    BY <1>0, <2>1, BeginPlaces
  <2>2. CASE \E t \in Topics : \E ok \in Outcomes(t) : BeginPublish(c, t, ok)
    BY <1>0, <2>2, PublishPlaces
  <2>3. CASE \E s \in Subs : CancelSub(c, s)
    BY <1>0, <2>3, CancelPlaces
  <2>4. CASE \E t \in Topics : RecvUnsubscribe(c, t)
    BY <1>0, <2>4, UnsubscribePlaces
  <2>. QED
    BY <1>0, <1>1, <2>1, <2>2, <2>3, <2>4, ConnPlaces, ErrorPlaces, FinishPlaces, UnsubscribePlaces,
       ClosedPlaces, PublishPlaces
       DEF ConnMove
<1>2. ASSUME NEW s \in Subs, SubMove(s) PROVE PlacesInv'
  BY <1>2, ForwardPlaces, SubscriptionPlaces DEF SubMove
<1>3. ASSUME NEW p \in Publishers, PublisherMove(p) PROVE PlacesInv'
  BY <1>3, PublisherPlaces
<1>4. CASE UNCHANGED vars
  BY <1>4, PlacesQuiet
     DEF PlacesSame, vars, wsVars, connVars, fwdVars, brokerVars, hubVars, publishVars, subscribeVars
<1>. QED BY <1>1, <1>2, <1>3, <1>4 DEF WSAct

--------------------------------------------------------------------------------
(* All of it together.                                                        *)
WSInv ==
  /\ DInv /\ WSTypeOK /\ PlacesInv
  /\ \A s \in Subs : HeldInv(s) /\ SeenInv(s)
  /\ \A c \in Conns : FrameInv(c) /\ RivalInv(c) /\ AckOf(c) /\ Overtaken(c) /\ StaleOf(c)

LEMMA WSInvInit == WSInit => WSInv
<1>. SUFFICES ASSUME WSInit PROVE WSInv
  OBVIOUS
<1>1. DInv /\ BrokerInit
  BY BaseInit DEF DInv, WSInit
<1>2. WSTypeOK
  BY WSTypeInit
<1>. USE NoneAssumption, ConnsAssumption
<1>3. PlacesInv
  <2>1. ASSUME NEW c \in Conns PROVE BusyInv(c) /\ EntryInv(c) /\ ClosingInv(c)
    BY <1>1 DEF WSInit, BrokerInit, BusyInv, EntryInv, ClosingInv
  <2>2. ASSUME NEW s \in Subs PROVE PlaceInv(s)
    BY <1>1 DEF WSInit, BrokerInit, PlaceInv
  <2>. QED BY <2>1, <2>2 DEF PlacesInv
<1>4. ASSUME NEW s \in Subs PROVE HeldInv(s) /\ SeenInv(s)
  BY <1>1 DEF WSInit, BrokerInit, HeldInv, Holds, SeenInv
<1>5. ASSUME NEW c \in Conns
      PROVE  FrameInv(c) /\ RivalInv(c) /\ AckOf(c) /\ Overtaken(c) /\ StaleOf(c)
  <2>1. Len(sent[c]) = 0 /\ busy[c] = None
    BY EmptySeq DEF WSInit
  <2>2. 1 .. Len(sent[c]) = {}
    BY <2>1
  <2>. QED BY <2>1, <2>2 DEF FrameInv, RivalInv, AckOf, Overtaken, StaleOf
<1>. QED BY <1>1, <1>2, <1>3, <1>4, <1>5 DEF WSInv

LEMMA WSInvStep == WSInv /\ [WSNext]_vars => WSInv'
<1>. SUFFICES ASSUME WSInv, [WSNext]_vars PROVE WSInv'
  OBVIOUS
<1>1. /\ BaseInv /\ WSTypeOK /\ PlacesInv /\ WSAct
      /\ \A s \in Subs : OrderInv(s) /\ HeldInv(s) /\ SeenInv(s) /\ PlaceInv(s)
      /\ \A c \in Conns : FrameInv(c) /\ RivalInv(c) /\ AckOf(c) /\ Overtaken(c) /\ StaleOf(c)
  BY NextIsWSAct DEF WSInv, DInv, PlacesInv
<1>2. BrokerAct
  BY <1>1, ActIsBrokerAct
<1>3. DInv'
  BY <1>1, <1>2, BaseStep, OrderStep DEF DInv
<1>4. SentOK
  <2>1. \A s \in Subs : BackfillIsStretch(s)
    BY <1>1 DEF OrderInv
  <2>. QED BY <1>1, <2>1, SentStep
<1>5. TypeInv
  BY <1>1 DEF BaseInv
<1>6. WSTypeOK' /\ PlacesInv'
  BY <1>1, <1>4, <1>5, WSTypeStep, PlacesStep
<1>7. ASSUME NEW s \in Subs PROVE HeldInv(s)' /\ SeenInv(s)'
  BY <1>1, <1>2, HeldStep, SeenStep
<1>8. ASSUME NEW c \in Conns
      PROVE  FrameInv(c)' /\ RivalInv(c)' /\ AckOf(c)' /\ Overtaken(c)' /\ StaleOf(c)'
  <2>1. Queue(c)
    BY <1>1, <1>4, QueueFacts
  <2>2. FrameInv(c)' /\ RivalInv(c)'
    BY <1>1, <1>4, FrameStep, RivalStep
  <2>3. AckOf(c)'
    BY <1>1, <1>5, <2>1, AckStep
  <2>4. Overtaken(c)' /\ StaleOf(c)'
    BY <1>1, <2>1, OvertakenStep, StaleStep
  <2>. QED BY <2>2, <2>3, <2>4
<1>. QED BY <1>3, <1>6, <1>7, <1>8 DEF WSInv

LEMMA SessionInvariant == WSSpec => []WSInv
<1>. QED BY WSInvInit, WSInvStep, PTL DEF WSSpec

--------------------------------------------------------------------------------
(* The client's view of its subscriptions is true: whenever the reader of a   *)
(* connection is free to take the next frame, the map of the session holds    *)
(* exactly the live subscriptions of the connection, so that none is left in  *)
(* the hub that neither unsubscribe nor the end of the connection would close *)
(* (ws.go:176-211, 240-259).                                                  *)
THEOREM MapHoldsTheLive == WSSpec => []MapIsExact
<1>1. ASSUME WSInv PROVE MapIsExact
  <2>1. SUFFICES ASSUME NEW c \in Conns, reader[c] \in {"read", "publish"}, NEW s \in Subs
                 PROVE  (owner[s] = c /\ stage[s] = "live") <=> \E t \in Topics : subsMap[c][t] = s
    BY DEF MapIsExact
  <2>2. /\ BusyInv(c) /\ EntryInv(c) /\ PlaceInv(s)
        /\ s # None /\ c # None
    BY <1>1, NoneAssumption, ConnsAssumption DEF WSInv, PlacesInv
  <2>3. busy[c] = None /\ closing[c] = {}
    BY <2>1, <2>2 DEF BusyInv
  <2>4. ASSUME owner[s] = c, stage[s] = "live" PROVE \E t \in Topics : subsMap[c][t] = s
    <3>1. subTopic[s] \in Topics
      BY <1>1, <2>4 DEF WSInv, DInv, BaseInv, TypeInv, LockHeld
    <3>2. subsMap[c][subTopic[s]] = s
      BY <2>2, <2>3, <2>4 DEF PlaceInv, Working
    <3>. QED BY <3>1, <3>2
  <2>5. ASSUME NEW t \in Topics, subsMap[c][t] = s PROVE owner[s] = c /\ stage[s] = "live"
    BY <2>2, <2>5 DEF EntryInv
  <2>. QED BY <2>4, <2>5
<1>. QED BY <1>1, SessionInvariant, PTL

(* The ack splits the frames of its subscription: what precedes it is at or   *)
(* below its last_seq, what follows it above (ws.go:194-209, 222-226).        *)
THEOREM AckSplitsFrames == WSSpec => []AckIsFence
<1>1. WSInv => AckIsFence
  BY DEF WSInv, AckOf, AckIsFence
<1>. QED BY <1>1, SessionInvariant, PTL

(* A frame of an earlier subscription of the topic that comes after the ack   *)
(* of the next one repeats an event: whatever the old subscription still      *)
(* holds was in the stream when the new one read its backfill                 *)
(* (ws.go:213-248, hub.go:63-94, 99-119).                                     *)
THEOREM LateFramesRepeat == WSSpec => []StaleAreDuplicates
<1>1. WSInv => StaleAreDuplicates
  BY DEF WSInv, StaleOf, StaleAreDuplicates
<1>. QED BY <1>1, SessionInvariant, PTL

--------------------------------------------------------------------------------
(* What the frames of a connection tell one client, frame by frame.           *)
Missed(m, s) == IF m.type = "lagging" /\ m.by = s THEN m.n ELSE 0

(* MissedIn sums up its frames: there is a running total that ends in it.     *)
Totals(frames, s, sum) ==
  /\ sum[0] = 0
  /\ \A i \in 1 .. Len(frames) : sum[i] = sum[i - 1] + Missed(frames[i], s)
  /\ \A i \in 0 .. Len(frames) : sum[i] \in Nat
  /\ MissedIn(frames, s) = sum[Len(frames)]

LEMMA RunningTotal ==
  ASSUME NEW frames \in Seq(Msgs), NEW s
  PROVE  \E sum : Totals(frames, s, sum)
<1>. DEFINE n == Len(frames)
            Is(g) == g = [i \in 0 .. n |-> IF i = 0 THEN 0 ELSE g[i - 1] + Missed(frames[i], s)]
            sum == CHOOSE g : Is(g)
            h == [i \in 1 .. n |-> [x \in Nat |-> x + Missed(frames[i], s)]]
<1>1. n \in Nat /\ \A i \in 1 .. n : Missed(frames[i], s) \in Nat
  <2>1. \A i \in 1 .. n : frames[i] \in Msgs
    BY ElementOfSeq
  <2>2. \A m \in Msgs : Missed(m, s) \in Nat
    BY DEF Msgs, Missed
  <2>. QED BY <2>1, <2>2, LenProperties
<1>2. MissedIn(frames, s) = sum[n]
  BY DEF MissedIn, Missed
<1>. HIDE DEF n
<1>3. PICK g : IsLoop(g, n, Nat, 0, h)
  <2>1. h \in [1 .. n -> [Nat -> Nat]] /\ 0 \in Nat
    BY <1>1
  <2>. HIDE DEF h
  <2>. QED BY <1>1, <2>1, LoopExists
<1>4. Is(g) /\ g \in [0 .. n -> Nat]
  <2>1. \A i \in 0 .. n : i # 0 => h[i][g[i - 1]] = g[i - 1] + Missed(frames[i], s)
    <3>1. \A i \in 0 .. n : i # 0 => i \in 1 .. n /\ g[i - 1] \in Nat
      BY <1>1, <1>3 DEF IsLoop
    <3>. QED BY <3>1
  <2>. HIDE DEF h
  <2>. QED BY <1>3, <2>1 DEF IsLoop
<1>5. Is(sum)
  <2>. HIDE DEF Is
  <2>. QED BY <1>4
<1>. HIDE DEF sum
<1>6. sum[0] = 0 /\ \A i \in 1 .. n : sum[i] = sum[i - 1] + Missed(frames[i], s)
  <2>1. \A i \in 0 .. n : sum[i] = IF i = 0 THEN 0 ELSE sum[i - 1] + Missed(frames[i], s)
    BY <1>5
  <2>. QED BY <1>1, <2>1
<1>7. \A i \in 0 .. n : sum[i] \in Nat
  <2>. DEFINE S == {i \in 0 .. n : sum[i] \in Nat}
  <2>1. 0 \in S
    BY <1>1, <1>6
  <2>2. \A i \in 0 .. n : i < n /\ i \in S => i + 1 \in S
    <3>1. SUFFICES ASSUME NEW i \in 0 .. n, i < n, i \in S PROVE i + 1 \in S
      OBVIOUS
    <3>2. i + 1 \in 1 .. n /\ i + 1 - 1 = i
      BY <1>1, <3>1
    <3>3. sum[i + 1] = sum[i] + Missed(frames[i + 1], s)
      BY <1>6, <3>2
    <3>. QED BY <1>1, <3>1, <3>2, <3>3
  <2>3. \A i \in 0 .. n : i \in S
    <3>. HIDE DEF S
    <3>. QED BY <1>1, <2>1, <2>2, Induction
  <2>. QED BY <2>3
<1>. QED BY <1>2, <1>6, <1>7 DEF Totals, n

(* A frame adds what it says, and what other subscriptions get adds nothing.  *)
LEMMA MissedAppend ==
  ASSUME NEW frames \in Seq(Msgs), NEW m \in Msgs, NEW s
  PROVE  /\ MissedIn(frames, s) \in Nat
         /\ MissedIn(Append(frames, m), s) = MissedIn(frames, s) + Missed(m, s)
<1>. DEFINE more == Append(frames, m)
            n == Len(frames)
<1>1. /\ more \in Seq(Msgs) /\ n \in Nat /\ Len(more) = n + 1
      /\ more[n + 1] = m /\ \A i \in 1 .. n : more[i] = frames[i]
  BY LenProperties, AppendProperties
<1>2. PICK a : Totals(frames, s, a)
  BY RunningTotal
<1>3. PICK b : Totals(more, s, b)
  BY <1>1, RunningTotal
<1>. HIDE DEF more, n
<1>. DEFINE S == {i \in 0 .. n : b[i] = a[i]}
<1>4. 0 \in S
  BY <1>1, <1>2, <1>3 DEF Totals
<1>5. \A i \in 0 .. n : i < n /\ i \in S => i + 1 \in S
  <2>1. SUFFICES ASSUME NEW i \in 0 .. n, i < n, i \in S PROVE i + 1 \in S
    OBVIOUS
  <2>2. i + 1 \in 1 .. n /\ i + 1 \in 1 .. n + 1 /\ i + 1 - 1 = i
    BY <1>1, <2>1
  <2>3. a[i + 1] = a[i] + Missed(frames[i + 1], s)
    BY <1>2, <2>2 DEF Totals, n
  <2>4. b[i + 1] = b[i] + Missed(more[i + 1], s)
    BY <1>1, <1>3, <2>2 DEF Totals
  <2>. QED BY <1>1, <2>1, <2>2, <2>3, <2>4
<1>6. b[n] = a[n]
  <2>1. n \in 0 .. n
    BY <1>1
  <2>2. \A i \in 0 .. n : i \in S
    <3>. HIDE DEF S
    <3>. QED BY <1>1, <1>4, <1>5, Induction
  <2>. QED BY <2>1, <2>2
<1>7. b[n + 1] = b[n] + Missed(m, s)
  <2>1. n + 1 \in 1 .. n + 1 /\ n + 1 - 1 = n
    BY <1>1
  <2>. QED BY <1>1, <1>3, <2>1 DEF Totals
<1>8. MissedIn(frames, s) = a[n] /\ a[n] \in Nat
  <2>1. n \in 0 .. n
    BY <1>1
  <2>. QED BY <1>2, <2>1 DEF Totals, n
<1>9. MissedIn(more, s) = b[n + 1]
  BY <1>1, <1>3 DEF Totals
<1>. QED BY <1>6, <1>7, <1>8, <1>9 DEF more

(* The events of s among the frames, as a set.                                *)
EventSet(frames, s) ==
  {frames[i].n : i \in {j \in DOMAIN frames : frames[j].type = "event" /\ frames[j].by = s}}

LEMMA MissedNone ==
  ASSUME NEW frames \in Seq(Msgs), NEW s, \A i \in 1 .. Len(frames) : frames[i].by # s
  PROVE  MissedIn(frames, s) = 0 /\ EventSet(frames, s) = {}
<1>. DEFINE n == Len(frames)
<1>1. n \in Nat /\ DOMAIN frames = 1 .. n
  BY LenProperties
<1>2. PICK a : Totals(frames, s, a)
  BY RunningTotal
<1>. DEFINE S == {i \in 0 .. n : a[i] = 0}
<1>3. 0 \in S
  BY <1>1, <1>2 DEF Totals
<1>4. \A i \in 0 .. n : i < n /\ i \in S => i + 1 \in S
  <2>1. SUFFICES ASSUME NEW i \in 0 .. n, i < n, i \in S PROVE i + 1 \in S
    OBVIOUS
  <2>2. i + 1 \in 1 .. n /\ i + 1 \in 0 .. n /\ i + 1 - 1 = i
    BY <1>1, <2>1
  <2>3. a[i + 1] = a[i] + Missed(frames[i + 1], s)
    BY <1>2, <2>2 DEF Totals
  <2>4. Missed(frames[i + 1], s) = 0
    BY <2>2 DEF Missed
  <2>. QED BY <2>1, <2>2, <2>3, <2>4
<1>5. a[n] = 0
  <2>1. n \in 0 .. n
    BY <1>1
  <2>2. \A i \in 0 .. n : i \in S
    <3>. HIDE DEF S
    <3>. QED BY <1>1, <1>3, <1>4, Induction
  <2>. QED BY <2>1, <2>2
<1>. QED BY <1>1, <1>2, <1>5 DEF Totals, EventSet

LEMMA EventSetAppend ==
  ASSUME NEW frames \in Seq(Msgs), NEW m \in Msgs, NEW s
  PROVE  EventSet(Append(frames, m), s) =
           EventSet(frames, s) \cup (IF m.type = "event" /\ m.by = s THEN {m.n} ELSE {})
<1>. DEFINE more == Append(frames, m)
            n == Len(frames)
<1>1. /\ n \in Nat /\ DOMAIN frames = 1 .. n /\ DOMAIN more = 1 .. n + 1
      /\ more[n + 1] = m /\ \A i \in 1 .. n : more[i] = frames[i]
  BY LenProperties, AppendProperties
<1>. HIDE DEF more, n
<1>2. ASSUME NEW x PROVE x \in EventSet(more, s) <=> x \in EventSet(frames, s) \/ (m.type = "event" /\ m.by = s /\ x = m.n)
  <2>1. x \in EventSet(more, s) <=>
          \E i \in 1 .. n + 1 : more[i].type = "event" /\ more[i].by = s /\ x = more[i].n
    BY <1>1 DEF EventSet
  <2>2. x \in EventSet(frames, s) <=>
          \E i \in 1 .. n : frames[i].type = "event" /\ frames[i].by = s /\ x = frames[i].n
    BY <1>1 DEF EventSet
  <2>3. n + 1 \in 1 .. n + 1 /\ \A i \in 1 .. n + 1 : i \in 1 .. n \/ i = n + 1
    BY <1>1
  <2>4. \A i \in 1 .. n : i \in 1 .. n + 1
    BY <1>1
  <2>. QED BY <1>1, <2>1, <2>2, <2>3, <2>4
<1>. QED BY <1>2 DEF more

(* EventsIn is the same events in the order of the frames: there is a running *)
(* list of them that ends in it.                                              *)
Mine(m, s) == m.type = "event" /\ m.by = s
Longer(seqs, m, s) == IF Mine(m, s) THEN Append(seqs, m.n) ELSE seqs

Lists(frames, s, got) ==
  /\ got[0] = <<>>
  /\ \A i \in 1 .. Len(frames) : got[i] = Longer(got[i - 1], frames[i], s)
  /\ \A i \in 0 .. Len(frames) : got[i] \in Seq(Nat)
  /\ EventsIn(frames, s) = got[Len(frames)]

LEMMA LongerList ==
  ASSUME NEW seqs \in Seq(Nat), NEW m \in Msgs, NEW s
  PROVE  Longer(seqs, m, s) \in Seq(Nat)
<1>1. m.n \in Nat
  BY DEF Msgs
<1>. QED BY <1>1, AppendProperties DEF Longer

LEMMA RunningList ==
  ASSUME NEW frames \in Seq(Msgs), NEW s
  PROVE  \E got : Lists(frames, s, got)
<1>. DEFINE n == Len(frames)
            D == Seq(Nat)
            Is(g) == g = [i \in 0 .. n |-> IF i = 0 THEN <<>> ELSE Longer(g[i - 1], frames[i], s)]
            got == CHOOSE g : Is(g)
            h == [i \in 1 .. n |-> [x \in D |-> Longer(x, frames[i], s)]]
<1>1. /\ n \in Nat /\ <<>> \in D
      /\ \A i \in 1 .. n : \A x \in D : Longer(x, frames[i], s) \in D
  <2>1. \A i \in 1 .. n : frames[i] \in Msgs
    BY ElementOfSeq
  <2>. QED BY <2>1, LenProperties, LongerList, EmptySeq
<1>2. EventsIn(frames, s) = got[n]
  <2>1. EventsIn(frames, s) =
          LET f[i \in 0 .. Len(frames)] ==
                IF i = 0 THEN <<>>
                ELSE IF Mine(frames[i], s) THEN Append(f[i - 1], frames[i].n) ELSE f[i - 1]
          IN  f[Len(frames)]
    BY DEF EventsIn, Mine
  <2>. QED BY <2>1 DEF Longer
<1>. HIDE DEF n, D
<1>3. PICK g : IsLoop(g, n, D, <<>>, h)
  <2>1. h \in [1 .. n -> [D -> D]]
    BY <1>1
  <2>. HIDE DEF h
  <2>. QED BY <1>1, <2>1, LoopExists
<1>4. Is(g) /\ g \in [0 .. n -> D]
  <2>1. \A i \in 0 .. n : i # 0 => h[i][g[i - 1]] = Longer(g[i - 1], frames[i], s)
    <3>1. \A i \in 0 .. n : i # 0 => i \in 1 .. n /\ g[i - 1] \in D
      BY <1>1, <1>3 DEF IsLoop
    <3>. QED BY <3>1
  <2>. HIDE DEF h
  <2>. QED BY <1>3, <2>1 DEF IsLoop
<1>5. Is(got)
  <2>. HIDE DEF Is
  <2>. QED BY <1>4
<1>. HIDE DEF got
<1>6. got[0] = <<>> /\ \A i \in 1 .. n : got[i] = Longer(got[i - 1], frames[i], s)
  <2>1. \A i \in 0 .. n : got[i] = IF i = 0 THEN <<>> ELSE Longer(got[i - 1], frames[i], s)
    BY <1>5
  <2>. QED BY <1>1, <2>1
<1>7. \A i \in 0 .. n : got[i] \in D
  <2>. DEFINE S == {i \in 0 .. n : got[i] \in D}
  <2>1. 0 \in S
    BY <1>1, <1>6
  <2>2. \A i \in 0 .. n : i < n /\ i \in S => i + 1 \in S
    <3>1. SUFFICES ASSUME NEW i \in 0 .. n, i < n, i \in S PROVE i + 1 \in S
      OBVIOUS
    <3>2. i + 1 \in 1 .. n /\ i + 1 \in 0 .. n /\ i + 1 - 1 = i
      BY <1>1, <3>1
    <3>3. got[i + 1] = Longer(got[i], frames[i + 1], s)
      BY <1>6, <3>2
    <3>. QED BY <1>1, <3>1, <3>2, <3>3
  <2>3. \A i \in 0 .. n : i \in S
    <3>. HIDE DEF S
    <3>. QED BY <1>1, <2>1, <2>2, Induction
  <2>. QED BY <2>3
<1>. QED BY <1>2, <1>6, <1>7 DEF Lists, n, D

(* It holds the set, and a frame makes it longer by its own event.            *)
LEMMA EventsRange ==
  ASSUME NEW frames \in Seq(Msgs), NEW s
  PROVE  LET seqs == EventsIn(frames, s)
         IN  seqs \in Seq(Nat) /\ {seqs[i] : i \in 1 .. Len(seqs)} = EventSet(frames, s)
<1>. DEFINE n == Len(frames)
            Upto(k) == {frames[i].n : i \in {j \in 1 .. k : Mine(frames[j], s)}}
            Has(seqs) == {seqs[i] : i \in 1 .. Len(seqs)}
<1>1. n \in Nat /\ DOMAIN frames = 1 .. n
  BY LenProperties
<1>2. PICK got : Lists(frames, s, got)
  BY RunningList
<1>. DEFINE S == {k \in 0 .. n : Has(got[k]) = Upto(k)}
<1>3. 0 \in S
  <2>1. got[0] = <<>>
    BY <1>2 DEF Lists
  <2>2. 1 .. Len(got[0]) = {} /\ 1 .. 0 = {}
    BY <2>1, EmptySeq
  <2>. QED BY <1>1, <2>2
<1>4. \A k \in 0 .. n : k < n /\ k \in S => k + 1 \in S
  <2>1. SUFFICES ASSUME NEW k \in 0 .. n, k < n, k \in S PROVE k + 1 \in S
    OBVIOUS
  <2>2. k + 1 \in 1 .. n /\ k + 1 \in 0 .. n /\ k + 1 - 1 = k
    BY <1>1, <2>1
  <2>3. got[k + 1] = Longer(got[k], frames[k + 1], s) /\ got[k] \in Seq(Nat)
    BY <1>2, <2>2 DEF Lists
  <2>4. frames[k + 1].n \in Nat
    <3>1. frames[k + 1] \in Msgs
      BY <2>2, ElementOfSeq
    <3>. QED BY <3>1 DEF Msgs
  <2>5. \A j : j \in 1 .. k + 1 <=> j \in 1 .. k \/ j = k + 1
    BY <1>1, <2>1
  <2>6. Upto(k + 1) = Upto(k) \cup (IF Mine(frames[k + 1], s) THEN {frames[k + 1].n} ELSE {})
    BY <2>5
  <2>7. Has(got[k + 1]) = Has(got[k]) \cup (IF Mine(frames[k + 1], s) THEN {frames[k + 1].n} ELSE {})
    <3>. DEFINE seqs == got[k]
                x == frames[k + 1].n
    <3>1. /\ Len(seqs) \in Nat /\ Len(Append(seqs, x)) = Len(seqs) + 1
          /\ Append(seqs, x)[Len(seqs) + 1] = x
          /\ \A i \in 1 .. Len(seqs) : Append(seqs, x)[i] = seqs[i]
      BY <2>3, <2>4, LenProperties, AppendProperties
    <3>2. \A i : i \in 1 .. Len(seqs) + 1 <=> i \in 1 .. Len(seqs) \/ i = Len(seqs) + 1
      BY <3>1
    <3>3. Has(Append(seqs, x)) = Has(seqs) \cup {x}
      BY <3>1, <3>2
    <3>. QED BY <2>3, <3>3 DEF Longer
  <2>. QED BY <2>1, <2>2, <2>6, <2>7
<1>5. n \in S
  <2>1. n \in 0 .. n
    BY <1>1
  <2>2. \A k \in 0 .. n : k \in S
    <3>. HIDE DEF S
    <3>. QED BY <1>1, <1>3, <1>4, Induction
  <2>. QED BY <2>1, <2>2
<1>6. EventSet(frames, s) = Upto(n)
  BY <1>1 DEF EventSet, Mine
<1>7. EventsIn(frames, s) = got[n] /\ got[n] \in Seq(Nat)
  <2>1. n \in 0 .. n
    BY <1>1
  <2>. QED BY <1>2, <2>1 DEF Lists
<1>. QED BY <1>5, <1>6, <1>7

LEMMA EventsAppend ==
  ASSUME NEW frames \in Seq(Msgs), NEW m \in Msgs, NEW s
  PROVE  EventsIn(Append(frames, m), s) = Longer(EventsIn(frames, s), m, s)
<1>. DEFINE more == Append(frames, m)
            n == Len(frames)
<1>1. /\ more \in Seq(Msgs) /\ n \in Nat /\ Len(more) = n + 1
      /\ more[n + 1] = m /\ \A i \in 1 .. n : more[i] = frames[i]
  BY LenProperties, AppendProperties
<1>2. PICK a : Lists(frames, s, a)
  BY RunningList
<1>3. PICK b : Lists(more, s, b)
  BY <1>1, RunningList
<1>. HIDE DEF more, n
<1>. DEFINE S == {i \in 0 .. n : b[i] = a[i]}
<1>4. 0 \in S
  BY <1>1, <1>2, <1>3 DEF Lists
<1>5. \A i \in 0 .. n : i < n /\ i \in S => i + 1 \in S
  <2>1. SUFFICES ASSUME NEW i \in 0 .. n, i < n, i \in S PROVE i + 1 \in S
    OBVIOUS
  <2>2. i + 1 \in 1 .. n /\ i + 1 \in 1 .. n + 1 /\ i + 1 \in 0 .. n /\ i + 1 - 1 = i
    BY <1>1, <2>1
  <2>3. a[i + 1] = Longer(a[i], frames[i + 1], s)
    BY <1>2, <2>2 DEF Lists, n
  <2>4. b[i + 1] = Longer(b[i], more[i + 1], s)
    BY <1>1, <1>3, <2>2 DEF Lists
  <2>. QED BY <1>1, <2>1, <2>2, <2>3, <2>4
<1>6. b[n] = a[n]
  <2>1. n \in 0 .. n
    BY <1>1
  <2>2. \A i \in 0 .. n : i \in S
    <3>. HIDE DEF S
    <3>. QED BY <1>1, <1>4, <1>5, Induction
  <2>. QED BY <2>1, <2>2
<1>7. b[n + 1] = Longer(b[n], m, s)
  <2>1. n + 1 \in 1 .. n + 1 /\ n + 1 - 1 = n
    BY <1>1
  <2>. QED BY <1>1, <1>3, <2>1 DEF Lists
<1>8. EventsIn(frames, s) = a[n]
  BY <1>2 DEF Lists, n
<1>9. EventsIn(more, s) = b[n + 1]
  BY <1>1, <1>3 DEF Lists
<1>. QED BY <1>6, <1>7, <1>8, <1>9 DEF more

LEMMA EventsNone ==
  ASSUME NEW frames \in Seq(Msgs), NEW s, \A i \in 1 .. Len(frames) : frames[i].by # s
  PROVE  EventsIn(frames, s) = <<>>
<1>. DEFINE seqs == EventsIn(frames, s)
<1>0. EventSet(frames, s) = {}
  BY MissedNone
<1>1. seqs \in Seq(Nat) /\ {seqs[i] : i \in 1 .. Len(seqs)} = {}
  BY <1>0, EventsRange
<1>. HIDE DEF seqs
<1>2. Len(seqs) \in Nat
  BY <1>1, LenProperties
<1>3. ASSUME seqs # <<>> PROVE FALSE
  <2>1. 1 \in 1 .. Len(seqs)
    BY <1>1, <1>2, <1>3, EmptySeq
  <2>2. seqs[1] \in {seqs[i] : i \in 1 .. Len(seqs)}
    BY <2>1
  <2>. QED BY <1>1, <2>2
<1>. QED BY <1>3 DEF seqs

--------------------------------------------------------------------------------
(* The numbers from a + 1 to n that are not in X.                             *)
Gaps(a, n, X) == (a + 1 .. n) \ X

LEMMA GapsFinite ==
  ASSUME NEW a \in Nat, NEW n \in Nat, NEW X
  PROVE  IsFiniteSet(Gaps(a, n, X)) /\ Cardinality(Gaps(a, n, X)) \in Nat
<1>1. a + 1 \in Int /\ n \in Int
  OBVIOUS
<1>2. IsFiniteSet(a + 1 .. n) /\ Gaps(a, n, X) \in SUBSET (a + 1 .. n)
  BY <1>1, FS_Interval DEF Gaps
<1>3. IsFiniteSet(Gaps(a, n, X))
  BY <1>2, FS_Subset
<1>. QED BY <1>3, FS_CardinalityType

LEMMA GapsFewer ==
  ASSUME NEW a \in Nat, NEW n \in Nat, NEW X, NEW b \in Nat, NEW k \in Nat, NEW Y,
         Gaps(b, k, Y) \subseteq Gaps(a, n, X)
  PROVE  Cardinality(Gaps(b, k, Y)) <= Cardinality(Gaps(a, n, X))
BY GapsFinite, FS_Subset

LEMMA GapsOneMore ==
  ASSUME NEW a \in Nat, NEW n \in Nat, NEW X
  PROVE  Cardinality(Gaps(a, n + 1, X)) <= Cardinality(Gaps(a, n, X)) + 1
<1>. DEFINE S == Gaps(a, n, X) \cup {n + 1}
<1>1. /\ IsFiniteSet(S) /\ Cardinality(S) \in Nat
      /\ Cardinality(S) <= Cardinality(Gaps(a, n, X)) + 1
  BY GapsFinite, FS_AddElement
<1>2. Gaps(a, n + 1, X) \in SUBSET S
  BY DEF Gaps
<1>3. Cardinality(Gaps(a, n + 1, X)) <= Cardinality(S) /\ Cardinality(Gaps(a, n + 1, X)) \in Nat
  <2>1. n + 1 \in Nat
    OBVIOUS
  <2>. HIDE DEF S
  <2>. QED BY <1>1, <1>2, <2>1, FS_Subset, GapsFinite
<1>. HIDE DEF S
<1>. QED BY <1>1, <1>3, GapsFinite

LEMMA GapsNone ==
  ASSUME NEW a \in Nat, NEW n \in Nat, NEW X, Gaps(a, n, X) = {}
  PROVE  Cardinality(Gaps(a, n, X)) = 0
BY FS_EmptySet

--------------------------------------------------------------------------------
(* What is on its way to a subscription.  Due is how far its stream has been  *)
(* offered to it, or never will be; the event of a Publish under way is next. *)
LengthOf(s) == Len(events[subTopic[s]])
Waits(s) == \E p \in Publishers : Pending(p, s)
Due(s) == IF Waits(s) THEN LengthOf(s) - 1 ELSE LengthOf(s)

InChan(s) == {chan[s][i].event.seq : i \in 1 .. Len(chan[s])}
InHand(s) == IF Holds(s) THEN {held[s].event.seq} ELSE {}

(* The hub offers every event to s.                                           *)
Aimed(s) == \E p \in Publishers : target[p] = s
Attached(s) == stage[s] \in {"read", "live"} \/ Aimed(s)

LEMMA DueNow ==
  ASSUME BaseInv, NEW s \in Subs, stage[s] # "none"
  PROVE  /\ subTopic[s] \in Topics /\ LengthOf(s) \in Nat
         /\ Due(s) \in Nat /\ Due(s) <= LengthOf(s)
         /\ \A p \in Publishers : Pending(p, s) =>
              /\ Due(s) = LengthOf(s) - 1 /\ cur[p].seq = LengthOf(s)
              /\ \A q \in Publishers : Appended(q) => q = p
<1>1. subTopic[s] \in Topics /\ LengthOf(s) \in Nat
  BY LenProperties DEF BaseInv, TypeInv, LockHeld, BrokerTypeOK, LengthOf
<1>2. ASSUME NEW p \in Publishers, Pending(p, s)
      PROVE  /\ LengthOf(s) \in Nat \ {0} /\ cur[p].seq = LengthOf(s)
             /\ \A q \in Publishers : Appended(q) => q = p
  BY <1>2, AppendedIsLast DEF BaseInv, Pending, LengthOf
<1>. QED BY <1>1, <1>2 DEF Due, Waits

(* What a step of a publisher may mean for s: nothing, an event in its        *)
(* channel, or a drop.                                                        *)
Spared(s) ==
  /\ InChan(s)' = InChan(s) /\ lag'[s] = lag[s] /\ Due(s) <= Due(s)'
  /\ Attached(s)' => Attached(s) /\ Due(s)' = Due(s)

Receives(s) ==
  /\ Attached(s) /\ lag'[s] = lag[s] /\ Due(s)' = Due(s) + 1
  /\ InChan(s)' = InChan(s) \cup {Due(s) + 1}

Misses(s) ==
  /\ Attached(s) /\ lag'[s] = lag[s] + 1 /\ Due(s)' = Due(s) + 1
  /\ InChan(s)' = InChan(s)

(* Only one publisher is visiting subscriptions.                              *)
LEMMA OthersPending ==
  ASSUME BaseInv, NEW p \in Publishers, PublisherAct(p), NEW s \in Subs
  PROVE  /\ \A q \in Publishers : q # p => (Pending(q, s)' <=> Pending(q, s))
                                           /\ (target'[q] = s <=> target[q] = s)
         /\ subTopic'[s] = subTopic[s] /\ stage'[s] = stage[s]
<1>1. TypeInv
  BY DEF BaseInv
<1>. QED BY <1>1, OthersStay, PublisherFrame DEF Appended, InCritical, Pending, Owed

LEMMA SparedByOwner ==
  ASSUME BaseInv, NEW p \in Publishers, PublisherAct(p), NEW s \in Subs, stage[s] # "none",
         UNCHANGED <<events, chan>>, lag'[s] = lag[s],
         Pending(p, s)' => Pending(p, s),
         Attached(s)' => Attached(s) /\ (Pending(p, s) => Pending(p, s)')
  PROVE  Spared(s)
<1>1. /\ \A q \in Publishers : q # p => (Pending(q, s)' <=> Pending(q, s))
      /\ LengthOf(s)' = LengthOf(s) /\ InChan(s)' = InChan(s)
  BY OthersPending DEF LengthOf, InChan
<1>2. LengthOf(s) \in Nat
  BY DueNow
<1>3. Waits(s)' => Waits(s)
  BY <1>1 DEF Waits
<1>4. Attached(s)' => (Waits(s) => Waits(s)')
  BY <1>1 DEF Waits
<1>. QED BY <1>1, <1>2, <1>3, <1>4 DEF Spared, Due

LEMMA PublisherEffect ==
  ASSUME BaseInv, NEW p \in Publishers, PublisherAct(p), NEW s \in Subs, stage[s] # "none"
  PROVE  Spared(s) \/ Receives(s) \/ Misses(s)
<1>0. /\ pc \in [Publishers -> PcValues] /\ TypeInv /\ OnLast
      /\ cur \in [Publishers -> Event \cup {None}]
      /\ list \in [Publishers -> SUBSET Subs]
      /\ target \in [Publishers -> Subs \cup {None}]
      /\ lag \in [Subs -> Nat]
      /\ \A q \in Publishers : target[q] # None => pc[q] = "sending"
      /\ subTopic' = subTopic /\ stage' = stage /\ phase' = phase /\ registry' = registry
      /\ s # None
  BY PublisherFrame, NoneAssumption DEF BaseInv, TypeInv, BrokerTypeOK, HubTypeOK, LockHeld
<1>0a. /\ subTopic[s] \in Topics /\ LengthOf(s) \in Nat /\ Due(s) \in Nat
       /\ \A q \in Publishers : Pending(q, s) =>
            Due(s) = LengthOf(s) - 1 /\ \A r \in Publishers : Appended(r) => r = q
       /\ \A q \in Publishers : q # p => (Pending(q, s)' <=> Pending(q, s)) /\ (target'[q] = s <=> target[q] = s)
       /\ \A q \in Publishers : target[q] = s => q = p \/ ~ InCritical(p)
  BY <1>0, DueNow, OthersPending DEF TypeInv, LockHeld, InCritical
<1>1. ASSUME UNCHANGED <<events, chan>>, lag'[s] = lag[s], target'[p] = target[p],
             Pending(p, s)' <=> Pending(p, s)
      PROVE  Spared(s)
  <2>1. Attached(s)' => Attached(s)
    BY <1>0, <1>0a, <1>1 DEF Attached, Aimed
  <2>. QED BY <1>1, <2>1, SparedByOwner
<1>2. CASE \/ \E t \in Topics, at \in Nat : \E ok \in Outcomes(t) : PublishCall(p, t, ok, at)
           \/ Lock(p) \/ AppendFails(p)
  <2>1. /\ UNCHANGED <<events, chan, lag, target>>
        /\ ~ Appended(p) /\ ~ Appended(p)'
    BY <1>0, <1>2 DEF PublishCall, Lock, AppendFails, Return, hubVars, storeVars, Appended, InCritical
  <2>. QED BY <1>1, <2>1 DEF Pending
<1>3. CASE ApplyReducer(p) \/ SaveState(p) \/ UpsertMeta(p)
  <2>1. /\ pc[p] \in {"apply", "save", "meta"} /\ pc'[p] \in {"save", "meta", "fanout"}
        /\ UNCHANGED <<events, cur, chan, lag, target>>
    BY <1>0, <1>3
       DEF ApplyReducer, SaveState, StoreSetState, UpsertMeta, StoreUpsertMeta, storeVars, hubVars
  <2>2. Pending(p, s)' <=> Pending(p, s)
    BY <1>0, <2>1 DEF Appended, InCritical, Pending
  <2>. QED BY <1>1, <2>1, <2>2
<1>4. CASE AppendEvent(p)
  <2>. DEFINE t == cur[p].topic
  <2>1. /\ t \in Topics /\ Len(events'[t]) = Len(events[t]) + 1 /\ Len(events[t]) \in Nat
        /\ \A u \in Topics : u # t => events'[u] = events[u]
        /\ cur'[p].topic = t /\ Appended(p)' /\ pc'[p] = "apply"
        /\ \A q \in Publishers : ~ Appended(q)
        /\ UNCHANGED hubVars
    BY <1>0, <1>4, AppendFacts
  <2>2. ~ Waits(s) /\ Due(s) = LengthOf(s)
    BY <2>1 DEF Waits, Pending, Due
  <2>3. Due(s)' = Due(s)
    <3>1. CASE subTopic[s] = t
      <4>1. Waits(s)'
        BY <1>0, <2>1, <3>1 DEF Waits, Pending
      <4>2. LengthOf(s)' = LengthOf(s) + 1
        BY <1>0, <2>1, <3>1 DEF LengthOf
      <4>. QED BY <1>0a, <2>2, <4>1, <4>2 DEF Due
    <3>2. CASE subTopic[s] # t
      <4>1. ~ Waits(s)'
        BY <1>0, <1>0a, <2>1, <3>2 DEF Waits, Pending
      <4>2. LengthOf(s)' = LengthOf(s)
        BY <1>0, <1>0a, <2>1, <3>2 DEF LengthOf
      <4>. QED BY <2>2, <4>1, <4>2 DEF Due
    <3>. QED BY <3>1, <3>2
  <2>4. Attached(s)' <=> Attached(s)
    BY <1>0, <2>1 DEF Attached, Aimed, hubVars
  <2>5. InChan(s)' = InChan(s) /\ lag' = lag
    BY <2>1 DEF hubVars, InChan
  <2>. QED BY <1>0a, <2>3, <2>4, <2>5 DEF Spared
<1>5. CASE StartFanout(p)
  <2>1. /\ pc[p] = "fanout" /\ pc'[p] = "sending"
        /\ UNCHANGED <<events, cur, chan, lag, target>>
        /\ cur[p].topic \in Topics
        /\ list' = [list EXCEPT ![p] = registry[cur[p].topic]]
    BY <1>0, <1>5 DEF StartFanout, Snapshot, storeVars, TypeInv, LockHeld, Event
  <2>2. ~ Aimed(s)
    BY <1>0, <1>0a, <2>1 DEF Aimed, InCritical
  <2>3. stage[s] \in {"read", "live"} /\ cur[p].topic = subTopic[s] => s \in list'[p]
    BY <1>0, <2>1 DEF BaseInv, HubInv, StageIsPhase, RegistryExact
  <2>4. Attached(s)' => Attached(s) /\ (Pending(p, s) => Pending(p, s)')
    BY <1>0, <2>1, <2>2, <2>3 DEF Attached, Aimed, Appended, InCritical, Pending, Owed
  <2>5. Pending(p, s)' => Pending(p, s)
    BY <1>0, <2>1 DEF Appended, InCritical, Pending
  <2>. QED BY <2>1, <2>4, <2>5, SparedByOwner
<1>6. CASE FinishPublish(p)
  <2>1. /\ pc[p] = "sending" /\ pc'[p] = "idle"
        /\ UNCHANGED <<events, chan, lag, target>>
        /\ list[p] = {} /\ target[p] = None
    BY <1>0, <1>6 DEF FinishPublish, PublishReturn, FanoutDone, Return, storeVars
  <2>2. ~ Pending(p, s) /\ ~ Pending(p, s)'
    BY <1>0, <2>1 DEF Appended, InCritical, Pending, Owed
  <2>. QED BY <1>1, <2>1, <2>2
<1>7. ASSUME NEW u \in Subs, VisitSub(p), SkipClosed(p, u) PROVE Spared(s)
  <2>1. /\ UNCHANGED <<events, cur, pc, chan, lag, target>>
        /\ list' = [list EXCEPT ![p] = list[p] \ {u}] /\ target[p] = None
        /\ Closed(u) /\ pc[p] = "sending"
    BY <1>7 DEF VisitSub, SkipClosed, publishVars, storeVars
  <2>2. stage[u] \notin {"read", "live"}
    BY <2>1 DEF Closed, BaseInv, HubInv, StageIsPhase
  <2>3. ~ Aimed(s)
    BY <1>0, <1>0a, <2>1 DEF Aimed, InCritical
  <2>4. Attached(s)' => Attached(s) /\ s # u
    BY <1>0, <2>1, <2>2, <2>3 DEF Attached, Aimed
  <2>5. s # u => (Pending(p, s) => Pending(p, s)')
    BY <1>0, <2>1 DEF Appended, InCritical, Pending, Owed
  <2>6. Pending(p, s)' => Pending(p, s)
    BY <1>0, <2>1 DEF Appended, InCritical, Pending, Owed
  <2>. QED BY <2>1, <2>4, <2>5, <2>6, SparedByOwner
<1>8. ASSUME NEW u \in Subs, VisitSub(p), LoadOpen(p, u) PROVE Spared(s)
  <2>1. /\ UNCHANGED <<events, cur, pc, chan, lag>>
        /\ u \in list[p] /\ target[p] = None /\ ~ Closed(u)
        /\ list' = [list EXCEPT ![p] = list[p] \ {u}]
        /\ target' = [target EXCEPT ![p] = u] /\ pc[p] = "sending"
    BY <1>8 DEF VisitSub, LoadOpen, publishVars, storeVars
  <2>2. phase[u] # "new"
    <3>1. Owed(p, u)
      BY <2>1 DEF Owed
    <3>2. subTopic[u] = cur[p].topic /\ cur[p] \in Event
      BY <1>0, <2>1, <3>1 DEF BaseInv, HubInv, VisitsTopic, TypeInv, LockHeld
    <3>3. subTopic[u] # None
      BY <3>2, NoneAssumption DEF Event
    <3>. QED BY <3>3 DEF BaseInv, HubInv, StageIsPhase
  <2>3. stage[u] \in {"read", "live"}
    <3>1. phase[u] = "open"
      BY <1>0, <2>1, <2>2 DEF Closed, TypeInv, BrokerTypeOK, HubTypeOK, Phases
    <3>. QED BY <3>1 DEF BaseInv, HubInv, StageIsPhase
  <2>4. Attached(s)' => Attached(s)
    BY <1>0, <2>1, <2>3 DEF Attached, Aimed
  <2>5. Pending(p, s)' <=> Pending(p, s)
    BY <1>0, <2>1 DEF Appended, InCritical, Pending, Owed
  <2>. QED BY <2>1, <2>4, <2>5, SparedByOwner
<1>9. CASE VisitSub(p) /\ SeeDone(p)
  <2>1. /\ UNCHANGED <<events, cur, pc, chan, lag, list>>
        /\ target' = [target EXCEPT ![p] = None] /\ pc[p] = "sending"
        /\ target[p] # None /\ phase[target[p]] = "done"
    BY <1>9 DEF VisitSub, SeeDone, publishVars, storeVars
  <2>2. stage[target[p]] \notin {"read", "live"}
    BY <1>0, <2>1 DEF BaseInv, HubInv, StageIsPhase
  <2>3. ~ Aimed(s)'
    BY <1>0, <1>0a, <2>1 DEF Aimed, InCritical
  <2>4. Attached(s)' => Attached(s) /\ s # target[p]
    BY <1>0, <2>2, <2>3 DEF Attached
  <2>5. s # target[p] => (Pending(p, s) => Pending(p, s)')
    BY <1>0, <2>1 DEF Appended, InCritical, Pending, Owed
  <2>6. Pending(p, s)' => Pending(p, s)
    BY <1>0, <2>1 DEF Appended, InCritical, Pending, Owed
  <2>. QED BY <2>1, <2>4, <2>5, <2>6, SparedByOwner
<1>10. ASSUME target[p] = s, pc[p] = "sending", UNCHANGED <<events, cur, pc, list>>,
              target' = [target EXCEPT ![p] = None]
       PROVE  Attached(s) /\ Due(s)' = Due(s) + 1 /\ Due(s) + 1 = LengthOf(s)
  <2>1. Pending(p, s) /\ s \notin list[p]
    BY <1>0, <1>10 DEF BaseInv, HubInv, VisitsTopic, Owed, Pending, Appended, InCritical
  <2>2. ~ Pending(p, s)'
    BY <1>0, <1>10, <2>1 DEF Pending, Appended, InCritical, Owed
  <2>3. ~ Waits(s)'
    BY <1>0a, <2>1, <2>2 DEF Waits, Pending
  <2>4. LengthOf(s)' = LengthOf(s)
    BY <1>0, <1>10 DEF LengthOf
  <2>5. Due(s)' = LengthOf(s) /\ Due(s) = LengthOf(s) - 1
    BY <1>0a, <2>1, <2>3, <2>4 DEF Due
  <2>6. Aimed(s)
    BY <1>10 DEF Aimed
  <2>. QED BY <1>0a, <2>5, <2>6 DEF Attached
<1>11. ASSUME target[p] # s, target[p] \in Subs, pc[p] = "sending", UNCHANGED <<events, cur, pc, list>>,
              target' = [target EXCEPT ![p] = None]
       PROVE  /\ Attached(s)' => Attached(s)
              /\ Pending(p, s)' <=> Pending(p, s)
  <2>1. Pending(p, s)' <=> Pending(p, s)
    BY <1>0, <1>11 DEF Pending, Appended, InCritical, Owed
  <2>2. Attached(s)' => Attached(s)
    BY <1>0, <1>11 DEF Attached, Aimed
  <2>. QED BY <2>1, <2>2
<1>12. CASE VisitSub(p) /\ Send(p)
  <2>1. /\ UNCHANGED <<events, cur, pc, list, lag>> /\ target[p] \in Subs
        /\ target' = [target EXCEPT ![p] = None] /\ pc[p] = "sending"
    BY <1>0, <1>12 DEF VisitSub, Send, publishVars, storeVars
  <2>2. /\ Pending(p, target[p])
        /\ Len(chan[target[p]]) \in Nat /\ Len(chan'[target[p]]) = Len(chan[target[p]]) + 1
        /\ \A i \in 1 .. Len(chan[target[p]]) : chan'[target[p]][i] = chan[target[p]][i]
        /\ chan'[target[p]][Len(chan[target[p]]) + 1] = Fanout(p)
        /\ target[p] # s => chan'[s] = chan[s]
    BY <1>12, SendFacts
  <2>3. CASE target[p] = s
    <3>1. Attached(s) /\ Due(s)' = Due(s) + 1 /\ Due(s) + 1 = LengthOf(s)
      BY <1>10, <2>1, <2>3
    <3>2. Fanout(p).event.seq = Due(s) + 1
      BY <2>2, <2>3, <3>1, DueNow DEF Fanout
    <3>3. InChan(s)' = InChan(s) \cup {Due(s) + 1}
      <4>. DEFINE n == Len(chan[s])
      <4>1. /\ n \in Nat /\ Len(chan'[s]) = n + 1
            /\ \A i \in 1 .. n : chan'[s][i] = chan[s][i]
            /\ chan'[s][n + 1].event.seq = Due(s) + 1
        BY <2>2, <2>3, <3>2
      <4>2. InChan(s) = {chan[s][i].event.seq : i \in 1 .. n}
        BY DEF InChan
      <4>3. InChan(s)' = {chan'[s][i].event.seq : i \in 1 .. n + 1}
        BY <4>1 DEF InChan
      <4>. HIDE DEF n
      <4>4. n + 1 \in 1 .. n + 1 /\ (\A i \in 1 .. n + 1 : i \in 1 .. n \/ i = n + 1)
            /\ \A i \in 1 .. n : i \in 1 .. n + 1
        BY <4>1
      <4>. QED BY <4>1, <4>2, <4>3, <4>4
    <3>. QED BY <2>1, <3>1, <3>3 DEF Receives
  <2>4. CASE target[p] # s
    <3>1. InChan(s)' = InChan(s)
      BY <2>2, <2>4 DEF InChan
    <3>2. /\ Attached(s)' => Attached(s)
          /\ Pending(p, s)' <=> Pending(p, s)
      BY <1>11, <2>1, <2>4
    <3>3. Due(s)' = Due(s)
      <4>1. Waits(s)' <=> Waits(s)
        BY <1>0a, <3>2 DEF Waits
      <4>2. LengthOf(s)' = LengthOf(s)
        BY <1>0, <2>1 DEF LengthOf
      <4>. QED BY <4>1, <4>2 DEF Due
    <3>. QED BY <1>0a, <2>1, <3>1, <3>2, <3>3 DEF Spared
  <2>. QED BY <2>3, <2>4
<1>13. CASE VisitSub(p) /\ Drop(p)
  <2>1. /\ UNCHANGED <<events, cur, pc, list, chan>> /\ target[p] \in Subs
        /\ target' = [target EXCEPT ![p] = None] /\ pc[p] = "sending"
        /\ lag' = [lag EXCEPT ![target[p]] = lag[target[p]] + 1]
    BY <1>0, <1>13 DEF VisitSub, Drop, publishVars, storeVars
  <2>2. InChan(s)' = InChan(s)
    BY <2>1 DEF InChan
  <2>3. CASE target[p] = s
    <3>1. Attached(s) /\ Due(s)' = Due(s) + 1
      BY <1>10, <2>1, <2>3
    <3>2. lag'[s] = lag[s] + 1
      BY <1>0, <2>1, <2>3
    <3>. QED BY <2>2, <3>1, <3>2 DEF Misses
  <2>4. CASE target[p] # s
    <3>1. lag'[s] = lag[s]
      BY <1>0, <2>1, <2>4
    <3>. QED BY <1>11, <2>1, <2>4, <3>1, SparedByOwner
  <2>. QED BY <2>3, <2>4
<1>. QED
  BY <1>2, <1>3, <1>4, <1>5, <1>6, <1>7, <1>8, <1>9, <1>12, <1>13
     DEF PublisherAct, PublishStep, VisitSub, Visit

--------------------------------------------------------------------------------
(* What a step puts into the queue of a client, seen by one subscription.     *)
Got(r) == IF owner[r] = None THEN {} ELSE EventSet(sent[owner[r]], r)

OutKept(r) ==
  /\ Got(r)' = Got(r) /\ GivenTo(r)' = GivenTo(r)
  /\ ToldTo(r)' = ToldTo(r) /\ (r \in lost' <=> r \in lost)

Accepted(s, m) ==
  /\ Got(s)' = Got(s) \cup (IF m.type = "event" THEN {m.n} ELSE {})
  /\ GivenTo(s)' = (IF m.type = "event" THEN Append(GivenTo(s), m.n) ELSE GivenTo(s))
  /\ ToldTo(s)' = ToldTo(s) + Missed(m, s)
  /\ lost' = lost

Refused(s) ==
  /\ Got(s)' = Got(s) /\ GivenTo(s)' = GivenTo(s)
  /\ ToldTo(s)' = ToldTo(s) /\ lost' = lost \cup {s}

NothingPosted ==
  /\ \A r \in Subs : OutKept(r)
  /\ lost' \ {None} = lost \ {None}

Posted(s, m) ==
  /\ Accepted(s, m) \/ Refused(s)
  /\ \A r \in Subs : r # s => OutKept(r)

LEMMA QueueKept ==
  ASSUME UNCHANGED <<sent, lost, owner>>
  PROVE  NothingPosted
BY DEF NothingPosted, OutKept, Got, GivenTo, ToldTo

LEMMA EnqueueEffect ==
  ASSUME WSTypeOK, NEW c \in Conns, NEW m \in Msgs, Enqueue(c, m), UNCHANGED owner,
         m.by = None \/ (m.by \in Subs /\ owner[m.by] = c)
  PROVE  IF m.by = None THEN NothingPosted ELSE Posted(m.by, m)
<1>0. /\ sent \in [Conns -> Seq(Msgs)] /\ owner \in [Subs -> Conns \cup {None}]
      /\ c # None /\ \A r \in Subs : r # None
  BY NoneAssumption, ConnsAssumption DEF WSTypeOK
<1>1. CASE Queued(c) < OutBuf
  <2>1. sent' = [sent EXCEPT ![c] = Append(sent[c], m)] /\ lost' = lost
    BY <1>1 DEF Enqueue
  <2>2. sent'[c] = Append(sent[c], m) /\ \A d \in Conns : d # c => sent'[d] = sent[d]
    BY <1>0, <2>1
  <2>3. ASSUME NEW r \in Subs, owner[r] = c
        PROVE  /\ Got(r)' = Got(r) \cup (IF m.type = "event" /\ m.by = r THEN {m.n} ELSE {})
               /\ GivenTo(r)' = Longer(GivenTo(r), m, r)
               /\ ToldTo(r)' = ToldTo(r) + Missed(m, r)
               /\ ToldTo(r) \in Nat
    <3>1. /\ EventSet(sent'[c], r) =
               EventSet(sent[c], r) \cup (IF m.type = "event" /\ m.by = r THEN {m.n} ELSE {})
          /\ EventsIn(sent'[c], r) = Longer(EventsIn(sent[c], r), m, r)
          /\ MissedIn(sent'[c], r) = MissedIn(sent[c], r) + Missed(m, r)
          /\ MissedIn(sent[c], r) \in Nat
      BY <1>0, <2>2, EventsAppend, EventSetAppend, MissedAppend
    <3>. QED BY <1>0, <2>3, <3>1 DEF Got, GivenTo, ToldTo
  <2>4. ASSUME NEW r \in Subs, m.by # r PROVE OutKept(r)
    <3>1. CASE owner[r] = c
      <4>1. Missed(m, r) = 0
        BY <2>4 DEF Missed
      <4>2. /\ Got(r)' = Got(r) \cup {} /\ GivenTo(r)' = GivenTo(r)
            /\ ToldTo(r)' = ToldTo(r) + 0 /\ ToldTo(r) \in Nat
        BY <2>3, <2>4, <3>1, <4>1 DEF Longer, Mine
      <4>. QED BY <2>1, <4>2 DEF OutKept
    <3>2. CASE owner[r] # c
      <4>1. owner[r] # None => sent'[owner[r]] = sent[owner[r]]
        BY <1>0, <2>2, <3>2
      <4>. QED BY <2>1, <4>1 DEF OutKept, Got, GivenTo, ToldTo
    <3>. QED BY <3>1, <3>2
  <2>5. m.by # None => Accepted(m.by, m)
    BY <2>1, <2>3 DEF Accepted, Longer, Mine
  <2>. QED BY <1>0, <2>1, <2>4, <2>5 DEF NothingPosted, Posted
<1>2. CASE ~ (Queued(c) < OutBuf)
  <2>1. UNCHANGED sent /\ lost' = lost \cup {m.by}
    BY <1>2 DEF Enqueue
  <2>2. \A r \in Subs : Got(r)' = Got(r) /\ GivenTo(r)' = GivenTo(r) /\ ToldTo(r)' = ToldTo(r)
    BY <2>1 DEF Got, GivenTo, ToldTo
  <2>. QED BY <1>0, <2>1, <2>2 DEF NothingPosted, Posted, OutKept, Refused
<1>. QED BY <1>1, <1>2

(* What a step of the session is for each subscription: it leaves it alone,   *)
(* or it is one of these.                                                     *)
FwdKept(r) ==
  /\ fwd'[r] = fwd[r] /\ held'[r] = held[r] /\ lastLag'[r] = lastLag[r]
  /\ cancelled'[r] = cancelled[r] /\ owner'[r] = owner[r]

PosKept(r) == owner[r] \in Conns /\ Working(r) => pos'[owner[r]] = pos[owner[r]]

LeftAlone(r) == FwdKept(r) /\ PosKept(r)

Starts(s) ==
  /\ \E t \in Topics, from \in From : SubscribeHub(s, t, from)
  /\ owner'[s] \in Conns /\ pos'[owner'[s]] = 0
  /\ fwd'[s] = fwd[s] /\ held'[s] = held[s] /\ lastLag'[s] = lastLag[s] /\ cancelled'[s] = cancelled[s]
  /\ NothingPosted

Hands(s) ==
  /\ UNCHANGED brokerVars /\ FwdKept(s)
  /\ owner[s] \in Conns /\ Working(s) /\ stage[s] = "live" /\ fwd[s] = "none"
  /\ pos[owner[s]] < Len(backfill[s]) /\ pos'[owner[s]] = pos[owner[s]] + 1
  /\ Posted(s, Msg("event", s, backfill[s][pos[owner[s]] + 1].seq))

Acks(s) ==
  /\ UNCHANGED brokerVars
  /\ owner[s] \in Conns /\ stage[s] = "live" /\ fwd[s] = "none" /\ fwd'[s] = "select"
  /\ pos[owner[s]] = Len(backfill[s])
  /\ held'[s] = held[s] /\ lastLag'[s] = lastLag[s] /\ cancelled'[s] = cancelled[s] /\ owner'[s] = owner[s]
  /\ Posted(s, Msg("ack", s, fence[s]))

Cancels(s) ==
  /\ Unsubscribe(s) /\ NothingPosted /\ PosKept(s)
  /\ fwd[s] # "none" /\ cancelled'[s] = TRUE
  /\ fwd'[s] = fwd[s] /\ held'[s] = held[s] /\ lastLag'[s] = lastLag[s] /\ owner'[s] = owner[s]

Takes(s) == ForwardTake(s) /\ NothingPosted
Tells(s) ==
  /\ ForwardLag(s)
  /\ IF lag[s] > lastLag[s] THEN Posted(s, Msg("lagging", s, lag[s] - lastLag[s])) ELSE NothingPosted
Gives(s) == ForwardEvent(s) /\ Posted(s, Msg("event", s, held[s].event.seq))
Exits(s) == ForwardExit(s) /\ NothingPosted

Turn(s) ==
  \/ Starts(s) \/ Hands(s) \/ Acks(s) \/ Cancels(s)
  \/ Takes(s) \/ Tells(s) \/ Gives(s) \/ Exits(s)

(* What the broker does by itself.                                            *)
BrokerPlain ==
  \/ \E p \in Publishers : PublisherAct(p)
  \/ \E r \in Subs : SubscribeStep(r)
  \/ UNCHANGED brokerVars

OwnTurn(s) == Turn(s) /\ \A r \in Subs : r # s => LeftAlone(r)

Elsewhere == NothingPosted /\ BrokerPlain /\ \A r \in Subs : LeftAlone(r)

LEMMA StartsTurn ==
  ASSUME BaseInv, WSTypeOK, PlacesInv, \A c \in Conns : FrameInv(c),
         NEW c \in Conns, NEW t \in Topics, NEW from \in From, NEW s \in Subs,
         BeginSubscribe(c, t, from, s)
  PROVE  OwnTurn(s)
<1>1. /\ SubscribeHub(s, t, from) /\ stage[s] = "none" /\ reader[c] = "read"
      /\ owner' = [owner EXCEPT ![s] = c] /\ pos' = [pos EXCEPT ![c] = 0]
      /\ UNCHANGED <<sent, lost, fwd, held, cancelled, lastLag>>
  BY DEF BeginSubscribe, SubscribeHub, Reading, outVars
<1>2. /\ sent \in [Conns -> Seq(Msgs)] /\ owner \in [Subs -> Conns \cup {None}]
      /\ pos \in [Conns -> Nat] /\ busy[c] = None /\ owner[s] = None
      /\ c # None /\ s # None
  BY <1>1, NoneAssumption, ConnsAssumption DEF WSTypeOK, PlacesInv, PlaceInv, BusyInv
<1>3. owner'[s] = c /\ pos'[c] = 0 /\ \A r \in Subs : r # s => owner'[r] = owner[r]
  BY <1>1, <1>2
<1>4. OutKept(s)
  <2>1. \A i \in 1 .. Len(sent[c]) : sent[c][i].by # s
    BY <1>1, <1>2 DEF FrameInv
  <2>2. EventSet(sent[c], s) = {} /\ EventsIn(sent[c], s) = <<>> /\ MissedIn(sent[c], s) = 0
    BY <1>2, <2>1, MissedNone, EventsNone
  <2>. QED BY <1>1, <1>2, <1>3, <2>2 DEF OutKept, Got, GivenTo, ToldTo
<1>5. NothingPosted
  BY <1>1, <1>3, <1>4 DEF NothingPosted, OutKept, Got, GivenTo, ToldTo
<1>6. ASSUME NEW r \in Subs, r # s PROVE LeftAlone(r)
  <2>1. PosKept(r)
    BY <1>1, <1>2, <1>6, NoneAssumption DEF PosKept, Working
  <2>. QED BY <1>1, <1>3, <1>6, <2>1 DEF LeftAlone, FwdKept
<1>7. Starts(s)
  BY <1>1, <1>3, <1>5 DEF Starts
<1>. QED BY <1>6, <1>7 DEF OwnTurn, Turn

LEMMA HandsTurn ==
  ASSUME BaseInv, WSTypeOK, PlacesInv, \A s \in Subs : BackfillIsStretch(s),
         NEW c \in Conns, SendBackfill(c)
  PROVE  \E s \in Subs : OwnTurn(s)
<1>. DEFINE s == busy[c]
            m == Msg("event", s, backfill[s][pos[c] + 1].seq)
<1>0. TypeInv /\ c # None /\ \A r \in Subs : r # None
  BY NoneAssumption, ConnsAssumption DEF BaseInv
<1>1. s \in Subs /\ owner[s] = c /\ fwd[s] = "none"
  BY DEF SendBackfill, PlacesInv, BusyInv, WSTypeOK
<1>2. /\ stage[s] = "live" /\ pos[c] < Len(backfill[s]) /\ pos' = [pos EXCEPT ![c] = pos[c] + 1]
      /\ Enqueue(c, m) /\ UNCHANGED <<brokerVars, owner, fwd, held, cancelled, lastLag>>
  BY DEF SendBackfill, fwdVars
<1>3. pos[c] \in Nat /\ Len(backfill[s]) \in Nat /\ pos \in [Conns -> Nat]
  BY <1>0, <1>1, LenProperties DEF WSTypeOK, TypeInv, BrokerTypeOK
<1>4. m \in Msgs /\ m.by = s
  <2>1. pos[c] + 1 \in 1 .. Len(backfill[s])
    BY <1>2, <1>3
  <2>2. backfill[s][pos[c] + 1].seq \in Nat
    BY <1>0, <1>1, <1>2, <2>1, BackfillEvent
  <2>. QED BY <1>1, <2>2, MsgType DEF FrameTypes
<1>. HIDE DEF m
<1>5. Posted(s, m)
  BY <1>0, <1>1, <1>2, <1>4, EnqueueEffect
<1>6. \A r \in Subs : r # s => LeftAlone(r)
  BY <1>1, <1>2, <1>3 DEF LeftAlone, FwdKept, PosKept, Working
<1>7. pos'[c] = pos[c] + 1
  BY <1>2, <1>3
<1>8. Hands(s)
  BY <1>1, <1>2, <1>5, <1>7 DEF Hands, FwdKept, Working, m
<1>. HIDE DEF s
<1>. QED BY <1>1, <1>6, <1>8 DEF OwnTurn, Turn

LEMMA AcksTurn ==
  ASSUME BaseInv, WSTypeOK, PlacesInv, NEW c \in Conns, FinishSubscribe(c)
  PROVE  \E s \in Subs : OwnTurn(s)
<1>. DEFINE s == busy[c]
            m == Msg("ack", s, fence[s])
<1>0. TypeInv /\ c # None /\ \A r \in Subs : r # None
  BY NoneAssumption, ConnsAssumption DEF BaseInv
<1>1. s \in Subs /\ owner[s] = c /\ fwd[s] = "none"
  BY DEF FinishSubscribe, PlacesInv, BusyInv, WSTypeOK
<1>2. /\ stage[s] = "live" /\ pos[c] = Len(backfill[s]) /\ fwd' = [fwd EXCEPT ![s] = "select"]
      /\ Enqueue(c, m) /\ UNCHANGED <<brokerVars, owner, pos, held, cancelled, lastLag>>
  BY DEF FinishSubscribe
<1>3. m \in Msgs /\ m.by = s
  BY <1>0, <1>1, MsgType DEF FrameTypes, TypeInv, BrokerTypeOK
<1>. HIDE DEF m
<1>4. Posted(s, m)
  BY <1>0, <1>1, <1>2, <1>3, EnqueueEffect
<1>5. fwd'[s] = "select" /\ \A r \in Subs : r # s => fwd'[r] = fwd[r]
  BY <1>1, <1>2 DEF WSTypeOK
<1>6. \A r \in Subs : r # s => LeftAlone(r)
  BY <1>2, <1>5 DEF LeftAlone, FwdKept, PosKept
<1>7. Acks(s)
  BY <1>1, <1>2, <1>4, <1>5 DEF Acks, m
<1>. HIDE DEF s
<1>. QED BY <1>1, <1>6, <1>7 DEF OwnTurn, Turn

LEMMA CancelsTurn ==
  ASSUME WSTypeOK, PlacesInv, cancelled \in [Subs -> BOOLEAN],
         NEW c \in Conns, NEW s \in Subs, CancelSub(c, s)
  PROVE  OwnTurn(s)
<1>1. /\ Unsubscribe(s) /\ s \in closing[c] /\ cancelled' = [cancelled EXCEPT ![s] = TRUE]
      /\ UNCHANGED <<pos, sent, lost, owner, fwd, held, lastLag>>
  BY DEF CancelSub, connVars, outVars
<1>2. fwd[s] # "none"
  BY <1>1 DEF PlacesInv, ClosingInv
<1>3. NothingPosted
  BY <1>1, QueueKept
<1>4. cancelled'[s] = TRUE /\ \A r \in Subs : r # s => cancelled'[r] = cancelled[r]
  BY <1>1
<1>5. Cancels(s)
  BY <1>1, <1>2, <1>3, <1>4 DEF Cancels, PosKept
<1>6. \A r \in Subs : r # s => LeftAlone(r)
  BY <1>1, <1>4 DEF LeftAlone, FwdKept, PosKept
<1>. QED BY <1>5, <1>6 DEF OwnTurn, Turn

LEMMA ForwardTurn ==
  ASSUME BaseInv, WSTypeOK, PlacesInv, NEW s \in Subs,
         ForwardTake(s) \/ ForwardLag(s) \/ ForwardEvent(s) \/ ForwardExit(s)
  PROVE  OwnTurn(s)
<1>0. /\ fwd \in [Subs -> {"none", "select", "check", "deliver", "exit"}]
      /\ held \in [Subs -> Frame \cup {None}] /\ lastLag \in [Subs -> Nat]
      /\ s # None /\ lag[s] \in Nat
  BY NoneAssumption DEF WSTypeOK, BaseInv, TypeInv, BrokerTypeOK, HubTypeOK
<1>1. UNCHANGED <<pos, owner, cancelled>>
  BY DEF ForwardTake, ForwardLag, ForwardEvent, ForwardExit, connVars
<1>2. \A r \in Subs : r # s => LeftAlone(r)
  BY <1>0, <1>1 DEF ForwardTake, ForwardLag, ForwardEvent, ForwardExit, LeftAlone, FwdKept, PosKept
<1>3. fwd[s] # "none" => owner[s] \in Conns
  BY DEF PlacesInv, PlaceInv, WSTypeOK
<1>4. CASE ForwardTake(s) \/ ForwardExit(s)
  <2>1. NothingPosted
    BY <1>4, QueueKept DEF ForwardTake, ForwardExit, outVars
  <2>. QED BY <1>2, <1>4, <2>1 DEF OwnTurn, Turn, Takes, Exits
<1>5. CASE ForwardLag(s)
  <2>1. CASE lag[s] > lastLag[s]
    <3>. DEFINE m == Msg("lagging", s, lag[s] - lastLag[s])
    <3>1. lag[s] - lastLag[s] \in Nat
      BY <1>0, <2>1
    <3>2. m \in Msgs /\ m.by = s
      BY <3>1, MsgType DEF FrameTypes
    <3>3. fwd[s] = "check" /\ Enqueue(owner[s], m)
      BY <1>5, <2>1 DEF ForwardLag
    <3>. HIDE DEF m
    <3>4. Posted(s, m)
      BY <1>0, <1>1, <1>3, <3>2, <3>3, EnqueueEffect
    <3>. QED BY <1>2, <1>5, <2>1, <3>4 DEF OwnTurn, Turn, Tells, m
  <2>2. CASE ~ (lag[s] > lastLag[s])
    <3>1. NothingPosted
      BY <1>1, <1>5, <2>2, QueueKept DEF ForwardLag
    <3>. QED BY <1>2, <1>5, <2>2, <3>1 DEF OwnTurn, Turn, Tells
  <2>. QED BY <2>1, <2>2
<1>6. CASE ForwardEvent(s)
  <2>. DEFINE m == Msg("event", s, held[s].event.seq)
  <2>1. fwd[s] = "deliver" /\ Enqueue(owner[s], m)
    BY <1>6 DEF ForwardEvent
  <2>2. held[s].event.seq \in Nat
    BY <2>1 DEF WSTypeOK, Holds, Frame, Event
  <2>3. m \in Msgs /\ m.by = s
    BY <2>2, MsgType DEF FrameTypes
  <2>. HIDE DEF m
  <2>4. Posted(s, m)
    BY <1>0, <1>1, <1>3, <2>1, <2>3, EnqueueEffect
  <2>. QED BY <1>2, <1>6, <2>4 DEF OwnTurn, Turn, Gives, m
<1>. QED BY <1>4, <1>5, <1>6

LEMMA SessionCases ==
  ASSUME BaseInv, WSTypeOK, PlacesInv, \A c \in Conns : FrameInv(c),
         \A s \in Subs : BackfillIsStretch(s), cancelled \in [Subs -> BOOLEAN], WSAct
  PROVE  Elsewhere \/ \E s \in Subs : OwnTurn(s)
<1>1. ASSUME UNCHANGED <<fwdVars, pos>> PROVE \A r \in Subs : LeftAlone(r)
  BY <1>1 DEF LeftAlone, FwdKept, PosKept, fwdVars
<1>2. ASSUME NEW c \in Conns, NEW type \in FrameTypes, NEW n \in Nat,
             Enqueue(c, Msg(type, None, n)), UNCHANGED fwdVars
      PROVE  NothingPosted
  <2>1. Msg(type, None, n) \in Msgs /\ Msg(type, None, n).by = None
    BY <1>2 DEF Msg, Msgs
  <2>. QED BY <1>2, <2>1, EnqueueEffect DEF fwdVars
<1>3. {"error", "pong", "state", "ack"} \subseteq FrameTypes /\ 0 \in Nat /\ TypeInv
  BY DEF FrameTypes, BaseInv
<1>4. ASSUME NEW c \in Conns, ConnMove(c) PROVE Elsewhere \/ \E s \in Subs : OwnTurn(s)
  <2>0. c \in Publishers
    BY ConnsAssumption
  <2>1. CASE Idle(c) \/ Finish(c) \/ ReadError(c) \/ \E t \in Topics : RecvUnsubscribe(c, t)
    <3>1. UNCHANGED <<brokerVars, sent, lost, fwdVars, pos>>
      BY <2>1
         DEF Idle, Write, WriterExit, WriteTimeout, Break, Finish, FinishUnsubscribe, HandlerReturn,
             ReadError, RecvUnsubscribe, outVars, connVars
    <3>. QED BY <1>1, <3>1, QueueKept DEF Elsewhere, BrokerPlain, fwdVars
  <2>2. CASE AtOnce(c) \/ SubscribeError(c)
    <3>1. UNCHANGED <<brokerVars, fwdVars, pos>>
      BY <2>2 DEF AtOnce, RefuseSubscribe, Answer, SubscribeError, connVars
    <3>2. \E type \in FrameTypes, n \in Nat : Enqueue(c, Msg(type, None, n))
      <4>1. \A t \in Topics : Len(GetState(t)) \in Nat
        BY <1>3, LenProperties DEF TypeInv, BrokerTypeOK, GetState
      <4>2. CASE \E t \in Topics : RefuseSubscribe(c, t)
        BY <1>3, <4>2 DEF RefuseSubscribe
      <4>3. CASE SubscribeError(c)
        BY <1>3, <4>3 DEF SubscribeError
      <4>4. ASSUME NEW op \in Ops, Answer(c, op)
            PROVE  \E type \in FrameTypes, n \in Nat : Enqueue(c, Msg(type, None, n))
        BY <1>3, <4>1, <4>4 DEF Answer
      <4>. QED BY <2>2, <4>2, <4>3, <4>4 DEF AtOnce
    <3>. QED BY <1>1, <1>2, <3>1, <3>2 DEF Elsewhere, BrokerPlain
  <2>3. CASE EndPublish(c)
    <3>1. UNCHANGED <<fwdVars, pos>> /\ PublisherAct(c)
      BY <2>0, <2>3 DEF EndPublish, PublisherAct, PublishStep
    <3>2. \E type \in FrameTypes, n \in Nat : Enqueue(c, Msg(type, None, n))
      <4>1. FinishPublish(c) => cur[c].seq \in Nat
        BY <1>3, <2>0 DEF FinishPublish, TypeInv, LockHeld, Event
      <4>. QED BY <1>3, <2>3, <4>1 DEF EndPublish
    <3>. QED BY <1>1, <1>2, <2>0, <3>1, <3>2 DEF Elsewhere, BrokerPlain
  <2>4. ASSUME NEW t \in Topics, NEW ok \in Outcomes(t), BeginPublish(c, t, ok) PROVE Elsewhere
    <3>1. UNCHANGED <<sent, lost, fwdVars, pos>> /\ PublisherAct(c)
      BY <1>3, <2>0, <2>4 DEF BeginPublish, PublisherAct, outVars
    <3>. QED BY <1>1, <2>0, <3>1, QueueKept DEF Elsewhere, BrokerPlain, fwdVars
  <2>5. CASE \E t \in Topics, from \in From, s \in Subs : BeginSubscribe(c, t, from, s)
    BY <2>5, StartsTurn
  <2>6. CASE \E s \in Subs : CancelSub(c, s)
    BY <2>6, CancelsTurn
  <2>. QED
    BY <1>4, <2>1, <2>2, <2>3, <2>4, <2>5, <2>6, HandsTurn, AcksTurn DEF ConnMove
<1>5. ASSUME NEW s \in Subs, SubscriptionStep(s) PROVE Elsewhere
  <2>1. UNCHANGED <<sent, lost, fwdVars, pos>>
    BY <1>5 DEF SubscriptionStep, wsVars, outVars, connVars
  <2>. QED BY <1>1, <1>5, <2>1, QueueKept DEF Elsewhere, BrokerPlain, SubscriptionStep, fwdVars
<1>6. ASSUME NEW p \in Publishers, PublisherMove(p) PROVE Elsewhere
  <2>1. UNCHANGED <<sent, lost, fwdVars, pos>> /\ PublisherAct(p)
    BY <1>3, <1>6 DEF PublisherMove, PublisherAct, wsVars, outVars, connVars
  <2>. QED BY <1>1, <2>1, QueueKept DEF Elsewhere, BrokerPlain, fwdVars
<1>7. CASE UNCHANGED vars
  <2>1. UNCHANGED <<brokerVars, sent, lost, fwdVars, pos>>
    BY <1>7 DEF vars, wsVars, outVars, connVars
  <2>. QED BY <1>1, <2>1, QueueKept DEF Elsewhere, BrokerPlain, fwdVars
<1>. QED BY <1>4, <1>5, <1>6, <1>7, ForwardTurn DEF WSAct, SubMove

--------------------------------------------------------------------------------
(* What the broker does to a subscription while others have their turn.       *)
SameRecord(s) ==
  backfill'[s] = backfill[s] /\ fence'[s] = fence[s] /\ seenTo'[s] = seenTo[s] /\ taken'[s] = taken[s]

Kept(s) ==
  /\ SameRecord(s) /\ subTopic'[s] = subTopic[s]
  /\ stage'[s] = stage[s] \/ (stage[s] = "read" /\ stage'[s] = "closed")

(* Nothing that is on its way to it changes.                                  *)
OnItsWay(s) ==
  /\ InChan(s)' = InChan(s) /\ lag'[s] = lag[s] /\ Due(s)' = Due(s)
  /\ Aimed(s)' <=> Aimed(s)

StaysNew(s) == stage[s] = "none" /\ stage'[s] = "none" /\ SameRecord(s) /\ lag'[s] = lag[s]

BrokerMove(s) ==
  IF stage[s] = "none" THEN StaysNew(s)
  ELSE \/ Kept(s) /\ (Spared(s) \/ Receives(s) \/ Misses(s))
       \/ ReadBackfill(s) /\ OnItsWay(s) /\ taken'[s] = taken[s]

LEMMA WayKept ==
  ASSUME UNCHANGED <<events, publishVars, list, target>>, NEW s \in Subs,
         subTopic'[s] = subTopic[s], chan'[s] = chan[s], lag'[s] = lag[s]
  PROVE  OnItsWay(s)
<1>1. \A p \in Publishers : Pending(p, s)' <=> Pending(p, s)
  BY DEF Pending, Appended, InCritical, Owed, publishVars
<1>2. Waits(s)' <=> Waits(s)
  BY <1>1 DEF Waits
<1>. QED BY <1>2 DEF OnItsWay, InChan, Due, LengthOf, Aimed

LEMMA WaySpared ==
  ASSUME BaseInv, NEW s \in Subs, stage[s] # "none", OnItsWay(s),
         stage'[s] = stage[s] \/ stage'[s] = "closed"
  PROVE  Spared(s)
BY DueNow DEF OnItsWay, Spared, Attached

LEMMA PublisherSpares ==
  ASSUME BaseInv, NEW p \in Publishers, PublisherAct(p), NEW s \in Subs
  PROVE  BrokerMove(s)
<1>1. SameRecord(s) /\ subTopic'[s] = subTopic[s] /\ stage'[s] = stage[s]
  BY PublisherFrame DEF SameRecord
<1>2. CASE stage[s] = "none"
  <2>1. TypeInv /\ s # None /\ lag \in [Subs -> Nat] /\ target \in [Publishers -> Subs \cup {None}]
    BY NoneAssumption DEF BaseInv, TypeInv, BrokerTypeOK, HubTypeOK
  <2>2. target[p] # s
    <3>1. SUFFICES ASSUME target[p] = s PROVE FALSE
      OBVIOUS
    <3>2. subTopic[s] = cur[p].topic /\ pc[p] = "sending"
      BY <3>1 DEF BaseInv, HubInv, VisitsTopic, Owed
    <3>3. cur[p] \in Event
      BY <2>1, <3>2 DEF TypeInv, LockHeld
    <3>4. subTopic[s] # None
      BY <3>2, <3>3, NoneAssumption DEF Event
    <3>. QED BY <1>2, <3>4 DEF BaseInv, HubInv, StageIsPhase
  <2>3. lag'[s] = lag[s]
    <3>1. CASE VisitSub(p) /\ Drop(p)
      BY <2>1, <2>2, <3>1 DEF Drop
    <3>2. CASE VisitSub(p) /\ ~ Drop(p)
      BY <3>2 DEF VisitSub, Visit, SkipClosed, LoadOpen, Send, SeeDone
    <3>3. CASE PublisherAct(p) /\ ~ VisitSub(p)
      BY <3>3
         DEF PublisherAct, PublishStep, PublishCall, Lock, AppendEvent, AppendFails, ApplyReducer,
             SaveState, UpsertMeta, StartFanout, Snapshot, FinishPublish, PublishReturn, hubVars
    <3>. QED BY <3>1, <3>2, <3>3
  <2>. QED BY <1>1, <1>2, <2>3 DEF BrokerMove, StaysNew
<1>3. CASE stage[s] # "none"
  BY <1>1, <1>3, PublisherEffect DEF BrokerMove, Kept
<1>. QED BY <1>2, <1>3

LEMMA SubscriberSpares ==
  ASSUME BaseInv, NEW r \in Subs, SubscriberAct(r), NEW s \in Subs, r # s \/ SubscribeStep(r)
  PROVE  BrokerMove(s)
<1>0. /\ TypeInv /\ subTopic \in [Subs -> Topics \cup {None}] /\ chan \in [Subs -> Seq(Frame)]
      /\ stage \in [Subs -> {"none", "read", "live", "closed"}]
      /\ backfill \in [Subs -> Seq(Event)] /\ fence \in [Subs -> Nat]
      /\ seenTo \in [Subs -> Nat] /\ taken \in [Subs -> Nat]
  BY DEF BaseInv, TypeInv, BrokerTypeOK, HubTypeOK
<1>1. UNCHANGED <<events, publishVars, lag, list, target>>
  BY SubscriberFrame DEF storeVars
<1>2. ASSUME SameRecord(s), subTopic'[s] = subTopic[s], chan'[s] = chan[s],
             stage'[s] = stage[s] \/ (stage[s] = "read" /\ stage'[s] = "closed")
      PROVE  BrokerMove(s)
  <2>1. OnItsWay(s)
    BY <1>1, <1>2, WayKept
  <2>2. stage[s] # "none" => Spared(s)
    BY <1>2, <2>1, WaySpared
  <2>. QED BY <1>1, <1>2, <2>2 DEF BrokerMove, Kept, StaysNew
<1>3. ASSUME NEW t \in Topics, NEW from \in From, SubscribeHub(r, t, from), r # s PROVE BrokerMove(s)
  <2>1. /\ SameRecord(s) /\ subTopic'[s] = subTopic[s] /\ chan'[s] = chan[s] /\ stage'[s] = stage[s]
    BY <1>0, <1>3 DEF SubscribeHub, HubSubscribe, historyVars, SameRecord
  <2>. QED BY <1>2, <2>1
<1>4. CASE ReadBackfill(r) /\ r # s
  <2>1. /\ SameRecord(s) /\ subTopic'[s] = subTopic[s] /\ chan'[s] = chan[s] /\ stage'[s] = stage[s]
    BY <1>0, <1>4 DEF ReadBackfill, hubVars, SameRecord
  <2>. QED BY <1>2, <2>1
<1>5. CASE ReadBackfill(r) /\ r = s
  <2>1. stage[s] = "read" /\ UNCHANGED <<subTopic, chan, taken>>
    BY <1>5 DEF ReadBackfill, hubVars
  <2>2. OnItsWay(s)
    BY <1>1, <2>1, WayKept
  <2>. QED BY <1>5, <2>1, <2>2 DEF BrokerMove
<1>6. CASE ReadFails(r)
  <2>1. /\ SameRecord(s) /\ subTopic'[s] = subTopic[s] /\ chan'[s] = chan[s]
        /\ stage'[s] = stage[s] \/ (stage[s] = "read" /\ stage'[s] = "closed")
    BY <1>0, <1>6 DEF ReadFails, CloseSwap, historyVars, SameRecord
  <2>. QED BY <1>2, <2>1
<1>7. CASE FinishClose(r)
  <2>1. /\ SameRecord(s) /\ subTopic'[s] = subTopic[s] /\ chan'[s] = chan[s] /\ stage'[s] = stage[s]
    BY <1>7 DEF FinishClose, CloseRemove, CloseDone, subscribeVars, historyVars, SameRecord
  <2>. QED BY <1>2, <2>1
<1>8. CASE Unsubscribe(r) /\ r # s
  <2>1. /\ SameRecord(s) /\ subTopic'[s] = subTopic[s] /\ chan'[s] = chan[s] /\ stage'[s] = stage[s]
    BY <1>0, <1>8 DEF Unsubscribe, CloseSwap, historyVars, SameRecord
  <2>. QED BY <1>2, <2>1
<1>9. CASE Consume(r) /\ r # s
  <2>1. /\ SameRecord(s) /\ subTopic'[s] = subTopic[s] /\ chan'[s] = chan[s] /\ stage'[s] = stage[s]
    BY <1>0, <1>9 DEF Consume, Take, Receive, subscribeVars, SameRecord
  <2>. QED BY <1>2, <2>1
<1>10. CASE ~ SubscribeStep(r)
  BY <1>3, <1>8, <1>9, <1>10 DEF SubscriberAct
<1>. QED BY <1>4, <1>5, <1>6, <1>7, <1>10 DEF SubscribeStep

LEMMA BrokerRests ==
  ASSUME BaseInv, UNCHANGED brokerVars, NEW s \in Subs
  PROVE  Kept(s) /\ stage'[s] = stage[s] /\ OnItsWay(s) /\ BrokerMove(s)
<1>1. /\ SameRecord(s) /\ UNCHANGED <<subTopic, chan, lag, stage, events, publishVars, list, target>>
  BY DEF brokerVars, hubVars, storeVars, subscribeVars, historyVars, SameRecord
<1>2. OnItsWay(s)
  BY <1>1, WayKept
<1>3. stage[s] # "none" => Spared(s)
  BY <1>1, <1>2, WaySpared
<1>. QED BY <1>1, <1>2, <1>3 DEF BrokerMove, Kept, StaysNew

(* A turn of another subscription, or of none.                                *)
Aside(s) == OutKept(s) /\ LeftAlone(s) /\ BrokerMove(s)

LEMMA AsideStep ==
  ASSUME BaseInv, PlacesInv, NEW s \in Subs, Elsewhere \/ \E r \in Subs : r # s /\ OwnTurn(r)
  PROVE  Aside(s)
<1>1. CASE Elsewhere
  <2>1. OutKept(s) /\ LeftAlone(s) /\ BrokerPlain
    BY <1>1 DEF Elsewhere, NothingPosted
  <2>2. CASE \E p \in Publishers : PublisherAct(p)
    BY <2>1, <2>2, PublisherSpares DEF Aside
  <2>3. ASSUME NEW r \in Subs, SubscribeStep(r) PROVE Aside(s)
    BY <2>1, <2>3, SubscriberSpares DEF Aside, SubscriberAct
  <2>4. CASE UNCHANGED brokerVars
    BY <2>1, <2>4, BrokerRests DEF Aside
  <2>. QED BY <2>1, <2>2, <2>3, <2>4 DEF BrokerPlain
<1>2. ASSUME NEW r \in Subs, r # s, OwnTurn(r) PROVE Aside(s)
  <2>1. LeftAlone(s) /\ Turn(r)
    BY <1>2 DEF OwnTurn
  <2>2. OutKept(s)
    BY <1>2, <2>1 DEF Turn, Starts, Hands, Acks, Cancels, Takes, Tells, Gives, Exits, NothingPosted, Posted
  <2>3. SubscriberAct(r) \/ UNCHANGED brokerVars
    <3>1. CASE Starts(r) \/ Cancels(r)
      BY <3>1, FromsAssumption DEF Starts, Cancels, SubscriberAct
    <3>2. CASE Takes(r)
      BY <3>2 DEF Takes, ForwardTake, PlacesInv, PlaceInv, SubscriberAct, Consume
    <3>3. CASE Hands(r) \/ Acks(r) \/ Tells(r) \/ Gives(r) \/ Exits(r)
      BY <3>3 DEF Hands, Acks, Tells, Gives, Exits, ForwardLag, ForwardEvent, ForwardExit
    <3>. QED BY <2>1, <3>1, <3>2, <3>3 DEF Turn
  <2>. QED BY <1>2, <2>1, <2>2, <2>3, SubscriberSpares, BrokerRests DEF Aside
<1>. QED BY <1>1, <1>2

--------------------------------------------------------------------------------
(* What the backfill says: it is the stretch of the stream from the base of   *)
(* the subscription to the stream's end when it was read.                     *)
StretchInv(s) ==
  /\ BaseOf(s) \in Nat /\ BaseOf(s) + Len(backfill[s]) = seenTo[s]
  /\ \A j \in 1 .. Len(backfill[s]) : backfill[s][j].seq = BaseOf(s) + j
  /\ fence[s] = IF backfill[s] = <<>> THEN 0 ELSE seenTo[s]

LEMMA StretchStep ==
  ASSUME BaseInv, BrokerAct, NEW s \in Subs, StretchInv(s)
  PROVE  StretchInv(s)'
<1>. DEFINE Same == backfill'[s] = backfill[s] /\ fence'[s] = fence[s] /\ seenTo'[s] = seenTo[s]
<1>0. TypeInv
  BY DEF BaseInv
<1>1. ASSUME NEW p \in Publishers, PublisherAct(p) PROVE Same
  BY <1>1, PublisherFrame
<1>2. ASSUME NEW r \in Subs, SubscriberAct(r), ~ (r = s /\ ReadBackfill(s)) PROVE Same
  <2>1. CASE ReadBackfill(r)
    BY <1>0, <1>2, <2>1 DEF ReadBackfill, TypeInv, BrokerTypeOK
  <2>2. CASE ~ ReadBackfill(r)
    BY <1>2, <2>2
       DEF SubscriberAct, SubscribeStep, SubscribeHub, ReadFails, Unsubscribe, FinishClose, Consume,
           Take, subscribeVars, historyVars
  <2>. QED BY <2>1, <2>2
<1>3. ASSUME UNCHANGED brokerVars PROVE Same
  BY <1>3, BrokerRests DEF Kept, SameRecord
<1>4. CASE ReadBackfill(s)
  <2>. DEFINE t == subTopic[s]
              b == Backfill(t, want[s])
              log == events[t]
  <2>1. t \in Topics /\ want[s] \in From
    BY <1>0, <1>4 DEF ReadBackfill, TypeInv, LockHeld
  <2>2. backfill'[s] = b /\ fence'[s] = FenceOf(b) /\ seenTo'[s] = Len(log)
    BY <1>0, <1>4 DEF ReadBackfill, TypeInv, BrokerTypeOK
  <2>3. Len(log) \in Nat /\ \A k \in 1 .. Len(log) : log[k].seq = k
    BY <1>0, <2>1, LenProperties DEF TypeInv, BrokerTypeOK, SeqIsPosition
  <2>4. CASE b = <<>>
    <3>1. Len(b) = 0
      BY <2>4
    <3>2. BaseOf(s)' = Len(log) /\ FenceOf(b) = 0
      BY <2>2, <2>4 DEF BaseOf, FenceOf
    <3>. HIDE DEF b, log
    <3>. QED BY <2>2, <2>3, <2>4, <3>1, <3>2 DEF StretchInv
  <2>5. CASE b # <<>>
    <3>1. /\ Len(b) \in 1 .. Len(log)
          /\ \A j \in 1 .. Len(b) : b[j] = log[Len(log) - Len(b) + j]
      BY <1>0, <2>1, <2>5, BackfillStretch
    <3>2. BaseOf(s)' = b[1].seq - 1 /\ FenceOf(b) = b[Len(b)].seq
      BY <2>2, <2>5 DEF BaseOf, FenceOf
    <3>. HIDE DEF b, log
    <3>3. \A j \in 1 .. Len(b) : Len(log) - Len(b) + j \in 1 .. Len(log)
      BY <2>3, <3>1
    <3>4. \A j \in 1 .. Len(b) : b[j].seq = Len(log) - Len(b) + j
      BY <2>3, <3>1, <3>3
    <3>5. 1 \in 1 .. Len(b) /\ Len(b) \in 1 .. Len(b) /\ Len(log) - Len(b) \in Nat
      BY <2>3, <3>1
    <3>6. b[1].seq = Len(log) - Len(b) + 1 /\ b[Len(b)].seq = Len(log) - Len(b) + Len(b)
      BY <3>4, <3>5
    <3>7. BaseOf(s)' = Len(log) - Len(b) /\ FenceOf(b) = Len(log)
      BY <2>3, <3>1, <3>2, <3>6
    <3>. QED BY <2>2, <2>3, <2>5, <3>1, <3>4, <3>5, <3>7 DEF StretchInv
  <2>. QED BY <2>4, <2>5
<1>. QED BY <1>1, <1>2, <1>3, <1>4 DEF BrokerAct, StretchInv, BaseOf

--------------------------------------------------------------------------------
(* Drops are counted at least as often as an event is missed, and the client  *)
(* is told of what the forwarder has noticed.                                 *)
LagInv(s) ==
  /\ stage[s] = "none" => lag[s] = 0
  /\ stage[s] # "none" => lag[s] <= Due(s)
  /\ lastLag[s] <= lag[s]
  /\ fwd[s] = "none" => lastLag[s] = 0
  /\ s \notin lost => ToldTo(s) = lastLag[s]

(* What each turn does to these counters and to the place of s.               *)
LEMMA TurnTold ==
  ASSUME BaseInv, WSTypeOK, NEW s \in Subs, Turn(s), LagInv(s), ToldTo(s) \in Nat
  PROVE  \/ lastLag'[s] = lastLag[s] /\ (s \notin lost' => s \notin lost /\ ToldTo(s)' = ToldTo(s))
         \/ /\ fwd[s] = "check" /\ fwd'[s] = "deliver" /\ lastLag[s] < lag[s] /\ lastLag'[s] = lag[s]
            /\ s \notin lost' => s \notin lost /\ ToldTo(s)' = lag[s]
<1>0. /\ lag[s] \in Nat /\ lastLag[s] \in Nat /\ lastLag \in [Subs -> Nat]
      /\ fwd \in [Subs -> {"none", "select", "check", "deliver", "exit"}]
  BY DEF WSTypeOK, BaseInv, TypeInv, BrokerTypeOK, HubTypeOK
<1>. DEFINE Plain == lastLag'[s] = lastLag[s] /\ (s \notin lost' => s \notin lost /\ ToldTo(s)' = ToldTo(s))
<1>1. ASSUME NEW type \in {"event", "ack"}, NEW n, Posted(s, Msg(type, s, n)), lastLag'[s] = lastLag[s]
      PROVE  Plain
  <2>1. Missed(Msg(type, s, n), s) = 0
    BY DEF Missed, Msg
  <2>. QED BY <1>1, <2>1 DEF Posted, Accepted, Refused
<1>2. CASE Hands(s) \/ Acks(s)
  BY <1>1, <1>2 DEF Hands, Acks, FwdKept
<1>3. CASE Gives(s)
  BY <1>1, <1>3 DEF Gives, ForwardEvent
<1>4. CASE Starts(s) \/ Cancels(s) \/ Takes(s) \/ Exits(s)
  BY <1>4 DEF Starts, Cancels, Takes, Exits, ForwardTake, ForwardExit, NothingPosted, OutKept
<1>5. CASE Tells(s) /\ lag[s] > lastLag[s]
  <2>1. /\ fwd[s] = "check" /\ fwd'[s] = "deliver" /\ lastLag'[s] = lag[s]
        /\ Posted(s, Msg("lagging", s, lag[s] - lastLag[s]))
    BY <1>0, <1>5 DEF Tells, ForwardLag
  <2>2. Missed(Msg("lagging", s, lag[s] - lastLag[s]), s) = lag[s] - lastLag[s]
    BY DEF Missed, Msg
  <2>3. s \notin lost' => s \notin lost /\ ToldTo(s)' = ToldTo(s) + (lag[s] - lastLag[s])
    BY <2>1, <2>2 DEF Posted, Accepted, Refused
  <2>4. s \notin lost => ToldTo(s) = lastLag[s]
    BY DEF LagInv
  <2>. QED BY <1>0, <1>5, <2>1, <2>3, <2>4
<1>6. CASE Tells(s) /\ ~ (lag[s] > lastLag[s])
  BY <1>6 DEF Tells, ForwardLag, NothingPosted, OutKept
<1>. QED BY <1>2, <1>3, <1>4, <1>5, <1>6 DEF Turn

(* What a turn of s is for the broker.                                        *)
LEMMA StartBroker ==
  ASSUME BaseInv, NEW s \in Subs, Starts(s)
  PROVE  SameRecord(s) /\ lag'[s] = lag[s] /\ stage[s] = "none" /\ stage'[s] = "read"
BY DEF Starts, SubscribeHub, HubSubscribe, historyVars, SameRecord, BaseInv, TypeInv, BrokerTypeOK

LEMMA CancelBroker ==
  ASSUME BaseInv, NEW s \in Subs, Cancels(s)
  PROVE  /\ SameRecord(s) /\ subTopic'[s] = subTopic[s] /\ OnItsWay(s)
         /\ stage[s] = "live" /\ stage'[s] = "closed"
<1>1. /\ UNCHANGED <<events, publishVars, list, target, subTopic, chan, lag>>
      /\ SameRecord(s) /\ stage[s] = "live" /\ stage'[s] = "closed"
  BY DEF Cancels, Unsubscribe, CloseSwap, storeVars, historyVars, SameRecord, BaseInv, TypeInv, BrokerTypeOK
<1>. QED BY <1>1, WayKept

LEMMA RestBroker ==
  ASSUME BaseInv, NEW s \in Subs, Hands(s) \/ Acks(s) \/ Tells(s) \/ Gives(s) \/ Exits(s)
  PROVE  SameRecord(s) /\ subTopic'[s] = subTopic[s] /\ stage'[s] = stage[s] /\ OnItsWay(s)
<1>1. UNCHANGED brokerVars
  BY DEF Hands, Acks, Tells, Gives, Exits, ForwardLag, ForwardEvent, ForwardExit
<1>. QED BY <1>1, BrokerRests DEF Kept

LEMMA TakeBroker ==
  ASSUME BaseInv, NEW s \in Subs, InOrder(s), Takes(s)
  PROVE  /\ backfill'[s] = backfill[s] /\ fence'[s] = fence[s] /\ seenTo'[s] = seenTo[s]
         /\ subTopic'[s] = subTopic[s] /\ stage'[s] = stage[s]
         /\ lag'[s] = lag[s] /\ Due(s)' = Due(s) /\ (Aimed(s)' <=> Aimed(s))
         /\ taken'[s] = Head(chan[s]).event.seq /\ taken[s] \in Nat /\ taken'[s] \in Nat
         /\ taken[s] < taken'[s] /\ InChan(s) = InChan(s)' \cup {taken'[s]}
<1>1. /\ UNCHANGED <<events, publishVars, list, target, subTopic, lag, backfill, fence, seenTo, stage>>
      /\ chan'[s] = Tail(chan[s]) /\ chan[s] \in Seq(Frame) /\ chan[s] # <<>>
      /\ taken'[s] = Head(chan[s]).event.seq
  BY DEF Takes, ForwardTake, Take, Receive, storeVars, subscribeVars, BaseInv, TypeInv, BrokerTypeOK, HubTypeOK
<1>2. \A p \in Publishers : Pending(p, s)' <=> Pending(p, s)
  BY <1>1 DEF Pending, Appended, InCritical, Owed, publishVars
<1>3. Due(s)' = Due(s) /\ (Aimed(s)' <=> Aimed(s))
  <2>1. Waits(s)' <=> Waits(s)
    BY <1>2 DEF Waits
  <2>. QED BY <1>1, <2>1 DEF Due, LengthOf, Aimed
<1>. DEFINE n == Len(chan[s])
<1>4. /\ n \in Nat \ {0} /\ Len(chan'[s]) = n - 1
      /\ \A i \in 1 .. n - 1 : chan'[s][i] = chan[s][i + 1]
      /\ Head(chan[s]) = chan[s][1]
  <2>1. /\ n \in Nat \ {0}
        /\ Len(Tail(chan[s])) = n - 1
        /\ \A i \in 1 .. Len(Tail(chan[s])) : Tail(chan[s])[i] = chan[s][i + 1]
        /\ Head(chan[s]) = chan[s][1]
    BY <1>1, HeadTailProperties, EmptySeq, LenProperties
  <2>. QED BY <1>1, <2>1
<1>5. /\ taken[s] \in Nat /\ \A i \in 1 .. n : chan[s][i].event.seq \in Nat /\ taken[s] < chan[s][i].event.seq
  BY ChannelType DEF BaseInv, InOrder
<1>6. InChan(s) = InChan(s)' \cup {taken'[s]}
  <2>1. InChan(s) = {chan[s][i].event.seq : i \in 1 .. n}
    BY DEF InChan
  <2>2. InChan(s)' = {chan'[s][i].event.seq : i \in 1 .. n - 1}
    BY <1>4 DEF InChan
  <2>. HIDE DEF n
  <2>3. \A i \in 1 .. n : i = 1 \/ (i - 1 \in 1 .. n - 1 /\ i - 1 + 1 = i)
    BY <1>4
  <2>4. 1 \in 1 .. n /\ \A i \in 1 .. n - 1 : i + 1 \in 1 .. n
    BY <1>4
  <2>5. \A x \in InChan(s) : x \in InChan(s)' \cup {taken'[s]}
    <3>1. SUFFICES ASSUME NEW i \in 1 .. n PROVE chan[s][i].event.seq \in InChan(s)' \cup {taken'[s]}
      BY <2>1
    <3>. QED BY <1>1, <1>4, <2>2, <2>3
  <2>6. \A x \in InChan(s)' : x \in InChan(s)
    BY <1>4, <2>1, <2>2, <2>4
  <2>7. taken'[s] \in InChan(s)
    BY <1>1, <1>4, <2>1, <2>4
  <2>. QED BY <2>5, <2>6, <2>7
<1>7. 1 \in 1 .. n
  BY <1>4
<1>. HIDE DEF n
<1>. QED BY <1>1, <1>3, <1>4, <1>5, <1>6, <1>7

DueTyped == \A s \in Subs : stage[s] # "none" => Due(s) \in Nat

LEMMA DueType == BaseInv => DueTyped
BY DueNow DEF DueTyped

LEMMA DueThen == BaseInv' => DueTyped'
BY DueType, PTL

LEMMA LagStep ==
  ASSUME BaseInv, BaseInv', WSTypeOK, PlacesInv, NEW s \in Subs, InOrder(s), LagInv(s),
         ToldTo(s) \in Nat, Turn(s) \/ Aside(s)
  PROVE  LagInv(s)'
<1>0. /\ lag[s] \in Nat /\ lastLag[s] \in Nat
      /\ fwd \in [Subs -> {"none", "select", "check", "deliver", "exit"}]
      /\ stage[s] # "none" => Due(s) \in Nat
      /\ stage'[s] # "none" => Due(s)' \in Nat
      /\ fwd[s] # "none" => stage[s] # "none"
  <2>1. stage'[s] # "none" => Due(s)' \in Nat
    BY DueThen DEF DueTyped
  <2>2. stage[s] # "none" => Due(s) \in Nat
    BY DueNow
  <2>3. PlaceInv(s) /\ lag \in [Subs -> Nat]
    BY DEF PlacesInv, BaseInv, TypeInv, BrokerTypeOK, HubTypeOK
  <2>. QED BY <2>1, <2>2, <2>3 DEF WSTypeOK, PlaceInv
<1>1. CASE Aside(s)
  <2>1. OutKept(s) /\ lastLag'[s] = lastLag[s] /\ fwd'[s] = fwd[s]
    BY <1>1 DEF Aside, LeftAlone, FwdKept
  <2>2. CASE stage[s] = "none"
    BY <1>0, <1>1, <2>1, <2>2 DEF Aside, BrokerMove, StaysNew, LagInv, OutKept
  <2>3. CASE stage[s] # "none"
    <3>1. /\ stage'[s] # "none"
          /\ \/ lag'[s] = lag[s] /\ Due(s) <= Due(s)'
             \/ lag'[s] = lag[s] + 1 /\ Due(s)' = Due(s) + 1
      <4>1. CASE Kept(s) /\ (Spared(s) \/ Receives(s) \/ Misses(s))
        BY <1>0, <2>3, <4>1 DEF Kept, Spared, Receives, Misses
      <4>2. CASE ReadBackfill(s) /\ OnItsWay(s)
        BY <1>0, <2>3, <4>2 DEF ReadBackfill, OnItsWay, BaseInv, TypeInv, BrokerTypeOK
      <4>. QED BY <1>1, <2>3, <4>1, <4>2 DEF Aside, BrokerMove
    <3>. QED BY <1>0, <2>1, <2>3, <3>1 DEF LagInv, OutKept
  <2>. QED BY <2>2, <2>3
<1>2. CASE Turn(s)
  <2>1. \/ lastLag'[s] = lastLag[s] /\ (s \notin lost' => s \notin lost /\ ToldTo(s)' = ToldTo(s))
        \/ /\ fwd[s] = "check" /\ fwd'[s] = "deliver" /\ lastLag[s] < lag[s] /\ lastLag'[s] = lag[s]
           /\ s \notin lost' => s \notin lost /\ ToldTo(s)' = lag[s]
    BY <1>2, TurnTold
  <2>2. CASE Starts(s)
    <3>1. lag'[s] = lag[s] /\ stage[s] = "none" /\ stage'[s] = "read" /\ fwd'[s] = fwd[s]
      BY <2>2, StartBroker DEF Starts
    <3>. QED BY <1>0, <2>1, <3>1 DEF LagInv
  <2>3. CASE ~ Starts(s)
    <3>1. lag'[s] = lag[s] /\ Due(s)' = Due(s) /\ stage[s] # "none" /\ stage'[s] # "none"
      <4>1. CASE Hands(s) \/ Acks(s)
        BY <4>1, RestBroker DEF Hands, Acks, OnItsWay
      <4>2. CASE Tells(s) \/ Gives(s) \/ Exits(s)
        BY <1>0, <4>2, RestBroker DEF Tells, Gives, Exits, ForwardLag, ForwardEvent, ForwardExit, OnItsWay
      <4>3. CASE Cancels(s)
        BY <4>3, CancelBroker DEF OnItsWay
      <4>4. CASE Takes(s)
        BY <1>0, <4>4, TakeBroker DEF Takes, ForwardTake
      <4>. QED BY <1>2, <2>3, <4>1, <4>2, <4>3, <4>4 DEF Turn
    <3>2. fwd'[s] = "none" => fwd[s] = "none"
      BY <1>0, <1>2
         DEF Turn, Starts, Hands, FwdKept, Acks, Cancels, Takes, Tells, Gives, Exits, ForwardTake,
             ForwardLag, ForwardEvent, ForwardExit
    <3>. QED BY <1>0, <2>1, <3>1, <3>2 DEF LagInv
  <2>. QED BY <2>2, <2>3
<1>. QED BY <1>1, <1>2

--------------------------------------------------------------------------------
(* When a stream is open: from the read of the backfill on.  Nothing is sent  *)
(* before, and only an open subscription is forwarded or cancelled.           *)
CancelType == cancelled \in [Subs -> BOOLEAN]

LEMMA CancelTypeStep ==
  ASSUME CancelType, WSAct
  PROVE  CancelType'
<1>1. ASSUME NEW c \in Conns, NEW s \in Subs, CancelSub(c, s) PROVE CancelType'
  BY <1>1 DEF CancelSub, CancelType
<1>2. ASSUME UNCHANGED cancelled PROVE CancelType'
  BY <1>2 DEF CancelType
<1>3. ASSUME NEW c \in Conns, ConnMove(c), ~ \E s \in Subs : CancelSub(c, s) PROVE UNCHANGED cancelled
  <2>1. CASE Idle(c) \/ AtOnce(c) \/ Finish(c)
    BY <2>1
       DEF Idle, Write, WriterExit, WriteTimeout, Break, AtOnce, RefuseSubscribe, Answer, Finish,
           FinishUnsubscribe, HandlerReturn, fwdVars
  <2>2. CASE \E t \in Topics, from \in From, s \in Subs : BeginSubscribe(c, t, from, s)
    BY <2>2 DEF BeginSubscribe
  <2>3. CASE SubscribeError(c) \/ SendBackfill(c) \/ FinishSubscribe(c) \/ ReadError(c) \/ EndPublish(c)
    BY <2>3 DEF SubscribeError, SendBackfill, FinishSubscribe, ReadError, EndPublish, fwdVars
  <2>4. CASE \E t \in Topics : RecvUnsubscribe(c, t) \/ \E ok \in Outcomes(t) : BeginPublish(c, t, ok)
    BY <2>4 DEF RecvUnsubscribe, BeginPublish, fwdVars
  <2>. QED BY <1>3, <2>1, <2>2, <2>3, <2>4 DEF ConnMove
<1>4. ASSUME NEW s \in Subs, SubMove(s) PROVE UNCHANGED cancelled
  BY <1>4
     DEF SubMove, ForwardTake, ForwardLag, ForwardEvent, ForwardExit, SubscriptionStep, wsVars, fwdVars
<1>5. ASSUME UNCHANGED wsVars PROVE UNCHANGED cancelled
  BY <1>5 DEF wsVars, fwdVars
<1>. QED BY <1>1, <1>2, <1>3, <1>4, <1>5 DEF WSAct, PublisherMove, vars

OpenInv(s) ==
  /\ cancelled[s] => stage[s] = "closed" /\ fwd[s] # "none"
  /\ fwd[s] # "none" => Opened(s)
  /\ stage[s] = "read" => pos[owner[s]] = 0
  /\ ~ Opened(s) => Got(s) = {} /\ ToldTo(s) = 0

LEMMA OpenStep ==
  ASSUME BaseInv, WSTypeOK, PlacesInv, NEW s \in Subs, InOrder(s), OpenInv(s), Turn(s) \/ Aside(s)
  PROVE  OpenInv(s)'
<1>0. /\ fwd \in [Subs -> {"none", "select", "check", "deliver", "exit"}]
      /\ stage \in [Subs -> {"none", "read", "live", "closed"}]
      /\ PlaceInv(s)
  BY DEF WSTypeOK, BaseInv, TypeInv, BrokerTypeOK, PlacesInv
<1>. USE DEF Opened
<1>1. CASE Aside(s)
  <2>1. /\ Got(s)' = Got(s) /\ ToldTo(s)' = ToldTo(s)
        /\ fwd'[s] = fwd[s] /\ cancelled'[s] = cancelled[s] /\ owner'[s] = owner[s]
        /\ Working(s) => pos'[owner[s]] = pos[owner[s]]
    BY <1>1 DEF Aside, OutKept, LeftAlone, FwdKept, PosKept, Working
  <2>2. stage'[s] = stage[s] \/ (stage[s] = "read" /\ stage'[s] \in {"live", "closed"})
    <3>1. CASE StaysNew(s) \/ Kept(s)
      BY <3>1 DEF StaysNew, Kept
    <3>2. CASE ReadBackfill(s)
      BY <1>0, <3>2 DEF ReadBackfill
    <3>. QED BY <1>1, <3>1, <3>2 DEF Aside, BrokerMove
  <2>3. stage[s] = "read" => Working(s)
    BY <1>0 DEF PlaceInv
  <2>. QED BY <1>0, <2>1, <2>2, <2>3 DEF OpenInv, PlaceInv
<1>2. CASE Starts(s)
  <2>1. /\ stage[s] = "none" /\ stage'[s] = "read" /\ fwd'[s] = fwd[s] /\ fwd[s] = "none"
        /\ cancelled'[s] = cancelled[s] /\ pos'[owner'[s]] = 0
        /\ Got(s)' = Got(s) /\ ToldTo(s)' = ToldTo(s)
    BY <1>0, <1>2, StartBroker DEF Starts, PlaceInv, NothingPosted, OutKept
  <2>. QED BY <2>1 DEF OpenInv
<1>3. CASE Hands(s) \/ Acks(s)
  <2>1. stage[s] = "live" /\ cancelled'[s] = cancelled[s] /\ stage'[s] = "live"
    BY <1>3, RestBroker DEF Hands, FwdKept, Acks
  <2>. QED BY <1>0, <2>1 DEF OpenInv
<1>4. CASE Cancels(s)
  <2>1. stage'[s] = "closed" /\ cancelled'[s] = TRUE /\ fwd[s] # "none" /\ fwd'[s] = fwd[s]
    BY <1>4, CancelBroker DEF Cancels
  <2>. QED BY <2>1 DEF OpenInv
<1>5. CASE Takes(s) \/ Tells(s) \/ Gives(s) \/ Exits(s)
  <2>1. fwd[s] # "none" /\ fwd'[s] # "none" /\ cancelled'[s] = cancelled[s]
    BY <1>0, <1>5
       DEF Takes, Tells, Gives, Exits, ForwardTake, ForwardLag, ForwardEvent, ForwardExit
  <2>2. stage'[s] = stage[s]
    BY <1>5, TakeBroker, RestBroker
  <2>. QED BY <1>0, <2>1, <2>2 DEF OpenInv, PlaceInv
<1>. QED BY <1>1, <1>2, <1>3, <1>4, <1>5 DEF Turn

(* Until its forwarder starts, handleSubscribe is working on an open one.     *)
LEMMA OpenIsWorking ==
  ASSUME BaseInv, WSTypeOK, PlacesInv, NEW s \in Subs, OpenInv(s), Opened(s), fwd[s] = "none"
  PROVE  stage[s] = "live" /\ owner[s] \in Conns /\ Working(s)
<1>1. stage[s] = "live"
  BY DEF OpenInv, Opened
<1>2. /\ owner[s] \in Conns /\ subTopic[s] \in Topics /\ s # None
      /\ PlaceInv(s)
  BY <1>1, NoneAssumption DEF PlacesInv, PlaceInv, WSTypeOK, BaseInv, TypeInv, LockHeld
<1>3. EntryInv(owner[s]) /\ ClosingInv(owner[s])
  BY <1>2 DEF PlacesInv
<1>. QED BY <1>1, <1>2, <1>3 DEF PlaceInv, EntryInv, ClosingInv

--------------------------------------------------------------------------------
(* What has been given.  The first Handed events of the backfill are through. *)
Handed(s) == IF fwd[s] = "none" THEN pos[owner[s]] ELSE Len(backfill[s])

GivenInv(s) == Opened(s) =>
  /\ Handed(s) \in 0 .. Len(backfill[s])
  /\ fwd[s] = "none" => Got(s) \subseteq BaseOf(s) + 1 .. BaseOf(s) + Handed(s)
  /\ fwd[s] # "none" => \A m \in Got(s) : m \in Nat /\ (m <= fence[s] \/ m <= taken[s])
  /\ Holds(s) => held[s].event.seq = taken[s] /\ \A m \in Got(s) : m < taken[s]
  /\ s \notin lost => BaseOf(s) + 1 .. BaseOf(s) + Handed(s) \subseteq Got(s)

(* What a turn of s gives to its client.                                      *)
LEMMA GivesNone ==
  ASSUME NEW s \in Subs, Starts(s) \/ Acks(s) \/ Cancels(s) \/ Takes(s) \/ Tells(s) \/ Exits(s)
  PROVE  Got(s)' = Got(s) /\ (s \notin lost' => s \notin lost)
<1>1. ASSUME NEW type \in {"ack", "lagging"}, NEW n, Posted(s, Msg(type, s, n))
      PROVE  Got(s)' = Got(s) /\ (s \notin lost' => s \notin lost)
  BY <1>1 DEF Posted, Accepted, Refused, Msg
<1>2. ASSUME NothingPosted
      PROVE  Got(s)' = Got(s) /\ (s \notin lost' => s \notin lost)
  BY <1>2 DEF NothingPosted, OutKept
<1>. QED BY <1>1, <1>2 DEF Starts, Acks, Cancels, Takes, Tells, Exits

LEMMA GivesOne ==
  ASSUME NEW s \in Subs, NEW n, Posted(s, Msg("event", s, n))
  PROVE  \/ Got(s)' = Got(s) /\ s \in lost'
         \/ Got(s)' = Got(s) \cup {n} /\ lost' = lost
BY DEF Posted, Accepted, Refused, Msg

(* The next event of the backfill.                                            *)
LEMMA HandsNext ==
  ASSUME BaseInv, WSTypeOK, NEW s \in Subs, StretchInv(s), Hands(s)
  PROVE  /\ pos[owner[s]] \in Nat /\ Len(backfill[s]) \in Nat /\ BaseOf(s) \in Nat
         /\ fwd[s] = "none" /\ fwd'[s] = "none"
         /\ Handed(s) = pos[owner[s]] /\ Handed(s) < Len(backfill[s]) /\ Handed(s)' = Handed(s) + 1
         /\ Posted(s, Msg("event", s, BaseOf(s) + Handed(s) + 1))
<1>1. /\ pos[owner[s]] \in Nat /\ Len(backfill[s]) \in Nat /\ BaseOf(s) \in Nat
  BY LenProperties DEF Hands, WSTypeOK, BaseInv, TypeInv, BrokerTypeOK, StretchInv
<1>2. /\ fwd[s] = "none" /\ fwd'[s] = "none" /\ owner'[s] = owner[s]
      /\ pos[owner[s]] < Len(backfill[s]) /\ pos'[owner[s]] = pos[owner[s]] + 1
      /\ Posted(s, Msg("event", s, backfill[s][pos[owner[s]] + 1].seq))
  BY DEF Hands, FwdKept
<1>3. Handed(s) = pos[owner[s]] /\ Handed(s)' = pos[owner[s]] + 1
  BY <1>2 DEF Handed
<1>4. pos[owner[s]] + 1 \in 1 .. Len(backfill[s])
  BY <1>1, <1>2
<1>5. backfill[s][pos[owner[s]] + 1].seq = BaseOf(s) + (pos[owner[s]] + 1)
  BY <1>4 DEF StretchInv
<1>6. BaseOf(s) + (pos[owner[s]] + 1) = BaseOf(s) + pos[owner[s]] + 1
  BY <1>1
<1>. QED BY <1>1, <1>2, <1>3, <1>5, <1>6

LEMMA RecordStays ==
  ASSUME NEW s \in Subs, backfill'[s] = backfill[s], seenTo'[s] = seenTo[s]
  PROVE  BaseOf(s)' = BaseOf(s)
BY DEF BaseOf

LEMMA GivenStep ==
  ASSUME BaseInv, WSTypeOK, PlacesInv, NEW s \in Subs, InOrder(s), StretchInv(s), StretchInv(s)',
         OpenInv(s), OpenInv(s)', GivenInv(s), Turn(s) \/ Aside(s)
  PROVE  GivenInv(s)'
<1>0. /\ fwd \in [Subs -> {"none", "select", "check", "deliver", "exit"}]
      /\ stage \in [Subs -> {"none", "read", "live", "closed"}]
      /\ held \in [Subs -> Frame \cup {None}]
      /\ Len(backfill[s]) \in Nat /\ fence[s] \in Nat /\ taken[s] \in Nat /\ seenTo[s] \in Nat
      /\ BaseOf(s) \in Nat
      /\ PlaceInv(s)
  BY LenProperties DEF WSTypeOK, BaseInv, TypeInv, BrokerTypeOK, PlacesInv, StretchInv
<1>1. ASSUME SameRecord(s), Opened(s)' => Opened(s), Handed(s)' = Handed(s) \/ ~ Opened(s),
             fwd'[s] = "none" <=> fwd[s] = "none", Holds(s)' => Holds(s) /\ held'[s] = held[s],
             Got(s)' = Got(s), s \notin lost' => s \notin lost
      PROVE  GivenInv(s)'
  <2>1. BaseOf(s)' = BaseOf(s)
    BY <1>1, RecordStays DEF SameRecord
  <2>. QED BY <1>1, <2>1 DEF GivenInv, SameRecord
<1>2. CASE Aside(s)
  <2>1. /\ Got(s)' = Got(s) /\ (s \notin lost' => s \notin lost)
        /\ fwd'[s] = fwd[s] /\ held'[s] = held[s] /\ cancelled'[s] = cancelled[s] /\ owner'[s] = owner[s]
        /\ owner[s] \in Conns /\ Working(s) => pos'[owner[s]] = pos[owner[s]]
    BY <1>2 DEF Aside, OutKept, LeftAlone, FwdKept, PosKept
  <2>2. CASE SameRecord(s) /\ (stage'[s] = "live" => stage[s] = "live")
    <3>1. Opened(s)' => Opened(s)
      BY <2>1, <2>2 DEF Opened
    <3>2. ASSUME Opened(s) PROVE Handed(s)' = Handed(s)
      <4>1. CASE fwd[s] = "none"
        BY <2>1, <3>2, <4>1, OpenIsWorking DEF Handed
      <4>2. CASE fwd[s] # "none"
        BY <2>1, <2>2, <4>2 DEF Handed, SameRecord
      <4>. QED BY <4>1, <4>2
    <3>. QED BY <1>1, <2>1, <2>2, <3>1, <3>2 DEF Holds
  <2>3. CASE ReadBackfill(s)
    <3>1. stage[s] = "read" /\ fwd[s] = "none" /\ Working(s) /\ owner[s] \in Conns /\ ~ Opened(s)
      BY <1>0, <2>3 DEF ReadBackfill, PlaceInv, OpenInv, Opened, Working
    <3>2. Handed(s)' = 0 /\ Got(s)' = {} /\ fwd'[s] = "none"
      BY <2>1, <3>1 DEF Handed, OpenInv
    <3>3. BaseOf(s)' \in Nat /\ Len(backfill'[s]) \in Nat
      <4>1. backfill'[s] \in Seq(Event)
        BY <2>3, BackfillType DEF ReadBackfill, BaseInv, TypeInv, BrokerTypeOK, LockHeld
      <4>. QED BY <4>1, LenProperties DEF StretchInv
    <3>. HIDE DEF Handed
    <3>. QED BY <3>2, <3>3 DEF GivenInv, Holds
  <2>. QED BY <1>0, <1>2, <2>2, <2>3 DEF Aside, BrokerMove, StaysNew, Kept
<1>3. CASE Starts(s)
  BY <1>3, StartBroker DEF OpenInv, GivenInv, Opened, Starts
<1>4. CASE Hands(s)
  <2>. DEFINE k == Handed(s)
              b == BaseOf(s)
              n == b + k + 1
  <2>1. /\ k \in Nat /\ k < Len(backfill[s]) /\ Handed(s)' = k + 1
        /\ fwd[s] = "none" /\ fwd'[s] = "none" /\ Posted(s, Msg("event", s, n))
    BY <1>4, HandsNext
  <2>2. SameRecord(s) /\ stage[s] = "live"
    BY <1>4, RestBroker DEF Hands
  <2>3. BaseOf(s)' = b /\ Len(backfill'[s]) = Len(backfill[s])
    BY <2>2, RecordStays DEF SameRecord
  <2>4. /\ Got(s) \subseteq b + 1 .. b + k
        /\ s \notin lost => b + 1 .. b + k \subseteq Got(s)
    BY <2>1, <2>2 DEF GivenInv, Opened
  <2>. HIDE DEF k, b
  <2>5. b + 1 .. b + (k + 1) = (b + 1 .. b + k) \cup {n}
    BY <1>0, <2>1 DEF b
  <2>6. /\ Got(s)' \subseteq (b + 1 .. b + k) \cup {n}
        /\ s \notin lost' => (b + 1 .. b + k) \cup {n} \subseteq Got(s)'
    BY <2>1, <2>4, GivesOne
  <2>7. k + 1 \in 0 .. Len(backfill[s])
    BY <1>0, <2>1
  <2>. QED BY <2>1, <2>3, <2>5, <2>6, <2>7 DEF GivenInv, Holds
<1>5. CASE Acks(s)
  <2>1. /\ fwd[s] = "none" /\ fwd'[s] = "select" /\ stage[s] = "live"
        /\ SameRecord(s) /\ Handed(s) = Len(backfill[s]) /\ Handed(s)' = Len(backfill[s])
        /\ Got(s)' = Got(s) /\ (s \notin lost' => s \notin lost)
    BY <1>5, RestBroker, GivesNone DEF Acks, Handed, SameRecord
  <2>2. /\ Got(s) \subseteq BaseOf(s) + 1 .. BaseOf(s) + Len(backfill[s])
        /\ s \notin lost => BaseOf(s) + 1 .. BaseOf(s) + Len(backfill[s]) \subseteq Got(s)
    BY <2>1 DEF GivenInv, Opened
  <2>3. \A m \in Got(s) : m \in Nat /\ m <= fence[s]
    <3>1. SUFFICES ASSUME NEW m \in Got(s) PROVE m \in Nat /\ m <= fence[s]
      OBVIOUS
    <3>2. m \in BaseOf(s) + 1 .. BaseOf(s) + Len(backfill[s])
      BY <2>2
    <3>3. m \in Nat /\ m <= seenTo[s] /\ Len(backfill[s]) # 0
      BY <1>0, <3>2 DEF StretchInv
    <3>4. backfill[s] # <<>>
      BY <3>3
    <3>. QED BY <3>3, <3>4 DEF StretchInv
  <2>4. BaseOf(s)' = BaseOf(s)
    BY <2>1, RecordStays DEF SameRecord
  <2>5. Len(backfill[s]) \in 0 .. Len(backfill[s])
    BY <1>0
  <2>. QED BY <2>1, <2>2, <2>3, <2>4, <2>5 DEF GivenInv, Holds, SameRecord
<1>6. CASE Cancels(s)
  <2>1. /\ SameRecord(s) /\ stage[s] = "live" /\ fwd'[s] = fwd[s] /\ fwd[s] # "none" /\ held'[s] = held[s]
        /\ Got(s)' = Got(s) /\ (s \notin lost' => s \notin lost)
    BY <1>6, CancelBroker, GivesNone DEF Cancels
  <2>2. Handed(s)' = Handed(s)
    BY <2>1 DEF Handed, SameRecord
  <2>. QED BY <1>1, <2>1, <2>2 DEF Opened, Holds
<1>7. CASE Tells(s) \/ Exits(s)
  <2>1. /\ SameRecord(s) /\ stage'[s] = stage[s]
        /\ Got(s)' = Got(s) /\ (s \notin lost' => s \notin lost)
    BY <1>7, RestBroker, GivesNone
  <2>2. /\ fwd[s] # "none" /\ fwd'[s] # "none" /\ held'[s] = held[s]
        /\ Holds(s)' => Holds(s) /\ cancelled'[s] = cancelled[s]
        /\ cancelled'[s] = cancelled[s]
    BY <1>0, <1>7 DEF Tells, Exits, ForwardLag, ForwardExit, Holds
  <2>3. Handed(s)' = Handed(s)
    BY <2>1, <2>2 DEF Handed, SameRecord
  <2>. QED BY <1>1, <2>1, <2>2, <2>3 DEF Opened
<1>8. CASE Gives(s)
  <2>1. SameRecord(s) /\ stage'[s] = stage[s]
    BY <1>8, RestBroker
  <2>2. /\ fwd[s] = "deliver" /\ fwd'[s] = "select" /\ cancelled'[s] = cancelled[s]
        /\ Posted(s, Msg("event", s, held[s].event.seq))
    BY <1>0, <1>8 DEF Gives, ForwardEvent
  <2>3. BaseOf(s)' = BaseOf(s) /\ Handed(s)' = Handed(s) /\ Handed(s) = Len(backfill[s])
    BY <2>1, <2>2, RecordStays DEF SameRecord, Handed
  <2>4. Opened(s)
    BY <2>2 DEF OpenInv
  <2>5. /\ held[s].event.seq = taken[s]
        /\ \A m \in Got(s) : m \in Nat /\ (m <= fence[s] \/ m <= taken[s])
        /\ s \notin lost => BaseOf(s) + 1 .. BaseOf(s) + Handed(s) \subseteq Got(s)
        /\ Handed(s) \in 0 .. Len(backfill[s])
    BY <2>2, <2>4 DEF GivenInv, Holds
  <2>6. \/ Got(s)' = Got(s) /\ s \in lost'
        \/ Got(s)' = Got(s) \cup {taken[s]} /\ lost' = lost
    BY <2>2, <2>5, GivesOne
  <2>7. \A m \in Got(s)' : m \in Nat /\ (m <= fence[s] \/ m <= taken[s])
    BY <1>0, <2>5, <2>6
  <2>8. s \notin lost' => BaseOf(s) + 1 .. BaseOf(s) + Handed(s) \subseteq Got(s)'
    BY <2>5, <2>6
  <2>. QED BY <2>1, <2>2, <2>3, <2>5, <2>7, <2>8 DEF GivenInv, Holds, SameRecord
<1>9. CASE Takes(s)
  <2>1. /\ backfill'[s] = backfill[s] /\ fence'[s] = fence[s] /\ seenTo'[s] = seenTo[s]
        /\ taken'[s] = Head(chan[s]).event.seq /\ taken'[s] \in Nat /\ taken[s] < taken'[s]
    BY <1>9, TakeBroker
  <2>2. /\ Got(s)' = Got(s) /\ (s \notin lost' => s \notin lost)
    BY <1>9, GivesNone
  <2>3. /\ fwd[s] = "select" /\ cancelled'[s] = cancelled[s]
        /\ \/ fwd'[s] = "select"
           \/ /\ fwd'[s] = "check" /\ held'[s] = Head(chan[s])
              /\ ~ (Head(chan[s]).event.seq <= fence[s])
    BY <1>0, <1>9 DEF Takes, ForwardTake
  <2>4. BaseOf(s)' = BaseOf(s) /\ Handed(s)' = Handed(s)
    BY <2>1, <2>3, RecordStays DEF Handed
  <2>5. Opened(s)
    BY <2>3 DEF OpenInv
  <2>6. /\ \A m \in Got(s) : m \in Nat /\ (m <= fence[s] \/ m <= taken[s])
        /\ s \notin lost => BaseOf(s) + 1 .. BaseOf(s) + Handed(s) \subseteq Got(s)
        /\ Handed(s) \in 0 .. Len(backfill[s])
    BY <2>3, <2>5 DEF GivenInv
  <2>7. \A m \in Got(s) : m \in Nat /\ (m <= fence[s] \/ m <= taken'[s])
    BY <1>0, <2>1, <2>6
  <2>8. fwd'[s] = "check" => held'[s].event.seq = taken'[s] /\ \A m \in Got(s) : m < taken'[s]
    BY <1>0, <2>1, <2>3, <2>6
  <2>. QED BY <2>1, <2>2, <2>3, <2>4, <2>6, <2>7, <2>8 DEF GivenInv, Holds
<1>. QED BY <1>2, <1>3, <1>4, <1>5, <1>6, <1>7, <1>8, <1>9 DEF Turn

--------------------------------------------------------------------------------
(* What is missed.  Lacks counts the events up to n that are neither with the *)
(* client nor on their way to it; every one of them was a drop, and before an *)
(* event is delivered the client has been told of the drops before it.        *)
Lacks(a, n, X) == Cardinality(Gaps(a, n, X))

Reach(s) == Got(s) \cup InHand(s) \cup InChan(s)

CountInv(s) == Opened(s) /\ s \notin lost =>
  /\ Attached(s) => Lacks(seenTo[s], Due(s), Reach(s)) <= lag[s]
  /\ \A n \in InHand(s) \cup InChan(s) : Lacks(seenTo[s], n, Reach(s)) <= lag[s]
  /\ fwd[s] = "deliver" => Lacks(seenTo[s], held[s].event.seq, Reach(s)) <= lastLag[s]

LEMMA LacksFewer ==
  ASSUME NEW a \in Nat, NEW n \in Nat, NEW X, NEW Y, \A x \in X : x \in Y \/ x <= a
  PROVE  Lacks(a, n, X) \in Nat /\ Lacks(a, n, Y) \in Nat /\ Lacks(a, n, Y) <= Lacks(a, n, X)
<1>1. ASSUME NEW x, x \in Gaps(a, n, Y) PROVE x \in Gaps(a, n, X)
  <2>1. x \in a + 1 .. n /\ x \notin Y
    BY <1>1 DEF Gaps
  <2>2. ~ (x <= a)
    BY <2>1
  <2>. QED BY <2>1, <2>2 DEF Gaps
<1>2. Gaps(a, n, Y) \subseteq Gaps(a, n, X)
  BY <1>1
<1>. QED BY <1>2, GapsFinite, GapsFewer DEF Lacks

LEMMA LacksNext ==
  ASSUME NEW a \in Nat, NEW n \in Nat, NEW X
  PROVE  /\ Lacks(a, n + 1, X \cup {n + 1}) <= Lacks(a, n, X)
         /\ Lacks(a, n + 1, X) <= Lacks(a, n, X) + 1
<1>1. n + 1 \in Nat
  OBVIOUS
<1>2. Gaps(a, n + 1, X \cup {n + 1}) \subseteq Gaps(a, n, X)
  BY DEF Gaps
<1>3. Lacks(a, n + 1, X \cup {n + 1}) <= Lacks(a, n, X)
  BY <1>1, <1>2, GapsFewer DEF Lacks
<1>. QED BY <1>3, GapsOneMore DEF Lacks

LEMMA LacksNone ==
  ASSUME NEW a \in Nat, NEW n \in Nat, n <= a, NEW X
  PROVE  Lacks(a, n, X) = 0
<1>1. Gaps(a, n, X) = {}
  BY DEF Gaps
<1>. QED BY <1>1, GapsNone DEF Lacks

LEMMA WayType ==
  ASSUME BaseInv, WSTypeOK, NEW s \in Subs
  PROVE  /\ seenTo[s] \in Nat /\ lag[s] \in Nat /\ lastLag[s] \in Nat
         /\ InHand(s) \subseteq Nat /\ InChan(s) \subseteq Nat
         /\ stage[s] # "none" => Due(s) \in Nat
<1>1. Holds(s) => held[s].event.seq \in Nat
  BY DEF WSTypeOK, Frame, Event
<1>2. \A i \in 1 .. Len(chan[s]) : chan[s][i].event.seq \in Nat
  BY ChannelType DEF BaseInv
<1>3. stage[s] # "none" => Due(s) \in Nat
  BY DueNow
<1>. QED
  BY <1>1, <1>2, <1>3 DEF InHand, InChan, WSTypeOK, BaseInv, TypeInv, BrokerTypeOK, HubTypeOK

(* Most turns bring no event closer than it was.                              *)
LEMMA CountKept ==
  ASSUME BaseInv, WSTypeOK, NEW s \in Subs, stage[s] # "none", CountInv(s), LagInv(s), Opened(s),
         s \notin lost' => s \notin lost, seenTo'[s] = seenTo[s], lag'[s] = lag[s],
         \A x \in Reach(s) : x \in Reach(s)' \/ x <= seenTo[s],
         Attached(s)' => Attached(s) /\ Due(s)' = Due(s),
         InHand(s)' \cup InChan(s)' \subseteq InHand(s) \cup InChan(s),
         fwd'[s] = "deliver" =>
           /\ held'[s] = held[s]
           /\ (fwd[s] = "deliver" /\ lastLag'[s] = lastLag[s]) \/ (Holds(s) /\ lastLag'[s] = lag[s])
  PROVE  CountInv(s)'
<1>1. SUFFICES ASSUME s \notin lost'
               PROVE  /\ Attached(s)' => Lacks(seenTo'[s], Due(s)', Reach(s)') <= lag'[s]
                      /\ \A n \in InHand(s)' \cup InChan(s)' : Lacks(seenTo'[s], n, Reach(s)') <= lag'[s]
                      /\ fwd'[s] = "deliver" =>
                           Lacks(seenTo'[s], held'[s].event.seq, Reach(s)') <= lastLag'[s]
  BY DEF CountInv
<1>2. /\ Attached(s) => Lacks(seenTo[s], Due(s), Reach(s)) <= lag[s]
      /\ \A n \in InHand(s) \cup InChan(s) : Lacks(seenTo[s], n, Reach(s)) <= lag[s]
      /\ fwd[s] = "deliver" => Lacks(seenTo[s], held[s].event.seq, Reach(s)) <= lastLag[s]
  BY <1>1 DEF CountInv
<1>3. /\ seenTo[s] \in Nat /\ lag[s] \in Nat /\ lastLag[s] \in Nat /\ Due(s) \in Nat
      /\ InHand(s) \subseteq Nat /\ InChan(s) \subseteq Nat
  BY WayType
<1>4. \A n \in Nat : /\ Lacks(seenTo[s], n, Reach(s)) \in Nat /\ Lacks(seenTo[s], n, Reach(s)') \in Nat
                     /\ Lacks(seenTo[s], n, Reach(s)') <= Lacks(seenTo[s], n, Reach(s))
  BY <1>3, LacksFewer
<1>5. Attached(s)' => Lacks(seenTo'[s], Due(s)', Reach(s)') <= lag'[s]
  BY <1>2, <1>3, <1>4
<1>6. ASSUME NEW n \in InHand(s)' \cup InChan(s)' PROVE Lacks(seenTo'[s], n, Reach(s)') <= lag'[s]
  <2>1. n \in InHand(s) \cup InChan(s) /\ n \in Nat
    BY <1>3, <1>6
  <2>. QED BY <1>2, <1>3, <1>4, <2>1
<1>7. ASSUME fwd'[s] = "deliver" PROVE Lacks(seenTo'[s], held'[s].event.seq, Reach(s)') <= lastLag'[s]
  <2>. DEFINE n == held[s].event.seq
  <2>1. Holds(s) /\ held'[s] = held[s]
    BY <1>7 DEF Holds
  <2>2. n \in InHand(s) /\ n \in Nat
    BY <1>3, <2>1 DEF InHand
  <2>3. Lacks(seenTo[s], n, Reach(s)) <= lastLag'[s] /\ lastLag'[s] \in Nat
    BY <1>2, <1>3, <1>7, <2>2
  <2>4. Lacks(seenTo[s], n, Reach(s)') <= lastLag'[s]
    BY <1>4, <2>2, <2>3
  <2>. QED BY <2>1, <2>4
<1>. QED BY <1>5, <1>6, <1>7

(* A Publish offers the next event.                                           *)
LEMMA CountOffer ==
  ASSUME BaseInv, WSTypeOK, NEW s \in Subs, stage[s] # "none", CountInv(s), Opened(s),
         Receives(s) \/ Misses(s), SameRecord(s), OutKept(s), LeftAlone(s)
  PROVE  CountInv(s)'
<1>1. SUFFICES ASSUME s \notin lost'
               PROVE  /\ Attached(s)' => Lacks(seenTo'[s], Due(s)', Reach(s)') <= lag'[s]
                      /\ \A n \in InHand(s)' \cup InChan(s)' : Lacks(seenTo'[s], n, Reach(s)') <= lag'[s]
                      /\ fwd'[s] = "deliver" =>
                           Lacks(seenTo'[s], held'[s].event.seq, Reach(s)') <= lastLag'[s]
  BY DEF CountInv
<1>2. /\ Attached(s) => Lacks(seenTo[s], Due(s), Reach(s)) <= lag[s]
      /\ \A n \in InHand(s) \cup InChan(s) : Lacks(seenTo[s], n, Reach(s)) <= lag[s]
      /\ fwd[s] = "deliver" => Lacks(seenTo[s], held[s].event.seq, Reach(s)) <= lastLag[s]
  BY <1>1 DEF CountInv, OutKept
<1>3. /\ seenTo[s] \in Nat /\ lag[s] \in Nat /\ lastLag[s] \in Nat /\ Due(s) \in Nat
      /\ InHand(s) \subseteq Nat /\ InChan(s) \subseteq Nat
  BY WayType
<1>4. /\ Got(s)' = Got(s) /\ InHand(s)' = InHand(s)
      /\ fwd'[s] = fwd[s] /\ held'[s] = held[s] /\ lastLag'[s] = lastLag[s]
      /\ seenTo'[s] = seenTo[s] /\ Attached(s) /\ Due(s)' = Due(s) + 1
  BY DEF OutKept, LeftAlone, FwdKept, SameRecord, InHand, Holds, Receives, Misses
<1>. DEFINE d == Due(s)
<1>5. ASSUME Reach(s) \subseteq Reach(s)', Lacks(seenTo[s], d + 1, Reach(s)') <= lag'[s],
             InChan(s)' \subseteq InChan(s) \cup {d + 1}, lag[s] <= lag'[s], lag'[s] \in Nat
      PROVE  /\ Attached(s)' => Lacks(seenTo'[s], Due(s)', Reach(s)') <= lag'[s]
             /\ \A n \in InHand(s)' \cup InChan(s)' : Lacks(seenTo'[s], n, Reach(s)') <= lag'[s]
             /\ fwd'[s] = "deliver" =>
                  Lacks(seenTo'[s], held'[s].event.seq, Reach(s)') <= lastLag'[s]
  <2>1. \A n \in Nat : /\ Lacks(seenTo[s], n, Reach(s)) \in Nat /\ Lacks(seenTo[s], n, Reach(s)') \in Nat
                       /\ Lacks(seenTo[s], n, Reach(s)') <= Lacks(seenTo[s], n, Reach(s))
    BY <1>3, <1>5, LacksFewer
  <2>2. ASSUME NEW n \in InHand(s)' \cup InChan(s)' PROVE Lacks(seenTo'[s], n, Reach(s)') <= lag'[s]
    <3>1. CASE n = d + 1
      BY <1>4, <1>5, <3>1
    <3>2. CASE n \in InHand(s) \cup InChan(s)
      <4>1. n \in Nat /\ Lacks(seenTo[s], n, Reach(s)) <= lag[s]
        BY <1>2, <1>3, <3>2
      <4>. QED BY <1>3, <1>4, <1>5, <2>1, <4>1
    <3>. QED BY <1>4, <1>5, <2>2, <3>1, <3>2
  <2>3. ASSUME fwd'[s] = "deliver" PROVE Lacks(seenTo'[s], held'[s].event.seq, Reach(s)') <= lastLag'[s]
    <3>1. held[s].event.seq \in InHand(s) /\ fwd[s] = "deliver"
      BY <1>4, <2>3 DEF InHand, Holds
    <3>2. held[s].event.seq \in Nat /\ Lacks(seenTo[s], held[s].event.seq, Reach(s)) <= lastLag[s]
      BY <1>2, <1>3, <3>1
    <3>. QED BY <1>3, <1>4, <2>1, <3>2
  <2>. QED BY <1>4, <1>5, <2>2, <2>3
<1>6. CASE Receives(s)
  <2>1. Reach(s)' = Reach(s) \cup {d + 1} /\ lag'[s] = lag[s] /\ InChan(s)' = InChan(s) \cup {d + 1}
    BY <1>4, <1>6 DEF Receives, Reach
  <2>2. /\ Lacks(seenTo[s], d + 1, Reach(s) \cup {d + 1}) <= Lacks(seenTo[s], d, Reach(s))
        /\ Lacks(seenTo[s], d, Reach(s)) \in Nat /\ Lacks(seenTo[s], d + 1, Reach(s) \cup {d + 1}) \in Nat
    <3>1. d + 1 \in Nat
      BY <1>3
    <3>. HIDE DEF d
    <3>2. d \in Nat
      BY <1>3 DEF d
    <3>. QED BY <1>3, <3>1, <3>2, LacksNext, LacksFewer
  <2>3. Lacks(seenTo[s], d + 1, Reach(s)') <= lag'[s]
    BY <1>2, <1>3, <1>4, <2>1, <2>2
  <2>4. Reach(s) \subseteq Reach(s)' /\ InChan(s)' \subseteq InChan(s) \cup {d + 1}
    BY <2>1
  <2>5. lag[s] <= lag'[s] /\ lag'[s] \in Nat
    BY <1>3, <2>1
  <2>. QED BY ONLY <1>5, <2>3, <2>4, <2>5
<1>7. CASE Misses(s)
  <2>1. Reach(s)' = Reach(s) /\ lag'[s] = lag[s] + 1 /\ InChan(s)' = InChan(s)
    BY <1>4, <1>7 DEF Misses, Reach
  <2>2. /\ Lacks(seenTo[s], d + 1, Reach(s)) <= Lacks(seenTo[s], d, Reach(s)) + 1
        /\ Lacks(seenTo[s], d, Reach(s)) \in Nat /\ Lacks(seenTo[s], d + 1, Reach(s)) \in Nat
    <3>1. d + 1 \in Nat
      BY <1>3
    <3>. HIDE DEF d
    <3>2. d \in Nat
      BY <1>3 DEF d
    <3>. QED BY <1>3, <3>1, <3>2, LacksNext, LacksFewer
  <2>3. Lacks(seenTo[s], d + 1, Reach(s)') <= lag'[s]
    BY <1>2, <1>3, <1>4, <2>1, <2>2
  <2>4. Reach(s) \subseteq Reach(s)' /\ InChan(s)' \subseteq InChan(s) \cup {d + 1}
    BY <2>1
  <2>5. lag[s] <= lag'[s] /\ lag'[s] \in Nat
    BY <1>3, <2>1
  <2>. QED BY ONLY <1>5, <2>3, <2>4, <2>5
<1>. QED BY <1>6, <1>7

(* Reading the backfill opens the stream; nothing up to its end is missing.   *)
LEMMA CountRead ==
  ASSUME BaseInv, WSTypeOK, PlacesInv, NEW s \in Subs, FromStream(s),
         ReadBackfill(s), OnItsWay(s), LeftAlone(s)
  PROVE  CountInv(s)'
<1>1. /\ stage[s] = "read" /\ LengthOf(s) \in Nat /\ seenTo'[s] = LengthOf(s)
      /\ Due(s) \in Nat /\ Due(s) <= LengthOf(s) /\ lag[s] \in Nat
      /\ lag'[s] = lag[s] /\ Due(s)' = Due(s) /\ InChan(s)' = InChan(s)
  BY DueNow DEF ReadBackfill, OnItsWay, LengthOf, BaseInv, TypeInv, BrokerTypeOK, HubTypeOK
<1>2. fwd'[s] = "none" /\ InHand(s)' = {}
  BY <1>1 DEF PlacesInv, PlaceInv, LeftAlone, FwdKept, InHand, Holds
<1>3. \A n \in InChan(s) : n \in Nat /\ n <= LengthOf(s)
  BY <1>1 DEF FromStream, InChan, LengthOf
<1>4. \A n \in Nat : n <= LengthOf(s) => Lacks(LengthOf(s), n, Reach(s)') = 0
  BY <1>1, LacksNone
<1>. QED BY <1>1, <1>2, <1>3, <1>4 DEF CountInv

LEMMA CountStep ==
  ASSUME BaseInv, WSTypeOK, PlacesInv, NEW s \in Subs, InOrder(s), FromStream(s), StretchInv(s),
         OpenInv(s), GivenInv(s), LagInv(s), CountInv(s), Turn(s) \/ Aside(s)
  PROVE  CountInv(s)'
<1>0. /\ fwd \in [Subs -> {"none", "select", "check", "deliver", "exit"}]
      /\ stage \in [Subs -> {"none", "read", "live", "closed"}]
      /\ held \in [Subs -> Frame \cup {None}] /\ lastLag \in [Subs -> Nat]
      /\ lag[s] \in Nat /\ lastLag[s] \in Nat /\ seenTo[s] \in Nat
      /\ PlaceInv(s)
  BY DEF WSTypeOK, BaseInv, TypeInv, BrokerTypeOK, HubTypeOK, PlacesInv
<1>1. ASSUME ~ Opened(s)' PROVE CountInv(s)'
  BY <1>1 DEF CountInv
<1>2. Opened(s) => stage[s] # "none"
  BY DEF Opened, OpenInv
<1>3. CASE Aside(s)
  <2>1. /\ Got(s)' = Got(s) /\ (s \notin lost' => s \notin lost) /\ InHand(s)' = InHand(s)
        /\ fwd'[s] = fwd[s] /\ held'[s] = held[s] /\ lastLag'[s] = lastLag[s] /\ cancelled'[s] = cancelled[s]
    BY <1>3 DEF Aside, OutKept, LeftAlone, FwdKept, InHand, Holds
  <2>2. CASE ReadBackfill(s) /\ OnItsWay(s)
    BY <1>3, <2>2, CountRead DEF Aside
  <2>3. CASE StaysNew(s) \/ (Kept(s) /\ ~ Opened(s))
    BY <1>1, <1>2, <2>1, <2>3 DEF StaysNew, Kept, Opened
  <2>4. CASE stage[s] # "none" /\ Kept(s) /\ Opened(s) /\ (Receives(s) \/ Misses(s))
    BY <1>3, <2>4, CountOffer DEF Aside, Kept
  <2>5. CASE stage[s] # "none" /\ Kept(s) /\ Opened(s) /\ Spared(s)
    <3>1. /\ seenTo'[s] = seenTo[s] /\ lag'[s] = lag[s] /\ Reach(s)' = Reach(s)
          /\ InHand(s)' \cup InChan(s)' = InHand(s) \cup InChan(s)
          /\ Attached(s)' => Attached(s) /\ Due(s)' = Due(s)
      BY <2>1, <2>5 DEF Kept, SameRecord, Spared, Reach
    <3>. QED BY <2>1, <2>5, <3>1, CountKept
  <2>. QED BY <1>3, <2>2, <2>3, <2>4, <2>5 DEF Aside, BrokerMove
<1>4. CASE Starts(s)
  BY <1>1, <1>4, StartBroker DEF Starts, Opened, OpenInv
<1>5. ASSUME SameRecord(s), OnItsWay(s), Attached(s)' => Attached(s), Opened(s),
             s \notin lost' => s \notin lost, Got(s) \cup InHand(s) \subseteq Got(s)' \cup InHand(s)',
             InHand(s)' \subseteq InHand(s),
             fwd'[s] = "deliver" =>
               /\ held'[s] = held[s]
               /\ (fwd[s] = "deliver" /\ lastLag'[s] = lastLag[s]) \/ (Holds(s) /\ lastLag'[s] = lag[s])
      PROVE  CountInv(s)'
  <2>1. /\ seenTo'[s] = seenTo[s] /\ lag'[s] = lag[s]
        /\ Attached(s)' => Attached(s) /\ Due(s)' = Due(s)
        /\ InChan(s)' = InChan(s)
    BY <1>5 DEF SameRecord, OnItsWay
  <2>2. /\ \A x \in Reach(s) : x \in Reach(s)' \/ x <= seenTo[s]
        /\ InHand(s)' \cup InChan(s)' \subseteq InHand(s) \cup InChan(s)
    BY <1>5, <2>1 DEF Reach
  <2>. QED BY <1>2, <1>5, <2>1, <2>2, CountKept
<1>6. CASE Hands(s)
  <2>1. /\ SameRecord(s) /\ stage'[s] = stage[s] /\ OnItsWay(s) /\ stage[s] = "live"
        /\ fwd[s] = "none" /\ fwd'[s] = fwd[s]
    BY <1>6, RestBroker DEF Hands, FwdKept
  <2>2. Got(s) \subseteq Got(s)' /\ (s \notin lost' => s \notin lost)
    BY <1>6, GivesOne DEF Hands
  <2>3. InHand(s) = {} /\ InHand(s)' = {}
    BY <2>1 DEF InHand, Holds
  <2>4. Attached(s)' => Attached(s)
    BY <2>1 DEF Attached, OnItsWay
  <2>. QED BY <1>5, <2>1, <2>2, <2>3, <2>4 DEF Opened
<1>7. CASE Acks(s)
  <2>1. /\ SameRecord(s) /\ stage'[s] = stage[s] /\ OnItsWay(s) /\ stage[s] = "live"
        /\ fwd[s] = "none" /\ fwd'[s] = "select"
        /\ Got(s)' = Got(s) /\ (s \notin lost' => s \notin lost)
    BY <1>7, RestBroker, GivesNone DEF Acks
  <2>2. InHand(s) = {} /\ InHand(s)' = {}
    BY <2>1 DEF InHand, Holds
  <2>3. Attached(s)' => Attached(s)
    BY <2>1 DEF Attached, OnItsWay
  <2>. QED BY <1>5, <2>1, <2>2, <2>3 DEF Opened
<1>8. CASE Cancels(s)
  <2>1. /\ SameRecord(s) /\ OnItsWay(s) /\ stage[s] = "live" /\ stage'[s] = "closed"
        /\ fwd'[s] = fwd[s] /\ held'[s] = held[s] /\ lastLag'[s] = lastLag[s]
        /\ Got(s)' = Got(s) /\ (s \notin lost' => s \notin lost)
    BY <1>8, CancelBroker, GivesNone DEF Cancels
  <2>2. InHand(s)' = InHand(s)
    BY <2>1 DEF InHand, Holds
  <2>3. Attached(s)' => Attached(s)
    BY <2>1 DEF Attached, OnItsWay
  <2>. QED BY <1>5, <2>1, <2>2, <2>3 DEF Opened
<1>9. CASE Tells(s)
  <2>1. /\ SameRecord(s) /\ OnItsWay(s) /\ stage'[s] = stage[s]
        /\ Got(s)' = Got(s) /\ (s \notin lost' => s \notin lost)
    BY <1>9, RestBroker, GivesNone
  <2>2. /\ fwd[s] = "check" /\ fwd'[s] = "deliver" /\ held'[s] = held[s]
        /\ lastLag'[s] = lag[s]
    BY <1>0, <1>9 DEF Tells, ForwardLag, LagInv
  <2>3. InHand(s)' = InHand(s) /\ Holds(s)
    BY <2>2 DEF InHand, Holds
  <2>4. (Attached(s)' => Attached(s)) /\ Opened(s)
    BY <2>1, <2>2 DEF Attached, OnItsWay, OpenInv
  <2>. QED BY <1>5, <2>1, <2>2, <2>3, <2>4
<1>10. CASE Gives(s)
  <2>1. /\ SameRecord(s) /\ OnItsWay(s) /\ stage'[s] = stage[s]
    BY <1>10, RestBroker
  <2>2. /\ fwd[s] = "deliver" /\ fwd'[s] = "select"
        /\ Posted(s, Msg("event", s, held[s].event.seq))
    BY <1>0, <1>10 DEF Gives, ForwardEvent
  <2>3. InHand(s)' = {} /\ InHand(s) = {held[s].event.seq}
    BY <2>2 DEF InHand, Holds
  <2>4. (Attached(s)' => Attached(s)) /\ Opened(s)
    BY <2>1, <2>2 DEF Attached, OnItsWay, OpenInv
  <2>5. CASE s \in lost'
    BY <2>5 DEF CountInv
  <2>6. CASE s \notin lost'
    <3>1. Got(s)' = Got(s) \cup {held[s].event.seq} /\ lost' = lost
      BY <2>2, <2>6, GivesOne
    <3>. QED BY <1>5, <2>1, <2>2, <2>3, <2>4, <2>6, <3>1
  <2>. QED BY <2>5, <2>6
<1>11. CASE Exits(s)
  <2>1. /\ SameRecord(s) /\ OnItsWay(s) /\ stage'[s] = stage[s]
        /\ Got(s)' = Got(s) /\ (s \notin lost' => s \notin lost)
    BY <1>11, RestBroker, GivesNone
  <2>2. fwd[s] = "select" /\ fwd'[s] = "exit"
    BY <1>0, <1>11 DEF Exits, ForwardExit
  <2>3. InHand(s)' = {} /\ InHand(s) = {}
    BY <2>2 DEF InHand, Holds
  <2>4. (Attached(s)' => Attached(s)) /\ Opened(s)
    BY <2>1, <2>2 DEF Attached, OnItsWay, OpenInv
  <2>. QED BY <1>5, <2>1, <2>2, <2>3, <2>4
<1>12. CASE Takes(s)
  <2>. DEFINE h == taken'[s]
  <2>1. /\ fence'[s] = fence[s] /\ seenTo'[s] = seenTo[s] /\ stage'[s] = stage[s]
        /\ lag'[s] = lag[s] /\ Due(s)' = Due(s) /\ (Aimed(s)' <=> Aimed(s))
        /\ h = Head(chan[s]).event.seq /\ h \in Nat /\ InChan(s) = InChan(s)' \cup {h}
    BY <1>12, TakeBroker
  <2>2. Got(s)' = Got(s) /\ (s \notin lost' => s \notin lost)
    BY <1>12, GivesNone
  <2>3. /\ fwd[s] = "select"
        /\ \/ fwd'[s] = "select" /\ Head(chan[s]).event.seq <= fence[s]
           \/ fwd'[s] = "check" /\ held'[s] = Head(chan[s])
    BY <1>0, <1>12 DEF Takes, ForwardTake
  <2>4. (Attached(s)' => Attached(s)) /\ Opened(s)
    BY <2>1, <2>3 DEF Attached, OpenInv
  <2>5. InHand(s) = {} /\ InHand(s)' \subseteq {h}
    BY <2>1, <2>3 DEF InHand, Holds
  <2>6. h \in InHand(s)' \/ h <= seenTo[s]
    <3>1. CASE fwd'[s] = "select"
      <4>1. h <= fence[s] /\ fence[s] <= seenTo[s] /\ fence[s] \in Nat
        BY <1>0, <2>1, <2>3, <3>1 DEF StretchInv
      <4>. QED BY <1>0, <2>1, <4>1
    <3>2. CASE fwd'[s] = "check"
      BY <2>1, <2>3, <3>2 DEF InHand, Holds
    <3>. QED BY <2>3, <3>1, <3>2
  <2>. HIDE DEF h
  <2>7. \A x \in Reach(s) : x \in Reach(s)' \/ x <= seenTo[s]
    BY <2>1, <2>2, <2>5, <2>6 DEF Reach
  <2>8. InHand(s)' \cup InChan(s)' \subseteq InHand(s) \cup InChan(s)
    BY <2>1, <2>5
  <2>. QED BY <1>2, <2>1, <2>2, <2>3, <2>4, <2>7, <2>8, CountKept
<1>. QED BY <1>3, <1>4, <1>6, <1>7, <1>8, <1>9, <1>10, <1>11, <1>12 DEF Turn

--------------------------------------------------------------------------------
(* All of it holds of every session.                                          *)
StreamInv ==
  /\ WSInv /\ CancelType
  /\ \A s \in Subs : StretchInv(s) /\ LagInv(s) /\ OpenInv(s) /\ GivenInv(s) /\ CountInv(s)

LEMMA ToldType ==
  ASSUME WSTypeOK, NEW s \in Subs
  PROVE  ToldTo(s) \in Nat
<1>1. CASE owner[s] = None
  BY <1>1 DEF ToldTo
<1>2. CASE owner[s] # None
  <2>1. owner[s] \in Conns /\ sent[owner[s]] \in Seq(Msgs)
    BY <1>2 DEF WSTypeOK
  <2>2. PICK sum : Totals(sent[owner[s]], s, sum)
    BY <2>1, RunningTotal
  <2>3. Len(sent[owner[s]]) \in Nat
    BY <2>1, LenProperties
  <2>. QED BY <1>2, <2>2, <2>3 DEF Totals, ToldTo
<1>. QED BY <1>1, <1>2

LEMMA StreamInit == WSInit => StreamInv
<1>. SUFFICES ASSUME WSInit PROVE StreamInv
  OBVIOUS
<1>1. WSInv /\ CancelType
  BY WSInvInit DEF WSInit, CancelType
<1>2. ASSUME NEW s \in Subs
      PROVE  StretchInv(s) /\ LagInv(s) /\ OpenInv(s) /\ GivenInv(s) /\ CountInv(s)
  <2>1. /\ stage[s] = "none" /\ backfill[s] = <<>> /\ fence[s] = 0 /\ seenTo[s] = 0 /\ lag[s] = 0
        /\ owner[s] = None /\ fwd[s] = "none" /\ cancelled[s] = FALSE /\ lastLag[s] = 0
    BY DEF WSInit, BrokerInit, HubInit
  <2>2. Got(s) = {} /\ ToldTo(s) = 0 /\ ~ Opened(s) /\ BaseOf(s) = 0
    BY <2>1 DEF Got, ToldTo, Opened, BaseOf
  <2>3. Len(backfill[s]) = 0
    BY <2>1
  <2>4. StretchInv(s)
    BY <2>1, <2>2, <2>3 DEF StretchInv
  <2>. QED BY <2>1, <2>2, <2>4 DEF LagInv, OpenInv, GivenInv, CountInv
<1>. QED BY <1>1, <1>2 DEF StreamInv

(* What every step of the session starts from.                                *)
Ready ==
  /\ BaseInv /\ WSTypeOK /\ PlacesInv /\ CancelType
  /\ \A s \in Subs : FromStream(s) /\ InOrder(s) /\ BackfillIsStretch(s) /\ HeldInv(s)
  /\ \A s \in Subs : StretchInv(s) /\ LagInv(s) /\ OpenInv(s) /\ GivenInv(s) /\ CountInv(s)

LEMMA InvIsReady == StreamInv => Ready
BY DEF StreamInv, Ready, WSInv, DInv, OrderInv

(* A step is the turn of one subscription, or of none.                        *)
LEMMA StepCases ==
  ASSUME StreamInv, WSAct
  PROVE  Elsewhere \/ \E s \in Subs : OwnTurn(s)
<1>1. /\ BaseInv /\ WSTypeOK /\ PlacesInv /\ cancelled \in [Subs -> BOOLEAN]
      /\ \A c \in Conns : FrameInv(c)
      /\ \A s \in Subs : BackfillIsStretch(s)
  BY DEF StreamInv, WSInv, DInv, OrderInv, CancelType
<1>. QED BY <1>1, SessionCases

LEMMA StreamStep == StreamInv /\ [WSNext]_vars => StreamInv'
<1>. SUFFICES ASSUME StreamInv, [WSNext]_vars PROVE StreamInv'
  OBVIOUS
<1>1. WSAct /\ Ready
  BY NextIsWSAct, InvIsReady
<1>2. WSInv'
  BY WSInvStep DEF StreamInv
<1>3. BaseInv' /\ CancelType'
  BY <1>1, <1>2, CancelTypeStep DEF WSInv, DInv, Ready
<1>4. BrokerAct
  BY <1>1, ActIsBrokerAct DEF Ready, PlacesInv
<1>5. Elsewhere \/ \E s \in Subs : OwnTurn(s)
  BY <1>1, StepCases
<1>6. ASSUME NEW s \in Subs
      PROVE  StretchInv(s)' /\ LagInv(s)' /\ OpenInv(s)' /\ GivenInv(s)' /\ CountInv(s)'
  <2>1. /\ BaseInv /\ WSTypeOK /\ PlacesInv /\ FromStream(s) /\ InOrder(s)
        /\ StretchInv(s) /\ LagInv(s) /\ OpenInv(s) /\ GivenInv(s) /\ CountInv(s)
    BY <1>1 DEF Ready
  <2>2. Turn(s) \/ Aside(s)
    <3>1. CASE \E r \in Subs : r # s /\ OwnTurn(r)
      BY <2>1, <3>1, AsideStep
    <3>2. CASE OwnTurn(s)
      BY <3>2 DEF OwnTurn
    <3>3. CASE Elsewhere
      BY <2>1, <3>3, AsideStep
    <3>. QED BY <1>5, <3>1, <3>2, <3>3
  <2>3. ToldTo(s) \in Nat
    BY <2>1, ToldType
  <2>4. StretchInv(s)'
    BY <1>4, <2>1, StretchStep
  <2>5. LagInv(s)'
    BY <1>3, <2>1, <2>2, <2>3, LagStep
  <2>6. OpenInv(s)'
    BY <2>1, <2>2, OpenStep
  <2>7. GivenInv(s)'
    BY <2>1, <2>2, <2>4, <2>6, GivenStep
  <2>8. CountInv(s)'
    BY <2>1, <2>2, CountStep
  <2>. QED BY <2>4, <2>5, <2>6, <2>7, <2>8
<1>. QED BY <1>2, <1>3, <1>6 DEF StreamInv

LEMMA StreamInvariant == WSSpec => []StreamInv
<1>. QED BY StreamInit, StreamStep, PTL DEF WSSpec

--------------------------------------------------------------------------------
(* The promise is kept.  The variables of EventStream as the session has them.*)
Streams == [t \in Topics |-> Len(events[t])]
Views == [s \in Subs |-> IF Opened(s) THEN subTopic[s] ELSE None]
Bases == [s \in Subs |-> IF Opened(s) THEN BaseOf(s) ELSE 0]
Givens == [s \in Subs |-> GivenTo(s)]
Tolds == [s \in Subs |-> ToldTo(s)]
Voids == lost \ {None}

LEMMA PromiseInit == WSInit => Promise!Init
<1>. SUFFICES ASSUME WSInit PROVE Promise!Init
  OBVIOUS
<1>1. \A t \in Topics : Len(events[t]) = 0
  BY DEF WSInit, BrokerInit, StoreInit
<1>2. ASSUME NEW s \in Subs PROVE ~ Opened(s) /\ GivenTo(s) = <<>> /\ ToldTo(s) = 0
  BY DEF WSInit, BrokerInit, GivenTo, ToldTo, Opened
<1>3. lost = {}
  BY DEF WSInit
<1>. QED BY <1>1, <1>2, <1>3 DEF Promise!Init

(* What a step leaves of the view a client has.                               *)
SameStream == \A t \in Topics : Len(events'[t]) = Len(events[t])

SameView(s) ==
  /\ Opened(s)' <=> Opened(s)
  /\ Opened(s) => subTopic'[s] = subTopic[s] /\ BaseOf(s)' = BaseOf(s)

SameVoid == lost' \ {None} = lost \ {None}

LEMMA StreamsStay == SameStream => Streams' = Streams
BY DEF SameStream, Streams

LEMMA ViewsStay ==
  ASSUME \A s \in Subs : SameView(s)
  PROVE  Views' = Views /\ Bases' = Bases
BY DEF SameView, Views, Bases

LEMMA OutsStay ==
  ASSUME \A s \in Subs : OutKept(s)
  PROVE  Givens' = Givens /\ Tolds' = Tolds
BY DEF OutKept, Givens, Tolds

LEMMA NothingHappens ==
  ASSUME SameStream, \A s \in Subs : SameView(s) /\ OutKept(s), SameVoid
  PROVE  UNCHANGED Promise!esVars
<1>1. /\ Streams' = Streams /\ Views' = Views /\ Bases' = Bases
      /\ Givens' = Givens /\ Tolds' = Tolds /\ Voids' = Voids
  BY StreamsStay, ViewsStay, OutsStay DEF SameVoid, Voids
<1>. QED BY <1>1 DEF Promise!esVars, Streams, Views, Bases, Givens, Tolds, Voids

LEMMA StreamGrows ==
  ASSUME NEW t \in Topics, \A u \in Topics : Len(events'[u]) = IF u = t THEN Len(events[u]) + 1 ELSE Len(events[u]),
         \A s \in Subs : SameView(s) /\ OutKept(s), SameVoid
  PROVE  Promise!Next
<1>1. Streams' = [Streams EXCEPT ![t] = @ + 1]
  BY DEF Streams
<1>2. Views' = Views /\ Bases' = Bases /\ Givens' = Givens /\ Tolds' = Tolds /\ Voids' = Voids
  BY ViewsStay, OutsStay DEF SameVoid, Voids
<1>3. Promise!Ingest(t)
  BY <1>1, <1>2 DEF Promise!Ingest, Streams, Views, Bases, Givens, Tolds, Voids
<1>. QED BY <1>3 DEF Promise!Next

LEMMA ViewOpens ==
  ASSUME NEW s \in Subs, NEW t \in Topics, NEW b, SameStream, ~ Opened(s), Opened(s)',
         subTopic'[s] = t, BaseOf(s)' = b, b \in 0 .. Len(events[t]),
         \A r \in Subs : OutKept(r) /\ (r # s => SameView(r)), SameVoid
  PROVE  Promise!Next
<1>1. Views[s] = None /\ b \in 0 .. Streams[t]
  BY DEF Views, Streams
<1>2. Views' = [Views EXCEPT ![s] = t] /\ Bases' = [Bases EXCEPT ![s] = b]
  BY DEF SameView, Views, Bases
<1>3. Streams' = Streams /\ Givens' = Givens /\ Tolds' = Tolds /\ Voids' = Voids
  BY StreamsStay, OutsStay DEF SameVoid, Voids
<1>4. Promise!Observe(s, t, b)
  BY <1>1, <1>2, <1>3 DEF Promise!Observe, Streams, Views, Bases, Givens, Tolds, Voids
<1>. QED BY <1>1, <1>4 DEF Promise!Next, Streams

(* EventStream counts as this module does.                                    *)
LEMMA PromiseCounts == \A S : Promise!Cardinality(S) = Cardinality(S)
BY DEF Cardinality, IsFiniteSet, Promise!Cardinality, Promise!IsFiniteSet

(* ... and what its client got is what is in the list of it.                  *)
LEMMA GotIsHeard ==
  ASSUME WSTypeOK, NEW s \in Subs
  PROVE  {GivenTo(s)[i] : i \in 1 .. Len(GivenTo(s))} = Got(s)
<1>1. CASE owner[s] = None
  BY <1>1 DEF Got, GivenTo
<1>2. CASE owner[s] # None
  <2>1. sent[owner[s]] \in Seq(Msgs)
    BY <1>2 DEF WSTypeOK
  <2>2. LET seqs == EventsIn(sent[owner[s]], s)
        IN  {seqs[i] : i \in 1 .. Len(seqs)} = EventSet(sent[owner[s]], s)
    BY <2>1, EventsRange
  <2>. QED BY <1>2, <2>2 DEF Got, GivenTo
<1>. QED BY <1>1, <1>2

LEMMA PromiseGot ==
  ASSUME WSTypeOK, NEW s \in Subs
  PROVE  Promise!Got(s) = Got(s)
<1>1. Givens[s] = GivenTo(s)
  BY DEF Givens
<1>2. Promise!Got(s) = {Givens[s][i] : i \in 1 .. Len(Givens[s])}
  BY DEF Promise!Got, Givens
<1>. QED BY <1>1, <1>2, GotIsHeard

(* What a frame for an open subscription does to what its client has.         *)
LEMMA GivesNext ==
  ASSUME WSTypeOK, NEW s \in Subs, NEW n \in Nat, SameStream, \A r \in Subs : SameView(r),
         Opened(s), subTopic[s] \in Topics, n \in 1 .. Len(events[subTopic[s]]),
         \A m \in Got(s) : m < n,
         s \notin lost => Lacks(BaseOf(s), n - 1, Got(s)) <= ToldTo(s),
         GivenTo(s)' = Append(GivenTo(s), n), \A r \in Subs : ToldTo(r)' = ToldTo(r),
         \A r \in Subs : r # s => GivenTo(r)' = GivenTo(r), SameVoid
  PROVE  Promise!Next
<1>1. /\ Views[s] # None /\ Views[s] = subTopic[s] /\ n \in 1 .. Streams[Views[s]]
      /\ \A m \in Promise!Got(s) : m < n
  BY NoneAssumption, PromiseGot DEF Views, Streams
<1>2. s \in Voids \/ Cardinality((Bases[s] + 1 .. n - 1) \ Got(s)) <= Tolds[s]
  <2>1. s # None /\ Bases[s] = BaseOf(s) /\ Tolds[s] = ToldTo(s)
    BY NoneAssumption DEF Bases, Tolds
  <2>2. s \notin lost => Cardinality((BaseOf(s) + 1 .. n - 1) \ Got(s)) <= ToldTo(s)
    BY DEF Lacks, Gaps
  <2>3. s \in lost => s \in Voids
    BY <2>1 DEF Voids
  <2>. QED BY <2>1, <2>2, <2>3, Zenon
<1>3. Givens' = [Givens EXCEPT ![s] = Append(@, n)] /\ Tolds' = Tolds
  BY DEF Givens, Tolds
<1>4. Streams' = Streams /\ Views' = Views /\ Bases' = Bases /\ Voids' = Voids
  BY StreamsStay, ViewsStay DEF SameVoid, Voids
<1>5. Promise!Give(s, n)
  <2>1. Promise!Missing(s, n - 1) = (Bases[s] + 1 .. n - 1) \ Got(s)
    BY PromiseGot DEF Promise!Missing, Bases
  <2>2. s \in Voids \/ Promise!Cardinality(Promise!Missing(s, n - 1)) <= Tolds[s]
    BY <1>2, <2>1, PromiseCounts
  <2>3. (UNCHANGED <<Streams, Views, Bases, Tolds, Voids>>) /\ Givens' = [Givens EXCEPT ![s] = Append(Givens[s], n)]
    BY <1>3, <1>4
  <2>. QED BY ONLY <1>1, <2>2, <2>3 DEF Promise!Give, Streams, Views, Bases, Givens, Tolds, Voids
<1>6. n \in 1 .. (IF Views[s] = None THEN 0 ELSE Streams[Views[s]])
  BY <1>1
<1>. QED BY <1>5, <1>6 DEF Promise!Next, Streams, Views

LEMMA TellsSome ==
  ASSUME NEW s \in Subs, NEW k \in Nat, SameStream, \A r \in Subs : SameView(r),
         Opened(s), subTopic[s] \in Topics, k \in 1 .. Len(events[subTopic[s]]),
         ToldTo(s)' = ToldTo(s) + k, \A r \in Subs : r # s => ToldTo(r)' = ToldTo(r),
         \A r \in Subs : GivenTo(r)' = GivenTo(r), SameVoid
  PROVE  Promise!Next
<1>1. /\ Views[s] # None /\ Views[s] = subTopic[s]
      /\ k \in 1 .. (IF Views[s] = None THEN 0 ELSE Streams[Views[s]])
  BY NoneAssumption DEF Views, Streams
<1>2. Tolds' = [Tolds EXCEPT ![s] = @ + k] /\ Givens' = Givens
  BY DEF Givens, Tolds
<1>3. Streams' = Streams /\ Views' = Views /\ Bases' = Bases /\ Voids' = Voids
  BY StreamsStay, ViewsStay DEF SameVoid, Voids
<1>4. Promise!Tell(s, k)
  BY <1>1, <1>2, <1>3 DEF Promise!Tell, Streams, Views, Bases, Givens, Tolds, Voids
<1>. QED BY <1>1, <1>4 DEF Promise!Next, Streams, Views

LEMMA GoesVoid ==
  ASSUME NEW s \in Subs, SameStream, \A r \in Subs : SameView(r),
         Opened(s), subTopic[s] \in Topics, lost' = lost \cup {s},
         \A r \in Subs : GivenTo(r)' = GivenTo(r) /\ ToldTo(r)' = ToldTo(r)
  PROVE  Promise!Next
<1>1. Views[s] # None /\ Voids' = Voids \cup {s}
  BY NoneAssumption DEF Views, Voids
<1>2. Givens' = Givens /\ Tolds' = Tolds
  BY DEF Givens, Tolds
<1>3. Streams' = Streams /\ Views' = Views /\ Bases' = Bases
  BY StreamsStay, ViewsStay
<1>4. Promise!Overflow(s)
  BY <1>1, <1>2, <1>3 DEF Promise!Overflow, Streams, Views, Bases, Givens, Tolds, Voids
<1>. QED BY <1>4 DEF Promise!Next

--------------------------------------------------------------------------------
(* Which steps change what a client may expect.  Only the read of its         *)
(* backfill opens the view of a subscription ...                              *)
LEMMA AsideView ==
  ASSUME Ready, NEW s \in Subs, Aside(s), ~ ReadBackfill(s)
  PROVE  SameView(s)
<1>1. OpenInv(s) /\ cancelled'[s] = cancelled[s]
  BY DEF Ready, Aside, LeftAlone, FwdKept
<1>2. CASE stage[s] = "none"
  BY <1>1, <1>2 DEF Aside, BrokerMove, StaysNew, Opened, OpenInv, SameView
<1>3. CASE stage[s] # "none"
  <2>1. Kept(s)
    BY <1>3 DEF Aside, BrokerMove
  <2>2. BaseOf(s)' = BaseOf(s)
    BY <2>1, RecordStays DEF Kept, SameRecord
  <2>. QED BY <1>1, <2>1, <2>2 DEF Kept, Opened, SameView
<1>. QED BY <1>2, <1>3

LEMMA ReadOpens ==
  ASSUME TypeInv, NEW s \in Subs, ReadBackfill(s)
  PROVE  /\ stage[s] = "read" /\ stage'[s] = "live"
         /\ \A r \in Subs : r # s => ~ ReadBackfill(r)
         /\ SameStream
<1>1. /\ stage[s] = "read" /\ stage' = [stage EXCEPT ![s] = "live"]
      /\ UNCHANGED events
  BY DEF ReadBackfill, storeVars
<1>2. stage'[s] = "live" /\ \A r \in Subs : r # s => stage'[r] = stage[r]
  BY <1>1 DEF TypeInv, BrokerTypeOK
<1>3. ASSUME NEW r \in Subs, r # s, ReadBackfill(r) PROVE FALSE
  <2>1. stage[r] = "read" /\ stage' = [stage EXCEPT ![r] = "live"]
    BY <1>3 DEF ReadBackfill
  <2>2. stage'[r] = "live"
    BY <2>1 DEF TypeInv, BrokerTypeOK
  <2>. QED BY <1>2, <1>3, <2>1, <2>2
<1>. QED BY <1>1, <1>2, <1>3 DEF SameStream

(* ... and a turn opens none.                                                 *)
LEMMA TurnOpensNone ==
  ASSUME TypeInv, NEW s \in Subs, Turn(s)
  PROVE  SameStream /\ \A r \in Subs : ~ ReadBackfill(r)
<1>. DEFINE Goal == UNCHANGED events /\ \A r \in Subs : stage'[r] = "live" => stage[r] = "live"
<1>0. stage \in [Subs -> {"none", "read", "live", "closed"}]
  BY DEF TypeInv, BrokerTypeOK
<1>1. ASSUME Starts(s) PROVE Goal
  BY <1>0, <1>1 DEF Starts, SubscribeHub, storeVars
<1>2. ASSUME Cancels(s) PROVE Goal
  BY <1>0, <1>2 DEF Cancels, Unsubscribe, storeVars
<1>3. ASSUME Takes(s) PROVE Goal
  BY <1>3 DEF Takes, ForwardTake, Take, storeVars, subscribeVars
<1>4. ASSUME Hands(s) \/ Acks(s) \/ Tells(s) \/ Gives(s) \/ Exits(s)
      PROVE  Goal
  <2>1. UNCHANGED brokerVars
    BY <1>4 DEF Hands, Acks, Tells, Gives, Exits, ForwardLag, ForwardEvent, ForwardExit
  <2>. QED BY <2>1 DEF brokerVars, storeVars, subscribeVars
<1>5. Goal
  BY <1>1, <1>2, <1>3, <1>4 DEF Turn
<1>6. ASSUME NEW r \in Subs, ReadBackfill(r) PROVE FALSE
  BY <1>5, <1>6, ReadOpens
<1>. QED BY <1>5, <1>6 DEF SameStream

LEMMA TurnView ==
  ASSUME Ready, NEW s \in Subs, Turn(s)
  PROVE  SameView(s)
<1>0. /\ BaseInv /\ OpenInv(s) /\ InOrder(s) /\ cancelled \in [Subs -> BOOLEAN]
  BY DEF Ready, CancelType
<1>1. CASE Starts(s)
  <2>1. stage[s] = "none" /\ stage'[s] = "read" /\ cancelled'[s] = cancelled[s]
    BY <1>0, <1>1, StartBroker DEF Starts
  <2>. QED BY <1>0, <2>1 DEF OpenInv, Opened, SameView
<1>2. CASE Cancels(s)
  <2>1. SameRecord(s) /\ subTopic'[s] = subTopic[s] /\ stage[s] = "live" /\ cancelled'[s] = TRUE
    BY <1>0, <1>2, CancelBroker DEF Cancels
  <2>2. BaseOf(s)' = BaseOf(s)
    BY <2>1, RecordStays DEF SameRecord
  <2>. QED BY <2>1, <2>2 DEF Opened, SameView
<1>3. CASE Takes(s)
  <2>1. /\ backfill'[s] = backfill[s] /\ seenTo'[s] = seenTo[s]
        /\ subTopic'[s] = subTopic[s] /\ stage'[s] = stage[s]
    BY <1>0, <1>3, TakeBroker
  <2>2. cancelled' = cancelled
    BY <1>3 DEF Takes, ForwardTake
  <2>3. BaseOf(s)' = BaseOf(s)
    BY <2>1, RecordStays
  <2>. QED BY <2>1, <2>2, <2>3 DEF Opened, SameView
<1>4. CASE Hands(s) \/ Acks(s) \/ Tells(s) \/ Gives(s) \/ Exits(s)
  <2>1. SameRecord(s) /\ subTopic'[s] = subTopic[s] /\ stage'[s] = stage[s]
    BY <1>0, <1>4, RestBroker
  <2>2. cancelled'[s] = cancelled[s]
    BY <1>4 DEF Hands, FwdKept, Acks, Tells, Gives, Exits, ForwardLag, ForwardEvent, ForwardExit
  <2>3. BaseOf(s)' = BaseOf(s)
    BY <2>1, RecordStays DEF SameRecord
  <2>. QED BY <2>1, <2>2, <2>3 DEF Opened, SameView
<1>. QED BY <1>1, <1>2, <1>3, <1>4 DEF Turn

(* A turn leaves every stream and every view alone.                           *)
LEMMA TurnKeepsViews ==
  ASSUME Ready, NEW s \in Subs, OwnTurn(s)
  PROVE  SameStream /\ \A r \in Subs : SameView(r)
<1>1. BaseInv /\ PlacesInv /\ TypeInv /\ Turn(s)
  BY DEF Ready, BaseInv, OwnTurn
<1>2. SameStream /\ \A r \in Subs : ~ ReadBackfill(r)
  BY <1>1, TurnOpensNone
<1>3. ASSUME NEW r \in Subs, r # s PROVE SameView(r)
  BY <1>1, <1>2, <1>3, AsideStep, AsideView
<1>4. SameView(s)
  BY <1>1, TurnView
<1>. QED BY <1>2, <1>3, <1>4

(* An append adds one event to one stream; nothing else of Publish does.      *)
LEMMA PublisherStreams ==
  ASSUME TypeInv, NEW p \in Publishers, PublisherAct(p)
  PROVE  \/ SameStream
         \/ \E t \in Topics : \A u \in Topics :
              Len(events'[u]) = IF u = t THEN Len(events[u]) + 1 ELSE Len(events[u])
<1>1. CASE AppendEvent(p)
  <2>. DEFINE t == cur[p].topic
  <2>1. /\ t \in Topics /\ Len(events'[t]) = Len(events[t]) + 1
        /\ \A u \in Topics : u # t => events'[u] = events[u]
    BY <1>1, AppendFacts
  <2>. QED BY <2>1
<1>2. CASE ~ AppendEvent(p)
  <2>1. UNCHANGED events
    BY <1>2 DEF PublisherAct, PublishCall, Lock, PublishStep, AppendFails, ApplyReducer, SaveState,
                UpsertMeta, StartFanout, VisitSub, FinishPublish, StoreSetState, StoreUpsertMeta, storeVars
  <2>. QED BY <2>1 DEF SameStream
<1>. QED BY <1>1, <1>2

(* No turn: a Publish or a Subscribe moves on by itself.                      *)
LEMMA ElsewherePromise ==
  ASSUME Ready, \A s \in Subs : StretchInv(s)', Elsewhere
  PROVE  Promise!Next \/ UNCHANGED Promise!esVars
<1>0. /\ BaseInv /\ PlacesInv /\ TypeInv /\ BrokerPlain /\ SameVoid
      /\ \A s \in Subs : OutKept(s) /\ Aside(s)
  BY AsideStep DEF Ready, BaseInv, Elsewhere, NothingPosted, SameVoid
<1>1. ASSUME \A r \in Subs : ~ ReadBackfill(r), SameStream
      PROVE  UNCHANGED Promise!esVars
  BY <1>0, <1>1, AsideView, NothingHappens
<1>2. ASSUME \A r \in Subs : stage'[r] = "live" => stage[r] = "live", NEW r \in Subs, ReadBackfill(r)
      PROVE  FALSE
  BY <1>0, <1>2, ReadOpens
<1>3. ASSUME NEW p \in Publishers, PublisherAct(p)
      PROVE  Promise!Next \/ UNCHANGED Promise!esVars
  <2>1. \A r \in Subs : ~ ReadBackfill(r)
    BY <1>2, <1>3, PublisherFrame
  <2>2. CASE SameStream
    BY <1>1, <2>1, <2>2
  <2>3. CASE ~ SameStream
    <3>1. PICK t \in Topics :
            \A u \in Topics : Len(events'[u]) = IF u = t THEN Len(events[u]) + 1 ELSE Len(events[u])
      BY <1>0, <1>3, <2>3, PublisherStreams
    <3>2. \A r \in Subs : SameView(r) /\ OutKept(r)
      BY <1>0, <2>1, AsideView
    <3>. QED BY <1>0, <3>1, <3>2, StreamGrows
  <2>. QED BY <2>2, <2>3
<1>4. ASSUME NEW s \in Subs, ReadBackfill(s) PROVE Promise!Next
  <2>1. /\ stage[s] = "read" /\ stage'[s] = "live" /\ SameStream
        /\ \A r \in Subs : r # s => ~ ReadBackfill(r)
    BY <1>0, <1>4, ReadOpens
  <2>2. /\ subTopic[s] \in Topics /\ Len(events[subTopic[s]]) \in Nat
    BY <1>0, <2>1, DueNow DEF LengthOf
  <2>3. /\ subTopic'[s] = subTopic[s] /\ seenTo'[s] = Len(events[subTopic[s]])
    BY <1>0, <1>4 DEF ReadBackfill, hubVars, TypeInv, BrokerTypeOK
  <2>4. BaseOf(s)' \in Nat /\ BaseOf(s)' + Len(backfill'[s]) = seenTo'[s] /\ Len(backfill'[s]) \in Nat
    <3>1. backfill'[s] \in Seq(Event)
      BY <1>0, <1>4, ReadBackfillType DEF TypeInv, BrokerTypeOK
    <3>. QED BY <3>1, LenProperties DEF StretchInv
  <2>5. BaseOf(s)' \in 0 .. Len(events[subTopic[s]])
    BY <2>2, <2>3, <2>4
  <2>6. ~ Opened(s) /\ Opened(s)'
    BY <2>1 DEF Ready, OpenInv, Opened
  <2>7. \A r \in Subs : OutKept(r) /\ (r # s => SameView(r))
    BY <1>0, <2>1, AsideView
  <2>8. PICK b \in 0 .. Len(events[subTopic[s]]) : BaseOf(s)' = b
    BY <2>5
  <2>. QED BY <1>0, <2>1, <2>2, <2>3, <2>6, <2>7, <2>8, ViewOpens
<1>5. ASSUME NEW s \in Subs, ReadFails(s) \/ FinishClose(s) PROVE UNCHANGED Promise!esVars
  <2>1. /\ UNCHANGED events
        /\ \A r \in Subs : stage'[r] = "live" => stage[r] = "live"
    BY <1>0, <1>5 DEF ReadFails, FinishClose, storeVars, subscribeVars, TypeInv, BrokerTypeOK
  <2>2. \A r \in Subs : ~ ReadBackfill(r)
    BY <1>2, <2>1
  <2>. QED BY <1>1, <2>1, <2>2 DEF SameStream
<1>6. ASSUME UNCHANGED brokerVars PROVE UNCHANGED Promise!esVars
  <2>1. UNCHANGED <<events, stage>>
    BY <1>6 DEF brokerVars, storeVars, subscribeVars
  <2>2. \A r \in Subs : ~ ReadBackfill(r)
    BY <1>2, <2>1
  <2>. QED BY <1>1, <2>1, <2>2 DEF SameStream
<1>. QED BY <1>0, <1>3, <1>4, <1>5, <1>6 DEF BrokerPlain, SubscribeStep

(* Nothing goes to the client ...                                             *)
LEMMA QuietTurn ==
  ASSUME Ready, NEW s \in Subs, OwnTurn(s), NothingPosted
  PROVE  UNCHANGED Promise!esVars
BY TurnKeepsViews, NothingHappens DEF NothingPosted, SameVoid

(* ... or the queue refuses a frame for it ...                                *)
LEMMA RefusedTurn ==
  ASSUME Ready, NEW s \in Subs, OwnTurn(s), Opened(s), subTopic[s] \in Topics,
         Refused(s), \A r \in Subs : r # s => OutKept(r)
  PROVE  Promise!Next
<1>1. \A r \in Subs : GivenTo(r)' = GivenTo(r) /\ ToldTo(r)' = ToldTo(r)
  BY DEF Refused, OutKept
<1>2. lost' = lost \cup {s}
  BY DEF Refused
<1>. QED BY <1>1, <1>2, TurnKeepsViews, GoesVoid

(* ... or it accepts the next event of the backfill ...                       *)
LEMMA HandsPromise ==
  ASSUME Ready, NEW s \in Subs, OwnTurn(s), Opened(s), subTopic[s] \in Topics, Hands(s)
  PROVE  Promise!Next
<1>0. /\ BaseInv /\ WSTypeOK /\ StretchInv(s) /\ GivenInv(s) /\ BackfillIsStretch(s)
      /\ stage[s] = "live" /\ ToldTo(s) \in Nat
  BY ToldType DEF Ready, Hands
<1>. DEFINE n == BaseOf(s) + Handed(s) + 1
<1>1. /\ BaseOf(s) \in Nat /\ Handed(s) \in Nat /\ Len(backfill[s]) \in Nat
      /\ Handed(s) < Len(backfill[s]) /\ fwd[s] = "none" /\ Posted(s, Msg("event", s, n))
  BY <1>0, HandsNext
<1>2. /\ Got(s) \subseteq BaseOf(s) + 1 .. BaseOf(s) + Handed(s)
      /\ s \notin lost => BaseOf(s) + 1 .. BaseOf(s) + Handed(s) \subseteq Got(s)
  BY <1>0, <1>1 DEF GivenInv
<1>3. n \in Nat /\ n \in 1 .. Len(events[subTopic[s]])
  <2>1. backfill[s] # <<>>
    BY <1>1
  <2>2. fence[s] \in Len(backfill[s]) .. Len(events[subTopic[s]]) /\ fence[s] = seenTo[s]
    BY <1>0, <2>1 DEF BackfillIsStretch, StretchInv
  <2>3. Len(events[subTopic[s]]) \in Nat
    BY <1>0, DueNow DEF LengthOf
  <2>4. BaseOf(s) + Len(backfill[s]) = seenTo[s]
    BY <1>0 DEF StretchInv
  <2>. QED BY <1>1, <2>2, <2>3, <2>4
<1>4. CASE Refused(s)
  BY <1>1, <1>4, RefusedTurn DEF Posted
<1>5. CASE Accepted(s, Msg("event", s, n))
  <2>1. /\ GivenTo(s)' = Append(GivenTo(s), n) /\ ToldTo(s)' = ToldTo(s) + 0 /\ lost' = lost
    BY <1>5 DEF Accepted, Msg, Missed
  <2>2. \A r \in Subs : ToldTo(r)' = ToldTo(r) /\ (r # s => GivenTo(r)' = GivenTo(r))
    BY <1>0, <1>1, <2>1 DEF Posted, OutKept
  <2>3. \A m \in Got(s) : m < n
    BY <1>1, <1>2
  <2>4. s \notin lost => Lacks(BaseOf(s), n - 1, Got(s)) <= ToldTo(s)
    <3>1. n - 1 = BaseOf(s) + Handed(s) /\ n - 1 \in Nat
      BY <1>1
    <3>2. s \notin lost => Gaps(BaseOf(s), n - 1, Got(s)) = {}
      BY <1>2, <3>1 DEF Gaps
    <3>3. s \notin lost => Lacks(BaseOf(s), n - 1, Got(s)) = 0
      BY <1>1, <3>1, <3>2, GapsNone DEF Lacks
    <3>. QED BY <1>0, <3>3
  <2>5. SameVoid
    BY <2>1 DEF SameVoid
  <2>. HIDE DEF n
  <2>. QED BY <1>0, <1>3, <2>1, <2>2, <2>3, <2>4, <2>5, TurnKeepsViews, GivesNext
<1>. QED BY <1>1, <1>4, <1>5 DEF Posted

(* ... or the event forward holds: the client lacks no more events before it  *)
(* than it was told of ...                                                    *)
LEMMA HeldIsFirst ==
  ASSUME Ready, NEW s \in Subs, Opened(s), fwd[s] = "deliver", s \notin lost
  PROVE  LET n == held[s].event.seq
         IN  Lacks(BaseOf(s), n - 1, Got(s)) <= ToldTo(s)
<1>. DEFINE n == held[s].event.seq
<1>0. /\ BaseInv /\ WSTypeOK /\ StretchInv(s) /\ GivenInv(s) /\ InOrder(s) /\ HeldInv(s)
      /\ LagInv(s) /\ CountInv(s) /\ Holds(s) /\ fwd[s] # "none"
  BY DEF Ready, Holds
<1>1. /\ n \in InHand(s) /\ n \in Nat /\ n = taken[s] /\ seenTo[s] \in Nat /\ lastLag[s] \in Nat
      /\ InHand(s) = {n}
  BY <1>0, WayType DEF InHand, GivenInv
<1>2. BaseOf(s) \in Nat /\ BaseOf(s) + Handed(s) = seenTo[s]
  BY <1>0 DEF StretchInv, Handed
<1>3. BaseOf(s) + 1 .. seenTo[s] \subseteq Got(s)
  BY <1>0, <1>2 DEF GivenInv
<1>4. Lacks(seenTo[s], n, Reach(s)) <= ToldTo(s)
  BY <1>0 DEF CountInv, LagInv
<1>5. 0 < n
  BY <1>0, <1>1 DEF HeldInv, WSTypeOK, BaseInv, TypeInv, BrokerTypeOK
<1>6. ASSUME NEW x, x \in Gaps(BaseOf(s), n - 1, Got(s)) PROVE x \in Gaps(seenTo[s], n, Reach(s))
  <2>1. x \in BaseOf(s) + 1 .. n - 1 /\ x \notin Got(s)
    BY <1>6 DEF Gaps
  <2>2. x \in Nat /\ x < n /\ BaseOf(s) + 1 <= x
    BY <1>1, <1>2, <2>1
  <2>3. ~ (x <= seenTo[s])
    BY <1>1, <1>2, <1>3, <2>1, <2>2
  <2>4. x \in seenTo[s] + 1 .. n /\ x \notin InHand(s)
    BY <1>1, <2>2, <2>3
  <2>5. x \notin InChan(s)
    <3>1. \A i \in 1 .. Len(chan[s]) : n < chan[s][i].event.seq
      BY <1>0, <1>1 DEF InOrder
    <3>2. \A i \in 1 .. Len(chan[s]) : chan[s][i].event.seq # x
      BY <1>1, <2>2, <3>1
    <3>. QED BY <3>2 DEF InChan
  <2>. QED BY <2>1, <2>4, <2>5 DEF Gaps, Reach
<1>7. n - 1 \in Nat
  BY <1>1, <1>5
<1>8. Lacks(BaseOf(s), n - 1, Got(s)) <= Lacks(seenTo[s], n, Reach(s))
  BY <1>1, <1>2, <1>6, <1>7, GapsFewer DEF Lacks
<1>9. /\ Lacks(BaseOf(s), n - 1, Got(s)) \in Nat /\ Lacks(seenTo[s], n, Reach(s)) \in Nat
      /\ ToldTo(s) \in Nat
  BY <1>0, <1>1, <1>2, <1>7, GapsFinite, ToldType DEF Lacks
<1>. QED BY <1>4, <1>8, <1>9

LEMMA GivesPromise ==
  ASSUME Ready, NEW s \in Subs, OwnTurn(s), Opened(s), subTopic[s] \in Topics, Gives(s)
  PROVE  Promise!Next
<1>. DEFINE n == held[s].event.seq
<1>0. /\ fwd[s] = "deliver" /\ Holds(s) /\ Posted(s, Msg("event", s, n))
      /\ BaseInv /\ WSTypeOK /\ GivenInv(s) /\ HeldInv(s) /\ ToldTo(s) \in Nat
  BY ToldType DEF Ready, Gives, ForwardEvent, Holds
<1>1. n \in Nat /\ \A m \in Got(s) : m < n
  BY <1>0, WayType DEF InHand, GivenInv
<1>2. n \in 1 .. Len(events[subTopic[s]])
  <2>1. fence[s] \in Nat /\ fence[s] < n /\ n <= Len(events[subTopic[s]])
    BY <1>0 DEF HeldInv, BaseInv, TypeInv, BrokerTypeOK
  <2>2. Len(events[subTopic[s]]) \in Nat
    BY <1>0, ChannelType DEF BaseInv
  <2>. QED BY <1>1, <2>1, <2>2
<1>3. CASE Refused(s)
  BY <1>0, <1>3, RefusedTurn DEF Posted
<1>4. CASE Accepted(s, Msg("event", s, n))
  <2>1. /\ GivenTo(s)' = Append(GivenTo(s), n) /\ ToldTo(s)' = ToldTo(s) + 0 /\ lost' = lost
    BY <1>4 DEF Accepted, Msg, Missed
  <2>2. \A r \in Subs : ToldTo(r)' = ToldTo(r) /\ (r # s => GivenTo(r)' = GivenTo(r))
    BY <1>0, <2>1 DEF Posted, OutKept
  <2>3. s \notin lost => Lacks(BaseOf(s), n - 1, Got(s)) <= ToldTo(s)
    BY <1>0, HeldIsFirst
  <2>4. SameVoid
    BY <2>1 DEF SameVoid
  <2>. HIDE DEF n
  <2>. QED BY <1>0, <1>1, <1>2, <2>1, <2>2, <2>3, <2>4, TurnKeepsViews, GivesNext
<1>. QED BY <1>0, <1>3, <1>4 DEF Posted

(* ... or word of what it misses: no more than the stream holds ...           *)
LEMMA TellsPromise ==
  ASSUME Ready, NEW s \in Subs, OwnTurn(s), Opened(s), subTopic[s] \in Topics, Tells(s)
  PROVE  Promise!Next \/ UNCHANGED Promise!esVars
<1>. DEFINE k == lag[s] - lastLag[s]
<1>0. /\ BaseInv /\ WSTypeOK /\ PlacesInv /\ LagInv(s) /\ fwd[s] = "check"
  BY DEF Ready, Tells, ForwardLag
<1>1. CASE NothingPosted
  BY <1>1, QuietTurn
<1>2. CASE lag[s] > lastLag[s] /\ Posted(s, Msg("lagging", s, k))
  <2>1. stage[s] # "none"
    BY <1>0 DEF PlacesInv, PlaceInv
  <2>2. lag[s] \in Nat /\ lastLag[s] \in Nat /\ lag[s] <= Len(events[subTopic[s]])
        /\ Len(events[subTopic[s]]) \in Nat
    <3>1. lag[s] \in Nat /\ lastLag[s] \in Nat
      BY <1>0, WayType
    <3>2. lag[s] <= Due(s) /\ Due(s) \in Nat /\ Due(s) <= LengthOf(s) /\ LengthOf(s) \in Nat
      BY <1>0, <2>1, DueNow DEF LagInv
    <3>3. lag[s] <= LengthOf(s)
      BY <3>1, <3>2
    <3>. QED BY <3>1, <3>2, <3>3 DEF LengthOf
  <2>3. k \in Nat /\ k \in 1 .. Len(events[subTopic[s]])
    BY <1>2, <2>2
  <2>4. CASE Refused(s)
    BY <1>2, <2>4, RefusedTurn DEF Posted
  <2>5. CASE Accepted(s, Msg("lagging", s, k))
    <3>1. /\ GivenTo(s)' = GivenTo(s) /\ ToldTo(s)' = ToldTo(s) + k /\ lost' = lost
      BY <2>5 DEF Accepted, Msg, Missed
    <3>2. \A r \in Subs : GivenTo(r)' = GivenTo(r) /\ (r # s => ToldTo(r)' = ToldTo(r))
      BY <1>2, <3>1 DEF Posted, OutKept
    <3>3. SameVoid
      BY <3>1 DEF SameVoid
    <3>. HIDE DEF k
    <3>. QED BY <2>3, <3>1, <3>2, <3>3, TurnKeepsViews, TellsSome
  <2>. QED BY <1>2, <2>4, <2>5 DEF Posted
<1>. QED BY <1>1, <1>2 DEF Tells

(* ... or the ack, which promises nothing.                                    *)
LEMMA AcksPromise ==
  ASSUME Ready, NEW s \in Subs, OwnTurn(s), Opened(s), subTopic[s] \in Topics, Acks(s)
  PROVE  Promise!Next \/ UNCHANGED Promise!esVars
<1>0. Posted(s, Msg("ack", s, fence[s])) /\ ToldTo(s) \in Nat
  BY ToldType DEF Acks, Ready
<1>1. CASE Refused(s)
  BY <1>0, <1>1, RefusedTurn DEF Posted
<1>2. CASE Accepted(s, Msg("ack", s, fence[s]))
  <2>1. /\ Got(s)' = Got(s) /\ GivenTo(s)' = GivenTo(s)
        /\ ToldTo(s)' = ToldTo(s) + 0 /\ lost' = lost
    BY <1>2 DEF Accepted, Msg, Missed
  <2>2. NothingPosted
    BY <1>0, <2>1 DEF Posted, OutKept, NothingPosted
  <2>. QED BY <2>2, QuietTurn
<1>. QED BY <1>0, <1>1, <1>2 DEF Posted

LEMMA TurnPromise ==
  ASSUME Ready, NEW s \in Subs, OwnTurn(s)
  PROVE  Promise!Next \/ UNCHANGED Promise!esVars
<1>1. CASE Starts(s) \/ Cancels(s) \/ Takes(s) \/ Exits(s)
  BY <1>1, QuietTurn DEF Starts, Cancels, Takes, Exits
<1>2. CASE Hands(s) \/ Acks(s) \/ Tells(s) \/ Gives(s)
  <2>1. Opened(s) /\ stage[s] # "none"
    BY <1>2 DEF Ready, Hands, Acks, Tells, Gives, ForwardLag, ForwardEvent,
                OpenInv, PlacesInv, PlaceInv, Opened
  <2>2. subTopic[s] \in Topics
    BY <2>1, DueNow DEF Ready
  <2>. QED BY <1>2, <2>1, <2>2, HandsPromise, AcksPromise, TellsPromise, GivesPromise
<1>. QED BY <1>1, <1>2 DEF OwnTurn, Turn

LEMMA PromiseStep == StreamInv /\ StreamInv' /\ [WSNext]_vars => [Promise!Next]_(Promise!esVars)
<1>. SUFFICES ASSUME StreamInv, StreamInv', [WSNext]_vars
              PROVE  Promise!Next \/ UNCHANGED Promise!esVars
  OBVIOUS
<1>1. WSAct /\ Ready
  BY NextIsWSAct, InvIsReady
<1>2. Elsewhere \/ \E s \in Subs : OwnTurn(s)
  BY <1>1, StepCases
<1>3. \A s \in Subs : StretchInv(s)'
  BY DEF StreamInv
<1>. QED BY <1>1, <1>2, <1>3, ElsewherePromise, TurnPromise

(* Whatever a connection, its forwarders, Publish and Unsubscribe do, the     *)
(* client of a subscription gets a strictly increasing part of its stream,    *)
(* from the first backfilled event on, and before each event it has been told *)
(* of at least as many events as it lacks before it, as long as no frame for  *)
(* it met a full queue (ws.go:182-235, docs/architecture.md "drop-and-mark"). *)
THEOREM SessionsKeepPromise == WSSpec => ImplementsEventStream
<1>. QED BY PromiseInit, PromiseStep, StreamInvariant, PTL DEF WSSpec, ImplementsEventStream, Promise!Spec

================================================================================
