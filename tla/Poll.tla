---------------------------------- MODULE Poll ---------------------------------
(******************************************************************************)
(* GET /poll, internal/transport/poll.go, over the broker, and a client that  *)
(* polls in a loop.                                                           *)
(*                                                                            *)
(* A poll reads its topics one by one.  If that yields nothing and the client *)
(* is willing to wait, it subscribes to the topics from latest, starts one    *)
(* forwarder per subscription into the channel merged, takes the first event  *)
(* and whatever follows within the batch window, answers, and unsubscribes.   *)
(* Timers may fire at any moment.  The client resumes from last_seq + 1, the  *)
(* rule of docs/wire-protocol.md:155-158, if the response reaches it.         *)
(******************************************************************************)
EXTENDS Broker, SequencesExt

CONSTANTS
  Pollers,    \* clients, each with one request at a time
  TopicLists, \* lists of topic= parameters
  MergedCap,  \* capacity of merged, 128 in the code
  MaxAsked    \* bound on the topic= parameters of all requests together

(* A request without a topic is refused (poll.go:24-27).                      *)
ASSUME TopicListsAssumption == TopicLists \subseteq Seq(Topics) \ {<<>>}
ASSUME NoneIsNoEvent == None \notin Event

VARIABLES
  topicsOf,   \* the topic= parameters of a client, the same in all its requests
  at,         \* where the handler of a client's request is
  waits,      \* the request has max_wait_ms > 0
  unread,     \* topics the handler has yet to fetch or to subscribe to
  subs,       \* subs of the handler
  merged,     \* the channel the forwarders feed
  out,        \* out.Events
  expired,    \* waitCtx is done: deadline or cancel
  fwd,        \* the forwarder of a subscription: none, run or exit
  held,       \* the event it has received and not yet passed on
  asked,      \* topic= parameters so far
  fromSeq,    \* client: the from_seq of its next request
  got,        \* history: events the client has received
  fetched,    \* history: length of a topic's stream when it was fetched
  gap         \* history: seqs appended between fetch and subscription

requestVars == <<at, waits, unread, subs, merged, out, expired>>
forwardVars == <<fwd, held>>
clientVars == <<topicsOf, asked, fromSeq, got, fetched, gap>>
pollVars == <<brokerVars, requestVars, forwardVars, clientVars>>

PollInit ==
  /\ BrokerInit
  /\ topicsOf \in [Pollers -> TopicLists]
  /\ at = [q \in Pollers |-> "idle"]
  /\ waits = [q \in Pollers |-> FALSE]
  /\ unread = [q \in Pollers |-> <<>>]
  /\ subs = [q \in Pollers |-> {}]
  /\ merged = [q \in Pollers |-> <<>>]
  /\ out = [q \in Pollers |-> <<>>]
  /\ expired = [q \in Pollers |-> FALSE]
  /\ fwd = [s \in Subs |-> "none"]
  /\ held = [s \in Subs |-> None]
  /\ asked = 0
  /\ fromSeq = [q \in Pollers |-> 1]
  /\ got = [q \in Pollers |-> {}]
  /\ fetched = [q \in Pollers |-> [t \in Topics |-> 0]]
  /\ gap = [q \in Pollers |-> [t \in Topics |-> {}]]

--------------------------------------------------------------------------------
(* The request: an empty response, all topics still to be fetched.            *)
PollCall(q) ==
  /\ at[q] = "idle"
  /\ asked + Len(topicsOf[q]) <= MaxAsked
  /\ asked' = asked + Len(topicsOf[q])
  /\ \E w \in BOOLEAN : waits' = [waits EXCEPT ![q] = w]
  /\ unread' = [unread EXCEPT ![q] = topicsOf[q]]
  /\ at' = [at EXCEPT ![q] = "fetch"]
  /\ UNCHANGED <<brokerVars, subs, merged, out, expired, forwardVars, topicsOf, fromSeq, got, fetched, gap>>

(* The handler returns and its locals go.  A forwarder that is still running  *)
(* finds waitCtx done, and what it puts into merged is not seen by anybody.   *)
End(q) ==
  /\ at' = [at EXCEPT ![q] = "idle"]
  /\ waits' = [waits EXCEPT ![q] = FALSE]
  /\ unread' = [unread EXCEPT ![q] = <<>>]
  /\ subs' = [subs EXCEPT ![q] = {}]
  /\ merged' = [merged EXCEPT ![q] = <<>>]
  /\ out' = [out EXCEPT ![q] = <<>>]
  /\ expired' = [expired EXCEPT ![q] = FALSE]
  /\ fetched' = [fetched EXCEPT ![q] = [t \in Topics |-> 0]]
  /\ UNCHANGED <<brokerVars, forwardVars, topicsOf, asked, fromSeq, got, gap>>

(* Mutant: from_seq is not looked at.                                         *)
ReadFrom_Start(q, t) == Read(t, 1)

ReadFrom(q, t) == Read(t, fromSeq[q])

(* Broker.Events of one topic; after the last one the handler answers if it   *)
(* has something or may not wait.                                             *)
Fetch(q) ==
  LET t == Head(unread[q])
  IN  /\ at[q] = "fetch"
      /\ out' = [out EXCEPT ![q] = @ \o ReadFrom(q, t)]
      /\ fetched' = [fetched EXCEPT ![q][t] = Len(events[t])]
      /\ IF Len(unread[q]) > 1
         THEN unread' = [unread EXCEPT ![q] = Tail(@)] /\ UNCHANGED at
         ELSE IF out'[q] # <<>> \/ ~ waits[q]
         THEN at' = [at EXCEPT ![q] = "respond"] /\ unread' = [unread EXCEPT ![q] = <<>>]
         ELSE at' = [at EXCEPT ![q] = "subscribe"] /\ unread' = [unread EXCEPT ![q] = topicsOf[q]]
      /\ UNCHANGED <<brokerVars, waits, subs, merged, expired, forwardVars, topicsOf, asked, fromSeq, got, gap>>

(* A failing read ends the request with status 400; the client learns nothing.*)
FetchFails(q) ==
  /\ at[q] = "fetch"
  /\ "read" \in StoreErrors
  /\ End(q)

(* Broker.Subscribe(core.Latest()) of one topic: Hub.Subscribe ...            *)
Join(q, s) ==
  LET t == Head(unread[q])
  IN  /\ at[q] = "subscribe"
      /\ unread[q] # <<>>
      /\ \A r \in subs[q] : stage[r] = "live"
      /\ s = CHOOSE r \in Subs : phase[r] = "new"
      /\ SubscribeHub(s, t, [kind |-> "latest", value |-> 0])
      /\ subs' = [subs EXCEPT ![q] = @ \cup {s}]
      /\ unread' = [unread EXCEPT ![q] = Tail(@)]
      /\ gap' = [gap EXCEPT ![q][t] = @ \cup (fetched[q][t] + 1 .. Len(events[t]))]
      /\ UNCHANGED <<at, waits, merged, out, expired, forwardVars, topicsOf, asked, fromSeq, got, fetched>>

(* ... and its return, without a backfill.  After the last one the forwarders *)
(* start and the handler waits.                                               *)
Joined(q, s) ==
  /\ s \in subs[q]
  /\ ReadBackfill(s)
  /\ IF unread[q] = <<>>
     THEN /\ fwd' = [r \in Subs |-> IF r \in subs[q] THEN "run" ELSE fwd[r]]
          /\ at' = [at EXCEPT ![q] = "wait"]
     ELSE UNCHANGED <<fwd, at>>
  /\ UNCHANGED <<waits, unread, subs, merged, out, expired, held, clientVars>>

--------------------------------------------------------------------------------
(* A forwarder receives from its subscription, passes on to merged unless it  *)
(* is full, and leaves at either point once waitCtx is done.                  *)
ForwardTake(s) ==
  /\ fwd[s] = "run"
  /\ held[s] = None
  /\ Take(s)
  /\ held' = [held EXCEPT ![s] = Head(chan[s]).event]
  /\ UNCHANGED <<requestVars, fwd, clientVars>>

ForwardPass(q, s) ==
  /\ fwd[s] = "run"
  /\ s \in subs[q]
  /\ held[s] # None
  /\ Len(merged[q]) < MergedCap
  /\ merged' = [merged EXCEPT ![q] = Append(@, held[s])]
  /\ held' = [held EXCEPT ![s] = None]
  /\ UNCHANGED <<brokerVars, at, waits, unread, subs, out, expired, fwd, clientVars>>

(* waitCtx of the poll of s: done for good once the poll is over.             *)
WaitDone(s) == \A q \in Pollers : s \in subs[q] => expired[q]

(* Mutant: the inner select does not watch waitCtx.                           *)
ForwardExit_Blocks(s) ==
  /\ fwd[s] = "run"
  /\ WaitDone(s)
  /\ held[s] = None
  /\ fwd' = [fwd EXCEPT ![s] = "exit"]
  /\ UNCHANGED <<brokerVars, requestVars, held, clientVars>>

ForwardExit(s) ==
  /\ fwd[s] = "run"
  /\ WaitDone(s)
  /\ fwd' = [fwd EXCEPT ![s] = "exit"]
  /\ held' = [held EXCEPT ![s] = None]
  /\ UNCHANGED <<brokerVars, requestVars, clientVars>>

--------------------------------------------------------------------------------
(* The first event ends the wait and opens the batch window.                  *)
Collect(q) ==
  /\ at[q] \in {"wait", "batch"}
  /\ merged[q] # <<>>
  /\ out' = [out EXCEPT ![q] = Append(@, Head(merged[q]))]
  /\ merged' = [merged EXCEPT ![q] = Tail(@)]
  /\ at' = [at EXCEPT ![q] = "batch"]
  /\ UNCHANGED <<brokerVars, waits, unread, subs, expired, forwardVars, clientVars>>

(* The timer of waitCtx, or the client hanging up.                            *)
Deadline(q) ==
  /\ at[q] \in {"wait", "batch"}
  /\ ~ expired[q]
  /\ expired' = [expired EXCEPT ![q] = TRUE]
  /\ UNCHANGED <<brokerVars, at, waits, unread, subs, merged, out, forwardVars, clientVars>>

(* What ends the wait: the deadline, or the end of the batch window.          *)
Ready(q) ==
  \/ at[q] = "respond" \/ at[q] = "batch"
  \/ at[q] = "wait" /\ expired[q]

(* Mutant: one more than the largest seq.                                     *)
maxSeq_Next(es) == Max({0} \cup {e.seq : e \in ToSet(es)}) + 1

maxSeq(es) == Max({0} \cup {e.seq : e \in ToSet(es)})

(* The response is written; it reaches the client or not.  Then cancel().     *)
Respond(q) ==
  /\ Ready(q)
  /\ \/ /\ out[q] # <<>>
        /\ got' = [got EXCEPT ![q] = @ \cup ToSet(out[q])]
        /\ fromSeq' = [fromSeq EXCEPT ![q] = maxSeq(out[q]) + 1]
     \/ UNCHANGED <<got, fromSeq>>
  /\ expired' = [expired EXCEPT ![q] = TRUE]
  /\ at' = [at EXCEPT ![q] = "close"]
  /\ UNCHANGED <<brokerVars, waits, unread, subs, merged, out, forwardVars, topicsOf, asked, fetched, gap>>

(* The deferred Unsubscribe of each subscription, one after the other ...     *)
Leave(q, s) ==
  /\ at[q] = "close"
  /\ s \in subs[q]
  /\ \A r \in subs[q] : phase[r] \in {"open", "done"}
  /\ Unsubscribe(s)
  /\ UNCHANGED <<requestVars, forwardVars, clientVars>>

LeaveStep(q, s) ==
  /\ s \in subs[q]
  /\ FinishClose(s)
  /\ UNCHANGED <<requestVars, forwardVars, clientVars>>

(* ... and the handler returns.                                               *)
PollReturn(q) ==
  /\ at[q] = "close"
  /\ \A s \in subs[q] : phase[s] = "done"
  /\ End(q)

HandlerStep(q) ==
  \/ Fetch(q) \/ FetchFails(q)
  \/ Collect(q) \/ Deadline(q) \/ Respond(q) \/ PollReturn(q)
  \/ \E s \in Subs : Join(q, s) \/ Joined(q, s) \/ Leave(q, s) \/ LeaveStep(q, s)

ForwardStep(s) == ForwardTake(s) \/ (\E q \in Pollers : ForwardPass(q, s)) \/ ForwardExit(s)

PollNext ==
  \/ \E p \in Publishers :
       /\ \/ \E t \in Topics : PublishCall(p, t, TRUE, 0)
          \/ Lock(p)
          \/ PublishStep(p)
       /\ UNCHANGED <<requestVars, forwardVars, clientVars>>
  \/ \E q \in Pollers : PollCall(q) \/ HandlerStep(q)
  \/ \E s \in Subs : ForwardStep(s)

(* Goroutines that can run do, and timers fire.                               *)
PollFairness ==
  /\ \A q \in Pollers : WF_pollVars(HandlerStep(q))
  /\ \A s \in Subs : WF_pollVars(ForwardStep(s))

PollSpec == PollInit /\ [][PollNext]_pollVars /\ PollFairness

--------------------------------------------------------------------------------
(* Properties                                                                 *)

Alone(q) == Len(topicsOf[q]) = 1

(* Events of a topic the client has not received and will not ask for again.  *)
Skipped(q, t) ==
  {n \in 1 .. fromSeq[q] - 1 : n <= Len(events[t]) /\ events[t][n] \notin got[q]}

Dropped == \E s \in Subs : lag[s] > 0

(* A client that resumes from last_seq + 1 skips an event only if it was      *)
(* appended between the fetch and the subscription of one poll, dropped by    *)
(* the hub, or numbered no higher than something the client received from     *)
(* another topic.  What is left in a channel, in a forwarder or in merged     *)
(* when a poll ends, or in a response that is lost, is fetched by a later     *)
(* poll (poll.go:82-121).                                                     *)
SkipsAccounted ==
  ~ Dropped =>
    \A q \in Pollers : \A t \in ToSet(topicsOf[q]) : \A n \in Skipped(q, t) :
      n \in gap[q][t] \/ \E e \in got[q] : e.topic # t /\ e.seq >= n

(* "No event is ever silently dropped" (poll.go:78-79): a client of one topic *)
(* that resumes from last_seq + 1 skips none while the hub drops none.        *)
NeverSkips ==
  ~ Dropped => \A q \in Pollers : Alone(q) => Skipped(q, topicsOf[q][1]) = {}

(* The forwarders of several topics and the fetches before them keep each     *)
(* topic in order and free of duplicates within a response, unless a topic is *)
(* asked for twice, which is then fetched and subscribed to twice.  A client  *)
(* of one topic is never sent anything older than the last event it has       *)
(* received, and that one again only if its Publish was between append and    *)
(* fan-out when it was fetched; so last_seq never moves back (poll.go:44-121).*)
ResponsesInOrder ==
  \A q \in Pollers : at[q] \notin {"idle", "close"} =>
    /\ IsInjective(topicsOf[q]) =>
         \A i, j \in DOMAIN out[q] :
           i < j /\ out[q][i].topic = out[q][j].topic => out[q][i].seq < out[q][j].seq
    /\ Alone(q) => \A i \in DOMAIN out[q] : \A e \in got[q] : out[q][i].seq >= e.seq

(* Every poll returns, whatever the publishers do, and leaves behind neither  *)
(* a registration in the hub nor a forwarder, however full merged is          *)
(* (poll.go:58-123).                                                          *)
PollsEnd ==
  /\ \A q \in Pollers : at[q] # "idle" ~> at[q] = "idle"
  /\ \A s \in Subs : phase[s] # "new" ~> phase[s] = "done" /\ fwd[s] = "exit"

================================================================================
