# TLA+ models of event_watch

event_watch is a Go server that ingests events for named topics, keeps each
topic's stream, derives a "current shape" from it with a reducer, and fans events
out to live subscribers over WebSocket and long poll. This directory models the
parts of it where the order of concurrent steps or of faults decides the outcome:
ingest and fan-out, the subscription hub, the WebSocket session, long poll, the topic
archiver, webhooks over the Redis store, the Go client with its reconnects, and the
reducers.

Paths below are relative to the repository root. `go` names in `code font` are
the names the definitions keep.

## 1. Inventory

| Component | State | Operations | Module |
|---|---|---|---|
| core types (`internal/core`) | none | `Event`, `From`, topics | `Core` |
| hub (`internal/hub/hub.go`) | topic -> set of `Subscription`; per subscription a channel, a drop counter, a closed flag, a done channel | `Subscribe`, `Publish`, `Close`, `remove` | `Hub`, `MCHub`, `HubProofs` |
| memory store (`internal/store/memory/store.go`) | per topic: events, state, meta | `Append`, `Read`, `Latest`, `GetState`, `SetState`, `UpsertMeta`, `DeleteTopic`, ... | `MemoryStore` |
| broker (`internal/broker/broker.go`) | the ingest mutex; the hub and the store | `Publish`, `Subscribe`, `Unsubscribe` | `Broker`, `MCBroker`, `BrokerProofs` |
| WebSocket transport (`internal/transport/ws.go`) | per connection: the map of subscriptions, the outgoing queue, the pumps; per subscription a forwarder | `subscribe`, `unsubscribe`, `get_state`, `publish`, `ping`; forward; teardown | `WSSession`, `EventStream`, `MCWSSession`, `WSProofs` |
| archiver (`internal/archiver/archiver.go`) | the ticker, one sweep at a time | `Run`, `sweep` | `Archiver`, `MCArchiver`, `PollArchiverProofs` |
| reducer registry and reducers (`internal/computed`, `internal/objtypes`) | prefix -> reducer | `Apply` of `pr`, `build`, `job`, `deploy`, `chat`, `str`, `int`, `time` | as a free reducer in `Broker`; each one in `Reducers`, `MCReducers`, `ReducersProofs` |
| redis store (`internal/store/redis/store.go`) | per topic the keys `ew:stream`, `ew:state`, `ew:meta`, `ew:seq`, and the set `ew:topics` | as the memory store; `Append` is an INCR and a transaction | `RedisStore`, under `RedisIngest` |
| long poll (`internal/transport/poll.go`) | one request: its subscriptions, their forwarders, the channel `merged` | fetch, subscribe, forward, collect, answer, unsubscribe | `Poll`, `MCPoll`, `PollArchiverProofs` |
| publish and webhook handlers (`internal/transport/publish.go`, `internal/webhook`) | one request | validate, transform, a loop of `Broker.Publish` | `GitHub`, `RedisIngest`, `MCRedisIngest`, `RedisProofs` |
| field handlers (`internal/transport/field.go`) | one request | one event per route | `Reducers` |
| admin handlers (`internal/transport/admin.go`) | none | read the store and the metrics | no: they change no state |
| metrics (`internal/metrics`) | counters and gauges | increments | no: nothing reads them back |
| Go client (`client/`) | connection, callbacks, pending requests, send queue | `Dial`, `Subscribe`, `Publish`, `GetState`, `Close`, reconnect, resubscribe; typed fields | `GoClient`, `MCGoClient`, `GoClientProofs`; the fields in `Reducers` |
| other clients (`clients/`, `wails-client/`, `web/`) | user interface state | as the Go client | no: other languages, same protocol |
| start-up and shutdown (`internal/server`, `cmd/`) | the wiring | `Run` | no: straight-line wiring |
| authentication (`internal/auth`) | none | checks a token | no: no state |
| deployment (`deploy/`) | none | | no: configuration |

### How they interact

    handlers, ws readers --Publish--> Broker --Append/GetState/SetState/UpsertMeta--> Store
                                        |                                              ^  ^
                                        +--Publish--> Hub --chan (256)--> forward      |  |
                                                                            |          |  |
    ws client <--writePump-- out (512) <--send-- forward, handleSubscribe --+--Read/Latest|
                                                                                          |
                                              Archiver --ListTopics/GetMeta/DeleteTopic---+

* `Broker.Publish` holds one mutex (`ingest`) from before `Store.Append` until the
  fan-out has visited the last subscriber. Every caller, of any topic, queues for it.
* `Broker.Subscribe` takes no lock of the broker: it registers with the hub, then
  reads the backfill from the store. The last seq of the backfill, the fence, tells
  the subscriber which live events it has already got.
* `Hub.Publish` copies the registry's entry under a read lock and visits the copy
  without it: subscriptions may close, and close completely, in between.
* A WebSocket connection is a reader goroutine (`readPump`, which runs the handlers,
  `Broker.Publish` included), a writer goroutine and one `forward` goroutine per
  subscription. They meet in the queue `out`; `send` drops when it is full.
* The Go client mirrors the session: `run` dials, queues a subscribe frame per topic and
  starts a reader and a writer; callers queue frames for the writer through `sendCh`.
* The archiver talks to the store only. It takes no lock of the broker.
* A webhook is turned into any number of events, which its handler publishes one after
  the other until one fails; `Broker.Publish` holds the ingest lock for one of them.
* Over Redis a `Publish` is five commands. The process may go away between any two of
  them, and the keys stay.
* A poll is a fetch, then subscriptions from latest, one forwarder for each into one
  channel, and an answer. It keeps nothing: the client carries `last_seq` from one poll
  to the next.

### What is hard, and what makes it right

| Component | Hard behaviour | Right when |
|---|---|---|
| hub | unlocked visits against a three-step `Close`; a full channel; consumers that never read | the registry holds exactly the subscriptions not yet removed; every offer ends once, in the channel, in the counter or nowhere after a close; `Publish` always returns; nothing arrives after the last `Publish` that overlapped with the close |
| broker | publishers against each other, against subscriptions and against failing store calls | the saved state is the fold of the whole stream; a frame carries the state right after its own event; live events come in stream order; backfill and live events leave no hole and overlap only up to the fence; `Publish` always returns |
| WebSocket | check-then-act on the subscription map; the ack between backfill and live events; drops in two queues; teardown seen separately by three goroutines | the client sees each stream in order, without duplicates, and hears of what the hub dropped before it sees anything later; what an old subscription still sends can be told from the new one; the map is exact; a broken connection leaves nothing behind |
| archiver | check in one store call, deletion in another, publishers in between | aged topics go, topics that are not aged stay, and the state never outlives or predates its stream |
| reducers | counters that must not go below zero, capped lists, overlapping steps, overflow, times that cannot be printed, a snapshot that goes through JSON between two events | the snapshot is what the stream as a whole says |
| redis store | commands that fail or whose reply is lost, a crash between two of them, an expiry in between | seqs increase, a seq that was returned leads back to its event, the keys of a topic come and go together, the state is the fold unless one of its own steps went wrong |
| webhooks | several events of which one fails; providers that repeat | what is acknowledged is stored; what a failed attempt stores is a prefix; no attempt stores an event twice |
| long poll | fetch, then subscribe, without a fence; several topics under one `last_seq`; timers; forwarders that outlive their reader | an event is missed only for the reasons `SkipsAccounted` lists; responses are in order; every poll ends and leaves nothing behind |
| Go client | reconnect with frames queued before the writer runs, callbacks removed and added concurrently, requests pending on a dead connection | each live callback ends up subscribed, resumes where it left off, and the table of requests is exact |

`PROJECT.json` lists the hazards one by one with the line where each bites and
the properties that cover it.

## 2. Modules

Each operation of the code is one action, or one action per step where the code
lets something else happen in between (a lock is released, another lock is taken,
a channel operation is reached). Steps inside one critical section are one action.
Every definition that stands for code is mapped to its lines in `PROJECT.json`.

* **Core**: `Event`, `From`, `None`. An event has an `id`, its `topic`, `seq`, the
  stamp `at` (used by the archiver), and `ok`, whether the reducer of its topic
  accepts it. A type and a payload are otherwise of no consequence to any property.
* **Hub**: `HubSubscribe`; `CloseSwap`, `CloseRemove`, `CloseDone` for the three
  steps of `Subscription.Close`; `Snapshot`, then for each visited subscription
  `SkipClosed` or `LoadOpen`, and after `LoadOpen` one of `Send`, `SeeDone`, `Drop`,
  then `PublishReturn`, for `Hub.Publish`. When the send and `<-done` are both ready
  Go picks either, and so does the model. A map is iterated in any order; so is the
  snapshot. The actions take the message as an argument, so that `Broker` and
  `MCHub` share them. `MCHub` adds publishers that hold no common lock, the worst
  environment the hub's API allows, and the history variable `owed`.
* **MemoryStore**: operators that update or read `known`, `events`, `state`, `ttl`.
  All methods hold the store's mutex throughout, so each is used inside one action.
* **Broker**: `PublishCall`, `Lock`, `AppendEvent` / `AppendFails`, `ApplyReducer`,
  `SaveState`, `UpsertMeta`, `StartFanout`, `VisitSub`, `FinishPublish`, in the order
  of the lines of `Publish`; `SubscribeHub`, `ReadBackfill` / `ReadFails`,
  `Unsubscribe`, `FinishClose` for the subscriber; `Consume` for whoever owns the
  channel. `StoreErrors` says which store calls may fail. What `Publish` does with an
  error is as in the code: `Append` returns it, the others are discarded.
* **WSSession**: extends `Broker`. `RefuseSubscribe`, `BeginSubscribe`,
  `SubscribeError`, `SendBackfill`, `FinishSubscribe` are `handleSubscribe`;
  `RecvUnsubscribe`, `CancelSub`, `FinishUnsubscribe` are `handleUnsubscribe`;
  `BeginPublish`, `EndPublish` are `handlePublish`; `Answer` is `get_state`, `ping`
  and the unknown op; `ReadError`, `CancelSub`, `HandlerReturn` are the deferred part
  of the handler; `ForwardTake`, `ForwardLag`, `ForwardEvent`, `ForwardExit` are
  `forward`; `Write`, `WriterExit` are `writePump`; `Enqueue` is `send`. `Break` is
  a fault: the connection is lost and nobody knows yet. `WriteTimeout` is another: the
  writer gives up and cancels the context while the reader still serves the client,
  until its own deadline passes because no ping went out.
* **EventStream**: the abstract specification, a dozen lines of state: what the
  server promises an observer of a stream. `WSSession` implements it through the
  mapping in its `Promise` instance, which maps `given` to the sequence of the event frames
  of a subscription: an event sent twice is a step that `EventStream` does not have.
* **Archiver**: extends `Broker` with a clock, `SweepStart` (`ListTopics` and
  `time.Now()`), `SweepCheck` (`GetMeta` and the comparison) and `SweepDelete`.
* **Poll**: extends `Broker`. `PollCall`, `Fetch` / `FetchFails`, `Join` and `Joined`
  (one `Broker.Subscribe` after the other), `Collect`, `Deadline`, `Respond`, `Leave`
  and `LeaveStep` (the deferred `Unsubscribe`s), `PollReturn` are the handler;
  `ForwardTake`, `ForwardPass`, `ForwardExit` a forwarder. The client asks again from
  `last_seq + 1`, and `Respond` may be lost on its way to it.
* **RedisStore**: the keys, and one operator per command or transaction.
* **GitHub**: `Transform` and the four functions behind it, on the fields of a payload
  that decide which events come out.
* **RedisIngest**: extends the two. `Deliver` is a handler up to its loop; `Lock`,
  `AppendIncr`, `AppendXadd`, `GetState`, `SaveState`, `SaveMeta` are `Broker.Publish`
  command by command and the loop around it; `SweepCheck`, `SweepDelete` are the
  archiver; `Crash` is the loss of the process with the handlers, the lock and the
  sweep in it. Each command is replied to, fails, or is executed and its reply lost.
* **GoClient**: `Backoff`, `Dial`, `MakeFrames`, `QueueFrame`, `StartPumps`,
  `Disconnect`, `Drained`, `RunEnds` are `run` with `resubscribeAll`; `WriteFrame`,
  `WriteFails`, `WriterSeesDone` are `writer`; `DispatchEvent`, `DispatchStale`,
  `DispatchReply`, `ReadFails` are `reader` and `dispatch`; `Subscribe`, `CloseHandle`,
  `BeginRequest`, `Send`, `TakeResponse` or `GiveUp`, `CloseClient` are the API, each caller
  in two steps where the code releases the mutex before it queues its frame. `Serve` is what
  the handlers of `ws.go` make of a frame, with one position per topic and connection: a
  second subscribe and one whose backfill cannot be read (`RefuseSubscribe`) are answered
  with an error that the client ignores; an unsubscribe leaves what was passed on already in
  flight (`stale`). `DropEvent` and `DropReply` are a full channel of the hub or a full `out`
  on the server; whether they are full is a choice, `Hub` and `WSSession` have the channels
  themselves. `LoseLink` and `WriteTimeout` are the faults.
* **Reducers**: one function per reducer (`PRApply`, `BuildApply`, ...), with the helpers
  they share, and a machine that feeds a topic of one object type any stream of the
  events in `Inputs`. `Publish` there is the reduce-and-save part of `Broker.Publish`,
  which the ingest lock makes one step. Each `...Snapshot` property is a reference: it
  reads the answer off the positions of events in the stream, without replaying it. A
  counter clamped at zero, for instance, is the largest surplus of any final stretch of
  the stream (`Balance`). `FieldRequests` is what the field handlers make of a body,
  `StringField`, `IntField`, `TimeField` what the typed fields of the Go client publish,
  and `FieldGet` what their `Get` makes of the state; the routes are also sent to topics
  of another field type, which no handler prevents.

### Abstractions

* **Free reducer.** The state of a topic is the sequence of the events its reducer
  accepted. Every deterministic reducer's state is a function of this sequence, and
  if two sequences differ some reducer tells them apart; so the model's state is the
  finest one, and "the state is a function of the stream" becomes "the sequence is
  exactly the accepted part of the stream" (`FoldOf`). An event with `ok = FALSE` is
  one its reducer rejects with an error, upon which the state is not saved and either
  the old state (a snapshot that does not parse) or none (a result that does not
  marshal) is fanned out. `<<>>` is the nil state. Of the reducers of the repository
  only `time` rejects events, and it returns none (`TimeSnapshot`).
* **Numbers and payloads in `Reducers`.** int64 and `time.Duration` have `Bits` bits and
  wrap; a JSON number passes through a float64 with `Mantissa` bits (`Float`), rounded half
  to even among numbers whose distance doubles at each power of two (`Spacing`). Numbers
  stay within the range in which float64 to int64 is defined. A time is a number of
  nanoseconds from the zero time, the begin of the year 1, in UTC; json.Marshal prints those
  from `MinTime`, the begin of the year 0, to `MaxTime`. A payload key that is
  missing, mistyped or unparsable is simply absent, as it is to the code. A step is not
  reported finished with the status "running".
* **Topics and types.** Only valid topics occur; a topic either has a reducer
  (`Reduced`) or not. Validation happens before the lock and changes nothing.
* **The queue `out`** is kept as the history `sent` of accepted frames with a
  counter `written`: what the client will have received is a prefix of `sent`.
  The `by` of a frame, the subscription it was made for, is not on the wire; it lets
  properties speak of one subscription. `Enqueue` never blocks, as `send` does not.
* **Time** occurs only in the archiver. Pings are invisible: a pong changes nothing
  but a deadline, and a deadline that passes is a failing read.
* **Redis.** Commands are atomic, and so is a MULTI/EXEC pipeline. The state is the
  sequence of the events it was reduced from, as in `Broker`. The client library is
  external: it repeats an INCR whose reply was lost, which then counts twice (or gives
  up and returns the error), and does not repeat a transaction once it was written. Any
  time may pass between two steps, so a sweep may find any listed topic aged.
  Subscribers are left to `Broker`.
* **Webhooks.** A topic is the number of a pull request of one repository. Signatures
  and the decoding of bodies only refuse requests. Event ids are new in every attempt.
* **Long poll.** A timer may fire at any moment; the batch window is open as long as the
  model likes. A request that hangs up is a deadline with a lost response. A fetch has
  no limit, as in the code.
* **Mutants.** A definition commented as a mutant is a small mistake in the definition
  below it (a guard dropped, a lock not released, an off-by-one); it is used by no
  specification. `PROJECT.json` pairs each property with a mutant that breaks it.

## 3. Runs

All passing runs are exhaustive. "Symmetry" is used for safety only.

| Run | Question | Instance |
|---|---|---|
| `hub` | Is the hub right under publishers without a common lock? `RegistryExact`, `OffersConserved`, `QuietAfterClose`, and, under weak fairness of publishers alone, `PublishNeverBlocks` | 2 publishers, 2 subscriptions of one topic, channels of 1, 3 calls |
| `broker` | Do concurrent publishers keep state, frames and live order right, and does a subscription see everything, when `Append`, `UpsertMeta` and `Read` may fail? `StateIsFold`, `FramesCarryOwnState`, `LiveInOrder`, `NothingMissed`, `FenceSeparates` | 2 publishers, a topic with a reducer and one without, 3 events, 1 subscription from latest, last:1 or seq 2, channel of 1 |
| `ws_stream` | Does a subscription over WebSocket keep the promise of `EventStream`, and does each event arrive? `ImplementsEventStream`, `EventuallyDelivered` | 1 subscription, 5 events, channel of 1, queue of 2 |
| `ws_requests` | Do requests in any order keep the map and the subscriptions in step, and the frames of two subscriptions apart? `AckIsFence`, `StaleAreDuplicates`, `MapIsExact` | every op, 3 requests, 2 subscriptions of one topic, 2 events, failing `Append`, `SetState` and `Read` |
| `ws_cleanup` | Does a broken connection leave nothing behind? `BrokenConnsCleanUp` | 2 topics, 2 subscriptions, a break or a write timeout at any moment |
| `archiver` | Is expiry harmless except in the known race, does it happen, and do publishers get on although appends fail? `StateIsFoldUnlessRaced`, `PublishReturns`, `FreshLostOnlyByRace`, `AgedTopicsExpire` | 2 topics, 2 publishers, 2 events, instants 1 to 4, TTLs 1 and 2, failing `Append` |
| `redis_ingest` | What do the keys say after faults, crashes, expiries and repeated deliveries? `AcceptedIsStored`, `PrefixStored`, `SeqsIncrease`, `ReturnedSeqLeadsBack`, `KeysTogether`, `StateIsFoldUnlessHit` | 2 handlers, 8 kinds of delivery, 3 attempts, 1 fault or crash, 1 expiry, 2 topics |
| `poll` | What can a polling client miss, in which order does it get the rest, and does every poll end cleanly? `SkipsAccounted`, `ResponsesInOrder`, `PollsEnd` | one topic twice or two topics once, 2 events, channels of 1, failing reads, lost responses |
| `client` | Does the client, called by one goroutine, keep its subscriptions, its place in the stream and its requests across lost connections and a server that drops and refuses, and does `Close` end its goroutines? `CallbacksServed`, `ResumesExactly`, `PendingExact`, `Recovers`, `CloseEnds` | 2 calls, 3 events, 1 fault, 1 drop or refusal, `Close` at any moment, a queue of 6 |
| `reducers` | Does each reducer fold any stream into what it says as a whole? `PRSnapshot`, `BuildSnapshot`, `JobSnapshot`, `DeploySnapshot`, `ChatSnapshot`, `FieldSnapshot`, `TimeSnapshot` | 5 to 15 kinds of event per object type, streams of 4 or 5, caps of 2, 6-bit integers, stamps out of order; it stops when the stream is full, so deadlock is not checked |
| `poll_gap`, `client_stalls` | counterexamples to sentences of the documentation, see section 6 | |

### Bounds

* `MaxEvents`, `MaxCalls`: 2 to 5 calls of `Publish`. Two are in flight at once in
  every run with two publishers; a third event is what a publisher adds after both
  orders of the first two are history. `ws_stream` needs five: two in the channel and
  in the forwarder, one to be dropped, one more to be announced and delivered, and one
  for the backfill.
* `Buf` (256 in the code) and `OutBuf` (512) are 1 or 2: a full queue, an empty
  queue and the transitions between them are all reached within the bound on events.
  No code depends on the size except through full and empty.
* `SendBuf` of the client (256) is 6 where it must never fill up, which two calls cannot
  do, and 1 where it must.
* `MaxCalls` 2 of the client: subscribe, close, subscribe; or a subscription and a
  request. Closing a handle is not counted. `MaxFaults` is 1: a lost connection or a missed
  write deadline. `MaxDrops` is 1: an event or a response that a full channel of the server
  drops, or a backfill that cannot be read. Three events are one seen, one dropped and one
  after it.
* `Bits` 6, `Mantissa` 3: float64 numbers are 1, 2, 4 and 8 apart within the width, so
  that roundings of every kind occur; `MinTime` lies below the zero time by more than a
  second, as the year 0 does.
* `MaxTries` 3 of the providers: two deliveries at once and a repetition, or a delivery
  before and one after a fault. `MaxFaults` 1 is a failed command, a lost reply or a
  crash at any point; the properties were also checked with 2 faults (9.5 million states)
  and with 2 attempts, 2 faults and 2 expiries. `MaxSweeps` 1 deletes a topic before,
  under and after a `Publish` of it, and lets its stream start again.
* `MaxAsked` 2: two polls of one topic, the second resuming, or one of two topics. `Buf`
  and `MergedCap` 1 with two events fill the channel, the forwarder or `merged`. With
  `Buf` 2, as in `poll_gap`, the hub drops nothing.
* `MaxRequests`: subscribe, unsubscribe, subscribe again, or any three of the others.
* `MaxClock` 4 with TTL 1: an event can age, a sweep can start, pause and continue.
* A subscription identity is used once, as a `*Subscription` is.
* `lastn` 1 or 2 and `seq` 1 or 2 put the start of a backfill before, inside and
  after the stream; 0 behaves as no limit in the memory store.

### Fairness

* A goroutine that can run is run: weak fairness of `PublishStep`, `SubscribeStep`,
  `ReaderStep`, `WriterStep`, `Forward`, `SweepStep`, and in `Poll` of `HandlerStep` and
  `ForwardStep`. Go schedules every runnable
  goroutine, and none of these steps waits for a person or the network except where
  its guard says so.
* `Lock` is strongly fair: `sync.Mutex` passes the lock to a waiter that has waited
  over a millisecond, so a publisher cannot be overtaken for ever.
* A read of a dead connection fails after `pongWait`, a write after `writeWait`; the
  reader's and the writer's exits are part of their fair steps. The timers of a poll
  fire; its publishers owe nothing, so `PollsEnd` does not depend on events.
* `ArchSpec` schedules the archiver and, as in `Broker`, the publishers: neither waits
  for the other.
* `RedisIngest` has safety properties only and states no fairness.
* In `GoClient` a dial succeeds sooner or later; without that nothing recovers. The context
  of a request need not end (`GiveUp` is not fair), since callers pass
  `context.Background()` (cmd/testclient/main.go:126, 214, 282): nothing is claimed about a
  request that waits for its response, see section 6.
* Clients, callers of `Publish`, the clock and the consumer of a bare subscription owe
  nothing: they may stop at any time. `PublishNeverBlocks` holds although nobody need
  read a channel; `PublishReturns` is about the ingest lock alone, for its run has no
  subscription.
* Deadlock is not checked where the system may stop: all bounded calls are made and
  nobody has anything to do.

## 4. Proofs

Eight modules hold the proofs; one of them, `Recursion`, has the two lemmas about loops
over a list that the others share. Every theorem is about arbitrary sets of topics,
publishers, subscriptions, connections, callers or handlers, arbitrary capacities and
arbitrary bounds; the corresponding run shows the same property on a small instance.

| Module | Theorem | Property |
|---|---|---|
| `BrokerProofs` | `TypeCorrect`, `LockExcludes` | types; at most one publisher between `Lock` and the deferred `Unlock`, early returns included |
| | `StateFollowsStream` | `StateIsFold` (1) |
| | `BrokerRegistryExact` | `RegistryExact`, under the broker |
| | `DeliveryInOrder`, `DeliveryComplete`, `FenceIsExact` | `LiveInOrder`, `NothingMissed`, `FenceSeparates` |
| | `DeliveryCarriesState` | `FramesCarryOwnState` (1) |
| `HubProofs` | `HubRegistryExact`, `HubQuietAfterClose` | `RegistryExact`, `QuietAfterClose`, for publishers without a common lock |
| | `HubConservesOffers` | `OffersConserved` (2) |
| `RedisProofs` | `RedisKeysTogether`, `RedisSeqsIncrease`, `RedisStateFollows` | `KeysTogether`, `SeqsIncrease`, `StateIsFoldUnlessHit` |
| | `RedisAcceptedIsStored`, `RedisPrefixStored` | `AcceptedIsStored`, `PrefixStored` |
| | `RedisSeqLeadsBack` | `ReturnedSeqLeadsBack`, its `Read` included |
| `WSProofs` | `MapHoldsTheLive`, `AckSplitsFrames`, `LateFramesRepeat` | `MapIsExact`, `AckIsFence`, `StaleAreDuplicates` |
| | `SessionsKeepPromise` | `ImplementsEventStream`: `WSSpec` implements `EventStream` for every subscription |
| `GoClientProofs` | `RequestsAreKept`, `NoGapButDrops` | `PendingExact`, `ResumesExactly`, for any number of callers |
| | `TopicsAreServed` | `CallbacksServed` (4) |
| `PollArchiverProofs` | `PollSkipsAccounted`, `PollResponsesInOrder` | `SkipsAccounted`, `ResponsesInOrder`, for any number of clients and lists of topics |
| | `ExpiryKeepsState` | `StateIsFoldUnlessRaced` (1) |
| | `ExpirySparesFresh` | `FreshLostOnlyByRace` (3) |
| `ReducersProofs` | `DeploysAreTold`, `JobsAreTold` | `DeploySnapshot`, `JobSnapshot`, for any stream and any log cap |
| | `FieldsAreTold`, `TimesAreTold` | `FieldSnapshot`, `TimeSnapshot`, for any width and any times |
| | `PullRequestsAreTold`, `ChatsAreTold` | `PRSnapshot`, `ChatSnapshot`, for any stream and any cap |
| | `BuildsAreTold` | `BuildSnapshot` (5) |

Hypotheses of a theorem, where it has any:

1. `GetState` and `SetState` do not fail; `Append`, `UpsertMeta` and `Read` may. It is
   necessary: with `StoreErrors = {"getstate"}` TLC refutes `StateIsFold`, since `Publish`
   takes any error of `GetState` for "no state yet" (broker.go:64) and the result
   overwrites the saved state. The memory store never returns such an error; the redis
   store can, and `StateIsFoldUnlessHit` says which topics it leaves wrong.
2. The set of publishers is finite: the offers still to be made are counted.
3. `DefaultTTL <= ArchiverTTL`. `archiver.New` sets its own to 168 h, which is also the
   default of `-default-ttl` (config.go:41); a longer `-default-ttl` breaks it.
4. There is one caller. It is necessary: section 6.
5. No `step_finished` gives "running" as its status (`EndsAsTold`); the statuses are
   success, failed and skipped (build.go:12, docs/cheatsheet.md:130). It is necessary: the
   code takes any status (build.go:102-105), and with such an input TLC refutes
   `BuildSnapshot`, since the entry stays open and a second end closes it again.

The other assumptions are the named `ASSUME`s of the modules, which each run evaluates.
Those that are not about the kind of a constant: `None` is not a member of the sets it
is joined to (`NoneAssumption`, `NoneIsFree`, `NoneIsNoCall`, `NoneIsNoEvent`, and
`NilAssumption`, for the states of typed fields); the connections are among
the publishers (`ConnsAssumption`); a poll names at least one
topic (`TopicListsAssumption`, poll.go:24-27); a webhook names no pull request twice
(`DistinctTopics`), and lists its pull requests by number (`PayloadsAssumption`). That the
loop of `numbered` keeps exactly those other than 0, in order, is proved (`NumberedKeeps`).
In `Reducers`, half the width is half of it, powers of two are positive and a float64 has
more than one bit (`WidthAssumption`); events occur after the zero time and before the year
9999, and the first printable time is at or before the zero time (`ClockAssumption`); a
value, if there is one, has the type its event asks for, a time parses and can be printed,
and the float64 of every value, delta and number of seconds is an int64
(`InputsAssumption`: other values count as absent, and Go leaves the conversion of larger
numbers to the processor).

### The arguments

**Broker.** `StateIsFold` is not inductive. While a publisher is between append and save,
what it will save depends on its local copies; so one must know that they are those of
the last event of the stream, and that nobody else is there:

    TypeInv  == BrokerTypeOK /\ LockHeld /\ SeqIsPosition
    TopicInv(t) == WorksOnLast(t) /\ NextIsFold(t) /\ the fold of t

`LockHeld` ties the program counters, the current events and the hub's jobs to the holder
of `ingest`; `SeqIsPosition` says that the seq of an event is its index; `WorksOnLast`
says the holder's event is the last one of its stream, because only the holder appends;
`NextIsFold` says that what it is about to save is one application of the reducer to the
saved state, or will not be saved. The arithmetic of one more event is in `FoldExtend`.
All of this is about `BrokerAct`, the disjunction of the broker's actions whoever takes
them, and topic by topic, so that the archiver and the session reuse it: an action of
theirs is one of the broker's, or leaves the broker alone, or (`SweepDelete`) puts one
topic back to the start.

**Delivery.** The invariant of a subscription is `OrderInv`: what is in its channel, or
was taken from it, are events of its topic's stream in increasing order; an event some
publisher has yet to offer it is later than all of those (`PendingIsLater`: the lock, held
until the fan-out is over, is what makes this inductive); its backfill is the stretch of
the stream that ends at the fence; and every event since its registration is in the
backfill, received, in the channel, counted as dropped, or about to be offered.
`FenceSeparates` and `NothingMissed` follow from it. `FramesCarryOwnState` needs
`NextIsFold` for the moment at which the frame is made.

**Hub.** Without a lock, `RegistryExact` needs that a snapshot lists nobody twice and lists
nobody who has not been born. `OffersConserved` counts: each step of a visit moves one
offer from "listed or targeted", a cardinality, to the channel or the counter.
`QuietAfterClose` is an action property: once a close is complete and no visit refers to
the subscription, no snapshot can pick it up again.

**Archiver.** Between `SweepCheck` and `SweepDelete` the chosen topic stays aged unless it
has grown (`VictimInv`: an event's stamp is never earlier than the sweep's `now`), which
is `FreshLostOnlyByRace`. Topics that no deletion has hit inside a `Publish` keep
`TopicInv` (`UnracedInv`).

**Redis.** `KeysInv`, `SeqInv` and `FoldInv` say of one topic what holds before, between
and after the commands of the handler that has the lock, as long as no deletion, fault or
crash has come between: for `SeqInv`, that the number a handler got from INCR is above the
whole stream until its transaction. `AcceptedIsStored` and `PrefixStored` follow a request
through its loop: the events before the one in `Publish` have been entered, those after it
have not (`ProgressInv`, `AheadInv`), and no two attempts share a number (`FreshInv`).
`ReturnedSeqLeadsBack` has two halves: the entry of the event is the first of its stream at
or above the seq that `Publish` returned (`ReturnedIsFirst`, from `SeqInv`), and the loop
of `Read`, asked for one event, returns the first such entry (`ReadFindsFirst`).

**Session.** `PlacesInv` says where a live subscription can be: in the hands of
`handleSubscribe`, in the map, or among those being closed. `FrameInv` and `HeldInv` say
what of it may have been written: events up to the fence before its forwarder starts, and
above the fence from then on. For two subscriptions of a topic, `RivalInv` and
`Overtaken` say that an older one is done, and that all that is still on its way through
it, in its channel, its forwarder or a publisher's hands, was in the stream when the new
one read its backfill (`Spent`).

The refinement of `EventStream` reads the observer off the frames: the list of what it was
given (`Lists`, whose members are the set `Got` that the invariants speak of), and the sum
of what it was told (`Totals`). `StretchInv` says that the backfill is a consecutive stretch
from the origin to `seenTo`, `GivenInv` that what was given is the part of the backfill
already handed over, then live events that were taken from the channel, `LagInv` that the
forwarder's `lastLag` is what the client was told, and no more than the hub has counted.
The one obligation that is more than bookkeeping is that of a live event: the observer
must have been told of at least as many missed events as it lacks before it. `CountInv`
counts them: every event between the last one given and the next is one that the hub
dropped, so their number is at most the drop counter, which `forward` reports before it
sends. `AppendEvent` maps to `Ingest`, `ReadBackfill` to `Observe`, a frame to `Give`, a
`lagging` frame to `Tell`, a frame that `send` refuses to `Overflow`, and everything else
is a stutter.

**Go client.** The three theorems have invariants of their own over a common type
invariant. `RequestInv`: identifiers are unique among those who wait. `ServedInv`:
whenever the connection is healthy the last frame of a topic that has callbacks, in the
queue, in a caller's hand or at the server, subscribes. `ResumeInv`: a topic that is not
entangled has at most one frame on its way, which asks for what follows the last event
handed to callbacks, and none once the server is sending; then the server's position is
that of the next event, once those it dropped are passed (`dropped`), and nothing of an
older subscription is in flight.

**Long poll.** `PollBase` says where the events in the hands of a request come from:
those in `out` and `merged`, one line in which the step from one to the other changes
nothing, are events of its topics, and the event a forwarder holds is the last one taken
from its subscription. `SkipsAccounted` is then about a chain: a poll that goes on to
wait has fetched all below `fromSeq` (`FetchedAll`); whatever is appended after that falls
into the gap or reaches the subscription (`LaterReach`, which rests on `ReachStep`, the
broker's promise that an event stays with a subscription it has reached); what is taken
from a subscription is in the line or in the forwarder's hand (`TakenOn`); so no event in
the line skips one before it (`LineSkips`), and an answer, which moves `fromSeq` past
its largest seq, skips only for the three reasons. The first four hold although answers
are lost and reads fail, because they speak of one request. `ResponsesInOrder` has an
invariant of its own: if a request names no topic twice, no two of its subscriptions are
to one topic, nothing in the line belongs to a topic still to be fetched, and what the
line holds of a topic is behind its subscription (`OrderedLine`); a client of one topic has nothing below `fromSeq - 1` in
line, hand or channel (`AloneInv`). That a `maxSeq` exists at all, since `Max` is a
`CHOOSE`, follows from the well-foundedness of `<` on the naturals.

**Reducers.** A snapshot's property speaks of sets of positions in the stream: those of
some types, the newest of them, those after it. One lemma each says what one more event
does to such a set (`OfStep`, `WithStep`, `NewestAdd`, `AfterAdd`, `CountAdd`), one per
field what it does to the quantity the property is about (`HealthStep`, `VersionStep`,
`LogsStep`, `MovesStep`, ...), and one what the reducer does to the field (`DeployFields`,
`JobFields`, ...); the invariant says that the two agree. It must say more than the
snapshot does where the property forgets: that current and previous version swap with
the parity of the rollbacks that named none; that an integer is base plus moves plus some
multiple of the width, with both inside the integers; that a time can be marshalled, so
that only an addition can be refused. The topic's events are inputs (`EventsInv`).

Some fields are not a sum or a newest event. `Pending` never goes below zero, so it is the
largest surplus of any final stretch: `IsBalance` says of a number that it bounds every
surplus and is one, `BalanceStep` that a start adds one to it and an end takes one away
unless it is 0, and `BalanceIs` that such a number is the `Balance` of the property. Labels,
reviewers and participants are `Listed`: a name is in the list iff it was added after its
last removal, and the list is ordered by the oldest such addition; `ListAdd` and
`ListRemove` follow that through `addUnique` and `removeString`, whose loop of copies is
`WithoutIs`. The messages of a chat are an enumeration, upwards, of the posts that are
`Shown` (`RecentIs`): neither deleted since nor pushed out, which depends on how many later
posts stood at any moment in between (`LaterStep`, `ShownStep`); that its index is the rank
of the property is `RankIs`. The steps of a build pair ends with starts by rank: for each
name, the balance of starts and ends is the number of open entries (`OpenIs`), those are
the ones whose rank among the starts is not below the number of ends that closed one
(`StepOf`), so the first that runs, which `EndStep` looks for, is the one whose rank is that
number (`StepsEnd`, `Ranks`). When the end comes, how long the step lasted is known from
the newest start and the newest end (`Times`), and no later event changes it (`LastsStep`).

### Model-checked only

* Liveness: `PublishNeverBlocks`, `PublishReturns`, `EventuallyDelivered`,
  `BrokenConnsCleanUp`, `AgedTopicsExpire`, `PollsEnd`, `Recovers`, `CloseEnds`. Fairness
  and ENABLED are beyond the provers.

Induction over a list is within reach for a loop written as a recursive function: a set of
positions takes the place of the predicate (`Induction`, `LoopExists` of `Recursion`). That
is how `Read`, `numbered`, the forwarder's sums and `Total` are reasoned about.

## 5. What is not modelled

* Metrics: counters and gauges that no code reads back. The drop counter of the hub,
  which `forward` reads, is part of `Hub`. Two are inexact by construction: the fan-out
  metric asks for the number of subscribers after the fan-out (broker.go:82), and the gauge
  of subscriptions is decremented by every call of `Unsubscribe` (broker.go:117).
* Admin handlers: read-outs of the store and the metrics.
* Methods of the stores nobody calls or only the admin handlers call: `Expire` has no
  caller outside tests; `ListTopics` and `GetMeta` occur as far as the archiver uses them.
* Panics, out-of-memory, and shutdown of the server over the memory store, which loses
  everything with the process: there is no recovery to get right. Over Redis a shutdown
  in the middle of a request is the `Crash` of `RedisIngest`.
* Server start-up: straight-line wiring of the components.
* Contents: JSON, topic grammar, validation, tokens, HTTP status codes, logging.
* The other clients: they speak the same protocol in other languages. The desktop app
  (wails-client/eventwatch-desktop/app.go) wraps the Go client; its map of handles is
  checked and filled in two critical sections (84-108), and overlapping `Connect`s are
  not excluded.

A consequence of `Archiver` worth knowing although no property states it: a topic
deleted under a `Publish` is re-created by the `SetState` or `UpsertMeta` that
follows, without an event and hence with a zero `LastEventAt`, which `sweep` takes
for "no events yet" and never deletes until an event arrives.

## 6. Findings

* **`poll_gap`** (poll.go:45, 67): a poll fetches, then subscribes from latest. An event
  appended in between is in neither; when a later one ends the wait, `last_seq` is beyond
  it and a client that resumes from `last_seq + 1` never gets it. The comment at
  poll.go:78-79 says "no event is ever silently dropped".
* **`client_stalls`** (client.go:178): `run` queues the resubscriptions before it starts
  the writer. When what is left in `sendCh` from the outage and the topics together
  exceed its capacity, `send` blocks and the client never recovers.

Weaknesses the models state openly, without a run of their own. In delivery:

* `forward` compares the drop counter only after it has received an event above the fence
  (ws.go:225-234). If the hub drops the last event before a topic falls silent, no
  `lagging` frame is sent until the next event, if ever; docs/wire-protocol.md:135 says
  that the server sends one when events were dropped.
* After an unsubscribe and a new subscribe of the same topic, a frame the old forwarder
  held may follow the new ack (`StaleAreDuplicates`). Its seq tells, unless the new
  backfill was empty.
* The client's frames are queued after its mutex is released (client.go:347-349,
  381-383). One goroutine closes the last handle of a topic while another subscribes to
  it; the new subscribe is refused as a duplicate, then the unsubscribe arrives, and the
  callback is not served until the next reconnect. `GoClient` with two `Callers` and no
  fault violates `CallbacksServed`; the run `client` has one caller.
* A subscribe whose backfill the server cannot read is answered with an error frame without
  a request id (ws.go:193-196), which `dispatch` ignores (client.go:268-269): `Subscribe`
  has returned without an error and the callback is not served until the next reconnect.
  `CallbacksServed` and `Recovers` except it (`refused`).
* client.go:4-5 says of a reconnect that "callers see no gap". Across the reconnect there is
  none; but an event that a full channel of the server drops (hub.go:116-120,
  ws.go:108-115) is skipped, and `dispatch` ignores the `lagging` frame that tells of it
  (client.go:288-289). `ResumesExactly` holds up to exactly those events (`dropped`).
* `request` is not released by a lost connection nor by `Close` (client.go:313-321): one
  whose response is lost waits as long as its context lasts.
* One `last_seq` stands for several topics with numberings of their own, so a poll of
  several topics that resumes from it skips events of the slower ones (poll.go:122, the
  last clause of `SkipsAccounted`). A poll may send an event again whose `Publish` was
  between append and fan-out when it was fetched (`ResponsesInOrder`).

In storage and ingest:

* Over Redis, an error of the transaction whose reply was lost is reported although the
  event is stored; the provider's repetition stores it under a new id (`PrefixStored`
  speaks of one attempt). An event stored by a failed or crashed `Publish` is missing from
  the state for good (`StateIsFoldUnlessHit`).
* A topic deleted between the INCR and the transaction of a `Publish` goes on with a seq
  above what `ew:seq` says, and later events repeat numbers (`SeqsIncrease`, `raced`). A
  state or meta written after the deletion stays without a topic (`KeysTogether`). A
  `Publish` that fails after its first INCR leaves an `ew:seq` key of a topic that is
  never listed, hence never expired.
* A webhook whose second event fails is answered 400 after the first was published, and is
  repeated as a whole (publish.go:78-85).
* An issue comment without a number becomes an event of pull request 0
  (`issueCommentEvent`), and of the check runs only completed ones are mapped, so the
  pending count of a pull request never rises through GitHub.
* A typed field that was never set makes `Get` return an error, since `get_state` answers a
  topic without a state with an error frame (ws.go:261-266); client/field.go:30-31 says
  "exists=false is not an error - it just means the field has never been set".
  `FieldGet.err` is what the code does, and no property states it as right.
  `TimeField.Add` drops fractions of a second. `NewFieldStringSetHandler` is not routed.

In the archiver, the reducers and the session:

* An event appended after the sweep's `GetMeta` and before its `DeleteTopic`
  (archiver.go:48-57) is deleted, though its publisher was told it was stored.
  `FreshLostOnlyByRace` allows exactly this and shows there is no other way to lose a
  fresh topic; `StateIsFoldUnlessRaced` shows that, apart from a deletion inside a
  `Publish`, the state goes with its stream.
* pr.go:75-77 says of `pr_sync` that "A new push resets pending checks"; the code leaves
  `Pending` alone, which no later event sets right: the end of a check of the old push takes
  away a pending one of the new. `PRSnapshot` describes what the code counts.
* A `time_add` that leaves the years 0 to 9999 cannot be marshalled: the reducer returns
  nil, the event stays in the stream but not in the state, and its live frame carries no
  state (`TimeSnapshot`, `FramesCarryOwnState`). A `time_add` of more than 292 years wraps
  (field.go:140) and is accepted with another sum, though docs/cheatsheet.md:189 says
  "value += N seconds"; `TimeSnapshot` gives it up to the width of a Duration only.
  Integers above 2^53 are rounded on their way through JSON (`Float`).
* A step started twice under one name gets its duration from the latest start, and its
  second end none (`BuildSnapshot`, build.go:95-117).
* When `out` is full, `send` (ws.go:108-115) drops frames of any kind and tells nobody.
  `EventStream` calls such an observer `void` and promises it order only.
* The fence of an empty backfill is 0 (ws.go:225), so a subscription from a seq beyond the
  stream is sent every live event below it; docs/wire-protocol.md:69 says "exactly `seq`
  (inclusive)".
* `ResumesExactly` exempts topics that were subscribed while older traffic of theirs
  remained (`entangled`): a frame queued before the connection was lost may be served
  before the one that resumes, and events of an old subscription may reach the callbacks
  of a new one. A topic that has seen no event resumes from its original origin.

## 7. Plan

Built: `Core`, `Hub`, `MemoryStore`, `Broker`, `EventStream`, `WSSession`, `Archiver`,
`Poll`, `RedisStore`, `GitHub`, `RedisIngest`, `GoClient`, `Reducers`, and the proofs of
`Broker`, `Hub`, `RedisIngest`, `WSSession`, `GoClient`, `Poll`, `Archiver` and
`Reducers`. Every component with state that the program's own behaviour depends on has a
module; what is left out, and why, is in section 5. Every invariant, every action property
and the refinement that the passing runs check are theorems; liveness stays with TLC.
