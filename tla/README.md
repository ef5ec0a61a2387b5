# A TLA+ development for `digital.vasic.messaging`

The repository is a Go library: a `MessageBroker` interface with an in-memory
implementation, connection and subscription bookkeeping for Kafka and RabbitMQ
adapters, and utilities on top of the interface (asynchronous and synchronous
producers, consumer groups, retries, a dead letter queue, batching).  Almost
all of its state is touched by several goroutines, guarded by a mixture of
mutexes, atomics and channels, and that is what these modules are about.

## Inventory

| part | source | state | operations | what makes it correct |
|---|---|---|---|---|
| `InMemoryBroker` | `pkg/broker/inmemory.go` | `connected`, `stopCh`, `queues`, `subscribers` under `b.mu`; the `active` flag of a handle under `s.mu` | Connect, Close, Publish (a goroutine per active subscriber), PublishBatch, Subscribe, Unsubscribe(topic), handle.Unsubscribe | delivered at most once, to exactly the live subscribers; nothing starts after an Unsubscribe has returned; a batch is published as a prefix, in order |
| `AsyncProducer` | `pkg/producer/producer.go` | `running`, `msgCh`, `errCh`, `stopCh`, a WaitGroup, counters | Start, the send loop and its drain, Send, Errors, Stop | what Send accepted is published once, in order; Stop drains and returns |
| `SyncProducer` | `pkg/producer/producer.go` | counters, the compressor; changes the caller's message | SetCompressor, Send, SendValue | the counters agree with the broker; a value can be decoded by its header |
| `ConsumerGroup` | `pkg/consumer/consumer.go` | `handlers`, `subscriptions` under `cg.mu`; `running` | Add, Start with cleanup, Stop | a running group holds one live subscription per topic, a stopped one none |
| `RetryPolicy`, `WithRetry` | `pkg/consumer/consumer.go`, `pkg/broker/errors.go` | none beyond a call | the retry loop, Delay, ShouldRetry | the number of calls stays within the budget, and the backoffs grow up to the cap |
| `DeadLetterHandler` | `pkg/consumer/consumer.go` | `onFailure`, `count` | SetOnFailure, Handle, Count | a failed message is on the DLQ, and counted |
| `BatchConsumer` | `pkg/consumer/consumer.go` | `buffer` under `bc.mu`; `flushCh`, `stopCh`, `running` | Add, Flush, Start and its goroutine, Stop | the batches are the stream, each message handled once, a full buffer always gets flushed |
| Kafka `Consumer` | `pkg/kafka/kafka.go` | `connected`, `closed`, `subscriptions` under `c.mu`, `active` per subscription | Connect, Close, Subscribe, Unsubscribe, subscription.Unsubscribe | cancelled exactly once; Close cancels everything and is final |
| RabbitMQ `Consumer` | `pkg/rabbitmq/rabbitmq.go` | the same, and a channel per subscription | the same | the channel is closed exactly once |
| Kafka and RabbitMQ `Producer` | same files | `connected`, `closed`, `publishFn` | Connect, Close, SetPublishFunc, Publish | a Publish called after Close reaches no client; a replaced client is not called again |
| errors, compressors | `pkg/broker/errors.go`, `pkg/producer/producer.go` | plain data | the outermost BrokerError of a chain; Compress, Decompress | as part of `WithRetry` and `SyncProducer` |
| configuration, options, metrics, i18n, serializers, challenge runner | `pkg/*`, `challenges/` | plain data | lookups and formatting | |

How they interact: the producers and the consumer group call the broker; the
broker starts goroutines that call handlers; handlers are built from `WithRetry`,
`DeadLetterHandler.Handle` (which publishes to the broker again) and
`BatchConsumer.AsHandler`; the context of a Send reaches the handler through the
broker.  What is hard here: check-then-act on an atomic before a lock is taken,
channels that are made once and closed by every Stop or Close, goroutines that
outlive the call that started them, a wake-up sent after an unlock, and a
context that ends while somebody else still uses it.  `PROJECT.json` lists each
such hazard with its line and the properties that watch it, or why none does.

## Modules

| module | models | composed with |
|---|---|---|
| `PubSub` | the abstract contract of a broker: what is published is owed to the subscriptions live at that moment, and handled once | |
| `InMemoryBroker` | `inmemory.go` | refines `PubSub` |
| `InMemoryBrokerProofs` | theorems about `InMemoryBroker`, and the refinement of `PubSub` | extends it |
| `ConsumerGroup` | `ConsumerGroup` | extends `InMemoryBroker` |
| `AsyncProducer` | `AsyncProducer` | any broker: Publish succeeds or fails |
| `SyncProducer` | `SyncProducer` and the compressors, over a broker that is up or down | |
| `RetryDeadLetter` | `WithRetry` and `DeadLetterHandler` in the composition of `docs/USER_GUIDE.md`, "Combining Retry + Dead Letter" | extends `SyncProducer` |
| `BatchConsumer` | `BatchConsumer` | |
| `Pipeline` | the composition of `docs/USER_GUIDE.md`, "Batch Processing": `SyncProducer`, the broker's goroutines, and `BatchConsumer` behind `AsHandler` | extends `SyncProducer`, instantiates `BatchConsumer` |
| `AdapterConsumer` | the Kafka `Consumer` | |
| `RabbitConsumer` | the RabbitMQ `Consumer` | extends `AdapterConsumer` |
| `AdapterProducer` | the Kafka and the RabbitMQ `Producer`, which are the same code, with the injected client | |
| `AdapterProducerProofs`, `AsyncProducerProofs`, `BatchConsumerProofs`, `RetryDeadLetterProofs` | theorems about the module they are named after | extend it |
| `ConsumerGroupProofs` | theorems about `ConsumerGroup` | extends it and `InMemoryBrokerProofs` |
| `PipelineProofs` | theorems about `Pipeline` | extends it, instantiates `BatchConsumerProofs` |
| `AdapterConsumerProofs` | theorems about `AdapterConsumer` and `RabbitConsumer` | extends `RabbitConsumer` |
| `MC...` | the instances for TLC: model values, policies, errors and compressors, and the symmetry set of `MCBatchConsumer` | extend the module they are named after |

Conventions.

* An action is what the code does without letting another goroutine see an
  intermediate state: one critical section, one atomic operation or one channel
  operation.  Where a section takes a second lock (`inMemorySub.Unsubscribe`
  takes `b.mu` under `s.mu`, `ConsumerGroup` takes both under `cg.mu`) it is
  split there.
* A call that returns early without changing anything is no action.
* A variable marked *history* records what happened for the properties and is
  never read by a guard, except that `used` makes every message fresh.
* A definition marked *Mutant* is a plausible bug, used to confirm that the
  property named in `PROJECT.json` would notice it.  No specification uses one.
* Messages, topics, subscriptions and callers are uninterpreted.  Keys, wording
  and all headers but `content-encoding` are left out.  A value is known by the
  layers of compression around it, an error by the links of its chain.
* A panic (closing a closed channel, reusing a WaitGroup) ends the process:
  `panicked` disables every action.

State by state:

* `InMemoryBroker`: `connected`, `stopClosed`, `queues`, `subscribers` are the
  fields of the broker; `subTopic`, `subActive`, `subMu` those of the handles;
  `inflight` holds the goroutines of Publish; `batch` the PublishBatch calls in
  progress.  `Publish` is `PublishLocked` after the connected check, and
  `PublishBatchStep` is one iteration of the batch loop around it.
* `AsyncProducer`: `loopPc` follows a Start call and the goroutine it starts,
  `sendPc` a Send call, `stopPc` a Stop call.  A select with several ready cases
  is a choice of actions; a non-blocking send is one action with two outcomes.
  `StopReturn` contains the panic of `sync.WaitGroup` when it is reused before
  Wait has returned.  The counter is incremented in the step of the Publish it
  counts (`Published`): nothing reads it in between, and no property is stated of it.
* `BatchConsumer`: `pc` follows the goroutine, Stop calls and Flush calls of
  users; the three share `FlushTake` and `HandlerReturn`.
* `ConsumerGroup`: `pc`, `todo` and `mu` follow callers through Start and Stop;
  broker steps of others interleave.  `overlapped` records that a call was made
  while another was in progress, which the code does not support.
* `AdapterConsumer`: `active` is swapped by the holder of a subscription, by
  `Unsubscribe(topic)` and by `Close`; whoever gets true cancels in a later step.
* `AdapterProducer`: `pubPc` follows a Publish call through its check, the copy of
  `publishFn` under `p.mu.RLock` (`readers`) and the client, which may call
  SetPublishFunc itself; `callPc` follows Connect and Close.  The map of
  `PROJECT.json` names the lines of one of the two producers for each definition.
* `SyncProducer`: `Msg` holds the calls of Send, `Passed` the message each is given, so
  that two calls can share one. A compressor is its algorithm and two flags, for
  `CompressFunc` and `DecompressFunc`, of which Snappy and LZ4 may have both, one or
  none. `spc` follows a call; `object` is what Send has made of the caller's message,
  with `setBy`, history, for the call that set the header; `wire` is the clone the
  broker took; `ctxDone` holds the calls whose context has ended, by a deadline, by the
  parent or by the deferred `cancel()`. The compressor and the message are not
  synchronised: the compressor is set between calls, and calls with one message come one
  after the other.
* `RetryDeadLetter`: every call has a message of its own.  `policy` is what WithRetry
  was given (or the default, for nil); `phase` and `attempt` follow the goroutine that
  handles a message, `waits` records its backoffs.  `MayExpire` says whether a context
  can end while Send runs, by its deadline or its parent; its end at the return of Send
  is always part of the model.
* `Pipeline`: `goroutines` are the deliveries that have not called Add, which may happen
  after Stop; the rest is the state of the two modules it is composed of.

## Runs

Passing runs.

| run | instance | states | shows |
|---|---|---|---|
| `broker` | 2 topics, 2 subscriptions, 2 messages, 1 batch of up to 2 | 879k | `InMemoryBroker` implements `PubSub`, safety and liveness; at most once, batches are ordered prefixes, silence after Unsubscribe, across reconnects |
| `async` | 2 messages, 2 Starts, 2 Stops, capacity 1, cancelled contexts | 834k | nothing lost, duplicated or reordered; Stop drains what was queued before it, across restarts; every Stop of a producer that is started once returns and none panics; an accepted message is attempted |
| `batch` | 3 messages, 2 Starts, 2 Stops, a user's Flush, batch size 2, symmetry | 1.4M | the batches are the stream, each message handled once, no lost wake-up, Stop flushes, across restarts |
| `pipeline` | 2 Sends of one message, a compressor with only a CompressFunc and one with only a DecompressFunc set and unset, 1 Start, 1 Stop, batch size 2 | 282k | a value is decodable by its header, by a reader with the matching function; a published message is in one place until handled; it is handled while the consumer's goroutine lives, which is flushed also when its context is cancelled |
| `group` | 2 callers, 3 calls, 2 topics, 6 handles, a broker that is closed and reconnected | 287k | exactly the subscriptions it should have while calls do not overlap; no deadlock among `cg.mu`, `s.mu` and `b.mu` also when they do |
| `adapters` | 3 goroutines, 2 subscriptions, 2 topics | 214k | the Kafka and the RabbitMQ consumer: cancelled exactly once, the channel closed once, Close cancels its map, is final for Subscribe and returns |
| `adapter_producer` | 2 messages, 2 clients, 2 goroutines that connect and close | 180k | a Publish called after Close reaches no client, none uses a replaced or nil client, all return |
| `retry` | 2 messages; the default policy, one that reaches the cap, one that starts above it, one with a negative MaxRetries; a wrapped retryable error, a non-retryable one with a retryable cause, a plain one | 468k | the producer's counters, the retry budget, the backoffs, where a failed message ends, the DLQ counter; handling ends |

Violation runs: each checks one sentence of the repository that the code does
not keep.  `findings` in `PROJECT.json` quotes the sentence and the line.

| run | what happens |
|---|---|
| `async_send_race` | a Send that overlaps Stop is accepted and never published |
| `group_leak` | two overlapping Starts leak a subscription that Stop cannot cancel |
| `retry_cancel` | the return of `SyncProducer.Send` cancels the retries of the handler (`MayExpire` is false: nothing else ends a context) |
| `retry_cap` | the first backoff is `BackoffBase` although that is above `BackoffMax`: `Delay(0)` returns before the cap |

Further behaviour that the models contain and a user may not expect; the
properties above hold in spite of it or exclude it, as their comments say, and no
run is about it.

* Connect, Close, Connect, Close panics: `stopCh` is made once
  (`inmemory.go:52`).  `broker_test.go:328` tests a double Close without the
  Connect.
* After `Broker.Unsubscribe` or Close a handle still answers `IsActive` with true
  (`inmemory.go:142`).
* `AsyncProducer` and `BatchConsumer` are for one use: a Start after Stop reports
  running and has no loop, a second Stop panics, and a Start during a Stop makes
  a second send loop (`producer.go:277`, `:299`, `:342`; `consumer.go:329`, `:345`).
* After its context is cancelled each of them still reports running
  (`producer.go:313`, `consumer.go:332`).
* `BatchConsumer.Stop` does not wait for a batch the goroutine took before
  (`consumer.go:345`).
* A delivery that comes after Stop, or after the end of the context of Start, is
  added to a buffer that nobody flushes (`consumer.go:286`).
* A message that is sent again, also after a Send that failed, is compressed once
  more, under one `content-encoding` (`producer.go:405`).  A `content-type` is set by Send
  although it serializes nothing (`producer.go:395`: "Apply serialization and
  compression").
* The header names the algorithm of a Snappy or LZ4 compressor whether or not it has a
  function (`producer.go:181`, `:189`).  With only a `CompressFunc` its own `Decompress`
  hands the compressed bytes back (`producer_test.go:510` sets such a one); with only a
  `DecompressFunc` it is given bytes that were never compressed.  A reader must know
  which functions the producer had.
* A negative `MaxRetries` makes WithRetry report success without calling the handler
  (`consumer.go:166`).
* The first backoff is `BackoffBase` times the multiplier to the power 0
  (`consumer.go:168`); `docs/diagrams/sequence.mmd:33` draws it with the power 1.
* A retryable error inside a BrokerError that is not retryable does not count
  (`errors.go:127`).
* A failing Start of a group that overlaps a successful one removes the
  subscriptions of both and leaves `running` true (`consumer.go:72`).
* A second Subscribe of an adapter to a topic takes the place of the first in the
  map, and Close leaves the first active (`kafka.go:362`); `API_REFERENCE.md:418` says
  of Close "Unsubscribes all".
* The adapters' Connect after Close returns nil and does not connect
  (`kafka.go:301`), and a Subscribe that passed its check before Close adds an
  active subscription after it (`rabbitmq.go:338`).

Bounds and why they are enough.  `MaxBatch`, `MaxCalls`, `MaxSets`, `Cap`, `BatchSize`, the
retries of a policy and the sizes of the sets are the only bounds.  The races are between two calls of the
same operation or of two operations, so two of each actor, and a third where a
bystander matters, show them; two messages are needed for order; two Start calls for
every restart.  With two messages and capacity 1 `msgCh` is full with and without a
message in hand, `errCh` is full, and a queue is shared by two loops; the order of a longer
queue, for every capacity, is the theorem `PublishOrder`.  Three messages fill a batch of two
and leave one over; three calls of
a group for a failed Start, a Start and a Stop.  Two retries reach the cap of a
backoff; two Sends of one message are what a caller does after an error.  `group` has a handle for every
Subscribe its calls can make, so that no Start waits for one.  Capacity 1 and
batch size 2 put the limits within reach.  The counters are bounded by the number
of messages.  Symmetry is used only in `batch`, which checks no liveness.

Deadlock is not checked (`CHECK_DEADLOCK FALSE`): every instance ends when its
messages, handles and calls are used up, and nobody is obliged to call.  That
nobody waits for ever is what `StopReturns`, `CallsReturn`, `CloseReturns`,
`PublishReturns`, `DeliveryEnds`, `PublishedIsHandled` and the contract `PubSubSpec` are
for.

Fairness.  Weak fairness on the steps of goroutines that exist: the Go scheduler
runs what is ready, `broker.Publish` and handlers return, tickers and timers fire.
Nothing is assumed about calls nobody has to make: Start, Stop, Send, Add, cancel.
Strong fairness is assumed only for taking a mutex, which Go hands over to a
waiter that starves (`ConsumerGroup`, `RabbitConsumer`).

## Proofs

Each theorem holds for every value of the constants that satisfies the named
assumptions.  The invariants below are inductive, most of them only together with
the type invariant, and were first checked with TLC on the instances of the runs.

**`InMemoryBrokerProofs`** (from `BrokerAssumption`: there
is a value for "no topic", and `MaxBatch` is a natural number).

* `TypeCorrect`: `Spec => []TypeOK`, which is inductive as it stands.
* `Silence`: `Spec => UnsubscribedIsSilent`.  What a Publish may start depends on the
  entries of the slices, so it needs an invariant that links entries and handles,
  `SubsInv == EntryTopic /\ EntryUnique /\ EntryActive /\ HandleKnown`.  An entry is
  filed under the topic of its handle; a handle has at most one entry (else the
  loop with `break` in `inMemorySub.Unsubscribe` would leave one behind); an
  active entry belongs to a handle that is active or being unsubscribed; such a
  handle has been returned by Subscribe.
* `BrokerInvariant`, and from it `DeliveredOnce`: `Spec => []AtMostOnce` and
  `BatchPrefix`: `Spec => []BatchIsPrefix`.  `MsgInv` says where messages come from:
  goroutines and queues hold accepted messages, accepted ones were used, no message
  is in two batches, and a batch has published exactly what lies before its
  position.  Then a Publish is always with a new message, and the goroutines it
  starts differ from all others.
* `ContractKept`: `Spec => PS!SafeSpec`.  Under the refinement mapping of
  `InMemoryBroker` every action is a step of `PubSub` or a stutter: a Publish owes the
  message to exactly the live subscriptions (`SpawnedPairs`), a step that drops or
  deactivates entries makes fewer subscriptions live, the rest stutters.

**`ConsumerGroupProofs`** (from `BrokerAssumption` and `GroupAssumption`).

* `GroupTypes`: `GroupSpec => []GroupTypeOK`, and `GroupUsesBroker`: `GroupSpec => Spec`;
  the corollary `GroupSilence` carries the broker's theorems over.  Both need `LockInv`,
  which holds also when calls overlap: `mu` is held by exactly the call between Lock
  and Unlock, a key of the map stands for a handle of its topic, the loop visits
  keys of the map (so it never cancels `NoSub`), a handle is locked only by that
  loop, and outside of it the handles of the map are active.
* `StoppedIsEmpty`: `GroupSpec => []SerialStopOwnsNothing`, and `OneSubscription`:
  `GroupSpec => []OnePerTopic`.  `SerialInv` holds until two calls overlap: one call is
  in progress, none while the group runs; every handle that is active or being
  cancelled is in the map; the map is empty whenever a Start takes `cg.mu`; the loop
  has every handle before it that is not cancelled.  With `SubsInv` a live
  subscription is the one its topic has in the map.

**`AsyncProducerProofs`** (from `ProducerAssumption`: `Cap > 0`).

* `ProducerTypes`: `Spec => []TypeOK`.  That `wg` stays natural needs `Counted`: it is the
  number of live goroutines.
* `PublishOrder`: `Spec => []InOrder` and `NothingLost`: `Spec => []Conservation`.  `FlowInv`
  follows a message: `msgCh` is the tail of what was accepted, what left it is held by
  one goroutine or was given to the broker, once, and what a goroutine holds was
  accepted after all it has published.  Each action is shown to be of one of four kinds
  (a message is accepted, taken, given, or none moves) and each kind to keep `FlowInv`.
* `StopDrains`: `Spec => []StopDrainsPending`.  `StopInv` says that before `stopCh` is
  closed no goroutine drains and only cancelled ones have ended, and that a Stop with
  pending messages has a goroutine that was started before it and that, once it has
  ended uncancelled, has left none of them in the channel.  With `Counted`, `wg = 0` then
  means that all of them were given to the broker.

**`BatchConsumerProofs`** (from `BatchAssumption`).

* `BatchTypes`: `Spec => []TypeOK`.
* `StreamKept`: `Spec => []BatchesAreTheStream`, from `StreamInv`: a message is added once, and
  a hand is empty outside of a handler's call.  `NoRepetition` (no message is twice in the
  buffer or in a batch) follows, for `PipelineProofs`.
* `WakeUpKept`: `Spec => []NoLostWakeUp`, which is inductive given the types.
* `StopFlushed`: `Spec => []StopFlushesBuffer`, from `StopInv`: what was there when a Stop was
  called has left the buffer from its last Flush on, and nothing is added again.

**`AdapterConsumerProofs`** (from `AdapterAssumption`), for the Kafka and the RabbitMQ
consumer.

* `ConsumerTypes`: `Spec => []TypeOK`, with what a goroutine holds at each stage and who holds
  `c.mu`.
* `CancelledExactlyOnce`: `Spec => []CancelledOnce`, from `CancelInv`: no two goroutines are about
  to cancel the same subscription, and a new one has not been cancelled.
* `MappedAreCancelled`: `Spec => []CloseCancelsMapped`, from `CloseInv`: what the Close that holds
  the lock has behind it is inactive.
* `CloseFinal`: `Spec => CloseIsFinal`, an action property.
* `RabbitIsAdapter`: `RabbitSpec => Spec`: the RabbitMQ consumer is the Kafka one with a channel,
  step by step, and `ChannelTruthful`: `RabbitSpec => []ChannelFollowsFlag`.

**`RetryDeadLetterProofs`** (from `SyncAssumption`, `NilAssumption`, `RetryAssumption` and
`ErrorAssumption`: nil is none of the other values, a compressor has or has not each of its
two functions, policies hold numbers, an error is a finite chain of links and a link that is no
`BrokerError` is not retryable).  `MayExpire` may be true or false.

* `RetryBudgetKept`: `Spec => []RetryBudget` and `EndsKnown`: `Spec => []EndsSomewhere`.  `StageInv` says
  for each phase what the calls, the attempt and the dead letter queue are; that what
  `IsRetryableError` computes is what `Transient` says of the chain is a lemma about the
  least index of a `BrokerError`.
* `EveryCallCounted`: `Spec => []CountersAccount` and `DeadCounted`: `Spec => []CountIsDead`, from the
  finiteness of the sets that are counted.
* `HeaderTruthful`: `Spec => []ReadableByHeader`, from `HeaderInv`: the layers of a message and its
  header agree also between two calls with it, and the outermost layer is that of the call
  that set the header if that call had a `CompressFunc`, and of no such call if it had none.
  It holds for compressors with both functions, one or none, and for a reader whose
  `DecompressFunc` matches.
* `BackoffsGrow`: `Spec => []BackoffGrows` and `RetryTypes`: `Spec => []TypeOK`.  `WaitsInv` says that the
  attempt is the number of backoffs begun, that backoff `i` is `Delay(i - 1)`, and that the calls
  are as many or one more.  The rest is about numbers.  `Pow`, which stands for `math.Pow`, is
  a recursive function: that it satisfies its defining equation (`PowFacts`) is shown from the
  finite tables of powers, which exist and agree, each by the least exponent that would fail.
  `Delay` caps what it computes from the uncapped base, the property caps the multiple of
  what was capped before: `CappedTwice` shows that they agree, also for the multiplier 0,
  and `DelayFacts` that this holds from the first backoff, which the code does not cap and of
  which nothing is said above `BackoffMax`, to the second.

**`PipelineProofs`** (from `SyncAssumption`, `NilAssumption` and `PipelineAssumption`, which is
`BatchAssumption` of the batch consumer in it).

* `DrivesBatchConsumer`: `Spec => B!Spec`.  Every step of the composition is a step of
  `BatchConsumer` or leaves it alone.  `BatchGuarantees` carries over what is proved of it:
  `Spec => [](B!BatchesAreTheStream /\ B!NoLostWakeUp /\ B!StopFlushesBuffer)`.
* `OnePlaceKept`: `Spec => []OnePlace`.  Three invariants meet.  `SendInv`: a call that is before
  its Publish or has failed left nothing with the broker, and `sent` counts the messages
  taken but for the calls about to count.  `RouteInv`: what was published to the
  subscription was taken, and is in its goroutine or has been added, not both.
  `StreamInv` and `NoRepetition` of the batch consumer: what was added is in the buffer, in one hand
  or handled, at one index.

**`AdapterProducerProofs`** (from `ProducerAssumption`).

* `ProducerTypes`: `Spec => []TypeOK`, which includes that `fn` is not nil where it
  is called.
* `CloseFinal`: `Spec => []ClosedIsFinal`.  The invariant `FinalInv` adds that `closed`
  is set before any Close returns or clears `connected` (`ClosedBefore`), and that a
  late call was refused and a call not yet made reached nobody (`LateRefused`).
  Nothing is said of `connected`, which an overtaken Connect may leave set.
* `ClientCurrent`: `Spec => []NoStaleClient`.  `ClientInv` adds that `publishFn` is what
  was installed last and that every call was made when some prefix of the history
  was installed.

Only model-checked:

* liveness (`StopReturns`, `SendIsAttempted`, `CallsReturn`, `CloseReturns`, `PublishReturns`,
  `DeliveryEnds`, `AddedIsHandled`, `PublishedIsHandled`) and the fairness half of `PubSubSpec`,
  which the prover does not handle.

Every invariant and every action property that a run checks is stated by a theorem.
`ReadableByHeader`, which `pipeline` checks for calls that share a message, is proved for
`RetryDeadLetter`, where `Passed` may let calls share one, too.

## Not modelled, and plan

Not modelled: configuration and its validation, options, metrics, i18n, the
serializers beyond their failure, `IsConnectionError`, `MultiError` and error
formatting, and the challenge runner; they have no state that interacts.  Real
Kafka and RabbitMQ clients are not part of the repository.  A data race of
SetCompressor with Send, or of two Sends with one message, is excluded by
assumption.  Multipliers of a policy are natural numbers.

In the order in which it was built:

1. `PubSub`, `InMemoryBroker` and the refinement; `AsyncProducer`; `BatchConsumer`;
   `ConsumerGroup` over the broker; `AdapterConsumer` and `RabbitConsumer`;
   `SyncProducer` and `RetryDeadLetter`; `AdapterProducer`; the first theorems. (done)
2. Compression of a message that is sent twice; the durations of the backoffs, the
   policies at the edge and chains of errors; Connect after Close of an adapter;
   `Pipeline`, from Send to the handler of a batch. (done)
3. Proofs of the safety properties of every component, and of the safety half of the
   refinements. (done)
4. Proofs of the durations of the backoffs, and of `Pipeline` from the invariants of its two
   components. (done)
