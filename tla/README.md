# Verification of webhook-handler

A TLA+ development of the webhook ingest service, its publisher, the push
subscription and the processor. Modules ending in `Proofs` hold theorems checked
by TLAPS; the others are model-checked by TLC. `PROJECT.json` ties definitions
to source lines, properties to runs, and hazards to properties.

## The system

```
sender --POST /webhook--> ingest instance --publish--> topic
                          (route, RetryingPublisher,     |
                           PubSubPublisher)              v
                                              push subscription --after N attempts--> dead-letter topic
                                                         |
                                                         v POST /_pubsub/push
                                              processor instance (route, SeenStore, Handler)
```

| Component | State it keeps | Operations | What makes it correct |
|---|---|---|---|
| Ingest route, `ingest/app.py` | none between requests | size, key, media type and JSON checks; publish; 202 or an error | a 202 means durably stored; a rejected request is never published; a caller without the key learns nothing but size; every request is answered |
| `RetryingPublisher`, `ingest/retry.py` | the attempt number | bounded attempts with a blocking sleep between | an event is reported lost only after every attempt; never an attempt more |
| `PubSubPublisher`, `ingest/pubsub_publisher.py` | none; the client has messages in flight | publish and wait for the future | returns only for a stored message, and always returns |
| Push subscription, `infra/pubsub.tf` | per message: pending, acked or dead; attempts; the outstanding attempt | deliver, give up at the ack deadline, dead-letter | no message is forgotten without being settled |
| Push route, `processor/app.py` | none between requests | authenticate, parse, claim, handle, release, answer | acked means handled, abandoned or unparseable; a nacked event can run again |
| `SeenStore`, `processor/dedup.py` | an ordered map from id to expiry | claim, release, evict | no second grant while a live claim stands; bounded; gives up oldest claims first |
| Handler, `processor/handler.py` | its own | return, `PermanentError`, anything else | external; may also hang |
| Front door of ingest, `ingest/config.py`, `ingest/security.py`, `main.py` | the settings an instance built at its start, among them a version of the secret | `from_env`, `verify_signing_key` | an instance lets in exactly the key it started with |
| Front door of the processor, `processor/config.py`, `processor/security.py`, `processor_main.py` | the settings of the revision | `from_env`, `verify_push_token` | open only where a mode says so by name; in oidc mode our push and nobody else |
| Envelope parser, `processor/envelope.py` | none | `parse_push_envelope` | a verdict that redelivery cannot change; what the receiver publishes parses |
| Logging, `common/log.py` | handlers and propagation of the logger tree | `configure_logging`, `format` | one JSON line a record, with the formatter's own fields |
| Drain script, `scripts/drain_topic.py` | the batch it has pulled | subscribe, pull, print, acknowledge | what nobody has seen is not acknowledged |
| Infrastructure, `infra/*.tf`, `Dockerfile` | the resources that exist, the secret's versions | an apply, a manual secret version | ends complete; no event is dead-lettered for want of a grant |

Components interact by HTTP status alone: 202 tells a sender that never retries
that the event is safe; 204 makes Pub/Sub forget a message; any other status, or
silence until the ack deadline, makes it deliver again. `event_id`, the hash of
the body, is the only identity shared by the two services.

### What is hard here

* Redelivery while an attempt still runs, on the same or another instance, and
  its late answer.
* A crash between the claim and the answer, where everything depends on whether
  the claim dies too.
* One event on the topic twice, because a publish that timed out was stored.
* A publish call and its message having different fates.
* The store at its limit, and at the exact moment of an expiry.
* Handlers that hang and futures that never resolve.
* Requests of one instance queueing behind a handler while their deadlines run.
* Instances of one revision holding different versions of the secret.
* An apply that stops half-way while webhooks already arrive.

Both routes are `async def` with a blocking call inside, so an instance is
single-threaded between its awaits. This is a fact the models use: a busy
instance starts no other request. Several safety properties rest on it.

## Modules

| Module | Models |
|---|---|
| `SeenStoreOps` | what granting and releasing do to the sequence of held ids; used by the two stores and by the push model |
| `SeenStore` | the protocol class as an abstract store: claims are granted, refused, released, and lapse oldest first |
| `InMemorySeenStore` | the class: the `OrderedDict` as the sequence of its items, the clock, and `claim` / `release` with `_evict` inside the granting step |
| `PushDelivery` | the subscription, the push route of every instance, its stores, crashes and expiries |
| `WebhookIngest` | the ingest route with both publishers, the fate of each message, crashes |
| `AtLeastOnce` | what both services promise together: stored, promised, accounted for |
| `WebhookPipeline` | `WebhookIngest` and `PushDelivery` joined by the topic, shown to implement `AtLeastOnce` |
| `PushTiming` | `PushDelivery` with clocks: ack deadline, the handler's worst case, requests per instance, broken connections |
| `PushAuth` | `Settings.from_env` of the processor and the push token check |
| `IngestAuth` | `Settings.from_env` of the receiver, the versions of the secret, the key comparison |
| `Envelope` | a message through `parse_push_envelope`, at every attempt, garbled or not |
| `JsonLog` | `configure_logging` on uvicorn's logger tree, and the keys of a record |
| `Provisioning` | Terraform's order, what each service needs to start, events sent meanwhile |
| `LocalDrain` | runs of the drain script beside a publisher |
| `Parts` | the six parts that share no state with any other, of which one at a time moves |
| `SeenStoreOpsProofs`, `InMemorySeenStoreProofs`, `PushDeliveryProofs`, `PushTimingProofs`, `WebhookIngestProofs`, `WebhookPipelineProofs`, `ProvisioningProofs`, `PartsProofs` | the theorems |
| `MC*` | constants for TLC; `MCParts` also pins the parts that do not move to one initial state |

**InMemorySeenStore.** A call of the store reads the clock once and runs to its
end, so it is one step. `Touch` is the assignment followed by `move_to_end`;
`Evict` is the two loops, first expired items from the front up to the first
live one, then the surplus. `ImplementsSeenStore` maps the class to the protocol
by its live claims (`LiveIds`); a tick of the clock maps to a lapse.

**PushDelivery.** A request is `waiting` until the route runs it, then
either answered in the same step (401, unparseable, duplicate) or `handling`
until the handler ends; there is no await between the parse and the answer. The
handler's three outcomes are the three `except` classes and the plain return.
`Answered` applies a status only if Pub/Sub still waits for that attempt. An
answer that is lost on the way is `MissDeadline` taken just before it. Which
deployment is checked is a matter of constants: `StoreOf` and `Durable` say
whether instances have their own volatile store (what `processor_main.py`
builds) or share a surviving one (what the docstring of `dedup.py` recommends).
The store appears by its held ids; that the class really behaves that way is
`ImplementsSeenStore`. `completed`, `abandoned` and `lapses` record history for
the properties; no guard reads them.

**WebhookIngest.** What is wrong with a request is chosen initially among all
combinations. `Checks` is the order of the route's checks with their statuses.
A publish attempt makes its message `inflight`; `Settle` decides its fate at any
time, also after the call has failed, since a timed-out call is not cancelled. A
call may report failure whatever the fate, and success only for a stored
message. `attempt` and the phases `publishing` and `backoff` are the loop of
`RetryingPublisher`.

**WebhookPipeline.** Both services are instances of their own modules; no action
is written twice. A message of the topic is an attempt to publish a delivery, so
one delivery may leave several copies. `Arrive` is the only joint step: the fate
of an attempt is decided and, if it is stored, the subscription has the message.
Deliveries with one body have one `event_id`. The refinement maps a delivery to
`stored` when a copy is, to `promised` at its 202, to `accounted` when the
subscription is done with a copy.

**PushTiming.** Every action of `PushDelivery` that matters is taken up with its
guard on time: a deadline is missed once it has passed (`TimedMiss`), a delivery
needs room at its instance, and time stands still while something is `Due`, which
is how the model keeps its clocks and no claim about the code. Only the handler
takes time; it blocks the event loop, so the requests behind it wait. An attempt
also fails when its connection breaks (`BreakConnection`), at any point up to its
answer. Just before the handler returns this is a lost 204: the event was
handled, and is handled again, as `handler.py:56-58` warns. `queued`
and `broken` are history for the properties: what a request had waited when its
handler started, and the attempts whose connection broke.

**The front doors.** `from_env` either raises, a set without an element, or
returns, the set of its result. A revision whose settings raise does not serve,
and the previous one goes on (`Deploy`). In `IngestAuth` every instance builds
its settings at its own start, from the version of the secret that is the latest
then (`Start`); versions are added by hand at any time. A key counts only under
the header the revision names (`Provided`). In `PushAuth` the token check reads
the settings, the clock and the availability of Google's keys; account and
audience of a revision may be missing, blank, ours, or somebody else's, which
`from_env` accepts.

**Envelope.** A field is known by what `isinstance` and truth tell of it, a
payload by what has become of the base64 text it was published as (`Data`):
among other things it may be lost, cut between two groups of four characters, or
overwritten within the alphabet, all of which `Decode` turns into bytes. `Wrap`
is the envelope Pub/Sub builds anew for each attempt (external); `Garble` loses,
cuts or overwrites one part of the posted body.

**JsonLog.** The tree of loggers with handlers and propagation, in any of the
states uvicorn or an import may leave it in; a record reaches the handlers on
its way up. `Format` says for every key where its value comes from.

**Provisioning.** `DependsOn` is what a resource refers to or names in
`depends_on`; `Create` takes resources in any order these allow, and may stop
anywhere. A service is created only if what its command needs is mounted.
`Send`, `Deliver` and `DeadLetter` are the system in use meanwhile.

**LocalDrain.** Every run of the script may be stopped between any two of its
calls, and a pull's lease may end while it is printed.

Operators whose comment starts with "Fault" are variants of an operator with one
plausible mistake. No action uses them; putting one in place of the original
shows which property notices.

## Runs

| Run | Instance | Shows | Distinct states |
|---|---|---|---|
| `in_memory_store` | 4 ids, 3 places, TTL 2, clock to 6 | order, bounds, eviction; implements `SeenStore` | 11,795 |
| `push_local` | 2 copies of one event, 2 instances, own stores, OIDC on, 2 attempts, 1 expiry, 1 crash | no silent loss; claims stand for success; every message accounted for | 113,902 |
| `push_crowded` | 2 copies of one event and another event on 1 instance with room for 1 claim, 2 attempts, 1 expiry, 1 crash | crowding out repeats, and the repetitions are counted | 1,904,196 |
| `push_shared` | 2 copies and a malformed message, one durable store | an event completes once unless its claim lapses | 2,057,988 |
| `push_shared_overlap` | 1 message, 2 instances, one durable store, no crash | violated: see findings | |
| `push_shared_crash` | 1 message, 1 instance, durable store, 1 crash | violated: see findings | |
| `webhook_ingest` | 2 requests, 2 instances, 3 attempts, 1 crash | the promises of the ingest route | 598,172 |
| `pipeline` | 1 delivery, faultless or with a wrong key, 2 publish attempts (so 2 copies), 2 processor instances, 2 delivery attempts, a crash on each side | implements `AtLeastOnce`; a promised event is on the subscription or accounted for; only what was accepted is handled | 390,964 |
| `push_timing` | a message each of two events, 2 instances given two requests at a time, deadline 3, worst case 2, 1 broken connection, 1 expiry, 1 crash | a deadline is missed in the queue only; a message is handled twice at once only after that or a broken connection | 1,121,531 |
| `push_timing_queue` | 2 messages, 2 instances, the same durations, two requests per instance, no fault | violated: see findings | |
| `provisioning_one_image` | the processor without a command, as in `cloudrun.tf` | violated: see findings | |
| `parts` | see below | the six parts that share no state | 49,105 |

`parts` explores the apply (with the command the README intends, a good and a
poisoned event, 2 attempts), both front doors (every environment over the values
that matter; 2 instances, 2 keys, 3 versions of the secret; a clock of one tick
and tokens on both sides of it), the envelope (every garbling, 3 attempts),
the logger tree (2 calls, every record over 4 extra names) and the drain script
(3 messages, 2 runs, pulls of 2). The parts read and write nothing of each
other, so their interleavings add nothing: the run chooses one part, keeps the
others at one initial state, and visits every state the chosen one has.

Bounds. Four ids for three places make a full store crowd out live claims while
others expire; three lifetimes of clock let a claim expire, be re-claimed and
expire again. Two attempts are the fewest with a redelivery and a last attempt;
the real limit of at least five adds repetitions of the same step, and the
theorems hold for every limit. Two instances suffice for every interaction
between a holder of a claim and another instance; two copies for a duplicate
that ingest caused. One expiry and one crash are enough to lose a claim at any
point of a handler's run; the theorems have no such bound. Three publish
attempts are the code's default. One delivery in `pipeline` already has two
copies, a crash before and after each, and a late answer; two deliveries are
independent but for a shared event, which `push_local` and `push_crowded` have.
In `push_timing` the second message is what the first one queues behind, and
each of its two attempts can be the one held up. Its instances are symmetric:
they differ by their names and their own stores alone, which are permuted
together, and the run checks invariants only. The counters `MaxTime`,
`MaxLapses`, `MaxCrashes`, `MaxBreaks`, `MaxIngestCrashes`, `MaxVersions`,
`MaxCalls` and `MaxAttempts` (of `Envelope`) bound the models, not the program.

Some cases are left to one run or to a theorem. Claims are crowded out in
`in_memory_store` and `push_crowded` only; `NoSilentLoss` covers every number of
events and of places. `pipeline` has one delivery, so no refused twin of an
accepted one (`OnlyAcceptedIsHandled` has any). `parts` has a non-empty source
name, as it is by default, and the processor's own command;
`BlankSourceNeverParses` and `provisioning_one_image` are about the other cases.
Except in the store run deadlock is not checked, because the system stops when
nothing is left to deliver, answer, create or pull.

### Fairness

`PushDelivery` trusts only the subscription: it delivers a pending message,
gives up on an attempt at the ack deadline, and dead-letters. These are timers
of a managed service. Nothing is assumed of instances or handlers, which may
hang forever. So `EveryMessageAccountedFor` says that a hang costs attempts
and never the message.

`WebhookIngest` assumes that a route whose instance is free goes on: a publish
call ends at its timeout at the latest, and a backoff is a bounded sleep. Nothing
is assumed of Pub/Sub, so `EveryRequestAnswered` covers a future that never
resolves.

`WebhookPipeline` takes the fairness of the subscription and nothing else, so
`ImplementsAtLeastOnce` (whose abstract specification owes an end to everything
stored) holds with receivers that stop and handlers that hang.

`Provisioning` assumes that the apply is run again while something is left to
create, that the one manual step is taken, and that Pub/Sub goes on delivering
and dead-lettering. The other modules state no fairness; their properties are
safety properties.

## Findings

Four runs find a sentence of the repository violated by what the code does.

The first two concern a shared, durable `SeenStore`, which `dedup.py` recommends
with the words "nothing outside this module changes". The shipped in-memory
store has neither problem; that it has not is the theorem `NoSilentLoss`.

* `push_shared_overlap`. The route acks a refused claim as "Already handled",
  but the claim is held from before the handler starts. A redelivery on
  another instance is acked while the first attempt still runs; if that attempt
  then fails, its nack comes too late and the message is gone.
* `push_shared_crash`. "If the process dies between the two it still errs toward
  a duplicate rather than a loss" (`dedup.py:42-43`). With a store that survives
  the process the claim stands, the redelivery is acked as a duplicate, and the
  event is never handled.

A shared store needs more than the two methods: a claim that tells "being
handled" from "handled", or one that lapses with its holder, and a route that
nacks the former.

The other two concern the deployment.

* `push_timing_queue`. `pubsub.tf:70-73` wants the ack deadline "Above the
  handler's WORST case", lest an event be "processed twice concurrently". The
  handler blocks the event loop, and nothing in `cloudrun.tf` limits an instance
  to one request: the second one waits with its deadline running, is redelivered
  to another instance and is handled on both. That queue and a broken connection
  are the only ways to such an overlap (`push_timing`, `OverlapsAreExplained`):
  the deadline would have to cover the worst case of all that an instance is
  given at once.
* `provisioning_one_image`. `README.md:372-373` says the processor "runs
  `processor_main:app` via a command override". `cloudrun.tf` has no `command`
  for it, so the image's `CMD` runs, which needs settings the processor is not
  given: the service never starts, and neither it nor the subscription is
  created, however often the apply is repeated. `parts` has the command, and the
  apply ends.

### Divergences met while modelling, without a run of their own

The models do what the code does here; the sentence quoted says otherwise.

* An unparseable envelope is answered 204 (`processor/app.py:145`), so it never
  reaches the dead-letter topic, though `CONTEXT.md:285-287` says the processor
  acks it and "the dead-letter topic is where such a message goes to be looked
  at".
* A delivery whose token cannot be checked because Google's keys cannot be
  fetched is refused with 401 (`processor/security.py:93-99`). "Pub/Sub is not
  waiting on it", says `processor/app.py:118-120`; it is, and the refusal costs
  one of its attempts.
* `MAX_BODY_BYTES` may be zero or negative and `WEBHOOK_SIGNING_KEY_HEADER` empty
  (`ingest/config.py:48-49`); "every field is present and valid"
  (`ingest/config.py:19-20`). Under an empty header name nobody has a key.
* The same sentence for an empty `WEBHOOK_SOURCE` (`ingest/config.py:50`): every
  event is then published with a source the processor's parser refuses
  (`processor/envelope.py:116-122`), after a 202.
* A blank secret version crashes every instance that starts after it was added
  (`ingest/config.py:38`), also those of the revision that serves. `main.py:6-9`
  says that Cloud Run "keeps the previous one serving"; there is no other
  revision to keep.
* The secret is stripped (`ingest/config.py:39`), so its trailing newline does
  not produce "a comparison failure" (`infra/secrets.tf:22-24`).
* "Corruption should be a rejected message" (`processor/envelope.py:136`). A
  payload that is overwritten by other characters of the alphabet, or cut at a
  multiple of four characters, decodes to other bytes (line 144; "Truncation is
  caught either way", says line 137), and one that is lost is taken for an empty
  payload (lines 139-140).
* A mistyped account or audience is accepted (`processor/config.py:79-83`). The
  revision serves and refuses every delivery of ours, each at the cost of an
  attempt.
* The receiver becomes public without waiting for the push subscription
  (`infra/cloudrun.tf:68`), and what it accepts before is kept by no
  subscription; `README.md:79-82` asks for the subscription "before the first
  publish". `Send` of `Provisioning` has the window.

## Theorems

All are proved for every value of the constants, from the assumptions named in
the modules: limits at least one, which the configuration or the constructors
enforce, the types of the constant functions, and for `PushTiming` that the ack
deadline is above the handler's worst case, as `pubsub.tf` asks.

* **`InMemorySeenStoreProofs`**: `TypeCorrect`, `StoreInvariant` (`OldestFirst`),
  `BoundsKept`, `GrantsLeaveOnlyLive`, `ImplementsTheProtocol`. The parts of the
  invariant are inductive together: eviction keeps the order because it drops a
  prefix, `Touch` keeps it because the new expiry is the latest, which needs the
  bound `now + Ttl` of `WithinBounds`. The refinement rests on the order, too:
  the live items are those from some position on (`AliveFrom`), and that position
  is where the first loop of `_evict` stops (`FirstLiveAlive`). Then every
  operation is followed on the ids of the live items: taking one out
  (`PopAlive`), granting (`GrantAlive`), a tick (`TickAlive`). The lemmas about
  sequences are in `SeenStoreOpsProofs`.
* **`PushDeliveryProofs`**: `TypeCorrect`, `NoSilentLoss`, `IdleClaimsAreCompleted`,
  `DuplicatesAreHandled`, the last three under `LocalStores` (volatile stores,
  one per instance). `AckedMeansSettled` is not inductive, because a duplicate is
  acked on the strength of a claim. `ClaimsMean` adds what a claim means: its
  event is completed, or is being handled by the very instance that holds the
  claim. A busy instance starts no other request, so a duplicate is acked in the
  first case only, which is also what `DuplicatesAreHandled` says. `ClaimedOnce`
  (no id is held twice) makes a release take the claim away altogether. Under a
  shared or durable store `ClaimsMean` fails, and the findings are its failures.
  `EveryCompletionIsPaidFor` holds in every deployment, from a finite set of
  stores. `CompletionsBounded` counts completions, which a step adds to without
  looking at earlier ones; what is inductive is a balance: every completion and
  every handler under way is paid for by a store that still holds a claim on the
  event, or by a claim that was lost.
* **`PushTimingProofs`**: `MissedInQueue`, `OverlapsAreExplained`, for any number
  of requests an instance is given and any number of broken connections. The
  argument is about one request that is being handled (`InTime`). While its
  answer is awaited, its deadline has been running no longer than it queued and
  its handler ran, so when it passes the request had queued for what the worst
  case leaves of the deadline (`HeldUp`). When its answer is no longer awaited,
  it was held up like this, or its connection broke. Of two requests for one
  message at most one is awaited, and that is the later one (`Numbered`), so the
  earlier one has its excuse.
* **`WebhookIngestProofs`**: `TypeCorrect`, `AcknowledgedIsStored`,
  `RejectedIsNeverQueued`, `LossSawEveryAttempt`, `KeylessLearnNothing`. The
  strengthening says that an answered delivery is in phase `answered`, hence
  makes no further attempt (`AnsweredOnce`), that only faultless requests publish
  (`AcceptedOnly`), and that attempts are made in order (`AttemptsInOrder`). For
  the last theorem, `KeylessAreRefused` follows a request without the key to one
  of the two refusals that come before anything else is looked at.
* **`WebhookPipelineProofs`**: `KeepsTheContract`, `PromisesAreTracked`,
  `OnlyAcceptedIsHandled`, `ServicesKeepTheirWord`. The invariant is that of
  either service, whose proofs are cited through an instance of their module, and
  one conjunct that joins them: the subscription knows of exactly the copies the
  ingest service has stored (`OnTopic`). `KeepsTheContract` is the refinement of
  `AtLeastOnce`, step by step: a step of the pipeline stores one delivery more,
  promises one that is stored, accounts for one that is stored, or changes
  nothing the contract sees. That it does only one of these at a time needs what
  a single step of either service may do (`OneAnswer`, `NothingStored`,
  `OneMoves`); that an acked copy is accounted for needs `AckedMeansSettled`; and
  that a completed event came from a faultless delivery needs `Traced` (whatever
  is requested or completed was published) together with `AcceptedOnly`.
* **`ProvisioningProofs`**: `GoodEventsSurviveTheApply`. A queued event implies the
  subscription, the subscription implies the grants a delivery needs
  (`GrantsFirst`), so the first delivery of a good event succeeds (`FirstCounts`).
* **`PartsProofs`**: the safety properties of the other five parts, each with the
  invariant of its own module, and all at once for the composition
  (`PartsAreSafe`), because each part behaves there as its module says (the
  lemma `PartsRun`).
  * *Front door of the processor* (`OpenByName`, `OnlyOurPush`, `OurPush`):
    a revision that serves was built by `from_env` from the environment that is
    set (`DoorInv`), so who is let in depends on that environment, right or
    mistyped, on the token, and on Google's keys.
  * *Front door of the receiver* (`KeyOfTheStart`): versions are only ever added,
    so the place an instance has resolved keeps meaning the same, and its header
    is that of the revision which serves (`HoldsItsVersion`).
  * *Envelope* (`VerdictStands`, `OwnMessagesAreParsed`,
    `BlankSourceNeverParses`): a body that was not garbled is the message's own
    but for its delivery attempt (`Genuine`), on which the verdict does not
    depend (`GenuineVerdict`). `OwnMessagesAreParsed` assumes that the source
    name is not empty, as it is by default; `BlankSourceNeverParses` says that
    the code needs this. Nothing is claimed of a garbled body: see the
    divergences.
  * *Log* (`OneLineForARecord`, `SeverityIsTheRecords`, `EventIdIsWritten`): once
    configured, the root has the newest handler alone and every logger below it
    passes its records on (`Configured`), so exactly one handler is reached.
  * *Drain script* (`PrintedBeforeItGoes`): a run that has printed has printed the
    whole of its batch (`BatchIsPrinted`).

Model-checked only: the liveness properties `EveryMessageAccountedFor`,
`EveryRequestAnswered`, `ProvisionedInTheEnd` and `QueuedIsSettled`, and of
`ImplementsAtLeastOnce` the part that says everything stored is accounted for in
the end. They rest on fairness, which is beyond the prover. Every invariant and
every action property that a passing run checks is a theorem.

## Not modelled

* `/healthz`, log wording, tracebacks, the level filter and `json.dumps`: no
  state, or formatting.
* That a comparison takes constant time: keys are values without a length.
* The hash behind `event_id` and `received_at`: an event's identity is a constant
  of its delivery.
* The handler's body, Pub/Sub, Cloud Run, Google's token library: external,
  modelled by what the code sees of them.
* Backoff durations, request timeout and message retention; the push and publish
  models let them end at any time. Only `PushTiming` has clocks for them.
* The TTL and size settings are checked for being positive by one comparison
  (`processor/config.py:98`), about which there is no property; handlers on
  loggers other than uvicorn's and the root are not in `JsonLog`.
* Terraform's scaling limits, labels, outputs and service accounts.
* Tests, the emulator's compose file and the build: not part of what runs.

## Plan

Done: the store, both services, their composition, durations, configuration and
authentication, envelope, logging, provisioning and the drain script.
What would add most next:

1. A claim protocol for a shared store that survives the two findings, as a
   variant of `PushDelivery` to be checked against `AckedMeansSettled`.
2. `DuplicatesAreHandled` and the bound on completions carried over to the
   pipeline: how often one webhook can run the handler at most.
3. Two deliveries with one body in `pipeline`, on a larger machine.
