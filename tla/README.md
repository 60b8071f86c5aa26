# mlpal-gateway in TLA+

A model of the gateway service (`src/src/mlpal_assistants_service`, a FastAPI
application over PostgreSQL, Redis and the AI providers), checked with TLC and,
where it can be stated for every value of the constants, proved with TLAPS.

Paths below are relative to `src/src/mlpal_assistants_service/` unless they
start with `src/` or `docs/`. `PROJECT.json` maps every definition to the lines
it stands for, every property to the hazard it is for, and every run to the
properties it checks.

## 1. The system

A request comes in on one of two wires, `/v1/chat/completions` (with its
streaming and async forms) or `/v1/messages` (Anthropic's), or on the media
routes (images, audio, embeddings). It is authenticated against a cached API
key, admitted by a rate limiter, a wallet gate and per-key policy, routed to a
model and to one of the backends that serve it (or to a tenant's own
credential), translated for the provider, sent through an adapter and a circuit
breaker, streamed back, and metered: a row in `usage_logs`, a debit at the
payments service, counters in Redis. Everything runs in asyncio tasks of
several processes; each process has its own breakers, pools and in-memory
caches; the database, Redis and the payments service are shared. Operators and
feeds change models, prices, routes and settings meanwhile, and tenants their
keys and credentials.

### Components

| Component | State | Operations | Hard behaviour | What makes it correct |
|---|---|---|---|---|
| Circuit breaker (`adapters/circuit_breaker.py`) | state, streaks, half-open places, time of the last failure; per backend and process | admission and completion of a call, opening, probing, closing | calls outlive the state they were admitted in; throttled and cancelled calls | counters mean what decisions take them to mean; it recovers |
| Image jobs (`services/image_jobs.py`) | rows of `image_jobs`, runner and heartbeat tasks | submit with an idempotency key, run, touch, poll | process death between any two steps, submits that race, late workers | one job for a key, no zombie, an end that stays |
| Chat requests (`services/chat.py`) | one request: candidates, attempt, slot, what was sent | gate, route, call, retry, hop, fall back, stream, bill, fail | three nested layers of repetition, errors translated at each, a client that leaves | one source, one bill, every attempt metered, no leaked slot, timeouts end it |
| Messages requests (`services/messages_v2`) | the same, and the producer task, the bounded queue, the response body | the same, over native and translating edges | two tasks on a bounded queue, cancellation at any await | the same, and a failure is told, the provider's stream closed |
| Usage and debits (`services/usage.py`, `services/debit_retry_worker.py`) | `usage_logs` rows with their debit status, the wallet | record, accrue, debit, mark, retry | two sessions, lost answers, a retry worker beside the first debit, rollbacks | "debited" means charged, every row settles |
| Wallet gate (`repositories/billing_repository.py`) | snapshot, spent counter, in-flight counter in Redis | admit, reserve, release, record, debit, invalidate | reads and writes of one decision interleave with those of other requests; keys expire | never takes a unit twice, never invents one, the low-balance cap holds |
| Limits (`services/rate_limiter.py`, `policy.py`, `account_trust.py`, `platform_fee.py`) | sliding windows, budget counters, a cached profile, a monthly counter; the ledger beside them | check, record, accrue, reseed, charge | counting and adding in two pipelines; a counter that vanishes is set from a sum that others overtake | overshoot has a bound, the fee owed is charged, a payment lifts the ceiling |
| API keys, suspension and abuse (`services/api_key.py`, `api/deps.py`, `services/abuse_detector.py`) | rows, cached keys, the cached hold, open transactions | validate, mint, edit, revoke, suspend, lift, detect, purge | the cache is cleared before the commit, and by messages that get lost | answers settle on what is committed, revocation is final, notices come true |
| Tenant connections (`services/connections.py`, `seams/custody.py`) | the row, the secret, each pod's overlay and pool of clients | resolve, reveal, mark invalid, replace, delete, re-check | stale failure marks, a secret replaced before its row, lost messages | a rotated key takes effect, a tenant that wants no fallback is not billed |
| Serving caches (`services/router.py`, `services/pricing.py`, `services/runtime_settings.py`, `core/cache.py`) | a TTL cache per pod, copies in Redis, pub/sub | look up, refill, pause, change, invalidate, reload | fills that overtake invalidations, messages lost in a reconnect | staleness is bounded, a pause reaches, settings agree |
| Catalog (`services/catalog_sync.py`, `services/catalog_feed.py`) | models, prices and routes, the version applied | boot, pull, plan, commit, note the version | processes that plan from tables others change | the tables converge to the feed |
| Translation (`services/messages_v2/translate_in.py`, `adapters/*.py`) | the client's turns and what each wire makes of them | ask, answer with calls, return results, move to another wire | ids that repeat, signatures hidden in ids, turns that mix everything | content kept, results meet their calls, signatures go home |
| Streamed answers (`adapters/*.py`, `services/messages_v2/emit.py`) | three generators pulling on each other | one event of the provider, one chunk, one event to the client | interleaved thoughts, text and calls; usage before or after the reason | events nest, nothing is lost, usage is told |
| Media (`services/image.py`, `audio.py`, `embedding.py`, `main.py`) | a request, its background tasks, the queue of usage records and its consumers | post, call, price, charge, upload, record, consume | billing before delivery, storage that fails, redelivery | the ledger tells what was charged, a queued record is not lost |
| Prices and sizes (`services/pricing.py`, `adapters/base.py`) | none | cost of a request, its quote, the trip of a row through Redis; sizes per family | optional rates, thresholds, caps, snapping | every unit billed once at its rate; what is sent is what the provider takes |
| Everything else | | | | listed with its reason in `PROJECT.json` |

### Interactions

- *Calls.* `api/v1/chat.py` and `api/v2/messages.py` drive one request; both
  call the gate, the limiter, the policy, the router, the adapter factory and
  the breaker in line, and hand metering to tasks of their own.
- *Shared state.* Redis keys (snapshot, counters, windows, cached keys and rows)
  and database rows are read and written by every request and every process, one
  command or statement at a time and never under a common lock.
- *Tasks.* A streamed `/v1/messages` request is a producer task and a response
  body on one queue. Billing, key accounting and connection marks are spawned
  and outlive the request. The debit retry worker, the abuse detector, the
  catalog pull, the settings listener and the consumer of usage records are
  loops.
- *Callbacks.* The payments service calls `api/internal.py` after a credit;
  pub/sub invalidates the in-memory caches of the other processes.

## 2. The modules

Each module is one component; histories and bounds are named as such. One
Redis command or pipeline, one SQL statement, one HTTP exchange, or one stretch
of code between two awaits, is one action. The pure parts (prices, sizes,
translation) are operators over records and sequences, used by the actions.

| Module | Models | State that is abstracted |
|---|---|---|
| `CircuitBreaker` | the breaker of one backend and its concurrent calls | time since the last failure saturates at `RecoveryTimeout`, streaks at their thresholds; monitoring counters are left out |
| `ImageJobs` | submits, runners, heartbeats, pollers, process stops | the render and its provider are one step; a row's age saturates at `StaleAfter` |
| `ChatRequest` | one request on `/v1/chat/completions` or its stream | prompts, answers and prices; an error is one of eight kinds, as far as a layer tells them apart |
| `MessagesRequest` | one request on `/v1/messages` | the same; chunks are equal, at most one ping waits in the queue |
| `Failover` | the abstract promise of both: attempts in order, none left once something was sent | |
| `UsageDebit` | from a served request to its settled row, and the retry worker | amounts; the outcome of fee accrual is a free choice, which `Limits` makes |
| `WalletGate`, `MCWalletGate` | one user's snapshot, counters and requests | every request costs one unit; the legacy status check admits |
| `Limits` | one account with one key: both request windows, the key's budget, the account's ceiling, the monthly fee | a request costs one unit and one token; windows are counted, not timed, and end together |
| `KeyAccess` | the keys of one account: validation against the management calls and the detector | a policy is the number of edits behind it; hashes and tokens are left out |
| `CatalogSync` | the rows of one model, one price or one router tag, under pods that boot, pull and die | a document is what a feed says of those rows; its version is itself |
| `ServingCaches` | one row of one kind (model, price, route, listing, setting) in every pod's memory and in Redis | it reads 1 or 2; time passes in ticks; what is out of date is counted |
| `Connections` | one tenant's credential for one provider, on every pod | keys are numbered as they are saved; a client is its key |
| `Fleet`, `ControlPlane` | the pods of the two; the three modules above side by side | |
| `Conversation` | the agent loop: turns, common messages and the messages of five wires | texts, arguments and files are tags saying where they entered; the type `document` of `/v1/chat` is "pdf", as which every adapter treats it |
| `AnswerStream` | one streamed answer: provider, adapter, emitter, client | a piece of text is its number, arguments are the number of their fragments, usage the number of pieces it covers |
| `MessageEvents` | the abstract promise of a stream: one message, numbered blocks that nest, one end | |
| `Media`, `ImageSizes`, `Pricing` | images, speech, transcriptions, embeddings: requests, tasks, ledger, queue; sizes; costs | what admission asks is one choice; amounts are whole numbers (`Pricing` says of what) |
| `Adapters` | the conversation, the stream and the media requests side by side | |

How they compose. `ChatRequest` and `MessagesRequest` are refined against
`Failover` with the same mapping (`Commitment`, an `INSTANCE`), `AnswerStream`
against `MessageEvents` (`Protocol`). What the requests count as rows and bills
is where `UsageDebit` begins; the gate's verdict, free in them, is `WalletGate`;
the breaker's is `CircuitBreaker`; what an adapter makes of messages and chunks
is `Conversation` and `AnswerStream`; whether the key is good and the budget
holds is `KeyAccess` and `Limits`. They are kept apart because they share no
state except through those verdicts and counts, and their product is beyond
TLC. `ControlPlane` and `Adapters` put parts side by side that do share a
surrounding: a behaviour chooses one part and the others stand still, which
loses nothing since a part reads nothing of another's.

### Correspondence

**CircuitBreaker.** `BeforeCall` is `_before_call` with its three admissions,
`AExit` is `__aexit__` with its neutral throttled branch, `_on_success`, `_on_failure`. The
methods hold a lock and do not await under it, hence one action each; a call is
in `inFlight` in between. `probes`, `throttledProbes` and `lateExits` are
histories of the present half-open window.

**ImageJobs.** A submit looks its key up, inserts, commits and spawns
(`submit_job`); a unique index makes the loser of a race fail on insert. The
runner claims, renders, schedules billing and writes the outcome (`_run_job`);
the heartbeat touches the row; a poll reads and, if the row is stale, fails it
(`get_job`) in a second step. `Timely` says whether a live worker's touches
arrive before `StaleAfter`. A stop takes the process's tasks with it at any
place.

**ChatRequest.** `pc` walks through `_chat_once` / `_chat_stream_once`;
`failing` is the except clauses of `chat`, `chat_stream` and the hop layer, whose
three outcomes are `HopToBackend`, `FallBack` and `Raise`. `Retry` is
`call_provider`. `Leave` is GeneratorExit or CancelledError at an await of the
stream; `LeaveFailing` is the same while the failure is being recorded. A
request chooses at the start the tags it names, which backends serve them,
whether it streams, has MCP servers and an adapter that tells timeouts apart.

**MessagesRequest.** `Handler` is `handle`, `_handle_with_fallback` and
`_invoke`; `Producer` is `_produce`, `_pump` and the edge; `Body` is
`_stream_with_heartbeat`. `Raised` lists what can come up through the pump for
each kind of edge, before and after its first chunk, and `EdgeFails` what a
translating edge turns into an event of its own. `Leave` closes the body at any
place; `Cancelled` is the cancellation reaching the producer later.

**UsageDebit.** The writer records rows on a session, accrues and commits; the
biller debits and marks, on `/v1/chat` on the writer's session and on
`/v1/messages` on its own, by a lookup of the trace id that may find either row
of a hopped request or none. `DebitOutcomes` gives what payments did and what
the caller saw, separately. The worker selects open rows under
`FOR UPDATE SKIP LOCKED`, debits again under the same reference, marks and
commits. `WriterAborts`, `BillerAborts` and `WorkerAborts` are deaths.

**WalletGate.** The four steps of `_get_wallet_gate_snapshot` (`ReadSnapshot`,
`FetchBalance` or `FetchFails`, `ReadBaseline`, `StoreSnapshot`), the decision,
the reservation (`TakeSlot`, `BackOff`, `NeedsNoSlot`), the release in its two
commands (`ReleaseSlot`, `ClearSlots`), `RecordSpend`, `Debit`, `CacheDebit`;
`Credit` and `Invalidate` are payments and its callback; the three keys expire
by themselves. `lost` is a history of the reservations an expiry or the DEL of a
release wiped from the count.

**Limits.** A request walks through the checks of its route in order: the
windows are counted in one pipeline and added to in another; a budget or ceiling
is read, and when its counter is missing the ledger is summed and the counter
set (`GetCounter`, `SumLedger`, `Seed`); after the answer the row is recorded, the counters are incremented,
and the fee's counter is reseeded or incremented and, past the threshold, the
fee row inserted. Embeddings skip the account, as the code does. A command that
fails is free. `stale` and `leaked` are histories: counters set below the ledger,
and spend no counter saw.

**KeyAccess.** `Validate` is `validate_key` command by command with the hold
lookup of `api/deps.py`; `Call` starts a management call, whose transaction
looks, writes, purges the cache key by key, tells and commits; the detector is
one actor whose tick does that for every finding in one transaction. A written
row is locked to its end; others read what is committed. `Abort` is a statement,
commit or process that fails.

**CatalogSync.** `Boot` and `Pull` are the bundle's and the feed's way to a
reconcile, `ReadTables` reads and
plans (`SyncRegistry`, `SyncPricing`, `SyncRouting`), `CommitTables` applies the
plan at READ COMMITTED or is turned down by a unique index, `RecordVersion`
notes it. `PauseModel` and `SetMode` are the operator, `Midnight` the day a
price row begins on. `alone` is a history: nobody but copies of itself wrote
meanwhile.

**ServingCaches.** A look-up goes memory, Redis, table, and keeps what it found
(`GetModel`, `GetPricing`, `ListModels`, `ResolveMetaModel`, `AskRedis`,
`AskTable`, `KeepLocal`, `KeepShared`); an operator's call commits, clears
memory, clears Redis and publishes, each a step (`SetModelPause`,
`ChangeSetting`, `InvalidateCache`, `ClearLocal`, `ClearShared`, `Publish`); a
subscriber handles (`Handle`, `Load`), or had lost its connection
(`LoseSubscription`, `Subscribe`). A load of the settings, at `Start` or as `Load`,
may fail. A reconcile changes the row and tells nobody.

**Connections.** `Arrive` to `Answer` is a request resolving its adapter
(`get_overlay`, `resolve_tenant_adapter`, `get_tenant_adapter`) until it is
answered; `MarkInvalid` is `mark_invalid`; `SaveKey`, `DropOldSecret`,
`StoreSecret`, `WriteRow` are `upsert_provider_key` around custody;
`DeleteConnection`, `DeleteRow`, `Reverify`, `WriteStatus` the other calls;
`PublishChange` and `InvalidateOverlay` the message. A client that is found goes to
the end of the pool, one that is built too, and the first are evicted (`Touched`,
`Used`). `replaced` tells how long ago a key was the row's: a request may hold the row
for as long as it waited to read it or for as long as it was cached (`LongestHeld`),
and then waits for custody; that sum is the bound of `RotationTakesEffect`.

**Conversation.** `Ask` and `Return` add the client's turns, `Requesting` sends
them: `to_common` or `_convert_messages` and then what the adapter
makes of them (`ResponsesRequest`, `CompletionsRequest`, `GeminiRequest`,
`ConverseRequest`, `AnthropicRequest`); `Answer` is a provider's answer with the ids
and signatures that wire gives, `Fail` one that does not come. Every request may
go to another wire.

**AnswerStream.** `Provider` gives one event of its wire, the last of which the
adapter heeds (`Concludes`), passes over (`EndsIgnored`) or never gets
(`EndsUnsaid`); the adapter's handler
(`OnResponses`, `OnCompletions`, `OnGemini`, `OnConverse`, `OnAnthropic`)
assembles and surfaces chunks; `Emitter` yields one event at a time; the client
may leave at any of them. `ChatAnswer` is what the non-streaming call makes of
the same answer.

**Media.** `PostImage` … `PostEmbedding` admit, `Generate`, `TextToSpeech`,
`Transcribe`, `Embed` call the adapter (`Answers`), `PriceTokens` prices, the
tasks charge and record, uploads deliver. `Consume` is the consumer loop of
`main.py`, `Reappear` the queue's visibility timeout.

## 3. The runs

| Run | Instance | Shows |
|---|---|---|
| `breaker` | three calls, two probes, three successes to close | `ProbeAccounting`; `Recovers` |
| `jobs` | two submits, one key or none, one poller, timely workers, stops anywhere | `Idempotent`, `TerminalStable`; `NoZombies` |
| `ledger` | one request on either wire, with a hop, three attempts, two deaths | `DebitedMeansCharged`; `DebitsSettle` |
| `gate` | three requests on two units, a top-up, expiring keys, a leaked slot | `Truthful`, `SlotsBounded` |
| `chat` | three tags of which one a tenant's, one fallback, two backends, two tries | `Accounted`, `RepeatsSound`, `OneSource` (refinement); `Ends` |
| `messages` | a native, a translated and a tenant model, one fallback, two backends, a queue of two | `Accounted`, `FailureTold`, `OneSource` (refinement); `Closes` |
| `keys` | a key that exists and one that is minted and may expire, one caller, one admin beside the detector, one edit, one fault | `RevokedForGood`; `Settles`, `ToldComesTrue` |
| `limits` | two callers, one on embeddings, at limits of one to three; one fault, one end of the windows | `OvershootBounded`, `RateBounded`, `FeeOwed`; `PaidLifts` |
| `control` | two pods over two days and two boots each; a row of each kind; a credential replaced once, three writes of its row | `Converges`, `StaleBounded`, `PauseReaches`, `SettingsAgree`, `RotationTakesEffect`, `NotBilled` |
| `adapters` | conversations of five turns over five wires; streams of five pieces; media requests of every kind | `ContentKept`, `ResultsMeetCalls`, `OwnSignature`, `AnswerWhole`, `UsageReported`, `EventsInOrder` (refinement), `LedgerTellsCharge`, `RecordsKept`, `BilledAtCost`, `SizesFit` |
| `keys_capture` | one key that must not be captured | violation: the second request with it, served from the auth cache, is captured |
| `adapters_fallback` | as `adapters` | violation: a record whose send to the queue fails is nowhere, since the fallback to the table fails too |

The two violations are findings with the sentence they contradict quoted in
`PROJECT.json`. The other disagreements met are in section 5. Types are proved
for the breaker, the limits and both requests and are part of what is proved of the
gate, the ledger, the jobs, the key access, the streams and the control plane
(section 4); elsewhere `TypeOK`
documents the variables and was checked along the way, and no run repeats it.

**Why the bounds are enough.** Two candidates with a hop each are the four
attempts in which every order of fallback and hop occurs (a hop before and after
a fallback, a tenant's model in either place); more repeat these. A queue of two
lets the producer be ahead of, level with and held up by the body, and lets a
failure and the end both wait. Two tries show the retry loop taken and
exhausted. Three calls on two half-open places let a late completion, a throttled
probe and a second window overlap. Two submits are a race; a third meets the row
of the winner like the second. One request is enough for `UsageDebit`: requests
meet only in a round of the retry worker, which treats rows one by one, and a
hopped request puts two rows into it. Three requests on two units are the least
with which the gate goes from comfortable to capped to empty.

In `keys` two transactions meet on either row (an administrator's and the
detector's), a fill of the cache meets both, and one command, lookup or
transaction fails; a second caller would only fill the cache once more. In
`limits` two callers meet at the last place of every limit, and the limits are
small enough for a third request of theirs to be refused; `Lanes` follows one
limit at a time since they share only the ledger; `MaxSpend` (four) stops the
callers and lies above every bound the properties name. In `control` two pods
race on a reconcile and a day may change under them; an entry of one tick in
memory and in Redis, with a request of one tick, is the least in which a copy may
outlive the change by all three; the messages of one pod are merged (the handlers
clear or reload, so two equal messages are one), and whether one was lost is
followed only for models and settings, of which a property asks. One worker and
two keys are enough for the credential: workers share only the row and the
custody, and its other pods enter through the messages that reach it or do not. A
worker is a pod that resolves one request at a time, with a cache and a pool of its
own; two requests of one pod that miss at once and build a client each, under the
same key and version, are not modelled.
In `adapters` five turns are question, calls, results, calls, results: the least
in which the ids of two answers meet; two calls in an answer may come back in
any order, or with text and a file beside them; five pieces give thought, text,
call, arguments and an end in every order the wires allow. Two media requests,
two consumers and a batch of two let a message be in two hands, and `MaxCopies`
bounds how often a redelivery is followed. `Edges` has a value on each side of
every limit in the size tables.

What the bounds leave out by name: `BatchSize`, `PoolSize`, `MaxFiles` of one
and two; amounts in `Pricing` are whole, so a float's rounding at an exact tie
and that of the `Numeric(12,8)` columns do not show; `cu_to_dollar` is ten on
both sides and left out.

**Fairness.** `breaker`: time passes, calls end (provider reads have a
timeout), requests keep coming; `Recovers` assumes in addition that failures stop
and that throttled probes leave a place. `jobs`: tasks run, the provider answers
or times out, time passes, the client polls; nothing forces a stop. `ledger`:
tasks that do not die run on and `main.py` starts retry rounds for ever; deaths
are bounded (`MaxAborts`). `chat`: every await of the service ends. `messages`:
the handler and the body are weakly fair; the producer is strongly fair because
a full queue disables and enables it again and asyncio serves a queue's waiters
in order; and a provider's stream ends in some way (`EdgeStops`, strongly fair
for the same reason). `keys`: validations and transactions that began end, the
detector ticks, subscribers listen, and Redis expires what has a time to live;
new requests, calls, holds and faults are never due. `limits`: a request that
began ends, and the cached profile expires. The client leaving, deaths and
losses are never fair. `CHECK_DEADLOCK` is off where a behaviour ends: a request
that is over, a job that is done, a breaker that is stuck, pods that boot no
more, a bounded spend.

## 4. The proofs

| Module | Theorem | For every |
|---|---|---|
| `AdmissionProofs` | of the breaker: `BreakerTyped`, `ClosedHasFailuresToSpare`, `HalfOpenPlacesAccounted`, `HalfOpenOverrunBounded` | set of calls, thresholds, timeout |
| | of the limits: `LimitsTyped`, `WindowsBounded`, `RequestsSound`, `FeeCharged`, `OvershootKept` | finite set of callers, limits, threshold, lanes, faults, ends of the windows, spend |
| `AnswerProofs` | of image jobs: `SubmitsIdempotent`, `FinishedJobsStay` | number of submits and pollers, keys, bodies, staleness; the first timely or not |
| | of streams: `EventsKeepOrder`, `UsageIsReported`, `StreamedAnswerIsWhole` | wire, length of the answer, order of its pieces |
| | of media: `QueuedRecordsKept`, `LedgerTellsTheCharge`, `BilledAtListRates` | set of consumers, batch, redeliveries |
| | of pictures: `PicturesFit` | set of edges asked for |
| | of prices: `UnitsAtCost` | price row, markup, threshold, counts of tokens, wire |
| `ConversationProofs` | `EverythingIsShown`, `CallsMeetTheirResults`, `SignaturesStay` | number of turns, calls, files, set of tools and of types |
| `WalletProofs` | of the ledger: `TypedAlways`, `DebitedIsCharged` | number of requests, attempts, deaths, accruals |
| | of the gate: `NumbersAlways`, `NeverUnderstatesAlways`, `TruthfulAlways`, `CapHolds` | finite set of requests, balance, top-up, threshold, cap |
| `ChatRequestProofs` | `TypeCorrect`, `TimeoutIsLast`, `BilledForOne`, `ImplementsFailover`, `AttemptsAccounted`, `RepeatsAreSound` | tags, fallbacks, backends, tries |
| `MessagesRequestProofs` | `TypeCorrect`, `ImplementsFailover`, `DebitedOnce`, `AnswersAreBilled`, `AttemptsAreRecorded`, `SlotsGivenBack`, `AttemptsAccounted`, `FailuresAreTold` | tags, fallbacks, backends, queue length |
| `KeyAccessProofs` | `RevocationFinal` | set of keys, validations, administrators, faults, edits |
| `ControlPlaneProofs` | `SettingsAgreeAlways`, `PauseReachesAll`, `StaleBoundedAlways`, `NotBilledAlways`, `RotationTakesHold`, `CatalogConverges` | set of pods and workers, lifetimes, latency, waits, versions, size of the pool, prices, days, boots |

They rest on the named assumptions on constants at the head of each module
(`CallsAssumption`, `ThresholdsAssumption`, `NamesAssumption`, `TimeAssumption`,
`ExitsAssumption`, `UsageDebitAssumption`, `GateAssumption`, `ChatAssumption`, `MessagesAssumption`,
`KeyAccessAssumption`, `CachesAssumption`, `CatalogAssumption`,
`ConnectionsAssumption`, `LimitsAssumption`, `AnswerAssumption`,
`MediaAssumption`, `ConversationAssumption`), which TLC evaluates on every run. None of them uses fairness.
`FinishedJobsStay` has `Timely` as its premise: without it a late worker
overwrites what a poll decided (section 5).

**The inductive invariants.** Each property is the visible end of a stronger
statement; what was to be found is that statement.

- *Breaker.* `ProbeAccounting` says that places taken are probes in flight plus
  throttled ones less late completions. A completion takes a call out of
  `probes` only if it is in flight, so `AccountInv` adds `probes \subseteq
  inFlight`. The bound on probes follows because admission compares the places
  with the limit.
- *Jobs.* Answers agree because of where they come from: `OneRowPerKey` (the
  unique index), `CreatedAnswersItself`, `CommittedHasRow`,
  `ReplayAnswersSameKey`. An end stays because of who may still write the row:
  `JobSound` says that a worker that is alive has a row that has not ended and is
  younger than `StaleAfter`, `PollSound` that a poll is about to fail only a row
  whose worker is gone, or that another poll failed the same way.
- *Limits.* `RateInv`: a window and those who counted it and have not added
  themselves are together below the limit plus the callers. `FeeInv`: the month's
  counter, when it is there, holds what the ledger and the unsaved rows hold, and
  once they reach the threshold one of those rows belongs to a request on its way to
  the fee. `BudgetInv` has two sums for a subject: the spend and the requests let
  through (`Ahead`) stay within the room, and the counter lags behind the spend by
  no more than the requests not yet added to it (`Behind`, and `Beside` for those
  the budget does not check), the counters set too low and the spend that leaked.
  Admission turns the second into the first. `SoundInv` says what the place of a
  request tells of it, which each of these needs.
- *Ledger.* `Honest` follows a "debited" from the answer that caused it, through
  the biller, an unsaved session or the worker's marks, to the row: wherever it
  is, the money was taken. No step gives money back.
- *Gate.* A snapshot is fair because its balance was read before its baseline:
  `Sound` says that what payments holds covers what is not yet handled, that a
  balance fetched but not yet paired with a baseline covers what is recorded,
  and that a finished snapshot never shows less than the user has; `Covered`
  bounds every copy of a balance by what there was. For the cap, `Capped` counts
  who is counted: requests holding a slot never exceed the counter and the
  reservations wiped from it (`lost`), by the expiry or by a release that deletes
  a counter at zero.
- *Chat.* `TimeoutKept`: while a timed-out attempt is wound up its error stays
  the timeout, which no layer repeats. `Committed`: only the current attempt has
  sent or billed anything, and a hop or fallback is taken from one that has not;
  every move of the request is then a move of `Failover` to a later turn.
  `Settled`: every attempt before the current one has its error row and no slot,
  none after it has begun, and the current one's slot is where the handler's
  place says. `HopsApart`: a hop starts from a deployment's backend only.
- *Messages.* `Placed` ties the two tasks to the handler's place. `Ordered`: a
  producer not at its end has put neither an end nor an error, so that the body
  still reads, and what the body meters no longer changes; this is what makes
  `Committed` (one source, one bill, a hop only for a failure) and `Accounts`
  (every attempt that is over has its row, its bill and no slot) inductive.
  `Telling` follows a failure from the producer through the queue, where the end
  is never before it, to the client.
- *Streams.* `Aligned` ties the emitter's blocks to the one the client has open, at
  each place where the generator may be suspended; a move of the emitter is then a
  move of `MessageEvents`. `UsageInv` follows the usage from the provider: the last
  chunk has what it concluded with, the emitter has it from there, and what came
  ahead of the end is in the first chunk or reported and remembered. That the
  adapters' chunks are of that kind, however the pieces are assembled, is `AllHeard`.
- *Whole answers.* `WholeInv` adds to it what is on its way. `TextTold`: what was
  said is what the client has and at most one piece more, in the last chunk or in the
  emitter's. `CallsTold`: the calls the client has whole, those of the emitter's chunk
  (the client may have begun the first) and those of the chunks to come are the calls
  the wire has handed on by now, and those are, with what the adapter still keeps, the
  calls said (`Given`): one after the other (`Sequenced`), all at the end (`Gathered`),
  or each as it is closed, in any order (`Completed`), where that none is missing or
  there twice is a bijection between the two lists. `EndTold`: the last chunk's reason
  reaches the conclusion, and the emitter knows whether there was a call. `WholeCalls`
  is needed of Gemini alone, whose calls are never closed because they come whole. All
  but the text is said of answers that nothing unheeded has ended (`Followed`).
- *Media.* `MediaInv`: a record that was sent is in the queue, in the hands of a
  consumer or in the log, and what a consumer is about to delete is in the log
  (`MailInv`); nobody notes a failure of a request whose charge has begun, and the
  mark of a charge says whether there was a debit (`ChargeNoted`).
- *Prices.* `UnitsAtCost` is about the operators alone: for every row and every
  count of tokens the sum the code computes, with its subsets taken out of the
  input or not, is the list's. `BillInv` carries it to the requests, which ask only
  what can be priced (`Priced`).
- *Pictures.* `SizeInv` only carries what a request asks (a size of the table, or
  any two edges) to its call; the content is in the lemmas on the operators. Rounding
  keeps order and leaves a multiple alone (`RoundKeepsOrder`, `RoundExact`), so that
  cutting and aligning a size keeps its longer side, makes it legal, and changes a
  legal one no more. The nearest of the ten ratios is never of the other side: as
  multiples of 1/720 the fractions are integers, and the square would be nearer
  (`NotTurned`). The tiers, and the fixed sizes of the other models, are cases.
- *Conversations.* `TalkInv` is about the turns alone: answers and a client's turns
  alternate, the calls of an answer are numbered with ids of their own, the turn
  after it returns every one of them in order, and every block is tagged with its
  turn and place. That this is enough is in the lemmas on the operators. `Each`, by
  which the model says what becomes of turns, messages and parts, goes through
  concatenation (`GatherConcat`), and each wire turns a message into messages with
  its parts, none lost and none added (`WireOut`); so what a provider is shown are
  the parts of the turns, one turn after the other (`TurnsHeard`), and each part has a
  place: turns before it, and in its turn what stands before it (`TurnPlaces`,
  `PartOfTurn`). A result follows its call in the very next turn, so that an id used
  again later, or earlier, is never between the two. This is induction on the length
  of a sequence: the library states it of operators, which the provers cannot
  instantiate, so it is done here by the least counterexample (`LeastOf`), over sets
  in the place of predicates (`Counted`, `Appended`).
- *Keys.* A revocation is final because no transaction that is open can undo it:
  `Locking` (nobody writes a row that another open transaction has written) and
  `Faithful` (what a transaction is about to commit keeps the revocation of the
  row as it is now) say so of every transaction at every moment, with `Shaped` and
  `OnAccount` for what a transaction is. What no cache, validation or message
  carries can then only be read from the row.
- *Settings.* `Agree`: once nobody is on the way to tell, a pod that missed no
  message, and whose last load did not fail, holds the table's value, is loading it,
  or has a message waiting.
- *Pauses.* `Pausing`: a paused model is gone from Redis or its pauser is still
  clearing; gone from a pod, or the pod has a message, missed one, or somebody is
  still to publish; and no read begun since carries it.
- *Staleness.* `Aged`: for every copy, the time it has been out of date plus the
  time it has left is at most lifetime and latency (for a price in memory, Redis's
  besides), and a read under way is out of date no longer than it has run. The
  sum is what no step increases: a tick moves one from the second to the first.
- *Credentials.* `Loose` is the same argument for the cached row: the time since
  the tenant asked for no fallback plus what a row that accepts it has left is at
  most its lifetime, a request that read such a row has waited as long, and a
  mark or a check writes a status and never the fallback (`WriteIs`). That what is
  sent goes with its row's key is `OneKey`: whoever goes by a version of the row (the
  row, a cached copy, a request, a pooled client) goes by one key, which is why a
  pool keyed by version finds no other. `Rotation` is the argument of `Aged` with
  "replaced" for "out of date".
- *Catalog.* A plan is alone while nobody else writes but copies of it, so `Kept`
  says what those can have made of the rows since it read them: nothing, or what the
  plan would make of them itself (`Brought`, `Target`). Of prices, of which a day may
  hold several, less is true: they ask what the document asks, and if the plan is of
  today and read at most one price in force, today's row asks it and what it read is
  superseded, or what it read was that price already (`PriceSettled`). A copy of another
  day, or one that read several prices, keeps this too, which is where the first part
  is needed: a copy that found the rows changed found the document's price among them.

**Only model-checked.** All liveness (`Recovers`, `NoZombies`, `DebitsSettle`,
`Ends`, `Closes`, `Settles`, `ToldComesTrue`, `PaidLifts`): the prover has no rule
for fairness here. Every invariant and every other action property the
runs check is stated by a theorem.

## 5. Where the code and its words part

Besides the two violations above, modelling met these. The models contain them
as the code has them, unless it says otherwise.

- *Breaker.* Throttled probes keep their places: a half-open breaker whose probes
  were all throttled admits nothing for ever (`adapters/circuit_breaker.py:118`),
  although the module "Allows automatic recovery after failures" (`:5`); hence
  the premise of `Recovers`. Late completions give back places they did not take
  (`:163`), and late successes count towards closing; a client that hangs up
  counts as a failure (`:119`); a provider's 4xx on a streamed `/v1/messages`
  counts against the breaker, and not otherwise.
- *Jobs.* "nothing is billed for a lost job" (`services/image_jobs.py:18`): the
  billing task is scheduled before the result is committed (`:290`), and a stop
  in between leaves a billed job that reads `worker_lost`. A late success
  overwrites `worker_lost` and leaves the error in the row (`:239`), hence
  `Timely`.
- *Ledger.* "a raced double-insert loses on the constraint and is swallowed"
  (`services/platform_fee.py:13`): the loser's rollback (`:109`) takes the
  request's own usage row with it, and the debit that follows finds no row. After
  a hop the outcome may be marked on the failed attempt's row
  (`services/usage.py:241`), hence `~hopped` in `DebitsSettle`; a row may say
  `failed_permanent` although a debit whose answer was lost was applied.
- *Gate.* Spend between settlements "can't run past the balance"
  (`repositories/billing_repository.py:205`): a refresh pairs a balance that does
  not contain the undebited spend with a baseline that does (`:208`), so that it
  is invisible and a request passes a balance the ledger has used up. A snapshot
  fetched before an invalidation is stored after it. The slot key's time to live
  is renewed by every request, so a leaked slot lasts as long as the user keeps
  asking (`:39`). Reservations made between a negative DECR and its DEL are wiped
  from the count, as are those an expiry forgets; each lets one more request past
  the cap (`lost` in `SlotsBounded`).
- *Chat.* "Terminal: never retried and never hopped to another backend"
  (`core/exceptions.py:191`): `chat_stream` of the OpenAI, Google and Bedrock
  adapters turns a read timeout into an error without a status
  (`adapters/openai.py:918`, `adapters/google.py:955`, `adapters/bedrock.py:700`),
  which is hopped. `RepeatsSound` speaks of timeouts that are reported as such. A
  client leaving between the final chunk and the end of the stream is recorded a
  second time (`services/chat.py:1245`, `:1334`); one leaving while a failure is
  recorded leaves no row; one leaving inside the reservation leaks the slot; a
  stream that ends without a final chunk is not metered (the exceptions of
  `Accounted`). Docs promise "at most one hop per request"
  (`docs/BACKENDS.md:227`); the code hops once for every candidate.
- *Messages.* A translated stream yields `message_start` before it asks the
  provider for anything (`services/messages_v2/emit.py:131`), so it counts as
  committed and a fault before the provider's first byte reaches the client
  although another backend serves the model; `UpstreamRefused` says the core can
  "retry on another backend while the stream is still uncommitted"
  (`services/messages_v2/edges.py:84`). A blocked connection is answered without
  giving the slot back (`services/messages_v2/core.py:495`), and so is a client
  gone before the body's first step; a cancelled producer waits for ever to put
  its end marker when the queue is full (`:708`); a client that leaves while its
  stream is metered may cause a second row (`Leave`); a timeout is hopped on this
  wire.
- *Keys.* The cached keys are purged before the commit
  (`services/api_key.py:343`, `:422`), so a suspension is not "immediate on all
  instances": a request in between caches the key again for a full time to live;
  `Settles` is what remains true. The detector tells owners before it commits
  (`services/abuse_detector.py:392`). A hold that cannot be looked up is cached
  as no hold.
- *Limits.* A stale reseed lifts a budget, and rows that accrue after it are
  counted twice (`services/policy.py:247`): `stale` in `OvershootBounded`. The
  fee's counter may count a request twice or miss it, which `FeeOwed` tolerates.
  Embeddings neither check nor accrue the account's ceiling.
  `check_token_limit` has no caller, so token windows are written and never read.
- *Catalog.* After an upgrade the bundled catalog is applied at boot although it
  may be older than the feed ("NEWER" in `main.py` is an inequality), and the
  next pull sends the stored ETag and gets 304: the box stays on the bundle until
  the feed changes ("keep … current", `src/README.md:107`). Feed rows carry
  `is_paused = false`, so a reconcile undoes an operator's pause of a feed-owned
  model; feed prices overwrite those of a tag a local model shadows. Rival
  reconciles that interleave, or a day that changes between plan and commit, leave
  two active prices or a gap in the route's priorities: the premise of `Converges`.
- *Caches.* A comment says the Redis gate makes a retirement immediate
  (`services/router.py:112`), but a reconcile publishes nothing. A pause "takes
  effect immediately" unless a request read the row before it (`raced`). An
  invalidated price comes back from a Redis copy read before the clear. An error
  while Redis is cleared answers 500 with the pause committed and nobody told;
  publish errors are swallowed. A setting changed between boot and subscription,
  during a reconnect, or by a pod that dies before it publishes is never seen:
  the store has no time to live. Nor is one whose load fails. At boot the failure is
  logged and the pod runs on its environment (`main.py:125`), with the overrides in
  the table ignored; a reload that fails leaves the old value, its message is
  consumed (`core/cache.py:191`), and nothing loads again before another message or
  a restart. `missed` names all of these, and `SettingsAgree` speaks of the pods
  without. `app.state.adapters` is computed once
  at boot; `get_adapter_with_fallback` and `get_fallback_model` have no caller.
- *Connections.* `mark_invalid` goes by id, so a failure of a replaced credential
  marks its good successor, and no other pod is told
  (`services/connections.py:394`). A tenant with `fallback = "none"` is served
  and billed on the deployment's keys when the overlay cannot be read, the secret
  not revealed, the client not built, or the adapter does not serve the model;
  "never billed" (`db/models/connections.py:80`) is `NotBilled` with these
  excepted. On a conflict the old secret is deleted before the row names the new
  one; racing replacements or a crash leave the row's reference dangling.
  `_resolve_tenant_native` inserts into the "bounded LRU" without evicting
  (`:203`), and an eviction closes clients in use.
- *Conversation.* A result is to "carry the name from the originating tool_use"
  (`services/messages_v2/translate_in.py:179`), but Gemini's ids restart at
  `call_0` with every answer (`adapters/google.py:674`): an older result bears the
  newest call's name. "never a silent drop" (`translate_in.py:205`) is not so for
  every block. The completions wire has no place for files and drops
  `mcp_servers` and `reasoning_effort`; Bedrock turns `tool_choice` "none" into
  auto; text before results in one turn is sent before them.
- *Streams.* Gemini's stream does not keep the reason: one that hits the token
  limit ends as `end_turn` (`adapters/google.py:945`). A connection that closes
  without a terminal event is taken for an end. Of the events that end a stream of
  the Responses API the adapter heeds `response.completed` alone
  (`adapters/openai.py:892`), while the API ends an answer cut short with
  `response.incomplete` and a failed one with `response.failed`: the loop passes
  over both, no final chunk comes, the client reads `end_turn` (`tool_use` after a
  call) without usage, and the request is recorded with no tokens and not billed, although the event has the
  total and `chat()` (`:703`) answers the same response with `length` and its usage.
  The branch for the status `incomplete` at `:897` stands under
  `response.completed`. `EndsIgnored` is that end; `AnswerWhole` promises only the
  text of it and `UsageReported` nothing (`Noticed`). Structured output streamed on the
  Anthropic and Bedrock wires arrives as a tool call.
- *Media.* The images billed are `request.n`, those delivered may be fewer
  (`adapters/base.py:781`, `services/image.py:447`): a safety block at Gemini is an
  answer without images, billed. Speech without a store logs with an unknown
  keyword and raises after billing, so that "Fallback if no storage configured"
  (`services/audio.py:355`) never happens; with a store that fails it raises after
  billing too, and the two tasks of the trace race for the debit mark: speech is
  outside `LedgerTellsCharge`. A row priced per token with no usage reported bills
  `n` tokens. Edits ignore the qualities `low`, `high`, `xhigh` and `max`. Google's
  embeddings skip texts without one, and the indices shift. The ratio "2:1"
  becomes a square without a word; the rule for "21:9" is dead; a height of zero
  divides by it (5xx). A model that is paused or not configured fails without a
  row. Without a price row the wire that counts cached tokens beside the input gets
  them free; the quote ignores the long-context tier. The consumer of the queue
  may insert a record twice.

## 6. Not modelled, and what may follow

Left out for good: formatting and validation, sampling and response-format
parameters, MCP bodies, hashing and tokens, metrics, logging and traces, the S3
client, the console, migrations and scripts, reports that only read, the
clustering rules of the abuse detector, address checks of the egress guard. The
Gemini context cache is left out because no promise of the gateway rests on it,
credits because nothing calls what changes them. `PROJECT.json` lists what a
partly modelled component leaves out.

What may follow, in this order:

1. The models and endpoints a tenant registers of its own, with their overlay, and
   the closing of evicted clients under requests in flight, in `Connections`.
2. Several budgets on one key and the ceiling's two steps by age, in `Limits`.
3. `UsageDebit` with the monthly counter of `Limits` in place of its free accrual.
4. Speech as `LedgerTellsCharge` would want it, once storing and billing change
   their order.
