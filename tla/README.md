# forge-lab in TLA+

A verification project for the laboratories of this repository (`src/P00-…` to
`src/P12-…`). Each laboratory is a small Python program about one hard idea:
idempotent webhooks, circuit breakers, retries, cursors, tenants on pooled
connections, acknowledged queues, clean shutdown. They share no code and never
call each other, so the project is one family of modules per laboratory; within
a laboratory the parts that do interact are composed in one specification.

| laboratory | module | checked by | proofs |
|---|---|---|---|
| P01 order normaliser | `OrderNormalizer` | `MCBatchAndLog` | `BatchAndLogProofs` |
| P02 concurrency race | `ConcurrencyRace` | `MCLabScripts` | `LabScriptsProofs` |
| P03 task API | `TaskApi` | `MCTaskApi.cfg` (violation) | – |
| P04 lifespan and jobs | `Lifespan` | `MCLabScripts` | `LabScriptsProofs` |
| P04 script that runs the server | `ServerDriver`, over `Lifespan` | `MCLabScripts` | `LabScriptsProofs` |
| P05 retrying client | `RetryClient` | `MCRetryClient` | `RetryClientProofs` |
| P06 circuit breaker and token bucket | `ProviderGuard` | `MCProviderGuard.cfg`, `MCProviderGuardDefaults.cfg` and `MCProviderGuardSlowRefill.cfg` (violations) | `ProviderGuardProofs` |
| P07 cursor pagination | `CommentPages` | `MCCommentPages`, `MCCommentPagesLate.cfg` (violation) | `CommentPagesProofs` |
| P08 webhook inbox | `PaymentLedger` (abstract), `WebhookInbox` | `MCWebhookInbox` | `WebhookInboxProofs` |
| P09 schema guard | `SchemaGuard` | `MCLabScripts` | `LabScriptsProofs` |
| P10 query clinic | `QueryClinic` | `MCLabScripts` | `LabScriptsProofs` |
| P11 tenants and the pool | `TenantPool` | `MCTenantPool.cfg` | `TenantPoolProofs` |
| P12 RabbitMQ consumer | `RabbitConsumer` | `MCRabbitConsumer.cfg` | `RabbitConsumerProofs` |
| P12 Kafka log and comparison | `KafkaLog` | `MCBatchAndLog` | `BatchAndLogProofs` |

`MCLabScripts` puts five specifications that share nothing side by side: a variable,
`lab`, chosen at the start, says which of them moves. Their behaviours are those of
each alone; one run checks them all. `MCBatchAndLog` does the same for two programs,
with the variable `program`.

`PROJECT.json` gives, for every definition that models code, the file and the
lines it stands for.


## Inventory

### P00, the environment
A greeting printed by a package. No state; not modelled.

### P01, order normaliser (`order_normalizer`)
`process_file` truncates two files, reads a JSONL file line by line and writes each
line to one of them, as a normalised order or as a rejection with a code. State: the
two files with what their buffers hold, the order ids seen, the summary's counters.
Hard: the summary must agree with the files and the files with the input (each
line in exactly one, in order, no order id twice); a write, or the flush when a file
is closed, that fails in the middle; lines that raise something other than a
rejection. Properties: a batch that returns is complete, files have no holes, no
failure is silent.

### P02, concurrency race (`concurrency_race`)
`run_experiment` measures six strategies (coroutines one by one and together, calls
that block the loop, threads, processes) with the same work, each several times, while a
heartbeat task on the same event loop records how late it wakes up; `asyncio.wait_for`
puts one deadline on the whole race. State: the measurement under way with its
heartbeat and its calls, the results and delays so far. Hard: the heartbeat must
have begun before a call blocks the loop; calls finish in any order; a deadline
finds threads and processes that cannot be cancelled; a process of the pool dies.
Properties: blocking is seen in the delay reported, results are in the order of
the inputs whatever the order the calls finish in, nothing of a measurement outlives it, the race ends.

### P03, task API (`task_api`)
`TaskService` over a `TaskRepository` (a dictionary). Operations: create, get,
complete. FastAPI runs the handlers, which are plain functions, in a thread
pool. Hard: `complete` reads, decides and writes with no lock in between.
Property: a task is completed once.

### P04, lifespan, jobs and journal (`lifecycle_api`)
`lifespan` opens two components through an `ExitStack`, serves, and closes them;
routes schedule background jobs; every event is appended to a JSONL journal that
outlives the process. State: the stack, the components' flags and counters, the
jobs under way, the file. Hard: failures while opening or closing either
component, an append that raises at any point, a kill at any point, jobs still
running when the process is asked to stop. Properties: what was entered is closed
exactly once; the journal tells the truth about jobs across processes.

`scripts/run_experiment.py` runs that server as a subprocess in four scenarios
(a graceful stop, a crash under a job, a failed start, a failed stop) and judges the
journals. State: the scenario, the wait it is in, the exception on its way out.
Hard: every wait has a deadline that may pass; SIGTERM may come before uvicorn
heeds it, or find a server that does not stop. Properties: no server outlives its
scenario; the verdict says what became of the components and the job.

### P05, retrying client (`retry_client`)
`RetryingProviderClient.call` sends an operation, through tenacity if it may be
repeated, with a budget of attempts, exponential back-off with jitter, and
`Retry-After`. State of a call:
the attempts made, the waits, the answer. Hard: operations that must not be
repeated when their outcome is unknown, the cap of the back-off, `Retry-After`
in seconds and as a date. Properties: a retry is justified, a wait is long
enough and bounded, the decision follows from the last attempt.

### P06, provider guard (`provider_guard`)
`ProtectedProviderClient.fetch` calls the provider inside a circuit breaker
(pybreaker, external) and takes tokens from a bucket there. State: the circuit,
its failure count and the instant it opened; the tokens and when they were last
counted. Hard: the circuit reads the wall clock and the bucket the monotonic one,
errors that do not count as failures, a probe after the rest that the bucket may
refuse, fractions of tokens. Properties: the rate bound over every interval, the
provider left at rest while the circuit is open, the circuit opens only for what the
provider did and closes without its success only where the probe had no token.

### P07, cursor pagination (`paginated_contract`)
`CommentFeed` serves pages by cursor and by offset; `fetch_all` walks a provider
until there is no next cursor. State: the comments, the insertions scheduled
after pages, a walk's items and cursors. Hard: the collection changes between two
pages; the provider may be wrong. Properties: a completed walk by cursor holds
everything that was there and nothing twice; the client stops.

### P08, webhook inbox (`webhook_inbox`)
`WebhookReceiver` authenticates a delivery and stores it in the inbox;
`WebhookWorker` applies it to the effect store and marks it. Two stores in memory and
the order of arrival are the state. Hard: deliveries repeated, altered, late or out
of order; a crash (an exception injected at either of two points) before the effect,
or after it and before the mark. Properties: an effect is
applied at most once, a capture only after its authorisation, the answers agree
with each other, and every stored event is settled.

### P09, schema guard (`schema_guard`)
The script takes the schema down and up by its Alembic migration, sets up two
tenants and an order, probes each constraint with a row that must be refused, inserts
the same `external_id` for the other tenant, and takes the schema down and up again.
Its README's consumers look an order up before they insert it. State: the database's
version, tables and rows, and what is open: a migration, a transaction, a
consumer's order. Hard: two consumers that both find nothing; a run killed anywhere,
and run again; orders that commit between the script's statements. Properties: the
version is the schema there is, what is committed obeys the domain, a run that
comes to its end saw each probe refused by its own constraint.

### P10, query clinic (`query_clinic`)
The script drops and seeds a schema by arithmetic on the row number, explains two
queries under different indexes, and compares N + 1 queries with a JOIN. State: the
tables, indexes and statistics, the plans taken, the rows read. Hard: every statement
commits by itself, so a killed run leaves anything behind; the seed's arithmetic has to
agree with the validator's and stay within the integers; plans must be taken under
the indexes their labels name. Properties: each plan has its indexes, its full
table and a full page to find; both access patterns read the same rows.

### P11, tenants and the pool (`tenant_guard`)
Requests borrow connections of a pool, set the tenant in a transaction or on the
session, and read or insert documents under row-level security. State: each
connection's session and transaction value, the documents, who holds what. Hard:
what a request leaves on a connection meets the next one; exceptions and broken
connections at every step. Properties: the safe entry point sees only its own
tenant whatever ran before it, a leak needs the insecure entry point, every
request ends.

### P12, Kafka versus RabbitMQ (`broker_models`)
`rabbit_demo` purges its two queues, publishes events to one and a probe to the
other, takes the probe, and consumes the events with handlers that acknowledge
one by one, rejecting the first event's first delivery; `kafka_demo` produces the
same events to a log, reads them and commits offsets at the end, then reads again;
`comparison.py` judges what was read. Hard, on the RabbitMQ side: handlers, the coroutine
that waits for them and the broker interleave; a connection is lost before an
acknowledgement arrives; with a prefetch of one everybody waits; an earlier run that
failed has left messages behind. Properties: what
is returned holds the whole story, nothing leaves the queue unrecorded, the run
ends. On the Kafka side: a record that is in the log twice, offsets of an earlier
run, a run that fails before or after its commit. Properties: what is committed was
read, no reader waits for ever, the comparison's verdict is right.


## How the modules correspond to the code

**`WebhookInbox`** (P08). `records` and `arrival` are the inbox's dictionary and its
order, `processed`, `authorized` and `effects` the effect store, and `worker` the point
`process` has reached with the record it read. `Deliver` is the whole of
`WebhookReceiver.receive`, each check in the code's order and with the code's answer.
`process` is split at its two crash points (`Load`, `ApplyOnce`, `MarkProcessed`), so
that deliveries fall between any two of them. HMAC is perfect; a body is a value and
`Parse` a table of what the schema makes of it. The clock is finer than a second, which
the comparison with the timestamp cuts off (`Timestamp`): a message is taken up to just
less than one second after its window, and `StoredAreAuthentic` says so in ticks. **`PaymentLedger`** is what the inbox
promises: an event that is known is settled once, applied or rejected, and a capture
is applied only after its authorisation. `ImplementsLedger` is the refinement, under
the mapping at the end of `WebhookInbox`.

**`ProviderGuard`** (P06). Time is in ticks and tokens in units, so that what one tick
earns is a whole number. `now` is the wall clock, which pybreaker reads, and `uptime` the
monotonic clock, which the bucket reads; `Tick` advances either or both, and `MaxSkew`
bounds how far they part. A call of `fetch` is one of three actions: the circuit refuses
it (`Reject`), the bucket does (`RateLimit`), or it reaches the provider (`Request`);
`ReadTokens` is the property that refills the bucket when read. pybreaker is modelled
from how `circuit.py` configures and uses it, with the success that an excluded error
amounts to.

**`TenantPool`** (P11). One action per statement a request executes (`Acquire`,
`ClearLegacy`, `Begin`, `Observe`, `Insert`, `Finish`); `Fail` is an exception and
`Lose` a broken connection, at any of them. `setting` is the value of `app.tenant_id`
on a connection, with what a commit or a rollback would make of it.

**`RetryClient`** (P05). One call at a time, from `Call` to its decision. `SendOnce` and
`SendSafe` are one request and its outcome; the delay is computed as `_wait_seconds`
does, with the jitter's draw from a set of percents and `Retry-After` in seconds, as a
date, or garbled; `Wait` is the sleep.

**`CommentPages`** (P07). A comment is its id and a page the set of its ids.
`AddComment` and `ScheduleInsert` change the feed; a page executes the insertion
scheduled for it after it was computed. `fetch_all` takes one action per page, over the
feed (`ReadFeed`) or over a foreign provider that answers anything of the right shape
(`ReadForeign`); `ReadOffset` is the walk by offset. Two facts show in this model: the
bound on ids a cursor carries is redundant, since ids below the cursor are below the
snapshot too; and the boundary of a walk is by id and not by time.

**`RabbitConsumer`** (P12). `queue` is the broker's view of each message (ready,
unacknowledged, gone); `tasks` are the callbacks aio_pika created, each with
the event it has and the point it has reached; `outbox` holds the frames that were
sent and not written, acknowledgements, rejections and the cancel, and `wire` those the
broker has not taken. `main` goes through the set-up (`Purge`, `PurgeAlternate`,
`PublishEvent`, `PublishProbe`, `GetProbe`, `AckProbe`), over queues an earlier run left
in any state, then `SeeFirst`, `Release`, `SeeAllAcknowledged`. A step of the model is what runs between two awaits.
`LoseConnection` returns every unacknowledged event to the queue and leaves the
handlers of the old channel running, as a robust connection does.

**`Lifespan`** (P04). `stack` is the `ExitStack`, and one action opens or closes
one component with the entries it writes; `DiskError` is an append that raises
with the line in the file or not. `Kill` loses all but the file. Jobs run in the
pool after their response; uvicorn waits for them before it ends the lifespan.

**`ServerDriver`** (P04's script) extends `Lifespan`: the subprocess takes the server's own
steps, and `driver` is where `run` stands, one action per wait of the script. A wait
may end in its answer, in the death of the server or in its deadline, the wait for a
killed server included. `signalled` is
SIGTERM: it kills before uvicorn has installed its handlers and stops gracefully after.
`final` remembers what each server had done, whatever its journal says of it.

**`ConcurrencyRace`** (P02). `main` is where the coroutine of `measure` stands, `item`
the state of each call, `finished` their answers in the order they came, `starved` how long the loop has been blocked since the last beat.
`RunBlocking` is a workload without an await: nobody else moves until it ends. Durations
are constants, the heartbeat may wake up to `MaxLag` late, and `cpu_work` is computed.
What a workload returns is made of `finished`: a loop appends the answers as they come
(`Appended`), `gather` asks each of its calls for its own (`Gathered`). A cancellation does
not reach the calls that run, nor those the process pool has handed over to its queue.
Leaving the process pool blocks the loop (`JoinPool`); asyncio.run waits for the threads
of its executor (`EndRace`).

**`SchemaGuard`** (P09). `stage` is the statement the script is at; `ddl` an open
migration with the tables as it sees them, `tx` the script's open transaction with
what it deleted and inserted, `writer` each consumer. Transactions are READ
COMMITTED: a statement sees what is committed and what its own transaction did
(`Seen`), and waits for whoever has an uncommitted row it conflicts with. `Refusal` is
the migration's constraints, one after the other in the order PostgreSQL looks at them. `KillScript` rolls
back what is open.

**`QueryClinic`** (P10). `Statements` is the sequence of statements of a run, and an
action executes the one `step` is at. Rows are their numbers, with the seed's arithmetic on
them; a plan is the chain of its nodes, any of those the indexes allow (`MayPlan`); which
of two rows that tie comes first is PostgreSQL's choice (`Answers`).

**`KafkaLog`** (P12). `step` is how far `run_kafka` is and a partition the sequence of
its records. `SendUnanswered` is a record that reached the log and is sent again;
`position` belongs to the consumer of the moment and `committed` to the live group.
Half a second may pass before a record that is there arrives (`FindNothing`). `Fail` is
a timeout, an exception or a kill; `ResetTopic` is the start of the next run, before
which a group is assumed to lose its offsets with the topic, as Kafka does. The
operators under *comparison.py* are its functions.

**`OrderNormalizer`** (P01). A line is what pydantic makes of it: an order with its id,
the first issue of its validation, or one of the two that raise. `buffer` is what a
stream was given and the disk has not; every write may move any part of it
(`Spill`), and a write that fails drops an end of it. One that raises is bytes that are not UTF-8 or a value too large
for `quantize` or `astimezone` (`TooLarge`). The `ExitStack` closes
`rejected`, then `valid` (`CloseFile`, `CloseFails`).

**`TaskApi`** (P03). A thread is idle, about to read (`GetTask`), or about to write
(`UpdateTask`) the copy it made of what it read. The dictionary's own operations are
atomic (CPython); the pair is not.


## Runs and what they show

Sizes are distinct states. Every run finishes within two minutes.

| run | what it shows | bounds, and why they are enough |
|---|---|---|
| `webhook_inbox` (12,803) | Under every order of deliveries, duplicates, rival bodies, stale or altered headers, direct calls of `process` and crashes: at most one effect per event, statuses that match effects, authentic records, consistent answers; the ledger is implemented; every stored event is settled, and a capture that arrived after its authorisation fails only if `process` was called for it directly. | Three events (an authorisation and two captures, one of another order), a rival body under one id, one body that does not parse, two readings of a clock of two ticks per second, one of them between two seconds, messages signed at three instants, a window of one second: both sides of the window, both causes of conflict, every pair of events in both orders, and one event that can be processed out of turn. |
| `provider_guard` (457,466) | The rate bound over every interval, rest while the circuit is open, what opens the circuit and what closes it (`ClosesUnprovedOnlyWithoutToken`). | Threshold 2, a rest of 2 ticks, room for two calls, half a call earned per tick, 6 ticks of each clock, the two at most one tick apart: the circuit opens, probes, fails and recovers, the bucket is empty and full, and a probe finds a token or, where the monotonic clock lags, none, in one behaviour. |
| `retry_client` (310,386) | What is retried, how long the client waits and what it returns. | Four attempts, so that the cap of the back-off is reached; jitter at its two ends, across the cap, and out of range; hints in seconds (negative, and above the cap), dates past and ahead, and garbage. |
| `tenant_pool` (28,056) | Isolation through the safe entry point and where a leak comes from (`ReadsExplained`), contexts that die with their transaction, writes by owners only, and that every request ends. | Two requests, two tenants and ONE connection: every request meets what the one before it left. More connections only separate them. |
| `comment_pages` (374,720) | What a completed walk holds, by cursor and by offset (`WalksComplete`), why one fails, and that the client stops. | Seven ids, two of them negative, pages of two, up to three pages, insertions scheduled one page ahead: comments appear above, inside and below what was read, a page is just full, the last is short, and there can be one page too many. |
| `rabbit_consumer` (114,606) | What is returned and what is in the queues agree (`ReturnsWholeStory`), the first event blocks the others with a prefetch of one, the run ends. | Two events, prefetch one and two, one lost connection, every state an earlier run can have left: the smallest instance with a handler that waits and another behind it. Three events (3.8 million states) were checked too and showed nothing else. |
| `batch_and_log` (219,768) | P01: a returned batch is complete and its summary right, and whatever fails a file holds a prefix of what it should (`FilesTruthful`); every failure is told. P12, Kafka: committed offsets were read and readers do not starve (`OffsetsSound`); the comparison says an order was preserved exactly when it was. | P01: inputs of up to four lines: an id twice, a missing and an unknown currency, which share a field, and both kinds of line that raise, in every order. P12: two orders with two events each, two partitions (shared by the orders or not), two records sent twice, any number of runs. |
| `lab_scripts` (250,234) | P02: blocking is seen, results are in the inputs' order, nothing outlives its measurement, the race ends. P04: components are closed once and jobs accounted for, by the server alone and under its script; no server outlives its scenario and the verdict is justified. P09: the version is the schema, the domain holds, probes are refused by their own constraints. P10: plans under their indexes, access patterns that agree. | P02: three calls per workload, two repetitions, one process and two threads, so that calls run together and finish in every order, wait for a worker, and are found queued, handed over and running by the deadline. P04: two processes alone, so that entries of one meet the other's, all four scenarios under the script, two jobs, one entry that raises anywhere. P09: two consumers and three starts, so that a run follows one cut off by a kill and one more follows that. P10: seeds of 8, 18 and 24 rows for two or three tenants and customers, valid and not, the largest beyond the integers; two starts. |

Deadlock is checked in every run. Where the code really stops, as a consumer's run
does, the module has a step that only stutters; a finished call or walk starts the next
one, and in `MCLabScripts` a laboratory that has ended stutters.

### Violations: where text and code disagree

- `provider_guard_defaults`, **`OpensAfterThreshold`**. P06's README says three
  consecutive failures open the circuit. The code excludes the bucket's refusal
  from the failures, and to pybreaker an excluded error is a success that resets
  the count: with a refusal in between, the last three requests the provider
  received failed and the circuit is closed.
- `provider_guard_slow_refill`, **`TestCallDecides`**. P06's README (36, 74) says that
  in half-open a test call decides whether the provider has recovered. The bucket is
  asked inside the circuit, and its refusal of the probe, an excluded error again,
  closes the circuit: no request was sent. The run has a policy that `model.py` accepts,
  three tokens and 0.1 of a token per second, where three failures leave no token for a
  probe after five seconds. With the default policies the same takes two clocks that
  part during the rest; `ClosesUnprovedOnlyWithoutToken` says what holds for all.
- `task_api_concurrent_completion`, **`CompletedOnce`**. P03's README says the
  second attempt to complete a task gets 409 and changes nothing. Two attempts in
  two threads may both read the task pending and both succeed.
- `comment_pages_late`, **`LateStaysOut`**. P07's README (27-28) says that a comment
  created after the start does not enter the reading. The snapshot bounds ids and not
  instants, and `add_comment` accepts any unused id: one below the last delivered is
  delivered by the same walk. (An id the feed gives itself is above the snapshot and does
  stay out.)

More that the models show, without a run of its own:

- P01: one line may end the batch, where its README (28-30) says a failure in the data
  rejects only the line: an amount of more than 26 digits makes `quantize` raise
  `decimal.InvalidOperation`, a date at the edge of the calendar makes `astimezone` raise
  `OverflowError` (models.py, 37), and bytes that are not UTF-8 raise while the source is
  read, even before earlier lines of the same block. `FailuresAreTold` names these
  lines as the only cause besides the system. And a small output is flushed when it is
  closed: the disk's refusal then is an `OSError`, not `OutputWriteError`.
- P04: if the disk fails on the entry `…_started`, the component stays active and is
  not closed, for the entry precedes the `try` (`ClosedOnce` says what remains true).
- P07: its README (40-41) says that the client
  interrupts on a duplicated item; a page is compared with earlier pages and not with
  itself. `ClientIsBounded` states what holds.
- P12: after a lost connection and with a prefetch above one, a handler of the old
  channel counts its event as acknowledged although its `ack` raises, so the run may
  return without that event's record. `ReturnsWholeStory` says so: with a connection
  that holds nothing is missing, and what is missing otherwise is such an event's.
  And "the group resumed at the end" is reported when nothing came within
  half a second, even if a record was left; `ReportTruthful` is about the rest.
- P10: the validator accepts row counts whose seed does not fit in a PostgreSQL
  integer (`sequence_number * 97`); the seeding then fails with nothing inserted.
  `AccessAgrees` names it as the only failure of a run that is not killed.
- P09: an order that a consumer commits between the script's two deletions, or before it
  inserts its own, makes the script fail with an `IntegrityError`, and never with a
  wrong report (`ProbesNamed`).


## Fairness

Four runs state liveness.

- `webhook_inbox`: someone keeps calling `process_next` (weak fairness of
  `Load`), and no step of `process` is crashed every time it is tried (strong fairness
  of `ApplyOnce` and `MarkProcessed`). The crashes are injected by tests; a worker that
  always crashes settles nothing.
- `tenant_pool`: a request goes on with its own statements, and observes at least once
  (weak fairness: nothing it executes blocks); one that waits gets a connection that
  is released again and again (strong fairness of `Acquire`: psycopg_pool serves its
  waiters in order of arrival).
- `rabbit_consumer`: the broker delivers what it may and takes the frames that are
  written, and the event loop runs what is ready (weak fairness). Of the timeouts,
  only the suppressed wait of 0.25 s for the second delivery is needed; the others,
  which fail the run, are never forced.
- `lab_scripts`, in the behaviours that are of P02 (`RaceFairness`): the event loop runs
  what is ready, sleeps end, calls finish and a pool's processes come to rest (weak
  fairness). No deadline and no death is forced, and none is needed for the race to end.


## Proofs

TLAPS proves, for every value of the constants, the theorems listed in
`PROJECT.json`. Each proof module has the same shape: an inductive invariant,
a conjunction of named parts, a lemma for the initial states, one
lemma per action, the theorem that it always holds, and one theorem per
property that follows from it.

- **`WebhookInboxProofs`**: types, all the safety properties and the refinement of
  `PaymentLedger`. The effect of an event and its status do not change together: the
  invariant relates the two through the point the worker has reached
  (`WorkerHoldsRecord`: the record it read is still the stored one, and past
  `apply_once` the effect is there), and the sets of the effect store to its list
  (`StoreAgrees`). `ArrivalOrderSuffices` needs three facts more (`ArrivalIInv`): only a
  capture fails; an event that `process_next` took had nothing settled to wait for before
  it; and one that failed in its turn had no authorisation of its order ahead. That what is
  stored was received within the window, give or take a second that is cut off, is
  arithmetic on any number of ticks per second (`FreshIsWithin`). Assumes
  `InboxAssumption`.
- **`ProviderGuardProofs`**: the rate bound, from an invariant about every request of
  the past (`BucketAccounts`: the tokens left and the cost of the requests since then
  fit in a full bucket and the refill), so that the lazy refill neither loses nor gains;
  and the three theorems on the circuit, from what it remembers of the last requests
  (`CircuitRemembers`). That a circuit closes unproved only where the probe had no token
  rests on the bucket: since the request that opened the circuit nothing took from it, so
  it holds at least what its clock has earned since (`OpenBucketRefills`). Nothing is assumed
  of how fast it refills, nor of how far the clocks part. Assumes `GuardAssumption`.
- **`RetryClientProofs`**: `CallJustified` and `WaitsRespected`. While a call is under way, everything
  it sent failed for a while and there is budget left, and the instant of the next
  request keeps the promises about the wait before it. Assumes `RetryAssumption`, and
  `PowersAssumption`, that a power of two is a natural number, because the provers do
  not know exponentiation; TLC evaluates it on the powers the run uses.
- **`TenantPoolProofs`**: types, `ReadsExplained` (isolation and where a leak comes from),
  and two action properties. A connection has one holder, whose place in its code says what is on the
  connection (`Holds`); one that nobody holds is outside any transaction (`Resting`);
  and a tenant that a rollback would leave on it was put there by an insecure read
  (`LegacyIsKnown`). Assumes `PoolAssumption`.
- **`CommentPagesProofs`**: types, `WalksComplete`, `FeedFailuresExplained` and
  `ClientIsBounded`, for any feed, page size, page limit and foreign provider. By cursor, everything that was
  there at the start and is not older than the last comment read has been read
  (`CursorAt`); by offset, additions only push a comment further from the top
  (`RankGrows`), so what has not been read lies beyond the offset (`OffsetAt`). Assumes
  `PagesAssumption`.
- **`RabbitConsumerProofs`**: types, `ReturnsWholeStory` and `BlockedByFirst`, for any
  events, any prefetch and any number of lost connections. None of them is inductive:
  that a message is gone only after its ack was recorded depends on where every frame
  is. The invariant follows a delivery from the broker to its handler, the outbox and
  the wire: a frame belongs to a handler of the current connection that is
  waiting for it, no two frames answer one delivery, and an unacknowledged message has exactly one
  delivery that can still answer it. On top of that stand the records: what is told of
  an event in `deliveries`, and in which order, for each point its
  deliveries can have reached; and, with a prefetch of one, that whoever started after
  the first did so after its release. Assumes `ConsumerAssumption`.
- **`BatchAndLogProofs`**, two programs that write what they read.
  *P01*: `FilesTruthful` and `FailuresAreTold`, for any input. What is on disk and in the
  buffer of a stream is, together, what the lines read so far should have written to it, as
  long as no write failed, and a prefix of it once one did; the ids seen are
  those of the orders written, and the summary counts the lines of both
  streams. Where the batch stands tells which of the two streams are open and why it
  raises. Assumes `BatchAssumption`.
  *P12, Kafka*: `OffsetsSound` and `ReportTruthful`, for any events, partitions and hash of
  the keys. The log of a partition is what was sent to it, in its order, each record
  perhaps more than once; a reader has got exactly the records before its position, once each,
  and what is committed is a position of the live group or the start. Counting does the
  rest: a reader that waits has read fewer records than events, so some are left. A reader that read all
  events and each key in its order has read no repeat, which makes the
  comparison's test of sequences the same as the order published. Assumes `LogAssumption`.
- **`LabScriptsProofs`**, the programs `MCLabScripts` checks side by side.
  *P02*: `BlockingIsSeen`, `ResultsInInputOrder` and `NothingOutlives`, for any inputs,
  durations, lag and pool sizes. A call that blocks begins only after the first beat: the
  heartbeat then sleeps through it and wakes up late by what was blocked, or has, and its
  worst delay shows it (`HeartbeatSound`); the answers are of different
  calls (`AnswersSound`), of all of them when the workload returns, and the first calls in
  their order where one runs at a time, so that both ways of putting them together give the
  outputs of the inputs (`CollectedInOrder`); and a measurement is left only when its calls are done or dropped (`CallsSound`). Assumes
  `RaceAssumption`.
  *P04, the server*: types, `ClosedOnce` and `JobsAccountedFor`, for any number of
  jobs, processes and disk errors. The phase determines the stack and the stack
  which components were closed (`StackKnown`); while the disk never failed the
  journal shows the same (`ClosingsShown`); a process writes of jobs between two
  entries of its own (`Announced`, `NotYetDown`); and what became of a job tells
  which entries it has (`JobKnown`). Assumes `LifespanAssumption`.
  *P04, the script*: `NoServerOutlivesItsScript` and `VerdictJustified`, for any jobs and any
  number of disk errors. Every step of the script is a step of `Lifespan` or none
  (`ScriptRunsTheServer`), so the server's theorems hold under it. A journal entry means what was
  done (`JournalMeant`); a scenario's server was asked no more than `run` asks of it
  (`Unasked`, `OneJobPosted`), hence where `run` stands tells how far the server is
  (`ScriptStands`); and a server that is down changes no more, so what was read
  of its journal is settled (`ScenariosSettled`).
  *P09*: types, `VersionMatchesSchema`, `DomainHolds` and `ProbesNamed`, for any number
  of consumers and of runs, killed anywhere. What is committed is sound because whatever
  could be committed NEXT is: every consumer's uncommitted order fits with what is
  committed and with the others' (`UsingSound`); the script's transaction, stage by stage,
  has either taken all rows, tenants included, while no consumer has anything open
  (`Cleared`, `SetupOrder`), or adds one order that fits with all there is (`OtherOrder`).
  A migration is open only over the version it starts from, has run a prefix of its
  statements, and drops a table nobody uses (`MigrationSound`): hence none of its
  statements is ever refused. The report is right because the order the script inserts first
  stays until it deletes its schema (`RowsKnown`), so that every probe meets the
  constraint it was made for and no other (`ProbesSound`). Assumes `SchemaAssumption`:
  the tenants differ, the orphan is neither, and Python's `None` equals no id, number or name.
  *P10*: `PlansUnderTheirIndexes` and `AccessAgrees`, for any scenario the validator lets
  through and any number of runs, killed anywhere. A run starts by dropping the schema, so
  nothing of earlier ones is left, and from then on the statements so far determine the
  indexes, the rows and the statistics (`DatabaseSound`). The tenant has a pending order
  in each cycle of tenants and statuses: an injection from the cycles to its orders
  (`PickMatches`, `CyclesCounted`) shows that the validator's bound on the page and on
  N suffices for every query to be answered in full (`AnswersFull`). `created_at` never
  ties, so two answers to a query are the same (`AnswersAlike`), and what N + 1 queries
  assemble is what the JOIN gives. Assumes `ClinicAssumption`, less than the fields of
  *config.py* ask for: counts are positive, `tenant_count` and `pending_every` at least two.

Proved and not repeated by a run: `RecordsStable` and `CapturedAfterAuthorized` of P08 (a
stored record keeps its body and leaves RECEIVED once; a capture needs its
authorisation), and the types of every module that is proved about.

Only model-checked: the liveness properties (`EventuallySettled` of P08,
`EveryRequestEnds` of P11, `RunEnds` of P12, `RaceEndsInItsLab` of P02), because
fairness is out of the prover's reach. The constants' assumptions are evaluated by TLC in
the runs of the modules that declare them.


## Not modelled, and why

- P00: a greeting, without state.
- Two of the scripts of P09, or of P10, at once: their READMEs start one at a time, and
  each drops the schema the other works on.
- A wall clock that is set back (P06, P08), and threads that share P06's client.
- P04's journal lines of which the disk took only a part: an entry is written whole or
  not at all, also when the append raises.
- P07's feed built over two comments with one id, which its constructor does not refuse.
- P11's UPDATE and DELETE: `001_schema.sql` (41) grants them, and no code issues them.
- Measured durations, buffers and bytes, and the comparisons made with them (P02's table,
  P10's timings, P04's factor of two, which is a free choice of `Judge`).
- P04's correlation middleware and blocking routes: no state outlives a request.
- How P01 normalises the fields of an order (`12.345`, `brl`): pydantic and formatting.
- A broker that still believes in an older RabbitMQ connection after the client has
  reopened it: `LoseConnection` is one step for both.
- The experiment scripts of P05, P06, P07, P08, P11 and P12: they call the code modelled
  above with fixed inputs, one call after another, and write what it answers.
- HTTP, JSON, HMAC, PostgreSQL, Alembic, the brokers, asyncio and its executors,
  pybreaker, tenacity, uvicorn and aio_pika are external, and modelled from how the code uses them.


## Plan

Done, in this order: P08 with its abstract ledger and the refinement; P06; P11;
P05; P07; P12's RabbitMQ half; P04; P03; P12's Kafka half; P01; the set-up of P12's
RabbitMQ half; P02, P09, P10 and P04's script; and the proofs listed above.

Every safety property a run checks is now stated by a theorem; what remains to be proved is
what the runs do not ask, such as further action properties of the brokers and of the pool.

To keep the whole within minutes, a new component shares the runs: a laboratory that is
better understood gives up a property or a run whose question another answers, and
what is proved for every value of the constants need not be repeated by a run.
