# Relay, a verification project

Relay accepts events over HTTP (`POST /v1/events`), fans each one out to the
webhook endpoints subscribed to it, and delivers it at least once, with retries,
a circuit breaker per endpoint, a dead-letter queue and replay. This directory
holds TLA+ models of that system, the TLC configurations that check them, and
TLAPS proofs about all of the components. Paths below are relative to the repository;
`relay/...` means `src/relay/...`.

## The system

| Component | State it keeps | Operations |
|---|---|---|
| Event ingest (`services/events`, `api/v1/events`) | `events`, `outbox` | `ingest`: look up the idempotency key, insert under a savepoint, resolve a conflict, commit event and outbox entry |
| Outbox relay (`workers/relay.py`) | `outbox.status`, `deliveries` | `process_once`: claim `FOR UPDATE SKIP LOCKED`, list endpoints, insert deliveries, publish, mark, commit |
| Delivery stream (`infra/streams.py`) | Redis stream, group cursor, pending entries | `XADD`, `XREADGROUP`, `XACK`, `XAUTOCLAIM` |
| Dispatcher (`workers/dispatcher.py`) | global semaphore, semaphore per endpoint, tasks in flight | read a batch, spawn, gate, attempt, schedule, acknowledge, drain on SIGTERM |
| Delivery attempt (`services/deliveries/service.py`) | `deliveries`, `delivery_attempts`, breaker columns of `endpoints` | load, defer or probe, send, record |
| Circuit breaker (`domain/endpoints/breaker.py`) | `breaker_state`, `consecutive_failures`, `opened_at` | two pure decisions and the writes of `repositories/endpoints` |
| Retry schedule and scheduler (`infra/retry_schedule.py`, `workers/scheduler.py`) | Redis ZSET | `ZADD`, a Lua pop of what is due, `XADD` each |
| Reaper (`workers/reaper.py`) | none of its own | reclaim idle messages, attempt, acknowledge, drop what is not found |
| Replay (`services/deliveries/replay_service.py`) | `deliveries` | check DEAD, reset, commit, `XADD` |
| Endpoint registry (`services/endpoints`) | `endpoints` | create, update (URL, subscriptions, pause, resume), delete (cascades) |
| HTTP sender, SSRF guard, signing (`infra/http_sender.py`, `ssrf_guard.py`, `pinned_transport.py`, `signing.py`) | none | sign once; per hop: resolve and check, pin, post, follow |
| Rate limiter (`infra/rate_limit.py`) | a Redis hash per tenant or IP address, with an expiry | a Lua script: refill, spend, write back |
| Sandbox (`services/sandbox`, `api/v1/sandbox`) | `tenants`, `api_keys` | provision in two transactions; count events or endpoints against a cap |
| API keys and authentication (`services/api_keys`, `api/auth.py`) | `api_keys` | issue, rotate, revoke; look a prefix up and judge |
| Live feed (`infra/attempt_events.py`, `api/v1/sandbox/router.py`) | Redis pub/sub, nothing kept | publish after the commit; SSE with heartbeats |
| DLQ, endpoint listing, metrics (`repositories/pagination.py`, `services/deliveries`) | none | keyset pages; three counting statements |
| Backup and restore drill (`scripts/`) | dumps in a bucket | dump, restore into a scratch database, compare counts |

**Interactions.** The processes share PostgreSQL and Redis and nothing else; no
transaction spans both. The relay publishes to the stream *inside* its fan-out
transaction, so a message can be read before its row is committed and can
survive its rollback. The dispatcher commits an attempt, *then* schedules the
retry, *then* acknowledges; the reaper repeats whatever was not acknowledged.
The scheduler pops, *then* enqueues. Replay commits, *then* enqueues. Each of
these gaps is a place to crash.

**What is hard.** Every attempt loads rows without a lock, waits for an HTTP
request, and decides from what it loaded. To write, it SELECTs the row again: the
repositories convert a row to a domain object and drop the ORM instance, SQLAlchemy's
identity map holds instances weakly, and `_get_or_raise` finds nothing there. The
UPDATE then carries the columns that differ from this second reading, waits for the
row's lock, and lands on whatever is committed by then (READ COMMITTED). So decisions
are stale by a whole request, and columns of two transactions may be mixed in the
short window between a SELECT and its UPDATE, which for an endpoint row is as long as
a probe's request. Delivery is
at least once, so the same message may be in two hands. Deleting an endpoint
cascades under attempts in progress. Destinations may answer anything and names
may be pointed elsewhere between a check and a connection. Readers see a new
snapshot with every statement. `PROJECT.json` lists every such hazard at
its line, with the property that covers it or the reason why none does.

## Modules

| Module | Models | State ↔ code |
|---|---|---|
| `DeliveryEngine` | The chain of one delivery across relay, stream, dispatcher, reaper, scheduler, replay and cascading deletes | `rows` = `deliveries`; `attempts` = `delivery_attempts` (how many, any success); `stream`/`cursor`/`pel` = the stream and its group; `zset`; `popped` = the scheduler's local list; `worker` = one message slot of a dispatcher task or the reaper, with what it decided from (`attempt_no`, `until`) and, between a SELECT and its UPDATE, the row it selected (`row`); `replayer` = requests, likewise |
| `EndpointBreaker` | One endpoint row under racing attempts, with a clock | `row` = committed columns; `attempt[a].snap` = what `a` decides from: the row it loaded, or its own uncommitted version while it probes; `attempt[a].read` = the second reading, between a SELECT and its UPDATE; `Locked` = the row lock of a probe; `failed` is a history |
| `Ingest` | `POST /v1/events` up to the commit and the answer, with clients that lose answers and send again | a request's phase is the last statement its session ran; uncommitted inserts are what unique keys make others wait for |
| `Outbox` | Two or more relays on one outbox, endpoints that pause, resume and disappear | claimed entries = row locks; `deliveries` as (event, endpoint) with a count |
| `Intake` | `Ingest` composed with `Outbox` through the committed events and entries | |
| `DispatcherPool` | The dispatcher's own concurrency: loop, slots, permits, exceptions, SIGTERM, drain, crash | `semaphore`, `permits`, `waiters` = asyncio semaphores; `task[m]` = how far `process_delivery_message` is |
| `AtLeastOnce` | What is promised of a delivery, without stream, ZSET, workers or crashes | a state, the attempts on record, and whether something is under way; refined by `DeliveryEngine` (see "Refinement") |
| `RateLimit` | The token bucket script and the Retry-After header, as operators | a bucket = the hash and its expiry; amounts in units, `Cost` to a token, so that fractional rates stay integers |
| `Admission` | What a sandbox tenant's requests pass before their row: rate limit and event quota, or endpoint quota | `request[c].phase` = what comes next for it; `granted` is a history the property needs |
| `HttpSender` | One attempt on the wire: signature, check and pin of each hop, redirects, timeouts, the result; names that are pointed elsewhere meanwhile | `send` = the locals of `send()`; `dns` = what names resolve to; `reached` and `requests` are histories |
| `Accounts` | Sandbox provisioning, rotation and revocation of keys, and requests that authenticate meanwhile; extends `RateLimit` | `tenants`, `keys` = committed rows; `provision`, `change`, `auth` = calls in progress with what they loaded |
| `ConsoleReads` | The readers: pages of dead deliveries and endpoints, the metrics snapshot, the SSE feed, while the tables are written | `state`, `count` = committed deliveries and endpoints; `attempts` = the rows of `delivery_attempts`; `reader`, `page` = the request and the rows of its page that are still to be given; `listed` = what the client was given; `feed` = the heartbeat loop's pending task, its buffer, and what the client was told |
| `RestoreDrill` | The backup and the restore drill, one more reader of `ConsoleReads` | `drill` = the counts in the dump, restored, and live |
| `DeliveryEngineProofs`, `EndpointBreakerProofs`, `IntakeProofs`, `DispatcherPoolProofs`, `AdmissionProofs`, `HttpSenderProofs`, `AccountsProofs`, `ReadsProofs` | Theorems (see "Proofs") | |
| `MC*` | Values of constants for TLC | |

`Flush(read, new, current)` in the first two modules is an UPDATE of the columns in
which `new` differs from the row read just before, over the row committed by now; it
is the operator on which most of their properties turn. `Reselect`, `ReplaySelect`
and `Reread` are the SELECTs of `_get_or_raise`, steps of their own because others may
commit before the UPDATE. Operators named in a comment *Mutant of X*, just before X, are X with a
plausible bug; they take no part in any specification and are there to show that
the properties notice (see "Mutants").

Abstractions worth knowing:

* `DeliveryEngine` has no clock. A `next_retry_at` is NULL, a backoff (a time no
  other attempt computes), or the end of the n-th cooldown, because a deferral
  that repeats the very timestamp it has just read writes nothing. The breaker opens
  and cools down at any time there; `EndpointBreaker` says when.
* The outcome of an attempt updates the endpoint row before the delivery's, so that
  attempts on one endpoint may wait for each other there. `DeliveryEngine` leaves this
  out and thereby allows more interleavings of writers than there are.
* An outbox relay's rolled back delivery gets a new id when it is fanned out
  again, so the engine's delivery is then simply "gone".
* A dispatcher or reaper slot handles one message; a batch is several slots. The
  reaper's sequential sweep is thereby allowed more interleavings than it has.
* `Admission` counts committed rows only, and its insert is one step per key;
  what happens between lookup and commit is `Ingest`. A normal tenant has the
  same rate limit and no quotas.
* The clock of `Admission` ticks in seconds and is the same for every API process
  and for Redis. What the code cannot promise is that the script runs in the
  second in which its request read the time: `PromptScript` assumes it.
* `HttpSender` is one attempt after another, because attempts share nothing but
  the names. A name resolves to one address or to several, of which any denied
  one blocks it, or to nothing. A destination that is not a mock receiver may
  answer any status with any `Location`, fail, or be slow. HMAC is an injective
  function.
* In `Accounts` a call that stays where it is for ever stands for one that failed
  there. A rotation does not ask whether its key is revoked, and gives its
  replacement no expiry: the code does neither, and a rotated sandbox key no
  longer expires. (No route exposes rotation and revocation; both are the
  service's.) The SSE stream authenticates once, when it opens, so a key that is
  revoked later does not end it; `AuthSound` is about the next request.
* A reader of `ConsoleReads` begins with deliveries that are accepted or dead; the
  other states are writes away. Writers there do what `DeliveryEngine` allows when
  nothing races, and `created_at` is when a row's transaction began, so that a row
  may be committed behind a cursor that has passed it. Such a row is missed by the
  walk, and `WalkComplete` promises only those that were there all the time.
* Backoff values, payloads, response bodies and logs are left out.

### Timing assumptions of `DeliveryEngine`

The code relies on intervals that nothing enforces. Each is a constant, so that
every run says which ones it needs:

| Constant | Meaning | Closed in | Open in |
|---|---|---|---|
| `IdleMeansDead` | `reaper_min_idle_ms` (30 s) is longer than a live consumer holds a message | EngineChain | EngineRaces |
| `CommitFirst` | ... and longer than a fan-out transaction | EngineChain | EngineRaces |
| `PromptWrites` | nobody else writes a delivery's row between the SELECT and the UPDATE of one of its writers (`Writing`) | EngineChain | EngineRaces |
| `SchedulerCrashes` | the scheduler may stop between pop and `XADD` | | EngineRaces, EngineSchedulerCrash |
| `ReplayCrashes` | the API may stop between commit and `XADD` | EngineChain | EngineRaces |

`IdleMeansDead` is not what the sender guarantees: four hops of a name lookup, a
connect timeout of 5 s and reads of up to 5 s each (`HttpSender`) may take longer
than 30 s, and so may the wait for a slot or a permit before them. That is why
the states' meaning is checked, and proved, without it.

`LiveChain` fails in `engine_chain` as soon as any one of the other four is opened. For
the scheduler that contradicts what the documents say (see "Findings").
For replay it is the tradeoff that the comment at `replay_service.py:53-56`
accepts. With `IdleMeansDead` false the same message is in two hands, and the
first acknowledgement takes it off the pending list for both: if the other hand
then defers the delivery and dies before its `ZADD`, nothing is left to repeat.
`PromptWrites` is what the proof of `LiveChain` rests on: between a SELECT and an
UPDATE columns of two writers may be mixed, and a row that is `retrying` without a
time is not scheduled. No small instance shows it (`engine_chain` with the window open
has no violation, nor has a simulation of several million states with two dispatchers
and the reaper): it would take a replay and a deferral that mix to `pending` with a
time, and then a deferral to that same time, which writes the state only, over a row
from which a third writer has just cleared the time. The window is two statements
long and no document promises anything about it.

## Runs

| Run | Question | Instance and result |
|---|---|---|
| `engine_races` | Do the delivery states mean what they say, whatever races? `TypeOK`, `DeliveredEarned`, `DeadExhausted` | every window open; one delivery, a dispatcher, a reaper, a replay, a trip; 3 stream messages; 2.1 million states |
| `engine_chain` | Does the engine keep the promise, does every delivery settle and the stream drain? `LiveChain`, `KeepsPromise`, `EventuallySettled`, `StreamDrains` | windows closed; a dispatcher and the reaper, one crash, one replay, two trips; 12 messages; 645 thousand states |
| `breaker` | Whatever columns are mixed, is half-open private, does the breaker open only on failures that were recorded, is a probe left alone with its row? `TypeOK`, `HalfOpenNeverCommitted`, `TripEarned`, `ProbeHoldsRow` | three attempts, threshold 2, cooldown 1, clock to 2, at most 2 failures in a row that is loaded; 914 thousand states |
| `intake` | Is 202 durable, one event per key, one fan-out per event? `IntakeTypeOK`, `AcceptedDurable`, `OneEventPerKey`, `RefusedOnlyDiffering`, `FanOutOnce`, `AcceptedFannedOut` | two requests, two keys, two bodies, two relays, two endpoints; 328 thousand states; deadlock checked |
| `pool` | Are slots and permits conserved, is everything read handled, does SIGTERM end? `TypeOK`, `PermitsConserved`, `StopsDrained`, `EveryMessageHandled`, `ShutdownEnds` | 5 messages, 3 slots, 2 permits per endpoint; 15 thousand states |
| `admission` | Does the bucket keep its rate, is Retry-After long enough, while the quotas refuse some of them? `TypeOK`, `RateKept`, `RetryAfterEnough` | two requests, three keys, 2/3 of a token per second, burst 2, caps of 2 events and 1 endpoint, 5 seconds; 703 thousand states; deadlock checked |
| `sender` | Does any request reach a denied address, does the result tell the truth, does every request verify, does every attempt end? `NeverDenied`, `ResultTells`, `EachVerifies`, `SendEnds` | the mock receivers and a free destination, three names, two public and a private address, 3 redirects, each step fast or as slow as it may; 511 thousand states; deadlock checked |
| `accounts` | Does what a client is told work, is a rotation whole, is nobody accepted with a bad key? `TypeOK`, `ProvisionedUsable`, `RotatedWhole`, `AuthSound`, `SandboxesLimited` | two sandboxes and a script, two operators, three keys, two prefixes, a time to live of 1, clock to 3; 1.6 million states |
| `reads` | Are walks complete, counts bracketed, is the feed faithful and the drill right? `TypeOK`, `WalkComplete`, `MetricsBracketed`, `FeedFaithful`, `DrillTells` | four deliveries and three endpoints of two tenants, pages of one row, a sample of two, three writes; 3.6 million states |
| `engine_scheduler_crash`, `breaker_probe`, `pool_shared` | Statements of the documents and the code's comments that do not hold | see "Findings" |

**Bounds.** `MaxAttempts = 2` gives a first failure, a retry and exhaustion;
the cases "below the limit" and "at the limit" are all the code tells apart. One
delivery is enough for the engine because deliveries share nothing but the
endpoint's breaker (which is free to move anyway) and the order of messages
(consumers take any pending one). In `EngineRaces` three messages on the stream
are a fan-out, a retry and a replay or a second retry, each of which may be in
two hands; `MaxCrashes = 0` there because early reclaims already give every
duplicate that a crash would. Twelve messages in the other engine runs are never
reached. Threshold 2 lets a failure be below and at the threshold; three
attempts are a probe, one that waits for it and one that loaded a closed row;
a cooldown of one tick in a clock of two lets a breaker open, cool down and open
again, and makes the two openings differ. Three slots and two permits let one endpoint fill
the pool and a waiter be handed a permit while another endpoint waits for a slot.
In `admission` a full bucket is empty after two requests and its hash expires
after four seconds of five, so requests meet it fresh, partly refilled, full and
expired; 2/3 of a token per second makes every rounding matter. `breaker` and
`admission` use the symmetry of their attempts and requests, and `accounts` that of
its sandboxes, operators and prefixes (no liveness there). In `sender` four hops at
the slowest, with the clocks off, use up the tolerance exactly: one unit more
would break `EachVerifies`. In `accounts` three keys are a provisioned key, its
replacement and a key of somebody else, or two replacements of one key; two
prefixes let keys collide or not; the clock passes the end of a key. In `reads`
three writes are enough for a row to enter a listing, leave it and come back
(killed, replayed, put off) or for a row and its endpoint to come and go between
two pages; pages of one row put a cursor after every row, and two deliveries have
the same `created_at`.

**Deadlock** is not checked where the model stops because a bound is used up (a
clock, a budget, the stream) or because the process is meant to stop
(`DispatcherPool`, the engine), or where nobody need do more (`Accounts`, a reader
that has finished); liveness properties say that what must go on does.

**Fairness.** Workers poll in loops and compose restarts one that ends
(`restart: unless-stopped`), so a step of a worker that stays possible is taken:
weak fairness of each slot, of the relay's commit, of the scheduler's two
steps, and of a replay request that was accepted. Cooldowns end. Two assumptions
stand behind the fairness of sending: the HTTP client's read timeout bounds each
read and not the response, so a destination is assumed not to trickle bytes for
ever (`ReadTime` in `HttpSender`, with weak fairness of the hop in progress and of
the recording of its outcome: a coroutine that may run is run); and exceptions other than HTTP errors, which roll the attempt back
uncounted (a malformed `Location` header, for one), are assumed not to repeat
for ever (`MaxCrashes`). Clients, operators and crashes are never forced.

## Findings

Each is a run that TLC ends with a counterexample, and quotes what it refutes
(`PROJECT.json`, "findings").

1. `engine_scheduler_crash`: a scheduler that stops between the Lua pop and the
   `XADD` (`scheduler.py:25-27`) loses a retry: the row stays `retrying`, replay
   refuses it.
2. `breaker_probe`: an attempt that waited for a probe's row lock probes too,
   even inside the cooldown that the first probe's failure started
   (`service.py:102`).
3. `pool_shared`: a task queues for a permit of its endpoint with a slot of the
   pool in hand (`dispatcher.py:115` before `:160`), so one slow endpoint can
   hold them all.

More statements that do not hold, without a run of their own. The first three are
reproduced by adding the formula to the MC module and to the run's cfg:

* The sandbox caps are not hard. `docs/guarantees.md:67-70` calls a sandbox tenant
  "hard-capped", with a fixed max endpoint count and a fixed max event count "enforced
  server-side", as do `api/v1/sandbox/router.py:56` and
  `services/sandbox/service.py:40`. The code counts in one transaction
  (`services/sandbox/service.py:76-89`) and inserts in another: requests that count at
  the same time all pass. `admission` violates `Cardinality(events) <= MaxEvents` and
  `endpoints <= MaxEndpoints`. `QuotasBounded` (see "Proofs") says by how much the caps
  can be exceeded.
* An open breaker does not stay open until a probe. An attempt that loaded CLOSED and
  ends after the breaker has opened SELECTs the OPEN row and writes `closed`, 0 and no
  `opened_at` over it, when it succeeds, and also when it fails below the threshold
  (`endpoints/repository.py:94-98`). `docs/failure-modes.md:26` says "further attempts
  are deferred [...] until the cooldown elapses, then exactly one probe is allowed", and
  `endpoints/repository.py:90-92` that what is read is "never stale relative to the
  attempt that just completed". `breaker` violates
  `[][row.state = "open" /\ row'.state = "closed" => \E a \in Attempts : Probing(a)]_vars`.
* The columns of the breaker may contradict each other. An outcome that has SELECTed
  the row and then waits for a probe's lock writes only the columns that differ from
  what it had read. `breaker` violates each of: a closed row has no `opened_at`; a closed
  row is below the threshold; an open row is at the threshold; an open row has an
  `opened_at` (the last with a trace of 26 states; `breaker.py:29-30` says it "shouldn't
  happen in practice", and `should_skip_for_open_breaker` then lets a probe through at
  once).
* A replayed delivery may not get "a full retry budget again"
  (`deliveries/repository.py:88-89`): an attempt that loaded the delivery before the
  replay decides by the old count, and its failure marks it dead at once
  (`service.py:145`).
* A delivered delivery may be retried: a duplicate of its message that was sent before
  it was delivered, and fails, writes `retrying` over it and schedules a retry.
  `AtLeastOnce` allows that; no document excludes it.
* With `PromptScript = FALSE`, `admission` violates `RateKept`: a script that runs a
  second late writes its older time into the bucket, and the next request is
  granted the same second again. `rate_limit.py:1-4` says the bucket "stays correct
  across multiple API replicas"; the atomic script makes it so for replicas that
  are prompt and agree on the time.
* With `CommitFirst = FALSE`, `engine_chain` violates `LiveChain`: when a fan-out
  transaction outlives `reaper_min_idle_ms`, the reaper acknowledges the message of
  a row that is committed afterwards (`reaper.py:62`).
* The event quota is checked before the idempotency key is looked up
  (`api/v1/events/router.py:46`): a sandbox tenant at its cap that repeats an
  accepted request gets 403 and not its event.
* The restore drill reports "the dump or the restore did nothing" of a table that
  was empty when it was dumped and has been written since; and "no table lost
  rows" may hide rows that are gone behind rows that are new. `DrillTells` states
  what its reports do mean. `list_objects_v2` (`restore_drill.py:47`) gives at most
  1000 keys, the smallest ones, so that from the 1001st backup on the "newest" dump
  is an old one.
* `in_flight` of a metrics snapshot may be larger than `queue_depth`, of which it is
  a part: they are two statements (`metrics_service.py:46-56`).

## Mutants

A property that no bug in the code could break says nothing about the code. For
each property of a passing run, `PROJECT.json` names a definition, and a changed
form of it (the operator under a *Mutant of* comment just before it: a dropped
guard, a missing acknowledgement, an off-by-one, a flag committed too early), and
the run, with that definition changed, ends with a violation of that property.

## Refinement

`AtLeastOnce` says what a client may rely on: an accepted delivery is open,
delivered, dead, or gone with its endpoint; as long as it is open something is
under way that leads to an attempt; every attempt is on record; it is delivered
only by an attempt that succeeded and dead only after enough of them. It may open
again after it had ended (a message handled twice, a replay). `DeliveryEngine`
implements it: `Promise` is the instance with `status` read off the row, `log` off
the attempts, and `chain` true as long as a message, a ZSET member, a popped
retry, a worker or a replay request carries the delivery on, and `KeepsPromise` is
the property that `engine_chain` checks. Which hand holds a delivery at the
moment, every crash and every redelivery are stuttering steps there.

## Proofs

The proof modules assume only the named assumptions of the modules they are
about (`EngineAssumption`, `BreakerAssumption`, `RateLimitAssumption`,
`AdmissionAssumption`, `SenderAssumption`, `OutboxAssumption`,
`IntakeAssumption`, `PoolAssumption`,
`AccountsAssumption`, `ReadsAssumption`: constants of the right kinds, limits of at least one, finite
sets where they are counted, disjoint sets of actors, a tolerance that fits the
timeouts), so they hold for any number of deliveries, endpoints, workers, requests,
relays, tasks, keys and attempts, any limits, names and addresses, and every choice of
the timing flags. Where a theorem needs a flag it says so: `RateIsKept` has
`PromptScript` as its hypothesis, and `ChainIsLive` and `PromiseIsKept` have
`WindowsClosed`, the five windows of "Timing assumptions" as `engine_chain` closes
them. Each module has the same shape: the inductive invariant `IInv` (and `WriterInv` and `ChainInv`, for
the chain of a delivery) as a conjunction of named parts, lemmas about the operators, a
lemma for each action or group of actions, the theorem `Invariance`, and the
theorems read off it. Four theorems are about steps and not about states
(`[][A]_vars`): what a step may never do to a breaker, a history, an accepted event or
a key.

**`EndpointBreakerProofs`**: `TypeCorrect`, `HalfOpenIsPrivate`, `TripIsEarned`,
`ProbeIsUndisturbed`, `ProbesDecide`. The row is a mixture of columns computed from rows
read at different times, so no invariant can follow the row alone. `AllEarned` says of
every version in anybody's hands (the committed row, what an attempt decides from, what
it has read again) that the failures it counts have been recorded; a mixture of two
such versions is one (`FlushEarned`), and a failed attempt that counts one more is
recorded in that step (`TransitionEarned`). `OneProbe` and `OwnReads` carry the row lock:
while a probe is out nobody else writes, and its second reading is its own version, so
that its UPDATE writes exactly its transition (`FlushOwn`). That is the action property
`ProbesDecide`. What other attempts write once the probe has let go is not excluded
(see "Findings").

**`DeliveryEngineProofs`**: `TypeCorrect`, `DeliveredIsEarned`,
`DeadIsExhausted`, `HistoryIsKept`, with every window open. An attempt judges the budget
by the count of the row it loaded before the request, and increments the count of the
row it selects after it, so `dead` does not by itself bound what was tried. The inductive
invariant is that no count exceeds the attempts logged: not in a row (`Counted`), nor in
a row somebody has selected, nor in the number of an attempt under way, which is at most
one more (`SnapsCounted`). The log only grows while a row exists, a deferral does not
count, and an attempt that writes has just logged itself. A row is only
written `delivered` in the step that logs a success. `HistoryIsKept` says so of
steps: a delivery ends, either way, only in the transaction that logs the attempt it
ends with (`RecordHistory`), and no other step touches what was logged before.

**`AdmissionProofs`**: `TypeCorrect`, `RateIsKept`, `RetryAfterIsEnough`,
`QuotasBounded`. `RateKept` bounds what has passed in every window, which is not
inductive: what may still pass depends on what the bucket holds. `RateInv` adds
that to what has passed since any second, `(granted since s) * Cost + Held <=
Capacity + (clock - s) * Rate`. A grant moves tokens from one term to the other;
a tick adds one refill to both sides, also when the hash expires in that very
second, because `ttl` is then long enough for the bucket to have been full
(`Times`). `QuotasBounded` is about `QuotaOverrun`, a bound that no document states: how
far the caps can be exceeded. It needs the rows still to come: `QuotaInv` bounds the
rows together with the requests that have passed the check (`EventRows`,
`EndpointRows`). `RetryAfterIsEnough` follows from the types and the arithmetic
of rounding up (`CeilDivBound`).

**`HttpSenderProofs`**: `TypeCorrect`, `DeniedIsNeverReached`, `ResultIsTold`,
`RequestsVerify`. That no denied address is reached is not inductive: names move
while the attempt is between its check and its request. `Pinned` carries the
address over that gap, from a check all of whose addresses were allowed
(`CheckedAddress`). `EachVerifies` needs the age of the attempt at every step, which
`Paced` bounds by the hops made so far; the last request leaves after `MaxHops`
full hops, a check and a connection, and a little arithmetic (`NextHop`,
`MoreHops`) brings that under the tolerance that `SenderAssumption` requires.

**`DeliveryEngineProofs`, second part**: `ChainIsLive` and `PromiseIsKept`, which is the
refinement of "Refinement". The windows make each write whole: by `PromptWrites` whoever has
selected a row is its only writer, so the row is still what was selected, or deleted
(`OneWriter`, `Current`), and what the UPDATE leaves is what the writer meant
(`WholeWrite`). That something carries an open delivery on is not inductive: whether an
acknowledgement may be the last trace of a message depends on what its worker wrote.
`ChainInv` says which traces count (`Chained`): a ZSET member, a popped retry, a request
about to enqueue, a message nobody has read yet, or a pending one that is in nobody's
hand or in one that has yet to write or to schedule (`Leads`). It needs that a message is
in one hand at a time (`HeldOnce`, from `IdleMeansDead`); that nobody but a dispatcher
waiting at the door holds the message of an uncommitted fan-out (`Waiting`, from
`CommitFirst`); that a deferral is to a time (`Tripped`, `Deferred`); and that a delivery
nobody has published has no message (`Fresh`) and one that is not there yet no attempts
(`Unlogged`). `PromiseIsKept` then shows for each action that the abstract
status, log and chain make a step of `AtLeastOnce` or none, using `ChainInv` before and
after the step.

**`IntakeProofs`**: `TypeCorrect`, `AcceptedIsDurable`, `KeysAreUnique`,
`RefusalsDiffer`, `FanOutIsOnce`, `IntakeAdvances`. An answer is given from what a request has seen,
so `Answered` ties each answer to a committed event, which is never changed. Unique
keys hold for committed events because of what the index does for uncommitted ones:
an inserted event's id and key are committed by nobody (`Inserted`) and in no other
open transaction (`Apart`). A fan-out happens once because of the row locks: entries
in a relay's batch stay pending (`Locks`), two batches share none (`Disjoint`), and an
entry exists exactly if its event is committed (`Entered`, where the two halves of
the composition meet). From `Inserted` and `Locks` it follows that no step goes back
(`IntakeAdvances`): the API writes only events nobody has committed, and a relay
commits only entries that are still pending, with all of their deliveries.

**`DispatcherPoolProofs`**: `TypeCorrect`, `PermitsAreConserved`, `StopsAreDrained`. The
conservation of permits counts tasks, and a released permit is handed to the head of
a queue: the count is right only if that head is a task that waits, and is queued
once (`Distinct`). That a stop is a drain needs that the loop has spawned everything
it has read whenever it looks at the signal (`Caught`).

**`AccountsProofs`**: `TypeCorrect`, `ProvisionedIsUsable`, `RotationIsWhole`,
`AuthIsSound`, `SandboxesAreLimited`, `KeysNeverRevive`. A committed key changes only by being revoked
(`KeysKept`), so that a key that is not valid never is again (`ValidOnce`,
`KeysNeverRevive`). `AuthSound`
speaks of verdicts; `Seen` carries what they rest on from the arrival of a request
over its read to its verdict: the rows found for a prefix agree with the committed
ones but for revocations since, and the presented key is among them if it was valid.
`RotatedWhole` speaks of changes at any stage, so the invariant says of those that
have not committed that they left nothing (`Untouched`) and of rotations that have
that they did both (`Rotated`); a tenant keeps a key as long as what has been
*committed* were rotations (`OneLeft`), whatever revocations are on their way.
`SandboxesLimited` gets the tokens left in the bucket (`Limited`), as `RateKept` does.
`Provisioned` says what a provision has committed at each phase.

**`ReadsProofs`**: `TypeCorrect`, `WalkIsComplete`, `MetricsAreBracketed`,
`FeedIsFaithful`, `DrillIsRight`, about `DrillSpec`, that is `ConsoleReads` with the
drill as one more reader. What the properties say of a finished reader has to be
carried from its first statement to its last while the tables go on. `Evolves` is what
every write guarantees whoever reads: what a row has been is remembered, an attempt on
record stays there until its delivery is gone, what is gone stays gone. Each reader has
its part of the invariant, and each part is kept by any step that satisfies `Evolves`:

* a walk: a row that was in the listing throughout has been given, or is on the page,
  or is past the cursor (`Covered`); the page goes on where the last one ended
  (`Paged`) and what was given is in order up to the cursor (`Given`). That a dead
  delivery comes with its whole history, read later, needs that a dead delivery has one
  (`Budgeted`: the attempts of the present budget are on record, over replays) and that
  attempts of a delivery are told apart (`Numbered`);
* a snapshot: each count is bracketed from the statement that makes it on (`Measured`),
  because the rows that were there throughout only become fewer, and those that were
  there at some time more;
* the feed: what the client was told, what the finished task holds and what is in the
  buffer are together what was published (`Streamed`), and everything published, or
  about to be, is on record (`Vouched`);
* the drill: as long as no row of the dump is gone, each table has at least as many rows
  as were dumped, when it is counted and later (`Dumped`, `Compared`); endpoints need
  that of endpoints only, the other tables of all rows, because deletion cascades.

`PercentileIsNear` states for every size of the sample what `MCConsoleReads` assumes,
and TLC evaluates, up to 200.

**Only model-checked**: liveness (`EventuallySettled`, `StreamDrains`,
`AcceptedFannedOut`, `EveryMessageHandled`, `ShutdownEnds`, `SendEnds`), which is beyond
the prover. Every invariant of a passing run, and the refinement, is proved.

## Not modelled

* The HTTP shell (routing, problem+json, trace ids, health, counters, logs) and the
  validation of fields: no state the properties speak of.
* Schema and migrations: the constraints the code relies on (unique keys, foreign
  keys, cascades) are in the guards; how a migration is applied is not.
* The console's pages, which call the API's routes; the board and the generators
  of documentation.
* Deployment, the systemd units and the check of the egress firewall: shell and
  I/O. `compose.yml` matters only in that it restarts what ends.

`PROJECT.json` lists every component with its reason.

## Plan

1. *(done)* `DeliveryEngine`, `EndpointBreaker`, `Ingest`, `Outbox`, `Intake`,
   `DispatcherPool`, `RateLimit`, `Admission`; types and the first safety proofs.
2. *(done)* `AtLeastOnce` and the refinement, `HttpSender` with its proofs,
   `Accounts`, `ConsoleReads`, `RestoreDrill`.
3. *(done)* Proofs of `LiveChain` and of the refinement under the timing
   assumptions, and of the safety properties of `Intake`, `DispatcherPool` and
   `Accounts`.
4. *(done)* Proofs about `ConsoleReads` and `RestoreDrill`, with attempts as a set of
   rows and a page as a set, of which the order is a property and not a construction;
   the action properties of the breaker, the engine, the intake and the keys.

What is left is out of the prover's reach (liveness) or of the model's (see "Not
modelled").
