--------------------------- MODULE DeliveryEngine ---------------------------
(***************************************************************************)
(* The delivery engine: the deliveries table (with delivery_attempts), the *)
(* Redis stream and its consumer group, the retry ZSET, and the processes  *)
(* that share them: the outbox relay, the dispatcher, the reaper, the      *)
(* scheduler and the replay endpoint.  One delivery travels                *)
(*                                                                         *)
(*   relay -XADD-> stream -XREADGROUP-> dispatcher -commit-> deliveries    *)
(*                   ^                       |                             *)
(*                   +-- scheduler <-ZADD----+      (reaper: XAUTOCLAIM)   *)
(*                                                                         *)
(* PostgreSQL and Redis are two stores with no common transaction, and     *)
(* every process may stop between two of its steps, so each action below   *)
(* is what a process does between two points where another can intervene.  *)
(* Timestamps are abstracted to what the columns tell apart: NULL, a       *)
(* backoff, or the end of the n-th cooldown of the breaker, which opens    *)
(* and cools down at any time here (EndpointBreaker says when).            *)
(***************************************************************************)
EXTENDS Naturals, Sequences, FiniteSets

CONSTANTS
  Deliveries,       \* delivery ids
  Endpoints,        \* endpoint ids
  EndpointOf,       \* deliveries.endpoint_id
  Dispatchers,      \* message slots of the dispatcher (asyncio tasks)
  Reapers,          \* message slots of the reaper (its claimed batch)
  Replayers,        \* POST /deliveries/{id}/replay requests in progress
  MaxAttempts,      \* settings.delivery_max_attempts
  MaxStream,        \* bound: messages ever added to the stream
  MaxCrashes,       \* bound: message slots lost to a crash or an exception
  MaxTrips,         \* bound: openings of the breaker of an endpoint
  MaxReplays,       \* bound: replays accepted
  SchedulerCrashes, \* may the scheduler stop between ZREM and XADD?
  ReplayCrashes,    \* may the API stop between the commit and XADD?
  IdleMeansDead,    \* TRUE: reaper_min_idle_ms outlives every live consumer
  CommitFirst,      \* TRUE: reaper_min_idle_ms outlives a fan-out transaction
  PromptWrites      \* TRUE: nobody else writes a row between its SELECT and its UPDATE

ASSUME EngineAssumption ==
  /\ EndpointOf \in [Deliveries -> Endpoints]
  /\ Dispatchers \cap Reapers = {}
  /\ MaxAttempts \in Nat \ {0}
  /\ {MaxStream, MaxCrashes, MaxTrips, MaxReplays} \subseteq Nat
  /\ {SchedulerCrashes, ReplayCrashes, IdleMeansDead, CommitFirst, PromptWrites}
       \subseteq BOOLEAN

VARIABLES
  rows,      \* deliveries table
  attempts,  \* delivery_attempts: rows logged per delivery, any of them a success
  stream,    \* relay:deliveries, append only (XACK deletes nothing, nothing trims)
  cursor,    \* the consumer group's last-delivered position
  pel,       \* the group's pending entries: read and not acknowledged
  zset,      \* relay:retry_schedule: members with the time they are due
  popped,    \* what the scheduler has taken off the ZSET and not yet enqueued
  worker,    \* the dispatcher's and the reaper's message slots
  replayer,  \* the replay requests
  breaker,   \* per endpoint: its openings so far, inside the cooldown of the last
  budget     \* what is left of the bounds

vars == <<rows, attempts, stream, cursor, pel, zset, popped, worker, replayer,
          breaker, budget>>
redis == <<stream, cursor, pel, zset, popped>>

Workers == Dispatchers \cup Reapers

-----------------------------------------------------------------------------
(* The data. *)

DeliveryState == {"pending", "retrying", "delivered", "dead"}

\* A row in the making: "none" has no row yet, "open" is inserted by a fan-out
\* transaction that has not committed, "gone" was rolled back or cascaded away.
Lifecycle == DeliveryState \cup {"none", "open", "gone"}

\* next_retry_at: NULL, now + backoff (a time no other attempt computes), or
\* opened_at + cooldown of the n-th opening (which deferrals have in common).
Null == 0
Backoff == MaxTrips + 1
RetryAt == 0..Backoff
Row == [state : Lifecycle, attempt_count : Nat, next_retry_at : RetryAt]

NewRow(s) == [state |-> s, attempt_count |-> 0, next_retry_at |-> Null]

\* A stream entry or a ZSET member; corr: it carries the event's correlation id.
Message == [delivery : Deliveries, corr : BOOLEAN]

Phases == {"idle", "got", "defer", "send", "ok", "failed", "schedule", "ack"}

\* What an attempt decides from is what it loaded first: attempt_no, one more than
\* that row's count, and until, the end of the cooldown it found.  What it writes
\* starts from row, which it selects again just before, and which the write then
\* replaces by the row it returns.
NoMessage == 0
Slot == [phase : Phases, msg : Nat, attempt_no : Nat, until : RetryAt, row : Row]
IdleSlot == [phase |-> "idle", msg |-> NoMessage, attempt_no |-> 0, until |-> Null,
             row |-> NewRow("none")]

ReplayPhases == {"idle", "loaded", "selected", "enqueue"}
Request == [phase : ReplayPhases, delivery : Deliveries, row : Row]

Committed(d) == rows[d].state \in DeliveryState
Delivery(w) == stream[worker[w].msg].delivery
Held(i) == \E w \in Workers : worker[w].phase # "idle" /\ worker[w].msg = i

\* A slot, or a replay request, between the SELECT of its delivery and the UPDATE.
Selected(w) == worker[w].phase \in {"defer", "ok", "failed"} /\ worker[w].row.state # "none"
Writing(d) ==
  \/ \E w \in Workers : Selected(w) /\ Delivery(w) = d
  \/ \E r \in Replayers : replayer[r].phase = "selected" /\ replayer[r].delivery = d

\* repositories/deliveries: an UPDATE sets only the columns in which new differs
\* from the row selected, over whatever is committed by then.
Flush(selected, new, current) ==
  [state         |-> IF new.state # selected.state THEN new.state ELSE current.state,
   attempt_count |-> IF new.attempt_count # selected.attempt_count
                     THEN new.attempt_count ELSE current.attempt_count,
   next_retry_at |-> IF new.next_retry_at = Backoff \/ new.next_retry_at # selected.next_retry_at
                     THEN new.next_retry_at ELSE current.next_retry_at]

Attempted(row, s, at) ==
  [state |-> s, attempt_count |-> row.attempt_count + 1, next_retry_at |-> at]

mark_delivered(row) == Attempted(row, "delivered", Null)
mark_dead(row) == Attempted(row, "dead", Null)

\* Mutant of mark_retrying: the retry is not given a time.
mark_retryingUndated(row) == Attempted(row, "retrying", Null)

mark_retrying(row) == Attempted(row, "retrying", Backoff)

\* Mutant of reschedule: a deferral counts as an attempt.
rescheduleCounting(row, at) == Attempted(row, "retrying", at)

reschedule(row, at) == [row EXCEPT !.state = "retrying", !.next_retry_at = at]
reset_for_replay(row) == NewRow("pending")

\* DeliveryAttemptService.attempt: what it makes of the row; whether the budget is
\* exhausted was decided by the number of the attempt.
Outcome(row, attempt_no, success) ==
  IF success THEN mark_delivered(row)
  ELSE IF attempt_no >= MaxAttempts THEN mark_dead(row)
  ELSE mark_retrying(row)

XADD(m) == Len(stream) < MaxStream /\ stream' = Append(stream, m)

Spend(what) == budget[what] > 0 /\ budget' = [budget EXCEPT ![what] = @ - 1]

-----------------------------------------------------------------------------
(* The outbox relay: one transaction inserts the deliveries of a batch of    *)
(* events and publishes each of them before it commits.                      *)

RelayPublish(d) ==
  /\ rows[d].state = "none"
  /\ rows' = [rows EXCEPT ![d] = NewRow("open")]
  /\ XADD([delivery |-> d, corr |-> TRUE])
  /\ UNCHANGED <<attempts, cursor, pel, zset, popped, worker, replayer, breaker, budget>>

Open == {d \in Deliveries : rows[d].state = "open"}

RelayCommit ==
  /\ Open # {}
  /\ rows' = [d \in Deliveries |-> IF d \in Open THEN NewRow("pending") ELSE rows[d]]
  /\ UNCHANGED <<attempts, redis, worker, replayer, breaker, budget>>

\* A crash or an error before the commit: the messages stay on the stream, the
\* rows never exist.  The outbox entries stay due, for deliveries with new ids.
RelayRollback ==
  /\ Open # {}
  /\ Spend("crashes")
  /\ rows' = [d \in Deliveries |-> IF d \in Open THEN NewRow("gone") ELSE rows[d]]
  /\ UNCHANGED <<attempts, redis, worker, replayer, breaker>>

\* DELETE /endpoints/{id} cascades to its deliveries and their attempts; the
\* foreign keys make it wait for a fan-out transaction that references it, and for
\* an attempt that has inserted its log entry.
DeleteEndpoint(e) ==
  LET mine == {d \in Deliveries : EndpointOf[d] = e} IN
  /\ \E d \in mine : Committed(d)
  /\ \A d \in mine : rows[d].state # "open"
  /\ \A w \in Workers : Selected(w) /\ worker[w].phase # "defer" => Delivery(w) \notin mine
  /\ rows' = [d \in Deliveries |-> IF d \in mine THEN NewRow("gone") ELSE rows[d]]
  /\ attempts' = [d \in Deliveries |->
                    IF d \in mine THEN [logged |-> 0, ok |-> FALSE] ELSE attempts[d]]
  /\ UNCHANGED <<redis, worker, replayer, breaker, budget>>

-----------------------------------------------------------------------------
(* A message slot of the dispatcher or of the reaper. *)

\* XREADGROUP: a dispatcher takes the next message nobody has been given.
Read(w) ==
  /\ w \in Dispatchers
  /\ worker[w].phase = "idle"
  /\ cursor < Len(stream)
  /\ cursor' = cursor + 1
  /\ pel' = pel \cup {cursor + 1}
  /\ worker' = [worker EXCEPT ![w].phase = "got", ![w].msg = cursor + 1]
  /\ UNCHANGED <<rows, attempts, stream, zset, popped, replayer, breaker, budget>>

\* XAUTOCLAIM: the reaper takes a pending message idle for reaper_min_idle_ms.
\* What that interval outlives is for IdleMeansDead and CommitFirst to say.
Reclaim(w) ==
  /\ w \in Reapers
  /\ worker[w].phase = "idle"
  /\ \E i \in pel :
       /\ IdleMeansDead => ~Held(i)
       /\ CommitFirst => rows[stream[i].delivery].state # "open"
       /\ worker' = [worker EXCEPT ![w].phase = "got", ![w].msg = i]
  /\ UNCHANGED <<rows, attempts, redis, replayer, breaker, budget>>

\* The attempt loads the delivery and its endpoint, then decides to defer
\* (should_skip_for_open_breaker) or to send.  It never looks at the state.
Load(w) ==
  /\ worker[w].phase = "got"
  /\ Committed(Delivery(w))
  /\ LET b == breaker[EndpointOf[Delivery(w)]] IN
     worker' = [worker EXCEPT ![w].phase = IF b.cooling THEN "defer" ELSE "send",
                              ![w].attempt_no = rows[Delivery(w)].attempt_count + 1,
                              ![w].until = IF b.cooling THEN b.opened ELSE Null]
  /\ UNCHANGED <<rows, attempts, redis, replayer, breaker, budget>>

\* Mutants of LoadMissing: nobody acknowledges, or everybody does.
LoadMissingKept(w) ==
  /\ worker[w].phase = "got"
  /\ ~Committed(Delivery(w))
  /\ worker' = [worker EXCEPT ![w] = IdleSlot]
  /\ UNCHANGED <<rows, attempts, redis, replayer, breaker, budget>>
LoadMissingAcked(w) ==
  /\ worker[w].phase = "got"
  /\ ~Committed(Delivery(w))
  /\ pel' = pel \ {worker[w].msg}
  /\ worker' = [worker EXCEPT ![w] = IdleSlot]
  /\ UNCHANGED <<rows, attempts, stream, cursor, zset, popped, replayer, breaker, budget>>

\* NotFoundError: the dispatcher leaves the message pending (the row may not be
\* committed yet), the reaper acknowledges it (the row is taken to be gone).
LoadMissing(w) ==
  /\ worker[w].phase = "got"
  /\ ~Committed(Delivery(w))
  /\ pel' = IF w \in Reapers THEN pel \ {worker[w].msg} ELSE pel
  /\ worker' = [worker EXCEPT ![w] = IdleSlot]
  /\ UNCHANGED <<rows, attempts, stream, cursor, zset, popped, replayer, breaker, budget>>

\* The POST to the destination, and the answer or the error it ends with.
Send(w) ==
  /\ worker[w].phase = "send"
  /\ \E answer \in {"ok", "failed"} : worker' = [worker EXCEPT ![w].phase = answer]
  /\ UNCHANGED <<rows, attempts, redis, replayer, breaker, budget>>

\* Mutant of After: the retry time is not looked at.
AfterUndated(row) == IF row.state = "retrying" THEN "schedule" ELSE "ack"

\* process_delivery_message: a delivery that comes back RETRYING with a retry
\* time is scheduled, then the message is acknowledged.
After(row) == IF row.state = "retrying" /\ row.next_retry_at # Null THEN "schedule" ELSE "ack"

\* _get_or_raise: the instance loaded first is gone from the session, so the row
\* is selected again before it is changed.  An attempt has inserted its log entry
\* by then, which is not visible before the commit.
Reselect(w) ==
  LET d == Delivery(w) IN
  /\ worker[w].phase \in {"defer", "ok", "failed"} /\ ~Selected(w)
  /\ Committed(d)
  /\ PromptWrites => ~Writing(d)
  /\ worker' = [worker EXCEPT ![w].row = rows[d]]
  /\ UNCHANGED <<rows, attempts, redis, replayer, breaker, budget>>

\* The breaker is open: move the retry to opened_at + cooldown and commit.  That
\* may be the very timestamp the row has, and then nothing is written.
Defer(w) ==
  LET d == Delivery(w)
      new == reschedule(worker[w].row, worker[w].until)
      row == Flush(worker[w].row, new, rows[d])
  IN
  /\ worker[w].phase = "defer" /\ Selected(w)
  /\ Committed(d)
  /\ rows' = [rows EXCEPT ![d] = row]
  /\ worker' = [worker EXCEPT ![w].phase = After(row), ![w].row = row]
  /\ UNCHANGED <<attempts, redis, replayer, breaker, budget>>

\* Mutant of Record: a successful attempt is not logged.
RecordUnlogged(w) ==
  LET d == Delivery(w)
      success == worker[w].phase = "ok"
      new == Outcome(worker[w].row, worker[w].attempt_no, success)
      row == Flush(worker[w].row, new, rows[d])
  IN
  /\ worker[w].phase \in {"ok", "failed"} /\ Selected(w)
  /\ Committed(d)
  /\ rows' = [rows EXCEPT ![d] = row]
  /\ attempts' = IF success THEN attempts ELSE [attempts EXCEPT ![d].logged = @ + 1]
  /\ worker' = [worker EXCEPT ![w].phase = After(row), ![w].row = row]
  /\ UNCHANGED <<redis, replayer, breaker, budget>>

\* The transaction that logs the attempt and moves the delivery on.
Record(w) ==
  LET d == Delivery(w)
      success == worker[w].phase = "ok"
      new == Outcome(worker[w].row, worker[w].attempt_no, success)
      row == Flush(worker[w].row, new, rows[d])
  IN
  /\ worker[w].phase \in {"ok", "failed"} /\ Selected(w)
  /\ Committed(d)
  /\ rows' = [rows EXCEPT ![d] = row]
  /\ attempts' = [attempts EXCEPT ![d].logged = @ + 1, ![d].ok = @ \/ success]
  /\ worker' = [worker EXCEPT ![w].phase = After(row), ![w].row = row]
  /\ UNCHANGED <<redis, replayer, breaker, budget>>

\* The row was cascaded away under the attempt, which raises, and the transaction
\* rolls back.  A SELECT that finds nothing raises NotFoundError, on which the
\* reaper acknowledges; any other exception (the row goes between a SELECT and its
\* UPDATE, or before the log entry) leaves the message pending.
WriteMissing(w) ==
  /\ worker[w].phase \in {"defer", "ok", "failed"}
  /\ ~Committed(Delivery(w))
  /\ \/ /\ w \in Reapers /\ ~Selected(w)
        /\ pel' = pel \ {worker[w].msg}
     \/ /\ w \in Reapers /\ worker[w].phase = "defer" => Selected(w)
        /\ pel' = pel
  /\ worker' = [worker EXCEPT ![w] = IdleSlot]
  /\ UNCHANGED <<rows, attempts, stream, cursor, zset, popped, replayer, breaker, budget>>

\* ZADD at the returned row's next_retry_at: a member is the delivery with the
\* message's correlation id, so a second schedule of it only moves its time.
Schedule(w) ==
  /\ worker[w].phase = "schedule"
  /\ LET m == stream[worker[w].msg] IN
     zset' = {z \in zset : z.member # m} \cup {[member |-> m, at |-> worker[w].row.next_retry_at]}
  /\ worker' = [worker EXCEPT ![w].phase = "ack"]
  /\ UNCHANGED <<rows, attempts, stream, cursor, pel, popped, replayer, breaker, budget>>

Ack(w) ==
  /\ worker[w].phase = "ack"
  /\ pel' = pel \ {worker[w].msg}
  /\ worker' = [worker EXCEPT ![w] = IdleSlot]
  /\ UNCHANGED <<rows, attempts, stream, cursor, zset, popped, replayer, breaker, budget>>

\* The process dies, or a step raises: an open transaction is rolled back, the
\* message is not acknowledged, what was committed or scheduled stays.
Abandon(w) ==
  /\ worker[w].phase # "idle"
  /\ Spend("crashes")
  /\ worker' = [worker EXCEPT ![w] = IdleSlot]
  /\ UNCHANGED <<rows, attempts, redis, replayer, breaker>>

-----------------------------------------------------------------------------
(* The scheduler: one Lua script takes the due members off the ZSET, then    *)
(* each is added to the stream by a call of its own.                         *)

Cooling(z) ==
  LET b == breaker[EndpointOf[z.member.delivery]] IN b.cooling /\ b.opened = z.at

PopDue ==
  /\ popped = {}
  /\ \E due \in SUBSET {z \in zset : ~Cooling(z)} :
       /\ due # {}
       /\ popped' = {z.member : z \in due}
       /\ zset' = zset \ due
  /\ UNCHANGED <<rows, attempts, stream, cursor, pel, worker, replayer, breaker, budget>>

Enqueue ==
  /\ \E m \in popped : XADD(m) /\ popped' = popped \ {m}
  /\ UNCHANGED <<rows, attempts, cursor, pel, zset, worker, replayer, breaker, budget>>

\* Whatever was popped and not yet added is in neither place.
SchedulerCrash ==
  /\ SchedulerCrashes
  /\ popped # {}
  /\ popped' = {}
  /\ UNCHANGED <<rows, attempts, stream, cursor, pel, zset, worker, replayer, breaker, budget>>

-----------------------------------------------------------------------------
(* ReplayService.replay: only a DEAD delivery is accepted, it is reset and   *)
(* committed, then enqueued, without a correlation id.                       *)

ReplayLoad(r) ==
  /\ replayer[r].phase = "idle"
  /\ \E d \in Deliveries :
       /\ rows[d].state = "dead"
       /\ Spend("replays")
       /\ replayer' = [replayer EXCEPT ![r].phase = "loaded", ![r].delivery = d]
  /\ UNCHANGED <<rows, attempts, redis, worker, breaker>>

\* reset_for_replay selects the row again, whatever its state has become.
ReplaySelect(r) ==
  LET d == replayer[r].delivery IN
  /\ replayer[r].phase = "loaded"
  /\ Committed(d)
  /\ PromptWrites => ~Writing(d)
  /\ replayer' = [replayer EXCEPT ![r].phase = "selected", ![r].row = rows[d]]
  /\ UNCHANGED <<rows, attempts, redis, worker, breaker, budget>>

ReplayReset(r) ==
  LET d == replayer[r].delivery
      selected == replayer[r].row
  IN
  /\ replayer[r].phase = "selected"
  /\ Committed(d)
  /\ rows' = [rows EXCEPT ![d] = Flush(selected, reset_for_replay(selected), rows[d])]
  /\ replayer' = [replayer EXCEPT ![r].phase = "enqueue", ![r].row = NewRow("none")]
  /\ UNCHANGED <<attempts, redis, worker, breaker, budget>>

ReplayEnqueue(r) ==
  /\ replayer[r].phase = "enqueue"
  /\ XADD([delivery |-> replayer[r].delivery, corr |-> FALSE])
  /\ replayer' = [replayer EXCEPT ![r].phase = "idle"]
  /\ UNCHANGED <<rows, attempts, cursor, pel, zset, popped, worker, breaker, budget>>

\* The request fails: the row is gone, or the API stops before it enqueues.
ReplayFail(r) ==
  /\ \/ replayer[r].phase \in {"loaded", "selected"} /\ ~Committed(replayer[r].delivery)
     \/ replayer[r].phase = "enqueue" /\ ReplayCrashes
  /\ replayer' = [replayer EXCEPT ![r].phase = "idle", ![r].row = NewRow("none")]
  /\ UNCHANGED <<rows, attempts, redis, worker, breaker, budget>>

-----------------------------------------------------------------------------
(* The breaker of an endpoint, as far as deferrals see it: OPEN inside its   *)
(* cooldown, or anything else.                                               *)

Trip(e) ==
  /\ ~breaker[e].cooling
  /\ breaker[e].opened < MaxTrips
  /\ breaker' = [breaker EXCEPT ![e] = [opened |-> @.opened + 1, cooling |-> TRUE]]
  /\ UNCHANGED <<rows, attempts, redis, worker, replayer, budget>>

CoolDown(e) ==
  /\ breaker[e].cooling
  /\ breaker' = [breaker EXCEPT ![e].cooling = FALSE]
  /\ UNCHANGED <<rows, attempts, redis, worker, replayer, budget>>

-----------------------------------------------------------------------------
Init ==
  /\ rows = [d \in Deliveries |-> NewRow("none")]
  /\ attempts = [d \in Deliveries |-> [logged |-> 0, ok |-> FALSE]]
  /\ stream = <<>>
  /\ cursor = 0
  /\ pel = {}
  /\ zset = {}
  /\ popped = {}
  /\ worker = [w \in Workers |-> IdleSlot]
  /\ replayer \in [Replayers -> [phase : {"idle"}, delivery : Deliveries,
                                 row : {NewRow("none")}]]
  /\ breaker = [e \in Endpoints |-> [opened |-> 0, cooling |-> FALSE]]
  /\ budget = [crashes |-> MaxCrashes, replays |-> MaxReplays]

Work(w) ==
  \/ Read(w) \/ Reclaim(w) \/ Load(w) \/ LoadMissing(w) \/ Send(w) \/ Reselect(w)
  \/ Defer(w) \/ Record(w) \/ WriteMissing(w) \/ Schedule(w) \/ Ack(w)

Next ==
  \/ \E d \in Deliveries : RelayPublish(d)
  \/ RelayCommit \/ RelayRollback
  \/ \E e \in Endpoints : DeleteEndpoint(e) \/ Trip(e) \/ CoolDown(e)
  \/ \E w \in Workers : Work(w) \/ Abandon(w)
  \/ PopDue \/ Enqueue \/ SchedulerCrash
  \/ \E r \in Replayers :
       ReplayLoad(r) \/ ReplaySelect(r) \/ ReplayReset(r) \/ ReplayEnqueue(r) \/ ReplayFail(r)

Spec == Init /\ [][Next]_vars

\* Every worker is restarted when it dies (compose: restart: unless-stopped) and
\* polls in a loop, so a step it can always take is taken.  Send is fair because
\* the sender has timeouts and a destination is assumed not to trickle bytes for
\* ever.  Nothing obliges a client to delete or to replay, or a process to crash.
Fairness ==
  /\ WF_vars(RelayCommit)
  /\ \A e \in Endpoints : WF_vars(CoolDown(e))
  /\ \A w \in Workers : WF_vars(Work(w))
  /\ WF_vars(PopDue)
  /\ WF_vars(Enqueue)
  /\ \A r \in Replayers :
       WF_vars(ReplaySelect(r)) /\ WF_vars(ReplayReset(r)) /\ WF_vars(ReplayEnqueue(r))

FairSpec == Spec /\ Fairness

-----------------------------------------------------------------------------
(* Properties. *)

\* Every variable keeps its type: positions stay inside the stream, a busy slot
\* holds a message that was read, and no retry is scheduled at no time.
TypeOK ==
  /\ rows \in [Deliveries -> Row]
  /\ attempts \in [Deliveries -> [logged : Nat, ok : BOOLEAN]]
  /\ stream \in Seq(Message)
  /\ cursor \in 0..Len(stream)
  /\ pel \subseteq 1..cursor
  /\ zset \subseteq [member : Message, at : RetryAt \ {Null}]
  /\ popped \subseteq Message
  /\ worker \in [Workers -> Slot]
  /\ \A w \in Workers :
       /\ worker[w].phase # "idle" => worker[w].msg \in 1..cursor
       /\ worker[w].phase = "schedule" => worker[w].row.next_retry_at # Null
  /\ replayer \in [Replayers -> Request]
  /\ breaker \in [Endpoints -> [opened : 0..MaxTrips, cooling : BOOLEAN]]
  /\ budget \in [{"crashes", "replays"} -> Nat]

\* Something that still leads to an attempt of d: a message not read yet or
\* pending in the group, a scheduled retry, one in the scheduler's hand, or a
\* replay about to enqueue.
Token(d) ==
  \/ \E i \in 1..Len(stream) : stream[i].delivery = d /\ (i > cursor \/ i \in pel)
  \/ \E z \in zset : z.member.delivery = d
  \/ \E m \in popped : m.delivery = d
  \/ \E r \in Replayers : replayer[r].phase = "enqueue" /\ replayer[r].delivery = d

\* No accepted delivery is stranded: one that is pending or retrying "already
\* has a live chain" (replay_service.py), which is why replay refuses it.
LiveChain ==
  \A d \in Deliveries : rows[d].state \in {"pending", "retrying"} => Token(d)

\* A delivery is only reported delivered when an attempt of it was answered 2xx
\* and logged, whatever attempts raced it (attempt and mark_delivered commit in
\* one transaction, but columns of two attempts may be merged).
DeliveredEarned ==
  \A d \in Deliveries : rows[d].state = "delivered" => attempts[d].ok

\* A delivery only reaches the DLQ after MaxAttempts attempts were really made
\* and logged: deferrals by the breaker, crashes and duplicated messages never
\* consume the retry budget, although the number of an attempt is decided long
\* before it is written and counts of racing attempts may overwrite each other.
DeadExhausted ==
  \A d \in Deliveries : rows[d].state = "dead" => attempts[d].logged >= MaxAttempts

\* What a client can tell of a delivery; until the fan-out commits, it has none.
StatusOf(d) ==
  LET s == rows[d].state IN
  CASE s \in {"pending", "retrying"} -> "live"
    [] s = "open" -> "none"
    [] OTHER -> s

Promise == INSTANCE AtLeastOnce WITH
  status <- [d \in Deliveries |-> StatusOf(d)],
  log <- attempts,
  chain <- [d \in Deliveries |-> Token(d)]

\* The engine implements at-least-once delivery: each of its steps is, to a
\* client, one of AtLeastOnce's or nothing.  Merged columns, duplicates and
\* crashes never invent or forget an attempt, end a delivery some other way, or
\* leave an open one with nothing under way.
KeepsPromise == Promise!Spec

\* Every delivery that was accepted ends: delivered, dead, or deleted.
EventuallySettled ==
  \A d \in Deliveries :
    rows[d].state \in {"pending", "retrying"} ~> rows[d].state \in {"delivered", "dead", "gone"}

\* The stream drains: no message stays pending, reclaimed and failing again
\* every sweep, because of a rolled back fan-out or a deleted endpoint.
StreamDrains == <>[](pel = {} /\ cursor = Len(stream) /\ zset = {} /\ popped = {})
=============================================================================
