---------------------------- MODULE ConsoleReads ----------------------------
(***************************************************************************)
(* What a client of the API sees while the workers go on: the DLQ and the  *)
(* endpoints page by page, the metrics snapshot, and the live feed of      *)
(* attempts.  A reader changes nothing, so one at a time stands for all.   *)
(*                                                                         *)
(* Each statement of a reader is a snapshot of its own (READ COMMITTED),   *)
(* and a walk over pages is several requests.  In between, fan-outs        *)
(* commit, attempts fail and succeed, deliveries are replayed, endpoints   *)
(* are registered and deleted.  What the writers do to a row is reduced to *)
(* what DeliveryEngine allows when nothing races.                          *)
(*                                                                         *)
(* Listings are ordered by (created_at, id).  created_at is when the       *)
(* writing transaction began: equal for the deliveries of one fan-out, and *)
(* a row may be committed after rows that are later in the order.          *)
(***************************************************************************)
EXTENDS Integers, Sequences, FiniteSets

CONSTANTS
  Tenant,       \* the reader's tenant
  Deliveries, Endpoints,
  TenantOf,     \* of deliveries, by their events, and of endpoints
  EndpointOf,
  KeyOf,        \* (created_at, id) of each row
  Resident,     \* rows that are there when the reader begins; others may be
  Nothing,
  MaxAttempts,  \* retry budget
  PageLimit,    \* ?limit=
  SampleSize,   \* DEFAULT_SAMPLE_SIZE
  MaxWrites     \* bound: writes while the reader is at work

Rows == Deliveries \cup Endpoints

ASSUME ReadsAssumption ==
  /\ IsFiniteSet(Rows)
  /\ Deliveries \cap Endpoints = {} /\ Nothing \notin Rows \cup (Deliveries \X Nat)
  /\ Resident \subseteq Rows
  /\ EndpointOf \in [Deliveries -> Endpoints]
  /\ \A d \in Deliveries : TenantOf[d] = TenantOf[EndpointOf[d]]
  /\ KeyOf \in [Rows -> Nat \X Nat]
  /\ \A r, s \in Rows : KeyOf[r] = KeyOf[s] => r = s
  /\ {MaxAttempts, PageLimit, SampleSize} \subseteq Nat \ {0}

VARIABLES
  state,     \* committed rows: what state each is in
  attempts,  \* committed delivery_attempts
  count,     \* attempt_count
  outgoing,  \* outcomes that are committed and not yet published
  writes,    \* how many writes there have been
  during,    \* history: the states each row has been in since a listing or a
             \* snapshot began
  reader,    \* which request it is, and how far
  page,      \* a listing: those rows of the page that are still to be detailed
  listed,    \* what the client has been given: rows, and the attempts shown
  metrics,   \* DeliveryMetrics
  feed,      \* the SSE connection
  sent       \* history: what was published to the tenant's channel meanwhile

tables == <<state, attempts, count, outgoing, writes, during>>
vars == <<tables, reader, page, listed, metrics, feed, sent>>

-----------------------------------------------------------------------------
Own(r) == TenantOf[r] = Tenant

Queued == {"pending", "retrying"}
Stored == Queued \cup {"delivered", "dead", "active"}
RowState == Stored \cup {"none", "gone"}

\* ok: a 2xx answer.  id: the primary key, here the number of the attempt among
\* those of its delivery.
AttemptRow == [delivery : Deliveries, id : Nat, ok : BOOLEAN]

\* list_for_delivery: over every replay, attempts are never rewritten.
History(d) == {a \in attempts : a.delivery = d}

\* An outcome that was published has its attempt; a deferral, 0, has none.
OnRecord(d, n) == n = 0 \/ \E a \in History(d) : a.id = n

AtMost(n, limit) == IF n < limit THEN n ELSE limit

Throughout(S) == {r \in Rows : Own(r) /\ during[r] \subseteq S}
AtSomeTime(S) == {r \in Rows : Own(r) /\ during[r] \cap S # {}}

-----------------------------------------------------------------------------
(* The writers. *)

Write(new) ==
  /\ writes < MaxWrites /\ reader.phase # "done"
  /\ writes' = writes + 1
  /\ state' = new
  /\ during' = IF reader.kind \in {"feed", "drill"} THEN during
               ELSE [r \in Rows |-> during[r] \cup {new[r]}]
  /\ UNCHANGED <<reader, page, listed, metrics, feed, sent>>

\* What is to be published after the commit; without a feed, nobody hears it.
Outcome(d, n) ==
  outgoing' = IF reader.kind = "feed" THEN outgoing \cup {<<d, n>>} ELSE outgoing

\* The fan-out of an event is committed.
Accept(d) ==
  /\ state[d] = "none" /\ state[EndpointOf[d]] = "active"
  /\ Write([state EXCEPT ![d] = "pending"])
  /\ UNCHANGED <<attempts, count, outgoing>>

\* An attempt is committed; it is published afterwards.
Attempt(d, ok) ==
  LET id == Cardinality(History(d)) + 1 IN
  /\ state[d] \in Queued
  /\ attempts' = attempts \cup {[delivery |-> d, id |-> id, ok |-> ok]}
  /\ count' = [count EXCEPT ![d] = @ + 1]
  /\ Outcome(d, id)
  /\ Write([state EXCEPT ![d] = IF ok THEN "delivered"
                                ELSE IF count[d] + 1 < MaxAttempts THEN "retrying" ELSE "dead"])

\* A breaker that is open puts the delivery off: nothing is counted or logged, and
\* what is published of it has no attempt number.
Defer(d) ==
  /\ state[d] \in Queued
  /\ Outcome(d, 0)
  /\ Write([state EXCEPT ![d] = "retrying"])
  /\ UNCHANGED <<attempts, count>>

\* A dead delivery is replayed: a fresh budget, the history stays.
Replay(d) ==
  /\ state[d] = "dead"
  /\ count' = [count EXCEPT ![d] = 0]
  /\ Write([state EXCEPT ![d] = "pending"])
  /\ UNCHANGED <<attempts, outgoing>>

Register(e) ==
  /\ state[e] = "none"
  /\ Write([state EXCEPT ![e] = "active"])
  /\ UNCHANGED <<attempts, count, outgoing>>

\* Mutant of Delete: nothing cascades.
DeleteAlone(e) ==
  /\ state[e] = "active"
  /\ Write([state EXCEPT ![e] = "gone"])
  /\ UNCHANGED <<attempts, count, outgoing>>

\* Deletion cascades to the deliveries of the endpoint and to their attempts.
Delete(e) ==
  LET gone == {e} \cup {d \in Deliveries : EndpointOf[d] = e /\ state[d] \in Stored} IN
  /\ state[e] = "active"
  /\ attempts' = {a \in attempts : a.delivery \notin gone}
  /\ Write([r \in Rows |-> IF r \in gone THEN "gone" ELSE state[r]])
  /\ UNCHANGED <<count, outgoing>>

-----------------------------------------------------------------------------
(* Pages: EndpointRepository.list, DeliveryRepository.list_dead. *)

Kinds == {"dlq", "endpoints"}

\* The rows a listing is of.
Matching(kind) ==
  {r \in Rows : Own(r) /\ IF kind = "dlq" THEN state[r] = "dead" ELSE state[r] = "active"}

Before(r, s) ==
  LET a == KeyOf[r]
      b == KeyOf[s]
  IN a[1] < b[1] \/ (a[1] = b[1] /\ a[2] < b[2])

\* Mutant of After: every row of the cursor's instant is taken to have been listed.
AfterInstant(r, cursor) == cursor = Nothing \/ KeyOf[cursor][1] < KeyOf[r][1]

\* The cursor is the (created_at, id) of the last row given, to the microsecond
\* and through base64 and back.
After(r, cursor) == cursor = Nothing \/ Before(cursor, r)

\* ORDER BY created_at, id LIMIT limit.
IsPage(first, rows) ==
  /\ Cardinality(first) = AtMost(Cardinality(rows), PageLimit)
  /\ \A r \in first, s \in rows \ first : Before(r, s)

\* One row more than the limit is asked for, which only says that there is more.
Query ==
  LET rows == {r \in Matching(reader.kind) : After(r, reader.cursor)} IN
  /\ reader.kind \in Kinds /\ reader.phase = "query"
  /\ \E first \in SUBSET rows : IsPage(first, rows) /\ page' = first
  /\ reader' = [reader EXCEPT !.phase = IF rows = {} THEN "done" ELSE "detail",
                              !.more = Cardinality(rows) > PageLimit]
  /\ UNCHANGED <<tables, listed, metrics, feed, sent>>

\* An endpoint is given as it was read; a dead delivery with its attempts, which
\* list_for_delivery reads only now.  When the page is given, the client asks for
\* the one after its last row, if there are more.
Detail ==
  /\ reader.kind \in Kinds /\ reader.phase = "detail"
  /\ \E r \in page :
       /\ \A s \in page \ {r} : Before(r, s)
       /\ listed' = Append(listed, [row |-> r, shown |-> Cardinality(History(r))])
       /\ page' = page \ {r}
       /\ reader' = [reader EXCEPT !.cursor = r,
                                   !.phase = IF page # {r} THEN "detail"
                                             ELSE IF reader.more THEN "query" ELSE "done"]
  /\ UNCHANGED <<tables, metrics, feed, sent>>

-----------------------------------------------------------------------------
(* MetricsService.snapshot: three statements. *)

\* Mutant of CountStates: the join that scopes the count to the tenant is missing.
CountStatesOfAll(S) == Cardinality({d \in Deliveries : state[d] \in S})

CountStates(S) == Cardinality({d \in Deliveries : Own(d) /\ state[d] \in S})

CountQueue ==
  /\ reader.kind = "metrics" /\ reader.phase = "query"
  /\ metrics' = [metrics EXCEPT !.queue_depth = CountStates(Queued)]
  /\ reader' = [reader EXCEPT !.phase = "in_flight"]
  /\ UNCHANGED <<tables, page, listed, feed, sent>>

CountInFlight ==
  /\ reader.kind = "metrics" /\ reader.phase = "in_flight"
  /\ metrics' = [metrics EXCEPT !.in_flight = CountStates({"retrying"})]
  /\ reader' = [reader EXCEPT !.phase = "sample"]
  /\ UNCHANGED <<tables, page, listed, feed, sent>>

\* The position of the 95th percentile among n sorted latencies.
PercentileRank(n) == AtMost((95 * n) \div 100 + 1, n)

OwnAttempts == {a \in attempts : Own(a.delivery)}

\* The newest attempts by the time their transactions began, which is not the
\* order of their commits: any of them may be the ones.
Sample ==
  /\ reader.kind = "metrics" /\ reader.phase = "sample"
  /\ \E recent \in SUBSET OwnAttempts :
       /\ Cardinality(recent) = AtMost(Cardinality(OwnAttempts), SampleSize)
       /\ metrics' = [metrics EXCEPT !.sample_size = Cardinality(recent),
                                     !.successes = Cardinality({a \in recent : a.ok})]
  /\ reader' = [reader EXCEPT !.phase = "done"]
  /\ UNCHANGED <<tables, page, listed, feed, sent>>

-----------------------------------------------------------------------------
(* The live feed: publish after commit, one channel per tenant, heartbeats.  *)

\* SUBSCRIBE: what is published from now on is kept for the connection.
Subscribe ==
  /\ reader.kind = "feed" /\ reader.phase = "query"
  /\ reader' = [reader EXCEPT !.phase = "open"]
  /\ UNCHANGED <<tables, page, listed, metrics, feed, sent>>

\* PUBLISH, if nothing goes wrong: an exception is logged and forgotten, and so is
\* a message to a channel nobody listens to.
Publish ==
  \E m \in outgoing :
    /\ outgoing' = outgoing \ {m}
    /\ \/ UNCHANGED <<feed, sent>>
       \/ /\ Own(m[1]) /\ reader.kind = "feed" /\ reader.phase = "open"
          /\ feed' = [feed EXCEPT !.buffer = Append(@, m)]
          /\ sent' = Append(sent, m)
    /\ UNCHANGED <<state, attempts, count, writes, during, reader, page, listed, metrics>>

Open == reader.kind = "feed" /\ reader.phase = "open"

\* The task that waits for the next message gets one, also while the response is
\* being written.
Receive ==
  /\ Open /\ feed.task = "running" /\ feed.buffer # << >>
  /\ feed' = [feed EXCEPT !.task = "done", !.payload = Head(feed.buffer), !.buffer = Tail(@)]
  /\ UNCHANGED <<tables, reader, page, listed, metrics, sent>>

\* asyncio.wait, with a new task unless one is pending.
Wait ==
  /\ Open /\ feed.at = "loop" /\ feed.task = "none"
  /\ feed' = [feed EXCEPT !.at = "wait", !.task = "running"]
  /\ UNCHANGED <<tables, reader, page, listed, metrics, sent>>

\* Mutant of Heartbeat: the task is given up for a new one, with what it has got.
HeartbeatAnew ==
  /\ Open /\ feed.at = "wait"
  /\ feed' = [feed EXCEPT !.at = "comment", !.task = "none", !.payload = Nothing]
  /\ UNCHANGED <<tables, reader, page, listed, metrics, sent>>

\* Nothing for 15 seconds: ": keep-alive", and the task stays pending.
Heartbeat ==
  /\ Open /\ feed.at = "wait" /\ feed.task = "running"
  /\ feed' = [feed EXCEPT !.at = "comment"]
  /\ UNCHANGED <<tables, reader, page, listed, metrics, sent>>

\* The comment, or the data, is written, and the loop goes on.
Resume ==
  /\ Open /\ feed.at \in {"comment", "data"}
  /\ feed' = [feed EXCEPT !.at = IF feed.task = "none" THEN "loop" ELSE "wait"]
  /\ UNCHANGED <<tables, reader, page, listed, metrics, sent>>

Yield ==
  /\ Open /\ feed.at = "wait" /\ feed.task = "done"
  /\ feed' = [feed EXCEPT !.at = "data", !.task = "none", !.payload = Nothing,
                          !.told = Append(@, feed.payload)]
  /\ UNCHANGED <<tables, reader, page, listed, metrics, sent>>

\* The client goes away: the task is cancelled, the connection closed.
Disconnect ==
  /\ Open
  /\ reader' = [reader EXCEPT !.phase = "done"]
  /\ UNCHANGED <<tables, page, listed, metrics, feed, sent>>

-----------------------------------------------------------------------------
\* The request has authenticated (or is the restore drill: RestoreDrill), and finds
\* deliveries that are accepted or dead; the other states are writes away.
Init ==
  /\ state \in [Rows -> {"none", "active", "pending", "dead"}]
  /\ \A d \in Deliveries :
       /\ state[d] # "active"
       /\ state[d] # "none" => state[EndpointOf[d]] = "active"
  /\ \A e \in Endpoints : state[e] \in {"none", "active"}
  /\ \A r \in Resident : state[r] # "none"
  /\ count = [d \in Deliveries |-> IF state[d] = "dead" THEN MaxAttempts ELSE 0]
  /\ attempts = {[delivery |-> d, id |-> i, ok |-> FALSE] :
                   d \in {d \in Deliveries : state[d] = "dead"}, i \in 1..MaxAttempts}
  /\ outgoing = {}
  /\ writes = 0
  /\ during = [r \in Rows |-> {state[r]}]
  /\ \E kind \in Kinds \cup {"metrics", "feed", "drill"} :
       reader = [kind |-> kind, phase |-> "query", cursor |-> Nothing, more |-> FALSE]
  /\ page = {} /\ listed = << >>
  /\ metrics = [queue_depth |-> 0, in_flight |-> 0, sample_size |-> 0, successes |-> 0]
  /\ feed = [at |-> "loop", task |-> "none", payload |-> Nothing, buffer |-> << >>, told |-> << >>]
  /\ sent = << >>

Writers ==
  \/ \E d \in Deliveries :
       Accept(d) \/ Defer(d) \/ Replay(d) \/ \E ok \in BOOLEAN : Attempt(d, ok)
  \/ \E e \in Endpoints : Register(e) \/ Delete(e)
Walk == Query \/ Detail
Snapshot == CountQueue \/ CountInFlight \/ Sample
Stream == Subscribe \/ Receive \/ Wait \/ Heartbeat \/ Resume \/ Yield \/ Disconnect

Next == Writers \/ Publish \/ Walk \/ Snapshot \/ Stream

Spec == Init /\ [][Next]_vars

-----------------------------------------------------------------------------
(* Properties. *)

TypeOK ==
  /\ state \in [Rows -> RowState]
  /\ attempts \subseteq AttemptRow
  /\ \A a \in attempts : state[a.delivery] \in Stored
  /\ \A d \in Deliveries :
       /\ count[d] \in 0..MaxAttempts
       /\ state[d] \in Stored => state[EndpointOf[d]] = "active"
  /\ Cardinality(page) <= PageLimit
  /\ reader.phase = "detail" <=> page # {}
  /\ feed.task \in {"none", "running", "done"}
  /\ feed.task = "done" <=> feed.payload # Nothing

Finished(kinds) == reader.kind \in kinds /\ reader.phase = "done"

\* A walk to the last page gives every row of the tenant that was in the listing
\* all the time, no row twice or out of order, no row that was never in it, and
\* none of another tenant, whatever is accepted, replayed, killed again or deleted
\* between its pages.  And a dead delivery comes with the whole history that made
\* it dead ("each with its full attempt history attached"), although that is read
\* later, unless the delivery is gone by then.
WalkComplete ==
  LET rows == {listed[i].row : i \in DOMAIN listed}
      in   == IF reader.kind = "dlq" THEN {"dead"} ELSE {"active"}
  IN
  /\ \A i, j \in DOMAIN listed : i < j => Before(listed[i].row, listed[j].row)
  /\ rows \subseteq AtSomeTime(in)
  /\ Finished(Kinds) => Throughout(in) \subseteq rows
  /\ \A i \in DOMAIN listed :
       listed[i].row \in Deliveries =>
         listed[i].shown >= MaxAttempts \/ state[listed[i].row] = "gone"

\* The three numbers are of three moments, so they need not fit together; but each
\* of them counts what was there all the time, and nothing that never was, and the
\* success rate is of attempts of the tenant, at most as many as asked for.
MetricsBracketed ==
  Finished({"metrics"}) =>
    /\ metrics.queue_depth \in Cardinality(Throughout(Queued))..Cardinality(AtSomeTime(Queued))
    /\ metrics.in_flight \in
         Cardinality(Throughout({"retrying"}))..Cardinality(AtSomeTime({"retrying"}))
    /\ metrics.successes <= metrics.sample_size /\ metrics.sample_size <= SampleSize

\* The client of the feed is told exactly what was published to its tenant's channel
\* since it subscribed, in that order, up to what is still on its way to it, however
\* heartbeats and messages fall together; and no attempt that is not on record
\* ("a subscriber only ever learns about an outcome that's already durably
\* recorded"), unless they were deleted since.
FeedFaithful ==
  /\ feed.told \o (IF feed.task = "done" THEN <<feed.payload>> ELSE << >>) \o feed.buffer = sent
  /\ \A i \in DOMAIN feed.told :
       LET d == feed.told[i][1] IN
         /\ Own(d)
         /\ OnRecord(d, feed.told[i][2]) \/ state[d] = "gone"
=============================================================================
