----------------------------- MODULE ReadsProofs -----------------------------
(***************************************************************************)
(* Proofs about ConsoleReads and RestoreDrill, for any rows, any order of  *)
(* them, any limits and any number of writes while a reader is at work.    *)
(*                                                                         *)
(* A reader holds what it has read while the tables go on, so the          *)
(* invariant says of everything in its hands what no later write can       *)
(* undo: a row was in the listing at some time, a dead delivery has its    *)
(* history or is gone, a count lies between those that were there          *)
(* throughout and those that were there at some time.  Evolves is what     *)
(* every write guarantees, and each reader's part is kept by any step that *)
(* guarantees it.                                                          *)
(***************************************************************************)
EXTENDS RestoreDrill, FiniteSetTheorems, SequenceTheorems, TLAPS

-----------------------------------------------------------------------------
(* The inductive invariant. *)

Msg == Deliveries \X Nat

PhasesOf(kind) ==
  CASE kind \in Kinds     -> {"query", "detail", "done"}
    [] kind = "metrics"   -> {"query", "in_flight", "sample", "done"}
    [] kind = "feed"      -> {"query", "open", "done"}
    [] kind = "drill"     -> {"query", "restore", "count", "done"}

\* The tables: deliveries are never "active", endpoints are nothing else.
TablesTyped ==
  /\ state \in [Rows -> RowState]
  /\ \A d \in Deliveries : state[d] # "active"
  /\ \A e \in Endpoints : state[e] \in {"none", "active", "gone"}
  /\ count \in [Deliveries -> 0..MaxAttempts]
  /\ attempts \subseteq AttemptRow /\ IsFiniteSet(attempts)
  /\ outgoing \subseteq Msg
  /\ during \in [Rows -> SUBSET RowState]

ReaderTyped ==
  /\ reader \in [kind : Kinds \cup {"metrics", "feed", "drill"},
                 phase : {"query", "detail", "in_flight", "sample", "open", "restore", "count", "done"},
                 cursor : Rows \cup {Nothing}, more : BOOLEAN]
  /\ reader.phase \in PhasesOf(reader.kind)

\* Attempts are of deliveries, and deliveries of endpoints, that are there.
Rooted ==
  /\ \A a \in attempts : state[a.delivery] \in Stored
  /\ \A d \in Deliveries : state[d] \in Stored => state[EndpointOf[d]] = "active"

\* The next attempt of a delivery has a number that is not taken.
Numbered == \A a \in attempts : a.id \in 1..Cardinality(History(a.delivery))

\* The attempts of the present budget are on record, and a dead delivery has used
\* a whole one.
Budgeted ==
  \A d \in Deliveries :
    /\ state[d] \in Queued \cup {"none"} => count[d] < MaxAttempts
    /\ state[d] # "gone" => count[d] <= Cardinality(History(d))
    /\ state[d] = "dead" => Cardinality(History(d)) >= MaxAttempts

Tracked == reader.kind \notin {"feed", "drill"} => \A r \in Rows : state[r] \in during[r]

\* What a walk looks for, and what the client has been given.
Sought == IF reader.kind = "dlq" THEN {"dead"} ELSE {"active"}
ListedRows == {listed[i].row : i \in DOMAIN listed}

\* The whole history that made a delivery dead, or the delivery is gone.
Whole(r, shown) == r \in Deliveries => shown >= MaxAttempts \/ state[r] = "gone"

\* The page at hand: it goes on where the last one ended.
Paged ==
  /\ page \subseteq Rows /\ IsFiniteSet(page) /\ Cardinality(page) <= PageLimit
  /\ reader.phase = "detail" <=> page # {}
  /\ \A r \in page : After(r, reader.cursor)
  /\ \A r \in page : Whole(r, Cardinality(History(r)))
  /\ page \subseteq AtSomeTime(Sought)

\* What has been given, in order, up to the cursor.
Given ==
  /\ listed \in Seq([row : Rows, shown : Nat])
  /\ reader.cursor = IF listed = << >> THEN Nothing ELSE listed[Len(listed)].row
  /\ \A i, j \in DOMAIN listed : i < j => Before(listed[i].row, listed[j].row)
  /\ \A i \in DOMAIN listed : Whole(listed[i].row, listed[i].shown)
  /\ ListedRows \subseteq AtSomeTime(Sought)

\* A row that was in the listing all the time has been given, or is on the page, or
\* comes on a later one.
ToCome(r) ==
  CASE reader.phase = "query"  -> After(r, reader.cursor)
    [] reader.phase = "detail" -> r \in page \/ (reader.more /\ \A s \in page : Before(s, r))
    [] OTHER                   -> FALSE
Covered ==
  reader.kind \in Kinds => \A r \in Throughout(Sought) : r \in ListedRows \/ ToCome(r)

\* A count is right from the statement that makes it on.
Bracketed(n, S) ==
  n \in Nat /\ Cardinality(Throughout(S)) <= n /\ n <= Cardinality(AtSomeTime(S))
Measured ==
  /\ metrics \in [queue_depth : Nat, in_flight : Nat, sample_size : Nat, successes : Nat]
  /\ reader.kind = "metrics" =>
    /\ reader.phase \in {"in_flight", "sample", "done"} => Bracketed(metrics.queue_depth, Queued)
    /\ reader.phase \in {"sample", "done"} => Bracketed(metrics.in_flight, {"retrying"})
    /\ reader.phase = "done" =>
         metrics.successes <= metrics.sample_size /\ metrics.sample_size <= SampleSize

\* What is published is on record, and what was published is with the client, in
\* the hands of the task or in the buffer.
Vouched(m) == OnRecord(m[1], m[2]) \/ state[m[1]] = "gone"
InHand == IF feed.task = "done" THEN <<feed.payload>> ELSE << >>
FeedTyped ==
  /\ feed \in [at : {"loop", "wait", "comment", "data"}, task : {"none", "running", "done"},
               payload : Msg \cup {Nothing}, buffer : Seq(Msg), told : Seq(Msg)]
  /\ feed.task = "done" <=> feed.payload # Nothing
  /\ sent \in Seq(Msg)
Streamed ==
  /\ feed.told \o InHand \o feed.buffer = sent
  /\ \A i \in DOMAIN sent : Own(sent[i][1]) /\ Vouched(sent[i])
  /\ \A m \in outgoing : Vouched(m)

\* The dump: its rows are still there, unless they were deleted, and so are the
\* attempts of those that are.
Gone == {r \in drill.rows : state[r] = "gone"}
DumpedAttempts == {a \in attempts : a.delivery \in drill.rows}
Dumped ==
  Drilling("restore") \/ Drilling("count") \/ Drilling("done") =>
    /\ \A r \in drill.rows : state[r] \in Stored \cup {"gone"}
    /\ drill.dumped["endpoints"] = Cardinality(drill.rows \cap Endpoints)
    /\ drill.dumped["deliveries"] = Cardinality(drill.rows \cap Deliveries)
    /\ Gone = {} => drill.dumped["delivery_attempts"] <= Cardinality(DumpedAttempts)

\* The restore, and the tables counted so far.
Compared ==
  /\ Drilling("query") \/ Drilling("restore") => drill.counted = 0
  /\ Drilling("count") \/ Drilling("done") =>
    /\ \A t \in Tables : drill.restored[t] = IF t \in drill.left THEN 0 ELSE drill.dumped[t]
    /\ \A i \in 1..drill.counted :
         LET t == VERIFY_TABLES[i] IN
           (IF t = "endpoints" THEN Gone \cap Endpoints = {} ELSE Gone = {}) =>
             drill.dumped[t] <= drill.live[t]
    /\ Drilling("done") =>
         drill.counted = 3 /\ drill.problem = compare_to_live(drill.restored, drill.live)
DrillTyped ==
  drill \in [dumped : [Tables -> Nat], rows : SUBSET Rows, left : SUBSET Tables,
             restored : [Tables -> Nat], live : [Tables -> Nat], counted : 0..3,
             problem : [Tables -> {"lost", "nothing", NoProblem}]]

\* What the tables satisfy whoever reads them, and what each reader does.
TablesInv == TablesTyped /\ Rooted /\ Numbered /\ Budgeted /\ Tracked
WalkInv == Paged /\ Given /\ Covered
FeedInv == FeedTyped /\ Streamed
DrillInv == DrillTyped /\ Dumped /\ Compared

IInv == TablesInv /\ ReaderTyped /\ WalkInv /\ Measured /\ FeedInv /\ DrillInv

-----------------------------------------------------------------------------
(* Lemmas about the data. *)

LEMMA Constants ==
  /\ MaxAttempts \in Nat \ {0} /\ PageLimit \in Nat \ {0} /\ SampleSize \in Nat \ {0}
  /\ Deliveries \subseteq Rows /\ Endpoints \subseteq Rows
  /\ \A d \in Deliveries : d \notin Endpoints /\ EndpointOf[d] \in Endpoints
  /\ Nothing \notin Rows /\ Nothing \notin Msg
BY ReadsAssumption DEF Rows, Msg

LEMMA CardinalityGrows ==
  ASSUME NEW T, IsFiniteSet(T), NEW S \in SUBSET T
  PROVE  /\ IsFiniteSet(S) /\ Cardinality(S) \in Nat /\ Cardinality(T) \in Nat
         /\ Cardinality(S) <= Cardinality(T)
BY FS_Subset, FS_CardinalityType

LEMMA FiniteRows ==
  ASSUME NEW S \in SUBSET Rows
  PROVE  IsFiniteSet(S) /\ Cardinality(S) \in Nat
BY ReadsAssumption, CardinalityGrows

\* The order of the listings.
LEMMA BeforeIsTransitive ==
  ASSUME NEW r \in Rows, NEW s \in Rows, NEW t \in Rows, Before(r, s), Before(s, t)
  PROVE  Before(r, t)
<1>1. /\ KeyOf[r] \in Nat \X Nat /\ KeyOf[s] \in Nat \X Nat /\ KeyOf[t] \in Nat \X Nat
  BY ReadsAssumption
<1> QED BY <1>1 DEF Before

LEMMA FiniteHistory ==
  ASSUME IsFiniteSet(attempts), NEW d
  PROVE  IsFiniteSet(History(d)) /\ Cardinality(History(d)) \in Nat
<1>1. History(d) \in SUBSET attempts
  BY DEF History
<1> QED BY <1>1, CardinalityGrows

-----------------------------------------------------------------------------
(* The tables at the start. *)

LEMMA InitAttempts ==
  ASSUME Init
  PROVE  /\ attempts \subseteq AttemptRow /\ IsFiniteSet(attempts)
         /\ \A d \in Deliveries : state[d] = "dead" => Cardinality(History(d)) = MaxAttempts
<1> DEFINE dead == {d \in Deliveries : state[d] = "dead"}
           row(d, i) == [delivery |-> d, id |-> i, ok |-> FALSE]
<1>0. MaxAttempts \in Nat
  BY Constants
<1>1. attempts = {row(d, i) : d \in dead, i \in 1..MaxAttempts}
  BY DEF Init
<1>2. attempts \subseteq AttemptRow
  <2>1. \A d \in dead, i \in 1..MaxAttempts : row(d, i) \in AttemptRow
    BY <1>0 DEF AttemptRow
  <2> HIDE DEF row
  <2> QED BY <2>1, <1>1
<1>3. IsFiniteSet(attempts)
  <2>1. dead \in SUBSET Rows
    BY Constants
  <2>2. IsFiniteSet(dead) /\ IsFiniteSet(1..MaxAttempts)
    BY <2>1, <1>0, FiniteRows, FS_Interval
  <2>3. IsFiniteSet(dead \X (1..MaxAttempts))
    BY <2>2, FS_Product
  <2> DEFINE f == [p \in dead \X (1..MaxAttempts) |-> row(p[1], p[2])]
  <2>4. \A a \in attempts : \E p \in dead \X (1..MaxAttempts) : f[p] = a
    <3> SUFFICES ASSUME NEW a \in attempts
                 PROVE  \E p \in dead \X (1..MaxAttempts) : f[p] = a
      OBVIOUS
    <3>1. PICK d \in dead, i \in 1..MaxAttempts : a = row(d, i)
      BY <1>1
    <3>2. <<d, i>> \in dead \X (1..MaxAttempts) /\ f[<<d, i>>] = a
      BY <3>1
    <3> QED BY <3>2
  <2>5. f \in [dead \X (1..MaxAttempts) -> attempts]
    <3> HIDE DEF row
    <3> QED BY <1>1
  <2>6. f \in Surjection(dead \X (1..MaxAttempts), attempts)
    BY <2>4, <2>5 DEF Surjection
  <2> HIDE DEF f, dead
  <2> QED BY <2>3, <2>6, FS_Surjection
<1>4. ASSUME NEW d \in Deliveries, state[d] = "dead"
      PROVE  Cardinality(History(d)) = MaxAttempts
  <2> DEFINE g == [i \in 1..MaxAttempts |-> row(d, i)]
  <2>1. History(d) = {row(d, i) : i \in 1..MaxAttempts}
    BY <1>1, <1>4 DEF History
  <2>2. g \in Bijection(1..MaxAttempts, History(d))
    <3>1. g \in [1..MaxAttempts -> History(d)]
      BY <2>1
    <3>2. \A a \in History(d) : \E i \in 1..MaxAttempts : g[i] = a
      BY <2>1
    <3>3. \A i, j \in 1..MaxAttempts : g[i] = g[j] => i = j
      OBVIOUS
    <3> HIDE DEF g
    <3> QED BY <3>1, <3>2, <3>3 DEF Bijection, Injection, Surjection, IsInjective
  <2>3. ExistsBijection(1..MaxAttempts, History(d))
    BY <2>2 DEF ExistsBijection
  <2> QED BY <2>3, <1>0, FS_CountingElements
<1> QED BY <1>2, <1>3, <1>4

LEMMA InitTables == Init => TablesInv
<1> SUFFICES ASSUME Init
             PROVE  TablesInv
  OBVIOUS
<1>1. /\ attempts \subseteq AttemptRow /\ IsFiniteSet(attempts)
      /\ \A d \in Deliveries : state[d] = "dead" => Cardinality(History(d)) = MaxAttempts
  BY InitAttempts
<1>2. \A d \in Deliveries : Cardinality(History(d)) \in Nat
  BY <1>1, FiniteHistory
<1>3. TablesTyped
  BY <1>1, Constants DEF Init, TablesTyped, RowState, Stored, Queued
<1>4. \A a \in attempts : a.delivery \in Deliveries /\ state[a.delivery] = "dead" /\ a.id \in 1..MaxAttempts
  BY DEF Init
<1>5. Rooted
  BY <1>4, Constants DEF Init, Rooted, Stored, Queued
<1>6. Numbered
  BY <1>4, <1>1 DEF Numbered
<1>7. Budgeted
  BY <1>1, <1>2, Constants DEF Init, Budgeted, Queued
<1>8. Tracked
  BY DEF Init, Tracked
<1> QED BY <1>3, <1>5, <1>6, <1>7, <1>8 DEF TablesInv

-----------------------------------------------------------------------------
(* The writers. *)

\* What every write leaves as it is, for whoever is reading: what is gone stays
\* gone, what is there stays there or is gone, with its attempts, and what is to be
\* published is on record.
Evolves ==
  /\ UNCHANGED <<reader, page, listed, metrics>>
  /\ \A r \in Rows : state[r] = "gone" => state'[r] = "gone"
  /\ \A r \in Rows : state[r] \in Stored => state'[r] \in Stored \cup {"gone"}
  /\ \A a \in attempts : a \in attempts' \/ state'[a.delivery] = "gone"
  /\ \A r \in Rows : during[r] \subseteq during'[r]
  /\ \A m \in outgoing' : m \in outgoing \/ m[2] = 0
                            \/ \E a \in attempts' : a.delivery = m[1] /\ a.id = m[2]

\* The part that all writes share.
LEMMA WriteFacts ==
  ASSUME TablesTyped, Tracked, NEW new \in [Rows -> RowState], Write(new)
  PROVE  /\ UNCHANGED <<reader, page, listed, metrics, feed, sent>>
         /\ state' = new
         /\ during' \in [Rows -> SUBSET RowState]
         /\ \A r \in Rows : during[r] \subseteq during'[r]
         /\ Tracked'
<1>1. /\ UNCHANGED <<reader, page, listed, metrics, feed, sent>>
      /\ state' = new
  BY DEF Write
<1>2. CASE reader.kind \in {"feed", "drill"}
  BY <1>1, <1>2 DEF Write, Tracked, TablesTyped
<1>3. CASE reader.kind \notin {"feed", "drill"}
  <2>1. during' = [r \in Rows |-> during[r] \cup {new[r]}]
    BY <1>3 DEF Write
  <2>2. during' \in [Rows -> SUBSET RowState] /\ \A r \in Rows : during[r] \subseteq during'[r]
    BY <2>1 DEF TablesTyped
  <2>3. \A r \in Rows : state'[r] \in during'[r]
    BY <1>1, <2>1
  <2> QED BY <1>1, <2>2, <2>3 DEF Tracked
<1> QED BY <1>2, <1>3

LEMMA OutcomeType ==
  ASSUME TablesTyped, NEW d \in Deliveries, NEW n \in Nat, Outcome(d, n)
  PROVE  outgoing' \subseteq Msg /\ \A m \in outgoing' : m \in outgoing \/ (m[1] = d /\ m[2] = n)
BY DEF TablesTyped, Outcome, Msg

\* A write that leaves the attempts and their count alone, and makes nothing dead.
LEMMA QuietWrite ==
  ASSUME TablesInv, NEW d \in Rows, NEW s \in RowState, Write([state EXCEPT ![d] = s]),
         UNCHANGED <<attempts, count>>,
         outgoing' \subseteq Msg, \A m \in outgoing' : m \in outgoing \/ m[2] = 0,
         d \in Deliveries => /\ s \in Queued /\ state[d] \in Queued \cup {"none"}
                             /\ state[d] = "none" => state[EndpointOf[d]] = "active",
         d \in Endpoints => s = "active" /\ state[d] = "none"
  PROVE  TablesInv' /\ Evolves
<1> DEFINE new == [state EXCEPT ![d] = s]
<1>0. TablesTyped /\ Tracked /\ Rooted
  BY DEF TablesInv
<1>1. new \in [Rows -> RowState]
  BY <1>0 DEF TablesTyped
<1>2. /\ UNCHANGED <<reader, page, listed, metrics, feed, sent>>
      /\ state' = new
      /\ during' \in [Rows -> SUBSET RowState]
      /\ \A r \in Rows : during[r] \subseteq during'[r]
      /\ Tracked'
  BY <1>0, <1>1, WriteFacts
<1>3. /\ state' \in [Rows -> RowState] /\ state'[d] = s
      /\ \A r \in Rows : r # d => state'[r] = state[r]
  BY <1>0, <1>1, <1>2 DEF TablesTyped
<1> HIDE DEF new
<1>4. TablesTyped'
  BY <1>0, <1>2, <1>3, Constants DEF TablesTyped, Queued
<1>5. Rooted'
  BY <1>0, <1>3, Constants DEF Rooted, TablesTyped, AttemptRow, Stored, Queued
<1>6. \A x : History(x)' = History(x)
  BY DEF History
<1>7. Numbered'
  BY <1>6 DEF TablesInv, Numbered
<1>8. Budgeted'
  <2> SUFFICES ASSUME NEW x \in Deliveries
               PROVE  /\ state'[x] \in Queued \cup {"none"} => count'[x] < MaxAttempts
                      /\ state'[x] # "gone" => count'[x] <= Cardinality(History(x))
                      /\ state'[x] = "dead" => Cardinality(History(x)) >= MaxAttempts
    BY <1>6 DEF Budgeted
  <2>1. /\ state[x] \in Queued \cup {"none"} => count[x] < MaxAttempts
        /\ state[x] # "gone" => count[x] <= Cardinality(History(x))
        /\ state[x] = "dead" => Cardinality(History(x)) >= MaxAttempts
    BY DEF TablesInv, Budgeted
  <2>2. CASE x = d
    BY <2>1, <2>2, <1>3 DEF Queued
  <2>3. CASE x # d
    BY <2>1, <2>3, <1>3, Constants
  <2> QED BY <2>2, <2>3
<1>9. Evolves
  BY <1>0, <1>2, <1>3, Constants DEF Evolves, TablesTyped, Stored, Queued, Rows
<1> QED BY <1>2, <1>4, <1>5, <1>7, <1>8, <1>9 DEF TablesInv

LEMMA AttemptTables ==
  ASSUME TablesInv, NEW d \in Deliveries, NEW ok \in BOOLEAN, Attempt(d, ok)
  PROVE  TablesInv' /\ Evolves
<1> DEFINE h == Cardinality(History(d))
           a0 == [delivery |-> d, id |-> h + 1, ok |-> ok]
           s == IF ok THEN "delivered"
                ELSE IF count[d] + 1 < MaxAttempts THEN "retrying" ELSE "dead"
           new == [state EXCEPT ![d] = s]
<1>0. TablesTyped /\ Tracked /\ Rooted /\ Numbered /\ Budgeted
  BY DEF TablesInv
<1>1. /\ state[d] \in Queued /\ attempts' = attempts \cup {a0}
      /\ count' = [count EXCEPT ![d] = @ + 1]
      /\ Outcome(d, h + 1) /\ Write(new)
  BY DEF Attempt
<1>2. h \in Nat /\ IsFiniteSet(History(d)) /\ d \in Rows
  BY <1>0, FiniteHistory, Constants DEF TablesTyped
<1>3. /\ a0 \in AttemptRow /\ a0.delivery = d /\ a0.id = h + 1
  BY <1>2 DEF AttemptRow
<1>4. s \in RowState /\ new \in [Rows -> RowState]
  BY <1>0 DEF TablesTyped, RowState, Stored, Queued
<1>5. /\ UNCHANGED <<reader, page, listed, metrics, feed, sent>>
      /\ state' = new
      /\ during' \in [Rows -> SUBSET RowState]
      /\ \A r \in Rows : during[r] \subseteq during'[r]
      /\ Tracked'
  BY <1>0, <1>1, <1>4, WriteFacts
<1>6. /\ state' \in [Rows -> RowState] /\ state'[d] = s
      /\ \A r \in Rows : r # d => state'[r] = state[r]
  BY <1>0, <1>2, <1>4, <1>5 DEF TablesTyped
<1>7. outgoing' \subseteq Msg /\ \A m \in outgoing' : m \in outgoing \/ (m[1] = d /\ m[2] = h + 1)
  BY <1>0, <1>1, <1>2, OutcomeType
<1>8. /\ count[d] < MaxAttempts /\ count[d] <= h /\ count[d] \in Nat
      /\ count'[d] = count[d] + 1 /\ \A x \in Deliveries : x # d => count'[x] = count[x]
      /\ count' \in [Deliveries -> 0..MaxAttempts]
  <2>1. count[d] < MaxAttempts /\ count[d] <= h /\ count[d] \in 0..MaxAttempts
    BY <1>0, <1>1 DEF Budgeted, Queued, TablesTyped
  <2> QED BY <2>1, <1>0, <1>1, Constants DEF TablesTyped
<1>9. s \in {"delivered", "retrying", "dead"}
  OBVIOUS
<1>10. /\ s = "retrying" => count[d] + 1 < MaxAttempts
       /\ s = "dead" => count[d] + 1 >= MaxAttempts
  BY <1>8, Constants
<1> HIDE DEF a0, s, new
<1>11. History(d)' = History(d) \cup {a0} /\ a0 \notin History(d)
  <2>1. History(d)' = History(d) \cup {a0}
    BY <1>1, <1>3 DEF History
  <2>2. \A a \in History(d) : a.id \in 1..h
    BY <1>0 DEF Numbered, History
  <2> QED BY <2>1, <2>2, <1>2, <1>3
<1>12. Cardinality(History(d)') = h + 1
  BY <1>2, <1>11, FS_AddElement
<1>13. \A x \in Deliveries : x # d => History(x)' = History(x)
  BY <1>1, <1>3 DEF History
<1> HIDE DEF h
<1>14. attempts' \subseteq AttemptRow /\ IsFiniteSet(attempts')
  BY <1>0, <1>1, <1>3, FS_AddElement DEF TablesTyped
<1>15. TablesTyped'
  BY <1>0, <1>5, <1>6, <1>7, <1>8, <1>9, <1>14, Constants DEF TablesTyped
<1>16. Rooted'
  <2>1. \A a \in attempts' : state'[a.delivery] \in Stored
    <3>1. state'[d] \in Stored
      BY <1>6, <1>9 DEF Stored, Queued
    <3>2. \A a \in attempts : a.delivery \in Rows /\ state[a.delivery] \in Stored
      BY <1>0, Constants DEF Rooted, TablesTyped, AttemptRow
    <3> QED BY <3>1, <3>2, <1>1, <1>3, <1>6
  <2>2. \A x \in Deliveries : state'[x] \in Stored => state'[EndpointOf[x]] = "active"
    BY <1>0, <1>1, <1>6, Constants DEF Rooted, Stored
  <2> QED BY <2>1, <2>2 DEF Rooted
<1>17. Numbered'
  <2> SUFFICES ASSUME NEW a \in attempts'
               PROVE  a.id \in 1..Cardinality(History(a.delivery)')
    BY DEF Numbered
  <2>1. CASE a = a0
    BY <2>1, <1>2, <1>3, <1>12
  <2>2. CASE a # a0 /\ a.delivery = d
    <3>1. a \in attempts /\ a.id \in 1..h
      BY <2>2, <1>0, <1>1 DEF Numbered, h
    <3> QED BY <3>1, <2>2, <1>2, <1>12
  <2>3. CASE a # a0 /\ a.delivery # d
    <3>1. a \in attempts /\ a.delivery \in Deliveries
      BY <2>3, <1>0, <1>1 DEF TablesTyped, AttemptRow
    <3>2. a.id \in 1..Cardinality(History(a.delivery))
      BY <3>1, <1>0 DEF Numbered
    <3> QED BY <3>1, <3>2, <2>3, <1>13
  <2> QED BY <2>1, <2>2, <2>3
<1>18. Budgeted'
  <2> SUFFICES ASSUME NEW x \in Deliveries
               PROVE  /\ state'[x] \in Queued \cup {"none"} => count'[x] < MaxAttempts
                      /\ state'[x] # "gone" => count'[x] <= Cardinality(History(x)')
                      /\ state'[x] = "dead" => Cardinality(History(x)') >= MaxAttempts
    BY DEF Budgeted
  <2>1. CASE x = d
    BY <2>1, <1>2, <1>6, <1>8, <1>9, <1>10, <1>12, Constants DEF Queued
  <2>2. CASE x # d
    BY <2>2, <1>0, <1>6, <1>8, <1>13, Constants DEF Budgeted
  <2> QED BY <2>1, <2>2
<1>19. Evolves
  <2>1. \A r \in Rows : /\ state[r] = "gone" => state'[r] = "gone"
                        /\ state[r] \in Stored => state'[r] \in Stored \cup {"gone"}
    BY <1>1, <1>6, <1>9 DEF Stored, Queued
  <2>2. \A a \in attempts : a \in attempts'
    BY <1>1
  <2>3. \A m \in outgoing' : m \in outgoing \/ \E a \in attempts' : a.delivery = m[1] /\ a.id = m[2]
    BY <1>1, <1>3, <1>7
  <2> QED BY <2>1, <2>2, <2>3, <1>5 DEF Evolves
<1> QED BY <1>5, <1>15, <1>16, <1>17, <1>18, <1>19 DEF TablesInv

LEMMA ReplayTables ==
  ASSUME TablesInv, NEW d \in Deliveries, Replay(d)
  PROVE  TablesInv' /\ Evolves
<1> DEFINE new == [state EXCEPT ![d] = "pending"]
<1>0. TablesTyped /\ Tracked /\ Rooted /\ Numbered /\ Budgeted
  BY DEF TablesInv
<1>1. /\ state[d] = "dead" /\ count' = [count EXCEPT ![d] = 0]
      /\ Write(new) /\ UNCHANGED <<attempts, outgoing>>
  BY DEF Replay
<1>2. new \in [Rows -> RowState] /\ d \in Rows
  BY <1>0, Constants DEF TablesTyped, RowState, Stored, Queued
<1>3. /\ UNCHANGED <<reader, page, listed, metrics, feed, sent>>
      /\ state' = new
      /\ during' \in [Rows -> SUBSET RowState]
      /\ \A r \in Rows : during[r] \subseteq during'[r]
      /\ Tracked'
  BY <1>0, <1>1, <1>2, WriteFacts
<1>4. /\ state' \in [Rows -> RowState] /\ state'[d] = "pending"
      /\ \A r \in Rows : r # d => state'[r] = state[r]
  BY <1>0, <1>2, <1>3 DEF TablesTyped
<1>5. /\ count' \in [Deliveries -> 0..MaxAttempts] /\ count'[d] = 0
      /\ \A x \in Deliveries : x # d => count'[x] = count[x]
  BY <1>0, <1>1, Constants DEF TablesTyped
<1> HIDE DEF new
<1>6. TablesTyped'
  BY <1>0, <1>1, <1>3, <1>4, <1>5, Constants DEF TablesTyped
<1>7. Rooted'
  BY <1>0, <1>1, <1>4, Constants DEF Rooted, TablesTyped, AttemptRow, Stored, Queued
<1>8. \A x : History(x)' = History(x)
  BY <1>1 DEF History
<1>9. Numbered'
  BY <1>0, <1>1, <1>8 DEF Numbered
<1>10. Cardinality(History(d)) \in Nat
  BY <1>0, FiniteHistory DEF TablesTyped
<1>11. Budgeted'
  BY <1>0, <1>2, <1>4, <1>5, <1>8, <1>10, Constants DEF Budgeted, Queued
<1>12. Evolves
  BY <1>1, <1>3, <1>4 DEF Evolves, Stored, Queued
<1> QED BY <1>3, <1>6, <1>7, <1>9, <1>11, <1>12 DEF TablesInv

LEMMA DeleteTables ==
  ASSUME TablesInv, NEW e \in Endpoints, Delete(e)
  PROVE  TablesInv' /\ Evolves
<1> DEFINE gone == {e} \cup {d \in Deliveries : EndpointOf[d] = e /\ state[d] \in Stored}
           new == [r \in Rows |-> IF r \in gone THEN "gone" ELSE state[r]]
<1>0. TablesTyped /\ Tracked /\ Rooted /\ Numbered /\ Budgeted
  BY DEF TablesInv
<1>1. /\ state[e] = "active" /\ attempts' = {a \in attempts : a.delivery \notin gone}
      /\ Write(new) /\ UNCHANGED <<count, outgoing>>
  BY DEF Delete
<1>2. new \in [Rows -> RowState]
  BY <1>0 DEF TablesTyped, RowState
<1>3. /\ UNCHANGED <<reader, page, listed, metrics, feed, sent>>
      /\ state' = new
      /\ during' \in [Rows -> SUBSET RowState]
      /\ \A r \in Rows : during[r] \subseteq during'[r]
      /\ Tracked'
  BY <1>0, <1>1, <1>2, WriteFacts
<1>4. /\ state' \in [Rows -> RowState]
      /\ \A r \in Rows : state'[r] = IF r \in gone THEN "gone" ELSE state[r]
  BY <1>2, <1>3
<1>5. /\ e \in gone /\ \A x \in Endpoints : x \in gone => x = e
      /\ \A d \in Deliveries : d \in gone <=> EndpointOf[d] = e /\ state[d] \in Stored
  BY Constants
<1> HIDE DEF new, gone
<1>6. attempts' \subseteq AttemptRow /\ IsFiniteSet(attempts')
  BY <1>0, <1>1, FS_Subset DEF TablesTyped
<1>7. TablesTyped'
  BY <1>0, <1>1, <1>3, <1>4, <1>5, <1>6, Constants DEF TablesTyped
<1>8. Rooted'
  <2>1. \A a \in attempts' : state'[a.delivery] \in Stored
    BY <1>0, <1>1, <1>4, Constants DEF Rooted, TablesTyped, AttemptRow
  <2>2. \A d \in Deliveries : state'[d] \in Stored => state'[EndpointOf[d]] = "active"
    BY <1>0, <1>4, <1>5, Constants DEF Rooted, Stored, Queued
  <2> QED BY <2>1, <2>2 DEF Rooted
<1>9. \A d \in Deliveries : d \notin gone => History(d)' = History(d)
  BY <1>1 DEF History
<1>10. Numbered'
  BY <1>0, <1>1, <1>9 DEF Numbered, TablesTyped, AttemptRow
<1>11. Budgeted'
  <2> SUFFICES ASSUME NEW x \in Deliveries
               PROVE  /\ state'[x] \in Queued \cup {"none"} => count'[x] < MaxAttempts
                      /\ state'[x] # "gone" => count'[x] <= Cardinality(History(x)')
                      /\ state'[x] = "dead" => Cardinality(History(x)') >= MaxAttempts
    BY DEF Budgeted
  <2>1. CASE x \in gone
    BY <2>1, <1>4, Constants DEF Queued
  <2>2. CASE x \notin gone
    BY <2>2, <1>0, <1>1, <1>4, <1>9, Constants DEF Budgeted
  <2> QED BY <2>1, <2>2
<1>12. Evolves
  <2>1. \A r \in Rows : /\ state[r] = "gone" => state'[r] = "gone"
                        /\ state[r] \in Stored => state'[r] \in Stored \cup {"gone"}
    BY <1>4
  <2>2. \A a \in attempts : a \in attempts' \/ state'[a.delivery] = "gone"
    BY <1>0, <1>1, <1>4, Constants DEF TablesTyped, AttemptRow
  <2> QED BY <2>1, <2>2, <1>1, <1>3 DEF Evolves
<1> QED BY <1>3, <1>7, <1>8, <1>10, <1>11, <1>12 DEF TablesInv

LEMMA WritersTables ==
  ASSUME TablesInv, Writers
  PROVE  TablesInv' /\ Evolves
<1>0. TablesTyped
  BY DEF TablesInv
<1>1. ASSUME NEW d \in Deliveries, Accept(d)
      PROVE  TablesInv' /\ Evolves
  <2>1. /\ state[d] = "none" /\ state[EndpointOf[d]] = "active" /\ d \in Rows /\ d \notin Endpoints
        /\ Write([state EXCEPT ![d] = "pending"]) /\ UNCHANGED <<attempts, count, outgoing>>
    BY <1>1, Constants DEF Accept
  <2>2. outgoing' \subseteq Msg /\ \A m \in outgoing' : m \in outgoing \/ m[2] = 0
    BY <2>1, <1>0 DEF TablesTyped
  <2>3. "pending" \in RowState /\ "pending" \in Queued
    BY DEF RowState, Stored, Queued
  <2> QED BY <2>1, <2>2, <2>3, QuietWrite
<1>2. ASSUME NEW d \in Deliveries, Defer(d)
      PROVE  TablesInv' /\ Evolves
  <2>1. /\ state[d] \in Queued /\ d \in Rows /\ d \notin Endpoints
        /\ Write([state EXCEPT ![d] = "retrying"]) /\ UNCHANGED <<attempts, count>>
        /\ Outcome(d, 0)
    BY <1>2, Constants DEF Defer
  <2>2. outgoing' \subseteq Msg /\ \A m \in outgoing' : m \in outgoing \/ m[2] = 0
    BY <2>1, <1>0, OutcomeType
  <2>3. "retrying" \in RowState /\ "retrying" \in Queued /\ state[d] # "none"
    BY <2>1 DEF RowState, Stored, Queued
  <2> QED BY <2>1, <2>2, <2>3, QuietWrite
<1>3. ASSUME NEW e \in Endpoints, Register(e)
      PROVE  TablesInv' /\ Evolves
  <2>1. /\ state[e] = "none" /\ e \in Rows /\ e \notin Deliveries
        /\ Write([state EXCEPT ![e] = "active"]) /\ UNCHANGED <<attempts, count, outgoing>>
    BY <1>3, Constants DEF Register
  <2>2. outgoing' \subseteq Msg /\ \A m \in outgoing' : m \in outgoing \/ m[2] = 0
    BY <2>1, <1>0 DEF TablesTyped
  <2>3. "active" \in RowState
    BY DEF RowState, Stored
  <2> QED BY <2>1, <2>2, <2>3, QuietWrite
<1> QED BY <1>1, <1>2, <1>3, AttemptTables, ReplayTables, DeleteTables DEF Writers

\* The tables stay as they are, or what is to be published is published.
LEMMA ReadTables ==
  ASSUME TablesInv, UNCHANGED <<state, attempts, count, during>>, outgoing' \subseteq outgoing,
         reader'.kind = reader.kind
  PROVE  TablesInv'
<1>1. TablesTyped' /\ Rooted' /\ Tracked'
  BY DEF TablesInv, TablesTyped, Rooted, Tracked
<1>2. \A x : History(x)' = History(x)
  BY DEF History
<1>3. Numbered' /\ Budgeted'
  BY <1>2 DEF TablesInv, Numbered, Budgeted
<1> QED BY <1>1, <1>3 DEF TablesInv

-----------------------------------------------------------------------------
(* The listings. *)

LEMMA ListedType ==
  ASSUME Given
  PROVE  /\ Len(listed) \in Nat /\ DOMAIN listed = 1..Len(listed)
         /\ \A i \in DOMAIN listed : listed[i].row \in Rows /\ listed[i].shown \in Nat
<1>1. PICK S : S = [row : Rows, shown : Nat]
  OBVIOUS
<1>2. listed \in Seq(S)
  BY <1>1 DEF Given
<1>3. Len(listed) \in Nat /\ DOMAIN listed = 1..Len(listed) /\ listed \in [1..Len(listed) -> S]
  BY <1>2, LenProperties
<1> QED BY <1>1, <1>3

\* The states a row has been in only become more.
LEMMA DuringGrows ==
  ASSUME \A r \in Rows : during[r] \subseteq during'[r], NEW S
  PROVE  Throughout(S)' \subseteq Throughout(S) /\ AtSomeTime(S) \subseteq AtSomeTime(S)'
BY DEF Throughout, AtSomeTime, Own

\* A history that was whole stays so, or its delivery is gone.
LEMMA WholeStays ==
  ASSUME TablesInv, TablesInv', Evolves, NEW r \in Rows, NEW n \in Nat, Whole(r, n)
  PROVE  Whole(r, n)'
BY DEF Whole, Evolves

LEMMA HistoryStays ==
  ASSUME TablesInv, TablesInv', Evolves, NEW r \in Rows, Whole(r, Cardinality(History(r)))
  PROVE  Whole(r, Cardinality(History(r)))'
<1> SUFFICES ASSUME r \in Deliveries, state'[r] # "gone"
             PROVE  Cardinality(History(r)') >= MaxAttempts
  BY DEF Whole
<1>1. Cardinality(History(r)) >= MaxAttempts
  BY DEF Whole, Evolves
<1>2. History(r) \in SUBSET History(r)'
  BY DEF Evolves, History
<1>3. IsFiniteSet(attempts') /\ History(r)' \in SUBSET attempts'
  BY DEF TablesInv, TablesTyped, History
<1>4. IsFiniteSet(History(r)')
  BY <1>3, CardinalityGrows
<1> QED BY <1>1, <1>2, <1>4, CardinalityGrows, Constants

LEMMA WalkEvolves ==
  ASSUME TablesInv, TablesInv', Evolves, WalkInv
  PROVE  WalkInv'
<1>0. UNCHANGED <<reader, page, listed>> /\ Sought' = Sought /\ ListedRows' = ListedRows
  BY DEF Evolves, Sought, ListedRows
<1>1. \A S : Throughout(S)' \subseteq Throughout(S) /\ AtSomeTime(S) \subseteq AtSomeTime(S)'
  BY DuringGrows DEF Evolves
<1>2. Throughout(Sought)' \subseteq Throughout(Sought) /\ AtSomeTime(Sought) \subseteq AtSomeTime(Sought)'
  <2>1. PICK S : S = Sought
    OBVIOUS
  <2> QED BY <2>1, <1>0, <1>1
<1>3. Paged'
  <2>1. \A r \in page : Whole(r, Cardinality(History(r)))'
    BY HistoryStays DEF WalkInv, Paged
  <2>2. \A r \in page : After(r, reader.cursor)'
    BY <1>0 DEF WalkInv, Paged, After, Before
  <2> QED BY <1>0, <1>2, <2>1, <2>2 DEF WalkInv, Paged
<1>4. Given'
  <2>1. \A i \in DOMAIN listed : Whole(listed[i].row, listed[i].shown)'
    <3> SUFFICES ASSUME NEW i \in DOMAIN listed
                 PROVE  Whole(listed[i].row, listed[i].shown)'
      OBVIOUS
    <3>1. PICK r \in Rows, n \in Nat : r = listed[i].row /\ n = listed[i].shown /\ Whole(r, n)
      BY ListedType DEF WalkInv, Given
    <3>2. Whole(r, n)'
      BY <3>1, WholeStays
    <3> QED BY <3>1, <3>2, <1>0
  <2> QED BY <1>0, <1>2, <2>1 DEF WalkInv, Given, Before
<1>5. Covered'
  <2>1. \A r : ToCome(r) => ToCome(r)'
    BY <1>0 DEF ToCome, After, Before
  <2> QED BY <1>0, <1>2, <2>1 DEF WalkInv, Covered
<1> QED BY <1>3, <1>4, <1>5 DEF WalkInv

\* The steps of other readers.
LEMMA WalkFrame ==
  ASSUME WalkInv, ReaderTyped, UNCHANGED <<state, attempts, during, page, listed>>,
         reader.kind \notin Kinds, reader'.kind = reader.kind, reader'.cursor = reader.cursor,
         reader'.phase # "detail", reader.phase # "detail"
  PROVE  WalkInv'
<1>1. Sought' = Sought /\ ListedRows' = ListedRows
  BY DEF Sought, ListedRows
<1>2. \A S : AtSomeTime(S)' = AtSomeTime(S)
  BY DEF AtSomeTime, Own
<1>3. AtSomeTime(Sought)' = AtSomeTime(Sought)
  <2>1. PICK S : S = Sought
    OBVIOUS
  <2> QED BY <2>1, <1>1, <1>2
<1>4. \A r, n : Whole(r, n)' = Whole(r, n)
  BY DEF Whole
<1>5. \A r : Whole(r, Cardinality(History(r)))' = Whole(r, Cardinality(History(r)))
  BY DEF Whole, History
<1>6. Paged'
  BY <1>1, <1>3, <1>5 DEF WalkInv, Paged, After, Before
<1>7. Given'
  <2>1. \A i \in DOMAIN listed : Whole(listed[i].row, listed[i].shown)'
    BY <1>4 DEF WalkInv, Given, Whole
  <2> QED BY <1>1, <1>3, <2>1 DEF WalkInv, Given, Before
<1>8. Covered'
  BY DEF Covered
<1> QED BY <1>6, <1>7, <1>8 DEF WalkInv

LEMMA QueryFacts ==
  ASSUME NEW rows \in SUBSET Rows, NEW first \in SUBSET rows, IsPage(first, rows)
  PROVE  /\ IsFiniteSet(first) /\ Cardinality(first) <= PageLimit
         /\ first = {} <=> rows = {}
         /\ Cardinality(rows) > PageLimit \/ first = rows
         /\ \A s \in rows \ first, r \in first : Before(r, s)
<1>1. /\ IsFiniteSet(rows) /\ Cardinality(rows) \in Nat
      /\ IsFiniteSet(first) /\ Cardinality(first) \in Nat
  BY FiniteRows
<1>2. Cardinality(first) = AtMost(Cardinality(rows), PageLimit)
  BY DEF IsPage
<1>3. Cardinality(first) <= PageLimit
  BY <1>1, <1>2, Constants DEF AtMost
<1>4. Cardinality(first) = 0 <=> Cardinality(rows) = 0
  BY <1>1, <1>2, Constants DEF AtMost
<1>5. first = {} <=> rows = {}
  BY <1>1, <1>4, FS_EmptySet
<1>6. Cardinality(rows) > PageLimit \/ Cardinality(rows) = Cardinality(first)
  BY <1>1, <1>2, Constants DEF AtMost
<1>7. Cardinality(rows) > PageLimit \/ first = rows
  BY <1>1, <1>6, FS_Subset
<1> QED BY <1>1, <1>3, <1>5, <1>7 DEF IsPage

LEMMA QueryWalk ==
  ASSUME TablesInv, ReaderTyped, WalkInv, Query
  PROVE  WalkInv'
<1> DEFINE rows == {r \in Matching(reader.kind) : After(r, reader.cursor)}
<1>0. /\ reader.kind \in Kinds /\ reader.phase = "query"
      /\ reader'.phase = IF rows = {} THEN "done" ELSE "detail"
      /\ reader'.more = (Cardinality(rows) > PageLimit)
      /\ reader'.kind = reader.kind /\ reader'.cursor = reader.cursor
      /\ UNCHANGED <<state, attempts, during, listed>>
  BY DEF Query, tables, ReaderTyped
<1>1. PICK first \in SUBSET rows : IsPage(first, rows) /\ page' = first
  BY DEF Query
<1>2. rows \in SUBSET Rows
  BY DEF Matching
<1>3. /\ IsFiniteSet(first) /\ Cardinality(first) <= PageLimit
      /\ first = {} <=> rows = {}
      /\ Cardinality(rows) > PageLimit \/ first = rows
      /\ \A s \in rows \ first, r \in first : Before(r, s)
  BY <1>1, <1>2, QueryFacts
<1>4. \A r \in rows : /\ r \in Rows /\ Own(r) /\ state[r] \in Sought /\ After(r, reader.cursor)
                      /\ r \in Deliveries => state[r] = "dead"
  BY <1>0, Constants DEF Matching, Sought, Kinds, TablesInv, TablesTyped
<1>5. \A r \in Throughout(Sought) : After(r, reader.cursor) => r \in rows
  <2>1. \A r \in Throughout(Sought) : r \in Rows /\ Own(r) /\ state[r] \in Sought
    BY <1>0 DEF Throughout, TablesInv, Tracked, Kinds
  <2> QED BY <2>1, <1>0 DEF Matching, Sought, Kinds
<1>6. Sought' = Sought /\ ListedRows' = ListedRows
  BY <1>0 DEF Sought, ListedRows
<1>7. \A S : AtSomeTime(S)' = AtSomeTime(S) /\ Throughout(S)' = Throughout(S)
  BY <1>0 DEF AtSomeTime, Throughout, Own
<1>8. AtSomeTime(Sought)' = AtSomeTime(Sought) /\ Throughout(Sought)' = Throughout(Sought)
  <2>1. PICK S : S = Sought
    OBVIOUS
  <2> QED BY <2>1, <1>6, <1>7
<1>9. rows \subseteq AtSomeTime(Sought)
  BY <1>0, <1>4 DEF AtSomeTime, TablesInv, Tracked, Kinds
<1> HIDE DEF rows
<1>10. Paged'
  <2>1. \A r \in first : After(r, reader.cursor)'
    BY <1>0, <1>4 DEF After, Before
  <2>2. \A r \in first : Whole(r, Cardinality(History(r)))'
    <3>1. \A r \in first : Whole(r, Cardinality(History(r)))
      BY <1>4 DEF Whole, TablesInv, Budgeted
    <3> QED BY <3>1, <1>0 DEF Whole, History
  <2> QED BY <2>1, <2>2, <1>0, <1>1, <1>2, <1>3, <1>6, <1>8, <1>9 DEF Paged
<1>11. Given'
  <2>1. \A i \in DOMAIN listed : Whole(listed[i].row, listed[i].shown)'
    BY <1>0 DEF WalkInv, Given, Whole
  <2> QED BY <2>1, <1>0, <1>6, <1>8 DEF WalkInv, Given, Before
<1>12. Covered'
  <2> SUFFICES ASSUME NEW r \in Throughout(Sought), r \notin ListedRows
               PROVE  ToCome(r)'
    BY <1>6, <1>8 DEF Covered
  <2>1. r \in rows
    BY <1>0, <1>5 DEF WalkInv, Covered, ToCome
  <2>2. reader'.phase = "detail"
    BY <2>1, <1>0
  <2>3. r \in page' \/ (reader'.more /\ \A s \in page' : Before(s, r))
    BY <2>1, <1>0, <1>1, <1>3
  <2> QED BY <2>2, <2>3 DEF ToCome, Before
<1> QED BY <1>10, <1>11, <1>12 DEF WalkInv

LEMMA DetailWalk ==
  ASSUME TablesInv, ReaderTyped, WalkInv, Detail
  PROVE  WalkInv'
<1>0. reader.kind \in Kinds /\ reader.phase = "detail" /\ UNCHANGED <<state, attempts, during>>
  BY DEF Detail, tables
<1>1. PICK r \in page :
        /\ \A s \in page \ {r} : Before(r, s)
        /\ listed' = Append(listed, [row |-> r, shown |-> Cardinality(History(r))])
        /\ page' = page \ {r}
        /\ reader' = [reader EXCEPT !.cursor = r,
                                    !.phase = IF page # {r} THEN "detail"
                                              ELSE IF reader.more THEN "query" ELSE "done"]
  BY DEF Detail
<1>2. /\ reader'.kind = reader.kind /\ reader'.cursor = r /\ reader'.more = reader.more
      /\ reader'.phase = IF page # {r} THEN "detail" ELSE IF reader.more THEN "query" ELSE "done"
  BY <1>1 DEF ReaderTyped
<1>3. /\ r \in Rows /\ page \subseteq Rows /\ IsFiniteSet(page) /\ Cardinality(page) <= PageLimit
      /\ After(r, reader.cursor) /\ Whole(r, Cardinality(History(r))) /\ r \in AtSomeTime(Sought)
  BY DEF WalkInv, Paged
<1>4. Cardinality(History(r)) \in Nat
  BY FiniteHistory DEF TablesInv, TablesTyped
<1>5. PICK item : item = [row |-> r, shown |-> Cardinality(History(r))]
  OBVIOUS
<1>6. item \in [row : Rows, shown : Nat] /\ item.row = r /\ item.shown = Cardinality(History(r))
  BY <1>3, <1>4, <1>5
<1>7. Given /\ listed \in Seq([row : Rows, shown : Nat])
  BY DEF WalkInv, Given
<1>8. /\ Len(listed) \in Nat /\ DOMAIN listed = 1..Len(listed)
      /\ \A i \in DOMAIN listed : listed[i].row \in Rows /\ listed[i].shown \in Nat
  BY <1>7, ListedType
<1>9. /\ listed' \in Seq([row : Rows, shown : Nat]) /\ listed' # << >>
      /\ Len(listed') = Len(listed) + 1 /\ DOMAIN listed' = 1..(Len(listed) + 1)
      /\ \A i \in 1..Len(listed) : listed'[i] = listed[i]
      /\ listed'[Len(listed) + 1] = item
  <2>1. listed' = Append(listed, item)
    BY <1>1, <1>5
  <2>2. /\ listed' \in Seq([row : Rows, shown : Nat]) /\ listed' # << >>
        /\ Len(listed') = Len(listed) + 1
        /\ \A i \in 1..Len(listed) : listed'[i] = listed[i]
        /\ listed'[Len(listed) + 1] = item
    BY <2>1, <1>6, <1>7, AppendProperties
  <2>3. DOMAIN listed' = 1..Len(listed')
    BY <2>2, LenProperties
  <2> QED BY <2>2, <2>3
<1>10. Sought' = Sought
  BY <1>2 DEF Sought
<1>11. \A S : AtSomeTime(S)' = AtSomeTime(S) /\ Throughout(S)' = Throughout(S)
  BY <1>0 DEF AtSomeTime, Throughout, Own
<1>12. AtSomeTime(Sought)' = AtSomeTime(Sought) /\ Throughout(Sought)' = Throughout(Sought)
  <2>1. PICK S : S = Sought
    OBVIOUS
  <2> QED BY <2>1, <1>10, <1>11
<1>13. ListedRows' = ListedRows \cup {r}
  <2>1. ListedRows = {listed[i].row : i \in 1..Len(listed)}
    BY <1>8 DEF ListedRows
  <2>2. ListedRows' = {listed'[i].row : i \in 1..(Len(listed) + 1)}
    BY <1>9 DEF ListedRows
  <2>3. ListedRows' \subseteq ListedRows \cup {r}
    <3> SUFFICES ASSUME NEW i \in 1..(Len(listed) + 1)
                 PROVE  listed'[i].row \in ListedRows \cup {r}
      BY <2>2
    <3>1. CASE i = Len(listed) + 1
      BY <3>1, <1>6, <1>9
    <3>2. CASE i # Len(listed) + 1
      <4>1. i \in 1..Len(listed)
        BY <3>2, <1>8
      <4> QED BY <4>1, <2>1, <1>9
    <3> QED BY <3>1, <3>2
  <2>4. r \in ListedRows'
    <3>1. Len(listed) + 1 \in 1..(Len(listed) + 1)
      BY <1>8
    <3> QED BY <3>1, <2>2, <1>6, <1>9
  <2>5. ListedRows \subseteq ListedRows'
    <3> SUFFICES ASSUME NEW i \in 1..Len(listed)
                 PROVE  listed[i].row \in ListedRows'
      BY <2>1
    <3>1. i \in 1..(Len(listed) + 1) /\ listed'[i].row = listed[i].row
      BY <1>8, <1>9
    <3> QED BY <3>1, <2>2
  <2> QED BY <2>3, <2>4, <2>5
<1>14. Paged'
  <2>1. page' \subseteq Rows /\ IsFiniteSet(page') /\ Cardinality(page') <= PageLimit
    <3>1. page' \in SUBSET page
      BY <1>1
    <3> QED BY <3>1, <1>3, CardinalityGrows, Constants
  <2>2. reader'.phase = "detail" <=> page' # {}
    BY <1>1, <1>2
  <2>3. \A s \in page' : After(s, reader.cursor)'
    BY <1>1, <1>2 DEF After, Before
  <2>4. \A s \in page' : Whole(s, Cardinality(History(s)))'
    BY <1>0, <1>1 DEF WalkInv, Paged, Whole, History
  <2>5. page' \subseteq AtSomeTime(Sought)'
    BY <1>1, <1>12 DEF WalkInv, Paged
  <2> QED BY <2>1, <2>2, <2>3, <2>4, <2>5, <1>10 DEF Paged
<1>15. \A i \in 1..Len(listed) : Before(listed[i].row, r)
  <2> SUFFICES ASSUME NEW i \in 1..Len(listed)
               PROVE  Before(listed[i].row, r)
    OBVIOUS
  <2>1. Len(listed) \in DOMAIN listed /\ listed # << >>
    BY <1>7, <1>8, EmptySeq
  <2>2. reader.cursor = listed[Len(listed)].row /\ reader.cursor \in Rows
    BY <2>1, <1>7, <1>8 DEF Given
  <2>3. Before(reader.cursor, r)
    BY <2>2, <1>3, Constants DEF After
  <2>4. CASE i = Len(listed)
    BY <2>2, <2>3, <2>4
  <2>5. CASE i # Len(listed)
    <3>1. i \in DOMAIN listed /\ i < Len(listed)
      <4>0. Len(listed) \in Nat
        BY <1>8
      <4>1. i < Len(listed)
        BY <2>5, <4>0
      <4> QED BY <4>1, <1>8
    <3>2. Before(listed[i].row, reader.cursor)
      BY <3>1, <2>1, <2>2, <1>7 DEF Given
    <3> QED BY <3>1, <3>2, <2>2, <2>3, <1>3, <1>8, BeforeIsTransitive
  <2> QED BY <2>4, <2>5
<1>16. Given'
  <2>1. reader'.cursor = IF listed' = << >> THEN Nothing ELSE listed'[Len(listed')].row
    BY <1>2, <1>6, <1>9
  <2>2. \A i, j \in 1..(Len(listed) + 1) : i < j => Before(listed'[i].row, listed'[j].row)
    <3> SUFFICES ASSUME NEW i \in 1..(Len(listed) + 1), NEW j \in 1..(Len(listed) + 1), i < j
                 PROVE  Before(listed'[i].row, listed'[j].row)
      OBVIOUS
    <3>1. i \in 1..Len(listed) /\ listed'[i] = listed[i]
      BY <1>8, <1>9
    <3>2. CASE j = Len(listed) + 1
      BY <3>1, <3>2, <1>6, <1>9, <1>15
    <3>3. CASE j # Len(listed) + 1
      <4>1. j \in 1..Len(listed) /\ listed'[j] = listed[j]
        BY <3>3, <1>8, <1>9
      <4> QED BY <4>1, <3>1, <1>7, <1>8 DEF Given
    <3> QED BY <3>2, <3>3
  <2>3. \A i \in 1..(Len(listed) + 1) : Whole(listed'[i].row, listed'[i].shown)
    <3> SUFFICES ASSUME NEW i \in 1..(Len(listed) + 1)
                 PROVE  Whole(listed'[i].row, listed'[i].shown)
      OBVIOUS
    <3>1. CASE i = Len(listed) + 1
      BY <3>1, <1>3, <1>6, <1>9
    <3>2. CASE i # Len(listed) + 1
      <4>1. i \in 1..Len(listed) /\ listed'[i] = listed[i]
        BY <3>2, <1>8, <1>9
      <4> QED BY <4>1, <1>7, <1>8 DEF Given
    <3> QED BY <3>1, <3>2
  <2>4. ListedRows' \subseteq AtSomeTime(Sought)'
    BY <1>3, <1>7, <1>12, <1>13 DEF Given
  <2>5. \A i \in DOMAIN listed' : Whole(listed[i].row, listed[i].shown)'
    BY <2>3, <1>0, <1>9 DEF Whole
  <2> QED BY <2>1, <2>2, <2>4, <2>5, <1>9 DEF Given, Before
<1>17. Covered'
  <2> SUFFICES ASSUME NEW s \in Throughout(Sought), s \notin ListedRows, s # r
               PROVE  ToCome(s)'
    BY <1>12, <1>13 DEF Covered
  <2>1. s \in page \/ (reader.more /\ \A x \in page : Before(x, s))
    BY <1>0 DEF WalkInv, Covered, ToCome
  <2>2. s \in page' \/ (reader.more /\ Before(r, s) /\ \A x \in page' : Before(x, s))
    BY <2>1, <1>1
  <2>3. CASE page # {r}
    BY <2>2, <2>3, <1>2 DEF ToCome, Before
  <2>4. CASE page = {r}
    <3>1. page' = {}
      BY <2>4, <1>1
    <3>2. reader.more /\ Before(r, s)
      BY <3>1, <2>2
    <3> QED BY <3>2, <2>4, <1>2 DEF ToCome, After, Before
  <2> QED BY <2>3, <2>4
<1> QED BY <1>14, <1>16, <1>17 DEF WalkInv

-----------------------------------------------------------------------------
(* The metrics snapshot. *)

\* A count that was right stays so.
LEMMA BracketStays ==
  ASSUME \A r \in Rows : during[r] \subseteq during'[r], NEW n, NEW S, Bracketed(n, S)
  PROVE  Bracketed(n, S)'
<1>1. Throughout(S)' \in SUBSET Throughout(S) /\ AtSomeTime(S) \in SUBSET AtSomeTime(S)'
  BY DuringGrows
<1>2. Throughout(S) \in SUBSET Rows /\ AtSomeTime(S)' \in SUBSET Rows
  BY DEF Throughout, AtSomeTime
<1>3. IsFiniteSet(Throughout(S)) /\ IsFiniteSet(AtSomeTime(S)')
  BY <1>2, FiniteRows
<1>4. PICK t0, t1, s0, s1 : /\ t0 = Cardinality(Throughout(S)) /\ t1 = Cardinality(Throughout(S)')
                            /\ s0 = Cardinality(AtSomeTime(S)) /\ s1 = Cardinality(AtSomeTime(S)')
  OBVIOUS
<1>5. t0 \in Nat /\ t1 \in Nat /\ s0 \in Nat /\ s1 \in Nat /\ t1 <= t0 /\ s0 <= s1
  BY <1>1, <1>3, <1>4, CardinalityGrows
<1>6. n \in Nat /\ t0 <= n /\ n <= s0
  BY <1>4 DEF Bracketed
<1>7. t1 <= n /\ n <= s1
  BY <1>5, <1>6
<1> QED BY <1>4, <1>6, <1>7 DEF Bracketed

LEMMA MeasuredStays ==
  ASSUME Measured, UNCHANGED <<reader, metrics>>, \A r \in Rows : during[r] \subseteq during'[r]
  PROVE  Measured'
<1>1. Bracketed(metrics.queue_depth, Queued) => Bracketed(metrics.queue_depth, Queued)'
  <2>1. PICK n : n = metrics.queue_depth
    OBVIOUS
  <2>2. PICK S : S = Queued
    OBVIOUS
  <2>3. Bracketed(n, S) => Bracketed(n, S)'
    BY BracketStays
  <2> QED BY <2>1, <2>2, <2>3
<1>2. Bracketed(metrics.in_flight, {"retrying"}) => Bracketed(metrics.in_flight, {"retrying"})'
  <2>1. PICK n : n = metrics.in_flight
    OBVIOUS
  <2>2. Bracketed(n, {"retrying"}) => Bracketed(n, {"retrying"})'
    BY BracketStays
  <2> QED BY <2>1, <2>2
<1> QED BY <1>1, <1>2 DEF Measured

\* A count of the tenant's deliveries, made now.
LEMMA CountIsBracketed ==
  ASSUME TablesInv, reader.kind = "metrics", NEW S \in SUBSET Queued
  PROVE  Bracketed(CountStates(S), S)
<1> DEFINE counted == {d \in Deliveries : Own(d) /\ state[d] \in S}
<1>1. \A r \in Rows : state[r] \in during[r]
  BY DEF TablesInv, Tracked
<1>2. Throughout(S) \in SUBSET counted
  <2> SUFFICES ASSUME NEW r \in Throughout(S)
               PROVE  r \in counted
    OBVIOUS
  <2>1. r \in Rows /\ Own(r) /\ state[r] \in S
    BY <1>1 DEF Throughout
  <2>2. r \notin Endpoints
    BY <2>1 DEF TablesInv, TablesTyped, Queued
  <2> QED BY <2>1, <2>2 DEF Rows
<1>3. counted \in SUBSET AtSomeTime(S)
  BY <1>1, Constants DEF AtSomeTime
<1>4. AtSomeTime(S) \in SUBSET Rows /\ counted \in SUBSET Rows
  BY Constants DEF AtSomeTime
<1>5. IsFiniteSet(AtSomeTime(S)) /\ IsFiniteSet(counted)
  BY <1>4, FiniteRows
<1> HIDE DEF counted
<1>6. /\ Cardinality(counted) \in Nat /\ Cardinality(Throughout(S)) <= Cardinality(counted)
      /\ Cardinality(counted) <= Cardinality(AtSomeTime(S))
  BY <1>2, <1>3, <1>5, CardinalityGrows
<1>7. CountStates(S) = Cardinality(counted)
  BY DEF CountStates, counted
<1> QED BY <1>6, <1>7 DEF Bracketed

\* The sample is of at most as many attempts as asked for.
LEMMA SampleIsBounded ==
  ASSUME IsFiniteSet(attempts), NEW recent \in SUBSET OwnAttempts,
         Cardinality(recent) = AtMost(Cardinality(OwnAttempts), SampleSize)
  PROVE  /\ Cardinality(recent) \in Nat /\ Cardinality({a \in recent : a.ok}) \in Nat
         /\ Cardinality({a \in recent : a.ok}) <= Cardinality(recent)
         /\ Cardinality(recent) <= SampleSize
<1>1. recent \in SUBSET attempts /\ OwnAttempts \in SUBSET attempts
  BY DEF OwnAttempts
<1>2. IsFiniteSet(recent) /\ Cardinality(OwnAttempts) \in Nat
  BY <1>1, CardinalityGrows
<1>3. {a \in recent : a.ok} \in SUBSET recent
  OBVIOUS
<1>4. /\ Cardinality(recent) \in Nat /\ Cardinality({a \in recent : a.ok}) \in Nat
      /\ Cardinality({a \in recent : a.ok}) <= Cardinality(recent)
  BY <1>2, <1>3, CardinalityGrows
<1>5. Cardinality(recent) <= SampleSize
  BY <1>2, Constants DEF AtMost
<1> QED BY <1>4, <1>5

LEMMA SnapshotMeasured ==
  ASSUME TablesInv, ReaderTyped, Measured, Snapshot
  PROVE  Measured'
<1> USE DEF Measured
<1>0. /\ reader.kind = "metrics" /\ reader'.kind = "metrics"
      /\ UNCHANGED during
  BY DEF Snapshot, CountQueue, CountInFlight, Sample, tables, ReaderTyped
<1>1. ASSUME NEW n, NEW S
      PROVE  Bracketed(n, S) => Bracketed(n, S)'
  BY <1>0, BracketStays
<1>2. CASE CountQueue
  <2>1. PICK n : n = CountStates(Queued)
    OBVIOUS
  <2>2. Bracketed(n, Queued)
    BY <2>1, <1>0, CountIsBracketed
  <2>3. Bracketed(n, Queued)'
    BY <2>2, <1>1 DEF Queued
  <2>4. metrics' = [metrics EXCEPT !.queue_depth = n] /\ reader'.phase = "in_flight" /\ n \in Nat
    BY <2>1, <2>2, <1>2 DEF CountQueue, ReaderTyped, Bracketed
  <2>5. metrics' \in [queue_depth : Nat, in_flight : Nat, sample_size : Nat, successes : Nat]
        /\ metrics'.queue_depth = n
    BY <2>4
  <2> QED BY <2>3, <2>4, <2>5
<1>3. CASE CountInFlight
  <2>1. PICK n : n = CountStates({"retrying"})
    OBVIOUS
  <2>2. Bracketed(n, {"retrying"})
    BY <2>1, <1>0, CountIsBracketed DEF Queued
  <2>3. Bracketed(n, {"retrying"})'
    BY <2>2, <1>1
  <2>4. /\ metrics' = [metrics EXCEPT !.in_flight = n] /\ n \in Nat
        /\ reader.phase = "in_flight" /\ reader'.phase = "sample"
    BY <2>1, <2>2, <1>3 DEF CountInFlight, ReaderTyped, Bracketed
  <2>5. /\ metrics' \in [queue_depth : Nat, in_flight : Nat, sample_size : Nat, successes : Nat]
        /\ metrics'.in_flight = n /\ metrics'.queue_depth = metrics.queue_depth
    BY <2>4
  <2>6. PICK q : q = metrics.queue_depth
    OBVIOUS
  <2>7. Bracketed(q, Queued)'
    BY <2>4, <2>6, <1>0, <1>1 DEF Queued
  <2> QED BY <2>3, <2>4, <2>5, <2>6, <2>7
<1>4. CASE Sample
  <2>1. PICK recent \in SUBSET OwnAttempts :
          /\ Cardinality(recent) = AtMost(Cardinality(OwnAttempts), SampleSize)
          /\ metrics' = [metrics EXCEPT !.sample_size = Cardinality(recent),
                                        !.successes = Cardinality({a \in recent : a.ok})]
    BY <1>4 DEF Sample
  <2>2. PICK n, k : n = Cardinality(recent) /\ k = Cardinality({a \in recent : a.ok})
    OBVIOUS
  <2>3. n \in Nat /\ k \in Nat /\ k <= n /\ n <= SampleSize
    BY <2>1, <2>2, SampleIsBounded DEF TablesInv, TablesTyped
  <2>4. /\ metrics' = [metrics EXCEPT !.sample_size = n, !.successes = k]
        /\ reader.phase = "sample" /\ reader'.phase = "done"
    BY <2>1, <2>2, <1>4 DEF Sample, ReaderTyped
  <2>5. /\ metrics' \in [queue_depth : Nat, in_flight : Nat, sample_size : Nat, successes : Nat]
        /\ metrics'.in_flight = metrics.in_flight /\ metrics'.queue_depth = metrics.queue_depth
        /\ metrics'.sample_size = n /\ metrics'.successes = k
    BY <2>3, <2>4
  <2>6. PICK q, f : q = metrics.queue_depth /\ f = metrics.in_flight
    OBVIOUS
  <2>7. Bracketed(q, Queued)' /\ Bracketed(f, {"retrying"})'
    BY <2>4, <2>6, <1>0, <1>1 DEF Queued
  <2> QED BY <2>3, <2>4, <2>5, <2>6, <2>7
<1> QED BY <1>2, <1>3, <1>4 DEF Snapshot

LEMMA MeasuredFrame ==
  ASSUME Measured, reader.kind # "metrics", reader'.kind = reader.kind, UNCHANGED metrics
  PROVE  Measured'
BY DEF Measured

-----------------------------------------------------------------------------
(* The live feed. *)

LEMMA Singleton ==
  ASSUME NEW S, NEW m \in S
  PROVE  <<m>> \in Seq(S) /\ << >> \in Seq(S)
OBVIOUS

\* What is put at the end of the buffer is put at the end of everything.
LEMMA AppendLast ==
  ASSUME NEW S, NEW a \in Seq(S), NEW b \in Seq(S), NEW c \in Seq(S), NEW m \in S
  PROVE  a \o b \o Append(c, m) = Append(a \o b \o c, m)
<1>1. <<m>> \in Seq(S)
  BY Singleton
<1>2. a \o b \in Seq(S) /\ (a \o b) \o c \in Seq(S)
  BY ConcatProperties
<1>3. Append(c, m) = c \o <<m>> /\ Append((a \o b) \o c, m) = ((a \o b) \o c) \o <<m>>
  BY <1>2, AppendIsConcat
<1>4. ((a \o b) \o c) \o <<m>> = (a \o b) \o (c \o <<m>>)
  BY <1>1, <1>2, ConcatAssociative
<1> QED BY <1>3, <1>4

\* The head of the buffer moves to the hand.
LEMMA MoveHead ==
  ASSUME NEW S, NEW a \in Seq(S), NEW c \in Seq(S), c # << >>
  PROVE  a \o << >> \o c = a \o <<Head(c)>> \o Tail(c)
<1>1. /\ Head(c) \in S /\ Tail(c) \in Seq(S) /\ Len(Tail(c)) = Len(c) - 1
      /\ \A i \in 1..Len(Tail(c)) : Tail(c)[i] = c[i + 1]
  BY HeadTailProperties
<1>2. <<Head(c)>> \in Seq(S)
  BY <1>1, Singleton
<1>3. Head(c) = c[1] /\ Len(c) \in Nat \ {0}
  BY EmptySeq
<1>4. c = <<Head(c)>> \o Tail(c)
  <2> DEFINE h == <<Head(c)>>
             t == Tail(c)
  <2>1. Len(h) = 1 /\ h[1] = c[1]
    BY <1>3
  <2>2. h \in Seq(S) /\ t \in Seq(S) /\ Len(t) = Len(c) - 1 /\ \A i \in 1..Len(t) : t[i] = c[i + 1]
    BY <1>1, <1>2
  <2> HIDE DEF h, t
  <2>3. /\ h \o t \in Seq(S) /\ Len(h \o t) = Len(h) + Len(t)
        /\ \A i \in 1..(Len(h) + Len(t)) : (h \o t)[i] = IF i <= Len(h) THEN h[i] ELSE t[i - Len(h)]
    BY <2>2, ConcatProperties
  <2>4. Len(h \o t) = Len(c)
    BY <2>1, <2>2, <2>3, <1>3
  <2>5. \A i \in 1..Len(c) : c[i] = (h \o t)[i]
    <3> SUFFICES ASSUME NEW i \in 1..Len(c)
                 PROVE  c[i] = (h \o t)[i]
      OBVIOUS
    <3>1. (h \o t)[i] = IF i <= 1 THEN h[i] ELSE t[i - 1]
      BY <2>1, <2>3, <2>4
    <3>2. CASE i = 1
      BY <3>1, <3>2, <2>1
    <3>3. CASE i # 1
      <4>1. i > 1 /\ i - 1 \in 1..Len(t)
        BY <3>3, <2>2, <1>3
      <4>2. t[i - 1] = c[(i - 1) + 1]
        BY <4>1, <2>2
      <4>3. (i - 1) + 1 = i /\ ~(i <= 1)
        BY <4>1
      <4> QED BY <4>2, <4>3, <3>1
    <3> QED BY <3>2, <3>3
  <2>6. c = h \o t
    BY <2>3, <2>4, <2>5, SeqEqual
  <2> QED BY <2>6 DEF h, t
<1>5. a \o << >> = a
  BY ConcatEmptySeq
<1>6. (a \o <<Head(c)>>) \o Tail(c) = a \o (<<Head(c)>> \o Tail(c))
  BY <1>1, <1>2, ConcatAssociative
<1> QED BY <1>4, <1>5, <1>6

\* What was in the hand has been given.
LEMMA GiveHand ==
  ASSUME NEW S, NEW a \in Seq(S), NEW c \in Seq(S), NEW m \in S
  PROVE  a \o <<m>> \o c = Append(a, m) \o << >> \o c
<1>1. Append(a, m) = a \o <<m>> /\ Append(a, m) \in Seq(S)
  BY AppendIsConcat, AppendProperties
<1>2. Append(a, m) \o << >> = Append(a, m)
  BY <1>1, ConcatEmptySeq
<1> QED BY <1>1, <1>2

\* What the client has been told is a prefix of what was published.
LEMMA ToldIsSent ==
  ASSUME FeedInv, NEW i \in DOMAIN feed.told
  PROVE  i \in DOMAIN sent /\ sent[i] = feed.told[i]
<1>1. PICK a, b, c : a = feed.told /\ b = InHand /\ c = feed.buffer
  OBVIOUS
<1>2. a \in Seq(Msg) /\ b \in Seq(Msg) /\ c \in Seq(Msg) /\ sent \in Seq(Msg)
  BY <1>1, Singleton DEF FeedInv, FeedTyped, InHand
<1>3. (a \o b) \o c = sent
  BY <1>1 DEF FeedInv, Streamed
<1>4. a \o b \in Seq(Msg)
  BY <1>2, ConcatProperties
<1>5. /\ Len(a) \in Nat /\ Len(b) \in Nat /\ Len(c) \in Nat
      /\ DOMAIN a = 1..Len(a) /\ DOMAIN sent = 1..Len(sent)
  BY <1>2, LenProperties
<1>6. /\ Len(a \o b) = Len(a) + Len(b)
      /\ \A k \in 1..(Len(a) + Len(b)) : (a \o b)[k] = IF k <= Len(a) THEN a[k] ELSE b[k - Len(a)]
  BY <1>2, ConcatProperties
<1>7. /\ Len(sent) = Len(a \o b) + Len(c)
      /\ \A k \in 1..(Len(a \o b) + Len(c)) :
           sent[k] = IF k <= Len(a \o b) THEN (a \o b)[k] ELSE c[k - Len(a \o b)]
  BY <1>2, <1>3, <1>4, ConcatProperties
<1>8. i \in 1..Len(a) /\ i <= Len(a) /\ i \in 1..(Len(a) + Len(b)) /\ i <= Len(a) + Len(b)
  BY <1>1, <1>5
<1>9. i \in 1..(Len(a \o b) + Len(c))
  BY <1>5, <1>6, <1>8
<1>10. (a \o b)[i] = a[i] /\ sent[i] = (a \o b)[i]
  BY <1>6, <1>7, <1>8, <1>9
<1> QED BY <1>1, <1>5, <1>7, <1>9, <1>10

\* What was on record stays there, or its delivery is gone.
LEMMA VouchedStays ==
  ASSUME TablesInv, Evolves, NEW m \in Msg, Vouched(m)
  PROVE  Vouched(m)'
<1>1. m[1] \in Rows
  BY Constants DEF Msg
<1>2. CASE state[m[1]] = "gone"
  BY <1>1, <1>2 DEF Evolves, Vouched
<1>3. CASE m[2] = 0
  BY <1>3 DEF Vouched, OnRecord
<1>4. ASSUME NEW a \in attempts, a.delivery = m[1], a.id = m[2]
      PROVE  Vouched(m)'
  BY <1>4 DEF Evolves, Vouched, OnRecord, History
<1> QED BY <1>2, <1>3, <1>4 DEF Vouched, OnRecord, History

LEMMA SentType ==
  ASSUME FeedInv
  PROVE  \A i \in DOMAIN sent : sent[i] \in Msg
BY LenProperties DEF FeedInv, FeedTyped

LEMMA FeedEvolves ==
  ASSUME TablesInv, TablesInv', Evolves, UNCHANGED <<feed, sent>>, FeedInv
  PROVE  FeedInv'
<1>1. UNCHANGED <<feed, sent>>
  OBVIOUS
<1>2. FeedTyped'
  BY <1>1 DEF FeedInv, FeedTyped
<1>3. \A i \in DOMAIN sent : Vouched(sent[i])'
  <2> SUFFICES ASSUME NEW i \in DOMAIN sent
               PROVE  Vouched(sent[i])'
    OBVIOUS
  <2>1. PICK m \in Msg : m = sent[i]
    BY SentType
  <2>2. Vouched(m)'
    BY <2>1, VouchedStays DEF FeedInv, Streamed
  <2> QED BY <2>1, <2>2, <1>1
<1>4. \A m \in outgoing' : Vouched(m)'
  <2> SUFFICES ASSUME NEW m \in outgoing'
               PROVE  Vouched(m)'
    OBVIOUS
  <2>1. CASE m \in outgoing
    BY <2>1, VouchedStays DEF FeedInv, Streamed, TablesInv, TablesTyped
  <2>2. CASE m \notin outgoing
    BY <2>2 DEF Evolves, Vouched, OnRecord, History
  <2> QED BY <2>1, <2>2
<1>5. \A i \in DOMAIN sent' : Own(sent[i][1])' /\ Vouched(sent[i])'
  BY <1>1, <1>3 DEF FeedInv, Streamed, Own
<1>6. feed'.told \o InHand' \o feed'.buffer = sent'
  BY <1>1 DEF FeedInv, Streamed, InHand
<1> QED BY <1>2, <1>4, <1>5, <1>6 DEF FeedInv, Streamed

\* A step of a reader leaves what is vouched for as it is.
LEMMA FeedFrame ==
  ASSUME FeedInv, UNCHANGED <<state, attempts, feed, sent>>, outgoing' \subseteq outgoing
  PROVE  FeedInv'
<1>1. \A m : Vouched(m)' = Vouched(m)
  BY DEF Vouched, OnRecord, History
<1>2. \A i \in DOMAIN sent : Own(sent[i][1])' /\ Vouched(sent[i])'
  BY <1>1 DEF FeedInv, Streamed, Own, Vouched, OnRecord, History
<1> QED BY <1>1, <1>2 DEF FeedInv, FeedTyped, Streamed, InHand

LEMMA PublishFeed ==
  ASSUME TablesInv, FeedInv, Publish
  PROVE  FeedInv'
<1>1. PICK m \in outgoing :
        /\ outgoing' = outgoing \ {m}
        /\ \/ UNCHANGED <<feed, sent>>
           \/ /\ Own(m[1]) /\ feed' = [feed EXCEPT !.buffer = Append(@, m)]
              /\ sent' = Append(sent, m)
        /\ UNCHANGED <<state, attempts>>
  BY DEF Publish
<1>2. CASE UNCHANGED <<feed, sent>>
  BY <1>1, <1>2, FeedFrame
<1>3. CASE /\ Own(m[1]) /\ feed' = [feed EXCEPT !.buffer = Append(@, m)]
           /\ sent' = Append(sent, m)
  <2>1. m \in Msg /\ Vouched(m)
    BY DEF TablesInv, TablesTyped, FeedInv, Streamed
  <2>2. /\ feed.told \in Seq(Msg) /\ feed.buffer \in Seq(Msg) /\ sent \in Seq(Msg)
        /\ InHand \in Seq(Msg)
    BY Singleton DEF FeedInv, FeedTyped, InHand
  <2>3. Append(feed.buffer, m) \in Seq(Msg) /\ Append(sent, m) \in Seq(Msg)
    BY <2>1, <2>2, AppendProperties
  <2>4. /\ feed'.told = feed.told /\ feed'.buffer = Append(feed.buffer, m)
        /\ feed'.task = feed.task /\ feed'.payload = feed.payload
    BY <1>3 DEF FeedInv, FeedTyped
  <2>5. FeedTyped'
    BY <1>3, <2>3, <2>4 DEF FeedInv, FeedTyped
  <2>6. InHand' = InHand
    BY <2>4 DEF InHand
  <2>7. feed'.told \o InHand' \o feed'.buffer = sent'
    <3>1. feed.told \o InHand \o Append(feed.buffer, m) = Append(feed.told \o InHand \o feed.buffer, m)
      <4>1. PICK a, b, c : a = feed.told /\ b = InHand /\ c = feed.buffer
        OBVIOUS
      <4>2. a \in Seq(Msg) /\ b \in Seq(Msg) /\ c \in Seq(Msg)
        BY <4>1, <2>2
      <4>3. a \o b \o Append(c, m) = Append(a \o b \o c, m)
        BY <4>2, <2>1, AppendLast
      <4> QED BY <4>1, <4>3
    <3> QED BY <3>1, <2>4, <2>6, <1>3 DEF FeedInv, Streamed
  <2>8. \A x : Vouched(x)' = Vouched(x)
    BY <1>1 DEF Vouched, OnRecord, History
  <2>9. \A i \in DOMAIN sent' : Own(sent'[i][1]) /\ Vouched(sent'[i])
    <3>1. /\ DOMAIN sent = 1..Len(sent) /\ Len(sent) \in Nat /\ DOMAIN sent' = 1..Len(sent')
          /\ Len(sent') = Len(sent) + 1
          /\ \A i \in 1..Len(sent) : sent'[i] = sent[i]
          /\ sent'[Len(sent) + 1] = m
      BY <2>1, <2>2, <2>3, <1>3, AppendProperties, LenProperties
    <3> SUFFICES ASSUME NEW i \in DOMAIN sent'
                 PROVE  Own(sent'[i][1]) /\ Vouched(sent'[i])
      OBVIOUS
    <3>2. i = Len(sent) + 1 \/ i \in 1..Len(sent)
      BY <3>1
    <3>3. CASE i = Len(sent) + 1
      BY <3>1, <3>3, <2>1, <1>3
    <3>4. CASE i \in 1..Len(sent)
      BY <3>1, <3>4 DEF FeedInv, Streamed
    <3> QED BY <3>2, <3>3, <3>4
  <2>10. \A i \in DOMAIN sent' : Own(sent[i][1])' /\ Vouched(sent[i])'
    BY <2>9, <1>1 DEF Own, Vouched, OnRecord, History
  <2>11. \A x \in outgoing' : Vouched(x)'
    BY <2>8, <1>1 DEF FeedInv, Streamed
  <2> QED BY <2>5, <2>7, <2>10, <2>11 DEF FeedInv, Streamed
<1> QED BY <1>1, <1>2, <1>3

LEMMA StreamFeed ==
  ASSUME TablesInv, ReaderTyped, FeedInv, Stream
  PROVE  FeedInv'
<1>0. UNCHANGED <<state, attempts, outgoing, sent>>
  BY DEF Stream, Subscribe, Receive, Wait, Heartbeat, Resume, Yield, Disconnect, tables
<1>1. CASE UNCHANGED feed
  BY <1>0, <1>1, FeedFrame
<1>2. ASSUME FeedTyped', feed'.told \o InHand' \o feed'.buffer = feed.told \o InHand \o feed.buffer
      PROVE  FeedInv'
  <2>1. \A x : Vouched(x)' = Vouched(x)
    BY <1>0 DEF Vouched, OnRecord, History
  <2>2. \A i \in DOMAIN sent' : Own(sent[i][1])' /\ Vouched(sent[i])'
    BY <1>0 DEF FeedInv, Streamed, Own, Vouched, OnRecord, History
  <2> QED BY <1>0, <1>2, <2>1, <2>2 DEF FeedInv, Streamed
<1>3. feed.told \in Seq(Msg) /\ feed.buffer \in Seq(Msg) /\ << >> \in Seq(Msg)
  BY DEF FeedInv, FeedTyped
<1>4. CASE Receive
  <2>1. /\ feed.task = "running" /\ feed.buffer # << >>
        /\ feed' = [feed EXCEPT !.task = "done", !.payload = Head(feed.buffer), !.buffer = Tail(@)]
    BY <1>4 DEF Receive
  <2>2. Head(feed.buffer) \in Msg /\ Tail(feed.buffer) \in Seq(Msg)
    BY <2>1, <1>3, HeadTailProperties
  <2>3. /\ feed'.told = feed.told /\ feed'.buffer = Tail(feed.buffer)
        /\ feed'.task = "done" /\ feed'.payload = Head(feed.buffer)
    BY <2>1 DEF FeedInv, FeedTyped
  <2>4. FeedTyped'
    BY <2>1, <2>2, <2>3, <1>0, Constants DEF FeedInv, FeedTyped
  <2>5. InHand = << >> /\ InHand' = <<Head(feed.buffer)>>
    BY <2>1, <2>3 DEF InHand
  <2>6. feed'.told \o InHand' \o feed'.buffer = feed.told \o InHand \o feed.buffer
    <3>1. PICK a, c : a = feed.told /\ c = feed.buffer
      OBVIOUS
    <3>2. a \o << >> \o c = a \o <<Head(c)>> \o Tail(c)
      BY <3>1, <2>1, <1>3, MoveHead
    <3> QED BY <3>1, <3>2, <2>3, <2>5, Zenon
  <2> QED BY <2>4, <2>6, <1>2
<1>5. CASE Wait \/ Heartbeat \/ Resume
  <2>1. \/ /\ feed.task = "none" /\ feed' = [feed EXCEPT !.at = "wait", !.task = "running"]
        \/ feed' = [feed EXCEPT !.at = "comment"]
        \/ feed' = [feed EXCEPT !.at = IF feed.task = "none" THEN "loop" ELSE "wait"]
    BY <1>5 DEF Wait, Heartbeat, Resume
  <2>2. /\ feed'.told = feed.told /\ feed'.buffer = feed.buffer /\ feed'.payload = feed.payload
        /\ feed'.task = feed.task \/ (feed.task = "none" /\ feed'.task = "running")
        /\ FeedTyped'
    BY <2>1, <1>0 DEF FeedInv, FeedTyped
  <2>3. InHand' = InHand
    BY <2>2 DEF InHand
  <2> QED BY <2>2, <2>3, <1>2
<1>6. CASE Yield
  <2>1. /\ feed.task = "done"
        /\ feed' = [feed EXCEPT !.at = "data", !.task = "none", !.payload = Nothing,
                                !.told = Append(@, feed.payload)]
    BY <1>6 DEF Yield
  <2>2. feed.payload \in Msg
    BY <2>1 DEF FeedInv, FeedTyped
  <2>3. Append(feed.told, feed.payload) \in Seq(Msg)
    BY <2>2, <1>3, AppendProperties
  <2>4. /\ feed'.told = Append(feed.told, feed.payload) /\ feed'.buffer = feed.buffer
        /\ feed'.task = "none" /\ feed'.payload = Nothing
    BY <2>1 DEF FeedInv, FeedTyped
  <2>5. FeedTyped'
    BY <2>1, <2>3, <2>4, <1>0 DEF FeedInv, FeedTyped
  <2>6. InHand = <<feed.payload>> /\ InHand' = << >>
    BY <2>1, <2>4 DEF InHand
  <2>7. feed'.told \o InHand' \o feed'.buffer = feed.told \o InHand \o feed.buffer
    <3>1. PICK a, c, m : a = feed.told /\ c = feed.buffer /\ m = feed.payload
      OBVIOUS
    <3>2. a \o <<m>> \o c = Append(a, m) \o << >> \o c
      BY <3>1, <2>2, <1>3, GiveHand
    <3> QED BY <3>1, <3>2, <2>4, <2>6, Zenon
  <2> QED BY <2>5, <2>7, <1>2
<1>7. CASE Subscribe \/ Disconnect
  <2>1. UNCHANGED feed
    BY <1>7 DEF Subscribe, Disconnect
  <2> QED BY <2>1, <1>1
<1> QED BY <1>4, <1>5, <1>6, <1>7 DEF Stream

-----------------------------------------------------------------------------
(* The restore drill. *)

LEMMA TablesAre ==
  /\ Tables = {"endpoints", "deliveries", "delivery_attempts"}
  /\ Len(VERIFY_TABLES) = 3
  /\ VERIFY_TABLES[1] = "endpoints" /\ VERIFY_TABLES[2] = "deliveries"
  /\ VERIFY_TABLES[3] = "delivery_attempts"
<1>1. DOMAIN VERIFY_TABLES = {1, 2, 3}
  BY DEF VERIFY_TABLES
<1>2. /\ Len(VERIFY_TABLES) = 3
      /\ VERIFY_TABLES[1] = "endpoints" /\ VERIFY_TABLES[2] = "deliveries"
      /\ VERIFY_TABLES[3] = "delivery_attempts"
  BY DEF VERIFY_TABLES
<1> QED BY <1>1, <1>2 DEF Tables

LEMMA CountOfIs ==
  /\ CountOf("endpoints") = Cardinality({e \in Endpoints : state[e] = "active"})
  /\ CountOf("deliveries") = Cardinality({d \in Deliveries : state[d] \in Stored})
  /\ CountOf("delivery_attempts") = Cardinality(attempts)
BY DEF CountOf

LEMMA CountOfType ==
  ASSUME TablesInv, NEW t \in Tables
  PROVE  CountOf(t) \in Nat
<1>1. /\ {e \in Endpoints : state[e] = "active"} \in SUBSET Rows
      /\ {d \in Deliveries : state[d] \in Stored} \in SUBSET Rows
  BY Constants
<1>2. IsFiniteSet(attempts)
  BY DEF TablesInv, TablesTyped
<1> QED BY <1>1, <1>2, CountOfIs, TablesAre, FiniteRows, FS_CardinalityType

\* Rows of the dump that are not gone are counted in the live database.
LEMMA LiveCoversDump ==
  ASSUME TablesInv, DrillInv, NEW t \in Tables,
         Drilling("restore") \/ Drilling("count") \/ Drilling("done"),
         IF t = "endpoints" THEN Gone \cap Endpoints = {} ELSE Gone = {}
  PROVE  drill.dumped[t] <= CountOf(t)
<1>0. /\ \A r \in drill.rows : state[r] \in Stored \cup {"gone"}
      /\ drill.dumped["endpoints"] = Cardinality(drill.rows \cap Endpoints)
      /\ drill.dumped["deliveries"] = Cardinality(drill.rows \cap Deliveries)
      /\ Gone = {} => drill.dumped["delivery_attempts"] <= Cardinality(DumpedAttempts)
      /\ drill.dumped["delivery_attempts"] \in Nat
  BY TablesAre DEF DrillInv, Dumped, DrillTyped
<1>1. CASE t = "endpoints"
  <2>1. drill.rows \cap Endpoints \in SUBSET {e \in Endpoints : state[e] = "active"}
    BY <1>0, <1>1 DEF Gone, TablesInv, TablesTyped, Stored, Queued
  <2>2. IsFiniteSet({e \in Endpoints : state[e] = "active"})
    BY FiniteRows, Constants
  <2> QED BY <2>1, <2>2, <1>0, <1>1, CountOfIs, CardinalityGrows
<1>2. CASE t = "deliveries"
  <2>1. drill.rows \cap Deliveries \in SUBSET {d \in Deliveries : state[d] \in Stored}
    BY <1>0, <1>2 DEF Gone
  <2>2. IsFiniteSet({d \in Deliveries : state[d] \in Stored})
    BY FiniteRows, Constants
  <2> QED BY <2>1, <2>2, <1>0, <1>2, CountOfIs, CardinalityGrows
<1>3. CASE t = "delivery_attempts"
  <2>1. DumpedAttempts \in SUBSET attempts /\ IsFiniteSet(attempts)
    BY DEF DumpedAttempts, TablesInv, TablesTyped
  <2>2. /\ Cardinality(DumpedAttempts) \in Nat /\ Cardinality(attempts) \in Nat
        /\ Cardinality(DumpedAttempts) <= Cardinality(attempts)
    BY <2>1, CardinalityGrows
  <2>3. drill.dumped["delivery_attempts"] <= Cardinality(attempts)
    BY <2>2, <1>0, <1>3
  <2> QED BY <2>3, <1>3, CountOfIs
<1> QED BY <1>1, <1>2, <1>3, TablesAre

LEMMA DrillEvolves ==
  ASSUME TablesInv, TablesInv', Evolves, UNCHANGED drill, DrillInv
  PROVE  DrillInv'
<1>0. UNCHANGED <<reader, drill>> /\ DrillTyped /\ Dumped /\ Compared /\ drill.rows \subseteq Rows
  BY DEF Evolves, DrillInv, DrillTyped
<1>1. \A p : Drilling(p)' = Drilling(p)
  BY <1>0 DEF Drilling
<1>2. Gone \subseteq Gone'
  BY <1>0 DEF Gone, Evolves
<1>3. Gone' = {} => Cardinality(DumpedAttempts) <= Cardinality(DumpedAttempts)'
                    /\ Cardinality(DumpedAttempts) \in Nat /\ Cardinality(DumpedAttempts)' \in Nat
  <2> SUFFICES ASSUME Gone' = {}
               PROVE  Cardinality(DumpedAttempts) <= Cardinality(DumpedAttempts)'
                      /\ Cardinality(DumpedAttempts) \in Nat /\ Cardinality(DumpedAttempts)' \in Nat
    OBVIOUS
  <2>1. DumpedAttempts \in SUBSET DumpedAttempts'
    BY <1>0 DEF DumpedAttempts, Gone, Evolves
  <2>2. DumpedAttempts' \in SUBSET attempts' /\ IsFiniteSet(attempts')
    BY DEF DumpedAttempts, TablesInv, TablesTyped
  <2>3. IsFiniteSet(DumpedAttempts')
    BY <2>2, CardinalityGrows
  <2> QED BY <2>1, <2>3, CardinalityGrows
<1>4. DrillTyped'
  BY <1>0 DEF DrillTyped
<1>5. Dumped'
  <2> SUFFICES ASSUME Drilling("restore") \/ Drilling("count") \/ Drilling("done")
               PROVE  /\ \A r \in drill.rows : state'[r] \in Stored \cup {"gone"}
                      /\ drill.dumped["endpoints"] = Cardinality(drill.rows \cap Endpoints)
                      /\ drill.dumped["deliveries"] = Cardinality(drill.rows \cap Deliveries)
                      /\ Gone' = {} => drill.dumped["delivery_attempts"] <= Cardinality(DumpedAttempts)'
    BY <1>0, <1>1 DEF Dumped
  <2>1. \A r \in drill.rows : state'[r] \in Stored \cup {"gone"}
    BY <1>0 DEF Dumped, Evolves
  <2>2. Gone' = {} => drill.dumped["delivery_attempts"] <= Cardinality(DumpedAttempts)'
    <3>1. drill.dumped["delivery_attempts"] \in Nat
      BY <1>0, TablesAre DEF DrillTyped
    <3>2. Gone' = {} => drill.dumped["delivery_attempts"] <= Cardinality(DumpedAttempts)
      BY <1>0, <1>2 DEF Dumped
    <3> QED BY <3>1, <3>2, <1>3
  <2> QED BY <2>1, <2>2, <1>0 DEF Dumped
<1>6. Compared'
  <2>1. \A t : (IF t = "endpoints" THEN Gone' \cap Endpoints = {} ELSE Gone' = {}) =>
                 (IF t = "endpoints" THEN Gone \cap Endpoints = {} ELSE Gone = {})
    BY <1>2
  <2>2. compare_to_live(drill.restored, drill.live)' = compare_to_live(drill.restored, drill.live)
    BY <1>0 DEF compare_to_live
  <2> QED BY <1>0, <1>1, <2>1, <2>2 DEF Compared
<1> QED BY <1>4, <1>5, <1>6 DEF DrillInv

LEMMA DrillFrame ==
  ASSUME DrillInv, UNCHANGED drill, reader.kind # "drill", reader'.kind = reader.kind
  PROVE  DrillInv'
BY DEF DrillInv, DrillTyped, Dumped, Compared, Drilling

LEMMA DrillDrills ==
  ASSUME TablesInv, ReaderTyped, DrillInv, Drill
  PROVE  DrillInv'
<1>0. /\ reader.kind = "drill" /\ reader'.kind = "drill"
      /\ UNCHANGED <<state, attempts>>
      /\ DrillTyped /\ Dumped /\ Compared
  BY DEF Drill, Dump, Restore, CountLive, Compare, Continue, Drilling, tables, ReaderTyped, DrillInv
<1>1. CASE Dump
  <2>1. /\ reader'.phase = "restore"
        /\ drill' = [drill EXCEPT !.dumped = [t \in Tables |-> CountOf(t)],
                                  !.rows = {r \in Rows : state[r] \in Stored}]
    BY <1>1 DEF Dump, Continue, ReaderTyped
  <2>2. /\ drill'.dumped = [t \in Tables |-> CountOf(t)] /\ drill'.dumped \in [Tables -> Nat]
        /\ drill'.rows = {r \in Rows : state[r] \in Stored}
    BY <2>1, <1>0, CountOfType DEF DrillTyped
  <2>3. DrillTyped'
    BY <2>1, <2>2, <1>0 DEF DrillTyped
  <2>4. Dumped'
    <3>1. /\ drill'.dumped["endpoints"] = CountOf("endpoints")
          /\ drill'.dumped["deliveries"] = CountOf("deliveries")
          /\ drill'.dumped["delivery_attempts"] = CountOf("delivery_attempts")
      BY <2>2, TablesAre
    <3>2. drill'.rows \cap Endpoints = {e \in Endpoints : state[e] = "active"}
      BY <2>2, Constants DEF TablesInv, TablesTyped, Stored, Queued
    <3>3. drill'.rows \cap Deliveries = {d \in Deliveries : state[d] \in Stored}
      BY <2>2, Constants
    <3>4. DumpedAttempts' = attempts
      BY <2>2, <1>0, Constants DEF DumpedAttempts, TablesInv, TablesTyped, Rooted, AttemptRow
    <3>5. Cardinality(attempts) \in Nat
      BY FS_CardinalityType DEF TablesInv, TablesTyped
    <3>6. \A r \in drill'.rows : state'[r] \in Stored \cup {"gone"}
      BY <2>2, <1>0
    <3> QED BY <3>1, <3>2, <3>3, <3>4, <3>5, <3>6, CountOfIs DEF Dumped
  <2>5. Compared'
    BY <2>1, <1>0, <1>1 DEF Compared, Drilling, Dump, DrillTyped
  <2> QED BY <2>3, <2>4, <2>5 DEF DrillInv
<1>2. ASSUME drill'.rows = drill.rows, drill'.dumped = drill.dumped,
             Drilling("restore") \/ Drilling("count") \/ Drilling("done")
      PROVE  Dumped' /\ Gone' = Gone
  BY <1>0, <1>2 DEF Dumped, Gone, DumpedAttempts
<1>3. CASE Restore
  <2>1. PICK left \in {{}} \cup {{t} : t \in Tables} :
          drill' = [drill EXCEPT !.restored = [t \in Tables |-> IF t \in left THEN 0 ELSE drill.dumped[t]],
                                 !.left = left]
    BY <1>3 DEF Restore
  <2>2. Drilling("restore") /\ reader'.phase = "count" /\ left \in SUBSET Tables
    BY <1>3 DEF Restore, Continue, ReaderTyped
  <2>3. /\ drill'.restored = [t \in Tables |-> IF t \in left THEN 0 ELSE drill.dumped[t]]
        /\ drill'.restored \in [Tables -> Nat]
        /\ drill'.left = left /\ drill'.rows = drill.rows /\ drill'.dumped = drill.dumped
        /\ drill'.counted = drill.counted
    BY <2>1, <1>0 DEF DrillTyped
  <2>4. DrillTyped'
    BY <2>1, <2>2, <2>3, <1>0 DEF DrillTyped
  <2>5. Dumped'
    BY <2>2, <2>3, <1>2
  <2>6. drill'.counted = 0
    BY <2>2, <2>3, <1>0 DEF Compared
  <2>7. Compared'
    BY <2>2, <2>3, <2>6 DEF Compared, Drilling
  <2> QED BY <2>4, <2>5, <2>7 DEF DrillInv
<1>4. CASE CountLive
  <2>1. PICK n \in 1..3 : n = drill.counted + 1
    BY <1>4, <1>0, TablesAre DEF CountLive, DrillTyped
  <2>2. PICK t \in Tables : t = VERIFY_TABLES[n]
    BY <2>1, TablesAre
  <2>3. PICK c \in Nat : c = CountOf(t)
    BY CountOfType
  <2>4. /\ Drilling("count") /\ reader'.phase = "count"
        /\ drill' = [drill EXCEPT !.live[t] = c, !.counted = n]
    BY <2>1, <2>2, <2>3, <1>0, <1>4 DEF CountLive, Continue, ReaderTyped, DrillTyped
  <2>5. /\ drill'.live = [drill.live EXCEPT ![t] = c] /\ drill'.counted = n
        /\ drill'.left = drill.left /\ drill'.rows = drill.rows /\ drill'.dumped = drill.dumped
        /\ drill'.restored = drill.restored
    BY <2>4, <1>0 DEF DrillTyped
  <2>6. DrillTyped'
    <3>1. drill'.live \in [Tables -> Nat] /\ n \in 0..3
      BY <2>5, <1>0 DEF DrillTyped
    <3>2. PICK live : live = drill'.live
      OBVIOUS
    <3>3. drill' = [drill EXCEPT !.live = live, !.counted = n]
      BY <3>2, <2>4, <2>5, <1>0 DEF DrillTyped
    <3> QED BY <3>1, <3>2, <3>3, <1>0 DEF DrillTyped
  <2>7. Dumped' /\ Gone' = Gone
    BY <2>4, <2>5, <1>2
  <2>8. ASSUME NEW i \in 1..n, NEW u, u = VERIFY_TABLES[i],
               IF u = "endpoints" THEN Gone \cap Endpoints = {} ELSE Gone = {}
        PROVE  drill.dumped[u] <= drill'.live[u]
    <3>1. CASE i = n
      <4>1. u = t /\ drill'.live[t] = c
        BY <3>1, <2>2, <2>5, <2>8, <1>0 DEF DrillTyped
      <4> QED BY <4>1, <2>3, <2>4, <2>8, LiveCoversDump
    <3>2. CASE i # n
      <4>1. i \in 1..drill.counted
        BY <3>2, <2>1, <1>0 DEF DrillTyped
      <4>2. u # t /\ u \in Tables
        BY <3>2, <2>2, <2>8, TablesAre
      <4>3. drill'.live[u] = drill.live[u]
        BY <4>2, <2>5, <1>0 DEF DrillTyped
      <4>4. drill.dumped[u] <= drill.live[u]
        BY <4>1, <2>4, <2>8, <1>0 DEF Compared
      <4> QED BY <4>3, <4>4
    <3> QED BY <3>1, <3>2
  <2>9. Compared'
    BY <2>4, <2>5, <2>7, <2>8, <1>0 DEF Compared, Drilling
  <2> QED BY <2>6, <2>7, <2>9 DEF DrillInv
<1>5. CASE Compare
  <2>1. PICK problem : problem = compare_to_live(drill.restored, drill.live)
    OBVIOUS
  <2>2. problem \in [Tables -> {"lost", "nothing", NoProblem}]
    BY <2>1 DEF compare_to_live
  <2>3. /\ Drilling("count") /\ drill.counted = 3 /\ reader'.phase = "done"
        /\ drill' = [drill EXCEPT !.problem = problem]
    BY <2>1, <1>5, TablesAre DEF Compare, Continue, ReaderTyped
  <2>4. /\ drill'.live = drill.live /\ drill'.counted = drill.counted /\ drill'.problem = problem
        /\ drill'.left = drill.left /\ drill'.rows = drill.rows /\ drill'.dumped = drill.dumped
        /\ drill'.restored = drill.restored
    BY <2>3, <1>0 DEF DrillTyped
  <2>5. DrillTyped'
    BY <2>2, <2>3, <2>4, <1>0 DEF DrillTyped
  <2>6. Dumped' /\ Gone' = Gone
    BY <2>3, <2>4, <1>2
  <2>7. compare_to_live(drill.restored, drill.live)' = problem
    BY <2>1, <2>4 DEF compare_to_live
  <2>8. Compared'
    BY <2>3, <2>4, <2>6, <2>7, <1>0 DEF Compared, Drilling
  <2> QED BY <2>5, <2>6, <2>8 DEF DrillInv
<1> QED BY <1>1, <1>3, <1>4, <1>5 DEF Drill

-----------------------------------------------------------------------------
(* The invariant. *)

LEMMA InitIInv == DrillInit => IInv
<1> SUFFICES ASSUME DrillInit
             PROVE  IInv
  OBVIOUS
<1>0. Init /\ TablesInv
  BY InitTables DEF DrillInit
<1>1. PICK kind \in Kinds \cup {"metrics", "feed", "drill"} :
        reader = [kind |-> kind, phase |-> "query", cursor |-> Nothing, more |-> FALSE]
  BY <1>0 DEF Init
<1>2. ReaderTyped
  BY <1>1 DEF ReaderTyped, PhasesOf, Kinds
<1>3. /\ page = {} /\ listed = << >> /\ sent = << >> /\ outgoing = {}
      /\ metrics = [queue_depth |-> 0, in_flight |-> 0, sample_size |-> 0, successes |-> 0]
      /\ feed = [at |-> "loop", task |-> "none", payload |-> Nothing, buffer |-> << >>, told |-> << >>]
  BY <1>0 DEF Init
<1>4. DOMAIN listed = {} /\ DOMAIN sent = {}
  BY <1>3
<1>5. Paged
  BY <1>1, <1>3, FS_EmptySet, Constants DEF Paged
<1>6. Given
  BY <1>1, <1>3, <1>4 DEF Given, ListedRows
<1>7. Covered
  BY <1>1 DEF Covered, ToCome, After
<1>8. Measured
  BY <1>1, <1>3 DEF Measured
<1>9. FeedTyped
  BY <1>3, Constants DEF FeedTyped
<1>10. Streamed
  <2>1. InHand = << >>
    BY <1>3 DEF InHand
  <2>2. << >> \o << >> \o << >> = << >>
    BY ConcatEmptySeq, EmptySeq
  <2> QED BY <2>1, <2>2, <1>3, <1>4 DEF Streamed
<1>11. DrillTyped
  BY DEF DrillInit, DrillTyped, Zero
<1>12. Dumped /\ Compared
  BY <1>1 DEF DrillInit, Dumped, Compared, Drilling
<1> QED BY <1>0, <1>2, <1>5, <1>6, <1>7, <1>8, <1>9, <1>10, <1>11, <1>12
        DEF IInv, WalkInv, FeedInv, DrillInv

\* A write, or a publication, or nothing: the reader stands still.
LEMMA ReaderEvolves ==
  ASSUME TablesInv, TablesInv', Evolves, ReaderTyped, WalkInv, Measured
  PROVE  ReaderTyped' /\ WalkInv' /\ Measured'
<1>1. ReaderTyped'
  BY DEF ReaderTyped, Evolves
<1>2. Measured'
  BY MeasuredStays DEF Evolves
<1> QED BY <1>1, <1>2, WalkEvolves

LEMMA WritersIInv ==
  ASSUME IInv, Writers, UNCHANGED drill
  PROVE  IInv'
<1>1. TablesInv' /\ Evolves
  BY WritersTables DEF IInv
<1>2. UNCHANGED <<feed, sent>>
  BY DEF Writers, Accept, Defer, Replay, Attempt, Register, Delete, Write
<1> QED BY <1>1, <1>2, ReaderEvolves, FeedEvolves, DrillEvolves DEF IInv

LEMMA PublishIInv ==
  ASSUME IInv, Publish, UNCHANGED drill
  PROVE  IInv'
<1>1. /\ UNCHANGED <<state, attempts, count, during, reader, page, listed, metrics>>
      /\ outgoing' \subseteq outgoing
  BY DEF Publish
<1>2. TablesInv'
  BY <1>1, ReadTables DEF IInv
<1>3. Evolves
  BY <1>1 DEF Evolves
<1>4. FeedInv'
  BY PublishFeed DEF IInv
<1> QED BY <1>2, <1>3, <1>4, ReaderEvolves, DrillEvolves DEF IInv

LEMMA StutterIInv ==
  ASSUME IInv, UNCHANGED drillVars
  PROVE  IInv'
<1>1. UNCHANGED <<state, attempts, count, outgoing, during, reader, page, listed, metrics, feed, sent, drill>>
  BY DEF drillVars, vars, tables
<1>2. TablesInv'
  BY <1>1, ReadTables DEF IInv
<1>3. Evolves
  BY <1>1 DEF Evolves
<1> QED BY <1>1, <1>2, <1>3, ReaderEvolves, FeedEvolves, DrillEvolves DEF IInv

\* A step of the reader: nothing is written.
LEMMA ReaderStep ==
  ASSUME IInv, Walk \/ Snapshot \/ Stream \/ Drill
  PROVE  /\ UNCHANGED <<state, attempts, count, outgoing, during>>
         /\ reader'.kind = reader.kind
         /\ ReaderTyped'
<1>0. ReaderTyped /\ Paged
  BY DEF IInv, WalkInv
<1>1. CASE Walk
  <2>1. CASE Query
    <3> DEFINE rows == {r \in Matching(reader.kind) : After(r, reader.cursor)}
               more == Cardinality(rows) > PageLimit
               phase == IF rows = {} THEN "done" ELSE "detail"
    <3>0. rows \in SUBSET Rows
      BY DEF Matching
    <3>1. Cardinality(rows) \in Nat /\ PageLimit \in Nat
      BY <3>0, FiniteRows, Constants
    <3>3. more \in BOOLEAN
      BY <3>1
    <3>4. phase \in {"detail", "done"}
      OBVIOUS
    <3>5. reader' = [reader EXCEPT !.phase = phase, !.more = more]
      BY <2>1 DEF Query
    <3>2. reader.kind \in Kinds /\ UNCHANGED tables
      BY <2>1 DEF Query
    <3> HIDE DEF rows, more, phase
    <3> QED BY <3>2, <3>3, <3>4, <3>5, <1>0 DEF tables, ReaderTyped, PhasesOf, Kinds
  <2>2. CASE Detail
    <3>1. PICK r \in page, phase \in {"query", "detail", "done"} :
            reader' = [reader EXCEPT !.cursor = r, !.phase = phase]
      BY <2>2 DEF Detail
    <3>2. r \in Rows /\ reader.kind \in Kinds /\ UNCHANGED tables
      BY <2>2, <1>0 DEF Detail, Paged
    <3> QED BY <3>1, <3>2, <1>0 DEF tables, ReaderTyped, PhasesOf, Kinds
  <2> QED BY <1>1, <2>1, <2>2 DEF Walk
<1>2. CASE Snapshot
  BY <1>2, <1>0 DEF Snapshot, CountQueue, CountInFlight, Sample, tables, ReaderTyped, PhasesOf, Kinds
<1>3. CASE Stream
  BY <1>3, <1>0 DEF Stream, Subscribe, Receive, Wait, Heartbeat, Resume, Yield, Disconnect, Open,
                    tables, ReaderTyped, PhasesOf, Kinds
<1>4. CASE Drill
  BY <1>4, <1>0 DEF Drill, Dump, Restore, CountLive, Compare, Continue, Drilling,
                    tables, ReaderTyped, PhasesOf, Kinds
<1> QED BY <1>1, <1>2, <1>3, <1>4

LEMMA ReadsIInv ==
  ASSUME IInv, ((Walk \/ Snapshot \/ Stream) /\ UNCHANGED drill) \/ Drill
  PROVE  IInv'
<1>0. /\ UNCHANGED <<state, attempts, count, outgoing, during>>
      /\ reader'.kind = reader.kind
      /\ ReaderTyped'
  BY ReaderStep
<1>1. TablesInv'
  BY <1>0, ReadTables DEF IInv
<1>2. CASE Walk /\ UNCHANGED drill
  <2>1. reader.kind \in Kinds /\ UNCHANGED <<metrics, feed, sent>>
    BY <1>2 DEF Walk, Query, Detail
  <2>2. WalkInv'
    BY <1>2, QueryWalk, DetailWalk DEF IInv, Walk
  <2>3. Measured' /\ FeedInv' /\ DrillInv'
    BY <2>1, <1>0, <1>2, MeasuredFrame, FeedFrame, DrillFrame DEF IInv, Kinds
  <2> QED BY <2>2, <2>3, <1>0, <1>1 DEF IInv
<1>3. ASSUME reader.kind \notin Kinds, UNCHANGED <<page, listed>>, reader'.cursor = reader.cursor
      PROVE  WalkInv'
  <2>1. reader.phase # "detail" /\ reader'.phase # "detail"
    BY <1>0, <1>3 DEF IInv, ReaderTyped, PhasesOf
  <2> QED BY <2>1, <1>0, <1>3, WalkFrame DEF IInv
<1>4. CASE Snapshot /\ UNCHANGED drill
  <2>1. /\ reader.kind = "metrics" /\ UNCHANGED <<page, listed, feed, sent>>
        /\ reader'.cursor = reader.cursor
    BY <1>4 DEF Snapshot, CountQueue, CountInFlight, Sample, IInv, ReaderTyped
  <2>2. WalkInv'
    BY <2>1, <1>3 DEF Kinds
  <2>3. Measured'
    BY <1>4, SnapshotMeasured DEF IInv
  <2>4. FeedInv' /\ DrillInv'
    BY <2>1, <1>0, <1>4, FeedFrame, DrillFrame DEF IInv
  <2> QED BY <2>2, <2>3, <2>4, <1>0, <1>1 DEF IInv
<1>5. CASE Stream /\ UNCHANGED drill
  <2>1. /\ reader.kind = "feed" /\ UNCHANGED <<page, listed, metrics>>
        /\ reader'.cursor = reader.cursor
    BY <1>5 DEF Stream, Subscribe, Receive, Wait, Heartbeat, Resume, Yield, Disconnect, Open,
                IInv, ReaderTyped
  <2>2. WalkInv'
    BY <2>1, <1>3 DEF Kinds
  <2>3. FeedInv'
    BY <1>5, StreamFeed DEF IInv
  <2>4. Measured' /\ DrillInv'
    BY <2>1, <1>0, <1>5, MeasuredFrame, DrillFrame DEF IInv
  <2> QED BY <2>2, <2>3, <2>4, <1>0, <1>1 DEF IInv
<1>6. CASE Drill
  <2>1. /\ reader.kind = "drill" /\ UNCHANGED <<page, listed, metrics, feed, sent>>
        /\ reader'.cursor = reader.cursor
    BY <1>6 DEF Drill, Dump, Restore, CountLive, Compare, Continue, Drilling, IInv, ReaderTyped
  <2>2. WalkInv'
    BY <2>1, <1>3 DEF Kinds
  <2>3. Measured' /\ FeedInv'
    BY <2>1, <1>0, MeasuredFrame, FeedFrame DEF IInv
  <2>4. DrillInv'
    BY <1>6, DrillDrills DEF IInv
  <2> QED BY <2>2, <2>3, <2>4, <1>0, <1>1 DEF IInv
<1> QED BY <1>2, <1>4, <1>5, <1>6

\* The invariant holds in every state, whichever reader it is and whatever is
\* written meanwhile.
THEOREM Invariance == DrillSpec => []IInv
<1>1. IInv /\ [DrillNext]_drillVars => IInv'
  BY WritersIInv, PublishIInv, ReadsIInv, StutterIInv DEF DrillNext, Next
<1> QED BY <1>1, InitIInv, PTL DEF DrillSpec

-----------------------------------------------------------------------------
(* The properties. *)

\* The types of the state, and what of it belongs together: attempts to deliveries
\* and deliveries to endpoints that are there, a page to the phase that details it,
\* and a payload to a task that is done.
THEOREM TypeCorrect == DrillSpec => []TypeOK
<1>1. IInv => TypeOK
  BY DEF IInv, TablesInv, TablesTyped, Rooted, WalkInv, Paged, FeedInv, FeedTyped, TypeOK
<1> QED BY <1>1, Invariance, PTL

\* Keyset pagination (EndpointRepository.list, DeliveryRepository.list_dead) gives
\* every row that was in the listing all the time, once and in order, and nothing
\* else, and a dead delivery with a whole history, for any rows and page size and
\* however many writes fall between and within the pages.
THEOREM WalkIsComplete == DrillSpec => []WalkComplete
<1>1. IInv => WalkComplete
  <2> SUFFICES ASSUME IInv
               PROVE  WalkComplete
    OBVIOUS
  <2>1. Given /\ Covered
    BY DEF IInv, WalkInv
  <2>2. /\ \A i, j \in DOMAIN listed : i < j => Before(listed[i].row, listed[j].row)
        /\ ListedRows \subseteq AtSomeTime(Sought)
        /\ \A i \in DOMAIN listed : Whole(listed[i].row, listed[i].shown)
    BY <2>1 DEF Given
  <2>3. Finished(Kinds) => Throughout(Sought) \subseteq ListedRows
    BY <2>1 DEF Covered, ToCome, Finished
  <2> QED BY <2>2, <2>3 DEF WalkComplete, ListedRows, Sought, Whole
<1> QED BY <1>1, Invariance, PTL

\* Each count of a metrics snapshot lies between the rows that were in its states
\* all the time and those that were at some time, although the three statements see
\* three moments, and the sample is bounded.
THEOREM MetricsAreBracketed == DrillSpec => []MetricsBracketed
<1>1. IInv => MetricsBracketed
  <2> SUFFICES ASSUME IInv, Finished({"metrics"})
               PROVE  /\ Bracketed(metrics.queue_depth, Queued)
                      /\ Bracketed(metrics.in_flight, {"retrying"})
                      /\ metrics.successes <= metrics.sample_size
                      /\ metrics.sample_size <= SampleSize
    <3>1. \A S : Throughout(S) \in SUBSET Rows /\ AtSomeTime(S) \in SUBSET Rows
      BY DEF Throughout, AtSomeTime
    <3>2. \A S : Cardinality(Throughout(S)) \in Nat /\ Cardinality(AtSomeTime(S)) \in Nat
      BY <3>1, FiniteRows
    <3>3. \A n, S : Bracketed(n, S) => n \in Cardinality(Throughout(S))..Cardinality(AtSomeTime(S))
      BY <3>2 DEF Bracketed
    <3> QED BY <3>3 DEF MetricsBracketed
  <2> QED BY DEF IInv, Measured, Finished
<1> QED BY <1>1, Invariance, PTL

\* The SSE client is told what was published to its tenant's channel since it
\* subscribed, in order and without a gap, and only of attempts that are on record,
\* however heartbeats, messages and writes interleave.
THEOREM FeedIsFaithful == DrillSpec => []FeedFaithful
<1>1. IInv => FeedFaithful
  <2> SUFFICES ASSUME IInv
               PROVE  FeedFaithful
    OBVIOUS
  <2>1. FeedInv
    BY DEF IInv
  <2>2. \A i \in DOMAIN feed.told : Own(feed.told[i][1]) /\ Vouched(feed.told[i])
    BY <2>1, ToldIsSent DEF FeedInv, Streamed
  <2> QED BY <2>1, <2>2 DEF FeedInv, Streamed, FeedFaithful, InHand, Vouched
<1> QED BY <1>1, Invariance, PTL

\* What the restore drill reports of a table is so, for any contents of the database
\* and any writes between the dump and the counts.
THEOREM DrillIsRight == DrillSpec => []DrillTells
<1>1. IInv => DrillTells
  <2> SUFFICES ASSUME IInv, Drilling("done")
               PROVE  DrillTells
    BY DEF DrillTells
  <2>1. /\ DrillTyped /\ drill.counted = 3
        /\ drill.problem = compare_to_live(drill.restored, drill.live)
        /\ \A t \in Tables : drill.restored[t] = IF t \in drill.left THEN 0 ELSE drill.dumped[t]
    BY DEF IInv, DrillInv, Compared
  <2>2. \A i \in 1..3 :
          (IF VERIFY_TABLES[i] = "endpoints" THEN Gone \cap Endpoints = {} ELSE Gone = {}) =>
            drill.dumped[VERIFY_TABLES[i]] <= drill.live[VERIFY_TABLES[i]]
    BY <2>1 DEF IInv, DrillInv, Compared
  <2>3. \A t \in Tables :
          (IF t = "endpoints" THEN Gone \cap Endpoints = {} ELSE Gone = {}) =>
            drill.dumped[t] <= drill.live[t]
    BY <2>2, TablesAre
  <2>4. \A t \in Tables :
          /\ drill.dumped[t] \in Nat /\ drill.live[t] \in Nat /\ drill.restored[t] \in Nat
          /\ drill.problem[t] = IF drill.restored[t] > drill.live[t] THEN "lost"
                                ELSE IF drill.restored[t] = 0 /\ drill.live[t] > 0 THEN "nothing"
                                ELSE "none"
    BY <2>1 DEF DrillTyped, compare_to_live, NoProblem
  <2>5. \A t \in Tables : drill.problem[t] = "lost" =>
          IF t = "endpoints" THEN Gone \cap Endpoints # {} ELSE Gone # {}
    BY <2>1, <2>3, <2>4
  <2>6. \A t \in Tables : drill.problem[t] = "nothing" => drill.dumped[t] = 0 \/ t \in drill.left
    BY <2>1, <2>4
  <2>7. \A t \in drill.left : t \in Tables /\ (drill.problem[t] = "nothing" \/ drill.live[t] = 0)
    BY <2>1, <2>4 DEF DrillTyped
  <2> QED BY <2>5, <2>6, <2>7 DEF DrillTells, Gone
<1> QED BY <1>1, Invariance, PTL

\* The latency reported as p95 (_percentile) has at least 95% of the sample at or
\* below it, and is at most one rank above the nearest, for a sample of any size.
THEOREM PercentileIsNear ==
  ASSUME NEW n \in Nat \ {0}
  PROVE  /\ PercentileRank(n) \in 1..n
         /\ 100 * PercentileRank(n) >= 95 * n
         /\ 100 * (PercentileRank(n) - 2) < 95 * n
<1> DEFINE q == (95 * n) \div 100
<1>1. 95 * n \in Nat
  OBVIOUS
<1>2. q \in Nat /\ 100 * q <= 95 * n /\ 95 * n < 100 * (q + 1)
  BY <1>1
<1>3. PercentileRank(n) = IF q + 1 < n THEN q + 1 ELSE n
  BY DEF PercentileRank, AtMost
<1> HIDE DEF q
<1> QED BY <1>2, <1>3
=============================================================================
