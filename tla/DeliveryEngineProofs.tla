------------------------ MODULE DeliveryEngineProofs ------------------------
(***************************************************************************)
(* Proofs about DeliveryEngine, for any deliveries, endpoints, workers and *)
(* replays, any bounds, and with every window open or closed.              *)
(***************************************************************************)
EXTENDS DeliveryEngine, TLAPS

-----------------------------------------------------------------------------
(* Lemmas about the data. *)

LEMMA NewRowType ==
  ASSUME NEW s \in Lifecycle
  PROVE  NewRow(s) \in Row
BY EngineAssumption DEF NewRow, Row, RetryAt, Backoff, Null

LEMMA RetryTimes == Null \in RetryAt /\ Backoff \in RetryAt
BY EngineAssumption DEF RetryAt, Backoff, Null

\* Merging the columns of rows gives a row.
LEMMA FlushType ==
  ASSUME NEW s \in Row, NEW n \in Row, NEW c \in Row
  PROVE  Flush(s, n, c) \in Row
BY DEF Flush, Row

\* The row an attempt writes is a row with one attempt more than it selected; it is
\* only delivered by a success, and only dead when that attempt is the last.
LEMMA OutcomeFacts ==
  ASSUME NEW s \in Row, NEW n \in Nat, NEW success \in BOOLEAN
  PROVE  /\ Outcome(s, n, success) \in Row
         /\ Outcome(s, n, success).attempt_count = s.attempt_count + 1
         /\ Outcome(s, n, success).state \in {"delivered", "dead", "retrying"}
         /\ Outcome(s, n, success).state = "delivered" => success
         /\ Outcome(s, n, success).state = "dead" => n >= MaxAttempts
         /\ Outcome(s, n, success).state = "retrying" =>
              Outcome(s, n, success).next_retry_at = Backoff
BY EngineAssumption, RetryTimes
   DEF Outcome, mark_delivered, mark_dead, mark_retrying, Attempted, Row, Lifecycle,
       DeliveryState

LEMMA RescheduleType ==
  ASSUME NEW s \in Row, NEW at \in RetryAt
  PROVE  reschedule(s, at) \in Row
BY DEF reschedule, Row, Lifecycle, DeliveryState

LEMMA IdleSlotType == IdleSlot \in Slot /\ IdleSlot.phase = "idle"
BY NewRowType, RetryTimes DEF IdleSlot, Slot, Phases, Lifecycle, NoMessage

\* The message of a busy slot is one of the stream's.
LEMMA BusySlot ==
  ASSUME TypeOK, NEW w \in Workers, worker[w].phase # "idle"
  PROVE  /\ worker[w] \in Slot
         /\ worker[w].msg \in 1..Len(stream)
         /\ Delivery(w) \in Deliveries
<1>1. worker[w] \in Slot /\ worker[w].msg \in 1..cursor /\ cursor \in 0..Len(stream)
  BY DEF TypeOK
<1>2. worker[w].msg \in 1..Len(stream)
  BY <1>1
<1>3. stream[worker[w].msg] \in Message
  BY <1>2 DEF TypeOK
<1> QED BY <1>1, <1>2, <1>3 DEF Delivery, Message

\* Adding to the stream moves nothing that is on it.
LEMMA Appending ==
  ASSUME TypeOK, NEW m \in Message, XADD(m)
  PROVE  /\ stream' \in Seq(Message)
         /\ Len(stream') = Len(stream) + 1
         /\ \A i \in 1..Len(stream) : stream'[i] = stream[i]
BY DEF TypeOK, XADD

-----------------------------------------------------------------------------
(* Type correctness. *)

LEMMA InitType == Init => TypeOK
BY EngineAssumption, NewRowType, IdleSlotType
   DEF Init, TypeOK, Lifecycle, Request, ReplayPhases

LEMMA RelayType ==
  ASSUME TypeOK,
         (\E d \in Deliveries : RelayPublish(d)) \/ RelayCommit \/ RelayRollback
           \/ \E e \in Endpoints : DeleteEndpoint(e)
  PROVE  TypeOK'
<1>1. ASSUME NEW d \in Deliveries, RelayPublish(d) PROVE TypeOK'
  <2>1. rows' \in [Deliveries -> Row]
    BY <1>1, NewRowType DEF RelayPublish, TypeOK, Lifecycle
  <2>2. stream' \in Seq(Message) /\ Len(stream') = Len(stream) + 1
    BY <1>1, Appending DEF RelayPublish, Message
  <2> QED BY <1>1, <2>1, <2>2 DEF RelayPublish, TypeOK
<1>2. CASE RelayCommit
  BY <1>2, NewRowType DEF RelayCommit, TypeOK, redis, Lifecycle, DeliveryState
<1>3. CASE RelayRollback
  BY <1>3, NewRowType DEF RelayRollback, TypeOK, redis, Lifecycle, Spend
<1>4. ASSUME NEW e \in Endpoints, DeleteEndpoint(e) PROVE TypeOK'
  BY <1>4, NewRowType DEF DeleteEndpoint, TypeOK, redis, Lifecycle
<1> QED BY <1>1, <1>2, <1>3, <1>4

LEMMA WorkType ==
  ASSUME TypeOK, NEW w \in Workers, Work(w) \/ Abandon(w)
  PROVE  TypeOK'
<1> USE DEF TypeOK
<1>1. CASE Read(w)
  <2>1. cursor' \in 0..Len(stream) /\ cursor' = cursor + 1 /\ cursor \in Nat /\ cursor' \in Nat
    BY <1>1 DEF Read
  <2>2. pel' \subseteq 1..cursor'
    BY <1>1, <2>1 DEF Read
  <2>3. /\ worker' \in [Workers -> Slot]
        /\ \A v \in Workers : worker'[v].phase # "idle" => worker'[v].msg \in 1..cursor'
    <3>1. worker' = [worker EXCEPT ![w].phase = "got", ![w].msg = cursor']
      BY <1>1, <2>1 DEF Read
    <3>2. worker[w] \in Slot /\ worker'[w] = [worker[w] EXCEPT !.phase = "got", !.msg = cursor']
      BY <3>1
    <3>3. worker'[w] \in Slot /\ worker'[w].msg = cursor'
      BY <2>1, <3>2 DEF Slot, Phases
    <3>4. \A v \in Workers \ {w} : worker'[v] = worker[v]
      BY <3>1
    <3>5. cursor' \in 1..cursor' /\ 1..cursor \subseteq 1..cursor'
      BY <2>1
    <3>6. worker' \in [Workers -> Slot]
      BY <3>1, <3>3, <3>4
    <3> QED BY <3>3, <3>4, <3>5, <3>6
  <2> QED BY <1>1, <2>1, <2>2, <2>3 DEF Read
<1>2. CASE Reclaim(w)
  <2>1. PICK i \in pel : worker' = [worker EXCEPT ![w].phase = "got", ![w].msg = i]
    BY <1>2 DEF Reclaim
  <2>2. worker[w] \in Slot /\ i \in Nat /\ i \in 1..cursor
    OBVIOUS
  <2>3. worker'[w] = [worker[w] EXCEPT !.phase = "got", !.msg = i]
    BY <2>1
  <2>4. worker'[w] \in Slot /\ worker'[w].msg = i
    BY <2>2, <2>3 DEF Slot, Phases
  <2> QED BY <1>2, <2>1, <2>2, <2>4 DEF Reclaim, redis
<1>3. CASE Load(w)
  <2>1. Delivery(w) \in Deliveries /\ worker[w] \in Slot /\ worker[w].msg \in 1..cursor
    BY <1>3, BusySlot DEF Load
  <2>2. EndpointOf[Delivery(w)] \in Endpoints
    BY <2>1, EngineAssumption
  <2>3. (IF breaker[EndpointOf[Delivery(w)]].cooling
         THEN breaker[EndpointOf[Delivery(w)]].opened ELSE Null) \in RetryAt
    BY <2>2, RetryTimes, EngineAssumption DEF RetryAt, Backoff
  <2>4. rows[Delivery(w)].attempt_count + 1 \in Nat
    BY <2>1 DEF Row
  <2> QED BY <1>3, <2>1, <2>3, <2>4 DEF Load, Slot, Phases, redis
<1>4. CASE LoadMissing(w)
  BY <1>4, IdleSlotType DEF LoadMissing
<1>5. CASE Send(w)
  <2>1. PICK answer \in {"ok", "failed"} : worker' = [worker EXCEPT ![w].phase = answer]
    BY <1>5 DEF Send
  <2>2. worker[w] \in Slot /\ worker'[w] = [worker[w] EXCEPT !.phase = answer]
    BY <2>1
  <2>3. worker'[w] \in Slot /\ worker'[w].phase = answer /\ worker'[w].msg = worker[w].msg
    BY <2>1, <2>2 DEF Slot, Phases
  <2>4. \A v \in Workers \ {w} : worker'[v] = worker[v]
    BY <2>1
  <2>5. worker' \in [Workers -> Slot]
    BY <2>1, <2>3, <2>4
  <2>6. worker[w].msg \in 1..cursor /\ UNCHANGED <<rows, attempts, redis, replayer, breaker, budget>>
    BY <1>5 DEF Send
  <2> QED BY <2>1, <2>3, <2>4, <2>5, <2>6 DEF redis
<1>6. CASE Defer(w)
  <2> DEFINE d == Delivery(w)
             selected == worker[w].row
             row == Flush(selected, reschedule(selected, worker[w].until), rows[d])
  <2>1. d \in Deliveries /\ worker[w] \in Slot /\ worker[w].msg \in 1..cursor
    BY <1>6, BusySlot DEF Defer
  <2>2. row \in Row
    BY <2>1, FlushType, RescheduleType DEF Slot
  <2>3. After(row) \in Phases /\ (After(row) = "schedule" => row.next_retry_at # Null)
    BY DEF After, Phases
  <2>4. /\ rows' = [rows EXCEPT ![d] = row]
        /\ worker' = [worker EXCEPT ![w].phase = After(row), ![w].row = row]
        /\ UNCHANGED <<attempts, redis, replayer, breaker, budget>>
    BY <1>6 DEF Defer
  <2> HIDE DEF row, d
  <2>5. worker' \in [Workers -> Slot]
    BY <2>2, <2>3, <2>4 DEF Slot
  <2>6. \A v \in Workers : worker'[v].msg = worker[v].msg
    BY <2>4
  <2>7. \A v \in Workers \ {w} : worker'[v] = worker[v]
    BY <2>4
  <2>8. worker'[w].phase = "schedule" => worker'[w].row.next_retry_at # Null
    BY <2>3, <2>4 DEF Slot
  <2> QED BY <2>1, <2>2, <2>4, <2>5, <2>6, <2>7, <2>8 DEF redis
<1>7. CASE Record(w)
  <2> DEFINE d == Delivery(w)
             selected == worker[w].row
             success == worker[w].phase = "ok"
             row == Flush(selected, Outcome(selected, worker[w].attempt_no, success), rows[d])
  <2>1. d \in Deliveries /\ worker[w] \in Slot /\ worker[w].msg \in 1..cursor
    BY <1>7, BusySlot DEF Record
  <2>2. row \in Row
    BY <2>1, FlushType, OutcomeFacts DEF Slot
  <2>3. After(row) \in Phases /\ (After(row) = "schedule" => row.next_retry_at # Null)
    BY DEF After, Phases
  <2>4. /\ rows' = [rows EXCEPT ![d] = row]
        /\ attempts' = [attempts EXCEPT ![d].logged = @ + 1, ![d].ok = @ \/ success]
        /\ worker' = [worker EXCEPT ![w].phase = After(row), ![w].row = row]
        /\ UNCHANGED <<redis, replayer, breaker, budget>>
    BY <1>7 DEF Record
  <2> HIDE DEF row, d, success
  <2>5. attempts' \in [Deliveries -> [logged : Nat, ok : BOOLEAN]]
    <3>1. attempts \in [Deliveries -> [logged : Nat, ok : BOOLEAN]]
      OBVIOUS
    <3> HIDE DEF TypeOK
    <3>2. attempts[d].logged + 1 \in Nat
      BY <2>1, <3>1
    <3>3. (attempts[d].ok \/ success) \in BOOLEAN
      OBVIOUS
    <3> QED BY <2>1, <2>4, <3>1, <3>2, <3>3
  <2>6. worker' \in [Workers -> Slot]
    BY <2>2, <2>3, <2>4 DEF Slot
  <2>7. \A v \in Workers : worker'[v].msg = worker[v].msg
    BY <2>4
  <2>8. \A v \in Workers \ {w} : worker'[v] = worker[v]
    BY <2>4
  <2>9. worker'[w].phase = "schedule" => worker'[w].row.next_retry_at # Null
    BY <2>3, <2>4 DEF Slot
  <2> QED BY <2>1, <2>2, <2>4, <2>5, <2>6, <2>7, <2>8, <2>9 DEF redis
<1>8. CASE WriteMissing(w)
  BY <1>8, IdleSlotType DEF WriteMissing
<1>9. CASE Schedule(w)
  <2>1. worker[w] \in Slot /\ worker[w].msg \in 1..Len(stream)
    BY <1>9, BusySlot DEF Schedule
  <2>2. zset' \subseteq [member : Message, at : RetryAt \ {Null}]
    <3>1. worker[w].row.next_retry_at \in RetryAt \ {Null}
      BY <1>9, <2>1 DEF Schedule, Slot, Row
    <3>2. stream[worker[w].msg] \in Message
      BY <2>1
    <3> QED BY <1>9, <3>1, <3>2 DEF Schedule
  <2> QED BY <1>9, <2>1, <2>2 DEF Schedule, Slot, Phases
<1>10. CASE Ack(w)
  BY <1>10, IdleSlotType DEF Ack
<1>11. CASE Abandon(w)
  BY <1>11, IdleSlotType DEF Abandon, redis, Spend
<1>12. CASE Reselect(w)
  <2>1. Delivery(w) \in Deliveries /\ worker[w] \in Slot /\ worker[w].msg \in 1..cursor
    BY <1>12, BusySlot DEF Reselect
  <2>2. rows[Delivery(w)] \in Row /\ worker[w].phase \in {"defer", "ok", "failed"}
    BY <1>12, <2>1 DEF Reselect
  <2>3. worker' = [worker EXCEPT ![w].row = rows[Delivery(w)]]
    BY <1>12 DEF Reselect
  <2>4. worker' \in [Workers -> Slot]
    BY <2>2, <2>3 DEF Slot
  <2>5. \A v \in Workers : worker'[v].msg = worker[v].msg /\ worker'[v].phase = worker[v].phase
    BY <2>3 DEF Slot
  <2>6. \A v \in Workers \ {w} : worker'[v] = worker[v]
    BY <2>3
  <2>7. UNCHANGED <<rows, attempts, redis, replayer, breaker, budget>>
    BY <1>12 DEF Reselect
  <2> QED BY <2>1, <2>2, <2>4, <2>5, <2>6, <2>7 DEF redis
<1> QED BY <1>1, <1>2, <1>3, <1>4, <1>5, <1>6, <1>7, <1>8, <1>9, <1>10, <1>11, <1>12 DEF Work

LEMMA SchedulerType ==
  ASSUME TypeOK, PopDue \/ Enqueue \/ SchedulerCrash
  PROVE  TypeOK'
<1>1. CASE PopDue
  BY <1>1 DEF PopDue, TypeOK
<1>2. CASE Enqueue
  <2>1. PICK m \in popped : XADD(m) /\ popped' = popped \ {m}
    BY <1>2 DEF Enqueue
  <2>2. stream' \in Seq(Message) /\ Len(stream') = Len(stream) + 1
    BY <2>1, Appending DEF TypeOK
  <2> QED BY <1>2, <2>1, <2>2 DEF Enqueue, TypeOK
<1>3. CASE SchedulerCrash
  BY <1>3 DEF SchedulerCrash, TypeOK
<1> QED BY <1>1, <1>2, <1>3

LEMMA ReplayType ==
  ASSUME TypeOK, NEW r \in Replayers,
         ReplayLoad(r) \/ ReplaySelect(r) \/ ReplayReset(r) \/ ReplayEnqueue(r) \/ ReplayFail(r)
  PROVE  TypeOK'
<1> USE DEF TypeOK
<1>0. NewRow("none") \in Row
  BY NewRowType DEF Lifecycle
<1>1. CASE ReplayLoad(r)
  <2>1. PICK d \in Deliveries :
          replayer' = [replayer EXCEPT ![r].phase = "loaded", ![r].delivery = d]
    BY <1>1 DEF ReplayLoad
  <2>2. replayer' \in [Replayers -> Request]
    <3>1. replayer \in [Replayers -> Request]
      OBVIOUS
    <3> HIDE DEF TypeOK
    <3> QED BY <2>1, <3>1 DEF Request, ReplayPhases
  <2>3. budget' \in [{"crashes", "replays"} -> Nat]
    <3>1. budget["replays"] > 0 /\ budget' = [budget EXCEPT !["replays"] = budget["replays"] - 1]
      BY <1>1 DEF ReplayLoad, Spend
    <3>2. budget \in [{"crashes", "replays"} -> Nat]
      OBVIOUS
    <3> HIDE DEF TypeOK
    <3>3. budget["replays"] - 1 \in Nat
      BY <3>1, <3>2
    <3> QED BY <3>1, <3>2, <3>3
  <2> QED BY <1>1, <2>2, <2>3 DEF ReplayLoad, redis
<1>5. CASE ReplaySelect(r)
  <2>1. replayer[r] \in Request /\ rows[replayer[r].delivery] \in Row
    BY DEF Request
  <2>2. replayer' = [replayer EXCEPT ![r].phase = "selected", ![r].row = rows[replayer[r].delivery]]
    BY <1>5 DEF ReplaySelect
  <2>3. replayer' \in [Replayers -> Request]
    BY <2>1, <2>2 DEF Request, ReplayPhases
  <2> QED BY <1>5, <2>3 DEF ReplaySelect, redis
<1>2. CASE ReplayReset(r)
  <2>1. replayer[r].delivery \in Deliveries /\ replayer[r].row \in Row
    BY DEF Request
  <2>2. reset_for_replay(replayer[r].row) \in Row
    BY NewRowType DEF reset_for_replay, Lifecycle, DeliveryState
  <2>3. rows' \in [Deliveries -> Row]
    BY <1>2, <2>1, <2>2, FlushType DEF ReplayReset
  <2>4. replayer' \in [Replayers -> Request]
    <3>1. replayer' = [replayer EXCEPT ![r].phase = "enqueue", ![r].row = NewRow("none")]
      BY <1>2 DEF ReplayReset
    <3> QED BY <1>0, <3>1 DEF Request, ReplayPhases
  <2>5. UNCHANGED <<attempts, redis, worker, breaker, budget>>
    BY <1>2 DEF ReplayReset
  <2> QED BY <2>3, <2>4, <2>5 DEF redis
<1>3. CASE ReplayEnqueue(r)
  <2>1. [delivery |-> replayer[r].delivery, corr |-> FALSE] \in Message
    BY DEF Request, Message
  <2>2. stream' \in Seq(Message) /\ Len(stream') = Len(stream) + 1
    BY <1>3, <2>1, Appending DEF ReplayEnqueue
  <2>3. replayer' \in [Replayers -> Request]
    <3>1. replayer' = [replayer EXCEPT ![r].phase = "idle"]
      BY <1>3 DEF ReplayEnqueue
    <3> QED BY <3>1 DEF Request, ReplayPhases
  <2>4. cursor' \in 0..Len(stream')
    BY <1>3, <2>2 DEF ReplayEnqueue
  <2>5. UNCHANGED <<rows, attempts, cursor, pel, zset, popped, worker, breaker, budget>>
    BY <1>3 DEF ReplayEnqueue
  <2> QED BY <2>2, <2>3, <2>4, <2>5
<1>4. CASE ReplayFail(r)
  <2>1. replayer' = [replayer EXCEPT ![r].phase = "idle", ![r].row = NewRow("none")]
    BY <1>4 DEF ReplayFail
  <2>2. replayer' \in [Replayers -> Request]
    BY <1>0, <2>1 DEF Request, ReplayPhases
  <2>3. UNCHANGED <<rows, attempts, redis, worker, breaker, budget>>
    BY <1>4 DEF ReplayFail
  <2> QED BY <2>2, <2>3 DEF redis
<1> QED BY <1>1, <1>2, <1>3, <1>4, <1>5

LEMMA BreakerType ==
  ASSUME TypeOK, NEW e \in Endpoints, Trip(e) \/ CoolDown(e)
  PROVE  TypeOK'
<1>1. breaker[e] \in [opened : 0..MaxTrips, cooling : BOOLEAN] /\ MaxTrips \in Nat
  BY EngineAssumption DEF TypeOK
<1>2. CASE Trip(e)
  <2>1. breaker' = [breaker EXCEPT ![e] = [opened |-> breaker[e].opened + 1, cooling |-> TRUE]]
    BY <1>2 DEF Trip
  <2>2. breaker[e].opened + 1 \in 0..MaxTrips
    BY <1>1, <1>2 DEF Trip
  <2> QED BY <1>2, <2>1, <2>2 DEF TypeOK, Trip, redis
<1>3. CASE CoolDown(e)
  BY <1>3 DEF TypeOK, CoolDown, redis
<1> QED BY <1>2, <1>3

\* The engine's variables keep their types, and no slot or pending entry ever
\* points outside the stream.
THEOREM TypeCorrect == Spec => []TypeOK
<1>1. TypeOK /\ [Next]_vars => TypeOK'
  <2> SUFFICES ASSUME TypeOK, [Next]_vars PROVE TypeOK'
    OBVIOUS
  <2>1. CASE UNCHANGED vars
    BY <2>1 DEF vars, TypeOK
  <2>2. CASE Next
    BY <2>2, RelayType, WorkType, SchedulerType, ReplayType, BreakerType DEF Next
  <2> QED BY <2>1, <2>2
<1> QED BY <1>1, InitType, PTL DEF Spec

-----------------------------------------------------------------------------
(***************************************************************************)
(* What a delivery's state says of the attempts that were logged.  Neither *)
(* invariant is inductive: whether an attempt is the last one was decided  *)
(* from a row that may be long out of date, and the count it writes is one *)
(* more than that of the row it selected, which another may have moved on  *)
(* since.  So IInv also bounds what every slot remembers by the attempts   *)
(* logged since.  That bound survives because the log only grows until the *)
(* row is gone, and a row that is gone never comes back.                   *)
(***************************************************************************)

\* A slot has selected nothing before its attempt has an outcome.
Blank ==
  \A w \in Workers : worker[w].phase \in {"idle", "got", "send"} => worker[w].row = NewRow("none")

LEMMA InitBlank == Init => Blank
BY DEF Init, Blank, IdleSlot

\* A slot that is left alone, emptied, or past its attempt's outcome.
LEMMA BlankStep ==
  ASSUME TypeOK, Blank, NEW w \in Workers, \A v \in Workers \ {w} : worker'[v] = worker[v],
         \/ worker'[w] = IdleSlot
         \/ worker'[w].phase \notin {"idle", "got", "send"}
         \/ worker[w].phase \in {"idle", "got", "send"} /\ worker'[w].row = worker[w].row
  PROVE  Blank'
<1>1. IdleSlot.row = NewRow("none")
  BY DEF IdleSlot
<1>2. worker'[w].phase \in {"idle", "got", "send"} => worker'[w].row = NewRow("none")
  BY <1>1 DEF Blank
<1>3. NewRow("none")' = NewRow("none")
  BY DEF NewRow
<1> QED BY <1>2, <1>3 DEF Blank

LEMMA NextBlank ==
  ASSUME TypeOK, Blank, [Next]_vars
  PROVE  Blank'
<1>1. CASE UNCHANGED worker
  BY <1>1 DEF Blank, NewRow
<1>2. ASSUME NEW w \in Workers, Work(w) \/ Abandon(w) PROVE Blank'
  <2>1. CASE Read(w) \/ Reclaim(w) \/ Load(w) \/ Send(w)
    <3>1. /\ \A v \in Workers \ {w} : worker'[v] = worker[v]
          /\ worker[w].phase \in {"idle", "got", "send"} /\ worker'[w].row = worker[w].row
      BY <2>1 DEF TypeOK, Slot, Read, Reclaim, Load, Send
    <3> QED BY <3>1, BlankStep
  <2>2. CASE Reselect(w)
    <3>1. /\ \A v \in Workers \ {w} : worker'[v] = worker[v]
          /\ worker'[w].phase \in {"defer", "ok", "failed"}
      BY <2>2 DEF TypeOK, Slot, Reselect
    <3> QED BY <3>1, BlankStep
  <2>3. CASE Defer(w) \/ Record(w)
    <3>1. \E row : worker' = [worker EXCEPT ![w].phase = After(row), ![w].row = row]
      BY <2>3 DEF Defer, Record
    <3>2. \A row : After(row) \in {"schedule", "ack"}
      BY DEF After
    <3>3. /\ \A v \in Workers \ {w} : worker'[v] = worker[v]
          /\ worker'[w].phase \in {"schedule", "ack"}
      BY <3>1, <3>2 DEF TypeOK, Slot
    <3> QED BY <3>3, BlankStep
  <2>4. CASE Schedule(w)
    <3>1. /\ \A v \in Workers \ {w} : worker'[v] = worker[v]
          /\ worker'[w].phase = "ack"
      BY <2>4 DEF TypeOK, Slot, Schedule
    <3> QED BY <3>1, BlankStep
  <2>5. CASE LoadMissing(w) \/ WriteMissing(w) \/ Ack(w) \/ Abandon(w)
    <3>1. worker' = [worker EXCEPT ![w] = IdleSlot]
      BY <2>5 DEF LoadMissing, WriteMissing, Ack, Abandon
    <3>2. worker'[w] = IdleSlot /\ \A v \in Workers \ {w} : worker'[v] = worker[v]
      BY <3>1 DEF TypeOK
    <3> QED BY <3>2, BlankStep
  <2> QED BY <1>2, <2>1, <2>2, <2>3, <2>4, <2>5 DEF Work
<1>3. CASE UNCHANGED vars
  BY <1>1, <1>3 DEF vars
<1>4. CASE Next
  BY <1>1, <1>2, <1>4
     DEF Next, RelayPublish, RelayCommit, RelayRollback, DeleteEndpoint, Trip, CoolDown,
         PopDue, Enqueue, SchedulerCrash, ReplayLoad, ReplaySelect, ReplayReset, ReplayEnqueue,
         ReplayFail
<1> QED BY <1>3, <1>4

Loaded == {"defer", "send", "ok", "failed"}

\* Every attempt the row counts was logged.
Counted == \A d \in Deliveries : rows[d].attempt_count <= attempts[d].logged

\* And so was every attempt before the one in hand, and every one the selected
\* row counts.
SnapsCounted ==
  \A w \in Workers : worker[w].phase \in Loaded =>
    \/ rows[Delivery(w)].state = "gone"
    \/ /\ worker[w].attempt_no <= attempts[Delivery(w)].logged + 1
       /\ worker[w].row.attempt_count <= attempts[Delivery(w)].logged

IInv == TypeOK /\ DeliveredEarned /\ DeadExhausted /\ Blank /\ Counted /\ SnapsCounted

\* No step takes back a logged attempt, but for a row that is gone for good.
LogKept ==
  \A d \in Deliveries :
    \/ rows'[d].state = "gone"
    \/ rows[d].state # "gone" /\ attempts'[d].logged >= attempts[d].logged

\* Nothing on the stream moves.
StreamKept == \A i \in 1..Len(stream) : stream'[i] = stream[i]

LEMMA AppendingKeeps ==
  ASSUME TypeOK, NEW m \in Message, XADD(m)
  PROVE  StreamKept
BY Appending DEF StreamKept

\* What a slot merely keeps stays within the log.
LEMMA SnapsKept ==
  ASSUME TypeOK, TypeOK', SnapsCounted, LogKept, StreamKept,
         NEW w \in Workers, worker'[w].phase \in Loaded,
         worker[w].phase \in Loaded,
         worker'[w].msg = worker[w].msg, worker'[w].row = worker[w].row,
         worker'[w].attempt_no = worker[w].attempt_no
  PROVE  \/ rows'[Delivery(w)'].state = "gone"
         \/ /\ worker'[w].attempt_no <= attempts'[Delivery(w)'].logged + 1
            /\ worker'[w].row.attempt_count <= attempts'[Delivery(w)'].logged
<1>1. Delivery(w) \in Deliveries /\ worker[w].msg \in 1..Len(stream) /\ worker[w] \in Slot
  BY BusySlot DEF Loaded
<1>2. Delivery(w)' = Delivery(w)
  BY <1>1 DEF Delivery, StreamKept
<1>3. /\ attempts[Delivery(w)].logged \in Nat /\ attempts'[Delivery(w)].logged \in Nat
      /\ worker[w].row.attempt_count \in Nat /\ worker[w].attempt_no \in Nat
  BY <1>1 DEF TypeOK, Slot, Row
<1> QED BY <1>1, <1>2, <1>3 DEF SnapsCounted, LogKept

\* Steps that leave the tables alone and load nothing.
LEMMA TablesAlone ==
  ASSUME IInv, TypeOK', Blank', UNCHANGED <<rows, attempts>>, StreamKept,
         \A w \in Workers : worker'[w].phase \in Loaded =>
           /\ worker[w].phase \in Loaded
           /\ worker'[w].msg = worker[w].msg
           /\ worker'[w].row = worker[w].row
           /\ worker'[w].attempt_no = worker[w].attempt_no
  PROVE  IInv'
<1>1. \A d \in Deliveries : attempts[d].logged \in Nat
  BY DEF IInv, TypeOK
<1>2. LogKept
  BY <1>1 DEF LogKept
<1>3. SnapsCounted'
  BY <1>2, SnapsKept DEF IInv, SnapsCounted
<1> QED BY <1>3 DEF IInv, DeliveredEarned, DeadExhausted, Counted

\* A row in a state of the fan-out, or after it, has counted nothing.
LEMMA FreshRow ==
  ASSUME NEW s \in {"open", "pending", "gone"}
  PROVE  NewRow(s).state = s /\ NewRow(s).attempt_count = 0
BY DEF NewRow

LEMMA InitIInv == Init => IInv
<1> SUFFICES ASSUME Init PROVE IInv
  OBVIOUS
<1>1. TypeOK
  BY InitType
<1>2. \A w \in Workers : worker[w].phase = "idle"
  BY IdleSlotType DEF Init
<1> QED BY <1>1, <1>2, InitBlank
        DEF Init, IInv, DeliveredEarned, DeadExhausted, Counted, SnapsCounted, Loaded, NewRow

LEMMA RelayIInv ==
  ASSUME IInv, TypeOK', Blank',
         (\E d \in Deliveries : RelayPublish(d)) \/ RelayCommit \/ RelayRollback
           \/ \E e \in Endpoints : DeleteEndpoint(e)
  PROVE  IInv'
<1> DEFINE Kept(d) == rows'[d] = rows[d] /\ attempts'[d] = attempts[d]
           Reset(d) == /\ rows'[d].state \in {"open", "pending", "gone"}
                       /\ rows'[d].attempt_count = 0
                       /\ \/ rows'[d].state = "gone"
                          \/ rows[d].state # "gone" /\ attempts'[d] = attempts[d]
<1>1. \A d \in Deliveries : Kept(d) \/ Reset(d)
  <2> SUFFICES ASSUME NEW d \in Deliveries PROVE Kept(d) \/ Reset(d)
    OBVIOUS
  <2>1. ASSUME NEW c \in Deliveries, RelayPublish(c) PROVE Kept(d) \/ Reset(d)
    BY <2>1, FreshRow DEF RelayPublish, IInv, TypeOK
  <2>2. CASE RelayCommit
    BY <2>2, FreshRow DEF RelayCommit, Open, IInv, TypeOK
  <2>3. CASE RelayRollback
    BY <2>3, FreshRow DEF RelayRollback, Open, IInv, TypeOK
  <2>4. ASSUME NEW e \in Endpoints, DeleteEndpoint(e) PROVE Kept(d) \/ Reset(d)
    BY <2>4, FreshRow DEF DeleteEndpoint, IInv, TypeOK
  <2> QED BY <2>1, <2>2, <2>3, <2>4
<1>2. StreamKept /\ UNCHANGED worker
  BY AppendingKeeps
     DEF RelayPublish, RelayCommit, RelayRollback, DeleteEndpoint, redis, Message, StreamKept,
         IInv
<1> DEFINE Log(d) == attempts[d].logged \in Nat /\ attempts'[d].logged \in Nat
<1>3. \A d \in Deliveries : Log(d)
  BY DEF IInv, TypeOK
<1>4. LogKept
  BY <1>1, <1>3 DEF LogKept
<1>5. SnapsCounted'
  BY <1>2, <1>4, SnapsKept DEF IInv, SnapsCounted
<1>6. DeliveredEarned' /\ DeadExhausted' /\ Counted'
  BY <1>1, <1>3 DEF IInv, DeliveredEarned, DeadExhausted, Counted
<1> QED BY <1>5, <1>6 DEF IInv

\* A transaction of the worker w that writes the row of its delivery d, with at
\* least the attempts logged before, and leaves its slot past the sending.
LEMMA WriteIInv ==
  ASSUME IInv, TypeOK', Blank', NEW w \in Workers, NEW d \in Deliveries,
         Committed(d),
         \A c \in Deliveries \ {d} : rows'[c] = rows[c] /\ attempts'[c] = attempts[c],
         attempts'[d].logged >= attempts[d].logged,
         rows'[d].attempt_count <= attempts'[d].logged,
         rows'[d].state = "delivered" => attempts'[d].ok,
         rows'[d].state = "dead" => attempts'[d].logged >= MaxAttempts,
         \A v \in Workers \ {w} : worker'[v] = worker[v],
         worker'[w].phase \notin Loaded,
         UNCHANGED stream
  PROVE  IInv'
<1>1. LogKept
  <2>1. rows[d].state # "gone"
    BY DEF Committed, DeliveryState
  <2>2. \A c \in Deliveries : attempts[c].logged \in Nat
    BY DEF IInv, TypeOK
  <2> QED BY <2>1, <2>2 DEF LogKept
<1>2. SnapsCounted'
  <2>1. StreamKept
    BY DEF StreamKept
  <2> QED BY <1>1, <2>1, SnapsKept DEF IInv, SnapsCounted
<1>3. DeliveredEarned' /\ DeadExhausted' /\ Counted'
  BY DEF IInv, DeliveredEarned, DeadExhausted, Counted
<1> QED BY <1>2, <1>3 DEF IInv

LEMMA DeferIInv ==
  ASSUME IInv, TypeOK', Blank', NEW w \in Workers, Defer(w)
  PROVE  IInv'
<1> DEFINE d == Delivery(w)
           selected == worker[w].row
           new == reschedule(selected, worker[w].until)
           row == Flush(selected, new, rows[d])
<1>1. d \in Deliveries /\ worker[w] \in Slot
  BY BusySlot DEF IInv, Defer
<1>2. selected \in Row /\ new.state = "retrying" /\ new.attempt_count = selected.attempt_count
  BY <1>1 DEF Slot, reschedule, Row
<1>3. row.attempt_count = rows[d].attempt_count /\ row.state \in {"retrying", rows[d].state}
  BY <1>2 DEF Flush
<1>4. /\ Committed(d)
      /\ rows' = [rows EXCEPT ![d] = row]
      /\ worker' = [worker EXCEPT ![w].phase = After(row), ![w].row = row]
      /\ UNCHANGED <<attempts, stream>>
  BY DEF Defer, redis
<1>5. After(row) \notin Loaded
  BY DEF After, Loaded
<1> HIDE DEF row, d
<1>6. rows'[d] = row /\ \A c \in Deliveries \ {d} : rows'[c] = rows[c]
  BY <1>1, <1>4 DEF IInv, TypeOK
<1>7. worker'[w].phase \notin Loaded /\ \A v \in Workers \ {w} : worker'[v] = worker[v]
  BY <1>1, <1>4, <1>5 DEF IInv, TypeOK, Slot
<1>8. attempts[d].logged \in Nat
  BY <1>1 DEF IInv, TypeOK
<1>9. /\ rows'[d].attempt_count <= attempts'[d].logged
      /\ rows'[d].state = "delivered" => attempts'[d].ok
      /\ rows'[d].state = "dead" => attempts'[d].logged >= MaxAttempts
  BY <1>1, <1>3, <1>4, <1>6 DEF IInv, Counted, DeliveredEarned, DeadExhausted
<1>10. /\ Committed(d) /\ UNCHANGED stream
       /\ attempts'[d].logged >= attempts[d].logged
       /\ \A c \in Deliveries \ {d} : rows'[c] = rows[c] /\ attempts'[c] = attempts[c]
  BY <1>4, <1>6, <1>8
<1> QED BY <1>1, <1>7, <1>9, <1>10, WriteIInv, Zenon

\* The step that matters: the outcome, decided from the row loaded before the
\* request and computed from the row selected after it, is merged into a row that
\* other attempts or a replay have moved on.
LEMMA RecordIInv ==
  ASSUME IInv, TypeOK', Blank', NEW w \in Workers, Record(w)
  PROVE  IInv'
<1> DEFINE d == Delivery(w)
           selected == worker[w].row
           success == worker[w].phase = "ok"
           n == worker[w].attempt_no
           new == Outcome(selected, n, success)
           row == Flush(selected, new, rows[d])
<1>1. d \in Deliveries /\ worker[w] \in Slot /\ selected \in Row /\ n \in Nat
  BY BusySlot DEF IInv, Record, Slot
<1>2. /\ Committed(d)
      /\ rows' = [rows EXCEPT ![d] = row]
      /\ attempts' = [attempts EXCEPT ![d].logged = @ + 1, ![d].ok = @ \/ success]
      /\ worker' = [worker EXCEPT ![w].phase = After(row), ![w].row = row]
      /\ UNCHANGED stream
  BY DEF Record, redis
<1>3. /\ attempts[d].logged \in Nat
      /\ attempts'[d].logged = attempts[d].logged + 1
      /\ attempts'[d].ok = (attempts[d].ok \/ success)
      /\ \A c \in Deliveries \ {d} : attempts'[c] = attempts[c]
  <2>1. attempts \in [Deliveries -> [logged : Nat, ok : BOOLEAN]]
    BY DEF IInv, TypeOK
  <2>2. attempts'[d] = [attempts[d] EXCEPT !.logged = @ + 1, !.ok = @ \/ success]
    BY <1>1, <1>2, <2>1
  <2>3. \A c \in Deliveries \ {d} : attempts'[c] = attempts[c]
    BY <1>2, <2>1
  <2>4. attempts[d] \in [logged : Nat, ok : BOOLEAN]
    BY <1>1, <2>1
  <2> HIDE DEF d, success
  <2> QED BY <2>2, <2>3, <2>4
<1>4. selected.attempt_count <= attempts[d].logged /\ n <= attempts[d].logged + 1
  BY <1>2 DEF IInv, SnapsCounted, Record, Loaded, Committed, DeliveryState
<1>5. /\ new.attempt_count = selected.attempt_count + 1
      /\ new.state = "delivered" => success
      /\ new.state = "dead" => n >= MaxAttempts
  BY <1>1, OutcomeFacts
<1>6. /\ row.attempt_count = selected.attempt_count + 1
      /\ row.state \in {new.state, rows[d].state}
  BY <1>1, <1>5 DEF Flush, Row
<1>7. After(row) \notin Loaded
  BY DEF After, Loaded
<1>8. selected.attempt_count \in Nat /\ n \in Nat /\ MaxAttempts \in Nat
  BY <1>1, EngineAssumption DEF Row, Slot
<1> HIDE DEF row, d, new, n, selected, success
<1>9. rows'[d] = row /\ \A c \in Deliveries \ {d} : rows'[c] = rows[c]
  BY <1>1, <1>2 DEF IInv, TypeOK
<1>10. worker'[w].phase \notin Loaded /\ \A v \in Workers \ {w} : worker'[v] = worker[v]
  BY <1>1, <1>2, <1>7 DEF IInv, TypeOK, Slot
<1>11. rows'[d].attempt_count <= attempts'[d].logged
  BY <1>3, <1>4, <1>6, <1>8, <1>9
<1>12. rows'[d].state = "delivered" => attempts'[d].ok
  BY <1>1, <1>3, <1>5, <1>6, <1>9, Zenon DEF IInv, DeliveredEarned
<1>13. rows'[d].state = "dead" => attempts'[d].logged >= MaxAttempts
  BY <1>1, <1>3, <1>4, <1>5, <1>6, <1>8, <1>9 DEF IInv, DeadExhausted
<1>14. attempts'[d].logged >= attempts[d].logged
  BY <1>3
<1> QED BY <1>1, <1>2, <1>3, <1>9, <1>10, <1>11, <1>12, <1>13, <1>14, WriteIInv, Zenon


LEMMA WorkIInv ==
  ASSUME IInv, TypeOK', Blank', NEW w \in Workers, Work(w) \/ Abandon(w)
  PROVE  IInv'
<1>1. CASE Load(w) \/ Reselect(w)
  <2> DEFINE d == Delivery(w)
  <2>1. d \in Deliveries /\ worker[w] \in Slot
    BY <1>1, BusySlot DEF IInv, Load, Reselect
  <2>2. /\ worker'[w].msg = worker[w].msg
        /\ \A v \in Workers \ {w} : worker'[v] = worker[v]
        /\ UNCHANGED <<rows, attempts, stream>>
    BY <1>1, <2>1 DEF Load, Reselect, IInv, TypeOK, Slot, redis
  <2>3. Delivery(w)' = d
    BY <2>2 DEF Delivery
  <2>4. \A v \in Workers \ {w} : Delivery(v)' = Delivery(v)
    BY <2>2 DEF Delivery
  <2>5. attempts[d].logged \in Nat /\ rows[d].attempt_count \in Nat
    BY <2>1 DEF IInv, TypeOK, Row
  <2>6. \/ rows[d].state = "gone"
        \/ /\ worker'[w].attempt_no <= attempts[d].logged + 1
           /\ worker'[w].row.attempt_count <= attempts[d].logged
    <3>1. CASE Load(w)
      <4>1. worker'[w].attempt_no = rows[d].attempt_count + 1 /\ worker'[w].row = worker[w].row
        BY <2>1, <3>1 DEF Load, IInv, TypeOK, Slot
      <4>2. worker[w].row.attempt_count = 0
        BY <3>1 DEF Load, IInv, Blank, NewRow
      <4> HIDE DEF d
      <4> QED BY <2>1, <2>5, <4>1, <4>2 DEF IInv, Counted
    <3>2. CASE Reselect(w)
      <4>1. worker'[w].row = rows[d] /\ worker'[w].attempt_no = worker[w].attempt_no
        BY <2>1, <3>2 DEF Reselect, IInv, TypeOK, Slot
      <4>2. worker[w].phase \in Loaded
        BY <3>2 DEF Reselect, Loaded
      <4>3. rows[d].state = "gone" \/ worker[w].attempt_no <= attempts[d].logged + 1
        BY <4>2 DEF IInv, SnapsCounted
      <4> HIDE DEF d
      <4> QED BY <2>1, <4>1, <4>3 DEF IInv, Counted
    <3> QED BY <1>1, <3>1, <3>2
  <2>7. SnapsCounted'
    BY <2>1, <2>2, <2>3, <2>4, <2>6 DEF IInv, SnapsCounted
  <2> QED BY <2>2, <2>7 DEF IInv, DeliveredEarned, DeadExhausted, Counted
<1>2. CASE Defer(w)
  BY <1>2, DeferIInv
<1>3. CASE Record(w)
  BY <1>3, RecordIInv
<1>4. CASE Read(w) \/ Reclaim(w) \/ Send(w) \/ Schedule(w)
  <2>1. StreamKept /\ UNCHANGED <<rows, attempts>>
    BY <1>4 DEF Read, Reclaim, Send, Schedule, redis, StreamKept
  <2>2. /\ \A v \in Workers \ {w} : worker'[v] = worker[v]
        /\ worker'[w].phase \in Loaded =>
             /\ worker[w].phase \in Loaded
             /\ worker'[w].msg = worker[w].msg
             /\ worker'[w].row = worker[w].row
             /\ worker'[w].attempt_no = worker[w].attempt_no
    <3>1. CASE Read(w)
      BY <3>1 DEF IInv, TypeOK, Slot, Read, Loaded
    <3>2. CASE Reclaim(w)
      BY <3>2 DEF IInv, TypeOK, Slot, Reclaim, Loaded
    <3>3. CASE Send(w)
      BY <3>3 DEF IInv, TypeOK, Slot, Send, Loaded
    <3>4. CASE Schedule(w)
      BY <3>4 DEF IInv, TypeOK, Slot, Schedule, Loaded
    <3> QED BY <1>4, <3>1, <3>2, <3>3, <3>4
  <2> QED BY <2>1, <2>2, TablesAlone
<1>5. CASE LoadMissing(w) \/ WriteMissing(w) \/ Ack(w) \/ Abandon(w)
  <2>1. StreamKept /\ UNCHANGED <<rows, attempts>>
    BY <1>5 DEF LoadMissing, WriteMissing, Ack, Abandon, redis, StreamKept
  <2>2. worker' = [worker EXCEPT ![w] = IdleSlot]
    BY <1>5 DEF LoadMissing, WriteMissing, Ack, Abandon
  <2>3. IdleSlot.phase \notin Loaded
    BY IdleSlotType DEF Loaded
  <2>4. \A v \in Workers : worker'[v].phase \in Loaded => worker'[v] = worker[v]
    BY <2>2, <2>3 DEF IInv, TypeOK
  <2> QED BY <2>1, <2>4, TablesAlone
<1> QED BY <1>1, <1>2, <1>3, <1>4, <1>5 DEF Work

LEMMA SchedulerIInv ==
  ASSUME IInv, TypeOK', Blank', PopDue \/ Enqueue \/ SchedulerCrash
  PROVE  IInv'
<1>1. StreamKept
  BY AppendingKeeps DEF IInv, TypeOK, PopDue, Enqueue, SchedulerCrash, StreamKept
<1> QED BY <1>1, TablesAlone DEF PopDue, Enqueue, SchedulerCrash

LEMMA ReplayIInv ==
  ASSUME IInv, TypeOK', Blank', NEW r \in Replayers,
         ReplayLoad(r) \/ ReplaySelect(r) \/ ReplayReset(r) \/ ReplayEnqueue(r) \/ ReplayFail(r)
  PROVE  IInv'
<1>1. CASE ReplayLoad(r) \/ ReplaySelect(r) \/ ReplayEnqueue(r) \/ ReplayFail(r)
  <2>1. UNCHANGED <<rows, attempts, worker>>
    BY <1>1 DEF ReplayLoad, ReplaySelect, ReplayEnqueue, ReplayFail
  <2>2. StreamKept
    <3>1. CASE ReplayEnqueue(r)
      <4>1. [delivery |-> replayer[r].delivery, corr |-> FALSE] \in Message
        BY DEF IInv, TypeOK, Request, Message
      <4> QED BY <3>1, <4>1, AppendingKeeps DEF ReplayEnqueue, IInv
    <3>2. CASE ReplayLoad(r) \/ ReplaySelect(r) \/ ReplayFail(r)
      BY <3>2 DEF ReplayLoad, ReplaySelect, ReplayFail, redis, StreamKept
    <3> QED BY <1>1, <3>1, <3>2
  <2> QED BY <2>1, <2>2, TablesAlone
<1>2. CASE ReplayReset(r)
  <2> DEFINE d == replayer[r].delivery
             selected == replayer[r].row
             row == Flush(selected, reset_for_replay(selected), rows[d])
  <2>1. d \in Deliveries
    BY DEF IInv, TypeOK, Request
  <2>2. row.attempt_count \in {0, rows[d].attempt_count} /\ row.state \in {"pending", rows[d].state}
    BY DEF Flush, reset_for_replay, NewRow
  <2>3. /\ Committed(d)
        /\ rows' = [rows EXCEPT ![d] = row]
        /\ UNCHANGED <<attempts, worker, stream>>
    BY <1>2 DEF ReplayReset, redis
  <2> HIDE DEF row, d
  <2>4. rows'[d] = row /\ \A c \in Deliveries \ {d} : rows'[c] = rows[c]
    BY <2>1, <2>3 DEF IInv, TypeOK
  <2>5. \A c \in Deliveries : attempts[c].logged \in Nat
    BY DEF IInv, TypeOK
  <2>6. rows[d].state # "gone"
    BY <2>3 DEF Committed, DeliveryState
  <2>7. LogKept
    BY <2>3, <2>4, <2>5, <2>6 DEF LogKept
  <2>8. SnapsCounted'
    <3>1. StreamKept
      BY <2>3 DEF StreamKept
    <3> QED BY <2>3, <2>7, <3>1, SnapsKept DEF IInv, SnapsCounted
  <2>9. DeliveredEarned' /\ DeadExhausted' /\ Counted'
    BY <2>1, <2>2, <2>3, <2>4, <2>5 DEF IInv, DeliveredEarned, DeadExhausted, Counted
  <2> QED BY <2>8, <2>9 DEF IInv
<1> QED BY <1>1, <1>2

LEMMA BreakerIInv ==
  ASSUME IInv, TypeOK', Blank', NEW e \in Endpoints, Trip(e) \/ CoolDown(e)
  PROVE  IInv'
<1>1. StreamKept /\ UNCHANGED <<rows, attempts, worker>>
  BY DEF Trip, CoolDown, redis, StreamKept
<1> QED BY <1>1, TablesAlone

LEMMA NextIInv ==
  ASSUME IInv, TypeOK', Blank', [Next]_vars
  PROVE  IInv'
<1>1. CASE UNCHANGED vars
  <2>1. StreamKept /\ UNCHANGED <<rows, attempts, worker>>
    BY <1>1 DEF vars, StreamKept
  <2> QED BY <2>1, TablesAlone
<1>2. CASE Next
  BY <1>2, RelayIInv, WorkIInv, SchedulerIInv, ReplayIInv, BreakerIInv DEF Next
<1> QED BY <1>1, <1>2

THEOREM Invariance == Spec => []IInv
<1>1. IInv /\ TypeOK' /\ [Next]_vars => IInv'
  BY NextIInv, NextBlank DEF IInv
<1> QED BY <1>1, InitIInv, TypeCorrect, PTL DEF Spec

\* A delivery reported delivered has a logged 2xx attempt, although the columns
\* of racing attempts, replays and deferrals are merged one by one.
THEOREM DeliveredIsEarned == Spec => []DeliveredEarned
<1>1. IInv => DeliveredEarned
  BY DEF IInv
<1> QED BY <1>1, Invariance, PTL

\* A delivery in the DLQ has had all of its attempts, although attempts work
\* from stale counts and messages are duplicated, deferred and abandoned.
THEOREM DeadIsExhausted == Spec => []DeadExhausted
<1>1. IInv => DeadExhausted
  BY DEF IInv
<1> QED BY <1>1, Invariance, PTL

-----------------------------------------------------------------------------
(* What a step may do to a delivery and to its history. *)

\* While the delivery is there, no attempt of it is unlogged and no success is
\* taken back; it ends, delivered or dead, only in the transaction that logs the
\* attempt it ended with, which got the answer that this end stands for.
HistoryStep ==
  \A d \in Deliveries : rows'[d].state # "gone" =>
    /\ rows[d].state # "gone"
    /\ attempts'[d].logged >= attempts[d].logged /\ (attempts[d].ok => attempts'[d].ok)
    /\ rows'[d].state \in {"delivered", "dead"} /\ rows'[d].state # rows[d].state =>
         /\ attempts'[d].logged = attempts[d].logged + 1
         /\ \E w \in Workers :
              /\ worker[w].phase = IF rows'[d].state = "delivered" THEN "ok" ELSE "failed"
              /\ Delivery(w) = d

\* A delivery that is left as it is, that loses its row, or that a step other
\* than Record moves, but not to an end.
Quiet(d) ==
  \/ rows'[d].state = "gone"
  \/ /\ rows[d].state # "gone"
     /\ attempts'[d] = attempts[d]
     /\ rows'[d].state \in {"delivered", "dead"} => rows'[d].state = rows[d].state

LEMMA QuietStep ==
  ASSUME TypeOK, \A d \in Deliveries : Quiet(d)
  PROVE  HistoryStep
<1>1. \A d \in Deliveries : attempts[d].logged \in Nat
  BY DEF TypeOK
<1> QED BY <1>1 DEF Quiet, HistoryStep

\* A row that is gone stays as it is.
LEMMA SameIsQuiet ==
  ASSUME NEW d \in Deliveries, rows'[d] = rows[d], attempts'[d] = attempts[d]
  PROVE  Quiet(d)
BY DEF Quiet

LEMMA RelayHistory ==
  ASSUME TypeOK,
         (\E d \in Deliveries : RelayPublish(d)) \/ RelayCommit \/ RelayRollback
           \/ \E e \in Endpoints : DeleteEndpoint(e)
  PROVE  HistoryStep
<1> SUFFICES ASSUME NEW d \in Deliveries PROVE Quiet(d)
  BY QuietStep
<1>1. ASSUME NEW c \in Deliveries, RelayPublish(c) PROVE Quiet(d)
  BY <1>1, FreshRow DEF RelayPublish, TypeOK, Quiet
<1>2. CASE RelayCommit
  BY <1>2, FreshRow DEF RelayCommit, Open, TypeOK, Quiet
<1>3. CASE RelayRollback
  BY <1>3, FreshRow DEF RelayRollback, Open, TypeOK, Quiet
<1>4. ASSUME NEW e \in Endpoints, DeleteEndpoint(e) PROVE Quiet(d)
  BY <1>4, FreshRow DEF DeleteEndpoint, TypeOK, Quiet
<1> QED BY <1>1, <1>2, <1>3, <1>4

\* A deferral writes "retrying" or leaves the state alone, a replay "pending".
LEMMA RowHistory ==
  ASSUME TypeOK, NEW d \in Deliveries, NEW row, Committed(d),
         rows' = [rows EXCEPT ![d] = row], UNCHANGED attempts,
         row.state \in {"retrying", "pending", rows[d].state}
  PROVE  HistoryStep
<1>1. rows'[d] = row /\ \A c \in Deliveries \ {d} : rows'[c] = rows[c]
  BY DEF TypeOK
<1>2. rows[d].state # "gone"
  BY DEF Committed, DeliveryState
<1>3. Quiet(d)
  BY <1>1, <1>2 DEF Quiet
<1>4. \A c \in Deliveries : Quiet(c)
  BY <1>1, <1>3, SameIsQuiet
<1> QED BY <1>4, QuietStep

LEMMA DeferHistory ==
  ASSUME TypeOK, NEW w \in Workers, Defer(w)
  PROVE  HistoryStep
<1> DEFINE d == Delivery(w)
           selected == worker[w].row
           row == Flush(selected, reschedule(selected, worker[w].until), rows[d])
<1>1. d \in Deliveries /\ worker[w] \in Slot
  BY BusySlot DEF Defer
<1>2. row.state \in {"retrying", rows[d].state}
  BY <1>1 DEF Slot, reschedule, Row, Flush
<1>3. Committed(d) /\ rows' = [rows EXCEPT ![d] = row] /\ UNCHANGED attempts
  BY DEF Defer
<1> HIDE DEF row, d
<1> QED BY <1>1, <1>2, <1>3, RowHistory

LEMMA ResetHistory ==
  ASSUME TypeOK, NEW r \in Replayers, ReplayReset(r)
  PROVE  HistoryStep
<1> DEFINE d == replayer[r].delivery
           selected == replayer[r].row
           row == Flush(selected, reset_for_replay(selected), rows[d])
<1>1. d \in Deliveries
  BY DEF TypeOK, Request
<1>2. row.state \in {"pending", rows[d].state}
  BY DEF Flush, reset_for_replay, NewRow
<1>3. Committed(d) /\ rows' = [rows EXCEPT ![d] = row] /\ UNCHANGED attempts
  BY DEF ReplayReset
<1> HIDE DEF row, d
<1> QED BY <1>1, <1>2, <1>3, RowHistory

\* The one step that ends a delivery logs the attempt that ends it.
LEMMA RecordHistory ==
  ASSUME TypeOK, NEW w \in Workers, Record(w)
  PROVE  HistoryStep
<1> DEFINE d == Delivery(w)
           selected == worker[w].row
           success == worker[w].phase = "ok"
           new == Outcome(selected, worker[w].attempt_no, success)
           row == Flush(selected, new, rows[d])
<1>1. d \in Deliveries /\ selected \in Row /\ worker[w].phase \in {"ok", "failed"}
  BY BusySlot DEF Record, Slot
<1>2. /\ Committed(d)
      /\ rows' = [rows EXCEPT ![d] = row]
      /\ attempts' = [attempts EXCEPT ![d].logged = @ + 1, ![d].ok = @ \/ success]
  BY DEF Record
<1>3. new.state = "delivered" <=> success
  BY DEF Outcome, mark_delivered, mark_dead, mark_retrying, Attempted
<1>4. row.state \in {new.state, rows[d].state}
  BY DEF Flush
<1>5. attempts \in [Deliveries -> [logged : Nat, ok : BOOLEAN]]
  BY DEF TypeOK
<1> HIDE DEF row, d, new
<1>6. rows'[d] = row /\ \A c \in Deliveries \ {d} : rows'[c] = rows[c]
  BY <1>1, <1>2 DEF TypeOK
<1>7. /\ attempts[d].logged \in Nat
      /\ attempts'[d].logged = attempts[d].logged + 1
      /\ attempts[d].ok => attempts'[d].ok
      /\ \A c \in Deliveries \ {d} : attempts'[c] = attempts[c]
  <2>1. attempts'[d] = [attempts[d] EXCEPT !.logged = @ + 1, !.ok = @ \/ success]
    BY <1>1, <1>2, <1>5
  <2>2. \A c \in Deliveries \ {d} : attempts'[c] = attempts[c]
    BY <1>2, <1>5
  <2>3. attempts[d] \in [logged : Nat, ok : BOOLEAN]
    BY <1>1, <1>5
  <2> HIDE DEF success
  <2> QED BY <2>1, <2>2, <2>3
<1>8. rows[d].state # "gone"
  BY <1>2 DEF Committed, DeliveryState
<1>9. \A c \in Deliveries : attempts[c].logged \in Nat
  BY <1>5
<1> SUFFICES ASSUME NEW c \in Deliveries, rows'[c].state # "gone"
             PROVE  /\ rows[c].state # "gone"
                    /\ attempts'[c].logged >= attempts[c].logged
                    /\ attempts[c].ok => attempts'[c].ok
                    /\ rows'[c].state \in {"delivered", "dead"} /\ rows'[c].state # rows[c].state =>
                         /\ attempts'[c].logged = attempts[c].logged + 1
                         /\ \E v \in Workers :
                              /\ worker[v].phase = IF rows'[c].state = "delivered" THEN "ok" ELSE "failed"
                              /\ Delivery(v) = c
  BY DEF HistoryStep
<1>10. CASE c # d
  BY <1>6, <1>7, <1>9, <1>10
<1>11. CASE c = d
  <2>1. attempts'[d].logged >= attempts[d].logged
    BY <1>7
  <2>2. rows'[d].state \in {"delivered", "dead"} /\ rows'[d].state # rows[d].state =>
          worker[w].phase = IF rows'[d].state = "delivered" THEN "ok" ELSE "failed"
    BY <1>1, <1>3, <1>4, <1>6
  <2>3. Delivery(w) = d
    BY DEF d
  <2> QED BY <1>7, <1>8, <1>11, <2>1, <2>2, <2>3, Zenon
<1> QED BY <1>10, <1>11

\* No race of attempts, deferrals, replays and deletions, and no crash, loses a
\* line of a delivery's history or ends a delivery behind its history's back:
\* attempt() logs and moves the row in one transaction.
THEOREM HistoryIsKept == Spec => [][HistoryStep]_vars
<1>1. TypeOK /\ [Next]_vars => [HistoryStep]_vars
  <2> SUFFICES ASSUME TypeOK, Next PROVE HistoryStep
    OBVIOUS
  <2>1. CASE UNCHANGED <<rows, attempts>>
    BY <2>1, SameIsQuiet, QuietStep
  <2>2. ASSUME NEW w \in Workers, Work(w) \/ Abandon(w) PROVE HistoryStep
    <3>1. CASE Defer(w)
      BY <3>1, DeferHistory
    <3>2. CASE Record(w)
      BY <3>2, RecordHistory
    <3> QED BY <2>1, <2>2, <3>1, <3>2
            DEF Work, Read, Reclaim, Load, LoadMissing, Send, Reselect, WriteMissing, Schedule, Ack,
                Abandon
  <2>3. ASSUME NEW r \in Replayers,
               ReplayLoad(r) \/ ReplaySelect(r) \/ ReplayReset(r) \/ ReplayEnqueue(r) \/ ReplayFail(r)
        PROVE  HistoryStep
    BY <2>1, <2>3, ResetHistory DEF ReplayLoad, ReplaySelect, ReplayEnqueue, ReplayFail
  <2>4. CASE PopDue \/ Enqueue \/ SchedulerCrash
    BY <2>1, <2>4 DEF PopDue, Enqueue, SchedulerCrash
  <2>5. ASSUME NEW e \in Endpoints, Trip(e) \/ CoolDown(e) PROVE HistoryStep
    BY <2>1, <2>5 DEF Trip, CoolDown
  <2> QED BY <2>2, <2>3, <2>4, <2>5, RelayHistory DEF Next
<1> QED BY <1>1, TypeCorrect, PTL DEF Spec

-----------------------------------------------------------------------------
(***************************************************************************)
(* LiveChain and the refinement of AtLeastOnce, for any deliveries,        *)
(* endpoints, workers and replays, when the five windows are closed.       *)
(***************************************************************************)

\* The windows in which the code can strand a delivery (see the README).
WindowsClosed ==
  /\ IdleMeansDead
  /\ CommitFirst
  /\ PromptWrites
  /\ ~SchedulerCrashes
  /\ ~ReplayCrashes

-----------------------------------------------------------------------------
(* Between a SELECT and its UPDATE: with PromptWrites, whoever has selected  *)
(* a row is the only one to write it, so the row is still the one selected,  *)
(* or it was deleted, and what is committed is what the writer meant.        *)

Selecting(r) == replayer[r].phase = "selected"

\* A row has one writer at a time.
OneWriter ==
  /\ \A v, w \in Workers : Selected(v) /\ Selected(w) /\ Delivery(v) = Delivery(w) => v = w
  /\ \A q, r \in Replayers :
       Selecting(q) /\ Selecting(r) /\ replayer[q].delivery = replayer[r].delivery => q = r
  /\ \A w \in Workers, r \in Replayers :
       Selected(w) /\ Selecting(r) => Delivery(w) # replayer[r].delivery

Reads(row, d) == rows[d].state = "gone" \/ (Committed(d) /\ row = rows[d])

\* A row that was selected is there unchanged, or gone.
Current ==
  /\ \A w \in Workers : Selected(w) => Reads(worker[w].row, Delivery(w))
  /\ \A r \in Replayers : Selecting(r) => Reads(replayer[r].row, replayer[r].delivery)

WriterInv == OneWriter /\ Current

\* The step leaves the row of d alone, deletes it, or is that of its only writer.
Undisturbed(d) ==
  \/ rows'[d] = rows[d]
  \/ rows'[d].state = "gone"
  \/ /\ \A w \in Workers : Selected(w)' => Delivery(w) # d
     /\ \A r \in Replayers : Selecting(r)' => replayer[r].delivery # d

\* Nobody selects a row.
LEMMA WritersKept ==
  ASSUME TypeOK, WriterInv, StreamKept,
         \A w \in Workers : Selected(w)' =>
           /\ Selected(w)
           /\ worker'[w].msg = worker[w].msg
           /\ worker'[w].row = worker[w].row,
         \A r \in Replayers : Selecting(r)' => replayer'[r] = replayer[r],
         \A d \in Deliveries : Undisturbed(d)
  PROVE  WriterInv'
<1>1. ASSUME NEW w \in Workers, Selected(w)'
      PROVE  Selected(w) /\ Delivery(w)' = Delivery(w) /\ Delivery(w) \in Deliveries
  <2>1. Selected(w) /\ worker'[w].msg = worker[w].msg
    BY <1>1
  <2>2. worker[w].msg \in 1..Len(stream) /\ Delivery(w) \in Deliveries
    BY <2>1, BusySlot DEF Selected
  <2> QED BY <2>1, <2>2 DEF Delivery, StreamKept
<1>2. ASSUME NEW r \in Replayers, Selecting(r)'
      PROVE  Selecting(r) /\ replayer'[r].delivery = replayer[r].delivery /\ replayer[r].delivery \in Deliveries
  BY <1>2 DEF Selecting, TypeOK, Request
<1>3. OneWriter'
  BY <1>1, <1>2 DEF WriterInv, OneWriter
<1>4. ASSUME NEW d \in Deliveries, NEW row, Reads(row, d), rows'[d] = rows[d] \/ rows'[d].state = "gone"
      PROVE  rows'[d].state = "gone" \/ (Committed(d)' /\ row = rows'[d])
  BY <1>4 DEF Reads, Committed
<1>5. ASSUME NEW w \in Workers, Selected(w)'
      PROVE  Reads(worker[w].row, Delivery(w))'
  <2>1. Reads(worker[w].row, Delivery(w)) /\ worker'[w].row = worker[w].row
    BY <1>1, <1>5 DEF WriterInv, Current
  <2>2. Undisturbed(Delivery(w))
    BY <1>1, <1>5
  <2> QED BY <1>1, <1>4, <1>5, <2>1, <2>2 DEF Undisturbed, Reads, Committed
<1>6. ASSUME NEW r \in Replayers, Selecting(r)'
      PROVE  Reads(replayer[r].row, replayer[r].delivery)'
  <2>1. Reads(replayer[r].row, replayer[r].delivery) /\ replayer'[r] = replayer[r]
    BY <1>2, <1>6 DEF WriterInv, Current
  <2>2. Undisturbed(replayer[r].delivery)
    BY <1>2, <1>6
  <2> QED BY <1>2, <1>6, <2>1, <2>2 DEF Undisturbed, Reads, Committed
<1> QED BY <1>3, <1>5, <1>6 DEF WriterInv, Current

\* A selected row was found: its delivery is not one still to be fanned out.
LEMMA SelectedFound ==
  ASSUME WriterInv
  PROVE  /\ \A w \in Workers : Selected(w) => rows[Delivery(w)].state \notin {"none", "open"}
         /\ \A r \in Replayers : Selecting(r) => rows[replayer[r].delivery].state \notin {"none", "open"}
BY DEF WriterInv, Current, Reads, Committed, DeliveryState

LEMMA InitWriter == Init => WriterInv
BY IdleSlotType DEF Init, WriterInv, OneWriter, Current, Selected, Selecting

LEMMA RelayWriter ==
  ASSUME TypeOK, WriterInv,
         (\E d \in Deliveries : RelayPublish(d)) \/ RelayCommit \/ RelayRollback
           \/ \E e \in Endpoints : DeleteEndpoint(e)
  PROVE  WriterInv'
<1>1. UNCHANGED <<worker, replayer>>
  BY DEF RelayPublish, RelayCommit, RelayRollback, DeleteEndpoint
<1>2. StreamKept
  BY AppendingKeeps
     DEF RelayPublish, RelayCommit, RelayRollback, DeleteEndpoint, redis, Message, StreamKept
<1>3. ASSUME NEW d \in Deliveries PROVE Undisturbed(d)
  <2>1. \/ rows'[d] = rows[d] \/ rows'[d].state = "gone" \/ rows[d].state \in {"none", "open"}
    <3>1. ASSUME NEW c \in Deliveries, RelayPublish(c)
          PROVE  rows'[d] = rows[d] \/ rows[d].state \in {"none", "open"}
      BY <3>1 DEF RelayPublish, TypeOK
    <3>2. CASE RelayCommit
      BY <3>2 DEF RelayCommit, Open
    <3>3. CASE RelayRollback
      BY <3>3 DEF RelayRollback, Open
    <3>4. ASSUME NEW e \in Endpoints, DeleteEndpoint(e) PROVE rows'[d] = rows[d] \/ rows'[d].state = "gone"
      BY <3>4, FreshRow DEF DeleteEndpoint
    <3> QED BY <3>1, <3>2, <3>3, <3>4
  <2>2. rows[d].state \in {"none", "open"} =>
          /\ \A w \in Workers : Selected(w)' => Delivery(w) # d
          /\ \A r \in Replayers : Selecting(r)' => replayer[r].delivery # d
    BY <1>1, SelectedFound DEF Selected, Selecting
  <2> QED BY <2>1, <2>2 DEF Undisturbed
<1> QED BY <1>1, <1>2, <1>3, WritersKept DEF Selected, Selecting

\* The slot w ends a write, or has no row selected.
LEMMA SlotWriter ==
  ASSUME TypeOK, WriterInv, NEW w \in Workers,
         \A v \in Workers \ {w} : worker'[v] = worker[v],
         ~Selected(w)', UNCHANGED <<stream, replayer>>,
         \/ UNCHANGED rows
         \/ Selected(w) /\ \A d \in Deliveries \ {Delivery(w)} : rows'[d] = rows[d]
  PROVE  WriterInv'
<1>1. \A v \in Workers : Selected(v)' => v # w /\ Selected(v)
  BY DEF Selected
<1>2. ASSUME NEW d \in Deliveries PROVE Undisturbed(d)
  <2>1. CASE rows'[d] = rows[d]
    BY <2>1 DEF Undisturbed
  <2>2. CASE Selected(w) /\ d = Delivery(w)
    <3>1. \A v \in Workers : Selected(v)' => Delivery(v) # d
      BY <1>1, <2>2 DEF WriterInv, OneWriter
    <3>2. \A r \in Replayers : Selecting(r)' => replayer[r].delivery # d
      BY <2>2 DEF WriterInv, OneWriter, Selecting
    <3> QED BY <3>1, <3>2 DEF Undisturbed
  <2> QED BY <2>1, <2>2
<1>3. StreamKept
  BY DEF StreamKept
<1> QED BY <1>1, <1>2, <1>3, WritersKept DEF Selecting

LEMMA ReselectWriter ==
  ASSUME PromptWrites, TypeOK, WriterInv, NEW w \in Workers, Reselect(w)
  PROVE  WriterInv'
<1>1. PICK c \in Deliveries : Delivery(w) = c
  BY BusySlot DEF Reselect
<1>2. /\ worker' = [worker EXCEPT ![w].row = rows[c]] /\ ~Writing(c) /\ Committed(c)
      /\ UNCHANGED <<rows, stream, replayer>>
  BY <1>1 DEF Reselect, redis
<1>3. /\ worker'[w].row = rows[c] /\ worker'[w].msg = worker[w].msg
      /\ \A v \in Workers \ {w} : worker'[v] = worker[v]
  BY <1>2 DEF TypeOK, Slot
<1>4. /\ \A v \in Workers : Delivery(v)' = Delivery(v)
      /\ \A v \in Workers \ {w} : Selected(v)' => Selected(v)
      /\ \A r \in Replayers : Selecting(r)' => Selecting(r)
  BY <1>2, <1>3 DEF Delivery, Selected, Selecting
<1>5. /\ \A v \in Workers : Selected(v) => Delivery(v) # c
      /\ \A r \in Replayers : Selecting(r) => replayer[r].delivery # c
  BY <1>2 DEF Writing, Selecting
<1>6. OneWriter'
  <2>1. \A v, u \in Workers : Selected(v)' /\ Selected(u)' /\ Delivery(v)' = Delivery(u)' => v = u
    BY <1>1, <1>4, <1>5 DEF WriterInv, OneWriter
  <2>2. \A q, r \in Replayers :
          Selecting(q)' /\ Selecting(r)' /\ replayer'[q].delivery = replayer'[r].delivery => q = r
    BY <1>2, <1>4 DEF WriterInv, OneWriter
  <2>3. \A v \in Workers, r \in Replayers :
          Selected(v)' /\ Selecting(r)' => Delivery(v)' # replayer'[r].delivery
    BY <1>1, <1>2, <1>4, <1>5 DEF WriterInv, OneWriter
  <2> QED BY <2>1, <2>2, <2>3 DEF OneWriter
<1>7. Current'
  <2>1. \A v \in Workers : Selected(v)' => Reads(worker[v].row, Delivery(v))'
    BY <1>1, <1>2, <1>3, <1>4 DEF WriterInv, Current, Reads, Committed
  <2>2. \A r \in Replayers : Selecting(r)' => Reads(replayer[r].row, replayer[r].delivery)'
    BY <1>2, <1>4 DEF WriterInv, Current, Reads, Committed
  <2> QED BY <2>1, <2>2 DEF Current
<1> QED BY <1>6, <1>7 DEF WriterInv

LEMMA WorkWriter ==
  ASSUME PromptWrites, TypeOK, Blank, WriterInv, NEW w \in Workers, Work(w) \/ Abandon(w)
  PROVE  WriterInv'
<1>1. CASE Reselect(w)
  BY <1>1, ReselectWriter
<1>2. CASE Read(w) \/ Reclaim(w) \/ Load(w) \/ Send(w)
  <2>1. /\ \A v \in Workers \ {w} : worker'[v] = worker[v]
        /\ worker[w].phase \in {"idle", "got", "send"} /\ worker'[w].row = worker[w].row
    BY <1>2 DEF TypeOK, Slot, Read, Reclaim, Load, Send
  <2>2. worker'[w].row.state = "none"
    BY <2>1 DEF Blank, NewRow
  <2>3. UNCHANGED <<rows, stream, replayer>>
    BY <1>2 DEF Read, Reclaim, Load, Send, redis
  <2> QED BY <2>1, <2>2, <2>3, SlotWriter DEF Selected
<1>3. CASE Defer(w) \/ Record(w)
  <2>1. PICK c \in Deliveries : Delivery(w) = c
    BY <1>3, BusySlot DEF Defer, Record
  <2>2. \E row : worker' = [worker EXCEPT ![w].phase = After(row), ![w].row = row]
    BY <1>3 DEF Defer, Record
  <2>3. \A row : After(row) \in {"schedule", "ack"}
    BY DEF After
  <2>4. /\ \A v \in Workers \ {w} : worker'[v] = worker[v]
        /\ worker'[w].phase \in {"schedule", "ack"}
    BY <2>2, <2>3 DEF TypeOK, Slot
  <2>5. \E row : rows' = [rows EXCEPT ![c] = row]
    BY <1>3, <2>1 DEF Defer, Record
  <2>6. Selected(w) /\ UNCHANGED <<stream, replayer>>
    BY <1>3 DEF Defer, Record, redis
  <2>7. ~Selected(w)' /\ \A d \in Deliveries \ {c} : rows'[d] = rows[d]
    BY <2>4, <2>5 DEF Selected, TypeOK
  <2> QED BY <2>1, <2>4, <2>6, <2>7, SlotWriter
<1>4. CASE Schedule(w)
  <2>1. /\ \A v \in Workers \ {w} : worker'[v] = worker[v]
        /\ worker'[w].phase = "ack" /\ UNCHANGED <<rows, stream, replayer>>
    BY <1>4 DEF TypeOK, Slot, Schedule
  <2> QED BY <2>1, SlotWriter DEF Selected
<1>5. CASE LoadMissing(w) \/ WriteMissing(w) \/ Ack(w) \/ Abandon(w)
  <2>1. worker' = [worker EXCEPT ![w] = IdleSlot] /\ UNCHANGED <<rows, stream, replayer>>
    BY <1>5 DEF LoadMissing, WriteMissing, Ack, Abandon, redis
  <2>2. worker'[w].phase = "idle" /\ \A v \in Workers \ {w} : worker'[v] = worker[v]
    BY <2>1, IdleSlotType DEF TypeOK
  <2> QED BY <2>1, <2>2, SlotWriter DEF Selected
<1> QED BY <1>1, <1>2, <1>3, <1>4, <1>5 DEF Work

LEMMA ReplayWriter ==
  ASSUME PromptWrites, TypeOK, WriterInv, NEW r \in Replayers,
         ReplayLoad(r) \/ ReplaySelect(r) \/ ReplayReset(r) \/ ReplayEnqueue(r) \/ ReplayFail(r)
  PROVE  WriterInv'
<1>1. PICK c \in Deliveries : replayer[r].delivery = c
  BY DEF TypeOK, Request
<1>2. UNCHANGED worker /\ StreamKept
  <2>1. [delivery |-> c, corr |-> FALSE] \in Message
    BY DEF Message
  <2> QED BY <1>1, <2>1, AppendingKeeps
          DEF ReplayLoad, ReplaySelect, ReplayReset, ReplayEnqueue, ReplayFail, redis, StreamKept
<1>3. CASE ReplayLoad(r) \/ ReplayReset(r) \/ ReplayEnqueue(r) \/ ReplayFail(r)
  <2>1. replayer'[r].phase # "selected" /\ \A q \in Replayers \ {r} : replayer'[q] = replayer[q]
    BY <1>3 DEF ReplayLoad, ReplayReset, ReplayEnqueue, ReplayFail, TypeOK, Request
  <2>2. ASSUME NEW d \in Deliveries PROVE Undisturbed(d)
    <3>1. CASE UNCHANGED rows
      BY <3>1 DEF Undisturbed
    <3>2. CASE ReplayReset(r)
      <4>1. Selecting(r) /\ \E row : rows' = [rows EXCEPT ![c] = row]
        BY <1>1, <3>2 DEF ReplayReset, Selecting
      <4>2. d # c => rows'[d] = rows[d]
        BY <4>1 DEF TypeOK
      <4>3. /\ \A w \in Workers : Selected(w)' => Delivery(w) # c
            /\ \A q \in Replayers : Selecting(q)' => replayer[q].delivery # c
        BY <1>1, <1>2, <2>1, <4>1 DEF WriterInv, OneWriter, Selected, Selecting
      <4> QED BY <4>2, <4>3 DEF Undisturbed
    <3> QED BY <1>3, <3>1, <3>2 DEF ReplayLoad, ReplayEnqueue, ReplayFail
  <2> QED BY <1>2, <2>1, <2>2, WritersKept DEF Selected, Selecting
<1>4. CASE ReplaySelect(r)
  <2>1. /\ replayer' = [replayer EXCEPT ![r].phase = "selected", ![r].row = rows[c]]
        /\ ~Writing(c) /\ Committed(c) /\ UNCHANGED <<rows, stream>>
    BY <1>1, <1>4 DEF ReplaySelect, redis
  <2>2. /\ replayer'[r].row = rows[c] /\ replayer'[r].delivery = c
        /\ \A q \in Replayers \ {r} : replayer'[q] = replayer[q]
    BY <1>1, <2>1 DEF TypeOK, Request
  <2>3. /\ \A v \in Workers : Delivery(v)' = Delivery(v) /\ (Selected(v)' => Selected(v))
        /\ \A q \in Replayers \ {r} : Selecting(q)' => Selecting(q)
    BY <1>2, <2>1, <2>2 DEF Delivery, Selected, Selecting
  <2>4. /\ \A v \in Workers : Selected(v) => Delivery(v) # c
        /\ \A q \in Replayers : Selecting(q) => replayer[q].delivery # c
    BY <2>1 DEF Writing, Selecting
  <2>5. OneWriter'
    <3>1. \A v, u \in Workers : Selected(v)' /\ Selected(u)' /\ Delivery(v)' = Delivery(u)' => v = u
      BY <2>3 DEF WriterInv, OneWriter
    <3>2. \A p, q \in Replayers :
            Selecting(p)' /\ Selecting(q)' /\ replayer'[p].delivery = replayer'[q].delivery => p = q
      BY <2>2, <2>3, <2>4 DEF WriterInv, OneWriter
    <3>3. \A v \in Workers, q \in Replayers :
            Selected(v)' /\ Selecting(q)' => Delivery(v)' # replayer'[q].delivery
      BY <2>2, <2>3, <2>4 DEF WriterInv, OneWriter
    <3> QED BY <3>1, <3>2, <3>3 DEF OneWriter
  <2>6. Current'
    <3>1. \A v \in Workers : Selected(v)' => Reads(worker[v].row, Delivery(v))'
      BY <1>2, <2>1, <2>3 DEF WriterInv, Current, Reads, Committed
    <3>2. Reads(replayer[r].row, replayer[r].delivery)'
      BY <2>1, <2>2 DEF Reads, Committed
    <3>3. ASSUME NEW q \in Replayers \ {r}, Selecting(q)'
          PROVE  Reads(replayer[q].row, replayer[q].delivery)'
      <4>1. Reads(replayer[q].row, replayer[q].delivery) /\ replayer'[q] = replayer[q]
        BY <2>2, <2>3, <3>3 DEF WriterInv, Current
      <4> QED BY <2>1, <4>1 DEF Reads, Committed
    <3> QED BY <3>1, <3>2, <3>3 DEF Current
  <2> QED BY <2>5, <2>6 DEF WriterInv
<1> QED BY <1>3, <1>4

LEMMA NextWriter ==
  ASSUME PromptWrites, TypeOK, Blank, WriterInv, [Next]_vars
  PROVE  WriterInv'
<1>1. ASSUME UNCHANGED <<rows, worker, replayer>>, StreamKept PROVE WriterInv'
  BY <1>1, WritersKept DEF Undisturbed, Selected, Selecting
<1>2. CASE UNCHANGED vars
  BY <1>1, <1>2 DEF vars, StreamKept
<1>3. CASE PopDue \/ Enqueue \/ SchedulerCrash
  <2>1. StreamKept
    BY <1>3, AppendingKeeps DEF TypeOK, PopDue, Enqueue, SchedulerCrash, StreamKept
  <2> QED BY <1>1, <1>3, <2>1 DEF PopDue, Enqueue, SchedulerCrash
<1>4. ASSUME NEW e \in Endpoints, Trip(e) \/ CoolDown(e) PROVE WriterInv'
  BY <1>1, <1>4 DEF Trip, CoolDown, redis, StreamKept
<1>5. CASE Next
  BY <1>3, <1>4, <1>5, RelayWriter, WorkWriter, ReplayWriter DEF Next
<1> QED BY <1>2, <1>5

\* What a writer commits is what it meant to: nothing of another write is left.
LEMMA WholeWrite ==
  ASSUME NEW d \in Deliveries, NEW selected \in Row, NEW new \in Row,
         Reads(selected, d), Committed(d)
  PROVE  LET row == Flush(selected, new, rows[d])
         IN  row.state = new.state /\ row.next_retry_at = new.next_retry_at
<1>1. selected = rows[d]
  BY DEF Reads, Committed, DeliveryState
<1> QED BY <1>1 DEF Flush

-----------------------------------------------------------------------------
(* What leads to an attempt. *)

Busy(w) == worker[w].phase # "idle"

\* A message in hand is pending in the group, and in one hand only.
HeldOnce ==
  \A w \in Workers : Busy(w) =>
    /\ worker[w].msg \in pel
    /\ \A v \in Workers : Busy(v) /\ worker[v].msg = worker[w].msg => v = w

\* A delivery that no relay has published has no message anywhere.
Fresh == \A d \in Deliveries : rows[d].state = "none" => ~Token(d)

\* While a fan-out is not committed, only a dispatcher holds a message of it, and
\* it has loaded nothing.
Waiting ==
  \A w \in Workers : Busy(w) /\ rows[Delivery(w)].state = "open" =>
    w \in Dispatchers /\ worker[w].phase = "got"

\* A breaker inside its cooldown has opened.
Tripped == \A e \in Endpoints : breaker[e].cooling => breaker[e].opened # 0

\* A deferral is to a time.
Deferred == \A w \in Workers : worker[w].phase = "defer" => worker[w].until # Null

\* Nothing is logged for a delivery that is not there yet.
Unlogged ==
  \A d \in Deliveries : rows[d].state \in {"none", "open"} => attempts[d] = [logged |-> 0, ok |-> FALSE]

\* The slot of w is going to write its row, which ends the delivery or gives it a
\* time, or to schedule what it wrote.
Leads(w) == worker[w].phase \notin {"idle", "ack"}

\* A pending message that nobody is about to acknowledge.
Alive(i) == i \in pel /\ \A w \in Workers : Busy(w) /\ worker[w].msg = i => Leads(w)

OnStream(d) == \E i \in 1..Len(stream) : stream[i].delivery = d /\ (i > cursor \/ Alive(i))
Elsewhere(d) ==
  \/ \E z \in zset : z.member.delivery = d
  \/ \E m \in popped : m.delivery = d
  \/ \E r \in Replayers : replayer[r].phase = "enqueue" /\ replayer[r].delivery = d

\* A delivery that is open, or about to be, has a token that leads on.
Chained ==
  \A d \in Deliveries :
    rows[d].state \in {"open", "pending", "retrying"} => OnStream(d) \/ Elsewhere(d)

\* The inductive invariant, with IInv and WriterInv.
ChainInv == HeldOnce /\ Fresh /\ Waiting /\ Tripped /\ Deferred /\ Unlogged /\ Chained

-----------------------------------------------------------------------------
(* Lemmas about slots and tokens. *)

\* A busy slot keeps its delivery as long as it keeps its message.
LEMMA SameDelivery ==
  ASSUME TypeOK, StreamKept, NEW w \in Workers, Busy(w), worker'[w].msg = worker[w].msg
  PROVE  Delivery(w)' = Delivery(w) /\ Delivery(w) \in Deliveries
<1>1. worker[w].msg \in 1..Len(stream) /\ Delivery(w) \in Deliveries
  BY BusySlot DEF Busy
<1> QED BY <1>1 DEF Delivery, StreamKept

\* A message that leads on still does when the slots that change lead on.
LEMMA Carry ==
  ASSUME TypeOK, TypeOK', StreamKept, Len(stream') >= Len(stream),
         NEW d \in Deliveries, NEW i \in 1..Len(stream), stream[i].delivery = d,
         i > cursor \/ Alive(i),
         i > cursor' \/ i \in pel',
         \A v \in Workers : worker'[v] = worker[v] \/ (Busy(v)' /\ worker'[v].msg = i => Leads(v)')
  PROVE  OnStream(d)'
<1>1. i \in 1..Len(stream') /\ stream'[i].delivery = d
  BY DEF TypeOK, StreamKept
<1>2. CASE i > cursor'
  BY <1>1, <1>2 DEF OnStream
<1>3. CASE i \in pel'
  <2>1. ASSUME NEW v \in Workers, Busy(v)', worker'[v].msg = i PROVE Leads(v)'
    <3>1. CASE worker'[v] # worker[v]
      BY <2>1, <3>1
    <3>2. CASE worker'[v] = worker[v]
      <4>1. Busy(v) /\ worker[v].msg = i
        BY <2>1, <3>2 DEF Busy
      <4>2. i \in 1..cursor /\ cursor \in Nat
        BY <4>1 DEF TypeOK, Busy
      <4>3. Leads(v)
        BY <4>1, <4>2 DEF Alive
      <4> QED BY <3>2, <4>3 DEF Leads
    <3> QED BY <3>1, <3>2
  <2>2. Alive(i)'
    BY <1>3, <2>1 DEF Alive
  <2> QED BY <1>1, <2>2 DEF OnStream
<1> QED BY <1>2, <1>3

\* A token that leads on is a token.
LEMMA CarriedIsToken ==
  ASSUME NEW d \in Deliveries, OnStream(d) \/ Elsewhere(d)
  PROVE  Token(d)
BY DEF OnStream, Elsewhere, Alive, Token

\* A message in hand is a token of its delivery.
LEMMA HandIsToken ==
  ASSUME TypeOK, HeldOnce, NEW w \in Workers, Busy(w)
  PROVE  Delivery(w) \in Deliveries /\ Token(Delivery(w)) /\ worker[w].msg \in 1..Len(stream)
<1>1. worker[w].msg \in 1..Len(stream) /\ Delivery(w) \in Deliveries
  BY BusySlot DEF Busy
<1>2. worker[w].msg \in pel
  BY DEF HeldOnce
<1> QED BY <1>1, <1>2 DEF Token, Delivery

\* Slots that are left alone or become idle.
LEMMA SlotsKept ==
  ASSUME TypeOK, StreamKept, HeldOnce, Waiting, Deferred,
         \A v \in Workers : Busy(v)' => worker'[v] = worker[v] /\ worker[v].msg \in pel',
         \A v \in Workers : Busy(v) =>
           (rows'[Delivery(v)].state = "open" => rows[Delivery(v)].state = "open")
  PROVE  HeldOnce' /\ Waiting' /\ Deferred'
<1>1. \A v \in Workers : Busy(v)' => Busy(v) /\ Delivery(v)' = Delivery(v)
  BY SameDelivery DEF Busy
<1>2. HeldOnce'
  BY <1>1 DEF HeldOnce
<1>3. Waiting'
  BY <1>1 DEF Waiting, Busy
<1>4. Deferred'
  BY DEF Deferred, Busy, Null
<1> QED BY <1>2, <1>3, <1>4

\* The slot w moves on with the message it has, of a delivery that exists or did.
LEMMA SlotMoves ==
  ASSUME TypeOK, StreamKept, HeldOnce, Waiting, Deferred, NEW w \in Workers, Busy(w),
         worker'[w].msg = worker[w].msg, pel' = pel,
         \A v \in Workers \ {w} : worker'[v] = worker[v],
         rows'[Delivery(w)].state # "open",
         \A d \in Deliveries : rows'[d].state = "open" => rows[d].state = "open",
         worker'[w].phase = "defer" => worker'[w].until # Null
  PROVE  HeldOnce' /\ Waiting' /\ Deferred'
<1>1. \A v \in Workers : Busy(v)' =>
        /\ Busy(v)
        /\ worker'[v].msg = worker[v].msg
        /\ Delivery(v)' = Delivery(v) /\ Delivery(v) \in Deliveries
  BY SameDelivery DEF Busy
<1>2. HeldOnce'
  BY <1>1 DEF HeldOnce
<1>3. Waiting'
  BY <1>1 DEF Waiting, Busy
<1>4. Deferred'
  BY DEF Deferred, Null
<1> QED BY <1>2, <1>3, <1>4

Going == {"open", "pending", "retrying"}

\* The step of the slot v costs no open delivery a message that leads on.
Goes(v) ==
  \/ worker'[v] = worker[v]
  \/ ~Busy(v)'
  \/ Leads(v)'
  \/ /\ Busy(v)
     /\ worker'[v].msg = worker[v].msg
     /\ (~Leads(v) \/ rows'[Delivery(v)].state \notin Going \/ Elsewhere(Delivery(v))')

\* What a step must not do for Chained to survive it.
LEMMA ChainKept ==
  ASSUME TypeOK, TypeOK', StreamKept, Len(stream') >= Len(stream), Chained,
         \A d \in Deliveries : rows'[d].state \in Going =>
           OnStream(d)' \/ Elsewhere(d)' \/ rows[d].state \in Going,
         \A i \in 1..Len(stream) :
           (i > cursor \/ Alive(i)) /\ rows'[stream[i].delivery].state \in Going =>
             i > cursor' \/ i \in pel',
         \A v \in Workers : Goes(v),
         \A d \in Deliveries : Elsewhere(d) => Elsewhere(d)' \/ OnStream(d)'
  PROVE  Chained'
<1> SUFFICES ASSUME NEW d \in Deliveries, rows'[d].state \in Going, ~Elsewhere(d)', ~OnStream(d)'
             PROVE  FALSE
  BY DEF Chained, Going
<1>1. rows[d].state \in Going
  OBVIOUS
<1>2. OnStream(d)
  BY <1>1 DEF Chained, Going
<1>3. PICK i \in 1..Len(stream) : stream[i].delivery = d /\ (i > cursor \/ Alive(i))
  BY <1>2 DEF OnStream
<1>4. i > cursor' \/ i \in pel'
  BY <1>3
<1>5. ASSUME NEW v \in Workers, worker'[v] # worker[v], Busy(v)', worker'[v].msg = i
      PROVE  Leads(v)'
  <2> SUFFICES ASSUME ~Leads(v)' PROVE FALSE
    OBVIOUS
  <2>1. /\ Busy(v)
        /\ worker[v].msg = i
        /\ (~Leads(v) \/ rows'[Delivery(v)].state \notin Going \/ Elsewhere(Delivery(v))')
    BY <1>5 DEF Goes
  <2>2. Delivery(v) = d /\ Delivery(v)' = d
    BY <1>3, <1>5, <2>1, SameDelivery DEF Delivery
  <2>3. ~(i > cursor)
    BY <2>1 DEF TypeOK, Busy
  <2>4. Leads(v)
    BY <1>3, <2>1, <2>3 DEF Alive
  <2> QED BY <2>1, <2>2, <2>4
<1>6. \A v \in Workers : worker'[v] = worker[v] \/ (Busy(v)' /\ worker'[v].msg = i => Leads(v)')
  BY <1>5
<1> QED BY <1>3, <1>4, <1>6, Carry

\* A slot that leads on keeps its delivery on the stream.
LEMMA HandLeads ==
  ASSUME TypeOK, HeldOnce, NEW w \in Workers, Busy(w), Leads(w)
  PROVE  OnStream(Delivery(w))
<1>1. worker[w].msg \in 1..Len(stream)
  BY BusySlot DEF Busy
<1>2. Alive(worker[w].msg)
  BY DEF HeldOnce, Alive
<1> QED BY <1>1, <1>2 DEF OnStream, Delivery

LEMMA FreshKept ==
  ASSUME Fresh,
         \A d \in Deliveries : rows'[d].state = "none" => rows[d].state = "none" /\ (Token(d)' => Token(d))
  PROVE  Fresh'
BY DEF Fresh

LEMMA InitChain == Init => ChainInv
<1> SUFFICES ASSUME Init PROVE ChainInv
  OBVIOUS
<1>1. \A w \in Workers : worker[w].phase = "idle"
  BY IdleSlotType DEF Init
<1>2. \A d \in Deliveries : rows[d].state = "none" /\ ~Token(d)
  BY DEF Init, NewRow, Token
<1>3. HeldOnce /\ Waiting /\ Deferred
  BY <1>1 DEF HeldOnce, Waiting, Deferred, Busy
<1>4. Fresh /\ Chained
  BY <1>2 DEF Fresh, Chained
<1>5. Tripped /\ Unlogged
  BY DEF Init, Tripped, Unlogged
<1> QED BY <1>3, <1>4, <1>5 DEF ChainInv

-----------------------------------------------------------------------------
(* The relay and the deletion of an endpoint. *)

\* What they do to the tables: a row is kept, committed or taken away.
TablesMove(d) ==
  \/ rows'[d] = rows[d] /\ attempts'[d] = attempts[d]
  \/ rows[d].state = "open" /\ rows'[d].state = "pending" /\ attempts'[d] = attempts[d]
  \/ rows'[d].state = "gone"

LEMMA TablesChain ==
  ASSUME TypeOK, TypeOK', ChainInv, UNCHANGED <<redis, worker, replayer, breaker>>,
         \A d \in Deliveries : TablesMove(d)
  PROVE  ChainInv' /\ \A d \in Deliveries : Token(d)' <=> Token(d)
<1>1. UNCHANGED <<stream, cursor, pel, zset, popped>> /\ StreamKept
  BY DEF redis, StreamKept
<1>2. \A d \in Deliveries : Token(d)' <=> Token(d)
  BY <1>1 DEF Token
<1>3. \A d \in Deliveries : Elsewhere(d)' <=> Elsewhere(d)
  BY <1>1 DEF Elsewhere
<1>4. HeldOnce' /\ Waiting' /\ Deferred'
  <2>1. \A v \in Workers : Busy(v) => Delivery(v) \in Deliveries
    BY BusySlot DEF Busy
  <2>2. \A v \in Workers : Busy(v)' => worker'[v] = worker[v] /\ worker[v].msg \in pel'
    BY <1>1 DEF ChainInv, HeldOnce, Busy
  <2>3. \A v \in Workers : Busy(v) =>
          (rows'[Delivery(v)].state = "open" => rows[Delivery(v)].state = "open")
    BY <2>1 DEF TablesMove
  <2> QED BY <1>1, <2>2, <2>3, SlotsKept DEF ChainInv
<1>5. Fresh'
  BY <1>2, FreshKept DEF ChainInv, TablesMove
<1>6. Chained'
  <2>1. \A d \in Deliveries : rows'[d].state \in Going => rows[d].state \in Going
    BY DEF TablesMove, Going
  <2>2. \A v \in Workers : Goes(v)
    BY DEF Goes
  <2>3. \A i \in 1..Len(stream) : i > cursor \/ Alive(i) => i > cursor' \/ i \in pel'
    BY <1>1 DEF Alive
  <2>4. Len(stream') >= Len(stream)
    BY <1>1 DEF TypeOK
  <2> QED BY <1>1, <1>3, <2>1, <2>2, <2>3, <2>4, ChainKept DEF ChainInv
<1>7. Tripped' /\ Unlogged'
  BY DEF ChainInv, Tripped, Unlogged, TablesMove
<1> QED BY <1>2, <1>4, <1>5, <1>6, <1>7 DEF ChainInv

LEMMA CommitChain ==
  ASSUME TypeOK, TypeOK', ChainInv,
         RelayCommit \/ RelayRollback \/ \E e \in Endpoints : DeleteEndpoint(e)
  PROVE  ChainInv' /\ \A d \in Deliveries : Token(d)' <=> Token(d)
<1>1. UNCHANGED <<redis, worker, replayer, breaker>>
  BY DEF RelayCommit, RelayRollback, DeleteEndpoint
<1>2. ASSUME NEW d \in Deliveries PROVE TablesMove(d)
  <2>1. CASE RelayCommit
    BY <2>1, FreshRow DEF RelayCommit, Open, TablesMove
  <2>2. CASE RelayRollback
    BY <2>2, FreshRow DEF RelayRollback, Open, TablesMove
  <2>3. ASSUME NEW e \in Endpoints, DeleteEndpoint(e) PROVE TablesMove(d)
    BY <2>3, FreshRow DEF DeleteEndpoint, TablesMove
  <2> QED BY <2>1, <2>2, <2>3
<1> QED BY <1>1, <1>2, TablesChain

LEMMA PublishChain ==
  ASSUME TypeOK, TypeOK', ChainInv, NEW c \in Deliveries, RelayPublish(c)
  PROVE  /\ ChainInv'
         /\ ~Token(c) /\ Token(c)'
         /\ \A d \in Deliveries \ {c} : Token(d)' <=> Token(d)
<1> DEFINE n == Len(stream) + 1
<1>1. /\ rows[c].state = "none" /\ rows' = [rows EXCEPT ![c] = NewRow("open")]
      /\ UNCHANGED <<attempts, cursor, pel, zset, popped, worker, replayer, breaker, budget>>
  BY DEF RelayPublish
<1>2. /\ StreamKept /\ Len(stream') = n
      /\ stream'[n].delivery = c
  <2>1. [delivery |-> c, corr |-> TRUE] \in Message
    BY DEF Message
  <2> QED BY <2>1, AppendingKeeps, Appending DEF RelayPublish, XADD, TypeOK
<1>3. n \in 1..Len(stream') /\ n > cursor' /\ Len(stream) \in Nat
  BY <1>1, <1>2 DEF TypeOK
<1>4. OnStream(c)' /\ Token(c)'
  BY <1>2, <1>3 DEF OnStream, Token
<1>5. ~Token(c)
  BY <1>1 DEF ChainInv, Fresh
<1>6. \A d \in Deliveries \ {c} : Token(d)' <=> Token(d)
  <2>1. \A i : i \in 1..Len(stream') <=> i \in 1..Len(stream) \/ i = n
    BY <1>2, <1>3
  <2> QED BY <1>1, <1>2, <2>1 DEF Token, StreamKept
<1>7. \A d \in Deliveries : Elsewhere(d)' <=> Elsewhere(d)
  BY <1>1 DEF Elsewhere
<1>8. rows'[c].state = "open" /\ \A d \in Deliveries \ {c} : rows'[d] = rows[d]
  BY <1>1, FreshRow DEF TypeOK
<1>9. HeldOnce' /\ Waiting' /\ Deferred'
  <2>1. \A v \in Workers : Busy(v) => Delivery(v) \in Deliveries \ {c}
    BY <1>5, HandIsToken DEF ChainInv
  <2>2. \A v \in Workers : Busy(v)' => worker'[v] = worker[v] /\ worker[v].msg \in pel'
    BY <1>1 DEF ChainInv, HeldOnce, Busy
  <2> QED BY <1>2, <1>8, <2>1, <2>2, SlotsKept DEF ChainInv
<1>10. Fresh'
  BY <1>6, <1>8, FreshKept DEF ChainInv
<1>11. Chained'
  <2>1. \A d \in Deliveries : rows'[d].state \in Going => OnStream(d)' \/ rows[d].state \in Going
    BY <1>4, <1>8
  <2>2. \A v \in Workers : Goes(v)
    BY <1>1 DEF Goes
  <2>3. \A i \in 1..Len(stream) : i > cursor \/ Alive(i) => i > cursor' \/ i \in pel'
    BY <1>1 DEF Alive
  <2>4. Len(stream') >= Len(stream)
    BY <1>2, <1>3
  <2> QED BY <1>2, <1>7, <2>1, <2>2, <2>3, <2>4, ChainKept DEF ChainInv
<1>12. Tripped' /\ Unlogged'
  BY <1>1, <1>8 DEF ChainInv, Tripped, Unlogged
<1> QED BY <1>4, <1>5, <1>6, <1>9, <1>10, <1>11, <1>12 DEF ChainInv

-----------------------------------------------------------------------------
(* The slots. *)

\* The slot w takes a message, which nobody holds.
LEMMA TakeChain ==
  ASSUME TypeOK, TypeOK', ChainInv, NEW w \in Workers, ~Busy(w),
         worker'[w].phase = "got", worker'[w].msg \in pel',
         \A v \in Workers \ {w} : worker'[v] = worker[v],
         \A v \in Workers \ {w} : Busy(v) => worker[v].msg # worker'[w].msg,
         pel \subseteq pel',
         \A j \in 1..Len(stream) : j > cursor \/ j \in pel <=> j > cursor' \/ j \in pel',
         w \in Reapers => rows[stream[worker'[w].msg].delivery].state # "open",
         UNCHANGED <<rows, attempts, stream, zset, popped, replayer, breaker>>
  PROVE  ChainInv' /\ \A d \in Deliveries : Token(d)' <=> Token(d)
<1>1. \A d \in Deliveries : Token(d)' <=> Token(d)
  BY DEF Token
<1>2. \A d \in Deliveries : Elsewhere(d)' <=> Elsewhere(d)
  BY DEF Elsewhere
<1>3. Busy(w)' /\ Leads(w)' /\ Delivery(w)' = stream[worker'[w].msg].delivery
  BY DEF Busy, Leads, Delivery
<1>4. \A v \in Workers \ {w} : (Busy(v)' <=> Busy(v)) /\ Delivery(v)' = Delivery(v)
  BY DEF Busy, Delivery
<1>5. HeldOnce'
  BY <1>3, <1>4 DEF ChainInv, HeldOnce
<1>6. Waiting'
  BY <1>3, <1>4 DEF ChainInv, Waiting, Workers
<1>7. Deferred'
  BY <1>3, <1>4 DEF ChainInv, Deferred, Busy, Committed
<1>8. Fresh'
  BY <1>1, FreshKept DEF ChainInv
<1>9. Chained'
  <2>1. \A v \in Workers : Goes(v)
    BY <1>3 DEF Goes
  <2>2. StreamKept /\ Len(stream') >= Len(stream)
    BY DEF StreamKept, TypeOK
  <2>3. \A j \in 1..Len(stream) : j > cursor \/ Alive(j) => j > cursor' \/ j \in pel'
    BY DEF Alive
  <2> QED BY <1>2, <2>1, <2>2, <2>3, ChainKept DEF ChainInv
<1>10. Tripped' /\ Unlogged'
  BY DEF ChainInv, Tripped, Unlogged
<1> QED BY <1>1, <1>5, <1>6, <1>7, <1>8, <1>9, <1>10 DEF ChainInv

LEMMA ReadChain ==
  ASSUME TypeOK, TypeOK', ChainInv, NEW w \in Workers, Read(w)
  PROVE  ChainInv' /\ \A d \in Deliveries : Token(d)' <=> Token(d)
<1>1. /\ w \in Dispatchers /\ worker[w].phase = "idle"
      /\ cursor' = cursor + 1 /\ pel' = pel \cup {cursor + 1}
      /\ worker' = [worker EXCEPT ![w].phase = "got", ![w].msg = cursor + 1]
      /\ UNCHANGED <<rows, attempts, stream, zset, popped, replayer, breaker>>
  BY DEF Read
<1>2. /\ worker'[w].phase = "got" /\ worker'[w].msg = cursor + 1
      /\ \A v \in Workers \ {w} : worker'[v] = worker[v]
  BY <1>1 DEF TypeOK, Slot
<1>3. cursor \in Nat /\ cursor + 1 \in pel' /\ pel \subseteq pel' /\ ~Busy(w)
  BY <1>1 DEF TypeOK, Busy
<1>4. \A v \in Workers \ {w} : Busy(v) => worker[v].msg # cursor + 1
  BY <1>3 DEF TypeOK, Busy
<1>5. \A j \in 1..Len(stream) : j > cursor \/ j \in pel <=> j > cursor' \/ j \in pel'
  BY <1>1, <1>3
<1>6. w \notin Reapers
  BY <1>1, EngineAssumption
<1> QED BY <1>1, <1>2, <1>3, <1>4, <1>5, <1>6, TakeChain

LEMMA ReclaimChain ==
  ASSUME WindowsClosed, TypeOK, TypeOK', ChainInv, NEW w \in Workers, Reclaim(w)
  PROVE  ChainInv' /\ \A d \in Deliveries : Token(d)' <=> Token(d)
<1>1. PICK i \in pel :
        /\ ~Held(i) /\ rows[stream[i].delivery].state # "open"
        /\ worker' = [worker EXCEPT ![w].phase = "got", ![w].msg = i]
  BY DEF Reclaim, WindowsClosed
<1>2. worker[w].phase = "idle" /\ UNCHANGED <<rows, attempts, stream, cursor, pel, zset, popped, replayer, breaker>>
  BY DEF Reclaim, redis
<1>3. /\ worker'[w].phase = "got" /\ worker'[w].msg = i
      /\ \A v \in Workers \ {w} : worker'[v] = worker[v]
  BY <1>1 DEF TypeOK, Slot
<1>4. /\ i \in pel' /\ pel \subseteq pel' /\ ~Busy(w)
      /\ \A v \in Workers \ {w} : Busy(v) => worker[v].msg # i
  BY <1>1, <1>2 DEF Held, Busy
<1>5. \A j \in 1..Len(stream) : j > cursor \/ j \in pel <=> j > cursor' \/ j \in pel'
  BY <1>2
<1>6. UNCHANGED <<rows, attempts, stream, zset, popped, replayer, breaker>>
  BY <1>2
<1> QED BY <1>1, <1>3, <1>4, <1>5, <1>6, TakeChain

\* The slot w is done with its message, or gives it up.
LEMMA IdleChain ==
  ASSUME TypeOK, TypeOK', ChainInv, NEW w \in Workers, Busy(w), NEW c \in Deliveries, Delivery(w) = c,
         worker' = [worker EXCEPT ![w] = IdleSlot],
         \/ pel' = pel
         \/ /\ pel' = pel \ {worker[w].msg}
            /\ (~Leads(w) \/ rows[c].state \notin Going),
         UNCHANGED <<rows, attempts, stream, cursor, zset, popped, replayer, breaker>>
  PROVE  /\ ChainInv'
         /\ \A d \in Deliveries \ {c} : Token(d)' <=> Token(d)
         /\ Token(c)
         /\ (Token(c)' \/ rows[c].state \notin Going \cup {"none"})
<1>1. Token(c) /\ worker[w].msg \in 1..Len(stream) /\ stream[worker[w].msg].delivery = c
  BY HandIsToken DEF ChainInv, Delivery
<1>2. ~Busy(w)' /\ \A v \in Workers \ {w} : worker'[v] = worker[v]
  BY IdleSlotType DEF TypeOK, Busy
<1>3. pel' \subseteq pel /\ (\A j \in pel : j # worker[w].msg => j \in pel')
  OBVIOUS
<1>4. \A d \in Deliveries \ {c} : Token(d)' <=> Token(d)
  BY <1>1, <1>3 DEF Token
<1>5. \A d \in Deliveries : Elsewhere(d)' <=> Elsewhere(d)
  BY DEF Elsewhere
<1>6. StreamKept /\ Len(stream') >= Len(stream)
  BY DEF StreamKept, TypeOK
<1>7. HeldOnce' /\ Waiting' /\ Deferred'
  <2>1. \A v \in Workers : Busy(v)' => worker'[v] = worker[v] /\ Busy(v)
    BY <1>2 DEF Busy
  <2>2. \A v \in Workers : Busy(v)' => worker[v].msg \in pel /\ worker[v].msg # worker[w].msg
    BY <1>2, <2>1 DEF ChainInv, HeldOnce
  <2>3. \A v \in Workers : Busy(v)' => worker'[v] = worker[v] /\ worker[v].msg \in pel'
    BY <1>3, <2>1, <2>2
  <2> QED BY <1>6, <2>3, SlotsKept DEF ChainInv
<1>8. Chained'
  <2>1. \A v \in Workers : Goes(v)
    BY <1>2 DEF Goes
  <2>2. \A j \in 1..Len(stream) : (j > cursor \/ Alive(j)) /\ rows'[stream[j].delivery].state \in Going =>
          j > cursor' \/ j \in pel'
    BY <1>1, <1>3 DEF Alive
  <2> QED BY <1>5, <1>6, <2>1, <2>2, ChainKept DEF ChainInv
<1>9. Fresh'
  <2>1. \A d \in Deliveries : Token(d)' => Token(d)
    BY <1>1, <1>4
  <2> QED BY <2>1, FreshKept DEF ChainInv
<1>10. Tripped' /\ Unlogged'
  BY DEF ChainInv, Tripped, Unlogged
<1>11. Token(c)' \/ rows[c].state \notin Going \cup {"none"}
  <2>1. rows[c].state # "none"
    BY <1>1 DEF ChainInv, Fresh
  <2>2. rows[c].state \in Going => OnStream(c)' \/ Elsewhere(c)'
    BY <1>1, <1>8 DEF Chained, Going
  <2>3. OnStream(c)' \/ Elsewhere(c)' => Token(c)'
    BY DEF OnStream, Elsewhere, Alive, Token
  <2> QED BY <2>1, <2>2, <2>3
<1> QED BY <1>1, <1>4, <1>7, <1>8, <1>9, <1>10, <1>11 DEF ChainInv

LEMMA GiveUpChain ==
  ASSUME TypeOK, TypeOK', ChainInv, NEW w \in Workers, Abandon(w)
  PROVE  ChainInv' /\ \A d \in Deliveries : Token(d)' <=> Token(d)
<1>1. /\ Busy(w) /\ worker' = [worker EXCEPT ![w] = IdleSlot]
      /\ UNCHANGED <<rows, attempts, stream, cursor, pel, zset, popped, replayer, breaker>>
  BY DEF Abandon, Busy, redis
<1>2. PICK c \in Deliveries : Delivery(w) = c
  BY <1>1, BusySlot DEF Busy
<1>3. ChainInv'
  BY <1>1, <1>2, IdleChain
<1>4. \A d \in Deliveries : Token(d)' <=> Token(d)
  BY <1>1 DEF Token
<1> QED BY <1>3, <1>4

\* The row of a message in hand is there or was.
LEMMA HandRow ==
  ASSUME TypeOK, ChainInv, NEW w \in Workers, Busy(w), worker[w].phase # "got"
  PROVE  rows[Delivery(w)].state \notin {"none", "open"}
<1>1. Token(Delivery(w)) /\ Delivery(w) \in Deliveries
  BY HandIsToken DEF ChainInv
<1> QED BY <1>1 DEF ChainInv, Fresh, Waiting

\* The three steps that may end a chain, of a delivery that is not open.
Ends(w) == Ack(w) \/ LoadMissing(w) \/ WriteMissing(w)

LEMMA AckChain ==
  ASSUME TypeOK, TypeOK', ChainInv, NEW w \in Workers, Ends(w),
         NEW c \in Deliveries, Delivery(w) = c
  PROVE  /\ ChainInv'
         /\ \A d \in Deliveries \ {c} : Token(d)' <=> Token(d)
         /\ Token(c)
         /\ (Token(c)' \/ rows[c].state \notin Going \cup {"none"})
<1>1. /\ Busy(w) /\ worker' = [worker EXCEPT ![w] = IdleSlot]
      /\ UNCHANGED <<rows, attempts, stream, cursor, zset, popped, replayer, breaker>>
  BY DEF Ends, Ack, LoadMissing, WriteMissing, Busy
<1>2. CASE Ack(w)
  <2>1. pel' = pel \ {worker[w].msg} /\ ~Leads(w)
    BY <1>2 DEF Ack, Leads
  <2> QED BY <1>1, <2>1, IdleChain
<1>3. CASE (LoadMissing(w) \/ WriteMissing(w)) /\ pel' # pel
  <2>1. /\ pel' = pel \ {worker[w].msg} /\ rows[c].state \notin DeliveryState
        /\ (w \in Reapers \/ worker[w].phase # "got")
    BY <1>3 DEF LoadMissing, WriteMissing, Committed
  <2>2. w \in Reapers => w \notin Dispatchers
    BY EngineAssumption
  <2>3. rows[c].state # "open"
    BY <1>1, <2>1, <2>2 DEF ChainInv, Waiting
  <2>4. rows[c].state \notin Going
    BY <2>1, <2>3 DEF Going, DeliveryState
  <2> QED BY <1>1, <2>1, <2>4, IdleChain
<1>4. CASE (LoadMissing(w) \/ WriteMissing(w)) /\ pel' = pel
  BY <1>1, <1>4, IdleChain
<1> QED BY <1>2, <1>3, <1>4 DEF Ends

\* The slot w moves on with its message, of the delivery c: it may write the row
\* or schedule the retry, and if the delivery is open then, it still leads on or
\* has scheduled it.
MovesOn(w, c) ==
  /\ worker'[w].msg = worker[w].msg /\ worker'[w].phase # "idle"
  /\ \A v \in Workers \ {w} : worker'[v] = worker[v]
  /\ UNCHANGED <<stream, cursor, pel, popped, replayer, breaker>>
  /\ \A d \in Deliveries \ {c} : rows'[d] = rows[d] /\ attempts'[d] = attempts[d]
  /\ rows'[c].state \notin {"none", "open"}
  /\ \A d \in Deliveries \ {c} : Elsewhere(d)' <=> Elsewhere(d)
  /\ Elsewhere(c) => Elsewhere(c)'
  /\ worker'[w].phase = "defer" => worker'[w].until # Null
  /\ rows'[c].state \in Going => Leads(w)' \/ Elsewhere(c)'

LEMMA MoveChain ==
  ASSUME TypeOK, TypeOK', ChainInv, NEW w \in Workers, Busy(w), NEW c \in Deliveries, Delivery(w) = c,
         MovesOn(w, c)
  PROVE  ChainInv' /\ \A d \in Deliveries : Token(d)' <=> Token(d)
<1> USE DEF MovesOn
<1>1. StreamKept /\ Len(stream') >= Len(stream)
  BY DEF StreamKept, TypeOK
<1>2. HeldOnce' /\ Waiting' /\ Deferred'
  <2>1. \A d \in Deliveries : rows'[d].state = "open" => rows[d].state = "open"
    OBVIOUS
  <2>2. rows'[Delivery(w)].state # "open" /\ pel' = pel
    OBVIOUS
  <2> QED BY <1>1, <2>1, <2>2, SlotMoves DEF ChainInv
<1>3. Busy(w)' /\ Delivery(w)' = c
  BY <1>1, SameDelivery DEF Busy
<1>4. Token(c) /\ Token(c)'
  <2>1. Token(c)
    BY HandIsToken DEF ChainInv
  <2>2. Token(c)'
    BY <2>1 DEF Token, Elsewhere
  <2> QED BY <2>1, <2>2
<1>5. \A d \in Deliveries \ {c} : Token(d)' <=> Token(d)
  BY DEF Token, Elsewhere
<1>6. Fresh'
  BY <1>5, FreshKept DEF ChainInv
<1>7. Chained'
  <2>1. Leads(w)' => OnStream(c)'
    <3> SUFFICES ASSUME Leads(w)' PROVE OnStream(c)'
      OBVIOUS
    <3>1. worker'[w].msg \in 1..Len(stream') /\ stream'[worker'[w].msg].delivery = c
      BY <1>3, HandIsToken DEF ChainInv, Delivery
    <3>2. Alive(worker[w].msg)'
      BY <1>2, <1>3 DEF HeldOnce, Alive
    <3> QED BY <3>1, <3>2 DEF OnStream
  <2>2. \A d \in Deliveries : rows'[d].state \in Going =>
          OnStream(d)' \/ Elsewhere(d)' \/ rows[d].state \in Going
    BY <2>1
  <2>3. Goes(w)
    BY <1>3 DEF Goes
  <2>4. \A v \in Workers : Goes(v)
    BY <2>3 DEF Goes
  <2>5. \A j \in 1..Len(stream) : j > cursor \/ Alive(j) => j > cursor' \/ j \in pel'
    BY DEF Alive
  <2> QED BY <1>1, <2>2, <2>4, <2>5, ChainKept DEF ChainInv
<1>8. Tripped' /\ Unlogged'
  BY DEF ChainInv, Tripped, Unlogged
<1> QED BY <1>2, <1>4, <1>5, <1>6, <1>7, <1>8 DEF ChainInv

LEMMA SendChain ==
  ASSUME TypeOK, TypeOK', ChainInv, NEW w \in Workers, Send(w) \/ Reselect(w)
  PROVE  ChainInv' /\ \A d \in Deliveries : Token(d)' <=> Token(d)
<1>1. PICK c \in Deliveries : Delivery(w) = c
  BY BusySlot DEF Send, Reselect
<1>2. /\ worker'[w].phase \in {"defer", "ok", "failed"} /\ worker'[w].msg = worker[w].msg
      /\ worker'[w].phase = "defer" => worker[w].phase = "defer" /\ worker'[w].until = worker[w].until
      /\ \A v \in Workers \ {w} : worker'[v] = worker[v]
  BY DEF Send, Reselect, TypeOK, Slot
<1>3. /\ worker[w].phase \in {"send", "defer", "ok", "failed"}
      /\ UNCHANGED <<rows, attempts, stream, cursor, pel, zset, popped, replayer, breaker>>
  BY DEF Send, Reselect, redis
<1>4. Busy(w) /\ rows'[c].state \notin {"none", "open"} /\ Leads(w)'
  BY <1>1, <1>2, <1>3, HandRow DEF Busy, Leads
<1>5. \A d \in Deliveries : Elsewhere(d)' <=> Elsewhere(d)
  BY <1>3 DEF Elsewhere
<1>6. worker'[w].phase = "defer" => worker'[w].until # Null
  BY <1>2 DEF ChainInv, Deferred
<1>7. MovesOn(w, c)
  BY <1>2, <1>3, <1>4, <1>5, <1>6 DEF MovesOn
<1> QED BY <1>1, <1>4, <1>7, MoveChain

LEMMA LoadChain ==
  ASSUME TypeOK, TypeOK', ChainInv, NEW w \in Workers, Load(w)
  PROVE  ChainInv' /\ \A d \in Deliveries : Token(d)' <=> Token(d)
<1>1. PICK c \in Deliveries : Delivery(w) = c
  BY BusySlot DEF Load
<1> DEFINE b == breaker[EndpointOf[c]]
<1>2. /\ worker'[w].phase = (IF b.cooling THEN "defer" ELSE "send")
      /\ worker'[w].msg = worker[w].msg
      /\ worker'[w].until = (IF b.cooling THEN b.opened ELSE Null)
      /\ \A v \in Workers \ {w} : worker'[v] = worker[v]
  BY <1>1 DEF Load, TypeOK, Slot
<1>3. /\ worker[w].phase = "got" /\ rows[c].state \in DeliveryState
      /\ UNCHANGED <<rows, attempts, stream, cursor, pel, zset, popped, replayer, breaker>>
  BY <1>1 DEF Load, redis, Committed
<1>4. Busy(w) /\ worker'[w].phase # "idle" /\ rows'[c].state \notin {"none", "open"} /\ Leads(w)'
  BY <1>2, <1>3 DEF Busy, DeliveryState, Leads
<1>5. \A d \in Deliveries : Elsewhere(d)' <=> Elsewhere(d)
  BY <1>3 DEF Elsewhere
<1>6. worker'[w].phase = "defer" => worker'[w].until # Null
  <2>1. EndpointOf[c] \in Endpoints
    BY EngineAssumption
  <2>2. b.cooling => b.opened # 0
    BY <2>1 DEF ChainInv, Tripped
  <2> QED BY <1>2, <2>2 DEF Null
<1>7. MovesOn(w, c)
  BY <1>2, <1>3, <1>4, <1>5, <1>6 DEF MovesOn
<1> QED BY <1>1, <1>4, <1>7, MoveChain

LEMMA ScheduleChain ==
  ASSUME TypeOK, TypeOK', ChainInv, NEW w \in Workers, Schedule(w)
  PROVE  ChainInv' /\ \A d \in Deliveries : Token(d)' <=> Token(d)
<1>1. PICK c \in Deliveries : Delivery(w) = c
  BY BusySlot DEF Schedule
<1> DEFINE m == stream[worker[w].msg]
           new == [member |-> m, at |-> worker[w].row.next_retry_at]
<1>2. /\ worker[w].phase = "schedule" /\ worker' = [worker EXCEPT ![w].phase = "ack"]
      /\ zset' = {z \in zset : z.member # m} \cup {new}
      /\ UNCHANGED <<rows, attempts, stream, cursor, pel, popped, replayer, breaker>>
  BY DEF Schedule
<1>3. /\ worker'[w].phase = "ack" /\ worker'[w].msg = worker[w].msg
      /\ \A v \in Workers \ {w} : worker'[v] = worker[v]
  BY <1>2 DEF TypeOK, Slot
<1>4. m.delivery = c /\ new.member = m
  BY <1>1 DEF Delivery
<1> HIDE DEF m, new
<1>5. Elsewhere(c)'
  BY <1>2, <1>4 DEF Elsewhere
<1>6. \A d \in Deliveries \ {c} : Elsewhere(d)' <=> Elsewhere(d)
  BY <1>2, <1>4 DEF Elsewhere
<1>7. Busy(w) /\ worker'[w].phase \notin {"idle", "defer"} /\ rows'[c].state \notin {"none", "open"}
  BY <1>1, <1>2, <1>3, HandRow DEF Busy
<1>10. MovesOn(w, c)
  BY <1>1, <1>2, <1>3, <1>5, <1>6, <1>7 DEF MovesOn
<1> QED BY <1>1, <1>7, <1>10, MoveChain

\* The slot w writes the row of c, which ends it or gives it a time.
Writes(w, c, row) ==
  /\ worker[w].phase \in {"defer", "ok", "failed"}
  /\ Committed(c)
  /\ rows' = [rows EXCEPT ![c] = row]
  /\ worker' = [worker EXCEPT ![w].phase = After(row), ![w].row = row]
  /\ \A d \in Deliveries \ {c} : attempts'[d] = attempts[d]
  /\ UNCHANGED <<redis, replayer, breaker>>
  /\ row.state \in {"retrying", "delivered", "dead"}
  /\ row.state = "retrying" => row.next_retry_at # Null

LEMMA WriteChain ==
  ASSUME TypeOK, TypeOK', ChainInv, NEW w \in Workers, NEW c \in Deliveries, Delivery(w) = c,
         NEW row \in Row, Writes(w, c, row)
  PROVE  ChainInv' /\ \A d \in Deliveries : Token(d)' <=> Token(d)
<1> USE DEF Writes
<1>1. rows'[c] = row /\ \A d \in Deliveries \ {c} : rows'[d] = rows[d]
  BY DEF TypeOK
<1>2. /\ worker'[w].phase = After(row) /\ worker'[w].msg = worker[w].msg
      /\ \A v \in Workers \ {w} : worker'[v] = worker[v]
  BY DEF TypeOK, Slot
<1>3. UNCHANGED <<stream, cursor, pel, zset, popped, replayer, breaker>>
  BY DEF redis
<1>4. \A d \in Deliveries : Elsewhere(d)' <=> Elsewhere(d)
  BY <1>3 DEF Elsewhere
<1>5. rows'[c].state \notin {"none", "open"} /\ Busy(w) /\ worker'[w].phase \notin {"idle", "defer"}
  BY <1>1, <1>2 DEF After, Busy
<1>6. rows'[c].state \in Going => Leads(w)'
  BY <1>1, <1>2 DEF Going, Leads, After
<1>7. MovesOn(w, c)
  BY <1>1, <1>2, <1>3, <1>4, <1>5, <1>6 DEF MovesOn
<1> QED BY <1>5, <1>7, MoveChain

LEMMA DeferChain ==
  ASSUME WriterInv, TypeOK, TypeOK', ChainInv, NEW w \in Workers, Defer(w)
  PROVE  ChainInv' /\ \A d \in Deliveries : Token(d)' <=> Token(d)
<1>1. PICK c \in Deliveries : Delivery(w) = c
  BY BusySlot DEF Defer
<1> DEFINE selected == worker[w].row
           new == reschedule(selected, worker[w].until)
           row == Flush(selected, new, rows[c])
<1>2. /\ worker[w].phase = "defer" /\ Selected(w) /\ Committed(c)
      /\ rows' = [rows EXCEPT ![c] = row]
      /\ worker' = [worker EXCEPT ![w].phase = After(row), ![w].row = row]
      /\ UNCHANGED <<attempts, redis, replayer, breaker>>
  BY <1>1 DEF Defer
<1>3. selected \in Row /\ worker[w].until \in RetryAt /\ rows[c] \in Row
  BY DEF TypeOK, Slot
<1>4. new \in Row /\ row \in Row /\ new.state = "retrying" /\ new.next_retry_at = worker[w].until
  BY <1>3, FlushType, RescheduleType DEF reschedule, Row
<1>5. worker[w].until # Null
  BY <1>2 DEF ChainInv, Deferred
<1>6. row.state = "retrying" /\ row.next_retry_at # Null
  <2>1. Reads(selected, c)
    BY <1>1, <1>2 DEF WriterInv, Current
  <2> QED BY <1>2, <1>3, <1>4, <1>5, <2>1, WholeWrite
<1> HIDE DEF row, new, selected
<1>7. Writes(w, c, row)
  BY <1>2, <1>6 DEF Writes
<1> QED BY <1>1, <1>4, <1>7, WriteChain

LEMMA RecordChain ==
  ASSUME WriterInv, TypeOK, TypeOK', ChainInv, NEW w \in Workers, Record(w)
  PROVE  ChainInv' /\ \A d \in Deliveries : Token(d)' <=> Token(d)
<1>1. PICK c \in Deliveries : Delivery(w) = c
  BY BusySlot DEF Record
<1> DEFINE selected == worker[w].row
           success == worker[w].phase = "ok"
           new == Outcome(selected, worker[w].attempt_no, success)
           row == Flush(selected, new, rows[c])
<1>2. /\ worker[w].phase \in {"ok", "failed"} /\ Selected(w) /\ Committed(c)
      /\ rows' = [rows EXCEPT ![c] = row]
      /\ worker' = [worker EXCEPT ![w].phase = After(row), ![w].row = row]
      /\ UNCHANGED <<redis, replayer, breaker>>
  BY <1>1 DEF Record
<1>3. \A d \in Deliveries \ {c} : attempts'[d] = attempts[d]
  BY <1>1 DEF Record, TypeOK
<1>4. selected \in Row /\ worker[w].attempt_no \in Nat /\ rows[c] \in Row
  BY DEF TypeOK, Slot
<1>5. /\ new \in Row /\ new.state \in {"delivered", "dead", "retrying"}
      /\ new.state = "retrying" => new.next_retry_at = Backoff
  BY <1>4, OutcomeFacts
<1>6. Backoff # Null
  BY EngineAssumption DEF Backoff, Null
<1>7. row \in Row /\ row.state = new.state /\ row.next_retry_at = new.next_retry_at
  <2>1. Reads(selected, c)
    BY <1>1, <1>2 DEF WriterInv, Current
  <2>2. row \in Row
    BY <1>4, <1>5, FlushType
  <2> QED BY <1>2, <1>4, <1>5, <2>1, <2>2, WholeWrite
<1> HIDE DEF row, new, selected, success
<1>8. Writes(w, c, row)
  BY <1>2, <1>3, <1>5, <1>6, <1>7 DEF Writes
<1> QED BY <1>1, <1>7, <1>8, WriteChain

-----------------------------------------------------------------------------
(* The scheduler, the replay endpoint and the breaker. *)

\* Steps that leave the tables and the slots alone: they move tokens.
LEMMA TokensMove ==
  ASSUME TypeOK, TypeOK', ChainInv, StreamKept, Len(stream') >= Len(stream),
         UNCHANGED <<rows, attempts, cursor, pel, worker>>, Tripped',
         \A d \in Deliveries : Elsewhere(d) => Elsewhere(d)' \/ OnStream(d)',
         \A d \in Deliveries : Token(d)' <=> Token(d)
  PROVE  ChainInv'
<1>1. HeldOnce' /\ Waiting' /\ Deferred'
  <2>1. \A v \in Workers : Busy(v)' => worker'[v] = worker[v] /\ worker[v].msg \in pel'
    BY DEF ChainInv, HeldOnce, Busy
  <2> QED BY <2>1, SlotsKept DEF ChainInv
<1>2. Fresh'
  BY FreshKept DEF ChainInv
<1>3. Chained'
  <2>1. \A v \in Workers : Goes(v)
    BY DEF Goes
  <2>2. \A i \in 1..Len(stream) : i > cursor \/ Alive(i) => i > cursor' \/ i \in pel'
    BY DEF Alive
  <2>3. \A d \in Deliveries : rows'[d] = rows[d]
    OBVIOUS
  <2> QED BY <2>1, <2>2, <2>3, ChainKept DEF ChainInv
<1>4. Unlogged'
  BY DEF ChainInv, Unlogged
<1> QED BY <1>1, <1>2, <1>3, <1>4 DEF ChainInv

\* A message added to the stream is a token of its delivery, and the only new one.
LEMMA AddedLeads ==
  ASSUME TypeOK, TypeOK', NEW m \in Message, XADD(m), UNCHANGED cursor
  PROVE  /\ StreamKept /\ Len(stream') >= Len(stream)
         /\ OnStream(m.delivery)' /\ Token(m.delivery)'
         /\ \A i : i \in 1..Len(stream') <=> i \in 1..Len(stream) \/ i = Len(stream) + 1
         /\ stream'[Len(stream) + 1] = m /\ Len(stream) + 1 > cursor
<1>1. Len(stream) \in Nat /\ cursor \in 0..Len(stream)
  BY DEF TypeOK
<1>2. StreamKept /\ Len(stream') = Len(stream) + 1 /\ stream'[Len(stream) + 1] = m
  BY AppendingKeeps, Appending DEF XADD, TypeOK
<1>3. Len(stream) + 1 \in 1..Len(stream') /\ Len(stream) + 1 > cursor' /\ m' = m
  BY <1>1, <1>2
<1>4. OnStream(m.delivery)' /\ Token(m.delivery)'
  BY <1>2, <1>3 DEF OnStream, Token
<1> QED BY <1>1, <1>2, <1>3, <1>4

LEMMA SchedulerChain ==
  ASSUME WindowsClosed, TypeOK, TypeOK', ChainInv, PopDue \/ Enqueue \/ SchedulerCrash
  PROVE  ChainInv' /\ \A d \in Deliveries : Token(d)' <=> Token(d)
<1>1. CASE PopDue
  <2>1. PICK due \in SUBSET zset : popped' = {z.member : z \in due} /\ zset' = zset \ due
    BY <1>1 DEF PopDue
  <2>2. popped = {} /\ UNCHANGED <<rows, attempts, stream, cursor, pel, worker, replayer, breaker>>
    BY <1>1 DEF PopDue
  <2>3. \A d \in Deliveries : Elsewhere(d)' <=> Elsewhere(d)
    BY <2>1, <2>2 DEF Elsewhere
  <2>4. \A d \in Deliveries : Token(d)' <=> Token(d)
    BY <2>2, <2>3 DEF Token, Elsewhere
  <2>5. StreamKept /\ Len(stream') >= Len(stream) /\ Tripped'
    BY <2>2 DEF StreamKept, TypeOK, ChainInv, Tripped
  <2> QED BY <2>2, <2>3, <2>4, <2>5, TokensMove
<1>2. CASE Enqueue
  <2>1. PICK m \in popped : XADD(m) /\ popped' = popped \ {m}
    BY <1>2 DEF Enqueue
  <2>2. m \in Message /\ UNCHANGED <<rows, attempts, cursor, pel, zset, worker, replayer, breaker>>
    BY <1>2 DEF Enqueue, TypeOK
  <2>3. /\ StreamKept /\ Len(stream') >= Len(stream)
        /\ OnStream(m.delivery)' /\ Token(m.delivery)'
        /\ \A i : i \in 1..Len(stream') <=> i \in 1..Len(stream) \/ i = Len(stream) + 1
        /\ stream'[Len(stream) + 1] = m /\ Len(stream) + 1 > cursor
    BY <2>1, <2>2, AddedLeads
  <2>4. \A d \in Deliveries : Elsewhere(d) => Elsewhere(d)' \/ OnStream(d)'
    BY <2>1, <2>2, <2>3 DEF Elsewhere
  <2>5. ASSUME NEW d \in Deliveries PROVE Token(d)' <=> Token(d)
    <3>1. CASE d = m.delivery
      BY <2>1, <2>3, <3>1 DEF Token
    <3>2. CASE d # m.delivery
      BY <2>1, <2>2, <2>3, <3>2 DEF Token, StreamKept
    <3> QED BY <3>1, <3>2
  <2>6. Tripped'
    BY <2>2 DEF ChainInv, Tripped
  <2> QED BY <2>2, <2>3, <2>4, <2>5, <2>6, TokensMove
<1>3. CASE SchedulerCrash
  BY <1>3 DEF SchedulerCrash, WindowsClosed
<1> QED BY <1>1, <1>2, <1>3

LEMMA ReplayMoves ==
  ASSUME WindowsClosed, TypeOK, TypeOK', ChainInv, NEW r \in Replayers,
         ReplayLoad(r) \/ ReplaySelect(r) \/ ReplayEnqueue(r) \/ ReplayFail(r)
  PROVE  ChainInv' /\ \A d \in Deliveries : Token(d)' <=> Token(d)
<1>1. CASE ReplayLoad(r) \/ ReplaySelect(r) \/ ReplayFail(r)
  <2>1. UNCHANGED <<rows, attempts, stream, cursor, pel, zset, popped, worker, breaker>>
    BY <1>1 DEF ReplayLoad, ReplaySelect, ReplayFail, redis
  <2>2. /\ replayer[r].phase # "enqueue" /\ replayer'[r].phase # "enqueue"
        /\ \A q \in Replayers \ {r} : replayer'[q] = replayer[q]
    <3>1. CASE ReplayLoad(r)
      <4>1. replayer[r].phase = "idle" /\ \E d \in Deliveries :
              replayer' = [replayer EXCEPT ![r].phase = "loaded", ![r].delivery = d]
        BY <3>1 DEF ReplayLoad
      <4>2. replayer \in [Replayers -> Request]
        BY DEF TypeOK
      <4> QED BY <4>1, <4>2 DEF Request
    <3>2. CASE ReplaySelect(r)
      BY <3>2 DEF ReplaySelect, TypeOK, Request
    <3>3. CASE ReplayFail(r)
      BY <3>3 DEF ReplayFail, WindowsClosed, TypeOK, Request
    <3> QED BY <1>1, <3>1, <3>2, <3>3
  <2>3. \A d \in Deliveries : Elsewhere(d)' <=> Elsewhere(d)
    BY <2>1, <2>2 DEF Elsewhere
  <2>4. \A d \in Deliveries : Token(d)' <=> Token(d)
    BY <2>1, <2>3 DEF Token, Elsewhere
  <2>5. StreamKept /\ Len(stream') >= Len(stream)
    BY <2>1 DEF StreamKept, TypeOK
  <2>6. Tripped'
    BY <2>1 DEF ChainInv, Tripped
  <2> QED BY <2>1, <2>3, <2>4, <2>5, <2>6, TokensMove
<1>2. CASE ReplayEnqueue(r)
  <2> DEFINE m == [delivery |-> replayer[r].delivery, corr |-> FALSE]
  <2>1. /\ replayer[r].phase = "enqueue" /\ XADD(m)
        /\ UNCHANGED <<rows, attempts, cursor, pel, zset, popped, worker, breaker>>
    BY <1>2 DEF ReplayEnqueue
  <2>2. PICK c \in Deliveries : replayer[r].delivery = c
    BY DEF TypeOK, Request
  <2>3. m \in Message /\ m.delivery = c
    BY <2>2 DEF Message
  <2>4. replayer'[r].phase = "idle" /\ \A q \in Replayers \ {r} : replayer'[q] = replayer[q]
    BY <1>2 DEF ReplayEnqueue, TypeOK, Request
  <2> HIDE DEF m
  <2>5. PICK n : n = m
    OBVIOUS
  <2>6. /\ StreamKept /\ Len(stream') >= Len(stream)
        /\ OnStream(c)' /\ Token(c)'
        /\ \A i : i \in 1..Len(stream') <=> i \in 1..Len(stream) \/ i = Len(stream) + 1
        /\ stream'[Len(stream) + 1].delivery = c /\ Len(stream) + 1 > cursor
    <3>1. n \in Message /\ n.delivery = c /\ XADD(n)
      BY <2>1, <2>3, <2>5
    <3> QED BY <2>1, <3>1, AddedLeads
  <2>7. \A d \in Deliveries : Elsewhere(d) => Elsewhere(d)' \/ OnStream(d)'
    BY <2>1, <2>2, <2>4, <2>6 DEF Elsewhere
  <2>8. ASSUME NEW d \in Deliveries PROVE Token(d)' <=> Token(d)
    <3>1. CASE d = c
      BY <2>1, <2>2, <2>6, <3>1 DEF Token
    <3>2. CASE d # c
      BY <2>1, <2>2, <2>4, <2>6, <3>2 DEF Token, StreamKept
    <3> QED BY <3>1, <3>2
  <2>9. Tripped'
    BY <2>1, <2>4 DEF ChainInv, Tripped
  <2> QED BY <2>1, <2>6, <2>7, <2>8, <2>9, TokensMove
<1> QED BY <1>1, <1>2

LEMMA ResetChain ==
  ASSUME WriterInv, TypeOK, TypeOK', ChainInv, NEW r \in Replayers, ReplayReset(r),
         NEW c \in Deliveries, replayer[r].delivery = c
  PROVE  /\ ChainInv'
         /\ Committed(c) /\ rows'[c].state = "pending" /\ Token(c)'
         /\ \A d \in Deliveries \ {c} : rows'[d] = rows[d] /\ (Token(d)' <=> Token(d))
<1> DEFINE selected == replayer[r].row
           new == reset_for_replay(selected)
           row == Flush(selected, new, rows[c])
<1>1. /\ Selecting(r) /\ Committed(c)
      /\ rows' = [rows EXCEPT ![c] = row]
      /\ replayer' = [replayer EXCEPT ![r].phase = "enqueue", ![r].row = NewRow("none")]
      /\ UNCHANGED <<attempts, stream, cursor, pel, zset, popped, worker, breaker>>
  BY DEF ReplayReset, Selecting, redis
<1>2. selected \in Row /\ new \in Row /\ new.state = "pending"
  BY NewRowType, FreshRow DEF TypeOK, Request, reset_for_replay, Lifecycle, DeliveryState
<1>3. row.state = "pending"
  <2>1. Reads(selected, c)
    BY <1>1 DEF WriterInv, Current
  <2> QED BY <1>1, <1>2, <2>1, WholeWrite
<1> HIDE DEF row, new, selected
<1>4. rows'[c] = row /\ \A d \in Deliveries \ {c} : rows'[d] = rows[d]
  BY <1>1 DEF TypeOK
<1>5. /\ replayer'[r].phase = "enqueue" /\ replayer'[r].delivery = c
      /\ \A q \in Replayers \ {r} : replayer'[q] = replayer[q]
  BY <1>1 DEF TypeOK, Request
<1>6. Elsewhere(c)' /\ Token(c)'
  BY <1>5 DEF Elsewhere, Token
<1>7. \A d \in Deliveries \ {c} : Elsewhere(d)' <=> Elsewhere(d)
  BY <1>1, <1>5 DEF Elsewhere
<1>8. \A d \in Deliveries \ {c} : Token(d)' <=> Token(d)
  BY <1>1, <1>7 DEF Token, Elsewhere
<1>9. StreamKept /\ Len(stream') >= Len(stream)
  BY <1>1 DEF StreamKept, TypeOK
<1>10. HeldOnce' /\ Waiting' /\ Deferred'
  <2>1. \A v \in Workers : Busy(v)' => worker'[v] = worker[v] /\ worker[v].msg \in pel'
    BY <1>1 DEF ChainInv, HeldOnce, Busy
  <2>2. \A v \in Workers : Busy(v) => Delivery(v) \in Deliveries
    BY BusySlot DEF Busy
  <2>3. \A v \in Workers : Busy(v) =>
          (rows'[Delivery(v)].state = "open" => rows[Delivery(v)].state = "open")
    BY <1>3, <1>4, <2>2
  <2> QED BY <1>9, <2>1, <2>3, SlotsKept DEF ChainInv
<1>11. Fresh'
  BY <1>3, <1>4, <1>8, FreshKept DEF ChainInv
<1>12. Chained'
  <2>1. \A v \in Workers : Goes(v)
    BY <1>1 DEF Goes
  <2>2. \A i \in 1..Len(stream) : i > cursor \/ Alive(i) => i > cursor' \/ i \in pel'
    BY <1>1 DEF Alive
  <2>3. \A d \in Deliveries : Elsewhere(d) => Elsewhere(d)' \/ OnStream(d)'
    BY <1>6, <1>7
  <2>4. \A d \in Deliveries : rows'[d].state \in Going =>
          Elsewhere(d)' \/ rows[d].state \in Going
    BY <1>4, <1>6
  <2> QED BY <1>9, <2>1, <2>2, <2>3, <2>4, ChainKept DEF ChainInv
<1>13. Tripped' /\ Unlogged'
  BY <1>1, <1>3, <1>4, <1>5 DEF ChainInv, Tripped, Unlogged
<1> QED BY <1>1, <1>3, <1>4, <1>6, <1>8, <1>10, <1>11, <1>12, <1>13 DEF ChainInv

LEMMA BreakerChain ==
  ASSUME TypeOK, TypeOK', ChainInv, NEW e \in Endpoints, Trip(e) \/ CoolDown(e)
  PROVE  ChainInv' /\ \A d \in Deliveries : Token(d)' <=> Token(d)
<1>1. UNCHANGED <<rows, attempts, stream, cursor, pel, zset, popped, worker, replayer>>
  BY DEF Trip, CoolDown, redis
<1>2. \A d \in Deliveries : (Token(d)' <=> Token(d)) /\ (Elsewhere(d)' <=> Elsewhere(d))
  BY <1>1 DEF Token, Elsewhere
<1>3. Tripped'
  <2>1. \A f \in Endpoints : breaker[f].opened \in Nat
    BY EngineAssumption DEF TypeOK
  <2>2. CASE Trip(e)
    BY <2>1, <2>2 DEF Trip, ChainInv, Tripped, TypeOK
  <2>3. CASE CoolDown(e)
    BY <2>3 DEF CoolDown, ChainInv, Tripped, TypeOK
  <2> QED BY <2>2, <2>3
<1>4. StreamKept /\ Len(stream') >= Len(stream) 
  BY <1>1 DEF StreamKept, TypeOK, ChainInv
<1> QED BY <1>1, <1>2, <1>3, <1>4, TokensMove

LEMMA StutterChain ==
  ASSUME TypeOK, TypeOK', ChainInv, UNCHANGED vars
  PROVE  ChainInv' /\ \A d \in Deliveries : Token(d)' <=> Token(d)
<1>1. UNCHANGED <<redis, worker, replayer, breaker>> /\ \A d \in Deliveries : TablesMove(d)
  BY DEF vars, redis, TablesMove
<1> QED BY <1>1, TablesChain

LEMMA WorkChain ==
  ASSUME WindowsClosed, WriterInv, TypeOK, TypeOK', ChainInv, NEW w \in Workers,
         Work(w) \/ Abandon(w)
  PROVE  ChainInv'
<1>1. CASE Ends(w)
  <2>1. PICK c \in Deliveries : Delivery(w) = c
    BY <1>1, BusySlot DEF Ends, Ack, LoadMissing, WriteMissing
  <2> QED BY <1>1, <2>1, AckChain
<1>2. CASE ~Ends(w)
  BY <1>2, ReadChain, ReclaimChain, LoadChain, SendChain, DeferChain, RecordChain, GiveUpChain,
     ScheduleChain DEF Work, Ends
<1> QED BY <1>1, <1>2

LEMMA NextChain ==
  ASSUME WindowsClosed, WriterInv, TypeOK, TypeOK', ChainInv, [Next]_vars
  PROVE  ChainInv'
<1>1. ASSUME NEW r \in Replayers, ReplayReset(r) PROVE ChainInv'
  <2>1. PICK c \in Deliveries : replayer[r].delivery = c
    BY DEF TypeOK, Request
  <2> QED BY <1>1, <2>1, ResetChain
<1>2. CASE UNCHANGED vars
  BY <1>2, StutterChain
<1>3. CASE Next
  BY <1>1, <1>3, PublishChain, CommitChain, BreakerChain, WorkChain, SchedulerChain, ReplayMoves
     DEF Next
<1> QED BY <1>2, <1>3

\* While rows are written promptly, whoever has selected one is its only writer.
THEOREM WriterInvariance == WindowsClosed => (Spec => []WriterInv)
<1> SUFFICES ASSUME WindowsClosed PROVE Spec => []WriterInv
  OBVIOUS
<1>1. IInv /\ WriterInv /\ [Next]_vars => WriterInv'
  BY NextWriter DEF WindowsClosed, IInv
<1> QED BY <1>1, InitWriter, Invariance, PTL DEF Spec

\* With the windows closed, the parts of ChainInv hold in every state.
THEOREM ChainInvariance == WindowsClosed => (Spec => []ChainInv)
<1> SUFFICES ASSUME WindowsClosed PROVE Spec => []ChainInv
  OBVIOUS
<1>1. TypeOK /\ TypeOK' /\ WriterInv /\ ChainInv /\ [Next]_vars => ChainInv'
  BY NextChain
<1>2. Spec => []WriterInv
  BY WriterInvariance
<1> QED BY <1>1, <1>2, InitChain, TypeCorrect, PTL DEF Spec

\* No accepted delivery is stranded: with the windows closed, one that is pending
\* or retrying always has a message, a scheduled retry or a replay that leads to
\* its next attempt, whatever crashes, duplicates, deferrals and replays race.
THEOREM ChainIsLive == WindowsClosed => (Spec => []LiveChain)
<1> SUFFICES ASSUME WindowsClosed PROVE Spec => []LiveChain
  OBVIOUS
<1>1. ChainInv => LiveChain
  BY CarriedIsToken DEF ChainInv, Chained, LiveChain
<1>2. Spec => []ChainInv
  BY ChainInvariance
<1> QED BY <1>1, <1>2, PTL

-----------------------------------------------------------------------------
(***************************************************************************)
(* The refinement: with the windows closed, every step of the engine is,   *)
(* to a client, a step of AtLeastOnce or none.  What each step does to the *)
(* tokens was established above; what is left is the status and the log.   *)
(***************************************************************************)

LEMMA StatusFacts ==
  ASSUME NEW d \in Deliveries
  PROVE  /\ rows[d].state \in {"pending", "retrying"} => StatusOf(d) = "live"
         /\ rows[d].state \in {"none", "open"} => StatusOf(d) = "none"
         /\ rows[d].state \in {"delivered", "dead", "gone"} => StatusOf(d) = rows[d].state
BY DEF StatusOf

LEMMA StatusAfter ==
  ASSUME NEW d \in Deliveries
  PROVE  /\ rows'[d].state \in {"pending", "retrying"} => StatusOf(d)' = "live"
         /\ rows'[d].state \in {"none", "open"} => StatusOf(d)' = "none"
         /\ rows'[d].state \in {"delivered", "dead", "gone"} => StatusOf(d)' = rows'[d].state
BY DEF StatusOf

\* A delivery whose row keeps its state keeps its status.
LEMMA StatusKept ==
  ASSUME NEW d \in Deliveries, rows'[d].state = rows[d].state
  PROVE  StatusOf(d)' = StatusOf(d)
BY DEF StatusOf

\* The mapped state, in terms of what the lemmas above speak of.
SameStatus(S) == \A d \in S : StatusOf(d)' = StatusOf(d)
SameChain(S) == \A d \in S : Token(d)' <=> Token(d)

LEMMA ChainUnchanged ==
  ASSUME SameChain(Deliveries)
  PROVE  UNCHANGED [d \in Deliveries |-> Token(d)]
<1>1. \A d \in Deliveries : Token(d)' = Token(d)
  BY DEF SameChain, Token
<1> QED BY <1>1, Zenon

LEMMA StatusUnchanged ==
  ASSUME SameStatus(Deliveries)
  PROVE  UNCHANGED [d \in Deliveries |-> StatusOf(d)]
BY Zenon DEF SameStatus

LEMMA NothingSeen ==
  ASSUME SameStatus(Deliveries), SameChain(Deliveries), UNCHANGED attempts
  PROVE  UNCHANGED Promise!vars
BY ChainUnchanged, StatusUnchanged DEF Promise!vars

\* A function of the deliveries that changes at c only, as an EXCEPT.
LEMMA ChainUpdated ==
  ASSUME NEW c \in Deliveries, NEW b \in BOOLEAN, Token(c)' = b, SameChain(Deliveries \ {c})
  PROVE  [d \in Deliveries |-> Token(d)]' = [[d \in Deliveries |-> Token(d)] EXCEPT ![c] = b]
<1>1. \A d \in Deliveries \ {c} : Token(d)' = Token(d)
  BY DEF SameChain, Token
<1> QED BY <1>1

LEMMA StatusUpdated ==
  ASSUME NEW c \in Deliveries, NEW s, StatusOf(c)' = s, SameStatus(Deliveries \ {c})
  PROVE  [d \in Deliveries |-> StatusOf(d)]' = [[d \in Deliveries |-> StatusOf(d)] EXCEPT ![c] = s]
BY DEF SameStatus

LEMMA InitPromise == Init => Promise!Init
<1> SUFFICES ASSUME Init PROVE Promise!Init
  OBVIOUS
<1>1. \A d \in Deliveries : StatusOf(d) = "none" /\ Token(d) = FALSE
  BY StatusFacts DEF Init, NewRow, Token
<1> QED BY <1>1 DEF Init, Promise!Init, Promise!NothingLogged

LEMMA RelayPromise ==
  ASSUME TypeOK, TypeOK', ChainInv,
         (\E d \in Deliveries : RelayPublish(d)) \/ RelayCommit \/ RelayRollback
           \/ \E e \in Endpoints : DeleteEndpoint(e)
  PROVE  Promise!Next
<1>1. ASSUME NEW c \in Deliveries, RelayPublish(c) PROVE Promise!Next
  <2>1. rows[c].state = "none" /\ rows'[c].state = "open" /\ \A d \in Deliveries \ {c} : rows'[d] = rows[d]
    BY <1>1, FreshRow DEF RelayPublish, TypeOK
  <2>2. StatusOf(c) = "none" /\ StatusOf(c)' = "none"
    BY <2>1, StatusFacts, StatusAfter
  <2>3. SameStatus(Deliveries)
    BY <2>1, <2>2, StatusKept DEF SameStatus
  <2>4. Token(c)' = TRUE /\ Token(c) = FALSE /\ SameChain(Deliveries \ {c})
    BY <1>1, PublishChain DEF SameChain, Token
  <2>5. Promise!Announce(c)
    <3>1. [d \in Deliveries |-> Token(d)]' = [[d \in Deliveries |-> Token(d)] EXCEPT ![c] = TRUE]
      BY <2>4, ChainUpdated
    <3>2. UNCHANGED <<[d \in Deliveries |-> StatusOf(d)], attempts>>
      BY <1>1, <2>3, StatusUnchanged DEF RelayPublish
    <3> QED BY <2>2, <2>4, <3>1, <3>2 DEF Promise!Announce
  <2> QED BY <2>5 DEF Promise!Next
<1>2. CASE RelayCommit
  <2>1. UNCHANGED [d \in Deliveries |-> Token(d)] /\ UNCHANGED attempts
    BY <1>2, CommitChain, ChainUnchanged DEF SameChain, RelayCommit
  <2>2. \A d \in Open : StatusOf(d) = "none" /\ StatusOf(d)' = "live" /\ Token(d)
    <3> SUFFICES ASSUME NEW d \in Open PROVE StatusOf(d) = "none" /\ StatusOf(d)' = "live" /\ Token(d)
      OBVIOUS
    <3>1. d \in Deliveries /\ rows[d].state = "open" /\ rows'[d].state = "pending"
      BY <1>2, FreshRow DEF RelayCommit, Open
    <3>2. Token(d)
      BY <3>1, CarriedIsToken DEF ChainInv, Chained
    <3> QED BY <3>1, <3>2, StatusFacts, StatusAfter
  <2>3. \A d \in Deliveries \ Open : StatusOf(d)' = StatusOf(d)
    BY <1>2, StatusKept DEF RelayCommit
  <2>4. Open \in SUBSET Deliveries
    BY DEF Open
  <2>5. [d \in Deliveries |-> StatusOf(d)]' =
          [d \in Deliveries |-> IF d \in Open THEN "live" ELSE [c \in Deliveries |-> StatusOf(c)][d]]
    BY <2>2, <2>3
  <2>6. Promise!Accept(Open)
    BY <2>1, <2>2, <2>4, <2>5 DEF Promise!Accept
  <2> QED BY <2>4, <2>6 DEF Promise!Next
<1>3. ASSUME NEW S \in SUBSET Deliveries, SameChain(Deliveries),
             \A d \in S : rows'[d].state = "gone" /\ attempts'[d] = [logged |-> 0, ok |-> FALSE],
             \A d \in Deliveries \ S : rows'[d] = rows[d] /\ attempts'[d] = attempts[d]
      PROVE  Promise!Next
  <2>1. \A d \in S : StatusOf(d)' = "gone"
    BY <1>3, StatusAfter
  <2>2. \A d \in Deliveries \ S : StatusOf(d)' = StatusOf(d)
    BY <1>3, StatusKept
  <2>3. [d \in Deliveries |-> StatusOf(d)]' =
          [d \in Deliveries |-> IF d \in S THEN "gone" ELSE [c \in Deliveries |-> StatusOf(c)][d]]
    BY <2>1, <2>2
  <2>4. attempts' = [d \in Deliveries |-> IF d \in S THEN Promise!NothingLogged ELSE attempts[d]]
    BY <1>3 DEF TypeOK, Promise!NothingLogged
  <2>5. Promise!Remove(S)
    BY <1>3, <2>3, <2>4, ChainUnchanged DEF Promise!Remove
  <2> QED BY <2>5 DEF Promise!Next
<1>4. CASE RelayRollback
  <2>1. Open \in SUBSET Deliveries /\ SameChain(Deliveries)
    BY <1>4, CommitChain DEF Open, SameChain
  <2>2. \A d \in Open : rows'[d].state = "gone" /\ attempts'[d] = [logged |-> 0, ok |-> FALSE]
    BY <1>4, FreshRow DEF RelayRollback, Open, ChainInv, Unlogged
  <2>3. \A d \in Deliveries \ Open : rows'[d] = rows[d] /\ attempts'[d] = attempts[d]
    BY <1>4 DEF RelayRollback
  <2> QED BY <1>3, <2>1, <2>2, <2>3
<1>5. ASSUME NEW e \in Endpoints, DeleteEndpoint(e) PROVE Promise!Next
  <2> DEFINE mine == {d \in Deliveries : EndpointOf[d] = e}
  <2>1. mine \in SUBSET Deliveries /\ SameChain(Deliveries)
    BY <1>5, CommitChain DEF SameChain
  <2>2. \A d \in mine : rows'[d].state = "gone" /\ attempts'[d] = [logged |-> 0, ok |-> FALSE]
    BY <1>5, FreshRow DEF DeleteEndpoint
  <2>3. \A d \in Deliveries \ mine : rows'[d] = rows[d] /\ attempts'[d] = attempts[d]
    BY <1>5 DEF DeleteEndpoint
  <2> HIDE DEF mine
  <2> QED BY <1>3, <2>1, <2>2, <2>3
<1> QED BY <1>1, <1>2, <1>4, <1>5

\* An attempt is recorded: the status it leaves is the outcome's or the one that
\* another attempt has made of it, and the log is long enough for a dead one.
LEMMA RecordPromise ==
  ASSUME IInv, TypeOK', WriterInv, ChainInv, NEW w \in Workers, Record(w)
  PROVE  Promise!Next
<1>1. PICK c \in Deliveries : Delivery(w) = c
  BY BusySlot DEF Record, IInv
<1> DEFINE selected == worker[w].row
           success == worker[w].phase = "ok"
           n == worker[w].attempt_no
           new == Outcome(selected, n, success)
           row == Flush(selected, new, rows[c])
<1>2. /\ worker[w].phase \in {"ok", "failed"} /\ rows[c].state \in DeliveryState
      /\ rows' = [rows EXCEPT ![c] = row]
      /\ attempts' = [attempts EXCEPT ![c].logged = @ + 1, ![c].ok = @ \/ success]
  BY <1>1 DEF Record, Committed
<1>3. selected \in Row /\ n \in Nat /\ rows[c] \in Row
  BY DEF IInv, TypeOK, Slot
<1>4. Token(c) /\ SameChain(Deliveries)
  BY <1>1, <1>2, HandIsToken, RecordChain DEF ChainInv, IInv, SameChain, Busy
<1>5. row.state \in {new.state, rows[c].state}
  BY DEF Flush
<1>6. /\ success => new.state = "delivered"
      /\ ~success => new.state \in {"retrying", "dead"}
      /\ new.state = "dead" => n >= MaxAttempts
  BY <1>3, OutcomeFacts DEF Outcome, mark_delivered, mark_dead, mark_retrying, Attempted
<1>7. new.state = "dead" => attempts[c].logged + 1 >= MaxAttempts
  <2>1. n <= attempts[c].logged + 1
    BY <1>1, <1>2 DEF IInv, SnapsCounted, Loaded, DeliveryState
  <2>2. attempts[c].logged \in Nat /\ MaxAttempts \in Nat
    BY EngineAssumption DEF IInv, TypeOK
  <2> HIDE DEF n, new
  <2> QED BY <1>3, <1>6, <2>1, <2>2
<1> HIDE DEF row, new, n, selected
<1>8. rows'[c] = row /\ \A d \in Deliveries \ {c} : rows'[d] = rows[d]
  BY <1>2 DEF IInv, TypeOK
<1>9. SameStatus(Deliveries \ {c})
  BY <1>8, StatusKept DEF SameStatus
<1> DEFINE st == [d \in Deliveries |-> StatusOf(d)]
<1>10. \/ st' = st
       \/ success /\ st' = [st EXCEPT ![c] = "delivered"]
       \/ ~success /\ st' = [st EXCEPT ![c] = "live"]
       \/ /\ ~success /\ attempts[c].logged + 1 >= MaxAttempts
          /\ st' = [st EXCEPT ![c] = "dead"]
  <2>1. CASE row.state = rows[c].state
    <3>1. SameStatus(Deliveries)
      BY <1>8, <1>9, <2>1, StatusKept DEF SameStatus
    <3> QED BY <3>1, StatusUnchanged
  <2>2. CASE row.state = "delivered" /\ row.state = new.state
    BY <1>6, <1>8, <1>9, <2>2, StatusAfter, StatusUpdated
  <2>3. CASE row.state = "retrying" /\ row.state = new.state
    BY <1>6, <1>8, <1>9, <2>3, StatusAfter, StatusUpdated
  <2>4. CASE row.state = "dead" /\ row.state = new.state
    BY <1>6, <1>7, <1>8, <1>9, <2>4, StatusAfter, StatusUpdated
  <2> QED BY <1>5, <1>6, <2>1, <2>2, <2>3, <2>4
<1>11. StatusOf(c) \in {"live", "delivered", "dead"}
  BY <1>2, StatusFacts DEF DeliveryState
<1>12. UNCHANGED [d \in Deliveries |-> Token(d)]
  BY <1>4, ChainUnchanged
<1>13. Promise!Attempt(c, success)
  BY <1>2, <1>4, <1>10, <1>11, <1>12 DEF Promise!Attempt, Promise!Exists, Promise!Ended
<1>14. success \in BOOLEAN
  OBVIOUS
<1> HIDE DEF success
<1> QED BY <1>13, <1>14 DEF Promise!Next

LEMMA DeferPromise ==
  ASSUME WriterInv, TypeOK, TypeOK', ChainInv, NEW w \in Workers, Defer(w)
  PROVE  [Promise!Next]_(Promise!vars)
<1>1. PICK c \in Deliveries : Delivery(w) = c
  BY BusySlot DEF Defer
<1> DEFINE selected == worker[w].row
           row == Flush(selected, reschedule(selected, worker[w].until), rows[c])
<1>2. /\ worker[w].phase = "defer" /\ rows[c].state \in DeliveryState
      /\ rows' = [rows EXCEPT ![c] = row] /\ UNCHANGED attempts
  BY <1>1 DEF Defer, Committed
<1>3. row.state \in {"retrying", rows[c].state}
  <2>1. selected \in Row
    BY DEF TypeOK, Slot
  <2> QED BY <2>1 DEF Flush, reschedule, Row
<1>4. Token(c) /\ SameChain(Deliveries)
  BY <1>1, <1>2, HandIsToken, DeferChain DEF ChainInv, SameChain, Busy
<1> HIDE DEF row, selected
<1>5. rows'[c] = row /\ \A d \in Deliveries \ {c} : rows'[d] = rows[d]
  BY <1>2 DEF TypeOK
<1>6. CASE row.state = rows[c].state
  <2>1. SameStatus(Deliveries)
    BY <1>5, <1>6, StatusKept DEF SameStatus
  <2> QED BY <1>2, <1>4, <2>1, NothingSeen
<1>7. CASE row.state = "retrying"
  <2>1. SameStatus(Deliveries \ {c}) /\ StatusOf(c)' = "live"
    BY <1>5, <1>7, StatusKept, StatusAfter DEF SameStatus
  <2>2. StatusOf(c) \in {"live", "delivered", "dead"}
    BY <1>2, StatusFacts DEF DeliveryState
  <2>3. [d \in Deliveries |-> StatusOf(d)]' = [[d \in Deliveries |-> StatusOf(d)] EXCEPT ![c] = "live"]
    BY <2>1, StatusUpdated
  <2>4. Promise!PutOff(c)
    BY <1>2, <1>4, <2>2, <2>3, ChainUnchanged DEF Promise!PutOff, Promise!Exists, Promise!Ended
  <2> QED BY <2>4 DEF Promise!Next
<1> QED BY <1>3, <1>6, <1>7

\* The end of a chain: never that of an open delivery.
LEMMA AckPromise ==
  ASSUME TypeOK, TypeOK', ChainInv, NEW w \in Workers, Ends(w)
  PROVE  [Promise!Next]_(Promise!vars)
<1>1. PICK c \in Deliveries : Delivery(w) = c
  BY BusySlot DEF Ends, Ack, LoadMissing, WriteMissing
<1>2. UNCHANGED <<rows, attempts>>
  BY DEF Ends, Ack, LoadMissing, WriteMissing
<1>3. SameStatus(Deliveries)
  BY <1>2, StatusKept DEF SameStatus
<1>4. /\ SameChain(Deliveries \ {c}) /\ Token(c)
      /\ (Token(c)' \/ rows[c].state \notin Going \cup {"none"})
  BY <1>1, AckChain DEF SameChain
<1>5. CASE Token(c)'
  <2>1. SameChain(Deliveries)
    BY <1>4, <1>5 DEF SameChain
  <2> QED BY <1>2, <1>3, <2>1, NothingSeen
<1>6. CASE ~Token(c)'
  <2>1. Token(c)' = FALSE
    BY <1>6 DEF Token
  <2>2. rows[c].state \in {"delivered", "dead", "gone"}
    BY <1>4, <1>6 DEF TypeOK, Row, Lifecycle, DeliveryState, Going
  <2>3. StatusOf(c) \in {"delivered", "dead", "gone"}
    BY <2>2, StatusFacts
  <2>4. [d \in Deliveries |-> Token(d)]' = [[d \in Deliveries |-> Token(d)] EXCEPT ![c] = FALSE]
    BY <1>4, <2>1, ChainUpdated
  <2>5. Promise!Rest(c)
    BY <1>2, <1>3, <1>4, <2>3, <2>4, StatusUnchanged DEF Promise!Rest, Promise!Ended
  <2> QED BY <2>5 DEF Promise!Next
<1> QED BY <1>5, <1>6

LEMMA ResetPromise ==
  ASSUME WriterInv, TypeOK, TypeOK', ChainInv, NEW r \in Replayers, ReplayReset(r)
  PROVE  Promise!Next
<1>1. PICK c \in Deliveries : replayer[r].delivery = c
  BY DEF TypeOK, Request
<1>2. /\ rows[c].state \in DeliveryState /\ rows'[c].state = "pending" /\ Token(c)'
      /\ \A d \in Deliveries \ {c} : rows'[d] = rows[d] /\ (Token(d)' <=> Token(d))
  BY <1>1, ResetChain DEF Committed
<1>3. StatusOf(c) \in {"live", "delivered", "dead"}
  BY <1>2, StatusFacts DEF DeliveryState
<1>4. StatusOf(c)' = "live" /\ SameStatus(Deliveries \ {c})
  BY <1>2, StatusAfter, StatusKept DEF SameStatus
<1>5. Token(c)' = TRUE /\ SameChain(Deliveries \ {c})
  BY <1>2 DEF SameChain, Token
<1>6. [d \in Deliveries |-> StatusOf(d)]' = [[d \in Deliveries |-> StatusOf(d)] EXCEPT ![c] = "live"]
  BY <1>4, StatusUpdated
<1>7. [d \in Deliveries |-> Token(d)]' = [[d \in Deliveries |-> Token(d)] EXCEPT ![c] = TRUE]
  BY <1>5, ChainUpdated
<1>8. Promise!Replay(c)
  BY <1>3, <1>6, <1>7 DEF Promise!Replay, Promise!Exists, Promise!Ended, ReplayReset
<1> QED BY <1>8 DEF Promise!Next

\* Every other step moves tokens about, if anything.
LEMMA HiddenPromise ==
  ASSUME UNCHANGED <<rows, attempts>>, \A d \in Deliveries : Token(d)' <=> Token(d)
  PROVE  UNCHANGED Promise!vars
<1>1. SameStatus(Deliveries) /\ SameChain(Deliveries)
  BY StatusKept DEF SameStatus, SameChain
<1> QED BY <1>1, NothingSeen

LEMMA WorkPromise ==
  ASSUME WindowsClosed, WriterInv, IInv, TypeOK', ChainInv, NEW w \in Workers,
         Work(w) \/ Abandon(w)
  PROVE  [Promise!Next]_(Promise!vars)
<1>1. TypeOK
  BY DEF IInv
<1>2. CASE Ends(w)
  BY <1>1, <1>2, AckPromise
<1>3. CASE Defer(w)
  BY <1>1, <1>3, DeferPromise
<1>4. CASE Record(w)
  BY <1>4, RecordPromise
<1>5. CASE Read(w) \/ Reclaim(w) \/ Load(w) \/ Send(w) \/ Reselect(w) \/ Schedule(w) \/ Abandon(w)
  <2>1. UNCHANGED <<rows, attempts>>
    BY <1>5 DEF Read, Reclaim, Load, Send, Reselect, Schedule, Abandon
  <2>2. \A d \in Deliveries : Token(d)' <=> Token(d)
    BY <1>1, <1>5, ReadChain, ReclaimChain, LoadChain, SendChain, GiveUpChain, ScheduleChain
  <2> QED BY <2>1, <2>2, HiddenPromise
<1> QED BY <1>2, <1>3, <1>4, <1>5 DEF Work, Ends

LEMMA NextPromise ==
  ASSUME WindowsClosed, WriterInv, IInv, TypeOK', ChainInv, [Next]_vars
  PROVE  [Promise!Next]_(Promise!vars)
<1>1. TypeOK
  BY DEF IInv
<1>2. CASE UNCHANGED vars
  BY <1>1, <1>2, StutterChain, HiddenPromise DEF vars
<1>3. CASE (\E d \in Deliveries : RelayPublish(d)) \/ RelayCommit \/ RelayRollback
             \/ \E e \in Endpoints : DeleteEndpoint(e)
  BY <1>1, <1>3, RelayPromise
<1>4. ASSUME NEW e \in Endpoints, Trip(e) \/ CoolDown(e) PROVE UNCHANGED Promise!vars
  BY <1>1, <1>4, BreakerChain, HiddenPromise DEF Trip, CoolDown
<1>5. CASE PopDue \/ Enqueue \/ SchedulerCrash
  BY <1>1, <1>5, SchedulerChain, HiddenPromise DEF PopDue, Enqueue, SchedulerCrash
<1>6. ASSUME NEW r \in Replayers,
             ReplayLoad(r) \/ ReplaySelect(r) \/ ReplayReset(r) \/ ReplayEnqueue(r) \/ ReplayFail(r)
      PROVE  [Promise!Next]_(Promise!vars)
  <2>1. CASE ReplayReset(r)
    BY <1>1, <2>1, ResetPromise
  <2>2. CASE ReplayLoad(r) \/ ReplaySelect(r) \/ ReplayEnqueue(r) \/ ReplayFail(r)
    BY <1>1, <2>2, ReplayMoves, HiddenPromise DEF ReplayLoad, ReplaySelect, ReplayEnqueue, ReplayFail
  <2> QED BY <1>6, <2>1, <2>2
<1>7. CASE Next
  <2> HIDE DEF Promise!vars
  <2> QED BY <1>3, <1>4, <1>5, <1>6, <1>7, WorkPromise DEF Next
<1> QED BY <1>2, <1>7

\* The engine implements at-least-once delivery when the windows are closed: what
\* a client sees of it are steps of AtLeastOnce.  No crash, duplicate, deferral,
\* race of two attempts' columns, or replay ends a delivery without the attempts
\* its state stands for, forgets an attempt, or leaves an open one with nothing
\* under way.
THEOREM PromiseIsKept == WindowsClosed => (Spec => KeepsPromise)
<1> SUFFICES ASSUME WindowsClosed PROVE Spec => KeepsPromise
  OBVIOUS
<1>1. IInv /\ TypeOK' /\ WriterInv /\ ChainInv /\ [Next]_vars => [Promise!Next]_(Promise!vars)
  BY NextPromise
<1>2. Spec => []WriterInv /\ []ChainInv
  BY WriterInvariance, ChainInvariance
<1> QED BY <1>1, <1>2, InitPromise, Invariance, TypeCorrect, PTL DEF Spec, KeepsPromise, Promise!Spec
=============================================================================
