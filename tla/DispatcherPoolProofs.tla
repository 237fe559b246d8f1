------------------------ MODULE DispatcherPoolProofs ------------------------
(***************************************************************************)
(* Proofs about DispatcherPool, for any stream, any endpoints and any      *)
(* number of slots and permits.                                            *)
(*                                                                         *)
(* A slot is held by a live task and a permit by a gated one, so the       *)
(* invariant counts tasks.  A permit is handed to the head of a queue,     *)
(* which keeps the count only if the head is a waiting task and is queued  *)
(* once (Distinct); and a stop is a drain only if the loop has spawned all *)
(* it has read whenever it looks at the signal (Caught).                   *)
(***************************************************************************)
EXTENDS DispatcherPool, TLAPS, FiniteSetTheorems

Elems(s) == {s[i] : i \in 1..Len(s)}
NoRepeats(s) == \A i, j \in 1..Len(s) : s[i] = s[j] => i = j

Slots == semaphore + Cardinality(Running) = Concurrency
Permits(e) == permits[e] + Cardinality(Holding(e)) = PerEndpointConcurrency
Queue(e) ==
  /\ waiters[e] # <<>> => permits[e] = 0
  /\ Elems(waiters[e]) = {m \in Of(e) : task[m] = "waiting"}

\* A task is queued once.
Distinct == \A e \in Endpoints : NoRepeats(waiters[e])

\* The messages that have had a task are the first ones; away from a batch they
\* are all that were read; and the process stops with no task left.
Caught ==
  /\ \A m \in Messages : task[m] = "none" <=> m > spawned
  /\ loop \in {"poll", "drain", "stopped"} => spawned = read
  /\ loop = "stopped" => Running = {}

\* What the counts are made of: TypeOK without the upper bounds, which the counts give.
Shape ==
  /\ loop \in {"poll", "spawn", "drain", "stopped", "crashed"}
  /\ shutdown \in BOOLEAN
  /\ spawned \in 0..read
  /\ read \in 0..Len(EndpointOf)
  /\ task \in [Messages -> TaskPhases]
  /\ semaphore \in Nat
  /\ permits \in [Endpoints -> Nat]
  /\ waiters \in [Endpoints -> Seq(Messages)]

\* The inductive invariant.
IInv ==
  /\ TypeOK
  /\ PermitsConserved
  /\ Distinct
  /\ Caught

-----------------------------------------------------------------------------
(* Queues. *)

LEMMA AppendQueue ==
  ASSUME NEW T, NEW s \in Seq(T), NEW x \in T, NoRepeats(s), x \notin Elems(s)
  PROVE  /\ Append(s, x) \in Seq(T)
         /\ Append(s, x) # <<>>
         /\ Elems(Append(s, x)) = Elems(s) \cup {x}
         /\ NoRepeats(Append(s, x))
<1>1. /\ Append(s, x) \in Seq(T)
      /\ Len(Append(s, x)) = Len(s) + 1
      /\ \A i \in 1..Len(s) : Append(s, x)[i] = s[i]
      /\ Append(s, x)[Len(s) + 1] = x
  OBVIOUS
<1>2. Len(s) \in Nat
  OBVIOUS
<1>3. Append(s, x) # <<>>
  OBVIOUS
<1> DEFINE t == Append(s, x)
<1> HIDE DEF t
<1>4. Elems(t) = Elems(s) \cup {x}
  BY <1>1, <1>2 DEF Elems, t
<1>5. NoRepeats(t)
  BY <1>1, <1>2 DEF Elems, NoRepeats, t
<1> QED BY <1>1, <1>3, <1>4, <1>5 DEF t

LEMMA TailQueue ==
  ASSUME NEW T, NEW s \in Seq(T), s # <<>>, NoRepeats(s)
  PROVE  /\ Tail(s) \in Seq(T)
         /\ Head(s) \in Elems(s)
         /\ Head(s) \in T
         /\ Elems(Tail(s)) = Elems(s) \ {Head(s)}
         /\ NoRepeats(Tail(s))
<1>1. /\ Tail(s) \in Seq(T)
      /\ Len(s) \in Nat \ {0}
      /\ Len(Tail(s)) = Len(s) - 1
      /\ \A i \in 1..Len(s) - 1 : Tail(s)[i] = s[i + 1]
      /\ Head(s) = s[1]
      /\ Head(s) \in T
  OBVIOUS
<1> DEFINE t == Tail(s)
           h == Head(s)
<1> HIDE DEF t, h
<1>2. h \in Elems(s)
  BY <1>1 DEF Elems, h
<1>3. Elems(t) \subseteq Elems(s) \ {h}
  BY <1>1 DEF Elems, NoRepeats, t, h
<1>4. ASSUME NEW i \in 1..Len(s), s[i] # h PROVE s[i] \in Elems(t)
  <2>1. i # 1 /\ i - 1 \in 1..Len(t) /\ t[i - 1] = s[i]
    BY <1>1, <1>4 DEF t, h
  <2> QED BY <2>1 DEF Elems
<1>5. NoRepeats(t)
  BY <1>1 DEF NoRepeats, t
<1>6. Elems(s) \ {h} \subseteq Elems(t)
  <2> SUFFICES ASSUME NEW x \in Elems(s), x # h PROVE x \in Elems(t)
    OBVIOUS
  <2>1. PICK i \in 1..Len(s) : x = s[i]
    BY DEF Elems
  <2> QED BY <1>4, <2>1
<1>7. Elems(t) = Elems(s) \ {h}
  BY <1>3, <1>6
<1> QED BY <1>1, <1>2, <1>5, <1>7 DEF t, h

-----------------------------------------------------------------------------
(* Counts. *)

LEMMA Counting ==
  ASSUME NEW S \in SUBSET Messages
  PROVE  /\ Cardinality(S) \in Nat
         /\ \A x \in Messages \ S : Cardinality(S \cup {x}) = Cardinality(S) + 1
         /\ \A x \in S : Cardinality(S \ {x}) = Cardinality(S) - 1
<1>1. IsFiniteSet(Messages)
  BY PoolAssumption, FS_Interval DEF Messages
<1>2. IsFiniteSet(S)
  BY <1>1, FS_Subset
<1> QED BY <1>2, FS_CardinalityType, FS_AddElement, FS_RemoveElement

\* The counts bound what they count, after a step of a process that has not
\* crashed.
LEMMA Assemble ==
  ASSUME Shape', Slots', \A e \in Endpoints : Permits(e)' /\ Queue(e)', Distinct', Caught'
  PROVE  IInv'
<1>1. semaphore' \in 0..Concurrency
  <2>1. Cardinality(Running') \in Nat
    BY Counting DEF Running
  <2>2. semaphore' \in Nat
    BY DEF Shape
  <2>3. Concurrency \in Nat
    BY PoolAssumption
  <2> QED BY <2>1, <2>2, <2>3 DEF Slots
<1>2. ASSUME NEW e \in Endpoints PROVE permits'[e] \in 0..PerEndpointConcurrency
  <2>1. Cardinality(Holding(e)') \in Nat
    BY Counting DEF Holding, Of
  <2>2. permits'[e] \in Nat
    BY DEF Shape
  <2>3. PerEndpointConcurrency \in Nat
    BY PoolAssumption
  <2> QED BY <2>1, <2>2, <2>3 DEF Permits
<1>3. permits' \in [Endpoints -> 0..PerEndpointConcurrency]
  BY <1>2 DEF Shape
<1>4. TypeOK'
  BY <1>1, <1>3 DEF Shape, TypeOK
<1>5. PermitsConserved'
  BY DEF PermitsConserved, Slots, Permits, Queue, Elems
<1> QED BY <1>4, <1>5 DEF IInv

LEMMA Parts ==
  ASSUME IInv
  PROVE  /\ Shape
         /\ loop # "crashed" => Slots /\ \A e \in Endpoints : Permits(e) /\ Queue(e)
<1>1. Shape
  BY DEF IInv, TypeOK, Shape
<1> QED BY <1>1 DEF IInv, PermitsConserved, Slots, Permits, Queue, Elems

-----------------------------------------------------------------------------
(* Each step keeps the invariant. *)

LEMMA InitIInv == Init => IInv
<1> SUFFICES ASSUME Init PROVE IInv
  OBVIOUS
<1>1. TypeOK
  <2>1. Len(EndpointOf) \in Nat /\ Concurrency \in Nat /\ PerEndpointConcurrency \in Nat
    BY PoolAssumption
  <2>2. /\ task \in [Messages -> TaskPhases]
        /\ permits \in [Endpoints -> 0..PerEndpointConcurrency]
        /\ waiters \in [Endpoints -> Seq(Messages)]
    BY <2>1 DEF Init, TaskPhases
  <2>3. loop \in {"poll", "spawn", "drain", "stopped", "crashed"} /\ shutdown \in BOOLEAN
    BY DEF Init
  <2>4. spawned \in 0..read /\ read \in 0..Len(EndpointOf) /\ semaphore \in 0..Concurrency
    BY <2>1 DEF Init
  <2> QED BY <2>2, <2>3, <2>4 DEF TypeOK
<1>2. Running = {} /\ \A e \in Endpoints : Holding(e) = {}
  BY DEF Init, Running, Holding, Of, Live
<1>3. PermitsConserved
  <2>1. Cardinality(Running) = 0 /\ \A e \in Endpoints : Cardinality(Holding(e)) = 0
    BY <1>2, FS_EmptySet
  <2>2. Concurrency \in Nat /\ PerEndpointConcurrency \in Nat
    BY PoolAssumption
  <2>3. \A e \in Endpoints : waiters[e] = <<>> /\ {m \in Of(e) : task[m] = "waiting"} = {}
    BY DEF Init, Of
  <2> QED BY <2>1, <2>2, <2>3 DEF Init, PermitsConserved
<1>4. Distinct
  BY DEF Init, Distinct, NoRepeats
<1>5. Caught
  BY <1>2 DEF Init, Caught, Messages
<1> QED BY <1>1, <1>3, <1>4, <1>5 DEF IInv

\* The loop's steps that touch no task and no semaphore.
LEMMA QuietStep ==
  ASSUME IInv, ReadBatch \/ BatchDone \/ SigTerm \/ Drain \/ Stop \/ UNCHANGED vars
  PROVE  IInv'
<1>1. UNCHANGED <<task, semaphore, permits, waiters>>
  BY DEF ReadBatch, BatchDone, SigTerm, Drain, Stop, vars, sems
<1>2. loop' = "crashed" <=> loop = "crashed"
  BY DEF ReadBatch, BatchDone, SigTerm, Drain, Stop, vars
<1>3. TypeOK'
  <2>1. spawned' = spawned
    BY DEF ReadBatch, BatchDone, SigTerm, Drain, Stop, vars
  <2>2. /\ read' \in read..Len(EndpointOf)
        /\ shutdown' \in BOOLEAN
    <3>1. Len(EndpointOf) \in Nat /\ Concurrency \in Nat
      BY PoolAssumption
    <3>2. read \in Nat /\ read <= Len(EndpointOf)
      BY <3>1 DEF IInv, TypeOK
    <3>3. shutdown' \in BOOLEAN
      BY DEF IInv, TypeOK, ReadBatch, BatchDone, SigTerm, Drain, Stop, vars
    <3>4. CASE ReadBatch
      <4>1. PICK n \in 1..Concurrency : read + n <= Len(EndpointOf) /\ read' = read + n
        BY <3>4 DEF ReadBatch
      <4> QED BY <3>1, <3>2, <3>3, <4>1
    <3>5. CASE read' = read
      BY <3>1, <3>2, <3>3, <3>5
    <3> QED BY <3>4, <3>5 DEF BatchDone, SigTerm, Drain, Stop, vars
  <2>3. loop' \in {"poll", "spawn", "drain", "stopped", "crashed"}
    BY DEF IInv, TypeOK, ReadBatch, BatchDone, SigTerm, Drain, Stop, vars
  <2>4. spawned' \in 0..read' /\ read' \in 0..Len(EndpointOf)
    BY <2>1, <2>2, PoolAssumption DEF IInv, TypeOK
  <2> QED BY <1>1, <2>2, <2>3, <2>4 DEF IInv, TypeOK
<1>4. PermitsConserved'
  <2>1. Running' = Running /\ \A e \in Endpoints : Holding(e)' = Holding(e)
    BY <1>1 DEF Running, Holding
  <2> QED BY <1>1, <1>2, <2>1 DEF IInv, PermitsConserved
<1>5. Distinct'
  BY <1>1 DEF IInv, Distinct
<1>6. Caught'
  <2>1. spawned' = spawned /\ Running' = Running
    BY <1>1 DEF Running, ReadBatch, BatchDone, SigTerm, Drain, Stop, vars
  <2>2. loop' \in {"poll", "drain", "stopped"} => spawned' = read'
    BY DEF IInv, Caught, ReadBatch, BatchDone, SigTerm, Drain, Stop, vars
  <2>3. loop' = "stopped" => Running = {}
    BY DEF IInv, Caught, ReadBatch, BatchDone, SigTerm, Drain, Stop, vars
  <2> QED BY <1>1, <2>1, <2>2, <2>3 DEF IInv, Caught
<1> QED BY <1>3, <1>4, <1>5, <1>6 DEF IInv

\* A slot is taken for the next message, whose task was not there before.
LEMMA SpawnStep ==
  ASSUME IInv, Spawn
  PROVE  IInv'
<1> DEFINE m == spawned + 1
<1>1. /\ m \in Messages
      /\ task[m] = "none"
  BY PoolAssumption DEF IInv, TypeOK, Caught, Spawn, Messages
<1>2. /\ loop = "spawn" /\ loop' = "spawn"
      /\ task' = [task EXCEPT ![m] = "lookup"]
      /\ UNCHANGED <<shutdown, read, permits, waiters>>
  BY DEF Spawn
<1>3. Shape /\ Slots /\ \A e \in Endpoints : Permits(e) /\ Queue(e)
  BY <1>2, Parts
<1>4. Shape'
  <2>1. spawned' \in 0..read' /\ semaphore' \in Nat
    BY DEF Spawn, IInv, TypeOK
  <2> QED BY <1>1, <1>2, <1>3, <2>1 DEF Shape, TaskPhases
<1>5. Slots'
  <2>1. m \notin Running /\ Running' = Running \cup {m}
    BY <1>1, <1>2, <1>3 DEF Running, Live, Shape
  <2>2. Cardinality(Running') = Cardinality(Running) + 1 /\ Cardinality(Running) \in Nat
    BY <1>1, <2>1, Counting DEF Running
  <2> QED BY <1>3, <2>2 DEF Spawn, Slots, Shape
<1>6. ASSUME NEW e \in Endpoints PROVE Permits(e)' /\ Queue(e)'
  <2>1. Holding(e)' = Holding(e)
    BY <1>1, <1>2, <1>3 DEF Holding, Of, Shape
  <2>2. {x \in Of(e) : task'[x] = "waiting"} = {x \in Of(e) : task[x] = "waiting"}
    BY <1>1, <1>2, <1>3 DEF Of, Shape
  <2> QED BY <1>2, <1>3, <2>1, <2>2 DEF Permits, Queue
<1>7. Distinct'
  BY <1>2 DEF IInv, Distinct
<1>8. Caught'
  <2>1. ASSUME NEW x \in Messages PROVE task'[x] = "none" <=> x > spawned'
    BY <1>1, <1>2, <1>3 DEF IInv, Caught, Shape, Spawn, Messages
  <2> QED BY <1>2, <2>1 DEF Caught
<1> QED BY <1>4, <1>5, <1>6, <1>7, <1>8, Assemble

\* The task of m, which is live, takes a permit or queues for one.
LEMMA GateStep ==
  ASSUME IInv, loop # "crashed", NEW m \in Messages, Gate(m)
  PROVE  IInv'
<1> DEFINE e == EndpointOf[m]
<1>1. /\ e \in Endpoints
      /\ task[m] = "lookup"
      /\ UNCHANGED <<loop, shutdown, read, spawned, semaphore>>
  BY PoolAssumption DEF Gate, Messages
<1>2. Shape /\ Slots /\ \A d \in Endpoints : Permits(d) /\ Queue(d)
  BY Parts
<1>3. PICK to \in {"gated", "waiting"} : task' = [task EXCEPT ![m] = to]
  BY DEF Gate
<1>4. Slots'
  <2>1. Running' = Running
    BY <1>1, <1>2, <1>3 DEF Running, Live, Shape
  <2> QED BY <1>1, <1>2, <2>1 DEF Slots
<1>5. Caught'
  <2>1. Running' = Running
    BY <1>1, <1>2, <1>3 DEF Running, Live, Shape
  <2>2. \A x \in Messages : task'[x] = "none" <=> task[x] = "none"
    BY <1>1, <1>2, <1>3 DEF Shape
  <2> QED BY <1>1, <2>1, <2>2 DEF IInv, Caught
<1>6. task' \in [Messages -> TaskPhases]
  BY <1>2, <1>3 DEF Shape, TaskPhases
<1>7. ASSUME NEW d \in Endpoints, d # e
      PROVE  /\ Holding(d)' = Holding(d)
             /\ {x \in Of(d) : task'[x] = "waiting"} = {x \in Of(d) : task[x] = "waiting"}
  BY <1>2, <1>3, <1>7 DEF Holding, Of, Shape
<1>8. m \in Of(e) /\ m \notin Holding(e)
  BY <1>1 DEF Of, Holding
<1> HIDE DEF e
<1>9. CASE permits[e] > 0 /\ waiters[e] = <<>>
  <2>1. /\ permits' = [permits EXCEPT ![e] = @ - 1]
        /\ task' = [task EXCEPT ![m] = "gated"]
        /\ waiters' = waiters
    BY <1>9 DEF Gate, e
  <2>2. Shape'
    <3>1. permits' \in [Endpoints -> Nat]
      BY <1>1, <1>2, <1>9, <2>1 DEF Shape
    <3> QED BY <1>1, <1>2, <1>6, <2>1, <3>1 DEF Shape
  <2>3. Permits(e)'
    <3>1. Holding(e)' = Holding(e) \cup {m}
      BY <1>2, <1>8, <2>1 DEF Holding, Shape, Of
    <3>2. Cardinality(Holding(e)') = Cardinality(Holding(e)) + 1 /\ Cardinality(Holding(e)) \in Nat
      BY <1>8, <3>1, Counting DEF Holding, Of
    <3>3. permits[e] \in Nat /\ permits'[e] = permits[e] - 1
      BY <1>1, <1>2, <2>1 DEF Shape
    <3> QED BY <1>1, <1>2, <3>2, <3>3 DEF Permits
  <2>4. Queue(e)'
    <3>1. {x \in Of(e) : task'[x] = "waiting"} = {x \in Of(e) : task[x] = "waiting"}
      BY <1>1, <1>2, <2>1 DEF Of, Shape
    <3> QED BY <1>1, <1>2, <1>9, <2>1, <3>1 DEF Queue
  <2>5. ASSUME NEW d \in Endpoints, d # e PROVE Permits(d)' /\ Queue(d)'
    <3>1. permits'[d] = permits[d]
      BY <1>2, <2>1, <2>5 DEF Shape
    <3> QED BY <1>2, <1>7, <2>1, <2>5, <3>1 DEF Permits, Queue
  <2>6. Distinct'
    BY <2>1 DEF IInv, Distinct
  <2> QED BY <1>4, <1>5, <2>2, <2>3, <2>4, <2>5, <2>6, Assemble
<1>10. CASE ~(permits[e] > 0 /\ waiters[e] = <<>>)
  <2>1. /\ waiters' = [waiters EXCEPT ![e] = Append(@, m)]
        /\ task' = [task EXCEPT ![m] = "waiting"]
        /\ permits' = permits
    BY <1>10 DEF Gate, e
  <2>2. m \notin Elems(waiters[e])
    BY <1>1, <1>2 DEF Queue
  <2>3. /\ waiters'[e] = Append(waiters[e], m)
        /\ \A d \in Endpoints \ {e} : waiters'[d] = waiters[d]
    BY <1>1, <1>2, <2>1 DEF Shape
  <2>4. waiters[e] \in Seq(Messages) /\ NoRepeats(waiters[e])
    BY <1>1, <1>2 DEF Shape, IInv, Distinct
  <2>5. /\ Append(waiters[e], m) \in Seq(Messages)
        /\ Append(waiters[e], m) # <<>>
        /\ Elems(Append(waiters[e], m)) = Elems(waiters[e]) \cup {m}
        /\ NoRepeats(Append(waiters[e], m))
    BY <2>2, <2>4, AppendQueue
  <2>6. Shape'
    <3>1. waiters' \in [Endpoints -> Seq(Messages)]
      BY <1>1, <1>2, <2>1, <2>5 DEF Shape
    <3> QED BY <1>1, <1>2, <1>6, <2>1, <3>1 DEF Shape
  <2>7. permits[e] = 0
    BY <1>1, <1>2, <1>10 DEF Queue, Shape
  <2>8. Permits(e)'
    <3>1. Holding(e)' = Holding(e)
      BY <1>1, <1>2, <2>1 DEF Holding, Of, Shape
    <3> QED BY <1>1, <1>2, <2>1, <3>1 DEF Permits
  <2>9. Queue(e)'
    <3>1. {x \in Of(e) : task'[x] = "waiting"} = {x \in Of(e) : task[x] = "waiting"} \cup {m}
      BY <1>2, <1>8, <2>1 DEF Of, Shape
    <3> QED BY <1>1, <1>2, <2>1, <2>3, <2>5, <2>7, <3>1 DEF Queue
  <2>10. ASSUME NEW d \in Endpoints, d # e PROVE Permits(d)' /\ Queue(d)'
    <3>1. waiters'[d] = waiters[d]
      BY <2>3, <2>10
    <3> QED BY <1>2, <1>7, <2>1, <2>10, <3>1 DEF Permits, Queue
  <2>11. Distinct'
    BY <2>3, <2>5 DEF IInv, Distinct
  <2> QED BY <1>4, <1>5, <2>6, <2>8, <2>9, <2>10, <2>11, Assemble
<1> QED BY <1>9, <1>10

\* A task that neither holds a permit nor queues for one moves on; the permits
\* and queues are as before.
LEMMA Apart ==
  ASSUME IInv, loop # "crashed", NEW m \in Messages, NEW to \in {"ungated", "acked", "left"},
         task[m] \in {"lookup", "ungated"}, task' = [task EXCEPT ![m] = to],
         UNCHANGED <<loop, shutdown, read, spawned, permits, waiters>>,
         semaphore' \in Nat, Slots'
  PROVE  IInv'
<1>1. Shape /\ Slots /\ \A d \in Endpoints : Permits(d) /\ Queue(d)
  BY Parts
<1>2. Shape'
  BY <1>1 DEF Shape, TaskPhases
<1>3. ASSUME NEW d \in Endpoints PROVE Permits(d)' /\ Queue(d)'
  <2>1. Holding(d)' = Holding(d)
    BY <1>1 DEF Holding, Of, Shape
  <2>2. {x \in Of(d) : task'[x] = "waiting"} = {x \in Of(d) : task[x] = "waiting"}
    BY <1>1 DEF Of, Shape
  <2> QED BY <1>1, <2>1, <2>2 DEF Permits, Queue
<1>4. Distinct'
  BY DEF IInv, Distinct
<1>5. Caught'
  <2>1. \A x \in Messages : task'[x] = "none" <=> task[x] = "none"
    BY <1>1 DEF Shape
  <2>2. Running # {}
    BY DEF Running, Live
  <2> QED BY <2>1, <2>2 DEF IInv, Caught
<1> QED BY <1>2, <1>3, <1>4, <1>5, Assemble

LEMMA PassStep ==
  ASSUME IInv, loop # "crashed", NEW m \in Messages, Pass(m)
  PROVE  IInv'
<1>1. Shape /\ Slots
  BY Parts
<1>2. /\ task[m] = "lookup" /\ task' = [task EXCEPT ![m] = "ungated"]
      /\ UNCHANGED <<loop, shutdown, read, spawned, permits, waiters, semaphore>>
  BY DEF Pass, sems
<1>3. Running' = Running
  BY <1>1, <1>2 DEF Running, Live, Shape
<1>4. Slots' /\ semaphore' \in Nat
  BY <1>1, <1>2, <1>3 DEF Slots, Shape
<1> QED BY <1>2, <1>4, Apart

\* A live task ends and gives its slot back.
LEMMA SlotBack ==
  ASSUME Shape, Slots, NEW m \in Messages, task[m] \in Live, NEW end \in {"acked", "left"},
         task'[m] = end, semaphore' = semaphore + 1,
         \A x \in Messages \ {m} : task'[x] \in Live <=> task[x] \in Live
  PROVE  Slots' /\ semaphore' \in Nat
<1>1. m \in Running /\ Running' = Running \ {m}
  BY DEF Running, Live
<1>2. Cardinality(Running') = Cardinality(Running) - 1 /\ Cardinality(Running) \in Nat
  BY <1>1, Counting DEF Running
<1> QED BY <1>2 DEF Slots, Shape

LEMMA FinishUngatedStep ==
  ASSUME IInv, loop # "crashed", NEW m \in Messages, FinishUngated(m)
  PROVE  IInv'
<1>1. Shape /\ Slots
  BY Parts
<1>2. /\ task[m] \in {"lookup", "ungated"}
      /\ semaphore' = semaphore + 1
      /\ UNCHANGED <<loop, shutdown, read, spawned, permits, waiters>>
  BY DEF FinishUngated
<1>3. PICK end \in {"acked", "left"} : task' = [task EXCEPT ![m] = end]
  BY DEF FinishUngated
<1>4. task'[m] = end /\ \A x \in Messages \ {m} : task'[x] = task[x]
  BY <1>1, <1>3 DEF Shape
<1>5. Slots' /\ semaphore' \in Nat
  BY <1>1, <1>2, <1>4, SlotBack DEF Live
<1> QED BY <1>2, <1>3, <1>5, Apart

\* The step that matters: the permit of m goes to the head of the queue, which
\* is waiting for this endpoint and is queued nowhere else, or back.
LEMMA FinishStep ==
  ASSUME IInv, loop # "crashed", NEW m \in Messages, Finish(m)
  PROVE  IInv'
<1> DEFINE e == EndpointOf[m]
<1>1. /\ e \in Endpoints
      /\ task[m] = "gated"
      /\ semaphore' = semaphore + 1
      /\ UNCHANGED <<loop, shutdown, read, spawned>>
  BY PoolAssumption DEF Finish, Messages
<1>2. Shape /\ Slots /\ \A d \in Endpoints : Permits(d) /\ Queue(d)
  BY Parts
<1>3. PICK end \in {"acked", "left"} :
        IF waiters[e] = <<>>
        THEN /\ task' = [task EXCEPT ![m] = end]
             /\ permits' = [permits EXCEPT ![e] = @ + 1]
             /\ UNCHANGED waiters
        ELSE /\ task' = [task EXCEPT ![m] = end, ![Head(waiters[e])] = "gated"]
             /\ waiters' = [waiters EXCEPT ![e] = Tail(@)]
             /\ UNCHANGED permits
  BY DEF Finish
<1>4. m \in Of(e) /\ m \in Holding(e)
  BY <1>1 DEF Of, Holding
<1>5. Running # {}
  BY <1>1 DEF Running, Live
<1> HIDE DEF e
<1>6. CASE waiters[e] = <<>>
  <2>1. /\ task' = [task EXCEPT ![m] = end]
        /\ permits' = [permits EXCEPT ![e] = @ + 1]
        /\ waiters' = waiters
    BY <1>3, <1>6
  <2>2. task'[m] = end /\ \A x \in Messages \ {m} : task'[x] = task[x]
    BY <1>2, <2>1 DEF Shape
  <2>3. Slots' /\ semaphore' \in Nat
    BY <1>1, <1>2, <2>2, SlotBack DEF Live
  <2>4. Shape'
    <3>1. permits' \in [Endpoints -> Nat]
      BY <1>1, <1>2, <2>1 DEF Shape
    <3>2. task' \in [Messages -> TaskPhases]
      BY <1>2, <2>1 DEF Shape, TaskPhases
    <3> QED BY <1>1, <1>2, <2>1, <2>3, <3>1, <3>2 DEF Shape
  <2>5. Permits(e)'
    <3>1. Holding(e)' = Holding(e) \ {m}
      BY <2>2 DEF Holding, Of
    <3>2. Cardinality(Holding(e)') = Cardinality(Holding(e)) - 1 /\ Cardinality(Holding(e)) \in Nat
      BY <1>4, <3>1, Counting DEF Holding, Of
    <3>3. permits[e] \in Nat /\ permits'[e] = permits[e] + 1
      BY <1>1, <1>2, <2>1 DEF Shape
    <3> QED BY <1>1, <1>2, <3>2, <3>3 DEF Permits
  <2>6. ASSUME NEW d \in Endpoints
        PROVE {x \in Of(d) : task'[x] = "waiting"} = {x \in Of(d) : task[x] = "waiting"}
    BY <1>1, <2>2 DEF Of
  <2>7. Queue(e)'
    BY <1>1, <1>2, <1>6, <2>1, <2>6 DEF Queue
  <2>8. ASSUME NEW d \in Endpoints, d # e PROVE Permits(d)' /\ Queue(d)'
    <3>1. permits'[d] = permits[d]
      BY <1>2, <2>1, <2>8 DEF Shape
    <3>2. Holding(d)' = Holding(d)
      BY <2>2, <2>8 DEF Holding, Of, e
    <3> QED BY <1>2, <2>1, <2>6, <2>8, <3>1, <3>2 DEF Permits, Queue
  <2>9. Distinct'
    BY <2>1 DEF IInv, Distinct
  <2>10. Caught'
    <3>1. \A x \in Messages : task'[x] = "none" <=> task[x] = "none"
      BY <1>1, <2>2
    <3> QED BY <1>1, <1>5, <3>1 DEF IInv, Caught
  <2> QED BY <2>3, <2>4, <2>5, <2>7, <2>8, <2>9, <2>10, Assemble
<1>7. CASE waiters[e] # <<>>
  <2> DEFINE h == Head(waiters[e])
  <2>1. /\ task' = [task EXCEPT ![m] = end, ![h] = "gated"]
        /\ waiters' = [waiters EXCEPT ![e] = Tail(@)]
        /\ permits' = permits
    BY <1>3, <1>7
  <2>2. waiters[e] \in Seq(Messages) /\ NoRepeats(waiters[e])
    BY <1>1, <1>2 DEF Shape, IInv, Distinct
  <2>3. /\ Tail(waiters[e]) \in Seq(Messages)
        /\ h \in Elems(waiters[e])
        /\ h \in Messages
        /\ Elems(Tail(waiters[e])) = Elems(waiters[e]) \ {h}
        /\ NoRepeats(Tail(waiters[e]))
    BY <1>7, <2>2, TailQueue
  <2> HIDE DEF h
  <2>4. h \in Of(e) /\ task[h] = "waiting" /\ h # m
    BY <1>1, <1>2, <2>3 DEF Queue
  <2>5. /\ task'[m] = end
        /\ task'[h] = "gated"
        /\ \A x \in Messages \ {m, h} : task'[x] = task[x]
    BY <1>2, <2>1, <2>3, <2>4 DEF Shape
  <2>6. /\ waiters'[e] = Tail(waiters[e])
        /\ \A d \in Endpoints \ {e} : waiters'[d] = waiters[d]
    BY <1>1, <1>2, <2>1 DEF Shape
  <2>7. Slots' /\ semaphore' \in Nat
    <3>1. \A x \in Messages \ {m} : task'[x] \in Live <=> task[x] \in Live
      BY <2>4, <2>5 DEF Live
    <3> QED BY <1>1, <1>2, <2>5, <3>1, SlotBack DEF Live
  <2>8. Shape'
    <3>1. waiters' \in [Endpoints -> Seq(Messages)]
      BY <1>1, <1>2, <2>1, <2>3 DEF Shape
    <3>2. task' \in [Messages -> TaskPhases]
      BY <1>2, <2>1 DEF Shape, TaskPhases
    <3> QED BY <1>1, <1>2, <2>1, <2>7, <3>1, <3>2 DEF Shape
  <2>9. Permits(e)'
    <3>1. /\ Holding(e)' = (Holding(e) \ {m}) \cup {h}
          /\ h \notin Holding(e) \ {m}
      BY <2>4, <2>5 DEF Holding, Of
    <3>2. Holding(e) \in SUBSET Messages /\ Holding(e) \ {m} \in SUBSET Messages
      BY DEF Holding, Of
    <3>3. Cardinality(Holding(e) \ {m}) = Cardinality(Holding(e)) - 1
      BY <1>4, <3>2, Counting
    <3>4. Cardinality(Holding(e)') = Cardinality(Holding(e) \ {m}) + 1
      BY <2>3, <3>1, <3>2, Counting
    <3>5. Cardinality(Holding(e)) \in Nat
      BY <3>2, Counting
    <3>6. Cardinality(Holding(e)') = Cardinality(Holding(e))
      BY <3>3, <3>4, <3>5
    <3> QED BY <1>1, <1>2, <2>1, <3>6 DEF Permits
  <2>10. Queue(e)'
    <3>1. {x \in Of(e) : task'[x] = "waiting"} = {x \in Of(e) : task[x] = "waiting"} \ {h}
      BY <1>1, <2>4, <2>5 DEF Of
    <3>2. permits[e] = 0
      BY <1>1, <1>2, <1>7 DEF Queue
    <3> QED BY <1>1, <1>2, <2>1, <2>3, <2>6, <3>1, <3>2 DEF Queue
  <2>11. ASSUME NEW d \in Endpoints, d # e PROVE Permits(d)' /\ Queue(d)'
    <3>1. waiters'[d] = waiters[d]
      BY <2>6, <2>11
    <3>2. m \notin Of(d) /\ h \notin Of(d)
      BY <1>4, <2>4, <2>11 DEF Of
    <3>3. /\ Holding(d)' = Holding(d)
          /\ {x \in Of(d) : task'[x] = "waiting"} = {x \in Of(d) : task[x] = "waiting"}
      BY <2>5, <3>2 DEF Holding, Of
    <3> QED BY <1>2, <2>1, <2>11, <3>1, <3>3 DEF Permits, Queue
  <2>12. Distinct'
    BY <2>3, <2>6 DEF IInv, Distinct
  <2>13. Caught'
    <3>1. \A x \in Messages : task'[x] = "none" <=> task[x] = "none"
      BY <1>1, <2>4, <2>5
    <3> QED BY <1>1, <1>5, <3>1 DEF IInv, Caught
  <2> QED BY <2>7, <2>8, <2>9, <2>10, <2>11, <2>12, <2>13, Assemble
<1> QED BY <1>6, <1>7

LEMMA CrashStep ==
  ASSUME IInv, Crash
  PROVE  IInv'
<1>1. loop' = "crashed" /\ UNCHANGED <<shutdown, read, spawned, semaphore, permits, waiters>>
  BY DEF Crash, sems
<1>2. TypeOK'
  <2>1. task' \in [Messages -> TaskPhases]
    BY DEF IInv, TypeOK, Crash, TaskPhases
  <2> QED BY <1>1, <2>1 DEF IInv, TypeOK
<1>3. PermitsConserved'
  BY <1>1 DEF PermitsConserved
<1>4. Distinct'
  BY <1>1 DEF IInv, Distinct
<1>5. Caught'
  <2>1. \A x \in Messages : task'[x] = "none" <=> task[x] = "none"
    BY DEF Crash, Live
  <2> QED BY <1>1, <2>1 DEF IInv, Caught
<1> QED BY <1>2, <1>3, <1>4, <1>5 DEF IInv

-----------------------------------------------------------------------------
(* The theorems. *)

\* The inductive invariant holds in every reachable state of the dispatcher.
THEOREM Invariance == Spec => []IInv
<1>1. IInv /\ [Next]_vars => IInv'
  <2> SUFFICES ASSUME IInv, [Next]_vars PROVE IInv'
    OBVIOUS
  <2>1. CASE Spawn
    BY <2>1, SpawnStep
  <2>2. CASE ReadBatch \/ BatchDone \/ SigTerm \/ Drain \/ Stop \/ UNCHANGED vars
    BY <2>2, QuietStep
  <2>3. CASE Crash
    BY <2>3, CrashStep
  <2>4. ASSUME NEW m \in Messages, Run(m), loop # "crashed" PROVE IInv'
    BY <2>4, GateStep, PassStep, FinishUngatedStep, FinishStep DEF Run
  <2> QED BY <2>1, <2>2, <2>3, <2>4 DEF Next, Loop
<1> QED BY <1>1, InitIInv, PTL DEF Spec

\* The dispatcher's state keeps its types: no semaphore goes below zero or above
\* what the settings gave it, and no task runs for a message that was not read.
THEOREM TypeCorrect == Spec => []TypeOK
BY Invariance, PTL DEF IInv

\* However tasks end, and through every hand-over of a permit to a waiter,
\* the finally block of _handle_and_ack conserves the slots and the permits, and
\* no task queues for a permit while one is free.
THEOREM PermitsAreConserved == Spec => []PermitsConserved
BY Invariance, PTL DEF IInv

\* A dispatcher that stops on SIGTERM has ended the task of every message it read.
THEOREM StopsAreDrained == Spec => []StopsDrained
<1>1. IInv => StopsDrained
  <2> SUFFICES ASSUME IInv, loop = "stopped", NEW m \in 1..read
               PROVE  task[m] \in {"acked", "left"}
    BY DEF StopsDrained
  <2>1. m \in Messages /\ task[m] # "none"
    BY PoolAssumption DEF IInv, TypeOK, Caught, Messages
  <2>2. task[m] \notin Live
    BY <2>1 DEF IInv, Caught, Running
  <2> QED BY <2>1, <2>2 DEF IInv, TypeOK, TaskPhases, Live
<1> QED BY <1>1, Invariance, PTL
=============================================================================
