--------------------------- MODULE DispatcherPool ---------------------------
(***************************************************************************)
(* The dispatcher process's own concurrency: one loop that reads batches   *)
(* and takes a slot of a global semaphore per message before it spawns a   *)
(* task, and tasks that take a permit of their endpoint's semaphore for    *)
(* the time of the attempt.  What an attempt does is DeliveryEngine's.     *)
(* Semaphores are asyncio's: a release hands the permit to the first       *)
(* waiter.  The process stops by draining after SIGTERM, or by an          *)
(* exception in its loop, and a new one starts afresh.                     *)
(***************************************************************************)
EXTENDS Naturals, Sequences, FiniteSets

CONSTANTS
  Endpoints,
  EndpointOf,             \* the stream: message 1, 2, ... and its endpoint
  Concurrency,            \* settings.dispatcher_concurrency
  PerEndpointConcurrency  \* settings.dispatcher_per_endpoint_concurrency

ASSUME PoolAssumption ==
  /\ EndpointOf \in Seq(Endpoints)
  /\ Concurrency \in Nat \ {0}
  /\ PerEndpointConcurrency \in Nat \ {0}

VARIABLES
  loop,       \* where run_forever is
  shutdown,   \* SIGTERM received
  read,       \* messages read so far
  spawned,    \* messages given a task so far
  task,       \* per message: how far its task is
  semaphore,  \* free slots
  permits,    \* per endpoint: free permits
  waiters     \* per endpoint: tasks waiting for a permit, in order

vars == <<loop, shutdown, read, spawned, task, semaphore, permits, waiters>>
sems == <<semaphore, permits, waiters>>

Messages == 1..Len(EndpointOf)

-----------------------------------------------------------------------------
TaskPhases == {"none", "lookup", "waiting", "gated", "ungated", "acked", "left"}
Live == {"lookup", "waiting", "gated", "ungated"}

Running == {m \in Messages : task[m] \in Live}
Of(e) == {m \in Messages : EndpointOf[m] = e}
Holding(e) == {m \in Of(e) : task[m] = "gated"}

\* XREADGROUP COUNT concurrency: some of what is there.
ReadBatch ==
  /\ loop = "poll"
  /\ ~shutdown
  /\ \E n \in 1..Concurrency :
       /\ read + n <= Len(EndpointOf)
       /\ read' = read + n
  /\ loop' = "spawn"
  /\ UNCHANGED <<shutdown, spawned, task, sems>>

\* Mutant of Spawn: the task is spawned without taking a slot.
SpawnUnbounded ==
  /\ loop = "spawn"
  /\ spawned < read
  /\ spawned' = spawned + 1
  /\ task' = [task EXCEPT ![spawned + 1] = "lookup"]
  /\ UNCHANGED <<loop, shutdown, read, sems>>

\* for message in messages: the loop waits here for a free slot.
Spawn ==
  /\ loop = "spawn"
  /\ spawned < read
  /\ semaphore > 0
  /\ semaphore' = semaphore - 1
  /\ spawned' = spawned + 1
  /\ task' = [task EXCEPT ![spawned + 1] = "lookup"]
  /\ UNCHANGED <<loop, shutdown, read, permits, waiters>>

BatchDone ==
  /\ loop = "spawn"
  /\ spawned = read
  /\ loop' = "poll"
  /\ UNCHANGED <<shutdown, read, spawned, task, sems>>

\* _lookup_endpoint_id found the delivery: take a permit of its endpoint, or
\* queue for one, with the slot in hand.
Gate(m) ==
  LET e == EndpointOf[m] IN
  /\ task[m] = "lookup"
  /\ IF permits[e] > 0 /\ waiters[e] = <<>>
     THEN /\ permits' = [permits EXCEPT ![e] = @ - 1]
          /\ task' = [task EXCEPT ![m] = "gated"]
          /\ UNCHANGED waiters
     ELSE /\ waiters' = [waiters EXCEPT ![e] = Append(@, m)]
          /\ task' = [task EXCEPT ![m] = "waiting"]
          /\ UNCHANGED permits
  /\ UNCHANGED <<loop, shutdown, read, spawned, semaphore>>

\* The delivery has no committed row: the attempt goes on without a permit.
Pass(m) ==
  /\ task[m] = "lookup"
  /\ task' = [task EXCEPT ![m] = "ungated"]
  /\ UNCHANGED <<loop, shutdown, read, spawned, sems>>

\* The lookup, or an attempt without a permit, ends: acknowledged, or left
\* pending by an exception; finally releases the slot.
FinishUngated(m) ==
  /\ \/ task[m] = "ungated" /\ \E end \in {"acked", "left"} : task' = [task EXCEPT ![m] = end]
     \/ task[m] = "lookup" /\ task' = [task EXCEPT ![m] = "left"]
  /\ semaphore' = semaphore + 1
  /\ UNCHANGED <<loop, shutdown, read, spawned, permits, waiters>>

\* Mutants of Finish: an exception keeps the slot; it keeps the permit; nobody
\* wakes the waiter.
FinishKeepsSlot(m) ==
  LET e == EndpointOf[m] IN
  /\ task[m] = "gated"
  /\ \E end \in {"acked", "left"} :
       /\ IF waiters[e] = <<>>
          THEN /\ task' = [task EXCEPT ![m] = end]
               /\ permits' = [permits EXCEPT ![e] = @ + 1]
               /\ UNCHANGED waiters
          ELSE /\ task' = [task EXCEPT ![m] = end, ![Head(waiters[e])] = "gated"]
               /\ waiters' = [waiters EXCEPT ![e] = Tail(@)]
               /\ UNCHANGED permits
       /\ semaphore' = IF end = "acked" THEN semaphore + 1 ELSE semaphore
  /\ UNCHANGED <<loop, shutdown, read, spawned>>
FinishKeepsPermit(m) ==
  /\ task[m] = "gated"
  /\ task' = [task EXCEPT ![m] = "left"]
  /\ semaphore' = semaphore + 1
  /\ UNCHANGED <<loop, shutdown, read, spawned, permits, waiters>>
FinishWakesNobody(m) ==
  LET e == EndpointOf[m] IN
  /\ task[m] = "gated"
  /\ \E end \in {"acked", "left"} : task' = [task EXCEPT ![m] = end]
  /\ permits' = [permits EXCEPT ![e] = @ + 1]
  /\ semaphore' = semaphore + 1
  /\ UNCHANGED <<loop, shutdown, read, spawned, waiters>>

\* finally: the permit goes to the first waiter of the endpoint, the slot back.
Finish(m) ==
  LET e == EndpointOf[m] IN
  /\ task[m] = "gated"
  /\ \E end \in {"acked", "left"} :
       IF waiters[e] = <<>>
       THEN /\ task' = [task EXCEPT ![m] = end]
            /\ permits' = [permits EXCEPT ![e] = @ + 1]
            /\ UNCHANGED waiters
       ELSE /\ task' = [task EXCEPT ![m] = end, ![Head(waiters[e])] = "gated"]
            /\ waiters' = [waiters EXCEPT ![e] = Tail(@)]
            /\ UNCHANGED permits
  /\ semaphore' = semaphore + 1
  /\ UNCHANGED <<loop, shutdown, read, spawned>>

SigTerm ==
  /\ ~shutdown
  /\ loop \notin {"stopped", "crashed"}
  /\ shutdown' = TRUE
  /\ UNCHANGED <<loop, read, spawned, task, sems>>

\* The loop sees the signal between two batches, then waits for its tasks.
Drain ==
  /\ loop = "poll"
  /\ shutdown
  /\ loop' = "drain"
  /\ UNCHANGED <<shutdown, read, spawned, task, sems>>

\* Mutant of Stop: the tasks are not awaited.
StopAtOnce ==
  /\ loop = "drain"
  /\ loop' = "stopped"
  /\ UNCHANGED <<shutdown, read, spawned, task, sems>>

\* gather(in_flight)
Stop ==
  /\ loop = "drain"
  /\ Running = {}
  /\ loop' = "stopped"
  /\ UNCHANGED <<shutdown, read, spawned, task, sems>>

\* Redis fails under the loop: run_forever ends and its tasks with it.
Crash ==
  /\ loop \in {"poll", "spawn"}
  /\ loop' = "crashed"
  /\ task' = [m \in Messages |-> IF task[m] \in Live THEN "left" ELSE task[m]]
  /\ UNCHANGED <<shutdown, read, spawned, sems>>

-----------------------------------------------------------------------------
Init ==
  /\ loop = "poll"
  /\ shutdown = FALSE
  /\ read = 0
  /\ spawned = 0
  /\ task = [m \in Messages |-> "none"]
  /\ semaphore = Concurrency
  /\ permits = [e \in Endpoints |-> PerEndpointConcurrency]
  /\ waiters = [e \in Endpoints |-> <<>>]

Run(m) == Gate(m) \/ Pass(m) \/ FinishUngated(m) \/ Finish(m)

Loop == ReadBatch \/ Spawn \/ BatchDone \/ Drain \/ Stop

Next == Loop \/ SigTerm \/ Crash \/ \E m \in Messages : Run(m) /\ loop # "crashed"

\* Sends have timeouts, the stores answer, and a destination is assumed not
\* to trickle bytes for ever (the read timeout bounds a read, not a response), so
\* a task that holds what it needs ends; nothing obliges anyone to send SIGTERM.
Spec == Init /\ [][Next]_vars /\ WF_vars(Loop) /\ \A m \in Messages : WF_vars(Run(m))

-----------------------------------------------------------------------------
(* Properties. *)

\* Types; tasks are only spawned for messages that were read.
TypeOK ==
  /\ loop \in {"poll", "spawn", "drain", "stopped", "crashed"}
  /\ shutdown \in BOOLEAN
  /\ spawned \in 0..read
  /\ read \in 0..Len(EndpointOf)
  /\ task \in [Messages -> TaskPhases]
  /\ semaphore \in 0..Concurrency
  /\ permits \in [Endpoints -> 0..PerEndpointConcurrency]
  /\ waiters \in [Endpoints -> Seq(Messages)]

\* Slots and permits are neither lost nor made, whichever way a task ends (an
\* exception in the lookup, with or without a permit, a hand-over to a waiter),
\* and no task waits while a permit is free.
PermitsConserved ==
  loop # "crashed" =>
    /\ semaphore + Cardinality(Running) = Concurrency
    /\ \A e \in Endpoints :
         /\ permits[e] + Cardinality(Holding(e)) = PerEndpointConcurrency
         /\ waiters[e] # <<>> => permits[e] = 0
         /\ {waiters[e][i] : i \in 1..Len(waiters[e])} = {m \in Of(e) : task[m] = "waiting"}

\* A graceful stop finishes everything it read: nothing is left to the reaper
\* only because the process was told to stop.
StopsDrained ==
  loop = "stopped" => \A m \in 1..read : task[m] \in {"acked", "left"}

\* Every message read gets its turn, although slots and permits are held across
\* waits, and the queue for an endpoint's permit may be longer than its permits.
EveryMessageHandled == \A m \in Messages : m <= read ~> task[m] \in {"acked", "left"} \/ loop = "crashed"

\* A process told to stop does stop: the drain is not held up by a task that
\* queues for a permit behind another one.
ShutdownEnds == shutdown ~> loop \in {"stopped", "crashed"}

\* "A single dead/slow destination can't consume the whole pool's concurrency
\* budget even when the pool has room" (the comment over endpoint_semaphores):
\* the slots held for one endpoint, by its attempts in progress and by its tasks
\* that queue for a permit, are never all the slots there are.
PoolShared ==
  \A e \in Endpoints :
    Cardinality({m \in Of(e) : task[m] \in {"gated", "waiting"}}) < Concurrency
=============================================================================
