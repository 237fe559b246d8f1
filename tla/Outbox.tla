------------------------------- MODULE Outbox -------------------------------
(***************************************************************************)
(* relay.workers.relay: claim a batch of pending outbox entries under row  *)
(* locks that other relays skip, fan each event out to the endpoints that  *)
(* are active and subscribed when it is processed, mark it processed, and  *)
(* commit the batch as one transaction.  Endpoints are updated and deleted *)
(* meanwhile, and a relay may crash at any step.  Entries come from Ingest.*)
(***************************************************************************)
EXTENDS Naturals, FiniteSets

CONSTANTS
  Events,      \* event ids, all of one tenant and one type
  Endpoints,   \* endpoints of that tenant subscribed to the type
  Steady,      \* those that are never updated or deleted
  Relays,      \* relay processes
  BatchSize,   \* settings.outbox_claim_batch_size
  MaxCrashes   \* bound: relay crashes

ASSUME OutboxAssumption ==
  /\ Steady \subseteq Endpoints
  /\ BatchSize \in Nat \ {0}
  /\ MaxCrashes \in Nat

VARIABLES
  outbox,      \* outbox table: event id -> "none", "pending" or "processed"
  registry,    \* endpoints table: "active" (and subscribed), "paused" or "gone"
  deliveries,  \* committed deliveries per event and endpoint
  relay,       \* each relay's open transaction
  crashes      \* crashes so far

vars == <<outbox, registry, deliveries, relay, crashes>>

-----------------------------------------------------------------------------
Pair == Events \X Endpoints

\* batch: locked entries; done: those marked processed; entry and todo: the event
\* in hand and the listed endpoints left; made: inserted and published deliveries.
Transaction == [batch : SUBSET Events, done : SUBSET Events, todo : SUBSET Pair,
                made : SUBSET Pair]
NoTransaction == [batch |-> {}, done |-> {}, todo |-> {}, made |-> {}]

Claimed == UNION {relay[r].batch : r \in Relays}
Active == {e \in Endpoints : registry[e] = "active"}

\* Mutant of Claim: no row locks.
ClaimUnlocked(r) ==
  /\ relay[r].batch = {}
  /\ \E batch \in SUBSET {v \in Events : outbox[v] = "pending"} :
       /\ Cardinality(batch) \in 1..BatchSize
       /\ relay' = [relay EXCEPT ![r].batch = batch]
  /\ UNCHANGED <<outbox, registry, deliveries, crashes>>

\* SELECT ... WHERE status = 'pending' LIMIT n FOR UPDATE SKIP LOCKED.
Claim(r) ==
  /\ relay[r].batch = {}
  /\ \E batch \in SUBSET {v \in Events \ Claimed : outbox[v] = "pending"} :
       /\ Cardinality(batch) \in 1..BatchSize
       /\ relay' = [relay EXCEPT ![r].batch = batch]
  /\ UNCHANGED <<outbox, registry, deliveries, crashes>>

\* _process_entry: the entry's endpoints are listed once, without a lock; with
\* none there is nothing to fan out.
List(r) ==
  /\ relay[r].todo = {}
  /\ \E v \in relay[r].batch \ relay[r].done :
       relay' = [relay EXCEPT ![r].todo = {v} \X Active, ![r].done = @ \cup {v}]
  /\ UNCHANGED <<outbox, registry, deliveries, crashes>>

\* One delivery is inserted and published.  The insert needs its endpoint: the
\* foreign key fails once it is deleted, and holds deletion back from then on.
FanOut(r) ==
  /\ \E p \in relay[r].todo :
       /\ registry[p[2]] # "gone"
       /\ relay' = [relay EXCEPT ![r].todo = @ \ {p}, ![r].made = @ \cup {p}]
  /\ UNCHANGED <<outbox, registry, deliveries, crashes>>

Commit(r) ==
  LET t == relay[r] IN
  /\ t.batch # {}
  /\ t.done = t.batch
  /\ t.todo = {}
  /\ outbox' = [v \in Events |-> IF v \in t.done THEN "processed" ELSE outbox[v]]
  /\ deliveries' = [p \in Pair |-> deliveries[p] + (IF p \in t.made THEN 1 ELSE 0)]
  /\ relay' = [relay EXCEPT ![r] = NoTransaction]
  /\ UNCHANGED <<registry, crashes>>

\* Mutant of ForeignKey: the exception is swallowed and the insert tried again.
ForeignKeySwallowed(r) ==
  /\ \E p \in relay[r].todo : registry[p[2]] = "gone"
  /\ UNCHANGED vars

\* The insert fails on an endpoint deleted since it was listed: the exception
\* ends the process, the transaction rolls back, the process is restarted.
ForeignKey(r) ==
  /\ \E p \in relay[r].todo : registry[p[2]] = "gone"
  /\ relay' = [relay EXCEPT ![r] = NoTransaction]
  /\ UNCHANGED <<outbox, registry, deliveries, crashes>>

\* A crash, or Redis or PostgreSQL failing in the middle of the batch.
Crash(r) ==
  /\ relay[r].batch # {}
  /\ crashes < MaxCrashes
  /\ crashes' = crashes + 1
  /\ relay' = [relay EXCEPT ![r] = NoTransaction]
  /\ UNCHANGED <<outbox, registry, deliveries>>

-----------------------------------------------------------------------------
(* The endpoints API. *)

\* PATCH: the endpoint is paused or resumed, or its subscriptions change, so that
\* events of this type are listed for it no more, or again.
Update(e) ==
  /\ e \notin Steady
  /\ registry[e] \in {"active", "paused"}
  /\ registry' = [registry EXCEPT ![e] = IF @ = "active" THEN "paused" ELSE "active"]
  /\ UNCHANGED <<outbox, deliveries, relay, crashes>>

\* Cascades to the deliveries; waits for a transaction that references it.
Delete(e) ==
  /\ e \notin Steady
  /\ registry[e] # "gone"
  /\ \A r \in Relays : \A p \in relay[r].made : p[2] # e
  /\ registry' = [registry EXCEPT ![e] = "gone"]
  /\ deliveries' = [p \in Pair |-> IF p[2] = e THEN 0 ELSE deliveries[p]]
  /\ UNCHANGED <<outbox, relay, crashes>>

-----------------------------------------------------------------------------
RelayInit ==
  /\ registry = [e \in Endpoints |-> "active"]
  /\ deliveries = [p \in Pair |-> 0]
  /\ relay = [r \in Relays |-> NoTransaction]
  /\ crashes = 0

Init == RelayInit /\ outbox \in [Events -> {"none", "pending"}]

RunOnce(r) == Claim(r) \/ List(r) \/ FanOut(r) \/ ForeignKey(r) \/ Commit(r)

Next ==
  \/ \E r \in Relays : RunOnce(r) \/ Crash(r)
  \/ \E e \in Endpoints : Update(e) \/ Delete(e)

Spec == Init /\ [][Next]_vars

-----------------------------------------------------------------------------
(* Properties. *)

\* Types of the tables and of the open transactions.
TypeOK ==
  /\ outbox \in [Events -> {"none", "pending", "processed"}]
  /\ registry \in [Endpoints -> {"active", "paused", "gone"}]
  /\ deliveries \in [Pair -> Nat]
  /\ relay \in [Relays -> Transaction]
  /\ crashes \in 0..MaxCrashes

\* Fan-out is all or nothing and happens once: an entry that is still pending has
\* no committed delivery, one that is processed has exactly one for every
\* endpoint that was there throughout, and nothing ever has two, whatever relays
\* raced for the entry and however often one of them crashed in the middle.
FanOutOnce ==
  \A v \in Events, e \in Endpoints :
    /\ deliveries[<<v, e>>] <= 1
    /\ outbox[v] # "processed" => deliveries[<<v, e>>] = 0
    /\ outbox[v] = "processed" /\ e \in Steady => deliveries[<<v, e>>] = 1
=============================================================================
