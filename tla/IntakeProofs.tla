---------------------------- MODULE IntakeProofs ----------------------------
(***************************************************************************)
(* Proofs about Intake, for any events, keys, bodies and endpoints, and    *)
(* any number of requests and relays.                                      *)
(*                                                                         *)
(* The API's half of the invariant says what the unique constraint does    *)
(* for a transaction that has inserted and not committed: its event id and *)
(* its key are its own (Inserted, Apart).  The relay's half says what the  *)
(* row locks do: the batches of two relays share no entry, and their       *)
(* entries stay pending until they commit (Locks), so that a delivery in a *)
(* transaction is the first one of its pair.  The two halves meet in the   *)
(* outbox table (Entered).                                                 *)
(***************************************************************************)
EXTENDS Intake, TLAPS

\* What a request in progress holds; an inserted event is not yet committed, and
\* nobody has committed its key.
Inserted ==
  \A c \in Requests :
    /\ request[c].phase # "idle" => request[c].key \in Keys /\ request[c].body \in Bodies
    /\ request[c].phase = "inserted" =>
         /\ request[c].event \in Events
         /\ events[request[c].event] = Api!NoEvent
         /\ Api!WithKey(request[c].key) = {}

\* Two open transactions never hold the same event id or the same key.
Apart ==
  \A c, o \in Requests :
    c # o /\ request[c].phase = "inserted" /\ request[o].phase = "inserted" =>
      request[c].event # request[o].event /\ request[c].key # request[o].key

\* An event has an outbox entry if and only if it is committed.
Entered == \A v \in Events : outbox[v] = "none" <=> events[v] = Api!NoEvent

\* The unique constraint on committed events.
Unique ==
  \A v, w \in Events :
    events[v] # Api!NoEvent /\ events[w] # Api!NoEvent /\ events[v].key = events[w].key => v = w

\* An answer names a committed event with its key; 202 if the body is the same.
Answered ==
  \A r \in replies :
    /\ events[r.event] # Api!NoEvent
    /\ events[r.event].key = r.key
    /\ r.status = 202 <=> events[r.event].body = r.body

ApiInv == Inserted /\ Apart /\ Unique /\ Answered

\* A relay's transaction: locked entries are pending, deliveries are of entries
\* that it marked, and a marked entry has one for each steady endpoint.
Locks ==
  \A r \in Relays :
    /\ \A v \in relay[r].batch : outbox[v] = "pending"
    /\ relay[r].done \subseteq relay[r].batch
    /\ relay[r].todo \cup relay[r].made \subseteq relay[r].done \X Endpoints
    /\ relay[r].done \X Steady \subseteq relay[r].todo \cup relay[r].made

\* SKIP LOCKED.
Disjoint == \A r, q \in Relays : r # q => relay[r].batch \cap relay[q].batch = {}

SteadyActive == \A e \in Steady : registry[e] = "active"

RelayInv == Locks /\ Disjoint /\ SteadyActive /\ FanOutOnce

\* The inductive invariant.
IInv == IntakeTypeOK /\ ApiInv /\ Entered /\ RelayInv

-----------------------------------------------------------------------------
(* The API's steps. *)

USE DEF Api!None

LEMMA ApiInit ==
  ASSUME Api!Init
  PROVE  Api!TypeOK /\ ApiInv /\ Entered
<1>1. Api!TypeOK
  BY DEF Api!Init, Api!TypeOK, Api!Request, Api!IdleRequest, Api!Phases
<1>2. \A c \in Requests : request[c].phase = "idle"
  BY DEF Api!Init, Api!IdleRequest
<1> QED BY <1>1, <1>2 DEF Api!Init, ApiInv, Inserted, Apart, Unique, Answered, Entered

\* A committed event is not the NoEvent of an unused id.
LEMMA EventIsSome ==
  ASSUME NEW k \in Keys, NEW b
  PROVE  [key |-> k, body |-> b] # Api!NoEvent
BY IntakeAssumption DEF Api!NoEvent

\* A request ends: its transaction, if any, is over, the tables are unchanged.
LEMMA Idles ==
  ASSUME Api!TypeOK, ApiInv, Entered, NEW c \in Requests,
         request' = [request EXCEPT ![c] = Api!IdleRequest], UNCHANGED <<events, outbox>>
  PROVE  /\ request' \in [Requests -> Api!Request]
         /\ Inserted' /\ Apart' /\ Unique' /\ Entered'
<1>1. request'[c].phase = "idle" /\ \A o \in Requests \ {c} : request'[o] = request[o]
  BY DEF Api!TypeOK, Api!IdleRequest
<1>2. Api!IdleRequest \in Api!Request
  BY DEF Api!Request, Api!IdleRequest, Api!Phases
<1>3. request' \in [Requests -> Api!Request]
  BY <1>2 DEF Api!TypeOK
<1>4. \A k : Api!WithKey(k)' = Api!WithKey(k)
  BY DEF Api!WithKey
<1>5. Inserted'
  BY <1>1, <1>4 DEF ApiInv, Inserted
<1>6. Apart'
  BY <1>1 DEF ApiInv, Apart
<1> QED BY <1>3, <1>5, <1>6 DEF ApiInv, Unique, Entered

\* A request is resolved against a committed event.
LEMMA ResolveKeeps ==
  ASSUME Api!TypeOK, ApiInv, Entered, NEW c \in Requests, NEW k \in Keys, NEW b \in Bodies,
         NEW v \in Api!WithKey(k), Api!Resolve(c, k, b, v)
  PROVE  Api!TypeOK' /\ ApiInv' /\ Entered'
<1> DEFINE s == IF events[v].body = b THEN 202 ELSE 409
           a == [key |-> k, body |-> b, event |-> v, status |-> s]
<1>1. /\ UNCHANGED <<events, outbox>>
      /\ request' = [request EXCEPT ![c] = Api!IdleRequest]
      /\ replies' = replies \cup {a} \/ replies' = replies
  BY DEF Api!Resolve, Api!Respond
<1>2. v \in Events /\ events[v] # Api!NoEvent /\ events[v].key = k
  BY DEF Api!WithKey
<1>3. /\ request' \in [Requests -> Api!Request]
      /\ Inserted' /\ Apart' /\ Unique' /\ Entered'
  BY <1>1, Idles
<1>4. s \in {202, 409} /\ (s = 202 <=> events[v].body = b)
  OBVIOUS
<1>5. a.key = k /\ a.body = b /\ a.event = v /\ a.status = s
  OBVIOUS
<1>6. a \in Api!Reply
  BY <1>2, <1>4 DEF Api!Reply
<1> HIDE DEF a, s
<1>7. Answered'
  BY <1>1, <1>2, <1>4, <1>5 DEF ApiInv, Answered
<1>8. Api!TypeOK'
  BY <1>1, <1>3, <1>6 DEF Api!TypeOK
<1> QED BY <1>3, <1>7, <1>8 DEF ApiInv

LEMMA LookupKeeps ==
  ASSUME Api!TypeOK, ApiInv, Entered, NEW c \in Requests, Api!Lookup(c)
  PROVE  Api!TypeOK' /\ ApiInv' /\ Entered'
<1>1. PICK o \in Offers :
        IF Api!WithKey(o[1]) = {}
        THEN /\ request' = [request EXCEPT ![c].phase = "insert", ![c].key = o[1],
                                           ![c].body = o[2]]
             /\ UNCHANGED <<events, outbox, replies>>
        ELSE \E v \in Api!WithKey(o[1]) : Api!Resolve(c, o[1], o[2], v)
  BY DEF Api!Lookup
<1>2. o[1] \in Keys /\ o[2] \in Bodies
  BY IntakeAssumption
<1>3. CASE Api!WithKey(o[1]) = {}
  <2>1. /\ request' = [request EXCEPT ![c].phase = "insert", ![c].key = o[1], ![c].body = o[2]]
        /\ UNCHANGED <<events, outbox, replies>>
    BY <1>1, <1>3
  <2>2. /\ request[c] \in Api!Request
        /\ request'[c].phase = "insert"
        /\ request'[c].key = o[1] /\ request'[c].body = o[2]
        /\ request'[c].event = request[c].event
        /\ \A d \in Requests \ {c} : request'[d] = request[d]
    BY <2>1 DEF Api!TypeOK, Api!Request
  <2>3. request' \in [Requests -> Api!Request]
    <3> DEFINE q == [request[c] EXCEPT !.phase = "insert", !.key = o[1], !.body = o[2]]
    <3>1. q \in Api!Request
      BY <1>2, <2>2 DEF Api!Request, Api!Phases
    <3>2. request' = [request EXCEPT ![c] = q]
      BY <2>1 DEF Api!TypeOK
    <3> QED BY <3>1, <3>2 DEF Api!TypeOK
  <2>4. Api!TypeOK'
    BY <2>1, <2>3 DEF Api!TypeOK
  <2>5. \A k : Api!WithKey(k)' = Api!WithKey(k)
    BY <2>1 DEF Api!WithKey
  <2>6. Inserted'
    BY <1>2, <2>1, <2>2, <2>5 DEF ApiInv, Inserted
  <2>7. Apart'
    BY <2>2 DEF ApiInv, Apart
  <2>8. Unique' /\ Answered' /\ Entered'
    BY <2>1 DEF ApiInv, Unique, Answered, Entered
  <2> QED BY <2>4, <2>6, <2>7, <2>8 DEF ApiInv
<1>4. CASE Api!WithKey(o[1]) # {}
  <2>1. PICK v \in Api!WithKey(o[1]) : Api!Resolve(c, o[1], o[2], v)
    BY <1>1, <1>4
  <2> QED BY <1>2, <2>1, ResolveKeeps
<1> QED BY <1>3, <1>4

\* The insert: the unique index lets nobody hold the key at the same time.
LEMMA InsertKeeps ==
  ASSUME Api!TypeOK, ApiInv, Entered, NEW c \in Requests, Api!Insert(c)
  PROVE  Api!TypeOK' /\ ApiInv' /\ Entered'
<1> DEFINE k == request[c].key
<1>1. request[c].phase = "insert" /\ k \in Keys /\ request[c].body \in Bodies
  BY DEF Api!Insert, ApiInv, Inserted
<1>2. CASE Api!WithKey(k) = {}
  <2>1. PICK v \in Events :
          /\ events[v] = Api!NoEvent
          /\ \A o \in Requests : request[o].phase = "inserted" => request[o].event # v
          /\ request' = [request EXCEPT ![c].phase = "inserted", ![c].event = v]
    BY <1>2 DEF Api!Insert
  <2>2. UNCHANGED <<events, outbox, replies>>
    BY <1>2 DEF Api!Insert
  <2>3. \A o \in Requests \ {c} : request[o].phase = "inserted" => request[o].key # k
    BY DEF Api!Insert, Api!KeyInFlight
  <2>4. /\ request'[c].phase = "inserted"
        /\ request'[c].key = k /\ request'[c].body = request[c].body
        /\ request'[c].event = v
        /\ \A d \in Requests \ {c} : request'[d] = request[d]
    BY <2>1 DEF Api!TypeOK, Api!Request
  <2>5. request' \in [Requests -> Api!Request]
    <3> DEFINE q == [request[c] EXCEPT !.phase = "inserted", !.event = v]
    <3>1. request[c] \in Api!Request
      BY DEF Api!TypeOK
    <3>2. q \in Api!Request
      BY <3>1 DEF Api!Request, Api!Phases
    <3>3. request' = [request EXCEPT ![c] = q]
      BY <2>1 DEF Api!TypeOK
    <3> QED BY <3>2, <3>3 DEF Api!TypeOK
  <2>6. Api!TypeOK'
    BY <2>2, <2>5 DEF Api!TypeOK
  <2>7. \A x : Api!WithKey(x)' = Api!WithKey(x)
    BY <2>2 DEF Api!WithKey
  <2> HIDE DEF k
  <2>8. Inserted'
    BY <1>1, <1>2, <2>1, <2>2, <2>4, <2>7 DEF ApiInv, Inserted
  <2>9. Apart'
    <3> SUFFICES ASSUME NEW d \in Requests, NEW o \in Requests, d # o,
                        request'[d].phase = "inserted", request'[o].phase = "inserted"
                 PROVE  request'[d].event # request'[o].event /\ request'[d].key # request'[o].key
      BY DEF Apart
    <3>1. CASE d # c /\ o # c
      BY <2>4, <3>1 DEF ApiInv, Apart
    <3>2. ASSUME NEW x \in Requests \ {c}, request'[x].phase = "inserted"
          PROVE  request'[x].event # request'[c].event /\ request'[x].key # request'[c].key
      <4>1. request'[x] = request[x] /\ request[x].phase = "inserted"
        BY <2>4, <3>2
      <4> QED BY <2>1, <2>3, <2>4, <4>1
    <3> QED BY <3>1, <3>2
  <2>10. Unique' /\ Answered' /\ Entered'
    BY <2>2 DEF ApiInv, Unique, Answered, Entered
  <2> QED BY <2>6, <2>8, <2>9, <2>10 DEF ApiInv
<1>3. CASE Api!WithKey(k) # {}
  <2>1. PICK v \in Api!WithKey(k) : Api!Resolve(c, k, request[c].body, v)
    BY <1>3 DEF Api!Insert
  <2> QED BY <1>1, <2>1, ResolveKeeps
<1> QED BY <1>2, <1>3

\* The event and its entry appear together.
LEMMA CommitKeeps ==
  ASSUME Api!TypeOK, ApiInv, Entered, NEW c \in Requests, Api!Commit(c)
  PROVE  Api!TypeOK' /\ ApiInv' /\ Entered'
<1> DEFINE v == request[c].event
           k == request[c].key
           b == request[c].body
           a == [key |-> k, body |-> b, event |-> v, status |-> 202]
<1>1. /\ request[c].phase = "inserted"
      /\ events' = [events EXCEPT ![v] = [key |-> k, body |-> b]]
      /\ outbox' = [outbox EXCEPT ![v] = "pending"]
      /\ request' = [request EXCEPT ![c] = Api!IdleRequest]
      /\ replies' = replies \cup {a} \/ replies' = replies
  BY DEF Api!Commit, Api!Respond
<1>2. /\ k \in Keys /\ b \in Bodies /\ v \in Events
      /\ events[v] = Api!NoEvent
      /\ Api!WithKey(k) = {}
  BY <1>1 DEF ApiInv, Inserted
<1>3. /\ a \in Api!Reply
      /\ a.key = k /\ a.body = b /\ a.event = v /\ a.status = 202
  BY <1>2 DEF Api!Reply
<1>4. request'[c].phase = "idle" /\ \A o \in Requests \ {c} : request'[o] = request[o]
  BY <1>1 DEF Api!TypeOK, Api!IdleRequest
<1>5. /\ request' \in [Requests -> Api!Request]
  BY <1>1 DEF Api!TypeOK, Api!Request, Api!IdleRequest, Api!Phases
<1>6. /\ events'[v] # Api!NoEvent /\ events'[v].key = k /\ events'[v].body = b
      /\ outbox'[v] # "none"
      /\ \A w \in Events \ {v} : events'[w] = events[w] /\ outbox'[w] = outbox[w]
  BY <1>1, <1>2, EventIsSome DEF Api!TypeOK
<1>7. \A o \in Requests \ {c} :
        request[o].phase = "inserted" => request[o].event # v /\ request[o].key # k
  BY <1>1 DEF ApiInv, Apart
<1>8. Api!TypeOK'
  <2>1. events' \in [Events -> Api!Event \cup {Api!NoEvent}]
    BY <1>1, <1>2 DEF Api!TypeOK, Api!Event
  <2>2. outbox' \in [Events -> {"none", "pending", "processed"}]
    BY <1>1 DEF Api!TypeOK
  <2> QED BY <1>1, <1>3, <1>5, <2>1, <2>2 DEF Api!TypeOK
<1> HIDE DEF a, b, k, v
<1>9. Inserted'
  <2> DEFINE After(x) == {w \in Events : events'[w] # Api!NoEvent /\ events'[w].key = x}
  <2>1. ASSUME NEW x, x # k PROVE After(x) = Api!WithKey(x)
    BY <1>2, <1>6, <2>1 DEF Api!WithKey
  <2>2. \A o \in Requests \ {c} :
          request[o].phase = "inserted" =>
            events'[request[o].event] = Api!NoEvent /\ After(request[o].key) = {}
    <3> SUFFICES ASSUME NEW o \in Requests \ {c}, request[o].phase = "inserted"
                 PROVE  events'[request[o].event] = Api!NoEvent /\ After(request[o].key) = {}
      OBVIOUS
    <3>1. /\ request[o].event \in Events
          /\ events[request[o].event] = Api!NoEvent
          /\ Api!WithKey(request[o].key) = {}
      BY DEF ApiInv, Inserted
    <3> QED BY <1>6, <1>7, <2>1, <3>1
  <2> QED BY <1>4, <2>2 DEF ApiInv, Inserted, Api!WithKey
<1>10. Apart'
  BY <1>4 DEF ApiInv, Apart
<1>11. Unique'
  <2>1. \A w \in Events \ {v} : events[w] # Api!NoEvent => events[w].key # k
    BY <1>2 DEF Api!WithKey
  <2> QED BY <1>6, <2>1 DEF ApiInv, Unique
<1>12. Answered'
  <2>1. \A r \in replies : r.event \in Events \ {v}
    BY <1>2 DEF ApiInv, Answered, Api!TypeOK, Api!Reply
  <2> QED BY <1>1, <1>3, <1>6, <2>1 DEF ApiInv, Answered
<1>13. Entered'
  BY <1>6 DEF Entered
<1> QED BY <1>8, <1>9, <1>10, <1>11, <1>12, <1>13 DEF ApiInv

LEMMA FailKeeps ==
  ASSUME Api!TypeOK, ApiInv, Entered, NEW c \in Requests, Api!Fail(c)
  PROVE  Api!TypeOK' /\ ApiInv' /\ Entered'
<1>1. request' = [request EXCEPT ![c] = Api!IdleRequest] /\ UNCHANGED <<events, outbox, replies>>
  BY DEF Api!Fail
<1>2. /\ request' \in [Requests -> Api!Request]
      /\ Inserted' /\ Apart' /\ Unique' /\ Entered'
  BY <1>1, Idles
<1>3. Answered'
  BY <1>1 DEF ApiInv, Answered
<1>4. Api!TypeOK'
  BY <1>1, <1>2 DEF Api!TypeOK
<1> QED BY <1>2, <1>3, <1>4 DEF ApiInv

\* To the outbox, a step of the API is at most one new entry, of a fresh event.
LEMMA ApiOutbox ==
  ASSUME Api!TypeOK, ApiInv, Entered, NEW c \in Requests, Api!Handle(c)
  PROVE  \A v \in Events : outbox'[v] = outbox[v] \/ (outbox[v] = "none" /\ outbox'[v] = "pending")
<1>1. CASE Api!Commit(c)
  <2>1. /\ request[c].event \in Events
        /\ outbox[request[c].event] = "none"
    BY <1>1 DEF Api!Commit, ApiInv, Inserted, Entered
  <2>2. outbox' = [outbox EXCEPT ![request[c].event] = "pending"]
    BY <1>1 DEF Api!Commit
  <2>3. outbox \in [Events -> {"none", "pending", "processed"}]
    BY DEF Api!TypeOK
  <2> HIDE <1>1
  <2> QED BY <2>1, <2>2, <2>3
<1>2. CASE Api!Lookup(c) \/ Api!Insert(c) \/ Api!Fail(c)
  <2>1. outbox' = outbox
    BY <1>2 DEF Api!Lookup, Api!Insert, Api!Fail, Api!Resolve
  <2> QED BY <2>1
<1> QED BY <1>1, <1>2 DEF Api!Handle

-----------------------------------------------------------------------------
(* The relay's steps. *)

LEMMA RelayInitInv ==
  ASSUME Api!Init, RelayInit
  PROVE  TypeOK /\ RelayInv
<1>1. TypeOK
  BY OutboxAssumption DEF Api!Init, RelayInit, TypeOK, NoTransaction, Transaction
<1>2. /\ \A r \in Relays : relay[r] = NoTransaction
      /\ \A v \in Events, e \in Endpoints : deliveries[<<v, e>>] = 0
      /\ \A v \in Events : outbox[v] = "none"
  BY DEF Api!Init, RelayInit, Pair
<1>3. Locks /\ Disjoint
  BY <1>2 DEF NoTransaction, Locks, Disjoint
<1>4. SteadyActive
  BY OutboxAssumption DEF RelayInit, SteadyActive
<1>5. FanOutOnce
  <2>1. ASSUME NEW v \in Events, NEW e \in Endpoints
        PROVE  /\ deliveries[<<v, e>>] <= 1
               /\ deliveries[<<v, e>>] = 0
               /\ outbox[v] # "processed"
    BY <1>2
  <2> QED BY <2>1 DEF FanOutOnce
<1> QED BY <1>1, <1>3, <1>4, <1>5 DEF RelayInv

\* The API's step leaves the locked entries, and those fanned out, alone.
LEMMA ApiKeepsRelay ==
  ASSUME TypeOK, RelayInv, outbox' \in [Events -> {"none", "pending", "processed"}],
         \A v \in Events : outbox'[v] = outbox[v] \/ (outbox[v] = "none" /\ outbox'[v] = "pending"),
         UNCHANGED relayVars
  PROVE  TypeOK' /\ RelayInv'
<1>1. UNCHANGED <<registry, deliveries, relay, crashes>>
  BY DEF relayVars
<1>2. TypeOK'
  BY <1>1 DEF TypeOK
<1>3. Locks'
  <2>1. \A r \in Relays : \A v \in relay[r].batch : v \in Events
    BY DEF TypeOK, Transaction
  <2> QED BY <1>1, <2>1 DEF RelayInv, Locks
<1>4. Disjoint' /\ SteadyActive'
  BY <1>1 DEF RelayInv, Disjoint, SteadyActive
<1>5. FanOutOnce'
  BY <1>1 DEF RelayInv, FanOutOnce
<1> QED BY <1>2, <1>3, <1>4, <1>5 DEF RelayInv

\* The types a relay's transaction has.
LEMMA TransactionType ==
  ASSUME TypeOK, NEW r \in Relays
  PROVE  /\ relay[r].batch \subseteq Events
         /\ relay[r].done \subseteq Events
         /\ relay[r].todo \subseteq Pair
         /\ relay[r].made \subseteq Pair
BY DEF TypeOK, Transaction

\* A relay's transaction becomes t, and nothing else happens.
LEMMA WorkKeeps ==
  ASSUME TypeOK, RelayInv, NEW r \in Relays, NEW t \in Transaction,
         relay' = [relay EXCEPT ![r] = t], UNCHANGED <<outbox, registry, deliveries>>,
         crashes' \in 0..MaxCrashes,
         \A v \in t.batch : outbox[v] = "pending",
         t.done \subseteq t.batch,
         t.todo \cup t.made \subseteq t.done \X Endpoints,
         t.done \X Steady \subseteq t.todo \cup t.made,
         \A q \in Relays \ {r} : t.batch \cap relay[q].batch = {}
  PROVE  TypeOK' /\ RelayInv'
<1>1. relay'[r] = t /\ \A q \in Relays \ {r} : relay'[q] = relay[q]
  BY DEF TypeOK
<1>2. TypeOK'
  BY DEF TypeOK
<1>3. Locks'
  BY <1>1 DEF RelayInv, Locks
<1>4. Disjoint'
  BY <1>1 DEF RelayInv, Disjoint
<1>5. SteadyActive' /\ FanOutOnce'
  BY DEF RelayInv, SteadyActive, FanOutOnce
<1> QED BY <1>2, <1>3, <1>4, <1>5 DEF RelayInv

LEMMA ClaimKeeps ==
  ASSUME TypeOK, RelayInv, NEW r \in Relays, Claim(r)
  PROVE  TypeOK' /\ RelayInv'
<1>1. PICK batch \in SUBSET {v \in Events \ Claimed : outbox[v] = "pending"} :
        relay' = [relay EXCEPT ![r].batch = batch]
  BY DEF Claim
<1> DEFINE t == [relay[r] EXCEPT !.batch = batch]
<1>2. relay[r] \in Transaction /\ relay[r].batch = {}
  BY DEF TypeOK, Claim
<1>3. relay[r].done = {} /\ relay[r].todo = {} /\ relay[r].made = {}
  BY <1>2 DEF RelayInv, Locks
<1>4. /\ t \in Transaction
      /\ t.batch = batch /\ t.done = {} /\ t.todo = {} /\ t.made = {}
  BY <1>2, <1>3 DEF Transaction
<1>5. relay' = [relay EXCEPT ![r] = t]
  BY <1>1 DEF TypeOK
<1>6. \A q \in Relays : batch \cap relay[q].batch = {}
  BY DEF Claimed
<1>7. crashes' \in 0..MaxCrashes /\ UNCHANGED <<outbox, registry, deliveries>>
  BY DEF TypeOK, Claim
<1> HIDE DEF t
<1>8. /\ \A v \in t.batch : outbox[v] = "pending"
      /\ t.done \subseteq t.batch
      /\ t.todo \cup t.made \subseteq t.done \X Endpoints
      /\ t.done \X Steady \subseteq t.todo \cup t.made
      /\ \A q \in Relays \ {r} : t.batch \cap relay[q].batch = {}
  BY <1>4, <1>6
<1>9. t \in Transaction
  BY <1>4
<1> QED BY <1>5, <1>7, <1>8, <1>9, WorkKeeps

LEMMA ListKeeps ==
  ASSUME TypeOK, RelayInv, NEW r \in Relays, List(r)
  PROVE  TypeOK' /\ RelayInv'
<1>1. PICK v \in relay[r].batch \ relay[r].done :
        relay' = [relay EXCEPT ![r].todo = {v} \X Active, ![r].done = @ \cup {v}]
  BY DEF List
<1> DEFINE t == [relay[r] EXCEPT !.todo = {v} \X Active, !.done = @ \cup {v}]
<1>2. relay[r] \in Transaction /\ relay[r].todo = {}
  BY DEF TypeOK, List
<1>3. v \in Events /\ Active \subseteq Endpoints /\ Steady \subseteq Active
  BY OutboxAssumption, TransactionType DEF Active, RelayInv, SteadyActive
<1>4. {v} \X Active \subseteq Pair
  BY <1>3 DEF Pair
<1>5. /\ t \in Transaction
      /\ t.batch = relay[r].batch /\ t.done = relay[r].done \cup {v}
      /\ t.todo = {v} \X Active /\ t.made = relay[r].made
  BY <1>2, <1>3, <1>4 DEF Transaction
<1>6. relay' = [relay EXCEPT ![r] = t]
  BY <1>1 DEF TypeOK
<1>7. crashes' \in 0..MaxCrashes /\ UNCHANGED <<outbox, registry, deliveries>>
  BY DEF TypeOK, List
<1>8. /\ \A w \in relay[r].batch : outbox[w] = "pending"
      /\ relay[r].done \subseteq relay[r].batch
      /\ relay[r].made \subseteq relay[r].done \X Endpoints
      /\ relay[r].done \X Steady \subseteq relay[r].made
      /\ \A q \in Relays \ {r} : relay[r].batch \cap relay[q].batch = {}
  BY <1>2 DEF RelayInv, Locks, Disjoint
<1> HIDE DEF t
<1>9. t.todo \cup t.made \subseteq t.done \X Endpoints
  BY <1>3, <1>5, <1>8
<1>10. t.done \X Steady \subseteq t.todo \cup t.made
  BY <1>3, <1>5, <1>8
<1>11. /\ t.done \subseteq t.batch
       /\ \A w \in t.batch : outbox[w] = "pending"
       /\ \A q \in Relays \ {r} : t.batch \cap relay[q].batch = {}
  BY <1>5, <1>8
<1>12. t \in Transaction
  BY <1>5
<1> QED BY <1>6, <1>7, <1>9, <1>10, <1>11, <1>12, WorkKeeps

LEMMA FanOutKeeps ==
  ASSUME TypeOK, RelayInv, NEW r \in Relays, FanOut(r)
  PROVE  TypeOK' /\ RelayInv'
<1>1. PICK p \in relay[r].todo :
        relay' = [relay EXCEPT ![r].todo = @ \ {p}, ![r].made = @ \cup {p}]
  BY DEF FanOut
<1> DEFINE t == [relay[r] EXCEPT !.todo = @ \ {p}, !.made = @ \cup {p}]
<1>2. relay[r] \in Transaction
  BY DEF TypeOK
<1>3. /\ t \in Transaction
      /\ t.batch = relay[r].batch /\ t.done = relay[r].done
      /\ t.todo = relay[r].todo \ {p} /\ t.made = relay[r].made \cup {p}
  BY <1>2 DEF Transaction
<1>4. relay' = [relay EXCEPT ![r] = t]
  BY <1>1 DEF TypeOK
<1>5. crashes' \in 0..MaxCrashes /\ UNCHANGED <<outbox, registry, deliveries>>
  BY DEF TypeOK, FanOut
<1>6. /\ \A w \in relay[r].batch : outbox[w] = "pending"
      /\ relay[r].done \subseteq relay[r].batch
      /\ relay[r].todo \cup relay[r].made \subseteq relay[r].done \X Endpoints
      /\ relay[r].done \X Steady \subseteq relay[r].todo \cup relay[r].made
      /\ \A q \in Relays \ {r} : relay[r].batch \cap relay[q].batch = {}
  BY DEF RelayInv, Locks, Disjoint
<1>7. t.todo \cup t.made = relay[r].todo \cup relay[r].made
  BY <1>3
<1> HIDE DEF t
<1>8. /\ t.todo \cup t.made \subseteq t.done \X Endpoints
      /\ t.done \X Steady \subseteq t.todo \cup t.made
  BY <1>3, <1>6, <1>7
<1>9. /\ t.done \subseteq t.batch
      /\ \A w \in t.batch : outbox[w] = "pending"
      /\ \A q \in Relays \ {r} : t.batch \cap relay[q].batch = {}
  BY <1>3, <1>6
<1>10. t \in Transaction
  BY <1>3
<1> QED BY <1>4, <1>5, <1>8, <1>9, <1>10, WorkKeeps

\* A roll back, after a crash or on a deleted endpoint.
LEMMA RollbackKeeps ==
  ASSUME TypeOK, RelayInv, NEW r \in Relays, ForeignKey(r) \/ Crash(r)
  PROVE  TypeOK' /\ RelayInv'
<1>1. /\ relay' = [relay EXCEPT ![r] = NoTransaction]
      /\ UNCHANGED <<outbox, registry, deliveries>>
  BY DEF ForeignKey, Crash
<1>2. crashes' \in 0..MaxCrashes
  BY OutboxAssumption DEF TypeOK, ForeignKey, Crash
<1>3. /\ NoTransaction \in Transaction
      /\ NoTransaction.batch = {} /\ NoTransaction.done = {}
      /\ NoTransaction.todo = {} /\ NoTransaction.made = {}
  BY DEF NoTransaction, Transaction
<1> QED BY <1>1, <1>2, <1>3, WorkKeeps

\* The batch commits: its pairs had no delivery yet, because its entries were
\* pending under its locks.
LEMMA RelayCommitKeeps ==
  ASSUME TypeOK, RelayInv, NEW r \in Relays, Commit(r)
  PROVE  TypeOK' /\ RelayInv'
<1> DEFINE t == relay[r]
<1>1. /\ t.done = t.batch /\ t.todo = {}
      /\ outbox' = [v \in Events |-> IF v \in t.done THEN "processed" ELSE outbox[v]]
      /\ deliveries' = [p \in Pair |-> deliveries[p] + (IF p \in t.made THEN 1 ELSE 0)]
      /\ relay' = [relay EXCEPT ![r] = NoTransaction]
      /\ UNCHANGED <<registry, crashes>>
  BY DEF Commit
<1>2. /\ \A v \in t.batch : v \in Events /\ outbox[v] = "pending"
      /\ t.made \subseteq t.done \X Endpoints
      /\ t.done \X Steady \subseteq t.made
      /\ \A q \in Relays \ {r} : t.batch \cap relay[q].batch = {}
  BY <1>1, TransactionType DEF RelayInv, Locks, Disjoint
<1>3. /\ NoTransaction \in Transaction
      /\ NoTransaction.batch = {} /\ NoTransaction.done = {}
      /\ NoTransaction.todo = {} /\ NoTransaction.made = {}
  BY DEF NoTransaction, Transaction
<1>4. relay'[r] = NoTransaction /\ \A q \in Relays \ {r} : relay'[q] = relay[q]
  BY <1>1 DEF TypeOK
<1> HIDE DEF t
<1>5. TypeOK'
  <2>1. outbox' \in [Events -> {"none", "pending", "processed"}]
    BY <1>1 DEF TypeOK
  <2>2. deliveries' \in [Pair -> Nat]
    BY <1>1 DEF TypeOK
  <2>3. relay' \in [Relays -> Transaction]
    BY <1>1, <1>3 DEF TypeOK
  <2> QED BY <1>1, <2>1, <2>2, <2>3 DEF TypeOK
<1>6. Locks'
  <2> SUFFICES ASSUME NEW q \in Relays \ {r}
               PROVE  \A v \in relay[q].batch : outbox'[v] = "pending"
    BY <1>3, <1>4 DEF RelayInv, Locks
  <2>1. \A v \in relay[q].batch : v \in Events /\ outbox[v] = "pending" /\ v \notin t.done
    BY <1>1, <1>2, TransactionType DEF RelayInv, Locks
  <2> QED BY <1>1, <2>1
<1>7. Disjoint'
  BY <1>3, <1>4 DEF RelayInv, Disjoint
<1>8. SteadyActive'
  BY <1>1 DEF RelayInv, SteadyActive
<1>9. FanOutOnce'
  <2> SUFFICES ASSUME NEW v \in Events, NEW e \in Endpoints
               PROVE  /\ deliveries'[<<v, e>>] <= 1
                      /\ outbox'[v] # "processed" => deliveries'[<<v, e>>] = 0
                      /\ outbox'[v] = "processed" /\ e \in Steady => deliveries'[<<v, e>>] = 1
    BY DEF FanOutOnce
  <2>1. /\ deliveries[<<v, e>>] <= 1
        /\ outbox[v] # "processed" => deliveries[<<v, e>>] = 0
        /\ outbox[v] = "processed" /\ e \in Steady => deliveries[<<v, e>>] = 1
    BY DEF RelayInv, FanOutOnce
  <2>2. <<v, e>> \in Pair /\ deliveries[<<v, e>>] \in Nat
    BY DEF Pair, TypeOK
  <2>3. deliveries'[<<v, e>>] = deliveries[<<v, e>>] + (IF <<v, e>> \in t.made THEN 1 ELSE 0)
    BY <1>1, <2>2
  <2>4. CASE v \in t.done
    <3>1. outbox'[v] = "processed" /\ deliveries[<<v, e>>] = 0
      BY <1>1, <1>2, <2>1, <2>4
    <3>2. e \in Steady => <<v, e>> \in t.made
      BY <1>2, <2>4
    <3> QED BY <2>3, <3>1, <3>2
  <2>5. CASE v \notin t.done
    <3>1. <<v, e>> \notin t.made /\ outbox'[v] = outbox[v]
      BY <1>1, <1>2, <2>5
    <3> QED BY <2>1, <2>2, <2>3, <3>1
  <2> QED BY <2>4, <2>5
<1> QED BY <1>5, <1>6, <1>7, <1>8, <1>9 DEF RelayInv

\* The endpoints API.
LEMMA RegistryKeeps ==
  ASSUME TypeOK, RelayInv, NEW e \in Endpoints, Update(e) \/ Delete(e)
  PROVE  TypeOK' /\ RelayInv'
<1>1. /\ UNCHANGED <<outbox, relay, crashes>>
      /\ e \notin Steady
      /\ \E to \in {"active", "paused", "gone"} : registry' = [registry EXCEPT ![e] = to]
  BY DEF Update, Delete
<1>2. \A p \in Pair : deliveries'[p] = deliveries[p] \/ (p[2] = e /\ deliveries'[p] = 0)
  <2>1. CASE Update(e)
    BY <2>1 DEF Update
  <2>2. CASE Delete(e)
    <3>1. deliveries' = [p \in Pair |-> IF p[2] = e THEN 0 ELSE deliveries[p]]
      BY <2>2 DEF Delete
    <3> QED BY <3>1
  <2> QED BY <2>1, <2>2
<1>3. deliveries' \in [Pair -> Nat]
  BY DEF Update, Delete, TypeOK
<1>4. TypeOK'
  BY <1>1, <1>3 DEF TypeOK
<1>5. Locks' /\ Disjoint'
  BY <1>1 DEF RelayInv, Locks, Disjoint
<1>6. SteadyActive'
  BY <1>1, OutboxAssumption DEF RelayInv, SteadyActive, TypeOK
<1>7. FanOutOnce'
  <2> SUFFICES ASSUME NEW v \in Events, NEW d \in Endpoints
               PROVE  /\ deliveries'[<<v, d>>] <= 1
                      /\ outbox[v] # "processed" => deliveries'[<<v, d>>] = 0
                      /\ outbox[v] = "processed" /\ d \in Steady => deliveries'[<<v, d>>] = 1
    BY <1>1 DEF FanOutOnce
  <2>1. <<v, d>> \in Pair /\ <<v, d>>[2] = d
    BY DEF Pair
  <2>2. deliveries'[<<v, d>>] = deliveries[<<v, d>>] \/ (d = e /\ deliveries'[<<v, d>>] = 0)
    BY <1>2, <2>1
  <2> QED BY <1>1, <2>2 DEF RelayInv, FanOutOnce
<1> QED BY <1>4, <1>5, <1>6, <1>7 DEF RelayInv

\* The relay never takes an entry away or makes one.
LEMMA RelayOutbox ==
  ASSUME TypeOK, RelayInv, Next
  PROVE  \A v \in Events : outbox'[v] = "none" <=> outbox[v] = "none"
<1>1. CASE \E r \in Relays : Commit(r)
  <2>1. PICK r \in Relays : Commit(r)
    BY <1>1
  <2>2. \A v \in relay[r].done : outbox[v] = "pending"
    BY <2>1 DEF RelayInv, Locks
  <2> QED BY <2>1, <2>2 DEF Commit
<1>2. CASE outbox' = outbox
  BY <1>2
<1> QED BY <1>1, <1>2
        DEF Next, RunOnce, Claim, List, FanOut, ForeignKey, Crash, Update, Delete

-----------------------------------------------------------------------------
(* The theorems. *)

\* The inductive invariant holds in every reachable state of the intake path.
THEOREM Invariance == IntakeSpec => []IInv
<1>1. IntakeInit => IInv
  BY ApiInit, RelayInitInv DEF IntakeInit, IInv, IntakeTypeOK
<1>2. ASSUME IInv, ApiStep PROVE IInv'
  <2>1. Api!TypeOK /\ ApiInv /\ Entered /\ TypeOK /\ RelayInv
    BY <1>2 DEF IInv, IntakeTypeOK
  <2>2. PICK c \in Requests : Api!Handle(c)
    BY <1>2 DEF ApiStep, Api!Next
  <2>3. Api!TypeOK' /\ ApiInv' /\ Entered'
    BY <2>1, <2>2, LookupKeeps, InsertKeeps, CommitKeeps, FailKeeps DEF Api!Handle
  <2>4. outbox' \in [Events -> {"none", "pending", "processed"}]
    BY <2>3 DEF Api!TypeOK
  <2>5. TypeOK' /\ RelayInv'
    BY <1>2, <2>1, <2>2, <2>4, ApiOutbox, ApiKeepsRelay DEF ApiStep
  <2> QED BY <2>3, <2>5 DEF IInv, IntakeTypeOK
<1>3. ASSUME IInv, RelayStep PROVE IInv'
  <2>1. Api!TypeOK /\ ApiInv /\ Entered /\ TypeOK /\ RelayInv
    BY <1>3 DEF IInv, IntakeTypeOK
  <2>2. Next /\ UNCHANGED <<events, request, replies>>
    BY <1>3 DEF RelayStep, apiVars
  <2>3. TypeOK' /\ RelayInv'
    BY <2>1, <2>2, ClaimKeeps, ListKeeps, FanOutKeeps, RollbackKeeps, RelayCommitKeeps,
       RegistryKeeps DEF Next, RunOnce
  <2>4. \A k : Api!WithKey(k)' = Api!WithKey(k)
    BY <2>2 DEF Api!WithKey
  <2>5. ApiInv'
    BY <2>1, <2>2, <2>4 DEF ApiInv, Inserted, Apart, Unique, Answered
  <2>6. Entered'
    BY <2>1, <2>2, RelayOutbox DEF Entered
  <2>7. Api!TypeOK'
    BY <2>1, <2>2, <2>3 DEF Api!TypeOK, TypeOK
  <2> QED BY <2>3, <2>5, <2>6, <2>7 DEF IInv, IntakeTypeOK
<1>4. ASSUME IInv, UNCHANGED intakeVars PROVE IInv'
  <2>1. UNCHANGED <<events, request, replies, outbox, registry, deliveries, relay, crashes>>
    BY <1>4 DEF intakeVars, apiVars, relayVars
  <2>2. \A k : Api!WithKey(k)' = Api!WithKey(k)
    BY <2>1 DEF Api!WithKey
  <2>3. IntakeTypeOK'
    BY <1>4, <2>1 DEF IInv, IntakeTypeOK, TypeOK, Api!TypeOK
  <2>4. ApiInv' /\ Entered'
    BY <1>4, <2>1, <2>2 DEF IInv, ApiInv, Inserted, Apart, Unique, Answered, Entered
  <2>5. RelayInv'
    BY <1>4, <2>1 DEF IInv, RelayInv, Locks, Disjoint, SteadyActive, FanOutOnce
  <2> QED BY <2>3, <2>4, <2>5 DEF IInv
<1>5. IInv /\ [ApiStep \/ RelayStep]_intakeVars => IInv'
  BY <1>2, <1>3, <1>4
<1> QED BY <1>1, <1>5, PTL DEF IntakeSpec

\* The tables, the requests and the relays' transactions keep their types.
THEOREM TypeCorrect == IntakeSpec => []IntakeTypeOK
BY Invariance, PTL DEF IInv

\* What EventIngestService.ingest answered 202, to the first request, to a retry
\* or to the loser of a race, is committed with the body that was sent and has
\* its outbox entry.
THEOREM AcceptedIsDurable == IntakeSpec => []AcceptedDurable
<1>1. IInv => AcceptedDurable
  <2> SUFFICES ASSUME IInv, NEW r \in replies, r.status = 202
               PROVE  /\ events[r.event] = [key |-> r.key, body |-> r.body]
                      /\ outbox[r.event] # "none"
    BY DEF AcceptedDurable, Api!AcceptedDurable
  <2>1. /\ r.event \in Events
        /\ events[r.event] # Api!NoEvent
        /\ events[r.event].key = r.key /\ events[r.event].body = r.body
    BY DEF IInv, IntakeTypeOK, Api!TypeOK, Api!Reply, ApiInv, Answered
  <2>2. events[r.event] \in Api!Event
    BY <2>1 DEF IInv, IntakeTypeOK, Api!TypeOK
  <2> QED BY <2>1, <2>2 DEF IInv, Entered, Api!Event
<1> QED BY <1>1, Invariance, PTL

\* The lookup, the unique constraint and the resolve after a lost insert leave
\* one event per idempotency key, and every answer for a key names it.
THEOREM KeysAreUnique == IntakeSpec => []OneEventPerKey
<1>1. IInv => OneEventPerKey
  <2> SUFFICES ASSUME IInv PROVE Api!OneEventPerKey
    BY DEF OneEventPerKey
  <2>1. Unique
    BY DEF IInv, ApiInv
  <2>2. ASSUME NEW r \in replies, NEW s \in replies, r.key = s.key PROVE r.event = s.event
    <3>1. /\ r.event \in Events /\ s.event \in Events
          /\ events[r.event] # Api!NoEvent /\ events[s.event] # Api!NoEvent
          /\ events[r.event].key = r.key /\ events[s.event].key = s.key
      BY DEF IInv, IntakeTypeOK, Api!TypeOK, Api!Reply, ApiInv, Answered
    <3> QED BY <2>1, <2>2, <3>1 DEF Unique
  <2>3. ASSUME NEW k \in Keys, NEW v \in Api!WithKey(k), NEW w \in Api!WithKey(k) PROVE v = w
    BY <2>1 DEF Unique, Api!WithKey
  <2> QED BY <2>2, <2>3 DEF Api!OneEventPerKey
<1> QED BY <1>1, Invariance, PTL

\* A retry of the accepted request is never refused with a 409: _resolve refuses
\* only a body that differs from the committed one.
THEOREM RefusalsDiffer == IntakeSpec => []RefusedOnlyDiffering
<1>1. IInv => RefusedOnlyDiffering
  BY DEF IInv, ApiInv, Answered, RefusedOnlyDiffering, Api!RefusedOnlyDiffering
<1> QED BY <1>1, Invariance, PTL

\* Any number of relays racing for the outbox, crashing in the middle of batches,
\* fan every entry out once and completely to the endpoints that stay.
THEOREM FanOutIsOnce == IntakeSpec => []FanOutOnce
BY Invariance, PTL DEF IInv, RelayInv

-----------------------------------------------------------------------------
(* What a step may do to what was accepted. *)

\* A committed event is never rewritten, its outbox entry only goes from pending
\* to processed, and a delivery appears only in the step that takes its entry there.
Advances ==
  \A v \in Events :
    /\ events[v] # Api!NoEvent => events'[v] = events[v]
    /\ \/ outbox'[v] = outbox[v]
       \/ outbox[v] = "none" /\ outbox'[v] = "pending"
       \/ outbox[v] = "pending" /\ outbox'[v] = "processed"
    /\ \A e \in Endpoints : deliveries'[<<v, e>>] > deliveries[<<v, e>>] =>
         outbox[v] = "pending" /\ outbox'[v] = "processed"

\* Counts that are kept, or set to nothing, do not grow.
LEMMA NoGrowth ==
  ASSUME TypeOK, NEW v \in Events, NEW e \in Endpoints, deliveries'[<<v, e>>] \in {0, deliveries[<<v, e>>]}
  PROVE  ~(deliveries'[<<v, e>>] > deliveries[<<v, e>>])
<1>1. <<v, e>> \in Pair
  BY DEF Pair
<1>2. deliveries[<<v, e>>] \in Nat
  BY <1>1 DEF TypeOK
<1> QED BY <1>2

LEMMA ApiAdvances ==
  ASSUME IInv, ApiStep
  PROVE  Advances
<1>1. Api!TypeOK /\ ApiInv /\ Entered /\ TypeOK
  BY DEF IInv, IntakeTypeOK
<1>2. PICK c \in Requests : Api!Handle(c)
  BY DEF ApiStep, Api!Next
<1>3. \A v \in Events : outbox'[v] = outbox[v] \/ (outbox[v] = "none" /\ outbox'[v] = "pending")
  BY <1>1, <1>2, ApiOutbox
<1>4. UNCHANGED deliveries
  BY DEF ApiStep, relayVars
<1>5. \A v \in Events : events[v] # Api!NoEvent => events'[v] = events[v]
  <2>1. CASE Api!Commit(c)
    <3>1. events[request[c].event] = Api!NoEvent
      BY <1>1, <2>1 DEF Api!Commit, ApiInv, Inserted
    <3>2. PICK new : events' = [events EXCEPT ![request[c].event] = new]
      BY <2>1 DEF Api!Commit
    <3> QED BY <1>1, <3>1, <3>2 DEF Api!TypeOK
  <2>2. CASE events' = events
    BY <2>2
  <2> QED BY <1>2, <2>1, <2>2 DEF Api!Handle, Api!Lookup, Api!Insert, Api!Fail, Api!Resolve
<1>6. \A v \in Events, e \in Endpoints : ~(deliveries'[<<v, e>>] > deliveries[<<v, e>>])
  BY <1>1, <1>4, NoGrowth
<1> QED BY <1>3, <1>5, <1>6 DEF Advances

LEMMA RelayAdvances ==
  ASSUME IInv, RelayStep
  PROVE  Advances
<1>1. TypeOK /\ RelayInv /\ Next /\ UNCHANGED events
  BY DEF IInv, IntakeTypeOK, RelayStep, apiVars
<1>2. ASSUME NEW r \in Relays, Commit(r) PROVE Advances
  <2> DEFINE t == relay[r]
  <2>1. /\ outbox' = [v \in Events |-> IF v \in t.done THEN "processed" ELSE outbox[v]]
        /\ deliveries' = [p \in Pair |-> deliveries[p] + (IF p \in t.made THEN 1 ELSE 0)]
    BY <1>2 DEF Commit
  <2>2. /\ \A v \in t.done : outbox[v] = "pending"
        /\ t.made \subseteq t.done \X Endpoints
    BY <1>1 DEF RelayInv, Locks
  <2> HIDE DEF t
  <2>3. ASSUME NEW v \in Events, NEW e \in Endpoints, <<v, e>> \notin t.made
        PROVE  ~(deliveries'[<<v, e>>] > deliveries[<<v, e>>])
    <3>1. <<v, e>> \in Pair
      BY DEF Pair
    <3>2. deliveries[<<v, e>>] \in Nat
      BY <1>1, <3>1 DEF TypeOK
    <3>3. deliveries'[<<v, e>>] = deliveries[<<v, e>>] + 0
      BY <2>1, <2>3, <3>1
    <3> QED BY <3>2, <3>3
  <2>4. \A v \in Events, e \in Endpoints : <<v, e>> \in t.made => v \in t.done
    BY <2>2
  <2> QED BY <1>1, <2>1, <2>2, <2>3, <2>4 DEF Advances
<1>3. ASSUME UNCHANGED outbox,
             \A v \in Events, e \in Endpoints : deliveries'[<<v, e>>] \in {0, deliveries[<<v, e>>]}
      PROVE  Advances
  BY <1>1, <1>3, NoGrowth DEF Advances
<1>4. ASSUME NEW e \in Endpoints, Delete(e) PROVE Advances
  <2>1. UNCHANGED outbox /\ deliveries' = [p \in Pair |-> IF p[2] = e THEN 0 ELSE deliveries[p]]
    BY <1>4 DEF Delete
  <2>2. \A v \in Events, d \in Endpoints : deliveries'[<<v, d>>] \in {0, deliveries[<<v, d>>]}
    BY <2>1 DEF Pair
  <2> QED BY <1>3, <2>1, <2>2
<1>5. CASE UNCHANGED <<outbox, deliveries>>
  BY <1>3, <1>5
<1> QED BY <1>1, <1>2, <1>4, <1>5
        DEF Next, RunOnce, Claim, List, FanOut, ForeignKey, Crash, Update

\* Whoever retries, races, crashes or deletes endpoints, an accepted event only
\* moves forward: a second relay, or the same one after a restart, adds nothing to
\* an entry that is processed, and nothing of a batch shows before all of it.
THEOREM IntakeAdvances == IntakeSpec => [][Advances]_intakeVars
<1>1. IInv /\ [ApiStep \/ RelayStep]_intakeVars => [Advances]_intakeVars
  BY ApiAdvances, RelayAdvances
<1> QED BY <1>1, Invariance, PTL DEF IntakeSpec
=============================================================================
