------------------------------- MODULE Ingest -------------------------------
(***************************************************************************)
(* POST /v1/events: EventIngestService.ingest and the tables it writes.    *)
(* Requests with the same Idempotency-Key race between the lookup and the  *)
(* insert; the unique constraint on (tenant, key) makes the second insert  *)
(* wait for the first transaction and fail if that one commits.  The event *)
(* and its outbox entry are committed together, and only then is there a   *)
(* 202.  A client that got no answer sends the request again.              *)
(***************************************************************************)
EXTENDS Naturals

CONSTANTS
  Events,    \* event ids
  Keys,      \* idempotency keys of one tenant
  Bodies,    \* (type, payload) pairs
  Offers,    \* the (key, body) pairs that clients send
  Requests   \* requests in progress

VARIABLES
  events,   \* events table: id -> key and body, or NoEvent
  outbox,   \* outbox table: event id -> "none", "pending" or "processed"
  request,  \* the requests
  replies   \* history: every answer that reached a client

vars == <<events, outbox, request, replies>>

-----------------------------------------------------------------------------
NoEvent == [key |-> "none", body |-> "none"]
Event == [key : Keys, body : Bodies]

Phases == {"idle", "insert", "inserted"}
None == "none"
Request == [phase : Phases, key : Keys \cup {None}, body : Bodies \cup {None},
            event : Events \cup {None}]
IdleRequest == [phase |-> "idle", key |-> None, body |-> None, event |-> None]
Reply == [key : Keys, body : Bodies, event : Events, status : {202, 409}]

\* get_by_idempotency_key: committed events only.
WithKey(k) == {v \in Events : events[v] # NoEvent /\ events[v].key = k}

\* Mutant of KeyInFlight: no unique constraint.
KeyNeverInFlight(c) == FALSE

\* Another transaction holds the key in the unique index, uncommitted.
KeyInFlight(c) ==
  \E o \in Requests \ {c} : request[o].phase = "inserted" /\ request[o].key = request[c].key

\* The answer to the request (k, b) reaches the client, or is lost on its way.
Respond(c, k, b, v, s) ==
  /\ \/ replies' = replies \cup {[key |-> k, body |-> b, event |-> v, status |-> s]}
     \/ UNCHANGED replies
  /\ request' = [request EXCEPT ![c] = IdleRequest]

\* Mutant of Resolve: whoever loses the race is refused.
ResolveRefusing(c, k, b, v) ==
  /\ Respond(c, k, b, v, 409)
  /\ UNCHANGED <<events, outbox>>

\* _resolve: the original event for the same body, 409 for another one.
Resolve(c, k, b, v) ==
  /\ Respond(c, k, b, v, IF events[v].body = b THEN 202 ELSE 409)
  /\ UNCHANGED <<events, outbox>>

-----------------------------------------------------------------------------
\* Mutant of Lookup: the key is not passed on to the insert.
LookupKeyLost(c) ==
  /\ request[c].phase = "idle"
  /\ \E o \in Offers :
       IF WithKey(o[1]) = {}
       THEN /\ request' = [request EXCEPT ![c].phase = "insert", ![c].body = o[2]]
            /\ UNCHANGED <<events, outbox, replies>>
       ELSE \E v \in WithKey(o[1]) : Resolve(c, o[1], o[2], v)

\* A request arrives and looks its key up; nothing it does before that shows.
Lookup(c) ==
  /\ request[c].phase = "idle"
  /\ \E o \in Offers :
       IF WithKey(o[1]) = {}
       THEN /\ request' = [request EXCEPT ![c].phase = "insert", ![c].key = o[1],
                                          ![c].body = o[2]]
            /\ UNCHANGED <<events, outbox, replies>>
       ELSE \E v \in WithKey(o[1]) : Resolve(c, o[1], o[2], v)

\* EventRepository.create and OutboxRepository.create; a unique violation rolls
\* the savepoint back and the winner is looked up.
Insert(c) ==
  /\ request[c].phase = "insert"
  /\ ~KeyInFlight(c)
  /\ IF WithKey(request[c].key) = {}
     THEN /\ \E v \in Events :
               /\ events[v] = NoEvent
               /\ \A o \in Requests : request[o].phase = "inserted" => request[o].event # v
               /\ request' = [request EXCEPT ![c].phase = "inserted", ![c].event = v]
          /\ UNCHANGED <<events, outbox, replies>>
     ELSE \E v \in WithKey(request[c].key) : Resolve(c, request[c].key, request[c].body, v)

\* Mutant of Commit: the outbox entry is left to a transaction of its own.
CommitEventOnly(c) ==
  LET v == request[c].event IN
  /\ request[c].phase = "inserted"
  /\ events' = [events EXCEPT ![v] = [key |-> request[c].key, body |-> request[c].body]]
  /\ Respond(c, request[c].key, request[c].body, v, 202)
  /\ UNCHANGED outbox

\* The event and its outbox entry commit together, then the client is answered.
Commit(c) ==
  LET v == request[c].event IN
  /\ request[c].phase = "inserted"
  /\ events' = [events EXCEPT ![v] = [key |-> request[c].key, body |-> request[c].body]]
  /\ outbox' = [outbox EXCEPT ![v] = "pending"]
  /\ Respond(c, request[c].key, request[c].body, v, 202)

\* The API process stops, or the connection drops, before the commit.
Fail(c) ==
  /\ request[c].phase # "idle"
  /\ request' = [request EXCEPT ![c] = IdleRequest]
  /\ UNCHANGED <<events, outbox, replies>>

Init ==
  /\ events = [v \in Events |-> NoEvent]
  /\ outbox = [v \in Events |-> "none"]
  /\ request = [c \in Requests |-> IdleRequest]
  /\ replies = {}

Handle(c) == Lookup(c) \/ Insert(c) \/ Commit(c) \/ Fail(c)

Next == \E c \in Requests : Handle(c)

Spec == Init /\ [][Next]_vars

-----------------------------------------------------------------------------
(* Properties. *)

\* Types of the tables and of the requests.
TypeOK ==
  /\ events \in [Events -> Event \cup {NoEvent}]
  /\ outbox \in [Events -> {"none", "pending", "processed"}]
  /\ request \in [Requests -> Request]
  /\ replies \subseteq Reply

\* "A 202 is only ever returned after both rows are durably committed together":
\* whatever was accepted is in the events table with the body that was sent and
\* has its outbox entry, also when the 202 answers a retry or the loser of a race.
AcceptedDurable ==
  \A r \in replies : r.status = 202 =>
    /\ events[r.event] = [key |-> r.key, body |-> r.body]
    /\ outbox[r.event] # "none"

\* However often and however concurrently a key is used, every answer names one
\* and the same event, and no second event with that key exists.
OneEventPerKey ==
  /\ \A r, s \in replies : r.key = s.key => r.event = s.event
  /\ \A k \in Keys : \A v, w \in WithKey(k) : v = w

\* A 409 is only given for a body that differs from the accepted one: a retry of
\* the accepted request is never refused, not even when it loses the race.
RefusedOnlyDiffering ==
  \A r \in replies : r.status = 409 =>
    /\ events[r.event].key = r.key
    /\ events[r.event].body # r.body
=============================================================================
