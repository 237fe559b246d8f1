------------------------------ MODULE Admission ------------------------------
(***************************************************************************)
(* What stands between an authenticated request of one sandbox tenant and  *)
(* its row: the rate limit and the event quota before POST /v1/events, the *)
(* endpoint quota before POST /v1/endpoints.  Each is a step of its own: a *)
(* request reads the time, runs the bucket's script in Redis, counts rows  *)
(* in one transaction and inserts in another, and other requests of the    *)
(* tenant, at any API process, are somewhere in between.                   *)
(***************************************************************************)
EXTENDS RateLimit, FiniteSets

CONSTANTS
  Requests,      \* requests in progress
  Keys,          \* idempotency keys
  MaxEvents,     \* settings.sandbox_max_events
  MaxEndpoints,  \* settings.sandbox_max_endpoints
  PromptScript,  \* TRUE: the script runs in the second its time was read in
  MaxTime        \* bound: the clock

ASSUME AdmissionAssumption ==
  /\ IsFiniteSet(Requests)
  /\ {MaxEvents, MaxEndpoints, MaxTime} \subseteq Nat \ {0}
  /\ PromptScript \in BOOLEAN

VARIABLES
  clock,      \* time.time(), and Redis's own
  bucket,     \* relay:ratelimit:tenant:<id>
  events,     \* the tenant's events, by idempotency key
  endpoints,  \* how many endpoints the tenant has
  request,    \* the requests
  granted     \* history: requests the bucket allowed up to the end of each second

vars == <<clock, bucket, events, endpoints, request, granted>>

-----------------------------------------------------------------------------
None == "none"
Phases == {"idle", "stamped", "quota", "insert"}
Request == [phase : Phases, key : Keys \cup {None}, at : Nat]
IdleRequest == [phase |-> "idle", key |-> None, at |-> 0]

\* An event carries its key, an endpoint has none.
IsEvent(c) == request[c].key # None

check_quota(count, limit) == count < limit

\* POST /v1/events reads the time for the bucket.
PostEvent(c) ==
  /\ request[c].phase = "idle"
  /\ \E k \in Keys : request' = [request EXCEPT ![c] = [phase |-> "stamped", key |-> k,
                                                        at |-> clock]]
  /\ UNCHANGED <<clock, bucket, events, endpoints, granted>>

\* POST /v1/endpoints is not rate limited.
PostEndpoint(c) ==
  /\ request[c].phase = "idle"
  /\ request' = [request EXCEPT ![c].phase = "quota"]
  /\ UNCHANGED <<clock, bucket, events, endpoints, granted>>

\* EVAL: 429 with Retry-After, or on to the quota.
Limit(c) ==
  LET decision == allow(bucket, request[c].at, clock) IN
  /\ request[c].phase = "stamped"
  /\ bucket' = decision.bucket
  /\ IF decision.allowed
     THEN /\ request' = [request EXCEPT ![c].phase = "quota"]
          /\ granted' = [granted EXCEPT ![clock] = @ + 1]
     ELSE /\ request' = [request EXCEPT ![c] = IdleRequest]
          /\ UNCHANGED granted
  /\ UNCHANGED <<clock, events, endpoints>>

\* assert_event_quota, assert_endpoint_quota: count the committed rows; 403 at
\* the limit.  Whether the key is a retry's is not known here.
Quota(c) ==
  /\ request[c].phase = "quota"
  /\ IF IsEvent(c) THEN check_quota(Cardinality(events), MaxEvents)
                   ELSE check_quota(endpoints, MaxEndpoints)
  /\ request' = [request EXCEPT ![c].phase = "insert"]
  /\ UNCHANGED <<clock, bucket, events, endpoints, granted>>

Refuse(c) ==
  /\ request[c].phase = "quota"
  /\ ~(IF IsEvent(c) THEN check_quota(Cardinality(events), MaxEvents)
                     ELSE check_quota(endpoints, MaxEndpoints))
  /\ request' = [request EXCEPT ![c] = IdleRequest]
  /\ UNCHANGED <<clock, bucket, events, endpoints, granted>>

\* EventIngestService.ingest (one event per key: Ingest), EndpointService.register.
Insert(c) ==
  /\ request[c].phase = "insert"
  /\ IF IsEvent(c)
     THEN events' = events \cup {request[c].key} /\ UNCHANGED endpoints
     ELSE endpoints' = endpoints + 1 /\ UNCHANGED events
  /\ request' = [request EXCEPT ![c] = IdleRequest]
  /\ UNCHANGED <<clock, bucket, granted>>

\* The payload is too large or invalid, or the API process stops.
Fail(c) ==
  /\ request[c].phase # "idle"
  /\ request' = [request EXCEPT ![c] = IdleRequest]
  /\ UNCHANGED <<clock, bucket, events, endpoints, granted>>

DeleteEndpoint ==
  /\ endpoints > 0
  /\ endpoints' = endpoints - 1
  /\ UNCHANGED <<clock, bucket, events, request, granted>>

Tick ==
  /\ clock < MaxTime
  /\ PromptScript => \A c \in Requests : request[c].phase # "stamped"
  /\ clock' = clock + 1
  /\ granted' = [granted EXCEPT ![clock + 1] = granted[clock]]
  /\ UNCHANGED <<bucket, events, endpoints, request>>

-----------------------------------------------------------------------------
Init ==
  /\ clock = 1
  /\ bucket = NoBucket
  /\ events = {}
  /\ endpoints = 0
  /\ request = [c \in Requests |-> IdleRequest]
  /\ granted = [t \in 0..MaxTime |-> 0]

Handle(c) ==
  PostEvent(c) \/ PostEndpoint(c) \/ Limit(c) \/ Quota(c) \/ Refuse(c) \/ Insert(c) \/ Fail(c)

Next == (\E c \in Requests : Handle(c)) \/ DeleteEndpoint \/ Tick

Spec == Init /\ [][Next]_vars

-----------------------------------------------------------------------------
(* Properties. *)

\* Types; the bucket never holds more than its capacity, nor less than nothing.
TypeOK ==
  /\ clock \in 1..MaxTime
  /\ bucket \in Bucket
  /\ events \subseteq Keys
  /\ endpoints \in Nat
  /\ request \in [Requests -> Request]
  /\ granted \in [0..MaxTime -> Nat]

\* The token bucket's promise: in any window of time no more requests pass than
\* the burst and what the rate refills in it, although the hash expires and is
\* created anew, and a refused request writes to it as well.
RateKept ==
  \A t \in 1..clock : \A s \in 1..t :
    (granted[t] - granted[s - 1]) * Cost <= Capacity + (t - s) * Rate

\* "Round up, never down" (errors.py): a client that is refused and comes back
\* after Retry-After seconds is let through, unless others have spent meanwhile.
RetryAfterEnough ==
  LET refused == allow(bucket, clock, clock)
      later   == clock + refused.retry_after
  IN ~refused.allowed => allow(refused.bucket, later, later).allowed
=============================================================================
