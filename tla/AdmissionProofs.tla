--------------------------- MODULE AdmissionProofs ---------------------------
(***************************************************************************)
(* Proofs about Admission, for any rate, cost, burst and quotas, any       *)
(* (finite) number of requests and any length of time.                     *)
(*                                                                         *)
(* The rate.  What the bucket holds bounds what may still pass, so the     *)
(* invariant adds it to what has passed: since any second s no more than   *)
(* the capacity and the refill, *less what is held now*.  A grant takes    *)
(* from the one what it adds to the other; a second adds a refill to both  *)
(* sides, also when the hash expires, because ttl is long enough for the   *)
(* bucket to be full by then.                                              *)
(*                                                                         *)
(* The quotas.  A request past the quota check is a row to come: rows and  *)
(* rows to come together never exceed the bound.                           *)
(***************************************************************************)
EXTENDS Admission, FiniteSetTheorems, TLAPS

-----------------------------------------------------------------------------
(* Arithmetic. *)

\* CeilDiv rounds up.
LEMMA CeilDivBound ==
  ASSUME NEW a \in Nat, NEW b \in Nat \ {0}
  PROVE  /\ CeilDiv(a, b) \in Nat
         /\ CeilDiv(a, b) * b >= a
<1> DEFINE n == a + b - 1
           q == n \div b
<1>1. n \in Nat
  OBVIOUS
<1>2. q \in Nat /\ n % b \in 0..(b - 1)
  BY <1>1
<1>3. n = b * q + (n % b)
  BY <1>1
<1>4. b * q >= a
  <2> HIDE DEF q
  <2>1. b * q \in Int
    BY <1>2
  <2>2. QED BY <1>1, <1>2, <1>3, <2>1
<1>5. q * b = b * q
  BY <1>2
<1> QED BY <1>2, <1>4, <1>5 DEF CeilDiv

\* One more is one factor more.
LEMMA OneMore ==
  ASSUME NEW n \in Int, NEW k \in Nat
  PROVE  n * k \in Int /\ (n + 1) * k = n * k + k
OBVIOUS

\* Longer is not less.
LEMMA Monotone ==
  ASSUME NEW m \in Nat, NEW n \in Nat, m <= n
  PROVE  m * Rate \in Nat /\ n * Rate \in Nat /\ m * Rate <= n * Rate
BY RateLimitAssumption

\* The bucket is full again before its hash is dropped.
LEMMA Times ==
  /\ Capacity \in Nat \ {0}
  /\ Cost <= Capacity
  /\ ttl \in Nat \ {0}
  /\ (ttl - 1) * Rate >= Capacity
<1>1. Capacity \in Nat \ {0} /\ Cost <= Capacity
  BY RateLimitAssumption DEF Capacity
<1>2. CeilDiv(Capacity, Rate) \in Nat /\ CeilDiv(Capacity, Rate) * Rate >= Capacity
  BY <1>1, CeilDivBound, RateLimitAssumption
<1>3. ttl = CeilDiv(Capacity, Rate) + 1
  BY DEF ttl
<1> HIDE DEF ttl
<1>4. ttl \in Nat \ {0} /\ ttl - 1 = CeilDiv(Capacity, Rate)
  BY <1>2, <1>3
<1> QED BY <1>1, <1>2, <1>4

-----------------------------------------------------------------------------
(* The script. *)

\* A refill stays within the capacity.
LEMMA RefilledType ==
  ASSUME NEW b \in Bucket, NEW now \in Nat, NEW at \in Nat
  PROVE  refilled(b, now, at) \in 0..Capacity
<1> DEFINE elapsed == IF now < b.updated_at THEN 0 ELSE now - b.updated_at
<1>1. elapsed \in Nat /\ b.tokens \in 0..Capacity
  BY DEF Bucket
<1>2. elapsed * Rate \in Nat
  BY <1>1, RateLimitAssumption
<1>3. refilled(b, now, at) =
        IF at >= b.expires THEN Capacity
        ELSE IF b.tokens + elapsed * Rate < Capacity THEN b.tokens + elapsed * Rate
             ELSE Capacity
  BY DEF refilled
<1> HIDE DEF elapsed
<1> QED BY <1>1, <1>2, <1>3, Times

\* A bucket whose hash lives, w seconds after it was written.
LEMMA RefilledAfter ==
  ASSUME NEW b, NEW now, NEW at, NEW w,
         ~(at >= b.expires), ~(now < b.updated_at), now - b.updated_at = w
  PROVE  refilled(b, now, at) = IF b.tokens + w * Rate < Capacity
                                THEN b.tokens + w * Rate ELSE Capacity
BY DEF refilled

\* What the script decides and writes.
LEMMA AllowCases ==
  ASSUME NEW b \in Bucket, NEW now \in Nat, NEW at \in Nat
  PROVE  LET tokens == refilled(b, now, at)
             d == allow(b, now, at)
         IN
         /\ d.bucket \in Bucket
         /\ d.bucket.updated_at = now
         /\ d.bucket.expires = at + ttl
         /\ d.allowed <=> tokens >= Cost
         /\ d.allowed => d.bucket.tokens = tokens - Cost
         /\ ~d.allowed => d.bucket.tokens = tokens /\ d.retry_after = retry_after(tokens)
<1> DEFINE tokens == refilled(b, now, at)
<1>1. tokens \in 0..Capacity
  BY RefilledType
<1>2. CASE tokens >= Cost
  <2>1. allow(b, now, at) = [allowed |-> TRUE, retry_after |-> 0,
          bucket |-> [tokens |-> tokens - Cost, updated_at |-> now, expires |-> at + ttl]]
    BY <1>2 DEF allow
  <2>2. tokens - Cost \in 0..Capacity /\ at + ttl \in Nat
    BY <1>1, <1>2, Times, RateLimitAssumption
  <2> HIDE DEF tokens
  <2> QED BY <1>2, <2>1, <2>2 DEF Bucket, tokens
<1>3. CASE ~(tokens >= Cost)
  <2>1. allow(b, now, at) = [allowed |-> FALSE, retry_after |-> retry_after(tokens),
          bucket |-> [tokens |-> tokens, updated_at |-> now, expires |-> at + ttl]]
    <3>1. (tokens >= Cost) = FALSE
      BY <1>3
    <3> QED BY <3>1 DEF allow
  <2>2. at + ttl \in Nat
    BY Times
  <2> HIDE DEF tokens
  <2> QED BY <1>1, <1>3, <2>1, <2>2 DEF Bucket, tokens
<1> QED BY <1>2, <1>3

-----------------------------------------------------------------------------
(* Types. *)

\* The initial state is typed.
LEMMA InitType == Init => TypeOK
<1>1. NoBucket \in Bucket
  BY Times DEF NoBucket, Bucket
<1> QED BY <1>1, AdmissionAssumption DEF Init, TypeOK, IdleRequest, Request, Phases

\* Every step keeps the types; the script keeps the bucket in its own.
LEMMA NextType == TypeOK /\ [Next]_vars => TypeOK'
<1> SUFFICES ASSUME TypeOK, [Next]_vars PROVE TypeOK'
  OBVIOUS
<1>1. ASSUME NEW c \in Requests, Limit(c) PROVE TypeOK'
  <2>1. allow(bucket, request[c].at, clock).bucket \in Bucket
    BY AllowCases DEF TypeOK, Request
  <2> QED BY <1>1, <2>1 DEF Limit, TypeOK, Request, IdleRequest, Phases
<1>2. ASSUME NEW c \in Requests, PostEvent(c) \/ PostEndpoint(c) \/ Quota(c) \/ Fail(c)
      PROVE  TypeOK'
  <2>1. ASSUME NEW k \in Keys,
               request' = [request EXCEPT ![c] = [phase |-> "stamped", key |-> k, at |-> clock]]
        PROVE  request' \in [Requests -> Request]
    BY <2>1 DEF TypeOK, Request, Phases
  <2>2. ASSUME NEW p \in Phases, request' = [request EXCEPT ![c].phase = p]
        PROVE  request' \in [Requests -> Request]
    BY <2>2 DEF TypeOK, Request
  <2>3. ASSUME request' = [request EXCEPT ![c] = IdleRequest]
        PROVE  request' \in [Requests -> Request]
    BY <2>3 DEF TypeOK, Request, IdleRequest, Phases
  <2>4. request' \in [Requests -> Request]
    BY <1>2, <2>1, <2>2, <2>3 DEF PostEvent, PostEndpoint, Quota, Fail, Phases
  <2>5. UNCHANGED <<clock, bucket, events, endpoints, granted>>
    BY <1>2 DEF PostEvent, PostEndpoint, Quota, Fail
  <2> QED BY <2>4, <2>5 DEF TypeOK
<1>3. ASSUME NEW c \in Requests, Insert(c) PROVE TypeOK'
  BY <1>3 DEF TypeOK, Insert, IsEvent, Request, IdleRequest, Phases
<1>4. ASSUME NEW c \in Requests, Refuse(c) PROVE TypeOK'
  <2>1. request' \in [Requests -> Request]
    BY <1>4 DEF TypeOK, Refuse, Request, IdleRequest, Phases
  <2>2. CASE IsEvent(c)
    <3>1. request[c].key \in Keys
      BY <2>2 DEF TypeOK, IsEvent, Request
    <3>2. (request[c].key \in events) \in BOOLEAN
      OBVIOUS
    <3>3. [key |-> request[c].key, known |-> request[c].key \in events]
            \in [key : Keys, known : BOOLEAN]
      BY <3>1, <3>2
    <3> QED BY <1>4, <2>1, <2>2, <3>3 DEF TypeOK, Refuse
  <2>3. CASE ~IsEvent(c)
    BY <1>4, <2>1, <2>3 DEF TypeOK, Refuse
  <2> QED BY <2>2, <2>3
<1>5. CASE DeleteEndpoint
  BY <1>5 DEF TypeOK, DeleteEndpoint
<1>6. CASE Tick
  BY <1>6, AdmissionAssumption DEF TypeOK, Tick
<1>7. CASE UNCHANGED vars
  BY <1>7 DEF TypeOK, vars
<1> QED BY <1>1, <1>2, <1>3, <1>4, <1>5, <1>6, <1>7 DEF Next, Handle

\* The bucket stays within its capacity and every request in its phases.
THEOREM TypeCorrect == Spec => []TypeOK
BY InitType, NextType, PTL DEF Spec

-----------------------------------------------------------------------------
(* The rate. *)

\* What the bucket holds now.
Held == refilled(bucket, clock, clock)

RateInv ==
  /\ bucket.updated_at <= clock
  /\ bucket.expires = 0 \/ bucket.expires >= bucket.updated_at + ttl
  /\ \A c \in Requests : request[c].phase = "stamped" => request[c].at = clock
  /\ \A s \in 1..clock :
       (granted[clock] - granted[s - 1]) * Cost + Held <= Capacity + (clock - s) * Rate
  /\ RateKept

\* What the bucket holds is within its capacity.
LEMMA HeldType == TypeOK => Held \in 0..Capacity
BY RefilledType DEF TypeOK, Held

\* No hash is a full bucket, and nothing has passed.
LEMMA InitRate == Init => RateInv
<1> SUFFICES ASSUME Init PROVE RateInv
  OBVIOUS
<1>1. clock = 1 /\ Held = Capacity
  BY DEF Init, Held, refilled, NoBucket
<1>2. granted[1] = 0 /\ granted[0] = 0
  BY AdmissionAssumption DEF Init
<1>3. 0 * Cost = 0 /\ 0 * Rate = 0
  BY RateLimitAssumption
<1>4. \A s \in 1..clock : s = 1
  BY <1>1
<1> QED BY <1>1, <1>2, <1>3, <1>4, Times
        DEF Init, RateInv, RateKept, NoBucket, IdleRequest

\* Steps that leave clock, bucket and history alone, and stamp nothing but now.
LEMMA RateAlone ==
  ASSUME RateInv, UNCHANGED <<clock, bucket, granted>>,
         \A c \in Requests : request'[c].phase = "stamped" =>
           request'[c].at = clock \/ (request[c].phase = "stamped" /\ request'[c].at = request[c].at)
  PROVE  RateInv'
BY DEF RateInv, RateKept, Held

\* What the script grants it takes from the bucket.
LEMMA LimitRate ==
  ASSUME PromptScript, TypeOK, RateInv, NEW c \in Requests, Limit(c)
  PROVE  RateInv'
<1> DEFINE d == allow(bucket, clock, clock)
<1>1. request[c].at = clock /\ clock \in Nat /\ clock \in 1..MaxTime /\ bucket \in Bucket
  BY DEF Limit, RateInv, TypeOK
<1>2. bucket' = d.bucket /\ clock' = clock
  BY <1>1 DEF Limit
<1>3. Held \in 0..Capacity
  BY HeldType
<1>4. /\ d.bucket \in Bucket
      /\ d.bucket.updated_at = clock
      /\ d.bucket.expires = clock + ttl
      /\ d.allowed <=> Held >= Cost
      /\ d.allowed => d.bucket.tokens = Held - Cost
      /\ ~d.allowed => d.bucket.tokens = Held
  BY <1>1, AllowCases DEF Held
<1>5. Held' = d.bucket.tokens
  <2>1. 0 * Rate = 0
    BY RateLimitAssumption
  <2>2. d.bucket.tokens \in 0..Capacity /\ d.bucket.updated_at \in Nat
    BY <1>4 DEF Bucket
  <2> HIDE DEF d
  <2> QED BY <1>1, <1>2, <1>4, <2>1, <2>2, Times DEF Held, refilled
<1>6. \A e \in Requests : request'[e].phase = "stamped" => request'[e].at = clock
  <2>1. \/ request' = [request EXCEPT ![c].phase = "quota"]
        \/ request' = [request EXCEPT ![c] = IdleRequest]
    BY DEF Limit
  <2>2. request'[c].phase # "stamped" /\ \A e \in Requests \ {c} : request'[e] = request[e]
    BY <2>1 DEF TypeOK, Request, IdleRequest
  <2> QED BY <2>2 DEF RateInv
<1>7. granted \in [0..MaxTime -> Nat]
  BY DEF TypeOK
<1> HIDE DEF d
<1>8. CASE d.allowed
  <2>1. granted' = [granted EXCEPT ![clock] = @ + 1]
    BY <1>1, <1>8 DEF Limit, d
  <2>2. ASSUME NEW s \in 1..clock
        PROVE  (granted'[clock] - granted'[s - 1]) * Cost + Held' <= Capacity + (clock - s) * Rate
    <3> DEFINE n == granted[clock] - granted[s - 1]
    <3>1. n \in Int /\ granted'[clock] - granted'[s - 1] = n + 1
      <4>1. s - 1 \in 0..MaxTime /\ clock \in 0..MaxTime /\ s - 1 # clock
        BY <1>1, AdmissionAssumption
      <4> QED BY <1>7, <2>1, <4>1
    <3>2. n * Cost + Held <= Capacity + (clock - s) * Rate
      BY DEF RateInv
    <3>3. n * Cost \in Int /\ (n + 1) * Cost = n * Cost + Cost
      BY <3>1, OneMore, RateLimitAssumption
    <3>4. (clock - s) * Rate \in Int
      BY <1>1, OneMore, RateLimitAssumption
    <3> HIDE DEF n
    <3> QED BY <1>3, <1>4, <1>5, <1>8, <3>1, <3>2, <3>3, <3>4, Times, RateLimitAssumption
  <2>3. Held' >= 0 /\ Held' \in Int
    BY <1>3, <1>4, <1>5, <1>8, Times, RateLimitAssumption
  <2>4. ASSUME NEW t \in 1..clock, NEW s \in 1..t
        PROVE  (granted'[t] - granted'[s - 1]) * Cost <= Capacity + (t - s) * Rate
    <3>1. CASE t = clock
      <4>1. granted'[clock] - granted'[s - 1] \in Int
        <5>1. s - 1 \in 0..MaxTime /\ clock \in 0..MaxTime /\ s - 1 # clock
          BY <1>1, <3>1, AdmissionAssumption
        <5> QED BY <1>7, <2>1, <5>1
      <4>2. (granted'[clock] - granted'[s - 1]) * Cost \in Int /\ (clock - s) * Rate \in Int
        BY <1>1, <4>1, OneMore, RateLimitAssumption
      <4> QED BY <2>2, <2>3, <3>1, <4>2, Times
    <3>2. CASE t # clock
      <4>1. granted'[t] = granted[t] /\ granted'[s - 1] = granted[s - 1]
        <5>1. s - 1 \in 0..MaxTime /\ t \in 0..MaxTime /\ s - 1 # clock /\ t # clock
          BY <1>1, <3>2, AdmissionAssumption
        <5> QED BY <1>7, <2>1, <5>1
      <4> QED BY <4>1 DEF RateInv, RateKept
    <3> QED BY <3>1, <3>2
  <2>5. RateKept'
    BY <1>2, <2>4 DEF RateKept
  <2> QED BY <1>1, <1>2, <1>4, <1>6, <2>2, <2>5, Times DEF RateInv
<1>9. CASE ~d.allowed
  <2>1. granted' = granted
    BY <1>1, <1>9 DEF Limit, d
  <2>2. Held' = Held
    BY <1>4, <1>5, <1>9
  <2>3. RateKept'
    BY <1>2, <2>1 DEF RateInv, RateKept
  <2> QED BY <1>1, <1>2, <1>4, <1>6, <2>1, <2>2, <2>3, Times DEF RateInv
<1> QED BY <1>8, <1>9

\* A second adds its refill to what may pass, and no more than that to the bucket.
LEMMA TickRate ==
  ASSUME PromptScript, TypeOK, RateInv, Tick
  PROVE  RateInv'
<1> DEFINE waited == clock - bucket.updated_at
<1>1. /\ clock \in Nat /\ clock \in 1..MaxTime /\ clock + 1 \in 1..MaxTime
      /\ bucket.tokens \in 0..Capacity /\ bucket.updated_at \in Nat /\ bucket.expires \in Nat
      /\ waited \in Nat
  BY AdmissionAssumption DEF TypeOK, RateInv, Tick, Bucket
<1>2. clock' = clock + 1 /\ bucket' = bucket /\ request' = request
      /\ granted' = [granted EXCEPT ![clock + 1] = granted[clock]]
  BY DEF Tick
<1>3. granted \in [0..MaxTime -> Nat]
  BY DEF TypeOK
<1>4. Held \in 0..Capacity /\ Held' \in 0..Capacity
  <2>1. bucket \in Bucket /\ clock \in Nat /\ clock + 1 \in Nat
    BY <1>1 DEF TypeOK
  <2>2. refilled(bucket, clock + 1, clock + 1) \in 0..Capacity
    BY <2>1, RefilledType
  <2>3. Held' = refilled(bucket, clock + 1, clock + 1)
    BY <1>2 DEF Held, refilled
  <2> QED BY <2>2, <2>3, HeldType
<1>5. waited * Rate \in Nat /\ (waited + 1) * Rate = waited * Rate + Rate /\ Rate \in Nat
  <2>1. Rate \in Nat
    BY RateLimitAssumption
  <2> QED BY <1>1, <2>1, OneMore, Monotone
\* A second refills no more than Rate, also when the hash expires in it.
<1>6. Held' <= Held + Rate
  <2>1. CASE clock >= bucket.expires
    <3>1. Held = Capacity
      BY <2>1 DEF Held, refilled
    <3> QED BY <1>4, <1>5, <3>1, Times
  <2>2. CASE ~(clock >= bucket.expires)
    <3>1. Held = IF bucket.tokens + waited * Rate < Capacity
                 THEN bucket.tokens + waited * Rate ELSE Capacity
      BY <1>1, <2>2 DEF Held, refilled
    <3>2. CASE clock + 1 >= bucket.expires
      <4>1. waited >= ttl - 1
        BY <1>1, <2>2, <3>2, Times DEF RateInv
      <4>2. waited * Rate >= (ttl - 1) * Rate /\ (ttl - 1) * Rate \in Nat
        BY <1>1, <4>1, Times, Monotone
      <4> HIDE DEF waited
      <4>3. Held = Capacity
        BY <1>1, <1>5, <3>1, <4>2, Times
      <4> QED BY <1>4, <1>5, <4>3, Times
    <3>3. CASE ~(clock + 1 >= bucket.expires)
      <4>1. Held' = IF bucket.tokens + (waited + 1) * Rate < Capacity
                    THEN bucket.tokens + (waited + 1) * Rate ELSE Capacity
        <5> DEFINE now  == clock + 1
                   next == waited + 1
        <5>1. ~(now >= bucket.expires) /\ ~(now < bucket.updated_at) /\ now - bucket.updated_at = next
          BY <1>1, <3>3
        <5>2. Held' = refilled(bucket, now, now)
          BY <1>2 DEF Held, refilled
        <5> HIDE DEF now, next
        <5>3. refilled(bucket, now, now) = IF bucket.tokens + next * Rate < Capacity
                                           THEN bucket.tokens + next * Rate ELSE Capacity
          BY <5>1, RefilledAfter, Zenon
        <5> QED BY <5>2, <5>3 DEF next
      <4> HIDE DEF waited
      <4> QED BY <1>1, <1>5, <3>1, <4>1, Times
    <3> QED BY <3>2, <3>3
  <2> QED BY <2>1, <2>2
<1> HIDE DEF waited
<1>7. ASSUME NEW s \in 1..clock'
      PROVE  (granted'[clock'] - granted'[s - 1]) * Cost + Held' <= Capacity + (clock' - s) * Rate
  <2>1. s - 1 \in 0..MaxTime /\ clock \in 0..MaxTime /\ clock + 1 \in 0..MaxTime /\ s - 1 # clock + 1
    BY <1>1, <1>2, AdmissionAssumption
  <2>2. granted'[clock'] = granted[clock] /\ granted'[s - 1] = granted[s - 1]
    BY <1>2, <1>3, <2>1
  <2>3. CASE s = clock + 1
    <3>1. granted'[clock'] - granted'[s - 1] = 0 /\ clock' - s = 0
      BY <1>1, <1>2, <1>3, <2>1, <2>2, <2>3
    <3>2. 0 * Cost = 0 /\ 0 * Rate = 0
      BY RateLimitAssumption
    <3> QED BY <1>4, <3>1, <3>2, Times
  <2>4. CASE s # clock + 1
    <3> DEFINE n == granted[clock] - granted[s - 1]
               m == clock - s
    <3>1. s \in 1..clock /\ n \in Int /\ m \in Int /\ clock' - s = m + 1
      BY <1>1, <1>2, <1>3, <2>1, <2>4
    <3>2. n * Cost + Held <= Capacity + m * Rate
      BY <3>1 DEF RateInv
    <3>3. n * Cost \in Int /\ m * Rate \in Int /\ (m + 1) * Rate = m * Rate + Rate
      BY <3>1, OneMore, RateLimitAssumption
    <3>4. granted'[clock'] - granted'[s - 1] = n
      BY <2>2
    <3> HIDE DEF n, m
    <3> QED BY <1>4, <1>5, <1>6, <3>1, <3>2, <3>3, <3>4, Times
  <2> QED BY <2>3, <2>4
<1>8. ASSUME NEW t \in 1..clock', NEW s \in 1..t
      PROVE  (granted'[t] - granted'[s - 1]) * Cost <= Capacity + (t - s) * Rate
  <2>1. s - 1 \in 0..MaxTime /\ t \in 0..MaxTime /\ s - 1 # clock + 1 /\ s \in 1..clock'
    BY <1>1, <1>2, AdmissionAssumption
  <2>2. CASE t = clock'
    <3>1. granted'[t] - granted'[s - 1] \in Int /\ t - s \in Int
      BY <1>1, <1>2, <1>3, <2>1, <2>2
    <3>2. (granted'[t] - granted'[s - 1]) * Cost \in Int /\ (t - s) * Rate \in Int
      BY <3>1, OneMore, RateLimitAssumption
    <3> QED BY <1>4, <1>7, <2>1, <2>2, <3>2, Times
  <2>3. CASE t # clock'
    <3>1. t \in 1..clock /\ granted'[t] = granted[t] /\ granted'[s - 1] = granted[s - 1]
      BY <1>1, <1>2, <1>3, <2>1, <2>3
    <3> QED BY <3>1 DEF RateInv, RateKept
  <2> QED BY <2>2, <2>3
<1>9. \A c \in Requests : request'[c].phase # "stamped"
  BY <1>2 DEF Tick
<1>10. RateKept'
  BY <1>8 DEF RateKept
<1>11. bucket'.updated_at <= clock' /\ (bucket'.expires = 0 \/ bucket'.expires >= bucket'.updated_at + ttl)
  BY <1>1, <1>2 DEF RateInv
<1> QED BY <1>7, <1>9, <1>10, <1>11 DEF RateInv

\* Every step keeps the rate.
LEMMA NextRate == PromptScript /\ TypeOK /\ RateInv /\ [Next]_vars => RateInv'
<1> SUFFICES ASSUME PromptScript, TypeOK, RateInv, [Next]_vars PROVE RateInv'
  OBVIOUS
<1>1. ASSUME NEW c \in Requests, PostEvent(c) PROVE RateInv'
  <2>1. PICK k \in Keys :
          request' = [request EXCEPT ![c] = [phase |-> "stamped", key |-> k, at |-> clock]]
    BY <1>1 DEF PostEvent
  <2>2. \A e \in Requests : request'[e].phase = "stamped" =>
          request'[e].at = clock \/ (request[e].phase = "stamped" /\ request'[e].at = request[e].at)
    BY <2>1 DEF TypeOK, Request
  <2> QED BY <1>1, <2>2, RateAlone DEF PostEvent
<1>2. ASSUME NEW c \in Requests,
             PostEndpoint(c) \/ Quota(c) \/ Refuse(c) \/ Insert(c) \/ Fail(c)
      PROVE  RateInv'
  <2>1. \/ request' = [request EXCEPT ![c].phase = "quota"]
        \/ request' = [request EXCEPT ![c].phase = "insert"]
        \/ request' = [request EXCEPT ![c] = IdleRequest]
    BY <1>2 DEF PostEndpoint, Quota, Refuse, Insert, Fail
  <2>2. request'[c].phase # "stamped" /\ \A e \in Requests \ {c} : request'[e] = request[e]
    BY <2>1 DEF TypeOK, Request, IdleRequest
  <2>3. UNCHANGED <<clock, bucket, granted>>
    BY <1>2 DEF PostEndpoint, Quota, Refuse, Insert, Fail
  <2> QED BY <2>2, <2>3, RateAlone
<1>3. ASSUME NEW c \in Requests, Limit(c) PROVE RateInv'
  BY <1>3, LimitRate
<1>4. CASE DeleteEndpoint \/ UNCHANGED vars
  BY <1>4, RateAlone DEF DeleteEndpoint, vars
<1>5. CASE Tick
  BY <1>5, TickRate
<1> QED BY <1>1, <1>2, <1>3, <1>4, <1>5 DEF Next, Handle

\* RateKept: no window of time lets more requests pass than the burst and its
\* refill, if every script runs in the second in which its time was read.
THEOREM RateIsKept == PromptScript /\ Spec => []RateKept
<1>1. RateInv => RateKept
  BY DEF RateInv
<1>2. SUFFICES ASSUME PromptScript PROVE Spec => []RateKept
  OBVIOUS
<1>3. TypeOK /\ RateInv /\ [Next]_vars => TypeOK' /\ RateInv'
  BY <1>2, NextType, NextRate
<1> QED BY <1>1, <1>3, InitType, InitRate, PTL DEF Spec

-----------------------------------------------------------------------------
(* Retry-After. *)

\* After the announced seconds the bucket of a refused request holds a token,
\* whether its hash is still there or not.
LEMMA RetryAfterLemma == TypeOK => RetryAfterEnough
<1> SUFFICES ASSUME TypeOK, ~allow(bucket, clock, clock).allowed
             PROVE  LET r == allow(bucket, clock, clock)
                        later == clock + r.retry_after
                    IN  allow(r.bucket, later, later).allowed
  BY DEF RetryAfterEnough
<1> DEFINE tokens == refilled(bucket, clock, clock)
           r      == allow(bucket, clock, clock)
           wait   == r.retry_after
           later  == clock + wait
<1>1. bucket \in Bucket /\ clock \in Nat
  BY DEF TypeOK
<1>2. tokens \in 0..Capacity
  BY <1>1, RefilledType
<1>3. /\ ~(tokens >= Cost)
      /\ r.bucket \in Bucket /\ r.bucket.tokens = tokens /\ r.bucket.updated_at = clock
      /\ wait = CeilDiv(Cost - tokens, Rate)
  BY <1>1, AllowCases DEF retry_after
<1> HIDE DEF tokens, r
<1>4. Cost - tokens \in Nat /\ Cost \in Nat /\ Rate \in Nat \ {0}
  BY <1>2, <1>3, Times, RateLimitAssumption
<1>5. wait \in Nat /\ wait * Rate >= Cost - tokens
  BY <1>3, <1>4, CeilDivBound
<1> HIDE DEF wait
<1>6. later \in Nat /\ ~(later < r.bucket.updated_at) /\ later - r.bucket.updated_at = wait
  BY <1>1, <1>3, <1>5
<1> HIDE DEF later
<1>7. refilled(r.bucket, later, later) >= Cost
  <2>1. CASE later >= r.bucket.expires
    BY <2>1, Times DEF refilled
  <2>2. CASE ~(later >= r.bucket.expires)
    <3>1. refilled(r.bucket, later, later) =
            IF tokens + wait * Rate < Capacity THEN tokens + wait * Rate ELSE Capacity
      BY <1>3, <1>6, <2>2, RefilledAfter, Zenon
    <3>2. wait * Rate \in Nat
      BY <1>4, <1>5
    <3> QED BY <1>2, <1>4, <1>5, <3>1, <3>2, Times
  <2> QED BY <2>1, <2>2
<1>8. allow(r.bucket, later, later).allowed
  BY <1>3, <1>6, <1>7, AllowCases
<1> QED BY <1>8 DEF later, wait, r

\* RetryAfterEnough: the Retry-After of a 429 is never too short, whatever the
\* rate and the cost, and across the expiry of the hash.
THEOREM RetryAfterIsEnough == Spec => []RetryAfterEnough
BY TypeCorrect, RetryAfterLemma, PTL

-----------------------------------------------------------------------------
(* The quotas. *)

\* The rows to come: requests that have passed their quota.
EventRows    == {c \in Requests : request[c].phase = "insert" /\ IsEvent(c)}
EndpointRows == {c \in Requests : request[c].phase = "insert" /\ ~IsEvent(c)}

QuotaInv ==
  /\ IsFiniteSet(events)
  /\ Cardinality(events) + Cardinality(EventRows) <= MaxEvents + Cardinality(Requests) - 1
  /\ endpoints + Cardinality(EndpointRows) <= MaxEndpoints + Cardinality(Requests) - 1

\* Sets of requests are finite and count as one expects.
LEMMA RequestSets ==
  ASSUME NEW S \in SUBSET Requests
  PROVE  /\ IsFiniteSet(S)
         /\ Cardinality(S) \in Nat /\ Cardinality(Requests) \in Nat
         /\ Cardinality(S) <= Cardinality(Requests)
         /\ \A T \in SUBSET S : Cardinality(T) \in Nat /\ Cardinality(T) <= Cardinality(S)
         /\ \A c \in S : Cardinality(S \ {c}) = Cardinality(S) - 1
<1>1. IsFiniteSet(Requests)
  BY AdmissionAssumption
<1>2. IsFiniteSet(S) /\ Cardinality(S) <= Cardinality(Requests)
  BY <1>1, FS_Subset
<1>3. \A T \in SUBSET S : IsFiniteSet(T) /\ Cardinality(T) <= Cardinality(S)
  BY <1>2, FS_Subset
<1>4. \A c \in S : Cardinality(S \ {c}) = Cardinality(S) - 1
  BY <1>2, FS_RemoveElement
<1> QED BY <1>1, <1>2, <1>3, <1>4, FS_CardinalityType

\* A step with no new row to come and nothing inserted.
LEMMA QuotaAlone ==
  ASSUME TypeOK, QuotaInv, UNCHANGED events, endpoints' \in Nat, endpoints' <= endpoints,
         EventRows' \subseteq EventRows, EndpointRows' \subseteq EndpointRows
  PROVE  QuotaInv'
<1>1. EventRows \in SUBSET Requests /\ EndpointRows \in SUBSET Requests
  BY DEF EventRows, EndpointRows
<1>2. Cardinality(events) \in Nat /\ endpoints \in Nat
  BY FS_CardinalityType DEF QuotaInv, TypeOK
<1>3. /\ Cardinality(EventRows') \in Nat /\ Cardinality(EndpointRows') \in Nat
      /\ Cardinality(EventRows') <= Cardinality(EventRows)
      /\ Cardinality(EndpointRows') <= Cardinality(EndpointRows)
      /\ Cardinality(EventRows) \in Nat /\ Cardinality(EndpointRows) \in Nat
      /\ Cardinality(Requests) \in Nat
  BY <1>1, RequestSets
<1>4. MaxEvents \in Nat /\ MaxEndpoints \in Nat
  BY AdmissionAssumption
<1> QED BY <1>2, <1>3, <1>4 DEF QuotaInv

\* No rows, and none to come.
LEMMA InitQuota == Init => QuotaInv
<1> SUFFICES ASSUME Init PROVE QuotaInv
  OBVIOUS
<1>1. EventRows = {} /\ EndpointRows = {}
  BY DEF Init, EventRows, EndpointRows, IdleRequest
<1>2. IsFiniteSet({}) /\ Cardinality({}) = 0
  BY FS_EmptySet
<1>3. Cardinality(Requests) \in Nat
  BY AdmissionAssumption, FS_CardinalityType
<1> QED BY <1>1, <1>2, <1>3, AdmissionAssumption DEF Init, QuotaInv

\* The count is below the limit and every request may be about to insert.
LEMMA QuotaStep ==
  ASSUME TypeOK, QuotaInv, NEW c \in Requests, Quota(c)
  PROVE  QuotaInv'
<1>1. request' = [request EXCEPT ![c].phase = "insert"] /\ UNCHANGED <<events, endpoints>>
  BY DEF Quota
<1>2. Cardinality(events) \in Nat /\ endpoints \in Nat /\ MaxEvents \in Nat /\ MaxEndpoints \in Nat
  BY AdmissionAssumption, FS_CardinalityType DEF QuotaInv, TypeOK
<1>3. /\ EventRows \in SUBSET Requests /\ EventRows' \in SUBSET Requests
      /\ EndpointRows \in SUBSET Requests /\ EndpointRows' \in SUBSET Requests
  BY DEF EventRows, EndpointRows
<1>4. /\ Cardinality(EventRows') \in Nat /\ Cardinality(EndpointRows') \in Nat
      /\ Cardinality(EventRows') <= Cardinality(Requests)
      /\ Cardinality(EndpointRows') <= Cardinality(Requests)
      /\ Cardinality(EventRows) \in Nat /\ Cardinality(EndpointRows) \in Nat
      /\ Cardinality(Requests) \in Nat
  BY <1>3, RequestSets
<1>5. \A e \in Requests : request'[e].key = request[e].key
                          /\ (e # c => request'[e] = request[e])
  BY <1>1 DEF TypeOK, Request
<1>6. CASE IsEvent(c)
  <2>1. Cardinality(events) < MaxEvents
    BY <1>6 DEF Quota, check_quota
  <2>2. EndpointRows' = EndpointRows
    BY <1>5, <1>6 DEF EndpointRows, IsEvent, Quota
  <2> QED BY <1>1, <1>2, <1>4, <2>1, <2>2 DEF QuotaInv
<1>7. CASE ~IsEvent(c)
  <2>1. endpoints < MaxEndpoints
    BY <1>7 DEF Quota, check_quota
  <2>2. EventRows' = EventRows
    BY <1>5, <1>7 DEF EventRows, IsEvent, Quota
  <2> QED BY <1>1, <1>2, <1>4, <2>1, <2>2 DEF QuotaInv
<1> QED BY <1>6, <1>7

\* A row to come becomes a row, or its key was there already.
LEMMA InsertStep ==
  ASSUME TypeOK, QuotaInv, NEW c \in Requests, Insert(c)
  PROVE  QuotaInv'
<1>1. request' = [request EXCEPT ![c] = IdleRequest] /\ request[c].phase = "insert"
  BY DEF Insert
<1>2. request'[c].phase # "insert" /\ \A e \in Requests \ {c} : request'[e] = request[e]
  BY <1>1 DEF TypeOK, Request, IdleRequest
<1>3. EventRows' = EventRows \ {c} /\ EndpointRows' = EndpointRows \ {c}
  BY <1>2 DEF EventRows, EndpointRows, IsEvent
<1>4. EventRows \in SUBSET Requests /\ EndpointRows \in SUBSET Requests
  BY DEF EventRows, EndpointRows
<1>5. /\ Cardinality(EventRows) \in Nat /\ Cardinality(EndpointRows) \in Nat
      /\ Cardinality(Requests) \in Nat
  BY <1>4, RequestSets
<1>6. Cardinality(events) \in Nat /\ endpoints \in Nat /\ MaxEvents \in Nat /\ MaxEndpoints \in Nat
  BY AdmissionAssumption, FS_CardinalityType DEF QuotaInv, TypeOK
<1>7. CASE IsEvent(c)
  <2>1. c \in EventRows /\ c \notin EndpointRows
    BY <1>1, <1>7 DEF EventRows, EndpointRows
  <2>2. Cardinality(EventRows') = Cardinality(EventRows) - 1 /\ EndpointRows' = EndpointRows
    BY <1>3, <1>4, <2>1, RequestSets
  <2>3. events' = events \cup {request[c].key} /\ endpoints' = endpoints
    BY <1>7 DEF Insert
  <2>4. /\ IsFiniteSet(events') /\ Cardinality(events') \in Nat
        /\ Cardinality(events') <= Cardinality(events) + 1
    <3> DEFINE k == request[c].key
    <3>1. IsFiniteSet(events)
      BY DEF QuotaInv
    <3>2. /\ IsFiniteSet(events \cup {k})
          /\ Cardinality(events \cup {k}) = IF k \in events THEN Cardinality(events)
                                            ELSE Cardinality(events) + 1
      BY <3>1, FS_AddElement
    <3> HIDE DEF k
    <3> QED BY <1>6, <2>3, <3>2 DEF k
  <2> QED BY <1>5, <1>6, <2>2, <2>3, <2>4 DEF QuotaInv
<1>8. CASE ~IsEvent(c)
  <2>1. c \in EndpointRows /\ c \notin EventRows
    BY <1>1, <1>8 DEF EventRows, EndpointRows
  <2>2. Cardinality(EndpointRows') = Cardinality(EndpointRows) - 1 /\ EventRows' = EventRows
    BY <1>3, <1>4, <2>1, RequestSets
  <2>3. events' = events /\ endpoints' = endpoints + 1
    BY <1>8 DEF Insert
  <2> QED BY <1>5, <1>6, <2>2, <2>3 DEF QuotaInv
<1> QED BY <1>7, <1>8

\* Every step keeps rows and rows to come below the bounds.
LEMMA NextQuota == TypeOK /\ QuotaInv /\ [Next]_vars => QuotaInv'
<1> SUFFICES ASSUME TypeOK, QuotaInv, [Next]_vars PROVE QuotaInv'
  OBVIOUS
<1>1. ASSUME NEW c \in Requests,
             PostEvent(c) \/ PostEndpoint(c) \/ Limit(c) \/ Refuse(c) \/ Fail(c)
      PROVE  QuotaInv'
  <2>1. UNCHANGED <<events, endpoints>>
    BY <1>1 DEF PostEvent, PostEndpoint, Limit, Refuse, Fail
  <2>2. \/ \E k \in Keys : request' = [request EXCEPT ![c] = [phase |-> "stamped", key |-> k,
                                                             at |-> clock]]
        \/ request' = [request EXCEPT ![c].phase = "quota"]
        \/ request' = [request EXCEPT ![c] = IdleRequest]
    BY <1>1 DEF PostEvent, PostEndpoint, Limit, Refuse, Fail
  <2>3. request'[c].phase # "insert" /\ \A e \in Requests \ {c} : request'[e] = request[e]
    BY <2>2 DEF TypeOK, Request, IdleRequest
  <2>4. EventRows' \subseteq EventRows /\ EndpointRows' \subseteq EndpointRows
    BY <2>3 DEF EventRows, EndpointRows, IsEvent
  <2> QED BY <2>1, <2>4, QuotaAlone DEF TypeOK
<1>2. ASSUME NEW c \in Requests, Quota(c) PROVE QuotaInv'
  BY <1>2, QuotaStep
<1>3. ASSUME NEW c \in Requests, Insert(c) PROVE QuotaInv'
  BY <1>3, InsertStep
<1>4. CASE DeleteEndpoint \/ Tick \/ UNCHANGED vars
  <2>1. EventRows' = EventRows /\ EndpointRows' = EndpointRows
    BY <1>4 DEF EventRows, EndpointRows, IsEvent, DeleteEndpoint, Tick, vars
  <2>2. UNCHANGED events /\ endpoints' \in Nat /\ endpoints' <= endpoints
    BY <1>4 DEF TypeOK, DeleteEndpoint, Tick, vars
  <2> QED BY <2>1, <2>2, QuotaAlone
<1> QED BY <1>1, <1>2, <1>3, <1>4 DEF Next, Handle

\* The sandbox caps are not hard, although the documents say so: assert_event_quota
\* and assert_endpoint_quota count in one transaction and the row is inserted in
\* another, so that requests that counted at the same time all pass.
QuotaOverrun ==
  /\ Cardinality(events) <= MaxEvents + Cardinality(Requests) - 1
  /\ endpoints <= MaxEndpoints + Cardinality(Requests) - 1

\* How far the sandbox caps can be exceeded: by no more than one less than the
\* number of the tenant's requests in progress.
THEOREM QuotasBounded == Spec => []QuotaOverrun
<1>1. TypeOK /\ QuotaInv => QuotaOverrun
  <2> SUFFICES ASSUME TypeOK, QuotaInv PROVE QuotaOverrun
    OBVIOUS
  <2>1. EventRows \in SUBSET Requests /\ EndpointRows \in SUBSET Requests
    BY DEF EventRows, EndpointRows
  <2>2. /\ Cardinality(EventRows) \in Nat /\ Cardinality(EndpointRows) \in Nat
        /\ Cardinality(Requests) \in Nat
    BY <2>1, RequestSets
  <2>3. Cardinality(events) \in Nat /\ endpoints \in Nat /\ MaxEvents \in Nat /\ MaxEndpoints \in Nat
    BY AdmissionAssumption, FS_CardinalityType DEF QuotaInv, TypeOK
  <2> QED BY <2>2, <2>3 DEF QuotaInv, QuotaOverrun
<1>2. TypeOK /\ QuotaInv /\ [Next]_vars => TypeOK' /\ QuotaInv'
  BY NextType, NextQuota
<1> QED BY <1>1, <1>2, InitType, InitQuota, PTL DEF Spec
=============================================================================
