------------------------------ MODULE RateLimit ------------------------------
(***************************************************************************)
(* relay.infra.rate_limit: the token bucket, one Lua script per request.   *)
(* Tokens are counted in units, so that a rate below one token per second  *)
(* stays an integer: a token is Cost units, and a second (one tick of the  *)
(* clock) refills Rate of them.                                            *)
(***************************************************************************)
EXTENDS Integers

CONSTANTS
  Rate,   \* units refilled per second
  Cost,   \* units of one token, which is what a request costs
  Burst   \* capacity in tokens

ASSUME RateLimitAssumption == {Rate, Cost, Burst} \subseteq Nat \ {0}

Capacity == Burst * Cost
CeilDiv(a, b) == (a + b - 1) \div b

\* tokens, updated_at: the hash; expires: when Redis drops it.
Bucket == [tokens : 0..Capacity, updated_at : Nat, expires : Nat]
NoBucket == [tokens |-> 0, updated_at |-> 0, expires |-> 0]

\* Mutant of ttl: the hash is dropped before the bucket is full again.
ttlShort == 1

ttl == CeilDiv(Capacity, Rate) + 1

\* Mutant of refilled: nothing caps what an idle bucket collects.
refilledUncapped(b, now, clock) ==
  IF clock >= b.expires THEN Capacity
  ELSE LET elapsed == IF now < b.updated_at THEN 0 ELSE now - b.updated_at
       IN  b.tokens + elapsed * Rate

\* What the bucket holds at the caller's time `now`; by Redis's own clock the
\* hash may be gone, and then the bucket is new and full.
refilled(b, now, clock) ==
  IF clock >= b.expires THEN Capacity
  ELSE LET elapsed == IF now < b.updated_at THEN 0 ELSE now - b.updated_at
           tokens  == b.tokens + elapsed * Rate
       IN  IF tokens < Capacity THEN tokens ELSE Capacity

\* Mutant of retry_after: rounded down.
retry_afterFloored(tokens) == (Cost - tokens) \div Rate

\* The Retry-After header: whole seconds, rounded up (api/errors.py).
retry_after(tokens) == CeilDiv(Cost - tokens, Rate)

\* The script: refill, spend if there is enough, write the caller's time back.
allow(b, now, clock) ==
  LET tokens  == refilled(b, now, clock)
      allowed == tokens >= Cost
  IN
  [allowed     |-> allowed,
   retry_after |-> IF allowed THEN 0 ELSE retry_after(tokens),
   bucket      |-> [tokens     |-> IF allowed THEN tokens - Cost ELSE tokens,
                    updated_at |-> now,
                    expires    |-> clock + ttl]]
=============================================================================
