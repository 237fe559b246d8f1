---------------------------- MODULE AccountsProofs ----------------------------
(***************************************************************************)
(* Proofs about Accounts, for any sandboxes, scripts, operators, prefixes, *)
(* rate and bounds.                                                        *)
(*                                                                         *)
(* A committed key only ever changes by being revoked (KeysKept), so that  *)
(* what a request or an operator has seen of it stays true, or at worst is *)
(* revoked meanwhile, and one that has ceased to be valid never is again.  *)
(* The invariant adds to each property what holds half way: what an        *)
(* operator that has not committed has left alone, what the rows found for *)
(* a prefix still say, and, for the rate, the tokens that are left.        *)
(***************************************************************************)
EXTENDS Accounts, FiniteSetTheorems, TLAPS

-----------------------------------------------------------------------------
(* The invariant. *)

\* What TypeOK leaves out: keys is a function, whoever names a key names one that
\* exists, and the fields of a request.
Typed ==
  /\ keys \in [DOMAIN keys -> Row]
  /\ \A o \in Operators :
       /\ change[o].key # NoKey => change[o].key \in DOMAIN keys
       /\ change[o].phase # "idle" => change[o].key # NoKey
  /\ auth \in [phase : {"look", "judge"} \cup Outcomes, prefix : Prefixes \cup {Nobody},
               secret : KeyIds \cup {NoKey}, good : BOOLEAN,
               found : SUBSET [id : KeyIds, row : Row],
               context : [key : KeyIds \cup {NoKey}, tenant : Tenants \cup {Nobody}]]

\* A provision commits its tenant, then its key, with the time it tells.
Provisioned ==
  \A p \in Tenants :
    /\ p \in tenants <=> provision[p].phase \in {"issue", "answer", "done"}
    /\ provision[p].phase \in {"answer", "done"} =>
         /\ provision[p].key \in DOMAIN keys
         /\ keys[provision[p].key].tenant = p
         /\ keys[provision[p].key].expires = provision[p].expires
    /\ provision[p].phase # "idle" => (provision[p].expires = Never <=> p \in Scripts)

\* An operator that has committed nothing has revoked and issued nothing.
Untouched ==
  \A o \in Operators : change[o].phase # "done" =>
    \A k \in DOMAIN keys : o \notin keys[k].revokers /\ keys[k].issuer # o

\* One that has rotated has done both.
Rotated ==
  \A o \in Operators : change[o].phase = "done" /\ change[o].rotate =>
    /\ o \in keys[change[o].key].revokers
    /\ \E k \in DOMAIN keys :
         /\ keys[k].issuer = o
         /\ keys[k].tenant = keys[change[o].key].tenant
         /\ keys[k].scopes = keys[change[o].key].scopes

\* While everything committed so far was a rotation, a tenant keeps a key.
OneLeft ==
  (\A o \in Operators : change[o].phase = "done" => change[o].rotate) =>
    \A k \in DOMAIN keys :
      \E other \in DOMAIN keys : keys[other].tenant = keys[k].tenant /\ ~is_revoked(keys[other])

\* What a request knows: a valid key was valid when it came in, and a key that was
\* is among the rows found for its prefix, which say no more than was true.
Seen ==
  /\ auth.secret \in DOMAIN keys \cup {NoKey}
  /\ auth.good => auth.secret # NoKey
  /\ auth.phase = "look" =>
       /\ auth.secret \in DOMAIN keys /\ Valid(keys[auth.secret]) => auth.good
       /\ auth.good => keys[auth.secret].prefix = auth.prefix
  /\ auth.phase = "judge" =>
       /\ \A c \in auth.found :
            /\ c.id \in DOMAIN keys
            /\ c.row.tenant = keys[c.id].tenant
            /\ c.row.expires = keys[c.id].expires
            /\ c.row.revokers \subseteq keys[c.id].revokers
            /\ c.id = auth.secret /\ ~is_revoked(c.row) /\ ~is_expired(c.row, clock) => auth.good
       /\ auth.good => \E c \in auth.found : c.id = auth.secret

Started == {p \in Sandboxes : provision[p].phase # "idle"}
Left == refilled(bucket, clock, clock)

\* What has passed and what is left never exceed the burst and the refill.
Limited ==
  /\ bucket.updated_at <= clock
  /\ bucket.expires = 0 \/ bucket.expires = bucket.updated_at + ttl
  /\ Cardinality(Started) * Cost + Left <= Capacity + (clock - 1) * Rate

IInv ==
  /\ TypeOK /\ Typed /\ Provisioned
  /\ Untouched /\ Rotated /\ OneLeft
  /\ Seen /\ AuthSound
  /\ Limited

-----------------------------------------------------------------------------
(* Keys. *)

\* The committed keys are numbered, and the next one is not among them.
LEMMA FreshKey ==
  ASSUME TypeOK
  PROVE  /\ Fresh \in Nat \ {0}
         /\ DOMAIN keys = 1..(Fresh - 1) /\ Fresh \notin DOMAIN keys
         /\ NoKey \notin DOMAIN keys
<1>1. IsFiniteSet(1..MaxKeys) /\ DOMAIN keys \in SUBSET (1..MaxKeys)
  BY AccountsAssumption, FS_Interval DEF TypeOK, KeyIds
<1>2. Cardinality(DOMAIN keys) \in Nat
  BY <1>1, FS_Subset, FS_CardinalityType
<1>3. DOMAIN keys = 1..Cardinality(DOMAIN keys)
  BY DEF TypeOK
<1> DEFINE n == Cardinality(DOMAIN keys)
<1>4. n \in Nat /\ DOMAIN keys = 1..n /\ Fresh = n + 1
  BY <1>2, <1>3 DEF Fresh
<1> HIDE DEF n
<1> QED BY <1>4 DEF NoKey

\* One row more than those of `old`, and a domain that stays numbered.
Added(old, row) ==
  /\ DOMAIN keys' = DOMAIN keys \cup {Fresh}
  /\ keys' \in [DOMAIN keys' -> Row]
  /\ DOMAIN keys' = 1..Cardinality(DOMAIN keys') /\ DOMAIN keys' \subseteq KeyIds
  /\ \A k \in DOMAIN keys : keys'[k] = old[k]
  /\ keys'[Fresh] = row

\* That is what issuing does.
LEMMA IssuedFacts ==
  ASSUME TypeOK, NEW old \in [DOMAIN keys -> Row], Fresh \in KeyIds,
         NEW who \in Tenants \cup Operators, NEW tenant \in Tenants,
         NEW scopes \in {SandboxScopes, FullScope}, NEW expires \in Nat, NEW prefix \in Prefixes,
         keys' = Issued(old, who, tenant, scopes, expires, prefix)
  PROVE  Added(old, [tenant |-> tenant, prefix |-> prefix, scopes |-> scopes,
                     expires |-> expires, issuer |-> who, revokers |-> {}])
<1> DEFINE row == [tenant |-> tenant, prefix |-> prefix, scopes |-> scopes,
                   expires |-> expires, issuer |-> who, revokers |-> {}]
           n == Fresh
<1>1. n \in Nat \ {0} /\ DOMAIN keys = 1..(n - 1) /\ n \notin DOMAIN keys
  BY FreshKey
<1>2. row \in Row
  BY DEF Row
<1>3. keys' = [k \in DOMAIN keys \cup {n} |-> IF k = n THEN row ELSE old[k]]
  BY DEF Issued
<1> HIDE DEF row, n
<1>4. DOMAIN keys' = DOMAIN keys \cup {n} /\ keys' \in [DOMAIN keys' -> Row]
  BY <1>1, <1>2, <1>3
<1>5. keys'[n] = row /\ \A k \in DOMAIN keys : keys'[k] = old[k]
  BY <1>1, <1>3
<1>6. DOMAIN keys' = 1..n
  BY <1>1, <1>4
<1>7. Cardinality(1..n) = n
  BY <1>1, FS_Interval
<1>8. DOMAIN keys' \subseteq KeyIds
  BY <1>4 DEF TypeOK, n
<1> QED BY <1>4, <1>5, <1>6, <1>7, <1>8 DEF row, n, Added

\* A committed key changes only by being revoked.
KeysKept ==
  \A k \in DOMAIN keys :
    /\ k \in DOMAIN keys'
    /\ keys'[k].tenant = keys[k].tenant /\ keys'[k].prefix = keys[k].prefix
    /\ keys'[k].scopes = keys[k].scopes /\ keys'[k].expires = keys[k].expires
    /\ keys'[k].issuer = keys[k].issuer
    /\ keys[k].revokers \subseteq keys'[k].revokers

\* The row a revocation by o writes, over the committed ones.
LEMMA RevokedFacts ==
  ASSUME TypeOK, Typed, NEW o \in Operators, change[o].phase # "idle"
  PROVE  /\ change[o].key \in DOMAIN keys
         /\ RevokedBy(o) \in [DOMAIN keys -> Row]
         /\ RevokedBy(o)[change[o].key] = [keys[change[o].key] EXCEPT !.revokers = @ \cup {o}]
         /\ \A k \in DOMAIN keys \ {change[o].key} : RevokedBy(o)[k] = keys[k]
<1>1. change[o].key \in DOMAIN keys /\ keys \in [DOMAIN keys -> Row]
  BY DEF Typed
<1> DEFINE c == change[o].key
           row == [keys[c] EXCEPT !.revokers = @ \cup {o}]
<1>2. RevokedBy(o) = [keys EXCEPT ![c] = row]
  BY DEF RevokedBy
<1>3. row \in Row
  BY <1>1 DEF Row
<1> HIDE DEF row, c
<1>4. c \in DOMAIN keys
  BY <1>1 DEF c
<1>5. RevokedBy(o) \in [DOMAIN keys -> Row] /\ RevokedBy(o)[c] = row
      /\ \A k \in DOMAIN keys \ {c} : RevokedBy(o)[k] = keys[k]
  BY <1>1, <1>2, <1>3, <1>4
<1> QED BY <1>1, <1>5 DEF row, c

\* A key that is not valid never is again.
LEMMA ValidOnce ==
  ASSUME TypeOK, TypeOK', KeysKept, clock' >= clock, NEW k \in DOMAIN keys, Valid(keys[k])'
  PROVE  Valid(keys[k])
<1>1. clock \in Nat /\ clock' \in Nat /\ keys[k].expires \in Nat
  BY AccountsAssumption DEF TypeOK, Row
<1> QED BY <1>1 DEF KeysKept, Valid, is_revoked, is_expired

-----------------------------------------------------------------------------
(* The bucket, of which every request knows the time: now is the clock. *)

\* CeilDiv rounds up, so the bucket is full again before its hash is dropped.
LEMMA Times ==
  /\ Capacity \in Nat \ {0} /\ Cost \in Nat \ {0} /\ Rate \in Nat \ {0}
  /\ ttl \in Nat \ {0}
  /\ (ttl - 1) * Rate >= Capacity
<1>1. Capacity \in Nat \ {0} /\ Cost \in Nat \ {0} /\ Rate \in Nat \ {0}
  BY RateLimitAssumption DEF Capacity
<1> DEFINE n == Capacity + Rate - 1
           q == n \div Rate
<1>2. n \in Nat /\ q \in Nat /\ n % Rate \in 0..(Rate - 1) /\ n = Rate * q + (n % Rate)
  <2>1. n \in Nat
    BY <1>1
  <2> HIDE DEF n
  <2> QED BY <1>1, <2>1
<1>3. ttl = q + 1
  BY DEF ttl, CeilDiv
<1>4. Rate * q >= Capacity /\ Rate * q \in Int
  <2> HIDE DEF q
  <2>1. Rate * q \in Int
    BY <1>1, <1>2
  <2> QED BY <1>1, <1>2, <2>1
<1>5. ttl \in Nat \ {0} /\ ttl - 1 = q
  <2> HIDE DEF q, ttl
  <2> QED BY <1>2, <1>3
<1>6. q * Rate = Rate * q
  <2> HIDE DEF q
  <2> QED BY <1>1, <1>2
<1> QED BY <1>1, <1>4, <1>5, <1>6

\* w seconds more refill no less, and one more a second's worth.
LEMMA Refill ==
  ASSUME NEW w \in Nat
  PROVE  /\ w * Rate \in Nat /\ (w + 1) * Rate = w * Rate + Rate
         /\ \A v \in Nat : v <= w => v * Rate \in Nat /\ v * Rate <= w * Rate
BY Times

LEMMA RefilledType ==
  ASSUME NEW b \in Bucket, NEW t \in Nat
  PROVE  refilled(b, t, t) \in 0..Capacity
<1> DEFINE elapsed == IF t < b.updated_at THEN 0 ELSE t - b.updated_at
<1>1. elapsed \in Nat /\ b.tokens \in 0..Capacity
  BY DEF Bucket
<1>2. refilled(b, t, t) = IF t >= b.expires THEN Capacity
                          ELSE IF b.tokens + elapsed * Rate < Capacity
                               THEN b.tokens + elapsed * Rate ELSE Capacity
  BY DEF refilled
<1> HIDE DEF elapsed
<1>3. elapsed * Rate \in Nat
  BY <1>1, Refill
<1> QED BY <1>1, <1>2, <1>3, Times

\* What the script takes from the bucket it takes from what is left.
LEMMA ScriptTakes ==
  ASSUME NEW b \in Bucket, NEW t \in Nat
  PROVE  LET d == allow(b, t, t)
             left == refilled(b, t, t)
         IN  /\ d.bucket \in Bucket
             /\ d.bucket.updated_at = t /\ d.bucket.expires = t + ttl
             /\ refilled(d.bucket, t, t) = IF d.allowed THEN left - Cost ELSE left
<1> DEFINE left == refilled(b, t, t)
           d == allow(b, t, t)
           now == d.bucket
<1>1. left \in 0..Capacity
  BY RefilledType
<1>2. /\ d.allowed = (left >= Cost)
      /\ now.tokens = (IF left >= Cost THEN left - Cost ELSE left)
      /\ now.updated_at = t /\ now.expires = t + ttl
      /\ now = [tokens |-> now.tokens, updated_at |-> now.updated_at, expires |-> now.expires]
  BY DEF allow
<1> HIDE DEF left, d
<1>3. now.tokens \in 0..Capacity /\ t + ttl \in Nat
  BY <1>1, <1>2, Times
<1>4. now \in Bucket
  BY <1>2, <1>3 DEF Bucket
<1>5. refilled(now, t, t) = now.tokens
  <2>1. ~(t >= now.expires) /\ ~(t < now.updated_at) /\ t - now.updated_at = 0 /\ 0 * Rate = 0
    BY <1>2, Times
  <2>2. refilled(now, t, t) = IF now.tokens + 0 * Rate < Capacity THEN now.tokens + 0 * Rate ELSE Capacity
    BY <2>1 DEF refilled
  <2> DEFINE had == now.tokens
  <2>3. refilled(now, t, t) = IF had < Capacity THEN had ELSE Capacity
    <3>1. had + 0 * Rate = had
      BY <1>3, <2>1
    <3> QED BY <2>2, <3>1
  <2> HIDE DEF had
  <2>4. had \in 0..Capacity /\ had = now.tokens
    BY <1>3 DEF had
  <2> QED BY <2>3, <2>4, Times
<1> QED BY <1>2, <1>4, <1>5 DEF left, d

\* A second refills no more than Rate, also when the hash expires in it.
LEMMA SecondRefills ==
  ASSUME NEW b \in Bucket, NEW t \in Nat, b.updated_at <= t,
         b.expires = 0 \/ b.expires = b.updated_at + ttl
  PROVE  refilled(b, t + 1, t + 1) <= refilled(b, t, t) + Rate
<1> DEFINE w == t - b.updated_at
           next == t + 1
           full(n) == IF b.tokens + n * Rate < Capacity THEN b.tokens + n * Rate ELSE Capacity
<1>1. w \in Nat /\ b.tokens \in 0..Capacity /\ b.updated_at \in Nat /\ b.expires \in Nat
  BY DEF Bucket
<1>2. next \in Nat /\ next - b.updated_at = w + 1
  BY <1>1
<1>3. refilled(b, t, t) \in 0..Capacity /\ refilled(b, next, next) \in 0..Capacity
  BY <1>2, RefilledType
<1>4. w * Rate \in Nat /\ (w + 1) * Rate = w * Rate + Rate
  BY <1>1, Refill
<1>5. CASE t >= b.expires
  <2>1. refilled(b, t, t) = Capacity
    BY <1>5 DEF refilled
  <2> QED BY <1>3, <2>1, Times
<1>6. CASE ~(t >= b.expires)
  <2>1. refilled(b, t, t) = full(w)
    BY <1>1, <1>6 DEF refilled
  <2>2. CASE next >= b.expires
    <3>1. w >= ttl - 1 /\ ttl - 1 \in Nat
      BY <1>1, <1>6, <2>2, Times
    <3>2. w * Rate >= (ttl - 1) * Rate /\ (ttl - 1) * Rate \in Nat
      BY <1>1, <3>1, Refill
    <3> HIDE DEF w
    <3>3. full(w) = Capacity
      BY <1>1, <1>4, <3>2, Times
    <3> QED BY <1>3, <2>1, <3>3, Times
  <2>3. CASE ~(next >= b.expires)
    <3>1. ~(next < b.updated_at)
      BY <1>1
    <3> HIDE DEF next
    <3>2. refilled(b, next, next) = full(w + 1)
      BY <1>2, <2>3, <3>1 DEF refilled
    <3> HIDE DEF w
    <3>3. full(w + 1) <= full(w) + Rate
      BY <1>1, <1>4, Times
    <3> QED BY <2>1, <3>2, <3>3 DEF next
  <2> QED BY <2>2, <2>3
<1> QED BY <1>5, <1>6

-----------------------------------------------------------------------------
(* Types, and what a provision has come to. *)

TInv == TypeOK /\ Typed /\ Provisioned

Provisions == [phase : {"idle", "tenant", "issue", "answer", "done"},
               key : KeyIds \cup {NoKey}, expires : Nat]
Changes == [phase : {"idle", "loaded", "revoked", "done"}, rotate : BOOLEAN,
            key : KeyIds \cup {NoKey}]
Requests == [phase : {"look", "judge"} \cup Outcomes, prefix : Prefixes \cup {Nobody},
             secret : KeyIds \cup {NoKey}, good : BOOLEAN,
             found : SUBSET [id : KeyIds, row : Row],
             context : [key : KeyIds \cup {NoKey}, tenant : Tenants \cup {Nobody}]]

LEMMA InitType == Init => TInv
<1> SUFFICES ASSUME Init PROVE TInv
  OBVIOUS
<1>1. MaxKeys \in Nat \ {0} /\ MaxTime \in Nat \ {0} /\ Ttl \in Nat \ {0} /\ Never \in Nat
  BY AccountsAssumption DEF Never
<1>2. DOMAIN keys = {} /\ keys \in [DOMAIN keys -> Row] /\ 1..0 = {} /\ Cardinality({}) = 0
  BY FS_EmptySet DEF Init
<1>3. NoBucket \in Bucket
  BY Times DEF NoBucket, Bucket
<1>4. provision \in [Tenants -> Provisions] /\ \A p \in Tenants : provision[p].phase = "idle"
  BY <1>1 DEF Init, IdleProvision, Provisions
<1>5. change \in [Operators -> Changes] /\ \A o \in Operators : change[o].phase = "idle" /\ change[o].key = NoKey
  BY DEF Init, IdleChange, Changes
<1>6. auth \in Requests /\ auth.phase = "401"
  BY DEF Init, Requests, NoContext, Outcomes
<1>7. clock \in 1..MaxTime /\ tenants = {}
  BY <1>1 DEF Init
<1>8. TypeOK
  BY <1>2, <1>3, <1>4, <1>5, <1>6, <1>7 DEF Init, TypeOK, Provisions, Changes, Outcomes
<1> QED BY <1>2, <1>4, <1>5, <1>6, <1>7, <1>8 DEF TInv, Typed, Provisioned, Requests

\* Provisions that leave the keys alone.
LEMMA ProvisionType ==
  ASSUME TInv, NEW p \in Tenants,
         Limit(p) \/ Refuse(p) \/ RunScript(p) \/ CreateTenant(p) \/ Answer(p)
  PROVE  TInv'
<1>1. UNCHANGED <<clock, keys, change, auth>>
  BY DEF Limit, Refuse, RunScript, CreateTenant, Answer
<1>2. /\ clock \in Nat /\ clock <= MaxTime /\ MaxTime \in Nat /\ Ttl \in Nat
      /\ Never \in Nat /\ clock + Ttl \in Nat /\ clock + Ttl # Never
  BY AccountsAssumption DEF TInv, TypeOK, Never
<1>3. provision \in [Tenants -> Provisions] /\ provision[p] \in Provisions
  BY DEF TInv, TypeOK, Provisions
<1>4. bucket' \in Bucket
  <2>1. allow(bucket, clock, clock).bucket \in Bucket
    BY <1>2, ScriptTakes DEF TInv, TypeOK
  <2> QED BY <2>1 DEF TInv, TypeOK, Limit, Refuse, RunScript, CreateTenant, Answer, Spent
<1>5. /\ provision'[p] \in Provisions
      /\ \A q \in Tenants \ {p} : provision'[q] = provision[q]
      /\ provision' \in [Tenants -> Provisions]
  <2>1. CASE Limit(p)
    BY <1>2, <1>3, <2>1 DEF Limit, Provisions
  <2>2. CASE Refuse(p)
    BY <1>3, <2>2 DEF Refuse
  <2>3. CASE RunScript(p)
    BY <1>2, <1>3, <2>3 DEF RunScript, Provisions
  <2>4. CASE CreateTenant(p) \/ Answer(p)
    BY <1>3, <2>4 DEF CreateTenant, Answer, Provisions
  <2> QED BY <2>1, <2>2, <2>3, <2>4
<1>6. tenants' \subseteq Tenants /\ tenants \subseteq tenants'
  BY DEF TInv, TypeOK, Limit, Refuse, RunScript, CreateTenant, Answer
<1>7. \A q \in Tenants \ {p} : q \in tenants' <=> q \in tenants
  BY DEF Limit, Refuse, RunScript, CreateTenant, Answer
<1>8. /\ p \in tenants' <=> provision'[p].phase \in {"issue", "answer", "done"}
      /\ provision'[p].phase \in {"answer", "done"} =>
           /\ provision[p].phase \in {"answer", "done"}
           /\ provision'[p].key = provision[p].key /\ provision'[p].expires = provision[p].expires
      /\ provision'[p].phase # "idle" => (provision'[p].expires = Never <=> p \in Scripts)
  <2>1. CASE Limit(p)
    BY <1>2, <1>3, <2>1, AccountsAssumption DEF Limit, Provisions, TInv, Provisioned
  <2>2. CASE Refuse(p)
    BY <2>2 DEF Refuse, TInv, Provisioned
  <2>3. CASE RunScript(p)
    BY <1>3, <2>3 DEF RunScript, Provisions, TInv, Provisioned
  <2>4. CASE CreateTenant(p)
    BY <1>3, <2>4 DEF CreateTenant, Provisions, TInv, Provisioned
  <2>5. CASE Answer(p)
    BY <1>3, <2>5 DEF Answer, Provisions, TInv, Provisioned
  <2> QED BY <2>1, <2>2, <2>3, <2>4, <2>5
<1>9. TypeOK'
  BY <1>1, <1>4, <1>5, <1>6 DEF TInv, TypeOK, Provisions
<1>10. Typed'
  BY <1>1 DEF TInv, Typed
<1>11. Provisioned'
  BY <1>1, <1>5, <1>7, <1>8 DEF TInv, Provisioned
<1> QED BY <1>9, <1>10, <1>11 DEF TInv

\* Rows found, keys in hand and provisions survive any step that keeps the keys.
LEMMA KeysType ==
  ASSUME TInv, KeysKept, keys' \in [DOMAIN keys' -> Row],
         DOMAIN keys' = 1..Cardinality(DOMAIN keys'), DOMAIN keys' \subseteq KeyIds,
         \A k \in DOMAIN keys' : keys'[k].tenant \in tenants,
         UNCHANGED <<clock, bucket, tenants, auth>>,
         provision' \in [Tenants -> Provisions], change' \in [Operators -> Changes],
         \A o \in Operators :
           /\ change'[o].key = change[o].key
           /\ change'[o].phase # "idle" => change[o].phase # "idle",
         \A p \in Tenants :
           \/ provision'[p] = provision[p]
           \/ /\ p \in tenants
              /\ provision'[p].phase = "answer" /\ provision[p].phase = "issue"
              /\ provision'[p].expires = provision[p].expires
              /\ provision'[p].key \in DOMAIN keys'
              /\ keys'[provision'[p].key].tenant = p
              /\ keys'[provision'[p].key].expires = provision[p].expires
  PROVE  TInv'
<1>1. TypeOK'
  BY DEF TInv, TypeOK, Provisions, Changes
<1>2. Typed'
  BY DEF TInv, Typed, KeysKept
<1>3. Provisioned'
  <2> SUFFICES ASSUME NEW p \in Tenants
               PROVE  /\ p \in tenants <=> provision'[p].phase \in {"issue", "answer", "done"}
                      /\ provision'[p].phase \in {"answer", "done"} =>
                           /\ provision'[p].key \in DOMAIN keys'
                           /\ keys'[provision'[p].key].tenant = p
                           /\ keys'[provision'[p].key].expires = provision'[p].expires
                      /\ provision'[p].phase # "idle" => (provision'[p].expires = Never <=> p \in Scripts)
    BY DEF Provisioned
  <2>1. CASE provision'[p] = provision[p]
    BY <2>1 DEF TInv, Provisioned, KeysKept
  <2>2. CASE provision'[p] # provision[p]
    BY <2>2 DEF TInv, Provisioned
  <2> QED BY <2>1, <2>2
<1> QED BY <1>1, <1>2, <1>3 DEF TInv

LEMMA IssueKeys ==
  ASSUME TInv, NEW p \in Tenants, Issue(p)
  PROVE  /\ KeysKept /\ TInv'
         /\ DOMAIN keys' = DOMAIN keys \cup {Fresh} /\ Fresh \notin DOMAIN keys
         /\ \A k \in DOMAIN keys : keys'[k] = keys[k]
         /\ keys'[Fresh].issuer = p /\ keys'[Fresh].revokers = {}
<1>1. PICK prefix \in Prefixes :
        keys' = Issued(keys, p, p, IF p \in Sandboxes THEN SandboxScopes ELSE FullScope,
                       provision[p].expires, prefix)
  BY DEF Issue
<1>2. provision[p].expires \in Nat /\ p \in tenants /\ Fresh \in KeyIds /\ TypeOK
  BY DEF TInv, TypeOK, Provisioned, Issue
<1>3. PICK scopes \in {SandboxScopes, FullScope}, expires \in Nat :
        /\ expires = provision[p].expires
        /\ keys' = Issued(keys, p, p, scopes, expires, prefix)
  BY <1>1, <1>2
<1>4. /\ DOMAIN keys' = DOMAIN keys \cup {Fresh}
      /\ keys' \in [DOMAIN keys' -> Row]
      /\ DOMAIN keys' = 1..Cardinality(DOMAIN keys') /\ DOMAIN keys' \subseteq KeyIds
      /\ \A k \in DOMAIN keys : keys'[k] = keys[k]
      /\ keys'[Fresh].tenant = p /\ keys'[Fresh].issuer = p /\ keys'[Fresh].revokers = {}
      /\ keys'[Fresh].expires = provision[p].expires
  <2>1. keys \in [DOMAIN keys -> Row] /\ p \in Tenants \cup Operators
    BY DEF TInv, Typed
  <2>2. Added(keys, [tenant |-> p, prefix |-> prefix, scopes |-> scopes,
                     expires |-> expires, issuer |-> p, revokers |-> {}])
    BY <1>2, <1>3, <2>1, IssuedFacts, Zenon
  <2> QED BY <1>3, <2>2 DEF Added
<1>5. Fresh \notin DOMAIN keys
  BY <1>2, FreshKey
<1>6. KeysKept
  BY <1>4 DEF KeysKept
<1>7. /\ provision[p].phase = "issue"
      /\ provision' = [provision EXCEPT ![p].phase = "answer", ![p].key = Fresh]
      /\ UNCHANGED <<clock, bucket, tenants, change, auth>>
  BY DEF Issue
<1>8. provision \in [Tenants -> Provisions] /\ change \in [Operators -> Changes]
  BY DEF TInv, TypeOK, Provisions, Changes
<1> DEFINE new == Fresh
<1>9. new \in KeyIds /\ provision' = [provision EXCEPT ![p].phase = "answer", ![p].key = new]
  BY <1>2, <1>7
<1> HIDE DEF new
<1>10. /\ provision' \in [Tenants -> Provisions]
       /\ \A q \in Tenants \ {p} : provision'[q] = provision[q]
       /\ provision'[p].phase = "answer" /\ provision'[p].key = new
       /\ provision'[p].expires = provision[p].expires
  BY <1>8, <1>9 DEF Provisions
<1>11. \A k \in DOMAIN keys' : keys'[k].tenant \in tenants
  BY <1>2, <1>4 DEF TInv, TypeOK
<1>12. TInv'
  BY <1>2, <1>4, <1>6, <1>7, <1>8, <1>10, <1>11, KeysType DEF new
<1> QED BY <1>4, <1>5, <1>6, <1>12

\* What a change commits: its key revoked and, if it is a rotation, one key more.
LEMMA CommitKeys ==
  ASSUME TInv, NEW o \in Operators, CommitChange(o), NEW c, c = change[o].key
  PROVE  /\ KeysKept /\ TInv'
         /\ c \in DOMAIN keys
         /\ keys'[c].revokers = keys[c].revokers \cup {o}
         /\ \A k \in DOMAIN keys \ {c} : keys'[k] = keys[k]
         /\ ~change[o].rotate => DOMAIN keys' = DOMAIN keys
         /\ change[o].rotate =>
              /\ DOMAIN keys' = DOMAIN keys \cup {Fresh} /\ Fresh \notin DOMAIN keys
              /\ keys'[Fresh].issuer = o /\ keys'[Fresh].revokers = {}
              /\ keys'[Fresh].tenant = keys[c].tenant /\ keys'[Fresh].scopes = keys[c].scopes
<1>1. TypeOK /\ Typed /\ change[o].phase = "revoked"
  BY DEF TInv, CommitChange
<1>20. PICK old \in [DOMAIN keys -> Row] : old = RevokedBy(o)
  BY <1>1, RevokedFacts
<1>2. /\ c \in DOMAIN keys
      /\ old \in [DOMAIN keys -> Row]
      /\ old[c] = [keys[c] EXCEPT !.revokers = @ \cup {o}]
      /\ \A k \in DOMAIN keys \ {c} : old[k] = keys[k]
  BY <1>1, <1>20, RevokedFacts
<1>3. keys[c] \in Row /\ keys[c].tenant \in tenants /\ tenants \subseteq Tenants
  BY <1>1, <1>2 DEF TypeOK
<1>4. /\ old[c].tenant = keys[c].tenant /\ old[c].prefix = keys[c].prefix
      /\ old[c].scopes = keys[c].scopes /\ old[c].expires = keys[c].expires
      /\ old[c].issuer = keys[c].issuer /\ old[c].revokers = keys[c].revokers \cup {o}
  BY <1>2, <1>3 DEF Row
<1>5. Never \in Nat
  BY AccountsAssumption DEF Never
<1>6. Fresh \notin DOMAIN keys
  BY <1>1, FreshKey
<1>8. /\ \A k \in DOMAIN keys : k \in DOMAIN keys' /\ keys'[k] = old[k]
      /\ keys' \in [DOMAIN keys' -> Row]
      /\ DOMAIN keys' = 1..Cardinality(DOMAIN keys') /\ DOMAIN keys' \subseteq KeyIds
      /\ ~change[o].rotate => DOMAIN keys' = DOMAIN keys
      /\ change[o].rotate =>
           /\ DOMAIN keys' = DOMAIN keys \cup {Fresh}
           /\ keys'[Fresh].issuer = o /\ keys'[Fresh].revokers = {}
           /\ keys'[Fresh].tenant = keys[c].tenant /\ keys'[Fresh].scopes = keys[c].scopes
  <2>1. CASE ~change[o].rotate
    <3>1. keys' = old
      BY <1>20, <2>1 DEF CommitChange
    <3> QED BY <1>1, <1>2, <2>1, <3>1 DEF TypeOK
  <2>2. CASE change[o].rotate
    <3>1. PICK prefix \in Prefixes :
            keys' = Issued(old, o, keys[c].tenant, keys[c].scopes, Never, prefix)
      BY <1>20, <2>2 DEF CommitChange
    <3>2. PICK tenant \in Tenants, scopes \in {SandboxScopes, FullScope}, expires \in Nat :
            /\ tenant = keys[c].tenant /\ scopes = keys[c].scopes
            /\ keys' = Issued(old, o, tenant, scopes, expires, prefix)
      BY <1>3, <1>5, <3>1 DEF Row
    <3>3. o \in Tenants \cup Operators /\ Fresh \in KeyIds
      BY <2>2 DEF CommitChange
    <3>4. Added(old, [tenant |-> tenant, prefix |-> prefix, scopes |-> scopes,
                      expires |-> expires, issuer |-> o, revokers |-> {}])
      BY <1>1, <3>2, <3>3, IssuedFacts, Zenon
    <3>5. /\ keys'[Fresh].issuer = o /\ keys'[Fresh].revokers = {}
          /\ keys'[Fresh].tenant = keys[c].tenant /\ keys'[Fresh].scopes = keys[c].scopes
      <4> DEFINE new == keys'[Fresh]
      <4>1. new = [tenant |-> tenant, prefix |-> prefix, scopes |-> scopes,
                   expires |-> expires, issuer |-> o, revokers |-> {}]
        BY <3>4, Zenon DEF Added
      <4> HIDE DEF new
      <4>2. new.issuer = o /\ new.revokers = {} /\ new.tenant = tenant /\ new.scopes = scopes
        BY <4>1
      <4> QED BY <3>2, <4>2 DEF new
    <3>6. /\ DOMAIN keys' = DOMAIN keys \cup {Fresh}
          /\ keys' \in [DOMAIN keys' -> Row]
          /\ DOMAIN keys' = 1..Cardinality(DOMAIN keys') /\ DOMAIN keys' \subseteq KeyIds
          /\ \A k \in DOMAIN keys : keys'[k] = old[k]
      BY <3>4 DEF Added
    <3>7. \A k \in DOMAIN keys : k \in DOMAIN keys'
      BY <3>6
    <3> QED BY <2>2, <3>5, <3>6, <3>7, Zenon
  <2> QED BY <2>1, <2>2
<1>9. KeysKept
  <2> SUFFICES ASSUME NEW k \in DOMAIN keys
               PROVE  /\ k \in DOMAIN keys'
                      /\ old[k].tenant = keys[k].tenant /\ old[k].prefix = keys[k].prefix
                      /\ old[k].scopes = keys[k].scopes /\ old[k].expires = keys[k].expires
                      /\ old[k].issuer = keys[k].issuer
                      /\ keys[k].revokers \subseteq old[k].revokers
    BY <1>8 DEF KeysKept
  <2>1. CASE k = c
    BY <1>4, <1>8, <2>1
  <2>2. CASE k # c
    BY <1>2, <1>8, <2>2
  <2> QED BY <2>1, <2>2
<1>10. \A k \in DOMAIN keys' : keys'[k].tenant \in tenants
  <2>1. \A k \in DOMAIN keys : keys'[k].tenant \in tenants
    BY <1>1, <1>9 DEF KeysKept, TypeOK
  <2> QED BY <1>3, <1>8, <2>1
<1>11. UNCHANGED <<clock, bucket, tenants, provision, auth>> /\ change' = [change EXCEPT ![o].phase = "done"]
  BY DEF CommitChange
<1>12. provision \in [Tenants -> Provisions] /\ change \in [Operators -> Changes]
  BY <1>1 DEF TypeOK, Provisions, Changes
<1>13. /\ change' \in [Operators -> Changes]
       /\ \A q \in Operators :
            /\ change'[q].key = change[q].key
            /\ change'[q].phase # "idle" => change[q].phase # "idle"
  BY <1>1, <1>11, <1>12 DEF Changes
<1>14. TInv'
  BY <1>8, <1>9, <1>10, <1>11, <1>12, <1>13, KeysType
<1> QED BY <1>2, <1>4, <1>6, <1>8, <1>9, <1>14

LEMMA ChangeType ==
  ASSUME TInv, NEW o \in Operators, LoadKey(o) \/ LockKey(o) \/ FailChange(o)
  PROVE  /\ TInv' /\ UNCHANGED <<keys, auth, clock, bucket, provision>>
         /\ \A q \in Operators \ {o} : change'[q] = change[q]
         /\ change[o].phase # "done" /\ change'[o].phase # "done"
<1>1. UNCHANGED <<clock, bucket, tenants, keys, provision, auth>>
  BY DEF LoadKey, LockKey, FailChange
<1>2. change \in [Operators -> Changes] /\ DOMAIN keys \subseteq KeyIds /\ NoKey \notin DOMAIN keys
  BY FreshKey DEF TInv, TypeOK, Changes
<1>3. /\ change' \in [Operators -> Changes]
      /\ \A q \in Operators \ {o} : change'[q] = change[q]
      /\ change[o].phase # "done" /\ change'[o].phase # "done"
      /\ change'[o].key # NoKey => change'[o].key \in DOMAIN keys
      /\ change'[o].phase # "idle" => change'[o].key # NoKey
  <2>1. CASE LoadKey(o)
    <3>1. PICK k \in DOMAIN keys, rotate \in BOOLEAN :
            change' = [change EXCEPT ![o] = [phase |-> "loaded", rotate |-> rotate, key |-> k]]
      BY <2>1 DEF LoadKey
    <3>2. [phase |-> "loaded", rotate |-> rotate, key |-> k] \in Changes
      BY <1>2, <3>1 DEF Changes
    <3> QED BY <1>2, <2>1, <3>1, <3>2 DEF LoadKey
  <2>2. CASE LockKey(o)
    BY <1>2, <2>2 DEF LockKey, Changes, TInv, Typed
  <2>3. CASE FailChange(o)
    BY <1>2, <2>3 DEF FailChange, Changes, IdleChange
  <2> QED BY <2>1, <2>2, <2>3
<1>4. TypeOK'
  BY <1>1, <1>3 DEF TInv, TypeOK, Changes
<1>5. Typed'
  BY <1>1, <1>3 DEF TInv, Typed
<1>6. Provisioned'
  BY <1>1 DEF TInv, Provisioned
<1> QED BY <1>1, <1>3, <1>4, <1>5, <1>6 DEF TInv

LEMMA AuthType ==
  ASSUME TInv, Authenticate
  PROVE  TInv' /\ UNCHANGED <<clock, bucket, tenants, keys, provision, change>>
<1>1. UNCHANGED <<clock, bucket, tenants, keys, provision, change>>
  BY DEF Authenticate, Present, Look, Judge
<1>2. auth \in Requests /\ DOMAIN keys \subseteq KeyIds /\ \A k \in DOMAIN keys : keys[k] \in Row
  BY DEF TInv, TypeOK, Typed, Requests
<1>3. auth' \in Requests
  <2>1. ASSUME NEW k \in DOMAIN keys, Present(k) PROVE auth' \in Requests
    <3>1. PICK secret \in {k, NoKey} :
            auth' = [phase |-> "look", prefix |-> keys[k].prefix, secret |-> secret,
                     good |-> secret = k /\ Valid(keys[k]), found |-> {}, context |-> NoContext]
      BY <2>1 DEF Present
    <3>2. keys[k].prefix \in Prefixes \cup {Nobody} /\ secret \in KeyIds \cup {NoKey}
      BY <1>2 DEF Row
    <3>3. (secret = k /\ Valid(keys[k])) \in BOOLEAN
      OBVIOUS
    <3>4. NoContext \in [key : KeyIds \cup {NoKey}, tenant : Tenants \cup {Nobody}]
      BY DEF NoContext
    <3> QED BY <3>1, <3>2, <3>3, <3>4 DEF Requests
  <2>2. CASE Look
    <3> DEFINE rowsFound == {[id |-> k, row |-> keys[k]] :
                               k \in {k \in DOMAIN keys : keys[k].prefix = auth.prefix}}
    <3>1. auth' = [auth EXCEPT !.phase = "judge", !.found = rowsFound]
      BY <2>2 DEF Look
    <3>2. rowsFound \in SUBSET [id : KeyIds, row : Row]
      BY <1>2
    <3> HIDE DEF rowsFound
    <3> QED BY <1>2, <3>1, <3>2 DEF Requests
  <2>3. CASE Judge
    <3>1. CASE auth' = [auth EXCEPT !.phase = "401", !.prefix = Nobody, !.found = {}]
      BY <1>2, <3>1 DEF Requests, Outcomes
    <3>2. ASSUME NEW c \in Matched, NEW scope,
                 auth' = [auth EXCEPT
                   !.phase = IF has_scope(c.row, scope) THEN "accepted" ELSE "403",
                   !.prefix = Nobody, !.found = {}, !.context = [key |-> c.id, tenant |-> c.row.tenant]]
          PROVE  auth' \in Requests
      <4>1. c.id \in KeyIds /\ c.row.tenant \in Tenants
        BY <1>2 DEF Matched, Requests, Row
      <4>2. (IF has_scope(c.row, scope) THEN "accepted" ELSE "403") \in Outcomes
        BY DEF Outcomes
      <4> QED BY <1>2, <3>2, <4>1, <4>2 DEF Requests
    <3> QED BY <2>3, <3>1, <3>2 DEF Judge
  <2> QED BY <2>1, <2>2, <2>3 DEF Authenticate
<1>4. TypeOK'
  BY <1>1, <1>3 DEF TInv, TypeOK, Requests
<1>5. Typed' /\ Provisioned'
  BY <1>1, <1>3 DEF TInv, Typed, Provisioned, Requests
<1> QED BY <1>1, <1>4, <1>5 DEF TInv

LEMMA TickType ==
  ASSUME TInv, Tick
  PROVE  TInv'
<1>1. clock' \in 1..MaxTime /\ UNCHANGED <<bucket, tenants, keys, provision, change, auth>>
  BY AccountsAssumption DEF TInv, TypeOK, Tick
<1> QED BY <1>1 DEF TInv, TypeOK, Typed, Provisioned

-----------------------------------------------------------------------------
(* Rotation. *)

RInv == Untouched /\ Rotated /\ OneLeft

LEMMA IssueRotation ==
  ASSUME TInv, RInv, NEW p \in Tenants, Issue(p)
  PROVE  RInv'
<1>1. /\ KeysKept /\ DOMAIN keys' = DOMAIN keys \cup {Fresh}
      /\ \A k \in DOMAIN keys : keys'[k] = keys[k]
      /\ keys'[Fresh].issuer = p /\ keys'[Fresh].revokers = {}
  BY IssueKeys
<1>2. change' = change /\ p \notin Operators
  BY AccountsAssumption DEF Issue, Tenants
<1> DEFINE new == Fresh
<1>3. /\ DOMAIN keys' = DOMAIN keys \cup {new}
      /\ keys'[new].issuer = p /\ keys'[new].revokers = {}
  BY <1>1
<1> HIDE DEF new
<1>4. Untouched'
  BY <1>1, <1>2, <1>3 DEF RInv, Untouched
<1>5. Rotated'
  <2> SUFFICES ASSUME NEW o \in Operators, change[o].phase = "done" /\ change[o].rotate
               PROVE  /\ o \in keys'[change[o].key].revokers
                      /\ \E k \in DOMAIN keys' :
                           /\ keys'[k].issuer = o
                           /\ keys'[k].tenant = keys'[change[o].key].tenant
                           /\ keys'[k].scopes = keys'[change[o].key].scopes
    BY <1>2 DEF Rotated
  <2>1. change[o].key \in DOMAIN keys
    BY DEF TInv, Typed
  <2> QED BY <1>1, <1>3, <2>1 DEF RInv, Rotated
<1>6. OneLeft'
  <2> SUFFICES ASSUME \A o \in Operators : change[o].phase = "done" => change[o].rotate,
                      NEW k \in DOMAIN keys'
               PROVE  \E other \in DOMAIN keys' :
                        keys'[other].tenant = keys'[k].tenant /\ keys'[other].revokers = {}
    BY <1>2 DEF OneLeft, is_revoked
  <2>1. CASE k \in DOMAIN keys
    <3>1. PICK other \in DOMAIN keys : keys[other].tenant = keys[k].tenant /\ keys[other].revokers = {}
      BY <2>1 DEF RInv, OneLeft, is_revoked
    <3> QED BY <1>1, <1>3, <2>1, <3>1
  <2>2. CASE k = new
    BY <1>3, <2>2
  <2> QED BY <1>3, <2>1, <2>2
<1> QED BY <1>4, <1>5, <1>6 DEF RInv

\* A rotation of a key that another has revoked meanwhile still leaves one more.
LEMMA CommitRotation ==
  ASSUME TInv, RInv, NEW o \in Operators, CommitChange(o)
  PROVE  RInv'
<1> DEFINE c == change[o].key
           new == Fresh
<1>1. /\ KeysKept /\ c \in DOMAIN keys
      /\ keys'[c].revokers = keys[c].revokers \cup {o}
      /\ \A k \in DOMAIN keys \ {c} : keys'[k] = keys[k]
      /\ ~change[o].rotate => DOMAIN keys' = DOMAIN keys
      /\ change[o].rotate =>
           /\ DOMAIN keys' = DOMAIN keys \cup {new} /\ new \notin DOMAIN keys
           /\ keys'[new].issuer = o /\ keys'[new].revokers = {}
           /\ keys'[new].tenant = keys[c].tenant /\ keys'[new].scopes = keys[c].scopes
  BY CommitKeys
<1>2. change \in [Operators -> Changes]
  BY DEF TInv, TypeOK, Changes
<1>3. /\ change[o].phase = "revoked" /\ change'[o].phase = "done"
      /\ change'[o].rotate = change[o].rotate /\ change'[o].key = c
      /\ \A q \in Operators \ {o} : change'[q] = change[q]
  BY <1>2 DEF CommitChange, Changes
<1> HIDE DEF c, new
<1>4. Untouched'
  <2> SUFFICES ASSUME NEW q \in Operators, change'[q].phase # "done", NEW k \in DOMAIN keys'
               PROVE  q \notin keys'[k].revokers /\ keys'[k].issuer # q
    BY DEF Untouched
  <2>1. q # o /\ change[q].phase # "done"
    BY <1>3
  <2>2. CASE k \in DOMAIN keys
    <3>1. q \notin keys[k].revokers /\ keys[k].issuer # q
      BY <2>1, <2>2 DEF RInv, Untouched
    <3>2. CASE k = c
      BY <1>1, <2>1, <3>1, <3>2 DEF KeysKept
    <3>3. CASE k # c
      BY <1>1, <2>2, <3>1, <3>3
    <3> QED BY <3>2, <3>3
  <2>3. CASE k \notin DOMAIN keys
    BY <1>1, <2>1, <2>3
  <2> QED BY <2>2, <2>3
<1>5. Rotated'
  <2> SUFFICES ASSUME NEW q \in Operators, change'[q].phase = "done" /\ change'[q].rotate,
                      NEW d, d = change'[q].key
               PROVE  /\ q \in keys'[d].revokers
                      /\ \E k \in DOMAIN keys' :
                           /\ keys'[k].issuer = q
                           /\ keys'[k].tenant = keys'[d].tenant /\ keys'[k].scopes = keys'[d].scopes
    BY DEF Rotated
  <2>1. CASE q = o
    BY <1>1, <1>3, <2>1 DEF KeysKept
  <2>2. CASE q # o
    <3>1. change[q].phase = "done" /\ change[q].rotate /\ d = change[q].key
      BY <1>3, <2>2
    <3>2. d \in DOMAIN keys
      BY <3>1 DEF TInv, Typed
    <3>3. PICK k \in DOMAIN keys :
            /\ keys[k].issuer = q
            /\ keys[k].tenant = keys[d].tenant /\ keys[k].scopes = keys[d].scopes
      BY <3>1 DEF RInv, Rotated
    <3>4. q \in keys[d].revokers
      BY <3>1 DEF RInv, Rotated
    <3> QED BY <1>1, <3>2, <3>3, <3>4 DEF KeysKept
  <2> QED BY <2>1, <2>2
<1>6. OneLeft'
  <2> SUFFICES ASSUME \A q \in Operators : change'[q].phase = "done" => change'[q].rotate,
                      NEW k \in DOMAIN keys'
               PROVE  \E other \in DOMAIN keys' :
                        keys'[other].tenant = keys'[k].tenant /\ keys'[other].revokers = {}
    BY DEF OneLeft, is_revoked
  <2>1. change[o].rotate /\ \A q \in Operators : change[q].phase = "done" => change[q].rotate
    BY <1>3
  <2>2. CASE k \notin DOMAIN keys
    BY <1>1, <2>1, <2>2
  <2>3. CASE k \in DOMAIN keys
    <3>1. PICK other \in DOMAIN keys : keys[other].tenant = keys[k].tenant /\ keys[other].revokers = {}
      BY <2>1, <2>3 DEF RInv, OneLeft, is_revoked
    <3>2. CASE other = c
      BY <1>1, <2>1, <2>3, <3>1, <3>2 DEF KeysKept
    <3>3. CASE other # c
      BY <1>1, <2>3, <3>1, <3>3 DEF KeysKept
    <3> QED BY <3>2, <3>3
  <2> QED BY <2>2, <2>3
<1> QED BY <1>4, <1>5, <1>6 DEF RInv

LEMMA ChangeRotation ==
  ASSUME TInv, RInv, NEW o \in Operators, LoadKey(o) \/ LockKey(o) \/ FailChange(o)
  PROVE  RInv'
<1>1. /\ keys' = keys
      /\ \A q \in Operators \ {o} : change'[q] = change[q]
      /\ change[o].phase # "done" /\ change'[o].phase # "done"
  BY ChangeType
<1>2. Untouched' /\ Rotated'
  BY <1>1 DEF RInv, Untouched, Rotated
<1>3. OneLeft'
  BY <1>1 DEF RInv, OneLeft, is_revoked
<1> QED BY <1>2, <1>3 DEF RInv

-----------------------------------------------------------------------------
(* Authentication. *)

SInv == Seen /\ AuthSound

\* A request in hand is not misled by what others commit, nor by the time they take.
LEMMA AuthAlone ==
  ASSUME TInv, TInv', SInv, auth' = auth, KeysKept, clock' >= clock
  PROVE  SInv'
<1>1. TypeOK /\ TypeOK' /\ clock \in Nat /\ clock' \in Nat /\ auth \in Requests
  BY AccountsAssumption DEF TInv, TypeOK, Typed, Requests
<1>2. ASSUME NEW s, s = auth.secret PROVE SInv'
  <2>1. s \in DOMAIN keys \cup {NoKey} /\ (auth.good => s \in DOMAIN keys)
    BY <1>2 DEF SInv, Seen
  <2>2. s \in DOMAIN keys' \cup {NoKey} /\ (s \in DOMAIN keys' => s \in DOMAIN keys)
    <3>1. NoKey \notin DOMAIN keys'
      BY <1>1 DEF TypeOK, KeyIds, NoKey
    <3> QED BY <2>1, <3>1 DEF KeysKept
  <2>3. s \in DOMAIN keys => (Valid(keys[s])' => Valid(keys[s]))
    BY <1>1, ValidOnce
  <2>4. ASSUME auth.phase = "look"
        PROVE  /\ s \in DOMAIN keys' /\ Valid(keys[s])' => auth.good
               /\ auth.good => keys'[s].prefix = auth.prefix
    BY <1>2, <2>1, <2>2, <2>3, <2>4 DEF SInv, Seen, KeysKept
  <2>5. ASSUME auth.phase = "judge", NEW c \in auth.found
        PROVE  /\ c.id \in DOMAIN keys'
               /\ c.row.tenant = keys'[c.id].tenant
               /\ c.row.expires = keys'[c.id].expires
               /\ c.row.revokers \subseteq keys'[c.id].revokers
               /\ c.id = s /\ ~is_revoked(c.row) /\ ~is_expired(c.row, clock') => auth.good
    <3>1. /\ c.id \in DOMAIN keys
          /\ c.row.tenant = keys[c.id].tenant
          /\ c.row.expires = keys[c.id].expires
          /\ c.row.revokers \subseteq keys[c.id].revokers
          /\ c.id = s /\ ~is_revoked(c.row) /\ ~is_expired(c.row, clock) => auth.good
      BY <1>2, <2>5 DEF SInv, Seen
    <3>2. is_expired(c.row, clock) => is_expired(c.row, clock')
      <4>1. c.row.expires \in Nat
        BY <1>1 DEF Requests, Row
      <4> QED BY <1>1, <4>1 DEF is_expired
    <3> QED BY <3>1, <3>2 DEF KeysKept
  <2>6. Seen'
    <3>1. s # NoKey \/ ~auth.good
      BY <1>2 DEF SInv, Seen
    <3>2. auth.phase = "judge" => (auth.good => \E c \in auth.found : c.id = s)
      BY <1>2 DEF SInv, Seen
    <3> QED BY <1>2, <2>2, <2>4, <2>5, <3>1, <3>2 DEF Seen
  <2>7. AuthSound'
    <3>1. auth.phase \in {"accepted", "403"} =>
            /\ auth.good
            /\ auth.context = [key |-> s, tenant |-> keys'[s].tenant]
      BY <1>2, <2>1 DEF SInv, AuthSound, KeysKept
    <3>2. auth.phase = "401" => ~(auth.good /\ Valid(keys[s])')
      BY <1>2, <2>1, <2>3 DEF SInv, AuthSound
    <3> QED BY <1>2, <3>1, <3>2 DEF AuthSound
  <2> QED BY <2>6, <2>7 DEF SInv
<1> QED BY <1>2

LEMMA PresentSound ==
  ASSUME TInv, NEW k \in DOMAIN keys, Present(k)
  PROVE  SInv'
<1>1. PICK secret \in {k, NoKey} :
        auth' = [phase |-> "look", prefix |-> keys[k].prefix, secret |-> secret,
                 good |-> secret = k /\ Valid(keys[k]), found |-> {}, context |-> NoContext]
  BY DEF Present
<1>2. keys' = keys /\ clock' = clock /\ NoKey \notin DOMAIN keys
  BY FreshKey DEF Present, TInv
<1>3. /\ auth'.phase = "look" /\ auth'.prefix = keys[k].prefix /\ auth'.secret = secret
      /\ auth'.good = (secret = k /\ Valid(keys[k]))
  BY <1>1
<1>4. Seen'
  BY <1>2, <1>3 DEF Seen, Valid
<1>5. AuthSound'
  BY <1>3 DEF AuthSound
<1> QED BY <1>4, <1>5 DEF SInv

LEMMA LookSound ==
  ASSUME TInv, SInv, Look
  PROVE  SInv'
<1> DEFINE rowsFound == {[id |-> k, row |-> keys[k]] :
                           k \in {k \in DOMAIN keys : keys[k].prefix = auth.prefix}}
<1>1. auth.phase = "look" /\ auth' = [auth EXCEPT !.phase = "judge", !.found = rowsFound]
  BY DEF Look
<1>2. keys' = keys /\ clock' = clock
  BY DEF Look
<1>3. auth \in Requests
  BY DEF TInv, Typed, Requests
<1> HIDE DEF rowsFound
<1>4. /\ auth'.phase = "judge" /\ auth'.found = rowsFound
      /\ auth'.secret = auth.secret /\ auth'.good = auth.good
  BY <1>1, <1>3 DEF Requests
<1>5. ASSUME NEW c \in rowsFound
      PROVE  /\ c.id \in DOMAIN keys /\ c.row = keys[c.id]
             /\ c.id = auth.secret /\ ~is_revoked(c.row) /\ ~is_expired(c.row, clock) => auth.good
  <2>1. c.id \in DOMAIN keys /\ c.row = keys[c.id]
    BY <1>5 DEF rowsFound
  <2> QED BY <1>1, <2>1 DEF SInv, Seen, Valid
<1>6. auth.good => \E c \in rowsFound : c.id = auth.secret
  <2> SUFFICES ASSUME auth.good PROVE \E c \in rowsFound : c.id = auth.secret
    OBVIOUS
  <2>1. auth.secret \in DOMAIN keys /\ keys[auth.secret].prefix = auth.prefix
    BY <1>1 DEF SInv, Seen
  <2>2. [id |-> auth.secret, row |-> keys[auth.secret]] \in rowsFound
    BY <2>1 DEF rowsFound
  <2> QED BY <2>2
<1>7. Seen'
  BY <1>2, <1>4, <1>5, <1>6 DEF SInv, Seen
<1>8. AuthSound'
  BY <1>4 DEF AuthSound
<1> QED BY <1>7, <1>8 DEF SInv

LEMMA JudgeSound ==
  ASSUME TInv, SInv, Judge
  PROVE  SInv'
<1>1. keys' = keys /\ clock' = clock /\ auth.phase = "judge" /\ auth \in Requests
  BY DEF Judge, TInv, Typed, Requests
<1>2. CASE Matched = {} /\ auth' = [auth EXCEPT !.phase = "401", !.prefix = Nobody, !.found = {}]
  <2>1. auth'.phase = "401" /\ auth'.secret = auth.secret /\ auth'.good = auth.good
    BY <1>1, <1>2 DEF Requests
  <2>2. ~(auth.good /\ Valid(keys[auth.secret]))
    <3> SUFFICES ASSUME auth.good, Valid(keys[auth.secret]) PROVE FALSE
      OBVIOUS
    <3>1. PICK c \in auth.found : c.id = auth.secret
      BY <1>1 DEF SInv, Seen
    <3>2. c.row.expires = keys[c.id].expires /\ c.row.revokers \subseteq keys[c.id].revokers
      BY <1>1, <3>1 DEF SInv, Seen
    <3>3. ~is_revoked(c.row) /\ ~is_expired(c.row, clock)
      BY <3>1, <3>2 DEF Valid, is_revoked, is_expired
    <3>4. c \in Matched
      BY <3>1, <3>3 DEF Matched, verify_secret
    <3> QED BY <1>2, <3>4
  <2>3. Valid(keys[auth.secret])' <=> Valid(keys[auth.secret])
    BY <1>1, <2>1 DEF Valid
  <2> QED BY <1>1, <2>1, <2>2, <2>3 DEF SInv, Seen, AuthSound
<1>3. ASSUME NEW c \in Matched, NEW scope,
             auth' = [auth EXCEPT
               !.phase = IF has_scope(c.row, scope) THEN "accepted" ELSE "403",
               !.prefix = Nobody, !.found = {}, !.context = [key |-> c.id, tenant |-> c.row.tenant]]
      PROVE  SInv'
  <2>1. /\ auth'.phase \in {"accepted", "403"} /\ auth'.secret = auth.secret /\ auth'.good = auth.good
        /\ auth'.context = [key |-> c.id, tenant |-> c.row.tenant]
    <3> DEFINE phase == IF has_scope(c.row, scope) THEN "accepted" ELSE "403"
    <3>1. phase \in {"accepted", "403"}
      OBVIOUS
    <3> HIDE DEF phase
    <3>2. auth' = [auth EXCEPT !.phase = phase, !.prefix = Nobody, !.found = {},
                               !.context = [key |-> c.id, tenant |-> c.row.tenant]]
      BY <1>3 DEF phase
    <3> QED BY <1>1, <3>1, <3>2 DEF Requests
  <2>2. c \in auth.found /\ c.id = auth.secret /\ ~is_revoked(c.row) /\ ~is_expired(c.row, clock)
    BY DEF Matched, verify_secret
  <2>3. auth.good /\ c.row.tenant = keys[auth.secret].tenant
    BY <1>1, <2>2 DEF SInv, Seen
  <2> QED BY <1>1, <2>1, <2>2, <2>3 DEF SInv, Seen, AuthSound
<1> QED BY <1>2, <1>3 DEF Judge

-----------------------------------------------------------------------------
(* The rate of sandboxes. *)

LEMMA StartedCount ==
  ASSUME TInv
  PROVE  /\ IsFiniteSet(Started) /\ Cardinality(Started) \in Nat
         /\ Left \in 0..Capacity /\ clock \in Nat \ {0} /\ bucket \in Bucket
<1>1. Started \in SUBSET Sandboxes /\ IsFiniteSet(Sandboxes)
  BY AccountsAssumption DEF Started
<1>2. clock \in Nat \ {0} /\ bucket \in Bucket
  BY AccountsAssumption DEF TInv, TypeOK
<1>3. Left \in 0..Capacity
  BY <1>2, RefilledType DEF Left
<1> QED BY <1>1, <1>2, <1>3, FS_Subset, FS_CardinalityType

\* A request that passes starts one sandbox, and takes one token for it.
LEMMA LimitLimited ==
  ASSUME TInv, Limited, NEW p \in Tenants, Limit(p)
  PROVE  Limited'
<1> DEFINE d == allow(bucket, clock, clock)
<1>1. /\ p \in Sandboxes /\ provision[p].phase = "idle" /\ d.allowed
      /\ bucket' = d.bucket /\ clock' = clock
      /\ provision' = [provision EXCEPT ![p].phase = "tenant", ![p].expires = clock + Ttl]
  BY DEF Limit, Spent
<1>2. provision \in [Tenants -> Provisions]
  BY DEF TInv, TypeOK, Provisions
<1>3. Started' = Started \cup {p} /\ p \notin Started
  BY <1>1, <1>2 DEF Started, Provisions, Tenants
<1>4. /\ IsFiniteSet(Started) /\ Cardinality(Started) \in Nat
      /\ Left \in 0..Capacity /\ clock \in Nat \ {0} /\ bucket \in Bucket
  BY StartedCount
<1>5. Cardinality(Started') = Cardinality(Started) + 1
  BY <1>3, <1>4, FS_AddElement
<1>6. /\ d.bucket.updated_at = clock /\ d.bucket.expires = clock + ttl
      /\ refilled(d.bucket, clock, clock) = Left - Cost
  BY <1>1, <1>4, ScriptTakes DEF Left
<1> HIDE DEF d
<1>7. /\ bucket'.updated_at = clock /\ bucket'.expires = clock + ttl /\ Left' = Left - Cost
  BY <1>1, <1>6 DEF Left
<1> DEFINE n == Cardinality(Started)
           bound == Capacity + (clock - 1) * Rate
<1>8. n \in Nat /\ n * Cost + Left <= bound
  BY <1>4 DEF Limited
<1>9. bound \in Int
  BY <1>4, Times
<1>10. bound' = bound
  BY <1>1
<1> HIDE DEF n, bound
<1>11. (n + 1) * Cost = n * Cost + Cost /\ n * Cost \in Nat
  BY <1>8, Times
<1>12. (n + 1) * Cost + (Left - Cost) <= bound
  BY <1>4, <1>8, <1>9, <1>11, Times
<1>13. Cardinality(Started') * Cost + Left' <= bound
  BY <1>5, <1>7, <1>12 DEF n
<1> QED BY <1>1, <1>4, <1>7, <1>10, <1>13 DEF Limited, bound

LEMMA RefuseLimited ==
  ASSUME TInv, Limited, NEW p \in Tenants, Refuse(p)
  PROVE  Limited'
<1> DEFINE d == allow(bucket, clock, clock)
<1>1. ~d.allowed /\ bucket' = d.bucket /\ clock' = clock /\ provision' = provision
  BY DEF Refuse, Spent
<1>2. Left \in 0..Capacity /\ clock \in Nat \ {0} /\ bucket \in Bucket
  BY StartedCount
<1>3. /\ d.bucket.updated_at = clock /\ d.bucket.expires = clock + ttl
      /\ refilled(d.bucket, clock, clock) = Left
  BY <1>1, <1>2, ScriptTakes DEF Left
<1> HIDE DEF d
<1>4. bucket'.updated_at = clock /\ bucket'.expires = clock + ttl /\ Left' = Left
  BY <1>1, <1>3 DEF Left
<1>5. Started' = Started
  BY <1>1 DEF Started
<1> QED BY <1>1, <1>2, <1>4, <1>5 DEF Limited

\* A second adds Rate to what may have passed, and no more than that to the bucket.
LEMMA TickLimited ==
  ASSUME TInv, Limited, Tick
  PROVE  Limited'
<1>1. clock' = clock + 1 /\ bucket' = bucket /\ provision' = provision
  BY DEF Tick
<1>2. /\ Cardinality(Started) \in Nat
      /\ Left \in 0..Capacity /\ clock \in Nat \ {0} /\ bucket \in Bucket
  BY StartedCount
<1>3. Left' <= Left + Rate /\ Left' \in 0..Capacity
  <2>1. Left' = refilled(bucket, clock + 1, clock + 1)
    BY <1>1 DEF Left
  <2>2. refilled(bucket, clock + 1, clock + 1) <= Left + Rate
    BY <1>2, SecondRefills DEF Left, Limited
  <2>3. clock + 1 \in Nat
    BY <1>2
  <2> QED BY <1>2, <2>1, <2>2, <2>3, RefilledType
<1>4. Started' = Started
  BY <1>1 DEF Started
<1> DEFINE used == Cardinality(Started) * Cost
           wait == clock - 1
<1>5. used \in Nat /\ wait \in Nat /\ clock' - 1 = wait + 1
  BY <1>1, <1>2, Times
<1>6. used + Left <= Capacity + wait * Rate
  BY DEF Limited
<1>7. wait * Rate \in Nat /\ (wait + 1) * Rate = wait * Rate + Rate
  BY <1>5, Refill
<1> HIDE DEF used, wait
<1>8. used + Left' <= Capacity + (wait + 1) * Rate
  <2> DEFINE refill == wait * Rate
             left == Left
             then == Left'
  <2>1. refill \in Nat /\ left \in Nat /\ then \in Nat /\ used \in Nat
    BY <1>2, <1>3, <1>5, <1>7, Times
  <2>2. used + left <= Capacity + refill /\ then <= left + Rate
    BY <1>3, <1>6
  <2>3. (wait + 1) * Rate = refill + Rate
    BY <1>7
  <2> HIDE DEF refill, left, then
  <2>4. used + then <= Capacity + (refill + Rate)
    BY <2>1, <2>2, Times
  <2> QED BY <2>3, <2>4 DEF then
<1>9. Cardinality(Started') * Cost + Left' <= Capacity + (clock' - 1) * Rate
  BY <1>4, <1>5, <1>8 DEF used
<1>10. bucket.updated_at \in Nat
  BY <1>2 DEF Bucket
<1> QED BY <1>1, <1>2, <1>9, <1>10 DEF Limited

\* Whoever starts no sandbox and asks for none leaves the rate alone.
LEMMA OthersLimited ==
  ASSUME TInv, Limited, UNCHANGED <<clock, bucket>>,
         \/ provision' = provision
         \/ \E p \in Tenants : RunScript(p) \/ CreateTenant(p) \/ Issue(p) \/ Answer(p)
  PROVE  Limited'
<1>1. provision \in [Tenants -> Provisions] /\ Sandboxes \cap Scripts = {}
  BY AccountsAssumption DEF TInv, TypeOK, Provisions
<1>2. Started' = Started
  <2>1. CASE provision' = provision
    BY <2>1 DEF Started
  <2>2. ASSUME NEW p \in Tenants, RunScript(p) \/ CreateTenant(p) \/ Issue(p) \/ Answer(p)
        PROVE  Started' = Started
    <3>1. \A q \in Tenants \ {p} : provision'[q] = provision[q]
      BY <1>1, <2>2 DEF RunScript, CreateTenant, Issue, Answer
    <3>2. p \in Sandboxes => provision[p].phase # "idle" /\ provision'[p].phase # "idle"
      BY <1>1, <2>2 DEF RunScript, CreateTenant, Issue, Answer, Provisions
    <3> QED BY <3>1, <3>2 DEF Started, Tenants
  <2> QED BY <2>1, <2>2
<1> QED BY <1>2 DEF Limited, Left

-----------------------------------------------------------------------------
(* The invariant holds. *)

LEMMA Initial == Init => IInv
<1> SUFFICES ASSUME Init PROVE IInv
  OBVIOUS
<1>1. TInv
  BY InitType
<1>2. DOMAIN keys = {}
  BY DEF Init
<1>3. \A o \in Operators : change[o].phase = "idle"
  BY DEF Init, IdleChange
<1>4. Untouched /\ Rotated /\ OneLeft
  BY <1>2, <1>3 DEF Untouched, Rotated, OneLeft
<1>5. auth.phase = "401" /\ auth.good = FALSE /\ auth.secret = NoKey
  BY DEF Init
<1>6. Seen /\ AuthSound
  BY <1>5 DEF Seen, AuthSound
<1>7. Limited
  <2>1. clock = 1 /\ bucket.updated_at = 0 /\ bucket.expires = 0
    BY DEF Init, NoBucket
  <2>2. Started = {}
    BY DEF Init, IdleProvision, Started, Tenants
  <2>3. Cardinality(Started) = 0
    BY <2>2, FS_EmptySet
  <2>4. Left = Capacity
    BY <2>1 DEF Left, refilled
  <2>5. 0 * Cost = 0 /\ (clock - 1) * Rate = 0
    BY <2>1, Times
  <2> QED BY <2>1, <2>3, <2>4, <2>5, Times DEF Limited
<1> QED BY <1>1, <1>4, <1>6, <1>7 DEF IInv, TInv

\* Steps that leave keys, changes and the request alone.
LEMMA Apart ==
  ASSUME TInv, TInv', RInv, SInv, UNCHANGED <<keys, change, auth>>, clock' >= clock
  PROVE  RInv' /\ SInv'
<1>1. RInv'
  <2>1. Untouched' /\ Rotated'
    BY DEF RInv, Untouched, Rotated
  <2>2. OneLeft'
    BY DEF RInv, OneLeft, is_revoked
  <2> QED BY <2>1, <2>2 DEF RInv
<1>2. KeysKept
  BY DEF KeysKept
<1>3. SInv'
  BY <1>2, AuthAlone
<1> QED BY <1>1, <1>3

LEMMA ProvisionStep ==
  ASSUME TInv, RInv, SInv, Limited, NEW p \in Tenants, Provision(p)
  PROVE  TInv' /\ RInv' /\ SInv' /\ Limited'
<1>1. clock' = clock /\ clock \in Nat
  BY AccountsAssumption DEF TInv, TypeOK, Provision, Limit, Refuse, RunScript, CreateTenant, Issue, Answer
<1>2. CASE Issue(p)
  <2>1. KeysKept /\ TInv'
    BY <1>2, IssueKeys
  <2>2. RInv'
    BY <1>2, IssueRotation
  <2>3. auth' = auth /\ bucket' = bucket
    BY <1>2 DEF Issue
  <2>4. SInv'
    BY <1>1, <2>1, <2>3, AuthAlone
  <2>5. Limited'
    BY <1>1, <1>2, <2>3, OthersLimited
  <2> QED BY <2>1, <2>2, <2>4, <2>5
<1>3. CASE Limit(p) \/ Refuse(p) \/ RunScript(p) \/ CreateTenant(p) \/ Answer(p)
  <2>1. TInv'
    BY <1>3, ProvisionType
  <2>2. UNCHANGED <<keys, change, auth>>
    BY <1>3 DEF Limit, Refuse, RunScript, CreateTenant, Answer
  <2>3. RInv' /\ SInv'
    BY <1>1, <2>1, <2>2, Apart
  <2>4. Limited'
    <3>1. CASE Limit(p)
      BY <3>1, LimitLimited
    <3>2. CASE Refuse(p)
      BY <3>2, RefuseLimited
    <3>3. CASE RunScript(p) \/ CreateTenant(p) \/ Answer(p)
      <4>1. bucket' = bucket
        BY <3>3 DEF RunScript, CreateTenant, Answer
      <4> QED BY <1>1, <3>3, <4>1, OthersLimited
    <3> QED BY <1>3, <3>1, <3>2, <3>3
  <2> QED BY <2>1, <2>3, <2>4
<1> QED BY <1>2, <1>3 DEF Provision

LEMMA ChangeStep ==
  ASSUME TInv, RInv, SInv, Limited, NEW o \in Operators, Change(o)
  PROVE  TInv' /\ RInv' /\ SInv' /\ Limited'
<1>1. UNCHANGED <<clock, bucket, provision, auth>> /\ clock \in Nat
  BY AccountsAssumption DEF TInv, TypeOK, Change, LoadKey, LockKey, CommitChange, FailChange
<1>2. KeysKept /\ TInv' /\ RInv'
  <2>1. CASE CommitChange(o)
    <3>1. KeysKept /\ TInv'
      BY <2>1, CommitKeys
    <3>2. RInv'
      BY <2>1, CommitRotation
    <3> QED BY <3>1, <3>2
  <2>2. CASE LoadKey(o) \/ LockKey(o) \/ FailChange(o)
    <3>1. TInv' /\ keys' = keys
      BY <2>2, ChangeType
    <3>2. RInv'
      BY <2>2, ChangeRotation
    <3> QED BY <3>1, <3>2 DEF KeysKept
  <2> QED BY <2>1, <2>2 DEF Change
<1>3. SInv'
  BY <1>1, <1>2, AuthAlone
<1>4. Limited'
  BY <1>1, OthersLimited
<1> QED BY <1>2, <1>3, <1>4

LEMMA AuthStep ==
  ASSUME TInv, RInv, SInv, Limited, Authenticate
  PROVE  TInv' /\ RInv' /\ SInv' /\ Limited'
<1>1. TInv' /\ UNCHANGED <<clock, bucket, tenants, keys, provision, change>>
  BY AuthType
<1>2. RInv'
  <2>1. Untouched' /\ Rotated'
    BY <1>1 DEF RInv, Untouched, Rotated
  <2>2. OneLeft'
    BY <1>1 DEF RInv, OneLeft, is_revoked
  <2> QED BY <2>1, <2>2 DEF RInv
<1>3. SInv'
  BY PresentSound, LookSound, JudgeSound DEF Authenticate
<1>4. Limited'
  BY <1>1, OthersLimited
<1> QED BY <1>1, <1>2, <1>3, <1>4

LEMMA Step == IInv /\ [Next]_vars => IInv'
<1> SUFFICES ASSUME TInv, RInv, SInv, Limited, [Next]_vars
             PROVE  TInv' /\ RInv' /\ SInv' /\ Limited'
  BY DEF IInv, TInv, RInv, SInv
<1>1. ASSUME NEW p \in Tenants, Provision(p) PROVE TInv' /\ RInv' /\ SInv' /\ Limited'
  BY <1>1, ProvisionStep
<1>2. ASSUME NEW o \in Operators, Change(o) PROVE TInv' /\ RInv' /\ SInv' /\ Limited'
  BY <1>2, ChangeStep
<1>3. CASE Authenticate
  BY <1>3, AuthStep
<1>4. CASE Tick
  <2>1. TInv'
    BY <1>4, TickType
  <2>2. Limited'
    BY <1>4, TickLimited
  <2>3. UNCHANGED <<keys, change, auth>> /\ clock' >= clock
    BY <1>4, AccountsAssumption DEF Tick, TInv, TypeOK
  <2> QED BY <2>1, <2>2, <2>3, Apart
<1>5. CASE UNCHANGED vars
  <2>1. UNCHANGED <<clock, bucket, keys, provision, change, auth, tenants>>
    BY <1>5 DEF vars
  <2>2. TInv'
    BY <2>1 DEF TInv, TypeOK, Typed, Provisioned
  <2>3. clock' >= clock
    BY <2>1, AccountsAssumption DEF TInv, TypeOK
  <2>4. RInv' /\ SInv'
    BY <2>1, <2>2, <2>3, Apart
  <2>5. Limited'
    BY <2>1, OthersLimited
  <2> QED BY <2>2, <2>4, <2>5
<1> QED BY <1>1, <1>2, <1>3, <1>4, <1>5 DEF Next

\* The invariant, from which the theorems below are read off: what each provision,
\* change and request has come to, and the tokens that are left.
THEOREM Invariance == Spec => []IInv
BY Initial, Step, PTL DEF Spec

-----------------------------------------------------------------------------
(* The theorems. *)

LEMMA Usable == IInv => ProvisionedUsable
<1> SUFFICES ASSUME IInv, NEW p \in tenants
             PROVE  /\ provision[p].phase = "done" =>
                         /\ Exists(provision[p].key)
                         /\ LET row == keys[provision[p].key] IN
                              /\ row.tenant = p
                              /\ ~is_revoked(row) =>
                                   (Valid(row) <=> provision[p].expires > clock \/ p \in Scripts)
                    /\ (\A k \in DOMAIN keys : keys[k].tenant # p) => provision[p].phase = "issue"
  BY DEF ProvisionedUsable
<1>1. p \in Tenants /\ clock \in Nat /\ provision[p].expires \in Nat
  BY AccountsAssumption DEF IInv, TypeOK
<1>2. /\ provision[p].phase \in {"issue", "answer", "done"}
      /\ provision[p].phase \in {"answer", "done"} =>
           /\ provision[p].key \in DOMAIN keys
           /\ keys[provision[p].key].tenant = p
           /\ keys[provision[p].key].expires = provision[p].expires
      /\ provision[p].expires = Never <=> p \in Scripts
  BY <1>1 DEF IInv, Provisioned
<1> QED BY <1>1, <1>2 DEF Exists, Valid, is_expired

LEMMA Whole == IInv => RotatedWhole
<1> SUFFICES ASSUME IInv PROVE RotatedWhole
  OBVIOUS
<1>1. ASSUME NEW o \in Operators, change[o].rotate /\ change[o].key # NoKey
      PROVE  LET old == keys[change[o].key] IN
               o \in old.revokers <=>
                 \E k \in DOMAIN keys : /\ keys[k].issuer = o
                                        /\ keys[k].tenant = old.tenant /\ keys[k].scopes = old.scopes
  <2>1. change[o].key \in DOMAIN keys
    BY <1>1 DEF IInv, Typed
  <2>2. CASE change[o].phase = "done"
    BY <1>1, <2>2 DEF IInv, Rotated
  <2>3. CASE change[o].phase # "done"
    BY <2>1, <2>3 DEF IInv, Untouched
  <2> QED BY <2>2, <2>3
<1>2. ASSUME NEW k \in DOMAIN keys, \A o \in Operators : change[o].rotate
      PROVE  \E other \in DOMAIN keys : keys[other].tenant = keys[k].tenant /\ ~is_revoked(keys[other])
  BY <1>2 DEF IInv, OneLeft
<1> QED BY <1>1, <1>2 DEF RotatedWhole

LEMMA Few == IInv => SandboxesLimited
<1> SUFFICES ASSUME IInv PROVE SandboxesLimited
  OBVIOUS
<1> DEFINE made == tenants \cap Sandboxes
<1>1. IsFiniteSet(Started) /\ Cardinality(Started) \in Nat /\ Left \in 0..Capacity /\ clock \in Nat \ {0}
  BY StartedCount DEF IInv, TInv
<1>2. made \in SUBSET Started
  BY DEF IInv, TypeOK, Provisioned, Started, Tenants
<1>3. IsFiniteSet(made) /\ Cardinality(made) <= Cardinality(Started) /\ Cardinality(made) \in Nat
  BY <1>1, <1>2, FS_Subset, FS_CardinalityType
<1> DEFINE m == Cardinality(made)
           n == Cardinality(Started)
           bound == Capacity + (clock - 1) * Rate
<1>4. m \in Nat /\ n \in Nat /\ m <= n /\ bound \in Int /\ n * Cost + Left <= bound
  BY <1>1, <1>3, Times DEF IInv, Limited
<1>5. SandboxesLimited <=> m * Cost <= bound
  BY DEF SandboxesLimited
<1> HIDE DEF m, n, bound
<1>6. m * Cost <= n * Cost /\ m * Cost \in Nat /\ n * Cost \in Nat
  BY <1>4, Times
<1> QED BY <1>1, <1>4, <1>5, <1>6, Times

\* Types: every committed key is a row of a committed tenant, and the keys are
\* numbered without a gap.
THEOREM TypeCorrect == Spec => []TypeOK
BY Invariance, PTL DEF IInv

\* The key a client is told by POST /v1/sandbox or by the script exists, is its
\* tenant's and works until the time it was told; a tenant without a key is one
\* whose provision stands between its two transactions.
THEOREM ProvisionedIsUsable == Spec => []ProvisionedUsable
BY Invariance, Usable, PTL

\* ApiKeyService.rotate, for any number of operators on the same key: revoked by
\* it exactly when replaced by it, and a tenant whose keys are only ever rotated
\* keeps one that is not revoked.
THEOREM RotationIsWhole == Spec => []RotatedWhole
BY Invariance, Whole, PTL

\* ApiKeyService.authenticate: whatever is issued, rotated, revoked or expires
\* between its read and its verdict, nobody is accepted but the holder of a key
\* valid when the request came in, and nobody whose key is still valid is refused.
THEOREM AuthIsSound == Spec => []AuthSound
BY Invariance, PTL DEF IInv

\* POST /v1/sandbox under the IP limiter: for any rate, burst and number of clients.
THEOREM SandboxesAreLimited == Spec => []SandboxesLimited
BY Invariance, Few, PTL

-----------------------------------------------------------------------------
(* What a step may do to a committed key. *)

\* A key is changed in nothing but its revocation, which no step takes back, and
\* none that is revoked or has expired is valid again.
KeyStep ==
  /\ KeysKept
  /\ \A k \in DOMAIN keys : ~Valid(keys[k]) => ~Valid(keys[k])'

\* Whatever rotations and revocations race on a key and whatever requests come
\* meanwhile, ApiKeyService never lengthens its life: a refusal is for good.
THEOREM KeysNeverRevive == Spec => [][KeyStep]_vars
<1>1. IInv /\ IInv' /\ [Next]_vars => [KeyStep]_vars
  <2> SUFFICES ASSUME TInv, TInv', Next PROVE KeyStep
    BY DEF IInv, TInv
  <2>1. KeysKept
    <3>1. CASE keys' = keys
      BY <3>1 DEF KeysKept
    <3>2. ASSUME NEW p \in Tenants, Issue(p) PROVE KeysKept
      BY <3>2, IssueKeys
    <3>3. ASSUME NEW o \in Operators, CommitChange(o) PROVE KeysKept
      BY <3>3, CommitKeys
    <3> QED BY <3>1, <3>2, <3>3
            DEF Next, Provision, Limit, Refuse, RunScript, CreateTenant, Answer,
                Change, LoadKey, LockKey, FailChange, Authenticate, Present, Look, Judge, Tick
  <2>2. clock' >= clock
    <3>1. clock \in Nat
      BY AccountsAssumption DEF TInv, TypeOK
    <3>2. CASE Tick
      BY <3>1, <3>2 DEF Tick
    <3>3. CASE clock' = clock
      BY <3>1, <3>3
    <3> QED BY <3>2, <3>3
            DEF Next, Provision, Limit, Refuse, RunScript, CreateTenant, Issue, Answer,
                Change, LoadKey, LockKey, CommitChange, FailChange,
                Authenticate, Present, Look, Judge
  <2>3. ASSUME NEW k \in DOMAIN keys, Valid(keys[k])' PROVE Valid(keys[k])
    BY <2>1, <2>2, <2>3, ValidOnce DEF TInv
  <2> QED BY <2>1, <2>3 DEF KeyStep
<1> QED BY <1>1, Invariance, PTL DEF Spec
=============================================================================
