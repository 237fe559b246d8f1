------------------------------ MODULE Accounts ------------------------------
(***************************************************************************)
(* Tenants and their API keys: provisioning, rotation, revocation, and the *)
(* requests that authenticate meanwhile.                                   *)
(*                                                                         *)
(* POST /v1/sandbox, and scripts/load_test_setup.py, commit a tenant in    *)
(* one transaction and its key in the next.  A rotation revokes and issues *)
(* in one; two of them may have loaded the same key.  Authentication reads *)
(* the rows of a prefix and judges them a little later.                        *)
(*                                                                         *)
(* Nothing makes a call go on.  One that stays where it is for ever stands *)
(* for one that failed there, or whose process ended; only a session with  *)
(* something to roll back has an action for it.                            *)
(*                                                                         *)
(* A provision makes one tenant, which bears its name here.  All sandboxes *)
(* come from one IP address.                                               *)
(***************************************************************************)
EXTENDS RateLimit, FiniteSets

CONSTANTS
  Sandboxes,  \* requests to POST /v1/sandbox
  Scripts,    \* runs of load_test_setup.py
  Operators,  \* callers of ApiKeyService.rotate and revoke
  Prefixes,   \* what key_prefix is drawn from: not unique
  MaxKeys,    \* bound: keys issued
  Ttl,        \* settings.sandbox_ttl_minutes
  MaxTime     \* bound: the clock

ASSUME AccountsAssumption ==
  /\ IsFiniteSet(Sandboxes)
  /\ Sandboxes \cap Scripts = {} /\ Sandboxes \cap Operators = {}
  /\ Scripts \cap Operators = {}
  /\ {MaxKeys, Ttl, MaxTime} \subseteq Nat \ {0}

VARIABLES
  clock,
  bucket,     \* the bucket of the IP address
  tenants,    \* committed tenants
  keys,       \* committed api_keys
  provision,  \* calls of provision
  change,     \* calls of rotate and revoke
  auth        \* a request that authenticates

vars == <<clock, bucket, tenants, keys, provision, change, auth>>

-----------------------------------------------------------------------------
(* Keys. *)

Tenants == Sandboxes \cup Scripts
KeyIds == 1..MaxKeys
NoKey == 0
Nobody == "nobody"
Never == MaxTime + Ttl + 1

SandboxScopes == {"endpoints:read"}
FullScope == {"*"}

\* issuer, revokers: history, who created and who revoked the row.  The hash
\* verifies the secret generated with it and no other; the key's id stands for both.
Row == [tenant : Tenants, prefix : Prefixes, scopes : {SandboxScopes, FullScope},
        expires : Nat, issuer : Tenants \cup Operators, revokers : SUBSET Operators]

Exists(k) == k \in DOMAIN keys
is_revoked(row) == row.revokers # {}
is_expired(row, now) == row.expires # Never /\ now >= row.expires
has_scope(row, scope) == "*" \in row.scopes \/ scope \in row.scopes
verify_secret(secret, k) == secret = k

Valid(row) == ~is_revoked(row) /\ ~is_expired(row, clock)

\* The next id: generate_api_key and the INSERT, seen once it is committed.
Fresh == Cardinality(DOMAIN keys) + 1

\* The rows `old`, and a new one issued by `who`.
Issued(old, who, tenant, scopes, expires, prefix) ==
  [k \in DOMAIN old \cup {Fresh} |->
     IF k = Fresh
     THEN [tenant |-> tenant, prefix |-> prefix, scopes |-> scopes,
           expires |-> expires, issuer |-> who, revokers |-> {}]
     ELSE old[k]]

-----------------------------------------------------------------------------
(* Provisioning. *)

IdleProvision == [phase |-> "idle", key |-> NoKey, expires |-> Never]

\* Mutant of Spent: every request has a bucket of its own.
SpentNothing(decision) == bucket

\* The bucket of the IP address, which all its requests share.
Spent(decision) == decision.bucket

\* POST /v1/sandbox: 429, or a provision whose key expires Ttl from now.
Limit(p) ==
  LET decision == allow(bucket, clock, clock) IN
  /\ p \in Sandboxes /\ provision[p].phase = "idle"
  /\ decision.allowed
  /\ bucket' = Spent(decision)
  /\ provision' = [provision EXCEPT ![p].phase = "tenant", ![p].expires = clock + Ttl]
  /\ UNCHANGED <<clock, tenants, keys, change, auth>>

Refuse(p) ==
  LET decision == allow(bucket, clock, clock) IN
  /\ p \in Sandboxes /\ provision[p].phase = "idle"
  /\ ~decision.allowed
  /\ bucket' = Spent(decision)
  /\ UNCHANGED <<clock, tenants, keys, provision, change, auth>>

\* The script asks nobody, and its key does not expire.
RunScript(p) ==
  /\ p \in Scripts /\ provision[p].phase = "idle"
  /\ provision' = [provision EXCEPT ![p].phase = "tenant", ![p].expires = Never]
  /\ UNCHANGED <<clock, bucket, tenants, keys, change, auth>>

\* The first transaction.
CreateTenant(p) ==
  /\ provision[p].phase = "tenant"
  /\ tenants' = tenants \cup {p}
  /\ provision' = [provision EXCEPT ![p].phase = "issue"]
  /\ UNCHANGED <<clock, bucket, keys, change, auth>>

\* Mutant of Issue: the commit is forgotten.
IssueUncommitted(p) ==
  /\ provision[p].phase = "issue" /\ Fresh \in KeyIds
  /\ provision' = [provision EXCEPT ![p].phase = "answer", ![p].key = Fresh]
  /\ UNCHANGED <<clock, bucket, tenants, keys, change, auth>>

\* The second one: ApiKeyService.issue.
Issue(p) ==
  /\ provision[p].phase = "issue" /\ Fresh \in KeyIds
  /\ \E prefix \in Prefixes :
       keys' = Issued(keys, p, p, IF p \in Sandboxes THEN SandboxScopes ELSE FullScope,
                      provision[p].expires, prefix)
  /\ provision' = [provision EXCEPT ![p].phase = "answer", ![p].key = Fresh]
  /\ UNCHANGED <<clock, bucket, tenants, change, auth>>

\* The plaintext key reaches the client.
Answer(p) ==
  /\ provision[p].phase = "answer"
  /\ provision' = [provision EXCEPT ![p].phase = "done"]
  /\ UNCHANGED <<clock, bucket, tenants, keys, change, auth>>

-----------------------------------------------------------------------------
(* Rotation and revocation. *)

IdleChange == [phase |-> "idle", rotate |-> FALSE, key |-> NoKey]

\* The row must exist, and be the tenant's; nothing asks whether it is revoked.
LoadKey(o) ==
  /\ change[o].phase = "idle"
  /\ \E k \in DOMAIN keys, rotate \in BOOLEAN :
       change' = [change EXCEPT ![o] = [phase |-> "loaded", rotate |-> rotate, key |-> k]]
  /\ UNCHANGED <<clock, bucket, tenants, keys, provision, auth>>

\* UPDATE ... SET revoked_at, which waits for the row's lock.
LockKey(o) ==
  /\ change[o].phase = "loaded"
  /\ \A other \in Operators : ~(change[other].phase = "revoked" /\ change[other].key = change[o].key)
  /\ change' = [change EXCEPT ![o].phase = "revoked"]
  /\ UNCHANGED <<clock, bucket, tenants, keys, provision, auth>>

RevokedBy(o) == [keys EXCEPT ![change[o].key].revokers = @ \cup {o}]

\* Mutant of CommitChange: the replacement is issued in a transaction of its own.
CommitChangeFirst(o) ==
  \/ /\ change[o].phase = "revoked"
     /\ keys' = RevokedBy(o)
     /\ change' = [change EXCEPT ![o].phase = IF change[o].rotate THEN "issue" ELSE "done"]
     /\ UNCHANGED <<clock, bucket, tenants, provision, auth>>
  \/ LET row == keys[change[o].key] IN
     /\ change[o].phase = "issue" /\ Fresh \in KeyIds
     /\ \E prefix \in Prefixes :
          keys' = Issued(keys, o, row.tenant, row.scopes, Never, prefix)
     /\ change' = [change EXCEPT ![o].phase = "done"]
     /\ UNCHANGED <<clock, bucket, tenants, provision, auth>>

\* A rotation inserts its replacement, which never expires, and commits both.
CommitChange(o) ==
  LET row == keys[change[o].key] IN
  /\ change[o].phase = "revoked"
  /\ \/ ~change[o].rotate /\ keys' = RevokedBy(o)
     \/ /\ change[o].rotate /\ Fresh \in KeyIds
        /\ \E prefix \in Prefixes :
             keys' = Issued(RevokedBy(o), o, row.tenant, row.scopes, Never, prefix)
  /\ change' = [change EXCEPT ![o].phase = "done"]
  /\ UNCHANGED <<clock, bucket, tenants, provision, auth>>

\* What is not committed is rolled back.
FailChange(o) ==
  /\ change[o].phase \in {"loaded", "revoked"}
  /\ change' = [change EXCEPT ![o] = IdleChange]
  /\ UNCHANGED <<clock, bucket, tenants, keys, provision, auth>>

-----------------------------------------------------------------------------
(* Authentication. *)

NoContext == [key |-> NoKey, tenant |-> Nobody]
Outcomes == {"401", "403", "accepted"}

\* A request comes in with an issued key, or with a secret that is none's; `good`
\* is whether the key is valid at that moment.
Present(k) ==
  /\ auth.phase \notin {"look", "judge"}
  /\ \E secret \in {k, NoKey} :
       auth' = [phase |-> "look", prefix |-> keys[k].prefix, secret |-> secret,
                good |-> secret = k /\ Valid(keys[k]), found |-> {}, context |-> NoContext]
  /\ UNCHANGED <<clock, bucket, tenants, keys, provision, change>>

\* get_by_prefix: the rows as they are committed now.
Look ==
  /\ auth.phase = "look"
  /\ auth' = [auth EXCEPT !.phase = "judge",
                          !.found = {[id |-> k, row |-> keys[k]] :
                                       k \in {k \in DOMAIN keys : keys[k].prefix = auth.prefix}}]
  /\ UNCHANGED <<clock, bucket, tenants, keys, provision, change>>

\* Mutant of Matched: a prefix is taken for a key.
MatchedByPrefix ==
  {c \in auth.found : ~is_revoked(c.row) /\ ~is_expired(c.row, clock)}

\* The candidate the secret verifies against, unless it is revoked or has expired.
Matched ==
  {c \in auth.found : /\ verify_secret(auth.secret, c.id)
                      /\ ~is_revoked(c.row) /\ ~is_expired(c.row, clock)}

\* 401; or 403 on a route whose scope the key lacks, or the context that every
\* later call is scoped by.
Judge ==
  /\ auth.phase = "judge"
  /\ \/ /\ Matched = {}
        /\ auth' = [auth EXCEPT !.phase = "401", !.prefix = Nobody, !.found = {}]
     \/ \E c \in Matched, scope \in {"endpoints:read", "admin"} :
          /\ c.row.tenant \in tenants
          /\ auth' = [auth EXCEPT
               !.phase = IF has_scope(c.row, scope) THEN "accepted" ELSE "403",
               !.prefix = Nobody, !.found = {}, !.context = [key |-> c.id, tenant |-> c.row.tenant]]
  /\ UNCHANGED <<clock, bucket, tenants, keys, provision, change>>

-----------------------------------------------------------------------------
Tick ==
  /\ clock < MaxTime
  /\ clock' = clock + 1
  /\ UNCHANGED <<bucket, tenants, keys, provision, change, auth>>

Init ==
  /\ clock = 1
  /\ bucket = NoBucket
  /\ tenants = {}
  /\ keys = << >>
  /\ provision = [p \in Tenants |-> IdleProvision]
  /\ change = [o \in Operators |-> IdleChange]
  /\ auth = [phase |-> "401", prefix |-> Nobody, secret |-> NoKey,
             good |-> FALSE, found |-> {}, context |-> NoContext]

Provision(p) ==
  \/ Limit(p) \/ Refuse(p) \/ RunScript(p) \/ CreateTenant(p) \/ Issue(p) \/ Answer(p)
Change(o) == LoadKey(o) \/ LockKey(o) \/ CommitChange(o) \/ FailChange(o)
Authenticate == (\E k \in DOMAIN keys : Present(k)) \/ Look \/ Judge

Next ==
  \/ \E p \in Tenants : Provision(p)
  \/ \E o \in Operators : Change(o)
  \/ Authenticate
  \/ Tick

Spec == Init /\ [][Next]_vars

-----------------------------------------------------------------------------
(* Properties. *)

TypeOK ==
  /\ clock \in 1..MaxTime
  /\ bucket \in Bucket
  /\ tenants \subseteq Tenants
  /\ DOMAIN keys = 1..Cardinality(DOMAIN keys) /\ DOMAIN keys \subseteq KeyIds
  /\ \A k \in DOMAIN keys : keys[k] \in Row /\ keys[k].tenant \in tenants
  /\ provision \in [Tenants -> [phase : {"idle", "tenant", "issue", "answer", "done"},
                                key : KeyIds \cup {NoKey}, expires : Nat]]
  /\ change \in [Operators -> [phase : {"idle", "loaded", "revoked", "done"},
                               rotate : BOOLEAN, key : KeyIds \cup {NoKey}]]
  /\ auth.phase \in {"look", "judge"} \cup Outcomes

\* Where a client is told a key and when it expires, the key works from then on,
\* to the second it was told, unless somebody rotates or revokes it; and a tenant
\* without a key, which nobody can use, is one whose provision is, or was cut
\* short, between its two transactions.
ProvisionedUsable ==
  \A p \in tenants :
    /\ provision[p].phase = "done" =>
         /\ Exists(provision[p].key)
         /\ LET row == keys[provision[p].key] IN
              /\ row.tenant = p
              /\ ~is_revoked(row) => (Valid(row) <=> provision[p].expires > clock \/ p \in Scripts)
    /\ (\A k \in DOMAIN keys : keys[k].tenant # p) => provision[p].phase = "issue"

\* "Never a window where both are simultaneously revoked, or where issuance
\* succeeds but the old key is never revoked": a rotation, wherever it ends and
\* whoever works on the same key, has revoked its key exactly when it has issued a
\* replacement, for the same tenant and with the same scopes.  So a tenant whose keys
\* are only ever rotated keeps one that is not revoked.
RotatedWhole ==
  /\ \A o \in Operators : change[o].rotate /\ change[o].key # NoKey =>
       LET old == keys[change[o].key] IN
         o \in old.revokers <=>
           \E k \in DOMAIN keys : /\ keys[k].issuer = o
                                  /\ keys[k].tenant = old.tenant /\ keys[k].scopes = old.scopes
  /\ \A k \in DOMAIN keys :
       (\A o \in Operators : change[o].rotate) =>
         \E other \in DOMAIN keys : keys[other].tenant = keys[k].tenant /\ ~is_revoked(keys[other])

\* A request is accepted as the tenant of the key it presents, although other keys
\* share its prefix, and only if that key was valid when it came in (a revoked or
\* expired key is refused "on the very next request"); it is refused only if the
\* key has ceased to be valid before the answer.
AuthSound ==
  /\ auth.phase \in {"accepted", "403"} =>
       /\ auth.good
       /\ auth.context = [key |-> auth.secret, tenant |-> keys[auth.secret].tenant]
  /\ auth.phase = "401" => ~(auth.good /\ Valid(keys[auth.secret]))

\* However many clients of one IP address ask, no more sandboxes come into being
\* than the burst and the refill since the first of them allow.
SandboxesLimited ==
  Cardinality(tenants \cap Sandboxes) * Cost <= Capacity + (clock - 1) * Rate
=============================================================================
