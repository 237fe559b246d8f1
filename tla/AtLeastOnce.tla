----------------------------- MODULE AtLeastOnce -----------------------------
(***************************************************************************)
(* What Relay promises of its deliveries, as a client sees it through the  *)
(* API: a state, the attempts made so far, and, invisibly, something under *)
(* way that leads to the next attempt.  No stream, ZSET, worker or crash   *)
(* appears here; DeliveryEngine is shown to implement it.                  *)
(*                                                                         *)
(* "At least once" is weaker than one might expect: a message handled      *)
(* twice makes another attempt at a delivery that had ended, and that      *)
(* attempt may open it again (then it is on its way again, and ends        *)
(* again).  What never happens is that a delivery is open and nothing is   *)
(* under way, that it ends without the attempts its state stands for, or   *)
(* that attempts are forgotten while it exists.                            *)
(***************************************************************************)
EXTENDS Naturals

CONSTANTS Deliveries, MaxAttempts

VARIABLES
  status,  \* "none" before it is accepted, "live": pending or retrying, ...
  log,     \* the attempts recorded: how many, did one succeed
  chain    \* is something under way that leads to an attempt?

vars == <<status, log, chain>>

Ended == {"delivered", "dead"}
Status == {"none", "live", "gone"} \cup Ended

NothingLogged == [logged |-> 0, ok |-> FALSE]

Exists(d) == status[d] \in {"live"} \cup Ended

\* A message may be published before the delivery is accepted, never after.
Announce(d) ==
  /\ status[d] = "none" /\ ~chain[d]
  /\ chain' = [chain EXCEPT ![d] = TRUE]
  /\ UNCHANGED <<status, log>>

\* The fan-out of one or more events is accepted, or comes to nothing.
Accept(S) ==
  /\ \A d \in S : status[d] = "none" /\ chain[d]
  /\ status' = [d \in Deliveries |-> IF d \in S THEN "live" ELSE status[d]]
  /\ UNCHANGED <<log, chain>>

\* The deliveries of a deleted endpoint, or of a fan-out that failed, are gone,
\* and their attempts with them.
Remove(S) ==
  /\ status' = [d \in Deliveries |-> IF d \in S THEN "gone" ELSE status[d]]
  /\ log' = [d \in Deliveries |-> IF d \in S THEN NothingLogged ELSE log[d]]
  /\ UNCHANGED chain

\* An attempt is always logged.  A success delivers and a failure keeps the
\* delivery open or, when enough attempts are on record, kills it; or the state
\* stays what another attempt has made it.
Attempt(d, success) ==
  /\ Exists(d) /\ chain[d]
  /\ log' = [log EXCEPT ![d].logged = @ + 1, ![d].ok = @ \/ success]
  /\ \/ status' = status
     \/ success /\ status' = [status EXCEPT ![d] = "delivered"]
     \/ ~success /\ status' = [status EXCEPT ![d] = "live"]
     \/ /\ ~success /\ log[d].logged + 1 >= MaxAttempts
        /\ status' = [status EXCEPT ![d] = "dead"]
  /\ UNCHANGED chain

\* The breaker puts an attempt off, of a delivery that may have ended meanwhile.
PutOff(d) ==
  /\ Exists(d) /\ chain[d]
  /\ status' = [status EXCEPT ![d] = "live"]
  /\ UNCHANGED <<log, chain>>

\* A dead delivery is replayed; its history stays.
Replay(d) ==
  /\ Exists(d)
  /\ status' = [status EXCEPT ![d] = "live"]
  /\ chain' = [chain EXCEPT ![d] = TRUE]
  /\ UNCHANGED log

\* Nothing more is under way, which must not happen to an open delivery.
Rest(d) ==
  /\ status[d] \in Ended \cup {"gone"} /\ chain[d]
  /\ chain' = [chain EXCEPT ![d] = FALSE]
  /\ UNCHANGED <<status, log>>

Init ==
  /\ status = [d \in Deliveries |-> "none"]
  /\ log = [d \in Deliveries |-> NothingLogged]
  /\ chain = [d \in Deliveries |-> FALSE]

Next ==
  \/ \E S \in SUBSET Deliveries : Accept(S) \/ Remove(S)
  \/ \E d \in Deliveries :
       \/ Announce(d) \/ PutOff(d) \/ Replay(d) \/ Rest(d)
       \/ \E success \in BOOLEAN : Attempt(d, success)

Spec == Init /\ [][Next]_vars
=============================================================================
