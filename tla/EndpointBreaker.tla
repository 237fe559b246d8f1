--------------------------- MODULE EndpointBreaker ---------------------------
(***************************************************************************)
(* The circuit breaker of one endpoint: the columns breaker_state,         *)
(* consecutive_failures and opened_at of its row, and the attempts that    *)
(* race on it.  An attempt reads the row without a lock and decides from   *)
(* what it read, the transition included.  To write, it SELECTs the row    *)
(* again (_get_or_raise), assigns the columns, and its UPDATE carries only *)
(* the columns that differ from that second reading.  The UPDATE waits for *)
(* the row lock and lands on whatever has been committed by then (READ     *)
(* COMMITTED).                                                             *)
(* An attempt that finds the breaker OPEN past its cooldown first writes   *)
(* HALF_OPEN in its own transaction, and so keeps the row locked for the   *)
(* whole HTTP request.                                                     *)
(***************************************************************************)
EXTENDS Naturals, FiniteSets

CONSTANTS
  Attempts,    \* attempts in progress against the endpoint
  Threshold,   \* settings.breaker_failure_threshold
  Cooldown,    \* settings.breaker_cooldown_seconds
  MaxTime,     \* bound: the clock
  MaxFailures  \* bound: the failures counted in the row an attempt loads

ASSUME BreakerAssumption ==
  /\ Threshold \in Nat \ {0}
  /\ Cooldown \in Nat
  /\ MaxTime \in Nat \ {0}
  /\ MaxFailures \in Nat

VARIABLES
  row,      \* the committed row
  clock,    \* datetime.now(UTC)
  attempt,  \* what each attempt has read and how far it is
  failed    \* history: failed attempts recorded, counted up to Threshold

vars == <<row, clock, attempt, failed>>

-----------------------------------------------------------------------------
(* relay.domain.endpoints.breaker: pure decisions. *)

Null == 0

BreakerState == {"closed", "open", "half_open"}

Breaker == [state : BreakerState, consecutive_failures : Nat, opened_at : Nat]

should_skip_for_open_breaker(b, now) ==
  b.state = "open" /\ b.opened_at # Null /\ now < b.opened_at + Cooldown

Transition(s, failures, at) ==
  [state |-> s, consecutive_failures |-> failures, opened_at |-> at]

\* Mutant of next_breaker_state: the breaker opens one failure too early.
next_breaker_stateEarly(b, now, success) ==
  LET failures == b.consecutive_failures + 1 IN
  IF success THEN Transition("closed", 0, Null)
  ELSE IF b.state = "half_open" \/ failures + 1 >= Threshold
       THEN Transition("open", failures, now)
       ELSE Transition("closed", failures, Null)

next_breaker_state(b, now, success) ==
  LET failures == b.consecutive_failures + 1 IN
  IF success THEN Transition("closed", 0, Null)
  ELSE IF b.state = "half_open" \/ failures >= Threshold
       THEN Transition("open", failures, now)
       ELSE Transition("closed", failures, Null)

-----------------------------------------------------------------------------
(* attempt() and the endpoint repository. *)

\* flip: about to write HALF_OPEN; outcome: the answer is there; the two
\* reread phases lie between the second SELECT and the UPDATE it leads to.
Phases == {"idle", "flip", "flip_reread", "send", "outcome", "outcome_reread"}

\* snap: the endpoint the attempt decides from; read: the second reading.
Slot == [phase : Phases, snap : Breaker, now : Nat, read : Breaker, success : BOOLEAN]

Closed == Transition("closed", 0, Null)
IdleSlot == [phase |-> "idle", snap |-> Closed, now |-> 0, read |-> Closed, success |-> FALSE]

\* The uncommitted HALF_OPEN row version, and the row lock, of a probe.
Probing(a) ==
  attempt[a].phase \in {"send", "outcome", "outcome_reread"} /\ attempt[a].snap.state = "half_open"
Locked == \E a \in Attempts : Probing(a)

\* The row as a statement of a's transaction reads it.
Visible(a) == IF Probing(a) THEN attempt[a].snap ELSE row

\* An UPDATE sets the columns in which new differs from the row read, and leaves
\* the others as they are by the time it has the row.
Flush(read, new, current) ==
  [state |-> IF new.state # read.state THEN new.state ELSE current.state,
   consecutive_failures |-> IF new.consecutive_failures # read.consecutive_failures
                            THEN new.consecutive_failures
                            ELSE current.consecutive_failures,
   opened_at |-> IF new.opened_at # read.opened_at THEN new.opened_at ELSE current.opened_at]

\* Mutant of Load: every attempt becomes a probe.
LoadProbing(a) ==
  /\ attempt[a].phase = "idle"
  /\ row.consecutive_failures <= MaxFailures
  /\ ~should_skip_for_open_breaker(row, clock)
  /\ attempt' = [attempt EXCEPT ![a].phase = "flip", ![a].snap = row, ![a].now = clock]
  /\ UNCHANGED <<row, clock, failed>>

\* attempt() reads the endpoint and the time, and goes on unless the breaker
\* tells it to defer (which leaves the endpoint row alone: DeliveryEngine).
Load(a) ==
  /\ attempt[a].phase = "idle"
  /\ row.consecutive_failures <= MaxFailures
  /\ ~should_skip_for_open_breaker(row, clock)
  /\ attempt' = [attempt EXCEPT ![a].phase = IF row.state = "open" THEN "flip" ELSE "send",
                                ![a].snap = row, ![a].now = clock]
  /\ UNCHANGED <<row, clock, failed>>

\* _get_or_raise: the instance loaded first is gone from the session, so the row
\* is selected again.
Reread(a) ==
  /\ \/ /\ attempt[a].phase = "flip"
        /\ attempt' = [attempt EXCEPT ![a].phase = "flip_reread", ![a].read = Visible(a)]
     \/ /\ attempt[a].phase = "outcome"
        /\ attempt' = [attempt EXCEPT ![a].phase = "outcome_reread", ![a].read = Visible(a)]
  /\ UNCHANGED <<row, clock, failed>>

\* Mutants of HalfOpen: the flip is committed at once; it does not wait for the
\* probe that has the row.
HalfOpenCommitted(a) ==
  /\ attempt[a].phase = "flip_reread"
  /\ ~Locked
  /\ LET mine == attempt[a]
         new == [mine.read EXCEPT !.state = "half_open", !.opened_at = mine.snap.opened_at] IN
     /\ row' = Flush(mine.read, new, row)
     /\ attempt' = [attempt EXCEPT ![a].phase = "send", ![a].snap = row']
  /\ UNCHANGED <<clock, failed>>
HalfOpenAtOnce(a) ==
  /\ attempt[a].phase = "flip_reread"
  /\ LET mine == attempt[a]
         new == [mine.read EXCEPT !.state = "half_open", !.opened_at = mine.snap.opened_at] IN
     attempt' = [attempt EXCEPT ![a].phase = "send", ![a].snap = Flush(mine.read, new, row),
                                ![a].read = Closed]
  /\ UNCHANGED <<row, clock, failed>>

\* OPEN past its cooldown: set_breaker_state(HALF_OPEN) waits for the row lock,
\* writes the state and the opened_at first loaded, and reads the row back.
HalfOpen(a) ==
  /\ attempt[a].phase = "flip_reread"
  /\ ~Locked
  /\ LET mine == attempt[a]
         new == [mine.read EXCEPT !.state = "half_open", !.opened_at = mine.snap.opened_at] IN
     attempt' = [attempt EXCEPT ![a].phase = "send", ![a].snap = Flush(mine.read, new, row),
                                ![a].read = Closed]
  /\ UNCHANGED <<row, clock, failed>>

Send(a) ==
  /\ attempt[a].phase = "send"
  /\ \E answer \in BOOLEAN :
       attempt' = [attempt EXCEPT ![a].phase = "outcome", ![a].success = answer]
  /\ UNCHANGED <<row, clock, failed>>

\* record_delivery_outcome, and the commit: the transition follows from what was
\* first loaded, the columns from the second reading.  An attempt with a column
\* to write waits for a probe to let go of the row.
Record(a) ==
  LET mine == attempt[a]
      new == next_breaker_state(mine.snap, mine.now, mine.success)
  IN
  /\ mine.phase = "outcome_reread"
  /\ Locked => Probing(a) \/ new = mine.read
  /\ row' = Flush(mine.read, new, Visible(a))
  /\ attempt' = [attempt EXCEPT ![a] = IdleSlot]
  /\ failed' = IF ~mine.success /\ failed < Threshold THEN failed + 1 ELSE failed
  /\ UNCHANGED clock

\* A crash or an exception: the transaction rolls back and unlocks the row.
Rollback(a) ==
  /\ attempt[a].phase # "idle"
  /\ attempt' = [attempt EXCEPT ![a] = IdleSlot]
  /\ UNCHANGED <<row, clock, failed>>

Tick ==
  /\ clock < MaxTime
  /\ clock' = clock + 1
  /\ UNCHANGED <<row, attempt, failed>>

Init ==
  /\ row = Closed
  /\ clock = 1
  /\ attempt = [a \in Attempts |-> IdleSlot]
  /\ failed = 0

Next ==
  \/ Tick
  \/ \E a \in Attempts :
       Load(a) \/ Reread(a) \/ HalfOpen(a) \/ Send(a) \/ Record(a) \/ Rollback(a)

Spec == Init /\ [][Next]_vars

-----------------------------------------------------------------------------
(* Properties. *)

\* Types; an attempt on its way to HALF_OPEN loaded an OPEN row.
TypeOK ==
  /\ row \in Breaker
  /\ clock \in 1..MaxTime
  /\ attempt \in [Attempts -> Slot]
  /\ failed \in 0..Threshold
  /\ \A a \in Attempts :
       attempt[a].phase \in {"flip", "flip_reread"} => attempt[a].snap.state = "open"

\* HALF_OPEN only ever exists in a probe's own transaction: a process that dies
\* while it probes leaves the breaker OPEN, and the next attempt probes again,
\* instead of a half-open row that nobody is testing.
HalfOpenNeverCommitted == row.state # "half_open"

\* However the columns of racing outcomes are mixed, the breaker is OPEN only if
\* as many attempts as the threshold asks for were recorded as failed: no failure
\* is counted twice on the way (record_delivery_outcome).
TripEarned == row.state = "open" => failed >= Threshold

\* A probe judges the row it flipped: nobody else's outcome changes the committed
\* failure count between its HALF_OPEN and its own outcome, which therefore never
\* undoes one (the row lock held across the request).
ProbeHoldsRow ==
  \A a \in Attempts : Probing(a) =>
    attempt[a].snap.consecutive_failures = row.consecutive_failures

\* A probe goes out over a breaker that had cooled down: "exactly one probe is
\* allowed" once the cooldown elapses, and a failed probe starts "a fresh
\* cooldown" (breaker.py).
ProbeAfterCooldown ==
  \A a \in Attempts : attempt[a].phase = "send" /\ Probing(a) =>
    attempt[a].snap.opened_at + Cooldown <= clock
=============================================================================
