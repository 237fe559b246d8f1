------------------------ MODULE EndpointBreakerProofs ------------------------
(***************************************************************************)
(* Proofs about EndpointBreaker, for any number of racing attempts, any    *)
(* threshold, any cooldown and any length of time.                         *)
(*                                                                         *)
(* A row is a mixture of columns that several attempts computed from rows  *)
(* they had read at different times, so the invariants cannot follow the   *)
(* row alone.  AllEarned says of every version in anybody's hands (the     *)
(* committed row, what attempts decide from, what they read again) that    *)
(* the failures it counts were recorded: a mixture of such versions is one *)
(* (FlushEarned), and a failed attempt that counts one more has just been  *)
(* recorded (TransitionEarned).  OneProbe and OwnReads carry the row lock: *)
(* while a probe is out nobody else writes, so that its verdict replaces   *)
(* exactly the row it flipped.                                             *)
(***************************************************************************)
EXTENDS EndpointBreaker, TLAPS

\* The failures a row version counts, up to the threshold, are among the n
\* recorded; unless it is closed, they reached the threshold.
EarnedBy(b, n) ==
  /\ b.consecutive_failures <= n \/ n >= Threshold
  /\ b.state # "closed" => n >= Threshold

AllEarned ==
  /\ EarnedBy(row, failed)
  /\ \A a \in Attempts : EarnedBy(attempt[a].snap, failed) /\ EarnedBy(attempt[a].read, failed)

\* At most one attempt has flipped the row and not yet ended.
OneProbe == \A a, b \in Attempts : Probing(a) /\ Probing(b) => a = b

\* A probe that reads the row again reads the version it wrote itself.
OwnReads ==
  \A a \in Attempts :
    Probing(a) /\ attempt[a].phase = "outcome_reread" => attempt[a].read = attempt[a].snap

\* The inductive invariant.
IInv ==
  /\ TypeOK
  /\ HalfOpenNeverCommitted
  /\ AllEarned
  /\ OneProbe
  /\ OwnReads
  /\ ProbeHoldsRow

-----------------------------------------------------------------------------
(* The pure decisions. *)

\* Merging three columns of the right types gives a row of the right type.
LEMMA FlushType ==
  ASSUME NEW r \in Breaker, NEW n \in Breaker, NEW c \in Breaker
  PROVE  Flush(r, n, c) \in Breaker
BY DEF Flush, Breaker

\* An UPDATE of the version that was read makes it the new one; one that changes
\* no column leaves the row.
LEMMA FlushOwn ==
  ASSUME NEW r \in Breaker, NEW n \in Breaker
  PROVE  Flush(r, n, r) = n
BY DEF Flush, Breaker

LEMMA FlushNothing ==
  ASSUME NEW r \in Breaker, NEW c \in Breaker
  PROVE  Flush(r, r, c) = c
BY DEF Flush, Breaker

\* A mixture of versions that are earned is earned.
LEMMA FlushEarned ==
  ASSUME NEW r \in Breaker, NEW n \in Breaker, NEW c \in Breaker, NEW k \in Nat,
         EarnedBy(n, k), EarnedBy(c, k)
  PROVE  EarnedBy(Flush(r, n, c), k)
BY DEF Flush, Breaker, EarnedBy

\* What was earned stays so: recorded failures are not forgotten.
LEMMA EarnedGrows ==
  ASSUME NEW b \in Breaker, NEW k \in Nat, NEW m \in Nat, k <= m, EarnedBy(b, k)
  PROVE  EarnedBy(b, m)
BY BreakerAssumption DEF EarnedBy, Breaker

LEMMA ClosedEarned ==
  ASSUME NEW k \in Nat
  PROVE  EarnedBy(Closed, k) /\ Closed \in Breaker
BY DEF Closed, Transition, EarnedBy, Breaker, BreakerState, Null

LEMMA TransitionType ==
  ASSUME NEW b \in Breaker, NEW now \in Nat, NEW success \in BOOLEAN
  PROVE  /\ next_breaker_state(b, now, success) \in Breaker
         /\ next_breaker_state(b, now, success).state # "half_open"
BY DEF next_breaker_state, Transition, Breaker, BreakerState, Null

\* A transition from an earned row is earned by the failures recorded with it.
LEMMA TransitionEarned ==
  ASSUME NEW b \in Breaker, NEW now \in Nat, NEW success \in BOOLEAN,
         NEW k \in 0..Threshold, EarnedBy(b, k)
  PROVE  EarnedBy(next_breaker_state(b, now, success),
                  IF ~success /\ k < Threshold THEN k + 1 ELSE k)
<1>1. b.consecutive_failures \in Nat /\ Threshold \in Nat \ {0}
  BY BreakerAssumption DEF Breaker
<1>2. CASE success
  BY <1>1, <1>2 DEF next_breaker_state, Transition, EarnedBy
<1>3. CASE ~success /\ (b.state = "half_open" \/ b.consecutive_failures + 1 >= Threshold)
  <2>1. next_breaker_state(b, now, success) = Transition("open", b.consecutive_failures + 1, now)
    BY <1>3 DEF next_breaker_state
  <2>2. k = Threshold \/ k + 1 = Threshold
    BY <1>1, <1>3 DEF EarnedBy
  <2> QED BY <1>1, <1>3, <2>1, <2>2 DEF Transition, EarnedBy
<1>4. CASE ~success /\ ~(b.state = "half_open" \/ b.consecutive_failures + 1 >= Threshold)
  <2>1. next_breaker_state(b, now, success) = Transition("closed", b.consecutive_failures + 1, Null)
    BY <1>4 DEF next_breaker_state
  <2> QED BY <1>1, <1>4, <2>1 DEF Transition, EarnedBy
<1> QED BY <1>2, <1>3, <1>4

-----------------------------------------------------------------------------
LEMMA InitIInv == Init => IInv
<1> SUFFICES ASSUME Init PROVE IInv
  OBVIOUS
<1> USE DEF Init
<1>1. TypeOK
  BY BreakerAssumption
     DEF TypeOK, Closed, IdleSlot, Slot, Phases, Transition, Breaker, BreakerState, Null
<1>2. HalfOpenNeverCommitted
  BY DEF HalfOpenNeverCommitted, Closed, Transition
<1>3. AllEarned
  BY ClosedEarned DEF AllEarned, IdleSlot
<1>4. \A a \in Attempts : ~Probing(a)
  BY DEF Probing, IdleSlot
<1> QED BY <1>1, <1>2, <1>3, <1>4 DEF IInv, OneProbe, OwnReads, ProbeHoldsRow

\* Steps that change one attempt alone have to preserve only what IInv says of
\* it.
LEMMA RowAlone ==
  ASSUME IInv, NEW a \in Attempts, UNCHANGED <<row, failed>>, TypeOK',
         NEW s \in Slot, attempt' = [attempt EXCEPT ![a] = s],
         EarnedBy(s.snap, failed), EarnedBy(s.read, failed),
         Probing(a)' => Probing(a) /\ s.snap = attempt[a].snap,
         Probing(a)' /\ s.phase = "outcome_reread" => s.read = s.snap
  PROVE  IInv'
<1>1. attempt'[a] = s /\ \A b \in Attempts : b # a => attempt'[b] = attempt[b]
  BY DEF IInv, TypeOK
<1>2. \A b \in Attempts : Probing(b)' => Probing(b)
  BY <1>1 DEF Probing
<1>3. HalfOpenNeverCommitted'
  BY DEF IInv, HalfOpenNeverCommitted
<1>4. AllEarned'
  BY <1>1 DEF IInv, AllEarned, EarnedBy
<1>5. OneProbe'
  BY <1>2 DEF IInv, OneProbe
<1>6. OwnReads'
  <2> SUFFICES ASSUME NEW b \in Attempts, Probing(b)', attempt'[b].phase = "outcome_reread"
               PROVE  attempt'[b].read = attempt'[b].snap
    BY DEF OwnReads
  <2>1. CASE b = a
    BY <1>1, <2>1
  <2>2. CASE b # a
    BY <1>1, <1>2, <2>2 DEF IInv, OwnReads
  <2> QED BY <2>1, <2>2
<1>7. ProbeHoldsRow'
  <2> SUFFICES ASSUME NEW b \in Attempts, Probing(b)'
               PROVE  attempt'[b].snap.consecutive_failures = row.consecutive_failures
    BY DEF ProbeHoldsRow
  <2>1. CASE b = a
    BY <1>1, <2>1 DEF IInv, ProbeHoldsRow
  <2>2. CASE b # a
    BY <1>1, <1>2, <2>2 DEF IInv, ProbeHoldsRow
  <2> QED BY <2>1, <2>2
<1> QED BY <1>3, <1>4, <1>5, <1>6, <1>7 DEF IInv

\* What IInv says of one attempt.
LEMMA OneAttempt ==
  ASSUME IInv, NEW a \in Attempts
  PROVE  /\ attempt[a] \in Slot /\ row \in Breaker /\ failed \in 0..Threshold /\ failed \in Nat
         /\ attempt[a].snap \in Breaker /\ attempt[a].read \in Breaker /\ attempt[a].now \in Nat
         /\ attempt[a].success \in BOOLEAN /\ attempt[a].phase \in Phases
         /\ EarnedBy(row, failed)
         /\ EarnedBy(attempt[a].snap, failed) /\ EarnedBy(attempt[a].read, failed)
BY BreakerAssumption DEF IInv, TypeOK, AllEarned, Slot

LEMMA LoadStep ==
  ASSUME IInv, NEW a \in Attempts, Load(a)
  PROVE  IInv'
<1> DEFINE p == IF row.state = "open" THEN "flip" ELSE "send"
           s == [attempt[a] EXCEPT !.phase = p, !.snap = row, !.now = clock]
<1>1. s \in Slot /\ s.phase = p /\ s.snap = row /\ s.read = attempt[a].read
  <2>1. row \in Breaker /\ attempt[a] \in Slot
    BY OneAttempt
  <2>2. clock \in Nat
    BY BreakerAssumption DEF IInv, TypeOK
  <2>3. p \in Phases
    BY DEF Phases
  <2> HIDE DEF p
  <2> QED BY <2>1, <2>2, <2>3 DEF Slot
<1>2. attempt' = [attempt EXCEPT ![a] = s] /\ UNCHANGED <<row, clock, failed>>
  BY DEF Load, IInv, TypeOK
<1> HIDE DEF s
<1>3. TypeOK'
  BY <1>1, <1>2 DEF IInv, TypeOK
<1>4. ~Probing(a)'
  BY <1>1, <1>2 DEF IInv, TypeOK, HalfOpenNeverCommitted, Probing
<1> QED BY <1>1, <1>2, <1>3, <1>4, RowAlone, OneAttempt

LEMMA RereadStep ==
  ASSUME IInv, NEW a \in Attempts, Reread(a)
  PROVE  IInv'
<1> DEFINE p == IF attempt[a].phase = "flip" THEN "flip_reread" ELSE "outcome_reread"
           s == [attempt[a] EXCEPT !.phase = p, !.read = Visible(a)]
<1>1. attempt[a].phase \in {"flip", "outcome"} /\ UNCHANGED <<row, clock, failed>>
  BY DEF Reread
<1>2. attempt' = [attempt EXCEPT ![a] = s]
  BY DEF Reread, IInv, TypeOK
<1>3. Visible(a) \in Breaker /\ EarnedBy(Visible(a), failed)
  BY OneAttempt DEF Visible
<1>4. s \in Slot /\ s.phase = p /\ s.snap = attempt[a].snap /\ s.read = Visible(a)
  BY <1>3, OneAttempt DEF Slot, Phases
<1> HIDE DEF s
<1>5. TypeOK'
  BY <1>1, <1>2, <1>4 DEF IInv, TypeOK
<1>6. Probing(a)' => Probing(a)
  BY <1>1, <1>2, <1>4 DEF IInv, TypeOK, Probing
<1>7. Probing(a) => s.read = s.snap
  BY <1>4 DEF Visible
<1> QED BY <1>1, <1>2, <1>3, <1>4, <1>5, <1>6, <1>7, RowAlone, OneAttempt

LEMMA SendStep ==
  ASSUME IInv, NEW a \in Attempts, Send(a)
  PROVE  IInv'
<1> PICK answer \in BOOLEAN :
      attempt' = [attempt EXCEPT ![a].phase = "outcome", ![a].success = answer]
  BY DEF Send
<1> DEFINE s == [attempt[a] EXCEPT !.phase = "outcome", !.success = answer]
<1>1. attempt[a].phase = "send" /\ UNCHANGED <<row, clock, failed>>
  BY DEF Send
<1>2. attempt' = [attempt EXCEPT ![a] = s]
  BY DEF IInv, TypeOK
<1>3. s \in Slot /\ s.phase = "outcome" /\ s.snap = attempt[a].snap /\ s.read = attempt[a].read
  BY OneAttempt DEF Slot, Phases
<1> HIDE DEF s
<1>4. TypeOK'
  BY <1>1, <1>2, <1>3 DEF IInv, TypeOK
<1>5. Probing(a)' => Probing(a)
  BY <1>1, <1>2, <1>3 DEF IInv, TypeOK, Probing
<1> QED BY <1>1, <1>2, <1>3, <1>4, <1>5, RowAlone, OneAttempt

LEMMA RollbackStep ==
  ASSUME IInv, NEW a \in Attempts, Rollback(a)
  PROVE  IInv'
<1>1. attempt' = [attempt EXCEPT ![a] = IdleSlot] /\ UNCHANGED <<row, clock, failed>>
  BY DEF Rollback
<1>2. IdleSlot \in Slot /\ IdleSlot.phase = "idle" /\ IdleSlot.snap = Closed /\ IdleSlot.read = Closed
  BY ClosedEarned, BreakerAssumption DEF IdleSlot, Slot, Phases
<1>3. TypeOK'
  BY <1>1, <1>2 DEF IInv, TypeOK
<1>4. ~Probing(a)'
  BY <1>1, <1>2 DEF IInv, TypeOK, Probing
<1> QED BY <1>1, <1>2, <1>3, <1>4, RowAlone, OneAttempt, ClosedEarned

LEMMA TickStep ==
  ASSUME IInv, Tick
  PROVE  IInv'
<1>1. TypeOK'
  BY BreakerAssumption DEF IInv, TypeOK, Tick
<1>2. \A a : Probing(a)' = Probing(a)
  BY DEF Tick, Probing
<1> QED BY <1>1, <1>2
        DEF IInv, Tick, HalfOpenNeverCommitted, AllEarned, EarnedBy, OneProbe, OwnReads, ProbeHoldsRow

\* The flip finds the row unlocked, and keeps its failure count.
LEMMA HalfOpenStep ==
  ASSUME IInv, NEW a \in Attempts, HalfOpen(a)
  PROVE  IInv'
<1> DEFINE r == attempt[a].read
           new == [r EXCEPT !.state = "half_open", !.opened_at = attempt[a].snap.opened_at]
           own == Flush(r, new, row)
           s == [attempt[a] EXCEPT !.phase = "send", !.snap = own, !.read = Closed]
<1>1. attempt[a].phase = "flip_reread" /\ UNCHANGED <<row, clock, failed>>
  BY DEF HalfOpen
<1>2. \A b \in Attempts : ~Probing(b)
  BY DEF HalfOpen, Locked
<1>3. attempt' = [attempt EXCEPT ![a] = s]
  BY DEF HalfOpen, IInv, TypeOK
<1>4. attempt[a].snap.state = "open" /\ failed >= Threshold
  BY <1>1, OneAttempt DEF IInv, TypeOK, EarnedBy
<1>5. new \in Breaker /\ new.consecutive_failures = r.consecutive_failures
  BY OneAttempt DEF Breaker, BreakerState
<1>6. EarnedBy(new, failed)
  BY <1>4, <1>5, OneAttempt, BreakerAssumption DEF EarnedBy
<1>7. own \in Breaker /\ EarnedBy(own, failed)
  <2> HIDE DEF new, r
  <2> QED BY <1>5, <1>6, OneAttempt, FlushType, FlushEarned DEF r
<1>8. own.consecutive_failures = row.consecutive_failures
  BY <1>5 DEF Flush
<1> HIDE DEF own, new, r
<1>9. s \in Slot /\ s.phase = "send" /\ s.snap = own /\ s.read = Closed
  BY <1>7, OneAttempt, ClosedEarned DEF Slot, Phases
<1> HIDE DEF s
<1>10. attempt'[a] = s /\ \A b \in Attempts : b # a => attempt'[b] = attempt[b]
  BY <1>3 DEF IInv, TypeOK
<1>11. \A b \in Attempts : Probing(b)' => b = a
  BY <1>2, <1>10 DEF Probing
<1>12. TypeOK'
  BY <1>1, <1>3, <1>9 DEF IInv, TypeOK
<1>13. AllEarned'
  BY <1>1, <1>7, <1>9, <1>10, ClosedEarned, OneAttempt DEF IInv, AllEarned, EarnedBy
<1>14. OwnReads'
  BY <1>9, <1>10, <1>11 DEF OwnReads
<1>15. ProbeHoldsRow'
  BY <1>1, <1>8, <1>9, <1>10, <1>11 DEF ProbeHoldsRow
<1> QED BY <1>1, <1>11, <1>12, <1>13, <1>14, <1>15
        DEF IInv, HalfOpenNeverCommitted, OneProbe

\* What an outcome writes: a probe its transition, and any other attempt a
\* mixture, or nothing while a probe is out.
LEMMA RecordWrites ==
  ASSUME IInv, NEW a \in Attempts, Record(a)
  PROVE  LET mine == attempt[a]
             new == next_breaker_state(mine.snap, mine.now, mine.success) IN
         /\ new \in Breaker /\ new.state # "half_open"
         /\ EarnedBy(new, failed')
         /\ failed' \in 0..Threshold /\ failed <= failed'
         /\ Probing(a) => row' = new
         /\ ~Probing(a) => row' = Flush(mine.read, new, row)
         /\ ~Probing(a) /\ Locked => row' = row
<1> DEFINE mine == attempt[a]
           new == next_breaker_state(mine.snap, mine.now, mine.success)
<1>1. new \in Breaker /\ new.state # "half_open"
  BY OneAttempt, TransitionType
<1>2. failed' = IF ~mine.success /\ failed < Threshold THEN failed + 1 ELSE failed
  BY DEF Record
<1>3. EarnedBy(new, failed')
  <2> DEFINE k == IF ~mine.success /\ failed < Threshold THEN failed + 1 ELSE failed
  <2>1. EarnedBy(new, k)
    BY OneAttempt, TransitionEarned
  <2> HIDE DEF new, k
  <2>2. failed' = k
    BY <1>2 DEF k
  <2> QED BY <2>1, <2>2
<1>4. failed' \in 0..Threshold /\ failed <= failed'
  BY <1>2, OneAttempt, BreakerAssumption
<1>5. row' = Flush(mine.read, new, Visible(a)) /\ mine.phase = "outcome_reread"
  BY DEF Record
<1>6. Locked => Probing(a) \/ new = mine.read
  BY DEF Record
<1> HIDE DEF new
<1>7. Probing(a) => row' = new
  <2> SUFFICES ASSUME Probing(a) PROVE row' = new
    OBVIOUS
  <2>1. mine.read = mine.snap /\ Visible(a) = mine.snap
    BY <1>5 DEF IInv, OwnReads, Visible
  <2> QED BY <1>1, <1>5, <2>1, OneAttempt, FlushOwn
<1>8. ~Probing(a) => row' = Flush(mine.read, new, row)
  BY <1>5 DEF Visible
<1>9. ~Probing(a) /\ Locked => row' = row
  BY <1>6, <1>8, OneAttempt, FlushNothing
<1> QED BY <1>1, <1>3, <1>4, <1>7, <1>8, <1>9 DEF new

\* The step that matters: outcomes computed from stale rows meet a row that has
\* moved on.
LEMMA RecordStep ==
  ASSUME IInv, NEW a \in Attempts, Record(a)
  PROVE  IInv'
<1> DEFINE mine == attempt[a]
           new == next_breaker_state(mine.snap, mine.now, mine.success)
<1>1. /\ new \in Breaker /\ new.state # "half_open"
      /\ EarnedBy(new, failed')
      /\ failed' \in 0..Threshold /\ failed <= failed'
      /\ Probing(a) => row' = new
      /\ ~Probing(a) => row' = Flush(mine.read, new, row)
      /\ ~Probing(a) /\ Locked => row' = row
  BY RecordWrites
<1> HIDE DEF new, mine
<1>2. attempt' = [attempt EXCEPT ![a] = IdleSlot] /\ UNCHANGED clock
  BY DEF Record
<1>3. IdleSlot \in Slot /\ IdleSlot.phase = "idle" /\ IdleSlot.snap = Closed /\ IdleSlot.read = Closed
  BY ClosedEarned DEF IdleSlot, Slot, Phases
<1>4. attempt'[a] = IdleSlot /\ \A b \in Attempts : b # a => attempt'[b] = attempt[b]
  BY <1>2 DEF IInv, TypeOK
<1>5. mine.read \in Breaker /\ row \in Breaker /\ failed \in Nat /\ failed' \in Nat
  BY <1>1, OneAttempt, BreakerAssumption DEF mine
<1>6. EarnedBy(row, failed')
  BY <1>1, <1>5, OneAttempt, EarnedGrows
<1>7. row' \in Breaker /\ row'.state # "half_open" /\ EarnedBy(row', failed')
  <2>1. CASE Probing(a)
    BY <1>1, <2>1
  <2>2. CASE ~Probing(a)
    <3>1. row' = Flush(mine.read, new, row)
      BY <1>1, <2>2
    <3>2. row'.state # "half_open"
      BY <1>1, <3>1 DEF Flush, IInv, HalfOpenNeverCommitted
    <3> QED BY <1>1, <1>5, <1>6, <3>1, <3>2, FlushType, FlushEarned
  <2> QED BY <2>1, <2>2
<1>8. TypeOK'
  BY <1>1, <1>2, <1>3, <1>7 DEF IInv, TypeOK
<1>9. HalfOpenNeverCommitted'
  BY <1>7 DEF HalfOpenNeverCommitted
<1>10. AllEarned'
  <2> SUFFICES ASSUME NEW b \in Attempts
               PROVE  EarnedBy(attempt'[b].snap, failed') /\ EarnedBy(attempt'[b].read, failed')
    BY <1>7 DEF AllEarned, EarnedBy
  <2>1. CASE b = a
    BY <1>3, <1>4, <1>5, <2>1, ClosedEarned
  <2>2. CASE b # a
    BY <1>1, <1>4, <1>5, <2>2, OneAttempt, EarnedGrows
  <2> QED BY <2>1, <2>2
<1>11. \A b \in Attempts : Probing(b)' => b # a /\ Probing(b)
  BY <1>3, <1>4 DEF Probing
<1>12. OneProbe'
  BY <1>11 DEF IInv, OneProbe
<1>13. OwnReads'
  BY <1>4, <1>11 DEF IInv, OwnReads
<1>14. ProbeHoldsRow'
  <2> SUFFICES ASSUME NEW b \in Attempts, Probing(b)'
               PROVE  attempt'[b].snap.consecutive_failures = row'.consecutive_failures
    BY DEF ProbeHoldsRow
  <2>1. b # a /\ Probing(b) /\ attempt'[b] = attempt[b]
    BY <1>4, <1>11
  <2>2. ~Probing(a) /\ Locked
    BY <2>1 DEF IInv, OneProbe, Locked
  <2>3. row' = row
    BY <1>1, <2>2
  <2> QED BY <2>1, <2>3 DEF IInv, ProbeHoldsRow
<1> QED BY <1>8, <1>9, <1>10, <1>12, <1>13, <1>14 DEF IInv

-----------------------------------------------------------------------------
LEMMA NextIInv == IInv /\ [Next]_vars => IInv'
<1> SUFFICES ASSUME IInv, [Next]_vars PROVE IInv'
  OBVIOUS
<1>1. CASE Tick
  BY <1>1, TickStep
<1>2. ASSUME NEW a \in Attempts,
             Load(a) \/ Reread(a) \/ HalfOpen(a) \/ Send(a) \/ Record(a) \/ Rollback(a)
      PROVE  IInv'
  BY <1>2, LoadStep, RereadStep, HalfOpenStep, SendStep, RecordStep, RollbackStep
<1>3. CASE UNCHANGED vars
  BY <1>3 DEF vars, IInv, TypeOK, HalfOpenNeverCommitted, AllEarned, EarnedBy, OneProbe, OwnReads,
              ProbeHoldsRow, Probing
<1> QED BY <1>1, <1>2, <1>3 DEF Next

THEOREM Invariance == Spec => []IInv
BY InitIInv, NextIInv, PTL DEF Spec

\* Types hold whatever attempts race.
THEOREM TypeCorrect == Spec => []TypeOK
<1>1. IInv => TypeOK
  BY DEF IInv
<1> QED BY <1>1, Invariance, PTL

\* No crash and no race commits a half-open row (set_breaker_state and
\* record_delivery_outcome are in one transaction).
THEOREM HalfOpenIsPrivate == Spec => []HalfOpenNeverCommitted
<1>1. IInv => HalfOpenNeverCommitted
  BY DEF IInv
<1> QED BY <1>1, Invariance, PTL

\* Whatever columns record_delivery_outcome mixes, an open breaker has seen as
\* many recorded failures as its threshold.
THEOREM TripIsEarned == Spec => []TripEarned
<1>1. IInv => TripEarned
  BY DEF IInv, AllEarned, EarnedBy, TripEarned
<1> QED BY <1>1, Invariance, PTL

\* The failure count a probe has flipped is the one its outcome replaces.
THEOREM ProbeIsUndisturbed == Spec => []ProbeHoldsRow
<1>1. IInv => ProbeHoldsRow
  BY DEF IInv
<1> QED BY <1>1, Invariance, PTL

-----------------------------------------------------------------------------
(* What a step may do to the committed row. *)

\* Whatever changes the row while a probe is out is that probe's own transition.
ProbeDecides ==
  \A a \in Attempts : Probing(a) /\ row' # row =>
    row' = next_breaker_state(attempt[a].snap, attempt[a].now, attempt[a].success)

\* The verdict of a probe is committed whole, and no outcome of an attempt sent
\* before it slips in between its flip and its verdict (the row lock from
\* set_breaker_state to the commit).  Once the probe has committed, late outcomes
\* may still change the row.
THEOREM ProbesDecide == Spec => [][ProbeDecides]_vars
<1>1. IInv /\ [Next]_vars => [ProbeDecides]_vars
  <2> SUFFICES ASSUME IInv, Next PROVE ProbeDecides
    OBVIOUS
  <2>1. CASE UNCHANGED row
    BY <2>1 DEF ProbeDecides
  <2>2. ASSUME NEW b \in Attempts, Record(b) PROVE ProbeDecides
    <3> SUFFICES ASSUME NEW a \in Attempts, Probing(a), row' # row
                 PROVE  row' = next_breaker_state(attempt[a].snap, attempt[a].now, attempt[a].success)
      BY DEF ProbeDecides
    <3>1. Probing(b)
      BY <2>2, RecordWrites DEF Locked
    <3>2. a = b
      BY <3>1 DEF IInv, OneProbe
    <3> QED BY <2>2, <3>1, <3>2, RecordWrites
  <2> QED BY <2>1, <2>2 DEF Next, Tick, Load, Reread, HalfOpen, Send, Rollback
<1> QED BY <1>1, Invariance, PTL DEF Spec
=============================================================================
