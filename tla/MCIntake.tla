------------------------------ MODULE MCIntake ------------------------------
(* An instance of Intake for TLC: two events in one batch, two relays, a     *)
(* key that is used with two bodies and one that is not.                     *)
EXTENDS Intake, TLC

CONSTANTS k1, k2, b1, b2

Sent == {<<k1, b1>>, <<k1, b2>>, <<k2, b1>>}
=============================================================================
