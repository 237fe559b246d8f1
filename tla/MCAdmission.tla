----------------------------- MODULE MCAdmission -----------------------------
(* An instance of Admission for TLC: requests are interchangeable.           *)
EXTENDS Admission, TLC

AnyRequest == Permutations(Requests)
=============================================================================
