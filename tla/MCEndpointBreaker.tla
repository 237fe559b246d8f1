-------------------------- MODULE MCEndpointBreaker --------------------------
(* Instances of EndpointBreaker for TLC. *)
EXTENDS EndpointBreaker, TLC

\* Attempts only differ by name.
AnyAttempt == Permutations(Attempts)
=============================================================================
