-------------------------- MODULE MCDispatcherPool --------------------------
(* An instance of DispatcherPool for TLC: mostly messages of one endpoint.   *)
EXTENDS DispatcherPool

CONSTANTS slow, other

Stream == <<slow, slow, other, slow, slow>>
=============================================================================
