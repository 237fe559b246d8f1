-------------------------- MODULE MCDeliveryEngine --------------------------
(* Instances of DeliveryEngine for TLC. *)
EXTENDS DeliveryEngine, TLC

CONSTANTS d1, d2, e1, e2

\* Both deliveries belong to one endpoint, or each to its own.
OneEndpoint == [d \in Deliveries |-> e1]
EndpointEach == (d1 :> e1) @@ (d2 :> e2)
=============================================================================
