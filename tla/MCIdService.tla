---------------------------- MODULE MCIdService -----------------------------
(* Instances of IdService for TLC. *)
EXTENDS IdService, TLC

CONSTANTS c1, c2, e1, e2

MCCalls == {c1, c2}
MCEndpoints == {e1, e2}
MCEndpointOf == (c1 :> e1) @@ (c2 :> e2)
=============================================================================
