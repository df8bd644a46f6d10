------------------------- MODULE MCIntegrationOutbox -------------------------
(* Instances of IntegrationOutbox for TLC. *)
EXTENDS IntegrationOutbox, TLC

CONSTANTS m1, s1, y1, y2, i1, i2

\* A slot of the worker's pool, and two requests of the endpoint with one id.
EndpointShared == (s1 :> i1) @@ (y1 :> i2) @@ (y2 :> i2)
=============================================================================
