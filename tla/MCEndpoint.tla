----------------------------- MODULE MCEndpoint -----------------------------
(***************************************************************************)
(* The endpoint on a small instance: two accounts with a device each.      *)
(***************************************************************************)
EXTENDS EndpointProperties, TLC

CONSTANTS d1, d2, a1, a2

OneEach == d1 :> a1 @@ d2 :> a2
One == d1 :> a1
=============================================================================
