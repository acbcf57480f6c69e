----------------------------- MODULE MCListener ----------------------------
(* Model-checking instance of Listener: two connections of one client and  *)
(* one of a source without a cap.                                          *)
EXTENDS Listener, TLC

CONSTANTS c1, c2, c3, k1, k2

MCKeyOf == (c1 :> k1) @@ (c2 :> k1) @@ (c3 :> k2)
MCLimit == (k1 :> 1) @@ (k2 :> 0)
=============================================================================
