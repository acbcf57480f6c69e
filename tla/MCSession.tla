----------------------------- MODULE MCSession -----------------------------
(* Model-checking instance of Session: two routes, and an address without a *)
(* route.                                                                  *)
EXTENDS Session, TLC

CONSTANTS a, b, x, r1, r2

MCRouteOf == (a :> r1) @@ (b :> r2) @@ (x :> NoRoute)
=============================================================================
