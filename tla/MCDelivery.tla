----------------------------- MODULE MCDelivery ----------------------------
(* Model-checking instance of Delivery.                                    *)
EXTENDS Delivery

MCSchedule == <<1, 2>>
=============================================================================
