------------------------------ MODULE Handoff ------------------------------
(***************************************************************************)
(* What handing a queued message to the smarthost promises.                *)
(*                                                                         *)
(* An attempt either ends with the smarthost owning the message or not.    *)
(* Once the relay has heard the acceptance, the message is delivered: the  *)
(* attempt can neither be given up nor bounced.  Only an acceptance whose  *)
(* answer never arrived leaves the message queued, and only then can a     *)
(* later attempt hand over a second copy.  A bounce means that this        *)
(* attempt handed nothing over.                                            *)
(***************************************************************************)
EXTENDS Naturals

CONSTANT Messages

VARIABLES
  fate,    \* "queued", "trying", "delivered", "bounced" or "expired"
  owned,   \* what this attempt achieved: "no", "heard" or "unheard"
  copies   \* how often the smarthost has taken the message

vars == <<fate, owned, copies>>

Init ==
  /\ fate = [m \in Messages |-> "queued"]
  /\ owned = [m \in Messages |-> "no"]
  /\ copies = [m \in Messages |-> 0]

Start(m) ==
  /\ fate[m] = "queued"
  /\ fate' = [fate EXCEPT ![m] = "trying"]
  /\ UNCHANGED <<owned, copies>>

Take(m, how) ==
  /\ fate[m] = "trying" /\ owned[m] = "no"
  /\ owned' = [owned EXCEPT ![m] = how]
  /\ copies' = [copies EXCEPT ![m] = @ + 1]
  /\ UNCHANGED fate

\* The attempt is over and its outcome decided.
End(m, outcome) ==
  /\ fate[m] = "trying"
  /\ fate' = [fate EXCEPT ![m] = outcome]
  /\ owned' = [owned EXCEPT ![m] = "no"]
  /\ UNCHANGED copies

Confirm(m) == owned[m] = "heard" /\ End(m, "delivered")
Bounce(m) == owned[m] = "no" /\ End(m, "bounced")
GiveUp(m) == owned[m] # "heard" /\ End(m, "queued")
Expire(m) == owned[m] # "heard" /\ End(m, "expired")

Next ==
  \E m \in Messages :
    \/ Start(m)
    \/ Take(m, "heard") \/ Take(m, "unheard")
    \/ Confirm(m) \/ Bounce(m) \/ GiveUp(m) \/ Expire(m)

Spec == Init /\ [][Next]_vars

=============================================================================
