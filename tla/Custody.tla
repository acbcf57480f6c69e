------------------------------ MODULE Custody ------------------------------
(***************************************************************************)
(* What the spool promises of each message it is given, as long as the     *)
(* file system does what it is told.                                       *)
(*                                                                         *)
(* A message has a place, one at a time and as a whole: it is in the queue *)
(* or among the failed, or being moved between them.  An accepted message  *)
(* leaves its place only into the smarthost's hands, by an operator's      *)
(* discard or by retention.  A crash costs only what it catches being      *)
(* moved; it may also leave a delivered message in the queue, to be sent   *)
(* again.  Nothing that is over has a place.                               *)
(***************************************************************************)
CONSTANT Messages

VARIABLES
  fate,      \* what has become of each message
  place,     \* where it is
  up,        \* is the process running?
  troubled   \* has a file operation failed?

vars == <<fate, place, up, troubled>>

Fates == {"new", "open", "accepted", "refused", "delivered", "done",
          "doomed", "discarded", "swept", "lost"}
Places == {"none", "queue", "failed", "moving"}

Init ==
  /\ fate = [m \in Messages |-> "new"]
  /\ place = [m \in Messages |-> "none"]
  /\ up = TRUE /\ troubled = FALSE

To(m, f, p) ==
  /\ up
  /\ fate' = [fate EXCEPT ![m] = f]
  /\ place' = [place EXCEPT ![m] = p]
  /\ UNCHANGED <<up, troubled>>

\* A message is refused at once, or taken in: stored, then accepted.
Refuse(m) == fate[m] = "new" /\ To(m, "refused", "none")
Offer(m) == fate[m] = "new" /\ To(m, "open", "none")
Store(m) == fate[m] = "open" /\ place[m] = "none" /\ To(m, "open", "queue")
Accept(m) ==
  fate[m] = "open" /\ place[m] = "queue" /\ To(m, "accepted", "queue")

\* A message that retention had begun to erase when an operator put it back
\* may be sent too, and one that was sent before a crash a second time.
Owed == {"accepted", "swept", "delivered"}

Send(m) ==
  fate[m] \in Owed /\ place[m] = "queue" /\ To(m, "delivered", "queue")

\* Delivered: it leaves the queue, and then it is over.
Remove(m) ==
  fate[m] = "delivered" /\ place[m] = "queue" /\ To(m, "delivered", "none")
Finish(m) ==
  fate[m] = "delivered" /\ place[m] = "none" /\ To(m, "done", "none")

\* The two halves of a move.
Lift(m) ==
  /\ fate[m] \in Owed
  /\ place[m] \in {"queue", "failed"} \/ fate[m] # "accepted"
  /\ To(m, fate[m], "moving")
Settle(m, p) ==
  /\ fate[m] \in Owed /\ place[m] = "moving"
  /\ p \in {"queue", "failed"} \/ fate[m] # "accepted"
  /\ To(m, fate[m], p)

\* An operator's discard.
Erase(m) ==
  /\ fate[m] \in Owed /\ place[m] # "none"
  /\ To(m, IF fate[m] = "accepted" THEN "doomed" ELSE fate[m], "none")
Erased(m) == fate[m] = "doomed" /\ To(m, "discarded", "none")

\* Retention takes a failed message, or the failed half of a moving one.
Expire(m) ==
  /\ fate[m] \in Owed
  /\ \/ place[m] = "failed"
          /\ To(m, IF fate[m] = "accepted" THEN "swept" ELSE fate[m], "none")
     \/ place[m] = "moving" /\ fate[m] = "accepted"
          /\ To(m, "swept", "moving")

Crash ==
  /\ up /\ up' = FALSE
  /\ place' = [m \in Messages |->
                 IF place[m] = "moving" THEN "none" ELSE place[m]]
  /\ UNCHANGED <<fate, troubled>>

Restart ==
  /\ ~up /\ up' = TRUE
  /\ fate' = [m \in Messages |->
       CASE fate[m] = "open" ->
              IF place[m] = "queue" THEN "accepted" ELSE "refused"
         [] fate[m] = "accepted" /\ place[m] = "none" -> "lost"
         [] OTHER -> fate[m]]
  /\ UNCHANGED <<place, troubled>>

\* Of a file system that fails nothing is promised here.
Trouble ==
  /\ troubled' = TRUE
  /\ fate' \in [Messages -> Fates]
  /\ place' \in [Messages -> Places]
  /\ up' \in BOOLEAN

Next ==
  \/ \E m \in Messages :
       \/ Refuse(m) \/ Offer(m) \/ Store(m) \/ Accept(m)
       \/ Send(m) \/ Remove(m) \/ Finish(m)
       \/ Lift(m) \/ \E p \in Places : Settle(m, p)
       \/ Erase(m) \/ Erased(m) \/ Expire(m)
  \/ Crash \/ Restart
  \/ Trouble

Spec == Init /\ [][Next]_vars

=============================================================================
