------------------------------- MODULE Watch -------------------------------
(***************************************************************************)
(* The expiry watcher of internal/expiry: mail to the operator before the  *)
(* certificate or a client secret lapses, batched over the items and at    *)
(* most once per item and resend interval.  It mails through the notifier  *)
(* of Notices, past the hourly budget, from a goroutine of its own; texts  *)
(* and the log are left out.                                               *)
(***************************************************************************)
EXTENDS Notices

CONSTANTS
  Items,       \* what has a deadline: the certificate, client secrets
  Deadline,    \* when each lapses
  WarnWindow,  \* expiry.warn_days: 0 switches the warnings off
  Resend,      \* resendInterval
  Contact      \* is there a global bounce.notify?

ASSUME WatchAssumption ==
  /\ Deadline \in [Items -> Int] /\ Contact \in BOOLEAN
  /\ WarnWindow \in Nat /\ Resend \in Nat \ {0}

VARIABLES
  due,       \* a check is due: the first one, or a tick of the hourly ticker
  lastSent,  \* Watcher.lastSent: the items it has a time for
  mailed,    \* history: when each item was last mailed about
  checked,   \* history: when the last check was made, -1 before the first
  refused    \* history: items the last check could not mail about

watchVars == <<due, lastSent, mailed, checked, refused>>

WatchInit ==
  /\ due = TRUE /\ lastSent = <<>>
  /\ mailed = <<>> /\ checked = -1 /\ refused = {}

\* Inside the window, or past the deadline.
collect(t) ==
  IF WarnWindow <= 0 THEN {}
  ELSE {it \in Items : Deadline[it] < t + WarnWindow}

\* The items of collect not mailed about recently.
dueItems ==
  {it \in collect(now) :
     ~(it \in DOMAIN lastSent /\ now - lastSent[it] < Resend)}

Stamp(f, S) ==
  [it \in S \cup DOMAIN f |-> IF it \in S THEN now ELSE f[it]]

\* Mutant: the items are marked before the mail is queued.
check_MarksFirst ==
  /\ due' = FALSE /\ checked' = now
  /\ lastSent' = Stamp(lastSent, dueItems)
  /\ \/ mailed' = Stamp(mailed, IF Contact THEN dueItems ELSE {})
        /\ refused' = {}
     \/ Contact /\ refused' = dueItems /\ UNCHANGED mailed

\* Without a contact the items are only logged; a notification the spool
\* refuses leaves its items unmarked, so that the next check tries again.
check ==
  /\ due' = FALSE /\ checked' = now
  /\ \/ /\ lastSent' = Stamp(lastSent, dueItems)
        /\ mailed' = Stamp(mailed, IF Contact THEN dueItems ELSE {})
        /\ refused' = {}
     \/ /\ Contact /\ dueItems # {}
        /\ refused' = dueItems
        /\ UNCHANGED <<lastSent, mailed>>

\* Run: once at the start and then once per tick; over at once when the
\* warnings are switched off.
WatchTick == due /\ WarnWindow > 0 /\ check

=============================================================================
