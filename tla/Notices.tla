------------------------------ MODULE Notices ------------------------------
(***************************************************************************)
(* The bounce notifier of internal/bounce: digests of failed messages,     *)
(* grouped by client or canary and spooled through internal/selfmail.      *)
(*                                                                         *)
(* Delivery workers call RecordFail while the notifier's goroutine is      *)
(* inside dispatch: it swaps the pending lists out under the mutex, works  *)
(* through them without it, and puts back what the hourly cap or a failed  *)
(* enqueue kept from going out.  A pending list is abstracted to its       *)
(* length, since a digest's total is what must stay true; one step is one  *)
(* critical section or one enqueue.  Texts are left out.  The clock counts *)
(* digest intervals, and the goroutines that run here are Service's.       *)
(***************************************************************************)
EXTENDS Integers, FiniteSets, FiniteSetsExt

CONSTANTS
  Origins,      \* clients and canaries failures are grouped by
  Notified,     \* the origins recipientsFor finds anybody for
  NoOrigin,     \* what at holds between two rounds of dispatch
  MaxPending,   \* maxPendingPerClient
  MaxPerHour,   \* bounce.max_per_hour
  Hour,         \* an hour, in clock ticks
  MaxFails,     \* bound on failures recorded
  MaxTime       \* bound on the clock

ASSUME NoticesAssumption ==
  /\ Notified \subseteq Origins /\ NoOrigin \notin Origins
  /\ MaxPending \in Nat \ {0} /\ MaxPerHour \in Nat
  /\ Hour \in Nat \ {0}

VARIABLES
  now,           \* the clock
  pending,       \* Notifier.pending, by length
  overflow,      \* Notifier.overflow
  hourStart,     \* Notifier.hourStart
  sentThisHour,  \* Notifier.sentThisHour
  tick,          \* a tick of the digest ticker is waiting
  hand, handOver,  \* dispatch's own copies of the two maps
  at, step,      \* the origin dispatch has reached, and where it is
  recorded,      \* history: failures recorded, per origin
  told,          \* history: failures a queued digest has counted
  window,        \* history: digests queued since hourStart
  held           \* history: origins the last dispatch put back

notifier == <<pending, overflow, hourStart, sentThisHour, tick, hand,
              handOver, at, step, recorded, told, window, held>>
noticesVars == <<now, notifier>>

NoticesInit ==
  /\ now = 0 /\ hourStart = 0 /\ sentThisHour = 0 /\ tick = FALSE
  /\ pending = [o \in Origins |-> 0] /\ overflow = [o \in Origins |-> 0]
  /\ hand = [o \in Origins |-> 0] /\ handOver = [o \in Origins |-> 0]
  /\ at = NoOrigin /\ step = "idle"
  /\ recorded = [o \in Origins |-> 0] /\ told = [o \in Origins |-> 0]
  /\ window = 0 /\ held = {}

-----------------------------------------------------------------------------
(* Recording and dispatching.                                              *)

\* Mutant: a failure past the cap is not counted.
RecordFail_Drops(o) ==
  /\ MapThenSumSet(LAMBDA c : recorded[c], Origins) < MaxFails
  /\ recorded' = [recorded EXCEPT ![o] = @ + 1]
  /\ pending' = [pending EXCEPT ![o] = IF @ < MaxPending THEN @ + 1 ELSE @]
  /\ UNCHANGED <<now, overflow, hourStart, sentThisHour, tick, hand,
                 handOver, at, step, told, window, held>>

\* The end of delivery.fail, for every kind but a notification.
RecordFail(o) ==
  /\ MapThenSumSet(LAMBDA c : recorded[c], Origins) < MaxFails
  /\ recorded' = [recorded EXCEPT ![o] = @ + 1]
  /\ IF pending[o] >= MaxPending
       THEN /\ overflow' = [overflow EXCEPT ![o] = @ + 1]
            /\ UNCHANGED pending
       ELSE /\ pending' = [pending EXCEPT ![o] = @ + 1]
            /\ UNCHANGED overflow
  /\ UNCHANGED <<now, hourStart, sentThisHour, tick, hand, handOver, at,
                 step, told, window, held>>

\* dispatch: the hour is rolled over and both maps are swapped out.
DispatchSwap ==
  /\ step = "idle"
  /\ IF now - hourStart >= Hour
       THEN hourStart' = now /\ sentThisHour' = 0 /\ window' = 0
       ELSE UNCHANGED <<hourStart, sentThisHour, window>>
  /\ hand' = pending /\ handOver' = overflow
  /\ pending' = [o \in Origins |-> 0] /\ overflow' = [o \in Origins |-> 0]
  /\ step' = "range" /\ tick' = FALSE /\ held' = {}
  /\ UNCHANGED <<now, at, recorded, told>>

\* Nobody to tell: this origin's failures are not kept for a later digest.
DispatchSkip(o) ==
  /\ step = "range" /\ hand[o] > 0 /\ o \notin Notified
  /\ hand' = [hand EXCEPT ![o] = 0]
  /\ handOver' = [handOver EXCEPT ![o] = 0]
  /\ UNCHANGED <<now, pending, overflow, hourStart, sentThisHour, tick, at,
                 step, recorded, told, window, held>>

\* The hourly budget is checked and charged in one critical section.
DispatchCharge(o) ==
  /\ step = "range" /\ hand[o] > 0 /\ o \in Notified
  /\ at' = o
  /\ IF sentThisHour >= MaxPerHour
       THEN step' = "putback" /\ UNCHANGED sentThisHour
       ELSE step' = "send" /\ sentThisHour' = sentThisHour + 1
  /\ UNCHANGED <<now, pending, overflow, hourStart, tick, hand, handOver,
                 recorded, told, window, held>>

\* send: the digest counts every failure and is spooled durably; its history
\* row may be refused without changing the result.
DispatchSend ==
  /\ step = "send"
  /\ \/ /\ told' = [told EXCEPT ![at] = @ + hand[at] + handOver[at]]
        /\ window' = window + 1
        /\ hand' = [hand EXCEPT ![at] = 0]
        /\ handOver' = [handOver EXCEPT ![at] = 0]
        /\ at' = NoOrigin /\ step' = "range"
     \/ step' = "refund" /\ UNCHANGED <<told, window, hand, handOver, at>>
  /\ UNCHANGED <<now, pending, overflow, hourStart, sentThisHour, tick,
                 recorded, held>>

\* Mutant: a digest that was never queued stays charged.
DispatchRefund_Keeps ==
  /\ step = "refund"
  /\ step' = "putback"
  /\ UNCHANGED <<now, pending, overflow, hourStart, sentThisHour, tick, hand,
                 handOver, at, recorded, told, window, held>>

DispatchRefund ==
  /\ step = "refund"
  /\ sentThisHour' = IF sentThisHour > 0 THEN sentThisHour - 1 ELSE 0
  /\ step' = "putback"
  /\ UNCHANGED <<now, pending, overflow, hourStart, tick, hand, handOver, at,
                 recorded, told, window, held>>

\* requeuePending: what fits beside the failures recorded meanwhile goes
\* back, the rest is counted.
DispatchPutBack ==
  /\ step = "putback"
  /\ LET room == Max({MaxPending - pending[at], 0})
         kept == Min({hand[at], room}) IN
     /\ pending' = [pending EXCEPT ![at] = @ + kept]
     /\ overflow' = [overflow EXCEPT ![at] =
                       @ + handOver[at] + (hand[at] - kept)]
  /\ hand' = [hand EXCEPT ![at] = 0]
  /\ handOver' = [handOver EXCEPT ![at] = 0]
  /\ held' = held \cup {at}
  /\ at' = NoOrigin /\ step' = "range"
  /\ UNCHANGED <<now, hourStart, sentThisHour, tick, recorded, told, window>>

DispatchEnd ==
  /\ step = "range" /\ \A o \in Origins : hand[o] = 0
  /\ step' = "idle"
  /\ UNCHANGED <<now, pending, overflow, hourStart, sentThisHour, tick, hand,
                 handOver, at, recorded, told, window, held>>

DispatchStep ==
  \/ \E o \in Origins : DispatchSkip(o) \/ DispatchCharge(o)
  \/ DispatchSend \/ DispatchRefund \/ DispatchPutBack \/ DispatchEnd

\* Run: one dispatch per tick of the digest ticker.
DispatchTick == tick /\ DispatchSwap

-----------------------------------------------------------------------------
\* Time passes; a ticker holds one tick at most.
Tick ==
  /\ now < MaxTime
  /\ now' = now + 1
  /\ tick' = TRUE
  /\ UNCHANGED <<pending, overflow, hourStart, sentThisHour, hand, handOver,
                 at, step, recorded, told, window, held>>

=============================================================================
