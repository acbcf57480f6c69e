------------------------------- MODULE Quota -------------------------------
(***************************************************************************)
(* The spool's size ceiling: quotaLedger of internal/spool/quota.go and    *)
(* the running totals it is judged against, Spool.indexBytes and           *)
(* failedStore.bytes.  The three totals live behind three locks that are   *)
(* never nested, so a commit judges itself against values that may have    *)
(* moved, and a message changes total in two steps.                        *)
(*                                                                         *)
(* The files themselves are in module Spool; a message here is its size    *)
(* and the total or totals it is counted in.                               *)
(***************************************************************************)
EXTENDS Integers, FiniteSets, FiniteSetsExt

CONSTANTS
  Messages,   \* slots for messages; a slot is reused once its message is gone
  Sizes,      \* sizes a staged body may have
  Header,     \* size of the Received header that Commit writes before a copy
  MaxBytes,   \* quotaLedger.maxBytes, 0 for no quota
  Sessions,   \* bound on commits under way at a time
  Movers,     \* bound on messages between the live and the failed total
  MaxRequeues \* bound on requeues in one behaviour

ASSUME QuotaAssumption ==
  /\ IsFiniteSet(Messages)
  /\ Sizes \subseteq Nat \ {0} /\ Sizes # {} /\ IsFiniteSet(Sizes)
  /\ Header \in Nat /\ MaxBytes \in Nat
  /\ Sessions \in Nat \ {0} /\ Movers \in Nat /\ MaxRequeues \in Nat

VARIABLES
  live,      \* Spool.indexBytes
  failed,    \* failedStore.bytes
  reserved,  \* quotaLedger.reserved
  phase,     \* where each message stands
  held,      \* the messages whose Commit has not released its reservation
  size,      \* the staged size of each message, Min(Sizes) in a free slot
  seen,      \* what its Commit has read of the totals so far
  requeues   \* history: requeues so far

vars == <<live, failed, reserved, phase, held, size, seen, requeues>>

\* read1, read2: liveAndFailedBytes has read the first / both totals.
\* admitted: reserved and not indexed.  failing: left the live total, not yet
\* in the failed one.  requeued: in the live total, not yet out of the other.
Phases == {"none", "read1", "read2", "admitted",
           "queued", "failing", "failed", "requeued"}

TypeOK ==
  /\ live \in Nat /\ failed \in Nat /\ reserved \in Nat
  /\ phase \in [Messages -> Phases]
  /\ held \subseteq Messages
  /\ size \in [Messages -> Sizes]
  /\ seen \in [Messages -> Nat]
  /\ requeues \in 0..MaxRequeues

Init ==
  /\ live = 0 /\ failed = 0 /\ reserved = 0
  /\ phase = [m \in Messages |-> "none"]
  /\ held = {}
  /\ size = [m \in Messages |-> Min(Sizes)]
  /\ seen = [m \in Messages |-> 0]
  /\ requeues = 0

In(S) == {m \in Messages : phase[m] \in S}
Stored(m) == size[m] + Header

Move(m, from, to) ==
  /\ phase[m] = from
  /\ phase' = [phase EXCEPT ![m] = to]

\* The message is gone; its slot is free once no reservation uses its size.
Gone(m, from) ==
  /\ Move(m, from, "none")
  /\ size' = [size EXCEPT ![m] = IF m \in held THEN @ ELSE Min(Sizes)]

-----------------------------------------------------------------------------
(* Commit: reserveQuota, the index, the deferred release.                  *)

\* liveAndFailedBytes under Spool.mu ...
ReadLive(m, s) ==
  /\ Cardinality(In({"read1", "read2"}) \cup held) < Sessions
  /\ m \notin held
  /\ Move(m, "none", "read1")
  /\ size' = [size EXCEPT ![m] = s]
  /\ seen' = [seen EXCEPT ![m] = live]
  /\ UNCHANGED <<live, failed, reserved, held, requeues>>

\* Mutant: the failed total is left out.
ReadFailed_Skipped(m) ==
  /\ Move(m, "read1", "read2")
  /\ UNCHANGED <<live, failed, reserved, held, size, seen, requeues>>

\* ... then under failedStore.mu.
ReadFailed(m) ==
  /\ Move(m, "read1", "read2")
  /\ seen' = [seen EXCEPT ![m] = @ + failed]
  /\ UNCHANGED <<live, failed, reserved, held, size, requeues>>

Fits(m) == MaxBytes = 0 \/ seen[m] + reserved + size[m] <= MaxBytes

Reserve(m) ==
  /\ Fits(m)
  /\ Move(m, "read2", "admitted")
  /\ reserved' = reserved + size[m]
  /\ held' = held \cup {m}
  /\ seen' = [seen EXCEPT ![m] = 0]
  /\ UNCHANGED <<live, failed, size, requeues>>

ErrQuotaExceeded(m) ==
  /\ ~Fits(m)
  /\ Gone(m, "read2")
  /\ seen' = [seen EXCEPT ![m] = 0]
  /\ UNCHANGED <<live, failed, reserved, held, requeues>>

\* Commit fails after its reservation: only the deferred release follows.
CommitError(m) ==
  /\ Gone(m, "admitted")
  /\ UNCHANGED <<live, failed, reserved, held, seen, requeues>>

\* The index counts the copy as written, header included.  A putLocked that
\* replaces an entry (Release, a requeue of a live message) replaces one of
\* the same size, and a drop of what is not there changes nothing: neither
\* moves a total.
Put(m) ==
  /\ Move(m, "admitted", "queued")
  /\ live' = live + Stored(m)
  /\ UNCHANGED <<failed, reserved, held, size, seen, requeues>>

\* Mutant: an error path returns without the release.
Release_OnSuccess(m) ==
  /\ m \in held /\ phase[m] # "admitted"
  /\ held' = held \ {m}
  /\ reserved' = IF phase[m] = "none" THEN reserved ELSE reserved - size[m]
  /\ size' = [size EXCEPT ![m] = IF phase[m] = "none" THEN Min(Sizes) ELSE @]
  /\ UNCHANGED <<live, failed, phase, seen, requeues>>

\* The deferred release: by now the message may have been delivered, failed
\* or discarded.
Release(m) ==
  /\ m \in held /\ phase[m] # "admitted"
  /\ held' = held \ {m}
  /\ reserved' = reserved - size[m]
  /\ size' = [size EXCEPT ![m] = IF phase[m] = "none" THEN Min(Sizes) ELSE @]
  /\ UNCHANGED <<live, failed, phase, seen, requeues>>

-----------------------------------------------------------------------------
(* What happens to a queued message: Remove or Discard, Fail, requeue.     *)

Remove(m) ==
  /\ Gone(m, "queued")
  /\ live' = live - Stored(m)
  /\ UNCHANGED <<failed, reserved, held, seen, requeues>>

FailDrop(m) ==
  /\ Cardinality(In({"failing"})) < Movers
  /\ Move(m, "queued", "failing")
  /\ live' = live - Stored(m)
  /\ UNCHANGED <<failed, reserved, held, size, seen, requeues>>

FailPut(m) ==
  /\ Move(m, "failing", "failed")
  /\ failed' = failed + Stored(m)
  /\ UNCHANGED <<live, reserved, held, size, seen, requeues>>

RequeuePut(m) ==
  /\ requeues < MaxRequeues /\ requeues' = requeues + 1
  /\ Move(m, "failed", "requeued")
  /\ live' = live + Stored(m)
  /\ UNCHANGED <<failed, reserved, held, size, seen>>

RequeueDrop(m) ==
  /\ Move(m, "requeued", "queued")
  /\ failed' = failed - Stored(m)
  /\ UNCHANGED <<live, reserved, held, size, seen, requeues>>

\* A sweep or a Discard takes a failed message.
SweepDrop(m) ==
  /\ Gone(m, "failed")
  /\ failed' = failed - Stored(m)
  /\ UNCHANGED <<live, reserved, held, seen, requeues>>

Next ==
  \E m \in Messages :
    \/ \E s \in Sizes : ReadLive(m, s)
    \/ ReadFailed(m) \/ Reserve(m) \/ ErrQuotaExceeded(m)
    \/ CommitError(m) \/ Put(m) \/ Release(m)
    \/ Remove(m) \/ FailDrop(m) \/ FailPut(m)
    \/ RequeuePut(m) \/ RequeueDrop(m) \/ SweepDrop(m)

Spec == Init /\ [][Next]_vars

-----------------------------------------------------------------------------
(* Properties.                                                             *)

InLive == In({"queued", "requeued"})
InFailed == In({"failed", "requeued"})

\* The bytes of the messages in S, each stored with h more than were staged.
Bytes(S, h) == UNION {{m} \X (1..(size[m] + h)) : m \in S}

\* The three running totals never drift from the messages they stand for,
\* though each is only ever added to and subtracted from: on every path
\* through Commit and its error returns, Fail, requeue and removal, and even
\* when a message is gone before its own Commit has released its reservation.
LedgerExact ==
  /\ live = Cardinality(Bytes(InLive, Header))
  /\ failed = Cardinality(Bytes(InFailed, Header))
  /\ reserved = Cardinality(Bytes(held, 0))

\* What the admitted messages occupy, whichever total counts them just now.
Occupied ==
  Cardinality(Bytes(InLive \cup InFailed \cup In({"failing"}), Header))
    + Cardinality(Bytes(In({"admitted"}), 0))

\* However commits and failures interleave, the spool exceeds its ceiling by
\* less than one message for every other commit and every failure under way,
\* and by one more for each requeue: only a requeue that falls between a
\* commit's two reads, and so is read on neither side, adds to the overshoot
\* that is already there.
OvershootBounded ==
  MaxBytes > 0 =>
    Occupied <= MaxBytes + Header
                  + (Sessions - 1 + Movers + requeues) * (Max(Sizes) + Header)

=============================================================================
