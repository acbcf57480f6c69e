------------------------------ MODULE History ------------------------------
(***************************************************************************)
(* The history store of internal/store and the actors that write to it:    *)
(* the listener (journalAccepted), the delivery workers (record and fail), *)
(* the operators' queue actions (internal/queueaction) and retention.      *)
(*                                                                         *)
(* The store is a journal beside the spool: each actor changes the spool   *)
(* and the store in two separate steps, in an order the code chose so that *)
(* the journal can be believed.  This module keeps that order, every write *)
(* that can be refused and a crash between any two steps.  One transaction *)
(* is one step.  Spool has the file operations in detail; here a message's *)
(* pair of files is in one place, or "half" with one file in each of the   *)
(* directories, or a lone file is left, in failed ("stub") or in queue     *)
(* ("stray").                                                              *)
(* Times, addresses and texts are left out: which row is past retention,   *)
(* and which message is due, is open.                                      *)
(***************************************************************************)
EXTENDS Integers, Sequences, FiniteSets

CONSTANTS
  Ids,        \* queue ids
  NoId,       \* what cur holds while an actor is idle
  Workers,    \* delivery workers
  Operators,  \* callers of queueaction.Actor: dashboard and API
  NoRow,      \* a message with no row in the messages table
  MaxRows,    \* bound on attempt rows of one message
  MaxFaults   \* bound on writes and file operations that fail

Procs == Ids \cup Workers \cup Operators   \* an id: the session accepting it

Classes == {"delivered", "temporary", "permanent", "expired",
            "removed", "requeued"}
NoClass == "none"   \* last_class IS NULL

\* A message row: the summary columns, the rest is left out.
Rows == [class : Classes \cup {NoClass}, count : Nat, first : BOOLEAN,
         bounced : BOOLEAN]

ASSUME HistoryAssumption ==
  /\ NoId \notin Ids /\ NoRow \notin Rows
  /\ Ids \cap Workers = {} /\ Ids \cap Operators = {}
  /\ Workers \cap Operators = {}
  /\ MaxRows \in Nat /\ MaxFaults \in Nat

VARIABLES
  disk,     \* where each message's files are
  index,    \* Spool.index
  leased,   \* Spool.leased
  row,      \* the messages table
  log,      \* the attempts table: the classes of each message, in order
  audit,    \* the audit table
  up,       \* is the process running?
  pc, cur,  \* where each actor is, and the message it works on
  blur,     \* history: messages whose last write was refused or cut off
  taken,    \* history: messages a smarthost has taken since the last start
  faults    \* writes and file operations that have failed so far

spool == <<disk, index, leased>>
tables == <<row, log, audit>>
vars == <<disk, index, leased, row, log, audit, up, pc, cur, blur, taken,
          faults>>

-----------------------------------------------------------------------------
(* The tables and how they are read.                                       *)

classStatus ==
  [c \in Classes |-> CASE c = "delivered" -> "delivered"
                       [] c = "temporary" -> "deferred"
                       [] c \in {"permanent", "expired"} -> "bounced"
                       [] c = "removed" -> "removed"
                       [] c = "requeued" -> "queued"]

statusClasses(s) == {c \in Classes : classStatus[c] = s}

classToStatus(c) == IF c = NoClass THEN "queued" ELSE classStatus[c]

\* The WHERE clause of FindMessages for a status filter.
StatusFilter(r, s) ==
  CASE s = "" -> TRUE
    [] s = "queued" -> r.class \in {NoClass, "requeued"}
    [] s = "active" -> r.class \in {NoClass, "requeued", "temporary"}
    [] OTHER -> r.class \in statusClasses(s)

\* The rows FindBounces and FindBounceSummaries select, with or without a
\* class filter.
BounceFilter(r, c) == r.bounced /\ (c = "" \/ r.class = c)

Active(r) == classToStatus(r.class) \in {"queued", "deferred"}
ActiveRow(r) == IF r = NoRow THEN FALSE ELSE Active(r)

\* The message row with its summary, or nothing; the attempts it lists as
\* well are log[id].
FindMessageByID(id) == row[id]

NewRow == [class |-> NoClass, count |-> 0, first |-> FALSE,
           bounced |-> FALSE]

-----------------------------------------------------------------------------
Init ==
  /\ disk = [id \in Ids |-> "none"] /\ index = {} /\ leased = {}
  /\ row = [id \in Ids |-> NoRow]
  /\ log = [id \in Ids |-> <<>>]
  /\ audit = {}
  /\ up = TRUE
  /\ pc = [p \in Procs |-> IF p \in Ids THEN "new" ELSE "idle"]
  /\ cur = [p \in Procs |-> NoId]
  /\ blur = {} /\ taken = {} /\ faults = 0

Begin(p, id, to) ==
  /\ up /\ pc[p] = "idle"
  /\ pc' = [pc EXCEPT ![p] = to]
  /\ cur' = [cur EXCEPT ![p] = id]
  /\ UNCHANGED <<up, taken>>

Step(p, from, to) ==
  /\ up /\ pc[p] = from
  /\ pc' = [pc EXCEPT ![p] = to]
  /\ UNCHANGED <<up, cur, taken>>

End(p, from) ==
  /\ up /\ pc[p] = from
  /\ pc' = [pc EXCEPT ![p] = "idle"]
  /\ cur' = [cur EXCEPT ![p] = NoId]
  /\ UNCHANGED <<up, taken>>

Fault == faults < MaxFaults /\ faults' = faults + 1

Busy(id) == {p \in Procs : cur[p] = id}

\* Bound: no operation starts that could write more than MaxRows rows.
Room(id) == Len(log[id]) + Cardinality(Busy(id)) < MaxRows

-----------------------------------------------------------------------------
(* The writes.  Each is one transaction: applied whole, or refused.        *)

\* Mutant: a requeue is counted as an attempt.
RecordRequeueRow_Counts(r) ==
  [r EXCEPT !.class = "requeued", !.count = @ + 1]

RecordRequeueRow(r) == [r EXCEPT !.class = "requeued"]

RecordAttemptRow(r, c) ==
  [class |-> c, count |-> r.count + 1, first |-> TRUE,
   bounced |-> r.bounced \/ classStatus[c] = "bounced"]

\* One attempt row and the summary of the message it belongs to.  A message
\* without a row refuses the insert (the foreign key), a failing database
\* refuses it for its own reasons.
Write(id, c) ==
  /\ row[id] # NoRow
  /\ log' = [log EXCEPT ![id] = Append(@, c)]
  /\ row' = [row EXCEPT ![id] = IF c = "requeued" THEN RecordRequeueRow(@)
                                                 ELSE RecordAttemptRow(@, c)]
  /\ blur' = blur \ {id}
  /\ UNCHANGED faults

Refused(id) ==
  /\ IF row[id] = NoRow THEN UNCHANGED faults ELSE Fault
  /\ blur' = blur \cup {id}
  /\ UNCHANGED <<row, log>>

\* The insert names no summary column: they take their defaults.
RecordMessage(id) ==
  \/ row' = [row EXCEPT ![id] = NewRow] /\ UNCHANGED faults
  \/ Fault /\ UNCHANGED row

RecordAttempt(id, c) == Write(id, c) \/ Refused(id)
RecordRemoval(id) == RecordAttempt(id, "removed")
RecordRequeue(id) == Write(id, "requeued") \/ Refused(id)

\* The audit row of an action: no foreign key, and an error is only logged.
RecordAudit(id, action) ==
  \/ audit' = audit \cup {<<id, action>>} /\ UNCHANGED faults
  \/ Fault /\ UNCHANGED audit

-----------------------------------------------------------------------------
(* The listener: Commit makes the message visible to the dispatcher; its   *)
(* history row follows.                                                    *)

Commit(id) ==
  /\ up /\ pc[id] = "new"
  /\ pc' = [pc EXCEPT ![id] = "a_journal"]
  /\ cur' = [cur EXCEPT ![id] = id]
  /\ disk' = [disk EXCEPT ![id] = "queue"]
  /\ index' = index \cup {id}
  /\ UNCHANGED <<leased, tables, up, blur, taken, faults>>

\* A refused row is logged and counted; the message stays accepted.
JournalAccepted(id) ==
  /\ End(id, "a_journal")
  /\ RecordMessage(id)
  /\ UNCHANGED <<spool, log, audit, blur>>

-----------------------------------------------------------------------------
(* A worker: the attempt, its journal row, and only then the spool.        *)

Claim(w, id) ==
  /\ id \in index \ leased /\ Room(id)
  /\ Begin(w, id, "w_try")
  /\ leased' = leased \cup {id}
  /\ UNCHANGED <<disk, index, tables, blur, faults>>

Attempt(w, class) ==
  /\ up /\ pc[w] = "w_try"
  /\ pc' = [pc EXCEPT ![w] = CASE class = "delivered" -> "w_delivered"
                               [] class = "temporary" -> "w_temporary"
                               [] class = "permanent" -> "w_permanent"
                               [] class = "expired" -> "w_expired"]
  /\ taken' = IF class = "delivered" THEN taken \cup {cur[w]} ELSE taken
  /\ UNCHANGED <<spool, tables, up, cur, blur, faults>>

\* A scheduling hold or a cancelled attempt: nothing is recorded.
Hold(w) ==
  /\ End(w, "w_try")
  /\ leased' = leased \ {cur[w]}
  /\ UNCHANGED <<disk, index, tables, blur, faults>>

JournalDelivered(w) ==
  /\ Step(w, "w_delivered", "w_remove")
  /\ RecordAttempt(cur[w], "delivered")
  /\ UNCHANGED <<spool, audit>>

JournalTemporary(w) ==
  /\ Step(w, "w_temporary", "w_release")
  /\ RecordAttempt(cur[w], "temporary")
  /\ UNCHANGED <<spool, audit>>

JournalFailed(w) ==
  /\ \/ /\ Step(w, "w_permanent", "w_fail")
        /\ RecordAttempt(cur[w], "permanent")
     \/ /\ Step(w, "w_expired", "w_fail")
        /\ RecordAttempt(cur[w], "expired")
  /\ UNCHANGED <<spool, audit>>

Release(w) ==
  /\ End(w, "w_release")
  /\ index' = index \cup {cur[w]}
  /\ leased' = leased \ {cur[w]}
  /\ UNCHANGED <<disk, tables, blur, faults>>

\* Remove and Fail drop index entry and lease before they touch the files.
Drop(w) ==
  /\ \/ Step(w, "w_remove", "w_unlink")
     \/ Step(w, "w_fail", "w_half")
  /\ index' = index \ {cur[w]}
  /\ leased' = leased \ {cur[w]}
  /\ UNCHANGED <<disk, tables, blur, faults>>

RemoveUnlink(w) ==
  /\ End(w, "w_unlink")
  /\ \/ disk' = [disk EXCEPT ![cur[w]] = "none"] /\ UNCHANGED <<faults, blur>>
     \/ /\ disk[cur[w]] # "none" /\ Fault
        /\ blur' = blur \cup {cur[w]} /\ UNCHANGED disk
  /\ UNCHANGED <<index, leased, tables>>

\* A rename of Fail that fails is only reported when both were tried.
Unmoved(id) ==
  /\ disk[id] # "none" /\ Fault
  /\ blur' = blur \cup {id} /\ UNCHANGED disk

\* Fail's first rename, of the metadata.
FailHalf(w) ==
  /\ Step(w, "w_half", "w_move")
  /\ \/ /\ disk' = [disk EXCEPT ![cur[w]] =
                      IF @ = "queue" THEN "half" ELSE @]
        /\ UNCHANGED <<faults, blur>>
     \/ Unmoved(cur[w])
  /\ UNCHANGED <<index, leased, tables>>

\* Fail's second rename, of the body, whatever became of the first.
FailMove(w) ==
  /\ End(w, "w_move")
  /\ \/ /\ disk' = [disk EXCEPT ![cur[w]] = CASE @ = "half" -> "failed"
                                             [] @ = "queue" -> "half"
                                             [] OTHER -> @]
        /\ UNCHANGED <<faults, blur>>
     \/ Unmoved(cur[w])
  /\ UNCHANGED <<index, leased, tables>>

-----------------------------------------------------------------------------
(* queueaction.Actor.  An operator names a message it saw in a listing.    *)

\* tryLease; a leased message answers Busy and nothing happens.
TryLease(o, id, to) ==
  /\ row[id] # NoRow /\ Room(id)
  /\ id \notin leased
  /\ Begin(o, id, to)
  /\ leased' = leased \cup {id}
  /\ UNCHANGED <<disk, index, tables, blur, faults>>

Requeue(o, id) == TryLease(o, id, "q_move")

\* The ways requeueLive and requeueFailed go wrong: there is no pair in
\* failed; a write or a rename fails and leaves the message as it was; or
\* one fails late, with both files in the queue directory, or with the body
\* there that could not be put back.
RequeueError(id) ==
  \/ id \notin index /\ disk[id] # "failed" /\ UNCHANGED <<disk, faults, blur>>
  \/ (id \in index \/ disk[id] = "failed") /\ Fault /\ UNCHANGED <<disk, blur>>
  \/ /\ id \notin index /\ disk[id] = "failed" /\ Fault
     /\ \E to \in {"queue", "half"} : disk' = [disk EXCEPT ![id] = to]
     /\ blur' = blur \cup {id}

\* requeueLive or requeueFailed.  Missing, and Failed, end here.
RequeueMove(o) ==
  LET id == cur[o] IN
  /\ \/ /\ Step(o, "q_move", "q_hook")
        /\ id \in index
        /\ UNCHANGED <<spool, faults, blur>>
     \/ /\ Step(o, "q_move", "q_hook")
        /\ id \notin index /\ disk[id] = "failed"
        /\ disk' = [disk EXCEPT ![id] = "queue"]
        /\ index' = index \cup {id}
        /\ UNCHANGED <<leased, faults, blur>>
     \/ /\ End(o, "q_move") /\ RequeueError(id)
        /\ leased' = leased \ {id}
        /\ UNCHANGED index
  /\ UNCHANGED tables

\* Mutant: the lease is given back before the requeue is journaled.
RequeueHook_AfterLease(o) ==
  \/ /\ o \in Operators /\ cur[o] \in leased
     /\ pc[o] = "q_hook" /\ leased' = leased \ {cur[o]}
     /\ UNCHANGED <<disk, index, tables, up, pc, cur, blur, taken, faults>>
  \/ /\ cur[o] \notin leased
     /\ Step(o, "q_hook", "q_audit")
     /\ RecordRequeue(cur[o])
     /\ UNCHANGED <<spool, audit>>

\* The committed hook runs inside spool.Requeue, before the lease is given
\* back.
RequeueHook(o) ==
  /\ Step(o, "q_hook", "q_free")
  /\ RecordRequeue(cur[o])
  /\ UNCHANGED <<spool, audit>>

RequeueFree(o) ==
  /\ Step(o, "q_free", "q_audit")
  /\ leased' = leased \ {cur[o]}
  /\ UNCHANGED <<disk, index, tables, blur, faults>>

RequeueDone(o) ==
  /\ End(o, "q_audit")
  /\ RecordAudit(cur[o], "requeue")
  /\ UNCHANGED <<spool, row, log, blur>>

Delete(o, id) == TryLease(o, id, "d_unlink")

\* Discard under its lease, which is back when it returns: something was
\* unlinked, nothing was there, an unlink failed, or a directory sync after
\* the unlinks (outcome Failed for the last two).
DeleteDiscard(o) ==
  LET id == cur[o] IN
  /\ \/ /\ Step(o, "d_unlink", "d_removal")
        /\ disk[id] # "none"
        /\ disk' = [disk EXCEPT ![id] = "none"]
        /\ index' = index \ {id}
        /\ UNCHANGED <<faults, blur>>
     \/ /\ Step(o, "d_unlink", "d_find")
        /\ disk[id] = "none"
        /\ index' = index \ {id}
        /\ UNCHANGED <<disk, faults, blur>>
     \/ /\ End(o, "d_unlink")
        /\ disk[id] # "none" /\ Fault
        /\ \/ UNCHANGED <<disk, index, blur>>
           \/ /\ disk' = [disk EXCEPT ![id] = "none"]
              /\ index' = index \ {id}
              /\ blur' = blur \cup {id}
  /\ leased' = leased \ {id}
  /\ UNCHANGED tables

DeleteRemoval(o) ==
  /\ Step(o, "d_removal", "d_audit")
  /\ RecordRemoval(cur[o])
  /\ UNCHANGED <<spool, audit>>

\* Mutant: any row that is found is reconciled, a settled one too.
DeleteFind_Settled(o) ==
  /\ \/ /\ Step(o, "d_find", "d_reconcile")
        /\ FindMessageByID(cur[o]) # NoRow
     \/ /\ End(o, "d_find")
        /\ FindMessageByID(cur[o]) = NoRow
  /\ UNCHANGED <<spool, tables, blur, faults>>

\* ReconcileRemoved's read.  No row, or a settled one, is outcome Missing.
DeleteFind(o) ==
  /\ \/ /\ Step(o, "d_find", "d_reconcile")
        /\ ActiveRow(FindMessageByID(cur[o]))
     \/ /\ End(o, "d_find")
        /\ ~ActiveRow(FindMessageByID(cur[o]))
  /\ UNCHANGED <<spool, tables, blur, faults>>

\* ReconcileRemoved's write: outcome Cleared, or Failed if it is refused.
DeleteReconcile(o) ==
  /\ \/ Step(o, "d_reconcile", "d_audit") /\ Write(cur[o], "removed")
     \/ End(o, "d_reconcile") /\ Refused(cur[o])
  /\ UNCHANGED <<spool, audit>>

DeleteDone(o) ==
  /\ End(o, "d_audit")
  /\ RecordAudit(cur[o], "delete")
  /\ UNCHANGED <<spool, row, log, blur>>

-----------------------------------------------------------------------------
(* Retention, the failed-mail sweep, crash and recovery.                   *)

\* retentionCleanup: one chunk of old rows goes, its attempts with it
\* (ON DELETE CASCADE).  Audit rows stay.
RetentionCleanup ==
  /\ up
  /\ \E old \in SUBSET {id \in Ids : row[id] # NoRow} :
       /\ old # {}
       /\ row' = [id \in Ids |-> IF id \in old THEN NoRow ELSE row[id]]
       /\ log' = [id \in Ids |-> IF id \in old THEN <<>> ELSE log[id]]
  /\ UNCHANGED <<spool, audit, up, pc, cur, blur, taken, faults>>

\* SweepFailed takes no lease and writes no row.  It knows of a message once
\* Fail is done with it.
SweepFailed(id) ==
  /\ up /\ disk[id] \in {"failed", "stub", "half"}
  /\ \A w \in Workers : ~(cur[w] = id /\ pc[w] = "w_move")
  /\ disk' = [disk EXCEPT ![id] = IF @ = "half" THEN "stray" ELSE "none"]
  /\ UNCHANGED <<index, leased, tables, up, pc, cur, blur, taken, faults>>

\* A crash blurs the messages somebody had journaled or was working on.
Crash ==
  /\ up /\ up' = FALSE
  /\ index' = {} /\ leased' = {}
  /\ pc' = [p \in Procs |-> IF p \in Ids /\ pc[p] = "new" THEN "new"
                                                          ELSE "idle"]
  /\ cur' = [p \in Procs |-> NoId]
  /\ blur' = blur \cup {id \in Ids : Busy(id) # {}}
  /\ taken' = {}
  /\ UNCHANGED <<disk, tables, faults>>

\* recover drops what is not a pair in the queue directory, and indexes what
\* is.
Recover ==
  /\ ~up /\ up' = TRUE
  /\ disk' = [id \in Ids |-> CASE disk[id] = "half" -> "stub"
                               [] disk[id] = "stray" -> "none"
                               [] OTHER -> disk[id]]
  /\ index' = {id \in Ids : disk[id] = "queue"}
  /\ UNCHANGED <<leased, tables, pc, cur, blur, taken, faults>>

-----------------------------------------------------------------------------
WorkerNext(w) ==
  \/ \E id \in Ids : Claim(w, id)
  \/ \E c \in {"delivered", "temporary", "permanent", "expired"} :
       Attempt(w, c)
  \/ Hold(w)
  \/ JournalDelivered(w) \/ JournalTemporary(w) \/ JournalFailed(w)
  \/ Release(w) \/ Drop(w) \/ RemoveUnlink(w) \/ FailHalf(w) \/ FailMove(w)

OperatorNext(o) ==
  \/ \E id \in Ids : Requeue(o, id) \/ Delete(o, id)
  \/ RequeueMove(o) \/ RequeueHook(o) \/ RequeueFree(o) \/ RequeueDone(o)
  \/ DeleteDiscard(o) \/ DeleteRemoval(o) \/ DeleteFind(o)
  \/ DeleteReconcile(o) \/ DeleteDone(o)

Next ==
  \/ \E id \in Ids : Commit(id) \/ JournalAccepted(id) \/ SweepFailed(id)
  \/ \E w \in Workers : WorkerNext(w)
  \/ \E o \in Operators : OperatorNext(o)
  \/ RetentionCleanup \/ Crash \/ Recover

Spec == Init /\ [][Next]_vars

-----------------------------------------------------------------------------
(* Properties.                                                             *)

Count(s, S) == Cardinality({i \in DOMAIN s : s[i] \in S})
Statuses == {"queued", "deferred", "delivered", "bounced", "removed"}

\* The summary on the message row is what the attempts table says, whichever
\* actors wrote it and whatever retention removed in between: latest class,
\* attempts without the requeues, whether it ever bounced; every listing
\* selects by that summary exactly the rows it displays under that status;
\* and a row in the bounce listing has the columns its scan needs.
SummaryAgrees ==
  \A id \in Ids :
    IF row[id] = NoRow THEN log[id] = <<>>
    ELSE LET r == row[id]  n == Len(log[id]) IN
         /\ r.class = IF n = 0 THEN NoClass ELSE log[id][n]
         /\ r.count = Count(log[id], Classes \ {"requeued"})
         /\ r.bounced = (Count(log[id], {"permanent", "expired"}) > 0)
         /\ \A s \in Statuses :
              StatusFilter(r, s) <=> classToStatus(r.class) = s
         /\ StatusFilter(r, "active") <=> Active(r)
         /\ \A c \in {"", "permanent", "expired"} :
              BounceFilter(r, c) => r.first

AtRest(id) == up /\ Busy(id) = {} /\ id \notin blur

\* The queue view tells the truth: once nobody is working on a message, its
\* row says queued or deferred if and only if the live queue holds it.  What
\* a refused write or a crash spoils is put right by the next recorded
\* attempt.
ActiveIsLive ==
  \A id \in Ids :
    AtRest(id) /\ row[id] # NoRow => (Active(row[id]) <=> id \in index)

\* A Delete that ran to an answer other than Busy and Failed leaves no active
\* row and no live message behind: no entry that nothing can clear.  And the
\* two ways in which it records a message as removed that the smarthost has
\* taken, although Delete's comment says there is none: it finds the files
\* while a worker's Remove is about to unlink them; or it finds none and an
\* active row, because the row of the delivery was refused, by the foreign
\* key when the worker was faster than journalAccepted.  (An earlier unlink
\* or write on the message that failed, blur, has the effect of either.)
DeleteClears ==
  [][\A o \in Operators :
       /\ pc[o] \in {"d_find", "d_audit"} /\ pc'[o] = "idle" /\ up'
            /\ cur[o] \notin blur' =>
          cur[o] \notin index' /\ ~ActiveRow(row'[cur[o]])
       /\ pc[o] = "d_unlink" /\ pc'[o] = "d_removal" /\ cur[o] \in taken =>
          \/ cur[o] \in blur
          \/ \E w \in Workers : cur[w] = cur[o] /\ pc[w] = "w_unlink"
       /\ pc[o] = "d_reconcile" /\ pc'[o] = "d_audit" /\ cur[o] \in taken =>
          cur[o] \in blur \/ row[cur[o]].class = "removed"]_vars

=============================================================================
