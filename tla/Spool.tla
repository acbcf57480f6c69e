------------------------------- MODULE Spool -------------------------------
(***************************************************************************)
(* The durable message queue of internal/spool.                            *)
(*                                                                         *)
(* A message is a pair of files, a body and its metadata, in the queue     *)
(* directory while it is live and in spool/failed once it has failed for   *)
(* good.  Memory mirrors the two directories (index and failed) and holds  *)
(* the leases that keep the actors apart.  SMTP sessions commit messages,  *)
(* delivery workers claim them and remove, release or fail them, operators *)
(* requeue and discard them, and the housekeeper sweeps expired failures.  *)
(*                                                                         *)
(* One step of this model is one file operation or one critical section,   *)
(* because everything between two of those may be interleaved with other   *)
(* actors or cut short by a crash.  Payloads, sizes and times are left     *)
(* out: when a deferred message is due, or a failed one expired, is open.  *)
(***************************************************************************)
EXTENDS Naturals, FiniteSets

CONSTANTS
  Ids,          \* queue ids; each one is used by one Commit at most
  NoId,         \* what cur holds while an actor is idle
  Committers,   \* sessions and self-generated mail inside Commit
  Workers,      \* holders of a claimed message (dispatcher and its workers)
  Operators,    \* callers of Requeue and Discard (web, API, withdraw)
  Sweepers,     \* one per expired id of a retention sweep under way
  MaxFaults     \* bound on file operations that fail in one behaviour

Procs == Committers \cup Workers \cup Operators \cup Sweepers

ASSUME NoIdAssumption == NoId \notin Ids
ASSUME IdsAssumption == IsFiniteSet(Ids)
ASSUME FaultAssumption == MaxFaults \in Nat

VARIABLES
  qBody, qMeta,  \* ids with a body / metadata file in the queue directory
  fBody, fMeta,  \* ids with a body / metadata file in spool/failed
  index,         \* Spool.index: the live queue in memory
  leased,        \* Spool.leased
  failed,        \* failedStore.index
  up,            \* is the process running, with recovery done?
  pc, cur,       \* where each actor is, and the message it works on
  hit, bad,      \* actors whose removal unlinked a file / met a real error
  fate,          \* history: what has become of each message
  faults         \* file operations that have failed so far

files == <<qBody, qMeta, fBody, fMeta>>
memory == <<index, leased, failed>>
flags == <<hit, bad>>
vars == <<qBody, qMeta, fBody, fMeta, index, leased, failed,
          up, pc, cur, hit, bad, fate, faults>>

\* "open": inside Commit.  "doomed": an operator's Discard has unlinked some
\* of its files.  "done": delivered, and Remove has returned.  "lost": a
\* recovery found no complete pair of an accepted message.
Fates == {"new", "open", "accepted", "refused", "delivered", "done",
          "doomed", "discarded", "swept", "lost"}

CommitPCs == {"c_meta", "c_undo", "c_sync", "c_rmbody", "c_rmmeta", "c_put"}
WorkerPCs == {"w_held", "w_put", "w_sent", "r_body", "r_meta",
              "f_drop", "f_meta", "f_body", "f_put"}
RequeuePCs == {"q_read", "q_live", "q_put", "q_find", "q_body", "q_meta",
               "q_back", "q_fmeta", "q_sync", "q_fput", "q_fdrop", "q_free"}
DiscardPCs == {"d_qbody", "d_qmeta", "d_fbody", "d_fmeta",
               "d_check", "d_fdrop", "d_free"}
SweepPCs == {"s_meta", "s_body", "s_drop"}
PCs == {"idle"} \cup CommitPCs \cup WorkerPCs \cup RequeuePCs
         \cup DiscardPCs \cup SweepPCs

TypeOK ==
  /\ qBody \subseteq Ids /\ qMeta \subseteq Ids
  /\ fBody \subseteq Ids /\ fMeta \subseteq Ids
  /\ index \subseteq Ids /\ leased \subseteq Ids /\ failed \subseteq Ids
  /\ up \in BOOLEAN
  /\ pc \in [Procs -> PCs]
  /\ cur \in [Procs -> Ids \cup {NoId}]
  /\ hit \subseteq Procs /\ bad \subseteq Procs
  /\ fate \in [Ids -> Fates]
  /\ faults \in Nat

Init ==
  /\ qBody = {} /\ qMeta = {} /\ fBody = {} /\ fMeta = {}
  /\ index = {} /\ leased = {} /\ failed = {}
  /\ up = TRUE
  /\ pc = [p \in Procs |-> "idle"]
  /\ cur = [p \in Procs |-> NoId]
  /\ hit = {} /\ bad = {}
  /\ fate = [id \in Ids |-> "new"]
  /\ faults = 0

\* The messages both of whose files are in the one directory.
QueuePair == qBody \cap qMeta
FailedPair == fBody \cap fMeta

-----------------------------------------------------------------------------
(* Control.                                                                *)

Begin(p, id, to) ==
  /\ up /\ pc[p] = "idle"
  /\ pc' = [pc EXCEPT ![p] = to]
  /\ cur' = [cur EXCEPT ![p] = id]
  /\ UNCHANGED up

Step(p, from, to) ==
  /\ up /\ pc[p] = from
  /\ pc' = [pc EXCEPT ![p] = to]
  /\ UNCHANGED <<up, cur>>

End(p, from) ==
  /\ up /\ pc[p] = from
  /\ pc' = [pc EXCEPT ![p] = "idle"]
  /\ cur' = [cur EXCEPT ![p] = NoId]
  /\ UNCHANGED up

Ok == UNCHANGED faults
Fault == faults < MaxFaults /\ faults' = faults + 1

Becomes(id, f) == fate' = [fate EXCEPT ![id] = f]

\* An unlink of file f (f1 is its next value): gone, absent, or refused by
\* the system after removeRetry has given up.
Unlink(id, f, f1) ==
  \/ f1 = f \ {id} /\ Ok
  \/ id \in f /\ f1 = f /\ Fault

\* A rename from a to b.  A missing source is not reported as an error.
Rename(id, a, a1, b, b1) ==
  \/ id \in a /\ a1 = a \ {id} /\ b1 = b \cup {id} /\ Ok
  \/ id \notin a /\ a1 = a /\ b1 = b /\ Ok
  \/ id \in a /\ a1 = a /\ b1 = b /\ Fault

-----------------------------------------------------------------------------
(* Commit: body, metadata and directory sync, then the index.              *)

\* The quota, the stage, the id, the temporary copy or its rename fails:
\* nothing has reached the queue directory.
CommitRefuse(p, id) ==
  /\ up /\ pc[p] = "idle" /\ p \in Committers
  /\ fate[id] = "new"
  /\ Becomes(id, "refused")
  /\ UNCHANGED <<files, memory, up, pc, cur, flags, faults>>

CommitBody(p, id) ==
  /\ p \in Committers
  /\ fate[id] = "new"
  /\ Begin(p, id, "c_meta")
  /\ qBody' = qBody \cup {id}
  /\ Becomes(id, "open")
  /\ UNCHANGED <<qMeta, fBody, fMeta, memory, flags, faults>>

CommitMeta(p) ==
  /\ \/ Step(p, "c_meta", "c_sync") /\ qMeta' = qMeta \cup {cur[p]} /\ Ok
     \/ Step(p, "c_meta", "c_undo") /\ qMeta' = qMeta /\ Fault
  /\ UNCHANGED <<qBody, fBody, fMeta, memory, flags, fate>>

\* The metadata could not be written: the body goes, its error is ignored.
CommitUndo(p) ==
  /\ End(p, "c_undo")
  /\ Unlink(cur[p], qBody, qBody')
  /\ Becomes(cur[p], "refused")
  /\ UNCHANGED <<qMeta, fBody, fMeta, memory, flags>>

\* Mutant: a failed sync is reported and the pair is left in place.
CommitSync_LeavesPair(p) ==
  /\ \/ Step(p, "c_sync", "c_put") /\ Ok /\ UNCHANGED fate
     \/ End(p, "c_sync") /\ Fault /\ Becomes(cur[p], "refused")
  /\ UNCHANGED <<files, memory, flags>>

CommitSync(p) ==
  /\ \/ Step(p, "c_sync", "c_put") /\ Ok
     \/ Step(p, "c_sync", "c_rmbody") /\ Fault
  /\ UNCHANGED <<files, memory, flags, fate>>

\* The sync failed: both files are unlinked before the error is returned.
CommitRmBody(p) ==
  /\ Step(p, "c_rmbody", "c_rmmeta")
  /\ Unlink(cur[p], qBody, qBody')
  /\ UNCHANGED <<qMeta, fBody, fMeta, memory, flags, fate>>

CommitRmMeta(p) ==
  /\ End(p, "c_rmmeta")
  /\ Unlink(cur[p], qMeta, qMeta')
  /\ Becomes(cur[p], "refused")
  /\ UNCHANGED <<qBody, fBody, fMeta, memory, flags>>

CommitPut(p) ==
  /\ End(p, "c_put")
  /\ index' = index \cup {cur[p]}
  /\ Becomes(cur[p], "accepted")
  /\ UNCHANGED <<files, leased, failed, flags, faults>>

-----------------------------------------------------------------------------
(* Delivery: claim, then Defer, Release, Remove or Fail.                   *)

\* Mutant: leased messages are not skipped.
Claim_IgnoresLease(p, id) ==
  /\ p \in Workers
  /\ id \in index
  /\ Begin(p, id, "w_held")
  /\ leased' = leased \cup {id}
  /\ UNCHANGED <<files, index, failed, flags, fate, faults>>

\* ClaimBatch leases a set of due messages in one critical section; each of
\* them is then in the hands of its own worker.
Claim(p, id) ==
  /\ p \in Workers
  /\ id \in index \ leased
  /\ Begin(p, id, "w_held")
  /\ leased' = leased \cup {id}
  /\ UNCHANGED <<files, index, failed, flags, fate, faults>>

Defer(p) ==
  /\ End(p, "w_held")
  /\ leased' = leased \ {cur[p]}
  /\ UNCHANGED <<files, index, failed, flags, fate, faults>>

\* Release writes the metadata; a failed write is reported but the message
\* goes back to the index either way.
ReleaseWrite(p) ==
  /\ Step(p, "w_held", "w_put")
  /\ \/ qMeta' = qMeta \cup {cur[p]} /\ Ok
     \/ qMeta' = qMeta /\ Fault
  /\ UNCHANGED <<qBody, fBody, fMeta, memory, flags, fate>>

ReleasePut(p) ==
  /\ End(p, "w_put")
  /\ index' = index \cup {cur[p]}
  /\ leased' = leased \ {cur[p]}
  /\ UNCHANGED <<files, failed, flags, fate, faults>>

\* The body opens and the smarthost takes the message.
Transmit(p) ==
  /\ Step(p, "w_held", "w_sent")
  /\ cur[p] \in qBody
  /\ Becomes(cur[p], "delivered")
  /\ UNCHANGED <<files, memory, flags, faults>>

RemoveDrop(p) ==
  /\ Step(p, "w_sent", "r_body")
  /\ index' = index \ {cur[p]}
  /\ leased' = leased \ {cur[p]}
  /\ UNCHANGED <<files, failed, flags, fate, faults>>

RemoveBody(p) ==
  /\ Step(p, "r_body", "r_meta")
  /\ Unlink(cur[p], qBody, qBody')
  /\ UNCHANGED <<qMeta, fBody, fMeta, memory, flags, fate>>

RemoveMeta(p) ==
  /\ End(p, "r_meta")
  /\ Unlink(cur[p], qMeta, qMeta')
  /\ Becomes(cur[p], "done")
  /\ UNCHANGED <<qBody, fBody, fMeta, memory, flags>>

FailWrite(p) ==
  /\ Step(p, "w_held", "f_drop")
  /\ \/ qMeta' = qMeta \cup {cur[p]} /\ Ok
     \/ qMeta' = qMeta /\ Fault
  /\ UNCHANGED <<qBody, fBody, fMeta, memory, flags, fate>>

\* Mutant: the lease goes but the index entry stays.
FailDrop_KeepsIndex(p) ==
  /\ Step(p, "f_drop", "f_meta")
  /\ leased' = leased \ {cur[p]}
  /\ UNCHANGED <<files, index, failed, flags, fate, faults>>

\* The lease goes before the files move.
FailDrop(p) ==
  /\ Step(p, "f_drop", "f_meta")
  /\ index' = index \ {cur[p]}
  /\ leased' = leased \ {cur[p]}
  /\ UNCHANGED <<files, failed, flags, fate, faults>>

FailMeta(p) ==
  /\ Step(p, "f_meta", "f_body")
  /\ Rename(cur[p], qMeta, qMeta', fMeta, fMeta')
  /\ UNCHANGED <<qBody, fBody, memory, flags, fate>>

FailBody(p) ==
  /\ Step(p, "f_body", "f_put")
  /\ Rename(cur[p], qBody, qBody', fBody, fBody')
  /\ UNCHANGED <<qMeta, fMeta, memory, flags, fate>>

FailPut(p) ==
  /\ End(p, "f_put")
  /\ failed' = failed \cup {cur[p]}
  /\ UNCHANGED <<files, index, leased, flags, fate, faults>>

-----------------------------------------------------------------------------
(* Operators: Requeue and Discard, both under a lease from tryLease.       *)

\* The ids an operator can name: history lists a message once Commit has
\* returned it.
Known(id) == fate[id] \notin {"new", "open", "refused"}

\* Mutant: no ErrBusy.
TryLease_NeverBusy(p, id, to) ==
  /\ p \in Operators
  /\ Known(id)
  /\ Begin(p, id, to)
  /\ leased' = leased \cup {id}
  /\ UNCHANGED <<files, index, failed, flags, fate, faults>>

TryLease(p, id, to) ==
  /\ p \in Operators
  /\ Known(id)
  /\ id \notin leased
  /\ Begin(p, id, to)
  /\ leased' = leased \cup {id}
  /\ UNCHANGED <<files, index, failed, flags, fate, faults>>

Requeue(p, id) == TryLease(p, id, "q_read")

RequeueRead(p) ==
  /\ Step(p, "q_read", IF cur[p] \in index THEN "q_live" ELSE "q_find")
  /\ UNCHANGED <<files, memory, flags, fate, faults>>

RequeueLive(p) ==
  /\ \/ Step(p, "q_live", "q_put") /\ qMeta' = qMeta \cup {cur[p]} /\ Ok
     \/ Step(p, "q_live", "q_free") /\ qMeta' = qMeta /\ Fault
  /\ UNCHANGED <<qBody, fBody, fMeta, memory, flags, fate>>

RequeuePut(p) ==
  /\ Step(p, "q_put", "q_free")
  /\ index' = index \cup {cur[p]}
  /\ UNCHANGED <<files, leased, failed, flags, fate, faults>>

\* Mutant: the failed metadata is unlinked as it is read, before the body
\* moves.
RequeueFind_Consumes(p) ==
  /\ Step(p, "q_find", IF cur[p] \in fMeta THEN "q_body" ELSE "q_free")
  /\ fMeta' = fMeta \ {cur[p]}
  /\ UNCHANGED <<qBody, qMeta, fBody, memory, flags, fate, faults>>

\* requeueFailed: no metadata in spool/failed means the id is not there.
RequeueFind(p) ==
  /\ \/ Step(p, "q_find", IF cur[p] \in fMeta THEN "q_body" ELSE "q_free")
          /\ Ok
     \/ Step(p, "q_find", "q_free") /\ cur[p] \in fMeta /\ Fault
  /\ UNCHANGED <<files, memory, flags, fate>>

\* Unlike in Fail, a missing body ends the requeue.
RequeueBody(p) ==
  /\ \/ /\ Step(p, "q_body", "q_meta")
        /\ cur[p] \in fBody
        /\ fBody' = fBody \ {cur[p]}
        /\ qBody' = qBody \cup {cur[p]}
        /\ Ok
     \/ /\ Step(p, "q_body", "q_free")
        /\ IF cur[p] \in fBody THEN Fault ELSE Ok
        /\ UNCHANGED <<fBody, qBody>>
  /\ UNCHANGED <<qMeta, fMeta, memory, flags, fate>>

RequeueMeta(p) ==
  /\ \/ Step(p, "q_meta", "q_fmeta") /\ qMeta' = qMeta \cup {cur[p]} /\ Ok
     \/ Step(p, "q_meta", "q_back") /\ qMeta' = qMeta /\ Fault
  /\ UNCHANGED <<qBody, fBody, fMeta, memory, flags, fate>>

\* Mutant: the body is unlinked instead of going back to spool/failed.
RequeueBack_Unlinks(p) ==
  /\ Step(p, "q_back", "q_free")
  /\ Unlink(cur[p], qBody, qBody')
  /\ UNCHANGED <<qMeta, fBody, fMeta, memory, flags, fate>>

RequeueBack(p) ==
  /\ Step(p, "q_back", "q_free")
  /\ Rename(cur[p], qBody, qBody', fBody, fBody')
  /\ UNCHANGED <<qMeta, fMeta, memory, flags, fate>>

RequeueFMeta(p) ==
  /\ \/ Step(p, "q_fmeta", "q_sync") /\ fMeta' = fMeta \ {cur[p]} /\ Ok
     \/ /\ Step(p, "q_fmeta", "q_free")
        /\ cur[p] \in fMeta /\ fMeta' = fMeta /\ Fault
  /\ UNCHANGED <<qBody, qMeta, fBody, memory, flags, fate>>

RequeueSync(p) ==
  /\ \/ Step(p, "q_sync", "q_fput") /\ Ok
     \/ Step(p, "q_sync", "q_free") /\ Fault
  /\ UNCHANGED <<files, memory, flags, fate>>

\* Mutant: the files are back but the index is not told.
RequeueFPut_Forgets(p) ==
  /\ Step(p, "q_fput", "q_fdrop")
  /\ UNCHANGED <<files, memory, flags, fate, faults>>

RequeueFPut(p) ==
  /\ Step(p, "q_fput", "q_fdrop")
  /\ index' = index \cup {cur[p]}
  /\ UNCHANGED <<files, leased, failed, flags, fate, faults>>

RequeueFDrop(p) ==
  /\ Step(p, "q_fdrop", "q_free")
  /\ failed' = failed \ {cur[p]}
  /\ UNCHANGED <<files, index, leased, flags, fate, faults>>

RequeueFree(p) ==
  /\ End(p, "q_free")
  /\ leased' = leased \ {cur[p]}
  /\ UNCHANGED <<files, index, failed, flags, fate, faults>>

Discard(p, id) == TryLease(p, id, "d_qbody")

\* removeOne: the unlink is tried whatever the ones before it did.
RemoveOne(p, from, to, f, f1) ==
  /\ Step(p, from, to)
  /\ \/ /\ cur[p] \in f /\ f1 = f \ {cur[p]}
        /\ hit' = hit \cup {p}
        /\ Becomes(cur[p], IF fate[cur[p]] = "accepted" THEN "doomed"
                                                       ELSE fate[cur[p]])
        /\ Ok /\ UNCHANGED bad
     \/ /\ cur[p] \notin f /\ f1 = f
        /\ Ok /\ UNCHANGED <<hit, bad, fate>>
     \/ /\ cur[p] \in f /\ f1 = f
        /\ bad' = bad \cup {p}
        /\ Fault /\ UNCHANGED <<hit, fate>>

DiscardQBody(p) ==
  /\ RemoveOne(p, "d_qbody", "d_qmeta", qBody, qBody')
  /\ UNCHANGED <<qMeta, fBody, fMeta, memory>>

DiscardQMeta(p) ==
  /\ RemoveOne(p, "d_qmeta", "d_fbody", qMeta, qMeta')
  /\ UNCHANGED <<qBody, fBody, fMeta, memory>>

DiscardFBody(p) ==
  /\ RemoveOne(p, "d_fbody", "d_fmeta", fBody, fBody')
  /\ UNCHANGED <<qBody, qMeta, fMeta, memory>>

DiscardFMeta(p) ==
  /\ RemoveOne(p, "d_fmeta", "d_check", fMeta, fMeta')
  /\ UNCHANGED <<qBody, qMeta, fBody, memory>>

\* Mutant: the accounting is dropped and success reported though an unlink
\* failed.
DiscardCheck_IgnoresError(p) ==
  /\ Step(p, "d_check", "d_fdrop")
  /\ index' = index \ {cur[p]}
  /\ UNCHANGED <<files, leased, failed, flags, fate, faults>>

\* After a real failure both mirrors stay as they were.
DiscardCheck(p) ==
  /\ \/ p \in bad /\ Step(p, "d_check", "d_free") /\ index' = index
     \/ p \notin bad /\ Step(p, "d_check", "d_fdrop")
          /\ index' = index \ {cur[p]}
  /\ UNCHANGED <<files, leased, failed, flags, fate, faults>>

\* The last accounting step.  The directory syncs after it can turn the
\* result into an error, which changes nothing.
DiscardFDrop(p) ==
  /\ Step(p, "d_fdrop", "d_free")
  /\ failed' = failed \ {cur[p]}
  /\ Becomes(cur[p], IF p \in hit /\ fate[cur[p]] = "doomed" THEN "discarded"
                                                           ELSE fate[cur[p]])
  /\ UNCHANGED <<files, index, leased, flags, faults>>

DiscardFree(p) ==
  /\ End(p, "d_free")
  /\ leased' = leased \ {cur[p]}
  /\ hit' = hit \ {p} /\ bad' = bad \ {p}
  /\ UNCHANGED <<files, index, failed, fate, faults>>

-----------------------------------------------------------------------------
(* The retention sweep of spool/failed: no lease, and a list of expired    *)
(* ids that may be stale by the time each one is reached.                  *)

Sweep(p, id) ==
  /\ p \in Sweepers
  /\ id \in failed
  /\ Begin(p, id, "s_meta")
  /\ UNCHANGED <<files, memory, flags, fate, faults>>

SweepOne(p, from, to, f, f1) ==
  /\ Step(p, from, to)
  /\ \/ /\ f1 = f \ {cur[p]} /\ Ok /\ UNCHANGED bad
        /\ Becomes(cur[p], IF cur[p] \in f \ QueuePair
                                /\ fate[cur[p]] = "accepted"
                             THEN "swept" ELSE fate[cur[p]])
     \/ /\ cur[p] \in f /\ f1 = f /\ Fault
        /\ bad' = bad \cup {p} /\ UNCHANGED fate

SweepMeta(p) ==
  /\ SweepOne(p, "s_meta", "s_body", fMeta, fMeta')
  /\ UNCHANGED <<qBody, qMeta, fBody, memory, hit>>

SweepBody(p) ==
  /\ SweepOne(p, "s_body", "s_drop", fBody, fBody')
  /\ UNCHANGED <<qBody, qMeta, fMeta, memory, hit>>

\* An id whose files could not both be unlinked stays in the mirror.
SweepDrop(p) ==
  /\ End(p, "s_drop")
  /\ failed' = IF p \in bad THEN failed ELSE failed \ {cur[p]}
  /\ bad' = bad \ {p}
  /\ UNCHANGED <<files, index, leased, hit, fate, faults>>

-----------------------------------------------------------------------------
(* Crash and restart.                                                      *)

Crash ==
  /\ up
  /\ up' = FALSE
  /\ index' = {} /\ leased' = {} /\ failed' = {}
  /\ pc' = [p \in Procs |-> "idle"]
  /\ cur' = [p \in Procs |-> NoId]
  /\ hit' = {} /\ bad' = {}
  /\ UNCHANGED <<files, fate, faults>>

\* Open and recover: the queue directory is listed, pairs are read into the
\* index, and metadata without a body and bodies that were not indexed are
\* unlinked; spool/failed is only listed.  unread are the pairs whose
\* metadata could not be read, kept the files that could not be unlinked:
\* neither error is reported.
RecoverExcept(unread, kept) ==
  /\ ~up
  /\ faults' = faults + Cardinality(unread) + Cardinality(kept)
  /\ faults' <= MaxFaults
  /\ up' = TRUE
  /\ index' = QueuePair \ unread
  /\ qBody' = (QueuePair \ unread) \cup (qBody \cap kept)
  /\ qMeta' = QueuePair \cup (qMeta \cap kept)
  /\ failed' = fMeta
  /\ fate' = [id \in Ids |->
       CASE fate[id] = "open" ->
              IF id \in index' THEN "accepted" ELSE "refused"
         [] fate[id] = "accepted"
              /\ id \notin (qBody' \cap qMeta') \cup FailedPair -> "lost"
         [] OTHER -> fate[id]]
  /\ UNCHANGED <<fBody, fMeta, leased, pc, cur, flags>>

Recover ==
  \E unread \in SUBSET QueuePair :
    \E kept \in SUBSET ((qBody \cup qMeta) \ (QueuePair \ unread)) :
      RecoverExcept(unread, kept)

-----------------------------------------------------------------------------
CommitNext(p) ==
  \/ \E id \in Ids : CommitRefuse(p, id) \/ CommitBody(p, id)
  \/ CommitMeta(p) \/ CommitUndo(p) \/ CommitSync(p)
  \/ CommitRmBody(p) \/ CommitRmMeta(p) \/ CommitPut(p)

WorkerNext(p) ==
  \/ \E id \in Ids : Claim(p, id)
  \/ Defer(p) \/ ReleaseWrite(p) \/ ReleasePut(p)
  \/ Transmit(p) \/ RemoveDrop(p) \/ RemoveBody(p) \/ RemoveMeta(p)
  \/ FailWrite(p) \/ FailDrop(p) \/ FailMeta(p) \/ FailBody(p) \/ FailPut(p)

RequeueNext(p) ==
  \/ \E id \in Ids : Requeue(p, id)
  \/ RequeueRead(p) \/ RequeueLive(p) \/ RequeuePut(p) \/ RequeueFind(p)
  \/ RequeueBody(p) \/ RequeueMeta(p) \/ RequeueBack(p) \/ RequeueFMeta(p)
  \/ RequeueSync(p) \/ RequeueFPut(p) \/ RequeueFDrop(p) \/ RequeueFree(p)

DiscardNext(p) ==
  \/ \E id \in Ids : Discard(p, id)
  \/ DiscardQBody(p) \/ DiscardQMeta(p) \/ DiscardFBody(p) \/ DiscardFMeta(p)
  \/ DiscardCheck(p) \/ DiscardFDrop(p) \/ DiscardFree(p)

SweepNext(p) ==
  \/ \E id \in Ids : Sweep(p, id)
  \/ SweepMeta(p) \/ SweepBody(p) \/ SweepDrop(p)

Next ==
  \/ \E p \in Procs : CommitNext(p) \/ WorkerNext(p) \/ RequeueNext(p)
                        \/ DiscardNext(p) \/ SweepNext(p)
  \/ Crash
  \/ Recover

Spec == Init /\ [][Next]_vars

-----------------------------------------------------------------------------
(* Properties.                                                             *)

\* The actors that hold a lease: a worker from its claim until Defer,
\* Release, Remove or Fail gives it up, an operator for its whole call.
HoldPCs == {"w_held", "w_put", "w_sent", "f_drop"}
             \cup RequeuePCs \cup DiscardPCs
Holds(p) == pc[p] \in HoldPCs

\* Leases are exclusive and none is leaked: two actors never work on one
\* message under a lease, and a message is leased exactly while some actor
\* is going to give the lease back.  (ClaimBatch, tryLease, and the deletes
\* in Defer, Release, Remove and Fail.)
LeaseExclusive ==
  /\ \A p, r \in Procs : Holds(p) /\ Holds(r) /\ cur[p] = cur[r] => p = r
  /\ \A id \in leased : \E p \in Procs : Holds(p) /\ cur[p] = id
  /\ \A p \in Procs : Holds(p) => cur[p] \in leased

MidMove(id) == \E p \in Procs : cur[p] = id /\ pc[p] \in {"f_body", "q_meta"}

\* As long as no file operation has failed, a crash loses no accepted
\* message: its two files are together in one directory at every moment,
\* except inside Fail between its two renames and inside requeueFailed
\* between the rename of the body and the write of the metadata.
RecoverySafe ==
  up /\ faults = 0 =>
    \A id \in Ids : fate[id] = "accepted" =>
      id \in QueuePair \/ id \in FailedPair \/ MidMove(id)

\* The pair behind an index entry is on disk unless a Discard is unlinking
\* it, so a claimed message can be opened.  (Remove and Fail drop the entry
\* before they touch a file; Commit and Requeue add it after.)
IndexBacked ==
  faults = 0 =>
    \A id \in index :
      \/ id \in QueuePair
      \/ \E p \in Procs : cur[p] = id /\ pc[p] \in DiscardPCs

\* What is over stays over, a restart included, as long as at most one file
\* operation has failed: a message that was delivered and removed, one that
\* Discard reported deleted, and one whose Commit reported an error do not
\* come back into the live queue.
NoResurrection ==
  faults <= 1 =>
    \A id \in Ids : fate[id] \in {"done", "discarded", "refused"} =>
                      id \notin index

\* A Discard that reports success has erased the message, whatever Fail,
\* Remove or a sweep was doing to the same files meanwhile.
DiscardErases ==
  \A id \in Ids : fate[id] = "discarded" =>
    id \notin qBody \cup qMeta \cup fBody \cup fMeta

\* Apart from recovery, no step gives up the last body of a message that was
\* accepted and is neither delivered, discarded nor swept, whatever fails.
BodyKept ==
  [][\A id \in Ids :
       fate[id] = "accepted" /\ fate'[id] = "accepted"
         /\ id \in qBody \cup fBody =>
       id \in qBody' \cup fBody']_vars

Busy(id) == \E p \in Procs : cur[p] = id

\* A body at rest in the queue directory is in the index, so it will be
\* attempted: no order of the operations strands a message on disk, as long
\* as no file operation has failed.
NothingStranded ==
  up /\ faults = 0 =>
    \A id \in qBody : ~Busy(id) => id \in index

\* Where a message is, as a whole: its pair of files is in one directory, or
\* a move has taken the pair apart and its body is under way.
PlaceOf(id) ==
  IF id \in QueuePair THEN "queue"
  ELSE IF id \in FailedPair THEN "failed"
  ELSE IF id \in qBody /\ MidMove(id) THEN "moving"
  ELSE "none"

C == INSTANCE Custody WITH
       Messages <- Ids, place <- [id \in Ids |-> PlaceOf(id)],
       troubled <- faults > 0

\* As long as no file operation fails, the spool keeps Custody: whatever the
\* interleaving of its file operations, a message moves as a whole from the
\* queue to spool/failed and back, leaves them only when it was sent,
\* discarded or swept, and a crash loses only what it catches in a move.
KeepsCustody == C!Spec

-----------------------------------------------------------------------------
(* What comments in the code say, and the code does not do.                *)

\* failed.go: a message is kept in spool/failed "rather than deleted, so
\* that nothing is silently lost"; recover: removing a body without metadata
\* "loses nothing".  A crash inside either move of MidMove refutes it.
NothingLost == \A id \in Ids : fate[id] # "lost"

=============================================================================
