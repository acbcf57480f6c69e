---------------------------- MODULE SpoolProofs ----------------------------
(***************************************************************************)
(* Proofs about Spool, for any number of messages and actors and any       *)
(* number of crashes: its types, the exclusiveness of leases, that while   *)
(* no file operation fails every accepted message survives a crash outside *)
(* the two known windows, every index entry has its files and no body is   *)
(* stranded, that no step gives up the last body of a live message, that   *)
(* what was removed, discarded or refused does not come back, and that the *)
(* spool implements Custody.                                               *)
(***************************************************************************)
EXTENDS Spool, FiniteSetTheorems, TLAPS

WorkerHold == {"w_held", "w_put", "w_sent", "f_drop"}

\* Past the point where the lease was given up, with files still to touch.
Detached == {"r_body", "r_meta", "f_meta", "f_body"}

\* What another actor may be doing to a message someone is detached on.
Harmless == {"q_read", "q_find", "q_body", "q_free", "f_put"}
              \cup DiscardPCs \cup SweepPCs

\* An actor has a message exactly while it is busy; nobody is busy while the
\* process is down.
Idling ==
  /\ \A p \in Procs : pc[p] = "idle" <=> cur[p] = NoId
  /\ ~up => leased = {} /\ \A p \in Procs : pc[p] = "idle"

\* A message inside Commit is known to its committer alone.
Private ==
  /\ \A p \in Procs : pc[p] \in CommitPCs => fate[cur[p]] = "open"
  /\ \A p \in Procs : pc[p] \notin CommitPCs \cup {"idle"} =>
                        fate[cur[p]] \notin {"new", "open"}
  /\ \A p, r \in Procs :
       pc[p] \in CommitPCs /\ pc[r] \in CommitPCs /\ cur[p] = cur[r] => p = r
  /\ \A id \in index \cup failed \cup fBody \cup fMeta :
       fate[id] \notin {"new", "open"}
  /\ \A id \in qBody \cup qMeta : fate[id] # "new"

OneBody == qBody \cap fBody = {}

\* Where the index stands at each point of the worker and operator calls.
Placed(p) ==
  /\ pc[p] \in WorkerHold \cup {"q_live", "q_put", "q_fdrop"} =>
       cur[p] \in index
  /\ pc[p] \in {"q_find", "q_body", "q_meta", "q_fmeta", "q_sync", "q_fput",
                "d_fdrop", "d_free"} => cur[p] \notin index
  /\ pc[p] \in Detached => cur[p] \notin index \cup fBody

\* Nobody else moves the files of a message someone is detached on.
Undisturbed(p) ==
  pc[p] \in Detached =>
    \A r \in Procs : r # p /\ cur[r] = cur[p] => pc[r] \in Harmless

\* Which files are in place at each point.
Filed(p) ==
  /\ pc[p] \notin {"c_undo", "c_rmbody", "c_rmmeta", "q_back"}
  /\ pc[p] \in {"c_meta", "q_meta"} => cur[p] \in qBody
  /\ pc[p] \in {"c_sync", "c_put", "q_fmeta", "q_sync", "q_fput"} =>
       cur[p] \in qBody \cap qMeta
  /\ pc[p] \in {"w_sent", "r_body", "r_meta"} => fate[cur[p]] # "accepted"
  /\ pc[p] = "f_meta" /\ fate[cur[p]] = "accepted" =>
       cur[p] \in qBody \cap qMeta
  /\ pc[p] = "f_body" /\ fate[cur[p]] = "accepted" =>
       cur[p] \in (qBody \cap fMeta) \ qMeta

Faultless ==
  faults = 0 =>
    /\ bad = {}
    /\ \A p \in Procs : Placed(p) /\ Undisturbed(p) /\ Filed(p)

IInv == /\ TypeOK /\ Idling /\ LeaseExclusive /\ Private /\ OneBody
        /\ Faultless /\ IndexBacked /\ RecoverySafe

-----------------------------------------------------------------------------
(* Types and leases.                                                       *)

\* A step of Commit and its error returns keeps the types, and its actor has
\* a message exactly while it is busy.
LEMMA CommitTyped ==
  ASSUME TypeOK, Idling, NEW p \in Procs, CommitNext(p)
  PROVE  TypeOK' /\ Idling'
<1> USE NoIdAssumption, FaultAssumption
    DEF TypeOK, Idling, PCs, CommitPCs, Fates, files, memory, flags,
        Begin, Step, End, Ok, Fault, Becomes, Unlink, Rename
<1>1. ASSUME NEW id \in Ids, CommitRefuse(p, id)
      PROVE  TypeOK' /\ Idling'
  BY <1>1 DEF CommitRefuse
<1>2. ASSUME NEW id \in Ids, CommitBody(p, id)
      PROVE  TypeOK' /\ Idling'
  BY <1>2 DEF CommitBody
<1>3. CASE CommitMeta(p)
  BY <1>3 DEF CommitMeta
<1>4. CASE CommitUndo(p)
  BY <1>4 DEF CommitUndo
<1>5. CASE CommitSync(p)
  BY <1>5 DEF CommitSync
<1>6. CASE CommitRmBody(p)
  BY <1>6 DEF CommitRmBody
<1>7. CASE CommitRmMeta(p)
  BY <1>7 DEF CommitRmMeta
<1>8. CASE CommitPut(p)
  BY <1>8 DEF CommitPut
<1> QED
  BY <1>1, <1>2, <1>3, <1>4, <1>5, <1>6, <1>7, <1>8 DEF CommitNext

\* A step of Claim, Defer, Release, Remove or Fail keeps the types, and its
\* actor has a message exactly while it is busy.
LEMMA WorkerTyped ==
  ASSUME TypeOK, Idling, NEW p \in Procs, WorkerNext(p)
  PROVE  TypeOK' /\ Idling'
<1> USE NoIdAssumption, FaultAssumption
    DEF TypeOK, Idling, PCs, WorkerPCs, Fates, files, memory, flags,
        Begin, Step, End, Ok, Fault, Becomes, Unlink, Rename
<1>1. ASSUME NEW id \in Ids, Claim(p, id)
      PROVE  TypeOK' /\ Idling'
  BY <1>1 DEF Claim
<1>2. CASE Defer(p)
  BY <1>2 DEF Defer
<1>3. CASE ReleaseWrite(p)
  BY <1>3 DEF ReleaseWrite
<1>4. CASE ReleasePut(p)
  BY <1>4 DEF ReleasePut
<1>5. CASE Transmit(p)
  BY <1>5 DEF Transmit
<1>6. CASE RemoveDrop(p)
  BY <1>6 DEF RemoveDrop
<1>7. CASE RemoveBody(p)
  BY <1>7 DEF RemoveBody
<1>8. CASE RemoveMeta(p)
  BY <1>8 DEF RemoveMeta
<1>9. CASE FailWrite(p)
  BY <1>9 DEF FailWrite
<1>10. CASE FailDrop(p)
  BY <1>10 DEF FailDrop
<1>11. CASE FailMeta(p)
  BY <1>11 DEF FailMeta
<1>12. CASE FailBody(p)
  BY <1>12 DEF FailBody
<1>13. CASE FailPut(p)
  BY <1>13 DEF FailPut
<1> QED
  BY <1>1, <1>2, <1>3, <1>4, <1>5, <1>6, <1>7, <1>8, <1>9,
     <1>10, <1>11, <1>12, <1>13
  DEF WorkerNext

\* A step of Requeue keeps the types, and its actor has a message exactly
\* while it is busy.
LEMMA RequeueTyped ==
  ASSUME TypeOK, Idling, NEW p \in Procs, RequeueNext(p)
  PROVE  TypeOK' /\ Idling'
<1> USE NoIdAssumption, FaultAssumption
    DEF TypeOK, Idling, PCs, RequeuePCs, Fates, files, memory, flags,
        Begin, Step, End, Ok, Fault, Becomes, Unlink, Rename
<1>1. ASSUME NEW id \in Ids, Requeue(p, id)
      PROVE  TypeOK' /\ Idling'
  BY <1>1 DEF Requeue, TryLease
<1>2. CASE RequeueRead(p)
  BY <1>2 DEF RequeueRead
<1>3. CASE RequeueLive(p)
  BY <1>3 DEF RequeueLive
<1>4. CASE RequeuePut(p)
  BY <1>4 DEF RequeuePut
<1>5. CASE RequeueFind(p)
  BY <1>5 DEF RequeueFind
<1>6. CASE RequeueBody(p)
  BY <1>6 DEF RequeueBody
<1>7. CASE RequeueMeta(p)
  BY <1>7 DEF RequeueMeta
<1>8. CASE RequeueBack(p)
  BY <1>8 DEF RequeueBack
<1>9. CASE RequeueFMeta(p)
  BY <1>9 DEF RequeueFMeta
<1>10. CASE RequeueSync(p)
  BY <1>10 DEF RequeueSync
<1>11. CASE RequeueFPut(p)
  BY <1>11 DEF RequeueFPut
<1>12. CASE RequeueFDrop(p)
  BY <1>12 DEF RequeueFDrop
<1>13. CASE RequeueFree(p)
  BY <1>13 DEF RequeueFree
<1> QED
  BY <1>1, <1>2, <1>3, <1>4, <1>5, <1>6, <1>7, <1>8, <1>9,
     <1>10, <1>11, <1>12, <1>13
  DEF RequeueNext

\* A step of Discard keeps the types, and its actor has a message exactly
\* while it is busy.
LEMMA DiscardTyped ==
  ASSUME TypeOK, Idling, NEW p \in Procs, DiscardNext(p)
  PROVE  TypeOK' /\ Idling'
<1> USE NoIdAssumption, FaultAssumption
    DEF TypeOK, Idling, PCs, DiscardPCs, Fates, files, memory, flags,
        Begin, Step, End, Ok, Fault, Becomes, Unlink, Rename
<1>1. ASSUME NEW id \in Ids, Discard(p, id)
      PROVE  TypeOK' /\ Idling'
  BY <1>1 DEF Discard, TryLease
<1>2. CASE DiscardQBody(p)
  BY <1>2 DEF DiscardQBody, RemoveOne
<1>3. CASE DiscardQMeta(p)
  BY <1>3 DEF DiscardQMeta, RemoveOne
<1>4. CASE DiscardFBody(p)
  BY <1>4 DEF DiscardFBody, RemoveOne
<1>5. CASE DiscardFMeta(p)
  BY <1>5 DEF DiscardFMeta, RemoveOne
<1>6. CASE DiscardCheck(p)
  BY <1>6 DEF DiscardCheck
<1>7. CASE DiscardFDrop(p)
  BY <1>7 DEF DiscardFDrop
<1>8. CASE DiscardFree(p)
  BY <1>8 DEF DiscardFree
<1> QED
  BY <1>1, <1>2, <1>3, <1>4, <1>5, <1>6, <1>7, <1>8 DEF DiscardNext

\* A step of the retention sweep keeps the types, and its actor has a message
\* exactly while it is busy.
LEMMA SweepTyped ==
  ASSUME TypeOK, Idling, NEW p \in Procs, SweepNext(p)
  PROVE  TypeOK' /\ Idling'
<1> USE NoIdAssumption, FaultAssumption
    DEF TypeOK, Idling, PCs, SweepPCs, Fates, files, memory, flags,
        Begin, Step, End, Ok, Fault, Becomes, Unlink, Rename
<1>1. ASSUME NEW id \in Ids, Sweep(p, id)
      PROVE  TypeOK' /\ Idling'
  BY <1>1 DEF Sweep
<1>2. CASE SweepMeta(p)
  BY <1>2 DEF SweepMeta, SweepOne
<1>3. CASE SweepBody(p)
  BY <1>3 DEF SweepBody, SweepOne
<1>4. CASE SweepDrop(p)
  BY <1>4 DEF SweepDrop
<1> QED
  BY <1>1, <1>2, <1>3, <1>4 DEF SweepNext

\* A step of Commit and its error returns neither shares nor leaks a lease,
\* leaves a message inside Commit to its committer, and never makes a second
\* body.
LEMMA CommitLeases ==
  ASSUME TypeOK, TypeOK', Idling, Idling', LeaseExclusive, Private, OneBody,
         NEW p \in Procs, CommitNext(p)
  PROVE  LeaseExclusive' /\ Private' /\ OneBody'
<1> USE NoIdAssumption DEF TypeOK, Idling, LeaseExclusive, Private, OneBody,
        Holds, HoldPCs, CommitPCs, RequeuePCs, DiscardPCs,
        files, memory, flags, Begin, Step, End, Becomes, Unlink, Rename, Known
<1>1. ASSUME NEW id \in Ids, CommitRefuse(p, id)
      PROVE  LeaseExclusive' /\ Private' /\ OneBody'
  BY <1>1 DEF CommitRefuse
<1>2. ASSUME NEW id \in Ids, CommitBody(p, id)
      PROVE  LeaseExclusive' /\ Private' /\ OneBody'
  BY <1>2 DEF CommitBody
<1>3. CASE CommitMeta(p)
  BY <1>3 DEF CommitMeta
<1>4. CASE CommitUndo(p)
  BY <1>4 DEF CommitUndo
<1>5. CASE CommitSync(p)
  BY <1>5 DEF CommitSync
<1>6. CASE CommitRmBody(p)
  BY <1>6 DEF CommitRmBody
<1>7. CASE CommitRmMeta(p)
  BY <1>7 DEF CommitRmMeta
<1>8. CASE CommitPut(p)
  BY <1>8 DEF CommitPut
<1> QED
  BY <1>1, <1>2, <1>3, <1>4, <1>5, <1>6, <1>7, <1>8 DEF CommitNext

\* A step of Claim, Defer, Release, Remove or Fail neither shares nor leaks a
\* lease, leaves a message inside Commit to its committer, and never makes a
\* second body.
LEMMA WorkerLeases ==
  ASSUME TypeOK, TypeOK', Idling, Idling', LeaseExclusive, Private, OneBody,
         NEW p \in Procs, WorkerNext(p)
  PROVE  LeaseExclusive' /\ Private' /\ OneBody'
<1> USE NoIdAssumption DEF TypeOK, Idling, LeaseExclusive, Private, OneBody,
        Holds, HoldPCs, CommitPCs, RequeuePCs, DiscardPCs,
        files, memory, flags, Begin, Step, End, Becomes, Unlink, Rename, Known
<1>1. ASSUME NEW id \in Ids, Claim(p, id)
      PROVE  LeaseExclusive' /\ Private' /\ OneBody'
  BY <1>1 DEF Claim
<1>2. CASE Defer(p)
  BY <1>2 DEF Defer
<1>3. CASE ReleaseWrite(p)
  BY <1>3 DEF ReleaseWrite
<1>4. CASE ReleasePut(p)
  BY <1>4 DEF ReleasePut
<1>5. CASE Transmit(p)
  BY <1>5 DEF Transmit
<1>6. CASE RemoveDrop(p)
  BY <1>6 DEF RemoveDrop
<1>7. CASE RemoveBody(p)
  BY <1>7 DEF RemoveBody
<1>8. CASE RemoveMeta(p)
  BY <1>8 DEF RemoveMeta
<1>9. CASE FailWrite(p)
  BY <1>9 DEF FailWrite
<1>10. CASE FailDrop(p)
  BY <1>10 DEF FailDrop
<1>11. CASE FailMeta(p)
  BY <1>11 DEF FailMeta
<1>12. CASE FailBody(p)
  BY <1>12 DEF FailBody
<1>13. CASE FailPut(p)
  BY <1>13 DEF FailPut
<1> QED
  BY <1>1, <1>2, <1>3, <1>4, <1>5, <1>6, <1>7, <1>8, <1>9,
     <1>10, <1>11, <1>12, <1>13
  DEF WorkerNext

\* A step of Requeue neither shares nor leaks a lease, leaves a message
\* inside Commit to its committer, and never makes a second body.
LEMMA RequeueLeases ==
  ASSUME TypeOK, TypeOK', Idling, Idling', LeaseExclusive, Private, OneBody,
         NEW p \in Procs, RequeueNext(p)
  PROVE  LeaseExclusive' /\ Private' /\ OneBody'
<1> USE NoIdAssumption DEF TypeOK, Idling, LeaseExclusive, Private, OneBody,
        Holds, HoldPCs, CommitPCs, RequeuePCs, DiscardPCs,
        files, memory, flags, Begin, Step, End, Becomes, Unlink, Rename, Known
<1>1. ASSUME NEW id \in Ids, Requeue(p, id)
      PROVE  LeaseExclusive' /\ Private' /\ OneBody'
  BY <1>1 DEF Requeue, TryLease
<1>2. CASE RequeueRead(p)
  BY <1>2 DEF RequeueRead
<1>3. CASE RequeueLive(p)
  BY <1>3 DEF RequeueLive
<1>4. CASE RequeuePut(p)
  BY <1>4 DEF RequeuePut
<1>5. CASE RequeueFind(p)
  BY <1>5 DEF RequeueFind
<1>6. CASE RequeueBody(p)
  BY <1>6 DEF RequeueBody
<1>7. CASE RequeueMeta(p)
  BY <1>7 DEF RequeueMeta
<1>8. CASE RequeueBack(p)
  BY <1>8 DEF RequeueBack
<1>9. CASE RequeueFMeta(p)
  BY <1>9 DEF RequeueFMeta
<1>10. CASE RequeueSync(p)
  BY <1>10 DEF RequeueSync
<1>11. CASE RequeueFPut(p)
  BY <1>11 DEF RequeueFPut
<1>12. CASE RequeueFDrop(p)
  BY <1>12 DEF RequeueFDrop
<1>13. CASE RequeueFree(p)
  BY <1>13 DEF RequeueFree
<1> QED
  BY <1>1, <1>2, <1>3, <1>4, <1>5, <1>6, <1>7, <1>8, <1>9,
     <1>10, <1>11, <1>12, <1>13
  DEF RequeueNext

\* A step of Discard neither shares nor leaks a lease, leaves a message
\* inside Commit to its committer, and never makes a second body.
LEMMA DiscardLeases ==
  ASSUME TypeOK, TypeOK', Idling, Idling', LeaseExclusive, Private, OneBody,
         NEW p \in Procs, DiscardNext(p)
  PROVE  LeaseExclusive' /\ Private' /\ OneBody'
<1> USE NoIdAssumption DEF TypeOK, Idling, LeaseExclusive, Private, OneBody,
        Holds, HoldPCs, CommitPCs, RequeuePCs, DiscardPCs,
        files, memory, flags, Begin, Step, End, Becomes, Unlink, Rename, Known
<1>1. ASSUME NEW id \in Ids, Discard(p, id)
      PROVE  LeaseExclusive' /\ Private' /\ OneBody'
  BY <1>1 DEF Discard, TryLease
<1>2. CASE DiscardQBody(p)
  BY <1>2 DEF DiscardQBody, RemoveOne
<1>3. CASE DiscardQMeta(p)
  BY <1>3 DEF DiscardQMeta, RemoveOne
<1>4. CASE DiscardFBody(p)
  BY <1>4 DEF DiscardFBody, RemoveOne
<1>5. CASE DiscardFMeta(p)
  BY <1>5 DEF DiscardFMeta, RemoveOne
<1>6. CASE DiscardCheck(p)
  BY <1>6 DEF DiscardCheck
<1>7. CASE DiscardFDrop(p)
  BY <1>7 DEF DiscardFDrop
<1>8. CASE DiscardFree(p)
  BY <1>8 DEF DiscardFree
<1> QED
  BY <1>1, <1>2, <1>3, <1>4, <1>5, <1>6, <1>7, <1>8 DEF DiscardNext

\* A step of the retention sweep neither shares nor leaks a lease, leaves a
\* message inside Commit to its committer, and never makes a second body.
LEMMA SweepLeases ==
  ASSUME TypeOK, TypeOK', Idling, Idling', LeaseExclusive, Private, OneBody,
         NEW p \in Procs, SweepNext(p)
  PROVE  LeaseExclusive' /\ Private' /\ OneBody'
<1> USE NoIdAssumption DEF TypeOK, Idling, LeaseExclusive, Private, OneBody,
        Holds, HoldPCs, CommitPCs, RequeuePCs, DiscardPCs,
        files, memory, flags, Begin, Step, End, Becomes, Unlink, Rename, Known
<1>1. ASSUME NEW id \in Ids, Sweep(p, id)
      PROVE  LeaseExclusive' /\ Private' /\ OneBody'
  BY <1>1 DEF Sweep
<1>2. CASE SweepMeta(p)
  BY <1>2 DEF SweepMeta, SweepOne
<1>3. CASE SweepBody(p)
  BY <1>3 DEF SweepBody, SweepOne
<1>4. CASE SweepDrop(p)
  BY <1>4 DEF SweepDrop
<1> QED
  BY <1>1, <1>2, <1>3, <1>4 DEF SweepNext

-----------------------------------------------------------------------------
(* Files, while no file operation fails.                                   *)

\* Whoever holds a claimed message finds its pair in the queue directory,
\* and shares the message at most with the tail of an earlier Fail or with a
\* sweep that works from a stale list.
LEMMA Alone ==
  ASSUME IInv, faults = 0, NEW p \in Procs, pc[p] \in WorkerHold
  PROVE  /\ cur[p] \in index /\ cur[p] \in QueuePair
         /\ cur[p] \notin fBody
         /\ \A r \in Procs : r # p /\ cur[r] = cur[p] =>
                              pc[r] \in {"f_put"} \cup SweepPCs
<1>1. cur[p] \in index
  BY DEF IInv, Faultless, Placed
<1>2. \A r \in Procs : r # p /\ cur[r] = cur[p] => pc[r] \notin HoldPCs
  BY DEF IInv, LeaseExclusive, Holds, HoldPCs, WorkerHold
<1>3. cur[p] \in QueuePair
  BY <1>1, <1>2 DEF IInv, IndexBacked, HoldPCs, WorkerHold, DiscardPCs
<1>4. cur[p] \notin fBody
  BY <1>3 DEF IInv, OneBody, QueuePair
<1>5. cur[p] \in Ids /\ fate[cur[p]] \notin {"new", "open"}
  BY <1>1 DEF IInv, TypeOK, Private
<1>6. ASSUME NEW r \in Procs, r # p, cur[r] = cur[p]
      PROVE  pc[r] \in {"f_put"} \cup SweepPCs
  <2>1. pc[r] \notin CommitPCs
    BY <1>5, <1>6 DEF IInv, Private
  <2>2. pc[r] \notin Detached
    BY <1>1, <1>6 DEF IInv, Faultless, Placed
  <2>3. pc[r] # "idle"
    BY <1>5, <1>6, NoIdAssumption DEF IInv, Idling
  <2> QED
    BY <1>2, <1>6, <2>1, <2>2, <2>3
    DEF IInv, TypeOK, PCs, WorkerPCs, HoldPCs, Detached
<1> QED
  BY <1>1, <1>3, <1>4, <1>6

\* While no file operation fails, a step of Commit and its error returns
\* keeps every accepted message recoverable and every index entry backed by
\* files.
LEMMA CommitSafe ==
  ASSUME IInv, TypeOK', Idling', LeaseExclusive',
         NEW p \in Procs, CommitNext(p)
  PROVE  Faultless' /\ IndexBacked' /\ RecoverySafe'
<1> USE NoIdAssumption, FaultAssumption
    DEF IInv, TypeOK, Idling, LeaseExclusive, Private, OneBody,
        Faultless, Placed, Undisturbed, Filed, IndexBacked, RecoverySafe,
        MidMove, QueuePair, FailedPair, WorkerHold, Detached, Harmless,
        Holds, HoldPCs, CommitPCs, RequeuePCs, DiscardPCs, SweepPCs,
        files, memory, flags, Begin, Step, End, Ok, Fault, Becomes,
        Unlink, Rename, Known
<1>1. ASSUME NEW id \in Ids, CommitRefuse(p, id)
      PROVE  Faultless' /\ IndexBacked' /\ RecoverySafe'
  BY <1>1 DEF CommitRefuse
<1>2. ASSUME NEW id \in Ids, CommitBody(p, id)
      PROVE  Faultless' /\ IndexBacked' /\ RecoverySafe'
  BY <1>2 DEF CommitBody
<1>3. CASE CommitMeta(p)
  BY <1>3 DEF CommitMeta
<1>4. CASE CommitUndo(p)
  BY <1>4 DEF CommitUndo
<1>5. CASE CommitSync(p)
  BY <1>5 DEF CommitSync
<1>6. CASE CommitRmBody(p)
  BY <1>6 DEF CommitRmBody
<1>7. CASE CommitRmMeta(p)
  BY <1>7 DEF CommitRmMeta
<1>8. CASE CommitPut(p)
  BY <1>8 DEF CommitPut
<1> QED
  BY <1>1, <1>2, <1>3, <1>4, <1>5, <1>6, <1>7, <1>8 DEF CommitNext

\* While no file operation fails, a step of Claim, Defer, Release, Remove or
\* Fail keeps every accepted message recoverable and every index entry backed
\* by files.
LEMMA WorkerSafe ==
  ASSUME IInv, TypeOK', Idling', LeaseExclusive',
         NEW p \in Procs, WorkerNext(p)
  PROVE  Faultless' /\ IndexBacked' /\ RecoverySafe'
<1> USE NoIdAssumption, FaultAssumption
    DEF IInv, TypeOK, Idling, LeaseExclusive, Private, OneBody,
        Faultless, Placed, Undisturbed, Filed, IndexBacked, RecoverySafe,
        MidMove, QueuePair, FailedPair, WorkerHold, Detached, Harmless,
        Holds, HoldPCs, CommitPCs, RequeuePCs, DiscardPCs, SweepPCs,
        files, memory, flags, Begin, Step, End, Ok, Fault, Becomes,
        Unlink, Rename, Known
<1>1. ASSUME NEW id \in Ids, Claim(p, id)
      PROVE  Faultless' /\ IndexBacked' /\ RecoverySafe'
  BY <1>1 DEF Claim
<1>2. CASE Defer(p)
  BY <1>2 DEF Defer
<1>3. CASE ReleaseWrite(p)
  BY <1>3 DEF ReleaseWrite
<1>4. CASE ReleasePut(p)
  BY <1>4 DEF ReleasePut
<1>5. CASE Transmit(p)
  BY <1>5 DEF Transmit
<1>6. CASE RemoveDrop(p)
  BY <1>6, Alone DEF RemoveDrop
<1>7. CASE RemoveBody(p)
  BY <1>7 DEF RemoveBody
<1>8. CASE RemoveMeta(p)
  BY <1>8 DEF RemoveMeta
<1>9. CASE FailWrite(p)
  BY <1>9 DEF FailWrite
<1>10. CASE FailDrop(p)
  BY <1>10, Alone DEF FailDrop
<1>11. CASE FailMeta(p)
  BY <1>11 DEF FailMeta
<1>12. CASE FailBody(p)
  BY <1>12 DEF FailBody
<1>13. CASE FailPut(p)
  BY <1>13 DEF FailPut
<1> QED
  BY <1>1, <1>2, <1>3, <1>4, <1>5, <1>6, <1>7, <1>8, <1>9,
     <1>10, <1>11, <1>12, <1>13
  DEF WorkerNext

\* While no file operation fails, a step of Requeue keeps every accepted
\* message recoverable and every index entry backed by files.
LEMMA RequeueSafe ==
  ASSUME IInv, TypeOK', Idling', LeaseExclusive',
         NEW p \in Procs, RequeueNext(p)
  PROVE  Faultless' /\ IndexBacked' /\ RecoverySafe'
<1> USE NoIdAssumption, FaultAssumption
    DEF IInv, TypeOK, Idling, LeaseExclusive, Private, OneBody,
        Faultless, Placed, Undisturbed, Filed, IndexBacked, RecoverySafe,
        MidMove, QueuePair, FailedPair, WorkerHold, Detached, Harmless,
        Holds, HoldPCs, CommitPCs, RequeuePCs, DiscardPCs, SweepPCs,
        files, memory, flags, Begin, Step, End, Ok, Fault, Becomes,
        Unlink, Rename, Known
<1>1. ASSUME NEW id \in Ids, Requeue(p, id)
      PROVE  Faultless' /\ IndexBacked' /\ RecoverySafe'
  BY <1>1 DEF Requeue, TryLease
<1>2. CASE RequeueRead(p)
  BY <1>2 DEF RequeueRead
<1>3. CASE RequeueLive(p)
  BY <1>3 DEF RequeueLive
<1>4. CASE RequeuePut(p)
  BY <1>4 DEF RequeuePut
<1>5. CASE RequeueFind(p)
  BY <1>5 DEF RequeueFind
<1>6. CASE RequeueBody(p)
  BY <1>6 DEF RequeueBody
<1>7. CASE RequeueMeta(p)
  BY <1>7 DEF RequeueMeta
<1>8. CASE RequeueBack(p)
  BY <1>8 DEF RequeueBack
<1>9. CASE RequeueFMeta(p)
  BY <1>9 DEF RequeueFMeta
<1>10. CASE RequeueSync(p)
  BY <1>10 DEF RequeueSync
<1>11. CASE RequeueFPut(p)
  BY <1>11 DEF RequeueFPut
<1>12. CASE RequeueFDrop(p)
  BY <1>12 DEF RequeueFDrop
<1>13. CASE RequeueFree(p)
  BY <1>13 DEF RequeueFree
<1> QED
  BY <1>1, <1>2, <1>3, <1>4, <1>5, <1>6, <1>7, <1>8, <1>9,
     <1>10, <1>11, <1>12, <1>13
  DEF RequeueNext

\* While no file operation fails, a step of Discard keeps every accepted
\* message recoverable and every index entry backed by files.
LEMMA DiscardSafe ==
  ASSUME IInv, TypeOK', Idling', LeaseExclusive',
         NEW p \in Procs, DiscardNext(p)
  PROVE  Faultless' /\ IndexBacked' /\ RecoverySafe'
<1> USE NoIdAssumption, FaultAssumption
    DEF IInv, TypeOK, Idling, LeaseExclusive, Private, OneBody,
        Faultless, Placed, Undisturbed, Filed, IndexBacked, RecoverySafe,
        MidMove, QueuePair, FailedPair, WorkerHold, Detached, Harmless,
        Holds, HoldPCs, CommitPCs, RequeuePCs, DiscardPCs, SweepPCs,
        files, memory, flags, Begin, Step, End, Ok, Fault, Becomes,
        Unlink, Rename, Known
<1>1. ASSUME NEW id \in Ids, Discard(p, id)
      PROVE  Faultless' /\ IndexBacked' /\ RecoverySafe'
  BY <1>1 DEF Discard, TryLease
<1>2. CASE DiscardQBody(p)
  BY <1>2 DEF DiscardQBody, RemoveOne
<1>3. CASE DiscardQMeta(p)
  BY <1>3 DEF DiscardQMeta, RemoveOne
<1>4. CASE DiscardFBody(p)
  BY <1>4 DEF DiscardFBody, RemoveOne
<1>5. CASE DiscardFMeta(p)
  BY <1>5 DEF DiscardFMeta, RemoveOne
<1>6. CASE DiscardCheck(p)
  BY <1>6 DEF DiscardCheck
<1>7. CASE DiscardFDrop(p)
  BY <1>7 DEF DiscardFDrop
<1>8. CASE DiscardFree(p)
  BY <1>8 DEF DiscardFree
<1> QED
  BY <1>1, <1>2, <1>3, <1>4, <1>5, <1>6, <1>7, <1>8 DEF DiscardNext

\* While no file operation fails, a step of the retention sweep keeps every
\* accepted message recoverable and every index entry backed by files.
LEMMA SweepSafe ==
  ASSUME IInv, TypeOK', Idling', LeaseExclusive',
         NEW p \in Procs, SweepNext(p)
  PROVE  Faultless' /\ IndexBacked' /\ RecoverySafe'
<1> USE NoIdAssumption, FaultAssumption
    DEF IInv, TypeOK, Idling, LeaseExclusive, Private, OneBody,
        Faultless, Placed, Undisturbed, Filed, IndexBacked, RecoverySafe,
        MidMove, QueuePair, FailedPair, WorkerHold, Detached, Harmless,
        Holds, HoldPCs, CommitPCs, RequeuePCs, DiscardPCs, SweepPCs,
        files, memory, flags, Begin, Step, End, Ok, Fault, Becomes,
        Unlink, Rename, Known
<1>1. ASSUME NEW id \in Ids, Sweep(p, id)
      PROVE  Faultless' /\ IndexBacked' /\ RecoverySafe'
  BY <1>1 DEF Sweep
<1>2. CASE SweepMeta(p)
  BY <1>2 DEF SweepMeta, SweepOne
<1>3. CASE SweepBody(p)
  BY <1>3 DEF SweepBody, SweepOne
<1>4. CASE SweepDrop(p)
  BY <1>4 DEF SweepDrop
<1> QED
  BY <1>1, <1>2, <1>3, <1>4 DEF SweepNext

-----------------------------------------------------------------------------
(* Crash, recovery, and the theorems.                                      *)

\* A crash forgets the memory and leaves the files, at any point of any call.
LEMMA CrashKeeps ==
  ASSUME IInv, Crash
  PROVE  IInv'
BY NoIdAssumption
DEF IInv, Crash, TypeOK, Idling, LeaseExclusive, Private, OneBody,
    Faultless, Placed, Undisturbed, Filed, IndexBacked, RecoverySafe, MidMove,
    QueuePair, FailedPair, WorkerHold, Detached, Harmless, PCs,
    Holds, HoldPCs, CommitPCs, RequeuePCs, DiscardPCs, SweepPCs, files

\* Open and recover, whatever they fail to read or unlink, rebuild an index
\* that satisfies the invariant.
LEMMA RecoverKeeps ==
  ASSUME IInv, Recover
  PROVE  IInv'
<1>0. PICK unread \in SUBSET QueuePair :
        \E kept \in SUBSET ((qBody \cup qMeta) \ (QueuePair \ unread)) :
          RecoverExcept(unread, kept)
  BY DEF Recover
<1>1. PICK kept \in SUBSET ((qBody \cup qMeta) \ (QueuePair \ unread)) :
        RecoverExcept(unread, kept)
  BY <1>0
<1> USE <1>1 DEF RecoverExcept
<1>2. unread \subseteq Ids /\ kept \subseteq Ids
  BY DEF IInv, TypeOK, QueuePair
<1>3. IsFiniteSet(unread) /\ IsFiniteSet(kept)
  BY <1>2, IdsAssumption, FS_Subset
<1>4. Cardinality(unread) \in Nat /\ Cardinality(kept) \in Nat
  BY <1>3, FS_CardinalityType
<1>5. /\ faults' \in Nat
      /\ faults' = 0 => faults = 0 /\ unread = {} /\ kept = {}
  <2>1. /\ faults' \in Nat
        /\ faults' = 0 => /\ faults = 0
                          /\ Cardinality(unread) = 0 /\ Cardinality(kept) = 0
    BY <1>4 DEF IInv, TypeOK
  <2>2. /\ Cardinality(unread) = 0 => unread = {}
        /\ Cardinality(kept) = 0 => kept = {}
    BY <1>3, FS_EmptySet
  <2> QED
    BY <2>1, <2>2
<1>6. \A p \in Procs : pc[p] = "idle" /\ cur[p] = NoId
  BY DEF IInv, Idling
<1>7. TypeOK' /\ Idling'
  BY <1>2, <1>5, <1>6 DEF IInv, TypeOK, Idling, QueuePair, Fates, flags
<1>8. LeaseExclusive' /\ Private' /\ OneBody'
  BY <1>2, <1>6
  DEF IInv, TypeOK, Idling, LeaseExclusive, Private, OneBody, QueuePair,
      Holds, HoldPCs, CommitPCs, RequeuePCs, DiscardPCs, flags
<1>9. Faultless'
  BY <1>5, <1>6
  DEF IInv, Faultless, Placed, Undisturbed, Filed, WorkerHold, Detached, flags
<1>10. IndexBacked' /\ RecoverySafe'
  BY <1>2, <1>5
  DEF IInv, TypeOK, IndexBacked, RecoverySafe, QueuePair, FailedPair
<1> QED
  BY <1>7, <1>8, <1>9, <1>10 DEF IInv

\* A step that changes nothing keeps the invariant.
LEMMA StutterKeeps ==
  ASSUME IInv, UNCHANGED vars
  PROVE  IInv'
BY DEF vars, IInv, TypeOK, Idling, LeaseExclusive, Private, OneBody,
       Faultless, Placed, Undisturbed, Filed, IndexBacked, RecoverySafe,
       MidMove, QueuePair, FailedPair, Holds

\* The empty spool satisfies the invariant.
LEMMA InitHolds == Init => IInv
BY NoIdAssumption
DEF Init, IInv, TypeOK, Idling, LeaseExclusive, Private, OneBody,
    Faultless, Placed, Undisturbed, Filed, IndexBacked, RecoverySafe,
    QueuePair, FailedPair, Holds, HoldPCs, WorkerHold, Detached, PCs, Fates,
    CommitPCs, RequeuePCs, DiscardPCs

\* The invariant is inductive: every file operation and critical section of
\* the spool, a crash and a recovery preserve it.
LEMMA StepKeeps == IInv /\ [Next]_vars => IInv'
<1> SUFFICES ASSUME IInv, [Next]_vars PROVE IInv'
  OBVIOUS
<1>1. ASSUME NEW p \in Procs, CommitNext(p) PROVE IInv'
  BY <1>1, CommitTyped, CommitLeases, CommitSafe DEF IInv
<1>2. ASSUME NEW p \in Procs, WorkerNext(p) PROVE IInv'
  BY <1>2, WorkerTyped, WorkerLeases, WorkerSafe DEF IInv
<1>3. ASSUME NEW p \in Procs, RequeueNext(p) PROVE IInv'
  BY <1>3, RequeueTyped, RequeueLeases, RequeueSafe DEF IInv
<1>4. ASSUME NEW p \in Procs, DiscardNext(p) PROVE IInv'
  BY <1>4, DiscardTyped, DiscardLeases, DiscardSafe DEF IInv
<1>5. ASSUME NEW p \in Procs, SweepNext(p) PROVE IInv'
  BY <1>5, SweepTyped, SweepLeases, SweepSafe DEF IInv
<1> QED
  BY <1>1, <1>2, <1>3, <1>4, <1>5, CrashKeeps, RecoverKeeps, StutterKeeps
  DEF Next

\* The inductive invariant holds of every behaviour of the spool.
THEOREM Invariance == Spec => []IInv
<1> QED
  BY InitHolds, StepKeeps, PTL DEF Spec

\* Every variable of the spool keeps its type through every call, crash and
\* recovery.
THEOREM TypeCorrect == Spec => []TypeOK
<1>1. IInv => TypeOK
  BY DEF IInv
<1> QED
  BY <1>1, Invariance, PTL

\* No two of the callers of ClaimBatch and tryLease ever hold the same
\* message, and no lease is left behind by Defer, Release, Remove, Fail,
\* Requeue or Discard, for any number of callers and messages and whichever
\* file operations fail.
THEOREM LeasesAreExclusive == Spec => []LeaseExclusive
<1>1. IInv => LeaseExclusive
  BY DEF IInv
<1> QED
  BY <1>1, Invariance, PTL

\* While no file operation has failed, a crash at any moment leaves every
\* accepted message as a complete pair in one directory, unless it is inside
\* one of the two moves that split the pair (Fail, requeueFailed).
THEOREM CrashSafety == Spec => []RecoverySafe
<1>1. IInv => RecoverySafe
  BY DEF IInv
<1> QED
  BY <1>1, Invariance, PTL

\* While no file operation has failed, the files of a message in the index
\* are in the queue directory unless a Discard is unlinking them, so OpenBody
\* finds what ClaimBatch hands out.
THEOREM IndexIsBacked == Spec => []IndexBacked
<1>1. IInv => IndexBacked
  BY DEF IInv
<1> QED
  BY <1>1, Invariance, PTL

-----------------------------------------------------------------------------
(* What has ended stays ended, and nothing is stranded: definitions.  What *)
(* follows does not need the absence of faults unless it says so.          *)

\* A requeue from spool/failed between its body's move and its index entry.
Moving == {"q_meta", "q_back", "q_fmeta", "q_sync", "q_fput"}

\* The index at each point of the calls, as Placed has it, but whatever has
\* failed; and a body that Detached or Moving actors work on is not in
\* spool/failed.
Stands(p) ==
  /\ pc[p] \in WorkerHold \cup {"q_live", "q_put", "q_fdrop"} =>
       cur[p] \in index
  /\ pc[p] \in Moving \cup {"q_find", "q_body", "d_fdrop"} =>
       cur[p] \notin index
  /\ pc[p] \in Detached => cur[p] \notin index
  /\ pc[p] \in Detached \cup Moving => cur[p] \notin fBody
  /\ pc[p] \in {"w_sent", "r_body", "r_meta"} => fate[cur[p]] # "accepted"

\* One actor at most is past its lease with files still to touch, and then
\* nobody is moving the message back.
OneTail ==
  /\ \A p, r \in Procs :
       pc[p] \in Detached /\ pc[r] \in Detached \cup Moving /\ cur[p] = cur[r]
         => p = r
  /\ index \cap fBody = {}

\* What a Discard without a failed unlink has already erased, for good.
Erased(p) ==
  /\ pc[p] = "d_fdrop" => p \notin bad
  /\ p \notin bad =>
       /\ pc[p] \in {"d_qmeta", "d_fbody", "d_fmeta", "d_check", "d_fdrop"} =>
            cur[p] \notin qBody
       /\ pc[p] \in {"d_fbody", "d_fmeta", "d_check", "d_fdrop"} =>
            cur[p] \notin qMeta
       /\ pc[p] \in {"d_fmeta", "d_check", "d_fdrop"} => cur[p] \notin fBody
       /\ pc[p] \in {"d_check", "d_fdrop"} => cur[p] \notin fMeta

\* What the error returns of Commit and the unlinks of Remove have left, in
\* terms of the failures it took to get there.
Counted(p) ==
  /\ pc[p] \in {"c_meta", "c_undo"} => cur[p] \notin qMeta
  /\ pc[p] \in {"c_undo", "c_rmbody", "c_rmmeta", "q_back"} => faults >= 1
  /\ pc[p] = "c_rmmeta" /\ faults <= 1 => cur[p] \notin qBody
  /\ pc[p] = "r_meta" /\ faults = 0 => cur[p] \notin qBody

\* No files to come back with, and nobody who would bring it back.
Buried(id) ==
  /\ id \notin index \cup QueuePair \cup fBody
  /\ \A p \in Procs : cur[p] = id =>
       /\ pc[p] \in Harmless \cup Detached
       /\ pc[p] \in Detached => id \notin qBody

Ended ==
  \A id \in Ids :
    /\ fate[id] = "discarded" =>
         Buried(id) /\ id \notin qBody \cup qMeta \cup fBody \cup fMeta
    /\ fate[id] \in {"done", "refused"} /\ faults <= 1 => Buried(id)

\* While nothing has failed, a body in the queue directory is in the index
\* or in the hands of somebody who will put it there or take it away.
Minding == {"c_meta", "c_sync", "c_put", "r_body", "f_meta", "f_body",
            "q_meta", "q_fmeta", "q_sync", "q_fput"}
Minded ==
  up /\ faults = 0 =>
    \A id \in qBody \ index :
      \E p \in Procs : cur[p] = id /\ pc[p] \in Minding

Standing == OneTail /\ \A p \in Procs : Stands(p) /\ Erased(p) /\ Counted(p)

JInv == IInv /\ Standing /\ Ended /\ Minded

-----------------------------------------------------------------------------
(* What has ended stays ended: the steps.                                  *)

\* Who else may be at work on a message whose lease somebody has given up.
LEMMA Company ==
  ASSUME JInv, NEW p \in Procs, NEW r \in Procs, r # p, cur[r] = cur[p],
         pc[p] \in Detached
  PROVE  pc[r] \in Harmless
<1>1. cur[p] \notin index /\ cur[p] # NoId
  BY NoIdAssumption DEF JInv, IInv, Idling, Standing, Stands, Detached
<1>2. pc[r] \notin WorkerHold \cup {"q_live", "q_put", "q_fdrop"}
  BY <1>1 DEF JInv, Standing, Stands
<1>3. pc[r] \notin Detached \cup Moving
  BY DEF JInv, Standing, OneTail
<1>4. pc[r] \notin CommitPCs
  BY <1>1 DEF JInv, IInv, Private, Detached, CommitPCs
<1>5. pc[r] # "idle" /\ pc[r] \in PCs
  BY <1>1 DEF JInv, IInv, Idling, TypeOK
<1> QED
  BY <1>2, <1>3, <1>4, <1>5
  DEF PCs, WorkerPCs, RequeuePCs, WorkerHold, Detached, Moving, Harmless

\* Remove's last unlink: with one failure at most, one of the files is gone.
LEMMA RemoveMetaEnds ==
  ASSUME JInv, IInv', NEW p \in Procs, RemoveMeta(p)
  PROVE  Ended' /\ Minded'
<1> DEFINE m == cur[p]
<1>1. /\ pc[p] = "r_meta" /\ up
      /\ pc' = [pc EXCEPT ![p] = "idle"] /\ cur' = [cur EXCEPT ![p] = NoId]
      /\ fate' = [fate EXCEPT ![m] = "done"]
      /\ UNCHANGED <<qBody, fBody, fMeta, index>>
      /\ \/ qMeta' = qMeta \ {m} /\ faults' = faults
         \/ qMeta' = qMeta /\ faults' = faults + 1
  BY DEF RemoveMeta, End, Unlink, Ok, Fault, Becomes, memory
<1>2. PICK id \in Ids : id = m /\ id # NoId
  BY <1>1, NoIdAssumption DEF JInv, IInv, TypeOK, Idling
<1>3. /\ pc \in [Procs -> PCs] /\ cur \in [Procs -> Ids \cup {NoId}]
      /\ fate \in [Ids -> Fates] /\ faults \in Nat
  BY DEF JInv, IInv, TypeOK
<1>4. /\ pc'[p] = "idle" /\ cur'[p] = NoId
      /\ \A r \in Procs : r # p => pc'[r] = pc[r] /\ cur'[r] = cur[r]
      /\ fate'[id] = "done" /\ \A n \in Ids : n # id => fate'[n] = fate[n]
  BY <1>1, <1>2, <1>3
<1>5. id \notin index \cup fBody
  BY <1>1, <1>2 DEF JInv, Standing, Stands, Detached
<1>6. \A r \in Procs : cur'[r] = id => pc'[r] \in Harmless
  BY <1>1, <1>2, <1>4, Company DEF Detached
<1>7. faults' <= 1 => id \notin qBody \cap qMeta'
  BY <1>1, <1>2, <1>3 DEF JInv, Standing, Counted
<1>8. faults' <= 1 => Buried(id)'
  BY <1>1, <1>5, <1>6, <1>7 DEF Buried, QueuePair, Harmless, Detached,
     DiscardPCs, SweepPCs
<1>9. ASSUME NEW n \in Ids, n # id PROVE Buried(n) => Buried(n)'
  BY <1>1, <1>2, <1>4, <1>9, NoIdAssumption DEF Buried, QueuePair
<1>10. Ended'
  BY <1>1, <1>2, <1>3, <1>4, <1>8, <1>9 DEF JInv, Ended
<1>11. Minded'
  <2> SUFFICES ASSUME faults' = 0, NEW n \in qBody \ index
               PROVE  \E r \in Procs : cur'[r] = n /\ pc'[r] \in Minding
    BY <1>1 DEF Minded
  <2>1. faults = 0 /\ n \in Ids
    BY <1>1, <1>3 DEF JInv, IInv, TypeOK
  <2>2. PICK r \in Procs : cur[r] = n /\ pc[r] \in Minding
    BY <1>1, <2>1 DEF JInv, Minded
  <2>3. r # p
    BY <1>1, <2>2 DEF Minding
  <2> QED
    BY <1>4, <2>2, <2>3
<1> QED
  BY <1>10, <1>11

\* The end of a Discard that met no error: the four files are gone, and
\* whoever else is at work on the message finds nothing.
LEMMA DiscardFDropEnds ==
  ASSUME JInv, IInv', NEW p \in Procs, DiscardFDrop(p)
  PROVE  Ended' /\ Minded'
<1> DEFINE m == cur[p]
<1>1. /\ pc[p] = "d_fdrop" /\ up /\ cur' = cur
      /\ pc' = [pc EXCEPT ![p] = "d_free"]
      /\ fate' = [fate EXCEPT ![m] = IF p \in hit /\ fate[m] = "doomed"
                                       THEN "discarded" ELSE fate[m]]
      /\ UNCHANGED <<qBody, qMeta, fBody, fMeta, index, faults>>
  BY DEF DiscardFDrop, Step, Becomes, files
<1>2. PICK id \in Ids : id = m /\ id # NoId
  BY <1>1, NoIdAssumption DEF JInv, IInv, TypeOK, Idling
<1>3. /\ pc \in [Procs -> PCs] /\ fate \in [Ids -> Fates]
  BY DEF JInv, IInv, TypeOK
<1>4. /\ pc'[p] = "d_free"
      /\ \A r \in Procs : r # p => pc'[r] = pc[r]
      /\ \A n \in Ids : n # id => fate'[n] = fate[n]
      /\ fate'[id] = fate[id] \/ fate'[id] = "discarded"
  BY <1>1, <1>2, <1>3
<1>5. id \notin index \cup qBody \cup qMeta \cup fBody \cup fMeta
  BY <1>1, <1>2 DEF JInv, Standing, Stands, Erased
<1>6. ASSUME NEW r \in Procs, r # p, cur[r] = id
      PROVE  pc[r] \in Harmless \cup Detached
  <2>1. pc[r] \notin HoldPCs
    BY <1>1, <1>2, <1>6
    DEF JInv, IInv, LeaseExclusive, Holds, HoldPCs, DiscardPCs
  <2>2. pc[r] \notin CommitPCs
    BY <1>1, <1>2, <1>6 DEF JInv, IInv, Private, CommitPCs
  <2>3. pc[r] # "idle" /\ pc[r] \in PCs
    BY <1>2, <1>6 DEF JInv, IInv, Idling, TypeOK
  <2> QED
    BY <2>1, <2>2, <2>3
    DEF PCs, WorkerPCs, HoldPCs, Harmless, Detached
<1>7. Buried(id)'
  BY <1>1, <1>4, <1>5, <1>6 DEF Buried, QueuePair, Harmless, DiscardPCs
<1>8. ASSUME NEW n \in Ids, n # id PROVE Buried(n) => Buried(n)'
  BY <1>1, <1>2, <1>4, <1>8 DEF Buried, QueuePair
<1>9. Ended'
  BY <1>1, <1>2, <1>4, <1>5, <1>7, <1>8 DEF JInv, Ended
<1>10. Minded'
  BY <1>1, <1>3, <1>4 DEF JInv, Minded, Minding
<1> QED
  BY <1>9, <1>10

\* A step of Commit and its error returns leaves every actor where the index
\* and the files say it stands.
LEMMA CommitStays ==
  ASSUME JInv, IInv', NEW p \in Procs, CommitNext(p)
  PROVE  Standing'
<1> USE NoIdAssumption, FaultAssumption
    DEF JInv, IInv, TypeOK, Idling, LeaseExclusive, Private, OneBody,
        Standing, OneTail, Stands, Erased, Counted, Moving, WorkerHold,
        Detached, Holds, HoldPCs, CommitPCs, RequeuePCs, DiscardPCs,
        SweepPCs, files, memory, flags, Begin, Step, End, Ok, Fault,
        Becomes, Unlink, Rename, Known
<1>1. ASSUME NEW id \in Ids, CommitRefuse(p, id)
      PROVE  Standing'
  BY <1>1 DEF CommitRefuse
<1>2. ASSUME NEW id \in Ids, CommitBody(p, id)
      PROVE  Standing'
  BY <1>2 DEF CommitBody
<1>3. CASE CommitMeta(p)
  BY <1>3 DEF CommitMeta
<1>4. CASE CommitUndo(p)
  BY <1>4 DEF CommitUndo
<1>5. CASE CommitSync(p)
  BY <1>5 DEF CommitSync
<1>6. CASE CommitRmBody(p)
  BY <1>6 DEF CommitRmBody
<1>7. CASE CommitRmMeta(p)
  BY <1>7 DEF CommitRmMeta
<1>8. CASE CommitPut(p)
  BY <1>8 DEF CommitPut
<1> QED
  BY <1>1, <1>2, <1>3, <1>4, <1>5, <1>6, <1>7, <1>8 DEF CommitNext

\* A step of Claim, Defer, Release, Remove or Fail leaves every actor where
\* the index and the files say it stands.
LEMMA WorkerStays ==
  ASSUME JInv, IInv', NEW p \in Procs, WorkerNext(p)
  PROVE  Standing'
<1> USE NoIdAssumption, FaultAssumption
    DEF JInv, IInv, TypeOK, Idling, LeaseExclusive, Private, OneBody,
        Standing, OneTail, Stands, Erased, Counted, Moving, WorkerHold,
        Detached, Holds, HoldPCs, CommitPCs, RequeuePCs, DiscardPCs,
        SweepPCs, files, memory, flags, Begin, Step, End, Ok, Fault,
        Becomes, Unlink, Rename, Known
<1>1. ASSUME NEW id \in Ids, Claim(p, id)
      PROVE  Standing'
  BY <1>1 DEF Claim
<1>2. CASE Defer(p)
  BY <1>2 DEF Defer
<1>3. CASE ReleaseWrite(p)
  BY <1>3 DEF ReleaseWrite
<1>4. CASE ReleasePut(p)
  BY <1>4 DEF ReleasePut
<1>5. CASE Transmit(p)
  BY <1>5 DEF Transmit
<1>6. CASE RemoveDrop(p)
  BY <1>6 DEF RemoveDrop
<1>7. CASE RemoveBody(p)
  BY <1>7 DEF RemoveBody
<1>8. CASE RemoveMeta(p)
  BY <1>8 DEF RemoveMeta
<1>9. CASE FailWrite(p)
  BY <1>9 DEF FailWrite
<1>10. CASE FailDrop(p)
  BY <1>10 DEF FailDrop
<1>11. CASE FailMeta(p)
  BY <1>11 DEF FailMeta
<1>12. CASE FailBody(p)
  BY <1>12 DEF FailBody
<1>13. CASE FailPut(p)
  BY <1>13 DEF FailPut
<1> QED
  BY <1>1, <1>2, <1>3, <1>4, <1>5, <1>6, <1>7, <1>8, <1>9,
     <1>10, <1>11, <1>12, <1>13
  DEF WorkerNext

\* A step of Requeue leaves every actor where the index and the files say it
\* stands.
LEMMA RequeueStays ==
  ASSUME JInv, IInv', NEW p \in Procs, RequeueNext(p)
  PROVE  Standing'
<1> USE NoIdAssumption, FaultAssumption
    DEF JInv, IInv, TypeOK, Idling, LeaseExclusive, Private, OneBody,
        Standing, OneTail, Stands, Erased, Counted, Moving, WorkerHold,
        Detached, Holds, HoldPCs, CommitPCs, RequeuePCs, DiscardPCs,
        SweepPCs, files, memory, flags, Begin, Step, End, Ok, Fault,
        Becomes, Unlink, Rename, Known
<1>1. ASSUME NEW id \in Ids, Requeue(p, id)
      PROVE  Standing'
  BY <1>1 DEF Requeue, TryLease
<1>2. CASE RequeueRead(p)
  BY <1>2 DEF RequeueRead
<1>3. CASE RequeueLive(p)
  BY <1>3 DEF RequeueLive
<1>4. CASE RequeuePut(p)
  BY <1>4 DEF RequeuePut
<1>5. CASE RequeueFind(p)
  BY <1>5 DEF RequeueFind
<1>6. CASE RequeueBody(p)
  BY <1>6 DEF RequeueBody
<1>7. CASE RequeueMeta(p)
  BY <1>7 DEF RequeueMeta
<1>8. CASE RequeueBack(p)
  BY <1>8 DEF RequeueBack
<1>9. CASE RequeueFMeta(p)
  BY <1>9 DEF RequeueFMeta
<1>10. CASE RequeueSync(p)
  BY <1>10 DEF RequeueSync
<1>11. CASE RequeueFPut(p)
  BY <1>11 DEF RequeueFPut
<1>12. CASE RequeueFDrop(p)
  BY <1>12 DEF RequeueFDrop
<1>13. CASE RequeueFree(p)
  BY <1>13 DEF RequeueFree
<1> QED
  BY <1>1, <1>2, <1>3, <1>4, <1>5, <1>6, <1>7, <1>8, <1>9,
     <1>10, <1>11, <1>12, <1>13
  DEF RequeueNext

\* A step of Discard leaves every actor where the index and the files say it
\* stands.
LEMMA DiscardStays ==
  ASSUME JInv, IInv', NEW p \in Procs, DiscardNext(p)
  PROVE  Standing'
<1> USE NoIdAssumption, FaultAssumption
    DEF JInv, IInv, TypeOK, Idling, LeaseExclusive, Private, OneBody,
        Standing, OneTail, Stands, Erased, Counted, Moving, WorkerHold,
        Detached, Holds, HoldPCs, CommitPCs, RequeuePCs, DiscardPCs,
        SweepPCs, files, memory, flags, Begin, Step, End, Ok, Fault,
        Becomes, Unlink, Rename, Known
<1>1. ASSUME NEW id \in Ids, Discard(p, id)
      PROVE  Standing'
  BY <1>1 DEF Discard, TryLease
<1>2. CASE DiscardQBody(p)
  BY <1>2 DEF DiscardQBody, RemoveOne
<1>3. CASE DiscardQMeta(p)
  BY <1>3 DEF DiscardQMeta, RemoveOne
<1>4. CASE DiscardFBody(p)
  BY <1>4 DEF DiscardFBody, RemoveOne
<1>5. CASE DiscardFMeta(p)
  BY <1>5 DEF DiscardFMeta, RemoveOne
<1>6. CASE DiscardCheck(p)
  BY <1>6 DEF DiscardCheck
<1>7. CASE DiscardFDrop(p)
  BY <1>7 DEF DiscardFDrop
<1>8. CASE DiscardFree(p)
  BY <1>8 DEF DiscardFree
<1> QED
  BY <1>1, <1>2, <1>3, <1>4, <1>5, <1>6, <1>7, <1>8 DEF DiscardNext

\* A step of the retention sweep leaves every actor where the index and the
\* files say it stands.
LEMMA SweepStays ==
  ASSUME JInv, IInv', NEW p \in Procs, SweepNext(p)
  PROVE  Standing'
<1> USE NoIdAssumption, FaultAssumption
    DEF JInv, IInv, TypeOK, Idling, LeaseExclusive, Private, OneBody,
        Standing, OneTail, Stands, Erased, Counted, Moving, WorkerHold,
        Detached, Holds, HoldPCs, CommitPCs, RequeuePCs, DiscardPCs,
        SweepPCs, files, memory, flags, Begin, Step, End, Ok, Fault,
        Becomes, Unlink, Rename, Known
<1>1. ASSUME NEW id \in Ids, Sweep(p, id)
      PROVE  Standing'
  BY <1>1 DEF Sweep
<1>2. CASE SweepMeta(p)
  BY <1>2 DEF SweepMeta, SweepOne
<1>3. CASE SweepBody(p)
  BY <1>3 DEF SweepBody, SweepOne
<1>4. CASE SweepDrop(p)
  BY <1>4 DEF SweepDrop
<1> QED
  BY <1>1, <1>2, <1>3, <1>4 DEF SweepNext

\* A step of Commit and its error returns brings back nothing that has ended
\* and strands no message.
LEMMA CommitEnds ==
  ASSUME JInv, IInv', NEW p \in Procs, CommitNext(p)
  PROVE  Ended' /\ Minded'
<1> USE NoIdAssumption, FaultAssumption
    DEF JInv, IInv, TypeOK, Idling, LeaseExclusive, Private, OneBody,
        Standing, OneTail, Stands, Erased, Counted, Ended, Buried, Minded,
        Minding, Moving, WorkerHold, Detached, Harmless, QueuePair, Holds,
        HoldPCs, CommitPCs, RequeuePCs, DiscardPCs, SweepPCs, files, memory,
        flags, Begin, Step, End, Ok, Fault, Becomes, Unlink, Rename, Known
<1>1. ASSUME NEW id \in Ids, CommitRefuse(p, id)
      PROVE  Ended' /\ Minded'
  BY <1>1 DEF CommitRefuse
<1>2. ASSUME NEW id \in Ids, CommitBody(p, id)
      PROVE  Ended' /\ Minded'
  BY <1>2 DEF CommitBody
<1>3. CASE CommitMeta(p)
  BY <1>3 DEF CommitMeta
<1>4. CASE CommitUndo(p)
  BY <1>4 DEF CommitUndo
<1>5. CASE CommitSync(p)
  BY <1>5 DEF CommitSync
<1>6. CASE CommitRmBody(p)
  BY <1>6 DEF CommitRmBody
<1>7. CASE CommitRmMeta(p)
  BY <1>7 DEF CommitRmMeta
<1>8. CASE CommitPut(p)
  BY <1>8 DEF CommitPut
<1> QED
  BY <1>1, <1>2, <1>3, <1>4, <1>5, <1>6, <1>7, <1>8 DEF CommitNext

\* A step of Claim, Defer, Release, Remove or Fail brings back nothing that
\* has ended and strands no message.
LEMMA WorkerEnds ==
  ASSUME JInv, IInv', NEW p \in Procs, WorkerNext(p)
  PROVE  Ended' /\ Minded'
<1> USE NoIdAssumption, FaultAssumption
    DEF JInv, IInv, TypeOK, Idling, LeaseExclusive, Private, OneBody,
        Standing, OneTail, Stands, Erased, Counted, Ended, Buried, Minded,
        Minding, Moving, WorkerHold, Detached, Harmless, QueuePair, Holds,
        HoldPCs, CommitPCs, RequeuePCs, DiscardPCs, SweepPCs, files, memory,
        flags, Begin, Step, End, Ok, Fault, Becomes, Unlink, Rename, Known
<1>1. ASSUME NEW id \in Ids, Claim(p, id)
      PROVE  Ended' /\ Minded'
  BY <1>1 DEF Claim
<1>2. CASE Defer(p)
  BY <1>2 DEF Defer
<1>3. CASE ReleaseWrite(p)
  BY <1>3 DEF ReleaseWrite
<1>4. CASE ReleasePut(p)
  BY <1>4 DEF ReleasePut
<1>5. CASE Transmit(p)
  BY <1>5 DEF Transmit
<1>6. CASE RemoveDrop(p)
  BY <1>6 DEF RemoveDrop
<1>7. CASE RemoveBody(p)
  BY <1>7 DEF RemoveBody
<1>8. CASE RemoveMeta(p)
  BY <1>8, RemoveMetaEnds
<1>9. CASE FailWrite(p)
  BY <1>9 DEF FailWrite
<1>10. CASE FailDrop(p)
  BY <1>10 DEF FailDrop
<1>11. CASE FailMeta(p)
  BY <1>11 DEF FailMeta
<1>12. CASE FailBody(p)
  BY <1>12 DEF FailBody
<1>13. CASE FailPut(p)
  BY <1>13 DEF FailPut
<1> QED
  BY <1>1, <1>2, <1>3, <1>4, <1>5, <1>6, <1>7, <1>8, <1>9,
     <1>10, <1>11, <1>12, <1>13
  DEF WorkerNext

\* A step of Requeue brings back nothing that has ended and strands no
\* message.
LEMMA RequeueEnds ==
  ASSUME JInv, IInv', NEW p \in Procs, RequeueNext(p)
  PROVE  Ended' /\ Minded'
<1> USE NoIdAssumption, FaultAssumption
    DEF JInv, IInv, TypeOK, Idling, LeaseExclusive, Private, OneBody,
        Standing, OneTail, Stands, Erased, Counted, Ended, Buried, Minded,
        Minding, Moving, WorkerHold, Detached, Harmless, QueuePair, Holds,
        HoldPCs, CommitPCs, RequeuePCs, DiscardPCs, SweepPCs, files, memory,
        flags, Begin, Step, End, Ok, Fault, Becomes, Unlink, Rename, Known
<1>1. ASSUME NEW id \in Ids, Requeue(p, id)
      PROVE  Ended' /\ Minded'
  BY <1>1 DEF Requeue, TryLease
<1>2. CASE RequeueRead(p)
  BY <1>2 DEF RequeueRead
<1>3. CASE RequeueLive(p)
  BY <1>3 DEF RequeueLive
<1>4. CASE RequeuePut(p)
  BY <1>4 DEF RequeuePut
<1>5. CASE RequeueFind(p)
  BY <1>5 DEF RequeueFind
<1>6. CASE RequeueBody(p)
  BY <1>6 DEF RequeueBody
<1>7. CASE RequeueMeta(p)
  BY <1>7 DEF RequeueMeta
<1>8. CASE RequeueBack(p)
  BY <1>8 DEF RequeueBack
<1>9. CASE RequeueFMeta(p)
  BY <1>9 DEF RequeueFMeta
<1>10. CASE RequeueSync(p)
  BY <1>10 DEF RequeueSync
<1>11. CASE RequeueFPut(p)
  BY <1>11 DEF RequeueFPut
<1>12. CASE RequeueFDrop(p)
  BY <1>12 DEF RequeueFDrop
<1>13. CASE RequeueFree(p)
  BY <1>13 DEF RequeueFree
<1> QED
  BY <1>1, <1>2, <1>3, <1>4, <1>5, <1>6, <1>7, <1>8, <1>9,
     <1>10, <1>11, <1>12, <1>13
  DEF RequeueNext

\* A step of Discard brings back nothing that has ended and strands no
\* message.
LEMMA DiscardEnds ==
  ASSUME JInv, IInv', NEW p \in Procs, DiscardNext(p)
  PROVE  Ended' /\ Minded'
<1> USE NoIdAssumption, FaultAssumption
    DEF JInv, IInv, TypeOK, Idling, LeaseExclusive, Private, OneBody,
        Standing, OneTail, Stands, Erased, Counted, Ended, Buried, Minded,
        Minding, Moving, WorkerHold, Detached, Harmless, QueuePair, Holds,
        HoldPCs, CommitPCs, RequeuePCs, DiscardPCs, SweepPCs, files, memory,
        flags, Begin, Step, End, Ok, Fault, Becomes, Unlink, Rename, Known
<1>1. ASSUME NEW id \in Ids, Discard(p, id)
      PROVE  Ended' /\ Minded'
  BY <1>1 DEF Discard, TryLease
<1>2. CASE DiscardQBody(p)
  BY <1>2 DEF DiscardQBody, RemoveOne
<1>3. CASE DiscardQMeta(p)
  BY <1>3 DEF DiscardQMeta, RemoveOne
<1>4. CASE DiscardFBody(p)
  BY <1>4 DEF DiscardFBody, RemoveOne
<1>5. CASE DiscardFMeta(p)
  BY <1>5 DEF DiscardFMeta, RemoveOne
<1>6. CASE DiscardCheck(p)
  BY <1>6 DEF DiscardCheck
<1>7. CASE DiscardFDrop(p)
  BY <1>7, DiscardFDropEnds
<1>8. CASE DiscardFree(p)
  BY <1>8 DEF DiscardFree
<1> QED
  BY <1>1, <1>2, <1>3, <1>4, <1>5, <1>6, <1>7, <1>8 DEF DiscardNext

\* A step of the retention sweep brings back nothing that has ended and
\* strands no message.
LEMMA SweepEnds ==
  ASSUME JInv, IInv', NEW p \in Procs, SweepNext(p)
  PROVE  Ended' /\ Minded'
<1> USE NoIdAssumption, FaultAssumption
    DEF JInv, IInv, TypeOK, Idling, LeaseExclusive, Private, OneBody,
        Standing, OneTail, Stands, Erased, Counted, Ended, Buried, Minded,
        Minding, Moving, WorkerHold, Detached, Harmless, QueuePair, Holds,
        HoldPCs, CommitPCs, RequeuePCs, DiscardPCs, SweepPCs, files, memory,
        flags, Begin, Step, End, Ok, Fault, Becomes, Unlink, Rename, Known
<1>1. ASSUME NEW id \in Ids, Sweep(p, id)
      PROVE  Ended' /\ Minded'
  BY <1>1 DEF Sweep
<1>2. CASE SweepMeta(p)
  BY <1>2 DEF SweepMeta, SweepOne
<1>3. CASE SweepBody(p)
  BY <1>3 DEF SweepBody, SweepOne
<1>4. CASE SweepDrop(p)
  BY <1>4 DEF SweepDrop
<1> QED
  BY <1>1, <1>2, <1>3, <1>4 DEF SweepNext

\* A crash ends every call: what had ended has still no pair of files.
LEMMA CrashEnds ==
  ASSUME JInv, Crash
  PROVE  Standing' /\ Ended' /\ Minded'
<1>1. /\ ~up' /\ index' = {} /\ bad' = {}
      /\ \A p \in Procs : pc'[p] = "idle" /\ cur'[p] = NoId
      /\ UNCHANGED <<qBody, qMeta, fBody, fMeta, fate, faults>>
  BY DEF Crash, files
<1>2. Standing'
  BY <1>1 DEF Standing, OneTail, Stands, Erased, Counted, Moving, WorkerHold,
     Detached
<1>3. ASSUME NEW id \in Ids PROVE Buried(id) => Buried(id)'
  BY <1>1, NoIdAssumption DEF Buried, QueuePair
<1>4. Ended'
  BY <1>1, <1>3 DEF JInv, Ended
<1> QED
  BY <1>1, <1>2, <1>4 DEF Minded

\* A recovery indexes pairs only, makes none, and with one failure at most
\* leaves none that it has not indexed.
LEMMA RecoverEnds ==
  ASSUME JInv, IInv', Recover
  PROVE  Standing' /\ Ended' /\ Minded'
<1>0. PICK unread \in SUBSET QueuePair :
        \E kept \in SUBSET ((qBody \cup qMeta) \ (QueuePair \ unread)) :
          RecoverExcept(unread, kept)
  BY DEF Recover
<1>1. PICK kept \in SUBSET ((qBody \cup qMeta) \ (QueuePair \ unread)) :
        RecoverExcept(unread, kept)
  BY <1>0
<1>2. /\ ~up /\ index' = QueuePair \ unread
      /\ qBody' = (QueuePair \ unread) \cup (qBody \cap kept)
      /\ qMeta' = QueuePair \cup (qMeta \cap kept)
      /\ faults' = faults + Cardinality(unread) + Cardinality(kept)
      /\ UNCHANGED <<fBody, fMeta, pc, cur, bad>>
  BY <1>1 DEF RecoverExcept, flags
<1>3. unread \subseteq Ids /\ kept \subseteq Ids
  BY DEF JInv, IInv, TypeOK, QueuePair
<1>4. IsFiniteSet(unread) /\ IsFiniteSet(kept)
  BY <1>3, IdsAssumption, FS_Subset
<1>5. /\ Cardinality(unread) \in Nat /\ Cardinality(kept) \in Nat
      /\ Cardinality(unread) = 0 => unread = {}
      /\ Cardinality(kept) = 0 => kept = {}
  BY <1>4, FS_CardinalityType, FS_EmptySet
<1>6. faults \in Nat
  BY DEF JInv, IInv, TypeOK
<1>7. /\ faults' <= 1 => faults <= 1 /\ (unread = {} \/ kept = {})
      /\ faults' = 0 => unread = {} /\ kept = {}
  <2>1. \A x, y, z \in Nat :
          /\ x + y + z <= 1 => x <= 1 /\ (y = 0 \/ z = 0)
          /\ x + y + z = 0 => y = 0 /\ z = 0
    OBVIOUS
  <2>2. /\ faults' <= 1 =>
             faults <= 1 /\ (Cardinality(unread) = 0 \/ Cardinality(kept) = 0)
        /\ faults' = 0 => Cardinality(unread) = 0 /\ Cardinality(kept) = 0
    BY <1>2, <1>5, <1>6, <2>1
  <2> QED
    BY <1>5, <2>2
<1>8. \A p \in Procs : pc[p] = "idle" /\ cur[p] = NoId
  BY <1>2 DEF JInv, IInv, Idling
<1>9. index' \cap fBody = {}
  BY <1>2 DEF JInv, IInv, OneBody, QueuePair
<1>10. Standing'
  BY <1>2, <1>8, <1>9 DEF Standing, OneTail, Stands, Erased, Counted, Moving,
     WorkerHold, Detached
<1>11. QueuePair' \subseteq QueuePair
  BY <1>2 DEF QueuePair
<1>12. faults' <= 1 => QueuePair' \subseteq index'
  BY <1>2, <1>7 DEF QueuePair
<1>13. ASSUME NEW id \in Ids PROVE Buried(id) => Buried(id)'
  BY <1>2, <1>8, <1>11, NoIdAssumption DEF Buried
<1>14. ASSUME NEW id \in Ids,
              fate'[id] \in {"done", "refused", "discarded"},
              fate'[id] # fate[id]
       PROVE  fate[id] = "open" /\ fate'[id] = "refused" /\ id \notin index'
  BY <1>1, <1>14 DEF RecoverExcept, JInv, IInv, TypeOK
<1>15. ASSUME NEW id \in Ids, fate[id] = "open", id \notin index',
              faults' <= 1
       PROVE  Buried(id)'
  <2>1. id \notin fBody
    BY <1>15 DEF JInv, IInv, Private
  <2> QED
    BY <1>2, <1>8, <1>12, <1>15, <2>1, NoIdAssumption DEF Buried
<1>16. Ended'
  <2>1. ASSUME NEW id \in Ids, fate'[id] = "discarded"
        PROVE  /\ Buried(id)'
               /\ id \notin qBody' \cup qMeta' \cup fBody' \cup fMeta'
    BY <1>2, <1>13, <1>14, <2>1 DEF JInv, Ended, QueuePair
  <2>2. ASSUME NEW id \in Ids, fate'[id] \in {"done", "refused"},
               faults' <= 1
        PROVE  Buried(id)'
    BY <1>7, <1>13, <1>14, <1>15, <2>2 DEF JInv, Ended
  <2> QED
    BY <2>1, <2>2 DEF Ended
<1>17. Minded'
  BY <1>2, <1>7 DEF Minded
<1> QED
  BY <1>10, <1>16, <1>17

\* The extended invariant is inductive.
LEMMA StepEnds == JInv /\ [Next]_vars => JInv'
<1> SUFFICES ASSUME JInv, [Next]_vars PROVE JInv'
  OBVIOUS
<1>0. IInv'
  BY StepKeeps DEF JInv
<1>1. ASSUME NEW p \in Procs, CommitNext(p) PROVE JInv'
  BY <1>0, <1>1, CommitStays, CommitEnds DEF JInv
<1>2. ASSUME NEW p \in Procs, WorkerNext(p) PROVE JInv'
  BY <1>0, <1>2, WorkerStays, WorkerEnds DEF JInv
<1>3. ASSUME NEW p \in Procs, RequeueNext(p) PROVE JInv'
  BY <1>0, <1>3, RequeueStays, RequeueEnds DEF JInv
<1>4. ASSUME NEW p \in Procs, DiscardNext(p) PROVE JInv'
  BY <1>0, <1>4, DiscardStays, DiscardEnds DEF JInv
<1>5. ASSUME NEW p \in Procs, SweepNext(p) PROVE JInv'
  BY <1>0, <1>5, SweepStays, SweepEnds DEF JInv
<1>6. CASE Crash \/ Recover
  BY <1>0, <1>6, CrashEnds, RecoverEnds DEF JInv
<1>7. CASE UNCHANGED vars
  BY <1>0, <1>7
  DEF vars, JInv, Standing, OneTail, Stands, Erased, Counted, Ended, Buried,
      Minded, QueuePair
<1> QED
  BY <1>1, <1>2, <1>3, <1>4, <1>5, <1>6, <1>7 DEF Next

\* It holds of every behaviour of the spool.
THEOREM FatesInvariance == Spec => []JInv
<1>1. Init => JInv
  <2> SUFFICES ASSUME Init PROVE JInv
    OBVIOUS
  <2>1. Standing
    BY DEF Init, Standing, OneTail, Stands, Erased, Counted, Moving,
       WorkerHold, Detached
  <2>2. Ended /\ Minded
    BY DEF Init, Ended, Minded
  <2> QED
    BY <2>1, <2>2, InitHolds DEF JInv
<1> QED
  BY <1>1, StepEnds, PTL DEF Spec

\* With at most one failed file operation, what is over stays over, through
\* any number of crashes and restarts: a message delivered and removed, one
\* that Discard reported deleted and one whose Commit reported an error never
\* come back into the live queue.
THEOREM NeverBack == Spec => []NoResurrection
<1>1. JInv => NoResurrection
  BY DEF JInv, Ended, Buried, NoResurrection
<1> QED
  BY <1>1, FatesInvariance, PTL

\* A Discard that reported success has erased all four files for good,
\* whatever Fail, Remove, Requeue, a sweep or a recovery does afterwards and
\* whichever file operations fail.
THEOREM DiscardIsFinal == Spec => []DiscardErases
<1>1. JInv => DiscardErases
  BY DEF JInv, Ended, DiscardErases
<1> QED
  BY <1>1, FatesInvariance, PTL

\* While no file operation has failed, a body in the queue directory that
\* nobody is working on is in the index, so it will be attempted.
THEOREM NoneStranded == Spec => []NothingStranded
<1>1. JInv => NothingStranded
  BY DEF JInv, Minded, NothingStranded, Busy
<1> QED
  BY <1>1, FatesInvariance, PTL

\* Whatever fails, no step gives up the last body of a message that was
\* accepted and is neither delivered, discarded nor swept: Fail and Requeue
\* move it, the unlinks of Commit, Remove, Discard and the sweep are on
\* messages of another fate, or give it one.
THEOREM LastBodyKept == Spec => BodyKept
<1> DEFINE
  Kept == \A id \in Ids :
            fate[id] = "accepted" /\ fate'[id] = "accepted"
              /\ id \in qBody \cup fBody =>
            id \in qBody' \cup fBody'
<1>1. ASSUME JInv, NEW p \in Procs, CommitNext(p) PROVE Kept
  <2> USE DEF CommitNext, JInv, IInv, TypeOK, Private, CommitPCs, Begin, Step,
          End, Unlink, Becomes, files
  <2>1. CASE CommitUndo(p) \/ CommitRmBody(p)
    BY <1>1, <2>1 DEF CommitUndo, CommitRmBody
  <2>2. CASE ~(CommitUndo(p) \/ CommitRmBody(p))
    BY <1>1, <2>2
    DEF CommitRefuse, CommitBody, CommitMeta, CommitSync, CommitRmMeta,
        CommitPut
  <2> QED
    BY <2>1, <2>2
<1>2. ASSUME JInv, NEW p \in Procs, WorkerNext(p) PROVE Kept
  <2>1. CASE RemoveBody(p)
    BY <1>2, <2>1
    DEF RemoveBody, JInv, IInv, TypeOK, Standing, Stands, Step, Unlink
  <2>2. CASE FailBody(p)
    BY <1>2, <2>2 DEF FailBody, Rename
  <2>3. CASE ~RemoveBody(p) /\ ~FailBody(p)
    BY <1>2, <2>3
    DEF WorkerNext, Claim, Defer, ReleaseWrite, ReleasePut, Transmit,
        RemoveDrop, RemoveMeta, FailWrite, FailDrop, FailMeta, FailPut, files
  <2> QED
    BY <2>1, <2>2, <2>3
<1>3. ASSUME JInv, NEW p \in Procs, RequeueNext(p) PROVE Kept
  BY <1>3
  DEF RequeueNext, Requeue, TryLease, RequeueRead, RequeueLive, RequeuePut,
      RequeueFind, RequeueBody, RequeueMeta, RequeueBack, RequeueFMeta,
      RequeueSync, RequeueFPut, RequeueFDrop, RequeueFree, Rename, files
<1>4. ASSUME JInv, NEW p \in Procs, DiscardNext(p) PROVE Kept
  <2>1. CASE DiscardQBody(p) \/ DiscardFBody(p)
    BY <1>4, <2>1
    DEF DiscardQBody, DiscardFBody, RemoveOne, Becomes, JInv, IInv, TypeOK
  <2>2. CASE ~(DiscardQBody(p) \/ DiscardFBody(p))
    BY <1>4, <2>2
    DEF DiscardNext, Discard, TryLease, DiscardQMeta, DiscardFMeta,
        DiscardCheck, DiscardFDrop, DiscardFree, files
  <2> QED
    BY <2>1, <2>2
<1>5. ASSUME JInv, NEW p \in Procs, SweepNext(p) PROVE Kept
  <2>1. CASE SweepBody(p)
    BY <1>5, <2>1
    DEF SweepBody, SweepOne, Becomes, JInv, IInv, TypeOK, OneBody, QueuePair
  <2>2. CASE ~SweepBody(p)
    BY <1>5, <2>2 DEF SweepNext, Sweep, SweepMeta, SweepDrop, files
  <2> QED
    BY <2>1, <2>2
<1>6. ASSUME JInv, Crash PROVE Kept
  BY <1>6 DEF Crash, files
<1>7. ASSUME JInv, Recover PROVE Kept
  <2>1. PICK unread \in SUBSET QueuePair :
          \E kept \in SUBSET ((qBody \cup qMeta) \ (QueuePair \ unread)) :
            RecoverExcept(unread, kept)
    BY <1>7 DEF Recover
  <2>2. PICK kept \in SUBSET ((qBody \cup qMeta) \ (QueuePair \ unread)) :
          RecoverExcept(unread, kept)
    BY <2>1
  <2>3. \A id \in Ids : fate[id] = "accepted" /\ fate'[id] = "accepted" =>
          id \in (qBody' \cap qMeta') \cup FailedPair
    BY <2>2 DEF RecoverExcept
  <2> QED
    BY <2>2, <2>3 DEF RecoverExcept, FailedPair
<1>8. JInv /\ [Next]_vars =>
        [\A id \in Ids :
           fate[id] = "accepted" /\ fate'[id] = "accepted"
             /\ id \in qBody \cup fBody =>
           id \in qBody' \cup fBody']_vars
  BY <1>1, <1>2, <1>3, <1>4, <1>5, <1>6, <1>7 DEF Next
<1> QED
  BY <1>8, FatesInvariance, PTL DEF Spec, BodyKept

-----------------------------------------------------------------------------
(* The refinement of Custody.                                              *)

\* What the refinement needs beyond JInv, while nothing has failed: a body
\* belongs to a message that is still owed, in spool/failed with its
\* metadata unless a sweep has taken that; no live metadata lies beside a
\* failed body; and from the smarthost's answer to the end of Remove the
\* message is a delivered one.
Custodial ==
  faults = 0 =>
    /\ \A id \in Ids :
         /\ id \in qBody \cup fBody => fate[id] \in C!Owed \cup {"open"}
         /\ id \in fBody /\ fate[id] = "accepted" => id \in fMeta
    /\ qMeta \cap fBody = {}
    /\ \A p \in Procs :
         /\ pc[p] = "f_body" => cur[p] \notin qMeta
         /\ pc[p] \in {"w_sent", "r_body", "r_meta"} =>
              fate[cur[p]] = "delivered"

KInv == JInv /\ Custodial

\* An accepted message has a place while the process runs; one whose body is
\* in spool/failed has its metadata there.
LEMMA AcceptedPlaced ==
  ASSUME IInv, up, faults = 0, NEW id \in Ids, fate[id] = "accepted"
  PROVE  /\ id \in QueuePair \/ id \in FailedPair \/
              (id \in qBody /\ id \notin fBody /\ MidMove(id))
         /\ id \in fBody => id \in fMeta
<1>1. id \in QueuePair \/ id \in FailedPair \/ MidMove(id)
  BY DEF IInv, RecoverySafe
<1>2. MidMove(id) => id \in qBody
  BY DEF IInv, Faultless, Filed, MidMove
<1> QED
  BY <1>1, <1>2 DEF IInv, OneBody, QueuePair, FailedPair

\* A step of Commit and its error returns keeps what the refinement needs.
LEMMA CommitCustodial ==
  ASSUME KInv, JInv', NEW p \in Procs, CommitNext(p)
  PROVE  Custodial'
<1> USE NoIdAssumption, FaultAssumption
    DEF KInv, JInv, IInv, Custodial, C!Owed, TypeOK, Idling, Private, OneBody,
        Standing, Counted, Faultless, Filed, CommitPCs,
        files, memory, flags, Begin, Step, End, Ok, Fault, Becomes,
        Unlink, Rename
<1>1. ASSUME NEW id \in Ids, CommitRefuse(p, id)
      PROVE  Custodial'
  BY <1>1 DEF CommitRefuse
<1>2. ASSUME NEW id \in Ids, CommitBody(p, id)
      PROVE  Custodial'
  BY <1>2 DEF CommitBody
<1>3. CASE CommitMeta(p)
  BY <1>3 DEF CommitMeta
<1>4. CASE CommitUndo(p)
  BY <1>4 DEF CommitUndo
<1>5. CASE CommitSync(p)
  BY <1>5 DEF CommitSync
<1>6. CASE CommitRmBody(p)
  BY <1>6 DEF CommitRmBody
<1>7. CASE CommitRmMeta(p)
  BY <1>7 DEF CommitRmMeta
<1>8. CASE CommitPut(p)
  BY <1>8 DEF CommitPut
<1> QED
  BY <1>1, <1>2, <1>3, <1>4, <1>5, <1>6, <1>7, <1>8 DEF CommitNext

\* A step of Claim, Defer, Release, Remove or Fail keeps it.
LEMMA WorkerCustodial ==
  ASSUME KInv, JInv', NEW p \in Procs, WorkerNext(p)
  PROVE  Custodial'
<1> USE NoIdAssumption, FaultAssumption
    DEF KInv, JInv, IInv, Custodial, C!Owed, TypeOK, Idling, Private, OneBody,
        files, memory, flags, Begin, Step, End, Ok, Fault, Becomes,
        Unlink, Rename
<1>0. faults = 0 /\ pc[p] = "w_held" =>
        /\ cur[p] \notin fBody
        /\ \A r \in Procs : r # p /\ cur[r] = cur[p] => pc[r] # "f_body"
  <2> SUFFICES ASSUME faults = 0, pc[p] = "w_held"
               PROVE  /\ cur[p] \notin fBody
                      /\ \A r \in Procs : r # p /\ cur[r] = cur[p] =>
                                           pc[r] # "f_body"
    OBVIOUS
  <2>1. pc[p] \in WorkerHold
    BY DEF WorkerHold
  <2>2. IInv
    OBVIOUS
  <2> QED
    BY ONLY <2>1, <2>2, Alone, faults = 0 DEF SweepPCs
<1>1. ASSUME NEW id \in Ids, Claim(p, id)
      PROVE  Custodial'
  BY <1>1 DEF Claim
<1>2. CASE Defer(p)
  BY <1>2 DEF Defer
<1>3. CASE ReleaseWrite(p)
  BY <1>3, <1>0 DEF ReleaseWrite
<1>4. CASE ReleasePut(p)
  BY <1>4 DEF ReleasePut
<1>5. CASE Transmit(p)
  BY <1>5 DEF Transmit
<1>6. CASE RemoveDrop(p)
  BY <1>6 DEF RemoveDrop
<1>7. CASE RemoveBody(p)
  BY <1>7 DEF RemoveBody
<1>8. CASE RemoveMeta(p)
  <2> SUFFICES ASSUME faults' = 0 PROVE Custodial'
    OBVIOUS
  <2>1. /\ pc[p] = "r_meta" /\ cur[p] \in Ids
        /\ cur[p] \notin qBody \cup fBody
    BY <1>8 DEF RemoveMeta, Standing, Stands, Counted, Detached
  <2>2. \A r \in Procs : r # p /\ cur[r] = cur[p] =>
                         pc[r] \notin {"w_sent", "r_body", "r_meta", "f_body"}
    BY <2>1, Company
    DEF Detached, Harmless, DiscardPCs, SweepPCs
  <2> QED
    BY <1>8, <2>1, <2>2 DEF RemoveMeta
<1>9. CASE FailWrite(p)
  BY <1>9, <1>0 DEF FailWrite
<1>10. CASE FailDrop(p)
  BY <1>10 DEF FailDrop
<1>11. CASE FailMeta(p)
  BY <1>11 DEF FailMeta
<1>12. CASE FailBody(p)
  <2>1. faults = 0 /\ cur[p] \in qBody /\ fate[cur[p]] = "accepted" =>
          cur[p] \in fMeta
    BY <1>12 DEF FailBody, Faultless, Filed
  <2>2. cur[p] \in Ids
    BY <1>12 DEF FailBody
  <2> QED
    BY <1>12, <2>1, <2>2 DEF FailBody
<1>13. CASE FailPut(p)
  BY <1>13 DEF FailPut
<1> QED
  BY <1>1, <1>2, <1>3, <1>4, <1>5, <1>6, <1>7, <1>8, <1>9,
     <1>10, <1>11, <1>12, <1>13
  DEF WorkerNext

\* A step of Requeue keeps it.
LEMMA RequeueCustodial ==
  ASSUME KInv, JInv', NEW p \in Procs, RequeueNext(p)
  PROVE  Custodial'
<1> USE NoIdAssumption, FaultAssumption
    DEF KInv, JInv, IInv, Custodial, C!Owed, TypeOK, Idling, Private, OneBody,
        files, memory, flags, Begin, Step, End, Ok, Fault, Becomes,
        Unlink, Rename
<1>1. ASSUME NEW id \in Ids, Requeue(p, id)
      PROVE  Custodial'
  BY <1>1 DEF Requeue, TryLease
<1>2. CASE RequeueRead(p)
  BY <1>2 DEF RequeueRead
<1>3. CASE RequeueLive(p)
  BY <1>3
  DEF RequeueLive, Standing, Stands, OneTail, Detached, Faultless, Placed
<1>4. CASE RequeuePut(p)
  BY <1>4 DEF RequeuePut
<1>5. CASE RequeueFind(p)
  BY <1>5 DEF RequeueFind
<1>6. CASE RequeueBody(p)
  BY <1>6 DEF RequeueBody
<1>7. CASE RequeueMeta(p)
  BY <1>7 DEF RequeueMeta, Standing, Stands, OneTail, Moving, Detached
<1>8. CASE RequeueBack(p)
  BY <1>8 DEF RequeueBack, Standing, Counted
<1>9. CASE RequeueFMeta(p)
  BY <1>9 DEF RequeueFMeta, Standing, Stands, Moving
<1>10. CASE RequeueSync(p)
  BY <1>10 DEF RequeueSync
<1>11. CASE RequeueFPut(p)
  BY <1>11 DEF RequeueFPut
<1>12. CASE RequeueFDrop(p)
  BY <1>12 DEF RequeueFDrop
<1>13. CASE RequeueFree(p)
  BY <1>13 DEF RequeueFree
<1> QED
  BY <1>1, <1>2, <1>3, <1>4, <1>5, <1>6, <1>7, <1>8, <1>9,
     <1>10, <1>11, <1>12, <1>13
  DEF RequeueNext

\* A step of Discard keeps it.
LEMMA DiscardCustodial ==
  ASSUME KInv, JInv', NEW p \in Procs, DiscardNext(p)
  PROVE  Custodial'
<1> USE NoIdAssumption, FaultAssumption
    DEF KInv, JInv, IInv, Custodial, C!Owed, TypeOK, Idling, Private, OneBody,
        files, memory, flags, Begin, Step, End, Ok, Fault, Becomes,
        Unlink, Rename
<1>1. ASSUME NEW id \in Ids, Discard(p, id)
      PROVE  Custodial'
  BY <1>1 DEF Discard, TryLease
<1>2. CASE DiscardQBody(p)
  BY <1>2 DEF DiscardQBody, RemoveOne
<1>3. CASE DiscardQMeta(p)
  BY <1>3 DEF DiscardQMeta, RemoveOne, Standing, Erased, Faultless
<1>4. CASE DiscardFBody(p)
  BY <1>4 DEF DiscardFBody, RemoveOne, Standing, Erased, Faultless
<1>5. CASE DiscardFMeta(p)
  BY <1>5 DEF DiscardFMeta, RemoveOne, Standing, Erased, Faultless
<1>6. CASE DiscardCheck(p)
  BY <1>6 DEF DiscardCheck
<1>7. CASE DiscardFDrop(p)
  BY <1>7 DEF DiscardFDrop, Ended
<1>8. CASE DiscardFree(p)
  BY <1>8 DEF DiscardFree
<1> QED
  BY <1>1, <1>2, <1>3, <1>4, <1>5, <1>6, <1>7, <1>8
  DEF DiscardNext

\* A step of the retention sweep keeps it.
LEMMA SweepCustodial ==
  ASSUME KInv, JInv', NEW p \in Procs, SweepNext(p)
  PROVE  Custodial'
<1> USE NoIdAssumption, FaultAssumption
    DEF KInv, JInv, IInv, Custodial, C!Owed, TypeOK, Idling, Private, OneBody,
        files, memory, flags, Begin, Step, End, Ok, Fault, Becomes,
        Unlink, Rename
<1>1. ASSUME NEW id \in Ids, Sweep(p, id)
      PROVE  Custodial'
  BY <1>1 DEF Sweep
<1>2. CASE SweepMeta(p)
  BY <1>2 DEF SweepMeta, SweepOne, QueuePair
<1>3. CASE SweepBody(p)
  BY <1>3 DEF SweepBody, SweepOne, QueuePair
<1>4. CASE SweepDrop(p)
  BY <1>4 DEF SweepDrop
<1> QED
  BY <1>1, <1>2, <1>3, <1>4
  DEF SweepNext

\* A recovery in which nothing fails keeps the pairs, and nothing else, of
\* the queue directory.
LEMMA Recovered ==
  ASSUME IInv, Recover, faults' = 0
  PROVE  /\ faults = 0 /\ ~up /\ up'
         /\ qBody' = QueuePair /\ qMeta' = QueuePair
         /\ UNCHANGED <<fBody, fMeta, pc, cur>>
         /\ fate' = [id \in Ids |->
              CASE fate[id] = "open" ->
                     IF id \in QueuePair THEN "accepted" ELSE "refused"
                [] fate[id] = "accepted"
                     /\ id \notin QueuePair \cup FailedPair -> "lost"
                [] OTHER -> fate[id]]
<1>1. PICK unread \in SUBSET QueuePair :
        \E kept \in SUBSET ((qBody \cup qMeta) \ (QueuePair \ unread)) :
          RecoverExcept(unread, kept)
  BY DEF Recover
<1>2. PICK kept \in SUBSET ((qBody \cup qMeta) \ (QueuePair \ unread)) :
        RecoverExcept(unread, kept)
  BY <1>1
<1>3. IsFiniteSet(unread) /\ IsFiniteSet(kept)
  <2>1. unread \subseteq Ids /\ kept \subseteq Ids
    BY DEF IInv, TypeOK, QueuePair
  <2> QED
    BY <2>1, IdsAssumption, FS_Subset
<1>4. faults = 0 /\ Cardinality(unread) = 0 /\ Cardinality(kept) = 0
  BY <1>2, <1>3, FS_CardinalityType DEF RecoverExcept, IInv, TypeOK
<1>5. unread = {} /\ kept = {}
  BY <1>3, <1>4, FS_EmptySet
<1>6. index' = QueuePair /\ qBody' = QueuePair /\ qMeta' = QueuePair
  BY <1>2, <1>5 DEF RecoverExcept
<1>7. qBody' \cap qMeta' = QueuePair
  BY <1>6
<1> QED
  BY <1>2, <1>4, <1>6, <1>7 DEF RecoverExcept

\* A crash and a recovery keep it.
LEMMA RestartCustodial ==
  ASSUME KInv, JInv', Crash \/ Recover
  PROVE  Custodial'
<1>1. CASE Crash
  BY <1>1, NoIdAssumption
  DEF Crash, KInv, JInv, IInv, TypeOK, Custodial, files
<1>2. CASE Recover
  <2> SUFFICES ASSUME faults' = 0 PROVE Custodial'
    BY DEF Custodial
  <2>1. IInv
    BY DEF KInv, JInv
  <2>2. \A p \in Procs : pc[p] = "idle"
    BY <1>2, <2>1, Recovered DEF IInv, Idling
  <2>3. \A id \in Ids :
          /\ fate'[id] \in C!Owed \cup {"open"} =>
               fate[id] \in C!Owed \cup {"open"}
          /\ fate'[id] = "accepted" /\ id \notin QueuePair =>
               fate[id] = "accepted"
          /\ fate[id] \in C!Owed \cup {"open"} /\ id \in QueuePair =>
               fate'[id] \in C!Owed \cup {"open"}
          /\ fate[id] = "open" => id \notin fBody
          /\ fate[id] \in C!Owed /\ id \in fBody =>
               fate'[id] = fate[id]
    BY <1>2, <2>1, Recovered
    DEF C!Owed, KInv, IInv, Private, Custodial, FailedPair, QueuePair
  <2> QED
    BY <1>2, <2>1, <2>2, <2>3, Recovered
    DEF KInv, IInv, OneBody, Custodial, QueuePair, TypeOK
<1> QED
  BY <1>1, <1>2

\* The invariant the refinement rests on is inductive.
THEOREM CustodyInvariance == Spec => []KInv
<1>1. Init => Custodial
  BY DEF Init, Custodial
<1>2. JInv /\ JInv' /\ Custodial /\ [Next]_vars => Custodial'
  <2> SUFFICES ASSUME KInv, JInv', [Next]_vars PROVE Custodial'
    BY DEF KInv
  <2>1. CASE UNCHANGED vars
    BY <2>1 DEF vars, KInv, Custodial
  <2> QED
    BY <2>1, CommitCustodial, WorkerCustodial, RequeueCustodial,
       DiscardCustodial, SweepCustodial, RestartCustodial
    DEF Next
<1> QED
  BY <1>1, <1>2, FatesInvariance, PTL DEF Spec, KInv

\* The two program points between the halves of a move.
Halfway == {"f_body", "q_meta"}

\* A step of p that concerns message m alone.
Works(p, m) ==
  /\ up /\ up' /\ faults = 0 /\ faults' = 0
  /\ cur[p] \in {m, NoId} /\ cur'[p] \in {m, NoId}
  /\ \A r \in Procs : r # p => pc'[r] = pc[r] /\ cur'[r] = cur[r]
  /\ \A n \in Ids : n # m =>
       /\ n \in qBody' <=> n \in qBody
       /\ n \in qMeta' <=> n \in qMeta
       /\ n \in fBody' <=> n \in fBody
       /\ n \in fMeta' <=> n \in fMeta
       /\ fate'[n] = fate[n]

\* Somebody else is halfway through moving m.
Helped(p, m) == \E r \in Procs : r # p /\ cur[r] = m /\ pc[r] \in Halfway

\* It leaves every other message where it is.
LEMMA Elsewhere ==
  ASSUME NEW p \in Procs, NEW m \in Ids, Works(p, m)
  PROVE  /\ \A n \in Ids : n # m => PlaceOf(n)' = PlaceOf(n)
         /\ MidMove(m) <=> Helped(p, m) \/ (cur[p] = m /\ pc[p] \in Halfway)
         /\ MidMove(m)' <=>
              Helped(p, m) \/ (cur'[p] = m /\ pc'[p] \in Halfway)
<1>1. ASSUME NEW n \in Ids, n # m PROVE PlaceOf(n)' = PlaceOf(n)
  <2>1. MidMove(n)' <=> MidMove(n)
    BY <1>1, NoIdAssumption DEF Works, MidMove
  <2> QED
    BY <1>1, <2>1 DEF Works, PlaceOf, QueuePair, FailedPair, MidMove
<1> QED
  BY <1>1 DEF Works, MidMove, Helped, Halfway

\* What such a step makes of its message is what it does to all of them.
LEMMA Becoming ==
  ASSUME TypeOK, TypeOK', NEW p \in Procs, NEW m \in Ids, Works(p, m)
  PROVE  C!To(m, fate'[m], PlaceOf(m)')
<1>1. fate' = [fate EXCEPT ![m] = fate'[m]]
  BY DEF TypeOK, Works
<1>2. [id \in Ids |-> PlaceOf(id)]' =
        [[id \in Ids |-> PlaceOf(id)] EXCEPT ![m] = PlaceOf(m)']
  BY Elsewhere
<1> QED
  BY <1>1, <1>2 DEF Works, C!To

\* One that leaves its message alone too is no step of Custody.
LEMMA Remaining ==
  ASSUME TypeOK, TypeOK', NEW p \in Procs, NEW m \in Ids, Works(p, m),
         fate'[m] = fate[m], PlaceOf(m)' = PlaceOf(m)
  PROVE  UNCHANGED C!vars
<1>1. fate' = fate
  BY DEF TypeOK, Works
<1>2. [id \in Ids |-> PlaceOf(id)]' = [id \in Ids |-> PlaceOf(id)]
  BY Elsewhere
<1> QED
  BY <1>1, <1>2 DEF Works, TypeOK, C!vars

\* A step that touches neither files nor fates and neither begins nor ends
\* the second half of a move is none either.
LEMMA Quiet ==
  ASSUME UNCHANGED <<files, fate, up, faults>>, NEW p \in Procs,
         pc[p] \notin Halfway, pc'[p] \notin Halfway,
         \A r \in Procs : r # p => pc'[r] = pc[r] /\ cur'[r] = cur[r]
  PROVE  UNCHANGED C!vars
<1>1. ASSUME NEW n \in Ids PROVE PlaceOf(n)' = PlaceOf(n)
  <2>1. MidMove(n)' <=> MidMove(n)
    BY DEF MidMove, Halfway
  <2> QED
    BY <2>1 DEF PlaceOf, QueuePair, FailedPair, files, MidMove
<1>2. [id \in Ids |-> PlaceOf(id)]' = [id \in Ids |-> PlaceOf(id)]
  BY <1>1
<1> QED
  BY <1>2 DEF C!vars

\* Where such a step finds its message and where it leaves it.
LEMMA PlacedAt ==
  ASSUME NEW p \in Procs, NEW m \in Ids, Works(p, m)
  PROVE  /\ PlaceOf(m) =
              IF m \in qBody /\ m \in qMeta THEN "queue"
              ELSE IF m \in fBody /\ m \in fMeta THEN "failed"
              ELSE IF m \in qBody /\ (\/ Helped(p, m)
                                      \/ cur[p] = m /\ pc[p] \in Halfway)
                THEN "moving" ELSE "none"
         /\ PlaceOf(m)' =
              IF m \in qBody' /\ m \in qMeta' THEN "queue"
              ELSE IF m \in fBody' /\ m \in fMeta' THEN "failed"
              ELSE IF m \in qBody' /\ (\/ Helped(p, m)
                                       \/ cur'[p] = m /\ pc'[p] \in Halfway)
                THEN "moving" ELSE "none"
BY Elsewhere DEF PlaceOf, QueuePair, FailedPair, MidMove

\* Commit, as Custody sees it.
LEMMA CommitImplements ==
  ASSUME KInv, KInv', NEW p \in Procs, CommitNext(p), faults' = 0
  PROVE  C!Next \/ UNCHANGED C!vars
<1> USE NoIdAssumption, FaultAssumption
    DEF KInv, JInv, IInv, TypeOK, Idling, Private, CommitPCs, Halfway,
        files, memory, flags, Begin, Step, End, Ok, Fault, Becomes,
        Unlink, Rename
<1>1. ASSUME NEW id \in Ids, CommitRefuse(p, id)
      PROVE  C!Refuse(id)
  <2>1. Works(p, id)
    BY <1>1 DEF CommitRefuse, Works
  <2>2. fate[id] = "new" /\ fate'[id] = "refused" /\ PlaceOf(id)' = "none"
    BY <1>1, <2>1, PlacedAt DEF CommitRefuse
  <2> QED
    BY <2>1, <2>2, Becoming DEF C!Refuse
<1>2. ASSUME NEW id \in Ids, CommitBody(p, id)
      PROVE  C!Offer(id)
  <2>1. Works(p, id)
    BY <1>2 DEF CommitBody, Works
  <2>2. ~Helped(p, id)
    BY <1>2 DEF CommitBody, Helped
  <2>3. fate[id] = "new" /\ fate'[id] = "open" /\ PlaceOf(id)' = "none"
    BY <1>2, <2>1, <2>2, PlacedAt DEF CommitBody
  <2> QED
    BY <2>1, <2>3, Becoming DEF C!Offer
<1>3. CASE CommitMeta(p)
  <2>0. PICK m \in Ids : m = cur[p]
    BY <1>3 DEF CommitMeta
  <2>1. Works(p, m)
    BY <1>3, <2>0 DEF CommitMeta, Works
  <2>2. ~Helped(p, m)
    BY <1>3, <2>0 DEF CommitMeta, Helped
  <2>3. /\ m \in qBody /\ m \notin qMeta /\ m \notin fBody
        /\ fate[m] = "open"
    BY <1>3, <2>0, <2>1
    DEF CommitMeta, Works, Standing, Counted, Faultless, Filed
  <2>4. /\ fate'[m] = "open" /\ PlaceOf(m) = "none"
        /\ PlaceOf(m)' = "queue"
    BY <1>3, <2>0, <2>1, <2>2, <2>3, PlacedAt DEF CommitMeta
  <2>5. C!Store(m)
    BY <2>1, <2>3, <2>4, Becoming DEF C!Store
  <2> QED
    BY <2>5 DEF C!Next
<1>4. CASE CommitPut(p)
  <2>0. PICK m \in Ids : m = cur[p]
    BY <1>4 DEF CommitPut
  <2>1. Works(p, m)
    BY <1>4, <2>0 DEF CommitPut, Works
  <2>2. m \in qBody /\ m \in qMeta /\ fate[m] = "open"
    BY <1>4, <2>0, <2>1 DEF CommitPut, Works, Faultless, Filed
  <2>3. /\ fate'[m] = "accepted" /\ PlaceOf(m) = "queue"
        /\ PlaceOf(m)' = "queue"
    BY <1>4, <2>0, <2>1, <2>2, PlacedAt DEF CommitPut
  <2>4. C!Accept(m)
    BY <2>1, <2>2, <2>3, Becoming DEF C!Accept
  <2> QED
    BY <2>4 DEF C!Next
<1>5. CASE CommitSync(p)
  BY <1>5, Quiet DEF CommitSync
<1>6. CASE CommitUndo(p) \/ CommitRmBody(p) \/ CommitRmMeta(p)
  BY <1>6
  DEF CommitUndo, CommitRmBody, CommitRmMeta, Standing, Counted
<1> QED
  BY <1>1, <1>2, <1>3, <1>4, <1>5, <1>6 DEF CommitNext, C!Next

\* ClaimBatch, Defer, Release, Remove and Fail, as Custody sees them.
LEMMA WorkerImplements ==
  ASSUME KInv, KInv', NEW p \in Procs, WorkerNext(p), faults' = 0
  PROVE  C!Next \/ UNCHANGED C!vars
<1> USE NoIdAssumption, FaultAssumption
    DEF KInv, JInv, IInv, TypeOK, Idling, Halfway,
        files, memory, flags, Begin, Step, End, Ok, Fault, Becomes,
        Unlink, Rename
<1>1. CASE \/ \E id \in Ids : Claim(p, id)
           \/ Defer(p) \/ ReleasePut(p) \/ RemoveDrop(p) \/ FailDrop(p)
           \/ FailPut(p)
  BY <1>1, Quiet
  DEF Claim, Defer, ReleasePut, RemoveDrop, FailDrop, FailPut
<1>2. CASE ReleaseWrite(p) \/ FailWrite(p)
  <2>0. PICK m \in Ids : m = cur[p]
    BY <1>2 DEF ReleaseWrite, FailWrite
  <2>1. Works(p, m)
    BY <1>2, <2>0 DEF ReleaseWrite, FailWrite, Works
  <2>2. m \in qBody /\ m \in qMeta
    BY <1>2, <2>0, <2>1, Alone
    DEF ReleaseWrite, FailWrite, Works, WorkerHold, QueuePair
  <2>3. fate'[m] = fate[m] /\ PlaceOf(m)' = PlaceOf(m)
    BY <1>2, <2>0, <2>1, <2>2, PlacedAt DEF ReleaseWrite, FailWrite
  <2> QED
    BY <2>1, <2>3, Remaining
<1>3. CASE Transmit(p)
  <2>0. PICK m \in Ids : m = cur[p]
    BY <1>3 DEF Transmit
  <2>1. Works(p, m)
    BY <1>3, <2>0 DEF Transmit, Works
  <2>2. m \in qBody /\ m \in qMeta
    BY <1>3, <2>0, <2>1, Alone DEF Transmit, Works, WorkerHold, QueuePair
  <2>3. fate[m] \in C!Owed
    BY <1>3, <2>0, <2>1, <2>2
    DEF Transmit, Works, Custodial, Private, CommitPCs
  <2>4. /\ fate'[m] = "delivered" /\ PlaceOf(m) = "queue"
        /\ PlaceOf(m)' = "queue"
    BY <1>3, <2>0, <2>1, <2>2, PlacedAt DEF Transmit
  <2>5. C!Send(m)
    BY <2>1, <2>3, <2>4, Becoming DEF C!Send
  <2> QED
    BY <2>5 DEF C!Next
<1>4. CASE RemoveBody(p)
  <2>0. PICK m \in Ids : m = cur[p]
    BY <1>4 DEF RemoveBody
  <2>1. Works(p, m)
    BY <1>4, <2>0 DEF RemoveBody, Works
  <2>2. /\ m \notin fBody /\ fate[m] = "delivered" /\ fate'[m] = "delivered"
        /\ m \notin qBody'
    BY <1>4, <2>0, <2>1
    DEF RemoveBody, Works, Standing, Stands, Detached, Custodial
  <2>3. ~Helped(p, m)
    BY <1>4, <2>0, Company
    DEF RemoveBody, Helped, Detached, Harmless, DiscardPCs, SweepPCs
  <2>4. PlaceOf(m) \in {"queue", "none"} /\ PlaceOf(m)' = "none"
    BY <1>4, <2>0, <2>1, <2>2, <2>3, PlacedAt DEF RemoveBody
  <2>5. CASE PlaceOf(m) = "queue"
    <3>1. C!Remove(m)
      BY <2>1, <2>2, <2>4, <2>5, Becoming DEF C!Remove
    <3> QED
      BY <3>1 DEF C!Next
  <2>6. CASE PlaceOf(m) = "none"
    BY <2>1, <2>2, <2>4, <2>6, Remaining
  <2> QED
    BY <2>4, <2>5, <2>6
<1>5. CASE RemoveMeta(p)
  <2>0. PICK m \in Ids : m = cur[p]
    BY <1>5 DEF RemoveMeta
  <2>1. Works(p, m)
    BY <1>5, <2>0 DEF RemoveMeta, Works
  <2>2. /\ m \notin fBody /\ m \notin qBody
        /\ fate[m] = "delivered" /\ fate'[m] = "done"
    BY <1>5, <2>0, <2>1
    DEF RemoveMeta, Works, Standing, Stands, Counted, Detached, Custodial
  <2>3. PlaceOf(m) = "none" /\ PlaceOf(m)' = "none"
    BY <1>5, <2>0, <2>1, <2>2, PlacedAt DEF RemoveMeta
  <2>4. C!Finish(m)
    BY <2>1, <2>2, <2>3, Becoming DEF C!Finish
  <2> QED
    BY <2>4 DEF C!Next
<1>6. CASE FailMeta(p)
  <2>0. PICK m \in Ids : m = cur[p]
    BY <1>6 DEF FailMeta
  <2>1. Works(p, m)
    BY <1>6, <2>0 DEF FailMeta, Works
  <2>2. m \notin fBody /\ m \notin qMeta' /\ fate'[m] = fate[m]
    BY <1>6, <2>0, <2>1 DEF FailMeta, Works, Standing, Stands, Detached
  <2>3. ~Helped(p, m)
    BY <1>6, <2>0, Company
    DEF FailMeta, Helped, Detached, Harmless, DiscardPCs, SweepPCs
  <2>4. CASE m \in qBody
    <3>1. fate[m] \in C!Owed
      BY <1>6, <2>0, <2>1, <2>4
      DEF FailMeta, Works, Custodial, Private, CommitPCs
    <3>2. fate[m] = "accepted" => m \in qMeta
      BY <1>6, <2>0, <2>1 DEF FailMeta, Works, Faultless, Filed
    <3>3. /\ PlaceOf(m)' = "moving"
          /\ m \in qMeta => PlaceOf(m) = "queue"
      BY <1>6, <2>0, <2>1, <2>2, <2>4, PlacedAt DEF FailMeta
    <3>4. C!Lift(m)
      BY <2>1, <2>2, <3>1, <3>2, <3>3, Becoming DEF C!Lift
    <3> QED
      BY <3>4 DEF C!Next
  <2>5. CASE m \notin qBody
    <3>1. PlaceOf(m)' = PlaceOf(m)
      BY <1>6, <2>0, <2>1, <2>2, <2>3, <2>5, PlacedAt DEF FailMeta
    <3> QED
      BY <2>1, <2>2, <3>1, Remaining
  <2> QED
    BY <2>4, <2>5
<1>7. CASE FailBody(p)
  <2>0. PICK m \in Ids : m = cur[p]
    BY <1>7 DEF FailBody
  <2>1. Works(p, m)
    BY <1>7, <2>0 DEF FailBody, Works
  <2>2. /\ m \notin fBody /\ m \notin qMeta /\ fate'[m] = fate[m]
        /\ qMeta' = qMeta /\ fMeta' = fMeta /\ m \notin qBody'
        /\ m \in fBody' <=> m \in qBody
    BY <1>7, <2>0, <2>1
    DEF FailBody, Works, Standing, Stands, Detached, Custodial
  <2>3. CASE m \in qBody
    <3>1. fate[m] \in C!Owed
      BY <1>7, <2>0, <2>1, <2>3
      DEF FailBody, Works, Custodial, Private, CommitPCs
    <3>2. fate[m] = "accepted" => m \in fMeta
      BY <1>7, <2>0, <2>1 DEF FailBody, Works, Faultless, Filed
    <3>3. /\ PlaceOf(m) = "moving"
          /\ PlaceOf(m)' = IF m \in fMeta THEN "failed" ELSE "none"
      BY <1>7, <2>0, <2>1, <2>2, <2>3, PlacedAt DEF FailBody
    <3>4. PlaceOf(m)' \in C!Places /\ C!Settle(m, PlaceOf(m)')
      BY <2>1, <2>2, <3>1, <3>2, <3>3, Becoming DEF C!Settle, C!Places
    <3> QED
      BY <3>4 DEF C!Next
  <2>4. CASE m \notin qBody
    <3>1. PlaceOf(m)' = PlaceOf(m)
      BY <1>7, <2>0, <2>1, <2>2, <2>4, PlacedAt DEF FailBody
    <3> QED
      BY <2>1, <2>2, <3>1, Remaining
  <2> QED
    BY <2>3, <2>4
<1> QED
  BY <1>1, <1>2, <1>3, <1>4, <1>5, <1>6, <1>7 DEF WorkerNext

\* Requeue, as Custody sees it.
LEMMA RequeueImplements ==
  ASSUME KInv, KInv', NEW p \in Procs, RequeueNext(p), faults' = 0
  PROVE  C!Next \/ UNCHANGED C!vars
<1> USE NoIdAssumption, FaultAssumption
    DEF KInv, JInv, IInv, TypeOK, Idling, Halfway,
        files, memory, flags, Begin, Step, End, Ok, Fault, Becomes,
        Unlink, Rename
<1>1. CASE \/ \E id \in Ids : Requeue(p, id)
           \/ RequeueRead(p) \/ RequeuePut(p) \/ RequeueFind(p)
           \/ RequeueSync(p) \/ RequeueFPut(p) \/ RequeueFDrop(p)
           \/ RequeueFree(p)
  BY <1>1, Quiet
  DEF Requeue, TryLease, RequeueRead, RequeuePut, RequeueFind, RequeueSync,
      RequeueFPut, RequeueFDrop, RequeueFree
<1>2. CASE RequeueLive(p) \/ RequeueFMeta(p)
  <2>0. PICK m \in Ids : m = cur[p]
    BY <1>2 DEF RequeueLive, RequeueFMeta
  <2>1. Works(p, m)
    BY <1>2, <2>0 DEF RequeueLive, RequeueFMeta, Works
  <2>2. m \in qBody /\ m \in qMeta
    <3>1. CASE RequeueLive(p)
      <4>1. m \in index /\ pc[p] = "q_live"
        BY <2>0, <2>1, <3>1 DEF RequeueLive, Works, Standing, Stands
      <4>2. \A r \in Procs : cur[r] = m => pc[r] \notin DiscardPCs
        BY <2>0, <4>1
        DEF LeaseExclusive, Holds, HoldPCs, RequeuePCs, DiscardPCs
      <4> QED
        BY <2>1, <4>1, <4>2 DEF IndexBacked, QueuePair, Works
    <3>2. CASE RequeueFMeta(p)
      BY <2>0, <2>1, <3>2 DEF RequeueFMeta, Works, Faultless, Filed
    <3> QED
      BY <1>2, <3>1, <3>2
  <2>3. fate'[m] = fate[m] /\ PlaceOf(m)' = PlaceOf(m)
    BY <1>2, <2>0, <2>1, <2>2, PlacedAt DEF RequeueLive, RequeueFMeta
  <2> QED
    BY <2>1, <2>3, Remaining
<1>3. CASE RequeueBody(p)
  <2>0. PICK m \in Ids : m = cur[p]
    BY <1>3 DEF RequeueBody
  <2>1. Works(p, m)
    BY <1>3, <2>0 DEF RequeueBody, Works
  <2>2. CASE m \in fBody
    <3>1. fate[m] \in C!Owed /\ fate'[m] = fate[m]
      BY <1>3, <2>0, <2>1, <2>2
      DEF RequeueBody, Works, Custodial, Private, CommitPCs
    <3>2. /\ m \notin qMeta /\ m \notin qBody
          /\ fate[m] = "accepted" => m \in fMeta
      BY <2>1, <2>2 DEF Works, Custodial, OneBody
    <3>3. /\ pc'[p] = "q_meta" /\ cur'[p] = m /\ m \in qBody'
          /\ m \notin fBody' /\ m \notin qMeta'
      BY <1>3, <2>0, <2>1, <2>2, <3>2 DEF RequeueBody, Works
    <3>4. /\ PlaceOf(m)' = "moving"
          /\ m \in fMeta => PlaceOf(m) = "failed"
      BY <2>1, <2>2, <3>2, <3>3, PlacedAt
    <3>5. C!Lift(m)
      BY <2>1, <3>1, <3>2, <3>4, Becoming DEF C!Lift
    <3> QED
      BY <3>5 DEF C!Next
  <2>3. CASE m \notin fBody
    BY <1>3, <2>0, <2>3, Quiet DEF RequeueBody
  <2> QED
    BY <2>2, <2>3
<1>4. CASE RequeueMeta(p)
  <2>0. PICK m \in Ids : m = cur[p]
    BY <1>4 DEF RequeueMeta
  <2>1. Works(p, m)
    BY <1>4, <2>0 DEF RequeueMeta, Works
  <2>2. m \in qBody /\ m \notin fBody
    BY <1>4, <2>0, <2>1
    DEF RequeueMeta, Works, Faultless, Filed, OneBody
  <2>3. fate[m] \in C!Owed /\ fate'[m] = fate[m]
    BY <1>4, <2>0, <2>1, <2>2
    DEF RequeueMeta, Works, Custodial, Private, CommitPCs
  <2>4. PlaceOf(m) \in {"moving", "queue"} /\ PlaceOf(m)' = "queue"
    BY <1>4, <2>0, <2>1, <2>2, PlacedAt DEF RequeueMeta
  <2>5. CASE PlaceOf(m) = "moving"
    <3>1. "queue" \in C!Places /\ C!Settle(m, "queue")
      BY <2>1, <2>3, <2>4, <2>5, Becoming DEF C!Settle, C!Places
    <3> QED
      BY <3>1 DEF C!Next
  <2>6. CASE PlaceOf(m) = "queue"
    BY <2>1, <2>3, <2>4, <2>6, Remaining
  <2> QED
    BY <2>4, <2>5, <2>6
<1>5. CASE RequeueBack(p)
  BY <1>5 DEF RequeueBack, Standing, Counted
<1> QED
  BY <1>1, <1>2, <1>3, <1>4, <1>5 DEF RequeueNext

\* Discard, as Custody sees it: the unlink of the body is what erases.
LEMMA DiscardImplements ==
  ASSUME KInv, KInv', NEW p \in Procs, DiscardNext(p), faults' = 0
  PROVE  C!Next \/ UNCHANGED C!vars
<1> USE NoIdAssumption, FaultAssumption
    DEF KInv, JInv, IInv, TypeOK, Idling, Halfway,
        files, memory, flags, Begin, Step, End, Ok, Fault, Becomes,
        Unlink, Rename
<1>1. CASE \/ \E id \in Ids : Discard(p, id)
           \/ DiscardCheck(p) \/ DiscardFree(p)
  BY <1>1, Quiet DEF Discard, TryLease, DiscardCheck, DiscardFree
<1>2. CASE DiscardQBody(p) \/ DiscardFBody(p)
  <2>0. PICK m \in Ids : m = cur[p]
    BY <1>2 DEF DiscardQBody, DiscardFBody, RemoveOne
  <2>1. Works(p, m)
    BY <1>2, <2>0 DEF DiscardQBody, DiscardFBody, RemoveOne, Works
  <2>2. CASE \/ m \in qBody /\ DiscardQBody(p)
             \/ m \in fBody /\ DiscardFBody(p)
    <3>1. fate[m] \in C!Owed
      BY <1>2, <2>0, <2>1, <2>2
      DEF DiscardQBody, DiscardFBody, RemoveOne, Works, Custodial, Private,
          CommitPCs
    <3>2. m \notin qBody' /\ m \notin fBody'
      BY <2>0, <2>1, <2>2
      DEF DiscardQBody, DiscardFBody, RemoveOne, Works, OneBody
    <3>3. /\ PlaceOf(m)' = "none"
          /\ fate'[m] = IF fate[m] = "accepted" THEN "doomed" ELSE fate[m]
      BY <2>0, <2>1, <2>2, <3>2, PlacedAt
      DEF DiscardQBody, DiscardFBody, RemoveOne, Works
    <3>4. fate[m] = "accepted" => PlaceOf(m) # "none"
      BY <2>1, AcceptedPlaced
      DEF Works, PlaceOf, QueuePair, FailedPair, MidMove
    <3>5. CASE PlaceOf(m) # "none"
      <4>1. C!Erase(m)
        BY <2>1, <3>1, <3>3, <3>5, Becoming DEF C!Erase
      <4> QED
        BY <4>1 DEF C!Next
    <3>6. CASE PlaceOf(m) = "none"
      BY <2>1, <3>3, <3>4, <3>6, Remaining
    <3> QED
      BY <3>5, <3>6
  <2>3. CASE ~(\/ m \in qBody /\ DiscardQBody(p)
               \/ m \in fBody /\ DiscardFBody(p))
    <3>1. UNCHANGED <<files, fate, up, faults>>
      BY <1>2, <2>0, <2>3 DEF DiscardQBody, DiscardFBody, RemoveOne
    <3> QED
      BY <1>2, <3>1, Quiet DEF DiscardQBody, DiscardFBody, RemoveOne
  <2> QED
    BY <2>2, <2>3
<1>3. CASE DiscardQMeta(p) \/ DiscardFMeta(p)
  <2>0. PICK m \in Ids : m = cur[p]
    BY <1>3 DEF DiscardQMeta, DiscardFMeta, RemoveOne
  <2>1. Works(p, m)
    BY <1>3, <2>0 DEF DiscardQMeta, DiscardFMeta, RemoveOne, Works
  <2>2. m \notin qBody
    BY <1>3, <2>0, <2>1
    DEF DiscardQMeta, DiscardFMeta, RemoveOne, Works, Standing, Erased,
        Faultless
  <2>3. (UNCHANGED files /\ fate' = fate) \/ m \notin fBody
    <3>1. CASE DiscardFMeta(p)
      BY <2>0, <2>1, <3>1
      DEF DiscardFMeta, RemoveOne, Works, Standing, Erased, Faultless
    <3>2. CASE DiscardQMeta(p) /\ m \in qMeta
      BY <2>1, <3>2 DEF Works, Custodial
    <3>3. CASE DiscardQMeta(p) /\ m \notin qMeta
      BY <2>0, <3>3 DEF DiscardQMeta, RemoveOne
    <3> QED
      BY <1>3, <3>1, <3>2, <3>3
  <2>4. CASE m \in fBody
    BY <1>3, <2>1, <2>3, <2>4, Quiet
    DEF DiscardQMeta, DiscardFMeta, RemoveOne, Works
  <2>5. CASE m \notin fBody
    <3>1. fate[m] # "accepted"
      BY <2>1, <2>2, <2>5, AcceptedPlaced DEF Works, QueuePair, FailedPair
    <3>2. fate'[m] = fate[m] /\ PlaceOf(m)' = PlaceOf(m)
      BY <1>3, <2>0, <2>1, <2>2, <2>5, <3>1, PlacedAt
      DEF DiscardQMeta, DiscardFMeta, RemoveOne
    <3> QED
      BY <2>1, <3>2, Remaining
  <2> QED
    BY <2>4, <2>5
<1>4. CASE DiscardFDrop(p)
  <2>0. PICK m \in Ids : m = cur[p]
    BY <1>4 DEF DiscardFDrop
  <2>1. Works(p, m)
    BY <1>4, <2>0 DEF DiscardFDrop, Works
  <2>2. CASE fate'[m] = fate[m]
    <3>1. PlaceOf(m)' = PlaceOf(m)
      BY <1>4, <2>0, <2>1, PlacedAt DEF DiscardFDrop
    <3> QED
      BY <2>1, <2>2, <3>1, Remaining
  <2>3. CASE fate'[m] # fate[m]
    <3>1. fate[m] = "doomed" /\ fate'[m] = "discarded"
      BY <1>4, <2>0, <2>3 DEF DiscardFDrop
    <3>2. m \notin qBody /\ m \notin fBody
      BY <2>1, <3>1 DEF Works, Custodial, C!Owed
    <3>3. PlaceOf(m)' = "none"
      BY <1>4, <2>0, <2>1, <3>2, PlacedAt DEF DiscardFDrop
    <3>4. C!Erased(m)
      BY <2>1, <3>1, <3>3, Becoming DEF C!Erased
    <3> QED
      BY <3>4 DEF C!Next
  <2> QED
    BY <2>2, <2>3
<1> QED
  BY <1>1, <1>2, <1>3, <1>4 DEF DiscardNext

\* The retention sweep, as Custody sees it.
LEMMA SweepImplements ==
  ASSUME KInv, KInv', NEW p \in Procs, SweepNext(p), faults' = 0
  PROVE  C!Next \/ UNCHANGED C!vars
<1> USE NoIdAssumption, FaultAssumption
    DEF KInv, JInv, IInv, TypeOK, Idling, Halfway,
        files, memory, flags, Begin, Step, End, Ok, Fault, Becomes,
        Unlink, Rename
<1>1. CASE (\E id \in Ids : Sweep(p, id)) \/ SweepDrop(p)
  BY <1>1, Quiet DEF Sweep, SweepDrop
<1>2. CASE SweepMeta(p) \/ SweepBody(p)
  <2>0. PICK m \in Ids : m = cur[p]
    BY <1>2 DEF SweepMeta, SweepBody, SweepOne
  <2>1. Works(p, m)
    BY <1>2, <2>0 DEF SweepMeta, SweepBody, SweepOne, Works
  <2>2. m \in qBody => m \notin fBody
    BY DEF OneBody
  <2>3. /\ m \in qBody' <=> m \in qBody
        /\ m \in qMeta' <=> m \in qMeta
        /\ m \notin fBody' \/ m \notin fMeta'
        /\ pc[p] \notin Halfway /\ pc'[p] \notin Halfway
        /\ fate'[m] # fate[m] =>
             /\ fate[m] = "accepted" /\ fate'[m] = "swept"
             /\ ~(m \in qBody /\ m \in qMeta)
        /\ /\ fate[m] = "accepted" /\ ~(m \in qBody /\ m \in qMeta)
           /\ m \in fBody /\ m \in fMeta
           => fate'[m] = "swept"
    BY <1>2, <2>0, <2>1
    DEF SweepMeta, SweepBody, SweepOne, Works, QueuePair
  <2>4. /\ PlaceOf(m) = "failed" => PlaceOf(m)' = "none"
        /\ PlaceOf(m) # "failed" => PlaceOf(m)' = PlaceOf(m)
    BY <2>1, <2>2, <2>3, PlacedAt
  <2>5. CASE PlaceOf(m) = "failed"
    <3>1. m \in fBody /\ m \in fMeta /\ ~(m \in qBody /\ m \in qMeta)
      BY <2>1, <2>5, PlacedAt
    <3>2. fate[m] \in C!Owed
      BY <2>1, <3>1 DEF Works, Custodial, Private
    <3>3. fate'[m] = IF fate[m] = "accepted" THEN "swept" ELSE fate[m]
      BY <2>3, <3>1
    <3>4. C!Expire(m)
      BY <2>1, <2>4, <2>5, <3>2, <3>3, Becoming DEF C!Expire
    <3> QED
      BY <3>4 DEF C!Next
  <2>6. CASE PlaceOf(m) # "failed" /\ fate'[m] = fate[m]
    BY <2>1, <2>4, <2>6, Remaining
  <2>7. CASE PlaceOf(m) # "failed" /\ fate'[m] # fate[m]
    <3>1. fate[m] = "accepted" /\ fate'[m] = "swept"
      BY <2>3, <2>7
    <3>2. PlaceOf(m) = "moving"
      BY <2>1, <2>3, <2>7, <3>1, AcceptedPlaced
      DEF Works, PlaceOf, QueuePair, FailedPair, MidMove
    <3>3. C!Expire(m)
      BY <2>1, <2>4, <3>1, <3>2, Becoming DEF C!Expire, C!Owed
    <3> QED
      BY <3>3 DEF C!Next
  <2> QED
    BY <2>5, <2>6, <2>7
<1> QED
  BY <1>1, <1>2 DEF SweepNext

\* A crash puts down what was being moved, and a recovery in which nothing
\* fails is a restart.
LEMMA RestartImplements ==
  ASSUME KInv, KInv', Crash \/ Recover, faults' = 0
  PROVE  C!Next
<1> USE DEF KInv, JInv, IInv
<1>1. CASE Crash
  <2>1. ASSUME NEW n \in Ids
        PROVE  PlaceOf(n)' = IF PlaceOf(n) = "moving" THEN "none"
                                                      ELSE PlaceOf(n)
    BY <1>1, <2>1, NoIdAssumption
    DEF Crash, PlaceOf, QueuePair, FailedPair, MidMove, files
  <2>2. C!Crash
    BY <1>1, <2>1 DEF Crash, C!Crash
  <2> QED
    BY <2>2 DEF C!Next
<1>2. CASE Recover
  <2>1. \A p \in Procs : cur[p] = NoId
    BY <1>2, Recovered DEF Idling
  <2>2. ASSUME NEW n \in Ids
        PROVE  /\ PlaceOf(n)' = PlaceOf(n)
               /\ PlaceOf(n) = "queue" <=> n \in QueuePair
               /\ PlaceOf(n) = "none" <=> n \notin QueuePair \cup FailedPair
    BY <1>2, <2>1, <2>2, Recovered, NoIdAssumption
    DEF PlaceOf, QueuePair, FailedPair, MidMove
  <2>3. C!Restart
    BY <1>2, <2>2, Recovered DEF C!Restart
  <2> QED
    BY <2>3 DEF C!Next
<1> QED
  BY <1>1, <1>2

\* The spool keeps Custody (every call of the package, a crash anywhere and
\* the recovery after it): as long as no file operation fails, each message
\* has one place at a time, an accepted one leaves it only into the
\* smarthost's hands, by a discard or by retention, and a crash costs only
\* what it catches between the two halves of a move.
THEOREM Custodian == Spec => KeepsCustody
<1>1. Init => C!Init
  <2> SUFFICES ASSUME Init PROVE C!Init
    OBVIOUS
  <2>1. \A n \in Ids : PlaceOf(n) = "none"
    BY DEF Init, PlaceOf, QueuePair, FailedPair, MidMove
  <2> QED
    BY <2>1 DEF Init, C!Init
<1>2. KInv /\ KInv' /\ [Next]_vars => [C!Next]_C!vars
  <2> SUFFICES ASSUME KInv, KInv', [Next]_vars
               PROVE  C!Next \/ UNCHANGED C!vars
    OBVIOUS
  <2>1. CASE UNCHANGED vars
    <3>1. \A n \in Ids : PlaceOf(n)' = PlaceOf(n)
      BY <2>1 DEF vars, PlaceOf, QueuePair, FailedPair, MidMove
    <3> QED
      BY <2>1, <3>1 DEF vars, C!vars
  <2>2. CASE Next /\ faults' = 0
    BY <2>2, CommitImplements, WorkerImplements, RequeueImplements,
       DiscardImplements, SweepImplements, RestartImplements
    DEF Next
  <2>3. CASE faults' # 0
    <3>1. faults' > 0 /\ fate' \in [Ids -> C!Fates] /\ up' \in BOOLEAN
      BY <2>3 DEF KInv, JInv, IInv, TypeOK, Fates, C!Fates
    <3>2. \A n \in Ids : PlaceOf(n)' \in C!Places
      BY DEF PlaceOf, C!Places, MidMove
    <3>3. C!Trouble
      BY <3>1, <3>2 DEF C!Trouble
    <3> QED
      BY <3>3 DEF C!Next
  <2> QED
    BY <2>1, <2>2, <2>3
<1> QED
  BY <1>1, <1>2, CustodyInvariance, PTL DEF Spec, KeepsCustody, C!Spec

\* What Custody comes to, in one state: while nothing has failed, an accepted
\* message has a place as long as the process runs, and one that is over, or
\* was never taken in, has none.
Promised ==
  faults = 0 =>
    \A id \in Ids :
      /\ up /\ fate[id] = "accepted" => PlaceOf(id) # "none"
      /\ fate[id] = "open" => PlaceOf(id) \in {"none", "queue"}
      /\ fate[id] \notin C!Owed \cup {"open"} => PlaceOf(id) = "none"

\* It follows from Custody alone, whatever implements it.
THEOREM CustodyPays == KeepsCustody => []Promised
<1> DEFINE place == [id \in Ids |-> PlaceOf(id)]
           Paid(id) ==
             /\ up /\ fate[id] = "accepted" => place[id] # "none"
             /\ fate[id] = "open" => place[id] \in {"none", "queue"}
             /\ fate[id] \notin C!Owed \cup {"open"} => place[id] = "none"
           Good == /\ fate \in [Ids -> C!Fates]
                   /\ ~(faults > 0) => \A id \in Ids : Paid(id)
<1>1. C!Init => Good
  BY DEF C!Init, C!Fates, C!Owed
<1>2. Good /\ [C!Next]_C!vars => Good'
  <2> SUFFICES ASSUME Good, C!Next \/ UNCHANGED C!vars PROVE Good'
    OBVIOUS
  <2>1. CASE UNCHANGED C!vars
    BY <2>1 DEF C!vars
  <2>2. CASE C!Trouble
    BY <2>2 DEF C!Trouble
  <2>3. CASE C!Crash
    BY <2>3 DEF C!Crash, C!Owed
  <2>4. CASE C!Restart
    BY <2>4 DEF C!Restart, C!Owed, C!Fates
  <2>5. ASSUME NEW m \in Ids, NEW f \in C!Fates, NEW q, C!To(m, f, q),
               f = "accepted" => q # "none",
               f = "open" => q \in {"none", "queue"},
               f \notin C!Owed \cup {"open"} => q = "none"
        PROVE  Good'
    BY <2>5 DEF C!To
  <2>6. ASSUME NEW m \in Ids,
               \/ C!Refuse(m) \/ C!Offer(m) \/ C!Store(m) \/ C!Accept(m)
               \/ C!Send(m) \/ C!Remove(m) \/ C!Finish(m)
               \/ C!Lift(m) \/ \E p \in C!Places : C!Settle(m, p)
               \/ C!Erase(m) \/ C!Erased(m) \/ C!Expire(m)
        PROVE  Good'
    BY <2>5, <2>6
    DEF C!Refuse, C!Offer, C!Store, C!Accept, C!Send, C!Remove, C!Finish,
        C!Lift, C!Settle, C!Erase, C!Erased, C!Expire, C!Owed, C!Fates
  <2> QED
    BY <2>1, <2>2, <2>3, <2>4, <2>6 DEF C!Next
<1>3. Good => Promised
  BY DEF Promised
<1> QED
  BY <1>1, <1>2, <1>3, PTL DEF KeepsCustody, C!Spec

=============================================================================
