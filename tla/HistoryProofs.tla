--------------------------- MODULE HistoryProofs ---------------------------
(***************************************************************************)
(* Proofs about History, for any number of messages, workers, operators    *)
(* and refused writes: the summary on a message row is what its attempts   *)
(* say, the queue view is true of the live queue, and a Delete leaves      *)
(* nothing behind that nothing can clear.                                  *)
(***************************************************************************)
EXTENDS History, FiniteSetTheorems, TLAPS

SessionPcs == {"new", "a_journal", "idle"}
Leasing == {"w_try", "w_delivered", "w_temporary", "w_permanent",
            "w_expired", "w_remove", "w_release", "w_fail"}
Dropped == {"w_unlink", "w_half", "w_move"}
WorkerPcs == Leasing \cup Dropped \cup {"idle"}
Requeueing == {"q_hook", "q_free"}
Deleting == {"d_removal", "d_find", "d_reconcile", "d_audit"}
OperatorPcs == {"q_move", "q_audit", "d_unlink", "idle"}
                 \cup Requeueing \cup Deleting
Leased == Leasing \cup Requeueing \cup {"q_move", "d_unlink"}

Wheres == {"none", "queue", "half", "failed", "stub", "stray"}

\* The types of the state.
Shape ==
  /\ disk \in [Ids -> Wheres]
  /\ index \subseteq Ids /\ leased \subseteq Ids
  /\ row \in [Ids -> Rows \cup {NoRow}]
  /\ log \in [Ids -> Seq(Classes)]
  /\ up \in BOOLEAN
  /\ pc \in [Procs -> SessionPcs \cup WorkerPcs \cup OperatorPcs]
  /\ cur \in [Procs -> Ids \cup {NoId}]

\* Where each kind of actor can be, and that it works on a message there.
Pcs(p) == IF p \in Ids THEN SessionPcs
          ELSE IF p \in Workers THEN WorkerPcs ELSE OperatorPcs

Actors ==
  /\ \A p \in Procs :
       /\ pc[p] \in Pcs(p)
       /\ pc[p] \in {"new", "idle"} <=> cur[p] = NoId
  /\ \A id \in Ids : cur[id] \in {id, NoId}

\* While the process is down nobody works and nothing is in memory.
Stopped ==
  ~up => index = {} /\ leased = {} /\ \A p \in Procs : cur[p] = NoId

\* The rest is said of each message: somebody on it is at one of the places.
At(id, places) == \E p \in Procs : cur[p] = id /\ pc[p] \in places

\* No two of the actors on it are at these places.
Alone(id, places) ==
  \A p, q \in Procs :
    (cur[p] = id /\ cur[q] = id /\ pc[p] \in places /\ pc[q] \in places)
      => p = q

\* A message has no row before its own session has written it, and nobody
\* else gets to see it earlier than that lets them.
Unborn(id) ==
  /\ pc[id] \in {"new", "a_journal"} => row[id] = NoRow
  /\ pc[id] = "new" => disk[id] = "none" /\ ~At(id, WorkerPcs)
  /\ pc[id] # "idle" => ~At(id, OperatorPcs)

\* A lease has one holder.
OneLease(id) == Alone(id, Leased) /\ (At(id, Leased) => id \in leased)

\* The index holds what is in the queue directory, a leased attempt or
\* requeue is on such a message, and a worker that has given its message up
\* is alone in that.
Places(id) ==
  /\ id \in index => disk[id] = "queue"
  /\ At(id, Leasing \cup Requeueing) => id \in index
  /\ Alone(id, Dropped)
  /\ At(id, Dropped) => id \notin index
  /\ At(id, {"w_unlink", "w_half"}) => disk[id] \in {"queue", "none"}
  /\ At(id, {"w_move"}) => disk[id] \in {"half", "queue", "none"}
  /\ At(id, Deleting) => disk[id] = "none"

\* What ReconcileRemoved looked at can only have been removed since.
Reconciled(id) ==
  At(id, {"d_reconcile"}) => \/ row[id] = NoRow
                             \/ ActiveRow(row[id])
                             \/ row[id].class = "removed"

\* What is known of a message's row while its last write went through.
Truth(id) ==
  LET a == ActiveRow(row[id]) IN
  /\ up /\ id \in index /\ ~At(id, {"w_remove", "w_fail", "q_hook"}) => a
  /\ At(id, {"w_remove", "w_fail", "d_audit"}) => ~a
  /\ up /\ id \notin index /\ ~At(id, {"d_removal", "d_find", "d_reconcile"})
       => ~a
  /\ up /\ id \notin index /\ disk[id] = "queue" =>
       At(id, {"w_unlink", "w_half"})
  /\ ~up => (a <=> disk[id] = "queue")

\* Before there is a row, nothing has been made of the message.
Early(id) ==
  pc[id] = "a_journal" => id \in index /\ ~At(id, {"w_remove", "w_fail"})

QueueView(id) ==
  id \notin blur => Early(id) /\ (row[id] # NoRow => Truth(id))

Local(id) ==
  Unborn(id) /\ OneLease(id) /\ Places(id) /\ Reconciled(id)
    /\ QueueView(id)

HistoryInv == Shape /\ Actors /\ Stopped /\ \A id \in Ids : Local(id)

-----------------------------------------------------------------------------
(* Lemmas: rows, and what a step leaves alone.                             *)

\* The rows the store writes, and which of them the queue view shows.
LEMMA RowFacts ==
  /\ ~ActiveRow(NoRow)
  /\ NewRow \in Rows /\ ActiveRow(NewRow)
  /\ \A r \in Rows :
       /\ r # NoRow
       /\ RecordRequeueRow(r) \in Rows /\ ActiveRow(RecordRequeueRow(r))
       /\ RecordRequeueRow(r).class = "requeued"
       /\ \A c \in Classes :
            /\ RecordAttemptRow(r, c) \in Rows
            /\ RecordAttemptRow(r, c).class = c
            /\ ActiveRow(RecordAttemptRow(r, c))
                 <=> c \in {"temporary", "requeued"}
<1>1. ~ActiveRow(NoRow)
  BY DEF ActiveRow
<1>2. \A r \in Rows : r # NoRow /\ (ActiveRow(r) <=> Active(r))
  BY HistoryAssumption DEF ActiveRow
<1>3. /\ classStatus["temporary"] = "deferred"
      /\ classStatus["requeued"] = "queued"
      /\ classStatus["delivered"] = "delivered"
      /\ classStatus["permanent"] = "bounced"
      /\ classStatus["expired"] = "bounced"
      /\ classStatus["removed"] = "removed"
  BY DEF classStatus, Classes
<1>4. \A r : /\ r.class \in Classes =>
                  (Active(r) <=> r.class \in {"temporary", "requeued"})
             /\ r.class = NoClass => Active(r)
  BY <1>3 DEF Active, classToStatus, Classes, NoClass
<1>5. NewRow \in Rows /\ NewRow.class = NoClass
  BY DEF NewRow, Rows, NoClass
<1>6. \A r \in Rows : /\ RecordRequeueRow(r) \in Rows
                      /\ RecordRequeueRow(r).class = "requeued"
  BY DEF Rows, RecordRequeueRow, Classes
<1>7. \A r \in Rows, c \in Classes :
        /\ RecordAttemptRow(r, c) \in Rows
        /\ RecordAttemptRow(r, c).class = c
  BY DEF Rows, RecordAttemptRow
<1>8. "requeued" \in Classes
  BY DEF Classes
<1> QED
  BY <1>1, <1>2, <1>4, <1>5, <1>6, <1>7, <1>8, Zenon

\* One actor p moves on, on message m; the process stays up.
Moved(p, m, to) ==
  /\ up /\ up' = up
  /\ to \in Pcs(p) \ {"new"}
  /\ cur[p] \in {m, NoId}
  /\ p \in Ids => p = m
  /\ pc' = [pc EXCEPT ![p] = to]
  /\ cur' = [cur EXCEPT ![p] = IF to = "idle" THEN NoId ELSE m]

\* What the step of an actor does to the actors.
LEMMA MovedActors ==
  ASSUME Shape, Actors, NEW p \in Procs, NEW m \in Ids, NEW to,
         Moved(p, m, to)
  PROVE  /\ Actors'
         /\ pc' \in [Procs -> SessionPcs \cup WorkerPcs \cup OperatorPcs]
         /\ cur' \in [Procs -> Ids \cup {NoId}]
         /\ up' \in BOOLEAN
         /\ pc'[p] = to /\ cur'[p] = IF to = "idle" THEN NoId ELSE m
         /\ \A q \in Procs : q # p => pc'[q] = pc[q] /\ cur'[q] = cur[q]
<1>1. to \in SessionPcs \cup WorkerPcs \cup OperatorPcs
  BY DEF Moved, Pcs
<1>2. /\ pc' \in [Procs -> SessionPcs \cup WorkerPcs \cup OperatorPcs]
      /\ cur' \in [Procs -> Ids \cup {NoId}]
      /\ pc'[p] = to /\ cur'[p] = IF to = "idle" THEN NoId ELSE m
      /\ \A q \in Procs : q # p => pc'[q] = pc[q] /\ cur'[q] = cur[q]
  BY <1>1 DEF Moved, Shape
<1>3. m # NoId /\ Ids \subseteq Procs
  BY HistoryAssumption DEF Procs
<1>4. Actors'
  BY <1>2, <1>3 DEF Moved, Actors, Pcs
<1> QED
  BY <1>2, <1>4 DEF Moved, Shape

\* Nothing about message n changes but who has finished with others.
Same(n) ==
  /\ up' = up
  /\ disk'[n] = disk[n] /\ row'[n] = row[n] /\ pc'[n] = pc[n]
  /\ n \in index' <=> n \in index
  /\ n \in leased' <=> n \in leased
  /\ n \in blur' <=> n \in blur
  /\ \A q \in Procs : /\ cur'[q] = n <=> cur[q] = n
                      /\ cur[q] = n => pc'[q] = pc[q]

\* What the invariant says of a message that a step leaves alone still holds.
LEMMA SameLocal ==
  ASSUME NEW n \in Ids, Local(n), Same(n)
  PROVE  Local(n)'
<1>1. \A S : At(n, S)' <=> At(n, S)
  BY DEF At, Same
<1>2. \A S : Alone(n, S) => Alone(n, S)'
  BY DEF Alone, Same
<1>3. Unborn(n)' /\ OneLease(n)' /\ Places(n)' /\ Reconciled(n)'
  BY <1>1, <1>2 DEF Local, Same, Unborn, OneLease, Places, Reconciled
<1>4. QueueView(n)'
  <2>1. Truth(n) => Truth(n)'
    BY <1>1 DEF Same, Truth
  <2>2. Early(n) => Early(n)'
    BY <1>1 DEF Same, Early
  <2> QED
    BY <2>1, <2>2 DEF Local, QueueView, Same
<1> QED
  BY <1>3, <1>4 DEF Local

\* The data of the other messages is untouched.
Only(m) ==
  \A n \in Ids \ {m} : /\ disk'[n] = disk[n] /\ row'[n] = row[n]
                       /\ n \in index' <=> n \in index
                       /\ n \in leased' <=> n \in leased
                       /\ n \in blur' <=> n \in blur

\* The types of what an actor's step changes beside the actors.
DataShape ==
  /\ disk \in [Ids -> Wheres]
  /\ index \subseteq Ids /\ leased \subseteq Ids
  /\ row \in [Ids -> Rows \cup {NoRow}]
  /\ log \in [Ids -> Seq(Classes)]

\* An actor's step keeps the invariant if it keeps it for its own message.
LEMMA MovedKeeps ==
  ASSUME HistoryInv, NEW p \in Procs, NEW m \in Ids, NEW to,
         Moved(p, m, to), Only(m), DataShape', Local(m)'
  PROVE  HistoryInv'
<1>1. /\ Actors'
      /\ pc' \in [Procs -> SessionPcs \cup WorkerPcs \cup OperatorPcs]
      /\ cur' \in [Procs -> Ids \cup {NoId}]
      /\ up' \in BOOLEAN
      /\ pc'[p] = to /\ cur'[p] = IF to = "idle" THEN NoId ELSE m
      /\ \A q \in Procs : q # p => pc'[q] = pc[q] /\ cur'[q] = cur[q]
  BY MovedActors DEF HistoryInv
<1>2. Shape'
  BY <1>1 DEF Shape, DataShape
<1>3. Stopped'
  BY DEF Stopped, Moved
<1>4. ASSUME NEW n \in Ids, n # m PROVE Local(n)'
  <2>1. n # NoId /\ n \in Procs /\ (p = n => p = m)
    BY HistoryAssumption DEF Procs, Moved
  <2>2. pc'[n] = pc[n]
    BY <1>1, <1>4, <2>1
  <2>3. \A q \in Procs : /\ cur'[q] = n <=> cur[q] = n
                         /\ cur[q] = n => pc'[q] = pc[q]
    BY <1>1, <1>4, <2>1 DEF Moved
  <2>4. Same(n)
    BY <1>4, <2>2, <2>3 DEF Same, Only, Moved
  <2> QED
    BY <2>4, SameLocal DEF HistoryInv
<1> QED
  BY <1>1, <1>2, <1>3, <1>4 DEF HistoryInv

\* A lease is kept, taken when nobody has it, or given back by its holder.
LEMMA LeaseStep ==
  ASSUME HistoryInv, NEW p \in Procs, NEW m \in Ids, NEW to,
         Moved(p, m, to),
         \/ /\ m \in leased => m \in leased'
            /\ to \in Leased => cur[p] = m /\ pc[p] \in Leased
         \/ m \notin leased /\ m \in leased'
         \/ cur[p] = m /\ pc[p] \in Leased /\ to \notin Leased
  PROVE  OneLease(m)'
<1>1. /\ pc'[p] = to /\ cur'[p] = IF to = "idle" THEN NoId ELSE m
      /\ \A q \in Procs : q # p => pc'[q] = pc[q] /\ cur'[q] = cur[q]
  BY MovedActors DEF HistoryInv
<1>2. OneLease(m)
  BY DEF HistoryInv, Local
<1>3. m # NoId
  BY HistoryAssumption
<1> HIDE DEF Leased
<1> QED
  BY <1>1, <1>2, <1>3 DEF OneLease, Alone, At

\* A worker's or an operator's step does not bring a message into being.
LEMMA UnbornStep ==
  ASSUME HistoryInv, NEW p \in Procs, NEW m \in Ids, NEW to,
         Moved(p, m, to), p \notin Ids,
         row[m] = NoRow => row'[m] = NoRow,
         \/ cur[p] = m
         \/ p \in Workers /\ pc[m] # "new"
         \/ pc[m] = "idle"
  PROVE  Unborn(m)' /\ pc'[m] = pc[m] /\ pc[m] # "new"
<1>1. /\ pc'[p] = to /\ cur'[p] = IF to = "idle" THEN NoId ELSE m
      /\ \A q \in Procs : q # p => pc'[q] = pc[q] /\ cur'[q] = cur[q]
  BY MovedActors DEF HistoryInv
<1>2. Unborn(m) /\ m \in Procs /\ m # p /\ m # NoId
  BY HistoryAssumption DEF HistoryInv, Local, Procs
<1>3. pc'[m] = pc[m]
  BY <1>1, <1>2
<1>4. pc[p] \in Pcs(p) /\ (pc[p] \in {"new", "idle"} <=> cur[p] = NoId)
  BY DEF HistoryInv, Actors
<1>5. to \in Pcs(p)
  BY DEF Moved
<1>6. pc[m] # "new" /\ (pc[m] # "idle" => p \in Workers)
  BY <1>2, <1>4 DEF Unborn, At, Pcs, Procs
<1>7. pc[m] # "idle" => ~At(m, OperatorPcs)'
  <2> SUFFICES ASSUME pc[m] # "idle", NEW q \in Procs, cur'[q] = m,
                      pc'[q] \in OperatorPcs
               PROVE  FALSE
    BY DEF At
  <2>1. CASE q = p
    <3>1. to # "idle" /\ to \in WorkerPcs
      BY <1>1, <1>2, <1>5, <1>6, <2>1 DEF Pcs
    <3> QED
      BY <1>1, <2>1, <3>1 DEF WorkerPcs, OperatorPcs, Leasing, Dropped,
         Requeueing, Deleting
  <2>2. CASE q # p
    BY <1>1, <1>2, <2>2 DEF Unborn, At
  <2> QED
    BY <2>1, <2>2
<1> QED
  BY <1>2, <1>3, <1>6, <1>7 DEF Unborn

\* A step that writes no row leaves what ReconcileRemoved saw as it was.
LEMMA ReconciledStep ==
  ASSUME HistoryInv, NEW p \in Procs, NEW m \in Ids, NEW to,
         Moved(p, m, to), row'[m] = row[m],
         to = "d_reconcile" => ActiveRow(row[m])
  PROVE  Reconciled(m)'
<1>1. /\ pc'[p] = to /\ cur'[p] = IF to = "idle" THEN NoId ELSE m
      /\ \A q \in Procs : q # p => pc'[q] = pc[q] /\ cur'[q] = cur[q]
  BY MovedActors DEF HistoryInv
<1>2. Reconciled(m)
  BY DEF HistoryInv, Local
<1> QED
  BY <1>1, <1>2 DEF Reconciled, At

\* What a write of the store does, and what a refused one does.
LEMMA WriteFacts ==
  ASSUME Shape, NEW m \in Ids, NEW c \in Classes, Write(m, c) \/ Refused(m)
  PROVE  /\ row' \in [Ids -> Rows \cup {NoRow}]
         /\ log' \in [Ids -> Seq(Classes)]
         /\ \A n \in Ids \ {m} : row'[n] = row[n] /\ log'[n] = log[n]
         /\ \A n \in Ids \ {m} : n \in blur' <=> n \in blur
         /\ row[m] = NoRow <=> row'[m] = NoRow
         /\ \/ m \in blur' /\ row' = row /\ log' = log
            \/ /\ m \notin blur' /\ row'[m] # NoRow
               /\ row'[m].class = c
               /\ ActiveRow(row'[m]) <=> c \in {"temporary", "requeued"}
<1>1. CASE Refused(m)
  BY <1>1 DEF Refused, Shape
<1>2. CASE Write(m, c)
  <2> DEFINE r == IF c = "requeued" THEN RecordRequeueRow(row[m])
                                    ELSE RecordAttemptRow(row[m], c)
  <2>1. row[m] \in Rows /\ row[m] # NoRow
    BY <1>2 DEF Write, Shape
  <2>2. r \in Rows /\ r # NoRow /\ r.class = c
          /\ (ActiveRow(r) <=> c \in {"temporary", "requeued"})
    BY <2>1, RowFacts
  <2>3. row' = [row EXCEPT ![m] = r]
    BY <1>2 DEF Write
  <2> HIDE DEF r
  <2>4. log[m] \in Seq(Classes) /\ Append(log[m], c) \in Seq(Classes)
    BY DEF Shape
  <2>5. /\ log' \in [Ids -> Seq(Classes)]
        /\ \A n \in Ids \ {m} : log'[n] = log[n]
    BY <1>2, <2>4 DEF Write, Shape
  <2>6. /\ row' \in [Ids -> Rows \cup {NoRow}] /\ row'[m] = r
        /\ \A n \in Ids \ {m} : row'[n] = row[n]
    BY <2>2, <2>3 DEF Shape
  <2>7. blur' = blur \ {m}
    BY <1>2 DEF Write
  <2> QED
    BY <2>1, <2>2, <2>5, <2>6, <2>7
<1> QED
  BY <1>1, <1>2

\* A worker or an operator moves on, on message m, under a lease it keeps,
\* takes or gives back.
Acted(p, m, to) ==
  /\ Moved(p, m, to) /\ Only(m) /\ DataShape' /\ p \notin Ids
  /\ row[m] = NoRow => row'[m] = NoRow
  /\ \/ cur[p] = m
     \/ p \in Workers /\ pc[m] # "new"
     \/ pc[m] = "idle"
  /\ \/ /\ m \in leased => m \in leased'
        /\ to \in Leased => cur[p] = m /\ pc[p] \in Leased
     \/ m \notin leased /\ m \in leased'
     \/ cur[p] = m /\ pc[p] \in Leased /\ to \notin Leased

\* What is left to show of such a step.
LEMMA ActedKeeps ==
  ASSUME HistoryInv, NEW p \in Procs, NEW m \in Ids, NEW to,
         Acted(p, m, to), Places(m)', Reconciled(m)', QueueView(m)'
  PROVE  HistoryInv'
<1>1. Moved(p, m, to) /\ Only(m) /\ DataShape'
  BY DEF Acted
<1>2. OneLease(m)'
  BY <1>1, LeaseStep DEF Acted
<1>3. Unborn(m)'
  BY <1>1, UnbornStep DEF Acted
<1>4. Local(m)'
  BY <1>2, <1>3 DEF Local
<1> QED
  BY <1>1, <1>4, MovedKeeps

\* A step that only takes its actor on: files, index and rows stay.
LEMMA QuietKeeps ==
  ASSUME HistoryInv, NEW p \in Procs, NEW m \in Ids, NEW to,
         Acted(p, m, to),
         disk' = disk, index' = index, row' = row, blur' = blur,
         pc[p] \notin {"w_remove", "w_fail", "q_hook", "w_unlink", "w_half"},
         to \notin Dropped \cup {"w_remove", "w_fail", "d_audit"},
         to \in Leasing \cup Requeueing => m \in index,
         to \in Deleting => disk[m] = "none",
         to = "d_reconcile" => ActiveRow(row[m]),
         pc[p] \in {"d_removal", "d_find", "d_reconcile"} =>
           \/ to \in {"d_removal", "d_find", "d_reconcile"}
           \/ ~ActiveRow(row[m])
  PROVE  HistoryInv'
<1>1. /\ pc'[p] = to /\ cur'[p] = IF to = "idle" THEN NoId ELSE m
      /\ \A q \in Procs : q # p => pc'[q] = pc[q] /\ cur'[q] = cur[q]
  BY MovedActors DEF HistoryInv, Acted
<1>2. pc'[m] = pc[m]
  BY UnbornStep DEF Acted
<1>3. Reconciled(m)'
  BY ReconciledStep DEF Acted
<1>4. Places(m) /\ QueueView(m) /\ up /\ up' = up /\ m # NoId
  BY HistoryAssumption DEF HistoryInv, Local, Acted, Moved
<1>5. cur[p] \in {m, NoId}
  BY DEF Acted, Moved
<1>6. Alone(m, Dropped)'
  BY <1>1, <1>4 DEF Places, Alone
<1>7. /\ At(m, Leasing \cup Requeueing)' =>
           At(m, Leasing \cup Requeueing) \/ m \in index
      /\ At(m, Dropped)' => At(m, Dropped)
      /\ At(m, {"w_unlink", "w_half"})' => At(m, {"w_unlink", "w_half"})
      /\ At(m, {"w_move"})' => At(m, {"w_move"})
      /\ At(m, Deleting)' => At(m, Deleting) \/ disk[m] = "none"
  BY <1>1 DEF At, Dropped
<1>8. Places(m)'
  BY <1>4, <1>6, <1>7 DEF Places
<1>9. QueueView(m)'
  <2> SUFFICES ASSUME m \notin blur'
               PROVE  (Early(m) /\ (row[m] # NoRow => Truth(m)))'
    BY DEF QueueView
  <2>1. /\ At(m, {"w_remove", "w_fail"})' => At(m, {"w_remove", "w_fail"})
        /\ At(m, {"w_remove", "w_fail", "d_audit"})' =>
             At(m, {"w_remove", "w_fail", "d_audit"})
        /\ At(m, {"w_remove", "w_fail", "q_hook"}) =>
             At(m, {"w_remove", "w_fail", "q_hook"})'
        /\ At(m, {"w_unlink", "w_half"}) => At(m, {"w_unlink", "w_half"})'
    BY <1>1 DEF At
  <2>2. At(m, {"d_removal", "d_find", "d_reconcile"}) =>
          \/ At(m, {"d_removal", "d_find", "d_reconcile"})'
          \/ ~ActiveRow(row[m])
    BY <1>1, <1>5 DEF At
  <2>3. Early(m)'
    BY <1>2, <1>4, <2>1 DEF QueueView, Early
  <2>4. row[m] # NoRow => Truth(m)'
    BY <1>4, <2>1, <2>2 DEF QueueView, Truth
  <2> QED
    BY <2>3, <2>4
<1> QED
  BY <1>3, <1>8, <1>9, ActedKeeps

\* A step that writes to the journal, or tries to.
LEMMA JournalKeeps ==
  ASSUME HistoryInv, NEW p \in Procs, NEW m \in Ids, NEW to,
         NEW c \in Classes,
         Acted(p, m, to), cur[p] = m, disk' = disk, index' = index,
         Write(m, c) \/ Refused(m),
         \/ /\ m \in index /\ pc[p] \in Leased
            /\ \/ /\ c \in {"temporary", "requeued"}
                  /\ to \in {"w_release", "q_free"}
               \/ /\ c \in {"delivered", "permanent", "expired"}
                  /\ to \in {"w_remove", "w_fail"}
         \/ disk[m] = "none" /\ c = "removed" /\ to \in {"d_audit", "idle"}
  PROVE  HistoryInv'
<1>1. /\ pc'[p] = to /\ cur'[p] = IF to = "idle" THEN NoId ELSE m
      /\ \A q \in Procs : q # p => pc'[q] = pc[q] /\ cur'[q] = cur[q]
  BY MovedActors DEF HistoryInv, Acted
<1>2. pc'[m] = pc[m]
  BY UnbornStep DEF Acted
<1>3. /\ row[m] = NoRow <=> row'[m] = NoRow
      /\ \/ m \in blur' /\ row' = row
         \/ /\ m \notin blur' /\ row'[m] # NoRow
            /\ row'[m].class = c
            /\ ActiveRow(row'[m]) <=> c \in {"temporary", "requeued"}
  BY WriteFacts DEF HistoryInv
<1>4. /\ Places(m) /\ OneLease(m) /\ Unborn(m) /\ Reconciled(m)
      /\ up /\ up' = up /\ m # NoId
  BY HistoryAssumption DEF HistoryInv, Local, Acted, Moved
<1>5. Places(m)'
  <2>1. Alone(m, Dropped)'
    BY <1>1, <1>4 DEF Places, Alone, Dropped
  <2>2. /\ At(m, Leasing \cup Requeueing)' =>
             At(m, Leasing \cup Requeueing) \/ m \in index
        /\ At(m, Dropped)' => At(m, Dropped)
        /\ At(m, {"w_unlink", "w_half"})' => At(m, {"w_unlink", "w_half"})
        /\ At(m, {"w_move"})' => At(m, {"w_move"})
        /\ At(m, Deleting)' => At(m, Deleting) \/ disk[m] = "none"
    BY <1>1 DEF At, Dropped, Leasing, Requeueing, Deleting
  <2> QED
    BY <1>4, <2>1, <2>2 DEF Places
<1>6. m \in index => ~At(m, Deleting) /\ disk[m] = "queue"
  BY <1>4 DEF Places
<1>7. m \in index => ~At(m, Deleting)'
  BY <1>1, <1>6 DEF At, Deleting
<1>8. Reconciled(m)'
  <2>1. CASE row' = row
    BY <1>1, <1>4, <2>1 DEF Reconciled, At
  <2>2. CASE row' # row
    BY <1>3, <1>7, <2>2 DEF Reconciled, At, Deleting
  <2> QED
    BY <2>1, <2>2
<1>9. QueueView(m)'
  <2> SUFFICES ASSUME m \notin blur'
               PROVE  (Early(m) /\ (row[m] # NoRow => Truth(m)))'
    BY DEF QueueView
  <2>1. Early(m)'
    BY <1>2, <1>3, <1>4 DEF Early, Unborn
  <2>2. CASE c \in {"temporary", "requeued"}
    <3>1. ~At(m, {"w_remove", "w_fail"})'
      BY <1>1, <1>4, <2>2 DEF OneLease, Alone, At, Leased, Leasing
    <3>2. ~At(m, {"w_remove", "w_fail", "d_audit"})'
      BY <1>7, <2>2, <3>1 DEF At, Deleting
    <3> QED
      BY <1>3, <1>4, <1>6, <2>1, <2>2, <3>2 DEF Truth
  <2>3. CASE c \in {"delivered", "permanent", "expired"}
    <3>1. At(m, {"w_remove", "w_fail", "q_hook"})'
      BY <1>1, <2>3 DEF At
    <3> QED
      BY <1>3, <1>4, <2>1, <2>3, <3>1 DEF QueueView, Truth
  <2>4. CASE c = "removed"
    <3>1. m \notin index /\ disk[m] = "none"
      BY <1>6, <2>4
    <3> QED
      BY <1>3, <1>4, <2>1, <2>4, <3>1 DEF QueueView, Truth
  <2> QED
    BY <2>2, <2>3, <2>4 DEF Classes
<1> QED
  BY <1>5, <1>8, <1>9, ActedKeeps

-----------------------------------------------------------------------------
(* The steps of a worker and of an operator keep the invariant.            *)

\* Facts about an actor that is at work.
LEMMA ActorFacts ==
  ASSUME HistoryInv, NEW p \in Workers \cup Operators
  PROVE  /\ p \in Procs /\ p \notin Ids
         /\ p \in Workers => Pcs(p) = WorkerPcs
         /\ p \in Operators => Pcs(p) = OperatorPcs
         /\ pc[p] = "idle" => cur[p] = NoId
         /\ pc[p] \notin {"new", "idle"} => cur[p] \in Ids
         /\ pc[p] \in Leasing \cup Requeueing => cur[p] \in index
         /\ pc[p] \in Dropped => cur[p] \notin index
         /\ pc[p] \in Deleting => disk[cur[p]] = "none"
<1>1. p \in Procs /\ p \notin Ids
  BY HistoryAssumption DEF Procs
<1>2. (p \in Workers => Pcs(p) = WorkerPcs)
        /\ (p \in Operators => Pcs(p) = OperatorPcs)
  BY <1>1, HistoryAssumption DEF Pcs
<1>3. /\ pc[p] = "idle" => cur[p] = NoId
      /\ pc[p] \notin {"new", "idle"} => cur[p] \in Ids
  BY <1>1 DEF HistoryInv, Actors, Shape
<1>4. cur[p] \in Ids => Places(cur[p])
  BY DEF HistoryInv, Local
<1>5. /\ pc[p] \in Leasing \cup Requeueing => cur[p] \in index
      /\ pc[p] \in Dropped => cur[p] \notin index
      /\ pc[p] \in Deleting => disk[cur[p]] = "none"
  BY <1>1, <1>3, <1>4 DEF Places, At, Leasing, Requeueing, Dropped, Deleting
<1> QED
  BY <1>1, <1>2, <1>3, <1>5

\* dispatcher: a worker takes a message that nobody has leased.
LEMMA ClaimKeeps ==
  ASSUME HistoryInv, NEW w \in Workers, NEW id \in Ids, Claim(w, id)
  PROVE  HistoryInv'
<1>1. w \in Procs /\ w \notin Ids /\ Pcs(w) = WorkerPcs
  BY ActorFacts
<1>2. pc[w] = "idle" /\ cur[w] = NoId
  BY ActorFacts DEF Claim, Begin
<1>3. Moved(w, id, "w_try")
  BY <1>1, <1>2 DEF Claim, Begin, Moved, WorkerPcs, Leasing
<1>4. pc[id] # "new"
  BY DEF HistoryInv, Local, Unborn, Places, Claim
<1>5. Only(id) /\ DataShape'
  BY DEF Claim, Only, DataShape, HistoryInv, Shape, tables
<1>6. Acted(w, id, "w_try")
  BY <1>1, <1>3, <1>4, <1>5 DEF Acted, Claim, tables
<1> QED
  BY <1>1, <1>2, <1>6, QuietKeeps
  DEF Claim, tables, Leasing, Dropped, Requeueing, Deleting

\* The attempt itself, and the end of one that recorded nothing.
LEMMA AttemptKeeps ==
  ASSUME HistoryInv, NEW w \in Workers,
         Hold(w) \/ Release(w)
           \/ \E c \in {"delivered", "temporary", "permanent", "expired"} :
                Attempt(w, c)
  PROVE  HistoryInv'
<1> DEFINE id == cur[w]
<1>1. w \in Procs /\ w \notin Ids /\ Pcs(w) = WorkerPcs
  BY ActorFacts
<1>2. pc[w] \in {"w_try", "w_release"} /\ up
  BY DEF Hold, Release, Attempt, Step, End
<1>3. id \in Ids /\ id \in index
  BY <1>2, ActorFacts DEF Leasing
<1>4. CASE Hold(w) \/ Release(w)
  <2>1. /\ disk' = disk /\ index' = index /\ row' = row /\ blur' = blur
        /\ log' = log /\ leased' = leased \ {id}
    BY <1>3, <1>4 DEF Hold, Release, tables
  <2>2. Moved(w, id, "idle")
    BY <1>1, <1>4 DEF Hold, Release, End, Moved, WorkerPcs
  <2>3. Acted(w, id, "idle")
    BY <1>1, <1>2, <2>1, <2>2
    DEF Acted, Only, DataShape, HistoryInv, Shape, Leased, Leasing, Requeueing
  <2> HIDE DEF id
  <2> QED
    BY <1>1, <1>2, <1>3, <2>1, <2>3, QuietKeeps
    DEF Leasing, Dropped, Requeueing, Deleting
<1>5. ASSUME NEW c \in {"delivered", "temporary", "permanent", "expired"},
             Attempt(w, c)
      PROVE  HistoryInv'
  <2>1. /\ disk' = disk /\ index' = index /\ row' = row /\ blur' = blur
        /\ log' = log /\ leased' = leased
    BY <1>5 DEF Attempt, tables, spool
  <2> DEFINE to == CASE c = "delivered" -> "w_delivered"
                     [] c = "temporary" -> "w_temporary"
                     [] c = "permanent" -> "w_permanent"
                     [] c = "expired" -> "w_expired"
  <2>2. to \in {"w_delivered", "w_temporary", "w_permanent", "w_expired"}
    OBVIOUS
  <2>3. pc[w] = "w_try" /\ pc' = [pc EXCEPT ![w] = to] /\ UNCHANGED <<up, cur>>
    BY <1>5 DEF Attempt, Step
  <2> HIDE DEF to
  <2>4. cur' = [cur EXCEPT ![w] = id]
    BY <1>1, <2>3 DEF HistoryInv, Shape
  <2>5. Moved(w, id, to)
    BY <1>1, <1>2, <2>2, <2>3, <2>4 DEF Moved, WorkerPcs, Leasing
  <2>6. Acted(w, id, to)
    BY <1>1, <2>1, <2>2, <2>3, <2>5
    DEF Acted, Only, DataShape, HistoryInv, Shape, Leased, Leasing
  <2> HIDE DEF id
  <2> QED
    BY <1>1, <1>2, <1>3, <2>1, <2>2, <2>3, <2>6, QuietKeeps
    DEF Leasing, Dropped, Requeueing, Deleting
<1> QED
  BY <1>4, <1>5

\* record and fail: the outcome goes to the journal before the spool.
LEMMA JournalStepsKeep ==
  ASSUME HistoryInv, NEW p \in Workers \cup Operators, NEW to,
         NEW c \in Classes,
         up, up' = up, pc' = [pc EXCEPT ![p] = to],
         cur' = [cur EXCEPT ![p] = IF to = "idle" THEN NoId ELSE @],
         to \in Pcs(p) \ {"new"}, UNCHANGED spool,
         Write(cur[p], c) \/ Refused(cur[p]),
         \/ /\ pc[p] \in Leasing \cup Requeueing
            /\ \/ /\ c \in {"temporary", "requeued"}
                  /\ to \in {"w_release", "q_free"}
               \/ /\ c \in {"delivered", "permanent", "expired"}
                  /\ to \in {"w_remove", "w_fail"}
         \/ /\ pc[p] \in Deleting /\ c = "removed"
            /\ to \in {"d_audit", "idle"}
  PROVE  HistoryInv'
<1> DEFINE id == cur[p]
<1>1. p \in Procs /\ p \notin Ids
  BY ActorFacts
<1>2. id \in Ids
  BY ActorFacts DEF Leasing, Requeueing, Deleting
<1>3. /\ row' \in [Ids -> Rows \cup {NoRow}]
      /\ log' \in [Ids -> Seq(Classes)]
      /\ \A n \in Ids \ {id} : row'[n] = row[n] /\ log'[n] = log[n]
      /\ \A n \in Ids \ {id} : n \in blur' <=> n \in blur
      /\ row[id] = NoRow <=> row'[id] = NoRow
  BY <1>2, WriteFacts DEF HistoryInv
<1>4. Moved(p, id, to)
  BY <1>1 DEF Moved
<1>5. disk' = disk /\ index' = index /\ leased' = leased
  BY DEF spool
<1>6. Only(id) /\ DataShape'
  BY <1>3, <1>5 DEF Only, DataShape, HistoryInv, Shape
<1>7. Acted(p, id, to)
  BY <1>1, <1>3, <1>4, <1>5, <1>6
  DEF Acted, Leased, Leasing, Requeueing, Deleting
<1>8. /\ pc[p] \in Leasing \cup Requeueing => id \in index /\ pc[p] \in Leased
      /\ pc[p] \in Deleting => disk[id] = "none"
  BY ActorFacts DEF Leased
<1> QED
  BY <1>1, <1>2, <1>5, <1>7, <1>8, JournalKeeps

\* record and fail, the operator's committed hook, RecordRemoval and
\* ReconcileRemoved are such steps.
LEMMA JournalActionsKeep ==
  ASSUME HistoryInv
  PROVE  /\ \A w \in Workers :
              (JournalDelivered(w) \/ JournalTemporary(w) \/ JournalFailed(w))
                => HistoryInv'
         /\ \A o \in Operators :
              (RequeueHook(o) \/ DeleteRemoval(o) \/ DeleteReconcile(o))
                => HistoryInv'
<1>1. \A p \in Procs : cur' = cur => cur' = [cur EXCEPT ![p] = @]
  BY DEF HistoryInv, Shape
<1>2. \A w \in Workers : w \in Procs /\ Pcs(w) = WorkerPcs
  BY ActorFacts
<1>3. \A o \in Operators : o \in Procs /\ Pcs(o) = OperatorPcs
  BY ActorFacts
<1>4. ASSUME NEW w \in Workers, JournalDelivered(w) PROVE HistoryInv'
  BY <1>1, <1>2, <1>4, JournalStepsKeep
  DEF JournalDelivered, RecordAttempt, Step, WorkerPcs, Leasing, Classes
<1>5. ASSUME NEW w \in Workers, JournalTemporary(w) PROVE HistoryInv'
  BY <1>1, <1>2, <1>5, JournalStepsKeep
  DEF JournalTemporary, RecordAttempt, Step, WorkerPcs, Leasing, Classes
<1>6. ASSUME NEW w \in Workers, JournalFailed(w) PROVE HistoryInv'
  BY <1>1, <1>2, <1>6, JournalStepsKeep
  DEF JournalFailed, RecordAttempt, Step, WorkerPcs, Leasing, Classes
<1>7. ASSUME NEW o \in Operators, RequeueHook(o) PROVE HistoryInv'
  BY <1>1, <1>3, <1>7, JournalStepsKeep
  DEF RequeueHook, RecordRequeue, Step, OperatorPcs, Requeueing, Classes
<1>8. ASSUME NEW o \in Operators, DeleteRemoval(o) PROVE HistoryInv'
  BY <1>1, <1>3, <1>8, JournalStepsKeep
  DEF DeleteRemoval, RecordRemoval, RecordAttempt, Step, OperatorPcs,
      Deleting, Classes
<1>9. ASSUME NEW o \in Operators, DeleteReconcile(o) PROVE HistoryInv'
  BY <1>1, <1>3, <1>9, JournalStepsKeep
  DEF DeleteReconcile, Step, End, OperatorPcs, Deleting, Classes
<1> QED
  BY <1>4, <1>5, <1>6, <1>7, <1>8, <1>9

\* Remove and Fail drop the index entry of a message whose outcome is
\* journaled, or whose journal is known to be behind.
LEMMA DropKeeps ==
  ASSUME HistoryInv, NEW w \in Workers, Drop(w)
  PROVE  HistoryInv'
<1>1. w \in Procs /\ w \notin Ids /\ Pcs(w) = WorkerPcs
  BY ActorFacts
<1>2. PICK to \in {"w_unlink", "w_half"} :
        /\ pc[w] \in {"w_remove", "w_fail"} /\ up /\ up' = up
        /\ pc' = [pc EXCEPT ![w] = to] /\ cur' = cur
  BY DEF Drop, Step
<1>3. PICK id \in Ids : id = cur[w] /\ id \in index /\ id # NoId
  BY <1>2, ActorFacts, HistoryAssumption DEF Leasing
<1>4. /\ disk' = disk /\ index' = index \ {id} /\ leased' = leased \ {id}
      /\ row' = row /\ log' = log /\ blur' = blur
  BY <1>3 DEF Drop, tables
<1>5. Moved(w, id, to)
  <2>1. cur' = [cur EXCEPT ![w] = id]
    BY <1>1, <1>2, <1>3 DEF HistoryInv, Shape
  <2> QED
    BY <1>1, <1>2, <1>3, <2>1 DEF Moved, WorkerPcs, Dropped
<1>6. Acted(w, id, to)
  BY <1>1, <1>2, <1>3, <1>4, <1>5
  DEF Acted, Only, DataShape, HistoryInv, Shape, Leased, Leasing, Requeueing
<1>7. Places(id) /\ OneLease(id) /\ QueueView(id)
  BY <1>3 DEF HistoryInv, Local
<1>8. disk[id] = "queue" /\ ~At(id, Dropped) /\ ~At(id, Deleting)
  BY <1>3, <1>7 DEF Places
<1>9. /\ pc'[w] = to /\ cur'[w] = id
      /\ \A q \in Procs : q # w => pc'[q] = pc[q] /\ cur'[q] = cur[q]
  BY <1>1, <1>2, <1>3, <1>5, MovedActors DEF HistoryInv
<1>10. ~At(id, Leasing \cup Requeueing)'
  BY <1>1, <1>2, <1>3, <1>7, <1>9
  DEF OneLease, Alone, At, Leased, Leasing, Requeueing
<1>11. Places(id)'
  <2>1. Alone(id, Dropped)'
    BY <1>3, <1>8, <1>9 DEF At, Alone
  <2>2. ~At(id, {"w_move"})' /\ ~At(id, Deleting)'
    BY <1>3, <1>8, <1>9 DEF At, Dropped, Deleting
  <2> QED
    BY <1>3, <1>4, <1>8, <1>10, <2>1, <2>2 DEF Places
<1>12. Reconciled(id)'
  BY <1>1, <1>3, <1>4, <1>5, ReconciledStep
<1>13. QueueView(id)'
  <2> SUFFICES ASSUME id \notin blur
               PROVE  (Early(id) /\ (row[id] # NoRow => Truth(id)))'
    BY <1>3, <1>4 DEF QueueView
  <2>1. At(id, {"w_remove", "w_fail"})
    BY <1>1, <1>2, <1>3 DEF At
  <2>2. Early(id) /\ pc[id] # "a_journal"
    BY <1>3, <1>7, <2>1 DEF QueueView, Early
  <2>3. pc'[id] = pc[id]
    BY <1>1, <1>3, <1>6, UnbornStep DEF Acted
  <2>4. row[id] # NoRow => ~ActiveRow(row[id])
    BY <1>3, <1>7, <2>1 DEF QueueView, Truth, At
  <2>5. At(id, {"w_unlink", "w_half"})'
    BY <1>1, <1>3, <1>9 DEF At
  <2> QED
    BY <1>2, <1>3, <1>4, <2>2, <2>3, <2>4, <2>5 DEF Early, Truth
<1> QED
  BY <1>1, <1>3, <1>6, <1>11, <1>12, <1>13, ActedKeeps

\* A step that moves, removes or fails to move the files of a message out of
\* the index, and ends in "w_move" or is done.
LEMMA FilesKeep ==
  ASSUME HistoryInv, NEW w \in Workers, NEW to \in {"w_move", "idle"},
         pc[w] \in Dropped, up, up' = up, pc' = [pc EXCEPT ![w] = to],
         cur' = [cur EXCEPT ![w] = IF to = "idle" THEN NoId ELSE cur[w]],
         UNCHANGED <<index, leased, row, log>>,
         disk' \in [Ids -> Wheres],
         \A n \in Ids \ {cur[w]} :
           disk'[n] = disk[n] /\ (n \in blur' <=> n \in blur),
         disk[cur[w]] = "none" => disk'[cur[w]] = "none",
         cur[w] \in blur => cur[w] \in blur',
         cur[w] \in blur' \/ disk'[cur[w]] # "queue",
         to = "w_move" => disk'[cur[w]] \in {"half", "queue", "none"}
  PROVE  HistoryInv'
<1>1. w \in Procs /\ w \notin Ids /\ Pcs(w) = WorkerPcs
  BY ActorFacts
<1>2. PICK id \in Ids : id = cur[w] /\ id \notin index /\ id # NoId
  BY ActorFacts, HistoryAssumption DEF Dropped
<1>3. Moved(w, id, to)
  BY <1>1, <1>2 DEF Moved, WorkerPcs, Dropped
<1>4. Acted(w, id, to)
  BY <1>1, <1>2, <1>3
  DEF Acted, Only, DataShape, HistoryInv, Shape, Leased, Leasing, Requeueing,
      Dropped
<1>5. Places(id) /\ QueueView(id)
  BY <1>2 DEF HistoryInv, Local
<1>6. pc'[id] = pc[id]
  BY <1>1, <1>2, <1>4, UnbornStep DEF Acted
<1>7. Alone(id, Dropped) /\ ~At(id, Leasing \cup Requeueing)
  BY <1>2, <1>5 DEF Places
<1>8. Reconciled(id)'
  BY <1>1, <1>2, <1>3, ReconciledStep
<1>9. /\ pc'[w] = to /\ cur'[w] = IF to = "idle" THEN NoId ELSE id
      /\ \A q \in Procs : q # w => pc'[q] = pc[q] /\ cur'[q] = cur[q]
  BY <1>1, <1>2, <1>3, MovedActors DEF HistoryInv
<1>10. \A q \in Procs :
         q # w /\ cur'[q] = id => cur[q] = id /\ pc'[q] = pc[q]
                                  /\ pc[q] \notin Dropped
  BY <1>1, <1>2, <1>7, <1>9 DEF Alone
<1>11. Places(id)'
  <2>1. Alone(id, Dropped)'
    BY <1>2, <1>9, <1>10 DEF Alone
  <2>2. ~At(id, Leasing \cup Requeueing)'
    BY <1>2, <1>7, <1>9 DEF At, Leasing, Requeueing
  <2>3. ~At(id, {"w_unlink", "w_half"})'
    BY <1>2, <1>9, <1>10 DEF At, Dropped
  <2>4. At(id, {"w_move"})' => to = "w_move"
    BY <1>2, <1>9, <1>10 DEF At, Dropped
  <2>5. At(id, Deleting)' => At(id, Deleting)
    BY <1>2, <1>9 DEF At, Deleting
  <2> QED
    BY <1>2, <1>5, <2>1, <2>2, <2>3, <2>4, <2>5 DEF Places
<1>12. QueueView(id)'
  <2> SUFFICES ASSUME id \notin blur'
               PROVE  (Early(id) /\ (row[id] # NoRow => Truth(id)))'
    BY <1>2 DEF QueueView
  <2>1. id \notin blur /\ disk'[id] # "queue"
    BY <1>2
  <2>2. Early(id)'
    BY <1>2, <1>5, <1>6, <2>1 DEF QueueView, Early
  <2>3. /\ At(id, {"d_removal", "d_find", "d_reconcile"}) <=>
             At(id, {"d_removal", "d_find", "d_reconcile"})'
        /\ At(id, {"w_remove", "w_fail", "d_audit"})' =>
             At(id, {"w_remove", "w_fail", "d_audit"})
    BY <1>1, <1>2, <1>9 DEF At, Dropped
  <2>4. row[id] # NoRow => Truth(id)'
    BY <1>2, <1>5, <2>1, <2>3 DEF QueueView, Truth
  <2> QED
    BY <1>2, <2>2, <2>4
<1> QED
  BY <1>1, <1>2, <1>4, <1>8, <1>11, <1>12, ActedKeeps

\* Remove's unlink and Fail's two renames are such steps.
LEMMA FileActionsKeep ==
  ASSUME HistoryInv, NEW w \in Workers,
         RemoveUnlink(w) \/ FailHalf(w) \/ FailMove(w)
  PROVE  HistoryInv'
<1> DEFINE id == cur[w]
<1>1. pc[w] \in Dropped
  BY DEF RemoveUnlink, FailHalf, FailMove, Step, End, Dropped
<1>2. id \in Ids /\ w \in Procs /\ Places(id) /\ At(id, {pc[w]})
  BY <1>1, ActorFacts DEF Dropped, HistoryInv, Local, At
<1>3. cur \in [Procs -> Ids \cup {NoId}]
      /\ disk \in [Ids -> Wheres]
  BY DEF HistoryInv, Shape
<1>4. CASE RemoveUnlink(w)
  <2>1. /\ up /\ up' = up /\ pc' = [pc EXCEPT ![w] = "idle"]
        /\ cur' = [cur EXCEPT ![w] = NoId]
        /\ UNCHANGED <<index, leased, row, log>>
    BY <1>4 DEF RemoveUnlink, End, tables
  <2>2. CASE /\ disk' = [disk EXCEPT ![id] = "none"]
             /\ UNCHANGED <<faults, blur>>
    <3>1. disk' \in [Ids -> Wheres] /\ disk'[id] = "none"
            /\ \A n \in Ids \ {id} : disk'[n] = disk[n]
      BY <1>2, <1>3, <2>2 DEF Wheres
    <3> QED
      BY <1>1, <2>1, <2>2, <3>1, FilesKeep
  <2>3. CASE blur' = blur \cup {id} /\ UNCHANGED disk
    BY <1>1, <1>2, <1>3, <2>1, <2>3, FilesKeep
  <2> QED
    BY <1>4, <2>2, <2>3 DEF RemoveUnlink
<1>5. CASE FailHalf(w)
  <2>1. disk[id] \in {"queue", "none"}
    BY <1>1, <1>2, <1>5 DEF FailHalf, Step, End, Places, At
  <2>2. /\ up /\ up' = up /\ pc' = [pc EXCEPT ![w] = "w_move"]
        /\ cur' = [cur EXCEPT ![w] = cur[w]]
        /\ UNCHANGED <<index, leased, row, log>>
    BY <1>2, <1>3, <1>5 DEF FailHalf, Step, tables
  <2>3. CASE /\ disk' = [disk EXCEPT ![id] = IF @ = "queue" THEN "half" ELSE @]
             /\ UNCHANGED <<faults, blur>>
    <3>1. disk' \in [Ids -> Wheres] /\ disk'[id] \in {"half", "none"}
            /\ (disk[id] = "none" => disk'[id] = "none")
            /\ \A n \in Ids \ {id} : disk'[n] = disk[n]
      BY <1>2, <1>3, <2>1, <2>3 DEF Wheres
    <3> QED
      BY <1>1, <2>2, <2>3, <3>1, FilesKeep
  <2>4. CASE Unmoved(id)
    BY <1>1, <1>2, <1>3, <2>1, <2>2, <2>4, FilesKeep DEF Unmoved
  <2> QED
    BY <1>5, <2>3, <2>4 DEF FailHalf
<1>6. CASE FailMove(w)
  <2>1. disk[id] \in {"half", "queue", "none"}
    BY <1>1, <1>2, <1>6 DEF FailMove, End, Places, At
  <2>2. /\ up /\ up' = up /\ pc' = [pc EXCEPT ![w] = "idle"]
        /\ cur' = [cur EXCEPT ![w] = NoId]
        /\ UNCHANGED <<index, leased, row, log>>
    BY <1>6 DEF FailMove, End, tables
  <2>3. CASE /\ disk' = [disk EXCEPT ![id] = CASE @ = "half" -> "failed"
                                               [] @ = "queue" -> "half"
                                               [] OTHER -> @]
             /\ UNCHANGED <<faults, blur>>
    <3>1. disk' \in [Ids -> Wheres] /\ disk'[id] \in {"failed", "half", "none"}
            /\ (disk[id] = "none" => disk'[id] = "none")
            /\ \A n \in Ids \ {id} : disk'[n] = disk[n]
      BY <1>2, <1>3, <2>1, <2>3 DEF Wheres
    <3> QED
      BY <1>1, <2>2, <2>3, <3>1, FilesKeep
  <2>4. CASE Unmoved(id)
    BY <1>1, <1>2, <1>3, <2>2, <2>4, FilesKeep DEF Unmoved
  <2> QED
    BY <1>6, <2>3, <2>4 DEF FailMove
<1> QED
  BY <1>4, <1>5, <1>6

\* tryLease: an operator takes a message that has a row and no lease.
LEMMA TryLeaseKeeps ==
  ASSUME HistoryInv, NEW o \in Operators, NEW id \in Ids,
         NEW to \in {"q_move", "d_unlink"}, TryLease(o, id, to)
  PROVE  HistoryInv'
<1>1. o \in Procs /\ o \notin Ids /\ Pcs(o) = OperatorPcs
  BY ActorFacts
<1>2. pc[o] = "idle" /\ cur[o] = NoId
  BY ActorFacts DEF TryLease, Begin
<1>3. Moved(o, id, to)
  BY <1>1, <1>2 DEF TryLease, Begin, Moved, OperatorPcs
<1>4. pc[id] = "idle"
  <2>1. id \in Procs /\ pc[id] \in SessionPcs /\ Unborn(id)
    BY DEF HistoryInv, Actors, Local, Pcs, Procs
  <2> QED
    BY <2>1 DEF Unborn, SessionPcs, TryLease
<1>5. Only(id) /\ DataShape'
  BY DEF TryLease, Only, DataShape, HistoryInv, Shape, tables
<1>6. Acted(o, id, to)
  BY <1>1, <1>3, <1>4, <1>5 DEF Acted, TryLease, tables
<1> QED
  BY <1>1, <1>2, <1>6, QuietKeeps
  DEF TryLease, tables, Leasing, Dropped, Requeueing, Deleting

\* The steps of a queue action that change neither files nor rows: what is
\* missing or cannot be moved, the lease given back, the audit row.
LEMMA OperatorQuiet ==
  ASSUME HistoryInv, NEW o \in Operators, NEW to \in OperatorPcs,
         up, up' = up, pc' = [pc EXCEPT ![o] = to],
         cur' = IF to = "idle" THEN [cur EXCEPT ![o] = NoId] ELSE cur,
         disk' = disk, index' = index, row' = row, log' = log, blur' = blur,
         pc[o] \notin {"q_hook", "idle"}, to \notin {"d_audit"},
         to \in Requeueing => cur[o] \in index,
         to \in Deleting => disk[cur[o]] = "none",
         to = "d_reconcile" => ActiveRow(row[cur[o]]),
         pc[o] \in {"d_removal", "d_find", "d_reconcile"} =>
           \/ to \in {"d_removal", "d_find", "d_reconcile"}
           \/ ~ActiveRow(row[cur[o]]),
         \/ leased' = leased /\ (to \in Leased => pc[o] \in Leased)
         \/ /\ leased' = leased \ {cur[o]}
            /\ pc[o] \in Leased /\ to \notin Leased
  PROVE  HistoryInv'
<1>1. /\ o \in Procs /\ o \notin Ids /\ Pcs(o) = OperatorPcs
      /\ pc[o] \in OperatorPcs /\ pc[o] # "new" /\ to # "new"
  BY ActorFacts DEF HistoryInv, Actors, OperatorPcs, Requeueing, Deleting
<1>2. PICK id \in Ids : id = cur[o]
  BY <1>1, ActorFacts
<1>3. Moved(o, id, to)
  BY <1>1, <1>2 DEF Moved, HistoryInv, Shape
<1>4. Acted(o, id, to)
  BY <1>1, <1>2, <1>3 DEF Acted, Only, DataShape, HistoryInv, Shape
<1>5. /\ pc[o] \notin {"w_remove", "w_fail", "q_hook", "w_unlink", "w_half"}
      /\ to \notin Dropped \cup Leasing \cup {"w_remove", "w_fail"}
  BY <1>1 DEF OperatorPcs, Requeueing, Deleting, Dropped, Leasing
<1> QED
  BY <1>1, <1>2, <1>4, <1>5, QuietKeeps

\* A queue action that failed with its work half done, under the lease: what
\* the journal says of the message is not vouched for.
LEMMA SpoiledKeeps ==
  ASSUME HistoryInv, NEW o \in Operators, NEW to \in Wheres,
         pc[o] \in {"q_move", "d_unlink"}, up, up' = up,
         pc' = [pc EXCEPT ![o] = "idle"], cur' = [cur EXCEPT ![o] = NoId],
         row' = row, log' = log, blur' = blur \cup {cur[o]},
         leased' = leased \ {cur[o]}, index' = index \ {cur[o]},
         disk' = [disk EXCEPT ![cur[o]] = to],
         to = "none" \/ disk[cur[o]] = "failed"
  PROVE  HistoryInv'
<1>1. o \in Procs /\ o \notin Ids /\ Pcs(o) = OperatorPcs
  BY ActorFacts
<1>2. PICK id \in Ids : id = cur[o] /\ id # NoId
  BY <1>1, ActorFacts, HistoryAssumption
<1>3. Moved(o, id, "idle")
  BY <1>1, <1>2 DEF Moved, OperatorPcs
<1>4. /\ disk' \in [Ids -> Wheres] /\ disk'[id] = to /\ id \notin index'
      /\ \A n \in Ids \ {id} : disk'[n] = disk[n]
  BY <1>2 DEF HistoryInv, Shape
<1>5. Only(id) /\ DataShape'
  BY <1>2, <1>4 DEF Only, DataShape, HistoryInv, Shape
<1>6. Acted(o, id, "idle")
  BY <1>1, <1>2, <1>3, <1>5 DEF Acted, Leased, Leasing, Requeueing
<1>7. /\ cur'[o] = NoId
      /\ \A q \in Procs : q # o => pc'[q] = pc[q] /\ cur'[q] = cur[q]
  BY <1>1, <1>2, <1>3, MovedActors DEF HistoryInv
<1>8. Places(id) /\ OneLease(id)
  BY DEF HistoryInv, Local
<1>9. ~At(id, Leasing \cup Requeueing)'
  <2>1. ~At(id, Leasing \cup Requeueing)
    BY <1>1, <1>2, <1>8
    DEF At, OneLease, Alone, Leased, Leasing, Requeueing
  <2> QED
    BY <1>2, <1>7, <2>1 DEF At
<1>10. \A S : At(id, S)' => At(id, S)
  BY <1>2, <1>7 DEF At
<1>11. Alone(id, Dropped)'
  BY <1>2, <1>7, <1>8 DEF Places, Alone
<1>12. Places(id)'
  <2>1. CASE to = "none"
    BY <1>4, <1>9, <1>11, <2>1 DEF Places
  <2>2. CASE disk[id] = "failed"
    <3>1. /\ ~At(id, {"w_unlink", "w_half"})' /\ ~At(id, {"w_move"})'
          /\ ~At(id, Deleting)'
      BY <1>8, <1>10, <2>2 DEF Places
    <3> QED
      BY <1>4, <1>9, <1>11, <3>1 DEF Places
  <2> QED
    BY <1>2, <2>1, <2>2
<1>13. Reconciled(id)'
  BY <1>1, <1>2, <1>3, ReconciledStep
<1>14. QueueView(id)'
  BY <1>2 DEF QueueView
<1> QED
  BY <1>1, <1>6, <1>12, <1>13, <1>14, ActedKeeps

\* Moving a failed message back, under the lease.
LEMMA RequeueMoveKeeps ==
  ASSUME HistoryInv, NEW o \in Operators, RequeueMove(o)
  PROVE  HistoryInv'
<1>1. /\ o \in Procs /\ o \notin Ids /\ Pcs(o) = OperatorPcs
      /\ pc[o] = "q_move" /\ up /\ up' = up
      /\ row' = row /\ log' = log
  BY ActorFacts DEF RequeueMove, Step, End, tables
<1>2. PICK id \in Ids : id = cur[o] /\ id # NoId
  BY <1>1, ActorFacts, HistoryAssumption
<1>3. cur = [cur EXCEPT ![o] = cur[o]]
  BY <1>1 DEF HistoryInv, Shape
<1>4. CASE Step(o, "q_move", "q_hook") /\ id \in index
             /\ UNCHANGED <<spool, faults, blur>>
  <2>1. /\ pc' = [pc EXCEPT ![o] = "q_hook"] /\ cur' = cur
        /\ disk' = disk /\ index' = index /\ leased' = leased
        /\ cur[o] \in index /\ blur' = blur
    BY <1>2, <1>4 DEF Step, spool
  <2> QED
    BY <1>1, <2>1, OperatorQuiet
    DEF OperatorPcs, Requeueing, Deleting, Leased
<1>5. CASE /\ End(o, "q_move") /\ RequeueError(id)
           /\ leased' = leased \ {id} /\ UNCHANGED index
  <2>1. CASE UNCHANGED <<disk, blur>>
    BY <1>1, <1>2, <1>5, <2>1, OperatorQuiet
    DEF End, OperatorPcs, Requeueing, Deleting, Leased, Leasing
  <2>2. CASE /\ id \notin index /\ disk[id] = "failed"
             /\ \E to \in {"queue", "half"} : disk' = [disk EXCEPT ![id] = to]
             /\ blur' = blur \cup {id}
    <3>1. PICK to \in {"queue", "half"} : disk' = [disk EXCEPT ![id] = to]
      BY <2>2
    <3>2. to \in Wheres /\ index' = index \ {id}
      BY <1>5, <2>2 DEF Wheres
    <3> QED
      BY <1>1, <1>2, <1>5, <2>2, <3>1, <3>2, SpoiledKeeps DEF End
  <2> QED
    BY <1>5, <2>1, <2>2 DEF RequeueError
<1>6. CASE /\ Step(o, "q_move", "q_hook")
           /\ id \notin index /\ disk[id] = "failed"
           /\ disk' = [disk EXCEPT ![id] = "queue"]
           /\ index' = index \cup {id} /\ leased' = leased
           /\ blur' = blur
  <2>1. Moved(o, id, "q_hook")
    BY <1>1, <1>2, <1>3, <1>6 DEF Step, Moved, OperatorPcs, Requeueing
  <2>2. /\ disk' \in [Ids -> Wheres]
        /\ disk'[id] = "queue" /\ id \in index'
        /\ \A n \in Ids \ {id} : disk'[n] = disk[n]
    BY <1>2, <1>6 DEF HistoryInv, Shape, Wheres
  <2>3. Only(id) /\ DataShape'
    BY <1>1, <1>6, <2>2 DEF Only, DataShape, HistoryInv, Shape
  <2>4. Acted(o, id, "q_hook")
    BY <1>1, <1>2, <1>6, <2>1, <2>3 DEF Acted, Leased, Requeueing
  <2>5. /\ pc'[o] = "q_hook" /\ cur'[o] = id
        /\ \A q \in Procs : q # o => pc'[q] = pc[q] /\ cur'[q] = cur[q]
    BY <1>1, <1>2, <2>1, MovedActors DEF HistoryInv
  <2>6. Places(id) /\ OneLease(id) /\ Unborn(id)
    BY DEF HistoryInv, Local
  <2>7. ~At(id, Dropped) /\ ~At(id, Deleting)
    BY <1>6, <2>6 DEF Places, At, Dropped
  <2>8. ~At(id, Dropped)' /\ ~At(id, Deleting)'
    BY <2>5, <2>7 DEF At, Dropped, Deleting
  <2>9. Places(id)'
    BY <2>2, <2>8 DEF Places, At, Alone, Dropped
  <2>10. Reconciled(id)'
    BY <1>1, <1>2, <2>1, ReconciledStep
  <2>11. pc'[id] = pc[id] /\ pc[id] = "idle"
    <3>1. At(id, OperatorPcs)
      BY <1>1, <1>2 DEF At, OperatorPcs
    <3> QED
      BY <1>1, <1>2, <2>4, <2>6, <3>1, UnbornStep DEF Acted, Unborn
  <2>12. At(id, {"w_remove", "w_fail", "q_hook"})'
    BY <1>1, <2>5 DEF At
  <2>13. ~At(id, {"w_remove", "w_fail", "d_audit"})'
    <3>1. At(id, Leased) /\ ~At(id, {"w_remove", "w_fail"})
      BY <1>1, <1>2, <2>6
      DEF At, OneLease, Alone, Leased, Leasing
    <3> QED
      BY <2>5, <2>8, <3>1 DEF At, Deleting
  <2>14. QueueView(id)'
    BY <1>1, <2>2, <2>11, <2>12, <2>13 DEF QueueView, Early, Truth
  <2> QED
    BY <1>1, <2>4, <2>9, <2>10, <2>14, ActedKeeps
<1> QED
  BY <1>2, <1>4, <1>5, <1>6 DEF RequeueMove

\* Discard: the files go under the lease, or there were none, or it failed,
\* before or after they went.
LEMMA DeleteDiscardKeeps ==
  ASSUME HistoryInv, NEW o \in Operators, DeleteDiscard(o)
  PROVE  HistoryInv'
<1>1. /\ o \in Procs /\ o \notin Ids /\ Pcs(o) = OperatorPcs
      /\ pc[o] = "d_unlink" /\ up /\ up' = up
      /\ row' = row /\ log' = log
  BY ActorFacts DEF DeleteDiscard, Step, End, tables
<1>2. PICK id \in Ids : id = cur[o] /\ id # NoId
  BY <1>1, ActorFacts, HistoryAssumption
<1>3. cur = [cur EXCEPT ![o] = cur[o]]
  BY <1>1 DEF HistoryInv, Shape
<1>4. Places(id) /\ OneLease(id) /\ Unborn(id) /\ QueueView(id)
  BY DEF HistoryInv, Local
<1>5. CASE /\ Step(o, "d_unlink", "d_find") /\ disk[id] = "none"
           /\ index' = index \ {id} /\ disk' = disk
           /\ leased' = leased \ {id} /\ blur' = blur
  <2>1. index' = index
    BY <1>4, <1>5 DEF Places
  <2>2. /\ pc' = [pc EXCEPT ![o] = "d_find"] /\ cur' = cur
        /\ disk' = disk /\ leased' = leased \ {cur[o]}
        /\ disk[cur[o]] = "none" /\ blur' = blur
    BY <1>2, <1>5 DEF Step
  <2>3. /\ "d_find" \in OperatorPcs \ Leased /\ "d_unlink" \in Leased
        /\ "d_find" \notin Requeueing
    BY DEF OperatorPcs, Requeueing, Deleting, Leased, Leasing
  <2> QED
    BY <1>1, <2>1, <2>2, <2>3, OperatorQuiet
<1>6. CASE /\ End(o, "d_unlink") /\ leased' = leased \ {id}
           /\ disk' = [disk EXCEPT ![id] = "none"]
           /\ index' = index \ {id} /\ blur' = blur \cup {id}
  <2>1. "none" \in Wheres
    BY DEF Wheres
  <2> QED
    BY <1>1, <1>2, <1>6, <2>1, SpoiledKeeps DEF End
<1>7. CASE /\ End(o, "d_unlink") /\ leased' = leased \ {id}
           /\ UNCHANGED <<disk, index, blur>>
  BY <1>1, <1>2, <1>7, OperatorQuiet
  DEF End, OperatorPcs, Requeueing, Deleting, Leased, Leasing
<1>8. CASE /\ Step(o, "d_unlink", "d_removal")
           /\ disk' = [disk EXCEPT ![id] = "none"]
           /\ index' = index \ {id} /\ leased' = leased \ {id}
           /\ blur' = blur
  <2>1. Moved(o, id, "d_removal")
    BY <1>1, <1>2, <1>3, <1>8 DEF Step, Moved, OperatorPcs, Deleting
  <2>2. /\ disk' \in [Ids -> Wheres]
        /\ disk'[id] = "none" /\ id \notin index'
        /\ \A n \in Ids \ {id} : disk'[n] = disk[n]
    BY <1>2, <1>8 DEF HistoryInv, Shape, Wheres
  <2>3. Only(id) /\ DataShape'
    BY <1>1, <1>8, <2>2 DEF Only, DataShape, HistoryInv, Shape
  <2>4. Acted(o, id, "d_removal")
    BY <1>1, <1>2, <1>8, <2>1, <2>3
    DEF Acted, Leased, Leasing, Requeueing
  <2>5. /\ pc'[o] = "d_removal" /\ cur'[o] = id
        /\ \A q \in Procs : q # o => pc'[q] = pc[q] /\ cur'[q] = cur[q]
    BY <1>1, <1>2, <2>1, MovedActors DEF HistoryInv
  <2>6. ~At(id, Leasing \cup Requeueing)
    BY <1>1, <1>2, <1>4
    DEF At, OneLease, Alone, Leased, Leasing, Requeueing
  <2>7. ~At(id, Leasing \cup Requeueing)'
    BY <2>5, <2>6 DEF At, Leasing, Requeueing
  <2>8. Alone(id, Dropped)'
    BY <1>4, <2>5 DEF Places, Alone, Dropped
  <2>9. Places(id)'
    BY <2>2, <2>7, <2>8 DEF Places
  <2>10. Reconciled(id)'
    BY <1>1, <1>2, <2>1, ReconciledStep
  <2>11. pc'[id] = pc[id] /\ pc[id] = "idle"
    <3>1. At(id, OperatorPcs)
      BY <1>1, <1>2 DEF At, OperatorPcs
    <3> QED
      BY <1>1, <1>2, <1>4, <2>4, <3>1, UnbornStep DEF Acted, Unborn
  <2>12. At(id, {"d_removal", "d_find", "d_reconcile"})'
    BY <1>1, <2>5 DEF At
  <2>13. At(id, {"w_remove", "w_fail", "d_audit"})' =>
           At(id, {"w_remove", "w_fail", "d_audit"})
    BY <2>5 DEF At
  <2>14. QueueView(id)'
    BY <1>1, <1>4, <1>8, <2>2, <2>11, <2>12, <2>13 DEF QueueView, Early, Truth
  <2> QED
    BY <1>1, <2>4, <2>9, <2>10, <2>14, ActedKeeps
<1> QED
  BY <1>2, <1>5, <1>6, <1>7, <1>8 DEF DeleteDiscard

\* The operator's steps that neither move files nor write a row.
LEMMA OperatorActionsKeep ==
  ASSUME HistoryInv, NEW o \in Operators,
         RequeueFree(o) \/ RequeueDone(o) \/ DeleteFind(o) \/ DeleteDone(o)
  PROVE  HistoryInv'
<1>1. CASE RequeueFree(o)
  <2>1. /\ pc[o] = "q_free" /\ pc' = [pc EXCEPT ![o] = "q_audit"]
        /\ cur' = cur /\ up /\ up' = up /\ leased' = leased \ {cur[o]}
        /\ UNCHANGED <<disk, index, row, log, blur>>
    BY <1>1 DEF RequeueFree, Step, tables
  <2>2. /\ "q_audit" \in OperatorPcs \ Leased /\ "q_free" \in Leased
        /\ "q_audit" \notin Requeueing \cup Deleting
    BY DEF OperatorPcs, Requeueing, Deleting, Leased, Leasing
  <2> QED
    BY <2>1, <2>2, OperatorQuiet
<1>2. CASE RequeueDone(o) \/ DeleteDone(o)
  BY <1>2, OperatorQuiet
  DEF RequeueDone, DeleteDone, End, spool, OperatorPcs, Requeueing, Deleting,
      Leased, Leasing
<1>3. CASE DeleteFind(o)
  <2>1. pc[o] = "d_find" /\ disk[cur[o]] = "none"
    BY <1>3, ActorFacts DEF DeleteFind, Step, End, Deleting
  <2>2. UNCHANGED <<disk, index, leased, row, log, blur>>
    BY <1>3 DEF DeleteFind, spool, tables
  <2>3. CASE Step(o, "d_find", "d_reconcile") /\ ActiveRow(row[cur[o]])
    BY <2>1, <2>2, <2>3, OperatorQuiet
    DEF Step, OperatorPcs, Requeueing, Deleting, Leased, Leasing
  <2>4. CASE End(o, "d_find") /\ ~ActiveRow(row[cur[o]])
    BY <2>1, <2>2, <2>4, OperatorQuiet
    DEF End, OperatorPcs, Requeueing, Deleting, Leased, Leasing
  <2> QED
    BY <1>3, <2>3, <2>4 DEF DeleteFind, FindMessageByID
<1> QED
  BY <1>1, <1>2, <1>3

-----------------------------------------------------------------------------
(* The listener, the sweeps, crash and recovery keep it too.               *)

\* Commit: the message is in the queue and the index at once.
LEMMA CommitKeeps ==
  ASSUME HistoryInv, NEW id \in Ids, Commit(id)
  PROVE  HistoryInv'
<1>1. /\ id \in Procs /\ id # NoId /\ pc[id] = "new" /\ cur[id] = NoId
      /\ up /\ up' = up /\ row' = row /\ log' = log /\ blur' = blur
      /\ leased' = leased /\ index' = index \cup {id}
  BY HistoryAssumption DEF Commit, tables, Procs, HistoryInv, Actors
<1>2. Moved(id, id, "a_journal")
  BY <1>1 DEF Commit, Moved, Pcs, SessionPcs
<1>3. /\ disk' \in [Ids -> Wheres]
      /\ disk'[id] = "queue" /\ id \in index'
      /\ \A n \in Ids \ {id} : disk'[n] = disk[n]
  BY DEF Commit, HistoryInv, Shape, Wheres
<1>4. Only(id) /\ DataShape'
  BY <1>1, <1>3 DEF Only, DataShape, HistoryInv, Shape
<1>5. /\ pc'[id] = "a_journal" /\ cur'[id] = id
      /\ \A q \in Procs : q # id => pc'[q] = pc[q] /\ cur'[q] = cur[q]
  BY <1>1, <1>2, MovedActors DEF HistoryInv
<1>6. \A q \in Procs : cur[q] # id
  <2>1. Unborn(id) /\ \A q \in Procs : pc[q] \in Pcs(q)
    BY DEF HistoryInv, Local, Actors
  <2>2. \A q \in Ids : cur[q] \in {q, NoId}
    BY DEF HistoryInv, Actors
  <2> QED
    BY <1>1, <2>1, <2>2 DEF Unborn, At, Pcs, Procs
<1>7. \A q \in Procs : cur'[q] = id => q = id /\ pc'[q] = "a_journal"
  BY <1>5, <1>6
<1>8. \A S : At(id, S)' => "a_journal" \in S
  BY <1>7 DEF At
<1>9. ("a_journal" \notin WorkerPcs /\ "a_journal" \notin OperatorPcs)
      /\ ("a_journal" \notin Leased /\ "a_journal" \notin Dropped)
      /\ ("a_journal" \notin Deleting /\ "a_journal" \notin Leasing)
      /\ "a_journal" \notin Requeueing
  BY DEF WorkerPcs, OperatorPcs, Leased, Dropped, Deleting, Leasing,
     Requeueing
<1>10. row[id] = NoRow
  BY <1>1 DEF HistoryInv, Local, Unborn
<1>11. Unborn(id)' /\ OneLease(id)' /\ Places(id)' /\ Reconciled(id)'
  BY <1>1, <1>3, <1>5, <1>7, <1>8, <1>9, <1>10
  DEF Unborn, OneLease, Places, Reconciled, Alone
<1>12. QueueView(id)'
  BY <1>1, <1>3, <1>8, <1>10 DEF QueueView, Early
<1>13. Local(id)'
  BY <1>11, <1>12 DEF Local
<1> QED
  BY <1>1, <1>2, <1>4, <1>13, MovedKeeps

\* journalAccepted: a fresh row, however far the first attempt has got.
LEMMA AcceptedKeeps ==
  ASSUME HistoryInv, NEW id \in Ids, JournalAccepted(id)
  PROVE  HistoryInv'
<1>1. /\ id \in Procs /\ id # NoId /\ pc[id] = "a_journal"
      /\ up /\ up' = up /\ log' = log /\ blur' = blur
      /\ disk' = disk /\ leased' = leased /\ index' = index
  BY HistoryAssumption DEF JournalAccepted, End, spool, Procs
<1>2. cur[id] = id
  BY <1>1 DEF HistoryInv, Actors
<1>3. Moved(id, id, "idle")
  BY <1>1, <1>2 DEF JournalAccepted, End, Moved, Pcs, SessionPcs
<1>4. /\ row' \in [Ids -> Rows \cup {NoRow}]
      /\ row'[id] = NoRow \/ (row'[id] # NoRow /\ ActiveRow(row'[id]))
      /\ \A n \in Ids \ {id} : row'[n] = row[n]
  <2>1. row \in [Ids -> Rows \cup {NoRow}] /\ row[id] = NoRow
    BY <1>1 DEF HistoryInv, Shape, Local, Unborn
  <2>2. NewRow \in Rows /\ NewRow # NoRow /\ ActiveRow(NewRow)
    BY RowFacts
  <2>3. row' = [row EXCEPT ![id] = NewRow] \/ row' = row
    BY DEF JournalAccepted, RecordMessage
  <2> QED
    BY <2>1, <2>2, <2>3
<1>5. Only(id) /\ DataShape'
  BY <1>1, <1>4 DEF Only, DataShape, HistoryInv, Shape
<1>6. /\ pc'[id] = "idle" /\ cur'[id] = NoId
      /\ \A q \in Procs : q # id => pc'[q] = pc[q] /\ cur'[q] = cur[q]
  BY <1>1, <1>3, MovedActors DEF HistoryInv
<1>7. \A S : At(id, S)' => At(id, S)
  BY <1>1, <1>6 DEF At
<1>8. \A S : Alone(id, S) => Alone(id, S)'
  BY <1>1, <1>6 DEF Alone
<1>9. /\ Unborn(id) /\ OneLease(id) /\ Places(id) /\ Reconciled(id)
      /\ QueueView(id)
  BY DEF HistoryInv, Local
<1>10. ~At(id, OperatorPcs)
  BY <1>1, <1>9 DEF Unborn
<1>11. ~At(id, {"d_audit"})' /\ ~At(id, {"d_reconcile"})'
  BY <1>7, <1>10 DEF At, OperatorPcs, Deleting
<1>12. Unborn(id)' /\ OneLease(id)' /\ Places(id)' /\ Reconciled(id)'
  BY <1>1, <1>6, <1>7, <1>8, <1>9, <1>11
  DEF Unborn, OneLease, Places, Reconciled
<1>13. QueueView(id)'
  <2> SUFFICES ASSUME id \notin blur, row'[id] # NoRow PROVE Truth(id)'
    BY <1>1, <1>6 DEF QueueView, Early
  <2>1. id \in index /\ ~At(id, {"w_remove", "w_fail"})
    BY <1>1, <1>9 DEF QueueView, Early
  <2>2. ~At(id, {"w_remove", "w_fail", "d_audit"})'
    BY <1>7, <1>11, <2>1 DEF At
  <2> QED
    BY <1>1, <1>4, <2>1, <2>2 DEF Truth
<1>14. Local(id)'
  BY <1>12, <1>13 DEF Local
<1> QED
  BY <1>1, <1>3, <1>5, <1>14, MovedKeeps

\* What leaves the actors alone, and the process up, leaves their claims.
LEMMA StillActors ==
  ASSUME pc' = pc, cur' = cur
  PROVE  /\ \A n, S : At(n, S)' <=> At(n, S)
         /\ \A n, S : Alone(n, S)' <=> Alone(n, S)
         /\ Actors' <=> Actors
BY DEF At, Alone, Actors

\* SweepFailed: a failed message's files go; no row, no lease.
LEMMA SweepKeeps ==
  ASSUME HistoryInv, NEW id \in Ids, SweepFailed(id)
  PROVE  HistoryInv'
<1>1. /\ up /\ disk[id] \in {"failed", "stub", "half"}
      /\ \A w \in Workers : ~(cur[w] = id /\ pc[w] = "w_move")
      /\ UNCHANGED <<index, leased, row, log, up, pc, cur, blur>>
  BY DEF SweepFailed, tables
<1>2. /\ disk' \in [Ids -> Wheres]
      /\ disk'[id] \in {"none", "stray"}
      /\ \A n \in Ids \ {id} : disk'[n] = disk[n]
  BY DEF SweepFailed, HistoryInv, Shape, Wheres
<1>3. Shape' /\ Actors' /\ Stopped'
  BY <1>1, <1>2, StillActors DEF HistoryInv, Shape, Stopped
<1>4. ASSUME NEW n \in Ids PROVE Local(n)'
  <2>1. /\ Unborn(n) /\ OneLease(n) /\ Places(n) /\ Reconciled(n)
        /\ QueueView(n)
    BY DEF HistoryInv, Local
  <2>2. \/ disk'[n] = disk[n]
        \/ /\ disk'[n] \in {"none", "stray"} /\ n \notin index
           /\ disk[n] \notin {"none", "queue"}
           /\ ~At(n, {"w_unlink", "w_half"}) /\ ~At(n, {"w_move"})
           /\ ~At(n, Deleting)
    <3>1. CASE n = id
      <4>1. /\ n \notin index /\ ~At(n, {"w_unlink", "w_half"})
            /\ ~At(n, Deleting)
        BY <1>1, <2>1, <3>1 DEF Places
      <4>2. ASSUME NEW p \in Procs, cur[p] = n, pc[p] = "w_move" PROVE FALSE
        <5>1. pc[p] \in Pcs(p)
          BY DEF HistoryInv, Actors
        <5>2. p \in Workers
          BY <4>2, <5>1
          DEF Pcs, SessionPcs, OperatorPcs, Requeueing, Deleting
        <5> QED
          BY <1>1, <3>1, <4>2, <5>2
      <4>3. ~At(n, {"w_move"})
        BY <4>2 DEF At
      <4> QED
        BY <1>1, <1>2, <3>1, <4>1, <4>3
    <3>2. CASE n # id
      BY <1>2, <3>2
    <3> QED
      BY <3>1, <3>2
  <2>3. Unborn(n)' /\ OneLease(n)' /\ Places(n)' /\ Reconciled(n)'
    BY <1>1, <2>1, <2>2, StillActors
    DEF Unborn, OneLease, Places, Reconciled
  <2>4. Truth(n) => Truth(n)'
    BY <1>1, <2>2, StillActors DEF Truth
  <2>5. Early(n) => Early(n)'
    BY <1>1, StillActors DEF Early
  <2> QED
    BY <1>1, <2>1, <2>3, <2>4, <2>5 DEF Local, QueueView
<1> QED
  BY <1>3, <1>4 DEF HistoryInv

\* retentionCleanup: rows go with their attempts, whatever is under way.
LEMMA RetentionKeeps ==
  ASSUME HistoryInv, RetentionCleanup
  PROVE  HistoryInv'
<1>1. UNCHANGED <<disk, index, leased, up, pc, cur, blur>>
  BY DEF RetentionCleanup, spool
<1>2. /\ row' \in [Ids -> Rows \cup {NoRow}] /\ log' \in [Ids -> Seq(Classes)]
      /\ \A n \in Ids : row'[n] = row[n] \/ row'[n] = NoRow
  <2>1. PICK old \in SUBSET {id \in Ids : row[id] # NoRow} :
          /\ row' = [id \in Ids |-> IF id \in old THEN NoRow ELSE row[id]]
          /\ log' = [id \in Ids |-> IF id \in old THEN <<>> ELSE log[id]]
    BY DEF RetentionCleanup
  <2>2. <<>> \in Seq(Classes)
    OBVIOUS
  <2> QED
    BY <2>1, <2>2 DEF HistoryInv, Shape
<1>3. Shape' /\ Actors' /\ Stopped'
  BY <1>1, <1>2, StillActors DEF HistoryInv, Shape, Stopped
<1>4. ASSUME NEW n \in Ids PROVE Local(n)'
  <2>1. /\ Unborn(n) /\ OneLease(n) /\ Places(n) /\ Reconciled(n)
        /\ QueueView(n)
    BY DEF HistoryInv, Local
  <2>2. Unborn(n)' /\ OneLease(n)' /\ Places(n)' /\ Reconciled(n)'
    BY <1>1, <1>2, <2>1, StillActors
    DEF Unborn, OneLease, Places, Reconciled
  <2>3. Truth(n) /\ row'[n] = row[n] => Truth(n)'
    BY <1>1, StillActors DEF Truth
  <2>4. Early(n) => Early(n)'
    BY <1>1, StillActors DEF Early
  <2> QED
    BY <1>1, <1>2, <2>1, <2>2, <2>3, <2>4 DEF Local, QueueView
<1> QED
  BY <1>3, <1>4 DEF HistoryInv

\* A crash: memory is gone, and what was being worked on is no longer clear.
LEMMA CrashKeeps ==
  ASSUME HistoryInv, Crash
  PROVE  HistoryInv'
<1>1. /\ up /\ ~up' /\ index' = {} /\ leased' = {}
      /\ disk' = disk /\ row' = row /\ log' = log
      /\ pc' = [p \in Procs |-> IF p \in Ids /\ pc[p] = "new" THEN "new"
                                                              ELSE "idle"]
      /\ cur' = [p \in Procs |-> NoId]
      /\ \A n \in Ids : n \in blur' <=> n \in blur \/ Busy(n) # {}
  BY DEF Crash, tables
<1>2. /\ pc' \in [Procs -> SessionPcs \cup WorkerPcs \cup OperatorPcs]
      /\ cur' \in [Procs -> Ids \cup {NoId}]
      /\ \A p \in Procs : cur'[p] = NoId
  BY <1>1 DEF SessionPcs
<1>3. Shape'
  BY <1>1, <1>2 DEF HistoryInv, Shape, Crash
<1>4. Actors'
  <2>1. \A p \in Procs : pc'[p] \in {"new", "idle"} /\ pc'[p] \in Pcs(p)
    BY <1>1 DEF Pcs, SessionPcs, WorkerPcs, OperatorPcs
  <2> QED
    BY <1>2, <2>1 DEF Actors, Procs
<1>5. Stopped'
  BY <1>1, <1>2 DEF Stopped
<1>6. ASSUME NEW n \in Ids PROVE Local(n)'
  <2>1. n \in Procs /\ n # NoId
    BY HistoryAssumption DEF Procs
  <2>2. \A S : ~At(n, S)' /\ Alone(n, S)'
    BY <1>2, <2>1 DEF At, Alone
  <2>3. pc'[n] = IF pc[n] = "new" THEN "new" ELSE "idle"
    BY <1>1, <2>1
  <2>4. /\ Unborn(n) /\ Places(n) /\ QueueView(n)
    BY DEF HistoryInv, Local
  <2>5. Unborn(n)' /\ OneLease(n)' /\ Places(n)' /\ Reconciled(n)'
    BY <1>1, <2>2, <2>3, <2>4 DEF Unborn, OneLease, Places, Reconciled
  <2>6. QueueView(n)'
    <3> SUFFICES ASSUME n \notin blur', row[n] # NoRow PROVE Truth(n)'
      BY <1>1, <2>3 DEF QueueView, Early
    <3>1. n \notin blur /\ \A S : ~At(n, S)
      BY <1>1 DEF Busy, At
    <3>2. ActiveRow(row[n]) <=> disk[n] = "queue"
      BY <1>1, <2>4, <3>1 DEF QueueView, Truth, Places
    <3> QED
      BY <1>1, <2>2, <3>2 DEF Truth
  <2> QED
    BY <2>5, <2>6 DEF Local
<1> QED
  BY <1>3, <1>4, <1>5, <1>6 DEF HistoryInv

\* recover: the index is what the queue directory holds.
LEMMA RecoverKeeps ==
  ASSUME HistoryInv, Recover
  PROVE  HistoryInv'
<1>1. /\ ~up /\ up' = TRUE /\ leased' = leased /\ row' = row /\ log' = log
      /\ pc' = pc /\ cur' = cur /\ blur' = blur
      /\ index' = {id \in Ids : disk[id] = "queue"}
      /\ disk' = [id \in Ids |-> CASE disk[id] = "half" -> "stub"
                                    [] disk[id] = "stray" -> "none"
                                    [] OTHER -> disk[id]]
  BY DEF Recover, tables
<1>2. /\ disk' \in [Ids -> Wheres]
      /\ \A n \in Ids : /\ disk'[n] = "queue" <=> disk[n] = "queue"
                        /\ disk[n] = "none" => disk'[n] = "none"
                        /\ n \in index' <=> disk'[n] = "queue"
  BY <1>1 DEF HistoryInv, Shape, Wheres
<1>3. Shape' /\ Actors' /\ Stopped'
  BY <1>1, <1>2, StillActors DEF HistoryInv, Shape, Stopped
<1>4. ASSUME NEW n \in Ids PROVE Local(n)'
  <2>1. /\ Unborn(n) /\ OneLease(n) /\ Places(n) /\ Reconciled(n)
        /\ QueueView(n)
    BY DEF HistoryInv, Local
  <2>2. \A S : ~At(n, S)
    BY <1>1, HistoryAssumption DEF HistoryInv, Stopped, At
  <2>3. \A S : ~At(n, S)'
    BY <1>1, <2>2, StillActors
  <2>4. Unborn(n)' /\ OneLease(n)' /\ Places(n)' /\ Reconciled(n)'
    BY <1>1, <1>2, <2>1, <2>3, StillActors
    DEF Unborn, OneLease, Places, Reconciled
  <2>5. Truth(n) => Truth(n)'
    BY <1>1, <1>2, <2>3 DEF Truth
  <2>6. Early(n) => Early(n)'
    BY <1>1, <1>2, <2>3 DEF Early, HistoryInv, Stopped
  <2> QED
    BY <1>1, <2>1, <2>4, <2>5, <2>6 DEF Local, QueueView
<1> QED
  BY <1>3, <1>4 DEF HistoryInv

-----------------------------------------------------------------------------
(* The theorems about the queue view.                                      *)

\* One step of a worker.
LEMMA WorkerKeeps ==
  ASSUME HistoryInv, NEW w \in Workers, WorkerNext(w)
  PROVE  HistoryInv'
BY ClaimKeeps, AttemptKeeps, JournalActionsKeep, DropKeeps, FileActionsKeep
DEF WorkerNext

\* And one of an operator.
LEMMA OperatorKeeps ==
  ASSUME HistoryInv, NEW o \in Operators, OperatorNext(o)
  PROVE  HistoryInv'
BY TryLeaseKeeps, RequeueMoveKeeps, JournalActionsKeep, OperatorActionsKeep,
   DeleteDiscardKeeps
DEF OperatorNext, Requeue, Delete

\* The inductive invariant of the history store and those who write to it.
THEOREM HistoryAlways == Spec => []HistoryInv
<1>1. Init => HistoryInv
  <2> SUFFICES ASSUME Init PROVE HistoryInv
    OBVIOUS
  <2>1. <<>> \in Seq(Classes)
    OBVIOUS
  <2>2. /\ pc \in [Procs -> {"new", "idle"}]
        /\ \A p \in Procs : pc[p] = IF p \in Ids THEN "new" ELSE "idle"
        /\ cur = [p \in Procs |-> NoId]
        /\ index = {} /\ leased = {} /\ up = TRUE
        /\ disk = [id \in Ids |-> "none"] /\ row = [id \in Ids |-> NoRow]
        /\ log = [id \in Ids |-> <<>>]
    BY DEF Init
  <2>3. Shape
    BY <2>1, <2>2 DEF Shape, SessionPcs, Wheres
  <2>4. Actors /\ Stopped
    BY <2>2
    DEF Actors, Stopped, Pcs, SessionPcs, WorkerPcs, OperatorPcs, Procs
  <2>5. ASSUME NEW id \in Ids PROVE Local(id)
    <3>1. id \in Procs /\ id # NoId
      BY HistoryAssumption DEF Procs
    <3>2. \A S : ~At(id, S) /\ Alone(id, S)
      BY <2>2, <3>1 DEF At, Alone
    <3>3. pc[id] = "new" /\ row[id] = NoRow /\ disk[id] = "none"
      BY <2>2, <3>1
    <3> QED
      BY <2>2, <3>2, <3>3
      DEF Local, Unborn, OneLease, Places, Reconciled, QueueView, Early
  <2> QED
    BY <2>3, <2>4, <2>5 DEF HistoryInv
<1>2. HistoryInv /\ [Next]_vars => HistoryInv'
  <2> SUFFICES ASSUME HistoryInv, [Next]_vars PROVE HistoryInv'
    OBVIOUS
  <2>1. CASE UNCHANGED vars
    BY <2>1, StillActors
    DEF vars, HistoryInv, Shape, Stopped, Local, Unborn, OneLease, Places,
        Reconciled, QueueView, Early, Truth
  <2>2. CASE Next
    BY <2>2, CommitKeeps, AcceptedKeeps, SweepKeeps, WorkerKeeps,
       OperatorKeeps, RetentionKeeps, CrashKeeps, RecoverKeeps DEF Next
  <2> QED
    BY <2>1, <2>2
<1> QED
  BY <1>1, <1>2, PTL DEF Spec

\* The queue view tells the truth: a message nobody works on, whose last
\* write was neither refused nor cut off by a crash, is shown as queued or
\* deferred if and only if the live queue holds it.
THEOREM QueueViewTrue == Spec => []ActiveIsLive
<1>1. HistoryInv => ActiveIsLive
  <2> SUFFICES ASSUME HistoryInv, NEW id \in Ids, AtRest(id),
                      row[id] # NoRow
               PROVE  Active(row[id]) <=> id \in index
    BY DEF ActiveIsLive
  <2>1. Truth(id) /\ up
    BY DEF HistoryInv, Local, QueueView, AtRest
  <2>2. \A S : ~At(id, S)
    BY DEF AtRest, Busy, At
  <2> QED
    BY <2>1, <2>2 DEF Truth, ActiveRow
<1> QED
  BY <1>1, HistoryAlways, PTL

\* An operator's place changes by its own steps, or because of a crash.
LEMMA OwnSteps ==
  ASSUME HistoryInv, Next, NEW o \in Operators, pc'[o] # pc[o]
  PROVE  OperatorNext(o) \/ ~up'
<1> USE HistoryAssumption
<1>1. /\ o \in Procs
      /\ pc \in [Procs -> SessionPcs \cup WorkerPcs \cup OperatorPcs]
  BY DEF Procs, HistoryInv, Shape
<1>2. ASSUME NEW p \in Procs, p # o, NEW to, pc' = [pc EXCEPT ![p] = to]
      PROVE  FALSE
  BY <1>1, <1>2
<1>3. ASSUME NEW id \in Ids,
             Commit(id) \/ JournalAccepted(id) \/ SweepFailed(id)
      PROVE  FALSE
  BY <1>2, <1>3 DEF Commit, JournalAccepted, SweepFailed, End, Procs
<1>4. ASSUME NEW w \in Workers, WorkerNext(w) PROVE FALSE
  <2>1. w \in Procs /\ w # o
    BY DEF Procs
  <2>2. \E to : pc' = [pc EXCEPT ![w] = to]
    BY <1>4
    DEF WorkerNext, Claim, Attempt, Hold, JournalDelivered, JournalTemporary,
        JournalFailed, Release, Drop, RemoveUnlink, FailHalf, FailMove,
        Begin, Step, End
  <2> QED
    BY <1>2, <2>1, <2>2
<1>5. ASSUME NEW q \in Operators, OperatorNext(q), q # o PROVE FALSE
  <2>1. q \in Procs
    BY DEF Procs
  <2>2. \E to : pc' = [pc EXCEPT ![q] = to]
    BY <1>5
    DEF OperatorNext, Requeue, Delete, TryLease, RequeueMove, RequeueHook,
        RequeueFree, RequeueDone, DeleteDiscard, DeleteRemoval, DeleteFind,
        DeleteReconcile, DeleteDone, Begin, Step, End
  <2> QED
    BY <1>2, <1>5, <2>1, <2>2
<1>6. ~RetentionCleanup /\ ~Recover
  BY DEF RetentionCleanup, Recover
<1>7. Crash => ~up'
  BY DEF Crash
<1> QED
  BY <1>3, <1>4, <1>5, <1>6, <1>7 DEF Next

-----------------------------------------------------------------------------
(* What becomes of a message that the smarthost has taken.                 *)

\* Until its files are gone the worker that sent it is on it; it is out of
\* the index once that worker has given it up, nobody brings it back, and
\* its row says delivered, or removed, once it has been written.
Handed(id) ==
  id \in taken =>
    /\ pc[id] # "new" /\ disk[id] \in {"queue", "none"}
    /\ id \notin index \/ At(id, {"w_delivered", "w_remove"})
    /\ ~At(id, {"w_half", "w_move"})
    /\ \/ id \in blur
       \/ At(id, {"w_delivered"})
       \/ row[id] = NoRow
       \/ row[id].class \in {"delivered", "removed"}
    /\ \/ id \in blur
       \/ disk[id] = "none"
       \/ At(id, {"w_delivered", "w_remove", "w_unlink"})

TakenInv ==
  /\ taken \subseteq Ids /\ (~up => taken = {})
  /\ \A id \in Ids : Handed(id)

\* Where somebody else may be on such a message.
LEMMA TakenPcs ==
  ASSUME HistoryInv, NEW n \in Ids, n \in taken, Handed(n),
         NEW p \in Procs, cur[p] = n
  PROVE  /\ pc[p] \notin Leasing \ {"w_delivered", "w_remove"}
         /\ pc[p] \notin Requeueing \cup {"w_half", "w_move"}
         /\ pc[p] \in {"q_move", "d_unlink"} => n \notin index
<1>1. Alone(n, Leased) /\ Places(n)
  BY DEF HistoryInv, Local, OneLease
<1>2. pc[p] \in Leased /\ n \in index => pc[p] \in {"w_delivered", "w_remove"}
  <2> SUFFICES ASSUME pc[p] \in Leased, n \in index
               PROVE  pc[p] \in {"w_delivered", "w_remove"}
    OBVIOUS
  <2>1. PICK q \in Procs : cur[q] = n /\ pc[q] \in {"w_delivered", "w_remove"}
    BY DEF Handed, At
  <2>2. pc[q] \in Leased
    BY <2>1 DEF Leased, Leasing
  <2> QED
    BY <1>1, <2>1, <2>2 DEF Alone
<1>3. pc[p] \in Leasing \cup Requeueing => n \in index
  BY <1>1 DEF Places, At
<1>4. pc[p] \notin {"w_half", "w_move"}
  BY DEF Handed, At
<1> QED
  BY <1>2, <1>3, <1>4 DEF Leased, Leasing, Requeueing

\* A step that moves only p on keeps this for n, if it neither brings n back
\* nor ends the work of the worker that has it.
LEMMA HandedKept ==
  ASSUME NEW n \in Ids, n \in taken, Handed(n), NEW p \in Procs,
         \A q \in Procs \ {p} : pc'[q] = pc[q] /\ cur'[q] = cur[q],
         pc'[n] # "new", disk'[n] \in {disk[n], "none"},
         n \in index' => n \in index,
         \/ n \in blur'
         \/ (n \in blur => n \in blur') /\ row'[n] \in {row[n], NoRow}
         \/ row'[n].class = "removed" /\ disk'[n] = "none",
         cur[p] = n => pc[p] \notin {"w_delivered", "w_remove", "w_unlink"},
         cur'[p] = n => pc'[p] \notin {"w_half", "w_move"}
  PROVE  Handed(n)'
<1>1. /\ At(n, {"w_delivered"}) => At(n, {"w_delivered"})'
      /\ At(n, {"w_delivered", "w_remove"}) =>
           At(n, {"w_delivered", "w_remove"})'
      /\ At(n, {"w_delivered", "w_remove", "w_unlink"}) =>
           At(n, {"w_delivered", "w_remove", "w_unlink"})'
      /\ At(n, {"w_half", "w_move"})' => At(n, {"w_half", "w_move"})
  BY DEF At
<1> QED
  BY <1>1 DEF Handed

\* What a worker's step does to itself and to the messages it is not on.
LEMMA WorkerFrame ==
  ASSUME HistoryInv, NEW w \in Workers, WorkerNext(w)
  PROVE  /\ up /\ up' /\ w \in Procs
         /\ \A q \in Procs \ {w} : pc'[q] = pc[q] /\ cur'[q] = cur[q]
         /\ \A n \in Ids : pc'[n] = pc[n]
         /\ \A n \in Ids \ {cur[w]} :
              /\ disk'[n] = disk[n] /\ row'[n] = row[n]
              /\ n \in index' <=> n \in index
              /\ n \in blur' <=> n \in blur
              /\ n \in taken' <=> n \in taken
              /\ cur'[w] = n => pc'[w] = "w_try"
<1>1. w \in Procs /\ w \notin Ids /\ Ids \subseteq Procs
  BY ActorFacts DEF Procs
<1>2. /\ pc \in [Procs -> SessionPcs \cup WorkerPcs \cup OperatorPcs]
      /\ cur \in [Procs -> Ids \cup {NoId}] /\ disk \in [Ids -> Wheres]
      /\ row \in [Ids -> Rows \cup {NoRow}] /\ NoId \notin Ids
  BY HistoryAssumption DEF HistoryInv, Shape
<1>3. CASE \E id \in Ids : Claim(w, id)
  BY <1>1, <1>2, <1>3 DEF Claim, Begin, tables
<1>4. CASE Hold(w) \/ Release(w)
  BY <1>1, <1>2, <1>4 DEF Hold, Release, End, tables
<1>5. CASE \E c \in {"delivered", "temporary", "permanent", "expired"} :
             Attempt(w, c)
  BY <1>1, <1>2, <1>5 DEF Attempt, tables, spool
<1>6. CASE JournalDelivered(w) \/ JournalTemporary(w) \/ JournalFailed(w)
  BY <1>1, <1>2, <1>6
  DEF JournalDelivered, JournalTemporary, JournalFailed, RecordAttempt,
      Write, Refused, Step, spool
<1>7. CASE Drop(w)
  BY <1>1, <1>2, <1>7 DEF Drop, Step, tables
<1>8. CASE RemoveUnlink(w)
  BY <1>1, <1>2, <1>8 DEF RemoveUnlink, End, tables
<1>9. CASE FailHalf(w) \/ FailMove(w)
  BY <1>1, <1>2, <1>9 DEF FailHalf, FailMove, Unmoved, Step, End, tables
<1> QED
  BY <1>3, <1>4, <1>5, <1>6, <1>7, <1>8, <1>9 DEF WorkerNext

\* A worker's step, on the message of n or of another.
LEMMA WorkerHanded ==
  ASSUME HistoryInv, TakenInv, NEW w \in Workers, WorkerNext(w),
         NEW n \in Ids
  PROVE  Handed(n)'
<1> SUFFICES ASSUME n \in taken' PROVE Handed(n)'
  BY DEF Handed
<1>1. /\ up /\ up' /\ w \in Procs
      /\ \A q \in Procs \ {w} : pc'[q] = pc[q] /\ cur'[q] = cur[q]
      /\ pc'[n] = pc[n]
  BY WorkerFrame
<1>2. Handed(n)
  BY DEF TakenInv
<1>3. n # NoId
  BY HistoryAssumption
<1>4. pc \in [Procs -> SessionPcs \cup WorkerPcs \cup OperatorPcs]
  BY DEF HistoryInv, Shape
<1>5. CASE n # cur[w]
  <2>1. /\ disk'[n] = disk[n] /\ row'[n] = row[n]
        /\ n \in index' <=> n \in index
        /\ n \in blur' <=> n \in blur
        /\ n \in taken /\ (cur'[w] = n => pc'[w] = "w_try")
    BY <1>5, WorkerFrame
  <2>2. pc'[n] # "new"
    BY <1>1, <1>2, <2>1 DEF Handed
  <2> QED
    BY <1>1, <1>2, <1>5, <2>1, <2>2, HandedKept
<1>6. CASE n = cur[w] /\ n \in taken
  <2>1. /\ pc[w] \notin Leasing \ {"w_delivered", "w_remove"}
        /\ pc[w] \notin Requeueing \cup {"w_half", "w_move"}
    BY <1>1, <1>2, <1>6, TakenPcs
  <2>2. JournalDelivered(w) \/ Drop(w) \/ RemoveUnlink(w)
    BY <1>3, <1>6, <2>1, ActorFacts
    DEF WorkerNext, Claim, Attempt, Hold, Release, JournalTemporary,
        JournalFailed, FailHalf, FailMove, Begin, Step, End, Leasing
  <2>3. /\ pc[n] # "new" /\ disk[n] \in {"queue", "none"}
        /\ ~At(n, {"w_half", "w_move"})
    BY <1>2, <1>6 DEF Handed
  <2>4. CASE JournalDelivered(w)
    <3>1. /\ pc[w] = "w_delivered" /\ pc'[w] = "w_remove" /\ cur' = cur
          /\ disk' = disk /\ index' = index
      BY <1>1, <1>4, <2>4 DEF JournalDelivered, Step, spool
    <3>2. n \in blur' \/ row'[n].class = "delivered"
      BY <1>6, <2>4, WriteFacts
      DEF JournalDelivered, RecordAttempt, HistoryInv, Classes
    <3>3. /\ At(n, {"w_delivered", "w_remove"})'
          /\ At(n, {"w_delivered", "w_remove", "w_unlink"})'
      BY <1>1, <1>6, <3>1 DEF At
    <3>4. ~At(n, {"w_half", "w_move"})'
      BY <1>1, <2>3, <3>1 DEF At
    <3> QED
      BY <1>1, <2>3, <3>1, <3>2, <3>3, <3>4 DEF Handed
  <2>5. CASE Drop(w)
    <3>1. /\ pc[w] = "w_remove" /\ pc'[w] = "w_unlink" /\ cur' = cur
          /\ disk' = disk /\ row' = row /\ blur' = blur /\ n \notin index'
      BY <1>1, <1>4, <1>6, <2>1, <2>5 DEF Drop, Step, tables, Leasing
    <3>2. At(n, {"w_delivered", "w_remove", "w_unlink"})'
      BY <1>1, <1>6, <3>1 DEF At
    <3>3. ~At(n, {"w_half", "w_move"})'
      BY <1>1, <2>3, <3>1 DEF At
    <3>4. ~At(n, {"w_delivered"})
      <4>1. Alone(n, Leased)
        BY DEF HistoryInv, Local, OneLease
      <4> QED
        BY <1>1, <1>6, <3>1, <4>1 DEF Alone, At, Leased, Leasing
    <3> QED
      BY <1>1, <1>2, <1>6, <2>3, <3>1, <3>2, <3>3, <3>4 DEF Handed
  <2>6. CASE RemoveUnlink(w)
    <3>1. /\ pc[w] = "w_unlink" /\ pc'[w] = "idle"
          /\ index' = index /\ row' = row /\ n \in Ids
          /\ \/ disk'[n] = "none" /\ blur' = blur
             \/ disk' = disk /\ n \in blur'
      BY <1>1, <1>4, <1>6, <2>6
      DEF RemoveUnlink, End, tables, HistoryInv, Shape
    <3>2. n \notin index
      BY <1>6, <3>1, ActorFacts DEF Dropped
    <3>3. ~At(n, {"w_half", "w_move"})'
      BY <1>1, <2>3, <3>1 DEF At
    <3>4. At(n, {"w_delivered"}) => At(n, {"w_delivered"})'
      BY <1>1, <3>1 DEF At
    <3> QED
      BY <1>1, <1>2, <1>6, <2>3, <3>1, <3>2, <3>3, <3>4 DEF Handed
  <2> QED
    BY <2>2, <2>4, <2>5, <2>6
<1>7. CASE n = cur[w] /\ n \notin taken
  <2>1. Attempt(w, "delivered")
    BY <1>7
    DEF WorkerNext, Claim, Attempt, Hold, Release, JournalTemporary,
        JournalDelivered, JournalFailed, Drop, RemoveUnlink, FailHalf,
        FailMove, Begin, Step, End
  <2>2. /\ pc[w] = "w_try" /\ pc'[w] = "w_delivered" /\ cur' = cur
        /\ disk' = disk /\ index' = index /\ row' = row /\ blur' = blur
    BY <1>1, <1>4, <2>1 DEF Attempt, spool, tables
  <2>3. n \in index /\ Places(n) /\ Unborn(n)
    BY <1>7, <2>2, ActorFacts DEF HistoryInv, Local, Leasing
  <2>4. /\ At(n, {"w_delivered"})' /\ At(n, {"w_delivered", "w_remove"})'
        /\ At(n, {"w_delivered", "w_remove", "w_unlink"})'
    BY <1>1, <1>7, <2>2 DEF At
  <2>5. ~At(n, {"w_half", "w_move"})'
    <3>1. ~At(n, {"w_half", "w_move"})
      BY <2>3 DEF Places, At, Dropped
    <3> QED
      BY <1>1, <2>2, <3>1 DEF At
  <2>6. pc[n] # "new"
    BY <1>1, <1>7, <2>2, <2>3 DEF Unborn, At, WorkerPcs, Leasing
  <2> QED
    BY <1>1, <2>2, <2>3, <2>4, <2>5, <2>6 DEF Handed, Places
<1> QED
  BY <1>5, <1>6, <1>7

\* What an operator's step does to itself and to the messages it is not on.
LEMMA OperatorFrame ==
  ASSUME HistoryInv, NEW o \in Operators, OperatorNext(o)
  PROVE  /\ up /\ up' /\ o \in Procs /\ taken' = taken
         /\ \A q \in Procs \ {o} : pc'[q] = pc[q] /\ cur'[q] = cur[q]
         /\ \A n \in Ids : pc'[n] = pc[n]
         /\ pc'[o] \in OperatorPcs
         /\ \A n \in Ids \ {cur[o]} :
              /\ disk'[n] = disk[n] /\ row'[n] = row[n]
              /\ n \in index' <=> n \in index
              /\ n \in blur' <=> n \in blur
<1>1. o \in Procs /\ o \notin Ids /\ Ids \subseteq Procs
  BY ActorFacts DEF Procs
<1>2. /\ pc \in [Procs -> SessionPcs \cup WorkerPcs \cup OperatorPcs]
      /\ cur \in [Procs -> Ids \cup {NoId}] /\ disk \in [Ids -> Wheres]
      /\ row \in [Ids -> Rows \cup {NoRow}] /\ NoId \notin Ids
  BY HistoryAssumption DEF HistoryInv, Shape
<1> USE DEF OperatorPcs, Requeueing, Deleting
<1>3. CASE \E id \in Ids : Requeue(o, id) \/ Delete(o, id)
  BY <1>1, <1>2, <1>3 DEF Requeue, Delete, TryLease, Begin, tables
<1>4. CASE RequeueMove(o)
  BY <1>1, <1>2, <1>4 DEF RequeueMove, RequeueError, Step, End, spool, tables
<1>5. CASE RequeueFree(o) \/ RequeueDone(o) \/ DeleteFind(o) \/ DeleteDone(o)
  BY <1>1, <1>2, <1>5
  DEF RequeueFree, RequeueDone, DeleteFind, DeleteDone, Step, End, spool,
      tables
<1>6. CASE DeleteDiscard(o)
  BY <1>1, <1>2, <1>6 DEF DeleteDiscard, Step, End, tables
<1>7. CASE RequeueHook(o) \/ DeleteRemoval(o) \/ DeleteReconcile(o)
  BY <1>1, <1>2, <1>7
  DEF RequeueHook, DeleteRemoval, DeleteReconcile, RecordRequeue,
      RecordRemoval, RecordAttempt, Write, Refused, Step, End, spool
<1> QED
  BY <1>3, <1>4, <1>5, <1>6, <1>7 DEF OperatorNext

\* An operator's step.
LEMMA OperatorHanded ==
  ASSUME HistoryInv, TakenInv, NEW o \in Operators, OperatorNext(o),
         NEW n \in Ids
  PROVE  Handed(n)'
<1>1. /\ up /\ up' /\ o \in Procs /\ taken' = taken
      /\ \A q \in Procs \ {o} : pc'[q] = pc[q] /\ cur'[q] = cur[q]
      /\ pc'[n] = pc[n] /\ pc'[o] \in OperatorPcs
  BY OperatorFrame
<1> SUFFICES ASSUME n \in taken PROVE Handed(n)'
  BY <1>1 DEF Handed
<1>2. Handed(n) /\ pc'[n] # "new" /\ disk[n] \in {"queue", "none"}
  BY <1>1 DEF TakenInv, Handed
<1>3. pc[o] \in OperatorPcs
  BY <1>1, ActorFacts DEF HistoryInv, Actors
<1>4. /\ pc[o] \notin {"w_delivered", "w_remove", "w_unlink"}
      /\ pc'[o] \notin {"w_half", "w_move"}
  BY <1>1, <1>3 DEF OperatorPcs, Requeueing, Deleting
<1>5. CASE n # cur[o]
  <2>1. /\ disk'[n] = disk[n] /\ row'[n] = row[n]
        /\ n \in index' <=> n \in index
        /\ n \in blur' <=> n \in blur
    BY <1>5, OperatorFrame
  <2> QED
    BY <1>1, <1>2, <1>4, <2>1, HandedKept
<1>6. CASE n = cur[o]
  <2>1. /\ pc[o] \notin Requeueing
        /\ pc[o] \in {"q_move", "d_unlink"} => n \notin index
    BY <1>1, <1>2, <1>6, TakenPcs
  <2>2. CASE ~(DeleteRemoval(o) \/ DeleteReconcile(o))
    <3>1. /\ disk'[n] \in {disk[n], "none"} /\ row' = row
          /\ n \in index' => n \in index
          /\ n \in blur => n \in blur'
      BY <1>2, <1>6, <2>1, <2>2
      DEF OperatorNext, Requeue, Delete, TryLease, RequeueMove, RequeueError,
          RequeueHook, RequeueFree, RequeueDone, DeleteDiscard, DeleteFind,
          DeleteDone, Begin, Step, End, spool, tables, Requeueing,
          HistoryInv, Shape
    <3> QED
      BY <1>1, <1>2, <1>4, <3>1, HandedKept
  <2>3. CASE DeleteRemoval(o) \/ DeleteReconcile(o)
    <3>1. /\ pc[o] \in Deleting /\ disk' = disk /\ index' = index
          /\ Write(n, "removed") \/ Refused(n)
      BY <1>6, <2>3
      DEF DeleteRemoval, DeleteReconcile, RecordRemoval, RecordAttempt, Step,
          End, spool, Deleting
    <3>2. disk[n] = "none"
      BY <1>6, <3>1, ActorFacts
    <3>3. n \in blur' \/ row'[n].class = "removed"
      BY <3>1, WriteFacts DEF HistoryInv, Classes
    <3> QED
      BY <1>1, <1>2, <1>4, <3>1, <3>2, <3>3, HandedKept
  <2> QED
    BY <2>2, <2>3
<1> QED
  BY <1>5, <1>6

\* The steps of a session, the sweeps, a crash and a recovery.
LEMMA OthersHanded ==
  ASSUME HistoryInv, TakenInv, NEW n \in Ids,
         \/ \E id \in Ids :
              Commit(id) \/ JournalAccepted(id) \/ SweepFailed(id)
         \/ RetentionCleanup \/ Crash \/ Recover
  PROVE  Handed(n)'
<1> SUFFICES ASSUME n \in taken' PROVE Handed(n)'
  BY DEF Handed
<1>1. Handed(n) /\ n \in Procs /\ n # NoId
  BY HistoryAssumption DEF TakenInv, Procs
<1>2. /\ pc \in [Procs -> SessionPcs \cup WorkerPcs \cup OperatorPcs]
      /\ cur \in [Procs -> Ids \cup {NoId}] /\ disk \in [Ids -> Wheres]
      /\ row \in [Ids -> Rows \cup {NoRow}] /\ Ids \subseteq Procs
  BY DEF HistoryInv, Shape, Procs
<1>3. ~Crash /\ ~Recover
  BY DEF Crash, Recover, TakenInv
<1>4. n \in taken
  BY <1>3
  DEF Commit, JournalAccepted, SweepFailed, RetentionCleanup, Step, End
<1>5. pc[n] # "new" /\ disk[n] \in {"queue", "none"}
  BY <1>1, <1>4 DEF Handed
<1>6. CASE RetentionCleanup
  <2>1. /\ pc' = pc /\ cur' = cur /\ disk' = disk /\ index' = index
        /\ blur' = blur /\ row'[n] \in {row[n], NoRow}
    BY <1>6 DEF RetentionCleanup, spool
  <2>2. \A S : At(n, S)' <=> At(n, S)
    BY <2>1 DEF At
  <2> QED
    BY <1>1, <1>4, <2>1, <2>2 DEF Handed
<1>7. ASSUME NEW id \in Ids, SweepFailed(id) PROVE Handed(n)'
  <2>1. /\ pc' = pc /\ cur' = cur /\ disk'[n] = disk[n] /\ index' = index
        /\ blur' = blur /\ row' = row
    BY <1>2, <1>5, <1>7 DEF SweepFailed, tables
  <2>2. \A S : At(n, S)' <=> At(n, S)
    BY <2>1 DEF At
  <2> QED
    BY <1>1, <1>4, <2>1, <2>2 DEF Handed
<1>8. ASSUME NEW id \in Ids, Commit(id) PROVE Handed(n)'
  <2>1. id # n /\ id \in Procs
    BY <1>2, <1>5, <1>8 DEF Commit
  <2>2. /\ disk'[n] = disk[n] /\ row' = row /\ blur' = blur
        /\ n \in index' => n \in index
        /\ \A q \in Procs \ {id} : pc'[q] = pc[q] /\ cur'[q] = cur[q]
        /\ pc[id] = "new" /\ pc'[id] = "a_journal"
    BY <1>2, <1>8, <2>1 DEF Commit, tables
  <2> QED
    BY <1>1, <1>4, <1>5, <2>1, <2>2, HandedKept
<1>9. ASSUME NEW id \in Ids, JournalAccepted(id) PROVE Handed(n)'
  <2>1. id \in Procs /\ cur[id] \in {id, NoId}
    BY <1>2 DEF HistoryInv, Actors
  <2>2. /\ disk' = disk /\ blur' = blur /\ index' = index
        /\ \A q \in Procs \ {id} : pc'[q] = pc[q] /\ cur'[q] = cur[q]
        /\ pc[id] = "a_journal" /\ pc'[id] = "idle"
        /\ row' = row \/ row' = [row EXCEPT ![id] = NewRow]
    BY <1>2, <1>9, <2>1 DEF JournalAccepted, RecordMessage, End, spool
  <2>3. CASE row'[n] = row[n]
    BY <1>1, <1>2, <1>4, <1>5, <2>1, <2>2, <2>3, HandedKept
  <2>4. CASE row'[n] # row[n]
    <3>1. n = id
      BY <1>2, <2>2, <2>4
    <3>2. n \in blur \/ Early(n)
      BY DEF HistoryInv, Local, QueueView
    <3>3. n \in blur \/ At(n, {"w_delivered"})
      BY <1>1, <1>4, <2>2, <3>1, <3>2 DEF Handed, Early, At
    <3>4. /\ At(n, {"w_delivered"}) => At(n, {"w_delivered"})'
          /\ At(n, {"w_delivered", "w_remove"}) =>
               At(n, {"w_delivered", "w_remove"})'
          /\ At(n, {"w_delivered", "w_remove", "w_unlink"}) =>
               At(n, {"w_delivered", "w_remove", "w_unlink"})'
          /\ At(n, {"w_half", "w_move"})' => At(n, {"w_half", "w_move"})
      BY <2>1, <2>2 DEF At
    <3> QED
      BY <1>1, <1>4, <2>2, <3>1, <3>3, <3>4 DEF Handed
  <2> QED
    BY <2>3, <2>4
<1> QED
  BY <1>3, <1>6, <1>7, <1>8, <1>9

\* What is known of a message the smarthost has taken, until a crash.
THEOREM TakenAlways == Spec => []TakenInv
<1>1. Init => TakenInv
  BY DEF Init, TakenInv, Handed
<1>2. HistoryInv /\ TakenInv /\ [Next]_vars => TakenInv'
  <2> SUFFICES ASSUME HistoryInv, TakenInv, [Next]_vars PROVE TakenInv'
    OBVIOUS
  <2>1. CASE UNCHANGED vars
    <3>1. \A id \in Ids : \A S : At(id, S)' <=> At(id, S)
      BY <2>1 DEF vars, At
    <3> QED
      BY <2>1, <3>1 DEF vars, TakenInv, Handed
  <2>2. CASE Next
    <3>1. \A id \in Ids : Handed(id)'
      BY <2>2, WorkerHanded, OperatorHanded, OthersHanded DEF Next
    <3>2. taken' \subseteq Ids /\ (~up' => taken' = {})
      <4>1. CASE \E w \in Workers : WorkerNext(w)
        <5>1. PICK w \in Workers : WorkerNext(w)
          BY <4>1
        <5>2. \A q : q \in taken' => q \in taken \/ (q = cur[w] /\ q \in Ids)
          BY <5>1, ActorFacts
          DEF WorkerNext, Claim, Attempt, Hold, Release, JournalTemporary,
              JournalDelivered, JournalFailed, Drop, RemoveUnlink, FailHalf,
              FailMove, Begin, Step, End
        <5> QED
          BY <5>1, <5>2, WorkerFrame DEF TakenInv
      <4>2. CASE \E o \in Operators : OperatorNext(o)
        BY <4>2, OperatorFrame DEF TakenInv
      <4>3. CASE \/ \E id \in Ids :
                      Commit(id) \/ JournalAccepted(id) \/ SweepFailed(id)
                 \/ RetentionCleanup \/ Crash \/ Recover
        BY <4>3
        DEF TakenInv, Commit, JournalAccepted, SweepFailed, RetentionCleanup,
            Crash, Recover, End
      <4> QED
        BY <2>2, <4>1, <4>2, <4>3 DEF Next
    <3> QED
      BY <3>1, <3>2 DEF TakenInv
  <2> QED
    BY <2>1, <2>2
<1> QED
  BY <1>1, <1>2, HistoryAlways, PTL DEF Spec

\* A Delete that got an answer other than Busy and Failed leaves no active
\* row and no live message, whatever the other actors did meanwhile; and a
\* message the smarthost has taken is recorded as removed only in the window
\* of its worker's Remove, or after a write or an unlink that failed.
THEOREM DeleteLeavesNothing == Spec => DeleteClears
<1> DEFINE
  Answered(o) ==
    pc[o] \in {"d_find", "d_audit"} /\ pc'[o] = "idle" /\ up'
      /\ cur[o] \notin blur' =>
      cur[o] \notin index' /\ ~ActiveRow(row'[cur[o]])
  Found(o) ==
    pc[o] = "d_unlink" /\ pc'[o] = "d_removal" /\ cur[o] \in taken =>
      \/ cur[o] \in blur
      \/ \E w \in Workers : cur[w] = cur[o] /\ pc[w] = "w_unlink"
  Cleared(o) ==
    pc[o] = "d_reconcile" /\ pc'[o] = "d_audit" /\ cur[o] \in taken =>
      cur[o] \in blur \/ row[cur[o]].class = "removed"
<1>1. ASSUME HistoryInv, Next, NEW o \in Operators PROVE Answered(o)
  <2> SUFFICES ASSUME pc[o] \in {"d_find", "d_audit"}, pc'[o] = "idle",
                      up', cur[o] \notin blur'
               PROVE  cur[o] \notin index' /\ ~ActiveRow(row'[cur[o]])
    OBVIOUS
  <2>1. OperatorNext(o)
    BY <1>1, OwnSteps
  <2>2. DeleteFind(o) \/ DeleteDone(o)
    BY <2>1
    DEF OperatorNext, Requeue, Delete, TryLease, RequeueMove, RequeueHook,
        RequeueFree, RequeueDone, DeleteDiscard, DeleteRemoval,
        DeleteReconcile, Begin, Step, End
  <2>3. o \in Procs /\ cur[o] \in Ids /\ disk[cur[o]] = "none"
    BY <1>1, ActorFacts DEF Deleting
  <2>4. cur[o] \notin index
    BY <1>1, <2>3 DEF HistoryInv, Local, Places
  <2>5. index' = index /\ row' = row /\ blur' = blur
    BY <2>2 DEF DeleteFind, DeleteDone, spool, tables
  <2>6. CASE DeleteFind(o)
    <3>1. o \in Procs /\ pc \in [Procs -> SessionPcs \cup WorkerPcs
                                            \cup OperatorPcs]
      BY <1>1, <2>3 DEF HistoryInv, Shape
    <3>2. ~Step(o, "d_find", "d_reconcile")
      BY <3>1 DEF Step
    <3> QED
      BY <2>4, <2>5, <2>6, <3>2 DEF DeleteFind, FindMessageByID
  <2>7. CASE DeleteDone(o)
    <3>1. At(cur[o], {"w_remove", "w_fail", "d_audit"})
      BY <2>3, <2>7 DEF DeleteDone, End, At
    <3>2. QueueView(cur[o])
      BY <1>1, <2>3 DEF HistoryInv, Local
    <3>3. row[cur[o]] # NoRow => ~ActiveRow(row[cur[o]])
      BY <2>5, <3>1, <3>2 DEF QueueView, Truth
    <3> QED
      BY <2>4, <2>5, <3>3, RowFacts
  <2> QED
    BY <2>2, <2>6, <2>7
<1>2. ASSUME HistoryInv, Next, NEW o \in Operators,
             pc[o] \in {"d_unlink", "d_reconcile"},
             pc'[o] \in {"d_removal", "d_audit"}
      PROVE  OperatorNext(o) /\ o \in Procs /\ cur[o] \in Ids
  <2>1. o \in Procs /\ cur[o] \in Ids
    BY <1>2, ActorFacts
  <2>2. up'
    <3> SUFFICES ASSUME ~up' PROVE FALSE
      OBVIOUS
    <3>1. ~Crash
      BY <1>2, <2>1 DEF Crash
    <3>2. \A w \in Workers : ~WorkerNext(w)
      BY <1>2, WorkerFrame
    <3>3. \A q \in Operators : ~OperatorNext(q)
      BY <1>2, OperatorFrame
    <3>4. /\ \A id \in Ids : /\ ~Commit(id) /\ ~JournalAccepted(id)
                             /\ ~SweepFailed(id)
          /\ ~RetentionCleanup /\ ~Recover
      BY DEF Commit, JournalAccepted, SweepFailed, RetentionCleanup, Recover,
         End
    <3> QED
      BY <1>2, <3>1, <3>2, <3>3, <3>4 DEF Next
  <2> QED
    BY <1>2, <2>1, <2>2, OwnSteps
<1>3. ASSUME HistoryInv, TakenInv, Next, NEW o \in Operators
      PROVE  Found(o)
  <2> SUFFICES ASSUME pc[o] = "d_unlink", pc'[o] = "d_removal",
                      cur[o] \in taken, cur[o] \notin blur
               PROVE  \E w \in Workers : cur[w] = cur[o] /\ pc[w] = "w_unlink"
    OBVIOUS
  <2> DEFINE id == cur[o]
  <2>1. OperatorNext(o) /\ o \in Procs /\ id \in Ids
    BY <1>2, <1>3
  <2>2. DeleteDiscard(o)
    BY <2>1
    DEF OperatorNext, Requeue, Delete, TryLease, RequeueMove, RequeueHook,
        RequeueFree, RequeueDone, DeleteRemoval, DeleteFind, DeleteReconcile,
        DeleteDone, Begin, Step, End
  <2>3. pc \in [Procs -> SessionPcs \cup WorkerPcs \cup OperatorPcs]
    BY <1>3 DEF HistoryInv, Shape
  <2>4. disk[id] # "none"
    BY <2>1, <2>2, <2>3 DEF DeleteDiscard, Step, End
  <2>5. Handed(id)
    BY <1>3, <2>1 DEF TakenInv
  <2>6. PICK w \in Procs : /\ cur[w] = id
                           /\ pc[w] \in {"w_delivered", "w_remove", "w_unlink"}
    BY <2>4, <2>5 DEF Handed, At
  <2>7. pc[w] \notin {"w_delivered", "w_remove"}
    <3>1. Alone(id, Leased)
      BY <1>3, <2>1 DEF HistoryInv, Local, OneLease
    <3> QED
      BY <2>1, <2>6, <3>1 DEF Alone, Leased, Leasing
  <2>8. w \in Workers
    <3>1. pc[w] \in Pcs(w)
      BY <1>3 DEF HistoryInv, Actors
    <3> QED
      BY <2>6, <3>1
      DEF Pcs, SessionPcs, OperatorPcs, Requeueing, Deleting
  <2> QED
    BY <2>6, <2>7, <2>8
<1>4. ASSUME HistoryInv, TakenInv, Next, NEW o \in Operators
      PROVE  Cleared(o)
  <2> SUFFICES ASSUME pc[o] = "d_reconcile", pc'[o] = "d_audit",
                      cur[o] \in taken, cur[o] \notin blur
               PROVE  row[cur[o]].class = "removed"
    OBVIOUS
  <2> DEFINE id == cur[o]
  <2>1. OperatorNext(o) /\ o \in Procs /\ id \in Ids
    BY <1>2, <1>4
  <2>2. DeleteReconcile(o)
    BY <2>1
    DEF OperatorNext, Requeue, Delete, TryLease, RequeueMove, RequeueHook,
        RequeueFree, RequeueDone, DeleteDiscard, DeleteRemoval, DeleteFind,
        DeleteDone, Begin, Step, End
  <2>3. row[id] # NoRow
    <3>1. ~End(o, "d_reconcile")
      BY <1>4, <2>1 DEF End, HistoryInv, Shape
    <3> QED
      BY <2>2, <3>1 DEF DeleteReconcile, Write
  <2>4. ActiveRow(row[id]) \/ row[id].class = "removed"
    <3>1. Reconciled(id) /\ At(id, {"d_reconcile"})
      BY <1>4, <2>1 DEF HistoryInv, Local, At
    <3> QED
      BY <2>3, <3>1 DEF Reconciled
  <2>5. ~At(id, {"w_delivered"})
    <3>1. Places(id) /\ disk[id] = "none"
      BY <1>4, <2>1, ActorFacts DEF HistoryInv, Local, Deleting
    <3>2. id \notin index
      BY <3>1 DEF Places
    <3> QED
      BY <3>1, <3>2 DEF Places, At, Leasing
  <2>6. row[id].class \in {"delivered", "removed"}
    BY <1>4, <2>1, <2>3, <2>5 DEF TakenInv, Handed
  <2>7. classStatus["delivered"] = "delivered"
    BY DEF classStatus, Classes
  <2> QED
    BY <2>3, <2>4, <2>6, <2>7 DEF ActiveRow, Active, classToStatus, NoClass
<1>5. HistoryInv /\ TakenInv /\ [Next]_vars =>
    [\A o \in Operators :
       /\ pc[o] \in {"d_find", "d_audit"} /\ pc'[o] = "idle" /\ up'
            /\ cur[o] \notin blur' =>
          cur[o] \notin index' /\ ~ActiveRow(row'[cur[o]])
       /\ pc[o] = "d_unlink" /\ pc'[o] = "d_removal" /\ cur[o] \in taken =>
          \/ cur[o] \in blur
          \/ \E w \in Workers : cur[w] = cur[o] /\ pc[w] = "w_unlink"
       /\ pc[o] = "d_reconcile" /\ pc'[o] = "d_audit" /\ cur[o] \in taken =>
          cur[o] \in blur \/ row[cur[o]].class = "removed"]_vars
  BY <1>1, <1>3, <1>4
<1> QED
  BY <1>5, HistoryAlways, TakenAlways, PTL DEF Spec, DeleteClears

-----------------------------------------------------------------------------
(* The summary columns.                                                    *)

\* One more row in a log adds one to the count of the classes it is in.
LEMMA CountAppend ==
  ASSUME NEW s \in Seq(Classes), NEW c \in Classes, NEW S
  PROVE  /\ Count(s, S) \in Nat
         /\ Count(Append(s, c), S) = Count(s, S) + (IF c \in S THEN 1 ELSE 0)
<1> DEFINE I(t) == {i \in DOMAIN t : t[i] \in S}
           n == Len(s)
<1>1. n \in Nat /\ DOMAIN s = 1..n
  OBVIOUS
<1>2. IsFiniteSet(I(s))
  <2>1. IsFiniteSet(1..n) /\ I(s) \in SUBSET (1..n)
    BY <1>1, FS_Interval
  <2> QED
    BY <2>1, FS_Subset
<1>3. Cardinality(I(s)) \in Nat
  BY <1>2, FS_CardinalityType
<1>4. /\ DOMAIN Append(s, c) = 1..(n + 1)
      /\ Append(s, c)[n + 1] = c
      /\ \A i \in 1..n : Append(s, c)[i] = s[i]
  OBVIOUS
<1>5. n + 1 \notin I(s)
  BY <1>1
<1>6. CASE c \in S
  <2>1. I(Append(s, c)) = I(s) \cup {n + 1}
    BY <1>1, <1>4, <1>6
  <2>2. Cardinality(I(s) \cup {n + 1}) = Cardinality(I(s)) + 1
    BY <1>2, <1>5, FS_AddElement
  <2> QED
    BY <1>3, <1>6, <2>1, <2>2 DEF Count
<1>7. CASE c \notin S
  <2>1. I(Append(s, c)) = I(s)
    BY <1>1, <1>4, <1>7
  <2>2. Count(Append(s, c), S) = Count(s, S) /\ Count(s, S) \in Nat
    BY <1>3, <2>1 DEF Count
  <2> QED
    BY <1>7, <2>2
<1> QED
  BY <1>6, <1>7

\* An empty log counts nothing.
LEMMA CountEmpty == ASSUME NEW S PROVE Count(<<>>, S) = 0
<1>1. {i \in DOMAIN <<>> : <<>>[i] \in S} = {}
  OBVIOUS
<1> QED
  BY <1>1, FS_EmptySet DEF Count

\* Every listing selects by class exactly the rows it displays under that
\* status, whatever the row.
LEMMA FiltersAgree ==
  ASSUME NEW r \in Rows
  PROVE  /\ \A s \in Statuses :
              StatusFilter(r, s) <=> classToStatus(r.class) = s
         /\ StatusFilter(r, "active") <=> Active(r)
<1>1. /\ classStatus["temporary"] = "deferred"
      /\ classStatus["requeued"] = "queued"
      /\ classStatus["delivered"] = "delivered"
      /\ classStatus["permanent"] = "bounced"
      /\ classStatus["expired"] = "bounced"
      /\ classStatus["removed"] = "removed"
  BY DEF classStatus, Classes
<1>2. r.class \in Classes \cup {NoClass}
  BY DEF Rows
<1>3. StatusFilter(r, "active") <=> Active(r)
  BY <1>1, <1>2 DEF StatusFilter, Active, classToStatus, Classes, NoClass
<1>4. \A s \in Statuses \ {"queued"} :
        StatusFilter(r, s) <=> r.class \in statusClasses(s)
  BY DEF StatusFilter, Statuses
<1>5. \A s \in Statuses \ {"queued"} :
        r.class \in statusClasses(s) <=> classToStatus(r.class) = s
  BY <1>1, <1>2
  DEF statusClasses, classToStatus, Classes, NoClass, Statuses
<1>6. StatusFilter(r, "queued") <=> classToStatus(r.class) = "queued"
  BY <1>1, <1>2 DEF StatusFilter, classToStatus, Classes, NoClass
<1> QED
  BY <1>3, <1>4, <1>5, <1>6

\* The summary columns of a row that has these attempts.
Sums(r, s) ==
  /\ r.class = IF Len(s) = 0 THEN NoClass ELSE s[Len(s)]
  /\ r.count = Count(s, Classes \ {"requeued"})
  /\ r.bounced <=> Count(s, {"permanent", "expired"}) > 0
  /\ r.bounced => r.first

Summed == \A id \in Ids : IF row[id] = NoRow THEN log[id] = <<>>
                          ELSE Sums(row[id], log[id])

\* One attempt or requeue keeps the columns right.
LEMMA SumsAppend ==
  ASSUME NEW r \in Rows, NEW s \in Seq(Classes), NEW c \in Classes,
         Sums(r, s)
  PROVE  /\ Sums(RecordAttemptRow(r, c), Append(s, c)) \/ c = "requeued"
         /\ c = "requeued" => Sums(RecordRequeueRow(r), Append(s, c))
<1> DEFINE N(t) == Count(t, Classes \ {"requeued"})
           B(t) == Count(t, {"permanent", "expired"})
           s1 == Append(s, c)
<1>1. /\ N(s) \in Nat /\ B(s) \in Nat
      /\ N(s1) = N(s) + (IF c \in Classes \ {"requeued"} THEN 1 ELSE 0)
      /\ B(s1) = B(s) + (IF c \in {"permanent", "expired"} THEN 1 ELSE 0)
  BY CountAppend
<1>2. Len(s1) # 0 /\ s1[Len(s1)] = c
  OBVIOUS
<1>3. /\ r.count = N(s) /\ (r.bounced <=> B(s) > 0)
      /\ r.bounced => r.first
  BY DEF Sums
<1>4. /\ r.count \in Nat /\ r.bounced \in BOOLEAN /\ r.first \in BOOLEAN
  BY DEF Rows
<1> HIDE DEF N, B, s1
<1>5. CASE c = "requeued"
  <2> DEFINE q == RecordRequeueRow(r)
  <2>1. /\ q.class = c /\ q.count = r.count /\ q.first = r.first
        /\ q.bounced = r.bounced
    BY <1>5 DEF RecordRequeueRow, Rows
  <2> HIDE DEF q
  <2>2. N(s1) = N(s) /\ B(s1) = B(s)
    BY <1>1, <1>5
  <2>3. Sums(q, s1)
    BY <1>2, <1>3, <2>1, <2>2 DEF Sums, N, B
  <2> QED
    BY <1>5, <2>3 DEF q, s1
<1>6. CASE c # "requeued"
  <2> DEFINE q == RecordAttemptRow(r, c)
  <2>1. /\ q.class = c /\ q.count = r.count + 1 /\ q.first = TRUE
        /\ q.bounced = (r.bounced \/ classStatus[c] = "bounced")
    BY DEF RecordAttemptRow
  <2>2. classStatus[c] = "bounced" <=> c \in {"permanent", "expired"}
    BY <1>6 DEF classStatus, Classes
  <2> HIDE DEF q
  <2>3. N(s1) = N(s) + 1
    BY <1>1, <1>6
  <2>4. B(s1) > 0 <=> (B(s) > 0 \/ c \in {"permanent", "expired"})
    BY <1>1
  <2>5. q.bounced <=> B(s1) > 0
    BY <1>3, <2>1, <2>2, <2>4, Zenon
  <2>6. Sums(q, s1)
    BY <1>2, <1>3, <2>1, <2>3, <2>5 DEF Sums, N, B
  <2> QED
    BY <1>6, <2>6 DEF q, s1
<1> QED
  BY <1>5, <1>6

\* A write of the store, done or refused, keeps the columns right.
LEMMA WriteSums ==
  ASSUME Shape, Summed, NEW m \in Ids, NEW c \in Classes,
         Write(m, c) \/ Refused(m)
  PROVE  Summed'
<1>1. CASE Refused(m)
  BY <1>1 DEF Refused, Summed
<1>2. CASE Write(m, c)
  <2>1. row[m] \in Rows /\ row[m] # NoRow /\ log[m] \in Seq(Classes)
    BY <1>2 DEF Write, Shape
  <2>2. Sums(row[m], log[m])
    BY <2>1 DEF Summed
  <2>3. /\ log'[m] = Append(log[m], c)
        /\ row'[m] = IF c = "requeued" THEN RecordRequeueRow(row[m])
                                       ELSE RecordAttemptRow(row[m], c)
        /\ \A n \in Ids \ {m} : row'[n] = row[n] /\ log'[n] = log[n]
    BY <1>2 DEF Write, Shape
  <2>4. row'[m] # NoRow
    BY <2>1, <2>3, RowFacts
  <2>5. Sums(row'[m], log'[m])
    BY <2>1, <2>2, <2>3, SumsAppend
  <2> QED
    BY <2>3, <2>4, <2>5 DEF Summed
<1> QED
  BY <1>1, <1>2

\* The summary on a message row is what the attempts table says, whichever
\* actors wrote it, whatever was refused and whatever retention removed: its
\* latest class, the attempts without the requeues, whether it ever bounced;
\* and every listing selects by it exactly the rows it displays.
THEOREM SummaryTrue == Spec => []SummaryAgrees
<1>1. Init => Summed
  BY DEF Init, Summed
<1>2. ASSUME HistoryInv, Summed, Next PROVE Summed'
  <2>1. Shape
    BY <1>2 DEF HistoryInv
  <2>2. ASSUME NEW p \in Workers \cup Operators, pc[p] \notin {"new", "idle"},
               NEW c \in Classes, Write(cur[p], c) \/ Refused(cur[p])
        PROVE  Summed'
    <3>1. cur[p] \in Ids
      BY <1>2, <2>2, ActorFacts
    <3> QED
      BY <1>2, <2>1, <2>2, <3>1, WriteSums
  <2>3. row' = row /\ log' = log => Summed'
    BY <1>2 DEF Summed
  <2>4. ASSUME NEW id \in Ids, JournalAccepted(id) PROVE Summed'
    <3>1. row[id] = NoRow /\ log[id] = <<>> /\ log' = log
      BY <1>2, <2>4
      DEF HistoryInv, Local, Unborn, JournalAccepted, End, Summed
    <3>2. Sums(NewRow, <<>>) /\ NewRow # NoRow
      <4>1. Count(<<>>, Classes \ {"requeued"}) = 0
              /\ Count(<<>>, {"permanent", "expired"}) = 0
        BY CountEmpty
      <4>2. NewRow.class = NoClass /\ NewRow.count = 0 /\ ~NewRow.bounced
        BY DEF NewRow
      <4>3. ~(Count(<<>>, {"permanent", "expired"}) > 0) /\ Len(<<>>) = 0
        BY <4>1
      <4> QED
        BY <4>1, <4>2, <4>3, RowFacts DEF Sums
    <3>3. row' = [row EXCEPT ![id] = NewRow] \/ row' = row
      BY <2>4 DEF JournalAccepted, RecordMessage
    <3> QED
      BY <1>2, <2>1, <2>3, <3>1, <3>2, <3>3 DEF Summed, Shape
  <2>5. ASSUME NEW w \in Workers, WorkerNext(w) PROVE Summed'
    <3>1. CASE JournalDelivered(w) \/ JournalTemporary(w) \/ JournalFailed(w)
      BY <2>2, <3>1
      DEF JournalDelivered, JournalTemporary, JournalFailed, RecordAttempt,
          Step, Classes
    <3>2. CASE ~(JournalDelivered(w) \/ JournalTemporary(w)
                   \/ JournalFailed(w))
      BY <2>3, <2>5, <3>2
      DEF WorkerNext, Claim, Attempt, Hold, Release, Drop, RemoveUnlink,
          FailHalf, FailMove, tables
    <3> QED
      BY <3>1, <3>2
  <2>6. ASSUME NEW o \in Operators, OperatorNext(o) PROVE Summed'
    <3>1. CASE RequeueHook(o) \/ DeleteRemoval(o) \/ DeleteReconcile(o)
      BY <2>2, <3>1
      DEF RequeueHook, DeleteRemoval, DeleteReconcile, RecordRequeue,
          RecordRemoval, RecordAttempt, Step, End, Classes
    <3>2. CASE ~(RequeueHook(o) \/ DeleteRemoval(o) \/ DeleteReconcile(o))
      BY <2>3, <2>6, <3>2
      DEF OperatorNext, Requeue, Delete, TryLease, RequeueMove, RequeueFree,
          RequeueDone, DeleteDiscard, DeleteFind, DeleteDone, tables
    <3> QED
      BY <3>1, <3>2
  <2>7. CASE RetentionCleanup
    <3>1. PICK old \in SUBSET {id \in Ids : row[id] # NoRow} :
            /\ row' = [id \in Ids |-> IF id \in old THEN NoRow ELSE row[id]]
            /\ log' = [id \in Ids |-> IF id \in old THEN <<>> ELSE log[id]]
      BY <2>7 DEF RetentionCleanup
    <3> QED
      BY <1>2, <3>1 DEF Summed
  <2>8. ASSUME NEW id \in Ids, Commit(id) \/ SweepFailed(id) PROVE Summed'
    BY <2>3, <2>8 DEF Commit, SweepFailed, tables
  <2>9. CASE Crash \/ Recover
    BY <2>3, <2>9 DEF Crash, Recover, tables
  <2> QED
    BY <1>2, <2>4, <2>5, <2>6, <2>7, <2>8, <2>9 DEF Next
<1>3. Summed /\ UNCHANGED vars => Summed'
  BY DEF Summed, vars
<1>4. HistoryInv /\ Summed => SummaryAgrees
  <2> SUFFICES ASSUME HistoryInv, Summed, NEW id \in Ids,
                      row[id] # NoRow
               PROVE  LET r == row[id]  n == Len(log[id]) IN
         /\ r.class = IF n = 0 THEN NoClass ELSE log[id][n]
         /\ r.count = Count(log[id], Classes \ {"requeued"})
         /\ r.bounced = (Count(log[id], {"permanent", "expired"}) > 0)
         /\ \A s \in Statuses :
              StatusFilter(r, s) <=> classToStatus(r.class) = s
         /\ StatusFilter(r, "active") <=> Active(r)
         /\ \A c \in {"", "permanent", "expired"} :
              BounceFilter(r, c) => r.first
    BY DEF SummaryAgrees, Summed
  <2>1. row[id] \in Rows /\ Sums(row[id], log[id])
    BY DEF HistoryInv, Shape, Summed
  <2>2. row[id].bounced \in BOOLEAN
    BY <2>1 DEF Rows
  <2>3. row[id].bounced = (Count(log[id], {"permanent", "expired"}) > 0)
    <3>1. row[id].bounced <=> Count(log[id], {"permanent", "expired"}) > 0
      BY <2>1 DEF Sums
    <3>2. \A x, y \in BOOLEAN : (x <=> y) => x = y
      OBVIOUS
    <3>3. (Count(log[id], {"permanent", "expired"}) > 0) \in BOOLEAN
      BY CountAppend
    <3> QED
      BY <2>2, <3>1, <3>2, <3>3, Zenon
  <2>4. \A c \in {"", "permanent", "expired"} :
          BounceFilter(row[id], c) => row[id].first
    BY <2>1 DEF BounceFilter, Sums
  <2> QED
    BY <2>1, <2>3, <2>4, FiltersAgree DEF Sums
<1> QED
  BY <1>1, <1>2, <1>3, <1>4, HistoryAlways, PTL DEF Spec

=============================================================================
