---------------------------- MODULE SessionProofs ---------------------------
(***************************************************************************)
(* Proofs about Session, for any number of sessions, recipients and routes *)
(* and any length of dialogue.                                             *)
(***************************************************************************)
EXTENDS Session, SequenceTheorems, TLAPS

-----------------------------------------------------------------------------
(* The dialogue: what is in force, and where the stream is.                *)

\* A recipient and how it was received.
Said == [to : Recipients, via : {"clear", "tls"}]

\* The types of what the two properties of the dialogue depend on.
DialogueShape ==
  /\ pc \in [Conns -> {"cmd", "data", "commit", "withdraw", "closed"}]
  /\ isTLS \in [Conns -> BOOLEAN] /\ ahead \in [Conns -> BOOLEAN]
  /\ helo \in [Conns -> Heard] /\ from \in [Conns -> Heard]
  /\ rcpts \in [Conns -> Seq(Said)]
  /\ eod \in [Conns -> {"crlf", "bare", "eof", "error"}]

\* The reader of an encrypted connection holds nothing that came in clear.
FreshReader == \A c \in Conns : isTLS[c] => ~ahead[c]

\* What is about to be committed was read to an end.
ReadToEnd == \A c \in Conns : pc[c] = "commit" => eod[c] # "error"

DialogueInv ==
  DialogueShape /\ FreshReader /\ NothingCarried /\ ReadToEnd /\ InSync

\* The invariant holds when a session starts.
LEMMA DialogueInit == Init => DialogueInv
<1> SUFFICES ASSUME Init
             PROVE  DialogueInv
  OBVIOUS
<1>1. DialogueShape
  BY DEF Init, DialogueShape, Heard
<1> QED
  BY <1>1 DEF Init, DialogueInv, FreshReader, NothingCarried, ReadToEnd, InSync

\* What is received under TLS is received under TLS: with a fresh reader, Via
\* tells how the command at hand came.
LEMMA ViaShape ==
  ASSUME DialogueInv, NEW c \in Conns
  PROVE  Via(c) \in {"clear", "tls"} /\ (isTLS[c] => Via(c) = "tls")
  BY DEF DialogueInv, DialogueShape, FreshReader, Via

\* A reader that reads a command is not put back to one that holds more.
LEMMA ReadShape ==
  ASSUME DialogueInv, NEW c \in Conns, Read(c)
  PROVE  /\ ahead' \in [Conns -> BOOLEAN]
         /\ \A d \in Conns : ahead'[d] => ahead[d]
         /\ pc[c] = "cmd"
  BY DEF DialogueInv, DialogueShape, Read

\* A reset leaves nothing of the transaction, and other sessions theirs.
LEMMA ResetShape ==
  ASSUME DialogueInv, NEW c \in Conns, ResetTransaction(c)
  PROVE  /\ from' \in [Conns -> Heard] /\ rcpts' \in [Conns -> Seq(Said)]
         /\ \A d \in Conns :
              /\ from'[d] \in {from[d], "no"}
              /\ \A i \in DOMAIN rcpts'[d] :
                   i \in DOMAIN rcpts[d] /\ rcpts'[d][i] = rcpts[d][i]
         /\ from'[c] = "no" /\ DOMAIN rcpts'[c] = {}
<1>1. <<>> \in Seq(Said) /\ DOMAIN <<>> = {}
  OBVIOUS
<1> QED
  BY <1>1 DEF DialogueInv, DialogueShape, ResetTransaction, Heard

\* A command keeps the dialogue's invariant.
LEMMA CommandStep ==
  ASSUME DialogueInv, NEW c \in Conns,
         \/ Pipeline(c) \/ DoHelo(c) \/ DoStartTLS(c) \/ DoMail(c)
         \/ \E r \in Recipients : DoRcpt(c, r)
         \/ Rset(c) \/ Drop(c) \/ DoData(c)
  PROVE  DialogueInv'
<1> USE DEF DialogueInv, DialogueShape, FreshReader, NothingCarried,
            ReadToEnd, InSync, dialogue, data, queue, history
<1>1. CASE Pipeline(c)
  BY <1>1 DEF Pipeline
<1>2. CASE DoHelo(c)
  BY <1>2, ViaShape, ReadShape, ResetShape DEF DoHelo, Heard
<1>3. CASE DoStartTLS(c)
  <2>1. /\ ahead' \in [Conns -> BOOLEAN] /\ pc[c] = "cmd"
        /\ \A d \in Conns : ahead'[d] => ahead[d]
    BY <1>3, ReadShape DEF DoStartTLS
  <2>2. eod' = eod
    BY <1>3 DEF DoStartTLS
  <2>3. CASE /\ isTLS' = [isTLS EXCEPT ![c] = TRUE]
             /\ ahead' = [ahead EXCEPT ![c] = FALSE]
             /\ helo' = [helo EXCEPT ![c] = "no"]
             /\ ResetTransaction(c)
             /\ UNCHANGED pc
    <3>1. DialogueShape'
      BY <2>1, <2>2, <2>3, ResetShape DEF Heard
    <3>2. FreshReader' /\ ReadToEnd' /\ InSync'
      BY <2>1, <2>2, <2>3
    <3>3. NothingCarried'
      BY <2>3, ResetShape
    <3> QED
      BY <3>1, <3>2, <3>3
  <2>4. CASE /\ pc' = [pc EXCEPT ![c] = "closed"]
             /\ UNCHANGED <<isTLS, helo, from, rcpts>>
    BY <2>1, <2>2, <2>4
  <2> QED
    BY <1>3, <2>3, <2>4 DEF DoStartTLS
<1>4. CASE DoMail(c)
  BY <1>4, ViaShape, ReadShape DEF DoMail, Heard
<1>5. ASSUME NEW r \in Recipients, DoRcpt(c, r)
      PROVE  DialogueInv'
  <2> DEFINE e == [to |-> r, via |-> Via(c)]
  <2>1. e \in Said
    BY ViaShape DEF Said
  <2>2. /\ Append(rcpts[c], e) \in Seq(Said)
        /\ \A i \in DOMAIN Append(rcpts[c], e) :
             \/ i \in DOMAIN rcpts[c] /\ Append(rcpts[c], e)[i] = rcpts[c][i]
             \/ Append(rcpts[c], e)[i] = e
    BY <2>1, AppendProperties
  <2>3. rcpts' = [rcpts EXCEPT ![c] = Append(rcpts[c], e)]
    BY <1>5 DEF DoRcpt
  <2>4. e.via = Via(c)
    OBVIOUS
  <2> HIDE DEF e
  <2>5. /\ DialogueShape' /\ FreshReader' /\ ReadToEnd' /\ InSync'
    BY <1>5, <2>2, <2>3, ReadShape DEF DoRcpt
  <2>6. NothingCarried'
    BY <1>5, <2>2, <2>3, <2>4, ViaShape, ReadShape DEF DoRcpt
  <2> QED
    BY <2>5, <2>6
<1>6. CASE Rset(c)
  BY <1>6, ReadShape, ResetShape DEF Rset
<1>7. CASE Drop(c)
  BY <1>7 DEF Drop
<1>8. CASE DoData(c)
  BY <1>8, ReadShape DEF DoData
<1> QED
  BY <1>1, <1>2, <1>3, <1>4, <1>5, <1>6, <1>7, <1>8

\* So does the data phase, and what the workers do meanwhile.
LEMMA MessageStep ==
  ASSUME DialogueInv, NEW c \in Conns,
         \/ StageError(c)
         \/ \E end \in {"crlf", "bare", "eof"} : StageMessage(c, end)
         \/ \E r \in Routes : CommitCopy(c, r)
         \/ CommitError(c)
         \/ \E heard \in BOOLEAN : DoneData(c, heard)
         \/ \E removed \in BOOLEAN : Withdraw(c, removed)
         \/ \E written \in BOOLEAN :
              JournalAccepted(c, written) \/ RecordRemoval(c, written)
         \/ WithdrawDone(c)
  PROVE  DialogueInv'
<1> USE DEF DialogueInv, DialogueShape, FreshReader, NothingCarried,
            ReadToEnd, InSync, dialogue, data, queue, history
<1>1. CASE StageError(c)
  BY <1>1 DEF StageError
<1>2. ASSUME NEW end \in {"crlf", "bare", "eof"}, StageMessage(c, end)
      PROVE  DialogueInv'
  BY <1>2 DEF StageMessage
<1>3. ASSUME NEW r \in Routes, CommitCopy(c, r)
      PROVE  DialogueInv'
  BY <1>3 DEF CommitCopy
<1>4. CASE CommitError(c)
  BY <1>4 DEF CommitError
<1>5. ASSUME NEW heard \in BOOLEAN, DoneData(c, heard)
      PROVE  DialogueInv'
  <2>1. /\ ResetTransaction(c) /\ UNCHANGED <<isTLS, helo, ahead, eod>>
        /\ pc[c] = "commit"
        /\ pc' = [pc EXCEPT ![c] = IF heard /\ eod[c] # "bare"
                                     THEN "cmd" ELSE "closed"]
    BY <1>5 DEF DoneData
  <2>2. /\ pc' \in [Conns -> {"cmd", "data", "commit", "withdraw", "closed"}]
        /\ ReadToEnd' /\ InSync' /\ FreshReader'
    BY <2>1
  <2>3. DialogueShape'
    BY <2>1, <2>2, ResetShape
  <2>4. NothingCarried'
    BY <2>1, ResetShape
  <2> QED
    BY <2>2, <2>3, <2>4
<1>6. ASSUME NEW removed \in BOOLEAN, Withdraw(c, removed)
      PROVE  DialogueInv'
  BY <1>6 DEF Withdraw
<1>7. ASSUME NEW written \in BOOLEAN,
             JournalAccepted(c, written) \/ RecordRemoval(c, written)
      PROVE  DialogueInv'
  BY <1>7 DEF JournalAccepted, RecordRemoval
<1>8. CASE WithdrawDone(c)
  BY <1>8 DEF WithdrawDone
<1> QED
  BY <1>1, <1>2, <1>3, <1>4, <1>5, <1>6, <1>7, <1>8

\* Every step keeps the dialogue's invariant.
LEMMA DialogueStep == DialogueInv /\ [Next]_vars => DialogueInv'
<1> SUFFICES ASSUME DialogueInv, [Next]_vars
             PROVE  DialogueInv'
  OBVIOUS
<1> USE DEF DialogueInv, DialogueShape, FreshReader, NothingCarried,
            ReadToEnd, InSync
<1>1. CASE UNCHANGED vars
  BY <1>1 DEF vars
<1>2. ASSUME NEW k \in Copies, Claim(k) \/ Settle(k)
      PROVE  DialogueInv'
  BY <1>2 DEF Claim, Settle, Moves, dialogue, data
<1>3. CASE Next
  BY <1>2, <1>3, CommandStep, MessageStep DEF Next
<1> QED
  BY <1>1, <1>3

\* Nothing said in clear is in force in an encrypted session.  (doStartTLS.)
THEOREM StartsAfresh == Spec => []NothingCarried
<1>1. DialogueInv => NothingCarried
  BY DEF DialogueInv
<1> QED
  BY <1>1, DialogueInit, DialogueStep, PTL DEF Spec

\* The command loop never reads what belongs to a body.  (doData.)
THEOREM StaysInSync == Spec => []InSync
<1>1. DialogueInv => InSync
  BY DEF DialogueInv
<1> QED
  BY <1>1, DialogueInit, DialogueStep, PTL DEF Spec

-----------------------------------------------------------------------------
(* The copies: what becomes of them when the client is refused.            *)

Owner(k) == k[1][1]
Number(k) == k[1][2]
Current(k) == Number(k) = txn[Owner(k)]
Listed(k, s) == \E i \in 1..Len(s) : s[i] = k

\* No copy is left, or a worker had it first, or its Discard failed.
Done(k) == copy[k] \in {"none", "withdrawn"} \/ k \in claimed \cup kept

\* The types of what the properties of the copies depend on.
CopyShape ==
  /\ pc \in [Conns -> {"cmd", "data", "commit", "withdraw", "closed"}]
  /\ txn \in [Conns -> 0..MaxData]
  /\ groups \in [Conns -> SUBSET Routes]
  /\ committed \in [Conns -> Seq(Copies)]
  /\ copy \in [Copies -> {"none", "queued", "leased", "sent", "failed",
                          "withdrawn"}]
  /\ told \in [Txns -> {"nothing", "accepted", "refused"}]

\* A message is under way exactly while it has a number and a list.
UnderWay ==
  \A c \in Conns :
    /\ pc[c] \in {"data", "commit", "withdraw"} => txn[c] \in 1..MaxData
    /\ pc[c] \notin {"commit", "withdraw"} => committed[c] = <<>>

\* A refusal ends the session, and no message is refused before its DATA.
Refusals ==
  \A t \in Txns : told[t] = "refused" =>
    /\ t[2] <= txn[t[1]]
    /\ t[2] = txn[t[1]] => pc[t[1]] = "closed"

\* Copies are made in the commit phase of their message only, and once.
Unmade ==
  \A k \in Copies :
    \/ Number(k) > txn[Owner(k)]
    \/ Current(k) /\ pc[Owner(k)] = "data"
    \/ Current(k) /\ pc[Owner(k)] = "commit" /\ k[2] \in groups[Owner(k)]
    => copy[k] = "none"

\* While a message is committed or withdrawn, a copy is done with or listed.
Remembered ==
  \A k \in Copies :
    Current(k) /\ pc[Owner(k)] \in {"commit", "withdraw"} =>
      Done(k) \/ Listed(k, committed[Owner(k)])

\* What is out of the queue but not withdrawn was claimed.
Taken ==
  \A k \in Copies :
    copy[k] \in {"leased", "sent", "failed"} => k \in claimed

CopyInv ==
  /\ CopyShape /\ UnderWay /\ Refusals /\ Unmade /\ Remembered /\ Taken
  /\ RefusedWithdrawn

\* A copy and the message it belongs to.
LEMMA CopyOf ==
  /\ \A k \in Copies :
       /\ k[1] \in Txns /\ Owner(k) \in Conns /\ Number(k) \in 1..MaxData
       /\ k[2] \in Routes /\ k[1] = <<Owner(k), Number(k)>>
       /\ k = <<k[1], k[2]>>
  /\ \A t \in Txns :
       /\ t[1] \in Conns /\ t[2] \in 1..MaxData /\ t = <<t[1], t[2]>>
       /\ \A k \in CopiesOf(t) : k \in Copies /\ k[1] = t
  /\ \A c \in Conns, n \in 1..MaxData : <<c, n>> \in Txns
  /\ \A t \in Txns, r \in Routes : <<t, r>> \in Copies
  BY DEF Copies, Txns, CopiesOf, Owner, Number

\* RefusedWithdrawn, copy by copy.
LEMMA RefusedByCopy ==
  /\ RefusedWithdrawn => \A k \in Copies : told[k[1]] = "refused" => Done(k)
  /\ (\A k \in Copies : told'[k[1]] = "refused" => Done(k)')
       => RefusedWithdrawn'
  BY CopyOf DEF RefusedWithdrawn, Done, Copies, CopiesOf

\* The invariant holds when nothing has been received.
LEMMA CopyInit == Init => CopyInv
<1> SUFFICES ASSUME Init
             PROVE  CopyInv
  OBVIOUS
<1>1. CopyShape
  <2>1. <<>> \in Seq(Copies)
    OBVIOUS
  <2> QED
    BY <2>1, SessionAssumption DEF Init, CopyShape
<1>2. UnderWay /\ Unmade /\ Remembered /\ Taken
  BY CopyOf DEF Init, UnderWay, Unmade, Remembered, Taken, Done
<1>3. Refusals /\ RefusedWithdrawn
  BY CopyOf DEF Init, Refusals, RefusedWithdrawn
<1> QED
  BY <1>1, <1>2, <1>3 DEF CopyInv

\* After 354 every recipient has a route.
LEMMA Routed ==
  ASSUME DialogueInv, NEW c \in Conns, DoData(c)
  PROVE  Split(Named(c)) \subseteq Routes
<1>1. rcpts[c] \in Seq(Said)
  BY DEF DialogueInv, DialogueShape
<1>2. \A i \in DOMAIN rcpts[c] : rcpts[c][i].to \in Recipients
  <2>1. \A i \in DOMAIN rcpts[c] : rcpts[c][i] \in Said
    BY <1>1
  <2> QED
    BY <2>1 DEF Said
<1>3. /\ DOMAIN Named(c) = DOMAIN rcpts[c]
      /\ \A i \in DOMAIN rcpts[c] : Named(c)[i] = rcpts[c][i].to
  BY DEF Named
<1>4. \A r \in ToSet(Named(c)) : r \in Recipients
  BY <1>2, <1>3 DEF ToSet
<1>5. \A r \in ToSet(Named(c)) : RouteOf[r] # NoRoute
  BY DEF DoData
<1> QED
  BY <1>4, <1>5 DEF Split, Routes

\* A command keeps the copies' invariant: it may start a message, or end the
\* session, and touches no copy.
LEMMA CopyCommandStep ==
  ASSUME DialogueInv, CopyInv, NEW c \in Conns,
         \/ Pipeline(c) \/ DoHelo(c) \/ DoStartTLS(c) \/ DoMail(c)
         \/ \E r \in Recipients : DoRcpt(c, r)
         \/ Rset(c) \/ Drop(c) \/ DoData(c)
  PROVE  CopyInv'
<1> USE DEF CopyInv, CopyShape, UnderWay, Refusals, Unmade, Remembered, Taken,
            Done, Current
<1>1. CASE DoData(c)
  <2>1. /\ UNCHANGED <<committed, copy, row, told, claimed, kept, unwritten>>
        /\ pc[c] = "cmd" /\ pc' = [pc EXCEPT ![c] = "data"]
        /\ txn[c] < MaxData /\ txn' = [txn EXCEPT ![c] = @ + 1]
        /\ groups' \in [Conns -> SUBSET Routes]
        /\ \A d \in Conns : d # c => groups'[d] = groups[d]
    <3>1. Split(Named(c)) \subseteq Routes
      BY <1>1, Routed
    <3>2. groups' = [groups EXCEPT ![c] = Split(Named(c))]
      BY <1>1 DEF DoData
    <3>3. /\ groups' \in [Conns -> SUBSET Routes]
          /\ \A d \in Conns : d # c => groups'[d] = groups[d]
      BY <3>1, <3>2
    <3> QED
      BY <1>1, <3>3 DEF DoData, Read, queue
  <2>2. CopyShape'
    BY <2>1, SessionAssumption
  <2>3. UnderWay' /\ Taken'
    BY <2>1, SessionAssumption
  <2>4. Refusals'
    BY <2>1, CopyOf, SessionAssumption
  <2>5. ASSUME NEW k \in Copies, Number(k) >= txn'[Owner(k)]
        PROVE  copy[k] = "none" \/ Owner(k) # c
    BY <2>1, <2>5, CopyOf, SessionAssumption
  <2>6. ASSUME NEW k \in Copies, Owner(k) # c
        PROVE  /\ Owner(k) \in Conns
               /\ UNCHANGED <<txn[Owner(k)], pc[Owner(k)], groups[Owner(k)]>>
    BY <2>1, <2>6, CopyOf
  <2>7. Unmade'
    <3> SUFFICES ASSUME NEW k \in Copies,
                        \/ Number(k) > txn'[Owner(k)]
                        \/ Number(k) = txn'[Owner(k)]
                             /\ pc'[Owner(k)] = "data"
                        \/ Number(k) = txn'[Owner(k)]
                             /\ pc'[Owner(k)] = "commit"
                             /\ k[2] \in groups'[Owner(k)]
                 PROVE  copy'[k] = "none"
      OBVIOUS
    <3>1. CASE Owner(k) = c
      BY <2>1, <2>2, <2>5, <3>1, CopyOf
    <3>2. CASE Owner(k) # c
      BY <2>1, <2>6, <3>2
    <3> QED
      BY <3>1, <3>2
  <2>8. Remembered'
    BY <2>1, <2>5, <2>6, CopyOf
  <2>9. RefusedWithdrawn'
    BY <2>1, RefusedByCopy
  <2> QED
    BY <2>2, <2>3, <2>4, <2>7, <2>8, <2>9
<1>2. CASE ~DoData(c)
  <2>1. /\ UNCHANGED <<txn, groups, committed, copy, row, told, claimed, kept,
                       unwritten>>
        /\ \/ pc' = pc
           \/ pc[c] = "cmd" /\ pc' = [pc EXCEPT ![c] = "closed"]
    BY <1>2 DEF Pipeline, DoHelo, DoStartTLS, DoMail, DoRcpt, Rset, Drop, Read,
                data, queue, history
  <2>2. CopyShape' /\ UnderWay' /\ Taken'
    BY <2>1
  <2>3. Refusals'
    BY <2>1, CopyOf
  <2>4. Unmade' /\ Remembered'
    BY <2>1, CopyOf
  <2>5. RefusedWithdrawn'
    BY <2>1, RefusedByCopy
  <2> QED
    BY <2>2, <2>3, <2>4, <2>5
<1> QED
  BY <1>1, <1>2

\* So does the end of the data phase, where there is no copy yet.
LEMMA CopyStageStep ==
  ASSUME CopyInv, NEW c \in Conns,
         \/ StageError(c)
         \/ \E end \in {"crlf", "bare", "eof"} : StageMessage(c, end)
  PROVE  CopyInv'
<1> USE DEF CopyInv, CopyShape, UnderWay, Refusals, Unmade, Remembered, Taken,
            Done, Current
<1>1. CASE StageError(c)
  <2>1. /\ UNCHANGED <<txn, committed, copy, row, claimed, kept, unwritten>>
        /\ pc[c] = "data" /\ pc' = [pc EXCEPT ![c] = "closed"]
        /\ groups' = [groups EXCEPT ![c] = {}]
        /\ told' = [told EXCEPT ![<<c, txn[c]>>] = "refused"]
    BY <1>1 DEF StageError, queue
  <2>2. <<c, txn[c]>> \in Txns
    BY <2>1, CopyOf
  <2>3. CopyShape' /\ UnderWay' /\ Unmade' /\ Remembered' /\ Taken'
    BY <2>1, CopyOf
  <2>4. Refusals'
    BY <2>1, <2>2, CopyOf
  <2>5. RefusedWithdrawn'
    BY <2>1, <2>2, RefusedByCopy, CopyOf
  <2> QED
    BY <2>3, <2>4, <2>5
<1>2. ASSUME NEW end \in {"crlf", "bare", "eof"}, StageMessage(c, end)
      PROVE  CopyInv'
  <2>1. /\ UNCHANGED <<txn, groups, committed, copy, row, told, claimed, kept,
                       unwritten>>
        /\ pc[c] = "data" /\ pc' = [pc EXCEPT ![c] = "commit"]
    BY <1>2 DEF StageMessage, queue, history
  <2>2. /\ CopyShape' /\ UnderWay' /\ Refusals' /\ Unmade' /\ Remembered'
        /\ Taken'
    BY <2>1, CopyOf
  <2>3. RefusedWithdrawn'
    BY <2>1, RefusedByCopy
  <2> QED
    BY <2>2, <2>3
<1> QED
  BY <1>1, <1>2

\* A copy appended to a list is on it, with those that were.
LEMMA ListedAppend ==
  ASSUME NEW s \in Seq(Copies), NEW k \in Copies
  PROVE  /\ Append(s, k) \in Seq(Copies) /\ Listed(k, Append(s, k))
         /\ \A j : Listed(j, s) => Listed(j, Append(s, k))
  BY AppendProperties DEF Listed

\* Only the head of a list is no longer on its tail.
LEMMA ListedTail ==
  ASSUME NEW s \in Seq(Copies), s # <<>>
  PROVE  /\ Head(s) \in Copies /\ Tail(s) \in Seq(Copies)
         /\ \A j : Listed(j, s) => j = Head(s) \/ Listed(j, Tail(s))
<1>1. /\ Head(s) \in Copies /\ Tail(s) \in Seq(Copies)
      /\ Len(Tail(s)) = Len(s) - 1 /\ Len(s) \in Nat
      /\ \A i \in 1..Len(Tail(s)) : Tail(s)[i] = s[i + 1]
  BY HeadTailProperties
<1>2. ASSUME NEW j, NEW i \in 1..Len(s), s[i] = j
      PROVE  j = Head(s) \/ Listed(j, Tail(s))
  <2>1. CASE i = 1
    BY <1>2, <2>1
  <2>2. CASE i # 1
    <3>1. i - 1 \in 1..Len(Tail(s)) /\ Tail(s)[i - 1] = j
      BY <1>1, <1>2, <2>2
    <3> QED
      BY <3>1 DEF Listed
  <2> QED
    BY <2>1, <2>2
<1> QED
  BY <1>1, <1>2 DEF Listed

\* The commit of a copy keeps the copies' invariant: it is listed.
LEMMA CopyCommitStep ==
  ASSUME CopyInv, NEW c \in Conns, NEW r \in Routes, CommitCopy(c, r)
  PROVE  CopyInv'
<1> DEFINE k == <<<<c, txn[c]>>, r>>
<1> USE DEF CopyInv, CopyShape, UnderWay, Refusals, Unmade, Remembered, Taken,
            Done, Current
<1>1. /\ pc[c] = "commit" /\ r \in groups[c]
      /\ groups' = [groups EXCEPT ![c] = @ \ {r}]
      /\ copy' = [copy EXCEPT ![k] = "queued"]
      /\ committed' = [committed EXCEPT ![c] = Append(@, k)]
      /\ UNCHANGED <<pc, txn, told, claimed, kept>>
  BY DEF CommitCopy, IsNext, history
<1>2. /\ k \in Copies /\ Owner(k) = c /\ Number(k) = txn[c] /\ k[2] = r
      /\ k[1] = <<c, txn[c]>> /\ <<c, txn[c]>> \in Txns
  BY <1>1, CopyOf DEF Owner, Number
<1> HIDE DEF k
<1>3. copy[k] = "none" /\ told[k[1]] # "refused"
  BY <1>1, <1>2, CopyOf
<1>4. CopyShape'
  BY <1>1, <1>2, ListedAppend
<1>5. UnderWay' /\ Refusals' /\ Taken'
  BY <1>1, <1>2
<1>6. Unmade'
  BY <1>1, <1>2, CopyOf
<1>7. Remembered'
  <2> SUFFICES ASSUME NEW j \in Copies, Current(j),
                      pc[Owner(j)] \in {"commit", "withdraw"}
               PROVE  Done(j)' \/ Listed(j, committed'[Owner(j)])
    BY <1>1
  <2>1. CASE j = k
    BY <1>1, <1>2, <2>1, ListedAppend
  <2>2. CASE j # k
    <3>1. Done(j) => Done(j)'
      BY <1>1, <1>2, <2>2
    <3>2. Listed(j, committed[Owner(j)]) => Listed(j, committed'[Owner(j)])
      BY <1>1, <1>2, CopyOf, ListedAppend
    <3> QED
      BY <3>1, <3>2
  <2> QED
    BY <2>1, <2>2
<1>8. RefusedWithdrawn'
  BY <1>1, <1>2, <1>3, RefusedByCopy
<1> QED
  BY <1>4, <1>5, <1>6, <1>7, <1>8

\* So does a withdrawal: what stays behind was claimed, or its Discard failed.
LEMMA CopyWithdrawStep ==
  ASSUME CopyInv, NEW c \in Conns, NEW removed \in BOOLEAN,
         Withdraw(c, removed)
  PROVE  CopyInv'
<1> USE DEF CopyInv, CopyShape, UnderWay, Refusals, Unmade, Remembered, Taken,
            Done, Current
<1>1. PICK k \in Copies : k = Head(committed[c])
  BY ListedTail DEF Withdraw
<1> DEFINE can == copy[k] \in {"queued", "failed"}
<1>2. /\ pc[c] = "withdraw" /\ committed[c] # <<>>
      /\ committed' = [committed EXCEPT ![c] = Tail(@)]
      /\ copy' = [copy EXCEPT ![k] = IF can /\ removed THEN "withdrawn" ELSE @]
      /\ kept' = IF can /\ ~removed THEN kept \cup {k} ELSE kept
      /\ UNCHANGED <<pc, txn, groups, told, claimed>>
  BY <1>1 DEF Withdraw
<1>3. /\ Tail(committed[c]) \in Seq(Copies)
      /\ \A j : Listed(j, committed[c])
                => j = k \/ Listed(j, Tail(committed[c]))
  BY <1>1, <1>2, ListedTail
<1>4. copy[k] \in {"none", "queued", "leased", "sent", "failed", "withdrawn"}
  BY <1>3
<1>5. /\ Done(k)'
      /\ \A j \in Copies : Done(j) => Done(j)'
  BY <1>2, <1>3, <1>4
<1>6. /\ \A j \in Copies : copy[j] = "none" => copy'[j] = "none"
      /\ \A j \in Copies : copy'[j] \in {"leased", "sent", "failed"}
                            => copy[j] \in {"leased", "sent", "failed"}
  BY <1>2, <1>3, <1>4
<1>7. CopyShape'
  BY <1>2, <1>3
<1>8. UnderWay' /\ Refusals' /\ Unmade' /\ Taken'
  BY <1>2, <1>6, CopyOf
<1>9. Remembered'
  BY <1>2, <1>3, <1>5, CopyOf
<1>10. RefusedWithdrawn'
  BY <1>2, <1>5, RefusedByCopy
<1> QED
  BY <1>7, <1>8, <1>9, <1>10

\* The writes to the history touch no copy.
LEMMA CopyJournalStep ==
  ASSUME CopyInv, NEW c \in Conns, NEW written \in BOOLEAN,
         JournalAccepted(c, written) \/ RecordRemoval(c, written)
  PROVE  CopyInv'
<1>1. UNCHANGED <<pc, txn, groups, committed, copy, told, claimed, kept>>
  BY DEF JournalAccepted, RecordRemoval, data
<1> QED
  BY <1>1 DEF CopyInv, CopyShape, UnderWay, Refusals, Unmade, Remembered,
              Taken, Done, Current, RefusedWithdrawn

\* So do the replies to DATA: a refusal comes when the list is empty.
LEMMA CopyReplyStep ==
  ASSUME CopyInv, NEW c \in Conns,
         \/ CommitError(c) \/ WithdrawDone(c)
         \/ \E heard \in BOOLEAN : DoneData(c, heard)
  PROVE  CopyInv'
<1> USE DEF CopyInv, CopyShape, UnderWay, Refusals, Unmade, Remembered, Taken,
            Done, Current
<1>1. CASE CommitError(c)
  <2>1. /\ pc[c] = "commit" /\ pc' = [pc EXCEPT ![c] = "withdraw"]
        /\ groups' = [groups EXCEPT ![c] = {}]
        /\ UNCHANGED <<txn, committed, copy, row, told, claimed, kept,
                       unwritten>>
    BY <1>1 DEF CommitError, queue, history
  <2>2. CopyShape' /\ UnderWay' /\ Taken'
    BY <2>1
  <2>3. Refusals' /\ Unmade'
    BY <2>1, CopyOf
  <2>4. Remembered'
    BY <2>1, CopyOf
  <2>5. RefusedWithdrawn'
    BY <2>1, RefusedByCopy
  <2> QED
    BY <2>2, <2>3, <2>4, <2>5
<1>2. CASE WithdrawDone(c)
  <2>1. /\ pc[c] = "withdraw" /\ committed[c] = <<>>
        /\ pc' = [pc EXCEPT ![c] = "closed"]
        /\ told' = [told EXCEPT ![<<c, txn[c]>>] = "refused"]
        /\ UNCHANGED <<txn, groups, committed, copy, row, claimed, kept,
                       unwritten>>
    BY <1>2 DEF WithdrawDone, data, queue
  <2>2. <<c, txn[c]>> \in Txns
    BY <2>1, CopyOf
  <2>3. CopyShape' /\ UnderWay' /\ Taken'
    BY <2>1, <2>2
  <2>4. Refusals' /\ Unmade' /\ Remembered'
    BY <2>1, <2>2, CopyOf
  <2>5. ASSUME NEW k \in Copies, k[1] = <<c, txn[c]>>
        PROVE  Done(k)
    <3>1. Owner(k) = c /\ Number(k) = txn[c]
      BY <2>5 DEF Owner, Number
    <3>2. ~Listed(k, <<>>)
      BY DEF Listed
    <3> QED
      BY <2>1, <3>1, <3>2
  <2>6. RefusedWithdrawn'
    BY <2>1, <2>2, <2>5, RefusedByCopy, CopyOf
  <2> QED
    BY <2>3, <2>4, <2>6
<1>3. ASSUME NEW heard \in BOOLEAN, DoneData(c, heard)
      PROVE  CopyInv'
  <2>1. /\ pc[c] = "commit"
        /\ \/ pc' = [pc EXCEPT ![c] = "cmd"]
           \/ pc' = [pc EXCEPT ![c] = "closed"]
        /\ \/ told' = told
           \/ told' = [told EXCEPT ![<<c, txn[c]>>] = "accepted"]
        /\ committed' = [committed EXCEPT ![c] = <<>>]
        /\ UNCHANGED <<txn, groups, copy, row, claimed, kept, unwritten>>
    BY <1>3 DEF DoneData, queue
  <2>2. <<c, txn[c]>> \in Txns /\ <<>> \in Seq(Copies)
    BY <2>1, CopyOf
  <2>3. ASSUME NEW t \in Txns, told'[t] = "refused"
        PROVE  told[t] = "refused" /\ t # <<c, txn[c]>>
    <3>1. told[t] = "refused"
      BY <2>1, <2>2, <2>3
    <3>2. ~(t[1] = c /\ t[2] = txn[c])
      BY <2>1, <3>1
    <3> QED
      BY <3>1, <3>2
  <2>4. CopyShape'
    BY <2>1, <2>2
  <2>5. UnderWay' /\ Taken'
    BY <2>1
  <2>6. Refusals'
    BY <2>1, <2>3, CopyOf
  <2>7. Unmade' /\ Remembered'
    BY <2>1, CopyOf
  <2>8. RefusedWithdrawn'
    BY <2>1, <2>3, RefusedByCopy, CopyOf
  <2> QED
    BY <2>4, <2>5, <2>6, <2>7, <2>8
<1> QED
  BY <1>1, <1>2, <1>3

\* So do the workers: what they take is claimed from then on.
LEMMA CopyWorkerStep ==
  ASSUME CopyInv, NEW k \in Copies, Claim(k) \/ Settle(k)
  PROVE  CopyInv'
<1> USE DEF CopyInv, CopyShape, UnderWay, Refusals, Unmade, Remembered, Taken,
            Done, Current
<1>1. /\ copy[k] \in {"queued", "leased"}
      /\ \E s \in {"queued", "leased", "sent", "failed"} :
           copy' = [copy EXCEPT ![k] = s]
      /\ claimed \subseteq claimed' /\ k \in claimed'
      /\ UNCHANGED <<pc, txn, groups, committed, row, told, kept, unwritten>>
  BY DEF Claim, Settle, Moves, data
<1>2. \A j \in Copies :
        /\ copy[j] = "none" => copy'[j] = "none"
        /\ Done(j) => Done(j)'
  BY <1>1
<1>3. CopyShape' /\ UnderWay' /\ Refusals'
  BY <1>1
<1>4. Unmade' /\ Remembered'
  BY <1>1, <1>2
<1>5. Taken'
  BY <1>1
<1>6. RefusedWithdrawn'
  BY <1>1, <1>2, RefusedByCopy
<1> QED
  BY <1>3, <1>4, <1>5, <1>6

\* Every step keeps both invariants.
LEMMA CopyStep ==
  DialogueInv /\ CopyInv /\ [Next]_vars => CopyInv'
<1> SUFFICES ASSUME DialogueInv, CopyInv, [Next]_vars
             PROVE  CopyInv'
  OBVIOUS
<1>1. CASE UNCHANGED vars
  BY <1>1 DEF vars, CopyInv, CopyShape, UnderWay, Refusals, Unmade, Remembered,
              Taken, Done, Current, RefusedWithdrawn
<1>2. CASE Next
  BY <1>2, CopyCommandStep, CopyStageStep, CopyCommitStep, CopyWithdrawStep,
     CopyJournalStep, CopyReplyStep, CopyWorkerStep DEF Next
<1> QED
  BY <1>1, <1>2

\* A refused message leaves no copy behind but those a worker had already got
\* hold of and those whose Discard failed.  (commitCopies, withdraw.)
THEOREM RefusalWithdraws == Spec => []RefusedWithdrawn
<1>1. CopyInv => RefusedWithdrawn
  BY DEF CopyInv
<1> QED
  BY <1>1, DialogueInit, DialogueStep, CopyInit, CopyStep, PTL DEF Spec

\* withdraw takes no copy from under a delivery worker.
THEOREM SendsUndisturbed == Spec => InFlightKept
<1>1. ASSUME DialogueInv, CopyInv, Next,
             NEW k \in Copies, copy[k] = "leased", copy'[k] = "withdrawn"
      PROVE  FALSE
  <2> USE <1>1 DEF CopyInv, CopyShape, queue, history, data
  <2>1. ASSUME NEW c \in Conns, NEW r \in Routes, CommitCopy(c, r)
        PROVE  FALSE
    BY <2>1 DEF CommitCopy
  <2>2. ASSUME NEW c \in Conns, NEW removed \in BOOLEAN, Withdraw(c, removed)
        PROVE  FALSE
    BY <2>2 DEF Withdraw
  <2>3. ASSUME NEW j \in Copies, Claim(j) \/ Settle(j)
        PROVE  FALSE
    BY <2>3 DEF Claim, Settle, Moves
  <2>4. ASSUME UNCHANGED copy
        PROVE  FALSE
    BY <2>4
  <2> HIDE DEF CopyInv, CopyShape
  <2> QED
    BY <2>1, <2>2, <2>3, <2>4
    DEF Next, Pipeline, DoHelo, DoStartTLS, DoMail, DoRcpt, Rset, Drop, DoData,
        StageError, StageMessage, CommitError, DoneData, WithdrawDone,
        JournalAccepted, RecordRemoval
<1>2. DialogueInv /\ CopyInv /\ [Next]_vars
        => [\A k \in Copies :
              copy[k] = "leased" => copy'[k] # "withdrawn"]_vars
  BY <1>1
<1> QED
  BY <1>2, DialogueInit, DialogueStep, CopyInit, CopyStep, PTL
  DEF Spec, InFlightKept

-----------------------------------------------------------------------------
(* The 250: what it covers.                                                *)

\* The copy of a route with recipients is made for them, in the order given,
\* and is neither missing nor withdrawn; a route without has none.
Filed(k) ==
  IF k[2] \in Split(named[k[1]])
    THEN to[k] = Members(named[k[1]], k[2])
           /\ copy[k] \notin {"none", "withdrawn"}
    ELSE copy[k] = "none"

\* to and named are functions; what their values are is not needed.
CoverShape ==
  /\ to = [k \in Copies |-> to[k]]
  /\ named = [t \in Txns |-> named[t]]

\* Only copies of the message at hand are listed for a withdrawal.
OwnCopies ==
  \A c \in Conns, k \in Copies :
    Listed(k, committed[c]) => k[1] = <<c, txn[c]>>

\* While a message is received and committed, a copy is filed unless its
\* group is still to come.
Filing ==
  \A k \in Copies :
    Current(k) /\ pc[Owner(k)] \in {"data", "commit"} =>
      k[2] \in groups[Owner(k)] \/ Filed(k)

\* A message that was acknowledged is over, and filed.
Acked ==
  \A t \in Txns : told[t] = "accepted" =>
    /\ t[2] <= txn[t[1]]
    /\ t[2] = txn[t[1]] => pc[t[1]] \in {"cmd", "closed"}
    /\ \A k \in Copies : k[1] = t => Filed(k)

CoverInv == CoverShape /\ OwnCopies /\ Filing /\ Acked

\* The invariant says what the property asks for.
LEMMA CoverSays == CoverInv => AckCovers
<1> SUFFICES ASSUME CoverInv, NEW t \in Txns, told[t] = "accepted",
                    NEW r \in Routes
             PROVE
        IF \E n \in ToSet(named[t]) : RouteOf[n] = r
          THEN /\ to[<<t, r>>] = SelectSeq(named[t], LAMBDA n : RouteOf[n] = r)
               /\ copy[<<t, r>>] \notin {"none", "withdrawn"}
          ELSE copy[<<t, r>>] = "none"
  BY DEF AckCovers
<1>1. Filed(<<t, r>>)
  BY CopyOf DEF CoverInv, Acked
<1>2. r \in Split(named[t]) <=> \E n \in ToSet(named[t]) : RouteOf[n] = r
  BY DEF Split
<1>3. Members(named[t], r) = SelectSeq(named[t], LAMBDA n : RouteOf[n] = r)
  BY DEF Members
<1>4. IF r \in Split(named[t])
        THEN to[<<t, r>>] = Members(named[t], r)
               /\ copy[<<t, r>>] \notin {"none", "withdrawn"}
        ELSE copy[<<t, r>>] = "none"
  BY <1>1 DEF Filed
<1>5. CASE r \in Split(named[t])
  <2>1. to[<<t, r>>] = Members(named[t], r)
          /\ copy[<<t, r>>] \notin {"none", "withdrawn"}
    BY <1>4, <1>5
  <2>2. to[<<t, r>>] = SelectSeq(named[t], LAMBDA n : RouteOf[n] = r)
    BY <1>3, <2>1, Zenon
  <2> QED
    BY <1>2, <1>5, <2>1, <2>2, Zenon
<1>6. CASE r \notin Split(named[t])
  BY <1>2, <1>4, <1>6, Zenon
<1> QED
  BY <1>5, <1>6, Zenon

\* Nothing is acknowledged when nothing has been received.
LEMMA CoverInit == Init => CoverInv
<1> SUFFICES ASSUME Init
             PROVE  CoverInv
  OBVIOUS
<1>1. CoverShape /\ Acked
  BY DEF Init, CoverShape, Acked
<1>2. OwnCopies
  <2>1. \A k : ~Listed(k, <<>>)
    BY DEF Listed
  <2> QED
    BY <2>1 DEF Init, OwnCopies
<1>3. Filing
  BY CopyOf DEF Init, Filing
<1> QED
  BY <1>1, <1>2, <1>3 DEF CoverInv

\* A copy stays filed while it is neither made again nor withdrawn.
LEMMA StaysFiled ==
  ASSUME NEW k, Filed(k), UNCHANGED <<to[k], named[k[1]]>>,
         copy[k] = "none" <=> copy'[k] = "none",
         copy[k] = "withdrawn" <=> copy'[k] = "withdrawn"
  PROVE  Filed(k)'
  BY DEF Filed, Split

\* A command starts a message with every group to come, or leaves the
\* messages alone.
LEMMA CoverCommandStep ==
  ASSUME CopyInv, CoverInv, NEW c \in Conns,
         \/ Pipeline(c) \/ DoHelo(c) \/ DoStartTLS(c) \/ DoMail(c)
         \/ \E r \in Recipients : DoRcpt(c, r)
         \/ Rset(c) \/ Drop(c) \/ DoData(c)
  PROVE  CoverInv'
<1> USE DEF CoverInv, CoverShape, OwnCopies, Filing, Acked, CopyInv,
            CopyShape, UnderWay
<1>1. CASE DoData(c)
  <2>1. /\ UNCHANGED <<committed, copy, to, told>>
        /\ pc[c] = "cmd" /\ pc' = [pc EXCEPT ![c] = "data"]
        /\ txn[c] < MaxData /\ txn' = [txn EXCEPT ![c] = @ + 1]
        /\ named' = [named EXCEPT ![<<c, txn'[c]>>] = Named(c)]
        /\ groups' = [groups EXCEPT ![c] = Split(Named(c))]
    BY <1>1 DEF DoData, Read, queue
  <2>2. /\ txn[c] \in 0..MaxData /\ txn'[c] = txn[c] + 1
        /\ MaxData \in Nat
    BY <2>1, SessionAssumption
  <2>3. <<c, txn'[c]>> \in Txns
    <3>1. txn'[c] \in 1..MaxData
      BY ONLY <2>1, <2>2
    <3> QED
      BY ONLY <3>1, CopyOf, c \in Conns
  <2>4. \A t \in Txns : told[t] = "accepted" => t # <<c, txn'[c]>>
    <3>1. \A n \in 0..MaxData : ~(n + 1 <= n)
      BY <2>2
    <3> QED
      BY <2>2, <3>1
  <2>5. \A k \in Copies : k[1] # <<c, txn'[c]>> /\ Filed(k) => Filed(k)'
    BY <2>1, <2>3, CopyOf, StaysFiled
  <2>6. CoverShape'
    BY <2>1, <2>3
  <2>7. OwnCopies'
    <3>1. \A k : ~Listed(k, <<>>)
      BY DEF Listed
    <3> QED
      BY <2>1, <3>1
  <2>8. Filing'
    <3> SUFFICES ASSUME NEW k \in Copies, Current(k)',
                        pc'[Owner(k)] \in {"data", "commit"}
                 PROVE  k[2] \in groups'[Owner(k)] \/ Filed(k)'
      OBVIOUS
    <3>1. CASE Owner(k) = c
      <4>1. k[1] = <<c, txn'[c]>> /\ Number(k) > txn[c]
        BY <2>2, <3>1, CopyOf DEF Current
      <4>2. copy'[k] = "none" /\ named'[k[1]] = Named(c)
        BY <2>1, <2>3, <3>1, <4>1 DEF Unmade
      <4>3. groups'[c] = Split(Named(c))
        BY <2>1
      <4>4. Split(named[k[1]])' = Split(Named(c))
        BY <4>2 DEF Split
      <4> QED
        BY <3>1, <4>2, <4>3, <4>4 DEF Filed
    <3>2. CASE Owner(k) # c
      <4>1. /\ Current(k) /\ pc[Owner(k)] \in {"data", "commit"}
            /\ groups'[Owner(k)] = groups[Owner(k)]
            /\ k[1] # <<c, txn'[c]>>
        BY <2>1, <3>2, CopyOf DEF Current
      <4> QED
        BY <2>5, <4>1
    <3> QED
      BY <3>1, <3>2
  <2>9. Acked'
    <3> SUFFICES ASSUME NEW t \in Txns, told'[t] = "accepted"
                 PROVE  /\ t[2] <= txn'[t[1]]
                        /\ t[2] = txn'[t[1]] => pc'[t[1]] \in {"cmd", "closed"}
                        /\ \A k \in Copies : k[1] = t => Filed(k)'
      OBVIOUS
    <3>1. /\ told[t] = "accepted" /\ t # <<c, txn'[c]>>
          /\ t = <<t[1], t[2]>> /\ t[1] \in Conns /\ t[2] \in 1..MaxData
      BY <2>1, <2>4, CopyOf
    <3>2. \A k \in Copies : k[1] = t => Filed(k)'
      BY <2>5, <3>1
    <3>3. t[2] <= txn'[t[1]]
      <4>1. t[2] <= txn[t[1]] /\ txn[t[1]] \in 0..MaxData
        BY <3>1
      <4>2. txn'[t[1]] \in {txn[t[1]], txn[t[1]] + 1}
        BY <2>1, <3>1
      <4> QED
        BY <2>2, <3>1, <4>1, <4>2
    <3>4. t[2] = txn'[t[1]] => pc'[t[1]] \in {"cmd", "closed"}
      <4>1. CASE t[1] = c
        BY <3>1, <4>1
      <4>2. CASE t[1] # c
        BY <2>1, <3>1, <4>2
      <4> QED
        BY <4>1, <4>2
    <3> QED
      BY <3>2, <3>3, <3>4
  <2> QED
    BY <2>6, <2>7, <2>8, <2>9
<1>2. CASE \/ Pipeline(c) \/ DoHelo(c) \/ DoStartTLS(c) \/ DoMail(c)
           \/ \E r \in Recipients : DoRcpt(c, r)
           \/ Rset(c) \/ Drop(c)
  <2>1. /\ UNCHANGED <<txn, groups, committed, copy, to, told, named>>
        /\ pc' = pc \/ (pc[c] = "cmd" /\ pc' = [pc EXCEPT ![c] = "closed"])
    BY <1>2 DEF Pipeline, DoHelo, DoStartTLS, DoMail, DoRcpt, Rset, Drop,
                Read, data, queue, history
  <2>2. \A k \in Copies : Filed(k)' <=> Filed(k)
    BY <2>1 DEF Filed, Split
  <2>3. CoverShape' /\ OwnCopies'
    BY <2>1
  <2>4. Filing'
    <3> SUFFICES ASSUME NEW k \in Copies, Current(k)',
                        pc'[Owner(k)] \in {"data", "commit"}
                 PROVE  k[2] \in groups'[Owner(k)] \/ Filed(k)'
      OBVIOUS
    <3>1. Current(k) /\ Owner(k) \in Conns
      BY <2>1, CopyOf DEF Current
    <3>2. pc[Owner(k)] \in {"data", "commit"}
      BY <2>1, <3>1
    <3> QED
      BY <2>1, <2>2, <3>1, <3>2
  <2>5. Acked'
    <3>1. \A t \in Txns : pc[t[1]] \in {"cmd", "closed"} =>
                           pc'[t[1]] \in {"cmd", "closed"}
      BY <2>1, CopyOf
    <3> QED
      BY <2>1, <2>2, <3>1
  <2> QED
    BY <2>3, <2>4, <2>5
<1> QED
  BY <1>1, <1>2

\* The end of the data phase makes no copy.
LEMMA CoverStageStep ==
  ASSUME CopyInv, CoverInv, NEW c \in Conns,
         \/ StageError(c)
         \/ \E end \in {"crlf", "bare", "eof"} : StageMessage(c, end)
  PROVE  CoverInv'
<1> USE DEF CoverInv, CoverShape, OwnCopies, Filing, Acked, CopyInv,
            CopyShape, UnderWay
<1>1. /\ UNCHANGED <<txn, committed, copy, to, named>>
      /\ pc[c] = "data"
      /\ \/ /\ pc' = [pc EXCEPT ![c] = "closed"]
            /\ groups' = [groups EXCEPT ![c] = {}]
            /\ told' = [told EXCEPT ![<<c, txn[c]>>] = "refused"]
         \/ /\ pc' = [pc EXCEPT ![c] = "commit"]
            /\ UNCHANGED <<groups, told>>
  BY DEF StageError, StageMessage, queue, history
<1>2. \A k \in Copies : Filed(k)' <=> Filed(k)
  BY <1>1 DEF Filed, Split
<1>3. CoverShape' /\ OwnCopies'
  BY <1>1
<1>4. Filing'
  <2> SUFFICES ASSUME NEW k \in Copies, Current(k)',
                      pc'[Owner(k)] \in {"data", "commit"}
               PROVE  k[2] \in groups'[Owner(k)] \/ Filed(k)'
    OBVIOUS
  <2>1. Current(k) /\ Owner(k) \in Conns
    BY <1>1, CopyOf DEF Current
  <2>2. /\ pc[Owner(k)] \in {"data", "commit"}
        /\ groups'[Owner(k)] = groups[Owner(k)]
    BY <1>1, <2>1
  <2> QED
    BY <1>2, <2>1, <2>2
<1>5. Acked'
  <2>1. \A t \in Txns : told'[t] = "accepted" => told[t] = "accepted"
    BY <1>1
  <2>2. \A t \in Txns : told[t] = "accepted" =>
          ~(t[1] = c /\ t[2] = txn[c])
    BY <1>1
  <2>3. \A t \in Txns : t[1] # c => pc'[t[1]] = pc[t[1]]
    BY <1>1, CopyOf
  <2> QED
    BY <1>1, <1>2, <2>1, <2>2, <2>3
<1> QED
  BY <1>3, <1>4, <1>5

\* A commit files the copy of its group.
LEMMA CoverCommitStep ==
  ASSUME CopyInv, CoverInv, NEW c \in Conns, NEW r \in Routes,
         CommitCopy(c, r)
  PROVE  CoverInv'
<1> USE DEF CoverInv, CoverShape, OwnCopies, Filing, Acked, CopyInv,
            CopyShape, UnderWay
<1>1. PICK k \in Copies : k = <<<<c, txn[c]>>, r>>
  BY CopyOf DEF CommitCopy
<1>2. /\ Owner(k) = c /\ Number(k) = txn[c] /\ k[2] = r
      /\ k[1] = <<c, txn[c]>>
  BY <1>1 DEF Owner, Number
<1>3. /\ pc[c] = "commit"
      /\ groups' = [groups EXCEPT ![c] = @ \ {r}]
      /\ copy' = [copy EXCEPT ![k] = "queued"]
      /\ to' = [to EXCEPT ![k] = Members(named[k[1]], r)]
      /\ committed' = [committed EXCEPT ![c] = Append(@, k)]
      /\ UNCHANGED <<pc, txn, told, named>>
  BY <1>1 DEF CommitCopy, history
<1>4. Filed(k)'
  <2>1. copy'[k] = "queued" /\ to'[k] = Members(named[k[1]], k[2])
    BY <1>2, <1>3
  <2>2. k[2] \in Split(named[k[1]])
    <3>1. \E i \in DOMAIN named[k[1]] : RouteOf[named[k[1]][i]] = r
      BY <1>2 DEF CommitCopy, IsNext
    <3> QED
      BY <1>2, <3>1 DEF Split, ToSet
  <2>3. named' = named
    BY <1>3
  <2> QED
    BY <2>1, <2>2, <2>3 DEF Filed, Split
<1>5. \A j \in Copies : j # k /\ Filed(j) => Filed(j)'
  BY <1>3, StaysFiled
<1>6. CoverShape'
  BY <1>3
<1>7. OwnCopies'
  <2>1. \A j : Listed(j, Append(committed[c], k)) =>
               j = k \/ Listed(j, committed[c])
    BY AppendProperties DEF Listed
  <2> QED
    BY <1>2, <1>3, <2>1
<1>8. Filing'
  <2> SUFFICES ASSUME NEW j \in Copies, Current(j),
                      pc[Owner(j)] \in {"data", "commit"}
               PROVE  j[2] \in groups'[Owner(j)] \/ Filed(j)'
    BY <1>3 DEF Current
  <2>1. CASE j = k
    BY <1>4, <2>1
  <2>2. CASE j # k
    <3>1. j[2] \in groups[Owner(j)] => j[2] \in groups'[Owner(j)]
      <4>1. CASE Owner(j) = c
        <5>1. j[1] = k[1] /\ j[2] # r
          BY <1>1, <1>2, <2>2, <4>1, CopyOf DEF Current
        <5> QED
          BY <1>3, <4>1, <5>1
      <4>2. CASE Owner(j) # c
        BY <1>3, <4>2
      <4> QED
        BY <4>1, <4>2
    <3> QED
      BY <1>5, <2>2, <3>1
  <2> QED
    BY <2>1, <2>2
<1>9. Acked'
  <2>1. \A t \in Txns : told[t] = "accepted" => t # k[1]
    <3>1. \A t \in Txns : told[t] = "accepted" =>
            ~(t[1] = c /\ t[2] = txn[c])
      BY <1>2, <1>3
    <3>2. k[1][1] = c /\ k[1][2] = txn[c]
      BY <1>2, <1>3
    <3> QED
      BY <3>1, <3>2
  <2> QED
    BY <1>3, <1>5, <2>1
<1> QED
  BY <1>6, <1>7, <1>8, <1>9

\* A withdrawal takes a copy of the message at hand, which is not
\* acknowledged.
LEMMA CoverWithdrawStep ==
  ASSUME CopyInv, CoverInv, NEW c \in Conns, NEW removed \in BOOLEAN,
         Withdraw(c, removed)
  PROVE  CoverInv'
<1> USE DEF CoverInv, CoverShape, OwnCopies, Filing, Acked, CopyInv,
            CopyShape, UnderWay
<1>1. PICK k \in Copies : k = Head(committed[c])
  BY ListedTail DEF Withdraw
<1>2. /\ pc[c] = "withdraw" /\ committed[c] # <<>>
      /\ committed' = [committed EXCEPT ![c] = Tail(@)]
      /\ \A j \in Copies : j # k => copy'[j] = copy[j]
      /\ UNCHANGED <<pc, txn, groups, to, told, named>>
  BY <1>1 DEF Withdraw
<1>3. k[1] = <<c, txn[c]>>
  <2>1. Listed(k, committed[c])
    <3>1. committed[c] \in Seq(Copies) /\ committed[c] # <<>>
      BY <1>2
    <3>2. Len(committed[c]) \in Nat /\ Len(committed[c]) # 0
      BY <3>1
    <3>3. 1 \in 1..Len(committed[c]) /\ committed[c][1] = k
      BY <1>1, <3>1, <3>2
    <3> QED
      BY <3>3 DEF Listed
  <2> QED
    BY <2>1
<1>4. \A j \in Copies : j # k /\ Filed(j) => Filed(j)'
  BY <1>2, StaysFiled
<1>5. CoverShape'
  BY <1>2
<1>6. OwnCopies'
  <2>1. \A j : Listed(j, Tail(committed[c])) => Listed(j, committed[c])
    <3>1. /\ Len(Tail(committed[c])) = Len(committed[c]) - 1
          /\ Len(committed[c]) \in Nat
          /\ \A i \in 1..Len(Tail(committed[c])) :
               Tail(committed[c])[i] = committed[c][i + 1]
      BY <1>2, HeadTailProperties
    <3>2. \A i \in 1..Len(Tail(committed[c])) :
            i + 1 \in 1..Len(committed[c])
      BY <3>1
    <3> QED
      BY <3>1, <3>2 DEF Listed
  <2> QED
    BY <1>2, <2>1
<1>7. Filing'
  <2> SUFFICES ASSUME NEW j \in Copies, Current(j),
                      pc[Owner(j)] \in {"data", "commit"}
               PROVE  j[2] \in groups[Owner(j)] \/ Filed(j)'
    BY <1>2 DEF Current
  <2>1. j # k
    BY <1>2, <1>3 DEF Owner
  <2> QED
    BY <1>4, <2>1
<1>8. Acked'
  <2>1. \A t \in Txns : told[t] = "accepted" => t # k[1]
    <3>1. \A t \in Txns : told[t] = "accepted" =>
            ~(t[1] = c /\ t[2] = txn[c])
      BY <1>2, <1>3
    <3>2. k[1][1] = c /\ k[1][2] = txn[c]
      BY <1>2, <1>3
    <3> QED
      BY <3>1, <3>2
  <2>2. \A t \in Txns, j \in Copies :
          told[t] = "accepted" /\ j[1] = t => Filed(j)'
    BY <1>4, <2>1
  <2> QED
    BY <1>2, <2>2
<1> QED
  BY <1>5, <1>6, <1>7, <1>8

\* The 250 comes when no group is left, and so with every copy filed.
LEMMA CoverReplyStep ==
  ASSUME CopyInv, CoverInv, NEW c \in Conns,
         \/ CommitError(c) \/ WithdrawDone(c)
         \/ \E heard \in BOOLEAN : DoneData(c, heard)
  PROVE  CoverInv'
<1> USE DEF CoverInv, CoverShape, OwnCopies, Filing, Acked, CopyInv,
            CopyShape, UnderWay
<1>1. /\ UNCHANGED <<txn, copy, to, named>>
      /\ pc[c] \in {"commit", "withdraw"}
      /\ \E p \in {"withdraw", "closed", "cmd"} :
           pc' = [pc EXCEPT ![c] = p]
      /\ \A d \in Conns : d # c => groups'[d] = groups[d]
      /\ committed' = committed
           \/ committed' = [committed EXCEPT ![c] = <<>>]
  BY DEF CommitError, WithdrawDone, DoneData, data, queue, history
<1>2. \A k \in Copies : Filed(k)' <=> Filed(k)
  BY <1>1 DEF Filed, Split
<1>3. CoverShape'
  BY <1>1
<1>4. OwnCopies'
  <2>1. \A k : ~Listed(k, <<>>)
    BY DEF Listed
  <2>2. \A d \in Conns, k \in Copies :
          Listed(k, committed'[d]) => Listed(k, committed[d])
    <3>1. \A d \in Conns : committed'[d] \in {committed[d], <<>>}
      BY <1>1
    <3> QED
      BY <2>1, <3>1
  <2> QED
    BY <1>1, <2>2
<1>5. Filing'
  <2> SUFFICES ASSUME NEW k \in Copies, Current(k),
                      pc'[Owner(k)] \in {"data", "commit"}
               PROVE  k[2] \in groups'[Owner(k)] \/ Filed(k)
    BY <1>1, <1>2 DEF Current
  <2>1. Owner(k) \in Conns /\ Owner(k) # c
    BY <1>1, CopyOf
  <2>2. pc'[Owner(k)] = pc[Owner(k)] /\ groups'[Owner(k)] = groups[Owner(k)]
    BY <1>1, <2>1
  <2> QED
    BY <2>2
<1>6. <<c, txn[c]>> \in Txns
  BY <1>1, CopyOf
<1>7. ASSUME NEW t \in Txns, told'[t] = "accepted"
      PROVE  \/ told[t] = "accepted" /\ ~(t[1] = c /\ t[2] = txn[c])
             \/ /\ t = <<c, txn[c]>> /\ pc[c] = "commit" /\ groups[c] = {}
                /\ pc'[c] \in {"cmd", "closed"}
  <2>1. told[t] = "accepted" => ~(t[1] = c /\ t[2] = txn[c])
    BY <1>1
  <2>2. CASE CommitError(c)
    BY <1>7, <2>1, <2>2 DEF CommitError, history
  <2>3. CASE WithdrawDone(c)
    BY <1>6, <1>7, <2>1, <2>3 DEF WithdrawDone
  <2>4. ASSUME NEW heard \in BOOLEAN, DoneData(c, heard)
        PROVE  \/ told[t] = "accepted"
               \/ /\ t = <<c, txn[c]>> /\ pc[c] = "commit" /\ groups[c] = {}
                  /\ pc'[c] \in {"cmd", "closed"}
    BY <1>6, <1>7, <2>4 DEF DoneData
  <2> QED
    BY <2>1, <2>2, <2>3, <2>4
<1>8. ASSUME NEW t \in Txns, told'[t] = "accepted"
      PROVE  /\ t[2] <= txn'[t[1]]
             /\ t[2] = txn'[t[1]] => pc'[t[1]] \in {"cmd", "closed"}
             /\ \A k \in Copies : k[1] = t => Filed(k)'
  <2>1. t[1] \in Conns /\ t = <<t[1], t[2]>>
    BY CopyOf
  <2>2. CASE told[t] = "accepted" /\ ~(t[1] = c /\ t[2] = txn[c])
    <3>1. t[2] <= txn[t[1]] /\ \A k \in Copies : k[1] = t => Filed(k)
      BY <2>2
    <3>2. t[2] = txn[t[1]] => pc'[t[1]] \in {"cmd", "closed"}
      BY <1>1, <2>1, <2>2
    <3> QED
      BY <1>1, <1>2, <3>1, <3>2
  <2>3. CASE /\ t = <<c, txn[c]>> /\ pc[c] = "commit" /\ groups[c] = {}
             /\ pc'[c] \in {"cmd", "closed"}
    <3>1. ASSUME NEW k \in Copies, k[1] = t
          PROVE  Filed(k)
      <4>1. Owner(k) = c /\ Current(k)
        BY <2>3, <3>1 DEF Owner, Number, Current
      <4> QED
        BY <2>3, <4>1
    <3>2. t[1] = c /\ t[2] = txn[c] /\ txn[c] \in 0..MaxData
      BY <2>3
    <3>3. t[2] <= txn[c]
      BY <3>2, SessionAssumption
    <3> QED
      BY <1>1, <1>2, <2>3, <3>1, <3>2, <3>3
  <2> QED
    BY <1>7, <1>8, <2>2, <2>3
<1>9. Acked'
  BY <1>8
<1> QED
  BY <1>3, <1>4, <1>5, <1>9

\* What the workers take stays filed.
LEMMA CoverWorkerStep ==
  ASSUME CopyInv, CoverInv, NEW k \in Copies, Claim(k) \/ Settle(k)
  PROVE  CoverInv'
<1> USE DEF CoverInv, CoverShape, OwnCopies, Filing, Acked, CopyInv,
            CopyShape
<1>1. /\ copy[k] \in {"queued", "leased"}
      /\ \E s \in {"queued", "leased", "sent", "failed"} :
           copy' = [copy EXCEPT ![k] = s]
      /\ UNCHANGED <<pc, txn, groups, committed, to, told, named>>
  BY DEF Claim, Settle, Moves, data
<1>2. \A j \in Copies : Filed(j) => Filed(j)'
  BY <1>1, StaysFiled
<1>3. CoverShape' /\ OwnCopies'
  BY <1>1
<1>4. Filing' /\ Acked'
  BY <1>1, <1>2 DEF Current
<1> QED
  BY <1>3, <1>4

\* The writes to the history file nothing.
LEMMA CoverJournalStep ==
  ASSUME CoverInv, NEW c \in Conns, NEW written \in BOOLEAN,
         JournalAccepted(c, written) \/ RecordRemoval(c, written)
  PROVE  CoverInv'
<1>1. UNCHANGED <<pc, txn, groups, committed, copy, to, told, named>>
  BY DEF JournalAccepted, RecordRemoval, data
<1> QED
  BY <1>1 DEF CoverInv, CoverShape, OwnCopies, Filing, Acked, Filed, Split,
              Current

\* Every step keeps this invariant as well.
LEMMA CoverStep == CopyInv /\ CoverInv /\ [Next]_vars => CoverInv'
<1> SUFFICES ASSUME CopyInv, CoverInv, [Next]_vars
             PROVE  CoverInv'
  OBVIOUS
<1>1. CASE UNCHANGED vars
  BY <1>1
  DEF vars, CoverInv, CoverShape, OwnCopies, Filing, Acked, Filed, Split,
      Current
<1>2. CASE Next
  BY <1>2, CoverCommandStep, CoverStageStep, CoverCommitStep,
     CoverWithdrawStep, CoverJournalStep, CoverReplyStep, CoverWorkerStep
  DEF Next
<1> QED
  BY <1>1, <1>2

\* A 250 covers every recipient: each is in the queued copy of its route, in
\* the order given, and no copy of an acknowledged message is missing or ever
\* withdrawn.  (router.Split, commitCopies.)
THEOREM AckIsHonest == Spec => []AckCovers
  BY CoverInit, CoverSays, CoverStep, DialogueInit, DialogueStep, CopyInit,
     CopyStep, PTL
  DEF Spec

-----------------------------------------------------------------------------
(* The rows: what the history says of the copies.                          *)

RowShape ==
  /\ row \in [Copies -> {"none", "queued", "removed"}]
  /\ writing \in [Conns -> SUBSET Copies]

\* A write under way is about a copy of the message at hand: one that was
\* made and not withdrawn, or in the withdrawal one that was.
Pending ==
  \A c \in Conns, k \in Copies : k \in writing[c] =>
    /\ k[1] = <<c, txn[c]>> /\ pc[c] \in {"commit", "withdraw"}
    /\ pc[c] = "withdraw" <=> copy[k] = "withdrawn"

RowInv == RowShape /\ Pending /\ RowsHonest

\* A step that leaves rows and withdrawals alone and ends no phase with a
\* write under way keeps the rows' invariant.
LEMMA RowQuiet ==
  ASSUME RowInv, UNCHANGED <<row, writing, unwritten>>,
         \A k \in Copies : copy'[k] = "withdrawn" <=> copy[k] = "withdrawn",
         \A c \in Conns : writing[c] # {} => UNCHANGED <<pc[c], txn[c]>>
  PROVE  RowInv'
<1>1. RowShape'
  BY DEF RowInv, RowShape
<1>2. Pending'
  BY DEF RowInv, Pending
<1>3. RowsHonest'
  BY DEF RowInv, RowsHonest
<1> QED
  BY <1>1, <1>2, <1>3 DEF RowInv

\* A commit leaves the write of the row of its copy, which had none.
LEMMA RowCommitStep ==
  ASSUME CopyInv, RowInv, NEW c \in Conns, NEW r \in Routes, CommitCopy(c, r)
  PROVE  RowInv'
<1>1. PICK k \in Copies : k = <<<<c, txn[c]>>, r>>
  BY CopyOf DEF CommitCopy, CopyInv, UnderWay
<1>2. /\ pc[c] = "commit" /\ r \in groups[c] /\ writing[c] = {}
      /\ copy' = [copy EXCEPT ![k] = "queued"]
      /\ writing' = [writing EXCEPT ![c] = {k}]
      /\ UNCHANGED <<pc, txn, row, unwritten>>
  BY <1>1 DEF CommitCopy, IsNext, history
<1>3. copy[k] = "none" /\ k[1] = <<c, txn[c]>>
  BY <1>1, <1>2 DEF CopyInv, Unmade, Current, Owner, Number
<1>4. /\ copy'[k] = "queued"
      /\ \A j \in Copies : j # k => copy'[j] = copy[j]
  BY <1>2 DEF CopyInv, CopyShape
<1>5. /\ writing'[c] = {k}
      /\ \A d \in Conns : d # c => writing'[d] = writing[d]
  BY <1>2 DEF RowInv, RowShape
<1>6. RowShape'
  BY <1>2 DEF RowInv, RowShape
<1>7. Pending'
  <2> SUFFICES ASSUME NEW d \in Conns, NEW j \in Copies, j \in writing'[d]
               PROVE  /\ j[1] = <<d, txn[d]>> /\ pc[d] \in {"commit", "withdraw"}
                      /\ pc[d] = "withdraw" <=> copy'[j] = "withdrawn"
    BY <1>2 DEF Pending
  <2>1. CASE d = c
    BY <1>2, <1>3, <1>4, <1>5, <2>1
  <2>2. CASE d # c
    <3>1. /\ j[1] = <<d, txn[d]>> /\ pc[d] \in {"commit", "withdraw"}
          /\ pc[d] = "withdraw" <=> copy[j] = "withdrawn"
      BY <1>5, <2>2 DEF RowInv, Pending
    <3>2. j # k
      BY <1>3, <2>2, <3>1
    <3> QED
      BY <1>4, <3>1, <3>2
  <2> QED
    BY <2>1, <2>2
<1>8. RowsHonest'
  <2> SUFFICES ASSUME NEW j \in Copies
               PROVE  /\ row[j] = "removed" => copy'[j] = "withdrawn"
                      /\ row[j] = "queued" /\ copy'[j] = "withdrawn" =>
                           j \in unwritten \/ \E d \in Conns : j \in writing'[d]
    BY <1>2 DEF RowsHonest
  <2>1. CASE j = k
    BY <1>3, <1>4, <2>1 DEF RowInv, RowsHonest
  <2>2. CASE j # k
    BY <1>2, <1>4, <1>5, <2>2 DEF RowInv, RowsHonest
  <2> QED
    BY <2>1, <2>2
<1> QED
  BY <1>6, <1>7, <1>8 DEF RowInv

\* A withdrawal leaves the write of the row of the copy it took; it takes
\* none that another session is writing about.
LEMMA RowWithdrawStep ==
  ASSUME CopyInv, CoverInv, RowInv, NEW c \in Conns, NEW removed \in BOOLEAN,
         Withdraw(c, removed)
  PROVE  RowInv'
<1>1. PICK k \in Copies : k = Head(committed[c])
  BY ListedTail DEF Withdraw, CopyInv, CopyShape
<1> DEFINE can == copy[k] \in {"queued", "failed"}
<1>2. /\ pc[c] = "withdraw" /\ committed[c] # <<>> /\ writing[c] = {}
      /\ copy' = [copy EXCEPT ![k] = IF can /\ removed THEN "withdrawn" ELSE @]
      /\ writing' = [writing EXCEPT ![c] = IF can /\ removed THEN {k} ELSE {}]
      /\ UNCHANGED <<pc, txn, row, unwritten>>
  BY <1>1 DEF Withdraw
<1>3. k[1] = <<c, txn[c]>>
  <2>1. committed[c] \in Seq(Copies)
    BY DEF CopyInv, CopyShape
  <2>2. Len(committed[c]) \in Nat /\ Len(committed[c]) # 0
    BY <1>2, <2>1
  <2>3. Listed(k, committed[c])
    <3>1. 1 \in 1..Len(committed[c]) /\ committed[c][1] = k
      BY <1>1, <2>1, <2>2
    <3> QED
      BY <3>1 DEF Listed
  <2> QED
    BY <2>3 DEF CoverInv, OwnCopies
<1>4. CASE can /\ removed
  <2>1. /\ copy'[k] = "withdrawn"
        /\ \A j \in Copies : j # k => copy'[j] = copy[j]
    BY <1>2, <1>4 DEF CopyInv, CopyShape
  <2>2. /\ writing'[c] = {k}
        /\ \A d \in Conns : d # c => writing'[d] = writing[d]
    BY <1>2, <1>4 DEF RowInv, RowShape
  <2>3. RowShape'
    BY <1>2, <1>4 DEF RowInv, RowShape
  <2> HIDE DEF can
  <2>4. Pending'
    <3> SUFFICES ASSUME NEW d \in Conns, NEW j \in Copies, j \in writing'[d]
                 PROVE  /\ j[1] = <<d, txn[d]>>
                        /\ pc[d] \in {"commit", "withdraw"}
                        /\ pc[d] = "withdraw" <=> copy'[j] = "withdrawn"
      BY <1>2 DEF Pending
    <3>1. CASE d = c
      BY <1>2, <1>3, <2>1, <2>2, <3>1
    <3>2. CASE d # c
      <4>1. /\ j[1] = <<d, txn[d]>> /\ pc[d] \in {"commit", "withdraw"}
            /\ pc[d] = "withdraw" <=> copy[j] = "withdrawn"
        BY <2>2, <3>2 DEF RowInv, Pending
      <4>2. j # k
        BY <1>3, <3>2, <4>1
      <4> QED
        BY <2>1, <4>1, <4>2
    <3> QED
      BY <3>1, <3>2
  <2>5. RowsHonest'
    <3> SUFFICES ASSUME NEW j \in Copies
                 PROVE  /\ row[j] = "removed" => copy'[j] = "withdrawn"
                        /\ row[j] = "queued" /\ copy'[j] = "withdrawn" =>
                             \/ j \in unwritten
                             \/ \E d \in Conns : j \in writing'[d]
      BY <1>2 DEF RowsHonest
    <3>1. CASE j = k
      BY <2>1, <2>2, <3>1
    <3>2. CASE j # k
      BY <1>2, <2>1, <2>2, <3>2 DEF RowInv, RowsHonest
    <3> QED
      BY <3>1, <3>2
  <2> QED
    BY <2>3, <2>4, <2>5 DEF RowInv
<1>5. CASE ~(can /\ removed)
  <2>1. \A j \in Copies : copy'[j] = copy[j]
    BY <1>2, <1>5 DEF CopyInv, CopyShape
  <2>2. writing' = writing
    BY <1>2, <1>5 DEF RowInv, RowShape
  <2> QED
    BY <1>2, <2>1, <2>2, RowQuiet
<1> QED
  BY <1>4, <1>5

\* A write to the history says what became of its copy.
LEMMA RowJournalStep ==
  ASSUME RowInv, NEW c \in Conns, NEW written \in BOOLEAN,
         JournalAccepted(c, written) \/ RecordRemoval(c, written)
  PROVE  RowInv'
<1>1. PICK k \in Copies :
        /\ k \in writing[c]
        /\ writing' = [writing EXCEPT ![c] = @ \ {k}]
        /\ UNCHANGED <<pc, txn, copy>>
        /\ unwritten' = IF written THEN unwritten ELSE unwritten \cup {k}
        /\ \/ /\ pc[c] = "commit"
              /\ row' = [row EXCEPT ![k] = IF written THEN "queued" ELSE @]
           \/ /\ pc[c] = "withdraw"
              /\ row' = [row EXCEPT ![k] = IF written /\ @ = "queued"
                                            THEN "removed" ELSE @]
  BY DEF JournalAccepted, RecordRemoval, RowInv, RowShape, data
<1>2. pc[c] = "withdraw" <=> copy[k] = "withdrawn"
  BY <1>1 DEF RowInv, Pending
<1>3. RowShape'
  BY <1>1 DEF RowInv, RowShape
<1>4. \A d \in Conns, j \in Copies :
        j \in writing'[d] <=> j \in writing[d] /\ ~(d = c /\ j = k)
  BY <1>1 DEF RowInv, RowShape
<1>5. Pending'
  BY <1>1, <1>4 DEF RowInv, Pending
<1>6. RowsHonest'
  <2> SUFFICES ASSUME NEW j \in Copies
               PROVE  /\ row'[j] = "removed" => copy[j] = "withdrawn"
                      /\ row'[j] = "queued" /\ copy[j] = "withdrawn" =>
                           j \in unwritten' \/ \E d \in Conns : j \in writing'[d]
    BY <1>1 DEF RowsHonest
  <2>1. CASE j = k
    <3>1. row \in [Copies -> {"none", "queued", "removed"}]
      BY DEF RowInv, RowShape
    <3>2. row[k] = "removed" => copy[k] = "withdrawn"
      BY DEF RowInv, RowsHonest
    <3>3. CASE pc[c] = "commit"
      BY <1>1, <1>2, <2>1, <3>1, <3>2, <3>3
    <3>4. CASE pc[c] = "withdraw"
      BY <1>1, <1>2, <2>1, <3>1, <3>2, <3>4
    <3> QED
      BY <1>1, <3>3, <3>4
  <2>2. CASE j # k
    <3>1. row'[j] = row[j] /\ (j \in unwritten => j \in unwritten')
      BY <1>1, <2>2 DEF RowInv, RowShape
    <3> QED
      BY <1>4, <2>2, <3>1 DEF RowInv, RowsHonest
  <2> QED
    BY <2>1, <2>2
<1> QED
  BY <1>3, <1>5, <1>6 DEF RowInv

\* Every step keeps the rows' invariant.
LEMMA RowStep ==
  DialogueInv /\ CopyInv /\ CoverInv /\ RowInv /\ [Next]_vars => RowInv'
<1> SUFFICES ASSUME DialogueInv, CopyInv, CoverInv, RowInv, [Next]_vars
             PROVE  RowInv'
  OBVIOUS
<1>1. \A c \in Conns : writing[c] # {} => pc[c] \in {"commit", "withdraw"}
  BY DEF RowInv, RowShape, Pending
<1>2. /\ pc \in [Conns -> {"cmd", "data", "commit", "withdraw", "closed"}]
      /\ txn \in [Conns -> 0..MaxData]
  BY DEF CopyInv, CopyShape
<1>3. CASE UNCHANGED vars
  BY <1>3, RowQuiet DEF vars
<1>4. ASSUME NEW c \in Conns,
             \/ Pipeline(c) \/ DoHelo(c) \/ DoStartTLS(c) \/ DoMail(c)
             \/ \E r \in Recipients : DoRcpt(c, r)
             \/ Rset(c) \/ Drop(c) \/ DoData(c) \/ StageError(c)
             \/ \E end \in {"crlf", "bare", "eof"} : StageMessage(c, end)
             \/ CommitError(c) \/ WithdrawDone(c)
             \/ \E heard \in BOOLEAN : DoneData(c, heard)
      PROVE  RowInv'
  <2>1. /\ UNCHANGED <<row, writing, unwritten, copy>>
        /\ \/ UNCHANGED <<pc, txn>>
           \/ /\ pc[c] \in {"cmd", "data"} \/ writing[c] = {}
              /\ txn' = txn \/ txn' = [txn EXCEPT ![c] = @ + 1]
              /\ \E p \in {"cmd", "data", "commit", "withdraw", "closed"} :
                   pc' = [pc EXCEPT ![c] = p]
    BY <1>4
    DEF Pipeline, DoHelo, DoStartTLS, DoMail, DoRcpt, Rset, Drop, DoData,
        StageError, StageMessage, CommitError, WithdrawDone, DoneData, Read,
        data, queue, history
  <2>2. \A d \in Conns : writing[d] # {} => UNCHANGED <<pc[d], txn[d]>>
    BY <1>1, <1>2, <2>1
  <2> QED
    BY <2>1, <2>2, RowQuiet
<1>5. ASSUME NEW k \in Copies, Claim(k) \/ Settle(k)
      PROVE  RowInv'
  <2>1. /\ UNCHANGED <<pc, txn, row, writing, unwritten>>
        /\ copy[k] \in {"queued", "leased"}
        /\ \E s \in {"queued", "leased", "sent", "failed"} :
             copy' = [copy EXCEPT ![k] = s]
    BY <1>5 DEF Claim, Settle, Moves, data
  <2>2. \A j \in Copies : copy'[j] = "withdrawn" <=> copy[j] = "withdrawn"
    BY <2>1 DEF CopyInv, CopyShape
  <2> QED
    BY <2>1, <2>2, RowQuiet
<1>6. CASE Next
  BY <1>4, <1>5, <1>6, RowCommitStep, RowWithdrawStep, RowJournalStep DEF Next
<1> QED
  BY <1>3, <1>6

\* The rows say removed of what was withdrawn and of nothing else, with the
\* queue and the history written one after the other.  (withdraw.)
THEOREM HistoryHonest == Spec => []RowsHonest
<1>1. Init => RowInv
  BY DEF Init, RowInv, RowShape, Pending, RowsHonest
<1>2. RowInv => RowsHonest
  BY DEF RowInv
<1> QED
  BY <1>1, <1>2, DialogueInit, DialogueStep, CopyInit, CopyStep, CoverInit,
     CoverStep, RowStep, PTL
  DEF Spec
=============================================================================
