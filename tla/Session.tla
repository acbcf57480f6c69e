------------------------------ MODULE Session ------------------------------
(***************************************************************************)
(* An SMTP session of internal/listener: the command loop, the DATA phase, *)
(* one queued copy per route and their withdrawal when a later one fails.  *)
(* Delivery workers take the copies as soon as they are committed.         *)
(*                                                                         *)
(* A command that is refused changes nothing and is not a step.  Whether a *)
(* reply can still be written is open: the session then ends.  Admission,  *)
(* deadlines and shutdown are in module Listener, the inside of Commit and *)
(* Discard in module Spool.                                                *)
(***************************************************************************)
EXTENDS Naturals, Sequences, FiniteSets, SequencesExt

CONSTANTS
  Conns,          \* sessions
  Recipients,     \* addresses a client may name
  RouteOf,        \* router.Resolve of each, NoRoute without one
  NoRoute,
  StartTLS,       \* the listener offers STARTTLS
  RequireTLS,     \* require_tls of the listener
  MaxRecipients,  \* max_recipients of the client
  MaxData         \* bound on DATA commands in one session

Routes == {RouteOf[r] : r \in Recipients} \ {NoRoute}
Txns == Conns \X (1..MaxData)
Copies == Txns \X Routes

ASSUME SessionAssumption ==
  /\ StartTLS \in BOOLEAN /\ RequireTLS \in BOOLEAN
  /\ MaxRecipients \in Nat \ {0} /\ MaxData \in Nat

VARIABLES
  pc,         \* "cmd": command loop, "data": after 354, "commit", "withdraw",
              \* "closed": the connection is dropped
  client,     \* the sessions whose source address matched a client
  isTLS,
  helo, from, \* "no", or how it was received: in "clear" or under "tls"
  rcpts,      \* the recipients so far, each with how it was received
  ahead,      \* commands sent in clear sit unread in the buffered reader
  gone,       \* the peer has closed its side
  txn,        \* DATA commands so far
  groups,     \* the routes whose group is not yet committed
  committed,  \* the copies made for this message, or yet to be withdrawn
  eod,        \* how the last message ended: "crlf", "bare", "eof", "error"
  copy, to,   \* each copy's place in the queue, and its recipients
  row,        \* its row in the history
  writing,    \* the copy whose row each session is about to write, if any
  told,       \* history: what the client knows of each message
  named,      \* history: the recipients of each message
  claimed,    \* history: copies a worker has ever claimed
  kept,       \* history: copies whose Discard met an I/O error
  unwritten   \* history: copies a journal write failed for

dialogue == <<client, isTLS, helo, from, rcpts, ahead>>
data == <<txn, groups, committed, eod>>
queue == <<copy, to, row, writing>>
history == <<told, named, claimed, kept, unwritten>>
vars == <<pc, client, isTLS, helo, from, rcpts, ahead, gone, txn, groups,
          committed, eod, copy, to, row, writing, told, named, claimed, kept,
          unwritten>>

Heard == {"no", "clear", "tls"}

TypeOK ==
  /\ pc \in [Conns -> {"cmd", "data", "commit", "withdraw", "closed"}]
  /\ client \subseteq Conns
  /\ isTLS \in [Conns -> BOOLEAN]
  /\ helo \in [Conns -> Heard] /\ from \in [Conns -> Heard]
  /\ rcpts \in [Conns -> Seq([to : Recipients, via : {"clear", "tls"}])]
  /\ \A c \in Conns : Len(rcpts[c]) <= MaxRecipients
  /\ ahead \in [Conns -> BOOLEAN] /\ gone \in [Conns -> BOOLEAN]
  /\ txn \in [Conns -> 0..MaxData]
  /\ groups \in [Conns -> SUBSET Routes]
  /\ committed \in [Conns -> Seq(Copies)]
  /\ eod \in [Conns -> {"crlf", "bare", "eof", "error"}]
  /\ copy \in [Copies -> {"none", "queued", "leased", "sent", "failed",
                          "withdrawn"}]
  /\ to \in [Copies -> Seq(Recipients)]
  /\ row \in [Copies -> {"none", "queued", "removed"}]
  /\ writing \in [Conns -> SUBSET Copies]
  /\ told \in [Txns -> {"nothing", "accepted", "refused"}]
  /\ named \in [Txns -> Seq(Recipients)]
  /\ claimed \subseteq Copies /\ kept \subseteq Copies
  /\ unwritten \subseteq Copies

Init ==
  /\ pc = [c \in Conns |-> "cmd"]
  /\ client \in SUBSET Conns
  /\ isTLS = [c \in Conns |-> FALSE]
  /\ helo = [c \in Conns |-> "no"] /\ from = [c \in Conns |-> "no"]
  /\ rcpts = [c \in Conns |-> <<>>]
  /\ ahead = [c \in Conns |-> FALSE] /\ gone = [c \in Conns |-> FALSE]
  /\ txn = [c \in Conns |-> 0]
  /\ groups = [c \in Conns |-> {}] /\ committed = [c \in Conns |-> <<>>]
  /\ eod = [c \in Conns |-> "crlf"]
  /\ copy = [k \in Copies |-> "none"] /\ to = [k \in Copies |-> <<>>]
  /\ row = [k \in Copies |-> "none"] /\ writing = [c \in Conns |-> {}]
  /\ told = [t \in Txns |-> "nothing"] /\ named = [t \in Txns |-> <<>>]
  /\ claimed = {} /\ kept = {} /\ unwritten = {}

-----------------------------------------------------------------------------
(* The command loop.                                                       *)

\* A command is read: from what was buffered, or from the peer.
Read(c) ==
  /\ pc[c] = "cmd"
  /\ ahead[c] \/ ~gone[c]
  /\ ahead' \in {ahead, [ahead EXCEPT ![c] = FALSE]}

Via(c) == IF isTLS[c] /\ ~ahead[c] THEN "tls" ELSE "clear"

ResetTransaction(c) ==
  /\ from' = [from EXCEPT ![c] = "no"]
  /\ rcpts' = [rcpts EXCEPT ![c] = <<>>]

\* The peer pipelines commands before a handshake.
Pipeline(c) ==
  /\ pc[c] = "cmd" /\ ~isTLS[c] /\ ~gone[c] /\ ~ahead[c]
  /\ ahead' = [ahead EXCEPT ![c] = TRUE]
  /\ UNCHANGED <<pc, client, isTLS, helo, from, rcpts, gone, data, queue,
                 history>>

DoHelo(c) ==
  /\ Read(c)
  /\ helo' = [helo EXCEPT ![c] = Via(c)]
  /\ ResetTransaction(c)
  /\ UNCHANGED <<pc, client, isTLS, gone, data, queue, history>>

\* Mutant: the transaction survives the handshake.
DoStartTLS_KeepsTransaction(c) ==
  /\ Read(c) /\ StartTLS /\ ~isTLS[c]
  /\ \/ /\ isTLS' = [isTLS EXCEPT ![c] = TRUE]
        /\ ahead' = [ahead EXCEPT ![c] = FALSE]
        /\ helo' = [helo EXCEPT ![c] = "no"]
        /\ UNCHANGED <<pc, from, rcpts>>
     \/ pc' = [pc EXCEPT ![c] = "closed"]
          /\ UNCHANGED <<isTLS, helo, from, rcpts>>
  /\ UNCHANGED <<client, gone, data, queue, history>>

\* A new reader on the encrypted connection, and nothing learned before it;
\* or the handshake fails and the session ends.
DoStartTLS(c) ==
  /\ Read(c) /\ StartTLS /\ ~isTLS[c]
  /\ \/ /\ ~gone[c]
        /\ isTLS' = [isTLS EXCEPT ![c] = TRUE]
        /\ ahead' = [ahead EXCEPT ![c] = FALSE]
        /\ helo' = [helo EXCEPT ![c] = "no"]
        /\ ResetTransaction(c)
        /\ UNCHANGED pc
     \/ pc' = [pc EXCEPT ![c] = "closed"]
          /\ UNCHANGED <<isTLS, helo, from, rcpts>>
  /\ UNCHANGED <<client, gone, data, queue, history>>

\* The client's rate limit may refuse the transaction too.
DoMail(c) ==
  /\ Read(c)
  /\ c \in client
  /\ helo[c] # "no"
  /\ RequireTLS => isTLS[c]
  /\ from[c] = "no"
  /\ from' = [from EXCEPT ![c] = Via(c)]
  /\ UNCHANGED <<pc, client, isTLS, helo, rcpts, gone, data, queue, history>>

DoRcpt(c, r) ==
  /\ Read(c)
  /\ from[c] # "no" /\ c \in client
  /\ Len(rcpts[c]) < MaxRecipients
  /\ rcpts' = [rcpts EXCEPT ![c] = Append(@, [to |-> r, via |-> Via(c)])]
  /\ UNCHANGED <<pc, client, isTLS, helo, from, gone, data, queue, history>>

Rset(c) ==
  /\ Read(c)
  /\ ResetTransaction(c)
  /\ UNCHANGED <<pc, client, isTLS, helo, gone, data, queue, history>>

\* QUIT, a line that cannot be read, a timeout, the session's time limit, a
\* shutdown, or a reply that cannot be written.
Drop(c) ==
  /\ pc[c] = "cmd"
  /\ pc' = [pc EXCEPT ![c] = "closed"]
  /\ UNCHANGED <<dialogue, gone, data, queue, history>>

-----------------------------------------------------------------------------
(* DATA.                                                                   *)

Named(c) == [i \in DOMAIN rcpts[c] |-> rcpts[c][i].to]

\* router.Split: a group for each route met, ...
Split(rs) == {RouteOf[r] : r \in ToSet(rs)}

\* Mutant: a recipient is added only when its group is new.
Members_FirstOnly(rs, route) ==
  SubSeq(SelectSeq(rs, LAMBDA r : RouteOf[r] = route), 1, 1)

\* ... with its recipients in the order they were accepted.
Members(rs, route) == SelectSeq(rs, LAMBDA r : RouteOf[r] = route)

\* The groups are taken in the order their routes were first met.
IsNext(rs, left, route) ==
  \E i \in DOMAIN rs :
    /\ RouteOf[rs[i]] = route /\ route \in left
    /\ \A j \in 1..(i - 1) : RouteOf[rs[j]] \notin left

\* 354.  A recipient without a route refuses the command, not the message.
DoData(c) ==
  /\ Read(c)
  /\ from[c] # "no" /\ rcpts[c] # <<>>
  /\ \A r \in ToSet(Named(c)) : RouteOf[r] # NoRoute
  /\ txn[c] < MaxData
  /\ txn' = [txn EXCEPT ![c] = @ + 1]
  /\ named' = [named EXCEPT ![<<c, txn'[c]>>] = Named(c)]
  /\ groups' = [groups EXCEPT ![c] = Split(Named(c))]
  /\ pc' = [pc EXCEPT ![c] = "data"]
  /\ UNCHANGED <<client, isTLS, helo, from, rcpts, gone, committed, eod, queue,
                 told, claimed, kept, unwritten>>

\* stageMessage reads to the end: a dot between two CRLF, a dot line that is
\* not, or the peer closing the connection, which dotReader reports as the
\* end of the message too.
StageMessage(c, end) ==
  /\ pc[c] = "data"
  /\ pc' = [pc EXCEPT ![c] = "commit"]
  /\ eod' = [eod EXCEPT ![c] = end]
  /\ gone' = [gone EXCEPT ![c] = @ \/ end = "eof"]
  /\ ahead' = [ahead EXCEPT ![c] = @ /\ end # "eof"]
  /\ UNCHANGED <<client, isTLS, helo, from, rcpts, txn, groups, committed,
                 queue, history>>

\* The message is abandoned halfway: too large or malformed, hop count,
\* headers, timeout, shutdown or disk.
StageError(c) ==
  /\ pc[c] = "data"
  /\ pc' = [pc EXCEPT ![c] = "closed"]
  /\ eod' = [eod EXCEPT ![c] = "error"]
  /\ groups' = [groups EXCEPT ![c] = {}]
  /\ told' = [told EXCEPT ![<<c, txn[c]>>] = "refused"]
  /\ UNCHANGED <<dialogue, gone, txn, committed, queue, named, claimed, kept,
                 unwritten>>

\* One copy is committed, and a worker may claim it from here on; ...
CommitCopy(c, route) ==
  LET t == <<c, txn[c]>>
      k == <<t, route>>
  IN  /\ pc[c] = "commit" /\ writing[c] = {}
      /\ IsNext(named[t], groups[c], route)
      /\ groups' = [groups EXCEPT ![c] = @ \ {route}]
      /\ copy' = [copy EXCEPT ![k] = "queued"]
      /\ to' = [to EXCEPT ![k] = Members(named[t], route)]
      /\ committed' = [committed EXCEPT ![c] = Append(@, k)]
      /\ writing' = [writing EXCEPT ![c] = {k}]
      /\ UNCHANGED <<pc, dialogue, gone, txn, eod, row, history>>

\* ... its row follows, or is refused, which is only logged and counted.
JournalAccepted(c, written) ==
  \E k \in writing[c] :
    /\ pc[c] = "commit"
    /\ writing' = [writing EXCEPT ![c] = @ \ {k}]
    /\ row' = [row EXCEPT ![k] = IF written THEN "queued" ELSE @]
    /\ unwritten' = IF written THEN unwritten ELSE unwritten \cup {k}
    /\ UNCHANGED <<pc, dialogue, gone, data, copy, to, told, named, claimed,
                   kept>>

\* Mutant: the error is returned at once, the copies made so far stay.
CommitError_Returns(c) ==
  /\ pc[c] = "commit" /\ groups[c] # {} /\ writing[c] = {}
  /\ pc' = [pc EXCEPT ![c] = "closed"]
  /\ groups' = [groups EXCEPT ![c] = {}]
  /\ told' = [told EXCEPT ![<<c, txn[c]>>] = "refused"]
  /\ UNCHANGED <<dialogue, gone, txn, committed, eod, queue, named, claimed,
                 kept, unwritten>>

\* Commit fails: the copies already made are to be withdrawn.
CommitError(c) ==
  /\ pc[c] = "commit" /\ groups[c] # {} /\ writing[c] = {}
  /\ pc' = [pc EXCEPT ![c] = "withdraw"]
  /\ groups' = [groups EXCEPT ![c] = {}]
  /\ UNCHANGED <<dialogue, gone, txn, committed, eod, queue, history>>

\* Mutant: the session goes on whatever ended the message.
DoneData_GoesOn(c, heard) ==
  /\ pc[c] = "commit" /\ groups[c] = {} /\ writing[c] = {}
  /\ told' = [told EXCEPT ![<<c, txn[c]>>] = IF heard THEN "accepted" ELSE @]
  /\ ResetTransaction(c)
  /\ committed' = [committed EXCEPT ![c] = <<>>]
  /\ pc' = [pc EXCEPT ![c] = IF heard THEN "cmd" ELSE "closed"]
  /\ UNCHANGED <<client, isTLS, helo, ahead, gone, txn, groups, eod, queue,
                 named, claimed, kept, unwritten>>

\* The 250 is written, or the write fails and the session ends.
DoneData(c, heard) ==
  /\ pc[c] = "commit" /\ groups[c] = {} /\ writing[c] = {}
  /\ told' = [told EXCEPT ![<<c, txn[c]>>] = IF heard THEN "accepted" ELSE @]
  /\ ResetTransaction(c)
  /\ committed' = [committed EXCEPT ![c] = <<>>]
  /\ pc' = [pc EXCEPT ![c] = IF heard /\ eod[c] # "bare" THEN "cmd"
                                                         ELSE "closed"]
  /\ UNCHANGED <<client, isTLS, helo, ahead, gone, txn, groups, eod, queue,
                 named, claimed, kept, unwritten>>

\* Mutant: the history is told whatever became of the Discard.
Withdraw_AlwaysRecords(c, removed) ==
  LET k == Head(committed[c])
      can == copy[k] \in {"queued", "failed"}
  IN  /\ pc[c] = "withdraw" /\ committed[c] # <<>> /\ writing[c] = {}
      /\ committed' = [committed EXCEPT ![c] = Tail(@)]
      /\ copy' = [copy EXCEPT ![k] = IF can /\ removed THEN "withdrawn" ELSE @]
      /\ kept' = IF can /\ ~removed THEN kept \cup {k} ELSE kept
      /\ writing' = [writing EXCEPT ![c] = {k}]
      /\ UNCHANGED <<pc, dialogue, gone, txn, groups, eod, to, row, told, named,
                     claimed, unwritten>>

\* Discard of the next copy: busy with a worker, no longer there, kept by an
\* I/O error, or gone; ...
Withdraw(c, removed) ==
  LET k == Head(committed[c])
      can == copy[k] \in {"queued", "failed"}
  IN  /\ pc[c] = "withdraw" /\ committed[c] # <<>> /\ writing[c] = {}
      /\ committed' = [committed EXCEPT ![c] = Tail(@)]
      /\ copy' = [copy EXCEPT ![k] = IF can /\ removed THEN "withdrawn" ELSE @]
      /\ kept' = IF can /\ ~removed THEN kept \cup {k} ELSE kept
      /\ writing' = [writing EXCEPT ![c] = IF can /\ removed THEN {k} ELSE {}]
      /\ UNCHANGED <<pc, dialogue, gone, txn, groups, eod, to, row, told, named,
                     claimed, unwritten>>

\* ... and if it is gone its row is marked, unless there is none or the write
\* fails.
RecordRemoval(c, written) ==
  \E k \in writing[c] :
    /\ pc[c] = "withdraw"
    /\ writing' = [writing EXCEPT ![c] = @ \ {k}]
    /\ row' = [row EXCEPT ![k] = IF written /\ @ = "queued" THEN "removed"
                                                           ELSE @]
    /\ unwritten' = IF written THEN unwritten ELSE unwritten \cup {k}
    /\ UNCHANGED <<pc, dialogue, gone, data, copy, to, told, named, claimed,
                   kept>>

\* replyDataError, once every copy has been looked at.
WithdrawDone(c) ==
  /\ pc[c] = "withdraw" /\ committed[c] = <<>> /\ writing[c] = {}
  /\ pc' = [pc EXCEPT ![c] = "closed"]
  /\ told' = [told EXCEPT ![<<c, txn[c]>>] = "refused"]
  /\ UNCHANGED <<dialogue, gone, data, queue, named, claimed, kept, unwritten>>

-----------------------------------------------------------------------------
(* The delivery workers, from the moment a copy is committed.              *)

Moves(k, a, b) ==
  /\ copy[k] = a
  /\ copy' = [copy EXCEPT ![k] = b]
  /\ UNCHANGED <<pc, dialogue, gone, data, to, row, writing, told, named,
                 kept, unwritten>>

Claim(k) == Moves(k, "queued", "leased") /\ claimed' = claimed \cup {k}

Settle(k) ==
  /\ \E s \in {"queued", "sent", "failed"} : Moves(k, "leased", s)
  /\ UNCHANGED claimed

Next ==
  \/ \E c \in Conns :
       \/ Pipeline(c) \/ DoHelo(c) \/ DoStartTLS(c) \/ DoMail(c)
       \/ \E r \in Recipients : DoRcpt(c, r)
       \/ Rset(c) \/ Drop(c)
       \/ DoData(c) \/ StageError(c)
       \/ \E end \in {"crlf", "bare", "eof"} : StageMessage(c, end)
       \/ \E r \in Routes : CommitCopy(c, r)
       \/ CommitError(c)
       \/ \E heard \in BOOLEAN : DoneData(c, heard)
       \/ \E removed \in BOOLEAN : Withdraw(c, removed)
       \/ \E written \in BOOLEAN :
            JournalAccepted(c, written) \/ RecordRemoval(c, written)
       \/ WithdrawDone(c)
  \/ \E k \in Copies : Claim(k) \/ Settle(k)

Spec == Init /\ [][Next]_vars

-----------------------------------------------------------------------------
(* Properties.                                                             *)

CopiesOf(t) == {t} \X Routes

\* A 250 covers every recipient of the message: each is in the copy of its
\* route and in no other, in the order given, and no copy has been withdrawn
\* or left out.  (Split, commitCopies.)
AckCovers ==
  \A t \in Txns : told[t] = "accepted" =>
    \A r \in Routes :
      IF \E n \in ToSet(named[t]) : RouteOf[n] = r
        THEN /\ to[<<t, r>>] = SelectSeq(named[t], LAMBDA n : RouteOf[n] = r)
             /\ copy[<<t, r>>] \notin {"none", "withdrawn"}
        ELSE copy[<<t, r>>] = "none"

\* When the client is told that a message was not accepted, no copy of it is
\* left for its retry to duplicate, except one a worker got hold of before it
\* could be withdrawn or one whose Discard failed.  (withdraw.)
RefusedWithdrawn ==
  \A t \in Txns : told[t] = "refused" =>
    \A k \in CopiesOf(t) :
      copy[k] \in {"none", "withdrawn"} \/ k \in claimed \cup kept

\* A copy in the hands of a delivery worker is not taken from under it.
\* (withdraw uses Discard, not Remove.)
InFlightKept ==
  [][\A k \in Copies : copy[k] = "leased" => copy'[k] # "withdrawn"]_vars

\* The history follows the queue, though each is written without the other
\* and workers claim, send and fail the copies in between: a row says removed
\* only of a copy that was withdrawn, and of each of those once the session
\* has moved on, unless a journal write failed.
RowsHonest ==
  \A k \in Copies :
    /\ row[k] = "removed" => copy[k] = "withdrawn"
    /\ row[k] = "queued" /\ copy[k] = "withdrawn" =>
         k \in unwritten \/ \E c \in Conns : k \in writing[c]

\* Nothing said in clear is still in force once the session is encrypted,
\* neither what was learned nor what was sent ahead.  (doStartTLS.)
NothingCarried ==
  \A c \in Conns : isTLS[c] =>
    /\ helo[c] # "clear" /\ from[c] # "clear"
    /\ \A i \in DOMAIN rcpts[c] : rcpts[c][i].via = "tls"

\* A session that reads commands is at a command: after a message that was
\* abandoned, or that ended on a bare LF, the rest of the stream is body.
InSync == \A c \in Conns : pc[c] = "cmd" => eod[c] \in {"crlf", "eof"}

-----------------------------------------------------------------------------
(* What a comment in the code says, and the code does not do.              *)

\* replyDataError on a connection closed inside DATA: "The peer vanished
\* mid-transfer; nothing useful to say", one of the errors after which doData
\* abandons the message.  What was received so far is queued.
CompleteOnly ==
  \A c \in Conns : eod[c] = "eof" =>
    \A k \in CopiesOf(<<c, txn[c]>>) : copy[k] = "none"
=============================================================================
