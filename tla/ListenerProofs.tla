--------------------------- MODULE ListenerProofs --------------------------
(***************************************************************************)
(* Proofs about Listener, for any number of listeners, connections and     *)
(* caps: a cancellation leaves no session in a read that will not end,     *)
(* every place is given back once, and no session outlives Close.          *)
(***************************************************************************)
EXTENDS Listener, FiniteSetTheorems, TLAPS

\* The types of what a session's deadline depends on.
Shape ==
  /\ cancelled \in BOOLEAN
  /\ apc \in [Servers -> {"accept", "sem", "lock", "backoff", "gone"}]
  /\ acur \in [Servers -> Conns \cup {NoConn}]
  /\ spc \in [Conns -> {"free", "arm", "recheck", "admit", "refuse", "hand",
                        "read", "busy", "bye", "left"}]
  /\ goal \in [Conns -> {"admit", "hand", "cmd", "data"}]

\* An accept loop's connection is nobody else's.
HandsApart ==
  /\ \A s \in Servers : apc[s] \in {"sem", "lock"} =>
       acur[s] \in Conns /\ spc[acur[s]] = "free"
  /\ \A s, t \in Servers :
       acur[s] = acur[t] /\ acur[s] # NoConn => s = t

\* Until a cancellation every session's hook is in place.
Hooked ==
  ~cancelled =>
    \A c \in Conns : spc[c] \notin {"free", "left"} => c \in hook

StuckInv == Shape /\ HandsApart /\ Hooked /\ NoneStuck

-----------------------------------------------------------------------------
\* The invariant holds before the first connection.
LEMMA StuckInit == Init => StuckInv
<1> SUFFICES ASSUME Init
             PROVE  StuckInv
  OBVIOUS
<1>1. Shape /\ HandsApart
  BY DEF Init, Shape, HandsApart
<1>2. Hooked /\ NoneStuck
  BY DEF Init, Hooked, NoneStuck
<1> QED
  BY <1>1, <1>2 DEF StuckInv

\* A step of an accept loop keeps it: a connection it starts has no session
\* yet, and gets its hook with the first one.
LEMMA AcceptStep ==
  ASSUME StuckInv, NEW s \in Servers,
         AcceptLoop(s) \/ AcceptFails(s) \/ \E c \in Conns : Accept(s, c)
  PROVE  StuckInv'
<1> USE ListenerAssumption
    DEF StuckInv, Shape, HandsApart, Hooked, NoneStuck, Blocked, accepts,
        given, closing, session
<1>1. ASSUME NEW c \in Conns, Accept(s, c)
      PROVE  StuckInv'
  BY <1>1 DEF Accept, InHand
<1>2. CASE AcceptFails(s)
  BY <1>2 DEF AcceptFails
<1>3. CASE AcceptEnds(s)
  BY <1>3 DEF AcceptEnds
<1>4. CASE Backoff(s)
  <2>1. Shape'
    BY <1>4 DEF Backoff
  <2>2. HandsApart'
    <3>1. CASE apc' = [apc EXCEPT ![s] = "accept"]
      BY <1>4, <3>1 DEF Backoff
    <3>2. CASE apc' = [apc EXCEPT ![s] = "gone"]
      BY <1>4, <3>2 DEF Backoff
    <3> QED
      BY <1>4, <3>1, <3>2 DEF Backoff
  <2>3. Hooked'
    BY <1>4 DEF Backoff
  <2>4. NoneStuck'
    BY <1>4 DEF Backoff
  <2> QED
    BY <2>1, <2>2, <2>3, <2>4
<1>5. CASE Semaphore(s)
  <2>1. Shape'
    BY <1>5 DEF Semaphore
  <2>2. HandsApart'
    <3>1. CASE acur' = acur /\ apc' = [apc EXCEPT ![s] = "lock"]
      BY <1>5, <3>1 DEF Semaphore
    <3>2. CASE /\ acur' = [acur EXCEPT ![s] = NoConn]
               /\ apc' = [apc EXCEPT ![s] = "accept"]
      BY <1>5, <3>2 DEF Semaphore
    <3> QED
      BY <1>5, <3>1, <3>2 DEF Semaphore
  <2>3. Hooked'
    BY <1>5 DEF Semaphore
  <2>4. NoneStuck'
    BY <1>5 DEF Semaphore
  <2> QED
    BY <2>1, <2>2, <2>3, <2>4
<1>6. CASE Start(s)
  <2>1. Shape'
    BY <1>6 DEF Start
  <2>2. HandsApart'
    BY <1>6 DEF Start
  <2>3. Hooked'
    BY <1>6 DEF Start
  <2>4. NoneStuck'
    BY <1>6 DEF Start
  <2> QED
    BY <2>1, <2>2, <2>3, <2>4
<1>7. CASE TurnAway(s)
  BY <1>7 DEF TurnAway
<1> QED
  BY <1>1, <1>2, <1>3, <1>4, <1>5, <1>6, <1>7 DEF AcceptLoop

\* A step of a session keeps it: a read is entered only past a Recheck, and
\* an expired deadline is moved only on the way to one.
LEMMA SessionStep ==
  ASSUME StuckInv, NEW c \in Conns,
         Own(c) \/ Hook(c) \/ Handshake(c) \/ Receive(c) \/ PeerGone(c)
  PROVE  StuckInv'
<1> USE ListenerAssumption
    DEF StuckInv, Shape, HandsApart, Hooked, NoneStuck, Blocked, accepts,
        given, closing, session, Goto, ArmFor
<1>1. CASE Arm(c)
  BY <1>1 DEF Arm
<1>2. CASE Recheck(c)
  <2>1. Shape'
    BY <1>2 DEF Recheck
  <2>2. HandsApart'
    BY <1>2 DEF Recheck
  <2>3. Hooked'
    BY <1>2 DEF Recheck
  <2>4. NoneStuck'
    BY <1>2 DEF Recheck
  <2> QED
    BY <2>1, <2>2, <2>3, <2>4
<1>3. CASE Admit(c)
  <2>1. Shape'
    BY <1>3 DEF Admit
  <2>2. HandsApart'
    BY <1>3 DEF Admit
  <2>3. Hooked'
    BY <1>3 DEF Admit
  <2>4. NoneStuck'
    BY <1>3 DEF Admit
  <2> QED
    BY <2>1, <2>2, <2>3, <2>4
<1>4. CASE Refuse(c)
  <2>1. Shape'
    BY <1>4 DEF Refuse
  <2>2. HandsApart'
    BY <1>4 DEF Refuse
  <2>3. Hooked'
    BY <1>4 DEF Refuse
  <2>4. NoneStuck'
    BY <1>4 DEF Refuse
  <2> QED
    BY <2>1, <2>2, <2>3, <2>4
<1>5. CASE Refused(c)
  <2>1. Shape'
    BY <1>5 DEF Refused
  <2>2. HandsApart'
    BY <1>5 DEF Refused
  <2>3. Hooked'
    BY <1>5 DEF Refused
  <2>4. NoneStuck'
    BY <1>5 DEF Refused
  <2> QED
    BY <2>1, <2>2, <2>3, <2>4
<1>6. CASE Expired(c)
  <2>1. Shape'
    BY <1>6 DEF Expired
  <2>2. HandsApart'
    BY <1>6 DEF Expired
  <2>3. Hooked'
    BY <1>6 DEF Expired
  <2>4. NoneStuck'
    BY <1>6 DEF Expired
  <2> QED
    BY <2>1, <2>2, <2>3, <2>4
<1>7. CASE PeerGone(c)
  <2>1. Shape'
    BY <1>7 DEF PeerGone
  <2>2. HandsApart'
    BY <1>7 DEF PeerGone
  <2>3. Hooked'
    BY <1>7 DEF PeerGone
  <2>4. NoneStuck'
    BY <1>7 DEF PeerGone
  <2> QED
    BY <2>1, <2>2, <2>3, <2>4
<1>8. CASE Handle(c)
  BY <1>8 DEF Handle
<1>9. CASE Return(c)
  BY <1>9 DEF Return
<1>10. CASE Leave(c)
  <2>1. Shape'
    BY <1>10 DEF Leave
  <2>2. HandsApart'
    BY <1>10 DEF Leave
  <2>3. Hooked'
    BY <1>10 DEF Leave
  <2>4. NoneStuck'
    BY <1>10 DEF Leave
  <2> QED
    BY <2>1, <2>2, <2>3, <2>4
<1>11. CASE Hook(c)
  <2>1. Shape'
    BY <1>11 DEF Hook
  <2>2. HandsApart'
    BY <1>11 DEF Hook
  <2>3. Hooked'
    BY <1>11 DEF Hook
  <2>4. NoneStuck'
    BY <1>11 DEF Hook
  <2> QED
    BY <2>1, <2>2, <2>3, <2>4
<1>12. CASE Handshake(c)
  <2>1. Shape'
    BY <1>12 DEF Handshake
  <2>2. HandsApart'
    BY <1>12 DEF Handshake
  <2>3. Hooked'
    BY <1>12 DEF Handshake
  <2>4. NoneStuck'
    BY <1>12 DEF Handshake
  <2> QED
    BY <2>1, <2>2, <2>3, <2>4
<1>13. CASE Receive(c)
  <2>1. Shape'
    BY <1>13 DEF Receive
  <2>2. HandsApart'
    BY <1>13 DEF Receive
  <2>3. Hooked'
    BY <1>13 DEF Receive
  <2>4. NoneStuck'
    BY <1>13 DEF Receive
  <2> QED
    BY <2>1, <2>2, <2>3, <2>4
<1> QED
  BY <1>1, <1>2, <1>3, <1>4, <1>5, <1>6, <1>7, <1>8, <1>9, <1>10,
     <1>11, <1>12, <1>13
  DEF Own

\* A cancellation and the steps of Close keep it: at a cancellation every
\* session has its hook.
LEMMA CloseStep ==
  ASSUME StuckInv, Cancel \/ Shutdown
  PROVE  StuckInv'
  BY DEF StuckInv, Shape, HandsApart, Hooked, NoneStuck, Blocked, accepts,
         given, closing, session, Cancel, Shutdown, Close, Mark, Shut, Wait

\* After a cancellation no session sits in a read that will not end, in any
\* order of armRead, armConn, the AfterFunc hook and the cancellation.
THEOREM ReadsEnd == Spec => []NoneStuck
<1>1. StuckInv /\ [Next]_vars => StuckInv'
  <2> SUFFICES ASSUME StuckInv, [Next]_vars
               PROVE  StuckInv'
    OBVIOUS
  <2>1. CASE UNCHANGED vars
    BY <2>1 DEF StuckInv, Shape, HandsApart, Hooked, NoneStuck, Blocked, vars
  <2>2. CASE Next
    BY <2>2, AcceptStep, SessionStep, CloseStep DEF Next
  <2> QED
    BY <2>1, <2>2
<1>2. StuckInv => NoneStuck
  BY DEF StuckInv
<1> QED
  BY <1>1, <1>2, StuckInit, PTL DEF Spec

-----------------------------------------------------------------------------
(* Places.  What the counters count are sets of sessions and of accept     *)
(* loops; every step leaves such a set alone, adds one element to it or    *)
(* removes one from it.                                                    *)

Sessions == {c \in Conns : spc[c] # "free"}
Locks == {s \in Servers : apc[s] = "lock"}

\* The types of the counters and of what Close keeps.
Counters ==
  /\ sem \in Nat /\ sem <= MaxConnections
  /\ conns \in [Keys -> Nat]
  /\ wg \in [Servers -> Nat]
  /\ srv \in [Conns -> Servers]
  /\ admitted \subseteq Conns
  /\ cl \in {"run", "mark", "shut", "wait", "done"} /\ at \in Servers
  /\ closed \subseteq Servers

\* A session is admitted once, past its admission, and not beyond its end.
AdmittedLive ==
  \A c \in admitted :
    /\ spc[c] \notin {"free", "admit", "refuse", "left"}
    /\ spc[c] \in {"arm", "recheck"} => goal[c] # "admit"

\* Close marks every server before it waits for the first.
ClosedBehind ==
  /\ cl = "run" => at = 1
  /\ cl = "mark" => \A s \in Servers : s < at => s \in closed
  /\ cl = "shut" => \A s \in Servers : s <= at => s \in closed
  /\ cl \in {"wait", "done"} => closed = Servers

PlaceInv ==
  /\ StuckInv /\ Counters /\ AdmittedLive /\ ClosedBehind
  /\ PlacesAccounted /\ NoneAfterWait

\* The sets counted are finite.
LEMMA Finite ==
  ASSUME Counters
  PROVE  /\ IsFiniteSet(Sessions) /\ IsFiniteSet(Locks)
         /\ \A s \in Servers : IsFiniteSet(Running(s))
         /\ \A k \in Keys : IsFiniteSet(Counted(k))
<1>1. Sessions \in SUBSET Conns /\ Locks \in SUBSET Servers
  BY DEF Sessions, Locks
<1>2. \A s \in Servers : Running(s) \in SUBSET Conns
  BY DEF Running
<1>3. \A k \in Keys : Counted(k) \in SUBSET Conns
  BY DEF Counted, Counters
<1> QED
  BY <1>1, <1>2, <1>3, FS_Subset, ListenerAssumption

\* PlacesAccounted in the words of this module.
LEMMA Account ==
  PlacesAccounted <=>
    /\ sem = Cardinality(Sessions) + Cardinality(Locks)
    /\ \A k \in Keys : Limit[k] > 0 =>
         conns[k] = Cardinality(Counted(k)) /\ conns[k] <= Limit[k]
    /\ \A s \in Servers : wg[s] = Cardinality(Running(s))
  BY DEF PlacesAccounted, Sessions, Locks

\* The servers are numbered from 1.
LEMMA Numbered ==
  /\ Last \in Nat /\ 1 \in Servers /\ Last \in Servers
  /\ \A s \in Servers : s \in Nat /\ s >= 1 /\ s <= Last
  /\ \A s \in Servers : s # Last => s + 1 \in Servers
<1>1. Last \in Nat
  BY FS_CardinalityType, ListenerAssumption DEF Last
<1> QED
  BY <1>1, ListenerAssumption

\* No place is taken before the first connection.
LEMMA PlaceInit == Init => PlaceInv
<1> SUFFICES ASSUME Init
             PROVE  PlaceInv
  OBVIOUS
<1>1. StuckInv
  BY StuckInit
<1>2. Counters /\ AdmittedLive /\ ClosedBehind
  BY Numbered, ListenerAssumption
  DEF Init, Counters, AdmittedLive, ClosedBehind
<1>3. /\ Sessions = {} /\ Locks = {}
      /\ \A s \in Servers : Running(s) = {}
      /\ \A k \in Keys : Counted(k) = {}
  BY DEF Init, Sessions, Locks, Running, Counted
<1>4. PlacesAccounted
  <2>1. sem = Cardinality(Sessions) + Cardinality(Locks)
    BY <1>3, FS_EmptySet DEF Init
  <2>2. \A k \in Keys : conns[k] = Cardinality(Counted(k))
    BY <1>3, FS_EmptySet DEF Init
  <2>3. \A s \in Servers : wg[s] = Cardinality(Running(s))
    BY <1>3, FS_EmptySet DEF Init
  <2>4. \A k \in Keys : Limit[k] > 0 => conns[k] <= Limit[k]
    BY ListenerAssumption DEF Init
  <2> QED
    BY <2>1, <2>2, <2>3, <2>4, Account
<1>5. NoneAfterWait
  BY <1>3 DEF NoneAfterWait
<1> QED
  BY <1>1, <1>2, <1>4, <1>5 DEF PlaceInv

\* A step that takes and gives back no place keeps the accounts, and starts
\* no session behind Close.
LEMMA NoPlaceMoves ==
  ASSUME PlaceInv, Sessions' = Sessions, Locks' = Locks,
         UNCHANGED <<closing, wg, sem, conns, srv, admitted>>
  PROVE  PlacesAccounted' /\ NoneAfterWait'
<1>1. \A s \in Servers : Running(s)' = Running(s)
  <2>1. \A s \in Servers : Running(s) = {c \in Sessions : srv[c] = s}
    BY DEF Running, Sessions
  <2>2. \A s \in Servers : Running(s)' = {c \in Sessions' : srv'[c] = s}
    BY DEF Running, Sessions
  <2> QED
    BY <2>1, <2>2
<1>2. \A k \in Keys : Counted(k)' = Counted(k)
  BY DEF Counted
<1>3. PlacesAccounted'
  <2>1. PlacesAccounted
    BY DEF PlaceInv
  <2>2. /\ sem' = Cardinality(Sessions') + Cardinality(Locks')
        /\ \A k \in Keys : Limit[k] > 0 =>
             conns'[k] = Cardinality(Counted(k)') /\ conns'[k] <= Limit[k]
        /\ \A s \in Servers : wg'[s] = Cardinality(Running(s)')
    BY <1>1, <1>2, <2>1, Account
  <2> QED
    BY <2>2 DEF PlacesAccounted, Sessions, Locks
<1>4. NoneAfterWait'
  BY <1>1 DEF NoneAfterWait, PlaceInv, closing
<1> QED
  BY <1>3, <1>4

\* An accept loop takes one token for the connection it has in hand, hands it
\* to the session it starts, or gives it back.
LEMMA AcceptPlaces ==
  ASSUME PlaceInv, NEW s \in Servers,
         AcceptLoop(s) \/ AcceptFails(s) \/ \E c \in Conns : Accept(s, c)
  PROVE  PlaceInv'
<1> USE DEF given, closing, session, accepts
<1>1. StuckInv /\ StuckInv'
  BY AcceptStep DEF PlaceInv
<1>2. Counters /\ AdmittedLive /\ ClosedBehind /\ PlacesAccounted
        /\ NoneAfterWait
  BY DEF PlaceInv
<1>3. apc \in [Servers -> {"accept", "sem", "lock", "backoff", "gone"}]
  BY <1>1 DEF StuckInv, Shape
<1>4. sem = Cardinality(Sessions) + Cardinality(Locks)
  BY <1>2, Account
<1>5. Cardinality(Sessions) \in Nat /\ Cardinality(Locks) \in Nat
  BY <1>2, Finite, FS_CardinalityType
<1>6. ASSUME UNCHANGED <<closing, wg, sem, conns, session, admitted>>,
             Locks' = Locks
      PROVE  PlaceInv'
  <2>1. Counters' /\ AdmittedLive' /\ ClosedBehind'
    BY <1>2, <1>6 DEF Counters, AdmittedLive, ClosedBehind
  <2>2. Sessions' = Sessions
    BY <1>6 DEF Sessions
  <2>3. PlacesAccounted' /\ NoneAfterWait'
    BY <1>6, <2>2, NoPlaceMoves
  <2> QED
    BY <1>1, <2>1, <2>3 DEF PlaceInv
<1>7. ASSUME NEW c \in Conns, Accept(s, c)
      PROVE  PlaceInv'
  <2>1. Locks' = Locks
    BY <1>3, <1>7 DEF Accept, Locks
  <2> QED
    BY <1>6, <1>7, <2>1 DEF Accept
<1>8. CASE AcceptFails(s)
  <2>1. Locks' = Locks
    BY <1>3, <1>8 DEF AcceptFails, Locks
  <2> QED
    BY <1>6, <1>8, <2>1 DEF AcceptFails
<1>9. CASE AcceptEnds(s)
  <2>1. Locks' = Locks
    BY <1>3, <1>9 DEF AcceptEnds, Locks
  <2> QED
    BY <1>6, <1>9, <2>1 DEF AcceptEnds
<1>10. CASE Backoff(s)
  <2>1. Locks' = Locks
    BY <1>3, <1>10 DEF Backoff, Locks
  <2> QED
    BY <1>6, <1>10, <2>1 DEF Backoff
<1>11. ASSUME UNCHANGED <<closing, wg, conns, session, admitted>>,
              sem' = Cardinality(Sessions) + Cardinality(Locks'),
              Cardinality(Locks') \in Nat, sem' <= MaxConnections
       PROVE  PlaceInv'
  <2>1. sem' \in Nat
    BY <1>5, <1>11
  <2>2. Counters' /\ AdmittedLive' /\ ClosedBehind'
    BY <1>2, <1>11, <2>1 DEF Counters, AdmittedLive, ClosedBehind
  <2>3. /\ Sessions' = Sessions
        /\ \A r \in Servers : Running(r)' = Running(r)
        /\ \A k \in Keys : Counted(k)' = Counted(k)
    BY <1>11 DEF Sessions, Running, Counted
  <2>4. /\ sem' = Cardinality(Sessions') + Cardinality(Locks')
        /\ \A k \in Keys : Limit[k] > 0 =>
             conns'[k] = Cardinality(Counted(k)') /\ conns'[k] <= Limit[k]
        /\ \A r \in Servers : wg'[r] = Cardinality(Running(r)')
    BY <1>2, <1>11, <2>3, Account
  <2>5. PlacesAccounted'
    BY <2>4 DEF PlacesAccounted, Sessions, Locks
  <2>6. NoneAfterWait'
    BY <1>2, <1>11, <2>3 DEF NoneAfterWait
  <2> QED
    BY <1>1, <2>2, <2>5, <2>6 DEF PlaceInv
<1>12. CASE Semaphore(s)
  <2>1. apc[s] = "sem" /\ s \notin Locks
    BY <1>12 DEF Semaphore, Locks
  <2>2. CASE sem' = sem + 1 /\ apc' = [apc EXCEPT ![s] = "lock"]
    <3>1. Locks' = Locks \cup {s}
      BY <1>3, <2>2 DEF Locks
    <3>2. Cardinality(Locks') = Cardinality(Locks) + 1
      BY <1>2, <2>1, <3>1, Finite, FS_AddElement
    <3>3. sem' = Cardinality(Sessions) + Cardinality(Locks')
      BY <1>4, <1>5, <2>2, <3>2
    <3>4. sem' <= MaxConnections
      <4>1. sem < MaxConnections /\ sem \in Nat
        BY <1>2, <1>12, <2>2 DEF Semaphore, Counters
      <4> QED
        BY <2>2, <4>1, ListenerAssumption
    <3> QED
      BY <1>5, <1>11, <1>12, <3>2, <3>3, <3>4 DEF Semaphore
  <2>3. CASE sem' = sem /\ apc' = [apc EXCEPT ![s] = "accept"]
    <3>1. Locks' = Locks
      BY <1>3, <2>1, <2>3 DEF Locks
    <3> QED
      BY <1>6, <1>12, <2>3, <3>1 DEF Semaphore
  <2> QED
    BY <1>12, <2>2, <2>3 DEF Semaphore
<1>13. CASE TurnAway(s)
  <2>1. s \in Locks /\ Locks' = Locks \ {s}
    BY <1>3, <1>13 DEF TurnAway, Locks
  <2>2. Cardinality(Locks') = Cardinality(Locks) - 1
    BY <1>2, <2>1, Finite, FS_RemoveElement
  <2>3. Cardinality(Locks') \in Nat
    BY <1>2, <2>1, Finite, FS_RemoveElement, FS_CardinalityType
  <2>4. sem' = Cardinality(Sessions) + Cardinality(Locks')
    BY <1>4, <1>5, <1>13, <2>2 DEF TurnAway
  <2>5. sem' <= MaxConnections
    BY <1>2, <1>13, ListenerAssumption DEF TurnAway, Counters
  <2> QED
    BY <1>11, <1>13, <2>3, <2>4, <2>5 DEF TurnAway
<1>14. CASE Start(s)
  <2>1. PICK c \in Conns : c = acur[s]
    BY <1>1, <1>14 DEF Start, StuckInv, HandsApart
  <2>2. spc[c] = "free" /\ c \notin admitted
    BY <1>1, <1>2, <1>14, <2>1
    DEF Start, StuckInv, HandsApart, AdmittedLive
  <2>3. spc \in [Conns -> {"free", "arm", "recheck", "admit", "refuse",
                           "hand", "read", "busy", "bye", "left"}]
    BY <1>1 DEF StuckInv, Shape
  <2>4. Counters' /\ ClosedBehind'
    BY <1>2, <1>14, <2>1 DEF Start, Counters, ClosedBehind
  <2>5. AdmittedLive'
    BY <1>2, <1>14, <2>1, <2>2, <2>3 DEF Start, AdmittedLive, Counters
  <2>6. c \notin Sessions /\ Sessions' = Sessions \cup {c}
    BY <1>14, <2>1, <2>2, <2>3 DEF Start, Sessions
  <2>7. s \in Locks /\ Locks' = Locks \ {s}
    BY <1>3, <1>14 DEF Start, Locks
  <2>8. c \notin Running(s) /\ Running(s)' = Running(s) \cup {c}
    BY <1>2, <1>14, <2>1, <2>2, <2>3 DEF Start, Running, Counters
  <2>9. \A r \in Servers \ {s} : Running(r)' = Running(r)
    BY <1>2, <1>14, <2>1, <2>2, <2>3 DEF Start, Running, Counters
  <2>10. \A k \in Keys : Counted(k)' = Counted(k)
    BY <1>14 DEF Start, Counted
  <2>11. sem' = Cardinality(Sessions') + Cardinality(Locks')
    <3>1. Cardinality(Sessions') = Cardinality(Sessions) + 1
      BY <1>2, <2>6, Finite, FS_AddElement
    <3>2. Cardinality(Locks') = Cardinality(Locks) - 1
      BY <1>2, <2>7, Finite, FS_RemoveElement
    <3> QED
      BY <1>4, <1>5, <1>14, <3>1, <3>2 DEF Start
  <2>12. \A r \in Servers : wg'[r] = Cardinality(Running(r)')
    <3>1. Cardinality(Running(s)') = Cardinality(Running(s)) + 1
      BY <1>2, <2>8, Finite, FS_AddElement
    <3>2. \A r \in Servers : wg[r] = Cardinality(Running(r))
      BY <1>2, Account
    <3>3. wg' = [wg EXCEPT ![s] = @ + 1] /\ wg \in [Servers -> Nat]
      BY <1>2, <1>14 DEF Start, Counters
    <3>4. wg'[s] = Cardinality(Running(s)')
      BY <3>1, <3>2, <3>3
    <3>5. \A r \in Servers \ {s} : wg'[r] = Cardinality(Running(r)')
      BY <2>9, <3>2, <3>3
    <3> QED
      BY <3>4, <3>5
  <2>13. \A k \in Keys : Limit[k] > 0 =>
           conns'[k] = Cardinality(Counted(k)') /\ conns'[k] <= Limit[k]
    BY <1>2, <1>14, <2>10, Account DEF Start
  <2>14. PlacesAccounted'
    BY <2>11, <2>12, <2>13 DEF PlacesAccounted, Sessions, Locks
  <2>15. NoneAfterWait'
    BY <1>2, <1>14 DEF Start, ClosedBehind, NoneAfterWait
  <2> QED
    BY <1>1, <2>4, <2>5, <2>14, <2>15 DEF PlaceInv
<1> QED
  BY <1>7, <1>8, <1>9, <1>10, <1>12, <1>13, <1>14 DEF AcceptLoop

\* A session takes a place of its key when it is admitted, gives it back when
\* handle returns, and its token when its goroutine ends.
LEMMA SessionPlaces ==
  ASSUME PlaceInv, NEW c \in Conns,
         Own(c) \/ Hook(c) \/ Handshake(c) \/ Receive(c) \/ PeerGone(c)
  PROVE  PlaceInv'
<1> USE DEF given, closing, session, accepts
<1>1. StuckInv /\ StuckInv'
  BY SessionStep DEF PlaceInv
<1>2. Counters /\ AdmittedLive /\ ClosedBehind /\ PlacesAccounted
        /\ NoneAfterWait
  BY DEF PlaceInv
<1>3. /\ spc \in [Conns -> {"free", "arm", "recheck", "admit", "refuse",
                            "hand", "read", "busy", "bye", "left"}]
      /\ goal \in [Conns -> {"admit", "hand", "cmd", "data"}]
  BY <1>1 DEF StuckInv, Shape
<1>4. ASSUME UNCHANGED <<closing, wg, sem, conns, srv, admitted, apc>>,
             Sessions' = Sessions, AdmittedLive'
      PROVE  PlaceInv'
  <2>1. Counters' /\ ClosedBehind'
    BY <1>2, <1>4 DEF Counters, ClosedBehind
  <2>2. Locks' = Locks
    BY <1>4 DEF Locks
  <2>3. PlacesAccounted' /\ NoneAfterWait'
    BY <1>4, <2>2, NoPlaceMoves
  <2> QED
    BY <1>1, <1>4, <2>1, <2>3 DEF PlaceInv
<1>5. CASE Arm(c)
  <2>1. Sessions' = Sessions
    BY <1>3, <1>5 DEF Arm, Sessions, Goto, ArmFor
  <2>2. AdmittedLive'
    BY <1>2, <1>3, <1>5
    DEF Arm, AdmittedLive, Counters, Goto, ArmFor
  <2> QED
    BY <1>4, <1>5, <2>1, <2>2 DEF Arm
<1>6. CASE Recheck(c)
  <2>1. Sessions' = Sessions
    BY <1>3, <1>6 DEF Recheck, Sessions, Goto, ArmFor
  <2>2. AdmittedLive'
    BY <1>2, <1>3, <1>6
    DEF Recheck, AdmittedLive, Counters, Goto, ArmFor
  <2> QED
    BY <1>4, <1>6, <2>1, <2>2 DEF Recheck
<1>7. CASE Refuse(c)
  <2>1. Sessions' = Sessions
    BY <1>3, <1>7 DEF Refuse, Sessions, Goto, ArmFor
  <2>2. AdmittedLive'
    BY <1>2, <1>3, <1>7
    DEF Refuse, AdmittedLive, Counters, Goto, ArmFor
  <2> QED
    BY <1>4, <1>7, <2>1, <2>2 DEF Refuse
<1>8. CASE Refused(c)
  <2>1. Sessions' = Sessions
    BY <1>3, <1>8 DEF Refused, Sessions, Goto, ArmFor
  <2>2. AdmittedLive'
    BY <1>2, <1>3, <1>8
    DEF Refused, AdmittedLive, Counters, Goto, ArmFor
  <2> QED
    BY <1>4, <1>8, <2>1, <2>2 DEF Refused
<1>9. CASE Expired(c)
  <2>1. Sessions' = Sessions
    BY <1>3, <1>9 DEF Expired, Sessions, Goto, ArmFor, Blocked
  <2>2. AdmittedLive'
    BY <1>2, <1>3, <1>9
    DEF Expired, AdmittedLive, Counters, Goto, ArmFor, Blocked
  <2> QED
    BY <1>4, <1>9, <2>1, <2>2 DEF Expired
<1>10. CASE PeerGone(c)
  <2>1. Sessions' = Sessions
    BY <1>3, <1>10 DEF PeerGone, Sessions, Goto, ArmFor, Blocked
  <2>2. AdmittedLive'
    BY <1>2, <1>3, <1>10
    DEF PeerGone, AdmittedLive, Counters, Goto, ArmFor, Blocked
  <2> QED
    BY <1>4, <1>10, <2>1, <2>2 DEF PeerGone
<1>11. CASE Handle(c)
  <2>1. Sessions' = Sessions
    BY <1>3, <1>11 DEF Handle, Sessions, Goto, ArmFor
  <2>2. AdmittedLive'
    BY <1>2, <1>3, <1>11
    DEF Handle, AdmittedLive, Counters, Goto, ArmFor
  <2> QED
    BY <1>4, <1>11, <2>1, <2>2 DEF Handle
<1>12. CASE Handshake(c)
  <2>1. Sessions' = Sessions
    BY <1>3, <1>12 DEF Handshake, Sessions, Goto, ArmFor
  <2>2. AdmittedLive'
    BY <1>2, <1>3, <1>12
    DEF Handshake, AdmittedLive, Counters, Goto, ArmFor
  <2> QED
    BY <1>4, <1>12, <2>1, <2>2 DEF Handshake
<1>13. CASE Receive(c)
  <2>1. Sessions' = Sessions
    BY <1>3, <1>13 DEF Receive, Sessions, Goto, ArmFor
  <2>2. AdmittedLive'
    BY <1>2, <1>3, <1>13
    DEF Receive, AdmittedLive, Counters, Goto, ArmFor
  <2> QED
    BY <1>4, <1>13, <2>1, <2>2 DEF Receive
<1>14. CASE Hook(c)
  <2>1. Sessions' = Sessions
    BY <1>14 DEF Hook, Sessions
  <2>2. AdmittedLive'
    BY <1>2, <1>14 DEF Hook, AdmittedLive
  <2> QED
    BY <1>4, <1>14, <2>1, <2>2 DEF Hook
<1>15. KeyOf[c] \in Keys /\ Limit[KeyOf[c]] \in Nat
  BY ListenerAssumption DEF Keys
<1>16. ASSUME UNCHANGED <<closing, wg, sem, srv, apc>>,
              Sessions' = Sessions, AdmittedLive',
              conns' \in [Keys -> Nat], admitted' \subseteq Conns,
              \A k \in Keys : Limit[k] > 0 =>
                conns'[k] = Cardinality(Counted(k)')
                  /\ conns'[k] <= Limit[k]
       PROVE  PlaceInv'
  <2>1. Counters' /\ ClosedBehind'
    BY <1>2, <1>16 DEF Counters, ClosedBehind
  <2>2. Locks' = Locks
    BY <1>16 DEF Locks
  <2>3. \A s \in Servers : Running(s)' = Running(s)
    <3>1. \A s \in Servers : Running(s) = {d \in Sessions : srv[d] = s}
      BY DEF Running, Sessions
    <3>2. \A s \in Servers : Running(s)' = {d \in Sessions' : srv'[d] = s}
      BY DEF Running, Sessions
    <3> QED
      BY <1>16, <3>1, <3>2
  <2>4. /\ sem' = Cardinality(Sessions') + Cardinality(Locks')
        /\ \A s \in Servers : wg'[s] = Cardinality(Running(s)')
    BY <1>2, <1>16, <2>2, <2>3, Account
  <2>5. PlacesAccounted'
    BY <1>16, <2>4 DEF PlacesAccounted, Sessions, Locks
  <2>6. NoneAfterWait'
    BY <1>2, <1>16, <2>3 DEF NoneAfterWait
  <2> QED
    BY <1>1, <1>16, <2>1, <2>5, <2>6 DEF PlaceInv
<1>17. CASE Admit(c)
  <2>1. Sessions' = Sessions
    BY <1>3, <1>17 DEF Admit, Sessions, Goto, ArmFor
  <2>2. AdmittedLive'
    BY <1>2, <1>3, <1>17 DEF Admit, AdmittedLive, Counters, Goto, ArmFor
  <2>3. c \notin admitted
    BY <1>2, <1>17 DEF Admit, AdmittedLive
  <2>4. PICK k \in Keys : k = KeyOf[c]
    BY <1>15
  <2>5. /\ Limit[k] > 0 => conns[k] < Limit[k]
        /\ conns' = [conns EXCEPT ![k] = IF Limit[k] > 0 THEN @ + 1 ELSE @]
        /\ admitted' = admitted \cup {c}
        /\ conns \in [Keys -> Nat] /\ admitted \subseteq Conns
    BY <1>2, <1>17, <2>4 DEF Admit, Counters
  <2>6. conns' \in [Keys -> Nat] /\ admitted' \subseteq Conns
    BY <2>5
  <2>7. c \notin Counted(k) /\ Counted(k)' = Counted(k) \cup {c}
    BY <2>3, <2>4, <2>5 DEF Counted
  <2>8. \A j \in Keys \ {k} : Counted(j)' = Counted(j)
    BY <2>4, <2>5 DEF Counted
  <2>9. Cardinality(Counted(k)') = Cardinality(Counted(k)) + 1
    BY <1>2, <2>7, Finite, FS_AddElement
  <2>10. Limit[k] > 0 => conns'[k] = Cardinality(Counted(k)')
                           /\ conns'[k] <= Limit[k]
    <3>1. Limit[k] > 0 => conns[k] = Cardinality(Counted(k))
      BY <1>2, Account
    <3>2. Limit[k] > 0 => conns'[k] = conns[k] + 1
      BY <2>5
    <3>3. Limit[k] > 0 => conns[k] + 1 <= Limit[k]
      BY <1>15, <2>4, <2>5
    <3> QED
      BY <2>9, <3>1, <3>2, <3>3
  <2>11. \A j \in Keys \ {k} : Limit[j] > 0 =>
           conns'[j] = Cardinality(Counted(j)') /\ conns'[j] <= Limit[j]
    <3>1. \A j \in Keys \ {k} : conns'[j] = conns[j]
      BY <2>5
    <3> QED
      BY <1>2, <2>8, <3>1, Account
  <2> QED
    BY <1>16, <1>17, <2>1, <2>2, <2>6, <2>10, <2>11 DEF Admit
<1>18. CASE Return(c)
  <2>1. Sessions' = Sessions
    BY <1>3, <1>18 DEF Return, Sessions, Goto
  <2>2. AdmittedLive'
    BY <1>2, <1>3, <1>18 DEF Return, AdmittedLive, Counters, Goto
  <2>3. PICK k \in Keys : k = KeyOf[c]
    BY <1>15
  <2>4. /\ conns' = [conns EXCEPT ![k] = IF c \in admitted /\ Limit[k] > 0
                                           THEN @ - 1 ELSE @]
        /\ admitted' = admitted \ {c}
        /\ conns \in [Keys -> Nat] /\ admitted \subseteq Conns
    BY <1>2, <1>18, <2>3 DEF Return, Counters
  <2>5. \A j \in Keys \ {k} : Counted(j)' = Counted(j)
    BY <2>3, <2>4 DEF Counted
  <2>6. \A j \in Keys \ {k} : Limit[j] > 0 =>
          conns'[j] = Cardinality(Counted(j)') /\ conns'[j] <= Limit[j]
    <3>1. \A j \in Keys \ {k} : conns'[j] = conns[j]
      BY <2>4
    <3> QED
      BY <1>2, <2>5, <3>1, Account
  <2>7. Limit[k] > 0 => conns[k] = Cardinality(Counted(k))
                          /\ conns[k] <= Limit[k]
    BY <1>2, Account
  <2>8. CASE c \in admitted /\ Limit[k] > 0
    <3>1. c \in Counted(k) /\ Counted(k)' = Counted(k) \ {c}
      BY <2>3, <2>4, <2>8 DEF Counted
    <3>2. /\ Cardinality(Counted(k)') = Cardinality(Counted(k)) - 1
          /\ Cardinality(Counted(k)') \in Nat
      BY <1>2, <3>1, Finite, FS_RemoveElement, FS_CardinalityType
    <3>3. conns'[k] = conns[k] - 1
      BY <2>4, <2>8
    <3>4. conns'[k] = Cardinality(Counted(k)') /\ conns'[k] <= Limit[k]
      <4>1. \A m, n, l \in Nat : m = n + 1 /\ m <= l => n <= l
        OBVIOUS
      <4>2. conns[k] \in Nat
        BY <2>4
      <4> QED
        BY <1>15, <2>3, <2>7, <2>8, <3>2, <3>3, <4>1, <4>2
    <3>5. conns' \in [Keys -> Nat]
      BY <2>4, <2>8, <3>2, <3>3, <3>4
    <3>6. \A j \in Keys : Limit[j] > 0 =>
            conns'[j] = Cardinality(Counted(j)') /\ conns'[j] <= Limit[j]
      BY <2>6, <3>4
    <3> QED
      BY <1>16, <1>18, <2>1, <2>2, <2>4, <3>5, <3>6 DEF Return
  <2>9. CASE ~(c \in admitted /\ Limit[k] > 0)
    <3>1. conns' = conns
      BY <2>4, <2>9
    <3>2. Limit[k] > 0 => Counted(k)' = Counted(k)
      BY <2>4, <2>9 DEF Counted
    <3>3. \A j \in Keys : Limit[j] > 0 =>
            conns'[j] = Cardinality(Counted(j)') /\ conns'[j] <= Limit[j]
      BY <2>6, <2>7, <3>1, <3>2
    <3> QED
      BY <1>16, <1>18, <2>1, <2>2, <2>4, <3>1, <3>3 DEF Return
  <2> QED
    BY <2>8, <2>9
<1>19. CASE Leave(c)
  <2>1. PICK s \in Servers : s = srv[c]
    BY <1>2 DEF Counters
  <2>2. c \notin admitted
    BY <1>2, <1>19 DEF Leave, AdmittedLive
  <2>3. AdmittedLive'
    BY <1>2, <1>3, <1>19, <2>2 DEF Leave, AdmittedLive, Counters, Goto
  <2>4. c \in Sessions /\ Sessions' = Sessions \ {c}
    BY <1>3, <1>19 DEF Leave, Sessions, Goto
  <2>5. c \in Running(s) /\ Running(s)' = Running(s) \ {c}
    BY <1>2, <1>3, <1>19, <2>1 DEF Leave, Running, Counters, Goto
  <2>6. \A r \in Servers \ {s} : Running(r)' = Running(r)
    BY <1>2, <1>3, <1>19, <2>1 DEF Leave, Running, Counters, Goto
  <2>7. Locks' = Locks /\ \A k \in Keys : Counted(k)' = Counted(k)
    BY <1>19 DEF Leave, Locks, Counted
  <2>8. /\ Cardinality(Sessions') = Cardinality(Sessions) - 1
        /\ Cardinality(Sessions') \in Nat /\ Cardinality(Locks) \in Nat
    BY <1>2, <2>4, Finite, FS_RemoveElement, FS_CardinalityType
  <2>9. /\ Cardinality(Running(s)') = Cardinality(Running(s)) - 1
        /\ Cardinality(Running(s)') \in Nat
    BY <1>2, <2>5, Finite, FS_RemoveElement, FS_CardinalityType
  <2>10. sem' = Cardinality(Sessions') + Cardinality(Locks')
    <3>1. Cardinality(Sessions) \in Nat
      BY <1>2, Finite, FS_CardinalityType
    <3> QED
      BY <1>2, <1>19, <2>7, <2>8, <3>1, Account DEF Leave
  <2>11. sem' \in Nat /\ sem' <= MaxConnections
    <3>1. sem' \in Nat
      BY <2>7, <2>8, <2>10
    <3>2. sem' <= MaxConnections
      BY <1>2, <1>19, ListenerAssumption DEF Leave, Counters
    <3> QED
      BY <3>1, <3>2
  <2>12. wg' = [wg EXCEPT ![s] = @ - 1] /\ wg \in [Servers -> Nat]
    BY <1>2, <1>19, <2>1 DEF Leave, Counters
  <2>13. \A r \in Servers : wg'[r] = Cardinality(Running(r)')
    <3>1. \A r \in Servers : wg[r] = Cardinality(Running(r))
      BY <1>2, Account
    <3>2. wg'[s] = Cardinality(Running(s)')
      BY <2>9, <2>12, <3>1
    <3>3. \A r \in Servers \ {s} : wg'[r] = Cardinality(Running(r)')
      BY <2>6, <2>12, <3>1
    <3> QED
      BY <3>2, <3>3
  <2>14. wg' \in [Servers -> Nat]
    BY <2>9, <2>12, <2>13
  <2>15. srv' \in [Conns -> Servers]
    BY <1>2, <1>19, Numbered DEF Leave, Counters
  <2>16. Counters' /\ ClosedBehind'
    BY <1>2, <1>19, <2>11, <2>14, <2>15
    DEF Leave, Counters, ClosedBehind
  <2>17. \A k \in Keys : Limit[k] > 0 =>
           conns'[k] = Cardinality(Counted(k)') /\ conns'[k] <= Limit[k]
    BY <1>2, <1>19, <2>7, Account DEF Leave
  <2>18. PlacesAccounted'
    BY <2>10, <2>13, <2>17 DEF PlacesAccounted, Sessions, Locks
  <2>19. NoneAfterWait'
    <3>1. \A r \in Servers : Running(r)' \subseteq Running(r)
      BY <2>5, <2>6
    <3> QED
      BY <1>2, <1>19, <3>1 DEF Leave, NoneAfterWait
  <2> QED
    BY <1>1, <2>3, <2>16, <2>18, <2>19 DEF PlaceInv
<1> QED
  BY <1>5, <1>6, <1>7, <1>8, <1>9, <1>10, <1>11, <1>12, <1>13, <1>14,
     <1>17, <1>18, <1>19
  DEF Own

\* Close touches no counter: it waits for a server only once its counter is
\* at 0, and by then every server is marked.
LEMMA ClosePlaces ==
  ASSUME PlaceInv, Cancel \/ Shutdown
  PROVE  PlaceInv'
<1> USE DEF given, closing, session, accepts
<1>1. StuckInv'
  BY CloseStep DEF PlaceInv
<1>2. Counters /\ AdmittedLive /\ ClosedBehind /\ PlacesAccounted
        /\ NoneAfterWait
  BY DEF PlaceInv
<1>3. UNCHANGED <<wg, sem, conns, session, accepts, admitted>>
  BY DEF Cancel, Shutdown, Close, Mark, Shut, Wait
<1>4. Counters' /\ ClosedBehind'
  <2>1. CASE Cancel
    BY <1>2, <2>1 DEF Cancel, Counters, ClosedBehind
  <2>2. CASE Close
    BY <1>2, <2>2, Numbered DEF Close, Counters, ClosedBehind
  <2>3. CASE Mark
    <3>1. \A s \in Servers : s <= at => s < at \/ s = at
      BY <1>2, Numbered DEF Counters
    <3> QED
      BY <1>2, <2>3, <3>1 DEF Mark, Counters, ClosedBehind
  <2>4. CASE Shut
    <3>1. CASE at = Last
      <4>1. closed = Servers
        BY <1>2, <2>4, <3>1, Numbered DEF Shut, Counters, ClosedBehind
      <4> QED
        BY <1>2, <2>4, <3>1, <4>1, Numbered
        DEF Shut, Counters, ClosedBehind
    <3>2. CASE at # Last
      <4>1. \A s \in Servers : s < at + 1 => s <= at
        BY <1>2, Numbered DEF Counters
      <4> QED
        BY <1>2, <2>4, <3>2, <4>1, Numbered
        DEF Shut, Counters, ClosedBehind
    <3> QED
      BY <3>1, <3>2
  <2>5. CASE Wait
    BY <1>2, <2>5, Numbered DEF Wait, Counters, ClosedBehind
  <2> QED
    BY <2>1, <2>2, <2>3, <2>4, <2>5 DEF Shutdown
<1>5. AdmittedLive'
  BY <1>2, <1>3 DEF AdmittedLive
<1>6. PlacesAccounted'
  BY <1>2, <1>3 DEF PlacesAccounted, Counted, Running
<1>7. \A s \in Servers : Running(s)' = Running(s)
  BY <1>3 DEF Running
<1>8. NoneAfterWait'
  <2>1. CASE Cancel
    BY <1>2, <1>7, <2>1 DEF Cancel, NoneAfterWait
  <2>2. CASE Close \/ Mark
    BY <1>2, <1>7, <2>2 DEF Close, Mark, NoneAfterWait
  <2>3. CASE Shut
    BY <1>2, <1>7, <2>3, Numbered DEF Shut, NoneAfterWait
  <2>4. CASE Wait
    <3>1. Running(at) = {}
      BY <1>2, <2>4, Account, Finite, FS_EmptySet DEF Wait, Counters
    <3>2. CASE at = Last
      <4>1. \A s \in Servers : s < at \/ s = at
        BY <3>2, Numbered
      <4> QED
        BY <1>2, <1>7, <2>4, <3>1, <4>1 DEF Wait, NoneAfterWait
    <3>3. CASE at # Last
      <4>1. \A s \in Servers : s < at + 1 => s < at \/ s = at
        BY <1>2, Numbered DEF Counters
      <4> QED
        BY <1>2, <1>7, <2>4, <3>1, <3>3, <4>1 DEF Wait, NoneAfterWait
    <3> QED
      BY <3>2, <3>3
  <2> QED
    BY <2>1, <2>2, <2>3, <2>4 DEF Shutdown
<1> QED
  BY <1>1, <1>4, <1>5, <1>6, <1>8 DEF PlaceInv

\* The accounts of the listeners, in every reachable state.
THEOREM PlacesAlways == Spec => []PlaceInv
<1>1. PlaceInv /\ [Next]_vars => PlaceInv'
  <2> SUFFICES ASSUME PlaceInv, [Next]_vars
               PROVE  PlaceInv'
    OBVIOUS
  <2>1. CASE UNCHANGED vars
    BY <2>1
    DEF PlaceInv, StuckInv, Shape, HandsApart, Hooked, NoneStuck, Blocked,
        Counters, AdmittedLive, ClosedBehind, PlacesAccounted,
        NoneAfterWait, Running, Counted, vars
  <2>2. CASE Next
    BY <2>2, AcceptPlaces, SessionPlaces, ClosePlaces DEF Next
  <2> QED
    BY <2>1, <2>2
<1> QED
  BY <1>1, PlaceInit, PTL DEF Spec

\* However a session ends, its token, its key's place and its share of the
\* wait group are given back exactly once, and no cap is exceeded.
THEOREM EveryPlaceBack == Spec => []PlacesAccounted
<1>1. PlaceInv => PlacesAccounted
  BY DEF PlaceInv
<1> QED
  BY <1>1, PlacesAlways, PTL

\* No session runs on a server that Close has waited for: wg.Add never comes
\* after Wait, however the accept loops and stopAccepting interleave.
THEOREM NoSessionBehindClose == Spec => []NoneAfterWait
<1>1. PlaceInv => NoneAfterWait
  BY DEF PlaceInv
<1> QED
  BY <1>1, PlacesAlways, PTL
=============================================================================
