------------------------------ MODULE Listener -----------------------------
(***************************************************************************)
(* The listeners of internal/listener around their sessions: the accept    *)
(* loops, the global and the per-source connection caps, the deadlines of  *)
(* blocking reads, and Set.Close, which waits for every session.           *)
(*                                                                         *)
(* What a session says between two reads is in module Session; here it is  *)
(* one step.  A deadline is either some time ahead or already expired.     *)
(***************************************************************************)
EXTENDS Naturals, FiniteSets

CONSTANTS
  Servers,         \* listeners, numbered in the order of the configuration
  Conns,           \* connections; each may come back once it is closed
  NoConn,
  KeyOf,           \* the admission key of a connection's source
  Limit,           \* connection cap per key, 0 for none
  MaxConnections   \* limits.max_connections

Keys == {KeyOf[c] : c \in Conns}
Last == Cardinality(Servers)

ASSUME ListenerAssumption ==
  /\ IsFiniteSet(Servers) /\ Servers = 1..Last /\ Last > 0
  /\ IsFiniteSet(Conns)
  /\ NoConn \notin Conns
  /\ \A k \in Keys : Limit[k] \in Nat
  /\ MaxConnections \in Nat \ {0}

VARIABLES
  implicit,    \* servers with implicit TLS; the others offer STARTTLS
  cancelled,   \* ctx is cancelled
  cl, at,      \* where Set.Run and Set.Close are, and at which server
  open,        \* servers whose socket is open
  closed,      \* servers with Server.closed set
  wg,          \* each server's wait group
  apc, acur,   \* each accept loop, and the connection it has in hand
  sem,         \* tokens in the semaphore all servers share
  conns,       \* connCounter
  spc,         \* where each session is, "free" without one
  goal,        \* what the deadline being armed is for
  srv,         \* the server of each session
  admitted,    \* sessions that hold a place of their key
  late,        \* connections whose deadline has expired
  hook         \* sessions whose AfterFunc has yet to run

given == <<implicit, cancelled>>
accepts == <<apc, acur>>
closing == <<cl, at, open, closed>>
session == <<spc, goal, srv>>
vars == <<implicit, cancelled, cl, at, open, closed, wg, apc, acur, sem,
          conns, spc, goal, srv, admitted, late, hook>>

TypeOK ==
  /\ implicit \subseteq Servers /\ cancelled \in BOOLEAN
  /\ cl \in {"run", "mark", "shut", "wait", "done"} /\ at \in Servers
  /\ open \subseteq Servers /\ closed \subseteq Servers
  /\ wg \in [Servers -> 0..Cardinality(Conns)]
  /\ apc \in [Servers -> {"accept", "sem", "lock", "backoff", "gone"}]
  /\ acur \in [Servers -> Conns \cup {NoConn}]
  /\ sem \in 0..MaxConnections
  /\ conns \in [Keys -> Nat]
  /\ spc \in [Conns -> {"free", "arm", "recheck", "admit", "refuse", "hand",
                        "read", "busy", "bye", "left"}]
  /\ goal \in [Conns -> {"admit", "hand", "cmd", "data"}]
  /\ srv \in [Conns -> Servers]
  /\ admitted \subseteq Conns /\ late \subseteq Conns /\ hook \subseteq Conns

Init ==
  /\ implicit \in SUBSET Servers
  /\ cancelled = FALSE /\ cl = "run" /\ at = 1
  /\ open = Servers /\ closed = {}
  /\ wg = [s \in Servers |-> 0]
  /\ apc = [s \in Servers |-> "accept"] /\ acur = [s \in Servers |-> NoConn]
  /\ sem = 0 /\ conns = [k \in Keys |-> 0]
  /\ spc = [c \in Conns |-> "free"] /\ goal = [c \in Conns |-> "admit"]
  /\ srv = [c \in Conns |-> 1]
  /\ admitted = {} /\ late = {} /\ hook = {}

-----------------------------------------------------------------------------
(* The accept loop of a server.                                            *)

InHand(c) == \E s \in Servers : acur[s] = c

Accept(s, c) ==
  /\ apc[s] = "accept" /\ s \in open
  /\ spc[c] = "free" /\ ~InHand(c)
  /\ apc' = [apc EXCEPT ![s] = "sem"]
  /\ acur' = [acur EXCEPT ![s] = c]
  /\ UNCHANGED <<given, closing, wg, sem, conns, session, admitted, late,
                 hook>>

\* The socket is closed.
AcceptEnds(s) ==
  /\ apc[s] = "accept" /\ s \notin open
  /\ apc' = [apc EXCEPT ![s] = "gone"]
  /\ UNCHANGED <<given, closing, wg, acur, sem, conns, session, admitted,
                 late, hook>>

\* Descriptors have run out, say: the loop pauses, unless ctx is cancelled.
AcceptFails(s) ==
  /\ apc[s] = "accept" /\ s \in open
  /\ apc' = [apc EXCEPT ![s] = IF cancelled THEN "gone" ELSE "backoff"]
  /\ UNCHANGED <<given, closing, wg, acur, sem, conns, session, admitted,
                 late, hook>>

\* The pause, which a cancellation cuts short.
Backoff(s) ==
  /\ apc[s] = "backoff"
  /\ \/ apc' = [apc EXCEPT ![s] = "accept"]
     \/ cancelled /\ apc' = [apc EXCEPT ![s] = "gone"]
  /\ UNCHANGED <<given, closing, wg, acur, sem, conns, session, admitted,
                 late, hook>>

\* The semaphore is taken without waiting, or the connection is closed.
Semaphore(s) ==
  /\ apc[s] = "sem"
  /\ \/ /\ sem < MaxConnections /\ sem' = sem + 1
        /\ apc' = [apc EXCEPT ![s] = "lock"]
        /\ UNCHANGED acur
     \/ /\ sem = MaxConnections /\ UNCHANGED sem
        /\ apc' = [apc EXCEPT ![s] = "accept"]
        /\ acur' = [acur EXCEPT ![s] = NoConn]
  /\ UNCHANGED <<given, closing, wg, conns, session, admitted, late, hook>>

\* Mutant: wg.Add without a look at closed.
Start_Unchecked(s) ==
  /\ apc[s] = "lock"
  /\ apc' = [apc EXCEPT ![s] = "accept"]
  /\ acur' = [acur EXCEPT ![s] = NoConn]
  /\ wg' = [wg EXCEPT ![s] = @ + 1]
  /\ spc' = [spc EXCEPT ![acur[s]] = "arm"]
  /\ goal' = [goal EXCEPT ![acur[s]] = "admit"]
  /\ srv' = [srv EXCEPT ![acur[s]] = s]
  /\ hook' = hook \cup {acur[s]}
  /\ late' = late \ {acur[s]}
  /\ UNCHANGED <<given, closing, sem, conns, admitted>>

\* Under closeMu: a session starts, with its hook on ctx, ...
Start(s) ==
  /\ apc[s] = "lock" /\ s \notin closed
  /\ apc' = [apc EXCEPT ![s] = "accept"]
  /\ acur' = [acur EXCEPT ![s] = NoConn]
  /\ wg' = [wg EXCEPT ![s] = @ + 1]
  /\ spc' = [spc EXCEPT ![acur[s]] = "arm"]
  /\ goal' = [goal EXCEPT ![acur[s]] = "admit"]
  /\ srv' = [srv EXCEPT ![acur[s]] = s]
  /\ hook' = hook \cup {acur[s]}
  /\ late' = late \ {acur[s]}
  /\ UNCHANGED <<given, closing, sem, conns, admitted>>

\* ... or the server is closed and the connection with it.
TurnAway(s) ==
  /\ apc[s] = "lock" /\ s \in closed
  /\ apc' = [apc EXCEPT ![s] = "accept"]
  /\ acur' = [acur EXCEPT ![s] = NoConn]
  /\ sem' = sem - 1
  /\ UNCHANGED <<given, closing, wg, conns, session, admitted, late, hook>>

-----------------------------------------------------------------------------
(* A session.                                                              *)

Goto(c, p) == spc' = [spc EXCEPT ![c] = p]

\* A deadline is to be armed for what follows.
ArmFor(c, g) == Goto(c, "arm") /\ goal' = [goal EXCEPT ![c] = g]

Arm(c) ==
  /\ spc[c] = "arm"
  /\ Goto(c, "recheck")
  /\ late' = late \ {c}
  /\ UNCHANGED <<given, closing, wg, accepts, sem, conns, goal, srv,
                 admitted, hook>>

\* Mutant: the deadline just armed is taken as it is.
Recheck_Trusts(c) ==
  /\ spc[c] = "recheck"
  /\ Goto(c, CASE goal[c] = "admit" -> "admit"
               [] goal[c] = "hand" -> "hand"
               [] goal[c] = "cmd" -> IF cancelled THEN "bye" ELSE "read"
               [] goal[c] = "data" -> "read")
  /\ UNCHANGED <<given, closing, wg, accepts, sem, conns, goal, srv,
                 admitted, late, hook>>

\* armConn, armRead: a cancellation that came first expires it again.  The
\* command loop then looks at ctx itself and says 421.
Recheck(c) ==
  /\ spc[c] = "recheck"
  /\ late' = IF cancelled THEN late \cup {c} ELSE late
  /\ Goto(c, CASE goal[c] = "admit" -> "admit"
               [] goal[c] = "hand" -> "hand"
               [] goal[c] = "cmd" -> IF cancelled THEN "bye" ELSE "read"
               [] goal[c] = "data" -> "read")
  /\ UNCHANGED <<given, closing, wg, accepts, sem, conns, goal, srv,
                 admitted, hook>>

\* The hook of context.AfterFunc.
Hook(c) ==
  /\ cancelled /\ c \in hook
  /\ hook' = hook \ {c}
  /\ late' = late \cup {c}
  /\ UNCHANGED <<given, closing, wg, accepts, sem, conns, session,
                 admitted>>

\* connCounter.acquire.
Admit(c) ==
  LET k == KeyOf[c]
  IN  /\ spc[c] = "admit"
      /\ Limit[k] > 0 => conns[k] < Limit[k]
      /\ conns' = [conns EXCEPT ![k] = IF Limit[k] > 0 THEN @ + 1 ELSE @]
      /\ admitted' = admitted \cup {c}
      /\ ArmFor(c, IF srv[c] \in implicit THEN "hand" ELSE "cmd")
      /\ UNCHANGED <<given, closing, wg, accepts, sem, srv, late, hook>>

\* 421 under a deadline of its own, refusalTimeout.
Refuse(c) ==
  /\ spc[c] = "admit"
  /\ Limit[KeyOf[c]] > 0 /\ conns[KeyOf[c]] >= Limit[KeyOf[c]]
  /\ Goto(c, "refuse")
  /\ late' = late \ {c}
  /\ UNCHANGED <<given, closing, wg, accepts, sem, conns, goal, srv,
                 admitted, hook>>

Refused(c) ==
  /\ spc[c] = "refuse"
  /\ Goto(c, "bye")
  /\ UNCHANGED <<given, closing, wg, accepts, sem, conns, goal, srv,
                 admitted, late, hook>>

Blocked(c) == spc[c] \in {"hand", "read"}

\* What the peer does: it completes the handshake, sends something, or goes.
Handshake(c) ==
  /\ spc[c] = "hand" /\ c \notin late
  /\ ArmFor(c, "cmd")
  /\ UNCHANGED <<given, closing, wg, accepts, sem, conns, srv, admitted,
                 late, hook>>

\* Buffered input is read past a deadline, too.
Receive(c) ==
  /\ spc[c] = "read"
  /\ Goto(c, "busy")
  /\ UNCHANGED <<given, closing, wg, accepts, sem, conns, goal, srv,
                 admitted, late, hook>>

\* The peer goes, a timeout passes, or the last reply could not be written.
PeerGone(c) ==
  /\ Blocked(c) \/ (spc[c] = "arm" /\ goal[c] = "cmd")
  /\ Goto(c, "bye")
  /\ UNCHANGED <<given, closing, wg, accepts, sem, conns, goal, srv,
                 admitted, late, hook>>

\* A read past its deadline fails at once; a handshake ends with ctx too.
Expired(c) ==
  /\ Blocked(c)
  /\ c \in late \/ (spc[c] = "hand" /\ cancelled)
  /\ Goto(c, "bye")
  /\ UNCHANGED <<given, closing, wg, accepts, sem, conns, goal, srv,
                 admitted, late, hook>>

\* The command is handled: another is read, a message or a handshake follows,
\* or the session ends (QUIT, an error, its time limit, a panic).
Handle(c) ==
  /\ spc[c] = "busy"
  /\ \/ ArmFor(c, "cmd")
     \/ goal[c] = "cmd" /\ ArmFor(c, "data")
     \/ goal[c] = "cmd" /\ srv[c] \notin implicit /\ ArmFor(c, "hand")
     \/ Goto(c, "bye") /\ UNCHANGED goal
  /\ UNCHANGED <<given, closing, wg, accepts, sem, conns, srv, admitted,
                 late, hook>>

\* Mutant: only a session past its handshake gives its place back.
Return_AfterHandshake(c) ==
  LET k == KeyOf[c]
  IN  /\ spc[c] = "bye"
      /\ Goto(c, "left")
      /\ conns' = [conns EXCEPT ![k] =
                     IF c \in admitted /\ Limit[k] > 0 /\ goal[c] # "hand"
                       THEN @ - 1 ELSE @]
      /\ admitted' = admitted \ {c}
      /\ hook' = hook \ {c}
      /\ UNCHANGED <<given, closing, wg, accepts, sem, goal, srv, late>>

\* handle returns: connCounter.release, the hook is stopped, the connection
\* closed.
Return(c) ==
  LET k == KeyOf[c]
  IN  /\ spc[c] = "bye"
      /\ Goto(c, "left")
      /\ conns' = [conns EXCEPT ![k] = IF c \in admitted /\ Limit[k] > 0
                                         THEN @ - 1 ELSE @]
      /\ admitted' = admitted \ {c}
      /\ hook' = hook \ {c}
      /\ UNCHANGED <<given, closing, wg, accepts, sem, goal, srv, late>>

\* The goroutine's deferred function.
Leave(c) ==
  /\ spc[c] = "left"
  /\ Goto(c, "free")
  /\ goal' = [goal EXCEPT ![c] = "admit"]
  /\ srv' = [srv EXCEPT ![c] = 1]
  /\ late' = late \ {c}
  /\ sem' = sem - 1
  /\ wg' = [wg EXCEPT ![srv[c]] = @ - 1]
  /\ UNCHANGED <<given, closing, accepts, conns, admitted, hook>>

-----------------------------------------------------------------------------
(* Shutdown: Set.Run and Set.Close.                                        *)

Cancel ==
  /\ ~cancelled /\ cancelled' = TRUE
  /\ UNCHANGED <<implicit, closing, wg, accepts, sem, conns, session, admitted,
                 late, hook>>

Close ==
  /\ cl = "run" /\ cancelled
  /\ cl' = "mark"
  /\ UNCHANGED <<given, at, open, closed, wg, accepts, sem, conns, session,
                 admitted, late, hook>>

\* stopAccepting: the flag under closeMu, then the socket.
Mark ==
  /\ cl = "mark"
  /\ closed' = closed \cup {at}
  /\ cl' = "shut"
  /\ UNCHANGED <<given, at, open, wg, accepts, sem, conns, session,
                 admitted, late, hook>>

Shut ==
  /\ cl = "shut"
  /\ open' = open \ {at}
  /\ IF at = Last THEN cl' = "wait" /\ at' = 1
                  ELSE cl' = "mark" /\ at' = at + 1
  /\ UNCHANGED <<given, closed, wg, accepts, sem, conns, session, admitted,
                 late, hook>>

Wait ==
  /\ cl = "wait" /\ wg[at] = 0
  /\ IF at = Last THEN cl' = "done" /\ at' = at
                  ELSE cl' = "wait" /\ at' = at + 1
  /\ UNCHANGED <<given, open, closed, wg, accepts, sem, conns, session,
                 admitted, late, hook>>

-----------------------------------------------------------------------------
AcceptLoop(s) ==
  \/ AcceptEnds(s) \/ Backoff(s) \/ Semaphore(s) \/ Start(s) \/ TurnAway(s)

\* The steps a session takes without waiting for its peer.
Own(c) ==
  \/ Arm(c) \/ Recheck(c) \/ Admit(c) \/ Refuse(c) \/ Refused(c)
  \/ Expired(c) \/ Handle(c) \/ Return(c) \/ Leave(c)

Shutdown == Close \/ Mark \/ Shut \/ Wait

Next ==
  \/ Cancel \/ Shutdown
  \/ \E s \in Servers : AcceptLoop(s) \/ AcceptFails(s)
                          \/ \E c \in Conns : Accept(s, c)
  \/ \E c \in Conns : Own(c) \/ Hook(c) \/ Handshake(c) \/ Receive(c)
                        \/ PeerGone(c)

\* Every goroutine runs on and every bounded wait ends.  Nothing is assumed
\* of the peers: they need neither send, nor leave, nor time out.
Spec ==
  /\ Init /\ [][Next]_vars
  /\ WF_vars(Shutdown)
  /\ \A s \in Servers : WF_vars(AcceptLoop(s))
  /\ \A c \in Conns : WF_vars(Own(c)) /\ WF_vars(Hook(c))

-----------------------------------------------------------------------------
(* Properties.                                                             *)

Running(s) == {c \in Conns : spc[c] # "free" /\ srv[c] = s}
Counted(k) == {c \in admitted : KeyOf[c] = k}

\* However sessions end, every place is given back and none twice: the
\* semaphore counts the sessions and the connections about to become one, a
\* key's counter the sessions it admitted, and no cap is exceeded.
PlacesAccounted ==
  /\ sem = Cardinality({c \in Conns : spc[c] # "free"})
             + Cardinality({s \in Servers : apc[s] = "lock"})
  /\ \A k \in Keys : Limit[k] > 0 =>
       conns[k] = Cardinality(Counted(k)) /\ conns[k] <= Limit[k]
  /\ \A s \in Servers : wg[s] = Cardinality(Running(s))

\* A server Close has waited for has no session, and none starts behind its
\* back: wg.Add never comes after the Wait.  (closeMu and closed.)
NoneAfterWait ==
  \A s \in Servers :
    cl = "done" \/ (cl = "wait" /\ s < at) => Running(s) = {}

\* After a cancellation no session sits in a read that will not end: its
\* deadline has expired, or its hook is about to expire it.  (armRead and
\* armConn against context.AfterFunc.)
NoneStuck ==
  cancelled => \A c \in Conns : Blocked(c) => c \in late \cup hook

\* Close returns and the accept loops end, whatever the peers do.
Closes == cancelled ~> (cl = "done" /\ \A s \in Servers : apc[s] = "gone")
=============================================================================
