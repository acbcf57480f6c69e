--------------------------- MODULE ServiceProofs ---------------------------
(***************************************************************************)
(* Proofs about the two ends of serve: the configuration it loads and what *)
(* that means for a message (Policy, with Addressing, Router, Rewrite and  *)
(* Config), and the process it then runs (Service, with Notices and        *)
(* Watch).  The two specifications share no state, and the definitions and *)
(* theorems of each are named apart.                                       *)
(*                                                                         *)
(* Of the process, for any number of clients, caps, goroutines and         *)
(* deadlines: no failure is lost between the lists and the digests, the    *)
(* hourly budget is exact, the deferred calls of serve come in a safe      *)
(* order, and warnings are paced.  Of the configuration, for any file, any *)
(* address width and any message: what is accepted can be run with, every  *)
(* message is routed by the documented precedence, and rewriting loses     *)
(* neither the sender nor the answers to it.                               *)
(***************************************************************************)
EXTENDS Service, Policy, FiniteSetTheorems, TLAPS

-----------------------------------------------------------------------------
(* The process.                                                            *)

Steps == {"idle", "range", "send", "refund", "putback"}

\* The types of the notifier's state.
NoticesShape ==
  /\ now \in Nat /\ hourStart \in Nat
  /\ pending \in [Origins -> Nat] /\ overflow \in [Origins -> Nat]
  /\ hand \in [Origins -> Nat] /\ handOver \in [Origins -> Nat]
  /\ recorded \in [Origins -> Nat] /\ told \in [Origins -> Nat]
  /\ window \in Nat /\ sentThisHour \in Nat
  /\ at \in Origins \cup {NoOrigin} /\ step \in Steps /\ held \subseteq Origins

\* Dispatch has an origin in hand while it works on one, and nothing in hand
\* between two rounds; an overflow it holds sits beside a full list too.
InDispatch ==
  /\ step \in {"send", "refund", "putback"} => at \in Notified
  /\ \A o \in Origins :
       /\ step = "idle" => hand[o] = 0
       /\ handOver[o] > 0 => hand[o] = MaxPending
       /\ hand[o] <= MaxPending

NoticesInv ==
  NoticesShape /\ InDispatch /\ FailuresAccounted /\ BudgetHonest

\* The stages of serve before there is a goroutine, and those after the last
\* one has been waited for.
Starting ==
  {"load", "environment", "log", "certificate", "spool", "store",
   "listener", "tokens", "verify", "workers"}
After == {"closed", "exit", "exited"}

\* Where serve is says what may still be open or running.
Staged ==
  /\ stage \in Starting => running = {} /\ nphase = "run"
  /\ stage \in After => running = {} /\ store # "open"
  /\ store = "closed" => stage \in After
  /\ logFile = "closed" => stage \in {"exit", "exited"}
  /\ sockets = "open" => stage = "serve"

\* The last dispatch comes after the manager: from then on, as before there
\* was one, what is pending is what dispatch put back.
LastWord ==
  /\ nphase = "flush" =>
       /\ "manager" \notin running
       /\ \A o \in Notified : pending[o] + overflow[o] > 0 => o \in held
  /\ nphase # "flush" /\ "notifier" \notin running =>
       /\ "manager" \notin running
       /\ \A o \in Origins : pending[o] = 0 /\ overflow[o] = 0

\* What the watcher remembers of its mails is what was mailed.
Watched ==
  /\ checked \in Nat \cup {-1}
  /\ DOMAIN lastSent \subseteq Items /\ DOMAIN mailed \subseteq Items
  /\ \A it \in DOMAIN lastSent : lastSent[it] \in Nat
  /\ \A it \in DOMAIN mailed : mailed[it] \in Nat
  /\ Contact => /\ DOMAIN mailed = DOMAIN lastSent
                /\ \A it \in DOMAIN mailed : mailed[it] = lastSent[it]
  /\ ~Contact => DOMAIN mailed = {}
  /\ Contact => \A it \in collect(checked) :
       \/ checked = -1 \/ it \in refused
       \/ it \in DOMAIN mailed /\ checked - mailed[it] < Resend

ServiceInv == NoticesInv /\ Staged /\ LastWord /\ Watched

-----------------------------------------------------------------------------
(* The notifier.                                                           *)

\* What requeuePending keeps of a list: as much as there is room for.
LEMMA Kept ==
  ASSUME NEW have \in Nat, NEW there \in Nat, there <= MaxPending
  PROVE  LET room == Max({MaxPending - there, 0})
             kept == Min({have, room})
         IN  /\ kept \in Nat /\ kept <= have /\ there + kept <= MaxPending
             /\ kept < have => there + kept = MaxPending
<1> DEFINE room == Max({MaxPending - there, 0})
           kept == Min({have, room})
<1>1. room = MaxPending - there
  BY NoticesAssumption DEF Max
<1>2. room \in Nat
  BY <1>1, NoticesAssumption
<1> HIDE DEF room
<1>3. kept = IF have <= room THEN have ELSE room
  BY <1>2 DEF Min
<1> HIDE DEF kept
<1>4. /\ kept \in Nat /\ kept <= have /\ there + kept <= MaxPending
      /\ kept < have => there + kept = MaxPending
  BY <1>1, <1>2, <1>3, NoticesAssumption
<1> QED
  BY <1>4 DEF room, kept

\* The notifier begins with nothing.
LEMMA NoticesStart == NoticesInit => NoticesInv
BY NoticesAssumption
   DEF NoticesInit, NoticesInv, NoticesShape, Steps, InDispatch,
       FailuresAccounted, InHand, BudgetHonest

\* A failure is recorded in the list, or counted beside a full one.
LEMMA RecordStep ==
  ASSUME NoticesInv, NEW o \in Origins, RecordFail(o)
  PROVE  NoticesInv'
<1> USE NoticesAssumption DEF NoticesInv
<1>1. NoticesShape'
  BY DEF NoticesShape, RecordFail
<1>2. InDispatch' /\ BudgetHonest'
  BY DEF InDispatch, BudgetHonest, RecordFail
<1>3. FailuresAccounted'
  BY DEF NoticesShape, FailuresAccounted, InHand, RecordFail
<1> QED
  BY <1>1, <1>2, <1>3

\* A dispatch begins: what was pending is in its hands.
LEMMA SwapStep ==
  ASSUME NoticesInv, DispatchSwap
  PROVE  NoticesInv'
<1> USE NoticesAssumption DEF NoticesInv
<1>1. NoticesShape'
  BY DEF NoticesShape, DispatchSwap, Steps
<1>2. InDispatch'
  BY DEF NoticesShape, InDispatch, FailuresAccounted, DispatchSwap
<1>3. BudgetHonest'
  BY DEF NoticesShape, BudgetHonest, DispatchSwap
<1>4. FailuresAccounted'
  <2>1. ASSUME NEW o \in Origins
        PROVE  /\ hand[o] = 0 /\ handOver[o] = 0
               /\ hand'[o] = pending[o] /\ handOver'[o] = overflow[o]
               /\ pending'[o] = 0 /\ overflow'[o] = 0
               /\ recorded'[o] = recorded[o] /\ told'[o] = told[o]
               /\ pending[o] \in Nat /\ overflow[o] \in Nat
               /\ told[o] \in Nat
    BY DEF NoticesShape, InDispatch, DispatchSwap
  <2> QED
    BY <2>1 DEF FailuresAccounted, InHand
<1> QED
  BY <1>1, <1>2, <1>3, <1>4

\* A step of a dispatch moves failures between its hands, the digests and
\* the lists, and loses none.
LEMMA DispatchStepKeeps ==
  ASSUME NoticesInv, DispatchStep
  PROVE  NoticesInv'
<1> USE NoticesAssumption DEF NoticesInv
<1>1. ASSUME NEW o \in Origins, DispatchSkip(o)
      PROVE  NoticesInv'
  BY <1>1 DEF NoticesShape, InDispatch, FailuresAccounted, InHand,
              BudgetHonest, DispatchSkip
<1>2. ASSUME NEW o \in Origins, DispatchCharge(o)
      PROVE  NoticesInv'
  BY <1>2 DEF NoticesShape, Steps, InDispatch, FailuresAccounted, InHand,
              BudgetHonest, DispatchCharge
<1>3. CASE DispatchSend
  <2>1. at \in Origins
    BY <1>3 DEF InDispatch, DispatchSend
  <2>2. NoticesShape'
    BY <1>3, <2>1 DEF NoticesShape, Steps, DispatchSend
  <2>3. InDispatch' /\ BudgetHonest'
    BY <1>3, <2>1
       DEF NoticesShape, InDispatch, BudgetHonest, DispatchSend
  <2>4. FailuresAccounted'
    BY <1>3, <2>1
       DEF NoticesShape, FailuresAccounted, InHand, DispatchSend
  <2> QED
    BY <2>2, <2>3, <2>4
<1>4. CASE DispatchRefund
  BY <1>4 DEF NoticesShape, Steps, InDispatch, FailuresAccounted, InHand,
              BudgetHonest, DispatchRefund
<1>5. CASE DispatchPutBack
  <2> DEFINE room == Max({MaxPending - pending[at], 0})
             kept == Min({hand[at], room})
  <2>1. at \in Origins
    BY <1>5 DEF InDispatch, DispatchPutBack
  <2>2. /\ kept \in Nat /\ kept <= hand[at]
        /\ pending[at] + kept <= MaxPending
        /\ kept < hand[at] => pending[at] + kept = MaxPending
    BY <2>1, Kept DEF NoticesShape, FailuresAccounted
  <2>3. /\ pending' = [pending EXCEPT ![at] = @ + kept]
        /\ overflow' = [overflow EXCEPT ![at] =
                          @ + handOver[at] + (hand[at] - kept)]
        /\ hand' = [hand EXCEPT ![at] = 0]
        /\ handOver' = [handOver EXCEPT ![at] = 0]
        /\ held' = held \cup {at} /\ at' = NoOrigin /\ step' = "range"
        /\ step = "putback"
        /\ UNCHANGED <<now, hourStart, sentThisHour, recorded, told, window>>
    BY <1>5 DEF DispatchPutBack
  <2> HIDE DEF kept
  <2>4. NoticesShape'
    BY <2>1, <2>2, <2>3 DEF NoticesShape, Steps
  <2>5. InDispatch' /\ BudgetHonest'
    BY <2>1, <2>3 DEF NoticesShape, InDispatch, BudgetHonest
  <2>6. FailuresAccounted'
    BY <2>1, <2>2, <2>3
       DEF NoticesShape, InDispatch, FailuresAccounted, InHand
  <2> QED
    BY <2>4, <2>5, <2>6
<1>6. CASE DispatchEnd
  BY <1>6 DEF NoticesShape, Steps, InDispatch, FailuresAccounted, InHand,
              BudgetHonest, DispatchEnd
<1> QED
  BY <1>1, <1>2, <1>3, <1>4, <1>5, <1>6 DEF DispatchStep

\* The clock does not concern what is pending.
LEMMA TickKeeps ==
  ASSUME NoticesInv, Tick
  PROVE  NoticesInv'
BY DEF Tick, NoticesInv, NoticesShape, InDispatch, FailuresAccounted,
       InHand, BudgetHonest

-----------------------------------------------------------------------------
(* The watcher.                                                            *)

\* Nothing has been checked or mailed.
LEMMA WatchStart == WatchInit => Watched
<1> SUFFICES ASSUME WatchInit
             PROVE  Watched
  OBVIOUS
<1>1. DOMAIN lastSent = {} /\ DOMAIN mailed = {} /\ checked = -1
  BY DEF WatchInit
<1> QED
  BY <1>1 DEF Watched

\* An item that is not due was mailed about recently; one that is due was
\* not, whenever it was mailed about at all.
LEMMA DueOrRecent ==
  ASSUME Watched, now \in Nat, Contact
  PROVE  /\ \A it \in collect(now) \ dueItems :
              it \in DOMAIN mailed /\ now - mailed[it] < Resend
         /\ \A it \in DOMAIN mailed :
              it \in dueItems => now - mailed[it] >= Resend
BY WatchAssumption DEF Watched, dueItems

\* A check keeps the record true, whether its mail is queued or refused.
LEMMA CheckKeeps ==
  ASSUME Watched, now \in Nat, check
  PROVE  Watched'
<1> USE WatchAssumption
<1>1. checked' = now
  BY DEF check
<1>2. dueItems \subseteq Items /\ collect(now) \subseteq Items
  BY DEF dueItems, collect
<1>3. CASE /\ lastSent' = Stamp(lastSent, dueItems)
           /\ mailed' = Stamp(mailed, IF Contact THEN dueItems ELSE {})
  <2>1. /\ DOMAIN lastSent' = dueItems \cup DOMAIN lastSent
        /\ \A it \in DOMAIN lastSent' :
             lastSent'[it] = IF it \in dueItems THEN now ELSE lastSent[it]
    BY <1>3 DEF Stamp
  <2>2. CASE Contact
    <3>1. /\ DOMAIN mailed' = dueItems \cup DOMAIN mailed
          /\ \A it \in DOMAIN mailed' :
               mailed'[it] = IF it \in dueItems THEN now ELSE mailed[it]
      BY <1>3, <2>2 DEF Stamp
    <3>2. ASSUME NEW it \in collect(now)
          PROVE  it \in DOMAIN mailed' /\ now - mailed'[it] < Resend
      <4>1. CASE it \in dueItems
        BY <3>1, <4>1
      <4>2. CASE it \notin dueItems
        BY <2>2, <3>1, <4>2, DueOrRecent
      <4> QED
        BY <4>1, <4>2
    <3>3. collect(checked)' = collect(now)
      BY <1>1 DEF collect
    <3> QED
      BY <1>1, <1>2, <2>1, <2>2, <3>1, <3>2, <3>3 DEF Watched
  <2>3. CASE ~Contact
    <3>1. DOMAIN mailed' = {}
      BY <1>3, <2>3 DEF Stamp, Watched
    <3> QED
      BY <1>1, <1>2, <2>1, <2>3, <3>1 DEF Watched
  <2> QED
    BY <2>2, <2>3
<1>4. CASE Contact /\ refused' = dueItems /\ UNCHANGED <<lastSent, mailed>>
  <2>1. collect(checked)' = collect(now)
    BY <1>1 DEF collect
  <2>2. \A it \in collect(now) :
          \/ it \in refused'
          \/ it \in DOMAIN mailed /\ now - mailed[it] < Resend
    BY <1>4, DueOrRecent
  <2> QED
    BY <1>1, <1>4, <2>1, <2>2 DEF Watched
<1> QED
  BY <1>3, <1>4 DEF check

-----------------------------------------------------------------------------
(* The service.                                                            *)

\* serve has started nothing.
LEMMA ServiceStart == Init => ServiceInv
<1> SUFFICES ASSUME Init
             PROVE  ServiceInv
  OBVIOUS
<1>1. NoticesInv /\ Watched
  BY NoticesStart, WatchStart DEF Init
<1>2. Staged
  BY DEF Init, Staged, Starting, After
<1>3. LastWord
  BY DEF Init, NoticesInit, LastWord
<1> QED
  BY <1>1, <1>2, <1>3 DEF ServiceInv

\* What the rest of the service does not touch stays as it is.
LEMMA Untouched ==
  /\ NoticesInv /\ UNCHANGED noticesVars => NoticesInv'
  /\ Watched /\ UNCHANGED watchVars => Watched'
  /\ Staged /\ UNCHANGED serviceVars => Staged'
<1>1. NoticesInv /\ UNCHANGED noticesVars => NoticesInv'
  BY DEF noticesVars, notifier, NoticesInv, NoticesShape, InDispatch,
         FailuresAccounted, InHand, BudgetHonest
<1>2. Watched /\ UNCHANGED watchVars => Watched'
  BY DEF watchVars, Watched, collect
<1>3. Staged /\ UNCHANGED serviceVars => Staged'
  BY DEF serviceVars, files, Staged
<1> QED
  BY <1>1, <1>2, <1>3

\* A step of serve, or a signal: goroutines are started in front of the ones
\* that stop them, and everything is closed behind them.
LEMMA ServeStep ==
  ASSUME ServiceInv, Serve \/ Signal
  PROVE  ServiceInv'
<1> USE ServiceAssumption DEF ServiceInv
<1> USE DEF Staged, Starting, After
<1>1. UNCHANGED <<noticesVars, watchVars, nphase>>
  BY DEF Serve, Signal, Load, checkEnvironment, openLog, loadCertificate,
         openSpool, OpenStore, NewListener, buildTokenSources, verifyTokens,
         Startup, StartWorkers, StartHTTP, Bind, SetRun, AwaitDone, Stop,
         Close, CloseLog, Exit
<1>2. NoticesInv' /\ Watched'
  BY <1>1, Untouched
<1>3. UNCHANGED <<pending, overflow, held, step>>
  BY <1>1 DEF noticesVars, notifier
<1>4. ASSUME UNCHANGED running
      PROVE  LastWord'
  BY <1>1, <1>3, <1>4 DEF LastWord
<1>5. CASE \/ Load \/ checkEnvironment \/ openLog \/ loadCertificate
           \/ openSpool \/ OpenStore \/ NewListener \/ buildTokenSources
           \/ verifyTokens
  <2>1. UNCHANGED <<running, nphase, sockets>>
    BY <1>5
       DEF Load, checkEnvironment, openLog, loadCertificate, openSpool,
           OpenStore, NewListener, buildTokenSources, verifyTokens, Startup,
           files
  <2>2. Staged'
    BY <1>5, <2>1
       DEF Load, checkEnvironment, openLog, loadCertificate, openSpool,
           OpenStore, NewListener, buildTokenSources, verifyTokens, Startup,
           files
  <2> QED
    BY <1>2, <1>4, <2>1, <2>2
<1>6. CASE StartWorkers
  <2>1. Staged'
    BY <1>6 DEF StartWorkers, files
  <2>2. running' = Workers /\ nphase' = "run" /\ "notifier" \in running'
    BY <1>6 DEF StartWorkers, Workers
  <2> QED
    BY <1>2, <2>1, <2>2 DEF LastWord
<1>7. CASE StartHTTP
  <2>1. Staged'
    BY <1>7 DEF StartHTTP, files
  <2>2. LastWord'
    BY <1>1, <1>3, <1>7 DEF StartHTTP, LastWord
  <2> QED
    BY <1>2, <2>1, <2>2
<1>8. CASE Bind \/ SetRun \/ AwaitDone \/ Stop \/ Close \/ CloseLog \/ Exit
           \/ Signal
  <2>1. Staged' /\ UNCHANGED running
    BY <1>8 DEF Bind, SetBind, SetRun, AwaitDone, Stop, Close, CloseLog,
                Exit, Signal, files
  <2> QED
    BY <1>2, <1>4, <2>1
<1> QED
  BY <1>5, <1>6, <1>7, <1>8 DEF Serve

\* A goroutine of the service acts or returns.
LEMMA WorkerStep ==
  ASSUME ServiceInv,
         \/ NotifierNext \/ Watches \/ Time
         \/ \E g \in running : Return(g)
         \/ \E o \in Origins : Fails(o)
  PROVE  ServiceInv'
<1> USE NoticesAssumption DEF ServiceInv
<1>1. ASSUME NEW g \in running, Return(g)
      PROVE  ServiceInv'
  <2>1. NoticesInv' /\ Watched'
    BY <1>1, Untouched DEF Return
  <2>2. Staged'
    BY <1>1 DEF Return, files, Staged
  <2>3. LastWord'
    BY <1>1 DEF Return, noticesVars, notifier, LastWord
  <2> QED
    BY <2>1, <2>2, <2>3
<1>2. ASSUME NEW o \in Origins, Fails(o)
      PROVE  ServiceInv'
  <2>1. NoticesInv' /\ Watched' /\ Staged'
    BY <1>2, RecordStep, Untouched DEF Fails
  <2>2. LastWord'
    BY <1>2 DEF Fails, serviceVars, LastWord
  <2> QED
    BY <2>1, <2>2
<1>3. CASE Watches
  <2>1. NoticesInv' /\ Staged'
    BY <1>3, Untouched DEF Watches
  <2>2. Watched'
    BY <1>3, CheckKeeps DEF Watches, WatchTick, NoticesInv, NoticesShape
  <2>3. LastWord'
    BY <1>3 DEF Watches, serviceVars, noticesVars, notifier, LastWord
  <2> QED
    BY <2>1, <2>2, <2>3
<1>4. CASE Time
  <2>1. NoticesInv' /\ Staged'
    BY <1>4, TickKeeps, Untouched DEF Time
  <2>2. Watched'
    BY <1>4 DEF Time, Watched, collect
  <2>3. LastWord'
    BY <1>4 DEF Time, Tick, serviceVars, LastWord
  <2> QED
    BY <2>1, <2>2, <2>3
<1>5. CASE Dispatch
  <2>1. /\ Watched' /\ Staged'
        /\ "notifier" \in running /\ running' = running /\ nphase' = nphase
    BY <1>5, Untouched DEF Dispatch, serviceVars
  <2>2. NoticesInv'
    BY <1>5, SwapStep, DispatchStepKeeps DEF Dispatch, DispatchTick
  <2>3. ASSUME nphase = "flush", NEW o \in Notified,
               pending'[o] + overflow'[o] > 0
        PROVE  o \in held'
    <3>1. DispatchStep
      BY <1>5, <2>3 DEF Dispatch
    <3>2. CASE UNCHANGED <<pending, overflow, held>>
      BY <2>3, <3>2 DEF LastWord
    <3>3. CASE DispatchPutBack
      <4>1. o # at => pending'[o] = pending[o] /\ overflow'[o] = overflow[o]
        BY <3>3 DEF DispatchPutBack, NoticesInv, NoticesShape
      <4>2. held' = held \cup {at}
        BY <3>3 DEF DispatchPutBack
      <4> QED
        BY <2>3, <4>1, <4>2 DEF LastWord
    <3> QED
      BY <3>1, <3>2, <3>3
         DEF DispatchStep, DispatchSkip, DispatchCharge, DispatchSend,
             DispatchRefund, DispatchEnd
  <2> QED
    BY <2>1, <2>2, <2>3 DEF LastWord
<1>6. CASE RunReturns
  <2>1. NoticesInv' /\ Watched'
    BY <1>6, Untouched DEF RunReturns
  <2>2. Staged'
    BY <1>6 DEF RunReturns, files, Staged
  <2>3. LastWord'
    BY <1>6 DEF RunReturns, LastWord
  <2> QED
    BY <2>1, <2>2, <2>3
<1>7. CASE Flush
  <2>1. NoticesInv' /\ Watched'
    BY <1>7, SwapStep, Untouched DEF Flush
  <2>2. Staged'
    BY <1>7 DEF Flush, files, Staged
  <2>3. LastWord'
    BY <1>7 DEF Flush, DispatchSwap, LastWord
  <2> QED
    BY <2>1, <2>2, <2>3
<1>8. CASE Flushed
  <2>1. NoticesInv' /\ Watched'
    BY <1>8, Untouched DEF Flushed
  <2>2. Staged'
    BY <1>8 DEF Flushed, files, Staged
  <2>3. LastWord'
    BY <1>8 DEF Flushed, noticesVars, notifier, LastWord
  <2> QED
    BY <2>1, <2>2, <2>3
<1> QED
  BY <1>1, <1>2, <1>3, <1>4, <1>5, <1>6, <1>7, <1>8 DEF NotifierNext

\* What the theorems below rest on: the invariant holds throughout.
THEOREM ServiceAlways == Spec => []ServiceInv
<1>1. ServiceInv /\ [Next]_vars => ServiceInv'
  <2> SUFFICES ASSUME ServiceInv, [Next]_vars
               PROVE  ServiceInv'
    OBVIOUS
  <2>1. CASE Next
    BY <2>1, ServeStep, WorkerStep DEF Next
  <2>2. CASE UNCHANGED vars
    <3>1. NoticesInv' /\ Watched' /\ Staged'
      BY <2>2, Untouched DEF vars, ServiceInv
    <3>2. LastWord'
      BY <2>2 DEF vars, serviceVars, noticesVars, notifier, ServiceInv,
                  LastWord
    <3> QED
      BY <3>1, <3>2 DEF ServiceInv
  <2> QED
    BY <2>1, <2>2
<1> QED
  BY <1>1, ServiceStart, PTL DEF Spec

\* No failure is lost (RecordFail, dispatch, requeuePending): every one
\* recorded for somebody who can be told is counted by a digest that was
\* queued or is still somewhere a later dispatch finds it.
THEOREM NoFailureLost == Spec => []FailuresAccounted
<1>1. ServiceInv => FailuresAccounted
  BY DEF ServiceInv, NoticesInv
<1> QED
  BY <1>1, ServiceAlways, PTL

\* The hourly budget is exact (dispatch and its refund), however digests
\* fail and hours roll over.
THEOREM BudgetExact == Spec => []BudgetHonest
<1>1. ServiceInv => BudgetHonest
  BY DEF ServiceInv, NoticesInv
<1> QED
  BY <1>1, ServiceAlways, PTL

\* serve's deferred calls come in a safe order: nothing uses the store or
\* the log once closed, and an orderly exit forgets no failure recorded.
THEOREM OrderlyExit == Spec => []ShutdownOrder
<1>1. ServiceInv => ShutdownOrder
  <2> SUFFICES ASSUME ServiceInv
               PROVE  ShutdownOrder
    OBVIOUS
  <2>1. /\ store = "closed" => running = {} /\ sockets # "open"
        /\ logFile = "closed" => running = {} /\ store # "open"
    BY DEF ServiceInv, Staged, After
  <2>2. ASSUME stage = "exited", NEW o \in Notified,
               pending[o] + overflow[o] > 0
        PROVE  o \in held
    BY <2>2, NoticesAssumption DEF ServiceInv, Staged, After, LastWord
  <2> QED
    BY <2>1, <2>2 DEF ShutdownOrder
<1> QED
  BY <1>1, ServiceAlways, PTL

\* The operator is warned and not flooded (check): after every check nothing
\* inside its window has gone unmailed for a whole interval unless the spool
\* refused that very mail, and no two mails about an item are closer.
THEOREM WarningsAlwaysPaced == Spec => WarningsPaced
<1> DEFINE Warned == Contact => \A it \in collect(checked) :
                       \/ checked = -1 \/ it \in refused
                       \/ it \in DOMAIN mailed /\ checked - mailed[it] < Resend
           Paced == \A it \in DOMAIN mailed :
                      mailed'[it] # mailed[it] =>
                        mailed'[it] - mailed[it] >= Resend
<1>1. ServiceInv => Warned
  BY DEF ServiceInv, Watched
<1>2. ServiceInv /\ [Next]_vars => [Paced]_vars
  <2> SUFFICES ASSUME ServiceInv, Next
               PROVE  Paced
    OBVIOUS
  <2>1. CASE Watches
    <3>1. now \in Nat /\ Watched /\ check
      BY <2>1 DEF ServiceInv, NoticesInv, NoticesShape, Watches, WatchTick
    <3>2. ASSUME NEW it \in DOMAIN mailed, mailed'[it] # mailed[it]
          PROVE  mailed'[it] - mailed[it] >= Resend
      <4>1. mailed' = Stamp(mailed, IF Contact THEN dueItems ELSE {})
        BY <3>1, <3>2 DEF check
      <4>2. Contact /\ it \in dueItems /\ mailed'[it] = now
        BY <3>2, <4>1 DEF Stamp
      <4> QED
        BY <3>1, <3>2, <4>2, DueOrRecent
    <3> QED
      BY <3>2
  <2>2. CASE UNCHANGED mailed
    BY <2>2
  <2>3. Watches \/ UNCHANGED mailed
    <3>1. CASE Serve \/ Signal
      BY <3>1
         DEF Serve, Signal, Load, checkEnvironment, openLog,
             loadCertificate, openSpool, OpenStore, NewListener,
             buildTokenSources, verifyTokens, Startup, StartWorkers,
             StartHTTP, Bind, SetRun, AwaitDone, Stop, Close, CloseLog, Exit,
             watchVars
    <3>2. CASE NotifierNext
      BY <3>2 DEF NotifierNext, Dispatch, RunReturns, Flush, Flushed,
                  watchVars
    <3> QED
      BY <3>1, <3>2 DEF Next, Time, Return, Fails, watchVars
  <2> QED
    BY <2>1, <2>2, <2>3
<1> QED
  BY <1>1, <1>2, ServiceAlways, PTL DEF Spec, WarningsPaced

-----------------------------------------------------------------------------
(* The configuration and its validator.                                    *)

\* What Normalize and the resolution of secrets leave of every route.
Normal ==
  \A i \in DOMAIN c.routes :
    c.routes[i].conc > 0 /\ c.routes[i].secret # "unresolved"

\* What the section methods left behind for the later ones.
ListenersSeen == needsCert = OffersTLS
ClientsSeen == clientNames = {c.clients[i].name : i \in DOMAIN c.clients}
RoutesSeen ==
  /\ routeNames = {c.routes[i].name : i \in DOMAIN c.routes}
  /\ defaults = Cardinality(Defaults(c.routes))

\* As long as nothing is reported, every section that has run holds, and the
\* validator's state is what the sections it came from say.
Checked ==
  /\ section > 0 => Normal
  /\ section > 1 => serviceOK
  /\ section > 2 => listenersOK /\ ListenersSeen
  /\ section > 3 => tlsOK
  /\ section > 4 => clientsOK /\ ClientsSeen
  /\ section > 5 => routesOK /\ RoutesSeen
  /\ section > 6 => clientRoutesOK
  /\ section > 7 => queueOK
  /\ section > 8 => webOK
  /\ section > 9 => metricsOK
  /\ section > 10 => historyOK
  /\ section > 11 => bounceOK
  /\ section > 12 => canariesOK
  /\ section > 13 => limitsOK

ConfigInv == c \in Files /\ section \in 0..14 /\ (errs = {} => Checked)

\* The place of each section method in the order of Validate.
LEMMA Order ==
  /\ Len(Sections) = 13 /\ DOMAIN Sections = 1..13
  /\ \A k \in 1..13 :
       /\ Sections[k] = "service" => k = 1
       /\ Sections[k] = "listeners" => k = 2
       /\ Sections[k] = "tls" => k = 3
       /\ Sections[k] = "clients" => k = 4
       /\ Sections[k] = "routes" => k = 5
       /\ Sections[k] = "clientRoutes" => k = 6
       /\ Sections[k] = "queue" => k = 7
       /\ Sections[k] = "web" => k = 8
       /\ Sections[k] = "metrics" => k = 9
       /\ Sections[k] = "history" => k = 10
       /\ Sections[k] = "bounce" => k = 11
       /\ Sections[k] = "canaries" => k = 12
       /\ Sections[k] = "limits" => k = 13
  BY DEF Sections

\* The rules read the configuration and the validator's state only.
LEMMA SameConfig ==
  ASSUME c' = c
  PROVE  /\ Normal' <=> Normal
         /\ serviceOK' <=> serviceOK
         /\ listenersOK' <=> listenersOK
         /\ clientsOK' <=> clientsOK
         /\ routesOK' <=> routesOK
         /\ queueOK' <=> queueOK
         /\ webOK' <=> webOK
         /\ metricsOK' <=> metricsOK
         /\ historyOK' <=> historyOK
         /\ limitsOK' <=> limitsOK
         /\ OffersTLS' <=> OffersTLS
<1>1. Normal' <=> Normal
  BY DEF Normal
<1>2. serviceOK' <=> serviceOK
  BY DEF serviceOK
<1>3. listenersOK' <=> listenersOK
  BY DEF listenersOK
<1>4. clientsOK' <=> clientsOK
  BY DEF clientsOK
<1>5. routesOK' <=> routesOK
  BY DEF routesOK
<1>6. queueOK' <=> queueOK
  BY DEF queueOK
<1>7. webOK' <=> webOK
  BY DEF webOK
<1>8. metricsOK' <=> metricsOK
  BY DEF metricsOK, HasReadableToken
<1>9. historyOK' <=> historyOK
  BY DEF historyOK
<1>10. limitsOK' <=> limitsOK
  BY DEF limitsOK
<1>11. OffersTLS' <=> OffersTLS
  BY DEF OffersTLS
<1> QED
  BY <1>1, <1>2, <1>3, <1>4, <1>5, <1>6, <1>7, <1>8, <1>9, <1>10, <1>11

\* So do the rules that read what an earlier section left.
LEMMA SameSeen ==
  ASSUME c' = c
  PROVE  /\ needsCert' = needsCert =>
              (tlsOK' <=> tlsOK) /\ (ListenersSeen' <=> ListenersSeen)
         /\ clientNames' = clientNames => (ClientsSeen' <=> ClientsSeen)
         /\ routeNames' = routeNames /\ defaults' = defaults =>
              /\ RoutesSeen' <=> RoutesSeen
              /\ clientRoutesOK' <=> clientRoutesOK
              /\ bounceOK' <=> bounceOK
         /\ routeNames' = routeNames /\ clientNames' = clientNames =>
              (canariesOK' <=> canariesOK)
<1>1. OffersTLS' <=> OffersTLS
  BY SameConfig
<1>2. needsCert' = needsCert =>
        (tlsOK' <=> tlsOK) /\ (ListenersSeen' <=> ListenersSeen)
  BY <1>1 DEF tlsOK, ListenersSeen, OffersTLS
<1>3. clientNames' = clientNames => (ClientsSeen' <=> ClientsSeen)
  BY DEF ClientsSeen
<1>4. routeNames' = routeNames /\ defaults' = defaults =>
        RoutesSeen' <=> RoutesSeen
  BY DEF RoutesSeen
<1>5. routeNames' = routeNames /\ defaults' = defaults =>
        clientRoutesOK' <=> clientRoutesOK
  BY DEF clientRoutesOK
<1>6. routeNames' = routeNames => bounceOK' <=> bounceOK
  BY DEF bounceOK, NotifyLists
<1>7. routeNames' = routeNames /\ clientNames' = clientNames =>
        canariesOK' <=> canariesOK
  BY DEF canariesOK
<1> QED
  BY <1>2, <1>3, <1>4, <1>5, <1>6, <1>7

\* The TLS defaults touch two fields and leave a record of its type.
LEMMA NormalTLSType ==
  ASSUME NEW d \in Texts
  PROVE  /\ \A x \in Listeners : NormalTLS(x, d) \in Listeners
         /\ \A x \in Routes : NormalTLS(x, d) \in Routes
<1>2. ASSUME NEW x \in Listeners
      PROVE  NormalTLS(x, d) \in Listeners
  <2>1. x.tls \in Texts /\ x.minTLS \in Texts
    BY DEF Listeners
  <2>2. OrElse(x.tls, d) \in Texts /\ OrElse(x.minTLS, "1.2") \in Texts
    BY <2>1 DEF OrElse, Texts
  <2> QED
    BY <2>1, <2>2 DEF Listeners, NormalTLS
<1>3. ASSUME NEW x \in Routes
      PROVE  NormalTLS(x, d) \in Routes
  <2>1. x.tls \in Texts /\ x.minTLS \in Texts
    BY DEF Routes
  <2>2. OrElse(x.tls, d) \in Texts /\ OrElse(x.minTLS, "1.2") \in Texts
    BY <2>1 DEF OrElse, Texts
  <2> QED
    BY <2>1, <2>2 DEF Routes, NormalTLS
<1> QED
  BY <1>2, <1>3

\* A normalized file is a file, and its routes have a positive concurrency
\* and the secrets they had.
LEMMA Normalized ==
  ASSUME NEW f \in Files
  PROVE  /\ Normalize(f) \in Files
         /\ DOMAIN Normalize(f).routes = DOMAIN f.routes
         /\ \A i \in DOMAIN f.routes :
              /\ Normalize(f).routes[i].conc > 0
              /\ Normalize(f).routes[i].secret = f.routes[i].secret
<1> DEFINE svc == [f.service EXCEPT !.hostname =
                                      OrElse(@, f.service.osHostname)]
           lst == [i \in DOMAIN f.listeners |->
                     NormalTLS(f.listeners[i], "none")]
           cl(i) == [f.clients[i] EXCEPT
                       !.rewrite.mode = OrElse(@, "off"),
                       !.maxRcpts = IF @ = 0 THEN 100 ELSE @]
           cls == [i \in DOMAIN f.clients |-> cl(i)]
           rt(i) == [NormalTLS(f.routes[i], "starttls") EXCEPT
                       !.port = IF @ = 0 THEN 587 ELSE @,
                       !.conc = IF @ <= 0 THEN 4 ELSE @]
           rts == [i \in DOMAIN f.routes |-> rt(i)]
           tmo == [i \in DOMAIN f.limits.timeouts |->
                     IF f.limits.timeouts[i] <= 0 THEN 60
                                                  ELSE f.limits.timeouts[i]]
           lim == [f.limits EXCEPT !.timeouts = tmo]
<1>1. Normalize(f) = [f EXCEPT !.service = svc, !.listeners = lst,
                               !.clients = cls, !.routes = rts,
                               !.limits = lim]
  BY DEF Normalize, Files
<1>2. /\ f.service \in Services /\ f.listeners \in Seq(Listeners)
      /\ f.clients \in Seq(Clients) /\ f.routes \in Seq(Routes)
      /\ f.limits \in Limits
  BY DEF Files
<1>3. \A v \in Texts, e \in Texts : OrElse(v, e) \in Texts
  BY DEF OrElse
<1>4. svc \in Services
  <2>1. OrElse(f.service.hostname, f.service.osHostname) \in Texts
    BY <1>2, <1>3 DEF Services
  <2> QED
    BY <1>2, <2>1 DEF Services
<1>5. lst \in Seq(Listeners)
  <2>1. "none" \in Texts
    BY DEF Texts
  <2>2. \A x \in Listeners : NormalTLS(x, "none") \in Listeners
    BY <2>1, NormalTLSType, Zenon
  <2> QED
    BY <1>2, <2>2
<1>6. cls \in Seq(Clients)
  <2>1. ASSUME NEW i \in DOMAIN f.clients
        PROVE  cl(i) \in Clients
    <3>1. f.clients[i] \in Clients
      BY <1>2
    <3>2. f.clients[i].rewrite \in Rewrites /\ f.clients[i].maxRcpts \in Int
      BY <3>1 DEF Clients
    <3>3. OrElse(f.clients[i].rewrite.mode, "off") \in Texts
      BY <3>2 DEF Rewrites, OrElse, Texts
    <3>4. [f.clients[i].rewrite EXCEPT !.mode = OrElse(@, "off")] \in Rewrites
      BY <3>2, <3>3 DEF Rewrites
    <3>5. cl(i) = [f.clients[i] EXCEPT
                     !.rewrite = [f.clients[i].rewrite EXCEPT
                                    !.mode = OrElse(@, "off")],
                     !.maxRcpts = IF @ = 0 THEN 100 ELSE @]
      BY <3>1 DEF Clients
    <3>6. PICK rw \in Rewrites :
            rw = [f.clients[i].rewrite EXCEPT !.mode = OrElse(@, "off")]
      BY <3>4
    <3>7. PICK n \in Int : n = IF f.clients[i].maxRcpts = 0 THEN 100
                               ELSE f.clients[i].maxRcpts
      BY <3>2
    <3>8. cl(i) = [f.clients[i] EXCEPT !.rewrite = rw, !.maxRcpts = n]
      BY <3>1, <3>5, <3>6, <3>7 DEF Clients
    <3> HIDE DEF cl
    <3> QED
      BY <3>1, <3>2, <3>8 DEF Clients
  <2> HIDE DEF cl
  <2> QED
    BY <1>2, <2>1
<1>7. ASSUME NEW i \in DOMAIN f.routes
      PROVE  /\ rt(i) \in Routes
             /\ rt(i).conc > 0
             /\ rt(i).secret = f.routes[i].secret
  <2>1. f.routes[i] \in Routes
    BY <1>2
  <2>2. NormalTLS(f.routes[i], "starttls") \in Routes
    <3>1. "starttls" \in Texts
      BY DEF Texts
    <3> QED
      BY <2>1, <3>1, NormalTLSType, Zenon
  <2>3. NormalTLS(f.routes[i], "starttls").secret = f.routes[i].secret
    BY <2>1 DEF NormalTLS, Routes
  <2>4. PICK x \in Routes : x = NormalTLS(f.routes[i], "starttls")
    BY <2>2
  <2>5. x.port \in Int /\ x.conc \in Int
    BY DEF Routes
  <2>6. PICK n \in Int : n = IF x.port = 0 THEN 587 ELSE x.port
    BY <2>5
  <2>7. PICK k \in Int : k = (IF x.conc <= 0 THEN 4 ELSE x.conc) /\ k > 0
    BY <2>5
  <2>8. rt(i) = [x EXCEPT !.port = n, !.conc = k]
    BY <2>4, <2>6, <2>7 DEF Routes
  <2> HIDE DEF rt
  <2>9. rt(i) \in Routes
    BY <2>8 DEF Routes
  <2>10. rt(i).conc = k /\ rt(i).secret = x.secret
    BY <2>8 DEF Routes
  <2> QED
    BY <2>3, <2>4, <2>7, <2>9, <2>10
<1>8. rts \in Seq(Routes)
  <2> HIDE DEF rt
  <2> QED
    BY <1>2, <1>7
<1>9. lim \in Limits
  <2>1. f.limits.timeouts \in Seq(Int)
    BY <1>2 DEF Limits
  <2>2. tmo \in Seq(Int)
    BY <2>1
  <2> HIDE DEF tmo
  <2> QED
    BY <1>2, <2>2 DEF Limits
<1> HIDE DEF svc, lst, cls, rts, lim
<1>10. Normalize(f) \in Files /\ Normalize(f).routes = rts
  BY <1>1, <1>4, <1>5, <1>6, <1>8, <1>9 DEF Files
<1>11. /\ DOMAIN rts = DOMAIN f.routes
       /\ \A i \in DOMAIN f.routes : rts[i] = rt(i)
  BY DEF rts
<1> QED
  BY <1>7, <1>10, <1>11

\* A file as it is decoded, before anything has checked it.
LEMMA ConfigInitInv == ConfigInit => ConfigInv
<1> SUFFICES ASSUME ConfigInit PROVE ConfigInv
  OBVIOUS
<1>1. c \in Files /\ section = 0
  BY ConfigAssumption DEF ConfigInit
<1>2. Checked
  BY <1>1 DEF Checked
<1> QED
  BY <1>1, <1>2 DEF ConfigInv

\* Load leaves a normalized file, or an error.
LEMMA LoadKeeps == ConfigInv /\ LoadConfig => ConfigInv'
<1> SUFFICES ASSUME ConfigInv, LoadConfig PROVE ConfigInv'
  OBVIOUS
<1>1. c \in Files
  BY DEF ConfigInv
<1>2. CASE \E i \in DOMAIN c.routes : ~resolve(c.routes[i].secret)
  BY <1>1, <1>2, Order DEF LoadConfig, ConfigInv
<1>3. CASE ~\E i \in DOMAIN c.routes : ~resolve(c.routes[i].secret)
  <2>1. c' = Normalize(c) /\ section' = 1
    BY <1>3 DEF LoadConfig
  <2>2. c' \in Files
    BY <1>1, <2>1, Normalized
  <2>3. /\ DOMAIN c'.routes = DOMAIN c.routes
        /\ \A i \in DOMAIN c.routes :
             /\ c'.routes[i].conc > 0
             /\ c'.routes[i].secret = c.routes[i].secret
    BY <1>1, <2>1, Normalized
  <2>4. Normal'
    BY <1>3, <2>3 DEF Normal, resolve
  <2>5. Checked'
    BY <2>1, <2>4 DEF Checked
  <2> QED
    BY <2>1, <2>2, <2>5 DEF ConfigInv
<1> QED
  BY <1>2, <1>3

\* A section method with a rule of its own establishes it, and disturbs none
\* that holds already.
LEMMA SectionKeeps ==
  ASSUME ConfigInv,
         service \/ listeners \/ tls \/ clients \/ routes \/ clientRoutes
           \/ queue \/ web \/ metrics \/ history \/ bounce \/ canaries
           \/ limits
  PROVE  ConfigInv'
<1>0. /\ c \in Files /\ section \in 0..14
      /\ errs = {} => Checked
  BY DEF ConfigInv
<1>1. CASE service
  <2>1. Check("service", serviceOK)
    BY <1>1 DEF service
  <2>2. /\ section = 1 /\ section' = 2 /\ c' = c
        /\ errs' = {} => errs = {} /\ serviceOK
    BY <1>0, <2>1, Order DEF Check
  <2>3. UNCHANGED validatorVars
    BY <1>1 DEF service
  <2>5. errs' = {} => Checked'
    BY <1>0, <2>2, <2>3, SameConfig, SameSeen DEF Checked, validatorVars
  <2> QED
    BY <1>0, <2>2, <2>5 DEF ConfigInv
<1>2. CASE listeners
  <2>1. Check("listeners", listenersOK)
    BY <1>2 DEF listeners
  <2>2. /\ section = 2 /\ section' = 3 /\ c' = c
        /\ errs' = {} => errs = {} /\ listenersOK
    BY <1>0, <2>1, Order DEF Check
  <2>3. /\ needsCert' = OffersTLS
        /\ UNCHANGED <<clientNames, routeNames, defaults>>
    BY <1>2 DEF listeners
  <2>4. ListenersSeen'
    BY <2>2, <2>3 DEF ListenersSeen, OffersTLS
  <2>5. errs' = {} => Checked'
    BY <1>0, <2>2, <2>3, <2>4, SameConfig, SameSeen DEF Checked, validatorVars
  <2> QED
    BY <1>0, <2>2, <2>5 DEF ConfigInv
<1>3. CASE tls
  <2>1. Check("tls", tlsOK)
    BY <1>3 DEF tls
  <2>2. /\ section = 3 /\ section' = 4 /\ c' = c
        /\ errs' = {} => errs = {} /\ tlsOK
    BY <1>0, <2>1, Order DEF Check
  <2>3. UNCHANGED validatorVars
    BY <1>3 DEF tls
  <2>5. errs' = {} => Checked'
    BY <1>0, <2>2, <2>3, SameConfig, SameSeen DEF Checked, validatorVars
  <2> QED
    BY <1>0, <2>2, <2>5 DEF ConfigInv
<1>4. CASE clients
  <2>1. Check("clients", clientsOK)
    BY <1>4 DEF clients
  <2>2. /\ section = 4 /\ section' = 5 /\ c' = c
        /\ errs' = {} => errs = {} /\ clientsOK
    BY <1>0, <2>1, Order DEF Check
  <2>3. /\ clientNames' = {c.clients[i].name : i \in DOMAIN c.clients}
        /\ UNCHANGED <<needsCert, routeNames, defaults>>
    BY <1>4 DEF clients
  <2>4. ClientsSeen'
    BY <2>2, <2>3 DEF ClientsSeen
  <2>5. errs' = {} => Checked'
    BY <1>0, <2>2, <2>3, <2>4, SameConfig, SameSeen DEF Checked, validatorVars
  <2> QED
    BY <1>0, <2>2, <2>5 DEF ConfigInv
<1>5. CASE routes
  <2>1. Check("routes", routesOK)
    BY <1>5 DEF routes
  <2>2. /\ section = 5 /\ section' = 6 /\ c' = c
        /\ errs' = {} => errs = {} /\ routesOK
    BY <1>0, <2>1, Order DEF Check
  <2>3. /\ routeNames' = {c.routes[i].name : i \in DOMAIN c.routes}
        /\ defaults' = Cardinality(Defaults(c.routes))
        /\ UNCHANGED <<needsCert, clientNames>>
    BY <1>5 DEF routes
  <2>4. RoutesSeen'
    BY <2>2, <2>3 DEF RoutesSeen
  <2>5. errs' = {} => Checked'
    BY <1>0, <2>2, <2>3, <2>4, SameConfig, SameSeen DEF Checked, validatorVars
  <2> QED
    BY <1>0, <2>2, <2>5 DEF ConfigInv
<1>6. CASE clientRoutes
  <2>1. Check("clientRoutes", clientRoutesOK)
    BY <1>6 DEF clientRoutes
  <2>2. /\ section = 6 /\ section' = 7 /\ c' = c
        /\ errs' = {} => errs = {} /\ clientRoutesOK
    BY <1>0, <2>1, Order DEF Check
  <2>3. UNCHANGED validatorVars
    BY <1>6 DEF clientRoutes
  <2>5. errs' = {} => Checked'
    BY <1>0, <2>2, <2>3, SameConfig, SameSeen DEF Checked, validatorVars
  <2> QED
    BY <1>0, <2>2, <2>5 DEF ConfigInv
<1>7. CASE queue
  <2>1. Check("queue", queueOK)
    BY <1>7 DEF queue
  <2>2. /\ section = 7 /\ section' = 8 /\ c' = c
        /\ errs' = {} => errs = {} /\ queueOK
    BY <1>0, <2>1, Order DEF Check
  <2>3. UNCHANGED validatorVars
    BY <1>7 DEF queue
  <2>5. errs' = {} => Checked'
    BY <1>0, <2>2, <2>3, SameConfig, SameSeen DEF Checked, validatorVars
  <2> QED
    BY <1>0, <2>2, <2>5 DEF ConfigInv
<1>8. CASE web
  <2>1. Check("web", webOK)
    BY <1>8 DEF web
  <2>2. /\ section = 8 /\ section' = 9 /\ c' = c
        /\ errs' = {} => errs = {} /\ webOK
    BY <1>0, <2>1, Order DEF Check
  <2>3. UNCHANGED validatorVars
    BY <1>8 DEF web
  <2>5. errs' = {} => Checked'
    BY <1>0, <2>2, <2>3, SameConfig, SameSeen DEF Checked, validatorVars
  <2> QED
    BY <1>0, <2>2, <2>5 DEF ConfigInv
<1>9. CASE metrics
  <2>1. Check("metrics", metricsOK)
    BY <1>9 DEF metrics
  <2>2. /\ section = 9 /\ section' = 10 /\ c' = c
        /\ errs' = {} => errs = {} /\ metricsOK
    BY <1>0, <2>1, Order DEF Check
  <2>3. UNCHANGED validatorVars
    BY <1>9 DEF metrics
  <2>5. errs' = {} => Checked'
    BY <1>0, <2>2, <2>3, SameConfig, SameSeen DEF Checked, validatorVars
  <2> QED
    BY <1>0, <2>2, <2>5 DEF ConfigInv
<1>10. CASE history
  <2>1. Check("history", historyOK)
    BY <1>10 DEF history
  <2>2. /\ section = 10 /\ section' = 11 /\ c' = c
        /\ errs' = {} => errs = {} /\ historyOK
    BY <1>0, <2>1, Order DEF Check
  <2>3. UNCHANGED validatorVars
    BY <1>10 DEF history
  <2>5. errs' = {} => Checked'
    BY <1>0, <2>2, <2>3, SameConfig, SameSeen DEF Checked, validatorVars
  <2> QED
    BY <1>0, <2>2, <2>5 DEF ConfigInv
<1>11. CASE bounce
  <2>1. Check("bounce", bounceOK)
    BY <1>11 DEF bounce
  <2>2. /\ section = 11 /\ section' = 12 /\ c' = c
        /\ errs' = {} => errs = {} /\ bounceOK
    BY <1>0, <2>1, Order DEF Check
  <2>3. UNCHANGED validatorVars
    BY <1>11 DEF bounce
  <2>5. errs' = {} => Checked'
    BY <1>0, <2>2, <2>3, SameConfig, SameSeen DEF Checked, validatorVars
  <2> QED
    BY <1>0, <2>2, <2>5 DEF ConfigInv
<1>12. CASE canaries
  <2>1. Check("canaries", canariesOK)
    BY <1>12 DEF canaries
  <2>2. /\ section = 12 /\ section' = 13 /\ c' = c
        /\ errs' = {} => errs = {} /\ canariesOK
    BY <1>0, <2>1, Order DEF Check
  <2>3. UNCHANGED validatorVars
    BY <1>12 DEF canaries
  <2>5. errs' = {} => Checked'
    BY <1>0, <2>2, <2>3, SameConfig, SameSeen DEF Checked, validatorVars
  <2> QED
    BY <1>0, <2>2, <2>5 DEF ConfigInv
<1>13. CASE limits
  <2>1. Check("limits", limitsOK)
    BY <1>13 DEF limits
  <2>2. /\ section = 13 /\ section' = 14 /\ c' = c
        /\ errs' = {} => errs = {} /\ limitsOK
    BY <1>0, <2>1, Order DEF Check
  <2>3. UNCHANGED validatorVars
    BY <1>13 DEF limits
  <2>5. errs' = {} => Checked'
    BY <1>0, <2>2, <2>3, SameConfig, SameSeen DEF Checked, validatorVars
  <2> QED
    BY <1>0, <2>2, <2>5 DEF ConfigInv
<1> QED
  BY <1>1, <1>2, <1>3, <1>4, <1>5, <1>6, <1>7, <1>8, <1>9, <1>10, <1>11,
     <1>12, <1>13


\* Loading and validating keep the invariant.
LEMMA ConfigNextInv == ConfigInv /\ ConfigNext => ConfigInv'
  BY LoadKeeps, SectionKeeps DEF ConfigNext

\* What may be relied on of a configuration that was accepted.
LEMMA AcceptedChecked ==
  ConfigInv /\ Accepted =>
    /\ c \in Files /\ Normal
    /\ listenersOK /\ ListenersSeen /\ tlsOK
    /\ clientsOK /\ ClientsSeen /\ routesOK /\ RoutesSeen /\ clientRoutesOK
    /\ queueOK /\ bounceOK /\ canariesOK /\ limitsOK
<1> SUFFICES ASSUME ConfigInv, Accepted
             PROVE  /\ c \in Files /\ Normal
                    /\ listenersOK /\ ListenersSeen /\ tlsOK
                    /\ clientsOK /\ ClientsSeen
                    /\ routesOK /\ RoutesSeen /\ clientRoutesOK
                    /\ queueOK /\ bounceOK /\ canariesOK /\ limitsOK
  OBVIOUS
<1>1. section = 14 /\ errs = {} /\ c \in Files
  BY Order DEF Accepted, Validated, ConfigInv
<1>2. Checked
  BY <1>1 DEF ConfigInv
<1> QED
  BY <1>1, <1>2 DEF Checked

-----------------------------------------------------------------------------
(* Networks and the lookups in them.                                       *)

\* Lists of lists as a file has them.
Listed(lists) ==
  /\ DOMAIN lists \subseteq Nat
  /\ \A i \in DOMAIN lists : DOMAIN lists[i] \subseteq Nat

\* A place is a list and an entry of it.
LEMMA PlaceOf ==
  ASSUME NEW lists
  PROVE  /\ \A i \in DOMAIN lists : \A j \in DOMAIN lists[i] :
              /\ <<i, j>> \in Places(lists)
              /\ Entry(lists, <<i, j>>) = lists[i][j]
         /\ \A p \in Places(lists) :
              /\ p[1] \in DOMAIN lists /\ p[2] \in DOMAIN lists[p[1]]
              /\ p = <<p[1], p[2]>>
              /\ Entry(lists, p) = lists[p[1]][p[2]]
<1>1. \A i \in DOMAIN lists : \A j \in DOMAIN lists[i] :
        /\ <<i, j>> \in Places(lists)
        /\ Entry(lists, <<i, j>>) = lists[i][j]
  BY DEF Places, Entry
<1>2. \A p \in Places(lists) :
        /\ p[1] \in DOMAIN lists /\ p[2] \in DOMAIN lists[p[1]]
        /\ p = <<p[1], p[2]>>
  BY DEF Places
<1> QED
  BY <1>1, <1>2 DEF Entry

\* Of two places in file order one comes before the other.
LEMMA FileOrder ==
  ASSUME NEW lists, Listed(lists),
         NEW p \in Places(lists), NEW q \in Places(lists)
  PROVE  p = q \/ Before(p, q) \/ Before(q, p)
<1>1. /\ p[1] \in Nat /\ p[2] \in Nat /\ p = <<p[1], p[2]>>
      /\ q[1] \in Nat /\ q[2] \in Nat /\ q = <<q[1], q[2]>>
  BY PlaceOf DEF Listed
<1>2. p[1] = q[1] /\ p[2] = q[2] => p = q
  BY <1>1
<1> QED
  BY <1>1, <1>2 DEF Before

\* Two networks with an address in common overlap, whichever is asked.
LEMMA Share ==
  ASSUME NEW p, NEW q, NEW peer, Contains(p, peer), Contains(q, peer)
  PROVE  Overlaps(p, q) /\ Overlaps(q, p)
  BY DEF Contains, Holds, Overlaps

\* A mapped address is looked up as the address it maps.
LEMMA LookedUp ==
  ASSUME NEW peer \in Peers, NEW nets
  PROVE  Hits(nets, Unmap(peer)) =
           {p \in Places(nets) : Holds(Entry(nets, p), peer.addr)}
<1>1. ~Unmap(peer).mapped /\ Unmap(peer).addr = peer.addr
  BY DEF Peers, Unmap
<1> QED
  BY <1>1 DEF Hits, Contains

\* An address is in one of several disjoint networks at most.
LEMMA OneHit ==
  ASSUME NEW nets, Listed(nets), Disjoint(nets), NEW peer,
         NEW p \in Hits(nets, peer), NEW q \in Hits(nets, peer)
  PROVE  p = q
<1>1. /\ p \in Places(nets) /\ Contains(Entry(nets, p), peer)
      /\ q \in Places(nets) /\ Contains(Entry(nets, q), peer)
  BY DEF Hits
<1>2. Overlaps(Entry(nets, p), Entry(nets, q))
        /\ Overlaps(Entry(nets, q), Entry(nets, p))
  BY <1>1, Share
<1>3. ~Before(p, q) /\ ~Before(q, p)
  BY <1>1, <1>2 DEF Disjoint
<1> QED
  BY <1>1, <1>3, FileOrder

\* The lookup finds the network an address is in, and none exactly when it
\* is in none.
LEMMA LongestHit ==
  ASSUME NEW nets, Listed(nets), Disjoint(nets), NEW peer
  PROVE  /\ Hits(nets, peer) = {} => Longest(nets, peer).owner = 0
         /\ \A p \in Hits(nets, peer) :
              /\ Longest(nets, peer).owner = p[1]
              /\ Longest(nets, peer).bits = Entry(nets, p).bits
<1> DEFINE Best(p) == \A q \in Hits(nets, peer) :
                        \/ Entry(nets, p).bits > Entry(nets, q).bits
                        \/ /\ Entry(nets, p).bits = Entry(nets, q).bits
                           /\ ~Before(q, p)
           b == CHOOSE p \in Hits(nets, peer) : Best(p)
<1>1. Hits(nets, peer) = {} => Longest(nets, peer).owner = 0
  BY DEF Longest
<1>2. ASSUME NEW p \in Hits(nets, peer)
      PROVE  /\ Longest(nets, peer).owner = p[1]
             /\ Longest(nets, peer).bits = Entry(nets, p).bits
  <2>1. \A q \in Hits(nets, peer) : q = p
    BY <1>2, OneHit
  <2>2. p[1] \in Nat /\ p[2] \in Nat
    BY PlaceOf DEF Hits, Listed
  <2>3. Best(p)
    BY <2>1, <2>2 DEF Before
  <2>4. b \in Hits(nets, peer)
    BY <2>3
  <2>5. b = p
    BY <2>1, <2>4
  <2>6. Longest(nets, peer) = [owner |-> b[1], bits |-> Entry(nets, b).bits]
    BY DEF Longest
  <2> HIDE DEF b
  <2> QED
    BY <2>5, <2>6
<1> QED
  BY <1>1, <1>2

-----------------------------------------------------------------------------
(* The tables built from an accepted configuration.                        *)

\* The least element of a set of numbers is one of them.
LEMMA LeastIn ==
  ASSUME NEW S, S \subseteq Nat, S # {}
  PROVE  Min(S) \in S
<1>1. IsWellFoundedOn(OpToRel(<, Nat), Nat)
  BY NatLessThanWellFounded
<1>2. \E x \in S : \A y \in S : ~(<<y, x>> \in OpToRel(<, Nat))
  BY <1>1, WFMin
<1>3. \E x \in S : \A y \in S : ~(y < x)
  BY <1>2 DEF OpToRel
<1>4. \E x \in S : \A y \in S : x <= y
  BY <1>3
<1> QED
  BY <1>4 DEF Min

\* The rules of the clients section, one by one.
LEMMA ClientRules ==
  ASSUME ConfigInv, Accepted
  PROVE  /\ Networks(CidrOf(c.clients))
         /\ \A i \in DOMAIN c.clients :
              /\ FreshName(c.clients, i)
              /\ c.clients[i].name \notin reservedNames
              /\ clientRewrite(c.clients[i].rewrite)
              /\ c.clients[i].maxMB >= 0
<1>1. clientsOK
  BY AcceptedChecked
<1> QED
  BY <1>1 DEF clientsOK

\* The rules of the routes section, one by one.
LEMMA RouteRules ==
  ASSUME ConfigInv, Accepted
  PROVE  /\ Cardinality(Defaults(c.routes)) <= 1
         /\ routeDomains(DomainsOf(c.routes))
         /\ Networks(SourcesOf(c.routes))
         /\ \A i \in DOMAIN c.routes :
              /\ FreshName(c.routes, i)
              /\ routeTLS(c.routes[i]) /\ routeAuth(c.routes[i])
<1>1. routesOK
  BY AcceptedChecked
<1> QED
  BY <1>1 DEF routesOK

\* The lists of an accepted configuration are lists, and its tables can be
\* looked up in.
LEMMA Tables ==
  ASSUME ConfigInv, Accepted
  PROVE  /\ c.clients \in Seq(Clients) /\ c.routes \in Seq(Routes)
         /\ DOMAIN c.clients \subseteq Nat \ {0}
         /\ DOMAIN c.routes \subseteq Nat \ {0}
         /\ Listed(CidrOf(c.clients)) /\ Listed(SourcesOf(c.routes))
         /\ Listed(DomainsOf(c.routes))
         /\ Disjoint(CidrOf(c.clients)) /\ Disjoint(SourcesOf(c.routes))
<1>1. c.clients \in Seq(Clients) /\ c.routes \in Seq(Routes)
  BY AcceptedChecked DEF Files
<1>2. /\ \A i \in DOMAIN c.clients : c.clients[i].cidr \in Seq(Prefixes)
      /\ \A i \in DOMAIN c.routes : /\ c.routes[i].sources \in Seq(Prefixes)
                                    /\ c.routes[i].domains \in Seq(STRING)
  <2>1. \A i \in DOMAIN c.clients : c.clients[i] \in Clients
    BY <1>1
  <2>2. \A i \in DOMAIN c.routes : c.routes[i] \in Routes
    BY <1>1
  <2>3. \A x \in Clients : x.cidr \in Seq(Prefixes)
    BY DEF Clients
  <2>4. \A x \in Routes : x.sources \in Seq(Prefixes)
                          /\ x.domains \in Seq(STRING)
    BY DEF Routes
  <2> QED
    BY <2>1, <2>2, <2>3, <2>4
<1>3. /\ DOMAIN c.clients \subseteq Nat \ {0}
      /\ DOMAIN c.routes \subseteq Nat \ {0}
  BY <1>1
<1>4. Listed(CidrOf(c.clients)) /\ Listed(SourcesOf(c.routes))
        /\ Listed(DomainsOf(c.routes))
  BY <1>2, <1>3 DEF Listed, CidrOf, SourcesOf, DomainsOf
<1>5. Disjoint(CidrOf(c.clients)) /\ Disjoint(SourcesOf(c.routes))
  BY ClientRules, RouteRules DEF Networks
<1> QED
  BY <1>1, <1>3, <1>4, <1>5

\* A set of at most one element has no two.
LEMMA AtMostOne ==
  ASSUME NEW S, IsFiniteSet(S), Cardinality(S) <= 1,
         NEW x \in S, NEW y \in S
  PROVE  x = y
<1> SUFFICES ASSUME x # y PROVE FALSE
  OBVIOUS
<1>1. /\ IsFiniteSet({x}) /\ Cardinality({x}) = 1
  BY FS_Singleton
<1>2. Cardinality({x} \cup {y}) = 2
  <2>1. y \notin {x}
    OBVIOUS
  <2>2. Cardinality({x} \cup {y}) =
          IF y \in {x} THEN Cardinality({x}) ELSE Cardinality({x}) + 1
    BY <1>1, FS_AddElement, ZenonT(30)
  <2> QED
    BY <1>1, <2>1, <2>2
<1>3. Cardinality({x} \cup {y}) <= Cardinality(S)
  BY FS_Subset
<1>4. Cardinality(S) \in Nat
  BY FS_CardinalityType
<1> QED
  BY <1>2, <1>3, <1>4

\* The default routes of a configuration are finitely many.
LEMMA DefaultsFinite ==
  ASSUME ConfigInv, Accepted
  PROVE  IsFiniteSet(Defaults(c.routes))
<1>1. DOMAIN c.routes = 1..Len(c.routes) /\ Len(c.routes) \in Nat
  BY Tables
<1>2. IsFiniteSet(1..Len(c.routes))
  BY <1>1, FS_Interval
<1> QED
  BY <1>1, <1>2, FS_Subset DEF Defaults

\* What the validator accepts, the router, the matcher and the rewriter
\* accept: their own second checks never refuse it.
LEMMA Builds ==
  ASSUME ConfigInv, Accepted
  PROVE  /\ New(c.routes)
         /\ \A p \in Places(CidrOf(c.clients)) :
              Parses(Entry(CidrOf(c.clients), p))
         /\ \A i \in DOMAIN c.clients : Compile(c.clients[i].rewrite)
<1>1. /\ Networks(CidrOf(c.clients)) /\ Networks(SourcesOf(c.routes))
      /\ routeDomains(DomainsOf(c.routes))
      /\ Cardinality(Defaults(c.routes)) <= 1
      /\ \A i \in DOMAIN c.clients : clientRewrite(c.clients[i].rewrite)
  BY ClientRules, RouteRules
<1>2. \A i, j \in DOMAIN c.routes :
        c.routes[i].default /\ c.routes[j].default => i = j
  <2> SUFFICES ASSUME NEW i \in DOMAIN c.routes, NEW j \in DOMAIN c.routes,
                      c.routes[i].default, c.routes[j].default
               PROVE  i = j
    OBVIOUS
  <2>1. i \in Defaults(c.routes) /\ j \in Defaults(c.routes)
    BY DEF Defaults
  <2> QED
    BY <1>1, <2>1, DefaultsFinite, AtMostOne
<1>3. New(c.routes)
  BY <1>1, <1>2 DEF New, Networks, routeDomains
<1>4. \A p \in Places(CidrOf(c.clients)) :
        Parses(Entry(CidrOf(c.clients), p))
  BY <1>1 DEF Networks
<1>5. \A i \in DOMAIN c.clients : Compile(c.clients[i].rewrite)
  BY <1>1 DEF clientRewrite, Compile
<1> QED
  BY <1>3, <1>4, <1>5

-----------------------------------------------------------------------------
(* An accepted configuration can be run with.                              *)

\* A client that shares no name with the origin diverts nothing of it.
LEMMA NotDiverted ==
  ASSUME NEW o, \A i \in DOMAIN c.clients : c.clients[i].name # o
  PROVE  recipientsFor(o) = c.bounce.notify
  BY DEF recipientsFor

\* Whoever is told of a failure is told by one of the configured lists.
LEMMA ToldByList ==
  ASSUME ConfigInv, Accepted, NEW o
  PROVE  recipientsFor(o) \in NotifyLists
<1> DEFINE own == {i \in DOMAIN c.clients :
                     c.clients[i].name = o /\ c.clients[i].notify # {}}
<1>1. CASE own = {}
  BY <1>1 DEF recipientsFor, NotifyLists
<1>2. CASE own # {}
  <2>1. own \subseteq Nat
    BY Tables
  <2>2. Min(own) \in own
    BY <1>2, <2>1, LeastIn
  <2>3. recipientsFor(o) = c.clients[Min(own)].notify
    BY <1>2 DEF recipientsFor
  <2>4. Min(own) \in DOMAIN c.clients
    BY <2>2
  <2> HIDE DEF own
  <2> QED
    BY <2>3, <2>4 DEF NotifyLists
<1> QED
  BY <1>1, <1>2

\* A name a route has is a route.
LEMMA NamedRoute ==
  ASSUME ConfigInv, Accepted, NEW n \in routeNames
  PROVE  RouteNamed(n)
<1>1. routeNames = {c.routes[i].name : i \in DOMAIN c.routes}
  BY AcceptedChecked DEF RoutesSeen
<1>2. PICK i \in DOMAIN c.routes : c.routes[i].name = n
  BY <1>1
<1> QED
  BY <1>2 DEF RouteNamed, Range

\* The conjuncts of AcceptedIsUsable about the routes and the listeners.
LEMMA UsableTransport ==
  ASSUME ConfigInv, Accepted
  PROVE  /\ \A r \in Range(c.routes) :
              /\ r.tls \in {"none", "starttls", "implicit"}
              /\ r.auth # "none" => r.tls # "none" /\ r.secret = "resolved"
              /\ r.tls # "none" => r.minTLS \in {"1.2", "1.3"}
              /\ r.conc > 0
         /\ \A l \in Range(c.listeners) :
              l.tls # "none" \/ l.requireTLS =>
                c.cert = "ok" /\ l.tls # "none"
<1>1. ASSUME NEW r \in Range(c.routes)
      PROVE  /\ r.tls \in {"none", "starttls", "implicit"}
             /\ r.auth # "none" => r.tls # "none" /\ r.secret = "resolved"
             /\ r.tls # "none" => r.minTLS \in {"1.2", "1.3"}
             /\ r.conc > 0
  <2>1. PICK i \in DOMAIN c.routes : r = c.routes[i]
    BY DEF Range
  <2>2. routeTLS(r) /\ routeAuth(r)
    BY <2>1, RouteRules
  <2>3. r.conc > 0 /\ r.secret # "unresolved"
    BY <2>1, AcceptedChecked DEF Normal
  <2>4. r \in Routes
    BY <2>1, Tables
  <2>5. r.secret \in {"none", "unresolved", "resolved"}
    BY <2>4 DEF Routes
  <2> QED
    BY <2>2, <2>3, <2>5 DEF routeTLS, routeAuth
<1>2. ASSUME NEW l \in Range(c.listeners), l.tls # "none" \/ l.requireTLS
      PROVE  c.cert = "ok" /\ l.tls # "none"
  <2>1. PICK i \in DOMAIN c.listeners : l = c.listeners[i]
    BY DEF Range
  <2>2. listenersOK /\ ListenersSeen /\ tlsOK
    BY AcceptedChecked
  <2>3. l.requireTLS => l.tls # "none"
    BY <2>1, <2>2 DEF listenersOK
  <2>4. needsCert
    BY <1>2, <2>1, <2>2, <2>3 DEF ListenersSeen, OffersTLS
  <2> QED
    BY <1>2, <2>2, <2>3, <2>4 DEF tlsOK
<1> QED
  BY <1>1, <1>2

\* The conjuncts about who is told of a failure.
LEMMA UsableNotices ==
  ASSUME ConfigInv, Accepted
  PROVE  /\ \A k \in Range(c.canaries) :
              /\ recipientsFor(k.name) = c.bounce.notify
              /\ recipientsFor(k.name) # {} /\ RouteNamed(k.route)
         /\ recipientsFor("expiry-watch") = c.bounce.notify
         /\ \A o : CanTell(o)
<1>1. /\ canariesOK /\ bounceOK
      /\ clientNames = {c.clients[i].name : i \in DOMAIN c.clients}
  BY AcceptedChecked DEF ClientsSeen
<1>2. ASSUME NEW k \in Range(c.canaries)
      PROVE  /\ recipientsFor(k.name) = c.bounce.notify
             /\ recipientsFor(k.name) # {} /\ RouteNamed(k.route)
  <2>1. PICK i \in DOMAIN c.canaries : k = c.canaries[i]
    BY DEF Range
  <2>2. /\ k.name \notin clientNames /\ k.route \in routeNames
    BY <1>1, <2>1 DEF canariesOK
  <2>3. c.canaries # <<>>
    BY <2>1
  <2>4. c.bounce.notify # {}
    BY <1>1, <2>3 DEF canariesOK
  <2>5. recipientsFor(k.name) = c.bounce.notify
    BY <1>1, <2>2, NotDiverted
  <2> QED
    BY <2>2, <2>4, <2>5, NamedRoute
<1>3. recipientsFor("expiry-watch") = c.bounce.notify
  BY ClientRules, NotDiverted DEF reservedNames
<1>4. ASSUME NEW o, recipientsFor(o) # {}
      PROVE  /\ ValidAddress(c.bounce.sender) /\ RouteNamed(c.bounce.route)
             /\ c.bounce.digest > 0 /\ c.bounce.maxPerHour > 0
  <2>1. NotifyLists # {{}}
    BY <1>4, ToldByList
  <2>2. /\ ValidAddress(c.bounce.sender) /\ c.bounce.route \in routeNames
        /\ c.bounce.digest > 0 /\ c.bounce.maxPerHour > 0
    BY <1>1, <2>1 DEF bounceOK
  <2> QED
    BY <2>2, NamedRoute
<1> QED
  BY <1>2, <1>3, <1>4 DEF CanTell

\* The conjuncts about sizes, budgets and the retry schedule.
LEMMA UsableLimits ==
  ASSUME ConfigInv, Accepted
  PROVE  /\ \A cl \in Range(c.clients) :
              /\ maxBytes(cl) > 0
              /\ c.limits.deliveryTimeout >= maxBytes(cl) + 30
         /\ c.queue.retry # <<>> /\ \A m \in Range(c.queue.retry) : m > 0
<1>1. limitsOK /\ queueOK /\ c \in Files
  BY AcceptedChecked
<1>2. /\ c.limits.maxMB > 0
      /\ c.limits.deliveryTimeout >= c.limits.maxMB + 30
  BY <1>1 DEF limitsOK
<1>3. c.limits.maxMB \in Int /\ c.limits.deliveryTimeout \in Int
  <2>1. c.limits \in Limits
    BY <1>1 DEF Files
  <2> QED
    BY <2>1 DEF Limits
<1>4. ASSUME NEW cl \in Range(c.clients)
      PROVE  /\ maxBytes(cl) > 0
             /\ c.limits.deliveryTimeout >= maxBytes(cl) + 30
  <2>1. cl \in Clients
    BY Tables DEF Range
  <2>2. cl.maxMB \in Int
    BY <2>1 DEF Clients
  <2> QED
    BY <1>2, <1>3, <2>2 DEF maxBytes
<1>5. c.queue.retry # <<>> /\ \A m \in Range(c.queue.retry) : m > 0
  BY <1>1 DEF queueOK, Range
<1> QED
  BY <1>4, <1>5

\* The conjunct about addresses: no two clients have one in common.
LEMMA UsableAddresses ==
  ASSUME ConfigInv, Accepted, NEW a \in Addresses,
         NEW i \in DOMAIN c.clients, NEW j \in DOMAIN c.clients,
         \E p \in Range(c.clients[i].cidr) : Holds(p, a),
         \E p \in Range(c.clients[j].cidr) : Holds(p, a)
  PROVE  i = j
<1> DEFINE nets == CidrOf(c.clients)
<1>1. /\ DOMAIN nets = DOMAIN c.clients
      /\ nets[i] = c.clients[i].cidr /\ nets[j] = c.clients[j].cidr
  BY DEF CidrOf
<1>2. PICK k \in DOMAIN nets[i] : Holds(nets[i][k], a)
  BY <1>1 DEF Range
<1>3. PICK l \in DOMAIN nets[j] : Holds(nets[j][l], a)
  BY <1>1 DEF Range
<1> HIDE DEF nets
<1>4. PICK peer \in Peers : peer.addr = a
  <2>1. [mapped |-> FALSE, addr |-> a] \in Peers
    BY DEF Peers
  <2> QED
    BY <2>1
<1>5. /\ <<i, k>> \in Hits(nets, Unmap(peer))
      /\ <<j, l>> \in Hits(nets, Unmap(peer))
  BY <1>1, <1>2, <1>3, <1>4, PlaceOf, LookedUp
<1>6. Listed(nets) /\ Disjoint(nets)
  BY Tables DEF nets
<1>7. <<i, k>> = <<j, l>>
  BY <1>6, <1>5, OneHit
<1> QED
  BY <1>7

-----------------------------------------------------------------------------
(* Routing.                                                                *)

\* The routes the recipients of the message in hand resolve to.
To ==
  [k \in DOMAIN routing.rcpts |->
     Resolve(c.routes, routing.rcpts[k], routing.peer,
             c.clients[routing.client].route, routing.bits)]

Group(names) == [route : names, rcpts : Seq(Nat)]
GroupsOf(names) == Seq(Group(names))

\* What the loop of Split has made of the recipients before n: each is in a
\* group, a group holds recipients of its own route in their order, and no
\* two groups have the same route.
Grouped(groups, n, to) ==
  /\ \A k \in 1..(n - 1) : \E g \in DOMAIN groups :
       \E m \in DOMAIN groups[g].rcpts : groups[g].rcpts[m] = k
  /\ \A g \in DOMAIN groups : \A m \in DOMAIN groups[g].rcpts :
       /\ groups[g].rcpts[m] \in 1..(n - 1)
       /\ to[groups[g].rcpts[m]] = groups[g].route
  /\ \A g \in DOMAIN groups : \A l, m \in DOMAIN groups[g].rcpts :
       l < m => groups[g].rcpts[l] < groups[g].rcpts[m]
  /\ \A g, h \in DOMAIN groups : groups[g].route = groups[h].route => g = h

\* The client a served address belongs to, with its prefix length.
Served ==
  /\ routing.client \in DOMAIN c.clients
  /\ \E j \in DOMAIN c.clients[routing.client].cidr :
       /\ Holds(c.clients[routing.client].cidr[j], routing.peer.addr)
       /\ c.clients[routing.client].cidr[j].bits = routing.bits

Denied ==
  \A i \in DOMAIN c.clients : \A j \in DOMAIN c.clients[i].cidr :
    ~Holds(c.clients[i].cidr[j], routing.peer.addr)

Routings(names) ==
  [op : {"denied", "split"}, peer : Peers, rcpts : Seq(Mails) \ {<<>>},
   client : Nat, bits : Int, next : Nat, groups : GroupsOf(names)]

RoutingInv ==
  routing # Nothing =>
    /\ built = "yes"
    /\ routing \in Routings(routeNames)
    /\ routing.op = "denied" => Denied
    /\ routing.op = "split" =>
         /\ Served
         /\ routing.next \in 1..(Len(routing.rcpts) + 1)
         /\ Grouped(routing.groups, routing.next, To)

\* A recipient that opens a group.
LEMMA Opens ==
  ASSUME NEW names, NEW groups \in GroupsOf(names), NEW n \in Nat \ {0},
         NEW to, Grouped(groups, n, to), NEW r \in names, to[n] = r,
         \A g \in DOMAIN groups : groups[g].route # r
  PROVE  /\ Join(groups, r, n) \in GroupsOf(names)
         /\ Grouped(Join(groups, r, n), n + 1, to)
<1> DEFINE new == [route |-> r, rcpts |-> <<n>>]
           more == Append(groups, new)
           G == Group(names)
<1>1. Join(groups, r, n) = more
  BY DEF Join
<1>2. new \in G /\ groups \in Seq(G)
  BY DEF GroupsOf, Group
<1>3. more \in Seq(G)
  BY <1>2
<1>4. /\ DOMAIN more = 1..(Len(groups) + 1) /\ Len(groups) \in Nat
      /\ DOMAIN groups = 1..Len(groups)
      /\ \A g \in DOMAIN groups : more[g] = groups[g]
      /\ more[Len(groups) + 1] = new
  BY <1>2
<1>5. new.route = r /\ new.rcpts = <<n>> /\ DOMAIN new.rcpts = {1}
        /\ new.rcpts[1] = n
  OBVIOUS
<1> HIDE DEF more, new
<1>6. \A g \in DOMAIN more : g \in DOMAIN groups \/ g = Len(groups) + 1
  BY <1>4
<1>7. \A k \in 1..n : \E g \in DOMAIN more :
        \E m \in DOMAIN more[g].rcpts : more[g].rcpts[m] = k
  <2> SUFFICES ASSUME NEW k \in 1..n
               PROVE  \E g \in DOMAIN more :
                        \E m \in DOMAIN more[g].rcpts : more[g].rcpts[m] = k
    OBVIOUS
  <2>1. CASE k = n
    BY <1>4, <1>5, <2>1
  <2>2. CASE k \in 1..(n - 1)
    <3>1. PICK g \in DOMAIN groups :
            \E m \in DOMAIN groups[g].rcpts : groups[g].rcpts[m] = k
      BY <2>2 DEF Grouped
    <3> QED
      BY <1>4, <3>1
  <2> QED
    BY <2>1, <2>2
<1>8. \A g \in DOMAIN more : \A m \in DOMAIN more[g].rcpts :
        more[g].rcpts[m] \in 1..n /\ to[more[g].rcpts[m]] = more[g].route
  <2>1. \A g \in DOMAIN groups : \A m \in DOMAIN groups[g].rcpts :
          /\ groups[g].rcpts[m] \in 1..(n - 1)
          /\ to[groups[g].rcpts[m]] = groups[g].route
    BY DEF Grouped
  <2> QED
    BY <1>4, <1>5, <1>6, <2>1
<1>9. \A g \in DOMAIN more : \A l, m \in DOMAIN more[g].rcpts :
        l < m => more[g].rcpts[l] < more[g].rcpts[m]
  <2>1. \A g \in DOMAIN groups : \A l, m \in DOMAIN groups[g].rcpts :
          l < m => groups[g].rcpts[l] < groups[g].rcpts[m]
    BY DEF Grouped
  <2> QED
    BY <1>4, <1>5, <1>6, <2>1
<1>10. \A g, h \in DOMAIN more : more[g].route = more[h].route => g = h
  <2>1. \A g, h \in DOMAIN groups :
          groups[g].route = groups[h].route => g = h
    BY DEF Grouped
  <2> QED
    BY <1>4, <1>5, <1>6, <2>1
<1>11. (n + 1) - 1 = n
  OBVIOUS
<1>12. Grouped(more, n + 1, to)
  BY <1>7, <1>8, <1>9, <1>10, <1>11 DEF Grouped
<1> QED
  BY <1>1, <1>3, <1>12 DEF GroupsOf

\* A recipient that joins the group of its route.
LEMMA JoinsOne ==
  ASSUME NEW names, NEW groups \in GroupsOf(names), NEW n \in Nat \ {0},
         NEW to, Grouped(groups, n, to), NEW r \in names, to[n] = r,
         NEW o \in DOMAIN groups, groups[o].route = r
  PROVE  /\ Join(groups, r, n) \in GroupsOf(names)
         /\ Grouped(Join(groups, r, n), n + 1, to)
<1> DEFINE G == Group(names)
           larger == [groups[o] EXCEPT !.rcpts = Append(@, n)]
           more == Join(groups, r, n)
<1>1. groups \in Seq(G) /\ DOMAIN groups = 1..Len(groups)
        /\ Len(groups) \in Nat /\ groups[o] \in G
  BY DEF GroupsOf
<1>2. \A g \in DOMAIN groups : groups[g].route = r <=> g = o
  BY DEF Grouped
<1>3. /\ DOMAIN more = DOMAIN groups /\ more[o] = larger
      /\ \A g \in DOMAIN groups : g # o => more[g] = groups[g]
  BY <1>2 DEF Join
<1>4. groups[o].rcpts \in Seq(Nat)
  BY <1>1 DEF Group
<1>5. /\ larger \in G /\ larger.route = r
      /\ larger.rcpts = Append(groups[o].rcpts, n)
  <2>0. Append(groups[o].rcpts, n) \in Seq(Nat)
    BY <1>4
  <2>1. PICK s \in Seq(Nat) : s = Append(groups[o].rcpts, n)
    BY <2>0, Zenon
  <2>2. larger = [groups[o] EXCEPT !.rcpts = s]
    BY <1>1, <2>1 DEF Group
  <2> HIDE DEF larger
  <2> QED
    BY <1>1, <2>1, <2>2 DEF Group
<1>6. PICK e \in Nat : e = Len(groups[o].rcpts)
  BY <1>4
<1>7. /\ DOMAIN larger.rcpts = 1..(e + 1) /\ DOMAIN groups[o].rcpts = 1..e
      /\ \A m \in 1..e : larger.rcpts[m] = groups[o].rcpts[m]
      /\ larger.rcpts[e + 1] = n
  BY <1>4, <1>5, <1>6
<1>8. more \in Seq(G)
  <2>1. \A g \in DOMAIN groups : groups[g] \in G
    BY <1>1
  <2>2. \A g \in DOMAIN groups : more[g] \in G
    BY <1>3, <1>5, <2>1
  <2>3. more = [g \in 1..Len(groups) |-> more[g]]
    BY <1>1, <1>2 DEF Join
  <2> HIDE DEF more
  <2> QED
    BY <1>1, <2>2, <2>3
<1> HIDE DEF more, larger
<1>9. \A k \in 1..n : \E g \in DOMAIN more :
        \E m \in DOMAIN more[g].rcpts : more[g].rcpts[m] = k
  <2> SUFFICES ASSUME NEW k \in 1..n
               PROVE  \E g \in DOMAIN more :
                        \E m \in DOMAIN more[g].rcpts : more[g].rcpts[m] = k
    OBVIOUS
  <2>1. CASE k = n
    <3>1. e + 1 \in DOMAIN more[o].rcpts /\ more[o].rcpts[e + 1] = k
      BY <1>3, <1>7, <2>1
    <3> QED
      BY <1>3, <3>1
  <2>2. CASE k \in 1..(n - 1)
    <3>1. PICK g \in DOMAIN groups :
            \E m \in DOMAIN groups[g].rcpts : groups[g].rcpts[m] = k
      BY <2>2 DEF Grouped
    <3>2. PICK m \in DOMAIN groups[g].rcpts : groups[g].rcpts[m] = k
      BY <3>1
    <3>3. m \in DOMAIN more[g].rcpts /\ more[g].rcpts[m] = k
      BY <1>3, <1>7, <3>2
    <3> QED
      BY <1>3, <3>3
  <2> QED
    BY <2>1, <2>2
<1>10. \A g \in DOMAIN more : \A m \in DOMAIN more[g].rcpts :
         more[g].rcpts[m] \in 1..n /\ to[more[g].rcpts[m]] = more[g].route
  <2>1. \A g \in DOMAIN groups : \A m \in DOMAIN groups[g].rcpts :
          /\ groups[g].rcpts[m] \in 1..(n - 1)
          /\ to[groups[g].rcpts[m]] = groups[g].route
    BY DEF Grouped
  <2>2. \A m \in DOMAIN larger.rcpts :
          larger.rcpts[m] \in 1..n /\ to[larger.rcpts[m]] = r
    <3> SUFFICES ASSUME NEW m \in 1..(e + 1)
                 PROVE  larger.rcpts[m] \in 1..n /\ to[larger.rcpts[m]] = r
      BY <1>7
    <3>1. CASE m = e + 1
      BY <1>7, <3>1
    <3>2. CASE m \in 1..e
      BY <1>7, <2>1, <3>2
    <3> QED
      BY <3>1, <3>2
  <2>3. \A m \in DOMAIN more[o].rcpts :
          more[o].rcpts[m] \in 1..n /\ to[more[o].rcpts[m]] = more[o].route
    BY <1>3, <1>5, <2>2
  <2>4. ASSUME NEW g \in DOMAIN more, g # o, NEW m \in DOMAIN more[g].rcpts
        PROVE  /\ more[g].rcpts[m] \in 1..n
               /\ to[more[g].rcpts[m]] = more[g].route
    BY <1>3, <2>1, <2>4
  <2> QED
    BY <2>3, <2>4
<1>11. \A g \in DOMAIN more : \A l, m \in DOMAIN more[g].rcpts :
         l < m => more[g].rcpts[l] < more[g].rcpts[m]
  <2>1. \A g \in DOMAIN groups : \A l, m \in DOMAIN groups[g].rcpts :
          l < m => groups[g].rcpts[l] < groups[g].rcpts[m]
    BY DEF Grouped
  <2>2. \A m \in 1..e : larger.rcpts[m] \in 1..(n - 1)
    BY <1>7 DEF Grouped
  <2>3. \A l, m \in 1..(e + 1) :
          l < m => larger.rcpts[l] < larger.rcpts[m]
    <3> SUFFICES ASSUME NEW l \in 1..(e + 1), NEW m \in 1..(e + 1), l < m
                 PROVE  larger.rcpts[l] < larger.rcpts[m]
      OBVIOUS
    <3>0. l \in 1..e
      OBVIOUS
    <3>1. CASE m = e + 1
      BY <1>7, <2>2, <3>0, <3>1
    <3>2. CASE m \in 1..e
      BY <1>7, <2>1, <3>0, <3>2
    <3> QED
      BY <3>1, <3>2
  <2> QED
    BY <1>3, <1>7, <2>1, <2>3
<1>12. \A g, h \in DOMAIN more : more[g].route = more[h].route => g = h
  <2>1. \A g, h \in DOMAIN groups :
          groups[g].route = groups[h].route => g = h
    BY DEF Grouped
  <2>2. \A g \in DOMAIN groups : more[g].route = groups[g].route
    BY <1>3, <1>5
  <2> QED
    BY <1>3, <2>1, <2>2
<1>13. (n + 1) - 1 = n
  OBVIOUS
<1>14. Grouped(more, n + 1, to)
  BY <1>9, <1>10, <1>11, <1>12, <1>13 DEF Grouped
<1> QED
  BY <1>8, <1>14 DEF GroupsOf, more

\* One turn of the loop keeps what it has made of the recipients.
LEMMA JoinKeeps ==
  ASSUME NEW names, NEW groups \in GroupsOf(names), NEW n \in Nat \ {0},
         NEW to, Grouped(groups, n, to), to[n] \in names
  PROVE  /\ Join(groups, to[n], n) \in GroupsOf(names)
         /\ Grouped(Join(groups, to[n], n), n + 1, to)
<1>1. PICK r \in names : r = to[n]
  OBVIOUS
<1>2. CASE \A g \in DOMAIN groups : groups[g].route # r
  BY <1>1, <1>2, Opens
<1>3. CASE \E g \in DOMAIN groups : groups[g].route = r
  BY <1>1, <1>3, JoinsOne
<1> QED
  BY <1>2, <1>3

\* No two routes of an accepted configuration have the same name, and none
\* the empty one.
LEMMA RouteNames ==
  ASSUME ConfigInv, Accepted
  PROVE  /\ routeNames = {c.routes[i].name : i \in DOMAIN c.routes}
         /\ \A i, j \in DOMAIN c.routes :
              c.routes[i].name = c.routes[j].name => i = j
         /\ None \notin routeNames
<1>1. routeNames = {c.routes[i].name : i \in DOMAIN c.routes}
  BY AcceptedChecked DEF RoutesSeen
<1>2. \A i \in DOMAIN c.routes :
        /\ c.routes[i].name # ""
        /\ \A j \in 1..(i - 1) : c.routes[j].name # c.routes[i].name
  BY RouteRules DEF FreshName, ValidName
<1>3. DOMAIN c.routes = 1..Len(c.routes) /\ Len(c.routes) \in Nat
  BY Tables
<1>4. \A i, j \in DOMAIN c.routes :
        c.routes[i].name = c.routes[j].name => i = j
  <2> SUFFICES ASSUME NEW i \in DOMAIN c.routes, NEW j \in DOMAIN c.routes,
                      c.routes[i].name = c.routes[j].name
               PROVE  i = j
    OBVIOUS
  <2>1. i \in Nat /\ j \in Nat /\ i >= 1 /\ j >= 1
    BY <1>3
  <2>2. ~(i < j)
    <3>1. i < j => i \in 1..(j - 1)
      BY <2>1
    <3>2. i \notin 1..(j - 1)
      BY <1>2, Zenon
    <3> QED
      BY <3>1, <3>2
  <2>3. ~(j < i)
    <3>1. j < i => j \in 1..(i - 1)
      BY <2>1
    <3>2. j \notin 1..(i - 1)
      BY <1>2, Zenon
    <3> QED
      BY <3>1, <3>2
  <2> QED
    BY <2>1, <2>2, <2>3
<1> QED
  BY <1>1, <1>2, <1>4 DEF None

\* Resolve picks the name of a route that may carry the recipient.
LEMMA Resolves ==
  ASSUME ConfigInv, Accepted, Served, routing.peer \in Peers, NEW rcpt
  PROVE  \E x \in DOMAIN c.routes :
           /\ MayCarry(x, rcpt)
           /\ c.routes[x].name =
                Resolve(c.routes, rcpt, routing.peer,
                        c.clients[routing.client].route, routing.bits)
<1> DEFINE own == c.clients[routing.client].route
           R == Resolve(c.routes, rcpt, routing.peer, own, routing.bits)
           nets == SourcesOf(c.routes)
           src == Longest(nets, Unmap(routing.peer))
           byDomain == ByDomain(c.routes, DomainOf(rcpt))
           claimed == \E y \in DOMAIN c.routes :
                        DomainOf(rcpt) \in Range(c.routes[y].domains)
           entitled == \E y \in DOMAIN c.routes : Entitled(y) # {}
<1>1. /\ Listed(nets) /\ Disjoint(nets)
      /\ DOMAIN nets = DOMAIN c.routes
      /\ \A y \in DOMAIN c.routes : nets[y] = c.routes[y].sources
      /\ \A y \in DOMAIN c.routes : y # 0
  BY Tables DEF SourcesOf
<1>2. CASE claimed
  <2>1. byDomain # {}
    BY <1>2 DEF ByDomain
  <2>2. DomainOf(rcpt) # ""
    <3>1. PICK y \in DOMAIN c.routes :
            \E j \in DOMAIN c.routes[y].domains :
              DomainOf(rcpt) = c.routes[y].domains[j]
      BY <1>2 DEF Range
    <3>2. PICK j \in DOMAIN c.routes[y].domains :
            DomainOf(rcpt) = c.routes[y].domains[j]
      BY <3>1
    <3>3. /\ DOMAIN DomainsOf(c.routes) = DOMAIN c.routes
          /\ DomainsOf(c.routes)[y] = c.routes[y].domains
      BY DEF DomainsOf
    <3>4. /\ <<y, j>> \in Places(DomainsOf(c.routes))
          /\ Entry(DomainsOf(c.routes), <<y, j>>) = c.routes[y].domains[j]
      BY <3>2, <3>3, PlaceOf
    <3>5. \A p \in Places(DomainsOf(c.routes)) :
            Entry(DomainsOf(c.routes), p) # ""
      BY RouteRules DEF routeDomains
    <3> QED
      BY <3>2, <3>4, <3>5
  <2>3. PICK x : x = CHOOSE i \in byDomain : TRUE
    OBVIOUS
  <2>4. x \in byDomain
    BY <2>1, <2>3
  <2>5. R = c.routes[x].name
    BY <2>1, <2>2, <2>3 DEF Resolve
  <2>6. x \in DOMAIN c.routes /\ DomainOf(rcpt) \in Range(c.routes[x].domains)
    BY <2>4 DEF ByDomain
  <2>7. MayCarry(x, rcpt)
    BY <1>2, <2>6 DEF MayCarry
  <2> QED
    BY <2>5, <2>6, <2>7
<1>3. CASE ~claimed /\ entitled
  <2>1. byDomain = {}
    BY <1>3 DEF ByDomain
  <2>2. PICK y \in DOMAIN c.routes : Entitled(y) # {}
    BY <1>3
  <2>3. PICK j \in DOMAIN c.routes[y].sources :
          /\ Holds(c.routes[y].sources[j], routing.peer.addr)
          /\ own = "" \/ c.routes[y].sources[j].bits > routing.bits
    BY <2>2 DEF Entitled
  <2>4. <<y, j>> \in Hits(nets, Unmap(routing.peer))
          /\ Entry(nets, <<y, j>>) = c.routes[y].sources[j]
    <3>1. y \in DOMAIN nets /\ j \in DOMAIN nets[y]
            /\ nets[y][j] = c.routes[y].sources[j]
      BY <1>1, <2>3
    <3> HIDE DEF nets
    <3>2. <<y, j>> \in Places(nets) /\ Entry(nets, <<y, j>>) = nets[y][j]
      BY <3>1, PlaceOf
    <3>3. Hits(nets, Unmap(routing.peer)) =
            {p \in Places(nets) : Holds(Entry(nets, p), routing.peer.addr)}
      BY LookedUp
    <3> QED
      BY <2>3, <3>1, <3>2, <3>3
  <2>5. src.owner = y /\ src.bits = c.routes[y].sources[j].bits
    <3>1. \A p \in Hits(nets, Unmap(routing.peer)) :
            src.owner = p[1] /\ src.bits = Entry(nets, p).bits
      BY <1>1, LongestHit
    <3> HIDE DEF src, nets
    <3> QED
      BY <2>4, <3>1
  <2>6. SourceWins(src, own, routing.bits)
    <3> HIDE DEF src, own
    <3> QED
      BY <1>1, <2>3, <2>5 DEF SourceWins
  <2>7. R = c.routes[src.owner].name
    BY <2>1, <2>6 DEF Resolve
  <2>8. R = c.routes[y].name
    BY <2>5, <2>7
  <2>9. MayCarry(y, rcpt)
    BY <1>3, <2>2 DEF MayCarry
  <2> QED
    BY <2>8, <2>9
<1>4. CASE ~claimed /\ ~entitled
  <2>1. byDomain = {}
    BY <1>4 DEF ByDomain
  <2>2. ~SourceWins(src, own, routing.bits)
    <3> SUFFICES ASSUME SourceWins(src, own, routing.bits) PROVE FALSE
      OBVIOUS
    <3>1. src.owner # 0 /\ (own = "" \/ src.bits > routing.bits)
      BY DEF SourceWins
    <3>2. PICK p \in Hits(nets, Unmap(routing.peer)) : TRUE
      BY <1>1, <3>1, LongestHit
    <3>3. src.owner = p[1] /\ src.bits = Entry(nets, p).bits
      BY <1>1, LongestHit
    <3>4. /\ p[1] \in DOMAIN nets /\ p[2] \in DOMAIN nets[p[1]]
          /\ Entry(nets, p) = nets[p[1]][p[2]]
          /\ Holds(Entry(nets, p), routing.peer.addr)
      BY PlaceOf, LookedUp
    <3>5. p[2] \in Entitled(p[1]) /\ p[1] \in DOMAIN c.routes
      <4> HIDE DEF src, nets
      <4> QED
        BY <1>1, <3>1, <3>3, <3>4 DEF Entitled
    <3> QED
      BY <1>4, <3>5
  <2>3. CASE own # ""
    <3>1. R = own
      BY <2>1, <2>2, <2>3 DEF Resolve
    <3>2. own \in routeNames
      BY <2>3, AcceptedChecked DEF clientRoutesOK, Served
    <3>3. PICK x \in DOMAIN c.routes : c.routes[x].name = own
      BY <3>2, RouteNames
    <3>4. MayCarry(x, rcpt)
      BY <1>4, <2>3, <3>3 DEF MayCarry
    <3> QED
      BY <3>1, <3>3, <3>4
  <2>4. CASE own = ""
    <3>1. defaults > 0 /\ defaults = Cardinality(Defaults(c.routes))
      BY <2>4, AcceptedChecked DEF clientRoutesOK, Served, RoutesSeen
    <3>2. Defaults(c.routes) # {}
      BY <3>1, FS_EmptySet
    <3>3. PICK x : x = CHOOSE i \in Defaults(c.routes) : TRUE
      OBVIOUS
    <3>4. x \in Defaults(c.routes)
      BY <3>2, <3>3
    <3>5. R = c.routes[x].name
      BY <2>1, <2>2, <2>4, <3>2, <3>3 DEF Resolve, Defaults
    <3>6. x \in DOMAIN c.routes /\ c.routes[x].default
      BY <3>4 DEF Defaults
    <3>7. MayCarry(x, rcpt)
      BY <1>4, <2>4, <3>6 DEF MayCarry
    <3> QED
      BY <3>5, <3>6, <3>7
  <2> QED
    BY <2>3, <2>4
<1> QED
  BY <1>2, <1>3, <1>4

-----------------------------------------------------------------------------
(* The inductive invariant.                                                *)

\* The decision about a message of the i-th client.
Decided(i, envelope, headers) ==
  [op |-> "rewrite", rules |-> c.clients[i].rewrite,
   envelope |-> envelope, headers |-> headers,
   res |-> Apply(c.clients[i].rewrite, envelope, headers)]

RewritingInv ==
  rewriting # Nothing =>
    /\ built = "yes"
    /\ \E i \in DOMAIN c.clients, e \in Envelopes, h \in Blocks :
         c.clients[i].rewrite.mode # "off" /\ rewriting = Decided(i, e, h)

\* A configuration is built from only when it was accepted, nothing validates
\* it again, and it is refused for its certificate only.
BuiltInv ==
  /\ built \in {"no", "yes", "refused"}
  /\ built # "no" => Accepted
  /\ built = "refused" => c.cert = "broken"

PolicyInv == ConfigInv /\ BuiltInv /\ RoutingInv /\ RewritingInv

\* The validator takes no step on an accepted configuration.
LEMMA Settled ==
  ASSUME ConfigInv, ConfigNext
  PROVE  ~Accepted
<1>1. CASE LoadConfig
  BY <1>1, Order DEF LoadConfig, Accepted, Validated
<1>2. ASSUME NEW name, NEW ok, Check(name, ok)
      PROVE  ~Accepted
  BY <1>2, Order DEF Check, Accepted, Validated
<1>3. CASE \/ service \/ listeners \/ tls \/ clients \/ routes
           \/ clientRoutes \/ queue
  BY <1>2, <1>3 DEF service, listeners, tls, clients, routes, clientRoutes,
     queue
<1>4. CASE web \/ metrics \/ history \/ bounce \/ canaries \/ limits
  BY <1>2, <1>4 DEF web, metrics, history, bounce, canaries, limits
<1> QED
  BY <1>1, <1>3, <1>4 DEF ConfigNext

\* What the decisions rest on does not change under them.
LEMMA SamePolicy ==
  ASSUME UNCHANGED configVars
  PROVE  /\ c' = c
         /\ ConfigInv' <=> ConfigInv
         /\ Accepted' <=> Accepted
         /\ UNCHANGED <<routing, built>> => (RoutingInv' <=> RoutingInv)
         /\ UNCHANGED <<rewriting, built>> =>
              (RewritingInv' <=> RewritingInv)
<1>1. /\ c' = c /\ section' = section /\ errs' = errs
      /\ needsCert' = needsCert /\ clientNames' = clientNames
      /\ routeNames' = routeNames /\ defaults' = defaults
  BY DEF configVars, validatorVars
<1>2. ConfigInv' <=> ConfigInv
  <2>1. Checked' <=> Checked
    BY <1>1, SameConfig, SameSeen DEF Checked
  <2> QED
    BY <1>1, <2>1 DEF ConfigInv
<1>3. Accepted' <=> Accepted
  BY <1>1 DEF Accepted, Validated, Sections
<1>4. ASSUME UNCHANGED <<routing, built>>
      PROVE  RoutingInv' <=> RoutingInv
  <2>1. To' = To /\ (Denied' <=> Denied) /\ (Served' <=> Served)
    BY <1>1, <1>4 DEF To, Denied, Served
  <2> QED
    BY <1>1, <1>4, <2>1 DEF RoutingInv, Grouped
<1>5. ASSUME UNCHANGED <<rewriting, built>>
      PROVE  RewritingInv' <=> RewritingInv
  BY <1>1, <1>5 DEF RewritingInv, Decided
<1> QED
  BY <1>1, <1>2, <1>3, <1>4, <1>5


\* A message to be routed is served for the client that has its address, or
\* denied when none has.
LEMMA RouteKeeps ==
  ASSUME PolicyInv, NEW peer \in Peers, NEW rcpts \in RcptLists,
         RouteMessage(peer, rcpts)
  PROVE  RoutingInv'
<1> DEFINE nets == CidrOf(c.clients)
<1>1. built = "yes" /\ built' = "yes" /\ Accepted /\ ConfigInv
        /\ c' = c /\ routeNames' = routeNames
  BY DEF PolicyInv, BuiltInv, RouteMessage, Ready, configVars, validatorVars
<1>2. PICK m : m = Match(c.clients, peer)
  OBVIOUS
<1>3. routing' = [op |-> IF m.owner = 0 THEN "denied" ELSE "split",
                  peer |-> peer, rcpts |-> rcpts, client |-> m.owner,
                  bits |-> m.bits, next |-> 1, groups |-> <<>>]
  BY <1>2 DEF RouteMessage
<1>4. /\ Listed(nets) /\ Disjoint(nets)
      /\ DOMAIN nets = DOMAIN c.clients /\ DOMAIN nets \subseteq Nat \ {0}
      /\ \A i \in DOMAIN nets : nets[i] = c.clients[i].cidr
      /\ \A i \in DOMAIN nets : nets[i] \in Seq(Prefixes)
  <2>1. \A i \in DOMAIN c.clients : c.clients[i] \in Clients
    BY <1>1, Tables
  <2>2. \A i \in DOMAIN c.clients : c.clients[i].cidr \in Seq(Prefixes)
    BY <2>1 DEF Clients
  <2> QED
    BY <1>1, <2>2, Tables DEF CidrOf
<1>5. /\ Hits(nets, Unmap(peer)) = {} => m.owner = 0 /\ m.bits = -1
      /\ \A p \in Hits(nets, Unmap(peer)) :
           m.owner = p[1] /\ m.bits = Entry(nets, p).bits
  <2>1. m = Longest(nets, Unmap(peer))
    BY <1>2 DEF Match
  <2>2. Hits(nets, Unmap(peer)) = {} => m = [owner |-> 0, bits |-> -1]
    BY <2>1 DEF Longest
  <2> HIDE DEF nets
  <2>3. \A p \in Hits(nets, Unmap(peer)) :
          m.owner = p[1] /\ m.bits = Entry(nets, p).bits
    BY <1>4, <2>1, LongestHit
  <2> QED
    BY <2>2, <2>3
<1> HIDE DEF nets
<1>6. \A i \in DOMAIN nets : \A j \in DOMAIN nets[i] :
        Holds(nets[i][j], peer.addr) =>
          <<i, j>> \in Hits(nets, Unmap(peer)) /\ Entry(nets, <<i, j>>) = nets[i][j]
  BY PlaceOf, LookedUp
<1>7. \A p \in Hits(nets, Unmap(peer)) :
        /\ p[1] \in DOMAIN nets /\ p[2] \in DOMAIN nets[p[1]]
        /\ Entry(nets, p) = nets[p[1]][p[2]]
        /\ Holds(nets[p[1]][p[2]], peer.addr)
  BY PlaceOf, LookedUp
<1>8. rcpts \in Seq(Mails) \ {<<>>} /\ <<>> \in GroupsOf(routeNames)
  BY PolicyAssumption DEF GroupsOf
<1>9. CASE Hits(nets, Unmap(peer)) = {}
  <2>1. routing' = [op |-> "denied", peer |-> peer, rcpts |-> rcpts,
                    client |-> 0, bits |-> -1, next |-> 1, groups |-> <<>>]
    BY <1>3, <1>5, <1>9
  <2>2. routing' \in Routings(routeNames)
    BY <1>8, <2>1 DEF Routings
  <2>3. Denied'
    BY <1>1, <1>4, <1>6, <1>9, <2>1 DEF Denied
  <2> QED
    BY <1>1, <2>1, <2>2, <2>3 DEF RoutingInv
<1>10. CASE Hits(nets, Unmap(peer)) # {}
  <2>1. PICK p \in Hits(nets, Unmap(peer)) : TRUE
    BY <1>10
  <2>2. PICK i \in DOMAIN nets : i = p[1]
    BY <1>7
  <2>3. PICK j \in DOMAIN nets[i] : j = p[2]
    BY <1>7, <2>2
  <2>4. Holds(nets[i][j], peer.addr) /\ m.owner = i /\ m.bits = nets[i][j].bits
    BY <1>5, <1>7, <2>2, <2>3
  <2>5. m.owner \in Nat \ {0} /\ m.bits \in Int
    <3>1. nets[i][j] \in Prefixes
      BY <1>4
    <3> QED
      BY <1>4, <2>4, <3>1 DEF Prefixes
  <2>6. routing' = [op |-> "split", peer |-> peer, rcpts |-> rcpts,
                    client |-> m.owner, bits |-> m.bits, next |-> 1,
                    groups |-> <<>>]
    BY <1>3, <2>5
  <2>7. routing' \in Routings(routeNames)
    BY <1>8, <2>5, <2>6 DEF Routings
  <2>8. Served'
    BY <1>1, <1>4, <2>4, <2>6 DEF Served
  <2>9. Grouped(<<>>, 1, To')
    BY DEF Grouped
  <2>10. 1 \in 1..(Len(rcpts) + 1)
    BY <1>8
  <2> QED
    BY <1>1, <2>6, <2>7, <2>8, <2>9, <2>10 DEF RoutingInv
<1> QED
  BY <1>9, <1>10

\* One turn of the loop finds a route for its recipient, so that no message
\* is refused, and adds the recipient to the group of that route.
LEMMA SplitKeeps ==
  ASSUME PolicyInv, routing # Nothing, Split
  PROVE  RoutingInv'
<1>1. /\ built = "yes" /\ built' = "yes" /\ Accepted /\ ConfigInv
      /\ c' = c /\ routeNames' = routeNames
      /\ routing \in Routings(routeNames) /\ routing.op = "split"
      /\ Served /\ Grouped(routing.groups, routing.next, To)
      /\ routing.next \in DOMAIN routing.rcpts
  BY DEF PolicyInv, BuiltInv, RoutingInv, Split, configVars, validatorVars
<1>2. /\ routing.rcpts \in Seq(Mails) \ {<<>>} /\ routing.next \in Nat
      /\ routing.groups \in GroupsOf(routeNames)
  BY <1>1 DEF Routings
<1>3. PICK n \in Nat \ {0} : n = routing.next
  BY <1>1, <1>2
<1>4. PICK to : to = Resolve(c.routes, routing.rcpts[n], routing.peer,
                             c.clients[routing.client].route, routing.bits)
  OBVIOUS
<1>5. To[n] = to
  BY <1>1, <1>3, <1>4 DEF To
<1>6. to \in routeNames /\ to # None
  <2>1. routing.peer \in Peers
    BY <1>1 DEF Routings
  <2> QED
    BY <1>1, <1>4, <2>1, Resolves, RouteNames
<1>7. PICK G : G = Join(routing.groups, to, n)
  OBVIOUS
<1>8. G \in GroupsOf(routeNames) /\ Grouped(G, n + 1, To)
  BY <1>1, <1>2, <1>3, <1>5, <1>6, <1>7, JoinKeeps
<1>9. routing' = [routing EXCEPT !.groups = G, !.next = n + 1]
  <2>1. routing' = [routing EXCEPT !.groups = Join(@, to, routing.next),
                                   !.next = @ + 1]
    BY <1>3, <1>4, <1>6 DEF Split
  <2>2. routing' = [routing EXCEPT
                      !.groups = Join(routing.groups, to, routing.next),
                      !.next = routing.next + 1]
    BY <1>1, <2>1 DEF Routings
  <2> QED
    BY <1>3, <1>7, <2>2
<1>10. routing' \in Routings(routeNames)
  <2>1. PICK k \in Nat : k = n + 1
    OBVIOUS
  <2>2. routing' = [routing EXCEPT !.groups = G, !.next = k]
    BY <1>9, <2>1
  <2> QED
    BY <1>1, <1>8, <2>2 DEF Routings
<1>11. /\ routing'.op = "split" /\ routing'.peer = routing.peer
       /\ routing'.rcpts = routing.rcpts /\ routing'.bits = routing.bits
       /\ routing'.client = routing.client
       /\ routing'.next = n + 1 /\ routing'.groups = G
  BY <1>1, <1>9 DEF Routings
<1>12. To' = To /\ Served'
  BY <1>1, <1>11 DEF To, Served
<1>13. n + 1 \in 1..(Len(routing.rcpts) + 1)
  BY <1>1, <1>2, <1>3
<1> QED
  BY <1>1, <1>8, <1>10, <1>11, <1>12, <1>13 DEF RoutingInv


\* Nothing is built or decided before the file is loaded.
LEMMA PolicyInitInv == PolicyInit => PolicyInv
  BY ConfigInitInv DEF PolicyInit, PolicyInv, BuiltInv, RoutingInv,
     RewritingInv

\* Every step keeps the invariant: the validator's, the building of the
\* tables, a turn of the routing loop, a decision about a sender.
LEMMA PolicyNextInv == PolicyInv /\ [PolicyNext]_policyVars => PolicyInv'
<1> SUFFICES ASSUME PolicyInv, [PolicyNext]_policyVars
             PROVE  PolicyInv'
  OBVIOUS
<1>0. ConfigInv /\ BuiltInv /\ RoutingInv /\ RewritingInv
  BY DEF PolicyInv
<1>1. CASE ConfigNext /\ UNCHANGED <<built, routing, rewriting>>
  <2>1. built = "no" /\ routing = Nothing /\ rewriting = Nothing
    BY <1>0, <1>1, Settled DEF BuiltInv, RoutingInv, RewritingInv
  <2> QED
    BY <1>0, <1>1, <2>1, ConfigNextInv
       DEF PolicyInv, BuiltInv, RoutingInv, RewritingInv
<1>2. CASE Build
  <2>1. UNCHANGED configVars /\ UNCHANGED <<routing, rewriting>> /\ Accepted
    BY <1>2 DEF Build
  <2>2. routing = Nothing /\ rewriting = Nothing
    BY <1>0, <1>2, <2>1 DEF Build, RoutingInv, RewritingInv
  <2>3. built' = "yes" \/ (built' = "refused" /\ c.cert = "broken")
    BY <1>0, <1>2, <2>1, Builds DEF Build, PairLoads
  <2> QED
    BY <1>0, <2>1, <2>2, <2>3, SamePolicy
       DEF PolicyInv, BuiltInv, RoutingInv, RewritingInv
<1>3. ASSUME NEW peer \in Peers, NEW rcpts \in RcptLists,
             RouteMessage(peer, rcpts)
      PROVE  PolicyInv'
  <2>1. UNCHANGED configVars /\ UNCHANGED <<rewriting, built>>
    BY <1>3 DEF RouteMessage
  <2>2. RoutingInv'
    BY <1>3, RouteKeeps
  <2> QED
    BY <1>0, <2>1, <2>2, SamePolicy DEF PolicyInv, BuiltInv
<1>4. CASE Split
  <2>1. UNCHANGED configVars /\ UNCHANGED <<rewriting, built>>
          /\ routing # Nothing
    BY <1>4 DEF Split, Nothing
  <2>2. RoutingInv'
    BY <1>4, <2>1, SplitKeeps
  <2> QED
    BY <1>0, <2>1, <2>2, SamePolicy DEF PolicyInv, BuiltInv
<1>5. ASSUME NEW i \in DOMAIN c.clients, NEW e \in Envelopes,
             NEW h \in Blocks, c.clients[i].rewrite.mode # "off",
             RewriteMessage(i, e, h)
      PROVE  PolicyInv'
  <2>1. UNCHANGED configVars /\ UNCHANGED <<routing, built>>
          /\ built = "yes" /\ c' = c
    BY <1>5 DEF RewriteMessage, Ready, configVars
  <2>2. rewriting' = Decided(i, e, h)
    BY <1>5 DEF RewriteMessage, Decided
  <2>3. RewritingInv'
    BY <1>5, <2>1, <2>2 DEF RewritingInv, Decided
  <2> QED
    BY <1>0, <2>1, <2>3, SamePolicy DEF PolicyInv, BuiltInv
<1>6. CASE UNCHANGED policyVars
  BY <1>0, <1>6, SamePolicy DEF policyVars, PolicyInv, BuiltInv
<1> QED
  BY <1>1, <1>2, <1>3, <1>4, <1>5, <1>6 DEF PolicyNext

\* Everything relied on of a configuration follows from what was checked.
LEMMA InvUsable == PolicyInv => AcceptedIsUsable
<1> SUFFICES ASSUME PolicyInv, Accepted PROVE AcceptedIsUsable
  BY DEF AcceptedIsUsable
<1>1. ConfigInv
  BY DEF PolicyInv
<1>3. built = "refused" =>
        c.cert = "broken" /\ \A l \in Range(c.listeners) : l.tls = "none"
  <2> SUFFICES ASSUME built = "refused"
               PROVE  /\ c.cert = "broken"
                      /\ \A l \in Range(c.listeners) : l.tls = "none"
    OBVIOUS
  <2>1. c.cert = "broken"
    BY DEF PolicyInv, BuiltInv
  <2>2. ASSUME NEW l \in Range(c.listeners) PROVE l.tls = "none"
    BY <1>1, <2>1, UsableTransport
  <2> QED
    BY <2>1, <2>2
<1>2. \A a \in Addresses : \A i, j \in DOMAIN c.clients :
        /\ \E p \in Range(c.clients[i].cidr) : Holds(p, a)
        /\ \E p \in Range(c.clients[j].cidr) : Holds(p, a)
        => i = j
  BY <1>1, UsableAddresses, Zenon
<1> QED
  BY <1>1, <1>2, <1>3, UsableTransport, UsableNotices, UsableLimits, Zenon
     DEF AcceptedIsUsable

\* What is routed is routed by the rule.
LEMMA InvRouted == PolicyInv => RoutedByRule
<1> SUFFICES ASSUME PolicyInv, routing # Nothing PROVE RoutedByRule
  BY DEF RoutedByRule
<1> DEFINE n == Len(routing.rcpts)
<1>1. /\ ConfigInv /\ Accepted /\ routing \in Routings(routeNames)
      /\ routing.op = "denied" => Denied
      /\ routing.op = "split" =>
           /\ Served
           /\ routing.next \in 1..(n + 1)
           /\ Grouped(Groups, routing.next, To)
  BY DEF PolicyInv, BuiltInv, RoutingInv, Groups
<1>2. /\ routing.op \in {"denied", "split"}
      /\ routing.rcpts \in Seq(Mails) \ {<<>>}
      /\ Groups \in GroupsOf(routeNames)
  BY <1>1 DEF Routings, Groups
<1>3. n \in Nat \ {0} /\ DOMAIN routing.rcpts = 1..n
  BY <1>2
<1>4. ASSUME routing.op = "split", routing.next > n
      PROVE  /\ Groups # <<>>
             /\ \A k \in DOMAIN routing.rcpts :
                  \E g \in DOMAIN Groups :
                    /\ k \in Range(Groups[g].rcpts)
                    /\ \A h \in DOMAIN Groups :
                         k \in Range(Groups[h].rcpts) => g = h
             /\ \A g, h \in DOMAIN Groups :
                  Groups[g].route = Groups[h].route => g = h
             /\ \A g \in DOMAIN Groups :
                  /\ \A l, m \in DOMAIN Groups[g].rcpts :
                       l < m => Groups[g].rcpts[l] < Groups[g].rcpts[m]
                  /\ \E x \in DOMAIN c.routes :
                       /\ c.routes[x].name = Groups[g].route
                       /\ \A k \in Range(Groups[g].rcpts) :
                            MayCarry(x, routing.rcpts[k])
  <2>1. Served /\ routing.next - 1 = n
    BY <1>1, <1>3, <1>4
  <2>2. /\ \A k \in 1..n : \E g \in DOMAIN Groups :
             \E m \in DOMAIN Groups[g].rcpts : Groups[g].rcpts[m] = k
        /\ \A g \in DOMAIN Groups : \A m \in DOMAIN Groups[g].rcpts :
             /\ Groups[g].rcpts[m] \in 1..n
             /\ To[Groups[g].rcpts[m]] = Groups[g].route
        /\ \A g \in DOMAIN Groups : \A l, m \in DOMAIN Groups[g].rcpts :
             l < m => Groups[g].rcpts[l] < Groups[g].rcpts[m]
        /\ \A g, h \in DOMAIN Groups :
             Groups[g].route = Groups[h].route => g = h
    BY <1>1, <1>4, <2>1 DEF Grouped
  <2>3. /\ \A k \in 1..n : \E g \in DOMAIN Groups :
             k \in Range(Groups[g].rcpts)
        /\ \A g \in DOMAIN Groups : \A k \in Range(Groups[g].rcpts) :
             k \in 1..n /\ To[k] = Groups[g].route
    BY <2>2 DEF Range
  <2>4. Groups # <<>>
    BY <1>3, <2>3
  <2>5. ASSUME NEW k \in DOMAIN routing.rcpts
        PROVE  \E g \in DOMAIN Groups :
                 /\ k \in Range(Groups[g].rcpts)
                 /\ \A h \in DOMAIN Groups :
                      k \in Range(Groups[h].rcpts) => g = h
    <3>1. PICK g \in DOMAIN Groups : k \in Range(Groups[g].rcpts)
      BY <1>3, <2>3
    <3>2. ASSUME NEW h \in DOMAIN Groups, k \in Range(Groups[h].rcpts)
          PROVE  g = h
      <4>1. To[k] = Groups[g].route /\ To[k] = Groups[h].route
        BY <2>3, <3>1, <3>2
      <4>2. \A a, b \in DOMAIN Groups :
              Groups[a].route = Groups[b].route => a = b
        BY <2>2
      <4> QED
        BY <4>1, <4>2
    <3> QED
      BY <3>1, <3>2
  <2>6. ASSUME NEW g \in DOMAIN Groups
        PROVE  \E x \in DOMAIN c.routes :
                 /\ c.routes[x].name = Groups[g].route
                 /\ \A k \in Range(Groups[g].rcpts) :
                      MayCarry(x, routing.rcpts[k])
    <3>1. \A k \in 1..n : \E x \in DOMAIN c.routes :
            MayCarry(x, routing.rcpts[k]) /\ c.routes[x].name = To[k]
      <4> SUFFICES ASSUME NEW k \in 1..n
                   PROVE  \E x \in DOMAIN c.routes :
                            /\ MayCarry(x, routing.rcpts[k])
                            /\ c.routes[x].name = To[k]
        OBVIOUS
      <4>1. To[k] = Resolve(c.routes, routing.rcpts[k], routing.peer,
                            c.clients[routing.client].route, routing.bits)
        BY <1>3 DEF To
      <4>2. routing.peer \in Peers
        BY <1>1 DEF Routings
      <4> QED
        BY <1>1, <2>1, <4>1, <4>2, Resolves
    <3>2. \A x, y \in DOMAIN c.routes :
            c.routes[x].name = c.routes[y].name => x = y
      BY <1>1, RouteNames
    <3>3. Groups[g].route \in routeNames
      <4>1. Groups[g] \in Group(routeNames)
        BY <1>2 DEF GroupsOf
      <4> QED
        BY <4>1 DEF Group
    <3>4. PICK x \in DOMAIN c.routes : c.routes[x].name = Groups[g].route
      BY <1>1, <3>3, RouteNames
    <3>5. ASSUME NEW k \in Range(Groups[g].rcpts)
          PROVE  MayCarry(x, routing.rcpts[k])
      <4>1. k \in 1..n /\ To[k] = Groups[g].route
        BY <2>3
      <4>2. PICK y \in DOMAIN c.routes :
              MayCarry(y, routing.rcpts[k]) /\ c.routes[y].name = To[k]
        BY <3>1, <4>1
      <4>3. x = y
        BY <3>2, <3>4, <4>1, <4>2
      <4> QED
        BY <4>2, <4>3
    <3> QED
      BY <3>4, <3>5
  <2> QED
    BY <2>2, <2>4, <2>5, <2>6, Zenon
<1>5. routing.op # "refused"
  BY <1>2
<1>6. routing.op = "denied" =>
        \A i \in DOMAIN c.clients : \A j \in DOMAIN c.clients[i].cidr :
          ~Holds(c.clients[i].cidr[j], routing.peer.addr)
  BY <1>1 DEF Denied
<1>7. routing.op # "denied" =>
        \E j \in DOMAIN c.clients[routing.client].cidr :
          /\ Holds(c.clients[routing.client].cidr[j], routing.peer.addr)
          /\ c.clients[routing.client].cidr[j].bits = routing.bits
  BY <1>1, <1>2 DEF Served
<1> QED
  BY <1>4, <1>5, <1>6, <1>7, Zenon DEF RoutedByRule


-----------------------------------------------------------------------------
(* Rewriting.                                                              *)

\* A set of numbers with a bound has a greatest one.
LEMMA GreatestIn ==
  ASSUME NEW S, S \subseteq Nat, S # {}, NEW N \in Nat, \A x \in S : x <= N
  PROVE  Max(S) \in S /\ \A x \in S : x <= Max(S)
<1> DEFINE T == {N - x : x \in S}
<1>1. T \subseteq Nat /\ T # {}
  <2>1. \A x \in S : N - x \in Nat
    OBVIOUS
  <2> QED
    BY <2>1
<1>2. IsWellFoundedOn(OpToRel(<, Nat), Nat)
  BY NatLessThanWellFounded
<1>3. \E t \in T : \A u \in T : ~(<<u, t>> \in OpToRel(<, Nat))
  BY <1>1, <1>2, WFMin
<1>4. PICK t \in T : \A u \in T : ~(u < t)
  BY <1>1, <1>3 DEF OpToRel
<1>5. PICK y \in S : t = N - y
  OBVIOUS
<1>6. \A x \in S : y >= x
  <2> SUFFICES ASSUME NEW x \in S PROVE y >= x
    OBVIOUS
  <2>1. N - x \in T
    OBVIOUS
  <2>2. ~(N - x < N - y)
    BY <1>4, <1>5, <2>1
  <2> QED
    BY <2>2
<1>7. /\ (CHOOSE x \in S : \A z \in S : x >= z) \in S
      /\ \A z \in S : (CHOOSE x \in S : \A w \in S : x >= w) >= z
  BY <1>6
<1>8. Max(S) = CHOOSE x \in S : \A z \in S : x >= z
  BY DEF Max
<1> QED
  BY <1>7, <1>8

\* The places of a header block are numbers, and there is a last one.
Block(blk) ==
  DOMAIN blk \subseteq Nat /\ \E N \in Nat : \A i \in DOMAIN blk : i <= N

\* The place after the last field is not taken.
LEMMA EndFree ==
  ASSUME NEW blk, Block(blk)
  PROVE  End(blk) \in Nat /\ End(blk) \notin DOMAIN blk
<1> DEFINE S == DOMAIN blk \cup {0}
<1>1. PICK N \in Nat : \A i \in DOMAIN blk : i <= N
  BY DEF Block
<1>2. S \subseteq Nat /\ S # {} /\ \A x \in S : x <= N
  BY <1>1 DEF Block
<1>3. PICK m : m = Max(S)
  OBVIOUS
<1>4. m \in S /\ \A x \in S : x <= m
  BY <1>2, <1>3, GreatestIn
<1>5. End(blk) = m + 1
  BY <1>3 DEF End
<1> QED
  BY <1>2, <1>4, <1>5

\* set leaves one field of the name, with the value, and the fields of other
\* names where they were.
LEMMA SetField ==
  ASSUME NEW blk, Block(blk), NEW name, NEW val
  PROVE  /\ Block(set(blk, name, val))
         /\ count(set(blk, name, val), name) = 1
         /\ has(set(blk, name, val), name)
         /\ value(set(blk, name, val), name) = val
         /\ \A other : other # name =>
              /\ count(set(blk, name, val), other) = count(blk, other)
              /\ has(set(blk, name, val), other) <=> has(blk, other)
              /\ value(set(blk, name, val), other) = value(blk, other)
<1>1. PICK place : place = IF has(blk, name) THEN Min(Named(blk, name))
                                             ELSE End(blk)
  OBVIOUS
<1>2. PICK s : s = set(blk, name, val)
  OBVIOUS
<1>3. \A n : Named(blk, n) \subseteq Nat
  BY DEF Block, Named
<1>4. place \in Nat /\ (place \in Named(blk, name)
                          \/ place \notin DOMAIN blk)
  <2>1. CASE has(blk, name)
    BY <1>1, <1>3, <2>1, LeastIn DEF has
  <2>2. CASE ~has(blk, name)
    BY <1>1, <2>2, EndFree
  <2> QED
    BY <2>1, <2>2
<1>5. s = [i \in (DOMAIN blk \ Named(blk, name)) \cup {place} |->
             IF i = place THEN Field(name, val) ELSE blk[i]]
  BY <1>1, <1>2 DEF set
<1>6. /\ DOMAIN s = (DOMAIN blk \ Named(blk, name)) \cup {place}
      /\ s[place] = Field(name, val)
      /\ \A i \in DOMAIN blk \ Named(blk, name) :
           i # place => s[i] = blk[i]
  BY <1>5
<1>7. s[place].name = name /\ s[place].value = val
  BY <1>6 DEF Field
<1>8. Named(s, name) = {place}
  BY <1>6, <1>7 DEF Named
<1>9. \A other : other # name => Named(s, other) = Named(blk, other)
  <2> SUFFICES ASSUME NEW other, other # name
               PROVE  Named(s, other) = Named(blk, other)
    OBVIOUS
  <2>1. ASSUME NEW i \in Named(s, other) PROVE i \in Named(blk, other)
    BY <1>6, <1>7, <2>1 DEF Named
  <2>2. ASSUME NEW i \in Named(blk, other) PROVE i \in Named(s, other)
    <3>1. i \in DOMAIN blk \ Named(blk, name) /\ i # place
      BY <1>4, <2>2 DEF Named
    <3> QED
      BY <1>6, <2>2, <3>1 DEF Named
  <2> QED
    BY <2>1, <2>2
<1>10. Block(s)
  <2>1. PICK N \in Nat : \A i \in DOMAIN blk : i <= N
    BY DEF Block
  <2>2. DOMAIN s \subseteq Nat
    BY <1>4, <1>6 DEF Block
  <2>3. PICK M \in Nat : M >= N /\ M >= place
    <3>1. N + place \in Nat /\ N + place >= N /\ N + place >= place
      BY <1>4
    <3> QED
      BY <3>1
  <2>4. \A i \in DOMAIN s : i <= M
    BY <1>4, <1>6, <2>1, <2>3 DEF Block
  <2> QED
    BY <2>2, <2>4 DEF Block
<1>11. count(s, name) = 1 /\ has(s, name)
  BY <1>8, FS_Singleton DEF count, has
<1>12. value(s, name) = val
  <2>1. Min({place}) = place
    BY <1>4, LeastIn
  <2> QED
    BY <1>7, <1>8, <1>11, <2>1 DEF value
<1>13. ASSUME NEW other, other # name
       PROVE  /\ count(s, other) = count(blk, other)
              /\ has(s, other) <=> has(blk, other)
              /\ value(s, other) = value(blk, other)
  <2>1. Named(s, other) = Named(blk, other)
    BY <1>9, <1>13
  <2>2. CASE has(blk, other)
    <3>1. PICK i : i = Min(Named(blk, other))
      OBVIOUS
    <3>2. i \in Named(blk, other)
      BY <1>3, <2>2, <3>1, LeastIn DEF has
    <3>3. i \in DOMAIN blk \ Named(blk, name) /\ i # place
      BY <1>4, <1>13, <3>2 DEF Named
    <3>4. s[i] = blk[i]
      BY <1>6, <3>3
    <3> QED
      BY <2>1, <2>2, <3>1, <3>4 DEF value, has, count
  <2>3. CASE ~has(blk, other)
    BY <2>1, <2>3 DEF value, has, count
  <2> QED
    BY <2>2, <2>3
<1> QED
  BY <1>2, <1>10, <1>11, <1>12, <1>13

\* remove leaves no field of the name, and those of other names where they
\* were.
LEMMA RemoveField ==
  ASSUME NEW blk, Block(blk), NEW name
  PROVE  /\ ~has(remove(blk, name), name)
         /\ \A other : other # name =>
              /\ count(remove(blk, name), other) = count(blk, other)
              /\ value(remove(blk, name), other) = value(blk, other)
<1>1. PICK s : s = remove(blk, name)
  OBVIOUS
<1>2. /\ DOMAIN s = DOMAIN blk \ Named(blk, name)
      /\ \A i \in DOMAIN s : s[i] = blk[i]
  BY <1>1 DEF remove
<1>3. ~has(s, name)
  BY <1>2 DEF has, Named
<1>4. ASSUME NEW other, other # name
      PROVE  /\ count(s, other) = count(blk, other)
             /\ value(s, other) = value(blk, other)
  <2>1. Named(s, other) = Named(blk, other)
    BY <1>2, <1>4 DEF Named
  <2>2. CASE has(blk, other)
    <3>1. PICK i : i = Min(Named(blk, other))
      OBVIOUS
    <3>2. i \in Named(blk, other)
      BY <2>2, <3>1, LeastIn DEF has, Block, Named
    <3>3. s[i] = blk[i]
      BY <1>2, <2>1, <3>2 DEF Named
    <3> QED
      BY <2>1, <2>2, <3>1, <3>3 DEF value, has, count
  <2>3. CASE ~has(blk, other)
    BY <2>1, <2>3 DEF value, has, count
  <2> QED
    BY <2>2, <2>3
<1> QED
  BY <1>1, <1>3, <1>4


\* What the rules of an accepted configuration are.
LEMMA RuleOf ==
  ASSUME NEW r, Compile(r), r.mode # "off"
  PROVE  /\ ValidAddress(r.envFrom)
         /\ DomainOf(fromValue(r).addr) = DomainOf(r.envFrom)
  BY DEF Compile, fromValue, Mailbox

\* Where the address to answer to comes from, when there is none to add.
LEMMA ReplyAddressOf ==
  ASSUME NEW r, NEW orig, NEW envelope, ValidAddress(r.envFrom)
  PROVE  LET sender == IF ValidAddress(orig.addr) THEN orig.addr
                       ELSE envelope
             a == replyAddress(r, orig, envelope) IN
         \/ a # NoMail /\ a = sender
         \/ a = NoMail /\ (sender = r.envFrom \/ ~ValidAddress(sender))
<1>1. ~ValidAddress(NoMail)
  BY DEF ValidAddress, NoMail
<1> QED
  BY <1>1 DEF replyAddress, addrOfMailbox

\* The block of a rewritten message whose From was replaced.
LEMMA Replaced ==
  ASSUME NEW r, NEW envelope, NEW headers, Block(headers),
         Compile(r), r.mode # "off",
         NEW orig, orig = value(headers, "from"),
         NEW fresh, fresh = set(headers, "from", fromValue(r)),
         NEW kept, kept = IF orig.kind = "empty" THEN fresh
                          ELSE set(fresh, "x-original-from", orig),
         NEW new, new = replyTo(r, kept, orig, envelope)
  PROVE  /\ count(new, "from") = 1
         /\ value(new, "from") = fromValue(r)
         /\ orig.kind # "empty" => value(new, "x-original-from") = orig
         /\ LET sender == IF ValidAddress(orig.addr) THEN orig.addr
                          ELSE envelope
                answers == IF has(new, "reply-to")
                             THEN value(new, "reply-to").addr
                             ELSE value(new, "from").addr IN
            CASE r.replyTo.kind = "drop" -> ~has(new, "reply-to")
              [] r.replyTo.kind = "fixed" -> answers = r.replyTo.addr
              [] OTHER ->
                   \/ has(headers, "reply-to")
                        /\ answers = value(headers, "reply-to").addr
                   \/ answers = sender
                   \/ sender = r.envFrom
                   \/ ~ValidAddress(sender)
<1>1. /\ Block(fresh) /\ count(fresh, "from") = 1
      /\ value(fresh, "from") = fromValue(r)
      /\ has(fresh, "reply-to") <=> has(headers, "reply-to")
      /\ value(fresh, "reply-to") = value(headers, "reply-to")
  BY SetField
<1>2. /\ Block(kept) /\ count(kept, "from") = 1
      /\ value(kept, "from") = fromValue(r)
      /\ has(kept, "reply-to") <=> has(headers, "reply-to")
      /\ value(kept, "reply-to") = value(headers, "reply-to")
      /\ orig.kind # "empty" => value(kept, "x-original-from") = orig
  <2>1. CASE orig.kind = "empty"
    BY <1>1, <2>1
  <2>2. CASE orig.kind # "empty"
    <3>1. kept = set(fresh, "x-original-from", orig)
      BY <2>2
    <3> QED
      BY <1>1, <3>1, SetField
  <2> QED
    BY <2>1, <2>2
<1>3. CASE r.replyTo.kind = "drop"
  <2>1. new = remove(kept, "reply-to")
    BY <1>3 DEF replyTo
  <2>2. /\ ~has(new, "reply-to") /\ count(new, "from") = 1
        /\ value(new, "from") = fromValue(r)
        /\ value(new, "x-original-from") = value(kept, "x-original-from")
    BY <1>2, <2>1, RemoveField
  <2> QED
    BY <1>2, <1>3, <2>2
<1>4. ASSUME NEW a, new = set(kept, "reply-to", Mailbox(a))
      PROVE  /\ count(new, "from") = 1 /\ value(new, "from") = fromValue(r)
             /\ value(new, "x-original-from") =
                  value(kept, "x-original-from")
             /\ has(new, "reply-to") /\ value(new, "reply-to").addr = a
  <2>1. value(new, "reply-to") = Mailbox(a) /\ has(new, "reply-to")
    BY <1>2, <1>4, SetField
  <2> QED
    BY <1>2, <1>4, <2>1, SetField DEF Mailbox
<1>5. CASE r.replyTo.kind = "fixed"
  <2>1. new = set(kept, "reply-to", Mailbox(r.replyTo.addr))
    BY <1>5 DEF replyTo
  <2> QED
    BY <1>2, <1>4, <1>5, <2>1
<1>6. CASE r.replyTo.kind \notin {"drop", "fixed"}
  <2>1. PICK a : a = replyAddress(r, orig, envelope)
    OBVIOUS
  <2>2. new = IF has(kept, "reply-to") \/ a = NoMail THEN kept
              ELSE set(kept, "reply-to", Mailbox(a))
    BY <1>6, <2>1 DEF replyTo
  <2>3. PICK sender : sender = IF ValidAddress(orig.addr) THEN orig.addr
                               ELSE envelope
    OBVIOUS
  <2>4. \/ a # NoMail /\ a = sender
        \/ a = NoMail /\ (sender = r.envFrom \/ ~ValidAddress(sender))
    BY <2>1, <2>3, RuleOf, ReplyAddressOf
  <2>5. CASE has(kept, "reply-to") \/ a = NoMail
    <3>1. new = kept
      BY <2>2, <2>5
    <3> QED
      BY <1>2, <1>6, <2>3, <2>4, <2>5, <3>1
  <2>6. CASE ~(has(kept, "reply-to") \/ a = NoMail)
    <3>1. new = set(kept, "reply-to", Mailbox(a)) /\ a = sender
      BY <2>2, <2>4, <2>6
    <3> QED
      BY <1>2, <1>4, <1>6, <2>3, <3>1
  <2> QED
    BY <2>5, <2>6
<1> QED
  BY <1>3, <1>5, <1>6


\* A block as it is read, and what it takes for its From to be the only one.
LEMMA ReadBlock ==
  ASSUME NEW h \in Blocks
  PROVE  /\ Block(h)
         /\ \A name : count(h, name) \in Nat
         /\ \A name : has(h, name) => count(h, name) > 0
<1> DEFINE n == Len(h)
<1>1. n \in Nat /\ DOMAIN h = 1..n
  BY PolicyAssumption
<1>2. Block(h)
  BY <1>1 DEF Block
<1>3. ASSUME NEW name PROVE IsFiniteSet(Named(h, name))
  <2>1. IsFiniteSet(1..n)
    BY <1>1, FS_Interval
  <2>2. Named(h, name) \subseteq 1..n
    BY <1>1 DEF Named
  <2> QED
    BY <2>1, <2>2, FS_Subset
<1>4. \A name : count(h, name) \in Nat
  BY <1>3, FS_CardinalityType DEF count
<1>5. \A name : has(h, name) => count(h, name) # 0
  BY <1>3, FS_EmptySet DEF count, has
<1> QED
  BY <1>2, <1>4, <1>5

\* What is rewritten is rewritten as the policy says, and the rest is left
\* alone for a reason.
LEMMA InvHonest == PolicyInv => RewriteHonest
<1> SUFFICES ASSUME PolicyInv, rewriting # Nothing, rewriting.res.ok
             PROVE  RewriteHonest
  BY DEF RewriteHonest
<1>1. ConfigInv /\ Accepted
  BY DEF PolicyInv, BuiltInv, RewritingInv
<1>2. PICK i \in DOMAIN c.clients, e \in Envelopes, h \in Blocks :
        c.clients[i].rewrite.mode # "off" /\ rewriting = Decided(i, e, h)
  BY DEF PolicyInv, RewritingInv
<1>3. PICK r : r = c.clients[i].rewrite
  OBVIOUS
<1>4. Compile(r) /\ r.mode # "off"
  BY <1>1, <1>2, <1>3, Builds
<1>5. PICK res : res = Apply(r, e, h)
  OBVIOUS
<1>6. /\ rewriting.rules = r /\ rewriting.envelope = e
      /\ rewriting.headers = h /\ rewriting.res = res
  BY <1>2, <1>3, <1>5 DEF Decided
<1>7. PICK orig : orig = value(h, "from")
  OBVIOUS
<1>8. CASE e = NoMail \/ (r.mode = "if_unauthorized" /\ Authorized(r, e))
  <2>1. res = [ok |-> TRUE, envFrom |-> e, headers |-> h,
               rewritten |-> FALSE, originalFrom |-> NoMail]
    BY <1>4, <1>5, <1>8 DEF Apply
  <2>2. e # NoMail => /\ r.mode = "if_unauthorized"
                      /\ \E p \in r.allowed :
                           p.domain = e.domain /\ p.local \in {"*", e.local}
    BY <1>8 DEF Authorized
  <2> QED
    BY <1>6, <2>1, <2>2 DEF RewriteHonest
<1>9. CASE ~(e = NoMail \/ (r.mode = "if_unauthorized" /\ Authorized(r, e)))
  <2>1. ~(count(h, "from") > 1 \/ orig.kind \in {"long", "unsafe"})
    BY <1>4, <1>5, <1>6, <1>7, <1>9 DEF Apply
  <2>2. CASE keepsFrom(r, orig)
    <3>1. res = [ok |-> TRUE, envFrom |-> r.envFrom, headers |-> h,
                 rewritten |-> TRUE, originalFrom |-> e]
      BY <1>4, <1>5, <1>7, <1>9, <2>1, <2>2 DEF Apply
    <3>2. /\ orig.kind # "empty"
          /\ DomainOf(orig.addr) = DomainOf(r.envFrom)
      BY <2>2 DEF keepsFrom, addrOfMailbox
    <3>3. has(h, "from")
      BY <1>7, <3>2 DEF value, Text
    <3>4. count(h, "from") = 1
      BY <2>1, <3>3, ReadBlock
    <3> QED
      BY <1>6, <1>7, <3>1, <3>2, <3>4 DEF RewriteHonest
  <2>3. CASE ~keepsFrom(r, orig)
    <3>1. PICK fresh : fresh = set(h, "from", fromValue(r))
      OBVIOUS
    <3>2. PICK kept : kept = IF orig.kind = "empty" THEN fresh
                             ELSE set(fresh, "x-original-from", orig)
      OBVIOUS
    <3>3. PICK new : new = replyTo(r, kept, orig, e)
      OBVIOUS
    <3>4. res = [ok |-> TRUE, envFrom |-> r.envFrom, headers |-> new,
                 rewritten |-> TRUE, originalFrom |-> e]
      BY <1>4, <1>5, <1>7, <1>9, <2>1, <2>3, <3>1, <3>2, <3>3 DEF Apply
    <3>5. DomainOf(fromValue(r).addr) = DomainOf(r.envFrom)
      BY <1>4, RuleOf
    <3>6. Block(h)
      BY ReadBlock
    <3>7. /\ count(new, "from") = 1
          /\ value(new, "from") = fromValue(r)
          /\ orig.kind # "empty" => value(new, "x-original-from") = orig
          /\ LET sender == IF ValidAddress(orig.addr) THEN orig.addr
                           ELSE e
                 answers == IF has(new, "reply-to")
                              THEN value(new, "reply-to").addr
                              ELSE value(new, "from").addr IN
             CASE r.replyTo.kind = "drop" -> ~has(new, "reply-to")
               [] r.replyTo.kind = "fixed" -> answers = r.replyTo.addr
               [] OTHER ->
                    \/ has(h, "reply-to")
                         /\ answers = value(h, "reply-to").addr
                    \/ answers = sender
                    \/ sender = r.envFrom
                    \/ ~ValidAddress(sender)
      BY <1>4, <1>7, <3>1, <3>2, <3>3, <3>6, Replaced
    <3> QED
      BY <1>6, <1>7, <3>4, <3>5, <3>7 DEF RewriteHonest
  <2> QED
    BY <2>2, <2>3
<1> QED
  BY <1>8, <1>9

-----------------------------------------------------------------------------
(* The theorems.                                                           *)

\* Every reachable state of the validator, the tables and the decisions
\* satisfies the inductive invariant.
THEOREM PolicyInductive == PolicySpec => []PolicyInv
  BY PolicyInitInv, PolicyNextInv, PTL DEF PolicySpec

\* A configuration Validate accepts is one the program can run with, for any
\* file an operator may write and any address width, but for one case: serve
\* refuses a broken certificate pair that no listener uses, which Validate does
\* not look at.  The router, the matcher and the rewriter build from it, no two
\* clients share an address, no credentials go out without TLS, every digest
\* and canary has somebody to hear it and a route, and budgets and retry
\* schedules are sound.
THEOREM ConfigurationUsable == PolicySpec => []AcceptedIsUsable
  BY PolicyInductive, InvUsable, PTL

\* Match, Resolve and Split route every message by one precedence, refuse
\* none, and put each recipient in exactly one group.  The precedence is the
\* code's, which lets a source network of any width take what comes from a
\* client without a route.
THEOREM RoutingRight == PolicySpec => []RoutedByRule
  BY PolicyInductive, InvRouted, PTL

\* Apply leaves one aligned From, keeps the original one, and answers still
\* reach the sender; what it leaves alone is a bounce or authorized.
THEOREM RewritingHonest == PolicySpec => []RewriteHonest
  BY PolicyInductive, InvHonest, PTL


=============================================================================
