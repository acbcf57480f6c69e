------------------------------ MODULE Service ------------------------------
(***************************************************************************)
(* The life of the service: serve and startWorkers of cmd/smtprelayd, with *)
(* the goroutines they start, the notifier of Notices and the watcher of   *)
(* Watch inside two of them.                                               *)
(*                                                                         *)
(* Startup is a sequence of steps each of which can fail; whatever was     *)
(* started before the failing one has to be stopped and waited for, in the *)
(* order the deferred calls give: cancel, wait for every goroutine, close  *)
(* the store, close the log, report.  A signal may come at any moment.     *)
(* That the manager and the listener do stop once the context is cancelled *)
(* is what Delivery and Listener show; here it is one step each.           *)
(***************************************************************************)
EXTENDS Watch

CONSTANTS
  Plain,  \* goroutines that only return on ctx: housekeeper, canaries
  HTTP    \* HTTP servers that are enabled: metrics, dashboard and API

\* Each goroutine has a name of its own.
ASSUME ServiceAssumption ==
  {"manager", "notifier", "watcher"} \cap (Plain \cup HTTP) = {}

VARIABLES
  stage,     \* where serve is
  ctx,       \* is the context cancelled?
  running,   \* goroutines of the WaitGroup bg
  nphase,    \* the notifier's goroutine: in Run, waiting on done, in Flush
  store,     \* is the history database open?
  logFile,   \* is the log open?
  sockets,   \* are the listeners' sockets bound?
  ready      \* what notifyReady has sent

files == <<store, logFile, sockets>>
serviceVars == <<stage, ctx, running, nphase, files, ready>>
vars == <<noticesVars, watchVars, serviceVars>>

Workers == {"manager", "notifier", "watcher"} \cup Plain

Init ==
  /\ NoticesInit /\ WatchInit
  /\ stage = "load" /\ ctx = FALSE /\ running = {} /\ nphase = "run"
  /\ store = "none" /\ logFile = "none" /\ sockets = "none"
  /\ ready = "none"

-----------------------------------------------------------------------------
(* serve.  Every step leads on or returns an error.                        *)

Startup(from, to) ==
  /\ stage = from /\ stage' \in {to, "return"}
  /\ UNCHANGED <<noticesVars, watchVars, ctx, running, nphase, ready>>

\* config.Load is module Config.
Load == Startup("load", "environment") /\ UNCHANGED files

\* The data directory and the binary's, neither writable by others.
checkEnvironment == Startup("environment", "log") /\ UNCHANGED files

openLog ==
  /\ Startup("log", "certificate")
  /\ logFile' = IF stage' = "return" THEN logFile ELSE "open"
  /\ UNCHANGED <<store, sockets>>

loadCertificate == Startup("certificate", "spool") /\ UNCHANGED files

openSpool == Startup("spool", "store") /\ UNCHANGED files

OpenStore ==
  /\ Startup("store", "listener")
  /\ store' = IF stage' = "return" THEN store ELSE "open"
  /\ UNCHANGED <<logFile, sockets>>

NewListener == Startup("listener", "tokens") /\ UNCHANGED files

\* Token sources and delivery.New.
buildTokenSources == Startup("tokens", "verify") /\ UNCHANGED files

\* Credentials the endpoint rejects end startup; an endpoint out of reach,
\* or a cancellation, does not.
verifyTokens ==
  /\ Startup("verify", "workers") /\ UNCHANGED files

StartWorkers ==
  /\ stage = "workers"
  /\ stage' = "http"
  /\ running' = Workers
  /\ UNCHANGED <<noticesVars, watchVars, ctx, nphase, files, ready>>

\* Metrics first; it is serving when the dashboard's address cannot be
\* bound.
StartHTTP ==
  /\ stage = "http"
  /\ \/ stage' = "bind" /\ running' = running \cup HTTP
     \/ /\ stage' = "return" /\ HTTP # {}
        /\ running' \in {running, running \cup (HTTP \ {"web"})}
  /\ UNCHANGED <<noticesVars, watchVars, ctx, nphase, files, ready>>

\* Set.Bind: if one address cannot be bound, the others are given up.
SetBind(bound) == sockets' = IF bound THEN "open" ELSE "closed"

Bind ==
  /\ stage = "bind"
  /\ \/ stage' = "serve" /\ ready' = "ok" /\ SetBind(TRUE)
     \/ stage' = "return" /\ UNCHANGED ready /\ SetBind(FALSE)
  /\ UNCHANGED <<noticesVars, watchVars, ctx, running, nphase, store,
                 logFile>>

\* Interrupt or SIGTERM; before NotifyContext it would end the process.
Signal ==
  /\ stage \in {"tokens", "verify", "workers", "http", "bind", "serve"}
  /\ ~ctx /\ ctx' = TRUE
  /\ UNCHANGED <<noticesVars, watchVars, stage, running, nphase, files, ready>>

\* set.Run returns once the listeners are closed and their sessions over.
SetRun ==
  /\ stage = "serve" /\ ctx
  /\ stage' = "done" /\ sockets' = "closed"
  /\ UNCHANGED <<noticesVars, watchVars, ctx, running, nphase, store, logFile,
                 ready>>

\* <-done: the manager has stopped.
AwaitDone ==
  /\ stage = "done" /\ "manager" \notin running
  /\ stage' = "return"
  /\ UNCHANGED <<noticesVars, watchVars, ctx, running, nphase, files, ready>>

\* Mutant: the wait relies on stop's own deferred call, which runs later.
Stop_Later ==
  /\ stage = "return"
  /\ stage' = "wait"
  /\ UNCHANGED <<noticesVars, watchVars, ctx, running, nphase, files, ready>>

\* The deferred calls, last one first.
Stop ==
  /\ stage = "return"
  /\ stage' = "wait" /\ ctx' = TRUE
  /\ UNCHANGED <<noticesVars, watchVars, running, nphase, files, ready>>

Close ==
  /\ stage = "wait" /\ running = {}
  /\ stage' = "closed"
  /\ store' = IF store = "open" THEN "closed" ELSE store
  /\ UNCHANGED <<noticesVars, watchVars, ctx, running, nphase, logFile,
                 sockets, ready>>

CloseLog ==
  /\ stage = "closed"
  /\ stage' = "exit"
  /\ logFile' = IF logFile = "open" THEN "closed" ELSE logFile
  /\ UNCHANGED <<noticesVars, watchVars, ctx, running, nphase, store, sockets,
                 ready>>

Exit ==
  /\ stage = "exit"
  /\ stage' = "exited"
  /\ ready' = IF ready = "none" THEN "err" ELSE ready
  /\ UNCHANGED <<noticesVars, watchVars, ctx, running, nphase, files>>

-----------------------------------------------------------------------------
(* The goroutines.                                                         *)

\* A worker's attempt fails for good.
Fails(o) ==
  /\ "manager" \in running
  /\ RecordFail(o)
  /\ UNCHANGED <<watchVars, serviceVars>>

\* Manager, HTTP servers, watcher and the plain ones return on ctx; the
\* watcher also when it has nothing to watch for.
Return(g) ==
  /\ g \in running \ {"notifier"}
  /\ ctx \/ (g = "watcher" /\ WarnWindow = 0)
  /\ running' = running \ {g}
  /\ UNCHANGED <<noticesVars, watchVars, stage, ctx, nphase, files, ready>>

\* notifier.Run; <-done; notifier.Flush().  A dispatch under way is finished
\* before Run looks at ctx again.
Dispatch ==
  /\ "notifier" \in running
  /\ \/ nphase = "run" /\ DispatchTick
     \/ DispatchStep
  /\ UNCHANGED <<watchVars, serviceVars>>

RunReturns ==
  /\ "notifier" \in running /\ nphase = "run" /\ step = "idle" /\ ctx
  /\ nphase' = "done"
  /\ UNCHANGED <<noticesVars, watchVars, stage, ctx, running, files, ready>>

\* Mutant: Flush does not wait for the manager.
Flush_Early ==
  /\ "notifier" \in running /\ nphase = "done"
  /\ DispatchSwap
  /\ nphase' = "flush"
  /\ UNCHANGED <<watchVars, stage, ctx, running, files, ready>>

Flush ==
  /\ "notifier" \in running /\ nphase = "done"
  /\ "manager" \notin running
  /\ DispatchSwap
  /\ nphase' = "flush"
  /\ UNCHANGED <<watchVars, stage, ctx, running, files, ready>>

Flushed ==
  /\ "notifier" \in running /\ nphase = "flush" /\ step = "idle"
  /\ running' = running \ {"notifier"}
  /\ UNCHANGED <<noticesVars, watchVars, stage, ctx, nphase, files, ready>>

\* A check under way is finished before Run looks at ctx again.
Watches ==
  /\ "watcher" \in running
  /\ WatchTick
  /\ UNCHANGED <<noticesVars, serviceVars>>

\* The watcher's own ticker ticks once an hour.  Bound: binding the sockets
\* takes less than a tick.
Time ==
  /\ running # {} /\ stage \notin {"http", "bind"}
  /\ Tick
  /\ due' = (due \/ now' % Hour = 0)
  /\ UNCHANGED <<lastSent, mailed, checked, refused, serviceVars>>

-----------------------------------------------------------------------------
Serve ==
  \/ Load \/ checkEnvironment \/ openLog \/ loadCertificate \/ openSpool
  \/ OpenStore \/ NewListener \/ buildTokenSources \/ verifyTokens
  \/ StartWorkers \/ StartHTTP \/ Bind \/ SetRun \/ AwaitDone
  \/ Stop \/ Close \/ CloseLog \/ Exit

NotifierNext == Dispatch \/ RunReturns \/ Flush \/ Flushed

Next ==
  \/ Serve \/ Signal \/ NotifierNext \/ Watches \/ Time
  \/ \E g \in running : Return(g)
  \/ \E o \in Origins : Fails(o)

\* Every goroutine keeps running and returns once the context is cancelled;
\* the signal, the clock and failures need never come.
Fairness ==
  /\ WF_vars(Serve) /\ WF_vars(NotifierNext)
  /\ \A g \in Workers \cup HTTP : WF_vars(Return(g))

Spec == Init /\ [][Next]_vars /\ Fairness

-----------------------------------------------------------------------------
(* Properties.                                                             *)

InHand(o) == hand[o] + handOver[o]

\* Every failure recorded for somebody who can be told is accounted for, at
\* every moment of a dispatch: counted by a digest that was queued, or still
\* pending, overflowed or in dispatch's hands.  And an overflow count sits
\* beside a full list, so that a later dispatch, which only ranges over the
\* lists, finds it.
FailuresAccounted ==
  \A o \in Origins :
    /\ o \in Notified =>
         recorded[o] = told[o] + pending[o] + overflow[o] + InHand(o)
    /\ overflow[o] > 0 => pending[o] = MaxPending
    /\ pending[o] <= MaxPending

\* The hourly budget is charged for exactly the digests that went out, the
\* one being sent included, whatever failed and was refunded: it neither
\* suppresses a digest for one that produced no mail nor lets one more out.
BudgetHonest ==
  /\ sentThisHour = window + IF step \in {"send", "refund"} THEN 1 ELSE 0
  /\ sentThisHour <= MaxPerHour

\* Nothing uses the store once it is closed, nor the log, which outlives the
\* store; and nothing the manager recorded is forgotten by an orderly exit:
\* what is still pending then was put back by the last dispatch itself, for
\* the cap or for a failed enqueue.
ShutdownOrder ==
  /\ store = "closed" => running = {} /\ sockets # "open"
  /\ logFile = "closed" => running = {} /\ store # "open"
  /\ stage = "exited" =>
       \A o \in Notified : pending[o] + overflow[o] > 0 => o \in held

\* The operator is warned, and not flooded.  Each check leaves nothing inside
\* its window unmailed for a whole resend interval, unless the spool refused
\* the mail at that very check: a refusal is made good by the next one.  And
\* no two mails about an item are closer than that interval, however late
\* the checks run.
WarningsPaced ==
  /\ [](Contact => \A it \in collect(checked) :
          \/ checked = -1 \/ it \in refused
          \/ it \in DOMAIN mailed /\ checked - mailed[it] < Resend)
  /\ [][\A it \in DOMAIN mailed :
          mailed'[it] # mailed[it] => mailed'[it] - mailed[it] >= Resend]_vars

\* A signal, or a startup step that fails, leads to an orderly exit: nobody
\* waits for a goroutine that was never told to stop.
Exits == ctx \/ stage = "return" ~> stage = "exited"

=============================================================================
