----------------------------- MODULE Delivery ------------------------------
(***************************************************************************)
(* The dispatcher and its delivery workers, internal/delivery, with the    *)
(* rate limiter (internal/ratelimit) and the scheduling half of the spool: *)
(* ClaimBatch, Defer, Release, Wake, and the operators' Requeue and        *)
(* Discard.  What those calls do to files is in module Spool; here each is *)
(* one step.  Journal rows are in History, the bounce digest in Notices,   *)
(* the exchange with the smarthost in Smarthost.                           *)
(*                                                                         *)
(* Time is counted in poll intervals.  A deadline is kept as the time left *)
(* until it, so the state space is finite without a bound on the clock.    *)
(***************************************************************************)
EXTENDS Integers, Sequences, FiniteSets, FiniteSetsExt, SequencesExt

CONSTANTS
  Messages,     \* each is committed at most once
  Recovered,    \* those of them already in the spool when the service starts
  Routes,       \* the configured routes
  NoRoute,      \* a route that has been taken out of the configuration
  Slots,        \* max_concurrent of a route
  RateLimit,    \* rate_limit_per_min of a route
  Window,       \* the rate limiter's window
  BatchSize,    \* claimBatchSize
  Schedule,     \* retry_schedule_min, the backoff after each attempt
  Lifetime,     \* time from a commit to the message's expiry
  RetryDelay,   \* releaseRetryDelay
  MaxRequeues   \* bound on requeues in one behaviour

ASSUME DeliveryAssumption ==
  /\ IsFiniteSet(Messages) /\ Recovered \subseteq Messages
  /\ NoRoute \notin Routes
  /\ Slots \in Nat \ {0} /\ RateLimit \in Nat \ {0} /\ Window \in Nat \ {0}
  /\ BatchSize \in Nat \ {0}
  /\ Schedule \in Seq(Nat) /\ Schedule # <<>>
  /\ Lifetime \in Nat /\ RetryDelay \in Nat /\ MaxRequeues \in Nat

VARIABLES
  route,      \* Meta.Route
  where,      \* "new", "queue", "failed" or "gone"
  order,      \* the messages in the spool, by Envelope.Received
  due, life,  \* time left until NextAttempt / Expires; life < 0: expired
  att,        \* Meta.Attempts, up to the length of the schedule
  leased,     \* Spool.leased
  pend,       \* messages indexed by a Commit that has yet to send on wake
  wake, tick, \* the wake channel and the ticker's channel hold a signal
  dpc,        \* where the dispatcher is
  batch,      \* the messages it has claimed and not handled yet
  full,       \* was the batch as long as claimBatchSize?
  saturated,  \* the routes found saturated in this pass
  wpc,        \* the worker of each message, "none" without one
  leaving,    \* per route, workers done with a message and still in a slot
  tokens,     \* the rate limiter's bucket of each route ...
  window,     \* ... and the time left until it is refilled
  cancelled,  \* ctx is cancelled
  requeues,   \* requeues so far
  sent,       \* history: messages a smarthost has taken
  fresh,      \* history: messages committed since a scan last saw the index
  started,    \* history: sends begun per route since its bucket's refill
  unsent      \* history: workers since then that found no body to send

queueVars == <<where, order, due, life, att>>
clockVars == <<tick, window>>
dispVars == <<dpc, batch, full, saturated>>
rateVars == <<tokens, window, started, unsent>>
workVars == <<wpc, leaving>>
vars == <<route, where, order, due, life, att, leased, pend, wake, tick, dpc,
          batch, full, saturated, wpc, leaving, tokens, window, cancelled,
          requeues, sent, fresh, started, unsent>>

TypeOK ==
  /\ route \in [Messages -> Routes \cup {NoRoute}]
  /\ where \in [Messages -> {"new", "queue", "failed", "gone"}]
  /\ order \in Seq(Messages)
  /\ due \in [Messages -> Nat]
  /\ life \in [Messages -> -1..Lifetime]
  /\ att \in [Messages -> 0..Len(Schedule)]
  /\ leased \subseteq Messages /\ pend \subseteq Messages
  /\ wake \in BOOLEAN /\ tick \in BOOLEAN /\ cancelled \in BOOLEAN
  /\ dpc \in {"select", "debounce", "scan", "loop", "drain", "stopped"}
  /\ batch \in Seq(Messages) /\ full \in BOOLEAN /\ saturated \subseteq Routes
  /\ wpc \in [Messages ->
               {"none", "start", "send", "ok", "perm", "temp", "nobody"}]
  /\ leaving \in [Routes -> Nat]
  /\ tokens \in [Routes -> 0..RateLimit] /\ window \in [Routes -> 0..Window]
  /\ started \in [Routes -> Nat] /\ unsent \in [Routes -> Nat]
  /\ requeues \in 0..MaxRequeues
  /\ sent \subseteq Messages /\ fresh \subseteq Messages

\* A recovered message may name a route that is not configured any more.  A
\* route without a bucket is one whose full bucket has run out its window.
Init ==
  /\ route \in [Messages -> Routes \cup {NoRoute}]
  /\ \A m \in Messages \ Recovered : route[m] \in Routes
  /\ where = [m \in Messages |-> IF m \in Recovered THEN "queue" ELSE "new"]
  /\ order = SetToSeq(Recovered)
  /\ due = [m \in Messages |-> 0]
  /\ life = [m \in Messages |-> Lifetime]
  /\ att = [m \in Messages |-> 0]
  /\ leased = {} /\ pend = {}
  /\ wake = FALSE /\ tick = FALSE /\ cancelled = FALSE
  /\ dpc = "scan" /\ batch = <<>> /\ full = FALSE /\ saturated = {}
  /\ wpc = [m \in Messages |-> "none"]
  /\ leaving = [r \in Routes |-> 0]
  /\ tokens = [r \in Routes |-> RateLimit]
  /\ window = [r \in Routes |-> 0]
  /\ started = [r \in Routes |-> 0] /\ unsent = [r \in Routes |-> 0]
  /\ requeues = 0 /\ sent = {} /\ fresh = {}

\* The message leaves the spool.
Forget(m) ==
  /\ where' = [where EXCEPT ![m] = "gone"]
  /\ order' = SelectSeq(order, LAMBDA n : n # m)
  /\ due' = [due EXCEPT ![m] = 0]
  /\ life' = [life EXCEPT ![m] = Lifetime]
  /\ att' = [att EXCEPT ![m] = 0]

Queued == {m \in Messages : where[m] = "queue"}
Active(r) == {m \in Messages : wpc[m] # "none" /\ route[m] = r}

-----------------------------------------------------------------------------
(* Around the dispatcher: the clock, commits, operators, shutdown.         *)

Tick ==
  /\ due' = [m \in Messages |-> Max({due[m] - 1, 0})]
  /\ life' = [m \in Messages |->
                IF where[m] \in {"queue", "failed"} THEN Max({life[m] - 1, -1})
                                                    ELSE life[m]]
  /\ window' = [r \in Routes |-> Max({window[r] - 1, 0})]
  /\ tick' = TRUE
  /\ UNCHANGED <<where, order, att, leased, pend, wake, dispVars, workVars,
                 tokens, cancelled, requeues, route, sent, fresh, started,
                 unsent>>

\* Commit puts the message into the index, ...
CommitPut(m) ==
  /\ where[m] = "new"
  /\ where' = [where EXCEPT ![m] = "queue"]
  /\ order' = Append(order, m)
  /\ pend' = pend \cup {m}
  /\ fresh' = fresh \cup {m}
  /\ UNCHANGED <<due, life, att, leased, wake, tick, dispVars, workVars,
                 rateVars, cancelled, requeues, route, sent>>

\* ... then sends on the channel, or finds a signal already in it.
CommitWake(m) ==
  /\ m \in pend
  /\ pend' = pend \ {m}
  /\ wake' = TRUE
  /\ UNCHANGED <<queueVars, leased, tick, dispVars, workVars, rateVars,
                 cancelled, requeues, route, sent, fresh>>

\* Requeue keeps Expires and sends no wake.
Requeue(m) ==
  /\ requeues < MaxRequeues /\ requeues' = requeues + 1
  /\ where[m] \in {"queue", "failed"} /\ m \notin leased
  /\ where' = [where EXCEPT ![m] = "queue"]
  /\ att' = [att EXCEPT ![m] = 0]
  /\ due' = [due EXCEPT ![m] = 0]
  /\ UNCHANGED <<order, life, leased, pend, wake, tick, dispVars, workVars,
                 rateVars, cancelled, route, sent, fresh>>

Discard(m) ==
  /\ where[m] \in {"queue", "failed"} /\ m \notin leased
  /\ Forget(m)
  /\ fresh' = fresh \ {m}
  /\ UNCHANGED <<leased, pend, wake, tick, dispVars, workVars, rateVars,
                 cancelled, requeues, route, sent>>

Cancel ==
  /\ ~cancelled /\ cancelled' = TRUE
  /\ UNCHANGED <<queueVars, leased, pend, wake, tick, dispVars, workVars,
                 rateVars, requeues, route, sent, fresh>>

-----------------------------------------------------------------------------
(* The dispatcher: Manager.Run, dispatch and dispatchOne.                  *)

Due == {m \in Queued \ leased : due[m] = 0 /\ route[m] \notin saturated}

\* m was received before n.
Older(m, n) ==
  \E i, j \in 1..Len(order) : i < j /\ order[i] = m /\ order[j] = n

\* ClaimBatch: the oldest due messages of the routes that are not skipped,
\* oldest first; whatever is left out is younger than a full batch.
Scan ==
  /\ dpc = "scan" /\ dpc' = "loop"
  /\ \E n \in 0..BatchSize : \E taken \in [1..n -> Due] :
       /\ \A i, j \in 1..n : i # j => taken[i] # taken[j]
       /\ \A i, j \in 1..n : i < j => Older(taken[i], taken[j])
       /\ \A m \in Due \ ToSet(taken) :
            n = BatchSize /\ \A i \in 1..n : Older(taken[i], m)
       /\ batch' = taken /\ full' = (n = BatchSize)
       /\ leased' = leased \cup ToSet(taken)
       /\ fresh' = (fresh \cap Due) \ ToSet(taken)
  /\ UNCHANGED <<queueVars, pend, wake, tick, saturated, workVars, rateVars,
                 cancelled, requeues, route, sent>>

\* The next message of the batch.
Handle(m) ==
  /\ dpc = "loop" /\ batch # <<>> /\ m = Head(batch)
  /\ batch' = Tail(batch)
  /\ UNCHANGED <<dpc, full>>

\* hold and Defer: no later than the message's expiry, and not on disk.
Hold(m, d) ==
  /\ due' = [due EXCEPT ![m] = Min({d, Max({life[m], 0})})]
  /\ leased' = leased \ {m}

\* fail: the message leaves the index for spool/failed.  What is left of its
\* schedule is reset by the Requeue that brings it back, if one does.
Fail(m) ==
  /\ where' = [where EXCEPT ![m] = "failed"]
  /\ leased' = leased \ {m}
  /\ att' = [att EXCEPT ![m] = 0]
  /\ due' = [due EXCEPT ![m] = 0]

UnknownRoute(m) ==
  /\ ~cancelled /\ Handle(m)
  /\ route[m] \notin Routes
  /\ Fail(m)
  /\ UNCHANGED <<order, life, pend, wake, tick, saturated, workVars,
                 rateVars, cancelled, requeues, route, sent, fresh>>

SlotFree(r) == Cardinality(Active(r)) + leaving[r] < Slots

\* Mutant: the rate limiter is asked before the slot.
NoSlot_SpendsToken(m) ==
  /\ ~cancelled /\ Handle(m)
  /\ route[m] \in Routes /\ ~SlotFree(route[m])
  /\ saturated' = saturated \cup {route[m]}
  /\ tokens' = [tokens EXCEPT ![route[m]] =
                  IF window[route[m]] = 0 THEN RateLimit - 1
                                            ELSE Max({@ - 1, 0})]
  /\ window' = [window EXCEPT ![route[m]] = IF @ = 0 THEN Window ELSE @]
  /\ started' = [started EXCEPT ![route[m]] =
                   IF window[route[m]] = 0 THEN 0 ELSE @]
  /\ unsent' = [unsent EXCEPT ![route[m]] =
                  IF window[route[m]] = 0 THEN 0 ELSE @]
  /\ Hold(m, 1)
  /\ UNCHANGED <<where, order, life, att, pend, wake, tick, workVars,
                 cancelled, requeues, route, sent, fresh>>

NoSlot(m) ==
  /\ ~cancelled /\ Handle(m)
  /\ route[m] \in Routes /\ ~SlotFree(route[m])
  /\ saturated' = saturated \cup {route[m]}
  /\ Hold(m, 1)
  /\ UNCHANGED <<where, order, life, att, pend, wake, tick, workVars,
                 rateVars, cancelled, requeues, route, sent, fresh>>

\* Limiter.Allow: the bucket as the call finds it, refilled when its window
\* has run out.  A refill starts the two counts of this bucket anew.
Bucket(r) == IF window[r] = 0 THEN RateLimit ELSE tokens[r]

Allow(r, ok) ==
  /\ ok = (Bucket(r) > 0)
  /\ tokens' = [tokens EXCEPT ![r] = Max({Bucket(r) - 1, 0})]
  /\ window' = [window EXCEPT ![r] = IF @ = 0 THEN Window ELSE @]
  /\ started' = [started EXCEPT ![r] = IF window[r] = 0 THEN 0 ELSE @]
  /\ unsent' = [unsent EXCEPT ![r] = IF window[r] = 0 THEN 0 ELSE @]

\* The slot goes back; wait is at least one.
RateDenied(m) ==
  /\ ~cancelled /\ Handle(m)
  /\ route[m] \in Routes /\ SlotFree(route[m])
  /\ Allow(route[m], FALSE)
  /\ saturated' = saturated \cup {route[m]}
  /\ Hold(m, window'[route[m]])
  /\ UNCHANGED <<where, order, life, att, pend, wake, tick, workVars,
                 cancelled, requeues, route, sent, fresh>>

\* The goroutine is created, with the slot and the token; it runs later.
Spawn(m) ==
  /\ ~cancelled /\ Handle(m)
  /\ route[m] \in Routes /\ SlotFree(route[m])
  /\ Allow(route[m], TRUE)
  /\ wpc' = [wpc EXCEPT ![m] = "start"]
  /\ UNCHANGED <<queueVars, leased, pend, wake, tick, saturated, leaving,
                 cancelled, requeues, route, sent, fresh>>

\* Mutant: one suffix too short, the message at hand keeps its lease.
ReleaseFrom_SkipsFirst ==
  /\ cancelled /\ dpc = "loop" /\ batch # <<>>
  /\ leased' = leased \ ToSet(Tail(batch))
  /\ batch' = <<>> /\ full' = FALSE /\ saturated' = {} /\ dpc' = "drain"
  /\ UNCHANGED <<queueVars, pend, wake, tick, workVars, rateVars,
                 cancelled, requeues, route, sent, fresh>>

\* releaseFrom: this message and the rest of the batch keep their schedule.
ReleaseFrom ==
  /\ cancelled /\ dpc = "loop" /\ batch # <<>>
  /\ leased' = leased \ ToSet(batch)
  /\ batch' = <<>> /\ full' = FALSE /\ saturated' = {} /\ dpc' = "drain"
  /\ UNCHANGED <<queueVars, pend, wake, tick, workVars, rateVars,
                 cancelled, requeues, route, sent, fresh>>

\* Mutant: the pass ends by emptying the wake channel.
BatchDone_DrainsWake ==
  /\ dpc = "loop" /\ batch = <<>>
  /\ dpc' = IF full THEN "scan" ELSE "select"
  /\ full' = FALSE
  /\ saturated' = IF full THEN saturated ELSE {}
  /\ wake' = FALSE
  /\ UNCHANGED <<queueVars, leased, pend, tick, batch, workVars, rateVars,
                 cancelled, requeues, route, sent, fresh>>

\* A full batch is followed by another scan, a short one ends the pass and
\* what it knows of saturated routes.
BatchDone ==
  /\ dpc = "loop" /\ batch = <<>>
  /\ dpc' = IF full THEN "scan" ELSE "select"
  /\ full' = FALSE
  /\ saturated' = IF full THEN saturated ELSE {}
  /\ UNCHANGED <<queueVars, leased, pend, wake, tick, batch, workVars,
                 rateVars, cancelled, requeues, route, sent, fresh>>

SelectTick ==
  /\ dpc = "select" /\ tick
  /\ tick' = FALSE /\ dpc' = "scan"
  /\ UNCHANGED <<queueVars, leased, pend, wake, batch, full, saturated,
                 workVars, rateVars, cancelled, requeues, route, sent, fresh>>

SelectWake ==
  /\ dpc = "select" /\ wake
  /\ wake' = FALSE /\ dpc' = "debounce"
  /\ UNCHANGED <<queueVars, leased, pend, tick, batch, full, saturated,
                 workVars, rateVars, cancelled, requeues, route, sent, fresh>>

Debounced ==
  /\ dpc = "debounce"
  /\ dpc' = "scan"
  /\ UNCHANGED <<queueVars, leased, pend, wake, tick, batch, full, saturated,
                 workVars, rateVars, cancelled, requeues, route, sent, fresh>>

SelectDone ==
  /\ dpc \in {"select", "debounce"} /\ cancelled
  /\ dpc' = "drain"
  /\ UNCHANGED <<queueVars, leased, pend, wake, tick, batch, full, saturated,
                 workVars, rateVars, cancelled, requeues, route, sent, fresh>>

\* wg.Wait.
Drained ==
  /\ dpc = "drain"
  /\ \A r \in Routes : Active(r) = {} /\ leaving[r] = 0
  /\ dpc' = "stopped"
  /\ UNCHANGED <<queueVars, leased, pend, wake, tick, batch, full, saturated,
                 workVars, rateVars, cancelled, requeues, route, sent, fresh>>

-----------------------------------------------------------------------------
(* A worker: attempt, send and record.                                     *)

\* send opens the body and offers the message to the smarthost, ...
Begin(m) ==
  /\ wpc[m] = "start"
  /\ wpc' = [wpc EXCEPT ![m] = "send"]
  /\ started' = [started EXCEPT ![route[m]] = @ + 1]
  /\ UNCHANGED <<queueVars, leased, pend, wake, tick, dispVars, leaving,
                 tokens, window, unsent, cancelled, requeues, route, sent,
                 fresh>>

\* ... or cannot open it: there is nothing to offer.
Unreadable(m) ==
  /\ wpc[m] = "start"
  /\ wpc' = [wpc EXCEPT ![m] = "nobody"]
  /\ unsent' = [unsent EXCEPT ![route[m]] = @ + 1]
  /\ UNCHANGED <<queueVars, leased, pend, wake, tick, dispVars, leaving,
                 tokens, window, started, cancelled, requeues, route, sent,
                 fresh>>

\* The attempt ends: taken by the smarthost (partly, or with a bad goodbye,
\* included), refused for good or for now.
Sent(m, outcome) ==
  /\ wpc[m] = "send"
  /\ wpc' = [wpc EXCEPT ![m] = outcome]
  /\ sent' = IF outcome = "ok" THEN sent \cup {m} ELSE sent
  /\ UNCHANGED <<queueVars, leased, pend, wake, tick, dispVars, leaving,
                 rateVars, cancelled, requeues, route, fresh>>

\* The worker is done with the message, not yet out of its slot.
Finish(m) ==
  /\ wpc' = [wpc EXCEPT ![m] = "none"]
  /\ leaving' = [leaving EXCEPT ![route[m]] = @ + 1]
  /\ UNCHANGED <<pend, wake, tick, dispVars, rateVars, cancelled, requeues,
                 route, sent, fresh>>

\* Mutant: ctx is looked at before the result.
HoldCancelled_AnyResult(m) ==
  /\ wpc[m] \in {"ok", "perm", "temp"} /\ cancelled
  /\ Hold(m, 0)
  /\ Finish(m)
  /\ UNCHANGED <<where, order, life, att>>

\* An error after cancellation counts for nothing.
HoldCancelled(m) ==
  /\ wpc[m] \in {"perm", "temp"} /\ cancelled
  /\ Hold(m, 0)
  /\ Finish(m)
  /\ UNCHANGED <<where, order, life, att>>

RecordDelivered(m) ==
  /\ wpc[m] = "ok"
  /\ Forget(m)
  /\ leased' = leased \ {m}
  /\ Finish(m)

\* Permanent, or temporary and past the expiry, or the body unreadable.
RecordFailed(m) ==
  /\ \/ wpc[m] = "nobody"
     \/ wpc[m] = "perm" /\ ~cancelled
     \/ wpc[m] = "temp" /\ ~cancelled /\ life[m] < 0
  /\ Fail(m)
  /\ Finish(m)
  /\ UNCHANGED <<order, life>>

\* Mutant: a backoff may outlive the message.
DeferRetry_Unclamped(m, written) ==
  LET attempts == Min({att[m] + 1, Len(Schedule)})
      next == Schedule[attempts]
  IN  /\ wpc[m] = "temp" /\ ~cancelled /\ life[m] >= 0
      /\ att' = [att EXCEPT ![m] = attempts]
      /\ due' = [due EXCEPT ![m] = IF written THEN next
                                              ELSE Max({next, RetryDelay})]
      /\ leased' = leased \ {m}
      /\ Finish(m)
      /\ UNCHANGED <<where, order, life>>

\* Mutant: the expiry is not looked at.
DeferRetry_NeverExpires(m, written) ==
  LET attempts == Min({att[m] + 1, Len(Schedule)})
  IN  /\ wpc[m] = "temp" /\ ~cancelled
      /\ att' = [att EXCEPT ![m] = attempts]
      /\ due' = [due EXCEPT ![m] = Schedule[attempts]]
      /\ leased' = leased \ {m}
      /\ Finish(m)
      /\ UNCHANGED <<where, order, life>>

\* backoff, clamped to the expiry; a metadata write that fails in Release
\* puts a floor under it.
DeferRetry(m, written) ==
  LET attempts == Min({att[m] + 1, Len(Schedule)})
      next == Min({Schedule[attempts], life[m]})
  IN  /\ wpc[m] = "temp" /\ ~cancelled /\ life[m] >= 0
      /\ att' = [att EXCEPT ![m] = attempts]
      /\ due' = [due EXCEPT ![m] = IF written THEN next
                                              ELSE Max({next, RetryDelay})]
      /\ leased' = leased \ {m}
      /\ Finish(m)
      /\ UNCHANGED <<where, order, life>>

\* Mutant: a worker that sees ctx cancelled returns without its slot.
Leave_NotCancelled(r) ==
  /\ leaving[r] > 0 /\ ~cancelled
  /\ leaving' = [leaving EXCEPT ![r] = @ - 1]
  /\ UNCHANGED <<queueVars, leased, pend, wake, tick, dispVars, wpc, rateVars,
                 cancelled, requeues, route, sent, fresh>>

\* The goroutine's deferred receive from the slots channel.
Leave(r) ==
  /\ leaving[r] > 0
  /\ leaving' = [leaving EXCEPT ![r] = @ - 1]
  /\ UNCHANGED <<queueVars, leased, pend, wake, tick, dispVars, wpc, rateVars,
                 cancelled, requeues, route, sent, fresh>>

-----------------------------------------------------------------------------
Dispatch ==
  \/ \E m \in Messages :
       UnknownRoute(m) \/ NoSlot(m) \/ RateDenied(m) \/ Spawn(m)
  \/ Scan \/ ReleaseFrom \/ BatchDone
  \/ SelectTick \/ SelectWake \/ Debounced \/ SelectDone \/ Drained

Work(m) ==
  \/ Begin(m) \/ Unreadable(m)
  \/ \E o \in {"ok", "perm", "temp"} : Sent(m, o)
  \/ HoldCancelled(m) \/ RecordDelivered(m) \/ RecordFailed(m)
  \/ \E written \in BOOLEAN : DeferRetry(m, written)

Next ==
  \/ Tick \/ Cancel
  \/ Dispatch
  \/ \E m \in Messages : CommitPut(m) \/ CommitWake(m) \/ Requeue(m)
                           \/ Discard(m) \/ Work(m)
  \/ \E r \in Routes : Leave(r)

Spec == Init /\ [][Next]_vars

\* Time passes, the dispatcher and every goroutine run on, an attempt ends
\* (limits.delivery_timeout_sec), and a select whose ctx.Done is ready is not
\* passed over for ever.  Nothing is assumed of clients and operators, nor
\* of which way an attempt goes.
FairSpec ==
  /\ Spec
  /\ WF_vars(Tick) /\ WF_vars(Dispatch) /\ SF_vars(SelectDone)
  /\ \A m \in Messages : WF_vars(Work(m))
  /\ \A r \in Routes : WF_vars(Leave(r))

-----------------------------------------------------------------------------
(* Properties.                                                             *)

\* Every lease is in the hands of somebody who will give it back: a message
\* is leased exactly while it waits in the dispatcher's batch or a worker is
\* on it, never both, and a manager that has stopped holds none.
LeaseAccounted ==
  /\ leased = ToSet(batch) \cup {m \in Messages : wpc[m] # "none"}
  /\ \A i \in 1..Len(batch) : wpc[batch[i]] = "none"
  /\ \A m \in leased : where[m] = "queue"
  /\ dpc = "stopped" => leased = {}

\* A message the smarthost has taken is not offered again, whatever ctx, the
\* clock and the operators do before it is removed.
SentOnce ==
  \A m \in sent : where[m] = "queue" => wpc[m] = "ok"

\* The workers that have a token and have not begun to send.
Starting(r) == {m \in Messages : wpc[m] = "start" /\ route[m] = r}

\* A saturated route gets the configured rate, neither less nor much more:
\* every token gone from the bucket is a send that a worker has begun, or is
\* about to, or could not for want of a body (so none went to a message that
\* was held for a slot); and no more is sent from one bucket than what it
\* has given, but for the workers of other slots that a refill overtook on
\* their way.  (dispatchOne asking for the slot first, Allow, send.)
TokenPerSend ==
  \A r \in Routes :
    LET spent == RateLimit - tokens[r]
        begun == started[r] + unsent[r] + Cardinality(Starting(r))
    IN  spent <= begun /\ begun <= spent + Slots - 1

\* A committed message does not wait for the ticker: until a scan has seen
\* it, a wake-up is in the channel, about to be sent, or being acted on.
\* (Commit's non-blocking send, and dispatch ending on a short batch.)
WakeNotLost ==
  \A m \in fresh :
    \/ wake \/ m \in pend
    \/ dpc \in {"debounce", "scan"}
    \/ dpc = "loop" /\ full
    \/ cancelled

\* No message sleeps past its own expiry, except by the delay that follows a
\* failed metadata write.  (hold, deferRetry, Release.)
DueByExpiry ==
  \A m \in Queued : due[m] <= Max({life[m], RetryDelay})

\* Once clients stop sending and operators stop requeueing, the queue drains:
\* every message is delivered, failed or discarded, unless the service stops.
Drains == (Queued # {}) ~> (Queued = {} \/ cancelled)

\* A cancelled manager stops, with every attempt finished.
Stops == cancelled ~> dpc = "stopped"
=============================================================================
