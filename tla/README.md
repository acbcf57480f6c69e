# A TLA+ model of smtprelayd

smtprelayd is a store-and-forward SMTP relay: it accepts mail from devices on
the local network, keeps it in a spool on disk, and hands it to a smarthost per
route until it is delivered, expires or is refused. This directory holds TLA+
models of its core, the TLC configurations that check them on small instances,
and TLAPS proofs for instances of any size. Paths below are relative to
`src/internal/` unless they start with `src/`.

## 1. Inventory

| Part | State it keeps | Operations | Interacts with |
|---|---|---|---|
| spool (`spool/spool.go`, `spool/failed.go`) | two directories of body/metadata pairs; in memory the live index, the mirror of `spool/failed`, the leases, the wake channel | `Stage`, `Commit`, `ClaimBatch`, `Defer`, `Release`, `Remove`, `Fail`, `Requeue`, `Discard`, `SweepFailed`, `Open`/`recover` | everything below |
| quota (`spool/quota.go`) | reserved bytes; reads the spool's two running totals | `reserve`, `release` | `Commit` |
| delivery (`delivery/delivery.go`) | slots per route, the batch at hand, one goroutine per attempt | `Run`, `dispatch`, `dispatchOne`, `attempt`, `record`, `deferRetry`, `hold`, `fail` | spool, rate limiter, smarthost client, store, bounce |
| rate limiter (`ratelimit`) | a bucket per key | `Allow` | delivery, listener |
| smarthost client (`delivery/smarthost`) | one connection | `Deliver`, `classify` | delivery, OAuth2 token source |
| listener (`listener`) | a session per connection, admission counters | the SMTP commands, `stageMessage`, `commitCopies`, `withdraw`, `Close` | spool, router, rewriter, store |
| router, rewriter (`router`, `rewrite`) | configuration only | `Resolve`, `Split`, `Apply` | listener |
| store (`store`) | SQLite: message, attempt and audit rows | `RecordMessage`, `RecordAttempt`, `RecordRemoval`, `RecordRequeue`, `ReconcileRemoved`, retention | listener, delivery, queue actions |
| queue actions (`queueaction`) | none | `Requeue`, `Delete` | web, API; spool, store |
| bounce notifier (`bounce`) | failures pending per client, hourly cap | `RecordFail`, `dispatch`, `Run`, `Flush` | delivery; spool through `selfmail` |
| canary, expiry watcher (`canary`, `expiry`) | time of the last mail | periodic checks | spool through `selfmail` |
| token source (`authms365`) | cached token, cooldown | `Token` | smarthost client |
| API limiter (`api/auth.go`) | failures per address | check, record | API |
| configuration (`config`) | the loaded configuration; while it is validated, what one section passes to the next | `Load`, `Normalize`, `Validate` | everything, at startup |
| service lifecycle (`src/cmd/smtprelayd`), housekeeping | the context, the goroutines, store and log | `serve`, `startWorkers`, passes | all of the above |
| web, metrics, logging, certificates | presentation or read-once | | |

**What is hard here.** Every actor shares the spool. Its locks are held only
around memory, never around files, so the file operations of two calls on one
message interleave, and a crash can fall between any two of them. `Remove` and
`Fail` give up their lease *before* they touch a file; the retention sweep takes
no lease at all and works from a list that may be stale. File operations fail,
one out of several at a time. The quota is judged against totals read under
other locks. The dispatcher juggles leases, slots, rate tokens and a wake-up
channel of one, all of which must survive a cancellation in the middle of a
batch. A session makes several copies of one message while workers already take
the first; its deadlines are armed by two goroutines at once. The history is
written beside the spool, never in one step with it, and by everybody. The
smarthost's answer to a body may be lost, and what is made of the session's
other errors decides between a duplicate, a bounce and a delivery. The notifier
works on lists that workers go on filling. Startup may fail, or a signal come,
at any step. `PROJECT.json` lists these as hazards, each at its line.

**What makes the parts correct.** Spool: leases are exclusive and never leak;
an accepted message is never given up except by delivery, discard, or retention;
what is over does not come back; nothing lies on disk unattended. Quota: totals
never drift; the overshoot is bounded. Delivery: no lease, slot, token or
wake-up is lost; a message the smarthost took is not offered again; the queue
drains; shutdown ends. Session: the reply to DATA agrees with what the spool
holds, and what the session acts on was said where it seems to be said.
Listener: no connection place leaks, and a shutdown waits for no peer. Store:
the summary agrees with the attempts, and the queue view with the queue.
Smarthost client: what the smarthost was heard to accept is not sent again, and
every recipient is settled. Notifier: each failure is in a digest, or still to
be. Configuration: what is accepted every part can run with. Service: whatever
happens, an orderly exit.

## 2. Modules

| Module | Models | Run by |
|---|---|---|
| `Spool` | files, index, mirror, leases; commit, delivery, requeue, discard, sweep, crash, recovery | `MCSpool` |
| `SpoolProofs` | proofs about `Spool`, and that it implements `Custody` | tlapm |
| `Custody` | abstract: what the spool promises of a message it is given | refined by `Spool` |
| `Quota` | the three totals and the commits judged against them | `MCQuota` |
| `QuotaProofs` | proofs about `Quota` | tlapm |
| `Delivery` | dispatcher, workers, rate limiter, schedule, wake-up, shutdown | `MCDelivery` |
| `DeliveryProofs` | proofs about `Delivery` | tlapm |
| `Session` | an SMTP session: commands, STARTTLS, DATA, one copy per route, withdrawal | `MCSession` |
| `SessionProofs` | proofs about `Session` | tlapm |
| `Listener` | accept loops, connection caps, read deadlines, `Set.Close` | `MCListener` |
| `ListenerProofs` | proofs about `Listener` | tlapm |
| `History` | the history store and its writers beside the spool: journal, queue actions, retention | `MCHistory` |
| `HistoryProofs` | proofs about `History` | tlapm |
| `Notices` | the bounce notifier | through `Service` |
| `Watch` | the expiry watcher; extends `Notices` | through `Service` |
| `Service` | `serve` from startup to exit, with notifier and watcher in it; extends `Watch` | `MCService` |
| `ServiceProofs` | proofs about `Service`, `Notices` and `Watch`, and about `Policy` with the modules it extends | tlapm |
| `TokenSource` | the OAuth2 token cache | through `Smarthost` |
| `Smarthost` | the smarthost client and what delivery makes of its result; extends `TokenSource` | `MCSmarthost` |
| `SmarthostProofs` | proofs about `Smarthost` and `TokenSource`, and that `Smarthost` implements `Handoff` | tlapm |
| `Handoff` | abstract: what handing over a message promises | refined by `Smarthost` |
| `Addressing`, `Router`, `Rewrite` | operators: networks and addresses; client match and routing; header rewriting | through `Policy` |
| `Config` | `Load`, `Normalize` and `Validate`; extends `Router` and `Rewrite` | through `Policy` |
| `Policy` | the tables built from an accepted configuration and their decisions; extends `Config` | `MCPolicy` |

### Spool

A step is one file operation or one critical section. `qBody`, `qMeta`, `fBody`,
`fMeta` are the ids with a body or metadata file in the queue directory and in
`spool/failed`; `index`, `leased` and `failed` are the maps of the same names.
Each actor has a program counter `pc` and the message `cur` it works on; its
actions are named after the function and the step (`FailMeta`, `FailBody` are
the two renames of `Fail`). Any unlink, rename, metadata write, directory sync
or read of a requeue or recovery may fail (`Fault`), up to `MaxFaults` per
behaviour. `fate` is a history variable: what the outside world was told about
each message. A retention sweep over several expired ids is one sweeper per id.

Not in this module: payload, sizes (in `Quota`) and times (in `Delivery`; here
any indexed message may be due and any failed one expired). A crash keeps every
file operation that completed: what fsync protects against, loss of power, is
not modelled. Recovery is one step, because nothing else runs during `Open` and
a crash inside it leaves what a second recovery completes. The temporary files
are never visible to another actor and are left out.

`Custody` is the abstract specification. It knows neither files nor leases nor
actors: a message has a fate and a place (the queue, the failed ones, on the
move, nowhere), sending, removing, failing, requeueing, discarding and sweeping
are single changes of the two, and a crash sets down what is being moved.
`Spool` implements it, while no file operation has failed, under the mapping
that calls a complete pair in a directory a place and a body between the two
halves of a move `moving` (`PlaceOf`). After a failure `Custody` promises
nothing; what holds then are the properties of `Spool` that count failures.

### Quota

A message is its size and the totals it is counted in. `ReadLive`, `ReadFailed`
and `Reserve` are the three critical sections of `reserveQuota`; a failure moves
a message between totals in two steps (`FailDrop`, `FailPut`), a requeue the
other way round (`RequeuePut`, `RequeueDrop`). `Release` is the deferred call,
which may run after the message is already gone. The header that `Commit`
writes before each copy is counted by the totals and not by the reservation. A
`putLocked` that replaces an entry, and a drop of what is not there, move no
total and are no steps.

### Delivery

`where`, `order`, `due`, `life`, `att` are what the spool knows about a message;
`batch`, `full`, `saturated` the locals of `dispatch`; `wpc` and `leaving` the
workers' goroutines, a slot being held until the deferred receive (`Leave`);
`tokens` and `window` the limiter's buckets. A worker that was given a slot and
a token starts (`Spawn`), opens the body and begins to send (`Begin`) or finds
none (`Unreadable`), steps between which the clock may refill the bucket;
`started` and `unsent` are history variables that count the two. Time is counted
in poll intervals, as time left until a deadline. The smarthost is a choice of
four outcomes. Spool calls are single steps: their insides are `Spool`'s
subject. The unlimited rate (`RateLimitPerMin` 0) is the case where `Allow` does
nothing and is left out.

### Session

`pc` is the phase: the command loop, the reading of a message, its commits, its
withdrawal. `helo`, `from` and `rcpts` are the session's fields, each with the
way it was received (in clear or under TLS); `ahead` says that commands sent in
clear wait in the buffered reader. A command that is refused changes nothing
and is no step; any reply may fail to be written, after which the session ends.
`groups` and `committed` are the two lists of `commitCopies`; a copy's identity
is its message and its route. `Commit` and the row after it (`CommitCopy`,
`JournalAccepted`), and `Discard` and the row after it (`Withdraw`,
`RecordRemoval`), are steps of their own; `writing` has the copy whose row is
still to be written. The workers are two actions (`Claim`, `Settle`)
that may come between any two steps of the session. `Commit`, `Discard` and the
journal writes may fail. `dotReader` and `scanHeaders` are reduced to how a
message ends: between two CRLF, on another dot line, by the connection closing,
or by an error. `router.Resolve` is the constant `RouteOf`. `told`, `named`,
`claimed`, `kept` and `unwritten` are history variables.

### Listener

`apc` and `acur` are a server's accept loop and the connection it has in hand,
`spc` a session's goroutine, `sem`, `conns` and `wg` the semaphore, `connCounter`
and the wait groups. `late` holds the connections whose deadline has expired,
`hook` the sessions whose `context.AfterFunc` may still run. `Arm` is the call of
`SetReadDeadline` or `SetDeadline` and `Recheck` the look at `ctx` after it, so a
cancellation and its hook fall before, between or after them. What a session
does with a command is `Handle`: it goes back to reading, arms a deadline for a
message or a handshake, or ends. A listener has implicit TLS or offers STARTTLS,
by choice of the initial state; one without TLS does less.

### History

One transaction is one step. `row` is the messages table with its summary
columns, `log` the attempts of each message, `audit` the audit table; `disk`,
`index` and `leased` are the spool, reduced to where a pair of files is. A
session, the workers and the operators each have a program counter, so that the
spool step and the journal step of one call are apart: `Commit` comes before
`JournalAccepted`, the journal before `Remove` and `Fail`, the hook of a requeue
before the lease is given back. `Fail`'s renames, and the write and the renames
of a requeue, may fail too (`Unmoved`, `RequeueError`), which leaves the pair
split or in the directory the index does not say. A write is refused when the
message has no row (the foreign key) or the database fails (`MaxFaults`).
`StatusFilter` and `BounceFilter` are the WHERE clauses of the list queries.
`blur` marks the messages whose last journal write was refused or cut off by a
crash: about those the history cannot know; so it is of one whose files were
left behind by a failure. `taken` is a history variable, the messages a
smarthost has taken since the last start. Retention may take any rows at any
moment.

### Notices, Watch, Service

`Notices` has a pending list by its length, and `dispatch` in the steps its
mutex makes of it: swap, skip, charge, send, refund, put back. `RecordFail` may
fall between any two. `Watch` is one check per tick, with `lastSent` as in the
code. `Service` is `serve`: a stage per startup step, each of which leads on or
returns; the goroutines of `bg`; and the deferred calls in their order. The
notifier's goroutine is `Run`, the wait on `done`, then `Flush`. That manager
and listener stop once the context is cancelled is what `Delivery` and
`Listener` show, and here one step each.

### TokenSource, Smarthost, Handoff

A step of `Smarthost` is one exchange, with the answers ok, 4xx, 5xx and lost;
the last is a broken connection, the delivery deadline or a stop. What the
smarthost came to own (`copies`, `holds`) is kept apart from what the client
heard. `Settle` is `attempt` and `record`. `TokenSource.Token` is one step when
it answers from memory and two around a request, during which time passes and
the other worker waits for the mutex. `Handoff` is the abstract specification:
a message is tried, taken or not taken, and the end of an attempt depends on
whether the taking was heard. `Smarthost` implements it under the mapping that
calls a queued message with an open session `trying`; owned and copies are its
own history variables.

### Addressing, Router, Rewrite, Config, Policy

An IP address is its bits, most significant first, and a network a base address
with a prefix length, so that `Holds`, `Overlaps` and `Masked` say of bits what
`netip` does. A peer is an address that may be written as IPv4 in IPv6
(`mapped`), which no network contains before `Unmap`. A mail address is a local
part and a domain; the local part `quoted` stands for one that the listener
relays in an envelope and that may not stand in a header. A header block maps
places to fields, whose values are mailboxes or one of the texts `Apply` treats
differently. The lists of networks and domains that clients and routes have are
addressed by place, whose list and which entry, in the order the loops visit
them. `Resolve`, `Match`, `Compile` and `Apply` are operators; `Split` is an
action, one recipient per step. `Config` takes an operator's file through `Load`
and one step per section of `Validate`, with the validator's fields as
variables, since some sections read what others left; what a section requires is
a predicate of its own (`routesOK`, `clientsOK`, ...). `Policy` loads the
certificate as `serve` does, builds the tables as `listener.New` does, and then
makes one routing or one rewriting decision.

## 3. Runs

| Run | Shows |
|---|---|
| `spool` | With crashes anywhere and up to two failing file operations: leases are exclusive and accounted for (`LeaseExclusive`); without failures a crash finds every accepted message as a pair, except in the two windows below (`RecoverySafe`), index entries have their files (`IndexBacked`) and nothing lies in the queue directory unattended (`NothingStranded`); with at most one failure nothing that is over returns (`NoResurrection`); whatever fails, a reported discard has erased everything (`DiscardErases`) and no step outside recovery gives up the last body (`BodyKept`). `KeepsCustody`: refinement of `Custody`. |
| `spool_loss` (violation) | Finding 1. |
| `quota` | `LedgerExact`: no total drifts. `OvershootBounded`: the ceiling is exceeded by less than one message per other commit and failure under way and per requeue. |
| `delivery` | `LeaseAccounted`, `SentOnce`, `TokenPerSend`, `WakeNotLost`, `DueByExpiry`: safety of the dispatcher and its workers under commits, operators, ticks and a shutdown at any point. `TokenPerSend` is about the configured rate: every token spent is a send begun, about to begin or without a body, and only workers of other slots that a refill overtook add to what a bucket gives. `Drains` and `Stops`, under fairness: every message is delivered, failed or discarded in the end, and a cancelled manager returns. |
| `session` | `AckCovers`: a 250 covers every recipient, each in the copy of its route. `RefusedWithdrawn`: a refusal leaves no copy but those a worker got hold of and those whose `Discard` failed. `RowsHonest`: but for the row being written, the history says removed of what was withdrawn and of nothing else. `NothingCarried`: STARTTLS starts afresh. `InSync`: body text is never read as a command. |
| `session_truncated` (violation) | Finding 2. |
| `listener` | `PlacesAccounted`: no place is leaked or given back twice. `NoneAfterWait`: no session starts behind `Close`. `NoneStuck`: a cancellation reaches every blocked read. `Closes`, under fairness: `Close` returns whatever the peers do. |
| `history` | `SummaryAgrees`: the summary columns say what the attempts table says, every listing selects by them the rows it shows under that status, and no row of the bounce listing lacks a column its scan needs. `ActiveIsLive`: at rest, a row is queued or deferred if and only if the live queue has the message. `DeleteClears`: a `Delete` that was answered leaves no active row and no live message, and there are exactly two ways for it to record a message as removed that the smarthost has taken: between a worker's giving up of its lease and its unlink, and by reconciling a row whose delivered attempt was refused (or after a failed file operation). |
| `service` | `FailuresAccounted`: every failure of an origin with recipients is in a queued digest, pending, overflowed or in dispatch's hands. `BudgetHonest`: the hourly count is the number of digests that went out. `ShutdownOrder`: store and log outlive their users, and an exit forgets no failure that a last dispatch did not itself put back. `WarningsPaced`: expiry warnings are neither missed nor repeated too soon. `Exits`, under fairness: a signal or a failed startup step ends in an exit. |
| `smarthost` | `HandsOff`: refinement of `Handoff`. `RecipientsSettled`: of a delivered message every recipient was served or refused for good; a bounce needs a 5xx that is not about credentials. `TokenHonest`: no expired token is handed out, none refused while one is valid, no request inside freshness or cooldown. |
| `smarthost_cut` (violation) | Finding 3. |
| `policy` | `AcceptedIsUsable`: an accepted configuration is one the router, the matcher, the rewriter, the smarthost client, the notifier, the canaries and the watcher can run with, but for a broken certificate pair that no listener uses. `RoutedByRule`: an address is served for the one client that has it, no message is refused for want of a route, every recipient ends in exactly one group, in the order of acceptance, and the group's route is one the precedence of the code allows: domain, source network (narrower than the client's, or any if the client names no route), client, default. `RewriteHonest`: what a rewrite may and may not do to a sender and to the answers. |

**Findings.**
1. `Fail` renames metadata, then body. A crash in between leaves the body alone
   in the queue directory, where recovery takes it for an interrupted enqueue
   and deletes it, although the comments say failed messages are kept so that
   "nothing is silently lost". `requeueFailed` has the same window between the
   body's rename and the metadata write. These are the only two windows: that
   is `RecoverySafe`, which is checked and proved.
2. A connection closed in the middle of DATA reaches the spool as `io.EOF`, the
   value that also ends a message, so what had arrived is queued, although
   `replyDataError` counts that error among those that abandon the message. The
   client, which saw no 250, sends it again.
3. When the spooled body cannot be read to its end, `transact` still closes the
   data writer, which sends the final dot. The smarthost may take the truncated
   message; its answer is dropped, the attempt counts as temporary, and the
   retry hands over a second copy, in a file that "spends most of its rules
   avoiding" duplicates.

Met while modelling, where a comment or a guide says more than the code does;
the properties say what does hold:
- The comment on `reserveQuota` (`spool/quota.go:138`) claims that the spool
  passes its ceiling by one message at most. Every commit that completes between
  another's reads and its reservation is missed: with `n` commits at once it is
  `n - 1` messages, and a requeue that falls between the two reads is seen on
  neither side and adds one more. `OvershootBounded` has the bound.
- The comment on `Delete` (`queueaction/queueaction.go:121`) says it cannot
  mislabel a delivered message. When the worker is faster than `journalAccepted`,
  its delivered row is refused by the foreign key, the message row then says
  queued, and once the files are gone a `Delete` reconciles it to removed. And
  `Remove` gives up its lease before it unlinks: a `Delete` in between finds the
  files, unlinks them and adds a removed row to a message recorded as delivered.
  `DeleteClears` names both and says that there is no third; without either
  exception TLC finds it violated.
- The guide (`src/docs/guides/CONFIGURATION.md:113`) says that `check` fails on a
  certificate pair that does not load. The validator looks at the pair only when
  a listener uses TLS (`config/validate.go:400`); `serve` loads it whenever it is
  named and does not start with a bad one. `AcceptedIsUsable` excepts that pair.
- The guide (`src/docs/guides/CONFIGURATION.md:326`), the example configuration
  and the router's comment let a route's source network decide only if it is
  narrower than the client's network. When the client names no route, `Resolve`
  (`router/router.go:106`) lets any that matches decide. `RoutedByRule` has the
  precedence of the code.
- The retention sweep unlinks the `.json` first (`spool/failed.go:188`). Cut
  short by a crash, it leaves a body in `spool/failed` that no start counts and
  no sweep finds.

**Bounds.** `spool`: one id, one committer, two workers, two operators, one
sweeper, `MaxFaults` 2. One id is enough because no action reads or writes
anything of another id (`Recover` treats ids independently); two workers are
needed because a second can claim a message, requeued meanwhile, whose first
`Fail` is still at its last step. Two failures allow a failed write followed by
a failed rollback. `quota`: five slots, sizes 1 and 2 over a ceiling of 3 with a
header of 1, two sessions, one failure and one requeue under way; six slots and
ceilings 3 and 5 were explored as well. `delivery`: two messages, one of them
recovered, on one route with one slot and one token per window, for which both
compete, a lifetime and a retry delay of one poll interval and one requeue;
batches of two, so that a held, a rate-limited and an expired message all occur.
Two slots, where a refill can overtake a worker that has yet to begin, and three
messages, the third recovered for a route that no longer exists, were explored
without liveness. `session`: one session, since sessions share nothing but the
queue, whose ids are their own; one message with up to three recipients over two
routes and one address without a route, so that a group of two, a second group
and a failing second commit occur; two messages of two recipients were explored
as well. `listener`: one server and three connections, two of them of a client
that may have one, under a cap of two, so that both caps refuse; a connection
comes back after it is closed. Two servers were explored without liveness.
`history`: one message, since no step relates two; two workers and two
operators, so that requeue and delete overlap each other and an attempt; five
attempt rows, enough for a bounce, a requeue and a second outcome; one refused
write or failed file operation. `service`: three origins, one of them with
nobody to tell, a pending list of one and a budget of one digest per hour, so
that overflow, the cap and the put-back all happen with two failures; two items,
one of which enters the warning window while the service runs; a clock of two
hours; one HTTP server. A goroutine that only returns on the context (`Plain`)
adds nothing but an interleaving of its return, and there is none. Binding the
sockets is taken to be shorter than a tick. `smarthost`: two workers with a
message each, three attempts between them, two recipients, one route of each
kind (clear without credentials, implicit TLS with LOGIN, STARTTLS with
XOAUTH2), tokens of lifetime one and two under a skew of one and a cooldown of
two, and a clock of three. `policy`: addresses of two bits, and five families of
configurations that each vary what the checks relate: names and references,
networks and domains, transport security, rewriting, numbers at their limits.
Their product is out of reach; sections in different families share no field.

Deadlock is checked in the runs of `Spool`, `Quota`, `Delivery` and `History`; a
session that is closed, a listener that has shut down, a process that has exited,
a message that is delivered and a decision that is made are at their end. The
type invariants of the modules, of which `Spool`'s is proved, and `InFlightKept`
of `Session`, which is proved too, were checked on the way and are not listed by
a run.

**Fairness** (`Delivery!FairSpec`). Weak fairness of the clock, of the
dispatcher, of each worker's own steps (an attempt ends, because
`delivery_timeout_sec` bounds it) and of the deferred slot release: these are
goroutines that are always scheduled again. Strong fairness of the `select`
that sees `ctx.Done()`: Go picks among ready cases uniformly, so a case that is
ready over and over is taken. Nothing is assumed of clients and operators, nor
of how attempts end. `Drains` therefore rests on `Expires` alone.
`Listener!Spec` has weak fairness of `Set.Close`, of each accept loop, of each
session's own steps and of each hook: goroutines that run on, and waits that the
code bounds itself (a reply by its write deadline, a refusal by
`refusalTimeout`). No fairness is given to `Handshake`, `Receive` or `PeerGone`:
a peer may stay silent for ever, and read timeouts are not relied upon.
`Service!Spec` has weak fairness of `serve`'s own steps, of the notifier's
goroutine and of each goroutine's return once the context is cancelled, which
`Stops` and `Closes` justify for manager and listener and the five-second drain
of `httpx` for the HTTP servers. Neither the clock nor a signal nor a failure is
assumed to come.

## 4. Proofs

Eight modules of proofs. Every safety property that a passing run checks is
proved for all values of the constants; the strengthened invariants named below
were checked by TLC, on the instances of section 3 or smaller ones, before they
were proved. Each module is laid out alike: the parts of the inductive
invariant, lemmas about the operators it rests on, a lemma per group of actions
with one step per action, the theorem that the invariant always holds, and one
theorem per property.

**`SpoolProofs`**, for any finite set of messages, any sets of actors, any
number of crashes and any `MaxFaults`: `TypeCorrect` (`TypeOK`),
`LeasesAreExclusive` (`LeaseExclusive`), `CrashSafety` (`RecoverySafe`),
`IndexIsBacked` (`IndexBacked`), `NeverBack` (`NoResurrection`),
`DiscardIsFinal` (`DiscardErases`), `NoneStranded` (`NothingStranded`) and
`LastBodyKept` (the action property `BodyKept`). Assumptions: `NoId` is no id,
`Ids` is finite (recovery counts its failures), `MaxFaults` is a natural number.
The inductive invariant `IInv` adds to the first four: `Idling` (an actor has a
message exactly while busy, and nobody is busy while the process is down);
`Private` (a message inside `Commit` is known to its committer alone, so no
other actor can have created or moved its files); `OneBody` (a body is in one
directory at most, so a rename never overwrites); and, while nothing has failed,
`Placed`, `Undisturbed` and `Filed`: where the index entry and the files are at
each program point, and that next to an actor that gave up its lease with files
still to touch (`Remove`, `Fail`), any other actor on the same message can only
be one that reads, finds nothing, discards or sweeps. The last is the heart of
the argument: leases do not protect those steps; what does is that the message
is neither in the index nor a body in `spool/failed`, so a requeue turns away
before it moves a file. `JInv` adds what holds when files do fail: `Standing`
(at most one actor is in the tail of a removal, and which files are behind it
at each step), `Ended` (a message whose end was reported is buried: it has no
pair of files to come back with and nobody at work who would bring it back; a
discarded one has no file at all) and `Minded` (a body outside the index is in
the hands of somebody who will list or take it). `Custodian` (`Spec =>
KeepsCustody`) is the refinement of `Custody`. It needs `Custodial` besides: as
long as nothing has failed, a body belongs to a message that is still owed,
accepted metadata and body are not split over `spool/failed`, no live metadata
lies beside a failed body, and a message between the smarthost's answer and the
end of `Remove` is a delivered one. Then each step of an actor concerns one
message and leaves the places of all others (`Works`, `Elsewhere`), most steps
are invisible (`Quiet`), and the visible ones are the rename or unlink that
makes or breaks a pair. `CustodyPays` draws the conclusion from `Custody` alone:
while the process runs an accepted message has a place, and one that is over has
none.

**`QuotaProofs`**, for any finite set of slots, any sizes, header, ceiling,
number of sessions, movers and requeues: `LedgerNeverDrifts` (`LedgerExact`) and
`OvershootAlwaysBounded` (`OvershootBounded`). A sum over messages is stated as
the cardinality of a set of bytes (`Bytes`), so that adding and dropping a
message are the library's facts about finite sets and no sum has to be unfolded
by induction. The ledger is inductive with one addition, `Unreserved`: a commit
that is still reading holds no reservation. The overshoot is not: a commit may
have read its totals any number of admissions ago. `OverInv` ranks the commits
that are reading by when they began (`Ranked`): the one of rank *i* sees all
but what at most `Sessions - i` others may hold, the failures under way and the
requeues so far; or the spool is still below its bound by *i* messages. A commit
that begins gets the last rank; one that is admitted or refused leaves, and
those behind it move up; a requeue makes room for one; every other step lowers
what is occupied at least as much as what a reader will see.

**`DeliveryProofs`**, for any finite set of messages, any routes, slots, tokens,
batch size and schedule: `LeasesAccounted` (`LeaseAccounted`), `NeverSentTwice`
(`SentOnce`), `TokensAccounted` (`TokenPerSend`), `NoWakeLost` (`WakeNotLost`),
`NoneOversleeps` (`DueByExpiry`). `DeliveryInv` adds that a batch names no
message twice (`Distinct`), who holds a lease at each point of the dispatcher
and after a cancellation (`Leases`), that what was taken is in the hands of a
worker that knows it, or gone (`Taken`), and that only queued messages wait
(`Waits`). `TokensAccounted` counts the workers of a route by the slots they are
in: one that spawns moves a token to `Starting`, one that begins moves on from
there, and a refill, which comes with an `Allow` and hence with a free slot,
leaves at most `Slots - 1` of them behind.

**`SessionProofs`**, for any number of sessions, recipients, routes and
messages: `RefusalWithdraws` (`RefusedWithdrawn`), `HistoryHonest`
(`RowsHonest`), `SendsUndisturbed` (the action property `InFlightKept`),
`StartsAfresh` (`NothingCarried`), `StaysInSync` (`InSync`) and `AckIsHonest`
(`AckCovers`). There are four inductive invariants. `DialogueInv` adds that an
encrypted session's reader holds nothing in clear (`FreshReader`) and that what
is committed was read to an end (`ReadToEnd`). `CopyInv` follows a copy through
its life: it does not exist before the commit phase of its message nor before
its own turn (`Unmade`); while the message is committed or withdrawn it is on
the session's list, or done with (`Remembered`); what left the queue otherwise
was claimed (`Taken`); and a refusal ends the session, so no message is refused
while it is under way (`Refusals`). When the list is empty, `Remembered` is
`RefusedWithdrawn`. `CoverInv` says that a copy is filed, for exactly the
recipients of its route, unless its group is still to come (`Filing`), that a
withdrawal only lists copies of the message at hand (`OwnCopies`), and that an
acknowledged message is over and filed (`Acked`). `RowInv`, on top of the
others, adds to `RowsHonest` the types of the rows (`RowShape`) and that a row
still to be written is of the session's message at hand, in its commit or its
withdrawal, and of a withdrawn copy exactly in the latter (`Pending`). Assumed
are the types of the constants only (`SessionAssumption`).

**`ListenerProofs`**, for any finite sets of listeners and connections and any
caps: `ReadsEnd` (`NoneStuck`), `EveryPlaceBack` (`PlacesAccounted`),
`NoSessionBehindClose` (`NoneAfterWait`). A read is entered only through
`Recheck`, which expires the deadline if `ctx` is cancelled; until a
cancellation every session has its hook (`Hooked`), so one that comes later
finds the hook in place. The accept loops enter the argument because a hook is
installed for a connection that must not have a session yet (`HandsApart`). For
the places, `PlaceInv` adds that a session is admitted once and not beyond its
end (`AdmittedLive`) and that `Close` has marked every server before it waits
for the first (`ClosedBehind`), which is what `closeMu` and `closed` are for.

**`HistoryProofs`**, for any number of messages, workers, operators and refused
writes: `SummaryTrue` (`SummaryAgrees`), `QueueViewTrue` (`ActiveIsLive`) and
`DeleteLeavesNothing` (the action property `DeleteClears`). `HistoryInv` is a
conjunction over messages: one never committed is nowhere (`Unborn`), at most
one actor has its lease (`OneLease`), where its files are at each program point
(`Places`), what a `Delete` may conclude from the row it read (`Reconciled`),
and that the row says what the spool holds, allowing for each journal step that
is still to come (`QueueView`). `DeleteLeavesNothing` covers the answer of both
branches. For the messages a smarthost has taken it needs `TakenInv` besides
(`TakenAlways`): unless something on it failed, the row of such a message is
that of its delivery or of a removal after it, or its worker is about to write
it; and as long as it has files, its worker is on the way to unlink them
(`Handed`). The lease keeps a `Delete` from the worker's steps up to `Remove`
and not from the unlink, which is the one window left. The constants of actors
and ids are assumed disjoint, and `NoRow` to be no row.

**`ServiceProofs`, the process**, for any origins, caps, goroutines and deadlines:
`NoFailureLost` (`FailuresAccounted`), `BudgetExact` (`BudgetHonest`),
`OrderlyExit` (`ShutdownOrder`), `WarningsAlwaysPaced` (`WarningsPaced`, an
invariant and an action property). `ServiceInv` adds what dispatch has in hand
at each step (`InDispatch`), what may be open and running at each stage of
`serve` (`Staged`), that after `Flush` only what it put back is pending
(`LastWord`), and that `lastSent` remembers every mail it must (`Watched`).

**`ServiceProofs`, the configuration**, for any address width, any files an
operator may write and any envelopes, recipient lists and header blocks:
`ConfigurationUsable` (`AcceptedIsUsable`), `RoutingRight` (`RoutedByRule`, the
precedence of the code) and `RewritingHonest` (`RewriteHonest`). Assumed are the
types of what the constants hold (`AddressingAssumption`, `ConfigAssumption`,
`PolicyAssumption`). `PolicyInv` has four parts. `ConfigInv`: while nothing has
been reported, every section of `Validate` that has run found what it requires,
and the fields the validator passes on are what the section before left.
`BuiltInv`: tables are built from an accepted configuration only, none is
refused but for a certificate pair that does not load, and the validator takes
no step afterwards. `RoutingInv`: the invariant of the loop of `Split` (every
recipient so far is in one group, groups are ordered and of different routes,
each route is what `Resolve` answers), and that client and prefix length are
those of the one network that holds the address. `RewritingInv`: the decision at
hand is what `Apply` answers to a rule that was checked. The lemmas underneath
are where the packages must agree: disjoint networks hold an address once, so
the longest match is the only one (`OneHit`, `LongestHit`); names are unique, so
a reference resolves to one route (`RouteNames`, `Resolves`); setting or
removing a header field changes that field and no other (`SetField`,
`RemoveField`).

**`SmarthostProofs`**, for any workers, number of recipients, routes that the
validator accepts, and token lifetimes: `NobodyForgotten` (`RecipientsSettled`),
`Implements` (`Spec => HandsOff`, the refinement of `Handoff`, every step mapped
to a step or a stutter) and `TokensHonest` (`TokenHonest`). `ClientInv` relates
what the client believes to what the smarthost owns at each exchange (`Honest`),
counts the recipients offered (`Offered`), finds a cause for each verdict
(`Caused`) and pins what a settled message had (`Closed`). The refinement needs
the first: before the final dot nothing is owned, after it what is owned was
heard exactly if the answer came.

**Only model-checked.** `Drains`, `Stops`, `Closes` and `Exits` are liveness
under fairness, which TLAPS does not reach. Every other property of a passing
run is proved as well.

Some definitions are stated in the form the proofs need, which TLC evaluates all
the same: `Scan` of `Delivery` says which batch `ClaimBatch` returns (the oldest
due messages, in order) where the code builds it with a heap; `AckCovers` speaks
of each route instead of folding over recipients; the totals of `Quota` are
counted as bytes; `Watch` writes its stamps as a function over the items;
`Longest` says which entry the loop of `Match` and `matchSource` ends with, where
the code keeps the best so far; and a changed header block is written as a
function of its places.

## 5. State and plan

Modelled and checked: everything in section 2. Proved: every safety property
that a passing run checks, both refinements, and the inductive invariants they
rest on. Open, in the order of what they would add:

1. The API's failure limiter (`api/auth.go`): its backoff and its cap of tracked
   addresses, as a module of its own.
2. Loss of power as a step that undoes what was not synced, which would turn the
   order of `syncDir` and `rename` in `Spool` into something to check.

## 6. Not modelled

- Loss of power (the effect of fsync) and the temporary files of writes.
- The canary's schedule, which is calendar arithmetic; housekeeping's hourly
  gate and its queue warnings.
- The API's failure limiter and cursor, and the dashboard: a request is one
  queue action of `History` or a read; the limiter is arithmetic on one address
  at a time under one lock.
- The grammar of addresses, header lines, TOML and SMTP lines; paging and
  sorting of the list queries; the migration of old schemas; texts of any kind.
- TLS, HTTP and SASL payloads; metrics; logging; certificates; platform code;
  the commands other than `run`.

`PROJECT.json` lists every part with the reason.
