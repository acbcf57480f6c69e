---------------------------- MODULE TokenSource ----------------------------
(***************************************************************************)
(* The access token cache of internal/authms365, shared by every worker of *)
(* a route.                                                                *)
(*                                                                         *)
(* Token holds its mutex across the HTTPS request, so a call is one step   *)
(* when the cache or the cooldown answers it and two when it has to fetch: *)
(* the clock moves, and other callers wait, in between.  The zero time     *)
(* stands for no token, as in the code.  What a request was refused for    *)
(* (transport, status, JSON, token type, characters, expires_in) changes   *)
(* only the message, and is one failure here.                              *)
(***************************************************************************)
EXTENDS Integers

CONSTANTS
  Workers,      \* the delivery workers of the route
  NoWorker,     \* what holder is when the mutex is free
  Skew,         \* refreshSkew, in clock ticks
  Cooldown,     \* failCooldown
  Lives,        \* the expires_in values the endpoint answers with
  MaxTime       \* bound on the clock

ASSUME TokenSourceAssumption ==
  /\ NoWorker \notin Workers
  /\ Skew \in Nat /\ Cooldown \in Nat \ {0} /\ Lives \subseteq Nat \ {0}

VARIABLES
  now,         \* the clock
  expires,     \* TokenSource.expires, 0 when no token is cached
  lastErr,     \* TokenSource.lastErr is set
  retryAfter,  \* TokenSource.retryAfter
  holder,      \* who holds TokenSource.mu across a request
  asked,       \* the moment the request under way was decided on
  failedAt     \* history: end of the last request if it failed, else -1

tokenVars == <<now, expires, lastErr, retryAfter, holder, asked, failedAt>>

TokenInit ==
  /\ now = 1 /\ expires = 0 /\ lastErr = FALSE /\ retryAfter = 0
  /\ holder = NoWorker /\ asked = 0 /\ failedAt = -1

\* The cached token need not be renewed yet.
Fresh == now < expires - Skew

\* The cached token is still inside its lifetime.
Unexpired == now < expires

CoolingDown == lastErr /\ now < retryAfter

\* Token answers from the cache: a fresh token, or during the cooldown one
\* that has not expired.
TokenCached ==
  /\ holder = NoWorker
  /\ Fresh \/ (CoolingDown /\ Unexpired)
  /\ UNCHANGED tokenVars

\* Token repeats the last error while the cooldown runs.
TokenCooling ==
  /\ holder = NoWorker
  /\ ~Fresh /\ CoolingDown /\ ~Unexpired
  /\ UNCHANGED tokenVars

\* Token decides to ask the endpoint, and keeps the mutex while it does.
TokenFetch(w) ==
  /\ holder = NoWorker
  /\ ~Fresh /\ ~CoolingDown
  /\ holder' = w /\ asked' = now
  /\ UNCHANGED <<now, expires, lastErr, retryAfter, failedAt>>

\* Mutant: the cooldown is dated from before the request.
FetchFail_Dated(w) ==
  /\ holder = w
  /\ lastErr' = TRUE /\ retryAfter' = asked + Cooldown
  /\ failedAt' = now
  /\ holder' = NoWorker /\ asked' = 0
  /\ UNCHANGED <<now, expires>>

\* The request failed: the cooldown runs from its end.
FetchFail(w) ==
  /\ holder = w
  /\ lastErr' = TRUE /\ retryAfter' = now + Cooldown
  /\ failedAt' = now
  /\ holder' = NoWorker /\ asked' = 0
  /\ UNCHANGED <<now, expires>>

\* The endpoint answered with a token of that lifetime.
FetchOk(w, life) ==
  /\ holder = w
  /\ expires' = now + life /\ lastErr' = FALSE
  /\ failedAt' = -1
  /\ holder' = NoWorker /\ asked' = 0
  /\ UNCHANGED <<now, retryAfter>>

TokenTick ==
  /\ now < MaxTime
  /\ now' = now + 1
  /\ UNCHANGED <<expires, lastErr, retryAfter, holder, asked, failedAt>>

\* A new process starts with an empty cache.
TokenForget ==
  /\ expires' = 0 /\ lastErr' = FALSE /\ retryAfter' = 0 /\ failedAt' = -1
  /\ UNCHANGED <<now, holder, asked>>

=============================================================================
