----------------------------- MODULE Smarthost -----------------------------
(***************************************************************************)
(* The smarthost client of internal/delivery/smarthost, as delivery.send   *)
(* and delivery.record use it.                                             *)
(*                                                                         *)
(* Each worker carries one message through the attempts of its life; one   *)
(* step is one exchange with the smarthost.  An answer is "ok", a 4xx, a   *)
(* 5xx or "lost": a broken connection, the delivery deadline or a service  *)
(* stop, which expires the deadline of every connection.  What the         *)
(* smarthost itself ended up owning is kept beside what the client heard,  *)
(* since the two differ when the answer to the body is lost.               *)
(*                                                                         *)
(* The routes are the combinations the loader accepts.  A cleartext route  *)
(* never authenticates there, so authenticate's own refusal of it is out   *)
(* of reach, as are a missing token source, a missing TLS configuration    *)
(* and an unknown mechanism.                                               *)
(***************************************************************************)
EXTENDS TokenSource, FiniteSets

CONSTANTS
  Routes,     \* records [tls, auth]
  NRcpts,     \* recipients of a message, numbered in envelope order
  MaxTries    \* bound on the attempts of all messages together

ASSUME SmarthostAssumption ==
  /\ NRcpts \in Nat \ {0}
  /\ \A r \in Routes :
       /\ r.tls \in {"none", "starttls", "implicit"}
       /\ r.auth \in {"none", "plain", "login", "xoauth2"}
       /\ r.auth # "none" => r.tls # "none"

VARIABLES
  route,     \* the configured route
  stopping,  \* the service context is cancelled
  sess,      \* the session of each worker
  fate,      \* what became of each message
  owned,     \* history: what the attempt under way handed over
  copies,    \* history: copies the smarthost owns
  holds,     \* history: recipients this attempt handed a copy over for
  dead,      \* history: recipients it refused for good this time
  said,      \* history: the failing answer of the attempt, and to what
  cut,       \* history: the smarthost took a body that was cut short
  tries      \* history: attempts begun

clientVars == <<route, stopping, sess, fate, owned, copies, holds, dead,
                said, cut, tries>>
vars == <<tokenVars, clientVars>>

Replies == {"ok", "4xx", "5xx", "lost"}

NoSession == [pc |-> "idle", tls |-> FALSE, authed |-> FALSE, next |-> 1,
              rejected |-> {}, res |-> "none"]

Silent == <<"none", "none">>

Init ==
  /\ TokenInit
  /\ route \in Routes
  /\ stopping = FALSE
  /\ sess = [w \in Workers |-> NoSession]
  /\ fate = [w \in Workers |-> "queued"]
  /\ owned = [w \in Workers |-> "no"]
  /\ copies = [w \in Workers |-> 0]
  /\ holds = [w \in Workers |-> {}]
  /\ dead = [w \in Workers |-> {}]
  /\ said = [w \in Workers |-> Silent]
  /\ cut = [w \in Workers |-> FALSE]
  /\ tries = 0

-----------------------------------------------------------------------------
(* The steps of Deliver.                                                   *)

\* Only an explicit 5xx is permanent.
classify(reply) == IF reply = "5xx" THEN "perm" ELSE "temp"

isPermanentReply(reply) == classify(reply) = "perm"

GoTo(w, pc) == sess' = [sess EXCEPT ![w].pc = pc]

\* Deliver returns.
Return(w, res) == sess' = [sess EXCEPT ![w].pc = "done", ![w].res = res]

Heard(w, stage, reply) ==
  said' = [said EXCEPT ![w] = IF reply = "ok" THEN Silent
                                              ELSE <<stage, reply>>]

\* One exchange whose failure ends the attempt as classify has it.
Exchange(w, stage, reply, next) ==
  /\ sess[w].pc = stage
  /\ Heard(w, stage, reply)
  /\ IF reply = "ok" THEN GoTo(w, next) ELSE Return(w, classify(reply))
  /\ UNCHANGED <<route, stopping, fate, owned, copies, holds, dead, cut,
                 tries>>

Quiet == UNCHANGED <<route, stopping, fate, owned, copies, holds, dead, said,
                     cut, tries>>

\* attempt: the worker takes its message and opens the body.
Begin(w) ==
  /\ fate[w] = "queued" /\ sess[w].pc = "idle"
  /\ ~stopping /\ tries < MaxTries
  /\ tries' = tries + 1
  /\ sess' = [sess EXCEPT ![w] = [NoSession EXCEPT !.pc = "dial"]]
  /\ UNCHANGED <<tokenVars, route, stopping, fate, owned, copies, holds,
                 dead, said, cut>>

\* dial: an implicit-TLS route handshakes inside it.
Dial(w) ==
  /\ sess[w].pc = "dial"
  /\ \/ sess' = [sess EXCEPT ![w].pc = "greet",
                             ![w].tls = route.tls = "implicit"]
     \/ Return(w, "temp")
  /\ Quiet /\ UNCHANGED tokenVars

\* smtp.NewClient reads the greeting.
Greet(w, reply) == Exchange(w, "greet", reply, "hello") /\ UNCHANGED tokenVars

\* authFor: where Deliver goes once the connection is as secure as the
\* route wants it; only XOAUTH2 needs something before it can answer.
authFor ==
  CASE route.auth = "none" -> "mail"
    [] route.auth \in {"plain", "login"} -> "sasl"
    [] route.auth = "xoauth2" -> "token"

Hello(w, reply) ==
  /\ Exchange(w, "hello", reply,
              IF route.tls = "starttls" THEN "starttls" ELSE authFor)
  /\ UNCHANGED tokenVars

\* A smarthost without STARTTLS, or a failed handshake, defers.
StartTLS(w) ==
  /\ sess[w].pc = "starttls"
  /\ \/ sess' = [sess EXCEPT ![w].pc = authFor, ![w].tls = TRUE]
     \/ Return(w, "temp")
  /\ Quiet /\ UNCHANGED tokenVars

\* authFor asks the token source; a missing token is an AuthError.
AskToken(w) ==
  /\ sess[w].pc = "token"
  /\ \/ TokenCached /\ GoTo(w, "sasl")
     \/ TokenCooling /\ Return(w, "auth")
     \/ TokenFetch(w) /\ GoTo(w, "fetch")
  /\ Quiet

\* A failed request still yields a cached token inside its lifetime.
EndFetch(w) ==
  /\ sess[w].pc = "fetch"
  /\ \/ /\ FetchFail(w)
        /\ IF Unexpired THEN GoTo(w, "sasl") ELSE Return(w, "auth")
     \/ \E life \in Lives : FetchOk(w, life) /\ GoTo(w, "sasl")
  /\ Quiet

\* The mechanisms start on an encrypted connection only.
Start(w) == sess[w].tls

\* authenticate: whatever the answer, a failure is about the credentials.
\* LOGIN's prompts for user name and password are part of the exchange.
Sasl(w, reply) ==
  /\ sess[w].pc = "sasl"
  /\ Heard(w, "sasl", reply)
  /\ IF reply = "ok" /\ Start(w)
       THEN sess' = [sess EXCEPT ![w].pc = "mail", ![w].authed = TRUE]
       ELSE Return(w, "auth")
  /\ UNCHANGED <<tokenVars, route, stopping, fate, owned, copies, holds,
                 dead, cut, tries>>

\* XOAUTH2 answers a rejected token with a challenge first.
Challenge(w) ==
  /\ sess[w].pc = "sasl" /\ Start(w) /\ route.auth = "xoauth2"
  /\ GoTo(w, "challenge")
  /\ Quiet /\ UNCHANGED tokenVars

\* The empty response to it brings the final refusal; a smarthost that
\* accepts all the same is believed.
NextResponse(w, reply) ==
  /\ sess[w].pc = "challenge"
  /\ Heard(w, "sasl", reply)
  /\ IF reply = "ok"
       THEN sess' = [sess EXCEPT ![w].pc = "mail", ![w].authed = TRUE]
       ELSE Return(w, "auth")
  /\ UNCHANGED <<tokenVars, route, stopping, fate, owned, copies, holds,
                 dead, cut, tries>>

-----------------------------------------------------------------------------
(* transact.                                                               *)

Mail(w, reply) == Exchange(w, "mail", reply, "rcpt") /\ UNCHANGED tokenVars

\* What the loop of offerRecipients returns once every recipient was offered.
AfterRcpt(w, rejected) ==
  IF sess[w].next < NRcpts
    THEN sess' = [sess EXCEPT ![w].next = @ + 1, ![w].rejected = rejected]
    ELSE IF Cardinality(rejected) = NRcpts
           THEN Return(w, "perm")
           ELSE sess' = [sess EXCEPT ![w].pc = "data",
                                     ![w].rejected = rejected]

\* Mutant: a recipient refused for now is set aside like a dead one.
Rcpt_TempRejected(w, reply) ==
  LET r == sess[w].next IN
  /\ sess[w].pc = "rcpt"
  /\ Heard(w, "rcpt", reply)
  /\ dead' = IF reply = "5xx" THEN [dead EXCEPT ![w] = @ \cup {r}] ELSE dead
  /\ IF reply = "lost"
       THEN Return(w, "temp")
       ELSE AfterRcpt(w, sess[w].rejected \cup
                           (IF reply = "ok" THEN {} ELSE {r}))
  /\ UNCHANGED <<tokenVars, route, stopping, fate, owned, copies, holds, cut,
                 tries>>

\* One RCPT: a permanent refusal is set aside, a temporary one ends the
\* attempt before anything is sent.
Rcpt(w, reply) ==
  LET r == sess[w].next IN
  /\ sess[w].pc = "rcpt"
  /\ Heard(w, "rcpt", reply)
  /\ dead' = IF reply = "5xx" THEN [dead EXCEPT ![w] = @ \cup {r}] ELSE dead
  /\ IF reply = "ok" \/ isPermanentReply(reply)
       THEN AfterRcpt(w, sess[w].rejected \cup
                           (IF reply = "ok" THEN {} ELSE {r}))
       ELSE Return(w, classify(reply))
  /\ UNCHANGED <<tokenVars, route, stopping, fate, owned, copies, holds, cut,
                 tries>>

Data(w, reply) == Exchange(w, "data", reply, "body") /\ UNCHANGED tokenVars

\* The smarthost answers the final dot with 250: it owns the message.
SmarthostTakes(w, how) ==
  /\ owned' = [owned EXCEPT ![w] = how]
  /\ copies' = [copies EXCEPT ![w] = @ + 1]
  /\ holds' = [holds EXCEPT ![w] = @ \cup ((1..NRcpts) \ sess[w].rejected)]

\* io.Copy.  When the connection breaks, the Close that follows breaks too.
\* When the body cannot be read to its end, that Close still sends the final
\* dot, and its answer is dropped.
Copy(w) ==
  /\ sess[w].pc = "body"
  /\ \/ /\ GoTo(w, "close")
        /\ UNCHANGED <<owned, copies, holds, cut>>
     \/ /\ Return(w, "temp")
        /\ UNCHANGED <<owned, copies, holds, cut>>
     \/ /\ Return(w, "temp")
        /\ SmarthostTakes(w, "unheard")
        /\ cut' = [cut EXCEPT ![w] = TRUE]
  /\ UNCHANGED <<tokenVars, route, stopping, fate, dead, said, tries>>

\* The final dot and its answer; a lost answer may have been a 250.
Close(w, reply) ==
  /\ sess[w].pc = "close"
  /\ Heard(w, "close", reply)
  /\ IF reply = "ok"
       THEN GoTo(w, "quit") /\ SmarthostTakes(w, "heard")
       ELSE /\ Return(w, classify(reply))
            /\ \/ UNCHANGED <<owned, copies, holds>>
               \/ reply = "lost" /\ SmarthostTakes(w, "unheard")
  /\ UNCHANGED <<tokenVars, route, stopping, fate, dead, cut, tries>>

\* A partial acceptance outranks a failed goodbye, and both are errors of
\* their own.
Quit(w, reply) ==
  /\ sess[w].pc = "quit"
  /\ Return(w, CASE sess[w].rejected # {} -> "partial"
                 [] reply = "ok" -> "nil"
                 [] OTHER -> "quit")
  /\ Quiet /\ UNCHANGED tokenVars

-----------------------------------------------------------------------------
(* What delivery makes of the result.                                      *)

\* Mutant: a failed goodbye is a failure of the attempt.
Delivered_QuitFails(res) == res \in {"nil", "partial"}

\* send: the results that mean delivered, do not retry.
Delivered(res) == res \in {"nil", "partial", "quit"}

\* attempt and record.  A stop holds the message without counting the
\* attempt; the expiry only matters to a temporary failure.
Settle(w) ==
  LET res == sess[w].res IN
  /\ sess[w].pc = "done"
  /\ \E late \in BOOLEAN :
       fate' = [fate EXCEPT ![w] =
                  CASE Delivered(res) -> "delivered"
                    [] ~Delivered(res) /\ stopping -> "queued"
                    [] ~Delivered(res) /\ ~stopping /\ res = "perm" ->
                         "bounced"
                    [] OTHER -> IF late THEN "expired" ELSE "queued"]
  /\ sess' = [sess EXCEPT ![w] = NoSession]
  /\ owned' = [owned EXCEPT ![w] = "no"]
  /\ IF fate'[w] \in {"delivered", "bounced"}
       THEN UNCHANGED <<holds, dead, said>>
       ELSE /\ holds' = [holds EXCEPT ![w] = {}]
            /\ dead' = [dead EXCEPT ![w] = {}]
            /\ said' = [said EXCEPT ![w] = Silent]
  /\ UNCHANGED <<tokenVars, route, stopping, copies, cut, tries>>

\* The service context is cancelled.
Stop ==
  /\ ~stopping
  /\ stopping' = TRUE
  /\ UNCHANGED <<tokenVars, route, sess, fate, owned, copies, holds, dead,
                 said, cut, tries>>

\* The next process finds the queue and no token.
Restart ==
  /\ stopping /\ \A w \in Workers : sess[w].pc = "idle"
  /\ stopping' = FALSE
  /\ TokenForget
  /\ UNCHANGED <<route, sess, fate, owned, copies, holds, dead, said, cut,
                 tries>>

Tick == route.auth = "xoauth2" /\ TokenTick /\ UNCHANGED clientVars

Next ==
  \/ \E w \in Workers :
       \/ Begin(w) \/ Dial(w) \/ StartTLS(w) \/ AskToken(w)
       \/ EndFetch(w) \/ Challenge(w) \/ Copy(w) \/ Settle(w)
       \/ \E reply \in Replies :
            \/ Greet(w, reply) \/ Hello(w, reply) \/ Sasl(w, reply)
            \/ NextResponse(w, reply) \/ Mail(w, reply)
            \/ Rcpt(w, reply) \/ Data(w, reply)
            \/ Close(w, reply) \/ Quit(w, reply)
  \/ Stop \/ Restart \/ Tick

Spec == Init /\ [][Next]_vars

-----------------------------------------------------------------------------
(* Properties.                                                             *)

\* The client implements Handoff: an acceptance it has heard is never
\* followed by another attempt or by a bounce, whatever happens to the
\* session, the deadline or the service afterwards (transact and send).
H == INSTANCE Handoff WITH
       Messages <- Workers,
       fate <- [w \in Workers |->
                  IF fate[w] = "queued" /\ sess[w].pc # "idle"
                    THEN "trying" ELSE fate[w]]

HandsOff == H!Spec

\* Nobody is forgotten (offerRecipients): of a delivered message every
\* recipient is either one the smarthost owns a copy for or one it refused
\* for good, and at least one was accepted.  A message is bounced only on a
\* 5xx, and never on one that was about the relay's own credentials: none is
\* offered in a session whose authentication did not succeed, where the
\* smarthost would refuse it for good.
RecipientsSettled ==
  \A w \in Workers :
    /\ sess[w].pc \in {"mail", "rcpt", "data", "body", "close"} =>
         route.auth = "none" \/ sess[w].authed
    /\ fate[w] = "delivered" =>
         holds[w] # {} /\ holds[w] \cup dead[w] = 1..NRcpts
    /\ fate[w] = "bounced" =>
         \/ said[w] \in {"greet", "hello", "mail", "data", "close"} \X {"5xx"}
         \/ said[w][1] = "rcpt" /\ dead[w] = 1..NRcpts

\* The token source under concurrent workers (Token): no worker is handed a
\* token that has run out, none is refused while one is still valid, and no
\* request begins while the cached token is fresh or before the cooldown
\* after the last failed request has passed in full.
TokenHonest ==
  [][\A w \in Workers :
       LET leaves(pc) == /\ sess[w].pc \in {"token", "fetch"}
                         /\ sess'[w].pc = pc IN
       /\ leaves("sasl") => now < expires'
       /\ leaves("done") => expires <= now
       /\ leaves("fetch") =>
            /\ expires <= now + Skew
            /\ failedAt # -1 => now >= failedAt + Cooldown]_vars

\* What the comments of transact and offerRecipients promise: the smarthost
\* gets a second copy only when the answer to an earlier one was lost.
NoNeedlessCopy == \A w \in Workers : cut[w] => copies[w] < 2

=============================================================================
