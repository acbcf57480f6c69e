-------------------------- MODULE SmarthostProofs --------------------------
(***************************************************************************)
(* Proofs about Smarthost, for any number of workers and recipients, any   *)
(* set of accepted routes, and any token lifetimes: the client implements  *)
(* Handoff, no recipient is forgotten, and the token source is honest.     *)
(***************************************************************************)
EXTENDS Smarthost, FiniteSetTheorems, TLAPS

Everyone == 1..NRcpts

Stages == {"idle", "dial", "greet", "hello", "starttls", "token", "fetch",
           "sasl", "challenge", "mail", "rcpt", "data", "body", "close",
           "quit", "done"}

Results == {"none", "nil", "partial", "quit", "perm", "temp", "auth"}

Sessions == [pc : Stages, tls : BOOLEAN, authed : BOOLEAN, next : Everyone,
             rejected : SUBSET Everyone, res : Results]

\* The types of the client's state.
Shape ==
  /\ route \in Routes /\ stopping \in BOOLEAN
  /\ sess \in [Workers -> Sessions]
  /\ fate \in [Workers -> {"queued", "delivered", "bounced", "expired"}]
  /\ owned \in [Workers -> {"no", "heard", "unheard"}]
  /\ copies \in [Workers -> Nat]
  /\ holds \in [Workers -> SUBSET Everyone]
  /\ dead \in [Workers -> SUBSET Everyone]
  /\ said \in [Workers -> (Stages \cup {"none"}) \X (Replies \cup {"none"})]

\* An attempt is about a queued message, and has heard the acceptance
\* exactly when its result, or the goodbye still to come, means delivered.
Honest(w) ==
  /\ sess[w].pc # "idle" => fate[w] = "queued"
  /\ owned[w] = "heard" <=> \/ sess[w].pc = "quit"
                            \/ sess[w].pc = "done" /\ Delivered(sess[w].res)
  /\ owned[w] = "unheard" => sess[w].pc = "done" /\ sess[w].res = "temp"

\* What the attempt knows of its recipients at each stage.
Offered(w) ==
  /\ sess[w].pc = "idle" /\ fate[w] = "queued" =>
       holds[w] = {} /\ dead[w] = {}
  /\ sess[w].pc \notin {"idle", "rcpt", "data", "body", "close", "quit",
                        "done"} =>
       /\ holds[w] = {} /\ dead[w] = {}
       /\ sess[w].rejected = {} /\ sess[w].next = 1
  /\ sess[w].pc = "rcpt" =>
       /\ holds[w] = {} /\ dead[w] = sess[w].rejected
       /\ sess[w].rejected \subseteq 1..(sess[w].next - 1)
  /\ sess[w].pc \in {"data", "body", "close"} =>
       /\ holds[w] = {} /\ dead[w] = sess[w].rejected
       /\ sess[w].rejected # Everyone
  /\ sess[w].pc = "quit" \/ (sess[w].pc = "done" /\ Delivered(sess[w].res))
       => holds[w] # {} /\ holds[w] \cup dead[w] = Everyone

\* A result that bounces the message has its cause in the last answer.
Blamed(w) ==
  \/ said[w] \in {"greet", "hello", "mail", "data", "close"} \X {"5xx"}
  \/ said[w][1] = "rcpt" /\ dead[w] = Everyone

Caused(w) ==
  /\ sess[w].pc = "done" /\ sess[w].res = "perm" => Blamed(w)
  /\ sess[w].pc \in {"mail", "rcpt", "data", "body", "close"} =>
       route.auth = "none" \/ sess[w].authed

\* The token source's own state.
TokenShape ==
  /\ now \in Nat /\ expires \in Nat /\ lastErr \in BOOLEAN
  /\ retryAfter \in Nat /\ failedAt \in Nat \cup {-1}
  /\ failedAt # -1 => lastErr /\ retryAfter = failedAt + Cooldown

\* A worker that waits for the endpoint holds the mutex, and still has the
\* reason it asked for.
Asking(w) ==
  /\ sess[w].pc = "fetch" <=> holder = w
  /\ sess[w].pc = "fetch" =>
       /\ expires <= now + Skew
       /\ failedAt # -1 => now >= failedAt + Cooldown

\* What a message that left the queue has to show for it.
Closed(w) ==
  /\ fate[w] = "delivered" =>
       holds[w] # {} /\ holds[w] \cup dead[w] = Everyone
  /\ fate[w] = "bounced" => Blamed(w)

Client(w) == Honest(w) /\ Offered(w) /\ Caused(w) /\ Closed(w)

ClientInv ==
  /\ Shape /\ TokenShape
  /\ \A w \in Workers : Client(w) /\ Asking(w)

-----------------------------------------------------------------------------
\* offerRecipients counts: everybody was refused exactly when as many were
\* as there are.
LEMMA AllRefused ==
  ASSUME NEW R \in SUBSET Everyone
  PROVE  Cardinality(R) = NRcpts <=> R = Everyone
<1>1. IsFiniteSet(Everyone) /\ Cardinality(Everyone) = NRcpts
  BY FS_Interval, SmarthostAssumption DEF Everyone
<1>2. R = Everyone => Cardinality(R) = NRcpts
  BY <1>1
<1>3. Cardinality(R) = NRcpts => R = Everyone
  BY <1>1, FS_Subset
<1> QED
  BY <1>2, <1>3

\* authFor leads to authentication whenever the route asks for it.
LEMMA AuthChoice ==
  ASSUME Shape
  PROVE  /\ authFor \in {"mail", "sasl", "token"}
         /\ authFor = "mail" => route.auth = "none"
BY SmarthostAssumption DEF Shape, authFor

\* The session before an attempt is one.
LEMMA Unbegun ==
  /\ NoSession \in Sessions
  /\ NoSession.pc = "idle" /\ NoSession.rejected = {} /\ NoSession.next = 1
BY SmarthostAssumption DEF NoSession, Sessions, Stages, Results, Everyone

\* Nothing is asked of a client that has not begun.
LEMMA ClientInit == Init => ClientInv
<1> SUFFICES ASSUME Init
             PROVE  ClientInv
  OBVIOUS
<1>2. Shape
  BY Unbegun DEF Init, Shape, Silent
<1>3. TokenShape
  BY DEF Init, TokenInit, TokenShape
<1>4. \A w \in Workers : Client(w) /\ Asking(w)
  BY TokenSourceAssumption
     DEF Init, TokenInit, Client, Honest, Offered, Caused, Closed, Asking,
         NoSession
<1> QED
  BY <1>2, <1>3, <1>4 DEF ClientInv

-----------------------------------------------------------------------------
(* Frames: what a step of worker w's attempt leaves alone.                 *)

\* The step touches no other worker's session.
OnlyAt(w) ==
  /\ route' = route
  /\ \A v \in Workers \ {w} :
       /\ sess'[v] = sess[v] /\ fate'[v] = fate[v] /\ owned'[v] = owned[v]
       /\ holds'[v] = holds[v] /\ dead'[v] = dead[v] /\ said'[v] = said[v]

\* Worker w's session is still one, and keeps what it knows of recipients.
Moves(w) ==
  /\ sess' \in [Workers -> Sessions]
  /\ \A v \in Workers \ {w} : sess'[v] = sess[v]

Keeps(w) ==
  sess'[w].rejected = sess[w].rejected /\ sess'[w].next = sess[w].next

\* Every other worker keeps what holds of its message.
LEMMA Elsewhere ==
  ASSUME ClientInv, NEW w \in Workers, OnlyAt(w), Client(w)'
  PROVE  \A v \in Workers : Client(v)'
<1>1. ASSUME NEW v \in Workers \ {w}
      PROVE  Client(v)'
  BY <1>1 DEF ClientInv, Client, Honest, Offered, Caused, Closed, Blamed,
              OnlyAt
<1> QED
  BY <1>1

\* Outside of its requests a worker does not concern the token source.
LEMMA AskingKept ==
  ASSUME ClientInv, NEW w \in Workers, Moves(w), UNCHANGED tokenVars,
         sess[w].pc # "fetch", sess'[w].pc # "fetch"
  PROVE  TokenShape' /\ \A v \in Workers : Asking(v)'
<1>1. TokenShape'
  BY DEF ClientInv, TokenShape, tokenVars
<1>2. ASSUME NEW v \in Workers
      PROVE  Asking(v)'
  BY DEF ClientInv, Asking, Moves, tokenVars
<1> QED
  BY <1>1, <1>2

\* On to another stage of the same attempt.
LEMMA GoToMoves ==
  ASSUME Shape, NEW w \in Workers, NEW pc \in Stages, GoTo(w, pc)
  PROVE  /\ Moves(w) /\ Keeps(w)
         /\ sess'[w].pc = pc /\ sess'[w].authed = sess[w].authed
<1> DEFINE s == [sess[w] EXCEPT !.pc = pc]
<1>1. sess[w] \in Sessions
  BY DEF Shape
<1>2. /\ s \in Sessions /\ s.pc = pc /\ s.authed = sess[w].authed
      /\ s.rejected = sess[w].rejected /\ s.next = sess[w].next
  BY <1>1 DEF Sessions
<1>3. sess' = [sess EXCEPT ![w] = s]
  BY DEF GoTo
<1> HIDE DEF s
<1> QED
  BY <1>2, <1>3 DEF Shape, Moves, Keeps

\* Deliver returns from wherever it is.
LEMMA ReturnMoves ==
  ASSUME Shape, NEW w \in Workers, NEW res \in Results, Return(w, res)
  PROVE  /\ Moves(w) /\ Keeps(w)
         /\ sess'[w].pc = "done" /\ sess'[w].res = res
<1> DEFINE s == [sess[w] EXCEPT !.pc = "done", !.res = res]
<1>1. sess[w] \in Sessions
  BY DEF Shape
<1>2. /\ s \in Sessions /\ s.pc = "done" /\ s.res = res
      /\ s.rejected = sess[w].rejected /\ s.next = sess[w].next
  BY <1>1 DEF Sessions, Stages
<1>3. sess' = [sess EXCEPT ![w] = s]
  BY DEF Return
<1> HIDE DEF s
<1> QED
  BY <1>2, <1>3 DEF Shape, Moves, Keeps

\* The answer that is noted down is this worker's.
LEMMA HeardSays ==
  ASSUME Shape, NEW w \in Workers, NEW stage \in Stages,
         NEW reply \in Replies, Heard(w, stage, reply)
  PROVE  /\ said' \in [Workers ->
                         (Stages \cup {"none"}) \X (Replies \cup {"none"})]
         /\ \A v \in Workers \ {w} : said'[v] = said[v]
         /\ said'[w] = IF reply = "ok" THEN Silent ELSE <<stage, reply>>
BY DEF Shape, Heard, Silent

\* The stages before the first recipient.
Early == {"dial", "greet", "hello", "starttls", "token", "fetch", "sasl",
          "challenge", "mail"}

\* A step that hands nothing over: on to the next stage, or out with a
\* result that does not mean delivered and, if it bounces, has its cause.
LEMMA PlainStep ==
  ASSUME ClientInv, NEW w \in Workers,
         UNCHANGED <<route, stopping, fate, owned, copies, holds, dead>>,
         said' \in [Workers ->
                      (Stages \cup {"none"}) \X (Replies \cup {"none"})],
         \A v \in Workers \ {w} : said'[v] = said[v],
         Moves(w),
         \/ /\ Keeps(w)
            /\ \/ sess[w].pc \in Early /\ sess'[w].pc \in Early \cup {"rcpt"}
               \/ sess[w].pc = "data" /\ sess'[w].pc = "body"
               \/ sess[w].pc = "body" /\ sess'[w].pc = "close"
            /\ sess'[w].pc \in {"mail", "rcpt", "body", "close"} =>
                 route.auth = "none" \/ sess'[w].authed
         \/ /\ sess[w].pc \in Early \cup {"rcpt", "data", "body", "close"}
            /\ sess'[w].pc = "done"
            /\ \/ sess'[w].res \in {"temp", "auth"}
               \/ sess'[w].res = "perm" /\ Blamed(w)'
  PROVE  Shape' /\ \A v \in Workers : Client(v)'
<1>1. Shape'
  BY DEF ClientInv, Shape, Moves
<1>2. OnlyAt(w)
  BY DEF OnlyAt, Moves
<1>3. Client(w)
  BY DEF ClientInv
<1>4. sess[w] \in Sessions /\ sess'[w] \in Sessions
  BY DEF Moves, ClientInv, Shape
<1>5. Honest(w)'
  BY <1>3 DEF Client, Honest, Delivered, Early
<1>6. Offered(w)'
  BY <1>3 DEF Client, Offered, Honest, Delivered, Early, Keeps
<1>7. Caused(w)' /\ Closed(w)'
  BY <1>3 DEF Client, Caused, Closed, Honest, Early
<1> QED
  BY <1>1, <1>2, <1>5, <1>6, <1>7, Elsewhere DEF Client

-----------------------------------------------------------------------------
(* The steps.                                                              *)

\* An exchange: greeting, EHLO, MAIL and DATA.
LEMMA ExchangeStep ==
  ASSUME ClientInv, NEW w \in Workers, NEW reply \in Replies,
         UNCHANGED tokenVars,
         \/ Exchange(w, "greet", reply, "hello")
         \/ Exchange(w, "hello", reply,
                     IF route.tls = "starttls" THEN "starttls" ELSE authFor)
         \/ Exchange(w, "mail", reply, "rcpt")
         \/ Exchange(w, "data", reply, "body")
  PROVE  ClientInv'
<1>1. PICK stage \in {"greet", "hello", "mail", "data"},
           next \in {"hello", "starttls", "mail", "sasl", "token", "rcpt",
                     "body"} :
        /\ Exchange(w, stage, reply, next)
        /\ stage \in {"greet", "hello"} =>
             next \in {"hello", "starttls", "mail", "sasl", "token"}
        /\ stage = "mail" => next = "rcpt"
        /\ stage = "data" => next = "body"
        /\ next = "mail" => route.auth = "none"
  BY AuthChoice DEF ClientInv
<1>2. /\ Shape /\ sess[w].pc = stage /\ Heard(w, stage, reply)
      /\ UNCHANGED <<route, stopping, fate, owned, copies, holds, dead>>
      /\ IF reply = "ok" THEN GoTo(w, next) ELSE Return(w, classify(reply))
  BY <1>1 DEF ClientInv, Exchange
<1>3. /\ said' \in [Workers ->
                      (Stages \cup {"none"}) \X (Replies \cup {"none"})]
      /\ \A v \in Workers \ {w} : said'[v] = said[v]
      /\ reply # "ok" => said'[w] = <<stage, reply>>
  <2>1. stage \in Stages
    BY DEF Stages
  <2> QED
    BY <1>2, <2>1, HeardSays
<1>4. CASE reply = "ok"
  <2>1. /\ Moves(w) /\ Keeps(w)
        /\ sess'[w].pc = next /\ sess'[w].authed = sess[w].authed
    BY <1>2, <1>4, GoToMoves DEF Stages
  <2>2. Shape' /\ \A v \in Workers : Client(v)'
    BY <1>1, <1>2, <1>3, <2>1, PlainStep
       DEF Early, ClientInv, Client, Caused
  <2> QED
    BY <1>2, <2>1, <2>2, AskingKept DEF ClientInv
<1>5. CASE reply # "ok"
  <2>1. classify(reply) \in {"perm", "temp"}
    BY DEF classify
  <2>2. /\ Moves(w) /\ Keeps(w)
        /\ sess'[w].pc = "done" /\ sess'[w].res = classify(reply)
    BY <1>2, <1>5, <2>1, ReturnMoves DEF Results
  <2>3. classify(reply) = "perm" => Blamed(w)'
    BY <1>1, <1>3, <1>5 DEF classify, Blamed
  <2>4. Shape' /\ \A v \in Workers : Client(v)'
    BY <1>2, <1>3, <2>1, <2>2, <2>3, PlainStep DEF Early
  <2> QED
    BY <1>2, <2>2, <2>4, AskingKept DEF ClientInv
<1> QED
  BY <1>4, <1>5

\* The connection and its encryption.
LEMMA ConnectStep ==
  ASSUME ClientInv, NEW w \in Workers,
         Dial(w) \/ StartTLS(w) \/ Challenge(w)
  PROVE  ClientInv'
<1>1. /\ Shape /\ Quiet /\ UNCHANGED tokenVars
      /\ sess[w].pc \in {"dial", "starttls", "sasl"} /\ sess[w] \in Sessions
  BY DEF ClientInv, Dial, StartTLS, Challenge, Shape
<1>2. /\ Moves(w)
      /\ \/ /\ Keeps(w)
            /\ sess'[w].pc \in {"greet", "challenge", authFor}
         \/ sess'[w].pc = "done" /\ sess'[w].res = "temp"
  <2>1. CASE Challenge(w)
    BY <1>1, <2>1, GoToMoves DEF Challenge, Stages
  <2>2. CASE Return(w, "temp")
    BY <1>1, <2>2, ReturnMoves DEF Results
  <2>3. ASSUME NEW pc \in {"greet", authFor}, NEW tls \in BOOLEAN,
               sess' = [sess EXCEPT ![w].pc = pc, ![w].tls = tls]
        PROVE  Moves(w) /\ Keeps(w) /\ sess'[w].pc = pc
    <3> DEFINE s == [sess[w] EXCEPT !.pc = pc, !.tls = tls]
    <3>1. /\ s \in Sessions /\ s.pc = pc
          /\ s.rejected = sess[w].rejected /\ s.next = sess[w].next
      BY <1>1, AuthChoice DEF Sessions, Stages
    <3>2. sess' = [sess EXCEPT ![w] = s]
      BY <2>3
    <3> HIDE DEF s
    <3> QED
      BY <1>1, <3>1, <3>2 DEF Shape, Moves, Keeps
  <2>4. CASE Dial(w)
    BY <2>2, <2>3, <2>4 DEF Dial
  <2>5. CASE StartTLS(w)
    BY <2>2, <2>3, <2>5 DEF StartTLS
  <2> QED
    BY <2>1, <2>4, <2>5
<1>3. Shape' /\ \A v \in Workers : Client(v)'
  BY <1>1, <1>2, AuthChoice, PlainStep DEF Early, Quiet, Shape
<1> QED
  BY <1>1, <1>2, <1>3, AskingKept, AuthChoice DEF ClientInv

\* Authentication: its failure is never the message's.
LEMMA SaslStep ==
  ASSUME ClientInv, NEW w \in Workers, NEW reply \in Replies,
         Sasl(w, reply) \/ NextResponse(w, reply)
  PROVE  ClientInv'
<1>1. /\ Shape /\ UNCHANGED tokenVars /\ Heard(w, "sasl", reply)
      /\ UNCHANGED <<route, stopping, fate, owned, copies, holds, dead>>
      /\ sess[w].pc \in {"sasl", "challenge"} /\ sess[w] \in Sessions
  BY DEF ClientInv, Sasl, NextResponse, Shape
<1>2. /\ said' \in [Workers ->
                      (Stages \cup {"none"}) \X (Replies \cup {"none"})]
      /\ \A v \in Workers \ {w} : said'[v] = said[v]
  <2>1. "sasl" \in Stages
    BY DEF Stages
  <2> QED
    BY <1>1, <2>1, HeardSays
<1>3. /\ Moves(w)
      /\ \/ Keeps(w) /\ sess'[w].pc = "mail" /\ sess'[w].authed
         \/ sess'[w].pc = "done" /\ sess'[w].res = "auth"
  <2>1. CASE Return(w, "auth")
    BY <1>1, <2>1, ReturnMoves DEF Results
  <2>2. CASE sess' = [sess EXCEPT ![w].pc = "mail", ![w].authed = TRUE]
    <3> DEFINE s == [sess[w] EXCEPT !.pc = "mail", !.authed = TRUE]
    <3>1. /\ s \in Sessions /\ s.pc = "mail" /\ s.authed
          /\ s.rejected = sess[w].rejected /\ s.next = sess[w].next
      BY <1>1 DEF Sessions, Stages
    <3>2. sess' = [sess EXCEPT ![w] = s]
      BY <2>2
    <3> HIDE DEF s
    <3> QED
      BY <1>1, <3>1, <3>2 DEF Shape, Moves, Keeps
  <2> QED
    BY <2>1, <2>2 DEF Sasl, NextResponse
<1>4. Shape' /\ \A v \in Workers : Client(v)'
  BY <1>1, <1>2, <1>3, PlainStep DEF Early
<1> QED
  BY <1>1, <1>3, <1>4, AskingKept DEF ClientInv

\* The token source is asked; whatever it says, the attempt only goes on to
\* authenticate or ends with an AuthError.
LEMMA TokenStep ==
  ASSUME ClientInv, NEW w \in Workers, AskToken(w) \/ EndFetch(w)
  PROVE  ClientInv'
<1> USE TokenSourceAssumption
<1>1. Shape /\ Quiet /\ sess[w].pc \in {"token", "fetch"}
  BY DEF ClientInv, AskToken, EndFetch
<1>2. /\ Moves(w)
      /\ \/ /\ Keeps(w)
            /\ sess'[w].pc \in {"sasl", "fetch"}
         \/ sess'[w].pc = "done" /\ sess'[w].res = "auth"
  <2>1. CASE Return(w, "auth")
    BY <1>1, <2>1, ReturnMoves DEF Results
  <2>2. CASE GoTo(w, "sasl")
    BY <1>1, <2>2, GoToMoves DEF Stages
  <2>3. CASE GoTo(w, "fetch")
    BY <1>1, <2>3, GoToMoves DEF Stages
  <2> QED
    BY <2>1, <2>2, <2>3 DEF AskToken, EndFetch
<1>3. Shape' /\ \A v \in Workers : Client(v)'
  BY <1>1, <1>2, PlainStep DEF Early, Quiet, Shape
<1>4. TokenShape' /\ \A v \in Workers : Asking(v)'
  <2>1. CASE sess[w].pc = "token" /\ UNCHANGED tokenVars
                                  /\ (GoTo(w, "sasl") \/ Return(w, "auth"))
    <3>1. sess'[w].pc # "fetch"
      BY <1>1, <2>1, GoToMoves, ReturnMoves DEF Stages, Results
    <3> QED
      BY <1>2, <2>1, <3>1, AskingKept
  <2>2. CASE sess[w].pc = "token" /\ TokenFetch(w) /\ GoTo(w, "fetch")
    <3>1. sess'[w].pc = "fetch"
      BY <1>1, <2>2, GoToMoves DEF Stages
    <3>2. TokenShape'
      BY <2>2 DEF ClientInv, TokenShape, TokenFetch
    <3>3. /\ expires <= now + Skew
          /\ failedAt # -1 => now >= failedAt + Cooldown
      BY <2>2 DEF ClientInv, TokenShape, TokenFetch, Fresh, CoolingDown
    <3>4. ASSUME NEW v \in Workers
          PROVE  Asking(v)'
      BY <1>2, <2>2, <3>1, <3>3 DEF ClientInv, Asking, TokenFetch, Moves
    <3> QED
      BY <3>2, <3>4
  <2>3. CASE /\ sess[w].pc = "fetch" /\ sess'[w].pc # "fetch"
             /\ FetchFail(w) \/ \E life \in Lives : FetchOk(w, life)
    <3>1. TokenShape'
      <4>1. CASE FetchFail(w)
        BY <4>1 DEF ClientInv, TokenShape, FetchFail
      <4>2. ASSUME NEW life \in Lives, FetchOk(w, life)
            PROVE  TokenShape'
        <5>1. life \in Nat /\ failedAt' = -1
          BY <4>2 DEF FetchOk
        <5>2. lastErr' \in BOOLEAN
          BY <4>2 DEF FetchOk
        <5>3. now' \in Nat /\ expires' \in Nat /\ retryAfter' \in Nat
          BY <4>2, <5>1 DEF ClientInv, TokenShape, FetchOk
        <5> QED
          BY <5>1, <5>2, <5>3 DEF TokenShape
      <4> QED
        BY <2>3, <4>1, <4>2
    <3>2. holder = w /\ holder' = NoWorker
      BY <2>3 DEF FetchFail, FetchOk
    <3>3. ASSUME NEW v \in Workers
          PROVE  sess'[v].pc # "fetch" /\ holder' # v
      <4>1. CASE v = w
        BY <2>3, <3>2, <4>1
      <4>2. CASE v # w
        <5>1. sess[v].pc # "fetch" /\ sess'[v] = sess[v]
          BY <1>2, <3>2, <4>2 DEF ClientInv, Asking, Moves
        <5> QED
          BY <3>2, <5>1
      <4> QED
        BY <4>1, <4>2
    <3> QED
      BY <3>1, <3>3 DEF Asking
  <2>4. CASE AskToken(w)
    BY <2>1, <2>2, <2>4 DEF AskToken, TokenCached, TokenCooling
  <2>5. CASE EndFetch(w)
    <3>1. GoTo(w, "sasl") \/ Return(w, "auth")
      BY <2>5 DEF EndFetch
    <3>2. sess'[w].pc # "fetch"
      BY <1>1, <3>1, GoToMoves, ReturnMoves DEF Stages, Results
    <3> QED
      BY <2>3, <2>5, <3>2 DEF EndFetch
  <2> QED
    BY <2>4, <2>5
<1> QED
  BY <1>3, <1>4 DEF ClientInv

\* A worker takes its message up.
LEMMA BeginStep ==
  ASSUME ClientInv, NEW w \in Workers, Begin(w)
  PROVE  ClientInv'
<1> DEFINE s == [NoSession EXCEPT !.pc = "dial"]
<1>1. /\ s \in Sessions /\ s.pc = "dial"
      /\ s.rejected = {} /\ s.next = 1
  BY Unbegun DEF Sessions, Stages
<1>2. sess' = [sess EXCEPT ![w] = s]
  BY DEF Begin
<1> HIDE DEF s
<1>3. Moves(w) /\ sess'[w] = s
  BY <1>1, <1>2 DEF ClientInv, Shape, Moves
<1>4. Shape'
  BY <1>3 DEF ClientInv, Shape, Begin, Moves
<1>5. OnlyAt(w)
  BY <1>3 DEF OnlyAt, Moves, Begin
<1>6. Client(w)'
  <2>1. /\ Client(w) /\ fate[w] = "queued" /\ sess[w].pc = "idle"
        /\ sess'[w].pc = "dial"
        /\ sess'[w].rejected = {} /\ sess'[w].next = 1
        /\ UNCHANGED <<fate, owned, holds, dead, said>>
    BY <1>1, <1>3 DEF ClientInv, Begin
  <2> QED
    BY <2>1 DEF Client, Honest, Offered, Caused, Closed
<1> QED
  BY <1>1, <1>3, <1>4, <1>5, <1>6, Elsewhere, AskingKept
     DEF ClientInv, Begin

\* One recipient: the loop keeps who was refused for good, goes on to the
\* body only if somebody was not, and bounces only if nobody was left.
LEMMA RcptStep ==
  ASSUME ClientInv, NEW w \in Workers, NEW reply \in Replies, Rcpt(w, reply)
  PROVE  ClientInv'
<1> DEFINE r == sess[w].next
           R == sess[w].rejected \cup (IF reply = "ok" THEN {} ELSE {r})
<1>1. /\ Shape /\ sess[w] \in Sessions /\ sess[w].pc = "rcpt" /\ Client(w)
      /\ UNCHANGED tokenVars /\ Heard(w, "rcpt", reply)
      /\ UNCHANGED <<route, stopping, fate, owned, copies, holds>>
  BY DEF ClientInv, Rcpt, Shape
<1>2. r \in Everyone /\ sess[w].rejected \in SUBSET Everyone
  BY <1>1 DEF Sessions
<1>3. /\ said' \in [Workers ->
                      (Stages \cup {"none"}) \X (Replies \cup {"none"})]
      /\ \A v \in Workers \ {w} : said'[v] = said[v]
      /\ said'[w] = IF reply = "ok" THEN Silent ELSE <<"rcpt", reply>>
  <2>1. "rcpt" \in Stages
    BY DEF Stages
  <2> QED
    BY <1>1, <2>1, HeardSays
<1>4. /\ dead' \in [Workers -> SUBSET Everyone]
      /\ \A v \in Workers \ {w} : dead'[v] = dead[v]
      /\ dead'[w] = dead[w] \cup (IF reply = "5xx" THEN {r} ELSE {})
  BY <1>1, <1>2 DEF Rcpt, Shape
<1>5. CASE reply \notin {"ok", "5xx"}
  <2>1. Return(w, "temp") /\ dead' = dead
    BY <1>5 DEF Rcpt, isPermanentReply, classify
  <2>2. Moves(w) /\ sess'[w].pc = "done" /\ sess'[w].res = "temp"
    BY <1>1, <2>1, ReturnMoves DEF Results
  <2>3. Shape' /\ \A v \in Workers : Client(v)'
    BY <1>1, <1>3, <2>1, <2>2, PlainStep
  <2> QED
    BY <1>1, <2>2, <2>3, AskingKept DEF ClientInv
<1>6. CASE reply \in {"ok", "5xx"}
  <2>1. AfterRcpt(w, R)
    BY <1>6 DEF Rcpt, isPermanentReply, classify
  <2>2. /\ R \in SUBSET Everyone /\ R \subseteq 1..r
        /\ dead'[w] = R
    BY <1>1, <1>2, <1>4, <1>6, SmarthostAssumption
       DEF Client, Offered, Everyone
  <2> HIDE DEF R
  <2>3. CASE r < NRcpts
    <3> DEFINE s == [sess[w] EXCEPT !.next = r + 1, !.rejected = R]
    <3>1. r + 1 \in Everyone
      BY <1>2, <2>3, SmarthostAssumption DEF Everyone
    <3>2. /\ s \in Sessions /\ s.pc = "rcpt" /\ s.authed = sess[w].authed
          /\ s.rejected = R /\ s.next = r + 1
      BY <1>1, <2>2, <3>1 DEF Sessions
    <3>3. sess' = [sess EXCEPT ![w] = s]
      BY <2>1, <2>3 DEF AfterRcpt
    <3> HIDE DEF s
    <3>4. Moves(w) /\ sess'[w] = s
      BY <1>1, <3>2, <3>3 DEF Shape, Moves
    <3>5. Shape'
      BY <1>1, <1>3, <1>4, <3>4 DEF Shape, Moves
    <3>6. OnlyAt(w)
      BY <1>1, <1>3, <1>4, <3>4 DEF OnlyAt, Moves
    <3>7. R \subseteq 1..(sess'[w].next - 1)
      BY <1>2, <2>2, <3>2, <3>4, SmarthostAssumption DEF Everyone
    <3>8. Client(w)'
      BY <1>1, <2>2, <3>2, <3>4, <3>7
         DEF Client, Honest, Offered, Caused, Closed
    <3> QED
      BY <1>1, <3>2, <3>4, <3>5, <3>6, <3>8, Elsewhere, AskingKept
         DEF ClientInv
  <2>4. CASE ~(r < NRcpts) /\ Cardinality(R) = NRcpts
    <3>1. Return(w, "perm")
      BY <2>1, <2>4 DEF AfterRcpt
    <3>2. Moves(w) /\ sess'[w].pc = "done" /\ sess'[w].res = "perm"
      BY <1>1, <3>1, ReturnMoves DEF Results
    <3>3. R = Everyone
      BY <2>2, <2>4, AllRefused
    <3>4. r \in R
      BY <1>2, <3>3
    <3>5. reply = "5xx"
      BY <1>1, <1>2, <1>6, <3>4, SmarthostAssumption
         DEF R, Client, Offered, Everyone
    <3>6. Blamed(w)'
      BY <1>3, <2>2, <3>3, <3>5 DEF Blamed
    <3>7. Shape'
      BY <1>1, <1>3, <1>4, <3>2 DEF Shape, Moves
    <3>8. OnlyAt(w)
      BY <1>1, <1>3, <1>4, <3>2 DEF OnlyAt, Moves
    <3>9. Client(w)'
      BY <1>1, <3>2, <3>6
         DEF Client, Honest, Offered, Caused, Closed, Delivered
    <3> QED
      BY <1>1, <3>2, <3>7, <3>8, <3>9, Elsewhere, AskingKept DEF ClientInv
  <2>5. CASE ~(r < NRcpts) /\ Cardinality(R) # NRcpts
    <3> DEFINE s == [sess[w] EXCEPT !.pc = "data", !.rejected = R]
    <3>1. /\ s \in Sessions /\ s.pc = "data" /\ s.authed = sess[w].authed
          /\ s.rejected = R
      BY <1>1, <2>2 DEF Sessions, Stages
    <3>2. sess' = [sess EXCEPT ![w] = s]
      BY <2>1, <2>5 DEF AfterRcpt
    <3> HIDE DEF s
    <3>3. Moves(w) /\ sess'[w] = s
      BY <1>1, <3>1, <3>2 DEF Shape, Moves
    <3>4. Shape'
      BY <1>1, <1>3, <1>4, <3>3 DEF Shape, Moves
    <3>5. OnlyAt(w)
      BY <1>1, <1>3, <1>4, <3>3 DEF OnlyAt, Moves
    <3>6. R # Everyone
      BY <2>2, <2>5, AllRefused
    <3>7. Client(w)'
      BY <1>1, <2>2, <3>1, <3>3, <3>6
         DEF Client, Honest, Offered, Caused, Closed
    <3> QED
      BY <1>1, <3>1, <3>3, <3>4, <3>5, <3>7, Elsewhere, AskingKept
         DEF ClientInv
  <2> QED
    BY <2>3, <2>4, <2>5
<1> QED
  BY <1>5, <1>6

\* The smarthost takes the message for everybody it did not refuse.
LEMMA TakesFor ==
  ASSUME ClientInv, NEW w \in Workers, NEW how \in {"heard", "unheard"},
         sess[w].pc \in {"body", "close"}, SmarthostTakes(w, how)
  PROVE  /\ owned' \in [Workers -> {"no", "heard", "unheard"}]
         /\ copies' \in [Workers -> Nat]
         /\ holds' \in [Workers -> SUBSET Everyone]
         /\ \A v \in Workers \ {w} :
              owned'[v] = owned[v] /\ holds'[v] = holds[v]
         /\ owned'[w] = how
         /\ holds'[w] # {} /\ holds'[w] \cup dead[w] = Everyone
<1> DEFINE more == Everyone \ sess[w].rejected
<1>1. sess[w] \in Sessions /\ Shape /\ Client(w)
  BY DEF ClientInv, Shape
<1>2. /\ holds[w] = {} /\ dead[w] = sess[w].rejected
      /\ sess[w].rejected # Everyone /\ sess[w].rejected \subseteq Everyone
  BY <1>1 DEF Client, Offered, Sessions
<1>3. holds' = [holds EXCEPT ![w] = @ \cup more]
  BY DEF SmarthostTakes, Everyone
<1>4. holds'[w] = more /\ more # {} /\ more \cup dead[w] = Everyone
  BY <1>1, <1>2, <1>3 DEF Shape
<1> QED
  BY <1>1, <1>3, <1>4 DEF SmarthostTakes, Shape

\* The body and the final dot.
LEMMA BodyStep ==
  ASSUME ClientInv, NEW w \in Workers,
         Copy(w) \/ \E reply \in Replies : Close(w, reply)
  PROVE  ClientInv'
<1>1. Shape /\ Client(w) /\ sess[w] \in Sessions
  BY DEF ClientInv, Shape
<1>2. ASSUME NEW how \in {"heard", "unheard"}, SmarthostTakes(w, how),
             sess[w].pc \in {"body", "close"}, UNCHANGED tokenVars,
             UNCHANGED <<route, stopping, fate, dead>>,
             said' \in [Workers ->
                         (Stages \cup {"none"}) \X (Replies \cup {"none"})],
             \A v \in Workers \ {w} : said'[v] = said[v],
             Moves(w),
             \/ how = "heard" /\ sess'[w].pc = "quit"
             \/ /\ how = "unheard"
                /\ sess'[w].pc = "done" /\ sess'[w].res = "temp"
      PROVE  ClientInv'
  <2>1. /\ owned' \in [Workers -> {"no", "heard", "unheard"}]
        /\ copies' \in [Workers -> Nat]
        /\ holds' \in [Workers -> SUBSET Everyone]
        /\ \A v \in Workers \ {w} :
             owned'[v] = owned[v] /\ holds'[v] = holds[v]
        /\ owned'[w] = how
        /\ holds'[w] # {} /\ holds'[w] \cup dead[w] = Everyone
    BY <1>2, TakesFor
  <2>2. Shape'
    BY <1>1, <1>2, <2>1 DEF Shape, Moves
  <2>3. OnlyAt(w)
    BY <1>2, <2>1 DEF OnlyAt, Moves
  <2>4. Client(w)'
    BY <1>1, <1>2, <2>1
       DEF Client, Honest, Offered, Caused, Closed, Delivered
  <2> QED
    BY <1>2, <2>2, <2>3, <2>4, Elsewhere, AskingKept DEF ClientInv
<1>3. CASE Copy(w)
  <2>1. /\ sess[w].pc = "body" /\ UNCHANGED tokenVars
        /\ UNCHANGED <<route, stopping, fate, dead, said>>
    BY <1>3 DEF Copy
  <2>2. CASE GoTo(w, "close") /\ UNCHANGED <<owned, copies, holds>>
    <3>1. /\ Moves(w) /\ Keeps(w)
          /\ sess'[w].pc = "close" /\ sess'[w].authed = sess[w].authed
      BY <1>1, <2>2, GoToMoves DEF Stages
    <3>2. Shape' /\ \A v \in Workers : Client(v)'
      BY <1>1, <2>1, <2>2, <3>1, PlainStep DEF Shape, Client, Caused
    <3> QED
      BY <2>1, <3>1, <3>2, AskingKept DEF ClientInv
  <2>3. CASE Return(w, "temp")
    <3>1. /\ Moves(w) /\ Keeps(w)
          /\ sess'[w].pc = "done" /\ sess'[w].res = "temp"
      BY <1>1, <2>3, ReturnMoves DEF Results
    <3>2. CASE UNCHANGED <<owned, copies, holds>>
      <4>1. Shape' /\ \A v \in Workers : Client(v)'
        BY <1>1, <2>1, <3>1, <3>2, PlainStep DEF Shape
      <4> QED
        BY <2>1, <3>1, <4>1, AskingKept DEF ClientInv
    <3>3. CASE SmarthostTakes(w, "unheard")
      BY <1>1, <1>2, <2>1, <3>1, <3>3 DEF Shape
    <3>4. UNCHANGED <<owned, copies, holds>> \/ SmarthostTakes(w, "unheard")
      BY <1>3 DEF Copy
    <3> QED
      BY <3>2, <3>3, <3>4
  <2> QED
    BY <1>3, <2>2, <2>3 DEF Copy
<1>4. ASSUME NEW reply \in Replies, Close(w, reply)
      PROVE  ClientInv'
  <2>1. /\ sess[w].pc = "close" /\ UNCHANGED tokenVars
        /\ UNCHANGED <<route, stopping, fate, dead>>
        /\ Heard(w, "close", reply)
    BY <1>4 DEF Close
  <2>2. /\ said' \in [Workers ->
                        (Stages \cup {"none"}) \X (Replies \cup {"none"})]
        /\ \A v \in Workers \ {w} : said'[v] = said[v]
        /\ said'[w] = IF reply = "ok" THEN Silent ELSE <<"close", reply>>
    <3>1. "close" \in Stages
      BY DEF Stages
    <3> QED
      BY <1>1, <2>1, <3>1, HeardSays
  <2>3. CASE reply = "ok"
    <3>1. GoTo(w, "quit") /\ SmarthostTakes(w, "heard")
      BY <1>4, <2>3 DEF Close
    <3>2. Moves(w) /\ sess'[w].pc = "quit"
      BY <1>1, <3>1, GoToMoves DEF Stages
    <3> QED
      BY <1>2, <2>1, <2>2, <3>1, <3>2
  <2>4. CASE reply # "ok"
    <3>1. /\ classify(reply) \in {"perm", "temp"}
          /\ classify(reply) = "perm" => reply = "5xx"
      BY DEF classify
    <3>2. /\ Return(w, classify(reply))
          /\ \/ UNCHANGED <<owned, copies, holds>>
             \/ reply = "lost" /\ SmarthostTakes(w, "unheard")
      BY <1>4, <2>4 DEF Close
    <3>3. /\ Moves(w)
          /\ sess'[w].pc = "done" /\ sess'[w].res = classify(reply)
      BY <1>1, <3>1, <3>2, ReturnMoves DEF Results
    <3>4. CASE UNCHANGED <<owned, copies, holds>>
      <4>1. classify(reply) = "perm" => Blamed(w)'
        BY <2>2, <3>1 DEF Blamed
      <4>2. Shape' /\ \A v \in Workers : Client(v)'
        BY <2>1, <2>2, <3>1, <3>3, <3>4, <4>1, PlainStep
      <4> QED
        BY <2>1, <3>3, <4>2, AskingKept DEF ClientInv
    <3>5. CASE reply = "lost" /\ SmarthostTakes(w, "unheard")
      BY <1>2, <2>1, <2>2, <3>1, <3>3, <3>5
    <3> QED
      BY <3>2, <3>4, <3>5
  <2> QED
    BY <2>3, <2>4
<1> QED
  BY <1>3, <1>4

\* The goodbye changes how the result reads, never whether it is delivered.
LEMMA QuitStep ==
  ASSUME ClientInv, NEW w \in Workers, NEW reply \in Replies, Quit(w, reply)
  PROVE  ClientInv'
<1>1. /\ Shape /\ Client(w) /\ sess[w].pc = "quit" /\ Quiet
      /\ UNCHANGED tokenVars
  BY DEF ClientInv, Quit
<1>2. PICK res \in {"partial", "nil", "quit"} : Return(w, res)
  BY DEF Quit
<1>3. Moves(w) /\ sess'[w].pc = "done" /\ sess'[w].res = res
  BY <1>1, <1>2, ReturnMoves DEF Results
<1>4. Shape'
  BY <1>1, <1>3 DEF Shape, Moves, Quiet
<1>5. OnlyAt(w)
  BY <1>1, <1>3 DEF OnlyAt, Moves, Quiet
<1>6. Client(w)'
  BY <1>1, <1>3
     DEF Client, Honest, Offered, Caused, Closed, Delivered, Quiet
<1> QED
  BY <1>1, <1>3, <1>4, <1>5, <1>6, Elsewhere, AskingKept DEF ClientInv

\* The outcome is written down and the worker is free again.
LEMMA SettleStep ==
  ASSUME ClientInv, NEW w \in Workers, Settle(w)
  PROVE  ClientInv'
<1>1. /\ Shape /\ Client(w) /\ sess[w].pc = "done" /\ UNCHANGED tokenVars
      /\ UNCHANGED <<route, stopping, copies>>
      /\ sess' = [sess EXCEPT ![w] = NoSession]
      /\ owned' = [owned EXCEPT ![w] = "no"]
  BY DEF ClientInv, Settle
<1>2. Moves(w) /\ sess'[w] = NoSession
  BY <1>1, Unbegun DEF Shape, Moves
<1>3. PICK outcome \in {"delivered", "queued", "bounced", "expired"} :
        /\ fate' = [fate EXCEPT ![w] = outcome]
        /\ outcome = "delivered" => Delivered(sess[w].res)
        /\ outcome = "bounced" => sess[w].res = "perm"
  BY DEF Settle, Delivered
<1>4. /\ fate' \in [Workers -> {"queued", "delivered", "bounced", "expired"}]
      /\ \A v \in Workers \ {w} : fate'[v] = fate[v]
      /\ fate'[w] = outcome
  BY <1>1, <1>3 DEF Shape
<1>5. CASE outcome \in {"delivered", "bounced"}
  <2>1. UNCHANGED <<holds, dead, said>>
    BY <1>4, <1>5 DEF Settle
  <2>2. Shape'
    BY <1>1, <1>2, <1>4, <2>1 DEF Shape, Moves
  <2>3. OnlyAt(w)
    BY <1>1, <1>2, <1>4, <2>1 DEF OnlyAt, Moves, Shape
  <2>4. Client(w)'
    BY <1>1, <1>2, <1>3, <1>4, <1>5, <2>1, Unbegun
       DEF Client, Honest, Offered, Caused, Closed, Blamed, Shape
  <2> QED
    BY <1>1, <1>2, <2>2, <2>3, <2>4, Elsewhere, AskingKept, Unbegun
       DEF ClientInv
<1>6. CASE outcome \notin {"delivered", "bounced"}
  <2>1. /\ holds' = [holds EXCEPT ![w] = {}]
        /\ dead' = [dead EXCEPT ![w] = {}]
        /\ said' = [said EXCEPT ![w] = Silent]
    BY <1>4, <1>6 DEF Settle
  <2>2. Shape'
    BY <1>1, <1>2, <1>4, <2>1 DEF Shape, Moves, Silent
  <2>3. OnlyAt(w)
    BY <1>1, <1>2, <1>4, <2>1 DEF OnlyAt, Moves, Shape
  <2>4. Client(w)'
    BY <1>1, <1>2, <1>4, <1>6, <2>1, Unbegun
       DEF Client, Honest, Offered, Caused, Closed, Shape
  <2> QED
    BY <1>1, <1>2, <2>2, <2>3, <2>4, Elsewhere, AskingKept, Unbegun
       DEF ClientInv
<1> QED
  BY <1>5, <1>6

\* The world: a stop, the next process and the clock.
LEMMA WorldStep ==
  ASSUME ClientInv, Stop \/ Restart \/ Tick
  PROVE  ClientInv'
<1> USE TokenSourceAssumption
<1>1. /\ UNCHANGED <<route, sess, fate, owned, copies, holds, dead, said>>
      /\ stopping' \in BOOLEAN
  BY DEF ClientInv, Shape, Stop, Restart, Tick, clientVars
<1>2. Shape'
  BY <1>1 DEF ClientInv, Shape
<1>3. \A v \in Workers : Client(v)'
  BY <1>1 DEF ClientInv, Client, Honest, Offered, Caused, Closed, Blamed
<1>4. TokenShape' /\ \A v \in Workers : Asking(v)'
  <2>1. CASE Stop
    BY <1>1, <2>1 DEF ClientInv, TokenShape, Asking, Stop, tokenVars
  <2>2. CASE Tick
    BY <1>1, <2>2 DEF ClientInv, TokenShape, Asking, Tick, TokenTick
  <2>3. CASE Restart
    <3>1. TokenShape'
      <4>1. lastErr' \in BOOLEAN
        BY <2>3 DEF Restart, TokenForget
      <4> QED
        BY <2>3, <4>1 DEF ClientInv, TokenShape, Restart, TokenForget
    <3>2. ASSUME NEW v \in Workers
          PROVE  Asking(v)'
      BY <1>1, <2>3 DEF ClientInv, Asking, Restart, TokenForget
    <3> QED
      BY <3>1, <3>2
  <2> QED
    BY <2>1, <2>2, <2>3
<1> QED
  BY <1>2, <1>3, <1>4 DEF ClientInv

\* What the theorems below rest on: the invariant holds throughout.
THEOREM ClientAlways == Spec => []ClientInv
<1>1. ClientInv /\ [Next]_vars => ClientInv'
  <2> SUFFICES ASSUME ClientInv, [Next]_vars
               PROVE  ClientInv'
    OBVIOUS
  <2>1. ASSUME NEW w \in Workers,
               \/ Begin(w) \/ Dial(w) \/ StartTLS(w) \/ AskToken(w)
               \/ EndFetch(w) \/ Challenge(w) \/ Copy(w) \/ Settle(w)
        PROVE  ClientInv'
    BY <2>1, BeginStep, ConnectStep, TokenStep, BodyStep, SettleStep
  <2>2. ASSUME NEW w \in Workers, NEW reply \in Replies,
               \/ Greet(w, reply) \/ Hello(w, reply) \/ Mail(w, reply)
               \/ Data(w, reply)
        PROVE  ClientInv'
    BY <2>2, ExchangeStep DEF Greet, Hello, Mail, Data
  <2>3. ASSUME NEW w \in Workers, NEW reply \in Replies,
               \/ Sasl(w, reply) \/ NextResponse(w, reply)
               \/ Rcpt(w, reply) \/ Close(w, reply) \/ Quit(w, reply)
        PROVE  ClientInv'
    BY <2>3, SaslStep, RcptStep, BodyStep, QuitStep
  <2>4. CASE Stop \/ Restart \/ Tick
    BY <2>4, WorldStep
  <2>5. CASE UNCHANGED vars
    BY <2>5
       DEF vars, clientVars, tokenVars, ClientInv, Shape, TokenShape,
           Client, Honest, Offered, Caused, Closed, Blamed, Asking
  <2> QED
    BY <2>1, <2>2, <2>3, <2>4, <2>5 DEF Next
<1> QED
  BY <1>1, ClientInit, PTL DEF Spec

\* No recipient is forgotten (offerRecipients, transact, record): of a
\* delivered message every recipient is one the smarthost owns a copy for or
\* one it refused for good, at least one was accepted, and a bounce is never
\* about the relay's own credentials.
THEOREM NobodyForgotten == Spec => []RecipientsSettled
<1>1. ClientInv => RecipientsSettled
  BY DEF ClientInv, Client, Caused, Closed, Blamed, RecipientsSettled,
         Everyone
<1> QED
  BY <1>1, ClientAlways, PTL

-----------------------------------------------------------------------------
(* The refinement of Handoff.                                              *)

\* A step inside an attempt neither begins nor ends one.
Within(w) ==
  /\ \A v \in Workers \ {w} : sess'[v] = sess[v]
  /\ sess[w].pc # "idle" /\ sess'[w].pc # "idle"
  /\ fate' = fate

\* Every exchange with the smarthost is inside an attempt, and hands over
\* nothing but at the final dot.
LEMMA WithinAttempt ==
  ASSUME ClientInv, NEW w \in Workers, NEW reply \in Replies,
         \/ Dial(w) \/ StartTLS(w) \/ AskToken(w) \/ EndFetch(w)
         \/ Challenge(w) \/ Greet(w, reply) \/ Hello(w, reply)
         \/ Sasl(w, reply) \/ NextResponse(w, reply) \/ Mail(w, reply)
         \/ Rcpt(w, reply) \/ Data(w, reply) \/ Quit(w, reply)
         \/ Copy(w) \/ Close(w, reply)
  PROVE  /\ Within(w)
         /\ \/ UNCHANGED <<owned, copies>>
            \/ /\ sess[w].pc \in {"body", "close"}
               /\ SmarthostTakes(w, "heard") \/ SmarthostTakes(w, "unheard")
<1>1. Shape /\ sess[w] \in Sessions /\ authFor # "idle"
  BY AuthChoice DEF ClientInv, Shape
<1>2. fate' = fate /\ sess[w].pc # "idle"
  BY DEF Dial, StartTLS, AskToken, EndFetch, Challenge, Greet, Hello, Sasl,
         NextResponse, Mail, Rcpt, Data, Quit, Copy, Close, Quiet, Exchange
<1>3. \/ UNCHANGED <<owned, copies>>
      \/ /\ sess[w].pc \in {"body", "close"}
         /\ SmarthostTakes(w, "heard") \/ SmarthostTakes(w, "unheard")
  BY DEF Dial, StartTLS, AskToken, EndFetch, Challenge, Greet, Hello, Sasl,
         NextResponse, Mail, Rcpt, Data, Quit, Copy, Close, Quiet, Exchange
<1>4. PICK s : sess' = [sess EXCEPT ![w] = s] /\ s.pc # "idle"
  <2>1. ASSUME NEW pc, pc # "idle", GoTo(w, pc)
        PROVE  \E s : sess' = [sess EXCEPT ![w] = s] /\ s.pc # "idle"
    <3>1. sess' = [sess EXCEPT ![w] = [sess[w] EXCEPT !.pc = pc]]
      BY <2>1 DEF GoTo
    <3>2. [sess[w] EXCEPT !.pc = pc].pc # "idle"
      BY <1>1, <2>1 DEF Sessions
    <3> QED
      BY <3>1, <3>2
  <2>2. ASSUME NEW res, Return(w, res)
        PROVE  \E s : sess' = [sess EXCEPT ![w] = s] /\ s.pc # "idle"
    <3>1. sess' = [sess EXCEPT ![w] = [sess[w] EXCEPT !.pc = "done",
                                                      !.res = res]]
      BY <2>2 DEF Return
    <3>2. [sess[w] EXCEPT !.pc = "done", !.res = res].pc # "idle"
      BY <1>1 DEF Sessions
    <3> QED
      BY <3>1, <3>2
  <2>3. CASE Dial(w)
    BY <1>1, <2>2, <2>3 DEF Dial, Sessions
  <2>4. CASE StartTLS(w)
    BY <1>1, <2>2, <2>4 DEF StartTLS, Sessions
  <2>5. CASE Sasl(w, reply) \/ NextResponse(w, reply)
    BY <1>1, <2>2, <2>5 DEF Sasl, NextResponse, Sessions
  <2>6. CASE Rcpt(w, reply)
    BY <1>1, <2>2, <2>6 DEF Rcpt, AfterRcpt, Sessions
  <2>7. CASE \/ AskToken(w) \/ EndFetch(w) \/ Challenge(w)
             \/ Quit(w, reply) \/ Copy(w) \/ Close(w, reply)
    BY <2>1, <2>2, <2>7
       DEF AskToken, EndFetch, Challenge, Quit, Copy, Close
  <2>8. CASE \/ Greet(w, reply) \/ Hello(w, reply) \/ Mail(w, reply)
             \/ Data(w, reply)
    BY <1>1, <2>1, <2>2, <2>8 DEF Greet, Hello, Mail, Data, Exchange
  <2> QED
    BY <2>3, <2>4, <2>5, <2>6, <2>7, <2>8
<1> QED
  BY <1>1, <1>2, <1>3, <1>4 DEF Within, Shape

\* The smarthost client implements Handoff (transact, send and record): an
\* acceptance the relay has heard is never followed by another attempt or by
\* a bounce, and a bounced message was not handed over.
THEOREM Implements == Spec => HandsOff
<1>1. Init => H!Init
  BY DEF Init, H!Init, NoSession
<1>2. ClientInv /\ [Next]_vars => [H!Next]_H!vars
  <2> SUFFICES ASSUME ClientInv, [Next]_vars
               PROVE  H!Next \/ UNCHANGED H!vars
    OBVIOUS
  <2> DEFINE seen == [w \in Workers |->
                        IF fate[w] = "queued" /\ sess[w].pc # "idle"
                          THEN "trying" ELSE fate[w]]
  <2>1. Shape /\ \A w \in Workers : Client(w)
    BY DEF ClientInv
  <2>2. ASSUME NEW w \in Workers, Begin(w)
        PROVE  H!Start(w)
    <3> DEFINE s == [NoSession EXCEPT !.pc = "dial"]
    <3>1. s.pc = "dial"
      BY Unbegun DEF Sessions
    <3>2. sess' = [sess EXCEPT ![w] = s]
      BY <2>2 DEF Begin
    <3> HIDE DEF s
    <3>3. /\ fate[w] = "queued" /\ sess[w].pc = "idle"
          /\ UNCHANGED <<fate, owned, copies>>
          /\ sess'[w].pc = "dial"
          /\ \A v \in Workers \ {w} : sess'[v] = sess[v]
      BY <2>1, <2>2, <3>1, <3>2 DEF Begin, Shape
    <3>4. seen[w] = "queued" /\ seen' = [seen EXCEPT ![w] = "trying"]
      BY <3>3
    <3> QED
      BY <3>3, <3>4 DEF H!Start
  <2>3. ASSUME NEW w \in Workers, Within(w)
        PROVE  seen' = seen
    BY <2>3 DEF Within
  <2>4. ASSUME NEW w \in Workers, Within(w), UNCHANGED <<owned, copies>>
        PROVE  UNCHANGED H!vars
    BY <2>3, <2>4 DEF H!vars
  <2>5. ASSUME NEW w \in Workers, Within(w), sess[w].pc \in {"body", "close"},
               NEW how \in {"heard", "unheard"}, SmarthostTakes(w, how)
        PROVE  H!Take(w, how)
    <3>1. seen' = seen
      BY <2>3, <2>5
    <3>2. fate[w] = "queued" /\ owned[w] = "no" /\ sess[w].pc # "idle"
      BY <2>1, <2>5 DEF Shape, Client, Honest
    <3>3. seen[w] = "trying"
      BY <3>2
    <3> QED
      BY <2>5, <3>1, <3>2, <3>3 DEF H!Take, SmarthostTakes
  <2>6. ASSUME NEW w \in Workers, Settle(w)
        PROVE  H!Next
    <3>1. /\ sess[w].pc = "done" /\ fate[w] = "queued" /\ copies' = copies
          /\ owned' = [owned EXCEPT ![w] = "no"]
          /\ sess' = [sess EXCEPT ![w] = NoSession]
      BY <2>1, <2>6 DEF Settle, Client, Honest
    <3>2. PICK outcome \in {"delivered", "queued", "bounced", "expired"} :
            /\ fate' = [fate EXCEPT ![w] = outcome]
            /\ outcome = "delivered" <=> Delivered(sess[w].res)
            /\ outcome = "bounced" => sess[w].res = "perm"
      BY <2>6 DEF Settle, Delivered
    <3>3. /\ sess'[w].pc = "idle" /\ fate'[w] = outcome
          /\ \A v \in Workers \ {w} :
               sess'[v] = sess[v] /\ fate'[v] = fate[v]
      BY <2>1, <3>1, <3>2, Unbegun DEF Shape
    <3>4. seen[w] = "trying" /\ seen' = [seen EXCEPT ![w] = outcome]
      BY <3>1, <3>3
    <3>5. H!End(w, outcome)
      BY <3>1, <3>4 DEF H!End
    <3>6. /\ outcome = "delivered" <=> owned[w] = "heard"
          /\ outcome = "bounced" => owned[w] = "no"
      BY <2>1, <3>1, <3>2 DEF Shape, Client, Honest, Delivered
    <3>7. H!Confirm(w) \/ H!Bounce(w) \/ H!GiveUp(w) \/ H!Expire(w)
      BY <3>5, <3>6 DEF H!Confirm, H!Bounce, H!GiveUp, H!Expire
    <3> QED
      BY <3>7 DEF H!Next
  <2>7. ASSUME UNCHANGED <<sess, fate, owned, copies>>
        PROVE  UNCHANGED H!vars
    BY <2>7 DEF H!vars
  <2>8. ASSUME NEW w \in Workers, NEW reply \in Replies,
               \/ Dial(w) \/ StartTLS(w) \/ AskToken(w) \/ EndFetch(w)
               \/ Challenge(w) \/ Greet(w, reply) \/ Hello(w, reply)
               \/ Sasl(w, reply) \/ NextResponse(w, reply) \/ Mail(w, reply)
               \/ Rcpt(w, reply) \/ Data(w, reply) \/ Quit(w, reply)
               \/ Copy(w) \/ Close(w, reply)
        PROVE  H!Next \/ UNCHANGED H!vars
    <3>1. /\ Within(w)
          /\ \/ UNCHANGED <<owned, copies>>
             \/ /\ sess[w].pc \in {"body", "close"}
                /\ SmarthostTakes(w, "heard") \/ SmarthostTakes(w, "unheard")
      BY <2>8, WithinAttempt
    <3>2. \/ UNCHANGED H!vars
          \/ H!Take(w, "heard") \/ H!Take(w, "unheard")
      BY <2>4, <2>5, <3>1
    <3> QED
      BY <3>2 DEF H!Next
  <2>9. ASSUME NEW w \in Workers, Begin(w) PROVE H!Next
    BY <2>2, <2>9 DEF H!Next
  <2>10. ASSUME NEW w \in Workers,
                \/ Dial(w) \/ StartTLS(w) \/ AskToken(w) \/ EndFetch(w)
                \/ Challenge(w) \/ Copy(w)
         PROVE  H!Next \/ UNCHANGED H!vars
    BY <2>8, <2>10 DEF Replies
  <2>11. CASE Stop \/ Restart \/ Tick \/ UNCHANGED vars
    BY <2>7, <2>11 DEF Stop, Restart, Tick, vars, clientVars
  <2> QED
    BY <2>6, <2>8, <2>9, <2>10, <2>11 DEF Next
<1> QED
  BY <1>1, <1>2, ClientAlways, PTL DEF Spec, HandsOff, H!Spec

\* The token source is honest with every worker (Token): nobody is handed a
\* token that has run out or refused while one is valid, and no request
\* begins while the token is fresh or the cooldown still runs.
THEOREM TokensHonest == Spec => TokenHonest
<1> DEFINE leaves(w, pc) == /\ sess[w].pc \in {"token", "fetch"}
                            /\ sess'[w].pc = pc
           Good(w) == /\ leaves(w, "sasl") => now < expires'
                      /\ leaves(w, "done") => expires <= now
                      /\ leaves(w, "fetch") =>
                           /\ expires <= now + Skew
                           /\ failedAt # -1 => now >= failedAt + Cooldown
<1> USE TokenSourceAssumption
<1>1. ASSUME ClientInv, [Next]_vars, NEW w \in Workers
      PROVE  Good(w)
  <2>1. TokenShape /\ Asking(w) /\ Shape
    BY <1>1 DEF ClientInv
  <2>2. CASE sess'[w] = sess[w]
    BY <2>1, <2>2 DEF Asking
  <2>3. CASE AskToken(w)
    <3>1. CASE TokenCached /\ GoTo(w, "sasl")
      <4>1. sess'[w].pc = "sasl" /\ now < expires'
        BY <2>1, <3>1, GoToMoves
           DEF Stages, TokenShape, TokenCached, Fresh, Unexpired, tokenVars
      <4> QED
        BY <4>1
    <3>2. CASE TokenCooling /\ Return(w, "auth")
      <4>1. sess'[w].pc = "done" /\ expires <= now
        BY <2>1, <3>2, ReturnMoves
           DEF Results, TokenShape, TokenCooling, Unexpired
      <4> QED
        BY <4>1
    <3>3. CASE TokenFetch(w) /\ GoTo(w, "fetch")
      <4>1. /\ sess'[w].pc = "fetch" /\ expires <= now + Skew
            /\ failedAt # -1 => now >= failedAt + Cooldown
        BY <2>1, <3>3, GoToMoves
           DEF Stages, TokenShape, TokenFetch, Fresh, CoolingDown
      <4> QED
        BY <4>1
    <3> QED
      BY <2>3, <3>1, <3>2, <3>3 DEF AskToken
  <2>4. CASE EndFetch(w)
    <3>1. CASE /\ FetchFail(w)
               /\ IF Unexpired THEN GoTo(w, "sasl") ELSE Return(w, "auth")
      <4>1. expires' = expires
        BY <3>1 DEF FetchFail
      <4>2. CASE Unexpired
        <5>1. sess'[w].pc = "sasl" /\ now < expires'
          BY <2>1, <3>1, <4>1, <4>2, GoToMoves DEF Stages, Unexpired
        <5> QED
          BY <5>1
      <4>3. CASE ~Unexpired
        <5>1. sess'[w].pc = "done" /\ expires <= now
          BY <2>1, <3>1, <4>3, ReturnMoves
             DEF Results, Unexpired, TokenShape
        <5> QED
          BY <5>1
      <4> QED
        BY <4>2, <4>3
    <3>2. ASSUME NEW life \in Lives, FetchOk(w, life), GoTo(w, "sasl")
          PROVE  Good(w)
      <4>1. sess'[w].pc = "sasl"
        BY <2>1, <3>2, GoToMoves DEF Stages
      <4>2. now < expires'
        BY <2>1, <3>2 DEF FetchOk, TokenShape
      <4> QED
        BY <4>1, <4>2
    <3> QED
      BY <2>4, <3>1, <3>2 DEF EndFetch
  <2>5. CASE sess[w].pc \notin {"token", "fetch"}
    BY <2>5
  <2>6. sess'[w] = sess[w] \/ AskToken(w) \/ EndFetch(w)
          \/ sess[w].pc \notin {"token", "fetch"}
    <3>1. ASSUME NEW v \in Workers,
                 \/ Begin(v) \/ Settle(v)
                 \/ \E reply \in Replies :
                    \/ Dial(v) \/ StartTLS(v) \/ AskToken(v) \/ EndFetch(v)
                    \/ Challenge(v) \/ Greet(v, reply) \/ Hello(v, reply)
                    \/ Sasl(v, reply) \/ NextResponse(v, reply)
                    \/ Mail(v, reply) \/ Rcpt(v, reply) \/ Data(v, reply)
                    \/ Quit(v, reply) \/ Copy(v) \/ Close(v, reply)
          PROVE  v # w => sess'[w] = sess[w]
      <4>1. CASE Begin(v) \/ Settle(v)
        BY <2>1, <4>1 DEF Begin, Settle, Shape
      <4> QED
        BY <1>1, <3>1, <4>1, WithinAttempt DEF Within
    <3>2. ASSUME NEW v \in Workers,
                 \/ Begin(v) \/ Dial(v) \/ StartTLS(v) \/ AskToken(v)
                 \/ EndFetch(v) \/ Challenge(v) \/ Copy(v) \/ Settle(v)
          PROVE  v # w => sess'[w] = sess[w]
      BY <3>1, <3>2 DEF Replies
    <3>3. CASE Stop \/ Restart \/ Tick \/ UNCHANGED vars
      BY <3>3 DEF Stop, Restart, Tick, vars, clientVars
    <3>4. ASSUME NEW reply \in Replies, sess[w].pc \in {"token", "fetch"}
          PROVE  ~ \/ Begin(w) \/ Dial(w) \/ StartTLS(w) \/ Challenge(w)
                   \/ Greet(w, reply) \/ Hello(w, reply) \/ Sasl(w, reply)
                   \/ NextResponse(w, reply) \/ Mail(w, reply)
                   \/ Rcpt(w, reply) \/ Data(w, reply) \/ Quit(w, reply)
                   \/ Copy(w) \/ Close(w, reply) \/ Settle(w)
      BY <3>4 DEF Begin, Dial, StartTLS, Challenge, Greet, Hello, Sasl,
                  NextResponse, Mail, Rcpt, Data, Quit, Copy, Close, Settle,
                  Exchange
    <3>5. "ok" \in Replies
      BY DEF Replies
    <3> QED
      BY <1>1, <3>1, <3>2, <3>3, <3>4, <3>5 DEF Next
  <2> QED
    BY <2>2, <2>3, <2>4, <2>5, <2>6
<1>2. ClientInv /\ [Next]_vars => [\A w \in Workers : Good(w)]_vars
  BY <1>1
<1> QED
  BY <1>2, ClientAlways, PTL DEF Spec, TokenHonest
=============================================================================
