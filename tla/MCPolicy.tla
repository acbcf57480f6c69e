------------------------------ MODULE MCPolicy ------------------------------
(* The configurations and messages of MCPolicy.cfg.  Each family varies    *)
(* what its checks relate, from one configuration that is accepted.        *)
EXTENDS Policy

Mail(l, d) == [local |-> l, domain |-> d]
Net(bits, high, low) == [bits |-> bits, base |-> <<high, low>>]
Off == [mode |-> "off", envFrom |-> NoMail, allowed |-> {},
        headerFrom |-> Text("empty"),
        replyTo |-> [kind |-> "preserve", addr |-> NoMail]]

AClient == [name |-> "A", cidr |-> <<Net(1, 0, 0)>>, route |-> "",
            rewrite |-> Off, maxMB |-> 0, maxRcpts |-> 0, limits |-> 0,
            notify |-> {}]
ARoute == [name |-> "R", default |-> TRUE, host |-> TRUE, port |-> 0,
           tls |-> "", minTLS |-> "", auth |-> "none", credentials |-> FALSE,
           secret |-> "none", caPin |-> "", rate |-> 0, conc |-> 0,
           domains |-> <<>>, sources |-> <<>>]
ACanary == [name |-> "K", recipient |-> Mail("k", "x"),
            sender |-> Mail("s", "x"), route |-> "R", interval |-> 5,
            dailyAt |-> "none"]

Base ==
  [service |-> [dataDir |-> "absolute", logLevel |-> "", timezone |-> "",
                hostname |-> "", osHostname |-> "host", logFile |-> "inside"],
   listeners |-> <<[name |-> "smtp", address |-> "public", tls |-> "",
                    requireTLS |-> FALSE, minTLS |-> ""]>>,
   cert |-> "absent",
   clients |-> <<AClient>>, routes |-> <<ARoute>>, canaries |-> <<>>,
   queue |-> [retry |-> <<1, 5>>, lifetime |-> 96, failedRetention |-> 168],
   web |-> [enabled |-> FALSE, address |-> "loopback", theme |-> TRUE,
            tokens |-> "none"],
   metrics |-> [enabled |-> FALSE, address |-> "loopback", path |-> TRUE],
   retentionDays |-> 90, warnDays |-> 30,
   bounce |-> [notify |-> {}, sender |-> NoMail, route |-> "", digest |-> 15,
               maxPerHour |-> 12],
   limits |-> [maxHops |-> 25, maxConns |-> 200, maxMB |-> 50,
               maxHeaders |-> 200, maxHeaderBytes |-> 262144,
               timeouts |-> <<60, 60, 300>>, deliveryTimeout |-> 600,
               spoolGB |-> 10, warnPercent |-> 80]]

Ops == {Mail("ops", "x")}
Desk == {Mail("desk", "x")}

\* Names and references between clients, routes, canaries and the digest.
NamedClients ==
  {[AClient EXCEPT !.name = n, !.route = r, !.notify = t] :
     n \in {"A", "K", "expiry-watch"}, r \in {"", "S"}, t \in {{}, Desk}}
NamedRoutes ==
  {[ARoute EXCEPT !.name = n, !.default = d] :
     n \in {"R", "S"}, d \in BOOLEAN}
NamedCanaries ==
  {[ACanary EXCEPT !.name = n, !.route = r, !.dailyAt = d] :
     n \in {"K", "expiry-watch"}, r \in {"R", "T"}, d \in {"none", "ok"}}
References ==
  {[Base EXCEPT !.clients = cs, !.routes = rs, !.canaries = ks,
                !.bounce = [@ EXCEPT !.notify = t, !.route = b,
                                     !.sender = Mail("s", "x")]] :
     cs \in {<<x>> : x \in NamedClients} \cup
            {<<AClient, [x EXCEPT !.cidr = <<Net(2, 1, 1)>>]>> :
               x \in NamedClients},
     rs \in {<<>>} \cup {<<x>> : x \in NamedRoutes} \cup
            {<<ARoute, x>> : x \in NamedRoutes},
     ks \in {<<>>} \cup {<<x>> : x \in NamedCanaries},
     t \in {{}, Ops}, b \in {"R", ""}}

\* Networks and domains that compete for a message.
Nets == {Net(0, 0, 0), Net(1, 0, 0), Net(2, 0, 1), Net(1, 0, 1),
         Net(-1, 0, 0)}
Lists == {<<>>} \cup {<<p>> : p \in Nets}
Networked ==
  {[Base EXCEPT
      !.clients = <<[AClient EXCEPT !.cidr = n1, !.route = r],
                    [AClient EXCEPT !.name = "B", !.cidr = n2]>>,
      !.routes = <<[ARoute EXCEPT !.sources = s1, !.domains = d1],
                   [ARoute EXCEPT !.name = "S", !.default = FALSE,
                                  !.sources = s2, !.domains = d2]>>] :
     n1 \in Lists,
     n2 \in {<<Net(2, 0, 1)>>, <<Net(2, 1, 0), Net(2, 1, 1)>>},
     r \in {"", "R", "S"}, s1 \in Lists,
     s2 \in Lists, d1 \in {<<>>, <<"x">>}, d2 \in {<<>>, <<"x">>, <<"y">>}}

\* Transport security of listeners and routes.
Secured ==
  {[Base EXCEPT !.listeners = <<[@[1] EXCEPT !.tls = lt, !.requireTLS = q]>>,
                !.cert = cert] :
     lt \in {"", "starttls", "bad"}, q \in BOOLEAN,
     cert \in {"absent", "broken", "ok"}}
  \cup
  {[Base EXCEPT !.routes[1] =
      [@ EXCEPT !.tls = rt, !.minTLS = v, !.auth = a, !.credentials = k,
                !.secret = s, !.caPin = p]] :
     rt \in {"", "none", "implicit", "bad"}, v \in {"", "1.1", "1.3"},
     a \in {"", "none", "plain", "xoauth2"}, k \in BOOLEAN,
     s \in {"none", "unresolved", "resolved"}, p \in {"", "ok", "bad"}}

\* Rewrite blocks.
Rewriting ==
  {[Base EXCEPT !.clients[1].rewrite =
      [mode |-> m, envFrom |-> e, allowed |-> a, headerFrom |-> h,
       replyTo |-> t]] :
     m \in {"", "force", "if_unauthorized", "bad"},
     e \in {NoMail, Mail("relay", "x")},
     a \in {{}, {Mail("*", "y")}, {Mail("u", "x"), NoMail},
            {Mail("u", "x")}},
     h \in {Text("empty"), Text("keep"), Mailbox(Mail("desk", "x")),
            Mailbox(Mail("desk", "y")), Mailbox(NoMail)},
     t \in {[kind |-> "preserve", addr |-> NoMail],
            [kind |-> "drop", addr |-> NoMail],
            [kind |-> "fixed", addr |-> Mail("f", "y")],
            [kind |-> "fixed", addr |-> NoMail]}}

\* Numbers at their limits, and the sections only their own check reads.
Numbers ==
  {[Base EXCEPT !.clients[1].maxMB = m, !.limits.maxMB = g,
                !.limits.deliveryTimeout = d, !.queue.retry = q,
                !.limits.spoolGB = s, !.limits.timeouts = <<0, -1, 5>>] :
     m \in {-1, 0, 10, 60}, g \in {0, 50}, d \in {0, 79, 80},
     q \in {<<>>, <<0>>, <<1, 5>>}, s \in {-1, 0, 11}}
  \cup
  {[Base EXCEPT !.service.dataDir = d, !.service.osHostname = h,
                !.service.logFile = l, !.warnDays = w] :
     d \in {"", "relative", "absolute"}, h \in {"", "host"},
     l \in {"inside", "outside"}, w \in {0, 30, 31}}
  \cup
  {[Base EXCEPT !.web.enabled = e, !.web.address = a, !.web.tokens = t,
                !.cert = k,
                !.metrics = [enabled |-> e, address |-> m, path |-> TRUE]] :
     e \in BOOLEAN, a \in {"bad", "loopback", "public"},
     t \in {"none", "read", "admin", "bad"},
     m \in {"bad", "loopback", "public"}, k \in {"absent", "ok"}}

MCKinds == {"references", "networks", "security", "rewriting", "numbers"}
MCWritten(kind) ==
  CASE kind = "references" -> References
    [] kind = "networks" -> Networked
    [] kind = "security" -> Secured
    [] kind = "rewriting" -> Rewriting
    [] kind = "numbers" -> Numbers

MCEnvelopes == {NoMail, Mail("u", "x"), Mail("v", "y"), Mail("relay", "x"),
                Mail("quoted", "y")}

MCRcptLists ==
  {<<Mail("a", "x")>>, <<Mail("a", "x"), Mail("b", "y"), Mail("c", "x")>>,
   <<Mail("b", "y"), Mail("d", "z")>>}

Froms == {Mailbox(Mail("u", "x")), Mailbox(Mail("v", "y")),
          Mailbox(Mail("relay", "x")), Mailbox(Mail("quoted", "y")),
          Text("opaque"), Text("long"), Text("unsafe"), Text("empty")}
MCBlocks ==
  {<<Field("other", Text("opaque"))>>,
   <<Field("from", Text("opaque")), Field("from", Text("opaque"))>>}
  \cup {<<Field("from", f)>> : f \in Froms}
  \cup {<<Field("reply-to", Mailbox(Mail("w", "y"))), Field("from", f),
          Field("reply-to", Mailbox(Mail("u", "x"))),
          Field("x-original-from", Text("opaque"))>> : f \in Froms}

=============================================================================
