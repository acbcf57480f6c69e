------------------------------- MODULE Policy -------------------------------
(***************************************************************************)
(* What a configuration means for a message: the validator of Config, the  *)
(* lookup tables built from what it accepted, and the two decisions they   *)
(* make about a message, its routes and its sender.                        *)
(*                                                                         *)
(* The validator and the packages that use a configuration are written     *)
(* apart and each repeat or assume the other's rules; the properties say   *)
(* that they agree.                                                        *)
(***************************************************************************)
EXTENDS Config

CONSTANTS
  Envelopes,   \* MAIL FROM addresses of messages, NoMail among them
  RcptLists,   \* recipient lists of messages
  Blocks       \* header blocks of messages

\* DATA needs a recipient.
ASSUME PolicyAssumption ==
  /\ Envelopes \subseteq Mails
  /\ RcptLists \subseteq Seq(Mails) \ {<<>>}
  /\ Blocks \subseteq
       Seq([name : STRING, value : [kind : STRING, addr : Mails]])

VARIABLES
  built,     \* "no", "yes" or "refused"
  routing,   \* the message being routed
  rewriting  \* the message whose sender was decided about

policyVars == <<configVars, built, routing, rewriting>>

Nothing == [op |-> "none"]

PolicyInit ==
  ConfigInit /\ built = "no" /\ routing = Nothing /\ rewriting = Nothing

\* loadCertificate: a pair the file names has to load, whoever needs it.
PairLoads == c.cert # "broken"

\* serve: the certificate is loaded, and the router, the matcher and the
\* rewrite rules are built from the accepted configuration; each may refuse.
Build ==
  /\ Accepted /\ built = "no"
  /\ built' = IF /\ PairLoads
                 /\ New(c.routes)
                 /\ \A p \in Places(CidrOf(c.clients)) :
                      Parses(Entry(CidrOf(c.clients), p))
                 /\ \A i \in DOMAIN c.clients : Compile(c.clients[i].rewrite)
                THEN "yes" ELSE "refused"
  /\ UNCHANGED <<configVars, routing, rewriting>>

Ready == built = "yes" /\ routing = Nothing /\ rewriting = Nothing

\* A connection is matched to its client; a miss is denied.  The message it
\* sends is split by route.
RouteMessage(peer, rcpts) ==
  /\ Ready
  /\ LET m == Match(c.clients, peer) IN
     routing' = [op |-> IF m.owner = 0 THEN "denied" ELSE "split",
                 peer |-> peer, rcpts |-> rcpts, client |-> m.owner,
                 bits |-> m.bits, next |-> 1, groups |-> <<>>]
  /\ UNCHANGED <<configVars, built, rewriting>>

\* One turn of the loop of Split, for the next recipient in the order they
\* were accepted; one without a route refuses the whole message.
Split ==
  /\ routing.op = "split" /\ routing.next \in DOMAIN routing.rcpts
  /\ LET to == Resolve(c.routes, routing.rcpts[routing.next], routing.peer,
                       c.clients[routing.client].route, routing.bits) IN
     routing' = IF to = None
                  THEN [routing EXCEPT !.op = "refused", !.groups = <<>>]
                  ELSE [routing EXCEPT
                          !.groups = Join(@, to, routing.next),
                          !.next = @ + 1]
  /\ UNCHANGED <<configVars, built, rewriting>>

\* The rules of a client are applied to a message of it.
RewriteMessage(i, envelope, headers) ==
  /\ Ready
  /\ rewriting' = [op |-> "rewrite", rules |-> c.clients[i].rewrite,
                   envelope |-> envelope, headers |-> headers,
                   res |-> Apply(c.clients[i].rewrite, envelope, headers)]
  /\ UNCHANGED <<configVars, built, routing>>

PolicyNext ==
  \/ ConfigNext /\ UNCHANGED <<built, routing, rewriting>>
  \/ Build
  \/ \E peer \in Peers, rcpts \in RcptLists : RouteMessage(peer, rcpts)
  \/ Split
  \/ \E i \in DOMAIN c.clients, e \in Envelopes, h \in Blocks :
       c.clients[i].rewrite.mode # "off" /\ RewriteMessage(i, e, h)

PolicySpec == PolicyInit /\ [][PolicyNext]_policyVars

-----------------------------------------------------------------------------
(* What the other parts of the program take for granted.                   *)

\* recipientsFor of the notifier.
recipientsFor(origin) ==
  LET own == {i \in DOMAIN c.clients :
                c.clients[i].name = origin /\ c.clients[i].notify # {}} IN
  IF own = {} THEN c.bounce.notify ELSE c.clients[Min(own)].notify

RouteNamed(name) == \E r \in Range(c.routes) : r.name = name

\* A digest for this origin can be composed and queued.
CanTell(origin) ==
  recipientsFor(origin) # {} =>
    /\ ValidAddress(c.bounce.sender) /\ RouteNamed(c.bounce.route)
    /\ c.bounce.digest > 0 /\ c.bounce.maxPerHour > 0

\* The largest message a client may send, as the session computes it.
maxBytes(cl) == IF cl.maxMB > 0 /\ cl.maxMB < c.limits.maxMB
                  THEN cl.maxMB ELSE c.limits.maxMB

\* An accepted configuration is one every part can run with, but for one the
\* service does not start with, a broken certificate pair that no listener
\* uses: the tables are built without any other refusal; an address belongs
\* to one client at most; every route is one the smarthost client can open a
\* session for, credentials only under TLS; a listener offering TLS has its
\* certificate; a canary and the expiry watcher report to the global list and
\* to nobody's override, and there is somebody to hear a canary; every digest
\* has a sender and a route; the attempt's budget carries the largest message
\* any client may send; and the retry schedule always moves on.
AcceptedIsUsable ==
  Accepted =>
    /\ built = "refused" =>
         c.cert = "broken" /\ \A l \in Range(c.listeners) : l.tls = "none"
    /\ \A a \in Addresses : \A i, j \in DOMAIN c.clients :
         /\ \E p \in Range(c.clients[i].cidr) : Holds(p, a)
         /\ \E p \in Range(c.clients[j].cidr) : Holds(p, a)
         => i = j
    /\ \A r \in Range(c.routes) :
         /\ r.tls \in {"none", "starttls", "implicit"}
         /\ r.auth # "none" => r.tls # "none" /\ r.secret = "resolved"
         /\ r.tls # "none" => r.minTLS \in {"1.2", "1.3"}
         /\ r.conc > 0
    /\ \A l \in Range(c.listeners) :
         (l.tls # "none" \/ l.requireTLS) => c.cert = "ok" /\ l.tls # "none"
    /\ \A k \in Range(c.canaries) :
         /\ recipientsFor(k.name) = c.bounce.notify
         /\ recipientsFor(k.name) # {} /\ RouteNamed(k.route)
    /\ recipientsFor("expiry-watch") = c.bounce.notify
    /\ \A o \in {x.name : x \in Range(c.clients) \cup Range(c.canaries)} :
         CanTell(o)
    /\ \A cl \in Range(c.clients) :
         /\ maxBytes(cl) > 0
         /\ c.limits.deliveryTimeout >= maxBytes(cl) + 30
    /\ c.queue.retry # <<>> /\ \A m \in Range(c.queue.retry) : m > 0

Groups == routing.groups

\* The networks of a route that a message from here falls into, and that are
\* entitled to it: the client names no route, or a wider network.
Entitled(x) ==
  {j \in DOMAIN c.routes[x].sources :
     /\ Holds(c.routes[x].sources[j], routing.peer.addr)
     /\ \/ c.clients[routing.client].route = ""
        \/ c.routes[x].sources[j].bits > routing.bits}

\* The precedence of the code: a domain rule, a source network, the client's
\* route, the default.
MayCarry(x, rcpt) ==
  LET own == c.clients[routing.client].route
      claimed == \E y \in DOMAIN c.routes :
                   DomainOf(rcpt) \in Range(c.routes[y].domains)
      entitled == \E y \in DOMAIN c.routes : Entitled(y) # {} IN
  IF claimed THEN DomainOf(rcpt) \in Range(c.routes[x].domains)
  ELSE IF entitled THEN Entitled(x) # {}
  ELSE IF own # "" THEN c.routes[x].name = own
  ELSE c.routes[x].default

\* Routing under an accepted configuration (Match, Resolve and Split): a
\* peer, mapped or not, is denied only when no client has its address, and
\* else served for the one that does, with the prefix length of its network;
\* no message is refused for want of a route; when all recipients have been
\* through the loop each is in exactly one group, no two groups go to the
\* same route, the order of acceptance is kept within a group, and the route
\* of a group is one that may carry each of its recipients under one rule
\* for the whole message.  The rule is the code's, under which a source
\* network of any width takes what comes from a client without a route; the
\* documents grant that to a network narrower than the client's only.
RoutedByRule ==
  routing # Nothing =>
    LET holds(i, j) == Holds(c.clients[i].cidr[j], routing.peer.addr) IN
    /\ routing.op # "refused"
    /\ IF routing.op = "denied"
         THEN \A i \in DOMAIN c.clients :
                \A j \in DOMAIN c.clients[i].cidr : ~holds(i, j)
         ELSE \E j \in DOMAIN c.clients[routing.client].cidr :
                /\ holds(routing.client, j)
                /\ c.clients[routing.client].cidr[j].bits = routing.bits
    /\ routing.op = "split" /\ routing.next > Len(routing.rcpts) =>
         /\ Groups # <<>>
         /\ \A k \in DOMAIN routing.rcpts :
              \E g \in DOMAIN Groups :
                /\ k \in Range(Groups[g].rcpts)
                /\ \A h \in DOMAIN Groups :
                     k \in Range(Groups[h].rcpts) => g = h
         /\ \A g, h \in DOMAIN Groups :
              Groups[g].route = Groups[h].route => g = h
         /\ \A g \in DOMAIN Groups :
              /\ \A m, n \in DOMAIN Groups[g].rcpts :
                   m < n => Groups[g].rcpts[m] < Groups[g].rcpts[n]
              /\ \E x \in DOMAIN c.routes :
                   /\ c.routes[x].name = Groups[g].route
                   /\ \A k \in Range(Groups[g].rcpts) :
                        MayCarry(x, routing.rcpts[k])

\* Rewriting under an accepted configuration (Apply): what is rewritten has
\* one From, in the domain of its envelope sender, and still names the From
\* it had; answers go where the policy fixes them, or else still reach the
\* address the client gave, if that may stand in a header; and what is not
\* rewritten is a bounce, or was authorized, and is not touched.
RewriteHonest ==
  rewriting # Nothing /\ rewriting.res.ok =>
    LET r == rewriting.rules
        new == rewriting.res.headers
        orig == value(rewriting.headers, "from")
        sender == IF ValidAddress(orig.addr) THEN orig.addr
                  ELSE rewriting.envelope
        answers == IF has(new, "reply-to") THEN value(new, "reply-to").addr
                   ELSE value(new, "from").addr IN
    IF rewriting.res.rewritten
      THEN /\ rewriting.res.envFrom = r.envFrom
           /\ count(new, "from") = 1
           /\ DomainOf(value(new, "from").addr) = DomainOf(r.envFrom)
           /\ orig.kind # "empty" =>
                orig \in {value(new, "from"), value(new, "x-original-from")}
           /\ value(new, "from") # orig =>
                CASE r.replyTo.kind = "drop" -> ~has(new, "reply-to")
                  [] r.replyTo.kind = "fixed" -> answers = r.replyTo.addr
                  [] OTHER ->
                       \/ has(rewriting.headers, "reply-to")
                            /\ answers = value(rewriting.headers,
                                               "reply-to").addr
                       \/ answers = sender
                       \/ sender = r.envFrom
                       \/ ~ValidAddress(sender)
      ELSE /\ new = rewriting.headers
           /\ rewriting.res.envFrom = rewriting.envelope
           /\ rewriting.envelope # NoMail =>
                /\ r.mode = "if_unauthorized"
                /\ \E p \in r.allowed :
                     /\ p.domain = rewriting.envelope.domain
                     /\ p.local \in {"*", rewriting.envelope.local}

=============================================================================
