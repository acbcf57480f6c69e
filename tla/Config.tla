------------------------------- MODULE Config -------------------------------
(***************************************************************************)
(* Loading and validating the configuration: internal/config.              *)
(*                                                                         *)
(* A configuration is a record of its sections.  Fields that several       *)
(* checks or several parts of the program relate keep their values; a      *)
(* field only its own check looks at is reduced to what that check tells   *)
(* apart: "" is a text that is empty or not valid, "bad" one that does not *)
(* parse.  Validate runs its section methods in the order of Sections,     *)
(* and three of them leave state behind that later ones read; one step is  *)
(* one section method.  An error text is reduced to the section it is in.  *)
(***************************************************************************)
EXTENDS Router, Rewrite

CONSTANTS
  Kinds,        \* kinds of configurations an operator may write
  Written(_),   \* the configurations of a kind
  MaxWarnDays,  \* maxExpiryWarnDays
  MaxSpoolGB    \* maxSpoolGB, above which the byte count overflows

-----------------------------------------------------------------------------
(* The sections of a file, as it is decoded.                               *)

\* The texts of a file, those Normalize fills in among them.
Texts == STRING \cup {"none", "starttls", "1.2", "off"}

Rewrites ==
  [mode : Texts, envFrom : Mails, allowed : SUBSET Mails,
   headerFrom : [kind : STRING, addr : Mails],
   replyTo : [kind : STRING, addr : Mails]]

Services ==
  [dataDir : STRING, logLevel : STRING, timezone : STRING,
   hostname : Texts, osHostname : Texts, logFile : STRING]

Listeners ==
  [name : STRING, address : STRING, tls : Texts, requireTLS : BOOLEAN,
   minTLS : Texts]

Clients ==
  [name : STRING, cidr : Seq(Prefixes), route : STRING, rewrite : Rewrites,
   maxMB : Int, maxRcpts : Int, limits : Int, notify : SUBSET Mails]

Routes ==
  [name : STRING, default : BOOLEAN, host : BOOLEAN, port : Int,
   tls : Texts, minTLS : Texts, auth : STRING, credentials : BOOLEAN,
   secret : {"none", "unresolved", "resolved"}, caPin : STRING, rate : Int,
   conc : Int, domains : Seq(STRING), sources : Seq(Prefixes)]

Canaries ==
  [name : STRING, recipient : Mails, sender : Mails, route : STRING,
   interval : Int, dailyAt : STRING]

Limits ==
  [maxHops : Int, maxConns : Int, maxMB : Int, maxHeaders : Int,
   maxHeaderBytes : Int, timeouts : Seq(Int), deliveryTimeout : Int,
   spoolGB : Int, warnPercent : Int]

Files ==
  [service : Services, listeners : Seq(Listeners), cert : STRING,
   clients : Seq(Clients), routes : Seq(Routes), canaries : Seq(Canaries),
   queue : [retry : Seq(Int), lifetime : Int, failedRetention : Int],
   web : [enabled : BOOLEAN, address : STRING, theme : BOOLEAN,
          tokens : STRING],
   metrics : [enabled : BOOLEAN, address : STRING, path : BOOLEAN],
   retentionDays : Int, warnDays : Int,
   bounce : [notify : SUBSET Mails, sender : Mails, route : STRING,
             digest : Int, maxPerHour : Int],
   limits : Limits]

ASSUME ConfigAssumption ==
  /\ \A kind \in Kinds : Written(kind) \subseteq Files
  /\ MaxWarnDays \in Nat /\ MaxSpoolGB \in Nat

-----------------------------------------------------------------------------

VARIABLES
  c,            \* the configuration
  section,      \* the section method that runs next
  errs,         \* sections with errors
  needsCert, anyPublic, clientNames, routeNames, defaults  \* validator

validatorVars == <<needsCert, anyPublic, clientNames, routeNames, defaults>>
configVars == <<c, section, errs, validatorVars>>

reservedNames == {"expiry-watch"}

ValidName(name) == name # ""

\* A name is valid and none before it in the list is the same.
FreshName(list, i) ==
  ValidName(list[i].name) /\ \A j \in 1..(i - 1) : list[j].name # list[i].name

TLSVersions == {"1.0", "1.1", "1.2", "1.3"}
ParseTLSVersion(s) == s \in TLSVersions

-----------------------------------------------------------------------------
(* Normalize.                                                              *)

OrElse(v, default) == IF v = "" THEN default ELSE v

NormalTLS(x, default) ==
  LET mode == OrElse(x.tls, default) IN
  [x EXCEPT !.tls = mode,
            !.minTLS = IF mode # "none" THEN OrElse(@, "1.2") ELSE @]

Normalize(f) ==
  [f EXCEPT
    !.service.hostname = OrElse(@, f.service.osHostname),
    !.listeners = [i \in DOMAIN @ |-> NormalTLS(f.listeners[i], "none")],
    !.clients = [i \in DOMAIN @ |->
                   [f.clients[i] EXCEPT !.rewrite.mode = OrElse(@, "off"),
                                        !.maxRcpts = IF @ = 0 THEN 100
                                                              ELSE @]],
    !.routes = [i \in DOMAIN @ |->
                  [NormalTLS(f.routes[i], "starttls") EXCEPT
                     !.port = IF @ = 0 THEN 587 ELSE @,
                     !.conc = IF @ <= 0 THEN 4 ELSE @]],
    !.limits.timeouts = [i \in DOMAIN @ |->
                           IF f.limits.timeouts[i] <= 0 THEN 60
                                                 ELSE f.limits.timeouts[i]]]

\* The file as Load has decoded it.
ConfigInit ==
  /\ \E kind \in Kinds : c \in Written(kind)
  /\ section = 0 /\ errs = {}
  /\ needsCert = FALSE /\ anyPublic = FALSE
  /\ clientNames = {} /\ routeNames = {} /\ defaults = 0

-----------------------------------------------------------------------------
(* The section methods.                                                    *)

\* Mutant: the canaries are checked before the clients are known.
Sections_ClientsLate ==
  <<"service", "listeners", "tls", "routes", "canaries", "clients",
    "clientRoutes", "queue", "web", "metrics", "history", "bounce",
    "limits">>

Sections ==
  <<"service", "listeners", "tls", "clients", "routes", "clientRoutes",
    "queue", "web", "metrics", "history", "bounce", "canaries", "limits">>

\* The section method of this name runs, and reports unless ok.
Check(name, ok) ==
  /\ section \in DOMAIN Sections /\ Sections[section] = name
  /\ section' = section + 1
  /\ errs' = IF ok THEN errs ELSE errs \cup {name}
  /\ UNCHANGED c

\* An empty reference is no secret; a literal, an unset variable and a file
\* that is empty, missing or open to others are "unresolved".
resolve(ref) == ref # "unresolved"

\* Load: a secret that cannot be resolved ends it; otherwise newValidator
\* normalizes before any check reads a value.
LoadConfig ==
  /\ section = 0
  /\ IF \E i \in DOMAIN c.routes : ~resolve(c.routes[i].secret)
       THEN /\ errs' = {"secrets"} /\ section' = Len(Sections) + 1
            /\ UNCHANGED c
       ELSE /\ c' = Normalize(c) /\ section' = 1
            /\ UNCHANGED errs
  /\ UNCHANGED validatorVars

serviceOK ==
  /\ c.service.dataDir = "absolute"
  /\ c.service.logLevel # "bad" /\ c.service.timezone # "bad"
  /\ c.service.hostname \notin {"", "unsafe"}
  /\ c.service.logFile # "outside"

service == Check("service", serviceOK) /\ UNCHANGED validatorVars

listenersOK ==
  LET L == c.listeners IN
  /\ L # <<>>
  /\ \A i \in DOMAIN L :
       /\ FreshName(L, i)
       /\ L[i].address # "bad"
       /\ L[i].tls \in {"none", "starttls", "implicit"}
       /\ L[i].requireTLS => L[i].tls # "none"
       /\ L[i].minTLS # "" => ParseTLSVersion(L[i].minTLS)

OffersTLS == \E i \in DOMAIN c.listeners : c.listeners[i].tls # "none"

listeners ==
  /\ Check("listeners", listenersOK)
  /\ anyPublic' = \E i \in DOMAIN c.listeners :
                    c.listeners[i].address = "public"
  /\ needsCert' = OffersTLS
  /\ UNCHANGED <<clientNames, routeNames, defaults>>

tlsOK == needsCert => c.cert = "ok"

tls == Check("tls", tlsOK) /\ UNCHANGED validatorVars

\* One client's rewrite block.
clientRewrite(r) ==
  /\ \/ r.mode = "off"
     \/ /\ r.mode \in {"force", "if_unauthorized"}
        /\ ValidAddress(r.envFrom)
        /\ r.mode = "if_unauthorized" => r.allowed # {}
        /\ \/ r.headerFrom.kind \in {"empty", "keep"}
           \/ /\ SplitMailbox(r.headerFrom)
              /\ DomainOf(r.headerFrom.addr) = DomainOf(r.envFrom)
  /\ \A p \in r.allowed : ValidSenderPattern(p)
  /\ ParseReplyTo(r.replyTo)

\* Networks parse, have no host bits set and do not overlap an earlier one.
Networks(nets) ==
  /\ \A p \in Places(nets) :
       Parses(Entry(nets, p)) /\ Masked(Entry(nets, p))
  /\ Disjoint(nets)

clientsOK ==
  LET C == c.clients IN
  /\ C # <<>>
  /\ Networks(CidrOf(C))
  /\ \A i \in DOMAIN C :
       /\ FreshName(C, i) /\ C[i].name \notin reservedNames
       /\ C[i].cidr # <<>>
       /\ clientRewrite(C[i].rewrite)
       /\ C[i].maxMB >= 0 /\ C[i].maxRcpts >= 0 /\ C[i].limits >= 0

clients ==
  /\ Check("clients", clientsOK)
  /\ clientNames' = {c.clients[i].name : i \in DOMAIN c.clients}
  /\ UNCHANGED <<needsCert, anyPublic, routeNames, defaults>>

\* What a cleartext route may not have, and the version floor of the others.
routeTLS(r) ==
  \/ /\ r.tls = "none"
     /\ r.minTLS = "" /\ r.caPin = ""
     /\ r.auth \in {"", "none"}
  \/ r.tls \in {"starttls", "implicit"} /\ r.minTLS \in {"1.2", "1.3"}

\* The mechanism is named and its credentials are complete and well formed.
routeAuth(r) ==
  \/ r.auth = "none"
  \/ /\ r.auth \in {"plain", "login", "xoauth2"}
     /\ r.credentials /\ r.secret # "none"

routeCAPin(r) == r.caPin # "bad"

\* A domain is valid and no other route has claimed it.
routeDomains(lists) ==
  /\ \A p \in Places(lists) : Entry(lists, p) # ""
  /\ \A p, q \in Places(lists) :
       Before(p, q) => Entry(lists, p) # Entry(lists, q)

Defaults(R) == {i \in DOMAIN R : R[i].default}

routesOK ==
  LET R == c.routes IN
  /\ R # <<>> /\ Cardinality(Defaults(R)) <= 1
  /\ routeDomains(DomainsOf(R))
  /\ Networks(SourcesOf(R))
  /\ \A i \in DOMAIN R :
       /\ FreshName(R, i) /\ R[i].host
       /\ R[i].port >= 1 /\ R[i].port <= 65535
       /\ routeTLS(R[i]) /\ routeAuth(R[i])
       /\ routeCAPin(R[i]) /\ R[i].rate >= 0

routes ==
  /\ Check("routes", routesOK)
  /\ routeNames' = {c.routes[i].name : i \in DOMAIN c.routes}
  /\ defaults' = Cardinality(Defaults(c.routes))
  /\ UNCHANGED <<needsCert, anyPublic, clientNames>>

clientRoutesOK ==
  \A i \in DOMAIN c.clients :
    IF c.clients[i].route = "" THEN defaults > 0
                               ELSE c.clients[i].route \in routeNames

clientRoutes ==
  Check("clientRoutes", clientRoutesOK) /\ UNCHANGED validatorVars

queueOK ==
  /\ c.queue.retry # <<>>
  /\ \A i \in DOMAIN c.queue.retry : c.queue.retry[i] > 0
  /\ c.queue.lifetime > 0 /\ c.queue.failedRetention >= 0

queue == Check("queue", queueOK) /\ UNCHANGED validatorVars

\* The dashboard has no authentication of its own, so it stays on loopback.
webOK ==
  /\ c.web.enabled => c.web.address = "loopback"
  /\ c.web.theme /\ c.web.tokens # "bad"

web == Check("web", webOK) /\ UNCHANGED validatorVars

\* HasReadableToken: an admin token can read too.
HasReadableToken == c.web.tokens \in {"read", "admin"}

metricsOK ==
  c.metrics.enabled =>
    /\ c.metrics.path
    /\ \/ c.metrics.address = "loopback"
       \/ /\ c.metrics.address = "public"
          /\ HasReadableToken /\ c.cert # "absent"

metrics == Check("metrics", metricsOK) /\ UNCHANGED validatorVars

historyOK == c.retentionDays > 0 /\ c.warnDays \in 0..MaxWarnDays

history == Check("history", historyOK) /\ UNCHANGED validatorVars

\* The lists a digest may go to.
NotifyLists ==
  {c.clients[i].notify : i \in DOMAIN c.clients} \cup {c.bounce.notify}

bounceOK ==
  /\ \A to \in NotifyLists : \A a \in to : ValidAddress(a)
  /\ NotifyLists # {{}} =>
       /\ ValidAddress(c.bounce.sender)
       /\ c.bounce.digest > 0 /\ c.bounce.maxPerHour > 0
       /\ c.bounce.route \in routeNames

bounce == Check("bounce", bounceOK) /\ UNCHANGED validatorVars

\* Exactly one schedule.
Scheduled(cn) ==
  \/ cn.interval > 0 /\ cn.dailyAt = "none"
  \/ cn.interval = 0 /\ cn.dailyAt = "ok"

canariesOK ==
  LET K == c.canaries IN
  /\ K # <<>> => c.bounce.notify # {}
  /\ \A i \in DOMAIN K :
       /\ FreshName(K, i)
       /\ K[i].name \notin reservedNames \cup clientNames
       /\ ValidAddress(K[i].recipient) /\ ValidAddress(K[i].sender)
       /\ K[i].route \in routeNames
       /\ Scheduled(K[i])

canaries == Check("canaries", canariesOK) /\ UNCHANGED validatorVars

limitsOK ==
  LET L == c.limits IN
  /\ L.maxHops > 0 /\ L.maxConns > 0 /\ L.maxMB > 0
  /\ L.maxHeaders > 0 /\ L.maxHeaderBytes > 0
  /\ L.deliveryTimeout > 0
  /\ L.deliveryTimeout >= L.maxMB + 30
  /\ L.spoolGB \in 0..MaxSpoolGB /\ L.warnPercent \in 0..100
  /\ \A i \in DOMAIN c.clients : c.clients[i].maxMB <= L.maxMB

limits == Check("limits", limitsOK) /\ UNCHANGED validatorVars

ConfigNext ==
  \/ LoadConfig
  \/ service \/ listeners \/ tls \/ clients \/ routes \/ clientRoutes
  \/ queue \/ web \/ metrics \/ history \/ bounce \/ canaries \/ limits

\* Validate has run; an accepted configuration reported nothing.
Validated == section > Len(Sections)
Accepted == Validated /\ errs = {}

=============================================================================
