------------------------------- MODULE Router -------------------------------
(***************************************************************************)
(* Route selection: internal/router, and the client matcher it competes    *)
(* with.                                                                   *)
(*                                                                         *)
(* Clients and routes each have lists of networks or domains.  An entry is *)
(* named by its place, <<whose list, which entry>>, and the loops over all *)
(* entries visit the places in file order.                                 *)
(***************************************************************************)
EXTENDS Addressing

Places(lists) == UNION {{i} \X DOMAIN lists[i] : i \in DOMAIN lists}

Entry(lists, p) == lists[p[1]][p[2]]

Before(p, q) == p[1] < q[1] \/ (p[1] = q[1] /\ p[2] < q[2])

SourcesOf(routes) == [i \in DOMAIN routes |-> routes[i].sources]
CidrOf(clients) == [i \in DOMAIN clients |-> clients[i].cidr]
DomainsOf(routes) == [i \in DOMAIN routes |-> routes[i].domains]

\* No network overlaps an earlier one.
Disjoint(nets) ==
  \A p, q \in Places(nets) :
    Before(p, q) => ~Overlaps(Entry(nets, p), Entry(nets, q))

Hits(nets, peer) == {p \in Places(nets) : Contains(Entry(nets, p), peer)}

\* The longest prefix that contains peer, first one on a tie; owner 0 when
\* there is none.  The loop of Match and of matchSource.
Longest(nets, peer) ==
  LET bits(p) == Entry(nets, p).bits
      hits == Hits(nets, peer)
      best == CHOOSE p \in hits :
                \A q \in hits : \/ bits(p) > bits(q)
                                \/ bits(p) = bits(q) /\ ~Before(q, p) IN
  IF hits = {} THEN [owner |-> 0, bits |-> -1]
               ELSE [owner |-> best[1], bits |-> bits(best)]

\* Match: the client that owns an address, and the prefix length.
Match(clients, peer) == Longest(CidrOf(clients), Unmap(peer))

\* New refuses a domain or a network claimed twice and a second default.
New(routes) ==
  LET domains == DomainsOf(routes)
      sources == SourcesOf(routes) IN
  /\ \A p, q \in Places(domains) :
       Before(p, q) /\ Entry(domains, p) # "" =>
         Entry(domains, p) # Entry(domains, q)
  /\ \A p \in Places(sources) : Parses(Entry(sources, p))
  /\ Disjoint(sources)
  /\ \A i, j \in DOMAIN routes :
       routes[i].default /\ routes[j].default => i = j

\* The zero Decision.
None == ""

ByDomain(routes, domain) ==
  {i \in DOMAIN routes : domain \in Range(routes[i].domains)}

\* Mutant: a source network as narrow as the client's takes the message.
SourceWins_Tie(src, clientRoute, clientBits) ==
  src.owner # 0 /\ (clientRoute = "" \/ src.bits >= clientBits)

\* A source network has to be narrower than the client's own.
SourceWins(src, clientRoute, clientBits) ==
  src.owner # 0 /\ (clientRoute = "" \/ src.bits > clientBits)

\* Resolve: domain, source network, client, default.
Resolve(routes, rcpt, peer, clientRoute, clientBits) ==
  LET src == Longest(SourcesOf(routes), Unmap(peer))
      byDomain == ByDomain(routes, DomainOf(rcpt))
      defaults == {i \in DOMAIN routes : routes[i].default} IN
  IF DomainOf(rcpt) # "" /\ byDomain # {}
    THEN routes[CHOOSE i \in byDomain : TRUE].name
  ELSE IF SourceWins(src, clientRoute, clientBits)
    THEN routes[src.owner].name
  ELSE IF clientRoute # "" THEN clientRoute
  ELSE IF defaults # {} THEN routes[CHOOSE i \in defaults : TRUE].name
  ELSE None

\* One turn of the loop of Split: the recipient at place k of the list joins
\* the group of its route, or opens one.
Join(groups, route, k) ==
  IF \E g \in DOMAIN groups : groups[g].route = route
    THEN [g \in DOMAIN groups |->
            IF groups[g].route = route
              THEN [groups[g] EXCEPT !.rcpts = Append(@, k)]
              ELSE groups[g]]
    ELSE Append(groups, [route |-> route, rcpts |-> <<k>>])

=============================================================================
