---------------------------- MODULE Addressing ----------------------------
(***************************************************************************)
(* The vocabulary of a configuration: mail addresses and IP networks.      *)
(*                                                                         *)
(* A mail address is a local part and a domain, either empty when the text *)
(* is not an address.  The local part "quoted" stands for one the listener *)
(* relays in an envelope and mailaddr does not let into a header (quoted,  *)
(* eight-bit).  An IP address is its bits, the most significant first, and *)
(* a network a base address with a prefix length; bits = -1 stands for     *)
(* text that does not parse.  The address of a peer may come IPv4-mapped,  *)
(* as a dual-stack socket reports it; networks are IPv4.                   *)
(***************************************************************************)
EXTENDS Integers, Sequences, FiniteSets, FiniteSetsExt, Functions

CONSTANT AddrBits   \* the width of an IP address

ASSUME AddressingAssumption == AddrBits \in Nat

Addresses == [1..AddrBits -> {0, 1}]

Prefixes == [bits : Int, base : Addresses]

Mails == [local : STRING, domain : STRING]

NoMail == [local |-> "", domain |-> ""]

ValidAddress(a) == a.local \notin {"", "quoted"} /\ a.domain # ""

\* Both DomainOf of mailaddr and domainOf of the router.
DomainOf(a) == a.domain

\* A configured header_from: the address inside it must be valid.  The
\* display name is left out.
SplitMailbox(m) == ValidAddress(m.addr)

\* *@domain is the pattern whose local part is "*".
ValidSenderPattern(p) == ValidAddress(p)

Parses(p) == p.bits >= 0

\* The base address has no host bits set.
Masked(p) == \A i \in 1..AddrBits : i > p.bits => p.base[i] = 0

\* The addresses of a network have its first bits.
Holds(p, addr) ==
  Parses(p) /\ \A i \in 1..AddrBits : i <= p.bits => p.base[i] = addr[i]

Peers == [mapped : BOOLEAN, addr : Addresses]

Unmap(peer) == [peer EXCEPT !.mapped = FALSE]

\* Contains of netip: no IPv4 network contains a mapped address.
Contains(p, peer) == ~peer.mapped /\ Holds(p, peer.addr)

\* Overlaps of netip: the two agree as far as both of them reach.
Overlaps(p, q) ==
  \A i \in 1..AddrBits :
    i <= p.bits /\ i <= q.bits => p.base[i] = q.base[i]

=============================================================================
