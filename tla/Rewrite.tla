------------------------------ MODULE Rewrite ------------------------------
(***************************************************************************)
(* Sender rewriting: internal/rewrite.                                     *)
(*                                                                         *)
(* A header block maps places to fields, each a name and a value; the      *)
(* places are numbers in the order of the fields, without gaps in a block  *)
(* as it is read.  Folding and bytes are left out.  A value is a mailbox   *)
(* with an address, or one of the texts Apply treats differently: "opaque" *)
(* yields no address, "unsafe" has control characters, "long" exceeds      *)
(* maxPreservedFrom and "empty" has no text at all.                        *)
(***************************************************************************)
EXTENDS Addressing

Mailbox(a) == [kind |-> "mailbox", addr |-> a]
Text(kind) == [kind |-> kind, addr |-> NoMail]
Field(name, value) == [name |-> name, value |-> value]

-----------------------------------------------------------------------------
(* The header block.                                                       *)

Named(blk, name) == {i \in DOMAIN blk : blk[i].name = name}

count(blk, name) == Cardinality(Named(blk, name))

has(blk, name) == Named(blk, name) # {}

\* The value of the first field of that name.
value(blk, name) ==
  IF has(blk, name) THEN blk[Min(Named(blk, name))].value
                    ELSE Text("empty")

remove(blk, name) == [i \in DOMAIN blk \ Named(blk, name) |-> blk[i]]

\* The place after the last field.
End(blk) == Max(DOMAIN blk \cup {0}) + 1

\* The first field of that name is replaced, later ones are removed; a new
\* one goes to the end.
set(blk, name, val) ==
  LET place == IF has(blk, name) THEN Min(Named(blk, name))
                                 ELSE End(blk) IN
  [i \in (DOMAIN blk \ Named(blk, name)) \cup {place} |->
     IF i = place THEN Field(name, val) ELSE blk[i]]

-----------------------------------------------------------------------------
(* The policy of one client.                                               *)

\* ParseReplyTo accepts preserve, drop and fixed with a valid address.
ParseReplyTo(rt) ==
  \/ rt.kind \in {"preserve", "drop"}
  \/ rt.kind = "fixed" /\ ValidAddress(rt.addr)

\* Compile repeats the loader's checks.
Compile(r) ==
  \/ r.mode = "off"
  \/ /\ r.mode \in {"if_unauthorized", "force"}
     /\ ValidAddress(r.envFrom)
     /\ r.headerFrom.kind \notin {"empty", "keep"} =>
          /\ SplitMailbox(r.headerFrom)
          /\ DomainOf(r.headerFrom.addr) = DomainOf(r.envFrom)
     /\ \A p \in r.allowed : ValidSenderPattern(p)
     /\ r.mode = "if_unauthorized" => r.allowed # {}
     /\ ParseReplyTo(r.replyTo)

\* allowed_senders: an exact address, or everything of a domain.
Authorized(r, sender) ==
  /\ sender.domain # ""
  /\ \E p \in r.allowed :
       p.domain = sender.domain /\ p.local \in {"*", sender.local}

\* The address in a From value, if there is one to trust.
addrOfMailbox(v) == v.addr

\* Mutant: header_from = "keep" keeps any usable From.
keepsFrom_Unaligned(r, orig) ==
  /\ r.headerFrom.kind = "keep" /\ orig.kind # "empty"
  /\ ValidAddress(addrOfMailbox(orig))

\* The From survives under "keep", and only while it stays aligned.
keepsFrom(r, orig) ==
  /\ r.headerFrom.kind = "keep" /\ orig.kind # "empty"
  /\ ValidAddress(addrOfMailbox(orig))
  /\ DomainOf(addrOfMailbox(orig)) = DomainOf(r.envFrom)

fromValue(r) ==
  Mailbox(IF r.headerFrom.kind = "mailbox" THEN r.headerFrom.addr
                                           ELSE r.envFrom)

\* Where answers should go, NoMail when that is where they go already.
replyAddress(r, orig, envelope) ==
  LET a == IF ValidAddress(addrOfMailbox(orig)) THEN addrOfMailbox(orig)
           ELSE IF ValidAddress(envelope) THEN envelope ELSE NoMail IN
  IF a = r.envFrom THEN NoMail ELSE a

replyTo(r, blk, orig, envelope) ==
  LET a == replyAddress(r, orig, envelope) IN
  CASE r.replyTo.kind = "drop" -> remove(blk, "reply-to")
    [] r.replyTo.kind = "fixed" ->
         set(blk, "reply-to", Mailbox(r.replyTo.addr))
    [] OTHER -> IF has(blk, "reply-to") \/ a = NoMail THEN blk
                ELSE set(blk, "reply-to", Mailbox(a))

\* Apply.  The null reverse path is never rewritten, and a block whose From
\* cannot be preserved safely refuses the message.  The refusal of text after
\* the end of the block (errTrailingData) is left out: the listener hands
\* over what it read up to the blank line.
Apply(r, envelope, headers) ==
  LET res(ok, env, blk, done) ==
        [ok |-> ok, envFrom |-> env, headers |-> blk, rewritten |-> done,
         originalFrom |-> IF done THEN envelope ELSE NoMail]
      orig == value(headers, "from")
      fresh == set(headers, "from", fromValue(r))
      kept == IF orig.kind = "empty" THEN fresh
                                     ELSE set(fresh, "x-original-from", orig)
  IN
  CASE r.mode = "off" \/ envelope = NoMail
         \/ (r.mode = "if_unauthorized" /\ Authorized(r, envelope)) ->
         res(TRUE, envelope, headers, FALSE)
    [] OTHER ->
         IF count(headers, "from") > 1 \/ orig.kind \in {"long", "unsafe"}
           THEN res(FALSE, envelope, headers, FALSE)
         ELSE IF keepsFrom(r, orig)
           THEN res(TRUE, r.envFrom, headers, TRUE)
         ELSE res(TRUE, r.envFrom, replyTo(r, kept, orig, envelope), TRUE)

=============================================================================
