---------------------------- MODULE QuotaProofs ----------------------------
(***************************************************************************)
(* Proofs about Quota, for any messages, sizes, ceiling and number of      *)
(* commits under way: the running totals never drift, and the spool        *)
(* exceeds its ceiling by no more than the commits and failures under way  *)
(* and the requeues so far account for.                                    *)
(***************************************************************************)
EXTENDS Quota, FiniteSetTheorems, TLAPS

-----------------------------------------------------------------------------
(* Totals.                                                                 *)

\* Bytes for a given assignment of sizes.
BytesOf(S, z, h) == UNION {{m} \X (1..(z[m] + h)) : m \in S}

\* A total counts the bytes of the messages in S.
Tally(total, S, z, h) ==
  IsFiniteSet(BytesOf(S, z, h)) /\ total = Cardinality(BytesOf(S, z, h))

\* The bytes of one message.
LEMMA OneMessage ==
  ASSUME NEW m, NEW n \in Nat
  PROVE  IsFiniteSet({m} \X (1..n)) /\ Cardinality({m} \X (1..n)) = n
<1>1. IsFiniteSet({m}) /\ Cardinality({m}) = 1
  BY FS_Singleton
<1>2. IsFiniteSet(1..n) /\ Cardinality(1..n) = n
  BY FS_Interval
<1>3. /\ IsFiniteSet({m} \X (1..n))
      /\ Cardinality({m} \X (1..n)) = Cardinality({m}) * Cardinality(1..n)
  BY <1>1, <1>2, FS_Product
<1> QED
  BY <1>1, <1>2, <1>3

\* A total is a number.
LEMMA TallyNat ==
  ASSUME NEW total, NEW S, NEW z, NEW h, Tally(total, S, z, h)
  PROVE  total \in Nat
  BY FS_CardinalityType DEF Tally

\* Nothing is counted of no message.
LEMMA TallyNone ==
  ASSUME NEW z, NEW h
  PROVE  Tally(0, {}, z, h)
<1>1. BytesOf({}, z, h) = {}
  BY DEF BytesOf
<1> QED
  BY <1>1, FS_EmptySet DEF Tally

\* A total stays right while the messages it counts keep their sizes.
LEMMA TallySame ==
  ASSUME NEW total, NEW S, NEW y, NEW z, NEW h, Tally(total, S, y, h),
         \A m \in S : z[m] = y[m]
  PROVE  Tally(total, S, z, h)
<1>1. BytesOf(S, z, h) = BytesOf(S, y, h)
  BY DEF BytesOf
<1> QED
  BY <1>1 DEF Tally

\* A message that is not counted is added with its size.
LEMMA TallyAdd ==
  ASSUME NEW total, NEW S, NEW z, NEW h, Tally(total, S, z, h),
         NEW m, m \notin S, z[m] + h \in Nat
  PROVE  Tally(total + (z[m] + h), S \cup {m}, z, h)
<1>1. BytesOf(S \cup {m}, z, h)
        = BytesOf(S, z, h) \cup ({m} \X (1..(z[m] + h)))
  BY DEF BytesOf
<1>2. BytesOf(S, z, h) \cap ({m} \X (1..(z[m] + h))) = {}
  BY DEF BytesOf
<1>3. /\ IsFiniteSet({m} \X (1..(z[m] + h)))
      /\ Cardinality({m} \X (1..(z[m] + h))) = z[m] + h
  BY OneMessage
<1>4. IsFiniteSet(BytesOf(S, z, h)) /\ total = Cardinality(BytesOf(S, z, h))
  BY DEF Tally
<1>5. /\ IsFiniteSet(BytesOf(S \cup {m}, z, h))
      /\ Cardinality(BytesOf(S \cup {m}, z, h)) = total + (z[m] + h) - 0
  <2> DEFINE A == BytesOf(S, z, h)
             B == {m} \X (1..(z[m] + h))
  <2>1. /\ IsFiniteSet(A \cup B)
        /\ Cardinality(A \cup B)
             = Cardinality(A) + Cardinality(B) - Cardinality(A \cap B)
    <3> HIDE DEF A, B
    <3>1. IsFiniteSet(A) /\ IsFiniteSet(B)
      BY <1>3, <1>4 DEF A, B
    <3> QED
      BY <3>1, FS_Union
  <2>2. Cardinality(A \cap B) = 0
    BY <1>2, FS_EmptySet
  <2> QED
    BY <1>1, <1>3, <1>4, <2>1, <2>2
<1>6. total \in Nat
  BY TallyNat
<1> QED
  BY <1>5, <1>6 DEF Tally

\* A message that is counted is taken away with its size.
LEMMA TallyDrop ==
  ASSUME NEW total, NEW S, NEW z, NEW h, Tally(total, S, z, h),
         NEW m \in S, z[m] + h \in Nat
  PROVE  Tally(total - (z[m] + h), S \ {m}, z, h)
<1>1. BytesOf(S \ {m}, z, h) \in SUBSET BytesOf(S, z, h)
  BY DEF BytesOf
<1>2. IsFiniteSet(BytesOf(S \ {m}, z, h))
  BY <1>1, FS_Subset DEF Tally
<1>3. PICK n : n = Cardinality(BytesOf(S \ {m}, z, h))
  OBVIOUS
<1>4. Tally(n, S \ {m}, z, h)
  BY <1>2, <1>3 DEF Tally
<1>5. Tally(n + (z[m] + h), (S \ {m}) \cup {m}, z, h)
  BY <1>4, TallyAdd
<1>6. (S \ {m}) \cup {m} = S
  OBVIOUS
<1>7. total = n + (z[m] + h)
  BY <1>5, <1>6 DEF Tally
<1>8. n \in Nat
  BY <1>4, TallyNat
<1>9. total - (z[m] + h) = n
  BY <1>7, <1>8
<1> QED
  BY <1>4, <1>9

\* A set of sizes has a least one.
LEMMA LeastSize == Min(Sizes) \in Sizes
<1>1. IsWellFoundedOn(OpToRel(<, Nat), Nat)
  BY NatLessThanWellFounded
<1>2. Sizes \subseteq Nat /\ Sizes # {}
  BY QuotaAssumption
<1>3. \E x \in Sizes : \A y \in Sizes : ~(<<y, x>> \in OpToRel(<, Nat))
  BY <1>1, <1>2, WFMin
<1>4. \E x \in Sizes : \A y \in Sizes : ~(y < x)
  BY <1>2, <1>3 DEF OpToRel
<1>5. \E x \in Sizes : \A y \in Sizes : x =< y
  BY <1>2, <1>4
<1> QED
  BY <1>5 DEF Min

-----------------------------------------------------------------------------
(* The ledger.                                                             *)

\* A Commit that is still reading has reserved nothing.
Unreserved ==
  \A m \in Messages : phase[m] \in {"read1", "read2"} => m \notin held

Tallies ==
  /\ Tally(live, InLive, size, Header)
  /\ Tally(failed, InFailed, size, Header)
  /\ Tally(reserved, held, size, 0)

LedgerInv == TypeOK /\ Unreserved /\ Tallies

\* What the invariant says of the totals.
LEMMA LedgerSays == LedgerInv => LedgerExact
<1>1. \A S, h : Bytes(S, h) = BytesOf(S, size, h)
  BY DEF Bytes, BytesOf
<1> QED
  BY <1>1 DEF LedgerInv, Tallies, Tally, LedgerExact

\* The ledger of an empty spool.
LEMMA LedgerInit == Init => LedgerInv
<1> SUFFICES ASSUME Init
             PROVE  LedgerInv
  OBVIOUS
<1>1. TypeOK
  BY LeastSize, QuotaAssumption DEF Init, TypeOK, Phases
<1>2. Unreserved
  BY DEF Init, Unreserved
<1>3. InLive = {} /\ InFailed = {}
  BY DEF Init, InLive, InFailed, In
<1>4. Tallies
  BY <1>3, TallyNone DEF Init, Tallies
<1> QED
  BY <1>1, <1>2, <1>4 DEF LedgerInv

\* A message that moves enters and leaves the sets its phases belong to.
LEMMA Moved ==
  ASSUME TypeOK, NEW m \in Messages, NEW a, NEW b, Move(m, a, b)
  PROVE  /\ m \in InLive <=> a \in {"queued", "requeued"}
         /\ m \in InFailed <=> a \in {"failed", "requeued"}
         /\ InLive' = IF b \in {"queued", "requeued"} THEN InLive \cup {m}
                                                      ELSE InLive \ {m}
         /\ InFailed' = IF b \in {"failed", "requeued"} THEN InFailed \cup {m}
                                                        ELSE InFailed \ {m}
<1>1. /\ phase[m] = a /\ phase \in [Messages -> Phases]
      /\ \A j \in Messages : phase'[j] = IF j = m THEN b ELSE phase[j]
  BY DEF Move, TypeOK
<1>2. \A S : In(S) = {j \in Messages : phase[j] \in S}
  BY DEF In
<1>3. \A S : In(S)' = {j \in Messages : phase'[j] \in S}
  BY DEF In
<1>4. m \in InLive <=> a \in {"queued", "requeued"}
  BY <1>1 DEF InLive, In
<1>5. m \in InFailed <=> a \in {"failed", "requeued"}
  BY <1>1 DEF InFailed, In
<1>6. InLive' = IF b \in {"queued", "requeued"} THEN InLive \cup {m}
                                                ELSE InLive \ {m}
  BY <1>1 DEF InLive, In
<1>7. InFailed' = IF b \in {"failed", "requeued"} THEN InFailed \cup {m}
                                                  ELSE InFailed \ {m}
  BY <1>1 DEF InFailed, In
<1> QED
  BY <1>4, <1>5, <1>6, <1>7

\* A slot that is given a size leaves the others theirs.
LEMMA Resized ==
  ASSUME TypeOK, NEW m \in Messages,
         \E s \in Sizes : size' = [size EXCEPT ![m] = s]
  PROVE  size' \in [Messages -> Sizes]
           /\ \A j \in Messages : j # m => size'[j] = size[j]
  BY DEF TypeOK

\* What is gone has its slot's size, or still the one it reserved.
LEMMA GoneResizes ==
  ASSUME TypeOK, NEW m \in Messages, NEW a, Gone(m, a)
  PROVE  /\ Move(m, a, "none")
         /\ size' \in [Messages -> Sizes]
         /\ \A j \in Messages : j # m \/ j \in held => size'[j] = size[j]
  BY LeastSize DEF TypeOK, Gone

\* The size of a message is a number, in the index as in the ledger.
LEMMA SizeNat ==
  ASSUME TypeOK, NEW m \in Messages
  PROVE  size[m] \in Nat /\ size[m] + Header \in Nat /\ size[m] + 0 = size[m]
<1>1. size[m] \in Nat /\ Header \in Nat
  BY QuotaAssumption DEF TypeOK
<1> QED
  BY <1>1

\* The steps of Commit keep the ledger.
LEMMA CommitLedger ==
  ASSUME LedgerInv, NEW m \in Messages,
         \/ \E s \in Sizes : ReadLive(m, s)
         \/ ReadFailed(m) \/ Reserve(m) \/ ErrQuotaExceeded(m)
         \/ CommitError(m) \/ Put(m) \/ Release(m)
  PROVE  LedgerInv'
<1>1. TypeOK /\ Unreserved /\ Tallies
  BY DEF LedgerInv
<1>2. InLive \subseteq Messages /\ InFailed \subseteq Messages
        /\ held \subseteq Messages
  BY <1>1 DEF InLive, InFailed, In, TypeOK
<1>3. ASSUME UNCHANGED <<live, failed, reserved, held>>,
             InLive' = InLive, InFailed' = InFailed,
             \A j \in InLive \cup InFailed \cup held : size'[j] = size[j]
      PROVE  Tallies'
  BY <1>1, <1>3, TallySame DEF Tallies
<1>4. ASSUME NEW s \in Sizes, ReadLive(m, s)
      PROVE  LedgerInv'
  <2>1. /\ m \notin held /\ Move(m, "none", "read1")
        /\ size' = [size EXCEPT ![m] = s]
        /\ seen' = [seen EXCEPT ![m] = live]
        /\ UNCHANGED <<live, failed, reserved, held, requeues>>
    BY <1>4 DEF ReadLive
  <2>2. m \notin InLive /\ m \notin InFailed
          /\ InLive' = InLive /\ InFailed' = InFailed
    BY <1>1, <2>1, Moved
  <2>3. Tallies'
    <3>1. \A j \in Messages : j # m => size'[j] = size[j]
      BY <1>1, <2>1, Resized
    <3>2. \A j \in InLive \cup InFailed \cup held : size'[j] = size[j]
      BY <1>2, <2>1, <2>2, <3>1
    <3> QED
      BY <1>3, <2>1, <2>2, <3>2
  <2>4. TypeOK'
    BY <1>1, <2>1 DEF TypeOK, Move, Phases
  <2>5. Unreserved'
    BY <1>1, <2>1 DEF Unreserved, Move, TypeOK
  <2> QED
    BY <2>3, <2>4, <2>5 DEF LedgerInv
<1>5. CASE ReadFailed(m)
  <2>1. /\ Move(m, "read1", "read2")
        /\ seen' = [seen EXCEPT ![m] = @ + failed]
        /\ UNCHANGED <<live, failed, reserved, held, size, requeues>>
    BY <1>5 DEF ReadFailed
  <2>2. InLive' = InLive /\ InFailed' = InFailed
    BY <1>1, <2>1, Moved
  <2>3. Tallies'
    BY <1>3, <2>1, <2>2
  <2>4. TypeOK'
    BY <1>1, <2>1 DEF TypeOK, Move, Phases
  <2>5. Unreserved'
    BY <1>1, <2>1 DEF Unreserved, Move, TypeOK
  <2> QED
    BY <2>3, <2>4, <2>5 DEF LedgerInv
<1>6. CASE Reserve(m)
  <2>1. /\ Move(m, "read2", "admitted")
        /\ reserved' = reserved + size[m]
        /\ held' = held \cup {m}
        /\ seen' = [seen EXCEPT ![m] = 0]
        /\ UNCHANGED <<live, failed, size, requeues>>
    BY <1>6 DEF Reserve
  <2>2. InLive' = InLive /\ InFailed' = InFailed /\ m \notin held
    <3>1. InLive' = InLive /\ InFailed' = InFailed
      BY <1>1, <2>1, Moved
    <3>2. m \notin held
      BY <1>1, <2>1 DEF Unreserved, Move
    <3> QED
      BY <3>1, <3>2
  <2>3. Tally(reserved + (size[m] + 0), held \cup {m}, size, 0)
    <3>1. size[m] + 0 \in Nat
      BY <1>1, SizeNat
    <3> QED
      BY <1>1, <2>2, <3>1, TallyAdd DEF Tallies
  <2>4. Tallies'
    BY <1>1, <2>1, <2>2, <2>3, SizeNat DEF Tallies
  <2>5. TypeOK'
    <3>1. reserved' \in Nat
      BY <1>1, <2>1, SizeNat DEF TypeOK
    <3> QED
      BY <1>1, <2>1, <3>1 DEF TypeOK, Move, Phases
  <2>6. Unreserved'
    BY <1>1, <2>1 DEF Unreserved, Move, TypeOK
  <2> QED
    BY <2>4, <2>5, <2>6 DEF LedgerInv
<1>7. CASE ErrQuotaExceeded(m)
  <2>1. /\ Gone(m, "read2")
        /\ seen' = [seen EXCEPT ![m] = 0]
        /\ UNCHANGED <<live, failed, reserved, held, requeues>>
    BY <1>7 DEF ErrQuotaExceeded
  <2>2. /\ Move(m, "read2", "none")
        /\ size' \in [Messages -> Sizes]
        /\ \A j \in Messages : j # m \/ j \in held => size'[j] = size[j]
    BY <1>1, <2>1, GoneResizes
  <2>3. m \notin InLive /\ m \notin InFailed
          /\ InLive' = InLive /\ InFailed' = InFailed
    BY <1>1, <2>2, Moved
  <2>4. Tallies'
    BY <1>2, <1>3, <2>1, <2>2, <2>3
  <2>5. TypeOK'
    BY <1>1, <2>1, <2>2 DEF TypeOK, Move, Phases
  <2>6. Unreserved'
    BY <1>1, <2>1, <2>2 DEF Unreserved, Move, TypeOK
  <2> QED
    BY <2>4, <2>5, <2>6 DEF LedgerInv
<1>8. CASE CommitError(m)
  <2>1. /\ Gone(m, "admitted")
        /\ UNCHANGED <<live, failed, reserved, held, seen, requeues>>
    BY <1>8 DEF CommitError
  <2>2. /\ Move(m, "admitted", "none")
        /\ size' \in [Messages -> Sizes]
        /\ \A j \in Messages : j # m \/ j \in held => size'[j] = size[j]
    BY <1>1, <2>1, GoneResizes
  <2>3. m \notin InLive /\ m \notin InFailed
          /\ InLive' = InLive /\ InFailed' = InFailed
    BY <1>1, <2>2, Moved
  <2>4. Tallies'
    BY <1>2, <1>3, <2>1, <2>2, <2>3
  <2>5. TypeOK'
    BY <1>1, <2>1, <2>2 DEF TypeOK, Move, Phases
  <2>6. Unreserved'
    BY <1>1, <2>1, <2>2 DEF Unreserved, Move, TypeOK
  <2> QED
    BY <2>4, <2>5, <2>6 DEF LedgerInv
<1>9. CASE Put(m)
  <2>1. /\ Move(m, "admitted", "queued")
        /\ live' = live + (size[m] + Header)
        /\ UNCHANGED <<failed, reserved, held, size, seen, requeues>>
    BY <1>9 DEF Put, Stored
  <2>2. m \notin InLive /\ InLive' = InLive \cup {m} /\ InFailed' = InFailed
    BY <1>1, <2>1, Moved
  <2>3. Tally(live + (size[m] + Header), InLive \cup {m}, size, Header)
    BY <1>1, <2>2, TallyAdd, SizeNat DEF Tallies
  <2>4. Tallies'
    BY <1>1, <2>1, <2>2, <2>3 DEF Tallies
  <2>5. TypeOK'
    <3>1. live' \in Nat
      BY <1>1, <2>1, SizeNat DEF TypeOK
    <3> QED
      BY <1>1, <2>1, <3>1 DEF TypeOK, Move, Phases
  <2>6. Unreserved'
    BY <1>1, <2>1 DEF Unreserved, Move, TypeOK
  <2> QED
    BY <2>4, <2>5, <2>6 DEF LedgerInv
<1>10. CASE Release(m)
  <2>1. /\ m \in held
        /\ held' = held \ {m}
        /\ reserved' = reserved - size[m]
        /\ size' = [size EXCEPT ![m] =
                      IF phase[m] = "none" THEN Min(Sizes) ELSE @]
        /\ UNCHANGED <<live, failed, phase, seen, requeues>>
    BY <1>10 DEF Release
  <2>2. InLive' = InLive /\ InFailed' = InFailed
    BY <2>1 DEF InLive, InFailed, In
  <2>3. /\ size' \in [Messages -> Sizes]
        /\ \A j \in InLive \cup InFailed \cup (held \ {m}) :
             size'[j] = size[j]
    BY <1>1, <1>2, <2>1, LeastSize DEF TypeOK, InLive, InFailed, In
  <2>4. Tally(reserved - size[m], held \ {m}, size, 0)
    <3>1. size[m] + 0 \in Nat /\ size[m] + 0 = size[m]
      BY <1>1, SizeNat
    <3>2. Tally(reserved - (size[m] + 0), held \ {m}, size, 0)
      BY <1>1, <2>1, <3>1, TallyDrop DEF Tallies
    <3> QED
      BY <3>1, <3>2
  <2>5. Tally(reserved - size[m], held \ {m}, size', 0)
    BY <2>3, <2>4, TallySame
  <2>6. /\ Tally(live, InLive, size', Header)
        /\ Tally(failed, InFailed, size', Header)
    BY <1>1, <2>3, TallySame DEF Tallies
  <2>7. Tallies'
    BY <2>1, <2>2, <2>5, <2>6 DEF Tallies
  <2>8. TypeOK'
    <3>1. reserved' \in Nat
      BY <2>1, <2>4, TallyNat
    <3> QED
      BY <1>1, <2>1, <2>3, <3>1 DEF TypeOK
  <2>9. Unreserved'
    BY <1>1, <2>1 DEF Unreserved
  <2> QED
    BY <2>7, <2>8, <2>9 DEF LedgerInv
<1> QED
  BY <1>4, <1>5, <1>6, <1>7, <1>8, <1>9, <1>10

\* So do Remove, Fail, a requeue and a sweep: a message leaves a total with
\* the size it entered it with.
LEMMA QueueLedger ==
  ASSUME LedgerInv, NEW m \in Messages,
         \/ Remove(m) \/ FailDrop(m) \/ FailPut(m)
         \/ RequeuePut(m) \/ RequeueDrop(m) \/ SweepDrop(m)
  PROVE  LedgerInv'
<1>1. TypeOK /\ Unreserved /\ Tallies
  BY DEF LedgerInv
<1>2. InLive \subseteq Messages /\ InFailed \subseteq Messages
        /\ held \subseteq Messages
  BY <1>1 DEF InLive, InFailed, In, TypeOK
<1>3. size[m] + Header \in Nat
  BY <1>1, SizeNat
<1>4. m \in InLive =>
        Tally(live - (size[m] + Header), InLive \ {m}, size, Header)
  BY <1>1, <1>3, TallyDrop DEF Tallies
<1>5. m \in InFailed =>
        Tally(failed - (size[m] + Header), InFailed \ {m}, size, Header)
  BY <1>1, <1>3, TallyDrop DEF Tallies
<1>6. m \notin InLive =>
        Tally(live + (size[m] + Header), InLive \cup {m}, size, Header)
  BY <1>1, <1>3, TallyAdd DEF Tallies
<1>7. m \notin InFailed =>
        Tally(failed + (size[m] + Header), InFailed \cup {m}, size, Header)
  BY <1>1, <1>3, TallyAdd DEF Tallies
<1>8. ASSUME NEW a, NEW b \in Phases \ {"read1", "read2"}, Move(m, a, b),
             UNCHANGED <<reserved, held, seen>>, requeues' \in 0..MaxRequeues,
             size' \in [Messages -> Sizes],
             \A j \in Messages : j # m \/ j \in held => size'[j] = size[j],
             m \notin InLive' \cup InFailed' \/ size' = size,
             Tally(live', InLive', size, Header),
             Tally(failed', InFailed', size, Header)
      PROVE  LedgerInv'
  <2>1. live' \in Nat /\ failed' \in Nat
    BY <1>8, TallyNat
  <2>2. TypeOK'
    BY <1>1, <1>8, <2>1 DEF TypeOK, Move
  <2>3. Unreserved'
    BY <1>1, <1>8 DEF Unreserved, Move, TypeOK
  <2>4. \A j \in InLive' \cup InFailed' \cup held : size'[j] = size[j]
    <3>1. InLive' \subseteq Messages /\ InFailed' \subseteq Messages
      BY DEF InLive, InFailed, In
    <3> QED
      BY <1>2, <1>8, <3>1
  <2>5. /\ Tally(live', InLive', size', Header)
        /\ Tally(failed', InFailed', size', Header)
        /\ Tally(reserved, held, size', 0)
    BY <1>1, <1>8, <2>4, TallySame DEF Tallies
  <2>6. Tallies'
    BY <1>8, <2>5 DEF Tallies
  <2> QED
    BY <2>2, <2>3, <2>6 DEF LedgerInv
<1>9. /\ Tally(live, InLive, size, Header)
      /\ Tally(failed, InFailed, size, Header)
      /\ size \in [Messages -> Sizes] /\ requeues \in 0..MaxRequeues
  BY <1>1 DEF Tallies, TypeOK
<1>10. CASE Remove(m)
  <2>1. /\ Gone(m, "queued") /\ live' = live - (size[m] + Header)
        /\ UNCHANGED <<failed, reserved, held, seen, requeues>>
    BY <1>10 DEF Remove, Stored
  <2>2. /\ Move(m, "queued", "none")
        /\ size' \in [Messages -> Sizes]
        /\ \A j \in Messages : j # m \/ j \in held => size'[j] = size[j]
    BY <1>1, <2>1, GoneResizes
  <2>3. m \in InLive /\ m \notin InFailed
          /\ InLive' = InLive \ {m} /\ InFailed' = InFailed
    BY <1>1, <2>2, Moved
  <2> QED
    BY <1>4, <1>8, <1>9, <2>1, <2>2, <2>3 DEF Phases
<1>11. CASE FailDrop(m)
  <2>1. /\ Move(m, "queued", "failing") /\ live' = live - (size[m] + Header)
        /\ UNCHANGED <<failed, reserved, held, size, seen, requeues>>
    BY <1>11 DEF FailDrop, Stored
  <2>2. m \in InLive /\ m \notin InFailed
          /\ InLive' = InLive \ {m} /\ InFailed' = InFailed
    BY <1>1, <2>1, Moved
  <2> QED
    BY <1>4, <1>8, <1>9, <2>1, <2>2 DEF Phases
<1>12. CASE FailPut(m)
  <2>1. /\ Move(m, "failing", "failed")
        /\ failed' = failed + (size[m] + Header)
        /\ UNCHANGED <<live, reserved, held, size, seen, requeues>>
    BY <1>12 DEF FailPut, Stored
  <2>2. m \notin InLive /\ m \notin InFailed
          /\ InLive' = InLive /\ InFailed' = InFailed \cup {m}
    BY <1>1, <2>1, Moved
  <2> QED
    BY <1>7, <1>8, <1>9, <2>1, <2>2 DEF Phases
<1>13. CASE RequeuePut(m)
  <2>1. /\ Move(m, "failed", "requeued") /\ live' = live + (size[m] + Header)
        /\ requeues < MaxRequeues /\ requeues' = requeues + 1
        /\ UNCHANGED <<failed, reserved, held, size, seen>>
    BY <1>13 DEF RequeuePut, Stored
  <2>2. m \notin InLive /\ m \in InFailed
          /\ InLive' = InLive \cup {m} /\ InFailed' = InFailed \cup {m}
    BY <1>1, <2>1, Moved
  <2>3. InFailed' = InFailed
    BY <2>2
  <2>4. requeues' \in 0..MaxRequeues
    BY <1>9, <2>1, QuotaAssumption
  <2> QED
    BY <1>6, <1>8, <1>9, <2>1, <2>2, <2>3, <2>4 DEF Phases
<1>14. CASE RequeueDrop(m)
  <2>1. /\ Move(m, "requeued", "queued")
        /\ failed' = failed - (size[m] + Header)
        /\ UNCHANGED <<live, reserved, held, size, seen, requeues>>
    BY <1>14 DEF RequeueDrop, Stored
  <2>2. m \in InLive /\ m \in InFailed
          /\ InLive' = InLive \cup {m} /\ InFailed' = InFailed \ {m}
    BY <1>1, <2>1, Moved
  <2>3. InLive' = InLive
    BY <2>2
  <2> QED
    BY <1>5, <1>8, <1>9, <2>1, <2>2, <2>3 DEF Phases
<1>15. CASE SweepDrop(m)
  <2>1. /\ Gone(m, "failed") /\ failed' = failed - (size[m] + Header)
        /\ UNCHANGED <<live, reserved, held, seen, requeues>>
    BY <1>15 DEF SweepDrop, Stored
  <2>2. /\ Move(m, "failed", "none")
        /\ size' \in [Messages -> Sizes]
        /\ \A j \in Messages : j # m \/ j \in held => size'[j] = size[j]
    BY <1>1, <2>1, GoneResizes
  <2>3. m \notin InLive /\ m \in InFailed
          /\ InLive' = InLive /\ InFailed' = InFailed \ {m}
    BY <1>1, <2>2, Moved
  <2> QED
    BY <1>5, <1>8, <1>9, <2>1, <2>2, <2>3 DEF Phases
<1> QED
  BY <1>10, <1>11, <1>12, <1>13, <1>14, <1>15

\* The ledger, its types and its totals, in every reachable state.
THEOREM LedgerAlways == Spec => []LedgerInv
<1>1. LedgerInv /\ [Next]_vars => LedgerInv'
  <2> SUFFICES ASSUME LedgerInv, [Next]_vars
               PROVE  LedgerInv'
    OBVIOUS
  <2>1. CASE UNCHANGED vars
    BY <2>1
    DEF vars, LedgerInv, TypeOK, Unreserved, Tallies, InLive, InFailed, In
  <2>2. CASE Next
    BY <2>2, CommitLedger, QueueLedger DEF Next
  <2> QED
    BY <2>1, <2>2
<1> QED
  BY <1>1, LedgerInit, PTL DEF Spec

\* The totals of quotaLedger, Spool.index and failedStore never drift from
\* the messages they stand for, on whatever path a message comes and goes.
THEOREM LedgerNeverDrifts == Spec => []LedgerExact
  BY LedgerAlways, LedgerSays, PTL

-----------------------------------------------------------------------------
(* The overshoot.  A Commit judges itself by what it has read, which may   *)
(* be out of date by any number of messages.  But those were admitted by   *)
(* Commits that read in their turn: ranked by when they began to read, the *)
(* i-th Commit either sees all but what Sessions - i others hold, or the   *)
(* spool is still below its bound by i messages.                           *)

Readers == In({"read1", "read2"})
Present == In({"admitted", "queued", "failing", "failed", "requeued"})
Lying == In({"failed"})

\* What the spool occupies once the admitted messages are written.
Filled == Cardinality(BytesOf(Present, size, Header))

\* What a Commit will have seen of the totals, if it reads on now.
View(m) ==
  IF phase[m] = "read1"
    THEN seen[m] + Cardinality(BytesOf(Lying, size, Header))
    ELSE seen[m]

Biggest == Max(Sizes) + Header
Ceiling == MaxBytes + Header
Room(i) == Biggest * (Sessions - i + Movers + requeues)

\* The Commit of rank i sees enough, or there is room for it and its elders.
Sees(m, i) ==
  \/ Filled <= View(m) + Room(i)
  \/ Filled <= Ceiling + Room(i + 1)

\* A ranking of the Commits that are reading.
IsRanking(f, R, n) ==
  f \in [R -> 1..n] /\ \A q, r \in R : f[q] = f[r] => q = r

Ranked ==
  \E f : /\ IsRanking(f, Readers, Cardinality(Readers))
         /\ \A r \in Readers : Sees(r, f[r])

FewMovers == Cardinality(In({"failing"})) <= Movers
AdmittedHeld == \A m \in Messages : phase[m] = "admitted" => m \in held
Capped == Filled <= Ceiling + Room(1)

OverInv ==
  FewMovers /\ AdmittedHeld /\ (MaxBytes > 0 => Capped /\ Ranked)

\* A finite set of sizes has a greatest one.
LEMMA GreatestSize ==
  Max(Sizes) \in Sizes /\ \A s \in Sizes : s <= Max(Sizes)
<1> DEFINE HasMax(X) == \E x \in X : \A y \in X : x >= y
           T == {X \in SUBSET Sizes : X # {} /\ ~HasMax(X)}
<1>1. Sizes \subseteq Nat /\ Sizes # {} /\ IsFiniteSet(Sizes)
  BY QuotaAssumption
<1>2. IsWellFoundedOn(StrictSubsetOrdering(Sizes), SUBSET Sizes)
  BY <1>1, FS_StrictSubsetOrderingWellFounded, FS_FiniteSubsetsOfFinite
<1>3. SUFFICES T = {}
  <2>1. HasMax(Sizes)
    BY <1>1, <1>3
  <2> QED
    BY <1>1, <2>1 DEF Max
<1>4. SUFFICES ASSUME T # {}
               PROVE  FALSE
  OBVIOUS
<1>5. T \subseteq SUBSET Sizes
  OBVIOUS
<1>6. PICK X \in T : \A Y \in T : <<Y, X>> \notin StrictSubsetOrdering(Sizes)
  <2> HIDE DEF T
  <2> QED
    BY <1>2, <1>4, <1>5, WFMin
<1>7. PICK x \in X : TRUE
  OBVIOUS
<1>8. /\ <<X \ {x}, X>> \in StrictSubsetOrdering(Sizes)
      /\ X \ {x} \in SUBSET Sizes
  BY <1>7 DEF StrictSubsetOrdering
<1>9. X \ {x} = {} \/ HasMax(X \ {x})
  BY <1>6, <1>8
<1>10. X \subseteq Nat
  BY <1>1
<1>11. CASE X \ {x} = {}
  <2>1. \A y \in X : y = x
    BY <1>11
  <2>2. HasMax(X)
    BY <1>7, <1>10, <2>1
  <2> QED
    BY <2>2
<1>12. CASE HasMax(X \ {x})
  <2>1. PICK y \in X \ {x} : \A w \in X \ {x} : y >= w
    BY <1>12
  <2>2. x \in Nat /\ y \in Nat
    BY <1>7, <1>10, <2>1
  <2>3. CASE x >= y
    <3>1. \A w \in X : x >= w
      BY <1>10, <2>1, <2>2, <2>3
    <3> QED
      BY <1>7, <3>1
  <2>4. CASE ~(x >= y)
    <3>1. \A w \in X : y >= w
      BY <1>10, <2>1, <2>2, <2>4
    <3> QED
      BY <2>1, <3>1
  <2> QED
    BY <2>3, <2>4
<1> QED
  BY <1>9, <1>11, <1>12

\* The largest message.
LEMMA BiggestNat ==
  /\ Biggest \in Nat
  /\ \A s \in Sizes : s \in Nat /\ s + Header \in Nat
                        /\ s + Header <= Biggest /\ s + 0 <= Biggest
<1>1. /\ Max(Sizes) \in Nat /\ Header \in Nat
      /\ \A s \in Sizes : s \in Nat /\ s <= Max(Sizes)
  BY GreatestSize, QuotaAssumption
<1> HIDE DEF Max
<1> QED
  BY <1>1 DEF Biggest

\* Messages occupy no more than so many of the largest.
LEMMA BytesCap ==
  ASSUME NEW S \in SUBSET Messages, NEW z \in [Messages -> Sizes],
         NEW h \in {0, Header}
  PROVE  /\ IsFiniteSet(S) /\ IsFiniteSet(BytesOf(S, z, h))
         /\ Cardinality(S) \in Nat /\ Cardinality(BytesOf(S, z, h)) \in Nat
         /\ Cardinality(BytesOf(S, z, h)) <= Cardinality(S) * Biggest
<1>1. IsFiniteSet(S) /\ Cardinality(S) \in Nat
  BY FS_Subset, FS_CardinalityType, QuotaAssumption
<1>2. IsFiniteSet(1..Biggest) /\ Cardinality(1..Biggest) = Biggest
  BY BiggestNat, FS_Interval
<1>3. /\ IsFiniteSet(S \X (1..Biggest))
      /\ Cardinality(S \X (1..Biggest)) = Cardinality(S) * Biggest
  BY <1>1, <1>2, FS_Product
<1>4. BytesOf(S, z, h) \in SUBSET (S \X (1..Biggest))
  <2>1. \A m \in S : z[m] + h \in Nat /\ z[m] + h <= Biggest
    BY BiggestNat
  <2>2. \A m \in S : 1..(z[m] + h) \subseteq 1..Biggest
    BY <2>1, BiggestNat
  <2> QED
    BY <2>2 DEF BytesOf
<1>5. /\ IsFiniteSet(BytesOf(S, z, h))
      /\ Cardinality(BytesOf(S, z, h)) <= Cardinality(S \X (1..Biggest))
  BY <1>3, <1>4, FS_Subset
<1> QED
  BY <1>1, <1>3, <1>5, FS_CardinalityType

\* Of two sets of messages, together and one within the other.
LEMMA BytesJoin ==
  ASSUME NEW S \in SUBSET Messages, NEW T \in SUBSET Messages,
         NEW z \in [Messages -> Sizes]
  PROVE  /\ Cardinality(BytesOf(S \cup T, z, Header))
              <= Cardinality(BytesOf(S, z, Header))
                   + Cardinality(BytesOf(T, z, Header))
         /\ S \subseteq T => Cardinality(BytesOf(S, z, Header))
                               <= Cardinality(BytesOf(T, z, Header))
<1> DEFINE A == BytesOf(S, z, Header)
           B == BytesOf(T, z, Header)
<1>1. IsFiniteSet(A) /\ IsFiniteSet(B)
  BY BytesCap
<1>2. BytesOf(S \cup T, z, Header) = A \cup B
  BY DEF BytesOf
<1>3. S \subseteq T => A \in SUBSET B
  BY DEF BytesOf
<1> HIDE DEF A, B
<1>4. Cardinality(A \cup B) <= Cardinality(A) + Cardinality(B)
  <2>1. IsFiniteSet(A \cap B)
    BY <1>1, FS_Subset
  <2>2. /\ Cardinality(A) \in Nat /\ Cardinality(B) \in Nat
        /\ Cardinality(A \cap B) \in Nat
    BY <1>1, <2>1, FS_CardinalityType
  <2>3. Cardinality(A \cup B)
          = Cardinality(A) + Cardinality(B) - Cardinality(A \cap B)
    BY <1>1, FS_Union
  <2> QED
    BY <2>2, <2>3
<1>5. A \in SUBSET B => Cardinality(A) <= Cardinality(B)
  BY <1>1, FS_Subset
<1> QED
  BY <1>2, <1>3, <1>4, <1>5 DEF A, B

\* The room for one rank is a message less than for the next older one.
LEMMA RoomFacts ==
  ASSUME TypeOK
  PROVE  /\ \A i \in Int : Room(i) \in Int /\ Room(i) = Room(i + 1) + Biggest
         /\ \A i, j \in Int : i <= j => Room(j) <= Room(i)
<1>1. /\ Biggest \in Nat /\ Sessions \in Nat /\ Movers \in Nat
      /\ requeues \in Nat /\ MaxRequeues \in Nat
  BY BiggestNat, QuotaAssumption DEF TypeOK
<1>2. \A b \in Nat, x \in Int : b * x \in Int /\ b * (x + 1) = b * x + b
  OBVIOUS
<1>3. \A b \in Nat, x, y \in Int : x <= y => b * x <= b * y
  OBVIOUS
<1>4. \A i \in Int : /\ Sessions - i + Movers + requeues \in Int
                     /\ Sessions - i + Movers + requeues
                          = (Sessions - (i + 1) + Movers + requeues) + 1
  BY <1>1
<1>5. \A i, j \in Int : i <= j => Sessions - j + Movers + requeues
                                    <= Sessions - i + Movers + requeues
  BY <1>1
<1>6. \A i \in Int : Room(i) \in Int /\ Room(i) = Room(i + 1) + Biggest
  <2> SUFFICES ASSUME NEW i \in Int
               PROVE  Room(i) \in Int /\ Room(i) = Room(i + 1) + Biggest
    OBVIOUS
  <2>1. PICK x \in Int : x = Sessions - (i + 1) + Movers + requeues
    BY <1>4
  <2>2. Room(i + 1) = Biggest * x /\ Room(i) = Biggest * (x + 1)
    BY <1>4, <2>1 DEF Room
  <2> QED
    BY <1>1, <1>2, <2>2
<1>7. \A i, j \in Int : i <= j => Room(j) <= Room(i)
  BY <1>1, <1>3, <1>4, <1>5 DEF Room
<1> QED
  BY <1>6, <1>7

\* What is filled is counted, and every Commit's view is a number.
LEMMA FilledFacts ==
  ASSUME TypeOK
  PROVE  /\ Tally(Filled, Present, size, Header) /\ Filled \in Nat
         /\ Tally(Cardinality(BytesOf(Lying, size, Header)), Lying, size,
                  Header)
         /\ Cardinality(BytesOf(Lying, size, Header)) \in Nat
         /\ \A m \in Messages : View(m) \in Nat
         /\ Ceiling \in Nat
         /\ IsFiniteSet(Readers) /\ Cardinality(Readers) \in Nat
         /\ Present \in SUBSET Messages /\ Lying \in SUBSET Messages
         /\ Readers \in SUBSET Messages
<1>1. /\ Present \in SUBSET Messages /\ Lying \in SUBSET Messages
      /\ Readers \in SUBSET Messages
  BY DEF Present, Lying, Readers, In
<1>2. size \in [Messages -> Sizes] /\ seen \in [Messages -> Nat]
  BY DEF TypeOK
<1>3. /\ IsFiniteSet(BytesOf(Present, size, Header))
      /\ IsFiniteSet(BytesOf(Lying, size, Header))
      /\ Cardinality(BytesOf(Present, size, Header)) \in Nat
      /\ Cardinality(BytesOf(Lying, size, Header)) \in Nat
      /\ IsFiniteSet(Readers) /\ Cardinality(Readers) \in Nat
  BY <1>1, <1>2, BytesCap
<1>4. \A m \in Messages : View(m) \in Nat
  BY <1>2, <1>3 DEF View
<1>5. Ceiling \in Nat
  BY QuotaAssumption DEF Ceiling
<1> QED
  BY <1>1, <1>3, <1>4, <1>5 DEF Tally, Filled

\* The same of the state after a step.
LEMMA FilledFactsNext ==
  ASSUME TypeOK'
  PROVE  Filled' \in Nat /\ \A m \in Messages : View(m)' \in Nat
<1>1. /\ Present' \in SUBSET Messages /\ Lying' \in SUBSET Messages
      /\ size' \in [Messages -> Sizes] /\ seen' \in [Messages -> Nat]
  BY DEF Present, Lying, In, TypeOK
<1>2. /\ Cardinality(BytesOf(Present', size', Header)) \in Nat
      /\ Cardinality(BytesOf(Lying', size', Header)) \in Nat
  BY <1>1, BytesCap
<1>3. Filled' \in Nat
  BY <1>2 DEF Filled, BytesOf
<1>4. ASSUME NEW m \in Messages
      PROVE  View(m)' \in Nat
  BY <1>1, <1>2 DEF View, BytesOf
<1> QED
  BY <1>3, <1>4

\* A message that moves, and the set of messages in some phases.
LEMMA MovedIn ==
  ASSUME TypeOK, NEW m \in Messages, NEW a, NEW b, Move(m, a, b), NEW S
  PROVE  /\ m \in In(S) <=> a \in S
         /\ In(S)' = IF b \in S THEN In(S) \cup {m} ELSE In(S) \ {m}
<1>1. /\ phase[m] = a /\ phase \in [Messages -> Phases]
      /\ \A j \in Messages : phase'[j] = IF j = m THEN b ELSE phase[j]
  BY DEF Move, TypeOK
<1> QED
  BY <1>1 DEF In

\* A step of no reader: the spool shrinks by d, the room grows by g, and no
\* view falls by more.
LEMMA Drift ==
  ASSUME TypeOK, TypeOK', Capped, Ranked, Readers' = Readers,
         NEW d \in Nat, NEW g \in Nat, Filled' = Filled - d,
         \A i \in Int : Room(i)' = Room(i) + g,
         \A r \in Readers : View(r) <= View(r)' + d + g
  PROVE  Capped' /\ Ranked'
<1>1. /\ Filled \in Nat /\ Ceiling \in Nat /\ Cardinality(Readers) \in Nat
      /\ \A r \in Readers : View(r) \in Nat
  BY FilledFacts
<1>2. \A r \in Readers : View(r)' \in Nat
  <2>1. \A r \in Messages : View(r)' \in Nat
    BY FilledFactsNext
  <2> QED
    BY <2>1, FilledFacts
<1>3. \A i \in Int : Room(i) \in Int
  BY RoomFacts
<1>4. Capped'
  <2>1. Filled <= Ceiling + Room(1) /\ Room(1)' = Room(1) + g
    BY DEF Capped
  <2>2. Ceiling' = Ceiling
    BY DEF Ceiling
  <2>3. Room(1) \in Int
    BY <1>3
  <2>4. Filled' <= Ceiling + Room(1)'
    BY <1>1, <2>1, <2>3
  <2> QED
    BY <2>2, <2>4 DEF Capped
<1>5. PICK f : /\ IsRanking(f, Readers, Cardinality(Readers))
               /\ \A r \in Readers : Sees(r, f[r])
  BY DEF Ranked
<1>6. ASSUME NEW r \in Readers
      PROVE  Sees(r, f[r])'
  <2>1. f[r] \in Int /\ f[r] + 1 \in Int
    BY <1>1, <1>5 DEF IsRanking
  <2>2. PICK i \in Int : i = f[r]
    BY <2>1
  <2>3. /\ Room(i) \in Int /\ Room(i + 1) \in Int
        /\ Room(i)' = Room(i) + g /\ Room(i + 1)' = Room(i + 1) + g
    BY <1>3, <2>1, <2>2
  <2>4. /\ View(r) \in Nat /\ View(r)' \in Nat
        /\ View(r) <= View(r)' + d + g
    BY <1>1, <1>2
  <2>5. Filled <= View(r) + Room(i) \/ Filled <= Ceiling + Room(i + 1)
    BY <1>5, <2>2 DEF Sees
  <2>6. CASE Filled <= View(r) + Room(i)
    <3>1. Filled' <= View(r)' + Room(i)'
      BY <1>1, <2>3, <2>4, <2>6
    <3> QED
      BY <2>2, <3>1 DEF Sees
  <2>7. CASE Filled <= Ceiling + Room(i + 1)
    <3>1. Filled' <= Ceiling + Room(i + 1)'
      BY <1>1, <2>3, <2>7
    <3> QED
      BY <2>2, <3>1 DEF Sees, Ceiling
  <2> QED
    BY <2>5, <2>6, <2>7
<1>7. Ranked'
  <2>1. IsRanking(f, Readers', Cardinality(Readers)')
    BY <1>5
  <2>2. \A r \in Readers' : Sees(r, f[r])'
    BY <1>6
  <2> QED
    BY <2>1, <2>2 DEF Ranked
<1> QED
  BY <1>4, <1>7

\* A reader leaves: refused, or admitted, and then the spool is filled no
\* further than its rank allows.
LEMMA Leaves ==
  ASSUME TypeOK, TypeOK', Capped, Ranked,
         NEW m \in Readers, Readers' = Readers \ {m},
         UNCHANGED requeues,
         \A r \in Readers \ {m} : View(r)' = View(r),
         Filled' <= Filled + Biggest,
         \A i \in Int : Sees(m, i) =>
           Filled' = Filled \/ Filled' <= Ceiling + Room(i)
  PROVE  Capped' /\ Ranked'
<1>1. /\ Filled \in Nat /\ Ceiling \in Nat /\ Cardinality(Readers) \in Nat
      /\ IsFiniteSet(Readers)
      /\ \A r \in Readers : View(r) \in Nat
  BY FilledFacts
<1>2. Filled' \in Nat
  BY FilledFactsNext
<1>3. /\ \A i \in Int : Room(i) \in Int /\ Room(i) = Room(i + 1) + Biggest
      /\ \A i, j \in Int : i <= j => Room(j) <= Room(i)
      /\ Biggest \in Nat
  BY RoomFacts, BiggestNat
<1>4. \A i \in Int : Room(i) \in Int
  BY <1>3
<1>5. \A i, j \in Int : i <= j => Room(j) <= Room(i)
  BY <1>3
<1>6. /\ \A i : Room(i)' = Room(i)
      /\ Ceiling' = Ceiling
  BY DEF Room, Ceiling
<1>7. PICK n \in Nat : n = Cardinality(Readers)
  BY <1>1
<1>8. Cardinality(Readers)' = n - 1
  BY <1>1, <1>7, FS_RemoveElement
<1>9. PICK f : /\ IsRanking(f, Readers, n)
               /\ \A r \in Readers : Sees(r, f[r])
  BY <1>7 DEF Ranked
<1>10. /\ \A r \in Readers : f[r] \in 1..n
      /\ \A q, r \in Readers : f[q] = f[r] => q = r
  BY <1>9 DEF IsRanking
<1>11. PICK k \in 1..n : k = f[m]
  BY <1>10
<1>12. Filled' = Filled \/ Filled' <= Ceiling + Room(k)
  BY <1>9, <1>11
<1>13. Capped'
  <2>1. Room(k) <= Room(1) /\ Room(k) \in Int /\ Room(1) \in Int
    BY <1>3
  <2>2. Filled <= Ceiling + Room(1)
    BY DEF Capped
  <2>3. Filled' <= Ceiling + Room(1)
    BY <1>1, <1>2, <1>12, <2>1, <2>2
  <2> QED
    BY <1>6, <2>3 DEF Capped
<1>14. PICK e : e = [r \in Readers \ {m} |-> IF f[r] > k THEN f[r] - 1
                                                        ELSE f[r]]
  OBVIOUS
<1>15. \A r \in Readers \ {m} : f[r] # k
  BY <1>10, <1>11
<1>16. \A r \in Readers \ {m} :
         /\ f[r] > k => e[r] = f[r] - 1
         /\ ~(f[r] > k) => e[r] = f[r] /\ f[r] < k
  BY <1>10, <1>14, <1>15
<1>17. IsRanking(e, Readers \ {m}, n - 1)
  <2>1. \A r \in Readers \ {m} : e[r] \in 1..(n - 1)
    BY <1>10, <1>16
  <2>2. \A q, r \in Readers \ {m} : e[q] = e[r] => f[q] = f[r]
    BY <1>10, <1>16
  <2>3. e \in [Readers \ {m} -> 1..(n - 1)]
    BY <1>14, <2>1
  <2> QED
    BY <1>10, <2>2, <2>3 DEF IsRanking
<1>18. ASSUME NEW r \in Readers \ {m}
       PROVE  Sees(r, e[r])'
  <2>1. PICK i \in 1..n : i = f[r]
    BY <1>10
  <2>2. Filled <= View(r) + Room(i) \/ Filled <= Ceiling + Room(i + 1)
    BY <1>9, <2>1 DEF Sees
  <2>3. /\ View(r) \in Nat /\ View(r)' = View(r)
        /\ Room(i) \in Int /\ Room(i + 1) \in Int
    <3>1. i \in Int /\ i + 1 \in Int
      OBVIOUS
    <3> QED
      BY <1>1, <1>4, <3>1
  <2>4. CASE i > k
    <3>1. e[r] = i - 1 /\ (i - 1) + 1 = i
      BY <1>16, <2>1, <2>4
    <3>2. PICK j \in Int : j = i - 1 /\ j + 1 = i
      OBVIOUS
    <3>3. Room(j) \in Int /\ Room(j) = Room(i) + Biggest
      BY <1>3, <3>2
    <3>4. Room(i) = Room(i + 1) + Biggest
      BY <1>3
    <3>5. \/ Filled' <= View(r) + Room(j)
          \/ Filled' <= Ceiling + Room(i)
      <4>1. Filled' <= Filled + Biggest /\ Biggest \in Nat
        BY <1>3
      <4>2. CASE Filled <= View(r) + Room(i)
        <5>1. Filled' <= View(r) + Room(j)
          BY <1>1, <1>2, <2>3, <3>3, <4>1, <4>2
        <5> QED
          BY <5>1
      <4>3. CASE Filled <= Ceiling + Room(i + 1)
        <5>1. Filled' <= Ceiling + Room(i)
          BY <1>1, <1>2, <2>3, <3>4, <4>1, <4>3
        <5> QED
          BY <5>1
      <4> QED
        BY <2>2, <4>2, <4>3
    <3>6. Sees(r, j)'
      BY <1>6, <2>3, <3>2, <3>5 DEF Sees
    <3> QED
      BY <3>1, <3>2, <3>6
  <2>5. CASE ~(i > k)
    <3>1. e[r] = i /\ i < k
      BY <1>16, <2>1, <2>5
    <3>2. Room(k) <= Room(i + 1) /\ Room(k) \in Int
      <4>1. k \in Int /\ i + 1 \in Int /\ i + 1 <= k
        BY <3>1
      <4> QED
        BY <1>4, <1>5, <4>1
    <3>3. \/ Filled' <= View(r) + Room(i)
          \/ Filled' <= Ceiling + Room(i + 1)
      <4>1. CASE Filled' = Filled
        BY <2>2, <4>1
      <4>2. CASE Filled' <= Ceiling + Room(k)
        <5>1. Filled' <= Ceiling + Room(i + 1)
          BY <1>1, <1>2, <2>3, <3>2, <4>2
        <5> QED
          BY <5>1
      <4> QED
        BY <1>12, <4>1, <4>2
    <3>4. Sees(r, i)'
      BY <1>6, <2>3, <3>3 DEF Sees
    <3> QED
      BY <3>1, <3>4
  <2> QED
    BY <2>4, <2>5
<1>19. Ranked'
  <2>1. IsRanking(e, Readers', Cardinality(Readers)')
    BY <1>8, <1>17
  <2>2. \A r \in Readers' : Sees(r, e[r])'
    BY <1>18
  <2> QED
    BY <2>1, <2>2 DEF Ranked
<1> QED
  BY <1>13, <1>19

\* A reader comes: its rank is the last.
LEMMA Joins ==
  ASSUME TypeOK, TypeOK', Capped, Ranked,
         NEW m \in Messages, m \notin Readers, Readers' = Readers \cup {m},
         UNCHANGED requeues, Filled' = Filled,
         \A r \in Readers : View(r)' = View(r),
         Filled <= View(m)' + Room(Cardinality(Readers) + 1)
  PROVE  Capped' /\ Ranked'
<1>1. /\ Filled \in Nat /\ Cardinality(Readers) \in Nat
      /\ IsFiniteSet(Readers)
  BY FilledFacts
<1>2. (\A i : Room(i)' = Room(i)) /\ Ceiling' = Ceiling
  BY DEF Room, Ceiling
<1>3. Capped'
  BY <1>2 DEF Capped
<1>4. PICK n \in Nat : n = Cardinality(Readers)
  BY <1>1
<1>5. Cardinality(Readers)' = n + 1
  BY <1>1, <1>4, FS_AddElement
<1>6. PICK f : /\ IsRanking(f, Readers, n)
               /\ \A r \in Readers : Sees(r, f[r])
  BY <1>4 DEF Ranked
<1>7. /\ \A r \in Readers : f[r] \in 1..n
      /\ \A q, r \in Readers : f[q] = f[r] => q = r
  BY <1>6 DEF IsRanking
<1>8. PICK e : e = [r \in Readers \cup {m} |-> IF r = m THEN n + 1 ELSE f[r]]
  OBVIOUS
<1>9. e[m] = n + 1 /\ \A r \in Readers : e[r] = f[r]
  BY <1>8
<1>10. IsRanking(e, Readers \cup {m}, n + 1)
  <2>1. \A r \in Readers \cup {m} : e[r] \in 1..(n + 1)
    BY <1>7, <1>9
  <2>2. \A q, r \in Readers \cup {m} : e[q] = e[r] => q = r
    BY <1>7, <1>9
  <2>3. e \in [Readers \cup {m} -> 1..(n + 1)]
    BY <1>8, <2>1
  <2> QED
    BY <2>2, <2>3 DEF IsRanking
<1>11. ASSUME NEW r \in Readers \cup {m}
       PROVE  Sees(r, e[r])'
  <2>1. CASE r = m
    <3>1. Sees(m, n + 1)'
      BY <1>2, <1>4 DEF Sees
    <3> QED
      BY <1>9, <2>1, <3>1
  <2>2. CASE r \in Readers
    <3>1. PICK i \in Int : i = f[r]
      BY <1>7, <2>2
    <3>2. Sees(r, i)
      BY <1>6, <2>2, <3>1
    <3>3. Sees(r, i)'
      BY <1>2, <2>2, <3>2 DEF Sees
    <3> QED
      BY <1>9, <2>2, <3>1, <3>3
  <2> QED
    BY <2>1, <2>2
<1>12. Ranked'
  <2>1. IsRanking(e, Readers', Cardinality(Readers)')
    BY <1>5, <1>10
  <2>2. \A r \in Readers' : Sees(r, e[r])'
    BY <1>11
  <2> QED
    BY <2>1, <2>2 DEF Ranked
<1> QED
  BY <1>3, <1>12

\* What the messages in some phases occupy.
Load(S) == Cardinality(BytesOf(In(S), size, Header))

Kept == {"admitted", "queued", "failing", "failed", "requeued"}

\* A message that moves changes a load by its own bytes or not at all.
LEMMA LoadMoves ==
  ASSUME TypeOK, size' \in [Messages -> Sizes], NEW m \in Messages,
         NEW a, NEW b, Move(m, a, b), NEW S,
         \A j \in Messages : j # m \/ b \in S => size'[j] = size[j]
  PROVE  /\ (a \in S <=> b \in S) => Load(S)' = Load(S)
         /\ a \in S /\ b \notin S => Load(S)' = Load(S) - Stored(m)
         /\ a \notin S /\ b \in S => Load(S)' = Load(S) + Stored(m)
<1>1. /\ m \in In(S) <=> a \in S
      /\ In(S)' = IF b \in S THEN In(S) \cup {m} ELSE In(S) \ {m}
  BY MovedIn
<1>2. Tally(Load(S), In(S), size, Header)
  <2>1. In(S) \in SUBSET Messages /\ size \in [Messages -> Sizes]
    BY DEF In, TypeOK
  <2> QED
    BY <2>1, BytesCap DEF Tally, Load
<1>3. size[m] + Header \in Nat
  BY SizeNat
<1>4. ASSUME NEW x, Tally(x, In(S)', size, Header)
      PROVE  Load(S)' = x
  <2>1. \A j \in In(S)' : size'[j] = size[j]
    BY <1>1 DEF In
  <2>2. Tally(x, In(S)', size', Header)
    BY <1>4, <2>1, TallySame
  <2>3. x = Cardinality(BytesOf(In(S)', size', Header))
    BY <2>2 DEF Tally
  <2>4. Load(S)' = Cardinality(BytesOf(In(S)', size', Header))
    BY DEF Load, BytesOf
  <2> QED
    BY <2>3, <2>4
<1>5. ASSUME a \in S <=> b \in S
      PROVE  Load(S)' = Load(S)
  <2>1. In(S)' = In(S)
    BY <1>1, <1>5
  <2> QED
    BY <1>2, <1>4, <2>1
<1>6. ASSUME a \in S, b \notin S
      PROVE  Load(S)' = Load(S) - Stored(m)
  <2>1. In(S)' = In(S) \ {m} /\ m \in In(S)
    BY <1>1, <1>6
  <2>2. Tally(Load(S) - (size[m] + Header), In(S) \ {m}, size, Header)
    BY <1>2, <1>3, <2>1, TallyDrop
  <2> QED
    BY <1>4, <2>1, <2>2 DEF Stored
<1>7. ASSUME a \notin S, b \in S
      PROVE  Load(S)' = Load(S) + Stored(m)
  <2>1. In(S)' = In(S) \cup {m} /\ m \notin In(S)
    BY <1>1, <1>7
  <2>2. Tally(Load(S) + (size[m] + Header), In(S) \cup {m}, size, Header)
    BY <1>2, <1>3, <2>1, TallyAdd
  <2> QED
    BY <1>4, <2>1, <2>2 DEF Stored
<1> QED
  BY <1>5, <1>6, <1>7

\* What is filled, and what a view counts, as loads.
LEMMA Loads ==
  /\ Filled = Load(Kept) /\ Filled' = Load(Kept)'
  /\ \A r : View(r) = IF phase[r] = "read1" THEN seen[r] + Load({"failed"})
                                            ELSE seen[r]
  /\ \A r : View(r)' = IF phase'[r] = "read1"
                         THEN seen'[r] + Load({"failed"})' ELSE seen'[r]
<1>1. Filled = Load(Kept) /\ Filled' = Load(Kept)'
  BY DEF Filled, Load, Kept, Present
<1>2. ASSUME NEW r
      PROVE  View(r) = IF phase[r] = "read1" THEN seen[r] + Load({"failed"})
                                             ELSE seen[r]
  BY DEF View, Load, Lying
<1>3. ASSUME NEW r
      PROVE  View(r)' = IF phase'[r] = "read1"
                          THEN seen'[r] + Load({"failed"})' ELSE seen'[r]
  BY DEF View, Load, Lying
<1> QED
  BY <1>1, <1>2, <1>3

\* A load is a number.
LEMMA LoadNat ==
  ASSUME TypeOK, NEW S
  PROVE  Load(S) \in Nat
<1>1. In(S) \in SUBSET Messages /\ size \in [Messages -> Sizes]
  BY DEF In, TypeOK
<1> QED
  BY <1>1, BytesCap DEF Load

\* A message of the spool is no larger than the largest.
LEMMA StoredNat ==
  ASSUME TypeOK, NEW m \in Messages
  PROVE  Stored(m) \in Nat /\ Stored(m) <= Biggest
<1>1. size[m] \in Sizes
  BY DEF TypeOK
<1> QED
  BY <1>1, BiggestNat DEF Stored

\* What becomes of a message once it is reserved, and the Commits that read:
\* a message they will not see has left the spool, or was there already, or
\* is a requeue, which makes room for one.
LEMMA Quiet ==
  ASSUME TypeOK, TypeOK', Capped, Ranked, NEW m \in Messages,
         NEW a \in Phases \ {"read1", "read2"},
         NEW b \in Phases \ {"read1", "read2"},
         Move(m, a, b), UNCHANGED seen, a \in Kept \/ b = "none",
         \/ requeues' = requeues /\ (a = "failed" => b \in {"failed", "none"})
         \/ requeues' = requeues + 1 /\ a \in Kept /\ b \in Kept,
         \A j \in Messages : j # m \/ b # "none" => size'[j] = size[j]
  PROVE  Capped' /\ Ranked'
<1>1. size' \in [Messages -> Sizes]
  BY DEF TypeOK
<1>2. Readers' = Readers
  <2>1. a \notin {"read1", "read2"} /\ b \notin {"read1", "read2"}
    OBVIOUS
  <2>2. /\ m \notin In({"read1", "read2"})
        /\ In({"read1", "read2"})' = In({"read1", "read2"}) \ {m}
    BY <2>1, MovedIn
  <2> QED
    BY <2>2 DEF Readers
<1>3. /\ (a \in Kept <=> b \in Kept) => Filled' = Filled
      /\ a \in Kept /\ b \notin Kept => Filled' = Filled - Stored(m)
  <2>1. \A j \in Messages : j # m \/ b \in Kept => size'[j] = size[j]
    BY DEF Kept
  <2>2. /\ (a \in Kept <=> b \in Kept) => Load(Kept)' = Load(Kept)
        /\ a \in Kept /\ b \notin Kept
             => Load(Kept)' = Load(Kept) - Stored(m)
    BY <1>1, <2>1, LoadMoves
  <2> QED
    BY <2>2, Loads
<1>4. PICK F : F = {"failed"}
  OBVIOUS
<1>5. /\ (a \in F <=> b \in F) => Load(F)' = Load(F)
      /\ a \in F /\ b \notin F => Load(F)' = Load(F) - Stored(m)
      /\ a \notin F /\ b \in F => Load(F)' = Load(F) + Stored(m)
  <2>1. \A j \in Messages : j # m \/ b \in F => size'[j] = size[j]
    BY <1>4
  <2> QED
    BY <1>1, <2>1, LoadMoves
<1>6. Stored(m) \in Nat /\ Stored(m) <= Biggest /\ Biggest \in Nat
        /\ Load(F) \in Nat
  BY StoredNat, BiggestNat, LoadNat
<1>7. ASSUME NEW x \in Nat, Load(F) <= Load(F)' + x, Load(F)' \in Int,
             NEW r \in Readers
      PROVE  View(r) <= View(r)' + x
  <2>1. r \in Messages /\ r # m /\ phase'[r] = phase[r] /\ seen'[r] = seen[r]
          /\ seen[r] \in Nat
    BY DEF Readers, In, Move, TypeOK
  <2>2. View(r) = IF phase[r] = "read1" THEN seen[r] + Load(F) ELSE seen[r]
    BY <1>4, Loads
  <2>3. View(r)' = IF phase[r] = "read1" THEN seen[r] + Load(F)' ELSE seen[r]
    BY <1>4, <2>1, Loads
  <2>4. CASE phase[r] = "read1"
    BY <1>6, <1>7, <2>1, <2>2, <2>3, <2>4
  <2>5. CASE phase[r] # "read1"
    BY <1>7, <2>1, <2>2, <2>3, <2>5
  <2> QED
    BY <2>4, <2>5
<1>8. \A r \in Readers : View(r) \in Nat /\ View(r)' \in Nat
  <2>1. Readers \in SUBSET Messages
    BY DEF Readers, In
  <2> QED
    BY <2>1, FilledFacts, FilledFactsNext
<1>9. CASE requeues' = requeues /\ (a = "failed" => b \in {"failed", "none"})
  <2>1. PICK d \in Nat : d = IF a \in Kept /\ b \notin Kept
                               THEN Stored(m) ELSE 0
    BY <1>6
  <2>2. Filled' = Filled - d
    <3>1. Filled \in Nat
      BY FilledFacts
    <3>2. CASE a \in Kept /\ b \notin Kept
      BY <1>3, <2>1, <3>2
    <3>3. CASE ~(a \in Kept /\ b \notin Kept)
      <4>1. b \notin Kept => a \notin Kept
        BY <3>3
      <4>2. a \in Kept <=> b \in Kept
        BY <3>3, <4>1 DEF Kept
      <4> QED
        BY <1>3, <2>1, <3>1, <3>3, <4>2
    <3> QED
      BY <3>2, <3>3
  <2>3. Load(F) <= Load(F)' + d /\ Load(F)' \in Int
    <3>1. CASE a \in F /\ b \notin F
      <4>1. a \in Kept /\ b \notin Kept
        BY <1>4, <1>9, <3>1 DEF Kept
      <4> QED
        BY <1>5, <1>6, <2>1, <3>1, <4>1
    <3>2. CASE a \notin F /\ b \in F
      BY <1>5, <1>6, <2>1, <3>2
    <3>3. CASE a \in F <=> b \in F
      BY <1>5, <1>6, <2>1, <3>3
    <3> QED
      BY <3>1, <3>2, <3>3
  <2>4. \A r \in Readers : View(r) <= View(r)' + d + 0
    <3>1. \A r \in Readers : View(r) <= View(r)' + d
      BY <1>7, <2>3
    <3> QED
      BY <1>8, <3>1
  <2>5. \A i \in Int : Room(i)' = Room(i) + 0
    <3>1. \A i \in Int : Room(i)' = Room(i) /\ Room(i) \in Int
      <4>1. \A i \in Int : Room(i) \in Int
        BY RoomFacts
      <4>2. \A i \in Int : Room(i)' = Room(i)
        BY <1>9 DEF Room
      <4> QED
        BY <4>1, <4>2
    <3> QED
      BY <3>1
  <2> QED
    BY <1>2, <2>2, <2>4, <2>5, Drift
<1>10. CASE requeues' = requeues + 1 /\ a \in Kept /\ b \in Kept
  <2>1. Filled' = Filled - 0
    <3>1. Filled' = Filled /\ Filled \in Nat
      BY <1>3, <1>10, FilledFacts
    <3> QED
      BY <3>1
  <2>2. Load(F) <= Load(F)' + Biggest /\ Load(F)' \in Int
    <3>1. CASE a \in F /\ b \notin F
      BY <1>5, <1>6, <3>1
    <3>2. CASE a \notin F /\ b \in F
      BY <1>5, <1>6, <3>2
    <3>3. CASE a \in F <=> b \in F
      BY <1>5, <1>6, <3>3
    <3> QED
      BY <3>1, <3>2, <3>3
  <2>3. \A r \in Readers : View(r) <= View(r)' + 0 + Biggest
    <3>1. \A r \in Readers : View(r) <= View(r)' + Biggest
      BY <1>6, <1>7, <2>2
    <3> QED
      BY <1>6, <1>8, <3>1
  <2>4. \A i \in Int : Room(i)' = Room(i) + Biggest
    <3>1. /\ Sessions \in Int /\ Movers \in Int /\ requeues \in Int
          /\ Biggest \in Nat
      BY <1>6, QuotaAssumption DEF TypeOK
    <3>2. \A p \in Nat, x \in Int : p * (x + 1) = p * x + p
      OBVIOUS
    <3>3. ASSUME NEW i \in Int
          PROVE  Room(i)' = Room(i) + Biggest
      <4>1. PICK x \in Int : x = Sessions - i + Movers + requeues
        BY <3>1
      <4>2. Sessions - i + Movers + requeues' = x + 1
        BY <1>10, <3>1, <4>1
      <4>3. Room(i)' = Biggest * (Sessions - i + Movers + requeues')
        BY DEF Room, Biggest
      <4>4. Room(i)' = Biggest * (x + 1) /\ Room(i) = Biggest * x
        BY <4>1, <4>2, <4>3 DEF Room
      <4> QED
        BY <3>1, <3>2, <4>4
    <3> QED
      BY <3>3
  <2> QED
    BY <1>2, <1>6, <2>1, <2>3, <2>4, Drift
<1> QED
  BY <1>9, <1>10

\* A Commit that begins to read finds, but for the failures under way, all
\* that the Commits before it do not still hold.
LEMMA ReadLiveSees ==
  ASSUME LedgerInv, FewMovers, AdmittedHeld, NEW m \in Messages,
         m \notin held, m \notin Readers,
         Cardinality(Readers \cup held) < Sessions
  PROVE  Filled <= live + Load({"failed"}) + Room(Cardinality(Readers) + 1)
<1>1. TypeOK /\ Unreserved /\ Tallies
  BY DEF LedgerInv
<1>2. /\ size \in [Messages -> Sizes] /\ held \in SUBSET Messages
      /\ \A S : In(S) \in SUBSET Messages
  BY <1>1 DEF TypeOK, In
<1>3. PICK L, A, G, W \in SUBSET Messages :
        L = InLive /\ A = In({"admitted"}) /\ G = In({"failing"})
          /\ W = In({"failed"})
  BY <1>2 DEF InLive
<1>4. Present = L \cup (W \cup (G \cup A))
  BY <1>3 DEF Present, InLive, In
<1>5. PICK cl, ca, cg, cw \in Nat :
        /\ cl = Cardinality(BytesOf(L, size, Header))
        /\ ca = Cardinality(BytesOf(A, size, Header))
        /\ cg = Cardinality(BytesOf(G, size, Header))
        /\ cw = Cardinality(BytesOf(W, size, Header))
  BY <1>2, BytesCap
<1>6. Filled <= cl + (cw + (cg + ca))
  <2>1. PICK x, y \in Nat :
          /\ x = Cardinality(BytesOf(W \cup (G \cup A), size, Header))
          /\ y = Cardinality(BytesOf(G \cup A, size, Header))
    <3>1. W \cup (G \cup A) \in SUBSET Messages /\ G \cup A \in SUBSET Messages
      OBVIOUS
    <3> QED
      BY <1>2, <3>1, BytesCap
  <2>2. y <= cg + ca
    BY <1>2, <1>5, <2>1, BytesJoin
  <2>3. x <= cw + y
    <3>1. G \cup A \in SUBSET Messages
      OBVIOUS
    <3> QED
      BY <1>2, <1>5, <2>1, <3>1, BytesJoin
  <2>4. Filled <= cl + x
    <3>1. W \cup (G \cup A) \in SUBSET Messages
      OBVIOUS
    <3>2. Cardinality(BytesOf(L \cup (W \cup (G \cup A)), size, Header))
            <= cl + x
      BY <1>2, <1>5, <2>1, <3>1, BytesJoin
    <3> QED
      BY <1>4, <3>2 DEF Filled
  <2>5. Filled \in Nat
    BY <1>1, FilledFacts
  <2> QED
    BY <2>2, <2>3, <2>4, <2>5
<1>7. cl = live /\ cw = Load({"failed"})
  BY <1>1, <1>3, <1>5 DEF Tallies, Tally, Load
<1>8. PICK n, k \in Nat : n = Cardinality(Readers) /\ k = Cardinality(held)
  <2>1. Readers \in SUBSET Messages
    BY <1>2 DEF Readers
  <2> QED
    BY <1>2, <2>1, BytesCap
<1>9. n + k < Sessions
  <2>1. IsFiniteSet(Readers) /\ IsFiniteSet(held)
    BY <1>1, <1>2, FilledFacts, BytesCap
  <2>2. Readers \cap held = {}
    BY <1>1 DEF Unreserved, Readers, In
  <2>3. Cardinality(Readers \cap held) = 0
    BY <2>2, FS_EmptySet
  <2>4. Cardinality(Readers \cup held) = n + k - 0
    BY <1>8, <2>1, <2>3, FS_Union
  <2> QED
    BY <1>8, <2>4
<1>10. cg <= Movers * Biggest
  <2>1. PICK g \in Nat : g = Cardinality(G) /\ cg <= g * Biggest
    BY <1>2, <1>5, BytesCap
  <2>2. g <= Movers
    BY <1>3, <2>1 DEF FewMovers
  <2>3. \A x, y, z \in Nat : x <= y => x * z <= y * z
    OBVIOUS
  <2>4. \A x, y \in Nat : x * y \in Nat
    OBVIOUS
  <2>5. Movers \in Nat /\ Biggest \in Nat
    BY QuotaAssumption, BiggestNat
  <2>6. /\ g * Biggest <= Movers * Biggest
        /\ g * Biggest \in Nat /\ Movers * Biggest \in Nat
    BY <2>2, <2>3, <2>4, <2>5
  <2> QED
    BY <2>1, <2>6
<1>11. ca <= (Sessions - (n + 1)) * Biggest
  <2>1. PICK c \in Nat : c = Cardinality(A) /\ ca <= c * Biggest
    BY <1>2, <1>5, BytesCap
  <2>2. c <= k
    <3>1. A \in SUBSET held
      BY <1>3 DEF AdmittedHeld, In
    <3>2. IsFiniteSet(held)
      BY <1>2, BytesCap
    <3> QED
      BY <1>8, <2>1, <3>1, <3>2, FS_Subset
  <2>3. \A x, y, z \in Nat : x <= y => x * z <= y * z
    OBVIOUS
  <2>4. \A x, y \in Nat : x * y \in Nat
    OBVIOUS
  <2>5. PICK v \in Nat : v = Sessions - (n + 1) /\ c <= v
    BY <1>9, <2>2, QuotaAssumption
  <2>6. /\ c * Biggest <= v * Biggest
        /\ c * Biggest \in Nat /\ v * Biggest \in Nat
    BY <2>3, <2>4, <2>5, BiggestNat
  <2> QED
    BY <2>1, <2>5, <2>6
<1>12. cg + ca <= Room(n + 1)
  <2>1. PICK v \in Nat : v = Sessions - (n + 1)
    BY <1>9, QuotaAssumption
  <2>2. Movers \in Nat /\ Biggest \in Nat /\ requeues \in Nat
    BY <1>1, QuotaAssumption, BiggestNat DEF TypeOK
  <2>3. PICK p, q, t \in Nat :
          p = v * Biggest /\ q = Movers * Biggest /\ t = requeues * Biggest
    <3>1. \A x, y \in Nat : x * y \in Nat
      OBVIOUS
    <3> QED
      BY <2>2, <3>1
  <2>4. cg + ca <= p + q
    BY <1>10, <1>11, <2>1, <2>3
  <2>5. Biggest * (v + Movers + requeues) = p + q + t
    <3>1. \A x, y, z, w \in Nat : x * (y + z + w) = y * x + z * x + w * x
      OBVIOUS
    <3> QED
      BY <2>2, <2>3, <3>1
  <2>6. Room(n + 1) = p + q + t
    BY <2>1, <2>5 DEF Room
  <2> QED
    BY <2>4, <2>6
<1>13. Room(n + 1) \in Int
  <2>1. \A i \in Int : Room(i) \in Int
    BY <1>1, RoomFacts
  <2> QED
    BY <2>1
<1>14. Filled \in Nat
  BY <1>1, FilledFacts
<1> QED
  BY <1>6, <1>7, <1>8, <1>12, <1>13, <1>14

\* The Commits that read and the room they leave, through the first half of
\* Commit.
LEMMA ReaderSteps ==
  ASSUME LedgerInv, LedgerInv', FewMovers, AdmittedHeld, Capped, Ranked,
         MaxBytes > 0, NEW m \in Messages,
         \/ \E s \in Sizes : ReadLive(m, s)
         \/ ReadFailed(m) \/ Reserve(m) \/ ErrQuotaExceeded(m)
  PROVE  Capped' /\ Ranked'
<1>1. TypeOK /\ TypeOK' /\ Unreserved /\ Tallies
  BY DEF LedgerInv
<1>2. /\ size \in [Messages -> Sizes] /\ size' \in [Messages -> Sizes]
      /\ seen \in [Messages -> Nat] /\ seen' \in [Messages -> Nat]
  BY <1>1 DEF TypeOK
<1>3. PICK F, R : F = {"failed"} /\ R = {"read1", "read2"}
  OBVIOUS
<1>4. Load(F) \in Nat /\ Stored(m) \in Nat /\ Stored(m) <= Biggest
        /\ Biggest \in Nat /\ Filled \in Nat /\ Filled' \in Nat
        /\ Ceiling \in Nat
  BY <1>1, LoadNat, StoredNat, BiggestNat, FilledFacts, FilledFactsNext
\* The view of a Commit that does not move.
<1>5. ASSUME NEW a, NEW b, Move(m, a, b), Load(F)' = Load(F),
             \A j \in Messages : j # m => seen'[j] = seen[j]
      PROVE  \A r \in Readers \ {m} : View(r)' = View(r)
  <2>1. ASSUME NEW r \in Readers \ {m}
        PROVE  View(r)' = View(r)
    <3>1. r \in Messages /\ phase'[r] = phase[r] /\ seen'[r] = seen[r]
      BY <1>1, <1>5 DEF Readers, In, Move, TypeOK
    <3>2. View(r) = IF phase[r] = "read1" THEN seen[r] + Load(F) ELSE seen[r]
      BY <1>3, Loads
    <3>3. View(r)' = IF phase'[r] = "read1" THEN seen'[r] + Load(F)'
                                            ELSE seen'[r]
      BY <1>3, Loads
    <3> QED
      BY <1>5, <3>1, <3>2, <3>3
  <2> QED
    BY <2>1
<1>6. CASE \E s \in Sizes : ReadLive(m, s)
  <2>1. PICK s \in Sizes : ReadLive(m, s)
    BY <1>6
  <2>2. /\ Cardinality(Readers \cup held) < Sessions /\ m \notin held
        /\ Move(m, "none", "read1") /\ size' = [size EXCEPT ![m] = s]
        /\ seen' = [seen EXCEPT ![m] = live] /\ requeues' = requeues
    BY <2>1 DEF ReadLive, Readers
  <2>3. m \notin Readers /\ Readers' = Readers \cup {m}
    BY <1>1, <2>2, MovedIn DEF Readers
  <2>4. \A j \in Messages : j # m => size'[j] = size[j]
    BY <1>2, <2>2
  <2>5. Load(F)' = Load(F)
    BY <1>1, <1>2, <1>3, <2>2, <2>4, LoadMoves
  <2>6. Filled' = Filled
    <3>1. "none" \notin Kept /\ "read1" \notin Kept
      BY DEF Kept
    <3>2. Load(Kept)' = Load(Kept)
      BY <1>1, <1>2, <2>2, <2>4, <3>1, LoadMoves
    <3> QED
      BY <3>2, Loads
  <2>7. \A r \in Readers : View(r)' = View(r)
    <3>1. \A j \in Messages : j # m => seen'[j] = seen[j]
      BY <1>2, <2>2
    <3> QED
      BY <1>5, <2>2, <2>3, <2>5, <3>1
  <2>8. View(m)' = live + Load(F)
    <3>1. phase'[m] = "read1" /\ seen'[m] = live
      BY <1>1, <1>2, <2>2 DEF Move, TypeOK
    <3>2. View(m)' = IF phase'[m] = "read1" THEN seen'[m] + Load(F)'
                                            ELSE seen'[m]
      BY <1>3, Loads
    <3> QED
      BY <2>5, <3>1, <3>2
  <2>9. Filled <= live + Load(F) + Room(Cardinality(Readers) + 1)
    BY <1>3, <2>2, <2>3, ReadLiveSees
  <2> QED
    BY <1>1, <2>2, <2>3, <2>6, <2>7, <2>8, <2>9, Joins
<1>7. CASE ReadFailed(m)
  <2>1. /\ Move(m, "read1", "read2")
        /\ seen' = [seen EXCEPT ![m] = @ + failed]
        /\ size' = size /\ requeues' = requeues
    BY <1>7 DEF ReadFailed
  <2>2. Readers' = Readers
    <3>1. m \in In(R) /\ In(R)' = In(R) \cup {m}
      BY <1>1, <1>3, <2>1, MovedIn
    <3> QED
      BY <1>3, <3>1 DEF Readers
  <2>3. Load(F)' = Load(F)
    BY <1>1, <1>2, <1>3, <2>1, LoadMoves
  <2>4. Filled' = Filled - 0
    <3>1. "read1" \notin Kept /\ "read2" \notin Kept
      BY DEF Kept
    <3>2. Load(Kept)' = Load(Kept)
      BY <1>1, <1>2, <2>1, <3>1, LoadMoves
    <3>3. Filled' = Filled
      BY <3>2, Loads
    <3> QED
      BY <1>4, <3>3
  <2>5. View(m) <= View(m)'
    <3>1. phase[m] = "read1" /\ phase'[m] = "read2"
            /\ seen[m] \in Nat /\ seen'[m] = seen[m] + failed
      BY <1>1, <1>2, <2>1 DEF Move, TypeOK
    <3>2. Load(F) <= failed
      <4>1. In(F) \in SUBSET Messages /\ InFailed \in SUBSET Messages
              /\ In(F) \subseteq InFailed
        BY <1>3 DEF In, InFailed
      <4>2. Load(F) <= Cardinality(BytesOf(InFailed, size, Header))
        BY <1>2, <4>1, BytesJoin DEF Load
      <4> QED
        BY <1>1, <4>2 DEF Tallies, Tally
    <3>3. View(m) = seen[m] + Load(F)
      BY <1>3, <3>1, Loads
    <3>4. View(m)' = seen[m] + failed
      BY <1>3, <3>1, Loads
    <3>5. failed \in Nat
      BY <1>1 DEF TypeOK
    <3> QED
      BY <1>4, <3>1, <3>2, <3>3, <3>4, <3>5
  <2>6. \A r \in Readers : View(r) <= View(r)' + 0 + 0
    <3>1. \A j \in Messages : j # m => seen'[j] = seen[j]
      BY <1>2, <2>1
    <3>2. \A r \in Readers \ {m} : View(r)' = View(r)
      BY <1>5, <2>1, <2>3, <3>1
    <3>3. Readers \in SUBSET Messages
      BY DEF Readers, In
    <3>4. \A r \in Readers : View(r) \in Nat /\ View(r)' \in Nat
      BY <1>1, <3>3, FilledFacts, FilledFactsNext
    <3> QED
      BY <2>5, <3>2, <3>4
  <2>7. \A i \in Int : Room(i)' = Room(i) + 0
    <3>1. \A i \in Int : Room(i) \in Int
      BY <1>1, RoomFacts
    <3>2. \A i \in Int : Room(i)' = Room(i)
      BY <2>1 DEF Room
    <3> QED
      BY <3>1, <3>2
  <2> QED
    BY <1>1, <2>2, <2>4, <2>6, <2>7, Drift
<1>8. CASE Reserve(m)
  <2>1. /\ Fits(m) /\ Move(m, "read2", "admitted")
        /\ seen' = [seen EXCEPT ![m] = 0]
        /\ size' = size /\ requeues' = requeues
    BY <1>8 DEF Reserve
  <2>2. m \in Readers /\ Readers' = Readers \ {m}
    BY <1>1, <2>1, MovedIn DEF Readers
  <2>3. Load(F)' = Load(F)
    BY <1>1, <1>2, <1>3, <2>1, LoadMoves
  <2>4. Filled' = Filled + Stored(m)
    <3>1. "read2" \notin Kept /\ "admitted" \in Kept
      BY DEF Kept
    <3>2. Load(Kept)' = Load(Kept) + Stored(m)
      BY <1>1, <1>2, <2>1, <3>1, LoadMoves
    <3> QED
      BY <3>2, Loads
  <2>5. \A r \in Readers \ {m} : View(r)' = View(r)
    <3>1. \A j \in Messages : j # m => seen'[j] = seen[j]
      BY <1>2, <2>1
    <3> QED
      BY <1>5, <2>1, <2>3, <3>1
  <2>6. View(m) \in Nat /\ View(m) + Stored(m) <= Ceiling
    <3>1. phase[m] = "read2" /\ seen[m] \in Nat
      BY <1>2, <2>1 DEF Move
    <3>2. View(m) = seen[m]
      BY <3>1, Loads
    <3>3. /\ seen[m] + reserved + size[m] <= MaxBytes
          /\ reserved \in Nat /\ size[m] \in Nat
          /\ MaxBytes \in Nat /\ Header \in Nat
      BY <1>1, <2>1, SizeNat, QuotaAssumption DEF Fits, TypeOK
    <3> QED
      BY <3>1, <3>2, <3>3 DEF Stored, Ceiling
  <2>7. ASSUME NEW i \in Int, Sees(m, i)
        PROVE  Filled' <= Ceiling + Room(i)
    <3>1. Room(i) \in Int /\ Room(i + 1) \in Int
            /\ Room(i) = Room(i + 1) + Biggest
      <4>1. i + 1 \in Int
        OBVIOUS
      <4> QED
        BY <1>1, <4>1, RoomFacts
    <3>2. CASE Filled <= View(m) + Room(i)
      BY <1>4, <2>4, <2>6, <3>1, <3>2
    <3>3. CASE Filled <= Ceiling + Room(i + 1)
      BY <1>4, <2>4, <3>1, <3>3
    <3> QED
      BY <2>7, <3>2, <3>3 DEF Sees
  <2>8. Filled' <= Filled + Biggest
    BY <1>4, <2>4
  <2> QED
    BY <1>1, <2>1, <2>2, <2>5, <2>7, <2>8, Leaves
<1>9. CASE ErrQuotaExceeded(m)
  <2>1. /\ Gone(m, "read2") /\ requeues' = requeues
        /\ seen' = [seen EXCEPT ![m] = 0]
    BY <1>9 DEF ErrQuotaExceeded
  <2>2. /\ Move(m, "read2", "none")
        /\ \A j \in Messages : j # m => size'[j] = size[j]
    BY <1>1, <2>1, GoneResizes
  <2>3. m \in Readers /\ Readers' = Readers \ {m}
    BY <1>1, <2>2, MovedIn DEF Readers
  <2>4. Load(F)' = Load(F)
    BY <1>1, <1>2, <1>3, <2>2, LoadMoves
  <2>5. Filled' = Filled
    <3>1. "read2" \notin Kept /\ "none" \notin Kept
      BY DEF Kept
    <3>2. Load(Kept)' = Load(Kept)
      BY <1>1, <1>2, <2>2, <3>1, LoadMoves
    <3> QED
      BY <3>2, Loads
  <2>6. \A r \in Readers \ {m} : View(r)' = View(r)
    <3>1. \A j \in Messages : j # m => seen'[j] = seen[j]
      BY <1>2, <2>1
    <3> QED
      BY <1>5, <2>2, <2>4, <3>1
  <2>7. Filled' <= Filled + Biggest
    BY <1>4, <2>5
  <2> QED
    BY <1>1, <2>1, <2>3, <2>5, <2>6, <2>7, Leaves
<1> QED
  BY <1>6, <1>7, <1>8, <1>9

\* The same through the second half of Commit and all that can happen to a
\* queued message.
LEMMA QuietSteps ==
  ASSUME LedgerInv, LedgerInv', Capped, Ranked, NEW m \in Messages,
         \/ CommitError(m) \/ Put(m) \/ Release(m)
         \/ Remove(m) \/ FailDrop(m) \/ FailPut(m)
         \/ RequeuePut(m) \/ RequeueDrop(m) \/ SweepDrop(m)
  PROVE  Capped' /\ Ranked'
<1>1. TypeOK /\ TypeOK' /\ Unreserved
  BY DEF LedgerInv
<1>2. "none" \in Phases \ {"read1", "read2"}
        /\ Kept \subseteq Phases \ {"read1", "read2"} /\ "none" \notin Kept
  BY DEF Phases, Kept
<1>3. {"admitted", "queued", "failing", "failed", "requeued"} \subseteq Kept
  BY DEF Kept
<1>4. ASSUME NEW a \in Kept, Gone(m, a), UNCHANGED <<seen, requeues>>
      PROVE  Capped' /\ Ranked'
  <2>1. /\ Move(m, a, "none")
        /\ \A j \in Messages : j # m => size'[j] = size[j]
    BY <1>1, <1>4, GoneResizes
  <2> QED
    BY <1>1, <1>2, <1>4, <2>1, Quiet
<1>5. ASSUME NEW a \in Kept \ {"failed"}, NEW b \in Kept, Move(m, a, b),
             UNCHANGED <<seen, size, requeues>>
      PROVE  Capped' /\ Ranked'
  BY <1>1, <1>2, <1>5, Quiet
<1>6. CASE CommitError(m)
  BY <1>3, <1>4, <1>6 DEF CommitError
<1>7. CASE Put(m)
  BY <1>3, <1>5, <1>7 DEF Put
<1>8. CASE Release(m)
  <2>1. /\ m \in held /\ phase[m] # "admitted" /\ phase' = phase
        /\ size' = [size EXCEPT ![m] = IF phase[m] = "none"
                                         THEN Min(Sizes) ELSE @]
        /\ UNCHANGED <<seen, requeues>>
    BY <1>8 DEF Release
  <2>2. PICK a \in Phases : a = phase[m]
    BY <1>1 DEF TypeOK
  <2>3. a \notin {"read1", "read2"} /\ (a \in Kept \/ a = "none")
    BY <1>1, <2>1, <2>2 DEF Unreserved, Kept, Phases
  <2>4. Move(m, a, a)
    BY <1>1, <2>1, <2>2 DEF Move, TypeOK
  <2>5. \A j \in Messages : j # m \/ a # "none" => size'[j] = size[j]
    BY <1>1, <2>1, <2>2 DEF TypeOK
  <2> QED
    BY <1>1, <2>1, <2>3, <2>4, <2>5, Quiet
<1>9. CASE Remove(m)
  BY <1>3, <1>4, <1>9 DEF Remove
<1>10. CASE FailDrop(m)
  BY <1>3, <1>5, <1>10 DEF FailDrop
<1>11. CASE FailPut(m)
  BY <1>3, <1>5, <1>11 DEF FailPut
<1>12. CASE RequeuePut(m)
  <2>1. /\ Move(m, "failed", "requeued") /\ requeues' = requeues + 1
        /\ UNCHANGED <<seen, size>>
    BY <1>12 DEF RequeuePut
  <2> QED
    BY <1>1, <1>2, <1>3, <2>1, Quiet
<1>13. CASE RequeueDrop(m)
  BY <1>3, <1>5, <1>13 DEF RequeueDrop
<1>14. CASE SweepDrop(m)
  BY <1>3, <1>4, <1>14 DEF SweepDrop
<1> QED
  BY <1>6, <1>7, <1>8, <1>9, <1>10, <1>11, <1>12, <1>13, <1>14

\* Only Fail starts moving a message, and only while few enough are moved.
LEMMA MoversStep ==
  ASSUME TypeOK, FewMovers, Next
  PROVE  FewMovers'
<1>1. PICK m \in Messages :
        \/ \E s \in Sizes : ReadLive(m, s)
        \/ ReadFailed(m) \/ Reserve(m) \/ ErrQuotaExceeded(m)
        \/ CommitError(m) \/ Put(m) \/ Release(m)
        \/ Remove(m) \/ FailDrop(m) \/ FailPut(m)
        \/ RequeuePut(m) \/ RequeueDrop(m) \/ SweepDrop(m)
  BY DEF Next
<1>2. PICK G \in SUBSET Messages : G = In({"failing"}) /\ IsFiniteSet(G)
        /\ Cardinality(G) \in Nat /\ Cardinality(G) <= Movers
  <2>1. In({"failing"}) \in SUBSET Messages
    BY DEF In
  <2> QED
    BY <2>1, FS_Subset, FS_CardinalityType, QuotaAssumption DEF FewMovers
<1>3. Movers \in Nat
  BY QuotaAssumption
<1>4. ASSUME NEW a, NEW b, Move(m, a, b), b # "failing"
      PROVE  FewMovers'
  <2>1. In({"failing"})' = G \ {m}
    BY <1>2, <1>4, MovedIn
  <2>2. /\ IsFiniteSet(G \ {m}) /\ Cardinality(G \ {m}) \in Nat
        /\ Cardinality(G \ {m}) <= Cardinality(G)
    BY <1>2, FS_Subset, FS_CardinalityType
  <2>3. Cardinality(G \ {m}) <= Movers
    BY <1>2, <1>3, <2>2
  <2> QED
    BY <2>1, <2>3 DEF FewMovers
<1>5. CASE FailDrop(m)
  <2>1. Move(m, "queued", "failing") /\ Cardinality(G) < Movers
    BY <1>2, <1>5 DEF FailDrop
  <2>2. In({"failing"})' = G \cup {m} /\ m \notin G
    BY <1>2, <2>1, MovedIn
  <2>3. Cardinality(G \cup {m}) = Cardinality(G) + 1
    BY <1>2, <2>2, FS_AddElement
  <2>4. Cardinality(G \cup {m}) <= Movers
    BY <1>2, <1>3, <2>1, <2>3
  <2> QED
    BY <2>2, <2>4 DEF FewMovers
<1>6. CASE Release(m)
  <2>1. In({"failing"})' = In({"failing"})
    BY <1>6 DEF Release, In
  <2> QED
    BY <2>1 DEF FewMovers
<1>7. CASE ~FailDrop(m) /\ ~Release(m)
  <2>1. PICK a, b : Move(m, a, b) /\ b # "failing"
    BY <1>1, <1>7 DEF ReadLive, ReadFailed, Reserve, ErrQuotaExceeded,
                      CommitError, Put, Remove, FailPut, RequeuePut,
                      RequeueDrop, SweepDrop, Gone
  <2> QED
    BY <1>4, <2>1
<1> QED
  BY <1>5, <1>6, <1>7

\* Only a Commit that has reserved is admitted, and it releases when it is
\* past the index.
LEMMA AdmittedStep ==
  ASSUME TypeOK, AdmittedHeld, Next
  PROVE  AdmittedHeld'
<1>1. PICK m \in Messages :
        \/ \E s \in Sizes : ReadLive(m, s)
        \/ ReadFailed(m) \/ Reserve(m) \/ ErrQuotaExceeded(m)
        \/ CommitError(m) \/ Put(m) \/ Release(m)
        \/ Remove(m) \/ FailDrop(m) \/ FailPut(m)
        \/ RequeuePut(m) \/ RequeueDrop(m) \/ SweepDrop(m)
  BY DEF Next
<1>2. CASE Reserve(m)
  BY <1>2 DEF Reserve, Move, AdmittedHeld, TypeOK
<1>3. CASE Release(m)
  BY <1>3 DEF Release, AdmittedHeld, TypeOK
<1>4. CASE ~Reserve(m) /\ ~Release(m)
  <2>1. held' = held
    BY <1>1, <1>4 DEF ReadLive, ReadFailed, ErrQuotaExceeded, CommitError,
                      Put, Remove, FailDrop, FailPut, RequeuePut,
                      RequeueDrop, SweepDrop
  <2>2. PICK a, b : Move(m, a, b) /\ b # "admitted"
    BY <1>1, <1>4 DEF ReadLive, ReadFailed, ErrQuotaExceeded, CommitError,
                      Put, Remove, FailDrop, FailPut, RequeuePut,
                      RequeueDrop, SweepDrop, Gone
  <2> QED
    BY <2>1, <2>2 DEF Move, AdmittedHeld, TypeOK
<1> QED
  BY <1>2, <1>3, <1>4

\* The empty spool is below its ceiling, and nobody reads.
LEMMA OverInit == Init => OverInv
<1> SUFFICES ASSUME Init
             PROVE  OverInv
  OBVIOUS
<1>1. TypeOK
  BY LedgerInit DEF LedgerInv
<1>2. In({"failing"}) = {} /\ Readers = {} /\ Present = {}
  BY DEF Init, In, Readers, Present
<1>3. Cardinality({}) = 0
  BY FS_EmptySet
<1>4. FewMovers
  BY <1>2, <1>3, QuotaAssumption DEF FewMovers
<1>5. AdmittedHeld
  BY DEF Init, AdmittedHeld
<1>6. Filled = 0
  <2>1. BytesOf({}, size, Header) = {}
    BY DEF BytesOf
  <2> QED
    BY <1>2, <1>3, <2>1 DEF Filled
<1>7. Ceiling + Room(1) >= 0
  <2>1. PICK x \in Nat : x = Sessions - 1 + Movers + requeues
    BY <1>1, QuotaAssumption DEF TypeOK
  <2>2. \A p, q \in Nat : p * q \in Nat
    OBVIOUS
  <2>3. Biggest * x \in Nat
    BY <2>2, BiggestNat
  <2>4. Room(1) \in Nat
    BY <2>1, <2>3 DEF Room
  <2> QED
    BY <1>1, <2>4, FilledFacts
<1>8. Capped
  BY <1>6, <1>7 DEF Capped
<1>9. Ranked
  <2>1. PICK f : f = [r \in {} |-> 0]
    OBVIOUS
  <2>2. IsRanking(f, {}, 0)
    BY <2>1 DEF IsRanking
  <2> QED
    BY <1>2, <1>3, <2>2 DEF Ranked
<1> QED
  BY <1>4, <1>5, <1>8, <1>9 DEF OverInv

\* The bound with its reasons, in every reachable state.
THEOREM OverAlways == Spec => []OverInv
<1>1. LedgerInv /\ LedgerInv' /\ OverInv /\ [Next]_vars => OverInv'
  <2> SUFFICES ASSUME LedgerInv, LedgerInv', OverInv, [Next]_vars
               PROVE  OverInv'
    OBVIOUS
  <2>1. CASE UNCHANGED vars
    BY <2>1 DEF vars, OverInv, FewMovers, AdmittedHeld, Capped, Ranked, Sees,
                View, Filled, Readers, Present, Lying, In, Room, Ceiling
  <2>2. CASE Next
    <3>1. TypeOK /\ FewMovers /\ AdmittedHeld
      BY DEF LedgerInv, OverInv
    <3>2. FewMovers' /\ AdmittedHeld'
      BY <2>2, <3>1, MoversStep, AdmittedStep
    <3>3. ASSUME MaxBytes > 0
          PROVE  Capped' /\ Ranked'
      <4>1. Capped /\ Ranked
        BY <3>3 DEF OverInv
      <4> QED
        BY <2>2, <3>1, <3>3, <4>1, ReaderSteps, QuietSteps DEF Next
    <3> QED
      BY <3>2, <3>3 DEF OverInv
  <2> QED
    BY <2>1, <2>2
<1> QED
  BY <1>1, LedgerAlways, OverInit, PTL DEF Spec

\* The messages counted twice over are still the messages that are there.
LEMMA OccupiedFits ==
  ASSUME TypeOK
  PROVE  Occupied \in Nat /\ Occupied <= Filled
<1>1. PICK X, A \in SUBSET Messages :
        /\ X = InLive \cup InFailed \cup In({"failing"})
        /\ A = In({"admitted"})
  BY DEF InLive, InFailed, In
<1>2. size \in [Messages -> Sizes] /\ X \cap A = {} /\ Present = X \cup A
  BY <1>1 DEF TypeOK, InLive, InFailed, Present, In
<1>3. PICK B, C : B = BytesOf(X, size, Header) /\ C = BytesOf(A, size, 0)
  OBVIOUS
<1>4. /\ IsFiniteSet(B) /\ IsFiniteSet(C)
      /\ Cardinality(B) \in Nat /\ Cardinality(C) \in Nat
  BY <1>2, <1>3, BytesCap
<1>5. B \cap C = {}
  BY <1>2, <1>3 DEF BytesOf
<1>6. B \cup C \in SUBSET BytesOf(Present, size, Header)
  <2>1. \A m \in A : 1..(size[m] + 0) \subseteq 1..(size[m] + Header)
    <3>1. \A m \in A : size[m] \in Nat /\ Header \in Nat
      BY <1>2, QuotaAssumption
    <3> QED
      BY <3>1
  <2>2. C \subseteq BytesOf(A, size, Header)
    BY <1>3, <2>1 DEF BytesOf
  <2>3. BytesOf(A, size, Header) \subseteq BytesOf(Present, size, Header)
    BY <1>2 DEF BytesOf
  <2>4. B \subseteq BytesOf(Present, size, Header)
    BY <1>2, <1>3 DEF BytesOf
  <2> QED
    BY <2>2, <2>3, <2>4
<1>7. Occupied = Cardinality(B) + Cardinality(C)
  <2>1. \A S, h : Bytes(S, h) = BytesOf(S, size, h)
    BY DEF Bytes, BytesOf
  <2> QED
    BY <1>1, <1>3, <2>1 DEF Occupied
<1>8. Cardinality(B \cup C) = Cardinality(B) + Cardinality(C)
  <2>1. Cardinality(B \cap C) = 0
    BY <1>5, FS_EmptySet
  <2>2. Cardinality(B \cup C)
          = Cardinality(B) + Cardinality(C) - Cardinality(B \cap C)
    BY <1>4, FS_Union
  <2> QED
    BY <1>4, <2>1, <2>2
<1>9. Cardinality(B \cup C) <= Filled
  <2>1. IsFiniteSet(BytesOf(Present, size, Header))
    BY FilledFacts DEF Tally
  <2> QED
    BY <1>6, <2>1, FS_Subset DEF Filled
<1> QED
  BY <1>4, <1>7, <1>8, <1>9

\* What reserveQuota really guarantees, its reads being neither atomic nor
\* repeated: however commits, failures, requeues and removals interleave, the
\* spool exceeds its ceiling by no more than a message for every other commit
\* and every failure under way and one for each requeue so far.
THEOREM OvershootAlwaysBounded == Spec => []OvershootBounded
<1>1. LedgerInv /\ OverInv => OvershootBounded
  <2> SUFFICES ASSUME LedgerInv, OverInv, MaxBytes > 0
               PROVE  Occupied <= MaxBytes + Header
                        + (Sessions - 1 + Movers + requeues)
                            * (Max(Sizes) + Header)
    BY DEF OvershootBounded
  <2>1. TypeOK /\ Capped
    BY DEF LedgerInv, OverInv
  <2>2. PICK x \in Nat : x = Sessions - 1 + Movers + requeues
    BY <2>1, QuotaAssumption DEF TypeOK
  <2>3. Room(1) = Biggest * x /\ Room(1) \in Int
    <3>1. \A i \in Int : Room(i) \in Int
      BY <2>1, RoomFacts
    <3> QED
      BY <2>2, <3>1 DEF Room
  <2>4. Biggest * x = x * Biggest
    <3>1. \A p, q \in Nat : p * q = q * p
      OBVIOUS
    <3> QED
      BY <3>1, BiggestNat
  <2>5. Occupied <= Ceiling + x * Biggest
    <3>1. Filled <= Ceiling + Room(1)
      BY <2>1 DEF Capped
    <3>2. Occupied \in Nat /\ Occupied <= Filled /\ Filled \in Nat
            /\ Ceiling \in Nat
      BY <2>1, OccupiedFits, FilledFacts
    <3>3. Occupied <= Ceiling + Room(1)
      BY <2>3, <3>1, <3>2
    <3> QED
      BY <2>3, <2>4, <3>3
  <2> QED
    BY <2>2, <2>5 DEF Ceiling, Biggest
<1> QED
  BY <1>1, LedgerAlways, OverAlways, PTL
=============================================================================
