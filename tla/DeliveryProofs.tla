-------------------------- MODULE DeliveryProofs ---------------------------
(***************************************************************************)
(* Proofs about Delivery, for any number of messages, routes, slots and    *)
(* tokens, any batch size and any schedule: leases are accounted for, a    *)
(* message is handed over once, tokens go to sends and to nothing else, no      *)
(* wake-up is lost and no message sleeps past its expiry.                  *)
(***************************************************************************)
EXTENDS Delivery, FiniteSetTheorems, SequenceTheorems, TLAPS

\* The types the proofs need; nothing depends on what order is.
Shape ==
  /\ route \in [Messages -> Routes \cup {NoRoute}]
  /\ where \in [Messages -> {"new", "queue", "failed", "gone"}]
  /\ due \in [Messages -> Nat] /\ life \in [Messages -> Int]
  /\ att \in [Messages -> Nat]
  /\ leased \subseteq Messages
  /\ batch \in Seq(Messages)
  /\ wpc \in [Messages ->
               {"none", "start", "send", "ok", "perm", "temp", "nobody"}]
  /\ leaving \in [Routes -> Nat]
  /\ tokens \in [Routes -> Nat] /\ window \in [Routes -> Nat]
  /\ started \in [Routes -> Nat] /\ unsent \in [Routes -> Nat]
  /\ sent \subseteq Messages

\* No message is twice in a batch, and only the loop over one has one.
Distinct ==
  /\ \A i, j \in 1..Len(batch) : batch[i] = batch[j] => i = j
  /\ dpc # "loop" => batch = <<>>

\* A lease is the dispatcher's or a worker's, and never both.
Leases ==
  /\ leased = ToSet(batch) \cup {m \in Messages : wpc[m] # "none"}
  /\ \A m \in ToSet(batch) : wpc[m] = "none"
  /\ \A m \in leased : where[m] = "queue"
  /\ \A m \in Messages : wpc[m] # "none" => route[m] \in Routes
  /\ dpc = "stopped" => leased = {}

\* A message the smarthost has taken is with its worker, or gone.
Taken ==
  \A m \in sent :
    where[m] = "gone" \/ (where[m] = "queue" /\ wpc[m] = "ok")

\* Only a queued message waits, and none past its expiry.
Waits ==
  \A m \in Messages :
    /\ where[m] # "queue" => due[m] = 0
    /\ due[m] <= life[m] \/ due[m] <= RetryDelay

DeliveryInv ==
  /\ Shape /\ Distinct /\ Leases /\ Taken /\ Waits
  /\ TokenPerSend /\ WakeNotLost

-----------------------------------------------------------------------------
(* Operators.                                                              *)

\* The larger and the smaller of two numbers.
LEMMA TwoNumbers ==
  ASSUME NEW a \in Int, NEW b \in Int
  PROVE  /\ Max({a, b}) = IF a >= b THEN a ELSE b
         /\ Min({a, b}) = IF a <= b THEN a ELSE b
BY DEF Max, Min

\* The dispatcher begins on the next message of its batch.
LEMMA HandleNext ==
  ASSUME Shape, Distinct, NEW m \in Messages, Handle(m)
  PROVE  /\ batch' \in Seq(Messages) /\ Distinct'
         /\ m \in ToSet(batch) /\ ToSet(batch)' = ToSet(batch) \ {m}
         /\ dpc' = "loop" /\ dpc = "loop"
<1>1. /\ batch \in Seq(Messages) /\ batch # <<>> /\ batch' = Tail(batch)
      /\ m = Head(batch) /\ dpc' = "loop" /\ dpc = "loop"
  BY DEF Shape, Handle
<1>2. /\ batch' \in Seq(Messages) /\ Len(batch') = Len(batch) - 1
      /\ \A i \in 1..Len(batch') : batch'[i] = batch[i + 1]
  BY <1>1, HeadTailProperties
<1>3. /\ Len(batch) \in Nat \ {0} /\ m = batch[1]
      /\ DOMAIN batch = 1..Len(batch) /\ DOMAIN batch' = 1..Len(batch')
  BY <1>1, <1>2
<1>4. Distinct'
  BY <1>1, <1>2, <1>3 DEF Distinct
<1>5. m \in ToSet(batch)
  BY <1>3 DEF ToSet
<1>6. ToSet(batch') \subseteq ToSet(batch) \ {m}
  <2>1. ASSUME NEW i \in 1..Len(batch')
        PROVE  batch'[i] \in ToSet(batch) \ {m}
    <3>1. i + 1 \in 1..Len(batch) /\ i + 1 # 1 /\ batch'[i] = batch[i + 1]
      BY <1>2, <1>3
    <3> QED
      BY <1>3, <3>1 DEF Distinct, ToSet
  <2> QED
    BY <1>3, <2>1 DEF ToSet
<1>7. ToSet(batch) \ {m} \subseteq ToSet(batch')
  <2>1. ASSUME NEW i \in 1..Len(batch), batch[i] # m
        PROVE  batch[i] \in ToSet(batch')
    <3>1. i - 1 \in 1..Len(batch') /\ batch'[i - 1] = batch[i]
      BY <1>2, <1>3, <2>1
    <3> QED
      BY <1>3, <3>1 DEF ToSet
  <2> QED
    BY <1>3, <2>1 DEF ToSet
<1> QED
  BY <1>1, <1>2, <1>4, <1>5, <1>6, <1>7

\* ClaimBatch hands out due messages, each once, and leaves one out only
\* when the batch is full.
LEMMA ScanTakes ==
  ASSUME Shape, Scan
  PROVE  /\ batch' \in Seq(Messages) /\ Distinct'
         /\ ToSet(batch)' \subseteq Due
         /\ leased' = leased \cup ToSet(batch)'
         /\ fresh' \subseteq Due \ ToSet(batch)'
         /\ full' \/ Due \subseteq ToSet(batch)'
<1>1. PICK n \in 0..BatchSize : \E taken \in [1..n -> Due] :
        /\ \A i, j \in 1..n : i # j => taken[i] # taken[j]
        /\ \A m \in Due \ ToSet(taken) : n = BatchSize
        /\ batch' = taken /\ full' = (n = BatchSize)
        /\ leased' = leased \cup ToSet(taken)
        /\ fresh' = (fresh \cap Due) \ ToSet(taken)
  BY DEF Scan
<1>2. PICK taken \in [1..n -> Due] :
        /\ \A i, j \in 1..n : i # j => taken[i] # taken[j]
        /\ \A m \in Due \ ToSet(taken) : n = BatchSize
        /\ batch' = taken /\ full' = (n = BatchSize)
        /\ leased' = leased \cup ToSet(taken)
        /\ fresh' = (fresh \cap Due) \ ToSet(taken)
  BY <1>1
<1>3. Due \subseteq Messages /\ n \in Nat
  BY DeliveryAssumption DEF Due, Queued
<1>4. taken \in Seq(Messages) /\ Len(taken) = n /\ DOMAIN taken = 1..n
  BY <1>3
<1>5. ToSet(taken) \subseteq Due
  BY <1>4 DEF ToSet
<1>6. dpc' = "loop"
  BY DEF Scan
<1>7. Distinct'
  BY <1>2, <1>4, <1>6 DEF Distinct
<1> QED
  BY <1>2, <1>4, <1>5, <1>7

\* A message that is put off is put off no further than its expiry.
LEMMA HoldWaits ==
  ASSUME Shape, NEW m \in Messages, NEW d \in Nat, Hold(m, d)
  PROVE  /\ due' \in [Messages -> Nat] /\ leased' = leased \ {m}
         /\ \A n \in Messages \ {m} : due'[n] = due[n]
         /\ due'[m] <= life[m] \/ due'[m] <= RetryDelay
<1>1. life[m] \in Int /\ RetryDelay \in Nat
  BY DeliveryAssumption DEF Shape
<1> DEFINE e == Max({life[m], 0})
           x == Min({d, e})
<1>2. e = IF life[m] >= 0 THEN life[m] ELSE 0
  BY <1>1, TwoNumbers
<1>3. e \in Nat
  BY <1>1, <1>2
<1> HIDE DEF e
<1>4. x = IF d <= e THEN d ELSE e
  BY <1>3, TwoNumbers
<1>5. due' = [due EXCEPT ![m] = x] /\ leased' = leased \ {m}
  BY DEF Hold, e
<1> HIDE DEF x
<1>6. x \in Nat /\ (x <= life[m] \/ x <= RetryDelay)
  BY <1>1, <1>2, <1>3, <1>4
<1> QED
  BY <1>5, <1>6 DEF Shape

\* What the rate limiter does to a bucket and its counts.
LEMMA AllowBucket ==
  ASSUME Shape, NEW r \in Routes, NEW ok \in BOOLEAN, Allow(r, ok)
  PROVE  /\ tokens' \in [Routes -> Nat] /\ window' \in [Routes -> Nat]
         /\ started' \in [Routes -> Nat] /\ unsent' \in [Routes -> Nat]
         /\ \A q \in Routes \ {r} :
              /\ tokens'[q] = tokens[q] /\ started'[q] = started[q]
              /\ unsent'[q] = unsent[q]
         /\ ~ok => UNCHANGED <<tokens, started, unsent>>
         /\ ok /\ window[r] = 0 =>
              tokens'[r] = RateLimit - 1 /\ started'[r] = 0 /\ unsent'[r] = 0
         /\ ok /\ window[r] # 0 =>
              /\ tokens[r] > 0 /\ tokens'[r] = tokens[r] - 1
              /\ started'[r] = started[r] /\ unsent'[r] = unsent[r]
<1> USE DeliveryAssumption
<1>1. /\ window[r] \in Nat /\ tokens[r] \in Nat /\ started[r] \in Nat
      /\ unsent[r] \in Nat
  BY DEF Shape
<1>2. Bucket(r) \in Nat /\ Bucket(r) - 1 \in Int /\ ok = (Bucket(r) > 0)
  BY <1>1 DEF Bucket, Allow
<1> DEFINE t == Max({Bucket(r) - 1, 0})
<1>3. t = IF Bucket(r) - 1 >= 0 THEN Bucket(r) - 1 ELSE 0
  BY <1>2, TwoNumbers
<1>4. /\ tokens' = [tokens EXCEPT ![r] = t]
      /\ started' = [started EXCEPT ![r] = IF window[r] = 0 THEN 0 ELSE @]
      /\ unsent' = [unsent EXCEPT ![r] = IF window[r] = 0 THEN 0 ELSE @]
      /\ window' = [window EXCEPT ![r] = IF @ = 0 THEN Window ELSE @]
  BY DEF Allow
<1> HIDE DEF t
<1>5. t \in Nat
  BY <1>2, <1>3
<1>6. CASE ok
  <2>1. Bucket(r) > 0
    BY <1>2, <1>6, Zenon
  <2>2. t = Bucket(r) - 1
    BY <1>2, <1>3, <2>1
  <2>3. Bucket(r) = IF window[r] = 0 THEN RateLimit ELSE tokens[r]
    BY DEF Bucket
  <2> QED
    BY <1>1, <1>4, <1>5, <1>6, <2>1, <2>2, <2>3 DEF Shape
<1>7. CASE ~ok
  <2>1. ~(Bucket(r) > 0)
    BY <1>2, <1>7, Zenon
  <2>2. window[r] # 0 /\ tokens[r] = 0 /\ t = 0
    BY <1>1, <1>2, <1>3, <2>1 DEF Bucket
  <2> QED
    BY <1>1, <1>4, <1>5, <1>7, <2>2 DEF Shape
<1> QED
  BY <1>6, <1>7

\* A token and a start more, or a start turned into a send: what is spent
\* and what is begun stay as far apart as they were.
LEMMA SameGap ==
  ASSUME NEW rate \in Int, NEW t \in Int, NEW a \in Int, NEW b \in Int,
         NEW n \in Int, NEW slots \in Int,
         rate - t <= a + b + n, a + b + n <= rate - t + slots - 1
  PROVE  /\ rate - (t - 1) <= a + b + (n + 1)
         /\ a + b + (n + 1) <= rate - (t - 1) + slots - 1
         /\ a + 1 + b + (n - 1) = a + b + n
         /\ a + (b + 1) + (n - 1) = a + b + n
OBVIOUS

\* How many workers are on their way to a send.
LEMMA StartingCount ==
  ASSUME NEW r
  PROVE  /\ IsFiniteSet(Starting(r)) /\ Cardinality(Starting(r)) \in Nat
         /\ IsFiniteSet(Active(r)) /\ Cardinality(Active(r)) \in Nat
         /\ Cardinality(Starting(r)) <= Cardinality(Active(r))
<1>1. Starting(r) \subseteq Active(r) /\ Active(r) \subseteq Messages
  BY DEF Starting, Active
<1>2. IsFiniteSet(Active(r))
  BY <1>1, FS_Subset, DeliveryAssumption
<1>3. /\ IsFiniteSet(Starting(r))
      /\ Cardinality(Starting(r)) <= Cardinality(Active(r))
  BY <1>1, <1>2, FS_Subset
<1> QED
  BY <1>2, <1>3, FS_CardinalityType

\* A token taken for a worker that has a slot.
LEMMA SpawnCounts ==
  ASSUME Shape, TokenPerSend, NEW m \in Messages, wpc[m] = "none",
         route[m] \in Routes, SlotFree(route[m]), Allow(route[m], TRUE),
         wpc' = [wpc EXCEPT ![m] = "start"], route' = route
  PROVE  TokenPerSend'
<1> USE DeliveryAssumption
<1> DEFINE r == route[m]
           n == Cardinality(Starting(r))
<1>1. /\ Starting(r)' = Starting(r) \cup {m} /\ m \notin Starting(r)
      /\ \A q \in Routes \ {r} : Starting(q)' = Starting(q)
  BY DEF Starting, Shape
<1>2. n \in Nat /\ Cardinality(Starting(r))' = n + 1
  BY <1>1, StartingCount, FS_AddElement
<1>3. n + 1 <= Slots
  <2>1. Cardinality(Active(r)) + leaving[r] < Slots /\ leaving[r] \in Nat
    BY DEF SlotFree, Shape
  <2> QED
    BY <1>2, <2>1, StartingCount
<1>4. /\ tokens[r] \in Nat /\ started[r] \in Nat /\ unsent[r] \in Nat
      /\ RateLimit - tokens[r] <= started[r] + unsent[r] + n
      /\ started[r] + unsent[r] + n <= RateLimit - tokens[r] + Slots - 1
  BY DEF Shape, TokenPerSend
<1>5. /\ \A q \in Routes \ {r} :
           /\ tokens'[q] = tokens[q] /\ started'[q] = started[q]
           /\ unsent'[q] = unsent[q]
      /\ window[r] = 0 =>
           tokens'[r] = RateLimit - 1 /\ started'[r] = 0 /\ unsent'[r] = 0
      /\ window[r] # 0 =>
           /\ tokens'[r] = tokens[r] - 1
           /\ started'[r] = started[r] /\ unsent'[r] = unsent[r]
  BY AllowBucket
<1> HIDE DEF n
<1>6. /\ RateLimit - tokens'[r] <= started'[r] + unsent'[r] + (n + 1)
      /\ started'[r] + unsent'[r] + (n + 1)
           <= RateLimit - tokens'[r] + Slots - 1
  <2>1. CASE window[r] = 0
    <3>1. tokens'[r] = RateLimit - 1 /\ started'[r] = 0 /\ unsent'[r] = 0
      BY <1>5, <2>1
    <3> QED
      BY <1>2, <1>3, <3>1
  <2>2. CASE window[r] # 0
    <3>1. /\ tokens'[r] = tokens[r] - 1
          /\ started'[r] = started[r] /\ unsent'[r] = unsent[r]
      BY <1>5, <2>2
    <3>2. /\ RateLimit \in Int /\ tokens[r] \in Int /\ started[r] \in Int
          /\ unsent[r] \in Int /\ n \in Int /\ Slots \in Int
      BY <1>2, <1>4
    <3>3. /\ RateLimit - (tokens[r] - 1) <= started[r] + unsent[r] + (n + 1)
          /\ started[r] + unsent[r] + (n + 1)
               <= RateLimit - (tokens[r] - 1) + Slots - 1
      BY ONLY <1>4, <3>2, SameGap
    <3> QED
      BY ONLY <3>1, <3>3
  <2> QED
    BY <2>1, <2>2
<1>7. ASSUME NEW q \in Routes
      PROVE  LET spent == RateLimit - tokens'[q]
                 begun == started'[q] + unsent'[q] + Cardinality(Starting(q))'
             IN  spent <= begun /\ begun <= spent + Slots - 1
  <2>1. CASE q = r
    BY <1>2, <1>6, <2>1
  <2>2. CASE q # r
    BY <1>1, <1>5, <2>2 DEF TokenPerSend
  <2> QED
    BY <2>1, <2>2
<1> QED
  BY <1>7 DEF TokenPerSend

\* A worker goes from its start to a send, or finds no body.
LEMMA BeginCounts ==
  ASSUME Shape, TokenPerSend, NEW m \in Messages, wpc[m] = "start",
         route[m] \in Routes, NEW to, to # "start",
         wpc' = [wpc EXCEPT ![m] = to], UNCHANGED <<route, tokens>>,
         \/ /\ started' = [started EXCEPT ![route[m]] = @ + 1]
            /\ unsent' = unsent
         \/ /\ unsent' = [unsent EXCEPT ![route[m]] = @ + 1]
            /\ started' = started
  PROVE  TokenPerSend'
<1> USE DeliveryAssumption
<1> DEFINE r == route[m]
           n == Cardinality(Starting(r))
<1>1. /\ Starting(r)' = Starting(r) \ {m} /\ m \in Starting(r)
      /\ \A q \in Routes \ {r} : Starting(q)' = Starting(q)
  BY DEF Starting, Shape
<1>2. n \in Nat /\ Cardinality(Starting(r))' = n - 1
  <2>1. IsFiniteSet(Starting(r)) /\ n \in Nat
    BY StartingCount
  <2>2. Cardinality(Starting(r) \ {m}) = n - 1
    BY <1>1, <2>1, FS_RemoveElement
  <2> QED
    BY <1>1, <2>1, <2>2
<1>3. /\ tokens[r] \in Nat /\ started[r] \in Nat /\ unsent[r] \in Nat
      /\ RateLimit - tokens[r] <= started[r] + unsent[r] + n
      /\ started[r] + unsent[r] + n <= RateLimit - tokens[r] + Slots - 1
  BY DEF Shape, TokenPerSend
<1>4. /\ \/ started'[r] = started[r] + 1 /\ unsent'[r] = unsent[r]
         \/ started'[r] = started[r] /\ unsent'[r] = unsent[r] + 1
      /\ \A q \in Routes \ {r} :
           started'[q] = started[q] /\ unsent'[q] = unsent[q]
  BY DEF Shape
<1> HIDE DEF n
<1>5. started'[r] + unsent'[r] + (n - 1) = started[r] + unsent[r] + n
  <2>1. /\ RateLimit \in Int /\ tokens[r] \in Int /\ started[r] \in Int
        /\ unsent[r] \in Int /\ n \in Int /\ Slots \in Int
    <3>1. n \in Nat
      BY <1>2
    <3>2. tokens[r] \in Nat /\ started[r] \in Nat /\ unsent[r] \in Nat
      BY <1>3
    <3> QED
      BY ONLY <3>1, <3>2, DeliveryAssumption
  <2>2. /\ started[r] + 1 + unsent[r] + (n - 1) = started[r] + unsent[r] + n
        /\ started[r] + (unsent[r] + 1) + (n - 1)
             = started[r] + unsent[r] + n
    BY ONLY <1>3, <2>1, SameGap
  <2> QED
    BY ONLY <1>4, <2>2
<1>6. ASSUME NEW q \in Routes
      PROVE  LET spent == RateLimit - tokens'[q]
                 begun == started'[q] + unsent'[q] + Cardinality(Starting(q))'
             IN  spent <= begun /\ begun <= spent + Slots - 1
  <2>1. CASE q = r
    BY <1>2, <1>3, <1>5, <2>1
  <2>2. CASE q # r
    BY <1>1, <1>4, <2>2 DEF TokenPerSend
  <2> QED
    BY <2>1, <2>2
<1> QED
  BY <1>6 DEF TokenPerSend

\* A worker that is past its start, or none, does not matter to the count.
LEMMA SameCounts ==
  ASSUME TokenPerSend, UNCHANGED <<tokens, started, unsent>>,
         \A r \in Routes : Starting(r)' = Starting(r)
  PROVE  TokenPerSend'
BY DEF TokenPerSend

-----------------------------------------------------------------------------
(* The steps.                                                              *)

\* Nothing is leased or sent at the start.
LEMMA DeliveryInit == Init => DeliveryInv
<1> SUFFICES ASSUME Init
             PROVE  DeliveryInv
  OBVIOUS
<1> USE DeliveryAssumption
<1>1. Shape
  BY DEF Init, Shape
<1>2. batch = <<>> /\ ToSet(batch) = {} /\ dpc = "scan"
  BY DEF Init, ToSet
<1>3. Distinct
  BY <1>2 DEF Distinct
<1>4. Leases /\ Taken
  BY <1>2 DEF Init, Leases, Taken
<1>5. Waits
  BY DEF Init, Waits
<1>6. TokenPerSend /\ WakeNotLost
  <2>1. \A r : Starting(r) = {}
    BY DEF Init, Starting
  <2>2. \A r : Cardinality(Starting(r)) = 0
    BY <2>1, FS_EmptySet
  <2>3. TokenPerSend
    BY <2>2 DEF Init, TokenPerSend
  <2> QED
    BY <2>3 DEF Init, WakeNotLost
<1> QED
  BY <1>1, <1>3, <1>4, <1>5, <1>6 DEF DeliveryInv

\* Clients, operators and a cancellation.
LEMMA OutsideStep ==
  ASSUME DeliveryInv, NEW m \in Messages,
         CommitPut(m) \/ CommitWake(m) \/ Requeue(m) \/ Discard(m) \/ Cancel
  PROVE  DeliveryInv'
<1> USE DeliveryAssumption DEF DeliveryInv
<1>1. UNCHANGED <<route, batch, dpc, wpc, leaving, full, tokens, window,
                  started, unsent, leased, sent>>
  BY DEF CommitPut, CommitWake, Requeue, Discard, Cancel, dispVars,
         workVars, rateVars
<1>2. Distinct' /\ TokenPerSend'
  BY <1>1, SameCounts DEF Distinct, Starting
<1>3. Shape'
  <2>1. where' \in [Messages -> {"new", "queue", "failed", "gone"}]
    BY DEF Shape, CommitPut, CommitWake, Requeue, Discard, Cancel, Forget,
           queueVars
  <2>2. due' \in [Messages -> Nat]
    BY DEF Shape, CommitPut, CommitWake, Requeue, Discard, Cancel, Forget,
           queueVars
  <2>4. att' \in [Messages -> Nat]
    <3>1. att' = att \/ att' = [att EXCEPT ![m] = 0]
      BY DEF CommitPut, CommitWake, Requeue, Discard, Cancel, Forget,
             queueVars
    <3>2. att \in [Messages -> Nat]
      BY DEF Shape
    <3> QED
      BY ONLY <3>1, <3>2, m \in Messages
  <2>3. life' \in [Messages -> Int]
    BY DEF Shape, CommitPut, CommitWake, Requeue, Discard, Cancel, Forget,
           queueVars
  <2> QED
    BY <1>1, <2>1, <2>2, <2>3, <2>4 DEF Shape
<1>4. Leases'
  BY <1>1
     DEF Shape, Leases, CommitPut, CommitWake, Requeue, Discard, Cancel,
         Forget, queueVars
<1>5. Taken'
  BY <1>1
     DEF Shape, Leases, Taken, CommitPut, CommitWake, Requeue, Discard,
         Cancel, Forget, queueVars
<1>6. Waits'
  <2>1. \A n \in Messages : due[n] \in Nat /\ life[n] \in Int
    BY DEF Shape
  <2>2. due \in [Messages -> Nat] /\ life \in [Messages -> Int]
        /\ where \in [Messages -> {"new", "queue", "failed", "gone"}]
    BY DEF Shape
  <2> QED
    BY <2>1, <2>2
       DEF Waits, CommitPut, CommitWake, Requeue, Discard, Cancel, Forget,
           queueVars
<1>7. WakeNotLost'
  BY <1>1 DEF WakeNotLost, CommitPut, CommitWake, Requeue, Discard, Cancel
<1> QED
  BY <1>2, <1>3, <1>4, <1>5, <1>6, <1>7

\* Time passes for every deadline alike.
LEMMA TickStep ==
  ASSUME DeliveryInv, Tick
  PROVE  DeliveryInv'
<1> USE DeliveryAssumption DEF DeliveryInv
<1>1. UNCHANGED <<route, batch, dpc, wpc, leaving, full, tokens, started,
                  unsent, leased, sent, where, att, fresh, wake, pend,
                  cancelled>>
  BY DEF Tick, dispVars, workVars
<1>2. ASSUME NEW m \in Messages
      PROVE  /\ due'[m] = IF due[m] >= 1 THEN due[m] - 1 ELSE 0
             /\ due[m] \in Nat /\ life[m] \in Int
             /\ \/ life'[m] = life[m]
                \/ life'[m] = IF life[m] - 1 >= -1 THEN life[m] - 1 ELSE -1
             /\ where[m] = "queue" =>
                  life'[m] = IF life[m] - 1 >= -1 THEN life[m] - 1 ELSE -1
  <2>1. due[m] \in Nat /\ life[m] \in Int
    BY DEF Shape
  <2>2. /\ due'[m] = Max({due[m] - 1, 0})
        /\ life'[m] = IF where[m] \in {"queue", "failed"}
                        THEN Max({life[m] - 1, -1}) ELSE life[m]
    BY DEF Tick
  <2>3. Max({due[m] - 1, 0}) = IF due[m] - 1 >= 0 THEN due[m] - 1 ELSE 0
    BY <2>1, TwoNumbers
  <2>4. Max({life[m] - 1, -1}) = IF life[m] - 1 >= -1 THEN life[m] - 1 ELSE -1
    BY <2>1, TwoNumbers
  <2> QED
    BY <2>1, <2>2, <2>3, <2>4
<1>3. ASSUME NEW r \in Routes
      PROVE  window'[r] \in Nat
  <2>1. window[r] \in Nat /\ window'[r] = Max({window[r] - 1, 0})
    BY DEF Shape, Tick
  <2>2. window[r] - 1 \in Int
    BY <2>1
  <2>3. Max({window[r] - 1, 0}) =
          IF window[r] - 1 >= 0 THEN window[r] - 1 ELSE 0
    BY ONLY <2>2, TwoNumbers
  <2> QED
    BY <2>1, <2>3
<1>4. Shape'
  <2>1. /\ due' = [m \in Messages |-> due'[m]]
        /\ life' = [m \in Messages |-> life'[m]]
        /\ window' = [r \in Routes |-> window'[r]]
    BY DEF Tick
  <2>2. \A m \in Messages : due'[m] \in Nat /\ life'[m] \in Int
    BY <1>2
  <2> QED
    BY <1>1, <1>3, <2>1, <2>2 DEF Shape
<1>5. Distinct' /\ Leases' /\ Taken' /\ TokenPerSend' /\ WakeNotLost'
  BY <1>1, SameCounts DEF Distinct, Leases, Taken, Starting, WakeNotLost
<1>6. Waits'
  <2> SUFFICES ASSUME NEW m \in Messages
               PROVE  /\ where[m] # "queue" => due'[m] = 0
                      /\ due'[m] <= life'[m] \/ due'[m] <= RetryDelay
    BY <1>1 DEF Waits
  <2>1. /\ where[m] # "queue" => due[m] = 0
        /\ due[m] <= life[m] \/ due[m] <= RetryDelay
    BY DEF Waits
  <2> QED
    BY <1>2, <2>1
<1> QED
  BY <1>4, <1>5, <1>6

\* The dispatcher handles one message of its batch: it fails it, puts it off
\* or starts a worker on it, and the lease goes with it.
LEMMA HandleStep ==
  ASSUME DeliveryInv, NEW m \in Messages,
         UnknownRoute(m) \/ NoSlot(m) \/ RateDenied(m) \/ Spawn(m)
  PROVE  DeliveryInv'
<1> USE DeliveryAssumption DEF DeliveryInv
<1>1. Handle(m) /\ UNCHANGED <<route, life, sent, wake, pend, cancelled,
                               fresh>>
  BY DEF UnknownRoute, NoSlot, RateDenied, Spawn, queueVars
<1>2. /\ batch' \in Seq(Messages) /\ Distinct'
      /\ m \in ToSet(batch) /\ ToSet(batch)' = ToSet(batch) \ {m}
      /\ dpc' = "loop" /\ dpc = "loop" /\ full' = full
  BY <1>1, HandleNext DEF Handle
<1>3. wpc[m] = "none" /\ where[m] = "queue" /\ m \in leased
  BY <1>2 DEF Leases
<1>4. m \notin sent
  BY <1>3 DEF Taken
<1>5. WakeNotLost'
  BY <1>1, <1>2 DEF WakeNotLost
<1>6. CASE UnknownRoute(m)
  <2>1. /\ where' = [where EXCEPT ![m] = "failed"]
        /\ leased' = leased \ {m}
        /\ att' = [att EXCEPT ![m] = 0] /\ due' = [due EXCEPT ![m] = 0]
        /\ UNCHANGED <<wpc, leaving, tokens, window, started, unsent>>
    BY <1>6 DEF UnknownRoute, Fail, workVars, rateVars
  <2>2. Shape' /\ TokenPerSend'
    BY <1>1, <1>2, <2>1, SameCounts DEF Shape, Starting
  <2>3. Leases' /\ Taken'
    BY <1>1, <1>2, <1>3, <1>4, <2>1 DEF Shape, Leases, Taken
  <2>4. Waits'
    BY <1>1, <2>1 DEF Shape, Waits
  <2> QED
    BY <1>2, <1>5, <2>2, <2>3, <2>4
<1>7. CASE NoSlot(m) \/ RateDenied(m)
  <2>1. /\ tokens' \in [Routes -> Nat] /\ window' \in [Routes -> Nat]
        /\ started' \in [Routes -> Nat] /\ unsent' \in [Routes -> Nat]
        /\ UNCHANGED <<tokens, started, unsent>>
    <3>1. CASE NoSlot(m)
      BY <3>1 DEF NoSlot, rateVars, Shape
    <3>2. CASE RateDenied(m)
      BY <3>2, AllowBucket DEF RateDenied
    <3> QED
      BY <1>7, <3>1, <3>2
  <2>2. \E d \in Nat : Hold(m, d)
    BY <1>7, <2>1 DEF NoSlot, RateDenied
  <2>3. /\ due' \in [Messages -> Nat] /\ leased' = leased \ {m}
        /\ \A n \in Messages \ {m} : due'[n] = due[n]
        /\ due'[m] <= life[m] \/ due'[m] <= RetryDelay
    BY <2>2, HoldWaits
  <2>4. UNCHANGED <<where, att, wpc, leaving>> /\ TokenPerSend'
    <3>1. UNCHANGED <<where, att, wpc, leaving>>
      BY <1>7 DEF NoSlot, RateDenied, workVars
    <3> QED
      BY <1>1, <2>1, <3>1, SameCounts DEF Starting
  <2>5. Shape'
    BY <1>1, <1>2, <2>1, <2>3, <2>4 DEF Shape
  <2>6. Leases' /\ Taken'
    BY <1>1, <1>2, <1>3, <1>4, <2>3, <2>4 DEF Shape, Leases, Taken
  <2>7. Waits'
    BY <1>1, <1>3, <2>3, <2>4 DEF Waits
  <2> QED
    BY <1>2, <1>5, <2>4, <2>5, <2>6, <2>7
<1>8. CASE Spawn(m)
  <2>1. /\ tokens' \in [Routes -> Nat] /\ window' \in [Routes -> Nat]
        /\ started' \in [Routes -> Nat] /\ unsent' \in [Routes -> Nat]
    BY <1>8, AllowBucket DEF Spawn
  <2>2. /\ UNCHANGED <<where, att, due, leased, leaving>>
        /\ wpc' = [wpc EXCEPT ![m] = "start"] /\ route[m] \in Routes
        /\ SlotFree(route[m]) /\ Allow(route[m], TRUE)
    BY <1>8 DEF Spawn, queueVars
  <2>6. TokenPerSend'
    BY <1>1, <1>3, <2>2, SpawnCounts
  <2>3. Shape'
    BY <1>1, <1>2, <2>1, <2>2 DEF Shape
  <2>4. Leases' /\ Taken'
    BY <1>1, <1>2, <1>3, <1>4, <2>2 DEF Shape, Leases, Taken
  <2>5. Waits'
    BY <1>1, <2>2 DEF Waits
  <2> QED
    BY <1>2, <1>5, <2>3, <2>4, <2>5, <2>6
<1> QED
  BY <1>6, <1>7, <1>8

\* The rest of the dispatcher: a scan takes leases, the end of a cancelled
\* pass returns them, and the manager stops only without any.
LEMMA LoopStep ==
  ASSUME DeliveryInv,
         \/ Scan \/ ReleaseFrom \/ BatchDone \/ SelectTick \/ SelectWake
         \/ Debounced \/ SelectDone \/ Drained
  PROVE  DeliveryInv'
<1> USE DeliveryAssumption DEF DeliveryInv
<1>1. UNCHANGED <<route, where, due, life, att, wpc, leaving, tokens, window,
                  started, unsent, sent, cancelled, pend>>
  BY DEF Scan, ReleaseFrom, BatchDone, SelectTick, SelectWake, Debounced,
         SelectDone, Drained, queueVars, workVars, rateVars
<1>2. Taken' /\ Waits' /\ TokenPerSend'
  BY <1>1, SameCounts DEF Taken, Waits, Starting
<1>3. CASE Scan
  <2>1. /\ batch' \in Seq(Messages) /\ Distinct'
        /\ ToSet(batch)' \subseteq Due
        /\ leased' = leased \cup ToSet(batch)'
        /\ fresh' \subseteq Due \ ToSet(batch)'
        /\ full' \/ Due \subseteq ToSet(batch)'
    BY <1>3, ScanTakes
  <2>2. dpc = "scan" /\ dpc' = "loop"
    BY <1>3 DEF Scan
  <2>3. ToSet(batch) = {}
    BY <2>2 DEF Distinct, ToSet
  <2>4. \A m \in Due : m \in Messages \ leased /\ where[m] = "queue"
    BY DEF Due, Queued
  <2>5. Shape'
    BY <1>1, <2>1, <2>4 DEF Shape
  <2>6. Leases'
    BY <1>1, <2>1, <2>2, <2>3, <2>4 DEF Leases
  <2>7. WakeNotLost'
    BY <2>1, <2>2 DEF WakeNotLost
  <2> QED
    BY <1>2, <2>1, <2>5, <2>6, <2>7
<1>4. CASE ReleaseFrom
  <2>1. /\ batch' = <<>> /\ dpc' = "drain" /\ cancelled
        /\ leased' = leased \ ToSet(batch)
    BY <1>4 DEF ReleaseFrom
  <2>2. ToSet(batch)' = {} /\ Distinct'
    BY <2>1 DEF ToSet, Distinct
  <2>3. Shape'
    BY <1>1, <2>1 DEF Shape
  <2>4. Leases'
    BY <1>1, <2>1, <2>2 DEF Leases
  <2>5. WakeNotLost'
    BY <1>1, <2>1 DEF WakeNotLost
  <2> QED
    BY <1>2, <2>2, <2>3, <2>4, <2>5
<1>5. CASE BatchDone
  <2>1. /\ batch = <<>> /\ UNCHANGED <<batch, leased, wake, fresh>>
        /\ dpc = "loop" /\ dpc' = IF full THEN "scan" ELSE "select"
    BY <1>5 DEF BatchDone
  <2>2. Distinct' /\ Shape' /\ Leases'
    BY <1>1, <2>1 DEF Distinct, Shape, Leases
  <2>3. WakeNotLost'
    BY <1>1, <2>1 DEF WakeNotLost
  <2> QED
    BY <1>2, <2>2, <2>3
<1>6. CASE SelectTick \/ SelectWake \/ Debounced \/ SelectDone
  <2>1. /\ UNCHANGED <<batch, leased, fresh, full>>
        /\ dpc \in {"select", "debounce"}
        /\ dpc' \in {"debounce", "scan", "drain"}
        /\ dpc' = "drain" => cancelled
    BY <1>6 DEF SelectTick, SelectWake, Debounced, SelectDone
  <2>4. Shape'
    BY <1>1, <2>1 DEF Shape
  <2>2. Distinct' /\ Shape' /\ Leases'
    BY <1>1, <2>1, <2>4 DEF Distinct, Leases
  <2>3. WakeNotLost'
    BY <1>1, <2>1 DEF WakeNotLost
  <2> QED
    BY <1>2, <2>2, <2>3
<1>7. CASE Drained
  <2>1. /\ UNCHANGED <<batch, leased, fresh, full, wake>>
        /\ dpc = "drain" /\ dpc' = "stopped"
        /\ \A r \in Routes : Active(r) = {}
    BY <1>7 DEF Drained
  <2>2. \A m \in Messages : wpc[m] = "none"
    BY <2>1 DEF Active, Leases
  <2>3. ToSet(batch) = {}
    BY <2>1 DEF Distinct, ToSet
  <2>4. Distinct' /\ Shape' /\ Leases'
    BY <1>1, <2>1, <2>2, <2>3 DEF Distinct, Shape, Leases
  <2>5. WakeNotLost'
    BY <1>1, <2>1 DEF WakeNotLost
  <2> QED
    BY <1>2, <2>4, <2>5
<1> QED
  BY <1>3, <1>4, <1>5, <1>6, <1>7

\* The backoff of deferRetry ends by the message's expiry, or by the delay
\* after a failed metadata write.
LEMMA BackoffWaits ==
  ASSUME Shape, NEW m \in Messages, NEW written \in BOOLEAN,
         DeferRetry(m, written)
  PROVE  /\ due' \in [Messages -> Nat] /\ att' \in [Messages -> Nat]
         /\ \A n \in Messages \ {m} : due'[n] = due[n]
         /\ due'[m] <= life[m] \/ due'[m] <= RetryDelay
<1> USE DeliveryAssumption
<1> DEFINE attempts == Min({att[m] + 1, Len(Schedule)})
           next == Min({Schedule[attempts], life[m]})
           later == Max({next, RetryDelay})
<1>1. /\ att[m] + 1 \in Nat \ {0} /\ Len(Schedule) \in Nat \ {0}
      /\ life[m] \in Int /\ life[m] >= 0
  BY DEF Shape, DeferRetry
<1>2. attempts = IF att[m] + 1 <= Len(Schedule) THEN att[m] + 1
                                                ELSE Len(Schedule)
  <2>1. att[m] + 1 \in Int /\ Len(Schedule) \in Int
    BY <1>1
  <2> QED
    BY ONLY <2>1, TwoNumbers
<1>3. attempts \in 1..Len(Schedule)
  BY <1>1, <1>2
<1> HIDE DEF attempts
<1>4. Schedule[attempts] \in Nat
  BY <1>3
<1>5. next = IF Schedule[attempts] <= life[m] THEN Schedule[attempts]
                                              ELSE life[m]
  <2>1. Schedule[attempts] \in Int /\ life[m] \in Int
    BY <1>1, <1>4
  <2> QED
    BY ONLY <2>1, TwoNumbers
<1>6. next \in Nat /\ next <= life[m]
  BY <1>1, <1>4, <1>5
<1> HIDE DEF next
<1>7. later = IF next >= RetryDelay THEN next ELSE RetryDelay
  BY <1>6, TwoNumbers
<1>8. /\ att' = [att EXCEPT ![m] = attempts]
      /\ due' = [due EXCEPT ![m] = IF written THEN next ELSE later]
  BY DEF DeferRetry, attempts, next
<1> HIDE DEF later
<1>9. later \in Nat /\ (later <= life[m] \/ later <= RetryDelay)
  BY <1>1, <1>6, <1>7
<1> QED
  BY <1>3, <1>6, <1>8, <1>9 DEF Shape

\* A worker's step: the outcome of the attempt, and what is made of it.
LEMMA WorkStep ==
  ASSUME DeliveryInv, NEW m \in Messages, Work(m)
  PROVE  DeliveryInv'
<1> USE DeliveryAssumption DEF DeliveryInv
<1>1. /\ wpc[m] # "none"
      /\ UNCHANGED <<route, batch, dpc, full, tokens, window, wake, pend,
                     cancelled, fresh>>
  BY DEF Work, Begin, Unreadable, Sent, HoldCancelled, RecordDelivered,
         RecordFailed, DeferRetry, Finish, dispVars, rateVars
<1>2. Distinct' /\ WakeNotLost' /\ ToSet(batch)' = ToSet(batch)
  BY <1>1 DEF Distinct, WakeNotLost
<1>3. /\ m \notin ToSet(batch) /\ m \in leased /\ where[m] = "queue"
      /\ route[m] \in Routes
  BY <1>1 DEF Leases
<1>11. CASE Begin(m) \/ Unreadable(m)
  <2>1. /\ wpc[m] = "start"
        /\ UNCHANGED <<where, due, life, att, leased, leaving, sent>>
        /\ \/ wpc' = [wpc EXCEPT ![m] = "send"]
           \/ wpc' = [wpc EXCEPT ![m] = "nobody"]
        /\ \/ /\ started' = [started EXCEPT ![route[m]] = @ + 1]
              /\ unsent' = unsent
           \/ /\ unsent' = [unsent EXCEPT ![route[m]] = @ + 1]
              /\ started' = started
    BY <1>11 DEF Begin, Unreadable, queueVars
  <2>2. TokenPerSend'
    BY <1>1, <1>3, <2>1, BeginCounts
  <2>6. /\ wpc' \in [Messages ->
                   {"none", "start", "send", "ok", "perm", "temp", "nobody"}]
        /\ started' \in [Routes -> Nat] /\ unsent' \in [Routes -> Nat]
    <3>1. /\ wpc \in [Messages ->
                   {"none", "start", "send", "ok", "perm", "temp", "nobody"}]
          /\ started \in [Routes -> Nat] /\ unsent \in [Routes -> Nat]
      BY DEF Shape
    <3>2. route[m] \in Routes
      BY <1>3
    <3>3. wpc' \in [Messages ->
                   {"none", "start", "send", "ok", "perm", "temp", "nobody"}]
      BY ONLY <2>1, <3>1, m \in Messages
    <3> QED
      BY ONLY <2>1, <3>1, <3>2, <3>3
  <2>3. Shape' /\ Waits'
    BY <1>1, <2>1, <2>6 DEF Shape, Waits
  <2>4. Leases'
    BY <1>1, <1>2, <1>3, <2>1 DEF Shape, Leases
  <2>5. Taken'
    BY <1>3, <2>1 DEF Shape, Taken
  <2> QED
    BY <1>2, <2>2, <2>3, <2>4, <2>5
<1>12. ASSUME wpc[m] # "start", wpc'[m] # "start",
              \A n \in Messages \ {m} : wpc'[n] = wpc[n],
              UNCHANGED <<started, unsent>>
       PROVE  TokenPerSend'
  <2>1. \A r \in Routes : Starting(r)' = Starting(r)
    BY <1>1, <1>12 DEF Starting
  <2> QED
    BY <1>1, <1>12, <2>1, SameCounts
<1>13. ASSUME Finish(m), wpc[m] # "start"
       PROVE  /\ TokenPerSend' /\ leaving' \in [Routes -> Nat]
              /\ UNCHANGED <<started, unsent>>
  <2>1. /\ wpc' = [wpc EXCEPT ![m] = "none"]
        /\ leaving' = [leaving EXCEPT ![route[m]] = @ + 1]
        /\ UNCHANGED <<started, unsent>>
    BY <1>13 DEF Finish, rateVars
  <2>2. leaving' \in [Routes -> Nat]
    BY <1>3, <2>1 DEF Shape
  <2>3. wpc'[m] # "start" /\ \A n \in Messages \ {m} : wpc'[n] = wpc[n]
    BY <2>1 DEF Shape
  <2> QED
    BY <1>12, <1>13, <2>1, <2>2, <2>3
<1>4. ASSUME NEW o \in {"ok", "perm", "temp"}, Sent(m, o)
      PROVE  DeliveryInv'
  <2>1. /\ wpc[m] = "send" /\ wpc' = [wpc EXCEPT ![m] = o]
        /\ sent' = IF o = "ok" THEN sent \cup {m} ELSE sent
        /\ UNCHANGED <<where, due, life, att, leased, leaving, started,
                       unsent>>
    BY <1>4 DEF Sent, queueVars, rateVars
  <2>5. TokenPerSend'
    BY <1>12, <2>1 DEF Shape
  <2>2. Shape' /\ Waits'
    BY <1>1, <2>1 DEF Shape, Waits
  <2>3. Leases'
    BY <1>1, <1>2, <1>3, <2>1 DEF Shape, Leases
  <2>4. Taken'
    BY <1>3, <2>1 DEF Shape, Taken
  <2> QED
    BY <1>2, <2>2, <2>3, <2>4, <2>5
<1>5. ASSUME leased' = leased \ {m}, wpc' = [wpc EXCEPT ![m] = "none"],
             sent' = sent, \A n \in Messages \ {m} : where'[n] = where[n],
             m \in sent => where'[m] = "gone"
      PROVE  Leases' /\ Taken'
  <2>1. Leases'
    BY <1>1, <1>2, <1>3, <1>5 DEF Shape, Leases
  <2>2. Taken'
    BY <1>5 DEF Shape, Taken
  <2> QED
    BY <2>1, <2>2
<1>6. CASE HoldCancelled(m)
  <2>1. /\ wpc[m] # "ok" /\ Hold(m, 0) /\ wpc' = [wpc EXCEPT ![m] = "none"]
        /\ UNCHANGED <<where, life, att, sent>>
    BY <1>6 DEF HoldCancelled, Finish
  <2>7. /\ TokenPerSend' /\ leaving' \in [Routes -> Nat]
        /\ UNCHANGED <<started, unsent>>
    BY <1>6, <1>13 DEF HoldCancelled
  <2>2. /\ due' \in [Messages -> Nat] /\ leased' = leased \ {m}
        /\ \A n \in Messages \ {m} : due'[n] = due[n]
        /\ due'[m] <= life[m] \/ due'[m] <= RetryDelay
    BY <2>1, HoldWaits
  <2>3. Shape'
    BY <1>1, <2>1, <2>2, <2>7 DEF Shape
  <2>4. m \notin sent
    BY <1>3, <2>1 DEF Taken
  <2>5. Leases' /\ Taken'
    BY <1>5, <2>1, <2>2, <2>4
  <2>6. Waits'
    BY <1>3, <2>1, <2>2 DEF Waits
  <2> QED
    BY <1>2, <2>3, <2>5, <2>6, <2>7
<1>7. CASE RecordDelivered(m)
  <2>1. /\ where' = [where EXCEPT ![m] = "gone"]
        /\ due' = [due EXCEPT ![m] = 0]
        /\ life' = [life EXCEPT ![m] = Lifetime]
        /\ att' = [att EXCEPT ![m] = 0]
        /\ leased' = leased \ {m} /\ wpc' = [wpc EXCEPT ![m] = "none"]
        /\ sent' = sent
    BY <1>7 DEF RecordDelivered, Forget, Finish
  <2>4. /\ TokenPerSend' /\ leaving' \in [Routes -> Nat]
        /\ UNCHANGED <<started, unsent>>
    BY <1>7, <1>13 DEF RecordDelivered
  <2>2. Shape' /\ Waits'
    BY <1>1, <2>1, <2>4 DEF Shape, Waits
  <2>3. Leases' /\ Taken'
    BY <1>5, <2>1 DEF Shape
  <2> QED
    BY <1>2, <2>2, <2>3, <2>4
<1>8. CASE RecordFailed(m)
  <2>1. /\ wpc[m] # "ok" /\ where' = [where EXCEPT ![m] = "failed"]
        /\ due' = [due EXCEPT ![m] = 0] /\ att' = [att EXCEPT ![m] = 0]
        /\ leased' = leased \ {m} /\ wpc' = [wpc EXCEPT ![m] = "none"]
        /\ UNCHANGED <<life, sent>>
    BY <1>8 DEF RecordFailed, Fail, Finish
  <2>5. /\ TokenPerSend' /\ leaving' \in [Routes -> Nat]
        /\ UNCHANGED <<started, unsent>>
    BY <1>8, <1>13 DEF RecordFailed
  <2>2. Shape' /\ Waits'
    BY <1>1, <2>1, <2>5 DEF Shape, Waits
  <2>3. m \notin sent
    BY <1>3, <2>1 DEF Taken
  <2>4. Leases' /\ Taken'
    BY <1>5, <2>1, <2>3 DEF Shape
  <2> QED
    BY <1>2, <2>2, <2>4, <2>5
<1>9. ASSUME NEW written \in BOOLEAN, DeferRetry(m, written)
      PROVE  DeliveryInv'
  <2>1. /\ wpc[m] = "temp" /\ leased' = leased \ {m}
        /\ wpc' = [wpc EXCEPT ![m] = "none"]
        /\ UNCHANGED <<where, life, sent>>
    BY <1>9 DEF DeferRetry, Finish
  <2>7. /\ TokenPerSend' /\ leaving' \in [Routes -> Nat]
        /\ UNCHANGED <<started, unsent>>
    BY <1>9, <1>13 DEF DeferRetry
  <2>2. /\ due' \in [Messages -> Nat] /\ att' \in [Messages -> Nat]
        /\ \A n \in Messages \ {m} : due'[n] = due[n]
        /\ due'[m] <= life[m] \/ due'[m] <= RetryDelay
    BY <1>9, BackoffWaits
  <2>3. Shape'
    BY <1>1, <2>1, <2>2, <2>7 DEF Shape
  <2>4. m \notin sent
    BY <1>3, <2>1 DEF Taken
  <2>5. Leases' /\ Taken'
    BY <1>5, <2>1, <2>4
  <2>6. Waits'
    BY <1>3, <2>1, <2>2 DEF Waits
  <2> QED
    BY <1>2, <2>3, <2>5, <2>6, <2>7
<1> QED
  BY <1>4, <1>6, <1>7, <1>8, <1>9, <1>11 DEF Work

-----------------------------------------------------------------------------
(* The theorems.                                                           *)

\* What the theorems below rest on: the invariant holds throughout.
THEOREM DeliveryAlways == Spec => []DeliveryInv
<1>1. DeliveryInv /\ [Next]_vars => DeliveryInv'
  <2> SUFFICES ASSUME DeliveryInv, [Next]_vars
               PROVE  DeliveryInv'
    OBVIOUS
  <2>1. ASSUME NEW m \in Messages,
               \/ CommitPut(m) \/ CommitWake(m) \/ Requeue(m)
               \/ Discard(m) \/ Work(m)
        PROVE  DeliveryInv'
    BY <2>1, OutsideStep, WorkStep
  <2>2. CASE Dispatch
    BY <2>2, HandleStep, LoopStep DEF Dispatch
  <2>3. CASE Tick
    BY <2>3, TickStep
  <2>4. CASE Cancel \/ UNCHANGED vars \/ \E r \in Routes : Leave(r)
    <3>1. UNCHANGED <<route, where, due, life, att, leased, batch, dpc, full,
                      wpc, tokens, window, started, unsent, sent, pend, wake,
                      fresh>>
      BY <2>4 DEF Cancel, Leave, vars, queueVars, dispVars, workVars,
                  rateVars
    <3>5. leaving' \in [Routes -> Nat]
      BY <2>4 DEF Cancel, Leave, vars, workVars, DeliveryInv, Shape
    <3>2. cancelled => cancelled'
      BY <2>4 DEF Cancel, Leave, vars
    <3>3. /\ Shape' /\ Distinct' /\ Leases' /\ Taken' /\ Waits'
          /\ TokenPerSend'
      BY <3>1, <3>5, SameCounts
         DEF DeliveryInv, Shape, Distinct, Leases, Taken, Waits, Starting
    <3>4. WakeNotLost'
      BY <3>1, <3>2 DEF DeliveryInv, WakeNotLost
    <3> QED
      BY <3>3, <3>4 DEF DeliveryInv
  <2> QED
    BY <2>1, <2>2, <2>3, <2>4 DEF Next
<1> QED
  BY <1>1, DeliveryInit, PTL DEF Spec

\* Every lease is in the hands of somebody who will give it back (ClaimBatch,
\* dispatchOne, releaseFrom, record): the dispatcher's batch or one worker,
\* never both, and nobody's once the manager has stopped.
THEOREM LeasesAccounted == Spec => []LeaseAccounted
<1>1. DeliveryInv => LeaseAccounted
  <2> SUFFICES ASSUME DeliveryInv
               PROVE  LeaseAccounted
    OBVIOUS
  <2>1. \A i \in 1..Len(batch) : batch[i] \in ToSet(batch)
    BY DEF DeliveryInv, Shape, ToSet
  <2> QED
    BY <2>1 DEF DeliveryInv, Leases, LeaseAccounted
<1> QED
  BY <1>1, DeliveryAlways, PTL

\* A message the smarthost has taken is never offered again (record looks at
\* the result before it looks at ctx).
THEOREM NeverSentTwice == Spec => []SentOnce
<1>1. DeliveryInv => SentOnce
  BY DEF DeliveryInv, Taken, SentOnce
<1> QED
  BY <1>1, DeliveryAlways, PTL

\* A route gets the configured rate, for any rate, window and number of
\* slots: the tokens gone from its bucket are sends begun, about to begin or
\* without a body, and no more sends begin than the bucket gave, but for the
\* other slots' workers that a refill overtook (dispatchOne, Allow, send).
THEOREM TokensAccounted == Spec => []TokenPerSend
<1>1. DeliveryInv => TokenPerSend
  BY DEF DeliveryInv
<1> QED
  BY <1>1, DeliveryAlways, PTL

\* A committed message that no scan has seen has a wake-up on its way
\* (Commit's non-blocking send, dispatch ending on a short batch).
THEOREM NoWakeLost == Spec => []WakeNotLost
<1>1. DeliveryInv => WakeNotLost
  BY DEF DeliveryInv
<1> QED
  BY <1>1, DeliveryAlways, PTL

\* No message sleeps past its own expiry, except by the delay that follows a
\* failed metadata write (hold, deferRetry, Release).
THEOREM NoneOversleeps == Spec => []DueByExpiry
<1>1. DeliveryInv => DueByExpiry
  <2> SUFFICES ASSUME DeliveryInv, NEW m \in Queued
               PROVE  due[m] <= Max({life[m], RetryDelay})
    BY DEF DueByExpiry
  <2>1. /\ due[m] \in Nat /\ life[m] \in Int
        /\ due[m] <= life[m] \/ due[m] <= RetryDelay
    BY DEF DeliveryInv, Shape, Waits, Queued
  <2>2. RetryDelay \in Int
    BY DeliveryAssumption
  <2>3. Max({life[m], RetryDelay}) =
          IF life[m] >= RetryDelay THEN life[m] ELSE RetryDelay
    BY <2>1, <2>2, TwoNumbers
  <2> QED
    BY <2>1, <2>2, <2>3
<1> QED
  BY <1>1, DeliveryAlways, PTL

=============================================================================
