--------------------------- MODULE RateLimit_proofs ---------------------------
(***************************************************************************)
(* The bucket keeps the window bound and denies nothing else, for any      *)
(* clients, capacity and rate, as long as a bucket that is swept away had  *)
(* the time to fill.  The argument is a ledger: the tokens of a client are *)
(* what its served requests have left of a full bucket.                    *)
(***************************************************************************)
EXTENDS RateLimit, TLAPS

(* Ticks that n tokens take. *)
Cost(n) == n * Refill

(* What the assumption on the constants says of the numbers. *)
LEMMA LimitNumbers ==
  /\ Full \in Nat /\ Idle \in Nat /\ Refill \in Nat /\ Capacity \in Nat /\ MaxNow \in Nat
  /\ 0 < Refill /\ Refill <= Full /\ Full <= Idle /\ Full = Capacity * Refill
<1>1. Capacity \in Nat \ {0} /\ Refill \in Nat \ {0} /\ Idle \in Nat /\ MaxNow \in Nat /\ Capacity * Refill <= Idle
  BY RateAssumption
<1>2. Capacity * Refill \in Nat /\ Refill <= Capacity * Refill
  <2>1. Capacity * Refill = (Capacity - 1) * Refill + Refill /\ (Capacity - 1) * Refill >= 0
    BY <1>1
  <2>. QED BY <1>1, <2>1
<1>. QED BY <1>1, <1>2 DEF Full

(* The same without the product, for the steps whose arithmetic is linear. *)
LEMMA LimitSizes ==
  /\ Full \in Nat /\ Idle \in Nat /\ Refill \in Nat /\ Capacity \in Nat /\ MaxNow \in Nat
  /\ 0 < Refill /\ Refill <= Full /\ Full <= Idle
BY LimitNumbers

(* One token more costs one Refill more. *)
LEMMA CostIsLinear ==
  ASSUME NEW n \in Int
  PROVE  /\ Cost(n) \in Int /\ Cost(n + 1) = Cost(n) + Refill
         /\ Cost(1) = Refill
  BY LimitSizes DEF Cost

(* Requests of a client that were served since its i-th one. *)
Since(times, i) == Len(times) + 1 - i

(* What a client with this many tokens at this time has been served: no     *)
(* more than a full bucket and its refill allow, counted from any request,  *)
(* and exactly that much from one of them, unless the bucket is full.       *)
Covers(times, tokens, time) ==
    \A i \in 1 .. Len(times) : Cost(Since(times, i)) + tokens <= Full + time - times[i]
IsTight(times, tokens, time) ==
    \/ tokens = Full
    \/ \E i \in 1 .. Len(times) : Cost(Since(times, i)) + tokens = Full + time - times[i]

(* The inductive invariant. *)
Ledger(c) ==
    IF buckets[c] = None THEN Covers(granted[c], Full, now)
    ELSE /\ Covers(granted[c], buckets[c].tokens, buckets[c].seen)
         /\ IsTight(granted[c], buckets[c].tokens, buckets[c].seen)
         /\ buckets[c].seen <= now /\ lastSweep - Idle <= buckets[c].seen
Past(times) == \A i \in 1 .. Len(times) : times[i] <= now
IInv ==
    /\ LimiterTypeOK
    /\ \A c \in Clients : Past(granted[c]) /\ Ledger(c)

(* A limiter that knows nobody keeps the ledger. *)
LEMMA InitIInv == LimiterInit => IInv
  BY LimitSizes DEF LimiterInit, IInv, LimiterTypeOK, Past, Ledger, Covers, Buckets

(* The numbers the arguments below are about. *)
LEMMA LedgerTypes ==
  ASSUME IInv, NEW c \in Clients, NEW i \in 1 .. Len(granted[c])
  PROVE  /\ granted[c] \in Seq(0 .. MaxNow) /\ Len(granted[c]) \in Nat /\ i \in Nat
         /\ granted[c][i] \in Nat /\ granted[c][i] <= now /\ now \in Nat
         /\ Since(granted[c], i) \in Nat
         /\ Cost(Since(granted[c], i)) \in Int
         /\ Cost(Since(granted[c], i) + 1) = Cost(Since(granted[c], i)) + Refill
<1>1. granted[c] \in Seq(0 .. MaxNow) /\ now \in 0 .. MaxNow /\ MaxNow \in Nat
  BY LimitSizes DEF IInv, LimiterTypeOK
<1>2. Len(granted[c]) \in Nat /\ i \in Nat /\ granted[c][i] \in 0 .. MaxNow
  BY <1>1
<1>3. granted[c][i] <= now
  BY DEF IInv, Past
<1>4. Since(granted[c], i) \in Nat
  BY <1>2 DEF Since
<1>5. Since(granted[c], i) \in Int
  BY <1>4
<1>6. Cost(Since(granted[c], i)) \in Int /\ Cost(Since(granted[c], i) + 1) = Cost(Since(granted[c], i)) + Refill
  BY <1>5, CostIsLinear
<1>. QED BY <1>1, <1>2, <1>3, <1>4, <1>6

-----------------------------------------------------------------------------
(* The sweep keeps the ledger: a bucket it drops would be full by now.      *)
LEMMA SweptKeeps ==
  ASSUME IInv, NEW c \in Clients
  PROVE  /\ Swept \in [Clients -> Buckets \cup {None}]
         /\ IF Swept[c] = None THEN Covers(granted[c], Full, now)
            ELSE /\ Swept[c] \in Buckets
                 /\ Swept[c].seen <= now
                 /\ (IF SweepDue THEN now ELSE lastSweep) - Idle <= Swept[c].seen
                 /\ Covers(granted[c], Swept[c].tokens, Swept[c].seen)
                 /\ IsTight(granted[c], Swept[c].tokens, Swept[c].seen)
<1>1. LimiterTypeOK /\ Ledger(c) /\ granted[c] \in Seq(0 .. MaxNow) /\ now \in Nat /\ lastSweep \in Nat
  BY DEF IInv, LimiterTypeOK
<1>2. Swept \in [Clients -> Buckets \cup {None}]
  BY <1>1 DEF LimiterTypeOK, Swept
<1>3. buckets[c] \in Buckets \cup {None} /\ None \notin Buckets
  BY <1>1, NoneAssumption DEF LimiterTypeOK, Buckets, Full
<1>4. CASE SweepDue /\ buckets[c] # None /\ buckets[c].seen < now - Idle
  <2>1. Swept[c] = None
    BY <1>4 DEF Swept
  <2>2. Covers(granted[c], buckets[c].tokens, buckets[c].seen)
    BY <1>1, <1>4 DEF Ledger
  <2>3. buckets[c].tokens \in Nat /\ buckets[c].seen \in Nat
    BY <1>3, <1>4, LimitSizes DEF Buckets
  <2>4. ASSUME NEW i \in 1 .. Len(granted[c])
        PROVE  Cost(Since(granted[c], i)) + Full <= Full + now - granted[c][i]
    <3>1. Cost(Since(granted[c], i)) + buckets[c].tokens <= Full + buckets[c].seen - granted[c][i]
      BY <2>2 DEF Covers
    <3>2. Full \in Nat /\ Idle \in Nat /\ Full <= Idle
      BY LimitSizes
    <3>3. Cost(Since(granted[c], i)) \in Int /\ granted[c][i] \in Nat /\ now \in Nat
      BY LedgerTypes
    <3>4. PICK cost \in Int, served \in Nat, tokens \in Nat, seen \in Nat :
             /\ cost = Cost(Since(granted[c], i)) /\ served = granted[c][i]
             /\ tokens = buckets[c].tokens /\ seen = buckets[c].seen
      BY <2>3, <3>3
    <3>5. cost + tokens <= Full + seen - served /\ seen < now - Idle
      BY <1>4, <3>1, <3>4
    <3>6. cost + Full <= Full + now - served
      BY <3>2, <3>3, <3>5
    <3>. QED BY <3>4, <3>6
  <2>. QED BY <1>2, <2>1, <2>4 DEF Covers
<1>5. CASE ~(SweepDue /\ buckets[c] # None /\ buckets[c].seen < now - Idle)
  <2>1. Swept[c] = buckets[c]
    BY <1>1, <1>5 DEF Swept
  <2>2. CASE buckets[c] = None
    BY <1>1, <1>2, <2>1, <2>2 DEF Ledger
  <2>3. CASE buckets[c] # None
    <3>1. buckets[c] \in Buckets /\ buckets[c].seen \in Nat
      BY <1>3, <2>3 DEF Buckets
    <3>2. /\ Covers(granted[c], buckets[c].tokens, buckets[c].seen)
          /\ IsTight(granted[c], buckets[c].tokens, buckets[c].seen)
          /\ buckets[c].seen <= now /\ lastSweep - Idle <= buckets[c].seen
      BY <1>1, <2>3 DEF Ledger
    <3>3. (IF SweepDue THEN now ELSE lastSweep) - Idle <= buckets[c].seen
      BY <1>1, <1>5, <2>3, <3>1, <3>2, LimitSizes
    <3>. QED BY <1>2, <2>1, <2>3, <3>1, <3>2, <3>3
  <2>. QED BY <2>2, <2>3
<1>. QED BY <1>4, <1>5

(* What a client holds is its ledger carried to the present. *)
LEMMA HeldIsLedger ==
  ASSUME IInv, NEW c \in Clients
  PROVE  /\ Held(c) \in 0 .. Full
         /\ Covers(granted[c], Held(c), now)
         /\ IsTight(granted[c], Held(c), now)
<1>1. granted[c] \in Seq(0 .. MaxNow) /\ now \in Nat /\ Full \in Nat
  BY LimitSizes DEF IInv, LimiterTypeOK
<1>2. CASE Swept[c] = None
  BY <1>2, SweptKeeps, LimitSizes DEF Held, IsTight
<1>3. CASE Swept[c] # None
  <2>1. /\ Swept[c] \in Buckets /\ Swept[c].seen <= now
        /\ Covers(granted[c], Swept[c].tokens, Swept[c].seen)
        /\ IsTight(granted[c], Swept[c].tokens, Swept[c].seen)
    BY <1>3, SweptKeeps
  <2>2. PICK tokens \in 0 .. Full, seen \in Nat : tokens = Swept[c].tokens /\ seen = Swept[c].seen
    BY <2>1 DEF Buckets
  <2>3. Held(c) = IF tokens + (now - seen) > Full THEN Full ELSE tokens + (now - seen)
    BY <1>3, <2>2 DEF Held, Refilled
  <2>4. seen <= now /\ Covers(granted[c], tokens, seen) /\ IsTight(granted[c], tokens, seen)
    BY <2>1, <2>2
  <2>5. Held(c) \in Int
    BY <1>1, <2>3
  <2>6. Held(c) \in 0 .. Full /\ (tokens = Full => Held(c) = Full)
    <3>1. seen <= now
      BY <2>4
    <3>. QED BY <1>1, <2>3, <2>5, <3>1
  <2>7. ASSUME NEW i \in 1 .. Len(granted[c])
        PROVE  /\ Cost(Since(granted[c], i)) + tokens <= Full + seen - granted[c][i]
                      => Cost(Since(granted[c], i)) + Held(c) <= Full + now - granted[c][i]
               /\ Cost(Since(granted[c], i)) + tokens = Full + seen - granted[c][i]
                      => Held(c) = Full \/ Cost(Since(granted[c], i)) + Held(c) = Full + now - granted[c][i]
    <3>1. PICK cost \in Int, served \in Nat : cost = Cost(Since(granted[c], i)) /\ served = granted[c][i]
      BY LedgerTypes
    <3>2. seen <= now
      BY <2>4
    <3>3. /\ cost + tokens <= Full + seen - served => cost + Held(c) <= Full + now - served
          /\ cost + tokens = Full + seen - served => Held(c) = Full \/ cost + Held(c) = Full + now - served
      <4>1. PICK held \in Int : held = Held(c)
        BY <2>5
      <4>2. held = IF tokens + (now - seen) > Full THEN Full ELSE tokens + (now - seen)
        BY <2>3, <4>1
      <4>3. /\ cost + tokens <= Full + seen - served => cost + held <= Full + now - served
            /\ cost + tokens = Full + seen - served => held = Full \/ cost + held = Full + now - served
        BY <1>1, <3>2, <4>2
      <4>. QED BY <4>1, <4>3
    <3>. QED BY <3>1, <3>3
  <2>8. Covers(granted[c], Held(c), now)
    BY <2>4, <2>7 DEF Covers
  <2>9. IsTight(granted[c], Held(c), now)
    BY <2>4, <2>6, <2>7 DEF IsTight
  <2>. QED BY <2>6, <2>8, <2>9
<1>. QED BY <1>2, <1>3

(* One more request fits into every window exactly when a token is left.    *)
LEMMA HeldDecides ==
  ASSUME IInv, NEW c \in Clients
  PROVE  Windows!Fits(granted[c]) <=> Held(c) >= Refill
<1>1. granted[c] \in Seq(0 .. MaxNow) /\ now \in Nat /\ Held(c) \in 0 .. Full
  BY HeldIsLedger DEF IInv, LimiterTypeOK
<1>2. ASSUME NEW i \in 1 .. Len(granted[c])
      PROVE  /\ Cost(Since(granted[c], i)) \in Int /\ granted[c][i] \in Nat
             /\ (Len(granted[c]) + 2 - i) * Refill = Cost(Since(granted[c], i)) + Refill
  <2>1. Len(granted[c]) + 2 - i = Since(granted[c], i) + 1
    BY LedgerTypes DEF Since
  <2>2. (Len(granted[c]) + 2 - i) * Refill = Cost(Since(granted[c], i) + 1)
    BY <2>1 DEF Cost
  <2>. QED BY <2>2, LedgerTypes
<1>3. Windows!Fits(granted[c]) <=>
        \A i \in 1 .. Len(granted[c]) : Cost(Since(granted[c], i)) + Refill <= Full + now - granted[c][i]
  BY <1>2 DEF Windows!Fits, Full
<1>4. CASE Held(c) >= Refill
  <2>1. ASSUME NEW i \in 1 .. Len(granted[c])
        PROVE  Cost(Since(granted[c], i)) + Refill <= Full + now - granted[c][i]
    <3>1. Cost(Since(granted[c], i)) + Held(c) <= Full + now - granted[c][i]
      BY HeldIsLedger DEF Covers
    <3>2. Cost(Since(granted[c], i)) \in Int /\ granted[c][i] \in Nat
      BY <1>2
    <3>3. PICK cost \in Int, served \in Nat, held \in Int :
             cost = Cost(Since(granted[c], i)) /\ served = granted[c][i] /\ held = Held(c)
      BY <1>1, <3>2
    <3>4. now \in Nat /\ Full \in Nat /\ Refill \in Nat
      BY <1>1, LimitSizes
    <3>5. cost + Refill <= Full + now - served
      <4>1. cost + held <= Full + now - served /\ Refill <= held
        BY <1>4, <3>1, <3>3
      <4>. QED BY <3>4, <4>1
    <3>. QED BY <3>3, <3>5
  <2>. QED BY <1>3, <1>4, <2>1
<1>5. CASE ~(Held(c) >= Refill)
  <2>1. PICK i \in 1 .. Len(granted[c]) : Cost(Since(granted[c], i)) + Held(c) = Full + now - granted[c][i]
    BY <1>1, <1>5, HeldIsLedger, LimitSizes DEF IsTight
  <2>2. ~(Cost(Since(granted[c], i)) + Refill <= Full + now - granted[c][i])
    <3>1. Cost(Since(granted[c], i)) \in Int /\ granted[c][i] \in Nat
      BY <1>2
    <3>. QED BY <1>1, <1>5, <2>1, <3>1, LimitSizes
  <2>. QED BY <1>3, <1>5, <2>2
<1>. QED BY <1>4, <1>5
-----------------------------------------------------------------------------
(* What a request that passed the token check does to the state. *)
Asked(c) ==
    LET allowed == Held(c) >= Refill
    IN  /\ Allow(c, allowed) /\ now' = now
        /\ granted' = IF allowed THEN [granted EXCEPT ![c] = Append(@, now)] ELSE granted

(* A served request is entered at the end of its client's ledger. *)
LEMMA ServeKeeps ==
  ASSUME IInv, NEW c \in Clients, Held(c) >= Refill
  PROVE  /\ Covers(Append(granted[c], now), Held(c) - Refill, now)
         /\ IsTight(Append(granted[c], now), Held(c) - Refill, now)
<1> DEFINE times == Append(granted[c], now)
<1>1. granted[c] \in Seq(0 .. MaxNow) /\ now \in Nat /\ now \in 0 .. MaxNow /\ Held(c) \in 0 .. Full
  BY HeldIsLedger, LimitSizes DEF IInv, LimiterTypeOK
<1>2. /\ Len(granted[c]) \in Nat /\ Len(times) = Len(granted[c]) + 1
      /\ times[Len(times)] = now
      /\ \A i \in 1 .. Len(granted[c]) : times[i] = granted[c][i]
  BY <1>1
<1>3. Cost(Since(times, Len(times))) = Refill
  <2>1. Since(times, Len(times)) = 1
    BY <1>2 DEF Since
  <2>. QED BY <2>1, CostIsLinear
<1>4. ASSUME NEW i \in 1 .. Len(granted[c])
      PROVE  /\ Cost(Since(times, i)) = Cost(Since(granted[c], i)) + Refill
             /\ Cost(Since(granted[c], i)) \in Int
             /\ times[i] = granted[c][i] /\ granted[c][i] \in Nat
  <2>1. Since(times, i) = Since(granted[c], i) + 1
    BY <1>2, LedgerTypes DEF Since
  <2>. QED BY <1>2, <2>1, LedgerTypes
<1>. HIDE DEF times
<1>5. ASSUME NEW i \in 1 .. Len(times)
      PROVE  Cost(Since(times, i)) + (Held(c) - Refill) <= Full + now - times[i]
  <2>1. CASE i = Len(times)
    <3>1. Cost(Since(times, i)) = Refill /\ times[i] = now
      BY <1>2, <1>3, <2>1
    <3>. QED BY <1>1, <3>1, LimitSizes
  <2>2. CASE i # Len(times)
    <3>1. i \in 1 .. Len(granted[c])
      BY <1>2, <2>2
    <3>2. Cost(Since(granted[c], i)) + Held(c) <= Full + now - granted[c][i]
      BY <3>1, HeldIsLedger DEF Covers
    <3>3. /\ Cost(Since(times, i)) = Cost(Since(granted[c], i)) + Refill
          /\ Cost(Since(granted[c], i)) \in Int
          /\ times[i] = granted[c][i] /\ granted[c][i] \in Nat
      BY <1>4, <3>1
    <3>. QED BY <1>1, <3>2, <3>3, LimitSizes
  <2>. QED BY <2>1, <2>2
<1>6. \E i \in 1 .. Len(times) : Cost(Since(times, i)) + (Held(c) - Refill) = Full + now - times[i]
  <2>1. CASE Held(c) = Full
    <3>1. Len(times) \in 1 .. Len(times)
      BY <1>2
    <3>2. Cost(Since(times, Len(times))) + (Held(c) - Refill) = Full + now - times[Len(times)]
      BY <1>1, <1>2, <1>3, <2>1, LimitSizes
    <3>. QED BY <3>1, <3>2
  <2>2. CASE Held(c) # Full
    <3>1. PICK i \in 1 .. Len(granted[c]) : Cost(Since(granted[c], i)) + Held(c) = Full + now - granted[c][i]
      BY <2>2, HeldIsLedger DEF IsTight
    <3>2. i \in 1 .. Len(times)
      BY <1>2
    <3>3. Cost(Since(times, i)) + (Held(c) - Refill) = Full + now - times[i]
      <4>1. /\ Cost(Since(times, i)) = Cost(Since(granted[c], i)) + Refill
            /\ Cost(Since(granted[c], i)) \in Int
            /\ times[i] = granted[c][i] /\ granted[c][i] \in Nat
        BY <1>4
      <4>. QED BY <1>1, <3>1, <4>1, LimitSizes
    <3>. QED BY <3>2, <3>3
  <2>. QED BY <2>1, <2>2
<1>. QED BY <1>5, <1>6 DEF Covers, IsTight, times

(* A request keeps the ledger of every client. *)
LEMMA AskedKeeps ==
  ASSUME IInv, NEW c \in Clients, Asked(c)
  PROVE  IInv'
<1>1. /\ now \in 0 .. MaxNow /\ now' = now /\ lastSweep \in 0 .. now
      /\ granted \in [Clients -> Seq(0 .. MaxNow)]
      /\ Held(c) \in 0 .. Full /\ Swept \in [Clients -> Buckets \cup {None}]
  BY HeldIsLedger, SweptKeeps DEF IInv, LimiterTypeOK, Asked
<1>2. buckets' = [Swept EXCEPT ![c] =
                     [tokens |-> IF Held(c) >= Refill THEN Held(c) - Refill ELSE Held(c), seen |-> now]]
      /\ lastSweep' = IF SweepDue THEN now ELSE lastSweep
  BY DEF Asked, Allow
<1>3. granted' = IF Held(c) >= Refill THEN [granted EXCEPT ![c] = Append(@, now)] ELSE granted
  BY DEF Asked
<1>4. [tokens |-> IF Held(c) >= Refill THEN Held(c) - Refill ELSE Held(c), seen |-> now] \in Buckets
  BY <1>1, LimitSizes DEF Buckets
<1>5. LimiterTypeOK'
  <2>1. granted' \in [Clients -> Seq(0 .. MaxNow)]
    <3>1. Append(granted[c], now) \in Seq(0 .. MaxNow)
      BY <1>1
    <3>. QED BY <1>1, <1>3, <3>1
  <2>2. buckets' \in [Clients -> Buckets \cup {None}]
    BY <1>1, <1>2, <1>4
  <2>3. now' \in 0 .. MaxNow /\ lastSweep' \in 0 .. now'
    BY <1>1, <1>2, LimitSizes
  <2>. QED BY <2>1, <2>2, <2>3 DEF LimiterTypeOK
<1>6. ASSUME NEW d \in Clients, d # c
      PROVE  (Past(granted[d]) /\ Ledger(d))'
  <2>1. buckets'[d] = Swept[d] /\ granted'[d] = granted[d]
    BY <1>1, <1>2, <1>3, <1>6
  <2>2. Past(granted[d])
    BY DEF IInv
  <2>3. Past(granted[d])'
    BY <1>1, <2>1, <2>2 DEF Past
  <2>4. Ledger(d)'
    BY <1>1, <1>2, <2>1, SweptKeeps DEF Ledger
  <2>. QED BY <2>3, <2>4
<1>7. Past(granted[c])'
  <2>1. \A i \in 1 .. Len(granted[c]) : granted[c][i] <= now
    BY DEF IInv, Past
  <2>2. granted[c] \in Seq(0 .. MaxNow) /\ now \in Nat
    BY <1>1, LimitSizes
  <2>3. CASE granted'[c] = granted[c]
    BY <1>1, <2>1, <2>3 DEF Past
  <2>4. CASE granted'[c] = Append(granted[c], now)
    <3>1. ASSUME NEW i \in 1 .. Len(Append(granted[c], now))
          PROVE  Append(granted[c], now)[i] <= now
      <4>1. CASE i = Len(granted[c]) + 1
        BY <2>2, <4>1
      <4>2. CASE i # Len(granted[c]) + 1
        <5>1. i \in 1 .. Len(granted[c]) /\ Append(granted[c], now)[i] = granted[c][i]
          BY <2>2, <4>2
        <5>. QED BY <2>1, <5>1
      <4>. QED BY <4>1, <4>2
    <3>. QED BY <1>1, <2>4, <3>1 DEF Past
  <2>. QED BY <1>1, <1>3, <2>3, <2>4
<1>8. Ledger(c)'
  <2>1. buckets'[c] = [tokens |-> IF Held(c) >= Refill THEN Held(c) - Refill ELSE Held(c), seen |-> now]
    BY <1>1, <1>2
  <2>2. buckets'[c] # None
    BY <1>4, <2>1, NoneAssumption DEF Buckets, Full
  <2>3. /\ buckets'[c].seen = now
        /\ buckets'[c].tokens = IF Held(c) >= Refill THEN Held(c) - Refill ELSE Held(c)
    BY <2>1
  <2>4. now <= now' /\ lastSweep' - Idle <= now
    BY <1>1, <1>2, LimitSizes
  <2>5. CASE Held(c) >= Refill
    <3>1. granted'[c] = Append(granted[c], now)
      BY <1>1, <1>3, <2>5
    <3>. QED BY <2>2, <2>3, <2>4, <2>5, <3>1, ServeKeeps DEF Ledger
  <2>6. CASE ~(Held(c) >= Refill)
    BY <1>3, <2>2, <2>3, <2>4, <2>6, HeldIsLedger DEF Ledger
  <2>. QED BY <2>5, <2>6
<1>. QED BY <1>5, <1>6, <1>7, <1>8 DEF IInv
-----------------------------------------------------------------------------
(* A step is a request that passed the check, one that did not, a tick, or  *)
(* a new process.                                                           *)
LEMMA HandleCases ==
  ASSUME NEW c \in Clients, NEW authorized \in BOOLEAN, NEW valid \in BOOLEAN,
         Handle(c, authorized, valid)
  PROVE  \/ Unauthorized(c)
         \/ Asked(c) /\ answer' = [client |-> c, code |-> Verdict(Held(c) >= Refill, valid)]
<1>1. CASE Unauthorized(c)
  BY <1>1
<1>2. CASE \E allowed \in BOOLEAN : Allow(c, allowed) /\ Respond(c, Verdict(allowed, valid))
  <2>1. PICK allowed \in BOOLEAN : Allow(c, allowed) /\ Respond(c, Verdict(allowed, valid))
    BY <1>2
  <2>2. allowed = (Held(c) >= Refill)
    BY <2>1 DEF Allow
  <2>3. Verdict(allowed, valid) \in {200, 400} <=> Held(c) >= Refill
    <3>1. allowed => Verdict(allowed, valid) \in {200, 400}
      BY DEF Verdict
    <3>2. ~allowed => Verdict(allowed, valid) \notin {200, 400}
      BY DEF Verdict
    <3>. QED BY <2>2, <3>1, <3>2
  <2>. QED BY <2>1, <2>2, <2>3 DEF Respond, Asked
<1>. QED BY <1>1, <1>2 DEF Handle

(* Time passing and a restart keep the ledger. *)
LEMMA TickKeeps ==
  ASSUME IInv, Tick
  PROVE  IInv'
<1>1. /\ now \in Nat /\ now' = now + 1 /\ now' \in 0 .. MaxNow /\ lastSweep \in 0 .. now
      /\ buckets' = buckets /\ lastSweep' = lastSweep /\ granted' = granted
      /\ granted \in [Clients -> Seq(0 .. MaxNow)]
  BY LimitSizes DEF IInv, LimiterTypeOK, Tick, limiter
<1>2. LimiterTypeOK'
  BY <1>1, LimitSizes DEF IInv, LimiterTypeOK
<1>3. ASSUME NEW c \in Clients
      PROVE  (Past(granted[c]) /\ Ledger(c))'
  <2>1. \A i \in 1 .. Len(granted[c]) : granted[c][i] \in Nat /\ granted[c][i] <= now
    BY LedgerTypes
  <2>2. Past(granted[c])'
    BY <1>1, <2>1 DEF Past
  <2>3. CASE buckets[c] = None
    <3>1. Covers(granted[c], Full, now)
      BY <2>3 DEF IInv, Ledger
    <3>2. ASSUME NEW i \in 1 .. Len(granted[c])
          PROVE  Cost(Since(granted[c], i)) + Full <= Full + (now + 1) - granted[c][i]
      <4>1. Cost(Since(granted[c], i)) + Full <= Full + now - granted[c][i]
        BY <3>1 DEF Covers
      <4>2. Cost(Since(granted[c], i)) \in Int /\ granted[c][i] \in Nat
        BY LedgerTypes
      <4>3. now \in Nat /\ Full \in Nat
        BY <1>1, LimitSizes
      <4>. QED BY <4>1, <4>2, <4>3
    <3>3. Covers(granted[c], Full, now + 1)
      BY <3>2 DEF Covers
    <3>4. buckets'[c] = None /\ Covers(granted'[c], Full, now')
      BY <1>1, <2>3, <3>3
    <3>. QED BY <2>2, <3>4 DEF Ledger
  <2>4. CASE buckets[c] # None
    <3>1. buckets[c].seen \in Nat
      BY <2>4 DEF IInv, LimiterTypeOK, Buckets
    <3>2. buckets[c].seen <= now
      BY <2>4 DEF IInv, Ledger
    <3>3. buckets[c].seen <= now'
      BY <1>1, <3>1, <3>2
    <3>4. /\ Covers(granted[c], buckets[c].tokens, buckets[c].seen)
          /\ IsTight(granted[c], buckets[c].tokens, buckets[c].seen)
          /\ lastSweep - Idle <= buckets[c].seen
      BY <2>4 DEF IInv, Ledger
    <3>5. buckets'[c] = buckets[c] /\ granted'[c] = granted[c] /\ lastSweep' = lastSweep
      BY <1>1
    <3>. QED BY <2>2, <2>4, <3>3, <3>4, <3>5 DEF Ledger
  <2>. QED BY <2>2, <2>3, <2>4
<1>. QED BY <1>2, <1>3 DEF IInv

(* Every step keeps the inductive invariant. *)
LEMMA NextIInv ==
  ASSUME IInv, [LimiterNext]_limiterVars
  PROVE  IInv'
<1>1. ASSUME NEW c \in Clients, NEW authorized \in BOOLEAN, NEW valid \in BOOLEAN,
             Handle(c, authorized, valid)
      PROVE  IInv'
  <2>1. CASE Asked(c)
    BY <2>1, AskedKeeps
  <2>2. CASE Unauthorized(c)
    <3>1. UNCHANGED <<now, buckets, lastSweep, granted>>
      BY <2>2 DEF Unauthorized, Respond, limiter
    <3>. QED BY <3>1 DEF IInv, LimiterTypeOK, Past, Ledger, Covers, IsTight
  <2>. QED BY <1>1, <2>1, <2>2, HandleCases
<1>2. CASE Tick
  BY <1>2, TickKeeps
<1>3. CASE LimiterRestart
  <2>1. now \in 0 .. MaxNow /\ now' = now /\ now \in Nat
    BY <1>3, LimitSizes DEF LimiterRestart, IInv, LimiterTypeOK
  <2>. QED BY <1>3, <2>1 DEF LimiterRestart, IInv, LimiterTypeOK, Past, Ledger, Covers
<1>4. CASE UNCHANGED limiterVars
  BY <1>4 DEF limiterVars, limiter, IInv, LimiterTypeOK, Past, Ledger, Covers, IsTight
<1>. QED BY <1>1, <1>2, <1>3, <1>4 DEF LimiterNext

(* The ledger holds in every reachable state. *)
THEOREM Invariance == LimiterSpec => []IInv
<1>. QED BY InitIInv, NextIInv, PTL DEF LimiterSpec

(* The limiter's state has its type: no bucket holds more than a full one   *)
(* or less than nothing, whatever is refilled and taken (Limiter.Allow).    *)
THEOREM TypeCorrect == LimiterSpec => []LimiterTypeOK
<1>1. IInv => LimiterTypeOK
  BY DEF IInv
<1>. QED BY <1>1, Invariance, PTL

(* What a sweep leaves was used within the ten minutes before it.           *)
THEOREM SweptIsForgotten == LimiterSpec => []BucketsAreRecent
<1>1. IInv => BucketsAreRecent
  <2> SUFFICES ASSUME IInv, NEW c \in Clients, buckets[c] # None
               PROVE  buckets[c].seen >= lastSweep - Idle
    BY DEF BucketsAreRecent
  <2>1. lastSweep - Idle <= buckets[c].seen
    BY DEF IInv, Ledger
  <2>2. buckets[c].seen \in Nat /\ lastSweep \in Nat /\ Idle \in Nat
    BY LimitSizes DEF IInv, LimiterTypeOK, Buckets
  <2>. QED BY <2>1, <2>2
<1>. QED BY <1>1, Invariance, PTL

-----------------------------------------------------------------------------
(* A served request keeps the bound of the windows that end with it.        *)
LEMMA ServeKeepsBound ==
  ASSUME IInv, WindowBound, NEW c \in Clients, Held(c) >= Refill,
         granted' = [granted EXCEPT ![c] = Append(@, now)]
  PROVE  WindowBound'
<1> SUFFICES ASSUME NEW d \in Clients, NEW i \in DOMAIN granted'[d], NEW j \in DOMAIN granted'[d], i <= j
             PROVE  (j + 1 - i) * Refill <= Capacity * Refill + granted'[d][j] - granted'[d][i]
  BY DEF WindowBound
<1>1. granted \in [Clients -> Seq(0 .. MaxNow)] /\ now \in 0 .. MaxNow /\ now \in Nat
  BY LimitSizes DEF IInv, LimiterTypeOK
<1>2. CASE d # c
  BY <1>1, <1>2 DEF WindowBound
<1>3. CASE d = c
  <2>1. /\ granted[c] \in Seq(0 .. MaxNow) /\ Len(granted[c]) \in Nat
        /\ granted'[d] = Append(granted[c], now)
    BY <1>1, <1>3
  <2>2. /\ i \in 1 .. Len(granted[c]) + 1 /\ j \in 1 .. Len(granted[c]) + 1
        /\ \A k \in 1 .. Len(granted[c]) : granted'[d][k] = granted[c][k]
        /\ granted'[d][Len(granted[c]) + 1] = now
    BY <1>1, <2>1
  <2>3. CASE j # Len(granted[c]) + 1
    <3>1. i \in DOMAIN granted[c] /\ j \in DOMAIN granted[c]
      BY <2>1, <2>2, <2>3
    <3>2. granted'[d][i] = granted[c][i] /\ granted'[d][j] = granted[c][j]
      BY <2>1, <2>2, <3>1
    <3>. QED BY <3>1, <3>2 DEF WindowBound
  <2>4. CASE j = Len(granted[c]) + 1 /\ i # j
    <3>1. i \in 1 .. Len(granted[c]) /\ j + 1 - i = Len(granted[c]) + 2 - i
      BY <2>1, <2>2, <2>4
    <3>2. (Len(granted[c]) + 2 - i) * Refill <= Capacity * Refill + now - granted[c][i]
      BY <3>1, HeldDecides DEF Windows!Fits
    <3>. QED BY <2>2, <2>4, <3>1, <3>2
  <2>5. CASE j = Len(granted[c]) + 1 /\ i = j
    <3>1. (j + 1 - i) * Refill = Refill /\ granted'[d][i] = now /\ granted'[d][j] = now
      <4>1. j + 1 - i = 1
        BY <2>1, <2>5
      <4>. QED BY <2>2, <2>5, <4>1, LimitSizes
    <3>2. Refill <= Capacity * Refill /\ Capacity * Refill \in Nat /\ Refill \in Nat
      BY LimitSizes DEF Full
    <3>3. Refill <= Capacity * Refill + now - now
      BY <1>1, <3>2
    <3>. QED BY <3>1, <3>3, Zenon
  <2>. QED BY <2>3, <2>4, <2>5
<1>. QED BY <1>2, <1>3

(* Between any two served requests of a client lie no more than a full      *)
(* bucket and its refill allow, whatever was swept away in between.         *)
THEOREM BoundHolds == LimiterSpec => []WindowBound
<1>1. LimiterInit => WindowBound
  BY DEF LimiterInit, WindowBound
<1>2. ASSUME IInv, WindowBound, [LimiterNext]_limiterVars
      PROVE  WindowBound'
  <2>1. CASE granted' = granted
    BY <1>2, <2>1 DEF WindowBound
  <2>2. CASE granted' # granted /\ LimiterRestart
    BY <2>2 DEF WindowBound, LimiterRestart
  <2>3. CASE granted' # granted /\ ~LimiterRestart
    <3>1. PICK c \in Clients, authorized, valid \in BOOLEAN : Handle(c, authorized, valid)
      BY <1>2, <2>3 DEF LimiterNext, Tick, limiterVars
    <3>2. Asked(c)
      BY <2>3, <3>1, HandleCases DEF Unauthorized, Respond
    <3>. QED BY <1>2, <2>3, <3>2, ServeKeepsBound DEF Asked
  <2>. QED BY <2>1, <2>2, <2>3
<1>. QED BY <1>1, <1>2, Invariance, PTL DEF LimiterSpec

(* The bucket implements the window: it serves a request exactly when no    *)
(* window of the client's past would overflow, and denies all others; a     *)
(* request without a valid token changes nothing (Limiter.Allow, tokenAuth).*)
THEOREM ImplementsWindows == LimiterSpec => WindowSpec
<1>1. LimiterInit => Windows!Init
  BY DEF LimiterInit, Windows!Init, NoAnswer, Windows!NoAnswer
<1>2. ASSUME IInv, [LimiterNext]_limiterVars
      PROVE  [Windows!Next]_<<now, granted, answer>>
  <2>1. ASSUME NEW c \in Clients, NEW authorized \in BOOLEAN, NEW valid \in BOOLEAN,
               Handle(c, authorized, valid)
        PROVE  Windows!Next
    <3>1. CASE Unauthorized(c)
      <4>1. Windows!Unauthorized(c)
        BY <3>1 DEF Unauthorized, Respond, Windows!Unauthorized
      <4>. QED BY <4>1 DEF Windows!Next
    <3>2. CASE Asked(c) /\ answer' = [client |-> c, code |-> Verdict(Held(c) >= Refill, valid)]
      <4>1. CASE Held(c) >= Refill
        <5>1. PICK code \in {200, 400} : code = Verdict(Held(c) >= Refill, valid)
          BY <4>1 DEF Verdict
        <5>2. Windows!Fits(granted[c])
          BY <1>2, <4>1, HeldDecides
        <5>3. Windows!Serve(c, code)
          BY <3>2, <4>1, <5>1, <5>2 DEF Asked, Windows!Serve
        <5>. QED BY <5>3 DEF Windows!Next
      <4>2. CASE ~(Held(c) >= Refill)
        <5>1. ~Windows!Fits(granted[c])
          BY <1>2, <4>2, HeldDecides
        <5>2. Windows!Deny(c)
          BY <3>2, <4>2, <5>1 DEF Asked, Verdict, Windows!Deny
        <5>. QED BY <5>2 DEF Windows!Next
      <4>. QED BY <4>1, <4>2
    <3>. QED BY <2>1, <3>1, <3>2, HandleCases
  <2>2. CASE Tick
    BY <2>2 DEF Tick, Windows!Next, Windows!Tick, NoAnswer, Windows!NoAnswer
  <2>3. CASE LimiterRestart
    BY <2>3 DEF LimiterRestart, Windows!Next, Windows!Restart, NoAnswer, Windows!NoAnswer
  <2>4. CASE UNCHANGED limiterVars
    BY <2>4 DEF limiterVars
  <2>. QED BY <1>2, <2>1, <2>2, <2>3, <2>4 DEF LimiterNext
<1>. QED BY <1>1, <1>2, Invariance, PTL DEF LimiterSpec, WindowSpec, Windows!Spec
=============================================================================
