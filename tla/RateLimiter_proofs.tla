-------------------------- MODULE RateLimiter_proofs --------------------------
(***************************************************************************)
(* Theorems about module RateLimiter, for every number of keys, requests   *)
(* and addresses and every rate.                                           *)
(***************************************************************************)
EXTENDS RateLimiter, TLAPS

\* A request that is about to spend a token has a visitor to take it from.
HoldsVisitor == \A r \in Requests : pc[r] = "allow" => held[r] \in Heap

\* The tokens a bucket would have now, fractions included, are covered by
\* what the rate still allows.
Covered(v) ==
  Least(Burst * Interval, tokens[v] * Interval + Rate * age[v]) <= quota[v]

LimiterInv == TypeOK /\ HoldsVisitor /\ \A v \in Heap : Covered(v)

-----------------------------------------------------------------------------
(***************************************************************************)
(* Arithmetic                                                              *)
(***************************************************************************)
\* The product of two natural numbers is one.
LEMMA NatProduct == ASSUME NEW a \in Nat, NEW b \in Nat PROVE a * b \in Nat
<1> QED OBVIOUS

\* Multiplication preserves the order.
LEMMA ProductMonotone ==
  ASSUME NEW a \in Int, NEW b \in Int, NEW c \in Nat, a <= b
  PROVE  a * c <= b * c
<1> QED OBVIOUS

\* Whole intervals are no longer than the time they were taken from.
LEMMA WholeIntervals ==
  ASSUME NEW a \in Nat, NEW i \in Nat \ {0}
  PROVE  a \div i \in Nat /\ (a \div i) * i <= a
<1> QED OBVIOUS

\* What the code refills is covered: it rounds down twice.
LEMMA RefillCovered ==
  ASSUME ParametersAssumption, NEW t \in Nat, NEW a \in Nat, NEW q \in Int,
         Least(Burst * Interval, t * Interval + Rate * a) <= q
  PROVE  /\ Least(Burst, t + (a \div Interval) * Rate) \in Nat
         /\ Least(Burst, t + (a \div Interval) * Rate) * Interval <= q
<1> DEFINE d == a \div Interval
           refill == Least(Burst, t + d * Rate)
<1>1. Rate \in Nat /\ Burst \in Nat /\ Interval \in Nat \ {0}
  BY DEF ParametersAssumption
<1>2. d \in Nat /\ d * Interval <= a
  BY <1>1, WholeIntervals
<1> HIDE DEF d
<1>3. d * Rate \in Nat /\ t * Interval \in Nat /\ Burst * Interval \in Nat
  BY <1>1, <1>2, NatProduct
<1>4. refill \in Nat /\ refill <= Burst /\ refill <= t + d * Rate
  BY <1>1, <1>3 DEF Least
<1>5. (d * Interval) * Rate <= a * Rate
  BY <1>1, <1>2, ProductMonotone
<1>6. (t + d * Rate) * Interval <= t * Interval + Rate * a
  BY <1>1, <1>2, <1>5
<1> HIDE DEF refill
<1>7. refill * Interval <= Burst * Interval
  BY <1>1, <1>4, ProductMonotone
<1>8. refill * Interval <= (t + d * Rate) * Interval
  BY <1>1, <1>3, <1>4, ProductMonotone
<1>9. /\ refill * Interval \in Int /\ (t + d * Rate) * Interval \in Int
      /\ t * Interval + Rate * a \in Int
  BY <1>1, <1>2, <1>3, <1>4
<1>10. refill * Interval <= q
  BY <1>3, <1>6, <1>7, <1>8, <1>9 DEF Least
<1> QED BY <1>4, <1>10 DEF refill, d

-----------------------------------------------------------------------------
(***************************************************************************)
(* The invariant                                                           *)
(***************************************************************************)
LEMMA InitLimiterInv == ASSUME Init PROVE LimiterInv
<1>1. Rate \in Nat /\ Burst \in Nat \ {0} /\ Interval \in Nat \ {0} /\ Cleanup \in Nat \ {0}
  BY ParametersAssumption
<1>2. Burst * Interval \in Nat
  BY <1>1, NatProduct
<1>3. TypeOK
  <2>1. tokens \in [Heap -> 0..Burst] /\ age \in [Heap -> 0..(Cleanup + 1)]
    BY <1>1 DEF Init
  <2>2. quota \in [Heap -> Int] /\ ticker \in 0..(Cleanup - 1)
    BY <1>1, <1>2 DEF Init
  <2>3. visitors \in [Keys -> Heap \union {None}] /\ held \in [Requests -> Heap \union {None}]
    BY DEF Init
  <2>4. /\ pc \in [Requests -> {"idle", "lookup", "create", "allow"}]
        /\ answer \in [Requests -> {"none", "allowed", "denied"}]
    BY DEF Init
  <2> QED BY <2>1, <2>2, <2>3, <2>4 DEF Init, TypeOK
<1>4. HoldsVisitor
  BY DEF Init, HoldsVisitor
<1>5. ASSUME NEW v \in Heap PROVE Covered(v)
  BY <1>1, <1>2 DEF Init, Covered, Least
<1> QED BY <1>3, <1>4, <1>5 DEF LimiterInv

\* getVisitor starts a bucket full and lets a goroutine hold only a visitor.
LEMMA CreateLimiterInv ==
  ASSUME LimiterInv, NEW r \in Requests, Create(r)
  PROVE  LimiterInv'
<1> USE DEF LimiterInv, Goto
<1>1. Rate \in Nat /\ Burst \in Nat \ {0} /\ Interval \in Nat \ {0} /\ Cleanup \in Nat \ {0}
  BY ParametersAssumption
<1>2. Burst * Interval \in Nat
  BY <1>1, NatProduct
<1>3. CASE Created(r)
  <2>1. PICK v \in Unused :
          /\ visitors' = [visitors EXCEPT ![key[r]] = v]
          /\ tokens' = [tokens EXCEPT ![v] = Burst]
          /\ age' = [age EXCEPT ![v] = 0]
          /\ held' = [held EXCEPT ![r] = v]
          /\ quota' = [quota EXCEPT ![v] = Burst * Interval]
    BY <1>3 DEF Create
  <2>2. v \in Heap
    BY DEF Unused
  <2>3. TypeOK'
    <3> HIDE DEF LimiterInv
    <3> TypeOK
      BY DEF LimiterInv
    <3>1. tokens' \in [Heap -> 0..Burst] /\ age' \in [Heap -> 0..(Cleanup + 1)]
      <4>1. Burst \in 0..Burst /\ 0 \in 0..(Cleanup + 1)
        BY <1>1
      <4> QED BY <2>1, <4>1 DEF TypeOK
    <3>2. quota' \in [Heap -> Int]
      <4> DEFINE full == Burst * Interval
      <4>1. full \in Int
        BY <1>2
      <4>2. quota' = [quota EXCEPT ![v] = full]
        BY <2>1
      <4> HIDE DEF full
      <4> QED BY <4>1, <4>2 DEF TypeOK
    <3>3. visitors' \in [Keys -> Heap \union {None}]
      BY <2>1, <2>2 DEF TypeOK
    <3>5. held' \in [Requests -> Heap \union {None}]
      BY <2>1, <2>2 DEF TypeOK
    <3>4. pc' \in [Requests -> {"idle", "lookup", "create", "allow"}]
      BY DEF Create, TypeOK
    <3> QED BY <3>1, <3>2, <3>3, <3>4, <3>5 DEF Create, TypeOK
  <2>4. HoldsVisitor'
    BY <2>1, <2>2 DEF Create, HoldsVisitor, TypeOK
  <2>5. ASSUME NEW w \in Heap PROVE Covered(w)'
    <3>1. CASE w = v
      BY <1>1, <1>2, <2>1, <3>1 DEF Covered, Least, TypeOK
    <3>2. CASE w # v
      <4>1. tokens'[w] = tokens[w] /\ age'[w] = age[w] /\ quota'[w] = quota[w]
        BY <2>1, <3>2 DEF TypeOK
      <4> QED BY <4>1 DEF Covered
    <3> QED BY <3>1, <3>2
  <2> QED BY <2>3, <2>4, <2>5
<1>4. CASE ~Created(r)
  <2>1. held' = [held EXCEPT ![r] = visitors[key[r]]] /\ UNCHANGED <<visitors, tokens, age, quota>>
    BY <1>4 DEF Create
  <2>2. visitors[key[r]] \in Heap
    BY <1>4 DEF Created, TypeOK
  <2>3. TypeOK'
    BY <2>1, <2>2 DEF Create, TypeOK
  <2>4. HoldsVisitor'
    BY <2>1, <2>2 DEF Create, HoldsVisitor, TypeOK
  <2> QED BY <2>1, <2>3, <2>4 DEF Covered
<1> QED BY <1>3, <1>4

\* A spent token is covered, and nothing else is lost but the part of an
\* interval that had elapsed.
LEMMA AllowLimiterInv ==
  ASSUME LimiterInv, NEW r \in Requests, Allow(r)
  PROVE  LimiterInv'
<1> USE DEF LimiterInv, Goto
<1> DEFINE v == held[r]
<1>1. Rate \in Nat /\ Burst \in Nat \ {0} /\ Interval \in Nat \ {0} /\ Cleanup \in Nat \ {0}
  BY ParametersAssumption
<1>2. v \in Heap
  BY DEF Allow, HoldsVisitor
<1>3. tokens[v] \in Nat /\ age[v] \in Nat /\ quota[v] \in Int
  BY <1>1, <1>2 DEF TypeOK
<1>4. Refilled(v) \in Nat /\ Refilled(v) * Interval <= quota[v]
  BY <1>2, <1>3, RefillCovered, ParametersAssumption DEF Covered, Refilled
<1>5. Refilled(v) <= Burst
  <2>1. age[v] \div Interval \in Nat
    BY <1>1, <1>3, WholeIntervals
  <2>2. (age[v] \div Interval) * Rate \in Nat
    BY <1>1, <2>1, NatProduct
  <2> QED BY <1>1, <1>3, <2>2 DEF Refilled, Least
<1> DEFINE left == IF Granted(v) THEN Refilled(v) - 1 ELSE 0
           allowance == IF Granted(v) THEN quota[v] - Interval ELSE quota[v]
<1>6. tokens' = [tokens EXCEPT ![v] = left] /\ age' = [age EXCEPT ![v] = 0]
  BY DEF Allow
<1>7. quota' = [quota EXCEPT ![v] = allowance]
  BY <1>2 DEF Allow, TypeOK
<1>8. left \in 0..Burst /\ allowance \in Int
  BY <1>1, <1>3, <1>4, <1>5 DEF Granted
<1>9. left * Interval <= allowance /\ left * Interval \in Nat
  <2>1. CASE Granted(v)
    <3>1. (Refilled(v) - 1) * Interval = Refilled(v) * Interval - Interval
      BY <1>1, <1>4
    <3>2. Refilled(v) - 1 \in Nat
      BY <1>4, <2>1 DEF Granted
    <3>3. (Refilled(v) - 1) * Interval \in Nat /\ Refilled(v) * Interval \in Nat
      BY <1>1, <1>4, <3>2, NatProduct
    <3> QED BY <1>1, <1>3, <1>4, <2>1, <3>1, <3>3
  <2>2. CASE ~Granted(v)
    <3>1. Refilled(v) = 0
      BY <1>4, <2>2 DEF Granted
    <3> QED BY <1>1, <1>3, <1>4, <2>2, <3>1
  <2> QED BY <2>1, <2>2
<1> HIDE DEF left, allowance
<1>10. TypeOK'
  BY <1>1, <1>2, <1>6, <1>7, <1>8 DEF Allow, TypeOK
<1>11. HoldsVisitor'
  BY DEF Allow, HoldsVisitor, TypeOK
<1>12. ASSUME NEW w \in Heap PROVE Covered(w)'
  <2>1. CASE w = v
    <3>1. tokens'[w] = left /\ age'[w] = 0 /\ quota'[w] = allowance
      BY <1>2, <1>6, <1>7, <2>1 DEF TypeOK
    <3>2. Burst * Interval \in Nat /\ Rate * 0 = 0
      BY <1>1, NatProduct
    <3> QED BY <1>8, <1>9, <3>1, <3>2 DEF Covered, Least
  <2>2. CASE w # v
    <3>1. tokens'[w] = tokens[w] /\ age'[w] = age[w] /\ quota'[w] = quota[w]
      BY <1>6, <1>7, <2>2 DEF TypeOK
    <3> QED BY <3>1 DEF Covered
  <2> QED BY <2>1, <2>2
<1> QED BY <1>10, <1>11, <1>12

\* A tick adds Rate to the quota and no more to what a bucket would have.
LEMMA TickLimiterInv ==
  ASSUME LimiterInv, Tick
  PROVE  LimiterInv'
<1> USE DEF LimiterInv
<1>1. Rate \in Nat /\ Burst \in Nat \ {0} /\ Interval \in Nat \ {0} /\ Cleanup \in Nat \ {0}
  BY ParametersAssumption
<1>2. Burst * Interval \in Nat
  BY <1>1, NatProduct
<1>3. TypeOK'
  <2>1. ticker' \in 0..(Cleanup - 1)
    BY <1>1 DEF Tick, TypeOK
  <2>2. due' \in BOOLEAN
    BY DEF Tick, TypeOK
  <2>3. age' \in [Heap -> 0..(Cleanup + 1)]
    BY <1>1 DEF Tick, TypeOK, Least
  <2>4. quota' \in [Heap -> Int]
    BY <1>1, <1>2 DEF Tick, TypeOK, Least
  <2> QED BY <2>1, <2>2, <2>3, <2>4 DEF Tick, TypeOK
<1>4. HoldsVisitor'
  BY DEF Tick, HoldsVisitor
<1>5. ASSUME NEW v \in Heap PROVE Covered(v)'
  <2>1. /\ tokens'[v] = tokens[v] /\ age'[v] = Least(Cleanup + 1, age[v] + 1)
        /\ quota'[v] = Least(Burst * Interval, quota[v] + Rate)
    BY DEF Tick
  <2>2. tokens[v] \in Nat /\ age[v] \in Nat /\ quota[v] \in Int
    BY <1>1 DEF TypeOK
  <2>3. age'[v] \in Nat /\ age'[v] <= age[v] + 1
    BY <1>1, <2>1, <2>2 DEF Least
  <2>4. age'[v] * Rate <= (age[v] + 1) * Rate
    BY <1>1, <2>2, <2>3, ProductMonotone
  <2>5. Rate * age'[v] <= Rate * age[v] + Rate
    BY <1>1, <2>2, <2>3, <2>4
  <2>6. /\ tokens[v] * Interval \in Nat /\ Rate * age[v] \in Nat
        /\ Rate * age'[v] \in Nat
    BY <1>1, <2>2, <2>3, NatProduct
  <2>7. Least(Burst * Interval, tokens[v] * Interval + Rate * age[v]) <= quota[v]
    BY DEF Covered
  <2> QED BY <1>1, <1>2, <2>1, <2>2, <2>5, <2>6, <2>7 DEF Covered, Least
<1> QED BY <1>3, <1>4, <1>5

LEMMA NextLimiterInv ==
  ASSUME LimiterInv, [Next]_vars
  PROVE  LimiterInv'
<1> USE DEF LimiterInv, Goto
<1>1. ASSUME UNCHANGED <<tokens, age, quota>>
      PROVE  (\A v \in Heap : Covered(v))'
  BY <1>1 DEF Covered
<1>2. ASSUME NEW r \in Requests, Arrive(r) PROVE LimiterInv'
  <2>1. TypeOK'
    BY <1>2 DEF Arrive, TypeOK
  <2>2. HoldsVisitor'
    BY <1>2 DEF Arrive, HoldsVisitor, TypeOK
  <2> QED BY <1>1, <1>2, <2>1, <2>2 DEF Arrive
<1>3. ASSUME NEW r \in Requests, Lookup(r) PROVE LimiterInv'
  <2>1. TypeOK'
    BY <1>3 DEF Lookup, TypeOK
  <2>2. HoldsVisitor'
    BY <1>3 DEF Lookup, HoldsVisitor, TypeOK
  <2> QED BY <1>1, <1>3, <2>1, <2>2 DEF Lookup
<1>4. ASSUME StartSweep PROVE LimiterInv'
  BY <1>1, <1>4 DEF StartSweep, TypeOK, HoldsVisitor
<1>5. ASSUME SweepKey PROVE LimiterInv'
  <2>1. TypeOK'
    BY <1>5 DEF SweepKey, TypeOK
  <2>2. HoldsVisitor'
    BY <1>5 DEF SweepKey, HoldsVisitor
  <2> QED BY <1>1, <1>5, <2>1, <2>2 DEF SweepKey
<1>6. ASSUME EndSweep PROVE LimiterInv'
  BY <1>1, <1>6 DEF EndSweep, TypeOK, HoldsVisitor
<1>7. CASE UNCHANGED vars
  BY <1>1, <1>7 DEF vars, TypeOK, HoldsVisitor
<1> QED
  BY <1>2, <1>3, <1>4, <1>5, <1>6, <1>7, CreateLimiterInv, AllowLimiterInv, TickLimiterInv
  DEF Next, Handle, Clean

\* Every state the limiter reaches has the types its variables are given.
THEOREM LimiterTypeCorrect == Spec => []TypeOK
<1>1. Init => LimiterInv
  BY InitLimiterInv
<1>2. LimiterInv /\ [Next]_vars => LimiterInv'
  BY NextLimiterInv
<1>3. LimiterInv => TypeOK
  BY DEF LimiterInv
<1> QED BY <1>1, <1>2, <1>3, PTL DEF Spec

\* No bucket ever allows more than Rate per interval with a burst of Burst,
\* whatever the rate, the burst and the pattern of requests (Allow).
THEOREM WithinRateHolds == Spec => []WithinRate
<1>1. Init => LimiterInv
  BY InitLimiterInv
<1>2. LimiterInv /\ [Next]_vars => LimiterInv'
  BY NextLimiterInv
<1>3. LimiterInv => WithinRate
  <2> SUFFICES ASSUME LimiterInv, NEW v \in Heap PROVE quota[v] >= 0
    BY DEF WithinRate
  <2>1. Rate \in Nat /\ Burst \in Nat /\ Interval \in Nat
    BY ParametersAssumption
  <2>2. tokens[v] \in Nat /\ age[v] \in Nat /\ quota[v] \in Int
    BY <2>1, ParametersAssumption DEF LimiterInv, TypeOK
  <2>3. Burst * Interval \in Nat /\ tokens[v] * Interval \in Nat /\ Rate * age[v] \in Nat
    BY <2>1, <2>2, NatProduct
  <2> QED BY <2>2, <2>3 DEF LimiterInv, Covered, Least
<1> QED BY <1>1, <1>2, <1>3, PTL DEF Spec

\* A bucket in use is never exchanged for another one: only the clean-up
\* takes it out of the map, and only when it is stale (getVisitor looks
\* twice, cleanupLoop once).
THEOREM NeverReplacedHolds == Spec => NeverReplaced
<1> DEFINE Kept ==
      \A k \in Keys : visitors[k] # None /\ visitors'[k] # visitors[k] =>
        visitors'[k] = None /\ sweeping /\ age[visitors[k]] > Cleanup
<1>1. Init => LimiterInv
  BY InitLimiterInv
<1>2. LimiterInv /\ [Next]_vars => LimiterInv'
  BY NextLimiterInv
<1>3. ASSUME LimiterInv, Next PROVE Kept
  <2> SUFFICES ASSUME NEW k \in Keys, visitors[k] # None, visitors'[k] # visitors[k]
               PROVE  visitors'[k] = None /\ sweeping /\ age[visitors[k]] > Cleanup
    OBVIOUS
  <2>1. ASSUME NEW r \in Requests, Create(r) PROVE FALSE
    BY <1>3, <2>1 DEF Create, Created, LimiterInv, TypeOK
  <2>2. CASE SweepKey
    BY <1>3, <2>2 DEF SweepKey, Stale, LimiterInv, TypeOK
  <2>3. CASE Tick \/ StartSweep \/ EndSweep
    BY <2>3 DEF Tick, StartSweep, EndSweep
  <2>4. ASSUME NEW r \in Requests, Arrive(r) \/ Lookup(r) \/ Allow(r) PROVE FALSE
    BY <2>4 DEF Arrive, Lookup, Allow
  <2> QED BY <1>3, <2>1, <2>2, <2>3, <2>4 DEF Next, Handle, Clean
<1>4. LimiterInv /\ [Next]_vars => [Kept]_vars
  BY <1>3
<1> QED BY <1>1, <1>2, <1>4, PTL DEF Spec, NeverReplaced
=============================================================================
