----------------------------- MODULE CrlScanProofs -----------------------------
(***************************************************************************)
(* Proofs about CrlScan, for every buffer, bound, serial and field.  The   *)
(* pin of thisUpdate: the two searches differ only at the last position of *)
(* the header, and a UTCTime there would share its second byte with the    *)
(* tag at the offset.  The scan for the serial: rolling the fingerprint    *)
(* gives that of the next window, no two windows have the same, and the    *)
(* product of the differences is zero iff one of them is.                  *)
(***************************************************************************)
EXTENDS CrlScan, TLAPS, WellFoundedInduction

Inputs == tbs \in [Positions -> Bytes] /\ len \in 0 .. N /\ off \in Positions

IInv == Inputs /\ PinExact

(* The last position a backend does not look at holds no UTCTime.           *)
LEMMA NoOverlap ==
  ASSUME Inputs, NEW q \in Positions, TimeAt(q), TimeAt(off)
  PROVE  q # off - 1
  BY CrlAssumption DEF Inputs, TimeAt, Positions

(* Both searches look at all that matters.                                  *)
LEMMA SearchedEnough ==
  ASSUME Inputs, DatesAnchored, NEW backend \in {"gnark", "noir"},
         NEW q \in Positions, q < off, TimeAt(q)
  PROVE  Searched(backend, q)
  <1>1. q # off - 1
    BY NoOverlap DEF DatesAnchored
  <1>2. off <= HeaderScan /\ off \in Int /\ q \in Int /\ HeaderScan \in Int /\ N \in Int
    BY CrlAssumption DEF DatesAnchored, Inputs, Positions
  <1>3. q + 1 < HeaderScan /\ q < HeaderScan
    BY <1>1, <1>2
  <1>4. q + 1 < N
    BY <1>2 DEF TimeAt, Positions
  <1>5. QED
    BY <1>3, <1>4 DEF Searched, SearchedByGnark, SearchedByNoir

LEMMA AcceptsExact ==
  ASSUME Inputs, NEW backend \in {"gnark", "noir"}
  PROVE  Accepts(backend) <=> (HintedOff(off) /\ DatesAnchored)
  <1>1. ASSUME DatesAnchored PROVE off \in FirstTimes
    BY <1>1, CrlAssumption DEF DatesAnchored, FirstTimes, Inputs, Positions
  <1>2. ASSUME Accepts(backend) PROVE HintedOff(off) /\ DatesAnchored
    <2>1. DatesAnchored
      BY <1>2 DEF Accepts
    <2>2. ASSUME NEW r \in FirstTimes PROVE off <= r
      <3>1. r \in Positions /\ TimeAt(r)
        BY DEF FirstTimes
      <3>2. SUFFICES ASSUME r < off PROVE FALSE
        BY <3>1, CrlAssumption DEF Inputs, Positions
      <3>3. Searched(backend, r)
        BY <2>1, <3>1, <3>2, SearchedEnough
      <3>4. QED
        BY <1>2, <3>1, <3>2, <3>3 DEF Accepts
    <2>3. QED
      BY <1>1, <2>1, <2>2 DEF HintedOff
  <1>3. ASSUME HintedOff(off), DatesAnchored PROVE Accepts(backend)
    <2>1. SUFFICES ASSUME NEW q \in Positions, q < off, TimeAt(q) PROVE FALSE
      BY <1>3 DEF Accepts
    <2>2. q + 1 < len
      BY <1>3, <2>1, CrlAssumption DEF DatesAnchored, Inputs, Positions
    <2>3. q \in FirstTimes
      BY <2>1, <2>2 DEF FirstTimes
    <2>4. off <= q
      BY <1>3, <2>3 DEF HintedOff
    <2>5. QED
      BY <2>1, <2>4, CrlAssumption DEF Inputs, Positions
  <1>4. QED
    BY <1>2, <1>3

--------------------------------------------------------------------------------
LEMMA InitInv == Init => IInv
  BY DEF Init, IInv, Inputs, PinExact

LEMMA PinStep ==
  ASSUME IInv, Pin
  PROVE  IInv'
  <1>1. /\ tbs' = tbs /\ len' = len /\ off' = off
        /\ pinned' = {backend \in {"gnark", "noir"} : Accepts(backend)}
    BY DEF Pin
  <1>2. Inputs'
    BY <1>1 DEF IInv, Inputs
  <1>3. /\ HintedOff(off)' <=> HintedOff(off)
        /\ DatesAnchored' <=> DatesAnchored
    BY <1>1 DEF HintedOff, FirstTimes, TimeAt, DatesAnchored, NextOff
  <1>4. ASSUME NEW backend \in {"gnark", "noir"}
        PROVE  backend \in pinned' <=> (HintedOff(off)' /\ DatesAnchored')
    BY <1>1, <1>3, AcceptsExact DEF IInv
  <1>5. QED
    BY <1>2, <1>4 DEF IInv, PinExact

LEMMA OtherSteps ==
  ASSUME IInv, ScanStart \/ ScanStep \/ ScanEnd \/ UNCHANGED vars
  PROVE  IInv'
  <1>1. /\ tbs' = tbs /\ len' = len /\ off' = off /\ pinned' = pinned
        /\ pc = "pin" => pc' = "pin"
    BY DEF ScanStart, ScanStep, ScanEnd, vars
  <1>2. Inputs'
    BY <1>1 DEF IInv, Inputs
  <1>3. PinExact'
    BY <1>1 DEF IInv, PinExact, HintedOff, FirstTimes, TimeAt, DatesAnchored, NextOff
  <1>4. QED
    BY <1>2, <1>3 DEF IInv

(* Of every CRL buffer, both circuits accept as the offset of thisUpdate    *)
(* exactly the first UTCTime, which is the builder's hint, if it is in the  *)
(* header and another one follows it: verifyCrlNonMembership, step (b).     *)
THEOREM PinAlwaysExact == Spec => []PinExact
  <1>1. IInv /\ [Next]_vars => IInv'
    BY PinStep, OtherSteps DEF Next
  <1>2. IInv => PinExact
    BY DEF IInv
  <1>3. QED
    BY InitInv, <1>1, <1>2, PTL DEF Spec
--------------------------------------------------------------------------------
(* Induction, for a set of numbers, and what it gives.                      *)
LEMMA SetInduction ==
  ASSUME NEW S \in SUBSET Nat, 0 \in S, \A n \in S : n + 1 \in S
  PROVE  S = Nat
  <1> DEFINE R == Nat \ S
  <1>1. SUFFICES ASSUME R # {} PROVE FALSE
    OBVIOUS
  <1>2. R \in SUBSET Nat
    OBVIOUS
  <1> HIDE DEF R
  <1>3. \E x \in R : \A y \in R : ~(<<y, x>> \in OpToRel(<, Nat))
    BY <1>1, <1>2, WFMin, NatLessThanWellFounded, Zenon
  <1>4. PICK x \in R : \A y \in R : ~(<<y, x>> \in {ss \in Nat \X Nat : ss[1] < ss[2]})
    BY <1>3, Zenon DEF OpToRel
  <1>5. x \in Nat /\ x \notin S /\ x # 0
    BY <1>2 DEF R
  <1>6. x - 1 \in Nat /\ x - 1 < x
    BY <1>5
  <1>7. x - 1 \notin R
    <2>1. <<x - 1, x>> \in {ss \in Nat \X Nat : ss[1] < ss[2]}
      BY <1>5, <1>6
    <2>2. QED
      BY <1>4, <2>1
  <1>8. x - 1 \in S
    BY <1>6, <1>7 DEF R
  <1>9. (x - 1) + 1 \in S
    BY <1>8
  <1>10. QED
    BY <1>5, <1>9

(* What the first value has and a step keeps, every value has.              *)
LEMMA Climb ==
  ASSUME NEW m \in Nat, NEW e, NEW X, e[0] \in X,
         \A j \in 0 .. (m - 1) : e[j] \in X => e[j + 1] \in X
  PROVE  \A j \in 0 .. m : e[j] \in X
  <1> DEFINE S == {j \in Nat : j <= m => e[j] \in X}
  <1>1. 0 \in S
    OBVIOUS
  <1>2. ASSUME NEW j \in S PROVE j + 1 \in S
    OBVIOUS
  <1>3. S \in SUBSET Nat
    OBVIOUS
  <1> HIDE DEF S
  <1>4. S = Nat
    BY <1>1, <1>2, <1>3, SetInduction
  <1>5. QED
    BY <1>4 DEF S

(* A function of the numbers up to m is defined by its steps.               *)
LEMMA Recursion ==
  ASSUME NEW a \in Int, NEW g \in [Nat \X Int -> Int], NEW m \in Nat
  PROVE  \E f \in [0 .. m -> Int] : f[0] = a /\ \A j \in 0 .. (m - 1) : f[j + 1] = g[<<j, f[j]>>]
  <1> DEFINE Built(n, f) == f[0] = a /\ \A j \in 0 .. (n - 1) : f[j + 1] = g[<<j, f[j]>>]
             S == {n \in Nat : \E f \in [0 .. n -> Int] : Built(n, f)}
  <1>1. 0 \in S
    <2>1. [j \in 0 .. 0 |-> a] \in [0 .. 0 -> Int] /\ Built(0, [j \in 0 .. 0 |-> a])
      OBVIOUS
    <2>2. QED
      BY <2>1
  <1>2. ASSUME NEW n \in S PROVE n + 1 \in S
    <2>1. PICK f \in [0 .. n -> Int] : Built(n, f)
      OBVIOUS
    <2> DEFINE e == [j \in 0 .. (n + 1) |-> IF j = n + 1 THEN g[<<n, f[n]>>] ELSE f[j]]
    <2>2. n \in Nat /\ f[n] \in Int /\ g[<<n, f[n]>>] \in Int
      <3>1. n \in Nat /\ f[n] \in Int
        OBVIOUS
      <3>2. <<n, f[n]>> \in Nat \X Int
        BY <3>1
      <3>3. QED
        BY <3>1, <3>2
    <2>3. e \in [0 .. (n + 1) -> Int]
      BY <2>2
    <2>4. Built(n + 1, e)
      <3>1. e[0] = a
        BY <2>1, <2>2
      <3>2. ASSUME NEW j \in 0 .. n PROVE e[j + 1] = g[<<j, e[j]>>]
        <4>1. e[j] = f[j] /\ j + 1 \in 0 .. (n + 1)
          BY <2>2
        <4>2. CASE j = n
          BY <2>2, <4>1, <4>2
        <4>3. CASE j # n
          <5>1. j \in 0 .. (n - 1) /\ j + 1 # n + 1
            BY <2>2, <4>3
          <5>2. f[j + 1] = g[<<j, f[j]>>]
            BY <2>1, <5>1
          <5>3. QED
            BY <4>1, <5>1, <5>2
        <4>4. QED
          BY <4>2, <4>3
      <3>3. (n + 1) - 1 = n
        BY <2>2
      <3> HIDE DEF e
      <3>4. QED
        BY <3>1, <3>2, <3>3
    <2> HIDE DEF e, Built
    <2>5. \E f1 \in [0 .. (n + 1) -> Int] : Built(n + 1, f1)
      BY <2>3, <2>4
    <2>6. QED
      BY <2>2, <2>5
  <1>3. S \in SUBSET Nat
    OBVIOUS
  <1> HIDE DEF S
  <1>4. m \in S
    BY <1>1, <1>2, <1>3, SetInduction
  <1>5. QED
    BY <1>4 DEF S

--------------------------------------------------------------------------------
(* Arithmetic in the field.                                                 *)
LEMMA Quotient ==
  ASSUME NEW m \in Nat \ {0}, NEW x \in Int
  PROVE  /\ x \div m \in Int /\ x % m \in 0 .. (m - 1)
         /\ x = m * (x \div m) + (x % m)
  <1>1. x = m * (x \div m) + (x % m)
    BY Z3
  <1>2. QED
    BY <1>1

(* Only the remainder leaves itself.                                        *)
LEMMA Remainder ==
  ASSUME NEW m \in Nat \ {0}, NEW k \in Int, NEW r \in 0 .. (m - 1)
  PROVE  (m * k + r) % m = r
  OBVIOUS

(* Multiples of the modulus, and reducing early, change no remainder.       *)
LEMMA Shift ==
  ASSUME NEW m \in Nat \ {0}, NEW x \in Int, NEW k \in Int
  PROVE  (x + m * k) % m = x % m
  <1> DEFINE q == x \div m
             r == x % m
  <1>1. q \in Int /\ r \in 0 .. (m - 1) /\ x = m * q + r
    BY Quotient
  <1> HIDE DEF q, r
  <1>2. x + m * k = m * (q + k) + r
    BY <1>1
  <1>3. (m * (q + k) + r) % m = r
    BY <1>1, Remainder
  <1>4. QED
    BY <1>2, <1>3 DEF r

LEMMA Reduce ==
  ASSUME NEW m \in Nat \ {0}, NEW x \in Int, NEW y \in Int, NEW c \in Int
  PROVE  ((x % m) * y + c) % m = (x * y + c) % m
  <1> DEFINE q == x \div m
             r == x % m
  <1>1. q \in Int /\ r \in 0 .. (m - 1) /\ x = m * q + r
    BY Quotient
  <1> HIDE DEF q, r
  <1>2. x * y + c = (r * y + c) + m * (q * y)
    BY <1>1
  <1>3. r * y + c \in Int /\ q * y \in Int
    BY <1>1
  <1>4. ((r * y + c) + m * (q * y)) % m = (r * y + c) % m
    BY <1>3, Shift
  <1>5. QED
    BY <1>2, <1>4 DEF r

LEMMA FieldFacts == P \in Nat /\ B \in Nat /\ B >= 2 /\ K \in Nat /\ K >= 1
  BY CrlAssumption, FieldAssumption

(* A difference of two values is zero iff they are equal, and a product iff *)
(* a factor is.                                                             *)
LEMMA Difference ==
  ASSUME NEW m \in Nat \ {0}, NEW x \in 0 .. (m - 1), NEW y \in 0 .. (m - 1)
  PROVE  (x - y) % m \in 0 .. (m - 1) /\ ((x - y) % m = 0 <=> x = y)
  <1>1. CASE x >= y
    <2>1. x - y \in 0 .. (m - 1) /\ x - y = m * 0 + (x - y)
      BY <1>1
    <2>2. (m * 0 + (x - y)) % m = x - y
      BY <2>1, Remainder
    <2>3. QED
      BY <2>1, <2>2
  <1>2. CASE x < y
    <2>1. (x - y) + m \in 1 .. (m - 1) /\ x - y = m * (-1) + ((x - y) + m)
      BY <1>2
    <2>2. (m * (-1) + ((x - y) + m)) % m = (x - y) + m
      BY <2>1, Remainder
    <2>3. (x - y) % m = (x - y) + m
      BY <2>1, <2>2
    <2>4. QED
      BY <1>2, <2>1, <2>3
  <1>3. QED
    BY <1>1, <1>2

LEMMA Product ==
  ASSUME P # 0, NEW x \in 0 .. (P - 1), NEW y \in 0 .. (P - 1)
  PROVE  (x * y) % P \in 0 .. (P - 1) /\ ((x * y) % P = 0 <=> x = 0 \/ y = 0)
  <1>1. (x * y) % P \in 0 .. (P - 1)
    BY FieldFacts, Quotient
  <1>2. CASE x = 0 \/ y = 0
    <2>1. x * y = 0 /\ 0 \in 0 .. (P - 1) /\ P * 0 + 0 = 0
      BY <1>2, FieldFacts
    <2>2. (P * 0 + 0) % P = 0
      BY <2>1, FieldFacts, Remainder
    <2>3. QED
      BY <1>1, <1>2, <2>1, <2>2
  <1>3. CASE x # 0 /\ y # 0
    <2>1. x \in 1 .. (P - 1) /\ y \in 1 .. (P - 1)
      BY <1>3, FieldFacts
    <2>2. QED
      BY <1>1, <1>3, <2>1, FieldAssumption
  <1>4. QED
    BY <1>2, <1>3

--------------------------------------------------------------------------------
(* The recursive functions of the scan.                                     *)
Values(s, v) == /\ v \in [0 .. K -> Int] /\ v[0] = 0
                /\ \A j \in 0 .. (K - 1) : v[j + 1] = (v[j] * B + s[j]) % P

Weights(u) == /\ u \in [0 .. (K - 1) -> Int] /\ u[0] = 1
              /\ \A j \in 0 .. (K - 2) : u[j + 1] = (u[j] * B) % P

Counts(n) == /\ n \in [0 .. K -> Int] /\ n[0] = 1
             /\ \A j \in 0 .. (K - 1) : n[j + 1] = n[j] * B

LEMMA CountsExist == \E n : Counts(n) /\ n[K] = Windows
  <1> DEFINE g == [x \in Nat \X Int |-> x[2] * B]
             n[k \in 0 .. K] == IF k = 0 THEN 1 ELSE n[k - 1] * B
  <1>1. g \in [Nat \X Int -> Int] /\ 1 \in Int /\ K \in Nat
    BY FieldFacts
  <1>2. PICK f \in [0 .. K -> Int] : f[0] = 1 /\ \A j \in 0 .. (K - 1) : f[j + 1] = g[<<j, f[j]>>]
    <2> HIDE DEF g
    <2>1. QED
      BY <1>1, Recursion, Zenon
  <1>3. ASSUME NEW j \in 0 .. (K - 1) PROVE f[j + 1] = f[j] * B
    <2>1. f[j] \in Int /\ <<j, f[j]>> \in Nat \X Int
      BY FieldFacts
    <2>2. g[<<j, f[j]>>] = f[j] * B
      BY <2>1
    <2>3. QED
      BY <1>2, <2>2
  <1>4. f = [k \in 0 .. K |-> IF k = 0 THEN 1 ELSE f[k - 1] * B]
    <2>1. ASSUME NEW k \in 0 .. K PROVE f[k] = IF k = 0 THEN 1 ELSE f[k - 1] * B
      <3>1. CASE k = 0
        BY <1>2, <3>1
      <3>2. CASE k # 0
        <4>1. k - 1 \in 0 .. (K - 1) /\ (k - 1) + 1 = k
          BY <3>2, FieldFacts
        <4>2. QED
          BY <1>3, <3>2, <4>1
      <3>3. QED
        BY <3>1, <3>2
    <2>2. QED
      BY <1>2, <2>1
  <1>5. n = [k \in 0 .. K |-> IF k = 0 THEN 1 ELSE n[k - 1] * B]
    BY <1>4, Zenon DEF n
  <1>6. Windows = n[K]
    BY DEF Windows
  <1> HIDE DEF n
  <1>7. n[0] = 1 /\ \A j \in 0 .. (K - 1) : n[j + 1] = n[j] * B
    <2>1. n[0] = 1
      BY <1>5, FieldFacts
    <2>2. ASSUME NEW j \in 0 .. (K - 1) PROVE n[j + 1] = n[j] * B
      <3>1. j + 1 \in 0 .. K /\ j + 1 # 0 /\ (j + 1) - 1 = j
        BY FieldFacts
      <3>2. QED
        BY <1>5, <3>1
    <2>3. QED
      BY <2>1, <2>2
  <1>8. \A j \in 0 .. K : n[j] \in Int
    <2>1. \A j \in 0 .. (K - 1) : n[j] \in Int => n[j + 1] \in Int
      BY <1>7, FieldFacts
    <2>2. QED
      BY <1>1, <1>7, <2>1, Climb
  <1>9. Counts(n)
    BY <1>5, <1>7, <1>8 DEF Counts
  <1>10. QED
    BY <1>6, <1>9

LEMMA WeightsExist == ASSUME P # 0 PROVE \E u : Weights(u) /\ u[K - 1] = TopWeight
  <1> DEFINE g == [x \in Nat \X Int |-> (x[2] * B) % P]
             u[k \in 0 .. (K - 1)] == IF k = 0 THEN 1 ELSE (u[k - 1] * B) % P
  <1>1. g \in [Nat \X Int -> Int] /\ 1 \in Int /\ (K - 1) \in Nat
    <2>1. \A x \in Nat \X Int : (x[2] * B) % P \in Int
      BY FieldFacts, Quotient
    <2>2. QED
      BY <2>1, FieldFacts
  <1>2. PICK f \in [0 .. (K - 1) -> Int] :
          f[0] = 1 /\ \A j \in 0 .. ((K - 1) - 1) : f[j + 1] = g[<<j, f[j]>>]
    <2> HIDE DEF g
    <2>1. QED
      BY <1>1, Recursion, Zenon
  <1>3. ASSUME NEW j \in 0 .. (K - 2) PROVE f[j + 1] = (f[j] * B) % P
    <2>1. f[j] \in Int /\ <<j, f[j]>> \in Nat \X Int /\ j \in 0 .. ((K - 1) - 1)
      BY FieldFacts
    <2>2. g[<<j, f[j]>>] = (f[j] * B) % P
      BY <2>1, FieldFacts
    <2>3. QED
      BY <1>2, <2>1, <2>2
  <1>4. f = [k \in 0 .. (K - 1) |-> IF k = 0 THEN 1 ELSE (f[k - 1] * B) % P]
    <2>1. ASSUME NEW k \in 0 .. (K - 1) PROVE f[k] = IF k = 0 THEN 1 ELSE (f[k - 1] * B) % P
      <3>1. CASE k = 0
        BY <1>2, <3>1
      <3>2. CASE k # 0
        <4>1. k - 1 \in 0 .. (K - 2) /\ (k - 1) + 1 = k
          BY <3>2, FieldFacts
        <4>2. f[(k - 1) + 1] = (f[k - 1] * B) % P
          BY <1>3, <4>1
        <4>3. QED
          BY <3>2, <4>1, <4>2
      <3>3. QED
        BY <3>1, <3>2
    <2>2. QED
      BY <1>2, <2>1
  <1>5. u = [k \in 0 .. (K - 1) |-> IF k = 0 THEN 1 ELSE (u[k - 1] * B) % P]
    BY <1>4, Zenon DEF u
  <1>6. TopWeight = u[(K - 1)]
    BY DEF TopWeight
  <1> HIDE DEF u
  <1>7. u[0] = 1 /\ \A j \in 0 .. (K - 2) : u[j + 1] = (u[j] * B) % P
    <2>1. u[0] = 1
      BY <1>5, FieldFacts
    <2>2. ASSUME NEW j \in 0 .. (K - 2) PROVE u[j + 1] = (u[j] * B) % P
      <3>1. j + 1 \in 0 .. (K - 1) /\ j + 1 # 0 /\ (j + 1) - 1 = j
        BY FieldFacts
      <3>2. QED
        BY <1>5, <3>1
    <2>3. QED
      BY <2>1, <2>2
  <1>8. \A j \in 0 .. (K - 1) : u[j] \in Int
    <2>1. ASSUME NEW j \in 0 .. ((K - 1) - 1), u[j] \in Int PROVE u[j + 1] \in Int
      <3>1. j \in 0 .. (K - 2) /\ u[j] * B \in Int
        BY <2>1, FieldFacts
      <3>2. (u[j] * B) % P \in Int
        <4>1. P \in Nat \ {0}
          BY FieldFacts
        <4>2. (u[j] * B) % P \in 0 .. (P - 1)
          BY <3>1, <4>1, Quotient, Zenon
        <4>3. QED
          BY <4>1, <4>2
      <3>3. QED
        BY <1>7, <3>1, <3>2
    <2>2. QED
      BY <1>1, <1>7, <2>1, Climb
  <1>9. Weights(u)
    BY <1>5, <1>7, <1>8 DEF Weights
  <1>10. QED
    BY <1>6, <1>9

LEMMA ValuesExist ==
  ASSUME P # 0, NEW s \in Serials
  PROVE  \E v : Values(s, v) /\ v[K] = Horner(s)
  <1> DEFINE g == [x \in Nat \X Int |-> IF x[1] < K THEN (x[2] * B + s[x[1]]) % P ELSE 0]
             v[k \in 0 .. K] == IF k = 0 THEN 0 ELSE (v[k - 1] * B + s[k - 1]) % P
  <1>0. \A j \in 0 .. (K - 1) : s[j] \in Int
    BY FieldFacts DEF Serials, Bytes
  <1>1. g \in [Nat \X Int -> Int] /\ 0 \in Int /\ K \in Nat
    <2>1. ASSUME NEW x \in Nat \X Int, x[1] < K PROVE (x[2] * B + s[x[1]]) % P \in Int
      <3>1. x[1] \in 0 .. (K - 1) /\ x[2] \in Int
        BY <2>1, FieldFacts
      <3>2. x[2] * B + s[x[1]] \in Int
        BY <1>0, <3>1, FieldFacts
      <3>3. QED
        BY <3>2, FieldFacts, Quotient
    <2>2. QED
      BY <2>1, FieldFacts
  <1>2. PICK f \in [0 .. K -> Int] :
          f[0] = 0 /\ \A j \in 0 .. (K - 1) : f[j + 1] = g[<<j, f[j]>>]
    <2> HIDE DEF g
    <2>1. QED
      BY <1>1, Recursion, Zenon
  <1>3. ASSUME NEW j \in 0 .. (K - 1) PROVE f[j + 1] = (f[j] * B + s[j]) % P
    <2>1. f[j] \in Int /\ <<j, f[j]>> \in Nat \X Int /\ j \in 0 .. (K - 1)
      BY FieldFacts
    <2>2. g[<<j, f[j]>>] = (f[j] * B + s[j]) % P
      BY <2>1, FieldFacts
    <2>3. QED
      BY <1>2, <2>1, <2>2
  <1>4. f = [k \in 0 .. K |-> IF k = 0 THEN 0 ELSE (f[k - 1] * B + s[k - 1]) % P]
    <2>1. ASSUME NEW k \in 0 .. K PROVE f[k] = IF k = 0 THEN 0 ELSE (f[k - 1] * B + s[k - 1]) % P
      <3>1. CASE k = 0
        BY <1>2, <3>1
      <3>2. CASE k # 0
        <4>1. k - 1 \in 0 .. (K - 1) /\ (k - 1) + 1 = k
          BY <3>2, FieldFacts
        <4>2. f[(k - 1) + 1] = (f[k - 1] * B + s[k - 1]) % P
          BY <1>3, <4>1
        <4>3. QED
          BY <3>2, <4>1, <4>2
      <3>3. QED
        BY <3>1, <3>2
    <2>2. QED
      BY <1>2, <2>1
  <1>5. v = [k \in 0 .. K |-> IF k = 0 THEN 0 ELSE (v[k - 1] * B + s[k - 1]) % P]
    BY <1>4, Zenon DEF v
  <1>6. Horner(s) = v[K]
    BY DEF Horner
  <1> HIDE DEF v
  <1>7. v[0] = 0 /\ \A j \in 0 .. (K - 1) : v[j + 1] = (v[j] * B + s[j]) % P
    <2>1. v[0] = 0
      BY <1>5, FieldFacts
    <2>2. ASSUME NEW j \in 0 .. (K - 1) PROVE v[j + 1] = (v[j] * B + s[j]) % P
      <3>1. j + 1 \in 0 .. K /\ j + 1 # 0 /\ (j + 1) - 1 = j
        BY FieldFacts
      <3>2. QED
        BY <1>5, <3>1
    <2>3. QED
      BY <2>1, <2>2
  <1>8. \A j \in 0 .. K : v[j] \in Int
    <2>1. ASSUME NEW j \in 0 .. (K - 1), v[j] \in Int PROVE v[j + 1] \in Int
      <3>1. v[j] * B + s[j] \in Int
        BY <1>0, <2>1, FieldFacts
      <3>2. (v[j] * B + s[j]) % P \in Int
        BY <3>1, FieldFacts, Quotient
      <3>3. QED
        BY <1>7, <3>2
    <2>2. QED
      BY <1>1, <1>7, <2>1, Climb
  <1>9. Values(s, v)
    BY <1>5, <1>7, <1>8 DEF Values
  <1>10. QED
    BY <1>6, <1>9

--------------------------------------------------------------------------------
(* The field is large enough to tell the windows apart.                     *)
LEMMA CountsFit ==
  ASSUME NEW n, Counts(n), n[K] = Windows
  PROVE  \A j \in 0 .. K : n[j] \in 1 .. P
  <1>1. \A j \in 0 .. K : n[j] \in Nat \ {0}
    <2>1. ASSUME NEW j \in 0 .. (K - 1), n[j] \in Nat \ {0} PROVE n[j + 1] \in Nat \ {0}
      <3>1. n[j + 1] = n[j] * B
        BY DEF Counts
      <3>2. n[j] * B \in Nat \ {0}
        BY <2>1, FieldFacts
      <3>3. QED
        BY <3>1, <3>2
    <2>2. n[0] \in Nat \ {0} /\ K \in Nat
      BY FieldFacts DEF Counts
    <2>3. QED
      BY <2>1, <2>2, Climb
  <1> DEFINE S == {i \in Nat : i <= K => n[K - i] <= P}
  <1>2. 0 \in S
    BY FieldFacts, FieldAssumption
  <1>3. ASSUME NEW i \in S PROVE i + 1 \in S
    <2>1. SUFFICES ASSUME i + 1 <= K PROVE n[K - (i + 1)] <= P
      OBVIOUS
    <2>2. K - (i + 1) \in 0 .. (K - 1) /\ (K - (i + 1)) + 1 = K - i /\ i \in Nat /\ i <= K
      BY <2>1, FieldFacts
    <2>3. n[K - i] = n[K - (i + 1)] * B /\ n[K - (i + 1)] \in Nat
      BY <1>1, <2>2, FieldFacts DEF Counts
    <2>4. n[K - (i + 1)] <= n[K - (i + 1)] * B
      BY <2>3, FieldFacts
    <2>5. n[K - i] <= P
      BY <2>2
    <2>6. QED
      BY <2>3, <2>4, <2>5, FieldFacts
  <1>4. S = Nat
    <2>1. S \in SUBSET Nat
      OBVIOUS
    <2> HIDE DEF S
    <2>2. QED
      BY <1>2, <1>3, <2>1, SetInduction
  <1>5. ASSUME NEW j \in 0 .. K PROVE n[j] <= P
    <2>1. K - j \in Nat /\ K - j <= K /\ K - (K - j) = j
      BY FieldFacts
    <2>2. K - j \in S
      BY <1>4, <2>1
    <2>3. QED
      BY <2>1, <2>2
  <1>6. QED
    BY <1>1, <1>5, FieldFacts

LEMMA FieldPositive == P \in Nat \ {0}
  <1>1. PICK n : Counts(n) /\ n[K] = Windows
    BY CountsExist
  <1>2. n[K] \in 1 .. P
    BY <1>1, CountsFit, FieldFacts
  <1>3. QED
    BY <1>2, FieldFacts

(* No value of a prefix is reduced.                                         *)
LEMMA Unreduced ==
  ASSUME NEW s \in Serials, NEW v, Values(s, v), NEW n, Counts(n), n[K] = Windows
  PROVE  \A j \in 0 .. (K - 1) : v[j] \in Nat /\ v[j + 1] = v[j] * B + s[j]
  <1>1. ASSUME NEW j \in 0 .. (K - 1), v[j] \in 0 .. (n[j] - 1)
        PROVE  v[j + 1] = v[j] * B + s[j] /\ v[j + 1] \in 0 .. (n[j + 1] - 1)
    <2>1. s[j] \in 0 .. (B - 1)
      BY DEF Serials, Bytes
    <2>2. n[j] \in Nat /\ n[j + 1] = n[j] * B /\ n[j + 1] <= P
      <3>1. j \in 0 .. K /\ j + 1 \in 0 .. K
        BY FieldFacts
      <3>2. n[j] \in 1 .. P /\ n[j + 1] \in 1 .. P
        BY <3>1, CountsFit
      <3>3. QED
        BY <3>2, FieldFacts DEF Counts
    <2>3. v[j] * B <= (n[j] - 1) * B
      BY <1>1, <2>2, FieldFacts
    <2>4. (n[j] - 1) * B + (B - 1) = n[j] * B - 1
      BY <2>2, FieldFacts
    <2>5. v[j] * B \in Nat
      BY <1>1, FieldFacts
    <2>6. v[j] * B + s[j] \in 0 .. (n[j + 1] - 1)
      BY <2>1, <2>2, <2>3, <2>4, <2>5, FieldFacts
    <2>7. v[j] * B + s[j] \in 0 .. (P - 1)
      BY <2>2, <2>6, FieldFacts
    <2>8. (v[j] * B + s[j]) % P = v[j] * B + s[j]
      BY <2>7, FieldPositive, Remainder
    <2>9. QED
      BY <2>6, <2>8 DEF Values
  <1> DEFINE S == {j \in Nat : j <= K => v[j] \in 0 .. (n[j] - 1)}
  <1>2. 0 \in S
    BY DEF Values, Counts
  <1>3. ASSUME NEW j \in S PROVE j + 1 \in S
    BY <1>1, FieldFacts
  <1>4. S = Nat
    <2>1. S \in SUBSET Nat
      OBVIOUS
    <2> HIDE DEF S
    <2>2. QED
      BY <1>2, <1>3, <2>1, SetInduction
  <1>5. QED
    BY <1>1, <1>4, FieldFacts

(* A number in base B has one last digit and one rest.                      *)
LEMMA Digits ==
  ASSUME NEW x \in Nat, NEW y \in Nat, NEW d \in Bytes, NEW e \in Bytes, x * B + d = y * B + e
  PROVE  x = y /\ d = e
  <1>1. B \in Nat \ {0} /\ d \in 0 .. (B - 1) /\ e \in 0 .. (B - 1)
    BY FieldFacts DEF Bytes
  <1>2. (B * x + d) % B = d /\ (B * y + e) % B = e
    BY <1>1, Remainder
  <1>3. B * x + d = B * y + e
    BY <1>1
  <1>4. d = e
    BY <1>2, <1>3
  <1>5. B * x = B * y
    BY <1>1, <1>3, <1>4
  <1>6. QED
    BY <1>1, <1>4, <1>5

(* Windows with the same fingerprint are equal (crl.nr 110-122).            *)
LEMMA Fingerprint ==
  ASSUME NEW s \in Serials, NEW t \in Serials, Horner(s) = Horner(t)
  PROVE  s = t
  <1>1. PICK n : Counts(n) /\ n[K] = Windows
    BY CountsExist
  <1>2. PICK v : Values(s, v) /\ v[K] = Horner(s)
    BY ValuesExist, FieldPositive
  <1>3. PICK z : Values(t, z) /\ z[K] = Horner(t)
    BY ValuesExist, FieldPositive
  <1>4. ASSUME NEW j \in 0 .. (K - 1), v[j + 1] = z[j + 1] PROVE v[j] = z[j] /\ s[j] = t[j]
    <2>1. v[j] \in Nat /\ z[j] \in Nat /\ v[j] * B + s[j] = z[j] * B + t[j]
      BY <1>1, <1>2, <1>3, <1>4, Unreduced
    <2>2. s[j] \in Bytes /\ t[j] \in Bytes
      BY DEF Serials
    <2>3. QED
      BY <2>1, <2>2, Digits
  <1> DEFINE S == {i \in Nat : i <= K => v[K - i] = z[K - i]}
  <1>5. 0 \in S
    BY <1>2, <1>3, FieldFacts
  <1>6. ASSUME NEW i \in S PROVE i + 1 \in S
    <2>1. SUFFICES ASSUME i + 1 <= K PROVE v[K - (i + 1)] = z[K - (i + 1)]
      OBVIOUS
    <2>2. K - (i + 1) \in 0 .. (K - 1) /\ (K - (i + 1)) + 1 = K - i /\ i <= K
      BY <2>1, FieldFacts
    <2>3. v[(K - (i + 1)) + 1] = z[(K - (i + 1)) + 1]
      BY <2>2
    <2>4. QED
      BY <1>4, <2>2, <2>3
  <1>7. S = Nat
    <2>1. S \in SUBSET Nat
      OBVIOUS
    <2> HIDE DEF S
    <2>2. QED
      BY <1>5, <1>6, <2>1, SetInduction
  <1>8. ASSUME NEW j \in 0 .. (K - 1) PROVE s[j] = t[j]
    <2>1. K - (j + 1) \in Nat /\ K - (j + 1) <= K /\ K - (K - (j + 1)) = j + 1
      BY FieldFacts
    <2>2. K - (j + 1) \in S
      BY <1>7, <2>1
    <2>3. v[j + 1] = z[j + 1]
      BY <2>1, <2>2
    <2>4. QED
      BY <1>4, <2>3
  <1>9. s = [j \in 0 .. (K - 1) |-> s[j]] /\ t = [j \in 0 .. (K - 1) |-> t[j]]
    BY DEF Serials
  <1>10. [j \in 0 .. (K - 1) |-> s[j]] = [j \in 0 .. (K - 1) |-> t[j]]
    BY <1>8
  <1>11. QED
    BY <1>9, <1>10

(* A fingerprint is a number of the field.                                  *)
LEMMA HornerTyped ==
  ASSUME NEW s \in Serials
  PROVE  Horner(s) \in 0 .. (P - 1)
  <1>1. PICK v : Values(s, v) /\ v[K] = Horner(s)
    BY ValuesExist, FieldPositive
  <1>2. K - 1 \in 0 .. (K - 1) /\ (K - 1) + 1 = K /\ K - 1 \in 0 .. K
    BY FieldFacts
  <1>3. v[K] = (v[K - 1] * B + s[K - 1]) % P
    BY <1>1, <1>2 DEF Values
  <1>4. v[K - 1] * B + s[K - 1] \in Int
    BY <1>1, <1>2, FieldFacts DEF Values, Serials, Bytes
  <1>5. (v[K - 1] * B + s[K - 1]) % P \in 0 .. (P - 1)
    BY <1>4, FieldPositive, Quotient, Zenon
  <1>6. QED
    BY <1>1, <1>3, <1>5

LEMMA Rehash ==
  ASSUME NEW x \in Int, NEW c \in Int
  PROVE  ((x % P) * B + c) % P = (x * B + c) % P
  <1>1. B \in Int
    BY FieldFacts
  <1>2. QED
    BY <1>1, FieldPositive, Reduce

(* Rolling: the fingerprint of a window gives that of the next.             *)
LEMMA Rolling ==
  ASSUME NEW s \in Serials, NEW t \in Serials, \A j \in 0 .. (K - 2) : t[j] = s[j + 1]
  PROVE  Horner(t) = ((Horner(s) - s[0] * TopWeight) * B + t[K - 1]) % P
  <1>1. PICK v : Values(s, v) /\ v[K] = Horner(s)
    BY ValuesExist, FieldPositive
  <1>2. PICK z : Values(t, z) /\ z[K] = Horner(t)
    BY ValuesExist, FieldPositive
  <1>3. PICK u : Weights(u) /\ u[K - 1] = TopWeight
    BY WeightsExist, FieldPositive
  <1>4. /\ \A j \in 0 .. K : v[j] \in Int /\ z[j] \in Int
        /\ \A j \in 0 .. (K - 1) : u[j] \in Int /\ s[j] \in Int /\ t[j] \in Int
    <2>1. \A j \in 0 .. K : v[j] \in Int /\ z[j] \in Int
      BY <1>1, <1>2 DEF Values
    <2>2. \A j \in 0 .. (K - 1) : u[j] \in Int
      BY <1>3 DEF Weights
    <2>3. \A j \in 0 .. (K - 1) : s[j] \in Bytes /\ t[j] \in Bytes
      BY DEF Serials
    <2>4. Bytes \subseteq Int
      BY FieldFacts DEF Bytes
    <2>5. QED
      BY <2>1, <2>2, <2>3, <2>4
  <1>5. s[0] \in Int /\ B \in Int /\ P \in Nat \ {0}
    BY <1>4, FieldFacts, FieldPositive
  <1> DEFINE S == {j \in Nat : j <= K - 1 => z[j] = (v[j + 1] - s[0] * u[j]) % P}
  <1>6. 0 \in S
    <2>1. z[0] = 0 /\ u[0] = 1 /\ v[0] = 0
      BY <1>1, <1>2, <1>3 DEF Values, Weights
    <2>2. v[0 + 1] = (0 * B + s[0]) % P
      BY <1>1, <2>1, FieldFacts DEF Values
    <2>3. v[1] = s[0] % P
      BY <2>2, <1>5
    <2>4. ((s[0] % P) * 1 + (-s[0])) % P = (s[0] * 1 + (-s[0])) % P
      BY <1>5, Reduce, 1 \in Int, -s[0] \in Int, Zenon
    <2>5. (s[0] * 1 + (-s[0])) % P = 0
      <3>1. s[0] * 1 + (-s[0]) = P * 0 + 0 /\ 0 \in 0 .. (P - 1)
        BY <1>5
      <3>2. QED
        BY <1>5, <3>1, Remainder
    <2>6. v[1] - s[0] * u[0] = (s[0] % P) * 1 + (-s[0])
      <3>1. s[0] % P \in Int
        BY <1>5, Quotient
      <3>2. QED
        BY <1>5, <2>1, <2>3, <3>1
    <2>7. z[0] = (v[1] - s[0] * u[0]) % P
      BY <2>1, <2>4, <2>5, <2>6
    <2>8. QED
      BY <2>7
  <1>7. ASSUME NEW j \in S PROVE j + 1 \in S
    <2>1. SUFFICES ASSUME j + 1 <= K - 1
                   PROVE  z[j + 1] = (v[(j + 1) + 1] - s[0] * u[j + 1]) % P
      OBVIOUS
    <2>2. /\ j \in Nat /\ j \in 0 .. (K - 2) /\ j \in 0 .. (K - 1) /\ j + 1 \in 0 .. (K - 1)
          /\ j + 1 \in 0 .. K
      BY <2>1, FieldFacts
    <2> DEFINE a == v[j + 1]
               b == u[j]
               c == s[j + 1]
    <2>3. a \in Int /\ b \in Int /\ c \in Int
      BY <1>4, <2>2
    <2>4. z[j] = (a - s[0] * b) % P
      BY <2>2, FieldFacts
    <2>5. z[j + 1] = (z[j] * B + c) % P
      BY <1>2, <2>2 DEF Values
    <2>6. v[(j + 1) + 1] = (a * B + c) % P
      BY <1>1, <2>2 DEF Values
    <2>7. u[j + 1] = (b * B) % P
      BY <1>3, <2>2 DEF Weights
    <2> HIDE DEF a, b, c
    <2>8. z[j + 1] = ((a - s[0] * b) * B + c) % P
      <3> DEFINE e == a - s[0] * b
      <3>1. e \in Int
        BY <1>5, <2>3
      <3>2. z[j] = e % P
        BY <2>4
      <3> HIDE DEF e
      <3>3. ((e % P) * B + c) % P = (e * B + c) % P
        BY <2>3, <3>1, Rehash
      <3>4. QED
        BY <2>5, <3>2, <3>3 DEF e
    <2>9. (v[(j + 1) + 1] - s[0] * u[j + 1]) % P = ((a - s[0] * b) * B + c) % P
      <3>1. a * B + c \in Int /\ b * B \in Int
        BY <1>5, <2>3
      <3> DEFINE q == (a * B + c) \div P
                 r == (b * B) \div P
                 k == s[0] * r - q
                 d == (a - s[0] * b) * B + c
      <3>2. /\ q \in Int /\ a * B + c = P * q + ((a * B + c) % P)
            /\ r \in Int /\ b * B = P * r + ((b * B) % P)
        <4>1. /\ q \in Int /\ a * B + c = P * q + ((a * B + c) % P)
          BY <1>5, <3>1, Quotient, Zenon
        <4>2. /\ r \in Int /\ b * B = P * r + ((b * B) % P)
          BY <1>5, <3>1, Quotient, Zenon
        <4>3. QED
          BY <4>1, <4>2
      <3> HIDE DEF q, r
      <3>3. k \in Int /\ d \in Int
        BY <1>5, <2>3, <3>2
      <3>4. v[(j + 1) + 1] = (a * B + c) - P * q /\ u[j + 1] = b * B - P * r
        BY <1>5, <2>6, <2>7, <3>1, <3>2
      <3>5. v[(j + 1) + 1] - s[0] * u[j + 1] = d + P * k
        BY <1>5, <2>3, <3>2, <3>4
      <3> HIDE DEF k, d
      <3>6. (d + P * k) % P = d % P
        BY <1>5, <3>3, Shift
      <3>7. QED
        BY <3>5, <3>6 DEF d
    <2>10. QED
      BY <2>8, <2>9
  <1>8. S = Nat
    <2>1. S \in SUBSET Nat
      OBVIOUS
    <2> HIDE DEF S
    <2>2. QED
      BY <1>6, <1>7, <2>1, SetInduction
  <1>9. z[K - 1] = (v[K] - s[0] * TopWeight) % P
    <2>1. K - 1 \in S /\ K - 1 <= K - 1 /\ (K - 1) + 1 = K
      BY <1>8, FieldFacts
    <2>2. QED
      BY <1>3, <2>1
  <1>10. z[K] = (z[K - 1] * B + t[K - 1]) % P
    <2>1. K - 1 \in 0 .. (K - 1) /\ (K - 1) + 1 = K
      BY FieldFacts
    <2>2. QED
      BY <1>2, <2>1 DEF Values
  <1>11. (((v[K] - s[0] * TopWeight) % P) * B + t[K - 1]) % P
           = ((v[K] - s[0] * TopWeight) * B + t[K - 1]) % P
    <2>1. v[K] \in Int /\ TopWeight \in Int /\ t[K - 1] \in Int
      BY <1>3, <1>4, FieldFacts
    <2> DEFINE e == v[K] - s[0] * TopWeight
               c == t[K - 1]
    <2>2. e \in Int /\ c \in Int
      BY <1>5, <2>1
    <2> HIDE DEF e, c
    <2>3. ((e % P) * B + c) % P = (e * B + c) % P
      BY <2>2, Rehash
    <2>4. QED
      BY <2>3 DEF e, c
  <1>12. QED
    BY <1>1, <1>2, <1>9, <1>10, <1>11

--------------------------------------------------------------------------------
(* The scan.  After p windows both verdicts are those on these windows, and *)
(* the fingerprint is the last one's.                                       *)
Seen == \E q \in 0 .. (p - 1) : Equal(q)

Scanned == /\ absent <=> ~Seen
           /\ fp = Horner(Window(p - 1))
           /\ prod \in 0 .. (P - 1)
           /\ prod = 0 <=> Seen

ScanInv == /\ tbs \in [Positions -> Bytes] /\ serial \in Serials
           /\ p \in 0 .. (LastWindow + 1)
           /\ p # 0 => Scanned
           /\ pc = "pin" => p = 0
           /\ pc = "done" => p = LastWindow + 1

LEMMA WindowFacts ==
  ASSUME tbs \in [Positions -> Bytes], serial \in Serials, NEW q \in 0 .. LastWindow
  PROVE  /\ Window(q) \in Serials
         /\ \A j \in 0 .. (K - 1) : Window(q)[j] = tbs[q + j]
         /\ Equal(q) <=> Window(q) = serial
  <1>1. ASSUME NEW j \in 0 .. (K - 1) PROVE q + j \in Positions
    BY CrlAssumption DEF Positions, LastWindow
  <1>2. Window(q) \in Serials /\ \A j \in 0 .. (K - 1) : Window(q)[j] = tbs[q + j]
    BY <1>1 DEF Window, Serials
  <1>3. ASSUME Equal(q) PROVE Window(q) = serial
    <2>1. serial = [j \in 0 .. (K - 1) |-> serial[j]]
      BY DEF Serials
    <2>2. [j \in 0 .. (K - 1) |-> tbs[q + j]] = [j \in 0 .. (K - 1) |-> serial[j]]
      BY <1>3 DEF Equal
    <2>3. QED
      BY <2>1, <2>2 DEF Window
  <1>4. ASSUME Window(q) = serial PROVE Equal(q)
    BY <1>2, <1>4 DEF Equal
  <1>5. QED
    BY <1>2, <1>3, <1>4

(* The factor of a window is zero iff it is the serial.                     *)
LEMMA Factor ==
  ASSUME tbs \in [Positions -> Bytes], serial \in Serials, NEW q \in 0 .. LastWindow
  PROVE  /\ Diff(Horner(Window(q))) \in 0 .. (P - 1)
         /\ Diff(Horner(Window(q))) = 0 <=> Equal(q)
  <1>1. Window(q) \in Serials
    BY WindowFacts
  <1>2. Horner(Window(q)) \in 0 .. (P - 1) /\ Horner(serial) \in 0 .. (P - 1)
    BY <1>1, HornerTyped
  <1>3. /\ Diff(Horner(Window(q))) \in 0 .. (P - 1)
        /\ Diff(Horner(Window(q))) = 0 <=> Horner(Window(q)) = Horner(serial)
    <2> DEFINE x == Horner(Window(q))
               y == Horner(serial)
    <2>1. x \in 0 .. (P - 1) /\ y \in 0 .. (P - 1) /\ Diff(x) = (x - y) % P
      BY <1>2 DEF Diff
    <2> HIDE DEF x, y
    <2>2. (x - y) % P \in 0 .. (P - 1) /\ ((x - y) % P = 0 <=> x = y)
      BY <2>1, FieldPositive, Difference
    <2>3. QED
      BY <2>1, <2>2 DEF x, y
  <1>4. Horner(Window(q)) = Horner(serial) <=> Window(q) = serial
    BY <1>1, Fingerprint
  <1>5. QED
    BY <1>3, <1>4, WindowFacts

LEMMA ScanInit == Init => ScanInv
  BY CrlAssumption, FieldFacts DEF Init, ScanInv, Serials, Bytes, LastWindow

LEMMA ScanPin == ASSUME ScanInv, Pin PROVE ScanInv'
  <1>1. /\ pc = "pin" /\ pc' \in {"failed", "scan"} /\ p = 0
        /\ UNCHANGED <<tbs, p>> /\ serial' \in Serials
    BY DEF Pin, ScanInv
  <1>2. QED
    BY <1>1 DEF ScanInv, LastWindow

LEMMA ScanFirst == ASSUME ScanInv, ScanStart PROVE ScanInv'
  <1>1. /\ pc = "scan" /\ pc' = pc /\ p = 0 /\ p' = 1 /\ tbs' = tbs /\ serial' = serial
        /\ absent' = ~Equal(0) /\ fp' = Horner(Window(0)) /\ prod' = Diff(fp')
    BY DEF ScanStart
  <1>2. 0 \in 0 .. LastWindow /\ 1 \in 0 .. (LastWindow + 1)
    BY CrlAssumption DEF LastWindow
  <1>3. /\ prod' \in 0 .. (P - 1)
        /\ prod' = 0 <=> Equal(0)
    BY <1>1, <1>2, Factor DEF ScanInv
  <1>4. Seen' <=> Equal(0)
    <2>1. \A q : Equal(q)' <=> Equal(q)
      BY <1>1 DEF Equal
    <2>2. 0 .. (p' - 1) = {0}
      BY <1>1
    <2>3. QED
      BY <2>1, <2>2 DEF Seen
  <1>5. fp' = Horner(Window(p - 1))'
    BY <1>1 DEF Horner, Window
  <1>6. Scanned'
    BY <1>1, <1>3, <1>4, <1>5 DEF Scanned
  <1>7. QED
    BY <1>1, <1>2, <1>6 DEF ScanInv, LastWindow

LEMMA ScanNext == ASSUME ScanInv, ScanStep PROVE ScanInv'
  <1>1. /\ pc = "scan" /\ pc' = pc /\ p \in 1 .. LastWindow /\ p' = p + 1
        /\ tbs' = tbs /\ serial' = serial
        /\ absent' = (absent /\ ~Equal(p))
        /\ fp' = Rolled(p - 1) /\ prod' = (prod * Diff(fp')) % P
    BY DEF ScanStep
  <1>2. /\ p - 1 \in 0 .. LastWindow /\ p \in 0 .. LastWindow /\ p + 1 \in 0 .. (LastWindow + 1)
        /\ LastWindow \in Nat /\ p \in Nat
    BY <1>1, CrlAssumption DEF LastWindow
  <1>3. Scanned
    BY <1>1, <1>2 DEF ScanInv
  <1>4. fp' = Horner(Window(p))
    <2>1. Window(p - 1) \in Serials /\ Window(p) \in Serials
      BY <1>2, WindowFacts DEF ScanInv
    <2>2. ASSUME NEW j \in 0 .. (K - 2) PROVE Window(p)[j] = Window(p - 1)[j + 1]
      <3>1. j \in 0 .. (K - 1) /\ j + 1 \in 0 .. (K - 1) /\ p + j = (p - 1) + (j + 1)
        BY <1>2, FieldFacts
      <3>2. Window(p)[j] = tbs[p + j] /\ Window(p - 1)[j + 1] = tbs[(p - 1) + (j + 1)]
        BY <1>2, <3>1, WindowFacts DEF ScanInv
      <3>3. QED
        BY <3>1, <3>2
    <2>3. Window(p - 1)[0] = tbs[p - 1] /\ Window(p)[K - 1] = tbs[(p - 1) + K]
      <3>1. /\ 0 \in 0 .. (K - 1) /\ K - 1 \in 0 .. (K - 1)
            /\ (p - 1) + 0 = p - 1 /\ p + (K - 1) = (p - 1) + K
        BY <1>2, FieldFacts
      <3>2. /\ Window(p - 1)[0] = tbs[(p - 1) + 0]
            /\ Window(p)[K - 1] = tbs[p + (K - 1)]
        BY <1>2, <3>1, WindowFacts DEF ScanInv
      <3>3. QED
        BY <3>1, <3>2
    <2>4. Horner(Window(p))
            = ((Horner(Window(p - 1)) - Window(p - 1)[0] * TopWeight) * B + Window(p)[K - 1]) % P
      BY <2>1, <2>2, Rolling
    <2>5. QED
      BY <1>1, <1>3, <2>3, <2>4 DEF Rolled, Scanned
  <1>5. Seen' <=> (Seen \/ Equal(p))
    <2>1. \A q : Equal(q)' <=> Equal(q)
      BY <1>1 DEF Equal
    <2>2. 0 .. (p' - 1) = (0 .. (p - 1)) \cup {p}
      BY <1>1, <1>2
    <2>3. Seen' <=> \E q \in (0 .. (p - 1)) \cup {p} : Equal(q)
      BY <2>1, <2>2 DEF Seen
    <2>4. QED
      BY <2>3 DEF Seen
  <1>6. Diff(fp') \in 0 .. (P - 1) /\ (Diff(fp') = 0 <=> Equal(p))
    BY <1>2, <1>4, Factor DEF ScanInv
  <1>7. /\ prod' \in 0 .. (P - 1)
        /\ prod' = 0 <=> Seen'
    <2>1. prod \in 0 .. (P - 1) /\ (prod = 0 <=> Seen)
      BY <1>3 DEF Scanned
    <2>2. /\ prod' \in 0 .. (P - 1)
          /\ prod' = 0 <=> (prod = 0 \/ Diff(fp') = 0)
      BY <1>1, <1>6, <2>1, FieldPositive, Product
    <2>3. QED
      BY <1>5, <1>6, <2>1, <2>2
  <1>8. absent' <=> ~Seen'
    BY <1>1, <1>3, <1>5 DEF Scanned
  <1>9. fp' = Horner(Window(p - 1))'
    <2>1. p' - 1 = p
      BY <1>1, <1>2
    <2>2. Window(p - 1)' = Window(p)
      BY <1>1, <2>1 DEF Window
    <2>3. QED
      BY <1>4, <2>2
  <1>10. Scanned'
    BY <1>7, <1>8, <1>9 DEF Scanned
  <1>11. QED
    BY <1>1, <1>2, <1>10 DEF ScanInv, LastWindow

LEMMA ScanRest == ASSUME ScanInv, ScanEnd \/ UNCHANGED vars PROVE ScanInv'
  <1>1. UNCHANGED <<tbs, serial, p, absent, fp, prod>>
    BY DEF ScanEnd, vars
  <1>2. Scanned' <=> Scanned
    BY <1>1 DEF Scanned, Seen, Equal, Horner, Window
  <1>3. CASE ScanEnd
    <2>1. pc' = "done" /\ p = LastWindow + 1
      BY <1>3, CrlAssumption DEF ScanEnd, ScanInv, LastWindow
    <2>2. QED
      BY <1>1, <1>2, <2>1 DEF ScanInv, LastWindow
  <1>4. CASE UNCHANGED vars
    BY <1>1, <1>2, <1>4 DEF ScanInv, LastWindow, vars
  <1>5. QED
    BY <1>3, <1>4

(* Of every buffer, serial and field, gnark's comparisons and Noir's        *)
(* product of fingerprints decide alike, and refuse exactly the serials     *)
(* that occur in the buffer (crl.go 130-138, crl.nr 104-122).               *)
THEOREM ScanAlwaysExact == Spec => []ScanExact
  <1>1. ScanInv /\ [Next]_vars => ScanInv'
    BY ScanPin, ScanFirst, ScanNext, ScanRest DEF Next
  <1>2. ScanInv => ScanExact
    <2>1. SUFFICES ASSUME ScanInv, pc = "done"
                   PROVE  (absent <=> ~Revoked) /\ (prod = 0 <=> Revoked)
      BY DEF ScanExact
    <2>2. p = LastWindow + 1 /\ p # 0 /\ p - 1 = N - K
      BY <2>1, CrlAssumption DEF ScanInv, LastWindow
    <2>3. Scanned
      BY <2>1, <2>2 DEF ScanInv
    <2>4. Seen <=> Revoked
      BY <2>2 DEF Seen, Revoked
    <2>5. QED
      BY <2>3, <2>4 DEF Scanned
  <1>3. QED
    BY ScanInit, <1>1, <1>2, PTL DEF Spec
================================================================================
