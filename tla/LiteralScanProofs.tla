--------------------------- MODULE LiteralScanProofs ---------------------------
(***************************************************************************)
(* Proofs about LiteralScan, for every buffer length, literal length and   *)
(* set of occurrences.  The invariant says what each running value is      *)
(* after the positions below p: the flag is on iff p is behind lo and not  *)
(* behind hi, and every count is the cardinality of Below(p).              *)
(***************************************************************************)
EXTENDS LiteralScan, TLAPS, FiniteSetTheorems

Below(r) == {q \in at : q < r /\ q + L <= slen}

Inputs == /\ at \subseteq Starts /\ slen \in 0 .. N
          /\ hi \in Starts /\ Anchored(hi) /\ lo \in 0 .. hi

ClearBelow(r) == \A q \in lo .. (hi - 1) : q < r => q \notin at

GnarkInv ==
  pc = "gnark" => /\ p \in 0 .. (N - L + 1)
                  /\ inside = Bit(lo < p /\ p <= hi)
                  /\ clear \in BOOLEAN
                  /\ clear <=> ClearBelow(p)
                  /\ total = Cardinality(Below(p))

GnarkDone == pc \in {"noir", "done"} => (clear <=> First) /\ total = Cardinality(Occurrences)

NoirInv ==
  /\ cum \in [0 .. (N - 1) -> Nat]
  /\ pc = "gnark" => running = 0
  /\ pc \in {"noir", "done"} =>
       /\ p \in 0 .. N
       /\ running = Cardinality(Below(p))
       /\ \A r \in 0 .. (N - 1) : r < p => cum[r] = Cardinality(Below(r))
  /\ pc = "done" => p = N

IInv == Inputs /\ pc \in {"gnark", "noir", "done"} /\ GnarkInv /\ GnarkDone /\ NoirInv

--------------------------------------------------------------------------------
(* Counting.                                                                *)

LEMMA StartsAreNaturals ==
  /\ N \in Nat /\ L \in Nat \ {0} /\ L <= N
  /\ \A q \in Starts : q \in Nat /\ q + L <= N
  BY ScanAssumption DEF Starts

LEMMA BelowFinite ==
  ASSUME Inputs, NEW r
  PROVE  /\ IsFiniteSet(Below(r))
         /\ Cardinality(Below(r)) \in Nat
  <1>1. IsFiniteSet(Starts)
    BY StartsAreNaturals, FS_Interval DEF Starts
  <1>2. Below(r) \subseteq Starts
    BY DEF Below, Inputs
  <1>3. QED
    BY <1>1, <1>2, FS_Subset, FS_CardinalityType

(* One more position adds one to the count if a signed match starts there.  *)
LEMMA CountStep ==
  ASSUME Inputs, NEW r \in Nat
  PROVE  Cardinality(Below(r + 1)) = Cardinality(Below(r)) + Bit(Found(r) /\ Signed(r))
  <1>1. \A q \in at : q \in Nat
    BY StartsAreNaturals DEF Inputs
  <1>2. L \in Nat /\ slen \in Nat
    BY StartsAreNaturals DEF Inputs
  <1>3. IsFiniteSet(Below(r)) /\ Cardinality(Below(r)) \in Nat
    BY BelowFinite
  <1>4. CASE Found(r) /\ Signed(r)
    <2>1. r \in at /\ r + L <= slen
      BY <1>2, <1>4 DEF Found, Signed
    <2>2. Below(r + 1) = Below(r) \cup {r}
      <3>1. \A q \in at : q < r + 1 <=> q < r \/ q = r
        BY <1>1
      <3>2. QED
        BY <2>1, <3>1 DEF Below
    <2>3. r \notin Below(r)
      BY DEF Below
    <2>4. Cardinality(Below(r + 1)) = Cardinality(Below(r)) + 1
      BY <1>3, <2>2, <2>3, FS_AddElement
    <2>5. QED
      BY <1>4, <2>4 DEF Bit
  <1>5. CASE ~(Found(r) /\ Signed(r))
    <2>1. ~(r \in at /\ r + L <= slen)
      BY <1>2, <1>5 DEF Found, Signed
    <2>2. Below(r + 1) = Below(r)
      BY <1>1, <1>2, <2>1 DEF Below
    <2>3. QED
      BY <1>3, <1>5, <2>2 DEF Bit
  <1>6. QED
    BY <1>4, <1>5

(* Beyond the last position that fits nothing is left to count.             *)
LEMMA CountAll ==
  ASSUME Inputs, NEW r \in Nat, r > N - L
  PROVE  Below(r) = Occurrences
  BY StartsAreNaturals DEF Inputs, Below, Occurrences

LEMMA NothingBelow == Inputs => Below(0) = {}
  BY StartsAreNaturals DEF Inputs, Below

(* Two prefix counts are equal exactly if nothing starts between: whatever  *)
(* starts before the anchored hi is wholly signed.                          *)
LEMMA PrefixCounts ==
  ASSUME Inputs
  PROVE  Cardinality(Below(hi)) = Cardinality(Below(lo)) <=> First
  <1>1. \A q \in at : q \in Nat
    BY StartsAreNaturals DEF Inputs
  <1>2. L \in Nat /\ slen \in Nat /\ lo \in Nat /\ hi \in Nat /\ lo <= hi /\ hi + L + 1 <= slen
    BY StartsAreNaturals DEF Inputs, Anchored
  <1>3. Below(lo) \subseteq Below(hi)
    BY <1>1, <1>2 DEF Below
  <1>4. IsFiniteSet(Below(hi))
    BY BelowFinite
  <1>5. Cardinality(Below(hi)) = Cardinality(Below(lo)) <=> Below(hi) = Below(lo)
    BY <1>3, <1>4, FS_Subset
  <1>6. Below(hi) = Below(lo) <=> First
    BY <1>1, <1>2 DEF Below, First
  <1>7. QED
    BY <1>5, <1>6

--------------------------------------------------------------------------------
(* The steps.                                                               *)

LEMMA InitStep == Init => IInv
  <1>1. SUFFICES ASSUME Init PROVE IInv
    OBVIOUS
  <1>2. Inputs
    BY <1>1, StartsAreNaturals DEF Init, Inputs
  <1>3. /\ pc = "gnark" /\ p = 0 /\ total = 0 /\ inside = 0 /\ clear = TRUE /\ running = 0
        /\ cum = [q \in 0 .. (N - 1) |-> 0]
    BY <1>1 DEF Init
  <1>4. GnarkInv
    <2>1. Cardinality(Below(0)) = 0
      BY <1>2, NothingBelow, FS_EmptySet
    <2>2. lo \in Nat
      BY <1>2 DEF Inputs
    <2>3. ClearBelow(0)
      BY <2>2, <1>2, StartsAreNaturals DEF ClearBelow, Inputs
    <2>4. QED
      BY <1>3, <2>1, <2>2, <2>3, StartsAreNaturals DEF GnarkInv, Bit
  <1>5. GnarkDone /\ NoirInv
    BY <1>3 DEF GnarkDone, NoirInv
  <1>6. QED
    BY <1>2, <1>3, <1>4, <1>5 DEF IInv

(* The inputs and what is defined from them alone do not change.            *)
LEMMA InputsKept ==
  ASSUME IInv, UNCHANGED <<at, slen, lo, hi>>
  PROVE  /\ Inputs' /\ First' = First /\ Occurrences' = Occurrences
         /\ \A r : Below(r)' = Below(r) /\ ClearBelow(r)' = ClearBelow(r)
  BY DEF IInv, Inputs, Anchored, First, Occurrences, Below, ClearBelow

LEMMA GnarkStepKeeps == ASSUME IInv, GnarkStep PROVE IInv'
  <1> PICK n \in Nat : n = p
    BY StartsAreNaturals DEF GnarkStep
  <1>1. /\ pc = "gnark" /\ n \in Starts /\ inside' = Toggled
        /\ clear' = (clear /\ ~(Found(n) /\ inside' # 0))
        /\ total' = total + Bit(Found(n) /\ Signed(n))
        /\ p' = n + 1 /\ UNCHANGED <<at, slen, lo, hi, pc, running, cum>>
    BY DEF GnarkStep
  <1>2. /\ Inputs /\ inside = Bit(lo < n /\ n <= hi) /\ clear \in BOOLEAN
        /\ (clear <=> ClearBelow(n)) /\ total = Cardinality(Below(n))
    BY <1>1 DEF IInv, GnarkInv
  <1>3. lo \in Nat /\ hi \in Nat /\ lo <= hi
    BY <1>2, StartsAreNaturals DEF Inputs
  <1>4. inside' = Bit(lo < n + 1 /\ n + 1 <= hi)
    BY <1>1, <1>2, <1>3 DEF Toggled, Bit
  <1>5. clear' \in BOOLEAN /\ (clear' <=> ClearBelow(n + 1))
    <2>1. inside' # 0 <=> n \in lo .. (hi - 1)
      BY <1>3, <1>4 DEF Bit
    <2>2. ClearBelow(n + 1) <=> ClearBelow(n) /\ ~(n \in at /\ n \in lo .. (hi - 1))
      BY <1>3 DEF ClearBelow
    <2>3. clear' <=> clear /\ ~(n \in at /\ inside' # 0)
      BY <1>1, Zenon DEF Found
    <2>4. clear' \in BOOLEAN
      BY <1>1, Zenon
    <2>5. QED
      BY <1>2, <2>1, <2>2, <2>3, <2>4, Zenon
  <1>6. total' = Cardinality(Below(n + 1))
    <2>1. Cardinality(Below(n + 1)) = Cardinality(Below(n)) + Bit(Found(n) /\ Signed(n))
      BY <1>2, CountStep
    <2>2. QED
      BY <1>1, <1>2, <2>1, Zenon
  <1>7. n + 1 \in 0 .. (N - L + 1)
    BY <1>1, StartsAreNaturals DEF Starts
  <1>8. GnarkInv'
    BY <1>1, <1>4, <1>5, <1>6, <1>7, InputsKept DEF GnarkInv
  <1>9. GnarkDone' /\ NoirInv'
    BY <1>1 DEF IInv, GnarkDone, NoirInv
  <1>10. QED
    BY <1>1, <1>8, <1>9, InputsKept DEF IInv

LEMMA GnarkEndKeeps == ASSUME IInv, GnarkEnd PROVE IInv'
  <1>1. /\ pc = "gnark" /\ p \notin Starts /\ pc' = "noir" /\ p' = 0
        /\ UNCHANGED <<at, slen, lo, hi, total, inside, clear, running, cum>>
    BY DEF GnarkEnd
  <1>2. /\ Inputs /\ p \in 0 .. (N - L + 1) /\ (clear <=> ClearBelow(p))
        /\ total = Cardinality(Below(p))
    BY <1>1 DEF IInv, GnarkInv
  <1>3. p \in Nat /\ p > N - L
    BY <1>1, <1>2, StartsAreNaturals DEF Starts
  <1>4. total = Cardinality(Occurrences)
    BY <1>2, <1>3, CountAll
  <1>5. ClearBelow(p) <=> First
    <2>1. \A q \in lo .. (hi - 1) : q < p
      BY <1>2, <1>3, StartsAreNaturals DEF Inputs
    <2>2. QED
      BY <2>1 DEF ClearBelow, First
  <1>6. GnarkDone'
    BY <1>1, <1>2, <1>4, <1>5, InputsKept DEF GnarkDone
  <1>7. NoirInv'
    <2>1. Cardinality(Below(0)) = 0
      BY <1>2, NothingBelow, FS_EmptySet
    <2>2. cum' \in [0 .. (N - 1) -> Nat] /\ running' = 0
      BY <1>1 DEF IInv, NoirInv
    <2>3. QED
      BY <1>1, <2>1, <2>2, InputsKept, StartsAreNaturals DEF NoirInv
  <1>8. GnarkInv'
    BY <1>1 DEF GnarkInv
  <1>9. QED
    BY <1>1, <1>6, <1>7, <1>8, InputsKept DEF IInv

LEMMA NoirStepKeeps == ASSUME IInv, NoirStep PROVE IInv'
  <1> PICK n \in Nat : n = p
    BY StartsAreNaturals DEF NoirStep, IInv, NoirInv
  <1>1. /\ pc = "noir" /\ n < N /\ cum' = [cum EXCEPT ![n] = running]
        /\ running' = running + Bit(n \in Starts /\ Found(n) /\ Signed(n))
        /\ p' = n + 1 /\ UNCHANGED <<at, slen, lo, hi, pc, total, inside, clear>>
    BY DEF NoirStep, CountBefore
  <1>2. /\ Inputs /\ cum \in [0 .. (N - 1) -> Nat] /\ running = Cardinality(Below(n))
        /\ \A r \in 0 .. (N - 1) : r < n => cum[r] = Cardinality(Below(r))
    BY <1>1 DEF IInv, NoirInv
  <1>3. n \in 0 .. (N - 1) /\ n + 1 \in 0 .. N /\ N \in Nat
    BY <1>1, StartsAreNaturals
  <1>4. running' = Cardinality(Below(n + 1))
    <2>1. Found(n) => n \in Starts
      BY <1>2 DEF Found, Inputs
    <2>2. QED
      BY <1>1, <1>2, <2>1, CountStep
  <1>5. /\ cum' \in [0 .. (N - 1) -> Nat]
        /\ \A r \in 0 .. (N - 1) : r < n + 1 => cum'[r] = Cardinality(Below(r))
    <2>1. running \in Nat
      BY <1>2, BelowFinite
    <2>2. cum' \in [0 .. (N - 1) -> Nat]
      BY <1>1, <1>2, <1>3, <2>1
    <2>3. cum'[n] = Cardinality(Below(n))
      BY <1>1, <1>2, <1>3
    <2>4. ASSUME NEW r \in 0 .. (N - 1), r < n PROVE cum'[r] = Cardinality(Below(r))
      BY <1>1, <1>2, <2>4
    <2>5. \A r \in 0 .. (N - 1) : r < n + 1 => r < n \/ r = n
      BY <1>3
    <2>6. QED
      BY <2>2, <2>3, <2>4, <2>5
  <1>6. NoirInv'
    BY <1>1, <1>3, <1>4, <1>5, InputsKept DEF NoirInv
  <1>7. GnarkInv' /\ GnarkDone'
    BY <1>1, InputsKept DEF IInv, GnarkInv, GnarkDone
  <1>8. QED
    BY <1>1, <1>6, <1>7, InputsKept DEF IInv

LEMMA NoirEndKeeps == ASSUME IInv, NoirEnd PROVE IInv'
  <1>1. /\ pc = "noir" /\ p = N /\ pc' = "done"
        /\ UNCHANGED <<at, slen, lo, hi, p, total, inside, clear, running, cum>>
    BY DEF NoirEnd
  <1>2. NoirInv'
    BY <1>1, InputsKept DEF IInv, NoirInv
  <1>3. GnarkInv' /\ GnarkDone'
    BY <1>1, InputsKept DEF IInv, GnarkInv, GnarkDone
  <1>4. QED
    BY <1>1, <1>2, <1>3, InputsKept DEF IInv

LEMMA StutterKeeps == ASSUME IInv, UNCHANGED vars PROVE IInv'
  <1>1. UNCHANGED <<at, slen, lo, hi>>
    BY DEF vars
  <1>2. QED
    BY <1>1, InputsKept DEF vars, IInv, GnarkInv, GnarkDone, NoirInv

(* Every running value is what the invariant says, at every position.       *)
THEOREM Invariance == Spec => []IInv
  <1>1. ASSUME IInv, [Next]_vars PROVE IInv'
    BY <1>1, GnarkStepKeeps, GnarkEndKeeps, NoirStepKeeps, NoirEndKeeps, StutterKeeps DEF Next
  <1>2. QED
    BY InitStep, <1>1, PTL DEF Spec

(* gnark's running flag accepts exactly the first occurrence at or after lo. *)
THEOREM FlagAlwaysExact == Spec => []FlagExact
  <1>1. IInv => FlagExact
    BY DEF IInv, GnarkDone, FlagExact
  <1>2. QED
    BY <1>1, Invariance, PTL

(* Noir's prefix counts accept exactly the same.                            *)
THEOREM PrefixAlwaysExact == Spec => []PrefixExact
  <1>1. ASSUME IInv PROVE PrefixExact
    <2>1. SUFFICES ASSUME pc = "done" PROVE cum[hi] = cum[lo] <=> First
      BY DEF PrefixExact
    <2>2. Inputs /\ p = N /\ \A r \in 0 .. (N - 1) : r < p => cum[r] = Cardinality(Below(r))
      BY <1>1, <2>1 DEF IInv, NoirInv
    <2>3. hi \in 0 .. (N - 1) /\ lo \in 0 .. (N - 1) /\ N \in Nat
      BY <2>2, StartsAreNaturals DEF Inputs
    <2>4. cum[hi] = Cardinality(Below(hi)) /\ cum[lo] = Cardinality(Below(lo))
      BY <2>2, <2>3
    <2>5. QED
      BY <2>2, <2>4, PrefixCounts
  <1>2. QED
    BY <1>1, Invariance, PTL

(* Both circuits count the occurrences in the signed prefix.                *)
THEOREM CountAlwaysExact == Spec => []CountExact
  <1>1. ASSUME IInv PROVE CountExact
    <2>1. pc # "gnark" => total = Cardinality(Occurrences)
      BY <1>1 DEF IInv, GnarkDone
    <2>2. pc = "done" => running = Cardinality(Occurrences)
      <3>1. pc = "done" => Inputs /\ running = Cardinality(Below(N)) /\ N \in Nat /\ N > N - L
        BY <1>1, StartsAreNaturals DEF IInv, NoirInv
      <3>2. QED
        BY <3>1, CountAll
    <2>3. QED
      BY <2>1, <2>2 DEF CountExact
  <1>2. QED
    BY <1>1, Invariance, PTL
================================================================================
