---------------------------- MODULE ValidityWindow -----------------------------
(***************************************************************************)
(* The validity window of the collateral: seven signed objects each have a *)
(* first and a last date, the timestamp must be inside all of them, and    *)
(* their intersection is published for the consumer, who compares chain    *)
(* time with it.                                                           *)
(*                                                                         *)
(*   gnark (circuit/tcbextract.go, circuit/crl.go, circuit/dcap.go) compares *)
(*   field elements by decomposing a difference into bits; the timestamp   *)
(*   is a witness, so it may be any element.                               *)
(*   Noir (crates/dcap) compares 64-bit integers.                          *)
(*   The builder (witness/builder.go) computes the window it claims in     *)
(*   plain integers.                                                       *)
(*                                                                         *)
(* A date is a packed YYYYMMDDhhmmss integer, here a small number.         *)
(***************************************************************************)
EXTENDS Integers, Sequences

CONSTANTS P,       \* the order of the field
          W,       \* 2^52: what a bit decomposition accepts is below W
          U,       \* 2^64: how many values a u64 has
          Dates,   \* the dates that signed objects may hold
          None

Windows == [lo : Dates, hi : Dates]

ASSUME WindowAssumption ==
  /\ P \in Nat /\ W \in Nat \ {0} /\ U \in Nat
  /\ 3 * W <= P /\ W <= U /\ U <= P
  /\ Dates \subseteq 0 .. (W - 1)
  /\ None \notin Windows

Objects == {"tcb", "qe", "leaf", "int", "sign", "pck", "root"}

VARIABLES backend,     \* "gnark" or "noir"
          timestamp,
          pc,          \* "check", "fold", "publish", "accepted", "rejected"
          n,           \* the next check
          win,         \* the window read from each object checked so far
          from, until  \* ValidFrom and ValidUntil

vars == <<backend, timestamp, pc, n, win, from, until>>

--------------------------------------------------------------------------------
(* Arithmetic of field elements 0 .. P-1.                                   *)
Sub(a, b) == IF a >= b THEN a - b ELSE a - b + P
Add(a, b) == IF a + b < P THEN a + b ELSE a + b - P

(* Variant: equal dates do not pass.                                        *)
Greater(a, b) == Sub(a, b) < W /\ a # b

(* assertGteWide: the difference fits the bits.                             *)
Gte(a, b) == Sub(a, b) < W

(* gteBoolWide: bit 52 of a shifted difference, which must fit 53 bits.     *)
Shifted(a, b) == Add(Sub(a, b), W)
GteBool(a, b) == Shifted(a, b) >= W
Comparable(S) == \A a, b \in S : Shifted(a, b) < 2 * W

MaxWide(a, b) == IF GteBool(a, b) THEN a ELSE b
MinWide(a, b) == IF GteBool(a, b) THEN b ELSE a

(* max_u64 and min_u64.                                                     *)
MaxU64(a, b) == IF a > b THEN a ELSE b
MinU64(a, b) == IF a < b THEN a ELSE b

--------------------------------------------------------------------------------
(* Each circuit reads the objects in its own order.                         *)
Order(b) == IF b = "gnark" THEN <<"tcb", "qe", "leaf", "int", "sign", "pck", "root">>
                           ELSE <<"leaf", "int", "sign", "tcb", "qe", "pck", "root">>
NumChecks == 7

(* The two assertions of a window: at or after lo, at or before hi.         *)
GnarkWithin(w) == Gte(timestamp, w.lo) /\ Gte(w.hi, timestamp)
NoirWithin(w) == timestamp >= w.lo /\ timestamp <= w.hi
Within(w) == IF backend = "gnark" THEN GnarkWithin(w) ELSE NoirWithin(w)

(* stepCheckFreshness, checkCertValidity and verifyCrlNonMembership (C5).   *)
Check ==
  /\ pc = "check"
  /\ \E w \in Windows :
       /\ win' = [win EXCEPT ![Order(backend)[n]] = w]
       /\ IF Within(w)
          THEN n' = n + 1 /\ pc' = IF n = NumChecks THEN "fold" ELSE "check"
          ELSE n' = n /\ pc' = "rejected"
  /\ UNCHANGED <<backend, timestamp, from, until>>

(* Variant: the root CRL is not folded in.                                  *)
GnarkFromNoRoot(l) ==
  MaxWide(MaxWide(MaxWide(l["tcb"], l["qe"]), MaxWide(l["leaf"], MaxWide(l["int"], l["sign"]))),
          l["pck"])

GnarkFrom(l) ==
  MaxWide(MaxWide(MaxWide(l["tcb"], l["qe"]), MaxWide(l["leaf"], MaxWide(l["int"], l["sign"]))),
          MaxWide(l["pck"], l["root"]))
GnarkUntil(h) ==
  MinWide(MinWide(MinWide(h["tcb"], h["qe"]), MinWide(h["leaf"], MinWide(h["int"], h["sign"]))),
          MinWide(h["pck"], h["root"]))

NoirFrom(l) ==
  MaxU64(MaxU64(MaxU64(l["leaf"], MaxU64(l["int"], l["sign"])), MaxU64(l["tcb"], l["qe"])),
         MaxU64(l["pck"], l["root"]))

(* Variant: the later of the two CRLs' next updates.                        *)
NoirUntilLater(h) ==
  MinU64(MinU64(MinU64(h["leaf"], MinU64(h["int"], h["sign"])), MinU64(h["tcb"], h["qe"])),
         MaxU64(h["pck"], h["root"]))

NoirUntil(h) ==
  MinU64(MinU64(MinU64(h["leaf"], MinU64(h["int"], h["sign"])), MinU64(h["tcb"], h["qe"])),
         MinU64(h["pck"], h["root"]))

Lows == [o \in Objects |-> win[o].lo]
Highs == [o \in Objects |-> win[o].hi]
Bounds == {Lows[o] : o \in Objects} \cup {Highs[o] : o \in Objects}

(* The fold, and the assertion that the intersection is not empty.          *)
Fold ==
  /\ pc = "fold"
  /\ IF backend = "gnark"
     THEN /\ Comparable(Bounds)
          /\ from' = GnarkFrom(Lows) /\ until' = GnarkUntil(Highs)
          /\ pc' = IF Gte(until', from') THEN "publish" ELSE "rejected"
     ELSE /\ from' = NoirFrom(Lows) /\ until' = NoirUntil(Highs)
          /\ pc' = IF from' <= until' THEN "accepted" ELSE "rejected"
  /\ UNCHANGED <<backend, timestamp, n, win>>

(* collateralValidityWindow: the largest first and the smallest last date.  *)
BuiltFrom == CHOOSE x \in {Lows[o] : o \in Objects} : \A o \in Objects : Lows[o] <= x
BuiltUntil == CHOOSE x \in {Highs[o] : o \in Objects} : \A o \in Objects : x <= Highs[o]

(* gnark's window is a public input: the builder's claim is compared with   *)
(* the fold.  (Any other claim fails.)                                      *)
Publish ==
  /\ pc = "publish"
  /\ pc' = IF from = BuiltFrom /\ until = BuiltUntil THEN "accepted" ELSE "rejected"
  /\ UNCHANGED <<backend, timestamp, n, win, from, until>>

--------------------------------------------------------------------------------
Init ==
  /\ \/ backend = "gnark" /\ timestamp \in 0 .. (P - 1)
     \/ backend = "noir" /\ timestamp \in 0 .. (U - 1)
  /\ pc = "check" /\ n = 1
  /\ win = [o \in Objects |-> None]
  /\ from = None /\ until = None

Next == Check \/ Fold \/ Publish

Spec == Init /\ [][Next]_vars

--------------------------------------------------------------------------------
InWindow(t, w) == w.lo <= t /\ t <= w.hi

(* What is published is exactly the intersection: a time is inside it iff   *)
(* every signed object is valid then, so a consumer that compares chain     *)
(* time with the window relies on no expired object; and the timestamp is   *)
(* one such time (dcap.go 138-147, main.nr 226-239).                        *)
WindowExact ==
  pc = "accepted" =>
    /\ from <= timestamp /\ timestamp <= until
    /\ \A t \in 0 .. (P - 1) : from <= t /\ t <= until <=> \A o \in Objects : InWindow(t, win[o])

(* Nothing is rejected but a timestamp outside some object's window: the    *)
(* field comparisons accept both ends of every window, the guard against an *)
(* empty intersection never fires, and the builder's integers are the       *)
(* circuit's (builder.go 521-525).                                          *)
RejectedRightly ==
  pc = "rejected" => \E o \in Objects : win[o] # None /\ ~InWindow(timestamp, win[o])
================================================================================
