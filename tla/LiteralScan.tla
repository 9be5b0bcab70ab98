------------------------------ MODULE LiteralScan ------------------------------
(***************************************************************************)
(* The two scans of a signed buffer for an anchor literal, as the gnark    *)
(* circuit does them (circuit/tcbextract.go) and as the Noir circuit does  *)
(* (crates/dcap/src/der.nr):                                               *)
(*                                                                         *)
(*   - how many times the literal occurs in the signed prefix              *)
(*     (countLiteralOccurrences, count_literal), and                       *)
(*   - whether it occurs in [lo, hi): gnark toggles a running flag at lo   *)
(*     and hi (assertNoLiteralInRange), Noir compares two prefix counts    *)
(*     (status_cumsum).                                                    *)
(*                                                                         *)
(* TcbLevels and QeLevels use the results as Total and FirstStatus.        *)
(***************************************************************************)
EXTENDS Integers, FiniteSets

CONSTANTS N,   \* the capacity of the buffer
          L    \* the length of the literal

ASSUME ScanAssumption == N \in Nat /\ L \in Nat \ {0} /\ L <= N

(* The first N - L + 1 positions are those where the literal fits.          *)
Starts == 0 .. (N - L)

VARIABLES at,       \* where the literal is, in the signed prefix or after it
          slen,     \* the length of the signed prefix
          lo, hi,   \* the range; hi is a witness, asserted to be an occurrence
          pc,       \* "gnark", "noir", "done"
          p,        \* the next position of the current scan
          total,    \* gnark's count
          inside,   \* gnark's flag
          clear,    \* gnark's assertions have held
          running,  \* Noir's count
          cum       \* Noir's prefix counts

vars == <<at, slen, lo, hi, pc, p, total, inside, clear, running, cum>>

--------------------------------------------------------------------------------
Found(q) == q \in at
Bit(b) == IF b THEN 1 ELSE 0

(* Variant: a match may end behind the signed prefix.                       *)
StartsSigned(q) == q < slen

(* isLessThanVar(p + L - 1, signedLen), and p + L <= signed_len.            *)
Signed(q) == q + L - 1 < slen

(* Variant: the flag is turned on behind lo.                                *)
ToggledLate == inside + Bit(lo + 1 = p) - Bit(hi = p)

(* Variant: the flag is turned off behind hi.                               *)
ToggledOff == inside + Bit(lo = p) - Bit(hi + 1 = p)

Toggled == inside + Bit(lo = p) - Bit(hi = p)

(* One position of gnark's two loops.                                       *)
GnarkStep ==
  /\ pc = "gnark" /\ p \in Starts
  /\ inside' = Toggled
  /\ clear' = (clear /\ ~(Found(p) /\ inside' # 0))
  /\ total' = total + Bit(Found(p) /\ Signed(p))
  /\ p' = p + 1
  /\ UNCHANGED <<at, slen, lo, hi, pc, running, cum>>

GnarkEnd ==
  /\ pc = "gnark" /\ p \notin Starts
  /\ pc' = "noir" /\ p' = 0
  /\ UNCHANGED <<at, slen, lo, hi, total, inside, clear, running, cum>>

(* Variant: a position counts itself.                                       *)
CountHere == running + Bit(p \in Starts /\ Found(p) /\ Signed(p))

CountBefore == running

(* One position of status_cumsum; count_literal counts the same positions.  *)
NoirStep ==
  /\ pc = "noir" /\ p < N
  /\ cum' = [cum EXCEPT ![p] = CountBefore]
  /\ running' = running + Bit(p \in Starts /\ Found(p) /\ Signed(p))
  /\ p' = p + 1
  /\ UNCHANGED <<at, slen, lo, hi, pc, total, inside, clear>>

NoirEnd ==
  /\ pc = "noir" /\ p = N
  /\ pc' = "done"
  /\ UNCHANGED <<at, slen, lo, hi, p, total, inside, clear, running, cum>>

(* The callers assert that lo is before hi (or at it), and that hi is an    *)
(* occurrence with a byte after it in the signed prefix (extractStringEnum).*)
Anchored(q) == q \in at /\ q + L + 1 <= slen

Init ==
  /\ at \in SUBSET Starts /\ slen \in 0 .. N
  /\ hi \in {q \in Starts : Anchored(q)} /\ lo \in 0 .. hi
  /\ pc = "gnark" /\ p = 0
  /\ total = 0 /\ inside = 0 /\ clear = TRUE
  /\ running = 0 /\ cum = [q \in 0 .. (N - 1) |-> 0]

Next == GnarkStep \/ GnarkEnd \/ NoirStep \/ NoirEnd

Spec == Init /\ [][Next]_vars

--------------------------------------------------------------------------------
(* What the scans are for.                                                  *)
Occurrences == {q \in at : q + L <= slen}
First == \A q \in lo .. (hi - 1) : q \notin at

(* gnark's assertions hold exactly if hi is the first occurrence at or after *)
(* lo.  The flag needs lo <= hi: it would otherwise never be turned off, or *)
(* be -1 (tcbextract.go 371-397).                                           *)
FlagExact == pc # "gnark" => (clear <=> First)

(* Noir's comparison of two prefix counts decides the same, although the    *)
(* counts leave out what is not wholly signed (der.nr 190-225).             *)
PrefixExact == pc = "done" => (cum[hi] = cum[lo] <=> First)

(* Both circuits count the occurrences of the signed prefix, and no other:  *)
(* the unsigned tail cannot inflate the count (tcbextract.go 348-369).      *)
CountExact == /\ pc # "gnark" => total = Cardinality(Occurrences)
              /\ pc = "done" => running = Cardinality(Occurrences)
================================================================================
