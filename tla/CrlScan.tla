-------------------------------- MODULE CrlScan --------------------------------
(***************************************************************************)
(* The two readings of a signed CRL that differ between the gnark circuit  *)
(* (circuit/crl.go) and the Noir circuit (crates/dcap/src/crl.nr):         *)
(*                                                                         *)
(*   - the witness offset of thisUpdate is pinned to the first UTCTime; the *)
(*     two loops that look for an earlier one stop at different positions; *)
(*   - the leaf's serial must occur nowhere in the buffer; gnark compares  *)
(*     every window byte by byte, Noir multiplies the differences of a     *)
(*     rolling fingerprint over a prime field.                             *)
(*                                                                         *)
(* The signature, the head of the list and the comparison of the dates     *)
(* with the timestamp are in QuoteVerification and ValidityWindow.         *)
(***************************************************************************)
EXTENDS Integers

CONSTANTS N,           \* the capacity of the buffer
          HeaderScan,  \* crlMaxHeaderScan
          V,           \* the bytes of a UTCTime value
          K,           \* crlSerialLen
          B,           \* the values of a byte
          T, D,        \* the tag and the length byte of a UTCTime
          P            \* the order of the field

ASSUME CrlAssumption ==
  /\ N \in Nat /\ HeaderScan \in Nat /\ V \in Nat
  /\ HeaderScan + 2 * (2 + V) <= N
  /\ K \in Nat \ {0} /\ K <= N
  /\ B \in Nat /\ T \in 0 .. (B - 1) /\ D \in 0 .. (B - 1) /\ T # D

Bytes == 0 .. (B - 1)
Positions == 0 .. (N - 1)
Serials == [0 .. (K - 1) -> Bytes]

(* How many windows of K bytes there are.                                   *)
Windows == LET n[k \in 0 .. K] == IF k = 0 THEN 1 ELSE n[k - 1] * B IN n[K]

(* A field: a product is zero only if a factor is.  Every window fits.      *)
ASSUME FieldAssumption ==
  /\ P \in Nat /\ Windows <= P
  /\ \A x, y \in 1 .. (P - 1) : (x * y) % P # 0

VARIABLES tbs,      \* the buffer
          len,      \* the length of its signed prefix
          off,      \* the witness for the offset of thisUpdate
          pc,       \* "pin", "scan", "done", "failed"
          pinned,   \* the backends that have accepted off
          serial,   \* the leaf's serial
          p,        \* the next window
          absent,   \* gnark's assertions have held
          fp, prod  \* Noir's fingerprint and product

vars == <<tbs, len, off, pc, pinned, serial, p, absent, fp, prod>>

--------------------------------------------------------------------------------
(* The pin.                                                                 *)

TimeAt(q) == q + 1 \in Positions /\ tbs[q] = T /\ tbs[q + 1] = D

NextOff == off + 2 + V

(* Both dates in the signed prefix, the first one in the header.            *)
DatesAnchored ==
  /\ off + 2 * (2 + V) <= len
  /\ off <= HeaderScan
  /\ TimeAt(off) /\ TimeAt(NextOff)

(* Variant: the search stops a position early.                              *)
SearchShort(q) == q + 2 < HeaderScan

SearchedByGnark(q) == q + 1 < HeaderScan /\ q + 1 < N
SearchedByNoir(q) == q < HeaderScan /\ q + 1 < N

Searched(backend, q) ==
  \/ backend = "gnark" /\ SearchedByGnark(q)
  \/ backend = "noir" /\ SearchedByNoir(q)

Accepts(backend) ==
  /\ DatesAnchored
  /\ \A q \in Positions : Searched(backend, q) /\ q < off => ~TimeAt(q)

(* The serial is the one read from the leaf.                                *)
Pin ==
  /\ pc = "pin"
  /\ pinned' = {backend \in {"gnark", "noir"} : Accepts(backend)}
  /\ pc' = IF pinned' = {} THEN "failed" ELSE "scan"
  /\ serial' \in IF pinned' = {} THEN {serial} ELSE Serials
  /\ UNCHANGED <<tbs, len, off, p, absent, fp, prod>>

--------------------------------------------------------------------------------
(* The scan.                                                                *)

Window(q) == [j \in 0 .. (K - 1) |-> tbs[q + j]]

(* The big-endian value of K bytes, in the field.                           *)
Horner(w) == LET v[j \in 0 .. K] == IF j = 0 THEN 0 ELSE (v[j - 1] * B + w[j - 1]) % P
             IN  v[K]

(* Variant: the weight is one byte too high.                                *)
WeightAbove == LET w[k \in 0 .. K] == IF k = 0 THEN 1 ELSE (w[k - 1] * B) % P IN w[K]

(* The weight of a window's first byte, by a fold.                          *)
TopWeight == LET w[k \in 0 .. (K - 1)] == IF k = 0 THEN 1 ELSE (w[k - 1] * B) % P
             IN  w[K - 1]

Rolled(q) == ((fp - tbs[q] * TopWeight) * B + tbs[q + K]) % P

Diff(v) == (v - Horner(serial)) % P

(* Variant: the last window is left out.                                    *)
LastButOne == N - K - 1

LastWindow == N - K

Equal(q) == \A j \in 0 .. (K - 1) : tbs[q + j] = serial[j]

ScanStart ==
  /\ pc = "scan" /\ p = 0
  /\ absent' = ~Equal(0)
  /\ fp' = Horner(Window(0)) /\ prod' = Diff(fp')
  /\ p' = 1
  /\ UNCHANGED <<tbs, len, off, pc, pinned, serial>>

ScanStep ==
  /\ pc = "scan" /\ p \in 1 .. LastWindow
  /\ absent' = (absent /\ ~Equal(p))
  /\ fp' = Rolled(p - 1) /\ prod' = (prod * Diff(fp')) % P
  /\ p' = p + 1
  /\ UNCHANGED <<tbs, len, off, pc, pinned, serial>>

ScanEnd ==
  /\ pc = "scan" /\ p > LastWindow
  /\ pc' = "done"
  /\ UNCHANGED <<tbs, len, off, pinned, serial, p, absent, fp, prod>>

Init ==
  /\ tbs \in [Positions -> Bytes] /\ len \in 0 .. N /\ off \in Positions
  /\ pc = "pin" /\ pinned = {} /\ p = 0
  /\ serial = [j \in 0 .. (K - 1) |-> 0]
  /\ absent = TRUE /\ fp = 0 /\ prod = 0

Next == Pin \/ ScanStart \/ ScanStep \/ ScanEnd

Spec == Init /\ [][Next]_vars

--------------------------------------------------------------------------------
(* The builder's hint: bytes.Index over the signed bytes.                   *)
FirstTimes == {q \in Positions : TimeAt(q) /\ q + 1 < len}
HintedOff(q) == q \in FirstTimes /\ \A r \in FirstTimes : q <= r

(* Both circuits accept exactly the builder's hint, given a header in range *)
(* and a second date behind the first: neither accepts a later UTCTime as   *)
(* thisUpdate, and neither refuses the right one, although gnark looks at   *)
(* one position less than Noir (crl.go 111, crl.nr 58).                     *)
PinExact ==
  pc # "pin" => \A backend \in {"gnark", "noir"} :
    backend \in pinned <=> HintedOff(off) /\ DatesAnchored

(* gnark's windows and Noir's product decide the same: the serial passes    *)
(* iff it is nowhere in the buffer, its first and last window included      *)
(* (crl.go 130-138, crl.nr 104-122).                                         *)
Revoked == \E q \in 0 .. (N - K) : Equal(q)

ScanExact == pc = "done" => (absent <=> ~Revoked) /\ (prod = 0 <=> Revoked)
================================================================================
