---------------------------- MODULE FieldReadProofs ----------------------------
(***************************************************************************)
(* Proofs about FieldRead, for every field, every buffer, every document   *)
(* and whatever a prover puts behind it.  An offset is any field element:  *)
(* the bound on the signed length and the range of a selector or a table   *)
(* leave the same offsets as Noir's u32 (GnarkBound), so all readers take  *)
(* the same bytes (Extracts), which lie in the signed text; a status that  *)
(* runs past its end is decided by its closing quote (ClosedStatus).       *)
(*                                                                         *)
(* A decoder gives back the value that an issuer encoded in a window       *)
(* (DecimalRead, HexRead, IsoRead, UtcRead, StatusRead, SerialRead,        *)
(* PceRead).  A number is a recursion over its digits, so what it yields   *)
(* is found by induction over a set of naturals (SetInduction) and with    *)
(* the quotients of a numeral (NumeralValue).  A host's offset is a place  *)
(* where the issuer wrote the value, so the same lemmas say what it reads  *)
(* (HostReads), and HostBelief what the host takes it for.                 *)
(*                                                                         *)
(* Behind them, the proofs about the offsets of one array, SvnArray.       *)
(***************************************************************************)
EXTENDS FieldRead, SvnArray, TLAPS, WellFoundedInduction

Buffered == doc \in Documents /\ \E t \in Tails : buf = Padded(doc.body \o t)

(* The bytes of the buffer behind an offset.                                *)
Taken(o, k) == [j \in 1 .. k |-> buf[o + j]]

(* What every reader should return for a signed window.                     *)
Extracted(o, ctx, n) ==
  IF o + Len(ctx) + n <= signedLen THEN After(ctx, {Taken(o, Len(ctx) + n)}) ELSE {}

(* The same for a window of which only the first symbol is signed.          *)
Opened(o, ctx, n) ==
  IF o + Len(ctx) + 1 <= signedLen /\ o + Len(ctx) + n <= Capacity
  THEN After(ctx, {Taken(o, Len(ctx) + n)}) ELSE {}

--------------------------------------------------------------------------------
(* The buffer.                                                              *)

LEMMA Parameters ==
  /\ P \in Nat /\ W \in Nat /\ Capacity \in Nat /\ SerialLen \in Nat \ {0} /\ Reach \in Nat
  /\ Reach = 32 + SerialLen /\ Capacity + Reach < W /\ 2 * W <= P
  BY FieldReadAssumption DEF Reach

(* It holds the signed text, and behind it what anyone put there.           *)
LEMMA BufferFacts ==
  ASSUME Buffered
  PROVE  /\ buf \in Seq(Nat) /\ Len(buf) = Capacity
         /\ doc.body \in Seq(Nat) /\ signedLen \in Nat /\ signedLen <= Capacity
         /\ \A i \in 1 .. signedLen : buf[i] = doc.body[i]
  <1>1. PICK t \in Tails : buf = Padded(doc.body \o t)
    BY DEF Buffered
  <1>2. /\ t \in Seq(Nat) /\ doc.body \in Seq(Nat) /\ Len(doc.body) <= Capacity
        /\ Capacity \in Nat
    BY <1>1, FieldReadAssumption DEF Buffered
  <1>3. Zeros(Capacity) \in Seq(Nat) /\ Len(Zeros(Capacity)) = Capacity
    BY <1>2 DEF Zeros
  <1> DEFINE s == (doc.body \o t) \o Zeros(Capacity)
  <1> DEFINE b == doc.body  u == doc.body \o t  z == Zeros(Capacity)
  <1>4. /\ s \in Seq(Nat) /\ Len(s) = Len(doc.body) + Len(t) + Capacity
        /\ \A i \in 1 .. Len(doc.body) : s[i] = doc.body[i]
    <2>1. /\ u \in Seq(Nat) /\ Len(u) = Len(b) + Len(t) /\ Len(b) \in Nat /\ Len(t) \in Nat
          /\ \A i \in 1 .. Len(b) : u[i] = b[i]
      BY <1>2
    <2>2. s = u \o z /\ z \in Seq(Nat) /\ Len(z) = Capacity
      BY <1>3
    <2> HIDE DEF b, u, z, s
    <2>3. s \in Seq(Nat) /\ Len(s) = Len(u) + Capacity /\ \A i \in 1 .. Len(u) : s[i] = u[i]
      <3>1. s \in Seq(Nat)
        BY <2>1, <2>2
      <3>2. Len(s) = Len(u) + Len(z)
        <4>1. u \in Seq(Nat) /\ z \in Seq(Nat) /\ s = u \o z
          BY <2>1, <2>2
        <4>2. QED
          BY <4>1
      <3>3. ASSUME NEW i \in 1 .. Len(u) PROVE s[i] = u[i]
        BY <2>1, <2>2
      <3>4. QED
        BY <2>2, <3>1, <3>2, <3>3
    <2>4. ASSUME NEW i \in 1 .. Len(b) PROVE s[i] = b[i]
      BY <2>1, <2>3
    <2>5. QED
      BY <2>1, <2>3, <2>4 DEF b
  <1>5. buf = SubSeq(s, 1, Capacity)
    BY <1>1 DEF Padded
  <1> HIDE DEF s
  <1>6. Len(s) \in Nat /\ Capacity <= Len(s)
    BY <1>2, <1>4
  <1>7. buf \in Seq(Nat) /\ Len(buf) = Capacity /\ \A i \in 1 .. Capacity : buf[i] = s[i]
    BY <1>2, <1>4, <1>5, <1>6
  <1>8. signedLen \in Nat /\ signedLen <= Capacity /\ signedLen = Len(doc.body)
    BY <1>2 DEF signedLen
  <1>9. ASSUME NEW i \in 1 .. signedLen PROVE buf[i] = doc.body[i]
    <2>1. i \in 1 .. Capacity /\ i \in 1 .. Len(doc.body)
      BY <1>2, <1>8
    <2>2. QED
      BY <1>4, <1>7, <2>1
  <1>10. QED
    BY <1>2, <1>7, <1>8, <1>9

(* Windows of a sequence, of the buffer and of the signed text.             *)
LEMMA Slice ==
  ASSUME NEW s \in Seq(Nat), NEW o \in Nat, NEW k \in Nat, o + k <= Len(s)
  PROVE  SubSeq(s, o + 1, o + k) = [j \in 1 .. k |-> s[o + j]]
  OBVIOUS

LEMMA TakenFacts ==
  ASSUME Buffered, NEW o \in Nat, NEW k \in Nat, o + k <= Capacity
  PROVE  /\ Taken(o, k) \in Seq(Nat) /\ Len(Taken(o, k)) = k
         /\ \A j \in 1 .. k : Taken(o, k)[j] = buf[o + j]
  <1>1. \A j \in 1 .. k : buf[o + j] \in Nat
    BY BufferFacts, Parameters
  <1>2. QED
    BY <1>1 DEF Taken

LEMMA TakenIsSigned ==
  ASSUME Buffered, NEW o \in Nat, NEW k \in Nat, o + k <= signedLen
  PROVE  Taken(o, k) = SubSeq(doc.body, o + 1, o + k)
  <1>1. /\ doc.body \in Seq(Nat) /\ signedLen = Len(doc.body) /\ signedLen \in Nat
        /\ \A i \in 1 .. signedLen : buf[i] = doc.body[i]
    BY BufferFacts DEF signedLen
  <1>2. SubSeq(doc.body, o + 1, o + k) = [j \in 1 .. k |-> doc.body[o + j]]
    BY <1>1
  <1>3. \A j \in 1 .. k : buf[o + j] = doc.body[o + j]
    BY <1>1
  <1>4. QED
    BY <1>2, <1>3 DEF Taken

--------------------------------------------------------------------------------
(* The readers.                                                             *)

(* A difference of field elements is small only if it is one of integers.   *)
LEMMA GnarkBound ==
  ASSUME Buffered, NEW o \in Nat, o < Capacity, NEW k \in 0 .. Reach
  PROVE  GnarkSigned(o, k) <=> o + k <= signedLen
  <1>1. signedLen \in Nat /\ signedLen <= Capacity
    BY BufferFacts
  <1>2. CASE o + k <= signedLen
    <2>1. signedLen - (o + k) \in 0 .. (W - 1) /\ W <= P
      BY <1>1, <1>2, Parameters
    <2>2. (signedLen - (o + k)) % P = signedLen - (o + k)
      BY <2>1, Parameters
    <2>3. QED
      BY <1>2, <2>1, <2>2, Parameters DEF GnarkSigned
  <1>3. CASE o + k > signedLen
    <2>1. signedLen - (o + k) \in (-W) .. (-1) /\ 2 * W <= P
      BY <1>1, <1>3, Parameters
    <2>2. (signedLen - (o + k)) % P = P + (signedLen - (o + k))
      BY <2>1, Parameters
    <2>3. QED
      BY <1>1, <1>3, <2>1, <2>2, Parameters DEF GnarkSigned
  <1>4. QED
    BY <1>1, <1>2, <1>3, Parameters

(* The bytes of a window in the buffer.                                     *)
LEMMA WindowBytes ==
  ASSUME Buffered, NEW o \in Nat, NEW k \in 1 .. Reach, o + k <= Capacity
  PROVE  /\ SelectorBytes(o, k) = {Taken(o, k)}
         /\ LookupBytes(o, k) = {Taken(o, k)}
         /\ NoirBytes(o, k) = {Taken(o, k)}
  <1>1. \A j \in 1 .. k : ByteAt(o + j - 1) = buf[o + j]
    BY Parameters DEF ByteAt
  <1>2. \A j \in 1 .. k : (o + j - 1) % P = o + j - 1
    BY Parameters
  <1>3. \A j \in 0 .. (k - 1) : (o + j) % P < Capacity
    BY Parameters
  <1>4. o < Capacity
    BY Parameters
  <1>5. /\ [j \in 1 .. k |-> ByteAt(o + j - 1)] = Taken(o, k)
        /\ [j \in 1 .. k |-> ByteAt((o + j - 1) % P)] = Taken(o, k)
    BY <1>1, <1>2 DEF Taken
  <1>6. QED
    BY <1>3, <1>4, <1>5 DEF SelectorBytes, LookupBytes, NoirBytes, When

(* The table holds no window that is not in the buffer as a whole.          *)
LEMMA LookupOutside ==
  ASSUME Buffered, NEW o \in 0 .. (P - 1), NEW k \in 1 .. Reach, ~(o + k <= Capacity)
  PROVE  LookupBytes(o, k) = {}
  <1>1. o % P = o /\ o \in Nat
    BY Parameters
  <1>2. CASE o >= Capacity
    <2>1. ~((o + 0) % P < Capacity) /\ 0 \in 0 .. (k - 1)
      BY <1>1, <1>2, Parameters
    <2>2. QED
      BY <2>1 DEF LookupBytes, When
  <1>3. CASE o < Capacity
    <2>1. k - 1 \in 0 .. (k - 1) /\ o + (k - 1) \in 0 .. (P - 1) /\ o + (k - 1) >= Capacity
      BY <1>1, <1>3, Parameters
    <2>2. (o + (k - 1)) % P = o + (k - 1)
      BY <2>1, Parameters
    <2>3. ~((o + (k - 1)) % P < Capacity)
      BY <2>1, <2>2, Parameters
    <2>4. QED
      BY <2>1, <2>3 DEF LookupBytes, When
  <1>4. QED
    BY <1>1, <1>2, <1>3, Parameters

LEMMA NothingAfter == \A ctx : After(ctx, {}) = {}
  BY DEF After

(* Every reader of a signed window returns the same at any field element.   *)
LEMMA Extracts ==
  ASSUME Buffered, NEW o \in 0 .. (P - 1), NEW ctx \in Seq(Nat), NEW n \in Nat,
         Len(ctx) + n \in 1 .. Reach
  PROVE  /\ ExtractField(o, ctx, n) = Extracted(o, ctx, n)
         /\ ExtractFieldLU(o, ctx, n) = Extracted(o, ctx, n)
  <1> DEFINE k == Len(ctx) + n
  <1>1. signedLen \in Nat /\ signedLen <= Capacity /\ o \in Nat /\ k \in 1 .. Reach
    BY BufferFacts, Parameters
  <1>2. o + Len(ctx) + n = o + k
    BY <1>1
  <1> HIDE DEF k
  <1>3. CASE o + k <= signedLen
    <2>1. o + k <= Capacity /\ o < Capacity /\ k \in 0 .. Reach
      BY <1>1, <1>3, Parameters
    <2>2. GnarkSigned(o, k)
      BY <1>1, <1>3, <2>1, GnarkBound
    <2>3. SelectorBytes(o, k) = {Taken(o, k)} /\ LookupBytes(o, k) = {Taken(o, k)}
      BY <1>1, <2>1, WindowBytes
    <2>4. QED
      BY <1>2, <1>3, <2>2, <2>3 DEF ExtractField, ExtractFieldLU, Extracted, k
  <1>4. CASE ~(o + k <= signedLen)
    <2>1. Extracted(o, ctx, n) = {}
      BY <1>2, <1>4 DEF Extracted
    <2>2. CASE o < Capacity
      <3>1. ~GnarkSigned(o, k)
        BY <1>1, <1>4, <2>2, GnarkBound, Parameters
      <3>2. QED
        BY <2>1, <3>1 DEF ExtractField, ExtractFieldLU, k
    <2>3. CASE ~(o < Capacity)
      <3>1. SelectorBytes(o, k) = {}
        BY <2>3 DEF SelectorBytes, When
      <3>2. LookupBytes(o, k) = {}
        BY <1>1, <2>3, LookupOutside, Parameters
      <3>3. QED
        BY <2>1, <3>1, <3>2, NothingAfter DEF ExtractField, ExtractFieldLU, k
    <2>4. QED
      BY <2>2, <2>3
  <1>5. QED
    BY <1>3, <1>4

LEMMA NoirExtracts ==
  ASSUME Buffered, NEW o \in Nat, NEW ctx \in Seq(Nat), NEW n \in Nat, Len(ctx) + n \in 1 .. Reach
  PROVE  NoirExtractField(o, ctx, n) = Extracted(o, ctx, n)
  <1> DEFINE k == Len(ctx) + n
  <1>1. signedLen \in Nat /\ signedLen <= Capacity /\ k \in 1 .. Reach
    BY BufferFacts, Parameters
  <1>2. o + Len(ctx) + n = o + k
    BY <1>1
  <1> HIDE DEF k
  <1>3. NoirSigned(o, k) <=> o + k <= signedLen
    BY <1>1, Parameters DEF NoirSigned
  <1>4. o + k <= signedLen => NoirBytes(o, k) = {Taken(o, k)}
    BY <1>1, WindowBytes, Parameters
  <1>5. QED
    BY <1>2, <1>3, <1>4 DEF NoirExtractField, Extracted, k

(* So does the reader of a status.                                          *)
LEMMA StatusExtracts ==
  ASSUME Buffered, NEW o \in 0 .. (P - 1), NEW ctx \in Seq(Nat), NEW n \in Nat \ {0},
         Len(ctx) + n \in 1 .. Reach
  PROVE  /\ ExtractStringEnumLU(o, ctx, n) = Opened(o, ctx, n)
         /\ NoirStringEnum(o, ctx, n) = Opened(o, ctx, n)
  <1> DEFINE k == Len(ctx) + n
             h == Len(ctx) + 1
  <1>1. /\ signedLen \in Nat /\ signedLen <= Capacity /\ o \in Nat /\ k \in 1 .. Reach
        /\ h \in 1 .. Reach /\ h <= k
    BY BufferFacts, Parameters
  <1>2. o + Len(ctx) + n = o + k /\ o + Len(ctx) + 1 = o + h
    BY <1>1
  <1> HIDE DEF k, h
  <1>3. NoirSigned(o, h) <=> o + h <= signedLen
    BY <1>1, Parameters DEF NoirSigned
  <1>4. CASE o + k <= Capacity
    <2>1. o < Capacity /\ h \in 0 .. Reach
      BY <1>1, <1>4, Parameters
    <2>2. GnarkSigned(o, h) <=> o + h <= signedLen
      BY <1>1, <2>1, GnarkBound
    <2>3. LookupBytes(o, k) = {Taken(o, k)} /\ NoirBytes(o, k) = {Taken(o, k)}
      BY <1>1, <1>4, WindowBytes
    <2>4. QED
      BY <1>2, <1>3, <1>4, <2>2, <2>3 DEF ExtractStringEnumLU, NoirStringEnum, Opened, k, h
  <1>5. CASE ~(o + k <= Capacity)
    <2>1. LookupBytes(o, k) = {} /\ NoirBytes(o, k) = {}
      BY <1>1, <1>5, LookupOutside DEF NoirBytes, When
    <2>2. Opened(o, ctx, n) = {}
      BY <1>2, <1>5 DEF Opened
    <2>3. QED
      BY <2>1, <2>2, NothingAfter DEF ExtractStringEnumLU, NoirStringEnum, k, h
  <1>6. QED
    BY <1>4, <1>5

(* What follows the context, and where the context is.                      *)
LEMMA Stripped ==
  ASSUME Buffered, NEW o \in Nat, NEW ctx \in Seq(Nat), NEW n \in Nat, o + Len(ctx) + n <= Capacity
  PROVE  /\ (\A i \in 1 .. Len(ctx) : buf[o + i] = ctx[i])
              => After(ctx, {Taken(o, Len(ctx) + n)}) = {Taken(o + Len(ctx), n)}
         /\ ~(\A i \in 1 .. Len(ctx) : buf[o + i] = ctx[i])
              => After(ctx, {Taken(o, Len(ctx) + n)}) = {}
  <1> DEFINE l == Len(ctx)  c == Taken(o, l + n)
  <1>1. /\ l \in Nat /\ l + n \in Nat /\ o + (l + n) <= Capacity
        /\ ctx = [i \in 1 .. l |-> ctx[i]]
    <2>1. l \in Nat /\ ctx = [i \in 1 .. l |-> ctx[i]]
      BY ONLY ctx \in Seq(Nat), SMTT(30)
    <2> HIDE DEF l
    <2>2. l + n \in Nat /\ o + (l + n) <= Capacity
      BY <2>1, Parameters, SMTT(30) DEF l
    <2>3. QED
      BY ONLY <2>1, <2>2
  <1>2. c \in Seq(Nat) /\ Len(c) = l + n /\ \A j \in 1 .. (l + n) : c[j] = buf[o + j]
    BY <1>1, TakenFacts
  <1> HIDE DEF l, c
  <1>a. ASSUME NEW i \in 1 .. l PROVE c[i] = buf[o + i]
    <2>1. i \in 1 .. (l + n)
      BY <1>1
    <2>2. QED
      BY <1>2, <2>1
  <1>b. l <= Len(c) /\ 0 + l = l /\ l + n <= Len(c)
    BY <1>1, <1>2
  <1>3. SubSeq(c, 1, l) = [i \in 1 .. l |-> buf[o + i]]
    <2>1. SubSeq(c, 1, l) = [i \in 1 .. l |-> c[i]]
      BY <1>1, <1>2, <1>b
    <2>3. QED
      BY <2>1, <1>a
  <1>4. SubSeq(ctx, 1, l) = ctx
    BY <1>1 DEF l
  <1>5. IsPrefix(ctx, c) <=> \A i \in 1 .. l : buf[o + i] = ctx[i]
    <2>1. IsPrefix(ctx, c) <=> ctx = [i \in 1 .. l |-> buf[o + i]]
      BY <1>3, <1>4, <1>b DEF IsPrefix, l
    <2>2. CASE ctx = [i \in 1 .. l |-> buf[o + i]]
      BY <2>1, <2>2
    <2>3. CASE \A i \in 1 .. l : buf[o + i] = ctx[i]
      <3>1. ctx = [i \in 1 .. l |-> ctx[i]]
        BY <1>1
      <3>2. [i \in 1 .. l |-> ctx[i]] = [i \in 1 .. l |-> buf[o + i]]
        BY <2>3
      <3>3. QED
        BY <2>1, <2>3, <3>1, <3>2
    <2>4. QED
      BY <2>1, <2>2, <2>3
  <1>6. SubSeq(c, l + 1, Len(c)) = Taken(o + l, n)
    <2>1. SubSeq(c, l + 1, l + n) = [j \in 1 .. n |-> c[l + j]]
      BY <1>1, <1>2, <1>b, Slice
    <2>2. ASSUME NEW j \in 1 .. n PROVE c[l + j] = buf[(o + l) + j]
      <3>1. l + j \in 1 .. (l + n) /\ o + (l + j) = (o + l) + j
        BY <1>1
      <3>2. QED
        BY <1>2, <3>1
    <2>3. QED
      BY <1>2, <2>1, <2>2 DEF Taken
  <1>7. After(ctx, {c}) = IF IsPrefix(ctx, c) THEN {SubSeq(c, l + 1, Len(c))} ELSE {}
    BY DEF After, l
  <1>8. QED
    BY <1>5, <1>6, <1>7 DEF l, c

(* A context in the signed part of the buffer is one of the issuer's text.  *)
LEMMA SignedContext ==
  ASSUME Buffered, NEW o \in Nat, NEW ctx \in Seq(Nat), Len(ctx) >= 1, o + Len(ctx) <= signedLen,
         \A i \in 1 .. Len(ctx) : buf[o + i] = ctx[i]
  PROVE  o + 1 \in DOMAIN doc.body /\ OccursAt(doc.body, ctx, o + 1)
  <1> DEFINE l == Len(ctx)
  <1>1. /\ l \in Nat /\ ctx = [i \in 1 .. l |-> ctx[i]] /\ signedLen = Len(doc.body)
        /\ doc.body \in Seq(Nat) /\ \A i \in 1 .. signedLen : buf[i] = doc.body[i]
    BY BufferFacts, SMTT(30) DEF signedLen
  <1>2. /\ (o + 1) + l - 1 = o + l /\ o + l <= Len(doc.body)
        /\ SubSeq(doc.body, o + 1, o + l) = [i \in 1 .. l |-> doc.body[o + i]]
    <2>1. (o + 1) + l - 1 = o + l /\ o + l <= Len(doc.body)
      BY <1>1
    <2>2. QED
      BY <1>1, <2>1, Slice
  <1>3. ASSUME NEW i \in 1 .. l PROVE doc.body[o + i] = ctx[i]
    <2>1. o + i \in 1 .. signedLen
      <3>1. o \in Nat /\ l \in Nat /\ signedLen \in Nat /\ o + l <= signedLen /\ i \in 1 .. l
        BY <1>1, BufferFacts
      <3> HIDE DEF l
      <3>2. QED
        BY <3>1
    <2>2. QED
      BY <1>1, <2>1
  <1>4. o + 1 \in DOMAIN doc.body /\ (o + 1) + l - 1 <= Len(doc.body)
    BY <1>1
  <1>5. QED
    BY <1>1, <1>2, <1>3, <1>4 DEF OccursAt

LEMMA Kinds ==
  ASSUME NEW kind \in DOMAIN Width
  PROVE  /\ kind \in {"decimal", "hex", "iso", "status", "serial", "pce", "validity"}
         /\ Ctx(kind) \in Seq(Nat) /\ Width[kind] \in Nat \ {0}
         /\ Len(Ctx(kind)) = IF kind = "validity" THEN 4 ELSE 1
         /\ kind = "validity" => Width[kind] = 13
         /\ Len(Ctx(kind)) + Width[kind] \in 1 .. Reach
  <1>1. kind \in {"decimal", "hex", "iso", "status", "serial", "pce", "validity"}
    BY DEF Width
  <1>2. /\ Ctx(kind) \in Seq(Nat)
        /\ Len(Ctx(kind)) = IF kind = "validity" THEN 4 ELSE 1
    BY DEF Ctx, Context, CertValidityCtx
  <1>3. /\ Width[kind] \in Nat \ {0} /\ Width[kind] <= 21 + SerialLen
        /\ kind = "validity" => Width[kind] = 13
        /\ kind # "validity" => Width[kind] <= 20 + SerialLen
    BY <1>1, Parameters DEF Width
  <1>4. QED
    BY <1>1, <1>2, <1>3, Parameters

--------------------------------------------------------------------------------
(* Sequences.                                                               *)

(* A sequence is known by its elements.                                     *)
LEMMA ByElements ==
  ASSUME NEW s \in Seq(Nat), NEW k \in Nat, Len(s) = k
  PROVE  s = [j \in 1 .. k |-> s[j]]
  OBVIOUS

(* A sequence of numbers is a function into the numbers.                    *)
LEMMA Elements ==
  ASSUME NEW s \in Seq(Nat)
  PROVE  DOMAIN s = 1 .. Len(s) /\ \A i \in 1 .. Len(s) : s[i] \in Nat
  OBVIOUS

LEMMA SliceFacts ==
  ASSUME NEW s \in Seq(Nat), NEW o \in Nat, NEW k \in Nat, o + k <= Len(s)
  PROVE  /\ SubSeq(s, o + 1, o + k) \in Seq(Nat) /\ Len(SubSeq(s, o + 1, o + k)) = k
         /\ \A j \in 1 .. k : SubSeq(s, o + 1, o + k)[j] = s[o + j]
  <1> DEFINE e == [j \in 1 .. k |-> s[o + j]]
  <1>1. SubSeq(s, o + 1, o + k) = e
    BY Slice
  <1>2. \A j \in 1 .. k : s[o + j] \in Nat
    OBVIOUS
  <1>3. e \in Seq(Nat) /\ Len(e) = k
    BY <1>2
  <1>4. QED
    BY <1>1, <1>3

(* What stands behind a place of a sequence, and windows of it.             *)
LEMMA Behind ==
  ASSUME NEW s \in Seq(Nat), NEW i \in 0 .. Len(s)
  PROVE  LET t == SubSeq(s, i + 1, Len(s)) IN
         /\ t \in Seq(Nat) /\ Len(t) = Len(s) - i
         /\ \A j \in 1 .. Len(t) : t[j] = s[i + j]
         /\ \A o, k \in Nat : o + k <= Len(t) => SubSeq(t, o + 1, o + k) = SubSeq(s, i + o + 1, i + o + k)
  <1> DEFINE n == Len(s) - i  t == SubSeq(s, i + 1, Len(s))
  <1>1. n \in Nat /\ i \in Nat /\ i + n = Len(s) /\ i + n <= Len(s)
    OBVIOUS
  <1> HIDE DEF n
  <1>2. t = SubSeq(s, i + 1, i + n)
    BY <1>1
  <1> HIDE DEF t
  <1>3. t \in Seq(Nat) /\ Len(t) = n /\ \A j \in 1 .. n : t[j] = s[i + j]
    BY <1>1, <1>2, SliceFacts
  <1>4. ASSUME NEW o \in Nat, NEW k \in Nat, o + k <= n
        PROVE  SubSeq(t, o + 1, o + k) = SubSeq(s, i + o + 1, i + o + k)
    <2>1. SubSeq(t, o + 1, o + k) = [j \in 1 .. k |-> t[o + j]]
      BY <1>3, <1>4, Slice
    <2>2. i + o \in Nat /\ (i + o) + k <= Len(s)
      BY <1>1, <1>4
    <2>3. SubSeq(s, (i + o) + 1, (i + o) + k) = [j \in 1 .. k |-> s[(i + o) + j]]
      BY <2>2, Slice
    <2>4. ASSUME NEW j \in 1 .. k PROVE t[o + j] = s[(i + o) + j]
      <3>1. o + j \in 1 .. n /\ i + (o + j) = (i + o) + j
        BY <1>1, <1>4
      <3>2. QED
        BY <1>3, <3>1
    <2>5. QED
      BY <2>1, <2>3, <2>4
  <1>5. QED
    BY <1>3, <1>4 DEF n, t

LEMMA PrefixFacts ==
  ASSUME NEW s \in Seq(Nat), NEW t \in Seq(Nat), IsPrefix(s, t)
  PROVE  Len(s) <= Len(t) /\ \A j \in 1 .. Len(s) : t[j] = s[j]
  <1>1. Len(s) <= Len(t) /\ SubSeq(s, 1, Len(s)) = SubSeq(t, 1, Len(s))
    BY DEF IsPrefix
  <1>2. Len(s) \in Nat /\ Len(t) \in Nat
    OBVIOUS
  <1>3. SubSeq(s, 0 + 1, 0 + Len(s)) = SubSeq(t, 0 + 1, 0 + Len(s))
    BY <1>1, <1>2
  <1>4. ASSUME NEW j \in 1 .. Len(s) PROVE t[j] = s[j]
    <2>1. SubSeq(s, 0 + 1, 0 + Len(s))[j] = s[0 + j] /\ 0 + Len(s) <= Len(s)
      BY <1>2, SliceFacts
    <2>2. SubSeq(t, 0 + 1, 0 + Len(s))[j] = t[0 + j] /\ 0 + Len(s) <= Len(t)
      BY <1>1, <1>2, SliceFacts
    <2>3. 0 + j = j
      OBVIOUS
    <2>4. QED
      BY <1>3, <2>1, <2>2, <2>3
  <1>5. QED
    BY <1>1, <1>4

LEMMA Joined ==
  ASSUME NEW u \in Seq(Nat), NEW w \in Seq(Nat)
  PROVE  /\ u \o w \in Seq(Nat) /\ Len(u \o w) = Len(u) + Len(w)
         /\ \A j \in 1 .. Len(u) : (u \o w)[j] = u[j]
         /\ \A j \in 1 .. Len(w) : (u \o w)[Len(u) + j] = w[j]
         /\ SubSeq(u \o w, 1, Len(u)) = u
         /\ SubSeq(u \o w, Len(u) + 1, Len(u) + Len(w)) = w
  <1> DEFINE s == u \o w
  <1>1. s \in Seq(Nat) /\ Len(s) = Len(u) + Len(w) /\ Len(u) \in Nat /\ Len(w) \in Nat
    OBVIOUS
  <1>2. \A j \in 1 .. Len(u) : s[j] = u[j]
    OBVIOUS
  <1>3. \A j \in 1 .. Len(w) : s[Len(u) + j] = w[j]
    OBVIOUS
  <1> HIDE DEF s
  <1>4. SubSeq(s, 1, Len(u)) = u
    <2>1. SubSeq(s, 0 + 1, 0 + Len(u)) = [j \in 1 .. Len(u) |-> s[0 + j]]
      BY <1>1, Slice
    <2>2. u = [j \in 1 .. Len(u) |-> u[j]]
      BY ByElements
    <2>3. [j \in 1 .. Len(u) |-> s[0 + j]] = [j \in 1 .. Len(u) |-> u[j]]
      <3>1. \A j \in 1 .. Len(u) : s[0 + j] = u[j]
        BY <1>1, <1>2
      <3>2. QED
        BY ONLY <3>1
    <2>4. 0 + Len(u) = Len(u) /\ 0 + 1 = 1
      BY <1>1
    <2>5. SubSeq(s, 1, Len(u)) = [j \in 1 .. Len(u) |-> u[j]]
      BY ONLY <2>1, <2>3, <2>4
    <2>6. QED
      BY ONLY <2>2, <2>5
  <1>5. SubSeq(s, Len(u) + 1, Len(u) + Len(w)) = w
    <2>1. SubSeq(s, Len(u) + 1, Len(u) + Len(w)) = [j \in 1 .. Len(w) |-> s[Len(u) + j]]
      BY <1>1, Slice, SMTT(30)
    <2>2. w = [j \in 1 .. Len(w) |-> w[j]]
      BY ByElements
    <2>3. [j \in 1 .. Len(w) |-> s[Len(u) + j]] = [j \in 1 .. Len(w) |-> w[j]]
      BY ONLY <1>3
    <2>4. QED
      BY ONLY <2>1, <2>2, <2>3
  <1>6. QED
    BY <1>1, <1>2, <1>3, <1>4, <1>5 DEF s

LEMMA Pair ==
  ASSUME NEW a \in Nat, NEW b \in Nat
  PROVE  /\ <<a, b>> \in Seq(Nat) /\ Len(<<a, b>>) = 2 /\ <<a, b>>[1] = a /\ <<a, b>>[2] = b
         /\ <<a, b>> # <<>>
  OBVIOUS

LEMMA One == \A v \in Seq(Nat) : Len(v) = 1 => <<v[1]>> = v
  <1>1. ASSUME NEW v \in Seq(Nat), Len(v) = 1 PROVE <<v[1]>> = v
    BY <1>1
  <1>2. QED
    BY <1>1

LEMMA Two == \A v \in Seq(Nat) : Len(v) = 2 => <<v[1], v[2]>> = v
  <1>1. ASSUME NEW v \in Seq(Nat), Len(v) = 2 PROVE <<v[1], v[2]>> = v
    BY <1>1
  <1>2. QED
    BY <1>1

LEMMA Four == \A v \in Seq(Nat) : Len(v) = 4 => <<v[1], v[2]>> \o <<v[3], v[4]>> = v
  <1>1. ASSUME NEW v \in Seq(Nat), Len(v) = 4 PROVE <<v[1], v[2]>> \o <<v[3], v[4]>> = v
    <2> DEFINE u == <<v[1], v[2]>>  w == <<v[3], v[4]>>  s == u \o w
    <2>1. v[1] \in Nat /\ v[2] \in Nat /\ v[3] \in Nat /\ v[4] \in Nat
      <3>1. \A i \in 1 .. 4 : v[i] \in Nat
        BY ONLY <1>1, Elements, Zenon
      <3>2. 1 \in 1 .. 4 /\ 2 \in 1 .. 4 /\ 3 \in 1 .. 4 /\ 4 \in 1 .. 4
        OBVIOUS
      <3>3. QED
        BY ONLY <3>1, <3>2
    <2>2. u \in Seq(Nat) /\ w \in Seq(Nat) /\ Len(u) = 2 /\ Len(w) = 2
      BY <2>1
    <2>3. u[1] = v[1] /\ u[2] = v[2] /\ w[1] = v[3] /\ w[2] = v[4]
      OBVIOUS
    <2> HIDE DEF u, w
    <2>4. /\ s \in Seq(Nat) /\ Len(s) = 4 /\ s[1] = u[1] /\ s[2] = u[2]
          /\ s[2 + 1] = w[1] /\ s[2 + 2] = w[2]
      <3>1. /\ u \o w \in Seq(Nat) /\ Len(u \o w) = Len(u) + Len(w)
            /\ \A j \in 1 .. Len(u) : (u \o w)[j] = u[j]
            /\ \A j \in 1 .. Len(w) : (u \o w)[Len(u) + j] = w[j]
        BY ONLY <2>2, Joined, Zenon
      <3>2. 1 \in 1 .. 2 /\ 2 \in 1 .. 2 /\ 2 + 2 = 4
        OBVIOUS
      <3>3. QED
        BY ONLY <2>2, <3>1, <3>2
    <2> HIDE DEF s
    <2>5. \A j \in 1 .. 4 : s[j] = v[j]
      BY ONLY <2>3, <2>4, SMTT(30)
    <2>6. s = [j \in 1 .. 4 |-> s[j]] /\ v = [j \in 1 .. 4 |-> v[j]]
      BY <1>1, <2>4, ByElements
    <2>7. s = v
      BY ONLY <2>5, <2>6
    <2>8. QED
      BY <2>7 DEF s, u, w
  <1>2. QED
    BY <1>1

(* What the window of a field's width holds.                                *)
LEMMA Window ==
  ASSUME NEW t \in Seq(Nat), NEW n \in Nat, n <= Len(t)
  PROVE  /\ SubSeq(t, 1, n) \in Seq(Nat) /\ Len(SubSeq(t, 1, n)) = n
         /\ \A j \in 1 .. n : SubSeq(t, 1, n)[j] = t[j]
  <1>1. 0 + n <= Len(t) /\ 0 + 1 = 1 /\ 0 + n = n
    OBVIOUS
  <1>2. /\ SubSeq(t, 0 + 1, 0 + n) \in Seq(Nat) /\ Len(SubSeq(t, 0 + 1, 0 + n)) = n
        /\ \A j \in 1 .. n : SubSeq(t, 0 + 1, 0 + n)[j] = t[0 + j]
    BY <1>1, SliceFacts
  <1>3. \A j \in 1 .. n : 0 + j = j
    OBVIOUS
  <1>4. QED
    BY <1>1, <1>2, <1>3

--------------------------------------------------------------------------------
(* Induction, for a set of numbers, and what it gives.                      *)
LEMMA SetInduction ==
  ASSUME NEW S \in SUBSET Nat, 0 \in S, \A n \in S : n + 1 \in S
  PROVE  S = Nat
  <1> DEFINE R == Nat \ S
  <1>1. SUFFICES ASSUME R # {} PROVE FALSE
    OBVIOUS
  <1>2. R \in SUBSET Nat
    OBVIOUS
  <1> HIDE DEF R
  <1>3. \E x \in R : \A y \in R : ~(<<y, x>> \in OpToRel(<, Nat))
    BY <1>1, <1>2, WFMin, NatLessThanWellFounded, Zenon
  <1>4. PICK x \in R : \A y \in R : ~(<<y, x>> \in {ss \in Nat \X Nat : ss[1] < ss[2]})
    BY <1>3, Zenon DEF OpToRel
  <1>5. x \in Nat /\ x \notin S /\ x # 0
    BY <1>2 DEF R
  <1>6. x - 1 \in Nat /\ x - 1 < x
    BY <1>5
  <1>7. x - 1 \notin R
    <2>1. <<x - 1, x>> \in {ss \in Nat \X Nat : ss[1] < ss[2]}
      BY <1>5, <1>6
    <2>2. QED
      BY <1>4, <2>1
  <1>8. x - 1 \in S
    BY <1>6, <1>7 DEF R
  <1>9. (x - 1) + 1 \in S
    BY <1>8
  <1>10. QED
    BY <1>5, <1>9

(* What the first value has and a step keeps, every value has.              *)
LEMMA Climb ==
  ASSUME NEW m \in Nat, NEW e, NEW X, e[0] \in X,
         \A j \in 0 .. (m - 1) : e[j] \in X => e[j + 1] \in X
  PROVE  \A j \in 0 .. m : e[j] \in X
  <1> DEFINE S == {j \in Nat : j <= m => e[j] \in X}
  <1>1. 0 \in S
    OBVIOUS
  <1>2. ASSUME NEW j \in S PROVE j + 1 \in S
    OBVIOUS
  <1>3. S \in SUBSET Nat
    OBVIOUS
  <1> HIDE DEF S
  <1>4. S = Nat
    BY <1>1, <1>2, <1>3, SetInduction
  <1>5. QED
    BY <1>4 DEF S

(* A function of the numbers up to m is defined by its steps.               *)
LEMMA Recursion ==
  ASSUME NEW a \in Int, NEW g \in [Nat \X Int -> Int], NEW m \in Nat
  PROVE  \E f \in [0 .. m -> Int] : f[0] = a /\ \A j \in 0 .. (m - 1) : f[j + 1] = g[<<j, f[j]>>]
  <1> DEFINE Built(n, f) == f[0] = a /\ \A j \in 0 .. (n - 1) : f[j + 1] = g[<<j, f[j]>>]
             S == {n \in Nat : \E f \in [0 .. n -> Int] : Built(n, f)}
  <1>1. 0 \in S
    <2>1. [j \in 0 .. 0 |-> a] \in [0 .. 0 -> Int] /\ Built(0, [j \in 0 .. 0 |-> a])
      OBVIOUS
    <2>2. QED
      BY <2>1
  <1>2. ASSUME NEW n \in S PROVE n + 1 \in S
    <2>1. PICK f \in [0 .. n -> Int] : Built(n, f)
      OBVIOUS
    <2> DEFINE e == [j \in 0 .. (n + 1) |-> IF j = n + 1 THEN g[<<n, f[n]>>] ELSE f[j]]
    <2>2. n \in Nat /\ f[n] \in Int /\ g[<<n, f[n]>>] \in Int
      <3>1. n \in Nat /\ f[n] \in Int
        OBVIOUS
      <3>2. <<n, f[n]>> \in Nat \X Int
        BY <3>1
      <3>3. QED
        BY <3>1, <3>2
    <2>3. e \in [0 .. (n + 1) -> Int]
      BY <2>2
    <2>4. Built(n + 1, e)
      <3>1. e[0] = a
        BY <2>1, <2>2
      <3>2. ASSUME NEW j \in 0 .. n PROVE e[j + 1] = g[<<j, e[j]>>]
        <4>1. e[j] = f[j] /\ j + 1 \in 0 .. (n + 1)
          BY <2>2
        <4>2. CASE j = n
          BY <2>2, <4>1, <4>2
        <4>3. CASE j # n
          <5>1. j \in 0 .. (n - 1) /\ j + 1 # n + 1
            BY <2>2, <4>3
          <5>2. f[j + 1] = g[<<j, f[j]>>]
            BY <2>1, <5>1
          <5>3. QED
            BY <4>1, <5>1, <5>2
        <4>4. QED
          BY <4>2, <4>3
      <3>3. (n + 1) - 1 = n
        BY <2>2
      <3> HIDE DEF e
      <3>4. QED
        BY <3>1, <3>2, <3>3
    <2> HIDE DEF e, Built
    <2>5. \E f1 \in [0 .. (n + 1) -> Int] : Built(n + 1, f1)
      BY <2>3, <2>4
    <2>6. QED
      BY <2>2, <2>5
  <1>3. S \in SUBSET Nat
    OBVIOUS
  <1> HIDE DEF S
  <1>4. m \in S
    BY <1>1, <1>2, <1>3, SetInduction
  <1>5. QED
    BY <1>4 DEF S

(* Decimal numbers: what the loop over the digits computes.                 *)
Accumulates(s, acc) ==
  /\ acc \in [0 .. Len(s) -> Int] /\ acc[0] = 0
  /\ \A j \in 0 .. (Len(s) - 1) : acc[j + 1] = 10 * acc[j] + s[j + 1] - 48

LEMMA NumberAccumulates ==
  ASSUME NEW s \in Seq(Nat)
  PROVE  \E acc : Accumulates(s, acc) /\ Number(s) = acc[Len(s)]
  <1> DEFINE n == Len(s)
             g == [x \in Nat \X Int |->
                     IF x[1] \in 0 .. (n - 1) THEN 10 * x[2] + s[x[1] + 1] - 48 ELSE 0]
             acc[k \in 0 .. n] == IF k = 0 THEN 0 ELSE 10 * acc[k - 1] + s[k] - 48
  <1>1. n \in Nat /\ \A j \in 0 .. (n - 1) : s[j + 1] \in Int
    OBVIOUS
  <1>2. g \in [Nat \X Int -> Int] /\ 0 \in Int
    <2>1. ASSUME NEW x \in Nat \X Int, x[1] \in 0 .. (n - 1)
          PROVE  10 * x[2] + s[x[1] + 1] - 48 \in Int
      <3>1. x[2] \in Int /\ s[x[1] + 1] \in Int
        BY <1>1, <2>1
      <3>2. QED
        BY <3>1
    <2>2. QED
      BY <2>1
  <1> HIDE DEF n
  <1>3. PICK f \in [0 .. n -> Int] : f[0] = 0 /\ \A j \in 0 .. (n - 1) : f[j + 1] = g[<<j, f[j]>>]
    <2> HIDE DEF g
    <2>1. QED
      BY <1>1, <1>2, Recursion, Zenon
  <1>4. ASSUME NEW j \in 0 .. (n - 1) PROVE f[j + 1] = 10 * f[j] + s[j + 1] - 48
    <2>1. f[j] \in Int /\ <<j, f[j]>> \in Nat \X Int
      BY <1>1
    <2>2. g[<<j, f[j]>>] = 10 * f[j] + s[j + 1] - 48
      BY <2>1
    <2>3. QED
      BY <1>3, <2>2
  <1>5. f = [k \in 0 .. n |-> IF k = 0 THEN 0 ELSE 10 * f[k - 1] + s[k] - 48]
    <2>1. ASSUME NEW k \in 0 .. n PROVE f[k] = IF k = 0 THEN 0 ELSE 10 * f[k - 1] + s[k] - 48
      <3>1. CASE k = 0
        BY <1>3, <3>1
      <3>2. CASE k # 0
        <4>1. k - 1 \in 0 .. (n - 1) /\ (k - 1) + 1 = k
          BY <1>1, <3>2
        <4>2. f[(k - 1) + 1] = 10 * f[k - 1] + s[(k - 1) + 1] - 48
          BY <1>4, <4>1
        <4>3. QED
          BY <3>2, <4>1, <4>2
      <3>3. QED
        BY <3>1, <3>2
    <2>2. QED
      BY <1>3, <2>1
  <1>6. acc = [k \in 0 .. n |-> IF k = 0 THEN 0 ELSE 10 * acc[k - 1] + s[k] - 48]
    BY <1>5, Zenon DEF acc
  <1>7. Number(s) = acc[n]
    BY DEF Number, n
  <1> HIDE DEF acc
  <1>8. acc[0] = 0 /\ \A j \in 0 .. (n - 1) : acc[j + 1] = 10 * acc[j] + s[j + 1] - 48
    <2>1. acc[0] = 0
      BY <1>1, <1>6
    <2>2. ASSUME NEW j \in 0 .. (n - 1) PROVE acc[j + 1] = 10 * acc[j] + s[j + 1] - 48
      <3>1. j + 1 \in 0 .. n /\ j + 1 # 0 /\ (j + 1) - 1 = j
        BY <1>1
      <3>2. acc[j + 1] = 10 * acc[(j + 1) - 1] + s[j + 1] - 48
        BY <1>6, <3>1
      <3>3. QED
        BY <3>1, <3>2
    <2>3. QED
      BY <2>1, <2>2
  <1>9. \A j \in 0 .. n : acc[j] \in Int
    <2>1. ASSUME NEW j \in 0 .. (n - 1), acc[j] \in Int PROVE acc[j + 1] \in Int
      <3>1. s[j + 1] \in Int
        BY <1>1
      <3>2. QED
        BY <1>8, <2>1, <3>1, SMTT(30)
    <2>2. acc[0] \in Int
      BY <1>8
    <2>3. QED
      BY <1>1, <2>1, <2>2, Climb
  <1>10. acc \in [0 .. n -> Int]
    BY <1>6, <1>9
  <1>11. QED
    BY <1>7, <1>8, <1>10 DEF Accumulates, n

(* A run of digits is a natural number, of four digits one below 10000.     *)
LEMMA NumberBound ==
  ASSUME NEW s \in Seq(Nat), AllDigits(s)
  PROVE  /\ Number(s) \in Nat
         /\ Len(s) \in 1 .. 4 => Number(s) < Power[5]
         /\ Len(s) = 6 => Number(s) < Power[7]
  <1> DEFINE n == Len(s)
  <1>1. PICK acc : Accumulates(s, acc) /\ Number(s) = acc[n]
    BY NumberAccumulates
  <1>2. n \in Nat /\ \A j \in 0 .. (n - 1) : s[j + 1] \in 48 .. 57
    <2>1. \A j \in 0 .. (n - 1) : j + 1 \in DOMAIN s
      OBVIOUS
    <2>2. QED
      BY <2>1 DEF AllDigits, Digits
  <1> HIDE DEF n
  <1>3. ASSUME NEW j \in 0 .. (n - 1), NEW m \in Nat, acc[j] \in Nat, acc[j] <= m
        PROVE  acc[j + 1] \in Nat /\ acc[j + 1] <= 10 * m + 9
    <2>1. acc[j + 1] = 10 * acc[j] + s[j + 1] - 48
      BY <1>1 DEF Accumulates, n
    <2>2. s[j + 1] \in 48 .. 57
      BY <1>2
    <2>3. ASSUME NEW x \in Nat, x <= m, NEW d \in 48 .. 57
          PROVE  10 * x + d - 48 \in Nat /\ 10 * x + d - 48 <= 10 * m + 9
      BY ONLY <2>3, m \in Nat
    <2>4. QED
      BY ONLY <1>3, <2>1, <2>2, <2>3, Zenon
  <1>4. acc[0] \in Nat /\ acc[0] <= 0
    BY <1>1 DEF Accumulates
  <1>5. acc[n] \in Nat
    <2>1. ASSUME NEW j \in 0 .. (n - 1), acc[j] \in Nat PROVE acc[j + 1] \in Nat
      <3>1. acc[j] <= acc[j]
        BY <2>1
      <3>2. QED
        BY <1>3, <2>1, <3>1
    <2>2. acc[0] \in Nat
      BY <1>4
    <2>3. \A j \in 0 .. n : acc[j] \in Nat
      BY <1>2, <2>1, <2>2, Climb
    <2>4. QED
      BY <1>2, <2>3
  <1>6. n >= 1 => acc[1] \in Nat /\ acc[1] <= 9
    <2>1. n >= 1 => 0 \in 0 .. (n - 1)
      BY <1>2
    <2>2. QED
      BY <1>3, <1>4, <2>1
  <1>7. n >= 2 => acc[2] \in Nat /\ acc[2] <= 99
    <2>1. n >= 2 => 1 \in 0 .. (n - 1) /\ n >= 1
      BY <1>2
    <2>2. QED
      BY <1>3, <1>6, <2>1
  <1>8. n >= 3 => acc[3] \in Nat /\ acc[3] <= 999
    <2>1. n >= 3 => 2 \in 0 .. (n - 1) /\ n >= 2
      BY <1>2
    <2>2. QED
      BY <1>3, <1>7, <2>1
  <1>9. n >= 4 => acc[4] \in Nat /\ acc[4] <= 9999
    <2>1. n >= 4 => 3 \in 0 .. (n - 1) /\ n >= 3
      BY <1>2
    <2>2. QED
      BY <1>3, <1>8, <2>1
  <1>10. n >= 5 => acc[5] \in Nat /\ acc[5] <= 99999
    <2>1. n >= 5 => 4 \in 0 .. (n - 1) /\ n >= 4
      BY <1>2
    <2>2. QED
      BY <1>3, <1>9, <2>1
  <1>11. n >= 6 => acc[6] \in Nat /\ acc[6] <= 999999
    <2>1. n >= 6 => 5 \in 0 .. (n - 1) /\ n >= 5
      BY <1>2
    <2>2. QED
      BY <1>3, <1>10, <2>1
  <1>12. n \in 1 .. 4 => acc[n] \in Nat /\ acc[n] <= 9999
    <2>1. n \in 1 .. 4 => n \in {1, 2, 3, 4}
      OBVIOUS
    <2>2. QED
      BY <1>6, <1>7, <1>8, <1>9, <2>1
  <1>13. n = 6 => acc[n] \in Nat /\ acc[n] <= 999999
    BY <1>11
  <1>14. Power[5] = 10000 /\ Power[7] = 1000000
    BY DEF Power
  <1>15. QED
    BY <1>1, <1>5, <1>12, <1>13, <1>14 DEF n

(* The numeral of a number has its value.                                   *)
LEMMA NumeralDigits ==
  ASSUME NEW n \in Nat, NEW k \in 0 .. 8
  PROVE  /\ Numeral(n, k) \in Seq(Nat) /\ Len(Numeral(n, k)) = k /\ AllDigits(Numeral(n, k))
         /\ \A j \in 1 .. k : Numeral(n, k)[j] = 48 + ((n \div Power[k + 1 - j]) % 10)
  <1>1. ASSUME NEW j \in 1 .. k PROVE 48 + ((n \div Power[k + 1 - j]) % 10) \in 48 .. 57
    <2>1. k + 1 - j \in {1, 2, 3, 4, 5, 6, 7, 8}
      OBVIOUS
    <2>2. Power[k + 1 - j] \in Nat \ {0}
      BY <2>1 DEF Power
    <2>3. \A m \in Nat \ {0} : (n \div m) \in Nat
      BY Z3
    <2>4. n \div Power[k + 1 - j] \in Nat
      BY <2>2, <2>3
    <2>5. \A x \in Nat : x % 10 \in 0 .. 9
      OBVIOUS
    <2>6. QED
      BY <2>4, <2>5
  <1>2. \A j \in 1 .. k : 48 + ((n \div Power[k + 1 - j]) % 10) \in Nat
    BY <1>1
  <1>3. /\ Numeral(n, k) \in Seq(Nat) /\ Len(Numeral(n, k)) = k
        /\ \A j \in 1 .. k : Numeral(n, k)[j] = 48 + ((n \div Power[k + 1 - j]) % 10)
    BY <1>2 DEF Numeral
  <1>4. DOMAIN Numeral(n, k) = 1 .. k
    BY DEF Numeral
  <1>5. QED
    BY <1>1, <1>3, <1>4 DEF AllDigits, Digits

LEMMA Quotients ==
  ASSUME NEW n \in Nat
  PROVE  /\ n = 10 * (n \div 10) + (n % 10)
         /\ n \div 10 = 10 * (n \div 100) + ((n \div 10) % 10)
         /\ n \div 100 = 10 * (n \div 1000) + ((n \div 100) % 10)
         /\ n \div 1000 = 10 * (n \div 10000) + ((n \div 1000) % 10)
         /\ n \div 10000 = 10 * (n \div 100000) + ((n \div 10000) % 10)
         /\ n \div 100000 = 10 * (n \div 1000000) + ((n \div 100000) % 10)
         /\ n \div 1000000 = 10 * (n \div 10000000) + ((n \div 1000000) % 10)
  <1>1. n = 10 * (n \div 10) + (n % 10)
    OBVIOUS
  <1>2. n \div 10 = 10 * (n \div 100) + ((n \div 10) % 10)
    OBVIOUS
  <1>3. n \div 100 = 10 * (n \div 1000) + ((n \div 100) % 10)
    OBVIOUS
  <1>4. n \div 1000 = 10 * (n \div 10000) + ((n \div 1000) % 10)
    OBVIOUS
  <1>5. n \div 10000 = 10 * (n \div 100000) + ((n \div 10000) % 10)
    OBVIOUS
  <1>6. n \div 100000 = 10 * (n \div 1000000) + ((n \div 100000) % 10)
    OBVIOUS
  <1>7. n \div 1000000 = 10 * (n \div 10000000) + ((n \div 1000000) % 10)
    OBVIOUS
  <1>8. QED
    BY <1>1, <1>2, <1>3, <1>4, <1>5, <1>6, <1>7

LEMMA Powers ==
  ASSUME NEW n \in Nat, NEW k \in 1 .. 8
  PROVE  /\ Power[k] \in Nat \ {0} /\ n \div Power[k] \in Nat
         /\ n < Power[k + 1] => (n \div Power[k]) % 10 = n \div Power[k]
         /\ k < 8 => n \div Power[k] = 10 * (n \div Power[k + 1]) + ((n \div Power[k]) % 10)
  <1>1. k \in {1, 2, 3, 4, 5, 6, 7, 8}
    OBVIOUS
  <1>2. CASE k = 1
    <2>1. Power[k] = 1 /\ Power[k + 1] = 10
      BY <1>2 DEF Power
    <2>2. n \div 1 = n
      OBVIOUS
    <2>3. QED
      BY <1>2, <2>1, <2>2, Quotients
  <1>3. CASE k = 2
    <2>1. Power[k] = 10 /\ Power[k + 1] = 100
      BY <1>3 DEF Power
    <2>2. n \div 10 \in Nat /\ (n < 100 => n \div 10 \in 0 .. 9)
      OBVIOUS
    <2>3. QED
      BY <1>3, <2>1, <2>2, Quotients
  <1>4. CASE k = 3
    <2>1. Power[k] = 100 /\ Power[k + 1] = 1000
      BY <1>4 DEF Power
    <2>2. n \div 100 \in Nat /\ (n < 1000 => n \div 100 \in 0 .. 9)
      OBVIOUS
    <2>3. QED
      BY <1>4, <2>1, <2>2, Quotients
  <1>5. CASE k = 4
    <2>1. Power[k] = 1000 /\ Power[k + 1] = 10000
      BY <1>5 DEF Power
    <2>2. n \div 1000 \in Nat /\ (n < 10000 => n \div 1000 \in 0 .. 9)
      OBVIOUS
    <2>3. QED
      BY <1>5, <2>1, <2>2, Quotients
  <1>6. CASE k = 5
    <2>1. Power[k] = 10000 /\ Power[k + 1] = 100000
      BY <1>6 DEF Power
    <2>2. n \div 10000 \in Nat /\ (n < 100000 => n \div 10000 \in 0 .. 9)
      OBVIOUS
    <2>3. QED
      BY <1>6, <2>1, <2>2, Quotients
  <1>7. CASE k = 6
    <2>1. Power[k] = 100000 /\ Power[k + 1] = 1000000
      BY <1>7 DEF Power
    <2>2. n \div 100000 \in Nat /\ (n < 1000000 => n \div 100000 \in 0 .. 9)
      OBVIOUS
    <2>3. QED
      BY <1>7, <2>1, <2>2, Quotients
  <1>8. CASE k = 7
    <2>1. Power[k] = 1000000 /\ Power[k + 1] = 10000000
      BY <1>8 DEF Power
    <2>2. n \div 1000000 \in Nat /\ (n < 10000000 => n \div 1000000 \in 0 .. 9)
      OBVIOUS
    <2>3. QED
      BY <1>8, <2>1, <2>2, Quotients
  <1>9. CASE k = 8
    <2>1. Power[k] = 10000000 /\ Power[k + 1] = 100000000
      BY <1>9 DEF Power
    <2>2. n \div 10000000 \in Nat /\ (n < 100000000 => n \div 10000000 \in 0 .. 9)
      OBVIOUS
    <2>3. QED
      BY <1>9, <2>1, <2>2
  <1>10. QED
    BY <1>1, <1>2, <1>3, <1>4, <1>5, <1>6, <1>7, <1>8, <1>9

LEMMA NumeralValue ==
  ASSUME NEW n \in Nat, NEW k \in 1 .. 8, n < Power[k + 1]
  PROVE  Number(Numeral(n, k)) = n
  <1> DEFINE s == Numeral(n, k)
             q(j) == n \div Power[k - j]
  <1>1. /\ s \in Seq(Nat) /\ Len(s) = k
        /\ \A j \in 1 .. k : s[j] = 48 + ((n \div Power[k + 1 - j]) % 10)
    <2>1. k \in 0 .. 8
      OBVIOUS
    <2>2. QED
      BY <2>1, NumeralDigits
  <1>2. PICK acc : Accumulates(s, acc) /\ Number(s) = acc[Len(s)]
    BY <1>1, NumberAccumulates
  <1> HIDE DEF s
  <1>3. ASSUME NEW j \in 0 .. (k - 1)
        PROVE  /\ acc[j + 1] = 10 * acc[j] + (q(j) % 10) /\ q(j) \in Nat /\ acc[j] \in Int
               /\ j + 1 < k => q(j + 1) = 10 * q(j) + (q(j + 1) % 10)
    <2>1. j + 1 \in 1 .. k /\ k + 1 - (j + 1) = k - j /\ k - j \in 1 .. 8 /\ j \in 0 .. k
      OBVIOUS
    <2>2. s[j + 1] = 48 + (q(j) % 10) /\ q(j) \in Nat
      BY <1>1, <2>1, Powers
    <2>3. acc[j + 1] = 10 * acc[j] + s[j + 1] - 48 /\ acc[j] \in Int
      BY <1>1, <1>2, <2>1 DEF Accumulates
    <2>4. ASSUME j + 1 < k PROVE q(j + 1) = 10 * q(j) + (q(j + 1) % 10)
      <3>1. k - (j + 1) \in 1 .. 8 /\ k - (j + 1) < 8 /\ (k - (j + 1)) + 1 = k - j
        BY <2>4
      <3>2. n \div Power[k - (j + 1)]
              = 10 * (n \div Power[(k - (j + 1)) + 1]) + ((n \div Power[k - (j + 1)]) % 10)
        BY <3>1, Powers
      <3>3. QED
        BY <3>1, <3>2
    <2> HIDE DEF q
    <2>5. QED
      BY <2>2, <2>3, <2>4
  <1>4. acc[1] = q(0)
    <2>1. acc[0] = 0 /\ 0 \in 0 .. (k - 1) /\ k - 0 = k
      BY <1>2 DEF Accumulates
    <2>2. q(0) % 10 = q(0)
      BY <2>1, Powers
    <2>3. acc[0 + 1] = 10 * acc[0] + (q(0) % 10) /\ q(0) \in Nat
      BY <1>3, <2>1
    <2> HIDE DEF q
    <2>4. QED
      BY <2>1, <2>2, <2>3
  <1> DEFINE e == [j \in 0 .. (k - 1) |-> acc[j + 1] - q(j)]
  <1>5. \A j \in 0 .. (k - 1) : e[j] \in {0}
    <2>1. k - 1 \in Nat
      OBVIOUS
    <2>2. e[0] \in {0}
      <3>1. 0 \in 0 .. (k - 1) /\ q(0) \in Nat
        BY <1>3
      <3> HIDE DEF q
      <3>2. QED
        BY <1>4, <3>1
    <2>3. ASSUME NEW j \in 0 .. ((k - 1) - 1), e[j] \in {0} PROVE e[j + 1] \in {0}
      <3>1. j \in 0 .. (k - 1) /\ j + 1 \in 0 .. (k - 1) /\ j + 1 < k
        OBVIOUS
      <3>2. /\ acc[(j + 1) + 1] = 10 * acc[j + 1] + (q(j + 1) % 10) /\ acc[j + 1] \in Int
            /\ q(j) \in Nat /\ q(j + 1) \in Nat /\ q(j + 1) = 10 * q(j) + (q(j + 1) % 10)
        BY <1>3, <3>1
      <3> HIDE DEF q
      <3>3. acc[j + 1] = q(j)
        BY <2>3, <3>1, <3>2
      <3>4. acc[(j + 1) + 1] = q(j + 1)
        BY <3>2, <3>3
      <3>5. QED
        BY <3>1, <3>2, <3>4
    <2> HIDE DEF e
    <2>4. QED
      BY <2>1, <2>2, <2>3, Climb
  <1>6. k - 1 \in 0 .. (k - 1) /\ k - (k - 1) = 1 /\ (k - 1) + 1 = k /\ k - 1 + 1 = k
    OBVIOUS
  <1>7. q(k - 1) = n
    <2>1. Power[1] = 1 /\ n \div 1 = n
      BY DEF Power
    <2>2. QED
      BY <1>6, <2>1
  <1>8. acc[k] - q(k - 1) = 0
    BY <1>5, <1>6
  <1>9. acc[k] \in Int
    BY <1>1, <1>2 DEF Accumulates
  <1> HIDE DEF q, e
  <1>10. QED
    BY <1>1, <1>2, <1>7, <1>8, <1>9 DEF s

(* Two numerals in a row are a date and a time.                             *)
LEMMA PackNumerals ==
  ASSUME NEW century \in Nat, NEW m \in {6, 8}, NEW a \in Nat, a < Power[m + 1], NEW b \in Nat,
         b < Power[7]
  PROVE  Pack(century, Numeral(a, m) \o Numeral(b, 6)) = {<<Power[7] * century + a, b>>}
  <1> DEFINE u == Numeral(a, m)  w == Numeral(b, 6)  s == u \o w
  <1>1. /\ u \in Seq(Nat) /\ Len(u) = m /\ AllDigits(u)
        /\ w \in Seq(Nat) /\ Len(w) = 6 /\ AllDigits(w)
    <2>1. m \in 0 .. 8 /\ 6 \in 0 .. 8 /\ b \in Nat
      OBVIOUS
    <2>2. QED
      BY <2>1, NumeralDigits
  <1>2. Number(u) = a /\ Number(w) = b
    <2>1. m \in 1 .. 8 /\ 6 \in 1 .. 8 /\ 6 + 1 = 7
      OBVIOUS
    <2>2. QED
      BY <2>1, NumeralValue
  <1> HIDE DEF u, w
  <1>3. /\ s \in Seq(Nat) /\ Len(s) = m + 6
        /\ \A j \in 1 .. m : s[j] = u[j]
        /\ \A j \in 1 .. 6 : s[m + j] = w[j]
        /\ SubSeq(s, 1, m) = u /\ SubSeq(s, m + 1, m + 6) = w
    <2>1. /\ u \o w \in Seq(Nat) /\ Len(u \o w) = Len(u) + Len(w)
          /\ \A j \in 1 .. Len(u) : (u \o w)[j] = u[j]
          /\ \A j \in 1 .. Len(w) : (u \o w)[Len(u) + j] = w[j]
          /\ SubSeq(u \o w, 1, Len(u)) = u
          /\ SubSeq(u \o w, Len(u) + 1, Len(u) + Len(w)) = w
      BY ONLY <1>1, Joined, Zenon
    <2>2. QED
      BY ONLY <1>1, <2>1, Zenon
  <1> HIDE DEF s
  <1>4. AllDigits(s)
    <2>1. DOMAIN u = 1 .. m /\ DOMAIN w = 1 .. 6 /\ DOMAIN s = 1 .. (m + 6)
      BY ONLY <1>1, <1>3, Elements, Zenon
    <2>2. (\A j \in 1 .. m : u[j] \in Digits) /\ (\A j \in 1 .. 6 : w[j] \in Digits)
      BY ONLY <1>1, <2>1 DEF AllDigits
    <2>3. ASSUME NEW i \in 1 .. (m + 6) PROVE s[i] \in Digits
      <3>1. CASE i \in 1 .. m
        BY ONLY <1>3, <2>2, <3>1
      <3>2. CASE i \notin 1 .. m
        <4>1. i - m \in 1 .. 6 /\ m + (i - m) = i
          BY ONLY <3>2, m \in {6, 8}, i \in 1 .. (m + 6)
        <4>2. s[m + (i - m)] \in Digits
          BY ONLY <1>3, <2>2, <4>1
        <4>3. QED
          BY ONLY <4>1, <4>2
      <3>3. QED
        BY <3>1, <3>2
    <2>4. QED
      BY ONLY <2>1, <2>3 DEF AllDigits
  <1>5. Len(s) - 6 = m /\ Len(s) - 5 = m + 1 /\ Len(s) = m + 6
    BY <1>3
  <1>6. Pack(century, s) = {<<Power[7] * century + Number(SubSeq(s, 1, Len(s) - 6)),
                              Number(SubSeq(s, Len(s) - 5, Len(s)))>>}
    BY <1>4 DEF Pack, When
  <1>7. Pack(century, s) = {<<Power[7] * century + Number(u), Number(w)>>}
    BY <1>3, <1>5, <1>6
  <1>8. QED
    BY <1>2, <1>7 DEF s, u, w

--------------------------------------------------------------------------------
(* What each decoder makes of what the issuer writes.                       *)

LEMMA DigitRun ==
  ASSUME NEW c \in Seq(Nat), Len(c) = 4, NEW k \in 1 .. 4,
         \A j \in 1 .. k : c[j] \in Digits, \A i \in (k + 1) .. 4 : c[i] \notin Digits
  PROVE  ParseDecimal(c) = {<<Number(SubSeq(c, 1, k))>>}
  <1> DEFINE run(l) == AllDigits(SubSeq(c, 1, l)) /\ \A i \in (l + 1) .. 4 : c[i] \notin Digits
  <1>1. ParseDecimal(c) = {<<Number(SubSeq(c, 1, l))>> : l \in {l \in 1 .. 4 : run(l)}}
    BY DEF ParseDecimal
  <1>2. ASSUME NEW l \in 1 .. 4
        PROVE  AllDigits(SubSeq(c, 1, l)) <=> \A j \in 1 .. l : c[j] \in Digits
    <2>1. l \in Nat /\ l <= Len(c)
      BY <1>2
    <2>2. /\ SubSeq(c, 1, l) \in Seq(Nat) /\ Len(SubSeq(c, 1, l)) = l
          /\ \A j \in 1 .. l : SubSeq(c, 1, l)[j] = c[j]
      BY <2>1, Window
    <2>3. DOMAIN SubSeq(c, 1, l) = 1 .. l
      BY <2>2
    <2>4. QED
      BY ONLY <2>2, <2>3 DEF AllDigits
  <1>3. run(k)
    BY <1>2
  <1>4. ASSUME NEW l \in 1 .. 4, run(l) PROVE l = k
    <2>1. \A j \in 1 .. l : c[j] \in Digits
      BY <1>2, <1>4
    <2>2. CASE l < k
      <3>1. k \in (l + 1) .. 4 /\ k \in 1 .. k
        BY <2>2
      <3>2. QED
        BY <1>4, <3>1
    <2>3. CASE l > k
      <3>1. k + 1 \in 1 .. l /\ k + 1 \in (k + 1) .. 4
        BY <2>3
      <3>2. QED
        BY <2>1, <3>1
    <2>4. QED
      BY <2>2, <2>3
  <1> HIDE DEF run
  <1>5. {l \in 1 .. 4 : run(l)} = {k}
    BY ONLY <1>3, <1>4, k \in 1 .. 4
  <1>6. QED
    BY ONLY <1>1, <1>5

LEMMA DecimalRead ==
  ASSUME NEW v \in Seq(Nat), NEW t \in Seq(Nat), Decimal(v, t), v[1] < Power[5], 4 <= Len(t)
  PROVE  ParseDecimal(SubSeq(t, 1, 4)) = {v}
  <1> DEFINE c == SubSeq(t, 1, 4)
  <1>1. c \in Seq(Nat) /\ Len(c) = 4 /\ \A j \in 1 .. 4 : c[j] = t[j]
    <2>1. 4 \in Nat
      OBVIOUS
    <2>2. QED
      BY <2>1, Window
  <1>2. v[1] \in Nat /\ Len(v) = 1
    BY DEF Decimal
  <1>3. PICK k \in 1 .. 4 :
          /\ v[1] < Power[k + 1] /\ k < Len(t) /\ IsPrefix(Numeral(v[1], k), t)
          /\ \A i \in (k + 1) .. 4 : i <= Len(t) => t[i] \notin Digits
    BY DEF Decimal
  <1> DEFINE u == Numeral(v[1], k)
  <1>4. u \in Seq(Nat) /\ Len(u) = k /\ AllDigits(u)
    <2>1. k \in 0 .. 8
      OBVIOUS
    <2>2. QED
      BY ONLY <1>2, <2>1, NumeralDigits, Zenon
  <1>5. Number(u) = v[1]
    <2>1. k \in 1 .. 8
      OBVIOUS
    <2>2. QED
      BY <1>2, <1>3, <2>1, NumeralValue
  <1>6. IsPrefix(u, t)
    BY <1>3
  <1> HIDE DEF c, u
  <1>7. \A j \in 1 .. k : u[j] = c[j]
    <2>1. \A j \in 1 .. Len(u) : t[j] = u[j]
      BY ONLY <1>4, <1>6, t \in Seq(Nat), PrefixFacts, Zenon
    <2>2. \A j \in 1 .. k : j \in 1 .. 4
      OBVIOUS
    <2>3. QED
      BY ONLY <1>1, <1>4, <2>1, <2>2
  <1>8. \A j \in 1 .. k : c[j] \in Digits
    <2>1. DOMAIN u = 1 .. k
      BY <1>4
    <2>2. \A j \in 1 .. k : u[j] \in Digits
      BY ONLY <1>4, <2>1 DEF AllDigits
    <2>3. QED
      BY ONLY <1>7, <2>2
  <1>9. \A i \in (k + 1) .. 4 : c[i] \notin Digits
    <2>1. \A i \in (k + 1) .. 4 : i \in 1 .. 4 /\ i <= Len(t)
      OBVIOUS
    <2>2. QED
      BY ONLY <1>1, <1>3, <2>1
  <1>10. SubSeq(c, 1, k) = u
    <2>1. SubSeq(c, 0 + 1, 0 + k) = [j \in 1 .. k |-> c[0 + j]]
      <3>1. 0 \in Nat /\ k \in Nat /\ 0 + k <= Len(c)
        BY ONLY <1>1, k \in 1 .. 4
      <3>2. QED
        BY ONLY <1>1, <3>1, Slice, Zenon
    <2>2. u = [j \in 1 .. k |-> u[j]]
      <3>1. k \in Nat
        OBVIOUS
      <3>2. QED
        BY ONLY <1>4, <3>1, ByElements, Zenon
    <2>3. \A j \in 1 .. k : c[0 + j] = u[j]
      BY ONLY <1>7
    <2>4. 0 + k = k /\ 0 + 1 = 1
      OBVIOUS
    <2>5. [j \in 1 .. k |-> c[0 + j]] = [j \in 1 .. k |-> u[j]]
      BY ONLY <2>3
    <2>6. QED
      BY ONLY <2>1, <2>2, <2>4, <2>5
  <1>11. ParseDecimal(c) = {<<Number(SubSeq(c, 1, k))>>}
    BY ONLY <1>1, <1>8, <1>9, DigitRun
  <1>12. <<v[1]>> = v
    BY <1>2, One
  <1>13. QED
    BY ONLY <1>5, <1>10, <1>11, <1>12 DEF c

LEMMA DecimalBound ==
  ASSUME NEW v \in Seq(Nat), NEW t \in Seq(Nat), 4 <= Len(t), ~(v[1] < Power[5])
  PROVE  v \notin ParseDecimal(SubSeq(t, 1, 4))
  <1> DEFINE c == SubSeq(t, 1, 4)
  <1>1. c \in Seq(Nat) /\ Len(c) = 4
    <2>1. 4 \in Nat
      OBVIOUS
    <2>2. QED
      BY <2>1, Window
  <1> HIDE DEF c
  <1>2. SUFFICES ASSUME NEW k \in 1 .. 4, AllDigits(SubSeq(c, 1, k)), v = <<Number(SubSeq(c, 1, k))>>
                 PROVE  FALSE
    BY <1>1 DEF ParseDecimal, c
  <1> DEFINE u == SubSeq(c, 1, k)
  <1>3. u \in Seq(Nat) /\ Len(u) = k
    <2>1. k \in Nat /\ k <= Len(c)
      BY <1>1
    <2>2. QED
      BY <1>1, <2>1, Window
  <1>4. Number(u) < Power[5]
    BY <1>2, <1>3, NumberBound
  <1>5. v[1] = Number(u)
    BY <1>2
  <1>6. QED
    BY <1>4, <1>5

LEMMA NibbleRead ==
  ASSUME NEW n \in 0 .. 15, NEW x \in HexDigit(n)
  PROVE  Nibble(x) = {n}
  <1>1. CASE n < 10
    <2>1. x = 48 + n
      BY <1>1 DEF HexDigit
    <2>2. QED
      BY <1>1, <2>1 DEF Nibble, When, Digits
  <1>2. CASE ~(n < 10)
    <2>1. x = 55 + n \/ x = 87 + n
      BY <1>2 DEF HexDigit
    <2>2. QED
      BY <1>2, <2>1 DEF Nibble, When, Digits
  <1>3. QED
    BY <1>1, <1>2

LEMMA ByteHalves ==
  ASSUME NEW x \in 0 .. 255
  PROVE  x \div 16 \in 0 .. 15 /\ x % 16 \in 0 .. 15 /\ 16 * (x \div 16) + (x % 16) = x
  <1>1. x \div 16 \in 0 .. 15
    OBVIOUS
  <1>2. x % 16 \in 0 .. 15 /\ 16 * (x \div 16) + (x % 16) = x
    OBVIOUS
  <1>3. QED
    BY <1>1, <1>2

LEMMA HexRead ==
  ASSUME NEW v \in Seq(Nat), NEW t \in Seq(Nat), Hex(v, t)
  PROVE  HexToBytes(SubSeq(t, 1, 4)) = {v}
  <1> DEFINE c == SubSeq(t, 1, 4)
             pair(i) == {16 * hi + lo : hi \in Nibble(c[2 * i - 1]), lo \in Nibble(c[2 * i])}
  <1>1. c \in Seq(Nat) /\ Len(c) = 4 /\ \A j \in 1 .. 4 : c[j] = t[j]
    <2>1. 4 \in Nat /\ 4 <= Len(t)
      BY DEF Hex
    <2>2. QED
      BY <2>1, Window
  <1>2. Len(c) \div 2 = 2
    BY <1>1
  <1>3. HexToBytes(c) = {b \in [1 .. 2 -> UNION {pair(i) : i \in 1 .. 2}] :
                           \A i \in 1 .. 2 : b[i] \in pair(i)}
    BY <1>2 DEF HexToBytes
  <1> HIDE DEF c
  <1>4. ASSUME NEW i \in 1 .. 2 PROVE pair(i) = {v[i]}
    <2>1. /\ v[i] \in 0 .. 255 /\ t[2 * i - 1] \in HexDigit(v[i] \div 16)
          /\ t[2 * i] \in HexDigit(v[i] % 16)
      BY DEF Hex, Byte
    <2>2. v[i] \div 16 \in 0 .. 15 /\ v[i] % 16 \in 0 .. 15 /\ 16 * (v[i] \div 16) + (v[i] % 16) = v[i]
      BY ONLY <2>1, ByteHalves, Zenon
    <2>3. c[2 * i - 1] = t[2 * i - 1] /\ c[2 * i] = t[2 * i]
      BY <1>1
    <2>4. Nibble(c[2 * i - 1]) = {v[i] \div 16} /\ Nibble(c[2 * i]) = {v[i] % 16}
      BY <2>1, <2>2, <2>3, NibbleRead
    <2>5. QED
      BY <2>2, <2>4
  <1> HIDE DEF pair
  <1>5. v = [i \in 1 .. 2 |-> v[i]]
    <2>1. Len(v) = 2 /\ 2 \in Nat
      BY DEF Hex
    <2>2. QED
      BY <2>1, ByElements
  <1>6. v \in HexToBytes(c)
    <2>1. v \in [1 .. 2 -> UNION {pair(i) : i \in 1 .. 2}]
      BY <1>4, <1>5
    <2>2. QED
      BY <1>3, <1>4, <2>1
  <1>7. ASSUME NEW b \in HexToBytes(c) PROVE b = v
    <2>1. b \in [1 .. 2 -> UNION {pair(i) : i \in 1 .. 2}] /\ \A i \in 1 .. 2 : b[i] \in pair(i)
      BY <1>3
    <2>2. b = [i \in 1 .. 2 |-> b[i]] /\ \A i \in 1 .. 2 : b[i] = v[i]
      BY <1>4, <2>1
    <2>3. QED
      BY <1>5, <2>2
  <1>8. QED
    BY <1>6, <1>7 DEF c

LEMMA IsoRead ==
  ASSUME NEW v \in Seq(Nat), NEW t \in Seq(Nat), Iso8601(v, t)
  PROVE  ParseIso8601(SubSeq(t, 1, 20)) = {v}
  <1> DEFINE c == SubSeq(t, 1, 20)
             u == Numeral(v[1], 8)  w == Numeral(v[2], 6)  s == u \o w
  <1>1. Len(c) = 20 /\ \A j \in 1 .. 20 : c[j] = t[j]
    <2>1. 20 \in Nat /\ 20 <= Len(t)
      BY DEF Iso8601
    <2>2. QED
      BY <2>1, Window
  <1>2. v[1] \in Nat /\ v[2] \in Nat /\ v[2] < Power[7] /\ v[1] < Power[9] /\ Len(v) = 2
    BY DEF Iso8601
  <1>3. u \in Seq(Nat) /\ Len(u) = 8 /\ w \in Seq(Nat) /\ Len(w) = 6
    <2>1. 8 \in 0 .. 8 /\ 6 \in 0 .. 8
      OBVIOUS
    <2>2. QED
      BY ONLY <1>2, <2>1, NumeralDigits
  <1>4. s \in Seq(Nat) /\ Len(s) = 14
    <2>1. s \in Seq(Nat) /\ Len(s) = Len(u) + Len(w)
      BY ONLY <1>3, Joined, Zenon
    <2> HIDE DEF s, u, w
    <2>2. Len(u) + Len(w) = 14
      BY ONLY <1>3
    <2>3. QED
      BY ONLY <2>1, <2>2, Zenon
  <1>5. \A i \in 1 .. 14 : t[DigitPlaces[i]] = s[i]
    BY DEF Iso8601
  <1> HIDE DEF s, c
  <1>6. ASSUME NEW i \in 1 .. 14 PROVE c[DigitPlaces[i]] = s[i]
    <2>1. i \in {1, 2, 3, 4, 5, 6, 7, 8, 9, 10, 11, 12, 13, 14}
      BY ONLY <1>6
    <2>2. DigitPlaces[i] \in 1 .. 20
      <3>1. \A j \in 1 .. 14 : DigitPlaces[j] \in 1 .. 20
        <4>1. DigitPlaces \in [1 .. 14 -> 1 .. 20]
          BY ONLY DEF DigitPlaces
        <4>2. QED
          BY ONLY <4>1
      <3>2. QED
        BY ONLY <1>6, <3>1
    <2>3. QED
      BY ONLY <1>1, <1>5, <1>6, <2>2
  <1>7. s = [i \in 1 .. 14 |-> c[DigitPlaces[i]]]
    <2>1. s = [i \in 1 .. 14 |-> s[i]]
      <3>1. 14 \in Nat
        OBVIOUS
      <3>2. QED
        BY ONLY <1>4, <3>1, ByElements
    <2>2. [i \in 1 .. 14 |-> s[i]] = [i \in 1 .. 14 |-> c[DigitPlaces[i]]]
      BY ONLY <1>6
    <2>3. QED
      BY ONLY <2>1, <2>2
  <1>8. ParseIso8601(c) = Pack(0, s)
    BY ONLY <1>7 DEF ParseIso8601
  <1>9. Pack(0, s) = {<<Power[7] * 0 + v[1], v[2]>>}
    <2>1. 0 \in Nat /\ 8 \in {6, 8} /\ 8 + 1 = 9
      OBVIOUS
    <2>2. QED
      BY ONLY <1>2, <2>1, PackNumerals DEF s
  <1>10. Power[7] * 0 + v[1] = v[1]
    BY <1>2 DEF Power
  <1>11. <<v[1], v[2]>> = v
    BY <1>2, Two
  <1>12. QED
    BY ONLY <1>8, <1>9, <1>10, <1>11 DEF c

(* A date of this century, and any other one.                               *)
PackedDate(date) == Power[7] * 20 + (date % Power[7])

LEMMA CenturyFacts ==
  ASSUME NEW date \in Nat, Year(date) \in UtcYears
  PROVE  PackedDate(date) \in Nat /\ (ThisCentury(date) <=> PackedDate(date) = date)
  <1>1. PackedDate(date) = 1000000 * 20 + (date % 1000000)
    BY DEF PackedDate, Power
  <1>2. Year(date) = date \div 10000 /\ Year(date) \in 1950 .. 2049
    BY DEF Year, UtcYears
  <1>3. date >= 19500000 /\ date < 20500000 /\ (ThisCentury(date) <=> date >= 20000000)
    BY <1>2 DEF ThisCentury
  <1>4. date >= 20000000 => date % 1000000 = date - 20000000
    BY <1>3
  <1>5. date % 1000000 \in Nat
    OBVIOUS
  <1>6. QED
    BY <1>1, <1>3, <1>4, <1>5

LEMMA UtcRead ==
  ASSUME NEW date \in Nat, NEW time, NEW t \in Seq(Nat), NEW i \in Nat \ {0}, UtcTime(date, time, t, i)
  PROVE  /\ ParseUtcTime(SubSeq(t, i, i + 12)) = {<<PackedDate(date), time>>}
         /\ PackedDate(date) \in Nat /\ time \in Nat
         /\ ThisCentury(date) <=> PackedDate(date) = date
  <1> DEFINE c == SubSeq(t, i, i + 12)  d == date % Power[7]
  <1>1. /\ time \in Nat /\ time < Power[7] /\ Year(date) \in UtcYears /\ i + 12 <= Len(t)
        /\ SubSeq(t, i, i + 11) = Numeral(d, 6) \o Numeral(time, 6)
    <2>1. d = date % Power[7]
      OBVIOUS
    <2> HIDE DEF d
    <2>2. UtcTime(date, time, t, i)
      OBVIOUS
    <2>3. /\ time \in Nat /\ time < Power[7] /\ Year(date) \in UtcYears
          /\ SubSeq(t, i, i + 11) = Numeral(d, 6) \o Numeral(time, 6)
      BY ONLY <2>1, <2>2, Zenon DEF UtcTime
    <2>4. Len(t) >= i + 12
      BY ONLY <2>2, Zenon DEF UtcTime
    <2>5. i + 12 <= Len(t)
      BY ONLY <2>4, i \in Nat, t \in Seq(Nat)
    <2>6. QED
      BY ONLY <2>1, <2>3, <2>5, Zenon
  <1>2. Power[7] = 1000000
    BY DEF Power
  <1>3. d \in Nat /\ d < Power[7]
    BY ONLY <1>2, date \in Nat
  <1> HIDE DEF d
  <1>4. SubSeq(c, 1, 12) = SubSeq(t, i, i + 11)
    <2> DEFINE o == i - 1
    <2>1. o \in Nat /\ o + 1 = i /\ o + 13 = i + 12 /\ o + 12 = i + 11 /\ o + 13 <= Len(t)
          /\ o + 12 <= Len(t)
      BY <1>1
    <2> HIDE DEF o
    <2>2. c \in Seq(Nat) /\ Len(c) = 13 /\ \A j \in 1 .. 13 : c[j] = t[o + j]
      <3>1. 13 \in Nat
        OBVIOUS
      <3>2. /\ SubSeq(t, o + 1, o + 13) \in Seq(Nat) /\ Len(SubSeq(t, o + 1, o + 13)) = 13
            /\ \A j \in 1 .. 13 : SubSeq(t, o + 1, o + 13)[j] = t[o + j]
        BY <2>1, <3>1, SliceFacts
      <3>3. QED
        BY ONLY <2>1, <3>2
    <2> HIDE DEF c
    <2>3. 12 \in Nat /\ 0 \in Nat /\ 0 + 12 <= Len(c)
      BY <2>2
    <2>4. SubSeq(c, 0 + 1, 0 + 12) = [j \in 1 .. 12 |-> c[0 + j]]
      BY <2>2, <2>3, Slice
    <2>5. SubSeq(t, o + 1, o + 12) = [j \in 1 .. 12 |-> t[o + j]]
      BY <2>1, <2>3, Slice
    <2>6. ASSUME NEW j \in 1 .. 12 PROVE c[0 + j] = t[o + j]
      <3>1. j \in 1 .. 13 /\ 0 + j = j
        BY ONLY <2>6
      <3>2. QED
        BY ONLY <2>2, <3>1
    <2>7. [j \in 1 .. 12 |-> c[0 + j]] = [j \in 1 .. 12 |-> t[o + j]]
      BY ONLY <2>6
    <2>8. 0 + 1 = 1 /\ 0 + 12 = 12
      OBVIOUS
    <2>9. QED
      BY ONLY <2>1, <2>4, <2>5, <2>7, <2>8
  <1>5. ParseUtcTime(c) = {<<Power[7] * 20 + d, time>>}
    <2>1. 20 \in Nat /\ 6 \in {6, 8} /\ 6 + 1 = 7
      OBVIOUS
    <2>2. Pack(20, Numeral(d, 6) \o Numeral(time, 6)) = {<<Power[7] * 20 + d, time>>}
      BY ONLY <1>1, <1>3, <2>1, PackNumerals, SMTT(30)
    <2>3. QED
      <3>1. SubSeq(c, 1, 12) = Numeral(d, 6) \o Numeral(time, 6)
        BY ONLY <1>1, <1>4, Zenon
      <3>2. ParseUtcTime(c) = Pack(20, SubSeq(c, 1, 12))
        BY ONLY DEF ParseUtcTime
      <3>3. QED
        BY ONLY <2>2, <3>1, <3>2
  <1>6. Power[7] * 20 + d = PackedDate(date)
    BY DEF PackedDate, d
  <1>7. PackedDate(date) \in Nat /\ (ThisCentury(date) <=> PackedDate(date) = date)
    BY <1>1, CenturyFacts
  <1>8. ParseUtcTime(c) = {<<PackedDate(date), time>>}
    BY ONLY <1>5, <1>6
  <1>9. QED
    BY ONLY <1>1, <1>7, <1>8 DEF c

(* A status that is closed in the signed text is decided by it.             *)
LEMMA StatusWords ==
  ASSUME NEW j \in DOMAIN Statuses
  PROVE  /\ Statuses[j] \in Seq(Nat) /\ \A i \in DOMAIN Statuses[j] : Statuses[j][i] # Quote
  <1>1. j \in 1 .. 7
    BY DEF Statuses
  <1>2. CASE j = 1
    BY <1>2 DEF Statuses, Word, Quote
  <1>3. CASE j = 2
    BY <1>3 DEF Statuses, Word, Quote
  <1>4. CASE j = 3
    BY <1>4 DEF Statuses, Word, Quote
  <1>5. CASE j = 4
    BY <1>5 DEF Statuses, Word, Quote
  <1>6. CASE j = 5
    BY <1>6 DEF Statuses, Word, Quote
  <1>7. CASE j = 6
    BY <1>7 DEF Statuses, Word, Quote
  <1>8. CASE j = 7
    BY <1>8 DEF Statuses, Word, Quote
  <1>9. QED
    BY <1>1, <1>2, <1>3, <1>4, <1>5, <1>6, <1>7, <1>8

LEMMA ClosedLiteral ==
  ASSUME NEW c \in Seq(Nat), NEW k \in Nat \ {0}, NEW lit \in Seq(Nat),
         \A i \in DOMAIN lit : lit[i] # Quote,
         \A i \in 1 .. (k - 1) : i <= Len(c) => c[i] # Quote,
         k <= Len(c) => c[k] = Quote
  PROVE  Literal(c, lit) <=> /\ k <= Len(c) /\ Len(lit) = k - 1
                             /\ \A i \in 1 .. (k - 1) : c[i] = lit[i]
  <1> DEFINE l == Len(lit)  q == Append(lit, Quote)
  <1>1. /\ l \in Nat /\ q \in Seq(Nat) /\ Len(q) = l + 1 /\ q[l + 1] = Quote
        /\ DOMAIN lit = 1 .. l /\ Len(c) \in Nat
    BY DEF Quote
  <1>2. ASSUME NEW i \in 1 .. l PROVE q[i] = lit[i]
    BY <1>1, <1>2
  <1>3. q = SubSeq(q, 1, l + 1)
    BY <1>1
  <1> HIDE DEF l, q
  <1>4. Literal(c, lit) <=> l + 1 <= Len(c) /\ \A i \in 1 .. (l + 1) : c[i] = q[i]
    <2>1. Literal(c, lit) <=> l + 1 <= Len(c) /\ q = SubSeq(c, 1, l + 1)
      BY <1>1, <1>3 DEF Literal, IsPrefix, q
    <2>2. ASSUME l + 1 <= Len(c) PROVE SubSeq(c, 1, l + 1) = [i \in 1 .. (l + 1) |-> c[i]]
      BY <1>1, <2>2
    <2>3. q = [i \in 1 .. (l + 1) |-> q[i]]
      BY <1>1
    <2>4. ASSUME l + 1 <= Len(c), \A i \in 1 .. (l + 1) : c[i] = q[i]
          PROVE  q = SubSeq(c, 1, l + 1)
      <3>1. [i \in 1 .. (l + 1) |-> c[i]] = [i \in 1 .. (l + 1) |-> q[i]]
        BY <2>4
      <3>2. QED
        BY <2>2, <2>3, <2>4, <3>1
    <2>5. ASSUME l + 1 <= Len(c), q = SubSeq(c, 1, l + 1), NEW i \in 1 .. (l + 1)
          PROVE  c[i] = q[i]
      BY <2>2, <2>5
    <2>6. QED
      BY <2>1, <2>4, <2>5
  <1>5. ASSUME Literal(c, lit) PROVE l = k - 1 /\ k <= Len(c)
    <2>1. l + 1 <= Len(c) /\ c[l + 1] = Quote /\ \A i \in 1 .. l : c[i] = lit[i]
      BY <1>1, <1>2, <1>4, <1>5, SMTT(30)
    <2>2. ~(l + 1 < k)
      <3>1. SUFFICES ASSUME l + 1 < k PROVE FALSE
        OBVIOUS
      <3>2. l + 1 \in 1 .. (k - 1)
        BY <1>1, <3>1
      <3>3. QED
        BY <2>1, <3>2
    <2>3. ~(k < l + 1)
      <3>1. SUFFICES ASSUME k < l + 1 PROVE FALSE
        OBVIOUS
      <3>2. k \in 1 .. l /\ k <= Len(c)
        BY <1>1, <2>1, <3>1
      <3>3. QED
        BY <1>1, <2>1, <3>2
    <2>4. QED
      BY <1>1, <2>1, <2>2, <2>3
  <1>6. ASSUME l = k - 1, k <= Len(c)
        PROVE  Literal(c, lit) <=> \A i \in 1 .. (k - 1) : c[i] = lit[i]
    <2>1. l + 1 = k /\ c[l + 1] = q[l + 1]
      BY <1>1, <1>6
    <2>2. (\A i \in 1 .. (l + 1) : c[i] = q[i]) <=> \A i \in 1 .. l : c[i] = lit[i]
      <3>1. ASSUME NEW i \in 1 .. (l + 1) PROVE i = l + 1 \/ i \in 1 .. l
        BY <1>1
      <3>2. ASSUME NEW i \in 1 .. l PROVE i \in 1 .. (l + 1)
        BY <1>1
      <3>3. QED
        BY <1>2, <2>1, <3>1, <3>2
    <2>3. QED
      BY <1>4, <1>6, <2>1, <2>2
  <1>7. QED
    BY <1>5, <1>6 DEF l

LEMMA ValidityRead ==
  ASSUME NEW v \in Seq(Nat), NEW t \in Seq(Nat), Validity30(v, t)
  PROVE  LET both == Both(ParseUtcTime(SubSeq(t, 1, 13)), ParseUtcTime(SubSeq(t, 16, 28))) IN
         /\ ThisCentury(v[1]) /\ ThisCentury(v[3]) => both = {v}
         /\ ~(ThisCentury(v[1]) /\ ThisCentury(v[3])) => v \notin both
         /\ both # {}
  <1> DEFINE both == Both(ParseUtcTime(SubSeq(t, 1, 13)), ParseUtcTime(SubSeq(t, 16, 28)))
             x == PackedDate(v[1])  y == PackedDate(v[3])
  <1>1. /\ v[1] \in Nat /\ v[3] \in Nat /\ Len(v) = 4
        /\ UtcTime(v[1], v[2], t, 1) /\ UtcTime(v[3], v[4], t, 16)
    BY DEF Validity30
  <1> DEFINE a == 1  b == 16
  <1>t. a \in Nat \ {0} /\ b \in Nat \ {0} /\ a + 12 = 13 /\ b + 12 = 28
    OBVIOUS
  <1> HIDE DEF a, b
  <1>u. ASSUME NEW date \in Nat, NEW time, NEW i \in Nat \ {0}, UtcTime(date, time, t, i)
        PROVE  /\ ParseUtcTime(SubSeq(t, i, i + 12)) = {<<PackedDate(date), time>>}
               /\ PackedDate(date) \in Nat /\ time \in Nat
               /\ ThisCentury(date) <=> PackedDate(date) = date
    BY ONLY <1>u, t \in Seq(Nat), UtcRead, Zenon
  <1>2. /\ ParseUtcTime(SubSeq(t, 1, 13)) = {<<x, v[2]>>} /\ v[2] \in Nat /\ x \in Nat
        /\ ThisCentury(v[1]) <=> x = v[1]
    <2>1. /\ ParseUtcTime(SubSeq(t, a, a + 12)) = {<<x, v[2]>>} /\ x \in Nat /\ v[2] \in Nat
          /\ ThisCentury(v[1]) <=> x = v[1]
      <3>1. UtcTime(v[1], v[2], t, a)
        BY <1>1 DEF a
      <3>2. QED
        BY ONLY <1>1, <1>t, <3>1, <1>u, Zenon
    <2>2. QED
      BY ONLY <1>t, <2>1 DEF a
  <1>3. /\ ParseUtcTime(SubSeq(t, 16, 28)) = {<<y, v[4]>>} /\ v[4] \in Nat /\ y \in Nat
        /\ ThisCentury(v[3]) <=> y = v[3]
    <2>1. /\ ParseUtcTime(SubSeq(t, b, b + 12)) = {<<y, v[4]>>} /\ y \in Nat /\ v[4] \in Nat
          /\ ThisCentury(v[3]) <=> y = v[3]
      <3>1. UtcTime(v[3], v[4], t, b)
        BY <1>1 DEF b
      <3>2. QED
        BY ONLY <1>1, <1>t, <3>1, <1>u, Zenon
    <2>2. QED
      BY ONLY <1>t, <2>1 DEF b
  <1>4. both = {<<x, v[2]>> \o <<y, v[4]>>}
    <2>1. \A p, q : Both({p}, {q}) = {p \o q}
      BY ONLY DEF Both
    <2>2. QED
      BY ONLY <1>2, <1>3, <2>1, Zenon
  <1> HIDE DEF both, x, y
  <1> DEFINE w == <<x, v[2], y, v[4]>>
  <1>5. w \in Seq(Nat) /\ Len(w) = 4 /\ w[1] = x /\ w[2] = v[2] /\ w[3] = y /\ w[4] = v[4]
    BY <1>2, <1>3
  <1> HIDE DEF w
  <1>6. both = {w}
    BY ONLY <1>4, <1>5, Four
  <1>7. ASSUME x = v[1], y = v[3] PROVE w = v
    <2>1. <<w[1], w[2]>> \o <<w[3], w[4]>> = w /\ <<v[1], v[2]>> \o <<v[3], v[4]>> = v
      BY <1>1, <1>5, Four
    <2>2. QED
      BY ONLY <1>5, <1>7, <2>1
  <1>8. v = w => x = v[1] /\ y = v[3]
    BY ONLY <1>5
  <1>9. /\ ThisCentury(v[1]) /\ ThisCentury(v[3]) => both = {v}
        /\ ~(ThisCentury(v[1]) /\ ThisCentury(v[3])) => v \notin both
        /\ both # {}
    BY ONLY <1>2, <1>3, <1>6, <1>7, <1>8
  <1>10. QED
    BY ONLY <1>9 DEF both

(* The words differ, and so do the values.                                  *)
LEMMA StatusRead ==
  ASSUME NEW t \in Seq(Nat), NEW k \in 1 .. Len(t), t[k] = Quote,
         \A j \in 1 .. (k - 1) : t[j] # Quote,
         NEW v, \/ \E i \in DOMAIN Statuses : SubSeq(t, 1, k - 1) = Statuses[i] /\ v = <<i - 1>>
                \/ \A i \in DOMAIN Statuses : SubSeq(t, 1, k - 1) # Statuses[i]
  PROVE  StatusSeverity(SubSeq(t, 1, k)) \subseteq {v}
  <1> DEFINE e == SubSeq(t, 1, k)  u == SubSeq(t, 1, k - 1)
  <1>1. /\ k \in Nat \ {0} /\ k - 1 \in Nat /\ k <= Len(t) /\ k - 1 <= Len(t)
        /\ \A j \in 1 .. (k - 1) : j \in 1 .. k
    OBVIOUS
  <1>2. /\ e \in Seq(Nat) /\ Len(e) = k /\ \A j \in 1 .. k : e[j] = t[j]
        /\ u \in Seq(Nat) /\ Len(u) = k - 1 /\ \A j \in 1 .. (k - 1) : u[j] = t[j]
    BY <1>1, Window
  <1>3. e[k] = Quote /\ \A j \in 1 .. (k - 1) : j <= Len(e) => e[j] # Quote
    BY <1>1, <1>2
  <1> HIDE DEF e, u
  <1>4. ASSUME NEW j \in DOMAIN Statuses PROVE Literal(e, Statuses[j]) <=> u = Statuses[j]
    <2>1. Statuses[j] \in Seq(Nat) /\ \A i \in DOMAIN Statuses[j] : Statuses[j][i] # Quote
      BY StatusWords
    <2>2. Literal(e, Statuses[j]) <=> /\ k <= Len(e) /\ Len(Statuses[j]) = k - 1
                                      /\ \A i \in 1 .. (k - 1) : e[i] = Statuses[j][i]
      <3>1. /\ e \in Seq(Nat) /\ k \in Nat \ {0}
            /\ \A i \in 1 .. (k - 1) : i <= Len(e) => e[i] # Quote
            /\ k <= Len(e) => e[k] = Quote
        BY ONLY <1>1, <1>2, <1>3, Zenon
      <3>2. QED
        BY ONLY <2>1, <3>1, ClosedLiteral, Zenon
    <2>3. u = [i \in 1 .. (k - 1) |-> u[i]]
      BY <1>1, <1>2, ByElements
    <2>4. Len(Statuses[j]) = k - 1 => Statuses[j] = [i \in 1 .. (k - 1) |-> Statuses[j][i]]
      BY <1>1, <2>1, ByElements
    <2>5. \A i \in 1 .. (k - 1) : u[i] = e[i]
      BY <1>1, <1>2
    <2>6. ASSUME Literal(e, Statuses[j]) PROVE u = Statuses[j]
      BY <2>2, <2>3, <2>4, <2>5, <2>6
    <2>7. ASSUME u = Statuses[j] PROVE Literal(e, Statuses[j])
      BY <1>2, <2>2, <2>5, <2>7
    <2>8. QED
      BY <2>6, <2>7
  <1>5. SUFFICES ASSUME NEW i \in DOMAIN Statuses,
                        \A j \in DOMAIN Statuses : Literal(e, Statuses[j]) <=> j = i
                 PROVE  <<i - 1>> = v
    BY DEF StatusSeverity, e
  <1>6. u = Statuses[i]
    BY <1>4, <1>5
  <1>7. PICK l \in DOMAIN Statuses : u = Statuses[l] /\ v = <<l - 1>>
    BY <1>6 DEF u
  <1>8. l = i
    BY <1>4, <1>5, <1>7
  <1>9. QED
    BY <1>7, <1>8

(* An INTEGER behind its context: a length and its bytes.                   *)
LEMMA IntegerBytes ==
  ASSUME NEW m \in Seq(Nat), NEW t \in Seq(Nat), Integer(m, t)
  PROVE  /\ Minimal(m) \in Seq(Nat)
         /\ 1 + Len(Minimal(m)) <= Len(t) /\ t[1] = Len(Minimal(m))
         /\ \A j \in 1 .. Len(Minimal(m)) : t[1 + j] = Minimal(m)[j]
         /\ ~High(m) => Minimal(m) = m
         /\ High(m)
              => /\ Len(Minimal(m)) = 1 + Len(m) /\ Minimal(m)[1] = 0
                 /\ \A j \in 1 .. Len(m) : Minimal(m)[1 + j] = m[j]
  <1> DEFINE big == High(m)
  <1>1. <<0>> \in Seq(Nat) /\ Len(<<0>>) = 1 /\ <<0>>[1] = 0 /\ 1 \in 1 .. 1
    OBVIOUS
  <1>2. /\ <<0>> \o m \in Seq(Nat) /\ Len(<<0>> \o m) = 1 + Len(m) /\ (<<0>> \o m)[1] = 0
        /\ \A j \in 1 .. Len(m) : (<<0>> \o m)[1 + j] = m[j]
    BY <1>1, Joined
  <1>3. (big => Minimal(m) = <<0>> \o m) /\ (~big => Minimal(m) = m)
    BY DEF Minimal
  <1> HIDE DEF big
  <1>4. Minimal(m) \in Seq(Nat) /\ Len(Minimal(m)) \in Nat
    <2>1. Minimal(m) \in Seq(Nat)
      BY ONLY <1>2, <1>3, m \in Seq(Nat), Zenon
    <2>2. QED
      BY ONLY <2>1
  <1> DEFINE M == Minimal(m)  h == <<Len(M)>>
  <1>5. h \in Seq(Nat) /\ Len(h) = 1 /\ h[1] = Len(M) /\ 1 \in 1 .. 1
    BY <1>4
  <1>6. IsPrefix(h \o M, t)
    BY DEF Integer
  <1> HIDE DEF M, h
  <1>7. /\ h \o M \in Seq(Nat) /\ Len(h \o M) = 1 + Len(M) /\ (h \o M)[1] = Len(M)
        /\ \A j \in 1 .. Len(M) : (h \o M)[1 + j] = M[j]
    <2>1. M \in Seq(Nat)
      BY <1>4 DEF M
    <2>2. /\ h \o M \in Seq(Nat) /\ Len(h \o M) = Len(h) + Len(M)
          /\ \A j \in 1 .. Len(h) : (h \o M)[j] = h[j]
          /\ \A j \in 1 .. Len(M) : (h \o M)[Len(h) + j] = M[j]
      BY ONLY <1>5, <2>1, Joined, Zenon
    <2>3. QED
      BY ONLY <1>5, <2>2, Zenon
  <1>8. Len(M) \in Nat
    BY <1>4 DEF M
  <1>9. 1 + Len(M) <= Len(t) /\ \A j \in 1 .. (1 + Len(M)) : t[j] = (h \o M)[j]
    <2>1. Len(h \o M) <= Len(t) /\ \A j \in 1 .. Len(h \o M) : t[j] = (h \o M)[j]
      BY ONLY <1>6, <1>7, t \in Seq(Nat), PrefixFacts, Zenon
    <2>2. QED
      BY ONLY <1>7, <2>1, Zenon
  <1>10. t[1] = Len(M) /\ \A j \in 1 .. Len(M) : t[1 + j] = M[j]
    <2>1. 1 \in 1 .. (1 + Len(M))
      BY <1>8
    <2>2. ASSUME NEW j \in 1 .. Len(M) PROVE 1 + j \in 1 .. (1 + Len(M))
      BY <1>8
    <2>3. QED
      BY <1>7, <1>9, <2>1, <2>2
  <1>11. QED
    BY <1>2, <1>3, <1>4, <1>9, <1>10 DEF M, big

LEMMA PceText ==
  ASSUME NEW v \in Seq(Nat), NEW t \in Seq(Nat), PceNumber(v, t), NEW n, n = v[1]
  PROVE  /\ v = <<n>> /\ n \in Nat /\ n < 256 * 256
         /\ n < 128 => t[1] = 1 /\ t[2] = n
         /\ 128 <= n /\ n < 128 * 256 => t[1] = 2 /\ t[2] = n \div 256 /\ t[3] = n % 256
         /\ ~(n < 128 * 256) => t[1] = 3
  <1> DEFINE hi == n \div 256  lo == n % 256
             m == IF n < 256 THEN <<n>> ELSE <<hi, lo>>
  <1>2. n \in Nat /\ n < 256 * 256 /\ <<n>> = v /\ Integer(m, t)
    BY One DEF PceNumber
  <1>3. hi \in 0 .. 255 /\ lo \in 0 .. 255
    BY ONLY <1>2
  <1>4. n = 256 * hi + lo
    BY ONLY <1>2
  <1>5. n < 256 => hi = 0 /\ lo = n
    BY ONLY <1>2
  <1> HIDE DEF hi, lo
  <1>6. n < 128 * 256 <=> hi < 128
    BY ONLY <1>3, <1>4
  <1>7. ASSUME m \in Seq(Nat)
        PROVE  /\ t[1] = Len(Minimal(m)) /\ \A j \in 1 .. Len(Minimal(m)) : t[1 + j] = Minimal(m)[j]
               /\ ~High(m) => Minimal(m) = m
               /\ High(m)
                    => /\ Len(Minimal(m)) = 1 + Len(m) /\ Minimal(m)[1] = 0
                       /\ \A j \in 1 .. Len(m) : Minimal(m)[1 + j] = m[j]
    <2> HIDE DEF m
    <2>1. QED
      BY ONLY <1>2, <1>7, t \in Seq(Nat), IntegerBytes, Zenon
  <1>8. CASE n < 256
    <2>1. m = <<n>>
      BY <1>8
    <2>2. m \in Seq(Nat) /\ Len(m) = 1 /\ m[1] = n /\ m # <<>>
      BY ONLY <1>2, <2>1
    <2> HIDE DEF m
    <2>3. n < 128 * 256
      BY ONLY <1>2, <1>8
    <2>4. CASE n < 128
      <3>1. Minimal(m) = m
        BY ONLY <1>2, <1>7, <2>2, <2>4 DEF High
      <3>2. t[1] = 1 /\ t[1 + 1] = n
        <4>1. t[1] = Len(m) /\ \A j \in 1 .. Len(m) : t[1 + j] = m[j]
          BY ONLY <1>7, <2>2, <3>1, Zenon
        <4>2. 1 \in 1 .. Len(m)
          BY ONLY <2>2
        <4>3. QED
          BY ONLY <2>2, <4>1, <4>2, Zenon
      <3>3. QED
        BY ONLY <1>2, <2>3, <2>4, <3>2
    <2>5. CASE n >= 128
      <3>1. Len(Minimal(m)) = 2 /\ Minimal(m)[1] = 0 /\ Minimal(m)[1 + 1] = n
        <4>1. High(m)
          BY ONLY <2>2, <2>5 DEF High
        <4>2. 1 \in 1 .. Len(m) /\ 1 + Len(m) = 2
          BY ONLY <2>2
        <4>3. QED
          BY ONLY <1>7, <2>2, <4>1, <4>2, Zenon
      <3>2. t[1] = 2 /\ t[1 + 1] = 0 /\ t[1 + 2] = n
        <4>1. 1 \in 1 .. 2 /\ 2 \in 1 .. 2 /\ 1 + 1 \in 1 .. 2 /\ 1 + (1 + 1) = 1 + 2
          OBVIOUS
        <4>2. \A j \in 1 .. 2 : t[1 + j] = Minimal(m)[j]
          BY ONLY <1>7, <2>2, <3>1, Zenon
        <4>3. t[1] = 2
          BY ONLY <1>7, <2>2, <3>1, Zenon
        <4>4. t[1 + 1] = 0
          BY ONLY <3>1, <4>1, <4>2, Zenon
        <4>5. t[1 + (1 + 1)] = n
          BY ONLY <3>1, <4>1, <4>2, Zenon
        <4>6. QED
          BY ONLY <4>1, <4>3, <4>4, <4>5, Zenon
      <3>3. t[1] = 2 /\ t[2] = hi /\ t[3] = lo
        BY ONLY <1>5, <1>8, <3>2
      <3>4. QED
        BY ONLY <1>2, <2>3, <2>5, <3>3 DEF hi, lo
    <2>6. QED
      BY ONLY <1>2, <2>4, <2>5
  <1>9. CASE ~(n < 256)
    <2>1. m = <<hi, lo>>
      BY <1>9
    <2>2. hi \in Nat /\ lo \in Nat
      BY ONLY <1>3
    <2>3. m \in Seq(Nat) /\ Len(m) = 2 /\ m[1] = hi /\ m[2] = lo /\ m # <<>>
      BY ONLY <2>1, <2>2, Pair, Zenon
    <2> HIDE DEF m
    <2>4. CASE hi < 128
      <3>1. Minimal(m) = m
        BY ONLY <1>3, <1>7, <2>3, <2>4 DEF High
      <3>2. t[1] = 2 /\ t[1 + 1] = hi /\ t[1 + 2] = lo
        <4>1. t[1] = Len(m) /\ \A j \in 1 .. 2 : t[1 + j] = m[j]
          BY ONLY <1>7, <2>3, <3>1, Zenon
        <4>2. 1 \in 1 .. 2 /\ 2 \in 1 .. 2
          OBVIOUS
        <4>3. QED
          BY ONLY <2>3, <4>1, <4>2, Zenon
      <3>3. t[1] = 2 /\ t[2] = hi /\ t[3] = lo
        BY ONLY <3>2
      <3>4. n < 128 * 256 /\ ~(n < 128)
        BY ONLY <1>2, <1>6, <1>9, <2>4
      <3>5. QED
        BY ONLY <1>2, <3>3, <3>4 DEF hi, lo
    <2>5. CASE ~(hi < 128)
      <3>1. Len(Minimal(m)) = 3
        <4>1. High(m)
          BY ONLY <1>3, <2>3, <2>5 DEF High
        <4>2. 1 + 2 = 3
          OBVIOUS
        <4>3. QED
          BY ONLY <1>7, <2>3, <4>1, <4>2, Zenon
      <3>2. t[1] = 3
        BY ONLY <1>7, <2>3, <3>1, Zenon
      <3>3. ~(n < 128 * 256) /\ ~(n < 128)
        BY ONLY <1>2, <1>6, <1>9, <2>5
      <3>4. QED
        BY ONLY <1>2, <3>2, <3>3
    <2>6. QED
      BY ONLY <2>4, <2>5
  <1>10. QED
    BY ONLY <1>8, <1>9

LEMMA PceRead ==
  ASSUME NEW v \in Seq(Nat), NEW t \in Seq(Nat), PceNumber(v, t), 3 <= Len(t)
  PROVE  PceSvn(SubSeq(t, 1, 3)) = IF v[1] < 128 * 256 THEN {v} ELSE {}
  <1> DEFINE c == SubSeq(t, 1, 3)  n == v[1]
  <1>1. c[1] = t[1] /\ c[2] = t[2] /\ c[3] = t[3]
    <2>1. 3 \in Nat /\ 1 \in 1 .. 3 /\ 2 \in 1 .. 3 /\ 3 \in 1 .. 3
      OBVIOUS
    <2>2. QED
      BY <2>1, Window
  <1>2. /\ v = <<n>> /\ n \in Nat /\ n < 256 * 256
        /\ n < 128 => t[1] = 1 /\ t[2] = n
        /\ 128 <= n /\ n < 128 * 256 => t[1] = 2 /\ t[2] = n \div 256 /\ t[3] = n % 256
        /\ ~(n < 128 * 256) => t[1] = 3
    <2>1. v[1] = n
      OBVIOUS
    <2> HIDE DEF n
    <2>2. QED
      BY ONLY <2>1, PceNumber(v, t), v \in Seq(Nat), t \in Seq(Nat), PceText
  <1> HIDE DEF n, c
  <1> DEFINE hi == n \div 256  lo == n % 256
  <1>3. n = 256 * hi + lo
    <2>1. n \in Nat
      BY ONLY <1>2
    <2>2. QED
      BY ONLY <2>1
  <1>4. PceSvn(c) = When(t[1] = 1, <<t[2]>>) \cup When(t[1] = 2, <<256 * t[2] + t[3]>>)
    BY ONLY <1>1 DEF PceSvn
  <1>5. CASE n < 128
    <2>1. PceSvn(c) = {<<n>>}
      BY ONLY <1>2, <1>4, <1>5 DEF When
    <2>2. n < 128 * 256
      BY ONLY <1>2, <1>5
    <2>3. QED
      BY ONLY <1>2, <2>1, <2>2 DEF n, c
  <1>6. CASE 128 <= n /\ n < 128 * 256
    <2>1. t[1] = 2 /\ t[2] = hi /\ t[3] = lo
      BY ONLY <1>2, <1>6, Zenon
    <2> HIDE DEF hi, lo
    <2>2. PceSvn(c) = {<<256 * hi + lo>>}
      BY ONLY <1>4, <2>1 DEF When
    <2>3. PceSvn(c) = {<<n>>}
      BY ONLY <1>3, <2>2
    <2>4. QED
      BY ONLY <1>2, <1>6, <2>3 DEF n, c
  <1>7. CASE ~(n < 128 * 256)
    <2>1. PceSvn(c) = {}
      BY ONLY <1>2, <1>4, <1>7 DEF When
    <2>2. QED
      BY ONLY <1>7, <2>1 DEF n, c
  <1>8. QED
    BY ONLY <1>2, <1>5, <1>6, <1>7

(* The magnitude of a number begins at its first byte that is not zero.     *)
LEMMA MagnitudeOf ==
  ASSUME NEW v \in Seq(Nat), NEW k \in 0 .. Len(v), \A i \in 1 .. k : v[i] = 0,
         k < Len(v) => v[k + 1] # 0
  PROVE  Magnitude(v) = SubSeq(v, k + 1, Len(v))
  <1> DEFINE S == {i \in DOMAIN v : v[i] # 0} \cup {Len(v) + 1}
  <1>1. DOMAIN v = 1 .. Len(v) /\ Len(v) \in Nat
    OBVIOUS
  <1>2. k + 1 \in S
    BY <1>1
  <1>3. ASSUME NEW i \in S PROVE i \in Int /\ k + 1 <= i
    <2>1. CASE i = Len(v) + 1
      BY <1>1, <2>1
    <2>2. CASE i \in DOMAIN v /\ v[i] # 0
      <3>1. ~(i \in 1 .. k)
        BY <2>2
      <3>2. QED
        BY <1>1, <2>2, <3>1
    <2>3. QED
      BY <2>1, <2>2
  <1> HIDE DEF S
  <1>4. Min(S) = CHOOSE x \in S : \A y \in S : x <= y
    BY DEF Min
  <1>5. \A x \in S : (\A y \in S : x <= y) => x = k + 1
    BY <1>2, <1>3
  <1>6. Min(S) = k + 1
    BY <1>2, <1>3, <1>4, <1>5
  <1>7. QED
    BY <1>6 DEF Magnitude, S

(* A serial that a circuit takes has as many bytes as a serial, or one less *)
(* and a sign byte.                                                         *)
LEMMA SerialRead ==
  ASSUME NEW v \in Seq(Nat), NEW t \in Seq(Nat), SerialNumber(v, t), SerialLen + 2 <= Len(t)
  PROVE  Serial(SubSeq(t, 1, SerialLen + 2))
           = IF \/ Len(Magnitude(v)) = SerialLen
                \/ Len(Magnitude(v)) = SerialLen - 1 /\ Magnitude(v)[1] >= 128
             THEN {v} ELSE {}
  <1> DEFINE c == SubSeq(t, 1, SerialLen + 2)
  <1>1. SerialLen \in Nat /\ SerialLen >= 2
    BY FieldReadAssumption
  <1>2. /\ c \in Seq(Nat) /\ Len(c) = SerialLen + 2
        /\ \A j \in 1 .. (SerialLen + 2) : c[j] = t[j]
    <2>1. SerialLen + 2 \in Nat
      BY <1>1
    <2>2. QED
      BY <2>1, Window
  <1>3. PICK k \in 0 .. Len(v) :
          /\ \A i \in 1 .. k : v[i] = 0
          /\ k > 0 => Len(v) = SerialLen
          /\ k < Len(v) => v[k + 1] # 0
          /\ Integer(SubSeq(v, k + 1, Len(v)), t)
    BY DEF SerialNumber
  <1> DEFINE m == SubSeq(v, k + 1, Len(v))  M == Minimal(m)  l == Len(m)
             big == High(m)
  <1>4. /\ Magnitude(v) = m /\ Integer(m, t)
    BY <1>3, MagnitudeOf
  <1>5. /\ m \in Seq(Nat) /\ l = Len(v) - k /\ l \in Nat /\ Len(v) >= SerialLen /\ Len(v) \in Nat
        /\ \A j \in 1 .. l : m[j] = v[k + j]
    <2>1. Len(v) >= SerialLen
      BY DEF SerialNumber
    <2>2. /\ m \in Seq(Nat) /\ Len(m) = Len(v) - k
          /\ \A j \in 1 .. Len(m) : m[j] = v[k + j]
      BY Behind
    <2>3. QED
      BY <2>1, <2>2
  <1> HIDE DEF c, m
  <1>6. /\ M \in Seq(Nat) /\ t[1] = Len(M) /\ \A j \in 1 .. Len(M) : t[1 + j] = M[j]
        /\ ~big => M = m
        /\ big => /\ Len(M) = 1 + l /\ M[1] = 0 /\ \A j \in 1 .. l : M[1 + j] = m[j]
    BY <1>4, <1>5, IntegerBytes
  <1>7. v = [j \in 1 .. Len(v) |-> v[j]] /\ M = [j \in 1 .. Len(M) |-> M[j]] /\ Len(M) \in Nat
    BY <1>5, <1>6, ByElements
  <1>8. m = <<>> <=> l = 0
    BY <1>5
  <1> HIDE DEF M, l
  <1>9. Plain(c) = IF Len(M) = SerialLen THEN {M} ELSE {}
    <2>1. c[1] = Len(M)
      BY <1>1, <1>2, <1>6
    <2>2. ASSUME Len(M) = SerialLen PROVE SubSeq(c, 2, SerialLen + 1) = M
      <3>1. 1 \in Nat /\ 1 + SerialLen <= Len(c) /\ 1 + 1 = 2 /\ 1 + SerialLen = SerialLen + 1
        BY <1>1, <1>2
      <3>2. SubSeq(c, 1 + 1, 1 + SerialLen) = [j \in 1 .. SerialLen |-> c[1 + j]]
        BY <1>1, <1>2, <3>1, Slice
      <3>3. ASSUME NEW j \in 1 .. SerialLen PROVE c[1 + j] = M[j]
        <4>1. 1 + j \in 1 .. (SerialLen + 2) /\ j \in 1 .. Len(M)
          BY <1>1, <2>2
        <4>2. QED
          BY <1>2, <1>6, <4>1
      <3>4. QED
        BY <1>7, <2>2, <3>1, <3>2, <3>3
    <2>3. QED
      BY <2>1, <2>2 DEF Plain, When
  <1>10. c[1] = Len(M) /\ (Len(M) >= 1 => c[2] = M[1])
    <2>1. 1 \in 1 .. (SerialLen + 2) /\ 2 \in 1 .. (SerialLen + 2) /\ 1 + 1 = 2
      BY <1>1
    <2>2. Len(M) >= 1 => 1 \in 1 .. Len(M)
      BY <1>7
    <2>3. QED
      BY <1>2, <1>6, <2>1, <2>2
  <1>11. l = SerialLen => m = v
    <2>1. SUFFICES ASSUME l = SerialLen PROVE m = v
      OBVIOUS
    <2>2. k = 0 /\ l = Len(v)
      BY <1>1, <1>3, <1>5, <2>1, SMTT(30)
    <2>3. ASSUME NEW j \in 1 .. Len(v) PROVE m[j] = v[j]
      <3>1. j \in 1 .. l /\ k + j = j
        BY <2>2
      <3>2. QED
        BY <1>5, <3>1
    <2>4. m = [j \in 1 .. Len(v) |-> m[j]]
      BY <1>5, <2>2, ByElements DEF l
    <2>5. QED
      BY <1>7, <2>3, <2>4
  <1>12. CASE ~big
    <2>1. M = m /\ Len(M) = l /\ l # 0 /\ l >= 1
      <3>1. m # <<>>
        BY <1>12 DEF High
      <3>2. M = m /\ Len(M) = l /\ l # 0 /\ l \in Nat
        BY ONLY <1>5, <1>6, <1>8, <1>12, <3>1, Zenon DEF l
      <3>3. QED
        BY ONLY <3>2
    <2>2. m[1] # 0
      <3>1. k < Len(v) /\ 1 \in 1 .. l
        BY <1>5, <2>1
      <3>2. QED
        BY <1>3, <1>5, <3>1
    <2>3. ~(c[1] = SerialLen + 1 /\ c[2] = 0)
      BY <1>10, <2>1, <2>2
    <2>4. Serial(c) = Plain(c)
      BY <2>3 DEF Serial, When
    <2>5. Serial(c) = IF l = SerialLen THEN {v} ELSE {}
      BY <1>9, <1>11, <2>1, <2>4
    <2>6. ~(l = SerialLen - 1 /\ m[1] >= 128)
      BY ONLY <1>12 DEF High
    <2>7. QED
      BY <1>4, <2>5, <2>6 DEF c, l
  <1>13. CASE big
    <2>1. Len(M) = 1 + l /\ M[1] = 0 /\ \A j \in 1 .. l : M[1 + j] = m[j]
      BY <1>6, <1>13
    <2>2. CASE l = SerialLen
      <3>1. Plain(c) = {} /\ c[1] = SerialLen + 1 /\ c[2] = 0
        BY <1>1, <1>9, <1>10, <2>1, <2>2
      <3>2. SubSeq(c, 3, SerialLen + 2) = m
        <4>1. 2 \in Nat /\ 2 + SerialLen <= Len(c) /\ 2 + 1 = 3 /\ 2 + SerialLen = SerialLen + 2
          BY <1>1, <1>2
        <4>2. SubSeq(c, 2 + 1, 2 + SerialLen) = [j \in 1 .. SerialLen |-> c[2 + j]]
          BY <1>1, <1>2, <4>1, Slice
        <4>3. ASSUME NEW j \in 1 .. SerialLen PROVE c[2 + j] = m[j]
          <5>1. 2 + j \in 1 .. (SerialLen + 2) /\ 1 + j \in 1 .. Len(M) /\ 1 + (1 + j) = 2 + j
            BY <1>1, <2>1, <2>2
          <5>2. t[1 + (1 + j)] = M[1 + j]
            BY <1>6, <5>1
          <5>3. QED
            BY <1>2, <2>1, <2>2, <5>1, <5>2
        <4>4. m = [j \in 1 .. SerialLen |-> m[j]]
          BY <1>1, <1>5, <2>2, ByElements DEF l
        <4>5. QED
          BY <4>1, <4>2, <4>3, <4>4
      <3>3. Serial(c) = {v}
        BY <1>11, <2>2, <3>1, <3>2 DEF Serial, When
      <3>4. QED
        BY <1>4, <2>2, <3>3 DEF c, l
    <2>3. CASE l = SerialLen - 1
      <3>1. Len(M) = SerialLen /\ ~(c[1] = SerialLen + 1)
        BY <1>1, <1>10, <2>1, <2>3
      <3>2. Serial(c) = {M}
        BY <1>9, <3>1 DEF Serial, When
      <3>3. M = v
        <4>1. Len(v) = SerialLen /\ k = 1
          BY <1>1, <1>3, <1>5, <2>3
        <4>2. ASSUME NEW j \in 1 .. SerialLen PROVE M[j] = v[j]
          <5>1. CASE j = 1
            BY <1>3, <2>1, <4>1, <5>1
          <5>2. CASE j # 1
            <6>1. j - 1 \in 1 .. l /\ 1 + (j - 1) = j
              BY <1>1, <2>3, <5>2
            <6>2. M[1 + (j - 1)] = m[j - 1] /\ m[j - 1] = v[1 + (j - 1)]
              BY <1>5, <2>1, <4>1, <6>1
            <6>3. QED
              BY <6>1, <6>2
          <5>3. QED
            BY <5>1, <5>2
        <4>3. QED
          BY <1>7, <3>1, <4>1, <4>2
      <3>4. m[1] >= 128
        BY <1>1, <1>8, <1>13, <2>3 DEF High
      <3>5. QED
        BY <1>4, <2>3, <3>2, <3>3, <3>4 DEF c, l
    <2>4. CASE l # SerialLen /\ l # SerialLen - 1
      <3>1. Len(M) # SerialLen /\ Len(M) # SerialLen + 1
        BY <1>1, <1>5, <2>1, <2>4
      <3>2. Serial(c) = {}
        BY <1>9, <1>10, <3>1 DEF Serial, When
      <3>3. QED
        BY <1>4, <2>4, <3>2 DEF c, l
    <2>5. QED
      BY <2>2, <2>3, <2>4
  <1>14. QED
    BY <1>12, <1>13

--------------------------------------------------------------------------------
(* What the issuer writes.                                                  *)

(* Where the context at a place ends, and the signed text behind a place.   *)
Ends(i, j) == j = i + Len(Ctx(doc.kind)) - 1
Rest(j) == SubSeq(doc.body, j + 1, Len(doc.body))

LEMMA Written ==
  ASSUME doc \in Documents, NEW i \in DOMAIN doc.body, OccursAt(doc.body, Ctx(doc.kind), i),
         NEW j, Ends(i, j)
  PROVE  /\ doc.body \in Seq(Nat) /\ j \in 0 .. Len(doc.body) /\ doc.kind \in DOMAIN Width
         /\ Rest(j) \in Seq(Nat) /\ Len(Rest(j)) = Len(doc.body) - j
         /\ \A l \in 1 .. Len(Rest(j)) : Rest(j)[l] = doc.body[j + l]
         /\ \A l, k \in Nat : l + k <= Len(doc.body) - j =>
              SubSeq(Rest(j), l + 1, l + k) = SubSeq(doc.body, j + l + 1, j + l + k)
         /\ Encodes(doc.kind, doc.value, Rest(j))
         /\ doc.kind # "status" => doc.value \in Seq(Nat)
  <1>1. /\ doc.body \in Seq(Nat) /\ doc.kind \in DOMAIN Width
        /\ doc.kind # "status" => doc.value \in Seq(Nat)
    BY FieldReadAssumption
  <1>2. Ctx(doc.kind) \in Seq(Nat) /\ Len(Ctx(doc.kind)) \in Nat \ {0}
    <2>1. Ctx(doc.kind) \in Seq(Nat)
      BY <1>1, Kinds
    <2>2. Len(Ctx(doc.kind)) = IF doc.kind = "validity" THEN 4 ELSE 1
      BY ONLY <1>1, Kinds, Zenon
    <2>3. QED
      BY ONLY <2>1, <2>2
  <1>3. /\ i \in 1 .. Len(doc.body) /\ Len(doc.body) \in Nat
        /\ i + Len(Ctx(doc.kind)) - 1 <= Len(doc.body)
    BY <1>1 DEF OccursAt
  <1> DEFINE n == Len(Ctx(doc.kind))
  <1>4. n \in Nat \ {0}
    BY <1>2
  <1> HIDE DEF n
  <1>5. j = i + n - 1 /\ i + n - 1 <= Len(doc.body)
    BY <1>3 DEF n, Ends
  <1>6. j \in 0 .. Len(doc.body) /\ j + 1 = i + n
    BY <1>3, <1>4, <1>5
  <1>7. Encodes(doc.kind, doc.value, SubSeq(doc.body, i + n, Len(doc.body)))
    BY IssuerAssumption DEF n
  <1>8. Encodes(doc.kind, doc.value, Rest(j))
    BY <1>6, <1>7 DEF Rest
  <1>9. /\ Rest(j) \in Seq(Nat) /\ Len(Rest(j)) = Len(doc.body) - j
        /\ \A l \in 1 .. Len(Rest(j)) : Rest(j)[l] = doc.body[j + l]
        /\ \A l, k \in Nat : l + k <= Len(Rest(j)) =>
             SubSeq(Rest(j), l + 1, l + k) = SubSeq(doc.body, j + l + 1, j + l + k)
    <2> DEFINE t == SubSeq(doc.body, j + 1, Len(doc.body))
    <2>1. /\ t \in Seq(Nat) /\ Len(t) = Len(doc.body) - j
          /\ \A l \in 1 .. Len(t) : t[l] = doc.body[j + l]
          /\ \A l, k \in Nat : l + k <= Len(t) =>
               SubSeq(t, l + 1, l + k) = SubSeq(doc.body, j + l + 1, j + l + k)
      BY ONLY <1>1, <1>6, Behind, Zenon
    <2>2. Rest(j) = t
      BY ONLY DEF Rest
    <2> HIDE DEF t
    <2>3. QED
      BY ONLY <2>1, <2>2, Zenon
  <1>10. QED
    BY <1>1, <1>6, <1>8, <1>9

(* A window of what the issuer wrote, as the circuits index it.             *)
LEMMA Indexed ==
  ASSUME NEW j \in Nat, NEW k \in Nat, j + k <= Len(doc.body),
         \A l, m \in Nat : l + m <= Len(doc.body) - j =>
           SubSeq(Rest(j), l + 1, l + m) = SubSeq(doc.body, j + l + 1, j + l + m),
         Len(doc.body) \in Nat
  PROVE  SubSeq(doc.body, j + 1, j + k) = SubSeq(Rest(j), 1, k)
  <1>1. 0 \in Nat /\ 0 + k <= Len(doc.body) - j
    OBVIOUS
  <1>2. SubSeq(Rest(j), 0 + 1, 0 + k) = SubSeq(doc.body, j + 0 + 1, j + 0 + k)
    BY <1>1
  <1>3. 0 + 1 = 1 /\ 0 + k = k /\ j + 0 + 1 = j + 1 /\ j + 0 + k = j + k
    OBVIOUS
  <1>4. QED
    BY <1>2, <1>3

LEMMA IssuerExact == doc \in Documents => DecodersExact
  <1>1. SUFFICES ASSUME doc \in Documents, NEW i \in DOMAIN doc.body,
                        OccursAt(doc.body, Ctx(doc.kind), i)
                 PROVE  Signs(doc, i + Len(Ctx(doc.kind)) - 1)
    BY DEF DecodersExact
  <1> DEFINE j == i + Len(Ctx(doc.kind)) - 1  t == Rest(j)  v == doc.value
  <1>2. /\ doc.body \in Seq(Nat) /\ j \in 0 .. Len(doc.body) /\ doc.kind \in DOMAIN Width
        /\ t \in Seq(Nat) /\ Len(t) = Len(doc.body) - j
        /\ \A l \in 1 .. Len(t) : t[l] = doc.body[j + l]
        /\ \A l, k \in Nat : l + k <= Len(doc.body) - j =>
             SubSeq(t, l + 1, l + k) = SubSeq(doc.body, j + l + 1, j + l + k)
        /\ Encodes(doc.kind, v, t)
        /\ doc.kind # "status" => v \in Seq(Nat)
    <2>1. Ends(i, j)
      BY DEF Ends
    <2>2. QED
      BY <1>1, <2>1, Written
  <1>3. doc.kind \in {"decimal", "hex", "iso", "status", "serial", "pce", "validity"}
    BY <1>2, Kinds
  <1>4. j \in Nat /\ Len(doc.body) \in Nat
    BY <1>2
  <1> HIDE DEF j
  <1>5. ASSUME NEW k \in Nat, j + k <= Len(doc.body)
        PROVE  SubSeq(doc.body, j + 1, j + k) = SubSeq(t, 1, k) /\ k <= Len(t)
    <2>1. SubSeq(doc.body, j + 1, j + k) = SubSeq(Rest(j), 1, k)
      BY <1>2, <1>4, <1>5, Indexed
    <2>2. k <= Len(t)
      BY <1>2, <1>4, <1>5
    <2>3. QED
      BY <2>1, <2>2
  <1> HIDE DEF t, v
  <1>6. CASE doc.kind = "status"
    <2>1. PICK k \in 1 .. Len(t) :
            /\ t[k] = Quote /\ \A l \in 1 .. (k - 1) : t[l] # Quote
            /\ \/ \E l \in DOMAIN Statuses : SubSeq(t, 1, k - 1) = Statuses[l] /\ v = <<l - 1>>
               \/ \A l \in DOMAIN Statuses : SubSeq(t, 1, k - 1) # Statuses[l]
      BY <1>2, <1>6 DEF Encodes, Closed
    <2>2. StatusSeverity(SubSeq(t, 1, k)) \subseteq {v}
      BY <1>2, <2>1, StatusRead
    <2>3. k \in Nat /\ k \in 1 .. (Len(doc.body) - j) /\ j + k <= Len(doc.body)
      BY <1>2, <1>4
    <2>4. SubSeq(doc.body, j + 1, j + k) = SubSeq(t, 1, k)
      BY <1>5, <2>3
    <2>5. doc.body[j + k] = Quote /\ \A l \in 1 .. (k - 1) : doc.body[j + l] # Quote
      <3>1. doc.body[j + k] = Quote
        BY <1>2, <2>1
      <3>2. ASSUME NEW l \in 1 .. (k - 1) PROVE doc.body[j + l] # Quote
        <4>1. l \in 1 .. Len(t)
          BY <2>3, <1>2, <1>4
        <4>2. QED
          BY <1>2, <2>1, <4>1
      <3>3. QED
        BY <3>1, <3>2
    <2>6. \E m \in 1 .. (Len(doc.body) - j) :
            /\ doc.body[j + m] = Quote /\ \A l \in 1 .. (m - 1) : doc.body[j + l] # Quote
            /\ StatusSeverity(SubSeq(doc.body, j + 1, j + m)) \subseteq {doc.value}
      BY <2>2, <2>3, <2>4, <2>5 DEF v
    <2>7. QED
      BY <1>6, <2>6 DEF Signs, j
  <1>7. CASE doc.kind = "validity"
    <2>1. SUFFICES ASSUME j + 28 <= Len(doc.body), Exact(doc)
                   PROVE  Both(ParseUtcTime(SubSeq(doc.body, j + 1, j + 13)),
                               ParseUtcTime(SubSeq(doc.body, j + 16, j + 28))) \subseteq {v}
      BY <1>7 DEF Signs, v, j
    <2>2. v \in Seq(Nat) /\ Validity30(v, t) /\ ThisCentury(v[1]) /\ ThisCentury(v[3])
      BY <1>2, <1>7, <2>1 DEF Encodes, Exact, v
    <2>3. Both(ParseUtcTime(SubSeq(t, 1, 13)), ParseUtcTime(SubSeq(t, 16, 28))) = {v}
      BY <1>2, <2>2, ValidityRead
    <2>4. SubSeq(doc.body, j + 1, j + 13) = SubSeq(t, 1, 13)
      <3>1. 13 \in Nat /\ j + 13 <= Len(doc.body)
        BY <1>4, <2>1
      <3>2. QED
        BY <1>5, <3>1
    <2>5. SubSeq(doc.body, j + 16, j + 28) = SubSeq(t, 16, 28)
      <3>1. /\ 15 \in Nat /\ 13 \in Nat /\ 15 + 13 <= Len(doc.body) - j
            /\ 15 + 1 = 16 /\ 15 + 13 = 28 /\ j + 15 + 1 = j + 16 /\ j + 15 + 13 = j + 28
        BY <1>4, <2>1
      <3>2. SubSeq(t, 15 + 1, 15 + 13) = SubSeq(doc.body, j + 15 + 1, j + 15 + 13)
        BY <1>2, <3>1
      <3>3. QED
        BY <3>1, <3>2
    <2>6. QED
      BY <2>3, <2>4, <2>5
  <1>8. CASE doc.kind \notin {"status", "validity"}
    <2> DEFINE n == Width[doc.kind]
    <2>1. SUFFICES ASSUME j + n <= Len(doc.body), Exact(doc)
                   PROVE  Decode(doc.kind, SubSeq(doc.body, j + 1, j + n)) \subseteq {v}
      BY <1>8 DEF Signs, v, j
    <2>2. n \in Nat
      BY <1>2, Kinds
    <2>3. SubSeq(doc.body, j + 1, j + n) = SubSeq(t, 1, n) /\ n <= Len(t) /\ v \in Seq(Nat)
      BY <1>2, <1>5, <1>8, <2>1, <2>2
    <2> HIDE DEF n
    <2>4. CASE doc.kind = "decimal"
      <3>1. n = 4 /\ Decimal(v, t) /\ v[1] < Power[5]
        BY <1>2, <2>1, <2>4 DEF n, Width, Encodes, Exact, v
      <3>2. ParseDecimal(SubSeq(t, 1, n)) = {v}
        BY <1>2, <2>3, <3>1, DecimalRead
      <3>3. QED
        BY <2>3, <2>4, <3>2 DEF Decode
    <2>5. CASE doc.kind = "hex"
      <3>1. n = 4 /\ Hex(v, t)
        BY <1>2, <2>5 DEF n, Width, Encodes
      <3>2. HexToBytes(SubSeq(t, 1, n)) = {v}
        BY <1>2, <2>3, <3>1, HexRead
      <3>3. QED
        BY <2>3, <2>5, <3>2 DEF Decode
    <2>6. CASE doc.kind = "iso"
      <3>1. n = 20 /\ Iso8601(v, t)
        BY <1>2, <2>6 DEF n, Width, Encodes
      <3>2. ParseIso8601(SubSeq(t, 1, n)) = {v}
        BY <1>2, <2>3, <3>1, IsoRead
      <3>3. QED
        BY <2>3, <2>6, <3>2 DEF Decode
    <2>7. CASE doc.kind = "serial"
      <3>1. n = SerialLen + 2 /\ SerialNumber(v, t)
        BY <1>2, <2>7 DEF n, Width, Encodes
      <3>2. Serial(SubSeq(t, 1, n)) \subseteq {v}
        BY <1>2, <2>3, <3>1, SerialRead
      <3>3. QED
        BY <2>3, <2>7, <3>2 DEF Decode
    <2>8. CASE doc.kind = "pce"
      <3>1. n = 3 /\ PceNumber(v, t)
        BY <1>2, <2>8 DEF n, Width, Encodes
      <3>2. PceSvn(SubSeq(t, 1, n)) \subseteq {v}
        BY <1>2, <2>3, <3>1, PceRead
      <3>3. QED
        BY <2>3, <2>8, <3>2 DEF Decode
    <2>9. QED
      BY <1>3, <1>8, <2>4, <2>5, <2>6, <2>7, <2>8
  <1>9. QED
    BY <1>6, <1>7, <1>8

--------------------------------------------------------------------------------
(* The dates of a certificate.                                              *)

LEMMA NoTimes == /\ Times({}) = {} /\ \A x : Both({}, x) = {} /\ \A y : Both(y, {}) = {}
  BY DEF Times, Both

(* Noir looks at the tag of the second date, gnark trusts it; behind the    *)
(* context of the first, the issuer signed it.                              *)
LEMMA ValidityAgrees ==
  ASSUME Buffered, doc.kind = "validity", NEW o \in 0 .. (P - 1)
  PROVE  /\ GnarkValidity(o) = NoirValidity(o)
         /\ \/ GnarkValidity(o) = {}
            \/ /\ o + 32 <= signedLen
               /\ o + 1 \in DOMAIN doc.body /\ OccursAt(doc.body, CertValidityCtx, o + 1)
               /\ GnarkValidity(o) = Both(ParseUtcTime(Taken(o + 4, 13)), ParseUtcTime(Taken(o + 19, 13)))
  <1> DEFINE ctx == CertValidityCtx
             first == Extracted(o, ctx, 13)
  <1>1. /\ ctx \in Seq(Nat) /\ Len(ctx) = 4 /\ UtcTag \in Seq(Nat) /\ Len(UtcTag) = 2
        /\ <<>> \in Seq(Nat) /\ Len(<<>>) = 0 /\ o \in Nat
        /\ UtcTag[1] = 23 /\ UtcTag[2] = 13
    BY Parameters DEF CertValidityCtx, UtcTag
  <1>2. /\ signedLen \in Nat /\ signedLen <= Capacity
        /\ doc.body \in Seq(Nat) /\ signedLen = Len(doc.body)
    BY BufferFacts DEF signedLen
  <1>3. 17 \in 1 .. Reach /\ 15 \in 1 .. Reach /\ 13 \in 1 .. Reach /\ 4 + 13 = 17 /\ 2 + 13 = 15
    BY Parameters
  <1> HIDE DEF ctx
  <1>4. ExtractField(o, ctx, 13) = first /\ NoirExtractField(o, ctx, 13) = first
    <2>1. Len(ctx) + 13 \in 1 .. Reach /\ 13 \in Nat
      BY <1>1, <1>3
    <2>2. ExtractField(o, ctx, 13) = Extracted(o, ctx, 13)
      BY <1>1, <2>1, Extracts
    <2>3. NoirExtractField(o, ctx, 13) = Extracted(o, ctx, 13)
      BY <1>1, <2>1, NoirExtracts
    <2>4. QED
      BY <2>2, <2>3
  <1>5. /\ GnarkValidity(o) = Both(Times(first), Times(ExtractField((o + 19) % P, <<>>, 13)))
        /\ NoirValidity(o) = Both(Times(first), Times(NoirExtractField(o + 17, UtcTag, 13)))
    BY <1>4 DEF GnarkValidity, NoirValidity, ctx
  <1> HIDE DEF first
  <1>6. CASE first = {}
    BY <1>5, <1>6, NoTimes
  <1>7. CASE first # {}
    <2>1. /\ o + 17 <= signedLen /\ first = After(ctx, {Taken(o, Len(ctx) + 13)})
      BY <1>1, <1>2, <1>7 DEF Extracted, first
    <2>a. /\ o + Len(ctx) + 13 <= Capacity /\ 13 \in Nat /\ o + Len(ctx) = o + 4
          /\ Len(ctx) >= 1 /\ o + Len(ctx) <= signedLen
      <3>1. o + 17 <= Capacity
        BY <1>1, <1>2, <2>1, Parameters
      <3>2. QED
        BY <1>1, <1>2, <2>1, <3>1
    <2>2. /\ \A i \in 1 .. Len(ctx) : buf[o + i] = ctx[i]
          /\ first = {Taken(o + 4, 13)}
      <3>1. /\ (\A i \in 1 .. Len(ctx) : buf[o + i] = ctx[i])
                  => After(ctx, {Taken(o, Len(ctx) + 13)}) = {Taken(o + Len(ctx), 13)}
            /\ ~(\A i \in 1 .. Len(ctx) : buf[o + i] = ctx[i])
                  => After(ctx, {Taken(o, Len(ctx) + 13)}) = {}
        BY <1>1, <2>a, Stripped
      <3>2. QED
        BY <1>7, <2>1, <2>a, <3>1
    <2>3. o + 1 \in DOMAIN doc.body /\ OccursAt(doc.body, ctx, o + 1)
      BY <1>1, <2>a, <2>2, SignedContext
    <2>4. (o + 19) % P = o + 19 /\ o + 19 \in 0 .. (P - 1)
      <3>1. o + 19 \in 0 .. (P - 1) /\ P \in Nat \ {0}
        BY <1>1, <1>2, <2>1, Parameters
      <3>2. QED
        BY <3>1
    <2>5. /\ ExtractField((o + 19) % P, <<>>, 13) = Extracted(o + 19, <<>>, 13)
          /\ NoirExtractField(o + 17, UtcTag, 13) = Extracted(o + 17, UtcTag, 13)
      <3>1. Len(<<>>) + 13 \in 1 .. Reach /\ Len(UtcTag) + 13 \in 1 .. Reach /\ o + 17 \in Nat
        BY <1>1, <1>3
      <3>2. ExtractField(o + 19, <<>>, 13) = Extracted(o + 19, <<>>, 13)
        BY <1>1, <2>4, <3>1, Extracts, ZenonT(40)
      <3>3. NoirExtractField(o + 17, UtcTag, 13) = Extracted(o + 17, UtcTag, 13)
        BY <1>1, <3>1, NoirExtracts
      <3>4. QED
        BY <2>4, <3>2, <3>3
    <2>6. CASE ~(o + 32 <= signedLen)
      <3>1. Extracted(o + 19, <<>>, 13) = {} /\ Extracted(o + 17, UtcTag, 13) = {}
        BY <1>1, <1>2, <2>6 DEF Extracted
      <3>2. QED
        BY <1>5, <2>5, <3>1, NoTimes
    <2>7. CASE o + 32 <= signedLen
      <3>1. SubSeq(doc.body, o + 18, o + 19) = UtcTag
        <4>1. (o + 1) + 31 <= Len(doc.body)
          BY <1>1, <1>2, <2>7 DEF signedLen
        <4>2. Encodes("validity", doc.value, Rest(o + 4)) /\ SubSeq(Rest(o + 4), 14, 15) = SubSeq(doc.body, o + 18, o + 19)
          <5>1. /\ Encodes("validity", doc.value, Rest(o + 4))
                /\ \A l, k \in Nat : l + k <= Len(doc.body) - (o + 4) =>
                     SubSeq(Rest(o + 4), l + 1, l + k) = SubSeq(doc.body, (o + 4) + l + 1, (o + 4) + l + k)
            <6>1. /\ o + 1 \in DOMAIN doc.body /\ OccursAt(doc.body, Ctx(doc.kind), o + 1)
                  /\ Ctx(doc.kind) = ctx /\ doc \in Documents
                  /\ o + 4 = (o + 1) + Len(Ctx(doc.kind)) - 1
              <7>1. Ctx(doc.kind) = ctx
                BY ONLY doc.kind = "validity" DEF Ctx, ctx
              <7>2. o + 1 \in DOMAIN doc.body /\ OccursAt(doc.body, ctx, o + 1) /\ doc \in Documents
                BY <2>3 DEF Buffered
              <7>3. o + 4 = (o + 1) + Len(Ctx(doc.kind)) - 1
                <8>1. Len(Ctx(doc.kind)) = 4 /\ o \in Nat
                  BY <1>1, <7>1
                <8>2. QED
                  BY ONLY <8>1
              <7>4. QED
                BY ONLY <7>1, <7>2, <7>3
            <6>2. QED
              <7> DEFINE i == o + 1  j == o + 4
              <7>1. /\ i \in DOMAIN doc.body /\ OccursAt(doc.body, Ctx(doc.kind), i)
                    /\ doc \in Documents /\ Ends(i, j)
                BY ONLY <6>1 DEF Ends
              <7> HIDE DEF i, j
              <7>2. /\ Encodes(doc.kind, doc.value, Rest(j))
                    /\ \A l, k \in Nat : l + k <= Len(doc.body) - j =>
                         SubSeq(Rest(j), l + 1, l + k) = SubSeq(doc.body, j + l + 1, j + l + k)
                BY ONLY <7>1, Written, ZenonT(40)
              <7>3. QED
                BY ONLY <7>2, doc.kind = "validity", Zenon DEF j
          <5>2. /\ 13 \in Nat /\ 2 \in Nat /\ 13 + 2 <= Len(doc.body) - (o + 4)
                /\ 13 + 1 = 14 /\ 13 + 2 = 15
                /\ (o + 4) + 13 + 1 = o + 18 /\ (o + 4) + 13 + 2 = o + 19
            BY <1>1, <1>2, <4>1
          <5>3. SubSeq(Rest(o + 4), 13 + 1, 13 + 2) = SubSeq(doc.body, (o + 4) + 13 + 1, (o + 4) + 13 + 2)
            BY <5>1, <5>2
          <5>4. QED
            BY <5>1, <5>2, <5>3
        <4>3. QED
          BY <4>2 DEF Encodes, Validity30
      <3>2. \A i \in 1 .. 2 : buf[(o + 17) + i] = UtcTag[i]
        <4>1. \A i \in 1 .. signedLen : buf[i] = doc.body[i]
          BY BufferFacts
        <4>2. SubSeq(doc.body, o + 18, o + 19)[1] = doc.body[o + 18]
          BY <1>1, <1>2, <2>7
        <4>3. SubSeq(doc.body, o + 18, o + 19)[2] = doc.body[o + 19]
          BY <1>1, <1>2, <2>7
        <4>4. buf[o + 18] = UtcTag[1] /\ buf[o + 19] = UtcTag[2]
          <5>1. o + 18 \in 1 .. signedLen /\ o + 19 \in 1 .. signedLen
            BY <1>1, <1>2, <2>7, SMTT(30)
          <5>2. QED
            BY <3>1, <4>1, <4>2, <4>3, <5>1
        <4>5. QED
          BY <1>1, <4>4
      <3>3. Extracted(o + 17, UtcTag, 13) = {Taken(o + 19, 13)}
        <4>1. Extracted(o + 17, UtcTag, 13) = After(UtcTag, {Taken(o + 17, Len(UtcTag) + 13)})
          BY <1>1, <1>2, <2>7 DEF Extracted
        <4>2. /\ (o + 17) + Len(UtcTag) + 13 <= Capacity
              /\ (o + 17) + Len(UtcTag) = o + 19 /\ o + 17 \in Nat
          BY <1>1, <1>2, <2>7, Parameters
        <4>3. QED
          <5>1. 13 \in Nat
            OBVIOUS
          <5>2. (\A i \in 1 .. Len(UtcTag) : buf[(o + 17) + i] = UtcTag[i])
                  => After(UtcTag, {Taken(o + 17, Len(UtcTag) + 13)})
                       = {Taken((o + 17) + Len(UtcTag), 13)}
            BY <1>1, <4>2, <5>1, Stripped, ZenonT(40)
          <5>3. QED
            BY <1>1, <3>2, <4>1, <4>2, <5>2
      <3>4. Extracted(o + 19, <<>>, 13) = {Taken(o + 19, 13)}
        <4>1. Extracted(o + 19, <<>>, 13) = After(<<>>, {Taken(o + 19, Len(<<>>) + 13)})
          BY <1>1, <1>2, <2>7 DEF Extracted
        <4>2. /\ (o + 19) + Len(<<>>) + 13 <= Capacity
              /\ (o + 19) + Len(<<>>) = o + 19 /\ o + 19 \in Nat
          BY <1>1, <1>2, <2>7, Parameters
        <4>3. \A i \in 1 .. Len(<<>>) : buf[(o + 19) + i] = <<>>[i]
          BY <1>1
        <4>4. QED
          <5>1. 13 \in Nat
            OBVIOUS
          <5>2. (\A i \in 1 .. Len(<<>>) : buf[(o + 19) + i] = <<>>[i])
                  => After(<<>>, {Taken(o + 19, Len(<<>>) + 13)})
                       = {Taken((o + 19) + Len(<<>>), 13)}
            BY <1>1, <4>2, <5>1, Stripped, ZenonT(40)
          <5>3. QED
            BY <4>1, <4>2, <4>3, <5>2
      <3>5. \A c : Times({c}) = ParseUtcTime(c)
        BY DEF Times
      <3>6. QED
        BY <1>5, <2>2, <2>3, <2>5, <2>7, <3>3, <3>4, <3>5 DEF ctx
    <2>8. QED
      BY <2>6, <2>7
  <1>8. QED
    BY <1>6, <1>7

--------------------------------------------------------------------------------
(* All fields.                                                              *)

LEMMA ReadsAlike ==
  ASSUME Buffered, NEW o \in 0 .. (P - 1)
  PROVE  Gnark(doc.kind, o) = Noir(doc.kind, o)
  <1> DEFINE kind == doc.kind
  <1>1. kind \in DOMAIN Width /\ o \in Nat
    BY FieldReadAssumption, Parameters DEF Buffered
  <1>2. /\ Ctx(kind) \in Seq(Nat) /\ Width[kind] \in Nat \ {0}
        /\ Len(Ctx(kind)) + Width[kind] \in 1 .. Reach
        /\ kind \in {"decimal", "hex", "iso", "status", "serial", "pce", "validity"}
    BY <1>1, Kinds
  <1> HIDE DEF kind
  <1>3. CASE kind = "validity"
    <2>1. GnarkValidity(o) = NoirValidity(o)
      BY <1>3, ValidityAgrees DEF kind
    <2>2. QED
      BY <1>3, <2>1 DEF Gnark, Noir, Json, kind
  <1>4. CASE kind = "status"
    <2>1. ExtractStringEnumLU(o, Ctx(kind), Width[kind]) = NoirStringEnum(o, Ctx(kind), Width[kind])
      BY <1>2, StatusExtracts
    <2>2. QED
      BY <1>4, <2>1 DEF Gnark, Noir, kind
  <1>5. CASE kind \notin {"validity", "status"}
    <2>1. /\ ExtractField(o, Ctx(kind), Width[kind]) = Extracted(o, Ctx(kind), Width[kind])
          /\ ExtractFieldLU(o, Ctx(kind), Width[kind]) = Extracted(o, Ctx(kind), Width[kind])
      BY <1>2, Extracts
    <2>2. NoirExtractField(o, Ctx(kind), Width[kind]) = Extracted(o, Ctx(kind), Width[kind])
      BY <1>1, <1>2, NoirExtracts
    <2>3. Gnark(kind, o) = Decoded(kind, Extracted(o, Ctx(kind), Width[kind]))
      <3>1. CASE kind \in {"serial", "pce"}
        BY <2>1, <3>1 DEF Gnark, Json
      <3>2. CASE kind \in {"decimal", "hex", "iso"}
        BY <2>1, <3>2 DEF Gnark, Json
      <3>3. QED
        BY <1>2, <1>5, <3>1, <3>2
    <2>4. Noir(kind, o) = Decoded(kind, Extracted(o, Ctx(kind), Width[kind]))
      BY <1>5, <2>2 DEF Noir
    <2>5. QED
      BY <2>3, <2>4 DEF kind
  <1>6. QED
    BY <1>3, <1>4, <1>5

(* A status that is closed in the signed text is decided by it.             *)
LEMMA ClosedStatus ==
  ASSUME NEW c \in Seq(Nat), NEW e \in Seq(Nat), Len(e) >= 1,
         e[Len(e)] = Quote, \A i \in 1 .. (Len(e) - 1) : e[i] # Quote,
         \A i \in 1 .. Len(e) : i <= Len(c) => c[i] = e[i]
  PROVE  StatusSeverity(c) \subseteq StatusSeverity(e)
  <1> DEFINE k == Len(e)
  <1>1. k \in Nat \ {0} /\ Len(c) \in Nat
    OBVIOUS
  <1> HIDE DEF k
  <1>2. ASSUME NEW j \in DOMAIN Statuses
        PROVE  /\ Literal(c, Statuses[j]) => k <= Len(c)
               /\ k <= Len(c) => (Literal(c, Statuses[j]) <=> Literal(e, Statuses[j]))
    <2>1. Statuses[j] \in Seq(Nat) /\ \A i \in DOMAIN Statuses[j] : Statuses[j][i] # Quote
      BY StatusWords
    <2>2. /\ \A i \in 1 .. (k - 1) : i <= Len(c) => c[i] # Quote
          /\ k <= Len(c) => c[k] = Quote
      <3>1. ASSUME NEW i \in 1 .. (k - 1), i <= Len(c) PROVE c[i] # Quote
        <4>1. i \in 1 .. k
          BY <1>1, <3>1
        <4>2. c[i] = e[i]
          BY <3>1, <4>1 DEF k
        <4>3. e[i] # Quote
          BY <3>1 DEF k
        <4>4. QED
          BY <4>2, <4>3
      <3>2. ASSUME k <= Len(c) PROVE c[k] = Quote
        <4>1. k \in 1 .. k
          BY <1>1
        <4>2. QED
          BY <3>2, <4>1 DEF k
      <3>3. QED
        BY <3>1, <3>2
    <2>3. /\ \A i \in 1 .. (k - 1) : i <= Len(e) => e[i] # Quote
          /\ k <= Len(e) => e[k] = Quote
          /\ k <= Len(e)
      BY <1>1 DEF k
    <2>4. Literal(c, Statuses[j]) <=> /\ k <= Len(c) /\ Len(Statuses[j]) = k - 1
                                      /\ \A i \in 1 .. (k - 1) : c[i] = Statuses[j][i]
      BY <1>1, <2>1, <2>2, ClosedLiteral
    <2>5. Literal(e, Statuses[j]) <=> /\ k <= Len(e) /\ Len(Statuses[j]) = k - 1
                                      /\ \A i \in 1 .. (k - 1) : e[i] = Statuses[j][i]
      BY <1>1, <2>1, <2>3, ClosedLiteral
    <2>6. ASSUME k <= Len(c), NEW i \in 1 .. (k - 1) PROVE c[i] = e[i]
      <3>1. i \in 1 .. k /\ i <= Len(c)
        BY <1>1, <2>6
      <3>2. QED
        BY <3>1 DEF k
    <2>7. QED
      BY <2>3, <2>4, <2>5, <2>6
  <1>3. SUFFICES ASSUME NEW i \in DOMAIN Statuses,
                        \A j \in DOMAIN Statuses : Literal(c, Statuses[j]) <=> j = i
                 PROVE  \A j \in DOMAIN Statuses : Literal(e, Statuses[j]) <=> j = i
    BY DEF StatusSeverity
  <1>4. k <= Len(c)
    BY <1>2, <1>3
  <1>5. QED
    BY <1>2, <1>3, <1>4

--------------------------------------------------------------------------------
(* What is read is what the issuer signed.                                  *)

(* A window behind a context of the signed text.                            *)
LEMMA SignedField ==
  ASSUME Buffered, NEW o \in 0 .. (P - 1), NEW ctx \in Seq(Nat), Len(ctx) >= 1, NEW n \in Nat,
         Len(ctx) + n \in 1 .. Reach
  PROVE  \/ Extracted(o, ctx, n) = {}
         \/ /\ o + Len(ctx) + n <= signedLen
            /\ o + 1 \in DOMAIN doc.body /\ OccursAt(doc.body, ctx, o + 1)
            /\ Extracted(o, ctx, n)
                 = {SubSeq(doc.body, (o + Len(ctx)) + 1, (o + Len(ctx)) + n)}
  <1>1. signedLen \in Nat /\ signedLen <= Capacity /\ o \in Nat /\ Len(ctx) \in Nat
    BY BufferFacts, Parameters
  <1>2. CASE ~(o + Len(ctx) + n <= signedLen)
    BY <1>2 DEF Extracted
  <1>3. CASE o + Len(ctx) + n <= signedLen
    <2>1. o + Len(ctx) + n <= Capacity /\ o + Len(ctx) <= signedLen /\ o + Len(ctx) \in Nat
      BY <1>1, <1>3, Parameters
    <2>2. Extracted(o, ctx, n) = After(ctx, {Taken(o, Len(ctx) + n)})
      BY <1>3 DEF Extracted
    <2>3. CASE ~(\A i \in 1 .. Len(ctx) : buf[o + i] = ctx[i])
      <3>1. After(ctx, {Taken(o, Len(ctx) + n)}) = {}
        BY <1>1, <2>1, <2>3, Stripped
      <3>2. QED
        BY <2>2, <3>1
    <2>4. CASE \A i \in 1 .. Len(ctx) : buf[o + i] = ctx[i]
      <3>1. After(ctx, {Taken(o, Len(ctx) + n)}) = {Taken(o + Len(ctx), n)}
        BY <1>1, <2>1, <2>4, Stripped
      <3>2. Taken(o + Len(ctx), n) = SubSeq(doc.body, (o + Len(ctx)) + 1, (o + Len(ctx)) + n)
        BY <1>3, <2>1, TakenIsSigned
      <3>3. o + 1 \in DOMAIN doc.body /\ OccursAt(doc.body, ctx, o + 1)
        BY <1>1, <2>1, <2>4, SignedContext
      <3>4. QED
        BY <1>3, <2>2, <3>1, <3>2, <3>3
    <2>5. QED
      BY <2>3, <2>4
  <1>4. QED
    BY <1>2, <1>3

LEMMA IssuerSigns ==
  ASSUME Buffered, NEW o \in Nat,
         o + 1 \in DOMAIN doc.body, OccursAt(doc.body, Ctx(doc.kind), o + 1)
  PROVE  Signs(doc, o + Len(Ctx(doc.kind)))
  <1>1. Signs(doc, (o + 1) + Len(Ctx(doc.kind)) - 1)
    BY IssuerExact DEF DecodersExact, Buffered
  <1>2. Len(Ctx(doc.kind)) \in Nat
    BY FieldReadAssumption, Kinds DEF Buffered
  <1>3. (o + 1) + Len(Ctx(doc.kind)) - 1 = o + Len(Ctx(doc.kind))
    BY <1>2
  <1>4. QED
    BY <1>1, <1>3

LEMMA StatusOfIssuer ==
  ASSUME Buffered, doc.kind = "status", NEW o \in 0 .. (P - 1)
  PROVE  Noir(doc.kind, o) \subseteq {doc.value}
  <1> DEFINE ctx == Ctx("status")  n == Width["status"]
             i == o + 1
  <1>1. /\ ctx \in Seq(Nat) /\ Len(ctx) = 1 /\ n \in Nat \ {0} /\ Len(ctx) + n \in 1 .. Reach
        /\ "status" \in DOMAIN Width
    BY Kinds DEF Width
  <1>2. signedLen \in Nat /\ signedLen <= Capacity /\ o \in Nat /\ signedLen = Len(doc.body)
    BY BufferFacts, Parameters DEF signedLen
  <1> HIDE DEF ctx, n
  <1>3. Noir(doc.kind, o) = Decoded("status", Opened(o, ctx, n))
    BY <1>1, StatusExtracts DEF Noir, ctx, n
  <1>4. CASE Opened(o, ctx, n) = {}
    BY <1>3, <1>4 DEF Decoded
  <1>5. CASE Opened(o, ctx, n) # {}
    <2>1. /\ o + Len(ctx) + 1 <= signedLen /\ o + Len(ctx) + n <= Capacity
          /\ Opened(o, ctx, n) = After(ctx, {Taken(o, Len(ctx) + n)})
      BY <1>5 DEF Opened
    <2>2. \A j \in 1 .. Len(ctx) : buf[o + j] = ctx[j]
      BY <1>1, <1>2, <1>5, <2>1, Stripped
    <2>3. /\ After(ctx, {Taken(o, Len(ctx) + n)}) = {Taken(o + Len(ctx), n)}
      BY <1>1, <1>2, <2>1, <2>2, Stripped
    <2>4. Opened(o, ctx, n) = {Taken(i, n)} /\ i \in Nat /\ i + n <= Capacity /\ i + 1 <= signedLen
      <3>1. /\ o + Len(ctx) = i /\ i \in Nat
            /\ i + 1 = (o + Len(ctx)) + 1 /\ i + n = (o + Len(ctx)) + n
        BY <1>1, <1>2
      <3>2. i + n <= Capacity /\ i + 1 <= signedLen
        BY <1>1, <1>2, <2>1, <3>1
      <3>3. Opened(o, ctx, n) = {Taken(i, n)}
        BY <2>1, <2>3, <3>1
      <3>4. QED
        BY <3>1, <3>2, <3>3
    <2>5. Len(ctx) >= 1 /\ o + Len(ctx) <= signedLen
      BY <1>1, <1>2, <2>1
    <2>6. o + 1 \in DOMAIN doc.body /\ OccursAt(doc.body, ctx, o + 1)
      BY <1>1, <1>2, <2>2, <2>5, SignedContext
    <2>7. Signs(doc, i)
      <3>1. Ctx(doc.kind) = ctx /\ o + Len(ctx) = i
        BY <1>1, <1>2 DEF ctx
      <3>2. Signs(doc, o + Len(Ctx(doc.kind)))
        BY <1>2, <2>6, <3>1, IssuerSigns
      <3>3. QED
        BY <3>1, <3>2
    <2> HIDE DEF i
    <2>8. PICK k \in 1 .. (Len(doc.body) - i) :
             /\ doc.body[i + k] = Quote /\ \A j \in 1 .. (k - 1) : doc.body[i + j] # Quote
             /\ StatusSeverity(SubSeq(doc.body, i + 1, i + k)) \subseteq {doc.value}
      BY <2>7 DEF Signs
    <2> DEFINE e == SubSeq(doc.body, i + 1, i + k)
               c == Taken(i, n)
    <2>9. /\ doc.body \in Seq(Nat) /\ k \in Nat \ {0} /\ i + k <= Len(doc.body)
          /\ \A j \in 1 .. signedLen : buf[j] = doc.body[j]
      BY <1>2, <2>4, <2>8, BufferFacts
    <2>10. e = [j \in 1 .. k |-> doc.body[i + j]]
      BY <2>4, <2>9, Slice
    <2>11. e \in Seq(Nat) /\ Len(e) = k /\ \A j \in 1 .. k : e[j] = doc.body[i + j]
      <3>1. \A j \in 1 .. k : i + j \in 1 .. Len(doc.body) /\ doc.body[i + j] \in Nat
        <4>1. ASSUME NEW j \in 1 .. k PROVE i + j \in 1 .. Len(doc.body)
          BY <1>2, <2>4, <2>9
        <4>2. ASSUME NEW j \in 1 .. Len(doc.body) PROVE doc.body[j] \in Nat
          BY <2>9
        <4>3. QED
          BY <4>1, <4>2
      <3>2. e \in Seq(Nat) /\ Len(e) = k
        <4> HIDE DEF e
        <4>1. QED
          BY <2>9, <2>10, <3>1
      <3>3. ASSUME NEW j \in 1 .. k PROVE e[j] = doc.body[i + j]
        <4> HIDE DEF e
        <4>1. QED
          BY <2>10
      <3>4. QED
        BY <3>2, <3>3
    <2>12. c \in Seq(Nat) /\ Len(c) = n /\ \A j \in 1 .. n : c[j] = buf[i + j]
      BY <1>1, <2>4, TakenFacts
    <2> HIDE DEF e, c
    <2>13. ASSUME NEW j \in 1 .. k, j <= Len(c) PROVE c[j] = e[j]
      <3>1. j \in 1 .. n /\ i + j \in 1 .. signedLen
        BY <1>1, <1>2, <2>4, <2>9, <2>12, <2>13
      <3>2. QED
        BY <2>9, <2>11, <2>12, <3>1
    <2>14. /\ e[Len(e)] = Quote /\ Len(e) >= 1
           /\ \A j \in 1 .. (Len(e) - 1) : e[j] # Quote
      <3>1. k \in 1 .. k /\ \A j \in 1 .. (k - 1) : j \in 1 .. k
        BY <2>9
      <3>2. e[Len(e)] = Quote /\ Len(e) >= 1
        BY <2>8, <2>9, <2>11, <3>1
      <3>3. ASSUME NEW j \in 1 .. (Len(e) - 1) PROVE e[j] # Quote
        <4>1. j \in 1 .. (k - 1) /\ j \in 1 .. k
          BY <2>9, <2>11, <3>3
        <4>2. e[j] = doc.body[i + j] /\ doc.body[i + j] # Quote
          BY <2>8, <2>11, <4>1
        <4>3. QED
          BY <4>2
      <3>4. QED
        BY <3>2, <3>3
    <2>15. StatusSeverity(c) \subseteq StatusSeverity(e)
      BY <2>11, <2>12, <2>13, <2>14, ClosedStatus
    <2>16. Noir(doc.kind, o) = StatusSeverity(c)
      BY <1>3, <2>4 DEF Decoded, Decode, c
    <2>17. QED
      BY <2>8, <2>15, <2>16 DEF e
  <1>6. QED
    BY <1>4, <1>5

LEMMA ValidityOfIssuer ==
  ASSUME Buffered, doc.kind = "validity", Exact(doc), NEW o \in 0 .. (P - 1)
  PROVE  Noir(doc.kind, o) \subseteq {doc.value}
  <1>1. Noir(doc.kind, o) = GnarkValidity(o)
    BY ValidityAgrees DEF Noir
  <1>2. CASE GnarkValidity(o) = {}
    BY <1>1, <1>2
  <1>3. CASE GnarkValidity(o) # {}
    <2>1. /\ o + 32 <= signedLen
          /\ o + 1 \in DOMAIN doc.body /\ OccursAt(doc.body, CertValidityCtx, o + 1)
          /\ GnarkValidity(o) = Both(ParseUtcTime(Taken(o + 4, 13)), ParseUtcTime(Taken(o + 19, 13)))
      BY <1>3, ValidityAgrees
    <2>2. signedLen \in Nat /\ signedLen = Len(doc.body) /\ o \in Nat
      BY BufferFacts, Parameters DEF signedLen
    <2>3. Ctx(doc.kind) = CertValidityCtx /\ Len(CertValidityCtx) = 4
      BY DEF Ctx, CertValidityCtx
    <2>4. Signs(doc, o + 4)
      BY <2>1, <2>2, <2>3, IssuerSigns
    <2>5. /\ Taken(o + 4, 13) = SubSeq(doc.body, (o + 4) + 1, (o + 4) + 13)
          /\ Taken(o + 19, 13) = SubSeq(doc.body, (o + 19) + 1, (o + 19) + 13)
      <3>1. /\ 13 \in Nat /\ o + 4 \in Nat /\ o + 19 \in Nat
            /\ (o + 4) + 13 <= signedLen /\ (o + 19) + 13 <= signedLen
        BY <2>1, <2>2
      <3>2. Taken(o + 4, 13) = SubSeq(doc.body, (o + 4) + 1, (o + 4) + 13)
        BY <3>1, TakenIsSigned
      <3>3. Taken(o + 19, 13) = SubSeq(doc.body, (o + 19) + 1, (o + 19) + 13)
        BY <3>1, TakenIsSigned
      <3>4. QED
        BY <3>2, <3>3
    <2>6. /\ (o + 19) + 1 = (o + 4) + 16 /\ (o + 19) + 13 = (o + 4) + 28
          /\ (o + 4) + 28 <= Len(doc.body)
      BY <2>1, <2>2
    <2>7. Both(ParseUtcTime(SubSeq(doc.body, (o + 4) + 1, (o + 4) + 13)),
               ParseUtcTime(SubSeq(doc.body, (o + 4) + 16, (o + 4) + 28))) \subseteq {doc.value}
      BY <2>4, <2>6 DEF Signs
    <2>8. QED
      BY <1>1, <2>1, <2>5, <2>6, <2>7
  <1>4. QED
    BY <1>2, <1>3

LEMMA OtherOfIssuer ==
  ASSUME Buffered, doc.kind \notin {"status", "validity"}, Exact(doc),
         NEW o \in 0 .. (P - 1)
  PROVE  Noir(doc.kind, o) \subseteq {doc.value}
  <1> DEFINE kind == doc.kind  ctx == Ctx(kind)  n == Width[kind]
  <1>1. /\ kind \in DOMAIN Width /\ o \in Nat
    BY FieldReadAssumption, Parameters DEF Buffered
  <1>2. ctx \in Seq(Nat) /\ Len(ctx) = 1 /\ n \in Nat /\ Len(ctx) + n \in 1 .. Reach
    BY <1>1, Kinds
  <1>3. Noir(kind, o) = Decoded(kind, NoirExtractField(o, ctx, n))
    BY DEF Noir
  <1>4. /\ OccursAt(doc.body, ctx, o + 1) /\ o + 1 \in DOMAIN doc.body => Signs(doc, o + Len(ctx))
    BY <1>1, IssuerSigns
  <1>5. Signs(doc, o + Len(ctx)) /\ (o + Len(ctx)) + n <= Len(doc.body)
          => Decode(kind, SubSeq(doc.body, (o + Len(ctx)) + 1, (o + Len(ctx)) + n))
               \subseteq {doc.value}
    BY DEF Signs
  <1> HIDE DEF kind, ctx, n
  <1>6. NoirExtractField(o, ctx, n) = Extracted(o, ctx, n)
    BY <1>1, <1>2, NoirExtracts
  <1>7. CASE Extracted(o, ctx, n) = {}
    BY <1>3, <1>6, <1>7 DEF Decoded, kind
  <1>8. CASE Extracted(o, ctx, n) # {}
    <2>1. /\ o + Len(ctx) + n <= signedLen
          /\ o + 1 \in DOMAIN doc.body /\ OccursAt(doc.body, ctx, o + 1)
          /\ Extracted(o, ctx, n)
               = {SubSeq(doc.body, (o + Len(ctx)) + 1, (o + Len(ctx)) + n)}
      <3>1. Len(ctx) >= 1
        BY <1>2
      <3>2. \/ Extracted(o, ctx, n) = {}
            \/ /\ o + Len(ctx) + n <= signedLen
               /\ o + 1 \in DOMAIN doc.body /\ OccursAt(doc.body, ctx, o + 1)
               /\ Extracted(o, ctx, n)
                    = {SubSeq(doc.body, (o + Len(ctx)) + 1, (o + Len(ctx)) + n)}
        BY <1>2, <3>1, SignedField, ZenonT(40)
      <3>3. QED
        BY <1>8, <3>2
    <2>2. (o + Len(ctx)) + n <= Len(doc.body)
      BY <2>1 DEF signedLen
    <2>3. Decode(kind, SubSeq(doc.body, (o + Len(ctx)) + 1, (o + Len(ctx)) + n))
            \subseteq {doc.value}
      BY <1>4, <1>5, <2>1, <2>2
    <2>4. QED
      BY <1>3, <1>6, <2>1, <2>3 DEF Decoded, kind
  <1>9. QED
    BY <1>7, <1>8
--------------------------------------------------------------------------------
(* What a host's offset, the place of a context, makes the circuits read.   *)

LEMMA ContextBuffered ==
  ASSUME Buffered, NEW o \in Nat, NEW ctx \in Seq(Nat), OccursAt(doc.body, ctx, o + 1)
  PROVE  o + Len(ctx) <= signedLen /\ \A i \in 1 .. Len(ctx) : buf[o + i] = ctx[i]
  <1>1. /\ doc.body \in Seq(Nat) /\ signedLen = Len(doc.body) /\ signedLen \in Nat
        /\ \A i \in 1 .. signedLen : buf[i] = doc.body[i]
    BY BufferFacts DEF signedLen
  <1> DEFINE l == Len(ctx)
  <1>2. l \in Nat /\ ctx = [i \in 1 .. l |-> ctx[i]]
    BY ByElements
  <1>3. (o + 1) + l - 1 <= Len(doc.body) /\ SubSeq(doc.body, o + 1, (o + 1) + l - 1) = ctx
    BY DEF OccursAt
  <1> HIDE DEF l
  <1>4. (o + 1) + l - 1 = o + l /\ o + l <= Len(doc.body)
    BY <1>2, <1>3
  <1>5. SubSeq(doc.body, o + 1, o + l) = [i \in 1 .. l |-> doc.body[o + i]]
    BY <1>1, <1>2, <1>4, Slice
  <1>6. ASSUME NEW i \in 1 .. l PROVE buf[o + i] = ctx[i]
    <2>1. o + i \in 1 .. signedLen
      <3> DEFINE n == signedLen
      <3>1. n \in Nat /\ o + l <= n
        BY ONLY <1>1, <1>4, Zenon
      <3> HIDE DEF n
      <3>2. o + i \in 1 .. n
        BY ONLY <1>2, <3>1, o \in Nat, i \in 1 .. l
      <3>3. QED
        BY ONLY <3>2 DEF n
    <2>2. ctx[i] = doc.body[o + i]
      BY <1>3, <1>4, <1>5
    <2>3. QED
      BY <1>1, <2>1, <2>2
  <1>7. QED
    BY <1>1, <1>4, <1>6 DEF l

LEMMA HostWindow ==
  ASSUME Buffered, NEW o \in Nat, NEW ctx \in Seq(Nat), OccursAt(doc.body, ctx, o + 1),
         NEW n \in Nat, o + Len(ctx) + n <= signedLen
  PROVE  Extracted(o, ctx, n)
           = {SubSeq(doc.body, (o + Len(ctx)) + 1, (o + Len(ctx)) + n)}
  <1>1. signedLen \in Nat /\ signedLen <= Capacity /\ Len(ctx) \in Nat /\ Capacity \in Nat
    BY BufferFacts, Parameters
  <1>2. o + Len(ctx) + n <= Capacity /\ o + Len(ctx) \in Nat
    BY <1>1
  <1>3. After(ctx, {Taken(o, Len(ctx) + n)}) = {Taken(o + Len(ctx), n)}
    <2>1. \A i \in 1 .. Len(ctx) : buf[o + i] = ctx[i]
      BY ContextBuffered
    <2>2. QED
      BY <1>2, <2>1, Stripped
  <1>4. Taken(o + Len(ctx), n) = SubSeq(doc.body, (o + Len(ctx)) + 1, (o + Len(ctx)) + n)
    BY <1>2, TakenIsSigned
  <1>5. QED
    BY <1>3, <1>4 DEF Extracted

(* The text behind a context that a host found.                             *)
LEMMA HostText ==
  ASSUME Buffered, NEW o \in Nat, o + 1 \in DOMAIN doc.body, OccursAt(doc.body, Ctx(doc.kind), o + 1)
  PROVE  LET j == o + Len(Ctx(doc.kind)) IN
         /\ doc.body \in Seq(Nat) /\ j \in 0 .. Len(doc.body) /\ doc.kind \in DOMAIN Width
         /\ Rest(j) \in Seq(Nat) /\ Len(Rest(j)) = Len(doc.body) - j
         /\ \A l \in 1 .. Len(Rest(j)) : Rest(j)[l] = doc.body[j + l]
         /\ \A l, k \in Nat : l + k <= Len(doc.body) - j =>
              SubSeq(Rest(j), l + 1, l + k) = SubSeq(doc.body, j + l + 1, j + l + k)
         /\ Encodes(doc.kind, doc.value, Rest(j))
         /\ doc.kind # "status" => doc.value \in Seq(Nat)
  <1> DEFINE i == o + 1  j == o + Len(Ctx(doc.kind))
  <1>1. doc \in Documents
    BY DEF Buffered
  <1>2. doc.kind \in DOMAIN Width
    BY <1>1, FieldReadAssumption
  <1>3. Len(Ctx(doc.kind)) = IF doc.kind = "validity" THEN 4 ELSE 1
    BY ONLY <1>2, Kinds, Zenon
  <1>4. Ends(i, j)
    BY <1>3 DEF Ends
  <1>5. i \in DOMAIN doc.body /\ OccursAt(doc.body, Ctx(doc.kind), i)
    OBVIOUS
  <1> HIDE DEF i, j
  <1>6. /\ doc.body \in Seq(Nat) /\ j \in 0 .. Len(doc.body) /\ doc.kind \in DOMAIN Width
        /\ Rest(j) \in Seq(Nat) /\ Len(Rest(j)) = Len(doc.body) - j
        /\ \A l \in 1 .. Len(Rest(j)) : Rest(j)[l] = doc.body[j + l]
        /\ \A l, k \in Nat : l + k <= Len(doc.body) - j =>
             SubSeq(Rest(j), l + 1, l + k) = SubSeq(doc.body, j + l + 1, j + l + k)
        /\ Encodes(doc.kind, doc.value, Rest(j))
        /\ doc.kind # "status" => doc.value \in Seq(Nat)
    BY ONLY <1>1, <1>4, <1>5, Written, Zenon
  <1>7. QED
    BY ONLY <1>6, Zenon DEF j

LEMMA DecodedOne == \A kind, c : Decoded(kind, {c}) = Decode(kind, c)
  BY DEF Decoded

LEMMA OtherHost ==
  ASSUME Buffered, doc.kind \notin {"status", "validity"}, NEW o \in Nat,
         o + 1 \in DOMAIN doc.body, OccursAt(doc.body, Ctx(doc.kind), o + 1)
  PROVE  Noir(doc.kind, o)
           = IF o + Len(Ctx(doc.kind)) + Width[doc.kind] <= signedLen
             THEN Decode(doc.kind, SubSeq(Rest(o + Len(Ctx(doc.kind))), 1, Width[doc.kind]))
             ELSE {}
  <1> DEFINE ctx == Ctx(doc.kind)  n == Width[doc.kind]  j == o + Len(ctx)
  <1>1. /\ doc.body \in Seq(Nat) /\ j \in 0 .. Len(doc.body) /\ doc.kind \in DOMAIN Width
        /\ \A l, k \in Nat : l + k <= Len(doc.body) - j =>
              SubSeq(Rest(j), l + 1, l + k) = SubSeq(doc.body, j + l + 1, j + l + k)
    BY HostText, Zenon
  <1>2. ctx \in Seq(Nat) /\ n \in Nat /\ Len(ctx) + n \in 1 .. Reach /\ OccursAt(doc.body, ctx, o + 1)
    BY <1>1, Kinds
  <1>3. Noir(doc.kind, o) = Decoded(doc.kind, NoirExtractField(o, ctx, n))
    BY DEF Noir
  <1> HIDE DEF ctx, n
  <1>4. NoirExtractField(o, ctx, n) = Extracted(o, ctx, n)
    BY <1>2, NoirExtracts
  <1>5. CASE ~(o + Len(ctx) + n <= signedLen)
    <2>1. Extracted(o, ctx, n) = {}
      BY <1>5 DEF Extracted
    <2>2. QED
      BY <1>3, <1>4, <1>5, <2>1 DEF Decoded, ctx, n
  <1>6. CASE o + Len(ctx) + n <= signedLen
    <2>1. Extracted(o, ctx, n) = {SubSeq(doc.body, j + 1, j + n)}
      BY <1>2, <1>6, HostWindow
    <2>2. SubSeq(doc.body, j + 1, j + n) = SubSeq(Rest(j), 1, n)
      <3>1. j \in Nat /\ j + n <= Len(doc.body) /\ Len(doc.body) \in Nat
        BY <1>1, <1>6 DEF signedLen
      <3>2. QED
        BY <1>1, <1>2, <3>1, Indexed
    <2>3. Noir(doc.kind, o) = Decode(doc.kind, SubSeq(Rest(j), 1, n))
      BY ONLY <1>3, <1>4, <2>1, <2>2, DecodedOne, Zenon
    <2>4. QED
      BY ONLY <1>6, <2>3, Zenon DEF ctx, n
  <1>7. QED
    BY <1>5, <1>6

LEMMA ValidityHost ==
  ASSUME Buffered, doc.kind = "validity", NEW o \in Nat,
         o + 1 \in DOMAIN doc.body, OccursAt(doc.body, Ctx(doc.kind), o + 1)
  PROVE  /\ o + 32 <= signedLen
         /\ Noir(doc.kind, o)
              = Both(ParseUtcTime(SubSeq(Rest(o + 4), 1, 13)), ParseUtcTime(SubSeq(Rest(o + 4), 16, 28)))
  <1> DEFINE ctx == CertValidityCtx  j == o + 4  t == Rest(j)
  <1>1. /\ Ctx(doc.kind) = ctx /\ ctx \in Seq(Nat) /\ Len(ctx) = 4
        /\ UtcTag \in Seq(Nat) /\ Len(UtcTag) = 2
    BY DEF Ctx, CertValidityCtx, UtcTag
  <1>2. /\ doc.body \in Seq(Nat) /\ j \in 0 .. Len(doc.body)
        /\ Len(t) = Len(doc.body) - j
        /\ \A l, k \in Nat : l + k <= Len(doc.body) - j =>
              SubSeq(t, l + 1, l + k) = SubSeq(doc.body, j + l + 1, j + l + k)
        /\ Encodes("validity", doc.value, t)
    <2>1. j = o + Len(Ctx(doc.kind))
      BY ONLY <1>1, Zenon
    <2>2. LET l == o + Len(Ctx(doc.kind)) IN
          /\ doc.body \in Seq(Nat) /\ l \in 0 .. Len(doc.body)
          /\ Len(Rest(l)) = Len(doc.body) - l
          /\ \A m, k \in Nat : m + k <= Len(doc.body) - l =>
                SubSeq(Rest(l), m + 1, m + k) = SubSeq(doc.body, l + m + 1, l + m + k)
          /\ Encodes(doc.kind, doc.value, Rest(l))
      BY HostText, Zenon
    <2>3. QED
      BY ONLY <2>1, <2>2, doc.kind = "validity", Zenon
  <1>3. Len(t) >= 28 /\ SubSeq(t, 14, 15) = UtcTag
    BY <1>2 DEF Encodes, Validity30, UtcTime
  <1> HIDE DEF ctx, t
  <1>4. /\ signedLen = Len(doc.body) /\ signedLen \in Nat /\ o + 32 <= signedLen
        /\ signedLen <= Capacity /\ Capacity \in Nat
    <2>1. signedLen = Len(doc.body) /\ signedLen \in Nat /\ signedLen <= Capacity /\ Capacity \in Nat
      BY BufferFacts, Parameters DEF signedLen
    <2>2. QED
      BY <1>2, <1>3, <2>1
  <1>5. NoirExtractField(o, ctx, 13) = {SubSeq(t, 1, 13)}
    <2>1. 13 \in Nat /\ Len(ctx) + 13 \in 1 .. Reach /\ o + Len(ctx) + 13 <= signedLen /\ o + Len(ctx) = j
      BY <1>1, <1>4, Parameters
    <2>2. NoirExtractField(o, ctx, 13) = Extracted(o, ctx, 13)
      BY <1>1, <2>1, NoirExtracts
    <2>3. Extracted(o, ctx, 13) = {SubSeq(doc.body, j + 1, j + 13)}
      <3>1. Extracted(o, ctx, 13) = {SubSeq(doc.body, (o + Len(ctx)) + 1, (o + Len(ctx)) + 13)}
        <4>1. OccursAt(doc.body, ctx, o + 1)
          BY <1>1
        <4>2. ctx \in Seq(Nat) /\ 13 \in Nat /\ o + Len(ctx) + 13 <= signedLen
          BY ONLY <1>1, <2>1, Zenon
        <4>3. QED
          BY ONLY <4>1, <4>2, Buffered, o \in Nat, HostWindow, Zenon
      <3>2. QED
        BY ONLY <2>1, <3>1, Zenon
    <2>4. SubSeq(doc.body, j + 1, j + 13) = SubSeq(t, 1, 13)
      <3>1. j \in Nat /\ j + 13 <= Len(doc.body) /\ Len(doc.body) \in Nat
        BY <1>4
      <3>2. QED
        BY <1>2, <2>1, <3>1, Indexed DEF t
    <2>5. QED
      BY <2>2, <2>3, <2>4
  <1>6. NoirExtractField(o + 17, UtcTag, 13) = {SubSeq(t, 16, 28)}
    <2>1. /\ 13 \in Nat /\ Len(UtcTag) + 13 \in 1 .. Reach /\ o + 17 \in Nat
          /\ (o + 17) + Len(UtcTag) + 13 <= signedLen /\ (o + 17) + Len(UtcTag) = o + 19
      BY <1>1, <1>4, Parameters
    <2>2. NoirExtractField(o + 17, UtcTag, 13) = Extracted(o + 17, UtcTag, 13)
      BY <1>1, <2>1, NoirExtracts
    <2>3. OccursAt(doc.body, UtcTag, (o + 17) + 1)
      <3>1. /\ 13 \in Nat /\ 2 \in Nat /\ 13 + 2 <= Len(doc.body) - j
            /\ 13 + 1 = 14 /\ 13 + 2 = 15
            /\ j + 13 + 1 = (o + 17) + 1 /\ j + 13 + 2 = (o + 17) + 1 + Len(UtcTag) - 1
            /\ (o + 17) + 1 + Len(UtcTag) - 1 <= Len(doc.body)
        BY <1>1, <1>4
      <3>2. SubSeq(t, 13 + 1, 13 + 2) = SubSeq(doc.body, j + 13 + 1, j + 13 + 2)
        BY <1>2, <3>1
      <3>3. SubSeq(doc.body, (o + 17) + 1, (o + 17) + 1 + Len(UtcTag) - 1) = UtcTag
        BY <1>3, <3>1, <3>2
      <3>4. QED
        BY <3>1, <3>3 DEF OccursAt
    <2>4. Extracted(o + 17, UtcTag, 13) = {SubSeq(doc.body, (o + 19) + 1, (o + 19) + 13)}
      <3>1. Extracted(o + 17, UtcTag, 13)
              = {SubSeq(doc.body, ((o + 17) + Len(UtcTag)) + 1, ((o + 17) + Len(UtcTag)) + 13)}
        BY <1>1, <2>1, <2>3, HostWindow
      <3>2. QED
        BY <2>1, <3>1
    <2>5. SubSeq(doc.body, (o + 19) + 1, (o + 19) + 13) = SubSeq(t, 16, 28)
      <3>1. /\ 15 \in Nat /\ 13 \in Nat /\ 15 + 13 <= Len(doc.body) - j
            /\ 15 + 1 = 16 /\ 15 + 13 = 28 /\ j + 15 + 1 = (o + 19) + 1 /\ j + 15 + 13 = (o + 19) + 13
        BY <1>4
      <3>2. SubSeq(t, 15 + 1, 15 + 13) = SubSeq(doc.body, j + 15 + 1, j + 15 + 13)
        BY <1>2, <3>1
      <3>3. QED
        BY <3>1, <3>2
    <2>6. QED
      BY <2>2, <2>4, <2>5
  <1>7. \A c : Times({c}) = ParseUtcTime(c)
    BY DEF Times
  <1>8. Noir(doc.kind, o) = Both(ParseUtcTime(SubSeq(t, 1, 13)), ParseUtcTime(SubSeq(t, 16, 28)))
    BY <1>5, <1>6, <1>7 DEF Noir, NoirValidity, ctx
  <1>9. QED
    BY <1>4, <1>8 DEF t

LEMMA StatusesDiffer ==
  ASSUME NEW i \in DOMAIN Statuses, NEW j \in DOMAIN Statuses, Statuses[i] = Statuses[j]
  PROVE  i = j
  <1>1. i \in 1 .. 7 /\ j \in 1 .. 7
    BY DEF Statuses
  <1> DEFINE s(k) == Statuses[k]
  <1>2. /\ Len(s(1)) = 1 /\ s(1)[1] = 301
        /\ Len(s(2)) = 2 /\ s(2)[1] = 302
        /\ Len(s(3)) = 2 /\ s(3)[1] = 304
        /\ Len(s(4)) = 4
        /\ Len(s(5)) = 1 /\ s(5)[1] = 306
        /\ Len(s(6)) = 3
        /\ Len(s(7)) = 1 /\ s(7)[1] = 307
    BY DEF Statuses, Word
  <1> HIDE DEF s
  <1>3. s(i) = s(j) /\ Len(s(i)) = Len(s(j)) /\ s(i)[1] = s(j)[1]
    BY DEF s
  <1>4. QED
    BY <1>1, <1>2, <1>3

LEMMA StatusLength == \A i \in DOMAIN Statuses : Len(Statuses[i]) <= 4
  <1> DEFINE l(i) == Len(Statuses[i])
  <1>1. l(1) = 1 /\ l(2) = 2 /\ l(3) = 2 /\ l(4) = 4 /\ l(5) = 1 /\ l(6) = 3 /\ l(7) = 1
    BY DEF Statuses
  <1>2. DOMAIN Statuses = 1 .. 7
    BY DEF Statuses
  <1> HIDE DEF l
  <1>3. ASSUME NEW i \in 1 .. 7 PROVE l(i) <= 4
    BY ONLY <1>1, <1>3
  <1>4. QED
    BY <1>2, <1>3 DEF l

LEMMA StatusHost ==
  ASSUME Buffered, doc.kind = "status", doc.value # Unknown, NEW o \in 0 .. (P - 1),
         o + 1 \in DOMAIN doc.body, OccursAt(doc.body, Ctx(doc.kind), o + 1)
  PROVE  Noir(doc.kind, o)
           = IF o + Len(Ctx(doc.kind)) + Width[doc.kind] <= Capacity THEN {doc.value} ELSE {}
  <1> DEFINE ctx == Ctx(doc.kind)  j == o + 1  t == Rest(j)  c == Taken(j, 5)
  <1>1. /\ ctx \in Seq(Nat) /\ Len(ctx) = 1 /\ Width[doc.kind] = 5 /\ Len(ctx) + 5 \in 1 .. Reach
        /\ o \in Nat /\ 5 \in Nat \ {0} /\ OccursAt(doc.body, ctx, o + 1)
    <2>1. doc.kind \in DOMAIN Width /\ Width[doc.kind] = 5
      BY DEF Width
    <2>2. QED
      BY <2>1, Kinds, Parameters
  <1>2. /\ doc.body \in Seq(Nat) /\ j \in 0 .. Len(doc.body)
        /\ t \in Seq(Nat) /\ Len(t) = Len(doc.body) - j
        /\ \A l \in 1 .. Len(t) : t[l] = doc.body[j + l]
        /\ Closed(doc.value, t)
    <2>1. j = o + Len(Ctx(doc.kind))
      BY <1>1
    <2>2. /\ doc.body \in Seq(Nat) /\ j \in 0 .. Len(doc.body)
          /\ t \in Seq(Nat) /\ Len(t) = Len(doc.body) - j
          /\ \A l \in 1 .. Len(t) : t[l] = doc.body[j + l]
          /\ Encodes(doc.kind, doc.value, t)
      BY <1>1, <2>1, HostText
    <2>3. QED
      BY <2>2 DEF Encodes
  <1>3. PICK k \in 1 .. Len(t), i \in DOMAIN Statuses :
          /\ t[k] = Quote /\ \A l \in 1 .. (k - 1) : t[l] # Quote
          /\ SubSeq(t, 1, k - 1) = Statuses[i] /\ doc.value = <<i - 1>>
    BY <1>2 DEF Closed
  <1>4. Noir(doc.kind, o) = Decoded("status", Opened(o, ctx, 5))
    BY <1>1, StatusExtracts DEF Noir
  <1>5. /\ signedLen = Len(doc.body) /\ signedLen \in Nat /\ signedLen <= Capacity /\ Capacity \in Nat
        /\ \A l \in 1 .. signedLen : buf[l] = doc.body[l]
    BY BufferFacts, Parameters DEF signedLen
  <1>6. o + Len(ctx) + 1 <= signedLen /\ o + Len(ctx) = j /\ j \in Nat
    <2> DEFINE n == signedLen  m == Len(t)  a == Len(ctx)
    <2>1. /\ n \in Nat /\ m = n - (o + 1) /\ k \in 1 .. m /\ a = 1 /\ o \in Nat
      BY ONLY <1>1, <1>2, <1>3, <1>5
    <2> HIDE DEF n, m, a
    <2>2. o + a + 1 <= n /\ o + a = o + 1 /\ o + 1 \in Nat
      BY ONLY <2>1
    <2>3. QED
      BY ONLY <2>2, Zenon DEF n, a
  <1>7. CASE ~(o + Len(ctx) + 5 <= Capacity)
    BY <1>1, <1>4, <1>7 DEF Opened, Decoded
  <1>8. CASE o + Len(ctx) + 5 <= Capacity
    <2>1. Opened(o, ctx, 5) = {c}
      <3>1. After(ctx, {Taken(o, Len(ctx) + 5)}) = {Taken(o + Len(ctx), 5)}
        <4>1. \A x \in 1 .. Len(ctx) : buf[o + x] = ctx[x]
          BY <1>1, ContextBuffered
        <4>2. QED
          BY <1>1, <1>8, <4>1, Stripped
      <3>2. QED
        BY <1>6, <1>8, <3>1 DEF Opened
    <2>2. Noir(doc.kind, o) = StatusSeverity(c)
      <3>1. Decoded("status", {c}) = Decode("status", c)
        BY DecodedOne
      <3>2. Decode("status", c) = StatusSeverity(c)
        BY ONLY DEF Decode
      <3>3. QED
        BY ONLY <1>4, <2>1, <3>1, <3>2, Zenon
    <2>3. c \in Seq(Nat) /\ Len(c) = 5 /\ \A l \in 1 .. 5 : c[l] = buf[j + l]
      <3>1. j + 5 <= Capacity
        BY <1>6, <1>8
      <3>2. QED
        BY <1>1, <1>6, <3>1, TakenFacts
    <2> HIDE DEF c, t, ctx, j
    <2>4. /\ k \in Nat \ {0} /\ k - 1 \in Nat /\ k - 1 <= Len(t) /\ k <= Len(t)
          /\ Statuses[i] \in Seq(Nat) /\ Len(Statuses[i]) = k - 1
          /\ \A l \in 1 .. (k - 1) : Statuses[i][l] = t[l]
      <3>1. k \in Nat \ {0} /\ k - 1 \in Nat /\ k - 1 <= Len(t) /\ k <= Len(t)
        <4> DEFINE m == Len(t)
        <4>1. m \in Nat /\ k \in 1 .. m
          BY <1>2
        <4> HIDE DEF m
        <4>2. k \in Nat \ {0} /\ k - 1 \in Nat /\ k - 1 <= m /\ k <= m
          BY ONLY <4>1
        <4>3. QED
          BY <4>2 DEF m
      <3>2. /\ SubSeq(t, 1, k - 1) \in Seq(Nat) /\ Len(SubSeq(t, 1, k - 1)) = k - 1
            /\ \A l \in 1 .. (k - 1) : SubSeq(t, 1, k - 1)[l] = t[l]
        BY <1>2, <3>1, Window
      <3>3. QED
        BY <1>3, <3>1, <3>2
    <2>5. k <= 5
      <3>1. Len(Statuses[i]) <= 4
        BY StatusLength
      <3>2. QED
        BY <2>4, <3>1
    <2>6. ASSUME NEW l \in 1 .. k PROVE c[l] = t[l]
      <3>1. l \in 1 .. 5 /\ l \in 1 .. Len(t) /\ j + l \in 1 .. signedLen
        <4> DEFINE n == signedLen  m == Len(t)
        <4>1. n \in Nat /\ m = n - j /\ j \in Nat /\ k \in Nat /\ k <= m
          BY ONLY <1>2, <1>5, <1>6, <2>4, Zenon
        <4> HIDE DEF n, m
        <4>2. l \in 1 .. 5 /\ l \in 1 .. m /\ j + l \in 1 .. n
          BY ONLY <2>5, <4>1, l \in 1 .. k
        <4>3. QED
          BY ONLY <4>2, Zenon DEF n, m
      <3>2. QED
        BY <1>2, <1>5, <2>3, <3>1
    <2>7. /\ \A l \in 1 .. (k - 1) : l <= Len(c) => c[l] # Quote
          /\ k <= Len(c) /\ c[k] = Quote
      <3>1. k \in 1 .. k /\ \A l \in 1 .. (k - 1) : l \in 1 .. k
        BY <2>4
      <3>2. QED
        BY <1>3, <2>3, <2>5, <2>6, <3>1
    <2>8. ASSUME NEW m \in DOMAIN Statuses PROVE Literal(c, Statuses[m]) <=> m = i
      <3>1. Statuses[m] \in Seq(Nat) /\ \A l \in DOMAIN Statuses[m] : Statuses[m][l] # Quote
        BY StatusWords
      <3>2. Literal(c, Statuses[m]) <=> /\ k <= Len(c) /\ Len(Statuses[m]) = k - 1
                                        /\ \A l \in 1 .. (k - 1) : c[l] = Statuses[m][l]
        BY <2>3, <2>4, <2>7, <3>1, ClosedLiteral
      <3>3. Statuses[i] = [l \in 1 .. (k - 1) |-> Statuses[i][l]]
        BY <2>4, ByElements
      <3>4. Len(Statuses[m]) = k - 1 => Statuses[m] = [l \in 1 .. (k - 1) |-> Statuses[m][l]]
        BY <2>4, <3>1, ByElements
      <3>5. \A l \in 1 .. (k - 1) : c[l] = Statuses[i][l]
        <4>1. \A l \in 1 .. (k - 1) : l \in 1 .. k
          BY <2>4
        <4>2. QED
          BY <2>4, <2>6, <4>1
      <3>6. ASSUME Literal(c, Statuses[m]) PROVE m = i
        <4>1. Statuses[m] = Statuses[i]
          BY <3>2, <3>3, <3>4, <3>5, <3>6
        <4>2. QED
          BY <1>3, <4>1, StatusesDiffer
      <3>7. ASSUME m = i PROVE Literal(c, Statuses[m])
        BY <2>4, <2>7, <3>2, <3>5, <3>7
      <3>8. QED
        BY <3>6, <3>7
    <2>9. StatusSeverity(c) = {<<i - 1>>}
      <3>1. {n \in DOMAIN Statuses : \A m \in DOMAIN Statuses : Literal(c, Statuses[m]) <=> m = n} = {i}
        BY <1>3, <2>8
      <3>2. QED
        BY <3>1 DEF StatusSeverity
    <2>10. QED
      BY <1>1, <1>3, <1>8, <2>2, <2>9 DEF ctx
  <1>9. QED
    BY <1>7, <1>8


(* What a host's offset gives: the value of a field that has a proof, if    *)
(* there is room for it, and never another value of one that is exact.      *)
Fits(o) == o + Len(Ctx(doc.kind)) + Width[doc.kind]
             <= IF doc.kind = "status" THEN Capacity ELSE signedLen

LEMMA HostReads ==
  ASSUME Buffered, NEW o \in 0 .. (P - 1),
         doc.kind = "status" => doc.value # Unknown,
         o + 1 \in DOMAIN doc.body, OccursAt(doc.body, Ctx(doc.kind), o + 1)
  PROVE  LET found == Noir(doc.kind, o) IN
         /\ ~Fits(o) => found = {}
         /\ Fits(o) /\ Provable(doc) => found = {doc.value}
         /\ Exact(doc) /\ ~Provable(doc) => found = {}
         /\ ~Exact(doc) => doc.value \notin found
  <1> DEFINE found == Noir(doc.kind, o)  v == doc.value  n == Width[doc.kind]
             j == o + Len(Ctx(doc.kind))  t == Rest(j)  c == SubSeq(t, 1, n)
  <1>1. /\ doc.body \in Seq(Nat) /\ j \in 0 .. Len(doc.body) /\ doc.kind \in DOMAIN Width
        /\ t \in Seq(Nat) /\ Len(t) = Len(doc.body) - j
        /\ Encodes(doc.kind, v, t)
        /\ doc.kind # "status" => v \in Seq(Nat)
    <2>1. o \in Nat
      BY Parameters
    <2>2. QED
      BY <2>1, HostText, Zenon
  <1>2. doc.kind \in {"decimal", "hex", "iso", "status", "serial", "pce", "validity"} /\ n \in Nat \ {0}
    BY <1>1, Kinds
  <1>3. ASSUME doc.kind \notin {"status", "validity"}
        PROVE  found = IF Fits(o) THEN Decode(doc.kind, c) ELSE {}
    <2>1. o \in Nat
      BY Parameters
    <2>2. found = IF j + n <= signedLen THEN Decode(doc.kind, c) ELSE {}
      BY <1>3, <2>1, OtherHost
    <2>3. Fits(o) <=> j + n <= signedLen
      BY <1>3 DEF Fits
    <2>4. QED
      BY ONLY <2>2, <2>3, Zenon
  <1>4. ASSUME Fits(o), doc.kind # "status" PROVE n <= Len(t)
    <2>1. signedLen = Len(doc.body) /\ signedLen \in Nat
      BY BufferFacts DEF signedLen
    <2>2. j + n <= signedLen
      BY <1>4 DEF Fits
    <2>3. QED
      BY <1>1, <1>2, <2>1, <2>2
  <1> HIDE DEF found, c, t, j, v, n
  <1>5. CASE doc.kind = "status"
    <2>1. found = IF Fits(o) THEN {v} ELSE {}
      <3>1. found = IF o + Len(Ctx(doc.kind)) + Width[doc.kind] <= Capacity THEN {v} ELSE {}
        BY <1>5, StatusHost DEF found, v
      <3>2. QED
        BY <1>5, <3>1 DEF Fits
    <2>2. Provable(doc) /\ Exact(doc)
      BY ONLY <1>5 DEF Provable, Exact
    <2>3. QED
      BY ONLY <2>1, <2>2, Zenon DEF found, v
  <1>6. CASE doc.kind = "validity"
    <2>1. Fits(o)
      <3>1. o \in Nat
        BY Parameters
      <3>2. o + 32 <= signedLen
        BY <1>6, <3>1, ValidityHost
      <3>3. Len(Ctx(doc.kind)) = 4 /\ Width[doc.kind] = 13
        BY <1>1, <1>6, Kinds
      <3>4. signedLen \in Nat
        BY BufferFacts
      <3>5. o + Len(Ctx(doc.kind)) + Width[doc.kind] <= signedLen
        BY ONLY <3>1, <3>2, <3>3, <3>4
      <3>6. QED
        BY <1>6, <3>5 DEF Fits
    <2>2. found = Both(ParseUtcTime(SubSeq(t, 1, 13)), ParseUtcTime(SubSeq(t, 16, 28)))
      <3>1. o \in Nat
        BY Parameters
      <3>2. j = o + 4
        BY <1>1, <1>6, Kinds DEF j
      <3>3. Noir(doc.kind, o)
              = Both(ParseUtcTime(SubSeq(Rest(o + 4), 1, 13)), ParseUtcTime(SubSeq(Rest(o + 4), 16, 28)))
        BY <1>6, <3>1, ValidityHost
      <3>4. QED
        BY ONLY <3>2, <3>3, Zenon DEF found, t
    <2>3. /\ ThisCentury(v[1]) /\ ThisCentury(v[3]) => found = {v}
          /\ ~(ThisCentury(v[1]) /\ ThisCentury(v[3])) => v \notin found
      <3>1. Validity30(v, t) /\ v \in Seq(Nat) /\ t \in Seq(Nat)
        BY ONLY <1>1, <1>6 DEF Encodes
      <3>2. QED
        BY ONLY <2>2, <3>1, ValidityRead, Zenon
    <2>4. Exact(doc) <=> ThisCentury(v[1]) /\ ThisCentury(v[3])
      BY ONLY <1>6 DEF Exact, v
    <2>5. Provable(doc) <=> Exact(doc)
      BY ONLY <1>6 DEF Provable
    <2>6. QED
      BY ONLY <2>1, <2>3, <2>4, <2>5, Zenon DEF found, v
  <1>7. CASE doc.kind = "decimal"
    <2>1. Exact(doc) <=> v[1] < Power[5]
      BY ONLY <1>7 DEF Exact, v
    <2>2. Provable(doc) <=> Exact(doc)
      BY ONLY <1>7 DEF Provable
    <2>3. n = 4 /\ Decimal(v, t) /\ v \in Seq(Nat) /\ t \in Seq(Nat)
      BY ONLY <1>1, <1>7 DEF Encodes, n, Width
    <2>4. Decode(doc.kind, c) = ParseDecimal(c)
      BY ONLY <1>7 DEF Decode
    <2>5. ASSUME Fits(o), Exact(doc) PROVE found = {v}
      <3>1. 4 <= Len(t) /\ v[1] < Power[5]
        BY <1>4, <1>7, <2>1, <2>3, <2>5
      <3>2. ParseDecimal(SubSeq(t, 1, 4)) = {v}
        BY ONLY <2>3, <3>1, DecimalRead, Zenon
      <3>3. QED
        BY <1>3, <1>7, <2>3, <2>4, <2>5, <3>2 DEF c
    <2>6. ASSUME Fits(o), ~Exact(doc) PROVE v \notin found
      <3>1. 4 <= Len(t) /\ ~(v[1] < Power[5])
        BY <1>4, <1>7, <2>1, <2>3, <2>6
      <3>2. v \notin ParseDecimal(SubSeq(t, 1, 4))
        BY ONLY <2>3, <3>1, DecimalBound, Zenon
      <3>3. QED
        BY <1>3, <1>7, <2>3, <2>4, <2>6, <3>2 DEF c
    <2>7. ~Fits(o) => found = {}
      BY <1>3, <1>7
    <2>8. v \notin {}
      OBVIOUS
    <2>9. QED
      BY ONLY <2>2, <2>5, <2>6, <2>7, <2>8, Zenon DEF found, v
  <1>8. CASE doc.kind \in {"hex", "iso", "serial", "pce"}
    <2>1. Exact(doc)
      BY ONLY <1>8 DEF Exact
    <2>2. ~Fits(o) => found = {}
      BY <1>3, <1>8
    <2>3. ASSUME Fits(o) PROVE Decode(doc.kind, c) = IF Provable(doc) THEN {v} ELSE {}
      <3>1. n <= Len(t)
        BY <1>4, <1>8, <2>3
      <3>2. CASE doc.kind = "hex"
        <4>1. n = 4 /\ Hex(v, t) /\ v \in Seq(Nat) /\ t \in Seq(Nat)
          BY ONLY <1>1, <3>2 DEF Encodes, n, Width
        <4>2. HexToBytes(SubSeq(t, 1, 4)) = {v}
          BY ONLY <4>1, HexRead, Zenon
        <4>3. Provable(doc)
          BY ONLY <2>1, <3>2 DEF Provable
        <4>4. QED
          BY ONLY <3>2, <4>1, <4>2, <4>3 DEF Decode, c
      <3>3. CASE doc.kind = "iso"
        <4>1. n = 20 /\ Iso8601(v, t) /\ v \in Seq(Nat) /\ t \in Seq(Nat)
          BY ONLY <1>1, <3>3 DEF Encodes, n, Width
        <4>2. ParseIso8601(SubSeq(t, 1, 20)) = {v}
          BY ONLY <4>1, IsoRead, Zenon
        <4>3. Provable(doc)
          BY ONLY <2>1, <3>3 DEF Provable
        <4>4. QED
          BY ONLY <3>3, <4>1, <4>2, <4>3 DEF Decode, c
      <3>4. CASE doc.kind = "serial"
        <4> DEFINE fit == \/ Len(Magnitude(v)) = SerialLen
                          \/ Len(Magnitude(v)) = SerialLen - 1 /\ Magnitude(v)[1] >= 128
        <4>1. n = SerialLen + 2 /\ SerialNumber(v, t) /\ v \in Seq(Nat) /\ t \in Seq(Nat)
          BY ONLY <1>1, <3>4 DEF Encodes, n, Width
        <4>2. Provable(doc) <=> fit
          BY ONLY <2>1, <3>4 DEF Provable, v
        <4>3. Serial(SubSeq(t, 1, SerialLen + 2)) = IF fit THEN {v} ELSE {}
          <5>1. SerialLen + 2 <= Len(t)
            BY ONLY <3>1, <4>1
          <5>2. QED
            BY ONLY <4>1, <5>1, SerialRead, Zenon
        <4> HIDE DEF fit
        <4>4. Decode(doc.kind, c) = Serial(c)
          BY ONLY <3>4 DEF Decode
        <4>5. QED
          BY ONLY <4>1, <4>2, <4>3, <4>4, Zenon DEF c
      <3>5. CASE doc.kind = "pce"
        <4>1. n = 3 /\ PceNumber(v, t) /\ v \in Seq(Nat) /\ t \in Seq(Nat)
          BY ONLY <1>1, <3>5 DEF Encodes, n, Width
        <4>2. Provable(doc) <=> v[1] < 128 * 256
          BY ONLY <2>1, <3>5 DEF Provable, v
        <4>3. PceSvn(SubSeq(t, 1, 3)) = IF v[1] < 128 * 256 THEN {v} ELSE {}
          BY <3>1, <4>1, PceRead
        <4>4. Decode(doc.kind, c) = PceSvn(c)
          BY ONLY <3>5 DEF Decode
        <4>5. QED
          BY ONLY <4>1, <4>2, <4>3, <4>4 DEF c
      <3>6. QED
        BY ONLY <1>8, <3>2, <3>3, <3>4, <3>5
    <2>4. Fits(o) => found = Decode(doc.kind, c)
      BY <1>3, <1>8
    <2>5. QED
      BY ONLY <2>1, <2>2, <2>3, <2>4, Zenon DEF found, v
  <1>9. QED
    BY ONLY <1>2, <1>5, <1>6, <1>7, <1>8

(* The host's own decoding of a field that has a proof.                     *)

LEMMA IndexOne ==
  ASSUME NEW s \in Seq(Nat), NEW t, NEW o \in Index(s, t)
  PROVE  /\ o \in Nat /\ o + 1 \in DOMAIN s /\ OccursAt(s, t, o + 1)
         /\ Index(s, t) = {o}
  <1>1. \A x \in Index(s, t) : /\ x \in Nat /\ x + 1 \in 1 .. Len(s) /\ OccursAt(s, t, x + 1)
                               /\ \A k \in 1 .. x : ~OccursAt(s, t, k)
    <2>1. ASSUME NEW i \in DOMAIN s, OccursAt(s, t, i), \A k \in 1 .. (i - 1) : ~OccursAt(s, t, k)
          PROVE  /\ i - 1 \in Nat /\ (i - 1) + 1 \in 1 .. Len(s) /\ OccursAt(s, t, (i - 1) + 1)
                 /\ \A k \in 1 .. (i - 1) : ~OccursAt(s, t, k)
      <3>1. i \in 1 .. Len(s) /\ Len(s) \in Nat
        OBVIOUS
      <3>2. i - 1 \in Nat /\ (i - 1) + 1 = i
        BY ONLY <3>1
      <3>3. QED
        BY ONLY <2>1, <3>1, <3>2, Zenon
    <2>2. QED
      BY <2>1 DEF Index
  <1>2. ASSUME NEW x \in Index(s, t), NEW y \in Index(s, t) PROVE ~(x < y)
    <2>1. x < y => x + 1 \in 1 .. y
      BY <1>1
    <2>2. QED
      BY <1>1, <2>1
  <1>3. ASSUME NEW x \in Index(s, t) PROVE x = o
    <2>1. ~(x < o) /\ ~(o < x)
      BY <1>2
    <2>2. QED
      BY <1>1, <2>1
  <1>4. QED
    BY <1>1, <1>3

LEMMA FourAt ==
  ASSUME NEW h \in Seq(Nat), NEW s \in Seq(Nat), Len(s) = 4, NEW i \in Nat, i >= 1
  PROVE  OccursAt(h, s, i) <=>
           /\ i + 3 <= Len(h)
           /\ h[i] = s[1] /\ h[i + 1] = s[2] /\ h[i + 2] = s[3] /\ h[i + 3] = s[4]
  <1> DEFINE a == i - 1
  <1>1. a \in Nat /\ a + 1 = i /\ a + 2 = i + 1 /\ a + 3 = i + 2 /\ a + 4 = i + 3 /\ i + 4 - 1 = i + 3
    OBVIOUS
  <1> HIDE DEF a
  <1>2. ASSUME a + 4 <= Len(h) PROVE SubSeq(h, a + 1, a + 4) = [j \in 1 .. 4 |-> h[a + j]]
    BY ONLY <1>1, <1>2, h \in Seq(Nat), Slice
  <1>3. s = [j \in 1 .. 4 |-> s[j]]
    BY ByElements
  <1>4. [j \in 1 .. 4 |-> h[a + j]] = [j \in 1 .. 4 |-> s[j]]
          <=> h[a + 1] = s[1] /\ h[a + 2] = s[2] /\ h[a + 3] = s[3] /\ h[a + 4] = s[4]
    <2>1. 1 .. 4 = {1, 2, 3, 4}
      OBVIOUS
    <2>2. [j \in 1 .. 4 |-> h[a + j]] = [j \in 1 .. 4 |-> s[j]]
            <=> \A j \in 1 .. 4 : h[a + j] = s[j]
      <3>1. ASSUME [j \in 1 .. 4 |-> h[a + j]] = [j \in 1 .. 4 |-> s[j]], NEW j \in 1 .. 4
            PROVE  h[a + j] = s[j]
        <4>1. [x \in 1 .. 4 |-> h[a + x]][j] = [x \in 1 .. 4 |-> s[x]][j]
          BY ONLY <3>1
        <4>2. QED
          BY ONLY <4>1, j \in 1 .. 4
      <3>2. QED
        BY ONLY <3>1
    <2>3. QED
      BY ONLY <2>1, <2>2
  <1>5. OccursAt(h, s, i) <=> i + 3 <= Len(h) /\ SubSeq(h, i, i + 3) = s
    BY ONLY <1>1, Len(s) = 4 DEF OccursAt
  <1>6. QED
    BY ONLY <1>1, <1>2, <1>3, <1>4, <1>5

LEMMA NibblesOf ==
  ASSUME NEW s \in Seq(Nat)
  PROVE  /\ Nibbles(s) \in Seq(Nat) /\ Len(Nibbles(s)) = 2 * Len(s)
         /\ \A j \in 1 .. Len(s) : /\ Nibbles(s)[2 * j - 1] = s[j] \div 16
                                   /\ Nibbles(s)[2 * j] = s[j] % 16
  <1> DEFINE n == Len(s)
             f(j) == IF j % 2 = 1 THEN s[(j + 1) \div 2] \div 16 ELSE s[j \div 2] % 16
  <1>1. n \in Nat /\ \A j \in 1 .. n : s[j] \in Nat
    OBVIOUS
  <1> HIDE DEF n
  <1>2. ASSUME NEW j \in 1 .. 2 * n PROVE f(j) \in Nat
    <2>1. CASE j % 2 = 1
      <3>1. (j + 1) \div 2 \in 1 .. n
        BY ONLY <1>1, <2>1, j \in 1 .. 2 * n
      <3>2. s[(j + 1) \div 2] \in Nat
        BY ONLY <1>1, <3>1
      <3>3. s[(j + 1) \div 2] \div 16 \in Nat
        BY ONLY <3>2
      <3>4. QED
        BY ONLY <2>1, <3>3
    <2>2. CASE j % 2 # 1
      <3>1. j \div 2 \in 1 .. n
        BY ONLY <1>1, <2>2, j \in 1 .. 2 * n
      <3>2. s[j \div 2] \in Nat
        BY ONLY <1>1, <3>1
      <3>3. s[j \div 2] % 16 \in Nat
        BY ONLY <3>2
      <3>4. QED
        BY ONLY <2>2, <3>3
    <2>3. QED
      BY ONLY <2>1, <2>2
  <1>3. Nibbles(s) = [j \in 1 .. 2 * n |-> f(j)]
    BY DEF Nibbles, n
  <1>4. ASSUME NEW j \in 1 .. n PROVE f(2 * j - 1) = s[j] \div 16 /\ f(2 * j) = s[j] % 16
    <2>1. /\ (2 * j - 1) % 2 = 1 /\ ((2 * j - 1) + 1) \div 2 = j
          /\ (2 * j) % 2 # 1 /\ (2 * j) \div 2 = j
      BY ONLY <1>1, j \in 1 .. n
    <2>2. QED
      BY ONLY <2>1
  <1>5. \A j \in 1 .. n : 2 * j - 1 \in 1 .. 2 * n /\ 2 * j \in 1 .. 2 * n
    BY ONLY <1>1
  <1> HIDE DEF f
  <1>6. Nibbles(s) \in Seq(Nat) /\ Len(Nibbles(s)) = 2 * n
    BY ONLY <1>1, <1>2, <1>3
  <1>7. \A j \in 1 .. n : Nibbles(s)[2 * j - 1] = s[j] \div 16 /\ Nibbles(s)[2 * j] = s[j] % 16
    BY ONLY <1>3, <1>4, <1>5
  <1>8. QED
    BY ONLY <1>6, <1>7 DEF n

(* The nibbles of an encoded PCE SVN, its tag first.                        *)
LEMMA PceNibbles ==
  ASSUME NEW t \in Seq(Nat), 3 <= Len(t)
  PROVE  LET h == Nibbles(<<2>> \o t) IN
         /\ h \in Seq(Nat) /\ Len(h) >= 8
         /\ h[1] = 0 /\ h[2] = 2
         /\ h[3] = t[1] \div 16 /\ h[4] = t[1] % 16
         /\ h[5] = t[2] \div 16 /\ h[6] = t[2] % 16
         /\ h[7] = t[3] \div 16 /\ h[8] = t[3] % 16
         /\ 4 <= Len(t) => h[9] = t[4] \div 16 /\ h[10] = t[4] % 16
  <1> DEFINE s == <<2>> \o t  h == Nibbles(s)
  <1>1. s \in Seq(Nat) /\ Len(s) = 1 + Len(t) /\ s[1] = 2
    OBVIOUS
  <1>2. s[2] = t[1] /\ s[3] = t[2] /\ s[4] = t[3] /\ (4 <= Len(t) => s[5] = t[4])
    OBVIOUS
  <1> HIDE DEF s
  <1>3. /\ h \in Seq(Nat) /\ Len(h) = 2 * Len(s)
        /\ \A j \in 1 .. Len(s) : h[2 * j - 1] = s[j] \div 16 /\ h[2 * j] = s[j] % 16
    BY ONLY <1>1, NibblesOf
  <1> HIDE DEF h
  <1> DEFINE n == Len(s)  k == Len(t)
  <1>4. k \in Nat /\ 3 <= k /\ n = 1 + k
    BY <1>1
  <1>5. Len(h) = 2 * n /\ \A j \in 1 .. n : h[2 * j - 1] = s[j] \div 16 /\ h[2 * j] = s[j] % 16
    BY <1>3
  <1> HIDE DEF n, k
  <1>6. Len(h) >= 8
    BY ONLY <1>4, <1>5
  <1>7. h[1] = s[1] \div 16 /\ h[2] = s[1] % 16
    BY ONLY <1>4, <1>5
  <1>8. h[3] = s[2] \div 16 /\ h[4] = s[2] % 16
    BY ONLY <1>4, <1>5
  <1>9. h[5] = s[3] \div 16 /\ h[6] = s[3] % 16
    BY ONLY <1>4, <1>5
  <1>10. h[7] = s[4] \div 16 /\ h[8] = s[4] % 16
    BY ONLY <1>4, <1>5
  <1>11. 4 <= k => h[9] = s[5] \div 16 /\ h[10] = s[5] % 16
    BY ONLY <1>4, <1>5
  <1>12. h[1] = 0 /\ h[2] = 2
    BY ONLY <1>1, <1>7
  <1>13. QED
    BY ONLY <1>2, <1>3, <1>6, <1>8, <1>9, <1>10, <1>11, <1>12 DEF h, s, k

LEMMA IndexFirst ==
  ASSUME NEW h \in Seq(Nat), NEW s, 1 <= Len(h), OccursAt(h, s, 1)
  PROVE  Index(h, s) = {0}
  <1>1. 1 \in DOMAIN h /\ \A k \in 1 .. (1 - 1) : FALSE
    OBVIOUS
  <1>2. 1 - 1 \in Index(h, s)
    BY <1>1 DEF Index
  <1>3. 1 - 1 = 0
    OBVIOUS
  <1>4. 0 \in Index(h, s)
    BY ONLY <1>2, <1>3
  <1>5. QED
    BY <1>4, IndexOne

LEMMA Halves == \A x \in Nat : 16 * (x \div 16) + (x % 16) = x
  OBVIOUS

LEMMA FirstFour ==
  ASSUME NEW h \in Seq(Nat), NEW s \in Seq(Nat), Len(s) = 4, Len(h) >= 8,
         h[1] = s[1], h[2] = s[2], h[3] = s[3], h[4] = s[4]
  PROVE  Index(h, s) = {0}
  <1> DEFINE l == Len(h)
  <1>1. l \in Nat /\ l >= 8
    OBVIOUS
  <1> HIDE DEF l
  <1>2. 1 + 3 <= l /\ 1 <= l /\ 1 \in Nat /\ 1 >= 1
    BY ONLY <1>1
  <1>3. h[1 + 1] = s[2] /\ h[1 + 2] = s[3] /\ h[1 + 3] = s[4]
    OBVIOUS
  <1>4. OccursAt(h, s, 1)
    BY ONLY <1>2, <1>3, h \in Seq(Nat), s \in Seq(Nat), Len(s) = 4, h[1] = s[1], FourAt, Zenon DEF l
  <1>5. QED
    BY ONLY <1>2, <1>4, h \in Seq(Nat), IndexFirst, Zenon DEF l

LEMMA HostPceRead ==
  ASSUME NEW v \in Seq(Nat), NEW t \in Seq(Nat), PceNumber(v, t), 3 <= Len(t), v[1] < 128 * 256
  PROVE  HostPceSvn(Nibbles(<<2>> \o t)) = {v}
  <1> DEFINE n == v[1]  h == Nibbles(<<2>> \o t)
  <1>1. /\ v = <<n>> /\ n \in Nat /\ n < 128 * 256
        /\ n < 128 => t[1] = 1 /\ t[2] = n
        /\ 128 <= n /\ n < 128 * 256 => t[1] = 2 /\ t[2] = n \div 256 /\ t[3] = n % 256
    <2>1. v[1] = n /\ v[1] < 128 * 256
      OBVIOUS
    <2> HIDE DEF n
    <2>2. QED
      BY ONLY <2>1, PceNumber(v, t), v \in Seq(Nat), t \in Seq(Nat), PceText
  <1>2. n < 128 => 4 <= Len(t) /\ t[3] = 48 /\ t[4] = 31
    BY DEF PceNumber
  <1>3. /\ h \in Seq(Nat) /\ Len(h) >= 8
        /\ h[1] = 0 /\ h[2] = 2
        /\ h[3] = t[1] \div 16 /\ h[4] = t[1] % 16
        /\ h[5] = t[2] \div 16 /\ h[6] = t[2] % 16
        /\ h[7] = t[3] \div 16 /\ h[8] = t[3] % 16
        /\ 4 <= Len(t) => h[9] = t[4] \div 16 /\ h[10] = t[4] % 16
    BY PceNibbles
  <1>4. /\ Head1 \in Seq(Nat) /\ Len(Head1) = 4
        /\ Head1[1] = 0 /\ Head1[2] = 2 /\ Head1[3] = 0 /\ Head1[4] = 1
        /\ Head2 \in Seq(Nat) /\ Len(Head2) = 4
        /\ Head2[1] = 0 /\ Head2[2] = 2 /\ Head2[3] = 0 /\ Head2[4] = 2
    BY DEF Head1, Head2
  <1> HIDE DEF n, h
  <1>5. CASE n < 128
    <2>1. t[1] = 1 /\ t[2] = n /\ 4 <= Len(t) /\ t[3] = 48 /\ t[4] = 31
      BY ONLY <1>1, <1>2, <1>5, Zenon
    <2>2. h[3] = 0 /\ h[4] = 1 /\ h[7] = 3 /\ h[8] = 0 /\ h[9] = 1 /\ h[10] = 15
      BY ONLY <1>3, <2>1
    <2>3. h[5] = n \div 16 /\ h[6] = n % 16
      BY ONLY <1>3, <2>1, Zenon
    <2>4. ASSUME NEW x \in Index(h, Head2) \cap 0 .. 9 PROVE FALSE
      <3>1. x \in 0 .. 9 /\ OccursAt(h, Head2, x + 1)
        BY ONLY <1>3, <2>4, IndexOne
      <3> DEFINE y == x + 1
      <3>2. y \in Nat /\ y >= 1 /\ OccursAt(h, Head2, y)
        BY ONLY <3>1
      <3> HIDE DEF y
      <3>3. h[y] = 0 /\ h[y + 1] = 2 /\ h[y + 2] = 0 /\ h[y + 3] = 2
        <4>1. /\ h[y] = Head2[1] /\ h[y + 1] = Head2[2]
              /\ h[y + 2] = Head2[3] /\ h[y + 3] = Head2[4]
          <5>1. h \in Seq(Nat) /\ Head2 \in Seq(Nat) /\ Len(Head2) = 4
            BY ONLY <1>3, <1>4, Zenon
          <5>2. QED
            BY ONLY <3>2, <5>1, FourAt, Zenon
        <4>2. QED
          BY ONLY <1>4, <4>1, Zenon
      <3>4. h[1] = 0 /\ h[2] = 2
        BY ONLY <1>3
      <3>5. \/ x = 0 \/ x = 1 \/ x = 2 \/ x = 3 \/ x = 4
            \/ x = 5 \/ x = 6 \/ x = 7 \/ x = 8 \/ x = 9
        BY ONLY <3>1
      <3>6. QED
        BY ONLY <2>2, <3>3, <3>4, <3>5 DEF y
    <2>5. TwoBytes(h) = {}
      BY ONLY <2>4 DEF TwoBytes
    <2>6. Index(h, Head1) = {0}
      <3>1. h[1] = Head1[1] /\ h[2] = Head1[2] /\ h[3] = Head1[3] /\ h[4] = Head1[4]
        BY ONLY <1>3, <1>4, <2>2, Zenon
      <3>2. QED
        BY ONLY <1>3, <1>4, <3>1, FirstFour, Zenon
    <2>7. OneByte(h) = {<<ByteIn(h, 0 + 4)>>}
      <3>1. {0} \cap 0 .. 9 = {0}
        OBVIOUS
      <3>2. QED
        BY ONLY <2>6, <3>1 DEF OneByte
    <2>8. ByteIn(h, 0 + 4) = n
      <3>1. ByteIn(h, 0 + 4) = 16 * h[5] + h[6]
        BY ONLY DEF ByteIn
      <3>2. n \in Nat
        BY ONLY <1>1
      <3>3. 16 * (n \div 16) + (n % 16) = n
        BY ONLY <3>2, Halves, Zenon
      <3>4. QED
        BY ONLY <2>3, <3>1, <3>3, Zenon
    <2>9. QED
      BY ONLY <1>1, <2>5, <2>7, <2>8 DEF HostPceSvn, FirstOf, h
  <1>6. CASE 128 <= n
    <2> DEFINE hi == n \div 256  lo == n % 256
    <2>1. t[1] = 2 /\ t[2] = hi /\ t[3] = lo
      BY ONLY <1>1, <1>6, Zenon
    <2>2. hi \in Nat /\ lo \in Nat /\ 256 * hi + lo = n
      <3>1. n \in Nat
        BY ONLY <1>1
      <3>2. QED
        BY ONLY <3>1
    <2> HIDE DEF hi, lo
    <2>3. h[3] = 0 /\ h[4] = 2
      BY ONLY <1>3, <2>1
    <2>4. 16 * h[5] + h[6] = hi /\ 16 * h[7] + h[8] = lo
      <3>1. 16 * (hi \div 16) + (hi % 16) = hi /\ 16 * (lo \div 16) + (lo % 16) = lo
        BY ONLY <2>2, Halves, Zenon
      <3>2. h[5] = hi \div 16 /\ h[6] = hi % 16 /\ h[7] = lo \div 16 /\ h[8] = lo % 16
        BY ONLY <1>3, <2>1, Zenon
      <3>3. QED
        BY ONLY <3>1, <3>2, Zenon
    <2>5. Index(h, Head2) = {0}
      <3>1. h[1] = Head2[1] /\ h[2] = Head2[2] /\ h[3] = Head2[3] /\ h[4] = Head2[4]
        BY ONLY <1>3, <1>4, <2>3, Zenon
      <3>2. QED
        BY ONLY <1>3, <1>4, <3>1, FirstFour, Zenon
    <2>6. TwoBytes(h) = {<<256 * ByteIn(h, 0 + 4) + ByteIn(h, 0 + 6)>>}
      <3>1. {0} \cap 0 .. 9 = {0}
        OBVIOUS
      <3>2. QED
        BY ONLY <2>5, <3>1 DEF TwoBytes
    <2>7. ByteIn(h, 0 + 4) = hi /\ ByteIn(h, 0 + 6) = lo
      <3>1. ByteIn(h, 0 + 4) = 16 * h[5] + h[6] /\ ByteIn(h, 0 + 6) = 16 * h[7] + h[8]
        BY ONLY DEF ByteIn
      <3>2. QED
        BY ONLY <2>4, <3>1
    <2>8. TwoBytes(h) = {v}
      BY ONLY <1>1, <2>2, <2>6, <2>7
    <2>9. QED
      BY ONLY <2>8 DEF HostPceSvn, FirstOf, h
  <1>7. QED
    BY ONLY <1>1, <1>5, <1>6

(* The host's serial is the signed one, whenever a circuit can take it.     *)
LEMMA CanonicalRead ==
  ASSUME NEW v \in Seq(Nat), NEW t \in Seq(Nat), SerialNumber(v, t),
         Len(Magnitude(v)) \in {SerialLen - 1, SerialLen}
  PROVE  CanonicalSerial(Magnitude(v)) = v
  <1>1. SerialLen \in Nat /\ SerialLen >= 2
    BY FieldReadAssumption
  <1>2. PICK k \in 0 .. Len(v) :
          /\ \A i \in 1 .. k : v[i] = 0
          /\ k > 0 => Len(v) = SerialLen
          /\ k < Len(v) => v[k + 1] # 0
    BY DEF SerialNumber
  <1>3. Len(v) >= SerialLen /\ Len(v) \in Nat
    BY DEF SerialNumber
  <1> DEFINE m == SubSeq(v, k + 1, Len(v))  l == Len(m)
  <1>4. Magnitude(v) = m
    BY <1>2, MagnitudeOf
  <1>5. m \in Seq(Nat) /\ l = Len(v) - k /\ \A j \in 1 .. l : m[j] = v[k + j]
    BY Behind
  <1> HIDE DEF m
  <1>6. l \in {SerialLen - 1, SerialLen}
    BY <1>4
  <1> DEFINE n == Len(v)
  <1>7. l \in Nat /\ n = SerialLen /\ k \in Nat /\ l = n - k
    <2>1. l = n - k /\ n \in Nat /\ n >= SerialLen /\ (k > 0 => n = SerialLen) /\ k \in 0 .. n
      BY <1>2, <1>3, <1>5
    <2> HIDE DEF n, l
    <2>2. QED
      BY ONLY <1>1, <1>6, <2>1
  <1>8. SubSeq(m, 1, l) = m
    BY <1>5
  <1>9. CanonicalSerial(m) = Zeros(k) \o m
    <2>1. ~(l > SerialLen) /\ SerialLen - l = k
      BY ONLY <1>1, <1>7
    <2>2. QED
      BY <1>8, <2>1 DEF CanonicalSerial
  <1>10. Zeros(k) \in Seq(Nat) /\ Len(Zeros(k)) = k /\ \A j \in 1 .. k : Zeros(k)[j] = 0
    BY <1>7 DEF Zeros
  <1> DEFINE z == Zeros(k)
  <1> HIDE DEF z, l, n
  <1>11. /\ z \o m \in Seq(Nat) /\ Len(z \o m) = k + l
         /\ \A j \in 1 .. k : (z \o m)[j] = z[j]
         /\ \A j \in 1 .. l : (z \o m)[k + j] = m[j]
    <2>1. z \in Seq(Nat) /\ Len(z) = k /\ m \in Seq(Nat) /\ Len(m) = l
      BY ONLY <1>5, <1>10, Zenon DEF z, l
    <2>2. /\ z \o m \in Seq(Nat) /\ Len(z \o m) = Len(z) + Len(m)
          /\ \A j \in 1 .. Len(z) : (z \o m)[j] = z[j]
          /\ \A j \in 1 .. Len(m) : (z \o m)[Len(z) + j] = m[j]
      BY ONLY <2>1, Joined, Zenon
    <2>3. QED
      BY ONLY <2>1, <2>2, Zenon
  <1>12. k + l = n
    BY ONLY <1>1, <1>7
  <1>13. ASSUME NEW j \in 1 .. n PROVE (z \o m)[j] = v[j]
    <2>1. CASE j \in 1 .. k
      BY ONLY <1>2, <1>10, <1>11, <2>1, Zenon DEF z
    <2>2. CASE j \notin 1 .. k
      <3>1. j - k \in 1 .. l /\ k + (j - k) = j
        BY ONLY <1>7, <1>12, <2>2, j \in 1 .. n
      <3>2. (z \o m)[k + (j - k)] = m[j - k] /\ m[j - k] = v[k + (j - k)]
        BY ONLY <1>5, <1>11, <3>1, Zenon
      <3>3. QED
        BY ONLY <3>1, <3>2
    <2>3. QED
      BY ONLY <2>1, <2>2
  <1>14. z \o m = [j \in 1 .. n |-> (z \o m)[j]] /\ v = [j \in 1 .. n |-> v[j]]
    <2>1. z \o m \in Seq(Nat) /\ Len(z \o m) = n /\ n \in Nat /\ Len(v) = n
      BY ONLY <1>7, <1>11, <1>12, <1>3 DEF n
    <2>2. QED
      BY ONLY <2>1, v \in Seq(Nat), ByElements, Zenon
  <1>15. [j \in 1 .. n |-> (z \o m)[j]] = [j \in 1 .. n |-> v[j]]
    BY ONLY <1>13
  <1>16. QED
    BY ONLY <1>4, <1>9, <1>14, <1>15 DEF z

LEMMA HostBelief ==
  ASSUME Buffered, HostValue # {},
         NEW o \in Index(doc.body, Ctx(doc.kind)), Exact(doc) => Provable(doc) /\ Fits(o)
  PROVE  HostValue = {doc.value}
  <1> DEFINE v == doc.value  j == o + Len(Ctx(doc.kind))  t == Rest(j)
  <1>1. /\ o \in Nat /\ o + 1 \in DOMAIN doc.body /\ OccursAt(doc.body, Ctx(doc.kind), o + 1)
        /\ Index(doc.body, Ctx(doc.kind)) = {o}
    <2>1. doc.body \in Seq(Nat)
      BY BufferFacts
    <2>2. QED
      BY <2>1, IndexOne
  <1>2. /\ doc.body \in Seq(Nat) /\ j \in 0 .. Len(doc.body) /\ doc.kind \in DOMAIN Width
        /\ t \in Seq(Nat) /\ Len(t) = Len(doc.body) - j
        /\ Encodes(doc.kind, v, t)
        /\ doc.kind # "status" => v \in Seq(Nat)
    BY <1>1, HostText, Zenon
  <1>3. CASE doc.kind \notin {"serial", "pce"}
    <2>1. HostValue = When(doc.value # Unknown, doc.value)
      BY <1>3 DEF HostValue
    <2>2. QED
      BY <2>1 DEF When
  <1> HIDE DEF t
  <1>4. CASE doc.kind = "serial"
    <2>1. SerialNumber(v, t) /\ v \in Seq(Nat) /\ t \in Seq(Nat)
      BY ONLY <1>2, <1>4 DEF Encodes
    <2>2. Len(Magnitude(v)) \in {SerialLen - 1, SerialLen}
      BY <1>4 DEF Provable, Exact
    <2>3. CanonicalSerial(Magnitude(v)) = v
      BY ONLY <2>1, <2>2, CanonicalRead, Zenon
    <2>4. QED
      BY <1>4, <2>3 DEF HostValue
  <1>5. CASE doc.kind = "pce"
    <2>1. PceNumber(v, t) /\ v \in Seq(Nat) /\ t \in Seq(Nat)
      BY ONLY <1>2, <1>5 DEF Encodes
    <2>2. v[1] < 128 * 256 /\ Fits(o)
      BY <1>5 DEF Provable, Exact
    <2>3. j = o + 1 /\ Width[doc.kind] = 3 /\ Ctx(doc.kind) = <<Context>>
      BY <1>2, <1>5, Kinds DEF Width, Ctx
    <2>4. 3 <= Len(t)
      <3>1. signedLen = Len(doc.body) /\ signedLen \in Nat
        BY BufferFacts DEF signedLen
      <3>2. j + 3 <= signedLen
        BY <1>5, <2>2, <2>3 DEF Fits
      <3>3. QED
        BY ONLY <1>2, <3>1, <3>2
    <2>5. HostPceSvn(Nibbles(<<2>> \o t)) = {v}
      BY <2>1, <2>2, <2>4, HostPceRead
    <2>6. t = SubSeq(doc.body, o + 2, Len(doc.body))
      <3>1. o + 2 = j + 1
        BY <1>1, <2>3
      <3>2. QED
        BY <3>1 DEF t, Rest
    <2>7. Index(doc.body, <<Context>>) = {o}
      BY ONLY <1>1, <2>3, Zenon
    <2>8. HostValue = UNION {HostPceSvn(Nibbles(<<2>> \o SubSeq(doc.body, i + 2, Len(doc.body)))) :
                               i \in Index(doc.body, <<Context>>)}
      BY ONLY <1>5 DEF HostValue
    <2>9. HostValue = HostPceSvn(Nibbles(<<2>> \o SubSeq(doc.body, o + 2, Len(doc.body))))
      BY ONLY <2>7, <2>8
    <2>10. QED
      BY ONLY <2>5, <2>6, <2>9
  <1>6. QED
    BY <1>3, <1>4, <1>5

--------------------------------------------------------------------------------
(* What was read is what the two readers accept at one offset; a host's is  *)
(* the first occurrence of the context, and it believed to have a value.    *)
IInv ==
  /\ Buffered
  /\ \/ by = "nobody" /\ read = [gnark |-> {}, noir |-> {}]
     \/ /\ off \in 0 .. (P - 1)
        /\ read = [gnark |-> Gnark(doc.kind, off), noir |-> Noir(doc.kind, off)]
  /\ by = "host" => off \in Index(doc.body, Ctx(doc.kind)) /\ HostValue # {}

(* The first occurrence lies in the body, and so below the order.           *)
LEMMA IndexBelowOrder ==
  ASSUME Buffered, NEW t, NEW o \in Index(doc.body, t)
  PROVE  o \in 0 .. (P - 1)
  <1>1. PICK i \in DOMAIN doc.body : o = i - 1
    BY DEF Index
  <1>2. i \in 1 .. signedLen
    BY <1>1, BufferFacts DEF signedLen
  <1>3. signedLen \in Nat /\ signedLen <= Capacity
    BY BufferFacts
  <1>4. QED
    BY <1>1, <1>2, <1>3, Parameters

LEMMA InitInv == Init => IInv
  BY DEF Init, IInv, Buffered

LEMMA StepInv == IInv /\ [Next]_vars => IInv'
  <1>1. ASSUME doc' = doc, buf' = buf
        PROVE  /\ \A o : Gnark(doc.kind, o)' = Gnark(doc.kind, o)
               /\ \A o : Noir(doc.kind, o)' = Noir(doc.kind, o)
               /\ HostValue' = HostValue /\ (Buffered => Buffered')
    <2>1. \A o : Gnark(doc.kind, o)' = Gnark(doc.kind, o) /\ Noir(doc.kind, o)' = Noir(doc.kind, o)
      BY <1>1 DEF Gnark, Noir, GnarkValidity, NoirValidity, ExtractField, ExtractFieldLU,
                  ExtractStringEnumLU, NoirExtractField, NoirStringEnum, GnarkSigned, NoirSigned,
                  SelectorBytes, LookupBytes, NoirBytes, ByteAt, signedLen
    <2>2. HostValue' = HostValue
      BY <1>1 DEF HostValue
    <2>3. Buffered => Buffered'
      BY <1>1 DEF Buffered
    <2>4. QED
      BY <2>1, <2>2, <2>3
  <1>2. ASSUME IInv, NEW o \in 0 .. (P - 1), NEW who, ReadAt(o, who),
               who = "host" => o \in Index(doc.body, Ctx(doc.kind)) /\ HostValue # {}
        PROVE  IInv'
    <2>1. /\ doc' = doc /\ buf' = buf /\ by' = who /\ off' = o
          /\ read' = [gnark |-> Gnark(doc.kind, o), noir |-> Noir(doc.kind, o)]
      BY <1>2 DEF ReadAt
    <2>2. Buffered'
      BY <1>1, <1>2, <2>1 DEF IInv
    <2>3. read' = [gnark |-> Gnark(doc.kind, off)', noir |-> Noir(doc.kind, off)']
      <3>1. Gnark(doc'.kind, off') = Gnark(doc.kind, o) /\ Noir(doc'.kind, off') = Noir(doc.kind, o)
        BY <2>1
      <3>2. Gnark(doc.kind, o)' = Gnark(doc.kind, o) /\ Noir(doc.kind, o)' = Noir(doc.kind, o)
        BY <1>1, <2>1
      <3>3. QED
        BY <2>1, <3>1, <3>2
    <2>4. by' = "host" => (off \in Index(doc.body, Ctx(doc.kind)))' /\ HostValue' # {}
      BY <1>1, <1>2, <2>1
    <2>5. QED
      BY <1>2, <2>1, <2>2, <2>3, <2>4 DEF IInv
  <1>3. ASSUME IInv, Prove PROVE IInv'
    BY <1>2, <1>3 DEF Prove
  <1>4. ASSUME IInv, Build PROVE IInv'
    <2>1. PICK o \in Index(doc.body, Ctx(doc.kind)) : ReadAt(o, "host")
      BY <1>4 DEF Build
    <2>2. o \in 0 .. (P - 1) /\ HostValue # {}
      BY <1>4, <2>1, IndexBelowOrder DEF IInv, Build
    <2>3. QED
      BY <1>2, <1>4, <2>1, <2>2
  <1>5. ASSUME IInv, UNCHANGED vars PROVE IInv'
    <2>1. doc' = doc /\ buf' = buf /\ by' = by /\ off' = off /\ read' = read
      BY <1>5 DEF vars
    <2>2. /\ Buffered' /\ HostValue' = HostValue
          /\ Gnark(doc.kind, off)' = Gnark(doc.kind, off) /\ Noir(doc.kind, off)' = Noir(doc.kind, off)
      BY <1>1, <1>5, <2>1 DEF IInv
    <2>3. QED
      BY <1>5, <2>1, <2>2 DEF IInv
  <1>6. QED
    BY <1>3, <1>4, <1>5 DEF Next

LEMMA InvAgrees == IInv => ReadersAgree
  <1>1. SUFFICES ASSUME IInv PROVE read["gnark"] = read["noir"]
    BY DEF ReadersAgree
  <1>2. CASE read = [gnark |-> {}, noir |-> {}]
    BY <1>2
  <1>3. CASE /\ off \in 0 .. (P - 1)
             /\ read = [gnark |-> Gnark(doc.kind, off), noir |-> Noir(doc.kind, off)]
    <2>1. Gnark(doc.kind, off) = Noir(doc.kind, off)
      BY <1>1, <1>3, ReadsAlike DEF IInv
    <2>2. QED
      BY <1>3, <2>1
  <1>4. QED
    BY <1>1, <1>2, <1>3 DEF IInv

LEMMA InvOfIssuer == IInv => FieldOfIssuer
  <1>1. SUFFICES ASSUME IInv, Exact(doc) PROVE read["noir"] \subseteq {doc.value}
    <2>1. ASSUME IInv PROVE read["gnark"] = read["noir"]
      BY <2>1, InvAgrees DEF ReadersAgree
    <2>2. QED
      BY <1>1, <2>1 DEF FieldOfIssuer, Backends
  <1>2. CASE read = [gnark |-> {}, noir |-> {}]
    BY <1>2
  <1>3. CASE /\ off \in 0 .. (P - 1)
             /\ read = [gnark |-> Gnark(doc.kind, off), noir |-> Noir(doc.kind, off)]
    <2>1. Noir(doc.kind, off) \subseteq {doc.value}
      BY <1>1, <1>3, StatusOfIssuer, ValidityOfIssuer, OtherOfIssuer DEF IInv
    <2>2. QED
      BY <1>3, <2>1
  <1>4. QED
    BY <1>1, <1>2, <1>3 DEF IInv

(* What both circuits read at a host's offset.                              *)
LEMMA InvHost ==
  ASSUME IInv, by = "host"
  PROVE  \E found :
           /\ \A b \in Backends : read[b] = found
           /\ ~Room => found = {}
           /\ Room /\ Provable(doc) => found = {doc.value}
           /\ Exact(doc) /\ ~Provable(doc) => found = {}
           /\ ~Exact(doc) => doc.value \notin found
           /\ (Exact(doc) => Provable(doc) /\ Room) => HostValue = {doc.value}
  <1> DEFINE found == Noir(doc.kind, off)
  <1>1. /\ Buffered /\ off \in 0 .. (P - 1) /\ off \in Index(doc.body, Ctx(doc.kind))
        /\ HostValue # {} /\ read["noir"] = found
    BY DEF IInv
  <1>2. off + 1 \in DOMAIN doc.body /\ OccursAt(doc.body, Ctx(doc.kind), off + 1)
    BY <1>1, BufferFacts, IndexOne
  <1>3. doc.kind = "status" => doc.value # Unknown
    BY <1>1 DEF HostValue, When
  <1>4. Fits(off) <=> Room
    BY DEF Fits, Room
  <1>5. /\ ~Fits(off) => found = {}
        /\ Fits(off) /\ Provable(doc) => found = {doc.value}
        /\ Exact(doc) /\ ~Provable(doc) => found = {}
        /\ ~Exact(doc) => doc.value \notin found
    BY ONLY <1>1, <1>2, <1>3, HostReads, Zenon
  <1>6. (Exact(doc) => Provable(doc) /\ Fits(off)) => HostValue = {doc.value}
    BY ONLY <1>1, HostBelief, Zenon
  <1>7. \A b \in Backends : read[b] = found
    BY <1>1, InvAgrees DEF ReadersAgree, Backends
  <1> HIDE DEF found
  <1>8. QED
    BY ONLY <1>4, <1>5, <1>6, <1>7, Zenon

LEMMA InvAccepted == IInv => HostAccepted
  <1>1. SUFFICES ASSUME IInv, by = "host", NEW b \in Backends
                 PROVE  doc.value \in read[b] <=> Provable(doc) /\ Room
    BY DEF HostAccepted
  <1>2. PICK found :
          /\ read[b] = found
          /\ ~Room => found = {}
          /\ Room /\ Provable(doc) => found = {doc.value}
          /\ Exact(doc) /\ ~Provable(doc) => found = {}
          /\ ~Exact(doc) => doc.value \notin found
    BY <1>1, InvHost
  <1>3. doc.value \notin {} /\ doc.value \in {doc.value}
    OBVIOUS
  <1>4. Provable(doc) => Exact(doc)
    BY DEF Provable
  <1>5. QED
    BY ONLY <1>2, <1>3, <1>4, Zenon

LEMMA InvBelieved == IInv => HostAgrees
  <1>1. SUFFICES ASSUME IInv, by = "host", NEW b \in Backends, read[b] # {}
                 PROVE  read[b] = HostValue <=> Exact(doc)
    BY DEF HostAgrees
  <1>2. PICK found :
          /\ read[b] = found
          /\ ~Room => found = {}
          /\ Room /\ Provable(doc) => found = {doc.value}
          /\ Exact(doc) /\ ~Provable(doc) => found = {}
          /\ ~Exact(doc) => doc.value \notin found
          /\ (Exact(doc) => Provable(doc) /\ Room) => HostValue = {doc.value}
    BY <1>1, InvHost
  <1>3. doc.value \in {doc.value}
    OBVIOUS
  <1>4. QED
    BY ONLY <1>1, <1>2, <1>3, Zenon

(* The circuits accept the same values at every offset, whatever the field, *)
(* the buffer, the documents and what stands behind them (extract.go        *)
(* 125-133, der.nr 124-129).                                                *)
THEOREM ReadersAlwaysAgree == Spec => []ReadersAgree
  <1>1. Spec => []IInv
    BY InitInv, StepInv, PTL DEF Spec
  <1>2. QED
    BY <1>1, InvAgrees, PTL

(* Given the window that an issuer signed behind a context, every decoder   *)
(* takes the value it wrote there, or nothing (tcbextract.go 77-118,        *)
(* derive.go 62-126, extract.go 55-82).                                     *)
THEOREM DecodersAlwaysExact == Spec => []DecodersExact
  <1>1. Spec => []IInv
    BY InitInv, StepInv, PTL DEF Spec
  <1>2. IInv => DecodersExact
    BY IssuerExact DEF IInv, Buffered
  <1>3. QED
    BY <1>1, <1>2, PTL

(* Neither an offset nor what a prover puts behind the signed text makes a  *)
(* circuit accept a value that the issuer did not write (extract.go 89-95,  *)
(* 105-115, der.nr 124-129).                                                *)
THEOREM FieldAlwaysOfIssuer == Spec => []FieldOfIssuer
  <1>1. Spec => []IInv
    BY InitInv, StepInv, PTL DEF Spec
  <1>2. QED
    BY <1>1, InvOfIssuer, PTL

(* A host's offset is accepted with the issuer's value exactly when the     *)
(* field has a proof and its window has room (builder.go 120-126, 674-680). *)
THEOREM HostAlwaysAccepted == Spec => []HostAccepted
  <1>1. Spec => []IInv
    BY InitInv, StepInv, PTL DEF Spec
  <1>2. QED
    BY <1>1, InvAccepted, PTL

(* Where a circuit accepts a host's offset, the host's own decoding is the  *)
(* circuits', but for a year of the last century and a long decimal         *)
(* (sgxext.go 54-67, builder.go 88-97, 662-672).                            *)
THEOREM HostAlwaysAgrees == Spec => []HostAgrees
  <1>1. Spec => []IInv
    BY InitInv, StepInv, PTL DEF Spec
  <1>2. QED
    BY <1>1, InvBelieved, PTL

--------------------------------------------------------------------------------
(* The offsets of an array, for any number of slots and any document: the   *)
(* bound offsets are components, and between two of them there are at least *)
(* as many components as slots (Spread).  As many components as slots leave *)
(* no room for a gap.                                                       *)
ArrayDocument ==
  /\ comp \in Seq(Positions) /\ Len(comp) \in Nat \ {0} /\ DOMAIN comp = 1 .. Len(comp)
  /\ \A j \in DOMAIN comp : comp[j] \in Positions /\ comp[j] < end
  /\ Ordered(comp) /\ end \in Positions
  /\ \A q \in other : q \in Positions /\ (q < comp[1] \/ q > end)

Own == \A i \in DOMAIN bound : \E j \in DOMAIN comp : bound[i] = comp[j]

Spread == \A i, k \in DOMAIN bound : \A j, l \in DOMAIN comp :
            i <= k /\ bound[i] = comp[j] /\ bound[k] = comp[l] => l - j >= k - i

Slotted == /\ bound \in Seq(Positions) /\ Len(bound) <= Slots
           /\ bound # <<>> => bound[1] = comp[1]
           /\ Ordered(bound) /\ Own /\ Spread

ArrayInv == ArrayDocument /\ Slotted /\ (pc = "accepted" => Len(bound) = Slots)

--------------------------------------------------------------------------------
LEMMA SlotsNatural == Slots \in Nat \ {0} /\ Size \in Nat
  BY ArrayAssumption

LEMMA CompOrder ==
  ASSUME ArrayDocument, NEW i \in DOMAIN comp, NEW j \in DOMAIN comp
  PROVE  /\ comp[i] < comp[j] => i < j
         /\ comp[i] = comp[j] => i = j
  <1>1. i \in Nat /\ j \in Nat /\ comp[i] \in Int /\ comp[j] \in Int
    BY SlotsNatural DEF ArrayDocument, Positions
  <1>2. (i < j => comp[i] < comp[j]) /\ (j < i => comp[j] < comp[i])
    BY DEF ArrayDocument, Ordered
  <1>3. QED
    BY <1>1, <1>2

LEMMA ArrayInitInv == ArrayInit => ArrayInv
  <1>1. SUFFICES ASSUME ArrayInit PROVE ArrayInv
    OBVIOUS
  <1>2. PICK n \in 1 .. MaxComps : comp \in [1 .. n -> Positions] /\ Ordered(comp)
    BY <1>1 DEF ArrayInit
  <1>3. n \in Nat \ {0} /\ DOMAIN comp = 1 .. n /\ Len(comp) = n
    BY <1>2, SlotsNatural
  <1>4. ArrayDocument
    BY <1>1, <1>2, <1>3 DEF ArrayInit, ArrayDocument
  <1>5. bound = <<>> /\ pc # "accepted"
    BY <1>1 DEF ArrayInit
  <1>6. DOMAIN bound = {} /\ bound \in Seq(Positions) /\ Len(bound) = 0
    BY <1>5
  <1>7. Slotted
    BY <1>5, <1>6, SlotsNatural DEF Slotted, Ordered, Own, Spread
  <1>8. QED
    BY <1>4, <1>5, <1>7 DEF ArrayInv

(* A slot's offset is a component, the first slot's the first one, and it   *)
(* is behind the slot before.                                               *)
LEMMA SlotIsComponent ==
  ASSUME ArrayInv, NEW q \in Positions,
         IF Len(bound) + 1 = 1 THEN q = Head0
                             ELSE q \in Separated /\ Increasing(q) /\ Inside(q)
  PROVE  /\ \E j \in DOMAIN comp : q = comp[j]
         /\ bound = <<>> => q = comp[1]
         /\ bound # <<>> => bound[Len(bound)] < q
  <1>1. CASE bound = <<>>
    BY <1>1 DEF Head0, ArrayInv, ArrayDocument
  <1>2. CASE bound # <<>>
    <2>1. Len(bound) \in Nat \ {0} /\ Len(bound) \in DOMAIN bound /\ 1 \in DOMAIN bound
      BY <1>2 DEF ArrayInv, Slotted
    <2>2. q \in Separated /\ q > bound[Len(bound)] /\ q < end
      BY <2>1 DEF Increasing, Inside
    <2>3. /\ bound[Len(bound)] \in Int /\ bound[1] \in Int /\ q \in Int /\ end \in Int
          /\ comp[1] \in Int
      BY <2>1, SlotsNatural DEF ArrayInv, Slotted, ArrayDocument, Positions
    <2>4. bound[Len(bound)] >= comp[1]
      BY <2>1, <2>3, <1>2 DEF ArrayInv, Slotted, Ordered
    <2>5. q \notin other
      BY <2>2, <2>3, <2>4 DEF ArrayInv, ArrayDocument
    <2>6. QED
      BY <1>2, <2>2, <2>3, <2>5 DEF Separated, ArrayInv, ArrayDocument
  <1>3. QED
    BY <1>1, <1>2

LEMMA SpreadStep ==
  ASSUME ArrayInv, NEW q \in Positions,
         \E j \in DOMAIN comp : q = comp[j],
         bound # <<>> => bound[Len(bound)] < q
  PROVE  \A i, k \in DOMAIN Append(bound, q) : \A j, l \in DOMAIN comp :
           i <= k /\ Append(bound, q)[i] = comp[j] /\ Append(bound, q)[k] = comp[l] => l - j >= k - i
  <1> DEFINE n == Len(bound)  new == Append(bound, q)
  <1>1. /\ n \in Nat /\ DOMAIN bound = 1 .. n /\ DOMAIN new = 1 .. (n + 1)
        /\ new[n + 1] = q /\ \A i \in 1 .. n : new[i] = bound[i]
    BY DEF ArrayInv, Slotted
  <1> SUFFICES ASSUME NEW i \in 1 .. (n + 1), NEW k \in 1 .. (n + 1),
                      NEW j \in DOMAIN comp, NEW l \in DOMAIN comp,
                      i <= k, new[i] = comp[j], new[k] = comp[l]
               PROVE  l - j >= k - i
    BY <1>1
  <1>2. j \in Nat /\ l \in Nat
    BY DEF ArrayInv, ArrayDocument
  <1> HIDE DEF new, n
  <1>3. CASE k \in 1 .. n
    <2>1. i \in 1 .. n /\ i \in DOMAIN bound /\ k \in DOMAIN bound
      BY <1>1, <1>3
    <2>2. bound[i] = comp[j] /\ bound[k] = comp[l]
      BY <1>1, <1>3, <2>1
    <2>3. QED
      BY <2>1, <2>2 DEF ArrayInv, Slotted, Spread
  <1>4. CASE k = n + 1 /\ i = n + 1
    BY <1>1, <1>2, <1>4, CompOrder DEF ArrayInv
  <1>5. CASE k = n + 1 /\ i \in 1 .. n
    <2>1. n \in DOMAIN bound /\ bound # <<>> /\ i <= n
      BY <1>1, <1>5
    <2>2. PICK m \in DOMAIN comp : bound[n] = comp[m]
      BY <2>1 DEF ArrayInv, Slotted, Own
    <2>3. m - j >= n - i
      BY <1>1, <1>5, <2>1, <2>2 DEF ArrayInv, Slotted, Spread
    <2>4. comp[m] < comp[l]
      BY <1>1, <1>5, <2>1, <2>2 DEF n
    <2>5. m < l /\ m \in Nat
      BY <2>4, CompOrder DEF ArrayInv, ArrayDocument
    <2>6. QED
      BY <1>1, <1>2, <1>5, <2>3, <2>5
  <1>6. QED
    BY <1>1, <1>3, <1>4, <1>5

LEMMA ArrayBindStep ==
  ASSUME ArrayInv, BindSlot
  PROVE  ArrayInv'
  <1>1. PICK q \in Positions :
          /\ IF Len(bound) + 1 = 1 THEN q = Head0
                                 ELSE q \in Separated /\ Increasing(q) /\ Inside(q)
          /\ bound' = Append(bound, q)
    BY DEF BindSlot
  <1>2. /\ comp' = comp /\ end' = end /\ other' = other /\ pc' = pc
        /\ pc = "bind" /\ Len(bound) + 1 <= Slots
    BY DEF BindSlot, LastSlot
  <1>3. /\ \E j \in DOMAIN comp : q = comp[j]
        /\ bound = <<>> => q = comp[1]
        /\ bound # <<>> => bound[Len(bound)] < q
    BY <1>1, SlotIsComponent
  <1>4. ArrayDocument'
    BY <1>2 DEF ArrayInv, ArrayDocument, Ordered, Positions
  <1> DEFINE n == Len(bound)  new == Append(bound, q)
  <1>5. /\ n \in Nat /\ DOMAIN bound = 1 .. n /\ DOMAIN new = 1 .. (n + 1) /\ Len(new) = n + 1
        /\ new \in Seq(Positions) /\ new # <<>>
        /\ new[n + 1] = q /\ \A i \in 1 .. n : new[i] = bound[i]
    BY DEF ArrayInv, Slotted
  <1>6. new[1] = comp[1]
    <2>1. CASE bound = <<>>
      BY <2>1, <1>3, <1>5
    <2>2. CASE bound # <<>>
      <3>1. Len(bound) \in Nat \ {0} /\ bound[1] = comp[1]
        BY <2>2 DEF ArrayInv, Slotted
      <3>2. new[1] = bound[1]
        BY <1>5, <3>1
      <3>3. QED
        BY <3>1, <3>2
    <2>3. QED
      BY <2>1, <2>2
  <1>7. Ordered(new)
    <2>1. SUFFICES ASSUME NEW i \in 1 .. (n + 1), NEW k \in 1 .. (n + 1), i < k
                   PROVE  new[i] < new[k]
      BY <1>5 DEF Ordered
    <2>2. /\ \A r \in 1 .. n : bound[r] \in Int
          /\ q \in Int
      BY SlotsNatural DEF ArrayInv, Slotted, Positions
    <2>3. \A r, s \in 1 .. n : r < s => bound[r] < bound[s]
      BY <1>5 DEF ArrayInv, Slotted, Ordered
    <2>4. n # 0 => bound[n] < q
      BY <1>3, <1>5 DEF n
    <2> HIDE DEF n, new
    <2>5. QED
      BY <1>5, <2>1, <2>2, <2>3, <2>4
  <1>8. ASSUME NEW i \in DOMAIN new PROVE \E j \in DOMAIN comp : new[i] = comp[j]
    <2>1. CASE i = n + 1
      BY <1>3, <1>5, <2>1
    <2>2. CASE i \in 1 .. n
      BY <1>5, <2>2 DEF ArrayInv, Slotted, Own
    <2>3. QED
      BY <1>5, <2>1, <2>2
  <1>9. \A i, k \in DOMAIN new : \A j, l \in DOMAIN comp :
           i <= k /\ new[i] = comp[j] /\ new[k] = comp[l] => l - j >= k - i
    BY <1>3, SpreadStep
  <1> HIDE DEF n, new
  <1>10. bound' = new
    BY <1>1 DEF new
  <1>11. Slotted'
    BY <1>2, <1>5, <1>6, <1>7, <1>8, <1>9, <1>10
    DEF Slotted, Ordered, Own, Spread, n, Positions
  <1>12. QED
    BY <1>2, <1>4, <1>11 DEF ArrayInv

LEMMA ArrayOtherSteps ==
  ASSUME ArrayInv, FillOffsets \/ Accept \/ UNCHANGED arrayVars
  PROVE  ArrayInv'
  <1>1. /\ comp' = comp /\ end' = end /\ other' = other /\ bound' = bound
        /\ pc' = "accepted" => Len(bound) = Slots
    BY DEF FillOffsets, Accept, LastSlot, arrayVars, ArrayInv
  <1>2. QED
    BY <1>1 DEF ArrayInv, ArrayDocument, Slotted, Ordered, Own, Spread, Positions

--------------------------------------------------------------------------------
LEMMA ArrayInvariance == ArraySpec => []ArrayInv
  <1>1. ArrayInv /\ [ArrayNext]_arrayVars => ArrayInv'
    BY ArrayBindStep, ArrayOtherSteps DEF ArrayNext
  <1>2. QED
    BY ArrayInitInv, <1>1, PTL DEF ArraySpec

LEMMA ArrayExact == ArrayInv => PositionalBinding
  <1>1. SUFFICES ASSUME ArrayInv, pc = "accepted", Len(comp) = Slots PROVE bound = comp
    BY DEF PositionalBinding
  <1>2. /\ Len(bound) = Slots /\ DOMAIN bound = 1 .. Slots /\ DOMAIN comp = 1 .. Slots
        /\ bound \in Seq(Positions) /\ bound # <<>>
    BY <1>1, SlotsNatural DEF ArrayInv, Slotted, ArrayDocument
  <1>3. ASSUME NEW i \in 1 .. Slots PROVE bound[i] = comp[i]
    <2>1. PICK j \in 1 .. Slots : bound[i] = comp[j]
      BY <1>1, <1>2 DEF ArrayInv, Slotted, Own
    <2>2. PICK l \in 1 .. Slots : bound[Slots] = comp[l]
      BY <1>1, <1>2, SlotsNatural DEF ArrayInv, Slotted, Own
    <2>3. bound[1] = comp[1] /\ 1 \in 1 .. Slots /\ Slots \in 1 .. Slots
      BY <1>1, <1>2, SlotsNatural DEF ArrayInv, Slotted
    <2>4. l - j >= Slots - i
      BY <1>1, <1>2, <2>1, <2>2, <2>3 DEF ArrayInv, Slotted, Spread
    <2>5. j - 1 >= i - 1
      BY <1>1, <1>2, <2>1, <2>3 DEF ArrayInv, Slotted, Spread
    <2>6. j = i
      BY <2>4, <2>5, SlotsNatural
    <2>7. QED
      BY <2>1, <2>6
  <1>4. comp \in Seq(Positions)
    BY <1>1 DEF ArrayInv, ArrayDocument
  <1>5. QED
    BY <1>1, <1>2, <1>3, <1>4

(* The argument of bindSvnArray's comment: with as many components as slots *)
(* increasing offsets on components can only be all of them in order.       *)
THEOREM PositionsAlwaysExact == ArraySpec => []PositionalBinding
  BY ArrayInvariance, ArrayExact, PTL

(* In any document the accepted offsets are components of the one array.    *)
THEOREM ComponentsAlwaysOwn == ArraySpec => []OwnComponents
  <1>1. ArrayInv => OwnComponents
    BY DEF ArrayInv, Slotted, Own, OwnComponents
  <1>2. QED
    BY ArrayInvariance, <1>1, PTL
================================================================================
