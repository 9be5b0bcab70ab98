------------------------------- MODULE FieldRead -------------------------------
(***************************************************************************)
(* How both circuits read one field of a signed document: the witness      *)
(* names an offset, the circuit demands a literal context there, takes the *)
(* bytes behind it and decodes them.  The buffer behind the signed prefix  *)
(* is the prover's, and no circuit looks for a second context.             *)
(*                                                                         *)
(*   gnark (circuit/extract.go, derive.go, tcbextract.go) reads JSON       *)
(*   through a lookup table and DER through a one-hot selector; offsets    *)
(*   are field elements.                                                   *)
(*   Noir (crates/dcap/src/der.nr, parse.nr, tcb.nr) indexes with a u32.   *)
(*   The hosts (witness/builder.go, sgxext.go) take the first occurrence   *)
(*   of the context and decode the field with Go's libraries.              *)
(*                                                                         *)
(* A context that no value contains is one symbol; the words of a status   *)
(* are symbols; everything else is bytes.  A reader returns the set of     *)
(* what it accepts: empty, or one sequence.                                *)
(***************************************************************************)
EXTENDS Integers, SequencesExt

CONSTANTS P,          \* the order of the field
          W,          \* 2^32: the bits of a comparison, the values of a u32
          Capacity,   \* of the buffer
          SerialLen,  \* 20
          Documents,  \* [kind, value, body]: what an issuer means and signs
          Unknown,    \* the value of a status that no program knows
          Tails       \* what a prover may put behind a body

(* No read reaches further behind its offset.                               *)
Reach == 32 + SerialLen

(* The bytes of a field behind its context, by kind.                        *)
Width ==
  [decimal |-> 4, hex |-> 4, iso |-> 20, status |-> 5, serial |-> SerialLen + 2, pce |-> 3,
   validity |-> 13]

ASSUME FieldReadAssumption ==
  /\ P \in Nat /\ W \in Nat /\ Capacity \in Nat /\ SerialLen \in Nat \ {0, 1}
  /\ Capacity + Reach < W /\ 2 * W <= P
  /\ Tails \subseteq Seq(Nat)
  /\ \A d \in Documents :
       /\ d.kind \in DOMAIN Width /\ d.body \in Seq(Nat) /\ Len(d.body) <= Capacity
       /\ d.kind # "status" => d.value \in Seq(Nat)

VARIABLES doc, buf,   \* the document and the buffer that holds it
          by,         \* who chose the offset: "nobody", "prover", "host"
          off,
          read        \* what each circuit accepts there

vars == <<doc, buf, by, off, read>>

signedLen == Len(doc.body)

--------------------------------------------------------------------------------
(* The readers.                                                             *)

When(condition, v) == IF condition THEN {v} ELSE {}

ByteAt(i) == IF i < Capacity THEN buf[i + 1] ELSE 0

(* selectorAt, readBytesAtSel: an offset in range; zeros past the end.      *)
SelectorBytes(o, k) == When(o < Capacity, [j \in 1 .. k |-> ByteAt(o + j - 1)])

(* readAt: every index is an entry of the table.                            *)
LookupBytes(o, k) ==
  When(\A j \in 0 .. (k - 1) : (o + j) % P < Capacity, [j \in 1 .. k |-> ByteAt((o + j - 1) % P)])

NoirBytes(o, k) == When(o + k <= Capacity, [j \in 1 .. k |-> ByteAt(o + j - 1)])

(* assertGte(signedLen, o + k); variants: off by one, and not at all.       *)
SignedAndOne(o, k) == (signedLen + 1 - (o + k)) % P < W
Unbounded(o, k) == TRUE
GnarkSigned(o, k) == (signedLen - (o + k)) % P < W

(* A u32 sum that overflows fails.                                          *)
NoirUnbounded(o, k) == o < W
NoirSigned(o, k) == o < W /\ o + k <= signedLen

(* What follows the context.                                                *)
After(ctx, found) == {SubSeq(c, Len(ctx) + 1, Len(c)) : c \in {d \in found : IsPrefix(ctx, d)}}

ExtractField(o, ctx, n) ==
  IF GnarkSigned(o, Len(ctx) + n) THEN After(ctx, SelectorBytes(o, Len(ctx) + n)) ELSE {}
ExtractFieldLU(o, ctx, n) ==
  IF GnarkSigned(o, Len(ctx) + n) THEN After(ctx, LookupBytes(o, Len(ctx) + n)) ELSE {}
NoirExtractField(o, ctx, n) ==
  IF NoirSigned(o, Len(ctx) + n) THEN After(ctx, NoirBytes(o, Len(ctx) + n)) ELSE {}

(* A status may run into the unsigned rest of the buffer.                   *)
ExtractStringEnumLU(o, ctx, n) ==
  IF GnarkSigned(o, Len(ctx) + 1) THEN After(ctx, LookupBytes(o, Len(ctx) + n)) ELSE {}
NoirStringEnum(o, ctx, n) ==
  IF NoirSigned(o, Len(ctx) + 1) THEN After(ctx, NoirBytes(o, Len(ctx) + n)) ELSE {}

--------------------------------------------------------------------------------
(* The decoders: the set of values of a sequence of bytes.                  *)

Digits == 48 .. 57
Number(s) ==
  LET acc[k \in 0 .. Len(s)] == IF k = 0 THEN 0 ELSE 10 * acc[k - 1] + s[k] - 48
  IN  acc[Len(s)]
AllDigits(s) == \A i \in DOMAIN s : s[i] \in Digits

(* The leading run of digits, and no digit behind it.                       *)
ParseDecimal(c) ==
  {<<Number(SubSeq(c, 1, k))>> : k \in {k \in 1 .. Len(c) :
     /\ AllDigits(SubSeq(c, 1, k))
     /\ \A i \in (k + 1) .. Len(c) : c[i] \notin Digits}}

(* hexNibble: both cases of the letters.                                    *)
Nibble(x) ==
  When(x \in Digits, x - 48) \cup When(x \in 65 .. 70, x - 55) \cup When(x \in 97 .. 102, x - 87)
HexToBytes(c) ==
  LET pair(i) == {16 * hi + lo : hi \in Nibble(c[2 * i - 1]), lo \in Nibble(c[2 * i])}
      n == Len(c) \div 2
  IN  {b \in [1 .. n -> UNION {pair(i) : i \in 1 .. n}] : \A i \in 1 .. n : b[i] \in pair(i)}

(* The powers of ten: Power[k + 1] is the k-th.                             *)
Power == <<1, 10, 100, 1000, 10000, 100000, 1000000, 10000000, 100000000>>

(* A packed YYYYMMDDhhmmss is a date and a time of day.  The separators of  *)
(* an ISO date are not looked at.                                           *)
Pack(century, s) ==
  When(AllDigits(s), <<Power[7] * century + Number(SubSeq(s, 1, Len(s) - 6)),
                       Number(SubSeq(s, Len(s) - 5, Len(s)))>>)
DigitPlaces == <<1, 2, 3, 4, 6, 7, 9, 10, 12, 13, 15, 16, 18, 19>>
ParseIso8601(c) == Pack(0, [i \in 1 .. 14 |-> c[DigitPlaces[i]]])

(* Variant: the two digits as they are.                                     *)
ParseUtcShort(c) == Pack(0, SubSeq(c, 1, 12))
ParseUtcTime(c) == Pack(20, SubSeq(c, 1, 12))

(* The words of a status, and the closing quote.                            *)
Quote == 34
Word ==
  [UpToDate |-> 301, SWHardening |-> 302, Needed |-> 303, Configuration |-> 304, And |-> 305,
   OutOfDate |-> 306, Revoked |-> 307]

Statuses ==
  <<<<Word.UpToDate>>, <<Word.SWHardening, Word.Needed>>, <<Word.Configuration, Word.Needed>>,
    <<Word.Configuration, Word.And, Word.SWHardening, Word.Needed>>, <<Word.OutOfDate>>,
    <<Word.OutOfDate, Word.Configuration, Word.Needed>>, <<Word.Revoked>>>>

(* Variant: a prefix is enough.                                             *)
OpenLiteral(c, lit) == IsPrefix(lit, c)
Literal(c, lit) == IsPrefix(Append(lit, Quote), c)

(* statusSeverityFromBytes: exactly one literal matches.                    *)
StatusSeverity(c) ==
  {<<i - 1>> : i \in {i \in DOMAIN Statuses : \A j \in DOMAIN Statuses :
     Literal(c, Statuses[j]) <=> j = i}}

(* The serial: its length byte, and a sign byte in front of a full one.     *)
(* Variant: no sign byte.                                                   *)
Plain(c) == When(c[1] = SerialLen, SubSeq(c, 2, SerialLen + 1))
Serial(c) == Plain(c) \cup When(c[1] = SerialLen + 1 /\ c[2] = 0, SubSeq(c, 3, SerialLen + 2))

(* The PCE SVN: an INTEGER of one or two bytes.                             *)
PceSvn(c) == When(c[1] = 1, <<c[2]>>) \cup When(c[1] = 2, <<256 * c[2] + c[3]>>)

--------------------------------------------------------------------------------
(* The fields.                                                              *)
Context == 256
CertValidityCtx == <<48, 30, 23, 13>>     \* SEQUENCE of 30 bytes, UTCTime of 13
UtcTag == <<23, 13>>

Json == {"decimal", "hex", "iso", "status"}
Ctx(kind) == IF kind = "validity" THEN CertValidityCtx ELSE <<Context>>

Decode(kind, c) ==
  CASE kind = "decimal" -> ParseDecimal(c)  [] kind = "hex" -> HexToBytes(c)
    [] kind = "iso" -> ParseIso8601(c)  [] kind = "status" -> StatusSeverity(c)
    [] kind = "serial" -> Serial(c)     [] kind = "pce" -> PceSvn(c)

Decoded(kind, found) == UNION {Decode(kind, c) : c \in found}
Times(found) == UNION {ParseUtcTime(c) : c \in found}
Both(nb, na) == {from \o until : from \in nb, until \in na}

(* checkCertValidity: gnark takes the tag of the second date on trust.      *)
GnarkValidity(o) ==
  Both(Times(ExtractField(o, CertValidityCtx, 13)), Times(ExtractField((o + 19) % P, <<>>, 13)))
NoirValidity(o) ==
  Both(Times(NoirExtractField(o, CertValidityCtx, 13)), Times(NoirExtractField(o + 17, UtcTag, 13)))

Gnark(kind, o) ==
  CASE kind = "validity" -> GnarkValidity(o)
    [] kind = "status" -> Decoded(kind, ExtractStringEnumLU(o, Ctx(kind), Width[kind]))
    [] kind \in Json \ {"status"} -> Decoded(kind, ExtractFieldLU(o, Ctx(kind), Width[kind]))
    [] kind \in {"serial", "pce"} -> Decoded(kind, ExtractField(o, Ctx(kind), Width[kind]))

Noir(kind, o) ==
  CASE kind = "validity" -> NoirValidity(o)
    [] kind = "status" -> Decoded(kind, NoirStringEnum(o, Ctx(kind), Width[kind]))
    [] OTHER -> Decoded(kind, NoirExtractField(o, Ctx(kind), Width[kind]))

--------------------------------------------------------------------------------
(* The issuer.                                                              *)

OccursAt(s, t, i) == i + Len(t) - 1 <= Len(s) /\ SubSeq(s, i, i + Len(t) - 1) = t

(* The years of a UTCTime, and those the circuits take it for.              *)
Year(date) == date \div 10000
UtcYears == 1950 .. 2049
ThisCentury(date) == Year(date) >= 2000

(* How it writes a value behind a context: JSON numbers and hexadecimal     *)
(* text, ISO 8601, a word and a quote, and X.690's INTEGER and UTCTime.     *)
Numeral(n, k) == [i \in 1 .. k |-> 48 + ((n \div Power[k + 1 - i]) % 10)]
Byte == 0 .. 255

(* Nothing is said of a number of more than four digits; what follows one   *)
(* of fewer is no digit as far as the window reaches.                       *)
Decimal(v, t) ==
  /\ Len(v) = 1 /\ v[1] \in Nat
  /\ v[1] < Power[5] => \E k \in 1 .. 4 :
       /\ v[1] < Power[k + 1] /\ (k = 1 \/ v[1] >= Power[k])
       /\ k < Len(t) /\ IsPrefix(Numeral(v[1], k), t)
       /\ \A i \in (k + 1) .. 4 : i <= Len(t) => t[i] \notin Digits

HexDigit(x) == IF x < 10 THEN {48 + x} ELSE {55 + x, 87 + x}
Hex(v, t) ==
  /\ Len(v) = 2 /\ Len(t) >= 4
  /\ \A i \in 1 .. 2 : /\ v[i] \in Byte
                       /\ t[2 * i - 1] \in HexDigit(v[i] \div 16)
                       /\ t[2 * i] \in HexDigit(v[i] % 16)

Iso8601(v, t) ==
  /\ Len(v) = 2 /\ v[1] \in Nat /\ v[1] < Power[9] /\ v[2] \in Nat /\ v[2] < Power[7]
  /\ Len(t) >= 20
  /\ \A i \in 1 .. 14 : t[DigitPlaces[i]] = (Numeral(v[1], 8) \o Numeral(v[2], 6))[i]

Closed(v, t) ==
  \E k \in 1 .. Len(t) :
    /\ t[k] = Quote /\ \A j \in 1 .. (k - 1) : t[j] # Quote
    /\ \/ \E i \in DOMAIN Statuses : SubSeq(t, 1, k - 1) = Statuses[i] /\ v = <<i - 1>>
       \/ (\A i \in DOMAIN Statuses : SubSeq(t, 1, k - 1) # Statuses[i]) /\ v = Unknown

(* The length and the bytes of a positive INTEGER: no leading zeros but the *)
(* one in front of a high bit.                                              *)
High(m) == m = <<>> \/ m[1] >= 128
Minimal(m) == IF High(m) THEN <<0>> \o m ELSE m
Integer(m, t) == IsPrefix(<<Len(Minimal(m))>> \o Minimal(m), t)

SerialNumber(v, t) ==
  /\ Len(v) >= SerialLen /\ \A i \in DOMAIN v : v[i] \in Byte
  /\ \E k \in 0 .. Len(v) :
       /\ \A i \in 1 .. k : v[i] = 0
       /\ k > 0 => Len(v) = SerialLen
       /\ k < Len(v) => v[k + 1] # 0
       /\ Integer(SubSeq(v, k + 1, Len(v)), t)

(* Behind a PCE SVN of one or two bytes comes the SEQUENCE of the next SVN. *)
PceNumber(v, t) ==
  /\ Len(v) = 1 /\ v[1] \in Nat /\ v[1] < 256 * 256
  /\ Integer(IF v[1] < 256 THEN <<v[1]>> ELSE <<v[1] \div 256, v[1] % 256>>, t)
  /\ v[1] < 128 => Len(t) >= 4 /\ t[3] = 48 /\ t[4] = 31

UtcTime(date, time, t, i) ==
  /\ Year(date) \in UtcYears /\ time \in Nat /\ time < Power[7] /\ Len(t) >= i + 12
  /\ SubSeq(t, i, i + 11) = Numeral(date % Power[7], 6) \o Numeral(time, 6)

(* A validity of 30 bytes that begins with a UTCTime holds another one.     *)
Validity30(v, t) ==
  /\ Len(v) = 4 /\ v[1] \in Nat /\ v[3] \in Nat
  /\ UtcTime(v[1], v[2], t, 1) /\ SubSeq(t, 14, 15) = UtcTag /\ UtcTime(v[3], v[4], t, 16)

Encodes(kind, v, t) ==
  CASE kind = "decimal" -> Decimal(v, t)  [] kind = "hex" -> Hex(v, t)
    [] kind = "iso" -> Iso8601(v, t)      [] kind = "status" -> Closed(v, t)
    [] kind = "serial" -> SerialNumber(v, t)  [] kind = "pce" -> PceNumber(v, t)
    [] kind = "validity" -> Validity30(v, t)

(* Wherever the context of its field occurs in a document, the value is     *)
(* written behind it.                                                       *)
ASSUME IssuerAssumption ==
  \A d \in Documents : \A i \in DOMAIN d.body : OccursAt(d.body, Ctx(d.kind), i) =>
    Encodes(d.kind, d.value, SubSeq(d.body, i + Len(Ctx(d.kind)), Len(d.body)))

(* A decimal longer than the window is read as its first digits, and a year *)
(* of the last century as one of this.                                      *)
Exact(d) ==
  CASE d.kind = "decimal" -> d.value[1] < Power[5]
    [] d.kind = "validity" -> ThisCentury(d.value[1]) /\ ThisCentury(d.value[3])
    [] OTHER -> TRUE

(* What it signs behind a context that ends at i is its value: the decoder  *)
(* of the field, given exactly that text, takes nothing else.  A status     *)
(* ends with its quote; the dates of a certificate are two UTCTimes.        *)
Signs(d, i) ==
  LET text(j, k) == SubSeq(d.body, i + j, i + k) IN
  CASE d.kind = "status" ->
         \E k \in 1 .. (Len(d.body) - i) :
           /\ d.body[i + k] = Quote /\ \A j \in 1 .. (k - 1) : d.body[i + j] # Quote
           /\ StatusSeverity(text(1, k)) \subseteq {d.value}
    [] d.kind = "validity" ->
         i + 28 <= Len(d.body) /\ Exact(d) =>
           Both(ParseUtcTime(text(1, 13)), ParseUtcTime(text(16, 28))) \subseteq {d.value}
    [] OTHER ->
         i + Width[d.kind] <= Len(d.body) /\ Exact(d) =>
           Decode(d.kind, text(1, Width[d.kind])) \subseteq {d.value}

--------------------------------------------------------------------------------
(* The hosts.                                                               *)

Index(s, t) ==
  {i - 1 : i \in {i \in DOMAIN s : OccursAt(s, t, i) /\ \A k \in 1 .. (i - 1) : ~OccursAt(s, t, k)}}

(* canonicalSerial: the low bytes, padded on the left.                      *)
Zeros(k) == [i \in 1 .. k |-> 0]
Magnitude(n) == SubSeq(n, Min({i \in DOMAIN n : n[i] # 0} \cup {Len(n) + 1}), Len(n))
CanonicalSerial(n) ==
  LET raw == SubSeq(n, IF Len(n) > SerialLen THEN Len(n) - SerialLen + 1 ELSE 1, Len(n))
  IN  Zeros(SerialLen - Len(raw)) \o raw

(* parseSgxExtension searches the hexadecimal text, at any nibble, for the  *)
(* head of a two-byte INTEGER and then for that of a one-byte one.          *)
Nibbles(s) ==
  [j \in 1 .. 2 * Len(s) |-> IF j % 2 = 1 THEN s[(j + 1) \div 2] \div 16 ELSE s[j \div 2] % 16]
Head2 == <<0, 2, 0, 2>>
Head1 == <<0, 2, 0, 1>>
ByteIn(h, i) == 16 * h[i + 1] + h[i + 2]
TwoBytes(h) == {<<256 * ByteIn(h, i + 4) + ByteIn(h, i + 6)>> : i \in Index(h, Head2) \cap 0 .. 9}
OneByte(h) == {<<ByteIn(h, i + 4)>> : i \in Index(h, Head1) \cap 0 .. 9}
FirstOf(a, b) == IF a # {} THEN a ELSE IF b # {} THEN b ELSE {<<0>>}

(* Variant: the other order.                                                *)
OneByteFirst(h) == FirstOf(OneByte(h), TwoBytes(h))
HostPceSvn(h) == FirstOf(TwoBytes(h), OneByte(h))

(* What the host believes the document says: Go's own decoders, but for     *)
(* the serial and the PCE SVN.                                              *)
HostValue ==
  CASE doc.kind = "serial" -> {CanonicalSerial(Magnitude(doc.value))}
    [] doc.kind = "pce" ->
         UNION {HostPceSvn(Nibbles(<<2>> \o SubSeq(doc.body, i + 2, Len(doc.body)))) :
                  i \in Index(doc.body, <<Context>>)}
    [] OTHER -> When(doc.value # Unknown, doc.value)

--------------------------------------------------------------------------------
Padded(s) == SubSeq(s \o Zeros(Capacity), 1, Capacity)

Init ==
  /\ doc \in Documents
  /\ \E t \in Tails : buf = Padded(doc.body \o t)
  /\ by = "nobody" /\ off = 0 /\ read = [gnark |-> {}, noir |-> {}]

ReadAt(o, who) ==
  /\ by = "nobody"
  /\ by' = who /\ off' = o
  /\ read' = [gnark |-> Gnark(doc.kind, o), noir |-> Noir(doc.kind, o)]
  /\ UNCHANGED <<doc, buf>>

(* A prover chooses the offset, and chose what is behind the prefix.        *)
Prove == \E o \in 0 .. (P - 1) : ReadAt(o, "prover")

(* A host takes the first occurrence, and pads with zeros.                  *)
Build ==
  /\ buf = Padded(doc.body)
  /\ HostValue # {}
  /\ \E o \in Index(doc.body, Ctx(doc.kind)) : ReadAt(o, "host")

Next == Prove \/ Build

Spec == Init /\ [][Next]_vars

--------------------------------------------------------------------------------
Backends == {"gnark", "noir"}

(* Given exactly the window that the issuer signed behind a context, the    *)
(* decoder of each field takes the value it meant or nothing: of a status   *)
(* no prefix or extension of a word (tcbextract.go 77-118), of a number no  *)
(* part of its run of digits (derive.go 62-90), of a UTCTime a year of this *)
(* century (derive.go 112-126), of a serial no sign byte (extract.go 55-82).*)
DecodersExact ==
  \A i \in DOMAIN doc.body :
    OccursAt(doc.body, Ctx(doc.kind), i) => Signs(doc, i + Len(Ctx(doc.kind)) - 1)

(* What a circuit accepts for a field is what the issuer signed there,      *)
(* wherever the prover points, at any field element, and whatever it puts   *)
(* behind the signed prefix (extract.go 89-95, 105-115, der.nr 124-129).    *)
FieldOfIssuer == \A b \in Backends : Exact(doc) => read[b] \subseteq {doc.value}

(* The selector, the lookup table and Noir's indexing accept the same       *)
(* offsets and read the same values there (extract.go 125-133), although    *)
(* gnark does not look at the tag of the second date of a certificate.      *)
ReadersAgree == read["gnark"] = read["noir"]

(* The fields that have a proof: serials of which 20 or 21 bytes are        *)
(* encoded, PCE SVNs below 2^15, certificates with two UTCTimes of this     *)
(* century, and a window inside the prefix, or the buffer for a status.     *)
Provable(d) ==
  /\ Exact(d)
  /\ d.kind = "pce" => d.value[1] < 128 * 256
  /\ d.kind = "serial" =>
       \/ Len(Magnitude(d.value)) = SerialLen
       \/ Len(Magnitude(d.value)) = SerialLen - 1 /\ Magnitude(d.value)[1] >= 128
Room == off + Len(Ctx(doc.kind)) + Width[doc.kind]
          <= IF doc.kind = "status" THEN Capacity ELSE signedLen

(* A host's offset is accepted, with the issuer's value, exactly for them.  *)
HostAccepted ==
  by = "host" => \A b \in Backends : doc.value \in read[b] <=> Provable(doc) /\ Room

(* The host's own decoding is the circuits', or the circuits refuse; they   *)
(* differ only on a year of the last century and on a decimal longer than   *)
(* its window.  There gnark's comparison with the host's claim refuses; of  *)
(* the evaluation numbers Noir's host claims nothing (main.nr 209-213).     *)
HostAgrees ==
  by = "host" => \A b \in Backends : read[b] # {} => (read[b] = HostValue <=> Exact(doc))
================================================================================
