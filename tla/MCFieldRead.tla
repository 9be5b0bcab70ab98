------------------------------ MODULE MCFieldRead ------------------------------
(* Signed fields at the edges of their encodings, each inside a document:    *)
(* something before the context, the text, something after it.               *)
EXTENDS FieldRead, TLC

Text(n, k) == [i \in 1 .. k |-> 48 + ((n \div 10 ^ (k - i)) % 10)]
NumDigits(n) == CHOOSE k \in 1 .. 6 : n < 10 ^ k /\ (k = 1 \/ n >= 10 ^ (k - 1))

Document(kind, value, before, body, after) ==
  [kind |-> kind, value |-> value, body |-> before \o body \o after]

JsonEnd == <<125, 44, 123, 34>>                       \* },{"
Field(text) == <<Context>> \o text

Decimals ==
  {Document("decimal", <<n>>, <<123>>, Field(Text(n, NumDigits(n))), e) :
     n \in {0, 7, 10, 99, 100, 255, 1000, 9999, 12345}, e \in {JsonEnd, <<125>>}}

HexChar(x) == IF x < 10 THEN {48 + x} ELSE {55 + x, 87 + x}
Hexes ==
  {Document("hex", v, <<34>>, Field(<<a, b, c, d>>), <<34, 125>>) :
     <<v, a, b, c, d>> \in UNION {
       {<<v, a, b, c, d>> : a \in HexChar(v[1] \div 16), b \in HexChar(v[1] % 16),
                            c \in HexChar(v[2] \div 16), d \in HexChar(v[2] % 16)} :
       v \in {<<0, 144>>, <<10, 159>>, <<255, 96>>}}}

IsoText(t) ==
  SubSeq(Text(t[1], 8), 1, 4) \o <<45>> \o SubSeq(Text(t[1], 8), 5, 6) \o <<45>>
    \o SubSeq(Text(t[1], 8), 7, 8) \o <<84>> \o SubSeq(Text(t[2], 6), 1, 2) \o <<58>>
    \o SubSeq(Text(t[2], 6), 3, 4) \o <<58>> \o SubSeq(Text(t[2], 6), 5, 6) \o <<90>>
Isos == {Document("iso", t, <<34>>, Field(IsoText(t)), <<34>>) :
           t \in {<<20240229, 235959>>, <<20500101, 0>>, <<19991231, 101010>>}}

(* One status is not known; some documents end with the buffer.             *)
StatusTexts == {<<Statuses[i], <<i - 1>>>> : i \in DOMAIN Statuses}
                 \cup {<<<<Word.OutOfDate, Word.Configuration>>, Unknown>>}
Fill(k) == [i \in 1 .. k |-> 44]
StatusDocs ==
  {Document("status", s[2], Fill(k), Field(Append(s[1], Quote)), e) :
     s \in StatusTexts, e \in {<<125>>, <<125, 34, 34, 34>>},
     k \in {1, Capacity - 10, Capacity - 8, Capacity - 7}}

(* A positive INTEGER: no leading zeros but the one in front of a high bit. *)
Positive(m) == IF m = <<>> \/ m[1] >= 128 THEN <<0>> \o m ELSE m
Der(m) == <<Len(Positive(m))>> \o Positive(m)
LeftPadded(m) == Zeros(SerialLen - Len(m)) \o m
Serials ==
  {Document("serial", IF Len(m) > SerialLen THEN m ELSE LeftPadded(m),
            <<48>>, Field(Der(m)), <<48, 10, 6, 8, 42>>) :
     m \in {<<5>>, <<1, 2>>, <<127, 9>>, <<128, 0>>, <<255, 255>>, <<1, 0, 0>>, <<127, 3, 2>>,
            <<128, 2, 3>>, <<255, 2, 5>>, <<1, 2, 3, 4>>, <<129, 2, 3, 4>>}}

Bytes2(n) == IF n < 256 THEN <<n>> ELSE <<n \div 256, n % 256>>
PceSvns ==
  {Document("pce", <<n>>, <<17>>, Field(Der(Bytes2(n))), <<48, 31, 6, 11>>) :
     n \in {0, 2, 32, 33, 127, 128, 255, 256, 258, 514, 8224, 32767, 32768, 65535}}

(* The encoding of a time depends on its year.                              *)
Time(t) ==
  IF Year(t[1]) \in 1950 .. 2049
  THEN UtcTag \o Text(t[1] % 1000000, 6) \o Text(t[2], 6) \o <<90>>
  ELSE <<24, 15>> \o Text(t[1], 8) \o Text(t[2], 6) \o <<90>>
Validity(t, u) == <<48, Len(Time(t) \o Time(u))>> \o Time(t) \o Time(u)
Validities ==
  {Document("validity", t \o u, <<5>>, Validity(t, u), <<48>>) :
     t \in {<<19990704, 0>>, <<20180521, 104510>>},
     u \in {<<20491231, 235959>>, <<20500101, 0>>, <<19991231, 235959>>}}

AllDocuments ==
  Decimals \cup Hexes \cup Isos \cup {d \in StatusDocs : Len(d.body) <= Capacity} \cup Serials
    \cup PceSvns \cup Validities
MCDocuments == AllDocuments

(* Nothing, or a second field of each kind.                                 *)
AllTails ==
  {<<>>, <<34>>} \cup {(CHOOSE d \in ds : TRUE).body :
     ds \in {Decimals, Hexes, Isos, {d \in StatusDocs : Len(d.body) < 10}, Serials, PceSvns,
             Validities}}
MCTails == AllTails
================================================================================
