------------------------- MODULE ValidityWindowProofs --------------------------
(***************************************************************************)
(* Proofs about ValidityWindow, for every field whose order is at least    *)
(* three times the decomposition bound, and every set of dates below that  *)
(* bound.  Field comparisons of dates and of a timestamp that has passed   *)
(* its checks decide what integer comparisons decide; the folds are then   *)
(* the largest first and the smallest last date of the seven objects.      *)
(***************************************************************************)
EXTENDS ValidityWindow, TLAPS

Small == 0 .. (W - 1)

(* x is the largest first date, the smallest last date.                     *)
IsFrom(x) == (\A o \in Objects : win[o].lo <= x) /\ \E o \in Objects : x = win[o].lo
IsUntil(x) == (\A o \in Objects : x <= win[o].hi) /\ \E o \in Objects : x = win[o].hi

Checked(o) == win[o] \in Windows /\ InWindow(timestamp, win[o])

TypeInv ==
  /\ backend \in {"gnark", "noir"}
  /\ timestamp \in 0 .. (P - 1)
  /\ n \in 1 .. (NumChecks + 1)
  /\ win \in [Objects -> Windows \cup {None}]
  /\ pc \in {"check", "fold", "publish", "accepted", "rejected"}

IInv ==
  /\ TypeInv
  /\ \A k \in 1 .. NumChecks : k < n => Checked(Order(backend)[k])
  /\ pc = "check" => n <= NumChecks
  /\ pc \in {"fold", "publish", "accepted"} => n = NumChecks + 1
  /\ pc \in {"publish", "accepted"} => IsFrom(from) /\ IsUntil(until)
  /\ RejectedRightly

--------------------------------------------------------------------------------
(* Comparisons.                                                             *)

LEMMA Numbers ==
  /\ P \in Nat /\ W \in Nat /\ U \in Nat /\ W > 0 /\ 3 * W <= P /\ U <= P
  /\ \A d \in Dates : d \in Small
  /\ \A w \in Windows : w.lo \in Small /\ w.hi \in Small /\ w # None
  <1>1. /\ P \in Nat /\ W \in Nat /\ U \in Nat /\ W > 0 /\ 3 * W <= P /\ U <= P
        /\ \A d \in Dates : d \in Small
    BY WindowAssumption DEF Small
  <1>2. ASSUME NEW w \in Windows PROVE w.lo \in Small /\ w.hi \in Small /\ w # None
    <2>1. w.lo \in Dates /\ w.hi \in Dates
      BY DEF Windows
    <2>2. w # None
      BY WindowAssumption
    <2>3. QED
      BY <1>1, <2>1, <2>2
  <1>3. QED
    BY <1>1, <1>2

(* The field comparisons of a window accept a timestamp iff it is inside.   *)
LEMMA WithinExact ==
  ASSUME backend \in {"gnark", "noir"}, timestamp \in 0 .. (P - 1), NEW w \in Windows
  PROVE  Within(w) <=> InWindow(timestamp, w)
  <1>1. w.lo \in Small /\ w.hi \in Small
    BY Numbers
  <1>2. CASE backend = "gnark"
    <2>1. Gte(timestamp, w.lo) /\ Gte(w.hi, timestamp) <=> w.lo <= timestamp /\ timestamp <= w.hi
      BY <1>1, Numbers DEF Gte, Sub, Small
    <2>2. QED
      BY <1>2, <2>1 DEF Within, GnarkWithin, NoirWithin, InWindow
  <1>3. CASE backend = "noir"
    BY <1>1, <1>3, Numbers DEF Within, GnarkWithin, NoirWithin, InWindow, Small
  <1>4. QED
    BY <1>2, <1>3

LEMMA ShiftedSmall ==
  ASSUME NEW a \in Small, NEW b \in Small
  PROVE  Shifted(a, b) < 2 * W /\ (GteBool(a, b) <=> a >= b)
  BY Numbers DEF Shifted, GteBool, Add, Sub, Small

LEMMA MaxFacts ==
  ASSUME NEW a \in Small, NEW b \in Small
  PROVE  /\ MaxWide(a, b) \in Small /\ MaxU64(a, b) \in Small
         /\ MaxWide(a, b) >= a /\ MaxWide(a, b) >= b /\ MaxWide(a, b) \in {a, b}
         /\ MaxU64(a, b) >= a /\ MaxU64(a, b) >= b /\ MaxU64(a, b) \in {a, b}
  BY ShiftedSmall, Numbers DEF MaxWide, MaxU64, Small

LEMMA MinFacts ==
  ASSUME NEW a \in Small, NEW b \in Small
  PROVE  /\ MinWide(a, b) \in Small /\ MinU64(a, b) \in Small
         /\ MinWide(a, b) <= a /\ MinWide(a, b) <= b /\ MinWide(a, b) \in {a, b}
         /\ MinU64(a, b) <= a /\ MinU64(a, b) <= b /\ MinU64(a, b) \in {a, b}
  BY ShiftedSmall, Numbers DEF MinWide, MinU64, Small

--------------------------------------------------------------------------------
(* The folds.                                                               *)

LEMMA Transitive ==
  ASSUME NEW a \in Small, NEW b \in Small, NEW c \in Small
  PROVE  /\ a <= b /\ b <= c => a <= c
         /\ a >= b /\ b >= c => a >= c
  BY Numbers DEF Small

LEMMA GnarkFolds ==
  ASSUME NEW l \in [Objects -> Small]
  PROVE  /\ \A o \in Objects : l[o] <= GnarkFrom(l) /\ GnarkUntil(l) <= l[o]
         /\ \E o \in Objects : GnarkFrom(l) = l[o]
         /\ \E o \in Objects : GnarkUntil(l) = l[o]
  <1>1. /\ l["tcb"] \in Small /\ l["qe"] \in Small /\ l["leaf"] \in Small /\ l["int"] \in Small
        /\ l["sign"] \in Small /\ l["pck"] \in Small /\ l["root"] \in Small
    BY DEF Objects
  <1> DEFINE json == MaxWide(l["tcb"], l["qe"])
             chain == MaxWide(l["int"], l["sign"])
             certs == MaxWide(l["leaf"], chain)
             crls == MaxWide(l["pck"], l["root"])
             fresh == MaxWide(json, certs)
             jsonM == MinWide(l["tcb"], l["qe"])
             chainM == MinWide(l["int"], l["sign"])
             certsM == MinWide(l["leaf"], chainM)
             crlsM == MinWide(l["pck"], l["root"])
             freshM == MinWide(jsonM, certsM)
  <1>2. /\ json \in Small /\ json >= l["tcb"] /\ json >= l["qe"] /\ json \in {l["tcb"], l["qe"]}
        /\ chain \in Small /\ chain >= l["int"] /\ chain >= l["sign"]
        /\ chain \in {l["int"], l["sign"]}
        /\ crls \in Small /\ crls >= l["pck"] /\ crls >= l["root"]
        /\ crls \in {l["pck"], l["root"]}
    BY <1>1, MaxFacts
  <1>3. certs \in Small /\ certs >= l["leaf"] /\ certs >= chain /\ certs \in {l["leaf"], chain}
    BY <1>1, <1>2, MaxFacts
  <1>4. fresh \in Small /\ fresh >= json /\ fresh >= certs /\ fresh \in {json, certs}
    BY <1>2, <1>3, MaxFacts
  <1>5. GnarkFrom(l) = MaxWide(fresh, crls)
    BY DEF GnarkFrom
  <1>6. /\ GnarkFrom(l) \in Small /\ GnarkFrom(l) >= fresh /\ GnarkFrom(l) >= crls
        /\ GnarkFrom(l) \in {fresh, crls}
    BY <1>2, <1>4, <1>5, MaxFacts
  <1>7. /\ jsonM \in Small /\ jsonM <= l["tcb"] /\ jsonM <= l["qe"] /\ jsonM \in {l["tcb"], l["qe"]}
        /\ chainM \in Small /\ chainM <= l["int"] /\ chainM <= l["sign"]
        /\ chainM \in {l["int"], l["sign"]}
        /\ crlsM \in Small /\ crlsM <= l["pck"] /\ crlsM <= l["root"]
        /\ crlsM \in {l["pck"], l["root"]}
    BY <1>1, MinFacts
  <1>8. certsM \in Small /\ certsM <= l["leaf"] /\ certsM <= chainM /\ certsM \in {l["leaf"], chainM}
    BY <1>1, <1>7, MinFacts
  <1>9. freshM \in Small /\ freshM <= jsonM /\ freshM <= certsM /\ freshM \in {jsonM, certsM}
    BY <1>7, <1>8, MinFacts
  <1>10. GnarkUntil(l) = MinWide(freshM, crlsM)
    BY DEF GnarkUntil
  <1>11. /\ GnarkUntil(l) \in Small /\ GnarkUntil(l) <= freshM /\ GnarkUntil(l) <= crlsM
         /\ GnarkUntil(l) \in {freshM, crlsM}
    BY <1>7, <1>9, <1>10, MinFacts
  <1> HIDE DEF json, chain, certs, crls, fresh, jsonM, chainM, certsM, crlsM, freshM
  <1>12. \A o \in Objects : l[o] <= GnarkFrom(l)
    BY <1>1, <1>2, <1>3, <1>4, <1>6, Numbers DEF Small, Objects
  <1>13. \A o \in Objects : GnarkUntil(l) <= l[o]
    BY <1>1, <1>7, <1>8, <1>9, <1>11, Numbers DEF Small, Objects
  <1>14. \E o \in Objects : GnarkFrom(l) = l[o]
    BY <1>2, <1>3, <1>4, <1>6 DEF Objects
  <1>15. \E o \in Objects : GnarkUntil(l) = l[o]
    BY <1>7, <1>8, <1>9, <1>11 DEF Objects
  <1>16. QED
    BY <1>12, <1>13, <1>14, <1>15

LEMMA NoirFolds ==
  ASSUME NEW l \in [Objects -> Small]
  PROVE  /\ \A o \in Objects : l[o] <= NoirFrom(l) /\ NoirUntil(l) <= l[o]
         /\ \E o \in Objects : NoirFrom(l) = l[o]
         /\ \E o \in Objects : NoirUntil(l) = l[o]
  <1>1. /\ l["tcb"] \in Small /\ l["qe"] \in Small /\ l["leaf"] \in Small /\ l["int"] \in Small
        /\ l["sign"] \in Small /\ l["pck"] \in Small /\ l["root"] \in Small
    BY DEF Objects
  <1> DEFINE json == MaxU64(l["tcb"], l["qe"])
             chain == MaxU64(l["int"], l["sign"])
             certs == MaxU64(l["leaf"], chain)
             crls == MaxU64(l["pck"], l["root"])
             fresh == MaxU64(certs, json)
             jsonM == MinU64(l["tcb"], l["qe"])
             chainM == MinU64(l["int"], l["sign"])
             certsM == MinU64(l["leaf"], chainM)
             crlsM == MinU64(l["pck"], l["root"])
             freshM == MinU64(certsM, jsonM)
  <1>2. /\ json \in Small /\ json >= l["tcb"] /\ json >= l["qe"] /\ json \in {l["tcb"], l["qe"]}
        /\ chain \in Small /\ chain >= l["int"] /\ chain >= l["sign"]
        /\ chain \in {l["int"], l["sign"]}
        /\ crls \in Small /\ crls >= l["pck"] /\ crls >= l["root"]
        /\ crls \in {l["pck"], l["root"]}
    BY <1>1, MaxFacts
  <1>3. certs \in Small /\ certs >= l["leaf"] /\ certs >= chain /\ certs \in {l["leaf"], chain}
    BY <1>1, <1>2, MaxFacts
  <1>4. fresh \in Small /\ fresh >= json /\ fresh >= certs /\ fresh \in {json, certs}
    BY <1>2, <1>3, MaxFacts
  <1>5. NoirFrom(l) = MaxU64(fresh, crls)
    BY DEF NoirFrom
  <1>6. /\ NoirFrom(l) \in Small /\ NoirFrom(l) >= fresh /\ NoirFrom(l) >= crls
        /\ NoirFrom(l) \in {fresh, crls}
    BY <1>2, <1>4, <1>5, MaxFacts
  <1>7. /\ jsonM \in Small /\ jsonM <= l["tcb"] /\ jsonM <= l["qe"] /\ jsonM \in {l["tcb"], l["qe"]}
        /\ chainM \in Small /\ chainM <= l["int"] /\ chainM <= l["sign"]
        /\ chainM \in {l["int"], l["sign"]}
        /\ crlsM \in Small /\ crlsM <= l["pck"] /\ crlsM <= l["root"]
        /\ crlsM \in {l["pck"], l["root"]}
    BY <1>1, MinFacts
  <1>8. certsM \in Small /\ certsM <= l["leaf"] /\ certsM <= chainM /\ certsM \in {l["leaf"], chainM}
    BY <1>1, <1>7, MinFacts
  <1>9. freshM \in Small /\ freshM <= jsonM /\ freshM <= certsM /\ freshM \in {jsonM, certsM}
    BY <1>7, <1>8, MinFacts
  <1>10. NoirUntil(l) = MinU64(freshM, crlsM)
    BY DEF NoirUntil
  <1>11. /\ NoirUntil(l) \in Small /\ NoirUntil(l) <= freshM /\ NoirUntil(l) <= crlsM
         /\ NoirUntil(l) \in {freshM, crlsM}
    BY <1>7, <1>9, <1>10, MinFacts
  <1> HIDE DEF json, chain, certs, crls, fresh, jsonM, chainM, certsM, crlsM, freshM
  <1>12. \A o \in Objects : l[o] <= NoirFrom(l)
    BY <1>1, <1>2, <1>3, <1>4, <1>6, Numbers DEF Small, Objects
  <1>13. \A o \in Objects : NoirUntil(l) <= l[o]
    BY <1>1, <1>7, <1>8, <1>9, <1>11, Numbers DEF Small, Objects
  <1>14. \E o \in Objects : NoirFrom(l) = l[o]
    BY <1>2, <1>3, <1>4, <1>6 DEF Objects
  <1>15. \E o \in Objects : NoirUntil(l) = l[o]
    BY <1>7, <1>8, <1>9, <1>11 DEF Objects
  <1>16. QED
    BY <1>12, <1>13, <1>14, <1>15

--------------------------------------------------------------------------------
(* The steps.                                                               *)

LEMMA OrderCovers ==
  ASSUME NEW b
  PROVE  /\ \A k \in 1 .. NumChecks : Order(b)[k] \in Objects
         /\ \A j, k \in 1 .. NumChecks : j < k => Order(b)[j] # Order(b)[k]
         /\ \A o \in Objects : \E k \in 1 .. NumChecks : Order(b)[k] = o
  BY DEF Order, NumChecks, Objects

LEMMA InitStep == Init => IInv
  <1>1. SUFFICES ASSUME Init PROVE IInv
    OBVIOUS
  <1>2. TypeInv
    BY <1>1, Numbers DEF Init, TypeInv, NumChecks
  <1>3. QED
    BY <1>1, <1>2 DEF Init, IInv, RejectedRightly, NumChecks

LEMMA CheckKeeps == ASSUME IInv, Check PROVE IInv'
  <1> PICK o : o = Order(backend)[n]
    OBVIOUS
  <1>1. PICK w \in Windows :
          /\ win' = [win EXCEPT ![o] = w]
          /\ IF Within(w)
             THEN n' = n + 1 /\ pc' = IF n = NumChecks THEN "fold" ELSE "check"
             ELSE n' = n /\ pc' = "rejected"
    BY DEF Check
  <1>2. pc = "check" /\ UNCHANGED <<backend, timestamp, from, until>>
    BY DEF Check
  <1>3. /\ TypeInv /\ n \in 1 .. NumChecks
        /\ \A k \in 1 .. NumChecks : k < n => Checked(Order(backend)[k])
    BY <1>2 DEF IInv, TypeInv, NumChecks
  <1>4. o \in Objects /\ win \in [Objects -> Windows \cup {None}]
    BY <1>3, OrderCovers DEF TypeInv
  <1>5. win'[o] = w /\ \A q \in Objects : q # o => win'[q] = win[q]
    BY <1>1, <1>4
  <1>6. TypeInv'
    <2>1. win' \in [Objects -> Windows \cup {None}]
      BY <1>1, <1>4
    <2>2. n' \in 1 .. (NumChecks + 1)
      BY <1>1, <1>3 DEF NumChecks
    <2>3. QED
      BY <1>1, <1>2, <1>3, <2>1, <2>2 DEF TypeInv
  <1>7. Within(w) <=> InWindow(timestamp, w)
    BY <1>3, WithinExact DEF TypeInv
  <1>8. ASSUME NEW k \in 1 .. NumChecks, k < n PROVE Checked(Order(backend)[k])'
    <2>1. Order(backend)[k] # o /\ Order(backend)[k] \in Objects
      BY <1>3, <1>8, OrderCovers
    <2>2. Checked(Order(backend)[k])
      BY <1>3, <1>8
    <2>3. QED
      BY <1>2, <1>5, <2>1, <2>2 DEF Checked, InWindow
  <1>9. CASE Within(w)
    <2>1. n' = n + 1 /\ pc' = IF n = NumChecks THEN "fold" ELSE "check"
      BY <1>1, <1>9
    <2>2. Checked(o)'
      BY <1>2, <1>5, <1>7, <1>9 DEF Checked, InWindow
    <2>3. (\A k \in 1 .. NumChecks : k < n => Checked(Order(backend)[k]))'
      <3>1. \A k \in 1 .. NumChecks : k < n + 1 => k < n \/ k = n
        BY <1>3
      <3>2. ASSUME NEW k \in 1 .. NumChecks, k < n + 1
            PROVE  Checked(Order(backend)[k])'
        <4>1. CASE k < n
          BY <1>8, <4>1
        <4>2. CASE k = n
          <5>1. Order(backend)'[k] = o
            BY <1>2, <4>2 DEF Order
          <5>2. QED
            BY <2>2, <5>1 DEF Checked
        <4>3. QED
          BY <3>1, <3>2, <4>1, <4>2
      <3>3. QED
        BY <2>1, <3>2
    <2>4. RejectedRightly'
      BY <2>1 DEF RejectedRightly
    <2>5. QED
      BY <1>3, <1>6, <2>1, <2>3, <2>4 DEF IInv, NumChecks
  <1>10. CASE ~Within(w)
    <2>1. n' = n /\ pc' = "rejected"
      BY <1>1, <1>10
    <2>2. w # None
      BY Numbers
    <2>3. RejectedRightly'
      BY <1>2, <1>4, <1>5, <1>7, <1>10, <2>2 DEF RejectedRightly, InWindow
    <2>4. QED
      BY <1>2, <1>6, <1>8, <2>1, <2>3 DEF IInv
  <1>11. QED
    BY <1>9, <1>10

(* After the last check every object's window holds the timestamp.          *)
LEMMA AllChecked ==
  ASSUME IInv, n = NumChecks + 1
  PROVE  /\ \A o \in Objects : Checked(o)
         /\ Lows \in [Objects -> Small] /\ Highs \in [Objects -> Small]
         /\ \A o \in Objects : Lows[o] = win[o].lo /\ Highs[o] = win[o].hi
         /\ timestamp \in Nat
  <1>1. \A k \in 1 .. NumChecks : Checked(Order(backend)[k])
    BY DEF IInv, NumChecks
  <1>2. \A o \in Objects : Checked(o)
    BY <1>1, OrderCovers
  <1>3. \A o \in Objects : win[o].lo \in Small /\ win[o].hi \in Small
    BY <1>2, Numbers DEF Checked
  <1>4. timestamp \in Nat
    BY Numbers DEF IInv, TypeInv
  <1>5. QED
    BY <1>2, <1>3, <1>4 DEF Lows, Highs

(* A window that fits all checked objects contains the timestamp.           *)
LEMMA Contained ==
  ASSUME IInv, n = NumChecks + 1, NEW x, NEW y, IsFrom(x), IsUntil(y)
  PROVE  x \in Small /\ y \in Small /\ x <= timestamp /\ timestamp <= y
  <1>1. PICK p, q \in Objects : x = win[p].lo /\ y = win[q].hi
    BY DEF IsFrom, IsUntil
  <1>2. Checked(p) /\ Checked(q)
    BY AllChecked
  <1>3. QED
    BY <1>1, <1>2, Numbers DEF Checked, InWindow

LEMMA FoldKeeps == ASSUME IInv, Fold PROVE IInv'
  <1>1. pc = "fold" /\ n = NumChecks + 1 /\ UNCHANGED <<backend, timestamp, n, win>>
    BY DEF Fold, IInv
  <1>2. /\ Lows \in [Objects -> Small] /\ Highs \in [Objects -> Small]
        /\ \A o \in Objects : Lows[o] = win[o].lo /\ Highs[o] = win[o].hi
    BY <1>1, AllChecked
  <1>3. from' = GnarkFrom(Lows) \/ from' = NoirFrom(Lows)
    BY DEF Fold
  <1>4. until' = GnarkUntil(Highs) \/ until' = NoirUntil(Highs)
    BY DEF Fold
  <1>5. IsFrom(from')
    BY <1>2, <1>3, GnarkFolds, NoirFolds DEF IsFrom
  <1>6. IsUntil(until')
    BY <1>2, <1>4, GnarkFolds, NoirFolds DEF IsUntil
  <1>7. from' \in Small /\ until' \in Small /\ from' <= until'
    <2>1. from' \in Small /\ until' \in Small /\ from' <= timestamp /\ timestamp <= until'
      BY <1>1, <1>5, <1>6, Contained
    <2>2. QED
      BY <1>1, <2>1, AllChecked, Numbers DEF Small
  <1>8. Gte(until', from')
    <2>1. \A a, b \in Small : b <= a => Gte(a, b)
      BY Numbers DEF Gte, Sub, Small
    <2>2. QED
      BY <1>7, <2>1
  <1>9. pc' \in {"publish", "accepted"}
    BY <1>7, <1>8 DEF Fold
  <1>10. IsFrom(from)' /\ IsUntil(until)'
    BY <1>1, <1>5, <1>6 DEF IsFrom, IsUntil
  <1>11. TypeInv'
    BY <1>1, <1>9 DEF IInv, TypeInv
  <1>12. (\A k \in 1 .. NumChecks : k < n => Checked(Order(backend)[k]))'
    BY <1>1 DEF IInv, Checked
  <1>13. QED
    BY <1>1, <1>9, <1>10, <1>11, <1>12 DEF IInv, RejectedRightly

(* The builder's fold over plain integers is the circuit's.                 *)
LEMMA PublishKeeps == ASSUME IInv, Publish PROVE IInv'
  <1>1. /\ pc = "publish" /\ n = NumChecks + 1
        /\ UNCHANGED <<backend, timestamp, n, win, from, until>>
        /\ pc' = IF from = BuiltFrom /\ until = BuiltUntil THEN "accepted" ELSE "rejected"
    BY DEF Publish, IInv
  <1>2. IsFrom(from) /\ IsUntil(until)
    BY <1>1 DEF IInv
  <1>3. /\ Lows \in [Objects -> Small] /\ Highs \in [Objects -> Small]
        /\ \A o \in Objects : Lows[o] = win[o].lo /\ Highs[o] = win[o].hi
    BY <1>1, AllChecked
  <1>4. from = BuiltFrom
    <2>1. from \in {Lows[o] : o \in Objects} /\ \A o \in Objects : Lows[o] <= from
      BY <1>2, <1>3 DEF IsFrom
    <2>2. \A x \in {Lows[o] : o \in Objects} : (\A o \in Objects : Lows[o] <= x) => x = from
      <3>1. \A x \in {Lows[o] : o \in Objects} : x \in Small
        BY <1>3
      <3>2. QED
        BY <2>1, <3>1, Numbers DEF Small
    <2>3. QED
      BY <2>1, <2>2 DEF BuiltFrom
  <1>5. until = BuiltUntil
    <2>1. until \in {Highs[o] : o \in Objects} /\ \A o \in Objects : until <= Highs[o]
      BY <1>2, <1>3 DEF IsUntil
    <2>2. \A x \in {Highs[o] : o \in Objects} : (\A o \in Objects : x <= Highs[o]) => x = until
      <3>1. \A x \in {Highs[o] : o \in Objects} : x \in Small
        BY <1>3
      <3>2. until \in Small
        BY <2>1, <3>1
      <3>3. \A x \in {Highs[o] : o \in Objects} :
              (\A o \in Objects : x <= Highs[o]) => x <= until /\ until <= x
        BY <2>1
      <3>4. \A x \in Small : x <= until /\ until <= x => x = until
        BY <3>2, Numbers DEF Small
      <3>5. QED
        BY <3>1, <3>3, <3>4
    <2>3. QED
      BY <2>1, <2>2 DEF BuiltUntil
  <1>6. pc' = "accepted"
    BY <1>1, <1>4, <1>5
  <1>7. IsFrom(from)' /\ IsUntil(until)'
    BY <1>1, <1>2 DEF IsFrom, IsUntil
  <1>8. TypeInv'
    BY <1>1, <1>6 DEF IInv, TypeInv
  <1>9. (\A k \in 1 .. NumChecks : k < n => Checked(Order(backend)[k]))'
    BY <1>1 DEF IInv, Checked
  <1>10. QED
    BY <1>1, <1>6, <1>7, <1>8, <1>9 DEF IInv, RejectedRightly

LEMMA StutterKeeps == ASSUME IInv, UNCHANGED vars PROVE IInv'
  BY DEF vars, IInv, TypeInv, Checked, IsFrom, IsUntil, RejectedRightly

(* Every object checked so far is valid at the timestamp, and the folds are *)
(* the bounds of the intersection.                                          *)
THEOREM Invariance == Spec => []IInv
  <1>1. ASSUME IInv, [Next]_vars PROVE IInv'
    BY <1>1, CheckKeeps, FoldKeeps, PublishKeeps, StutterKeeps DEF Next
  <1>2. QED
    BY InitStep, <1>1, PTL DEF Spec

(* The published window is the intersection of the seven signed windows,    *)
(* and the timestamp is inside it, in both circuits (tcbextract.go 488-491, *)
(* dcap.go 138-147, main.nr 226-239).                                       *)
THEOREM WindowAlwaysExact == Spec => []WindowExact
  <1>1. ASSUME IInv PROVE WindowExact
    <2>1. SUFFICES ASSUME pc = "accepted"
                   PROVE  /\ from <= timestamp /\ timestamp <= until
                          /\ \A t \in 0 .. (P - 1) :
                               from <= t /\ t <= until <=> \A o \in Objects : InWindow(t, win[o])
      BY DEF WindowExact
    <2>2. n = NumChecks + 1 /\ IsFrom(from) /\ IsUntil(until)
      BY <1>1, <2>1 DEF IInv
    <2>3. from \in Small /\ until \in Small /\ from <= timestamp /\ timestamp <= until
      BY <1>1, <2>2, Contained
    <2>4. \A o \in Objects : win[o].lo \in Small /\ win[o].hi \in Small
      BY <1>1, <2>2, AllChecked, Numbers DEF Checked
    <2>5. ASSUME NEW t \in 0 .. (P - 1)
          PROVE  from <= t /\ t <= until <=> \A o \in Objects : InWindow(t, win[o])
      <3>1. ASSUME from <= t, t <= until, NEW o \in Objects PROVE InWindow(t, win[o])
        <4>1. win[o].lo <= from /\ until <= win[o].hi
          BY <2>2 DEF IsFrom, IsUntil
        <4>2. QED
          BY <2>3, <2>4, <2>5, <3>1, <4>1, Numbers DEF InWindow, Small
      <3>2. ASSUME \A o \in Objects : InWindow(t, win[o]) PROVE from <= t /\ t <= until
        BY <2>2, <3>2 DEF IsFrom, IsUntil, InWindow
      <3>3. QED
        BY <3>1, <3>2
    <2>6. QED
      BY <2>3, <2>5
  <1>2. QED
    BY <1>1, Invariance, PTL

(* Neither circuit, nor the comparison with the builder's window, rejects a *)
(* timestamp at which every object is valid.                                *)
THEOREM OnlyInvalidRejected == Spec => []RejectedRightly
  <1>1. IInv => RejectedRightly
    BY DEF IInv
  <1>2. QED
    BY <1>1, Invariance, PTL
================================================================================
