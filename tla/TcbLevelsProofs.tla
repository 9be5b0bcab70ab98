---------------------------- MODULE TcbLevelsProofs ----------------------------
(***************************************************************************)
(* Proofs about TcbLevels, for every set of documents with any number of   *)
(* levels, every number of slots and every witness.                        *)
(*                                                                         *)
(* The anchored starts are levels in increasing order, the active slots a  *)
(* prefix of the slots, and between two active slots lie at least as many  *)
(* levels as slots (Gapped).  When the active slots are as many as the     *)
(* signed level literals that leaves no freedom: slot k starts at level k. *)
(*                                                                         *)
(* The second half is about NoirTcbLevels: the Noir and the gnark circuit  *)
(* accept the same documents with the same verdict.  One direction maps    *)
(* every Noir step to the gnark step with its place, so that what was      *)
(* shown of the gnark circuit holds of Noir's.  The other gives a gnark    *)
(* behaviour of an arbitrary prover the clamped count and shows it to be a *)
(* Noir behaviour.                                                         *)
(***************************************************************************)
EXTENDS NoirTcbLevels, TLAPS, FiniteSetTheorems, WellFoundedInduction

--------------------------------------------------------------------------------
(* The inductive invariant.                                                 *)

OwnValues(v) == [sgx |-> v.sgx, pce |-> v.pce, tdx |-> v.tdx, sev |-> v.sev]

(* Where the computation stands.                                            *)
Progress ==
  /\ pc \in {"build", "anchor", "count", "bind", "select", "accepted", "failed"}
  /\ pc \in {"build", "anchor"} => Len(start) < MaxLevels
  /\ pc \in {"count", "bind", "select", "accepted"} => Len(start) = MaxLevels
  /\ pc = "bind" => Len(bound) < MaxLevels
  /\ pc \in {"build", "anchor", "count"} => Len(bound) = 0
  /\ pc \in {"select", "accepted"} => Len(bound) = MaxLevels

Anchored ==
  /\ start \in Seq(Nat) /\ Len(start) <= MaxLevels
  /\ \A k \in DOMAIN start : \E a \in Levels(doc) : start[k] = doc.level[a].at

Upto(c) == \A i \in DOMAIN start : Active(i) <=> i <= c
Prefix == \E c \in 0..Len(start) : Upto(c)

Gap(j, k) == \A a, b \in Levels(doc) :
               start[j] = doc.level[a].at /\ start[k] = doc.level[b].at => b - a >= k - j
Gapped == \A j, k \in DOMAIN start : j <= k /\ Active(k) => Gap(j, k)

(* What CheckCount establishes.                                             *)
Aligned == /\ Len(doc.level) <= MaxLevels
           /\ Count = Len(doc.level)
           /\ \A k \in DOMAIN start : Active(k) <=> k \in Levels(doc)
           /\ \A k \in Levels(doc) : start[k] = doc.level[k].at
Settled == pc \in {"bind", "select", "accepted"} => Aligned

Bound ==
  /\ bound \in Seq(BoundType) /\ Len(bound) <= MaxLevels
  /\ \A i \in DOMAIN bound : i \in Levels(doc) => bound[i] = OwnValues(doc.level[i])

Decided == /\ verdict \in Severities \cup {0, None}
           /\ CanonicalVerdict

IInv == /\ WellFormed(doc) /\ Progress /\ Anchored /\ Prefix /\ Gapped
        /\ Settled /\ Bound /\ Decided

--------------------------------------------------------------------------------
(* Documents.                                                               *)

(* The levels are numbered from 1.                                          *)
LEMMA LevelIndices ==
  ASSUME WellFormed(doc)
  PROVE  /\ doc.len \in Nat /\ doc.level \in Seq(LevelType)
         /\ Len(doc.level) \in Nat /\ Levels(doc) = 1..Len(doc.level)
         /\ DOMAIN doc.level = Levels(doc)
  <1>1. doc.len \in Nat /\ doc.level \in Seq(LevelType)
    BY DEF WellFormed
  <1>2. QED
    BY <1>1 DEF WellFormed, Levels

(* The fields of a level are in order and inside the signed prefix.         *)
LEMMA FieldOrder ==
  ASSUME WellFormed(doc), NEW k \in Levels(doc)
  PROVE  /\ k \in Nat \ {0} /\ doc.level[k] \in LevelType
         /\ doc.level[k].at \in Nat /\ doc.level[k].pceAt \in Nat
         /\ doc.level[k].tdxAt \in Nat /\ doc.level[k].stAt \in Nat
         /\ doc.level[k].at < doc.level[k].pceAt
         /\ doc.level[k].pceAt < doc.level[k].tdxAt
         /\ doc.level[k].tdxAt < doc.level[k].stAt
         /\ doc.level[k].stAt + Width <= doc.len
  <1>1. doc.level[k] \in LevelType /\ k \in Nat \ {0}
    BY LevelIndices
  <1>2. LET v == doc.level[k] IN
          /\ v.at + Width <= v.pceAt /\ v.pceAt + Width <= v.tdxAt
          /\ v.tdxAt + Width <= v.stAt /\ v.stAt + Width <= doc.len
    BY LevelIndices DEF WellFormed
  <1>3. QED
    BY <1>1, <1>2 DEF LevelType, Width

(* A level ends before the next one starts.                                 *)
LEMMA LevelOrder ==
  ASSUME WellFormed(doc), NEW k \in Levels(doc), NEW j \in Levels(doc), k < j
  PROVE  doc.level[k].stAt < doc.level[j].at
  BY LevelIndices DEF WellFormed

(* So every field of a level is before every field of a later one.          *)
LEMMA FieldsApart ==
  ASSUME WellFormed(doc), NEW k \in Levels(doc), NEW j \in Levels(doc), k < j
  PROVE  /\ {doc.level[k].at, doc.level[k].pceAt, doc.level[k].tdxAt, doc.level[k].stAt}
              \subseteq 0 .. (doc.level[j].at - 1)
         /\ doc.level[j].at \in Nat
         /\ {doc.level[j].pceAt, doc.level[j].tdxAt, doc.level[j].stAt}
              \subseteq {n \in Nat : doc.level[j].at < n}
  <1>1. /\ doc.level[k].at \in Nat /\ doc.level[k].pceAt \in Nat
        /\ doc.level[k].tdxAt \in Nat /\ doc.level[k].stAt \in Nat
        /\ doc.level[k].at < doc.level[k].pceAt
        /\ doc.level[k].pceAt < doc.level[k].tdxAt
        /\ doc.level[k].tdxAt < doc.level[k].stAt
    BY FieldOrder
  <1>2. /\ doc.level[j].at \in Nat /\ doc.level[j].pceAt \in Nat
        /\ doc.level[j].tdxAt \in Nat /\ doc.level[j].stAt \in Nat
        /\ doc.level[j].at < doc.level[j].pceAt
        /\ doc.level[j].pceAt < doc.level[j].tdxAt
        /\ doc.level[j].tdxAt < doc.level[j].stAt
    BY FieldOrder
  <1>3. doc.level[k].stAt < doc.level[j].at
    BY LevelOrder
  <1>4. QED
    BY <1>1, <1>2, <1>3

(* A later level starts later, so a start names its level.                  *)
LEMMA StartsIncrease ==
  ASSUME WellFormed(doc), NEW a \in Levels(doc), NEW b \in Levels(doc)
  PROVE  /\ a \in Int /\ b \in Int
         /\ doc.level[a].at < doc.level[b].at <=> a < b
         /\ doc.level[a].at = doc.level[b].at <=> a = b
  <1>1. a \in Int /\ b \in Int
    BY FieldOrder
  <1>2. CASE a < b
    BY <1>1, <1>2, FieldOrder, LevelOrder
  <1>3. CASE b < a
    BY <1>1, <1>3, FieldOrder, LevelOrder
  <1>4. CASE a = b
    BY <1>1, <1>4, FieldOrder
  <1>5. QED
    BY <1>1, <1>2, <1>3, <1>4

(* A signed anchor is the start of a level.                                 *)
LEMMA SignedAnchors ==
  ASSUME WellFormed(doc)
  PROVE  {p \in Anchors(doc) : Signed(p)} = {doc.level[k].at : k \in Levels(doc)}
  <1>1. \A k \in Levels(doc) : Signed(doc.level[k].at)
    <2>1. SUFFICES ASSUME NEW k \in Levels(doc) PROVE Signed(doc.level[k].at)
      OBVIOUS
    <2>2. /\ doc.len \in Nat /\ doc.level[k].at \in Nat /\ doc.level[k].stAt \in Nat
          /\ doc.level[k].at < doc.level[k].stAt /\ doc.level[k].stAt + 2 <= doc.len
      BY FieldOrder, LevelIndices DEF Width
    <2>3. QED
      BY <2>2 DEF Signed, Width
  <1>2. \A p \in doc.tail : ~Signed(p)
    BY LevelIndices DEF WellFormed, Signed, Width
  <1>3. QED
    BY <1>1, <1>2 DEF Anchors

(* There are as many signed level literals as levels.                       *)
LEMMA TotalIsLength ==
  ASSUME WellFormed(doc)
  PROVE  Total = Len(doc.level)
  <1> DEFINE S == Levels(doc)
             T == {doc.level[k].at : k \in Levels(doc)}
             f == [k \in S |-> doc.level[k].at]
  <1>1. S = 1..Len(doc.level) /\ Len(doc.level) \in Nat
    BY LevelIndices
  <1>2. IsFiniteSet(S) /\ Cardinality(S) = Len(doc.level)
    BY <1>1, FS_Interval
  <1>3. f \in [S -> T]
    OBVIOUS
  <1>4. \A a, b \in S : f[a] = f[b] => a = b
    BY StartsIncrease
  <1>5. \A t \in T : \E s \in S : f[s] = t
    OBVIOUS
  <1> HIDE DEF S, T, f
  <1>6. DOMAIN f = S
    BY <1>3
  <1>7. f \in Injection(S, T)
    BY <1>3, <1>4, <1>6 DEF Injection, IsInjective
  <1>8. f \in Surjection(S, T)
    BY <1>3, <1>5 DEF Surjection
  <1>9. ExistsBijection(S, T)
    BY <1>7, <1>8 DEF ExistsBijection, Bijection
  <1>10. Cardinality(T) = Cardinality(S)
    BY <1>2, <1>9, FS_Bijection
  <1>11. QED
    BY <1>2, <1>10, SignedAnchors DEF Total, S, T

--------------------------------------------------------------------------------
(* Anchoring.                                                               *)

(* The count of active slots is the length of their prefix.                 *)
LEMMA CountIsPrefix ==
  ASSUME Anchored, NEW c \in 0..Len(start), Upto(c)
  PROVE  Count = c
  <1>1. DOMAIN start = 1..Len(start) /\ Len(start) \in Nat
    BY DEF Anchored
  <1>2. {i \in DOMAIN start : Active(i)} = 1..c
    BY <1>1 DEF Upto
  <1>3. Cardinality(1..c) = c
    BY FS_Interval, <1>1
  <1>4. QED
    BY <1>2, <1>3 DEF Count

(* With as many active slots as levels, slot k starts at level k.           *)
LEMMA Alignment ==
  ASSUME WellFormed(doc), Anchored, Prefix, Gapped, MaxLevels \in Nat \ {0},
         Len(start) = MaxLevels, Count = Total
  PROVE  Aligned
  <1> DEFINE L == Len(doc.level)
  <1>1. PICK c \in 0..Len(start) : Upto(c)
    BY DEF Prefix
  <1>2. Count = L /\ c = L
    BY <1>1, CountIsPrefix, TotalIsLength
  <1>3. /\ Levels(doc) = 1..L /\ L \in Nat \ {0} /\ L <= MaxLevels
        /\ DOMAIN start = 1..Len(start)
    BY <1>2, LevelIndices DEF Anchored
  <1>4. \A k \in DOMAIN start : Active(k) <=> k \in Levels(doc)
    BY <1>1, <1>2, <1>3 DEF Upto
  <1>5. ASSUME NEW k \in Levels(doc) PROVE start[k] = doc.level[k].at
    <2>1. {1, k, L} \subseteq DOMAIN start /\ Active(k) /\ Active(L) /\ 1 <= k /\ k <= L
      BY <1>3, <1>4
    <2>2. PICK a \in Levels(doc) : start[1] = doc.level[a].at
      BY <2>1 DEF Anchored
    <2>3. PICK b \in Levels(doc) : start[k] = doc.level[b].at
      BY <2>1 DEF Anchored
    <2>4. PICK d \in Levels(doc) : start[L] = doc.level[d].at
      BY <2>1 DEF Anchored
    <2>5. b - a >= k - 1
      BY <2>1, <2>2, <2>3 DEF Gapped, Gap
    <2>6. d - b >= L - k
      BY <2>1, <2>3, <2>4, <1>3 DEF Gapped, Gap
    <2>7. b = k
      BY <2>5, <2>6, <1>3
    <2>8. QED
      BY <2>3, <2>7
  <1>6. QED
    BY <1>2, <1>3, <1>4, <1>5 DEF Aligned

(* A new slot keeps the active slots a prefix.                              *)
LEMMA PrefixGrows ==
  ASSUME Anchored, Prefix, NEW p \in Nat, Follows(p), start' = Append(start, p)
  PROVE  Prefix'
  <1> PICK n \in Nat : n = Len(start)
    BY DEF Anchored
  <1>1. /\ start \in Seq(Nat) /\ n \in Nat /\ DOMAIN start = 1..n
        /\ start' \in Seq(Nat) /\ Len(start') = n + 1 /\ DOMAIN start' = 1..(n + 1)
        /\ \A i \in 1..n : start'[i] = start[i]
        /\ start'[n + 1] = p
    BY DEF Anchored
  <1>2. \A i \in 1..n : Active(i)' <=> Active(i)
    BY <1>1 DEF Active
  <1>3. Active(n + 1)' <=> (n > 0 => p # start[n])
    BY <1>1 DEF Active
  <1>4. n > 0 /\ ~Active(n) => p = start[n]
    BY <1>1 DEF Follows
  <1>5. PICK c \in 0..n : Upto(c)
    BY DEF Prefix
  <1>6. CASE Active(n + 1)'
    <2>1. n > 0 => Active(n)
      BY <1>3, <1>4, <1>6
    <2>2. c = n
      BY <1>1, <1>5, <2>1 DEF Upto
    <2>3. Upto(n + 1)'
      BY <1>1, <1>2, <1>5, <1>6, <2>2 DEF Upto
    <2>4. QED
      BY <1>1, <2>3 DEF Prefix
  <1>7. CASE ~Active(n + 1)'
    <2>1. Upto(c)'
      BY <1>1, <1>2, <1>5, <1>7 DEF Upto
    <2>2. QED
      BY <1>1, <2>1, <1>5 DEF Prefix
  <1>8. QED
    BY <1>6, <1>7

(* A new active slot starts beyond the one before it, hence at a later level.*)
LEMMA GapGrows ==
  ASSUME WellFormed(doc), Anchored, Gapped, UNCHANGED doc,
         NEW p \in Nat, Follows(p), start' = Append(start, p)
  PROVE  Gapped'
  <1> PICK n \in Nat : n = Len(start)
    BY DEF Anchored
  <1>1. /\ start \in Seq(Nat) /\ n \in Nat /\ DOMAIN start = 1..n
        /\ DOMAIN start' = 1..(n + 1)
        /\ \A i \in 1..n : start'[i] = start[i] /\ start[i] \in Nat
        /\ start'[n + 1] = p
    BY DEF Anchored
  <1>2. SUFFICES ASSUME NEW j \in 1..(n + 1), NEW k \in 1..(n + 1), j <= k, Active(k)',
                        NEW a \in Levels(doc), NEW b \in Levels(doc),
                        start'[j] = doc.level[a].at, start'[k] = doc.level[b].at
                 PROVE  b - a >= k - j
    BY <1>1 DEF Gapped, Gap, Levels
  <1>3. CASE k <= n
    <2>1. Active(k)
      BY <1>1, <1>2, <1>3 DEF Active
    <2>2. start[j] = doc.level[a].at /\ start[k] = doc.level[b].at
      BY <1>1, <1>2, <1>3
    <2>3. QED
      BY <1>1, <1>2, <1>3, <2>1, <2>2 DEF Gapped, Gap
  <1>4. CASE k = n + 1 /\ j = n + 1
    BY <1>2, <1>4, StartsIncrease
  <1>5. CASE k = n + 1 /\ j <= n
    <2>1. n > 0 /\ p # start[n] /\ p >= start[n] /\ Active(n)
      BY <1>1, <1>2, <1>5 DEF Active, Follows
    <2>2. PICK e \in Levels(doc) : start[n] = doc.level[e].at
      BY <1>1, <2>1 DEF Anchored
    <2>3. e < b
      <3>1. doc.level[e].at < doc.level[b].at
        BY <1>1, <1>2, <1>5, <2>1, <2>2
      <3>2. QED
        BY <3>1, StartsIncrease
    <2>4. e - a >= n - j
      <3>1. start[j] = doc.level[a].at
        BY <1>1, <1>2, <1>5
      <3>2. Gap(j, n)
        BY <1>1, <1>2, <1>5, <2>1 DEF Gapped
      <3>3. QED
        BY <1>2, <2>2, <3>1, <3>2 DEF Gap
    <2>5. a \in Int /\ b \in Int /\ e \in Int
      BY StartsIncrease
    <2>6. QED
      BY <1>1, <1>5, <2>3, <2>4, <2>5
  <1>6. QED
    BY <1>1, <1>2, <1>3, <1>4, <1>5

--------------------------------------------------------------------------------
(* Binding.                                                                 *)

(* The extent of an active slot is its level's: it ends where the next level *)
(* starts, or with the signed document.                                     *)
LEMMA ExtentOfSlot ==
  ASSUME WellFormed(doc), Aligned, Anchored, Len(start) = MaxLevels, NEW i \in Levels(doc)
  PROVE  /\ Active(i) /\ start[i] = doc.level[i].at
         /\ EndOf(i) = IF i < Len(doc.level) THEN doc.level[i + 1].at ELSE doc.len
  <1>1. /\ Levels(doc) = 1..Len(doc.level) /\ Len(doc.level) \in Nat
        /\ MaxLevels \in Nat /\ DOMAIN start = 1..MaxLevels /\ Len(doc.level) <= MaxLevels
    BY LevelIndices DEF Aligned, Anchored
  <1>2. i \in DOMAIN start /\ Active(i) /\ start[i] = doc.level[i].at
    BY <1>1 DEF Aligned
  <1>3. CASE i < Len(doc.level)
    <2>1. i + 1 \in Levels(doc) /\ i + 1 \in DOMAIN start /\ i < MaxLevels
      BY <1>1, <1>3
    <2>2. Active(i + 1) /\ start[i + 1] = doc.level[i + 1].at
      BY <2>1 DEF Aligned
    <2>3. QED
      BY <1>2, <1>3, <2>1, <2>2 DEF EndOf
  <1>4. CASE ~(i < Len(doc.level))
    <2>1. i < MaxLevels => i + 1 \in DOMAIN start /\ i + 1 \notin Levels(doc)
      BY <1>1, <1>4
    <2>2. i < MaxLevels => ~Active(i + 1)
      BY <2>1 DEF Aligned
    <2>3. QED
      BY <1>2, <1>4, <2>2 DEF EndOf
  <1>5. QED
    BY <1>3, <1>4

(* A start belongs to its own level only.                                   *)
LEMMA OwnerOfLevel ==
  ASSUME WellFormed(doc), NEW i \in Levels(doc)
  PROVE  Owner(doc.level[i].at) = i
  <1> DEFINE P(k) == doc.level[i].at \in {doc.level[k].at, doc.level[k].pceAt, doc.level[k].tdxAt}
  <1>1. P(i)
    OBVIOUS
  <1>2. ASSUME NEW k \in Levels(doc), P(k) PROVE k = i
    <2>1. ~(k < i)
      BY <1>2, FieldOrder, LevelOrder
    <2>2. ~(i < k)
      BY <1>2, FieldOrder, LevelOrder
    <2>3. i \in Nat /\ k \in Nat
      BY FieldOrder
    <2>4. QED
      BY <2>1, <2>2, <2>3
  <1>3. QED
    BY <1>1, <1>2 DEF Owner

(* What the witness points at inside an active slot's extent is the level's *)
(* own: its pcesvn, its tdx array and, being the first, its status.         *)
LEMMA OnlyItsOwn ==
  ASSUME WellFormed(doc), NEW i \in Levels(doc), NEW own \in Levels(doc),
         NEW other \in Levels(doc), NEW s \in Statuses(doc), NEW end,
         end = IF i < Len(doc.level) THEN doc.level[i + 1].at ELSE doc.len,
         doc.level[own].pceAt \in Span(doc.level[i].at, end),
         s.at \in Span(doc.level[i].at, end),
         FirstStatus(doc.level[i].at, s.at, TRUE),
         TdxInside(doc.level[own].pceAt, doc.level[other].tdxAt, s.at)
  PROVE  own = i /\ other = i /\ s.sev = doc.level[i].sev
  <1>1. i \in Nat /\ own \in Nat /\ other \in Nat
    BY FieldOrder
  <1>2. end \in Nat /\ \A j \in Levels(doc) : j > i => end <= doc.level[j].at
    <2>1. CASE i < Len(doc.level)
      <3>1. i + 1 \in Levels(doc) /\ end = doc.level[i + 1].at
        BY <1>1, <2>1, LevelIndices
      <3>2. ASSUME NEW j \in Levels(doc), j > i PROVE end <= doc.level[j].at
        <4>1. j = i + 1 \/ i + 1 < j
          BY <1>1, <3>2, FieldOrder
        <4>2. CASE j = i + 1
          BY <3>1, <4>2, FieldOrder
        <4>3. CASE i + 1 < j
          BY <3>1, <4>3, StartsIncrease, FieldOrder, SMTT(30)
        <4>4. QED
          BY <4>1, <4>2, <4>3
      <3>3. QED
        BY <3>1, <3>2, FieldOrder
    <2>2. CASE ~(i < Len(doc.level))
      BY <1>1, <2>2, LevelIndices
    <2>3. QED
      BY <2>1, <2>2
  <1>3. own = i
    <2>1. doc.level[i].at <= doc.level[own].pceAt /\ doc.level[own].pceAt < end
      BY <1>2, FieldOrder DEF Span
    <2>2. ~(own < i)
      BY <2>1, FieldsApart
    <2>3. ~(i < own)
      <3>1. SUFFICES ASSUME i < own PROVE FALSE
        OBVIOUS
      <3>2. end <= doc.level[own].at /\ doc.level[own].at < doc.level[own].pceAt
        BY <1>2, <3>1, FieldOrder
      <3>3. doc.level[own].at \in Nat /\ doc.level[own].pceAt \in Nat
        BY FieldOrder
      <3>4. QED
        BY <1>2, <2>1, <3>2, <3>3
    <2>4. QED
      BY <1>1, <2>2, <2>3
  <1>4. s.at \in Int /\ doc.level[i].at <= s.at
    BY <1>2, FieldOrder DEF Span
  <1>5. s.at <= doc.level[i].stAt
    <2>1. StatusAt(doc.level[i].stAt)
      <3>1. [at |-> doc.level[i].stAt, sev |-> doc.level[i].sev] \in Statuses(doc)
        BY DEF Statuses, Levels
      <3>2. QED
        BY <3>1 DEF StatusAt
    <2>2. doc.level[i].stAt \notin Span(doc.level[i].at, s.at)
      BY <2>1 DEF FirstStatus
    <2>3. /\ doc.level[i].at \in Nat /\ doc.level[i].pceAt \in Nat
          /\ doc.level[i].tdxAt \in Nat /\ doc.level[i].stAt \in Nat
          /\ doc.level[i].at < doc.level[i].pceAt
          /\ doc.level[i].pceAt < doc.level[i].tdxAt
          /\ doc.level[i].tdxAt < doc.level[i].stAt
      BY FieldOrder
    <2>4. QED
      BY <1>4, <2>2, <2>3, SMTT(30) DEF Span
  <1>6. other = i
    <2>1. /\ doc.level[i].at < doc.level[other].tdxAt
          /\ doc.level[other].tdxAt < doc.level[i].stAt
      <3>1. /\ doc.level[i].pceAt <= doc.level[other].tdxAt
            /\ doc.level[other].tdxAt < s.at
        <4>1. doc.level[i].pceAt \in Nat /\ doc.level[other].tdxAt \in Nat
          BY FieldOrder
        <4>2. QED
          BY <1>3, <1>4, <4>1 DEF Span, TdxInside
      <3>2. /\ doc.level[i].at \in Nat /\ doc.level[i].pceAt \in Nat
            /\ doc.level[i].stAt \in Nat /\ doc.level[other].tdxAt \in Nat
            /\ doc.level[i].at < doc.level[i].pceAt
        BY FieldOrder
      <3>3. QED
        BY ONLY <1>4, <1>5, <3>1, <3>2
    <2>2. ~(other < i)
      BY <2>1, FieldsApart
    <2>3. ~(i < other)
      BY <2>1, FieldsApart, SMTT(30)
    <2>4. QED
      BY <1>1, <2>2, <2>3
  <1>7. s.sev = doc.level[i].sev
    <2>1. s \in {[at |-> doc.level[k].stAt, sev |-> doc.level[k].sev] : k \in Levels(doc)}
          \/ s \in doc.other
      BY DEF Statuses, Levels
    <2>2. CASE s \in doc.other
      <3>1. s.at \in doc.level[i].at .. doc.level[i].stAt
        BY <1>4, <1>5, FieldOrder
      <3>2. s = [at |-> doc.level[i].stAt, sev |-> doc.level[i].sev]
        BY <2>2, <3>1 DEF WellFormed, Levels
      <3>3. QED
        BY <3>2
    <2>3. ASSUME NEW k \in Levels(doc),
                 s = [at |-> doc.level[k].stAt, sev |-> doc.level[k].sev]
          PROVE  s.sev = doc.level[i].sev
      <3>1. s.at = doc.level[k].stAt /\ s.sev = doc.level[k].sev
        BY <2>3
      <3>2. ~(k < i)
        BY <1>4, <3>1, FieldsApart
      <3>3. ~(i < k)
        <4>1. SUFFICES ASSUME i < k PROVE FALSE
          OBVIOUS
        <4>2. /\ doc.level[i].stAt < doc.level[k].at /\ doc.level[k].at < doc.level[k].stAt
              /\ doc.level[k].at \in Nat
          BY <4>1, FieldsApart, SMTT(30)
        <4>3. doc.level[i].stAt \in Nat /\ doc.level[k].stAt \in Nat
          BY FieldOrder
        <4>4. QED
          BY ONLY <1>4, <1>5, <3>1, <4>2, <4>3
      <3>4. k = i
        BY <1>1, <3>2, <3>3, FieldOrder
      <3>5. QED
        BY <3>1, <3>4
    <2>4. QED
      BY <2>1, <2>2, <2>3
  <1>8. QED
    BY <1>3, <1>6, <1>7
--------------------------------------------------------------------------------
(* The steps.  Every lemma assumes the whole invariant.                     *)

LEMMA InitIInv == Init => IInv
  <1>1. SUFFICES ASSUME Init PROVE IInv
    OBVIOUS
  <1>2. WellFormed(doc) /\ MaxLevels \in Nat \ {0}
    <2>1. doc \in Docs
      BY <1>1 DEF Init
    <2>2. QED
      BY <2>1, TcbAssumption
  <1>3. /\ start = <<>> /\ bound = <<>> /\ verdict = None /\ pc \in {"build", "anchor"}
    BY <1>1 DEF Init
  <1>4. Progress /\ Anchored /\ Gapped
    BY <1>2, <1>3 DEF Progress, Anchored, Gapped
  <1>5. Prefix
    <2>1. Upto(0) /\ 0 \in 0..Len(start)
      BY <1>3 DEF Upto
    <2>2. QED
      BY <2>1 DEF Prefix
  <1>6. Settled /\ Bound /\ Decided
    BY <1>2, <1>3 DEF Settled, Bound, Decided, CanonicalVerdict
  <1>7. QED
    BY <1>2, <1>4, <1>5, <1>6 DEF IInv

(* What a step that leaves the document and the slots alone keeps.          *)
LEMMA SlotsKept ==
  ASSUME IInv, UNCHANGED <<doc, start>>
  PROVE  /\ WellFormed(doc)' /\ Anchored' /\ Prefix' /\ Gapped'
         /\ Aligned => Aligned'
  <1>1. \A i \in DOMAIN start : Active(i) = Active(i)'
    BY DEF Active
  <1>2. WellFormed(doc)' /\ Anchored'
    BY DEF IInv, WellFormed, LevelType, Anchored, Levels
  <1>3. Prefix'
    <2>1. ASSUME NEW c \in 0..Len(start), Upto(c) PROVE Upto(c)'
      BY <1>1, <2>1 DEF Upto
    <2>2. QED
      BY <2>1 DEF IInv, Prefix
  <1>4. Gapped'
    <2>1. ASSUME NEW j, NEW k, Gap(j, k) PROVE Gap(j, k)'
      BY <2>1 DEF Gap, Levels
    <2>2. QED
      BY <1>1, <2>1 DEF IInv, Gapped
  <1>5. Aligned => Aligned'
    <2>1. Count' = Count
      BY DEF Count, Active
    <2>2. QED
      BY <1>1, <2>1 DEF Aligned, Levels
  <1>6. QED
    BY <1>2, <1>3, <1>4, <1>5

LEMMA BoundKept ==
  ASSUME IInv, UNCHANGED <<doc, bound>>
  PROVE  Bound'
  BY DEF IInv, Bound, OwnValues, BoundType, Levels

LEMMA BuildStep == ASSUME IInv, Build PROVE IInv'
  <1>1. /\ UNCHANGED <<doc, start, bound, verdict>> /\ pc = "build"
        /\ pc' \in {"anchor", "failed"}
    BY DEF Build
  <1>2. Progress'
    BY <1>1 DEF IInv, Progress
  <1>3. Settled' /\ Decided'
    BY <1>1 DEF IInv, Settled, Decided, CanonicalVerdict
  <1>4. QED
    BY <1>1, <1>2, <1>3, SlotsKept, BoundKept DEF IInv

LEMMA AnchorSlotStep == ASSUME IInv, AnchorSlot PROVE IInv'
  <1>1. /\ UNCHANGED <<doc, hint, bound, verdict>> /\ pc = "anchor"
        /\ pc' = IF LastSlot(Len(start) + 1) THEN "count" ELSE "anchor"
    BY DEF AnchorSlot
  <1>2. PICK p \in Anchors(doc) : /\ Signed(p) /\ Follows(p) /\ start' = Append(start, p)
    BY DEF AnchorSlot
  <1>3. PICK a \in Levels(doc) : p = doc.level[a].at
    BY <1>2, SignedAnchors DEF IInv
  <1>4. p \in Nat
    BY <1>3, FieldOrder DEF IInv
  <1>5. /\ start \in Seq(Nat) /\ Len(start) \in Nat /\ Len(start) < MaxLevels
        /\ Len(bound) = 0 /\ MaxLevels \in Nat \ {0}
    BY <1>1, TcbAssumption DEF IInv, Progress, Anchored
  <1>6. /\ start' \in Seq(Nat) /\ Len(start') = Len(start) + 1
        /\ DOMAIN start' = 1..(Len(start) + 1) /\ DOMAIN start = 1..Len(start)
        /\ \A i \in DOMAIN start : start'[i] = start[i]
        /\ start'[Len(start) + 1] = p
    BY <1>2, <1>4, <1>5
  <1>7. Progress'
    BY <1>1, <1>5, <1>6 DEF Progress, LastSlot
  <1>8. Anchored'
    <2>1. ASSUME NEW k \in DOMAIN start' PROVE \E b \in Levels(doc) : start'[k] = doc.level[b].at
      <3>1. CASE k \in DOMAIN start
        BY <1>6, <3>1 DEF IInv, Anchored
      <3>2. CASE k = Len(start) + 1
        BY <1>3, <1>6, <3>2
      <3>3. QED
        BY <1>5, <1>6, <3>1, <3>2
    <2>2. QED
      BY <1>1, <1>5, <1>6, <2>1 DEF Anchored, Levels
  <1>9. Prefix' /\ Gapped'
    BY <1>1, <1>2, <1>4, PrefixGrows, GapGrows DEF IInv
  <1>10. Settled' /\ Decided' /\ WellFormed(doc)'
    BY <1>1 DEF IInv, Settled, Decided, CanonicalVerdict, LastSlot
  <1>11. QED
    BY <1>1, <1>7, <1>8, <1>9, <1>10, BoundKept DEF IInv

LEMMA CheckCountStep == ASSUME IInv, CheckCount PROVE IInv'
  <1>1. /\ UNCHANGED <<doc, hint, start, bound, verdict>> /\ pc = "count" /\ pc' = "bind"
        /\ Count = Total
    BY DEF CheckCount
  <1>2. Len(start) = MaxLevels /\ Len(bound) = 0 /\ MaxLevels \in Nat \ {0}
    BY <1>1, TcbAssumption DEF IInv, Progress
  <1>3. Progress'
    BY <1>1, <1>2 DEF Progress
  <1>4. Settled'
    BY <1>1, <1>2, Alignment, SlotsKept DEF IInv, Settled
  <1>5. Decided'
    BY <1>1 DEF IInv, Decided, CanonicalVerdict
  <1>6. QED
    BY <1>1, <1>3, <1>4, <1>5, SlotsKept, BoundKept DEF IInv

(* A slot binds the values of levels, an active slot those of its own.      *)
LEMMA BindSlotStep == ASSUME IInv, BindSlot PROVE IInv'
  <1> PICK i \in Nat \ {0} : i = Len(bound) + 1
    BY DEF IInv, Bound
  <1>1. /\ UNCHANGED <<doc, hint, start, verdict>> /\ pc = "bind"
        /\ pc' = IF LastSlot(i) THEN "select" ELSE "bind"
    BY DEF BindSlot
  <1>2. /\ WellFormed(doc) /\ Anchored /\ Aligned /\ Bound /\ i <= MaxLevels
        /\ Len(start) = MaxLevels /\ MaxLevels \in Nat \ {0}
    BY <1>1, TcbAssumption DEF IInv, Settled, Progress, Bound
  <1>3. PICK own \in Levels(doc), other \in Levels(doc), s \in Statuses(doc) :
          LET pce == doc.level[own].pceAt
              tdx == doc.level[other].tdxAt
          IN  /\ pce \in Span(start[i], EndOf(i)) /\ s.at \in Span(start[i], EndOf(i))
              /\ FirstStatus(start[i], s.at, Active(i))
              /\ TdxInside(pce, tdx, s.at)
              /\ bound' = Append(bound, [sgx |-> doc.level[Owner(start[i])].sgx,
                                         pce |-> doc.level[own].pce,
                                         tdx |-> doc.level[other].tdx, sev |-> s.sev])
    BY DEF BindSlot
  <1> DEFINE e == [sgx |-> doc.level[Owner(start[i])].sgx, pce |-> doc.level[own].pce,
                   tdx |-> doc.level[other].tdx, sev |-> s.sev]
  <1>4. e \in BoundType
    <2>1. i \in DOMAIN start
      BY <1>2 DEF Anchored
    <2>2. PICK a \in Levels(doc) : start[i] = doc.level[a].at
      BY <1>2, <2>1 DEF Anchored
    <2>3. Owner(start[i]) \in Levels(doc)
      BY <1>2, <2>2, OwnerOfLevel
    <2>4. s.sev \in Severities
      <3>1. \A k \in Levels(doc) : doc.level[k].sev \in Severities
        BY <1>2, FieldOrder DEF LevelType
      <3>2. doc.other \subseteq [at : Nat, sev : Severities]
        BY <1>2 DEF WellFormed
      <3>3. QED
        BY <3>1, <3>2 DEF Statuses, Levels
    <2>5. \A k \in Levels(doc) : doc.level[k] \in LevelType
      BY <1>2, FieldOrder
    <2>6. QED
      BY <2>3, <2>4, <2>5 DEF BoundType, LevelType
  <1>5. i \in Levels(doc) => e = OwnValues(doc.level[i])
    <2>1. SUFFICES ASSUME i \in Levels(doc) PROVE e = OwnValues(doc.level[i])
      OBVIOUS
    <2>2. /\ Active(i) /\ start[i] = doc.level[i].at
          /\ EndOf(i) = IF i < Len(doc.level) THEN doc.level[i + 1].at ELSE doc.len
      BY <1>2, <2>1, ExtentOfSlot
    <2>3. FirstStatus(doc.level[i].at, s.at, TRUE)
      BY <1>3, <2>2 DEF FirstStatus
    <2>4. own = i /\ other = i /\ s.sev = doc.level[i].sev
      BY <1>2, <1>3, <2>1, <2>2, <2>3, OnlyItsOwn, ZenonT(30)
    <2>5. Owner(start[i]) = i
      BY <1>2, <2>1, <2>2, OwnerOfLevel
    <2>6. QED
      BY <2>4, <2>5 DEF OwnValues
  <1> HIDE DEF e
  <1>6. bound' = Append(bound, e)
    BY <1>3 DEF e
  <1>7. /\ bound \in Seq(BoundType) /\ bound' \in Seq(BoundType) /\ Len(bound') = i
        /\ DOMAIN bound = 1..(i - 1) /\ DOMAIN bound' = 1..i
        /\ \A k \in DOMAIN bound : bound'[k] = bound[k]
        /\ bound'[i] = e
    BY <1>2, <1>4, <1>6 DEF Bound
  <1>8. Bound'
    <2>1. ASSUME NEW k \in DOMAIN bound', k \in Levels(doc)
          PROVE  bound'[k] = OwnValues(doc.level[k])
      <3>1. CASE k \in DOMAIN bound
        BY <1>2, <1>7, <2>1, <3>1 DEF Bound
      <3>2. CASE k = i
        BY <1>5, <1>7, <2>1, <3>2
      <3>3. QED
        BY <1>7, <3>1, <3>2
    <2>2. (bound \in Seq(BoundType))' /\ Len(bound') <= MaxLevels
      BY <1>2, <1>7 DEF BoundType
    <2>3. (\A k \in DOMAIN bound : k \in Levels(doc) => bound[k] = OwnValues(doc.level[k]))'
      BY <1>1, <2>1 DEF Levels, OwnValues
    <2>4. QED
      BY <2>2, <2>3 DEF Bound
  <1>9. Progress'
    BY <1>1, <1>2, <1>7 DEF Progress, LastSlot
  <1>10. Settled' /\ Decided'
    BY <1>1, <1>2, SlotsKept DEF IInv, Settled, Decided, CanonicalVerdict
  <1>11. QED
    BY <1>1, <1>8, <1>9, <1>10, SlotsKept DEF IInv

(* The chosen slot is the first satisfied one, hence its level is.          *)
LEMMA SelectStep == ASSUME IInv, Select PROVE IInv'
  <1>1. /\ UNCHANGED <<doc, hint, start, bound>> /\ pc = "select" /\ pc' = "accepted"
    BY DEF Select
  <1>2. /\ WellFormed(doc) /\ Aligned /\ Bound /\ Len(bound) = MaxLevels
        /\ MaxLevels \in Nat \ {0}
    BY <1>1, TcbAssumption DEF IInv, Settled, Progress
  <1>3. PICK x : /\ SlotNumber(x) /\ x <= Count - 1
                 /\ \A m \in Span(0, MaxLevels) : m = x => Satisfied(bound[m + 1])
                 /\ FirstSatisfied(x)
                 /\ verdict' = IF x \in Span(0, MaxLevels) THEN bound[x + 1].sev ELSE 0
    BY DEF Select
  <1>4. /\ x \in Int /\ 0 <= x /\ x < Len(doc.level) /\ Len(doc.level) \in Nat
        /\ x \in Span(0, MaxLevels) /\ Levels(doc) = 1..Len(doc.level)
        /\ Len(doc.level) <= MaxLevels
    BY <1>2, <1>3, LevelIndices DEF SlotNumber, Span, Aligned
  <1>5. \A k \in Levels(doc) : bound[k] = OwnValues(doc.level[k])
    BY <1>2, <1>4 DEF Bound
  <1>6. \A k \in Levels(doc) : /\ Satisfied(bound[k]) <=> Satisfied(doc.level[k])
                               /\ bound[k].sev = doc.level[k].sev
    <2>1. SUFFICES ASSUME NEW k \in Levels(doc)
                   PROVE  /\ Satisfied(bound[k]) <=> Satisfied(doc.level[k])
                          /\ bound[k].sev = doc.level[k].sev
      OBVIOUS
    <2>2. /\ bound[k].sgx = doc.level[k].sgx /\ bound[k].pce = doc.level[k].pce
          /\ bound[k].tdx = doc.level[k].tdx /\ bound[k].sev = doc.level[k].sev
      <3>1. bound[k] = OwnValues(doc.level[k])
        BY <1>5
      <3>2. QED
        BY <3>1 DEF OwnValues
    <2>3. QED
      BY <2>2, Zenon DEF Satisfied
  <1>7. x + 1 \in Levels(doc) /\ Satisfied(doc.level[x + 1])
    BY <1>3, <1>4, <1>6
  <1>8. \A j \in 1..x : ~Satisfied(doc.level[j])
    <2>1. SUFFICES ASSUME NEW j \in 1..x PROVE ~Satisfied(bound[j])
      BY <1>4, <1>6
    <2>2. j - 1 \in Span(0, x) /\ j - 1 < Count /\ (j - 1) + 1 = j
      BY <1>2, <1>4 DEF Span, Aligned
    <2>3. QED
      BY <1>3, <2>2 DEF FirstSatisfied
  <1>9. verdict' = doc.level[x + 1].sev
    BY <1>3, <1>4, <1>6, <1>7
  <1>10. Decided'
    <2>1. CanonicalVerdict'
      <3>1. (x + 1) - 1 = x
        BY <1>4
      <3>2. QED
        BY <1>1, <1>7, <1>8, <1>9, <3>1 DEF CanonicalVerdict, Levels, Satisfied
    <2>2. verdict' \in Severities
      BY <1>2, <1>7, <1>9, FieldOrder DEF LevelType
    <2>3. QED
      BY <2>1, <2>2 DEF Decided
  <1>11. Progress'
    BY <1>1, <1>2 DEF IInv, Progress
  <1>12. Settled'
    BY <1>1, <1>2, SlotsKept DEF IInv, Settled
  <1>13. QED
    BY <1>1, <1>10, <1>11, <1>12, SlotsKept, BoundKept DEF IInv

LEMMA StutterStep == ASSUME IInv, UNCHANGED vars PROVE IInv'
  <1>1. UNCHANGED <<doc, start, bound, pc, verdict>>
    BY DEF vars
  <1>2. Progress' /\ Settled' /\ Decided'
    BY <1>1, SlotsKept DEF IInv, Progress, Settled, Decided, CanonicalVerdict, Levels, Satisfied
  <1>3. QED
    BY <1>1, <1>2, SlotsKept, BoundKept DEF IInv

--------------------------------------------------------------------------------
(* The invariant holds of every witness, honest or not.                     *)
THEOREM Invariance == Spec => []IInv
  <1>1. ASSUME IInv, [Next]_vars PROVE IInv'
    BY <1>1, BuildStep, AnchorSlotStep, CheckCountStep, BindSlotStep, SelectStep, StutterStep
       DEF Next
  <1>2. QED
    BY InitIInv, <1>1, PTL DEF Spec

(* Every variable has its type.                                             *)
THEOREM TypeCorrect == Spec => []TypeOK
  <1>1. IInv => TypeOK
    BY DEF IInv, TypeOK, Progress, Anchored, Bound, Decided
  <1>2. QED
    BY <1>1, Invariance, PTL

(* deriveAndBindTcbLevels binds every level of the signed document, in      *)
(* order, each slot to its own level's thresholds and status.               *)
THEOREM EveryLevelAlwaysBound == Spec => []EveryLevelBound
  <1>1. ASSUME IInv PROVE EveryLevelBound
    <2>1. SUFFICES ASSUME pc \in {"select", "accepted"}
                   PROVE  /\ Count = Len(doc.level)
                          /\ \A k \in 1..Count :
                               /\ start[k] = doc.level[k].at
                               /\ bound[k] = OwnValues(doc.level[k])
      BY DEF EveryLevelBound, OwnValues
    <2>2. Aligned /\ Bound /\ Len(bound) = MaxLevels /\ WellFormed(doc)
      BY <1>1, <2>1 DEF IInv, Settled, Progress
    <2>3. Levels(doc) = 1..Len(doc.level) /\ Len(doc.level) \in Nat
      BY <2>2, LevelIndices
    <2>4. \A k \in Levels(doc) : k \in DOMAIN bound
      BY <2>2, <2>3, TcbAssumption DEF Aligned, Bound
    <2>5. QED
      BY <2>2, <2>3, <2>4 DEF Aligned, Bound
  <1>2. QED
    BY <1>1, Invariance, PTL

(* The accepted severity is that of the first level the platform satisfies. *)
THEOREM VerdictAlwaysCanonical == Spec => []CanonicalVerdict
  <1>1. IInv => CanonicalVerdict
    BY DEF IInv, Decided
  <1>2. QED
    BY <1>1, Invariance, PTL
--------------------------------------------------------------------------------
(* Least and greatest elements.                                             *)

LEMMA SmallestIn ==
  ASSUME NEW S \in SUBSET Nat, S # {}
  PROVE  Smallest(S) \in S /\ \A y \in S : Smallest(S) <= y
  <1>1. PICK x \in S : \A y \in S : ~(<<y, x>> \in OpToRel(<, Nat))
    BY WFMin, NatLessThanWellFounded
  <1>2. \A y \in S : ~(y < x)
    BY <1>1 DEF OpToRel
  <1>3. \A y \in S : x <= y
    BY <1>2
  <1>4. QED
    BY <1>3 DEF Smallest

(* The greatest element is the least upper bound.                           *)
LEMMA LargestIn ==
  ASSUME NEW S \in SUBSET Nat, S # {}, NEW b \in Nat, \A x \in S : x <= b
  PROVE  Largest(S) \in S /\ \A y \in S : y <= Largest(S)
  <1> DEFINE U == {n \in Nat : \A x \in S : x <= n}
  <1>1. U \in SUBSET Nat /\ U # {}
    OBVIOUS
  <1>2. PICK m \in U : \A y \in U : m <= y
    BY <1>1, SmallestIn
  <1>3. m \in S
    <2>1. SUFFICES ASSUME m \notin S PROVE FALSE
      OBVIOUS
    <2>2. \A x \in S : x < m
      BY <1>2, <2>1
    <2>3. m \in Nat /\ m - 1 \in Nat /\ \A x \in S : x <= m - 1
      <3>1. PICK x \in S : x \in Nat
        OBVIOUS
      <3>2. m \in Nat /\ x < m
        BY <1>2, <2>2, <3>1
      <3>3. QED
        BY <2>2, <3>1, <3>2
    <2>4. m - 1 \in U
      BY <2>3
    <2>5. m <= m - 1
      BY <1>2, <2>4
    <2>6. QED
      BY <2>3, <2>5
  <1>4. QED
    BY <1>2, <1>3 DEF Largest

(* A status literal has a position.                                         *)
LEMMA StatusPosition ==
  ASSUME WellFormed(doc), NEW s \in Statuses(doc)
  PROVE  s.at \in Nat
  BY FieldOrder DEF Statuses, WellFormed, Levels

--------------------------------------------------------------------------------
(* Prefix counts.                                                           *)

(* Two reads of the prefix count agree iff no status literal starts between *)
(* them: before a signed status, every literal is signed.                   *)
LEMMA CountsAgree ==
  ASSUME WellFormed(doc), NEW lo \in Nat, NEW st \in Nat, lo <= st, Signed(st)
  PROVE  (StatusCum(st) = StatusCum(lo)) <=> (\A q \in Span(lo, st) : ~StatusAt(q))
  <1> DEFINE A == {q \in Span(0, lo) : StatusAt(q) /\ Signed(q)}
             B == {q \in Span(0, st) : StatusAt(q) /\ Signed(q)}
  <1>1. IsFiniteSet(B)
    <2>1. B \in SUBSET (0 .. (st - 1)) /\ IsFiniteSet(0 .. (st - 1))
      BY FS_Interval DEF Span
    <2>2. QED
      BY <2>1, FS_Subset
  <1>2. A \in SUBSET B
    BY DEF Span
  <1>3. Cardinality(A) = Cardinality(B) <=> A = B
    BY <1>1, <1>2, FS_Subset
  <1>4. \A q \in Span(lo, st) : Signed(q)
    BY LevelIndices DEF Span, Signed, Width
  <1>5. A = B <=> \A q \in Span(lo, st) : ~StatusAt(q)
    <2>1. ASSUME A = B, NEW q \in Span(lo, st), StatusAt(q) PROVE FALSE
      <3>1. q \in B
        BY <1>4, <2>1 DEF Span
      <3>2. QED
        BY <2>1, <3>1 DEF Span
    <2>2. ASSUME \A q \in Span(lo, st) : ~StatusAt(q), NEW q \in B PROVE q \in A
      <3>1. q \notin Span(lo, st)
        BY <2>2
      <3>2. q \in Span(0, lo)
        BY <3>1 DEF Span
      <3>3. QED
        BY <3>2
    <2>3. QED
      BY <1>2, <2>1, <2>2
  <1>6. StatusCum(st) = Cardinality(B) /\ StatusCum(lo) = Cardinality(A)
    BY DEF StatusCum
  <1> HIDE DEF A, B
  <1>7. QED
    BY <1>3, <1>5, <1>6

--------------------------------------------------------------------------------
(* The hosts.                                                               *)

(* The level literals behind the last array are all the levels or none, so  *)
(* the clamp does not change what the hosts refuse.                         *)
LEMMA FoundAllOrNone ==
  ASSUME WellFormed(doc), doc.arrays # {}, MaxLevels \in Nat \ {0}
  PROVE  (Cardinality(Found) >= HintedCount) <=> (Cardinality(Found) >= Len(doc.level))
  <1> DEFINE L == Len(doc.level)
  <1>1. L \in Nat /\ Levels(doc) = 1..L
    BY LevelIndices
  <1>2. HintedCount \in 0..L /\ (HintedCount = 0 => L = 0)
    BY <1>1 DEF HintedCount, Clamp
  <1>3. CASE Found = {}
    <2>1. Cardinality(Found) = 0
      BY <1>3, FS_EmptySet
    <2>2. QED
      BY <1>1, <1>2, <2>1
  <1>4. CASE Found # {}
    <2>1. PICK k \in Levels(doc) : doc.level[k].at >= ArrayOff
      BY <1>4 DEF Found
    <2>2. /\ doc.arrays \in SUBSET Nat /\ doc.size \in Nat
          /\ \A a \in doc.arrays : a <= doc.size
          /\ \A a \in doc.arrays : a < doc.level[1].at \/ a > doc.level[L].at
      BY <1>1, <2>1 DEF WellFormed, Width
    <2>3. ArrayOff \in doc.arrays
      BY <2>2, LargestIn DEF ArrayOff
    <2>4. /\ 1 \in Levels(doc) /\ L \in Levels(doc)
          /\ \A j \in Levels(doc) : doc.level[j].at \in Nat
      BY <1>1, FieldOrder
    <2>5. doc.level[k].at <= doc.level[L].at
      BY <1>1, <2>1, <2>4, StartsIncrease
    <2>6. ArrayOff < doc.level[1].at
      BY <2>1, <2>2, <2>3, <2>4, <2>5
    <2>7. \A j \in Levels(doc) : doc.level[1].at <= doc.level[j].at
      BY <1>1, <2>4, StartsIncrease
    <2>8. \A j \in Levels(doc) : doc.level[j].at >= ArrayOff
      BY <2>2, <2>3, <2>4, <2>6, <2>7
    <2>9. Found = {doc.level[j].at : j \in Levels(doc)}
      BY <2>8 DEF Found
    <2>10. Cardinality(Found) = L
      BY <2>9, TotalIsLength, SignedAnchors DEF Total
    <2>11. QED
      BY <1>2, <2>10
  <1>5. QED
    BY <1>3, <1>4

--------------------------------------------------------------------------------
(* From Noir to gnark.                                                      *)

(* The honest match index is a slot; a settled claim is the count.          *)
NInv == /\ IInv
        /\ hint # None => hint.idx \in Nat
        /\ pc \in {"bind", "select", "accepted"} => levelCount = Count

LEMMA CountKept ==
  ASSUME UNCHANGED start
  PROVE  Count' = Count
  BY DEF Count, Active

LEMMA WriteTcbBoundIsBuild ==
  ASSUME IInv, WriteTcbBound
  PROVE  Build /\ (hint' = hint \/ hint'.idx \in Nat)
  <1>1. WellFormed(doc) /\ MaxLevels \in Nat \ {0}
    BY TcbAssumption DEF IInv
  <1>2. doc.arrays # {} => ((Cardinality(Found) >= HintedCount)
                              <=> (Cardinality(Found) >= Len(doc.level)))
    BY <1>1, FoundAllOrNone
  <1>3. Build
    BY <1>2 DEF WriteTcbBound, Build
  <1>4. Candidates \in SUBSET (Nat \ {0})
    BY DEF Candidates
  <1>5. Candidates # {} => Smallest(Candidates) - 1 \in Nat
    <2>1. Candidates \in SUBSET Nat
      BY <1>4
    <2>2. Candidates # {} => Smallest(Candidates) \in Candidates
      BY <2>1, SmallestIn
    <2>3. \A c \in Candidates : c - 1 \in Nat
      BY <1>4
    <2>4. QED
      BY <2>2, <2>3
  <1>6. QED
    BY <1>3, <1>5 DEF Build

LEMMA AnchorStartIsAnchorSlot ==
  ASSUME IInv, AnchorStart
  PROVE  AnchorSlot
  <1> PICK n \in Nat : n = Len(start)
    BY DEF IInv, Anchored
  <1>1. start \in Seq(Nat) /\ (start = <<>> <=> n = 0)
    BY DEF IInv, Anchored
  <1>2. PICK s \in Anchors(doc) :
          /\ Signed(s)
          /\ IF n + 1 = 1
             THEN s - Width \in doc.arrays /\ s - Width \in Offered(hint.array, Positions)
             ELSE Monotonic(n + 1, s) /\ s \in Offered(Hinted(n + 1).start, Positions)
          /\ start' = Append(start, s)
    BY DEF AnchorStart
  <1>3. Follows(s)
    BY <1>1, <1>2 DEF Follows, Monotonic
  <1>4. QED
    BY <1>2, <1>3 DEF AnchorStart, AnchorSlot, LastSlot

LEMMA BindOneLevelIsBindSlot ==
  ASSUME IInv, BindOneLevel
  PROVE  BindSlot
  <1> PICK i \in Nat \ {0} : i = Len(bound) + 1
    BY DEF IInv, Bound
  <1>1. /\ WellFormed(doc) /\ start \in Seq(Nat) /\ Len(start) = MaxLevels
        /\ i <= MaxLevels /\ MaxLevels \in Nat \ {0} /\ doc.len \in Nat /\ pc = "bind"
    BY TcbAssumption, LevelIndices DEF IInv, Anchored, Progress, Bound, BindOneLevel
  <1>2. start[i] \in Nat /\ EndOf(i) \in Nat
    BY <1>1 DEF EndOf
  <1>3. PICK own \in Levels(doc), other \in Levels(doc), s \in Statuses(doc) :
          LET pceOff == doc.level[own].pceAt
              tdxOff == doc.level[other].tdxAt
          IN  /\ pceOff >= start[i] /\ pceOff < EndOf(i)
              /\ s.at >= start[i] /\ s.at < EndOf(i)
              /\ tdxOff >= pceOff /\ tdxOff < s.at
              /\ Active(i) => StatusCum(s.at) = StatusCum(start[i])
              /\ Signed(pceOff) /\ Signed(tdxOff) /\ Signed(s.at)
              /\ pceOff \in Offered(Hinted(i).pce, Positions)
              /\ tdxOff \in Offered(Hinted(i).tdx, Positions)
              /\ s.at \in Offered(Hinted(i).status, Positions)
              /\ bound' = Append(bound, [sgx |-> doc.level[Owner(start[i])].sgx,
                                         pce |-> doc.level[own].pce,
                                         tdx |-> doc.level[other].tdx, sev |-> s.sev])
    BY DEF BindOneLevel
  <1>4. s.at \in Nat /\ doc.level[own].pceAt \in Nat /\ doc.level[other].tdxAt \in Nat
    BY <1>1, FieldOrder, StatusPosition
  <1>5. FirstStatus(start[i], s.at, Active(i))
    BY <1>1, <1>2, <1>3, <1>4, CountsAgree DEF FirstStatus
  <1>6. {doc.level[own].pceAt, s.at} \subseteq Span(start[i], EndOf(i))
    BY <1>2, <1>3, <1>4 DEF Span
  <1>7. TdxInside(doc.level[own].pceAt, doc.level[other].tdxAt, s.at)
    BY <1>3, <1>4 DEF TdxInside, Span
  <1>8. /\ UNCHANGED <<doc, hint, start, verdict>>
        /\ pc' = IF LastSlot(i) THEN "select" ELSE "bind"
    BY DEF BindOneLevel, LastSlot
  <1>9. QED
    BY <1>1, <1>3, <1>5, <1>6, <1>7, <1>8 DEF BindSlot

LEMMA SelectCanonicalIsSelect ==
  ASSUME NInv, SelectCanonical
  PROVE  Select
  <1>1. /\ Aligned /\ levelCount = Count /\ MaxLevels \in Nat \ {0} /\ pc = "select"
        /\ Len(doc.level) \in Nat
    BY TcbAssumption, LevelIndices DEF NInv, IInv, Settled, SelectCanonical
  <1>2. Count \in Nat /\ Count <= MaxLevels
    BY <1>1 DEF Aligned
  <1>3. PICK x \in Offered(hint.idx, 0 .. (MaxLevels + 1)) :
          /\ BelowCount(x)
          /\ \A m \in Span(0, MaxLevels) :
               /\ m = x => Satisfied(bound[m + 1])
               /\ ~(m < levelCount /\ m < x /\ Satisfied(bound[m + 1]))
          /\ verdict' = IF x \in Span(0, MaxLevels) THEN bound[x + 1].sev ELSE 0
    BY DEF SelectCanonical
  <1>4. x \in Nat
    BY <1>1, <1>3 DEF Offered, NInv
  <1>5. x <= Count - 1 /\ SlotNumber(x)
    BY <1>1, <1>2, <1>3, <1>4 DEF BelowCount, SlotNumber, Span
  <1>6. x \in Offered(hint.idx, -1 .. MaxLevels)
    <2>1. x \in -1 .. MaxLevels
      BY <1>1, <1>2, <1>4, <1>5
    <2>2. QED
      BY <1>3, <2>1 DEF Offered
  <1>7. FirstSatisfied(x)
    BY <1>1, <1>2, <1>3, <1>4, <1>5 DEF FirstSatisfied, Span
  <1>8. QED
    BY <1>3, <1>5, <1>6, <1>7 DEF SelectCanonical, Select

(* A step of the Noir circuit is a step of the gnark circuit, and keeps the *)
(* claim settled.                                                           *)
LEMMA NoirStep ==
  ASSUME NInv, [NoirNext]_noirVars
  PROVE  [Next]_vars /\ NInv'
  <1>1. IInv
    BY DEF NInv
  <1>2. ASSUME [Next]_vars PROVE IInv'
    BY <1>1, <1>2, BuildStep, AnchorSlotStep, CheckCountStep, BindSlotStep, SelectStep,
       StutterStep DEF Next
  <1>3. CASE WriteTcbBound
    <2>1. Build /\ (hint' = hint \/ hint'.idx \in Nat)
      BY <1>1, <1>3, WriteTcbBoundIsBuild
    <2>2. pc' \in {"anchor", "failed"}
      BY <1>3 DEF WriteTcbBound
    <2>3. QED
      BY <1>2, <2>1, <2>2 DEF NInv, Next
  <1>4. CASE AnchorStart
    <2>1. AnchorSlot
      BY <1>1, <1>4, AnchorStartIsAnchorSlot
    <2>2. hint' = hint /\ pc' \in {"count", "anchor"}
      BY <1>4 DEF AnchorStart
    <2>3. QED
      BY <1>2, <2>1, <2>2 DEF NInv, Next
  <1>5. CASE CheckCounts
    <2>1. CheckCount /\ UNCHANGED <<hint, start, levelCount>> /\ levelCount = Count
      BY <1>5 DEF CheckCounts, CheckCount, ClaimHolds
    <2>2. QED
      BY <1>2, <2>1, CountKept DEF NInv, Next
  <1>6. CASE BindOneLevel
    <2>1. BindSlot /\ UNCHANGED <<hint, start, levelCount>> /\ pc = "bind"
      BY <1>1, <1>6, BindOneLevelIsBindSlot DEF BindOneLevel
    <2>2. QED
      BY <1>2, <2>1, CountKept DEF NInv, Next
  <1>7. CASE SelectCanonical
    <2>1. Select /\ UNCHANGED <<hint, start, levelCount>> /\ pc = "select"
      BY <1>7, SelectCanonicalIsSelect DEF SelectCanonical
    <2>2. QED
      BY <1>2, <2>1, CountKept DEF NInv, Next
  <1>8. CASE UNCHANGED noirVars
    <2>1. UNCHANGED vars /\ UNCHANGED <<hint, start, pc, levelCount>>
      BY <1>8 DEF noirVars, vars
    <2>2. QED
      BY <1>2, <2>1, CountKept DEF NInv
  <1>9. QED
    BY <1>3, <1>4, <1>5, <1>6, <1>7, <1>8 DEF NoirNext

LEMMA NoirStart ==
  ASSUME NoirInit
  PROVE  Init /\ NInv
  <1>1. Init /\ hint = None /\ pc \in {"build", "anchor"}
    BY DEF NoirInit, Init
  <1>2. QED
    BY <1>1, InitIInv DEF NInv

(* The Noir circuit, with the hints of any host, implements the gnark one.  *)
THEOREM NoirImplementsGnark == NoirSpec => ImplementsGnark
  <1>1. NoirSpec => []NInv
    BY NoirStart, NoirStep, PTL DEF NoirSpec
  <1>2. QED
    BY <1>1, NoirStart, NoirStep, PTL DEF NoirSpec, ImplementsGnark, Spec

(* So it binds every level of the signed document ...                       *)
THEOREM NoirBindsEveryLevel == NoirSpec => []EveryLevelBound
  BY NoirImplementsGnark, EveryLevelAlwaysBound, PTL DEF ImplementsGnark

(* ... and accepts only the first level the platform satisfies.             *)
THEOREM NoirVerdictCanonical == NoirSpec => []CanonicalVerdict
  BY NoirImplementsGnark, VerdictAlwaysCanonical, PTL DEF ImplementsGnark

--------------------------------------------------------------------------------
(* From gnark to Noir.                                                      *)

(* A gnark prover without a host, and the count that a Noir prover claims.  *)
GInv == /\ IInv
        /\ hint = None /\ pc \notin {"build", "failed"}
        /\ levelCount = HintedCount

LEMMA AnchorSlotIsAnchorStart ==
  ASSUME GInv, AnchorSlot, levelCount' = levelCount
  PROVE  AnchorStart
  <1> PICK n \in Nat : n = Len(start)
    BY DEF GInv, IInv, Anchored
  <1>1. start \in Seq(Nat) /\ (start = <<>> <=> n = 0)
    BY DEF GInv, IInv, Anchored
  <1>2. PICK p \in Anchors(doc) : /\ Signed(p) /\ Follows(p)
                                  /\ start' = Append(start, p)
                                  /\ pc' = IF LastSlot(n + 1) THEN "count" ELSE "anchor"
    BY DEF AnchorSlot
  <1>3. IF n + 1 = 1
        THEN p - Width \in doc.arrays /\ p - Width \in Offered(hint.array, Positions)
        ELSE Monotonic(n + 1, p) /\ p \in Offered(Hinted(n + 1).start, Positions)
    BY <1>1, <1>2 DEF Follows, Monotonic
  <1>4. QED
    BY <1>2, <1>3 DEF AnchorStart, AnchorSlot, LastSlot

LEMMA CheckCountIsCheckCounts ==
  ASSUME GInv, CheckCount, levelCount' = levelCount
  PROVE  CheckCounts
  <1>1. /\ WellFormed(doc) /\ Anchored /\ Prefix /\ Gapped /\ Len(start) = MaxLevels
        /\ MaxLevels \in Nat \ {0} /\ Count = Total
    BY TcbAssumption DEF GInv, IInv, Progress, CheckCount
  <1>2. Count = Len(doc.level) /\ Len(doc.level) <= MaxLevels
    BY <1>1, Alignment DEF Aligned
  <1>3. ClaimHolds(levelCount)
    BY <1>1, <1>2, LevelIndices DEF GInv, ClaimHolds, HintedCount, Clamp
  <1>4. QED
    BY <1>3 DEF CheckCount, CheckCounts

LEMMA BindSlotIsBindOneLevel ==
  ASSUME GInv, BindSlot, levelCount' = levelCount
  PROVE  BindOneLevel
  <1> PICK i \in Nat \ {0} : i = Len(bound) + 1
    BY DEF GInv, IInv, Bound
  <1>1. /\ WellFormed(doc) /\ start \in Seq(Nat) /\ Len(start) = MaxLevels
        /\ i <= MaxLevels /\ MaxLevels \in Nat \ {0} /\ doc.len \in Nat /\ pc = "bind"
    BY TcbAssumption, LevelIndices DEF GInv, IInv, Anchored, Progress, Bound, BindSlot
  <1>2. start[i] \in Nat /\ EndOf(i) \in Nat
    BY <1>1 DEF EndOf
  <1>3. PICK own \in Levels(doc), other \in Levels(doc), s \in Statuses(doc) :
          LET pce == doc.level[own].pceAt
              tdx == doc.level[other].tdxAt
          IN  /\ pce \in Span(start[i], EndOf(i)) /\ s.at \in Span(start[i], EndOf(i))
              /\ pce \in Offered(Hinted(i).pce, Positions) /\ Signed(pce)
              /\ tdx \in Offered(Hinted(i).tdx, Positions) /\ Signed(tdx)
              /\ s.at \in Offered(Hinted(i).status, Positions) /\ Signed(s.at)
              /\ FirstStatus(start[i], s.at, Active(i))
              /\ TdxInside(pce, tdx, s.at)
              /\ bound' = Append(bound, [sgx |-> doc.level[Owner(start[i])].sgx,
                                         pce |-> doc.level[own].pce,
                                         tdx |-> doc.level[other].tdx, sev |-> s.sev])
    BY DEF BindSlot
  <1>4. s.at \in Nat /\ doc.level[own].pceAt \in Nat /\ doc.level[other].tdxAt \in Nat
    BY <1>1, FieldOrder, StatusPosition
  <1>5. /\ doc.level[own].pceAt >= start[i] /\ doc.level[own].pceAt < EndOf(i)
        /\ s.at >= start[i] /\ s.at < EndOf(i)
    BY <1>2, <1>3, <1>4 DEF Span
  <1>6. /\ doc.level[other].tdxAt >= doc.level[own].pceAt
        /\ doc.level[other].tdxAt < s.at
    BY <1>3, <1>4 DEF TdxInside, Span
  <1>7. Active(i) => StatusCum(s.at) = StatusCum(start[i])
    BY <1>1, <1>2, <1>3, <1>4, <1>5, CountsAgree DEF FirstStatus
  <1>8. /\ UNCHANGED <<doc, hint, start, verdict, levelCount>>
        /\ pc' = IF i = MaxLevels THEN "select" ELSE "bind"
    BY DEF BindSlot, LastSlot
  <1>9. QED
    BY <1>1, <1>3, <1>5, <1>6, <1>7, <1>8 DEF BindOneLevel

LEMMA SelectIsSelectCanonical ==
  ASSUME GInv, Select, levelCount' = levelCount
  PROVE  SelectCanonical
  <1>1. /\ Aligned /\ MaxLevels \in Nat \ {0} /\ Len(doc.level) \in Nat /\ hint = None
    BY TcbAssumption, LevelIndices DEF GInv, IInv, Settled, Select
  <1>2. Count \in Nat /\ Count <= MaxLevels /\ levelCount = Count
    BY <1>1 DEF Aligned, GInv, HintedCount, Clamp
  <1>3. PICK x : /\ SlotNumber(x) /\ x <= Count - 1
                 /\ \A m \in Span(0, MaxLevels) : m = x => Satisfied(bound[m + 1])
                 /\ FirstSatisfied(x)
                 /\ verdict' = IF x \in Span(0, MaxLevels) THEN bound[x + 1].sev ELSE 0
    BY DEF Select
  <1>4. x \in Nat /\ x < MaxLevels
    BY <1>1, <1>3 DEF SlotNumber, Span
  <1>5. BelowCount(x) /\ x \in Offered(hint.idx, 0 .. (MaxLevels + 1))
    BY <1>1, <1>2, <1>3, <1>4 DEF BelowCount, Offered
  <1>6. \A m \in Span(0, MaxLevels) : ~(m < levelCount /\ m < x /\ Satisfied(bound[m + 1]))
    BY <1>1, <1>2, <1>3, <1>4 DEF FirstSatisfied, Span
  <1>7. QED
    BY <1>3, <1>5, <1>6 DEF Select, SelectCanonical

LEMMA GnarkStep ==
  ASSUME GInv, [Next]_vars, [levelCount' = levelCount]_noirVars
  PROVE  [NoirNext]_noirVars /\ GInv'
  <1>1. levelCount' = levelCount
    BY DEF noirVars
  <1>2. IInv'
    BY BuildStep, AnchorSlotStep, CheckCountStep, BindSlotStep, SelectStep, StutterStep
       DEF GInv, Next
  <1>3. hint' = hint /\ doc' = doc /\ pc' \notin {"build", "failed"}
    BY DEF GInv, Next, Build, AnchorSlot, CheckCount, BindSlot, Select, vars
  <1>4. GInv'
    BY <1>1, <1>2, <1>3 DEF GInv, HintedCount, Clamp
  <1>5. CASE UNCHANGED vars
    BY <1>1, <1>4, <1>5 DEF noirVars
  <1>6. CASE Next
    <2>1. ~Build
      BY DEF GInv, Build
    <2>2. NoirNext
      BY <1>1, <1>6, <2>1, AnchorSlotIsAnchorStart, CheckCountIsCheckCounts,
         BindSlotIsBindOneLevel, SelectIsSelectCanonical DEF Next, NoirNext
    <2>3. QED
      BY <1>4, <2>2
  <1>7. QED
    BY <1>5, <1>6

(* The rewriting refuses nothing: whatever an arbitrary prover gets accepted *)
(* by the gnark circuit, it gets accepted by the Noir circuit, step by step, *)
(* if it claims the clamped count.                                          *)
THEOREM GnarkImplementsNoir ==
  Spec /\ pc = "anchor" /\ levelCount = HintedCount /\ [][levelCount' = levelCount]_noirVars
    => NoirSpec
  <1>1. ASSUME Init, pc = "anchor", levelCount = HintedCount PROVE NoirInit /\ GInv
    <2>1. hint = None /\ WellFormed(doc) /\ MaxLevels \in Nat \ {0}
      BY <1>1, TcbAssumption DEF Init
    <2>2. HintedCount \in 0 .. (MaxLevels + 1)
      BY <2>1, LevelIndices DEF HintedCount, Clamp
    <2>3. QED
      BY <1>1, <2>1, <2>2, InitIInv DEF NoirInit, GInv
  <1>2. QED
    BY <1>1, GnarkStep, PTL DEF Spec, NoirSpec
================================================================================
