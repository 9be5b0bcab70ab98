---------------------------- MODULE QeLevelsProofs -----------------------------
(***************************************************************************)
(* Proofs about QeLevels and NoirQeLevels, for every set of documents with *)
(* any number of levels, every number of slots, every witness and every    *)
(* host.                                                                   *)
(*                                                                         *)
(* Slot 0 is not pinned, but every slot starts at some level, and an       *)
(* active slot has that level's own threshold and status, because its      *)
(* status is the first one behind its start (OwnStatus).  Which level it   *)
(* is follows from counting, as in TcbLevels: between two active slots lie *)
(* at least as many levels as slots (Gapped), so if the active slots are   *)
(* as many as the signed level literals, slot k is level k (Alignment).    *)
(* The claim is compared only then, and nothing before depends on it.      *)
(***************************************************************************)
EXTENDS NoirQeLevels, TLAPS, FiniteSetTheorems, WellFoundedInduction

--------------------------------------------------------------------------------
(* The inductive invariant.                                                 *)

SlotType == [at : Nat, st : Nat, sat : BOOLEAN, sev : Severities]

(* What a slot that is level a should hold.                                 *)
Own(a) == [at |-> doc.level[a].at, st |-> doc.level[a].stAt,
           sat |-> doc.level[a].sat, sev |-> doc.level[a].sev]

Progress ==
  /\ pc \in {"build", "bind", "count", "match", "accepted", "failed"}
  /\ pc \in {"build", "failed"} => hint = None /\ slot = <<>>
  /\ pc \notin {"build", "failed"} => claimed \in Nat
  /\ pc = "bind" => Len(slot) < MaxQeLevels
  /\ pc \in {"count", "match", "accepted"} => Len(slot) = MaxQeLevels

Anchored ==
  /\ slot \in Seq(SlotType) /\ Len(slot) <= MaxQeLevels
  /\ \A k \in DOMAIN slot : \E a \in Levels(doc) : slot[k].at = doc.level[a].at

Upto(c) == \A i \in DOMAIN slot : Active(i) <=> i <= c
Prefix == \E c \in 0..Len(slot) : Upto(c)

Gap(j, k) == \A a, b \in Levels(doc) :
               slot[j].at = doc.level[a].at /\ slot[k].at = doc.level[b].at => b - a >= k - j
Gapped == \A j, k \in DOMAIN slot : j <= k /\ Active(k) => Gap(j, k)

(* An active slot is some level as a whole.                                 *)
Whole == \A k \in DOMAIN slot, a \in Levels(doc) :
           Active(k) /\ slot[k].at = doc.level[a].at => slot[k] = Own(a)

(* What CheckCount establishes.                                             *)
Aligned == /\ Len(doc.level) <= MaxQeLevels
           /\ Count = Len(doc.level) /\ claimed = Len(doc.level)
           /\ \A k \in DOMAIN slot : Active(k) <=> k \in Levels(doc)
           /\ \A k \in Levels(doc) : slot[k] = Own(k)
Settled == pc \in {"match", "accepted"} => Aligned

(* A host's witness is the document's, and the slots bound so far are its.  *)
HostInv == hint # None =>
  /\ Candidates # {}
  /\ hint.slot = [i \in 1..MaxQeLevels |-> SlotHint(i)]
  /\ hint.idx = Smallest(Candidates) - 1
  /\ \A k \in DOMAIN slot : slot[k] = hint.slot[k]

IInv == /\ WellFormed(doc) /\ platform \in Severities
        /\ Progress /\ Anchored /\ Prefix /\ Gapped /\ Whole /\ Settled
        /\ HostInv /\ MergedVerdict

--------------------------------------------------------------------------------
(* Documents.                                                               *)

(* The levels are numbered from 1.                                          *)
LEMMA LevelIndices ==
  ASSUME WellFormed(doc)
  PROVE  /\ doc.len \in Nat /\ doc.level \in Seq(LevelType)
         /\ Len(doc.level) \in Nat /\ Levels(doc) = 1..Len(doc.level)
         /\ DOMAIN doc.level = Levels(doc)
  <1>1. doc.len \in Nat /\ doc.level \in Seq(LevelType)
    BY DEF WellFormed
  <1>2. QED
    BY <1>1 DEF Levels

(* A level's status is behind its start and inside the signed prefix.       *)
LEMMA FieldOrder ==
  ASSUME WellFormed(doc), NEW k \in Levels(doc)
  PROVE  /\ k \in Nat \ {0} /\ doc.level[k] \in LevelType
         /\ doc.level[k].at \in Nat /\ doc.level[k].stAt \in Nat
         /\ doc.level[k].at < doc.level[k].stAt
         /\ doc.level[k].stAt + Width <= doc.len
  <1>1. doc.level[k] \in LevelType /\ k \in Nat \ {0}
    BY LevelIndices
  <1>2. LET v == doc.level[k] IN
          v.at + Width <= v.stAt /\ v.stAt + Width <= doc.len
    BY LevelIndices DEF WellFormed
  <1>3. QED
    BY <1>1, <1>2 DEF LevelType, Width

(* A level ends before the next one starts.                                 *)
LEMMA LevelOrder ==
  ASSUME WellFormed(doc), NEW k \in Levels(doc), NEW j \in Levels(doc), k < j
  PROVE  doc.level[k].stAt < doc.level[j].at
  BY LevelIndices DEF WellFormed

(* A later level starts later, so a start names its level.                  *)
LEMMA StartsIncrease ==
  ASSUME WellFormed(doc), NEW a \in Levels(doc), NEW b \in Levels(doc)
  PROVE  /\ a \in Int /\ b \in Int
         /\ doc.level[a].at < doc.level[b].at <=> a < b
         /\ doc.level[a].at = doc.level[b].at <=> a = b
  <1>1. a \in Int /\ b \in Int
    BY FieldOrder
  <1>2. CASE a < b
    BY <1>1, <1>2, FieldOrder, LevelOrder
  <1>3. CASE b < a
    BY <1>1, <1>3, FieldOrder, LevelOrder
  <1>4. CASE a = b
    BY <1>1, <1>4, FieldOrder
  <1>5. QED
    BY <1>1, <1>2, <1>3, <1>4

(* Every status has a position and a severity.                              *)
LEMMA StatusTyped ==
  ASSUME WellFormed(doc), NEW s \in Statuses(doc)
  PROVE  s.at \in Nat /\ s.sev \in Severities
  <1>1. \A k \in Levels(doc) : doc.level[k].stAt \in Nat /\ doc.level[k].sev \in Severities
    BY FieldOrder DEF LevelType
  <1>2. doc.other \subseteq [at : Nat, sev : Severities]
    BY DEF WellFormed
  <1>3. QED
    BY <1>1, <1>2 DEF Statuses, Levels

(* A signed anchor is the start of a level.                                 *)
LEMMA SignedAnchors ==
  ASSUME WellFormed(doc)
  PROVE  {p \in Anchors(doc) : Signed(p)} = {doc.level[k].at : k \in Levels(doc)}
  <1>1. \A k \in Levels(doc) : Signed(doc.level[k].at)
    <2>1. SUFFICES ASSUME NEW k \in Levels(doc) PROVE Signed(doc.level[k].at)
      OBVIOUS
    <2>2. /\ doc.len \in Nat /\ doc.level[k].at \in Nat /\ doc.level[k].stAt \in Nat
          /\ doc.level[k].at < doc.level[k].stAt /\ doc.level[k].stAt + 2 <= doc.len
      BY FieldOrder, LevelIndices DEF Width
    <2>3. QED
      BY <2>2 DEF Signed, Width
  <1>2. \A p \in doc.tail : ~Signed(p)
    BY LevelIndices DEF WellFormed, Signed, Width
  <1>3. QED
    BY <1>1, <1>2 DEF Anchors

(* There are as many signed level literals as levels.                       *)
LEMMA TotalIsLength ==
  ASSUME WellFormed(doc)
  PROVE  Total = Len(doc.level)
  <1> DEFINE S == Levels(doc)
             T == {doc.level[k].at : k \in Levels(doc)}
             f == [k \in S |-> doc.level[k].at]
  <1>1. S = 1..Len(doc.level) /\ Len(doc.level) \in Nat
    BY LevelIndices
  <1>2. IsFiniteSet(S) /\ Cardinality(S) = Len(doc.level)
    BY <1>1, FS_Interval
  <1>3. f \in [S -> T]
    OBVIOUS
  <1>4. \A a, b \in S : f[a] = f[b] => a = b
    BY StartsIncrease
  <1>5. \A t \in T : \E s \in S : f[s] = t
    OBVIOUS
  <1> HIDE DEF S, T, f
  <1>6. DOMAIN f = S
    BY <1>3
  <1>7. f \in Injection(S, T)
    BY <1>3, <1>4, <1>6 DEF Injection, IsInjective
  <1>8. f \in Surjection(S, T)
    BY <1>3, <1>5 DEF Surjection
  <1>9. ExistsBijection(S, T)
    BY <1>7, <1>8 DEF ExistsBijection, Bijection
  <1>10. Cardinality(T) = Cardinality(S)
    BY <1>2, <1>9, FS_Bijection
  <1>11. QED
    BY <1>2, <1>10, SignedAnchors DEF Total, S, T

(* The first status behind the start of a level is the level's own.         *)
LEMMA OwnStatus ==
  ASSUME WellFormed(doc), NEW a \in Levels(doc), NEW s \in Statuses(doc),
         doc.level[a].at < s.at, \A q \in Span(doc.level[a].at, s.at) : ~StatusAt(q)
  PROVE  s.at = doc.level[a].stAt /\ s.sev = doc.level[a].sev
  <1>1. /\ doc.level[a].at \in Nat /\ doc.level[a].stAt \in Nat /\ s.at \in Nat
        /\ doc.level[a].at < doc.level[a].stAt
    BY FieldOrder, StatusTyped
  <1>2. s.at <= doc.level[a].stAt
    <2>1. StatusAt(doc.level[a].stAt)
      <3>1. [at |-> doc.level[a].stAt, sev |-> doc.level[a].sev] \in Statuses(doc)
        BY DEF Statuses, Levels
      <3>2. QED
        BY <3>1 DEF StatusAt
    <2>2. doc.level[a].stAt \notin Span(doc.level[a].at, s.at)
      BY <2>1
    <2>3. QED
      BY <1>1, <2>2 DEF Span
  <1>3. \/ \E k \in Levels(doc) : s = [at |-> doc.level[k].stAt, sev |-> doc.level[k].sev]
        \/ s \in doc.other
    BY DEF Statuses, Levels
  <1>4. CASE s \in doc.other
    <2>1. s.at \in doc.level[a].at .. doc.level[a].stAt
      BY <1>1, <1>2
    <2>2. s = [at |-> doc.level[a].stAt, sev |-> doc.level[a].sev]
      BY <1>4, <2>1 DEF WellFormed, Levels
    <2>3. QED
      BY <2>2
  <1>5. ASSUME NEW k \in Levels(doc), s = [at |-> doc.level[k].stAt, sev |-> doc.level[k].sev]
        PROVE  s.at = doc.level[a].stAt /\ s.sev = doc.level[a].sev
    <2>1. s.at = doc.level[k].stAt /\ s.sev = doc.level[k].sev
      BY <1>5
    <2>2. doc.level[k].at \in Nat /\ doc.level[k].at < doc.level[k].stAt
      BY FieldOrder
    <2>3. ~(k < a)
      BY <1>1, <2>1, LevelOrder
    <2>4. ~(a < k)
      <3>1. a < k => doc.level[a].stAt < doc.level[k].at
        BY LevelOrder
      <3>2. QED
        BY <1>1, <1>2, <2>1, <2>2, <3>1
    <2>5. k = a
      BY <2>3, <2>4, FieldOrder
    <2>6. QED
      BY <2>1, <2>5
  <1>6. QED
    BY <1>3, <1>4, <1>5

(* An active slot is compared with its own level, whole.                    *)
LEMMA BoundToOwn ==
  ASSUME WellFormed(doc), NEW a \in Levels(doc), NEW s \in Statuses(doc),
         doc.level[a].at < s.at, \A q \in Span(doc.level[a].at, s.at) : ~StatusAt(q)
  PROVE  BoundTo(doc.level[a].at, s) = Own(a)
  <1>1. LevelAt(doc.level[a].at) = doc.level[a]
    <2>1. \A k \in Levels(doc) : doc.level[k].at = doc.level[a].at <=> k = a
      BY StartsIncrease
    <2>2. QED
      BY <2>1 DEF LevelAt
  <1>2. s.at = doc.level[a].stAt /\ s.sev = doc.level[a].sev
    BY OwnStatus
  <1>3. QED
    BY <1>1, <1>2 DEF BoundTo, Own

(* The levels as slots.                                                     *)
LEMMA OwnTyped ==
  ASSUME WellFormed(doc), NEW a \in Levels(doc)
  PROVE  Own(a) \in SlotType
  BY FieldOrder DEF Own, SlotType, LevelType

--------------------------------------------------------------------------------
(* Slots.                                                                   *)

(* The count of active slots is the length of their prefix.                 *)
LEMMA CountIsPrefix ==
  ASSUME Anchored, NEW c \in 0..Len(slot), Upto(c)
  PROVE  Count = c
  <1>1. DOMAIN slot = 1..Len(slot) /\ Len(slot) \in Nat
    BY DEF Anchored
  <1>2. {i \in DOMAIN slot : Active(i)} = 1..c
    BY <1>1 DEF Upto
  <1>3. Cardinality(1..c) = c
    BY FS_Interval, <1>1
  <1>4. QED
    BY <1>2, <1>3 DEF Count

(* With as many active slots as levels, slot k is level k.                  *)
LEMMA Alignment ==
  ASSUME WellFormed(doc), Anchored, Prefix, Gapped, Whole, MaxQeLevels \in Nat \ {0},
         Len(slot) = MaxQeLevels, Count = claimed, Count = Total
  PROVE  Aligned
  <1> DEFINE L == Len(doc.level)
  <1>1. PICK c \in 0..Len(slot) : Upto(c)
    BY DEF Prefix
  <1>2. Count = L /\ c = L
    BY <1>1, CountIsPrefix, TotalIsLength
  <1>3. /\ Levels(doc) = 1..L /\ L \in Nat /\ L <= MaxQeLevels
        /\ DOMAIN slot = 1..Len(slot)
    BY <1>2, LevelIndices DEF Anchored
  <1>4. \A k \in DOMAIN slot : Active(k) <=> k \in Levels(doc)
    BY <1>1, <1>2, <1>3 DEF Upto
  <1>5. ASSUME NEW k \in Levels(doc) PROVE slot[k] = Own(k)
    <2>1. {1, k, L} \subseteq DOMAIN slot /\ Active(k) /\ Active(L) /\ 1 <= k /\ k <= L
      BY <1>3, <1>4
    <2>2. PICK a \in Levels(doc) : slot[1].at = doc.level[a].at
      BY <2>1 DEF Anchored
    <2>3. PICK b \in Levels(doc) : slot[k].at = doc.level[b].at
      BY <2>1 DEF Anchored
    <2>4. PICK d \in Levels(doc) : slot[L].at = doc.level[d].at
      BY <2>1 DEF Anchored
    <2>5. b - a >= k - 1
      BY <2>1, <2>2, <2>3 DEF Gapped, Gap
    <2>6. d - b >= L - k
      BY <2>1, <2>3, <2>4, <1>3 DEF Gapped, Gap
    <2>7. b = k
      BY <2>5, <2>6, <1>3
    <2>8. QED
      BY <2>1, <2>3, <2>7 DEF Whole
  <1>6. QED
    BY <1>2, <1>3, <1>4, <1>5 DEF Aligned

(* Where a new slot starts and what it holds if it is active.               *)
NewSlot(p, v) ==
  /\ v \in SlotType /\ v.at = p /\ slot' = Append(slot, v) /\ Follows(p)
  /\ \E a \in Levels(doc) : p = doc.level[a].at
  /\ \A a \in Levels(doc) :
       p = doc.level[a].at /\ (slot # <<>> => p # slot[Len(slot)].at) => v = Own(a)

(* The sequence with a new slot.                                            *)
LEMMA Appended ==
  ASSUME Anchored, NEW p, NEW v, NewSlot(p, v), NEW n \in Nat, n = Len(slot)
  PROVE  /\ slot' \in Seq(SlotType) /\ Len(slot') = n + 1
         /\ DOMAIN slot = 1..n /\ DOMAIN slot' = 1..(n + 1)
         /\ \A i \in 1..n : slot'[i] = slot[i] /\ slot[i].at \in Nat /\ (Active(i)' <=> Active(i))
         /\ slot'[n + 1] = v /\ p \in Nat
         /\ Active(n + 1)' <=> (slot # <<>> => p # slot[n].at)
         /\ slot = <<>> <=> n = 0
  <1>1. v \in SlotType /\ v.at = p /\ p \in Nat /\ slot \in Seq(SlotType)
    BY DEF NewSlot, SlotType, Anchored
  <1>2. slot' = Append(slot, v)
    BY DEF NewSlot
  <1>3. /\ slot' \in Seq(SlotType) /\ Len(slot') = n + 1
        /\ DOMAIN slot = 1..n /\ DOMAIN slot' = 1..(n + 1)
        /\ \A i \in 1..n : slot'[i] = slot[i] /\ slot[i] \in SlotType
        /\ slot'[n + 1] = v
        /\ slot = <<>> <=> n = 0
    BY <1>1, <1>2
  <1>4. \A i \in 1..n : slot[i].at \in Nat
    BY <1>3 DEF SlotType
  <1>5. \A i \in 1..n : Active(i)' <=> Active(i)
    BY <1>3 DEF Active
  <1>6. Active(n + 1)' <=> (slot # <<>> => p # slot[n].at)
    BY <1>1, <1>3 DEF Active
  <1>7. QED
    BY <1>1, <1>3, <1>4, <1>5, <1>6

(* A new slot keeps the active slots a prefix.                              *)
LEMMA PrefixGrows ==
  ASSUME Anchored, Prefix, NEW p, NEW v, NewSlot(p, v)
  PROVE  Prefix'
  <1> PICK n \in Nat : n = Len(slot)
    BY DEF Anchored
  <1>1. /\ Len(slot') = n + 1 /\ DOMAIN slot = 1..n /\ DOMAIN slot' = 1..(n + 1)
        /\ \A i \in 1..n : Active(i)' <=> Active(i)
        /\ Active(n + 1)' <=> (slot # <<>> => p # slot[n].at)
        /\ slot = <<>> <=> n = 0
    BY Appended
  <1>2. n > 0 /\ ~Active(n) => p = slot[n].at
    BY <1>1 DEF NewSlot, Follows
  <1>3. PICK c \in 0..n : Upto(c)
    BY DEF Prefix
  <1>4. CASE Active(n + 1)'
    <2>1. n > 0 => Active(n)
      BY <1>1, <1>2, <1>4
    <2>2. c = n
      BY <1>1, <1>3, <2>1 DEF Upto
    <2>3. Upto(n + 1)'
      BY <1>1, <1>3, <1>4, <2>2 DEF Upto
    <2>4. QED
      BY <1>1, <2>3 DEF Prefix
  <1>5. CASE ~Active(n + 1)'
    <2>1. Upto(c)'
      BY <1>1, <1>3, <1>5 DEF Upto
    <2>2. QED
      BY <1>1, <1>3, <2>1 DEF Prefix
  <1>6. QED
    BY <1>4, <1>5

(* A new active slot starts beyond the one before it, hence at a later level.*)
LEMMA GapGrows ==
  ASSUME WellFormed(doc), Anchored, Gapped, UNCHANGED doc, NEW p, NEW v, NewSlot(p, v)
  PROVE  Gapped'
  <1> PICK n \in Nat : n = Len(slot)
    BY DEF Anchored
  <1>1. /\ Len(slot') = n + 1 /\ DOMAIN slot = 1..n /\ DOMAIN slot' = 1..(n + 1)
        /\ \A i \in 1..n : slot'[i] = slot[i] /\ slot[i].at \in Nat /\ (Active(i)' <=> Active(i))
        /\ slot'[n + 1] = v /\ p \in Nat /\ v.at = p
        /\ Active(n + 1)' <=> (slot # <<>> => p # slot[n].at)
        /\ slot = <<>> <=> n = 0
    BY Appended DEF NewSlot
  <1>2. SUFFICES ASSUME NEW j \in 1..(n + 1), NEW k \in 1..(n + 1), j <= k, Active(k)',
                        NEW a \in Levels(doc), NEW b \in Levels(doc),
                        slot'[j].at = doc.level[a].at, slot'[k].at = doc.level[b].at
                 PROVE  b - a >= k - j
    BY <1>1 DEF Gapped, Gap, Levels
  <1>3. CASE k <= n
    <2>1. k \in 1..n /\ j \in 1..n
      BY <1>2, <1>3
    <2>2. Active(k) /\ slot[j].at = doc.level[a].at /\ slot[k].at = doc.level[b].at
      BY <1>1, <1>2, <2>1
    <2>3. QED
      BY <1>1, <1>2, <2>1, <2>2 DEF Gapped, Gap
  <1>4. CASE k = n + 1 /\ j = n + 1
    BY <1>2, <1>4, StartsIncrease
  <1>5. CASE k = n + 1 /\ j <= n
    <2>1. n > 0 /\ n \in 1..n /\ j \in 1..n /\ slot # <<>>
      BY <1>1, <1>2, <1>5
    <2>2. p # slot[n].at /\ p >= slot[n].at /\ Active(n)
      BY <1>1, <1>2, <1>5, <2>1 DEF NewSlot, Follows
    <2>3. PICK e \in Levels(doc) : slot[n].at = doc.level[e].at
      BY <1>1, <2>1 DEF Anchored
    <2>4. e < b
      <3>1. doc.level[b].at = p
        BY <1>1, <1>2, <1>5
      <3>2. doc.level[e].at < doc.level[b].at
        BY <1>1, <2>1, <2>2, <2>3, <3>1
      <3>3. QED
        BY <3>2, StartsIncrease
    <2>5. e - a >= n - j
      <3>1. slot[j].at = doc.level[a].at
        BY <1>1, <1>2, <2>1
      <3>2. Gap(j, n)
        BY <1>1, <1>2, <1>5, <2>1, <2>2 DEF Gapped
      <3>3. QED
        BY <1>2, <2>3, <3>1, <3>2 DEF Gap
    <2>6. a \in Int /\ b \in Int /\ e \in Int
      BY StartsIncrease
    <2>7. QED
      BY <1>1, <1>5, <2>4, <2>5, <2>6
  <1>6. QED
    BY <1>1, <1>2, <1>3, <1>4, <1>5

(* A new slot is anchored, and whole if it is active.                       *)
LEMMA AnchoredGrows ==
  ASSUME Anchored, Whole, UNCHANGED doc, NEW p, NEW v, NewSlot(p, v), Len(slot) < MaxQeLevels,
         MaxQeLevels \in Nat
  PROVE  Anchored' /\ Whole'
  <1> PICK n \in Nat : n = Len(slot)
    BY DEF Anchored
  <1>1. /\ slot' \in Seq(SlotType) /\ Len(slot') = n + 1
        /\ DOMAIN slot = 1..n /\ DOMAIN slot' = 1..(n + 1)
        /\ \A i \in 1..n : slot'[i] = slot[i] /\ (Active(i)' <=> Active(i))
        /\ slot'[n + 1] = v /\ v.at = p
        /\ Active(n + 1)' <=> (slot # <<>> => p # slot[n].at)
    BY Appended DEF NewSlot
  <1>2. ASSUME NEW k \in 1..(n + 1) PROVE \E a \in Levels(doc) : slot'[k].at = doc.level[a].at
    <2>1. CASE k \in 1..n
      BY <1>1, <2>1 DEF Anchored
    <2>2. CASE k = n + 1
      BY <1>1, <2>2 DEF NewSlot
    <2>3. QED
      BY <2>1, <2>2
  <1>3. ASSUME NEW k \in 1..(n + 1), NEW a \in Levels(doc), Active(k)',
               slot'[k].at = doc.level[a].at
        PROVE  slot'[k] = Own(a)
    <2>1. CASE k \in 1..n
      BY <1>1, <1>3, <2>1 DEF Whole
    <2>2. CASE k = n + 1
      BY <1>1, <1>3, <2>2 DEF NewSlot
    <2>3. QED
      BY <2>1, <2>2
  <1>4. Anchored'
    <2>1. (slot \in Seq(SlotType))'
      BY <1>1 DEF SlotType
    <2>2. (Len(slot) <= MaxQeLevels)'
      BY <1>1
    <2>3. (\A k \in DOMAIN slot : \E a \in Levels(doc) : slot[k].at = doc.level[a].at)'
      BY <1>1, <1>2 DEF Levels
    <2>4. QED
      BY <2>1, <2>2, <2>3 DEF Anchored
  <1>5. Whole'
    BY <1>1, <1>3 DEF Whole, Levels, Own
  <1>6. QED
    BY <1>4, <1>5

--------------------------------------------------------------------------------
(* Hosts.                                                                   *)

LEMMA SmallestIn ==
  ASSUME NEW S \in SUBSET Nat, S # {}
  PROVE  Smallest(S) \in S /\ \A y \in S : Smallest(S) <= y
  <1>1. PICK x \in S : \A y \in S : ~(<<y, x>> \in OpToRel(<, Nat))
    BY WFMin, NatLessThanWellFounded
  <1>2. \A y \in S : ~(y < x)
    BY <1>1 DEF OpToRel
  <1>3. \A y \in S : x <= y
    BY <1>2
  <1>4. QED
    BY <1>3 DEF Smallest

(* Clamping loses no slot.                                                  *)
LEMMA ClampTyped ==
  ASSUME WellFormed(doc), MaxQeLevels \in Nat \ {0}
  PROVE  /\ HintedCount \in Nat /\ HintedCount <= MaxQeLevels
         /\ HintedCount <= Len(doc.level) /\ Clamp(Len(doc.level)) = HintedCount
         /\ Abridged(HintedCount) = HintedCount
         /\ Abridged(Len(doc.level)) \in 0 .. (MaxQeLevels + 1)
  BY LevelIndices DEF HintedCount, Clamp, Abridged

(* A host that matches a level fills every slot with some level.            *)
LEMMA HintTyped ==
  ASSUME WellFormed(doc), MaxQeLevels \in Nat \ {0}, Candidates # {}, NEW i \in 1..MaxQeLevels
  PROVE  Source(i) \in Levels(doc) /\ SlotHint(i) \in SlotType
  <1>1. PICK c \in 1..HintedCount : TRUE
    BY ClampTyped DEF Candidates
  <1>2. Source(i) \in Levels(doc)
    BY <1>1, ClampTyped, LevelIndices DEF Source
  <1>3. HintedStatus(i) \in Nat
    <2> DEFINE S == {s.at : s \in {t \in Statuses(doc) : t.at >= doc.level[Source(i)].at}}
    <2>1. S \in SUBSET Nat
      BY StatusTyped
    <2>2. doc.level[Source(i)].stAt \in S
      <3>1. [at |-> doc.level[Source(i)].stAt, sev |-> doc.level[Source(i)].sev] \in Statuses(doc)
        BY <1>2 DEF Statuses, Levels
      <3>2. doc.level[Source(i)].stAt >= doc.level[Source(i)].at
        BY <1>2, FieldOrder
      <3>3. QED
        BY <3>1, <3>2
    <2>3. Smallest(S) \in S
      BY <2>1, <2>2, SmallestIn
    <2>4. QED
      BY <2>1, <2>3 DEF HintedStatus
  <1>4. doc.level[Source(i)] \in LevelType
    BY <1>2, FieldOrder
  <1>5. QED
    BY <1>2, <1>3, <1>4 DEF SlotHint, SlotType, LevelType

(* The level that a host matches is a candidate.                            *)
LEMMA IdxTyped ==
  ASSUME WellFormed(doc), MaxQeLevels \in Nat \ {0}, Candidates # {}
  PROVE  Smallest(Candidates) - 1 \in Nat /\ Smallest(Candidates) <= MaxQeLevels
  <1>1. Candidates \in SUBSET Nat /\ \A c \in Candidates : c >= 1 /\ c <= HintedCount
    BY ClampTyped DEF Candidates
  <1>2. Smallest(Candidates) \in Candidates
    BY <1>1, SmallestIn
  <1>3. HintedCount \in Nat /\ HintedCount <= MaxQeLevels
    BY ClampTyped
  <1> PICK x \in Nat : x = Smallest(Candidates) /\ x >= 1 /\ x <= HintedCount
    BY <1>1, <1>2
  <1>4. QED
    BY <1>3

(* Prefix counts.  Two reads agree iff no status literal starts between     *)
(* them: before a signed status, every literal is signed.                   *)
LEMMA CountsAgree ==
  ASSUME WellFormed(doc), NEW i, NEW p \in Nat, NEW st \in Nat, p <= st, Signed(st)
  PROVE  Pinned(i, p, st) <=> FirstStatus(i, p, st)
  <1> DEFINE A == {q \in Span(0, p) : StatusAt(q) /\ Signed(q)}
             B == {q \in Span(0, st) : StatusAt(q) /\ Signed(q)}
  <1>1. IsFiniteSet(B)
    <2>1. B \in SUBSET (0 .. (st - 1)) /\ IsFiniteSet(0 .. (st - 1))
      BY FS_Interval DEF Span
    <2>2. QED
      BY <2>1, FS_Subset
  <1>2. A \in SUBSET B
    BY DEF Span
  <1>3. Cardinality(A) = Cardinality(B) <=> A = B
    BY <1>1, <1>2, FS_Subset
  <1>4. \A q \in Span(p, st) : Signed(q)
    BY LevelIndices DEF Span, Signed, Width
  <1>5. A = B <=> \A q \in Span(p, st) : ~StatusAt(q)
    <2>1. ASSUME A = B, NEW q \in Span(p, st), StatusAt(q) PROVE FALSE
      <3>1. q \in B
        BY <1>4, <2>1 DEF Span
      <3>2. QED
        BY <2>1, <3>1 DEF Span
    <2>2. ASSUME \A q \in Span(p, st) : ~StatusAt(q), NEW q \in B PROVE q \in A
      <3>1. q \notin Span(p, st)
        BY <2>2
      <3>2. q \in Span(0, p)
        BY <3>1 DEF Span
      <3>3. QED
        BY <3>2
    <2>3. QED
      BY <1>2, <2>1, <2>2
  <1>6. StatusCum(st) = Cardinality(B) /\ StatusCum(p) = Cardinality(A)
    BY DEF StatusCum
  <1> HIDE DEF A, B
  <1>7. QED
    BY <1>3, <1>5, <1>6 DEF Pinned, FirstStatus

--------------------------------------------------------------------------------
(* The steps of both circuits and of both hosts.                            *)

LEMMA InitIInv == Init => IInv
  <1>1. SUFFICES ASSUME Init PROVE IInv
    OBVIOUS
  <1>2. /\ WellFormed(doc) /\ MaxQeLevels \in Nat \ {0} /\ platform \in Severities
        /\ slot = <<>> /\ hint = None /\ pc \in {"build", "bind"}
        /\ pc = "bind" => claimed \in Nat
    BY <1>1, QeAssumption DEF Init
  <1>3. Progress /\ Anchored /\ Gapped /\ Whole
    BY <1>2 DEF Progress, Anchored, Gapped, Whole
  <1>4. Prefix
    <2>1. Upto(0) /\ 0 \in 0..Len(slot)
      BY <1>2 DEF Upto
    <2>2. QED
      BY <2>1 DEF Prefix
  <1>5. Settled /\ HostInv /\ MergedVerdict
    BY <1>2 DEF Settled, HostInv, MergedVerdict
  <1>6. QED
    BY <1>2, <1>3, <1>4, <1>5 DEF IInv

(* What a step that leaves the document and the slots alone keeps.          *)
LEMMA SlotsKept ==
  ASSUME IInv, UNCHANGED <<doc, platform, slot>>
  PROVE  /\ WellFormed(doc)' /\ (platform \in Severities)'
         /\ Anchored' /\ Prefix' /\ Gapped' /\ Whole'
         /\ Aligned /\ claimed' = claimed => Aligned'
  <1>1. \A i \in DOMAIN slot : Active(i) = Active(i)'
    BY DEF Active
  <1>2. WellFormed(doc)' /\ (platform \in Severities)' /\ Anchored'
    BY DEF IInv, WellFormed, LevelType, Anchored, Levels, SlotType
  <1>3. Prefix'
    <2>1. ASSUME NEW c \in 0..Len(slot), Upto(c) PROVE Upto(c)'
      BY <1>1, <2>1 DEF Upto
    <2>2. QED
      BY <2>1 DEF IInv, Prefix
  <1>4. Gapped'
    <2>1. ASSUME NEW j, NEW k, Gap(j, k) PROVE Gap(j, k)'
      BY <2>1 DEF Gap, Levels
    <2>2. QED
      BY <1>1, <2>1 DEF IInv, Gapped
  <1>5. Whole'
    BY <1>1 DEF IInv, Whole, Levels, Own
  <1>6. Aligned /\ claimed' = claimed => Aligned'
    <2>1. Count' = Count
      BY DEF Count, Active
    <2>2. QED
      BY <1>1, <2>1 DEF Aligned, Levels, Own
  <1>7. QED
    BY <1>2, <1>3, <1>4, <1>5, <1>6

(* What a host's witness depends on.                                        *)
LEMMA HostKept ==
  ASSUME HostInv, UNCHANGED <<doc, hint, slot>>
  PROVE  HostInv'
  BY DEF HostInv, Candidates, SlotHint, HintedStatus, Source, Statuses

(* Either host's build.                                                     *)
LEMMA HostStep ==
  ASSUME IInv, Build \/ WriteQeBound
  PROVE  IInv'
  <1>1. /\ UNCHANGED <<doc, platform, slot, status>> /\ pc = "build"
        /\ pc' \in {"bind", "failed"} /\ slot = <<>>
        /\ MaxQeLevels \in Nat \ {0} /\ WellFormed(doc)
    BY QeAssumption DEF Build, WriteQeBound, IInv, Progress
  <1>2. \/ pc' = "failed" /\ hint' = None
        \/ /\ pc' = "bind" /\ claimed' \in Nat /\ Candidates # {}
           /\ hint'.slot = [i \in 1..MaxQeLevels |-> SlotHint(i)]
           /\ hint'.idx = Smallest(Candidates) - 1
    BY <1>1, ClampTyped, LevelIndices DEF Build, WriteQeBound, IInv, Progress
  <1>3. Progress'
    BY <1>1, <1>2 DEF IInv, Progress
  <1>4. HostInv'
    <2>1. (hint' # None) => /\ Candidates # {}
                            /\ hint'.slot = [i \in 1..MaxQeLevels |-> SlotHint(i)]
                            /\ hint'.idx = Smallest(Candidates) - 1
      BY <1>2
    <2>2. \A k \in DOMAIN slot' : slot'[k] = hint'.slot[k]
      BY <1>1
    <2>3. Candidates' = Candidates /\ \A i : SlotHint(i)' = SlotHint(i)
      BY <1>1 DEF Candidates, SlotHint, HintedStatus, Source, Statuses
    <2>4. QED
      BY <2>1, <2>2, <2>3 DEF HostInv
  <1>5. Settled' /\ MergedVerdict'
    BY <1>1 DEF Settled, MergedVerdict
  <1>6. QED
    BY <1>1, <1>3, <1>4, <1>5, SlotsKept DEF IInv

(* The slot that either circuit binds.                                      *)
LEMMA NewSlotBound ==
  ASSUME IInv, pc = "bind",
         NEW p \in Anchors(doc), NEW s \in Statuses(doc), NEW v,
         Signed(p), Follows(p),
         (slot # <<>> => p # slot[Len(slot)].at)
           => p < s.at /\ FirstStatus(Len(slot) + 1, p, s.at) /\ v = BoundTo(p, s),
         v \in Offered(Hinted(Len(slot) + 1),
                       IF slot # <<>> => p # slot[Len(slot)].at
                       THEN {BoundTo(p, s)} ELSE Padding(p)),
         v.at = p, slot' = Append(slot, v)
  PROVE  NewSlot(p, v)
  <1> PICK n \in Nat : n = Len(slot)
    BY DEF IInv, Anchored
  <1>1. /\ WellFormed(doc) /\ MaxQeLevels \in Nat \ {0} /\ n < MaxQeLevels
        /\ slot \in Seq(SlotType) /\ (slot # <<>> => slot[n] \in SlotType)
    BY QeAssumption DEF IInv, Progress, Anchored
  <1>2. PICK a \in Levels(doc) : p = doc.level[a].at
    BY <1>1, SignedAnchors
  <1>3. ASSUME slot # <<>> => p # slot[n].at, NEW b \in Levels(doc), p = doc.level[b].at
        PROVE  v = Own(b)
    <2>1. doc.level[b].at < s.at /\ \A q \in Span(doc.level[b].at, s.at) : ~StatusAt(q)
      BY <1>3 DEF FirstStatus
    <2>2. QED
      BY <1>1, <1>3, <2>1, BoundToOwn
  <1>4. v \in SlotType
    <2>1. CASE slot # <<>> => p # slot[n].at
      BY <1>1, <1>2, <1>3, <2>1, OwnTyped
    <2>2. CASE hint = None /\ ~(slot # <<>> => p # slot[n].at)
      <3>1. v \in Padding(p)
        BY <2>2 DEF Offered
      <3>2. /\ v \in [at : {p}, st : {slot[n].st}, sat : BOOLEAN,
                      sev : PaddingSevs \cup {slot[n].sev}]
            /\ slot[n] \in SlotType
        BY <1>1, <2>2, <3>1 DEF Padding
      <3>3. p \in Nat /\ PaddingSevs \subseteq Severities
        BY <1>1, <1>2, FieldOrder, QeAssumption
      <3>4. QED
        BY <3>2, <3>3 DEF SlotType
    <2>3. CASE hint # None
      <3>1. v = hint.slot[n + 1]
        BY <2>3 DEF Offered, Hinted
      <3>2. v = SlotHint(n + 1) /\ Candidates # {}
        BY <1>1, <2>3, <3>1 DEF IInv, HostInv
      <3>3. QED
        BY <1>1, <3>2, HintTyped
    <2>4. QED
      BY <2>1, <2>2, <2>3
  <1>5. QED
    BY <1>2, <1>3, <1>4 DEF NewSlot

(* A slot bound by either circuit keeps the invariant.                      *)
LEMMA BoundSlotStep ==
  ASSUME IInv, pc = "bind",
         NEW p \in Anchors(doc), NEW s \in Statuses(doc), NEW v,
         Signed(p), Follows(p),
         (slot # <<>> => p # slot[Len(slot)].at)
           => p < s.at /\ FirstStatus(Len(slot) + 1, p, s.at) /\ v = BoundTo(p, s),
         v \in Offered(Hinted(Len(slot) + 1),
                       IF slot # <<>> => p # slot[Len(slot)].at
                       THEN {BoundTo(p, s)} ELSE Padding(p)),
         v.at = p, slot' = Append(slot, v),
         pc' = IF Len(slot) + 1 = MaxQeLevels THEN "count" ELSE "bind",
         UNCHANGED <<doc, platform, hint, claimed, status>>
  PROVE  IInv'
  <1> PICK n \in Nat : n = Len(slot)
    BY DEF IInv, Anchored
  <1>1. NewSlot(p, v)
    BY NewSlotBound
  <1>2. /\ WellFormed(doc) /\ MaxQeLevels \in Nat \ {0} /\ n < MaxQeLevels
        /\ Anchored /\ Prefix /\ Gapped /\ Whole /\ claimed \in Nat
    BY QeAssumption DEF IInv, Progress
  <1>3. Anchored' /\ Prefix' /\ Gapped' /\ Whole'
    BY <1>1, <1>2, PrefixGrows, GapGrows, AnchoredGrows
  <1>4. /\ Len(slot') = n + 1 /\ DOMAIN slot = 1..n /\ DOMAIN slot' = 1..(n + 1)
        /\ \A i \in 1..n : slot'[i] = slot[i]
        /\ slot'[n + 1] = v
    BY <1>1, <1>2, Appended
  <1>5. Progress'
    BY <1>2, <1>4 DEF Progress
  <1>6. HostInv'
    <2>1. SUFFICES ASSUME hint # None PROVE HostInv'
      BY DEF HostInv
    <2>2. v = hint.slot[n + 1]
      BY <2>1 DEF Offered, Hinted
    <2>3. \A k \in DOMAIN slot' : slot'[k] = hint.slot[k]
      BY <1>4, <2>1, <2>2 DEF IInv, HostInv
    <2>4. Candidates' = Candidates /\ \A i : SlotHint(i)' = SlotHint(i)
      BY DEF Candidates, SlotHint, HintedStatus, Source, Statuses
    <2>5. QED
      BY <2>1, <2>3, <2>4 DEF IInv, HostInv
  <1>7. Settled' /\ MergedVerdict'
    BY DEF Settled, MergedVerdict
  <1>8. WellFormed(doc)' /\ (platform \in Severities)'
    BY DEF IInv, WellFormed, LevelType
  <1>9. QED
    BY <1>3, <1>5, <1>6, <1>7, <1>8 DEF IInv

LEMMA BindLevelStep ==
  ASSUME IInv, BindLevel
  PROVE  IInv'
  <1>1. PICK p \in Anchors(doc), s \in Statuses(doc) :
          LET isLevel == slot # <<>> => p # slot[Len(slot)].at IN
          /\ Signed(p) /\ Follows(p) /\ ClosesLast(p) /\ Signed(s.at)
          /\ isLevel => p < s.at /\ FirstStatus(Len(slot) + 1, p, s.at)
          /\ \E v \in Offered(Hinted(Len(slot) + 1),
                              IF isLevel THEN {BoundTo(p, s)} ELSE Padding(p)) :
               /\ v.at = p /\ (isLevel => v = BoundTo(p, s))
               /\ slot' = Append(slot, v)
    BY DEF BindLevel
  <1>2. PICK v \in Offered(Hinted(Len(slot) + 1),
                           IF slot # <<>> => p # slot[Len(slot)].at
                           THEN {BoundTo(p, s)} ELSE Padding(p)) :
          /\ v.at = p /\ ((slot # <<>> => p # slot[Len(slot)].at) => v = BoundTo(p, s))
          /\ slot' = Append(slot, v)
    BY <1>1
  <1>3. /\ pc = "bind" /\ pc' = IF Len(slot) + 1 = MaxQeLevels THEN "count" ELSE "bind"
        /\ UNCHANGED <<doc, platform, hint, claimed, status>>
    BY DEF BindLevel
  <1>4. QED
    BY <1>1, <1>2, <1>3, BoundSlotStep

(* Noir asks of a slot what gnark asks.                                     *)
LEMMA BindQeLevelIsBindLevel ==
  ASSUME IInv, BindQeLevel
  PROVE  BindLevel
  <1> PICK n \in Nat : n = Len(slot)
    BY DEF IInv, Anchored
  <1>1. PICK p \in Anchors(doc), s \in Statuses(doc) :
          LET active == slot # <<>> => p # slot[n].at IN
          /\ Signed(p) /\ Monotonic(p) /\ ClosesLast(p) /\ Signed(s.at)
          /\ active => p < s.at /\ Pinned(n + 1, p, s.at)
          /\ \E v \in Offered(Hinted(n + 1), IF active THEN {BoundTo(p, s)} ELSE Padding(p)) :
               /\ v.at = p /\ (active => v = BoundTo(p, s))
               /\ slot' = Append(slot, v)
    BY DEF BindQeLevel
  <1>2. Follows(p)
    BY <1>1 DEF Monotonic, Follows
  <1>3. p \in Nat /\ s.at \in Nat /\ WellFormed(doc)
    <2>1. WellFormed(doc)
      BY DEF IInv
    <2>2. \E a \in Levels(doc) : p = doc.level[a].at
      BY <1>1, <2>1, SignedAnchors
    <2>3. QED
      BY <2>1, <2>2, FieldOrder, StatusTyped
  <1>4. p < s.at => (Pinned(n + 1, p, s.at) <=> FirstStatus(n + 1, p, s.at))
    BY <1>1, <1>3, CountsAgree
  <1>5. /\ pc = "bind" /\ pc' = IF n + 1 = MaxQeLevels THEN "count" ELSE "bind"
        /\ UNCHANGED <<doc, platform, hint, claimed, status>>
    BY DEF BindQeLevel
  <1>6. QED
    BY <1>1, <1>2, <1>4, <1>5 DEF BindLevel

LEMMA CheckCountStep ==
  ASSUME IInv, CheckCount
  PROVE  IInv'
  <1>1. /\ UNCHANGED <<doc, platform, hint, claimed, slot, status>>
        /\ pc = "count" /\ pc' = "match" /\ Count = claimed /\ Count = Total
    BY DEF CheckCount
  <1>2. Len(slot) = MaxQeLevels /\ MaxQeLevels \in Nat \ {0} /\ claimed \in Nat
    BY <1>1, QeAssumption DEF IInv, Progress
  <1>3. Aligned
    BY <1>1, <1>2, Alignment DEF IInv
  <1>4. Progress' /\ MergedVerdict'
    BY <1>1, <1>2 DEF Progress, MergedVerdict
  <1>5. Settled'
    BY <1>1, <1>3, SlotsKept DEF Settled
  <1>6. QED
    BY <1>1, <1>4, <1>5, SlotsKept, HostKept DEF IInv

(* The verdict of either circuit is that of the first satisfied level.      *)
LEMMA VerdictStep ==
  ASSUME IInv, pc = "match", pc' = "accepted",
         UNCHANGED <<doc, platform, hint, claimed, slot>>,
         NEW x \in 0 .. (claimed - 1), slot[x + 1].sat,
         \A m \in 0 .. (x - 1) : ~slot[m + 1].sat,
         status' = MaxSev(platform, slot[x + 1].sev), status' # Revoked
  PROVE  IInv'
  <1>1. /\ Aligned /\ WellFormed(doc) /\ MaxQeLevels \in Nat \ {0} /\ Len(slot) = MaxQeLevels
        /\ platform \in Severities /\ claimed = Len(doc.level) /\ claimed \in Nat
        /\ Levels(doc) = 1..claimed
    BY QeAssumption, LevelIndices DEF IInv, Settled, Progress, Aligned
  <1>2. \A k \in Levels(doc) : /\ slot[k].sat = doc.level[k].sat
                               /\ slot[k].sev = doc.level[k].sev
                               /\ doc.level[k].sev \in Severities
    <2>1. SUFFICES ASSUME NEW k \in Levels(doc)
                   PROVE  /\ slot[k].sat = doc.level[k].sat
                          /\ slot[k].sev = doc.level[k].sev
                          /\ doc.level[k].sev \in Severities
      OBVIOUS
    <2>2. slot[k] = Own(k)
      BY <1>1 DEF Aligned
    <2>3. doc.level[k] \in LevelType
      BY <1>1, FieldOrder
    <2>4. QED
      BY <2>2, <2>3 DEF Own, LevelType
  <1>3. x + 1 \in Levels(doc) /\ doc.level[x + 1].sat
    BY <1>1, <1>2
  <1>4. \A j \in 1 .. ((x + 1) - 1) : ~doc.level[j].sat
    <2>1. SUFFICES ASSUME NEW j \in 1..x PROVE ~doc.level[j].sat
      OBVIOUS
    <2>2. j \in Levels(doc) /\ j - 1 \in 0 .. (x - 1) /\ (j - 1) + 1 = j
      BY <1>1
    <2>3. QED
      BY <1>2, <2>2
  <1>5. status' = MaxSev(platform, doc.level[x + 1].sev) /\ status' < Revoked
    <2>1. status' = MaxSev(platform, doc.level[x + 1].sev)
      BY <1>2, <1>3
    <2>2. status' \in Severities
      BY <1>1, <1>2, <1>3, <2>1 DEF MaxSev
    <2>3. QED
      BY <2>1, <2>2, QeAssumption
  <1>6. MergedVerdict'
    BY <1>3, <1>4, <1>5 DEF MergedVerdict, Levels, MaxSev
  <1>7. Progress' /\ Settled'
    BY <1>1, SlotsKept DEF IInv, Progress, Settled
  <1>8. QED
    BY <1>6, <1>7, SlotsKept, HostKept DEF IInv

LEMMA MatchStep ==
  ASSUME IInv, Match
  PROVE  IInv'
  <1>1. /\ pc = "match" /\ pc' = "accepted"
        /\ UNCHANGED <<doc, platform, hint, claimed, slot>>
        /\ claimed \in Nat
    BY DEF Match, IInv, Progress
  <1>2. PICK x : /\ ActiveSlot(x) /\ slot[x + 1].sat
                 /\ \A m \in Span(0, x) : m < claimed => ~slot[m + 1].sat
                 /\ NotRevoked(MaxSev(platform, slot[x + 1].sev))
                 /\ status' = MaxSev(platform, slot[x + 1].sev)
    BY DEF Match
  <1>3. x \in 0 .. (claimed - 1)
    BY <1>1, <1>2, QeAssumption DEF ActiveSlot, Span
  <1>4. \A m \in 0 .. (x - 1) : ~slot[m + 1].sat
    BY <1>1, <1>2, <1>3 DEF Span
  <1>5. QED
    BY <1>1, <1>2, <1>3, <1>4, VerdictStep DEF NotRevoked

(* A host's choice is the index of a slot.                                  *)
LEMMA ChosenIndex ==
  ASSUME IInv, NEW any \in SUBSET Int, NEW x \in Offered(hint.idx, any)
  PROVE  x \in Int /\ (any \subseteq Nat => x \in Nat)
  <1>1. CASE hint = None
    BY <1>1 DEF Offered
  <1>2. CASE hint # None
    <2>1. x = Smallest(Candidates) - 1 /\ Candidates # {} /\ WellFormed(doc)
      BY <1>2 DEF Offered, IInv, HostInv
    <2>2. QED
      BY <2>1, IdxTyped, QeAssumption
  <1>3. QED
    BY <1>1, <1>2

(* A slot that moved is one below the count, once the count is known.       *)
LEMMA EarlierIsActive ==
  ASSUME IInv, pc = "match", NEW x \in Nat, x < claimed, NEW m \in 0 .. (x - 1)
  PROVE  /\ Earlier(m, x) /\ m + 1 \in Levels(doc) /\ claimed \in Nat
         /\ m \in Span(0, MaxQeLevels) /\ x \in Span(0, MaxQeLevels)
  <1>1. /\ Aligned /\ WellFormed(doc) /\ Len(slot) = MaxQeLevels /\ MaxQeLevels \in Nat \ {0}
        /\ slot \in Seq(SlotType) /\ claimed \in Nat
        /\ claimed = Len(doc.level) /\ claimed <= MaxQeLevels /\ Levels(doc) = 1..claimed
    BY QeAssumption, LevelIndices DEF IInv, Settled, Progress, Anchored, Aligned
  <1>2. m + 1 \in Levels(doc) /\ m + 1 \in DOMAIN slot /\ m < x
    BY <1>1
  <1>3. Active(m + 1)
    BY <1>1, <1>2 DEF Aligned
  <1>4. QED
    BY <1>1, <1>2, <1>3 DEF Earlier, Span

LEMMA SelectAndMergeIsMatch ==
  ASSUME IInv, SelectAndMerge
  PROVE  /\ pc = "match" /\ pc' = "accepted"
         /\ UNCHANGED <<doc, platform, hint, claimed, slot>>
         /\ \E x \in 0 .. (claimed - 1) :
              /\ ActiveSlot(x) /\ slot[x + 1].sat
              /\ \A m \in 0 .. (x - 1) : ~slot[m + 1].sat
              /\ status' = MaxSev(platform, slot[x + 1].sev) /\ status' # Revoked
  <1>1. /\ pc = "match" /\ pc' = "accepted"
        /\ UNCHANGED <<doc, platform, hint, claimed, slot>>
    BY DEF SelectAndMerge
  <1>2. PICK x \in Offered(hint.idx, 0 .. (MaxQeLevels + 1)) :
          /\ x < claimed
          /\ \A m \in Span(0, MaxQeLevels) :
               /\ m = x => slot[m + 1].sat
               /\ ~(Earlier(m, x) /\ slot[m + 1].sat)
          /\ LET qeSev == IF x \in Span(0, MaxQeLevels) THEN slot[x + 1].sev ELSE 0
                 merged == MaxSev(platform, qeSev)
             IN  NotTcbRevoked(merged) /\ status' = merged
    BY DEF SelectAndMerge
  <1>3. x \in Nat
    BY <1>2, ChosenIndex, QeAssumption
  <1>4. claimed \in Nat /\ claimed <= MaxQeLevels /\ MaxQeLevels \in Nat
    BY <1>1, QeAssumption, LevelIndices DEF IInv, Settled, Progress, Aligned
  <1>5. x \in Span(0, MaxQeLevels) /\ x \in 0 .. (claimed - 1) /\ ActiveSlot(x)
    BY <1>2, <1>3, <1>4 DEF Span, ActiveSlot
  <1>6. \A m \in 0 .. (x - 1) : ~slot[m + 1].sat
    BY <1>1, <1>2, <1>3, EarlierIsActive
  <1>7. QED
    BY <1>1, <1>2, <1>5, <1>6 DEF NotTcbRevoked

LEMMA StutterStep ==
  ASSUME IInv, UNCHANGED vars
  PROVE  IInv'
  <1>1. UNCHANGED <<doc, platform, pc, hint, claimed, slot, status>>
    BY DEF vars
  <1>2. Progress' /\ Settled' /\ MergedVerdict'
    BY <1>1, SlotsKept DEF IInv, Progress, Settled, MergedVerdict, Levels, MaxSev
  <1>3. QED
    BY <1>1, <1>2, SlotsKept, HostKept DEF IInv

--------------------------------------------------------------------------------
(* The invariant holds of both circuits.                                    *)

LEMMA GnarkStep ==
  ASSUME IInv, [Next]_vars
  PROVE  IInv'
  BY HostStep, BindLevelStep, CheckCountStep, MatchStep, StutterStep DEF Next

LEMMA NoirStep ==
  ASSUME IInv, [NoirNext]_vars
  PROVE  IInv'
  <1>1. CASE WriteQeBound
    BY <1>1, HostStep
  <1>2. CASE BindQeLevel
    BY <1>2, BindQeLevelIsBindLevel, BindLevelStep
  <1>3. CASE CheckCounts
    BY <1>3, CheckCountStep DEF CheckCounts, CheckCount
  <1>4. CASE SelectAndMerge
    BY <1>4, SelectAndMergeIsMatch, VerdictStep
  <1>5. CASE UNCHANGED vars
    BY <1>5, StutterStep
  <1>6. QED
    BY <1>1, <1>2, <1>3, <1>4, <1>5 DEF NoirNext

(* Once settled, the slots below the claimed count are the levels.          *)
LEMMA BoundWhenSettled ==
  ASSUME IInv
  PROVE  QeLevelsBound
  <1>1. SUFFICES ASSUME pc \in {"match", "accepted"}
                 PROVE  /\ claimed = Len(doc.level)
                        /\ \A k \in 1..claimed : slot[k] = Own(k)
    BY DEF QeLevelsBound, Own
  <1>2. Aligned /\ Levels(doc) = 1..Len(doc.level)
    BY <1>1, LevelIndices DEF IInv, Settled
  <1>3. QED
    BY <1>2 DEF Aligned

THEOREM Invariance == Spec => []IInv
  BY InitIInv, GnarkStep, PTL DEF Spec

THEOREM BothInvariance == BothSpec => []IInv
  <1>1. BothInit => IInv
    BY InitIInv DEF BothInit
  <1>2. ASSUME IInv, [BothNext]_noirVars PROVE IInv'
    <2>1. [Next]_vars \/ [NoirNext]_vars
      BY <1>2 DEF BothNext, noirVars
    <2>2. QED
      BY <1>2, <2>1, GnarkStep, NoirStep
  <1>3. QED
    BY <1>1, <1>2, PTL DEF BothSpec

(* bindQeIdentity's active slots are the levels of the signed document, all *)
(* of them, in order, whatever the witness claims and supplies.             *)
THEOREM QeLevelsAlwaysBound == Spec => []QeLevelsBound
  BY Invariance, BoundWhenSettled, PTL

(* The public status of step9and10MergeStatus is the worse of the two       *)
(* verdicts, and never Revoked.                                             *)
THEOREM VerdictAlwaysMerged == Spec => []MergedVerdict
  <1>1. IInv => MergedVerdict
    BY DEF IInv
  <1>2. QED
    BY <1>1, Invariance, PTL

(* So are the slots of the Noir circuit, which selects before it counts ... *)
THEOREM NoirQeLevelsBound == BothSpec => []QeLevelsBound
  BY BothInvariance, BoundWhenSettled, PTL

(* ... and its public status.                                               *)
THEOREM NoirVerdictMerged == BothSpec => []MergedVerdict
  <1>1. IInv => MergedVerdict
    BY DEF IInv
  <1>2. QED
    BY <1>1, BothInvariance, PTL

--------------------------------------------------------------------------------
(* From Noir to gnark.  The refinement mapping forgets the host: its build   *)
(* is a stutter, its slots are slots that some prover could have offered.   *)

LEMMA HostIsStutter ==
  ASSUME IInv, backend \in {"gnark", "noir"}, UNCHANGED backend,
         backend = "gnark" => Build, backend = "noir" => WriteQeBound
  PROVE  UNCHANGED Gnark!vars
  <1>1. /\ UNCHANGED <<doc, platform, slot, status>> /\ pc = "build"
        /\ pc' \in {"bind", "failed"}
        /\ pc' = "bind" => claimed' = IF backend = "noir" THEN HintedCount ELSE Len(doc.level)
    BY DEF Build, WriteQeBound
  <1>2. Abridged(HintedCount) = HintedCount
    BY ClampTyped, QeAssumption DEF IInv
  <1>3. PcOf = "bind" /\ PcOf' = "bind"
    BY <1>1 DEF PcOf, Waiting
  <1>4. ClaimOf = IF backend = "noir" THEN HintedCount ELSE Abridged(Len(doc.level))
    BY <1>1 DEF ClaimOf, Waiting
  <1>5. ClaimOf' = ClaimOf
    <2>1. HintedCount' = HintedCount /\ Abridged(Len(doc.level))' = Abridged(Len(doc.level))
      BY <1>1 DEF HintedCount, Abridged, Clamp
    <2>2. CASE pc' = "bind"
      <3>1. ClaimOf' = Abridged(claimed)'
        BY <2>2 DEF ClaimOf, Waiting
      <3>2. Abridged(claimed)' = IF backend = "noir" THEN Abridged(HintedCount)
                                 ELSE Abridged(Len(doc.level))
        BY <1>1, <2>2 DEF Abridged
      <3>3. QED
        BY <1>2, <1>4, <3>1, <3>2
    <2>3. CASE pc' = "failed"
      BY <1>4, <2>1, <2>3 DEF ClaimOf, Waiting
    <2>4. QED
      BY <1>1, <2>2, <2>3
  <1>6. QED
    BY <1>1, <1>3, <1>5 DEF Gnark!vars

(* Padding of a host repeats the slot before it.                            *)
LEMMA HintedPadding ==
  ASSUME IInv, hint # None, slot # <<>>, Len(slot) < MaxQeLevels,
         Hinted(Len(slot) + 1).at = slot[Len(slot)].at
  PROVE  Hinted(Len(slot) + 1) = slot[Len(slot)]
  <1> PICK n \in Nat \ {0} : n = Len(slot)
    BY DEF IInv, Anchored
  <1>1. /\ WellFormed(doc) /\ Candidates # {} /\ MaxQeLevels \in Nat \ {0}
        /\ n \in 1..MaxQeLevels /\ n + 1 \in 1..MaxQeLevels /\ n \in DOMAIN slot
    BY QeAssumption DEF IInv, HostInv, Anchored
  <1>2. slot[n] = SlotHint(n) /\ Hinted(n + 1) = SlotHint(n + 1)
    BY <1>1 DEF IInv, HostInv, Hinted
  <1>3. doc.level[Source(n)].at = doc.level[Source(n + 1)].at
    BY <1>2 DEF SlotHint
  <1>4. Source(n) = Source(n + 1)
    BY <1>1, <1>3, HintTyped, StartsIncrease
  <1>5. QED
    BY <1>2, <1>4 DEF SlotHint, HintedStatus

(* The claim matters to a slot only below the number of slots.              *)
LEMMA BindLevelRefines ==
  ASSUME IInv, BindLevel, UNCHANGED backend
  PROVE  Gnark!BindLevel
  <1> PICK n \in Nat : n = Len(slot)
    BY DEF IInv, Anchored
  <1>1. /\ pc = "bind" /\ n < MaxQeLevels /\ MaxQeLevels \in Nat \ {0} /\ claimed \in Nat
        /\ slot \in Seq(SlotType) /\ (slot = <<>> <=> n = 0)
        /\ pc' = IF n + 1 = MaxQeLevels THEN "count" ELSE "bind"
        /\ UNCHANGED <<doc, platform, hint, claimed, status, backend>>
    BY QeAssumption DEF IInv, Progress, Anchored, BindLevel
  <1>2. PICK p \in Anchors(doc), s \in Statuses(doc) :
          LET isLevel == slot # <<>> => p # slot[n].at IN
          /\ Signed(p) /\ Follows(p) /\ ClosesLast(p) /\ Signed(s.at)
          /\ isLevel => p < s.at /\ FirstStatus(n + 1, p, s.at)
          /\ \E v \in Offered(Hinted(n + 1),
                              IF isLevel THEN {BoundTo(p, s)} ELSE Padding(p)) :
               /\ v.at = p /\ (isLevel => v = BoundTo(p, s))
               /\ slot' = Append(slot, v)
    BY DEF BindLevel
  <1> DEFINE isLevel == slot # <<>> => p # slot[n].at
  <1>3. PICK v \in Offered(Hinted(n + 1), IF isLevel THEN {BoundTo(p, s)} ELSE Padding(p)) :
          v.at = p /\ (isLevel => v = BoundTo(p, s)) /\ slot' = Append(slot, v)
    BY <1>2
  <1>4. v \in (IF isLevel THEN {BoundTo(p, s)} ELSE Padding(p))
    <2>1. CASE hint = None \/ isLevel
      BY <1>3, <2>1 DEF Offered
    <2>2. CASE hint # None /\ ~isLevel
      <3>1. v = Hinted(n + 1) /\ slot # <<>> /\ p = slot[n].at
        BY <1>3, <2>2 DEF Offered
      <3>2. v = slot[n]
        BY <1>1, <1>3, <2>2, <3>1, HintedPadding
      <3>3. slot[n] \in SlotType
        BY <1>1, <3>1
      <3>4. slot[n] \in Padding(p)
        BY <3>1, <3>3 DEF Padding, SlotType
      <3>5. QED
        BY <2>2, <3>2, <3>4
    <2>3. QED
      BY <2>1, <2>2
  <1>5. PcOf = "bind" /\ PcOf' = pc' /\ ClaimOf = Abridged(claimed) /\ ClaimOf' = ClaimOf
    BY <1>1 DEF PcOf, ClaimOf, Waiting, Abridged
  <1>6. Gnark!Signed(p) /\ Gnark!Follows(p) /\ Gnark!Signed(s.at)
    <2>1. Gnark!Signed(p) /\ Gnark!Signed(s.at)
      BY <1>2 DEF Signed, Gnark!Signed, Width, Gnark!Width
    <2>2. \A i : Gnark!Active(i) <=> Active(i)
      BY DEF Active, Gnark!Active
    <2>3. Gnark!Follows(p)
      BY <1>2, <2>2 DEF Follows, Gnark!Follows
    <2>4. QED
      BY <2>1, <2>3
  <1>7. Gnark!ClosesLast(p)
    <2>1. n < claimed <=> n < ClaimOf
      BY <1>1, <1>5 DEF Abridged
    <2>2. QED
      BY <1>2, <2>1 DEF ClosesLast, Gnark!ClosesLast, Active, Gnark!Active
  <1>8. isLevel => p < s.at /\ Gnark!FirstStatus(n + 1, p, s.at)
    BY <1>2 DEF FirstStatus, Gnark!FirstStatus, StatusAt, Gnark!StatusAt, Span, Gnark!Span,
       Statuses, Gnark!Statuses
  <1>9. Gnark!BoundTo(p, s) = BoundTo(p, s) /\ Gnark!Padding(p) = Padding(p)
    BY DEF BoundTo, Gnark!BoundTo, LevelAt, Gnark!LevelAt, Levels, Gnark!Levels,
       Padding, Gnark!Padding
  <1>10. Gnark!Anchors(doc) = Anchors(doc) /\ Gnark!Statuses(doc) = Statuses(doc)
    BY DEF Anchors, Gnark!Anchors, Levels, Gnark!Levels, Statuses, Gnark!Statuses
  <1> HIDE DEF isLevel
  <1>11. v \in Gnark!Offered(Gnark!Hinted(n + 1),
                             IF isLevel THEN {Gnark!BoundTo(p, s)} ELSE Gnark!Padding(p))
    BY <1>4, <1>9 DEF Gnark!Offered
  <1>12. v.at = p /\ (isLevel => v = Gnark!BoundTo(p, s)) /\ slot' = Append(slot, v)
    BY <1>3, <1>9
  <1>13. QED
    BY <1>1, <1>5, <1>6, <1>7, <1>8, <1>10, <1>11, <1>12 DEF Gnark!BindLevel, isLevel

(* The instance has its own name for cardinalities.                         *)
LEMMA SameCardinality ==
  ASSUME NEW S
  PROVE  Gnark!Cardinality(S) = Cardinality(S)
  BY DEF Cardinality, Gnark!Cardinality

(* A claim that equals the count is not abridged.                           *)
LEMMA CheckCountRefines ==
  ASSUME IInv, CheckCount, UNCHANGED backend
  PROVE  Gnark!CheckCount
  <1>1. /\ UNCHANGED <<doc, platform, hint, claimed, slot, status, backend>>
        /\ pc = "count" /\ pc' = "match" /\ Count = claimed /\ Count = Total
    BY DEF CheckCount
  <1>2. Aligned /\ MaxQeLevels \in Nat \ {0} /\ Len(doc.level) \in Nat
    BY <1>1, Alignment, QeAssumption, LevelIndices DEF IInv, Progress
  <1>3. Abridged(claimed) = claimed
    BY <1>2 DEF Aligned, Abridged
  <1>4. PcOf = "count" /\ PcOf' = "match" /\ ClaimOf = claimed /\ ClaimOf' = claimed
    BY <1>1, <1>3 DEF PcOf, ClaimOf, Waiting, Abridged
  <1>5. Gnark!Count = Count
    <2>1. \A i : Gnark!Active(i) <=> Active(i)
      BY DEF Active, Gnark!Active
    <2>2. QED
      BY <2>1, SameCardinality DEF Count, Gnark!Count
  <1>6. Gnark!Total = Total
    <2>1. Gnark!Anchors(doc) = Anchors(doc)
      BY DEF Anchors, Gnark!Anchors, Levels, Gnark!Levels
    <2>2. \A p : Gnark!Signed(p) <=> Signed(p)
      BY DEF Signed, Gnark!Signed, Width, Gnark!Width
    <2>3. QED
      BY <2>1, <2>2, SameCardinality DEF Total, Gnark!Total
  <1>7. QED
    BY <1>1, <1>4, <1>5, <1>6 DEF Gnark!CheckCount

(* The verdict of either circuit is one of the gnark circuit's.             *)
LEMMA VerdictRefines ==
  ASSUME IInv, pc = "match", pc' = "accepted", UNCHANGED backend,
         UNCHANGED <<doc, platform, hint, claimed, slot>>,
         NEW x \in Int, ActiveSlot(x), slot[x + 1].sat,
         \A m \in 0 .. (x - 1) : m < claimed => ~slot[m + 1].sat,
         status' = MaxSev(platform, slot[x + 1].sev), status' # Revoked
  PROVE  Gnark!Match
  <1>1. /\ Aligned /\ WellFormed(doc) /\ MaxQeLevels \in Nat \ {0}
        /\ platform \in Severities /\ claimed = Len(doc.level) /\ claimed \in Nat
        /\ claimed <= MaxQeLevels /\ Levels(doc) = 1..claimed
    BY QeAssumption, LevelIndices DEF IInv, Settled, Aligned
  <1>2. x \in 0 .. (MaxQeLevels - 1) /\ x <= claimed - 1
    BY <1>1 DEF ActiveSlot, Span
  <1>3. slot[x + 1].sev \in Severities
    <2>1. x + 1 \in Levels(doc)
      BY <1>1, <1>2
    <2>2. slot[x + 1] = Own(x + 1)
      BY <1>1, <2>1 DEF Aligned
    <2>3. doc.level[x + 1] \in LevelType
      BY <1>1, <2>1, FieldOrder
    <2>4. QED
      BY <2>2, <2>3 DEF Own, LevelType
  <1>4. status' \in Severities
    BY <1>1, <1>3 DEF MaxSev
  <1>5. PcOf = "match" /\ PcOf' = "accepted" /\ ClaimOf = claimed /\ ClaimOf' = claimed
    BY <1>1 DEF PcOf, ClaimOf, Waiting, Abridged
  <1>6. x \in Gnark!Offered(None, -1 .. MaxQeLevels) /\ Gnark!ActiveSlot(x)
    BY <1>1, <1>2, <1>5 DEF Gnark!Offered, Gnark!ActiveSlot, Gnark!Span
  <1>7. \A m \in Gnark!Span(0, x) : m < ClaimOf => ~slot[m + 1].sat
    BY <1>5 DEF Gnark!Span
  <1>8. /\ Gnark!MaxSev(platform, slot[x + 1].sev) = status' /\ Gnark!NotRevoked(status')
        /\ status' \in Gnark!Offered(None, Severities)
    BY <1>4 DEF MaxSev, Gnark!MaxSev, Gnark!NotRevoked, Gnark!Offered
  <1>9. QED
    BY <1>5, <1>6, <1>7, <1>8 DEF Gnark!Match, Gnark!Offered

LEMMA MatchRefines ==
  ASSUME IInv, Match, UNCHANGED backend
  PROVE  Gnark!Match
  <1>1. PICK x : /\ ActiveSlot(x) /\ slot[x + 1].sat
                 /\ \A m \in Span(0, x) : m < claimed => ~slot[m + 1].sat
                 /\ NotRevoked(MaxSev(platform, slot[x + 1].sev))
                 /\ status' = MaxSev(platform, slot[x + 1].sev)
    BY DEF Match
  <1>2. /\ pc = "match" /\ pc' = "accepted"
        /\ UNCHANGED <<doc, platform, hint, claimed, slot>>
    BY DEF Match
  <1>3. x \in Int /\ \A m \in 0 .. (x - 1) : m < claimed => ~slot[m + 1].sat
    BY <1>1, QeAssumption DEF ActiveSlot, Span
  <1>4. QED
    BY <1>1, <1>2, <1>3, VerdictRefines DEF NotRevoked

LEMMA BothStep ==
  ASSUME IInv, backend \in {"gnark", "noir"}, [BothNext]_noirVars
  PROVE  [Gnark!Next]_Gnark!vars
  <1>1. CASE UNCHANGED noirVars
    <2>1. UNCHANGED <<doc, platform, pc, hint, claimed, slot, status, backend>>
      BY <1>1 DEF noirVars, vars
    <2>2. UNCHANGED Gnark!vars
      BY <2>1 DEF Gnark!vars, PcOf, ClaimOf, Waiting, Abridged, HintedCount, Clamp
    <2>3. QED
      BY <2>2
  <1>2. CASE ((Build /\ backend = "gnark") \/ (WriteQeBound /\ backend = "noir")) /\ UNCHANGED backend
    BY <1>2, HostIsStutter
  <1>3. CASE (BindLevel \/ BindQeLevel) /\ UNCHANGED backend
    BY <1>3, BindQeLevelIsBindLevel, BindLevelRefines DEF Gnark!Next
  <1>4. CASE (CheckCount \/ CheckCounts) /\ UNCHANGED backend
    BY <1>4, CheckCountRefines DEF CheckCounts, CheckCount, Gnark!Next
  <1>5. CASE Match /\ UNCHANGED backend
    BY <1>5, MatchRefines DEF Gnark!Next
  <1>6. CASE SelectAndMerge /\ UNCHANGED backend
    <2>1. /\ pc = "match" /\ pc' = "accepted"
          /\ UNCHANGED <<doc, platform, hint, claimed, slot>>
      BY <1>6, SelectAndMergeIsMatch
    <2>2. PICK x \in 0 .. (claimed - 1) :
              /\ ActiveSlot(x) /\ slot[x + 1].sat
              /\ \A m \in 0 .. (x - 1) : ~slot[m + 1].sat
              /\ status' = MaxSev(platform, slot[x + 1].sev) /\ status' # Revoked
      BY <1>6, SelectAndMergeIsMatch
    <2>3. QED
      BY <1>6, <2>1, <2>2, VerdictRefines DEF Gnark!Next
  <1>7. CASE BothNext
    <2>1. UNCHANGED backend
      BY <1>7 DEF BothNext
    <2>2. CASE backend = "gnark" /\ Next
      <3>1. Build \/ BindLevel \/ CheckCount \/ Match
        BY <2>2 DEF Next
      <3>2. CASE Build
        <4>1. backend = "gnark"
          BY <2>2
        <4>2. UNCHANGED Gnark!vars
          BY <2>1, <3>2, <4>1, HostIsStutter
        <4>3. QED
          BY <4>2
      <3>3. CASE BindLevel
        BY <1>3, <2>1, <3>3
      <3>4. CASE CheckCount
        BY <1>4, <2>1, <3>4
      <3>5. CASE Match
        BY <1>5, <2>1, <3>5
      <3>6. QED
        BY <3>1, <3>2, <3>3, <3>4, <3>5
    <2>3. CASE backend = "noir" /\ NoirNext
      BY <1>2, <1>3, <1>4, <1>6, <2>1, <2>3 DEF NoirNext
    <2>4. QED
      BY <1>7, <2>2, <2>3 DEF BothNext
  <1>8. QED
    BY <1>1, <1>7

LEMMA BothStart ==
  ASSUME BothInit
  PROVE  Gnark!Init
  <1>1. /\ doc \in Docs /\ platform \in PlatformSevs /\ slot = <<>> /\ status = None
        /\ \/ pc = "build"
           \/ pc = "bind" /\ claimed \in 0 .. (MaxQeLevels + 1)
        /\ WellFormed(doc) /\ MaxQeLevels \in Nat \ {0}
    BY QeAssumption DEF BothInit, Init
  <1>2. PcOf = "bind"
    BY <1>1 DEF PcOf, Waiting
  <1>3. ClaimOf \in 0 .. (MaxQeLevels + 1)
    <2>1. CASE pc = "build"
      BY <1>1, <2>1, ClampTyped DEF ClaimOf, Waiting
    <2>2. CASE pc = "bind" /\ claimed \in 0 .. (MaxQeLevels + 1)
      BY <1>1, <2>2 DEF ClaimOf, Waiting, Abridged
    <2>3. QED
      BY <1>1, <2>1, <2>2
  <1>4. QED
    BY <1>1, <1>2, <1>3 DEF Gnark!Init

(* Both circuits, with any host's hints or with none, implement the gnark   *)
(* circuit as an arbitrary prover meets it: selecting inside the loop, prefix *)
(* counts and the clamped claim let nothing through that it refuses.         *)
THEOREM BothImplementGnark == BothSpec => ImplementsGnark
  <1>1. BothSpec => []IInv
    BY BothInvariance
  <1>2. BothInit => backend \in {"gnark", "noir"}
    BY DEF BothInit
  <1>3. ASSUME backend \in {"gnark", "noir"}, [BothNext]_noirVars
        PROVE  (backend \in {"gnark", "noir"})'
    BY <1>3 DEF BothNext, noirVars
  <1>4. BothSpec => [](backend \in {"gnark", "noir"})
    BY <1>2, <1>3, PTL DEF BothSpec
  <1>5. QED
    BY <1>1, <1>4, BothStart, BothStep, PTL DEF BothSpec, ImplementsGnark, Gnark!Spec

--------------------------------------------------------------------------------
(* From gnark to Noir.                                                      *)

LEMMA BindLevelIsBindQeLevel ==
  ASSUME IInv, BindLevel
  PROVE  BindQeLevel
  <1> PICK n \in Nat : n = Len(slot)
    BY DEF IInv, Anchored
  <1>1. PICK p \in Anchors(doc), s \in Statuses(doc) :
          LET isLevel == slot # <<>> => p # slot[n].at IN
          /\ Signed(p) /\ Follows(p) /\ ClosesLast(p) /\ Signed(s.at)
          /\ isLevel => p < s.at /\ FirstStatus(n + 1, p, s.at)
          /\ \E v \in Offered(Hinted(n + 1),
                              IF isLevel THEN {BoundTo(p, s)} ELSE Padding(p)) :
               /\ v.at = p /\ (isLevel => v = BoundTo(p, s))
               /\ slot' = Append(slot, v)
    BY DEF BindLevel
  <1>2. Monotonic(p)
    BY <1>1 DEF Monotonic, Follows
  <1>3. p \in Nat /\ s.at \in Nat /\ WellFormed(doc)
    <2>1. WellFormed(doc)
      BY DEF IInv
    <2>2. \E a \in Levels(doc) : p = doc.level[a].at
      BY <1>1, <2>1, SignedAnchors
    <2>3. QED
      BY <2>1, <2>2, FieldOrder, StatusTyped
  <1>4. p < s.at => (Pinned(n + 1, p, s.at) <=> FirstStatus(n + 1, p, s.at))
    BY <1>1, <1>3, CountsAgree
  <1>5. /\ pc = "bind" /\ pc' = IF n + 1 = MaxQeLevels THEN "count" ELSE "bind"
        /\ UNCHANGED <<doc, platform, hint, claimed, status>>
    BY DEF BindLevel
  <1>6. QED
    BY <1>1, <1>2, <1>4, <1>5 DEF BindQeLevel

LEMMA MatchIsSelectAndMerge ==
  ASSUME IInv, Match, hint = None
  PROVE  SelectAndMerge
  <1>1. /\ pc = "match" /\ pc' = "accepted" /\ MaxQeLevels \in Nat \ {0}
        /\ UNCHANGED <<doc, platform, hint, claimed, slot>>
        /\ claimed \in Nat /\ claimed <= MaxQeLevels
    BY QeAssumption, LevelIndices DEF Match, IInv, Settled, Aligned
  <1>2. PICK x : /\ ActiveSlot(x) /\ slot[x + 1].sat
                 /\ \A m \in Span(0, x) : m < claimed => ~slot[m + 1].sat
                 /\ NotRevoked(MaxSev(platform, slot[x + 1].sev))
                 /\ status' = MaxSev(platform, slot[x + 1].sev)
    BY DEF Match
  <1>3. x \in 0 .. (MaxQeLevels - 1) /\ x < claimed /\ x \in Span(0, MaxQeLevels)
    BY <1>1, <1>2 DEF ActiveSlot, Span
  <1>4. x \in Offered(hint.idx, 0 .. (MaxQeLevels + 1))
    BY <1>1, <1>3 DEF Offered
  <1>5. ASSUME NEW m \in Span(0, MaxQeLevels)
        PROVE  /\ m = x => slot[m + 1].sat
               /\ ~(Earlier(m, x) /\ slot[m + 1].sat)
    BY <1>1, <1>2, <1>3, <1>5 DEF Span, Earlier
  <1>6. QED
    BY <1>1, <1>2, <1>3, <1>4, <1>5 DEF SelectAndMerge, NotRevoked, NotTcbRevoked

(* The rewriting refuses nothing: what an arbitrary prover gets accepted by *)
(* the gnark circuit, it gets accepted by the Noir circuit, step by step.   *)
THEOREM GnarkImplementsNoir ==
  Spec /\ pc = "bind" /\ backend = "noir" /\ [][UNCHANGED backend]_noirVars => BothSpec
  <1> DEFINE J == /\ IInv /\ backend = "noir"
                  /\ hint = None /\ pc \notin {"build", "failed"}
  <1>1. ASSUME Init, pc = "bind", backend = "noir" PROVE BothInit /\ J
    BY <1>1, InitIInv DEF Init, BothInit
  <1>2. ASSUME J, [Next]_vars, [UNCHANGED backend]_noirVars PROVE [BothNext]_noirVars /\ J'
    <2>1. UNCHANGED backend /\ ~Build
      BY <1>2 DEF noirVars, Build
    <2>2. IInv'
      BY <1>2, GnarkStep
    <2>3. UNCHANGED hint /\ pc' \notin {"build", "failed"}
      BY <1>2, <2>1 DEF Next, BindLevel, CheckCount, Match, vars
    <2>4. Next => NoirNext
      BY <1>2, <2>1, BindLevelIsBindQeLevel, MatchIsSelectAndMerge
         DEF Next, NoirNext, CheckCount, CheckCounts
    <2>5. QED
      BY <1>2, <2>1, <2>2, <2>3, <2>4 DEF BothNext, noirVars
  <1>3. QED
    BY <1>1, <1>2, PTL DEF Spec, BothSpec
================================================================================
