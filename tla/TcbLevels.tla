------------------------------- MODULE TcbLevels -------------------------------
(***************************************************************************)
(* How the gnark circuit binds the platform TCB verdict to the signed      *)
(* TCB-Info (circuit/tcbextract.go, circuit/dcap.go) and how the witness   *)
(* builder supplies its offsets (witness/builder.go).                      *)
(*                                                                         *)
(* Every offset is a witness: the circuit only reads the signed bytes at   *)
(* the offsets it is given.  An action chooses the offsets of one slot and *)
(* its guards are the constraints on them, so a behaviour that stops       *)
(* before "accepted" is an assignment the circuit rejects.  A behaviour    *)
(* that starts with "build" has the builder's offsets; in the others they  *)
(* are arbitrary.                                                          *)
(*                                                                         *)
(* A document is seen through its anchor literals: where the array, level, *)
(* pcesvn, tdx-array and tcbStatus literals start, and the value after     *)
(* each.  A threshold is known only by whether the platform meets it.      *)
(***************************************************************************)
EXTENDS Integers, Sequences, FiniteSets

CONSTANTS Docs,        \* the documents considered
          MaxLevels,   \* MaxTcbLevels, the number of slots
          Severities,
          None

Width == 2             \* bound: bytes of a literal and the value after it

(* doc: len and size (signed prefix, buffer), arrays ("tcbLevels":[ starts),*)
(* level (the level objects of the signed array in document order), other   *)
(* (status literals of no level), tail (level literals not wholly signed).  *)
LevelType == [at : Nat, pceAt : Nat, tdxAt : Nat, stAt : Nat,
              sgx : BOOLEAN, pce : BOOLEAN, tdx : BOOLEAN, sev : Severities]

Statuses(d) == {[at |-> d.level[k].stAt, sev |-> d.level[k].sev] : k \in DOMAIN d.level}
               \cup d.other

(* What Intel signs: levels one after another, the fields of each inside it *)
(* and in order, its own status the first one after its start, and no array *)
(* literal among them.                                                      *)
WellFormed(d) ==
  /\ d.len \in Nat /\ d.size \in Nat /\ d.len <= d.size
  /\ d.arrays \subseteq Nat /\ d.tail \subseteq Nat
  /\ d.other \subseteq [at : Nat, sev : Severities]
  /\ d.level \in Seq(LevelType)
  /\ \A k \in DOMAIN d.level : LET v == d.level[k] IN
       /\ v.at + Width <= v.pceAt /\ v.pceAt + Width <= v.tdxAt
       /\ v.tdxAt + Width <= v.stAt /\ v.stAt + Width <= d.len
       /\ \A j \in DOMAIN d.level : j > k => v.stAt < d.level[j].at
       /\ \A s \in d.other : s.at \in v.at .. v.stAt => s = [at |-> v.stAt, sev |-> v.sev]
  /\ \A p \in d.tail : p + Width > d.len
  /\ \A a \in d.arrays :
       /\ a + Width <= d.size
       /\ d.level # <<>> => a < d.level[1].at \/ a > d.level[Len(d.level)].at
  /\ \A s, t \in d.other : s.at = t.at => s = t

ASSUME TcbAssumption ==
  /\ MaxLevels \in Nat \ {0}
  /\ Severities \subseteq Nat
  /\ \A d \in Docs : WellFormed(d)

VARIABLES doc,
          pc,       \* "build", "anchor", "count", "bind", "select", "accepted", "failed"
          hint,     \* the builder's witness, or None
          start,    \* the level start of each slot anchored so far
          bound,    \* the values bound for each slot so far
          verdict   \* the severity of the chosen slot

vars == <<doc, pc, hint, start, bound, verdict>>

--------------------------------------------------------------------------------
(* Reading the document.                                                    *)

Levels(d) == DOMAIN d.level
Anchors(d) == {d.level[k].at : k \in Levels(d)} \cup d.tail
Signed(p) == p + Width <= doc.len
Span(lo, hi) == lo .. (hi - 1)

StatusAt(p) == \E s \in Statuses(doc) : s.at = p
SeverityAt(p) == (CHOOSE s \in Statuses(doc) : s.at = p).sev
Owner(p) == CHOOSE k \in Levels(doc) :
              p \in {doc.level[k].at, doc.level[k].pceAt, doc.level[k].tdxAt}

Satisfied(v) == v.sgx /\ v.pce /\ v.tdx
Smallest(S) == CHOOSE x \in S : \A y \in S : x <= y
Largest(S) == CHOOSE x \in S : \A y \in S : y <= x

--------------------------------------------------------------------------------
(* The builder.                                                             *)

(* bytes.LastIndex of the array literal, then every level literal after it. *)
ArrayOff == Largest(doc.arrays)
Found == {doc.level[k].at : k \in {j \in Levels(doc) : doc.level[j].at >= ArrayOff}}

Clamp(n) == IF n > MaxLevels THEN MaxLevels ELSE n

(* Padding slots repeat the last real one.                                  *)
Source(i) == IF i > Clamp(Len(doc.level)) THEN Clamp(Len(doc.level)) ELSE i

(* Variant: a padding slot starts where the signed document ends.           *)
StartAtEnd(i) == IF i > Len(doc.level) THEN doc.len ELSE doc.level[Source(i)].at

SlotStart(i) == doc.level[Source(i)].at

SlotHint(i) == LET v == doc.level[Source(i)]
                   own == {s \in Statuses(doc) : s.at >= v.at}
               IN  [start |-> SlotStart(i), pce |-> v.pceAt, tdx |-> v.tdxAt,
                    status |-> Smallest({s.at : s \in own})]

Candidates == {k \in 1..Clamp(Len(doc.level)) : Satisfied(doc.level[k])}

(* NewDcapCircuit's errors: too few level literals after the array, or no   *)
(* level the platform satisfies among the slots.  With no level at all it   *)
(* panics on the slot before the first.                                     *)
Build ==
  /\ pc = "build"
  /\ IF doc.arrays # {} /\ Cardinality(Found) >= Len(doc.level) /\ Candidates # {}
     THEN /\ pc' = "anchor"
          /\ hint' = [array |-> ArrayOff, slot |-> [i \in 1..MaxLevels |-> SlotHint(i)],
                      idx |-> Smallest(Candidates) - 1]
     ELSE pc' = "failed" /\ UNCHANGED hint
  /\ UNCHANGED <<doc, start, bound, verdict>>

--------------------------------------------------------------------------------
(* The circuit.  Offered is what the witness may hold.                      *)

Offered(h, any) == IF hint = None THEN any ELSE {h}
Positions == 0 .. (doc.size - 1)
Hinted(i) == hint.slot[i]

Active(i) == i > 1 => start[i] # start[i - 1]
Count == Cardinality({i \in DOMAIN start : Active(i)})

(* Slot 0 follows the array literal; a later slot is no earlier than the    *)
(* one before it, and once a slot repeats its predecessor all do.           *)
Follows(p) ==
  IF start = <<>>
  THEN p - Width \in Offered(hint.array, Positions) \cap doc.arrays
  ELSE /\ p >= start[Len(start)]
       /\ p \in Offered(Hinted(Len(start) + 1).start, Positions)
       /\ ~Active(Len(start)) => p = start[Len(start)]

(* Variant: the loop runs once too often.                                   *)
OnePastLast(i) == i = MaxLevels + 1

LastSlot(i) == i = MaxLevels

(* The first pass of deriveAndBindTcbLevels.                                *)
AnchorSlot ==
  /\ pc = "anchor"
  /\ \E p \in Anchors(doc) :
       /\ Signed(p) /\ Follows(p)
       /\ start' = Append(start, p)
       /\ pc' = IF LastSlot(Len(start) + 1) THEN "count" ELSE "anchor"
  /\ UNCHANGED <<doc, hint, bound, verdict>>

(* Variant (before F1): the count is not compared with the document.        *)
TotalIgnored == Count

(* countLiteralOccurrences over the signed prefix.                          *)
Total == Cardinality({p \in Anchors(doc) : Signed(p)})

CheckCount ==
  /\ pc = "count"
  /\ Count = Total
  /\ pc' = "bind"
  /\ UNCHANGED <<doc, hint, start, bound, verdict>>

(* The slot's extent: up to the next active slot, else the signed length.   *)
EndOf(i) == IF i < MaxLevels /\ Active(i + 1) THEN start[i + 1] ELSE doc.len

(* Variant (before H1): any status literal of the extent will do.           *)
AnyStatus(lo, p, active) == TRUE

(* assertNoLiteralInRange: no status literal starts in [lo, p).             *)
FirstStatus(lo, p, active) == active => \A q \in Span(lo, p) : ~StatusAt(q)

(* Variant (before F2): the tdx array may be an earlier level's.            *)
TdxBelow(pce, tdx, st) == tdx < st

TdxInside(pce, tdx, st) == tdx \in Span(pce, st)

(* bindTcbLevel.  The sgx components hang off the anchored start.           *)
BindSlot ==
  LET i == Len(bound) + 1 IN
  /\ pc = "bind"
  /\ \E own, other \in Levels(doc) : \E s \in Statuses(doc) :
       LET pce == doc.level[own].pceAt
           tdx == doc.level[other].tdxAt
           st  == s.at
       IN  /\ {pce, st} \subseteq Span(start[i], EndOf(i))
           /\ pce \in Offered(Hinted(i).pce, Positions) /\ Signed(pce)
           /\ tdx \in Offered(Hinted(i).tdx, Positions) /\ Signed(tdx)
           /\ st \in Offered(Hinted(i).status, Positions) /\ Signed(st)
           /\ FirstStatus(start[i], st, Active(i))
           /\ TdxInside(pce, tdx, st)
           /\ bound' = Append(bound, [sgx |-> doc.level[Owner(start[i])].sgx,
                                      pce |-> doc.level[own].pce,
                                      tdx |-> doc.level[other].tdx, sev |-> s.sev])
  /\ pc' = IF LastSlot(i) THEN "select" ELSE "bind"
  /\ UNCHANGED <<doc, hint, start, verdict>>

(* Variant (before C1): the match index is not decomposed, so it may be a   *)
(* field element such as p - 1, written -1.                                 *)
AnyElement(x) == TRUE

(* ToBinary(idx, 4) of step8: the index is a slot number.                   *)
SlotNumber(x) == x \in Span(0, MaxLevels)

(* Variant (before G5): any satisfied level may be chosen.                  *)
NoneBefore(x) == TRUE

FirstSatisfied(x) == \A m \in Span(0, x) : m < Count => ~Satisfied(bound[m + 1])

(* step8MatchPlatformTcb, and muxVar, which yields 0 where no slot matches. *)
Select ==
  /\ pc = "select"
  /\ \E x \in Offered(hint.idx, -1 .. MaxLevels) :
       /\ SlotNumber(x) /\ x <= Count - 1
       /\ \A m \in Span(0, MaxLevels) : m = x => Satisfied(bound[m + 1])
       /\ FirstSatisfied(x)
       /\ verdict' = IF x \in Span(0, MaxLevels) THEN bound[x + 1].sev ELSE 0
  /\ pc' = "accepted"
  /\ UNCHANGED <<doc, hint, start, bound>>

--------------------------------------------------------------------------------
(* A buffer the builder fills ends where the signed document ends.          *)
Init == /\ doc \in Docs
        /\ pc \in {"build", "anchor"} /\ (pc = "build" => doc.tail = {})
        /\ hint = None /\ start = <<>> /\ bound = <<>> /\ verdict = None

Next == Build \/ AnchorSlot \/ CheckCount \/ BindSlot \/ Select

Spec == Init /\ [][Next]_vars

(* Building a witness and solving the circuit are one sequential computation *)
(* that does not stop while a constraint can be evaluated.                   *)
FairSpec == Spec /\ WF_vars(Next)

--------------------------------------------------------------------------------
BoundType == [sgx : BOOLEAN, pce : BOOLEAN, tdx : BOOLEAN, sev : Severities]

(* Every variable has its type.                                             *)
TypeOK ==
  /\ WellFormed(doc)
  /\ pc \in {"build", "anchor", "count", "bind", "select", "accepted", "failed"}
  /\ start \in Seq(Nat) /\ Len(start) <= MaxLevels
  /\ bound \in Seq(BoundType) /\ Len(bound) <= MaxLevels
  /\ verdict \in Severities \cup {0, None}

(* The active slots are the levels of the signed document, all of them and  *)
(* in order, and each slot binds its own level's thresholds and status,     *)
(* whatever offsets the witness holds and whatever status literals precede, *)
(* follow or trail the levels (tcbextract.go 494-583, rounds C3, F1, F2 and *)
(* H1).                                                                     *)
EveryLevelBound ==
  pc \in {"select", "accepted"} =>
    /\ Count = Len(doc.level)
    /\ \A k \in 1..Count : LET v == doc.level[k] IN
         /\ start[k] = v.at
         /\ bound[k] = [sgx |-> v.sgx, pce |-> v.pce, tdx |-> v.tdx, sev |-> v.sev]

(* An accepted witness carries the severity of the first level, in document *)
(* order, that the platform satisfies: a prover cannot choose a softer one  *)
(* (step8MatchPlatformTcb, dcap.go 353-393, rounds C1 and G5).              *)
CanonicalVerdict ==
  pc = "accepted" =>
    \E k \in Levels(doc) : /\ Satisfied(doc.level[k])
                           /\ \A j \in 1..(k - 1) : ~Satisfied(doc.level[j])
                           /\ verdict = doc.level[k].sev

(* The builder's witness is accepted whenever there is one to accept: the   *)
(* levels fit the slots, the last "tcbLevels" array is the top-level one    *)
(* (builder.go 312-314) and some level is satisfied.  Padding slots and     *)
(* statuses outside the levels do not stand in the way.                     *)
Provable(d) == /\ Len(d.level) <= MaxLevels
               /\ \E k \in DOMAIN d.level : Satisfied(d.level[k])
               /\ d.arrays # {} /\ Largest(d.arrays) + Width = d.level[1].at

HonestAccepted == pc = "build" /\ Provable(doc) ~> pc = "accepted"
================================================================================
