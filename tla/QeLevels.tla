------------------------------- MODULE QeLevels --------------------------------
(***************************************************************************)
(* How the gnark circuit binds the quoting enclave's TCB levels to the     *)
(* signed QE-Identity and merges their verdict with the platform's         *)
(* (circuit/tcbextract.go, bindQeIdentity; circuit/dcap.go,                *)
(* step9and10MergeStatus), and what the witness builder supplies.          *)
(*                                                                         *)
(* Three things differ from TcbLevels.  Slot 0 is not pinned to an array   *)
(* literal; the count that the loop reads is a witness, compared with the  *)
(* slots only after it; and a padding slot is not compared with the        *)
(* document at all, so its threshold and severity are whatever the witness *)
(* says.                                                                   *)
(***************************************************************************)
EXTENDS Integers, Sequences, FiniteSets

CONSTANTS Docs,          \* the documents considered
          MaxQeLevels,   \* MaxQeTcbLevels, the number of slots
          Severities,
          PlatformSevs,  \* bound: the severities step8 may have chosen
          PaddingSevs,   \* bound: severities of a padding slot, besides its last's
          Revoked,       \* TcbRevoked, the largest severity
          None

Width == 2               \* bound: bytes of a literal and the value after it

(* doc: len (signed prefix), level (its level objects in order), other      *)
(* (status literals of no level), tail (level literals not wholly signed).  *)
(* sat says whether the enclave's isvsvn meets the level's.                 *)
LevelType == [at : Nat, stAt : Nat, sat : BOOLEAN, sev : Severities]

Statuses(d) == {[at |-> d.level[k].stAt, sev |-> d.level[k].sev] : k \in DOMAIN d.level}
               \cup d.other

WellFormed(d) ==
  /\ d.len \in Nat /\ d.tail \subseteq Nat
  /\ d.other \subseteq [at : Nat, sev : Severities]
  /\ d.level \in Seq(LevelType)
  /\ \A k \in DOMAIN d.level : LET v == d.level[k] IN
       /\ v.at + Width <= v.stAt /\ v.stAt + Width <= d.len
       /\ \A j \in DOMAIN d.level : j > k => v.stAt < d.level[j].at
       /\ \A s \in d.other : s.at \in v.at .. v.stAt => s = [at |-> v.stAt, sev |-> v.sev]
  /\ \A p \in d.tail : p + Width > d.len

ASSUME QeAssumption ==
  /\ MaxQeLevels \in Nat \ {0}
  /\ Severities \subseteq Nat /\ Revoked \in Severities /\ PlatformSevs \subseteq Severities
  /\ PaddingSevs \subseteq Severities
  /\ \A s \in Severities : s <= Revoked
  /\ \A d \in Docs : WellFormed(d)

VARIABLES doc,
          platform,   \* the severity step8 chose on the platform side
          pc,         \* "build", "bind", "count", "match", "accepted", "failed"
          hint,       \* the builder's witness, or None
          claimed,    \* QeIdTcbCount, or None
          slot,       \* the slots bound so far
          status      \* the public TcbStatus, or None

vars == <<doc, platform, pc, hint, claimed, slot, status>>

--------------------------------------------------------------------------------
Levels(d) == DOMAIN d.level
Anchors(d) == {d.level[k].at : k \in Levels(d)} \cup d.tail
Signed(p) == p + Width <= doc.len
StatusAt(p) == \E s \in Statuses(doc) : s.at = p
LevelAt(p) == doc.level[CHOOSE k \in Levels(doc) : doc.level[k].at = p]
Span(lo, hi) == lo .. (hi - 1)
MaxSev(a, b) == IF a >= b THEN a ELSE b
Smallest(S) == CHOOSE x \in S : \A y \in S : x <= y

--------------------------------------------------------------------------------
(* The builder.  A document with more levels than slots keeps its own count. *)
Clamp(n) == IF n > MaxQeLevels THEN MaxQeLevels ELSE n

(* Variant: padding slots repeat the first level.                           *)
PadWithFirst(i) == IF i > Clamp(Len(doc.level)) THEN 1 ELSE i

(* Padding slots repeat the last level.                                     *)
Source(i) == IF i > Clamp(Len(doc.level)) THEN Clamp(Len(doc.level)) ELSE i
Found == {k \in Levels(doc) : Signed(doc.level[k].at)}
Candidates == {k \in 1..Clamp(Len(doc.level)) : doc.level[k].sat}

HintedStatus(i) ==
  Smallest({s.at : s \in {t \in Statuses(doc) : t.at >= doc.level[Source(i)].at}})

SlotHint(i) == LET v == doc.level[Source(i)]
               IN  [at |-> v.at, st |-> HintedStatus(i), sat |-> v.sat, sev |-> v.sev]

(* The status it publishes; x is the level it matches.                      *)
HintedMerge(x) == MaxSev(platform, doc.level[x].sev)

Build ==
  /\ pc = "build"
  /\ IF Cardinality(Found) >= Len(doc.level) /\ Candidates # {}
     THEN LET x == Smallest(Candidates) IN
          /\ pc' = "bind"
          /\ claimed' = Len(doc.level)
          /\ hint' = [slot |-> [i \in 1..MaxQeLevels |-> SlotHint(i)], idx |-> x - 1,
                      status |-> HintedMerge(x)]
     ELSE pc' = "failed" /\ UNCHANGED <<claimed, hint>>
  /\ UNCHANGED <<doc, platform, slot, status>>

--------------------------------------------------------------------------------
(* The circuit.  Offered is what the witness may hold.                      *)

Offered(h, any) == IF hint = None THEN any ELSE {h}
Hinted(i) == hint.slot[i]

Active(i) == i > 1 => slot[i].at # slot[i - 1].at
Count == Cardinality({i \in DOMAIN slot : Active(i)})

(* The new slot is no earlier than the last; once one repeats, all do.      *)
Follows(p) == slot # <<>> => LET n == Len(slot) IN
                /\ p >= slot[n].at
                /\ ~Active(n) => p = slot[n].at

(* The last slot's status is before this slot if the claimed count makes    *)
(* this slot a level.  (The loop reads the next offset one turn earlier.)   *)
ClosesLast(p) == slot # <<>> => LET n == Len(slot) IN
                   Active(n) /\ n < claimed => slot[n].st < p

(* Variant (before round 7): only the last level's status is pinned.        *)
FirstOfLast(i, p, st) == i = claimed => \A q \in Span(p, st) : ~StatusAt(q)

FirstStatus(i, p, st) == \A q \in Span(p, st) : ~StatusAt(q)

(* What an active slot is compared with.                                    *)
BoundTo(p, s) == [at |-> p, st |-> s.at, sat |-> LevelAt(p).sat, sev |-> s.sev]

(* A padding slot's values are compared with nothing, and nothing reads its *)
(* status offset, so it is not kept.                                        *)
Padding(p) == [at : {p}, st : {slot[Len(slot)].st}, sat : BOOLEAN,
               sev : PaddingSevs \cup {slot[Len(slot)].sev}]

(* One turn of bindQeIdentity's loop.  The anchor and a status literal are  *)
(* asserted of every slot.                                                  *)
BindLevel ==
  LET i == Len(slot) + 1 IN
  /\ pc = "bind"
  /\ \E p \in Anchors(doc), s \in Statuses(doc) :
       LET isLevel == slot # <<>> => p # slot[Len(slot)].at IN
       /\ Signed(p) /\ Follows(p) /\ ClosesLast(p) /\ Signed(s.at)
       /\ isLevel => p < s.at /\ FirstStatus(i, p, s.at)
       /\ \E v \in Offered(Hinted(i), IF isLevel THEN {BoundTo(p, s)} ELSE Padding(p)) :
            /\ v.at = p /\ (isLevel => v = BoundTo(p, s))
            /\ slot' = Append(slot, v)
  /\ pc' = IF i = MaxQeLevels THEN "count" ELSE "bind"
  /\ UNCHANGED <<doc, platform, hint, claimed, status>>

(* Variant (before F3): the count is not compared with the document.        *)
TotalIgnored == Count

(* countLiteralOccurrences over the signed prefix.                          *)
Total == Cardinality({p \in Anchors(doc) : Signed(p)})

CheckCount ==
  /\ pc = "count"
  /\ Count = claimed /\ Count = Total
  /\ pc' = "match"
  /\ UNCHANGED <<doc, platform, hint, claimed, slot, status>>

(* Variant: a padding slot may be chosen.                                   *)
AnySlot(x) == x \in Span(0, MaxQeLevels)

(* ToBinary(qeIdx, 3) and the bound by the count.                           *)
ActiveSlot(x) == x \in Span(0, MaxQeLevels) /\ x <= claimed - 1

(* Variant: a revoked verdict is published.                                 *)
Publishable(m) == TRUE

NotRevoked(m) == m # Revoked

(* step9and10MergeStatus.                                                   *)
Match ==
  /\ pc = "match"
  /\ \E x \in Offered(hint.idx, -1 .. MaxQeLevels) :
       /\ ActiveSlot(x) /\ slot[x + 1].sat
       /\ \A m \in Span(0, x) : m < claimed => ~slot[m + 1].sat
       /\ LET merged == MaxSev(platform, slot[x + 1].sev) IN
          /\ NotRevoked(merged)
          /\ merged \in Offered(hint.status, Severities)
          /\ status' = merged
  /\ pc' = "accepted"
  /\ UNCHANGED <<doc, platform, hint, claimed, slot>>

--------------------------------------------------------------------------------
(* The builder's buffer ends where the signed document ends.  A prover may  *)
(* claim any count; beyond the slots no count can match.                    *)
Init == /\ doc \in Docs /\ platform \in PlatformSevs
        /\ \/ pc = "build" /\ doc.tail = {} /\ claimed = None
           \/ pc = "bind" /\ claimed \in 0 .. (MaxQeLevels + 1)
        /\ hint = None /\ slot = <<>> /\ status = None

Next == Build \/ BindLevel \/ CheckCount \/ Match

Spec == Init /\ [][Next]_vars

(* Building a witness and solving the circuit are one sequential computation *)
(* that does not stop while a constraint can be evaluated.                   *)
FairSpec == Spec /\ WF_vars(Next)

--------------------------------------------------------------------------------
(* The active slots are the levels of the signed document, all of them, in  *)
(* order, each with its own threshold and status, although slot 0 is not    *)
(* pinned and the claimed count is a witness (tcbextract.go 276-336, rounds *)
(* L1, L2, F3 and H1).                                                      *)
QeLevelsBound ==
  pc \in {"match", "accepted"} =>
    /\ claimed = Len(doc.level)
    /\ \A k \in 1..claimed : LET v == doc.level[k] IN
         slot[k] = [at |-> v.at, st |-> v.stAt, sat |-> v.sat, sev |-> v.sev]

(* The public status is the worse of the platform's verdict and that of the *)
(* first level the enclave satisfies, and is never Revoked: no index, count *)
(* or padding value of the witness softens it (dcap.go 413-454).            *)
MergedVerdict ==
  pc = "accepted" =>
    /\ status < Revoked
    /\ \E k \in Levels(doc) : /\ doc.level[k].sat
                              /\ \A j \in 1..(k - 1) : ~doc.level[j].sat
                              /\ status = MaxSev(platform, doc.level[k].sev)

(* The builder's witness is accepted whenever the levels fit the slots and  *)
(* the verdict is publishable: padding slots and a second status in a level *)
(* do not stand in the way.                                                 *)
Provable(d, p) ==
  /\ Len(d.level) <= MaxQeLevels
  /\ \E k \in DOMAIN d.level :
       /\ d.level[k].sat /\ \A j \in 1..(k - 1) : ~d.level[j].sat
       /\ MaxSev(p, d.level[k].sev) # Revoked

HonestQeAccepted == pc = "build" /\ Provable(doc, platform) ~> pc = "accepted"
================================================================================
