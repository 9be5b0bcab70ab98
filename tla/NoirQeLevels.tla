------------------------------ MODULE NoirQeLevels -----------------------------
(***************************************************************************)
(* The quoting enclave's levels in the Noir circuit (crates/dcap/src/      *)
(* tcb.nr, bind_qe_identity and merge_status) with the hints of its host   *)
(* (tools/genprover.go, writeQeBound).                                     *)
(*                                                                         *)
(* A behaviour is one of the gnark circuit and its builder (QeLevels) or   *)
(* one of the Noir circuit and its host, in the same state.  In Noir one    *)
(* loop binds the levels and selects, so what it takes for a level before   *)
(* the chosen one is a slot that moved, not a slot below the claimed count; *)
(* the first status is recognised by prefix counts; the host clamps the     *)
(* count it claims.                                                         *)
(***************************************************************************)
EXTENDS QeLevels

VARIABLE backend   \* "gnark" or "noir"

noirVars == <<vars, backend>>

--------------------------------------------------------------------------------
(* Variant: the padding slots are counted.                                  *)
CountPadded == MaxQeLevels

HintedCount == Clamp(Len(doc.level))

(* genprover.  The level count is clamped before the levels are looked for. *)
WriteQeBound ==
  /\ pc = "build"
  /\ IF Cardinality(Found) >= Clamp(Len(doc.level)) /\ Candidates # {}
     THEN LET x == Smallest(Candidates) IN
          /\ pc' = "bind"
          /\ claimed' = HintedCount
          /\ hint' = [slot |-> [i \in 1..MaxQeLevels |-> SlotHint(i)], idx |-> x - 1]
     ELSE pc' = "failed" /\ UNCHANGED <<claimed, hint>>
  /\ UNCHANGED <<doc, platform, slot, status>>

--------------------------------------------------------------------------------
(* The new slot moves or repeats the last; once one repeats, all do.        *)
Monotonic(p) == slot # <<>> => LET n == Len(slot) IN
                  /\ p >= slot[n].at
                  /\ ~(~Active(n) /\ p # slot[n].at)

(* Variant (before QE-H1-NONLAST): only the last level's status is pinned.  *)
PinnedIfLast(i, p, st) ==
  i = claimed => Cardinality({q \in Span(p, st) : StatusAt(q) /\ Signed(q)}) = 0

(* status_cumsum, read at the status and at the level's start.              *)
StatusCum(p) == Cardinality({q \in Span(0, p) : StatusAt(q) /\ Signed(q)})
Pinned(i, p, st) == StatusCum(st) = StatusCum(p)

(* One turn of the loop.                                                    *)
BindQeLevel ==
  LET i == Len(slot) + 1 IN
  /\ pc = "bind"
  /\ \E p \in Anchors(doc), s \in Statuses(doc) :
       LET active == slot # <<>> => p # slot[Len(slot)].at IN
       /\ Signed(p) /\ Monotonic(p) /\ ClosesLast(p) /\ Signed(s.at)
       /\ active => p < s.at /\ Pinned(i, p, s.at)
       /\ \E v \in Offered(Hinted(i), IF active THEN {BoundTo(p, s)} ELSE Padding(p)) :
            /\ v.at = p /\ (active => v = BoundTo(p, s))
            /\ slot' = Append(slot, v)
  /\ pc' = IF i = MaxQeLevels THEN "count" ELSE "bind"
  /\ UNCHANGED <<doc, platform, hint, claimed, status>>

CheckCounts ==
  /\ pc = "count"
  /\ Count = claimed /\ Count = Total
  /\ pc' = "match"
  /\ UNCHANGED <<doc, platform, hint, claimed, slot, status>>

(* Variant: an earlier level is skipped only if it is not the first.        *)
EarlierButFirst(m, x) == m \in Span(1, x) /\ Active(m + 1)

(* A slot that moved, before the chosen one.                                *)
Earlier(m, x) == m < x /\ Active(m + 1)

(* Variant: a revoked verdict is returned.                                  *)
Returned(merged) == TRUE

NotTcbRevoked(merged) == merged # Revoked

(* The selection in the loop, then merge_status.                            *)
SelectAndMerge ==
  /\ pc = "match"
  /\ \E x \in Offered(hint.idx, 0 .. (MaxQeLevels + 1)) :
       /\ x < claimed
       /\ \A m \in Span(0, MaxQeLevels) :
            /\ m = x => slot[m + 1].sat
            /\ ~(Earlier(m, x) /\ slot[m + 1].sat)
       /\ LET qeSev == IF x \in Span(0, MaxQeLevels) THEN slot[x + 1].sev ELSE 0
              merged == MaxSev(platform, qeSev)
          IN  NotTcbRevoked(merged) /\ status' = merged
  /\ pc' = "accepted"
  /\ UNCHANGED <<doc, platform, hint, claimed, slot>>

--------------------------------------------------------------------------------
NoirNext == WriteQeBound \/ BindQeLevel \/ CheckCounts \/ SelectAndMerge

BothInit == Init /\ backend \in {"gnark", "noir"}

BothNext == /\ (backend = "gnark" /\ Next) \/ (backend = "noir" /\ NoirNext)
            /\ UNCHANGED backend

BothSpec == BothInit /\ [][BothNext]_noirVars

FairBothSpec == BothSpec /\ WF_noirVars(BothNext)

--------------------------------------------------------------------------------
(* Refinement: to the gnark circuit, a host is a prover with hints of its   *)
(* own; it starts when the host has ended.  A claim that no slots can meet  *)
(* is as good as any other.                                                 *)
Abridged(n) == IF n > MaxQeLevels THEN MaxQeLevels + 1 ELSE n

Waiting == pc \in {"build", "failed"}
PcOf == IF Waiting THEN "bind" ELSE pc
ClaimOf == IF ~Waiting THEN Abridged(claimed)
           ELSE IF backend = "noir" THEN HintedCount ELSE Abridged(Len(doc.level))

Gnark == INSTANCE QeLevels WITH pc <- PcOf, claimed <- ClaimOf, hint <- None

(* Whatever its hints, the Noir circuit accepts only what the gnark circuit *)
(* accepts of some prover, with the same public status: a level selected in *)
(* the loop is the one selected after it, although the count is known only  *)
(* at its end (tcb.nr 419-491).                                             *)
ImplementsGnark == Gnark!Spec
================================================================================
