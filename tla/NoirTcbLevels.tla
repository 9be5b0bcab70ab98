----------------------------- MODULE NoirTcbLevels -----------------------------
(***************************************************************************)
(* The same binding in the Noir circuit (crates/dcap/src/tcb.nr,           *)
(* bind_tcb_levels) with the hints of its own host (tools/genprover.go).   *)
(*                                                                         *)
(* It keeps the order and most constraints of the gnark circuit, so it has *)
(* that module's state.  It differs where it was written differently: the  *)
(* level count is a witness, compared with the derived count; the first    *)
(* status of a level is recognised by two reads of a prefix count, which   *)
(* leaves out literals past the signed prefix; the match index is a u32    *)
(* bounded by the claimed count; and one loop both checks the chosen level *)
(* and collects its severity.                                              *)
(***************************************************************************)
EXTENDS TcbLevels

VARIABLE levelCount   \* TcbBound.level_count, or None

noirVars == <<vars, levelCount>>

--------------------------------------------------------------------------------
(* writeTcbBound clamps the count before it looks for the levels.           *)

(* Variant: the padding slots are counted.                                  *)
CountPadded == MaxLevels

HintedCount == Clamp(Len(doc.level))

WriteTcbBound ==
  /\ pc = "build"
  /\ IF doc.arrays # {} /\ Cardinality(Found) >= HintedCount /\ Candidates # {}
     THEN /\ pc' = "anchor"
          /\ hint' = [array |-> ArrayOff, slot |-> [i \in 1..MaxLevels |-> SlotHint(i)],
                      idx |-> Smallest(Candidates) - 1]
          /\ levelCount' = HintedCount
     ELSE pc' = "failed" /\ UNCHANGED <<hint, levelCount>>
  /\ UNCHANGED <<doc, start, bound, verdict>>

--------------------------------------------------------------------------------
(* The circuit.                                                             *)

(* Variant: inactive slots may be followed by active ones.                  *)
NonDecreasing(i, s) == s >= start[i - 1]

(* A slot is active if it moves; once one is not, none is.                  *)
Monotonic(i, s) ==
  /\ s >= start[i - 1]
  /\ ~(~Active(i - 1) /\ s # start[i - 1])

(* The first pass: slot 0 hangs off the array literal.                      *)
AnchorStart ==
  LET i == Len(start) + 1 IN
  /\ pc = "anchor"
  /\ \E s \in Anchors(doc) :
       /\ Signed(s)
       /\ IF i = 1 THEN s - Width \in doc.arrays /\ s - Width \in Offered(hint.array, Positions)
          ELSE Monotonic(i, s) /\ s \in Offered(Hinted(i).start, Positions)
       /\ start' = Append(start, s)
  /\ pc' = IF i = MaxLevels THEN "count" ELSE "anchor"
  /\ UNCHANGED <<doc, hint, bound, verdict, levelCount>>

(* Variant: the claim is not compared with the slots.                       *)
ClaimIgnored(n) == TRUE

ClaimHolds(n) == n = Count

CheckCounts ==
  /\ pc = "count"
  /\ ClaimHolds(levelCount) /\ Count = Total
  /\ pc' = "bind"
  /\ UNCHANGED <<doc, hint, start, bound, verdict, levelCount>>

(* Variant: the prefix count reaches one literal too far.                   *)
CumShifted(p) == Cardinality({q \in Span(0, p - Width) : StatusAt(q) /\ Signed(q)})

(* status_cumsum: the signed status literals before p.                      *)
StatusCum(p) == Cardinality({q \in Span(0, p) : StatusAt(q) /\ Signed(q)})

(* bind_one_level.  The sgx array hangs off the slot's start.               *)
BindOneLevel ==
  LET i == Len(bound) + 1 IN
  /\ pc = "bind"
  /\ \E own, other \in Levels(doc), s \in Statuses(doc) :
       LET pceOff == doc.level[own].pceAt
           tdxOff == doc.level[other].tdxAt
       IN  /\ pceOff >= start[i] /\ pceOff < EndOf(i)
           /\ s.at >= start[i] /\ s.at < EndOf(i)
           /\ tdxOff >= pceOff /\ tdxOff < s.at
           /\ Active(i) => StatusCum(s.at) = StatusCum(start[i])
           /\ Signed(pceOff) /\ Signed(tdxOff) /\ Signed(s.at)
           /\ pceOff \in Offered(Hinted(i).pce, Positions)
           /\ tdxOff \in Offered(Hinted(i).tdx, Positions)
           /\ s.at \in Offered(Hinted(i).status, Positions)
           /\ bound' = Append(bound, [sgx |-> doc.level[Owner(start[i])].sgx,
                                      pce |-> doc.level[own].pce,
                                      tdx |-> doc.level[other].tdx, sev |-> s.sev])
  /\ pc' = IF i = MaxLevels THEN "select" ELSE "bind"
  /\ UNCHANGED <<doc, hint, start, verdict, levelCount>>

(* Variant: the bound is not strict.                                        *)
UpToCount(x) == x <= levelCount

BelowCount(x) == x < levelCount

(* select_canonical_tcb.                                                    *)
SelectCanonical ==
  /\ pc = "select"
  /\ \E x \in Offered(hint.idx, 0 .. (MaxLevels + 1)) :
       /\ BelowCount(x)
       /\ \A m \in Span(0, MaxLevels) :
            /\ m = x => Satisfied(bound[m + 1])
            /\ ~(m < levelCount /\ m < x /\ Satisfied(bound[m + 1]))
       /\ verdict' = IF x \in Span(0, MaxLevels) THEN bound[x + 1].sev ELSE 0
  /\ pc' = "accepted"
  /\ UNCHANGED <<doc, hint, start, bound, levelCount>>

--------------------------------------------------------------------------------
(* A prover may claim any count; beyond the slots no count can match.       *)
NoirInit == /\ Init
            /\ IF pc = "build" THEN levelCount = None
               ELSE levelCount \in 0 .. (MaxLevels + 1)

NoirNext == \/ WriteTcbBound \/ AnchorStart \/ CheckCounts \/ BindOneLevel
            \/ SelectCanonical

NoirSpec == NoirInit /\ [][NoirNext]_noirVars

--------------------------------------------------------------------------------
(* The Noir circuit accepts only what the gnark circuit accepts, with the   *)
(* same verdict, and its host goes wrong only where the gnark builder does: *)
(* the prefix counts, the claimed count and the merged loop are a rewriting *)
(* of the same constraints (tcb.nr 188-246, 285-333, 361-383).              *)
ImplementsGnark == Spec
================================================================================
