------------------------------- MODULE SvnArray --------------------------------
(***************************************************************************)
(* How one array of SVN components is bound to the signed TCB-Info:        *)
(* bindSvnArray (circuit/tcbextract.go), bind_svn_array (crates/dcap/src/  *)
(* tcb.nr), and the builder's findComponentStarts (witness/builder.go).    *)
(*                                                                         *)
(* The first component follows the array literal.  The others are witness  *)
(* offsets, each on a component that follows another, increasing, and      *)
(* before the field that closes the array.  Nothing counts the components: *)
(* the binding rests on an array having as many as there are slots.        *)
(*                                                                         *)
(* A component is known by its position, which decides the value read.     *)
(* TcbLevels takes the array as one threshold that is met or not.          *)
(***************************************************************************)
EXTENDS Integers, Sequences, FiniteSets

CONSTANTS Size,      \* bound: the positions of the document
          Slots,     \* MaxSgxComponents, MaxTdxComponents
          MaxComps,  \* bound: components of an array
          None

ASSUME ArrayAssumption == /\ Size \in Nat /\ Slots \in Nat \ {0} /\ MaxComps \in Nat
                          /\ None \notin Seq(Nat)

Positions == 0 .. (Size - 1)

VARIABLES comp,   \* where the array's components start, in order
          end,    \* pcesvn's offset for the sgx array, the status' for tdx
          other,  \* components of other arrays that follow a component
          pc,     \* "build", "bind", "accepted", "failed"
          hint,   \* the builder's offsets, or None
          bound   \* the offsets bound so far

arrayVars == <<comp, end, other, pc, hint, bound>>

--------------------------------------------------------------------------------
(* Where `},{"svn":` occurs (without the two bytes of the separator).       *)
Separated == {comp[j] : j \in 2 .. Len(comp)} \cup other

(* Variant: the region runs to the end of the document.                     *)
RegionOpen(q) == q >= comp[1]

(* The region from the array literal to the field that closes the array.    *)
Region(q) == q >= comp[1] /\ q < end

(* Every `{"svn":` of the region.                                            *)
Found == {q \in {comp[1]} \cup Separated : Region(q)}

Ordered(c) == \A i, j \in DOMAIN c : i < j => c[i] < c[j]

(* fillLevelOffsets refuses any other number of components.                 *)
FillOffsets ==
  /\ pc = "build"
  /\ IF Cardinality(Found) = Slots
     THEN pc' = "bind" /\ hint' = CHOOSE c \in [1 .. Slots -> Found] : Ordered(c)
     ELSE pc' = "failed" /\ UNCHANGED hint
  /\ UNCHANGED <<comp, end, other, bound>>

(* The literal of the array is followed by its first component.             *)
Head0 == comp[1]

(* Variant: the next component may be the last one again.                   *)
NotBefore(q) == q >= bound[Len(bound)]

Increasing(q) == q > bound[Len(bound)]

(* Variant: the array's end is not asserted.                                *)
Anywhere(q) == TRUE

Inside(q) == q < end

(* Variant: the loop stops a slot early.                                    *)
OneShort == Slots - 1

LastSlot == Slots

BindSlot ==
  LET i == Len(bound) + 1 IN
  /\ pc = "bind" /\ i <= LastSlot
  /\ \E q \in Positions :
       /\ hint # None => q = hint[i]
       /\ IF i = 1 THEN q = Head0 ELSE q \in Separated /\ Increasing(q) /\ Inside(q)
       /\ bound' = Append(bound, q)
  /\ UNCHANGED <<comp, end, other, pc, hint>>

Accept ==
  /\ pc = "bind" /\ Len(bound) = LastSlot
  /\ pc' = "accepted"
  /\ UNCHANGED <<comp, end, other, hint, bound>>

(* The end is behind the last component; other arrays are before the first  *)
(* component or behind the end.                                             *)
ArrayInit ==
  /\ \E n \in 1 .. MaxComps : comp \in {c \in [1 .. n -> Positions] : Ordered(c)}
  /\ end \in Positions /\ \A j \in DOMAIN comp : comp[j] < end
  /\ other \in SUBSET {q \in Positions : q < comp[1] \/ q > end}
  /\ pc \in {"build", "bind"} /\ hint = None /\ bound = <<>>

ArrayNext == FillOffsets \/ BindSlot \/ Accept

ArraySpec == ArrayInit /\ [][ArrayNext]_arrayVars

(* Building a witness and solving the circuit are one sequential computation *)
(* that does not stop while a constraint can be evaluated.                   *)
FairArraySpec == ArraySpec /\ WF_arrayVars(ArrayNext)

--------------------------------------------------------------------------------
(* In a document whose array has as many components as there are slots, an  *)
(* accepted slot is the component of its own number, whatever offsets the   *)
(* witness holds and whatever other arrays the document has: no component   *)
(* is left out, doubled or taken from another array, although nothing       *)
(* counts them (tcbextract.go 123-170, the argument of its comment).        *)
PositionalBinding == pc = "accepted" /\ Len(comp) = Slots => bound = comp

(* In any other document the prover has no builder to help it, but may fill *)
(* the slots: then they are distinct components of this array only.         *)
OwnComponents ==
  pc = "accepted" => /\ Len(bound) = Slots /\ Ordered(bound)
                     /\ \A i \in DOMAIN bound : \E j \in DOMAIN comp : bound[i] = comp[j]

(* The builder's offsets of such an array are accepted.                     *)
BuilderAccepted == pc = "build" /\ Len(comp) = Slots ~> pc = "accepted"
================================================================================
