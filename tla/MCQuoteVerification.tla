-------------------------- MODULE MCQuoteVerification --------------------------
(* Two platforms of different families under one CA, a second CA that       *)
(* certifies nobody, and a TCB recovery at time 1: the second TCB-Info of   *)
(* the first family asks for a greater SVN than that platform has, and only *)
(* the second one of the other family has a level for its platform.         *)
EXTENDS QuoteVerification, TLC

CONSTANTS p1, p2, c1, c2, f1, f2

MCCaOf == [p \in Platforms |-> c1]
MCFmspcOf == p1 :> f1 @@ p2 :> f2
MCSvnOf == p1 :> 0 @@ p2 :> 1
MCTcbVerdict ==
  [f \in Fmspcs |-> [e \in Evals |-> [s \in Svns \X Svns |->
     CASE f = f1 /\ e = 2 /\ s # <<1, 1>> -> 4
       [] f = f2 /\ e = 1 -> None
       [] OTHER -> 0]]]
MCQeVerdict == [e \in QeEvals |-> [s \in Svns |-> 1 - s]]
MCNewEval == [e \in Evals |-> e - 1]
================================================================================
