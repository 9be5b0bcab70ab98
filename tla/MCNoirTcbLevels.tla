---------------------------- MODULE MCNoirTcbLevels ----------------------------
(* Both circuits on the documents of MCTcbLevels.  A behaviour is one of the *)
(* gnark circuit and its builder, or one of the Noir circuit and genprover.  *)
EXTENDS NoirTcbLevels, MCTcbLevels

CONSTANT Gnark            \* the levelCount of a gnark behaviour

SideInit == NoirInit \/ (Init /\ levelCount = Gnark)

GnarkNext == levelCount = Gnark /\ Next /\ UNCHANGED levelCount

SideNext == GnarkNext \/ (levelCount # Gnark /\ NoirNext)

SideSpec == SideInit /\ [][SideNext]_noirVars /\ WF_noirVars(SideNext)
================================================================================
