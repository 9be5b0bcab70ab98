-------------------------- MODULE MCNoirVerification ---------------------------
(* The world of MCQuoteVerification for the Noir circuit.                    *)
EXTENDS NoirVerification, MCQuoteVerification
================================================================================
