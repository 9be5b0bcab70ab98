---------------------------- MODULE MCNoirQeLevels -----------------------------
(* Both circuits on the documents of MCQeLevels (FairBothSpec).              *)
EXTENDS NoirQeLevels, MCQeLevels
================================================================================
