------------------------------ MODULE MCQeLevels -------------------------------
EXTENDS QeLevels

CONSTANTS MaxDocLevels    \* bound: levels of a document

(* A level of severity k or, once satisfied, of the largest one.            *)
Kinds == {[sat |-> FALSE, worst |-> FALSE], [sat |-> TRUE, worst |-> FALSE],
          [sat |-> TRUE, worst |-> TRUE]}
Step == 3 * Width

Place(k, v) == [at |-> Width + (k - 1) * Step, stAt |-> Width + (k - 1) * Step + Width,
                sat |-> v.sat, sev |-> IF v.worst THEN Revoked ELSE k]

(* A status of severity 0 before the levels, perhaps one behind each level's *)
(* own, then perhaps an unsigned level literal, cut or past the end.         *)
Layout(vs, second, tail) ==
  LET len == Width + Len(vs) * Step + (IF tail = "cut" THEN 1 ELSE 0)
  IN  [len |-> len,
       level |-> [k \in 1..Len(vs) |-> Place(k, vs[k])],
       other |-> {[at |-> 0, sev |-> 0]}
                 \cup (IF second THEN {[at |-> 2 * Width + (k - 1) * Step + Width, sev |-> 0]
                                       : k \in 1..Len(vs)} ELSE {}),
       tail |-> CASE tail = "none" -> {} [] tail = "cut" -> {len - 1} [] tail = "out" -> {len}]

AllDocs == {Layout(vs, s, t) : vs \in UNION {[1..n -> Kinds] : n \in 0..MaxDocLevels},
                              s \in BOOLEAN,
                              t \in {"none", "cut", "out"}}

(* TLC evaluates a definition once, but the value of a constant each time.   *)
MCDocs == AllDocs
================================================================================
