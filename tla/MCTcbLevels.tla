------------------------------ MODULE MCTcbLevels ------------------------------
EXTENDS TcbLevels, SequencesExt

(* A document is a layout: perhaps an array with a status inside before the  *)
(* levels (the tdxModuleIdentities), the levels, perhaps each with a second  *)
(* status behind its own, perhaps a last array and status, then the unsigned *)
(* tail.  Level k has severity k and every other status 0, so that a verdict *)
(* tells which status it was read from.                                      *)
CONSTANTS MaxDocLevels    \* bound: levels of a document

(* The level is satisfied, or the platform misses one of its thresholds.     *)
Kinds == {[sgx |-> TRUE, tdx |-> TRUE], [sgx |-> TRUE, tdx |-> FALSE],
          [sgx |-> FALSE, tdx |-> TRUE]}
Step == 5 * Width

Place(base, k, v) ==
  LET p == base + (k - 1) * Step
  IN  [at |-> p, pceAt |-> p + Width, tdxAt |-> p + 2 * Width, stAt |-> p + 3 * Width,
       sgx |-> v.sgx, pce |-> TRUE, tdx |-> v.tdx, sev |-> k]

(* before: a nested array and status; second: a status behind each level's; *)
(* behind: a nested array and status after the levels; tail: an unsigned    *)
(* level literal, cut by the end of the signed prefix or past it; the        *)
(* builder pads the buffer with zeros.                                      *)
Layout(vs, before, second, behind, tail) ==
  LET base == IF before THEN 3 * Width ELSE Width
      end == base + Len(vs) * Step
      len == end + (IF behind THEN 2 * Width ELSE 0) + (IF tail = "cut" THEN 1 ELSE 0)
  IN  [len |-> len, size |-> len + 2 * Width,
       arrays |-> {base - Width} \cup (IF before THEN {0} ELSE {})
                  \cup (IF behind THEN {end} ELSE {}),
       level |-> [k \in 1..Len(vs) |-> Place(base, k, vs[k])],
       other |-> (IF before THEN {[at |-> Width, sev |-> 0]} ELSE {})
                 \cup (IF behind THEN {[at |-> end + Width, sev |-> 0]} ELSE {})
                 \cup (IF second THEN {[at |-> base + (k - 1) * Step + 4 * Width, sev |-> 0]
                                       : k \in 1..Len(vs)} ELSE {}),
       tail |-> CASE tail = "none" -> {} [] tail = "cut" -> {len - 1} [] tail = "out" -> {len}]

AllDocs == {Layout(vs, b, s, h, t) : vs \in UNION {[1..n -> Kinds] : n \in 0..MaxDocLevels},
                                    b \in BOOLEAN, s \in BOOLEAN, h \in BOOLEAN,
                                    t \in {"none", "cut", "out"}}

(* TLC evaluates a definition once, but the value of a constant each time.   *)
MCDocs == AllDocs
================================================================================
