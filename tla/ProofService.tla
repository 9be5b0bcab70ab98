----------------------------- MODULE ProofService -----------------------------
(***************************************************************************)
(* What the Noir proving service promises its clients, with the tools, the *)
(* shared files and the temporary directories left out.  Requests that     *)
(* reach the prover stand in one line; the request at the head of the line *)
(* is proved in a single step; a success carries a proof of that request's *)
(* own inputs, made with the verification key of the circuit it was made   *)
(* with, unless the sources have been changed since that key was made: the *)
(* circuit may then be the new one.  A connection gets at most one answer, *)
(* and may get none (a client that leaves, an outage of the service).      *)
(***************************************************************************)
EXTENDS Naturals, Sequences

CONSTANTS Reqs,        \* the connections
          Versions,    \* the versions of the circuit
          None

VARIABLES phase,       \* where each connection stands
          line,        \* requests admitted to the prover, oldest first
          decided,     \* the answer the service has for a connection
          answer,      \* the answer the client has got
          sources      \* the version of the circuit's sources

vars == <<phase, line, decided, answer, sources>>

Phases == {"new", "open", "queued", "decided", "answered", "dropped"}

Own(r) == [quote |-> r, coll |-> r, ts |-> r]

(* A proof of r's own inputs, of the key's circuit or, under a key older    *)
(* than the sources, of the sources as they are now.                        *)
GoodProofs(r) ==
  {p \in [input : {Own(r)}, circuit : Versions, key : Versions] :
     p.circuit = p.key \/ (p.key < sources /\ p.circuit = sources)}

Success(p) == [code |-> 200, proof |-> p]
Refusal(c) == [code |-> c, proof |-> None]

Refusals == {Refusal(c) : c \in {400, 404, 500}}
Verdicts(r) == {Success(p) : p \in GoodProofs(r)} \cup {Refusal(500)}

Init == /\ phase = [r \in Reqs |-> "new"]
        /\ line = <<>>
        /\ decided = [r \in Reqs |-> None]
        /\ answer = [r \in Reqs |-> None]
        /\ sources = 1

Move(r, from, to) == phase[r] = from /\ phase' = [phase EXCEPT ![r] = to]

Open(r) == Move(r, "new", "open") /\ UNCHANGED <<line, decided, answer, sources>>

(* A request refused before it reaches the prover. *)
Refuse(r) == /\ Move(r, "open", "decided")
             /\ \E d \in Refusals : decided' = [decided EXCEPT ![r] = d]
             /\ UNCHANGED <<line, answer, sources>>

Join(r) == /\ Move(r, "open", "queued")
           /\ line' = Append(line, r)
           /\ UNCHANGED <<decided, answer, sources>>

(* The whole proof of one request, atomically, in order of arrival. *)
Serve(r) == /\ line # <<>> /\ Head(line) = r
            /\ Move(r, "queued", "decided")
            /\ line' = Tail(line)
            /\ \E d \in Verdicts(r) : decided' = [decided EXCEPT ![r] = d]
            /\ UNCHANGED <<answer, sources>>

Deliver(r) == /\ Move(r, "decided", "answered")
              /\ answer' = [answer EXCEPT ![r] = decided[r]]
              /\ UNCHANGED <<line, decided, sources>>

Drop(r) == /\ phase[r] \in {"open", "decided"}
           /\ phase' = [phase EXCEPT ![r] = "dropped"]
           /\ UNCHANGED <<line, decided, answer, sources>>

InProgress == {"open", "queued", "decided"}

(* The sources change only while nothing is in progress.                    *)
Deploy == /\ \A r \in Reqs : phase[r] \notin InProgress
          /\ sources' = sources + 1 /\ sources' \in Versions
          /\ UNCHANGED <<phase, line, decided, answer>>

Outage == /\ line' = <<>>
          /\ phase' = [r \in Reqs |-> IF phase[r] \in InProgress
                                      THEN "dropped" ELSE phase[r]]
          /\ UNCHANGED <<decided, answer, sources>>

Next == \/ Outage \/ Deploy
        \/ \E r \in Reqs : \/ Open(r) \/ Refuse(r) \/ Join(r)
                           \/ Serve(r) \/ Deliver(r) \/ Drop(r)

Spec == Init /\ [][Next]_vars
===============================================================================
