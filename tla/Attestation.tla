------------------------------ MODULE Attestation ------------------------------
(***************************************************************************)
(* What a proof of either circuit promises, without documents, keys or     *)
(* steps: its public outputs are true of the world.  The promise is        *)
(* assembled from README.md (A1 to G5 and the list of public outputs) and  *)
(* the comments on the public inputs in circuits/dcap-gnark/circuit/       *)
(* types.go; the consumer is the README's.                                 *)
(***************************************************************************)
EXTENDS Integers

CONSTANTS Platforms, Fmspcs, Svns, CaOf, FmspcOf, SvnOf, Evals, QeEvals, Revoked,
          TcbVerdict, QeVerdict, NewEval, Period, Horizon,
          None, NoOutput,
          NoNumbers

VARIABLES revokedAt, now, out, floor

vars == <<revokedAt, now, out, floor>>

Worse(a, b) == IF a >= b THEN a ELSE b

(* The platform is the one named, its verdict that of the numbers exposed,  *)
(* and the window lies within one period of documents issued before now,    *)
(* none of them a CRL that lists the platform or its CA.                    *)
Holds(o) ==
  LET p == o.serial
      platform == TcbVerdict[o.fmspc][o.evals.tcb][<<SvnOf[p], SvnOf[p]>>]
      enclave == QeVerdict[o.evals.qe][SvnOf[p]]
  IN  /\ p \in Platforms /\ o.body = p /\ o.fmspc = FmspcOf[p]
      /\ o.evals.tcb \in Evals /\ o.evals.qe \in QeEvals
      /\ None \notin {platform, enclave} /\ o.status = Worse(platform, enclave)
      /\ o.status # Revoked
      /\ o.from <= o.timestamp /\ o.timestamp <= o.until
      /\ NewEval[o.evals.tcb] <= o.from /\ o.from <= now /\ o.until <= o.from + Period
      /\ o.until < revokedAt[p] + Period /\ o.until < revokedAt[CaOf[p]] + Period

Prove == Holds(out') /\ UNCHANGED <<revokedAt, now, floor>>

Withdraw == out' = NoOutput /\ UNCHANGED <<revokedAt, now, floor>>

AtLeast(a, b) == a.tcb >= b.tcb /\ a.qe >= b.qe

Consume ==
  /\ out # NoOutput
  /\ out.from <= now /\ now <= out.until
  /\ AtLeast(out.evals, floor[out.fmspc])
  /\ floor' = [floor EXCEPT ![out.fmspc] = out.evals]
  /\ UNCHANGED <<revokedAt, now, out>>

Tick == now < Horizon /\ now' = now + 1 /\ UNCHANGED <<revokedAt, out, floor>>

Init == now = 0 /\ out = NoOutput /\ floor = [f \in Fmspcs |-> NoNumbers]

Next == Prove \/ Withdraw \/ Consume \/ Tick

Spec == Init /\ [][Next]_vars
================================================================================
