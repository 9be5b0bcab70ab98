--------------------------- MODULE QuoteVerification ---------------------------
(***************************************************************************)
(* What an accepted proof says of the world: the steps of Define in        *)
(* circuit/dcap.go, with chain.go, collateral.go, certchain.go and crl.go, *)
(* over documents that were signed at different times, and the on-chain    *)
(* consumer that the README asks to check the window and the evaluation    *)
(* numbers.                                                                *)
(*                                                                         *)
(* A document is a record of the fields it holds.  A read at an offset     *)
(* succeeds iff the document has the anchor, which is the field's presence;*)
(* no step looks at the kind of a document.  A signature verifies iff the  *)
(* key is the one that made it.  The prover may use every document signed  *)
(* so far, of whatever age, and documents signed with a key of its own.    *)
(*                                                                         *)
(* How a status is found in a document is the subject of TcbLevels and     *)
(* QeLevels, how windows are compared and folded that of ValidityWindow.   *)
(***************************************************************************)
EXTENDS Integers, FiniteSets

CONSTANTS Platforms, Cas, Fmspcs, Svns,
          CaOf,        \* the Platform CA that certified a platform
          FmspcOf, SvnOf,
          Evals,       \* TCB evaluation data numbers
          QeEvals,     \* those of the QE identity
          Severities, Revoked,
          TcbVerdict,  \* severity of the first level met, by FMSPC, number and SVNs
          QeVerdict,   \* the same of the QE identity
          NewEval,     \* when each evaluation number was introduced
          Period,      \* bound: how long a CRL, TCB-Info or QE-Identity is valid
          Horizon,     \* bound: the last time considered
          Revocable,   \* bound: the certificates that may be revoked
          None

Times == 0 .. Horizon
Serials == Platforms \cup Cas
Never == Horizon + 1

ASSUME WorldAssumption ==
  /\ Platforms \cap Cas = {} /\ None \notin Serials
  /\ CaOf \in [Platforms -> Cas]
  /\ FmspcOf \in [Platforms -> Fmspcs] /\ None \notin Fmspcs
  /\ SvnOf \in [Platforms -> Svns]
  /\ Evals \subseteq Nat /\ QeEvals \subseteq Nat
  /\ Severities \subseteq Nat /\ Revoked \in Severities
  /\ \A s \in Severities : s <= Revoked
  /\ TcbVerdict \in [Fmspcs -> [Evals -> [Svns \X Svns -> Severities \cup {None}]]]
  /\ QeVerdict \in [QeEvals -> [Svns -> Severities \cup {None}]]
  /\ NewEval \in [Evals -> Times]
  /\ Period \in Nat /\ Horizon \in Nat
  /\ Revocable \subseteq Serials
  /\ None \notin Nat

VARIABLES revokedAt,   \* when a certificate is revoked, or Never
          now,
          pc,          \* the next step of Define, or "proved"
          w,           \* the witness
          out,         \* the public outputs
          floor,       \* the consumer's least numbers, by FMSPC
          seen         \* history: the greatest numbers of documents relied on

vars == <<revokedAt, now, pc, w, out, floor, seen>>

--------------------------------------------------------------------------------
(* The keys and what is signed with them.                                   *)
Root == <<"root", None>>
SignKey == <<"sign", None>>
Rogue == <<"rogue", None>>
CaKey(c) == <<"ca", c>>
PckKey(p) == <<"pck", p>>
AttestKey(p) == <<"attest", p>>

(* The intermediates outlive the leaves (genprover.go 196-199).             *)
CaCert(c) == [by |-> Root, key |-> CaKey(c), serial |-> c, from |-> 0, until |-> Never]
SignCert == [by |-> Root, key |-> SignKey, serial |-> None, from |-> 0, until |-> Horizon]
Leaf(p) == [by |-> CaKey(CaOf[p]), key |-> PckKey(p), serial |-> p, oidFmspc |-> FmspcOf[p],
            svn |-> SvnOf[p], from |-> 0, until |-> Horizon]
PckCrl(c, t) == [by |-> CaKey(c), list |-> {p \in Platforms : CaOf[p] = c /\ revokedAt[p] <= t},
                 from |-> t, until |-> t + Period]
RootCrl(t) == [by |-> Root, list |-> {c \in Cas : revokedAt[c] <= t},
               from |-> t, until |-> t + Period]
TcbInfo(f, e, t) == [by |-> SignKey, fmspc |-> f, tcbLevels |-> TcbVerdict[f][e], eval |-> e,
                     issued |-> t, next |-> t + Period]
QeId(e, t) == [by |-> SignKey, mrsigner |-> "intel", isvLevels |-> QeVerdict[e], eval |-> e,
               issued |-> t, next |-> t + Period]

(* A quoting enclave of Intel's commits to its own attestation key; another *)
(* enclave of the platform may commit to any.                               *)
Report(p) == [by |-> PckKey(p), commit |-> AttestKey(p), mrsigner |-> "intel", isvsvn |-> SvnOf[p]]
OtherReport(p) == [by |-> PckKey(p), commit |-> Rogue, mrsigner |-> "other", isvsvn |-> SvnOf[p]]
Quote(p) == [by |-> AttestKey(p), body |-> p, tee |-> SvnOf[p]]

Certificates == {CaCert(c) : c \in Cas} \cup {SignCert} \cup {Leaf(p) : p \in Platforms}
Crls(t) == {PckCrl(c, t) : c \in Cas} \cup {RootCrl(t)}
Collateral(t) == {TcbInfo(f, e, t) : f \in Fmspcs, e \in {n \in Evals : NewEval[n] <= t}}
                 \cup {QeId(e, t) : e \in QeEvals}
Reports == {Report(p) : p \in Platforms} \cup {OtherReport(p) : p \in Platforms}
Quotes == {Quote(p) : p \in Platforms}

(* Every CRL and collateral document is reissued at every time, the older   *)
(* numbers too.                                                             *)
Signed == Certificates \cup Reports \cup Quotes
          \cup UNION {Crls(t) \cup Collateral(t) : t \in 0 .. now}

Forged(S) == {[d EXCEPT !.by = Rogue] : d \in S}
ForgedCerts == {[d EXCEPT !.by = Rogue, !.key = Rogue] : d \in Certificates}
ForgedQuotes == {[by |-> Rogue, body |-> p, tee |-> s] : p \in Platforms, s \in Svns}

Known == Signed \cup Forged(Signed) \cup ForgedCerts \cup ForgedQuotes

--------------------------------------------------------------------------------
(* Reads at an anchor, and the signature check.                             *)
Has(d, field) == field \in DOMAIN d
SignedBy(d, key) == d.by = key

Cut(a, b) == pc = a /\ pc' = b

(* stepBindPublicInputs: the measurements are the quote's.                  *)
BindPublicInputs ==
  /\ Cut("inputs", "chain")
  /\ \E q \in {d \in Known : Has(d, "body")} :
       w' = [w EXCEPT !.quote = q] /\ out' = [out EXCEPT !.body = q.body]
  /\ UNCHANGED <<revokedAt, now, floor, seen>>

(* verifyChainToRoot.                                                       *)
VerifyChain ==
  /\ Cut("chain", "collateral")
  /\ \E int \in Known :
       /\ Has(int, "key") /\ SignedBy(int, Root)
       /\ \E leaf \in Known :
            /\ Has(leaf, "key") /\ SignedBy(leaf, int.key)
            /\ w' = [w EXCEPT !.leaf = leaf, !.int = int, !.pck = leaf.key]
  /\ UNCHANGED <<revokedAt, now, out, floor, seen>>

(* verifyCollateral.                                                        *)
VerifyCollateral ==
  /\ Cut("collateral", "identity")
  /\ \E sign \in Known :
       /\ SignedBy(sign, Root) /\ Has(sign, "key")
       /\ \E tcb, qe \in {d \in Known : SignedBy(d, sign.key)} :
            w' = [w EXCEPT !.sign = sign, !.tcb = tcb, !.qe = qe]
  /\ UNCHANGED <<revokedAt, now, out, floor, seen>>

(* Variant: the leaf's FMSPC is exposed without comparing it.               *)
FmspcPresent(leaf, tcb) == Has(leaf, "oidFmspc") /\ Has(tcb, "fmspc")

FmspcMatches(leaf, tcb) == /\ Has(leaf, "oidFmspc") /\ Has(tcb, "fmspc")
                           /\ leaf.oidFmspc = tcb.fmspc

(* stepBindIdentityOutputs.                                                 *)
BindIdentityOutputs ==
  /\ Cut("identity", "report")
  /\ FmspcMatches(w.leaf, w.tcb) /\ Has(w.leaf, "serial")
  /\ out' = [out EXCEPT !.fmspc = w.leaf.oidFmspc, !.serial = w.leaf.serial]
  /\ UNCHANGED <<revokedAt, now, w, floor, seen>>

(* step4VerifyQeReportSig.                                                  *)
VerifyQeReportSig ==
  /\ Cut("report", "data")
  /\ \E r \in Known : /\ Has(r, "commit") /\ SignedBy(r, w.pck)
                      /\ w' = [w EXCEPT !.report = r]
  /\ UNCHANGED <<revokedAt, now, out, floor, seen>>

(* Variant (before G3): the point is not tied to the hashed bytes.          *)
AnyPoint(report, raw, key) == report.commit = raw

(* The report holds the hash of the raw key, and the point is those bytes.  *)
Committed(report, raw, key) == report.commit = raw /\ key = raw

(* step5VerifyQeReportData.                                                 *)
VerifyQeReportData ==
  /\ Cut("data", "policy")
  /\ \E raw, key \in {Rogue} \cup {AttestKey(p) : p \in Platforms} :
       /\ Committed(w.report, raw, key)
       /\ w' = [w EXCEPT !.attest = key]
  /\ UNCHANGED <<revokedAt, now, out, floor, seen>>

(* step6VerifyQePolicy: against witness fields that BindTcbData binds.      *)
VerifyQePolicy ==
  /\ Cut("policy", "isv")
  /\ \E m \in {"intel", "other"} : /\ w.report.mrsigner = m
                                   /\ w' = [w EXCEPT !.policy = m]
  /\ UNCHANGED <<revokedAt, now, out, floor, seen>>

(* step7VerifyIsvReportSig.                                                 *)
VerifyIsvReportSig ==
  /\ Cut("isv", "tcb")
  /\ SignedBy(w.quote, w.attest)
  /\ UNCHANGED <<revokedAt, now, w, out, floor, seen>>

--------------------------------------------------------------------------------
Within(t, d) == d.from <= t /\ t <= d.until
WithinIssue(t, d) == d.issued <= t /\ t <= d.next

(* Variant: the policy of step 6 stays the prover's.                        *)
PolicyPresent(qe) == Has(qe, "mrsigner")

PolicyBound(qe) == Has(qe, "mrsigner") /\ w.policy = qe.mrsigner

Lower(a, b) == IF a <= b THEN a ELSE b

(* Variant (before issue 4): one number, the smaller of the two.            *)
SmallerEval(tcb, qe) == [tcb |-> Lower(tcb.eval, qe.eval), qe |-> Lower(tcb.eval, qe.eval)]

EvalNumbers(tcb, qe) == [tcb |-> tcb.eval, qe |-> qe.eval]

(* stepBindTcbData with stepCheckFreshness: the levels and the policy are   *)
(* the documents', and the timestamp is inside all their windows.           *)
BindTcbData ==
  /\ Cut("tcb", "merge")
  /\ Has(w.tcb, "tcbLevels") /\ Has(w.qe, "isvLevels") /\ PolicyBound(w.qe)
  /\ Has(w.leaf, "svn")
  /\ Has(w.tcb, "issued") /\ Has(w.qe, "issued")
  /\ \E t \in Times :
       /\ WithinIssue(t, w.tcb) /\ WithinIssue(t, w.qe)
       /\ \A d \in {w.leaf, w.int, w.sign} : Within(t, d)
       /\ out' = [out EXCEPT !.timestamp = t, !.evals = EvalNumbers(w.tcb, w.qe)]
  /\ UNCHANGED <<revokedAt, now, w, floor, seen>>

(* step8MatchPlatformTcb and step9and10MergeStatus.                         *)
Platform == w.tcb.tcbLevels[<<w.leaf.svn, w.quote.tee>>]
Enclave == w.qe.isvLevels[w.report.isvsvn]

MatchAndMerge ==
  /\ Cut("merge", "revocation")
  /\ Platform # None /\ Enclave # None
  /\ LET merged == IF Platform >= Enclave THEN Platform ELSE Enclave IN
       /\ merged # Revoked
       /\ out' = [out EXCEPT !.status = merged]
  /\ UNCHANGED <<revokedAt, now, w, floor, seen>>

--------------------------------------------------------------------------------
(* Variant (before C4): any signed bytes with two dates pass for a CRL.     *)
AnyHead(d) == TRUE

(* C4: the head of a tbsCertList, which no certificate has.                 *)
CrlHead(d) == Has(d, "list")

(* Variant: an entry is taken for the serial.                               *)
AnyEntry(d, s) == Has(d, "list") /\ d.list # {}

(* The serial's bytes occur in a CRL that lists it and in the certificate   *)
(* that bears it.                                                           *)
Contains(d, s) == \/ Has(d, "list") /\ s \in d.list
                  \/ Has(d, "serial") /\ s = d.serial

(* verifyCrlNonMembership.  Certificates too have two dates in a row.       *)
NotListed(d, issuer, s) ==
  /\ SignedBy(d, issuer) /\ CrlHead(d)
  /\ Has(d, "from") /\ Within(out.timestamp, d)
  /\ ~Contains(d, s)

(* Variant: the PCK CRL may be any intermediate's.                          *)
SomeCaKey(int, d) == IF \E c \in Cas : d.by = CaKey(c) THEN d.by ELSE int.key

PckIssuer(int, d) == int.key

Earliest(S) == CHOOSE x \in S : \A y \in S : x <= y
Latest(S) == CHOOSE x \in S : \A y \in S : y <= x

(* stepVerifyRevocation.                                                    *)
VerifyRevocation ==
  /\ Cut("revocation", "proved")
  /\ Has(w.int, "serial")
  /\ \E pck \in {d \in Known : NotListed(d, PckIssuer(w.int, d), w.leaf.serial)},
        root \in {d \in Known : NotListed(d, Root, w.int.serial)} :
       LET dated == {w.leaf, w.int, w.sign, pck, root} IN
         out' = [out EXCEPT
           !.from = Latest({d.from : d \in dated} \cup {w.tcb.issued, w.qe.issued}),
           !.until = Earliest({d.until : d \in dated} \cup {w.tcb.next, w.qe.next})]
  /\ UNCHANGED <<revokedAt, now, w, floor, seen>>

--------------------------------------------------------------------------------
NoWitness == [quote |-> None, leaf |-> None, int |-> None, pck |-> None, sign |-> None,
              tcb |-> None, qe |-> None, report |-> None, attest |-> None, policy |-> None]
NoOutput == [body |-> None, fmspc |-> None, serial |-> None, status |-> None, evals |-> None,
             timestamp |-> None, from |-> None, until |-> None]
NoNumbers == [tcb |-> 0, qe |-> 0]

(* The prover begins another proof.                                         *)
Restart ==
  /\ pc # "inputs"
  /\ pc' = "inputs" /\ w' = NoWitness /\ out' = NoOutput
  /\ UNCHANGED <<revokedAt, now, floor, seen>>

(* The consumer, who knows the outputs only.  A proof may be submitted late *)
(* and more than once.                                                      *)
AtLeast(a, b) == a.tcb >= b.tcb /\ a.qe >= b.qe

Consume ==
  /\ pc = "proved"
  /\ out.from <= now /\ now <= out.until
  /\ AtLeast(out.evals, floor[out.fmspc])
  /\ floor' = [floor EXCEPT ![out.fmspc] = out.evals]
  /\ seen' = [seen EXCEPT ![out.fmspc] = [tcb |-> w.tcb.eval, qe |-> w.qe.eval]]
  /\ UNCHANGED <<revokedAt, now, pc, w, out>>

Tick == now < Horizon /\ now' = now + 1 /\ UNCHANGED <<revokedAt, pc, w, out, floor, seen>>

Init ==
  /\ revokedAt \in {r \in [Serials -> 1 .. Never] : \A s \in Serials \ Revocable : r[s] = Never}
  /\ now = 0
  /\ pc = "inputs" /\ w = NoWitness /\ out = NoOutput
  /\ floor = [f \in Fmspcs |-> NoNumbers] /\ seen = [f \in Fmspcs |-> NoNumbers]

Next == \/ BindPublicInputs \/ VerifyChain \/ VerifyCollateral \/ BindIdentityOutputs
        \/ VerifyQeReportSig \/ VerifyQeReportData \/ VerifyQePolicy \/ VerifyIsvReportSig
        \/ BindTcbData \/ MatchAndMerge \/ VerifyRevocation
        \/ Restart \/ Consume \/ Tick

Spec == Init /\ [][Next]_vars

--------------------------------------------------------------------------------
(* Whatever documents the prover combines, the measurements come from a     *)
(* quoting enclave on the very platform whose serial and FMSPC are exposed  *)
(* (README A1, steps 4-7 and G3; dcap.go).                                  *)
Authentic ==
  pc = "proved" => \E p \in Platforms : /\ out.body = p /\ out.serial = p
                                        /\ out.fmspc = FmspcOf[p]

(* Both the TCB-Info of this platform's FMSPC and the QE-Identity of the    *)
(* exposed numbers have a level for it; the status is the worse of the two, *)
(* and not Revoked: no document of another family, number or role stands in     *)
(* (README A2, G2, G5).                                                     *)
VerdictOfPlatform ==
  pc = "proved" =>
    LET p == out.serial
        tcb == TcbVerdict[out.fmspc][out.evals.tcb][<<SvnOf[p], SvnOf[p]>>]
        qe == QeVerdict[out.evals.qe][SvnOf[p]]
    IN  /\ None \notin {tcb, qe}
        /\ out.status \in {tcb, qe} /\ out.status >= tcb /\ out.status >= qe
        /\ out.status # Revoked

(* Nobody relies on a platform or an intermediate more than one CRL period  *)
(* after its revocation, although the prover chooses the CRLs and the       *)
(* timestamp and the proof may be old (README G4, "stale-collateral replay",*)
(* crl.go 50-66).                                                           *)
RevocationBites ==
  [][Consume => /\ now < revokedAt[out.serial] + Period
                /\ now < revokedAt[CaOf[out.serial]] + Period]_vars

(* Once a consumer has relied on a TCB-Info or QE-Identity of some number,  *)
(* it never again relies on one of a smaller number for that family (README,*)
(* "stale-TCB selection"; issue 4, tcbextract.go 481-486).                  *)
NumbersNeverFall ==
  [][Consume => AtLeast([tcb |-> w.tcb.eval, qe |-> w.qe.eval], seen[out.fmspc])]_vars

(* The promise of both circuits: an accepted proof's outputs are true of    *)
(* the world, and the consumer relies on nothing else (README.md, A1 to G5; *)
(* circuit/types.go, the comments on the public inputs).                    *)
Promise == INSTANCE Attestation WITH out <- IF pc = "proved" THEN out ELSE NoOutput
ImplementsAttestation == Promise!Spec
================================================================================
