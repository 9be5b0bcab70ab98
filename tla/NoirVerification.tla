--------------------------- MODULE NoirVerification ----------------------------
(***************************************************************************)
(* The Noir circuit (crates/dcap/src/main.nr with chain.nr, collateral.nr, *)
(* steps.nr and crl.nr) over the documents of QuoteVerification, in main's *)
(* order, and the generator that fills its witness (tools/genprover.go)    *)
(* with those mutations of its negative tests that replace a key, a        *)
(* document or the time.  An offset stands for the presence of its field   *)
(* here; the mutations of offsets, indices, counts and thresholds are      *)
(* among the arbitrary witnesses of FieldRead, TcbLevels and QeLevels.     *)
(*                                                                         *)
(* A behaviour follows a prover, who picks each part of the witness among  *)
(* everything known, or a run of the generator, which fixes all of them.   *)
(***************************************************************************)
EXTENDS QuoteVerification

CONSTANTS Mutations,   \* those that the generator is asked for
          FixedDate    \* the literal date of expired-cert, 2033-06-01

ASSUME MutationAssumption ==
  /\ Mutations \subseteq {"", "root-pin", "g3-attest-key", "expired-cert", "c4-cert-as-crl",
                          "c5-stale-crl"}
  /\ FixedDate \in Nat

VARIABLES host,  \* what the generator wrote, or None for a prover
          root   \* the root key, once pinned

noirVars == <<vars, host, root>>

Pick(part, S) == IF host = None THEN S ELSE {host[part]}
Keys == {Rogue} \cup {AttestKey(p) : p \in Platforms}

Same == UNCHANGED <<revokedAt, now, floor, seen, host, root>>

--------------------------------------------------------------------------------
(* Variant: the root of the witness is used as it is.                       *)
AnyRoot(key) == TRUE

Pinned(key) == key = Root

PinRoot ==
  /\ Cut("inputs", "chain")
  /\ \E key \in Pick("root", {Root, Rogue}) : Pinned(key) /\ root' = key
  /\ UNCHANGED <<revokedAt, now, w, out, floor, seen, host>>

(* cert_link with extract_subject_pubkey: a certificate's key is used.      *)
Certified(d, issuer) == SignedBy(d, issuer) /\ Has(d, "key")

VerifyChainToRoot ==
  /\ Cut("chain", "collateral")
  /\ \E int \in Pick("int", Known) :
       /\ Certified(int, root)
       /\ \E leaf \in Pick("leaf", Known) :
            /\ Certified(leaf, int.key)
            /\ w' = [w EXCEPT !.leaf = leaf, !.int = int, !.pck = leaf.key]
  /\ Same /\ UNCHANGED out

VerifyNoirCollateral ==
  /\ Cut("collateral", "validity")
  /\ \E sign \in Pick("sign", Known) :
       /\ Certified(sign, root)
       /\ \E tcb \in Pick("tcb", Known) :
            /\ SignedBy(tcb, sign.key)
            /\ \E qe \in Pick("qe", Known) :
                 /\ SignedBy(qe, sign.key)
                 /\ w' = [w EXCEPT !.sign = sign, !.tcb = tcb, !.qe = qe]
  /\ Same /\ UNCHANGED out

(* check_cert_validity: the timestamp is compared with the certificates     *)
(* before anything else is.                                                 *)
CheckCertValidity ==
  /\ Cut("validity", "identity")
  /\ \E t \in Pick("timestamp", Times) :
       /\ \A d \in {w.leaf, w.int, w.sign} : Within(t, d)
       /\ out' = [out EXCEPT !.timestamp = t]
  /\ Same /\ UNCHANGED w

(* Variant: only the presence of the two fields is demanded.                *)
FmspcRead(leaf, tcb) == Has(leaf, "oidFmspc") /\ Has(tcb, "fmspc")

FmspcEqual(leaf, tcb) == FmspcRead(leaf, tcb) /\ leaf.oidFmspc = tcb.fmspc

BindIdentity ==
  /\ Cut("identity", "report")
  /\ FmspcEqual(w.leaf, w.tcb) /\ Has(w.leaf, "serial")
  /\ out' = [out EXCEPT !.fmspc = w.leaf.oidFmspc, !.serial = w.leaf.serial]
  /\ Same /\ UNCHANGED w

--------------------------------------------------------------------------------
Step4VerifyQeReportSig ==
  /\ Cut("report", "data")
  /\ \E r \in Pick("report", Known) : /\ Has(r, "commit") /\ SignedBy(r, w.pck)
                                      /\ w' = [w EXCEPT !.report = r]
  /\ Same /\ UNCHANGED out

(* Variant: the key need not be the one in the report.                      *)
CommitsToAny(report, key) == TRUE

(* The bytes that are hashed are the bytes that verify the quote.           *)
CommitsTo(report, key) == report.commit = key

Step5VerifyQeReportData ==
  /\ Cut("data", "policy")
  /\ \E key \in Pick("attest", Keys) : /\ CommitsTo(w.report, key)
                                       /\ w' = [w EXCEPT !.attest = key]
  /\ Same /\ UNCHANGED out

Step6VerifyQePolicy ==
  /\ Cut("policy", "isv")
  /\ \E m \in Pick("policy", {"intel", "other"}) : /\ w.report.mrsigner = m
                                                   /\ w' = [w EXCEPT !.policy = m]
  /\ Same /\ UNCHANGED out

(* step7_verify_isv_sig and bind_public_measurements.                       *)
Step7VerifyIsvSig ==
  /\ Cut("isv", "tcb")
  /\ \E q \in Pick("quote", Known) :
       /\ Has(q, "body") /\ SignedBy(q, w.attest)
       /\ w' = [w EXCEPT !.quote = q] /\ out' = [out EXCEPT !.body = q.body]
  /\ Same

--------------------------------------------------------------------------------
(* Variant: the enclave's verdict alone.                                    *)
EnclaveOnly(platform, enclave) == enclave

Merge(platform, enclave) == IF platform >= enclave THEN platform ELSE enclave

(* bind_tcb_levels, bind_qe_identity and merge_status.                      *)
BindLevelsAndMerge ==
  /\ Cut("tcb", "freshness")
  /\ Has(w.tcb, "tcbLevels") /\ Has(w.leaf, "svn")
  /\ Has(w.qe, "isvLevels") /\ PolicyBound(w.qe)
  /\ Platform # None /\ Enclave # None
  /\ Merge(Platform, Enclave) # Revoked
  /\ out' = [out EXCEPT !.status = Merge(Platform, Enclave)]
  /\ Same /\ UNCHANGED w

(* Variant: only the TCB-Info has to be current.                            *)
TcbCurrent(t, tcb, qe) == WithinIssue(t, tcb)

(* Variant: a document that expires at the timestamp is refused.            *)
NotExpiring(t, tcb, qe) == /\ WithinIssue(t, tcb) /\ t # tcb.next
                           /\ WithinIssue(t, qe) /\ t # qe.next

Current(t, tcb, qe) == WithinIssue(t, tcb) /\ WithinIssue(t, qe)

(* check_freshness, and the two numbers.                                    *)
CheckFreshness ==
  /\ Cut("freshness", "revocation")
  /\ Has(w.tcb, "issued") /\ Has(w.qe, "issued")
  /\ Current(out.timestamp, w.tcb, w.qe)
  /\ out' = [out EXCEPT !.evals = [tcb |-> w.tcb.eval, qe |-> w.qe.eval]]
  /\ Same /\ UNCHANGED w

(* Variant: any date is current enough for a CRL.                           *)
CrlOfAnyAge(d, issuer, s) ==
  SignedBy(d, issuer) /\ CrlHead(d) /\ ~Contains(d, s)

VerifyCrl(d, issuer, s) ==
  /\ SignedBy(d, issuer) /\ CrlHead(d)
  /\ Within(out.timestamp, d)
  /\ ~Contains(d, s)

(* The key of the PCK CRL is read from the intermediate once more.          *)
VerifyRevocationAndFold ==
  /\ Cut("revocation", "proved")
  /\ \E pck \in Pick("pckCrl", Known) :
       /\ VerifyCrl(pck, w.int.key, w.leaf.serial)
       /\ Has(w.int, "serial")
       /\ \E rootCrl \in Pick("rootCrl", Known) :
            /\ VerifyCrl(rootCrl, root, w.int.serial)
            /\ LET dated == {w.leaf, w.int, w.sign, pck, rootCrl} IN
                 out' = [out EXCEPT
                   !.from = Latest({d.from : d \in dated} \cup {w.tcb.issued, w.qe.issued}),
                   !.until = Earliest({d.until : d \in dated} \cup {w.tcb.next, w.qe.next})]
            /\ out'.from <= out'.until
  /\ Same /\ UNCHANGED w

Main == \/ PinRoot \/ VerifyChainToRoot \/ VerifyNoirCollateral \/ CheckCertValidity
        \/ BindIdentity \/ Step4VerifyQeReportSig \/ Step5VerifyQeReportData
        \/ Step6VerifyQePolicy \/ Step7VerifyIsvSig \/ BindLevelsAndMerge
        \/ CheckFreshness \/ VerifyRevocationAndFold

--------------------------------------------------------------------------------
(* The generator.                                                           *)

(* Without a timestamp it takes the middle of the TCB-Info's window.        *)
Midpoint(tcb) == (tcb.issued + tcb.next) \div 2

Timestamp(given, tcb, m) ==
  CASE m = "c5-stale-crl" -> tcb.next + 1
    [] m = "expired-cert" -> FixedDate
    [] OTHER -> IF given = None THEN Midpoint(tcb) ELSE given

MutateCrl(crl, leaf, m) == IF m = "c4-cert-as-crl" THEN leaf ELSE crl

Built(p, tcb, qe, pck, rootCrl, given, m) ==
  [root |-> IF m = "root-pin" THEN Rogue ELSE Root,
   leaf |-> Leaf(p), int |-> CaCert(CaOf[p]), sign |-> SignCert,
   tcb |-> tcb, qe |-> qe, report |-> Report(p),
   attest |-> IF m = "g3-attest-key" THEN Rogue ELSE AttestKey(p),
   policy |-> qe.mrsigner, quote |-> Quote(p),
   pckCrl |-> MutateCrl(pck, Leaf(p), m), rootCrl |-> rootCrl,
   timestamp |-> Timestamp(given, tcb, m)]

(* The first level that the platform's numbers satisfy, and the enclave's.  *)
PlatformLevel(p, tcb) == tcb.tcbLevels[<<SvnOf[p], SvnOf[p]>>]
EnclaveLevel(p, qe) == qe.isvLevels[SvnOf[p]]

(* Each of the documents may have been fetched at another time.  Without a  *)
(* level to point at there is no witness.                                   *)
Generate ==
  /\ pc = "inputs" /\ host = None
  /\ \E p \in Platforms, e \in Evals, n \in QeEvals, given \in Times \cup {None},
        m \in Mutations, t, u, v, x \in 0 .. now :
       /\ NewEval[e] <= t
       /\ PlatformLevel(p, TcbInfo(FmspcOf[p], e, t)) # None
       /\ EnclaveLevel(p, QeId(n, u)) # None
       /\ host' = Built(p, TcbInfo(FmspcOf[p], e, t), QeId(n, u), PckCrl(CaOf[p], v),
                        RootCrl(x), given, m)
  /\ UNCHANGED <<revokedAt, now, pc, w, out, floor, seen, root>>

--------------------------------------------------------------------------------
Idle == UNCHANGED <<host, root>>

NoirInit == Init /\ host = None /\ root = None

NoirNext ==
  \/ Main \/ Generate
  \/ Restart /\ host' = None /\ root' = None
  \/ Consume /\ Idle
  \/ Tick /\ Idle

NoirSpec == NoirInit /\ [][NoirNext]_noirVars

--------------------------------------------------------------------------------
(* What the generator wrote deserves a proof, mutated or not: the root is   *)
(* Intel's, the key is the committed one, a CRL is a CRL and was not issued *)
(* after a revocation, the timestamp is inside every document's window, and *)
(* the verdict may be published.                                            *)
Honest(h) ==
  /\ h.root = Root /\ h.attest = h.report.commit /\ Has(h.pckCrl, "list")
  /\ \A d \in {h.leaf, h.int, h.sign, h.pckCrl, h.rootCrl} : Within(h.timestamp, d)
  /\ WithinIssue(h.timestamp, h.tcb) /\ WithinIssue(h.timestamp, h.qe)
  /\ h.pckCrl.from < revokedAt[h.leaf.serial] /\ h.rootCrl.from < revokedAt[h.int.serial]
  /\ {PlatformLevel(h.leaf.serial, h.tcb), EnclaveLevel(h.leaf.serial, h.qe)}
       \cap {None, Revoked} = {}

(* Nothing else of the generator's is proved, whichever of Mutations it was *)
(* asked for and however stale each document: a mutation is refused unless  *)
(* it leaves a witness that deserves a proof, as a fixed date does that     *)
(* lies in every window (genprover.go 183-201, 841-870).                    *)
ForgeryRefused == host # None /\ pc = "proved" => Honest(host)

(* What the next step demands of the generator's witness, beside what the   *)
(* steps before it have taken from it.                                      *)
Demands(h) ==
  CASE pc = "inputs" -> h.root = Root
    [] pc = "chain" -> /\ SignedBy(h.int, root) /\ Has(h.int, "key")
                       /\ SignedBy(h.leaf, h.int.key) /\ Has(h.leaf, "key")
    [] pc = "collateral" -> /\ SignedBy(h.sign, root) /\ Has(h.sign, "key")
                            /\ \A d \in {h.tcb, h.qe} : SignedBy(d, h.sign.key)
    [] pc = "validity" -> \A d \in {w.leaf, w.int, w.sign} : Within(h.timestamp, d)
    [] pc = "identity" -> /\ Has(w.leaf, "oidFmspc") /\ Has(w.leaf, "serial") /\ Has(w.tcb, "fmspc")
                          /\ w.leaf.oidFmspc = w.tcb.fmspc
    [] pc = "report" -> Has(h.report, "commit") /\ SignedBy(h.report, w.pck)
    [] pc = "data" -> w.report.commit = h.attest
    [] pc = "policy" -> w.report.mrsigner = h.policy
    [] pc = "isv" -> Has(h.quote, "body") /\ SignedBy(h.quote, w.attest)
    [] pc = "tcb" -> /\ Has(w.tcb, "tcbLevels") /\ Has(w.leaf, "svn") /\ Has(w.qe, "isvLevels")
                     /\ Has(w.qe, "mrsigner") /\ w.policy = w.qe.mrsigner
                     /\ {Platform, Enclave} \cap {None, Revoked} = {}
    [] pc = "freshness" -> /\ Has(w.tcb, "issued") /\ WithinIssue(out.timestamp, w.tcb)
                           /\ Has(w.qe, "issued") /\ WithinIssue(out.timestamp, w.qe)
    [] pc = "revocation" ->
         LET dated == {w.leaf, w.int, w.sign, h.pckCrl, h.rootCrl} IN
         /\ SignedBy(h.pckCrl, w.int.key) /\ SignedBy(h.rootCrl, root) /\ Has(w.int, "serial")
         /\ \A d \in {h.pckCrl, h.rootCrl} : CrlHead(d) /\ Within(out.timestamp, d)
         /\ ~Contains(h.pckCrl, w.leaf.serial) /\ ~Contains(h.rootCrl, w.int.serial)
         /\ Latest({d.from : d \in dated} \cup {w.tcb.issued, w.qe.issued})
              <= Earliest({d.until : d \in dated} \cup {w.tcb.next, w.qe.next})

(* A witness that deserves a proof meets every step's demands: the parts    *)
(* that the generator chose separately fit together, and the windows of     *)
(* documents fetched at different times have a day in common (genprover.go  *)
(* 155-345).                                                                *)
HonestMeetsDemands == host # None /\ Honest(host) /\ pc # "proved" => Demands(host)

(* A step refuses nothing that meets its demands, so no step refuses a      *)
(* witness that deserves a proof (main.nr 134-239).                         *)
StepsAccept == host # None /\ pc # "proved" /\ Demands(host) => ENABLED Main
================================================================================
