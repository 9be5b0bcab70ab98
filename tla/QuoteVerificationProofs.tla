------------------------ MODULE QuoteVerificationProofs ------------------------
(***************************************************************************)
(* Proofs about QuoteVerification and NoirVerification, for any platforms, *)
(* CAs, families, numbers, verdicts and periods.  The prover's choice is   *)
(* open at every step, so the argument is about documents: what a          *)
(* signature and a field together say of a document (the lemmas of the     *)
(* first part), and which of these each step has established (one          *)
(* invariant for each circuit).                                            *)
(***************************************************************************)
EXTENDS NoirVerification, TLAPS, WellFoundedInduction

(* The steps that come after a given one.                                   *)
AfterRevocation == {"proved"}
AfterMerge == {"revocation"} \cup AfterRevocation
AfterTcb == {"merge"} \cup AfterMerge
AfterIsv == {"tcb"} \cup AfterTcb
AfterPolicy == {"isv"} \cup AfterIsv
AfterData == {"policy"} \cup AfterPolicy
AfterReport == {"data"} \cup AfterData
AfterIdentity == {"report"} \cup AfterReport
AfterCollateral == {"identity"} \cup AfterIdentity
AfterChain == {"collateral"} \cup AfterCollateral
AfterInputs == {"chain"} \cup AfterChain

USE DEF AfterRevocation, AfterMerge, AfterTcb, AfterIsv, AfterPolicy, AfterData,
        AfterReport, AfterIdentity, AfterCollateral, AfterChain, AfterInputs

--------------------------------------------------------------------------------
(* What documents are.                                                      *)

(* A document that a stranger did not sign is one of Intel's or a platform's. *)
LEMMA Genuine ==
  ASSUME NEW d \in Known, d.by # Rogue
  PROVE  d \in Signed
  <1>1. ASSUME NEW e \in Signed, d = [e EXCEPT !.by = Rogue] PROVE FALSE
    <2>1. "by" \in DOMAIN e
      BY DEF Signed, Certificates, Reports, Quotes, Crls, Collateral, CaCert, SignCert, Leaf,
             Report, OtherReport, Quote, PckCrl, RootCrl, TcbInfo, QeId
    <2>2. QED
      BY <1>1, <2>1
  <1>2. ASSUME NEW e \in Certificates, d = [e EXCEPT !.by = Rogue, !.key = Rogue] PROVE FALSE
    <2>1. "by" \in DOMAIN e
      BY DEF Certificates, CaCert, SignCert, Leaf
    <2>2. QED
      BY <1>2, <2>1
  <1>3. d \notin ForgedQuotes
    BY DEF ForgedQuotes
  <1>4. QED
    BY <1>1, <1>2, <1>3 DEF Known, Forged, ForgedCerts

(* The kinds of a signed document.                                          *)
LEMMA Kinds ==
  ASSUME NEW d \in Signed, now \in Times
  PROVE  \/ \E c \in Cas : d = CaCert(c)
         \/ d = SignCert
         \/ \E p \in Platforms : d \in {Leaf(p), Report(p), OtherReport(p), Quote(p)}
         \/ \E c \in Cas, t \in Nat : d = PckCrl(c, t)
         \/ \E t \in Nat : d = RootCrl(t)
         \/ \E f \in Fmspcs, e \in Evals, t \in Nat : d = TcbInfo(f, e, t)
         \/ \E e \in QeEvals, t \in Nat : d = QeId(e, t)
  <1>1. ASSUME NEW t \in 0 .. now, d \in Crls(t) \cup Collateral(t)
        PROVE  \/ \E c \in Cas : d = PckCrl(c, t)
               \/ d = RootCrl(t)
               \/ \E f \in Fmspcs, e \in Evals : d = TcbInfo(f, e, t)
               \/ \E e \in QeEvals : d = QeId(e, t)
    BY <1>1 DEF Crls, Collateral
  <1>2. \A t \in 0 .. now : t \in Nat
    BY DEF Times
  <1>3. QED
    BY <1>1, <1>2 DEF Signed, Certificates, Reports, Quotes

(* A key of one use is no key of another, nor of another holder.            *)
LEMMA KeysDiffer ==
  /\ Root # SignKey /\ Root # Rogue /\ SignKey # Rogue
  /\ \A c \in Cas : CaKey(c) \notin {Root, SignKey, Rogue}
  /\ \A p \in Platforms : /\ PckKey(p) \notin {Root, SignKey, Rogue}
                          /\ AttestKey(p) \notin {Root, SignKey, Rogue}
  /\ \A c \in Cas, p \in Platforms : CaKey(c) # PckKey(p) /\ CaKey(c) # AttestKey(p)
  /\ \A p, q \in Platforms : PckKey(p) # AttestKey(q)
  /\ \A c, e \in Cas : CaKey(c) = CaKey(e) => c = e
  /\ \A p, q \in Platforms : (PckKey(p) = PckKey(q) => p = q)
                             /\ (AttestKey(p) = AttestKey(q) => p = q)
  BY DEF Root, SignKey, Rogue, CaKey, PckKey, AttestKey

(* Only certificates bear a key.                                            *)
LEMMA KeyHolders ==
  ASSUME NEW d \in Signed, now \in Times, Has(d, "key")
  PROVE  d \in Certificates
  BY Kinds DEF Has, Certificates, Report, OtherReport, Quote, PckCrl, RootCrl, TcbInfo, QeId

(* What the root signs and bears a key is an intermediate or the TCB-Signing *)
(* certificate.                                                             *)
LEMMA RootSigns ==
  ASSUME NEW d \in Known, now \in Times, Has(d, "key"), SignedBy(d, Root)
  PROVE  d = SignCert \/ \E c \in Cas : d = CaCert(c)
  <1>1. d \in Signed
    BY Genuine, KeysDiffer DEF SignedBy
  <1>2. ASSUME NEW p \in Platforms, d = Leaf(p) PROVE FALSE
    <2>1. CaOf[p] \in Cas
      BY WorldAssumption
    <2>2. CaKey(CaOf[p]) # Root
      BY <2>1, KeysDiffer
    <2>3. d.by = CaKey(CaOf[p])
      BY <1>2 DEF Leaf
    <2>4. QED
      BY <2>2, <2>3 DEF SignedBy
  <1>3. d \in Certificates
    BY <1>1, KeyHolders
  <1>4. QED
    BY <1>2, <1>3 DEF Certificates

(* What a certificate under the root signs and bears a key is a leaf.       *)
LEMMA IssuerSigns ==
  ASSUME NEW d \in Known, NEW i \in Known, now \in Times, Has(d, "key"), Has(i, "key"),
         SignedBy(d, i.key), SignedBy(i, Root)
  PROVE  \E p \in Platforms : d = Leaf(p) /\ i = CaCert(CaOf[p])
  <1>1. i = SignCert \/ \E c \in Cas : i = CaCert(c)
    BY RootSigns
  <1>2. i.key = SignKey \/ \E c \in Cas : i = CaCert(c) /\ i.key = CaKey(c)
    BY <1>1 DEF SignCert, CaCert
  <1>3. d \in Signed
    BY <1>2, Genuine, KeysDiffer DEF SignedBy
  <1>4. \E p \in Platforms : d = Leaf(p)
    <2>1. d \in Certificates
      BY <1>3, KeyHolders
    <2>2. i.key # Root
      BY <1>2, KeysDiffer
    <2>3. d # SignCert /\ \A c \in Cas : d # CaCert(c)
      BY <2>2 DEF SignedBy, SignCert, CaCert
    <2>4. QED
      BY <2>1, <2>3 DEF Certificates
  <1>5. PICK p \in Platforms : d = Leaf(p)
    BY <1>4
  <1>6. d.by = CaKey(CaOf[p]) /\ CaOf[p] \in Cas
    BY <1>5, WorldAssumption DEF Leaf
  <1>7. QED
    BY <1>2, <1>5, <1>6, KeysDiffer DEF SignedBy

(* Under a certificate of the root's, a document with a family is TCB-Info  *)
(* and one with a policy a QE-Identity.                                     *)
IsTcbInfo(d) == \E f \in Fmspcs, e \in Evals, t \in Nat : d = TcbInfo(f, e, t)
IsQeId(d) == \E e \in QeEvals, t \in Nat : d = QeId(e, t)

LEMMA CollateralSigned ==
  ASSUME NEW d \in Known, NEW s \in Known, now \in Times, Has(s, "key"),
         SignedBy(s, Root), SignedBy(d, s.key)
  PROVE  (Has(d, "fmspc") => IsTcbInfo(d)) /\ (Has(d, "mrsigner") => IsQeId(d))
  <1>1. s.key = SignKey \/ \E c \in Cas : s.key = CaKey(c)
    BY RootSigns DEF SignCert, CaCert
  <1>2. d \in Signed
    BY <1>1, Genuine, KeysDiffer DEF SignedBy
  <1>3. QED
    BY <1>1, <1>2, Kinds, KeysDiffer DEF SignedBy, Has, IsTcbInfo, IsQeId, CaCert, SignCert,
             Leaf, Report, OtherReport, Quote, PckCrl, RootCrl, TcbInfo, QeId

(* What a platform signs and commits to a key is a report of that platform. *)
LEMMA PlatformSigns ==
  ASSUME NEW d \in Known, NEW p \in Platforms, now \in Times, Has(d, "commit"),
         SignedBy(d, PckKey(p))
  PROVE  d \in {Report(p), OtherReport(p)}
  <1>1. d \in Signed
    BY Genuine, KeysDiffer DEF SignedBy
  <1>2. QED
    BY <1>1, Kinds, KeysDiffer DEF SignedBy, Has, CaCert, SignCert, Leaf,
             Report, OtherReport, Quote, PckCrl, RootCrl, TcbInfo, QeId

(* A quote is a stranger's or some platform's.                              *)
IsQuote(d) == d.by = Rogue \/ \E p \in Platforms : d = Quote(p)

LEMMA QuoteSigned ==
  ASSUME NEW d \in Known, now \in Times, Has(d, "body")
  PROVE  IsQuote(d)
  <1>1. CASE d.by # Rogue
    <2>1. d \in Signed
      BY <1>1, Genuine
    <2>2. QED
      BY <2>1, Kinds DEF Has, IsQuote, CaCert, SignCert, Leaf,
             Report, OtherReport, Quote, PckCrl, RootCrl, TcbInfo, QeId
  <1>2. QED
    BY <1>1 DEF IsQuote

(* What the root or a CA signs and has a list of serials is its CRL.        *)
LEMMA CrlSigned ==
  ASSUME NEW d \in Known, now \in Times, CrlHead(d)
  PROVE  /\ SignedBy(d, Root) => \E t \in Nat : d = RootCrl(t)
         /\ \A c \in Cas : SignedBy(d, CaKey(c)) => \E t \in Nat : d = PckCrl(c, t)
  <1>1. ASSUME d.by = Root \/ \E c \in Cas : d.by = CaKey(c)
        PROVE  d \in Signed
    BY <1>1, Genuine, KeysDiffer
  <1>2. QED
    BY <1>1, Kinds, KeysDiffer DEF SignedBy, CrlHead, Has, CaCert, SignCert, Leaf,
             Report, OtherReport, Quote, PckCrl, RootCrl, TcbInfo, QeId

(* The least of a set of dates is one of them and below all.                *)
LEMMA EarliestFacts ==
  ASSUME NEW S \in SUBSET Nat, S # {}
  PROVE  Earliest(S) \in S /\ \A y \in S : Earliest(S) <= y
  <1>1. \E x \in S : \A y \in S : ~(<<y, x>> \in OpToRel(<, Nat))
    BY WFMin, NatLessThanWellFounded, Zenon
  <1>2. PICK x \in S : \A y \in S : ~(<<y, x>> \in {ss \in Nat \X Nat : ss[1] < ss[2]})
    BY <1>1, Zenon DEF OpToRel
  <1>3. ASSUME NEW y \in S PROVE x <= y
    <2>1. x \in Nat /\ y \in Nat
      OBVIOUS
    <2>2. y < x => <<y, x>> \in {ss \in Nat \X Nat : ss[1] < ss[2]}
      BY <2>1
    <2>3. QED
      BY <1>2, <2>1, <2>2
  <1>4. QED
    BY <1>3 DEF Earliest

--------------------------------------------------------------------------------
(* The invariant: what the steps so far have established.                   *)
Holder == w.leaf.serial

Labels == {"inputs"} \cup AfterInputs

Shape == /\ DOMAIN w = DOMAIN NoWitness /\ DOMAIN out = DOMAIN NoOutput
         /\ now \in Times /\ pc \in Labels
         /\ revokedAt \in [Serials -> 1 .. Never]

QuoteInv == pc \in AfterInputs => IsQuote(w.quote) /\ out.body = w.quote.body

ChainInv == pc \in AfterChain =>
  /\ Holder \in Platforms
  /\ w.leaf = Leaf(Holder) /\ w.int = CaCert(CaOf[Holder]) /\ w.pck = PckKey(Holder)

CollateralInv == pc \in AfterCollateral =>
  /\ w.sign.until \in Nat
  /\ Has(w.tcb, "fmspc") => IsTcbInfo(w.tcb)
  /\ Has(w.qe, "mrsigner") => IsQeId(w.qe)

IdentityInv == pc \in AfterIdentity =>
  /\ IsTcbInfo(w.tcb) /\ w.tcb.fmspc = FmspcOf[Holder]
  /\ out.fmspc = FmspcOf[Holder] /\ out.serial = Holder

ReportInv == pc \in AfterReport => w.report \in {Report(Holder), OtherReport(Holder)}

DataInv == pc \in AfterData => w.attest = w.report.commit

PolicyInv == pc \in AfterPolicy => w.policy = w.report.mrsigner

IsvInv == pc \in AfterIsv => w.quote.by = w.attest

TcbInv == pc \in AfterTcb => /\ IsQeId(w.qe) /\ w.policy = w.qe.mrsigner
                             /\ out.evals = [tcb |-> w.tcb.eval, qe |-> w.qe.eval]

MergeInv == pc \in AfterMerge =>
  /\ Platform \in Severities /\ Enclave \in Severities
  /\ out.status \in {Platform, Enclave} /\ out.status >= Platform /\ out.status >= Enclave
  /\ out.status # Revoked

RevocationInv == pc \in AfterRevocation =>
  /\ out.until \in Nat
  /\ out.until < revokedAt[Holder] + Period
  /\ out.until < revokedAt[CaOf[Holder]] + Period

(* The floor is what was relied on, since the numbers are exposed as they   *)
(* are.                                                                     *)
NumbersInv == floor \in [Fmspcs -> [tcb : Nat, qe : Nat]] /\ seen = floor

IInv == /\ Shape /\ QuoteInv /\ ChainInv /\ CollateralInv /\ IdentityInv /\ ReportInv /\ DataInv
        /\ PolicyInv /\ IsvInv /\ TcbInv /\ MergeInv /\ RevocationInv /\ NumbersInv

(* The fields of the two documents.                                         *)
LEMMA TcbInfoFields ==
  ASSUME NEW d, IsTcbInfo(d)
  PROVE  /\ d.fmspc \in Fmspcs /\ d.eval \in Evals /\ d.eval \in Nat /\ d.next \in Nat
         /\ d.tcbLevels = TcbVerdict[d.fmspc][d.eval]
  <1>1. PICK f \in Fmspcs, e \in Evals, t \in Nat : d = TcbInfo(f, e, t)
    BY DEF IsTcbInfo
  <1>2. d.fmspc = f /\ d.eval = e /\ d.next = t + Period /\ d.tcbLevels = TcbVerdict[f][e]
    BY <1>1 DEF TcbInfo
  <1>3. QED
    BY <1>2, WorldAssumption

LEMMA QeIdFields ==
  ASSUME NEW d, IsQeId(d)
  PROVE  /\ d.eval \in QeEvals /\ d.eval \in Nat /\ d.next \in Nat
         /\ d.isvLevels = QeVerdict[d.eval]
  <1>1. PICK e \in QeEvals, t \in Nat : d = QeId(e, t)
    BY DEF IsQeId
  <1>2. d.eval = e /\ d.next = t + Period /\ d.isvLevels = QeVerdict[e]
    BY <1>1 DEF QeId
  <1>3. QED
    BY <1>2, WorldAssumption

(* When the policy is the QE-Identity's the report is of Intel's enclave,   *)
(* its key the enclave's own, the quote that platform's, and both verdicts  *)
(* are on the platform's own numbers.                                       *)
LEMMA Linked ==
  ASSUME Holder \in Platforms, w.leaf = Leaf(Holder),
         w.report \in {Report(Holder), OtherReport(Holder)}, w.attest = w.report.commit,
         w.policy = w.report.mrsigner, IsQuote(w.quote), w.quote.by = w.attest,
         IsTcbInfo(w.tcb), IsQeId(w.qe), w.policy = w.qe.mrsigner
  PROVE  /\ w.report = Report(Holder) /\ w.quote = Quote(Holder)
         /\ w.attest = AttestKey(Holder) /\ SvnOf[Holder] \in Svns
         /\ Platform = TcbVerdict[w.tcb.fmspc][w.tcb.eval][<<SvnOf[Holder], SvnOf[Holder]>>]
         /\ Enclave = QeVerdict[w.qe.eval][SvnOf[Holder]]
  <1>1. w.report = Report(Holder)
    <2>1. w.qe.mrsigner = "intel"
      BY DEF IsQeId, QeId
    <2>2. w.report.mrsigner # OtherReport(Holder).mrsigner
      BY <2>1 DEF OtherReport
    <2>3. QED
      BY <2>2
  <1>2. w.quote = Quote(Holder)
    <2>1. w.quote.by = AttestKey(Holder) /\ AttestKey(Holder) # Rogue
      BY <1>1, KeysDiffer DEF Report
    <2>2. PICK p \in Platforms : w.quote = Quote(p)
      BY <2>1 DEF IsQuote
    <2>3. AttestKey(p) = AttestKey(Holder)
      BY <2>1, <2>2 DEF Quote
    <2>4. QED
      BY <2>2, <2>3, KeysDiffer
  <1>3. /\ w.leaf.svn = SvnOf[Holder] /\ w.quote.tee = SvnOf[Holder]
        /\ w.report.isvsvn = SvnOf[Holder] /\ SvnOf[Holder] \in Svns
    BY <1>1, <1>2, WorldAssumption DEF Leaf, Quote, Report
  <1>4. /\ w.tcb.tcbLevels = TcbVerdict[w.tcb.fmspc][w.tcb.eval]
        /\ w.qe.isvLevels = QeVerdict[w.qe.eval]
    BY TcbInfoFields, QeIdFields
  <1>5. w.attest = AttestKey(Holder)
    BY <1>1 DEF Report
  <1>6. QED
    BY <1>1, <1>2, <1>3, <1>4, <1>5 DEF Platform, Enclave

LEMMA Bound ==
  ASSUME IInv, pc \in AfterTcb
  PROVE  /\ Holder \in Platforms /\ w.report = Report(Holder) /\ w.quote = Quote(Holder)
         /\ w.leaf = Leaf(Holder) /\ IsTcbInfo(w.tcb) /\ IsQeId(w.qe)
         /\ Platform = TcbVerdict[out.fmspc][out.evals.tcb][<<SvnOf[Holder], SvnOf[Holder]>>]
         /\ Enclave = QeVerdict[out.evals.qe][SvnOf[Holder]]
         /\ out.fmspc \in Fmspcs /\ out.evals.tcb \in Evals /\ out.evals.qe \in QeEvals
         /\ SvnOf[Holder] \in Svns
  <1>1. /\ Holder \in Platforms /\ w.leaf = Leaf(Holder)
        /\ w.report \in {Report(Holder), OtherReport(Holder)} /\ w.attest = w.report.commit
        /\ w.policy = w.report.mrsigner /\ IsQuote(w.quote) /\ w.quote.by = w.attest
        /\ IsTcbInfo(w.tcb) /\ IsQeId(w.qe) /\ w.policy = w.qe.mrsigner
    BY DEF IInv, QuoteInv, ChainInv, IdentityInv, ReportInv, DataInv, PolicyInv, IsvInv, TcbInv
  <1>2. out.fmspc = w.tcb.fmspc /\ out.evals.tcb = w.tcb.eval /\ out.evals.qe = w.qe.eval
    BY DEF IInv, IdentityInv, TcbInv
  <1>3. QED
    BY <1>1, <1>2, Linked, TcbInfoFields, QeIdFields

(* A verdict that exists is a severity.                                     *)
LEMMA VerdictsTyped ==
  ASSUME NEW f \in Fmspcs, NEW e \in Evals, NEW n \in QeEvals, NEW s \in Svns
  PROVE  /\ TcbVerdict[f][e][<<s, s>>] \in Severities \cup {None}
         /\ QeVerdict[n][s] \in Severities \cup {None}
  <1>1. TcbVerdict[f] \in [Evals -> [Svns \X Svns -> Severities \cup {None}]]
    BY WorldAssumption, Zenon
  <1>2. TcbVerdict[f][e] \in [Svns \X Svns -> Severities \cup {None}]
    BY <1>1, Zenon
  <1>3. QeVerdict[n] \in [Svns -> Severities \cup {None}]
    BY WorldAssumption, Zenon
  <1>4. QED
    BY <1>2, <1>3

--------------------------------------------------------------------------------
(* The steps.  Each establishes one more conjunct, and writes no field that *)
(* an earlier one reads.                                                    *)
LEMMA InitStep == Init => IInv
  BY WorldAssumption DEF Init, IInv, Shape, NoWitness, NoOutput, Times, Never, Labels, NumbersInv,
     NoNumbers, QuoteInv, ChainInv, CollateralInv, IdentityInv, ReportInv, DataInv, PolicyInv,
     IsvInv, TcbInv, MergeInv, RevocationInv

(* The measurements are those of a quote.                                   *)
LEMMA BindPublicInputsKeeps == ASSUME IInv, BindPublicInputs PROVE IInv'
  <1>1. /\ pc = "inputs" /\ pc' = "chain"
        /\ UNCHANGED <<revokedAt, now, floor, seen>>
    BY DEF BindPublicInputs, Cut
  <1>2. PICK q \in Known : /\ Has(q, "body") /\ w' = [w EXCEPT !.quote = q]
                            /\ out' = [out EXCEPT !.body = q.body]
    BY DEF BindPublicInputs
  <1>3. Shape' /\ NumbersInv'
    BY <1>1, <1>2 DEF IInv, Shape, NumbersInv, Labels
  <1>4. QuoteInv'
    <2>1. IsQuote(q)
      BY <1>2, QuoteSigned DEF IInv, Shape
    <2>2. w'.quote = q /\ out'.body = q.body
      BY <1>2 DEF IInv, Shape, NoWitness, NoOutput
    <2>3. QED
      BY <2>1, <2>2 DEF QuoteInv, IsQuote, Quote
  <1>6. /\ ChainInv' /\ CollateralInv' /\ IdentityInv' /\ ReportInv' /\ DataInv'
        /\ PolicyInv' /\ IsvInv' /\ TcbInv' /\ MergeInv' /\ RevocationInv'
    BY <1>1 DEF ChainInv, CollateralInv, IdentityInv, ReportInv, DataInv,
       PolicyInv, IsvInv, TcbInv, MergeInv, RevocationInv
  <1>7. QED
    BY <1>3, <1>4, <1>6 DEF IInv

(* The key is that of a platform's certificate, under its own CA.           *)
LEMMA VerifyChainKeeps == ASSUME IInv, VerifyChain PROVE IInv'
  <1>1. /\ pc = "chain" /\ pc' = "collateral"
        /\ UNCHANGED <<revokedAt, now, floor, seen>>
    BY DEF VerifyChain, Cut
  <1>2. PICK int \in Known, leaf \in Known :
          /\ Has(leaf, "key") /\ Has(int, "key")
          /\ SignedBy(leaf, int.key) /\ SignedBy(int, Root)
          /\ w' = [w EXCEPT !.leaf = leaf, !.int = int, !.pck = leaf.key] /\ out' = out
    BY DEF VerifyChain
  <1>3. Shape' /\ NumbersInv'
    BY <1>1, <1>2 DEF IInv, Shape, NumbersInv, Labels
  <1>4. ChainInv'
    <2>1. PICK p \in Platforms : leaf = Leaf(p) /\ int = CaCert(CaOf[p])
      BY <1>2, IssuerSigns DEF IInv, Shape
    <2>2. w'.leaf = leaf /\ w'.int = int /\ w'.pck = leaf.key
      BY <1>2 DEF IInv, Shape, NoWitness
    <2>3. leaf.serial = p /\ leaf.key = PckKey(p)
      BY <2>1 DEF Leaf
    <2>4. QED
      BY <2>1, <2>2, <2>3 DEF ChainInv, Holder, Leaf, CaCert
  <1>5. /\ QuoteInv'
    BY <1>1, <1>2 DEF IInv, QuoteInv
  <1>6. /\ CollateralInv' /\ IdentityInv' /\ ReportInv' /\ DataInv'
        /\ PolicyInv' /\ IsvInv' /\ TcbInv' /\ MergeInv' /\ RevocationInv'
    BY <1>1 DEF CollateralInv, IdentityInv, ReportInv, DataInv, PolicyInv,
       IsvInv, TcbInv, MergeInv, RevocationInv
  <1>7. QED
    BY <1>3, <1>4, <1>5, <1>6 DEF IInv

(* A document with a family is TCB-Info, one with a policy a QE-Identity.   *)
LEMMA VerifyCollateralKeeps == ASSUME IInv, VerifyCollateral PROVE IInv'
  <1>1. /\ pc = "collateral" /\ pc' = "identity"
        /\ UNCHANGED <<revokedAt, now, floor, seen>>
    BY DEF VerifyCollateral, Cut
  <1>2. PICK sign \in Known, tcb \in Known, qe \in Known :
          /\ SignedBy(sign, Root) /\ Has(sign, "key")
          /\ SignedBy(tcb, sign.key) /\ SignedBy(qe, sign.key)
          /\ w' = [w EXCEPT !.sign = sign, !.tcb = tcb, !.qe = qe] /\ out' = out
    BY DEF VerifyCollateral
  <1>3. Shape' /\ NumbersInv'
    BY <1>1, <1>2 DEF IInv, Shape, NumbersInv, Labels
  <1>4. CollateralInv'
    <2>1. w'.sign = sign /\ w'.tcb = tcb /\ w'.qe = qe
      BY <1>2 DEF IInv, Shape, NoWitness
    <2>2. sign.until \in Nat
      BY <1>2, RootSigns, WorldAssumption DEF IInv, Shape, SignCert, CaCert, Never
    <2>3. (Has(tcb, "fmspc") => IsTcbInfo(tcb)) /\ (Has(qe, "mrsigner") => IsQeId(qe))
      BY <1>2, CollateralSigned DEF IInv, Shape
    <2>4. QED
      BY <2>1, <2>2, <2>3 DEF CollateralInv, Has, IsTcbInfo, IsQeId, TcbInfo, QeId
  <1>5. /\ QuoteInv' /\ ChainInv'
    BY <1>1, <1>2 DEF IInv, QuoteInv, ChainInv, Holder
  <1>6. /\ IdentityInv' /\ ReportInv' /\ DataInv' /\ PolicyInv' /\ IsvInv'
        /\ TcbInv' /\ MergeInv' /\ RevocationInv'
    BY <1>1 DEF IdentityInv, ReportInv, DataInv, PolicyInv, IsvInv, TcbInv,
       MergeInv, RevocationInv
  <1>7. QED
    BY <1>3, <1>4, <1>5, <1>6 DEF IInv

(* The TCB-Info is of the platform's family.                                *)
LEMMA BindIdentityOutputsKeeps == ASSUME IInv, BindIdentityOutputs PROVE IInv'
  <1>1. /\ pc = "identity" /\ pc' = "report"
        /\ UNCHANGED <<revokedAt, now, floor, seen>>
    BY DEF BindIdentityOutputs, Cut
  <1>2. /\ FmspcMatches(w.leaf, w.tcb) /\ w' = w
        /\ out' = [out EXCEPT !.fmspc = w.leaf.oidFmspc, !.serial = w.leaf.serial]
    BY DEF BindIdentityOutputs
  <1>3. Shape' /\ NumbersInv'
    BY <1>1, <1>2 DEF IInv, Shape, NumbersInv, Labels
  <1>4. IdentityInv'
    <2>1. w.leaf.oidFmspc = FmspcOf[Holder]
      BY <1>1 DEF IInv, ChainInv, Leaf
    <2>2. IsTcbInfo(w.tcb) /\ w.tcb.fmspc = FmspcOf[Holder]
      BY <1>1, <1>2, <2>1 DEF IInv, CollateralInv, FmspcMatches
    <2>3. out'.fmspc = FmspcOf[Holder] /\ out'.serial = Holder
      BY <1>2, <2>1 DEF IInv, Shape, NoOutput, Holder
    <2>4. QED
      BY <1>2, <2>2, <2>3 DEF IdentityInv, Holder, IsTcbInfo, TcbInfo
  <1>5. /\ QuoteInv' /\ ChainInv' /\ CollateralInv'
    <2>1. QuoteInv'
      BY <1>1, <1>2 DEF IInv, QuoteInv
    <2>2. ChainInv'
      BY <1>1, <1>2 DEF IInv, ChainInv, Holder
    <2>3. CollateralInv'
      BY <1>1, <1>2 DEF IInv, CollateralInv
    <2>4. QED
      BY <2>1, <2>2, <2>3
  <1>6. /\ ReportInv' /\ DataInv' /\ PolicyInv' /\ IsvInv' /\ TcbInv'
        /\ MergeInv' /\ RevocationInv'
    BY <1>1 DEF ReportInv, DataInv, PolicyInv, IsvInv, TcbInv, MergeInv,
       RevocationInv
  <1>7. QED
    BY <1>3, <1>4, <1>5, <1>6 DEF IInv

(* The report is the platform's.                                            *)
LEMMA VerifyQeReportSigKeeps == ASSUME IInv, VerifyQeReportSig PROVE IInv'
  <1>1. /\ pc = "report" /\ pc' = "data"
        /\ UNCHANGED <<revokedAt, now, floor, seen>>
    BY DEF VerifyQeReportSig, Cut
  <1>2. PICK r \in Known : /\ Has(r, "commit") /\ SignedBy(r, w.pck)
                            /\ w' = [w EXCEPT !.report = r] /\ out' = out
    BY DEF VerifyQeReportSig
  <1>3. Shape' /\ NumbersInv'
    BY <1>1, <1>2 DEF IInv, Shape, NumbersInv, Labels
  <1>4. ReportInv'
    <2>1. Holder \in Platforms /\ w.pck = PckKey(Holder)
      BY <1>1 DEF IInv, ChainInv
    <2>2. r \in {Report(Holder), OtherReport(Holder)}
      BY <1>2, <2>1, PlatformSigns DEF IInv, Shape
    <2>3. w'.report = r /\ w'.leaf = w.leaf
      BY <1>2 DEF IInv, Shape, NoWitness
    <2>4. QED
      BY <2>2, <2>3 DEF ReportInv, Holder, Report, OtherReport
  <1>5. /\ QuoteInv' /\ ChainInv' /\ CollateralInv' /\ IdentityInv'
    <2>1. QuoteInv'
      BY <1>1, <1>2 DEF IInv, QuoteInv
    <2>2. ChainInv'
      BY <1>1, <1>2 DEF IInv, ChainInv, Holder
    <2>3. CollateralInv'
      BY <1>1, <1>2 DEF IInv, CollateralInv
    <2>4. IdentityInv'
      BY <1>1, <1>2 DEF IInv, IdentityInv, Holder
    <2>5. QED
      BY <2>1, <2>2, <2>3, <2>4
  <1>6. /\ DataInv' /\ PolicyInv' /\ IsvInv' /\ TcbInv' /\ MergeInv'
        /\ RevocationInv'
    BY <1>1 DEF DataInv, PolicyInv, IsvInv, TcbInv, MergeInv, RevocationInv
  <1>7. QED
    BY <1>3, <1>4, <1>5, <1>6 DEF IInv

(* The key is the one the report commits to.                                *)
LEMMA VerifyQeReportDataKeeps == ASSUME IInv, VerifyQeReportData PROVE IInv'
  <1>1. /\ pc = "data" /\ pc' = "policy"
        /\ UNCHANGED <<revokedAt, now, floor, seen>>
    BY DEF VerifyQeReportData, Cut
  <1>2. PICK raw, key \in {Rogue} \cup {AttestKey(p) : p \in Platforms} :
          Committed(w.report, raw, key) /\ w' = [w EXCEPT !.attest = key] /\ out' = out
    BY DEF VerifyQeReportData
  <1>3. Shape' /\ NumbersInv'
    BY <1>1, <1>2 DEF IInv, Shape, NumbersInv, Labels
  <1>4. DataInv'
    <2>1. w'.attest = key /\ w'.report = w.report
      BY <1>2 DEF IInv, Shape, NoWitness
    <2>2. QED
      BY <1>2, <2>1 DEF DataInv, Committed
  <1>5. /\ QuoteInv' /\ ChainInv' /\ CollateralInv' /\ IdentityInv'
        /\ ReportInv'
    <2>1. QuoteInv'
      BY <1>1, <1>2 DEF IInv, QuoteInv
    <2>2. ChainInv'
      BY <1>1, <1>2 DEF IInv, ChainInv, Holder
    <2>3. CollateralInv'
      BY <1>1, <1>2 DEF IInv, CollateralInv
    <2>4. IdentityInv'
      BY <1>1, <1>2 DEF IInv, IdentityInv, Holder
    <2>5. ReportInv'
      BY <1>1, <1>2 DEF IInv, ReportInv, Holder
    <2>6. QED
      BY <2>1, <2>2, <2>3, <2>4, <2>5
  <1>6. /\ PolicyInv' /\ IsvInv' /\ TcbInv' /\ MergeInv' /\ RevocationInv'
    BY <1>1 DEF PolicyInv, IsvInv, TcbInv, MergeInv, RevocationInv
  <1>7. QED
    BY <1>3, <1>4, <1>5, <1>6 DEF IInv

(* The policy is the one the report satisfies.                              *)
LEMMA VerifyQePolicyKeeps == ASSUME IInv, VerifyQePolicy PROVE IInv'
  <1>1. /\ pc = "policy" /\ pc' = "isv"
        /\ UNCHANGED <<revokedAt, now, floor, seen>>
    BY DEF VerifyQePolicy, Cut
  <1>2. PICK m \in {"intel", "other"} :
          w.report.mrsigner = m /\ w' = [w EXCEPT !.policy = m] /\ out' = out
    BY DEF VerifyQePolicy
  <1>3. Shape' /\ NumbersInv'
    BY <1>1, <1>2 DEF IInv, Shape, NumbersInv, Labels
  <1>4. PolicyInv'
    <2>1. w'.policy = m /\ w'.report = w.report
      BY <1>2 DEF IInv, Shape, NoWitness
    <2>2. QED
      BY <1>2, <2>1 DEF PolicyInv
  <1>5. /\ QuoteInv' /\ ChainInv' /\ CollateralInv' /\ IdentityInv'
        /\ ReportInv' /\ DataInv'
    <2>1. QuoteInv'
      BY <1>1, <1>2 DEF IInv, QuoteInv
    <2>2. ChainInv'
      BY <1>1, <1>2 DEF IInv, ChainInv, Holder
    <2>3. CollateralInv'
      BY <1>1, <1>2 DEF IInv, CollateralInv
    <2>4. IdentityInv'
      BY <1>1, <1>2 DEF IInv, IdentityInv, Holder
    <2>5. ReportInv'
      BY <1>1, <1>2 DEF IInv, ReportInv, Holder
    <2>6. DataInv'
      BY <1>1, <1>2 DEF IInv, DataInv
    <2>7. QED
      BY <2>1, <2>2, <2>3, <2>4, <2>5, <2>6
  <1>6. /\ IsvInv' /\ TcbInv' /\ MergeInv' /\ RevocationInv'
    BY <1>1 DEF IsvInv, TcbInv, MergeInv, RevocationInv
  <1>7. QED
    BY <1>3, <1>4, <1>5, <1>6 DEF IInv

(* The quote is signed with that key.                                       *)
LEMMA VerifyIsvReportSigKeeps == ASSUME IInv, VerifyIsvReportSig PROVE IInv'
  <1>1. /\ pc = "isv" /\ pc' = "tcb"
        /\ UNCHANGED <<revokedAt, now, floor, seen>>
    BY DEF VerifyIsvReportSig, Cut
  <1>2. SignedBy(w.quote, w.attest) /\ w' = w /\ out' = out
    BY DEF VerifyIsvReportSig
  <1>3. Shape' /\ NumbersInv'
    BY <1>1, <1>2 DEF IInv, Shape, NumbersInv, Labels
  <1>4. IsvInv'
    BY <1>2 DEF IsvInv, SignedBy
  <1>5. /\ QuoteInv' /\ ChainInv' /\ CollateralInv' /\ IdentityInv'
        /\ ReportInv' /\ DataInv' /\ PolicyInv'
    <2>1. QuoteInv'
      BY <1>1, <1>2 DEF IInv, QuoteInv
    <2>2. ChainInv'
      BY <1>1, <1>2 DEF IInv, ChainInv, Holder
    <2>3. CollateralInv'
      BY <1>1, <1>2 DEF IInv, CollateralInv
    <2>4. IdentityInv'
      BY <1>1, <1>2 DEF IInv, IdentityInv, Holder
    <2>5. ReportInv'
      BY <1>1, <1>2 DEF IInv, ReportInv, Holder
    <2>6. DataInv'
      BY <1>1, <1>2 DEF IInv, DataInv
    <2>7. PolicyInv'
      BY <1>1, <1>2 DEF IInv, PolicyInv
    <2>8. QED
      BY <2>1, <2>2, <2>3, <2>4, <2>5, <2>6, <2>7
  <1>6. /\ TcbInv' /\ MergeInv' /\ RevocationInv'
    BY <1>1 DEF TcbInv, MergeInv, RevocationInv
  <1>7. QED
    BY <1>3, <1>4, <1>5, <1>6 DEF IInv

(* The policy is the QE-Identity's, the numbers those of the documents.     *)
LEMMA BindTcbDataKeeps == ASSUME IInv, BindTcbData PROVE IInv'
  <1>1. /\ pc = "tcb" /\ pc' = "merge"
        /\ UNCHANGED <<revokedAt, now, floor, seen>>
    BY DEF BindTcbData, Cut
  <1>2. PICK t \in Times : /\ PolicyBound(w.qe) /\ w' = w
          /\ out' = [out EXCEPT !.timestamp = t, !.evals = EvalNumbers(w.tcb, w.qe)]
    BY DEF BindTcbData
  <1>3. Shape' /\ NumbersInv'
    BY <1>1, <1>2 DEF IInv, Shape, NumbersInv, Labels
  <1>4. TcbInv'
    <2>1. IsQeId(w.qe) /\ w.policy = w.qe.mrsigner
      BY <1>1, <1>2 DEF IInv, CollateralInv, PolicyBound
    <2>2. out'.evals = [tcb |-> w.tcb.eval, qe |-> w.qe.eval]
      BY <1>2 DEF IInv, Shape, NoOutput, EvalNumbers
    <2>3. QED
      BY <1>2, <2>1, <2>2 DEF TcbInv, IsQeId, QeId
  <1>5. /\ QuoteInv' /\ ChainInv' /\ CollateralInv' /\ IdentityInv'
        /\ ReportInv' /\ DataInv' /\ PolicyInv' /\ IsvInv'
    <2>1. QuoteInv'
      BY <1>1, <1>2 DEF IInv, QuoteInv
    <2>2. ChainInv'
      BY <1>1, <1>2 DEF IInv, ChainInv, Holder
    <2>3. CollateralInv'
      BY <1>1, <1>2 DEF IInv, CollateralInv
    <2>4. IdentityInv'
      BY <1>1, <1>2 DEF IInv, IdentityInv, Holder
    <2>5. ReportInv'
      BY <1>1, <1>2 DEF IInv, ReportInv, Holder
    <2>6. DataInv'
      BY <1>1, <1>2 DEF IInv, DataInv
    <2>7. PolicyInv'
      BY <1>1, <1>2 DEF IInv, PolicyInv
    <2>8. IsvInv'
      BY <1>1, <1>2 DEF IInv, IsvInv
    <2>9. QED
      BY <2>1, <2>2, <2>3, <2>4, <2>5, <2>6, <2>7, <2>8
  <1>6. /\ MergeInv' /\ RevocationInv'
    BY <1>1 DEF MergeInv, RevocationInv
  <1>7. QED
    BY <1>3, <1>4, <1>5, <1>6 DEF IInv

(* The status is the worse of the two the documents hold.                   *)
LEMMA MatchAndMergeKeeps == ASSUME IInv, MatchAndMerge PROVE IInv'
  <1>1. /\ pc = "merge" /\ pc' = "revocation"
        /\ UNCHANGED <<revokedAt, now, floor, seen>>
    BY DEF MatchAndMerge, Cut
  <1>2. /\ Platform # None /\ Enclave # None /\ w' = w
        /\ LET merged == IF Platform >= Enclave THEN Platform ELSE Enclave IN
             merged # Revoked /\ out' = [out EXCEPT !.status = merged]
    BY DEF MatchAndMerge
  <1>3. Shape' /\ NumbersInv'
    BY <1>1, <1>2 DEF IInv, Shape, NumbersInv, Labels
  <1>4. MergeInv'
    <2>1. Platform \in Severities /\ Enclave \in Severities
      <3>1. /\ Platform \in Severities \cup {None} /\ Enclave \in Severities \cup {None}
        BY <1>1, Bound, VerdictsTyped
      <3>2. QED
        BY <1>2, <3>1
    <2>2. Platform \in Nat /\ Enclave \in Nat
      BY <2>1, WorldAssumption
    <2>3. PICK merged \in {Platform, Enclave} :
            /\ merged >= Platform /\ merged >= Enclave /\ merged # Revoked
            /\ out' = [out EXCEPT !.status = merged]
      BY <1>2, <2>2
    <2>4. out'.status = merged
      BY <2>3 DEF IInv, Shape, NoOutput
    <2>5. Platform' = Platform /\ Enclave' = Enclave
      BY <1>2 DEF Platform, Enclave
    <2>6. QED
      BY <2>1, <2>3, <2>4, <2>5 DEF MergeInv
  <1>5. /\ QuoteInv' /\ ChainInv' /\ CollateralInv' /\ IdentityInv'
        /\ ReportInv' /\ DataInv' /\ PolicyInv' /\ IsvInv' /\ TcbInv'
    <2>1. QuoteInv'
      BY <1>1, <1>2 DEF IInv, QuoteInv
    <2>2. ChainInv'
      BY <1>1, <1>2 DEF IInv, ChainInv, Holder
    <2>3. CollateralInv'
      BY <1>1, <1>2 DEF IInv, CollateralInv
    <2>4. IdentityInv'
      BY <1>1, <1>2 DEF IInv, IdentityInv, Holder
    <2>5. ReportInv'
      BY <1>1, <1>2 DEF IInv, ReportInv, Holder
    <2>6. DataInv'
      BY <1>1, <1>2 DEF IInv, DataInv
    <2>7. PolicyInv'
      BY <1>1, <1>2 DEF IInv, PolicyInv
    <2>8. IsvInv'
      BY <1>1, <1>2 DEF IInv, IsvInv
    <2>9. TcbInv'
      BY <1>1, <1>2 DEF IInv, TcbInv
    <2>10. QED
      BY <2>1, <2>2, <2>3, <2>4, <2>5, <2>6, <2>7, <2>8, <2>9
  <1>6. /\ RevocationInv'
    BY <1>1 DEF RevocationInv
  <1>7. QED
    BY <1>3, <1>4, <1>5, <1>6 DEF IInv

(* Neither certificate was revoked when its CRL was issued.                 *)
LEMMA VerifyRevocationKeeps == ASSUME IInv, VerifyRevocation PROVE IInv'
  <1>1. /\ pc = "revocation" /\ pc' = "proved"
        /\ UNCHANGED <<revokedAt, now, floor, seen>>
    BY DEF VerifyRevocation, Cut
  <1>2. PICK pck \in {d \in Known : NotListed(d, PckIssuer(w.int, d), w.leaf.serial)},
             rc \in {d \in Known : NotListed(d, Root, w.int.serial)} :
          /\ w' = w
          /\ LET dated == {w.leaf, w.int, w.sign, pck, rc} IN
               out' = [out EXCEPT
                 !.from = Latest({d.from : d \in dated} \cup {w.tcb.issued, w.qe.issued}),
                 !.until = Earliest({d.until : d \in dated} \cup {w.tcb.next, w.qe.next})]
    BY DEF VerifyRevocation
  <1>3. Shape' /\ NumbersInv'
    BY <1>1, <1>2 DEF IInv, Shape, NumbersInv, Labels
  <1>4. RevocationInv'
    <2>1. /\ Holder \in Platforms /\ CaOf[Holder] \in Cas
          /\ w.leaf = Leaf(Holder) /\ w.int = CaCert(CaOf[Holder])
      BY <1>1, WorldAssumption DEF IInv, ChainInv
    <2>2. PICK t \in Nat : pck = PckCrl(CaOf[Holder], t)
      BY <1>2, <2>1, CrlSigned DEF IInv, Shape, NotListed, PckIssuer, CaCert
    <2>3. PICK u \in Nat : rc = RootCrl(u)
      BY <1>2, CrlSigned DEF IInv, Shape, NotListed
    <2>4. ~(revokedAt[Holder] <= t)
      BY <1>2, <2>1, <2>2 DEF NotListed, Contains, Has, PckCrl, Leaf
    <2>5. ~(revokedAt[CaOf[Holder]] <= u)
      BY <1>2, <2>1, <2>3 DEF NotListed, Contains, Has, RootCrl, CaCert
    <2>6. revokedAt[Holder] \in Nat /\ revokedAt[CaOf[Holder]] \in Nat
      BY <2>1, WorldAssumption DEF IInv, Shape, Serials, Never
    <2> DEFINE Ends == {d.until : d \in {w.leaf, w.int, w.sign, pck, rc}}
                       \cup {w.tcb.next, w.qe.next}
    <2>7. Ends \in SUBSET Nat /\ t + Period \in Ends /\ u + Period \in Ends
      <3>1. w.leaf.until \in Nat /\ w.int.until \in Nat /\ w.sign.until \in Nat
        BY <1>1, <2>1, WorldAssumption DEF IInv, CollateralInv, Leaf, CaCert, Never
      <3>2. pck.until = t + Period /\ rc.until = u + Period
        BY <2>2, <2>3 DEF PckCrl, RootCrl
      <3>3. w.tcb.next \in Nat /\ w.qe.next \in Nat
        BY <1>1, TcbInfoFields, QeIdFields DEF IInv, IdentityInv, TcbInv
      <3>4. Ends = {w.leaf.until, w.int.until, w.sign.until, pck.until, rc.until,
                    w.tcb.next, w.qe.next}
        OBVIOUS
      <3>5. QED
        BY <3>1, <3>2, <3>3, <3>4, WorldAssumption
    <2>8. out'.until = Earliest(Ends)
      BY <1>2 DEF IInv, Shape, NoOutput
    <2>9. out'.until \in Nat /\ out'.until <= t + Period /\ out'.until <= u + Period
      <3> HIDE DEF Ends
      <3>1. Earliest(Ends) \in Ends /\ \A y \in Ends : Earliest(Ends) <= y
        BY <2>7, EarliestFacts
      <3>2. QED
        BY <2>7, <2>8, <3>1
    <2>10. Holder' = Holder /\ revokedAt' = revokedAt
      BY <1>1, <1>2 DEF Holder
    <2>11. QED
      BY <2>4, <2>5, <2>6, <2>9, <2>10, WorldAssumption DEF RevocationInv
  <1>5. /\ QuoteInv' /\ ChainInv' /\ CollateralInv' /\ IdentityInv'
        /\ ReportInv' /\ DataInv' /\ PolicyInv' /\ IsvInv' /\ TcbInv'
        /\ MergeInv'
    <2>1. QuoteInv'
      BY <1>1, <1>2 DEF IInv, QuoteInv
    <2>2. ChainInv'
      BY <1>1, <1>2 DEF IInv, ChainInv, Holder
    <2>3. CollateralInv'
      BY <1>1, <1>2 DEF IInv, CollateralInv
    <2>4. IdentityInv'
      BY <1>1, <1>2 DEF IInv, IdentityInv, Holder
    <2>5. ReportInv'
      BY <1>1, <1>2 DEF IInv, ReportInv, Holder
    <2>6. DataInv'
      BY <1>1, <1>2 DEF IInv, DataInv
    <2>7. PolicyInv'
      BY <1>1, <1>2 DEF IInv, PolicyInv
    <2>8. IsvInv'
      BY <1>1, <1>2 DEF IInv, IsvInv
    <2>9. TcbInv'
      BY <1>1, <1>2 DEF IInv, TcbInv
    <2>10. MergeInv'
      BY <1>1, <1>2 DEF IInv, MergeInv, Platform, Enclave
    <2>11. QED
      BY <2>1, <2>2, <2>3, <2>4, <2>5, <2>6, <2>7, <2>8, <2>9, <2>10
  <1>7. QED
    BY <1>3, <1>4, <1>5 DEF IInv

(* Another proof, a submission and time change nothing of what is claimed.  *)
LEMMA RestartKeeps == ASSUME IInv, Restart PROVE IInv'
  BY DEF Restart, IInv, Shape, NoWitness, NoOutput, Labels, NumbersInv, QuoteInv, ChainInv,
     CollateralInv, IdentityInv, ReportInv, DataInv, PolicyInv, IsvInv, TcbInv, MergeInv,
     RevocationInv

(* What the witness and the outputs say does not depend on the time.        *)
LEMMA Still ==
  ASSUME IInv, UNCHANGED <<revokedAt, pc, w, out>>
  PROVE  /\ QuoteInv' /\ ChainInv' /\ CollateralInv' /\ IdentityInv' /\ ReportInv' /\ DataInv'
         /\ PolicyInv' /\ IsvInv' /\ TcbInv' /\ MergeInv' /\ RevocationInv'
  BY DEF IInv, QuoteInv, ChainInv, CollateralInv, IdentityInv, ReportInv, DataInv, PolicyInv,
     IsvInv, TcbInv, MergeInv, RevocationInv, Holder, Platform, Enclave

LEMMA TickKeeps == ASSUME IInv, Tick PROVE IInv'
  <1>1. Shape' /\ NumbersInv'
    BY WorldAssumption DEF Tick, IInv, Shape, NumbersInv, Times
  <1>2. QED
    BY <1>1, Still DEF Tick, IInv

LEMMA ConsumeKeeps == ASSUME IInv, Consume PROVE IInv'
  <1>1. out.evals \in [tcb : Nat, qe : Nat] /\ out.evals = [tcb |-> w.tcb.eval, qe |-> w.qe.eval]
    BY TcbInfoFields, QeIdFields DEF Consume, IInv, IdentityInv, TcbInv
  <1>2. Shape' /\ NumbersInv'
    BY <1>1 DEF Consume, IInv, Shape, NumbersInv
  <1>3. QED
    BY <1>2, Still DEF Consume, IInv

LEMMA StutterKeeps == ASSUME IInv, UNCHANGED vars PROVE IInv'
  <1>1. Shape' /\ NumbersInv'
    BY DEF vars, IInv, Shape, NumbersInv
  <1>2. QED
    BY <1>1, Still DEF vars, IInv

THEOREM Invariance == Spec => []IInv
  <1>1. IInv /\ [Next]_vars => IInv'
    BY BindPublicInputsKeeps, VerifyChainKeeps, VerifyCollateralKeeps, BindIdentityOutputsKeeps,
       VerifyQeReportSigKeeps, VerifyQeReportDataKeeps, VerifyQePolicyKeeps,
       VerifyIsvReportSigKeeps, BindTcbDataKeeps, MatchAndMergeKeeps, VerifyRevocationKeeps,
       RestartKeeps, ConsumeKeeps, TickKeeps, StutterKeeps DEF Next
  <1>2. QED
    BY InitStep, <1>1, PTL DEF Spec

--------------------------------------------------------------------------------
(* Whatever signed documents the prover combines, an accepted proof's       *)
(* measurements, serial and family are those of one genuine platform        *)
(* (dcap.go, Define).                                                       *)
THEOREM AlwaysAuthentic == Spec => []Authentic
  <1>1. IInv => Authentic
    <2>1. SUFFICES ASSUME IInv, pc = "proved" PROVE Authentic
      BY DEF Authentic
    <2>2. Holder \in Platforms /\ w.quote = Quote(Holder)
      BY <2>1, Bound
    <2>3. out.body = Holder
      BY <2>1, <2>2 DEF IInv, QuoteInv, Quote
    <2>4. out.serial = Holder /\ out.fmspc = FmspcOf[Holder]
      BY <2>1 DEF IInv, IdentityInv
    <2>5. QED
      BY <2>2, <2>3, <2>4 DEF Authentic
  <1>2. QED
    BY Invariance, <1>1, PTL

(* The status is the worse of what the documents of this family and these   *)
(* numbers say of this platform, and not Revoked (steps 8 to 10).           *)
THEOREM VerdictAlwaysOfPlatform == Spec => []VerdictOfPlatform
  <1>1. IInv => VerdictOfPlatform
    <2>1. SUFFICES ASSUME IInv, pc = "proved" PROVE VerdictOfPlatform
      BY DEF VerdictOfPlatform
    <2>2. out.serial = Holder
      BY <2>1 DEF IInv, IdentityInv
    <2>3. /\ None \notin {Platform, Enclave}
          /\ out.status \in {Platform, Enclave} /\ out.status >= Platform
          /\ out.status >= Enclave /\ out.status # Revoked
      BY <2>1, WorldAssumption DEF IInv, MergeInv
    <2>4. QED
      BY <2>1, <2>2, <2>3, Bound DEF VerdictOfPlatform
  <1>2. QED
    BY Invariance, <1>1, PTL

(* Nobody relies on a revoked platform or intermediate a CRL period after   *)
(* its revocation (crl.go 50-66, stepVerifyRevocation).                     *)
THEOREM RevocationAlwaysBites == Spec => RevocationBites
  <1>1. IInv /\ Consume => /\ now < revokedAt[out.serial] + Period
                           /\ now < revokedAt[CaOf[out.serial]] + Period
    <2>1. SUFFICES ASSUME IInv, Consume
                   PROVE  /\ now < revokedAt[out.serial] + Period
                          /\ now < revokedAt[CaOf[out.serial]] + Period
      OBVIOUS
    <2>2. pc = "proved" /\ now <= out.until
      BY <2>1 DEF Consume
    <2>3. /\ out.until \in Nat /\ out.until < revokedAt[Holder] + Period
          /\ out.until < revokedAt[CaOf[Holder]] + Period /\ out.serial = Holder
      BY <2>1, <2>2 DEF IInv, RevocationInv, IdentityInv
    <2>4. now \in Nat
      BY <2>1 DEF IInv, Shape, Times
    <2>5. revokedAt[Holder] \in Nat /\ revokedAt[CaOf[Holder]] \in Nat
      BY <2>1, <2>2, WorldAssumption DEF IInv, Shape, ChainInv, Serials, Never
    <2>6. QED
      BY <2>2, <2>3, <2>4, <2>5, WorldAssumption
  <1>2. QED
    BY Invariance, <1>1, PTL DEF RevocationBites

(* A consumer never relies on a smaller number than it did before           *)
(* (tcbextract.go 481-486).                                                 *)
THEOREM NumbersNeverFallAlways == Spec => NumbersNeverFall
  <1>1. IInv /\ Consume => AtLeast([tcb |-> w.tcb.eval, qe |-> w.qe.eval], seen[out.fmspc])
    BY DEF Consume, IInv, TcbInv, NumbersInv
  <1>2. QED
    BY Invariance, <1>1, PTL DEF NumbersNeverFall

--------------------------------------------------------------------------------
(* When the witness was signed, and the window that follows from it.        *)
Past(d) == /\ Has(d, "from") => d.from \in Nat /\ d.from <= now
           /\ Has(d, "issued") => d.issued \in Nat /\ d.issued <= now
           /\ IsTcbInfo(d) => NewEval[d.eval] <= d.issued

CollateralTimes == pc \in AfterCollateral => Past(w.tcb) /\ Past(w.qe) /\ w.sign.from = 0

TcbTimes == pc \in AfterTcb =>
  /\ out.timestamp \in Nat
  /\ WithinIssue(out.timestamp, w.tcb) /\ WithinIssue(out.timestamp, w.qe)
  /\ \A d \in {w.leaf, w.int, w.sign} : Within(out.timestamp, d)

WindowTimes == pc \in AfterRevocation =>
  /\ out.from \in Nat /\ out.from <= now
  /\ out.from <= out.timestamp /\ out.timestamp <= out.until
  /\ NewEval[out.evals.tcb] <= out.from /\ out.until <= out.from + Period

TimesInv == CollateralTimes /\ TcbTimes /\ WindowTimes

(* Nothing is signed in advance, and no number is used before its time.     *)
LEMMA KnownPast ==
  ASSUME NEW d \in Known, now \in Times
  PROVE  Past(d)
  <1>1. ASSUME NEW e \in Certificates \cup Reports \cup Quotes
        PROVE  /\ Has(e, "from") => e.from \in Nat /\ e.from <= now
               /\ ~Has(e, "issued")
    BY <1>1 DEF Certificates, Reports, Quotes, CaCert, SignCert, Leaf, Report, OtherReport,
                Quote, Has, Times
  <1>2. ASSUME NEW t \in 0 .. now, NEW e \in Crls(t)
        PROVE  /\ Has(e, "from") => e.from \in Nat /\ e.from <= now
               /\ ~Has(e, "issued")
    BY <1>2 DEF Crls, PckCrl, RootCrl, Has, Times
  <1>3. ASSUME NEW t \in 0 .. now, NEW e \in Collateral(t)
        PROVE  /\ ~Has(e, "from")
               /\ Has(e, "issued") => e.issued \in Nat /\ e.issued <= now
               /\ Has(e, "fmspc") => NewEval[e.eval] <= e.issued
    BY <1>3 DEF Collateral, TcbInfo, QeId, Has, Times
  <1>4. ASSUME NEW e \in Signed
        PROVE  /\ Has(e, "from") => e.from \in Nat /\ e.from <= now
               /\ Has(e, "issued") => e.issued \in Nat /\ e.issued <= now
    BY <1>1, <1>2, <1>3 DEF Signed
  <1>5. (Has(d, "from") => d.from \in Nat /\ d.from <= now)
        /\ (Has(d, "issued") => d.issued \in Nat /\ d.issued <= now)
    <2>1. CASE d \in Signed
      BY <1>4, <2>1
    <2>2. CASE d \in Forged(Signed)
      <3>1. PICK e \in Signed : d = [e EXCEPT !.by = Rogue]
        BY <2>2 DEF Forged
      <3>2. QED
        BY <1>4, <3>1 DEF Has
    <2>3. CASE d \in ForgedCerts
      <3>1. PICK e \in Certificates : d = [e EXCEPT !.by = Rogue, !.key = Rogue]
        BY <2>3 DEF ForgedCerts
      <3>2. QED
        BY <1>1, <3>1 DEF Has
    <2>4. CASE d \in ForgedQuotes
      BY <2>4 DEF ForgedQuotes, Has
    <2>5. QED
      BY <2>1, <2>2, <2>3, <2>4 DEF Known
  <1>6. ASSUME IsTcbInfo(d) PROVE NewEval[d.eval] <= d.issued
    <2>1. PICK f \in Fmspcs, e \in Evals, t \in Nat : d = TcbInfo(f, e, t)
      BY <1>6 DEF IsTcbInfo
    <2>2. d.by = SignKey /\ Has(d, "fmspc") /\ ~Has(d, "key") /\ ~Has(d, "commit")
          /\ ~Has(d, "body") /\ ~Has(d, "list")
      BY <2>1 DEF TcbInfo, Has
    <2>3. d \in Signed
      BY <2>2, KeysDiffer, Genuine
    <2>4. d \notin Certificates \cup Reports \cup Quotes
      BY <2>2 DEF Certificates, Reports, Quotes, CaCert, SignCert, Leaf, Report, OtherReport,
                  Quote, Has
    <2>5. \A u \in 0 .. now : d \notin Crls(u)
      BY <2>2 DEF Crls, PckCrl, RootCrl, Has
    <2>6. PICK u \in 0 .. now : d \in Collateral(u)
      BY <2>3, <2>4, <2>5 DEF Signed
    <2>7. QED
      BY <1>3, <2>2, <2>6
  <1>7. QED
    BY <1>5, <1>6 DEF Past

(* What was true of the witness stays true as time passes.                  *)
LEMMA TimesStand ==
  ASSUME TimesInv, now \in Nat, now' \in Nat, now <= now',
         pc' \in AfterCollateral => pc \in AfterCollateral /\ UNCHANGED <<w.sign, w.tcb, w.qe>>,
         pc' \in AfterTcb => pc \in AfterTcb /\ UNCHANGED <<w.leaf, w.int, out.timestamp>>,
         pc' \in AfterRevocation => pc \in AfterRevocation /\ out' = out
  PROVE  TimesInv'
  <1>1. CollateralTimes'
    BY DEF TimesInv, CollateralTimes, Past
  <1>2. TcbTimes'
    BY DEF TimesInv, TcbTimes, Within, WithinIssue
  <1>3. WindowTimes'
    BY DEF TimesInv, WindowTimes
  <1>4. QED
    BY <1>1, <1>2, <1>3 DEF TimesInv

(* The greatest of a set of bounded dates is one of them and above all.     *)
LEMMA LatestFacts ==
  ASSUME NEW t \in Nat, NEW S \in SUBSET (0 .. t), S # {}
  PROVE  Latest(S) \in S /\ \A y \in S : y <= Latest(S)
  <1> DEFINE D == {t - x : x \in S}
  <1>1. D \in SUBSET Nat /\ D # {}
    <2>1. ASSUME NEW x \in S PROVE t - x \in Nat
      <3>1. x \in 0 .. t
        OBVIOUS
      <3>2. QED
        BY <3>1
    <2>2. QED
      BY <2>1
  <1>2. Earliest(D) \in D /\ \A y \in D : Earliest(D) <= y
    BY <1>1, EarliestFacts
  <1>3. PICK x \in S : Earliest(D) = t - x
    BY <1>2
  <1>4. ASSUME NEW y \in S PROVE y <= x
    <2>1. t - x <= t - y
      BY <1>2, <1>3
    <2>2. x \in 0 .. t /\ y \in 0 .. t
      OBVIOUS
    <2>3. QED
      BY <2>1, <2>2
  <1>5. QED
    BY <1>4 DEF Latest

(* What the last step folds: the five documents with dates of their own,     *)
(* the two CRLs issued at t and u, and two that were issued, all current.   *)
Dated(p, sign, t, u) ==
  {Leaf(p), CaCert(CaOf[p]), sign, PckCrl(CaOf[p], t), RootCrl(u)}

Folded(p, sign, tcb, qe, t, u, ts, from, until) ==
  /\ now \in Times /\ p \in Platforms /\ {t, u, ts, sign.until} \subseteq Nat /\ sign.from = 0
  /\ IsTcbInfo(tcb) /\ IsQeId(qe)
  /\ \A d \in {tcb, qe, PckCrl(CaOf[p], t), RootCrl(u)} : Past(d)
  /\ WithinIssue(ts, tcb) /\ WithinIssue(ts, qe)
  /\ \A d \in Dated(p, sign, t, u) : Within(ts, d)
  /\ from = Latest({d.from : d \in Dated(p, sign, t, u)} \cup {tcb.issued, qe.issued})
  /\ until = Earliest({d.until : d \in Dated(p, sign, t, u)} \cup {tcb.next, qe.next})

(* The window is that of the documents: past, around the timestamp, after   *)
(* the TCB-Info's number was introduced, and within a period of every CRL.  *)
LEMMA WindowFolds ==
  ASSUME NEW p, NEW sign, NEW tcb, NEW qe, NEW t, NEW u, NEW ts, NEW from, NEW until,
         Folded(p, sign, tcb, qe, t, u, ts, from, until)
  PROVE  /\ from \in Nat /\ from <= now /\ from <= ts /\ ts <= until /\ until \in Nat
         /\ NewEval[tcb.eval] <= from /\ until <= from + Period
         /\ until <= t + Period /\ until <= u + Period
  <1> /\ now \in Times /\ p \in Platforms /\ t \in Nat /\ u \in Nat /\ ts \in Nat
      /\ sign.from = 0 /\ sign.until \in Nat /\ IsTcbInfo(tcb) /\ IsQeId(qe)
      /\ Past(tcb) /\ Past(qe) /\ Past(PckCrl(CaOf[p], t)) /\ Past(RootCrl(u))
      /\ WithinIssue(ts, tcb) /\ WithinIssue(ts, qe)
      /\ \A d \in Dated(p, sign, t, u) : Within(ts, d)
      /\ from = Latest({d.from : d \in Dated(p, sign, t, u)} \cup {tcb.issued, qe.issued})
      /\ until = Earliest({d.until : d \in Dated(p, sign, t, u)} \cup {tcb.next, qe.next})
    BY DEF Folded
  <1> DEFINE leaf == Leaf(p)
             int == CaCert(CaOf[p])
             pck == PckCrl(CaOf[p], t)
             rc == RootCrl(u)
             Starts == {d.from : d \in {leaf, int, sign, pck, rc}} \cup {tcb.issued, qe.issued}
             Ends == {d.until : d \in {leaf, int, sign, pck, rc}} \cup {tcb.next, qe.next}
  <1>1. /\ tcb.issued \in Nat /\ tcb.issued <= now /\ NewEval[tcb.eval] <= tcb.issued
        /\ tcb.next = tcb.issued + Period
        /\ qe.issued \in Nat /\ qe.issued <= now /\ qe.next = qe.issued + Period
    <2>1. /\ Has(tcb, "issued") /\ tcb.next = tcb.issued + Period
          /\ Has(qe, "issued") /\ qe.next = qe.issued + Period
      BY DEF IsTcbInfo, IsQeId, TcbInfo, QeId, Has
    <2>2. QED
      BY <2>1 DEF Past
  <1>2. /\ pck.from = t /\ t <= now /\ pck.until = t + Period
        /\ rc.from = u /\ u <= now /\ rc.until = u + Period
    BY DEF Past, Has, PckCrl, RootCrl
  <1>3. /\ leaf.from = 0 /\ int.from = 0 /\ leaf.until \in Nat /\ int.until \in Nat
    BY WorldAssumption DEF Leaf, CaCert, Never
  <1>4. now \in Nat /\ Period \in Nat /\ Horizon \in Nat /\ NewEval[tcb.eval] \in Nat
    BY TcbInfoFields, WorldAssumption DEF Times
  <1>5. /\ Within(ts, leaf) /\ Within(ts, int) /\ Within(ts, sign) /\ Within(ts, pck)
        /\ Within(ts, rc)
    BY DEF Dated
  <1> HIDE DEF leaf, int, pck, rc
  <1>6. /\ Starts = {leaf.from, int.from, sign.from, pck.from, rc.from, tcb.issued, qe.issued}
        /\ Ends = {leaf.until, int.until, sign.until, pck.until, rc.until, tcb.next, qe.next}
    OBVIOUS
  <1>7. Starts \in SUBSET (0 .. ts) /\ \A x \in Starts : x <= now
    <2>1. \A x \in Starts : x \in Nat /\ x <= now
      BY <1>1, <1>2, <1>3, <1>4, <1>6
    <2>2. \A x \in Starts : x <= ts
      BY <1>5, <1>6 DEF Within, WithinIssue
    <2> HIDE DEF Starts
    <2>3. QED
      BY <2>1, <2>2
  <1>8. Ends \in SUBSET Nat /\ \A y \in Ends : ts <= y
    <2>1. \A y \in Ends : y \in Nat
      BY <1>1, <1>2, <1>3, <1>4, <1>6
    <2>2. \A y \in Ends : ts <= y
      BY <1>5, <1>6 DEF Within, WithinIssue
    <2> HIDE DEF Ends
    <2>3. QED
      BY <2>1, <2>2
  <1>9. /\ tcb.issued \in Starts /\ tcb.next \in Ends
        /\ t + Period \in Ends /\ u + Period \in Ends
    BY <1>2, <1>6
  <1>10. from = Latest(Starts) /\ until = Earliest(Ends)
    BY DEF Dated, leaf, int, pck, rc
  <1> HIDE DEF Starts, Ends
  <1>11. from \in Starts /\ \A x \in Starts : x <= from
    BY <1>7, <1>9, <1>10, LatestFacts
  <1>12. until \in Ends /\ \A y \in Ends : until <= y
    <2>1. Ends \in SUBSET Nat /\ Ends # {}
      BY <1>8, <1>9
    <2>2. Earliest(Ends) \in Ends /\ \A y \in Ends : Earliest(Ends) <= y
      BY <2>1, EarliestFacts
    <2>3. QED
      BY <1>10, <2>2
  <1>13. from \in 0 .. ts /\ from <= now /\ until \in Nat /\ ts <= until
    BY <1>7, <1>8, <1>11, <1>12
  <1>14. tcb.issued <= from /\ until <= tcb.next /\ until <= t + Period /\ until <= u + Period
    BY <1>9, <1>11, <1>12
  <1>15. QED
    BY <1>1, <1>4, <1>13, <1>14

--------------------------------------------------------------------------------
(* The documents are chosen among those signed so far.                      *)
LEMMA VerifyCollateralTimes == ASSUME IInv, TimesInv, VerifyCollateral PROVE TimesInv'
  <1>1. pc' = "identity" /\ now' = now
    BY DEF VerifyCollateral, Cut
  <1>2. PICK sign \in Known, tcb \in Known, qe \in Known :
          /\ SignedBy(sign, Root) /\ Has(sign, "key")
          /\ w' = [w EXCEPT !.sign = sign, !.tcb = tcb, !.qe = qe]
    BY DEF VerifyCollateral
  <1>3. w'.sign = sign /\ w'.tcb = tcb /\ w'.qe = qe
    BY <1>2 DEF IInv, Shape, NoWitness
  <1>4. sign.from = 0
    BY <1>2, RootSigns DEF IInv, Shape, SignCert, CaCert
  <1>5. Past(tcb) /\ Past(qe)
    BY <1>2, KnownPast DEF IInv, Shape
  <1>6. CollateralTimes'
    BY <1>1, <1>3, <1>4, <1>5 DEF CollateralTimes, Past
  <1>7. QED
    BY <1>1, <1>6 DEF TimesInv, TcbTimes, WindowTimes

(* The timestamp is inside every window it is compared with.                *)
LEMMA BindTcbDataTimes == ASSUME IInv, TimesInv, BindTcbData PROVE TimesInv'
  <1>1. pc = "tcb" /\ pc' = "merge" /\ now' = now /\ w' = w
    BY DEF BindTcbData, Cut
  <1>2. PICK t \in Times :
          /\ WithinIssue(t, w.tcb) /\ WithinIssue(t, w.qe)
          /\ \A d \in {w.leaf, w.int, w.sign} : Within(t, d)
          /\ out' = [out EXCEPT !.timestamp = t, !.evals = EvalNumbers(w.tcb, w.qe)]
    BY DEF BindTcbData
  <1>3. out'.timestamp = t
    BY <1>2 DEF IInv, Shape, NoOutput
  <1>4. TcbTimes'
    BY <1>1, <1>2, <1>3 DEF TcbTimes, Times, Within, WithinIssue
  <1>5. CollateralTimes'
    BY <1>1 DEF TimesInv, CollateralTimes, Past
  <1>6. QED
    BY <1>1, <1>4, <1>5 DEF TimesInv, WindowTimes

(* Every date folded is past, below the timestamp and, for TCB-Info, after  *)
(* its number was introduced.                                               *)
LEMMA VerifyRevocationTimes == ASSUME IInv, TimesInv, VerifyRevocation PROVE TimesInv'
  <1>1. pc = "revocation" /\ pc' = "proved" /\ now' = now /\ w' = w
    BY DEF VerifyRevocation, Cut
  <1>2. PICK pck \in {d \in Known : NotListed(d, PckIssuer(w.int, d), w.leaf.serial)},
             rc \in {d \in Known : NotListed(d, Root, w.int.serial)} :
          LET dated == {w.leaf, w.int, w.sign, pck, rc} IN
            out' = [out EXCEPT
              !.from = Latest({d.from : d \in dated} \cup {w.tcb.issued, w.qe.issued}),
              !.until = Earliest({d.until : d \in dated} \cup {w.tcb.next, w.qe.next})]
    BY DEF VerifyRevocation
  <1>3. /\ Holder \in Platforms /\ CaOf[Holder] \in Cas /\ now \in Times
        /\ w.leaf = Leaf(Holder) /\ w.int = CaCert(CaOf[Holder]) /\ w.sign.until \in Nat
        /\ IsTcbInfo(w.tcb) /\ IsQeId(w.qe) /\ out.evals.tcb = w.tcb.eval
    BY <1>1, WorldAssumption
       DEF IInv, Shape, ChainInv, CollateralInv, IdentityInv, TcbInv
  <1>4. PICK t \in Nat : pck = PckCrl(CaOf[Holder], t)
    BY <1>2, <1>3, CrlSigned DEF NotListed, PckIssuer, CaCert
  <1>5. PICK u \in Nat : rc = RootCrl(u)
    BY <1>2, <1>3, CrlSigned DEF NotListed
  <1>6. /\ out.timestamp \in Nat
        /\ WithinIssue(out.timestamp, w.tcb) /\ WithinIssue(out.timestamp, w.qe)
        /\ \A d \in {w.leaf, w.int, w.sign, pck, rc} : Within(out.timestamp, d)
    BY <1>1, <1>2 DEF TimesInv, TcbTimes, NotListed
  <1>7. Past(w.tcb) /\ Past(w.qe) /\ Past(pck) /\ Past(rc) /\ w.sign.from = 0
    BY <1>1, <1>3, KnownPast DEF TimesInv, CollateralTimes
  <1>8. /\ out'.from = Latest({d.from : d \in {w.leaf, w.int, w.sign, pck, rc}}
                              \cup {w.tcb.issued, w.qe.issued})
        /\ out'.until = Earliest({d.until : d \in {w.leaf, w.int, w.sign, pck, rc}}
                                 \cup {w.tcb.next, w.qe.next})
        /\ out'.timestamp = out.timestamp /\ out'.evals = out.evals
    BY <1>2 DEF IInv, Shape, NoOutput
  <1>9. /\ out'.from \in Nat /\ out'.from <= now /\ out'.from <= out.timestamp
        /\ out.timestamp <= out'.until /\ NewEval[w.tcb.eval] <= out'.from
        /\ out'.until <= out'.from + Period
    <2> DEFINE dated == Dated(Holder, w.sign, t, u)
    <2>1. dated = {w.leaf, w.int, w.sign, pck, rc}
      BY <1>3, <1>4, <1>5 DEF Dated
    <2> HIDE DEF dated
    <2>2. /\ out'.from = Latest({d.from : d \in dated} \cup {w.tcb.issued, w.qe.issued})
          /\ out'.until = Earliest({d.until : d \in dated} \cup {w.tcb.next, w.qe.next})
          /\ \A d \in dated : Within(out.timestamp, d)
      BY <1>6, <1>8, <2>1
    <2>3. Past(PckCrl(CaOf[Holder], t)) /\ Past(RootCrl(u))
      BY <1>4, <1>5, <1>7
    <2>4. Folded(Holder, w.sign, w.tcb, w.qe, t, u, out.timestamp, out'.from, out'.until)
      BY <1>3, <1>6, <1>7, <2>2, <2>3 DEF Folded, dated
    <2>5. QED
      BY <2>4, WindowFolds
  <1>10. WindowTimes'
    BY <1>1, <1>3, <1>8, <1>9 DEF WindowTimes
  <1>11. CollateralTimes' /\ TcbTimes'
    BY <1>1, <1>8 DEF TimesInv, CollateralTimes, TcbTimes, Past, Within, WithinIssue
  <1>12. QED
    BY <1>10, <1>11 DEF TimesInv

(* The other steps write nothing that is dated.                             *)
LEMMA TimesKept == ASSUME IInv, TimesInv, [Next]_vars PROVE TimesInv'
  <1> DEFINE Undated ==
        /\ pc' \in AfterCollateral => pc \in AfterCollateral /\ UNCHANGED <<w.sign, w.tcb, w.qe>>
        /\ pc' \in AfterTcb => pc \in AfterTcb /\ UNCHANGED <<w.leaf, w.int, out.timestamp>>
        /\ pc' \in AfterRevocation => pc \in AfterRevocation /\ out' = out
  <1>1. now \in Nat /\ DOMAIN w = DOMAIN NoWitness /\ DOMAIN out = DOMAIN NoOutput
    BY DEF IInv, Shape, Times
  <1>2. ASSUME Undated, now' = now \/ now' = now + 1 PROVE TimesInv'
    BY <1>1, <1>2, TimesStand
  <1>3. CASE BindPublicInputs
    BY <1>2, <1>3 DEF BindPublicInputs, Cut
  <1>4. CASE VerifyChain
    BY <1>2, <1>4 DEF VerifyChain, Cut
  <1>5. CASE BindIdentityOutputs
    BY <1>2, <1>5 DEF BindIdentityOutputs, Cut
  <1>6. CASE VerifyQeReportSig
    BY <1>1, <1>2, <1>6 DEF VerifyQeReportSig, Cut, NoWitness
  <1>7. CASE VerifyQeReportData
    BY <1>1, <1>2, <1>7 DEF VerifyQeReportData, Cut, NoWitness
  <1>8. CASE VerifyQePolicy
    BY <1>1, <1>2, <1>8 DEF VerifyQePolicy, Cut, NoWitness
  <1>9. CASE VerifyIsvReportSig
    BY <1>2, <1>9 DEF VerifyIsvReportSig, Cut
  <1>10. CASE MatchAndMerge
    BY <1>1, <1>2, <1>10 DEF MatchAndMerge, Cut, NoOutput
  <1>11. CASE Restart
    BY <1>2, <1>11 DEF Restart
  <1>12. CASE Consume
    BY <1>2, <1>12 DEF Consume
  <1>13. CASE Tick
    BY <1>2, <1>13 DEF Tick
  <1>14. CASE UNCHANGED vars
    BY <1>2, <1>14 DEF vars
  <1>15. QED
    BY <1>3, <1>4, <1>5, <1>6, <1>7, <1>8, <1>9, <1>10, <1>11, <1>12, <1>13, <1>14,
       VerifyCollateralTimes, BindTcbDataTimes, VerifyRevocationTimes DEF Next

(* What is proved is true of the world.                                     *)
HonestOutputs == pc = "proved" => Promise!Holds(out)

LEMMA OutputsHonest == IInv /\ TimesInv => HonestOutputs
  <1>1. SUFFICES ASSUME IInv, TimesInv, pc = "proved" PROVE Promise!Holds(out)
    BY DEF HonestOutputs
  <1>2. /\ Holder \in Platforms /\ out.serial = Holder /\ out.fmspc = FmspcOf[Holder]
        /\ out.body = Holder
    <2>1. Holder \in Platforms /\ w.quote = Quote(Holder)
      BY <1>1, Bound
    <2>2. out.body = Holder
      BY <1>1, <2>1 DEF IInv, QuoteInv, Quote
    <2>3. QED
      BY <1>1, <2>1, <2>2 DEF IInv, IdentityInv
  <1>3. /\ out.evals.tcb \in Evals /\ out.evals.qe \in QeEvals
        /\ Platform = TcbVerdict[out.fmspc][out.evals.tcb][<<SvnOf[Holder], SvnOf[Holder]>>]
        /\ Enclave = QeVerdict[out.evals.qe][SvnOf[Holder]]
    BY <1>1, Bound
  <1>4. /\ Platform \in Nat /\ Enclave \in Nat /\ None \notin {Platform, Enclave}
        /\ out.status \in {Platform, Enclave}
        /\ out.status >= Platform /\ out.status >= Enclave /\ out.status # Revoked
    BY <1>1, WorldAssumption DEF IInv, MergeInv
  <1>5. out.status = Promise!Worse(Platform, Enclave)
    BY <1>4 DEF Promise!Worse
  <1>6. /\ out.from <= now /\ out.from <= out.timestamp /\ out.timestamp <= out.until
        /\ NewEval[out.evals.tcb] <= out.from /\ out.until <= out.from + Period
    BY <1>1 DEF TimesInv, WindowTimes
  <1>7. /\ out.until < revokedAt[Holder] + Period
        /\ out.until < revokedAt[CaOf[Holder]] + Period
    BY <1>1 DEF IInv, RevocationInv
  <1>8. QED
    BY <1>2, <1>3, <1>4, <1>5, <1>6, <1>7 DEF Promise!Holds

(* A step of the circuit, the prover, the consumer or time is one of the    *)
(* promise or hidden by it.                                                 *)
LEMMA StepKeepsPromise ==
  ASSUME IInv, TimesInv, HonestOutputs', [Next]_vars
  PROVE  [Promise!Next]_(Promise!vars)
  <1>1. ASSUME pc # "proved", pc' # "proved", UNCHANGED <<revokedAt, now, floor>>
        PROVE  UNCHANGED Promise!vars
    BY <1>1 DEF Promise!vars
  <1>2. CASE \/ BindPublicInputs \/ VerifyChain \/ VerifyCollateral \/ BindIdentityOutputs
             \/ VerifyQeReportSig \/ VerifyQeReportData \/ VerifyQePolicy \/ VerifyIsvReportSig
             \/ BindTcbData \/ MatchAndMerge
    BY <1>1, <1>2 DEF BindPublicInputs, VerifyChain, VerifyCollateral, BindIdentityOutputs,
       VerifyQeReportSig, VerifyQeReportData, VerifyQePolicy, VerifyIsvReportSig, BindTcbData,
       MatchAndMerge, Cut
  <1>3. CASE VerifyRevocation
    <2>1. pc' = "proved" /\ UNCHANGED <<revokedAt, now, floor>>
      BY <1>3 DEF VerifyRevocation, Cut
    <2>2. Promise!Prove
      BY <2>1 DEF HonestOutputs, Promise!Prove, Promise!Holds
    <2>3. QED
      BY <2>2 DEF Promise!Next
  <1>4. CASE Restart
    <2>1. Promise!Withdraw
      BY <1>4 DEF Restart, Promise!Withdraw
    <2>2. QED
      BY <2>1 DEF Promise!Next
  <1>5. CASE Consume
    <2>1. pc = "proved" /\ pc' = "proved" /\ out # NoOutput
      <3>1. pc = "proved" /\ pc' = "proved"
        BY <1>5 DEF Consume
      <3>2. out.from \in Nat
        BY <3>1 DEF TimesInv, WindowTimes
      <3>3. QED
        BY <3>1, <3>2, WorldAssumption DEF NoOutput
    <2>2. Promise!Consume
      BY <1>5, <2>1 DEF Consume, AtLeast, Promise!Consume, Promise!AtLeast
    <2>3. QED
      BY <2>2 DEF Promise!Next
  <1>6. CASE Tick
    <2>1. Promise!Tick
      BY <1>6 DEF Tick, Promise!Tick
    <2>2. QED
      BY <2>1 DEF Promise!Next
  <1>7. CASE UNCHANGED vars
    BY <1>7 DEF vars, Promise!vars
  <1>8. QED
    BY <1>2, <1>3, <1>4, <1>5, <1>6, <1>7 DEF Next

(* The circuit with its documents, keys and steps implements the promise:   *)
(* every accepted proof's outputs are true of the platform it names, and    *)
(* the consumer relies on nothing else (dcap.go, Define; types.go).         *)
THEOREM CircuitKeepsPromise == Spec => ImplementsAttestation
  <1>1. Init => TimesInv
    BY DEF Init, TimesInv, CollateralTimes, TcbTimes, WindowTimes
  <1>2. Init => Promise!Init
    BY DEF Init, Promise!Init
  <1>3. Spec => []TimesInv
    BY Invariance, TimesKept, <1>1, PTL DEF Spec
  <1>4. Spec => []HonestOutputs
    BY Invariance, OutputsHonest, <1>3, PTL
  <1>5. QED
    BY Invariance, StepKeepsPromise, <1>2, <1>3, <1>4, PTL
       DEF Spec, ImplementsAttestation, Promise!Spec
--------------------------------------------------------------------------------
(* The Noir circuit: the steps that come after a given one, in main's order. *)
NoirRevocation == {"proved"}
NoirFreshness == {"revocation"} \cup NoirRevocation
NoirLevels == {"freshness"} \cup NoirFreshness
NoirIsv == {"tcb"} \cup NoirLevels
NoirPolicy == {"isv"} \cup NoirIsv
NoirData == {"policy"} \cup NoirPolicy
NoirReport == {"data"} \cup NoirData
NoirIdentity == {"report"} \cup NoirReport
NoirValidity == {"identity"} \cup NoirIdentity
NoirCollateral == {"validity"} \cup NoirValidity
NoirChain == {"collateral"} \cup NoirCollateral
NoirRoot == {"chain"} \cup NoirChain

USE DEF NoirRevocation, NoirFreshness, NoirLevels, NoirIsv, NoirPolicy, NoirData, NoirReport,
        NoirIdentity, NoirValidity, NoirCollateral, NoirChain, NoirRoot

(* What the generator wrote is about one platform, of documents signed so   *)
(* far.                                                                     *)
HostShape ==
  \E p \in Platforms, e \in Evals, n \in QeEvals, given \in Times \cup {None}, m \in Mutations,
     t, u, v, x \in 0 .. now :
    /\ NewEval[e] <= t
    /\ host = Built(p, TcbInfo(FmspcOf[p], e, t), QeId(n, u), PckCrl(CaOf[p], v), RootCrl(x),
                    given, m)

HostInv == host # None => HostShape

(* The part that a step took is the generator's, if there is one.           *)
Tied(part, value) == host # None => value = host[part]

NoirShape == /\ pc \in {"inputs"} \cup NoirRoot
             /\ DOMAIN w = DOMAIN NoWitness /\ DOMAIN out = DOMAIN NoOutput
             /\ now \in Times /\ revokedAt \in [Serials -> 1 .. Never]

RootFacts == pc \in NoirRoot => root = Root /\ Tied("root", root)

ChainFacts == pc \in NoirChain =>
  /\ Holder \in Platforms
  /\ w.leaf = Leaf(Holder) /\ w.int = CaCert(CaOf[Holder]) /\ w.pck = PckKey(Holder)
  /\ Tied("leaf", w.leaf) /\ Tied("int", w.int)

CollateralFacts == pc \in NoirCollateral =>
  /\ w.sign.from = 0 /\ w.sign.until \in Nat
  /\ Has(w.tcb, "fmspc") => IsTcbInfo(w.tcb)
  /\ Has(w.qe, "mrsigner") => IsQeId(w.qe)
  /\ Past(w.tcb) /\ Past(w.qe)
  /\ Tied("sign", w.sign) /\ Tied("tcb", w.tcb) /\ Tied("qe", w.qe)

ValidityFacts == pc \in NoirValidity =>
  /\ out.timestamp \in Nat
  /\ \A d \in {w.leaf, w.int, w.sign} : Within(out.timestamp, d)
  /\ Tied("timestamp", out.timestamp)

IdentityFacts == pc \in NoirIdentity =>
  /\ IsTcbInfo(w.tcb) /\ w.tcb.fmspc = FmspcOf[Holder]
  /\ out.fmspc = FmspcOf[Holder] /\ out.serial = Holder

ReportFacts == pc \in NoirReport =>
  w.report \in {Report(Holder), OtherReport(Holder)} /\ Tied("report", w.report)

DataFacts == pc \in NoirData => w.attest = w.report.commit /\ Tied("attest", w.attest)

PolicyFacts == pc \in NoirPolicy => w.policy = w.report.mrsigner

IsvFacts == pc \in NoirIsv =>
  IsQuote(w.quote) /\ w.quote.by = w.attest /\ out.body = w.quote.body

LevelsFacts == pc \in NoirLevels =>
  /\ IsQeId(w.qe) /\ w.policy = w.qe.mrsigner
  /\ Platform \in Severities /\ Enclave \in Severities
  /\ out.status \in {Platform, Enclave} /\ out.status >= Platform /\ out.status >= Enclave
  /\ out.status # Revoked

FreshnessFacts == pc \in NoirFreshness =>
  /\ WithinIssue(out.timestamp, w.tcb) /\ WithinIssue(out.timestamp, w.qe)
  /\ out.evals = [tcb |-> w.tcb.eval, qe |-> w.qe.eval]

RevocationFacts == pc \in NoirRevocation =>
  /\ out.from \in Nat /\ out.until \in Nat /\ out.from <= now
  /\ out.from <= out.timestamp /\ out.timestamp <= out.until
  /\ NewEval[w.tcb.eval] <= out.from /\ out.until <= out.from + Period
  /\ out.until < revokedAt[Holder] + Period /\ out.until < revokedAt[CaOf[Holder]] + Period
  /\ host # None => /\ VerifyCrl(host.pckCrl, w.int.key, w.leaf.serial)
                    /\ VerifyCrl(host.rootCrl, Root, w.int.serial)

NoirInv == /\ HostInv /\ NoirShape /\ RootFacts /\ ChainFacts /\ CollateralFacts /\ ValidityFacts
           /\ IdentityFacts /\ ReportFacts /\ DataFacts /\ PolicyFacts /\ IsvFacts /\ LevelsFacts
           /\ FreshnessFacts /\ RevocationFacts

(* Every document the generator uses is one that was signed.                *)
LEMMA HostKnown ==
  ASSUME HostInv, now \in Times,
         NEW part \in {"leaf", "int", "sign", "tcb", "qe", "report", "quote", "pckCrl", "rootCrl"},
         NEW d \in Pick(part, Known)
  PROVE  d \in Known /\ Tied(part, d)
  <1>1. CASE host = None
    BY <1>1 DEF Pick, Tied
  <1>2. CASE host # None
    <2>1. d = host[part]
      BY <1>2 DEF Pick
    <2>2. PICK p \in Platforms, e \in Evals, n \in QeEvals, given \in Times \cup {None},
               m \in Mutations, t \in 0 .. now, u \in 0 .. now, v \in 0 .. now, x \in 0 .. now :
            /\ NewEval[e] <= t
            /\ host = Built(p, TcbInfo(FmspcOf[p], e, t), QeId(n, u), PckCrl(CaOf[p], v),
                            RootCrl(x), given, m)
      BY <1>2 DEF HostInv, HostShape
    <2>3. CaOf[p] \in Cas /\ FmspcOf[p] \in Fmspcs
      BY WorldAssumption
    <2>4. {Leaf(p), CaCert(CaOf[p]), SignCert, Report(p), Quote(p)} \subseteq Signed
      BY <2>3 DEF Signed, Certificates, Reports, Quotes
    <2>5. TcbInfo(FmspcOf[p], e, t) \in Collateral(t) /\ QeId(n, u) \in Collateral(u)
          /\ PckCrl(CaOf[p], v) \in Crls(v) /\ RootCrl(x) \in Crls(x)
      BY <2>2, <2>3 DEF Collateral, Crls
    <2>6. {TcbInfo(FmspcOf[p], e, t), QeId(n, u), PckCrl(CaOf[p], v), RootCrl(x)} \subseteq Signed
      BY <2>5 DEF Signed
    <2>7. host[part] \in {Leaf(p), CaCert(CaOf[p]), SignCert, Report(p), Quote(p),
                          TcbInfo(FmspcOf[p], e, t), QeId(n, u), PckCrl(CaOf[p], v), RootCrl(x)}
      <3>1. PICK pckCrl \in {Leaf(p), PckCrl(CaOf[p], v)} :
              /\ host.leaf = Leaf(p) /\ host.int = CaCert(CaOf[p]) /\ host.sign = SignCert
              /\ host.tcb = TcbInfo(FmspcOf[p], e, t) /\ host.qe = QeId(n, u)
              /\ host.report = Report(p) /\ host.quote = Quote(p)
              /\ host.pckCrl = pckCrl /\ host.rootCrl = RootCrl(x)
        BY <2>2 DEF Built, MutateCrl
      <3>2. QED
        BY <3>1
    <2>8. QED
      BY <2>1, <2>4, <2>6, <2>7 DEF Known, Tied
  <1>3. QED
    BY <1>1, <1>2

(* What a step has established stays true while what it is about does.      *)
LEMMA NoirStand ==
  ASSUME NoirInv, revokedAt' = revokedAt, host' = host, now \in Nat, now' \in Nat, now <= now'
  PROVE
  /\ (pc' \in NoirRoot => pc \in NoirRoot /\ root' = root) => RootFacts'
  /\ (pc' \in NoirChain => pc \in NoirChain /\ UNCHANGED <<w.leaf, w.int, w.pck>>) => ChainFacts'
  /\ (pc' \in NoirCollateral => pc \in NoirCollateral /\ UNCHANGED <<w.sign, w.tcb, w.qe>>)
       => CollateralFacts'
  /\ (pc' \in NoirValidity => pc \in NoirValidity
                              /\ UNCHANGED <<w.leaf, w.int, w.sign, out.timestamp>>)
       => ValidityFacts'
  /\ (pc' \in NoirIdentity => pc \in NoirIdentity
                              /\ UNCHANGED <<w.leaf, w.tcb, out.fmspc, out.serial>>)
       => IdentityFacts'
  /\ (pc' \in NoirReport => pc \in NoirReport /\ UNCHANGED <<w.leaf, w.report>>) => ReportFacts'
  /\ (pc' \in NoirData => pc \in NoirData /\ UNCHANGED <<w.report, w.attest>>) => DataFacts'
  /\ (pc' \in NoirPolicy => pc \in NoirPolicy /\ UNCHANGED <<w.report, w.policy>>)
       => PolicyFacts'
  /\ (pc' \in NoirIsv => pc \in NoirIsv /\ UNCHANGED <<w.quote, w.attest, out.body>>) => IsvFacts'
  /\ (pc' \in NoirLevels => pc \in NoirLevels /\ w' = w /\ out'.status = out.status)
       => LevelsFacts'
  /\ (pc' \in NoirFreshness => pc \in NoirFreshness /\ w' = w
                               /\ UNCHANGED <<out.timestamp, out.evals>>) => FreshnessFacts'
  /\ (pc' \in NoirRevocation => pc \in NoirRevocation /\ UNCHANGED <<w, out>>) => RevocationFacts'
  <1>1. (pc' \in NoirRoot => pc \in NoirRoot /\ root' = root) => RootFacts'
    BY DEF NoirInv, RootFacts, Tied
  <1>2. (pc' \in NoirChain => pc \in NoirChain /\ UNCHANGED <<w.leaf, w.int, w.pck>>)
          => ChainFacts'
    BY DEF NoirInv, ChainFacts, Tied, Holder, Leaf, CaCert
  <1>3. (pc' \in NoirCollateral => pc \in NoirCollateral /\ UNCHANGED <<w.sign, w.tcb, w.qe>>)
          => CollateralFacts'
    BY DEF NoirInv, CollateralFacts, Tied, Past
  <1>4. (pc' \in NoirValidity => pc \in NoirValidity
                                 /\ UNCHANGED <<w.leaf, w.int, w.sign, out.timestamp>>)
          => ValidityFacts'
    BY DEF NoirInv, ValidityFacts, Tied, Within
  <1>5. (pc' \in NoirIdentity => pc \in NoirIdentity
                                 /\ UNCHANGED <<w.leaf, w.tcb, out.fmspc, out.serial>>)
          => IdentityFacts'
    BY DEF NoirInv, IdentityFacts, Holder
  <1>6. (pc' \in NoirReport => pc \in NoirReport /\ UNCHANGED <<w.leaf, w.report>>)
          => ReportFacts'
    BY DEF NoirInv, ReportFacts, Tied, Holder
  <1>7. (pc' \in NoirData => pc \in NoirData /\ UNCHANGED <<w.report, w.attest>>) => DataFacts'
    BY DEF NoirInv, DataFacts, Tied
  <1>8. (pc' \in NoirPolicy => pc \in NoirPolicy /\ UNCHANGED <<w.report, w.policy>>)
          => PolicyFacts'
    BY DEF NoirInv, PolicyFacts
  <1>9. (pc' \in NoirIsv => pc \in NoirIsv /\ UNCHANGED <<w.quote, w.attest, out.body>>)
          => IsvFacts'
    BY DEF NoirInv, IsvFacts
  <1>10. (pc' \in NoirLevels => pc \in NoirLevels /\ w' = w /\ out'.status = out.status)
           => LevelsFacts'
    BY DEF NoirInv, LevelsFacts, Platform, Enclave
  <1>11. (pc' \in NoirFreshness => pc \in NoirFreshness /\ w' = w
                                   /\ UNCHANGED <<out.timestamp, out.evals>>) => FreshnessFacts'
    BY DEF NoirInv, FreshnessFacts, WithinIssue
  <1>12. (pc' \in NoirRevocation => pc \in NoirRevocation /\ UNCHANGED <<w, out>>)
           => RevocationFacts'
    BY DEF NoirInv, RevocationFacts, Holder, VerifyCrl, Contains, CrlHead, Has, Within, SignedBy
  <1>13. QED
    BY <1>1, <1>2, <1>3, <1>4, <1>5, <1>6, <1>7, <1>8, <1>9, <1>10, <1>11, <1>12

(* Time and the steps leave the generator's witness what it is.             *)
LEMMA HostStands ==
  ASSUME HostInv, revokedAt' = revokedAt, host' = host, now \in Nat, now' \in Nat, now <= now'
  PROVE  HostInv'
  <1>1. SUFFICES ASSUME host # None PROVE HostShape'
    BY DEF HostInv
  <1>2. PICK p \in Platforms, e \in Evals, n \in QeEvals, given \in Times \cup {None},
             m \in Mutations, t \in 0 .. now, u \in 0 .. now, v \in 0 .. now, x \in 0 .. now :
          /\ NewEval[e] <= t
          /\ host = Built(p, TcbInfo(FmspcOf[p], e, t), QeId(n, u), PckCrl(CaOf[p], v),
                          RootCrl(x), given, m)
    BY <1>1 DEF HostInv, HostShape
  <1>3. t \in 0 .. now' /\ u \in 0 .. now' /\ v \in 0 .. now' /\ x \in 0 .. now'
    OBVIOUS
  <1>4. host' = Built(p, TcbInfo(FmspcOf[p], e, t), QeId(n, u), PckCrl(CaOf[p], v),
                      RootCrl(x), given, m)'
    BY <1>2 DEF Built, MutateCrl, Timestamp, Midpoint, PckCrl, RootCrl, TcbInfo, QeId, Leaf,
                CaCert, Report, Quote
  <1>5. QED
    BY <1>2, <1>3, <1>4 DEF HostShape

(* The steps of main.  Each takes its part of the witness from the          *)
(* generator or the prover, and establishes one more conjunct.              *)
LEMMA PinRootKeeps == ASSUME NoirInv, PinRoot PROVE NoirInv'
  <1>1. pc = "inputs" /\ pc' = "chain" /\ UNCHANGED <<revokedAt, now, w, out, host>>
    BY DEF PinRoot, Cut
  <1>2. HostInv' /\ NoirShape'
    BY <1>1, HostStands DEF NoirInv, NoirShape, Times
  <1>3. RootFacts'
    BY <1>1 DEF PinRoot, Pinned, Pick, RootFacts, Tied
  <1>4. QED
    BY <1>1, <1>2, <1>3, NoirStand DEF NoirInv, NoirShape, Times

LEMMA VerifyChainToRootKeeps == ASSUME NoirInv, VerifyChainToRoot PROVE NoirInv'
  <1>1. /\ pc = "chain" /\ pc' = "collateral"
        /\ UNCHANGED <<revokedAt, now, out, host, root>>
    BY DEF VerifyChainToRoot, Cut, Same
  <1>2. PICK int \in Pick("int", Known), leaf \in Pick("leaf", Known) :
          /\ Certified(int, root) /\ Certified(leaf, int.key)
          /\ w' = [w EXCEPT !.leaf = leaf, !.int = int, !.pck = leaf.key]
    BY DEF VerifyChainToRoot
  <1>3. /\ w'.leaf = leaf /\ w'.int = int /\ w'.pck = leaf.key
        /\ HostInv' /\ NoirShape'
    BY <1>1, <1>2, HostStands DEF NoirInv, NoirShape, NoWitness, Times
  <1>4. ChainFacts'
    <2>1. int \in Known /\ leaf \in Known /\ Tied("int", int) /\ Tied("leaf", leaf)
      BY HostKnown DEF NoirInv, NoirShape
    <2>2. PICK p \in Platforms : leaf = Leaf(p) /\ int = CaCert(CaOf[p])
      BY <1>1, <1>2, <2>1, IssuerSigns DEF NoirInv, NoirShape, RootFacts, Certified
    <2>3. leaf.serial = p /\ leaf.key = PckKey(p)
      BY <2>2 DEF Leaf
    <2>4. QED
      BY <1>1, <1>3, <2>1, <2>2, <2>3 DEF ChainFacts, Holder, Leaf, CaCert, Tied
  <1>5. QED
    BY <1>1, <1>3, <1>4, NoirStand DEF NoirInv, NoirShape, Times

LEMMA VerifyNoirCollateralKeeps == ASSUME NoirInv, VerifyNoirCollateral PROVE NoirInv'
  <1>1. /\ pc = "collateral" /\ pc' = "validity"
        /\ UNCHANGED <<revokedAt, now, out, host, root>>
    BY DEF VerifyNoirCollateral, Cut, Same
  <1>2. PICK sign \in Pick("sign", Known), tcb \in Pick("tcb", Known), qe \in Pick("qe", Known) :
          /\ Certified(sign, root) /\ SignedBy(tcb, sign.key) /\ SignedBy(qe, sign.key)
          /\ w' = [w EXCEPT !.sign = sign, !.tcb = tcb, !.qe = qe]
    BY DEF VerifyNoirCollateral
  <1>3. /\ w'.sign = sign /\ w'.tcb = tcb /\ w'.qe = qe
        /\ UNCHANGED <<w.leaf, w.int, w.pck>>
        /\ HostInv' /\ NoirShape'
    BY <1>1, <1>2, HostStands DEF NoirInv, NoirShape, NoWitness, Times
  <1>4. CollateralFacts'
    <2>1. /\ sign \in Known /\ tcb \in Known /\ qe \in Known
          /\ Tied("sign", sign) /\ Tied("tcb", tcb) /\ Tied("qe", qe)
      BY HostKnown DEF NoirInv, NoirShape
    <2>2. now \in Times /\ root = Root
      BY <1>1 DEF NoirInv, NoirShape, RootFacts
    <2>3. sign.from = 0 /\ sign.until \in Nat
      BY <1>2, <2>1, <2>2, RootSigns, WorldAssumption DEF Certified, SignCert, CaCert, Never
    <2>4. (Has(tcb, "fmspc") => IsTcbInfo(tcb)) /\ (Has(qe, "mrsigner") => IsQeId(qe))
      BY <1>2, <2>1, <2>2, CollateralSigned DEF Certified
    <2>5. Past(tcb) /\ Past(qe)
      BY <2>1, <2>2, KnownPast
    <2>6. QED
      BY <1>1, <1>3, <2>1, <2>3, <2>4, <2>5 DEF CollateralFacts, Tied, Has, Past, IsTcbInfo,
         IsQeId, TcbInfo, QeId
  <1>5. QED
    BY <1>1, <1>3, <1>4, NoirStand DEF NoirInv, NoirShape, Times

LEMMA CheckCertValidityKeeps == ASSUME NoirInv, CheckCertValidity PROVE NoirInv'
  <1>1. /\ pc = "validity" /\ pc' = "identity"
        /\ UNCHANGED <<revokedAt, now, w, host, root>>
    BY DEF CheckCertValidity, Cut, Same
  <1>2. PICK t \in Pick("timestamp", Times) :
          /\ \A d \in {w.leaf, w.int, w.sign} : Within(t, d)
          /\ out' = [out EXCEPT !.timestamp = t]
    BY DEF CheckCertValidity
  <1>3. out'.timestamp = t /\ HostInv' /\ NoirShape'
    BY <1>1, <1>2, HostStands DEF NoirInv, NoirShape, NoOutput, Times
  <1>4. t \in Nat /\ Tied("timestamp", t)
    <2>1. CASE host = None
      BY <2>1 DEF Pick, Times, Tied
    <2>2. CASE host # None
      <3>1. t = host.timestamp
        BY <2>2 DEF Pick
      <3>2. PICK e \in Evals, p \in Platforms, i \in Nat, given \in Times \cup {None},
                 m \in Mutations : host.timestamp = Timestamp(given, TcbInfo(FmspcOf[p], e, i), m)
        BY <2>2 DEF NoirInv, HostInv, HostShape, Built, NoirShape, Times
      <3>3. Midpoint(TcbInfo(FmspcOf[p], e, i)) \in Nat /\ TcbInfo(FmspcOf[p], e, i).next \in Nat
        BY WorldAssumption DEF Midpoint, TcbInfo
      <3>4. host.timestamp \in Nat
        <4>1. FixedDate \in Nat
          BY MutationAssumption
        <4>2. CASE given = None
          BY <3>2, <3>3, <4>1, <4>2 DEF Timestamp
        <4>3. CASE given # None
          <5>1. given \in Nat
            BY <4>3, WorldAssumption DEF Times
          <5>2. QED
            BY <3>2, <3>3, <4>1, <4>3, <5>1 DEF Timestamp
        <4>4. QED
          BY <4>2, <4>3
      <3>5. QED
        BY <3>1, <3>4 DEF Tied
    <2>3. QED
      BY <2>1, <2>2
  <1>5. ValidityFacts'
    BY <1>1, <1>2, <1>3, <1>4 DEF ValidityFacts, Tied, Within
  <1>6. QED
    BY <1>1, <1>3, <1>5, NoirStand DEF NoirInv, NoirShape, Times

LEMMA BindIdentityKeeps == ASSUME NoirInv, BindIdentity PROVE NoirInv'
  <1>1. /\ pc = "identity" /\ pc' = "report" /\ UNCHANGED <<revokedAt, now, w, host, root>>
        /\ FmspcEqual(w.leaf, w.tcb)
        /\ out' = [out EXCEPT !.fmspc = w.leaf.oidFmspc, !.serial = w.leaf.serial]
    BY DEF BindIdentity, Cut, Same
  <1>2. /\ out'.fmspc = w.leaf.oidFmspc /\ out'.serial = Holder /\ out'.timestamp = out.timestamp
        /\ HostInv' /\ NoirShape'
    BY <1>1, HostStands DEF NoirInv, NoirShape, NoOutput, Times, Holder
  <1>3. IdentityFacts'
    <2>1. w.leaf.oidFmspc = FmspcOf[Holder]
      BY <1>1 DEF NoirInv, ChainFacts, Leaf
    <2>2. IsTcbInfo(w.tcb) /\ w.tcb.fmspc = FmspcOf[Holder]
      BY <1>1, <2>1 DEF NoirInv, CollateralFacts, FmspcEqual, FmspcRead
    <2>3. QED
      BY <1>1, <1>2, <2>1, <2>2 DEF IdentityFacts, Holder
  <1>4. QED
    BY <1>1, <1>2, <1>3, NoirStand DEF NoirInv, NoirShape, Times

LEMMA Step4Keeps == ASSUME NoirInv, Step4VerifyQeReportSig PROVE NoirInv'
  <1>1. /\ pc = "report" /\ pc' = "data"
        /\ UNCHANGED <<revokedAt, now, out, host, root>>
    BY DEF Step4VerifyQeReportSig, Cut, Same
  <1>2. PICK r \in Pick("report", Known) :
          Has(r, "commit") /\ SignedBy(r, w.pck) /\ w' = [w EXCEPT !.report = r]
    BY DEF Step4VerifyQeReportSig
  <1>3. /\ w'.report = r /\ UNCHANGED <<w.leaf, w.int, w.pck, w.sign, w.tcb, w.qe>>
        /\ HostInv' /\ NoirShape'
    BY <1>1, <1>2, HostStands DEF NoirInv, NoirShape, NoWitness, Times
  <1>4. ReportFacts'
    <2>1. r \in Known /\ Tied("report", r)
      BY HostKnown DEF NoirInv, NoirShape
    <2>2. Holder \in Platforms /\ w.pck = PckKey(Holder)
      BY <1>1 DEF NoirInv, ChainFacts
    <2>3. r \in {Report(Holder), OtherReport(Holder)}
      BY <1>2, <2>1, <2>2, PlatformSigns DEF NoirInv, NoirShape
    <2>4. Tied("report", w.report)'
      BY <1>1, <1>3, <2>1 DEF Tied
    <2>5. QED
      BY <1>3, <2>3, <2>4 DEF ReportFacts, Holder, Report, OtherReport
  <1>5. QED
    BY <1>1, <1>3, <1>4, NoirStand DEF NoirInv, NoirShape, Times

LEMMA Step5Keeps == ASSUME NoirInv, Step5VerifyQeReportData PROVE NoirInv'
  <1>1. /\ pc = "data" /\ pc' = "policy" /\ UNCHANGED <<revokedAt, now, out, host, root>>
    BY DEF Step5VerifyQeReportData, Cut, Same
  <1>2. PICK key \in Pick("attest", Keys) :
          CommitsTo(w.report, key) /\ w' = [w EXCEPT !.attest = key]
    BY DEF Step5VerifyQeReportData
  <1>3. /\ w'.attest = key /\ UNCHANGED <<w.leaf, w.int, w.pck, w.sign, w.tcb, w.qe, w.report>>
        /\ HostInv' /\ NoirShape'
    BY <1>1, <1>2, HostStands DEF NoirInv, NoirShape, NoWitness, Times
  <1>4. DataFacts'
    BY <1>1, <1>2, <1>3 DEF DataFacts, CommitsTo, Tied, Pick
  <1>5. QED
    BY <1>1, <1>3, <1>4, NoirStand DEF NoirInv, NoirShape, Times

LEMMA Step6Keeps == ASSUME NoirInv, Step6VerifyQePolicy PROVE NoirInv'
  <1>1. /\ pc = "policy" /\ pc' = "isv" /\ UNCHANGED <<revokedAt, now, out, host, root>>
    BY DEF Step6VerifyQePolicy, Cut, Same
  <1>2. PICK m : w.report.mrsigner = m /\ w' = [w EXCEPT !.policy = m]
    BY DEF Step6VerifyQePolicy
  <1>3. /\ w'.policy = m
        /\ UNCHANGED <<w.leaf, w.int, w.pck, w.sign, w.tcb, w.qe, w.report, w.attest>>
        /\ HostInv' /\ NoirShape'
    BY <1>1, <1>2, HostStands DEF NoirInv, NoirShape, NoWitness, Times
  <1>4. PolicyFacts'
    BY <1>2, <1>3 DEF PolicyFacts
  <1>5. QED
    BY <1>1, <1>3, <1>4, NoirStand DEF NoirInv, NoirShape, Times

LEMMA Step7Keeps == ASSUME NoirInv, Step7VerifyIsvSig PROVE NoirInv'
  <1>1. pc = "isv" /\ pc' = "tcb" /\ UNCHANGED <<revokedAt, now, host, root>>
    BY DEF Step7VerifyIsvSig, Cut, Same
  <1>2. PICK q \in Pick("quote", Known) :
          /\ Has(q, "body") /\ SignedBy(q, w.attest)
          /\ w' = [w EXCEPT !.quote = q] /\ out' = [out EXCEPT !.body = q.body]
    BY DEF Step7VerifyIsvSig
  <1>3. /\ w'.quote = q /\ out'.body = q.body
        /\ UNCHANGED <<w.leaf, w.int, w.pck, w.sign, w.tcb, w.qe, w.report, w.attest, w.policy>>
        /\ UNCHANGED <<out.timestamp, out.fmspc, out.serial>>
        /\ HostInv' /\ NoirShape'
    BY <1>1, <1>2, HostStands DEF NoirInv, NoirShape, NoWitness, NoOutput, Times
  <1>4. IsvFacts'
    <2>1. IsQuote(q)
      BY HostKnown, <1>2, QuoteSigned DEF NoirInv, NoirShape
    <2>2. QED
      BY <1>2, <1>3, <2>1 DEF IsvFacts, SignedBy, IsQuote, Quote
  <1>5. QED
    BY <1>1, <1>3, <1>4, NoirStand DEF NoirInv, NoirShape, Times

(* At bind_tcb_levels the documents are linked to one platform.             *)
LEMMA NoirLinked ==
  ASSUME NoirInv, pc \in NoirIsv, PolicyBound(w.qe) \/ pc \in NoirLevels
  PROVE  /\ Holder \in Platforms /\ w.leaf = Leaf(Holder) /\ w.quote = Quote(Holder)
         /\ w.attest = AttestKey(Holder) /\ IsTcbInfo(w.tcb) /\ IsQeId(w.qe)
         /\ w.policy = w.qe.mrsigner /\ w.tcb.fmspc = FmspcOf[Holder]
         /\ w.tcb.eval \in Evals /\ w.qe.eval \in QeEvals
         /\ Platform = TcbVerdict[FmspcOf[Holder]][w.tcb.eval][<<SvnOf[Holder], SvnOf[Holder]>>]
         /\ Enclave = QeVerdict[w.qe.eval][SvnOf[Holder]]
         /\ Platform \in Severities \cup {None} /\ Enclave \in Severities \cup {None}
  <1>1. /\ Holder \in Platforms /\ w.leaf = Leaf(Holder)
        /\ w.report \in {Report(Holder), OtherReport(Holder)} /\ w.attest = w.report.commit
        /\ w.policy = w.report.mrsigner /\ IsQuote(w.quote) /\ w.quote.by = w.attest
        /\ IsTcbInfo(w.tcb) /\ w.tcb.fmspc = FmspcOf[Holder]
    BY DEF NoirInv, ChainFacts, ReportFacts, DataFacts, PolicyFacts, IsvFacts, IdentityFacts
  <1>2. IsQeId(w.qe) /\ w.policy = w.qe.mrsigner
    BY DEF NoirInv, CollateralFacts, LevelsFacts, PolicyBound
  <1>3. /\ w.quote = Quote(Holder) /\ w.attest = AttestKey(Holder) /\ SvnOf[Holder] \in Svns
        /\ Platform = TcbVerdict[w.tcb.fmspc][w.tcb.eval][<<SvnOf[Holder], SvnOf[Holder]>>]
        /\ Enclave = QeVerdict[w.qe.eval][SvnOf[Holder]]
    BY <1>1, <1>2, Linked
  <1>4. w.tcb.fmspc \in Fmspcs /\ w.tcb.eval \in Evals /\ w.qe.eval \in QeEvals
    BY <1>1, <1>2, TcbInfoFields, QeIdFields
  <1>5. Platform \in Severities \cup {None} /\ Enclave \in Severities \cup {None}
    BY <1>3, <1>4, VerdictsTyped
  <1>6. QED
    BY <1>1, <1>2, <1>3, <1>4, <1>5

LEMMA BindLevelsAndMergeKeeps == ASSUME NoirInv, BindLevelsAndMerge PROVE NoirInv'
  <1>1. /\ pc = "tcb" /\ pc' = "freshness" /\ UNCHANGED <<revokedAt, now, w, host, root>>
        /\ PolicyBound(w.qe) /\ Platform # None /\ Enclave # None
        /\ Merge(Platform, Enclave) # Revoked
        /\ out' = [out EXCEPT !.status = Merge(Platform, Enclave)]
    BY DEF BindLevelsAndMerge, Cut, Same
  <1>2. /\ out'.status = Merge(Platform, Enclave)
        /\ UNCHANGED <<out.timestamp, out.fmspc, out.serial, out.body>>
        /\ HostInv' /\ NoirShape'
    BY <1>1, HostStands DEF NoirInv, NoirShape, NoOutput, Times
  <1>3. LevelsFacts'
    <2>1. /\ IsQeId(w.qe) /\ w.policy = w.qe.mrsigner
          /\ Platform \in Severities /\ Enclave \in Severities
      BY <1>1, NoirLinked
    <2>2. PICK merged \in {Platform, Enclave} :
            merged >= Platform /\ merged >= Enclave /\ merged = Merge(Platform, Enclave)
      BY <2>1, WorldAssumption DEF Merge
    <2>3. Platform' = Platform /\ Enclave' = Enclave
      BY <1>1 DEF Platform, Enclave
    <2>4. QED
      BY <1>1, <1>2, <2>1, <2>2, <2>3 DEF LevelsFacts
  <1>4. QED
    BY <1>1, <1>2, <1>3, NoirStand DEF NoirInv, NoirShape, Times

LEMMA CheckFreshnessKeeps == ASSUME NoirInv, CheckFreshness PROVE NoirInv'
  <1>1. /\ pc = "freshness" /\ pc' = "revocation" /\ UNCHANGED <<revokedAt, now, w, host, root>>
        /\ Current(out.timestamp, w.tcb, w.qe)
        /\ out' = [out EXCEPT !.evals = [tcb |-> w.tcb.eval, qe |-> w.qe.eval]]
    BY DEF CheckFreshness, Cut, Same
  <1>2. /\ out'.evals = [tcb |-> w.tcb.eval, qe |-> w.qe.eval]
        /\ UNCHANGED <<out.timestamp, out.fmspc, out.serial, out.body, out.status>>
        /\ HostInv' /\ NoirShape'
    BY <1>1, HostStands DEF NoirInv, NoirShape, NoOutput, Times
  <1>3. FreshnessFacts'
    BY <1>1, <1>2 DEF FreshnessFacts, Current
  <1>4. QED
    BY <1>1, <1>2, <1>3, NoirStand DEF NoirInv, NoirShape, Times

(* Neither certificate was revoked when its CRL was issued, and the window  *)
(* is inside those of all the documents.                                    *)
LEMMA VerifyRevocationAndFoldKeeps == ASSUME NoirInv, VerifyRevocationAndFold PROVE NoirInv'
  <1>1. /\ pc = "revocation" /\ pc' = "proved" /\ UNCHANGED <<revokedAt, now, w, host, root>>
    BY DEF VerifyRevocationAndFold, Cut, Same
  <1>2. PICK pck \in Pick("pckCrl", Known), rc \in Pick("rootCrl", Known) :
          /\ VerifyCrl(pck, w.int.key, w.leaf.serial) /\ VerifyCrl(rc, root, w.int.serial)
          /\ LET dated == {w.leaf, w.int, w.sign, pck, rc} IN
               out' = [out EXCEPT
                 !.from = Latest({d.from : d \in dated} \cup {w.tcb.issued, w.qe.issued}),
                 !.until = Earliest({d.until : d \in dated} \cup {w.tcb.next, w.qe.next})]
    BY DEF VerifyRevocationAndFold
  <1>3. /\ UNCHANGED <<out.timestamp, out.fmspc, out.serial, out.body, out.status, out.evals>>
        /\ out'.from = Latest({d.from : d \in {w.leaf, w.int, w.sign, pck, rc}}
                              \cup {w.tcb.issued, w.qe.issued})
        /\ out'.until = Earliest({d.until : d \in {w.leaf, w.int, w.sign, pck, rc}}
                                 \cup {w.tcb.next, w.qe.next})
    BY <1>2 DEF NoirInv, NoirShape, NoOutput
  <1>4. HostInv' /\ NoirShape'
    BY <1>1, <1>2, HostStands DEF NoirInv, NoirShape, NoOutput, Times
  <1>5. /\ pck \in Known /\ rc \in Known /\ Tied("pckCrl", pck) /\ Tied("rootCrl", rc)
    BY HostKnown DEF NoirInv, NoirShape
  <1>6. /\ Holder \in Platforms /\ CaOf[Holder] \in Cas /\ now \in Times /\ root = Root
        /\ w.leaf = Leaf(Holder) /\ w.int = CaCert(CaOf[Holder])
        /\ w.sign.from = 0 /\ w.sign.until \in Nat
        /\ IsTcbInfo(w.tcb) /\ IsQeId(w.qe) /\ Past(w.tcb) /\ Past(w.qe)
        /\ out.timestamp \in Nat
        /\ WithinIssue(out.timestamp, w.tcb) /\ WithinIssue(out.timestamp, w.qe)
        /\ \A d \in {w.leaf, w.int, w.sign} : Within(out.timestamp, d)
    BY <1>1, WorldAssumption
       DEF NoirInv, NoirShape, RootFacts, ChainFacts, CollateralFacts, IdentityFacts, LevelsFacts,
           FreshnessFacts, ValidityFacts
  <1>7. PICK t \in Nat : pck = PckCrl(CaOf[Holder], t)
    BY <1>2, <1>5, <1>6, CrlSigned DEF VerifyCrl, CaCert
  <1>8. PICK u \in Nat : rc = RootCrl(u)
    BY <1>2, <1>5, <1>6, CrlSigned DEF VerifyCrl
  <1>9. Past(pck) /\ Past(rc)
    BY <1>5, <1>6, KnownPast
  <1>10. /\ out'.from \in Nat /\ out'.until \in Nat /\ out'.from <= now
         /\ out'.from <= out.timestamp /\ out.timestamp <= out'.until
         /\ NewEval[w.tcb.eval] <= out'.from /\ out'.until <= out'.from + Period
         /\ out'.until <= t + Period /\ out'.until <= u + Period
    <2> DEFINE dated == Dated(Holder, w.sign, t, u)
    <2>1. dated = {w.leaf, w.int, w.sign, pck, rc}
      BY <1>6, <1>7, <1>8 DEF Dated
    <2> HIDE DEF dated
    <2>2. \A d \in dated : Within(out.timestamp, d)
      BY <1>2, <1>6, <2>1 DEF VerifyCrl
    <2>3. /\ out'.from = Latest({d.from : d \in dated} \cup {w.tcb.issued, w.qe.issued})
          /\ out'.until = Earliest({d.until : d \in dated} \cup {w.tcb.next, w.qe.next})
      BY <1>3, <2>1
    <2>4. Past(PckCrl(CaOf[Holder], t)) /\ Past(RootCrl(u))
      BY <1>7, <1>8, <1>9
    <2>5. Folded(Holder, w.sign, w.tcb, w.qe, t, u, out.timestamp, out'.from, out'.until)
      BY <1>6, <2>2, <2>3, <2>4 DEF Folded, dated
    <2>6. QED
      BY <2>5, WindowFolds
  <1>11. t < revokedAt[Holder] /\ u < revokedAt[CaOf[Holder]]
    <2>1. revokedAt[Holder] \in Nat /\ revokedAt[CaOf[Holder]] \in Nat
      BY <1>6, WorldAssumption DEF NoirInv, NoirShape, Serials, Never
    <2>2. ~(revokedAt[Holder] <= t)
      BY <1>2, <1>6, <1>7 DEF VerifyCrl, Contains, Has, PckCrl, Leaf
    <2>3. ~(revokedAt[CaOf[Holder]] <= u)
      BY <1>2, <1>6, <1>8 DEF VerifyCrl, Contains, Has, RootCrl, CaCert
    <2>4. QED
      BY <2>1, <2>2, <2>3
  <1>12. host # None => /\ VerifyCrl(host.pckCrl, w.int.key, w.leaf.serial)'
                        /\ VerifyCrl(host.rootCrl, Root, w.int.serial)'
    BY <1>1, <1>2, <1>3, <1>5, <1>6
       DEF Tied, VerifyCrl, Contains, CrlHead, Has, Within, SignedBy
  <1>13. RevocationFacts'
    <2>1. revokedAt[Holder] \in Nat /\ revokedAt[CaOf[Holder]] \in Nat /\ Period \in Nat
      BY <1>6, WorldAssumption DEF NoirInv, NoirShape, Serials, Never
    <2>2. out'.until < revokedAt[Holder] + Period /\ out'.until < revokedAt[CaOf[Holder]] + Period
      BY <1>10, <1>11, <2>1
    <2>3. Holder' = Holder
      BY <1>1 DEF Holder
    <2>4. QED
      BY <1>1, <1>3, <1>10, <1>12, <2>2, <2>3 DEF RevocationFacts
  <1>14. QED
    BY <1>1, <1>3, <1>4, <1>13, NoirStand DEF NoirInv, NoirShape, Times

(* The generator writes before main runs.                                   *)
LEMMA GenerateKeeps == ASSUME NoirInv, Generate PROVE NoirInv'
  <1>1. /\ pc = "inputs" /\ pc' = pc /\ w' = w /\ out' = out /\ now' = now
        /\ revokedAt' = revokedAt
    BY DEF Generate
  <1>2. HostShape'
    <2>1. PICK p \in Platforms, e \in Evals, n \in QeEvals, given \in Times \cup {None},
               m \in Mutations, t \in 0 .. now, u \in 0 .. now, v \in 0 .. now, x \in 0 .. now :
            /\ NewEval[e] <= t
            /\ host' = Built(p, TcbInfo(FmspcOf[p], e, t), QeId(n, u), PckCrl(CaOf[p], v),
                             RootCrl(x), given, m)
      BY DEF Generate
    <2>2. host' = Built(p, TcbInfo(FmspcOf[p], e, t), QeId(n, u), PckCrl(CaOf[p], v),
                        RootCrl(x), given, m)'
      BY <1>1, <2>1 DEF Built, MutateCrl, Timestamp, Midpoint, PckCrl, RootCrl, TcbInfo, QeId,
                        Leaf, CaCert, Report, Quote
    <2>3. QED
      BY <1>1, <2>1, <2>2 DEF HostShape
  <1>3. HostInv' /\ NoirShape'
    BY <1>1, <1>2 DEF HostInv, NoirInv, NoirShape
  <1>4. QED
    BY <1>1, <1>3 DEF NoirInv, RootFacts, ChainFacts, CollateralFacts, ValidityFacts,
       IdentityFacts, ReportFacts, DataFacts, PolicyFacts, IsvFacts, LevelsFacts, FreshnessFacts,
       RevocationFacts

LEMMA NoirRestartKeeps ==
  ASSUME NoirInv, Restart, host' = None, root' = None PROVE NoirInv'
  <1>1. HostInv' /\ NoirShape'
    BY DEF Restart, NoirInv, HostInv, NoirShape, NoWitness, NoOutput
  <1>2. pc' = "inputs"
    BY DEF Restart
  <1>3. QED
    BY <1>1, <1>2 DEF NoirInv, RootFacts, ChainFacts, CollateralFacts, ValidityFacts,
       IdentityFacts, ReportFacts, DataFacts, PolicyFacts, IsvFacts, LevelsFacts, FreshnessFacts,
       RevocationFacts

(* A submission and time change nothing of what is claimed.                 *)
LEMMA NoirIdleKeeps ==
  ASSUME NoirInv, UNCHANGED <<revokedAt, pc, w, out, host, root>>,
         now' = now \/ (now < Horizon /\ now' = now + 1)
  PROVE  NoirInv'
  <1>1. now \in Nat /\ now' \in Nat /\ now <= now' /\ NoirShape'
    BY WorldAssumption DEF NoirInv, NoirShape, Times
  <1>2. HostInv'
    BY <1>1, HostStands DEF NoirInv
  <1>3. QED
    BY <1>1, <1>2, NoirStand DEF NoirInv

THEOREM NoirInvariance == NoirSpec => []NoirInv
  <1>1. NoirInit => NoirInv
    <2>1. NoirInit => HostInv /\ NoirShape /\ pc = "inputs"
      BY WorldAssumption
         DEF NoirInit, Init, HostInv, NoirShape, NoWitness, NoOutput, Times, Never
    <2>2. QED
      BY <2>1 DEF NoirInv, RootFacts, ChainFacts, CollateralFacts, ValidityFacts,
         IdentityFacts, ReportFacts, DataFacts, PolicyFacts, IsvFacts, LevelsFacts,
         FreshnessFacts, RevocationFacts
  <1>2. NoirInv /\ [NoirNext]_noirVars => NoirInv'
    <2>1. ASSUME NoirInv, Consume \/ Tick, Idle PROVE NoirInv'
      BY <2>1, NoirIdleKeeps DEF Consume, Tick, Idle
    <2>2. ASSUME NoirInv, UNCHANGED noirVars PROVE NoirInv'
      BY <2>2, NoirIdleKeeps DEF noirVars, vars
    <2>3. ASSUME NoirInv, Main PROVE NoirInv'
      BY <2>3, PinRootKeeps, VerifyChainToRootKeeps, VerifyNoirCollateralKeeps,
         CheckCertValidityKeeps, BindIdentityKeeps, Step4Keeps, Step5Keeps, Step6Keeps,
         Step7Keeps, BindLevelsAndMergeKeeps, CheckFreshnessKeeps, VerifyRevocationAndFoldKeeps
         DEF Main
    <2>4. QED
      BY <2>1, <2>2, <2>3, GenerateKeeps, NoirRestartKeeps DEF NoirNext
  <1>3. QED
    BY <1>1, <1>2, PTL DEF NoirSpec

(* What the Noir circuit proves is true of the world.                       *)
LEMMA NoirOutputsHonest == NoirInv => HonestOutputs
  <1>1. SUFFICES ASSUME NoirInv, pc = "proved" PROVE Promise!Holds(out)
    BY DEF HonestOutputs
  <1>2. /\ Holder \in Platforms /\ w.quote = Quote(Holder)
        /\ w.tcb.eval \in Evals /\ w.qe.eval \in QeEvals
        /\ Platform = TcbVerdict[FmspcOf[Holder]][w.tcb.eval][<<SvnOf[Holder], SvnOf[Holder]>>]
        /\ Enclave = QeVerdict[w.qe.eval][SvnOf[Holder]]
    BY <1>1, NoirLinked
  <1>3. /\ out.serial = Holder /\ out.fmspc = FmspcOf[Holder] /\ out.body = Holder
        /\ out.evals = [tcb |-> w.tcb.eval, qe |-> w.qe.eval]
    BY <1>1, <1>2 DEF NoirInv, IdentityFacts, IsvFacts, FreshnessFacts, Quote
  <1>4. /\ Platform \in Nat /\ Enclave \in Nat /\ None \notin {Platform, Enclave}
        /\ out.status \in {Platform, Enclave}
        /\ out.status >= Platform /\ out.status >= Enclave /\ out.status # Revoked
    BY <1>1, WorldAssumption DEF NoirInv, LevelsFacts
  <1>5. out.status = Promise!Worse(Platform, Enclave)
    BY <1>4 DEF Promise!Worse
  <1>6. /\ out.from <= now /\ out.from <= out.timestamp /\ out.timestamp <= out.until
        /\ NewEval[w.tcb.eval] <= out.from /\ out.until <= out.from + Period
        /\ out.until < revokedAt[Holder] + Period
        /\ out.until < revokedAt[CaOf[Holder]] + Period
    BY <1>1 DEF NoirInv, RevocationFacts
  <1>7. QED
    BY <1>2, <1>3, <1>4, <1>5, <1>6 DEF Promise!Holds

LEMMA NoirStepKeepsPromise ==
  ASSUME NoirInv, HonestOutputs', [NoirNext]_noirVars
  PROVE  [Promise!Next]_(Promise!vars)
  <1>1. ASSUME pc # "proved", pc' # "proved", UNCHANGED <<revokedAt, now, floor>>
        PROVE  UNCHANGED Promise!vars
    BY <1>1 DEF Promise!vars
  <1>2. CASE \/ PinRoot \/ VerifyChainToRoot \/ VerifyNoirCollateral \/ CheckCertValidity
             \/ BindIdentity \/ Step4VerifyQeReportSig \/ Step5VerifyQeReportData
             \/ Step6VerifyQePolicy \/ Step7VerifyIsvSig \/ BindLevelsAndMerge
             \/ CheckFreshness
    BY <1>1, <1>2 DEF PinRoot, VerifyChainToRoot, VerifyNoirCollateral, CheckCertValidity,
       BindIdentity, Step4VerifyQeReportSig, Step5VerifyQeReportData, Step6VerifyQePolicy,
       Step7VerifyIsvSig, BindLevelsAndMerge, CheckFreshness, Cut, Same
  <1>3. CASE VerifyRevocationAndFold
    <2>1. pc' = "proved" /\ UNCHANGED <<revokedAt, now, floor>>
      BY <1>3 DEF VerifyRevocationAndFold, Cut, Same
    <2>2. Promise!Prove
      BY <2>1 DEF HonestOutputs, Promise!Prove, Promise!Holds
    <2>3. QED
      BY <2>2 DEF Promise!Next
  <1>4. CASE Generate
    BY <1>1, <1>4 DEF Generate
  <1>5. CASE Restart /\ host' = None /\ root' = None
    <2>1. Promise!Withdraw
      BY <1>5 DEF Restart, Promise!Withdraw
    <2>2. QED
      BY <2>1 DEF Promise!Next
  <1>6. CASE Consume /\ Idle
    <2>1. pc = "proved" /\ pc' = "proved"
      BY <1>6 DEF Consume
    <2>2. out.from \in Nat
      BY <2>1 DEF NoirInv, RevocationFacts
    <2>3. out # NoOutput
      BY <2>2, WorldAssumption DEF NoOutput
    <2>4. Promise!Consume
      BY <1>6, <2>1, <2>3 DEF Consume, AtLeast, Promise!Consume, Promise!AtLeast
    <2>5. QED
      BY <2>4 DEF Promise!Next
  <1>7. CASE Tick /\ Idle
    <2>1. Promise!Tick
      BY <1>7 DEF Tick, Promise!Tick
    <2>2. QED
      BY <2>1 DEF Promise!Next
  <1>8. CASE UNCHANGED noirVars
    BY <1>8 DEF noirVars, vars, Promise!vars
  <1>9. QED
    BY <1>2, <1>3, <1>4, <1>5, <1>6, <1>7, <1>8 DEF NoirNext, Main

(* The Noir circuit implements the same promise, whether a prover or the    *)
(* generator fills its witness (crates/dcap/src/main.nr).                   *)
THEOREM NoirKeepsPromise == NoirSpec => ImplementsAttestation
  <1>1. NoirSpec => []HonestOutputs
    BY NoirInvariance, NoirOutputsHonest, PTL
  <1>2. NoirInit => Promise!Init
    BY DEF NoirInit, Init, Promise!Init
  <1>3. QED
    BY NoirInvariance, NoirStepKeepsPromise, <1>1, <1>2, PTL
       DEF NoirSpec, ImplementsAttestation, Promise!Spec

(* Whatever the generator is asked for, what is proved of its witness has   *)
(* Intel's root, the committed key and real CRLs, is in date and of a       *)
(* platform nobody revoked (genprover.go 183-201, 841-870).                 *)
THEOREM ForgeryAlwaysRefused == NoirSpec => []ForgeryRefused
  <1>1. NoirInv => ForgeryRefused
    <2>1. SUFFICES ASSUME NoirInv, host # None, pc = "proved" PROVE Honest(host)
      BY DEF ForgeryRefused
    <2>2. PICK p \in Platforms, e \in Evals, n \in QeEvals, given \in Times \cup {None},
               m \in Mutations, t \in 0 .. now, u \in 0 .. now, v \in 0 .. now, x \in 0 .. now :
            host = Built(p, TcbInfo(FmspcOf[p], e, t), QeId(n, u), PckCrl(CaOf[p], v), RootCrl(x),
                         given, m)
      BY <2>1 DEF NoirInv, HostInv, HostShape
    <2>3. /\ root = host.root /\ w.leaf = host.leaf /\ w.int = host.int /\ w.sign = host.sign
          /\ w.tcb = host.tcb /\ w.qe = host.qe /\ out.timestamp = host.timestamp
          /\ w.attest = host.attest /\ root = Root
      BY <2>1 DEF NoirInv, RootFacts, ChainFacts, CollateralFacts, ValidityFacts, DataFacts, Tied
    <2>4. /\ host.leaf = Leaf(p) /\ host.int = CaCert(CaOf[p]) /\ host.rootCrl = RootCrl(x)
          /\ host.tcb = TcbInfo(FmspcOf[p], e, t) /\ host.qe = QeId(n, u)
          /\ host.report = Report(p)
          /\ host.pckCrl = IF m = "c4-cert-as-crl" THEN Leaf(p) ELSE PckCrl(CaOf[p], v)
      BY <2>2 DEF Built, MutateCrl
    <2>5. Holder = p /\ host.leaf.serial = p /\ host.int.serial = CaOf[p] /\ CaOf[p] \in Cas
      BY <2>3, <2>4, WorldAssumption DEF Holder, Leaf, CaCert
    <2>6. /\ \A d \in {host.leaf, host.int, host.sign} : Within(host.timestamp, d)
          /\ WithinIssue(host.timestamp, host.tcb) /\ WithinIssue(host.timestamp, host.qe)
          /\ VerifyCrl(host.pckCrl, host.int.key, p) /\ VerifyCrl(host.rootCrl, Root, CaOf[p])
          /\ host.timestamp \in Nat
      <3>1. /\ \A d \in {w.leaf, w.int, w.sign} : Within(out.timestamp, d)
            /\ WithinIssue(out.timestamp, w.tcb) /\ WithinIssue(out.timestamp, w.qe)
            /\ VerifyCrl(host.pckCrl, w.int.key, w.leaf.serial)
            /\ VerifyCrl(host.rootCrl, Root, w.int.serial) /\ out.timestamp \in Nat
        BY <2>1 DEF NoirInv, ValidityFacts, FreshnessFacts, RevocationFacts
      <3>2. QED
        BY <2>3, <2>5, <3>1
    <2>7. host.root = Root /\ host.attest = host.report.commit
      <3>1. w.attest = AttestKey(p)
        BY <2>1, <2>5, NoirLinked
      <3>2. QED
        BY <2>3, <2>4, <3>1 DEF Report
    <2>8. host.pckCrl = PckCrl(CaOf[p], v) /\ Has(host.pckCrl, "list")
      BY <2>4, <2>6 DEF VerifyCrl, CrlHead, Has, Leaf
    <2>9. /\ host.pckCrl.from < revokedAt[host.leaf.serial]
          /\ host.rootCrl.from < revokedAt[host.int.serial]
      <3>1. revokedAt[p] \in Nat /\ revokedAt[CaOf[p]] \in Nat
        BY <2>1, <2>5, WorldAssumption DEF NoirInv, NoirShape, Serials, Never
      <3>2. ~(revokedAt[p] <= v)
        BY <2>6, <2>8 DEF VerifyCrl, Contains, Has, PckCrl
      <3>3. ~(revokedAt[CaOf[p]] <= x)
        BY <2>4, <2>5, <2>6 DEF VerifyCrl, Contains, Has, RootCrl
      <3>4. host.pckCrl.from = v /\ host.rootCrl.from = x
        BY <2>4, <2>8 DEF PckCrl, RootCrl
      <3>5. QED
        BY <2>5, <3>1, <3>2, <3>3, <3>4
    <2>10. Within(host.timestamp, host.pckCrl) /\ Within(host.timestamp, host.rootCrl)
      BY <2>1, <2>3, <2>6 DEF VerifyCrl
    <2>11. /\ Platform \in Severities /\ Enclave \in Severities
           /\ Platform # Revoked /\ Enclave # Revoked
           /\ Platform # None /\ Enclave # None
      <3>1. /\ Platform \in Severities /\ Enclave \in Severities
            /\ out.status \in {Platform, Enclave} /\ out.status >= Platform
            /\ out.status >= Enclave /\ out.status # Revoked
        BY <2>1 DEF NoirInv, LevelsFacts
      <3>2. /\ Platform \in Nat /\ Enclave \in Nat /\ Revoked \in Nat
            /\ Platform <= Revoked /\ Enclave <= Revoked
        BY <3>1, WorldAssumption
      <3>3. Platform # Revoked /\ Enclave # Revoked
        BY <3>1, <3>2
      <3>4. QED
        BY <3>1, <3>2, <3>3, WorldAssumption
    <2>12. PlatformLevel(p, host.tcb) = Platform /\ EnclaveLevel(p, host.qe) = Enclave
      <3>1. /\ Platform = TcbVerdict[FmspcOf[p]][e][<<SvnOf[p], SvnOf[p]>>]
            /\ Enclave = QeVerdict[n][SvnOf[p]]
        BY <2>1, <2>3, <2>4, <2>5, NoirLinked DEF TcbInfo, QeId
      <3>2. QED
        BY <2>4, <3>1 DEF PlatformLevel, EnclaveLevel, TcbInfo, QeId
    <2>13. {PlatformLevel(host.leaf.serial, host.tcb), EnclaveLevel(host.leaf.serial, host.qe)}
             \cap {None, Revoked} = {}
      BY <2>5, <2>11, <2>12
    <2>14. QED
      BY <2>6, <2>7, <2>8, <2>9, <2>10, <2>13 DEF Honest
  <1>2. QED
    BY NoirInvariance, <1>1, PTL

(* What the generator's steps have taken is its witness, and all of it is   *)
(* about one platform and of documents signed so far.                       *)
LEMMA HonestParts ==
  ASSUME NoirInv, host # None, Honest(host)
  PROVE  \E p \in Platforms, e \in Evals, n \in QeEvals, t, u, v, x \in 0 .. now :
           /\ host.root = Root /\ host.leaf = Leaf(p) /\ host.int = CaCert(CaOf[p])
           /\ host.sign = SignCert /\ host.tcb = TcbInfo(FmspcOf[p], e, t) /\ host.qe = QeId(n, u)
           /\ host.report = Report(p) /\ host.attest = AttestKey(p) /\ host.policy = "intel"
           /\ host.quote = Quote(p) /\ host.pckCrl = PckCrl(CaOf[p], v) /\ host.rootCrl = RootCrl(x)
           /\ CaOf[p] \in Cas /\ NewEval[e] <= t
  <1>1. PICK p \in Platforms, e \in Evals, n \in QeEvals, given \in Times \cup {None},
             m \in Mutations, t \in 0 .. now, u \in 0 .. now, v \in 0 .. now, x \in 0 .. now :
          /\ NewEval[e] <= t
          /\ host = Built(p, TcbInfo(FmspcOf[p], e, t), QeId(n, u), PckCrl(CaOf[p], v), RootCrl(x),
                          given, m)
    BY DEF NoirInv, HostInv, HostShape
  <1>2. /\ host.root = Root /\ host.report = Report(p) /\ host.attest = AttestKey(p)
        /\ host.pckCrl = PckCrl(CaOf[p], v)
    <2>1. host.root = Root /\ host.attest = host.report.commit /\ Has(host.pckCrl, "list")
      BY DEF Honest
    <2>2. host.report = Report(p) /\ host.pckCrl \in {Leaf(p), PckCrl(CaOf[p], v)}
      BY <1>1 DEF Built, MutateCrl
    <2>3. host.pckCrl # Leaf(p)
      BY <2>1 DEF Has, Leaf
    <2>4. QED
      BY <2>1, <2>2, <2>3 DEF Report
  <1>3. CaOf[p] \in Cas
    BY WorldAssumption
  <1>4. /\ host.leaf = Leaf(p) /\ host.int = CaCert(CaOf[p]) /\ host.sign = SignCert
        /\ host.tcb = TcbInfo(FmspcOf[p], e, t) /\ host.qe = QeId(n, u)
        /\ host.policy = QeId(n, u).mrsigner /\ host.quote = Quote(p) /\ host.rootCrl = RootCrl(x)
    BY <1>1 DEF Built
  <1>5. QeId(n, u).mrsigner = "intel"
    BY DEF QeId
  <1>6. QED
    BY <1>1, <1>2, <1>3, <1>4, <1>5

(* The demands of the last step: neither CRL lists its serial, and the      *)
(* latest start of a window is not after the earliest end, because the      *)
(* timestamp is inside them all.                                            *)
LEMMA HonestMeetsRevocation ==
  ASSUME NoirInv, host # None, Honest(host), pc = "revocation"
  PROVE  Demands(host)
  <1>1. PICK p \in Platforms, e \in Evals, n \in QeEvals, t \in 0 .. now, u \in 0 .. now,
             v \in 0 .. now, x \in 0 .. now :
          /\ host.root = Root /\ host.leaf = Leaf(p) /\ host.int = CaCert(CaOf[p])
          /\ host.pckCrl = PckCrl(CaOf[p], v) /\ host.rootCrl = RootCrl(x) /\ CaOf[p] \in Cas
    BY HonestParts
  <1>2. /\ root = Root /\ w.leaf = Leaf(p) /\ w.int = CaCert(CaOf[p]) /\ now \in Times
        /\ out.timestamp = host.timestamp /\ out.timestamp \in Nat
        /\ w.sign.from = 0 /\ w.sign.until \in Nat
        /\ IsTcbInfo(w.tcb) /\ IsQeId(w.qe) /\ Past(w.tcb) /\ Past(w.qe)
        /\ WithinIssue(out.timestamp, w.tcb) /\ WithinIssue(out.timestamp, w.qe)
        /\ \A d \in {w.leaf, w.int, w.sign} : Within(out.timestamp, d)
    <2>1. /\ root = Root /\ now \in Times /\ w.sign.from = 0 /\ w.sign.until \in Nat
          /\ IsTcbInfo(w.tcb) /\ IsQeId(w.qe) /\ Past(w.tcb) /\ Past(w.qe)
          /\ out.timestamp \in Nat
          /\ WithinIssue(out.timestamp, w.tcb) /\ WithinIssue(out.timestamp, w.qe)
          /\ \A d \in {w.leaf, w.int, w.sign} : Within(out.timestamp, d)
      BY DEF NoirInv, NoirShape, RootFacts, CollateralFacts, IdentityFacts, LevelsFacts,
             FreshnessFacts, ValidityFacts
    <2>2. w.leaf = host.leaf /\ w.int = host.int /\ out.timestamp = host.timestamp
      BY DEF NoirInv, ChainFacts, ValidityFacts, Tied
    <2>3. QED
      BY <1>1, <2>1, <2>2
  <1>3. /\ Within(out.timestamp, PckCrl(CaOf[p], v)) /\ Within(out.timestamp, RootCrl(x))
        /\ v < revokedAt[p] /\ x < revokedAt[CaOf[p]]
    <2>1. /\ Within(host.timestamp, host.pckCrl) /\ Within(host.timestamp, host.rootCrl)
          /\ host.pckCrl.from < revokedAt[host.leaf.serial]
          /\ host.rootCrl.from < revokedAt[host.int.serial]
      BY DEF Honest
    <2>2. PckCrl(CaOf[p], v).from = v /\ RootCrl(x).from = x /\ Leaf(p).serial = p
          /\ CaCert(CaOf[p]).serial = CaOf[p]
      BY DEF PckCrl, RootCrl, Leaf, CaCert
    <2>3. QED
      BY <1>1, <1>2, <2>1, <2>2
  <1>4. /\ SignedBy(host.pckCrl, w.int.key) /\ SignedBy(host.rootCrl, root) /\ Has(w.int, "serial")
        /\ CrlHead(host.pckCrl) /\ CrlHead(host.rootCrl)
    BY <1>1, <1>2 DEF SignedBy, PckCrl, RootCrl, CaCert, Has, CrlHead
  <1>5. ~Contains(host.pckCrl, w.leaf.serial) /\ ~Contains(host.rootCrl, w.int.serial)
    <2>1. revokedAt[p] \in Nat /\ revokedAt[CaOf[p]] \in Nat /\ v \in Nat /\ x \in Nat
      BY <1>1, <1>2, WorldAssumption DEF NoirInv, NoirShape, Serials, Never, Times
    <2>2. ~(revokedAt[p] <= v) /\ ~(revokedAt[CaOf[p]] <= x)
      BY <1>3, <2>1
    <2>3. ~Contains(PckCrl(CaOf[p], v), p)
      BY <2>2 DEF Contains, Has, PckCrl
    <2>4. ~Contains(RootCrl(x), CaOf[p])
      BY <2>2 DEF Contains, Has, RootCrl
    <2>5. w.leaf.serial = p /\ w.int.serial = CaOf[p]
      BY <1>2 DEF Leaf, CaCert
    <2>6. QED
      BY <1>1, <2>3, <2>4, <2>5
  <1>6. Latest({d.from : d \in {w.leaf, w.int, w.sign, host.pckCrl, host.rootCrl}}
                 \cup {w.tcb.issued, w.qe.issued})
          <= Earliest({d.until : d \in {w.leaf, w.int, w.sign, host.pckCrl, host.rootCrl}}
                        \cup {w.tcb.next, w.qe.next})
    <2> DEFINE dated == Dated(p, w.sign, v, x)
               from == Latest({d.from : d \in dated} \cup {w.tcb.issued, w.qe.issued})
               until == Earliest({d.until : d \in dated} \cup {w.tcb.next, w.qe.next})
    <2>1. v \in Nat /\ x \in Nat /\ v <= now /\ x <= now
      BY <1>2 DEF Times
    <2>2. Past(PckCrl(CaOf[p], v)) /\ Past(RootCrl(x))
      <3>1. /\ PckCrl(CaOf[p], v).from = v /\ RootCrl(x).from = x
            /\ ~Has(PckCrl(CaOf[p], v), "issued") /\ ~Has(RootCrl(x), "issued")
        BY DEF PckCrl, RootCrl, Has
      <3>2. ~IsTcbInfo(PckCrl(CaOf[p], v)) /\ ~IsTcbInfo(RootCrl(x))
        <4>1. \A d : IsTcbInfo(d) => Has(d, "issued")
          BY DEF IsTcbInfo, TcbInfo, Has
        <4>2. QED
          BY <3>1, <4>1
      <3>3. QED
        BY <2>1, <3>1, <3>2 DEF Past
    <2>3. \A d \in dated : Within(out.timestamp, d)
      BY <1>2, <1>3 DEF Dated
    <2>4. from <= out.timestamp /\ out.timestamp <= until /\ from \in Nat /\ until \in Nat
      <3>1. Folded(p, w.sign, w.tcb, w.qe, v, x, out.timestamp, from, until)
        BY <1>2, <2>1, <2>2, <2>3 DEF Folded
      <3>2. QED
        BY <3>1, WindowFolds
    <2>5. from <= until
      <3> HIDE DEF from, until
      <3>1. QED
        BY <1>2, <2>4
    <2>6. dated = {w.leaf, w.int, w.sign, host.pckCrl, host.rootCrl}
      BY <1>1, <1>2 DEF Dated
    <2>7. QED
      BY <2>5, <2>6
  <1>7. Within(out.timestamp, host.pckCrl) /\ Within(out.timestamp, host.rootCrl)
    BY <1>1, <1>3
  <1>8. QED
    BY <1>4, <1>5, <1>6, <1>7 DEF Demands

(* The demands of bind_tcb_levels: the policy is the identity's, and the    *)
(* verdicts that are published are those that the witness was chosen for.   *)
LEMMA HonestMeetsLevels ==
  ASSUME NoirInv, host # None, Honest(host), pc = "tcb"
  PROVE  Demands(host)
  <1>1. PICK p \in Platforms, e \in Evals, n \in QeEvals, t \in 0 .. now, u \in 0 .. now :
          /\ host.leaf = Leaf(p) /\ host.tcb = TcbInfo(FmspcOf[p], e, t) /\ host.qe = QeId(n, u)
          /\ host.report = Report(p)
    BY HonestParts
  <1>2. /\ w.leaf = Leaf(p) /\ w.tcb = TcbInfo(FmspcOf[p], e, t) /\ w.qe = QeId(n, u)
        /\ w.report = Report(p) /\ w.policy = w.report.mrsigner
    BY <1>1 DEF NoirInv, ChainFacts, CollateralFacts, ReportFacts, PolicyFacts, Tied
  <1>3. /\ Has(w.tcb, "tcbLevels") /\ Has(w.leaf, "svn") /\ Has(w.qe, "isvLevels")
        /\ Has(w.qe, "mrsigner") /\ w.policy = w.qe.mrsigner
    BY <1>2 DEF Has, TcbInfo, Leaf, QeId, Report
  <1>4. Holder = p /\ host.leaf.serial = p
    BY <1>1, <1>2 DEF Holder, Leaf
  <1>5. /\ Platform = TcbVerdict[FmspcOf[p]][w.tcb.eval][<<SvnOf[p], SvnOf[p]>>]
        /\ Enclave = QeVerdict[w.qe.eval][SvnOf[p]]
    BY <1>3, <1>4, NoirLinked DEF PolicyBound
  <1>6. host.tcb.eval = w.tcb.eval /\ host.qe.eval = w.qe.eval
    BY <1>1, <1>2
  <1>7. {Platform, Enclave} \cap {None, Revoked} = {}
    <2>1. PlatformLevel(p, host.tcb) = Platform /\ EnclaveLevel(p, host.qe) = Enclave
      BY <1>1, <1>2, <1>5 DEF PlatformLevel, EnclaveLevel, TcbInfo, QeId
    <2>2. QED
      BY <1>4, <2>1 DEF Honest
  <1>8. QED
    BY <1>3, <1>7 DEF Demands

(* The demands of the other steps: keys, presence and dates.                *)
LEMMA HonestMeetsOthers ==
  ASSUME NoirInv, host # None, Honest(host), pc \notin {"tcb", "revocation", "proved"}
  PROVE  Demands(host)
  <1>1. PICK p \in Platforms, e \in Evals, n \in QeEvals, t \in 0 .. now, u \in 0 .. now :
          /\ host.root = Root /\ host.leaf = Leaf(p) /\ host.int = CaCert(CaOf[p])
          /\ host.sign = SignCert /\ host.tcb = TcbInfo(FmspcOf[p], e, t) /\ host.qe = QeId(n, u)
          /\ host.report = Report(p) /\ host.attest = AttestKey(p) /\ host.policy = "intel"
          /\ host.quote = Quote(p)
    BY HonestParts
  <1>2. CASE pc = "inputs"
    BY <1>1, <1>2 DEF Demands
  <1>3. CASE pc = "chain"
    <2>1. root = Root
      BY <1>3 DEF NoirInv, RootFacts
    <2>2. QED
      BY <1>1, <1>3, <2>1 DEF Demands, SignedBy, Has, CaCert, Leaf
  <1>4. CASE pc = "collateral"
    <2>1. root = Root
      BY <1>4 DEF NoirInv, RootFacts
    <2>2. QED
      BY <1>1, <1>4, <2>1 DEF Demands, SignedBy, Has, SignCert, TcbInfo, QeId
  <1>5. CASE pc = "validity"
    <2>1. w.leaf = host.leaf /\ w.int = host.int /\ w.sign = host.sign
      BY <1>5 DEF NoirInv, ChainFacts, CollateralFacts, Tied
    <2>2. QED
      BY <1>5, <2>1 DEF Demands, Honest
  <1>6. CASE pc = "identity"
    <2>1. w.leaf = Leaf(p) /\ w.tcb = TcbInfo(FmspcOf[p], e, t)
      BY <1>1, <1>6 DEF NoirInv, ChainFacts, CollateralFacts, Tied
    <2>2. QED
      BY <1>6, <2>1 DEF Demands, Has, Leaf, TcbInfo
  <1>7. CASE pc = "report"
    <2>1. w.leaf = Leaf(p) /\ w.pck = PckKey(Holder)
      BY <1>1, <1>7 DEF NoirInv, ChainFacts, Tied
    <2>2. QED
      BY <1>1, <1>7, <2>1 DEF Demands, Has, SignedBy, Leaf, Report, Holder
  <1>8. CASE pc = "data"
    <2>1. w.report = Report(p)
      BY <1>1, <1>8 DEF NoirInv, ReportFacts, Tied
    <2>2. QED
      BY <1>1, <1>8, <2>1 DEF Demands, Report
  <1>9. CASE pc = "policy"
    <2>1. w.report = Report(p)
      BY <1>1, <1>9 DEF NoirInv, ReportFacts, Tied
    <2>2. QED
      BY <1>1, <1>9, <2>1 DEF Demands, Report
  <1>10. CASE pc = "isv"
    <2>1. w.attest = AttestKey(p)
      BY <1>1, <1>10 DEF NoirInv, DataFacts, Tied
    <2>2. QED
      BY <1>1, <1>10, <2>1 DEF Demands, Has, SignedBy, Quote
  <1>11. CASE pc = "freshness"
    <2>1. /\ w.tcb = TcbInfo(FmspcOf[p], e, t) /\ w.qe = QeId(n, u)
          /\ w.tcb = host.tcb /\ w.qe = host.qe /\ out.timestamp = host.timestamp
      BY <1>1, <1>11 DEF NoirInv, CollateralFacts, ValidityFacts, Tied
    <2>2. Has(w.tcb, "issued") /\ Has(w.qe, "issued")
      BY <2>1 DEF Has, TcbInfo, QeId
    <2>3. QED
      BY <1>11, <2>1, <2>2 DEF Demands, Honest
  <1>12. QED
    BY <1>2, <1>3, <1>4, <1>5, <1>6, <1>7, <1>8, <1>9, <1>10, <1>11 DEF NoirInv, NoirShape

(* The generator's witness meets the demands of every step of main,         *)
(* whichever documents it combines, if its root, key and CRLs are real, the *)
(* timestamp is inside every window, neither CRL is later than a revocation *)
(* and the verdicts may be published (genprover.go 155-345; main.nr         *)
(* 134-239).                                                                *)
THEOREM HonestAlwaysMeetsDemands == NoirSpec => []HonestMeetsDemands
  <1>1. NoirInv => HonestMeetsDemands
    <2>1. SUFFICES ASSUME NoirInv, host # None, Honest(host), pc # "proved" PROVE Demands(host)
      BY DEF HonestMeetsDemands
    <2>2. QED
      BY <2>1, HonestMeetsRevocation, HonestMeetsLevels, HonestMeetsOthers
  <1>2. QED
    BY NoirInvariance, <1>1, PTL
================================================================================
