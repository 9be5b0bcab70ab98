# TLA+ models of zkdcap

zkdcap proves in zero knowledge that an Intel TDX quote passes DCAP
verification. This directory holds TLA+ modules of its core, TLC
configurations that check them on small instances, and TLAPS proofs. All paths
below are relative to the repository (`src/`).

    tlc -workers 4 -config TcbLevels.cfg MCTcbLevels     # one run
    tlapm TcbLevelsProofs.tla                            # one proof module

`PROJECT.json` lists the components, the runs with their properties, the
mutants (a plausible bug for each property, which the run catches), the source
lines each definition stands for, the hazards and the theorems.

## 1. Inventory

### How the system fits together

    client (src/host) --HTTP--> noir prove server --> genprover, nargo, bb
                       \------> gnark prover: witness builder --> circuit
                                                    (proof, public outputs)
                                                             |
                                              on-chain consumer: window, floors

A *quote* is signed by an attestation key, which a quoting enclave's report
commits to; the report is signed by the platform's PCK key, whose certificate
chains over a Platform CA to Intel's root. *Collateral* (TCB-Info, QE-Identity)
is JSON signed by Intel's TCB-Signing key, and two CRLs revoke certificates.
The circuit gets all of these bytes, and offsets into them, as a private
witness that nobody trusts. The public outputs are the measurements, the
status, the platform's serial and FMSPC, a timestamp, two evaluation numbers
and a validity window. There is no clock in a circuit: the README of the
repository makes the consumer compare chain time with the window and the
numbers with a floor.

### Components

| component | state | operations | what is hard | what makes it correct |
|---|---|---|---|---|
| noir prove server `noir-prove-server/src/main.rs` | files shared by all requests (`Prover.toml`, `dcap_full.gz`, the circuit, the key), a directory per request, a lock | prepare, handle, prove, run, tempdir | concurrent tasks, tools failing half way, death and restart, leftover directories, clients that leave | a client gets the proof of its own inputs under the current key; everyone is served |
| gnark circuit: platform levels `circuit/tcbextract.go`, `dcap.go` step 8 | 16 slots of offsets and values | anchor, count, bind, select | all offsets are free witnesses; a slot could span two levels or skip one; indices are field elements | all levels are bound; the verdict is the first level met |
| gnark circuit: QE levels and merge `tcbextract.go` bindQeIdentity, `dcap.go` step 9, 10 | 8 slots, a claimed count | bind, count, match | padding slots are free; the claim is used before it is checked | merged severity is canonical, not Revoked |
| literal scans `tcbextract.go`, `der.nr` | running flag, prefix counts | one step per position | buffers longer than what is signed; two algorithms | both accept exactly the first occurrence |
| validity window `dcap.go`, `tcbextract.go`, `main.nr`, `builder.go` | lower and upper bound | seven checks, the fold, publication | field comparisons wrap; three orders of folding | the published window is the intersection |
| chain, collateral, steps 4 to 7 `dcap.go`, `chain.go`, `collateral.go`, `certchain.go` | witness, outputs | the steps of `Define` | role confusion between signed byte strings; keys carried twice; policy used before bound | outputs speak of one genuine platform |
| CRLs `crl.go`, `crl.nr` | none | pin the first UTCTime, scan for the serial | a certificate posing as a CRL; product form over a field | a serial in the list is never passed |
| field reads, numbers, dates `extract.go`, `derive.go`, `helpers.go`, `parse.nr` | none | read at an offset, parse | bounds in a field; two-digit years | value read is the signed one |
| witness builder `witness/*.go` | the witness | parse, find offsets, pad, clamp | padding and clamping must satisfy every constraint | honest inputs are accepted |
| Noir circuit `circuits/dcap-noir/crates/dcap` | as gnark | same steps, typed indices | computes scans, windows and CRLs differently | accepts what gnark accepts |
| Noir witness tools `circuits/dcap-noir/tools/*.go` | none | inputs to `Prover.toml` | hints must follow the circuit | as the builder |
| bench circuits `crates/certlink`, `crates/p256_one` | none | one signature | none | library code |
| host library and client `host/src` | none | fetch collateral, call a prover, write a journal | its timeout does not cancel the work | passes results on |
| key and proof tools `cmd/keygen`, `verify`, `verify-remote`, `gen-fixture`, `journal` | key files | one shot each | an interrupted keygen | keys of one circuit |
| journal `core/src` | a record | printing | none | fields in order |
| on-chain consumer (external) | floors | accept a proof | late and repeated proofs | never relies on revoked or superseded state |
| scripts, differential test, example, fixtures | none | sequential drivers | none | |

### Interactions

Server tasks interact through files and a lock only. Builder and circuit meet
in the witness: the circuit assumes nothing of it, the builder must satisfy the
circuit. Circuit and consumer meet in the public outputs. The two circuits do
not interact but must accept the same documents.

### What is hard to test

`hazards` in `PROJECT.json` lists these at their lines. Most are of two kinds:
*a witness nobody would write* (an offset into the unsigned tail, an index
p-1, a CRL of another CA), which a test must guess and the models enumerate;
and *interleavings of requests, failures and restarts* in the server.

## 2. Modules

| module | models | with |
|---|---|---|
| `ProofService` | what the server promises: a first-come-first-served atomic prover | refined by `ProveServer` |
| `ProveServer` | the server, all of it | `MCProveServer`, `ProveServerProofs` |
| `TcbLevels` | platform levels: circuit and builder | `MCTcbLevels`, `TcbLevelsProofs` |
| `NoirTcbLevels` | platform levels: Noir's circuit and genprover, refining `TcbLevels` | `MCNoirTcbLevels` (both circuits), `TcbLevelsProofs` |
| `QeLevels` | QE levels and the merge: circuit and builder | `MCQeLevels`, `QeLevelsProofs` |
| `NoirQeLevels` | QE levels and the merge: Noir's circuit and genprover, refining `QeLevels` | `MCNoirQeLevels` (both circuits), `QeLevelsProofs` |
| `LiteralScan` | the literal scans of gnark and Noir | `LiteralScanProofs` |
| `CrlScan` | the pin of a CRL's dates and the scan for a serial, of gnark and Noir | `CrlScanProofs` |
| `SvnArray` | the components of one array: both circuits and the builder | `FieldReadProofs` |
| `FieldRead` | a read of one field at a chosen offset and its decoding: both circuits and the builder | `MCFieldRead`, `FieldReadProofs` |
| `ValidityWindow` | windows of gnark, Noir and the builder | `ValidityWindowProofs` |
| `Attestation` | what a proof promises: outputs that are true of the world | refined by the next two |
| `QuoteVerification` | `Define` over symbolic documents, and the consumer | `MCQuoteVerification`, `QuoteVerificationProofs` |
| `NoirVerification` | Noir's `main` over the same documents, and genprover with its mutations | `MCNoirVerification`, `QuoteVerificationProofs` |

`QuoteVerification` and `NoirVerification` compose what the others establish:
where they say that the status is the document's verdict, `TcbLevels` and
`QeLevels` say why; where they take minimum and maximum of dates,
`ValidityWindow` says why; where they say that a serial is not listed and a CRL
has two dates, `CrlScan` does; and that a field, once its anchor is there, has
the issuer's value is what `FieldRead` shows. `TcbLevels` in turn takes from
`LiteralScan` what the scans return and from `SvnArray` that an array is bound as
a whole.

### ProveServer

State: the files of the workspace (`source`, `json`, `vkOut`, `vk`, `toml`,
`gz`), the request directories `tmp`, the queue at the lock, one program
counter per connection, and tools that outlive the process. A file holds the
name of what it was made from, `None`, or `Garbage` after a write that was cut.
An action is one step between awaits in `prepare`, `handle`, `prove`: each
tool is a start and an end, and it may fail leaving garbage. `Crash` kills the
process at any step, `Restart` runs `prepare` again with a process id that may
repeat (it is 1 in a container). `Contained` says whether tools die with the
service: in the shipped image the service is the container's first process.
Where they do not, any tool may outlive a crash, since `run` starts them all
alike (`nargo compile` and `bb write_vk` of a start-up, `nargo execute` and
`bb prove` of a request), and writes its file, or half of it, whenever it ends
(`RunningTools`, `OrphanEnds`): an orphan of a start-up can then replace the
circuit or the key that the next start-up is about to use. So nothing is said of
the key outside a container.

Clients: a request is cut in its head, asks for another path, has a bad body
or is good. A client may leave at any time, and its request goes on.

External: `nargo execute` is "compile + witness" (`build.sh:14-15`): it reads the
sources and `Prover.toml`, writes `target/dcap_full.json` from the sources, then
`target/dcap_full.gz`. The key is never its business. So the circuit can be newer
than the key the service derived at its start, in one case: the sources were
changed in place below a circuit that was kept, which start-up does not compile
again. `FreshKey` and `ProofService` say so: key and circuit are of one version,
or the circuit is of sources newer than the key. In an image the circuit on disk
is one of its own sources, and the case does not arise (`KeyMatchesInImage`).

### TcbLevels, QeLevels

A document is seen through its anchor literals: where they start, and the value
behind each. An action chooses the offsets of one slot, and its guards are the
constraints on them; an assignment the circuit rejects is a behaviour that
stops early. A behaviour that starts in `pc = "anchor"` (or `"bind"`) has an
arbitrary prover; one that starts in `"build"` first runs the builder, whose
hints are then the only offsets. A level's thirty
components and its pcesvn are reduced to whether the platform meets them.
`WellFormed` is what is assumed of what Intel signs (levels one after another,
fields inside them in order, the level's own status the first one after its
start, no array literal among them); nothing is assumed of the rest of the
buffer. A document may have no level at all, on which the gnark builder panics
(its padding index is -1) and genprover stops with an error, or more levels
than slots, which both hosts clamp and the circuit counts whole; every other
document whose verdict some level gives is accepted (`Provable`).

The comment at `tcbextract.go:280` says that QE slot 0 is pinned after the
mrsigner field. The code anchors it to *some* level, like the others; the count
of all anchors is what leaves it no choice.

### NoirTcbLevels, NoirQeLevels

Noir was written after gnark with the same constraints in another form, and
its comments argue that they are the same. The modules extend gnark's, so that
documents and state are shared, and translate Noir's loops with their own
order: the first status is pinned by two reads of a prefix count
(`StatusCum`), the claimed count is compared with the slots, the index is a
`u32`, and `bind_qe_identity` selects in the loop that binds, before the count
is known. `ImplementsGnark` says that a behaviour of Noir's is one of gnark's:
for the platform levels with the same variables, for the QE levels with
the hosts hidden (`PcOf`) and a claim beyond the slots cut to one more than them
(`ClaimOf`), since either circuit refuses it all the same. `genprover.go` clamps the level
count before it compares it with what it finds, the gnark builder after; on a
well-formed document the levels found are all or none, so both fail alike.

### LiteralScan

One variable for the position, one for gnark's flag and count, one for Noir's
prefix counts; a step looks at one position. The buffer is any set of places
where the literal starts, the signed length is anything up to the buffer's.

### CrlScan

The buffer is any string over a few byte values, of which two are the tag and
the length of a UTCTime. `Pin` evaluates the constraints of both backends on an
arbitrary offset. gnark's search for an earlier UTCTime ends one position before
Noir's, and the offset may be the bound itself; the two still agree, because a
UTCTime at the position only Noir looks at would overlap the one at the offset.
The scan then goes over the windows, gnark comparing bytes, Noir rolling a
fingerprint and multiplying differences modulo P. The head of the list (C4) and
the comparison of the dates with the timestamp are elsewhere. The buffer behind
the signed prefix is scanned too: it can only make a circuit refuse.

### SvnArray

A document is the positions of one array's components, the field that closes
it, and components of other arrays. The circuits assert of each witness offset
that it is on a component behind a separator, behind the last one and before
the end, and count nothing. `PositionalBinding` therefore has the number of
components as its premise, which Intel's schema gives and `F1` in
`deriveAndBindTcbLevels` keeps (a slot never spans two levels);
`OwnComponents` says what is left without it.

### ValidityWindow

Comparisons are over integers modulo P, as `assertGteWide` and `gteBoolWide`
decompose a difference into W bits; a timestamp is any field element for gnark
and any `u64` for Noir. Each window is a pair of dates, checked in the order of
`stepCheckFreshness` and `verifyCrlNonMembership`, folded in gnark's, Noir's and
the builder's order. How a date is read and decoded is in `FieldRead`.

### FieldRead

A document is what its issuer means (`value`) and what it signs (`body`); the
buffer is the body, then whatever a prover puts behind it. One step reads a
field, once with each circuit's code: gnark's one-hot selector or lookup table
with the bound on the signed length in field arithmetic, Noir's indexing with a
`u32`. The decoders are those of the circuits, constraint by constraint; the
hosts find the first occurrence of the context and decode with Go's libraries,
but for the serial (`canonicalSerial`) and the PCE SVN, whose search in the
hexadecimal text of the extension is modelled as it is written
(`parseSgxExtension`). A context that cannot occur inside a value, and each word
of a status, is one symbol. What an issuer writes behind a context is
`Encodes`, one definition per field: a numeral and what ends it, hexadecimal
digits of either case, an ISO date, a word and its quote, X.690's INTEGER and
UTCTime. It is the only thing assumed of documents (`IssuerAssumption`), and none
of it looks at the circuits: a serial may have any length, a PCE SVN any sixteen
bits, a year any from 1950. `DecodersExact` looks at the decoders alone, on the
windows an issuer signed; `FieldOfIssuer` at what a prover can make of them with
any offset and any bytes behind the signed prefix.

What the model makes visible: a status may run past the signed prefix (only its
context is bounded), where the closing quote still decides it; a decimal longer
than its window is read as its first digits; gnark takes the tag of a
certificate's second date on trust, which `ReadersAgree` shows to be without
consequence, since a validity of thirty bytes that begins with a UTCTime holds
another one (`Validity30`); serials of fewer than nineteen significant bytes and
PCE SVNs from 2^15 have no proof (`Provable`); and a year
from 50 is read as 20YY by the circuits and as 19YY by the builder's `x509`,
which is one of the two cases where host and circuit may disagree
(`HostAgrees`).

### QuoteVerification

A document is a record of the fields it holds. A read at an offset succeeds if
the document has the anchor; no step looks at a document's kind, because no
step in the code does. A signature verifies if the key made it. The prover
fills each place of the witness with any document signed up to now, or one it
signed itself. `Consume` is the consumer's check at any later time. Quoting
enclaves of Intel's commit to their own attestation key; other enclaves on the
platform commit to any key.

The TCB-Signing certificate's own serial is looked up in no CRL, in either
circuit; the repository claims this for leaf and intermediate only, and so do
`RevocationBites` and `Attestation`.

### Attestation

The promise without documents, keys or steps. Its state is the outputs of a
proof (or none), the time, the revocations and the consumer's floors; `Prove`
may set any outputs that are true of the world: the measurements, serial and
FMSPC of one platform, the worse of the two verdicts for the numbers exposed and
not Revoked, a window of at most a period that began after the TCB-Info's number
was introduced and ends less than a period after any revocation of the platform
or its CA. `ImplementsAttestation` maps `out` to the outputs once the last step
is taken and to none before; every other step of a circuit stutters.

### NoirVerification

The documents, the world and the consumer of `QuoteVerification` with the steps
of `main.nr` in their own order: the root key is a witness and is pinned first,
the timestamp is compared with the certificates before anything is published,
the two verdicts are merged before the issue dates are looked at, and the two
CRLs come last. A behaviour follows an arbitrary prover or, once `Generate` has
run, genprover's witness: documents fetched at four different times, the given
timestamp or the middle of the TCB-Info's window, and perhaps a mutation. Without
a level for the platform or the enclave it writes nothing (`Generate`).

Of the fifteen mutations that genprover has for the negative tests, the five that
replace a key, a document or the time are here: `root-pin`, `g3-attest-key`,
`c4-cert-as-crl`, `c5-stale-crl` and `expired-cert`, whose date is the constant
`FixedDate`. The other ten move an offset, an index, a count or a threshold
(`g1-fmspc-off`, `g1-eval-off`, `c1-tcb-idx`, `c1-qe-idx`, `g2-forged-sgx`,
`g5-noncanonical`, `c3-cross-status`, `f1-skip-level`, `f2-tdx-crosslvl`,
`f3-qe-skip`), which documents without bytes do not have; the witnesses they make
are among the arbitrary ones of `FieldRead`, `TcbLevels` and `QeLevels`, where the
properties say what the circuit then takes: the value that is signed, the level
that is first met. They do not say that it refuses, and for some documents these
ten change nothing (a count cannot be lowered below one level, a threshold of
zero stays zero, the level after the first may be the canonical one).

`Honest` is therefore about the witness and not about the mutation asked for: its
keys are the right ones, its PCK CRL is a CRL, its timestamp lies in every
window, no CRL is older than a revocation, neither verdict is Revoked or missing.
`ForgeryRefused` says that nothing else of genprover's is proved; an
`expired-cert` whose date every document still covers would be.

That genprover's own witness is accepted has two halves. `HonestMeetsDemands`
looks at each step of `main` before it runs: what the step compares is as it
demands, for a witness that deserves a proof (`Honest`).
`StepsAccept` says that the step then has a successor: together, no such witness
is ever stuck.

## 3. Runs

| run | shows | bounds | states |
|---|---|---|---|
| `server_safety` | undisturbed directories, with tools of all four kinds outliving the service | 2 requests, 2 versions, 1 crash, 2 pids | 1.6 million |
| `server_service` | own proof, serialization, fresh key, implements `ProofService`, every read request is answered | 2 requests, 2 versions, 1 crash, 1 pid | 584 thousand |
| `server_orphans` | *violated*: serialization, when tools outlive the service | 2 pids | |
| `tcb_levels` | both circuits: all levels bound, canonical verdict, Noir implements gnark; both hosts are accepted | 3 slots, 0 to 4 levels | 213 thousand |
| `qe_levels` | the same for the QE levels, with the merged verdict | 3 slots, 0 to 4 levels, platform verdict 2 | 339 thousand |
| `literal_scan` | both scans exact | 8 positions, literal of 2 | |
| `crl_scan` | both backends pin the same date and refuse the same serials | every buffer of 8 bytes over 3 values, header of 2, serial of 2, field of 11 | about a million |
| `svn_array` | slots are the array's components; the builder is accepted | 8 positions, 3 slots, up to 4 components | |
| `field_read` | the decoders are exact; a field has the issuer's value; both circuits agree; the host is accepted, and agrees | field of 223, comparisons of 107 values, buffer of 70, serials of 3 bytes, every field element as offset | 219 thousand |
| `validity_window` | window exact, only invalid rejected | field of 13, 4-bit dates | |
| `quote_verification` | outputs speak of one platform; revocation and numbers bite; implements `Attestation` | 2 platforms, 2 CAs, 2 families, 2 numbers of either kind, times 0 to 2 | 2.1 million |
| `noir_verification` | Noir implements `Attestation`; what is proved of genprover's has the right keys, CRLs and dates, and such a witness meets every step's demands and is accepted | the same with one QE number, 5 mutations or none | 1.4 million |

*Why these bounds are enough.* Two requests are the least that can disturb each
other, and every shared file has one writer and one reader at a time; one crash
with a repeated pid meets every leftover. Two circuit versions tell a fresh key
from a stale one. Three slots have a first, an inner and a last level; fewer
levels than slots give padding, one more is what a host clamps, none is what it
fails on; documents have nested arrays, second statuses, and level literals that
are cut or unsigned. The platform verdict 2 lies between the severities of the
QE levels, so either side of the merge may win. In the scan every
layout of eight bytes is taken, with literals that overlap the signed end. In
`CrlScan` eight bytes are the least that hold two dates behind a header of two,
so that the offset can be the bound; the field is the least prime above the
values of a window. In `FieldRead` the
comparisons have more values than a read can reach from a place in the buffer
and the field is the first prime above twice their number, as the code's are, so that every way to
wrap is met; each encoding is taken at its edges (empty, full, a digit too
many, the high bit, the last two-digit year), before, across and behind the
signed end. In
`ValidityWindow` the proof covers every size; the run takes a field that wraps
within a few steps. In `QuoteVerification` a second platform of another family,
an idle CA, a TCB recovery at time 1 and the revocation of a platform or its CA
at any time are what a substitution needs, and so do two QE numbers, of which
the prover may show the older; `noir_verification` leaves out the second QE
number, since genprover's choice of four dates multiplies the states. The second family has
no level at all for the older TCB number, so that a missing verdict occurs, and
the date of `expired-cert` is past the leaf's last and not past the
intermediate's, as `genprover.go:197-200` has it. What the parameters bound beyond
this is named `bound` where it is declared.

*The violated run.* `main.rs:16-17` says that requests are serialized. The lock
orders tasks of one process. `run` neither kills its children nor puts them in
a group, so outside a container a tool of a killed service may write
`dcap_full.gz` beside a request of the next one. In the image it cannot.

*Fairness.* `server_service` assumes weak fairness of each task's next step
(the runtime schedules ready tasks, and a started tool ends), a fair lock
(tokio's is first come, first served). It assumes nothing of clients, of
tools' success, of start-up or of the process's life. `Served` excuses
a client that leaves and a service that dies. Building a witness
and solving a circuit are one sequential computation, with weak fairness of
its next step: `tcb_levels` and `qe_levels` run gnark's pair of host and circuit
and Noir's side by side (`SideSpec`, `FairBothSpec`), never mixed, and
`HonestAccepted` and `HonestQeAccepted` are about either pair.

*Deadlock* is not checked: computations end, and rejected witnesses stop.

## 4. Proofs

Every theorem holds for all values of the constants that satisfy the module's
`ASSUME`s.

**ProveServerProofs.** `TypeCorrect` and `DirectoriesUndisturbed` hold
without assumptions on the tools' life; `FreshKeyAlways`, `OwnProofAlways`,
`SerializedAlways` and `Refinement` assume `Contained`. `IInv` adds to the types: which tasks
hold what in memory, that tasks exist only while it serves (`RunInv`), that a
task past the lock is the head of the queue (`LockInv`), that names of
directories in use are distinct and below the counter (`DirInv`), and that live
orphans have another pid (`OrphanInv`). `CInv` is what holds in addition when
there are no orphans: the key of a serving process is of its circuit, or the
circuit is of sources newer than the key (`KeyInv`), and the shared files hold
the inputs of the task past the step that wrote them (`ContentInv`), which
`OwnProof` needs. `KeyMatchesInImage` adds what an image guarantees
(`CircuitFollowsSources`): if no redeployment keeps a circuit of older sources,
then a readable circuit is of the current sources (`SourceInv`) and the key of a
serving process is exactly its. `Refinement`: the server implements
`ProofService` when `Contained`. The decision of a request is mapped to `Serve`
at the step that releases the lock, a crash to `Outage`, new sources to `Deploy`,
everything else stutters.

**TcbLevelsProofs.** `TypeCorrect`, `EveryLevelAlwaysBound`,
`VerdictAlwaysCanonical`, for any number of slots and any documents. The
argument: the slots' starts increase (`StartsIncrease`) and are anchors, so
if their number is that of all anchors, slot i is level i (`Alignment`); then
the first status behind slot i and before slot i+1 is level i's (`OnlyItsOwn`).
`IInv` carries the prefix of bound levels and the unsatisfied ones before the
chosen. The second half is about Noir. `NoirImplementsGnark`: every step of
Noir's circuit and of genprover is one of gnark's module; `NoirBindsEveryLevel`
and `NoirVerdictCanonical` follow. The argument has two turns. Equal prefix
counts at a level's start and at a signed status mean that no status lies
between, signed or not, because what lies before a signed literal is signed. And
genprover, which clamps first, writes hints exactly where the gnark builder
does, because the levels behind the last array literal are all of them or none.
`GnarkImplementsNoir` is the converse: with the right count claimed, a witness
gnark accepts is accepted by Noir, so the rewriting refuses nothing.

**QeLevelsProofs.** `QeLevelsAlwaysBound`, `VerdictAlwaysMerged` for gnark and
`NoirQeLevelsBound`, `NoirVerdictMerged` for the two circuits side by side, each
with an arbitrary prover or with its host, for any number of slots and any
documents. Here slot 0 is not pinned and padding slots are free, so the argument
is not that of the platform levels. Every slot, padding or not, starts at some
level (`Anchored`), and an active slot holds that level's threshold and status,
because the level's status is the first behind its start (`Whole`, `OwnStatus`).
Which level it is nobody knows while slots are bound; the invariant only says
that the active slots are a prefix (`Prefix`) and that between two of them lie at
least as many levels as slots (`Gapped`). When the count of active slots is that
of the signed literals, slot k is level k (`Alignment`), and only then is the
claim compared. So it does no harm that gnark uses the claim before
(`tcbextract.go:308`), nor that Noir selects before it counts: its choice of a
level is one that gnark could make afterwards (`SelectAndMergeIsMatch`).
`BothImplementGnark` is the refinement: a host's build is a stutter, its hints
are slots a prover could have offered, and an oversized claim is cut.
`GnarkImplementsNoir` is the converse for an arbitrary prover.

**LiteralScanProofs.** `FlagAlwaysExact`, `PrefixAlwaysExact`,
`CountAlwaysExact`, for buffers of any length. The invariant says what flag and
counts are at each position; `CountStep` is the one fact about cardinality.

**CrlScanProofs.** `PinAlwaysExact`, for any buffer, header bound and length of
a date. `NoOverlap` is the turning point: of two UTCTimes the second cannot
start on the second byte of the first, so the position gnark leaves out cannot
hold one. `ScanAlwaysExact`, for any buffer, serial and base and any prime field
no smaller than the number of windows (`Windows <= P`; 256^20 is far below the
order of BN254): both circuits refuse exactly the serials that occur. Three
facts carry it. A fingerprint is never reduced and determines its window
(`Unreduced`, `Fingerprint`), rolling gives the next window's fingerprint
(`Rolling`), and a product in the field is zero only if a factor is (`Product`).
These are inductions over the bytes of a window. The library's induction theorems
cannot be instantiated here, so `SetInduction` derives what is needed from the
least element of a set of numbers, `Recursion` gives the equations of a
recursive function of the first m numbers, and `Climb` carries a fact up along
them.

**FieldReadProofs.** `ReadersAlwaysAgree`, for any field, buffer, documents and
bytes behind them: at every field element the two circuits accept the same
values. `GnarkBound` is the turning point: `signedLen - (o + k)`, taken in the
field and compared with a power of two, is a bound on integers, because an offset
in range of a selector or of a table's first index cannot wrap within a window.
With it the selector, the lookup table and Noir's `u32` all take the same bytes
(`Extracts`, `StatusExtracts`). The assumption `Capacity + Reach < W`,
`2 * W <= P` (buffers of a few thousand bytes, 2^32, BN254) is what it needs. A
certificate's second date has its tag because a validity of thirty bytes that
begins with a UTCTime holds another one.

`DecodersAlwaysExact` is about the decoders, for every value that an issuer can
encode. One lemma per field says what the decoder makes of the window behind its
context: `DecimalRead`, `HexRead`, `IsoRead`, `UtcRead`, `StatusRead`, `SerialRead`,
`PceRead`. A circuit's number is a recursion over the digits of a run whose end
it has to find (`DigitRun`), an issuer's numeral is made of quotients by powers of
ten; `NumeralValue` joins the two. As for the CRL, `SetInduction`, `Recursion` and
`Climb` stand in for the library's induction theorems, and `NumberBound` is the
same induction for a number nobody wrote as a numeral.

`FieldAlwaysOfIssuer` says that neither the offset nor what a prover puts behind
the signed text makes a circuit accept another value than the issuer's. A
window behind a context lies in the signed text (`SignedField`), where the first
theorem applies; a status may run past its end, but the first closing quote is
signed, and no word contains one, so what stands behind it decides nothing
(`ClosedLiteral`, `ClosedStatus`).

`HostAlwaysAccepted` and `HostAlwaysAgrees` are about the hosts. The invariant
`IInv` keeps where the offset came from: a host's is the first occurrence of the
context, so the issuer's value stands behind it, and each decoder's lemma gives
what is read there, or that nothing is (`HostReads`). What a host believes is
`HostBelief`. For the serial, the stripped and padded number is the signed one
whenever it has nineteen or twenty significant bytes (`CanonicalRead`). For the
PCE SVN, the two-byte head is not found among the nibbles of a one-byte number,
because the next SVN begins right behind it, and is found at once for a two-byte
one (`HostPceRead`).

*Arrays.* `PositionsAlwaysExact`, `ComponentsAlwaysOwn`, about `SvnArray`, for any
number of slots and components. This is the argument in `bindSvnArray`'s comment. The
invariant `Spread` says that between two bound components there are at least as
many components as slots; if there are as many components as slots, then from
the first slot and from the last one every slot has the number of its component.

**ValidityWindowProofs.** `WindowAlwaysExact`, `OnlyInvalidRejected`. The
assumption is 3 * W <= P: an invalid date must not wrap into a valid one (the
field's order is far above 3 * 2^52). The invariant says which windows were
checked and that both folds run over exactly those.

**QuoteVerificationProofs.** `AlwaysAuthentic`, `VerdictAlwaysOfPlatform`,
`RevocationAlwaysBites`, `NumbersNeverFallAlways`, for any world: any
platforms, CAs, families, numbers, verdicts and periods. The prover's choice is
open at every step, so the argument is about documents. The first lemmas say
what a signature and a field together imply: what the root signs and bears a
key is an intermediate or the TCB-Signing certificate (`RootSigns`), what such
a certificate signs and bears a key is a leaf (`IssuerSigns`), what it signs
and has a family is TCB-Info, what has a policy a QE-Identity
(`CollateralSigned`), and so on. Each conjunct of `IInv` is what one step adds.
The turning point is `Bound`: the policy, which step 6 compares before anything
ties it to Intel, is bound by `BindTcbData`, so only then is the report one of
Intel's enclave, the attestation key its own and the quote genuine. For
`RevocationBites` the window's end is at most each CRL's, by the least-element
principle on the naturals (`EarliestFacts`).

`CircuitKeepsPromise` is the refinement of `Attestation`, for any world. Its
invariant adds `TimesInv`: no document in the witness was signed in advance
(`KnownPast`), and from the last step on the window is inside that of every
document (`LatestFacts`, `EarliestFacts`), so that it began after the TCB-Info's
number was introduced and is at most a period long. `OutputsHonest` collects from
the other theorems' invariants that the outputs of a proof are true;
`StepKeepsPromise` maps the last step to `Prove`, `Restart` to `Withdraw`, the
consumer and the clock to themselves, and every other step to a stutter.

*Noir.* `NoirInvariance`, `NoirKeepsPromise` and `ForgeryAlwaysRefused`. The lemmas
on documents (`RootSigns` to `EarliestFacts`, `Linked`, `WindowFolds`) are shared.
`NoirInv` has one conjunct for each step of `main`, each saying what the step has
established and, by `Tied`, that the part it took is the generator's if a
generator wrote the witness (`HostInv` says what that is). The times are part of
it, since Noir compares the timestamp with the certificates before it publishes
anything. At `bind_tcb_levels` the documents are linked to one platform
(`NoirLinked`), which gives `Attestation` as for gnark. `ForgeryRefused` needs no case for each mutation; it
collects what the steps have established of the parts that are the generator's:
the root is the pinned one, the key is the committed one (`NoirLinked`), the PCK
CRL is not the leaf, which has no list of serials, and the timestamp was compared
with every window.

`HonestAlwaysMeetsDemands` is the other direction: genprover's witness meets what
every step demands, whichever step is next. `HonestParts` reads from `HostInv` that
its documents are one platform's. Most steps need no more (`HonestMeetsOthers`);
the levels need that the published verdicts are the ones the witness was chosen
for (`HonestMeetsLevels`), and the last step that no CRL was issued after a
revocation and that the common window is not empty, which follows from the
timestamp being inside each (`WindowFolds`, in `HonestMeetsRevocation`).
That a step accepts what meets its demands (`StepsAccept`) is about ENABLED and
stays with the run.

The theorems assume of the world what `WorldAssumption` and the constructors of
documents say: Intel's CRLs list what is revoked when they are issued, a CA's
CRL and leaves are signed with one key, keys do not leak.

*Assumptions.* Beside types, `IssuerAssumption` says how a value is encoded
wherever the context of its field occurs in a document, `WorldAssumption` says
that Revoked is the greatest severity (as in `circuit/types.go:70-76`),
`MutationAssumption` which mutations there are, `FieldAssumption` that the scan's
field has no divisors of zero and is not smaller than the number of windows.

*Out of the prover's reach*: liveness (`Served`, `HonestAccepted`,
`HonestQeAccepted`, `BuilderAccepted`) and `StepsAccept`, which asks whether a step
is enabled; these stay with TLC. Every other property of a passing run is stated
by a theorem. What only the run shows of `FieldRead` is that documents with these
encodings exist, at their edges and across the signed end.

## 5. Not modelled

Hashing, curve arithmetic, proof systems and lookups are the libraries'.
Parsing of quotes, certificates and JSON by the builder is I/O before the
witness exists: `quote.go` cuts bytes at fixed places, `types.go` and the PEM and
X.509 readers leave the work to Go's libraries. The packing of outputs into field
elements (`pack_be` and its like in `parse.nr`) and the generators of bench
circuits are left out too. `copyU8` cuts a source that is too long; the signature then
fails. The host client sends `pre_verified_json` where the server's request has
`collateral_json`, so its requests would be answered 400; it is written for the
gnark server its comments name. Temporary directories of failed requests are
never removed: the model keeps them, and shows that they harm nothing.

## 6. Plan

Done in this order: the server, the platform levels, the QE levels, the scans,
the window, the composition, the CRL, the component arrays, Noir's levels, the
reads and parsers, the promise (`Attestation`) with its proof for gnark, the
whole Noir circuit with its generator; then the proofs for the QE levels of both
circuits, for Noir's `Attestation`, its forgeries and its own witness, for the
CRL's product and for the field reads, their decoders and their hosts. Next:

1. Key pipeline: an interrupted keygen and what verify accepts afterwards.
