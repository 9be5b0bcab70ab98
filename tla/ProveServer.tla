------------------------------ MODULE ProveServer ------------------------------
(***************************************************************************)
(* The Noir/Barretenberg proving service, noir-prove-server/src/main.rs.   *)
(*                                                                         *)
(* One asynchronous task per connection reads a request, copies its quote  *)
(* and collateral into a directory of its own, waits for a fair lock, and  *)
(* then runs three external programs over files every request shares:      *)
(* genprover (whose output is written to Prover.toml), `nargo execute`     *)
(* (Prover.toml to the witness archive) and `bb prove` (circuit, witness   *)
(* and key to a proof in the request's directory).  At start the service   *)
(* compiles the circuit if there is none and always derives a new key;     *)
(* `nargo execute` compiles too, and never touches the key.                *)
(*                                                                         *)
(* An input is named by the request it belongs to; a file holds the name   *)
(* of what it was made from, None (no such file) or Garbage (the remains   *)
(* of a write that did not complete).  The process may die at any step,    *)
(* and files outlive it.                                                   *)
(***************************************************************************)
EXTENDS Naturals, Sequences, FiniteSets

CONSTANTS Reqs,         \* connections, each used for one request
          Pids,         \* process ids the service can be given
          MaxVersion,   \* bound: versions of the circuit's sources
          MaxCrashes,   \* bound: deaths of the serving process
          Contained,    \* the tools die with the service (it is a container's
                        \* first process); otherwise they outlive it
          None, Garbage

ASSUME ServerAssumption ==
  /\ MaxVersion \in Nat \ {0}
  /\ MaxCrashes \in Nat
  /\ Contained \in BOOLEAN
  /\ None # Garbage /\ {None, Garbage} \cap (Reqs \cup 1..MaxVersion) = {}

VARIABLES
  srv,       \* "down", a step of prepare(), or "serving"
  pid, ctr,  \* process id and tempdir()'s counter
  source,    \* version of the circuit's sources in the workspace
  json,      \* target/dcap_full.json: the version it was compiled from
  vkOut, vk, \* target/vk and target/dcap_full.vk: the version they belong to
  toml, gz,  \* crates/dcap/Prover.toml and target/dcap_full.gz: whose inputs
  tmp,       \* the request directories that exist, with their files
  queue,     \* requests at the lock, its holder first
  pc, kind, dir,
  mem,       \* what the request's task, or the tool it runs, holds in memory
  out, resp, \* the response chosen, and the one the client got
  gone,      \* the client hung up
  orphans,   \* tools still running for a service that died
  crashes

disk == <<source, json, vkOut, vk>>
proc == <<srv, pid, crashes>>
vars == <<srv, pid, ctr, source, json, vkOut, vk, toml, gz, tmp, queue, pc,
          kind, dir, mem, out, resp, gone, orphans, crashes>>

Versions == 1..MaxVersion
Own(r) == [quote |-> r, coll |-> r, ts |-> r]
Inputs == [quote : Reqs, coll : Reqs, ts : Reqs]
Proofs == [input : Inputs, circuit : Versions, key : Versions]
Lost == {None, Garbage}

(* cutHead: end of file before the headers; badBody: a body that does not   *)
(* parse (cut short, no Content-Length, no such field, not hexadecimal).    *)
Kinds == {"cutHead", "otherPath", "badBody", "prove"}

Reading == {"head", "body"}
Private == {"quote", "coll", "lock"}
Locked == {"gen", "toml", "nargo", "witness", "bb", "prove", "read"}
Working == Private \cup {"mktmp", "wait"} \cup Locked
InFlight == Reading \cup Working \cup {"reply"}
Labels == InFlight \cup {"idle", "closed"}

Answers == [code : {200, 400, 404, 500}, proof : Proofs \cup Lost]

ASSUME NoneAssumption == None \notin (Pids \X Nat) \cup Answers

EmptyDir == [quote |-> None, coll |-> None, proof |-> None]
Success(p) == [code |-> 200, proof |-> p]
Failure(c) == [code |-> c, proof |-> None]

Init == /\ srv = "down" /\ pid \in Pids /\ ctr = 0 /\ crashes = 0
        /\ source = 1 /\ json \in {None, 1} /\ vkOut = None /\ vk = json
        /\ toml = None /\ gz = None /\ tmp = [d \in {} |-> EmptyDir]
        /\ queue = <<>> /\ orphans = {}
        /\ pc = [r \in Reqs |-> "idle"]
        /\ kind \in [Reqs -> Kinds]
        /\ dir = [r \in Reqs |-> None] /\ mem = [r \in Reqs |-> None]
        /\ out = [r \in Reqs |-> None] /\ resp = [r \in Reqs |-> None]
        /\ gone = [r \in Reqs |-> FALSE]

--------------------------------------------------------------------------------
(* Starting up: prepare(), then the socket.  A failed step panics.  The     *)
(* kernel does not reuse a process id while a process of its group lives.   *)

Restart == /\ srv = "down"
           /\ pid' \in Pids \ {o.to[1] : o \in {x \in orphans : x.to # None}}
           /\ ctr' = 0
           /\ srv' = IF json = None THEN "compile" ELSE "writevk"
           /\ UNCHANGED <<crashes, disk, toml, gz, tmp, queue, pc, kind, dir,
                          mem, out, resp, gone, orphans>>

Rest == <<pid, ctr, source, toml, gz, tmp, queue, pc, kind, dir, mem, out, resp,
          gone, orphans, crashes>>

(* The circuit on disk after a nargo that did not end well: not yet written, *)
(* written whole from the sources, or half written.                         *)
Rebuilt == {json, source, Garbage}

Compile == /\ srv = "compile"
           /\ \/ json' = source /\ srv' = "writevk"
              \/ json' \in Rebuilt /\ srv' = "down"
           /\ UNCHANGED <<vkOut, vk, Rest>>

(* Variant: a key that exists is kept.                                      *)
WriteVkIfMissing ==
  /\ srv = "writevk"
  /\ \/ vk = None /\ json \in Versions /\ vkOut' = json /\ srv' = "rename"
     \/ vk # None /\ vkOut' = vkOut /\ srv' = "serving"
     \/ vkOut' \in {vkOut, Garbage} /\ srv' = "down"
  /\ UNCHANGED <<json, vk, Rest>>

(* Variant: the exit status of bb is ignored.                               *)
WriteVkUnchecked == /\ srv = "writevk" /\ srv' = "rename"
                    /\ vkOut' \in {json, Garbage}
                    /\ UNCHANGED <<json, vk, Rest>>

WriteVk == /\ srv = "writevk"
           /\ \/ json \in Versions /\ vkOut' = json /\ srv' = "rename"
              \/ vkOut' \in {vkOut, Garbage} /\ srv' = "down"
           /\ UNCHANGED <<json, vk, Rest>>

RenameVk == /\ srv = "rename"
            /\ \/ vk' = vkOut /\ vkOut' = None /\ srv' = "serving"
               \/ UNCHANGED <<vk, vkOut>> /\ srv' = "down"
            /\ UNCHANGED <<json, Rest>>

(* Between two runs the sources may change: in place, keeping the compiled  *)
(* circuit or deleting it to have it compiled again, or by a new image with *)
(* its own files.                                                           *)
Redeploy ==
  /\ srv = "down" /\ source < MaxVersion
  /\ source' = source + 1
  /\ \/ json' \in {json, None} /\ UNCHANGED <<vkOut, vk, toml, gz, tmp, orphans>>
     \/ /\ json' \in {None, source'} /\ vk' = json' /\ vkOut' = None
        /\ toml' = None /\ gz' = None /\ orphans' = {}
        /\ tmp' = [d \in {} |-> EmptyDir]
  /\ UNCHANGED <<proc, ctr, queue, pc, kind, dir, mem, out, resp, gone>>

--------------------------------------------------------------------------------
(* One connection: handle(), up to the call of prove().                     *)

Fixed == <<proc, disk, kind, orphans>>
Files == <<toml, gz, tmp>>

Goto(r, l) == pc' = [pc EXCEPT ![r] = l]

Choose(r, o) == /\ Goto(r, "reply")
                /\ out' = [out EXCEPT ![r] = o]

Connect(r) == /\ srv = "serving" /\ pc[r] = "idle"
              /\ Goto(r, "head")
              /\ UNCHANGED <<Fixed, Files, ctr, queue, dir, mem, out, resp, gone>>

ReadHead(r) == /\ pc[r] = "head"
               /\ Goto(r, IF kind[r] = "cutHead" THEN "closed" ELSE "body")
               /\ UNCHANGED <<Fixed, Files, ctr, queue, dir, mem, out, resp, gone>>

ReadBody(r) == /\ pc[r] = "body"
               /\ \/ kind[r] = "otherPath" /\ Choose(r, Failure(404))
                  \/ kind[r] = "badBody" /\ Choose(r, Failure(400))
                  \/ kind[r] = "prove" /\ Goto(r, "mktmp") /\ UNCHANGED out
               /\ UNCHANGED <<Fixed, Files, ctr, queue, dir, mem, resp, gone>>

(* The client may hang up while it waits; nobody tells the task.            *)
Leave(r) == /\ pc[r] \in Working \cup {"reply"} /\ ~gone[r]
            /\ gone' = [gone EXCEPT ![r] = TRUE]
            /\ UNCHANGED <<Fixed, Files, ctr, queue, pc, dir, mem, out, resp>>

Respond(r) == /\ pc[r] = "reply"
              /\ Goto(r, "closed")
              /\ resp' = IF gone[r] THEN resp ELSE [resp EXCEPT ![r] = out[r]]
              /\ UNCHANGED <<Fixed, Files, ctr, queue, dir, mem, out, gone>>

--------------------------------------------------------------------------------
(* prove().  Every step may fail; `?` then drops the guard if it is held    *)
(* and leaves the files, the request's directory among them, as they are.   *)

Same == <<Fixed, resp, gone>>

(* Variant: an error return keeps the lock.                                 *)
ReleaseOnSuccess(r) == queue' = IF pc[r] = "read" THEN Tail(queue) ELSE queue

Release(r) == queue' = IF pc[r] \in Locked THEN Tail(queue) ELSE queue

Advance(r, l) == Goto(r, l) /\ UNCHANGED <<queue, out>>

Abort(r) == /\ Release(r)
            /\ Choose(r, Failure(500))
            /\ mem' = [mem EXCEPT ![r] = None]

(* create_dir_all accepts a directory that exists, with what is in it.      *)
WithDir(d) == [x \in DOMAIN tmp \cup {d} |->
                 IF x \in DOMAIN tmp THEN tmp[x] ELSE EmptyDir]

(* Variant: directories named by the process alone.                         *)
TmpNameByPid == <<pid, 0>>

TmpName == <<pid, ctr>>

MakeTmp(r) == /\ pc[r] = "mktmp"
              /\ ctr' = ctr + 1
              /\ \/ /\ Advance(r, "quote")
                    /\ dir' = [dir EXCEPT ![r] = TmpName]
                    /\ tmp' = WithDir(TmpName)
                    /\ UNCHANGED mem
                 \/ Abort(r) /\ UNCHANGED <<dir, tmp>>
              /\ UNCHANGED <<Same, toml, gz>>

WriteQuote(r) ==
  /\ pc[r] = "quote"
  /\ \/ Advance(r, "coll") /\ UNCHANGED mem
        /\ tmp' = [tmp EXCEPT ![dir[r]].quote = r]
     \/ Abort(r) /\ tmp' \in {tmp, [tmp EXCEPT ![dir[r]].quote = Garbage]}
  /\ UNCHANGED <<Same, ctr, dir, toml, gz>>

WriteCollateral(r) ==
  /\ pc[r] = "coll"
  /\ \/ Advance(r, "lock") /\ UNCHANGED mem
        /\ tmp' = [tmp EXCEPT ![dir[r]].coll = r]
     \/ Abort(r) /\ tmp' \in {tmp, [tmp EXCEPT ![dir[r]].coll = Garbage]}
  /\ UNCHANGED <<Same, ctr, dir, toml, gz>>

(* tokio's Mutex: a line of waiters, the permit passed to the first.        *)
Enqueue(r) == /\ pc[r] = "lock"
              /\ Goto(r, "wait")
              /\ queue' = Append(queue, r)
              /\ UNCHANGED <<Same, ctr, dir, mem, out, Files>>

(* Variant: no lock at all.                                                 *)
AcquireAtOnce(r) == /\ pc[r] = "wait"
                    /\ Advance(r, "gen")
                    /\ UNCHANGED <<Same, ctr, dir, mem, Files>>

(* Variant: a lock that is free goes to any waiter.                         *)
AcquireInAnyOrder(r) == /\ pc[r] = "wait"
                        /\ \A q \in Reqs : pc[q] \notin Locked
                        /\ Advance(r, "gen")
                        /\ UNCHANGED <<Same, ctr, dir, mem, Files>>

Acquire(r) == /\ pc[r] = "wait" /\ queue # <<>> /\ Head(queue) = r
              /\ Advance(r, "gen")
              /\ UNCHANGED <<Same, ctr, dir, mem, Files>>

(* A tool given a missing or unreadable file reports failure.               *)
Readable(contents) == contents \cap Lost = {}

(* genprover reads the request's directory and prints the witness inputs.   *)
RunGenprover(r) ==
  LET d == tmp[dir[r]] IN
  /\ pc[r] = "gen"
  /\ \/ /\ Readable({d.quote, d.coll})
        /\ mem' = [mem EXCEPT ![r] = [quote |-> d.quote, coll |-> d.coll, ts |-> r]]
        /\ Advance(r, "toml")
     \/ Abort(r)
  /\ UNCHANGED <<Same, ctr, dir, Files>>

(* Variant: Prover.toml loses its last field, and is readable.              *)
WriteTomlTruncated(r) ==
  /\ pc[r] = "toml"
  /\ toml' = [mem[r] EXCEPT !.ts = None] /\ Advance(r, "nargo")
  /\ UNCHANGED <<Same, ctr, dir, mem, gz, tmp>>

(* Variant: a failed write of Prover.toml goes unnoticed.                   *)
WriteTomlUnchecked(r) ==
  /\ pc[r] = "toml"
  /\ toml' \in {mem[r], toml} /\ Advance(r, "nargo")
  /\ UNCHANGED <<Same, ctr, dir, mem, gz, tmp>>

WriteToml(r) ==
  /\ pc[r] = "toml"
  /\ \/ toml' = mem[r] /\ Advance(r, "nargo") /\ UNCHANGED mem
     \/ toml' \in {toml, Garbage} /\ Abort(r)
  /\ UNCHANGED <<Same, ctr, dir, gz, tmp>>

(* `nargo execute` reads the sources and Prover.toml when it starts ...     *)
StartExecute(r) ==
  /\ pc[r] = "nargo"
  /\ \/ /\ Readable({toml})
        /\ mem' = [mem EXCEPT ![r] = toml]
        /\ Advance(r, "witness")
     \/ Abort(r)
  /\ UNCHANGED <<Same, ctr, dir, Files>>

(* ... writes the circuit it compiled from the sources, whatever circuit the *)
(* key belongs to, and then the witness archive.                            *)
EndExecute(r) ==
  /\ pc[r] = "witness"
  /\ \/ json' = source /\ gz' = mem[r] /\ Advance(r, "bb") /\ UNCHANGED mem
     \/ /\ json' \in Rebuilt /\ gz' \in {gz, Garbage}
        /\ gz' # gz => json' = source
        /\ Abort(r)
  /\ UNCHANGED <<proc, source, vkOut, vk, kind, orphans, resp, gone, ctr, dir,
                 toml, tmp>>

StartProve(r) ==
  /\ pc[r] = "bb"
  /\ \/ /\ Readable({gz, json, vk})
        /\ mem' = [mem EXCEPT ![r] = [input |-> gz, circuit |-> json, key |-> vk]]
        /\ Advance(r, "prove")
     \/ Abort(r)
  /\ UNCHANGED <<Same, ctr, dir, Files>>

EndProve(r) ==
  /\ pc[r] = "prove"
  /\ \/ Advance(r, "read") /\ UNCHANGED mem
        /\ tmp' = [tmp EXCEPT ![dir[r]].proof = mem[r]]
     \/ Abort(r) /\ tmp' \in {tmp, [tmp EXCEPT ![dir[r]].proof = Garbage]}
  /\ UNCHANGED <<Same, ctr, dir, toml, gz>>

(* Reads the proof, tries to remove the directory, and returns.             *)
Finish(r) ==
  /\ pc[r] = "read"
  /\ \/ /\ tmp[dir[r]].proof # None
        /\ Choose(r, Success(tmp[dir[r]].proof))
        /\ tmp' \in {tmp, [d \in DOMAIN tmp \ {dir[r]} |-> tmp[d]]}
        /\ Release(r)
        /\ mem' = [mem EXCEPT ![r] = None]
     \/ Abort(r) /\ UNCHANGED tmp
  /\ UNCHANGED <<Same, ctr, dir, toml, gz>>

--------------------------------------------------------------------------------
(* Death of the process.  A file being written may be left half written.    *)

Torn(f, l) == {f} \cup {Garbage : r \in {q \in Reqs : pc[q] = l}}

(* Every tool is started by run(), which does not have it killed with the    *)
(* service: what it is to write, and where.                                 *)
Tool(name, to, data, circuit) ==
  [tool |-> name, to |-> to, data |-> data, circuit |-> circuit]

RunningTools ==
  (IF srv = "compile" THEN {Tool("compile", None, None, source)} ELSE {})
  \cup {Tool("writevk", None, None, v) :
          v \in IF srv = "writevk" THEN {json} \cap Versions ELSE {}}
  \cup {Tool("execute", None, mem[r], source) : r \in {q \in Reqs : pc[q] = "witness"}}
  \cup {Tool("prove", dir[r], mem[r], None) : r \in {q \in Reqs : pc[q] = "prove"}}

Compiling == srv = "compile" \/ \E r \in Reqs : pc[r] = "witness"

Crash == /\ srv # "down" /\ crashes < MaxCrashes
         /\ srv' = "down" /\ crashes' = crashes + 1
         /\ queue' = <<>>
         /\ pc' = [r \in Reqs |-> IF pc[r] \in InFlight THEN "closed" ELSE pc[r]]
         /\ mem' = [r \in Reqs |-> None]
         /\ orphans' = IF Contained THEN {} ELSE orphans \cup RunningTools
         /\ json' \in {json} \cup (IF Compiling THEN Rebuilt ELSE {})
         /\ vkOut' \in {vkOut} \cup (IF srv = "writevk" THEN {Garbage} ELSE {})
         /\ toml' \in Torn(toml, "toml") /\ gz' \in Torn(gz, "witness")
         /\ gz' # gz => json' = source
         /\ UNCHANGED <<pid, ctr, source, vk, tmp, kind, dir, out, resp, gone>>

(* An outliving tool writes nothing, or all or part of its file.            *)
OrphanEnds(o) ==
  /\ orphans' = orphans \ {o}
  /\ \/ UNCHANGED <<json, vkOut, gz, tmp>>
     \/ /\ o.tool \in {"compile", "execute"} /\ json' \in {o.circuit, Garbage}
        /\ UNCHANGED <<vkOut, gz, tmp>>
     \/ /\ o.tool = "execute" /\ json' = o.circuit /\ gz' \in {o.data, Garbage}
        /\ UNCHANGED <<vkOut, tmp>>
     \/ /\ o.tool = "writevk" /\ vkOut' \in {o.circuit, Garbage}
        /\ UNCHANGED <<json, gz, tmp>>
     \/ /\ o.tool = "prove" /\ o.to \in DOMAIN tmp
        /\ tmp' \in {[tmp EXCEPT ![o.to].proof = p] : p \in {o.data, Garbage}}
        /\ UNCHANGED <<json, vkOut, gz>>
  /\ UNCHANGED <<proc, source, vk, ctr, toml, queue, pc, kind, dir, mem, out, resp,
                 gone>>

--------------------------------------------------------------------------------
Boot == Restart \/ Compile \/ WriteVk \/ RenameVk \/ Redeploy

(* What the service does for r once the request has been read.              *)
Serve(r) == \/ MakeTmp(r) \/ WriteQuote(r) \/ WriteCollateral(r)
            \/ Enqueue(r) \/ Acquire(r) \/ RunGenprover(r) \/ WriteToml(r)
            \/ StartExecute(r) \/ EndExecute(r) \/ StartProve(r) \/ EndProve(r)
            \/ Finish(r) \/ Respond(r)

Next == \/ Boot \/ Crash
        \/ \E o \in orphans : OrphanEnds(o)
        \/ \E r \in Reqs : Connect(r) \/ ReadHead(r) \/ ReadBody(r) \/ Leave(r)
                           \/ Serve(r)

Spec == Init /\ [][Next]_vars

(* Every tool ends (nothing in the code bounds them) and the runtime polls   *)
(* every ready task.  Nothing is assumed of clients, restarts or crashes.    *)
FairSpec == Spec /\ \A r \in Reqs : WF_vars(Serve(r))

--------------------------------------------------------------------------------
Tools ==
  [tool : {"compile", "writevk"}, to : {None}, data : {None}, circuit : Versions]
    \cup [tool : {"execute"}, to : {None}, data : Inputs, circuit : Versions]
    \cup [tool : {"prove"}, to : Pids \X Nat, data : Proofs, circuit : {None}]

(* Every variable has its type.                                             *)
TypeOK ==
  /\ srv \in {"down", "compile", "writevk", "rename", "serving"}
  /\ pid \in Pids /\ ctr \in Nat /\ source \in Versions /\ crashes \in Nat
  /\ {json, vkOut, vk} \subseteq Versions \cup Lost
  /\ {toml, gz} \subseteq Inputs \cup Lost
  /\ DOMAIN tmp \subseteq Pids \X Nat
  /\ \A d \in DOMAIN tmp :
       tmp[d] \in [quote : Reqs \cup Lost, coll : Reqs \cup Lost, proof : Proofs \cup Lost]
  /\ queue \in Seq(Reqs)
  /\ pc \in [Reqs -> Labels] /\ kind \in [Reqs -> Kinds]
  /\ dir \in [Reqs -> (Pids \X Nat) \cup {None}]
  /\ mem \in [Reqs -> Inputs \cup Proofs \cup {None}]
  /\ {out, resp} \subseteq [Reqs -> Answers \cup {None}]
  /\ orphans \subseteq Tools
  /\ gone \in [Reqs -> BOOLEAN]

(* A successful response carries a proof of the quote, the collateral and   *)
(* the timestamp of the very request it answers, although requests share    *)
(* Prover.toml and the witness archive, directories of a dead process are   *)
(* reused with what is in them, and tools fail half way (prove(), 130-188). *)
OwnProof ==
  \A r \in Reqs : resp[r] # None /\ resp[r].code = 200 =>
    /\ resp[r].proof \in Proofs
    /\ resp[r].proof.input = Own(r)

(* With tools that die with the service, and whatever was on disk when it    *)
(* started: it begins to accept connections only with a whole circuit and   *)
(* the key of that very circuit (prepare(), 105-128: "a recompiled circuit  *)
(* always proves under a fresh key").  From then on the key stays, and a    *)
(* readable circuit differs from it only when the sources are newer than    *)
(* the key: those changed in place below a circuit that was kept, and       *)
(* `nargo execute` (160) compiled them.                                     *)
FreshKey ==
  [][srv' = "serving" =>
       IF srv = "serving"
       THEN vk' = vk /\ (json' \in {vk, Garbage} \/ (vk < source /\ json' = source))
       ELSE json' \in Versions /\ vk' = json']_vars

(* While a request waits or runs, nobody else changes its directory         *)
(* (tempdir(), 300-309): neither another task, nor one of an earlier        *)
(* process with the same id, nor a tool that outlived it.                   *)
DirsUndisturbed ==
  [][\A r \in Reqs :
       pc[r] \in Private \cup Locked \cup {"wait"} /\ pc'[r] = pc[r]
         => dir[r] \in DOMAIN tmp' /\ tmp'[dir[r]] = tmp[dir[r]]]_vars

(* Requests are serialized over the shared Prover.toml and witness paths:   *)
(* at most one pipeline is between taking the lock and returning, counting  *)
(* a tool that still writes the witness (main.rs 16-17, 140-142).           *)
Serialized ==
  Cardinality({r \in Reqs : pc[r] \in Locked})
    + Cardinality({o \in orphans : o.tool = "execute"}) <= 1

(* A request that was read is answered, unless its client leaves or the     *)
(* service dies: neither a client that stalls while sending, nor a failing  *)
(* tool, nor a hung-up client further up the line keeps the lock for ever.  *)
Served ==
  \A r \in Reqs : pc[r] = "mktmp" ~> (resp[r] # None \/ gone[r] \/ srv = "down")

(* Refinement: the tools, the files and the directories are invisible; the  *)
(* service proves requests one at a time, in the order they reached the     *)
(* lock, each at the instant it gives the lock back.                        *)
PhaseAt(l, answer) ==
  IF l = "idle" THEN "new"
  ELSE IF l \in Reading \cup Private \cup {"mktmp"} THEN "open"
  ELSE IF l \in Locked \cup {"wait"} THEN "queued"
  ELSE IF l = "reply" THEN "decided"
  ELSE IF answer = None THEN "dropped" ELSE "answered"

PhaseFn == [r \in Reqs |-> PhaseAt(pc[r], resp[r])]

Service == INSTANCE ProofService WITH
             phase <- PhaseFn, line <- queue, decided <- out, answer <- resp,
             sources <- source

RefinesService == Service!Spec
================================================================================
