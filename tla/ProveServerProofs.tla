------------------------------- MODULE ProveServerProofs -------------------------------
(***************************************************************************)
(* Proofs about ProveServer, for every set of requests and process ids and *)
(* every number of versions and crashes.  IInv is inductive whether or not *)
(* the tools die with the service; CInv is inductive relative to it when   *)
(* they do.  A lemma per conjunct shows that every action preserves it.    *)
(*                                                                         *)
(* The last part maps every step of the pipeline over shared files to a    *)
(* step of ProofService's atomic prover, or to a stutter.                  *)
(***************************************************************************)
EXTENDS ProveServer, TLAPS, FiniteSetTheorems

--------------------------------------------------------------------------------
(* The conjuncts of TypeOK.                                                 *)

ControlOK == /\ srv \in {"down", "compile", "writevk", "rename", "serving"}
             /\ pid \in Pids /\ ctr \in Nat /\ source \in Versions /\ crashes \in Nat
             /\ {json, vkOut, vk} \subseteq Versions \cup Lost
LineOK == /\ queue \in Seq(Reqs) /\ pc \in [Reqs -> Labels]
          /\ kind \in [Reqs -> Kinds] /\ gone \in [Reqs -> BOOLEAN]
SharedOK == {toml, gz} \subseteq Inputs \cup Lost
TmpOK == /\ DOMAIN tmp \subseteq Pids \X Nat
         /\ \A d \in DOMAIN tmp :
              tmp[d] \in [quote : Reqs \cup Lost, coll : Reqs \cup Lost, proof : Proofs \cup Lost]
HeldOK == /\ dir \in [Reqs -> (Pids \X Nat) \cup {None}]
          /\ mem \in [Reqs -> Inputs \cup Proofs \cup {None}]
AnswersOK == {out, resp} \subseteq [Reqs -> Answers \cup {None}]
OrphansOK == orphans \subseteq Tools

LEMMA TypeParts ==
  /\ TypeOK => ControlOK /\ LineOK /\ SharedOK /\ TmpOK /\ HeldOK /\ AnswersOK /\ OrphansOK
  /\ (ControlOK /\ LineOK /\ SharedOK /\ TmpOK /\ HeldOK /\ AnswersOK /\ OrphansOK)' => TypeOK'
  BY DEF TypeOK, ControlOK, LineOK, SharedOK, TmpOK, HeldOK, AnswersOK, OrphansOK

--------------------------------------------------------------------------------
(* The inductive invariants.                                                *)

HasDir == Private \cup Locked \cup {"wait"}

OwnProofs(r) == {p \in Proofs : p.input = Own(r)}
(* ... made while the sources have version s.                               *)
Good(r, s) == {p \in OwnProofs(r) : p.circuit = p.key \/ (p.key < s /\ p.circuit = s)}
Chosen(r) == {Success(p) : p \in OwnProofs(r)} \cup {Failure(c) : c \in {400, 404, 500}}

(* What a task or its tool holds in memory at the steps that use it.        *)
MemInv == \A r \in Reqs : /\ pc[r] \in {"toml", "witness"} => mem[r] \in Inputs
                          /\ pc[r] = "prove" => mem[r] \in Proofs

(* Requests are in flight only while the process lives.                     *)
RunInv == \A r \in Reqs : pc[r] \in InFlight => srv = "serving"

(* Whoever is past the lock is the first in line.                           *)
LockInv == \A r \in Reqs : pc[r] \in Locked => queue # <<>> /\ Head(queue) = r

(* A waiting or running request has a directory of this process, numbered   *)
(* below the counter, that exists and that it shares with no other request. *)
DirInv ==
  /\ \A r \in Reqs : pc[r] \in HasDir =>
       /\ dir[r] \in DOMAIN tmp
       /\ \E n \in 0..(ctr - 1) : dir[r] = <<pid, n>>
  /\ \A r, q \in Reqs : pc[r] \in HasDir /\ pc[q] \in HasDir /\ r # q => dir[r] # dir[q]

(* A tool that outlived its service belongs to a process with another id.   *)
OrphanInv == srv # "down" => \A o \in orphans : o.to # None => o.to[1] # pid

IInv == TypeOK /\ MemInv /\ RunInv /\ LockInv /\ DirInv /\ OrphanInv

(* The files a request's next tool reads hold that request's own inputs.    *)
ContentInv == \A r \in Reqs :
  /\ pc[r] \in {"coll", "lock", "wait", "gen"} => tmp[dir[r]].quote = r
  /\ pc[r] \in {"lock", "wait", "gen"} => tmp[dir[r]].coll = r
  /\ pc[r] \in {"toml", "witness"} => mem[r] = Own(r)
  /\ pc[r] = "nargo" => toml = Own(r)
  /\ pc[r] = "bb" => gz = Own(r)
  /\ pc[r] = "prove" => mem[r] \in Good(r, source)
  /\ pc[r] = "read" => tmp[dir[r]].proof \in Good(r, source)

AnswerInv == \A r \in Reqs :
  /\ pc[r] = "reply" => out[r] \in Chosen(r)
  /\ resp[r] \in Chosen(r) \cup {None}
  /\ pc[r] # "closed" => resp[r] = None

(* The circuit's files along the steps of prepare() and while it serves: no  *)
(* file is newer than the sources, and only a key that is older than they   *)
(* are may stand beside another circuit than its own.                       *)
KeyInv ==
  /\ json \in Versions => json <= source
  /\ srv = "rename" => json \in Versions /\ vkOut = json
  /\ srv = "serving" => /\ vk \in Versions /\ vk <= source
                        /\ json \in {vk, Garbage} \/ (vk < source /\ json = source)

CInv == orphans = {} /\ KeyInv /\ ContentInv /\ AnswerInv

Undisturbed ==
  \A r \in Reqs : pc[r] \in HasDir /\ pc'[r] = pc[r]
                    => dir[r] \in DOMAIN tmp' /\ tmp'[dir[r]] = tmp[dir[r]]

--------------------------------------------------------------------------------
(* The names of no file and of a torn file differ from every other name.    *)
LEMMA LostNames ==
  ASSUME ServerAssumption PROVE /\ None # Garbage
                                /\ \A x \in Reqs \cup Versions : x \notin Lost
  BY DEF ServerAssumption, Lost, Versions

(* What Failure and Success build is a response.                            *)
LEMMA ResponsesTyped ==
  /\ \A c \in {400, 404, 500} : Failure(c) \in Answers
  /\ \A p \in Proofs \cup Lost : Success(p) \in Answers
  BY DEF Failure, Success, Answers, Lost

LEMMA ChosenFacts ==
  ASSUME NEW r \in Reqs
  PROVE /\ \A c \in {400, 404, 500} : Failure(c) \in Chosen(r)
        /\ \A p \in OwnProofs(r) : Success(p) \in Chosen(r)
  BY DEF Chosen

--------------------------------------------------------------------------------

(* Types of the process, the counter and the circuit's files. *)
LEMMA ControlOKStep ==
  ASSUME ServerAssumption, ControlOK, OrphansOK, [Next]_vars PROVE ControlOK'
<1> USE DEF Fixed, Files, Same, proc, disk, Rest, Goto, Choose, Advance, Abort,
      Release, Failure, Success, Labels, InFlight, Working, Reading, Private,
      Locked, ServerAssumption, ControlOK, Rebuilt, Readable, Lost
<1>1. CASE Restart  BY <1>1 DEF Restart
<1>2. CASE Compile  BY <1>2 DEF Compile
<1>3. CASE WriteVk  BY <1>3 DEF WriteVk
<1>4. CASE RenameVk  BY <1>4 DEF RenameVk
<1>5. CASE Redeploy
  <2>1. source' \in Versions
    BY <1>5 DEF Redeploy, Versions
  <2> QED BY <1>5, <2>1 DEF Redeploy
<1>6. CASE Crash  BY <1>6 DEF Crash
<1>7. CASE \E o \in orphans : OrphanEnds(o)
  <2>1. PICK o \in orphans : OrphanEnds(o)
    BY <1>7
  <2>2. o.tool \in {"compile", "writevk", "execute"} => o.circuit \in Versions
    BY DEF OrphansOK, Tools
  <2> QED BY <2>1, <2>2 DEF OrphanEnds
<1>8. CASE UNCHANGED vars  BY <1>8 DEF vars
<1>9. ASSUME NEW r \in Reqs, Connect(r) \/ ReadHead(r) \/ ReadBody(r) \/ Leave(r) \/ Serve(r)
      PROVE ControlOK'
  <2>1. CASE Connect(r)  BY <2>1 DEF Connect
  <2>2. CASE ReadHead(r)  BY <2>2 DEF ReadHead
  <2>3. CASE ReadBody(r)  BY <2>3 DEF ReadBody
  <2>4. CASE Leave(r)  BY <2>4 DEF Leave
  <2>5. CASE MakeTmp(r)  BY <2>5 DEF MakeTmp
  <2>6. CASE WriteQuote(r)  BY <2>6 DEF WriteQuote
  <2>7. CASE WriteCollateral(r)  BY <2>7 DEF WriteCollateral
  <2>8. CASE Enqueue(r)  BY <2>8 DEF Enqueue
  <2>9. CASE Acquire(r)  BY <2>9 DEF Acquire
  <2>10. CASE RunGenprover(r)  BY <2>10 DEF RunGenprover
  <2>11. CASE WriteToml(r)  BY <2>11 DEF WriteToml
  <2>12. CASE StartExecute(r)  BY <2>12 DEF StartExecute
  <2>13. CASE EndExecute(r)  BY <2>13 DEF EndExecute
  <2>14. CASE StartProve(r)  BY <2>14 DEF StartProve
  <2>15. CASE EndProve(r)  BY <2>15 DEF EndProve
  <2>16. CASE Finish(r)  BY <2>16 DEF Finish
  <2>17. CASE Respond(r)  BY <2>17 DEF Respond
  <2> QED BY <1>9, <2>1, <2>2, <2>3, <2>4, <2>5, <2>6, <2>7, <2>8, <2>9, <2>10,
      <2>11, <2>12, <2>13, <2>14, <2>15, <2>16, <2>17 DEF Serve
<1> QED BY <1>1, <1>2, <1>3, <1>4, <1>5, <1>6, <1>7, <1>8, <1>9 DEF Next, Boot


(* Types of the line at the lock and of each task's control state. *)
LEMMA LineOKStep ==
  ASSUME LineOK, LockInv, [Next]_vars PROVE LineOK'
<1> USE DEF Fixed, Files, Same, proc, disk, Rest, Goto, Choose, Advance, Abort,
      Release, Failure, Success, Labels, InFlight, Working, Reading, Private,
      Locked, LineOK, LockInv, Readable, Lost
<1>1. CASE Restart  BY <1>1 DEF Restart
<1>2. CASE Compile  BY <1>2 DEF Compile
<1>3. CASE WriteVk  BY <1>3 DEF WriteVk
<1>4. CASE RenameVk  BY <1>4 DEF RenameVk
<1>5. CASE Redeploy  BY <1>5 DEF Redeploy
<1>6. CASE Crash
  <2>1. queue' \in Seq(Reqs)
    BY <1>6 DEF Crash
  <2>2. \A q \in Reqs : (IF pc[q] \in InFlight THEN "closed" ELSE pc[q]) \in Labels
    OBVIOUS
  <2>3. pc' \in [Reqs -> Labels]
    <3> USE DEF LineOK
    <3> QED BY <1>6, <2>2 DEF Crash
  <2> QED BY <1>6, <2>1, <2>3 DEF Crash
<1>7. CASE \E o \in orphans : OrphanEnds(o)  BY <1>7 DEF OrphanEnds
<1>8. CASE UNCHANGED vars  BY <1>8 DEF vars
<1>9. ASSUME NEW r \in Reqs, Connect(r) \/ ReadHead(r) \/ ReadBody(r) \/ Leave(r) \/ Serve(r)
      PROVE LineOK'
  <2>1. CASE Connect(r)  BY <2>1 DEF Connect
  <2>2. CASE ReadHead(r)  BY <2>2 DEF ReadHead
  <2>3. CASE ReadBody(r)  BY <2>3 DEF ReadBody
  <2>4. CASE Leave(r)  BY <2>4 DEF Leave
  <2>5. CASE MakeTmp(r)  BY <2>5 DEF MakeTmp
  <2>6. CASE WriteQuote(r)  BY <2>6 DEF WriteQuote
  <2>7. CASE WriteCollateral(r)  BY <2>7 DEF WriteCollateral
  <2>8. CASE Enqueue(r)  BY <2>8 DEF Enqueue
  <2>9. CASE Acquire(r)  BY <2>9 DEF Acquire
  <2>10. CASE RunGenprover(r)
    <3>1. queue \in Seq(Reqs) /\ queue # <<>> /\ queue' \in {queue, Tail(queue)}
      BY <2>10 DEF RunGenprover
    <3>2. queue' \in Seq(Reqs)
      BY <3>1
    <3>3. pc' = [pc EXCEPT ![r] = "toml"] \/ pc' = [pc EXCEPT ![r] = "reply"]
      BY <2>10 DEF RunGenprover
    <3> QED BY <2>10, <3>2, <3>3 DEF RunGenprover
  <2>11. CASE WriteToml(r)
    <3>1. queue \in Seq(Reqs) /\ queue # <<>> /\ queue' \in {queue, Tail(queue)}
      BY <2>11 DEF WriteToml
    <3>2. queue' \in Seq(Reqs)
      BY <3>1
    <3>3. pc' = [pc EXCEPT ![r] = "nargo"] \/ pc' = [pc EXCEPT ![r] = "reply"]
      BY <2>11 DEF WriteToml
    <3> QED BY <2>11, <3>2, <3>3 DEF WriteToml
  <2>12. CASE StartExecute(r)
    <3>1. queue \in Seq(Reqs) /\ queue # <<>> /\ queue' \in {queue, Tail(queue)}
      BY <2>12 DEF StartExecute
    <3>2. queue' \in Seq(Reqs)
      BY <3>1
    <3>3. pc' = [pc EXCEPT ![r] = "witness"] \/ pc' = [pc EXCEPT ![r] = "reply"]
      BY <2>12 DEF StartExecute
    <3> QED BY <2>12, <3>2, <3>3 DEF StartExecute
  <2>13. CASE EndExecute(r)
    <3>1. queue \in Seq(Reqs) /\ queue # <<>> /\ queue' \in {queue, Tail(queue)}
      BY <2>13 DEF EndExecute
    <3>2. queue' \in Seq(Reqs)
      BY <3>1
    <3>3. pc' = [pc EXCEPT ![r] = "bb"] \/ pc' = [pc EXCEPT ![r] = "reply"]
      BY <2>13 DEF EndExecute
    <3> QED BY <2>13, <3>2, <3>3 DEF EndExecute
  <2>14. CASE StartProve(r)
    <3>1. queue \in Seq(Reqs) /\ queue # <<>> /\ queue' \in {queue, Tail(queue)}
      BY <2>14 DEF StartProve
    <3>2. queue' \in Seq(Reqs)
      BY <3>1
    <3>3. pc' = [pc EXCEPT ![r] = "prove"] \/ pc' = [pc EXCEPT ![r] = "reply"]
      BY <2>14 DEF StartProve
    <3> QED BY <2>14, <3>2, <3>3 DEF StartProve
  <2>15. CASE EndProve(r)
    <3>1. queue \in Seq(Reqs) /\ queue # <<>> /\ queue' \in {queue, Tail(queue)}
      BY <2>15 DEF EndProve
    <3>2. queue' \in Seq(Reqs)
      BY <3>1
    <3>3. pc' = [pc EXCEPT ![r] = "read"] \/ pc' = [pc EXCEPT ![r] = "reply"]
      BY <2>15 DEF EndProve
    <3> QED BY <2>15, <3>2, <3>3 DEF EndProve
  <2>16. CASE Finish(r)
    <3>1. queue \in Seq(Reqs) /\ queue # <<>> /\ queue' \in {queue, Tail(queue)}
      BY <2>16 DEF Finish
    <3>2. queue' \in Seq(Reqs)
      BY <3>1
    <3>3. pc' = [pc EXCEPT ![r] = "reply"] \/ pc' = [pc EXCEPT ![r] = "reply"]
      BY <2>16 DEF Finish
    <3> QED BY <2>16, <3>2, <3>3 DEF Finish
  <2>17. CASE Respond(r)  BY <2>17 DEF Respond
  <2> QED BY <1>9, <2>1, <2>2, <2>3, <2>4, <2>5, <2>6, <2>7, <2>8, <2>9, <2>10,
      <2>11, <2>12, <2>13, <2>14, <2>15, <2>16, <2>17 DEF Serve
<1> QED BY <1>1, <1>2, <1>3, <1>4, <1>5, <1>6, <1>7, <1>8, <1>9 DEF Next, Boot


(* Types of the two shared files. *)
LEMMA SharedOKStep ==
  ASSUME NoneAssumption, SharedOK, MemInv, OrphansOK, [Next]_vars PROVE SharedOK'
<1> USE DEF Fixed, Files, Same, proc, disk, Rest, Goto, Choose, Advance, Abort,
      Release, Failure, Success, Labels, InFlight, Working, Reading, Private,
      Locked, NoneAssumption, SharedOK, MemInv, OrphansOK, Readable, Lost
<1>1. CASE Restart  BY <1>1 DEF Restart
<1>2. CASE Compile  BY <1>2 DEF Compile
<1>3. CASE WriteVk  BY <1>3 DEF WriteVk
<1>4. CASE RenameVk  BY <1>4 DEF RenameVk
<1>5. CASE Redeploy  BY <1>5 DEF Redeploy
<1>6. CASE Crash
  BY <1>6 DEF Crash, Torn
<1>7. CASE \E o \in orphans : OrphanEnds(o)
  <2>1. PICK o \in orphans : OrphanEnds(o)
    BY <1>7
  <2>2. o.tool = "execute" => o.data \in Inputs
    BY DEF Tools
  <2> QED BY <2>1, <2>2 DEF OrphanEnds
<1>8. CASE UNCHANGED vars  BY <1>8 DEF vars
<1>9. ASSUME NEW r \in Reqs, Connect(r) \/ ReadHead(r) \/ ReadBody(r) \/ Leave(r) \/ Serve(r)
      PROVE SharedOK'
  <2>1. CASE Connect(r)  BY <2>1 DEF Connect
  <2>2. CASE ReadHead(r)  BY <2>2 DEF ReadHead
  <2>3. CASE ReadBody(r)  BY <2>3 DEF ReadBody
  <2>4. CASE Leave(r)  BY <2>4 DEF Leave
  <2>5. CASE MakeTmp(r)  BY <2>5 DEF MakeTmp
  <2>6. CASE WriteQuote(r)  BY <2>6 DEF WriteQuote
  <2>7. CASE WriteCollateral(r)  BY <2>7 DEF WriteCollateral
  <2>8. CASE Enqueue(r)  BY <2>8 DEF Enqueue
  <2>9. CASE Acquire(r)  BY <2>9 DEF Acquire
  <2>10. CASE RunGenprover(r)  BY <2>10 DEF RunGenprover
  <2>11. CASE WriteToml(r)  BY <2>11 DEF WriteToml
  <2>12. CASE StartExecute(r)  BY <2>12 DEF StartExecute
  <2>13. CASE EndExecute(r)  BY <2>13 DEF EndExecute
  <2>14. CASE StartProve(r)  BY <2>14 DEF StartProve
  <2>15. CASE EndProve(r)  BY <2>15 DEF EndProve
  <2>16. CASE Finish(r)  BY <2>16 DEF Finish
  <2>17. CASE Respond(r)  BY <2>17 DEF Respond
  <2> QED BY <1>9, <2>1, <2>2, <2>3, <2>4, <2>5, <2>6, <2>7, <2>8, <2>9, <2>10,
      <2>11, <2>12, <2>13, <2>14, <2>15, <2>16, <2>17 DEF Serve
<1> QED BY <1>1, <1>2, <1>3, <1>4, <1>5, <1>6, <1>7, <1>8, <1>9 DEF Next, Boot


(* Types of the request directories. *)
LEMMA TmpOKStep ==
  ASSUME NoneAssumption, ControlOK, TmpOK, HeldOK, MemInv, DirInv, OrphansOK, [Next]_vars PROVE TmpOK'
<1> USE DEF Fixed, Files, Same, proc, disk, Rest, Goto, Choose, Advance, Abort,
      Release, Failure, Success, Labels, InFlight, Working, Reading, Private,
      Locked, NoneAssumption, ControlOK, TmpOK, HeldOK, MemInv, DirInv,
      OrphansOK, Readable, Lost, HasDir, WithDir, TmpName
<1>1. CASE Restart  BY <1>1 DEF Restart
<1>2. CASE Compile  BY <1>2 DEF Compile
<1>3. CASE WriteVk  BY <1>3 DEF WriteVk
<1>4. CASE RenameVk  BY <1>4 DEF RenameVk
<1>5. CASE Redeploy  BY <1>5 DEF Redeploy
<1>6. CASE Crash  BY <1>6 DEF Crash
<1>7. CASE \E o \in orphans : OrphanEnds(o)
  <2>1. PICK o \in orphans : OrphanEnds(o)
    BY <1>7
  <2>2. PICK p \in Proofs \cup Lost :
          tmp' = tmp \/ (o.to \in DOMAIN tmp /\ tmp' = [tmp EXCEPT ![o.to].proof = p])
    <3>1. CASE tmp' = tmp
      BY <3>1
    <3>2. CASE tmp' # tmp
      <4>1. o.tool = "prove" /\ o.to \in DOMAIN tmp
        BY <2>1, <3>2, Zenon DEF OrphanEnds
      <4>2. \E p \in {o.data, Garbage} : tmp' = [tmp EXCEPT ![o.to].proof = p]
        BY <2>1, <3>2 DEF OrphanEnds
      <4>3. o.data \in Proofs
        BY <4>1 DEF Tools
      <4> QED BY <4>1, <4>2, <4>3
    <3> QED BY <3>1, <3>2
  <2>3. o.to \in DOMAIN tmp =>
          [tmp[o.to] EXCEPT !.proof = p] \in
            [quote : Reqs \cup Lost, coll : Reqs \cup Lost, proof : Proofs \cup Lost]
    BY <2>2
  <2> QED BY <2>2, <2>3
<1>8. CASE UNCHANGED vars  BY <1>8 DEF vars
<1>9. ASSUME NEW r \in Reqs, Connect(r) \/ ReadHead(r) \/ ReadBody(r) \/ Leave(r) \/ Serve(r)
      PROVE TmpOK'
  <2>1. CASE Connect(r)  BY <2>1 DEF Connect
  <2>2. CASE ReadHead(r)  BY <2>2 DEF ReadHead
  <2>3. CASE ReadBody(r)  BY <2>3 DEF ReadBody
  <2>4. CASE Leave(r)  BY <2>4 DEF Leave
  <2>5. CASE MakeTmp(r)
    <3>1. <<pid, ctr>> \in Pids \X Nat
      OBVIOUS
    <3>2. EmptyDir \in [quote : Reqs \cup Lost, coll : Reqs \cup Lost, proof : Proofs \cup Lost]
      BY DEF EmptyDir
    <3>3. \/ tmp' = tmp
          \/ tmp' = [x \in DOMAIN tmp \cup {<<pid, ctr>>} |->
                      IF x \in DOMAIN tmp THEN tmp[x] ELSE EmptyDir]
      BY <2>5 DEF MakeTmp
    <3> QED BY <3>1, <3>2, <3>3
  <2>6. CASE WriteQuote(r)  BY <2>6, SMTT(30) DEF WriteQuote
  <2>7. CASE WriteCollateral(r)  BY <2>7 DEF WriteCollateral
  <2>8. CASE Enqueue(r)  BY <2>8 DEF Enqueue
  <2>9. CASE Acquire(r)  BY <2>9 DEF Acquire
  <2>10. CASE RunGenprover(r)  BY <2>10 DEF RunGenprover
  <2>11. CASE WriteToml(r)  BY <2>11 DEF WriteToml
  <2>12. CASE StartExecute(r)  BY <2>12 DEF StartExecute
  <2>13. CASE EndExecute(r)  BY <2>13 DEF EndExecute
  <2>14. CASE StartProve(r)  BY <2>14 DEF StartProve
  <2>15. CASE EndProve(r)
    <3>1. dir[r] \in DOMAIN tmp /\ mem[r] \in Proofs
      BY <2>15 DEF EndProve
    <3>2. PICK p \in Proofs \cup Lost :
            tmp' = tmp \/ tmp' = [tmp EXCEPT ![dir[r]].proof = p]
      BY <2>15, <3>1 DEF EndProve
    <3>3. [tmp[dir[r]] EXCEPT !.proof = p] \in
            [quote : Reqs \cup Lost, coll : Reqs \cup Lost, proof : Proofs \cup Lost]
      BY <3>1, <3>2
    <3> QED BY <3>1, <3>2, <3>3
  <2>16. CASE Finish(r)  BY <2>16 DEF Finish
  <2>17. CASE Respond(r)  BY <2>17 DEF Respond
  <2> QED BY <1>9, <2>1, <2>2, <2>3, <2>4, <2>5, <2>6, <2>7, <2>8, <2>9, <2>10,
      <2>11, <2>12, <2>13, <2>14, <2>15, <2>16, <2>17 DEF Serve
<1> QED BY <1>1, <1>2, <1>3, <1>4, <1>5, <1>6, <1>7, <1>8, <1>9 DEF Next, Boot


(* Types of what the tasks hold. *)
LEMMA HeldOKStep ==
  ASSUME ControlOK, LineOK, SharedOK, TmpOK, HeldOK, MemInv, DirInv, [Next]_vars PROVE HeldOK'
<1> USE DEF Fixed, Files, Same, proc, disk, Rest, Goto, Choose, Advance, Abort,
      Release, Failure, Success, Labels, InFlight, Working, Reading, Private,
      Locked, ControlOK, LineOK, SharedOK, TmpOK, HeldOK, MemInv, DirInv,
      Readable, Lost, HasDir, WithDir, TmpName
<1>1. CASE Restart  BY <1>1 DEF Restart
<1>2. CASE Compile  BY <1>2 DEF Compile
<1>3. CASE WriteVk  BY <1>3 DEF WriteVk
<1>4. CASE RenameVk  BY <1>4 DEF RenameVk
<1>5. CASE Redeploy  BY <1>5 DEF Redeploy
<1>6. CASE Crash  BY <1>6 DEF Crash
<1>7. CASE \E o \in orphans : OrphanEnds(o)  BY <1>7 DEF OrphanEnds
<1>8. CASE UNCHANGED vars  BY <1>8 DEF vars
<1>9. ASSUME NEW r \in Reqs, Connect(r) \/ ReadHead(r) \/ ReadBody(r) \/ Leave(r) \/ Serve(r)
      PROVE HeldOK'
  <2>1. CASE Connect(r)  BY <2>1 DEF Connect
  <2>2. CASE ReadHead(r)  BY <2>2 DEF ReadHead
  <2>3. CASE ReadBody(r)  BY <2>3 DEF ReadBody
  <2>4. CASE Leave(r)  BY <2>4 DEF Leave
  <2>5. CASE MakeTmp(r)
    <3>1. <<pid, ctr>> \in Pids \X Nat
      OBVIOUS
    <3> QED BY <2>5, <3>1 DEF MakeTmp
  <2>6. CASE WriteQuote(r)  BY <2>6 DEF WriteQuote
  <2>7. CASE WriteCollateral(r)  BY <2>7 DEF WriteCollateral
  <2>8. CASE Enqueue(r)  BY <2>8 DEF Enqueue
  <2>9. CASE Acquire(r)  BY <2>9 DEF Acquire
  <2>10. CASE RunGenprover(r)
    <3>1. CASE Abort(r)
      BY <2>10, <3>1 DEF RunGenprover
    <3>2. CASE pc[r] = "gen" /\ ~Abort(r)
      <4> DEFINE d == tmp[dir[r]]
      <4>1. dir[r] \in DOMAIN tmp
        BY <3>2
      <4>2. d.quote \in Reqs /\ d.coll \in Reqs
        BY <4>1, <3>2, <2>10 DEF RunGenprover
      <4>3. [quote |-> d.quote, coll |-> d.coll, ts |-> r] \in Inputs
        BY <4>2 DEF Inputs
      <4> QED BY <4>3, <3>2, <2>10 DEF RunGenprover
    <3> QED BY <2>10, <3>1, <3>2 DEF RunGenprover
  <2>11. CASE WriteToml(r)  BY <2>11 DEF WriteToml
  <2>12. CASE StartExecute(r)
    <3>1. CASE Abort(r)
      BY <2>12, <3>1 DEF StartExecute
    <3>2. CASE ~Abort(r)
      <4>1. toml \in Inputs
        BY <3>2, <2>12 DEF StartExecute
      <4> QED BY <4>1, <3>2, <2>12 DEF StartExecute
    <3> QED BY <3>1, <3>2
  <2>13. CASE EndExecute(r)  BY <2>13 DEF EndExecute
  <2>14. CASE StartProve(r)
    <3>1. CASE Abort(r)
      BY <2>14, <3>1 DEF StartProve
    <3>2. CASE ~Abort(r)
      <4>1. gz \in Inputs /\ json \in Versions /\ vk \in Versions
        BY <3>2, <2>14 DEF StartProve
      <4>2. [input |-> gz, circuit |-> json, key |-> vk] \in Proofs
        BY <4>1 DEF Proofs
      <4> QED BY <4>2, <3>2, <2>14 DEF StartProve
    <3> QED BY <3>1, <3>2
  <2>15. CASE EndProve(r)  BY <2>15 DEF EndProve
  <2>16. CASE Finish(r)  BY <2>16 DEF Finish
  <2>17. CASE Respond(r)  BY <2>17 DEF Respond
  <2> QED BY <1>9, <2>1, <2>2, <2>3, <2>4, <2>5, <2>6, <2>7, <2>8, <2>9, <2>10,
      <2>11, <2>12, <2>13, <2>14, <2>15, <2>16, <2>17 DEF Serve
<1> QED BY <1>1, <1>2, <1>3, <1>4, <1>5, <1>6, <1>7, <1>8, <1>9 DEF Next, Boot


(* Types of the responses. *)
LEMMA AnswersOKStep ==
  ASSUME TmpOK, AnswersOK, DirInv, [Next]_vars PROVE AnswersOK'
<1> USE DEF Fixed, Files, Same, proc, disk, Rest, Goto, Choose, Advance, Abort,
      Release, Failure, Success, Labels, InFlight, Working, Reading, Private,
      Locked, TmpOK, AnswersOK, DirInv, Readable, Lost, HasDir, WithDir,
      TmpName
<1>1. CASE Restart  BY <1>1 DEF Restart
<1>2. CASE Compile  BY <1>2 DEF Compile
<1>3. CASE WriteVk  BY <1>3 DEF WriteVk
<1>4. CASE RenameVk  BY <1>4 DEF RenameVk
<1>5. CASE Redeploy  BY <1>5 DEF Redeploy
<1>6. CASE Crash
  <2>1. UNCHANGED <<out, resp>>
    BY <1>6 DEF Crash
  <2> QED BY <2>1
<1>7. CASE \E o \in orphans : OrphanEnds(o)  BY <1>7 DEF OrphanEnds
<1>8. CASE UNCHANGED vars  BY <1>8 DEF vars
<1>9. ASSUME NEW r \in Reqs, Connect(r) \/ ReadHead(r) \/ ReadBody(r) \/ Leave(r) \/ Serve(r)
      PROVE AnswersOK'
  <2>1. CASE Connect(r)  BY <2>1 DEF Connect
  <2>2. CASE ReadHead(r)  BY <2>2 DEF ReadHead
  <2>3. CASE ReadBody(r)
    <3>1. PICK c \in {400, 404} : UNCHANGED out \/ out' = [out EXCEPT ![r] = Failure(c)]
      BY <2>3 DEF ReadBody
    <3> QED BY <2>3, <3>1, ResponsesTyped DEF ReadBody
  <2>4. CASE Leave(r)  BY <2>4 DEF Leave
  <2>5. CASE MakeTmp(r)
    <3>1. UNCHANGED resp /\ (UNCHANGED out \/ out' = [out EXCEPT ![r] = Failure(500)])
      BY <2>5 DEF MakeTmp
    <3> QED BY <3>1, ResponsesTyped
  <2>6. CASE WriteQuote(r)
    <3>1. UNCHANGED resp /\ (UNCHANGED out \/ out' = [out EXCEPT ![r] = Failure(500)])
      BY <2>6 DEF WriteQuote
    <3> QED BY <3>1, ResponsesTyped
  <2>7. CASE WriteCollateral(r)
    <3>1. UNCHANGED resp /\ (UNCHANGED out \/ out' = [out EXCEPT ![r] = Failure(500)])
      BY <2>7 DEF WriteCollateral
    <3> QED BY <3>1, ResponsesTyped
  <2>8. CASE Enqueue(r)  BY <2>8 DEF Enqueue
  <2>9. CASE Acquire(r)  BY <2>9 DEF Acquire
  <2>10. CASE RunGenprover(r)
    <3>1. UNCHANGED resp /\ (UNCHANGED out \/ out' = [out EXCEPT ![r] = Failure(500)])
      BY <2>10 DEF RunGenprover
    <3> QED BY <3>1, ResponsesTyped
  <2>11. CASE WriteToml(r)
    <3>1. UNCHANGED resp /\ (UNCHANGED out \/ out' = [out EXCEPT ![r] = Failure(500)])
      BY <2>11 DEF WriteToml
    <3> QED BY <3>1, ResponsesTyped
  <2>12. CASE StartExecute(r)
    <3>1. UNCHANGED resp /\ (UNCHANGED out \/ out' = [out EXCEPT ![r] = Failure(500)])
      BY <2>12 DEF StartExecute
    <3> QED BY <3>1, ResponsesTyped
  <2>13. CASE EndExecute(r)
    <3>1. UNCHANGED resp /\ (UNCHANGED out \/ out' = [out EXCEPT ![r] = Failure(500)])
      BY <2>13 DEF EndExecute
    <3> QED BY <3>1, ResponsesTyped
  <2>14. CASE StartProve(r)
    <3>1. UNCHANGED resp /\ (UNCHANGED out \/ out' = [out EXCEPT ![r] = Failure(500)])
      BY <2>14 DEF StartProve
    <3> QED BY <3>1, ResponsesTyped
  <2>15. CASE EndProve(r)
    <3>1. UNCHANGED resp /\ (UNCHANGED out \/ out' = [out EXCEPT ![r] = Failure(500)])
      BY <2>15 DEF EndProve
    <3> QED BY <3>1, ResponsesTyped
  <2>16. CASE Finish(r)
    <3>1. dir[r] \in DOMAIN tmp
      BY <2>16 DEF Finish
    <3>2. UNCHANGED resp /\ (\/ out' = [out EXCEPT ![r] = Failure(500)]
                            \/ out' = [out EXCEPT ![r] = Success(tmp[dir[r]].proof)])
      BY <2>16 DEF Finish
    <3> QED BY <3>1, <3>2, ResponsesTyped
  <2>17. CASE Respond(r)  BY <2>17 DEF Respond
  <2> QED BY <1>9, <2>1, <2>2, <2>3, <2>4, <2>5, <2>6, <2>7, <2>8, <2>9, <2>10,
      <2>11, <2>12, <2>13, <2>14, <2>15, <2>16, <2>17 DEF Serve
<1> QED BY <1>1, <1>2, <1>3, <1>4, <1>5, <1>6, <1>7, <1>8, <1>9 DEF Next, Boot


(* Types of the tools that outlived their service. *)
LEMMA OrphansOKStep ==
  ASSUME ControlOK, OrphansOK, MemInv, HeldOK, DirInv, [Next]_vars PROVE OrphansOK'
<1> USE DEF Fixed, Files, Same, proc, disk, Rest, Goto, Choose, Advance, Abort,
      Release, Failure, Success, Labels, InFlight, Working, Reading, Private,
      Locked, ControlOK, OrphansOK, MemInv, HeldOK, DirInv, Readable, Lost,
      HasDir, WithDir, TmpName
<1>1. CASE Restart  BY <1>1 DEF Restart
<1>2. CASE Compile  BY <1>2 DEF Compile
<1>3. CASE WriteVk  BY <1>3 DEF WriteVk
<1>4. CASE RenameVk  BY <1>4 DEF RenameVk
<1>5. CASE Redeploy  BY <1>5 DEF Redeploy
<1>6. CASE Crash
  <2>1. ASSUME NEW o \in RunningTools PROVE o \in Tools
    <3>1. CASE o = Tool("compile", None, None, source)
      BY <3>1 DEF Tool, Tools
    <3>2. CASE \E v \in Versions : o = Tool("writevk", None, None, v)
      BY <3>2 DEF Tool, Tools
    <3>3. CASE \E r \in Reqs : pc[r] = "witness" /\ o = Tool("execute", None, mem[r], source)
      BY <3>3 DEF Tool, Tools
    <3>4. CASE \E r \in Reqs : pc[r] = "prove" /\ o = Tool("prove", dir[r], mem[r], None)
      <4>1. PICK r \in Reqs : pc[r] = "prove" /\ o = Tool("prove", dir[r], mem[r], None)
        BY <3>4
      <4>2. dir[r] \in Pids \X Nat
        BY <4>1
      <4> QED BY <4>1, <4>2 DEF Tool, Tools
    <3> QED BY <2>1, <3>1, <3>2, <3>3, <3>4 DEF RunningTools
  <2> QED BY <1>6, <2>1 DEF Crash
<1>7. CASE \E o \in orphans : OrphanEnds(o)  BY <1>7 DEF OrphanEnds
<1>8. CASE UNCHANGED vars  BY <1>8 DEF vars
<1>9. ASSUME NEW r \in Reqs, Connect(r) \/ ReadHead(r) \/ ReadBody(r) \/ Leave(r) \/ Serve(r)
      PROVE OrphansOK'
  <2>1. CASE Connect(r)  BY <2>1 DEF Connect
  <2>2. CASE ReadHead(r)  BY <2>2 DEF ReadHead
  <2>3. CASE ReadBody(r)  BY <2>3 DEF ReadBody
  <2>4. CASE Leave(r)  BY <2>4 DEF Leave
  <2>5. CASE MakeTmp(r)  BY <2>5 DEF MakeTmp
  <2>6. CASE WriteQuote(r)  BY <2>6 DEF WriteQuote
  <2>7. CASE WriteCollateral(r)  BY <2>7 DEF WriteCollateral
  <2>8. CASE Enqueue(r)  BY <2>8 DEF Enqueue
  <2>9. CASE Acquire(r)  BY <2>9 DEF Acquire
  <2>10. CASE RunGenprover(r)  BY <2>10 DEF RunGenprover
  <2>11. CASE WriteToml(r)  BY <2>11 DEF WriteToml
  <2>12. CASE StartExecute(r)  BY <2>12 DEF StartExecute
  <2>13. CASE EndExecute(r)  BY <2>13 DEF EndExecute
  <2>14. CASE StartProve(r)  BY <2>14 DEF StartProve
  <2>15. CASE EndProve(r)  BY <2>15 DEF EndProve
  <2>16. CASE Finish(r)  BY <2>16 DEF Finish
  <2>17. CASE Respond(r)  BY <2>17 DEF Respond
  <2> QED BY <1>9, <2>1, <2>2, <2>3, <2>4, <2>5, <2>6, <2>7, <2>8, <2>9, <2>10,
      <2>11, <2>12, <2>13, <2>14, <2>15, <2>16, <2>17 DEF Serve
<1> QED BY <1>1, <1>2, <1>3, <1>4, <1>5, <1>6, <1>7, <1>8, <1>9 DEF Next, Boot


(* What a tool is about to write is whole. *)
LEMMA MemInvStep ==
  ASSUME ServerAssumption, TypeOK, MemInv, DirInv, [Next]_vars PROVE MemInv'
<1> USE DEF Fixed, Files, Same, proc, disk, Rest, Goto, Choose, Advance, Abort,
      Release, Failure, Success, Labels, InFlight, Working, Reading, Private,
      Locked, ServerAssumption, TypeOK, MemInv, DirInv, Readable, Lost, HasDir,
      WithDir, TmpName
<1>1. CASE Restart  BY <1>1 DEF Restart
<1>2. CASE Compile  BY <1>2 DEF Compile
<1>3. CASE WriteVk  BY <1>3 DEF WriteVk
<1>4. CASE RenameVk  BY <1>4 DEF RenameVk
<1>5. CASE Redeploy  BY <1>5 DEF Redeploy
<1>6. CASE Crash  BY <1>6 DEF Crash
<1>7. CASE \E o \in orphans : OrphanEnds(o)  BY <1>7 DEF OrphanEnds
<1>8. CASE UNCHANGED vars  BY <1>8 DEF vars
<1>9. ASSUME NEW r \in Reqs, Connect(r) \/ ReadHead(r) \/ ReadBody(r) \/ Leave(r) \/ Serve(r)
      PROVE MemInv'
  <2>1. CASE Connect(r)  BY <2>1 DEF Connect
  <2>2. CASE ReadHead(r)  BY <2>2 DEF ReadHead
  <2>3. CASE ReadBody(r)  BY <2>3 DEF ReadBody
  <2>4. CASE Leave(r)  BY <2>4 DEF Leave
  <2>5. CASE MakeTmp(r)  BY <2>5, SMTT(30) DEF MakeTmp
  <2>6. CASE WriteQuote(r)  BY <2>6 DEF WriteQuote
  <2>7. CASE WriteCollateral(r)  BY <2>7 DEF WriteCollateral
  <2>8. CASE Enqueue(r)  BY <2>8 DEF Enqueue
  <2>9. CASE Acquire(r)  BY <2>9 DEF Acquire
  <2>10. CASE RunGenprover(r)
    <3>1. CASE Abort(r)
      BY <2>10, <3>1 DEF RunGenprover
    <3>2. CASE pc[r] = "gen" /\ ~Abort(r)
      <4> DEFINE d == tmp[dir[r]]
      <4>1. dir[r] \in DOMAIN tmp
        BY <3>2
      <4>2. d.quote \in Reqs /\ d.coll \in Reqs
        BY <4>1, <3>2, <2>10 DEF RunGenprover
      <4>3. [quote |-> d.quote, coll |-> d.coll, ts |-> r] \in Inputs
        BY <4>2 DEF Inputs
      <4> QED BY <4>3, <3>2, <2>10, SMTT(30) DEF RunGenprover
    <3> QED BY <2>10, <3>1, <3>2 DEF RunGenprover
  <2>11. CASE WriteToml(r)  BY <2>11 DEF WriteToml
  <2>12. CASE StartExecute(r)
    <3>1. CASE Abort(r)
      BY <2>12, <3>1 DEF StartExecute
    <3>2. CASE ~Abort(r)
      <4>1. toml \in Inputs
        BY <3>2, <2>12 DEF StartExecute
      <4> QED BY <4>1, <3>2, <2>12 DEF StartExecute
    <3> QED BY <3>1, <3>2
  <2>13. CASE EndExecute(r)  BY <2>13 DEF EndExecute
  <2>14. CASE StartProve(r)
    <3>1. CASE Abort(r)
      BY <2>14, <3>1 DEF StartProve
    <3>2. CASE ~Abort(r)
      <4>1. gz \in Inputs /\ json \in Versions /\ vk \in Versions
        BY <3>2, <2>14 DEF StartProve
      <4>2. [input |-> gz, circuit |-> json, key |-> vk] \in Proofs
        BY <4>1 DEF Proofs
      <4> QED BY <4>2, <3>2, <2>14 DEF StartProve
    <3> QED BY <3>1, <3>2
  <2>15. CASE EndProve(r)  BY <2>15 DEF EndProve
  <2>16. CASE Finish(r)
    <3>1. pc' = [pc EXCEPT ![r] = "reply"] /\ mem' = [mem EXCEPT ![r] = None]
      BY <2>16 DEF Finish
    <3> QED BY <3>1
  <2>17. CASE Respond(r)  BY <2>17 DEF Respond
  <2> QED BY <1>9, <2>1, <2>2, <2>3, <2>4, <2>5, <2>6, <2>7, <2>8, <2>9, <2>10,
      <2>11, <2>12, <2>13, <2>14, <2>15, <2>16, <2>17 DEF Serve
<1> QED BY <1>1, <1>2, <1>3, <1>4, <1>5, <1>6, <1>7, <1>8, <1>9 DEF Next, Boot


(* The circuit's files follow prepare() and `nargo execute`. *)
LEMMA KeyInvStep ==
  ASSUME ServerAssumption, TypeOK, RunInv, orphans = {}, KeyInv, [Next]_vars PROVE KeyInv'
<1> USE DEF Fixed, Files, Same, proc, disk, Rest, Goto, Choose, Advance, Abort,
      Release, Failure, Success, Labels, InFlight, Working, Reading, Private,
      Locked, ServerAssumption, TypeOK, RunInv, KeyInv, Rebuilt, Readable, Lost,
      Versions
<1>1. CASE Restart  BY <1>1 DEF Restart
<1>2. CASE Compile
  <2>1. source # None
    BY LostNames
  <2> QED BY <1>2, <2>1 DEF Compile
<1>3. CASE WriteVk  BY <1>3 DEF WriteVk
<1>4. CASE RenameVk  BY <1>4 DEF RenameVk
<1>5. CASE Redeploy  BY <1>5 DEF Redeploy
<1>6. CASE Crash  BY <1>6 DEF Crash
<1>7. CASE \E o \in orphans : OrphanEnds(o)  BY <1>7 DEF OrphanEnds
<1>8. CASE UNCHANGED vars  BY <1>8 DEF vars
<1>9. ASSUME NEW r \in Reqs, Connect(r) \/ ReadHead(r) \/ ReadBody(r) \/ Leave(r) \/ Serve(r)
      PROVE KeyInv'
  <2>1. CASE Connect(r)  BY <2>1 DEF Connect
  <2>2. CASE ReadHead(r)  BY <2>2 DEF ReadHead
  <2>3. CASE ReadBody(r)  BY <2>3 DEF ReadBody
  <2>4. CASE Leave(r)  BY <2>4 DEF Leave
  <2>5. CASE MakeTmp(r)  BY <2>5 DEF MakeTmp
  <2>6. CASE WriteQuote(r)  BY <2>6 DEF WriteQuote
  <2>7. CASE WriteCollateral(r)  BY <2>7 DEF WriteCollateral
  <2>8. CASE Enqueue(r)  BY <2>8 DEF Enqueue
  <2>9. CASE Acquire(r)  BY <2>9 DEF Acquire
  <2>10. CASE RunGenprover(r)  BY <2>10 DEF RunGenprover
  <2>11. CASE WriteToml(r)  BY <2>11 DEF WriteToml
  <2>12. CASE StartExecute(r)  BY <2>12 DEF StartExecute
  <2>13. CASE EndExecute(r)  BY <2>13 DEF EndExecute
  <2>14. CASE StartProve(r)  BY <2>14 DEF StartProve
  <2>15. CASE EndProve(r)  BY <2>15 DEF EndProve
  <2>16. CASE Finish(r)  BY <2>16 DEF Finish
  <2>17. CASE Respond(r)  BY <2>17 DEF Respond
  <2> QED BY <1>9, <2>1, <2>2, <2>3, <2>4, <2>5, <2>6, <2>7, <2>8, <2>9, <2>10,
      <2>11, <2>12, <2>13, <2>14, <2>15, <2>16, <2>17 DEF Serve
<1> QED BY <1>1, <1>2, <1>3, <1>4, <1>5, <1>6, <1>7, <1>8, <1>9 DEF Next, Boot


(* No request is in flight while the service is down or starting. *)
LEMMA RunInvStep ==
  ASSUME TypeOK, RunInv, [Next]_vars PROVE RunInv'
<1> USE DEF Fixed, Files, Same, proc, disk, Rest, Goto, Choose, Advance, Abort,
      Release, Failure, Success, Labels, InFlight, Working, Reading, Private,
      Locked, TypeOK, RunInv, Readable, Lost
<1>1. CASE Restart  BY <1>1 DEF Restart
<1>2. CASE Compile  BY <1>2 DEF Compile
<1>3. CASE WriteVk  BY <1>3 DEF WriteVk
<1>4. CASE RenameVk  BY <1>4 DEF RenameVk
<1>5. CASE Redeploy  BY <1>5 DEF Redeploy
<1>6. CASE Crash  BY <1>6 DEF Crash
<1>7. CASE \E o \in orphans : OrphanEnds(o)  BY <1>7 DEF OrphanEnds
<1>8. CASE UNCHANGED vars  BY <1>8 DEF vars
<1>9. ASSUME NEW r \in Reqs, Connect(r) \/ ReadHead(r) \/ ReadBody(r) \/ Leave(r) \/ Serve(r)
      PROVE RunInv'
  <2>1. CASE Connect(r)  BY <2>1 DEF Connect
  <2>2. CASE ReadHead(r)  BY <2>2 DEF ReadHead
  <2>3. CASE ReadBody(r)  BY <2>3 DEF ReadBody
  <2>4. CASE Leave(r)  BY <2>4 DEF Leave
  <2>5. CASE MakeTmp(r)  BY <2>5 DEF MakeTmp
  <2>6. CASE WriteQuote(r)  BY <2>6 DEF WriteQuote
  <2>7. CASE WriteCollateral(r)  BY <2>7 DEF WriteCollateral
  <2>8. CASE Enqueue(r)  BY <2>8 DEF Enqueue
  <2>9. CASE Acquire(r)  BY <2>9 DEF Acquire
  <2>10. CASE RunGenprover(r)  BY <2>10 DEF RunGenprover
  <2>11. CASE WriteToml(r)  BY <2>11 DEF WriteToml
  <2>12. CASE StartExecute(r)  BY <2>12 DEF StartExecute
  <2>13. CASE EndExecute(r)  BY <2>13 DEF EndExecute
  <2>14. CASE StartProve(r)  BY <2>14 DEF StartProve
  <2>15. CASE EndProve(r)  BY <2>15 DEF EndProve
  <2>16. CASE Finish(r)  BY <2>16 DEF Finish
  <2>17. CASE Respond(r)  BY <2>17 DEF Respond
  <2> QED BY <1>9, <2>1, <2>2, <2>3, <2>4, <2>5, <2>6, <2>7, <2>8, <2>9, <2>10,
      <2>11, <2>12, <2>13, <2>14, <2>15, <2>16, <2>17 DEF Serve
<1> QED BY <1>1, <1>2, <1>3, <1>4, <1>5, <1>6, <1>7, <1>8, <1>9 DEF Next, Boot


(* The holder of the lock stays first in line. *)
LEMMA LockInvStep ==
  ASSUME TypeOK, LockInv, RunInv, [Next]_vars PROVE LockInv'
<1> USE DEF Fixed, Files, Same, proc, disk, Rest, Goto, Choose, Advance, Abort,
      Release, Failure, Success, Labels, InFlight, Working, Reading, Private,
      Locked, TypeOK, LockInv, RunInv, Readable, Lost
<1>1. CASE Restart  BY <1>1 DEF Restart
<1>2. CASE Compile  BY <1>2 DEF Compile
<1>3. CASE WriteVk  BY <1>3 DEF WriteVk
<1>4. CASE RenameVk  BY <1>4 DEF RenameVk
<1>5. CASE Redeploy  BY <1>5 DEF Redeploy
<1>6. CASE Crash  BY <1>6 DEF Crash
<1>7. CASE \E o \in orphans : OrphanEnds(o)  BY <1>7 DEF OrphanEnds
<1>8. CASE UNCHANGED vars  BY <1>8 DEF vars
<1>9. ASSUME NEW r \in Reqs, Connect(r) \/ ReadHead(r) \/ ReadBody(r) \/ Leave(r) \/ Serve(r)
      PROVE LockInv'
  <2>1. CASE Connect(r)  BY <2>1 DEF Connect
  <2>2. CASE ReadHead(r)  BY <2>2 DEF ReadHead
  <2>3. CASE ReadBody(r)  BY <2>3 DEF ReadBody
  <2>4. CASE Leave(r)  BY <2>4 DEF Leave
  <2>5. CASE MakeTmp(r)  BY <2>5 DEF MakeTmp
  <2>6. CASE WriteQuote(r)  BY <2>6 DEF WriteQuote
  <2>7. CASE WriteCollateral(r)  BY <2>7 DEF WriteCollateral
  <2>8. CASE Enqueue(r)
    <3>1. \A q \in Reqs : pc'[q] \in Locked => pc[q] \in Locked
      BY <2>8 DEF Enqueue
    <3>2. queue \in Seq(Reqs) /\ queue' = Append(queue, r)
      BY <2>8 DEF Enqueue
    <3>3. queue # <<>> => queue' # <<>> /\ Head(queue') = Head(queue)
      <4> HIDE DEF Locked, TypeOK, LockInv, RunInv
      <4>1. QED
        BY <3>2
    <3>4. QED
      BY <3>1, <3>3
  <2>9. CASE Acquire(r)  BY <2>9 DEF Acquire
  <2>10. CASE RunGenprover(r)  BY <2>10 DEF RunGenprover
  <2>11. CASE WriteToml(r)  BY <2>11 DEF WriteToml
  <2>12. CASE StartExecute(r)  BY <2>12 DEF StartExecute
  <2>13. CASE EndExecute(r)  BY <2>13 DEF EndExecute
  <2>14. CASE StartProve(r)  BY <2>14 DEF StartProve
  <2>15. CASE EndProve(r)  BY <2>15 DEF EndProve
  <2>16. CASE Finish(r)  BY <2>16 DEF Finish
  <2>17. CASE Respond(r)  BY <2>17 DEF Respond
  <2> QED BY <1>9, <2>1, <2>2, <2>3, <2>4, <2>5, <2>6, <2>7, <2>8, <2>9, <2>10,
      <2>11, <2>12, <2>13, <2>14, <2>15, <2>16, <2>17 DEF Serve
<1> QED BY <1>1, <1>2, <1>3, <1>4, <1>5, <1>6, <1>7, <1>8, <1>9 DEF Next, Boot


(* Directories stay distinct. *)
LEMMA DirInvStep ==
  ASSUME TypeOK, DirInv, RunInv, OrphanInv, [Next]_vars PROVE DirInv'
<1> USE DEF Fixed, Files, Same, proc, disk, Rest, Goto, Choose, Advance, Abort,
      Release, Failure, Success, Labels, InFlight, Working, Reading, Private,
      Locked, TypeOK, DirInv, RunInv, OrphanInv, Readable, Lost, HasDir,
      WithDir, TmpName
<1>1. CASE Restart  BY <1>1 DEF Restart
<1>2. CASE Compile  BY <1>2 DEF Compile
<1>3. CASE WriteVk  BY <1>3 DEF WriteVk
<1>4. CASE RenameVk  BY <1>4 DEF RenameVk
<1>5. CASE Redeploy  BY <1>5 DEF Redeploy
<1>6. CASE Crash  BY <1>6 DEF Crash
<1>7. CASE \E o \in orphans : OrphanEnds(o)  BY <1>7 DEF OrphanEnds
<1>8. CASE UNCHANGED vars  BY <1>8 DEF vars
<1>9. ASSUME NEW r \in Reqs, Connect(r) \/ ReadHead(r) \/ ReadBody(r) \/ Leave(r) \/ Serve(r)
      PROVE DirInv'
  <2>1. CASE Connect(r)  BY <2>1 DEF Connect
  <2>2. CASE ReadHead(r)  BY <2>2 DEF ReadHead
  <2>3. CASE ReadBody(r)
    <3>1. DOMAIN tmp \subseteq DOMAIN tmp'
      BY <2>3 DEF ReadBody
    <3>2. \A q \in Reqs : pc'[q] \in HasDir => pc[q] \in HasDir
      BY <2>3 DEF ReadBody
    <3>3. UNCHANGED <<pid, ctr, dir>>
      BY <2>3 DEF ReadBody
    <3> QED BY <3>1, <3>2, <3>3
  <2>4. CASE Leave(r)  BY <2>4 DEF Leave
  <2>5. CASE MakeTmp(r)
    <3>1. CASE Abort(r)
      BY <2>5, <3>1 DEF MakeTmp
    <3>2. CASE ~Abort(r)
      <4>1. /\ pc[r] = "mktmp" /\ pc' = [pc EXCEPT ![r] = "quote"]
            /\ dir' = [dir EXCEPT ![r] = <<pid, ctr>>] /\ ctr' = ctr + 1 /\ pid' = pid
        BY <2>5, <3>2 DEF MakeTmp
      <4>2. DOMAIN tmp' = DOMAIN tmp \cup {<<pid, ctr>>}
        BY <2>5, <3>2 DEF MakeTmp
      <4>3. \A q \in Reqs : pc[q] \in HasDir => dir[q] # <<pid, ctr>>
        OBVIOUS
      <4>4. ASSUME NEW q \in Reqs, pc'[q] \in HasDir
            PROVE /\ dir'[q] \in DOMAIN tmp'
                  /\ \E n \in 0..(ctr' - 1) : dir'[q] = <<pid', n>>
        <5>1. CASE q = r
          BY <4>1, <4>2, <5>1
        <5>2. CASE q # r
          <6>1. pc[q] \in HasDir /\ dir'[q] = dir[q]
            BY <4>1, <4>4, <5>2
          <6>2. PICK n \in 0..(ctr - 1) : dir[q] = <<pid, n>>
            BY <6>1
          <6>3. n \in 0..(ctr' - 1)
            BY <4>1
          <6>4. dir'[q] = <<pid', n>>
            BY <4>1, <6>1, <6>2
          <6>5. dir'[q] \in DOMAIN tmp'
            BY <4>2, <6>1
          <6> QED BY <6>3, <6>4, <6>5
        <5> QED BY <5>1, <5>2
      <4>5. ASSUME NEW p \in Reqs, NEW q \in Reqs, pc'[p] \in HasDir, pc'[q] \in HasDir, p # q
            PROVE dir'[p] # dir'[q]
        <5>1. CASE p = r
          BY <4>1, <4>3, <4>5, <5>1
        <5>2. CASE q = r
          BY <4>1, <4>3, <4>5, <5>2
        <5>3. CASE p # r /\ q # r
          BY <4>1, <4>5, <5>3
        <5> QED BY <5>1, <5>2, <5>3
      <4> QED BY <4>4, <4>5
    <3> QED BY <3>1, <3>2
  <2>6. CASE WriteQuote(r)
    <3>1. DOMAIN tmp \subseteq DOMAIN tmp'
      BY <2>6 DEF WriteQuote
    <3>2. \A q \in Reqs : pc'[q] \in HasDir => pc[q] \in HasDir
      BY <2>6 DEF WriteQuote
    <3>3. UNCHANGED <<pid, ctr, dir>>
      BY <2>6 DEF WriteQuote
    <3> QED BY <3>1, <3>2, <3>3
  <2>7. CASE WriteCollateral(r)
    <3>1. DOMAIN tmp \subseteq DOMAIN tmp'
      BY <2>7 DEF WriteCollateral
    <3>2. \A q \in Reqs : pc'[q] \in HasDir => pc[q] \in HasDir
      BY <2>7 DEF WriteCollateral
    <3>3. UNCHANGED <<pid, ctr, dir>>
      BY <2>7 DEF WriteCollateral
    <3> QED BY <3>1, <3>2, <3>3
  <2>8. CASE Enqueue(r)  BY <2>8 DEF Enqueue
  <2>9. CASE Acquire(r)  BY <2>9 DEF Acquire
  <2>10. CASE RunGenprover(r)
    <3>1. DOMAIN tmp \subseteq DOMAIN tmp'
      BY <2>10 DEF RunGenprover
    <3>2. \A q \in Reqs : pc'[q] \in HasDir => pc[q] \in HasDir
      BY <2>10 DEF RunGenprover
    <3>3. UNCHANGED <<pid, ctr, dir>>
      BY <2>10 DEF RunGenprover
    <3> QED BY <3>1, <3>2, <3>3
  <2>11. CASE WriteToml(r)
    <3>1. DOMAIN tmp \subseteq DOMAIN tmp'
      BY <2>11 DEF WriteToml
    <3>2. \A q \in Reqs : pc'[q] \in HasDir => pc[q] \in HasDir
      BY <2>11 DEF WriteToml
    <3>3. UNCHANGED <<pid, ctr, dir>>
      BY <2>11 DEF WriteToml
    <3> QED BY <3>1, <3>2, <3>3
  <2>12. CASE StartExecute(r)
    <3>1. DOMAIN tmp \subseteq DOMAIN tmp'
      BY <2>12 DEF StartExecute
    <3>2. \A q \in Reqs : pc'[q] \in HasDir => pc[q] \in HasDir
      BY <2>12 DEF StartExecute
    <3>3. UNCHANGED <<pid, ctr, dir>>
      BY <2>12 DEF StartExecute
    <3> QED BY <3>1, <3>2, <3>3
  <2>13. CASE EndExecute(r)
    <3>1. DOMAIN tmp \subseteq DOMAIN tmp'
      BY <2>13 DEF EndExecute
    <3>2. \A q \in Reqs : pc'[q] \in HasDir => pc[q] \in HasDir
      BY <2>13 DEF EndExecute
    <3>3. UNCHANGED <<pid, ctr, dir>>
      BY <2>13 DEF EndExecute
    <3> QED BY <3>1, <3>2, <3>3
  <2>14. CASE StartProve(r)
    <3>1. DOMAIN tmp \subseteq DOMAIN tmp'
      BY <2>14 DEF StartProve
    <3>2. \A q \in Reqs : pc'[q] \in HasDir => pc[q] \in HasDir
      BY <2>14 DEF StartProve
    <3>3. UNCHANGED <<pid, ctr, dir>>
      BY <2>14 DEF StartProve
    <3> QED BY <3>1, <3>2, <3>3
  <2>15. CASE EndProve(r)
    <3>1. DOMAIN tmp \subseteq DOMAIN tmp'
      BY <2>15 DEF EndProve
    <3>2. \A q \in Reqs : pc'[q] \in HasDir => pc[q] \in HasDir
      BY <2>15 DEF EndProve
    <3>3. UNCHANGED <<pid, ctr, dir>>
      BY <2>15 DEF EndProve
    <3> QED BY <3>1, <3>2, <3>3
  <2>16. CASE Finish(r)
    <3>1. \A q \in Reqs : pc'[q] \in HasDir => pc[q] \in HasDir /\ q # r
      BY <2>16 DEF Finish
    <3>2. pc[r] \in HasDir
      BY <2>16 DEF Finish
    <3>3. UNCHANGED <<pid, ctr, dir>>
      BY <2>16 DEF Finish
    <3>4. DOMAIN tmp \ {dir[r]} \subseteq DOMAIN tmp'
      BY <2>16 DEF Finish
    <3> QED BY <3>1, <3>2, <3>3, <3>4
  <2>17. CASE Respond(r)  BY <2>17 DEF Respond
  <2> QED BY <1>9, <2>1, <2>2, <2>3, <2>4, <2>5, <2>6, <2>7, <2>8, <2>9, <2>10,
      <2>11, <2>12, <2>13, <2>14, <2>15, <2>16, <2>17 DEF Serve
<1> QED BY <1>1, <1>2, <1>3, <1>4, <1>5, <1>6, <1>7, <1>8, <1>9 DEF Next, Boot


(* No tool of a dead service shares the id of the live one. *)
LEMMA OrphanInvStep ==
  ASSUME TypeOK, OrphanInv, RunInv, DirInv, [Next]_vars PROVE OrphanInv'
<1> USE DEF Fixed, Files, Same, proc, disk, Rest, Goto, Choose, Advance, Abort,
      Release, Failure, Success, Labels, InFlight, Working, Reading, Private,
      Locked, TypeOK, OrphanInv, RunInv, DirInv, Readable, Lost, HasDir,
      WithDir, TmpName
<1>1. CASE Restart  BY <1>1 DEF Restart
<1>2. CASE Compile  BY <1>2 DEF Compile
<1>3. CASE WriteVk  BY <1>3 DEF WriteVk
<1>4. CASE RenameVk  BY <1>4 DEF RenameVk
<1>5. CASE Redeploy  BY <1>5 DEF Redeploy
<1>6. CASE Crash  BY <1>6 DEF Crash
<1>7. CASE \E o \in orphans : OrphanEnds(o)  BY <1>7 DEF OrphanEnds
<1>8. CASE UNCHANGED vars  BY <1>8 DEF vars
<1>9. ASSUME NEW r \in Reqs, Connect(r) \/ ReadHead(r) \/ ReadBody(r) \/ Leave(r) \/ Serve(r)
      PROVE OrphanInv'
  <2>1. CASE Connect(r)  BY <2>1 DEF Connect
  <2>2. CASE ReadHead(r)  BY <2>2 DEF ReadHead
  <2>3. CASE ReadBody(r)  BY <2>3 DEF ReadBody
  <2>4. CASE Leave(r)  BY <2>4 DEF Leave
  <2>5. CASE MakeTmp(r)  BY <2>5 DEF MakeTmp
  <2>6. CASE WriteQuote(r)  BY <2>6 DEF WriteQuote
  <2>7. CASE WriteCollateral(r)  BY <2>7 DEF WriteCollateral
  <2>8. CASE Enqueue(r)  BY <2>8 DEF Enqueue
  <2>9. CASE Acquire(r)  BY <2>9 DEF Acquire
  <2>10. CASE RunGenprover(r)  BY <2>10 DEF RunGenprover
  <2>11. CASE WriteToml(r)  BY <2>11 DEF WriteToml
  <2>12. CASE StartExecute(r)  BY <2>12 DEF StartExecute
  <2>13. CASE EndExecute(r)  BY <2>13 DEF EndExecute
  <2>14. CASE StartProve(r)  BY <2>14 DEF StartProve
  <2>15. CASE EndProve(r)  BY <2>15 DEF EndProve
  <2>16. CASE Finish(r)  BY <2>16 DEF Finish
  <2>17. CASE Respond(r)  BY <2>17 DEF Respond
  <2> QED BY <1>9, <2>1, <2>2, <2>3, <2>4, <2>5, <2>6, <2>7, <2>8, <2>9, <2>10,
      <2>11, <2>12, <2>13, <2>14, <2>15, <2>16, <2>17 DEF Serve
<1> QED BY <1>1, <1>2, <1>3, <1>4, <1>5, <1>6, <1>7, <1>8, <1>9 DEF Next, Boot


(* Files keep what the request's next tool needs. *)
LEMMA ContentInvStep ==
  ASSUME ControlOK, LineOK, SharedOK, TmpOK, HeldOK, KeyInv, RunInv, LockInv, DirInv, orphans = {}, ContentInv,
         [Next]_vars
  PROVE ContentInv'
<1> USE DEF Fixed, Files, Same, proc, disk, Rest, Goto, Choose, Advance, Abort,
      Release, Labels, InFlight, Working, Reading, Private, Locked, LineOK,
      TmpOK, HeldOK, KeyInv, RunInv, LockInv, DirInv, ContentInv, Readable,
      Lost, HasDir, WithDir, TmpName
<1>1. CASE Restart  BY <1>1 DEF Restart
<1>2. CASE Compile  BY <1>2 DEF Compile
<1>3. CASE WriteVk  BY <1>3 DEF WriteVk
<1>4. CASE RenameVk  BY <1>4 DEF RenameVk
<1>5. CASE Redeploy  BY <1>5 DEF Redeploy
<1>6. CASE Crash  BY <1>6 DEF Crash
<1>7. CASE \E o \in orphans : OrphanEnds(o)  BY <1>7 DEF OrphanEnds
<1>8. CASE UNCHANGED vars  BY <1>8 DEF vars
<1>9. ASSUME NEW r \in Reqs, Connect(r) \/ ReadHead(r) \/ ReadBody(r) \/ Leave(r) \/ Serve(r)
      PROVE ContentInv'
  <2>1. CASE Connect(r)  BY <2>1 DEF Connect
  <2>2. CASE ReadHead(r)  BY <2>2 DEF ReadHead
  <2>3. CASE ReadBody(r)  BY <2>3 DEF ReadBody
  <2>4. CASE Leave(r)  BY <2>4 DEF Leave
  <2>5. CASE MakeTmp(r)  BY <2>5 DEF MakeTmp
  <2>6. CASE WriteQuote(r)
    <3>1. pc' \in {[pc EXCEPT ![r] = "coll"], [pc EXCEPT ![r] = "reply"]}
      BY <2>6 DEF WriteQuote
    <3>2. \A q \in Reqs : q # r /\ pc[q] \in HasDir => tmp'[dir[q]] = tmp[dir[q]] /\ mem'[q] = mem[q]
      BY <2>6 DEF WriteQuote
    <3>3. pc'[r] = "coll" => tmp'[dir[r]].quote = r /\ tmp'[dir[r]].coll = tmp[dir[r]].coll
      BY <2>6 DEF WriteQuote
    <3>4. dir[r] \in DOMAIN tmp /\ UNCHANGED <<source, toml, gz, dir>>
      BY <2>6 DEF WriteQuote
    <3> QED BY <2>6, <3>1, <3>2, <3>3, <3>4
  <2>7. CASE WriteCollateral(r)
    <3>1. pc' \in {[pc EXCEPT ![r] = "lock"], [pc EXCEPT ![r] = "reply"]}
      BY <2>7 DEF WriteCollateral
    <3>2. \A q \in Reqs : q # r /\ pc[q] \in HasDir => tmp'[dir[q]] = tmp[dir[q]] /\ mem'[q] = mem[q]
      BY <2>7 DEF WriteCollateral
    <3>3. pc'[r] = "lock" => tmp'[dir[r]].coll = r /\ tmp'[dir[r]].quote = tmp[dir[r]].quote
      BY <2>7 DEF WriteCollateral
    <3>4. dir[r] \in DOMAIN tmp /\ UNCHANGED <<source, toml, gz, dir>>
      BY <2>7 DEF WriteCollateral
    <3>5. pc'[r] = "lock" => tmp'[dir[r]].coll = r /\ tmp'[dir[r]].quote = r
      BY <2>7, <3>1, <3>3 DEF WriteCollateral
    <3>6. \A q \in Reqs : q # r => pc'[q] = pc[q]
      BY <3>1
    <3> HIDE DEF Lost, Fixed, Files, Same, Advance, Abort, Release, LockInv, KeyInv, RunInv
    <3> QED BY <3>1, <3>2, <3>3, <3>4, <3>5, <3>6
  <2>8. CASE Enqueue(r)  BY <2>8 DEF Enqueue
  <2>9. CASE Acquire(r)  BY <2>9 DEF Acquire
  <2>10. CASE RunGenprover(r)
    <3>1. dir[r] \in DOMAIN tmp /\ tmp[dir[r]].quote = r /\ tmp[dir[r]].coll = r
      BY <2>10 DEF RunGenprover
    <3>2. \/ mem' = [mem EXCEPT ![r] = Own(r)] /\ pc' = [pc EXCEPT ![r] = "toml"]
          \/ mem' = [mem EXCEPT ![r] = None] /\ pc' = [pc EXCEPT ![r] = "reply"]
      BY <2>10, <3>1 DEF RunGenprover, Own
    <3>3. UNCHANGED <<source, toml, gz, tmp, dir>>
      BY <2>10 DEF RunGenprover
    <3> QED BY <3>2, <3>3
  <2>11. CASE WriteToml(r)  BY <2>11 DEF WriteToml
  <2>12. CASE StartExecute(r)  BY <2>12 DEF StartExecute
  <2>13. CASE EndExecute(r)  BY <2>13 DEF EndExecute
  <2>14. CASE StartProve(r)
    <3>1. \/ mem' = [mem EXCEPT ![r] = None] /\ pc' = [pc EXCEPT ![r] = "reply"]
          \/ /\ mem' = [mem EXCEPT ![r] = [input |-> gz, circuit |-> json, key |-> vk]]
             /\ pc' = [pc EXCEPT ![r] = "prove"]
      BY <2>14 DEF StartProve
    <3>2. gz = Own(r) /\ Own(r) \in Inputs
      BY <2>14 DEF StartProve, Own, Inputs
    <3>3. CASE json \in Versions
      <4>1. vk \in Versions /\ (json = vk \/ (vk < source /\ json = source))
        BY <2>14, <3>3, LostNames, ServerAssumption DEF StartProve
      <4>2. [input |-> gz, circuit |-> json, key |-> vk] \in Good(r, source)
        BY <3>2, <3>3, <4>1 DEF Good, OwnProofs, Proofs
      <4>3. UNCHANGED <<source, toml, gz, tmp, dir>>
        BY <2>14 DEF StartProve
      <4> QED BY <3>1, <4>2, <4>3
    <3>4. CASE json \notin Versions
      <4>1. ~Readable({gz, json, vk})
        BY <3>4 DEF ControlOK
      <4>2. mem' = [mem EXCEPT ![r] = None] /\ pc' = [pc EXCEPT ![r] = "reply"]
        BY <2>14, <4>1 DEF StartProve
      <4>3. UNCHANGED <<source, toml, gz, tmp, dir>>
        BY <2>14 DEF StartProve
      <4> QED BY <4>2, <4>3
    <3> QED BY <3>3, <3>4
  <2>15. CASE EndProve(r)
    <3>1. dir[r] \in DOMAIN tmp /\ mem[r] \in Good(r, source)
      BY <2>15 DEF EndProve
    <3>2. pc' \in {[pc EXCEPT ![r] = "read"], [pc EXCEPT ![r] = "reply"]}
      BY <2>15 DEF EndProve
    <3>3. \A q \in Reqs : q # r /\ pc[q] \in HasDir => tmp'[dir[q]] = tmp[dir[q]] /\ mem'[q] = mem[q]
      BY <2>15 DEF EndProve
    <3>4. pc'[r] = "read" => tmp'[dir[r]].proof = mem[r]
      BY <2>15, <3>1 DEF EndProve
    <3>5. UNCHANGED <<source, toml, gz, dir>>
      BY <2>15 DEF EndProve
    <3> QED BY <3>1, <3>2, <3>3, <3>4, <3>5
  <2>16. CASE Finish(r)  BY <2>16 DEF Finish
  <2>17. CASE Respond(r)  BY <2>17 DEF Respond
  <2> QED BY <1>9, <2>1, <2>2, <2>3, <2>4, <2>5, <2>6, <2>7, <2>8, <2>9, <2>10,
      <2>11, <2>12, <2>13, <2>14, <2>15, <2>16, <2>17 DEF Serve
<1> QED BY <1>1, <1>2, <1>3, <1>4, <1>5, <1>6, <1>7, <1>8, <1>9 DEF Next, Boot


(* Responses carry the request's own proof. *)
LEMMA AnswerInvStep ==
  ASSUME LineOK, AnswersOK, ContentInv, AnswerInv, [Next]_vars PROVE AnswerInv'
<1> USE DEF Fixed, Files, Same, proc, disk, Rest, Goto, Choose, Advance, Abort,
      Release, Labels, InFlight, Working, Reading, Private, Locked, LineOK,
      AnswersOK, ContentInv, AnswerInv, Readable, Lost
<1>1. CASE Restart  BY <1>1 DEF Restart
<1>2. CASE Compile  BY <1>2 DEF Compile
<1>3. CASE WriteVk  BY <1>3 DEF WriteVk
<1>4. CASE RenameVk  BY <1>4 DEF RenameVk
<1>5. CASE Redeploy  BY <1>5 DEF Redeploy
<1>6. CASE Crash  BY <1>6 DEF Crash
<1>7. CASE \E o \in orphans : OrphanEnds(o)  BY <1>7 DEF OrphanEnds
<1>8. CASE UNCHANGED vars  BY <1>8 DEF vars
<1>9. ASSUME NEW r \in Reqs, Connect(r) \/ ReadHead(r) \/ ReadBody(r) \/ Leave(r) \/ Serve(r)
      PROVE AnswerInv'
  <2>1. CASE Connect(r)  BY <2>1 DEF Connect
  <2>2. CASE ReadHead(r)  BY <2>2 DEF ReadHead
  <2>3. CASE ReadBody(r)
    BY <2>3, ChosenFacts DEF ReadBody
  <2>4. CASE Leave(r)  BY <2>4 DEF Leave
  <2>5. CASE MakeTmp(r)
    BY <2>5, ChosenFacts DEF MakeTmp
  <2>6. CASE WriteQuote(r)
    BY <2>6, ChosenFacts DEF WriteQuote
  <2>7. CASE WriteCollateral(r)
    BY <2>7, ChosenFacts DEF WriteCollateral
  <2>8. CASE Enqueue(r)  BY <2>8 DEF Enqueue
  <2>9. CASE Acquire(r)  BY <2>9 DEF Acquire
  <2>10. CASE RunGenprover(r)
    BY <2>10, ChosenFacts DEF RunGenprover
  <2>11. CASE WriteToml(r)
    BY <2>11, ChosenFacts DEF WriteToml
  <2>12. CASE StartExecute(r)
    BY <2>12, ChosenFacts DEF StartExecute
  <2>13. CASE EndExecute(r)
    BY <2>13, ChosenFacts DEF EndExecute
  <2>14. CASE StartProve(r)
    BY <2>14, ChosenFacts DEF StartProve
  <2>15. CASE EndProve(r)
    BY <2>15, ChosenFacts DEF EndProve
  <2>16. CASE Finish(r)
    <3>1. \/ out' = [out EXCEPT ![r] = Failure(500)]
          \/ out' = [out EXCEPT ![r] = Success(tmp[dir[r]].proof)] /\ tmp[dir[r]].proof \in OwnProofs(r)
      BY <2>16 DEF Finish, Good
    <3>2. UNCHANGED resp /\ pc' = [pc EXCEPT ![r] = "reply"]
      BY <2>16 DEF Finish
    <3> QED BY <2>16, <3>1, <3>2, ChosenFacts DEF Finish
  <2>17. CASE Respond(r)  BY <2>17 DEF Respond
  <2> QED BY <1>9, <2>1, <2>2, <2>3, <2>4, <2>5, <2>6, <2>7, <2>8, <2>9, <2>10,
      <2>11, <2>12, <2>13, <2>14, <2>15, <2>16, <2>17 DEF Serve
<1> QED BY <1>1, <1>2, <1>3, <1>4, <1>5, <1>6, <1>7, <1>8, <1>9 DEF Next, Boot


(* A step of anybody else leaves a request's directory alone. *)
LEMMA UndisturbedStep ==
  ASSUME NoneAssumption, LineOK, TmpOK, RunInv, DirInv, OrphanInv, [Next]_vars PROVE Undisturbed
<1> USE DEF Fixed, Files, Same, proc, disk, Rest, Goto, Choose, Advance, Abort,
      Release, Failure, Success, Labels, InFlight, Working, Reading, Private,
      Locked, NoneAssumption, LineOK, TmpOK, RunInv, DirInv, OrphanInv,
      Readable, Lost, Undisturbed, HasDir, WithDir, TmpName
<1>1. CASE Restart  BY <1>1 DEF Restart
<1>2. CASE Compile  BY <1>2 DEF Compile
<1>3. CASE WriteVk  BY <1>3 DEF WriteVk
<1>4. CASE RenameVk  BY <1>4 DEF RenameVk
<1>5. CASE Redeploy  BY <1>5 DEF Redeploy
<1>6. CASE Crash  BY <1>6 DEF Crash
<1>7. CASE \E o \in orphans : OrphanEnds(o)
  <2>1. PICK o \in orphans : OrphanEnds(o)
    BY <1>7
  <2>2. o.to \in DOMAIN tmp => o.to # None
    OBVIOUS
  <2>3. ASSUME NEW r \in Reqs, pc[r] \in HasDir PROVE o.to \in DOMAIN tmp => dir[r] # o.to
    <3>1. PICK n \in 0..(ctr - 1) : dir[r] = <<pid, n>>
      BY <2>3
    <3>2. srv # "down"
      BY <2>3
    <3>3. dir[r][1] = pid
      BY <3>1
    <3> QED BY <2>2, <3>2, <3>3
  <2>4. \/ tmp' = tmp
        \/ o.to \in DOMAIN tmp /\ \E p \in {o.data, Garbage} : tmp' = [tmp EXCEPT ![o.to].proof = p]
    BY <2>1 DEF OrphanEnds
  <2>5. UNCHANGED <<pc, dir>>
    BY <2>1 DEF OrphanEnds
  <2> QED BY <2>3, <2>4, <2>5
<1>8. CASE UNCHANGED vars  BY <1>8 DEF vars
<1>9. ASSUME NEW r \in Reqs, Connect(r) \/ ReadHead(r) \/ ReadBody(r) \/ Leave(r) \/ Serve(r)
      PROVE Undisturbed
  <2>1. CASE Connect(r)  BY <2>1 DEF Connect
  <2>2. CASE ReadHead(r)  BY <2>2 DEF ReadHead
  <2>3. CASE ReadBody(r)  BY <2>3 DEF ReadBody
  <2>4. CASE Leave(r)  BY <2>4 DEF Leave
  <2>5. CASE MakeTmp(r)  BY <2>5 DEF MakeTmp
  <2>6. CASE WriteQuote(r)  BY <2>6 DEF WriteQuote
  <2>7. CASE WriteCollateral(r)  BY <2>7 DEF WriteCollateral
  <2>8. CASE Enqueue(r)  BY <2>8 DEF Enqueue
  <2>9. CASE Acquire(r)  BY <2>9 DEF Acquire
  <2>10. CASE RunGenprover(r)  BY <2>10 DEF RunGenprover
  <2>11. CASE WriteToml(r)  BY <2>11 DEF WriteToml
  <2>12. CASE StartExecute(r)  BY <2>12 DEF StartExecute
  <2>13. CASE EndExecute(r)  BY <2>13 DEF EndExecute
  <2>14. CASE StartProve(r)  BY <2>14 DEF StartProve
  <2>15. CASE EndProve(r)  BY <2>15 DEF EndProve
  <2>16. CASE Finish(r)  BY <2>16 DEF Finish
  <2>17. CASE Respond(r)  BY <2>17 DEF Respond
  <2> QED BY <1>9, <2>1, <2>2, <2>3, <2>4, <2>5, <2>6, <2>7, <2>8, <2>9, <2>10,
      <2>11, <2>12, <2>13, <2>14, <2>15, <2>16, <2>17 DEF Serve
<1> QED BY <1>1, <1>2, <1>3, <1>4, <1>5, <1>6, <1>7, <1>8, <1>9 DEF Next, Boot



LEMMA IInvInit ==
  ASSUME ServerAssumption, Init PROVE IInv
<1> USE DEF Init, Labels, InFlight, Working, Reading, Private, Locked, Lost
<1>1. TypeOK
  <2>1. 1 \in Versions
    BY DEF ServerAssumption, Versions
  <2> QED BY <2>1 DEF TypeOK
<1>2. MemInv /\ RunInv /\ LockInv /\ DirInv /\ OrphanInv
  BY DEF MemInv, RunInv, LockInv, DirInv, OrphanInv, HasDir
<1> QED BY <1>1, <1>2 DEF IInv

LEMMA IInvStep ==
  ASSUME ServerAssumption, NoneAssumption, IInv, [Next]_vars PROVE IInv'
<1> USE DEF IInv
<1>1. TypeOK'
  <2>1. ControlOK' /\ LineOK' /\ SharedOK' /\ TmpOK'
    BY TypeParts, ControlOKStep, LineOKStep, SharedOKStep, TmpOKStep
  <2>2. HeldOK' /\ AnswersOK' /\ OrphansOK'
    BY TypeParts, HeldOKStep, AnswersOKStep, OrphansOKStep
  <2> QED BY <2>1, <2>2, TypeParts
<1>2. MemInv' /\ RunInv'
  BY MemInvStep, RunInvStep
<1>3. LockInv' /\ DirInv' /\ OrphanInv'
  BY LockInvStep, DirInvStep, OrphanInvStep
<1> QED BY <1>1, <1>2, <1>3

(* The inductive invariant: who holds the lock, what stands in which file   *)
(* and which directories belong to whom, at every step of every handler,    *)
(* whether or not tools die with the service.                               *)
THEOREM Invariance == Spec => []IInv
<1>1. Init => IInv
  BY IInvInit, ServerAssumption
<1>2. IInv /\ [Next]_vars => IInv'
  BY IInvStep, ServerAssumption, NoneAssumption
<1> QED BY <1>1, <1>2, PTL DEF Spec

(* Every variable keeps its type: phases, queue, files and responses.       *)
THEOREM TypeCorrect == Spec => []TypeOK
<1>1. IInv => TypeOK
  BY DEF IInv
<1> QED BY <1>1, Invariance, PTL

(* While a request waits or runs, its directory exists and no step but its  *)
(* own changes it (tempdir(), main.rs 300-309), even with tools that        *)
(* outlive the service.                                                     *)
THEOREM DirectoriesUndisturbed == Spec => DirsUndisturbed
<1>1. IInv /\ [Next]_vars => Undisturbed
  BY UndisturbedStep, TypeParts, NoneAssumption DEF IInv
<1>2. Undisturbed =>
        [\A r \in Reqs :
           pc[r] \in Private \cup Locked \cup {"wait"} /\ pc'[r] = pc[r]
             => dir[r] \in DOMAIN tmp' /\ tmp'[dir[r]] = tmp[dir[r]]]_vars
  BY DEF Undisturbed, HasDir
<1> QED BY <1>1, <1>2, Invariance, PTL DEF Spec, DirsUndisturbed

--------------------------------------------------------------------------------
(* From here on the tools die with the service.                             *)

LEMMA CInvStep ==
  ASSUME ServerAssumption, Contained, IInv, CInv, [Next]_vars PROVE CInv'
<1> USE DEF CInv, IInv
<1>1. orphans' = {}
  BY DEF Next, Boot, Serve, Restart, Compile, WriteVk, RenameVk, Redeploy, Crash, OrphanEnds,
     Connect, ReadHead, ReadBody, Leave, MakeTmp, WriteQuote, WriteCollateral, Enqueue,
     Acquire, RunGenprover, WriteToml, StartExecute, EndExecute, StartProve, EndProve,
     Finish, Respond, Rest, Fixed, Same, vars
<1>2. KeyInv'
  BY KeyInvStep
<1>3. ContentInv'
  BY ContentInvStep, TypeParts
<1>4. AnswerInv'
  BY AnswerInvStep, TypeParts
<1> QED BY <1>1, <1>2, <1>3, <1>4

(* With tools that die with the service, the stronger invariant: the shared *)
(* files hold the lock holder's inputs from the step that wrote them on.    *)
THEOREM ContainedInvariance == ASSUME Contained PROVE Spec => []CInv
<1>1. Init => CInv
  BY LostNames, ServerAssumption DEF Init, CInv, KeyInv, ContentInv, AnswerInv, Locked, Lost
<1>2. IInv /\ CInv /\ [Next]_vars => CInv'
  BY CInvStep, ServerAssumption, Contained
<1> QED BY <1>1, <1>2, Invariance, PTL DEF Spec

(* A step that is, or stays, in service keeps the key of the circuit.       *)
LEMMA FreshKeyStep ==
  ASSUME ServerAssumption, IInv, CInv, CInv', [Next]_vars, srv' = "serving"
  PROVE IF srv = "serving"
        THEN vk' = vk /\ (json' \in {vk, Garbage} \/ (vk < source /\ json' = source))
        ELSE json' \in Versions /\ vk' = json'
<1>1. CASE srv = "serving"
  <2>1. vk' = vk /\ source' = source
    BY <1>1 DEF Next, Boot, Serve, Restart, Compile, WriteVk, RenameVk, Redeploy, Crash,
       OrphanEnds, Connect, ReadHead, ReadBody, Leave, MakeTmp, WriteQuote,
       WriteCollateral, Enqueue, Acquire, RunGenprover, WriteToml, StartExecute,
       EndExecute, StartProve, EndProve, Finish, Respond, Rest, Fixed, Same, disk, vars
  <2>2. json' \in {vk', Garbage} \/ (vk' < source' /\ json' = source')
    BY DEF CInv, KeyInv
  <2> QED BY <1>1, <2>1, <2>2
<1>2. CASE srv # "serving"
  <2>1. RenameVk
    BY <1>2 DEF Next, Boot, Serve, Restart, Compile, WriteVk, Redeploy, Crash,
       OrphanEnds, Connect, ReadHead, ReadBody, Leave, MakeTmp, WriteQuote,
       WriteCollateral, Enqueue, Acquire, RunGenprover, WriteToml, StartExecute,
       EndExecute, StartProve, EndProve, Finish, Respond, Fixed, Same, proc, vars
  <2> QED BY <1>2, <2>1 DEF RenameVk, CInv, KeyInv
<1> QED BY <1>1, <1>2

(* The service starts with a whole circuit and its key, keeps the key, and  *)
(* has another circuit beside it only if the sources are newer (prepare(),  *)
(* main.rs 104-128, and `nargo execute`, 160), across crashes, restarts and *)
(* redeployments.                                                           *)
THEOREM FreshKeyAlways == ASSUME Contained PROVE Spec => FreshKey
<1>1. IInv /\ CInv /\ CInv' /\ [Next]_vars =>
        [srv' = "serving" =>
           IF srv = "serving"
           THEN vk' = vk /\ (json' \in {vk, Garbage} \/ (vk < source /\ json' = source))
           ELSE json' \in Versions /\ vk' = json']_vars
  BY FreshKeyStep, ServerAssumption
<1> QED BY <1>1, Invariance, ContainedInvariance, Contained, PTL DEF Spec, FreshKey

(* In the shipped image the sources never change below a compiled circuit   *)
(* (Dockerfile).                                                            *)
CircuitFollowsSources == [][source' # source => json' \in {None, source'}]_vars

(* Whatever is compiled is compiled from the sources as they are.           *)
SourceInv == /\ json \in {source} \cup Lost
             /\ srv = "serving" => vk = source /\ json # None

(* Every circuit that can be read is the one of the key.                    *)
KeyMatches == srv = "serving" => vk = source /\ json \in {vk, Garbage}

(* If the circuit is deleted or replaced whenever its sources change, every *)
(* proof is made of the sources' circuit under the key of that circuit, at  *)
(* every moment the service is up: here prepare()'s "a recompiled circuit   *)
(* always proves under a fresh key" (main.rs 123-125) holds.                *)
THEOREM KeyMatchesInImage ==
  ASSUME Contained PROVE Spec /\ CircuitFollowsSources => []KeyMatches
<1> DEFINE Follows == source' # source => json' \in {None, source'}
<1>1. Init => SourceInv
  BY DEF Init, SourceInv, Lost
<1>2. ASSUME IInv, CInv, SourceInv, [Next]_vars, [Follows]_vars PROVE SourceInv'
  <2> USE DEF SourceInv, Lost, Rebuilt
  <2>1. CASE UNCHANGED <<json, source, vk, srv>>
    BY <1>2, <2>1
  <2>2. CASE Restart
    BY <1>2, <2>2 DEF Restart, disk
  <2>3. CASE Compile
    BY <1>2, <2>3 DEF Compile, Rest
  <2>4. CASE WriteVk
    BY <1>2, <2>4 DEF WriteVk, Rest
  <2>5. CASE RenameVk
    BY <1>2, <2>5, LostNames, ServerAssumption DEF RenameVk, Rest, CInv, KeyInv, Lost
  <2>6. CASE Redeploy
    BY <1>2, <2>6 DEF Redeploy, proc, vars, IInv, TypeOK, Versions
  <2>7. CASE Crash
    BY <1>2, <2>7 DEF Crash
  <2>8. CASE \E r \in Reqs : EndExecute(r)
    BY <1>2, <2>8, LostNames, ServerAssumption DEF EndExecute, proc, IInv, TypeOK
  <2> QED
    BY <1>2, <2>1, <2>2, <2>3, <2>4, <2>5, <2>6, <2>7, <2>8
    DEF CInv, Next, Boot, Serve, Connect, ReadHead, ReadBody, Leave, MakeTmp, WriteQuote,
        WriteCollateral, Enqueue, Acquire, RunGenprover, WriteToml, StartExecute,
        StartProve, EndProve, Finish, Respond, Fixed, Same, proc, disk, vars
<1>3. SourceInv => KeyMatches
  BY DEF SourceInv, KeyMatches, Lost
<1> QED BY <1>1, <1>2, <1>3, Invariance, ContainedInvariance, Contained, PTL
        DEF Spec, CircuitFollowsSources

(* Every successful response carries a proof of the quote, the collateral   *)
(* and the timestamp of the request it answers (prove(), main.rs 130-188).  *)
THEOREM OwnProofAlways == ASSUME Contained PROVE Spec => []OwnProof
<1>1. CInv => OwnProof
  <2> SUFFICES ASSUME CInv, NEW r \in Reqs, resp[r] # None, resp[r].code = 200
               PROVE resp[r].proof \in Proofs /\ resp[r].proof.input = Own(r)
    BY DEF OwnProof
  <2>1. resp[r] \in Chosen(r)
    BY DEF CInv, AnswerInv
  <2>2. PICK p \in OwnProofs(r) : resp[r] = Success(p)
    BY <2>1 DEF Chosen, Failure
  <2>3. resp[r].proof = p
    BY <2>2 DEF Success
  <2> QED BY <2>2, <2>3 DEF OwnProofs
<1> QED BY <1>1, ContainedInvariance, Contained, PTL

(* Requests are serialized over the shared Prover.toml and witness paths    *)
(* (main.rs 16-17, 140-142).                                                *)
THEOREM SerializedAlways == ASSUME Contained PROVE Spec => []Serialized
<1>1. IInv /\ CInv => Serialized
  <2> SUFFICES ASSUME IInv, CInv PROVE Serialized
    OBVIOUS
  <2> DEFINE S == {r \in Reqs : pc[r] \in Locked}
  <2>1. {o \in orphans : o.tool = "execute"} = {} /\ Cardinality({}) = 0
    BY FS_EmptySet DEF CInv
  <2>2. S = {} \/ \E r \in Reqs : S = {r}
    <3>1. \A r \in S : r = Head(queue)
      BY DEF IInv, LockInv
    <3> QED BY <3>1
  <2>3. Cardinality(S) \in {0, 1}
    BY <2>1, <2>2, FS_Singleton
  <2>4. Cardinality(S) + Cardinality({o \in orphans : o.tool = "execute"}) <= 1
    BY <2>1, <2>3
  <2> QED BY <2>4 DEF Serialized
<1> QED BY <1>1, Invariance, ContainedInvariance, Contained, PTL

--------------------------------------------------------------------------------
(* ProveServer implements ProofService.                                     *)

(* The phase of every label.                                                *)
LEMMA PhaseValues ==
  /\ \A x : PhaseAt("idle", x) = "new"
  /\ \A x : \A l \in Reading \cup Private \cup {"mktmp"} : PhaseAt(l, x) = "open"
  /\ \A x : \A l \in Locked \cup {"wait"} : PhaseAt(l, x) = "queued"
  /\ \A x : PhaseAt("reply", x) = "decided"
  /\ \A x : PhaseAt("closed", x) = IF x = None THEN "dropped" ELSE "answered"
  BY DEF PhaseAt, Reading, Private, Locked

(* One task moving from one label to another moves one connection's phase.  *)
LEMMA PhaseStep ==
  ASSUME IInv, IInv', NEW r \in Reqs, NEW l \in Labels, pc' = [pc EXCEPT ![r] = l],
         \A q \in Reqs : q # r => resp'[q] = resp[q]
  PROVE /\ PhaseFn[r] = PhaseAt(pc[r], resp[r])
        /\ PhaseFn' = [PhaseFn EXCEPT ![r] = PhaseAt(l, resp'[r])]
<1>1. pc \in [Reqs -> Labels] /\ pc' \in [Reqs -> Labels]
  BY DEF IInv, TypeOK
<1> QED BY <1>1 DEF PhaseFn

Abstract == [Service!Next]_(Service!vars)

(* Steps inside a phase are invisible.                                      *)
LEMMA Invisible ==
  ASSUME IInv, IInv', NEW r \in Reqs, NEW l \in Labels, pc' = [pc EXCEPT ![r] = l],
         UNCHANGED <<queue, out, resp, source>>,
         PhaseAt(pc[r], resp[r]) = PhaseAt(l, resp[r])
  PROVE Abstract
<1>1. PhaseFn' = PhaseFn
  BY PhaseStep DEF PhaseFn
<1> QED BY <1>1 DEF Abstract, Service!vars, PhaseFn

(* A request refused before it reaches the lock.                            *)
LEMMA Refusing ==
  ASSUME IInv, IInv', NEW r \in Reqs, pc[r] \in Reading \cup Private \cup {"mktmp"},
         pc' = [pc EXCEPT ![r] = "reply"],
         NEW d \in {Failure(c) : c \in {400, 404, 500}}, out' = [out EXCEPT ![r] = d],
         UNCHANGED <<queue, resp, source>>
  PROVE Service!Refuse(r)
<1>1. "reply" \in Labels
  BY DEF Labels, InFlight
<1>2. PhaseFn[r] = "open" /\ PhaseFn' = [PhaseFn EXCEPT ![r] = "decided"]
  <2>1. /\ PhaseFn[r] = PhaseAt(pc[r], resp[r])
        /\ PhaseFn' = [PhaseFn EXCEPT ![r] = PhaseAt("reply", resp'[r])]
    BY <1>1, PhaseStep
  <2>2. PhaseAt(pc[r], resp[r]) = "open" /\ PhaseAt("reply", resp'[r]) = "decided"
    BY PhaseValues
  <2> QED BY <2>1, <2>2
<1>3. d \in Service!Refusals
  BY DEF Failure, Service!Refusals, Service!Refusal
<1> QED BY <1>2, <1>3 DEF Service!Refuse, Service!Move, PhaseFn

(* The holder of the lock gives it back with its verdict.                   *)
LEMMA Deciding ==
  ASSUME IInv, IInv', NEW r \in Reqs, pc[r] \in Locked, pc' = [pc EXCEPT ![r] = "reply"],
         NEW d \in {Success(p) : p \in Good(r, source)} \cup {Failure(500)},
         out' = [out EXCEPT ![r] = d], queue' = Tail(queue), UNCHANGED <<resp, source>>
  PROVE Service!Serve(r)
<1>1. "reply" \in Labels
  BY DEF Labels, InFlight
<1>2. PhaseFn[r] = "queued" /\ PhaseFn' = [PhaseFn EXCEPT ![r] = "decided"]
  <2>1. /\ PhaseFn[r] = PhaseAt(pc[r], resp[r])
        /\ PhaseFn' = [PhaseFn EXCEPT ![r] = PhaseAt("reply", resp'[r])]
    BY <1>1, PhaseStep
  <2>2. PhaseAt(pc[r], resp[r]) = "queued" /\ PhaseAt("reply", resp'[r]) = "decided"
    BY PhaseValues
  <2> QED BY <2>1, <2>2
<1>3. d \in Service!Verdicts(r)
  <2>1. Good(r, source) \subseteq Service!GoodProofs(r)
    BY DEF Good, OwnProofs, Proofs, Own, Service!GoodProofs, Service!Own
  <2> QED BY <2>1 DEF Success, Failure, Service!Verdicts, Service!Success, Service!Refusal
<1>4. queue # <<>> /\ Head(queue) = r
  BY DEF IInv, LockInv
<1> QED BY <1>2, <1>3, <1>4 DEF Service!Serve, Service!Move, PhaseFn

(* Labels inside one phase.                                                 *)
LEMMA SamePhase ==
  /\ \A x : \A l, k \in Reading \cup Private \cup {"mktmp"} : PhaseAt(l, x) = PhaseAt(k, x)
  /\ \A x : \A l, k \in Locked \cup {"wait"} : PhaseAt(l, x) = PhaseAt(k, x)
  BY PhaseValues

(* Everything before the lock either goes on or is refused.                 *)
LEMMA BeforeLock ==
  ASSUME IInv, IInv', NEW r \in Reqs,
         MakeTmp(r) \/ WriteQuote(r) \/ WriteCollateral(r) \/ ReadBody(r)
  PROVE Abstract
<1> USE DEF Same, Fixed, Goto, Choose, Advance, Abort, Release, Private, Reading, Locked
<1> DEFINE Refusals == {Failure(c) : c \in {400, 404, 500}}
           Refused(d) == pc' = [pc EXCEPT ![r] = "reply"] /\ out' = [out EXCEPT ![r] = d]
<1>1. pc[r] \in Reading \cup Private \cup {"mktmp"} /\ UNCHANGED <<queue, resp, source>>
  BY DEF MakeTmp, WriteQuote, WriteCollateral, ReadBody, disk
<1>2. \/ \E l \in Private \cup {"mktmp"} : pc' = [pc EXCEPT ![r] = l] /\ UNCHANGED out
      \/ \E d \in Refusals : Refused(d)
  <2>1. Failure(400) \in Refusals /\ Failure(404) \in Refusals /\ Failure(500) \in Refusals
    OBVIOUS
  <2> HIDE DEF Refusals
  <2> QED BY <2>1 DEF MakeTmp, WriteQuote, WriteCollateral, ReadBody
<1>3. CASE \E l \in Private \cup {"mktmp"} : pc' = [pc EXCEPT ![r] = l] /\ UNCHANGED out
  <2>1. PICK l \in Private \cup {"mktmp"} : pc' = [pc EXCEPT ![r] = l]
    BY <1>3
  <2>2. l \in Labels
    BY DEF Labels, InFlight, Working
  <2>3. PhaseAt(pc[r], resp[r]) = PhaseAt(l, resp[r])
    BY <1>1, SamePhase
  <2> QED BY <1>1, <1>3, <2>1, <2>2, <2>3, Invisible
<1>4. CASE \E d \in Refusals : Refused(d)
  <2>1. PICK d \in Refusals : Refused(d)
    BY <1>4
  <2> HIDE DEF Reading, Private
  <2>3. Service!Refuse(r)
    BY <1>1, <2>1, Refusing
  <2> QED BY <2>3 DEF Abstract, Service!Next
<1> QED BY <1>2, <1>3, <1>4

(* Everything under the lock either goes on or decides the request.         *)
LEMMA UnderLock ==
  ASSUME IInv, IInv', ContentInv, NEW r \in Reqs,
         \/ RunGenprover(r) \/ WriteToml(r) \/ StartExecute(r) \/ EndExecute(r)
         \/ StartProve(r) \/ EndProve(r) \/ Finish(r)
  PROVE Abstract
<1> USE DEF Same, Fixed, Locked
<1>1. pc[r] \in Locked /\ UNCHANGED <<resp, source>>
  BY DEF RunGenprover, WriteToml, StartExecute, EndExecute, StartProve, EndProve, Finish, disk
<1>2. \/ /\ \E l \in Locked : pc' = [pc EXCEPT ![r] = l]
         /\ UNCHANGED <<queue, out>>
      \/ /\ pc' = [pc EXCEPT ![r] = "reply"] /\ queue' = Tail(queue)
         /\ \E d \in {Success(p) : p \in Good(r, source)} \cup {Failure(500)} :
              out' = [out EXCEPT ![r] = d]
  <2>1. CASE \E l \in Locked : Advance(r, l)
    BY <2>1 DEF Advance, Goto
  <2>2. CASE Abort(r)
    <3>1. /\ pc' = [pc EXCEPT ![r] = "reply"] /\ queue' = Tail(queue)
          /\ out' = [out EXCEPT ![r] = Failure(500)]
      BY <1>1, <2>2 DEF Abort, Release, Choose, Goto
    <3> QED BY <3>1, Zenon
  <2>3. CASE Finish(r) /\ ~Abort(r)
    <3>1. /\ pc[r] = "read" /\ pc' = [pc EXCEPT ![r] = "reply"] /\ queue' = Tail(queue)
          /\ out' = [out EXCEPT ![r] = Success(tmp[dir[r]].proof)]
      BY <2>3 DEF Finish, Release, Choose, Goto
    <3>2. tmp[dir[r]].proof \in Good(r, source)
      BY <3>1 DEF ContentInv
    <3> QED BY <3>1, <3>2
  <2>4. CASE RunGenprover(r) \/ WriteToml(r)
    <3>1. Advance(r, "toml") \/ Advance(r, "nargo") \/ Abort(r)
      BY <2>4, Zenon DEF RunGenprover, WriteToml
    <3> QED BY <2>1, <2>2, <3>1
  <2>5. CASE StartExecute(r) \/ EndExecute(r)
    <3>1. Advance(r, "witness") \/ Advance(r, "bb") \/ Abort(r)
      BY <2>5, Zenon DEF StartExecute, EndExecute
    <3> QED BY <2>1, <2>2, <3>1
  <2>6. CASE StartProve(r) \/ EndProve(r)
    <3>1. Advance(r, "prove") \/ Advance(r, "read") \/ Abort(r)
      BY <2>6, Zenon DEF StartProve, EndProve
    <3> QED BY <2>1, <2>2, <3>1
  <2> QED BY <2>2, <2>3, <2>4, <2>5, <2>6
<1>3. CASE /\ \E l \in Locked : pc' = [pc EXCEPT ![r] = l]
           /\ UNCHANGED <<queue, out>>
  <2>1. PICK l \in Locked : pc' = [pc EXCEPT ![r] = l]
    BY <1>3
  <2>2. l \in Labels
    BY DEF Labels, InFlight, Working
  <2>3. PhaseAt(pc[r], resp[r]) = PhaseAt(l, resp[r])
    BY <1>1, SamePhase
  <2> QED BY <1>1, <1>3, <2>1, <2>2, <2>3, Invisible
<1>4. CASE /\ pc' = [pc EXCEPT ![r] = "reply"] /\ queue' = Tail(queue)
           /\ \E d \in {Success(p) : p \in Good(r, source)} \cup {Failure(500)} :
                out' = [out EXCEPT ![r] = d]
  <2>1. Service!Serve(r)
    BY <1>1, <1>4, Deciding
  <2> QED BY <2>1 DEF Abstract, Service!Next
<1> QED BY <1>2, <1>3, <1>4

(* The death of the process loses every connection that was not closed.     *)
LEMMA CrashIsOutage ==
  ASSUME IInv, IInv', AnswerInv, Crash
  PROVE Service!Outage
<1>1. UNCHANGED <<out, resp, source>> /\ queue' = <<>>
  BY DEF Crash
<1>2. ASSUME NEW r \in Reqs
      PROVE PhaseAt(pc'[r], resp'[r]) =
            IF PhaseFn[r] \in Service!InProgress THEN "dropped" ELSE PhaseFn[r]
  <2>1. pc[r] \in Labels /\ PhaseFn[r] = PhaseAt(pc[r], resp[r])
    BY DEF IInv, TypeOK, PhaseFn
  <2>2. CASE pc[r] \in InFlight
    <3>1. pc'[r] = "closed" /\ resp'[r] = None
      BY <2>2, <1>1 DEF Crash, AnswerInv, InFlight, Reading, Working, Private, Locked
    <3>2. PhaseFn[r] \in Service!InProgress
      BY <2>1, <2>2 DEF Service!InProgress, PhaseAt, InFlight, Working, Private, Reading, Locked
    <3>3. PhaseAt(pc'[r], resp'[r]) = "dropped"
      BY <3>1, PhaseValues
    <3> QED BY <3>2, <3>3
  <2>3. CASE pc[r] \in {"idle", "closed"}
    <3>1. pc'[r] = pc[r] /\ resp'[r] = resp[r]
      BY <2>3, <1>1 DEF Crash, InFlight, Reading, Working, Private, Locked
    <3>2. PhaseFn[r] \notin Service!InProgress
      BY <2>1, <2>3 DEF Service!InProgress, PhaseAt, Private, Reading, Locked
    <3> QED BY <2>1, <3>1, <3>2
  <2> QED BY <2>1, <2>2, <2>3 DEF Labels
<1>3. PhaseFn' = [r \in Reqs |-> IF PhaseFn[r] \in Service!InProgress
                                  THEN "dropped" ELSE PhaseFn[r]]
  BY <1>2 DEF PhaseFn
<1> QED BY <1>1, <1>3 DEF Service!Outage, PhaseFn

(* New sources arrive while nothing is in progress.                         *)
LEMMA RedeployIsDeploy ==
  ASSUME IInv, IInv', Redeploy
  PROVE Service!Deploy
<1>1. source' = source + 1 /\ source' \in Versions /\ UNCHANGED <<pc, queue, out, resp>>
  BY DEF Redeploy, IInv, TypeOK
<1>2. ASSUME NEW r \in Reqs PROVE PhaseFn[r] \notin Service!InProgress
  <2>1. pc[r] \in {"idle", "closed"}
    BY DEF Redeploy, IInv, RunInv, TypeOK, Labels
  <2>2. PhaseFn[r] = PhaseAt(pc[r], resp[r])
    BY DEF PhaseFn
  <2> QED BY <2>1, <2>2, PhaseValues DEF Service!InProgress
<1>3. PhaseFn' = PhaseFn
  BY <1>1 DEF PhaseFn
<1> QED BY <1>1, <1>2, <1>3 DEF Service!Deploy

(* Every step of the service is a step of ProofService or invisible there.  *)
LEMMA StepRefines ==
  ASSUME IInv, IInv', CInv, [Next]_vars
  PROVE Abstract
<1>1. CASE \/ Restart \/ Compile \/ WriteVk \/ RenameVk
          \/ (\E o \in orphans : OrphanEnds(o)) \/ UNCHANGED vars
  <2>1. UNCHANGED <<pc, queue, out, resp, source>>
    BY <1>1 DEF Restart, Compile, WriteVk, RenameVk, Rest, disk, OrphanEnds, vars
  <2>2. PhaseFn' = PhaseFn
    BY <2>1 DEF PhaseFn
  <2> QED BY <2>1, <2>2 DEF Abstract, Service!vars, PhaseFn
<1>2. CASE Crash
  BY <1>2, CrashIsOutage DEF CInv, Abstract, Service!Next
<1>4. CASE Redeploy
  BY <1>4, RedeployIsDeploy DEF Abstract, Service!Next
<1>3. ASSUME NEW r \in Reqs, Connect(r) \/ ReadHead(r) \/ ReadBody(r) \/ Leave(r) \/ Serve(r)
      PROVE Abstract
  <2> USE DEF Labels, InFlight, Working, Reading, Private, Goto, Fixed, Same, disk, Advance
  <2>1. CASE Connect(r)
    <3>1. PhaseFn[r] = PhaseAt("idle", resp[r])
      /\ PhaseFn' = [PhaseFn EXCEPT ![r] = PhaseAt("head", resp'[r])]
      BY <2>1, PhaseStep DEF Connect
    <3>2. PhaseAt("idle", resp[r]) = "new" /\ PhaseAt("head", resp'[r]) = "open"
      BY PhaseValues
    <3>3. Service!Open(r)
      BY <2>1, <3>1, <3>2 DEF Connect, Service!Open, Service!Move, PhaseFn
    <3> QED BY <3>3 DEF Abstract, Service!Next
  <2>2. CASE ReadHead(r)
    <3>1. CASE pc' = [pc EXCEPT ![r] = "body"]
      <4>1. PhaseAt(pc[r], resp[r]) = PhaseAt("body", resp[r]) /\ UNCHANGED <<queue, out, resp, source>>
        BY <2>2, SamePhase DEF ReadHead
      <4> QED BY <3>1, <4>1, Invisible
    <3>2. CASE pc' = [pc EXCEPT ![r] = "closed"]
      <4>1. pc[r] = "head" /\ UNCHANGED <<queue, out, resp, source>> /\ resp[r] = None
        BY <2>2 DEF ReadHead, CInv, AnswerInv
      <4>2. PhaseFn[r] = PhaseAt("head", resp[r])
      /\ PhaseFn' = [PhaseFn EXCEPT ![r] = PhaseAt("closed", resp'[r])]
        BY <3>2, <4>1, PhaseStep
      <4>3. PhaseAt("head", resp[r]) = "open" /\ PhaseAt("closed", resp'[r]) = "dropped"
        BY <4>1, PhaseValues
      <4>4. Service!Drop(r)
        BY <4>1, <4>2, <4>3 DEF Service!Drop, PhaseFn
      <4> QED BY <4>4 DEF Abstract, Service!Next
    <3> QED BY <2>2, <3>1, <3>2 DEF ReadHead
  <2>3. CASE ReadBody(r) \/ MakeTmp(r) \/ WriteQuote(r) \/ WriteCollateral(r)
    BY <2>3, BeforeLock
  <2>4. CASE Leave(r)
    <3>1. UNCHANGED <<pc, queue, out, resp, source>>
      BY <2>4 DEF Leave
    <3>2. PhaseFn' = PhaseFn
      BY <3>1 DEF PhaseFn
    <3> QED BY <3>1, <3>2 DEF Abstract, Service!vars, PhaseFn
  <2>5. CASE Enqueue(r)
    <3>1. pc[r] = "lock" /\ pc' = [pc EXCEPT ![r] = "wait"] /\ UNCHANGED <<out, resp, source>>
          /\ queue' = Append(queue, r)
      BY <2>5 DEF Enqueue
    <3>2. PhaseFn[r] = PhaseAt("lock", resp[r])
      /\ PhaseFn' = [PhaseFn EXCEPT ![r] = PhaseAt("wait", resp'[r])]
      BY <3>1, PhaseStep
    <3>3. PhaseAt("lock", resp[r]) = "open" /\ PhaseAt("wait", resp'[r]) = "queued"
      BY PhaseValues
    <3>4. Service!Join(r)
      BY <3>1, <3>2, <3>3 DEF Service!Join, Service!Move, PhaseFn
    <3> QED BY <3>4 DEF Abstract, Service!Next
  <2>6. CASE Acquire(r)
    <3>1. pc[r] = "wait" /\ pc' = [pc EXCEPT ![r] = "gen"] /\ UNCHANGED <<queue, out, resp, source>>
      BY <2>6 DEF Acquire
    <3>2. PhaseAt(pc[r], resp[r]) = PhaseAt("gen", resp[r]) /\ "gen" \in Labels
      BY <3>1, SamePhase DEF Locked
    <3> QED BY <3>1, <3>2, Invisible
  <2>7. CASE \/ RunGenprover(r) \/ WriteToml(r) \/ StartExecute(r) \/ EndExecute(r)
            \/ StartProve(r) \/ EndProve(r) \/ Finish(r)
    BY <2>7, UnderLock DEF CInv
  <2>8. CASE Respond(r)
    <3>1. pc[r] = "reply" /\ pc' = [pc EXCEPT ![r] = "closed"] /\ UNCHANGED <<queue, out, source>>
          /\ resp' = IF gone[r] THEN resp ELSE [resp EXCEPT ![r] = out[r]]
      BY <2>8 DEF Respond
    <3>2. resp[r] = None /\ out[r] # None /\ resp \in [Reqs -> Answers \cup {None}]
      <4>1. resp[r] = None /\ out[r] \in Chosen(r)
        BY <3>1 DEF CInv, AnswerInv
      <4>2. out[r] \in Answers
        BY <4>1, ResponsesTyped DEF Chosen, OwnProofs
      <4> QED BY <4>1, <4>2, NoneAssumption DEF IInv, TypeOK
    <3>3. PhaseFn[r] = PhaseAt("reply", resp[r])
      /\ PhaseFn' = [PhaseFn EXCEPT ![r] = PhaseAt("closed", resp'[r])]
      <4>1. \A q \in Reqs : q # r => resp'[q] = resp[q]
        BY <3>1, <3>2
      <4>2. "closed" \in Labels
        OBVIOUS
      <4> QED BY <3>1, <4>1, <4>2, PhaseStep
    <3>4. PhaseAt("reply", resp[r]) = "decided"
      BY PhaseValues
    <3>5. CASE gone[r]
      <4>1. PhaseAt("closed", resp'[r]) = "dropped"
        BY <3>1, <3>2, <3>5, PhaseValues
      <4>2. Service!Drop(r)
        BY <3>1, <3>3, <3>4, <3>5, <4>1 DEF Service!Drop, PhaseFn
      <4> QED BY <4>2 DEF Abstract, Service!Next
    <3>6. CASE ~gone[r]
      <4>1. resp'[r] = out[r]
        BY <3>1, <3>2, <3>6
      <4>2. PhaseAt("closed", resp'[r]) = "answered"
        BY <3>2, <4>1, PhaseValues
      <4>3. Service!Deliver(r)
        BY <3>1, <3>3, <3>4, <3>6, <4>2 DEF Service!Deliver, Service!Move, PhaseFn
      <4> QED BY <4>3 DEF Abstract, Service!Next
    <3> QED BY <3>5, <3>6
  <2> QED BY <1>3, <2>1, <2>2, <2>3, <2>4, <2>5, <2>6, <2>7, <2>8 DEF Serve
<1> QED BY <1>1, <1>2, <1>3, <1>4 DEF Next, Boot

(* The service implements the atomic first-come-first-served prover, if the *)
(* tools die with it.                                                       *)
THEOREM Refinement == ASSUME Contained PROVE Spec => RefinesService
<1>1. Init => Service!Init
  BY PhaseValues DEF Init, Service!Init, PhaseFn
<1>2. IInv /\ IInv' /\ CInv /\ [Next]_vars => [Service!Next]_(Service!vars)
  BY StepRefines DEF Abstract
<1> QED BY <1>1, <1>2, Invariance, ContainedInvariance, Contained, PTL
        DEF Spec, RefinesService, Service!Spec
================================================================================
