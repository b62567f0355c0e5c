------------------------------- MODULE Workers -------------------------------
(***************************************************************************)
(* How one call block is instrumented.  SpInstrumenter::run tries four     *)
(* workers in order: replace the call insn by a jump, replace the head of  *)
(* the block by a jump, hop over a spring block nearby, replace the call   *)
(* insn by a trap.  Each saves the code, gets a buffer for the patch area  *)
(* (the blob), builds the blob, changes memory permissions and overwrites  *)
(* code; any of these may send it on to the next worker.                   *)
(*                                                                         *)
(* The caller holds g_propel_lock, so one job runs at a time; other        *)
(* threads are not stopped and keep executing the blocks being rewritten.  *)
(***************************************************************************)
EXTENDS Naturals, FiniteSets

CONSTANTS
  Points, NoPoint,
  Threads,      \* threads that execute the blocks meanwhile
  Springs,      \* blocks of the object that may serve as spring blocks
  NearSprings,  \* NearSprings[p]: those a short jump from p's block reaches
  Direct,       \* points whose call is a direct call of at least 5 bytes
  Tiny,         \* points whose block is shorter than a 5-byte jump
  Long,         \* points whose block holds an absolute jump
  Modes,        \* what may go wrong in an execution: sets of Mishaps
  MaxTries      \* MaxTries[p]: bound on the times go() comes to p's block

\* "perm": mprotect may fail.  "memory": the pool and the heap may be used up.
\* "near": memory from posix_memalign may be within 32 bits of a block.
\* "mid": a thread may stand inside the bytes that a jump replaces.
Mishaps == {"perm", "memory", "near", "mid"}

ASSUME PointAssumption ==
  /\ NoPoint \notin Points
  /\ Direct \subseteq Points /\ Tiny \subseteq Points /\ Long \subseteq Points
  /\ Tiny \intersect (Direct \union Long) = {}
ASSUME SpringAssumption == NearSprings \in [Points -> SUBSET Springs]
ASSUME ModeAssumption == Modes \subseteq SUBSET Mishaps
ASSUME TriesAssumption == MaxTries \in [Points -> Nat]

VARIABLES
  mode,         \* the member of Modes this execution is in
  job,          \* the point in work, the place in its worker, and of its SpSnippet
                \* whether blob_size_ > 0, and spring_blk_
  blob,         \* blob[p]: SpSnippet::blob_
  buffers,      \* buffers handed out, by point and number
  filled,       \* buffers that hold a patch area
  execs,        \* buffers that may be executed
  near,         \* buffers a 5-byte jump reaches
  head,         \* head[p]: what the first bytes of the block do
  call,         \* call[p]: what the call insn does
  spring,       \* spring[s]: what the spring block has been turned into
  isSpring,     \* blocks with IsSpring
  trapMap,      \* TrapWorker::inst_map_
  tries,        \* tries[p]: jobs begun on p
  instrumented, \* points whose block is instrumented()
  pos,          \* pos[t]: where a thread executes
  fault

vars == <<mode, job, blob, buffers, filled, execs, near, head, call, spring,
          isSpring, trapMap, tries, instrumented, pos, fault>>

patchVars == <<blob, buffers, filled, execs, near>>
codeVars  == <<head, call, spring>>
bookVars  == <<isSpring, trapMap, tries, instrumented>>

(***************************************************************************)
(* Buffers are numbered by point; number 0 is NULL.                        *)
(***************************************************************************)
Buffer == Points \X (Nat \ {0})
Null   == <<NoPoint, 0>>

NewJob(p, place) == [pt |-> p, at |-> place, built |-> FALSE, spring |-> "none"]

Idle    == NewJob(NoPoint, "idle")
Places  == {"idle", "insn.save", "insn.blob", "insn.build", "insn.site", "insn.exec",
            "block.blob", "block.build", "block.exec", "block.site",
            "spring.save", "spring.build", "spring.exec", "spring.reloc",
            "spring.spring", "spring.site",
            "trap.map", "trap.build", "trap.site", "end"}

\* What a piece of code does: what it did, or go to `to` by way of `by`.
Untouched == [to |-> Null, by |-> "none"]
Jump(b)   == [to |-> b, by |-> "jump"]
Hop(s)    == [to |-> s, by |-> "hop"]
Trap      == [to |-> Null, by |-> "trap"]

Init ==
  /\ mode \in Modes
  /\ job = Idle
  /\ blob = [p \in Points |-> Null]
  /\ buffers = {} /\ filled = {} /\ execs = {} /\ near = {}
  /\ head = [p \in Points |-> Untouched]
  /\ call = [p \in Points |-> Untouched]
  /\ spring = [s \in Springs |-> Untouched]
  /\ isSpring \in SUBSET Springs   \* no constructor of SpBlock sets is_spring_
  /\ trapMap = {}
  /\ tries = [p \in Points |-> 0]
  /\ instrumented = {}
  /\ pos = [t \in Threads |-> <<"out", NoPoint>>]
  /\ fault = "none"

-----------------------------------------------------------------------------
At(place) == fault = "none" /\ job.at = place   \* a fault ends the process
P         == job.pt
Go(place) == job' = [job EXCEPT !.at = place]

\* The worker has succeeded: SetInstrumented(true), on to the next command.
Success == job' = Idle /\ instrumented' = instrumented \union {P}

Die(why) == fault' = why /\ UNCHANGED job

PermFails == "perm" \in mode

\* Slip: go() does not look at instrumented().
StartAgain(p) ==
  /\ At("idle")
  /\ tries[p] < MaxTries[p]
  /\ job' = NewJob(p, "insn.save")
  /\ tries' = [tries EXCEPT ![p] = @ + 1]
  /\ blob' = [blob EXCEPT ![p] = Null]
  /\ UNCHANGED <<buffers, filled, execs, near, codeVars, isSpring, trapMap,
                 instrumented, pos, fault>>

\* go() makes a new snippet for the point and run() starts with the first worker.
Start(p) ==
  /\ At("idle")
  /\ p \notin instrumented
  /\ tries[p] < MaxTries[p]
  /\ job' = NewJob(p, "insn.save")
  /\ tries' = [tries EXCEPT ![p] = @ + 1]
  /\ blob' = [blob EXCEPT ![p] = Null]
  /\ UNCHANGED <<buffers, filled, execs, near, codeVars, isSpring, trapMap,
                 instrumented, pos, fault>>

(***************************************************************************)
(* SpSnippet::GetBlob(size): a new buffer whatever there was before.  The  *)
(* pool of the object is near or far, and executable; memory from          *)
(* posix_memalign is not executable.                                       *)
(***************************************************************************)
NextBuffer(p) == <<p, 1 + Cardinality({b \in buffers : b[1] = p})>>

NewBuffer(p) ==
  LET b == NextBuffer(p) IN
  /\ blob' = [blob EXCEPT ![p] = b]
  /\ buffers' = buffers \union {b}
  /\ \/ execs' = execs \union {b} /\ near' \in {near, near \union {b}}
     \/ execs' = execs /\ near' \in {near, IF "near" \in mode THEN near \union {b} ELSE near}

NoBuffer(p) ==
  /\ "memory" \in mode
  /\ blob' = [blob EXCEPT ![p] = Null]
  /\ UNCHANGED <<buffers, execs, near>>

\* BuildBlob once blob_ is there: "BLOB EXIST" if blob_size_ > 0.
Fill(p) ==
  filled' = IF job.built THEN filled ELSE filled \union {blob'[p]}

Built(next) == job' = [job EXCEPT !.at = next, !.built = TRUE]

BuildBlob(p, next, other) ==
  \/ blob[p] # Null /\ UNCHANGED <<blob, buffers, execs, near>> /\ Fill(p) /\ Built(next)
  \/ blob[p] = Null /\ NewBuffer(p) /\ Fill(p) /\ Built(next)
  \/ blob[p] = Null /\ NoBuffer(p) /\ UNCHANGED filled /\ Go(other)

\* SetMemoryPermission on the blob; the block workers leave the process when
\* it fails.
MakeExec(next) ==
  /\ \/ PermFails /\ Die("exit") /\ UNCHANGED execs
     \/ execs' = execs \union {blob[P]} /\ Go(next) /\ UNCHANGED fault
  /\ UNCHANGED <<blob, buffers, filled, near, codeVars, bookVars, pos>>

-----------------------------------------------------------------------------
(***************************************************************************)
(* RelocCallInsnWorker.                                                    *)
(***************************************************************************)
InsnSave ==
  /\ At("insn.save")
  /\ Go(IF P \in Direct THEN "insn.blob" ELSE "block.blob")
  /\ UNCHANGED <<patchVars, codeVars, isSpring, trapMap, tries,
                 instrumented, pos, fault>>

InsnBlob ==
  /\ At("insn.blob")
  /\ \/ NewBuffer(P) /\ Go(IF blob'[P] \in near' THEN "insn.build" ELSE "block.blob")
     \/ NoBuffer(P) /\ Go("block.blob")
  /\ UNCHANGED <<filled, codeVars, bookVars, pos, fault>>

InsnBuild ==
  /\ At("insn.build")
  /\ BuildBlob(P, "insn.site", "block.blob")
  /\ UNCHANGED <<codeVars, bookVars, pos, fault>>

\* The call insn is overwritten before the blob is made executable.
InsnSite ==
  /\ At("insn.site")
  /\ \/ PermFails /\ Go("block.blob") /\ UNCHANGED call
     \/ call' = [call EXCEPT ![P] = Jump(blob[P])] /\ Go("insn.exec")
  /\ UNCHANGED <<patchVars, head, spring, bookVars, pos, fault>>

\* If the blob cannot be made executable it is freed, which FreeBuffer always
\* does with ::free, and the call insn stays as it is.
InsnExec ==
  /\ At("insn.exec")
  /\ \/ /\ PermFails
        /\ IF blob[P] \in execs
             THEN Die("free") /\ UNCHANGED filled
             ELSE filled' = filled \ {blob[P]} /\ Go("block.blob") /\ UNCHANGED fault
        /\ UNCHANGED <<execs, instrumented>>
     \/ execs' = execs \union {blob[P]} /\ Success /\ UNCHANGED <<filled, fault>>
  /\ UNCHANGED <<blob, buffers, near, codeVars, isSpring, trapMap, tries, pos>>

(***************************************************************************)
(* RelocCallBlockWorker.                                                   *)
(***************************************************************************)
BlockBlob ==
  /\ At("block.blob")
  /\ \/ /\ NewBuffer(P)
        /\ Go(IF P \notin Tiny /\ (blob'[P] \in near' \/ P \in Long)
                THEN "block.build" ELSE "spring.save")
     \/ NoBuffer(P) /\ Go("spring.save")
  /\ UNCHANGED <<filled, codeVars, bookVars, pos, fault>>

BlockBuild ==
  /\ At("block.build")
  /\ BuildBlob(P, "block.exec", "spring.save")
  /\ UNCHANGED <<codeVars, bookVars, pos, fault>>

\* Slip: the blob is never made executable.
BlockExecSkipped ==
  At("block.exec") /\ Go("block.site") /\ UNCHANGED <<patchVars, codeVars, bookVars, pos, fault>>

BlockExec == At("block.exec") /\ MakeExec("block.site")

\* A failure to make the code writable is logged, and is a success.
BlockSite ==
  /\ At("block.site")
  /\ \/ PermFails /\ UNCHANGED head
     \/ head' = [head EXCEPT ![P] = Jump(blob[P])]
  /\ Success
  /\ UNCHANGED <<patchVars, call, spring, isSpring, trapMap, tries,
                 pos, fault>>

(***************************************************************************)
(* SpringboardWorker.                                                      *)
(***************************************************************************)
TakeSpring(s) == job' = [job EXCEPT !.at = "spring.build", !.spring = s]

\* Slip: SetIsSpring(true) is forgotten.
SpringSaveUnmarked ==
  /\ At("spring.save")
  /\ \/ NearSprings[P] = {} /\ Go("trap.map")
     \/ \E s \in NearSprings[P] : TakeSpring(s)
  /\ UNCHANGED <<patchVars, codeVars, isSpring, trapMap, tries, instrumented, pos, fault>>

\* Slip: without a spring block the point is given up.
SpringSaveGivesUp ==
  /\ At("spring.save")
  /\ \/ /\ NearSprings[P] \subseteq isSpring
        /\ Go("end")
        /\ UNCHANGED isSpring
     \/ \E s \in NearSprings[P] \ isSpring :
          TakeSpring(s) /\ isSpring' = isSpring \union {s}
  /\ UNCHANGED <<patchVars, codeVars, trapMap, tries, instrumented, pos, fault>>

\* save() looks for the spring block, and takes it.
SpringSave ==
  /\ At("spring.save")
  /\ \/ /\ NearSprings[P] \subseteq isSpring
        /\ Go("trap.map")
        /\ UNCHANGED isSpring
     \/ \E s \in NearSprings[P] \ isSpring :
          TakeSpring(s) /\ isSpring' = isSpring \union {s}
  /\ UNCHANGED <<patchVars, codeVars, trapMap, tries, instrumented, pos, fault>>

SpringBuild ==
  /\ At("spring.build")
  /\ BuildBlob(P, "spring.exec", "trap.map")
  /\ UNCHANGED <<codeVars, bookVars, pos, fault>>

SpringExec == At("spring.exec") /\ MakeExec("spring.reloc")

\* RelocateSpring does not look at what malloc returns.
SpringReloc ==
  /\ At("spring.reloc")
  /\ \/ "memory" \in mode /\ Die("null")
     \/ PermFails /\ Die("exit")
     \/ Go("spring.spring") /\ UNCHANGED fault
  /\ UNCHANGED <<patchVars, codeVars, bookVars, pos>>

\* Two absolute jumps: to the relocated spring block, and to the blob.
SpringSpring ==
  /\ At("spring.spring")
  /\ \/ PermFails /\ UNCHANGED spring
     \/ spring' = [spring EXCEPT ![job.spring] = Jump(blob[P])]
  /\ Go("spring.site")
  /\ UNCHANGED <<patchVars, head, call, bookVars, pos, fault>>

SpringSite ==
  /\ At("spring.site")
  /\ \/ PermFails /\ UNCHANGED head
     \/ head' = [head EXCEPT ![P] = Hop(job.spring)]
  /\ Success
  /\ UNCHANGED <<patchVars, call, spring, isSpring, trapMap, tries,
                 pos, fault>>

(***************************************************************************)
(* TrapWorker, the last resort.                                            *)
(***************************************************************************)
\* Slip: the point is not entered in inst_map_.
TrapMapForgotten ==
  /\ At("trap.map")
  /\ Go("trap.build")
  /\ UNCHANGED <<patchVars, codeVars, bookVars, pos, fault>>

TrapMap ==
  /\ At("trap.map")
  /\ trapMap' = trapMap \union {P}
  /\ Go("trap.build")
  /\ UNCHANGED <<patchVars, codeVars, isSpring, tries,
                 instrumented, pos, fault>>

TrapBuild ==
  /\ At("trap.build")
  /\ BuildBlob(P, "trap.site", "end")
  /\ UNCHANGED <<codeVars, bookVars, pos, fault>>

TrapSite ==
  /\ At("trap.site")
  /\ \/ PermFails /\ Go("end") /\ UNCHANGED <<call, instrumented>>
     \/ call' = [call EXCEPT ![P] = Trap] /\ Success
  /\ UNCHANGED <<patchVars, head, spring, isSpring, trapMap, tries,
                 pos, fault>>

\* No worker could do it.
GiveUp ==
  /\ At("end")
  /\ job' = Idle
  /\ UNCHANGED <<patchVars, codeVars, bookVars, pos, fault>>

-----------------------------------------------------------------------------
(***************************************************************************)
(* A thread executes a block that may be under work.                       *)
(***************************************************************************)
Out == <<"out", NoPoint>>

Stands(t, where) == fault = "none" /\ pos[t] = where

Move(t, where) == pos' = [pos EXCEPT ![t] = where] /\ UNCHANGED fault
Crash(why)     == fault' = why /\ UNCHANGED pos

\* Into the patch area.
Land(t, b) ==
  IF b \in filled /\ b \in execs' THEN Move(t, Out) ELSE Crash("wild")

Enter(t, p) ==
  /\ Stands(t, Out)
  /\ Move(t, <<"head", p>>)
  /\ UNCHANGED <<job, patchVars, codeVars, bookVars>>

Head(t, p) ==
  /\ Stands(t, <<"head", p>>)
  /\ UNCHANGED <<job, patchVars, codeVars, bookVars>>
  /\ \/ head[p].by = "none" /\ Move(t, <<"call", p>>)
     \/ head[p].by = "none" /\ "mid" \in mode /\ Move(t, <<"mid", p>>)
     \/ head[p].by = "jump" /\ Land(t, head[p].to)
     \/ /\ head[p].by = "hop"
        /\ LET s == spring[head[p].to] IN
             IF s.by = "none" THEN Crash("wild")
             ELSE IF s.to[1] # p THEN Crash("stray")
             ELSE Land(t, s.to)

\* The thread stands inside the first bytes of the block.
Mid(t, p) ==
  /\ Stands(t, <<"mid", p>>)
  /\ IF head[p].by = "none" THEN Move(t, <<"call", p>>) ELSE Crash("torn")
  /\ UNCHANGED <<job, patchVars, codeVars, bookVars>>

CallInsn(t, p) ==
  /\ Stands(t, <<"call", p>>)
  /\ UNCHANGED <<job, patchVars, codeVars, bookVars>>
  /\ \/ call[p].by = "none" /\ Move(t, Out)
     \/ call[p].by = "jump" /\ Land(t, call[p].to)
     \/ call[p].by = "trap" /\ Move(t, <<"trap", p>>)

\* TrapWorker::OnTrap: the blob becomes executable only here.
OnTrap(t, p) ==
  /\ Stands(t, <<"trap", p>>)
  /\ IF p \in trapMap
       THEN /\ execs' \in {execs \union {blob[p]}} \union (IF PermFails THEN {execs} ELSE {})
            /\ Land(t, blob[p])
       ELSE Crash("trap") /\ UNCHANGED execs
  /\ UNCHANGED <<job, blob, buffers, filled, near, codeVars, bookVars>>

Work ==
  /\ UNCHANGED mode
  /\ \/ \E p \in Points : Start(p)
     \/ InsnSave \/ InsnBlob \/ InsnBuild \/ InsnSite \/ InsnExec
     \/ BlockBlob \/ BlockBuild \/ BlockExec \/ BlockSite
     \/ SpringSave \/ SpringBuild \/ SpringExec \/ SpringReloc \/ SpringSpring
     \/ SpringSite
     \/ TrapMap \/ TrapBuild \/ TrapSite \/ GiveUp

Execute(t) ==
  /\ UNCHANGED mode
  /\ \E p \in Points : Enter(t, p) \/ Head(t, p) \/ Mid(t, p) \/ CallInsn(t, p) \/ OnTrap(t, p)

Next == Work \/ \E t \in Threads : Execute(t)

Spec == Init /\ [][Next]_vars

\* The instrumenting thread holds the lock it needs and waits for nobody.
FairSpec == Spec /\ WF_vars(Work)

-----------------------------------------------------------------------------
(***************************************************************************)
(* Properties.                                                             *)
(***************************************************************************)
Code == [to : Buffer \union {Null} \union Springs,
         by : {"none", "jump", "hop", "trap"}]

\* The types of the variables: snippets (SpSnippet), blocks (SpBlock),
\* TrapWorker::inst_map_, and where the threads and the worker stand.
TypeOK ==
  /\ mode \in Modes
  /\ job \in [pt : Points \union {NoPoint}, at : Places, built : BOOLEAN,
             spring : Springs \union {"none"}]
  /\ blob \in [Points -> Buffer \union {Null}]
  /\ buffers \subseteq Buffer
  /\ filled \subseteq buffers /\ execs \subseteq buffers /\ near \subseteq buffers
  /\ head \in [Points -> Code] /\ call \in [Points -> Code]
  /\ spring \in [Springs -> Code]
  /\ isSpring \subseteq Springs /\ trapMap \subseteq Points
  /\ \A p \in Points : tries[p] \in 0 .. MaxTries[p]
  /\ instrumented \subseteq Points
  /\ pos \in [Threads -> {Out} \union ({"head", "mid", "call", "trap"} \X Points)]
  /\ fault \in {"none", "exit", "free", "null", "torn", "wild", "stray", "trap"}

\* As long as mprotect succeeds and the heap is far away, a thread that meets
\* the block being rewritten is never sent to code that is not there yet, that
\* may not be executed, or that belongs to another call site: the order in
\* which the workers build the patch area, permit it and overwrite the program.
NoWildJump ==
  mode \intersect {"perm", "near"} = {} => fault \notin {"wild", "stray", "trap"}

\* A spring block serves one call block (FindSpringboard skips IsSpring() blocks).
HopsApart ==
  \A p, q \in Points :
    head[p].by = "hop" /\ head[q].by = "hop" /\ head[p].to = head[q].to => p = q

\* When nothing fails, one of the four workers always manages: each falls
\* through to the next, and the trap needs neither space in the block nor
\* memory nearby.
EveryPointInstrumented == mode = {} => \A p \in Points : <>(p \in instrumented)

\* A block marked instrumented() is not rewritten again, by the rest of the job
\* or by a later one.
FrozenOnceInstrumented ==
  [][\A p \in instrumented : head'[p] = head[p] /\ call'[p] = call[p]]_vars

\* A trap is in inst_map_ before it is in the code: OnTrap finds each call
\* site whose trap is hit, whatever failed on the way.
TrapIsKnown == fault # "trap"

\* What is about to be jumped to holds a patch area ("BLOB EXIST" returns the
\* blob because it has been generated before).
BlobIsGenerated ==
  job.at \in {"insn.site", "block.exec", "spring.exec", "trap.site"} => blob[job.pt] \in filled
=============================================================================
