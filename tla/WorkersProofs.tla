---------------------------- MODULE WorkersProofs ----------------------------
(***************************************************************************)
(* Proofs about Workers, for every set of points, spring blocks, threads   *)
(* and mishaps, and any number of tries.                                   *)
(***************************************************************************)
EXTENDS Workers, FiniteSetTheorems, TLAPS

\* TypeOK in parts.
JobOK ==
  job \in [pt : Points \union {NoPoint}, at : Places, built : BOOLEAN,
           spring : Springs \union {"none"}]

PatchOK ==
  /\ blob \in [Points -> Buffer \union {Null}]
  /\ buffers \subseteq Buffer /\ IsFiniteSet(buffers)
  /\ filled \subseteq buffers /\ execs \subseteq buffers /\ near \subseteq buffers
  /\ \A p \in Points : blob[p] # Null => blob[p] \in buffers /\ blob[p][1] = p

CodeOK ==
  /\ head \in [Points -> Code] /\ call \in [Points -> Code]
  /\ spring \in [Springs -> Code]

BooksOK ==
  /\ isSpring \subseteq Springs /\ trapMap \subseteq Points
  /\ tries \in [Points -> Nat] /\ \A p \in Points : tries[p] \in 0 .. MaxTries[p]
  /\ instrumented \subseteq Points

RunOK ==
  /\ mode \in Modes
  /\ pos \in [Threads -> {Out} \union ({"head", "mid", "call", "trap"} \X Points)]
  /\ fault \in {"none", "exit", "free", "null", "torn", "wild", "stray", "trap"}

\* From here on in each worker the snippet has a buffer.
Emitted == {"insn.site", "insn.exec", "block.exec", "block.site", "spring.exec",
            "spring.reloc", "spring.spring", "spring.site", "trap.site"}
AtSpring == {"spring.build", "spring.exec", "spring.reloc", "spring.spring",
             "spring.site"}

\* The job in hand is about a point that is not yet instrumented, the buffer is
\* there where it is used, and a spring block where it is written to.
InWork ==
  /\ job.at # "idle" => job.pt \in Points /\ job.pt \notin instrumented
  /\ job.at \in Emitted => blob[job.pt] # Null
  /\ job.at \in AtSpring => job.spring \in Springs

\* A trap is in the code only of a point in inst_map_ that is finished with and
\* keeps its buffer; only there do threads run into traps.
Traps ==
  /\ \A p \in Points :
       call[p].by = "trap" => p \in trapMap /\ p \in instrumented /\ blob[p] # Null
  /\ job.at \in {"trap.build", "trap.site"} => job.pt \in trapMap
  /\ \A t \in Threads, p \in Points :
       pos[t] = <<"trap", p>> => call[p].by = "trap"
  /\ fault # "trap"

Shape == JobOK /\ PatchOK /\ CodeOK /\ BooksOK /\ RunOK /\ InWork /\ Traps

LEMMA ShapeIsTypeOK == Shape => TypeOK
  BY DEF Shape, TypeOK, JobOK, PatchOK, CodeOK, BooksOK, RunOK

-----------------------------------------------------------------------------
(* What the operators for buffers and jobs do.                             *)

LEMMA BufferFacts ==
  ASSUME NEW b \in Buffer
  PROVE  b # Null /\ b[1] \in Points
  BY PointAssumption DEF Buffer, Null

\* Every step keeps what has been handed out, and moves nobody else's buffer.
Grows(p) ==
  /\ buffers \subseteq buffers' /\ execs \subseteq execs' /\ near \subseteq near'
  /\ \A q \in Points \ {p} : blob'[q] = blob[q]
  /\ "near" \notin mode /\ near \subseteq execs => near' \subseteq execs'

LEMMA NewBufferEffect ==
  ASSUME PatchOK, NEW p \in Points, NewBuffer(p),
         filled' \subseteq filled \union {blob'[p]}
  PROVE  /\ PatchOK' /\ Grows(p)
         /\ blob'[p] \in Buffer /\ blob'[p] # Null /\ blob'[p][1] = p
  <1>1. PICK n \in Nat : n = Cardinality({b \in buffers : b[1] = p})
    <2>1. IsFiniteSet({b \in buffers : b[1] = p})
      BY FS_Subset DEF PatchOK
    <2>2. QED BY <2>1, FS_CardinalityType
  <1>2. PICK b \in Buffer : b = NextBuffer(p) /\ b[1] = p
    <2>1. NextBuffer(p) = <<p, 1 + n>>
      BY <1>1 DEF NextBuffer
    <2>2. <<p, 1 + n>> \in Buffer
      BY DEF Buffer
    <2>3. QED BY <2>1, <2>2
  <1>3. b # Null
    BY BufferFacts
  <1>4. /\ blob' = [blob EXCEPT ![p] = b]
        /\ buffers' = buffers \union {b}
        /\ \/ execs' = execs \union {b} /\ near' \in {near, near \union {b}}
           \/ execs' = execs /\ near' \in {near, IF "near" \in mode THEN near \union {b} ELSE near}
    BY <1>2 DEF NewBuffer
  <1>5. blob' \in [Points -> Buffer \union {Null}] /\ blob'[p] = b
    BY <1>4 DEF PatchOK
  <1>6. IsFiniteSet(buffers')
    BY <1>4, FS_AddElement DEF PatchOK
  <1>7. /\ buffers' \subseteq Buffer /\ filled' \subseteq buffers'
        /\ execs' \subseteq buffers' /\ near' \subseteq buffers'
    BY <1>4, <1>5 DEF PatchOK
  <1>8. \A q \in Points : blob'[q] # Null => blob'[q] \in buffers' /\ blob'[q][1] = q
    BY <1>2, <1>4 DEF PatchOK
  <1>9. PatchOK'
    BY <1>5, <1>6, <1>7, <1>8 DEF PatchOK
  <1>10. Grows(p)
    BY <1>4 DEF PatchOK, Grows
  <1>11. QED BY <1>2, <1>3, <1>5, <1>9, <1>10

LEMMA NoBufferEffect ==
  ASSUME PatchOK, NEW p \in Points, NoBuffer(p), filled' = filled
  PROVE  PatchOK' /\ Grows(p) /\ blob'[p] = Null
  BY DEF PatchOK, NoBuffer, Grows

LEMMA GoEffect ==
  ASSUME JobOK, NEW place \in Places, Go(place)
  PROVE  /\ JobOK' /\ job'.at = place /\ job'.pt = job.pt
         /\ job'.built = job.built /\ job'.spring = job.spring
  BY DEF JobOK, Go

LEMMA BuiltEffect ==
  ASSUME JobOK, NEW place \in Places, Built(place)
  PROVE  /\ JobOK' /\ job'.at = place /\ job'.pt = job.pt
         /\ job'.built /\ job'.spring = job.spring
  BY DEF JobOK, Built

LEMMA TakeSpringEffect ==
  ASSUME JobOK, NEW s \in Springs, TakeSpring(s)
  PROVE  /\ JobOK' /\ job'.at = "spring.build" /\ job'.pt = job.pt
         /\ job'.built = job.built /\ job'.spring = s
  BY DEF JobOK, TakeSpring, Places

LEMMA NewJobType ==
  ASSUME NEW p \in Points \union {NoPoint}, NEW place \in Places
  PROVE  /\ NewJob(p, place) \in [pt : Points \union {NoPoint}, at : Places,
                     built : BOOLEAN, spring : Springs \union {"none"}]
         /\ NewJob(p, place).at = place /\ NewJob(p, place).pt = p
         /\ ~ NewJob(p, place).built
  BY DEF NewJob

LEMMA IdleType ==
  job' = Idle => JobOK' /\ job'.at = "idle"
  <1>1. "idle" \in Places
    BY DEF Places
  <1>2. QED BY <1>1, NewJobType DEF Idle, JobOK

\* BuildBlob ends with a buffer that belongs to the snippet, or with none.
LEMMA BuildEffect ==
  ASSUME JobOK, PatchOK, NEW p \in Points, NEW next \in Places,
         NEW other \in Places, BuildBlob(p, next, other)
  PROVE  /\ PatchOK' /\ JobOK' /\ Grows(p) /\ filled \subseteq filled'
         /\ job'.pt = job.pt /\ job'.spring = job.spring
         /\ \/ /\ job'.at = next /\ blob'[p] # Null
               /\ ~ job.built => blob'[p] \in filled'
               /\ blob[p] # Null => blob'[p] = blob[p]
            \/ /\ job'.at = other /\ job'.built = job.built
               /\ "memory" \in mode /\ blob[p] = Null
  <1>1. CASE blob[p] # Null /\ UNCHANGED <<blob, buffers, execs, near>> /\ Fill(p) /\ Built(next)
    <2>1. PatchOK'
      BY <1>1 DEF PatchOK, Fill
    <2>2. Grows(p) /\ filled \subseteq filled' /\ (~ job.built => blob'[p] \in filled')
      BY <1>1 DEF Grows, Fill
    <2>3. QED BY <1>1, <2>1, <2>2, BuiltEffect
  <1>2. CASE blob[p] = Null /\ NewBuffer(p) /\ Fill(p) /\ Built(next)
    <2>1. /\ filled' \subseteq filled \union {blob'[p]} /\ filled \subseteq filled'
          /\ ~ job.built => blob'[p] \in filled'
      BY <1>2 DEF Fill
    <2>2. QED BY <1>2, <2>1, NewBufferEffect, BuiltEffect
  <1>3. CASE blob[p] = Null /\ NoBuffer(p) /\ UNCHANGED filled /\ Go(other)
    <2>1. "memory" \in mode
      BY <1>3 DEF NoBuffer
    <2>2. QED BY <1>3, <2>1, NoBufferEffect, GoEffect
  <1>4. QED BY <1>1, <1>2, <1>3 DEF BuildBlob

LEMMA CodeType ==
  /\ Untouched \in Code
  /\ \A b \in Buffer \union {Null} :
       Jump(b) \in Code /\ Jump(b).to = b /\ Jump(b).by = "jump"
  /\ \A s \in Springs : Hop(s) \in Code /\ Hop(s).to = s /\ Hop(s).by = "hop"
  /\ Trap \in Code /\ Trap.by = "trap" /\ Untouched.by = "none"
  BY DEF Untouched, Jump, Hop, Trap, Code

LEMMA InitShape == Init => Shape
  <1> SUFFICES ASSUME Init PROVE Shape
    OBVIOUS
  <1>1. JobOK /\ job.at = "idle"
    <2>1. job = Idle
      BY DEF Init
    <2>2. "idle" \in Places
      BY DEF Places
    <2>3. QED BY <2>1, <2>2, NewJobType DEF Idle, JobOK
  <1>2. PatchOK
    BY FS_EmptySet DEF Init, PatchOK
  <1>3. CodeOK
    <2>1. PICK c \in Code : c = Untouched /\ c.by = "none"
      BY CodeType
    <2>2. QED BY <2>1 DEF Init, CodeOK
  <1>4. BooksOK
    BY TriesAssumption DEF Init, BooksOK
  <1>5. RunOK
    BY DEF Init, RunOK, Out
  <1>6. InWork
    BY <1>1 DEF InWork, Emitted, AtSpring
  <1>7. Traps
    <2>1. \A p \in Points : call[p].by = "none"
      BY CodeType DEF Init
    <2>2. \A t \in Threads, p \in Points : pos[t] # <<"trap", p>>
      BY DEF Init
    <2>3. QED BY <1>1, <2>1, <2>2 DEF Init, Traps
  <1>8. QED BY <1>1, <1>2, <1>3, <1>4, <1>5, <1>6, <1>7 DEF Shape

-----------------------------------------------------------------------------
(* Shape is inductive: the steps of the worker.                            *)

LEMMA StartShape ==
  ASSUME Shape, UNCHANGED mode, NEW p \in Points, Start(p)
  PROVE  Shape'
  <1>1. JobOK' /\ job'.at = "insn.save" /\ job'.pt = p
    <2>1. "insn.save" \in Places
      BY DEF Places
    <2>2. QED BY <2>1, NewJobType DEF Start, JobOK
  <1>2. blob' = [blob EXCEPT ![p] = Null] /\ p \notin instrumented
    BY DEF Start
  <1>3. PatchOK'
    BY <1>2 DEF Shape, PatchOK, Start
  <1>4. CodeOK' /\ RunOK'
    BY DEF Shape, CodeOK, RunOK, Start, codeVars
  <1>5. BooksOK'
    <2>1. tries' = [tries EXCEPT ![p] = tries[p] + 1] /\ tries[p] < MaxTries[p]
      BY DEF Start
    <2>2. tries \in [Points -> Nat] /\ MaxTries[p] \in Nat
      BY TriesAssumption DEF Shape, BooksOK
    <2>3. tries' \in [Points -> Nat] /\ \A q \in Points : tries'[q] \in 0 .. MaxTries[q]
      BY <2>1, <2>2 DEF Shape, BooksOK
    <2>4. QED BY <2>3 DEF Shape, BooksOK, Start
  <1>6. InWork'
    BY <1>1, <1>2 DEF InWork, Start, Emitted, AtSpring
  <1>7. Traps'
    BY <1>1, <1>2 DEF Shape, PatchOK, Traps, Start, codeVars
  <1>8. QED BY <1>1, <1>3, <1>4, <1>5, <1>6, <1>7 DEF Shape

\* A step that only moves the job to a place where nothing is asked of it.
LEMMA GoShape ==
  ASSUME Shape, UNCHANGED mode, NEW place \in Places, Go(place),
         job.at # "idle", place \notin Emitted \union AtSpring,
         place \in {"trap.build", "trap.site"} => job.pt \in trapMap,
         UNCHANGED <<patchVars, codeVars, bookVars, pos, fault>>
  PROVE  Shape'
  <1>1. /\ JobOK' /\ job'.at = place /\ job'.pt = job.pt
        /\ job'.spring = job.spring
    BY GoEffect DEF Shape
  <1>2. PatchOK' /\ CodeOK' /\ BooksOK' /\ RunOK'
    BY DEF Shape, PatchOK, CodeOK, BooksOK, RunOK, patchVars, codeVars, bookVars
  <1>3. InWork' /\ Traps'
    BY <1>1 DEF Shape, InWork, Traps, patchVars, codeVars, bookVars
  <1>4. QED BY <1>1, <1>2, <1>3 DEF Shape

LEMMA PlacesAre ==
  /\ {"insn.save", "insn.blob", "insn.build", "insn.site", "insn.exec",
      "block.blob", "block.build", "block.exec", "block.site",
      "spring.save", "spring.build", "spring.exec", "spring.reloc",
      "spring.spring", "spring.site",
      "trap.map", "trap.build", "trap.site", "end"} \subseteq Places
  /\ "idle" \notin Emitted \union AtSpring
  BY DEF Places, Emitted, AtSpring

\* A worker gets a buffer, or none: only the snippet's own buffer changes.
LEMMA BufferShape ==
  ASSUME Shape, UNCHANGED mode, job.at # "idle",
         PatchOK', JobOK', Grows(P), job'.pt = job.pt, job'.spring = job.spring,
         job'.at # "idle",
         job'.at \in Emitted => blob'[P] # Null,
         job'.at \in AtSpring => job.at \in AtSpring,
         job'.at \in {"trap.build", "trap.site"} => P \in trapMap,
         UNCHANGED <<codeVars, bookVars, pos, fault>>
  PROVE  Shape'
  <1>1. CodeOK' /\ BooksOK' /\ RunOK'
    BY DEF Shape, CodeOK, BooksOK, RunOK, codeVars, bookVars
  <1>2. InWork'
    BY DEF Shape, InWork, P, bookVars
  <1>3. Traps'
    BY DEF Shape, InWork, Traps, Grows, P, codeVars, bookVars
  <1>4. QED BY <1>1, <1>2, <1>3 DEF Shape

LEMMA InsnSaveShape ==
  ASSUME Shape, UNCHANGED mode, InsnSave
  PROVE  Shape'
  <1>1. PICK place \in {"insn.blob", "block.blob"} : Go(place)
    BY DEF InsnSave
  <1>2. /\ job.at # "idle" /\ place \in Places
        /\ place \notin Emitted \union AtSpring
        /\ UNCHANGED <<patchVars, codeVars, bookVars, pos, fault>>
    BY PlacesAre DEF InsnSave, At, Emitted, AtSpring, bookVars
  <1>3. QED BY <1>1, <1>2, GoShape

LEMMA BlobShape ==
  ASSUME Shape, UNCHANGED mode, job.at # "idle",
         NEW place \in {"insn.build", "block.build", "block.blob", "spring.save"},
         (NewBuffer(P) \/ NoBuffer(P)), Go(place),
         UNCHANGED <<filled, codeVars, bookVars, pos, fault>>
  PROVE  Shape'
  <1>1. P \in Points /\ JobOK /\ PatchOK
    BY DEF Shape, InWork, P
  <1>2. PatchOK' /\ Grows(P)
    BY <1>1, NewBufferEffect, NoBufferEffect
  <1>3. /\ JobOK' /\ job'.at = place /\ job'.pt = job.pt
        /\ job'.spring = job.spring
    BY <1>1, GoEffect, PlacesAre
  <1>4. place \notin Emitted \union AtSpring
    BY DEF Emitted, AtSpring
  <1>5. QED BY <1>2, <1>3, <1>4, BufferShape

LEMMA BuildShape ==
  ASSUME Shape, UNCHANGED mode, job.at # "idle",
         NEW next \in Places, NEW other \in Places, BuildBlob(P, next, other),
         other \notin Emitted \union AtSpring,
         next # "idle", other # "idle",
         next \in AtSpring => job.at \in AtSpring,
         next \in {"trap.build", "trap.site"} => P \in trapMap,
         other \notin {"trap.build", "trap.site"},
         UNCHANGED <<codeVars, bookVars, pos, fault>>
  PROVE  Shape'
  <1>1. P \in Points /\ JobOK /\ PatchOK
    BY DEF Shape, InWork, P
  <1>2. /\ PatchOK' /\ JobOK' /\ Grows(P)
        /\ job'.pt = job.pt /\ job'.spring = job.spring
        /\ \/ job'.at = next /\ blob'[P] # Null
           \/ job'.at = other
    BY <1>1, BuildEffect
  <1>3. QED BY <1>2, BufferShape

LEMMA BuildsShape ==
  ASSUME Shape, UNCHANGED mode, InsnBuild \/ BlockBuild \/ SpringBuild \/ TrapBuild
  PROVE  Shape'
  <1>1. CASE InsnBuild
    <2>1. /\ job.at # "idle" /\ BuildBlob(P, "insn.site", "block.blob")
          /\ UNCHANGED <<codeVars, bookVars, pos, fault>>
      BY <1>1 DEF InsnBuild, At
    <2>2. "block.blob" \notin Emitted \union AtSpring /\ "insn.site" \notin AtSpring
      BY DEF Emitted, AtSpring
    <2>3. QED BY <2>1, <2>2, PlacesAre, BuildShape
  <1>2. CASE BlockBuild
    <2>1. /\ job.at # "idle" /\ BuildBlob(P, "block.exec", "spring.save")
          /\ UNCHANGED <<codeVars, bookVars, pos, fault>>
      BY <1>2 DEF BlockBuild, At
    <2>2. "spring.save" \notin Emitted \union AtSpring /\ "block.exec" \notin AtSpring
      BY DEF Emitted, AtSpring
    <2>3. QED BY <2>1, <2>2, PlacesAre, BuildShape
  <1>3. CASE SpringBuild
    <2>1. /\ job.at = "spring.build" /\ BuildBlob(P, "spring.exec", "trap.map")
          /\ UNCHANGED <<codeVars, bookVars, pos, fault>>
      BY <1>3 DEF SpringBuild, At
    <2>2. "trap.map" \notin Emitted \union AtSpring /\ job.at \in AtSpring
      BY <2>1 DEF Emitted, AtSpring
    <2>3. QED BY <2>1, <2>2, PlacesAre, BuildShape
  <1>4. CASE TrapBuild
    <2>1. /\ job.at = "trap.build" /\ BuildBlob(P, "trap.site", "end")
          /\ UNCHANGED <<codeVars, bookVars, pos, fault>>
      BY <1>4 DEF TrapBuild, At
    <2>2. "end" \notin Emitted \union AtSpring /\ "trap.site" \notin AtSpring
      BY DEF Emitted, AtSpring
    <2>3. P \in trapMap
      BY <2>1 DEF Shape, Traps, P
    <2>4. QED BY <2>1, <2>2, <2>3, PlacesAre, BuildShape
  <1>5. QED BY <1>1, <1>2, <1>3, <1>4

LEMMA InsnBlobShape ==
  ASSUME Shape, UNCHANGED mode, InsnBlob \/ BlockBlob
  PROVE  Shape'
  <1>1. job.at # "idle" /\ UNCHANGED <<filled, codeVars, bookVars, pos, fault>>
    BY DEF InsnBlob, BlockBlob, At
  <1>2. \E place \in {"insn.build", "block.build", "block.blob", "spring.save"} :
          (NewBuffer(P) \/ NoBuffer(P)) /\ Go(place)
    BY DEF InsnBlob, BlockBlob
  <1>3. QED BY <1>1, <1>2, BlobShape

LEMMA InsnSiteShape ==
  ASSUME Shape, UNCHANGED mode, InsnSite
  PROVE  Shape'
  <1>1. PICK place \in {"block.blob", "insn.exec"} :
          /\ Go(place)
          /\ call' = call \/ call' = [call EXCEPT ![P] = Jump(blob[P])]
    BY DEF InsnSite
  <1>2. /\ JobOK' /\ job'.at = place /\ job'.pt = job.pt
        /\ job'.spring = job.spring
    BY <1>1, GoEffect, PlacesAre DEF Shape
  <1>3. /\ P \in Points /\ P \notin instrumented
        /\ blob[P] # Null /\ blob[P] \in Buffer \union {Null}
    BY DEF InsnSite, At, Shape, InWork, PatchOK, P, Emitted
  <1>4. PICK c \in Code : c = Jump(blob[P]) /\ c.by = "jump"
    BY <1>3, CodeType
  <1>5. /\ call' \in [Points -> Code]
        /\ \A p \in Points : call'[p] = call[p] \/ (p = P /\ call'[p].by = "jump")
    BY <1>1, <1>4 DEF Shape, CodeOK
  <1>6. PatchOK' /\ CodeOK' /\ BooksOK' /\ RunOK'
    BY <1>5 DEF InsnSite, Shape, PatchOK, CodeOK, BooksOK, RunOK, patchVars, bookVars
  <1>7. InWork'
    BY <1>2, <1>3 DEF InsnSite, InWork, P, AtSpring, patchVars, bookVars
  <1>8. Traps'
    <2>1. \A p \in Points : call'[p].by = "trap" => call[p].by = "trap"
      BY <1>5
    <2>2. call[P].by # "trap"
      BY <1>3 DEF Shape, Traps
    <2>3. \A p \in Points : call[p].by = "trap" => call'[p] = call[p]
      BY <1>5, <2>2
    <2>4. QED BY <1>2, <2>1, <2>3 DEF InsnSite, Shape, Traps, RunOK, patchVars, bookVars
  <1>9. QED BY <1>2, <1>6, <1>7, <1>8 DEF Shape

\* A step that kills the process, or ends the job, and changes no code.
LEMMA DieShape ==
  ASSUME Shape, UNCHANGED mode, NEW why \in {"exit", "free", "null"}, Die(why),
         UNCHANGED <<patchVars, codeVars, bookVars, pos>>
  PROVE  Shape'
  BY DEF Shape, Die, JobOK, PatchOK, CodeOK, BooksOK, RunOK, InWork, Traps,
         patchVars, codeVars, bookVars

LEMMA InsnExecShape ==
  ASSUME Shape, UNCHANGED mode, InsnExec
  PROVE  Shape'
  <1>1. /\ P \in Points /\ job.at = "insn.exec"
        /\ blob[P] # Null /\ blob[P] \in buffers
    BY DEF InsnExec, At, Shape, InWork, PatchOK, P, Emitted
  <1>2. UNCHANGED <<blob, buffers, near, head, call, spring, isSpring, trapMap,
                    tries, pos>>
    BY DEF InsnExec, codeVars
  <1>3. CASE Die("free") /\ UNCHANGED <<filled, execs, instrumented>>
    BY <1>2, <1>3, DieShape DEF patchVars, codeVars, bookVars
  <1>4. CASE /\ filled' = filled \ {blob[P]} /\ Go("block.blob")
             /\ UNCHANGED <<fault, execs, instrumented>>
    <2>1. /\ JobOK' /\ job'.at = "block.blob" /\ job'.pt = job.pt
      BY <1>4, GoEffect, PlacesAre DEF Shape
    <2>2. PatchOK' /\ CodeOK' /\ BooksOK' /\ RunOK'
      BY <1>2, <1>4 DEF Shape, PatchOK, CodeOK, BooksOK, RunOK
    <2>3. InWork' /\ Traps'
      BY <1>1, <1>2, <1>4, <2>1 DEF Shape, InWork, Traps, Emitted, AtSpring
    <2>4. QED BY <2>1, <2>2, <2>3 DEF Shape
  <1>5. CASE execs' = execs \union {blob[P]} /\ Success /\ UNCHANGED <<filled, fault>>
    <2>1. JobOK' /\ job'.at = "idle" /\ instrumented' = instrumented \union {P}
      BY <1>5, IdleType DEF Success
    <2>2. PatchOK' /\ CodeOK' /\ BooksOK' /\ RunOK'
      BY <1>1, <1>2, <1>5, <2>1 DEF Shape, PatchOK, CodeOK, BooksOK, RunOK
    <2>3. InWork' /\ Traps'
      BY <1>2, <1>5, <2>1, PlacesAre DEF Shape, InWork, Traps
    <2>4. QED BY <2>1, <2>2, <2>3 DEF Shape
  <1>6. QED
    BY <1>3, <1>4, <1>5 DEF InsnExec

LEMMA MakeExecShape ==
  ASSUME Shape, UNCHANGED mode, NEW next \in Emitted, job.at \in Emitted,
         next \in AtSpring => job.at \in AtSpring,
         next # "trap.site",
         MakeExec(next)
  PROVE  Shape'
  <1>1. P \in Points /\ blob[P] # Null /\ blob[P] \in buffers
    BY DEF Shape, InWork, PatchOK, P, Emitted
  <1>2. UNCHANGED <<blob, buffers, filled, near, codeVars, bookVars, pos>>
    BY DEF MakeExec
  <1>3. CASE Die("exit") /\ UNCHANGED execs
    BY <1>2, <1>3, DieShape DEF patchVars
  <1>4. CASE execs' = execs \union {blob[P]} /\ Go(next) /\ UNCHANGED fault
    <2>1. /\ JobOK' /\ job'.at = next /\ job'.pt = job.pt
          /\ job'.spring = job.spring
      <3>1. next \in Places
        BY PlacesAre DEF Emitted
      <3>2. QED BY <1>4, <3>1, GoEffect DEF Shape
    <2>2. PatchOK' /\ CodeOK' /\ BooksOK' /\ RunOK'
      BY <1>1, <1>2, <1>4 DEF Shape, PatchOK, CodeOK, BooksOK, RunOK, codeVars, bookVars
    <2>3. InWork'
      BY <1>1, <1>2, <1>4, <2>1 DEF Shape, InWork, P, Emitted, bookVars
    <2>4. Traps'
      BY <1>2, <1>4, <2>1 DEF Shape, Traps, codeVars, bookVars, Emitted
    <2>5. QED BY <2>1, <2>2, <2>3, <2>4 DEF Shape
  <1>5. QED BY <1>3, <1>4 DEF MakeExec

LEMMA ExecsShape ==
  ASSUME Shape, UNCHANGED mode, BlockExec \/ SpringExec
  PROVE  Shape'
  <1>1. CASE BlockExec
    <2>1. /\ job.at \in Emitted /\ "block.site" \in Emitted
          /\ "block.site" \notin AtSpring
      BY <1>1 DEF BlockExec, At, Emitted, AtSpring
    <2>2. QED BY <1>1, <2>1, MakeExecShape DEF BlockExec
  <1>2. CASE SpringExec
    <2>1. /\ job.at \in Emitted /\ job.at \in AtSpring
          /\ "spring.reloc" \in Emitted
      BY <1>2 DEF SpringExec, At, Emitted, AtSpring
    <2>2. QED BY <1>2, <2>1, MakeExecShape DEF SpringExec
  <1>3. QED BY <1>1, <1>2

\* The job ends in success with one more piece of code overwritten.
LEMMA SuccessShape ==
  ASSUME Shape, UNCHANGED mode, job.at \in Emitted, Success, CodeOK',
         UNCHANGED <<patchVars, isSpring, trapMap, tries, pos, fault>>,
         \A p \in Points \ {P} : call'[p] = call[p],
         call'[P] = call[P] \/ P \in trapMap
  PROVE  Shape'
  <1>1. JobOK' /\ job'.at = "idle" /\ instrumented' = instrumented \union {P}
    BY IdleType DEF Success
  <1>2. P \in Points /\ P \notin instrumented /\ blob[P] # Null
    BY DEF Shape, InWork, P, Emitted
  <1>3. PatchOK' /\ BooksOK' /\ RunOK'
    BY <1>1, <1>2 DEF Shape, PatchOK, BooksOK, RunOK, patchVars
  <1>4. InWork'
    BY <1>1, PlacesAre DEF InWork
  <1>5. Traps'
    <2>1. call[P].by # "trap"
      BY <1>2 DEF Shape, Traps
    <2>2. \A p \in Points : call[p].by = "trap" => call'[p] = call[p]
      BY <2>1
    <2>3. \A p \in Points : call'[p].by = "trap" =>
            p \in trapMap' /\ p \in instrumented' /\ blob'[p] # Null
      BY <1>1, <1>2 DEF Shape, Traps, patchVars
    <2>4. \A t \in Threads, p \in Points :
            pos'[t] = <<"trap", p>> => call'[p].by = "trap"
      BY <2>2 DEF Shape, Traps
    <2>5. QED BY <1>1, <2>3, <2>4 DEF Shape, Traps
  <1>6. QED BY <1>1, <1>3, <1>4, <1>5 DEF Shape

LEMMA SitesShape ==
  ASSUME Shape, UNCHANGED mode, BlockSite \/ SpringSite
  PROVE  Shape'
  <1>1. job.at \in Emitted /\ Success
    BY DEF BlockSite, SpringSite, At, Emitted
  <1>2. UNCHANGED <<patchVars, call, spring, isSpring, trapMap, tries, pos, fault>>
    BY DEF BlockSite, SpringSite
  <1>3. CodeOK'
    <2>1. P \in Points /\ blob[P] \in Buffer \union {Null}
      BY <1>1 DEF Shape, InWork, PatchOK, P, Emitted
    <2>2. CASE BlockSite
      <3>1. PICK c \in Code : c = Jump(blob[P])
        BY <2>1, CodeType
      <3>2. head' = head \/ head' = [head EXCEPT ![P] = c]
        BY <2>2, <3>1 DEF BlockSite
      <3>3. QED BY <1>2, <3>2 DEF Shape, CodeOK
    <2>3. CASE SpringSite
      <3>1. job.spring \in Springs
        BY <2>3 DEF SpringSite, At, Shape, InWork, AtSpring
      <3>2. PICK c \in Code : c = Hop(job.spring)
        BY <3>1, CodeType
      <3>3. head' = head \/ head' = [head EXCEPT ![P] = c]
        BY <2>3, <3>2 DEF SpringSite
      <3>4. QED BY <1>2, <3>3 DEF Shape, CodeOK
    <2>4. QED BY <2>2, <2>3
  <1>4. QED BY <1>1, <1>2, <1>3, SuccessShape

LEMMA SpringSaveShape ==
  ASSUME Shape, UNCHANGED mode, SpringSave
  PROVE  Shape'
  <1>1. /\ job.at = "spring.save" /\ P \in Points
        /\ UNCHANGED <<patchVars, codeVars, trapMap, tries, instrumented, pos, fault>>
    BY DEF SpringSave, At, Shape, InWork, P
  <1>2. CASE Go("trap.map") /\ UNCHANGED isSpring
    <2>1. "trap.map" \notin Emitted \union AtSpring
      BY DEF Emitted, AtSpring
    <2>2. QED BY <1>1, <1>2, <2>1, PlacesAre, GoShape DEF bookVars
  <1>3. ASSUME NEW s \in NearSprings[P], TakeSpring(s), isSpring' = isSpring \union {s}
        PROVE  Shape'
    <2>1. s \in Springs
      BY <1>1, SpringAssumption
    <2>2. /\ JobOK' /\ job'.at = "spring.build" /\ job'.pt = job.pt
          /\ job'.spring = s
      BY <1>3, <2>1, TakeSpringEffect DEF Shape
    <2>3. PatchOK' /\ CodeOK' /\ BooksOK' /\ RunOK'
      BY <1>1, <1>3, <2>1 DEF Shape, PatchOK, CodeOK, BooksOK, RunOK, patchVars, codeVars
    <2>4. InWork' /\ Traps'
      BY <1>1, <2>1, <2>2 DEF Shape, InWork, Traps, Emitted, patchVars, codeVars
    <2>5. QED BY <2>2, <2>3, <2>4 DEF Shape
  <1>4. QED BY <1>2, <1>3 DEF SpringSave

LEMMA SpringRelocShape ==
  ASSUME Shape, UNCHANGED mode, SpringReloc
  PROVE  Shape'
  <1>1. /\ job.at = "spring.reloc"
        /\ UNCHANGED <<patchVars, codeVars, bookVars, pos>>
    BY DEF SpringReloc, At
  <1>2. CASE \E why \in {"exit", "null"} : Die(why)
    BY <1>1, <1>2, DieShape
  <1>3. CASE Go("spring.spring") /\ UNCHANGED fault
    <2>1. /\ JobOK' /\ job'.at = "spring.spring" /\ job'.pt = job.pt
          /\ job'.spring = job.spring
      BY <1>3, GoEffect, PlacesAre DEF Shape
    <2>2. PatchOK' /\ CodeOK' /\ BooksOK' /\ RunOK'
      BY <1>1, <1>3 DEF Shape, PatchOK, CodeOK, BooksOK, RunOK, patchVars, codeVars, bookVars
    <2>3. InWork' /\ Traps'
      BY <1>1, <1>3, <2>1 DEF Shape, InWork, Traps, Emitted, AtSpring, patchVars, codeVars, bookVars
    <2>4. QED BY <2>1, <2>2, <2>3 DEF Shape
  <1>4. QED BY <1>2, <1>3 DEF SpringReloc

LEMMA SpringSpringShape ==
  ASSUME Shape, UNCHANGED mode, SpringSpring
  PROVE  Shape'
  <1>1. /\ job.at = "spring.spring" /\ Go("spring.site")
        /\ UNCHANGED <<patchVars, head, call, bookVars, pos, fault>>
    BY DEF SpringSpring, At
  <1>2. /\ P \in Points /\ blob[P] # Null /\ blob[P] \in Buffer \union {Null}
    BY <1>1 DEF Shape, InWork, PatchOK, P, Emitted
  <1>3. PICK c \in Code : c = Jump(blob[P])
    BY <1>2, CodeType
  <1>4. spring' = spring \/ spring' = [spring EXCEPT ![job.spring] = c]
    BY <1>3 DEF SpringSpring
  <1>5. /\ JobOK' /\ job'.at = "spring.site" /\ job'.pt = job.pt
        /\ job'.spring = job.spring
    BY <1>1, GoEffect, PlacesAre DEF Shape
  <1>6. PatchOK' /\ CodeOK' /\ BooksOK' /\ RunOK'
    BY <1>1, <1>4 DEF Shape, PatchOK, CodeOK, BooksOK, RunOK, patchVars, bookVars
  <1>7. InWork' /\ Traps'
    BY <1>1, <1>2, <1>5 DEF Shape, InWork, Traps, Emitted, AtSpring, P, patchVars, bookVars
  <1>8. QED BY <1>5, <1>6, <1>7 DEF Shape

LEMMA TrapMapShape ==
  ASSUME Shape, UNCHANGED mode, TrapMap
  PROVE  Shape'
  <1>1. /\ job.at = "trap.map" /\ Go("trap.build") /\ trapMap' = trapMap \union {P}
        /\ UNCHANGED <<patchVars, codeVars, isSpring, tries, instrumented, pos, fault>>
    BY DEF TrapMap, At
  <1>2. /\ JobOK' /\ job'.at = "trap.build" /\ job'.pt = job.pt /\ P \in Points
    BY <1>1, GoEffect, PlacesAre DEF Shape, InWork, P
  <1>3. PatchOK' /\ CodeOK' /\ BooksOK' /\ RunOK'
    BY <1>1, <1>2 DEF Shape, PatchOK, CodeOK, BooksOK, RunOK, patchVars, codeVars
  <1>4. InWork' /\ Traps'
    BY <1>1, <1>2 DEF Shape, InWork, Traps, Emitted, AtSpring, P, patchVars, codeVars
  <1>5. QED BY <1>2, <1>3, <1>4 DEF Shape

LEMMA TrapSiteShape ==
  ASSUME Shape, UNCHANGED mode, TrapSite
  PROVE  Shape'
  <1>1. /\ job.at = "trap.site" /\ job.at \in Emitted
        /\ UNCHANGED <<patchVars, head, spring, isSpring, trapMap, tries, pos, fault>>
    BY DEF TrapSite, At, Emitted
  <1>2. P \in trapMap /\ P \in Points
    BY <1>1 DEF Shape, Traps, InWork, P
  <1>3. CASE Go("end") /\ UNCHANGED <<call, instrumented>>
    <2>1. "end" \notin Emitted \union AtSpring
      BY DEF Emitted, AtSpring
    <2>2. QED BY <1>1, <1>3, <2>1, PlacesAre, GoShape DEF codeVars, bookVars
  <1>4. CASE call' = [call EXCEPT ![P] = Trap] /\ Success
    <2>1. PICK c \in Code : c = Trap
      BY CodeType
    <2>2. call' = [call EXCEPT ![P] = c]
      BY <1>4, <2>1
    <2>3. CodeOK' /\ \A p \in Points \ {P} : call'[p] = call[p]
      BY <1>1, <2>2 DEF Shape, CodeOK
    <2>4. QED BY <1>1, <1>2, <1>4, <2>3, SuccessShape
  <1>5. QED BY <1>3, <1>4 DEF TrapSite

LEMMA GiveUpShape ==
  ASSUME Shape, UNCHANGED mode, GiveUp
  PROVE  Shape'
  <1>1. /\ JobOK' /\ job'.at = "idle"
        /\ UNCHANGED <<patchVars, codeVars, bookVars, pos, fault>>
    BY IdleType DEF GiveUp
  <1>2. PatchOK' /\ CodeOK' /\ BooksOK' /\ RunOK'
    BY <1>1 DEF Shape, PatchOK, CodeOK, BooksOK, RunOK, patchVars, codeVars, bookVars
  <1>3. InWork' /\ Traps'
    BY <1>1, PlacesAre DEF Shape, InWork, Traps, patchVars, codeVars, bookVars
  <1>4. QED BY <1>1, <1>2, <1>3 DEF Shape

LEMMA WorkShape ==
  ASSUME Shape, Work
  PROVE  Shape'
  <1>1. UNCHANGED mode
    BY DEF Work
  <1>2. CASE \E p \in Points : Start(p)
    BY <1>1, <1>2, StartShape
  <1>3. CASE InsnSave \/ InsnBlob \/ InsnBuild \/ InsnSite \/ InsnExec
    BY <1>1, <1>3, InsnSaveShape, InsnBlobShape, BuildsShape, InsnSiteShape, InsnExecShape
  <1>4. CASE BlockBlob \/ BlockBuild \/ BlockExec \/ BlockSite
    BY <1>1, <1>4, InsnBlobShape, BuildsShape, ExecsShape, SitesShape
  <1>5. CASE SpringSave \/ SpringBuild \/ SpringExec \/ SpringReloc \/ SpringSpring \/ SpringSite
    BY <1>1, <1>5, SpringSaveShape, BuildsShape, ExecsShape, SpringRelocShape,
       SpringSpringShape, SitesShape
  <1>6. CASE TrapMap \/ TrapBuild \/ TrapSite \/ GiveUp
    BY <1>1, <1>6, TrapMapShape, BuildsShape, TrapSiteShape, GiveUpShape
  <1>7. QED BY <1>2, <1>3, <1>4, <1>5, <1>6 DEF Work


-----------------------------------------------------------------------------
(* Shape is inductive: the steps of the threads.                           *)

\* Where a step may take a thread: to a trap only if it is in the code.
Moves(t) ==
  \/ \E where \in {Out} \union ({"head", "mid", "call"} \X Points) : Move(t, where)
  \/ \E p \in Points : call[p].by = "trap" /\ Move(t, <<"trap", p>>)
  \/ \E why \in {"torn", "wild", "stray"} : Crash(why)

LEMMA MovesShape ==
  ASSUME Shape, UNCHANGED mode, NEW t \in Threads, Moves(t),
         UNCHANGED <<job, blob, buffers, filled, near, codeVars, bookVars>>,
         execs' \subseteq buffers
  PROVE  Shape'
  <1>1. JobOK' /\ PatchOK' /\ CodeOK' /\ BooksOK' /\ InWork'
    BY DEF Shape, JobOK, PatchOK, CodeOK, BooksOK, InWork, codeVars, bookVars
  <1>2. ASSUME NEW where \in {Out} \union ({"head", "mid", "call"} \X Points), Move(t, where)
        PROVE  RunOK' /\ Traps'
    <2>1. \A p \in Points : where # <<"trap", p>>
      BY DEF Out
    <2>2. pos' = [pos EXCEPT ![t] = where] /\ fault' = fault
      BY <1>2 DEF Move
    <2>3. RunOK'
      BY <2>2 DEF Shape, RunOK
    <2>4. \A u \in Threads, p \in Points : pos'[u] = <<"trap", p>> => pos[u] = <<"trap", p>>
      BY <2>1, <2>2 DEF Shape, RunOK
    <2>5. Traps'
      BY <2>2, <2>4 DEF Shape, Traps, codeVars, bookVars
    <2>6. QED BY <2>3, <2>5
  <1>3. ASSUME NEW p \in Points, call[p].by = "trap", Move(t, <<"trap", p>>)
        PROVE  RunOK' /\ Traps'
    <2>1. pos' = [pos EXCEPT ![t] = <<"trap", p>>] /\ fault' = fault
      BY <1>3 DEF Move
    <2>2. RunOK'
      BY <2>1 DEF Shape, RunOK
    <2>3. \A u \in Threads, q \in Points :
            pos'[u] = <<"trap", q>> => pos[u] = <<"trap", q>> \/ q = p
      BY <2>1 DEF Shape, RunOK
    <2>4. Traps'
      BY <1>3, <2>1, <2>3 DEF Shape, Traps, codeVars, bookVars
    <2>5. QED BY <2>2, <2>4
  <1>4. ASSUME NEW why \in {"torn", "wild", "stray"}, Crash(why)
        PROVE  RunOK' /\ Traps'
    BY <1>4 DEF Shape, RunOK, Traps, Crash, codeVars, bookVars
  <1>5. QED BY <1>1, <1>2, <1>3, <1>4 DEF Moves, Shape

LEMMA LandMoves ==
  ASSUME NEW t \in Threads, NEW b, Land(t, b)
  PROVE  Moves(t)
  BY DEF Land, Moves

\* The code a thread runs does not change under its own step.
LEMMA ExecuteEffect ==
  ASSUME Shape, NEW t \in Threads, NEW p \in Points,
         Enter(t, p) \/ Head(t, p) \/ Mid(t, p) \/ CallInsn(t, p) \/ OnTrap(t, p)
  PROVE  /\ Moves(t) /\ execs \subseteq execs' /\ execs' \subseteq buffers
         /\ UNCHANGED <<job, blob, buffers, filled, near, codeVars, bookVars>>
  <1>1. CASE Enter(t, p)
    BY <1>1 DEF Enter, Moves, Shape, PatchOK, patchVars
  <1>2. CASE Head(t, p)
    <2>1. /\ execs \subseteq execs' /\ execs' \subseteq buffers
          /\ UNCHANGED <<job, blob, buffers, filled, near, codeVars, bookVars>>
      BY <1>2 DEF Head, Shape, PatchOK, patchVars
    <2>2. \/ Move(t, <<"call", p>>) \/ Move(t, <<"mid", p>>)
          \/ Crash("wild") \/ Crash("stray")
          \/ \E b : Land(t, b)
      BY <1>2 DEF Head
    <2>3. QED BY <2>1, <2>2, LandMoves DEF Moves
  <1>3. CASE Mid(t, p)
    BY <1>3 DEF Mid, Moves, Shape, PatchOK, patchVars
  <1>4. CASE CallInsn(t, p)
    <2>1. /\ execs \subseteq execs' /\ execs' \subseteq buffers
          /\ UNCHANGED <<job, blob, buffers, filled, near, codeVars, bookVars>>
      BY <1>4 DEF CallInsn, Shape, PatchOK, patchVars
    <2>2. \/ Move(t, Out)
          \/ call[p].by = "trap" /\ Move(t, <<"trap", p>>)
          \/ \E b : Land(t, b)
      BY <1>4 DEF CallInsn
    <2>3. QED BY <2>1, <2>2, LandMoves DEF Moves
  <1>5. CASE OnTrap(t, p)
    <2>1. /\ call[p].by = "trap" /\ p \in trapMap /\ blob[p] \in buffers
      BY <1>5 DEF OnTrap, Stands, Shape, Traps, PatchOK
    <2>2. /\ execs' \in {execs \union {blob[p]}} \union (IF PermFails THEN {execs} ELSE {})
          /\ Land(t, blob[p])
      BY <1>5, <2>1 DEF OnTrap
    <2>3. execs' = execs \/ execs' = execs \union {blob[p]}
      BY <2>2
    <2>4. execs \subseteq execs' /\ execs' \subseteq buffers
      BY <2>1, <2>3 DEF Shape, PatchOK
    <2>5. QED BY <1>5, <2>2, <2>4, LandMoves DEF OnTrap
  <1>6. QED BY <1>1, <1>2, <1>3, <1>4, <1>5

LEMMA NextShape ==
  ASSUME Shape, [Next]_vars
  PROVE  Shape'
  <1>1. CASE UNCHANGED vars
    BY <1>1 DEF Shape, JobOK, PatchOK, CodeOK, BooksOK, RunOK, InWork, Traps, vars,
       codeVars, bookVars
  <1>2. CASE Work
    BY <1>2, WorkShape
  <1>3. ASSUME NEW t \in Threads, Execute(t)
        PROVE  Shape'
    BY <1>3, ExecuteEffect, MovesShape DEF Execute
  <1>4. QED BY <1>1, <1>2, <1>3 DEF Next

\* Snippets, buffers, blocks and inst_map_ keep their types, whatever fails and
\* whichever blocks the threads run meanwhile.
THEOREM TypeCorrect == Spec => []TypeOK
  <1>1. Init => Shape
    BY InitShape
  <1>2. Shape /\ [Next]_vars => Shape'
    BY NextShape
  <1>3. Shape => TypeOK
    BY ShapeIsTypeOK
  <1>4. QED BY <1>1, <1>2, <1>3, PTL DEF Spec

\* OnTrap of TrapWorker finds each call site whose trap is hit.
THEOREM TrapIsKnownHolds == Spec => []TrapIsKnown
  <1>1. Init => Shape
    BY InitShape
  <1>2. Shape /\ [Next]_vars => Shape'
    BY NextShape
  <1>3. Shape => TrapIsKnown
    BY DEF Shape, Traps, TrapIsKnown
  <1>4. QED BY <1>1, <1>2, <1>3, PTL DEF Spec


-----------------------------------------------------------------------------
(* Blocks that are finished with, and hops over spring blocks.             *)

\* What each step of the worker does to the code of the blocks, and to which.
LEMMA WorkOnCode ==
  ASSUME Shape, Work
  PROVE  \/ UNCHANGED <<head, call>>
         \/ /\ P \in Points /\ P \notin instrumented
            /\ \A p \in Points \ {P} : head'[p] = head[p] /\ call'[p] = call[p]
  <1>1. CASE InsnSite \/ BlockSite \/ SpringSite \/ TrapSite
    <2>1. P \in Points /\ P \notin instrumented
      BY <1>1 DEF InsnSite, BlockSite, SpringSite, TrapSite, At, Shape, InWork, P
    <2>2. /\ head' = head \/ \E c : head' = [head EXCEPT ![P] = c]
          /\ call' = call \/ \E c : call' = [call EXCEPT ![P] = c]
      BY <1>1 DEF InsnSite, BlockSite, SpringSite, TrapSite
    <2>3. \A p \in Points \ {P} : head'[p] = head[p] /\ call'[p] = call[p]
      BY <2>2 DEF Shape, CodeOK
    <2>4. QED BY <2>1, <2>3
  <1>2. CASE (\E p \in Points : Start(p)) \/ InsnSave \/ InsnBlob \/ InsnBuild \/ InsnExec
    BY <1>2 DEF Start, InsnSave, InsnBlob, InsnBuild, InsnExec, codeVars
  <1>3. CASE BlockBlob \/ BlockBuild \/ BlockExec \/ SpringSave \/ SpringBuild \/ SpringExec
    BY <1>3 DEF BlockBlob, BlockBuild, BlockExec, MakeExec, SpringSave, SpringBuild,
       SpringExec, codeVars
  <1>4. CASE SpringReloc \/ SpringSpring \/ TrapMap \/ TrapBuild \/ GiveUp
    BY <1>4 DEF SpringReloc, SpringSpring, TrapMap, TrapBuild, GiveUp, codeVars
  <1>5. QED BY <1>1, <1>2, <1>3, <1>4 DEF Work

\* A block marked instrumented() is not rewritten again (SpInstrumenter::run
\* marks it, SpPropeller::go passes it over): whatever the workers still do.
THEOREM FrozenOnceInstrumentedHolds == Spec => FrozenOnceInstrumented
  <1>1. Init => Shape
    BY InitShape
  <1>2. Shape /\ [Next]_vars => Shape'
    BY NextShape
  <1>3. ASSUME Shape, [Next]_vars
        PROVE  [\A p \in instrumented : head'[p] = head[p] /\ call'[p] = call[p]]_vars
    <2>1. CASE UNCHANGED vars
      BY <2>1
    <2>2. CASE Work
      <3>1. instrumented \subseteq Points
        BY <1>3 DEF Shape, BooksOK
      <3>2. QED BY <1>3, <2>2, <3>1, WorkOnCode
    <2>3. ASSUME NEW t \in Threads, Execute(t)
          PROVE  \A p \in instrumented : head'[p] = head[p] /\ call'[p] = call[p]
      BY <1>3, <2>3, ExecuteEffect DEF Execute, codeVars
    <2>4. QED BY <1>3, <2>1, <2>2, <2>3 DEF Next
  <1>4. QED BY <1>1, <1>2, <1>3, PTL DEF Spec, FrozenOnceInstrumented

\* Hops lead to blocks that are taken, and the one in hand is not hopped to yet.
Hops ==
  /\ \A p \in Points : head[p].by = "hop" => head[p].to \in isSpring
  /\ job.at \in AtSpring =>
       /\ job.spring \in isSpring
       /\ \A p \in Points : head[p].by = "hop" => head[p].to # job.spring
  /\ HopsApart

LEMMA WorkOnSprings ==
  ASSUME Shape, Work
  PROVE  \/ /\ UNCHANGED <<head, isSpring>>
            /\ job'.at \in AtSpring => job.at \in AtSpring /\ job'.spring = job.spring
         \/ /\ UNCHANGED head /\ job'.spring \notin isSpring
            /\ isSpring' = isSpring \union {job'.spring}
         \/ /\ UNCHANGED isSpring /\ job'.at = "idle" /\ P \in Points
            /\ \/ UNCHANGED head
               \/ head' = [head EXCEPT ![P] = Jump(blob[P])]
               \/ job.at \in AtSpring /\ head' = [head EXCEPT ![P] = Hop(job.spring)]
  <1>1. CASE \E p \in Points : Start(p)
    <2>1. job'.at \notin AtSpring
      BY <1>1, NewJobType DEF Start, NewJob, AtSpring
    <2>2. QED BY <1>1, <2>1 DEF Start, codeVars
  <1>2. CASE InsnSave \/ InsnBlob \/ InsnSite \/ BlockBlob
    <2>1. \E place \in {"insn.blob", "block.blob", "insn.build", "insn.exec",
                        "block.build", "spring.save"} : Go(place)
      BY <1>2 DEF InsnSave, InsnBlob, InsnSite, BlockBlob
    <2>2. job'.at \notin AtSpring
      BY <2>1 DEF Go, Shape, JobOK, AtSpring
    <2>3. QED BY <1>2, <2>2 DEF InsnSave, InsnBlob, InsnSite, BlockBlob, codeVars, bookVars
  <1>3. CASE InsnBuild \/ BlockBuild \/ TrapBuild
    <2>1. \E place \in {"insn.site", "block.blob", "block.exec", "spring.save",
                        "trap.site", "end"} : Go(place) \/ Built(place)
      BY <1>3 DEF InsnBuild, BlockBuild, TrapBuild, BuildBlob
    <2>2. job'.at \notin AtSpring
      BY <2>1 DEF Go, Built, Shape, JobOK, AtSpring
    <2>3. QED BY <1>3, <2>2 DEF InsnBuild, BlockBuild, TrapBuild, codeVars, bookVars
  <1>4. CASE InsnExec
    <2>1. job'.at \notin AtSpring
      <3>1. \/ job' = job \/ Go("block.blob") \/ job' = Idle
        BY <1>4 DEF InsnExec, Die, Success
      <3>2. job.at = "insn.exec" /\ "idle" \notin AtSpring /\ "insn.exec" \notin AtSpring
            /\ "block.blob" \notin AtSpring
        BY <1>4 DEF InsnExec, At, AtSpring
      <3>3. QED BY <3>1, <3>2, IdleType, GoEffect, PlacesAre DEF Shape
    <2>2. QED BY <1>4, <2>1 DEF InsnExec, codeVars
  <1>5. CASE BlockExec
    <2>1. job'.at \notin AtSpring
      <3>1. job' = job \/ Go("block.site")
        BY <1>5 DEF BlockExec, MakeExec, Die
      <3>2. job.at = "block.exec"
        BY <1>5 DEF BlockExec, At
      <3>3. QED BY <3>1, <3>2, GoEffect, PlacesAre DEF Shape, AtSpring
    <2>2. QED BY <1>5, <2>1 DEF BlockExec, MakeExec, codeVars, bookVars
  <1>6. CASE SpringBuild \/ SpringExec \/ SpringReloc \/ SpringSpring
    <2>1. job.at \in AtSpring
      BY <1>6 DEF SpringBuild, SpringExec, SpringReloc, SpringSpring, At, AtSpring
    <2>2. job' = job \/ \E place \in Places : Go(place) \/ Built(place)
      BY <1>6, PlacesAre DEF SpringBuild, SpringExec, SpringReloc, SpringSpring,
         BuildBlob, MakeExec, Die
    <2>3. job'.spring = job.spring
      BY <2>2, GoEffect, BuiltEffect DEF Shape
    <2>4. QED
      BY <1>6, <2>1, <2>3 DEF SpringBuild, SpringExec, SpringReloc, SpringSpring,
         MakeExec, codeVars, bookVars
  <1>7. CASE BlockSite \/ SpringSite
    <2>1. /\ job.at \in Emitted /\ job' = Idle /\ UNCHANGED isSpring
      BY <1>7 DEF BlockSite, SpringSite, Success, At, Emitted
    <2>2. job'.at = "idle" /\ P \in Points
      BY <2>1, IdleType DEF Shape, InWork, P, Emitted
    <2>3. CASE BlockSite
      BY <2>1, <2>2, <2>3 DEF BlockSite
    <2>4. CASE SpringSite
      BY <2>1, <2>2, <2>4 DEF SpringSite, At, AtSpring
    <2>5. QED BY <1>7, <2>3, <2>4
  <1>8. CASE SpringSave
    <2>1. CASE Go("trap.map") /\ UNCHANGED isSpring
      BY <1>8, <2>1, GoEffect, PlacesAre DEF SpringSave, Shape, AtSpring, codeVars
    <2>2. ASSUME NEW s \in NearSprings[P] \ isSpring, TakeSpring(s),
                 isSpring' = isSpring \union {s}
          PROVE  /\ UNCHANGED head /\ job'.spring \notin isSpring
                 /\ isSpring' = isSpring \union {job'.spring}
      <3>1. P \in Points
        BY <1>8 DEF SpringSave, At, Shape, InWork, P
      <3>2. s \in Springs
        BY <3>1, SpringAssumption
      <3>3. job'.spring = s
        BY <2>2, <3>2, TakeSpringEffect DEF Shape
      <3>4. QED BY <1>8, <2>2, <3>3 DEF SpringSave, codeVars
    <2>3. QED BY <1>8, <2>1, <2>2 DEF SpringSave
  <1>9. CASE TrapMap \/ TrapSite \/ GiveUp
    <2>1. job' = Idle \/ \E place \in {"trap.build", "end"} : Go(place)
      BY <1>9 DEF TrapMap, TrapSite, GiveUp, Success
    <2>2. job'.at \notin AtSpring
      BY <2>1, IdleType, GoEffect, PlacesAre DEF Shape, AtSpring
    <2>3. QED BY <1>9, <2>2 DEF TrapMap, TrapSite, GiveUp, codeVars, bookVars
  <1>10. QED
    BY <1>1, <1>2, <1>3, <1>4, <1>5, <1>6, <1>7, <1>8, <1>9 DEF Work

LEMMA WorkHops ==
  ASSUME Shape, Shape', Hops, Work
  PROVE  Hops'
  <1>1. CASE /\ UNCHANGED <<head, isSpring>>
             /\ job'.at \in AtSpring => job.at \in AtSpring /\ job'.spring = job.spring
    BY <1>1 DEF Hops, HopsApart
  <1>2. CASE /\ UNCHANGED head /\ job'.spring \notin isSpring
             /\ isSpring' = isSpring \union {job'.spring}
    BY <1>2 DEF Hops, HopsApart
  <1>3. CASE /\ UNCHANGED isSpring /\ job'.at = "idle" /\ P \in Points
             /\ \/ UNCHANGED head
                \/ head' = [head EXCEPT ![P] = Jump(blob[P])]
                \/ job.at \in AtSpring /\ head' = [head EXCEPT ![P] = Hop(job.spring)]
    <2>1. CASE UNCHANGED head
      BY <1>3, <2>1, PlacesAre DEF Hops, HopsApart
    <2>2. CASE head' = [head EXCEPT ![P] = Jump(blob[P])]
      <3>1. PICK c \in Code : c = Jump(blob[P]) /\ c.by = "jump"
        BY <1>3, CodeType DEF Shape, PatchOK
      <3>2. head' = [head EXCEPT ![P] = c]
        BY <2>2, <3>1
      <3>3. \A p \in Points : head'[p].by = "hop" => head'[p] = head[p]
        BY <3>1, <3>2 DEF Shape, CodeOK
      <3>4. QED BY <1>3, <3>3, PlacesAre DEF Hops, HopsApart
    <2>3. CASE job.at \in AtSpring /\ head' = [head EXCEPT ![P] = Hop(job.spring)]
      <3>1. PICK c \in Code : c = Hop(job.spring) /\ c.by = "hop" /\ c.to = job.spring
        BY <2>3, CodeType DEF Shape, InWork
      <3>2. head' = [head EXCEPT ![P] = c]
        BY <2>3, <3>1
      <3>3. \A p \in Points : head'[p] = IF p = P THEN c ELSE head[p]
        BY <3>2 DEF Shape, CodeOK
      <3>4. \A p \in Points \ {P} : head[p].by = "hop" => head[p].to # job.spring
        BY <2>3 DEF Hops
      <3>5. QED BY <1>3, <2>3, <3>1, <3>3, <3>4, PlacesAre DEF Hops, HopsApart
    <2>4. QED BY <1>3, <2>1, <2>2, <2>3
  <1>4. QED BY <1>1, <1>2, <1>3, WorkOnSprings

\* A spring block serves one call block, however many blocks, workers and
\* tries there are and wherever is_spring_ began (FindSpringboard, save()).
THEOREM HopsApartHolds == Spec => []HopsApart
  <1>1. Init => Shape /\ Hops
    <2>1. ASSUME Init PROVE Hops
      <3>1. \A p \in Points : head[p].by = "none"
        BY <2>1, CodeType DEF Init
      <3>2. job.at = "idle"
        BY <2>1 DEF Init, Idle, NewJob
      <3>3. QED BY <3>1, <3>2, PlacesAre DEF Hops, HopsApart
    <2>2. QED BY <2>1, InitShape
  <1>2. Shape /\ Hops /\ [Next]_vars => Shape' /\ Hops'
    <2>1. SUFFICES ASSUME Shape, Hops, [Next]_vars, Shape' PROVE Hops'
      BY NextShape
    <2>2. CASE UNCHANGED vars
      BY <2>1, <2>2 DEF Hops, HopsApart, vars
    <2>3. CASE Work
      BY <2>1, <2>3, WorkHops
    <2>4. ASSUME NEW t \in Threads, Execute(t)
          PROVE  Hops'
      <3>1. UNCHANGED <<job, head, isSpring>>
        BY <2>1, <2>4, ExecuteEffect DEF Execute, codeVars, bookVars
      <3>2. QED BY <2>1, <3>1 DEF Hops, HopsApart
    <2>5. QED BY <2>1, <2>2, <2>3, <2>4 DEF Next
  <1>3. Hops => HopsApart
    BY DEF Hops
  <1>4. QED BY <1>1, <1>2, <1>3, PTL DEF Spec


-----------------------------------------------------------------------------
(* No thread is sent to code that is not there.                            *)

\* The executions in which mprotect succeeds and the heap is far away.
Tame == mode \intersect {"perm", "near"} = {}

\* The whole program leads to finished, executable patch areas of its own.
SoundCode ==
  /\ near \subseteq execs
  /\ \A p \in Points :
       /\ head[p].by = "jump" => head[p].to \in filled /\ head[p].to \in execs
       /\ call[p].by = "jump" => call[p].to \in filled /\ call[p].to \in execs
       /\ call[p].by = "trap" => blob[p] \in filled
       /\ head[p].by = "hop" =>
            /\ spring[head[p].to].by = "jump"
            /\ spring[head[p].to].to \in filled /\ spring[head[p].to].to \in execs
            /\ spring[head[p].to].to[1] = p

\* Places at which the buffer may be executed already.
Ready == {"insn.build", "insn.site", "insn.exec", "block.site", "spring.reloc",
          "spring.spring", "spring.site"}

\* The job in hand has a finished patch area before it writes, and says that it
\* has built one no sooner.
SoundJob ==
  /\ job.at \notin Emitted \union {"idle"} => ~ job.built
  /\ job.at \in Emitted => blob[job.pt] \in filled
  /\ job.at \in Ready => blob[job.pt] \in execs
  /\ job.at = "spring.site" => /\ spring[job.spring].by = "jump"
                               /\ spring[job.spring].to = blob[job.pt]

NotWild == fault \notin {"wild", "stray"}

\* A step that writes no code leaves the program sound.
LEMMA KeepsSoundCode ==
  ASSUME Shape, SoundCode, UNCHANGED <<head, call, spring>>,
         filled \subseteq filled', execs \subseteq execs', near' \subseteq execs',
         \A p \in instrumented : blob'[p] = blob[p]
  PROVE  SoundCode'
  <1>1. ASSUME NEW p \in Points
        PROVE  call[p].by = "trap" => blob'[p] \in filled'
    BY DEF Shape, Traps, SoundCode
  <1>2. QED BY <1>1 DEF SoundCode

LEMMA StartSound ==
  ASSUME Shape, SoundCode, NEW p \in Points, Start(p)
  PROVE  SoundCode' /\ SoundJob' /\ fault' = fault
  <1>1. job'.at = "insn.save" /\ ~ job'.built
    BY DEF Start, NewJob
  <1>2. blob' = [blob EXCEPT ![p] = Null] /\ p \notin instrumented
    BY DEF Start
  <1>3. \A q \in instrumented : blob'[q] = blob[q]
    BY <1>2 DEF Shape, PatchOK, BooksOK
  <1>4. SoundCode'
    BY <1>3, KeepsSoundCode DEF Start, codeVars, SoundCode
  <1>5. SoundJob'
    BY <1>1 DEF SoundJob, Emitted, Ready
  <1>6. QED BY <1>4, <1>5 DEF Start

LEMMA GoSound ==
  ASSUME Shape, SoundCode, SoundJob,
         NEW place \in {"insn.blob", "block.blob", "trap.map", "trap.build"},
         Go(place), job.at \notin Emitted, job.at # "idle",
         UNCHANGED <<patchVars, codeVars>>
  PROVE  SoundCode' /\ SoundJob'
  <1>1. job'.at = place /\ ~ job'.built
    BY GoEffect, PlacesAre DEF Shape, SoundJob
  <1>2. SoundCode'
    BY KeepsSoundCode DEF patchVars, codeVars, SoundCode
  <1>3. SoundJob'
    BY <1>1 DEF SoundJob, Emitted, Ready
  <1>4. QED BY <1>2, <1>3

LEMMA MovesSound ==
  ASSUME Shape, SoundCode, SoundJob,
         InsnSave \/ TrapMap \/ (SpringSave /\ Go("trap.map"))
  PROVE  SoundCode' /\ SoundJob' /\ fault' = fault
  <1>1. /\ job.at \in {"insn.save", "trap.map", "spring.save"}
        /\ UNCHANGED <<patchVars, codeVars, fault>>
        /\ \E place \in {"insn.blob", "block.blob", "trap.map", "trap.build"} : Go(place)
    BY DEF InsnSave, TrapMap, SpringSave, At
  <1>2. job.at \notin Emitted /\ job.at # "idle"
    BY <1>1 DEF Emitted
  <1>3. QED BY <1>1, <1>2, GoSound

LEMMA SpringSaveSound ==
  ASSUME Shape, SoundCode, SoundJob, SpringSave
  PROVE  SoundCode' /\ SoundJob' /\ fault' = fault
  <1>1. CASE Go("trap.map")
    BY <1>1, MovesSound
  <1>2. ASSUME NEW s \in NearSprings[P], TakeSpring(s)
        PROVE  SoundCode' /\ SoundJob' /\ fault' = fault
    <2>1. /\ job.at = "spring.save" /\ s \in Springs
          /\ UNCHANGED <<patchVars, codeVars, fault>>
      BY SpringAssumption DEF SpringSave, At, Shape, InWork, P
    <2>2. job'.at = "spring.build" /\ ~ job'.built
      BY <1>2, <2>1, TakeSpringEffect DEF Shape, SoundJob, Emitted
    <2>3. SoundCode'
      BY <2>1, KeepsSoundCode DEF patchVars, codeVars, SoundCode
    <2>4. SoundJob'
      BY <2>2 DEF SoundJob, Emitted, Ready
    <2>5. QED BY <2>1, <2>3, <2>4
  <1>3. QED BY <1>1, <1>2 DEF SpringSave

\* A worker gets a buffer, or none; it goes on to build in one that is near
\* only, and so executable.
LEMMA BlobSound ==
  ASSUME Shape, SoundCode, SoundJob, Tame, InsnBlob \/ BlockBlob
  PROVE  SoundCode' /\ SoundJob' /\ fault' = fault
  <1>1. /\ job.at \in {"insn.blob", "block.blob"} /\ P \in Points
        /\ P \notin instrumented /\ ~ job.built
        /\ UNCHANGED <<filled, codeVars, fault>>
    BY DEF InsnBlob, BlockBlob, At, Shape, InWork, P, SoundJob, Emitted
  <1>2. PICK place \in {"insn.build", "block.build", "block.blob", "spring.save"} :
          /\ NewBuffer(P) \/ NoBuffer(P)
          /\ Go(place)
          /\ place = "insn.build" => blob'[P] \in near'
    BY DEF InsnBlob, BlockBlob
  <1>3. PatchOK' /\ Grows(P)
    BY <1>1, <1>2, NewBufferEffect, NoBufferEffect DEF Shape
  <1>4. /\ execs \subseteq execs' /\ near' \subseteq execs'
        /\ \A q \in instrumented : blob'[q] = blob[q]
    BY <1>1, <1>3 DEF Grows, SoundCode, Tame, Shape, BooksOK
  <1>5. SoundCode'
    BY <1>1, <1>4, KeepsSoundCode DEF codeVars
  <1>6. job'.at = place /\ ~ job'.built /\ job'.pt = job.pt
    BY <1>1, <1>2, GoEffect, PlacesAre DEF Shape
  <1>7. place = "insn.build" => blob'[job'.pt] \in execs'
    BY <1>2, <1>4, <1>6 DEF P
  <1>8. SoundJob'
    BY <1>6, <1>7 DEF SoundJob, Emitted, Ready
  <1>9. QED BY <1>1, <1>5, <1>8

LEMMA BuildsSound ==
  ASSUME Shape, SoundCode, SoundJob, Tame,
         InsnBuild \/ BlockBuild \/ SpringBuild \/ TrapBuild
  PROVE  SoundCode' /\ SoundJob' /\ fault' = fault
  <1>1. /\ job.at \in {"insn.build", "block.build", "spring.build", "trap.build"}
        /\ UNCHANGED <<codeVars, fault>>
    BY DEF InsnBuild, BlockBuild, SpringBuild, TrapBuild, At
  <1>2. P \in Points /\ P \notin instrumented /\ ~ job.built
    BY <1>1 DEF Shape, InWork, P, SoundJob, Emitted
  <1>3. PICK next \in {"insn.site", "block.exec", "spring.exec", "trap.site"},
             other \in {"block.blob", "spring.save", "trap.map", "end"} :
          /\ BuildBlob(P, next, other)
          /\ next = "insn.site" <=> job.at = "insn.build"
    BY DEF InsnBuild, BlockBuild, SpringBuild, TrapBuild, At
  <1>4. /\ PatchOK' /\ Grows(P) /\ filled \subseteq filled' /\ job'.pt = job.pt
        /\ \/ /\ job'.at = next /\ blob'[P] \in filled'
              /\ blob[P] # Null => blob'[P] = blob[P]
           \/ job'.at = other /\ ~ job'.built
    <2>1. next \in Places /\ other \in Places
      BY PlacesAre
    <2>2. QED BY <1>2, <1>3, <2>1, BuildEffect DEF Shape
  <1>5. /\ execs \subseteq execs' /\ near' \subseteq execs'
        /\ \A q \in instrumented : blob'[q] = blob[q]
    BY <1>2, <1>4 DEF Grows, SoundCode, Tame, Shape, BooksOK
  <1>6. SoundCode'
    BY <1>1, <1>4, <1>5, KeepsSoundCode DEF codeVars
  <1>7. CASE job'.at = next /\ blob'[P] \in filled' /\ (blob[P] # Null => blob'[P] = blob[P])
    <2>1. ASSUME next = "insn.site"
          PROVE  blob'[P] \in execs'
      <3>1. blob[P] \in execs
        BY <1>3, <2>1 DEF SoundJob, Ready, P
      <3>2. blob[P] # Null
        BY <3>1, BufferFacts DEF Shape, PatchOK
      <3>3. QED BY <1>5, <1>7, <3>1, <3>2
    <2>2. SoundJob'
      BY <1>4, <1>7, <2>1 DEF SoundJob, Emitted, Ready, P
    <2>3. QED BY <1>1, <1>6, <2>2
  <1>8. CASE job'.at = other /\ ~ job'.built
    <2>1. SoundJob'
      BY <1>8 DEF SoundJob, Emitted, Ready
    <2>2. QED BY <1>1, <1>6, <2>1
  <1>9. QED BY <1>4, <1>7, <1>8

\* The buffer of the job in hand, where it is used.
LEMMA OwnBuffer ==
  ASSUME Shape, SoundJob, job.at \in Emitted
  PROVE  /\ P \in Points /\ P \notin instrumented
         /\ blob[P] \in Buffer \union {Null}
         /\ blob[P] # Null /\ blob[P][1] = P /\ blob[P] \in filled
         /\ job.at \in Ready => blob[P] \in execs
  BY PlacesAre DEF Shape, InWork, PatchOK, SoundJob, P

LEMMA InsnSiteSound ==
  ASSUME Shape, SoundCode, SoundJob, Tame, InsnSite
  PROVE  SoundCode' /\ SoundJob' /\ fault' = fault
  <1>1. /\ job.at \in Emitted /\ job.at \in Ready
        /\ call' = [call EXCEPT ![P] = Jump(blob[P])] /\ Go("insn.exec")
        /\ UNCHANGED <<patchVars, head, spring, bookVars, fault>>
    BY DEF InsnSite, At, Tame, PermFails, Emitted, Ready
  <1>2. /\ P \in Points /\ blob[P] \in filled /\ blob[P] \in execs
        /\ blob[P] \in Buffer \union {Null}
    BY <1>1, OwnBuffer
  <1>3. PICK c \in Code : c = Jump(blob[P]) /\ c.by = "jump" /\ c.to = blob[P]
    BY <1>2, CodeType
  <1>4. \A p \in Points : call'[p] = IF p = P THEN c ELSE call[p]
    BY <1>1, <1>3 DEF Shape, CodeOK
  <1>5. SoundCode'
    BY <1>1, <1>2, <1>3, <1>4 DEF SoundCode, patchVars
  <1>6. job'.at = "insn.exec" /\ job'.pt = job.pt
    BY <1>1, GoEffect, PlacesAre DEF Shape
  <1>7. SoundJob'
    BY <1>1, <1>2, <1>6 DEF SoundJob, Emitted, P, patchVars
  <1>8. QED BY <1>1, <1>5, <1>7

LEMMA InsnExecSound ==
  ASSUME Shape, SoundCode, SoundJob, Tame, InsnExec
  PROVE  SoundCode' /\ SoundJob' /\ fault' = fault
  <1>1. /\ execs' = execs \union {blob[P]} /\ job' = Idle
        /\ UNCHANGED <<filled, fault, blob, near, head, call, spring>>
    BY DEF InsnExec, Tame, PermFails, Success, codeVars
  <1>2. SoundCode'
    BY <1>1, KeepsSoundCode DEF SoundCode
  <1>3. SoundJob'
    BY <1>1, IdleType, PlacesAre DEF SoundJob, Ready
  <1>4. QED BY <1>1, <1>2, <1>3

LEMMA ExecsSound ==
  ASSUME Shape, SoundCode, SoundJob, Tame, BlockExec \/ SpringExec
  PROVE  SoundCode' /\ SoundJob' /\ fault' = fault
  <1>1. PICK place \in {"block.site", "spring.reloc"} : Go(place)
    BY DEF BlockExec, SpringExec, MakeExec, Tame, PermFails
  <1>2. /\ job.at \in Emitted /\ execs' = execs \union {blob[P]}
        /\ UNCHANGED <<blob, filled, near, head, call, spring, fault>>
    BY DEF BlockExec, SpringExec, MakeExec, At, Emitted, Tame, PermFails, codeVars
  <1>3. job'.at = place /\ job'.pt = job.pt
    BY <1>1, GoEffect, PlacesAre DEF Shape
  <1>4. SoundCode'
    BY <1>2, KeepsSoundCode DEF SoundCode
  <1>5. SoundJob'
    BY <1>2, <1>3, OwnBuffer DEF SoundJob, Emitted, P
  <1>6. QED BY <1>2, <1>4, <1>5

LEMMA SpringRelocSound ==
  ASSUME Shape, SoundCode, SoundJob, Tame, SpringReloc
  PROVE  SoundCode' /\ SoundJob' /\ (NotWild => NotWild')
  <1>1. /\ job.at = "spring.reloc" /\ UNCHANGED <<patchVars, codeVars>>
        /\ fault' \in {fault, "null"}
        /\ job' = job \/ Go("spring.spring")
    BY DEF SpringReloc, At, Die, Tame, PermFails
  <1>2. SoundCode'
    BY <1>1, KeepsSoundCode DEF patchVars, codeVars, SoundCode
  <1>3. /\ job'.at \in {"spring.reloc", "spring.spring"} /\ job'.pt = job.pt
    BY <1>1, GoEffect, PlacesAre DEF Shape
  <1>4. job.at \in Emitted /\ job.at \in Ready
    BY <1>1 DEF Emitted, Ready
  <1>5. SoundJob'
    BY <1>1, <1>3, <1>4 DEF SoundJob, Emitted, patchVars
  <1>6. QED BY <1>1, <1>2, <1>5 DEF NotWild

\* The spring block that is written is one nobody hops to yet.
LEMMA SpringSpringSound ==
  ASSUME Shape, Hops, SoundCode, SoundJob, Tame, SpringSpring
  PROVE  SoundCode' /\ SoundJob' /\ fault' = fault
  <1>1. /\ job.at = "spring.spring"
        /\ spring' = [spring EXCEPT ![job.spring] = Jump(blob[P])]
        /\ Go("spring.site")
        /\ UNCHANGED <<patchVars, head, call, fault>>
    BY DEF SpringSpring, At, Tame, PermFails
  <1>2. job.at \in Emitted /\ job.at \in Ready /\ job.at \in AtSpring
    BY <1>1 DEF Emitted, Ready, AtSpring
  <1>3. blob[P] \in filled /\ blob[P] \in execs /\ blob[P] \in Buffer \union {Null}
    BY <1>2, OwnBuffer
  <1>4. job.spring \in Springs
    BY <1>2 DEF Shape, InWork
  <1>5. PICK c \in Code : c = Jump(blob[P]) /\ c.by = "jump" /\ c.to = blob[P]
    BY <1>3, CodeType
  <1>6. \A s \in Springs : spring'[s] = IF s = job.spring THEN c ELSE spring[s]
    BY <1>1, <1>5 DEF Shape, CodeOK
  <1>7. \A p \in Points : head[p].by = "hop" => spring'[head[p].to] = spring[head[p].to]
    BY <1>2, <1>6 DEF Hops, Shape, BooksOK
  <1>8. SoundCode'
    BY <1>1, <1>7 DEF SoundCode, patchVars
  <1>9. job'.at = "spring.site" /\ job'.pt = job.pt /\ job'.spring = job.spring
    BY <1>1, GoEffect, PlacesAre DEF Shape
  <1>10. SoundJob'
    BY <1>1, <1>3, <1>4, <1>5, <1>6, <1>9 DEF SoundJob, Emitted, P, patchVars
  <1>11. QED BY <1>1, <1>8, <1>10

LEMMA BlockSiteSound ==
  ASSUME Shape, SoundCode, SoundJob, Tame, BlockSite
  PROVE  SoundCode' /\ SoundJob' /\ fault' = fault
  <1>1. /\ job.at \in Emitted /\ job.at \in Ready
        /\ head' = [head EXCEPT ![P] = Jump(blob[P])] /\ job' = Idle
        /\ UNCHANGED <<patchVars, call, spring, fault>>
    BY DEF BlockSite, At, Tame, PermFails, Success, Emitted, Ready
  <1>2. blob[P] \in filled /\ blob[P] \in execs /\ blob[P] \in Buffer \union {Null}
    BY <1>1, OwnBuffer
  <1>3. PICK c \in Code : c = Jump(blob[P]) /\ c.by = "jump" /\ c.to = blob[P]
    BY <1>2, CodeType
  <1>4. \A p \in Points : head'[p] = IF p = P THEN c ELSE head[p]
    BY <1>1, <1>3 DEF Shape, CodeOK
  <1>5. SoundCode'
    BY <1>1, <1>2, <1>3, <1>4 DEF SoundCode, patchVars
  <1>6. SoundJob'
    BY <1>1, IdleType, PlacesAre DEF SoundJob, Ready
  <1>7. QED BY <1>1, <1>5, <1>6

LEMMA SpringSiteSound ==
  ASSUME Shape, SoundCode, SoundJob, Tame, SpringSite
  PROVE  SoundCode' /\ SoundJob' /\ fault' = fault
  <1>1. /\ job.at = "spring.site"
        /\ head' = [head EXCEPT ![P] = Hop(job.spring)] /\ job' = Idle
        /\ UNCHANGED <<patchVars, call, spring, fault>>
    BY DEF SpringSite, At, Tame, PermFails, Success
  <1>2. job.at \in Emitted /\ job.at \in Ready /\ job.at \in AtSpring
    BY <1>1 DEF Emitted, Ready, AtSpring
  <1>3. /\ blob[P] \in filled /\ blob[P] \in execs /\ blob[P][1] = P
        /\ job.spring \in Springs
    BY <1>2, OwnBuffer DEF Shape, InWork
  <1>4. spring[job.spring].by = "jump" /\ spring[job.spring].to = blob[P]
    BY <1>1 DEF SoundJob, P
  <1>5. PICK c \in Code : c = Hop(job.spring) /\ c.by = "hop" /\ c.to = job.spring
    BY <1>3, CodeType
  <1>6. \A p \in Points : head'[p] = IF p = P THEN c ELSE head[p]
    BY <1>1, <1>5 DEF Shape, CodeOK
  <1>7. SoundCode'
    BY <1>1, <1>3, <1>4, <1>5, <1>6 DEF SoundCode, patchVars
  <1>8. SoundJob'
    BY <1>1, IdleType, PlacesAre DEF SoundJob, Ready
  <1>9. QED BY <1>1, <1>7, <1>8

LEMMA TrapSiteSound ==
  ASSUME Shape, SoundCode, SoundJob, Tame, TrapSite
  PROVE  SoundCode' /\ SoundJob' /\ fault' = fault
  <1>1. /\ job.at \in Emitted
        /\ call' = [call EXCEPT ![P] = Trap] /\ job' = Idle
        /\ UNCHANGED <<patchVars, head, spring, fault>>
    BY DEF TrapSite, At, Tame, PermFails, Success, Emitted
  <1>2. blob[P] \in filled
    BY <1>1, OwnBuffer
  <1>3. PICK c \in Code : c = Trap /\ c.by = "trap"
    BY CodeType
  <1>4. \A p \in Points : call'[p] = IF p = P THEN c ELSE call[p]
    BY <1>1, <1>3 DEF Shape, CodeOK
  <1>5. SoundCode'
    BY <1>1, <1>2, <1>3, <1>4 DEF SoundCode, patchVars
  <1>6. SoundJob'
    BY <1>1, IdleType, PlacesAre DEF SoundJob, Ready
  <1>7. QED BY <1>1, <1>5, <1>6

LEMMA GiveUpSound ==
  ASSUME Shape, SoundCode, GiveUp
  PROVE  SoundCode' /\ SoundJob' /\ fault' = fault
  <1>1. SoundCode'
    BY KeepsSoundCode DEF GiveUp, patchVars, codeVars, SoundCode
  <1>2. SoundJob'
    BY IdleType, PlacesAre DEF GiveUp, SoundJob, Ready
  <1>3. QED BY <1>1, <1>2 DEF GiveUp

LEMMA WorkSound ==
  ASSUME Shape, Hops, SoundCode, SoundJob, Tame, NotWild, Work
  PROVE  SoundCode' /\ SoundJob' /\ NotWild'
  <1>1. CASE (\E p \in Points : Start(p)) \/ InsnSave \/ TrapMap \/ SpringSave
    BY <1>1, StartSound, MovesSound, SpringSaveSound DEF NotWild
  <1>2. CASE InsnBlob \/ BlockBlob \/ InsnBuild \/ BlockBuild \/ SpringBuild \/ TrapBuild
    BY <1>2, BlobSound, BuildsSound DEF NotWild
  <1>3. CASE InsnSite \/ InsnExec \/ BlockExec \/ SpringExec \/ BlockSite
    BY <1>3, InsnSiteSound, InsnExecSound, ExecsSound, BlockSiteSound DEF NotWild
  <1>4. CASE SpringReloc \/ SpringSpring \/ SpringSite \/ TrapSite \/ GiveUp
    BY <1>4, SpringRelocSound, SpringSpringSound, SpringSiteSound, TrapSiteSound,
       GiveUpSound DEF NotWild
  <1>5. QED BY <1>1, <1>2, <1>3, <1>4 DEF Work

\* A thread lands only where there is a patch area that may be executed.
LEMMA ExecuteSound ==
  ASSUME Shape, SoundCode, SoundJob, Tame, NotWild,
         NEW t \in Threads, NEW p \in Points,
         Enter(t, p) \/ Head(t, p) \/ Mid(t, p) \/ CallInsn(t, p) \/ OnTrap(t, p)
  PROVE  SoundCode' /\ SoundJob' /\ NotWild'
  <1>1. /\ execs \subseteq execs'
        /\ UNCHANGED <<job, blob, filled, near, head, call, spring>>
    BY ExecuteEffect DEF codeVars
  <1>2. SoundCode'
    BY <1>1, KeepsSoundCode DEF SoundCode
  <1>3. SoundJob'
    BY <1>1 DEF SoundJob
  <1>4. \A b : b \in filled /\ b \in execs' /\ Land(t, b) => fault' = fault
    BY DEF Land, Move
  <1>5. NotWild'
    <2>1. CASE Enter(t, p)
      BY <2>1 DEF Enter, Move, NotWild
    <2>2. CASE Head(t, p)
      <3>1. CASE head[p].by = "none"
        BY <2>2, <3>1 DEF Head, Move, NotWild
      <3>2. CASE head[p].by = "jump"
        <4>1. Land(t, head[p].to)
          BY <2>2, <3>2 DEF Head
        <4>2. head[p].to \in filled /\ head[p].to \in execs'
          BY <1>1, <3>2 DEF SoundCode
        <4>3. QED BY <1>4, <4>1, <4>2 DEF NotWild
      <3>3. CASE head[p].by = "hop"
        <4>1. PICK s : s = spring[head[p].to]
          OBVIOUS
        <4>2. s.by = "jump" /\ s.to \in filled /\ s.to \in execs' /\ s.to[1] = p
          BY <1>1, <3>3, <4>1 DEF SoundCode
        <4>3. Land(t, s.to)
          BY <2>2, <3>3, <4>1, <4>2 DEF Head
        <4>4. QED BY <1>4, <4>2, <4>3 DEF NotWild
      <3>4. QED BY <2>2, <3>1, <3>2, <3>3 DEF Head
    <2>3. CASE Mid(t, p)
      BY <2>3 DEF Mid, Move, Crash, NotWild
    <2>4. CASE CallInsn(t, p)
      <3>1. CASE call[p].by = "jump"
        <4>1. Land(t, call[p].to)
          BY <2>4, <3>1 DEF CallInsn
        <4>2. call[p].to \in filled /\ call[p].to \in execs'
          BY <1>1, <3>1 DEF SoundCode
        <4>3. QED BY <1>4, <4>1, <4>2 DEF NotWild
      <3>2. CASE call[p].by # "jump"
        BY <2>4, <3>2 DEF CallInsn, Move, NotWild
      <3>3. QED BY <3>1, <3>2
    <2>5. CASE OnTrap(t, p)
      <3>1. call[p].by = "trap" /\ p \in trapMap /\ blob[p] \in filled
        BY <2>5 DEF OnTrap, Stands, Shape, Traps, SoundCode
      <3>2. /\ execs' \in {execs \union {blob[p]}} \union (IF PermFails THEN {execs} ELSE {})
            /\ Land(t, blob[p])
        BY <2>5, <3>1 DEF OnTrap
      <3>3. execs' = execs \union {blob[p]}
        BY <3>2 DEF Tame, PermFails
      <3>4. QED BY <1>4, <3>1, <3>2, <3>3 DEF NotWild
    <2>6. QED BY <2>1, <2>2, <2>3, <2>4, <2>5
  <1>6. QED BY <1>2, <1>3, <1>5

Sound == Tame => SoundCode /\ SoundJob /\ NotWild

\* As long as mprotect succeeds and the heap is far away, no thread that meets a
\* block being rewritten is sent to code that is not there, may not be executed
\* or belongs to another call site: the order in which the workers' install()
\* builds, permits and overwrites.
THEOREM NoWildJumpHolds == Spec => []NoWildJump
  <1>1. Init => Shape /\ Hops /\ Sound
    <2>1. ASSUME Init PROVE Hops /\ Sound
      <3>1. \A p \in Points : head[p].by = "none" /\ call[p].by = "none"
        BY <2>1, CodeType DEF Init
      <3>2. job.at = "idle"
        BY <2>1 DEF Init, Idle, NewJob
      <3>3. Hops
        BY <3>1, <3>2, PlacesAre DEF Hops, HopsApart
      <3>4. near = {} /\ fault = "none"
        BY <2>1 DEF Init
      <3>5. Sound
        BY <3>1, <3>2, <3>4, PlacesAre DEF Sound, SoundCode, SoundJob, Ready, NotWild
      <3>6. QED BY <3>3, <3>5
    <2>2. QED BY <2>1, InitShape
  <1>2. Shape /\ Hops /\ Sound /\ [Next]_vars => Shape' /\ Hops' /\ Sound'
    <2>1. SUFFICES ASSUME Shape, Hops, Sound, [Next]_vars, Shape' PROVE Hops' /\ Sound'
      BY NextShape
    <2>2. CASE UNCHANGED vars
      BY <2>1, <2>2 DEF Hops, HopsApart, Sound, Tame, SoundCode, SoundJob, NotWild, vars,
         codeVars, bookVars
    <2>3. CASE Work
      BY <2>1, <2>3, WorkHops, WorkSound DEF Sound, Tame, Work
    <2>4. ASSUME NEW t \in Threads, Execute(t)
          PROVE  Hops' /\ Sound'
      <3>1. UNCHANGED <<mode, job, head, isSpring>>
        BY <2>1, <2>4, ExecuteEffect DEF Execute, codeVars, bookVars
      <3>2. Hops'
        BY <2>1, <3>1 DEF Hops, HopsApart
      <3>3. Sound'
        BY <2>1, <2>4, <3>1, ExecuteSound DEF Execute, Sound, Tame
      <3>4. QED BY <3>2, <3>3
    <2>5. QED BY <2>1, <2>2, <2>3, <2>4 DEF Next
  <1>3. Shape /\ Sound => NoWildJump
    BY DEF Shape, Traps, Sound, Tame, NotWild, NoWildJump
  <1>4. QED BY <1>1, <1>2, <1>3, PTL DEF Spec

=============================================================================
