---------------------------- MODULE PropagateProofs ----------------------------
(***************************************************************************)
(* Proofs about Propagate, for every program, set of threads and depth of  *)
(* calls.                                                                  *)
(***************************************************************************)
EXTENDS Propagate, TLAPS

\* TypeOK in parts, for proofs that need one of them.
PayloadOK  == payload \in [Blocks -> {"none", "user", "toggle"}]
CommandsOK == commands \subseteq Threads \X Blocks
PcOK       == pc \in [Threads -> Pcs]
CallOK     == call \in [Threads -> Call \union {NoCall}]
FramesOK   == frames \in [Threads -> Seq(Frame)]
RestOK     == /\ propagated \subseteq Funcs /\ tried \subseteq Blocks
              /\ owner \in Threads \union {NoThread}
              /\ target \in [Threads -> Funcs \union {NoFunc}]
              /\ inInst \in BOOLEAN /\ gone \in BOOLEAN /\ fault \in BOOLEAN

\* A call of pthread_create names the routine it will start.
HasRoutine(c) == c.callee = CreateFunc => c.routine \in Routines

\* Inside a wrapper there is a call.
HasCall(t) == pc[t] # "run" => call[t] \in Call /\ HasRoutine(call[t])

\* What is handed to go() is a function, and in SpThreadMgr the routine.
HasTarget(t) ==
  /\ pc[t] \in {"go", "mgrGo"} => target[t] \in Funcs
  /\ pc[t] = "mgrGo" => target[t] = call[t].routine

\* pthread_create knows what it was called with.
HasArg(fr) == fr.fn = CreateFunc => fr.arg \in Call /\ fr.arg.routine \in Routines

Shape ==
  /\ PayloadOK /\ CommandsOK /\ PcOK /\ CallOK /\ FramesOK /\ RestOK
  /\ \A t \in Threads : HasCall(t) /\ HasTarget(t)
  /\ \A t \in Threads : \A i \in 1 .. Len(frames[t]) : HasArg(frames[t][i])

LEMMA ShapeIsTypeOK == Shape => TypeOK
  BY DEF Shape, TypeOK, PayloadOK, CommandsOK, PcOK, CallOK, FramesOK, RestOK

LEMMA NoCallType ==
  /\ NoCall.callee = NoFunc /\ NoCall.routine = NoFunc /\ NoCall.ahead = FALSE
  /\ NoFunc \notin Funcs
  BY FuncAssumption DEF NoCall

LEMMA CallFields ==
  ASSUME NEW c \in Call
  PROVE  /\ c.callee \in Funcs /\ c.routine \in Routines \union {NoFunc}
         /\ [c EXCEPT !.ahead = TRUE] \in Call
         /\ [c EXCEPT !.ahead = TRUE].callee = c.callee
         /\ [c EXCEPT !.ahead = TRUE].routine = c.routine
         /\ [c EXCEPT !.ahead = TRUE].ahead
  BY DEF Call

LEMMA NewCallType ==
  ASSUME NEW b \in Blocks, NEW f \in Funcs, NEW r \in Routines \union {NoFunc}
  PROVE  /\ NewCall(b, f, r) \in Call /\ NewCall(b, f, r).callee = f
         /\ NewCall(b, f, r).routine = r /\ ~ NewCall(b, f, r).ahead
  BY DEF NewCall, Call

LEMMA EnteredType ==
  ASSUME NEW f \in Funcs, NEW ahead \in BOOLEAN, NEW c \in Call \union {NoCall}
  PROVE  /\ Entered(f, ahead, c) \in Frame
         /\ Entered(f, ahead, c).fn = f /\ Entered(f, ahead, c).arg = c
         /\ Entered(f, ahead, c).ahead = ahead
  BY DEF Entered, Frame

\* A frame of t after the call is one from before, or the one for the call.
LEMMA EnterEffect ==
  ASSUME FramesOK, CallOK, NEW t \in Threads, NEW c \in Call,
         NEW ahead \in BOOLEAN, HasRoutine(c), Enter(t, c, ahead)
  PROVE  /\ FramesOK' /\ CallOK'
         /\ call' = [call EXCEPT ![t] = NoCall]
         /\ \A u \in Threads : \A i \in 1 .. Len(frames'[u]) :
              \/ i \in 1 .. Len(frames[u]) /\ frames'[u][i] = frames[u][i]
              \/ /\ frames'[u][i].fn = c.callee
                 /\ frames'[u][i].ahead = ahead
                 /\ c.callee = CreateFunc => frames'[u][i].arg = c
                 /\ c.callee # CreateFunc => frames'[u][i].arg = NoCall
  <1>1. PICK arg \in Call \union {NoCall} :
          arg = IF c.callee = CreateFunc THEN c ELSE NoCall
    OBVIOUS
  <1>2. PICK fr \in Frame : /\ fr = Entered(c.callee, ahead, arg)
                            /\ fr.fn = c.callee /\ fr.ahead = ahead
                            /\ fr.arg = arg
    <2>1. c.callee \in Funcs
      BY CallFields
    <2>2. \A f \in Funcs : /\ Entered(f, ahead, arg) \in Frame
                          /\ Entered(f, ahead, arg).fn = f
                          /\ Entered(f, ahead, arg).ahead = ahead
                          /\ Entered(f, ahead, arg).arg = arg
      BY EnteredType
    <2>3. QED BY <2>1, <2>2
  <1>3. /\ frames' = [frames EXCEPT ![t] = Append(frames[t], fr)]
        /\ call' = [call EXCEPT ![t] = NoCall]
    BY <1>1, <1>2 DEF Enter
  <1>4. FramesOK' /\ CallOK'
    BY <1>3 DEF FramesOK, CallOK
  <1>5. ASSUME NEW u \in Threads, NEW i \in 1 .. Len(frames'[u])
        PROVE  \/ i \in 1 .. Len(frames[u]) /\ frames'[u][i] = frames[u][i]
               \/ frames'[u][i] = fr
    BY <1>3 DEF FramesOK
  <1>6. QED BY <1>1, <1>2, <1>3, <1>4, <1>5

LEMMA InitShape == Init => Shape
  <1> SUFFICES ASSUME Init PROVE Shape
    OBVIOUS
  <1>1. PayloadOK
    BY DEF Init, PayloadOK
  <1>2. CommandsOK /\ PcOK /\ CallOK
    BY DEF Init, CommandsOK, PcOK, Pcs, CallOK
  <1>3. RestOK
    BY FuncAssumption, BlockAssumption DEF Init, RestOK
  <1>4. PICK e \in Frame : e = Entered(Main, FALSE, NoCall) /\ e.fn = Main
    BY FuncAssumption, EnteredType
  <1>5. frames = [t \in Threads |-> IF t = MainThread THEN <<e>> ELSE <<>>]
    BY <1>4 DEF Init
  <1>6. FramesOK
    BY <1>5 DEF FramesOK
  <1>7. \A t \in Threads : HasCall(t) /\ HasTarget(t)
    BY DEF Init, HasCall, HasTarget
  <1>8. ASSUME NEW t \in Threads, NEW i \in 1 .. Len(frames[t])
        PROVE  HasArg(frames[t][i])
    <2>1. frames[t][i] = e
      <3>1. CASE t = MainThread
        BY <1>8, <1>5, <3>1
      <3>2. CASE t # MainThread
        BY <1>8, <1>5, <3>2
      <3>3. QED BY <3>1, <3>2
    <2>2. QED BY <1>4, <2>1, FuncAssumption DEF HasArg
  <1>9. QED BY <1>1, <1>2, <1>3, <1>6, <1>7, <1>8 DEF Shape

-----------------------------------------------------------------------------
(* The steps of a call.                                                    *)

LEMMA ReachType ==
  ASSUME NEW t \in Threads, NEW b \in Blocks, NEW f \in Funcs,
         NEW r \in Routines \union {NoFunc}, Reach(t, b, f, r)
  PROVE  /\ NewCall(b, f, r) \in Call /\ HasRoutine(NewCall(b, f, r))
         /\ NewCall(b, f, r).callee = f /\ NewCall(b, f, r).routine = r
         /\ pc[t] = "run"
  BY NewCallType DEF Reach, HasRoutine

\* A thread goes on into the function it calls.
LEMMA EnterShape ==
  ASSUME Shape, NEW t \in Threads, NEW c \in Call, NEW ahead \in BOOLEAN,
         HasRoutine(c), Enter(t, c, ahead), PayloadOK', CommandsOK', RestOK',
         pc' = [pc EXCEPT ![t] = "run"],
         \A u \in Threads \ {t} : target'[u] = target[u]
  PROVE  Shape'
  <1> USE DEF Shape
  <1>1. /\ FramesOK' /\ CallOK' /\ call' = [call EXCEPT ![t] = NoCall]
        /\ \A u \in Threads : \A i \in 1 .. Len(frames'[u]) :
             \/ i \in 1 .. Len(frames[u]) /\ frames'[u][i] = frames[u][i]
             \/ /\ frames'[u][i].fn = c.callee
                /\ c.callee = CreateFunc => frames'[u][i].arg = c
    BY EnterEffect
  <1>2. PcOK'
    BY DEF PcOK, Pcs
  <1>3. \A u \in Threads : HasCall(u)' /\ HasTarget(u)'
    BY <1>1 DEF HasCall, HasTarget, PcOK, CallOK
  <1>4. ASSUME NEW u \in Threads, NEW i \in 1 .. Len(frames'[u])
        PROVE  HasArg(frames'[u][i])
    BY <1>1 DEF HasArg, HasRoutine
  <1>5. QED BY <1>1, <1>2, <1>3, <1>4

\* A thread moves on inside its wrapper.
LEMMA MoveShape ==
  ASSUME Shape, NEW t \in Threads, NEW c \in Call, NEW at \in Pcs,
         HasRoutine(c), at \in {"go", "mgrGo"} => target'[t] \in Funcs,
         at = "mgrGo" => target'[t] = c.routine,
         \A u \in Threads \ {t} : target'[u] = target[u],
         call' = [call EXCEPT ![t] = c], pc' = [pc EXCEPT ![t] = at],
         frames' = frames, PayloadOK', CommandsOK', RestOK'
  PROVE  Shape'
  <1> USE DEF Shape
  <1>1. PcOK' /\ CallOK' /\ FramesOK'
    BY DEF PcOK, CallOK, FramesOK
  <1>2. \A u \in Threads : HasCall(u)' /\ HasTarget(u)'
    BY DEF HasCall, HasTarget, PcOK, CallOK
  <1>3. QED BY <1>1, <1>2

LEMMA AskType ==
  ASSUME CommandsOK, NEW t \in Threads, NEW f \in Funcs, Ask(t, f)
  PROVE  CommandsOK'
  <1>1. NewPoints(f) \subseteq Blocks
    BY BlockAssumption DEF NewPoints
  <1>2. QED BY <1>1 DEF CommandsOK, Ask

LEMMA CallShape ==
  ASSUME Shape, NEW t \in Threads, NEW b \in Blocks, NEW f \in Funcs,
         NEW r \in Routines \union {NoFunc},
         PlainCall(t, b, f, r) \/ WrappedCall(t, b, f, r) \/ ToggleCall(t, b, f, r)
  PROVE  Shape'
  <1>1. Reach(t, b, f, r)
    BY DEF PlainCall, WrappedCall, ToggleCall
  <1>2. PICK c \in Call : /\ c = NewCall(b, f, r) /\ HasRoutine(c)
                          /\ c.callee = f /\ pc[t] = "run"
    BY <1>1, ReachType
  <1>3. PayloadOK' /\ CommandsOK' /\ RestOK'
    BY DEF Shape, PlainCall, WrappedCall, ToggleCall, PayloadOK, CommandsOK, RestOK
  <1>4. CASE PlainCall(t, b, f, r) \/ ToggleCall(t, b, f, r)
    <2>1. Enter(t, c, FALSE) /\ pc' = pc
      BY <1>2, <1>4 DEF PlainCall, ToggleCall
    <2>2. pc' = [pc EXCEPT ![t] = "run"]
      BY <1>2, <2>1 DEF Shape, PcOK
    <2>3. target' = target
      BY <1>4 DEF PlainCall, ToggleCall
    <2>4. QED BY <1>2, <1>3, <2>1, <2>2, <2>3, EnterShape
  <1>5. CASE WrappedCall(t, b, f, r)
    <2>1. PICK at \in Pcs :
            /\ at \in {"mgrLock", "propel"}
            /\ pc' = [pc EXCEPT ![t] = at]
      BY <1>5 DEF WrappedCall, Pcs
    <2>2. call' = [call EXCEPT ![t] = c] /\ frames' = frames /\ target' = target
      BY <1>2, <1>5 DEF WrappedCall
    <2>3. QED BY <1>2, <1>3, <2>1, <2>2, MoveShape
  <1>6. QED BY <1>4, <1>5

\* The steps of SpThreadMgr.
LEMMA MgrShape ==
  ASSUME Shape, NEW t \in Threads,
         MgrLock(t) \/ MgrSkip(t) \/ MgrExit(t) \/ MgrUnlock(t)
  PROVE  Shape'
  <1> USE DEF Shape
  <1>1. PICK c \in Call : c = call[t] /\ HasRoutine(c)
    BY DEF MgrLock, MgrSkip, MgrExit, MgrUnlock, Lock, Unlock, HasCall
  <1>2. call = [call EXCEPT ![t] = c]
    BY <1>1 DEF CallOK
  <1>3. PayloadOK' /\ frames' = frames
    BY DEF MgrLock, MgrSkip, MgrExit, MgrUnlock, PayloadOK
  <1>4. CASE MgrLock(t)
    <2>1. PICK r \in Routines : r = c.routine /\ r \in Funcs
      BY <1>1, <1>4, FuncAssumption DEF MgrLock, HasRoutine
    <2>2. target' = [target EXCEPT ![t] = r] /\ Ask(t, r) /\ call' = call
      BY <1>1, <1>4, <2>1 DEF MgrLock, LookUp
    <2>3. owner' = t /\ pc' = [pc EXCEPT ![t] = "mgrGo"]
      BY <1>4 DEF MgrLock, Lock
    <2>4. CommandsOK'
      BY <2>1, <2>2, AskType
    <2>5. RestOK'
      BY <1>4, <2>1, <2>2, <2>3 DEF MgrLock, RestOK
    <2>6. /\ target'[t] = r
          /\ \A u \in Threads \ {t} : target'[u] = target[u]
      BY <2>2 DEF RestOK
    <2>7. QED BY <1>1, <1>2, <1>3, <2>1, <2>2, <2>3, <2>4, <2>5, <2>6, MoveShape
              DEF Pcs
  <1>5. CASE MgrSkip(t)
    <2>1. CommandsOK' /\ RestOK'
      BY <1>5 DEF MgrSkip, Lock, CommandsOK, RestOK
    <2>2. pc' = [pc EXCEPT ![t] = "mgrOut"] /\ call' = call /\ target' = target
      BY <1>5 DEF MgrSkip, Lock
    <2>3. QED BY <1>1, <1>2, <1>3, <2>1, <2>2, MoveShape DEF Pcs
  <1>6. CASE MgrExit(t)
    <2>1. CommandsOK' /\ RestOK'
      BY <1>6 DEF MgrExit, Unlock, LookUp, CommandsOK, RestOK
    <2>2. /\ pc' = [pc EXCEPT ![t] = "propel"] /\ call' = call
          /\ \A u \in Threads \ {t} : target'[u] = target[u]
      BY <1>6 DEF MgrExit, Unlock, LookUp, RestOK
    <2>3. QED BY <1>1, <1>2, <1>3, <2>1, <2>2, MoveShape DEF Pcs
  <1>7. CASE MgrUnlock(t)
    <2>1. PICK f \in Funcs : f = target[t]
      BY <1>7 DEF MgrUnlock, Unlock, HasTarget
    <2>2. CommandsOK' /\ RestOK'
      BY <1>7, <2>1 DEF MgrUnlock, Unlock, LookUp, RestOK, CommandsOK
    <2>3. PICK d \in Call : /\ d = [c EXCEPT !.ahead = TRUE]
                            /\ d.callee = c.callee /\ d.routine = c.routine
      BY CallFields
    <2>4. call' = [call EXCEPT ![t] = d]
      BY <1>1, <1>7, <2>3 DEF MgrUnlock
    <2>5. /\ pc' = [pc EXCEPT ![t] = "propel"]
          /\ \A u \in Threads \ {t} : target'[u] = target[u]
      BY <1>7 DEF MgrUnlock, Unlock, LookUp, RestOK
    <2>6. HasRoutine(d)
      BY <1>1, <2>3 DEF HasRoutine
    <2>7. QED BY <1>3, <2>2, <2>4, <2>5, <2>6, MoveShape DEF Pcs
  <1>8. QED BY <1>4, <1>5, <1>6, <1>7

\* The steps of Propel.
LEMMA PropelShape ==
  ASSUME Shape, NEW t \in Threads,
         \/ Propel(t) \/ PropelExit(t) \/ PropelUnlock(t)
         \/ \E f \in Funcs \union {NoFunc} : PropelLock(t, f) \/ PropelSkip(t, f)
  PROVE  Shape'
  <1> USE DEF Shape
  <1>1. PICK c \in Call : c = call[t] /\ HasRoutine(c)
    BY DEF Propel, PropelLock, PropelSkip, PropelExit, PropelUnlock, Lock, Unlock,
           HasCall
  <1>2. call = [call EXCEPT ![t] = c]
    BY <1>1 DEF CallOK
  <1>3. PayloadOK'
    BY DEF Propel, PropelLock, PropelSkip, PropelExit, PropelUnlock, PayloadOK
  <1>4. CASE Propel(t)
    <2>1. CommandsOK' /\ RestOK' /\ target' = target
      BY <1>4 DEF Propel, CommandsOK, RestOK
    <2>2. CASE inInst
      BY <1>1, <1>2, <1>3, <1>4, <2>1, <2>2, MoveShape DEF Propel, Pcs
    <2>3. CASE ~ inInst
      BY <1>1, <1>3, <1>4, <2>1, <2>3, EnterShape DEF Propel
    <2>4. QED BY <2>2, <2>3
  <1>5. ASSUME NEW f \in Funcs \union {NoFunc}, PropelLock(t, f) PROVE Shape'
    <2>1. f \in Funcs
      BY <1>5 DEF PropelLock, Settled
    <2>2. Ask(t, f) /\ call' = call /\ frames' = frames /\ owner' = t
      BY <1>5 DEF PropelLock, Lock
    <2>3. CommandsOK'
      BY <2>1, <2>2, AskType
    <2>4. RestOK'
      BY <1>5 DEF PropelLock, Lock, LookUp, RestOK
    <2>5. /\ pc' = [pc EXCEPT ![t] = "go"] /\ target'[t] = f
          /\ \A u \in Threads \ {t} : target'[u] = target[u]
      BY <1>5 DEF PropelLock, Lock, LookUp, RestOK
    <2>6. QED BY <1>1, <1>2, <1>3, <2>1, <2>2, <2>3, <2>4, <2>5, MoveShape DEF Pcs
  <1>6. ASSUME NEW f \in Funcs \union {NoFunc}, PropelSkip(t, f) PROVE Shape'
    <2>1. CommandsOK' /\ call' = call /\ frames' = frames
      BY <1>6 DEF PropelSkip, CommandsOK
    <2>2. RestOK'
      BY <1>6 DEF PropelSkip, Lock, LookUp, RestOK
    <2>3. /\ pc' = [pc EXCEPT ![t] = "out"]
          /\ \A u \in Threads \ {t} : target'[u] = target[u]
      BY <1>6 DEF PropelSkip, Lock, LookUp, RestOK
    <2>4. QED BY <1>1, <1>2, <1>3, <2>1, <2>2, <2>3, MoveShape DEF Pcs
  <1>7. CASE PropelExit(t) \/ PropelUnlock(t)
    <2>1. PropelUnlock(t) => target[t] \in Funcs
      BY DEF PropelUnlock, Unlock, HasTarget
    <2>2. CommandsOK' /\ RestOK'
      BY <1>7, <2>1 DEF PropelExit, PropelUnlock, Unlock, LookUp, RestOK, CommandsOK
    <2>3. PICK ahead \in BOOLEAN : ahead = (c.callee = target[t])
      OBVIOUS
    <2>4. Enter(t, c, ahead)
      BY <1>1, <1>7, <2>3 DEF PropelExit, PropelUnlock, Proceed
    <2>5. /\ pc' = [pc EXCEPT ![t] = "run"]
          /\ \A u \in Threads \ {t} : target'[u] = target[u]
      BY <1>7 DEF PropelExit, PropelUnlock, Unlock, LookUp, RestOK
    <2>6. QED BY <1>1, <1>3, <2>2, <2>4, <2>5, EnterShape
  <1>8. QED BY <1>4, <1>5, <1>6, <1>7

LEMMA InstallShape ==
  ASSUME Shape, NEW t \in Threads, NEW u \in Threads, NEW b \in Blocks,
         Install(t, u, b)
  PROVE  Shape'
  <1> USE DEF Shape
  <1>1. PayloadOK' /\ CommandsOK' /\ RestOK'
    BY DEF Install, PayloadOK, CommandsOK, RestOK
  <1>2. pc' = pc /\ call' = call /\ frames' = frames /\ target' = target
    BY DEF Install
  <1>3. QED BY <1>1, <1>2 DEF PcOK, CallOK, FramesOK, HasCall, HasTarget

-----------------------------------------------------------------------------
(* Threads that start, functions that return.                              *)

\* A function leaves its frame to nobody.
LEMMA PopEffect ==
  ASSUME NEW s \in Seq(Frame), Len(s) > 0
  PROVE  /\ SubSeq(s, 1, Len(s) - 1) \in Seq(Frame)
         /\ \A i \in 1 .. Len(SubSeq(s, 1, Len(s) - 1)) :
              /\ i \in 1 .. Len(s)
              /\ SubSeq(s, 1, Len(s) - 1)[i] = s[i]
  OBVIOUS

LEMMA StartEffect ==
  ASSUME Shape, NEW t \in Threads, NEW u \in Threads, Start(t, u)
  PROVE  /\ u # t
         /\ \E n \in Frame :
              /\ n.fn = Top(t).arg.routine /\ n.ahead = Top(t).arg.ahead
              /\ n.arg = NoCall
              /\ frames' = [frames EXCEPT ![t] = SubSeq(@, 1, Len(@) - 1),
                                          ![u] = <<n>>]
         /\ Len(frames[t]) \in 1 .. Len(frames[t])
         /\ Top(t).arg.routine \in Routines
  <1> USE DEF Shape
  <1>1. u # t /\ frames[t] \in Seq(Frame) /\ Len(frames[t]) \in 1 .. Len(frames[t])
    BY DEF Start, Alive, FramesOK
  <1>2. Top(t).fn = CreateFunc /\ HasArg(Top(t))
    BY <1>1 DEF Start, Current, Top
  <1>3. Top(t).arg \in Call /\ Top(t).arg.routine \in Routines
    BY <1>2 DEF HasArg
  <1>4. Top(t).arg.ahead \in BOOLEAN /\ Top(t).arg.routine \in Funcs
    BY <1>3, FuncAssumption DEF Call
  <1>5. PICK n \in Frame :
          /\ n = Entered(Top(t).arg.routine, Top(t).arg.ahead, NoCall)
          /\ n.fn = Top(t).arg.routine /\ n.ahead = Top(t).arg.ahead
          /\ n.arg = NoCall
    <2>1. PICK f \in Funcs, b \in BOOLEAN :
            f = Top(t).arg.routine /\ b = Top(t).arg.ahead
      BY <1>4
    <2>2. /\ Entered(f, b, NoCall) \in Frame
          /\ Entered(f, b, NoCall).fn = f /\ Entered(f, b, NoCall).ahead = b
          /\ Entered(f, b, NoCall).arg = NoCall
      BY EnteredType
    <2>3. QED BY <2>1, <2>2
  <1>6. frames' = [frames EXCEPT ![t] = SubSeq(@, 1, Len(@) - 1), ![u] = <<n>>]
    BY <1>5 DEF Start
  <1>7. QED BY <1>1, <1>3, <1>5, <1>6

LEMMA StartShape ==
  ASSUME Shape, NEW t \in Threads, NEW u \in Threads, Start(t, u)
  PROVE  Shape'
  <1> USE DEF Shape
  <1>1. PICK n \in Frame :
          /\ n.fn \in Routines
          /\ frames' = [frames EXCEPT ![t] = SubSeq(@, 1, Len(@) - 1),
                                      ![u] = <<n>>]
    BY StartEffect
  <1>2. u # t /\ Len(frames[t]) > 0
    BY StartEffect DEF FramesOK
  <1>3. /\ PayloadOK' /\ CommandsOK' /\ RestOK' /\ PcOK' /\ CallOK'
        /\ \A v \in Threads : HasCall(v)' /\ HasTarget(v)'
    BY DEF Start, PayloadOK, CommandsOK, RestOK, PcOK, CallOK, HasCall, HasTarget
  <1>4. /\ frames'[u] = <<n>> /\ frames'[t] = SubSeq(frames[t], 1, Len(frames[t]) - 1)
        /\ \A v \in Threads \ {t, u} : frames'[v] = frames[v]
    BY <1>1, <1>2 DEF FramesOK
  <1>5. frames'[t] \in Seq(Frame)
    BY <1>2, <1>4, PopEffect DEF FramesOK
  <1>6. FramesOK'
    <2>1. <<n>> \in Seq(Frame)
      OBVIOUS
    <2>2. \A v \in Threads : frames'[v] \in Seq(Frame)
      BY <1>4, <1>5, <2>1 DEF FramesOK
    <2>3. frames' = [v \in Threads |-> frames'[v]]
      BY <1>1 DEF FramesOK
    <2>4. QED BY <2>2, <2>3 DEF FramesOK
  <1>7. ASSUME NEW v \in Threads, NEW i \in 1 .. Len(frames'[v])
        PROVE  HasArg(frames'[v][i])
    <2>1. CASE v = u
      <3>1. frames'[v][i] = n
        BY <1>4, <1>7, <2>1
      <3>2. QED BY <1>1, <3>1, FuncAssumption DEF HasArg
    <2>2. CASE v = t
      <3>1. frames[t] \in Seq(Frame)
        BY DEF FramesOK
      <3>2. i \in 1 .. Len(frames[t]) /\ frames'[v][i] = frames[t][i]
        BY <1>2, <1>4, <1>7, <2>2, <3>1, PopEffect
      <3>3. QED BY <3>2
    <2>3. CASE v \notin {t, u}
      BY <1>4, <1>7, <2>3
    <2>4. QED BY <2>1, <2>2, <2>3
  <1>8. QED BY <1>3, <1>6, <1>7

LEMMA ReturnShape ==
  ASSUME Shape, NEW t \in Threads, Return(t)
  PROVE  Shape'
  <1> USE DEF Shape
  <1>1. /\ PayloadOK' /\ CommandsOK' /\ RestOK' /\ PcOK' /\ CallOK'
        /\ \A v \in Threads : HasCall(v)' /\ HasTarget(v)'
    BY DEF Return, PayloadOK, CommandsOK, RestOK, PcOK, CallOK, HasCall, HasTarget
  <1>2. /\ frames' = [frames EXCEPT ![t] = SubSeq(frames[t], 1, Len(frames[t]) - 1)]
        /\ Len(frames[t]) > 0 /\ frames[t] \in Seq(Frame)
    BY DEF Return, FramesOK
  <1>3. FramesOK'
    BY <1>2, PopEffect DEF FramesOK
  <1>4. ASSUME NEW v \in Threads, NEW i \in 1 .. Len(frames'[v])
        PROVE  HasArg(frames'[v][i])
    <2>1. CASE v = t
      BY <1>2, <1>4, <2>1, PopEffect DEF FramesOK
    <2>2. CASE v # t
      BY <1>2, <1>4, <2>2 DEF FramesOK
    <2>3. QED BY <2>1, <2>2
  <1>5. QED BY <1>1, <1>3, <1>4

LEMMA StepShape == Shape /\ [Next]_vars => Shape'
  <1> SUFFICES ASSUME Shape, [Next]_vars PROVE Shape'
    OBVIOUS
  <1>1. ASSUME NEW t \in Threads, DestroyGlobals(t) PROVE Shape'
    BY <1>1 DEF Shape, DestroyGlobals, PayloadOK, CommandsOK, RestOK, PcOK,
                CallOK, FramesOK, HasCall, HasTarget
  <1>2. CASE UNCHANGED vars
    BY <1>2 DEF vars, Shape, PayloadOK, CommandsOK, RestOK, PcOK, CallOK,
                FramesOK, HasCall, HasTarget
  <1>3. QED BY <1>1, <1>2, CallShape, MgrShape, PropelShape, InstallShape, StartShape,
               ReturnShape DEF Next

\* SpSnippet, SpFunction and the bookkeeping of the propeller stay well
\* formed, and pthread_create always knows the routine it is to start.
THEOREM TypeCorrect == Spec => []TypeOK
  BY InitShape, StepShape, ShapeIsTypeOK, PTL DEF Spec

-----------------------------------------------------------------------------
(***************************************************************************)
(* NoBlockTwice and FrontierAhead.  The lock makes commands the property   *)
(* of one thread, asked for and run under it; and of a function the agent  *)
(* has gone through, or is going through, each call block worth the effort *)
(* has been tried or is still among the commands.                          *)
(***************************************************************************)
Working(t) == pc[t] \in {"go", "mgrGo"}

Holding(t) == Working(t) \/ pc[t] \in {"out", "mgrOut"}

LockHeld == \A t \in Threads : Holding(t) => owner = t

\* What is asked for is asked for by the holder of the lock, and is new.
CommandsNew ==
  \A u \in Threads, b \in Blocks :
    <<u, b>> \in commands => owner = u /\ payload[b] = "none" /\ Working(u)

PatchedTried == \A b \in Blocks : payload[b] # "none" => b \in tried

\* f is done with, or is being done with by t.
Done(f) == f \in InstFuncs => \A b \in BlocksOf[f] : Worth(b) => b \in tried

InHand(t, f) ==
  f \in InstFuncs =>
    \A b \in BlocksOf[f] : Worth(b) => b \in tried \/ <<t, b>> \in commands

WorkInHand(t) ==
  /\ Working(t) => InHand(t, target[t])
  /\ pc[t] = "out" /\ target[t] # NoFunc => Done(target[t])

\* What is marked as looked at has been: in the call and in its frame.
CallHonest(c)   == c.ahead => Done(c.routine)
FrameHonest(fr) == (fr.ahead => Done(fr.fn)) /\ CallHonest(fr.arg)

Frontier ==
  /\ Shape /\ ~ fault
  /\ LockHeld /\ CommandsNew /\ PatchedTried
  /\ \A f \in propagated : Done(f)
  /\ \A t \in Threads : WorkInHand(t) /\ CallHonest(call[t])
  /\ \A t \in Threads : \A i \in 1 .. Len(frames[t]) : FrameHonest(frames[t][i])

LEMMA DoneKept ==
  ASSUME NEW f, Done(f), tried \subseteq tried'
  PROVE  Done(f)'
  BY DEF Done, Worth, KnownCallee

LEMMA FrontierImplies == Frontier => NoBlockTwice /\ FrontierAhead
  <1> SUFFICES ASSUME Frontier PROVE FrontierAhead
    BY DEF Frontier, NoBlockTwice
  <1>1. SUFFICES ASSUME NEW t \in Threads, NEW i \in 1 .. Len(frames[t]),
                        frames[t][i].ahead, frames[t][i].fn \in InstFuncs,
                        NEW b \in BlocksOf[frames[t][i].fn], Worth(b)
                 PROVE  b \in tried
    BY DEF FrontierAhead
  <1>2. Done(frames[t][i].fn)
    BY <1>1 DEF Frontier, FrameHonest
  <1>3. QED BY <1>1, <1>2 DEF Done

LEMMA InitFrontier == Init => Frontier
  <1> SUFFICES ASSUME Init PROVE Frontier
    OBVIOUS
  <1>1. Shape
    BY InitShape
  <1>2. ~ fault /\ LockHeld /\ CommandsNew /\ propagated = {}
    BY DEF Init, LockHeld, CommandsNew, Working, Holding
  <1>3. PatchedTried
    BY DEF Init, PatchedTried
  <1>4. \A t \in Threads : WorkInHand(t) /\ CallHonest(call[t])
    BY NoCallType DEF Init, WorkInHand, CallHonest, Working
  <1>5. ASSUME NEW t \in Threads, NEW i \in 1 .. Len(frames[t])
        PROVE  FrameHonest(frames[t][i])
    <2>1. PICK e : e = Entered(Main, FALSE, NoCall)
      OBVIOUS
    <2>2. e.ahead = FALSE /\ e.arg = NoCall
      BY <2>1 DEF Entered
    <2>3. frames = [u \in Threads |-> IF u = MainThread THEN <<e>> ELSE <<>>]
      BY <2>1 DEF Init
    <2>4. frames[t][i] = e
      <3>1. CASE t = MainThread
        BY <1>5, <2>3, <3>1
      <3>2. CASE t # MainThread
        BY <1>5, <2>3, <3>2
      <3>3. QED BY <3>1, <3>2
    <2>5. QED BY <2>2, <2>4, NoCallType DEF FrameHonest, CallHonest
  <1>6. QED BY <1>1, <1>2, <1>3, <1>4, <1>5 DEF Frontier

-----------------------------------------------------------------------------
(* Parts of Frontier that most steps leave alone.                          *)

\* Commands, patches and the lock are as they were.
Calm == UNCHANGED <<payload, commands, tried, owner, fault>>

LEMMA CalmKeeps ==
  ASSUME Frontier, Calm, Shape',
         \A u \in Threads : Holding(u)' => Holding(u),
         \A u \in Threads : Working(u) => Working(u)',
         propagated' = propagated
  PROVE  /\ ~ fault' /\ LockHeld' /\ CommandsNew' /\ PatchedTried'
         /\ \A f \in propagated' : Done(f)'
  <1>1. ~ fault' /\ LockHeld' /\ CommandsNew' /\ PatchedTried'
    BY DEF Frontier, Calm, LockHeld, CommandsNew, PatchedTried
  <1>2. tried \subseteq tried'
    BY DEF Calm
  <1>3. \A f \in propagated' : Done(f)'
    BY <1>2, DoneKept DEF Frontier
  <1>4. QED BY <1>1, <1>3

LEMMA WorkKept ==
  ASSUME NEW u \in Threads, WorkInHand(u), commands' = commands,
         tried' = tried, target'[u] = target[u], pc'[u] = pc[u]
  PROVE  WorkInHand(u)'
  BY DEF WorkInHand, InHand, Done, Working, Worth, KnownCallee

\* A thread that enters a function it may be ahead of.
LEMMA EnterHonest ==
  ASSUME Frontier, NEW t \in Threads, NEW c \in Call, NEW ahead \in BOOLEAN,
         HasRoutine(c), Enter(t, c, ahead), tried \subseteq tried',
         ahead => Done(c.callee)', CallHonest(c)
  PROVE  /\ \A u \in Threads : CallHonest(call[u])'
         /\ \A u \in Threads : \A i \in 1 .. Len(frames'[u]) :
              FrameHonest(frames[u][i])'
  <1> USE DEF Frontier, Shape
  <1>1. /\ call' = [call EXCEPT ![t] = NoCall]
        /\ \A u \in Threads : \A i \in 1 .. Len(frames'[u]) :
             \/ i \in 1 .. Len(frames[u]) /\ frames'[u][i] = frames[u][i]
             \/ /\ frames'[u][i].fn = c.callee
                /\ frames'[u][i].ahead = ahead
                /\ c.callee = CreateFunc => frames'[u][i].arg = c
                /\ c.callee # CreateFunc => frames'[u][i].arg = NoCall
    BY EnterEffect
  <1>2. ASSUME NEW u \in Threads PROVE CallHonest(call[u])'
    <2>1. call'[u] = NoCall \/ call'[u] = call[u]
      BY <1>1 DEF CallOK
    <2>2. CASE call'[u] = NoCall
      BY <2>2, NoCallType DEF CallHonest
    <2>3. CASE call'[u] = call[u]
      BY <2>3, DoneKept DEF CallHonest
    <2>4. QED BY <2>1, <2>2, <2>3
  <1>3. ASSUME NEW u \in Threads, NEW i \in 1 .. Len(frames'[u])
        PROVE  FrameHonest(frames[u][i])'
    <2>1. CASE i \in 1 .. Len(frames[u]) /\ frames'[u][i] = frames[u][i]
      BY <2>1, DoneKept DEF FrameHonest, CallHonest
    <2>2. CASE /\ frames'[u][i].fn = c.callee
               /\ frames'[u][i].ahead = ahead
               /\ frames'[u][i].arg \in {c, NoCall}
      BY <2>2, DoneKept, NoCallType DEF FrameHonest, CallHonest
    <2>3. QED BY <1>1, <2>1, <2>2
  <1>4. QED BY <1>2, <1>3

LEMMA CallFrontier ==
  ASSUME Frontier, NEW t \in Threads, NEW b \in Blocks, NEW f \in Funcs,
         NEW r \in Routines \union {NoFunc}, Shape',
         PlainCall(t, b, f, r) \/ WrappedCall(t, b, f, r) \/ ToggleCall(t, b, f, r)
  PROVE  Frontier'
  <1> USE DEF Frontier
  <1>1. Reach(t, b, f, r)
    BY DEF PlainCall, WrappedCall, ToggleCall
  <1>2. PICK c \in Call : /\ c = NewCall(b, f, r) /\ HasRoutine(c) /\ ~ c.ahead
                          /\ pc[t] = "run"
    BY <1>1, ReachType, NewCallType
  <1>3. /\ Calm /\ propagated' = propagated
        /\ \A u \in Threads \ {t} : pc'[u] = pc[u]
        /\ target' = target
        /\ ~ Working(t) /\ ~ Holding(t)' /\ pc'[t] # "out"
    BY <1>2 DEF PlainCall, WrappedCall, ToggleCall, Calm, Shape, PcOK,
                Working, Holding
  <1>4. /\ ~ fault' /\ LockHeld' /\ CommandsNew' /\ PatchedTried'
        /\ \A g \in propagated' : Done(g)'
    BY <1>3, CalmKeeps DEF Working, Holding
  <1>5. \A u \in Threads : WorkInHand(u)'
    BY <1>3, WorkKept DEF Calm, WorkInHand, Holding
  <1>6. CASE PlainCall(t, b, f, r) \/ ToggleCall(t, b, f, r)
    <2>1. Enter(t, c, FALSE) /\ CallHonest(c)
      BY <1>2, <1>6 DEF PlainCall, ToggleCall, CallHonest
    <2>2. tried \subseteq tried'
      BY <1>3 DEF Calm
    <2>3. QED BY <1>2, <1>4, <1>5, <2>1, <2>2, EnterHonest
  <1>7. CASE WrappedCall(t, b, f, r)
    <2>1. call' = [call EXCEPT ![t] = c] /\ frames' = frames /\ tried' = tried
      BY <1>2, <1>7 DEF WrappedCall
    <2>2. \A u \in Threads : CallHonest(call[u])'
      BY <1>2, <2>1, DoneKept DEF CallHonest, Shape, CallOK
    <2>3. \A u \in Threads : \A i \in 1 .. Len(frames'[u]) :
            FrameHonest(frames[u][i])'
      BY <2>1, DoneKept DEF FrameHonest, CallHonest
    <2>4. QED BY <1>4, <1>5, <2>2, <2>3
  <1>8. QED BY <1>6, <1>7

\* Nobody holds the lock: nothing is asked for and nobody is at work.
LEMMA LockFree ==
  ASSUME Frontier, owner = NoThread
  PROVE  commands = {} /\ \A u \in Threads : ~ Holding(u)
  BY ThreadAssumption DEF Frontier, Shape, CommandsOK, CommandsNew, LockHeld

\* What the steps under the lock leave alone.
LEMMA TriedKept ==
  ASSUME Frontier, UNCHANGED <<propagated, tried, call, frames>>
  PROVE  /\ \A g \in propagated' : Done(g)'
         /\ \A u \in Threads : CallHonest(call[u])'
         /\ \A u \in Threads : \A i \in 1 .. Len(frames'[u]) :
              FrameHonest(frames[u][i])'
  BY DoneKept DEF Frontier, FrameHonest, CallHonest

\* With the lock just taken, the blocks of f that have no payload are asked
\* for: the others have been tried.
LEMMA LockedFrontier ==
  ASSUME Frontier, Shape', NEW t \in Threads, NEW f,
         owner = NoThread, owner' = t, Ask(t, f),
         \A u \in Threads \ {t} : pc'[u] = pc[u],
         Working(t)', target'[t] = f,
         UNCHANGED <<payload, propagated, tried, call, frames, fault>>
  PROVE  Frontier'
  <1> USE DEF Frontier
  <1>1. commands = {} /\ \A u \in Threads : ~ Holding(u)
    BY LockFree
  <1>2. InHand(t, f)'
    <2>1. SUFFICES ASSUME f \in InstFuncs, NEW b \in BlocksOf[f], Worth(b),
                          b \notin tried
                   PROVE  <<t, b>> \in commands'
      BY DEF InHand, Worth, KnownCallee
    <2>2. b \in Blocks
      BY <2>1, FuncAssumption, BlockAssumption
    <2>3. b \in NewPoints(f)
      BY <2>1, <2>2 DEF NewPoints, PatchedTried
    <2>4. QED BY <2>3 DEF Ask
  <1>3. CommandsNew'
    BY <1>1 DEF CommandsNew, Ask, NewPoints
  <1>4. LockHeld' /\ PatchedTried'
    BY <1>1 DEF LockHeld, Holding, Working, PatchedTried
  <1>5. ASSUME NEW u \in Threads PROVE WorkInHand(u)'
    <2>1. CASE u = t
      <3>1. target'[u] = f /\ pc'[u] # "out" /\ InHand(u, f)'
        BY <1>2, <2>1 DEF Working
      <3>2. InHand(u, target[u])'
        BY <3>1 DEF InHand
      <3>3. QED BY <3>1, <3>2 DEF WorkInHand
    <2>2. CASE u # t
      <3>1. pc'[u] = pc[u] /\ ~ Holding(u)
        BY <1>1, <2>2
      <3>2. QED BY <3>1 DEF WorkInHand, Holding, Working
    <2>3. QED BY <2>1, <2>2
  <1>6. QED BY <1>3, <1>4, <1>5, TriedKept

\* The lock just taken, and nothing to be done.
LEMMA SkippedFrontier ==
  ASSUME Frontier, Shape', NEW t \in Threads, owner = NoThread, owner' = t,
         \A u \in Threads \ {t} : pc'[u] = pc[u],
         ~ Working(t)',
         pc'[t] = "out" /\ target'[t] # NoFunc => Done(target[t])',
         UNCHANGED <<payload, propagated, commands, tried, call, frames, fault>>
  PROVE  Frontier'
  <1> USE DEF Frontier
  <1>1. commands = {} /\ \A u \in Threads : ~ Holding(u)
    BY LockFree
  <1>2. CommandsNew' /\ LockHeld' /\ PatchedTried'
    BY <1>1 DEF CommandsNew, LockHeld, Holding, Working, PatchedTried
  <1>3. \A u \in Threads : WorkInHand(u)'
    BY <1>1 DEF WorkInHand, Holding, Working
  <1>4. QED BY <1>2, <1>3, TriedKept

\* The lock is given back, and what was asked for has been run.
LEMMA UnlockedKeeps ==
  ASSUME Frontier, Shape', NEW t \in Threads, Holding(t),
         Working(t) => commands = {}, owner' = NoThread,
         \/ propagated' = propagated
         \/ Working(t) /\ propagated' = propagated \union {target[t]},
         \A u \in Threads \ {t} : pc'[u] = pc[u],
         ~ Holding(t)', UNCHANGED <<payload, commands, tried, fault>>
  PROVE  /\ ~ fault' /\ LockHeld' /\ CommandsNew' /\ PatchedTried'
         /\ Working(t) => Done(target[t])
         /\ \A g \in propagated' : Done(g)'
         /\ \A u \in Threads : WorkInHand(u)'
  <1> USE DEF Frontier
  <1>1. \A u \in Threads : Holding(u) => u = t
    BY DEF LockHeld
  <1>2. commands = {}
    <2>1. commands \subseteq Threads \X Blocks
      BY DEF Shape, CommandsOK
    <2>2. \A u \in Threads, b \in Blocks : <<u, b>> \in commands => u = t /\ Working(t)
      BY <1>1 DEF CommandsNew, Holding
    <2>3. QED BY <2>1, <2>2
  <1>3. \A u \in Threads : ~ Holding(u)'
    BY <1>1 DEF Holding, Working
  <1>4. LockHeld' /\ CommandsNew' /\ PatchedTried'
    BY <1>2, <1>3 DEF LockHeld, CommandsNew, PatchedTried
  <1>5. Working(t) => Done(target[t])
    BY <1>2 DEF WorkInHand, InHand, Done
  <1>6. ASSUME NEW g \in propagated' PROVE Done(g)'
    <2>1. Done(g)
      BY <1>5, <1>6
    <2>2. QED BY <2>1, DoneKept
  <1>7. \A u \in Threads : WorkInHand(u)'
    BY <1>3 DEF WorkInHand, Holding
  <1>8. QED BY <1>4, <1>5, <1>6, <1>7

LEMMA MgrFrontier ==
  ASSUME Frontier, Shape', NEW t \in Threads,
         MgrLock(t) \/ MgrSkip(t) \/ MgrExit(t) \/ MgrUnlock(t)
  PROVE  Frontier'
  <1> USE DEF Frontier
  <1>1. CASE MgrLock(t)
    <2>1. PICK f : f = call[t].routine
      OBVIOUS
    <2>2. /\ owner = NoThread /\ owner' = t /\ Ask(t, f)
          /\ UNCHANGED <<payload, propagated, tried, call, frames, fault>>
          /\ pc' = [pc EXCEPT ![t] = "mgrGo"]
          /\ target' = [target EXCEPT ![t] = f]
      BY <1>1, <2>1 DEF MgrLock, Lock, LookUp
    <2>3. /\ \A u \in Threads \ {t} : pc'[u] = pc[u]
          /\ Working(t)' /\ target'[t] = f
      BY <2>2 DEF Shape, PcOK, RestOK, Working
    <2>4. QED BY <2>2, <2>3, LockedFrontier
  <1>2. CASE MgrSkip(t)
    <2>1. /\ owner = NoThread /\ owner' = t
          /\ UNCHANGED <<payload, propagated, commands, tried, call, frames, fault>>
          /\ pc' = [pc EXCEPT ![t] = "mgrOut"]
      BY <1>2 DEF MgrSkip, Lock
    <2>2. /\ \A u \in Threads \ {t} : pc'[u] = pc[u]
          /\ ~ Working(t)' /\ pc'[t] # "out"
      BY <2>1 DEF Shape, PcOK, Working
    <2>3. QED BY <2>1, <2>2, SkippedFrontier
  <1>3. CASE MgrExit(t)
    <2>1. /\ pc[t] = "mgrOut" /\ owner' = NoThread
          /\ UNCHANGED <<payload, propagated, commands, tried, call, frames, fault>>
          /\ pc' = [pc EXCEPT ![t] = "propel"]
      BY <1>3 DEF MgrExit, Unlock
    <2>2. /\ \A u \in Threads \ {t} : pc'[u] = pc[u]
          /\ Holding(t) /\ ~ Working(t) /\ ~ Holding(t)'
      BY <2>1 DEF Shape, PcOK, Holding, Working
    <2>3. /\ ~ fault' /\ LockHeld' /\ CommandsNew' /\ PatchedTried'
          /\ \A g \in propagated' : Done(g)'
          /\ \A u \in Threads : WorkInHand(u)'
      BY <2>1, <2>2, UnlockedKeeps
    <2>4. QED BY <2>1, <2>3, TriedKept
  <1>4. CASE MgrUnlock(t)
    <2>1. /\ pc[t] = "mgrGo" /\ commands = {} /\ owner' = NoThread
          /\ propagated' = propagated \union {target[t]}
          /\ UNCHANGED <<payload, commands, tried, fault, frames>>
          /\ pc' = [pc EXCEPT ![t] = "propel"]
          /\ call' = [call EXCEPT ![t] = [call[t] EXCEPT !.ahead = TRUE]]
      BY <1>4 DEF MgrUnlock, Unlock
    <2>2. /\ \A u \in Threads \ {t} : pc'[u] = pc[u]
          /\ Working(t) /\ Holding(t) /\ ~ Holding(t)'
      BY <2>1 DEF Shape, PcOK, Holding, Working
    <2>3. /\ ~ fault' /\ LockHeld' /\ CommandsNew' /\ PatchedTried'
          /\ Done(target[t]) /\ \A g \in propagated' : Done(g)'
          /\ \A u \in Threads : WorkInHand(u)'
      BY <2>1, <2>2, UnlockedKeeps
    <2>4. PICK f : f = call[t].routine /\ Done(f) /\ call[t] \in Call
      BY <2>1, <2>3 DEF Shape, HasCall, HasTarget
    <2>5. call'[t].routine = f
      BY <2>1, <2>4, CallFields DEF Shape, CallOK
    <2>6. \A u \in Threads : CallHonest(call[u])'
      BY <2>1, <2>4, <2>5, DoneKept DEF CallHonest, Shape, CallOK
    <2>7. \A u \in Threads : \A i \in 1 .. Len(frames'[u]) :
            FrameHonest(frames[u][i])'
      BY <2>1, DoneKept DEF FrameHonest, CallHonest
    <2>8. QED BY <2>3, <2>6, <2>7
  <1>5. QED BY <1>1, <1>2, <1>3, <1>4

LEMMA PropelFrontier ==
  ASSUME Frontier, Shape', NEW t \in Threads,
         \/ Propel(t) \/ PropelExit(t) \/ PropelUnlock(t)
         \/ \E f \in Funcs \union {NoFunc} : PropelLock(t, f) \/ PropelSkip(t, f)
  PROVE  Frontier'
  <1> USE DEF Frontier
  <1>1. PICK c \in Call : c = call[t] /\ HasRoutine(c) /\ CallHonest(c)
    BY DEF Propel, PropelLock, PropelSkip, PropelExit, PropelUnlock, Lock, Unlock,
           Shape, HasCall
  <1>2. CASE Propel(t)
    <2>1. /\ Calm /\ propagated' = propagated /\ pc[t] = "propel"
          /\ target' = target
          /\ \/ /\ pc' = [pc EXCEPT ![t] = "lock"]
                /\ frames' = frames /\ call' = call
             \/ pc' = [pc EXCEPT ![t] = "run"] /\ Enter(t, c, FALSE)
      BY <1>1, <1>2 DEF Propel, Calm
    <2>2. /\ \A u \in Threads \ {t} : pc'[u] = pc[u]
          /\ ~ Working(t) /\ ~ Holding(t)' /\ pc'[t] # "out"
      BY <2>1 DEF Shape, PcOK, Holding, Working
    <2>3. /\ ~ fault' /\ LockHeld' /\ CommandsNew' /\ PatchedTried'
          /\ \A g \in propagated' : Done(g)'
      BY <2>1, <2>2, CalmKeeps DEF Holding, Working
    <2>4. \A u \in Threads : WorkInHand(u)'
      BY <2>1, <2>2, WorkKept DEF Calm, WorkInHand, Holding
    <2>5. CASE frames' = frames /\ call' = call
      <3>1. tried' = tried
        BY <2>1 DEF Calm
      <3>2. /\ \A u \in Threads : CallHonest(call[u])'
            /\ \A u \in Threads : \A i \in 1 .. Len(frames'[u]) :
                 FrameHonest(frames[u][i])'
        BY <2>1, <2>5, <3>1, TriedKept
      <3>3. QED BY <2>3, <2>4, <3>2
    <2>6. CASE Enter(t, c, FALSE)
      <3>1. tried \subseteq tried'
        BY <2>1 DEF Calm
      <3>2. QED BY <1>1, <2>3, <2>4, <2>6, <3>1, EnterHonest
    <2>7. QED BY <2>1, <2>5, <2>6
  <1>3. ASSUME NEW f \in Funcs \union {NoFunc}, PropelLock(t, f) PROVE Frontier'
    <2>1. /\ owner = NoThread /\ owner' = t /\ Ask(t, f)
          /\ UNCHANGED <<payload, propagated, tried, call, frames, fault>>
          /\ pc' = [pc EXCEPT ![t] = "go"]
          /\ target' = [target EXCEPT ![t] = f]
      BY <1>3 DEF PropelLock, Lock, LookUp
    <2>2. /\ \A u \in Threads \ {t} : pc'[u] = pc[u]
          /\ Working(t)' /\ target'[t] = f
      BY <2>1 DEF Shape, PcOK, RestOK, Working
    <2>3. QED BY <2>1, <2>2, LockedFrontier
  <1>4. ASSUME NEW f \in Funcs \union {NoFunc}, PropelSkip(t, f) PROVE Frontier'
    <2>1. /\ owner = NoThread /\ owner' = t
          /\ UNCHANGED <<payload, propagated, commands, tried, call, frames, fault>>
          /\ pc' = [pc EXCEPT ![t] = "out"]
          /\ target' = [target EXCEPT ![t] = f]
          /\ f # NoFunc => Done(f)
      BY <1>4 DEF PropelSkip, Lock, LookUp, Settled
    <2>2. /\ \A u \in Threads \ {t} : pc'[u] = pc[u]
          /\ ~ Working(t)' /\ target'[t] = f
      BY <2>1 DEF Shape, PcOK, RestOK, Working
    <2>3. f # NoFunc => Done(f)'
      BY <2>1, DoneKept
    <2>4. f # NoFunc => Done(target[t])'
      BY <2>2, <2>3 DEF Done
    <2>5. QED BY <2>1, <2>2, <2>4, SkippedFrontier
  <1>5. CASE PropelExit(t) \/ PropelUnlock(t)
    <2>1. /\ pc[t] \in {"go", "out"}
          /\ pc[t] = "go" => commands = {}
          /\ owner' = NoThread
          /\ \/ propagated' = propagated
             \/ pc[t] = "go" /\ propagated' = propagated \union {target[t]}
          /\ UNCHANGED <<payload, commands, tried, fault>>
          /\ pc' = [pc EXCEPT ![t] = "run"]
          /\ Enter(t, c, c.callee = target[t])
      BY <1>1, <1>5 DEF PropelExit, PropelUnlock, Unlock, Proceed
    <2>2. /\ \A u \in Threads \ {t} : pc'[u] = pc[u]
          /\ Holding(t) /\ (Working(t) <=> pc[t] = "go") /\ ~ Holding(t)'
      BY <2>1 DEF Shape, PcOK, Holding, Working
    <2>3. /\ ~ fault' /\ LockHeld' /\ CommandsNew' /\ PatchedTried'
          /\ Working(t) => Done(target[t])
          /\ \A g \in propagated' : Done(g)'
          /\ \A u \in Threads : WorkInHand(u)'
      BY <2>1, <2>2, UnlockedKeeps
    <2>4. c.callee # NoFunc
      BY CallFields, FuncAssumption
    <2>5. c.callee = target[t] => Done(target[t])
      BY <2>1, <2>2, <2>3, <2>4 DEF WorkInHand
    <2>6. PICK ahead \in BOOLEAN : ahead <=> c.callee = target[t]
      OBVIOUS
    <2>7. PICK f : f = c.callee
      OBVIOUS
    <2>8. ahead => Done(f)
      BY <2>5, <2>6, <2>7 DEF Done
    <2>9. ahead => Done(f)'
      BY <2>1, <2>8, DoneKept
    <2>10. ahead = (c.callee = target[t])
      BY <2>6
    <2>11. Enter(t, c, ahead) /\ tried \subseteq tried'
      BY <2>1, <2>10
    <2>12. ahead => Done(c.callee)'
      BY <2>7, <2>9
    <2>13. QED BY <1>1, <2>3, <2>11, <2>12, EnterHonest
  <1>6. QED BY <1>2, <1>3, <1>4, <1>5

LEMMA InstallFrontier ==
  ASSUME Frontier, Shape', NEW t \in Threads, NEW u \in Threads,
         NEW b \in Blocks, Install(t, u, b)
  PROVE  Frontier'
  <1> USE DEF Frontier
  <1>1. owner = u /\ payload[b] = "none"
    BY DEF Install, CommandsNew
  <1>2. /\ commands' = commands \ {<<u, b>>} /\ tried' = tried \union {b}
        /\ payload' = [payload EXCEPT ![b] = "user"] \/ payload' = payload
        /\ UNCHANGED <<fault, propagated, owner, target, pc, call, frames>>
    BY <1>1 DEF Install
  <1>3. CommandsNew' /\ PatchedTried' /\ LockHeld'
    BY <1>1, <1>2 DEF CommandsNew, PatchedTried, LockHeld, Holding, Working, Shape,
                      PayloadOK
  <1>4. tried \subseteq tried'
    BY <1>2
  <1>5. \A v \in Threads : WorkInHand(v)'
    BY <1>2 DEF WorkInHand, InHand, Done, Working, Worth, KnownCallee
  <1>6. /\ \A g \in propagated' : Done(g)'
        /\ \A v \in Threads : CallHonest(call[v])'
        /\ \A v \in Threads : \A i \in 1 .. Len(frames'[v]) :
             FrameHonest(frames[v][i])'
    BY <1>2, <1>4, DoneKept DEF FrameHonest, CallHonest
  <1>7. QED BY <1>2, <1>3, <1>5, <1>6

\* The frames change, and nothing else that matters here.
LEMMA FramesFrontier ==
  ASSUME Frontier, Shape', Calm, propagated' = propagated, pc' = pc, call' = call,
         target' = target,
         \A u \in Threads : \A i \in 1 .. Len(frames'[u]) :
           FrameHonest(frames[u][i])'
  PROVE  Frontier'
  <1> USE DEF Frontier
  <1>1. /\ ~ fault' /\ LockHeld' /\ CommandsNew' /\ PatchedTried'
        /\ \A g \in propagated' : Done(g)'
    BY CalmKeeps DEF Holding, Working
  <1>2. \A u \in Threads : WorkInHand(u)' /\ CallHonest(call[u])'
    BY WorkKept, DoneKept DEF Calm, CallHonest
  <1>3. QED BY <1>1, <1>2

LEMMA StartFrontier ==
  ASSUME Frontier, Shape', NEW t \in Threads, NEW u \in Threads, Start(t, u)
  PROVE  Frontier'
  <1> USE DEF Frontier
  <1>1. PICK n \in Frame :
          /\ n.fn = Top(t).arg.routine /\ n.ahead = Top(t).arg.ahead
          /\ n.arg = NoCall
          /\ frames' = [frames EXCEPT ![t] = SubSeq(@, 1, Len(@) - 1),
                                      ![u] = <<n>>]
    BY StartEffect
  <1>2. u # t /\ frames[t] \in Seq(Frame) /\ Len(frames[t]) > 0
    BY StartEffect DEF Shape, FramesOK
  <1>3. FrameHonest(n)
    <2>1. FrameHonest(Top(t))
      BY StartEffect DEF Top
    <2>2. QED BY <1>1, <2>1, NoCallType DEF FrameHonest, CallHonest
  <1>4. /\ frames'[u] = <<n>>
        /\ frames'[t] = SubSeq(frames[t], 1, Len(frames[t]) - 1)
        /\ \A v \in Threads \ {t, u} : frames'[v] = frames[v]
    BY <1>1, <1>2 DEF Shape, FramesOK
  <1>5. ASSUME NEW v \in Threads, NEW i \in 1 .. Len(frames'[v])
        PROVE  FrameHonest(frames'[v][i])
    <2>1. CASE v = u
      <3>1. frames'[v][i] = n
        BY <1>4, <1>5, <2>1
      <3>2. QED BY <1>3, <3>1
    <2>2. CASE v = t
      <3>1. i \in 1 .. Len(frames[t]) /\ frames'[v][i] = frames[t][i]
        BY <1>2, <1>4, <1>5, <2>2, PopEffect
      <3>2. QED BY <3>1
    <2>3. CASE v \notin {t, u}
      BY <1>4, <1>5, <2>3
    <2>4. QED BY <2>1, <2>2, <2>3
  <1>6. Calm /\ propagated' = propagated /\ pc' = pc /\ call' = call /\ target' = target
    BY DEF Start, Calm
  <1>7. \A v \in Threads : \A i \in 1 .. Len(frames'[v]) :
          FrameHonest(frames[v][i])'
    BY <1>5, <1>6, DoneKept DEF FrameHonest, CallHonest, Calm
  <1>8. QED BY <1>6, <1>7, FramesFrontier

LEMMA ReturnFrontier ==
  ASSUME Frontier, Shape', NEW t \in Threads, Return(t)
  PROVE  Frontier'
  <1> USE DEF Frontier
  <1>1. /\ frames' = [frames EXCEPT ![t] = SubSeq(frames[t], 1, Len(frames[t]) - 1)]
        /\ Len(frames[t]) > 0 /\ frames[t] \in Seq(Frame)
    BY DEF Return, Shape, FramesOK
  <1>2. ASSUME NEW v \in Threads, NEW i \in 1 .. Len(frames'[v])
        PROVE  FrameHonest(frames'[v][i])
    <2>1. CASE v = t
      <3>1. i \in 1 .. Len(frames[t]) /\ frames'[v][i] = frames[t][i]
        BY <1>1, <1>2, <2>1, PopEffect DEF Shape, FramesOK
      <3>2. QED BY <3>1
    <2>2. CASE v # t
      BY <1>1, <1>2, <2>2 DEF Shape, FramesOK
    <2>3. QED BY <2>1, <2>2
  <1>3. Calm /\ propagated' = propagated /\ pc' = pc /\ call' = call /\ target' = target
    BY DEF Return, Calm
  <1>4. \A v \in Threads : \A i \in 1 .. Len(frames'[v]) :
          FrameHonest(frames[v][i])'
    BY <1>2, <1>3, DoneKept DEF FrameHonest, CallHonest, Calm
  <1>5. QED BY <1>3, <1>4, FramesFrontier

LEMMA StepFrontier == Frontier /\ [Next]_vars => Frontier'
  <1> SUFFICES ASSUME Frontier, [Next]_vars PROVE Frontier'
    OBVIOUS
  <1>1. Shape'
    BY StepShape DEF Frontier
  <1>2. ASSUME Calm, propagated' = propagated, pc' = pc, call' = call,
               target' = target, frames' = frames
        PROVE  Frontier'
    <2>1. \A u \in Threads : \A i \in 1 .. Len(frames'[u]) :
            FrameHonest(frames[u][i])'
      BY <1>2, DoneKept DEF Frontier, FrameHonest, CallHonest, Calm
    <2>2. QED BY <1>1, <1>2, <2>1, FramesFrontier
  <1>3. ASSUME NEW t \in Threads, DestroyGlobals(t) PROVE Frontier'
    BY <1>2, <1>3 DEF DestroyGlobals, Calm
  <1>4. CASE UNCHANGED vars
    BY <1>2, <1>4 DEF vars, Calm
  <1>5. QED BY <1>1, <1>3, <1>4, CallFrontier, MgrFrontier, PropelFrontier,
               InstallFrontier, StartFrontier, ReturnFrontier DEF Next

\* assert(!blk->instrumented()) in SpInstrumenter::run holds for any number
\* of threads that propel through shared callees: what go() found
\* uninstrumented stays so until the commands have run, under g_propel_lock.
THEOREM NoBlockTwiceHolds == Spec => []NoBlockTwice
  BY InitFrontier, StepFrontier, FrontierImplies, PTL DEF Spec

\* SetPropagated() never runs ahead of the workers: a function entered from
\* a payload that propelled, or started by an inspected pthread_create, has
\* had each of its call blocks tried.
THEOREM FrontierAheadHolds == Spec => []FrontierAhead
  BY InitFrontier, StepFrontier, FrontierImplies, PTL DEF Spec

=============================================================================
