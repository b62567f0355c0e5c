----------------------------- MODULE TrampProofs -----------------------------
(***************************************************************************)
(* Proofs about Tramp.  Types hold for any number of threads.  That the    *)
(* guard works is a theorem about one thread, whatever nests on the        *)
(* wrappers: payload.cc relies on it, and with two threads it is false     *)
(* (run TrampGuardRace).                                                   *)
(*                                                                         *)
(* The second part is about the shadow stack, for one thread.  That        *)
(* wrapper_exit always finds a handle holds whatever the program does;     *)
(* that it is the right one holds as long as calls return, which is the    *)
(* history variable of MCTramp.  Both rest on the first part: a wrapper    *)
(* that is past the guard belongs to a call whose other wrapper was too.   *)
(***************************************************************************)
EXTENDS MCTramp, TLAPS

CtlOK == ctl \in [Threads -> Seq(Frame)]

-----------------------------------------------------------------------------
(***************************************************************************)
(* What Push, Drop and Replace do to the activations.                      *)
(***************************************************************************)
OthersKeep(t) == \A u \in Threads : u # t => ctl'[u] = ctl[u]

BelowKeep(t, n) == \A d \in 1 .. n : ctl'[t][d] = ctl[t][d]

LEMMA PushShape ==
  ASSUME CtlOK, NEW t \in Threads, NEW f \in Frame, ctl' = Push(t, f)
  PROVE  /\ CtlOK'
         /\ OthersKeep(t)
         /\ Len(ctl[t]) \in Nat /\ Len(ctl'[t]) = Len(ctl[t]) + 1
         /\ ctl'[t][Len(ctl[t]) + 1] = f
         /\ BelowKeep(t, Len(ctl[t]))
  <1>1. ctl'[t] = Append(ctl[t], f) /\ ctl[t] \in Seq(Frame)
    BY DEF CtlOK, Push
  <1>2. CtlOK' /\ OthersKeep(t)
    BY DEF CtlOK, Push, OthersKeep
  <1>3. QED BY <1>1, <1>2 DEF BelowKeep

LEMMA DropShape ==
  ASSUME CtlOK, NEW t \in Threads, ctl[t] # <<>>, ctl' = Drop(t)
  PROVE  /\ CtlOK'
         /\ OthersKeep(t)
         /\ Len(ctl[t]) \in Nat \ {0} /\ Len(ctl'[t]) = Len(ctl[t]) - 1
         /\ BelowKeep(t, Len(ctl[t]) - 1)
  <1>1. ctl'[t] = SubSeq(ctl[t], 1, Len(ctl[t]) - 1) /\ ctl[t] \in Seq(Frame)
    BY DEF CtlOK, Drop
  <1>2. Len(ctl[t]) \in Nat \ {0}
    BY <1>1
  <1>3. ctl'[t] \in Seq(Frame)
    BY <1>1, <1>2
  <1>4. CtlOK' /\ OthersKeep(t)
    BY <1>3 DEF CtlOK, Drop, OthersKeep
  <1>5. QED BY <1>1, <1>2, <1>4 DEF BelowKeep

LEMMA ReplaceShape ==
  ASSUME CtlOK, NEW t \in Threads, ctl[t] # <<>>, NEW f \in Frame,
         ctl' = Replace(t, f)
  PROVE  /\ CtlOK'
         /\ OthersKeep(t)
         /\ Len(ctl[t]) \in Nat \ {0} /\ Len(ctl'[t]) = Len(ctl[t])
         /\ ctl'[t][Len(ctl[t])] = f
         /\ BelowKeep(t, Len(ctl[t]) - 1)
  <1>1. ctl[t] \in Seq(Frame) /\ Len(ctl[t]) \in Nat \ {0}
    BY DEF CtlOK
  <1>2. ctl'[t] = [ctl[t] EXCEPT ![Len(ctl[t])] = f]
    BY DEF CtlOK, Replace
  <1>3. ctl'[t] \in Seq(Frame) /\ Len(ctl'[t]) = Len(ctl[t])
    BY <1>1, <1>2
  <1>4. CtlOK' /\ OthersKeep(t)
    BY <1>3 DEF CtlOK, Replace, OthersKeep
  <1>5. QED BY <1>1, <1>2, <1>3, <1>4 DEF BelowKeep

LEMMA TopOK ==
  ASSUME CtlOK, NEW t \in Threads, ctl[t] # <<>>
  PROVE  Top(t) \in Frame
  BY DEF CtlOK, Top

-----------------------------------------------------------------------------
(***************************************************************************)
(* Types.                                                                  *)
(***************************************************************************)
LEMMA EntryGoto ==
  ASSUME NEW f \in Frame, f.kind = "entry", NEW pc \in EntryPcs
  PROVE  [f EXCEPT !.pc = pc] \in Frame
  BY DEF Frame, EntryPcs, ExitPcs

LEMMA ExitGoto ==
  ASSUME NEW f \in Frame, f.kind = "exit", NEW pc \in {"ctor", "set", "pop"},
         f.pc \in {"check", "ctor", "set"}
  PROVE  [f EXCEPT !.pc = pc] \in Frame
  BY DEF Frame, EntryPcs, ExitPcs

LEMMA ExitGotoLate ==
  ASSUME NEW f \in Frame, f.kind = "exit", f.handle \in Handle,
         NEW pc \in {"payload", "payloadHeld", "dtor"}
  PROVE  [f EXCEPT !.pc = pc] \in Frame
  BY DEF Frame, EntryPcs, ExitPcs

LEMMA ExitHandle ==
  ASSUME NEW f \in Frame, f.kind = "exit"
  PROVE  /\ f.pc \in {"payload", "payloadHeld", "dtor"} => f.handle \in Handle
         /\ f.pc \in {"retval", "retvalHeld"} => f.handle \in Handle \union {NoHandle}
         /\ f.pt \in CallPts /\ f.traced \in BOOLEAN
  BY DEF Frame, EntryPcs, ExitPcs

LEMMA FreshFrames ==
  /\ NestedFrame \in Frame
  /\ \A p \in Pts : EntryFrame(p) \in Frame
  /\ \A p \in CallPts, b \in BOOLEAN : CallFrame(p, b) \in Frame /\ ExitFrame(p, b) \in Frame
  BY DEF Frame, NestedFrame, EntryFrame, CallFrame, ExitFrame, EntryPcs, ExitPcs, Pts

LEMMA AfterReturnOK ==
  ASSUME CtlOK, NEW t \in Threads, NEW b \in BOOLEAN,
         ctl[t] # <<>>, ctl' = AfterReturn(t, b)
  PROVE  CtlOK'
  BY FreshFrames, DropShape, ReplaceShape DEF AfterReturn

LEMMA GotoOK ==
  ASSUME CtlOK, NEW t \in Threads, ctl[t] # <<>>, NEW pc, ctl' = Goto(t, pc),
         [Top(t) EXCEPT !.pc = pc] \in Frame
  PROVE  CtlOK'
  <1> DEFINE g == [Top(t) EXCEPT !.pc = pc]
  <1>1. ctl' = Replace(t, g) /\ g \in Frame
    BY DEF Goto
  <1> HIDE DEF g
  <1>2. QED BY <1>1, ReplaceShape

\* The stack keeps its type through pops and pushes.
LEMMA PopStackOK ==
  ASSUME stack \in [Threads -> Seq(Handle)], NEW t \in Threads
  PROVE  /\ PopStack(t) \in [Threads -> Seq(Handle)]
         /\ TopHandle(t) \in Handle \union {NoHandle}
         /\ stack[t] # <<>> => TopHandle(t) \in Handle
  <1>1. CASE stack[t] = <<>>
    BY <1>1 DEF PopStack, TopHandle
  <1>2. CASE stack[t] # <<>>
    <2>1. stack[t] \in Seq(Handle) /\ Len(stack[t]) \in Nat \ {0}
      BY <1>2
    <2>2. SubSeq(stack[t], 1, Len(stack[t]) - 1) \in Seq(Handle)
      BY <2>1
    <2>3. stack[t][Len(stack[t])] \in Handle
      BY <2>1
    <2>4. QED BY <1>2, <2>2, <2>3 DEF PopStack, TopHandle
  <1>3. QED BY <1>1, <1>2

LEMMA InitTypeOK == Init => TypeOK
  <1> SUFFICES ASSUME Init PROVE TypeOK
    OBVIOUS
  <1>1. <<>> \in Seq(Frame) /\ <<>> \in Seq(Handle)
    OBVIOUS
  <1>2. ctl \in [Threads -> Seq(Frame)]
    BY <1>1 DEF Init
  <1>3. stack \in [Threads -> Seq(Handle)]
    BY <1>1 DEF Init
  <1>4. saved \in [Pts -> Contexts]
    BY DEF Init, NoContext, Context, Contexts
  <1>5. QED BY <1>2, <1>3, <1>4 DEF Init, TypeOK

LEMMA ContextType ==
  ASSUME NEW t \in Threads, NEW at \in Nat, NEW on \in {"entry", "exit"}
  PROVE  Context(t, at, on) \in Contexts
  BY DEF Context, Contexts

LEMMA UserTypeOK ==
  ASSUME TypeOK, NEW t \in Threads, UserStep(t)
  PROVE  TypeOK'
  <1> USE DEF TypeOK, CtlOK
  <1>1. ASSUME NEW p \in Pts, MakeCall(t, p) PROVE TypeOK'
    <2>1. PICK c \in Contexts : c = Context(t, Depth(t) + 1, "entry")
      <3>1. Depth(t) + 1 \in Nat
        BY DEF Depth
      <3>2. QED BY <3>1, ContextType
    <2>2. saved' = [saved EXCEPT ![p] = c]
      BY <1>1, <2>1 DEF MakeCall, EmitSave
    <2>3. CtlOK'
      BY <1>1, FreshFrames, PushShape DEF MakeCall
    <2>4. QED BY <1>1, <2>2, <2>3 DEF MakeCall
  <1>2. CASE ReturnToPatch(t)
    <2>1. ctl[t] # <<>> /\ Top(t).pt \in CallPts /\ Top(t).traced \in BOOLEAN
      BY <1>2, TopOK DEF ReturnToPatch, At, Frame
    <2>2. CtlOK'
      BY <1>2, <2>1, FreshFrames, ReplaceShape DEF ReturnToPatch
    <2>3. PICK c \in Contexts : c = Context(t, Depth(t), "exit")
      <3>1. Depth(t) \in Nat
        BY DEF Depth
      <3>2. QED BY <3>1, ContextType
    <2>4. saved' = [saved EXCEPT ![Top(t).pt] = c]
      BY <1>2, <2>3 DEF ReturnToPatch, EmitSave
    <2>5. QED BY <1>2, <2>1, <2>2, <2>4 DEF ReturnToPatch, Pts
  <1>3. CASE Interrupt(t)
    BY <1>3, FreshFrames, PushShape DEF Interrupt
  <1>4. CASE Resume(t)
    BY <1>4, DropShape DEF Resume, At
  <1>5. CASE Unwind(t)
    BY <1>5, DropShape DEF Unwind, At
  <1>6. QED BY <1>1, <1>2, <1>3, <1>4, <1>5 DEF UserStep

LEMMA WrapperTypeOK ==
  ASSUME TypeOK, NEW t \in Threads, WrapperStep(t)
  PROVE  TypeOK'
  <1> USE DEF TypeOK, CtlOK
  <1> DEFINE f == Top(t)
  <1>0. ctl[t] # <<>> /\ f \in Frame /\ f.kind \in Wrapper /\ CtlOK
    BY TopOK DEF WrapperStep, Check, CtorTest, CtorSet, Dtor, LockAt, LockCallee,
       UnlockCallee, EntryPayloadDone, PushHandle, PopHandle, LockRetVal,
       UnlockRetVal, ExitPayloadDone, LockInPayload, UnlockInPayload, At, Wrapper
  <1> HIDE DEF f
  <1>a. ASSUME f.kind = "entry", NEW pc \in EntryPcs, ctl' = Goto(t, pc)
        PROVE  CtlOK'
    BY <1>0, <1>a, EntryGoto, GotoOK DEF f
  <1>b. ASSUME f.kind = "exit", NEW pc \in {"ctor", "set", "pop"},
               f.pc \in {"check", "ctor", "set"}, ctl' = Goto(t, pc)
        PROVE  CtlOK'
    BY <1>0, <1>b, ExitGoto, GotoOK DEF f
  <1>c. ASSUME f.kind = "exit", f.handle \in Handle,
               NEW pc \in {"payload", "payloadHeld", "dtor"}, ctl' = Goto(t, pc)
        PROVE  CtlOK'
    BY <1>0, <1>c, ExitGotoLate, GotoOK DEF f
  <1>d. f.kind = "exit" =>
          /\ f.pc \in {"payload", "payloadHeld", "dtor"} => f.handle \in Handle
          /\ f.pc \in {"retval", "retvalHeld"} => f.handle \in Handle \union {NoHandle}
    BY <1>0, ExitHandle
  <1>1. CASE Check(t)
    <2>1. CASE inTramp
      BY <1>0, <1>1, <2>1, AfterReturnOK DEF Check
    <2>2. CASE ~ inTramp
      BY <1>0, <1>1, <2>2, <1>a, <1>b DEF Check, At, Wrapper, EntryPcs, f
    <2>3. QED BY <2>1, <2>2
  <1>2. CASE CtorTest(t)
    <2>1. CASE inTramp
      BY <1>0, <1>2, <2>1 DEF CtorTest
    <2>2. CASE ~ inTramp
      BY <1>0, <1>2, <2>2, <1>a, <1>b DEF CtorTest, At, Wrapper, EntryPcs, f
    <2>3. QED BY <2>1, <2>2
  <1>3. CASE CtorSet(t)
    BY <1>0, <1>3, <1>a, <1>b DEF CtorSet, At, Wrapper, EntryPcs, f
  <1>4. CASE Dtor(t)
    BY <1>0, <1>4, AfterReturnOK DEF Dtor
  <1>5. CASE LockCallee(t)
    BY <1>0, <1>5, <1>a DEF LockCallee, LockAt, At, EntryPcs, f
  <1>6. CASE UnlockCallee(t)
    BY <1>0, <1>6, <1>a DEF UnlockCallee, At, EntryPcs, f
  <1>7. CASE EntryPayloadDone(t)
    BY <1>0, <1>7, <1>a DEF EntryPayloadDone, At, EntryPcs, f
  <1>8. CASE PushHandle(t)
    <2>1. CtlOK'
      BY <1>0, <1>8, <1>a DEF PushHandle, At, EntryPcs, f
    <2>2. [pt |-> Top(t).pt, at |-> Depth(t)] \in Handle
      BY <1>0, <1>8 DEF PushHandle, At, Frame, Handle, Depth, f
    <2>3. stack' \in [Threads -> Seq(Handle)]
      BY <1>8, <2>2 DEF PushHandle
    <2>4. QED BY <1>8, <2>1, <2>3 DEF PushHandle
  <1>9. CASE PopHandle(t)
    <2>1. TopHandle(t) \in Handle \union {NoHandle} /\ stack' \in [Threads -> Seq(Handle)]
      BY <1>9, PopStackOK DEF PopHandle
    <2>2. [Top(t) EXCEPT !.pc = "retval", !.handle = TopHandle(t)] \in Frame
      BY <1>0, <1>9, <2>1 DEF PopHandle, At, Frame, ExitPcs, f
    <2>3. CtlOK'
      BY <1>0, <1>9, <2>2, ReplaceShape DEF PopHandle
    <2>4. QED BY <1>9, <2>1, <2>3 DEF PopHandle
  <1>10. CASE LockRetVal(t)
    <2>1. [Top(t) EXCEPT !.pc = "retvalHeld"] \in Frame
      BY <1>0, <1>10 DEF LockRetVal, LockAt, At, Frame, ExitPcs, f
    <2>2. QED BY <1>0, <1>10, <2>1, GotoOK DEF LockRetVal, LockAt
  <1>11. CASE UnlockRetVal(t)
    <2>1. CASE f.handle = NoHandle
      BY <1>0, <1>11, <2>1 DEF UnlockRetVal, f
    <2>2. CASE f.handle # NoHandle
      BY <1>0, <1>11, <2>2, <1>c, <1>d DEF UnlockRetVal, At, f
    <2>3. QED BY <2>1, <2>2
  <1>12. CASE LockInPayload(t)
    BY <1>0, <1>12, <1>a, <1>c, <1>d DEF LockInPayload, LockAt, At, Wrapper, EntryPcs, f
  <1>13. CASE UnlockInPayload(t)
    BY <1>0, <1>13, <1>a, <1>c, <1>d DEF UnlockInPayload, At, Wrapper, EntryPcs, f
  <1>14. CASE ExitPayloadDone(t)
    <2>1. CASE f.handle.pt = f.pt
      BY <1>0, <1>14, <2>1, <1>c, <1>d DEF ExitPayloadDone, At, f
    <2>2. CASE f.handle.pt # f.pt /\ stack[t] = <<>>
      BY <1>0, <1>14, <2>2 DEF ExitPayloadDone, f
    <2>3. CASE f.handle.pt # f.pt /\ stack[t] # <<>>
      <3>1. TopHandle(t) \in Handle /\ stack' \in [Threads -> Seq(Handle)]
        BY <1>14, <2>3, PopStackOK DEF ExitPayloadDone, f
      <3>2. [Top(t) EXCEPT !.handle = TopHandle(t)] \in Frame
        BY <1>0, <1>14, <3>1 DEF ExitPayloadDone, At, Frame, f
      <3>3. CtlOK'
        BY <1>0, <1>14, <2>3, <3>2, ReplaceShape DEF ExitPayloadDone, f
      <3>4. QED BY <1>14, <2>3, <3>1, <3>3 DEF ExitPayloadDone, f
    <2>4. QED BY <2>1, <2>2, <2>3
  <1>15. QED BY <1>1, <1>2, <1>3, <1>4, <1>5, <1>6, <1>7, <1>8, <1>9, <1>10,
                <1>11, <1>12, <1>13, <1>14 DEF WrapperStep

LEMMA StepTypeOK == TypeOK /\ [Next]_vars => TypeOK'
  <1> SUFFICES ASSUME TypeOK, [Next]_vars PROVE TypeOK'
    OBVIOUS
  <1>1. CASE UNCHANGED vars
    BY <1>1 DEF vars, TypeOK
  <1>2. QED BY <1>1, UserTypeOK, WrapperTypeOK DEF Next

\* Frames, handles, lock and flag keep their types, whatever the number of
\* threads; in particular an exit wrapper that runs payloads has a handle.
THEOREM TypeCorrect == Spec => []TypeOK
  BY InitTypeOK, StepTypeOK, PTL DEF Spec

-----------------------------------------------------------------------------
(***************************************************************************)
(* The guard, for one thread.  NoGuardFault is not inductive: that the     *)
(* constructor never meets a raised flag needs that the flag is up exactly *)
(* while an activation is guarded (FlagTells), that nothing above a        *)
(* guarded activation gets past the test (QuietAbove), and that a call     *)
(* whose entry turned back still has that activation below it              *)
(* (TracedApart).                                                          *)
(***************************************************************************)
OneThread == \A t, u \in Threads : t = u

\* The flag has been tested and is to be raised.
Raising(f) == f.kind \in Wrapper /\ f.pc \in {"ctor", "set"}

Quiet(s) ==
  \A d, e \in 1 .. Len(s) :
    d < e /\ Guarded(s[d]) => ~ Guarded(s[e]) /\ ~ Raising(s[e])

Apart(s) ==
  \A e \in 1 .. Len(s) :
    s[e].kind \in {"call", "exit"} =>
      IF s[e].traced
        THEN \A d \in 1 .. e - 1 : ~ Guarded(s[d])
        ELSE /\ \E d \in 1 .. e - 1 : Guarded(s[d])
             /\ s[e].pc \in {"user", "check"}

SomeGuarded(s) == \E d \in 1 .. Len(s) : Guarded(s[d])

FlagTells   == \A t \in Threads : inTramp <=> SomeGuarded(ctl[t])
QuietAbove  == \A t \in Threads : Quiet(ctl[t])
TracedApart == \A t \in Threads : Apart(ctl[t])

\* Whoever owns the lock is at a place that holds it.
OwnerHolds ==
  \A t \in Threads : owner = t => \E d \in 1 .. Len(ctl[t]) : Held(ctl[t][d])

GuardInv ==
  TypeOK /\ FlagTells /\ QuietAbove /\ TracedApart /\ OwnerHolds /\ NoGuardFault

-----------------------------------------------------------------------------
(***************************************************************************)
(* How the parts fare when activations come, go and change: facts about    *)
(* sequences of frames.                                                    *)
(***************************************************************************)
LEMMA AppendQuiet ==
  ASSUME NEW s \in Seq(Frame), NEW r \in Seq(Frame), NEW f \in Frame,
         Len(r) = Len(s) + 1, r[Len(s) + 1] = f,
         \A d \in 1 .. Len(s) : r[d] = s[d],
         Quiet(s), Apart(s),
         ~ Guarded(f), ~ Raising(f), f.kind \notin {"call", "exit"}
  PROVE  Quiet(r) /\ Apart(r) /\ (SomeGuarded(r) <=> SomeGuarded(s))
  <1>1. \A d \in 1 .. Len(r) : d = Len(r) \/ (d \in 1 .. Len(s) /\ r[d] = s[d])
    OBVIOUS
  <1>2. Quiet(r)
    BY <1>1 DEF Quiet
  <1>3. Apart(r)
    BY <1>1 DEF Apart
  <1>4. SomeGuarded(r) <=> SomeGuarded(s)
    BY <1>1 DEF SomeGuarded
  <1>5. QED BY <1>2, <1>3, <1>4

LEMMA RemoveQuiet ==
  ASSUME NEW s \in Seq(Frame), NEW r \in Seq(Frame),
         Len(s) \in Nat \ {0}, Len(r) = Len(s) - 1,
         \A d \in 1 .. Len(s) - 1 : r[d] = s[d],
         Quiet(s), Apart(s)
  PROVE  /\ Quiet(r) /\ Apart(r)
         /\ ~ Guarded(s[Len(s)]) => (SomeGuarded(r) <=> SomeGuarded(s))
         /\ Guarded(s[Len(s)]) => ~ SomeGuarded(r)
  <1>1. \A d \in 1 .. Len(r) : d \in 1 .. Len(s) /\ d < Len(s) /\ r[d] = s[d]
    OBVIOUS
  <1>2. Quiet(r)
    BY <1>1 DEF Quiet
  <1>3. Apart(r)
    BY <1>1 DEF Apart
  <1>4. \A d \in 1 .. Len(s) : d = Len(s) \/ (d \in 1 .. Len(r) /\ r[d] = s[d])
    OBVIOUS
  <1>5. ~ Guarded(s[Len(s)]) => (SomeGuarded(r) <=> SomeGuarded(s))
    BY <1>1, <1>4 DEF SomeGuarded
  <1>6. Guarded(s[Len(s)]) => ~ SomeGuarded(r)
    BY <1>1 DEF SomeGuarded, Quiet
  <1>7. QED BY <1>2, <1>3, <1>5, <1>6

\* The top changes; Below says what is left of the flag without it.
LEMMA ChangeQuiet ==
  ASSUME NEW s \in Seq(Frame), NEW r \in Seq(Frame), NEW f \in Frame,
         Len(s) \in Nat \ {0}, Len(r) = Len(s), r[Len(s)] = f,
         \A d \in 1 .. Len(s) - 1 : r[d] = s[d],
         Quiet(s), Apart(s)
  PROVE  LET n == Len(s)  g == s[n]
             below == \E d \in 1 .. n - 1 : Guarded(s[d]) IN
         /\ (Guarded(f) \/ Raising(f) => ~ below \/ Guarded(g) \/ Raising(g)) => Quiet(r)
         /\ f.kind \notin {"call", "exit"} => Apart(r)
         /\ f.kind \in {"call", "exit"} /\ f.traced /\ ~ below => Apart(r)
         /\ f.kind \in {"call", "exit"} /\ ~ f.traced /\ below
              /\ f.pc \in {"user", "check"} => Apart(r)
         /\ SomeGuarded(r) <=> (below \/ Guarded(f))
         /\ SomeGuarded(s) <=> (below \/ Guarded(g))
         /\ Guarded(g) \/ Raising(g) => ~ below
  <1> DEFINE n == Len(s)
             g == s[n]
             below == \E d \in 1 .. n - 1 : Guarded(s[d])
  <1>1. \A d \in 1 .. n : d = n \/ (d \in 1 .. n - 1 /\ d < n /\ r[d] = s[d])
    OBVIOUS
  <1>2. n \in 1 .. n /\ \A d \in 1 .. n - 1 : d \in 1 .. n
    OBVIOUS
  <1>3. Guarded(g) \/ Raising(g) => ~ below
    BY <1>1, <1>2 DEF Quiet
  <1>4. /\ SomeGuarded(r) <=> (below \/ Guarded(f))
        /\ SomeGuarded(s) <=> (below \/ Guarded(g))
    BY <1>1, <1>2 DEF SomeGuarded
  <1>5. Quiet(r) \/ ((Guarded(f) \/ Raising(f)) /\ below)
    BY <1>1, <1>2 DEF Quiet
  <1>6. /\ f.kind \notin {"call", "exit"} => Apart(r)
        /\ f.kind \in {"call", "exit"} /\ f.traced /\ ~ below => Apart(r)
        /\ f.kind \in {"call", "exit"} /\ ~ f.traced /\ below
              /\ f.pc \in {"user", "check"} => Apart(r)
    <2> DEFINE Ok(q, e) ==
          q[e].kind \in {"call", "exit"} =>
            IF q[e].traced
              THEN \A d \in 1 .. e - 1 : ~ Guarded(q[d])
              ELSE /\ \E d \in 1 .. e - 1 : Guarded(q[d])
                   /\ q[e].pc \in {"user", "check"}
    <2>1. \A e \in 1 .. n - 1 : Ok(s, e)
      BY <1>2 DEF Apart
    <2>2. \A e \in 1 .. n - 1 : r[e] = s[e] /\ \A d \in 1 .. e - 1 : r[d] = s[d]
      BY <1>1
    <2>3. \A e \in 1 .. n - 1 : Ok(r, e)
      BY <2>1, <2>2, Zenon
    <2>4. below <=> \E d \in 1 .. n - 1 : Guarded(r[d])
      BY Zenon
    <2>5. \/ f.kind \notin {"call", "exit"}
          \/ f.traced /\ ~ below
          \/ ~ f.traced /\ below /\ f.pc \in {"user", "check"}
          => Ok(r, n)
      BY <2>4, Zenon
    <2>6. Ok(r, n) => Apart(r)
      <3> HIDE DEF Ok
      <3>1. Ok(r, n) => \A e \in 1 .. Len(r) : Ok(r, e)
        BY <2>3
      <3> USE DEF Ok
      <3>2. QED BY <3>1, Zenon DEF Apart
    <2>7. QED BY <2>5, <2>6, Zenon
  <1>7. QED BY <1>3, <1>4, <1>5, <1>6

-----------------------------------------------------------------------------
(***************************************************************************)
(* The same for the activations of the thread that takes a step, then for  *)
(* the steps.                                                              *)
(***************************************************************************)
GuardCtx(t) ==
  /\ CtlOK
  /\ inTramp <=> SomeGuarded(ctl[t])
  /\ Quiet(ctl[t]) /\ Apart(ctl[t])

Below(t) == \E d \in 1 .. Len(ctl[t]) - 1 : Guarded(ctl[t][d])

LEMMA CtlPush ==
  ASSUME NEW t \in Threads, GuardCtx(t), NEW f \in Frame, ctl' = Push(t, f),
         f.kind \in {"nested", "entry"}, f.pc \in {"user", "check"},
         inTramp' = inTramp
  PROVE  GuardCtx(t)'
  <1>1. ctl[t] \in Seq(Frame) /\ ctl'[t] \in Seq(Frame) /\ CtlOK'
    BY PushShape DEF GuardCtx, CtlOK
  <1>2. ~ Guarded(f) /\ ~ Raising(f)
    BY DEF Guarded, Raising, Wrapper, Frame, EntryPcs
  <1>3. QED BY <1>1, <1>2, PushShape, AppendQuiet DEF GuardCtx, BelowKeep

\* What the parts say of the innermost activation.
LEMMA TopFacts ==
  ASSUME NEW t \in Threads, GuardCtx(t), ctl[t] # <<>>
  PROVE  /\ Top(t) \in Frame
         /\ inTramp <=> (Below(t) \/ Guarded(Top(t)))
         /\ Guarded(Top(t)) \/ Raising(Top(t)) => ~ Below(t)
         /\ Top(t).kind \in {"call", "exit"} =>
              IF Top(t).traced
                THEN ~ Below(t)
                ELSE Below(t) /\ Top(t).pc \in {"user", "check"}
  <1> DEFINE n == Len(ctl[t])
  <1>1. ctl[t] \in Seq(Frame) /\ n \in Nat \ {0} /\ Top(t) \in Frame
    BY TopOK DEF GuardCtx, CtlOK
  <1>2. n \in 1 .. n /\ \A d \in 1 .. n : d = n \/ (d \in 1 .. n - 1 /\ d < n)
    BY <1>1
  <1>3. \A d \in 1 .. n - 1 : d \in 1 .. n
    BY <1>1
  <1>4. inTramp <=> (Below(t) \/ Guarded(Top(t)))
    BY <1>2, <1>3 DEF GuardCtx, SomeGuarded, Below, Top
  <1>5. Guarded(Top(t)) \/ Raising(Top(t)) => ~ Below(t)
    BY <1>2, <1>3 DEF GuardCtx, Quiet, Below, Top
  <1>6. Top(t).kind \in {"call", "exit"} =>
          IF Top(t).traced
            THEN ~ Below(t)
            ELSE Below(t) /\ Top(t).pc \in {"user", "check"}
    BY <1>2, Zenon DEF GuardCtx, Apart, Below, Top
  <1>7. QED BY <1>1, <1>4, <1>5, <1>6

LEMMA CtlDrop ==
  ASSUME NEW t \in Threads, GuardCtx(t), ctl[t] # <<>>, ctl' = Drop(t),
         IF Guarded(Top(t)) THEN inTramp' = FALSE ELSE inTramp' = inTramp
  PROVE  GuardCtx(t)'
  <1>1. ctl[t] \in Seq(Frame) /\ ctl'[t] \in Seq(Frame) /\ CtlOK'
    BY DropShape DEF GuardCtx, CtlOK
  <1>2. QED BY <1>1, DropShape, RemoveQuiet DEF GuardCtx, BelowKeep, Top

LEMMA CtlChange ==
  ASSUME NEW t \in Threads, GuardCtx(t), ctl[t] # <<>>,
         NEW f \in Frame, ctl' = Replace(t, f),
         Guarded(f) \/ Raising(f) => ~ Below(t),
         \/ f.kind \notin {"call", "exit"}
         \/ f.traced /\ ~ Below(t)
         \/ ~ f.traced /\ Below(t) /\ f.pc \in {"user", "check"},
         inTramp' <=> (Below(t) \/ Guarded(f))
  PROVE  GuardCtx(t)'
  <1>1. ctl[t] \in Seq(Frame) /\ ctl'[t] \in Seq(Frame) /\ CtlOK'
    BY ReplaceShape DEF GuardCtx, CtlOK
  <1> DEFINE s == ctl[t]
             r == ctl'[t]
  <1>2. /\ Len(s) \in Nat \ {0} /\ Len(r) = Len(s) /\ r[Len(s)] = f
        /\ \A d \in 1 .. Len(s) - 1 : r[d] = s[d]
        /\ Quiet(s) /\ Apart(s)
    BY ReplaceShape DEF GuardCtx, BelowKeep
  <1> HIDE DEF s, r
  <1>3. s \in Seq(Frame) /\ r \in Seq(Frame)
    BY <1>1 DEF s, r
  <1>4. Below(t) <=> \E d \in 1 .. Len(s) - 1 : Guarded(s[d])
    BY DEF Below, s
  <1>5. Quiet(r) /\ Apart(r) /\ (SomeGuarded(r) <=> (Below(t) \/ Guarded(f)))
    BY <1>2, <1>3, <1>4, ChangeQuiet
  <1>6. QED BY <1>1, <1>5 DEF GuardCtx, r

OwnerCtx(t) == owner = t => \E d \in 1 .. Len(ctl[t]) : Held(ctl[t][d])

LEMMA OwnerPush ==
  ASSUME CtlOK, NEW t \in Threads, NEW f \in Frame, ctl' = Push(t, f),
         OwnerCtx(t), owner' = owner
  PROVE  OwnerCtx(t)'
  BY PushShape DEF OwnerCtx, BelowKeep

LEMMA OwnerDrop ==
  ASSUME CtlOK, NEW t \in Threads, ctl[t] # <<>>, ctl' = Drop(t),
         ~ Held(Top(t)), OwnerCtx(t), owner' = owner
  PROVE  OwnerCtx(t)'
  BY DropShape DEF OwnerCtx, BelowKeep, Top

LEMMA OwnerChange ==
  ASSUME CtlOK, NEW t \in Threads, ctl[t] # <<>>, NEW f \in Frame,
         ctl' = Replace(t, f), OwnerCtx(t),
         \/ ~ Held(Top(t)) /\ owner' = owner
         \/ owner' = NoThread
         \/ Held(f)
  PROVE  OwnerCtx(t)'
  BY ReplaceShape, ThreadsAssumption DEF OwnerCtx, BelowKeep, Top

\* A frame that is put in place is a frame.
LEMMA ReplacedOK ==
  ASSUME CtlOK, CtlOK', NEW t \in Threads, ctl[t] # <<>>, NEW f, ctl' = Replace(t, f)
  PROVE  f \in Frame
  <1>1. ctl[t] \in Seq(Frame) /\ Len(ctl[t]) \in Nat \ {0}
    BY DEF CtlOK
  <1>2. ctl'[t] = [ctl[t] EXCEPT ![Len(ctl[t])] = f]
    BY DEF CtlOK, Replace
  <1>3. ctl'[t][Len(ctl[t])] = f /\ Len(ctl'[t]) = Len(ctl[t])
    BY <1>1, <1>2
  <1>4. QED BY <1>1, <1>3 DEF CtlOK

ThreadInv(t) == TypeOK /\ GuardCtx(t) /\ OwnerCtx(t) /\ NoGuardFault

\* A step inside the guarded part of a wrapper.
LEMMA GuardedStep ==
  ASSUME NEW t \in Threads, ThreadInv(t), TypeOK', ctl[t] # <<>>,
         Top(t).kind \in Wrapper, Guarded(Top(t)),
         NEW f, f.kind = Top(t).kind, f.traced = Top(t).traced, Guarded(f),
         ctl' = Replace(t, f), inTramp' = inTramp, fault' # "guard",
         \/ ~ Held(Top(t)) /\ owner' = owner
         \/ owner' = NoThread
         \/ Held(f)
  PROVE  ThreadInv(t)'
  <1>1. CtlOK /\ CtlOK' /\ f \in Frame
    BY ReplacedOK DEF ThreadInv, TypeOK, CtlOK
  <1>2. OwnerCtx(t)'
    BY <1>1, OwnerChange DEF ThreadInv
  <1>3. /\ ~ Below(t)
        /\ f.kind = "exit" => f.traced
        /\ f.kind \in {"entry", "exit"}
        /\ inTramp
    <2>1. Top(t).kind = "exit" => Top(t).traced
      BY TopFacts, Zenon DEF ThreadInv, Guarded, Wrapper
    <2>2. QED BY <2>1, TopFacts DEF ThreadInv, Guarded, Wrapper
  <1>4. GuardCtx(t)'
    <2>1. f.kind \notin {"call", "exit"} \/ (f.traced /\ ~ Below(t))
      BY <1>3
    <2>2. inTramp' <=> (Below(t) \/ Guarded(f))
      BY <1>3
    <2>3. QED BY <1>1, <1>3, <2>1, <2>2, CtlChange DEF ThreadInv
  <1>5. QED BY <1>2, <1>4 DEF ThreadInv, NoGuardFault

LEMMA UserKeeps ==
  ASSUME NEW t \in Threads, ThreadInv(t), TypeOK', UserStep(t)
  PROVE  ThreadInv(t)'
  <1>0. CtlOK /\ CtlOK' /\ GuardCtx(t) /\ OwnerCtx(t)
    BY DEF ThreadInv, TypeOK, CtlOK
  <1>1. ASSUME NEW p \in Pts, MakeCall(t, p) PROVE ThreadInv(t)'
    <2>1. EntryFrame(p) \in Frame /\ EntryFrame(p).kind = "entry" /\ EntryFrame(p).pc = "check"
      BY FreshFrames DEF EntryFrame
    <2>2. GuardCtx(t)' /\ OwnerCtx(t)'
      BY <1>0, <1>1, <2>1, CtlPush, OwnerPush DEF MakeCall
    <2>3. QED BY <1>1, <2>2 DEF ThreadInv, NoGuardFault, MakeCall
  <1>2. CASE ReturnToPatch(t)
    <2> DEFINE f == ExitFrame(Top(t).pt, Top(t).traced)
    <2>1. /\ ctl[t] # <<>> /\ Top(t).kind = "call" /\ ctl' = Replace(t, f)
          /\ inTramp' = inTramp /\ owner' = owner /\ fault' = fault
      BY <1>2 DEF ReturnToPatch, At
    <2>2. f \in Frame
      BY <1>0, <2>1, ReplacedOK
    <2>3. f.kind = "exit" /\ f.pc = "check" /\ f.traced = Top(t).traced
      BY DEF ExitFrame
    <2>4. ~ Guarded(f) /\ ~ Raising(f) /\ ~ Guarded(Top(t)) /\ ~ Held(Top(t))
      BY <1>0, <2>1, <2>3, TopOK DEF Guarded, Raising, Held, Wrapper, Frame
    <2>5. \/ f.traced /\ ~ Below(t)
          \/ ~ f.traced /\ Below(t) /\ f.pc \in {"user", "check"}
      BY <1>0, <2>1, <2>3, TopFacts, Zenon
    <2>6. inTramp' <=> (Below(t) \/ Guarded(f))
      BY <1>0, <2>1, <2>4, TopFacts
    <2> HIDE DEF f
    <2>7. GuardCtx(t)'
      BY <1>0, <2>1, <2>2, <2>4, <2>5, <2>6, CtlChange
    <2>8. OwnerCtx(t)'
      BY <1>0, <2>1, <2>2, <2>4, OwnerChange
    <2>9. QED BY <2>1, <2>7, <2>8 DEF ThreadInv, NoGuardFault
  <1>3. CASE Interrupt(t)
    <2>1. NestedFrame \in Frame /\ NestedFrame.kind = "nested" /\ NestedFrame.pc = "user"
      BY FreshFrames DEF NestedFrame
    <2>2. GuardCtx(t)' /\ OwnerCtx(t)'
      BY <1>0, <1>3, <2>1, CtlPush, OwnerPush DEF Interrupt
    <2>3. QED BY <1>3, <2>2 DEF ThreadInv, NoGuardFault, Interrupt
  <1>4. CASE Resume(t) \/ Unwind(t)
    <2>1. /\ ctl[t] # <<>> /\ Top(t).kind \in {"nested", "call"} /\ ctl' = Drop(t)
          /\ inTramp' = inTramp /\ owner' = owner /\ fault' = fault
      BY <1>4 DEF Resume, Unwind, At
    <2>2. ~ Guarded(Top(t)) /\ ~ Held(Top(t))
      BY <1>0, <2>1, TopOK DEF Guarded, Held, Wrapper, Frame
    <2>3. GuardCtx(t)' /\ OwnerCtx(t)'
      BY <1>0, <2>1, <2>2, CtlDrop, OwnerDrop
    <2>4. QED BY <2>1, <2>3 DEF ThreadInv, NoGuardFault
  <1>5. QED BY <1>1, <1>2, <1>3, <1>4 DEF UserStep

\* A wrapper returns to the call it belongs to, or to the code after it.
LEMMA ReturnKeeps ==
  ASSUME NEW t \in Threads, ThreadInv(t), TypeOK', ctl[t] # <<>>,
         Top(t).kind \in Wrapper, ~ Held(Top(t)), NEW b \in BOOLEAN,
         ctl' = AfterReturn(t, b), owner' = owner, fault' = fault,
         IF Guarded(Top(t)) THEN b /\ ~ inTramp'
                            ELSE ~ b /\ inTramp /\ inTramp'
  PROVE  ThreadInv(t)'
  <1>0. CtlOK /\ CtlOK' /\ GuardCtx(t) /\ OwnerCtx(t)
    BY DEF ThreadInv, TypeOK, CtlOK
  <1>1. CASE Top(t).kind = "entry" /\ Top(t).pt \in CallPts
    <2> DEFINE f == CallFrame(Top(t).pt, b)
    <2>1. ctl' = Replace(t, f) /\ f \in Frame
      BY <1>1, FreshFrames DEF AfterReturn
    <2>2. /\ f.kind = "call" /\ f.pc = "user" /\ f.traced = b
          /\ ~ Guarded(f) /\ ~ Raising(f)
      BY DEF CallFrame, Guarded, Raising, Wrapper
    <2> HIDE DEF f
    <2>3. Below(t) <=> ~ b
      <3>1. CASE Guarded(Top(t))
        BY <1>0, <3>1, TopFacts
      <3>2. CASE ~ Guarded(Top(t))
        BY <1>0, <3>2, TopFacts
      <3>3. QED BY <3>1, <3>2
    <2>4. inTramp' <=> Below(t)
      BY <2>3
    <2>5. \/ f.traced /\ ~ Below(t)
          \/ ~ f.traced /\ Below(t) /\ f.pc \in {"user", "check"}
      BY <2>2, <2>3, Zenon
    <2>6. GuardCtx(t)'
      BY <1>0, <2>1, <2>2, <2>4, <2>5, CtlChange
    <2>7. OwnerCtx(t)'
      BY <1>0, <2>1, OwnerChange
    <2>8. QED BY <2>6, <2>7 DEF ThreadInv, NoGuardFault
  <1>2. CASE ~ (Top(t).kind = "entry" /\ Top(t).pt \in CallPts)
    <2>1. ctl' = Drop(t)
      BY <1>2 DEF AfterReturn
    <2>2. IF Guarded(Top(t)) THEN inTramp' = FALSE ELSE inTramp' = inTramp
      BY <1>0 DEF ThreadInv, TypeOK
    <2>3. GuardCtx(t)' /\ OwnerCtx(t)'
      BY <1>0, <2>1, <2>2, CtlDrop, OwnerDrop
    <2>4. QED BY <2>3 DEF ThreadInv, NoGuardFault
  <1>3. QED BY <1>1, <1>2

\* A step that raises the flag or gets ready to.
LEMMA RaisingStep ==
  ASSUME NEW t \in Threads, ThreadInv(t), TypeOK', ctl[t] # <<>>,
         Top(t).kind \in Wrapper, ~ Held(Top(t)), ~ Below(t), ~ inTramp,
         NEW f, f.kind = Top(t).kind, f.traced = Top(t).traced,
         ctl' = Replace(t, f), owner' = owner, fault' = fault,
         inTramp' <=> Guarded(f)
  PROVE  ThreadInv(t)'
  <1>0. CtlOK /\ CtlOK' /\ GuardCtx(t) /\ OwnerCtx(t) /\ f \in Frame
    BY ReplacedOK DEF ThreadInv, TypeOK, CtlOK
  <1>1. f.kind = "exit" => f.traced
    <2>1. Top(t).kind = "exit" => Top(t).traced
      BY <1>0, TopFacts, Zenon
    <2>2. QED BY <2>1
  <1>2. f.kind \notin {"call", "exit"} \/ (f.traced /\ ~ Below(t))
    BY <1>1 DEF Wrapper
  <1>3. GuardCtx(t)'
    BY <1>0, <1>2, CtlChange
  <1>4. OwnerCtx(t)'
    BY <1>0, OwnerChange
  <1>5. QED BY <1>3, <1>4 DEF ThreadInv, NoGuardFault

LEMMA GuardKeeps ==
  ASSUME NEW t \in Threads, ThreadInv(t), TypeOK',
         Check(t) \/ CtorTest(t) \/ CtorSet(t) \/ Dtor(t)
  PROVE  ThreadInv(t)'
  <1>0. /\ ctl[t] # <<>> /\ Top(t).kind \in Wrapper /\ ~ Held(Top(t))
        /\ Top(t) \in Frame /\ GuardCtx(t)
        /\ inTramp \in BOOLEAN /\ inTramp' \in BOOLEAN
    BY TopOK DEF Check, CtorTest, CtorSet, Dtor, At, Held, ThreadInv, GuardCtx, TypeOK
  <1>1. CASE Check(t)
    <2>1. ~ Guarded(Top(t)) /\ (inTramp <=> Below(t))
      BY <1>0, <1>1, TopFacts DEF Check, At, Guarded
    <2>2. CASE inTramp
      BY <1>0, <1>1, <2>1, <2>2, ReturnKeeps DEF Check
    <2>3. CASE ~ inTramp
      <3> DEFINE f == [Top(t) EXCEPT !.pc = "ctor"]
      <3>1. f.kind = Top(t).kind /\ f.traced = Top(t).traced /\ ~ Guarded(f)
        BY <1>0 DEF Frame, Guarded
      <3>2. ctl' = Replace(t, f) /\ owner' = owner /\ fault' = fault /\ inTramp' = inTramp
        BY <1>1, <2>3 DEF Check, Goto
      <3> HIDE DEF f
      <3>3. QED BY <1>0, <2>1, <2>3, <3>1, <3>2, RaisingStep
    <2>4. QED BY <2>2, <2>3
  <1>2. CASE CtorTest(t) \/ CtorSet(t)
    <2>1. ~ inTramp /\ ~ Below(t)
      BY <1>0, <1>2, TopFacts DEF CtorTest, CtorSet, At, Raising, Guarded
    <2> DEFINE f == [Top(t) EXCEPT !.pc =
                       IF CtorTest(t) THEN "set"
                       ELSE IF Top(t).kind = "entry" THEN "callee" ELSE "pop"]
    <2>2. /\ f.kind = Top(t).kind /\ f.traced = Top(t).traced
          /\ CtorTest(t) => ~ Guarded(f)
          /\ ~ CtorTest(t) => Guarded(f)
      <3>1. f.kind = Top(t).kind /\ f.traced = Top(t).traced
            /\ f.pc = IF CtorTest(t) THEN "set"
                       ELSE IF Top(t).kind = "entry" THEN "callee" ELSE "pop"
        BY <1>0 DEF Frame
      <3> HIDE DEF f
      <3>2. QED BY <1>0, <3>1 DEF Guarded
    <2>3. /\ owner' = owner /\ fault' = fault
          /\ CtorTest(t) => ctl' = Goto(t, "set") /\ inTramp' = inTramp
          /\ ~ CtorTest(t) =>
               /\ ctl' = Goto(t, IF Top(t).kind = "entry" THEN "callee" ELSE "pop")
               /\ inTramp' = TRUE
      BY <1>2, <2>1 DEF CtorTest, CtorSet
    <2>4. ctl' = Replace(t, f)
      BY <2>3 DEF Goto
    <2> HIDE DEF f
    <2>5. inTramp' <=> Guarded(f)
      BY <2>1, <2>2, <2>3
    <2>6. QED BY <1>0, <2>1, <2>2, <2>3, <2>4, <2>5, RaisingStep
  <1>3. CASE Dtor(t)
    <2>1. Guarded(Top(t))
      BY <1>0, <1>3 DEF Dtor, At, Guarded
    <2>2. QED BY <1>0, <1>3, <2>1, ReturnKeeps DEF Dtor
  <1>4. QED BY <1>1, <1>2, <1>3

\* Moving on inside the guarded part.
LEMMA GotoKeeps ==
  ASSUME NEW t \in Threads, ThreadInv(t), TypeOK', ctl[t] # <<>>,
         Top(t).kind \in Wrapper, Guarded(Top(t)),
         NEW pc, pc \notin {"check", "ctor", "set"},
         ctl' = Goto(t, pc), inTramp' = inTramp, fault' # "guard",
         \/ ~ Held(Top(t)) /\ owner' = owner
         \/ owner' = NoThread
         \/ pc \in {"calleeHeld", "retvalHeld", "payloadHeld"}
  PROVE  ThreadInv(t)'
  <1> DEFINE f == [Top(t) EXCEPT !.pc = pc]
  <1>1. Top(t) \in Frame
    BY TopOK DEF ThreadInv, GuardCtx
  <1>2. f.kind = Top(t).kind /\ f.traced = Top(t).traced /\ f.pc = pc
    BY <1>1 DEF Frame
  <1>3. ctl' = Replace(t, f)
    BY DEF Goto
  <1> HIDE DEF f
  <1>4. Guarded(f) /\ (Held(f) <=> pc \in {"calleeHeld", "retvalHeld", "payloadHeld"})
    BY <1>2 DEF Guarded, Held
  <1>5. QED BY <1>2, <1>3, <1>4, GuardedStep

\* A step that only ends the process.
LEMMA FaultKeeps ==
  ASSUME NEW t \in Threads, ThreadInv(t), TypeOK', ctl' = ctl, inTramp' = inTramp,
         fault' # "guard", owner' = owner \/ owner' = NoThread
  PROVE  ThreadInv(t)'
  BY ThreadsAssumption DEF ThreadInv, GuardCtx, OwnerCtx, NoGuardFault, CtlOK

LEMMA InsideKeeps ==
  ASSUME NEW t \in Threads, ThreadInv(t), TypeOK', fault = "none", WrapperStep(t),
         ~ (Check(t) \/ CtorTest(t) \/ CtorSet(t) \/ Dtor(t))
  PROVE  ThreadInv(t)'
  <1>0. /\ ctl[t] # <<>> /\ Top(t).kind \in Wrapper /\ Guarded(Top(t))
        /\ Top(t) \in Frame
    <2>1. ctl[t] # <<>> /\ Top(t).kind \in Wrapper /\ Guarded(Top(t))
      BY DEF WrapperStep, LockAt, LockCallee, UnlockCallee, EntryPayloadDone,
         PushHandle, PopHandle, LockRetVal, UnlockRetVal, ExitPayloadDone,
         LockInPayload, UnlockInPayload, At, Wrapper, Guarded
    <2>2. QED BY <2>1, TopOK DEF ThreadInv, GuardCtx
  <1>1. CASE LockCallee(t) \/ LockRetVal(t) \/ LockInPayload(t)
    BY <1>0, <1>1, GotoKeeps DEF LockCallee, LockRetVal, LockInPayload, LockAt
  <1>2. CASE UnlockCallee(t) \/ UnlockInPayload(t)
    BY <1>0, <1>2, GotoKeeps DEF UnlockCallee, UnlockInPayload
  <1>3. CASE UnlockRetVal(t)
    <2>1. CASE Top(t).handle = NoHandle
      BY <1>3, <2>1, FaultKeeps DEF UnlockRetVal
    <2>2. CASE Top(t).handle # NoHandle
      BY <1>0, <1>3, <2>2, GotoKeeps DEF UnlockRetVal
    <2>3. QED BY <2>1, <2>2
  <1>4. CASE EntryPayloadDone(t) \/ PushHandle(t)
    BY <1>0, <1>4, GotoKeeps DEF EntryPayloadDone, PushHandle, At, Held
  <1>5. CASE PopHandle(t)
    <2> DEFINE f == [Top(t) EXCEPT !.pc = "retval", !.handle = TopHandle(t)]
    <2>1. f.kind = Top(t).kind /\ f.traced = Top(t).traced /\ f.pc = "retval"
      BY <1>0 DEF Frame
    <2>2. /\ ctl' = Replace(t, f) /\ inTramp' = inTramp /\ owner' = owner
          /\ fault' # "guard" /\ ~ Held(Top(t))
      BY <1>5 DEF PopHandle, At, Held
    <2> HIDE DEF f
    <2>3. Guarded(f)
      BY <1>0, <2>1 DEF Guarded
    <2>4. QED BY <1>0, <2>1, <2>2, <2>3, GuardedStep
  <1>6. CASE ExitPayloadDone(t)
    <2>1. CASE Top(t).handle.pt = Top(t).pt
      BY <1>0, <1>6, <2>1, GotoKeeps DEF ExitPayloadDone, At, Held
    <2>2. CASE Top(t).handle.pt # Top(t).pt /\ stack[t] = <<>>
      BY <1>6, <2>2, FaultKeeps DEF ExitPayloadDone
    <2>3. CASE Top(t).handle.pt # Top(t).pt /\ stack[t] # <<>>
      <3> DEFINE f == [Top(t) EXCEPT !.handle = TopHandle(t)]
      <3>1. f.kind = Top(t).kind /\ f.traced = Top(t).traced /\ f.pc = Top(t).pc
        BY <1>0 DEF Frame
      <3>2. /\ ctl' = Replace(t, f) /\ inTramp' = inTramp /\ owner' = owner
            /\ fault' # "guard" /\ ~ Held(Top(t))
        BY <1>6, <2>3 DEF ExitPayloadDone, At, Held
      <3> HIDE DEF f
      <3>3. Guarded(f)
        BY <1>0, <3>1 DEF Guarded
      <3>4. QED BY <1>0, <3>1, <3>2, <3>3, GuardedStep
    <2>4. QED BY <2>1, <2>2, <2>3
  <1>7. QED BY <1>1, <1>2, <1>3, <1>4, <1>5, <1>6 DEF WrapperStep

-----------------------------------------------------------------------------
\* GuardInv is ThreadInv of the one thread.
LEMMA InvOfThread ==
  ASSUME NEW t \in Threads, GuardInv PROVE ThreadInv(t)
  BY DEF GuardInv, ThreadInv, GuardCtx, OwnerCtx, CtlOK, TypeOK, FlagTells,
         QuietAbove, TracedApart, OwnerHolds

LEMMA InvOfThreads ==
  ASSUME OneThread, NEW t \in Threads, ThreadInv(t) PROVE GuardInv
  BY DEF OneThread, GuardInv, ThreadInv, GuardCtx, OwnerCtx, FlagTells,
         QuietAbove, TracedApart, OwnerHolds

LEMMA InitGuardInv == Init => GuardInv
  <1> SUFFICES ASSUME Init PROVE GuardInv
    OBVIOUS
  <1>1. TypeOK
    BY InitTypeOK
  <1>2. \A t \in Threads : ctl[t] = <<>> /\ Len(ctl[t]) = 0
    BY DEF Init
  <1>3. ~ inTramp /\ owner = NoThread /\ fault = "none"
    BY DEF Init
  <1>4. FlagTells /\ QuietAbove /\ TracedApart
    BY <1>2, <1>3 DEF FlagTells, QuietAbove, TracedApart, SomeGuarded, Quiet, Apart
  <1>5. OwnerHolds
    BY <1>3, ThreadsAssumption DEF OwnerHolds
  <1>6. QED BY <1>1, <1>3, <1>4, <1>5 DEF GuardInv, NoGuardFault

LEMMA StepGuardInv ==
  ASSUME OneThread PROVE GuardInv /\ [Next]_vars => GuardInv'
  <1> SUFFICES ASSUME GuardInv, [Next]_vars PROVE GuardInv'
    OBVIOUS
  <1>1. CASE UNCHANGED vars
    BY <1>1 DEF vars, GuardInv, TypeOK, FlagTells, QuietAbove, TracedApart,
                OwnerHolds, NoGuardFault
  <1>2. ASSUME NEW t \in Threads, fault = "none", WrapperStep(t) \/ UserStep(t)
        PROVE  GuardInv'
    <2>1. ThreadInv(t) /\ TypeOK
      BY InvOfThread DEF GuardInv
    <2>2. TypeOK'
      BY <1>2, <2>1, UserTypeOK, WrapperTypeOK
    <2>3. ThreadInv(t)'
      BY <1>2, <2>1, <2>2, UserKeeps, GuardKeeps, InsideKeeps
    <2>4. QED BY <2>3, InvOfThreads DEF OneThread, GuardInv, ThreadInv, GuardCtx,
              OwnerCtx, FlagTells, QuietAbove, TracedApart, OwnerHolds
  <1>3. QED BY <1>1, <1>2 DEF Next

LEMMA GuardInvHolds == ASSUME OneThread PROVE Spec => []GuardInv
  BY InitGuardInv, StepGuardInv, PTL DEF Spec

\* With one thread the assert(false) of TrampGuard is never reached
\* (payload.cc:99-102), however deep handlers and payload code nest.
THEOREM NoGuardFaultOneThread ==
  ASSUME OneThread PROVE Spec => []NoGuardFault
  <1>1. GuardInv => NoGuardFault BY DEF GuardInv
  <1>2. QED BY <1>1, GuardInvHolds, PTL

\* With one thread SP_LOCK is never asked for on top of its own holder.
THEOREM NoSelfDeadlockOneThread ==
  ASSUME OneThread PROVE Spec => []NoSelfDeadlock
  <1>1. ASSUME GuardInv PROVE NoSelfDeadlock
    <2> SUFFICES ASSUME NEW t \in Threads, ctl[t] # <<>>, Top(t).kind \in Wrapper,
                        Top(t).pc \in {"callee", "retval", "payload"}, owner = t
                 PROVE  FALSE
      BY DEF NoSelfDeadlock
    <2>1. ThreadInv(t) /\ GuardCtx(t) /\ CtlOK
      BY <1>1, InvOfThread DEF ThreadInv, GuardCtx
    <2>2. ctl[t] \in Seq(Frame) /\ Len(ctl[t]) \in Nat \ {0}
      BY <2>1 DEF CtlOK
    <2>3. Guarded(Top(t)) /\ ~ Held(Top(t)) /\ ~ Below(t)
      <3>1. Guarded(Top(t)) /\ ~ Held(Top(t))
        BY DEF Guarded, Held
      <3>2. QED BY <2>1, <3>1, TopFacts
    <2>4. PICK d \in 1 .. Len(ctl[t]) : Held(ctl[t][d])
      BY <2>1 DEF ThreadInv, OwnerCtx
    <2>5. d \in 1 .. Len(ctl[t]) - 1
      BY <2>2, <2>3, <2>4 DEF Top
    <2>6. ctl[t][d] \in Frame
      BY <2>2, <2>4
    <2>7. Guarded(ctl[t][d])
      BY <2>4, <2>6 DEF Held, Guarded, Frame, Wrapper, EntryPcs, ExitPcs
    <2>8. QED BY <2>3, <2>5, <2>7 DEF Below
  <1>2. QED BY <1>1, GuardInvHolds, PTL

\* With one thread the two wrappers of a call run both or turn back both.
THEOREM SkippedTogetherOneThread ==
  ASSUME OneThread PROVE Spec => []SkippedTogether
  <1>1. ASSUME GuardInv PROVE SkippedTogether
    <2> SUFFICES ASSUME NEW t \in Threads, NEW d \in 1 .. Depth(t),
                        ctl[t][d].kind \in {"call", "exit"}
                 PROVE  IF ctl[t][d].traced
                          THEN ctl[t][d].kind = "exit" /\ ctl[t][d].pc = "check"
                                 /\ d = Depth(t) => ~ inTramp
                          ELSE inTramp /\ ctl[t][d].pc \in {"user", "check"}
      BY DEF SkippedTogether
    <2>1. GuardCtx(t) /\ Apart(ctl[t]) /\ (inTramp <=> SomeGuarded(ctl[t]))
      BY <1>1, InvOfThread DEF ThreadInv, GuardCtx
    <2>2. ctl[t] \in Seq(Frame) /\ Len(ctl[t]) \in Nat /\ d \in 1 .. Len(ctl[t])
      BY <2>1 DEF GuardCtx, CtlOK, Depth
    <2>3. CASE ctl[t][d].traced
      <3>1. \A c \in 1 .. d - 1 : ~ Guarded(ctl[t][c])
        BY <2>1, <2>2, <2>3, Zenon DEF Apart
      <3>2. ASSUME ctl[t][d].pc = "check", d = Depth(t) PROVE ~ inTramp
        BY <2>1, <2>2, <3>1, <3>2 DEF SomeGuarded, Guarded, Depth
      <3>3. QED BY <2>3, <3>2
    <2>4. CASE ~ ctl[t][d].traced
      <3>1. /\ \E c \in 1 .. d - 1 : Guarded(ctl[t][c])
            /\ ctl[t][d].pc \in {"user", "check"}
        BY <2>1, <2>2, <2>4, Zenon DEF Apart
      <3>2. SomeGuarded(ctl[t])
        BY <2>2, <3>1 DEF SomeGuarded
      <3>3. QED BY <2>1, <2>4, <3>1, <3>2
    <2>5. QED BY <2>3, <2>4
  <1>2. QED BY <1>1, GuardInvHolds, PTL

\* With one thread, what runs on top of a guarded wrapper leaves the flag, the
\* lock and the shadow stack alone.
THEOREM NestedIsInvisibleOneThread ==
  ASSUME OneThread PROVE Spec => NestedIsInvisible
  <1>1. ASSUME GuardInv, [Next]_vars
        PROVE  [\A t \in Threads :
                  (\E d \in 1 .. Depth(t) - 1 : Guarded(ctl[t][d]))
                  => UNCHANGED <<inTramp, owner, stack>>]_vars
    <2>1. SUFFICES ASSUME NEW t \in Threads, Below(t), fault = "none",
                          WrapperStep(t) \/ UserStep(t)
                   PROVE  UNCHANGED <<inTramp, owner, stack>>
      BY <1>1 DEF Next, OneThread, Below, Depth
    <2>2. GuardCtx(t)
      BY <1>1, InvOfThread DEF ThreadInv
    <2>3. CASE UserStep(t)
      BY <2>3 DEF UserStep, MakeCall, ReturnToPatch, Interrupt, Resume, Unwind
    <2>4. CASE WrapperStep(t)
      <3>1. ctl[t] # <<>> => ~ Guarded(Top(t)) /\ ~ Raising(Top(t))
        BY <2>1, <2>2, TopFacts
      <3>2. Check(t)
        BY <2>4, <3>1 DEF WrapperStep, CtorTest, CtorSet, Dtor, LockAt, LockCallee,
           UnlockCallee, EntryPayloadDone, PushHandle, PopHandle, LockRetVal,
           UnlockRetVal, ExitPayloadDone, LockInPayload, UnlockInPayload, At,
           Wrapper, Guarded, Raising
      <3>3. QED BY <3>2 DEF Check
    <2>5. QED BY <2>1, <2>3, <2>4
  <1>2. QED BY <1>1, GuardInvHolds, PTL DEF Spec, NestedIsInvisible
-----------------------------------------------------------------------------
(***************************************************************************)
(* A frame is owed a handle from the push of its entry wrapper to the pop  *)
(* that finds it: it has one in the stack.                                 *)
(***************************************************************************)
Owed(f) ==
  \/ f.kind = "entry" /\ f.pc = "dtor"
  \/ /\ f.traced
     /\ \/ f.kind = "call"
        \/ f.kind = "exit" /\ (f.handle = NoHandle \/ f.handle.pt # f.pt)

\* Every frame c[d] that is owed a handle has it in s, and what was pushed
\* later was pushed further in.
Lodged(c, s) ==
  \A d \in 1 .. Len(c) : Owed(c[d]) =>
    \E i \in 1 .. Len(s) :
      /\ s[i] = [pt |-> c[d].pt, at |-> d]
      /\ \A j \in i + 1 .. Len(s) : s[j].at > d

\* Every handle of a call that returns here is owed to the frame that pushed it.
Accounted(c, s) ==
  \A i \in 1 .. Len(s) : s[i].pt \in CallPts =>
    /\ s[i].at \in 1 .. Len(c)
    /\ Owed(c[s[i].at])
    /\ c[s[i].at].pt = s[i].pt

InOrder(s) ==
  \A i, j \in 1 .. Len(s) :
    i < j /\ s[i].pt \in CallPts /\ s[j].pt \in CallPts => s[i].at < s[j].at

\* An exit wrapper has a handle from its first pop on, its own when it is done.
Fitting(f) ==
  f.kind = "exit" =>
    /\ f.handle = NoHandle <=> f.pc \in {"check", "ctor", "set", "pop"}
    /\ f.pc = "dtor" => f.handle.pt = f.pt

AllFitting(c) == \A d \in 1 .. Len(c) : Fitting(c[d])

\* A handle in the stack is not mistaken for none.
Proper(s) == \A i \in 1 .. Len(s) : s[i].at # 0

-----------------------------------------------------------------------------
(***************************************************************************)
(* How the parts fare when activations c become r and the stack s q.       *)
(***************************************************************************)
LEMMA AppendLodged ==
  ASSUME NEW c \in Seq(Frame), NEW r \in Seq(Frame), NEW s \in Seq(Handle),
         Len(r) = Len(c) + 1, \A d \in 1 .. Len(c) : r[d] = c[d],
         ~ Owed(r[Len(c) + 1]), Fitting(r[Len(c) + 1])
  PROVE  /\ Lodged(c, s) => Lodged(r, s)
         /\ Accounted(c, s) => Accounted(r, s)
         /\ AllFitting(c) => AllFitting(r)
  <1>1. \A d \in 1 .. Len(r) : d = Len(c) + 1 \/ (d \in 1 .. Len(c) /\ r[d] = c[d])
    OBVIOUS
  <1>2. \A d \in 1 .. Len(c) : d \in 1 .. Len(r)
    OBVIOUS
  <1>3. Lodged(c, s) => Lodged(r, s)
    BY <1>1 DEF Lodged
  <1>4. Accounted(c, s) => Accounted(r, s)
    BY <1>1, <1>2 DEF Accounted
  <1>5. AllFitting(c) => AllFitting(r)
    BY <1>1 DEF AllFitting
  <1>6. QED BY <1>3, <1>4, <1>5

LEMMA RemoveLodged ==
  ASSUME NEW c \in Seq(Frame), NEW r \in Seq(Frame), NEW s \in Seq(Handle),
         Len(c) \in Nat \ {0}, Len(r) = Len(c) - 1,
         \A d \in 1 .. Len(c) - 1 : r[d] = c[d]
  PROVE  /\ Lodged(c, s) => Lodged(r, s)
         /\ Accounted(c, s) /\ (~ Owed(c[Len(c)]) \/ c[Len(c)].pt \notin CallPts)
              => Accounted(r, s)
         /\ AllFitting(c) => AllFitting(r)
  <1>1. \A d \in 1 .. Len(c) : d = Len(c) \/ (d \in 1 .. Len(r) /\ r[d] = c[d])
    OBVIOUS
  <1>2. \A d \in 1 .. Len(r) : d \in 1 .. Len(c) /\ r[d] = c[d]
    OBVIOUS
  <1>3. Lodged(c, s) => Lodged(r, s)
    BY <1>2 DEF Lodged
  <1>4. ASSUME Accounted(c, s), ~ Owed(c[Len(c)]) \/ c[Len(c)].pt \notin CallPts
        PROVE  Accounted(r, s)
    BY <1>1, <1>4 DEF Accounted
  <1>5. AllFitting(c) => AllFitting(r)
    BY <1>2 DEF AllFitting
  <1>6. QED BY <1>3, <1>4, <1>5

LEMMA ChangeLodged ==
  ASSUME NEW c \in Seq(Frame), NEW r \in Seq(Frame), NEW s \in Seq(Handle),
         Len(c) \in Nat \ {0}, Len(r) = Len(c),
         \A d \in 1 .. Len(c) - 1 : r[d] = c[d],
         r[Len(c)].pt = c[Len(c)].pt, Fitting(r[Len(c)])
  PROVE  /\ Lodged(c, s) /\ (Owed(r[Len(c)]) => Owed(c[Len(c)])) => Lodged(r, s)
         /\ Accounted(c, s) /\ (Owed(c[Len(c)]) => Owed(r[Len(c)])) => Accounted(r, s)
         /\ AllFitting(c) => AllFitting(r)
  <1>1. \A d \in 1 .. Len(c) : d = Len(c) \/ r[d] = c[d]
    OBVIOUS
  <1>2. ASSUME Lodged(c, s), Owed(r[Len(c)]) => Owed(c[Len(c)]) PROVE Lodged(r, s)
    <2>1. \A d \in 1 .. Len(c) : Owed(r[d]) => Owed(c[d]) /\ r[d].pt = c[d].pt
      BY <1>1, <1>2
    <2> SUFFICES ASSUME NEW d \in 1 .. Len(c), Owed(r[d])
                 PROVE  \E i \in 1 .. Len(s) :
                          /\ s[i] = [pt |-> r[d].pt, at |-> d]
                          /\ \A j \in i + 1 .. Len(s) : s[j].at > d
      BY DEF Lodged
    <2>2. PICK i \in 1 .. Len(s) : /\ s[i] = [pt |-> c[d].pt, at |-> d]
                                   /\ \A j \in i + 1 .. Len(s) : s[j].at > d
      BY <1>2, <2>1 DEF Lodged
    <2>3. QED BY <2>1, <2>2
  <1>3. ASSUME Accounted(c, s), Owed(c[Len(c)]) => Owed(r[Len(c)]) PROVE Accounted(r, s)
    BY <1>1, <1>3 DEF Accounted
  <1>4. AllFitting(c) => AllFitting(r)
    BY <1>1 DEF AllFitting
  <1>5. QED BY <1>2, <1>3, <1>4

\* wrapper_entry pushes: the top frame, at n, is owed what comes on top of s.
LEMMA PushLodged ==
  ASSUME NEW c \in Seq(Frame), NEW r \in Seq(Frame), NEW s \in Seq(Handle), NEW q \in Seq(Handle),
         Len(c) \in Nat \ {0}, Len(r) = Len(c),
         \A d \in 1 .. Len(c) - 1 : r[d] = c[d],
         r[Len(c)].pt = c[Len(c)].pt, Fitting(r[Len(c)]),
         ~ Owed(c[Len(c)]), Owed(r[Len(c)]),
         Len(q) = Len(s) + 1, \A i \in 1 .. Len(s) : q[i] = s[i],
         q[Len(s) + 1] = [pt |-> c[Len(c)].pt, at |-> Len(c)]
  PROVE  /\ Lodged(c, s) => Lodged(r, q)
         /\ Accounted(c, s) /\ InOrder(s) => Accounted(r, q) /\ InOrder(q)
         /\ AllFitting(c) => AllFitting(r)
         /\ Proper(s) => Proper(q)
  <1> DEFINE n == Len(c)
             m == Len(s)
  <1>0. n \in Nat \ {0} /\ m \in Nat
    OBVIOUS
  <1>1. \A d \in 1 .. n : d = n \/ (d < n /\ r[d] = c[d])
    OBVIOUS
  <1>2. \A i \in 1 .. m + 1 : i = m + 1 \/ (i \in 1 .. m /\ q[i] = s[i])
    BY <1>0
  <1>3. \A i \in 1 .. m : i \in 1 .. m + 1
    BY <1>0
  <1>4. q[m + 1].pt = c[n].pt /\ q[m + 1].at = n /\ m + 1 \in 1 .. m + 1
    BY <1>0
  <1>5. ASSUME Lodged(c, s) PROVE Lodged(r, q)
    <2> SUFFICES ASSUME NEW d \in 1 .. n, Owed(r[d])
                 PROVE  \E i \in 1 .. m + 1 :
                          /\ q[i] = [pt |-> r[d].pt, at |-> d]
                          /\ \A j \in i + 1 .. m + 1 : q[j].at > d
      BY DEF Lodged
    <2>1. CASE d = n
      <3>1. \A j \in m + 1 + 1 .. m + 1 : FALSE
        BY <1>0
      <3>2. QED BY <1>4, <2>1, <3>1
    <2>2. CASE d # n
      <3>1. d < n /\ r[d] = c[d]
        BY <1>1, <2>2
      <3>2. PICK i \in 1 .. m : /\ s[i] = [pt |-> c[d].pt, at |-> d]
                                /\ \A j \in i + 1 .. m : s[j].at > d
        BY <1>5, <3>1 DEF Lodged
      <3>3. ASSUME NEW j \in i + 1 .. m + 1 PROVE q[j].at > d
        BY <1>0, <1>2, <1>4, <3>1, <3>2
      <3>4. q[i] = [pt |-> r[d].pt, at |-> d] /\ i \in 1 .. m + 1
        BY <1>3, <3>1, <3>2
      <3>5. QED BY <3>3, <3>4
    <2>3. QED BY <2>1, <2>2
  <1>6. ASSUME Accounted(c, s), InOrder(s) PROVE Accounted(r, q) /\ InOrder(q)
    <2>1. \A i \in 1 .. m : s[i].pt \in CallPts =>
             s[i].at \in 1 .. n /\ s[i].at < n /\ Owed(c[s[i].at]) /\ c[s[i].at].pt = s[i].pt
      BY <1>1, <1>6 DEF Accounted
    <2>a. ASSUME NEW i \in 1 .. m + 1, q[i].pt \in CallPts
          PROVE  q[i].at \in 1 .. n /\ Owed(r[q[i].at]) /\ r[q[i].at].pt = q[i].pt
      <3>1. CASE i = m + 1
        BY <1>0, <1>4, <3>1
      <3>2. CASE i # m + 1
        <4>1. i \in 1 .. m /\ q[i] = s[i]
          BY <1>2, <3>2
        <4>2. /\ s[i].at \in 1 .. n /\ s[i].at < n
              /\ Owed(c[s[i].at]) /\ c[s[i].at].pt = s[i].pt
          BY <2>1, <2>a, <4>1
        <4>3. r[s[i].at] = c[s[i].at]
          BY <1>1, <4>2
        <4>4. QED BY <4>1, <4>2, <4>3
      <3>3. QED BY <3>1, <3>2
    <2>2. Accounted(r, q)
      BY <2>a DEF Accounted
    <2>3. ASSUME NEW i \in 1 .. m + 1, NEW j \in 1 .. m + 1, i < j,
                 q[i].pt \in CallPts, q[j].pt \in CallPts
          PROVE  q[i].at < q[j].at
      <3>1. i \in 1 .. m /\ q[i] = s[i]
        BY <1>0, <1>2, <2>3
      <3>2. CASE j = m + 1
        BY <1>4, <2>1, <2>3, <3>1, <3>2
      <3>3. CASE j # m + 1
        BY <1>2, <1>6, <2>3, <3>1, <3>3 DEF InOrder
      <3>4. QED BY <3>2, <3>3
    <2>4. InOrder(q)
      BY <2>3 DEF InOrder
    <2>5. QED BY <2>2, <2>4
  <1>7. AllFitting(c) => AllFitting(r)
    BY <1>1 DEF AllFitting
  <1>8. Proper(s) => Proper(q)
    BY <1>0, <1>2, <1>4 DEF Proper
  <1>9. QED BY <1>5, <1>6, <1>7, <1>8

\* wrapper_exit pops for the top frame, at n, which is owed a handle: there
\* is one, its own or one pushed further in.
LEMMA PopLodged ==
  ASSUME NEW c \in Seq(Frame), NEW s \in Seq(Handle),
         Len(c) \in Nat \ {0}, Owed(c[Len(c)]), Lodged(c, s)
  PROVE  /\ Len(s) \in Nat \ {0}
         /\ \/ s[Len(s)] = [pt |-> c[Len(c)].pt, at |-> Len(c)]
            \/ s[Len(s)].at > Len(c)
  <1>1. PICK i \in 1 .. Len(s) : /\ s[i] = [pt |-> c[Len(c)].pt, at |-> Len(c)]
                                 /\ \A j \in i + 1 .. Len(s) : s[j].at > Len(c)
    BY DEF Lodged
  <1>2. i = Len(s) \/ Len(s) \in i + 1 .. Len(s)
    OBVIOUS
  <1>3. QED BY <1>1, <1>2

LEMMA PoppedLodged ==
  ASSUME NEW c \in Seq(Frame), NEW r \in Seq(Frame), NEW s \in Seq(Handle), NEW q \in Seq(Handle),
         Len(c) \in Nat \ {0}, Len(r) = Len(c),
         \A d \in 1 .. Len(c) - 1 : r[d] = c[d],
         r[Len(c)].pt = c[Len(c)].pt, Fitting(r[Len(c)]),
         Owed(c[Len(c)]), Owed(r[Len(c)]) => s[Len(s)].pt # c[Len(c)].pt,
         Len(s) \in Nat \ {0}, Len(q) = Len(s) - 1, \A i \in 1 .. Len(s) - 1 : q[i] = s[i],
         Lodged(c, s)
  PROVE  /\ Lodged(r, q)
         /\ AllFitting(c) => AllFitting(r)
         /\ Proper(s) => Proper(q)
  <1> DEFINE n == Len(c)
             m == Len(s)
  <1>0. n \in Nat \ {0} /\ m \in Nat \ {0}
    OBVIOUS
  <1>1. \A d \in 1 .. n : d = n \/ (d < n /\ r[d] = c[d])
    OBVIOUS
  <1>2. \A i \in 1 .. m - 1 : i \in 1 .. m /\ q[i] = s[i]
    BY <1>0
  <1>3. s[m] = [pt |-> c[n].pt, at |-> n] \/ s[m].at > n
    BY PopLodged
  <1>4. Lodged(r, q)
    <2> SUFFICES ASSUME NEW d \in 1 .. n, Owed(r[d])
                 PROVE  \E i \in 1 .. m - 1 :
                          /\ q[i] = [pt |-> r[d].pt, at |-> d]
                          /\ \A j \in i + 1 .. m - 1 : q[j].at > d
      BY DEF Lodged
    <2>1. Owed(c[d]) /\ r[d].pt = c[d].pt
      BY <1>1
    <2>2. PICK i \in 1 .. m : /\ s[i] = [pt |-> c[d].pt, at |-> d]
                              /\ \A j \in i + 1 .. m : s[j].at > d
      BY <2>1 DEF Lodged
    <2>3. i # m
      <3>1. CASE d = n
        BY <2>2, <3>1
      <3>2. CASE d # n
        BY <1>0, <1>1, <1>3, <2>2, <3>2
      <3>3. QED BY <3>1, <3>2
    <2>4. i \in 1 .. m - 1 /\ \A j \in i + 1 .. m - 1 : j \in i + 1 .. m /\ j \in 1 .. m - 1
      BY <1>0, <2>3
    <2>5. \A j \in i + 1 .. m - 1 : q[j].at > d
      BY <1>2, <2>2, <2>4
    <2>6. q[i] = [pt |-> r[d].pt, at |-> d]
      BY <1>2, <2>1, <2>2, <2>4
    <2>7. QED BY <2>4, <2>5, <2>6
  <1>5. AllFitting(c) => AllFitting(r)
    BY <1>1 DEF AllFitting
  <1>6. Proper(s) => Proper(q)
    BY <1>2 DEF Proper
  <1>7. QED BY <1>4, <1>5, <1>6

\* The same when all calls return.
LEMMA PoppedAccounted ==
  ASSUME NEW c \in Seq(Frame), NEW r \in Seq(Frame), NEW s \in Seq(Handle), NEW q \in Seq(Handle),
         Len(c) \in Nat \ {0}, Len(r) = Len(c),
         \A d \in 1 .. Len(c) - 1 : r[d] = c[d],
         r[Len(c)].pt = c[Len(c)].pt, c[Len(c)].pt \in CallPts,
         Owed(c[Len(c)]), Owed(r[Len(c)]) <=> s[Len(s)].pt # c[Len(c)].pt,
         Len(s) \in Nat \ {0}, Len(q) = Len(s) - 1, \A i \in 1 .. Len(s) - 1 : q[i] = s[i],
         Lodged(c, s), Accounted(c, s), InOrder(s)
  PROVE  /\ Accounted(r, q) /\ InOrder(q)
         /\ IF s[Len(s)].pt = c[Len(c)].pt
              THEN s[Len(s)].at = Len(c)
              ELSE s[Len(s)].pt \in TailPts /\ s[Len(s)].at > Len(c)
  <1> DEFINE n == Len(c)
             m == Len(s)
  <1>0. n \in Nat \ {0} /\ m \in Nat \ {0} /\ s[m] \in Handle
    OBVIOUS
  <1>1. \A d \in 1 .. n : d = n \/ (d < n /\ r[d] = c[d])
    OBVIOUS
  <1>2. \A i \in 1 .. m - 1 : i \in 1 .. m /\ i < m /\ q[i] = s[i]
    BY <1>0
  <1>3. s[m] = [pt |-> c[n].pt, at |-> n] \/ s[m].at > n
    BY PopLodged
  <1>4. s[m].pt \in CallPts => s[m].at \in 1 .. n
    BY <1>0 DEF Accounted
  <1>5. s[m].pt \in CallPts => s[m] = [pt |-> c[n].pt, at |-> n]
    BY <1>0, <1>3, <1>4
  <1>6. IF s[m].pt = c[n].pt
          THEN s[m].at = n
          ELSE s[m].pt \in TailPts /\ s[m].at > n
    BY <1>0, <1>3, <1>5 DEF Handle, Pts
  <1>7. InOrder(q)
    BY <1>2 DEF InOrder
  <1>8. ASSUME NEW i \in 1 .. m - 1, q[i].pt \in CallPts
        PROVE  q[i].at \in 1 .. n /\ Owed(r[q[i].at]) /\ r[q[i].at].pt = q[i].pt
    <2>1. i \in 1 .. m /\ i < m /\ q[i] = s[i]
      BY <1>2
    <2>2. s[i].at \in 1 .. n /\ Owed(c[s[i].at]) /\ c[s[i].at].pt = s[i].pt
      BY <1>8, <2>1 DEF Accounted
    <2>3. CASE s[i].at = n
      <3>1. s[m].pt # c[n].pt
        <4> SUFFICES ASSUME s[m].pt = c[n].pt PROVE FALSE
          OBVIOUS
        <4>1. s[m].at = n
          BY <1>6
        <4>2. s[i].at < s[m].at
          BY <1>0, <1>8, <2>1 DEF InOrder
        <4>3. QED BY <1>0, <2>3, <4>1, <4>2
      <3>2. QED BY <2>1, <2>2, <2>3, <3>1
    <2>4. CASE s[i].at # n
      BY <1>1, <2>1, <2>2, <2>4
    <2>5. QED BY <2>3, <2>4
  <1>9. Accounted(r, q)
    BY <1>8 DEF Accounted
  <1>10. QED BY <1>6, <1>7, <1>9

-----------------------------------------------------------------------------
(***************************************************************************)
(* The invariants of the thread, and what the kinds of steps do to them.   *)
(***************************************************************************)
StackInv(t) ==
  /\ AllFitting(ctl[t])
  /\ Lodged(ctl[t], stack[t])
  /\ Proper(stack[t])
  /\ NoEmptyPop

PairedAt(f, d) ==
  f.kind = "exit" /\ f.handle # NoHandle =>
    IF f.handle.pt = f.pt
      THEN f.handle.at = d
      ELSE f.handle.pt \in TailPts /\ f.handle.at > d

PairedIn(c) == \A d \in 1 .. Len(c) : PairedAt(c[d], d)

PairInv(t) ==
  /\ Accounted(ctl[t], stack[t])
  /\ InOrder(stack[t])
  /\ PairedIn(ctl[t])

\* What the steps need to know of the sequences' types.
SeqsOK(t) == CtlOK /\ stack \in [Threads -> Seq(Handle)]

LEMMA PushedPaired ==
  ASSUME NEW t \in Threads, SeqsOK(t), NEW f \in Frame, ctl' = Push(t, f),
         stack' = stack, fault' = fault,
         ~ Owed(f), f.kind # "exit", StackInv(t)
  PROVE  StackInv(t)' /\ (PairInv(t) => PairInv(t)')
  <1> DEFINE c == ctl[t]
             r == ctl'[t]
             s == stack[t]
  <1>1. /\ c \in Seq(Frame) /\ r \in Seq(Frame) /\ s \in Seq(Handle)
        /\ Len(r) = Len(c) + 1 /\ r[Len(c) + 1] = f
        /\ \A d \in 1 .. Len(c) : r[d] = c[d]
        /\ stack'[t] = s
    BY PushShape DEF SeqsOK, CtlOK, BelowKeep
  <1>2. Fitting(f) /\ \A d : PairedAt(f, d)
    BY DEF Fitting, PairedAt
  <1> HIDE DEF c, r, s
  <1>3. /\ Lodged(c, s) => Lodged(r, s)
        /\ Accounted(c, s) => Accounted(r, s)
        /\ AllFitting(c) => AllFitting(r)
    BY <1>1, <1>2, AppendLodged
  <1>4. PairedIn(c) => PairedIn(r)
    <2>1. \A d \in 1 .. Len(r) : d = Len(c) + 1 \/ (d \in 1 .. Len(c) /\ r[d] = c[d])
      BY <1>1
    <2>2. QED BY <1>1, <1>2, <2>1 DEF PairedIn
  <1>5. StackInv(t)'
    BY <1>1, <1>3 DEF StackInv, NoEmptyPop, c, r, s
  <1>6. PairInv(t) => PairInv(t)'
    BY <1>1, <1>3, <1>4 DEF PairInv, c, r, s
  <1>7. QED BY <1>5, <1>6

LEMMA DroppedPaired ==
  ASSUME NEW t \in Threads, SeqsOK(t), ctl[t] # <<>>, ctl' = Drop(t),
         stack' = stack, fault' = fault, StackInv(t)
  PROVE  /\ StackInv(t)'
         /\ PairInv(t) /\ (~ Owed(Top(t)) \/ Top(t).pt \notin CallPts) => PairInv(t)'
  <1> DEFINE c == ctl[t]
             r == ctl'[t]
             s == stack[t]
  <1>1. /\ c \in Seq(Frame) /\ r \in Seq(Frame) /\ s \in Seq(Handle)
        /\ Len(c) \in Nat \ {0} /\ Len(r) = Len(c) - 1
        /\ \A d \in 1 .. Len(c) - 1 : r[d] = c[d]
        /\ stack'[t] = s /\ Top(t) = c[Len(c)]
    BY DropShape DEF SeqsOK, CtlOK, BelowKeep, Top
  <1> HIDE DEF c, r, s
  <1>2. /\ Lodged(c, s) => Lodged(r, s)
        /\ Accounted(c, s) /\ (~ Owed(c[Len(c)]) \/ c[Len(c)].pt \notin CallPts)
              => Accounted(r, s)
        /\ AllFitting(c) => AllFitting(r)
    BY <1>1, RemoveLodged
  <1>3. PairedIn(c) => PairedIn(r)
    <2>1. \A d \in 1 .. Len(r) : d \in 1 .. Len(c) /\ r[d] = c[d]
      BY <1>1
    <2>2. QED BY <2>1 DEF PairedIn
  <1>4. StackInv(t)'
    BY <1>1, <1>2 DEF StackInv, NoEmptyPop, c, r, s
  <1>5. PairInv(t) /\ (~ Owed(Top(t)) \/ Top(t).pt \notin CallPts) => PairInv(t)'
    BY <1>1, <1>2, <1>3 DEF PairInv, c, r, s
  <1>6. QED BY <1>4, <1>5

LEMMA ChangedPaired ==
  ASSUME NEW t \in Threads, SeqsOK(t), ctl[t] # <<>>, NEW f \in Frame, ctl' = Replace(t, f),
         stack' = stack, fault' # "pop", StackInv(t),
         f.pt = Top(t).pt, Fitting(f), Owed(f) <=> Owed(Top(t)),
         f.kind = "exit" => f.handle = NoHandle \/ (Top(t).kind = "exit" /\ f.handle = Top(t).handle)
  PROVE  StackInv(t)' /\ (PairInv(t) => PairInv(t)')
  <1> DEFINE c == ctl[t]
             r == ctl'[t]
             s == stack[t]
  <1>1. /\ c \in Seq(Frame) /\ r \in Seq(Frame) /\ s \in Seq(Handle)
        /\ Len(c) \in Nat \ {0} /\ Len(r) = Len(c) /\ r[Len(c)] = f
        /\ \A d \in 1 .. Len(c) - 1 : r[d] = c[d]
        /\ stack'[t] = s /\ Top(t) = c[Len(c)]
    BY ReplaceShape DEF SeqsOK, CtlOK, BelowKeep, Top
  <1> HIDE DEF c, r, s
  <1>2. /\ Lodged(c, s) => Lodged(r, s)
        /\ Accounted(c, s) => Accounted(r, s)
        /\ AllFitting(c) => AllFitting(r)
    BY <1>1, ChangeLodged
  <1>3. PairedIn(c) => PairedIn(r)
    <2>1. \A d \in 1 .. Len(r) : d \in 1 .. Len(c) /\ (d = Len(c) \/ r[d] = c[d])
      BY <1>1
    <2>2. \A d : PairedAt(Top(t), d) => PairedAt(f, d)
      BY DEF PairedAt
    <2>3. QED BY <1>1, <2>1, <2>2 DEF PairedIn
  <1>4. StackInv(t)'
    BY <1>1, <1>2 DEF StackInv, NoEmptyPop, c, r, s
  <1>5. PairInv(t) => PairInv(t)'
    BY <1>1, <1>2, <1>3 DEF PairInv, c, r, s
  <1>6. QED BY <1>4, <1>5

\* The pop of wrapper_exit, the first one or one of the loop.
LEMMA PoppedPaired ==
  ASSUME NEW t \in Threads, SeqsOK(t), ctl[t] # <<>>, StackInv(t), fault' = fault,
         NEW f \in Frame, f.kind = "exit", Top(t).kind = "exit", f.pt = Top(t).pt, f.traced,
         Owed(Top(t)), ctl' = Replace(t, f), stack' = PopStack(t),
         f.handle = TopHandle(t), f.pc \in {"retval", "payload"}
  PROVE  StackInv(t)' /\ (PairInv(t) => PairInv(t)')
  <1> DEFINE c == ctl[t]
             r == ctl'[t]
             s == stack[t]
             q == stack'[t]
             h == s[Len(s)]
  <1>1. /\ c \in Seq(Frame) /\ r \in Seq(Frame) /\ s \in Seq(Handle)
        /\ Len(c) \in Nat \ {0} /\ Len(r) = Len(c) /\ r[Len(c)] = f
        /\ \A d \in 1 .. Len(c) - 1 : r[d] = c[d]
        /\ Top(t) = c[Len(c)]
    BY ReplaceShape DEF SeqsOK, CtlOK, BelowKeep, Top
  <1>2. /\ Len(s) \in Nat \ {0}
        /\ h = [pt |-> c[Len(c)].pt, at |-> Len(c)] \/ h.at > Len(c)
    <2> HIDE DEF c, s
    <2>1. Owed(c[Len(c)]) /\ Lodged(c, s)
      BY <1>1 DEF StackInv, c, s
    <2>2. QED BY <1>1, <2>1, PopLodged
  <1>3. h \in Handle /\ h.at # 0 /\ h # NoHandle
    <2>1. h \in Handle /\ Len(s) \in 1 .. Len(s)
      BY <1>1, <1>2
    <2>2. h.at # 0
      BY <2>1 DEF StackInv, Proper
    <2>3. QED BY <2>1, <2>2 DEF NoHandle
  <1>4. q = SubSeq(s, 1, Len(s) - 1) /\ f.handle = h
    BY <1>1, <1>2 DEF PopStack, TopHandle, SeqsOK
  <1>5. q \in Seq(Handle) /\ Len(q) = Len(s) - 1 /\ \A i \in 1 .. Len(s) - 1 : q[i] = s[i]
    BY <1>1, <1>2, <1>4
  <1>6. Fitting(f) /\ (Owed(f) <=> h.pt # f.pt)
    BY <1>3, <1>4 DEF Fitting, Owed
  <1>7. f.pt \in CallPts
    BY DEF Frame
  <1> HIDE DEF c, r, s, q, h
  <1>8. h = s[Len(s)]
    BY DEF h
  <1>9. Lodged(c, s) /\ AllFitting(c) /\ Proper(s)
    BY DEF StackInv, c, s
  <1>10. Lodged(r, q) /\ AllFitting(r) /\ Proper(q)
    BY <1>1, <1>2, <1>5, <1>6, <1>8, <1>9, PoppedLodged
  <1>11. StackInv(t)'
    BY <1>10 DEF StackInv, NoEmptyPop, r, q
  <1>12. ASSUME PairInv(t) PROVE PairInv(t)'
    <2>1. Accounted(c, s) /\ InOrder(s) /\ PairedIn(c)
      BY <1>12 DEF PairInv, c, s
    <2>2. /\ Accounted(r, q) /\ InOrder(q)
          /\ IF h.pt = c[Len(c)].pt
               THEN h.at = Len(c)
               ELSE h.pt \in TailPts /\ h.at > Len(c)
      <3>1. /\ r[Len(c)].pt = c[Len(c)].pt /\ c[Len(c)].pt \in CallPts
            /\ Owed(c[Len(c)]) /\ (Owed(r[Len(c)]) <=> s[Len(s)].pt # c[Len(c)].pt)
        BY <1>1, <1>6, <1>7, <1>8
      <3>2. /\ Accounted(r, q) /\ InOrder(q)
            /\ IF s[Len(s)].pt = c[Len(c)].pt
                 THEN s[Len(s)].at = Len(c)
                 ELSE s[Len(s)].pt \in TailPts /\ s[Len(s)].at > Len(c)
        BY <1>1, <1>2, <1>5, <1>9, <2>1, <3>1, PoppedAccounted
      <3>3. QED BY <1>8, <3>2
    <2>3. PairedAt(f, Len(c))
      BY <1>1, <1>4, <2>2 DEF PairedAt
    <2>4. \A d \in 1 .. Len(r) : d \in 1 .. Len(c) /\ (d = Len(c) \/ r[d] = c[d])
      BY <1>1
    <2>5. PairedIn(r)
      BY <1>1, <2>1, <2>3, <2>4 DEF PairedIn
    <2>6. QED BY <2>2, <2>5 DEF PairInv, r, q
  <1>13. QED BY <1>11, <1>12

-----------------------------------------------------------------------------
(***************************************************************************)
(* The steps.                                                              *)
(***************************************************************************)
LEMMA PlainFrames ==
  /\ ~ Owed(NestedFrame) /\ NestedFrame.kind = "nested"
  /\ \A p \in Pts : ~ Owed(EntryFrame(p)) /\ EntryFrame(p).kind = "entry"
  /\ \A p, b : /\ CallFrame(p, b).kind = "call" /\ CallFrame(p, b).pt = p
               /\ Owed(CallFrame(p, b)) <=> b
               /\ ExitFrame(p, b).kind = "exit" /\ ExitFrame(p, b).pt = p
               /\ ExitFrame(p, b).handle = NoHandle /\ ExitFrame(p, b).pc = "check"
               /\ Owed(ExitFrame(p, b)) <=> b
  BY DEF Owed, NestedFrame, EntryFrame, CallFrame, ExitFrame

LEMMA UserPaired ==
  ASSUME NEW t \in Threads, SeqsOK(t), StackInv(t), UserStep(t)
  PROVE  StackInv(t)' /\ (PairInv(t) /\ ~ Unwind(t) => PairInv(t)')
  <1>1. ASSUME NEW p \in Pts, MakeCall(t, p)
        PROVE  StackInv(t)' /\ (PairInv(t) => PairInv(t)')
    <2>1. /\ EntryFrame(p) \in Frame /\ ~ Owed(EntryFrame(p)) /\ EntryFrame(p).kind = "entry"
          /\ ctl' = Push(t, EntryFrame(p)) /\ stack' = stack /\ fault' = fault
      BY <1>1, FreshFrames, PlainFrames DEF MakeCall
    <2>2. QED BY <2>1, PushedPaired
  <1>2. CASE ReturnToPatch(t)
    <2> DEFINE f == ExitFrame(Top(t).pt, Top(t).traced)
    <2>1. /\ ctl[t] # <<>> /\ Top(t).kind = "call" /\ ctl' = Replace(t, f)
          /\ stack' = stack /\ fault' = fault
      BY <1>2 DEF ReturnToPatch, At
    <2>2. Top(t) \in Frame /\ Top(t).pt \in CallPts /\ Top(t).traced \in BOOLEAN
      BY <2>1, TopOK DEF SeqsOK, Frame
    <2>3. f \in Frame
      BY <2>2, FreshFrames
    <2>4. /\ f.kind = "exit" /\ f.pt = Top(t).pt /\ f.handle = NoHandle /\ f.pc = "check"
          /\ Owed(f) <=> Top(t).traced
      BY PlainFrames
    <2>5. Owed(Top(t)) <=> Top(t).traced
      BY <2>1 DEF Owed
    <2>6. Fitting(f)
      BY <2>4 DEF Fitting
    <2>7. fault' # "pop"
      BY <2>1 DEF StackInv, NoEmptyPop
    <2> HIDE DEF f
    <2>8. QED BY <2>1, <2>3, <2>4, <2>5, <2>6, <2>7, ChangedPaired
  <1>3. CASE Interrupt(t)
    <2>1. /\ NestedFrame \in Frame /\ ~ Owed(NestedFrame) /\ NestedFrame.kind = "nested"
          /\ ctl' = Push(t, NestedFrame) /\ stack' = stack /\ fault' = fault
      BY <1>3, FreshFrames, PlainFrames DEF Interrupt
    <2>2. QED BY <2>1, PushedPaired
  <1>4. CASE Resume(t)
    <2>1. /\ ctl[t] # <<>> /\ Top(t).kind = "nested" /\ ctl' = Drop(t)
          /\ stack' = stack /\ fault' = fault
      BY <1>4 DEF Resume, At
    <2>2. ~ Owed(Top(t))
      BY <2>1 DEF Owed
    <2>3. QED BY <2>1, <2>2, DroppedPaired
  <1>5. CASE Unwind(t)
    <2>1. /\ ctl[t] # <<>> /\ ctl' = Drop(t) /\ stack' = stack /\ fault' = fault
      BY <1>5 DEF Unwind, At
    <2>2. QED BY <1>5, <2>1, DroppedPaired
  <1>6. QED BY <1>1, <1>2, <1>3, <1>4, <1>5 DEF UserStep

\* The wrapper of the top frame returns: nothing is owed to it any more, or
\* it goes on as the call.
LEMMA ReturnedPaired ==
  ASSUME NEW t \in Threads, SeqsOK(t), StackInv(t), ctl[t] # <<>>,
         Top(t).kind \in Wrapper, NEW b \in BOOLEAN,
         ctl' = AfterReturn(t, b), stack' = stack, fault' = fault,
         Owed(Top(t)) <=> (b /\ Top(t).kind = "entry")
  PROVE  StackInv(t)' /\ (PairInv(t) => PairInv(t)')
  <1>0. Top(t) \in Frame
    BY TopOK DEF SeqsOK
  <1>1. CASE Top(t).kind = "entry" /\ Top(t).pt \in CallPts
    <2> DEFINE f == CallFrame(Top(t).pt, b)
    <2>1. ctl' = Replace(t, f) /\ f \in Frame
      BY <1>1, FreshFrames DEF AfterReturn
    <2>2. f.kind = "call" /\ f.pt = Top(t).pt /\ (Owed(f) <=> b)
      BY PlainFrames
    <2>3. Fitting(f)
      BY <2>2 DEF Fitting
    <2>4. fault' # "pop" /\ (Owed(f) <=> Owed(Top(t)))
      BY <1>1, <2>2 DEF StackInv, NoEmptyPop
    <2> HIDE DEF f
    <2>5. QED BY <2>1, <2>2, <2>3, <2>4, ChangedPaired
  <1>2. CASE ~ (Top(t).kind = "entry" /\ Top(t).pt \in CallPts)
    <2>1. ctl' = Drop(t)
      BY <1>2 DEF AfterReturn
    <2>2. ~ Owed(Top(t)) \/ Top(t).pt \notin CallPts
      BY <1>2
    <2>3. QED BY <2>1, <2>2, DroppedPaired
  <1>3. QED BY <1>1, <1>2

\* A step within a wrapper that keeps the stack, and the handle in hand.
LEMMA MovedPaired ==
  ASSUME NEW t \in Threads, SeqsOK(t), StackInv(t), ctl[t] # <<>>,
         Top(t).kind \in Wrapper, NEW pc, [Top(t) EXCEPT !.pc = pc] \in Frame,
         ctl' = Goto(t, pc), stack' = stack, fault' # "pop",
         Top(t).kind = "entry" => Top(t).pc # "dtor" /\ pc # "dtor",
         Top(t).kind = "exit" =>
           \/ Top(t).pc \in {"check", "ctor", "set"} /\ pc \in {"ctor", "set", "pop"}
           \/ /\ Top(t).pc \notin {"check", "ctor", "set", "pop"}
              /\ pc \notin {"check", "ctor", "set", "pop"}
              /\ pc = "dtor" => Top(t).handle.pt = Top(t).pt
  PROVE  StackInv(t)' /\ (PairInv(t) => PairInv(t)')
  <1> DEFINE f == [Top(t) EXCEPT !.pc = pc]
  <1>0. Top(t) \in Frame /\ CtlOK
    BY TopOK DEF SeqsOK
  <1>1. /\ f.kind = Top(t).kind /\ f.traced = Top(t).traced /\ f.pt = Top(t).pt
        /\ f.handle = Top(t).handle /\ f.pc = pc /\ f \in Frame
    BY <1>0 DEF Frame
  <1>2. ctl' = Replace(t, f)
    BY DEF Goto
  <1> HIDE DEF f
  <1>3. Owed(f) <=> Owed(Top(t))
    BY <1>1 DEF Owed, Wrapper
  <1>4. Fitting(Top(t))
    <2>1. Len(ctl[t]) \in 1 .. Len(ctl[t])
      BY <1>0 DEF CtlOK
    <2>2. QED BY <2>1 DEF StackInv, AllFitting, Top
  <1>5. Fitting(f)
    BY <1>1, <1>4 DEF Fitting
  <1>6. QED BY <1>1, <1>2, <1>3, <1>5, ChangedPaired

LEMMA WrapperPaired ==
  ASSUME NEW t \in Threads, ThreadInv(t), TypeOK', StackInv(t), WrapperStep(t)
  PROVE  StackInv(t)' /\ (PairInv(t) => PairInv(t)')
  <1> DEFINE f == Top(t)
  <1>0. SeqsOK(t) /\ CtlOK /\ CtlOK' /\ GuardCtx(t)
    BY DEF ThreadInv, TypeOK, CtlOK, SeqsOK
  <1>1. /\ ctl[t] # <<>> /\ f \in Frame /\ f.kind \in Wrapper
        /\ f.kind = "exit" => f.pt \in CallPts
    <2>1. ctl[t] # <<>> /\ f.kind \in Wrapper
      BY DEF WrapperStep, Check, CtorTest, CtorSet, Dtor, LockAt, LockCallee,
         UnlockCallee, EntryPayloadDone, PushHandle, PopHandle, LockRetVal,
         UnlockRetVal, ExitPayloadDone, LockInPayload, UnlockInPayload, At, Wrapper
    <2>2. QED BY <1>0, <2>1, TopOK DEF Frame
  <1>2. Fitting(f)
    <2>1. Len(ctl[t]) \in 1 .. Len(ctl[t])
      BY <1>0, <1>1 DEF CtlOK
    <2>2. QED BY <2>1 DEF StackInv, AllFitting, Top
  <1>3. f.kind = "exit" /\ f.pc \notin {"check", "ctor", "set"} => f.traced
    <2>1. Guarded(f) => ~ Below(t)
      BY <1>0, <1>1, TopFacts
    <2>2. f.kind = "exit" => f.traced \/ Below(t)
      BY <1>0, <1>1, TopFacts, Zenon
    <2>3. QED BY <1>1, <2>1, <2>2 DEF Guarded
  <1>4. fault # "pop" /\ NoThread \notin Threads
    BY ThreadsAssumption DEF StackInv, NoEmptyPop
  <1> HIDE DEF f
  <1>a. ASSUME NEW pc, ctl' = Goto(t, pc), stack' = stack, fault' # "pop",
               f.kind = "entry" => f.pc # "dtor" /\ pc # "dtor",
               f.kind = "exit" =>
                 \/ f.pc \in {"check", "ctor", "set"} /\ pc \in {"ctor", "set", "pop"}
                 \/ /\ f.pc \notin {"check", "ctor", "set", "pop"}
                    /\ pc \notin {"check", "ctor", "set", "pop"}
                    /\ pc = "dtor" => f.handle.pt = f.pt
        PROVE  StackInv(t)' /\ (PairInv(t) => PairInv(t)')
    <2>1. [Top(t) EXCEPT !.pc = pc] \in Frame
      <3> DEFINE g == [Top(t) EXCEPT !.pc = pc]
      <3>1. ctl' = Replace(t, g)
        BY <1>a DEF Goto
      <3> HIDE DEF g
      <3>2. g \in Frame
        BY <1>0, <1>1, <3>1, ReplacedOK
      <3>3. QED BY <3>2 DEF g
    <2>2. QED BY <1>0, <1>1, <1>a, <2>1, MovedPaired DEF f
  <1>5. CASE Check(t)
    <2>1. CASE inTramp
      <3>1. ~ Owed(f)
        <4>1. f.kind = "exit" => ~ f.traced
          <5>1. f.pc = "check" /\ ~ Guarded(f)
            BY <1>5 DEF Check, At, Guarded, f
          <5>2. Below(t)
            BY <1>0, <1>1, <2>1, <5>1, TopFacts DEF f
          <5>3. f.kind = "exit" => (f.traced => ~ Below(t))
            BY <1>0, <1>1, TopFacts, Zenon DEF f
          <5>4. QED BY <5>2, <5>3
        <4>2. QED BY <1>1, <1>5, <4>1 DEF Owed, Check, At, Wrapper, f
      <3>2. QED BY <1>0, <1>1, <1>5, <2>1, <3>1, ReturnedPaired DEF Check, f
    <2>2. CASE ~ inTramp
      BY <1>1, <1>4, <1>5, <2>2, <1>a DEF Check, At, Wrapper, f
    <2>3. QED BY <2>1, <2>2
  <1>6. CASE CtorTest(t)
    <2>1. ctl' = Goto(t, "set") /\ fault' = fault
      <3>1. ~ inTramp
        BY <1>0, <1>1, <1>6, TopFacts DEF CtorTest, At, Raising, Guarded, f
      <3>2. QED BY <1>6, <3>1 DEF CtorTest
    <2>2. QED BY <1>1, <1>4, <1>6, <2>1, <1>a DEF CtorTest, At, Wrapper, f
  <1>7. CASE CtorSet(t)
    BY <1>1, <1>4, <1>7, <1>a DEF CtorSet, At, Wrapper, f
  <1>8. CASE Dtor(t)
    <2>1. Owed(f) <=> f.kind = "entry"
      BY <1>1, <1>2, <1>8 DEF Owed, Fitting, Dtor, At, Wrapper, f
    <2>2. QED BY <1>0, <1>1, <1>8, <2>1, ReturnedPaired DEF Dtor, f
  <1>9. CASE LockCallee(t)
    BY <1>1, <1>4, <1>9, <1>a DEF LockCallee, LockAt, At, f
  <1>10. CASE UnlockCallee(t)
    BY <1>1, <1>4, <1>10, <1>a DEF UnlockCallee, At, f
  <1>11. CASE EntryPayloadDone(t)
    BY <1>1, <1>4, <1>11, <1>a DEF EntryPayloadDone, At, f
  <1>12. CASE LockRetVal(t)
    BY <1>1, <1>4, <1>12, <1>a DEF LockRetVal, LockAt, At, f
  <1>13. CASE UnlockRetVal(t)
    <2>1. f.handle # NoHandle
      BY <1>2, <1>13 DEF UnlockRetVal, At, Fitting, f
    <2>2. QED BY <1>1, <1>4, <1>13, <2>1, <1>a DEF UnlockRetVal, At, f
  <1>14. CASE LockInPayload(t)
    BY <1>1, <1>4, <1>14, <1>a DEF LockInPayload, LockAt, At, Wrapper, f
  <1>15. CASE UnlockInPayload(t)
    BY <1>1, <1>4, <1>15, <1>a DEF UnlockInPayload, At, Wrapper, f
  <1>16. CASE PushHandle(t)
    <2> DEFINE c == ctl[t]
               r == ctl'[t]
               s == stack[t]
               q == stack'[t]
               g == [Top(t) EXCEPT !.pc = "dtor"]
    <2>1. /\ f.kind = "entry" /\ f.pc = "push" /\ ctl' = Replace(t, g)
          /\ q = Append(s, [pt |-> f.pt, at |-> Len(c)])
          /\ fault' = fault
      BY <1>0, <1>16 DEF PushHandle, At, Goto, Depth, SeqsOK, f
    <2>2. g.kind = "entry" /\ g.pc = "dtor" /\ g.pt = f.pt /\ g \in Frame
      <3>1. g.kind = "entry" /\ g.pc = "dtor" /\ g.pt = f.pt
        BY <1>1, <2>1 DEF Frame, f
      <3> HIDE DEF g
      <3>2. QED BY <1>0, <1>1, <2>1, <3>1, ReplacedOK
    <2> HIDE DEF g
    <2>3. /\ c \in Seq(Frame) /\ r \in Seq(Frame) /\ s \in Seq(Handle)
          /\ Len(c) \in Nat \ {0} /\ Len(r) = Len(c) /\ r[Len(c)] = g
          /\ \A d \in 1 .. Len(c) - 1 : r[d] = c[d]
          /\ f = c[Len(c)]
      BY <1>0, <1>1, <2>1, <2>2, ReplaceShape DEF SeqsOK, CtlOK, BelowKeep, Top, f
    <2>4. [pt |-> f.pt, at |-> Len(c)] \in Handle
      BY <1>1, <2>1, <2>3 DEF Frame, Handle
    <2>5. /\ q \in Seq(Handle) /\ Len(q) = Len(s) + 1 /\ \A i \in 1 .. Len(s) : q[i] = s[i]
          /\ q[Len(s) + 1] = [pt |-> f.pt, at |-> Len(c)]
      BY <2>1, <2>3, <2>4
    <2>6. ~ Owed(f) /\ Owed(g) /\ Fitting(g)
      BY <2>1, <2>2 DEF Owed, Fitting
    <2> HIDE DEF c, r, s, q
    <2>7. /\ Lodged(c, s) => Lodged(r, q)
          /\ Accounted(c, s) /\ InOrder(s) => Accounted(r, q) /\ InOrder(q)
          /\ AllFitting(c) => AllFitting(r)
          /\ Proper(s) => Proper(q)
      BY <2>2, <2>3, <2>5, <2>6, PushLodged
    <2>8. PairedIn(c) => PairedIn(r)
      <3>1. \A d \in 1 .. Len(r) : d \in 1 .. Len(c) /\ (d = Len(c) \/ r[d] = c[d])
        BY <2>3
      <3>2. \A d : PairedAt(g, d)
        BY <2>2 DEF PairedAt
      <3>3. QED BY <2>3, <3>1, <3>2 DEF PairedIn
    <2>9. StackInv(t)'
      BY <2>1, <2>7 DEF StackInv, NoEmptyPop, c, r, s, q
    <2>10. PairInv(t) => PairInv(t)'
      BY <2>7, <2>8 DEF PairInv, c, r, s, q
    <2>11. QED BY <2>9, <2>10
  <1>17. CASE PopHandle(t)
    <2> DEFINE g == [Top(t) EXCEPT !.pc = "retval", !.handle = TopHandle(t)]
    <2>1. /\ f.kind = "exit" /\ f.pc = "pop" /\ ctl' = Replace(t, g)
          /\ stack' = PopStack(t) /\ fault' = fault
      BY <1>17 DEF PopHandle, At, f
    <2>2. f.traced /\ f.handle = NoHandle /\ Owed(f)
      BY <1>2, <1>3, <2>1 DEF Fitting, Owed
    <2>3. /\ g.kind = "exit" /\ g.pt = f.pt /\ g.traced = f.traced
          /\ g.handle = TopHandle(t) /\ g.pc = "retval"
      BY <1>1, <2>1 DEF Frame, f
    <2> HIDE DEF g
    <2>4. g \in Frame
      BY <1>0, <1>1, <2>1, ReplacedOK
    <2>5. QED BY <1>0, <1>1, <2>1, <2>2, <2>3, <2>4, PoppedPaired DEF f
  <1>18. CASE ExitPayloadDone(t)
    <2>1. CASE f.handle.pt = f.pt
      BY <1>1, <1>4, <1>18, <2>1, <1>a DEF ExitPayloadDone, At, f
    <2>2. CASE f.handle.pt # f.pt
      <3> DEFINE g == [Top(t) EXCEPT !.handle = TopHandle(t)]
      <3>1. f.kind = "exit" /\ f.pc = "payload" /\ f.traced /\ Owed(f)
        BY <1>1, <1>3, <1>18, <2>2 DEF ExitPayloadDone, At, Owed, f
      <3>2. stack[t] # <<>>
        <4>1. Len(ctl[t]) \in Nat \ {0} /\ ctl[t] \in Seq(Frame) /\ stack[t] \in Seq(Handle)
              /\ f = ctl[t][Len(ctl[t])]
          BY <1>0, <1>1 DEF SeqsOK, CtlOK, Top, f
        <4>2. Len(stack[t]) \in Nat \ {0}
          BY <3>1, <4>1, PopLodged DEF StackInv
        <4>3. QED BY <4>1, <4>2
      <3>3. ctl' = Replace(t, g) /\ stack' = PopStack(t) /\ fault' = fault
        BY <1>18, <2>2, <3>2 DEF ExitPayloadDone, f
      <3>4. /\ g.kind = "exit" /\ g.pt = f.pt /\ g.traced = f.traced
            /\ g.handle = TopHandle(t) /\ g.pc = "payload"
        BY <1>1, <3>1 DEF Frame, f
      <3> HIDE DEF g
      <3>5. g \in Frame
        BY <1>0, <1>1, <3>3, ReplacedOK
      <3>6. QED BY <1>0, <1>1, <3>1, <3>3, <3>4, <3>5, PoppedPaired DEF f
    <2>3. QED BY <2>1, <2>2
  <1>19. QED BY <1>5, <1>6, <1>7, <1>8, <1>9, <1>10, <1>11, <1>12, <1>13, <1>14,
                <1>15, <1>16, <1>17, <1>18 DEF WrapperStep

-----------------------------------------------------------------------------
(***************************************************************************)
(* The theorems.                                                           *)
(***************************************************************************)
PopInv == GuardInv /\ NoEmptyPop /\ \A t \in Threads : StackInv(t)

AllReturnInv == PopInv /\ (unwound \/ \A t \in Threads : PairInv(t))

LEMMA InitPairing ==
  ASSUME Init PROVE PopInv /\ \A t \in Threads : PairInv(t)
  <1>1. GuardInv /\ NoEmptyPop
    BY InitGuardInv DEF Init, NoEmptyPop
  <1>2. ASSUME NEW t \in Threads PROVE StackInv(t) /\ PairInv(t)
    <2>1. Len(ctl[t]) = 0 /\ Len(stack[t]) = 0
      BY DEF Init
    <2>2. QED BY <1>1, <2>1 DEF StackInv, PairInv, AllFitting, Lodged, Proper,
              Accounted, InOrder, PairedIn
  <1>3. QED BY <1>1, <1>2 DEF PopInv

\* What a step of one thread does to its invariants, it does to all.
LEMMA ThreadStep ==
  ASSUME OneThread, PopInv, NEW t \in Threads, WrapperStep(t) \/ UserStep(t),
         fault = "none"
  PROVE  /\ PopInv'
         /\ PairInv(t) /\ ~ Unwind(t) => \A u \in Threads : PairInv(u)'
  <1>1. GuardInv'
    BY StepGuardInv DEF PopInv, Next
  <1>2. ThreadInv(t) /\ TypeOK' /\ StackInv(t) /\ SeqsOK(t)
    BY <1>1, InvOfThread DEF PopInv, GuardInv, SeqsOK, TypeOK, CtlOK
  <1>3. StackInv(t)' /\ (PairInv(t) /\ ~ Unwind(t) => PairInv(t)')
    <2>1. CASE WrapperStep(t)
      BY <1>2, <2>1, WrapperPaired
    <2>2. CASE UserStep(t)
      BY <1>2, <2>2, UserPaired
    <2>3. QED BY <2>1, <2>2
  <1>4. NoEmptyPop' /\ \A u \in Threads : u = t
    BY <1>3 DEF StackInv, OneThread
  <1>5. (\A u \in Threads : StackInv(u)')
    BY <1>3, <1>4
  <1>6. PairInv(t) /\ ~ Unwind(t) => \A u \in Threads : PairInv(u)'
    BY <1>3, <1>4
  <1>7. QED BY <1>1, <1>4, <1>5, <1>6 DEF PopInv

LEMMA StutterPairing ==
  ASSUME UNCHANGED vars
  PROVE  /\ PopInv => PopInv'
         /\ \A t \in Threads : PairInv(t) => PairInv(t)'
  <1>1. ASSUME NEW t \in Threads
        PROVE  (StackInv(t) => StackInv(t)') /\ (PairInv(t) => PairInv(t)')
    BY DEF vars, StackInv, PairInv, NoEmptyPop
  <1>2. GuardInv => GuardInv'
    BY DEF vars, GuardInv, TypeOK, FlagTells, QuietAbove, TracedApart, OwnerHolds, NoGuardFault
  <1>3. QED BY <1>1, <1>2 DEF PopInv, NoEmptyPop, vars

\* With one thread wrapper_exit never finds the shadow stack empty, neither
\* for its first handle nor while it drains (payload.cc:189, 218), also when
\* longjmp or an exception has left calls without their exit.
THEOREM NoEmptyPopOneThread ==
  ASSUME OneThread PROVE Spec => []NoEmptyPop
  <1>1. Init => PopInv
    BY InitPairing
  <1>2. PopInv /\ [Next]_vars => PopInv'
    BY ThreadStep, StutterPairing DEF Next
  <1>3. PopInv => NoEmptyPop
    BY DEF PopInv
  <1>4. QED BY <1>1, <1>2, <1>3, PTL DEF Spec

LEMMA StepAllReturn ==
  ASSUME OneThread PROVE AllReturnInv /\ [MCNext]_<<vars, unwound>> => AllReturnInv'
  <1> SUFFICES ASSUME AllReturnInv, [MCNext]_<<vars, unwound>> PROVE AllReturnInv'
    OBVIOUS
  <1>1. CASE UNCHANGED <<vars, unwound>>
    <2>1. UNCHANGED vars /\ unwound' = unwound
      BY <1>1
    <2>2. QED BY <2>1, StutterPairing DEF AllReturnInv
  <1>2. CASE MCNext
    <2>1. PICK t \in Threads : WrapperStep(t) \/ UserStep(t)
      BY <1>2 DEF MCNext, Next
    <2>2. fault = "none" /\ PopInv
      BY <1>2 DEF MCNext, Next, AllReturnInv
    <2>3. PopInv' /\ (PairInv(t) /\ ~ Unwind(t) => \A u \in Threads : PairInv(u)')
      BY <2>1, <2>2, ThreadStep
    <2>4. unwound' \/ (~ unwound /\ ~ Unwind(t))
      BY <1>2 DEF MCNext
    <2>5. unwound' \/ \A u \in Threads : PairInv(u)'
      BY <2>3, <2>4 DEF AllReturnInv
    <2>6. QED BY <2>3, <2>5 DEF AllReturnInv
  <1>3. QED BY <1>1, <1>2

LEMMA AllReturnInvHolds == ASSUME OneThread PROVE MCSpec => []AllReturnInv
  <1>1. MCInit => AllReturnInv
    BY InitPairing DEF MCInit, AllReturnInv
  <1>2. QED BY <1>1, StepAllReturn, PTL DEF MCSpec

\* With one thread each exit payload gets the handle its own entry wrapper has
\* pushed, or, in wrapper_exit's while loop, that of a tail call made later,
\* as long as user code returns from its calls.
THEOREM PairedOneThread ==
  ASSUME OneThread PROVE MCSpec => []PairedIfAllReturn
  <1>1. AllReturnInv => PairedIfAllReturn
    BY DEF AllReturnInv, PairInv, PairedIn, PairedAt, PairedIfAllReturn, Paired, Depth
  <1>2. QED BY <1>1, AllReturnInvHolds, PTL

\* With one thread the shadow stack lists the calls in progress, and apart
\* from tail calls nothing else, in the order they were made
\* (PushPointCallHandle, PopPointCallHandle), as long as calls return.
THEOREM MirrorsOneThread ==
  ASSUME OneThread PROVE MCSpec => []MirrorsIfAllReturn
  <1>1. ASSUME AllReturnInv, ~ unwound PROVE ShadowMirrorsCalls
    <2> SUFFICES ASSUME NEW t \in Threads
                 PROVE
      /\ \A d \in 1 .. Depth(t) :
           Open(t, d) => \E i \in 1 .. Len(stack[t]) :
                            stack[t][i] = [pt |-> ctl[t][d].pt, at |-> d]
      /\ \A i \in 1 .. Len(stack[t]) : stack[t][i].pt \in CallPts =>
           /\ stack[t][i].at <= Depth(t)
           /\ \/ Open(t, stack[t][i].at)
              \/ /\ ctl[t][stack[t][i].at].kind = "entry"
                 /\ ctl[t][stack[t][i].at].pc = "dtor"
           /\ ctl[t][stack[t][i].at].pt = stack[t][i].pt
      /\ InOrder(stack[t])
      BY DEF ShadowMirrorsCalls, InOrder
    <2>1. Lodged(ctl[t], stack[t]) /\ Accounted(ctl[t], stack[t]) /\ InOrder(stack[t])
      BY <1>1 DEF AllReturnInv, PopInv, StackInv, PairInv
    <2>2. Len(ctl[t]) \in Nat
      BY <1>1 DEF AllReturnInv, PopInv, GuardInv, TypeOK
    <2>3. ASSUME NEW d PROVE Owed(ctl[t][d]) <=>
             \/ Open(t, d)
             \/ ctl[t][d].kind = "entry" /\ ctl[t][d].pc = "dtor"
      BY DEF Owed, Open
    <2>4. \A d \in 1 .. Depth(t) :
            Open(t, d) => \E i \in 1 .. Len(stack[t]) :
                             stack[t][i] = [pt |-> ctl[t][d].pt, at |-> d]
      BY <2>1, <2>3 DEF Lodged, Depth
    <2>5. \A i \in 1 .. Len(stack[t]) : stack[t][i].pt \in CallPts =>
             /\ stack[t][i].at <= Depth(t)
             /\ \/ Open(t, stack[t][i].at)
                \/ /\ ctl[t][stack[t][i].at].kind = "entry"
                   /\ ctl[t][stack[t][i].at].pc = "dtor"
             /\ ctl[t][stack[t][i].at].pt = stack[t][i].pt
      BY <2>1, <2>2, <2>3 DEF Accounted, Depth
    <2>6. QED BY <2>1, <2>4, <2>5
  <1>2. AllReturnInv => MirrorsIfAllReturn
    BY <1>1 DEF MirrorsIfAllReturn
  <1>3. QED BY <1>2, AllReturnInvHolds, PTL

-----------------------------------------------------------------------------
(***************************************************************************)
(* The registers a snippet points at.                                      *)
(***************************************************************************)
\* A wrapper, at whatever depth, would read what its own patch area saved, or
\* what was saved on top of it.
OwnContext ==
  \A t \in Threads : \A d \in 1 .. Len(ctl[t]) :
    ctl[t][d].kind \in Wrapper =>
      Mine(saved[ctl[t][d].pt], t, d, ctl[t][d].kind)

LEMMA MineAtOnce ==
  ASSUME NEW t, NEW d, NEW kind
  PROVE  Mine(Context(t, d, kind), t, d, kind)
  BY DEF Mine

LEMMA MineFromAbove ==
  ASSUME NEW t, NEW at \in Nat, NEW d \in Nat, d < at, NEW on, NEW kind
  PROVE  Mine(Context(t, at, on), t, d, kind)
  BY DEF Mine, Context

LEMMA StepOwnContext ==
  ASSUME OneThread, TypeOK, TypeOK', OwnContext, NEW t \in Threads,
         WrapperStep(t) \/ UserStep(t)
  PROVE  OwnContext'
  <1>1. CtlOK /\ CtlOK' /\ saved \in [Pts -> Contexts]
    BY DEF TypeOK, CtlOK
  <1> DEFINE n == Len(ctl[t])
  <1>2. \A d \in 1 .. n : ctl[t][d].kind \in Wrapper =>
           ctl[t][d].pt \in Pts /\ Mine(saved[ctl[t][d].pt], t, d, ctl[t][d].kind)
    <2> SUFFICES ASSUME NEW d \in 1 .. n, ctl[t][d].kind \in Wrapper
                 PROVE  ctl[t][d].pt \in Pts /\ Mine(saved[ctl[t][d].pt], t, d, ctl[t][d].kind)
      OBVIOUS
    <2>1. Mine(saved[ctl[t][d].pt], t, d, ctl[t][d].kind)
      BY DEF OwnContext
    <2>2. ctl[t][d] \in Frame
      BY <1>1 DEF CtlOK
    <2>3. QED BY <2>1, <2>2 DEF Frame, Wrapper, Pts
  <1>a. SUFFICES \A d \in 1 .. Len(ctl'[t]) :
                   ctl'[t][d].kind \in Wrapper => Mine(saved'[ctl'[t][d].pt], t, d, ctl'[t][d].kind)
    BY DEF OwnContext, OneThread
  <1>3. ASSUME NEW p \in Pts, MakeCall(t, p)
        PROVE  \A d \in 1 .. Len(ctl'[t]) :
                   ctl'[t][d].kind \in Wrapper => Mine(saved'[ctl'[t][d].pt], t, d, ctl'[t][d].kind)
    <2>1. /\ n \in Nat /\ Len(ctl'[t]) = n + 1
          /\ ctl'[t][n + 1] = EntryFrame(p)
          /\ \A d \in 1 .. n : ctl'[t][d] = ctl[t][d]
      BY <1>1, <1>3, FreshFrames, PushShape DEF MakeCall, BelowKeep
    <2>2. EntryFrame(p).pt = p /\ EntryFrame(p).kind = "entry"
      BY DEF EntryFrame
    <2>3. PICK c : c = Context(t, n + 1, "entry")
      OBVIOUS
    <2>4. \A q \in Pts : saved'[q] = IF q = p THEN c ELSE saved[q]
      BY <1>1, <1>3, <2>3 DEF MakeCall, EmitSave, Depth
    <2>5. Mine(c, t, n + 1, "entry")
      BY <2>3, MineAtOnce
    <2>6. ASSUME NEW d \in 1 .. n, NEW kind PROVE Mine(c, t, d, kind)
      <3>1. d \in Nat /\ n + 1 \in Nat /\ d < n + 1
        BY <2>1
      <3>2. QED BY <2>3, <3>1, MineFromAbove
    <2> SUFFICES ASSUME NEW d \in 1 .. n + 1, ctl'[t][d].kind \in Wrapper
                 PROVE  Mine(saved'[ctl'[t][d].pt], t, d, ctl'[t][d].kind)
      BY <2>1
    <2>7. CASE d = n + 1
      BY <2>1, <2>2, <2>4, <2>5, <2>7
    <2>8. CASE d # n + 1
      <3>1. d \in 1 .. n
        BY <2>1, <2>8
      <3>2. ctl'[t][d] = ctl[t][d]
        BY <2>1, <3>1
      <3>3. /\ ctl[t][d].pt \in Pts
            /\ Mine(saved[ctl[t][d].pt], t, d, ctl[t][d].kind)
        BY <1>2, <3>1, <3>2
      <3>4. Mine(c, t, d, ctl[t][d].kind)
        BY <2>6, <3>1
      <3>5. saved'[ctl[t][d].pt] \in {c, saved[ctl[t][d].pt]}
        BY <2>4, <3>3
      <3>6. QED BY <3>2, <3>3, <3>4, <3>5
    <2>9. QED BY <2>7, <2>8
  <1>4. CASE ReturnToPatch(t)
    <2> DEFINE f == ExitFrame(Top(t).pt, Top(t).traced)
    <2>1. /\ ctl[t] # <<>> /\ ctl' = Replace(t, f) /\ f.pt = Top(t).pt /\ Top(t).pt \in Pts
          /\ f.kind = "exit"
      BY <1>1, <1>4, TopOK DEF ReturnToPatch, At, ExitFrame, Frame, Pts
    <2> HIDE DEF f
    <2>2. f \in Frame
      BY <1>1, <2>1, ReplacedOK
    <2>3. /\ n \in Nat \ {0} /\ Len(ctl'[t]) = n /\ ctl'[t][n] = f
          /\ \A d \in 1 .. n - 1 : ctl'[t][d] = ctl[t][d]
      BY <1>1, <2>1, <2>2, ReplaceShape DEF BelowKeep
    <2>a. PICK c : c = Context(t, n, "exit")
      OBVIOUS
    <2>4. \A q \in Pts : saved'[q] = IF q = f.pt THEN c ELSE saved[q]
      BY <1>1, <1>4, <2>1, <2>a DEF ReturnToPatch, EmitSave, Depth
    <2>b. Mine(c, t, n, "exit")
      BY <2>a, MineAtOnce
    <2>c. ASSUME NEW d \in 1 .. n - 1, NEW kind PROVE Mine(c, t, d, kind)
      <3>1. d \in Nat /\ n \in Nat /\ d < n
        BY <2>3
      <3>2. QED BY <2>a, <3>1, MineFromAbove
    <2>5. \A d \in 1 .. n : d = n \/ d \in 1 .. n - 1
      BY <2>3
    <2> SUFFICES ASSUME NEW d \in 1 .. n, ctl'[t][d].kind \in Wrapper
                 PROVE  Mine(saved'[ctl'[t][d].pt], t, d, ctl'[t][d].kind)
      BY <2>3
    <2>6. CASE d = n
      BY <2>1, <2>3, <2>4, <2>6, <2>b
    <2>7. CASE d # n
      <3>1. d \in 1 .. n - 1 /\ ctl'[t][d] = ctl[t][d]
        BY <2>3, <2>5, <2>7
      <3>2. ctl[t][d].pt \in Pts /\ Mine(saved[ctl[t][d].pt], t, d, ctl[t][d].kind)
        BY <1>2, <3>1
      <3>3. Mine(c, t, d, ctl[t][d].kind)
        BY <2>c, <3>1
      <3>4. saved'[ctl[t][d].pt] \in {c, saved[ctl[t][d].pt]}
        BY <2>4, <3>2
      <3>5. QED BY <3>1, <3>2, <3>3, <3>4
    <2>8. QED BY <2>6, <2>7
  <1>5. ASSUME saved' = saved, ctl' = ctl \/ (ctl[t] # <<>> /\ ctl' = Drop(t))
        PROVE  \A d \in 1 .. Len(ctl'[t]) :
                   ctl'[t][d].kind \in Wrapper => Mine(saved'[ctl'[t][d].pt], t, d, ctl'[t][d].kind)
    <2>1. CASE ctl' = ctl
      BY <1>2, <1>5, <2>1
    <2>2. CASE ctl[t] # <<>> /\ ctl' = Drop(t)
      <3>1. /\ n \in Nat \ {0} /\ Len(ctl'[t]) = n - 1
            /\ \A d \in 1 .. n - 1 : d \in 1 .. n /\ ctl'[t][d] = ctl[t][d]
        BY <1>1, <2>2, DropShape DEF BelowKeep
      <3>2. QED BY <1>2, <1>5, <3>1
    <2>3. QED BY <1>5, <2>1, <2>2
  <1>6. ASSUME saved' = saved, ctl[t] # <<>>, NEW f, ctl' = Replace(t, f),
               f.pt = Top(t).pt, f.kind \in Wrapper => Top(t).kind = f.kind
        PROVE  \A d \in 1 .. Len(ctl'[t]) :
                   ctl'[t][d].kind \in Wrapper => Mine(saved'[ctl'[t][d].pt], t, d, ctl'[t][d].kind)
    <2>1. f \in Frame
      BY <1>1, <1>6, ReplacedOK
    <2>2. /\ n \in Nat \ {0} /\ Len(ctl'[t]) = n /\ ctl'[t][n] = f
          /\ \A d \in 1 .. n - 1 : ctl'[t][d] = ctl[t][d]
      BY <1>1, <1>6, <2>1, ReplaceShape DEF BelowKeep
    <2>3. \A d \in 1 .. n : d = n \/ d \in 1 .. n - 1
      BY <2>2
    <2>4. Top(t) = ctl[t][n] /\ n \in 1 .. n
      BY <2>2 DEF Top
    <2>5. QED BY <1>2, <1>6, <2>2, <2>3, <2>4
  <1>7. CASE Interrupt(t)
    <2>1. /\ n \in Nat /\ Len(ctl'[t]) = n + 1
          /\ ctl'[t][n + 1] = NestedFrame
          /\ \A d \in 1 .. n : ctl'[t][d] = ctl[t][d]
      BY <1>1, <1>7, FreshFrames, PushShape DEF Interrupt, BelowKeep
    <2>2. NestedFrame.kind \notin Wrapper
      BY DEF NestedFrame, Wrapper
    <2>3. \A d \in 1 .. n + 1 : d = n + 1 \/ d \in 1 .. n
      BY <2>1
    <2>4. QED BY <1>2, <1>7, <2>1, <2>2, <2>3 DEF Interrupt
  <1>8. CASE Resume(t) \/ Unwind(t)
    BY <1>5, <1>8 DEF Resume, Unwind, At
  <1>9. CASE WrapperStep(t)
    <2>1. ctl[t] # <<>> /\ Top(t) \in Frame /\ saved' = saved
      <3>1. ctl[t] # <<>> /\ saved' = saved
        BY <1>9 DEF WrapperStep, Check, CtorTest, CtorSet, Dtor, LockAt, LockCallee,
           UnlockCallee, EntryPayloadDone, PushHandle, PopHandle, LockRetVal,
           UnlockRetVal, ExitPayloadDone, LockInPayload, UnlockInPayload, At
      <3>2. QED BY <1>1, <3>1, TopOK
    <2>2. ASSUME NEW pc PROVE /\ [Top(t) EXCEPT !.pc = pc].pt = Top(t).pt
                              /\ [Top(t) EXCEPT !.pc = pc].kind = Top(t).kind
      BY <2>1 DEF Frame
    <2>3. ASSUME NEW pc, ctl' = Goto(t, pc)
          PROVE  \A d \in 1 .. Len(ctl'[t]) :
                   ctl'[t][d].kind \in Wrapper => Mine(saved'[ctl'[t][d].pt], t, d, ctl'[t][d].kind)
      BY <1>6, <2>1, <2>2, <2>3 DEF Goto
    <2>4. ASSUME NEW b, ctl' = AfterReturn(t, b)
          PROVE  \A d \in 1 .. Len(ctl'[t]) :
                   ctl'[t][d].kind \in Wrapper => Mine(saved'[ctl'[t][d].pt], t, d, ctl'[t][d].kind)
      <3>1. CallFrame(Top(t).pt, b).pt = Top(t).pt /\ CallFrame(Top(t).pt, b).kind \notin Wrapper
        BY DEF CallFrame, Wrapper
      <3>2. QED BY <1>5, <1>6, <2>1, <2>4, <3>1 DEF AfterReturn
    <2>5. CASE Check(t) \/ CtorTest(t) \/ CtorSet(t) \/ Dtor(t)
      BY <1>5, <2>1, <2>3, <2>4, <2>5 DEF Check, CtorTest, CtorSet, Dtor
    <2>6. CASE LockCallee(t) \/ LockRetVal(t) \/ LockInPayload(t)
               \/ UnlockCallee(t) \/ UnlockInPayload(t) \/ EntryPayloadDone(t) \/ PushHandle(t)
      BY <2>3, <2>6 DEF LockCallee, LockRetVal, LockInPayload, LockAt, UnlockCallee,
         UnlockInPayload, EntryPayloadDone, PushHandle
    <2>7. CASE UnlockRetVal(t)
      BY <1>5, <2>1, <2>3, <2>7 DEF UnlockRetVal
    <2>8. CASE PopHandle(t)
      <3> DEFINE g == [Top(t) EXCEPT !.pc = "retval", !.handle = TopHandle(t)]
      <3>1. g.pt = Top(t).pt /\ g.kind = Top(t).kind /\ ctl' = Replace(t, g)
        BY <2>1, <2>8 DEF Frame, PopHandle
      <3> HIDE DEF g
      <3>2. QED BY <1>6, <2>1, <3>1
    <2>9. CASE ExitPayloadDone(t)
      <3> DEFINE g == [Top(t) EXCEPT !.handle = TopHandle(t)]
      <3>1. g.pt = Top(t).pt /\ g.kind = Top(t).kind
        BY <2>1 DEF Frame
      <3>2. \/ ctl' = Goto(t, "dtor") \/ ctl' = ctl \/ ctl' = Replace(t, g)
        BY <2>9 DEF ExitPayloadDone
      <3> HIDE DEF g
      <3>3. QED BY <1>5, <1>6, <2>1, <2>3, <3>1, <3>2
    <2>10. QED BY <1>9, <2>5, <2>6, <2>7, <2>8, <2>9 DEF WrapperStep
  <1>10. QED BY <1>3, <1>4, <1>7, <1>8, <1>9 DEF UserStep

\* With one thread, a payload, Callee and ReturnValue read the registers that
\* their own patch area saved for them (saved_context_loc_), at any depth of
\* recursion through the same site, unless code on top of the wrapper itself
\* has gone through the site.
THEOREM ContextOfOwnCallOneThread ==
  ASSUME OneThread PROVE Spec => []ContextOfOwnCall
  <1>1. Init => TypeOK /\ OwnContext
    <2> SUFFICES ASSUME Init PROVE TypeOK /\ OwnContext
      OBVIOUS
    <2>1. ASSUME NEW t \in Threads PROVE Len(ctl[t]) = 0
      BY DEF Init
    <2>2. QED BY <2>1, InitTypeOK DEF OwnContext
  <1>2. TypeOK /\ OwnContext /\ [Next]_vars => TypeOK' /\ OwnContext'
    <2> SUFFICES ASSUME TypeOK, OwnContext, [Next]_vars PROVE TypeOK' /\ OwnContext'
      OBVIOUS
    <2>1. TypeOK'
      BY StepTypeOK
    <2>2. CASE UNCHANGED vars
      BY <2>1, <2>2 DEF vars, OwnContext
    <2>3. CASE Next
      BY <2>1, <2>3, StepOwnContext DEF Next
    <2>4. QED BY <2>2, <2>3
  <1>3. TypeOK /\ OwnContext => ContextOfOwnCall
    <2> SUFFICES ASSUME TypeOK, OwnContext, NEW t \in Threads, ctl[t] # <<>>,
                        Guarded(Top(t))
                 PROVE  Mine(saved[Top(t).pt], t, Depth(t), Top(t).kind)
      BY DEF ContextOfOwnCall
    <2>1. Depth(t) \in 1 .. Len(ctl[t])
      BY DEF TypeOK, Depth
    <2>2. Top(t) = ctl[t][Depth(t)] /\ Top(t).kind \in Wrapper
      BY DEF Top, Depth, Guarded
    <2>3. QED BY <2>1, <2>2 DEF OwnContext
  <1>4. QED BY <1>1, <1>2, <1>3, PTL DEF Spec
=============================================================================
