-------------------------------- MODULE Tramp --------------------------------
(***************************************************************************)
(* The payload wrappers of agent/payload.cc and the shadow stack of        *)
(* agent/context.cc.  The patch area of an instrumented call (snippet.cc   *)
(* BuildBlob) saves the registers, calls wrapper_entry, makes the call,    *)
(* saves the registers again and calls wrapper_exit; for a tail call it    *)
(* calls wrapper_entry and jumps.  wrapper_entry pushes a handle on the    *)
(* thread's shadow stack, wrapper_exit pops one.                           *)
(*                                                                         *)
(* Instrumented code also runs ON TOP of the wrappers: the functions the   *)
(* agent and the payloads call are instrumented too, and a signal handler  *)
(* may interrupt a thread at any step.  The global flag inTramp is there   *)
(* to make such calls skip the wrappers.  The flag is one plain bool for   *)
(* all threads, read and written in separate steps.                        *)
(*                                                                         *)
(* g_propel_lock is taken as the abstract lock of module Mutex, which      *)
(* SpinLock implements.                                                    *)
(***************************************************************************)
EXTENDS Naturals, Sequences

CONSTANTS
  Threads,
  NoThread,
  CallPts,      \* instrumented calls that return to the patch area
  TailPts,      \* instrumented tail calls: SpPoint::tailcall()
  MaxDepth,     \* bound on the activations of a thread
  MaxHandles,   \* bound on the shadow stack when a call is made
  Unwinding     \* may user code leave calls without returning (longjmp, throw)?

ASSUME ThreadsAssumption == NoThread \notin Threads
ASSUME PointsAssumption  == CallPts \intersect TailPts = {}
ASSUME DepthAssumption   == MaxDepth \in Nat
ASSUME BoundsAssumption  == MaxHandles \in Nat /\ Unwinding \in BOOLEAN

Pts == CallPts \union TailPts

VARIABLES
  inTramp,    \* the global guard flag
  owner,      \* holder of g_propel_lock
  saved,      \* saved[p]: what SpSnippet::saved_context_loc_ points at
  ctl,        \* ctl[t]: the thread's activations, innermost last
  stack,      \* stack[t]: call_handle_stack_, top last
  fault       \* what killed the process

vars == <<inTramp, owner, saved, ctl, stack, fault>>

(***************************************************************************)
(* Activations.  A call frame is a call made through the patch area whose  *)
(* wrapper_exit is still to come; traced says that its wrapper_entry did   *)
(* not return at the guard.  A nested frame is code running on top of the  *)
(* interrupted activation below it.  A handle remembers, besides its       *)
(* point, the depth of the activation that pushed it (not in the code:     *)
(* it is what the pairing property is about).                              *)
(***************************************************************************)
Handle   == [pt : Pts, at : Nat]
NoHandle == [pt |-> NoThread, at |-> 0]

EntryPcs == {"check", "ctor", "set", "callee", "calleeHeld",
             "payload", "payloadHeld", "push", "dtor"}

ExitPcs == {"check", "ctor", "set", "pop", "retval", "retvalHeld",
            "payload", "payloadHeld", "dtor"}

CallFrame(p, traced) == [kind |-> "call", pt |-> p, pc |-> "user",
                         traced |-> traced, handle |-> NoHandle]
NestedFrame          == [kind |-> "nested", pt |-> NoThread, pc |-> "user",
                         traced |-> FALSE, handle |-> NoHandle]
EntryFrame(p)        == [kind |-> "entry", pt |-> p, pc |-> "check",
                         traced |-> FALSE, handle |-> NoHandle]
ExitFrame(p, traced) == [kind |-> "exit", pt |-> p, pc |-> "check",
                         traced |-> traced, handle |-> NoHandle]

\* Registers lie on the stack of a thread, where the activation at depth `at`
\* saved them for wrapper_entry or wrapper_exit.
Context(t, at, on) == [by |-> t, at |-> at, on |-> on]
NoContext == Context(NoThread, 0, "none")
Contexts  == [by : Threads \union {NoThread}, at : Nat, on : {"none", "entry", "exit"}]

\* The activations a thread can have: a wrapper that runs exit payloads has a
\* handle to give them.
Frame ==
  {f \in [kind : {"call", "nested", "entry", "exit"}, pt : Pts \union {NoThread},
          pc : {"user"} \union EntryPcs \union ExitPcs, traced : BOOLEAN,
          handle : Handle \union {NoHandle}] :
     /\ f.kind = "call" => f.pt \in CallPts /\ f.pc = "user"
     /\ f.kind = "nested" => f.pc = "user"
     /\ f.kind = "entry" => f.pt \in Pts /\ f.pc \in EntryPcs
     /\ f.kind = "exit" => f.pt \in CallPts /\ f.pc \in ExitPcs
     /\ f.kind = "exit" /\ f.pc \in {"payload", "payloadHeld", "dtor"}
          => f.handle \in Handle}

Depth(t) == Len(ctl[t])
Top(t)   == ctl[t][Len(ctl[t])]

Push(t, f)    == [ctl EXCEPT ![t] = Append(@, f)]
Drop(t)       == [ctl EXCEPT ![t] = SubSeq(@, 1, Len(@) - 1)]
Replace(t, f) == [ctl EXCEPT ![t][Len(ctl[t])] = f]
Goto(t, pc)   == Replace(t, [Top(t) EXCEPT !.pc = pc])

At(t, kinds, pc) ==
  /\ ctl[t] # <<>>
  /\ Top(t).kind \in kinds
  /\ Top(t).pc = pc

Wrapper == {"entry", "exit"}

InUserCode(t) == ctl[t] # <<>> => Top(t).kind \in {"call", "nested"}

Init ==
  /\ inTramp = FALSE
  /\ owner = NoThread
  /\ saved = [p \in Pts |-> NoContext]
  /\ ctl = [t \in Threads |-> <<>>]
  /\ stack = [t \in Threads |-> <<>>]
  /\ fault = "none"

-----------------------------------------------------------------------------
(***************************************************************************)
(* User code: the program, a signal handler, or what a payload calls.      *)
(***************************************************************************)

\* emit_save: the snippet of point p, which all calls through p share, now
\* points at the registers just pushed.
EmitSave(p, context) == saved' = [saved EXCEPT ![p] = context]

\* The thread runs into an instrumented call: jump to the patch area.
MakeCall(t, p) ==
  /\ InUserCode(t)
  /\ Depth(t) < MaxDepth
  /\ Len(stack[t]) < MaxHandles
  /\ EmitSave(p, Context(t, Depth(t) + 1, "entry"))
  /\ ctl' = Push(t, EntryFrame(p))
  /\ UNCHANGED <<inTramp, owner, stack, fault>>

\* Slip: the registers are saved before the call only.
ReturnUnsaved(t) ==
  /\ At(t, {"call"}, "user")
  /\ ctl' = Replace(t, ExitFrame(Top(t).pt, Top(t).traced))
  /\ UNCHANGED <<inTramp, owner, saved, stack, fault>>

\* The called function returns to the patch area, or a tail callee returns
\* there in its stead.
ReturnToPatch(t) ==
  /\ At(t, {"call"}, "user")
  /\ EmitSave(Top(t).pt, Context(t, Depth(t), "exit"))
  /\ ctl' = Replace(t, ExitFrame(Top(t).pt, Top(t).traced))
  /\ UNCHANGED <<inTramp, owner, stack, fault>>

\* A signal handler starts, or the agent or a payload calls a function.
Interrupt(t) ==
  /\ Depth(t) < MaxDepth
  /\ ctl' = Push(t, NestedFrame)
  /\ UNCHANGED <<inTramp, owner, saved, stack, fault>>

Resume(t) ==
  /\ At(t, {"nested"}, "user")
  /\ ctl' = Drop(t)
  /\ UNCHANGED <<inTramp, owner, saved, stack, fault>>

\* longjmp or an exception leaves a call without running its patch area.
Unwind(t) ==
  /\ Unwinding
  /\ At(t, {"call"}, "user")
  /\ ctl' = Drop(t)
  /\ UNCHANGED <<inTramp, owner, saved, stack, fault>>

-----------------------------------------------------------------------------
(***************************************************************************)
(* The guard, the same in both wrappers.                                   *)
(***************************************************************************)

\* The wrapper returns: wrapper_entry to the call (or the tail jump),
\* wrapper_exit to the instruction after the call.
AfterReturn(t, traced) ==
  IF Top(t).kind = "entry" /\ Top(t).pt \in CallPts
    THEN Replace(t, CallFrame(Top(t).pt, traced))
    ELSE Drop(t)

\* Slip: the wrappers are entered whatever the flag says.
CheckIgnoresFlag(t) ==
  /\ At(t, Wrapper, "check")
  /\ ctl' = Goto(t, "ctor")
  /\ UNCHANGED <<inTramp, owner, saved, stack, fault>>

\* Slip: only wrapper_entry looks at the flag.
CheckOnEntryOnly(t) ==
  /\ At(t, Wrapper, "check")
  /\ ctl' = IF inTramp /\ Top(t).kind = "entry"
              THEN AfterReturn(t, FALSE) ELSE Goto(t, "ctor")
  /\ UNCHANGED <<inTramp, owner, saved, stack, fault>>

\* Slip: the guard object exists before the early return, so its destructor
\* lowers the flag of the wrapper below.
GuardBeforeCheck(t) ==
  /\ At(t, Wrapper, "check")
  /\ inTramp' = FALSE
  /\ ctl' = IF inTramp THEN AfterReturn(t, FALSE) ELSE Goto(t, "ctor")
  /\ UNCHANGED <<owner, saved, stack, fault>>

\* if (inTramp) return;
Check(t) ==
  /\ At(t, Wrapper, "check")
  /\ ctl' = IF inTramp THEN AfterReturn(t, FALSE) ELSE Goto(t, "ctor")
  /\ UNCHANGED <<inTramp, owner, saved, stack, fault>>

\* TrampGuard::TrampGuard: if (!guard) ... else assert(false)
CtorTest(t) ==
  /\ At(t, Wrapper, "ctor")
  /\ IF inTramp
       THEN fault' = "guard" /\ UNCHANGED ctl
       ELSE ctl' = Goto(t, "set") /\ UNCHANGED fault
  /\ UNCHANGED <<inTramp, owner, saved, stack>>

\* Slip: the constructor forgets to raise the flag.
CtorSetForgotten(t) ==
  /\ At(t, Wrapper, "set")
  /\ ctl' = Goto(t, IF Top(t).kind = "entry" THEN "callee" ELSE "pop")
  /\ UNCHANGED <<inTramp, owner, saved, stack, fault>>

\* guard = true
CtorSet(t) ==
  /\ At(t, Wrapper, "set")
  /\ inTramp' = TRUE
  /\ ctl' = Goto(t, IF Top(t).kind = "entry" THEN "callee" ELSE "pop")
  /\ UNCHANGED <<owner, saved, stack, fault>>

\* Slip: the destructor does not lower the flag.
DtorForgotten(t) ==
  /\ At(t, Wrapper, "dtor")
  /\ ctl' = AfterReturn(t, TRUE)
  /\ UNCHANGED <<inTramp, owner, saved, stack, fault>>

\* ~TrampGuard: guard = false, and the wrapper returns.
Dtor(t) ==
  /\ At(t, Wrapper, "dtor")
  /\ inTramp' = FALSE
  /\ ctl' = AfterReturn(t, TRUE)
  /\ UNCHANGED <<owner, saved, stack, fault>>

-----------------------------------------------------------------------------
(***************************************************************************)
(* SP_LOCK and SP_UNLOCK.                                                  *)
(***************************************************************************)

LockAt(t, kinds, from, to) ==
  /\ At(t, kinds, from)
  /\ owner = NoThread
  /\ owner' = t
  /\ ctl' = Goto(t, to)
  /\ UNCHANGED <<inTramp, saved, stack, fault>>

\* Callee(pt) in wrapper_entry.
LockCallee(t) == LockAt(t, {"entry"}, "callee", "calleeHeld")

\* Slip: the handle is pushed only when the callee is known.
PushOnlyKnownCallee(t) ==
  /\ At(t, {"entry"}, "calleeHeld")
  /\ owner' = NoThread
  /\ \E next \in {"payload", "dtor"} : ctl' = Goto(t, next)
  /\ UNCHANGED <<inTramp, saved, stack, fault>>

\* The callee of an indirect call may be unknown; then no payload runs, but
\* the handle is pushed all the same.
UnlockCallee(t) ==
  /\ At(t, {"entry"}, "calleeHeld")
  /\ owner' = NoThread
  /\ \E next \in {"payload", "push"} : ctl' = Goto(t, next)
  /\ UNCHANGED <<inTramp, saved, stack, fault>>

\* ReturnValue(pt) in wrapper_exit.
LockRetVal(t) == LockAt(t, {"exit"}, "retval", "retvalHeld")

\* With the return value in hand, call_handle->SetReturnValue: on no handle
\* this is a call through NULL.
UnlockRetVal(t) ==
  /\ At(t, {"exit"}, "retvalHeld")
  /\ owner' = NoThread
  /\ IF Top(t).handle = NoHandle
       THEN fault' = "pop" /\ UNCHANGED ctl
       ELSE ctl' = Goto(t, "payload") /\ UNCHANGED fault
  /\ UNCHANGED <<inTramp, saved, stack>>

\* The payloads, SpIpcMgr, SpThreadMgr and SpParser::ParseDlExit use the
\* public interfaces, each of which locks and unlocks.
LockInPayload(t) == LockAt(t, Wrapper, "payload", "payloadHeld")

UnlockInPayload(t) ==
  /\ At(t, Wrapper, "payloadHeld")
  /\ owner' = NoThread
  /\ ctl' = Goto(t, "payload")
  /\ UNCHANGED <<inTramp, saved, stack, fault>>

-----------------------------------------------------------------------------
(***************************************************************************)
(* The shadow stack.                                                       *)
(***************************************************************************)

EntryPayloadDone(t) ==
  /\ At(t, {"entry"}, "payload")
  /\ ctl' = Goto(t, "push")
  /\ UNCHANGED <<inTramp, owner, saved, stack, fault>>

\* PushPointCallHandle(new PointCallHandle(pt, callee))
PushHandle(t) ==
  /\ At(t, {"entry"}, "push")
  /\ stack' = [stack EXCEPT ![t] =
                 Append(@, [pt |-> Top(t).pt, at |-> Depth(t)])]
  /\ ctl' = Goto(t, "dtor")
  /\ UNCHANGED <<inTramp, owner, saved, fault>>

\* PopPointCallHandle returns NULL on an empty stack.
TopHandle(t) ==
  IF stack[t] = <<>> THEN NoHandle ELSE stack[t][Len(stack[t])]

\* Slip: top() without pop().
PeekStack(t) == stack

PopStack(t) ==
  IF stack[t] = <<>>
    THEN stack
    ELSE [stack EXCEPT ![t] = SubSeq(@, 1, Len(@) - 1)]

PopHandle(t) ==
  /\ At(t, {"exit"}, "pop")
  /\ stack' = PopStack(t)
  /\ ctl' = Replace(t, [Top(t) EXCEPT !.pc = "retval", !.handle = TopHandle(t)])
  /\ UNCHANGED <<inTramp, owner, saved, fault>>

\* Slip: the wrapper is done after the exit payload of the first handle.
DrainOnce(t) ==
  /\ At(t, {"exit"}, "payload")
  /\ ctl' = Goto(t, "dtor")
  /\ UNCHANGED <<inTramp, owner, saved, stack, fault>>

\* The exit payload of the handle has run.  while (pt != handle->GetPoint()):
\* the handle was a missed tail call, so take the next one.
ExitPayloadDone(t) ==
  /\ At(t, {"exit"}, "payload")
  /\ IF Top(t).handle.pt = Top(t).pt
       THEN ctl' = Goto(t, "dtor") /\ UNCHANGED <<stack, fault>>
     ELSE IF stack[t] = <<>>
       THEN fault' = "pop" /\ UNCHANGED <<ctl, stack>>
     ELSE /\ ctl' = Replace(t, [Top(t) EXCEPT !.handle = TopHandle(t)])
          /\ stack' = PopStack(t)
          /\ UNCHANGED fault
  /\ UNCHANGED <<inTramp, owner, saved>>

-----------------------------------------------------------------------------
WrapperStep(t) ==
  \/ Check(t) \/ CtorTest(t) \/ CtorSet(t) \/ Dtor(t)
  \/ LockCallee(t) \/ UnlockCallee(t) \/ EntryPayloadDone(t) \/ PushHandle(t)
  \/ PopHandle(t) \/ LockRetVal(t) \/ UnlockRetVal(t) \/ ExitPayloadDone(t)
  \/ LockInPayload(t) \/ UnlockInPayload(t)

UserStep(t) ==
  \/ \E p \in Pts : MakeCall(t, p)
  \/ ReturnToPatch(t) \/ Interrupt(t) \/ Resume(t) \/ Unwind(t)

\* A fault ends the process.
Next == fault = "none" /\ \E t \in Threads : WrapperStep(t) \/ UserStep(t)

Spec == Init /\ [][Next]_vars

-----------------------------------------------------------------------------
\* The guard is up for the activation: past the constructor, before the end
\* of the destructor.
Guarded(f) == f.kind \in Wrapper /\ f.pc \notin {"check", "ctor", "set"}

Held(f) == f.pc \in {"calleeHeld", "retvalHeld", "payloadHeld"}

\* Types.
TypeOK ==
  /\ inTramp \in BOOLEAN
  /\ owner \in Threads \union {NoThread}
  /\ saved \in [Pts -> Contexts]
  /\ ctl \in [Threads -> Seq(Frame)]
  /\ stack \in [Threads -> Seq(Handle)]
  /\ fault \in {"none", "guard", "pop"}

\* TrampGuard never asserts (payload.cc:99-102).
NoGuardFault == fault # "guard"

\* wrapper_exit always finds a handle to pop (payload.cc:189, 218).
NoEmptyPop == fault # "pop"

\* g_propel_lock is not reentrant: code that may ask for it never runs on top
\* of an activation of its own thread that holds it, because whatever runs on
\* top of a guarded activation turns back at the guard.
NoSelfDeadlock ==
  \A t \in Threads :
    (ctl[t] # <<>> /\ Top(t).kind \in Wrapper
       /\ Top(t).pc \in {"callee", "retval", "payload"})
    => owner # t

\* The two wrappers of a call either both run or both turn back at the guard:
\* a call skipped on entry finds the guard still up on exit, and the exit that
\* pops belongs to an entry that pushed.
SkippedTogether ==
  \A t \in Threads : \A d \in 1 .. Depth(t) :
    LET f == ctl[t][d] IN
    f.kind \in {"call", "exit"} =>
      IF f.traced
        THEN f.kind = "exit" /\ f.pc = "check" /\ d = Depth(t) => ~ inTramp
        ELSE inTramp /\ f.pc \in {"user", "check"}

\* While an activation is guarded, nothing that runs on top of it touches the
\* flag, the lock or the shadow stack: agent, payload and handler code nested
\* in a wrapper is invisible to it.
NestedIsInvisible ==
  [][\A t \in Threads :
       (\E d \in 1 .. Depth(t) - 1 : Guarded(ctl[t][d]))
       => UNCHANGED <<inTramp, owner, stack>>]_vars

\* The handle an exit payload gets is the one its own call pushed, or, while
\* the wrapper drains, that of a tail call made after it.
Paired ==
  \A t \in Threads : \A d \in 1 .. Depth(t) :
    LET f == ctl[t][d] IN
    f.kind = "exit" /\ f.handle # NoHandle =>
      IF f.handle.pt = f.pt
        THEN f.handle.at = d
        ELSE f.handle.pt \in TailPts /\ f.handle.at > d

\* A call whose entry wrapper has pushed and whose exit wrapper has not popped.
Open(t, d) ==
  LET f == ctl[t][d] IN
  /\ f.traced
  /\ \/ f.kind = "call"
     \/ f.kind = "exit" /\ (f.handle = NoHandle \/ f.handle.pt # f.pt)

\* Apart from tail calls, the shadow stack is the call stack: one handle for
\* each open call, none for a finished one, in the order of the activations.
ShadowMirrorsCalls ==
  \A t \in Threads :
    LET s == stack[t] IN
    /\ \A d \in 1 .. Depth(t) :
         Open(t, d) => \E i \in 1 .. Len(s) : s[i] = [pt |-> ctl[t][d].pt, at |-> d]
    /\ \A i \in 1 .. Len(s) : s[i].pt \in CallPts =>
         /\ s[i].at <= Depth(t)
         /\ \/ Open(t, s[i].at)
            \/ ctl[t][s[i].at].kind = "entry" /\ ctl[t][s[i].at].pc = "dtor"
         /\ ctl[t][s[i].at].pt = s[i].pt
    /\ \A i, j \in 1 .. Len(s) :
         i < j /\ s[i].pt \in CallPts /\ s[j].pt \in CallPts => s[i].at < s[j].at

\* What the wrapper at depth d reads is what its own patch area saved, or what
\* code on top of it saved in passing through the same site.
Mine(context, t, d, kind) ==
  \/ context = Context(t, d, kind)
  \/ context.by = t /\ context.at > d

\* A payload, Callee and ReturnValue read the registers of their own call: an
\* entry wrapper those from before it, an exit wrapper those from after it,
\* though the calls made in between, recursion through the same site among
\* them, have all saved theirs in the one saved_context_loc_.  Code on top of
\* the wrapper itself gets in between all the same (handlers, payloads).
ContextOfOwnCall ==
  \A t \in Threads :
    ctl[t] # <<>> /\ Guarded(Top(t))
      => Mine(saved[Top(t).pt], t, Depth(t), Top(t).kind)

\* The wrapper always gets to its end, so the guard is always lowered again.
GuardIsReleased == inTramp ~> ~ inTramp

-----------------------------------------------------------------------------
(***************************************************************************)
(* Payloads, handlers and the agent's own calls return, and a wrapper that *)
(* is not interrupted for ever goes on.  Nothing is asked of the program   *)
(* when no wrapper is active.                                              *)
(***************************************************************************)
OnWrapper(t) ==
  fault = "none" /\ \E d \in 1 .. Depth(t) : Guarded(ctl[t][d])

Progress(t, depth) ==
  /\ OnWrapper(t)
  /\ Depth(t) = depth
  /\ WrapperStep(t) \/ ReturnToPatch(t) \/ Resume(t)

PayloadDone(t) == OnWrapper(t) /\ (EntryPayloadDone(t) \/ ExitPayloadDone(t))

Fairness ==
  \A t \in Threads :
    /\ \A depth \in 1 .. MaxDepth : SF_vars(Progress(t, depth))
    /\ SF_vars(PayloadDone(t))

FairSpec == Spec /\ Fairness
=============================================================================
