------------------------------ MODULE Propagate ------------------------------
(***************************************************************************)
(* How instrumentation spreads ahead of the program.  The agent first      *)
(* instruments the call blocks of main and of exit; from then on every     *)
(* instrumented call runs a payload that propels: it instruments the call  *)
(* blocks of the function about to be called (payload.cc Propel,           *)
(* propeller.cc go, instrumenter.cc run).  SpThreadMgr does the same for   *)
(* the routine handed to pthread_create, and the payload in exit turns     *)
(* propagation off.                                                        *)
(*                                                                         *)
(* The guard of the wrappers (module Tramp) appears by its effect only: a  *)
(* call made while another thread is in a wrapper may be skipped, or, both *)
(* threads having read the flag before either set it, not be skipped.      *)
(***************************************************************************)
EXTENDS Naturals, Sequences, FiniteSets

CONSTANTS
  Threads, NoThread,
  MainThread,
  Funcs, NoFunc,
  Main, ExitFunc,        \* main and libc's __GI_exit
  CreateFunc,            \* pthread_create
  Routines,              \* functions handed to pthread_create
  InstFuncs,             \* SpParser::CanInstrumentFunc
  Blocks, NoBlock,       \* call blocks
  BlocksOf,              \* BlocksOf[f]: the call blocks of f (findPoints PreCall)
  Callees,               \* Callees[b]: the functions b may call
  Indirect,              \* blocks whose callee is not known statically
  DirectOnly,            \* SpContext::IsDirectcallOnlyEnabled
  Multithread,           \* SpContext::IsMultithreadEnabled
  MaxDepth               \* bound on the calls in progress in a thread

ASSUME ThreadAssumption == MainThread \in Threads /\ NoThread \notin Threads
ASSUME FuncAssumption ==
  /\ {Main, ExitFunc, CreateFunc} \union Routines \union InstFuncs \subseteq Funcs
  /\ NoFunc \notin Funcs
  /\ CreateFunc \notin Routines \union {Main}
ASSUME BlockAssumption ==
  /\ BlocksOf \in [Funcs -> SUBSET Blocks]
  /\ Callees \in [Blocks -> SUBSET Funcs]
  /\ Indirect \subseteq Blocks
  /\ NoBlock \notin Blocks
ASSUME BoundAssumption == MaxDepth \in Nat /\ DirectOnly \in BOOLEAN /\ Multithread \in BOOLEAN

VARIABLES
  payload,     \* payload[b]: what the installed patch of b runs, or "none"
  propagated,  \* functions with SpFunction::propagated()
  commands,    \* SpInstrumenter::user_commands_: who asks for which block
  tried,       \* blocks the workers have been run on (not kept by the code)
  inInst,      \* IN_INSTRUMENTATION
  owner,       \* holder of g_propel_lock
  target,      \* target[t]: the function t found and hands to go()
  pc,          \* pc[t]: where the thread is in the wrapper, "run" outside
  call,        \* call[t]: the call being wrapped
  frames,      \* frames[t]: the functions t is in, innermost last
  gone,        \* exit has run the destructors of the agent's globals
  fault        \* an assertion of the agent has failed

vars == <<payload, propagated, commands, tried, inInst, owner, target, pc, call, frames,
          gone, fault>>

(***************************************************************************)
(* A call names its block, its callee and, for pthread_create, the routine *)
(* and whether the agent has looked at it.  A frame is ahead when the      *)
(* agent finished with the function's call blocks before the function      *)
(* began; a frame of pthread_create keeps the call it came from.           *)
(***************************************************************************)
NoCall == [block |-> NoBlock, callee |-> NoFunc, routine |-> NoFunc, ahead |-> FALSE]
Call   == [block : Blocks, callee : Funcs, routine : Routines \union {NoFunc},
           ahead : BOOLEAN]
Frame  == [fn : Funcs, ahead : BOOLEAN, arg : Call \union {NoCall}]

Entered(f, ahead, c) == [fn |-> f, ahead |-> ahead, arg |-> c]

Pcs == {"run", "mgrLock", "mgrOut", "mgrGo", "propel", "lock", "out", "go"}

\* go() and run() find the call insns of `f` that are still to be instrumented.
KnownCallee(b) == b \notin Indirect

Worth(b) == KnownCallee(b) => Callees[b] \subseteq InstFuncs

\* Slip: go() does not look at instrumented().
NewPointsAll(f) ==
  IF f \in InstFuncs THEN {b \in BlocksOf[f] : Worth(b)} ELSE {}

\* SpPropeller::go up to commit.
NewPoints(f) ==
  IF f \in InstFuncs
    THEN {b \in BlocksOf[f] : payload[b] = "none" /\ Worth(b)}
    ELSE {}

\* SpInstrumenter::run skips indirect calls when told to.
Skipped(b) == ~ KnownCallee(b) /\ DirectOnly

(***************************************************************************)
(* SpAgent::Go before any payload runs: go(main), then go(__GI_exit) with  *)
(* the toggle as payload.  Any point may resist all four workers.          *)
(***************************************************************************)
Init ==
  /\ \E user \in SUBSET {b \in BlocksOf[Main] : Worth(b) /\ ~ Skipped(b)},
        toggle \in SUBSET {b \in BlocksOf[ExitFunc] : Worth(b) /\ ~ Skipped(b)} :
       payload = [b \in Blocks |-> IF b \in user THEN "user"
                                   ELSE IF b \in toggle THEN "toggle"
                                   ELSE "none"]
  /\ propagated = {}
  /\ commands = {}
  /\ tried = BlocksOf[Main] \union BlocksOf[ExitFunc]
  /\ inInst = TRUE
  /\ owner = NoThread
  /\ target = [t \in Threads |-> NoFunc]
  /\ pc = [t \in Threads |-> "run"]
  /\ call = [t \in Threads |-> NoCall]
  /\ frames = [t \in Threads |->
                 IF t = MainThread THEN <<Entered(Main, FALSE, NoCall)>> ELSE <<>>]
  /\ gone = FALSE
  /\ fault = FALSE

-----------------------------------------------------------------------------
Alive(t)   == frames[t] # <<>>
Top(t)     == frames[t][Len(frames[t])]
Current(t) == Top(t).fn

SomeoneElseInWrapper(t) == \E u \in Threads \ {t} : pc[u] # "run"

\* The thread goes on into f; pthread_create still needs to know its routine.
Enter(t, c, ahead) ==
  LET arg == IF c.callee = CreateFunc THEN c ELSE NoCall IN
  /\ frames' = [frames EXCEPT ![t] = Append(@, Entered(c.callee, ahead, arg))]
  /\ call' = [call EXCEPT ![t] = NoCall]

NewCall(b, f, r) == [block |-> b, callee |-> f, routine |-> r, ahead |-> FALSE]

\* The thread reaches call block b, which calls f; for pthread_create, with
\* routine r.
Reach(t, b, f, r) ==
  /\ pc[t] = "run"
  /\ Alive(t)
  /\ Len(frames[t]) < MaxDepth
  /\ b \in BlocksOf[Current(t)]
  /\ f \in Callees[b]
  /\ r \in IF f = CreateFunc THEN Routines ELSE {NoFunc}

\* The call is not instrumented, or its wrapper turns back at the guard, or
\* the wrapper finds no callee and runs no payload.
PlainCall(t, b, f, r) ==
  /\ Reach(t, b, f, r)
  /\ payload[b] = "none" \/ SomeoneElseInWrapper(t) \/ b \in Indirect
  /\ Enter(t, NewCall(b, f, r), FALSE)
  /\ UNCHANGED <<payload, propagated, commands, tried, inInst, owner, target, pc,
                 gone, fault>>

\* wrapper_entry: SpThreadMgr::BeforeEntry if the agent asked for it, then the
\* payload, which calls Propel.
WrappedCall(t, b, f, r) ==
  /\ Reach(t, b, f, r)
  /\ payload[b] = "user"
  /\ pc' = [pc EXCEPT ![t] = IF Multithread THEN "mgrLock" ELSE "propel"]
  /\ call' = [call EXCEPT ![t] = NewCall(b, f, r)]
  /\ UNCHANGED <<payload, propagated, commands, tried, inInst, owner, target,
                 frames, gone, fault>>

\* toggle_off_instrumentation_entry, the payload of the calls in exit.
ToggleCall(t, b, f, r) ==
  /\ Reach(t, b, f, r)
  /\ payload[b] = "toggle"
  /\ inInst' = FALSE
  /\ Enter(t, NewCall(b, f, r), FALSE)
  /\ UNCHANGED <<payload, propagated, commands, tried, owner, target, pc, gone, fault>>

-----------------------------------------------------------------------------
(***************************************************************************)
(* Under the lock: what is looked up, go() on what is found, and the way   *)
(* out, which is SP_UNLOCK's label for the early exits as well.            *)
(***************************************************************************)
Lock(t, from, to) ==
  /\ pc[t] = from
  /\ owner = NoThread
  /\ owner' = t
  /\ pc' = [pc EXCEPT ![t] = to]

Ask(t, f) == commands' = commands \union ({t} \X NewPoints(f))

LookUp(t, f) == target' = [target EXCEPT ![t] = f]

Unlock(t, from, to) ==
  /\ pc[t] = from
  /\ owner' = NoThread
  /\ pc' = [pc EXCEPT ![t] = to]
  /\ LookUp(t, NoFunc)

\* SpThreadMgr::BeforeEntry of a call of pthread_create.  callee() of the point
\* knows a callee only when the call is direct.
MgrLock(t) ==
  /\ KnownCallee(call[t].block)
  /\ call[t].callee = CreateFunc
  /\ Lock(t, "mgrLock", "mgrGo")
  /\ LookUp(t, call[t].routine)
  /\ Ask(t, call[t].routine)
  /\ UNCHANGED <<payload, propagated, tried, inInst, call, frames, gone, fault>>

\* goto THREADMGR_BEFOREENTRY_EXIT: the callee is not known, or FindFunction
\* does not find the routine; or the call is not one of pthread_create.
MgrSkip(t) ==
  /\ Lock(t, "mgrLock", "mgrOut")
  /\ UNCHANGED <<payload, propagated, commands, tried, inInst, target, call,
                 frames, gone, fault>>

\* Slip: the early exits return, past SP_UNLOCK.
MgrReturnsLocked(t) ==
  /\ pc[t] = "mgrOut"
  /\ pc' = [pc EXCEPT ![t] = "propel"]
  /\ UNCHANGED <<payload, propagated, commands, tried, inInst, owner, target,
                 call, frames, gone, fault>>

\* THREADMGR_BEFOREENTRY_EXIT
MgrExit(t) ==
  /\ Unlock(t, "mgrOut", "propel")
  /\ UNCHANGED <<payload, propagated, commands, tried, inInst, call, frames,
                 gone, fault>>

\* go() has run its commands: SetPropagated, unlock.
MgrUnlock(t) ==
  /\ Unlock(t, "mgrGo", "propel")
  /\ commands = {}
  /\ propagated' = propagated \union {target[t]}
  /\ call' = [call EXCEPT ![t].ahead = TRUE]
  /\ UNCHANGED <<payload, commands, tried, inInst, frames, gone, fault>>

(***************************************************************************)
(* Propel: the flag first, then lock, look, go, SetPropagated, unlock.     *)
(***************************************************************************)

\* Slip: the callee is marked propagated before anything is done about it.
PropelMarksFirst(t) ==
  /\ pc[t] = "propel"
  /\ IF inInst
       THEN pc' = [pc EXCEPT ![t] = "lock"] /\ UNCHANGED <<frames, call>>
       ELSE pc' = [pc EXCEPT ![t] = "run"] /\ Enter(t, call[t], FALSE)
  /\ propagated' = propagated \union {call[t].callee}
  /\ UNCHANGED <<payload, commands, tried, inInst, owner, target, gone, fault>>

\* if (!IN_INSTRUMENTATION) return;  -- read before the lock is taken
Propel(t) ==
  /\ pc[t] = "propel"
  /\ IF inInst
       THEN pc' = [pc EXCEPT ![t] = "lock"] /\ UNCHANGED <<frames, call>>
       ELSE pc' = [pc EXCEPT ![t] = "run"] /\ Enter(t, call[t], FALSE)
  /\ UNCHANGED <<payload, propagated, commands, tried, inInst, owner, target,
                 gone, fault>>

\* CalleeNolock: that of a direct call is cached; an indirect call is looked up
\* again, from registers that another thread at the same site may have saved
\* over, and may be another function now, or none.
Found(c) ==
  IF KnownCallee(c.block) THEN {c.callee} ELSE Callees[c.block] \union {NoFunc}

\* Nothing to do: no function, or one propagated already.
Settled(f) == f \in propagated \union {NoFunc}

PropelLock(t, f) ==
  /\ Lock(t, "lock", "go")
  /\ f \in Found(call[t]) /\ ~ Settled(f)
  /\ LookUp(t, f)
  /\ Ask(t, f)
  /\ UNCHANGED <<payload, propagated, tried, inInst, call, frames, gone, fault>>

\* goto PROPEL_EXIT
PropelSkip(t, f) ==
  /\ Lock(t, "lock", "out")
  /\ f \in Found(call[t]) /\ Settled(f)
  /\ LookUp(t, f)
  /\ UNCHANGED <<payload, propagated, commands, tried, inInst, call, frames,
                 gone, fault>>

\* SpInstrumenter::run on one command: assert(!blk->instrumented()), then the
\* workers in order until one succeeds, or none does.
Install(t, u, b) ==
  /\ pc[t] \in {"go", "mgrGo"}
  /\ <<u, b>> \in commands
  /\ IF payload[b] # "none" /\ ~ Skipped(b)
       THEN fault' = TRUE /\ UNCHANGED <<payload, commands, tried>>
       ELSE /\ \/ ~ Skipped(b) /\ payload' = [payload EXCEPT ![b] = "user"]
               \/ UNCHANGED payload
            /\ commands' = commands \ {<<u, b>>}
            /\ tried' = tried \union {b}
            /\ UNCHANGED fault
  /\ UNCHANGED <<propagated, inInst, owner, target, pc, call, frames, gone>>

\* The payload is over and the call is made, of the function looked at or of
\* another.
Proceed(t) == Enter(t, call[t], call[t].callee = target[t])

\* PROPEL_EXIT
PropelExit(t) ==
  /\ Unlock(t, "out", "run")
  /\ Proceed(t)
  /\ UNCHANGED <<payload, propagated, commands, tried, inInst, gone, fault>>

\* user_commands_.clear(); SetPropagated(true); unlock.
PropelUnlock(t) ==
  /\ Unlock(t, "go", "run")
  /\ commands = {}
  /\ propagated' = propagated \union {target[t]}
  /\ Proceed(t)
  /\ UNCHANGED <<payload, commands, tried, inInst, gone, fault>>

-----------------------------------------------------------------------------
\* pthread_create, called with the routine that was looked at on the way in,
\* starts a thread.
Start(t, u) ==
  /\ pc[t] = "run"
  /\ Alive(t)
  /\ Current(t) = CreateFunc
  /\ ~ Alive(u)
  /\ frames' = [frames EXCEPT
       ![t] = SubSeq(@, 1, Len(@) - 1),
       ![u] = <<Entered(Top(t).arg.routine, Top(t).arg.ahead, NoCall)>>]
  /\ UNCHANGED <<payload, propagated, commands, tried, inInst, owner, target, pc,
                 call, gone, fault>>

\* A function returns; exit does not.
Return(t) ==
  /\ pc[t] = "run"
  /\ Alive(t)
  /\ Current(t) # ExitFunc
  /\ Len(frames[t]) > 1
  /\ frames' = [frames EXCEPT ![t] = SubSeq(@, 1, Len(@) - 1)]
  /\ UNCHANGED <<payload, propagated, commands, tried, inInst, owner, target, pc,
                 call, gone, fault>>

\* Below exit, the destructors of the agent's globals run.
DestroyGlobals(t) ==
  /\ pc[t] = "run"
  /\ Alive(t)
  /\ Current(t) # ExitFunc
  /\ \E i \in 1 .. Len(frames[t]) : frames[t][i].fn = ExitFunc
  /\ gone' = TRUE
  /\ UNCHANGED <<payload, propagated, commands, tried, inInst, owner, target, pc,
                 call, frames, fault>>

Next ==
  /\ ~ fault
  /\ \E t \in Threads :
       \/ \E b \in Blocks, f \in Funcs, r \in Routines \union {NoFunc} :
            PlainCall(t, b, f, r) \/ WrappedCall(t, b, f, r) \/ ToggleCall(t, b, f, r)
       \/ MgrLock(t) \/ MgrSkip(t) \/ MgrExit(t) \/ MgrUnlock(t)
       \/ Propel(t) \/ PropelExit(t) \/ PropelUnlock(t)
       \/ \E f \in Funcs \union {NoFunc} : PropelLock(t, f) \/ PropelSkip(t, f)
       \/ \E u \in Threads, b \in Blocks : Install(t, u, b)
       \/ \E u \in Threads : Start(t, u)
       \/ Return(t) \/ DestroyGlobals(t)

Spec == Init /\ [][Next]_vars

\* A thread that holds the lock is run by the kernel and comes to its end.
LockedStep(t) ==
  /\ ~ fault
  /\ \/ MgrExit(t) \/ MgrUnlock(t) \/ PropelExit(t) \/ PropelUnlock(t)
     \/ \E u \in Threads, b \in Blocks : Install(t, u, b)

FairSpec == Spec /\ \A t \in Threads : WF_vars(LockedStep(t))

-----------------------------------------------------------------------------
\* Types.
TypeOK ==
  /\ payload \in [Blocks -> {"none", "user", "toggle"}]
  /\ propagated \subseteq Funcs
  /\ commands \subseteq Threads \X Blocks
  /\ tried \subseteq Blocks
  /\ owner \in Threads \union {NoThread}
  /\ target \in [Threads -> Funcs \union {NoFunc}]
  /\ pc \in [Threads -> Pcs]
  /\ call \in [Threads -> Call \union {NoCall}]
  /\ frames \in [Threads -> Seq(Frame)]
  /\ inInst \in BOOLEAN /\ gone \in BOOLEAN /\ fault \in BOOLEAN

\* assert(!blk->instrumented()) of SpInstrumenter::run never fails: no block is
\* patched twice, whichever threads reach it through whichever functions.
NoBlockTwice == ~ fault

\* Instrumentation stays ahead of the program: a function called through a
\* wrapper that propelled to it, or started by a pthread_create whose routine
\* the agent found, runs only after the workers have been tried on each of its
\* call blocks.
FrontierAhead ==
  \A t \in Threads : \A i \in 1 .. Len(frames[t]) :
    LET fr == frames[t][i] IN
    fr.ahead /\ fr.fn \in InstFuncs
      => \A b \in BlocksOf[fr.fn] : Worth(b) => b \in tried

\* g_propel_lock is always given back, by the early exits of BeforeEntry and
\* Propel (THREADMGR_BEFOREENTRY_EXIT, PROPEL_EXIT) as well.
LockIsReleased == owner # NoThread ~> owner = NoThread

\* Once exit has switched IN_INSTRUMENTATION off and the destructors of the
\* globals run, Propel instruments nothing (payload.cc:343-345).
PropelStopsAtExit ==
  gone /\ ~ inInst => \A t \in Threads : pc[t] # "go"

=============================================================================
