------------------------------ MODULE MCTramp ------------------------------
(***************************************************************************)
(* Tramp with one bit of history: whether user code has ever left a call   *)
(* without returning.  The pairing of entries and exits is claimed for     *)
(* executions in which it has not.                                         *)
(***************************************************************************)
EXTENDS Tramp

VARIABLE unwound

MCInit == Init /\ unwound = FALSE

MCNext == Next /\ unwound' = (unwound \/ \E t \in Threads : Unwind(t))

MCSpec     == MCInit /\ [][MCNext]_<<vars, unwound>>
MCFairSpec == MCSpec /\ Fairness

-----------------------------------------------------------------------------
\* Each exit payload gets the handle that its own entry payload has pushed,
\* or while the wrapper drains, that of a later tail call (wrapper_exit's
\* while loop), as long as all calls return.
PairedIfAllReturn == unwound \/ Paired

\* Apart from tail calls, the shadow stack lists the calls in progress, as
\* long as all calls return (PushPointCallHandle, PopPointCallHandle).
MirrorsIfAllReturn == unwound \/ ShadowMirrorsCalls
=============================================================================
