----------------------------- MODULE MCWorkers -----------------------------
(***************************************************************************)
(* Two call blocks of one object, near the same spring block: direct has   *)
(* room for a jump over the call insn and for a long jump, tiny has no     *)
(* room for any.  go() may come to direct a second time when no worker has *)
(* managed it.                                                             *)
(***************************************************************************)
EXTENDS Workers

CONSTANTS direct, tiny

MCNearSprings == [p \in Points |-> Springs]
MCMaxTries    == [p \in Points |-> IF p = direct THEN 2 ELSE 1]

MCModes  == {{}, {"memory", "mid"}, {"perm", "near", "mid"}, {"perm", "memory"}}
PermOnly == {{"perm"}}
=============================================================================
