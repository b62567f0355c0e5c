-------------------------------- MODULE MCIpc --------------------------------
(***************************************************************************)
(* Three pids, one after another in pid order, with two descriptors each.  *)
(***************************************************************************)
EXTENDS Ipc

MCPids  == 1..3
MCNoPid == -1
MCFds   == 3..4
MCNames == {"libagent"}

\* All but readers, which no guard and no property looks into: states that
\* differ in it alone go on alike.
MCView == <<alive, file, agent, tracing, call, tracer, stopped, data, images,
            past>>
=============================================================================
