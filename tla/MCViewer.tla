------------------------------- MODULE MCViewer -------------------------------
(***************************************************************************)
(* Three frames with the nodes apart and two with them grouped: the packages *)
(* shipped with the viewer have 507 and 506.                               *)
(***************************************************************************)
EXTENDS Viewer, TLC

MCFrames == (Raw :> 3) @@ (Dedup :> 2)
=============================================================================
