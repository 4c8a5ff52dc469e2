------------------------ MODULE MCNativeOrchestrator ------------------------
(* NativeOrchestrator on a team of two specialists: the writer is reviewed *)
(* by the editor, the editor by nobody; the rows of either may be missing. *)
EXTENDS NativeOrchestrator, TLC

CONSTANTS orchestrator, writer, editor

MCSpecialists == {writer, editor}

MCReviewers == (orchestrator :> {}) @@ (writer :> {editor}) @@ (editor :> {})
=============================================================================
