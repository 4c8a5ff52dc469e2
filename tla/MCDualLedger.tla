---------------------------- MODULE MCDualLedger ----------------------------
(* DualLedger on a team of three specialists: the writer is reviewed by the *)
(* editor, the orchestrator and the critic, in that order, the editor by    *)
(* the writer, the critic by nobody.                                        *)
EXTENDS DualLedger, TLC

CONSTANTS orchestrator, writer, editor, critic, m1, m2, m3

MCSpecialists == {writer, editor, critic}

MCReviewers ==
    (orchestrator :> <<>>) @@ (writer :> <<editor, orchestrator, critic>>) @@
    (editor :> <<writer>>) @@ (critic :> <<>>)

MCMilestoneIds == {m1, m2, m3}

(* One limit that suffices for the bounds of the run, one that does not. *)
MCRecursionLimits == {12, 4 * (MaxSteps + MaxReviews) + 4}
=============================================================================
