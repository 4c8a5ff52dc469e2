---------------------------- MODULE MCPostMortem ----------------------------
(* PostMortem with two jobs, so that a batch holds more than one, two      *)
(* pollers, and a sweep that overlaps with the tasks of single runs.       *)
EXTENDS PostMortem

CONSTANTS p1, p2, s1

(* The second run is skipped: it only shares the batches of the first. *)
MCReviewable == {1}

MCPollers == {p1, p2}

MCSweepers == {s1}
=============================================================================
