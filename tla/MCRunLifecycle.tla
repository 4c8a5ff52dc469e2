--------------------------- MODULE MCRunLifecycle ---------------------------
(* RunLifecycle with two API processes, an approval, two cancellation       *)
(* requests and one crash.  One approval already gives a graph two drivers  *)
(* (it may arrive while the runner is at work), two requests already let a  *)
(* cancellation meet the handling of another.                               *)
EXTENDS RunLifecycle

CONSTANTS w1, w2, runner, approval, cancel1, cancel2

MCWorkers == {w1, w2}

MCResumers == {approval}

MCRequests == {cancel1, cancel2}
=============================================================================
