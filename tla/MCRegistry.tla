------------------------------ MODULE MCRegistry ------------------------------
(* Small instances of the Server's registry for TLC. *)
EXTENDS RunnerRegistry, TLC

(* What a Runner reports about a typed process Job. *)
MCReports == { <<"Running", "none">>, <<"Completed", "Completed">>,
               <<"Failed", "NotStarted">> }

(* A shorter vocabulary for the instances with two Jobs. *)
MCFewReports == { <<"Completed", "Completed">> }

(* Runner processes are interchangeable. *)
MCSymmetry == Permutations(Instances)
===============================================================================
