------------------------------- MODULE MCManager ------------------------------
(* Small instances of the Runner's executor for TLC. *)
EXTENDS JobManager, TLC

(* The Runner stays up: for the progress of its Jobs. *)
SteadySpec == Init /\ [][Next /\ phase' = "up"]_vars /\ Fairness
===============================================================================
