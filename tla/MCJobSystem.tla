----------------------------- MODULE MCJobSystem ------------------------------
(* Small instances of the Server and its Runner processes for TLC. *)
EXTENDS JobSystem, TLC

(* Runner processes are interchangeable. *)
MCSymmetry == Permutations(Instances)
===============================================================================
