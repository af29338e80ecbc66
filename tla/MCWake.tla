------------------------------- MODULE MCWake -------------------------------
(* A small instance of one Agent's Wakes for TLC. *)
EXTENDS AgentWake
=============================================================================
