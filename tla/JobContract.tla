----------------------------- MODULE JobContract ------------------------------
(***************************************************************************)
(* What the Server and the Runners together promise to a client about its  *)
(* Jobs, whatever is lost, repeated or restarted in between: a command is  *)
(* run once at most and only for a Job that was accepted, a Job is shown   *)
(* as completed only when its command did run, and an end that is shown    *)
(* stays until the record is gone.  A Job whose record is gone, because    *)
(* the Server restarted or the retention ended, may be shown again.        *)
(***************************************************************************)
EXTENDS JobLifecycle

CONSTANT Jobs

VARIABLES
    accepted,  \* Jobs that were ever accepted
    shown,     \* what the Server shows of each Job
    runs       \* how often the command of each Job was started

contractVars == <<accepted, shown, runs>>

ContractInit ==
    /\ accepted = {}
    /\ shown = [j \in Jobs |-> "unknown"]
    /\ runs = [j \in Jobs |-> 0]

Accept(j) ==
    /\ j \notin accepted
    /\ accepted' = accepted \cup {j}
    /\ shown' = [shown EXCEPT ![j] = "open"]
    /\ UNCHANGED runs

Run(j) ==
    /\ j \in accepted /\ runs[j] = 0
    /\ runs' = [runs EXCEPT ![j] = 1]
    /\ UNCHANGED <<accepted, shown>>

MayShow(j, old, new) ==
    \/ new = old
    \/ new = "unknown"
    \/ /\ old \in {"unknown", "open"} /\ j \in accepted
       /\ new = "open" \/ IsTerminal(new)
       /\ new = "Completed" => runs[j] = 1

Show ==
    /\ shown' \in [Jobs -> {"unknown", "open"} \cup TerminalStates]
    /\ \A j \in Jobs : MayShow(j, shown[j], shown'[j])
    /\ UNCHANGED <<accepted, runs>>

ContractNext == Show \/ \E j \in Jobs : Accept(j) \/ Run(j)

ContractSpec == ContractInit /\ [][ContractNext]_contractVars
===============================================================================
