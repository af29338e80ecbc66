----------------------------- MODULE JobLifecycle -----------------------------
(***************************************************************************)
(* The Runner Job lifecycle vocabulary shared by the Server's registry and *)
(* by the Runner's executor, and its classification into active and        *)
(* terminal values.  "recovering" is no lifecycle value: it is an overlay  *)
(* the Server keeps beside the lifecycle.                                  *)
(***************************************************************************)

EXTENDS Naturals

(* Every lifecycle value that the wire accepts. *)
Lifecycles == { "Queued", "RunnerQueued", "StartedLegacy", "Running",
                "StopRequested", "Completed", "Failed", "Stopped", "Timeout",
                "TimedOut", "Lost", "Cancelled" }

TerminalStates == { "Completed", "Failed", "Stopped", "Timeout", "TimedOut",
                    "Lost", "Cancelled" }

IsTerminal(life) == life \in TerminalStates

(* Execution states owned by the Runner: recovery, reconciliation, stop    *)
(* delivery and inventory retention apply to these only.                   *)
RunnerActiveStates == { "RunnerQueued", "Running", "StopRequested" }

IsRunnerActive(life) == life \in RunnerActiveStates

IsTimedOut(life) == life \in { "Timeout", "TimedOut" }

(* What a Runner reports of the command itself, beside the lifecycle.      *)
(* "none" is the absence of the field, as on every active report.          *)
ExecutionStates == { "none", "NotStarted", "OutcomeUnknown", "TimedOut",
                     "Completed" }

(***************************************************************************)
(* A report is a pair of a lifecycle value and an execution state, as in a *)
(* Job update or an inventory snapshot.  ValidExecution is the Server's    *)
(* rule for it: `started' says whether the Server already knows of a start *)
(* and `structured' whether the Job is a typed process or script.          *)
(***************************************************************************)
ValidExecution(structured, started, life, exec) ==
    /\ IsTerminal(life) \/ exec = "none"
    /\ ~(structured /\ IsTerminal(life) /\ exec = "none")
    /\ exec = "NotStarted" =>
           life \in {"Failed", "Stopped", "Cancelled", "Lost"} /\ ~started
    /\ exec = "OutcomeUnknown" => life \in {"Failed", "Lost"}
    /\ exec = "TimedOut" => IsTimedOut(life)
    /\ exec = "Completed" =>
           life \in {"Completed", "Failed", "Stopped", "Cancelled"}

(***************************************************************************)
(* The Server's rule for one snapshot of a registration inventory: one     *)
(* snapshot that breaks it rejects the registration.                       *)
(***************************************************************************)
ValidSnapshot(structured, s) ==
    /\ s.seq > 0
    /\ IsRunnerActive(s.life) \/ IsTerminal(s.life)
    /\ s.life \in {"Running", "StopRequested"} => s.started
    /\ ValidExecution(structured, s.started, s.life, s.exec)
===============================================================================
