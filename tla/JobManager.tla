------------------------------ MODULE JobManager ------------------------------
(***************************************************************************)
(* The Runner's Job executor: admission into a bounded number of slots, a  *)
(* local queue, one worker per started Job, stops and the shutdown of the  *)
(* Runner process, each on a thread of its own.                            *)
(*                                                                         *)
(* A step is what a thread does between two lock boundaries: a section     *)
(* under the `lifecycle' lock, one record_update under the `jobs' lock, or *)
(* one load or store of an atomic flag.  The processes themselves, their   *)
(* timeouts and the failures of spawn and wait are the environment.        *)
(* Termination of a process tree succeeds.  Detached and SSH Jobs are not  *)
(* in this model, nor is the delivery of the recorded updates.             *)
(***************************************************************************)
EXTENDS JobLifecycle, Integers, Sequences, FiniteSets

CONSTANTS
    Jobs,           \* Job identities
    Structured,     \* Jobs that run one typed process or script
    Validation,     \* Jobs that run a plan of commands, one after the other
    Steps,          \* length of a validation plan
    MaxConcurrent,  \* max_concurrent
    MaxActive,      \* JOB_INVENTORY_MAX_ACTIVE_JOBS
    MaxOutputSeq,   \* bound: output is reported up to this update number
    MaxStopSeq      \* bound: a stop is served up to this update number

ASSUME ManagerAssumption ==
    /\ IsFiniteSet(Jobs)
    /\ Structured \subseteq Jobs /\ Validation \subseteq Jobs
    /\ Structured \cap Validation = {}
    /\ Steps \in Nat \ {0} /\ MaxConcurrent \in Nat \ {0}
    /\ MaxActive \in Nat /\ MaxOutputSeq \in Nat /\ MaxStopSeq \in Nat

VARIABLES
    rec,       \* jobs: the record of each Job
    stopFlag,  \* stop_requested, shared by the record and the worker
    queued,    \* Jobs that wait for a slot, oldest first
    phase,     \* the shutdown sequence; shutting_down from "closing" on
    targets,   \* published children that the shutdown has to drain
    pc,        \* the thread that carries the Job
    verdict,   \* the outcome that this thread is about to record
    late,      \* the enqueuing thread still owes agent_queued
    stopper,   \* the thread that serves a stop request for the Job
    handle,    \* the child this thread found published
    waking,    \* number of threads inside start_available_queued
    spawns,    \* number of commands started for the Job
    alive      \* the process tree of the last command is running

vars == <<rec, stopFlag, queued, phase, targets, pc, verdict, late, stopper,
          handle, waking, spawns, alive>>

procVars == <<spawns, alive>>

-------------------------------------------------------------------------------
(* Records *)

JobRecord ==
    [life: RunnerActiveStates \cup TerminalStates \cup {"Absent"},
     seq: Nat, started: BOOLEAN, exec: ExecutionStates,
     slot: BOOLEAN,      \* slot_reserved
     child: 0..Steps]    \* which command's process the record publishes

NoRecord == [life |-> "Absent", seq |-> 0, started |-> FALSE, exec |-> "none",
             slot |-> FALSE, child |-> 0]

Present(r) == r.life # "Absent"

Verdict == [life: TerminalStates, exec: ExecutionStates]

NoVerdict == [life |-> "Failed", exec |-> "none"]

(* The threads' places.  "queued" and "done" have no thread. *)
Places == { "idle", "announce", "queued", "start", "fence", "check", "spawn",
            "publish", "started", "running", "step", "settle", "report",
            "done" }

StopPlaces == { "none", "cancel", "look", "flag", "tell", "kill" }

TypeOK ==
    /\ rec \in [Jobs -> JobRecord]
    /\ stopFlag \in [Jobs -> BOOLEAN]
    /\ queued \in Seq(Jobs)
    /\ phase \in {"up", "closing", "cancelled", "signalled", "drained"}
    /\ targets \in [Jobs -> 0..Steps]
    /\ pc \in [Jobs -> Places]
    /\ verdict \in [Jobs -> Verdict]
    /\ late \in [Jobs -> BOOLEAN]
    /\ stopper \in [Jobs -> StopPlaces]
    /\ handle \in [Jobs -> 0..Steps]
    /\ waking \in Nat
    /\ spawns \in [Jobs -> 0..Steps]
    /\ alive \in [Jobs -> BOOLEAN]

Init ==
    /\ rec = [j \in Jobs |-> NoRecord]
    /\ stopFlag = [j \in Jobs |-> FALSE]
    /\ queued = <<>>
    /\ phase = "up"
    /\ targets = [j \in Jobs |-> 0]
    /\ pc = [j \in Jobs |-> "idle"]
    /\ verdict = [j \in Jobs |-> NoVerdict]
    /\ late = [j \in Jobs |-> FALSE]
    /\ stopper = [j \in Jobs |-> "none"]
    /\ handle = [j \in Jobs |-> 0]
    /\ waking = 0
    /\ spawns = [j \in Jobs |-> 0]
    /\ alive = [j \in Jobs |-> FALSE]

ShuttingDown == phase # "up"

Active == { j \in Jobs : IsRunnerActive(rec[j].life) }

Reserved == { j \in Active : rec[j].slot }

(* Mutant: a Job counts once it is reported as running. *)
FreeSlotOfRunning ==
    Cardinality({ j \in Jobs : rec[j].life = "Running" }) < MaxConcurrent

HasFreeSlot == Cardinality(Reserved) < MaxConcurrent

(* job_prestart_lifecycle: a validation plan makes no such statement. *)
PreStart(j) == IF j \in Validation THEN "none" ELSE "NotStarted"

(* fail_job before any command was started. *)
Refused(j) == [life |-> "Failed", exec |-> PreStart(j)]

(* Mutant: only a running Job is protected. *)
RegressesRunning(life, incoming) == life = "Running" /\ incoming = "RunnerQueued"

(* record_update: the first terminal outcome stays, and a report that is   *)
(* late must not take a Job back to an earlier state.                      *)
Regresses(life, incoming) ==
    \/ life = "StopRequested" /\ incoming \in {"RunnerQueued", "Running"}
    \/ life = "Running" /\ incoming = "RunnerQueued"

(* Mutant: an update may change a record that has ended. *)
RecordUpdateLate(r, incoming, exec) ==
    IF ~Present(r) THEN r
    ELSE [r EXCEPT !.life = incoming, !.seq = @ + 1, !.exec = exec]

RecordUpdate(r, incoming, exec) ==
    LET life == IF Regresses(r.life, incoming) THEN r.life ELSE incoming
        said == IF exec # "none" THEN exec ELSE r.exec
    IN  IF ~Present(r) \/ IsTerminal(r.life) THEN r
        ELSE [life |-> life, seq |-> r.seq + 1, exec |-> said,
              started |-> r.started \/ ( /\ said # "NotStarted"
                                         /\ life \in {"Running", "Completed", "Failed",
                                                      "Stopped", "Timeout"} ),
              slot |-> r.slot /\ ~IsTerminal(life),
              child |-> IF IsTerminal(life) THEN 0 ELSE r.child]

Record(j, incoming, exec) ==
    rec' = [rec EXCEPT ![j] = RecordUpdate(@, incoming, exec)]

Goto(j, place) == pc' = [pc EXCEPT ![j] = place]

Conclude(j, v) == verdict' = [verdict EXCEPT ![j] = v]

-------------------------------------------------------------------------------
(* Admission *)

(* Mutant: a duplicate is not recognised. *)
AdmitsDuplicates(j) == j \in Jobs

(* A start request for a Job with a record is a duplicate. *)
Admits(j) == ~Present(rec[j])

(* enqueue.  A request is delivered again, if at all, while the record of  *)
(* its Job is kept.  One whose context is refused leaves no record: it is  *)
(* answered at once and no step here.                                      *)
Enqueue(j) ==
    LET refuse == Cardinality(Active) >= MaxActive \/ ShuttingDown
        new == [NoRecord EXCEPT !.life = "RunnerQueued"]
    IN  /\ pc[j] = "idle" \/ Present(rec[j])
        /\ Admits(j)
        /\ \/ /\ refuse
              /\ rec' = [rec EXCEPT ![j] = [NoRecord EXCEPT !.life = "Failed",
                                             !.seq = 1, !.exec = PreStart(j)]]
              /\ Goto(j, "done")
              /\ UNCHANGED <<queued, late>>
           \/ /\ ~refuse /\ ~HasFreeSlot
              /\ rec' = [rec EXCEPT ![j] = new]
              /\ queued' = Append(queued, j)
              /\ Goto(j, "queued")
              /\ late' = [late EXCEPT ![j] = TRUE]
           \/ /\ ~refuse /\ HasFreeSlot
              /\ rec' = [rec EXCEPT ![j] = [new EXCEPT !.slot = TRUE]]
              /\ Goto(j, "announce")
              /\ UNCHANGED <<queued, late>>
        /\ UNCHANGED <<stopFlag, phase, targets, verdict, stopper, handle, waking,
                       procVars>>

(* The enqueuing thread reports agent_queued and goes on to the start... *)
Announce(j) ==
    /\ pc[j] = "announce"
    /\ Record(j, "RunnerQueued", "none")
    /\ Goto(j, "start")
    /\ UNCHANGED <<stopFlag, queued, phase, targets, verdict, late, stopper, handle,
                   waking, procVars>>

(* ... or, for a Job in the local queue, returns; by then another thread   *)
(* may have started the Job.                                               *)
AnnounceQueued(j) ==
    /\ late[j]
    /\ Record(j, "RunnerQueued", "none")
    /\ late' = [late EXCEPT ![j] = FALSE]
    /\ UNCHANGED <<stopFlag, queued, phase, targets, pc, verdict, stopper, handle,
                   waking, procVars>>

(* start_available_queued, one round of its loop.  All queued Jobs belong  *)
(* to one client, so the oldest is taken.  The code starts that Job itself *)
(* before the next round; here both go on at once.                         *)
Wake ==
    /\ waking > 0
    /\ \/ /\ ShuttingDown
          /\ queued' = <<>> /\ waking' = waking - 1
          /\ UNCHANGED <<rec, pc>>
       \/ /\ ~ShuttingDown /\ queued # <<>> /\ HasFreeSlot
          /\ queued' = Tail(queued) /\ waking' = waking
          /\ rec' = [rec EXCEPT ![Head(queued)].slot = TRUE]
          /\ Goto(Head(queued), "start")
       \/ /\ ~ShuttingDown /\ (queued = <<>> \/ ~HasFreeSlot)
          /\ waking' = waking - 1
          /\ UNCHANGED <<queued, rec, pc>>
    /\ UNCHANGED <<stopFlag, phase, targets, verdict, late, stopper, handle, procVars>>

-------------------------------------------------------------------------------
(* The thread that carries a Job *)

(* start_now *)
StartNow(j) ==
    /\ pc[j] = "start"
    /\ IF ShuttingDown THEN Conclude(j, Refused(j)) /\ Goto(j, "report")
                       ELSE verdict' = verdict /\ Goto(j, "fence")
    /\ UNCHANGED <<rec, stopFlag, queued, phase, targets, late, stopper, handle,
                   waking, procVars>>

(* Mutant: an early return without a report. *)
PrepareFailsSilently(j) ==
    /\ pc[j] = IF j \in Structured THEN "spawn" ELSE "fence"
    /\ Goto(j, "done")
    /\ UNCHANGED <<rec, stopFlag, queued, phase, targets, verdict, late, stopper,
                   handle, waking, procVars>>

(* Policy, directory, profile or command refused, before any spawn: a      *)
(* shell Job prepares before the fence, a structured one after it.         *)
PrepareFails(j) ==
    /\ pc[j] = IF j \in Structured THEN "spawn" ELSE "fence"
    /\ Conclude(j, Refused(j))
    /\ Goto(j, "report")
    /\ UNCHANGED <<rec, stopFlag, queued, phase, targets, late, stopper, handle,
                   waking, procVars>>

(* The admission fence, under the lifecycle lock. *)
Fence(j) ==
    /\ pc[j] = "fence"
    /\ IF ShuttingDown
       THEN Conclude(j, Refused(j)) /\ Goto(j, "report") /\ UNCHANGED rec
       ELSE /\ rec' = [rec EXCEPT ![j].slot = TRUE]
            /\ Goto(j, IF j \in Structured THEN "spawn" ELSE "check")
            /\ verdict' = verdict
    /\ UNCHANGED <<stopFlag, queued, phase, targets, late, stopper, handle, waking,
                   procVars>>

(* The last look at the flags that still precedes the spawn for certain. *)
Check(j) ==
    /\ pc[j] = "check"
    /\ IF stopFlag[j] \/ ShuttingDown
       THEN Conclude(j, Refused(j)) /\ Goto(j, "report")
       ELSE verdict' = verdict /\ Goto(j, "spawn")
    /\ UNCHANGED <<rec, stopFlag, queued, phase, targets, late, stopper, handle,
                   waking, procVars>>

(* ManagedChild::spawn.  A structured Job's process is never published. *)
Spawn(j) ==
    /\ pc[j] = "spawn"
    /\ spawns' = [spawns EXCEPT ![j] = @ + 1]
    /\ alive' = [alive EXCEPT ![j] = TRUE]
    /\ Goto(j, IF j \in Structured THEN "started" ELSE "publish")
    /\ UNCHANGED <<rec, stopFlag, queued, phase, targets, verdict, late, stopper,
                   handle, waking>>

SpawnFails(j) ==
    /\ pc[j] = "spawn"
    /\ Conclude(j, Refused(j))
    /\ Goto(j, "report")
    /\ UNCHANGED <<rec, stopFlag, queued, phase, targets, late, stopper, handle,
                   waking, procVars>>

(* Mutant: the pre-start evidence is used again after the spawn. *)
PublishRefuses(j) ==
    /\ pc[j] = "publish"
    /\ alive' = [alive EXCEPT ![j] = FALSE]
    /\ Conclude(j, Refused(j))
    /\ Goto(j, "report")
    /\ UNCHANGED <<rec, stopFlag, queued, phase, targets, late, stopper, handle,
                   waking, spawns>>

(* The fence after the spawn, under the lifecycle lock: what was started   *)
(* too late is killed, and nobody claims that it did not run.              *)
Publish(j) ==
    /\ pc[j] = "publish"
    /\ IF ShuttingDown \/ stopFlag[j] \/ ~Present(rec[j])
       THEN /\ alive' = [alive EXCEPT ![j] = FALSE]
            /\ Conclude(j, IF spawns[j] > 1 THEN [life |-> "Stopped", exec |-> "none"]
                           ELSE [life |-> "Failed",
                                 exec |-> IF j \in Validation THEN "none"
                                          ELSE "OutcomeUnknown"])
            /\ Goto(j, "report")
            /\ UNCHANGED rec
       ELSE /\ rec' = [rec EXCEPT ![j].child = spawns[j]]
            /\ Goto(j, "started")
            /\ UNCHANGED <<alive, verdict>>
    /\ UNCHANGED <<stopFlag, queued, phase, targets, late, stopper, handle, waking,
                   spawns>>

(* The process is reported as running. *)
Started(j) ==
    /\ pc[j] = "started"
    /\ Record(j, "Running", "none")
    /\ Goto(j, "running")
    /\ UNCHANGED <<stopFlag, queued, phase, targets, verdict, late, stopper, handle,
                   waking, procVars>>

(* Output is reported, with the state "running" once more. *)
Output(j) ==
    /\ pc[j] = "running" /\ j \notin Structured
    /\ rec[j].seq < MaxOutputSeq
    /\ Record(j, "Running", "none")
    /\ UNCHANGED <<stopFlag, queued, phase, targets, pc, verdict, late, stopper,
                   handle, waking, procVars>>

(* raw_shell_job_terminal_lifecycle *)
ShellExec(j, life, exitKnown) ==
    IF j \in Validation THEN "none"
    ELSE IF life = "Timeout" THEN "TimedOut"
    ELSE IF exitKnown THEN "Completed" ELSE "OutcomeUnknown"

(* Mutant: one step too many. *)
FinishRunsOn(j) ==
    /\ pc[j] = "running" /\ j \in Validation
    /\ alive' = [alive EXCEPT ![j] = FALSE]
    /\ IF spawns[j] <= Steps THEN Goto(j, "step") ELSE Goto(j, "report")
    /\ UNCHANGED <<rec, stopFlag, queued, phase, targets, verdict, late, stopper,
                   handle, waking, spawns>>

(* The worker of a shell Job sees that its command is over, or ends it; it *)
(* cleans the process tree up before it goes on.                           *)
Finish(j) ==
    /\ pc[j] = "running" /\ j \notin Structured
    /\ alive' = [alive EXCEPT ![j] = FALSE]
    /\ \E life \in {"Stopped", "Completed", "Failed", "Timeout"}, known \in BOOLEAN :
          /\ stopFlag[j] => life \in {"Stopped", "Failed"}
          /\ life = "Stopped" => stopFlag[j]
          /\ ~known => life = "Failed"                 \* the wait failed
          /\ stopFlag[j] /\ life = "Failed" => ~known
          /\ stopFlag' = [stopFlag EXCEPT ![j] = @ \/ life = "Timeout"]
          /\ IF life = "Completed" /\ j \in Validation /\ spawns[j] < Steps
             THEN verdict' = verdict /\ Goto(j, "step")
             ELSE /\ Conclude(j, [life |-> life, exec |-> ShellExec(j, life, known)])
                  /\ Goto(j, "report")
    /\ UNCHANGED <<rec, queued, phase, targets, late, stopper, handle, waking, spawns>>

(* The next command of a validation plan, unless it is stopped by now. *)
NextStep(j) ==
    /\ pc[j] = "step"
    /\ IF stopFlag[j] \/ ShuttingDown
       THEN /\ Conclude(j, [life |-> "Stopped", exec |-> "none"])
            /\ Goto(j, "report")
       ELSE verdict' = verdict /\ Goto(j, "spawn")
    /\ UNCHANGED <<rec, stopFlag, queued, phase, targets, late, stopper, handle,
                   waking, procVars>>

(* Mutant: a child whose end was not seen counts as never started. *)
FinishStructuredRefuses(j) ==
    /\ pc[j] \in {"started", "running"} /\ j \in Structured
    /\ alive' = [alive EXCEPT ![j] = FALSE]
    /\ Conclude(j, Refused(j))
    /\ Goto(j, "settle")
    /\ UNCHANGED <<rec, stopFlag, queued, phase, targets, late, stopper, handle,
                   waking, spawns>>

(* execute_configured_command returns: the process tree is gone.  A stop   *)
(* is answered by killing it, and every step may lose track of the child.  *)
FinishStructured(j) ==
    /\ pc[j] \in {"started", "running"} /\ j \in Structured
    /\ alive' = [alive EXCEPT ![j] = FALSE]
    /\ \E v \in { [life |-> "Completed", exec |-> "Completed"],
                  [life |-> "Failed", exec |-> "Completed"],
                  [life |-> "Timeout", exec |-> "TimedOut"],
                  [life |-> "Lost", exec |-> "OutcomeUnknown"] } :
          /\ pc[j] = "started" => v.life = "Lost"      \* no output readers
          /\ Conclude(j, v)
    /\ Goto(j, "settle")
    /\ UNCHANGED <<rec, stopFlag, queued, phase, targets, late, stopper, handle,
                   waking, spawns>>

(* A completed command of a Job that was asked to stop counts as stopped. *)
Settle(j) ==
    /\ pc[j] = "settle"
    /\ verdict' = IF stopFlag[j] /\ verdict[j].exec = "Completed"
                  THEN [verdict EXCEPT ![j].life = "Stopped"] ELSE verdict
    /\ Goto(j, "report")
    /\ UNCHANGED <<rec, stopFlag, queued, phase, targets, late, stopper, handle,
                   waking, procVars>>

(* Mutant: the freed slot is offered to nobody. *)
ReportEndSilently(j) ==
    /\ pc[j] = "report"
    /\ Record(j, verdict[j].life, verdict[j].exec)
    /\ Goto(j, "done")
    /\ Conclude(j, NoVerdict)
    /\ UNCHANGED <<stopFlag, queued, phase, targets, late, stopper, handle, waking,
                   procVars>>

(* The terminal update, which frees the slot; then others may start. *)
ReportEnd(j) ==
    /\ pc[j] = "report"
    /\ Record(j, verdict[j].life, verdict[j].exec)
    /\ Goto(j, "done")
    /\ Conclude(j, NoVerdict)
    /\ waking' = waking + 1
    /\ UNCHANGED <<stopFlag, queued, phase, targets, late, stopper, handle,
                   procVars>>

-------------------------------------------------------------------------------
(* The thread that serves a stop request *)

GotoStop(j, place) == stopper' = [stopper EXCEPT ![j] = place]

(* Mutant: the Job stays in the queue. *)
StopLeavesQueued(j) ==
    /\ stopper[j] = "none"
    /\ rec[j].seq < MaxStopSeq
    /\ GotoStop(j, IF \E k \in 1..Len(queued) : queued[k] = j THEN "cancel" ELSE "look")
    /\ UNCHANGED <<rec, stopFlag, queued, phase, targets, pc, verdict, late, handle,
                   waking, procVars>>

(* stop: a Job in the local queue leaves it, under the lifecycle lock. *)
Stop(j) ==
    /\ stopper[j] = "none"
    /\ rec[j].seq < MaxStopSeq
    /\ \/ \E k \in 1..Len(queued) :
             /\ queued[k] = j
             /\ queued' = SubSeq(queued, 1, k - 1) \o SubSeq(queued, k + 1, Len(queued))
             /\ GotoStop(j, "cancel")
       \/ /\ \A k \in 1..Len(queued) : queued[k] # j
          /\ queued' = queued
          /\ GotoStop(j, "look")
    /\ UNCHANGED <<rec, stopFlag, phase, targets, pc, verdict, late, handle, waking,
                   procVars>>

StopCancel(j) ==
    /\ stopper[j] = "cancel"
    /\ Record(j, "Stopped", PreStart(j))
    /\ GotoStop(j, "none")
    /\ waking' = waking + 1
    /\ UNCHANGED <<stopFlag, queued, phase, targets, pc, verdict, late, handle,
                   procVars>>

(* Nothing to stop, or the child that the record publishes at this moment. *)
StopLook(j) ==
    /\ stopper[j] = "look"
    /\ IF IsRunnerActive(rec[j].life)
       THEN handle' = [handle EXCEPT ![j] = rec[j].child] /\ GotoStop(j, "flag")
       ELSE handle' = handle /\ GotoStop(j, "none")
    /\ UNCHANGED <<rec, stopFlag, queued, phase, targets, pc, verdict, late, waking,
                   procVars>>

StopFlag(j) ==
    /\ stopper[j] = "flag"
    /\ stopFlag' = [stopFlag EXCEPT ![j] = TRUE]
    /\ GotoStop(j, "tell")
    /\ UNCHANGED <<rec, queued, phase, targets, pc, verdict, late, handle, waking,
                   procVars>>

(* Mutant: the stop is reported as the end before the process is killed. *)
StopTellsEnd(j) ==
    /\ stopper[j] = "tell"
    /\ Record(j, "Stopped", "Completed")
    /\ GotoStop(j, "kill")
    /\ UNCHANGED <<stopFlag, queued, phase, targets, pc, verdict, late, handle, waking,
                   procVars>>

StopTell(j) ==
    /\ stopper[j] = "tell"
    /\ Record(j, "StopRequested", "none")
    /\ GotoStop(j, "kill")
    /\ UNCHANGED <<stopFlag, queued, phase, targets, pc, verdict, late, handle, waking,
                   procVars>>

(* The child found before is killed; the Job may run a later one by now. *)
StopKill(j) ==
    /\ stopper[j] = "kill"
    /\ alive' = [alive EXCEPT ![j] = @ /\ (handle[j] = 0 \/ handle[j] # spawns[j])]
    /\ handle' = [handle EXCEPT ![j] = 0]
    /\ GotoStop(j, "none")
    /\ UNCHANGED <<rec, stopFlag, queued, phase, targets, pc, verdict, late, waking,
                   spawns>>

-------------------------------------------------------------------------------
(* Shutdown of the Runner process, and retention *)

(* stop_accepting_work: without any lock. *)
StopAcceptingWork ==
    /\ phase = "up"
    /\ phase' = "closing"
    /\ UNCHANGED <<rec, stopFlag, queued, targets, pc, verdict, late, stopper, handle,
                   waking, procVars>>

(* The records of the dropped Jobs stay as they are. *)
CancelQueued ==
    /\ phase = "closing"
    /\ phase' = "cancelled"
    /\ queued' = <<>>
    /\ UNCHANGED <<rec, stopFlag, targets, pc, verdict, late, stopper, handle, waking,
                   procVars>>

(* Mutant: only Jobs that are reported as running are signalled. *)
SignalRunning ==
    /\ phase = "cancelled"
    /\ phase' = "signalled"
    /\ stopFlag' = [j \in Jobs |-> stopFlag[j] \/ rec[j].life = "Running"]
    /\ targets' = [j \in Jobs |-> IF j \in Active THEN rec[j].child ELSE 0]
    /\ UNCHANGED <<rec, queued, pc, verdict, late, stopper, handle, waking, procVars>>

(* signal_all_for_shutdown: every active Job, published child or not. *)
SignalAll ==
    /\ phase = "cancelled"
    /\ phase' = "signalled"
    /\ stopFlag' = [j \in Jobs |-> stopFlag[j] \/ j \in Active]
    /\ targets' = [j \in Jobs |-> IF j \in Active THEN rec[j].child ELSE 0]
    /\ UNCHANGED <<rec, queued, pc, verdict, late, stopper, handle, waking, procVars>>

(* drain_shutdown, at the end of its grace period. *)
Drain ==
    /\ phase = "signalled"
    /\ phase' = "drained"
    /\ alive' = [j \in Jobs |-> alive[j] /\ (targets[j] = 0 \/ targets[j] # spawns[j])]
    /\ UNCHANGED <<rec, stopFlag, queued, targets, pc, verdict, late, stopper, handle,
                   waking, spawns>>

(* prune_terminal_records: retention ended, or too many are kept. *)
Prune(j) ==
    /\ IsTerminal(rec[j].life)
    /\ rec' = [rec EXCEPT ![j] = NoRecord]
    /\ UNCHANGED <<stopFlag, queued, phase, targets, pc, verdict, late, stopper, handle,
                   waking, procVars>>

-------------------------------------------------------------------------------

JobStep(j) ==
    \/ Announce(j) \/ StartNow(j) \/ PrepareFails(j) \/ Fence(j) \/ Check(j)
    \/ Spawn(j) \/ SpawnFails(j) \/ Publish(j) \/ Started(j)
    \/ Finish(j) \/ NextStep(j) \/ FinishStructured(j) \/ Settle(j) \/ ReportEnd(j)

StopStep(j) ==
    StopCancel(j) \/ StopLook(j) \/ StopFlag(j) \/ StopTell(j) \/ StopKill(j)

ShutdownStep == CancelQueued \/ SignalAll \/ Drain

Next ==
    \/ \E j \in Jobs : \/ Enqueue(j) \/ AnnounceQueued(j) \/ JobStep(j) \/ Output(j)
                       \/ Stop(j) \/ StopStep(j) \/ Prune(j)
    \/ Wake \/ StopAcceptingWork \/ ShutdownStep

(* Threads are scheduled and every command ends or times out; nobody has   *)
(* to deliver, stop, prune or shut down.                                   *)
Fairness ==
    /\ \A j \in Jobs : WF_vars(JobStep(j)) /\ WF_vars(StopStep(j))
                       /\ WF_vars(AnnounceQueued(j))
    /\ WF_vars(Wake) /\ WF_vars(ShutdownStep)

Spec == Init /\ [][Next]_vars /\ Fairness

-------------------------------------------------------------------------------
(* Properties *)

(***************************************************************************)
(* The process trees that run at any moment fit into the configured        *)
(* number of slots, whatever order threads enqueue, start, stop and finish *)
(* in: no slot is free before its process tree is gone.                    *)
(***************************************************************************)
SlotBound == Cardinality({ j \in Jobs : alive[j] }) <= MaxConcurrent

(***************************************************************************)
(* A Job whose record has ended, or was pruned, is quiet: nothing of it    *)
(* runs, its slot and handle are gone, it waits nowhere and no thread will *)
(* start it.                                                               *)
(***************************************************************************)
EndedIsQuiet ==
    \A j \in Jobs :
        IsTerminal(rec[j].life) \/ (~Present(rec[j]) /\ pc[j] # "idle") =>
            /\ ~alive[j] /\ ~rec[j].slot /\ rec[j].child = 0
            /\ \A k \in 1..Len(queued) : queued[k] # j
            /\ pc[j] \in {"queued", "done"}

(***************************************************************************)
(* "not_started" is the truth: a Job that says so never started a command, *)
(* although the stop and the shutdown race with the spawn.                 *)
(***************************************************************************)
NotStartedIsTruth ==
    \A j \in Jobs : rec[j].exec = "NotStarted" => spawns[j] = 0

(***************************************************************************)
(* A Job's command is started once, or once per step of its plan, although *)
(* its start request may be delivered again.                               *)
(***************************************************************************)
SpawnedOnce ==
    \A j \in Jobs : spawns[j] <= IF j \in Validation THEN Steps ELSE 1

(***************************************************************************)
(* No wakeup is lost: while a Job waits and a slot is free, some thread is *)
(* on its way to look.                                                     *)
(***************************************************************************)
NoLostWakeup ==
    queued # <<>> /\ HasFreeSlot /\ ~ShuttingDown => waking > 0

(***************************************************************************)
(* What a record says only moves forward: from queued over running and     *)
(* stop requested to one terminal outcome, with growing update numbers,    *)
(* although updates of several threads reach it in any order.              *)
(***************************************************************************)
Rank(life) == CASE life = "RunnerQueued" -> 1 [] life = "Running" -> 2
                [] life = "StopRequested" -> 3 [] OTHER -> 4

LifecycleForward ==
    [][\A j \in Jobs : Present(rec[j]) /\ Present(rec'[j]) =>
          /\ Rank(rec[j].life) <= Rank(rec'[j].life)
          /\ IsTerminal(rec[j].life) => rec'[j] = rec[j]
          /\ (rec'[j].life # rec[j].life \/ rec'[j].exec # rec[j].exec) =>
                 rec'[j].seq > rec[j].seq]_vars

(***************************************************************************)
(* Every accepted Job ends, the ones that wait for a slot included, unless *)
(* the Runner shuts down.                                                  *)
(***************************************************************************)
AcceptedEnds ==
    \A j \in Jobs : IsRunnerActive(rec[j].life) ~>
                        (~IsRunnerActive(rec[j].life) \/ ShuttingDown)

(***************************************************************************)
(* Once the shutdown has signalled the Jobs it reaches all of them: what   *)
(* runs, or can still be started by a thread that passed its last check,   *)
(* has its stop flag raised, although requests were accepted and commands  *)
(* started while the shutdown began.                                       *)
(***************************************************************************)
ShutdownReachesAll ==
    phase \in {"signalled", "drained"} =>
        \A j \in Jobs :
            alive[j] \/ pc[j] \in {"spawn", "publish", "started", "running", "step"} =>
                stopFlag[j]

(***************************************************************************)
(* Whenever the Runner takes its Job inventory for a registration, the     *)
(* Server's rule for snapshots accepts every Job that was announced once.  *)
(* (Before its first update a record has number 0, which the rule refuses  *)
(* as well.)                                                               *)
(***************************************************************************)
InventoryAccepted ==
    \A j \in Jobs : rec[j].seq > 0 => ValidSnapshot(j \in Structured, rec[j])

(***************************************************************************)
(* An early stop is the only cause: a record that was announced and that   *)
(* the rule refuses says stop_requested of a Job that did not start.       *)
(* Queued, running and ended Jobs of every kind, however they ended, are   *)
(* accepted.                                                               *)
(***************************************************************************)
OnlyEarlyStopRefused ==
    \A j \in Jobs :
        rec[j].seq > 0 /\ ~ValidSnapshot(j \in Structured, rec[j]) =>
            rec[j].life = "StopRequested" /\ ~rec[j].started
===============================================================================
