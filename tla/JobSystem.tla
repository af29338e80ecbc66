------------------------------ MODULE JobSystem -------------------------------
(***************************************************************************)
(* The Server's registry and the Runner's executor at work together.  The  *)
(* requests that the registry hands out are what the executor serves, on   *)
(* threads of their own and in any order; what the executor records is     *)
(* what the registry is told, late, repeatedly, out of order or never.     *)
(* The Runner process may die at any moment and another one may take its   *)
(* place; the Server may restart.                                          *)
(*                                                                         *)
(* All Jobs are public and not detached; receipts are never written here,  *)
(* and the orderly shutdown of a process is left to JobManager: here it    *)
(* dies between any two steps.                                             *)
(* Every request reaches the executor: the result that a Runner submits    *)
(* for a start request that it cannot decode is the subject of             *)
(* RunnerRegistry, and no verdict is overturned here.                      *)
(* A registration takes its inventory and reaches the registry in one      *)
(* step: the gap between the two is the subject of UpdateDelivery.         *)
(***************************************************************************)
EXTENDS JobLifecycle, Integers, Sequences, FiniteSets

CONSTANTS
    Jobs, Structured, Instances, NoInst,
    MaxSeq, MaxConns, MaxRetired, QueueCap,
    MaxConcurrent, MaxActive, MaxOutputSeq, MaxStopSeq

ASSUME SystemAssumption ==
    /\ IsFiniteSet(Jobs) /\ Structured \subseteq Jobs
    /\ NoInst \notin Instances
    /\ MaxSeq \in Nat /\ MaxConns \in Nat /\ QueueCap \in Nat
    /\ MaxRetired \in Nat \ {0} /\ MaxConcurrent \in Nat \ {0}
    /\ MaxActive \in Nat /\ MaxOutputSeq \in Nat /\ MaxStopSeq \in Nat

(* Beyond the bounds on output and stops a process records three updates   *)
(* of a Job at most: the Server's bound on numbers leaves room for them.   *)
ASSUME NumberAssumption ==
    MaxSeq >= MaxOutputSeq + 3 /\ MaxSeq >= MaxStopSeq + 3

VARIABLES
    lease, retired, sessions, conns, jobs, pend, queue, handed, intents,
    suppressed, unwritten, receipts, known,
    rec, stopFlag, queued, phase, targets, pc, verdict, late, stopper, handle,
    waking, spawns, alive,
    inst,    \* the Runner process that runs
    dead,    \* Runner processes that ran before
    inbox,   \* requests handed to the process and not yet looked at
    sent,    \* updates that were ever recorded: each may arrive at any time
    starts   \* commands ever started, by all processes together

registryVars == <<lease, retired, sessions, conns, jobs, pend, queue, handed,
                  intents, suppressed, unwritten, receipts, known>>

managerVars == <<rec, stopFlag, queued, phase, targets, pc, verdict, late,
                 stopper, handle, waking, spawns, alive>>

linkVars == <<inst, dead, inbox, sent, starts>>

vars == <<registryVars, managerVars, linkVars>>

Registry == INSTANCE RunnerRegistry
    WITH Detached <- {}, MaxReceipts <- 0, Results <- {}, overturned <- {},
         Reports <- (RunnerActiveStates \cup TerminalStates) \X ExecutionStates

Manager == INSTANCE JobManager
    WITH Validation <- {}, Steps <- 1

Init ==
    /\ Registry!Init /\ Manager!Init
    /\ inst \in Instances
    /\ dead = {} /\ inbox = {} /\ sent = {}
    /\ starts = [j \in Jobs |-> 0]

-------------------------------------------------------------------------------
(* The Server alone *)

ServerStep ==
    /\ \/ \E j \in Jobs :
             \/ Registry!StartJob(j, "Public")
             \/ \E expired \in BOOLEAN :
                   Registry!ReadJob(j, expired) \/ Registry!StopJob(j, expired)
             \/ Registry!PruneTerminal(j)
       \/ \E S \in SUBSET Jobs : Registry!ExpireRecovering(S)
       \/ Registry!ExpireLease
       \/ Registry!GoStale
       \/ Registry!Restart
    /\ UNCHANGED <<managerVars, linkVars>>

-------------------------------------------------------------------------------
(* Between the two *)

(* The process is handed the oldest request, or the answer is lost. *)
Dispatch(s) ==
    /\ s \in sessions /\ s.inst = inst
    /\ Registry!Poll(s)
    /\ inbox' \in {inbox, inbox \cup {Head(queue)}}
    /\ UNCHANGED <<managerVars, inst, dead, sent, starts>>

(* Any update that was ever recorded arrives, over any session of its      *)
(* process, with the log snapshot that every sequenced update carries.     *)
Report(s, u) ==
    /\ s \in sessions /\ u \in sent /\ s.inst = u.inst
    /\ Registry!UpdateJob(s, u.job, [life |-> u.life, exec |-> u.exec,
                                     seq |-> u.seq, withLogs |-> TRUE])
    /\ UNCHANGED <<managerVars, linkVars>>

(* inventory(): every record that the process keeps. *)
Inventory ==
    [j \in { k \in Jobs : rec[k].life # "Absent" } |->
        [life |-> rec[j].life, exec |-> rec[j].exec, seq |-> rec[j].seq,
         started |-> rec[j].started]]

Register(conn, S) ==
    /\ Registry!Register(inst, conn, Inventory, S)
    /\ UNCHANGED <<managerVars, linkVars>>

Disconnect(s) ==
    /\ s \in sessions
    /\ Registry!Disconnect(s)
    /\ UNCHANGED <<managerVars, linkVars>>

-------------------------------------------------------------------------------
(* The Runner process *)

(* Every request has a dispatch thread of its own: a stop may overtake the *)
(* start of its Job.                                                       *)
Serve(r) ==
    /\ r \in inbox
    /\ \/ r.kind = "start" /\ Manager!Enqueue(r.job)
       \/ r.kind = "stop" /\ Manager!Stop(r.job)
    /\ inbox' = inbox \ {r}

Execute ==
    /\ \/ \E j \in Jobs : \/ Manager!AnnounceQueued(j) \/ Manager!JobStep(j)
                          \/ Manager!Output(j) \/ Manager!StopStep(j)
                          \/ Manager!Prune(j)
       \/ Manager!Wake
    /\ UNCHANGED inbox

(* Updates that this step recorded, on their way to the Server. *)
Recorded ==
    { [inst |-> inst, job |-> j, life |-> rec'[j].life, exec |-> rec'[j].exec,
       seq |-> rec'[j].seq] :
        j \in { k \in Jobs : rec'[k].seq > rec[k].seq } }

RunnerStep ==
    /\ Execute \/ \E r \in inbox : Serve(r)
    /\ sent' = sent \cup Recorded
    /\ starts' = [j \in Jobs |-> starts[j] + (spawns'[j] - spawns[j])]
    /\ UNCHANGED <<registryVars, inst, dead>>

(* The process dies with its records and its commands, and another one     *)
(* starts with none.                                                       *)
Replace(i) ==
    /\ i \in Instances \ (dead \cup {inst})
    /\ inst' = i /\ dead' = dead \cup {inst}
    /\ inbox' = {}
    /\ rec' = [j \in Jobs |-> Manager!NoRecord]
    /\ stopFlag' = [j \in Jobs |-> FALSE]
    /\ queued' = <<>> /\ phase' = "up" /\ waking' = 0
    /\ targets' = [j \in Jobs |-> 0] /\ handle' = [j \in Jobs |-> 0]
    /\ pc' = [j \in Jobs |-> "idle"] /\ stopper' = [j \in Jobs |-> "none"]
    /\ verdict' = [j \in Jobs |-> Manager!NoVerdict]
    /\ late' = [j \in Jobs |-> FALSE]
    /\ spawns' = [j \in Jobs |-> 0] /\ alive' = [j \in Jobs |-> FALSE]
    /\ UNCHANGED <<registryVars, sent, starts>>

Next ==
    \/ ServerStep
    \/ \E s \in sessions : Dispatch(s) \/ Disconnect(s) \/ \E u \in sent : Report(s, u)
    \/ \E conn \in Registry!NewConnection,
          S \in SUBSET { j \in Jobs : Registry!RecoveryActive(jobs[j]) } :
          Register(conn, S)
    \/ RunnerStep
    \/ \E i \in Instances : Replace(i)

Spec == Init /\ [][Next]_vars

-------------------------------------------------------------------------------
(* Properties *)

Contract == INSTANCE JobContract WITH
    accepted <- known,
    shown <- [j \in Jobs |-> IF jobs[j].life = "Absent" THEN "unknown"
                             ELSE IF IsTerminal(jobs[j].life) THEN jobs[j].life
                             ELSE "open"],
    runs <- starts

(* The Server and the Runner processes together keep the contract: across  *)
(* lost answers, late updates, reconnects, process replacement and Server  *)
(* restarts no command is started twice, nothing that did not run is shown *)
(* as completed and no end that is shown changes while its record is kept. *)
ImplementsContract == Contract!ContractSpec

(* The Server at work with these Runner processes is the Server of         *)
(* RunnerRegistry: whatever the executor records and however late it       *)
(* arrives is among what that module lets a Runner say.                    *)
ImplementsRegistry == Registry!Spec

(* A Job that the Server shows as ended on the Runner's word is over: its  *)
(* command does not run, nor will it ever be started.                      *)
ShownEndIsReal ==
    \A j \in Jobs :
        jobs[j].life \in TerminalStates \ {"Lost"} =>
            /\ ~alive[j]
            /\ pc[j] \in {"idle", "queued", "done"}
            /\ [kind |-> "start", job |-> j] \notin inbox

(* On the Runner's word not_started may be relied on: a Job that it ended  *)
(* as failed, stopped or cancelled with that execution state had no        *)
(* command started, however late its update or inventory arrived and       *)
(* whatever the Server rejected in between, and it never will have one.    *)
NotStartedUnlessLost ==
    \A j \in Jobs :
        jobs[j].life \in TerminalStates \ {"Lost"} /\ jobs[j].exec = "NotStarted" =>
            starts[j] = 0

(* What the Job output schema says: not_started means that no command was  *)
(* dispatched, so that a client may run the Job again without a look at    *)
(* the target.                                                             *)
NotStartedIsSafe ==
    \A j \in Jobs :
        IsTerminal(jobs[j].life) /\ jobs[j].exec = "NotStarted" => starts[j] = 0
===============================================================================
