---------------------------- MODULE JobSystemProofs ---------------------------
(***************************************************************************)
(* Proofs about the Server and its Runner processes at work together, for  *)
(* every set of Jobs, of processes and every bound: what the Server shows  *)
(* as ended is over, and the two together keep the client's contract.      *)
(***************************************************************************)
EXTENDS JobSystem, TLAPS

(* The executor with its proofs. *)
MP == INSTANCE JobManagerProofs WITH Validation <- {}, Steps <- 1

-------------------------------------------------------------------------------
(* The inductive invariant. *)

(* The Server's record of a Job.  Every Job is public, and no record comes *)
(* from a receipt.                                                         *)
ServerRecord ==
    [life: (Lifecycles \ {"StartedLegacy"}) \cup {"Absent"},
     inst: Instances \cup {NoInst}, vis: {"Public"}, seq: Nat,
     recovering: BOOLEAN, started: BOOLEAN, exec: ExecutionStates,
     candidate: BOOLEAN, hydrated: {FALSE}]

Lease == [inst: Instances \cup {NoInst}, conn: Nat, online: BOOLEAN,
          attached: BOOLEAN]

Update == [inst: Instances, job: Jobs, life: RunnerActiveStates \cup TerminalStates,
           exec: ExecutionStates, seq: Nat]

Start(j) == [kind |-> "start", job |-> j]

SystemTypes ==
    /\ lease \in Lease /\ conns \in Nat
    /\ jobs \in [Jobs -> ServerRecord]
    /\ receipts = [j \in Jobs |-> Registry!NoJob]
    /\ pend \in [Jobs -> {"none", "queued", "sent"}]
    /\ handed \in [Jobs -> SUBSET Instances]
    /\ inst \in Instances \ dead
    /\ inbox \subseteq [kind: {"start", "stop"}, job: Jobs]
    /\ sent \subseteq Update
    /\ starts \in [Jobs -> 0..1]

(* A start request is handed out once: to this process or to one that is   *)
(* gone.                                                                   *)
HandedOK(j) ==
    /\ handed[j] \subseteq dead \cup {inst}
    /\ \A a, b \in handed[j] : a = b
    /\ handed[j] # {} \/ jobs[j].life # "Absent" => j \in known
    /\ pend[j] = "queued" => jobs[j].life = "Queued"
    /\ jobs[j].life = "Queued" => handed[j] = {}

(* Only the process that was handed the request works on it. *)
WorkOK(j) ==
    /\ Start(j) \in inbox => inst \in handed[j] /\ pc[j] = "idle" /\ starts[j] = 0
    /\ pc[j] # "idle" => inst \in handed[j] /\ starts[j] = spawns[j]
    /\ handed[j] = {} => starts[j] = 0

(* No command of the Job runs or will be started by this process. *)
Over(j) == Start(j) \notin inbox /\ (pc[j] = "idle" \/ ~IsRunnerActive(rec[j].life))

(* What the Server may say of a Job. *)
Backed(j, life) ==
    /\ life = "Completed" => starts[j] = 1
    /\ life \in TerminalStates \ {"Lost"} => Over(j)

(* Every update was true when it was recorded, and a final one stays so. *)
UpdateOK(u) ==
    /\ u.inst \in handed[u.job]
    /\ u.life = "Completed" => starts[u.job] = 1
    /\ IsTerminal(u.life) \/ u.exec = "none"
    /\ u.inst = inst /\ IsTerminal(u.life) =>
           pc[u.job] # "idle" /\ ~IsRunnerActive(rec[u.job].life)

SystemInv ==
    /\ SystemTypes
    /\ MP!ManagerInv /\ MP!RanInv
    /\ \A j \in Jobs : HandedOK(j) /\ WorkOK(j) /\ Backed(j, jobs[j].life)
    /\ \A u \in sent : UpdateOK(u)

-------------------------------------------------------------------------------
(* The executor *)

(* The executor that the system runs is the one that the proofs are about. *)
LEMMA SameExecutor ==
  ASSUME NEW j \in Jobs
  PROVE  /\ Manager!Enqueue(j) => MP!Enqueue(j)
         /\ Manager!Stop(j) => MP!Stop(j)
         /\ Manager!AnnounceQueued(j) => MP!AnnounceQueued(j)
         /\ Manager!JobStep(j) => MP!JobStep(j)
         /\ Manager!Output(j) => MP!Output(j)
         /\ Manager!StopStep(j) => MP!StopStep(j)
         /\ Manager!Prune(j) => MP!Prune(j)
  <1> USE DEF Manager!Active, Manager!Admits, Manager!Conclude, Manager!Goto,
        Manager!GotoStop, Manager!HasFreeSlot, Manager!NoRecord, Manager!NoVerdict,
        Manager!PreStart, Manager!Present, Manager!Record, Manager!RecordUpdate,
        Manager!Refused, Manager!Regresses, Manager!Reserved, Manager!ShellExec,
        Manager!ShuttingDown, Manager!procVars, Manager!IsTerminal,
        Manager!TerminalStates, Manager!IsRunnerActive, Manager!RunnerActiveStates,
        Manager!Cardinality, Manager!IsFiniteSet
  <1> USE DEF MP!Active, MP!Admits, MP!Conclude, MP!Goto, MP!GotoStop, MP!HasFreeSlot,
        MP!NoRecord, MP!NoVerdict, MP!PreStart, MP!Present, MP!Record, MP!RecordUpdate,
        MP!Refused, MP!Regresses, MP!Reserved, MP!ShellExec, MP!ShuttingDown,
        MP!procVars, MP!IsTerminal, MP!TerminalStates, MP!IsRunnerActive,
        MP!RunnerActiveStates, MP!Cardinality, MP!IsFiniteSet
  <1>1. Manager!Enqueue(j) => MP!Enqueue(j)
    BY Zenon DEF Manager!Enqueue, MP!Enqueue
  <1>2. Manager!Stop(j) => MP!Stop(j)
    BY Zenon DEF Manager!Stop, MP!Stop
  <1>3. Manager!AnnounceQueued(j) => MP!AnnounceQueued(j)
    BY Zenon DEF Manager!AnnounceQueued, MP!AnnounceQueued
  <1>4. Manager!JobStep(j) => MP!JobStep(j)
    BY Zenon DEF Manager!JobStep, Manager!Announce, Manager!StartNow,
         Manager!PrepareFails, Manager!Fence, Manager!Check, Manager!Spawn,
         Manager!SpawnFails, Manager!Publish, Manager!Started, Manager!Finish,
         Manager!NextStep, Manager!FinishStructured, Manager!Settle, Manager!ReportEnd,
         MP!JobStep, MP!Announce, MP!StartNow, MP!PrepareFails, MP!Fence, MP!Check,
         MP!Spawn, MP!SpawnFails, MP!Publish, MP!Started, MP!Finish, MP!NextStep,
         MP!FinishStructured, MP!Settle, MP!ReportEnd
  <1>5. Manager!Output(j) => MP!Output(j)
    BY Zenon DEF Manager!Output, MP!Output
  <1>6. Manager!StopStep(j) => MP!StopStep(j)
    BY Zenon DEF Manager!StopStep, Manager!StopCancel, Manager!StopLook,
         Manager!StopFlag, Manager!StopTell, Manager!StopKill, MP!StopStep,
         MP!StopCancel, MP!StopLook, MP!StopFlag, MP!StopTell, MP!StopKill
  <1>7. Manager!Prune(j) => MP!Prune(j)
    BY Zenon DEF Manager!Prune, MP!Prune
  <1>8. QED
    BY <1>1, <1>2, <1>3, <1>4, <1>5, <1>6, <1>7, Zenon

(* The same of the step that belongs to no Job. *)
LEMMA SameWake == Manager!Wake => MP!Wake
  BY Zenon DEF Manager!Wake, Manager!ShuttingDown, Manager!HasFreeSlot, Manager!Reserved,
       Manager!Active, Manager!IsRunnerActive, Manager!RunnerActiveStates,
       Manager!Cardinality, Manager!IsFiniteSet, Manager!Goto, Manager!procVars,
       MP!Wake, MP!ShuttingDown, MP!HasFreeSlot, MP!Reserved, MP!Active,
       MP!IsRunnerActive, MP!RunnerActiveStates, MP!Cardinality, MP!IsFiniteSet,
       MP!Goto, MP!procVars

(* What the proofs about the executor say of one Job. *)
ExecutorOK(j) ==
    /\ rec[j].life \in RunnerActiveStates \cup TerminalStates \cup {"Absent"}
    /\ rec[j].exec \in ExecutionStates /\ rec[j].seq \in Nat
    /\ rec[j].started \in BOOLEAN
    /\ spawns[j] \in 0..1
    /\ pc[j] = "idle" => rec[j].life = "Absent" /\ spawns[j] = 0
    /\ pc[j] = "spawn" => spawns[j] = 0
    /\ pc[j] \notin {"idle", "queued", "done"} => IsRunnerActive(rec[j].life)
    /\ IsRunnerActive(rec[j].life) => rec[j].exec = "none"
    /\ rec[j].life = "Completed" => spawns[j] = 1
    /\ alive[j] => pc[j] \in {"publish", "started", "running"}

ExecutorInv == \A j \in Jobs : ExecutorOK(j)

(* The executor's invariant gives these facts. *)
LEMMA ExecutorFacts == MP!ManagerInv /\ MP!RanInv => ExecutorInv
  <1> SUFFICES ASSUME MP!ManagerInv, MP!RanInv, NEW j \in Jobs PROVE ExecutorOK(j)
    BY DEF ExecutorInv
  <1>1. /\ rec[j] \in MP!JobRecord /\ spawns[j] \in 0..1 /\ pc[j] \in MP!Places
        /\ MP!JobOK(j) /\ MP!Ran(j)
    BY DEF MP!ManagerInv, MP!TypeOK, MP!RanInv
  <1>2. /\ MP!RecordOK(j) /\ MP!PlaceOK(j) /\ MP!CommandOK(j)
    BY <1>1 DEF MP!JobOK
  <1> USE DEF MP!IsRunnerActive, MP!RunnerActiveStates, IsRunnerActive, RunnerActiveStates
  <1>3. /\ rec[j].life \in RunnerActiveStates \cup TerminalStates \cup {"Absent"}
        /\ rec[j].exec \in ExecutionStates /\ rec[j].seq \in Nat
        /\ rec[j].started \in BOOLEAN
    BY <1>1 DEF MP!JobRecord, MP!TerminalStates, TerminalStates, MP!ExecutionStates,
                ExecutionStates
  <1>4. /\ pc[j] = "idle" => rec[j].life = "Absent" /\ spawns[j] = 0
        /\ pc[j] = "spawn" => spawns[j] = 0
    BY <1>1, <1>2 DEF MP!RecordOK, MP!CommandOK, MP!BeforeSpawn, MP!Present, MP!Limit
  <1>5. pc[j] \notin {"idle", "queued", "done"} => IsRunnerActive(rec[j].life)
    BY <1>1, <1>2 DEF MP!RecordOK, MP!Carried
  <1>6. IsRunnerActive(rec[j].life) => rec[j].exec = "none"
    BY <1>2 DEF MP!RecordOK, MP!WellFormed
  <1>7. rec[j].life = "Completed" => spawns[j] = 1
    BY <1>1 DEF MP!Ran
  <1>8. alive[j] => pc[j] \in {"publish", "started", "running"}
    BY <1>2 DEF MP!PlaceOK
  <1>9. QED
    BY <1>1, <1>3, <1>4, <1>5, <1>6, <1>7, <1>8 DEF ExecutorOK

(* The same in the state after a step. *)
LEMMA ExecutorFactsNext == MP!ManagerInv' /\ MP!RanInv' => ExecutorInv'
  BY ExecutorFacts, PTL

(* What a step of the Runner process does to one Job: a start request      *)
(* begins it, or nothing does.                                             *)
Begins(j) ==
    /\ Start(j) \in inbox /\ Start(j) \notin inbox'
    /\ pc[j] = "idle" /\ pc'[j] # "idle"
    /\ spawns'[j] = spawns[j]
    /\ rec'[j].life # "Absent"

Continues(j) ==
    /\ (pc'[j] = "idle") <=> (pc[j] = "idle")
    /\ rec'[j].seq > rec[j].seq => rec'[j].life # "Absent"
    /\ pc[j] # "idle" /\ ~IsRunnerActive(rec[j].life) => ~IsRunnerActive(rec'[j].life)
    /\ spawns'[j] # spawns[j] => pc[j] = "spawn" /\ spawns'[j] = spawns[j] + 1

RunnerWorks ==
    /\ MP!ManagerInv' /\ MP!RanInv' /\ MP!SpawnsOne
    /\ inbox' \subseteq inbox
    /\ \A j \in Jobs : Begins(j) \/ Continues(j)

(* A step that leaves the executor alone keeps its invariant. *)
LEMMA ManagerUntouched ==
  ASSUME SystemInv, UNCHANGED managerVars PROVE MP!ManagerInv' /\ MP!RanInv'
  <1>1. MP!ManagerInv /\ MP!RanInv
    BY DEF SystemInv
  <1>2. UNCHANGED MP!vars
    BY DEF managerVars, MP!vars
  <1>3. MP!Visible
    BY <1>1, <1>2, MP!WorkVisible, SystemAssumption DEF MP!IsFiniteSet, IsFiniteSet
  <1>4. MP!ManagerInv'
    BY <1>1, <1>2, MP!ManagerNext, SystemAssumption DEF MP!IsFiniteSet, IsFiniteSet
  <1>5. QED
    BY <1>3, <1>4 DEF MP!Visible

(* Every step of the executor that is no admission. *)
LEMMA WorkContinues ==
  ASSUME SystemInv, MP!Work, inbox' \subseteq inbox
  PROVE  RunnerWorks
  <1>1. MP!ManagerInv /\ MP!RanInv
    BY DEF SystemInv
  <1>2. [MP!Next]_(MP!vars)
    BY Zenon DEF MP!Work, MP!Next
  <1>3. MP!Visible
    BY <1>1, MP!WorkVisible, SystemAssumption DEF MP!IsFiniteSet, IsFiniteSet
  <1>4. MP!ManagerInv' /\ MP!AllForward
    BY <1>1, <1>2, MP!ManagerNext, SystemAssumption DEF MP!IsFiniteSet, IsFiniteSet
  <1>5. MP!SpawnsOne /\ MP!RanInv' /\ \A j \in Jobs : MP!Steady(j)
    BY <1>3 DEF MP!Visible
  <1>6. ASSUME NEW j \in Jobs PROVE Continues(j)
    <2>1. ExecutorOK(j) /\ spawns \in [Jobs -> 0..1]
      BY <1>1, ExecutorFacts DEF ExecutorInv, MP!ManagerInv, MP!TypeOK
    <2>2. /\ (pc'[j] = "idle") <=> (pc[j] = "idle")
          /\ rec[j].life = "Absent" => rec'[j].life = "Absent"
          /\ rec'[j].seq > rec[j].seq => rec'[j].life # "Absent"
      BY <1>5 DEF MP!Steady, MP!Present
    <2>3. IsTerminal(rec[j].life) => rec'[j] = rec[j] \/ rec'[j].life = "Absent"
      BY <1>4 DEF MP!AllForward, MP!Forward, MP!Present, MP!IsTerminal,
                  MP!TerminalStates, IsTerminal, TerminalStates
    <2>4. ~IsRunnerActive(rec[j].life) => ~IsRunnerActive(rec'[j].life)
      BY <2>1, <2>2, <2>3 DEF ExecutorOK, IsTerminal, IsRunnerActive, RunnerActiveStates
    <2>5. spawns'[j] # spawns[j] => pc[j] = "spawn" /\ spawns'[j] = spawns[j] + 1
      BY <1>5, <2>1 DEF MP!SpawnsOne
    <2>6. QED
      BY <2>2, <2>4, <2>5 DEF Continues
  <1>7. QED
    BY <1>4, <1>5, <1>6 DEF RunnerWorks

(* The admission of a start request. *)
LEMMA EnqueueBegins ==
  ASSUME SystemInv, NEW j \in Jobs, MP!Enqueue(j), Start(j) \in inbox,
         inbox' = inbox \ {Start(j)}
  PROVE  RunnerWorks
  <1>1. MP!ManagerInv /\ MP!RanInv
    BY DEF SystemInv
  <1>2. [MP!Next]_(MP!vars)
    BY Zenon DEF MP!Next
  <1>3. MP!ManagerInv' /\ MP!AllForward
    BY <1>1, <1>2, MP!ManagerNext, SystemAssumption DEF MP!IsFiniteSet, IsFiniteSet
  <1>4. /\ pc[j] = "idle" /\ pc'[j] # "idle"
        /\ ~MP!Present(rec[j]) /\ MP!Present(rec'[j])
        /\ \A i \in Jobs \ {j} : MP!Steady(i)
        /\ spawns' = spawns
        /\ MP!RanInv'
    BY <1>1, MP!EnqueueVisible, SystemAssumption DEF MP!IsFiniteSet, IsFiniteSet
  <1>5. Begins(j)
    BY <1>4 DEF Begins, MP!Present
  <1>6. ASSUME NEW i \in Jobs \ {j} PROVE Continues(i)
    <2>1. ExecutorOK(i)
      BY <1>1, ExecutorFacts DEF ExecutorInv
    <2>2. /\ (pc'[i] = "idle") <=> (pc[i] = "idle")
          /\ rec[i].life = "Absent" => rec'[i].life = "Absent"
          /\ rec'[i].seq > rec[i].seq => rec'[i].life # "Absent"
      BY <1>4 DEF MP!Steady, MP!Present
    <2>3. IsTerminal(rec[i].life) => rec'[i] = rec[i] \/ rec'[i].life = "Absent"
      BY <1>3 DEF MP!AllForward, MP!Forward, MP!Present, MP!IsTerminal,
                  MP!TerminalStates, IsTerminal, TerminalStates
    <2>4. ~IsRunnerActive(rec[i].life) => ~IsRunnerActive(rec'[i].life)
      BY <2>1, <2>2, <2>3 DEF ExecutorOK, IsTerminal, IsRunnerActive, RunnerActiveStates
    <2>5. QED
      BY <1>4, <2>2, <2>4 DEF Continues
  <1>7. MP!SpawnsOne
    BY <1>4 DEF MP!SpawnsOne
  <1>8. QED
    BY <1>3, <1>4, <1>5, <1>6, <1>7 DEF RunnerWorks

(* Both together: every step of the Runner process. *)
LEMMA RunnerStepWorks == ASSUME SystemInv, RunnerStep PROVE RunnerWorks
  <1>1. CASE Execute
    <2>1. MP!Work
      BY <1>1, SameExecutor, SameWake, Zenon DEF Execute, MP!Work
    <2>2. inbox' \subseteq inbox
      BY <1>1 DEF Execute
    <2>3. QED
      BY <2>1, <2>2, WorkContinues
  <1>2. ASSUME NEW r \in inbox, Serve(r) PROVE RunnerWorks
    <2>1. r \in [kind: {"start", "stop"}, job: Jobs]
      BY DEF SystemInv, SystemTypes
    <2>2. CASE r.kind = "start" /\ Manager!Enqueue(r.job)
      <3>1. r = Start(r.job) /\ r.job \in Jobs
        BY <2>1, <2>2 DEF Start
      <3>2. MP!Enqueue(r.job)
        BY <2>2, <3>1, SameExecutor
      <3>3. inbox' = inbox \ {Start(r.job)} /\ Start(r.job) \in inbox
        BY <1>2, <3>1 DEF Serve
      <3>4. QED
        BY <3>1, <3>2, <3>3, EnqueueBegins
    <2>3. CASE r.kind = "stop" /\ Manager!Stop(r.job)
      <3>1. r.job \in Jobs
        BY <2>1
      <3>2. MP!Stop(r.job)
        BY <2>3, <3>1, SameExecutor
      <3>3. MP!Work
        BY <3>1, <3>2, Zenon DEF MP!Work
      <3>4. QED
        BY <1>2, <3>3, WorkContinues DEF Serve
    <2>4. QED
      BY <1>2, <2>2, <2>3 DEF Serve
  <1>3. QED
    BY <1>1, <1>2 DEF RunnerStep

(* Such a step keeps what relates one Job to the requests. *)
LEMMA RunnerKeepsWork ==
  ASSUME SystemInv, RunnerStep, RunnerWorks, NEW j \in Jobs
  PROVE  /\ starts'[j] \in 0..1 /\ starts[j] <= starts'[j]
         /\ HandedOK(j)' /\ WorkOK(j)' /\ Backed(j, jobs[j].life)'
         /\ pc[j] # "idle" /\ ~IsRunnerActive(rec[j].life) =>
                pc'[j] # "idle" /\ ~IsRunnerActive(rec'[j].life)
  <1>1. /\ HandedOK(j) /\ WorkOK(j) /\ Backed(j, jobs[j].life) /\ ExecutorOK(j)
        /\ starts[j] \in 0..1
    BY ExecutorFacts DEF ExecutorInv, SystemInv, SystemTypes
  <1>2. ExecutorOK(j)'
    BY ExecutorFactsNext DEF RunnerWorks, ExecutorInv
  <1>3. /\ starts'[j] = starts[j] + (spawns'[j] - spawns[j])
        /\ jobs' = jobs /\ pend' = pend /\ handed' = handed /\ known' = known
        /\ inst' = inst /\ dead' = dead /\ inbox' \subseteq inbox
    BY DEF RunnerStep, registryVars, RunnerWorks
  <1>4. HandedOK(j)'
    BY <1>1, <1>3 DEF HandedOK
  <1>5. CASE Begins(j)
    <2>1. /\ inst \in handed[j] /\ starts[j] = 0 /\ spawns[j] = 0 /\ Start(j) \in inbox
      BY <1>1, <1>5 DEF Begins, WorkOK, ExecutorOK
    <2>2. starts'[j] = 0 /\ spawns'[j] = 0 /\ pc'[j] # "idle" /\ Start(j) \notin inbox'
          /\ pc[j] = "idle"
      BY <1>3, <1>5, <2>1 DEF Begins
    <2>3. WorkOK(j)'
      BY <1>3, <2>1, <2>2 DEF WorkOK, Start
    <2>4. jobs[j].life # "Completed" /\ jobs[j].life \notin TerminalStates \ {"Lost"}
      BY <1>1, <2>1 DEF Backed, Over
    <2>5. Backed(j, jobs[j].life)'
      BY <1>3, <2>4 DEF Backed
    <2>6. QED
      BY <1>4, <2>1, <2>2, <2>3, <2>5
  <1>6. CASE Continues(j)
    <2>1. /\ (pc'[j] = "idle") <=> (pc[j] = "idle")
          /\ pc[j] # "idle" /\ ~IsRunnerActive(rec[j].life) =>
                ~IsRunnerActive(rec'[j].life)
          /\ spawns'[j] # spawns[j] => pc[j] = "spawn" /\ spawns'[j] = spawns[j] + 1
      BY <1>6 DEF Continues
    <2>2. spawns[j] \in 0..1 /\ spawns'[j] \in 0..1
      BY <1>1, <1>2 DEF ExecutorOK
    <2>3. pc[j] = "idle" => starts'[j] = starts[j]
      BY <1>1, <1>3, <2>1, <2>2
    <2>4. pc[j] # "idle" => inst \in handed[j] /\ starts'[j] = spawns'[j]
      BY <1>1, <1>3, <2>2 DEF WorkOK
    <2>5. starts'[j] \in 0..1 /\ starts[j] <= starts'[j]
      BY <1>1, <1>3, <2>1, <2>2, <2>3, <2>4 DEF WorkOK
    <2>6. WorkOK(j)'
      BY <1>1, <1>3, <2>1, <2>3, <2>4 DEF WorkOK, Start
    <2>7. Backed(j, jobs[j].life)'
      BY <1>1, <1>3, <2>1, <2>5 DEF Backed, Over, Start
    <2>8. QED
      BY <1>4, <2>1, <2>5, <2>6, <2>7
  <1>7. QED
    BY <1>5, <1>6 DEF RunnerWorks

(* What the step recorded is true. *)
LEMMA RecordedOK ==
  ASSUME SystemInv, RunnerStep, RunnerWorks, NEW u \in Recorded
  PROVE  u \in Update /\ UpdateOK(u)'
  <1>1. PICK j \in Jobs :
           /\ rec'[j].seq > rec[j].seq
           /\ u = [inst |-> inst, job |-> j, life |-> rec'[j].life,
                   exec |-> rec'[j].exec, seq |-> rec'[j].seq]
    BY DEF Recorded
  <1>2. ExecutorOK(j)' /\ WorkOK(j)' /\ inst' = inst /\ inst \in Instances
    BY ExecutorFactsNext, RunnerKeepsWork
       DEF ExecutorInv, RunnerWorks, RunnerStep, SystemInv, SystemTypes
  <1>3. rec'[j].life # "Absent"
    BY <1>1 DEF RunnerWorks, Begins, Continues
  <1>4. u \in Update
    BY <1>1, <1>2, <1>3 DEF ExecutorOK, Update
  <1>5. pc'[j] # "idle" /\ inst \in handed'[j] /\ starts'[j] = spawns'[j]
    BY <1>2, <1>3 DEF ExecutorOK, WorkOK
  <1>6. /\ rec'[j].life = "Completed" => spawns'[j] = 1
        /\ IsRunnerActive(rec'[j].life) => rec'[j].exec = "none"
        /\ rec'[j].life \in RunnerActiveStates \cup TerminalStates
    BY <1>2, <1>3 DEF ExecutorOK
  <1>7. u.inst = inst /\ u.job = j /\ u.life = rec'[j].life /\ u.exec = rec'[j].exec
    BY <1>1
  <1>8. u.inst \in handed'[u.job] /\ (u.life = "Completed" => starts'[u.job] = 1)
    BY <1>5, <1>6, <1>7
  <1>9. IsTerminal(u.life) \/ u.exec = "none"
    BY <1>6, <1>7 DEF IsTerminal, IsRunnerActive
  <1>10. IsTerminal(u.life) => pc'[u.job] # "idle" /\ ~IsRunnerActive(rec'[u.job].life)
    BY <1>5, <1>7 DEF IsTerminal, IsRunnerActive, TerminalStates, RunnerActiveStates
  <1>11. QED
    BY <1>4, <1>8, <1>9, <1>10 DEF UpdateOK

(* A step of the Runner process keeps the invariant. *)
LEMMA RunnerPreserves == ASSUME SystemInv, RunnerStep PROVE SystemInv'
  <1>1. RunnerWorks
    BY RunnerStepWorks
  <1>2. /\ UNCHANGED <<registryVars, inst, dead>> /\ sent' = sent \cup Recorded
        /\ starts' = [j \in Jobs |-> starts[j] + (spawns'[j] - spawns[j])]
        /\ inbox' \subseteq inbox
    BY <1>1 DEF RunnerStep, RunnerWorks
  <1>3. \A j \in Jobs : HandedOK(j)' /\ WorkOK(j)' /\ Backed(j, jobs[j].life)'
    BY <1>1, RunnerKeepsWork
  <1>4. starts' \in [Jobs -> 0..1]
    BY <1>1, <1>2, RunnerKeepsWork
  <1>5. SystemTypes'
    BY <1>1, <1>2, <1>4, RecordedOK DEF SystemInv, SystemTypes, registryVars
  <1>6. ASSUME NEW u \in sent PROVE UpdateOK(u)'
    <2>1. UpdateOK(u) /\ u.job \in Jobs /\ starts[u.job] \in 0..1
      BY DEF SystemInv, SystemTypes, Update
    <2>2. /\ starts'[u.job] \in 0..1 /\ starts[u.job] <= starts'[u.job]
          /\ pc[u.job] # "idle" /\ ~IsRunnerActive(rec[u.job].life) =>
                pc'[u.job] # "idle" /\ ~IsRunnerActive(rec'[u.job].life)
      BY <1>1, <2>1, RunnerKeepsWork
    <2>3. handed' = handed /\ inst' = inst
      BY <1>2 DEF registryVars
    <2>4. QED
      BY <2>1, <2>2, <2>3 DEF UpdateOK
  <1>7. \A u \in sent' : UpdateOK(u)'
    BY <1>1, <1>2, <1>6, RecordedOK
  <1>8. QED
    BY <1>1, <1>3, <1>5, <1>7 DEF SystemInv, RunnerWorks

-------------------------------------------------------------------------------
(* The Server *)

(* The registry speaks of lifecycles as the rest does. *)
LEMMA RegistryVocabulary ==
  /\ \A life : Registry!IsTerminal(life) <=> IsTerminal(life)
  /\ \A life : Registry!IsRunnerActive(life) <=> IsRunnerActive(life)
  /\ \A r : Registry!Present(r) <=> r.life # "Absent"
  BY DEF Registry!IsTerminal, Registry!TerminalStates, IsTerminal, TerminalStates,
         Registry!IsRunnerActive, Registry!RunnerActiveStates, IsRunnerActive,
         RunnerActiveStates, Registry!Present

(* No record at all is a record of the type. *)
LEMMA NoJobType == Registry!NoJob \in ServerRecord /\ Registry!NoJob.life = "Absent"
  BY DEF Registry!NoJob, ServerRecord, ExecutionStates

(* A Job that has not ended is lost, one that has ended stays as it is. *)
LEMMA MarkLostOK ==
  ASSUME NEW j \in Jobs, NEW r \in ServerRecord
  PROVE  /\ Registry!MarkLost(j, r) \in ServerRecord
         /\ r.life = "Absent" \/ IsTerminal(r.life) => Registry!MarkLost(j, r) = r
         /\ ~(r.life = "Absent" \/ IsTerminal(r.life)) =>
                Registry!MarkLost(j, r).life = "Lost"
  <1>1. CASE r.life = "Absent" \/ IsTerminal(r.life)
    BY <1>1, RegistryVocabulary DEF Registry!MarkLost
  <1>2. CASE ~(r.life = "Absent" \/ IsTerminal(r.life))
    <2>1. Registry!OwnExecutionState(j, r) \in ExecutionStates
      BY DEF Registry!OwnExecutionState, ExecutionStates, ServerRecord
    <2>2. Registry!MarkLost(j, r) =
             [r EXCEPT !.life = "Lost", !.exec = Registry!OwnExecutionState(j, r),
                       !.recovering = FALSE]
      BY <1>2, RegistryVocabulary DEF Registry!MarkLost
    <2>3. "Lost" \in Lifecycles \ {"StartedLegacy"}
      BY DEF Lifecycles
    <2>4. QED
      BY <1>2, <2>1, <2>2, <2>3 DEF ServerRecord
  <1>3. QED
    BY <1>1, <1>2

(* Recovery is an overlay: the lifecycle stays. *)
LEMMA BeginRecoveryOK ==
  ASSUME NEW r \in ServerRecord
  PROVE  Registry!BeginRecovery(r) \in ServerRecord /\ Registry!BeginRecovery(r).life = r.life
  BY DEF Registry!BeginRecovery, ServerRecord

(* A refresh may lose a Job that the Runner works on, and no other. *)
LEMMA RefreshOK ==
  ASSUME NEW j \in Jobs, NEW r \in ServerRecord, NEW online, NEW expired
  PROVE  LET q == Registry!Refresh(j, r, online, expired)
         IN  /\ q \in ServerRecord
             /\ q.life = r.life \/ (q.life = "Lost" /\ IsRunnerActive(r.life))
  <1>1. IsRunnerActive(r.life) => ~(r.life = "Absent" \/ IsTerminal(r.life))
    BY DEF IsRunnerActive, RunnerActiveStates, IsTerminal, TerminalStates
  <1>2. \/ Registry!Refresh(j, r, online, expired) = r
        \/ /\ Registry!Refresh(j, r, online, expired) = Registry!MarkLost(j, r)
           /\ IsRunnerActive(r.life)
        \/ Registry!Refresh(j, r, online, expired) = Registry!BeginRecovery(r)
    BY RegistryVocabulary DEF Registry!Refresh
  <1>3. QED
    BY <1>1, <1>2, MarkLostOK, BeginRecoveryOK

(* Nothing awaits cleanup. *)
LEMMA NothingCleanedUp == ASSUME NEW r \in ServerRecord PROVE Registry!DropCleanedUp(r) = r
  BY DEF Registry!DropCleanedUp, ServerRecord

(* What a step of the Server may do to one Job: an end that is shown stays *)
(* or goes, and what is said newly is backed.                              *)
ServerRel(j) ==
    /\ IsTerminal(jobs[j].life) => jobs'[j].life \in {jobs[j].life, "Absent"}
    /\ \/ jobs'[j].life \in {jobs[j].life, "Absent"}
       \/ jobs'[j].life # "Queued" /\ j \in known /\ Backed(j, jobs'[j].life)
    /\ pend'[j] = "queued" => pend[j] = "queued" /\ jobs'[j].life = jobs[j].life

ServerOK ==
    /\ lease' \in Lease /\ conns' \in Nat
    /\ jobs' \in [Jobs -> ServerRecord]
    /\ pend' \in [Jobs -> {"none", "queued", "sent"}]
    /\ UNCHANGED <<receipts, handed, known>>
    /\ \A j \in Jobs : ServerRel(j)

(* A step of the Server that does so keeps the invariant. *)
LEMMA ServerPreserves ==
  ASSUME SystemInv, ServerOK, UNCHANGED <<managerVars, linkVars>>
  PROVE  SystemInv'
  <1>1. /\ inst' = inst /\ dead' = dead /\ inbox' = inbox /\ sent' = sent
        /\ starts' = starts /\ pc' = pc /\ rec' = rec /\ spawns' = spawns
        /\ handed' = handed /\ known' = known /\ receipts' = receipts
    BY DEF managerVars, linkVars, ServerOK
  <1>2. SystemTypes'
    BY <1>1 DEF SystemInv, SystemTypes, ServerOK
  <1>3. MP!ManagerInv' /\ MP!RanInv'
    BY ManagerUntouched
  <1>4. ASSUME NEW j \in Jobs
        PROVE  HandedOK(j)' /\ WorkOK(j)' /\ Backed(j, jobs[j].life)'
    <2>1. /\ HandedOK(j) /\ WorkOK(j) /\ Backed(j, jobs[j].life) /\ ServerRel(j)
          /\ pend[j] \in {"none", "queued", "sent"}
      BY DEF SystemInv, SystemTypes, ServerOK
    <2>2. HandedOK(j)'
      BY <1>1, <2>1 DEF HandedOK, ServerRel
    <2>3. WorkOK(j)'
      BY <1>1, <2>1 DEF WorkOK, Start
    <2>4. Over(j)' <=> Over(j)
      BY <1>1 DEF Over, Start
    <2>5. Backed(j, jobs'[j].life)
      BY <2>1 DEF ServerRel, Backed, TerminalStates
    <2>6. Backed(j, jobs[j].life)'
      BY <1>1, <2>4, <2>5 DEF Backed
    <2>7. QED
      BY <2>2, <2>3, <2>6
  <1>5. \A u \in sent' : UpdateOK(u)'
    BY <1>1 DEF SystemInv, UpdateOK
  <1>6. QED
    BY <1>2, <1>3, <1>4, <1>5 DEF SystemInv

(* A Job that keeps its lifecycle. *)
LEMMA ServerSame ==
  ASSUME NEW j \in Jobs, jobs'[j].life = jobs[j].life, pend'[j] \in {pend[j], "none"}
  PROVE  ServerRel(j)
  BY DEF ServerRel

(* A Job that the Server gives up. *)
LEMMA ServerLoses ==
  ASSUME SystemInv, NEW j \in Jobs, jobs'[j].life = "Lost",
         jobs[j].life # "Absent", ~IsTerminal(jobs[j].life),
         pend'[j] = "none" \/ (IsRunnerActive(jobs[j].life) /\ pend'[j] = pend[j])
  PROVE  ServerRel(j)
  <1>1. HandedOK(j)
    BY DEF SystemInv
  <1>2. pend'[j] # "queued"
    BY <1>1 DEF HandedOK, IsRunnerActive, RunnerActiveStates
  <1>3. j \in known /\ Backed(j, "Lost")
    BY <1>1 DEF HandedOK, Backed
  <1>4. QED
    BY <1>2, <1>3 DEF ServerRel

(* Refreshing a record that is read. *)
LEMMA ReadOK ==
  ASSUME SystemInv, NEW j \in Jobs, NEW expired \in BOOLEAN, Registry!ReadJob(j, expired)
  PROVE  ServerOK
  <1> DEFINE q == Registry!Refresh(j, jobs[j], lease.online, expired)
  <1>1. /\ jobs \in [Jobs -> ServerRecord] /\ lease \in Lease /\ conns \in Nat
        /\ pend \in [Jobs -> {"none", "queued", "sent"}]
    BY DEF SystemInv, SystemTypes
  <1>2. /\ jobs' = [jobs EXCEPT ![j] = q] /\ pend' = pend
        /\ UNCHANGED <<lease, conns, receipts, handed, known>>
    BY DEF Registry!ReadJob, Registry!runnerVars
  <1>3. /\ q \in ServerRecord
        /\ q.life = jobs[j].life \/ (q.life = "Lost" /\ IsRunnerActive(jobs[j].life))
    BY <1>1, RefreshOK
  <1> HIDE DEF q
  <1>4. jobs' \in [Jobs -> ServerRecord]
    BY <1>1, <1>2, <1>3
  <1>5. ASSUME NEW i \in Jobs PROVE ServerRel(i)
    <2>1. CASE jobs'[i].life = jobs[i].life
      BY <1>2, <2>1, ServerSame
    <2>2. CASE jobs'[i].life # jobs[i].life
      <3>1. i = j /\ jobs'[i].life = "Lost" /\ IsRunnerActive(jobs[i].life)
        BY <1>1, <1>2, <1>3, <2>2
      <3>2. QED
        BY <1>2, <3>1, ServerLoses
           DEF IsRunnerActive, RunnerActiveStates, IsTerminal, TerminalStates
    <2>3. QED
      BY <2>1, <2>2
  <1>6. QED
    BY <1>1, <1>2, <1>4, <1>5 DEF ServerOK

(* stop_job: an undispatched Job ends at once, and it was never handed out. *)
LEMMA StopOK ==
  ASSUME SystemInv, NEW j \in Jobs, NEW expired \in BOOLEAN, Registry!StopJob(j, expired)
  PROVE  ServerOK
  <1> DEFINE r == Registry!Refresh(j, jobs[j], lease.online, expired)
  <1>1. /\ jobs \in [Jobs -> ServerRecord] /\ lease \in Lease /\ conns \in Nat
        /\ pend \in [Jobs -> {"none", "queued", "sent"}] /\ HandedOK(j) /\ WorkOK(j)
    BY DEF SystemInv, SystemTypes
  <1>2. UNCHANGED <<lease, conns, receipts, handed, known>>
    BY DEF Registry!StopJob, Registry!runnerVars
  <1>3. /\ r \in ServerRecord
        /\ r.life = jobs[j].life \/ (r.life = "Lost" /\ IsRunnerActive(jobs[j].life))
    BY <1>1, RefreshOK
  <1>4. \/ /\ r.life = "Queued" /\ pend' = [pend EXCEPT ![j] = "none"]
           /\ jobs' = [jobs EXCEPT ![j] = Registry!StoppedBeforeDispatch(j, r)]
        \/ /\ r.life \in {"RunnerQueued", "Running"} /\ pend' = pend
           /\ jobs' = [jobs EXCEPT ![j] = [r EXCEPT !.life = "StopRequested"]]
        \/ /\ pend' = pend
           /\ jobs' = [jobs EXCEPT ![j] = r]
    BY DEF Registry!StopJob, Registry!DropStartRequest
  <1> HIDE DEF r
  <1>5. PICK q \in ServerRecord :
           /\ jobs' = [jobs EXCEPT ![j] = q]
           /\ \/ q.life = r.life /\ pend' = pend
              \/ q.life = "StopRequested" /\ IsRunnerActive(r.life) /\ pend' = pend
              \/ q.life = "Stopped" /\ r.life = "Queued"
                 /\ pend' = [pend EXCEPT ![j] = "none"]
    <2>1. CASE r.life = "Queued" /\ pend' = [pend EXCEPT ![j] = "none"]
               /\ jobs' = [jobs EXCEPT ![j] = Registry!StoppedBeforeDispatch(j, r)]
      <3>1. Registry!StoppedBeforeDispatch(j, r) \in ServerRecord
            /\ Registry!StoppedBeforeDispatch(j, r).life = "Stopped"
        BY <1>3 DEF Registry!StoppedBeforeDispatch, ServerRecord, Lifecycles,
                    ExecutionStates
      <3>2. QED
        BY <2>1, <3>1
    <2>2. CASE r.life \in {"RunnerQueued", "Running"} /\ pend' = pend
               /\ jobs' = [jobs EXCEPT ![j] = [r EXCEPT !.life = "StopRequested"]]
      <3>1. [r EXCEPT !.life = "StopRequested"] \in ServerRecord
            /\ [r EXCEPT !.life = "StopRequested"].life = "StopRequested"
        BY <1>3 DEF ServerRecord, Lifecycles
      <3>2. QED
        BY <2>2, <3>1 DEF IsRunnerActive, RunnerActiveStates
    <2>3. CASE pend' = pend /\ jobs' = [jobs EXCEPT ![j] = r]
      BY <1>3, <2>3
    <2>4. QED
      BY <1>4, <2>1, <2>2, <2>3
  <1>6. /\ jobs' \in [Jobs -> ServerRecord]
        /\ pend' \in [Jobs -> {"none", "queued", "sent"}]
    BY <1>1, <1>5
  <1>7. ASSUME NEW i \in Jobs \ {j} PROVE ServerRel(i)
    BY <1>1, <1>5, ServerSame
  <1>8. ServerRel(j)
    <2>1. jobs'[j] = q /\ pend'[j] \in {pend[j], "none"}
      BY <1>1, <1>5
    <2>2. CASE q.life = jobs[j].life
      BY <2>1, <2>2, ServerSame
    <2>3. CASE q.life = "Lost" /\ IsRunnerActive(jobs[j].life)
      BY <2>1, <2>3, ServerLoses
         DEF IsRunnerActive, RunnerActiveStates, IsTerminal, TerminalStates
    <2>4. CASE q.life = "StopRequested" /\ IsRunnerActive(jobs[j].life)
      <3>1. j \in known /\ pend[j] # "queued" /\ Backed(j, "StopRequested")
        BY <1>1, <2>4 DEF HandedOK, Backed, IsRunnerActive, RunnerActiveStates,
                          TerminalStates
      <3>2. QED
        BY <2>1, <2>4, <3>1
           DEF ServerRel, IsRunnerActive, RunnerActiveStates, IsTerminal, TerminalStates
    <2>5. CASE q.life = "Stopped" /\ jobs[j].life = "Queued" /\ pend'[j] = "none"
      <3>1. j \in known /\ Over(j)
        BY <1>1, <2>5 DEF HandedOK, WorkOK, Over
      <3>2. Backed(j, "Stopped")
        BY <3>1 DEF Backed
      <3>3. QED
        BY <2>1, <2>5, <3>1, <3>2 DEF ServerRel, IsTerminal, TerminalStates
    <2>6. QED
      BY <1>1, <1>3, <1>5, <2>2, <2>3, <2>4, <2>5 DEF IsRunnerActive, RunnerActiveStates
  <1>9. QED
    BY <1>1, <1>2, <1>6, <1>7, <1>8 DEF ServerOK

(* Steps that give Jobs up, or forget them, or only touch the lease. *)
LEMMA LossesOK ==
  ASSUME SystemInv, lease' \in Lease, conns' \in Nat, UNCHANGED <<receipts, handed, known>>,
         jobs' \in [Jobs -> ServerRecord], pend' \in [Jobs -> {"none", "queued", "sent"}],
         \A j \in Jobs :
            \/ jobs'[j].life = jobs[j].life /\ pend'[j] \in {pend[j], "none"}
            \/ jobs'[j].life = "Absent" /\ pend'[j] = "none"
            \/ /\ jobs'[j].life = "Lost" /\ pend'[j] = "none"
               /\ jobs[j].life # "Absent" /\ ~IsTerminal(jobs[j].life)
  PROVE  ServerOK
  <1>1. ASSUME NEW j \in Jobs PROVE ServerRel(j)
    <2>1. CASE jobs'[j].life = jobs[j].life /\ pend'[j] \in {pend[j], "none"}
      BY <2>1, ServerSame
    <2>2. CASE jobs'[j].life = "Absent" /\ pend'[j] = "none"
      BY <2>2 DEF ServerRel
    <2>3. CASE /\ jobs'[j].life = "Lost" /\ pend'[j] = "none"
               /\ jobs[j].life # "Absent" /\ ~IsTerminal(jobs[j].life)
      BY <2>3, ServerLoses
    <2>4. QED
      BY <2>1, <2>2, <2>3
  <1>2. QED
    BY <1>1 DEF ServerOK

(* prune_expired_terminal_jobs_locked *)
LEMMA PruneOK ==
  ASSUME SystemInv, NEW j \in Jobs, Registry!PruneTerminal(j)
  PROVE  ServerOK
  <1>1. /\ jobs \in [Jobs -> ServerRecord] /\ lease \in Lease /\ conns \in Nat
        /\ pend \in [Jobs -> {"none", "queued", "sent"}]
        /\ receipts = [i \in Jobs |-> Registry!NoJob]
    BY DEF SystemInv, SystemTypes
  <1>2. /\ jobs' = [jobs EXCEPT ![j] = Registry!NoJob]
        /\ pend' = [i \in Jobs |-> IF i \in {j} THEN "none" ELSE pend[i]]
        /\ receipts' = [receipts EXCEPT ![j] = Registry!NoJob]
        /\ UNCHANGED <<lease, conns, handed, known>>
    BY DEF Registry!PruneTerminal, Registry!DropRequestsOf, Registry!runnerVars
  <1>3. receipts' = receipts
    BY <1>1, <1>2
  <1>4. /\ jobs' \in [Jobs -> ServerRecord]
        /\ pend' \in [Jobs -> {"none", "queued", "sent"}]
    BY <1>1, <1>2, NoJobType
  <1>5. ASSUME NEW i \in Jobs
        PROVE  \/ jobs'[i].life = jobs[i].life /\ pend'[i] \in {pend[i], "none"}
               \/ jobs'[i].life = "Absent" /\ pend'[i] = "none"
    BY <1>1, <1>2, NoJobType
  <1>6. QED
    BY <1>1, <1>2, <1>3, <1>4, <1>5, LossesOK

(* expire_recovering_jobs_locked *)
LEMMA ExpireRecoveringOK ==
  ASSUME SystemInv, NEW S \in SUBSET Jobs, Registry!ExpireRecovering(S)
  PROVE  ServerOK
  <1>1. /\ jobs \in [Jobs -> ServerRecord] /\ lease \in Lease /\ conns \in Nat
        /\ pend \in [Jobs -> {"none", "queued", "sent"}]
    BY DEF SystemInv, SystemTypes
  <1> DEFINE q(j) == IF j \in S THEN Registry!MarkLost(j, jobs[j]) ELSE jobs[j]
  <1>2. /\ jobs' = [j \in Jobs |-> Registry!DropCleanedUp(q(j))]
        /\ pend' = [j \in Jobs |-> IF j \in S THEN "none" ELSE pend[j]]
        /\ UNCHANGED <<lease, conns, receipts, handed, known>>
    BY DEF Registry!ExpireRecovering, Registry!DropRequestsOf, Registry!runnerVars
  <1>3. ASSUME NEW j \in Jobs
        PROVE  /\ q(j) \in ServerRecord
               /\ \/ q(j).life = jobs[j].life
                  \/ /\ q(j).life = "Lost" /\ j \in S
                     /\ jobs[j].life # "Absent" /\ ~IsTerminal(jobs[j].life)
    BY <1>1, MarkLostOK
  <1>4. \A j \in Jobs : jobs'[j] = q(j)
    BY <1>2, <1>3, NothingCleanedUp
  <1>5. /\ jobs' \in [Jobs -> ServerRecord]
        /\ pend' \in [Jobs -> {"none", "queued", "sent"}]
    BY <1>1, <1>2, <1>3, <1>4
  <1>6. QED
    BY <1>1, <1>2, <1>3, <1>4, <1>5, LossesOK

(* prune_expired_shared_key_runners_locked *)
LEMMA ExpireLeaseOK == ASSUME SystemInv, Registry!ExpireLease PROVE ServerOK
  <1>1. jobs \in [Jobs -> ServerRecord] /\ conns \in Nat
    BY DEF SystemInv, SystemTypes
  <1>2. /\ jobs' = [j \in Jobs |-> Registry!MarkLost(j, jobs[j])]
        /\ pend' = [j \in Jobs |-> "none"] /\ lease' = Registry!NoLease
        /\ UNCHANGED <<conns, receipts, handed, known>>
    BY DEF Registry!ExpireLease
  <1>3. lease' \in Lease
    BY <1>2 DEF Registry!NoLease, Lease
  <1>4. /\ jobs' \in [Jobs -> ServerRecord]
        /\ pend' \in [Jobs -> {"none", "queued", "sent"}]
    BY <1>1, <1>2, MarkLostOK
  <1>5. ASSUME NEW j \in Jobs
        PROVE  /\ pend'[j] = "none"
               /\ \/ jobs'[j].life = jobs[j].life
                  \/ /\ jobs'[j].life = "Lost"
                     /\ jobs[j].life # "Absent" /\ ~IsTerminal(jobs[j].life)
    BY <1>1, <1>2, MarkLostOK
  <1>6. QED
    BY <1>1, <1>2, <1>3, <1>4, <1>5, LossesOK

(* reconcile_disconnect *)
LEMMA DisconnectOK == ASSUME SystemInv, NEW s, Registry!Disconnect(s) PROVE ServerOK
  <1>1. jobs \in [Jobs -> ServerRecord] /\ conns \in Nat /\ lease \in Lease
    BY DEF SystemInv, SystemTypes
  <1>2. /\ jobs' = [j \in Jobs |-> IF jobs[j].life = "Queued"
                                    THEN Registry!MarkLost(j, jobs[j])
                                    ELSE Registry!BeginRecovery(jobs[j])]
        /\ pend' = [j \in Jobs |-> "none"]
        /\ lease' = [lease EXCEPT !.online = FALSE, !.attached = FALSE]
        /\ UNCHANGED <<conns, receipts, handed, known>>
    BY DEF Registry!Disconnect
  <1>3. lease' \in Lease
    BY <1>1, <1>2 DEF Lease
  <1>4. /\ jobs' \in [Jobs -> ServerRecord]
        /\ pend' \in [Jobs -> {"none", "queued", "sent"}]
    BY <1>1, <1>2, MarkLostOK, BeginRecoveryOK
  <1>5. ASSUME NEW j \in Jobs
        PROVE  /\ pend'[j] = "none"
               /\ \/ jobs'[j].life = jobs[j].life
                  \/ /\ jobs'[j].life = "Lost"
                     /\ jobs[j].life # "Absent" /\ ~IsTerminal(jobs[j].life)
    BY <1>1, <1>2, MarkLostOK, BeginRecoveryOK DEF IsTerminal, TerminalStates
  <1>6. QED
    BY <1>1, <1>2, <1>3, <1>4, <1>5, LossesOK

(* The online window elapses. *)
LEMMA GoStaleOK == ASSUME SystemInv, Registry!GoStale PROVE ServerOK
  <1>1. /\ jobs \in [Jobs -> ServerRecord] /\ conns \in Nat /\ lease \in Lease
        /\ pend \in [Jobs -> {"none", "queued", "sent"}]
    BY DEF SystemInv, SystemTypes
  <1>2. /\ lease' = [lease EXCEPT !.online = FALSE]
        /\ UNCHANGED <<conns, jobs, pend, receipts, handed, known>>
    BY DEF Registry!GoStale
  <1>3. lease' \in Lease
    BY <1>1, <1>2 DEF Lease
  <1>4. QED
    BY <1>1, <1>2, <1>3, LossesOK

(* The Server restarts: there are no receipts. *)
LEMMA RestartOK == ASSUME SystemInv, Registry!Restart PROVE ServerOK
  <1>1. conns \in Nat /\ receipts = [j \in Jobs |-> Registry!NoJob]
    BY DEF SystemInv, SystemTypes
  <1>2. /\ jobs' = [j \in Jobs |-> Registry!Hydrated(receipts[j])]
        /\ pend' = [j \in Jobs |-> "none"] /\ lease' = Registry!NoLease
        /\ UNCHANGED <<conns, receipts, handed, known>>
    BY DEF Registry!Restart
  <1>3. lease' \in Lease
    BY <1>2 DEF Registry!NoLease, Lease
  <1>4. Registry!Hydrated(Registry!NoJob) = Registry!NoJob
    BY NoJobType, RegistryVocabulary DEF Registry!Hydrated
  <1>5. \A j \in Jobs : jobs'[j] = Registry!NoJob /\ pend'[j] = "none"
    BY <1>1, <1>2, <1>4
  <1>6. /\ jobs' \in [Jobs -> ServerRecord]
        /\ pend' \in [Jobs -> {"none", "queued", "sent"}]
    BY <1>2, <1>5, NoJobType
  <1>7. QED
    BY <1>1, <1>2, <1>3, <1>5, <1>6, NoJobType, LossesOK

-------------------------------------------------------------------------------
(* What the Runner says *)

(* An update is applied as it is, or it fails a Job by a final report. *)
LEMMA ApplyUpdateOK ==
  ASSUME NEW j \in Jobs, NEW r \in ServerRecord, NEW u,
         u.life \in RunnerActiveStates \cup TerminalStates, u.exec \in ExecutionStates,
         u.seq \in Nat, IsTerminal(u.life) \/ u.exec = "none"
  PROVE  LET q == Registry!ApplyUpdate(j, r, u)
         IN  /\ q \in ServerRecord
             /\ q.life = u.life \/ (q.life = "Failed" /\ IsTerminal(u.life))
  <1>1. /\ u.life \in Lifecycles \ {"StartedLegacy"}
        /\ "Failed" \in Lifecycles \ {"StartedLegacy"}
    BY DEF RunnerActiveStates, TerminalStates, Lifecycles
  <1>2. Registry!OwnExecutionState(j, r) \in ExecutionStates
    BY DEF Registry!OwnExecutionState, ExecutionStates, ServerRecord
  <1>3. ~IsTerminal(u.life) =>
           Registry!ValidExecution(j \in Structured, r.started, u.life, u.exec)
    BY DEF Registry!ValidExecution, Registry!IsTerminal, Registry!TerminalStates,
           IsTerminal, TerminalStates
  <1>4. CASE Registry!ValidExecution(j \in Structured, r.started, u.life, u.exec)
    <2> DEFINE started == r.started \/ ( /\ u.exec # "NotStarted"
                                         /\ u.life \in {"Running", "Completed", "Failed",
                                                        "Stopped", "Timeout"} )
               exec == IF Registry!IsTerminal(u.life) THEN u.exec ELSE r.exec
    <2>1. Registry!ApplyUpdate(j, r, u) =
            [r EXCEPT !.life = u.life, !.seq = u.seq, !.recovering = FALSE,
                      !.started = started, !.exec = exec]
      BY <1>4 DEF Registry!ApplyUpdate
    <2>2. started \in BOOLEAN /\ exec \in ExecutionStates
      BY DEF ServerRecord
    <2> HIDE DEF started, exec
    <2>3. QED
      BY <1>1, <2>1, <2>2 DEF ServerRecord
  <1>5. CASE ~Registry!ValidExecution(j \in Structured, r.started, u.life, u.exec)
    <2>1. Registry!ApplyUpdate(j, r, u) =
            [r EXCEPT !.life = "Failed", !.seq = u.seq,
                      !.exec = Registry!OwnExecutionState(j, r)]
      BY <1>5 DEF Registry!ApplyUpdate
    <2>2. QED
      BY <1>1, <1>2, <1>3, <1>5, <2>1 DEF ServerRecord
  <1>6. QED
    BY <1>4, <1>5

(* A final update is about a Job that is over: it comes from this process, *)
(* which ended it, or from one that is gone.                               *)
LEMMA FinalUpdateOver ==
  ASSUME SystemInv, NEW u \in sent, IsTerminal(u.life)
  PROVE  Over(u.job)
  <1>1. UpdateOK(u) /\ u.job \in Jobs
    BY DEF SystemInv, SystemTypes, Update
  <1>2. HandedOK(u.job) /\ WorkOK(u.job)
    BY <1>1 DEF SystemInv
  <1>3. CASE u.inst = inst
    BY <1>1, <1>2, <1>3 DEF UpdateOK, WorkOK, Over
  <1>4. CASE u.inst # inst
    <2>1. inst \notin handed[u.job]
      BY <1>1, <1>2, <1>4 DEF UpdateOK, HandedOK
    <2>2. QED
      BY <1>2, <2>1 DEF WorkOK, Over
  <1>5. QED
    BY <1>3, <1>4

(* update_job *)
LEMMA ReportOK == ASSUME SystemInv, NEW s, NEW u, Report(s, u) PROVE ServerOK
  <1>1. /\ jobs \in [Jobs -> ServerRecord] /\ conns \in Nat /\ lease \in Lease
        /\ pend \in [Jobs -> {"none", "queued", "sent"}]
    BY DEF SystemInv, SystemTypes
  <1>2. u \in sent /\ u \in Update /\ UpdateOK(u)
    BY DEF Report, SystemInv, SystemTypes
  <1> DEFINE m == [life |-> u.life, exec |-> u.exec, seq |-> u.seq, withLogs |-> TRUE]
             j == u.job
             q == Registry!ApplyUpdate(j, jobs[j], m)
  <1>3. /\ m.life = u.life /\ m.exec = u.exec /\ m.seq = u.seq /\ j \in Jobs
        /\ m.life \in RunnerActiveStates \cup TerminalStates
        /\ m.exec \in ExecutionStates /\ m.seq \in Nat
        /\ IsTerminal(m.life) \/ m.exec = "none"
    BY <1>2 DEF Update, UpdateOK
  <1>4. /\ lease' = [lease EXCEPT !.online = @ \/ Registry!HoldsLease(s)]
        /\ \/ UNCHANGED <<jobs, pend>>
           \/ /\ jobs' = [jobs EXCEPT ![j] = Registry!DropCleanedUp(q)]
              /\ pend' = IF Registry!IsTerminal(q.life)
                         THEN [pend EXCEPT ![j] = "none"] ELSE pend
              /\ jobs[j].life # "Absent" /\ ~IsTerminal(jobs[j].life)
        /\ UNCHANGED <<conns, receipts, handed, known>>
    BY RegistryVocabulary DEF Report, Registry!UpdateJob, Registry!AcceptsUpdate
  <1>5. lease' \in Lease
    <2>1. (lease.online \/ Registry!HoldsLease(s)) \in BOOLEAN
      OBVIOUS
    <2>2. QED
      BY <1>1, <1>4, <2>1 DEF Lease
  <1>6. CASE UNCHANGED <<jobs, pend>>
    BY <1>1, <1>4, <1>5, <1>6, LossesOK
  <1>7. CASE /\ jobs' = [jobs EXCEPT ![j] = Registry!DropCleanedUp(q)]
             /\ pend' = IF Registry!IsTerminal(q.life)
                        THEN [pend EXCEPT ![j] = "none"] ELSE pend
             /\ jobs[j].life # "Absent" /\ ~IsTerminal(jobs[j].life)
    <2>1. /\ q \in ServerRecord
          /\ q.life = u.life \/ (q.life = "Failed" /\ IsTerminal(u.life))
      <3> HIDE DEF m
      <3>1. QED
        BY <1>1, <1>3, ApplyUpdateOK
    <2>2. Registry!DropCleanedUp(q) = q
      BY <2>1, NothingCleanedUp
    <2> HIDE DEF q
    <2>3. /\ jobs' \in [Jobs -> ServerRecord] /\ jobs'[j] = q
          /\ pend' \in [Jobs -> {"none", "queued", "sent"}]
          /\ pend'[j] \in {pend[j], "none"}
          /\ \A i \in Jobs \ {j} : jobs'[i] = jobs[i] /\ pend'[i] = pend[i]
      BY <1>1, <1>3, <1>7, <2>1, <2>2
    <2>4. HandedOK(j) /\ handed[j] # {} /\ (u.life = "Completed" => starts[j] = 1)
      BY <1>2, <1>3 DEF SystemInv, UpdateOK
    <2>5. pend'[j] # "queued" /\ j \in known
      BY <2>3, <2>4 DEF HandedOK
    <2>6. Backed(j, q.life)
      <3>1. q.life = "Completed" => starts[j] = 1
        BY <2>1, <2>4
      <3>2. q.life \in TerminalStates => Over(j)
        BY <1>2, <2>1, FinalUpdateOver DEF IsTerminal
      <3>3. QED
        BY <3>1, <3>2 DEF Backed
    <2>7. q.life # "Queued"
      BY <1>3, <2>1 DEF RunnerActiveStates, TerminalStates
    <2>8. ServerRel(j)
      BY <1>7, <2>3, <2>5, <2>6, <2>7 DEF ServerRel
    <2>9. \A i \in Jobs \ {j} : ServerRel(i)
      BY <2>3, ServerSame
    <2>10. QED
      BY <1>4, <1>5, <1>1, <2>3, <2>8, <2>9 DEF ServerOK
  <1>8. QED
    BY <1>4, <1>6, <1>7

(* What the losses of a registration leave of one Job. *)
LEMMA AfterLossesOK ==
  ASSUME SystemInv, NEW j \in Jobs, NEW S
  PROVE  LET r == Registry!AfterLosses(inst, Inventory, S, j)
             gone == S \cup Registry!Orphaned(inst, Inventory)
                       \cup Registry!Missing(inst, Inventory)
         IN  /\ r \in ServerRecord
             /\ \/ r.life = jobs[j].life
                \/ r.life = "Lost" /\ j \in gone
                   /\ jobs[j].life # "Absent" /\ ~IsTerminal(jobs[j].life)
  <1> DEFINE gone == S \cup Registry!Orphaned(inst, Inventory)
                       \cup Registry!Missing(inst, Inventory)
             p == IF j \in gone THEN Registry!MarkLost(j, jobs[j]) ELSE jobs[j]
  <1>1. jobs[j] \in ServerRecord
    BY DEF SystemInv, SystemTypes
  <1>2. /\ p \in ServerRecord
        /\ \/ p.life = jobs[j].life
           \/ p.life = "Lost" /\ j \in gone
              /\ jobs[j].life # "Absent" /\ ~IsTerminal(jobs[j].life)
    BY <1>1, MarkLostOK
  <1>3. Registry!AfterLosses(inst, Inventory, S, j) \in {p, Registry!DropCleanedUp(p)}
    BY DEF Registry!AfterLosses
  <1>4. Registry!DropCleanedUp(p) = p
    BY <1>2, NothingCleanedUp
  <1> HIDE DEF p, gone
  <1>5. Registry!AfterLosses(inst, Inventory, S, j) = p
    BY <1>3, <1>4
  <1>6. QED
    BY <1>2, <1>5 DEF gone

(* A snapshot in the inventory says what the record of the process says. *)
LEMMA SnapshotOK ==
  ASSUME SystemInv, NEW j \in Jobs, j \in DOMAIN Inventory
  PROVE  /\ rec[j].life \in RunnerActiveStates \cup TerminalStates
         /\ Inventory[j] = [life |-> rec[j].life, exec |-> rec[j].exec,
                            seq |-> rec[j].seq, started |-> rec[j].started]
         /\ j \in known /\ pend[j] # "queued"
         /\ Backed(j, rec[j].life)
         /\ \A r \in ServerRecord :
               /\ Registry!ApplySnapshot(r, inst, Inventory[j]) \in ServerRecord
               /\ Registry!ApplySnapshot(r, inst, Inventory[j]).life = rec[j].life
         /\ Registry!RecordFromSnapshot(inst, Inventory[j]) \in ServerRecord
         /\ Registry!RecordFromSnapshot(inst, Inventory[j]).life = rec[j].life
  <1>1. /\ ExecutorOK(j) /\ HandedOK(j) /\ WorkOK(j) /\ inst \in Instances
    BY ExecutorFacts DEF ExecutorInv, SystemInv, SystemTypes
  <1>2. /\ rec[j].life # "Absent"
        /\ Inventory[j] = [life |-> rec[j].life, exec |-> rec[j].exec,
                           seq |-> rec[j].seq, started |-> rec[j].started]
    BY DEF Inventory
  <1>3. pc[j] # "idle" /\ rec[j].life \in RunnerActiveStates \cup TerminalStates
    BY <1>1, <1>2 DEF ExecutorOK
  <1>4. j \in known /\ pend[j] # "queued"
    BY <1>1, <1>3 DEF WorkOK, HandedOK
  <1>5. Backed(j, rec[j].life)
    <2>1. rec[j].life = "Completed" => starts[j] = 1
      BY <1>1, <1>3 DEF ExecutorOK, WorkOK
    <2>2. rec[j].life \in TerminalStates => Over(j)
      BY <1>1, <1>3 DEF WorkOK, Over, IsRunnerActive, RunnerActiveStates, TerminalStates
    <2>3. QED
      BY <2>1, <2>2 DEF Backed
  <1>6. /\ rec[j].life \in Lifecycles \ {"StartedLegacy"}
        /\ rec[j].exec \in ExecutionStates /\ rec[j].seq \in Nat
        /\ rec[j].started \in BOOLEAN
    BY <1>1, <1>3 DEF ExecutorOK, RunnerActiveStates, TerminalStates, Lifecycles
  <1> DEFINE t == Inventory[j]
  <1>7. t.life = rec[j].life /\ t.exec = rec[j].exec /\ t.seq = rec[j].seq
        /\ t.started = rec[j].started
    BY <1>2
  <1> HIDE DEF t
  <1>8. ASSUME NEW r \in ServerRecord
        PROVE  /\ Registry!ApplySnapshot(r, inst, t) \in ServerRecord
               /\ Registry!ApplySnapshot(r, inst, t).life = rec[j].life
    BY <1>1, <1>6, <1>7 DEF Registry!ApplySnapshot, ServerRecord
  <1>9. /\ Registry!RecordFromSnapshot(inst, t) \in ServerRecord
        /\ Registry!RecordFromSnapshot(inst, t).life = rec[j].life
    BY <1>1, <1>6, <1>7, NoJobType DEF Registry!RecordFromSnapshot, ServerRecord
  <1>10. QED
    BY <1>2, <1>3, <1>4, <1>5, <1>8, <1>9 DEF t

(* register *)
LEMMA RegisterOK ==
  ASSUME SystemInv, NEW conn \in Nat, NEW S, Register(conn, S)
  PROVE  ServerOK
  <1>1. /\ jobs \in [Jobs -> ServerRecord] /\ conns \in Nat /\ inst \in Instances
        /\ pend \in [Jobs -> {"none", "queued", "sent"}]
    BY DEF SystemInv, SystemTypes
  <1> DEFINE gone == S \cup Registry!Orphaned(inst, Inventory)
                       \cup Registry!Missing(inst, Inventory)
             ended == Registry!EndedByInventory(inst, Inventory, S)
             r(j) == Registry!AfterLosses(inst, Inventory, S, j)
             q(j) == Registry!Reconciled(inst, Inventory, S, j)
  <1>2. /\ lease' = [inst |-> inst, conn |-> conn, online |-> TRUE,
                     attached |-> conn # 0]
        /\ conns' = IF conn = 0 THEN conns ELSE conn
        /\ jobs' = [j \in Jobs |-> q(j)]
        /\ pend' = [j \in Jobs |-> IF j \in gone \cup ended THEN "none" ELSE pend[j]]
        /\ UNCHANGED <<receipts, handed, known>>
    BY DEF Register, Registry!Register
  <1>3. lease' \in Lease /\ conns' \in Nat
    BY <1>1, <1>2 DEF Lease
  <1>4. ASSUME NEW j \in Jobs
        PROVE  /\ r(j) \in ServerRecord
               /\ \/ r(j).life = jobs[j].life
                  \/ r(j).life = "Lost" /\ j \in gone
                     /\ jobs[j].life # "Absent" /\ ~IsTerminal(jobs[j].life)
    BY AfterLossesOK
  <1>5. ASSUME NEW j \in Jobs
        PROVE  /\ q(j) \in ServerRecord
               /\ \/ q(j) = r(j)
                  \/ /\ j \in DOMAIN Inventory /\ q(j).life = rec[j].life
                     /\ ~IsTerminal(r(j).life)
    <2> DEFINE p == IF j \notin DOMAIN Inventory THEN r(j)
                    ELSE IF Registry!Rebuilds(inst, j, Inventory, r(j))
                         THEN Registry!RecordFromSnapshot(inst, Inventory[j])
                    ELSE IF Registry!Present(r(j))
                            /\ Registry!TakesSnapshot(inst, j, Inventory, r(j))
                         THEN Registry!ApplySnapshot(r(j), inst, Inventory[j])
                    ELSE r(j)
    <2>1. q(j) = Registry!DropCleanedUp(p)
      BY DEF Registry!Reconciled
    <2>2. r(j) \in ServerRecord
      BY <1>4
    <2> HIDE DEF r
    <2>3. CASE p = r(j)
      BY <2>1, <2>2, <2>3, NothingCleanedUp
    <2>4. CASE /\ j \in DOMAIN Inventory
               /\ Registry!Rebuilds(inst, j, Inventory, r(j))
               /\ p = Registry!RecordFromSnapshot(inst, Inventory[j])
      <3>1. p \in ServerRecord /\ p.life = rec[j].life
        <4> HIDE DEF p
        <4>1. QED
          BY <2>4, SnapshotOK
      <3>2. r(j).life = "Absent"
        BY <2>4, RegistryVocabulary DEF Registry!Rebuilds
      <3> HIDE DEF p
      <3>3. QED
        BY <2>1, <2>4, <3>1, <3>2, NothingCleanedUp DEF IsTerminal, TerminalStates
    <2>5. CASE /\ j \in DOMAIN Inventory
               /\ Registry!TakesSnapshot(inst, j, Inventory, r(j))
               /\ p = Registry!ApplySnapshot(r(j), inst, Inventory[j])
      <3>1. p \in ServerRecord /\ p.life = rec[j].life
        <4> HIDE DEF p
        <4>1. QED
          BY <2>2, <2>5, SnapshotOK
      <3>2. ~IsTerminal(r(j).life)
        BY <2>5, RegistryVocabulary DEF Registry!TakesSnapshot
      <3> HIDE DEF p
      <3>3. QED
        BY <2>1, <2>5, <3>1, <3>2, NothingCleanedUp
    <2>6. QED
      BY <2>3, <2>4, <2>5
  <1> HIDE DEF q, r, gone, ended
  <1>6. /\ jobs' \in [Jobs -> ServerRecord]
        /\ pend' \in [Jobs -> {"none", "queued", "sent"}]
    BY <1>1, <1>2, <1>5
  <1>7. ASSUME NEW j \in Jobs PROVE ServerRel(j)
    <2>1. /\ jobs'[j] = q(j) /\ pend'[j] \in {pend[j], "none"}
          /\ j \in gone => pend'[j] = "none"
      BY <1>2
    <2>2. CASE q(j) = r(j) /\ r(j).life = jobs[j].life
      BY <2>1, <2>2, ServerSame
    <2>3. CASE q(j) = r(j) /\ r(j).life # jobs[j].life
      BY <1>4, <2>1, <2>3, ServerLoses
    <2>4. CASE /\ j \in DOMAIN Inventory /\ q(j).life = rec[j].life
               /\ ~IsTerminal(r(j).life)
      <3>1. /\ rec[j].life \in RunnerActiveStates \cup TerminalStates
            /\ j \in known /\ pend[j] # "queued" /\ Backed(j, rec[j].life)
        BY <2>4, SnapshotOK
      <3>2. rec[j].life # "Queued"
        BY <3>1 DEF RunnerActiveStates, TerminalStates
      <3>3. ~IsTerminal(jobs[j].life)
        BY <1>4, <2>4
      <3>4. QED
        BY <2>1, <2>4, <3>1, <3>2, <3>3 DEF ServerRel
    <2>5. QED
      BY <1>5, <2>2, <2>3, <2>4
  <1>8. QED
    BY <1>2, <1>3, <1>6, <1>7 DEF ServerOK

-------------------------------------------------------------------------------
(* Admission, dispatch and replacement *)

(* start_job: a Job that nobody knows was handed to nobody. *)
LEMMA StartPreserves ==
  ASSUME SystemInv, NEW j \in Jobs, Registry!StartJob(j, "Public"),
         UNCHANGED <<managerVars, linkVars>>
  PROVE  SystemInv'
  <1>1. /\ jobs \in [Jobs -> ServerRecord] /\ conns \in Nat /\ lease \in Lease
        /\ pend \in [Jobs -> {"none", "queued", "sent"}] /\ HandedOK(j)
    BY DEF SystemInv, SystemTypes
  <1> DEFINE new == [Registry!NoJob EXCEPT !.life = "Queued", !.inst = lease.inst,
                                           !.vis = "Public", !.candidate = TRUE]
  <1>2. /\ j \notin known /\ jobs[j].life = "Absent"
        /\ jobs' = [jobs EXCEPT ![j] = new] /\ pend' = [pend EXCEPT ![j] = "queued"]
        /\ known' = known \cup {j}
        /\ UNCHANGED <<lease, conns, handed, receipts>>
    BY RegistryVocabulary DEF Registry!StartJob, Registry!runnerVars
  <1>3. new \in ServerRecord /\ new.life = "Queued"
    BY <1>1 DEF Registry!NoJob, ServerRecord, Lifecycles, ExecutionStates, Lease
  <1> HIDE DEF new
  <1>4. /\ inst' = inst /\ dead' = dead /\ inbox' = inbox /\ sent' = sent
        /\ starts' = starts /\ pc' = pc /\ rec' = rec /\ spawns' = spawns
    BY DEF managerVars, linkVars
  <1>5. SystemTypes'
    BY <1>1, <1>2, <1>3, <1>4 DEF SystemInv, SystemTypes
  <1>6. MP!ManagerInv' /\ MP!RanInv'
    BY ManagerUntouched
  <1>7. handed[j] = {}
    BY <1>1, <1>2 DEF HandedOK
  <1>8. ASSUME NEW i \in Jobs
        PROVE  HandedOK(i)' /\ WorkOK(i)' /\ Backed(i, jobs[i].life)'
    <2>1. HandedOK(i) /\ WorkOK(i) /\ Backed(i, jobs[i].life)
      BY DEF SystemInv
    <2>2. WorkOK(i)'
      BY <1>2, <1>4, <2>1 DEF WorkOK, Start
    <2>3. Over(i)' <=> Over(i)
      BY <1>4 DEF Over, Start
    <2>4. CASE i = j
      <3>1. jobs'[j].life = "Queued" /\ j \in known'
        BY <1>1, <1>2, <1>3
      <3>2. HandedOK(j)'
        BY <1>2, <1>7, <3>1 DEF HandedOK
      <3>3. Backed(j, jobs[j].life)'
        BY <3>1 DEF Backed, TerminalStates
      <3>4. QED
        BY <2>2, <2>4, <3>2, <3>3
    <2>5. CASE i # j
      <3>1. jobs'[i] = jobs[i] /\ pend'[i] = pend[i] /\ known \subseteq known'
        BY <1>1, <1>2, <2>5
      <3>2. HandedOK(i)'
        BY <1>2, <1>4, <2>1, <3>1 DEF HandedOK
      <3>3. Backed(i, jobs[i].life)'
        BY <1>4, <2>1, <2>3, <3>1 DEF Backed
      <3>4. QED
        BY <2>2, <3>2, <3>3
    <2>6. QED
      BY <2>4, <2>5
  <1>9. \A u \in sent' : UpdateOK(u)'
    BY <1>2, <1>4 DEF SystemInv, UpdateOK
  <1>10. QED
    BY <1>5, <1>6, <1>8, <1>9 DEF SystemInv

(* poll: the request reaches the process or is lost with the answer. *)
LEMMA DispatchPreserves ==
  ASSUME SystemInv, NEW s, Dispatch(s)
  PROVE  /\ SystemInv' /\ known' = known /\ starts' = starts
         /\ \A j \in Jobs : IsTerminal(jobs[j].life) => jobs'[j].life = jobs[j].life
  <1>1. /\ jobs \in [Jobs -> ServerRecord] /\ conns \in Nat /\ lease \in Lease
        /\ pend \in [Jobs -> {"none", "queued", "sent"}]
        /\ handed \in [Jobs -> SUBSET Instances] /\ inst \in Instances
        /\ inbox \subseteq [kind: {"start", "stop"}, job: Jobs]
    BY DEF SystemInv, SystemTypes
  <1>2. /\ lease' = [lease EXCEPT !.online = TRUE] /\ inst' = inst /\ dead' = dead
        /\ sent' = sent /\ starts' = starts /\ pc' = pc /\ rec' = rec /\ spawns' = spawns
        /\ UNCHANGED <<conns, receipts, known>> /\ UNCHANGED managerVars
    BY DEF Dispatch, Registry!Poll, managerVars
  <1>3. PICK j \in Jobs :
          \/ /\ Head(queue) = [kind |-> "stop", job |-> j]
             /\ UNCHANGED <<jobs, pend, handed>>
          \/ /\ Head(queue) = Start(j) /\ pend[j] = "queued"
             /\ pend' = [pend EXCEPT ![j] = "sent"]
             /\ jobs' = [jobs EXCEPT ![j] = Registry!Dispatched(j, jobs[j])]
             /\ handed' = [handed EXCEPT ![j] = @ \cup {inst}]
    BY DEF Dispatch, Registry!Poll, Start
  <1>4. inbox' \in {inbox, inbox \cup {Head(queue)}}
    BY DEF Dispatch
  <1>5. lease' \in Lease
    BY <1>1, <1>2 DEF Lease
  <1>6. MP!ManagerInv' /\ MP!RanInv'
    BY <1>2, ManagerUntouched
  <1>7. CASE /\ Head(queue) = [kind |-> "stop", job |-> j]
             /\ UNCHANGED <<jobs, pend, handed>>
    <2>1. inbox' \subseteq [kind: {"start", "stop"}, job: Jobs]
      <3>1. [kind |-> "stop", job |-> j] \in [kind: {"start", "stop"}, job: Jobs]
        OBVIOUS
      <3>2. QED
        BY <1>1, <1>4, <1>7, <3>1
    <2>2. \A i \in Jobs : Start(i) \in inbox' <=> Start(i) \in inbox
      <3>1. \A i \in Jobs : Start(i) # Head(queue)
        BY <1>7 DEF Start
      <3>2. QED
        BY <1>4, <3>1
    <2>3. SystemTypes'
      BY <1>2, <1>5, <1>7, <2>1 DEF SystemInv, SystemTypes
    <2>4. ASSUME NEW i \in Jobs
          PROVE  HandedOK(i)' /\ WorkOK(i)' /\ Backed(i, jobs[i].life)'
      <3>1. HandedOK(i) /\ WorkOK(i) /\ Backed(i, jobs[i].life)
        BY DEF SystemInv
      <3>2. HandedOK(i)'
        BY <1>2, <1>7, <3>1 DEF HandedOK
      <3>3. WorkOK(i)'
        BY <1>2, <1>7, <2>2, <3>1 DEF WorkOK, Start
      <3>4. Backed(i, jobs[i].life)'
        BY <1>2, <1>7, <2>2, <3>1 DEF Backed, Over, Start
      <3>5. QED
        BY <3>2, <3>3, <3>4
    <2>5. \A u \in sent' : UpdateOK(u)'
      BY <1>2, <1>7 DEF SystemInv, UpdateOK
    <2>6. QED
      BY <1>2, <1>6, <1>7, <2>3, <2>4, <2>5 DEF SystemInv
  <1>8. CASE /\ Head(queue) = Start(j) /\ pend[j] = "queued"
             /\ pend' = [pend EXCEPT ![j] = "sent"]
             /\ jobs' = [jobs EXCEPT ![j] = Registry!Dispatched(j, jobs[j])]
             /\ handed' = [handed EXCEPT ![j] = @ \cup {inst}]
    <2>1. HandedOK(j) /\ WorkOK(j)
      BY DEF SystemInv
    <2>2. /\ jobs[j].life = "Queued" /\ handed[j] = {} /\ j \in known
          /\ pc[j] = "idle" /\ starts[j] = 0
      BY <1>8, <2>1 DEF HandedOK, WorkOK
    <2>3. /\ Registry!Dispatched(j, jobs[j]) \in ServerRecord
          /\ Registry!Dispatched(j, jobs[j]).life = "RunnerQueued"
      <3>1. jobs[j] \in ServerRecord /\ (j \notin Structured) \in BOOLEAN
        BY <1>1
      <3>2. QED
        BY <2>2, <3>1 DEF Registry!Dispatched, ServerRecord, Lifecycles
    <2>4. /\ jobs' \in [Jobs -> ServerRecord] /\ jobs'[j].life = "RunnerQueued"
          /\ pend' \in [Jobs -> {"none", "queued", "sent"}] /\ pend'[j] = "sent"
          /\ handed' \in [Jobs -> SUBSET Instances] /\ handed'[j] = {inst}
          /\ \A i \in Jobs \ {j} : /\ jobs'[i] = jobs[i] /\ pend'[i] = pend[i]
                                    /\ handed'[i] = handed[i]
      BY <1>1, <1>8, <2>2, <2>3
    <2>5. Start(j) \in [kind: {"start", "stop"}, job: Jobs]
      BY DEF Start
    <2>6. inbox' \subseteq [kind: {"start", "stop"}, job: Jobs]
      BY <1>1, <1>4, <1>8, <2>5
    <2>7. \A i \in Jobs \ {j} : Start(i) \in inbox' <=> Start(i) \in inbox
      <3>1. \A i \in Jobs \ {j} : Start(i) # Start(j)
        BY DEF Start
      <3>2. QED
        BY <1>4, <1>8, <3>1
    <2>8. SystemTypes'
      BY <1>2, <1>5, <2>4, <2>6 DEF SystemInv, SystemTypes
    <2>9. HandedOK(j)' /\ WorkOK(j)' /\ Backed(j, jobs[j].life)'
      <3>1. HandedOK(j)'
        BY <1>2, <2>2, <2>4 DEF HandedOK
      <3>2. WorkOK(j)'
        BY <1>2, <2>2, <2>4 DEF WorkOK
      <3>3. Backed(j, jobs[j].life)'
        BY <2>4 DEF Backed, TerminalStates
      <3>4. QED
        BY <3>1, <3>2, <3>3
    <2>10. ASSUME NEW i \in Jobs \ {j}
           PROVE  HandedOK(i)' /\ WorkOK(i)' /\ Backed(i, jobs[i].life)'
      <3>1. HandedOK(i) /\ WorkOK(i) /\ Backed(i, jobs[i].life)
        BY DEF SystemInv
      <3>2. HandedOK(i)'
        BY <1>2, <2>4, <3>1 DEF HandedOK
      <3>3. WorkOK(i)'
        BY <1>2, <2>4, <2>7, <3>1 DEF WorkOK, Start
      <3>4. Backed(i, jobs[i].life)'
        BY <1>2, <2>4, <2>7, <3>1 DEF Backed, Over, Start
      <3>5. QED
        BY <3>2, <3>3, <3>4
    <2>11. ASSUME NEW u \in sent' PROVE UpdateOK(u)'
      <3>1. UpdateOK(u) /\ u.job \in Jobs
        BY <1>2 DEF SystemInv, SystemTypes, Update
      <3>2. handed[u.job] \subseteq handed'[u.job]
        BY <2>2, <2>4, <3>1
      <3>3. QED
        BY <1>2, <3>1, <3>2 DEF UpdateOK
    <2>12. \A i \in Jobs : HandedOK(i)' /\ WorkOK(i)' /\ Backed(i, jobs[i].life)'
      BY <2>9, <2>10
    <2>13. \A i \in Jobs : IsTerminal(jobs[i].life) => jobs'[i].life = jobs[i].life
      BY <2>2, <2>4 DEF IsTerminal, TerminalStates
    <2>14. QED
      BY <1>2, <1>6, <2>8, <2>11, <2>12, <2>13 DEF SystemInv
  <1>9. QED
    BY <1>3, <1>7, <1>8

(* The executor of a new process starts without anything. *)
LEMMA FreshExecutor == Manager!Init => MP!ManagerInv /\ MP!RanInv
  <1> SUFFICES ASSUME Manager!Init PROVE MP!ManagerInv /\ MP!RanInv
    OBVIOUS
  <1>1. MP!Init
    BY Zenon DEF Manager!Init, MP!Init, Manager!NoRecord, MP!NoRecord,
                 Manager!NoVerdict, MP!NoVerdict
  <1>2. MP!ManagerInv
    BY <1>1, MP!ManagerInit, SystemAssumption DEF MP!IsFiniteSet, IsFiniteSet
  <1>3. MP!RanInv
    BY <1>1 DEF MP!Init, MP!RanInv, MP!Ran, MP!NoRecord
  <1>4. QED
    BY <1>2, <1>3

(* The same in the state after a step. *)
LEMMA FreshExecutorNext == Manager!Init' => MP!ManagerInv' /\ MP!RanInv'
  BY FreshExecutor, PTL

(* A process dies and another one takes its place. *)
LEMMA ReplacePreserves == ASSUME SystemInv, NEW i, Replace(i) PROVE SystemInv'
  <1>1. /\ i \in Instances \ (dead \cup {inst}) /\ inst' = i /\ dead' = dead \cup {inst}
        /\ inbox' = {} /\ pc' = [j \in Jobs |-> "idle"]
        /\ UNCHANGED <<registryVars, sent, starts>>
    BY DEF Replace
  <1>2. Manager!Init'
    BY DEF Replace, Manager!Init
  <1>3. MP!ManagerInv' /\ MP!RanInv'
    BY <1>2, FreshExecutorNext
  <1>4. /\ UNCHANGED <<lease, conns, jobs, receipts, pend, handed, known>>
    BY <1>1 DEF registryVars
  <1>5. SystemTypes'
    BY <1>1, <1>4 DEF SystemInv, SystemTypes
  <1>6. ASSUME NEW j \in Jobs
        PROVE  HandedOK(j)' /\ WorkOK(j)' /\ Backed(j, jobs[j].life)'
    <2>1. HandedOK(j) /\ WorkOK(j) /\ Backed(j, jobs[j].life) /\ pc'[j] = "idle"
      BY <1>1 DEF SystemInv
    <2>2. HandedOK(j)'
      BY <1>1, <1>4, <2>1 DEF HandedOK
    <2>3. WorkOK(j)'
      BY <1>1, <1>4, <2>1 DEF WorkOK
    <2>4. Backed(j, jobs[j].life)'
      BY <1>1, <1>4, <2>1 DEF Backed, Over
    <2>5. QED
      BY <2>2, <2>3, <2>4
  <1>7. ASSUME NEW u \in sent' PROVE UpdateOK(u)'
    <2>1. UpdateOK(u) /\ u.job \in Jobs
      BY <1>1 DEF SystemInv, SystemTypes, Update
    <2>2. u.inst # i
      BY <1>1, <2>1 DEF UpdateOK, SystemInv, HandedOK
    <2>3. QED
      BY <1>1, <1>4, <2>1, <2>2 DEF UpdateOK
  <1>8. QED
    BY <1>3, <1>5, <1>6, <1>7 DEF SystemInv

-------------------------------------------------------------------------------
(* Theorems *)

(* What the client sees of a step: a Job is accepted, a command is started, *)
(* or ends that are shown stay or go.                                      *)
Seen ==
    \/ \E j \in Jobs : /\ Registry!StartJob(j, "Public") /\ starts' = starts
    \/ RunnerStep
    \/ /\ known' = known /\ starts' = starts
       /\ \A j \in Jobs : IsTerminal(jobs[j].life) =>
             jobs'[j].life \in {jobs[j].life, "Absent"}

(* Nothing is wrong in the beginning. *)
LEMMA SystemInit == Init => SystemInv
  <1> SUFFICES ASSUME Init PROVE SystemInv
    OBVIOUS
  <1>1. MP!ManagerInv /\ MP!RanInv
    BY FreshExecutor DEF Init
  <1>2. /\ lease = Registry!NoLease /\ conns = 0
        /\ jobs = [j \in Jobs |-> Registry!NoJob] /\ pend = [j \in Jobs |-> "none"]
        /\ handed = [j \in Jobs |-> {}] /\ receipts = [j \in Jobs |-> Registry!NoJob]
        /\ pc = [j \in Jobs |-> "idle"] /\ inst \in Instances /\ dead = {}
        /\ inbox = {} /\ sent = {} /\ starts = [j \in Jobs |-> 0]
    BY DEF Init, Registry!Init, Manager!Init
  <1>3. lease \in Lease
    BY <1>2 DEF Registry!NoLease, Lease
  <1>4. SystemTypes
    BY <1>2, <1>3, NoJobType DEF SystemTypes
  <1>5. ASSUME NEW j \in Jobs PROVE HandedOK(j) /\ WorkOK(j) /\ Backed(j, jobs[j].life)
    BY <1>2, NoJobType DEF HandedOK, WorkOK, Backed, TerminalStates
  <1>6. QED
    BY <1>1, <1>2, <1>4, <1>5 DEF SystemInv

(* Every step keeps the invariant, and is one of the three kinds. *)
LEMMA SystemNext == ASSUME SystemInv, [Next]_vars PROVE SystemInv' /\ Seen
  <1>1. ASSUME ServerOK, UNCHANGED <<managerVars, linkVars>> PROVE SystemInv' /\ Seen
    BY <1>1, ServerPreserves DEF Seen, ServerOK, ServerRel, linkVars
  <1>2. CASE ServerStep
    <2>1. ASSUME NEW j \in Jobs, Registry!StartJob(j, "Public") PROVE SystemInv' /\ Seen
      BY <1>2, <2>1, StartPreserves DEF ServerStep, Seen, linkVars
    <2>2. ASSUME NEW j \in Jobs, NEW expired \in BOOLEAN,
                 Registry!ReadJob(j, expired) \/ Registry!StopJob(j, expired)
          PROVE  ServerOK
      BY <2>2, ReadOK, StopOK
    <2>3. ASSUME NEW j \in Jobs, Registry!PruneTerminal(j) PROVE ServerOK
      BY <2>3, PruneOK
    <2>4. ASSUME NEW S \in SUBSET Jobs, Registry!ExpireRecovering(S) PROVE ServerOK
      BY <2>4, ExpireRecoveringOK
    <2>5. CASE Registry!ExpireLease \/ Registry!GoStale \/ Registry!Restart
      BY <1>1, <1>2, <2>5, ExpireLeaseOK, GoStaleOK, RestartOK DEF ServerStep
    <2>6. UNCHANGED <<managerVars, linkVars>>
      BY <1>2 DEF ServerStep
    <2>7. QED
      BY <1>1, <1>2, <2>1, <2>2, <2>3, <2>4, <2>5, <2>6 DEF ServerStep
  <1>3. ASSUME NEW s, Dispatch(s) PROVE SystemInv' /\ Seen
    BY <1>3, DispatchPreserves DEF Seen
  <1>4. ASSUME NEW s, Disconnect(s) PROVE SystemInv' /\ Seen
    BY <1>1, <1>4, DisconnectOK DEF Disconnect
  <1>5. ASSUME NEW s, NEW u, Report(s, u) PROVE SystemInv' /\ Seen
    <2>1. UNCHANGED <<managerVars, linkVars>>
      BY <1>5 DEF Report
    <2>2. QED
      BY <1>1, <1>5, <2>1, ReportOK
  <1>6. ASSUME NEW conn \in Registry!NewConnection, NEW S, Register(conn, S)
        PROVE  SystemInv' /\ Seen
    <2>1. conn \in Nat
      BY DEF Registry!NewConnection, SystemInv, SystemTypes
    <2>2. UNCHANGED <<managerVars, linkVars>>
      BY <1>6 DEF Register
    <2>3. QED
      BY <1>1, <1>6, <2>1, <2>2, RegisterOK
  <1>7. CASE RunnerStep
    BY <1>7, RunnerPreserves DEF Seen
  <1>8. ASSUME NEW i, Replace(i) PROVE SystemInv' /\ Seen
    BY <1>8, ReplacePreserves DEF Seen, Replace, registryVars
  <1>9. CASE UNCHANGED vars
    <2>1. UNCHANGED <<managerVars, linkVars>> /\ UNCHANGED registryVars
      BY <1>9 DEF vars
    <2>2. ServerOK
      BY <2>1 DEF ServerOK, ServerRel, registryVars, SystemInv, SystemTypes
    <2>3. QED
      BY <1>1, <2>1, <2>2
  <1>10. QED
    BY <1>2, <1>3, <1>4, <1>5, <1>6, <1>7, <1>8, <1>9 DEF Next

(***************************************************************************)
(* The inductive invariant holds: what the Server shows, what the requests *)
(* and updates in flight say and what the Runner process does agree, across *)
(* lost answers, late updates, reconnects, process replacement and Server  *)
(* restarts.                                                               *)
(***************************************************************************)
THEOREM SystemInvariant == Spec => []SystemInv
  <1>1. SystemInv /\ [Next]_vars => SystemInv'
    BY SystemNext
  <1>2. QED
    BY SystemInit, <1>1, PTL DEF Spec

(* A Job that the Server shows as ended on the Runner's word is over: its  *)
(* command does not run, nor will it ever be started.                      *)
THEOREM ShownEndSafe == Spec => []ShownEndIsReal
  <1>1. SystemInv => ShownEndIsReal
    <2> SUFFICES ASSUME SystemInv, NEW j \in Jobs,
                        jobs[j].life \in TerminalStates \ {"Lost"}
                 PROVE  /\ ~alive[j]
                        /\ pc[j] \in {"idle", "queued", "done"}
                        /\ [kind |-> "start", job |-> j] \notin inbox
      BY DEF ShownEndIsReal
    <2>1. ExecutorOK(j) /\ Over(j)
      BY ExecutorFacts DEF ExecutorInv, SystemInv, Backed
    <2>2. pc[j] \in {"idle", "queued", "done"}
      BY <2>1 DEF ExecutorOK, Over
    <2>3. QED
      BY <2>1, <2>2 DEF ExecutorOK, Over, Start
  <1>2. QED
    BY SystemInvariant, <1>1, PTL

(* What is shown to the client of a lifecycle. *)
ShownLife(life) == IF life = "Absent" THEN "unknown"
                   ELSE IF IsTerminal(life) THEN life ELSE "open"

Shown == [j \in Jobs |-> ShownLife(jobs[j].life)]

(* The acceptance of a Job is the contract's. *)
LEMMA AcceptRefines ==
  ASSUME SystemInv, NEW j \in Jobs, Registry!StartJob(j, "Public"), starts' = starts
  PROVE  /\ j \notin known /\ known' = known \cup {j}
         /\ Shown' = [Shown EXCEPT ![j] = "open"]
  <1>1. /\ jobs \in [Jobs -> ServerRecord]
    BY DEF SystemInv, SystemTypes
  <1>2. /\ j \notin known /\ known' = known \cup {j}
        /\ jobs' = [jobs EXCEPT ![j] = [Registry!NoJob EXCEPT !.life = "Queued",
                       !.inst = lease.inst, !.vis = "Public", !.candidate = TRUE]]
    BY DEF Registry!StartJob
  <1>3. jobs'[j].life = "Queued" /\ \A i \in Jobs \ {j} : jobs'[i] = jobs[i]
    BY <1>1, <1>2 DEF Registry!NoJob
  <1>4. \A i \in Jobs : Shown'[i] = [Shown EXCEPT ![j] = "open"][i]
    BY <1>3 DEF Shown, ShownLife, IsTerminal, TerminalStates
  <1>5. Shown' = [Shown EXCEPT ![j] = "open"]
    BY <1>4 DEF Shown
  <1>6. QED
    BY <1>2, <1>5

(* A step of the Runner process starts one command at most, of a Job that  *)
(* was accepted and never started before.                                  *)
LEMMA RunRefines ==
  ASSUME SystemInv, RunnerStep
  PROVE  /\ known' = known /\ Shown' = Shown
         /\ \/ starts' = starts
            \/ \E j \in known \cap Jobs : starts[j] = 0
                                           /\ starts' = [starts EXCEPT ![j] = 1]
  <1>1. /\ known' = known /\ jobs' = jobs
        /\ starts' = [j \in Jobs |-> starts[j] + (spawns'[j] - spawns[j])]
    BY DEF RunnerStep, registryVars
  <1>2. /\ starts \in [Jobs -> 0..1] /\ spawns \in [Jobs -> 0..1]
    BY DEF SystemInv, SystemTypes, MP!ManagerInv, MP!TypeOK
  <1>3. MP!SpawnsOne
    BY RunnerStepWorks DEF RunnerWorks
  <1>4. CASE spawns' = spawns
    <2>1. \A j \in Jobs : starts'[j] = starts[j]
      BY <1>1, <1>2, <1>4
    <2>2. starts' = starts
      BY <1>1, <1>2, <2>1
    <2>3. QED
      BY <1>1, <2>2 DEF Shown
  <1>5. ASSUME NEW j \in Jobs, pc[j] = "spawn", spawns' = [spawns EXCEPT ![j] = @ + 1]
        PROVE  j \in known /\ starts[j] = 0 /\ starts' = [starts EXCEPT ![j] = 1]
    <2>1. ExecutorOK(j) /\ WorkOK(j) /\ HandedOK(j)
      BY ExecutorFacts DEF ExecutorInv, SystemInv
    <2>2. j \in known /\ starts[j] = 0 /\ spawns[j] = 0
      BY <1>5, <2>1 DEF ExecutorOK, WorkOK, HandedOK
    <2>3. spawns'[j] = 1 /\ \A i \in Jobs \ {j} : spawns'[i] = spawns[i]
      BY <1>2, <1>5, <2>2
    <2>4. \A i \in Jobs : starts'[i] = [starts EXCEPT ![j] = 1][i]
      BY <1>1, <1>2, <2>2, <2>3
    <2>5. QED
      BY <1>1, <1>2, <2>2, <2>4
  <1>6. QED
    BY <1>1, <1>3, <1>4, <1>5 DEF MP!SpawnsOne, Shown

(***************************************************************************)
(* The Server and the Runner processes together keep the client's          *)
(* contract, for any number of Jobs and processes: no command is started   *)
(* twice or without its Job being accepted, nothing that did not run is    *)
(* shown as completed and an end that is shown stays while its record is   *)
(* kept.                                                                   *)
(***************************************************************************)
THEOREM ContractKept == Spec => ImplementsContract
  <1>1. Init => Contract!ContractInit
    BY NoJobType DEF Init, Registry!Init, Contract!ContractInit
  <1>2. ASSUME SystemInv, SystemInv', [Next]_vars
        PROVE  [Contract!ContractNext]_(Contract!contractVars)
    <2>1. CASE \E j \in Jobs : Registry!StartJob(j, "Public") /\ starts' = starts
      <3>1. PICK j \in Jobs : Registry!StartJob(j, "Public") /\ starts' = starts
        BY <2>1
      <3>2. Contract!Accept(j)
        BY <1>2, <3>1, AcceptRefines DEF Contract!Accept, Shown, ShownLife
      <3>3. QED
        BY <3>2 DEF Contract!ContractNext
    <2>2. CASE RunnerStep
      <3>1. CASE starts' = starts
        BY <1>2, <2>2, <3>1, RunRefines DEF Contract!contractVars, Shown, ShownLife
      <3>2. ASSUME NEW j \in known \cap Jobs, starts[j] = 0,
                   starts' = [starts EXCEPT ![j] = 1]
            PROVE  Contract!Run(j)
        BY <1>2, <2>2, <3>2, RunRefines DEF Contract!Run, Shown, ShownLife
      <3>3. QED
        BY <1>2, <2>2, <3>1, <3>2, RunRefines DEF Contract!ContractNext
    <2>3. CASE /\ known' = known /\ starts' = starts
               /\ \A j \in Jobs : IsTerminal(jobs[j].life) =>
                     jobs'[j].life \in {jobs[j].life, "Absent"}
      <3>1. Shown' \in [Jobs -> {"unknown", "open"} \cup TerminalStates]
        BY DEF Shown, ShownLife, IsTerminal
      <3>2. ASSUME NEW j \in Jobs
            PROVE  Contract!MayShow(j, Shown[j], Shown'[j])
        <4>1. /\ jobs'[j].life # "Absent" => j \in known
              /\ jobs'[j].life = "Completed" => starts[j] = 1
          BY <1>2, <2>3 DEF SystemInv, HandedOK, Backed
        <4>2. Shown[j] = ShownLife(jobs[j].life) /\ Shown'[j] = ShownLife(jobs'[j].life)
          BY DEF Shown
        <4>3. QED
          BY <2>3, <4>1, <4>2 DEF ShownLife, IsTerminal, TerminalStates, Contract!MayShow,
                                  Contract!IsTerminal, Contract!TerminalStates
      <3>3. Contract!Show
        BY <2>3, <3>1, <3>2
           DEF Contract!Show, Contract!TerminalStates, TerminalStates, Shown, ShownLife
      <3>4. QED
        BY <3>3 DEF Contract!ContractNext
    <2>4. QED
      BY <1>2, <2>1, <2>2, <2>3, SystemNext DEF Seen
  <1>3. QED
    BY SystemInvariant, <1>1, <1>2, PTL DEF Spec, ImplementsContract, Contract!ContractSpec

-------------------------------------------------------------------------------
(* What is said of commands that did not run *)

(* A final report of a structured Job is one that the Server's rule for    *)
(* execution states accepts when it knows of no start.                     *)
Acceptable(r) == ValidExecution(TRUE, FALSE, r.life, r.exec)

(* What the Server may say of a Job's command. *)
Truth(j, r) ==
    /\ ~IsTerminal(r.life) => r.exec = "none"
    /\ r.life \in TerminalStates \ {"Lost"} /\ r.exec = "NotStarted" => starts[j] = 0

UpdateTrue(u) ==
    /\ u.exec = "NotStarted" => starts[u.job] = 0
    /\ u.job \in Structured => Acceptable(u)

TruthInv ==
    /\ MP!SaidInv
    /\ \A j \in Jobs : Truth(j, jobs[j])
    /\ \A u \in sent : UpdateTrue(u)

(* The Server's rule is the one that the executor's records keep. *)
LEMMA SaidAcceptable ==
  ASSUME NEW j \in Structured, NEW r, MP!Said(j, r)
  PROVE  Acceptable(r)
  BY DEF MP!Said, MP!ValidExecution, MP!IsTerminal, MP!TerminalStates, MP!IsTimedOut,
         Acceptable, ValidExecution, IsTerminal, TerminalStates, IsTimedOut

(* A step of the Runner process is a step of the executor. *)
LEMMA RunnerManages == ASSUME SystemInv, RunnerStep PROVE [MP!Next]_(MP!vars)
  <1>1. CASE Execute
    BY <1>1, SameExecutor, SameWake, Zenon DEF Execute, MP!Next
  <1>2. ASSUME NEW r \in inbox, Serve(r) PROVE MP!Next
    <2>1. r.job \in Jobs
      BY DEF SystemInv, SystemTypes
    <2>2. MP!Enqueue(r.job) \/ MP!Stop(r.job)
      BY <1>2, <2>1, SameExecutor, Zenon DEF Serve
    <2>3. QED
      BY <2>1, <2>2, Zenon DEF MP!Next
  <1>3. QED
    BY <1>1, <1>2, Zenon DEF RunnerStep

(* So the records of the process that runs keep the rule. *)
LEMMA RunnerSaid == ASSUME SystemInv, MP!SaidInv, RunnerStep PROVE MP!SaidInv'
  <1>1. MP!ManagerInv /\ MP!RanInv
    BY DEF SystemInv
  <1>2. QED
    BY <1>1, RunnerManages, MP!SaidNext, SystemAssumption DEF MP!IsFiniteSet, IsFiniteSet

-------------------------------------------------------------------------------
(* What the Server and the updates say *)

(* What a process says of a command that it did not start is true. *)
LEMMA RecordTrue ==
  ASSUME SystemInv, NEW j \in Jobs, rec[j].life # "Absent"
  PROVE  Truth(j, rec[j]) /\ (rec[j].exec = "NotStarted" => starts[j] = 0)
  <1>1. ExecutorOK(j) /\ WorkOK(j)
    BY ExecutorFacts DEF ExecutorInv, SystemInv
  <1>2. rec[j].exec = "NotStarted" => spawns[j] = 0
    BY DEF SystemInv, MP!ManagerInv, MP!JobOK, MP!RecordOK
  <1>3. pc[j] # "idle" /\ starts[j] = spawns[j]
    BY <1>1 DEF ExecutorOK, WorkOK
  <1>4. ~IsTerminal(rec[j].life) => rec[j].exec = "none"
    BY <1>1 DEF ExecutorOK, IsTerminal, IsRunnerActive
  <1>5. QED
    BY <1>2, <1>3, <1>4 DEF Truth

(* The same in the state after a step. *)
LEMMA RecordTrueNext ==
  ASSUME SystemInv', NEW j \in Jobs, rec'[j].life # "Absent"
  PROVE  rec'[j].exec = "NotStarted" => starts'[j] = 0
  <1>1. ExecutorOK(j)' /\ WorkOK(j)'
    BY ExecutorFactsNext DEF ExecutorInv, SystemInv
  <1>2. rec'[j].exec = "NotStarted" => spawns'[j] = 0
    BY DEF SystemInv, MP!ManagerInv, MP!JobOK, MP!RecordOK
  <1>3. pc'[j] # "idle" /\ starts'[j] = spawns'[j]
    BY <1>1 DEF ExecutorOK, WorkOK
  <1>4. QED
    BY <1>2, <1>3

(* No command of a Job that is over is started. *)
LEMMA OverStaysUnstarted ==
  ASSUME SystemInv, RunnerStep, NEW j \in Jobs, Over(j)
  PROVE  starts'[j] = starts[j]
  <1>1. RunnerWorks
    BY RunnerStepWorks
  <1>2. ExecutorOK(j) /\ ExecutorOK(j)' /\ starts[j] \in 0..1
    BY <1>1, ExecutorFacts, ExecutorFactsNext
       DEF ExecutorInv, SystemInv, SystemTypes, RunnerWorks
  <1>3. pc[j] # "spawn"
    BY <1>2 DEF ExecutorOK, Over
  <1>4. spawns'[j] = spawns[j]
    BY <1>1, <1>3 DEF RunnerWorks, Begins, Continues
  <1>5. starts'[j] = starts[j] + (spawns'[j] - spawns[j]) /\ spawns[j] \in 0..1
    BY <1>2 DEF RunnerStep, ExecutorOK
  <1>6. QED
    BY <1>2, <1>4, <1>5

(* A step of the Runner process: nothing that was said becomes untrue. *)
LEMMA RunnerTrue == ASSUME SystemInv, SystemInv', TruthInv, RunnerStep PROVE TruthInv'
  <1>1. MP!SaidInv'
    BY RunnerSaid DEF TruthInv
  <1>2. jobs' = jobs /\ sent' = sent \cup Recorded
    BY DEF RunnerStep, registryVars
  <1>3. ASSUME NEW j \in Jobs PROVE Truth(j, jobs[j])'
    <2>1. Truth(j, jobs[j]) /\ Backed(j, jobs[j].life)
      BY DEF TruthInv, SystemInv
    <2>2. CASE jobs[j].life \in TerminalStates \ {"Lost"}
      <3>1. starts'[j] = starts[j]
        BY <2>1, <2>2, OverStaysUnstarted DEF Backed
      <3>2. QED
        BY <1>2, <2>1, <3>1 DEF Truth
    <2>3. CASE jobs[j].life \notin TerminalStates \ {"Lost"}
      BY <1>2, <2>1, <2>3 DEF Truth
    <2>4. QED
      BY <2>2, <2>3
  <1>4. ASSUME NEW u \in sent PROVE UpdateTrue(u)'
    <2>1. UpdateTrue(u) /\ UpdateOK(u) /\ u.job \in Jobs
      BY DEF TruthInv, SystemInv, SystemTypes, Update
    <2>2. CASE u.exec = "NotStarted"
      <3>1. IsTerminal(u.life)
        BY <2>1, <2>2 DEF UpdateOK
      <3>2. starts'[u.job] = starts[u.job]
        BY <2>1, <3>1, FinalUpdateOver, OverStaysUnstarted
      <3>3. QED
        BY <2>1, <3>2 DEF UpdateTrue
    <2>3. CASE u.exec # "NotStarted"
      BY <2>1, <2>3 DEF UpdateTrue
    <2>4. QED
      BY <2>2, <2>3
  <1>5. ASSUME NEW u \in Recorded PROVE UpdateTrue(u)'
    <2>1. PICK j \in Jobs :
             /\ rec'[j].seq > rec[j].seq
             /\ u = [inst |-> inst, job |-> j, life |-> rec'[j].life,
                     exec |-> rec'[j].exec, seq |-> rec'[j].seq]
      BY <1>5 DEF Recorded
    <2>2. u.job = j /\ u.life = rec'[j].life /\ u.exec = rec'[j].exec
      BY <2>1
    <2>3. rec'[j].life # "Absent"
      BY <2>1, RunnerStepWorks DEF RunnerWorks, Begins, Continues
    <2>4. u.exec = "NotStarted" => starts'[u.job] = 0
      BY <2>2, <2>3, RecordTrueNext
    <2>5. ASSUME u.job \in Structured PROVE Acceptable(u)
      <3>1. MP!Said(j, rec'[j])
        BY <1>1, <2>3 DEF MP!SaidInv, MP!SaidOK, MP!Present, MP!Said
      <3>2. Acceptable(rec'[j])
        BY <2>2, <2>5, <3>1, SaidAcceptable
      <3>3. QED
        BY <2>2, <3>2 DEF Acceptable
    <2>6. QED
      BY <2>4, <2>5 DEF UpdateTrue, Acceptable
  <1>6. QED
    BY <1>1, <1>2, <1>3, <1>4, <1>5 DEF TruthInv

(* A step of the Server or between the two that shows nothing untrue. *)
LEMMA ServerTrue ==
  ASSUME TruthInv, UNCHANGED <<managerVars, sent, starts>>, \A j \in Jobs : Truth(j, jobs'[j])
  PROVE  TruthInv'
  <1>1. /\ rec' = rec /\ pc' = pc /\ verdict' = verdict /\ spawns' = spawns
        /\ sent' = sent /\ starts' = starts
    BY DEF managerVars
  <1>2. MP!SaidInv'
    BY <1>1 DEF TruthInv, MP!SaidInv, MP!SaidOK
  <1>3. \A j \in Jobs : Truth(j, jobs[j])'
    BY <1>1 DEF Truth
  <1>4. \A u \in sent' : UpdateTrue(u)'
    BY <1>1 DEF TruthInv, UpdateTrue
  <1>5. QED
    BY <1>2, <1>3, <1>4 DEF TruthInv

(* Ways to show nothing untrue: the same, nothing, and a loss. *)
LEMMA TruthOf ==
  ASSUME NEW j \in Jobs, NEW r, NEW q,
         \/ Truth(j, r) /\ q.life = r.life /\ q.exec = r.exec
         \/ q = Registry!NoJob
         \/ q.life = "Lost"
  PROVE  Truth(j, q)
  BY DEF Truth, IsTerminal, TerminalStates, Registry!NoJob

(* mark_job_lost_locked *)
LEMMA MarkLostTrue ==
  ASSUME NEW j \in Jobs, NEW r \in ServerRecord, Truth(j, r)
  PROVE  Truth(j, Registry!MarkLost(j, r))
  BY MarkLostOK, TruthOf

(* begin_job_recovery *)
LEMMA BeginRecoveryTrue ==
  ASSUME NEW j \in Jobs, NEW r \in ServerRecord, Truth(j, r)
  PROVE  Truth(j, Registry!BeginRecovery(r))
  <1>1. Registry!BeginRecovery(r).life = r.life /\ Registry!BeginRecovery(r).exec = r.exec
    BY DEF Registry!BeginRecovery, ServerRecord
  <1>2. QED
    BY <1>1, TruthOf

(* refresh_job_status_locked *)
LEMMA RefreshTrue ==
  ASSUME NEW j \in Jobs, NEW r \in ServerRecord, Truth(j, r), NEW online, NEW expired
  PROVE  Truth(j, Registry!Refresh(j, r, online, expired))
  <1>1. Registry!Refresh(j, r, online, expired)
          \in {r, Registry!MarkLost(j, r), Registry!BeginRecovery(r)}
    BY DEF Registry!Refresh
  <1>2. QED
    BY <1>1, MarkLostTrue, BeginRecoveryTrue

(* Every step of the Server alone. *)
LEMMA ServerStepTrue == ASSUME SystemInv, TruthInv, ServerStep PROVE TruthInv'
  <1>1. /\ jobs \in [Jobs -> ServerRecord] /\ receipts = [j \in Jobs |-> Registry!NoJob]
        /\ \A j \in Jobs : Truth(j, jobs[j])
    BY DEF SystemInv, SystemTypes, TruthInv
  <1>2. UNCHANGED <<managerVars, sent, starts>>
    BY DEF ServerStep, linkVars
  <1>3. SUFFICES \A j \in Jobs : Truth(j, jobs'[j])
    BY <1>2, ServerTrue
  <1>4. ASSUME NEW j \in Jobs, NEW q, jobs' = [jobs EXCEPT ![j] = q], Truth(j, q)
        PROVE  \A i \in Jobs : Truth(i, jobs'[i])
    BY <1>1, <1>4
  <1>5. ASSUME NEW j \in Jobs, Registry!StartJob(j, "Public")
        PROVE  \A i \in Jobs : Truth(i, jobs'[i])
    <2> DEFINE new == [Registry!NoJob EXCEPT !.life = "Queued", !.inst = lease.inst,
                                             !.vis = "Public", !.candidate = TRUE]
    <2>1. jobs' = [jobs EXCEPT ![j] = new]
      BY <1>5 DEF Registry!StartJob
    <2>2. Truth(j, new)
      BY DEF Truth, Registry!NoJob, TerminalStates
    <2> HIDE DEF new
    <2>3. QED
      BY <1>4, <2>1, <2>2
  <1>6. ASSUME NEW j \in Jobs, NEW expired \in BOOLEAN, Registry!ReadJob(j, expired)
        PROVE  \A i \in Jobs : Truth(i, jobs'[i])
    <2> DEFINE q == Registry!Refresh(j, jobs[j], lease.online, expired)
    <2>1. jobs' = [jobs EXCEPT ![j] = q]
      BY <1>6 DEF Registry!ReadJob
    <2>2. Truth(j, q)
      BY <1>1, RefreshTrue
    <2> HIDE DEF q
    <2>3. QED
      BY <1>4, <2>1, <2>2
  <1>7. ASSUME NEW j \in Jobs, NEW expired \in BOOLEAN, Registry!StopJob(j, expired)
        PROVE  \A i \in Jobs : Truth(i, jobs'[i])
    <2> DEFINE r == Registry!Refresh(j, jobs[j], lease.online, expired)
    <2>1. /\ r \in ServerRecord /\ Truth(j, r)
          /\ r.life = jobs[j].life \/ r.life = "Lost"
      BY <1>1, RefreshOK, RefreshTrue
    <2>2. \/ /\ r.life = "Queued"
             /\ jobs' = [jobs EXCEPT ![j] = Registry!StoppedBeforeDispatch(j, r)]
          \/ /\ r.life \in {"RunnerQueued", "Running"}
             /\ jobs' = [jobs EXCEPT ![j] = [r EXCEPT !.life = "StopRequested"]]
          \/ jobs' = [jobs EXCEPT ![j] = r]
      BY <1>7 DEF Registry!StopJob
    <2> HIDE DEF r
    <2>3. CASE /\ r.life = "Queued"
               /\ jobs' = [jobs EXCEPT ![j] = Registry!StoppedBeforeDispatch(j, r)]
      <3>1. HandedOK(j) /\ WorkOK(j)
        BY DEF SystemInv
      <3>2. starts[j] = 0
        BY <2>1, <2>3, <3>1 DEF HandedOK, WorkOK
      <3>3. Truth(j, Registry!StoppedBeforeDispatch(j, r))
        BY <2>1, <3>2 DEF Truth, Registry!StoppedBeforeDispatch, ServerRecord, IsTerminal,
             TerminalStates
      <3>4. QED
        BY <1>4, <2>3, <3>3
    <2>4. CASE /\ r.life \in {"RunnerQueued", "Running"}
               /\ jobs' = [jobs EXCEPT ![j] = [r EXCEPT !.life = "StopRequested"]]
      <3>1. Truth(j, [r EXCEPT !.life = "StopRequested"])
        BY <2>1, <2>4 DEF Truth, ServerRecord, IsTerminal, TerminalStates
      <3>2. QED
        BY <1>4, <2>4, <3>1
    <2>5. CASE jobs' = [jobs EXCEPT ![j] = r]
      BY <1>4, <2>1, <2>5
    <2>6. QED
      BY <2>2, <2>3, <2>4, <2>5
  <1>8. ASSUME NEW j \in Jobs, Registry!PruneTerminal(j)
        PROVE  \A i \in Jobs : Truth(i, jobs'[i])
    BY <1>4, <1>8, TruthOf DEF Registry!PruneTerminal
  <1>9. ASSUME NEW S \in SUBSET Jobs, Registry!ExpireRecovering(S)
        PROVE  \A i \in Jobs : Truth(i, jobs'[i])
    <2> DEFINE q(j) == IF j \in S THEN Registry!MarkLost(j, jobs[j]) ELSE jobs[j]
    <2>1. jobs' = [j \in Jobs |-> Registry!DropCleanedUp(q(j))]
      BY <1>9 DEF Registry!ExpireRecovering
    <2>2. \A j \in Jobs : q(j) \in ServerRecord /\ Truth(j, q(j))
      BY <1>1, MarkLostOK, MarkLostTrue
    <2> HIDE DEF q
    <2>3. \A j \in Jobs : jobs'[j] = q(j)
      BY <2>1, <2>2, NothingCleanedUp
    <2>4. QED
      BY <2>2, <2>3
  <1>10. CASE Registry!ExpireLease
    <2>1. jobs' = [j \in Jobs |-> Registry!MarkLost(j, jobs[j])]
      BY <1>10 DEF Registry!ExpireLease
    <2>2. QED
      BY <1>1, <2>1, MarkLostTrue
  <1>11. CASE Registry!GoStale
    BY <1>1, <1>11 DEF Registry!GoStale
  <1>12. CASE Registry!Restart
    <2>1. jobs' = [j \in Jobs |-> Registry!Hydrated(receipts[j])]
      BY <1>12 DEF Registry!Restart
    <2>2. Registry!Hydrated(Registry!NoJob) = Registry!NoJob
      BY NoJobType, RegistryVocabulary DEF Registry!Hydrated
    <2>3. \A j \in Jobs : jobs'[j] = Registry!NoJob
      BY <1>1, <2>1, <2>2
    <2>4. QED
      BY <2>3, TruthOf
  <1>13. QED
    BY <1>5, <1>6, <1>7, <1>8, <1>9, <1>10, <1>11, <1>12 DEF ServerStep

(* update_job: a report that the Server does not accept says of a          *)
(* structured Job that it has not run only if the report is acceptable.    *)
LEMMA ApplyUpdateTrue ==
  ASSUME NEW j \in Jobs, NEW r \in ServerRecord, Truth(j, r), ~IsTerminal(r.life), NEW u,
         u.exec = "NotStarted" => starts[j] = 0, j \in Structured => Acceptable(u),
         IsTerminal(u.life) \/ u.exec = "none"
  PROVE  Truth(j, Registry!ApplyUpdate(j, r, u))
  <1> DEFINE q == Registry!ApplyUpdate(j, r, u)
  <1>1. r.exec = "none"
    BY DEF Truth
  <1>2. CASE Registry!ValidExecution(j \in Structured, r.started, u.life, u.exec)
    <2>1. q.life = u.life /\ q.exec = IF IsTerminal(u.life) THEN u.exec ELSE r.exec
      BY <1>2, RegistryVocabulary DEF Registry!ApplyUpdate, ServerRecord
    <2> HIDE DEF q
    <2>2. QED
      BY <1>1, <2>1 DEF Truth, q
  <1>3. CASE ~Registry!ValidExecution(j \in Structured, r.started, u.life, u.exec)
    <2>1. q.life = "Failed" /\ q.exec = Registry!OwnExecutionState(j, r)
      BY <1>3 DEF Registry!ApplyUpdate, ServerRecord
    <2>2. q.exec # "NotStarted"
      <3>1. CASE j \notin Structured
        BY <1>1, <2>1, <3>1 DEF Registry!OwnExecutionState
      <3>2. CASE j \in Structured /\ r.started
        BY <2>1, <3>2 DEF Registry!OwnExecutionState
      <3>3. CASE j \in Structured /\ ~r.started
        <4>1. r.started = FALSE /\ (j \in Structured) = TRUE
          BY <3>3 DEF ServerRecord
        <4>2. ValidExecution(TRUE, FALSE, u.life, u.exec)
          BY <3>3 DEF Acceptable
        <4>3. Registry!ValidExecution(TRUE, FALSE, u.life, u.exec)
          BY <4>2 DEF ValidExecution, Registry!ValidExecution, IsTerminal,
             Registry!IsTerminal, TerminalStates, Registry!TerminalStates, IsTimedOut,
             Registry!IsTimedOut
        <4>4. QED
          BY <1>3, <4>1, <4>3
      <3>4. QED
        BY <3>1, <3>2, <3>3
    <2> HIDE DEF q
    <2>3. QED
      BY <2>1, <2>2 DEF Truth, IsTerminal, TerminalStates, q
  <1>4. QED
    BY <1>2, <1>3

(* An update arrives. *)
LEMMA ReportTrue ==
  ASSUME SystemInv, TruthInv, NEW s, NEW u, Report(s, u) PROVE TruthInv'
  <1>1. jobs \in [Jobs -> ServerRecord] /\ \A i \in Jobs : Truth(i, jobs[i])
    BY DEF SystemInv, SystemTypes, TruthInv
  <1>2. u \in sent /\ u \in Update /\ UpdateOK(u) /\ UpdateTrue(u)
    BY DEF Report, SystemInv, SystemTypes, TruthInv
  <1>3. PICK j \in Jobs : j = u.job
    BY <1>2 DEF Update
  <1> DEFINE m == [life |-> u.life, exec |-> u.exec, seq |-> u.seq, withLogs |-> TRUE]
             q == Registry!ApplyUpdate(j, jobs[j], m)
  <1>4. /\ m.life = u.life /\ m.exec = u.exec
        /\ m.life \in RunnerActiveStates \cup TerminalStates
        /\ m.exec \in ExecutionStates /\ m.seq \in Nat
        /\ m.exec = "NotStarted" => starts[j] = 0
        /\ j \in Structured => Acceptable(m)
        /\ IsTerminal(m.life) \/ m.exec = "none"
    BY <1>2, <1>3 DEF Update, UpdateOK, UpdateTrue, Acceptable
  <1>5. \/ jobs' = jobs
        \/ /\ jobs' = [jobs EXCEPT ![j] = Registry!DropCleanedUp(q)]
           /\ ~IsTerminal(jobs[j].life)
    BY <1>3, RegistryVocabulary DEF Report, Registry!UpdateJob, Registry!AcceptsUpdate
  <1> HIDE DEF m
  <1>6. ~IsTerminal(jobs[j].life) => Truth(j, q) /\ q \in ServerRecord
    BY <1>1, <1>4, ApplyUpdateOK, ApplyUpdateTrue
  <1> HIDE DEF q
  <1>7. \A i \in Jobs : Truth(i, jobs'[i])
    BY <1>1, <1>5, <1>6, NothingCleanedUp
  <1>8. UNCHANGED <<managerVars, sent, starts>>
    BY DEF Report, linkVars
  <1>9. QED
    BY <1>7, <1>8, ServerTrue

(* A registration with its inventory. *)
LEMMA RegisterTrue ==
  ASSUME SystemInv, TruthInv, NEW conn, NEW S, Register(conn, S) PROVE TruthInv'
  <1>1. jobs \in [Jobs -> ServerRecord] /\ \A i \in Jobs : Truth(i, jobs[i])
    BY DEF SystemInv, SystemTypes, TruthInv
  <1> DEFINE r(j) == Registry!AfterLosses(inst, Inventory, S, j)
             q(j) == Registry!Reconciled(inst, Inventory, S, j)
  <1>2. jobs' = [j \in Jobs |-> q(j)]
    BY DEF Register, Registry!Register
  <1>3. ASSUME NEW j \in Jobs PROVE r(j) \in ServerRecord /\ Truth(j, r(j))
    <2>1. \E p \in {jobs[j], Registry!MarkLost(j, jobs[j])} :
             r(j) \in {p, Registry!DropCleanedUp(p)}
      BY DEF Registry!AfterLosses
    <2>2. /\ jobs[j] \in ServerRecord /\ Registry!MarkLost(j, jobs[j]) \in ServerRecord
          /\ Truth(j, jobs[j]) /\ Truth(j, Registry!MarkLost(j, jobs[j]))
      BY <1>1, MarkLostOK, MarkLostTrue
    <2> HIDE DEF r
    <2>3. QED
      BY <2>1, <2>2, NothingCleanedUp
  <1>4. ASSUME NEW j \in Jobs PROVE Truth(j, q(j))
    <2> DEFINE t == Registry!RecordFromSnapshot(inst, Inventory[j])
               a == Registry!ApplySnapshot(r(j), inst, Inventory[j])
    <2>1. \/ q(j) = Registry!DropCleanedUp(r(j))
          \/ j \in DOMAIN Inventory /\ q(j) = Registry!DropCleanedUp(t)
          \/ j \in DOMAIN Inventory /\ q(j) = Registry!DropCleanedUp(a)
      BY DEF Registry!Reconciled
    <2>2. r(j) \in ServerRecord /\ Truth(j, r(j))
      BY <1>3
    <2> HIDE DEF r
    <2>3. ASSUME j \in DOMAIN Inventory
          PROVE  /\ t \in ServerRecord /\ Truth(j, t)
                 /\ a \in ServerRecord /\ Truth(j, a)
      <3>1. /\ Inventory[j].life = rec[j].life /\ Inventory[j].exec = rec[j].exec
            /\ rec[j].life # "Absent" /\ t \in ServerRecord /\ a \in ServerRecord
        BY <2>2, <2>3, SnapshotOK DEF Inventory
      <3>2. t.life = rec[j].life /\ t.exec = rec[j].exec
        BY <3>1 DEF Registry!RecordFromSnapshot, Registry!NoJob
      <3>3. a.life = rec[j].life /\ a.exec = rec[j].exec
        BY <2>2, <3>1 DEF Registry!ApplySnapshot, ServerRecord
      <3>4. Truth(j, rec[j])
        BY <3>1, RecordTrue
      <3> HIDE DEF t, a
      <3>5. QED
        BY <3>1, <3>2, <3>3, <3>4, TruthOf
    <2> HIDE DEF t, a, q
    <2>4. QED
      BY <2>1, <2>2, <2>3, NothingCleanedUp
  <1> HIDE DEF q
  <1>5. \A j \in Jobs : Truth(j, jobs'[j])
    BY <1>2, <1>4
  <1>6. UNCHANGED <<managerVars, sent, starts>>
    BY DEF Register, linkVars
  <1>7. QED
    BY <1>5, <1>6, ServerTrue

(* A session ends. *)
LEMMA DisconnectTrue ==
  ASSUME SystemInv, TruthInv, NEW s, Disconnect(s) PROVE TruthInv'
  <1>1. jobs \in [Jobs -> ServerRecord] /\ \A i \in Jobs : Truth(i, jobs[i])
    BY DEF SystemInv, SystemTypes, TruthInv
  <1>2. jobs' = [j \in Jobs |-> IF jobs[j].life = "Queued"
                                THEN Registry!MarkLost(j, jobs[j])
                                ELSE Registry!BeginRecovery(jobs[j])]
    BY DEF Disconnect, Registry!Disconnect
  <1>3. \A j \in Jobs : Truth(j, jobs'[j])
    BY <1>1, <1>2, MarkLostTrue, BeginRecoveryTrue
  <1>4. UNCHANGED <<managerVars, sent, starts>>
    BY DEF Disconnect, linkVars
  <1>5. QED
    BY <1>3, <1>4, ServerTrue

(* A request is handed out. *)
LEMMA DispatchTrue ==
  ASSUME SystemInv, TruthInv, NEW s, Dispatch(s) PROVE TruthInv'
  <1>1. jobs \in [Jobs -> ServerRecord] /\ \A i \in Jobs : Truth(i, jobs[i])
    BY DEF SystemInv, SystemTypes, TruthInv
  <1>2. jobs' = jobs
        \/ \E j \in Jobs : jobs' = [jobs EXCEPT ![j] = Registry!Dispatched(j, jobs[j])]
    BY DEF Dispatch, Registry!Poll
  <1>3. ASSUME NEW j \in Jobs PROVE Truth(j, Registry!Dispatched(j, jobs[j]))
    <2>1. jobs[j] \in ServerRecord /\ Truth(j, jobs[j])
      BY <1>1
    <2>2. QED
      BY <2>1 DEF Registry!Dispatched, Truth, ServerRecord, IsTerminal, TerminalStates
  <1>4. \A j \in Jobs : Truth(j, jobs'[j])
    BY <1>1, <1>2, <1>3
  <1>5. UNCHANGED <<managerVars, sent, starts>>
    BY DEF Dispatch
  <1>6. QED
    BY <1>4, <1>5, ServerTrue

(* A process is replaced: the new one says nothing yet. *)
LEMMA ReplaceTrue == ASSUME TruthInv, NEW i, Replace(i) PROVE TruthInv'
  <1>1. /\ rec' = [j \in Jobs |-> Manager!NoRecord] /\ pc' = [j \in Jobs |-> "idle"]
        /\ jobs' = jobs /\ sent' = sent /\ starts' = starts
    BY DEF Replace, registryVars
  <1>2. MP!SaidInv'
    BY <1>1 DEF MP!SaidInv, MP!SaidOK, Manager!NoRecord, MP!Present, MP!IsRunnerActive,
                MP!RunnerActiveStates
  <1>3. QED
    BY <1>1, <1>2 DEF TruthInv, Truth, UpdateTrue

(* Nothing is said in the beginning. *)
LEMMA TruthInit == Init => TruthInv
  <1> SUFFICES ASSUME Init PROVE TruthInv
    OBVIOUS
  <1>1. /\ jobs = [j \in Jobs |-> Registry!NoJob] /\ sent = {}
        /\ rec = [j \in Jobs |-> Manager!NoRecord] /\ pc = [j \in Jobs |-> "idle"]
    BY DEF Init, Registry!Init, Manager!Init
  <1>2. MP!SaidInv
    BY <1>1 DEF MP!SaidInv, MP!SaidOK, Manager!NoRecord, MP!Present, MP!IsRunnerActive,
                MP!RunnerActiveStates
  <1>3. QED
    BY <1>1, <1>2, TruthOf DEF TruthInv

(* Every step keeps what is said true. *)
LEMMA TruthNext ==
  ASSUME SystemInv, SystemInv', TruthInv, [Next]_vars PROVE TruthInv'
  <1>1. CASE UNCHANGED vars
    BY <1>1, ServerTrue DEF vars, linkVars, registryVars, TruthInv
  <1>2. QED
    BY <1>1, ServerStepTrue, DispatchTrue, DisconnectTrue, ReportTrue, RegisterTrue,
       RunnerTrue, ReplaceTrue DEF Next

(* So it is true in every state. *)
LEMMA TruthHolds == Spec => []TruthInv
  <1>1. SystemInv /\ SystemInv' /\ TruthInv /\ [Next]_vars => TruthInv'
    BY TruthNext
  <1>2. QED
    BY SystemInvariant, TruthInit, <1>1, PTL DEF Spec

(***************************************************************************)
(* On the Runner's word not_started may be relied on: a Job shown as ended *)
(* other than lost, with that execution state, had no command started by   *)
(* any process.  It takes more than the invariant of the system: whatever  *)
(* a process concludes of a structured Job must pass the Server's rule for *)
(* execution states, or the Server would put its own not_started in its    *)
(* place for a Job of whose start it does not know.                        *)
(***************************************************************************)
THEOREM NotStartedTrue == Spec => []NotStartedUnlessLost
  <1>1. TruthInv => NotStartedUnlessLost
    BY DEF TruthInv, Truth, NotStartedUnlessLost
  <1>2. QED
    BY TruthHolds, <1>1, PTL

(***************************************************************************)
(* What the executor promises it keeps under this Server and network, in   *)
(* whichever process runs: its commands fit into the slots, what has ended *)
(* is quiet, no wakeup is lost, and only an early stop leaves a record     *)
(* that the Server refuses at a registration.  Over all processes the      *)
(* command of a Job is started once.                                       *)
(***************************************************************************)
THEOREM ExecutorSafeInSystem ==
  Spec => []( /\ Manager!SlotBound /\ Manager!EndedIsQuiet /\ Manager!NoLostWakeup
              /\ Manager!OnlyEarlyStopRefused
              /\ \A j \in Jobs : starts[j] <= 1 )
  <1>1. SystemInv /\ TruthInv =>
            /\ Manager!SlotBound /\ Manager!EndedIsQuiet /\ Manager!NoLostWakeup
            /\ Manager!OnlyEarlyStopRefused
            /\ \A j \in Jobs : starts[j] <= 1
    <2> SUFFICES ASSUME SystemInv, TruthInv
                 PROVE  /\ Manager!SlotBound /\ Manager!EndedIsQuiet /\ Manager!NoLostWakeup
                        /\ Manager!OnlyEarlyStopRefused
                        /\ \A j \in Jobs : starts[j] <= 1
      OBVIOUS
    <2>1. MP!ManagerInv /\ MP!SaidInv
      BY DEF SystemInv, TruthInv
    <2>2. /\ MP!SlotBound /\ MP!EndedIsQuiet /\ MP!NoLostWakeup
          /\ MP!OnlyEarlyStopRefused
      BY <2>1, MP!SlotsKept, MP!QuietKept, MP!StopsKept, SystemAssumption
         DEF MP!ManagerInv, MP!IsFiniteSet, IsFiniteSet
    <2>3. Manager!SlotBound /\ Manager!NoLostWakeup
      BY <2>2, Zenon
         DEF Manager!SlotBound, MP!SlotBound, Manager!NoLostWakeup, MP!NoLostWakeup,
             Manager!HasFreeSlot, MP!HasFreeSlot, Manager!ShuttingDown, MP!ShuttingDown,
             Manager!Reserved, MP!Reserved, Manager!Active, MP!Active,
             Manager!IsRunnerActive, MP!IsRunnerActive, Manager!RunnerActiveStates,
             MP!RunnerActiveStates, Manager!Cardinality, MP!Cardinality,
             Manager!IsFiniteSet, MP!IsFiniteSet
    <2>4. Manager!EndedIsQuiet
      BY <2>2, Zenon
         DEF Manager!EndedIsQuiet, MP!EndedIsQuiet, Manager!IsTerminal, MP!IsTerminal,
             Manager!TerminalStates, MP!TerminalStates, Manager!Present, MP!Present
    <2>5. Manager!OnlyEarlyStopRefused
      BY <2>2, Zenon
         DEF Manager!OnlyEarlyStopRefused, MP!OnlyEarlyStopRefused,
             Manager!ValidSnapshot, MP!ValidSnapshot, Manager!ValidExecution,
             MP!ValidExecution, Manager!IsRunnerActive, MP!IsRunnerActive,
             Manager!RunnerActiveStates, MP!RunnerActiveStates, Manager!IsTerminal,
             MP!IsTerminal, Manager!TerminalStates, MP!TerminalStates,
             Manager!IsTimedOut, MP!IsTimedOut
    <2>6. \A j \in Jobs : starts[j] <= 1
      BY DEF SystemInv, SystemTypes
    <2>7. QED
      BY <2>3, <2>4, <2>5, <2>6
  <1>2. QED
    BY SystemInvariant, TruthHolds, <1>1, PTL
===============================================================================
