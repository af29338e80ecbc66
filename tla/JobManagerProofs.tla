--------------------------- MODULE JobManagerProofs ---------------------------
(***************************************************************************)
(* Proofs about the Runner's executor, for every set of Jobs, every number *)
(* of slots, every length of a validation plan and every bound.            *)
(***************************************************************************)
EXTENDS JobManager, FiniteSetTheorems, SequenceTheorems, TLAPS

-------------------------------------------------------------------------------
(* The inductive invariant. *)

(* A thread carries the Job: it is neither waiting nor over. *)
Carried == Places \ {"idle", "queued", "done"}

(* No command of the Job was started yet. *)
BeforeSpawn == {"idle", "announce", "queued", "start", "fence", "check"}

Waiting == { j \in Jobs : \E k \in 1..Len(queued) : queued[k] = j }

Unique == \A k, l \in 1..Len(queued) : queued[k] = queued[l] => k = l

Limit(j) == IF j \in Validation THEN Steps ELSE 1

(* Slot and child belong to an active record, an execution state to an     *)
(* ended one.                                                              *)
WellFormed(r) ==
    /\ ~IsRunnerActive(r.life) => ~r.slot /\ r.child = 0
    /\ IsRunnerActive(r.life) => r.exec = "none"

(* What one Job's record, thread, stop and process have to do with each    *)
(* other.                                                                  *)
RecordOK(j) ==
    /\ WellFormed(rec[j])
    /\ rec[j].exec = "NotStarted" => spawns[j] = 0
    /\ pc[j] = "idle" => ~Present(rec[j])
    /\ pc[j] \in Carried => IsRunnerActive(rec[j].life) /\ rec[j].slot

PlaceOK(j) ==
    /\ alive[j] => pc[j] \in {"publish", "started", "running"}
    /\ j \in Waiting => pc[j] = "queued" /\ IsRunnerActive(rec[j].life)
    /\ stopper[j] = "cancel" => pc[j] = "queued" /\ j \notin Waiting

CommandOK(j) ==
    /\ spawns[j] <= Limit(j)
    /\ pc[j] \in BeforeSpawn => spawns[j] = 0
    /\ pc[j] = "spawn" => spawns[j] < Limit(j)
    /\ pc[j] = "step" => j \in Validation /\ spawns[j] < Steps
    /\ pc[j] \notin {"settle", "report"} => verdict[j].exec = "none"
    /\ verdict[j].exec = "NotStarted" => spawns[j] = 0

Signalled == phase \in {"signalled", "drained"}

SignalOK(j) ==
    Signalled =>
        (alive[j] \/ pc[j] \in {"spawn", "publish", "started", "running", "step"} =>
             stopFlag[j])

JobOK(j) == RecordOK(j) /\ PlaceOK(j) /\ CommandOK(j) /\ SignalOK(j)

ManagerInv ==
    /\ TypeOK
    /\ Unique
    /\ \A j \in Jobs : JobOK(j)
    /\ Cardinality(Reserved) <= MaxConcurrent
    /\ NoLostWakeup

-------------------------------------------------------------------------------
(* Records *)

(* A record only moves forward. *)
Forward(r, q) ==
    Present(r) /\ Present(q) =>
        /\ Rank(r.life) <= Rank(q.life)
        /\ IsTerminal(r.life) => q = r
        /\ (q.life # r.life \/ q.exec # r.exec) => q.seq > r.seq

(* An update that does not end the Job changes neither what is active, nor *)
(* slots, nor published children.                                          *)
LEMMA ActiveUpdate ==
  ASSUME NEW r \in JobRecord, NEW incoming \in RunnerActiveStates
  PROVE  LET q == RecordUpdate(r, incoming, "none")
         IN  /\ q \in JobRecord
             /\ Forward(r, q)
             /\ Present(q) <=> Present(r)
             /\ IsRunnerActive(q.life) <=> IsRunnerActive(r.life)
             /\ q.slot = r.slot /\ q.child = r.child /\ q.exec = r.exec
  <1> DEFINE life == IF Regresses(r.life, incoming) THEN r.life ELSE incoming
             q == RecordUpdate(r, incoming, "none")
  <1>1. CASE ~Present(r) \/ IsTerminal(r.life)
    <2>1. q = r
      BY <1>1 DEF RecordUpdate
    <2>2. QED
      BY <2>1 DEF Forward, Rank, JobRecord
  <1>2. CASE Present(r) /\ ~IsTerminal(r.life)
    <2>1. r.life \in RunnerActiveStates
      BY <1>2 DEF JobRecord, Present, IsTerminal
    <2>2. life \in RunnerActiveStates /\ ~IsTerminal(life)
      BY <2>1 DEF RunnerActiveStates, IsTerminal, TerminalStates
    <2>3. Rank(r.life) <= Rank(life)
      BY <2>1 DEF RunnerActiveStates, Regresses, Rank
    <2>4. /\ q = [life |-> life, seq |-> r.seq + 1, exec |-> r.exec,
                  started |-> q.started, slot |-> r.slot, child |-> r.child]
          /\ q.started \in BOOLEAN
      BY <1>2, <2>2 DEF RecordUpdate, JobRecord
    <2>5. q \in JobRecord /\ q.life = life /\ q.seq = r.seq + 1
      BY <2>2, <2>4 DEF JobRecord
    <2>6. QED
      BY <1>2, <2>1, <2>2, <2>3, <2>4, <2>5
         DEF Forward, Present, IsRunnerActive, RunnerActiveStates, JobRecord
  <1>3. QED
    BY <1>1, <1>2

(* A terminal update of an active record ends it; nothing else changes. *)
LEMMA FinalUpdate ==
  ASSUME NEW r \in JobRecord, NEW incoming \in TerminalStates,
         NEW exec \in ExecutionStates, WellFormed(r)
  PROVE  LET q == RecordUpdate(r, incoming, exec)
         IN  /\ q \in JobRecord
             /\ Forward(r, q)
             /\ Present(q) <=> Present(r)
             /\ ~IsRunnerActive(q.life) /\ ~q.slot /\ q.child = 0
             /\ q.exec = exec \/ q.exec = r.exec
  <1> DEFINE q == RecordUpdate(r, incoming, exec)
  <1>1. CASE ~Present(r) \/ IsTerminal(r.life)
    <2>1. q = r /\ ~IsRunnerActive(r.life)
      BY <1>1 DEF RecordUpdate, Present, IsTerminal, TerminalStates, IsRunnerActive,
                  RunnerActiveStates
    <2>2. QED
      BY <2>1 DEF Forward, Rank, JobRecord, WellFormed
  <1>2. CASE Present(r) /\ ~IsTerminal(r.life)
    <2>1. r.life \in RunnerActiveStates
      BY <1>2 DEF JobRecord, Present, IsTerminal
    <2>2. ~Regresses(r.life, incoming) /\ IsTerminal(incoming)
      BY DEF Regresses, TerminalStates, IsTerminal
    <2>3. PICK b \in BOOLEAN, x \in {exec, r.exec} :
             q = [life |-> incoming, seq |-> r.seq + 1, exec |-> x,
                  started |-> b, slot |-> FALSE, child |-> 0]
      BY <1>2, <2>2 DEF RecordUpdate, JobRecord
    <2>4. x \in ExecutionStates
      BY <2>3 DEF JobRecord
    <2>5. 0 \in 0..Steps /\ r.seq + 1 \in Nat
      BY ManagerAssumption DEF JobRecord
    <2>6. q \in JobRecord /\ q.life = incoming /\ q.seq = r.seq + 1
      BY <2>3, <2>4, <2>5 DEF JobRecord
    <2>7. Rank(r.life) <= Rank(incoming)
      BY <2>1 DEF RunnerActiveStates, TerminalStates, Rank
    <2>8. ~IsRunnerActive(incoming) /\ Present(q)
      BY <2>6 DEF IsRunnerActive, RunnerActiveStates, TerminalStates, Present
    <2>9. q.slot = FALSE /\ q.child = 0
      BY <2>3
    <2>10. QED
      BY <1>2, <2>3, <2>5, <2>6, <2>7, <2>8, <2>9 DEF Forward, JobRecord
  <1>3. QED
    BY <1>1, <1>2

-------------------------------------------------------------------------------
(* Steps that concern one Job, its waiting and the shutdown apart *)

(* Nothing happens to Job i, but that its process may die and that it may  *)
(* be told to stop.                                                        *)
Same(i) ==
    /\ rec'[i] = rec[i] /\ pc'[i] = pc[i] /\ verdict'[i] = verdict[i]
    /\ stopper'[i] = stopper[i] /\ spawns'[i] = spawns[i]
    /\ alive'[i] => alive[i]
    /\ stopFlag[i] => stopFlag'[i]

HoldsSlot(r) == IsRunnerActive(r.life) /\ r.slot

LocalStep(j) ==
    /\ \A i \in Jobs \ {j} : Same(i)
    /\ phase' = phase /\ queued' = queued
    /\ HoldsSlot(rec'[j]) => HoldsSlot(rec[j])
    /\ waking' >= waking
    /\ HoldsSlot(rec[j]) /\ ~HoldsSlot(rec'[j]) => waking' > waking
    /\ Forward(rec[j], rec'[j])

AllForward == \A j \in Jobs : Forward(rec[j], rec'[j])

(* The Jobs that hold a slot are a finite set. *)
LEMMA ReservedFinite == IsFiniteSet(Reserved) /\ Cardinality(Reserved) \in Nat
  <1>1. Reserved \subseteq Jobs
    BY DEF Reserved, Active
  <1>2. QED
    BY <1>1, ManagerAssumption, FS_Subset, FS_CardinalityType

(* The same of the state after a step. *)
LEMMA ReservedFiniteNext == IsFiniteSet(Reserved') /\ Cardinality(Reserved') \in Nat
  <1>1. Reserved' \subseteq Jobs
    BY DEF Reserved, Active
  <1>2. QED
    BY <1>1, ManagerAssumption, FS_Subset, FS_CardinalityType

(* A record does not change by itself, so it moves forward. *)
LEMMA ForwardSame == ASSUME NEW r \in JobRecord PROVE Forward(r, r)
  BY DEF Forward, Rank, JobRecord

(* What a step does not touch stays in order. *)
LEMMA Frame ==
  ASSUME NEW i \in Jobs, JobOK(i), Same(i), Signalled' => Signalled,
         i \in Waiting' => i \in Waiting
  PROVE  JobOK(i)'
  <1>1. RecordOK(i)'
    BY DEF JobOK, Same, RecordOK
  <1>2. PlaceOK(i)'
    BY DEF JobOK, Same, PlaceOK
  <1>3. CommandOK(i)'
    BY DEF JobOK, Same, CommandOK
  <1>4. SignalOK(i)'
    BY DEF JobOK, Same, SignalOK, Signalled
  <1>5. QED
    BY <1>1, <1>2, <1>3, <1>4 DEF JobOK

(* A local step that leaves its own Job in order keeps the invariant. *)
LEMMA LocalPreserves ==
  ASSUME ManagerInv, NEW j \in Jobs, LocalStep(j), TypeOK', JobOK(j)'
  PROVE  ManagerInv' /\ AllForward
  <1>1. Waiting' = Waiting /\ (Unique <=> Unique')
    BY DEF LocalStep, Waiting, Unique
  <1>2. \A i \in Jobs : JobOK(i)'
    <2> SUFFICES ASSUME NEW i \in Jobs, i # j PROVE JobOK(i)'
      OBVIOUS
    <2>1. Same(i) /\ JobOK(i) /\ (Signalled' => Signalled)
      BY DEF LocalStep, ManagerInv, Signalled
    <2>2. QED
      BY <2>1, <1>1, Frame
  <1>3. AllForward
    <2> SUFFICES ASSUME NEW i \in Jobs, i # j PROVE Forward(rec[i], rec'[i])
      BY DEF AllForward, LocalStep
    <2>1. rec'[i] = rec[i] /\ rec[i] \in JobRecord
      BY DEF LocalStep, Same, ManagerInv, TypeOK
    <2>2. QED
      BY <2>1, ForwardSame
  <1>4. Reserved' \subseteq Reserved
    BY DEF LocalStep, Same, Reserved, Active, HoldsSlot
  <1>5. Cardinality(Reserved') <= Cardinality(Reserved)
    BY <1>4, ReservedFinite, FS_Subset
  <1>6. Cardinality(Reserved') <= MaxConcurrent
    BY <1>5, ReservedFinite, ReservedFiniteNext, ManagerAssumption DEF ManagerInv
  <1>7. NoLostWakeup'
    <2>1. waking \in Nat /\ waking' \in Nat
      BY DEF ManagerInv, TypeOK
    <2>2. CASE waking' > waking
      BY <2>1, <2>2 DEF NoLostWakeup
    <2>3. CASE ~(waking' > waking)
      <3>1. Reserved' = Reserved
        BY <2>3 DEF LocalStep, Same, Reserved, Active, HoldsSlot
      <3>2. waking' = waking
        BY <2>1, <2>3 DEF LocalStep
      <3>3. QED
        BY <3>1, <3>2
           DEF ManagerInv, NoLostWakeup, HasFreeSlot, ShuttingDown, LocalStep
    <2>4. QED
      BY <2>2, <2>3
  <1>8. QED
    BY <1>1, <1>2, <1>3, <1>6, <1>7 DEF ManagerInv

-------------------------------------------------------------------------------
(* Steps that leave the record alone *)

(* What is concluded before the first spawn is well typed. *)
LEMMA RefusedType ==
  ASSUME NEW j \in Jobs
  PROVE  Refused(j) \in Verdict /\ PreStart(j) \in ExecutionStates
  BY DEF Refused, PreStart, Verdict, ExecutionStates, TerminalStates

(* A step of the thread, of a stop or of the process. *)
ControlStep(j) ==
    \/ StartNow(j) \/ PrepareFails(j) \/ Check(j) \/ Spawn(j) \/ SpawnFails(j)
    \/ NextStep(j) \/ FinishStructured(j) \/ Settle(j) \/ Finish(j)
    \/ StopLook(j) \/ StopFlag(j) \/ StopKill(j)

(* Such a step concerns one Job and leaves its record alone. *)
LEMMA ControlLocal ==
  ASSUME ManagerInv, NEW j \in Jobs, ControlStep(j)
  PROVE  LocalStep(j) /\ rec' = rec /\ queued' = queued /\ phase' = phase
  <1>1. /\ rec' = rec /\ queued' = queued /\ phase' = phase /\ waking' = waking
        /\ \A i \in Jobs \ {j} : Same(i)
    <2> USE DEF ManagerInv, TypeOK, Same, Goto, Conclude, procVars, GotoStop
    <2>1. CASE StartNow(j) \/ PrepareFails(j) \/ Check(j) \/ SpawnFails(j) \/ NextStep(j)
      BY <2>1 DEF StartNow, PrepareFails, Check, SpawnFails, NextStep
    <2>2. CASE Spawn(j) \/ FinishStructured(j) \/ Settle(j)
      BY <2>2 DEF Spawn, FinishStructured, Settle
    <2>3. CASE Finish(j)
      BY <2>3 DEF Finish
    <2>4. CASE StopLook(j) \/ StopFlag(j) \/ StopKill(j)
      BY <2>4 DEF StopLook, StopFlag, StopKill
    <2>5. QED
      BY <2>1, <2>2, <2>3, <2>4 DEF ControlStep
  <1>2. waking \in Nat /\ rec[j] \in JobRecord
    BY DEF ManagerInv, TypeOK
  <1>3. QED
    BY <1>1, <1>2, ForwardSame DEF LocalStep

(* It keeps the types. *)
LEMMA ControlTyped ==
  ASSUME ManagerInv, NEW j \in Jobs, ControlStep(j)
  PROVE  TypeOK'
  <1> USE DEF ManagerInv, TypeOK, Goto, Conclude, procVars, GotoStop, Places, StopPlaces
  <1>1. CASE StartNow(j)
    BY <1>1, RefusedType DEF StartNow
  <1>2. CASE PrepareFails(j)
    BY <1>2, RefusedType DEF PrepareFails
  <1>3. CASE Check(j)
    BY <1>3, RefusedType DEF Check
  <1>4. CASE SpawnFails(j)
    BY <1>4, RefusedType DEF SpawnFails
  <1>5. CASE Spawn(j)
    <2>1. spawns[j] + 1 \in 0..Steps
      BY <1>5, ManagerAssumption DEF Spawn, JobOK, CommandOK, Limit
    <2>2. QED
      BY <1>5, <2>1 DEF Spawn
  <1>6. CASE NextStep(j)
    <2>1. [life |-> "Stopped", exec |-> "none"] \in Verdict
      BY DEF Verdict, TerminalStates, ExecutionStates
    <2>2. QED
      BY <1>6, <2>1 DEF NextStep
  <1>7. CASE FinishStructured(j)
    BY <1>7 DEF FinishStructured, Verdict, TerminalStates, ExecutionStates
  <1>8. CASE Settle(j)
    BY <1>8 DEF Settle, Verdict, TerminalStates, ExecutionStates
  <1>9. CASE Finish(j)
    <2>1. PICK life \in {"Stopped", "Completed", "Failed", "Timeout"}, known \in BOOLEAN :
             /\ stopFlag' = [stopFlag EXCEPT ![j] = @ \/ life = "Timeout"]
             /\ IF life = "Completed" /\ j \in Validation /\ spawns[j] < Steps
                THEN verdict' = verdict /\ Goto(j, "step")
                ELSE /\ Conclude(j, [life |-> life, exec |-> ShellExec(j, life, known)])
                     /\ Goto(j, "report")
      BY <1>9 DEF Finish
    <2>2. [life |-> life, exec |-> ShellExec(j, life, known)] \in Verdict
      BY DEF ShellExec, Verdict, TerminalStates, ExecutionStates
    <2>3. pc' \in [Jobs -> Places] /\ verdict' \in [Jobs -> Verdict]
      <3>1. CASE verdict' = verdict /\ Goto(j, "step")
        BY <3>1
      <3>2. CASE /\ Conclude(j, [life |-> life, exec |-> ShellExec(j, life, known)])
                 /\ Goto(j, "report")
        BY <3>2, <2>2
      <3>3. QED
        BY <2>1, <3>1, <3>2
    <2>4. stopFlag' \in [Jobs -> BOOLEAN]
      BY <2>1
    <2>5. QED
      BY <1>9, <2>3, <2>4 DEF Finish
  <1>10. CASE StopLook(j)
    <2>1. rec[j].child \in 0..Steps
      BY DEF JobRecord
    <2>2. QED
      BY <1>10, <2>1 DEF StopLook
  <1>11. CASE StopFlag(j)
    BY <1>11 DEF StopFlag
  <1>12. CASE StopKill(j)
    BY <1>12, ManagerAssumption DEF StopKill
  <1>13. QED
    BY <1>1, <1>2, <1>3, <1>4, <1>5, <1>6, <1>7, <1>8, <1>9, <1>10, <1>11, <1>12
       DEF ControlStep

(* It leaves its Job in order, whatever the flags were when it looked. *)
LEMMA ControlOK ==
  ASSUME ManagerInv, NEW j \in Jobs, ControlStep(j)
  PROVE  JobOK(j)'
  <1>1. /\ Waiting' = Waiting /\ rec' = rec /\ phase' = phase
        /\ JobOK(j) /\ TypeOK
    BY ControlLocal DEF Waiting, ManagerInv
  <1> USE DEF JobOK, RecordOK, PlaceOK, CommandOK, SignalOK, Signalled, BeforeSpawn,
              Carried, Places, TypeOK, Goto, Conclude, procVars, GotoStop
  <1>2. CASE StartNow(j)
    BY <1>1, <1>2 DEF StartNow, Refused, PreStart
  <1>3. CASE PrepareFails(j)
    <2>1. CASE j \in Structured
      BY <1>1, <1>3, <2>1 DEF PrepareFails, Refused, PreStart, Limit
    <2>2. CASE j \notin Structured
      BY <1>1, <1>3, <2>2 DEF PrepareFails, Refused, PreStart, Limit
    <2>3. QED
      BY <2>1, <2>2
  <1>4. CASE Check(j)
    BY <1>1, <1>4, ManagerAssumption DEF Check, Refused, PreStart, Limit, ShuttingDown
  <1>5. CASE SpawnFails(j)
    BY <1>1, <1>5 DEF SpawnFails, Refused, PreStart, Limit
  <1>6. CASE Spawn(j)
    <2>1. /\ spawns[j] \in Nat /\ Limit(j) \in Nat
          /\ spawns[j] < Limit(j) /\ rec[j].exec = "none" /\ verdict[j].exec = "none"
      BY <1>1, <1>6, ManagerAssumption DEF Spawn, Limit, WellFormed
    <2>2. QED
      BY <1>1, <1>6, <2>1 DEF Spawn
  <1>7. CASE NextStep(j)
    BY <1>1, <1>7 DEF NextStep, Limit, ShuttingDown
  <1>8. CASE FinishStructured(j)
    BY <1>1, <1>8 DEF FinishStructured
  <1>9. CASE Settle(j)
    BY <1>1, <1>9 DEF Settle, Verdict
  <1>10. CASE Finish(j)
    BY <1>1, <1>10 DEF Finish, ShellExec
  <1>11. CASE StopLook(j)
    BY <1>1, <1>11 DEF StopLook, StopPlaces
  <1>12. CASE StopFlag(j)
    BY <1>1, <1>12 DEF StopFlag, StopPlaces
  <1>13. CASE StopKill(j)
    BY <1>1, <1>13 DEF StopKill, StopPlaces
  <1>14. QED
    BY <1>2, <1>3, <1>4, <1>5, <1>6, <1>7, <1>8, <1>9, <1>10, <1>11, <1>12, <1>13
       DEF ControlStep

-------------------------------------------------------------------------------
(* Steps that change the record of their Job, but not the queue *)

ActiveRecordStep(j) ==
    Announce(j) \/ AnnounceQueued(j) \/ Started(j) \/ Output(j) \/ StopTell(j)

FinalRecordStep(j) == ReportEnd(j) \/ StopCancel(j)

(* Reports of an active Job. *)
LEMMA ActiveRecordPreserves ==
  ASSUME ManagerInv, NEW j \in Jobs, ActiveRecordStep(j)
  PROVE  ManagerInv' /\ AllForward
  <1>1. PICK incoming \in RunnerActiveStates :
           rec' = [rec EXCEPT ![j] = RecordUpdate(rec[j], incoming, "none")]
    BY DEF ActiveRecordStep, Announce, AnnounceQueued, Started, Output, StopTell, Record,
           RunnerActiveStates
  <1>2. TypeOK /\ JobOK(j) /\ rec[j] \in JobRecord
    BY DEF ManagerInv, TypeOK
  <1>3. /\ rec'[j] \in JobRecord
        /\ Forward(rec[j], rec'[j])
        /\ Present(rec'[j]) <=> Present(rec[j])
        /\ IsRunnerActive(rec'[j].life) <=> IsRunnerActive(rec[j].life)
        /\ rec'[j].slot = rec[j].slot /\ rec'[j].child = rec[j].child
        /\ rec'[j].exec = rec[j].exec
        /\ \A i \in Jobs \ {j} : rec'[i] = rec[i]
        /\ rec' \in [Jobs -> JobRecord]
    <2>1. rec'[j] = RecordUpdate(rec[j], incoming, "none")
      BY <1>1, <1>2 DEF TypeOK
    <2>2. \A i \in Jobs \ {j} : rec'[i] = rec[i]
      BY <1>1, <1>2 DEF TypeOK
    <2>3. rec'[j] \in JobRecord
      BY <1>2, <2>1, ActiveUpdate
    <2>4. rec' \in [Jobs -> JobRecord]
      BY <1>1, <1>2, <2>1, <2>3 DEF TypeOK
    <2>5. QED
      BY <1>2, <2>1, <2>2, <2>3, <2>4, ActiveUpdate
  <1>4. /\ queued' = queued /\ phase' = phase /\ waking' = waking
        /\ stopFlag' = stopFlag /\ targets' = targets /\ verdict' = verdict
        /\ handle' = handle /\ spawns' = spawns /\ alive' = alive
    BY DEF ActiveRecordStep, Announce, AnnounceQueued, Started, Output, StopTell, procVars
  <1>5. TypeOK'
    <2>1. /\ pc' \in [Jobs -> Places] /\ late' \in [Jobs -> BOOLEAN]
          /\ stopper' \in [Jobs -> StopPlaces]
      BY <1>2 DEF ActiveRecordStep, Announce, AnnounceQueued, Started, Output, StopTell,
                  Goto, GotoStop, TypeOK, Places, StopPlaces
    <2>2. QED
      BY <1>2, <1>3, <1>4, <2>1 DEF TypeOK
  <1>6. LocalStep(j)
    <2>1. \A i \in Jobs \ {j} : pc'[i] = pc[i] /\ stopper'[i] = stopper[i]
      BY <1>2 DEF ActiveRecordStep, Announce, AnnounceQueued, Started, Output, StopTell,
                  Goto, GotoStop, TypeOK
    <2>2. \A i \in Jobs \ {j} : Same(i)
      BY <1>3, <1>4, <2>1 DEF Same
    <2>3. waking \in Nat
      BY <1>2 DEF TypeOK
    <2>4. QED
      BY <1>3, <1>4, <2>2, <2>3 DEF LocalStep, HoldsSlot
  <1>7. JobOK(j)'
    <2>1. WellFormed(rec'[j])
      BY <1>2, <1>3 DEF JobOK, RecordOK, WellFormed
    <2>2. Waiting' = Waiting
      BY <1>4 DEF Waiting
    <2>3. \/ pc'[j] = pc[j]
          \/ pc[j] = "announce" /\ pc'[j] = "start"
          \/ pc[j] = "started" /\ pc'[j] = "running"
      BY <1>2 DEF ActiveRecordStep, Announce, AnnounceQueued, Started, Output, StopTell,
                  Goto, TypeOK
    <2>4. stopper'[j] = "cancel" => stopper[j] = "cancel"
      BY <1>2 DEF ActiveRecordStep, Announce, AnnounceQueued, Started, Output, StopTell,
                  GotoStop, TypeOK
    <2>5. RecordOK(j)'
      BY <1>2, <1>3, <1>4, <2>1, <2>3 DEF JobOK, RecordOK, Carried, Places
    <2>6. PlaceOK(j)'
      BY <1>2, <1>3, <1>4, <2>2, <2>3, <2>4 DEF JobOK, PlaceOK
    <2>7. CommandOK(j)'
      BY <1>2, <1>4, <2>3 DEF JobOK, CommandOK, BeforeSpawn
    <2>8. SignalOK(j)'
      BY <1>2, <1>4, <2>3 DEF JobOK, SignalOK, Signalled
    <2>9. QED
      BY <2>5, <2>6, <2>7, <2>8 DEF JobOK
  <1>8. QED
    BY <1>5, <1>6, <1>7, LocalPreserves

(* The end of a Job. *)
LEMMA FinalRecordPreserves ==
  ASSUME ManagerInv, NEW j \in Jobs, FinalRecordStep(j)
  PROVE  ManagerInv' /\ AllForward
  <1>1. TypeOK /\ JobOK(j) /\ rec[j] \in JobRecord /\ WellFormed(rec[j])
    BY DEF ManagerInv, TypeOK, JobOK, RecordOK
  <1>2. PICK life \in TerminalStates, exec \in ExecutionStates :
           /\ rec' = [rec EXCEPT ![j] = RecordUpdate(rec[j], life, exec)]
           /\ exec = "NotStarted" => spawns[j] = 0
    <2>1. CASE ReportEnd(j)
      <3>1. verdict[j].life \in TerminalStates /\ verdict[j].exec \in ExecutionStates
        BY <1>1 DEF TypeOK, Verdict
      <3>2. QED
        BY <1>1, <2>1, <3>1 DEF ReportEnd, Record, JobOK, CommandOK
    <2>2. CASE StopCancel(j)
      <3>1. spawns[j] = 0
        BY <1>1, <2>2 DEF StopCancel, JobOK, PlaceOK, CommandOK, BeforeSpawn
      <3>2. QED
        BY <2>2, <3>1, RefusedType DEF StopCancel, Record, TerminalStates
    <2>3. QED
      BY <2>1, <2>2 DEF FinalRecordStep
  <1>3. /\ rec'[j] \in JobRecord
        /\ Forward(rec[j], rec'[j])
        /\ Present(rec'[j]) <=> Present(rec[j])
        /\ ~IsRunnerActive(rec'[j].life) /\ ~rec'[j].slot /\ rec'[j].child = 0
        /\ rec'[j].exec = exec \/ rec'[j].exec = rec[j].exec
        /\ \A i \in Jobs \ {j} : rec'[i] = rec[i]
        /\ rec' \in [Jobs -> JobRecord]
    <2>1. rec'[j] = RecordUpdate(rec[j], life, exec)
      BY <1>1, <1>2 DEF TypeOK
    <2>2. \A i \in Jobs \ {j} : rec'[i] = rec[i]
      BY <1>1, <1>2 DEF TypeOK
    <2>3. rec'[j] \in JobRecord
      BY <1>1, <2>1, FinalUpdate
    <2>4. rec' \in [Jobs -> JobRecord]
      BY <1>1, <1>2, <2>1, <2>3 DEF TypeOK
    <2>5. QED
      BY <1>1, <2>1, <2>2, <2>3, <2>4, FinalUpdate
  <1>4. /\ queued' = queued /\ phase' = phase /\ waking' = waking + 1
        /\ stopFlag' = stopFlag /\ targets' = targets /\ late' = late
        /\ handle' = handle /\ spawns' = spawns /\ alive' = alive
    BY DEF FinalRecordStep, ReportEnd, StopCancel, procVars
  <1>5. /\ pc' \in [Jobs -> Places] /\ stopper' \in [Jobs -> StopPlaces]
        /\ verdict' \in [Jobs -> Verdict]
        /\ \A i \in Jobs \ {j} : /\ pc'[i] = pc[i] /\ stopper'[i] = stopper[i]
                                 /\ verdict'[i] = verdict[i]
    <2>1. NoVerdict \in Verdict
      BY DEF NoVerdict, Verdict, TerminalStates, ExecutionStates
    <2>2. CASE ReportEnd(j)
      BY <1>1, <2>1, <2>2 DEF ReportEnd, Goto, Conclude, TypeOK, Places
    <2>3. CASE StopCancel(j)
      BY <1>1, <2>3 DEF StopCancel, GotoStop, TypeOK, StopPlaces
    <2>4. QED
      BY <2>2, <2>3 DEF FinalRecordStep
  <1>6. TypeOK'
    BY <1>1, <1>3, <1>4, <1>5 DEF TypeOK
  <1>7. LocalStep(j)
    <2>1. \A i \in Jobs \ {j} : Same(i)
      BY <1>3, <1>4, <1>5 DEF Same
    <2>2. waking \in Nat
      BY <1>1 DEF TypeOK
    <2>3. QED
      BY <1>3, <1>4, <2>1, <2>2 DEF LocalStep, HoldsSlot
  <1>8. JobOK(j)'
    <2>1. WellFormed(rec'[j])
      BY <1>3 DEF WellFormed
    <2>2. Waiting' = Waiting
      BY <1>4 DEF Waiting
    <2>3. \/ pc[j] = "report" /\ pc'[j] = "done" /\ verdict'[j].exec = "none"
             /\ stopper'[j] = stopper[j]
          \/ pc[j] = "queued" /\ pc'[j] = "queued" /\ verdict'[j] = verdict[j]
             /\ stopper'[j] = "none" /\ j \notin Waiting
      BY <1>1 DEF FinalRecordStep, ReportEnd, StopCancel, Goto, GotoStop, Conclude,
                  NoVerdict, TypeOK, JobOK, PlaceOK
    <2>4. RecordOK(j)'
      BY <1>1, <1>2, <1>3, <1>4, <2>1, <2>3 DEF JobOK, RecordOK, Carried, Places
    <2>5. PlaceOK(j)'
      BY <1>1, <1>4, <2>2, <2>3 DEF JobOK, PlaceOK
    <2>6. CommandOK(j)'
      BY <1>1, <1>4, <2>3 DEF JobOK, CommandOK, BeforeSpawn
    <2>7. SignalOK(j)'
      BY <1>1, <1>4, <2>3 DEF JobOK, SignalOK, Signalled
    <2>8. QED
      BY <2>4, <2>5, <2>6, <2>7 DEF JobOK
  <1>9. QED
    BY <1>6, <1>7, <1>8, LocalPreserves

(* The admission fence finds the slot already taken. *)
LEMMA FencePreserves ==
  ASSUME ManagerInv, NEW j \in Jobs, Fence(j)
  PROVE  ManagerInv' /\ AllForward
  <1>1. TypeOK /\ JobOK(j) /\ rec[j] \in JobRecord /\ rec[j].slot = TRUE
    <2>1. TypeOK /\ JobOK(j) /\ rec[j] \in JobRecord
      BY DEF ManagerInv, TypeOK
    <2>2. rec[j].slot
      BY <2>1 DEF Fence, JobOK, RecordOK, Carried, Places
    <2>3. QED
      BY <2>1, <2>2 DEF JobRecord
  <1>2. rec' = rec
    <2>1. [rec EXCEPT ![j].slot = TRUE] = rec
      <3>1. [rec[j] EXCEPT !.slot = TRUE] = rec[j]
        BY <1>1 DEF JobRecord
      <3>2. QED
        BY <1>1, <3>1 DEF TypeOK
    <2>2. QED
      BY <2>1 DEF Fence
  <1>3. TypeOK'
    <2>1. pc' \in [Jobs -> Places] /\ verdict' \in [Jobs -> Verdict]
      <3>1. PICK place \in {"report", "spawn", "check"} : Goto(j, place)
        BY DEF Fence
      <3>2. verdict' = verdict \/ Conclude(j, Refused(j))
        BY DEF Fence
      <3>3. place \in Places
        BY <3>1 DEF Places
      <3>4. QED
        BY <1>1, <3>1, <3>2, <3>3, RefusedType DEF TypeOK, Goto, Conclude
    <2>2. QED
      BY <1>1, <1>2, <2>1 DEF Fence, TypeOK, procVars
  <1>4. LocalStep(j)
    <2>1. \A i \in Jobs \ {j} : Same(i)
      BY <1>1, <1>2 DEF Fence, Same, TypeOK, Goto, Conclude, procVars
    <2>2. waking' = waking /\ waking \in Nat /\ queued' = queued /\ phase' = phase
      BY <1>1 DEF Fence, TypeOK
    <2>3. QED
      BY <1>1, <1>2, <2>1, <2>2, ForwardSame DEF LocalStep
  <1>5. JobOK(j)'
    <2>1. Waiting' = Waiting
      BY DEF Fence, Waiting
    <2>2. QED
      BY <1>1, <1>2, <2>1, ManagerAssumption
         DEF Fence, JobOK, RecordOK, PlaceOK, CommandOK, SignalOK, Signalled, BeforeSpawn,
             Carried,
             Places, TypeOK, Goto, Conclude, procVars, Refused, PreStart, Limit, ShuttingDown
  <1>6. QED
    BY <1>3, <1>4, <1>5, LocalPreserves

(* Publication: the record gets a child only while a thread carries the Job. *)
LEMMA PublishPreserves ==
  ASSUME ManagerInv, NEW j \in Jobs, Publish(j)
  PROVE  ManagerInv' /\ AllForward
  <1>1. TypeOK /\ JobOK(j) /\ rec[j] \in JobRecord
        /\ IsRunnerActive(rec[j].life) /\ spawns[j] \in 0..Steps
    BY DEF ManagerInv, TypeOK, Publish, JobOK, RecordOK, Carried, Places
  <1>2. /\ rec' \in [Jobs -> JobRecord]
        /\ \A i \in Jobs \ {j} : rec'[i] = rec[i]
        /\ rec'[j].life = rec[j].life /\ rec'[j].slot = rec[j].slot
        /\ rec'[j].exec = rec[j].exec
    <2>1. rec' = rec \/ rec' = [rec EXCEPT ![j].child = spawns[j]]
      BY DEF Publish
    <2>2. [rec[j] EXCEPT !.child = spawns[j]] \in JobRecord
      BY <1>1 DEF JobRecord
    <2>3. CASE rec' = rec
      BY <1>1, <2>3 DEF TypeOK
    <2>4. CASE rec' = [rec EXCEPT ![j].child = spawns[j]]
      <3>1. rec'[j] = [rec[j] EXCEPT !.child = spawns[j]]
        BY <1>1, <2>4 DEF TypeOK
      <3>2. QED
        BY <1>1, <2>2, <2>4, <3>1 DEF TypeOK, JobRecord
    <2>5. QED
      BY <2>1, <2>3, <2>4
  <1>3. /\ [life |-> "Stopped", exec |-> "none"] \in Verdict
        /\ [life |-> "Failed", exec |-> IF j \in Validation THEN "none"
                                        ELSE "OutcomeUnknown"] \in Verdict
    BY DEF Verdict, TerminalStates, ExecutionStates
  <1>4. TypeOK'
    <2>1. alive' \in [Jobs -> BOOLEAN] /\ pc' \in [Jobs -> Places]
      BY <1>1 DEF Publish, TypeOK, Goto, Places
    <2>2. verdict' \in [Jobs -> Verdict]
      <3>1. \/ verdict' = verdict
            \/ Conclude(j, [life |-> "Stopped", exec |-> "none"])
            \/ Conclude(j, [life |-> "Failed", exec |-> IF j \in Validation THEN "none"
                                                        ELSE "OutcomeUnknown"])
        BY DEF Publish
      <3>2. QED
        BY <1>1, <1>3, <3>1 DEF Conclude, TypeOK
    <2>3. QED
      BY <1>1, <1>2, <2>1, <2>2 DEF Publish, TypeOK
  <1>5. LocalStep(j)
    <2>1. \A i \in Jobs \ {j} : Same(i)
      BY <1>1, <1>2 DEF Publish, Same, TypeOK, Goto, Conclude
    <2>2. waking' = waking /\ waking \in Nat /\ queued' = queued /\ phase' = phase
      BY <1>1 DEF Publish, TypeOK
    <2>3. Forward(rec[j], rec'[j])
      BY <1>1, <1>2
         DEF Forward, Rank, IsRunnerActive, RunnerActiveStates, IsTerminal, TerminalStates
    <2>4. QED
      BY <1>2, <2>1, <2>2, <2>3 DEF LocalStep, HoldsSlot
  <1>6. JobOK(j)'
    <2>1. Waiting' = Waiting
      BY DEF Publish, Waiting
    <2>2. RecordOK(j)'
      BY <1>1, <1>2 DEF Publish, JobOK, RecordOK, WellFormed, Present, Goto, TypeOK,
                        Carried, Places
    <2>3. PlaceOK(j)'
      BY <1>1, <1>2, <2>1 DEF Publish, JobOK, PlaceOK, Goto, TypeOK
    <2>4. CommandOK(j)'
      BY <1>1 DEF Publish, JobOK, CommandOK, Goto, Conclude, TypeOK, BeforeSpawn
    <2>5. SignalOK(j)'
      BY <1>1 DEF Publish, JobOK, SignalOK, Signalled, Goto, TypeOK
    <2>6. QED
      BY <2>2, <2>3, <2>4, <2>5 DEF JobOK
  <1>7. QED
    BY <1>4, <1>5, <1>6, LocalPreserves

(* The empty record is a record. *)
LEMMA NoRecordType ==
  NoRecord \in JobRecord /\ ~Present(NoRecord) /\ WellFormed(NoRecord)
  /\ ~IsRunnerActive(NoRecord.life) /\ NoRecord.exec = "none"
  BY ManagerAssumption
     DEF NoRecord, JobRecord, Present, WellFormed, IsRunnerActive, RunnerActiveStates,
         ExecutionStates

(* Retention ends for records that have ended only. *)
LEMMA PrunePreserves ==
  ASSUME ManagerInv, NEW j \in Jobs, Prune(j)
  PROVE  ManagerInv' /\ AllForward
  <1>1. TypeOK /\ JobOK(j) /\ rec[j] \in JobRecord /\ ~IsRunnerActive(rec[j].life)
    BY DEF ManagerInv, TypeOK, Prune, IsTerminal, TerminalStates, IsRunnerActive,
           RunnerActiveStates
  <1>2. /\ rec' \in [Jobs -> JobRecord] /\ rec'[j] = NoRecord
        /\ \A i \in Jobs \ {j} : rec'[i] = rec[i]
    BY <1>1, NoRecordType DEF Prune, TypeOK
  <1>3. /\ queued' = queued /\ phase' = phase /\ waking' = waking /\ pc' = pc
        /\ stopFlag' = stopFlag /\ targets' = targets /\ late' = late
        /\ verdict' = verdict /\ stopper' = stopper
        /\ handle' = handle /\ spawns' = spawns /\ alive' = alive
    BY DEF Prune, procVars
  <1>4. TypeOK'
    BY <1>1, <1>2, <1>3 DEF TypeOK
  <1>5. LocalStep(j)
    BY <1>1, <1>2, <1>3, NoRecordType DEF LocalStep, Same, HoldsSlot, Forward, TypeOK
  <1>6. JobOK(j)'
    <2>1. Waiting' = Waiting
      BY <1>3 DEF Waiting
    <2>2. QED
      BY <1>1, <1>2, <1>3, <2>1, NoRecordType
         DEF JobOK, RecordOK, PlaceOK, CommandOK, SignalOK, Signalled
  <1>7. QED
    BY <1>4, <1>5, <1>6, LocalPreserves

-------------------------------------------------------------------------------
(* The local queue *)

(* A Job joins the queue. *)
LEMMA QueueAppend ==
  ASSUME queued \in Seq(Jobs), NEW j \in Jobs, Unique, j \notin Waiting,
         queued' = Append(queued, j)
  PROVE  /\ queued' \in Seq(Jobs) /\ Unique' /\ Waiting' = Waiting \cup {j}
  <1>1. /\ queued' \in Seq(Jobs) /\ Len(queued') = Len(queued) + 1
        /\ Len(queued) \in Nat
        /\ \A k \in 1..Len(queued) : queued'[k] = queued[k]
        /\ queued'[Len(queued) + 1] = j
    OBVIOUS
  <1>2. Unique'
    BY <1>1 DEF Unique, Waiting
  <1>3. Waiting' = Waiting \cup {j}
    <2>1. ASSUME NEW i \in Waiting' PROVE i \in Waiting \cup {j}
      BY <1>1, <2>1 DEF Waiting
    <2>2. ASSUME NEW i \in Waiting \cup {j} PROVE i \in Waiting'
      <3>1. CASE i = j
        BY <1>1, <3>1 DEF Waiting
      <3>2. CASE i \in Waiting
        BY <1>1, <3>2 DEF Waiting
      <3>3. QED
        BY <2>2, <3>1, <3>2
    <2>3. QED
      BY <2>1, <2>2
  <1>4. QED
    BY <1>1, <1>2, <1>3

(* The oldest Job leaves the queue. *)
LEMMA QueueTail ==
  ASSUME queued \in Seq(Jobs), queued # <<>>, Unique, queued' = Tail(queued)
  PROVE  /\ queued' \in Seq(Jobs) /\ Unique' /\ Head(queued) \in Waiting
         /\ Waiting' = Waiting \ {Head(queued)}
  <1>1. /\ queued' \in Seq(Jobs) /\ Len(queued') = Len(queued) - 1
        /\ Len(queued) \in Nat /\ Len(queued) > 0
        /\ \A k \in 1..Len(queued') : queued'[k] = queued[k + 1]
        /\ Head(queued) = queued[1] /\ queued[1] \in Jobs
    OBVIOUS
  <1>2. Unique'
    BY <1>1 DEF Unique
  <1>3. ASSUME NEW i \in Waiting' PROVE i \in Waiting \ {Head(queued)}
    <2>1. PICK k \in 1..Len(queued') : queued'[k] = i
      BY <1>3 DEF Waiting
    <2>2. k + 1 \in 1..Len(queued) /\ queued[k + 1] = i /\ k + 1 # 1 /\ 1 \in 1..Len(queued)
      BY <1>1, <2>1
    <2>3. QED
      BY <1>1, <2>2, <1>3 DEF Waiting, Unique
  <1>4. ASSUME NEW i \in Waiting, i # Head(queued) PROVE i \in Waiting'
    <2>1. PICK k \in 1..Len(queued) : queued[k] = i
      BY <1>4 DEF Waiting
    <2>2. k - 1 \in 1..Len(queued') /\ queued'[k - 1] = i
      BY <1>1, <1>4, <2>1
    <2>3. QED
      BY <2>2, <1>4 DEF Waiting
  <1>5. Head(queued) \in Waiting
    BY <1>1 DEF Waiting
  <1>6. QED
    BY <1>1, <1>2, <1>3, <1>4, <1>5

(* A sequence without its k-th element. *)
LEMMA RemovedElement ==
  ASSUME NEW S, NEW s \in Seq(S), NEW k \in 1..Len(s)
  PROVE  LET t == SubSeq(s, 1, k - 1) \o SubSeq(s, k + 1, Len(s))
         IN  /\ t \in Seq(S) /\ Len(t) = Len(s) - 1
             /\ \A l \in 1..Len(t) : t[l] = IF l < k THEN s[l] ELSE s[l + 1]
  <1> DEFINE a == SubSeq(s, 1, k - 1)
             b == SubSeq(s, k + 1, Len(s))
  <1>1. Len(s) \in Nat
    OBVIOUS
  <1>2. a \in Seq(S) /\ Len(a) = k - 1 /\ \A l \in 1..(k - 1) : a[l] = s[l]
    BY <1>1
  <1>3. /\ b \in Seq(S) /\ Len(b) = Len(s) - k
        /\ \A l \in 1..(Len(s) - k) : b[l] = s[l + k]
    BY <1>1
  <1> HIDE DEF a, b
  <1>4. /\ a \o b \in Seq(S) /\ Len(a \o b) = Len(s) - 1
        /\ \A l \in 1..Len(a \o b) :
              (a \o b)[l] = IF l <= k - 1 THEN a[l] ELSE b[l - (k - 1)]
    <2>1. /\ a \o b \in Seq(S) /\ Len(a \o b) = Len(a) + Len(b)
          /\ \A l \in 1..(Len(a) + Len(b)) :
                (a \o b)[l] = IF l <= Len(a) THEN a[l] ELSE b[l - Len(a)]
      BY <1>2, <1>3, ConcatProperties
    <2>2. Len(a) + Len(b) = Len(s) - 1
      BY <1>1, <1>2, <1>3
    <2>3. QED
      BY <1>2, <2>1, <2>2
  <1>5. ASSUME NEW l \in 1..Len(a \o b)
        PROVE  (a \o b)[l] = IF l < k THEN s[l] ELSE s[l + 1]
    <2>1. CASE l < k
      BY <1>1, <1>2, <1>4, <2>1
    <2>2. CASE ~(l < k)
      <3>1. l - (k - 1) \in 1..(Len(s) - k) /\ (l - (k - 1)) + k = l + 1
        BY <1>1, <1>4, <2>2
      <3>2. QED
        BY <1>1, <1>3, <1>4, <2>2, <3>1
    <2>3. QED
      BY <2>1, <2>2
  <1>6. QED
    BY <1>4, <1>5 DEF a, b

(* A Job leaves the queue from any place. *)
LEMMA QueueRemove ==
  ASSUME queued \in Seq(Jobs), Unique, NEW k \in 1..Len(queued),
         queued' = SubSeq(queued, 1, k - 1) \o SubSeq(queued, k + 1, Len(queued))
  PROVE  /\ queued' \in Seq(Jobs) /\ Unique'
         /\ Waiting' = Waiting \ {queued[k]}
  <1>1. /\ queued' \in Seq(Jobs) /\ Len(queued') = Len(queued) - 1
        /\ \A l \in 1..Len(queued') :
              queued'[l] = IF l < k THEN queued[l] ELSE queued[l + 1]
    BY RemovedElement
  <1> DEFINE n == Len(queued)
             old(l) == queued[l]
             new(l) == queued'[l]
  <1>2. n \in Nat /\ k \in 1..n /\ Len(queued') = n - 1
    BY <1>1, LenProperties
  <1>3. \A l \in 1..(n - 1) : new(l) = IF l < k THEN old(l) ELSE old(l + 1)
    BY <1>1, <1>2
  <1>4. \A l, m \in 1..n : old(l) = old(m) => l = m
    BY DEF Unique
  <1>5. /\ \A i : i \in Waiting <=> i \in Jobs /\ \E l \in 1..n : old(l) = i
        /\ \A i : i \in Waiting' <=> i \in Jobs /\ \E l \in 1..(n - 1) : new(l) = i
    BY <1>2 DEF Waiting
  <1>6. (\A l, m \in 1..(n - 1) : new(l) = new(m) => l = m) => Unique'
    BY <1>2 DEF Unique
  <1> HIDE DEF n, old, new
  <1>7. \A l, m \in 1..(n - 1) : new(l) = new(m) => l = m
    BY <1>2, <1>3, <1>4
  <1>8. ASSUME NEW i \in Waiting' PROVE i \in Waiting /\ i # old(k)
    <2>1. PICK l \in 1..(n - 1) : new(l) = i
      BY <1>5, <1>8
    <2>2. PICK m \in 1..n : m # k /\ old(m) = i
      BY <1>2, <1>3, <2>1
    <2>3. QED
      BY <1>2, <1>4, <1>5, <1>8, <2>2
  <1>9. ASSUME NEW i \in Waiting, i # old(k) PROVE i \in Waiting'
    <2>1. PICK l \in 1..n : old(l) = i /\ l # k
      BY <1>5, <1>9
    <2>2. \E m \in 1..(n - 1) : new(m) = i
      <3>1. CASE l < k
        BY <1>2, <1>3, <2>1, <3>1
      <3>2. CASE l > k
        <4>1. l - 1 \in 1..(n - 1) /\ ~(l - 1 < k) /\ (l - 1) + 1 = l
          BY <1>2, <2>1, <3>2
        <4>2. QED
          BY <1>3, <2>1, <4>1
      <3>3. QED
        BY <1>2, <2>1, <3>1, <3>2
    <2>3. QED
      BY <1>5, <1>9, <2>2
  <1>10. QED
    BY <1>1, <1>6, <1>7, <1>8, <1>9 DEF old

-------------------------------------------------------------------------------
(* Admission, wakeups, removals from the queue, and the shutdown *)

(* A step that concerns Job j and the queue keeps the invariant when slots *)
(* and wakeups stay in order.                                              *)
LEMMA QueuePreserves ==
  ASSUME ManagerInv, NEW j \in Jobs, \A i \in Jobs \ {j} : Same(i),
         Signalled' => Signalled, Waiting' \subseteq Waiting \cup {j},
         TypeOK', Unique', JobOK(j)', Forward(rec[j], rec'[j]),
         Cardinality(Reserved') <= MaxConcurrent, NoLostWakeup'
  PROVE  ManagerInv' /\ AllForward
  <1>1. ASSUME NEW i \in Jobs, i # j PROVE JobOK(i)' /\ Forward(rec[i], rec'[i])
    <2>1. Same(i) /\ JobOK(i) /\ rec[i] \in JobRecord /\ (i \in Waiting' => i \in Waiting)
      BY <1>1 DEF ManagerInv, TypeOK
    <2>2. JobOK(i)'
      BY <2>1, Frame
    <2>3. QED
      BY <2>1, <2>2, ForwardSame DEF Same
  <1>2. \A i \in Jobs : JobOK(i)' /\ Forward(rec[i], rec'[i])
    BY <1>1
  <1>3. QED
    BY <1>2 DEF ManagerInv, AllForward

(* The same of a step that concerns no Job in particular. *)
LEMMA GlobalPreserves ==
  ASSUME ManagerInv, \A i \in Jobs : Same(i),
         Signalled' => Signalled, Waiting' \subseteq Waiting,
         TypeOK', Unique', NoLostWakeup'
  PROVE  ManagerInv' /\ AllForward
  <1>1. ASSUME NEW i \in Jobs PROVE JobOK(i)' /\ Forward(rec[i], rec'[i])
    <2>1. Same(i) /\ JobOK(i) /\ rec[i] \in JobRecord /\ (i \in Waiting' => i \in Waiting)
      BY DEF ManagerInv, TypeOK
    <2>2. JobOK(i)'
      BY <2>1, Frame
    <2>3. QED
      BY <2>1, <2>2, ForwardSame DEF Same
  <1>2. Reserved' = Reserved
    BY DEF Reserved, Active, Same
  <1>3. QED
    BY <1>1, <1>2 DEF ManagerInv, AllForward

(* One more slot is taken while one is free. *)
LEMMA TakeSlot ==
  ASSUME NEW j \in Jobs, HasFreeSlot, Reserved' = Reserved \cup {j}
  PROVE  /\ Cardinality(Reserved') <= MaxConcurrent
         /\ Cardinality(Reserved) <= Cardinality(Reserved')
  <1>1. \/ Cardinality(Reserved') = Cardinality(Reserved)
        \/ Cardinality(Reserved') = Cardinality(Reserved) + 1
    BY ReservedFinite, FS_AddElement
  <1>2. QED
    BY <1>1, ReservedFinite, ManagerAssumption DEF HasFreeSlot

(* Admission. *)
LEMMA EnqueuePreserves ==
  ASSUME ManagerInv, NEW j \in Jobs, Enqueue(j)
  PROVE  ManagerInv' /\ AllForward
  <1> DEFINE new == [NoRecord EXCEPT !.life = "RunnerQueued"]
             slotted == [new EXCEPT !.slot = TRUE]
             failed == [NoRecord EXCEPT !.life = "Failed", !.seq = 1, !.exec = PreStart(j)]
  <1>1. TypeOK /\ JobOK(j) /\ rec[j] \in JobRecord
    BY DEF ManagerInv, TypeOK
  <1>2. /\ ~Present(rec[j]) /\ pc[j] = "idle"
        /\ ~IsRunnerActive(rec[j].life) /\ spawns[j] = 0 /\ ~alive[j]
        /\ verdict[j].exec = "none" /\ j \notin Waiting /\ stopper[j] # "cancel"
    BY <1>1 DEF Enqueue, Admits, JobOK, RecordOK, PlaceOK, CommandOK, BeforeSpawn,
                Present, IsRunnerActive, RunnerActiveStates
  <1>3. /\ NoRecord \in JobRecord /\ NoRecord.slot = FALSE /\ NoRecord.child = 0
        /\ NoRecord.exec = "none"
    BY NoRecordType DEF NoRecord
  <1>4. /\ new \in JobRecord /\ slotted \in JobRecord /\ failed \in JobRecord
        /\ IsRunnerActive(new.life) /\ IsRunnerActive(slotted.life)
        /\ ~IsRunnerActive(failed.life)
        /\ WellFormed(new) /\ WellFormed(slotted) /\ WellFormed(failed)
        /\ ~new.slot /\ slotted.slot /\ new.exec = "none" /\ slotted.exec = "none"
        /\ failed.exec = PreStart(j)
    <2>1. /\ new \in JobRecord /\ new.life = "RunnerQueued" /\ new.slot = FALSE
          /\ new.child = 0 /\ new.exec = "none"
      BY <1>3 DEF JobRecord, RunnerActiveStates
    <2>2. /\ failed \in JobRecord /\ failed.life = "Failed" /\ failed.slot = FALSE
          /\ failed.child = 0 /\ failed.exec = PreStart(j)
      BY <1>3, RefusedType DEF JobRecord, TerminalStates
    <2> HIDE DEF new, failed
    <2>3. /\ slotted \in JobRecord /\ slotted.life = "RunnerQueued" /\ slotted.slot = TRUE
          /\ slotted.child = 0 /\ slotted.exec = "none"
      BY <2>1 DEF JobRecord
    <2> HIDE DEF slotted
    <2>4. QED
      BY <2>1, <2>2, <2>3 DEF WellFormed, IsRunnerActive, RunnerActiveStates
  <1> HIDE DEF new, slotted, failed
  <1>5. /\ phase' = phase /\ waking' = waking /\ stopFlag' = stopFlag
        /\ targets' = targets /\ verdict' = verdict /\ stopper' = stopper
        /\ handle' = handle /\ spawns' = spawns /\ alive' = alive
    BY DEF Enqueue, procVars
  <1>6. \/ /\ rec' = [rec EXCEPT ![j] = failed]
           /\ pc' = [pc EXCEPT ![j] = "done"]
           /\ queued' = queued /\ late' = late
        \/ /\ ~HasFreeSlot
           /\ rec' = [rec EXCEPT ![j] = new]
           /\ pc' = [pc EXCEPT ![j] = "queued"]
           /\ queued' = Append(queued, j) /\ late' = [late EXCEPT ![j] = TRUE]
        \/ /\ HasFreeSlot
           /\ rec' = [rec EXCEPT ![j] = slotted]
           /\ pc' = [pc EXCEPT ![j] = "announce"]
           /\ queued' = queued /\ late' = late
    BY DEF Enqueue, Goto, new, slotted, failed
  <1>7. Forward(rec[j], rec'[j])
    BY <1>2 DEF Forward
  <1>8. Signalled' => Signalled
    BY <1>5 DEF Signalled
  <1>9. \A i \in Jobs \ {j} : Same(i)
    <2>1. \A i \in Jobs \ {j} : rec'[i] = rec[i] /\ pc'[i] = pc[i]
      BY <1>1, <1>6 DEF TypeOK
    <2>2. QED
      BY <1>5, <2>1 DEF Same
  <1>10. j \notin Reserved
    BY <1>2 DEF Reserved, Active
  <1>11. CASE /\ rec' = [rec EXCEPT ![j] = failed]
              /\ pc' = [pc EXCEPT ![j] = "done"]
              /\ queued' = queued /\ late' = late
    <2>1. rec'[j] = failed /\ pc'[j] = "done"
      BY <1>1, <1>11 DEF TypeOK
    <2>2. TypeOK'
      BY <1>1, <1>4, <1>5, <1>11 DEF TypeOK, Places
    <2>3. Waiting' = Waiting
      BY <1>11 DEF Waiting
    <2>4. JobOK(j)'
      BY <1>2, <1>3, <1>4, <1>5, <2>1, <2>3, <1>1, ManagerAssumption
         DEF JobOK, RecordOK, PlaceOK, CommandOK, SignalOK, Carried, Places, BeforeSpawn,
             Limit
    <2>5. LocalStep(j)
      <3>1. waking' >= waking
        BY <1>1, <1>5 DEF TypeOK
      <3>2. QED
        BY <1>2, <1>4, <1>5, <1>7, <1>9, <1>11, <2>1, <3>1 DEF LocalStep, HoldsSlot
    <2>6. QED
      BY <2>2, <2>4, <2>5, LocalPreserves
  <1>12. CASE /\ ~HasFreeSlot
              /\ rec' = [rec EXCEPT ![j] = new]
              /\ pc' = [pc EXCEPT ![j] = "queued"]
              /\ queued' = Append(queued, j) /\ late' = [late EXCEPT ![j] = TRUE]
    <2>1. rec'[j] = new /\ pc'[j] = "queued"
      BY <1>1, <1>12 DEF TypeOK
    <2>2. queued' \in Seq(Jobs) /\ Unique' /\ Waiting' = Waiting \cup {j}
      BY <1>1, <1>2, <1>12, QueueAppend DEF ManagerInv, TypeOK
    <2>3. TypeOK'
      BY <1>1, <1>4, <1>5, <1>12, <2>2 DEF TypeOK, Places
    <2>4. JobOK(j)'
      BY <1>2, <1>4, <1>5, <2>1, <1>1, ManagerAssumption
         DEF JobOK, RecordOK, PlaceOK, CommandOK, SignalOK, Carried, Places, BeforeSpawn,
             Limit
    <2>5. Reserved' = Reserved
      BY <1>4, <1>9, <1>10, <2>1 DEF Reserved, Active, Same
    <2>6. Cardinality(Reserved') <= MaxConcurrent /\ NoLostWakeup'
      BY <1>12, <2>5 DEF ManagerInv, NoLostWakeup, HasFreeSlot
    <2>7. QED
      BY <1>7, <1>8, <1>9, <2>2, <2>3, <2>4, <2>6, QueuePreserves
  <1>13. CASE /\ HasFreeSlot
              /\ rec' = [rec EXCEPT ![j] = slotted]
              /\ pc' = [pc EXCEPT ![j] = "announce"]
              /\ queued' = queued /\ late' = late
    <2>1. rec'[j] = slotted /\ pc'[j] = "announce"
      BY <1>1, <1>13 DEF TypeOK
    <2>2. Waiting' = Waiting /\ Unique'
      BY <1>13 DEF Waiting, Unique, ManagerInv
    <2>3. TypeOK'
      BY <1>1, <1>4, <1>5, <1>13 DEF TypeOK, Places
    <2>4. JobOK(j)'
      BY <1>2, <1>4, <1>5, <2>1, <2>2, <1>1, ManagerAssumption
         DEF JobOK, RecordOK, PlaceOK, CommandOK, SignalOK, Carried, Places, BeforeSpawn,
             Limit
    <2>5. Reserved' = Reserved \cup {j}
      BY <1>4, <1>9, <2>1 DEF Reserved, Active, Same
    <2>6. /\ Cardinality(Reserved') <= MaxConcurrent
          /\ Cardinality(Reserved) <= Cardinality(Reserved')
      BY <1>13, <2>5, TakeSlot
    <2>7. NoLostWakeup'
      <3>1. HasFreeSlot' => HasFreeSlot
        BY <2>6, ReservedFinite, ReservedFiniteNext, ManagerAssumption DEF HasFreeSlot
      <3>2. QED
        BY <1>5, <1>13, <3>1 DEF ManagerInv, NoLostWakeup, ShuttingDown
    <2>8. QED
      BY <1>7, <1>8, <1>9, <2>2, <2>3, <2>4, <2>6, <2>7, QueuePreserves
  <1>14. QED
    BY <1>6, <1>11, <1>12, <1>13

(* One round of start_available_queued. *)
LEMMA WakePreserves ==
  ASSUME ManagerInv, Wake
  PROVE  ManagerInv' /\ AllForward
  <1>1. TypeOK /\ waking \in Nat /\ waking > 0 /\ Signalled' = Signalled
    BY DEF ManagerInv, TypeOK, Wake, Signalled
  <1>2. /\ phase' = phase /\ stopFlag' = stopFlag /\ late' = late
        /\ targets' = targets /\ verdict' = verdict /\ stopper' = stopper
        /\ handle' = handle /\ spawns' = spawns /\ alive' = alive
    BY DEF Wake, procVars
  <1>3. CASE /\ ShuttingDown /\ queued' = <<>> /\ waking' = waking - 1
             /\ rec' = rec /\ pc' = pc
    <2>1. TypeOK'
      BY <1>1, <1>2, <1>3 DEF TypeOK
    <2>2. Waiting' \subseteq Waiting /\ Unique'
      BY <1>3 DEF Waiting, Unique
    <2>3. NoLostWakeup'
      BY <1>3 DEF NoLostWakeup
    <2>4. \A i \in Jobs : Same(i)
      BY <1>2, <1>3 DEF Same
    <2>5. QED
      BY <1>1, <2>1, <2>2, <2>3, <2>4, GlobalPreserves
  <1>4. CASE /\ ~ShuttingDown /\ queued # <<>> /\ HasFreeSlot
             /\ queued' = Tail(queued) /\ waking' = waking
             /\ rec' = [rec EXCEPT ![Head(queued)].slot = TRUE]
             /\ Goto(Head(queued), "start")
    <2>0. PICK j \in Jobs : j = Head(queued)
      BY <1>1, <1>4 DEF TypeOK
    <2>1. /\ queued' \in Seq(Jobs) /\ Unique' /\ j \in Waiting
          /\ Waiting' = Waiting \ {j}
      BY <1>1, <1>4, <2>0, QueueTail DEF ManagerInv, TypeOK
    <2>2. j \in Jobs
      OBVIOUS
    <2>3. /\ rec' = [rec EXCEPT ![j].slot = TRUE] /\ pc' = [pc EXCEPT ![j] = "start"]
      BY <1>4, <2>0 DEF Goto
    <2>4. rec[j] \in JobRecord /\ JobOK(j)
      BY <2>2 DEF ManagerInv, TypeOK
    <2>5. /\ pc[j] = "queued" /\ IsRunnerActive(rec[j].life) /\ spawns[j] = 0
          /\ ~alive[j] /\ verdict[j].exec = "none" /\ stopper[j] # "cancel"
          /\ rec[j].exec = "none"
      BY <2>1, <2>4 DEF JobOK, RecordOK, PlaceOK, CommandOK, BeforeSpawn, WellFormed
    <2>6. /\ rec'[j] \in JobRecord /\ rec'[j].life = rec[j].life /\ rec'[j].slot = TRUE
          /\ rec'[j].exec = rec[j].exec /\ rec'[j].child = rec[j].child
          /\ rec' \in [Jobs -> JobRecord] /\ \A i \in Jobs \ {j} : rec'[i] = rec[i]
      <3>1. rec'[j] = [rec[j] EXCEPT !.slot = TRUE]
        BY <1>1, <2>2, <2>3 DEF TypeOK
      <3>2. rec'[j] \in JobRecord
        BY <2>4, <3>1 DEF JobRecord
      <3>3. rec' \in [Jobs -> JobRecord] /\ \A i \in Jobs \ {j} : rec'[i] = rec[i]
        BY <1>1, <2>2, <2>3, <3>1, <3>2 DEF TypeOK
      <3>4. QED
        BY <2>4, <3>1, <3>2, <3>3 DEF JobRecord
    <2>7. pc' \in [Jobs -> Places] /\ pc'[j] = "start" /\ \A i \in Jobs \ {j} : pc'[i] = pc[i]
      BY <1>1, <2>2, <2>3 DEF TypeOK, Places
    <2>8. TypeOK'
      BY <1>1, <1>2, <1>4, <2>1, <2>6, <2>7 DEF TypeOK
    <2>9. \A i \in Jobs \ {j} : Same(i)
      BY <1>2, <2>6, <2>7 DEF Same
    <2>10. JobOK(j)'
      <3>1. WellFormed(rec'[j])
        BY <2>5, <2>6 DEF WellFormed
      <3>2. RecordOK(j)'
        BY <1>2, <2>5, <2>6, <2>7, <3>1 DEF RecordOK
      <3>3. PlaceOK(j)'
        BY <1>2, <2>1, <2>5, <2>7 DEF PlaceOK
      <3>4. CommandOK(j)'
        BY <1>2, <2>4, <2>5, <2>7 DEF CommandOK, JobOK
      <3>5. SignalOK(j)'
        BY <1>2, <2>5, <2>7 DEF SignalOK
      <3>6. QED
        BY <3>2, <3>3, <3>4, <3>5 DEF JobOK
    <2>11. Forward(rec[j], rec'[j])
      BY <2>4, <2>5, <2>6
         DEF Forward, Rank, IsRunnerActive, RunnerActiveStates, IsTerminal, TerminalStates
    <2>12. Reserved' = Reserved \cup {j}
      BY <2>2, <2>5, <2>6 DEF Reserved, Active
    <2>13. Cardinality(Reserved') <= MaxConcurrent
      BY <1>4, <2>2, <2>12, TakeSlot
    <2>14. NoLostWakeup'
      BY <1>1, <1>4 DEF NoLostWakeup
    <2>15. Waiting' \subseteq Waiting \cup {j}
      BY <2>1
    <2>16. QED
      BY <1>1, <2>1, <2>2, <2>8, <2>9, <2>10, <2>11, <2>13, <2>14, <2>15, QueuePreserves
  <1>5. CASE /\ ~ShuttingDown /\ (queued = <<>> \/ ~HasFreeSlot)
             /\ waking' = waking - 1 /\ queued' = queued /\ rec' = rec /\ pc' = pc
    <2>1. TypeOK'
      BY <1>1, <1>2, <1>5 DEF TypeOK
    <2>2. Waiting' \subseteq Waiting /\ Unique'
      BY <1>5 DEF Waiting, Unique, ManagerInv
    <2>3. NoLostWakeup'
      BY <1>5 DEF NoLostWakeup, HasFreeSlot, Reserved, Active
    <2>4. \A i \in Jobs : Same(i)
      BY <1>2, <1>5 DEF Same
    <2>5. QED
      BY <1>1, <2>1, <2>2, <2>3, <2>4, GlobalPreserves
  <1>6. QED
    BY <1>3, <1>4, <1>5 DEF Wake

(* A stop request arrives. *)
LEMMA StopPreserves ==
  ASSUME ManagerInv, NEW j \in Jobs, Stop(j)
  PROVE  ManagerInv' /\ AllForward
  <1>1. TypeOK /\ JobOK(j) /\ waking \in Nat
    BY DEF ManagerInv, TypeOK
  <1>2. /\ phase' = phase /\ stopFlag' = stopFlag /\ late' = late /\ rec' = rec
        /\ targets' = targets /\ verdict' = verdict /\ pc' = pc /\ waking' = waking
        /\ handle' = handle /\ spawns' = spawns /\ alive' = alive
    BY DEF Stop, procVars
  <1>3. /\ stopper' \in [Jobs -> StopPlaces]
        /\ \A i \in Jobs \ {j} : stopper'[i] = stopper[i]
    BY <1>1 DEF Stop, GotoStop, TypeOK, StopPlaces
  <1>4. /\ queued' \in Seq(Jobs) /\ Unique' /\ Waiting' \subseteq Waiting
        /\ stopper'[j] = "cancel" => j \in Waiting /\ j \notin Waiting'
        /\ queued' # <<>> => queued # <<>>
    <2>1. CASE \E k \in 1..Len(queued) :
                  /\ queued[k] = j
                  /\ queued' = SubSeq(queued, 1, k - 1) \o SubSeq(queued, k + 1, Len(queued))
                  /\ GotoStop(j, "cancel")
      <3>1. PICK k \in 1..Len(queued) :
               /\ queued[k] = j
               /\ queued' = SubSeq(queued, 1, k - 1) \o SubSeq(queued, k + 1, Len(queued))
               /\ GotoStop(j, "cancel")
        BY <2>1
      <3>2. queued' \in Seq(Jobs) /\ Unique' /\ Waiting' = Waiting \ {j}
        BY <1>1, <3>1, QueueRemove DEF ManagerInv, TypeOK
      <3>3. j \in Waiting /\ queued # <<>>
        BY <3>1 DEF Waiting
      <3>4. QED
        BY <3>2, <3>3
    <2>2. CASE queued' = queued /\ GotoStop(j, "look")
      BY <1>1, <2>2 DEF Waiting, Unique, ManagerInv, TypeOK, GotoStop
    <2>3. QED
      BY <2>1, <2>2 DEF Stop
  <1>5. TypeOK'
    BY <1>1, <1>2, <1>3, <1>4 DEF TypeOK
  <1>6. \A i \in Jobs \ {j} : Same(i)
    BY <1>2, <1>3 DEF Same
  <1>7. JobOK(j)'
    <2>1. RecordOK(j)' /\ CommandOK(j)' /\ SignalOK(j)'
      BY <1>1, <1>2 DEF JobOK, RecordOK, CommandOK, SignalOK, Signalled
    <2>2. PlaceOK(j)'
      BY <1>1, <1>2, <1>4 DEF JobOK, PlaceOK
    <2>3. QED
      BY <2>1, <2>2 DEF JobOK
  <1>8. Reserved' = Reserved
    BY <1>2 DEF Reserved, Active
  <1>9. Cardinality(Reserved') <= MaxConcurrent /\ NoLostWakeup'
    BY <1>2, <1>4, <1>8 DEF ManagerInv, NoLostWakeup, HasFreeSlot, ShuttingDown
  <1>10. Forward(rec[j], rec'[j])
    BY <1>1, <1>2, ForwardSame DEF TypeOK
  <1>11. (Signalled' => Signalled) /\ Waiting' \subseteq Waiting \cup {j}
    BY <1>2, <1>4 DEF Signalled
  <1>12. QED
    BY <1>4, <1>5, <1>6, <1>7, <1>9, <1>10, <1>11, QueuePreserves

(* The phases of the shutdown. *)
LEMMA ShutdownPreserves ==
  ASSUME ManagerInv, StopAcceptingWork \/ ShutdownStep
  PROVE  ManagerInv' /\ AllForward
  <1>1. TypeOK
    BY DEF ManagerInv
  <1>2. /\ late' = late /\ rec' = rec /\ verdict' = verdict /\ pc' = pc
        /\ waking' = waking /\ handle' = handle /\ spawns' = spawns
        /\ stopper' = stopper
    BY DEF StopAcceptingWork, ShutdownStep, CancelQueued, SignalAll, Drain, procVars
  <1>3. ShuttingDown'
    BY DEF StopAcceptingWork, ShutdownStep, CancelQueued, SignalAll, Drain, ShuttingDown
  <1>4. NoLostWakeup'
    BY <1>3 DEF NoLostWakeup
  <1>5. queued' \in Seq(Jobs) /\ Unique' /\ Waiting' \subseteq Waiting
    <2>1. queued' = queued \/ queued' = <<>>
      BY DEF StopAcceptingWork, ShutdownStep, CancelQueued, SignalAll, Drain
    <2>2. CASE queued' = queued
      BY <1>1, <2>2 DEF TypeOK, Unique, Waiting, ManagerInv
    <2>3. CASE queued' = <<>>
      BY <2>3 DEF Unique, Waiting
    <2>4. QED
      BY <2>1, <2>2, <2>3
  <1>6. /\ phase' \in {"up", "closing", "cancelled", "signalled", "drained"}
        /\ targets' \in [Jobs -> 0..Steps]
        /\ stopFlag' \in [Jobs -> BOOLEAN] /\ alive' \in [Jobs -> BOOLEAN]
        /\ \A i \in Jobs : (alive'[i] => alive[i]) /\ (stopFlag[i] => stopFlag'[i])
    <2>1. CASE StopAcceptingWork \/ CancelQueued
      BY <1>1, <2>1 DEF StopAcceptingWork, CancelQueued, TypeOK, procVars
    <2>2. CASE SignalAll
      <3>1. \A i \in Jobs : rec[i].child \in 0..Steps /\ 0 \in 0..Steps
        BY <1>1, ManagerAssumption DEF TypeOK, JobRecord
      <3>2. QED
        BY <1>1, <2>2, <3>1 DEF SignalAll, TypeOK, procVars
    <2>3. CASE Drain
      BY <1>1, <2>3 DEF Drain, TypeOK
    <2>4. QED
      BY <2>1, <2>2, <2>3 DEF ShutdownStep
  <1>7. TypeOK'
    BY <1>1, <1>2, <1>5, <1>6 DEF TypeOK
  <1>8. \A i \in Jobs : Same(i)
    BY <1>2, <1>6 DEF Same
  <1>9. CASE ~SignalAll
    <2>1. Signalled' => Signalled
      BY <1>9 DEF Signalled, StopAcceptingWork, ShutdownStep, CancelQueued, Drain
    <2>2. QED
      BY <1>4, <1>5, <1>7, <1>8, <2>1, GlobalPreserves
  <1>10. CASE SignalAll
    <2>1. ASSUME NEW i \in Jobs PROVE JobOK(i)' /\ Forward(rec[i], rec'[i])
      <3>1. Same(i) /\ JobOK(i) /\ rec[i] \in JobRecord /\ (i \in Waiting' => i \in Waiting)
        BY <1>1, <1>5, <1>8 DEF ManagerInv, TypeOK
      <3>2. RecordOK(i)' /\ CommandOK(i)' /\ PlaceOK(i)'
        BY <3>1 DEF JobOK, Same, RecordOK, CommandOK, PlaceOK
      <3>3. SignalOK(i)'
        <4>1. ASSUME alive'[i] \/ pc'[i] \in {"spawn", "publish", "started", "running", "step"}
              PROVE  stopFlag'[i]
          <5>1. pc[i] \in Carried
            BY <3>1, <4>1 DEF JobOK, Same, PlaceOK, Carried, Places
          <5>2. i \in Active
            BY <3>1, <5>1 DEF JobOK, RecordOK, Active
          <5>3. QED
            BY <1>10, <5>2 DEF SignalAll
        <4>2. QED
          BY <4>1 DEF SignalOK
      <3>4. QED
        BY <3>1, <3>2, <3>3, ForwardSame DEF JobOK, Same
    <2>2. Reserved' = Reserved
      BY <1>2 DEF Reserved, Active
    <2>3. QED
      BY <1>4, <1>5, <1>7, <2>1, <2>2 DEF ManagerInv, AllForward
  <1>11. QED
    BY <1>9, <1>10

-------------------------------------------------------------------------------
(* What the rest of the system sees of a step *)

(* A Job is said to be completed only after a command of it was started. *)
Ran(j) ==
    /\ pc[j] \in {"publish", "started", "running", "step", "settle"} => spawns[j] > 0
    /\ pc[j] = "report" /\ verdict[j].life = "Completed" => spawns[j] > 0
    /\ rec[j].life = "Completed" => spawns[j] > 0

RanInv == \A j \in Jobs : Ran(j)

(* No Job is begun or taken back, no record appears, and only a record     *)
(* that is there gets a new number.                                        *)
Steady(j) ==
    /\ (pc'[j] = "idle") <=> (pc[j] = "idle")
    /\ ~Present(rec[j]) => ~Present(rec'[j])
    /\ rec'[j].seq > rec[j].seq => Present(rec'[j])

(* Commands are started one at a time, by a thread at the place for it. *)
SpawnsOne ==
    \/ spawns' = spawns
    \/ \E j \in Jobs : pc[j] = "spawn" /\ spawns' = [spawns EXCEPT ![j] = @ + 1]

Visible == (\A j \in Jobs : Steady(j)) /\ SpawnsOne /\ RanInv'

(* Every step but the admission of a start request. *)
Work ==
    \/ \E j \in Jobs : AnnounceQueued(j) \/ JobStep(j) \/ Output(j) \/ Stop(j)
                        \/ StopStep(j) \/ Prune(j)
    \/ Wake \/ StopAcceptingWork \/ ShutdownStep

(* A step that leaves a Job alone. *)
LEMMA VisibleSame ==
  ASSUME ManagerInv, RanInv, NEW i \in Jobs, rec'[i] = rec[i], pc'[i] = pc[i],
         spawns'[i] = spawns[i], verdict'[i] = verdict[i]
  PROVE  Steady(i) /\ Ran(i)'
  <1>1. rec[i].seq \in Nat
    BY DEF ManagerInv, TypeOK, JobRecord
  <1>2. QED
    BY <1>1 DEF RanInv, Ran, Steady

(* A step that concerns one Job. *)
LEMMA VisibleLocal ==
  ASSUME ManagerInv, RanInv, NEW j \in Jobs,
         \A i \in Jobs \ {j} : /\ rec'[i] = rec[i] /\ pc'[i] = pc[i]
                               /\ spawns'[i] = spawns[i] /\ verdict'[i] = verdict[i],
         Steady(j), Ran(j)', SpawnsOne
  PROVE  Visible
  <1>1. ASSUME NEW i \in Jobs \ {j} PROVE Steady(i) /\ Ran(i)'
    BY VisibleSame
  <1>2. QED
    BY <1>1 DEF Visible, RanInv

(* Steps of the threads that leave the records alone. *)
LEMMA ControlVisible ==
  ASSUME ManagerInv, RanInv, NEW j \in Jobs, ControlStep(j)
  PROVE  Visible
  <1>1. rec' = rec /\ \A i \in Jobs \ {j} : Same(i)
    BY ControlLocal DEF LocalStep
  <1>2. /\ rec[j].seq \in Nat /\ spawns[j] \in Nat /\ Ran(j)
        /\ pc \in [Jobs -> Places] /\ spawns \in [Jobs -> 0..Steps]
        /\ verdict \in [Jobs -> Verdict]
    BY ManagerAssumption DEF ManagerInv, TypeOK, JobRecord, RanInv
  <1> USE DEF Goto, Conclude, procVars
  <1>3. CASE StartNow(j) \/ PrepareFails(j) \/ Check(j) \/ SpawnFails(j)
    <2>1. /\ spawns' = spawns /\ pc[j] # "idle"
          /\ pc'[j] \in {"fence", "spawn", "report"}
          /\ pc'[j] = "report" => verdict'[j] = Refused(j)
      BY <1>2, <1>3 DEF StartNow, PrepareFails, Check, SpawnFails
    <2>2. QED
      BY <1>1, <1>2, <2>1, VisibleLocal DEF Steady, Ran, SpawnsOne, Same, Refused
  <1>4. CASE Spawn(j)
    <2>1. /\ spawns' = [spawns EXCEPT ![j] = @ + 1] /\ pc[j] = "spawn"
          /\ pc'[j] \in {"started", "publish"}
      BY <1>2, <1>4 DEF Spawn
    <2>2. spawns'[j] = spawns[j] + 1
      BY <1>2, <2>1
    <2>3. Steady(j)
      BY <1>1, <1>2, <2>1 DEF Steady
    <2>4. Ran(j)'
      BY <1>1, <1>2, <2>1, <2>2 DEF Ran
    <2>5. SpawnsOne
      BY <2>1 DEF SpawnsOne
    <2>6. QED
      BY <1>1, <2>3, <2>4, <2>5, VisibleLocal DEF Same
  <1>5. CASE NextStep(j)
    <2>1. /\ spawns' = spawns /\ pc[j] # "idle" /\ pc'[j] \in {"spawn", "report"}
          /\ pc'[j] = "report" => verdict'[j].life = "Stopped"
      BY <1>2, <1>5 DEF NextStep
    <2>2. QED
      BY <1>1, <1>2, <2>1, VisibleLocal DEF Steady, Ran, SpawnsOne, Same
  <1>6. CASE FinishStructured(j) \/ Settle(j) \/ Finish(j)
    <2>1. /\ spawns' = spawns /\ pc'[j] \in {"settle", "report", "step"}
          /\ pc[j] \in {"started", "running", "settle"}
      BY <1>2, <1>6 DEF FinishStructured, Settle, Finish
    <2>2. QED
      BY <1>1, <1>2, <2>1, VisibleLocal DEF Steady, Ran, SpawnsOne, Same
  <1>7. CASE StopLook(j) \/ StopFlag(j) \/ StopKill(j)
    <2>1. spawns' = spawns /\ pc' = pc /\ verdict' = verdict
      BY <1>7 DEF StopLook, StopFlag, StopKill
    <2>2. QED
      BY <1>1, <1>2, <2>1, VisibleLocal DEF Steady, Ran, SpawnsOne, Same
  <1>8. QED
    BY <1>3, <1>4, <1>5, <1>6, <1>7 DEF ControlStep

(* Steps that record something. *)
LEMMA RecordVisible ==
  ASSUME ManagerInv, RanInv, NEW j \in Jobs, ActiveRecordStep(j) \/ FinalRecordStep(j)
  PROVE  Visible
  <1> USE DEF Goto, Conclude, procVars
  <1>1. /\ rec \in [Jobs -> JobRecord] /\ pc \in [Jobs -> Places]
        /\ verdict \in [Jobs -> Verdict] /\ RecordOK(j) /\ Ran(j)
    BY DEF ManagerInv, TypeOK, RanInv, JobOK
  <1>2. PICK life \in RunnerActiveStates \cup TerminalStates, exec \in ExecutionStates :
           /\ rec' = [rec EXCEPT ![j] = RecordUpdate(rec[j], life, exec)]
           /\ life = "Completed" => pc[j] = "report" /\ verdict[j].life = "Completed"
    <2>1. CASE ActiveRecordStep(j)
      <3>1. PICK life \in RunnerActiveStates :
               rec' = [rec EXCEPT ![j] = RecordUpdate(rec[j], life, "none")]
        BY <2>1 DEF ActiveRecordStep, Announce, AnnounceQueued, Started, Output, StopTell,
                    Record, RunnerActiveStates
      <3>2. life # "Completed" /\ "none" \in ExecutionStates
        BY DEF RunnerActiveStates, ExecutionStates
      <3>3. QED
        BY <3>1, <3>2
    <2>2. CASE ReportEnd(j)
      <3>1. verdict[j].life \in TerminalStates /\ verdict[j].exec \in ExecutionStates
        BY <1>1 DEF Verdict
      <3>2. QED
        BY <2>2, <3>1 DEF ReportEnd, Record
    <2>3. CASE StopCancel(j)
      <3>1. /\ "Stopped" \in RunnerActiveStates \cup TerminalStates
            /\ PreStart(j) \in ExecutionStates
        BY RefusedType DEF TerminalStates
      <3>2. rec' = [rec EXCEPT ![j] = RecordUpdate(rec[j], "Stopped", PreStart(j))]
        BY <2>3 DEF StopCancel, Record
      <3>3. QED
        BY <3>1, <3>2
    <2>4. QED
      BY <2>1, <2>2, <2>3 DEF FinalRecordStep
  <1> DEFINE q == RecordUpdate(rec[j], life, exec)
  <1>3. rec'[j] = q /\ \A i \in Jobs \ {j} : rec'[i] = rec[i]
    BY <1>1, <1>2
  <1>4. /\ ~Present(rec[j]) => ~Present(q)
        /\ q.seq > rec[j].seq => Present(q)
        /\ q.life = "Completed" => rec[j].life = "Completed" \/ life = "Completed"
    <2>1. CASE ~Present(rec[j]) \/ IsTerminal(rec[j].life)
      <3>1. q = rec[j] /\ rec[j].seq \in Nat
        BY <1>1, <2>1 DEF RecordUpdate, JobRecord
      <3>2. QED
        BY <3>1
    <2>2. CASE Present(rec[j]) /\ ~IsTerminal(rec[j].life)
      <3>1. q.life = IF Regresses(rec[j].life, life) THEN rec[j].life ELSE life
        BY <2>2 DEF RecordUpdate
      <3>2. life # "Absent"
        BY DEF RunnerActiveStates, TerminalStates
      <3>3. QED
        BY <2>2, <3>1, <3>2 DEF Present
    <2>3. QED
      BY <2>1, <2>2
  <1>5. /\ spawns' = spawns
        /\ \A i \in Jobs \ {j} : pc'[i] = pc[i] /\ verdict'[i] = verdict[i]
        /\ \/ pc'[j] = pc[j] /\ verdict'[j] = verdict[j]
           \/ pc[j] = "announce" /\ pc'[j] = "start"
           \/ pc[j] = "started" /\ pc'[j] = "running"
           \/ pc[j] = "report" /\ pc'[j] = "done"
    BY <1>1 DEF ActiveRecordStep, FinalRecordStep, Announce, AnnounceQueued, Started, Output,
                StopTell, ReportEnd, StopCancel
  <1>6. Steady(j)
    BY <1>3, <1>4, <1>5 DEF Steady
  <1>7. Ran(j)'
    <2>1. rec'[j].life = "Completed" => spawns[j] > 0
      BY <1>1, <1>2, <1>3, <1>4 DEF Ran
    <2>2. pc'[j] \in {"publish", "started", "running", "step", "settle"} => spawns[j] > 0
      BY <1>1, <1>5 DEF Ran
    <2>3. pc'[j] = "report" => pc[j] = "report" /\ verdict'[j] = verdict[j]
      BY <1>5
    <2>4. QED
      BY <1>1, <1>5, <2>1, <2>2, <2>3 DEF Ran
  <1>8. QED
    BY <1>3, <1>5, <1>6, <1>7, VisibleLocal DEF SpawnsOne

(* The admission of a start request: its Job begins and has a record. *)
LEMMA EnqueueVisible ==
  ASSUME ManagerInv, RanInv, NEW j \in Jobs, Enqueue(j)
  PROVE  /\ pc[j] = "idle" /\ pc'[j] # "idle"
         /\ ~Present(rec[j]) /\ Present(rec'[j])
         /\ \A i \in Jobs \ {j} : Steady(i)
         /\ spawns' = spawns
         /\ RanInv'
  <1>1. /\ rec \in [Jobs -> JobRecord] /\ pc \in [Jobs -> Places]
    BY DEF ManagerInv, TypeOK
  <1>2. /\ spawns' = spawns /\ verdict' = verdict
        /\ pc[j] = "idle" /\ pc'[j] \in {"done", "queued", "announce"}
        /\ rec'[j].life \in {"Failed", "RunnerQueued"}
        /\ \A i \in Jobs \ {j} : rec'[i] = rec[i] /\ pc'[i] = pc[i]
    BY <1>1 DEF Enqueue, Admits, NoRecord, Goto, procVars
  <1>3. \A i \in Jobs \ {j} : Steady(i) /\ Ran(i)'
    BY <1>2, VisibleSame
  <1>4. Ran(j)'
    BY <1>2 DEF Ran
  <1>5. ~Present(rec[j]) /\ Present(rec'[j])
    BY <1>2 DEF Enqueue, Admits, Present
  <1>6. QED
    BY <1>2, <1>3, <1>4, <1>5 DEF RanInv

(* The fences, stops and retention. *)
LEMMA LifecycleVisible ==
  ASSUME ManagerInv, RanInv, NEW j \in Jobs,
         Stop(j) \/ Fence(j) \/ Publish(j) \/ Prune(j)
  PROVE  Visible
  <1> USE DEF Goto, Conclude, procVars
  <1>1. /\ rec \in [Jobs -> JobRecord] /\ pc \in [Jobs -> Places] /\ rec[j].seq \in Nat
        /\ verdict \in [Jobs -> Verdict] /\ RecordOK(j) /\ Ran(j)
    BY DEF ManagerInv, TypeOK, RanInv, JobOK, JobRecord
  <1>2. CASE Stop(j)
    <2>1. spawns' = spawns /\ verdict' = verdict /\ rec' = rec /\ pc' = pc
      BY <1>2 DEF Stop
    <2>2. Steady(j) /\ Ran(j)'
      BY <1>1, <2>1 DEF Steady, Ran
    <2>3. QED
      BY <2>1, <2>2, VisibleLocal DEF SpawnsOne
  <1>3. CASE Fence(j)
    <2>1. /\ spawns' = spawns /\ pc[j] = "fence" /\ pc'[j] \in {"report", "spawn", "check"}
          /\ pc'[j] = "report" => verdict'[j] = Refused(j)
          /\ \A i \in Jobs \ {j} : /\ rec'[i] = rec[i] /\ pc'[i] = pc[i]
                                    /\ verdict'[i] = verdict[i]
      BY <1>1, <1>3 DEF Fence
    <2>2. rec'[j].life = rec[j].life /\ rec'[j].seq = rec[j].seq
      BY <1>1, <1>3 DEF Fence, JobRecord
    <2>3. Steady(j) /\ Ran(j)'
      BY <1>1, <2>1, <2>2 DEF Steady, Ran, Present, Refused
    <2>4. QED
      BY <2>1, <2>3, VisibleLocal DEF SpawnsOne
  <1>4. CASE Publish(j)
    <2>1. /\ spawns' = spawns /\ pc[j] = "publish" /\ pc'[j] \in {"report", "started"}
          /\ \A i \in Jobs \ {j} : /\ rec'[i] = rec[i] /\ pc'[i] = pc[i]
                                    /\ verdict'[i] = verdict[i]
      BY <1>1, <1>4 DEF Publish
    <2>2. rec'[j].life = rec[j].life /\ rec'[j].seq = rec[j].seq
      BY <1>1, <1>4 DEF Publish, JobRecord
    <2>3. Steady(j) /\ Ran(j)'
      BY <1>1, <2>1, <2>2 DEF Steady, Ran, Present
    <2>4. QED
      BY <2>1, <2>3, VisibleLocal DEF SpawnsOne
  <1>5. CASE Prune(j)
    <2>1. /\ spawns' = spawns /\ verdict' = verdict /\ pc' = pc
          /\ rec'[j] = NoRecord /\ \A i \in Jobs \ {j} : rec'[i] = rec[i]
      BY <1>1, <1>5 DEF Prune
    <2>2. Steady(j) /\ Ran(j)'
      BY <1>1, <2>1 DEF Steady, Ran, Present, NoRecord
    <2>3. QED
      BY <2>1, <2>2, VisibleLocal DEF SpawnsOne
  <1>6. QED
    BY <1>2, <1>3, <1>4, <1>5

(* The start of a Job that waited, and the shutdown. *)
LEMMA GlobalVisible ==
  ASSUME ManagerInv, RanInv, Wake \/ StopAcceptingWork \/ ShutdownStep \/ UNCHANGED vars
  PROVE  Visible
  <1>1. /\ rec \in [Jobs -> JobRecord] /\ pc \in [Jobs -> Places] /\ queued \in Seq(Jobs)
    BY DEF ManagerInv, TypeOK
  <1>2. CASE rec' = rec /\ pc' = pc /\ spawns' = spawns /\ verdict' = verdict
    <2>1. \A j \in Jobs : Steady(j)
      BY <1>1, <1>2 DEF Steady, JobRecord
    <2>2. RanInv'
      BY <1>2 DEF RanInv, Ran
    <2>3. QED
      BY <1>2, <2>1, <2>2 DEF Visible, SpawnsOne
  <1>3. CASE Wake /\ queued # <<>> /\ pc' = [pc EXCEPT ![Head(queued)] = "start"]
             /\ rec' = [rec EXCEPT ![Head(queued)].slot = TRUE]
    <2>1. PICK j \in Jobs : j = Head(queued) /\ j \in Waiting
      <3>1. 1 \in 1..Len(queued) /\ Head(queued) = queued[1] /\ Head(queued) \in Jobs
        BY <1>1, <1>3
      <3>2. QED
        BY <3>1 DEF Waiting
    <2>2. pc[j] = "queued" /\ IsRunnerActive(rec[j].life) /\ Ran(j)
      BY <2>1 DEF ManagerInv, JobOK, PlaceOK, RanInv
    <2>3. /\ spawns' = spawns /\ verdict' = verdict /\ pc'[j] = "start"
          /\ \A i \in Jobs \ {j} : rec'[i] = rec[i] /\ pc'[i] = pc[i]
      BY <1>1, <1>3, <2>1 DEF Wake, procVars
    <2>4. rec'[j].life = rec[j].life /\ rec'[j].seq = rec[j].seq /\ rec[j].seq \in Nat
      BY <1>1, <1>3, <2>1 DEF JobRecord
    <2>5. Steady(j) /\ Ran(j)'
      BY <2>2, <2>3, <2>4 DEF Steady, Ran, Present
    <2>6. SpawnsOne
      BY <2>3 DEF SpawnsOne
    <2>7. QED
      BY <2>1, <2>3, <2>5, <2>6, VisibleLocal
  <1>4. QED
    BY <1>2, <1>3 DEF Wake, StopAcceptingWork, ShutdownStep, CancelQueued, SignalAll, Drain,
                      Goto, procVars, vars

(* The same of every step but the admission. *)
LEMMA WorkVisible == ASSUME ManagerInv, RanInv, Work \/ UNCHANGED vars PROVE Visible
  BY ControlVisible, RecordVisible, LifecycleVisible, GlobalVisible
     DEF Work, JobStep, StopStep, ControlStep, ActiveRecordStep, FinalRecordStep

-------------------------------------------------------------------------------
(* What the records tell the Server *)

(* The Server's rule accepts a report when it knows of no start. *)
Said(j, r) == ValidExecution(j \in Structured, FALSE, r.life, r.exec)

SaidOK(j) ==
    /\ Present(rec[j]) => Said(j, rec[j])
    /\ ~Present(rec[j]) => rec[j].seq = 0
    /\ pc[j] \in {"settle", "report"} => Said(j, verdict[j])
    /\ rec[j].life = "Running" => rec[j].started
    /\ IsRunnerActive(rec[j].life) /\ rec[j].started => spawns[j] > 0
    /\ rec[j].exec = "NotStarted" => ~rec[j].started

SaidInv == \A j \in Jobs : SaidOK(j)

(* What threads say: no state of the command while it is active, and at    *)
(* the end one that goes with the lifecycle.                               *)
LEMMA SaidRules ==
  ASSUME NEW j \in Jobs, NEW r
  PROVE  /\ IsRunnerActive(r.life) /\ r.exec = "none" => Said(j, r)
         /\ r.life \in {"Failed", "Stopped"} /\ r.exec = PreStart(j) => Said(j, r)
         /\ r.life \in {"Completed", "Failed", "Stopped"} /\ r.exec = "Completed" => Said(j, r)
         /\ r.life = "Timeout" /\ r.exec = "TimedOut" => Said(j, r)
         /\ r.life \in {"Failed", "Lost"} /\ r.exec = "OutcomeUnknown" => Said(j, r)
         /\ j \in Validation /\ IsTerminal(r.life) /\ r.exec = "none" => Said(j, r)
  <1>1. j \in Validation => j \notin Structured
    BY ManagerAssumption
  <1>2. IsRunnerActive(r.life) /\ r.exec = "none" => Said(j, r)
    BY DEF Said, ValidExecution, IsRunnerActive, RunnerActiveStates, IsTerminal,
           TerminalStates
  <1>3. r.life \in {"Failed", "Stopped"} /\ r.exec = PreStart(j) => Said(j, r)
    BY <1>1 DEF Said, ValidExecution, IsTerminal, TerminalStates, PreStart
  <1>4. r.life \in {"Completed", "Failed", "Stopped"} /\ r.exec = "Completed" => Said(j, r)
    BY DEF Said, ValidExecution, IsTerminal, TerminalStates
  <1>5. r.life = "Timeout" /\ r.exec = "TimedOut" => Said(j, r)
    BY DEF Said, ValidExecution, IsTerminal, TerminalStates, IsTimedOut
  <1>6. r.life \in {"Failed", "Lost"} /\ r.exec = "OutcomeUnknown" => Said(j, r)
    BY DEF Said, ValidExecution, IsTerminal, TerminalStates
  <1>7. j \in Validation /\ IsTerminal(r.life) /\ r.exec = "none" => Said(j, r)
    BY <1>1 DEF Said, ValidExecution
  <1>8. QED
    BY <1>2, <1>3, <1>4, <1>5, <1>6, <1>7

(* A step that concerns one Job. *)
LEMMA SaidLocal ==
  ASSUME SaidInv, NEW j \in Jobs, SaidOK(j)',
         \A i \in Jobs \ {j} : /\ rec'[i] = rec[i] /\ pc'[i] = pc[i]
                               /\ spawns'[i] = spawns[i] /\ verdict'[i] = verdict[i]
  PROVE  SaidInv'
  BY DEF SaidInv, SaidOK, Said

(* A step that records nothing and concludes what may be said. *)
LEMMA SaidSameRecord ==
  ASSUME ManagerInv, SaidInv, NEW j \in Jobs, rec'[j].life = rec[j].life,
         rec'[j].exec = rec[j].exec, rec'[j].seq = rec[j].seq,
         rec'[j].started = rec[j].started, spawns[j] > 0 => spawns'[j] > 0,
         pc'[j] \in {"settle", "report"} => Said(j, verdict'[j])
  PROVE  SaidOK(j)'
  BY DEF SaidInv, SaidOK, Said, Present

(* Steps of the threads that leave the records alone. *)
LEMMA ControlSaid ==
  ASSUME ManagerInv, SaidInv, NEW j \in Jobs, ControlStep(j)
  PROVE  SaidInv'
  <1>1. rec' = rec /\ \A i \in Jobs \ {j} : Same(i)
    BY ControlLocal DEF LocalStep
  <1>2. /\ pc \in [Jobs -> Places] /\ verdict \in [Jobs -> Verdict]
        /\ spawns \in [Jobs -> 0..Steps] /\ SaidOK(j) /\ CommandOK(j)
    BY DEF ManagerInv, TypeOK, JobOK, SaidInv
  <1> USE DEF Goto, Conclude, procVars
  <1>3. spawns[j] > 0 => spawns'[j] > 0
    <2>1. spawns' = spawns \/ spawns' = [spawns EXCEPT ![j] = @ + 1]
      BY DEF ControlStep, StartNow, PrepareFails, Check, Spawn, SpawnFails, NextStep,
             FinishStructured, Settle, Finish, StopLook, StopFlag, StopKill
    <2>2. spawns[j] \in Nat
      BY <1>2, ManagerAssumption
    <2>3. QED
      BY <1>2, <2>1, <2>2
  <1>4. ASSUME pc'[j] \in {"settle", "report"} PROVE Said(j, verdict'[j])
    <2>1. CASE StartNow(j) \/ PrepareFails(j) \/ Check(j) \/ Spawn(j) \/ SpawnFails(j)
      <3>1. verdict'[j] = Refused(j)
        BY <1>2, <1>4, <2>1 DEF StartNow, PrepareFails, Check, Spawn, SpawnFails
      <3>2. verdict'[j].life = "Failed" /\ verdict'[j].exec = PreStart(j)
        BY <3>1 DEF Refused
      <3>3. QED
        BY <3>2, SaidRules
    <2>2. CASE Finish(j)
      <3>1. PICK life \in {"Stopped", "Completed", "Failed", "Timeout"}, known \in BOOLEAN :
               /\ ~known => life = "Failed"
               /\ verdict'[j] = [life |-> life, exec |-> ShellExec(j, life, known)]
        BY <1>2, <1>4, <2>2 DEF Finish
      <3>2. verdict'[j].life = life /\ verdict'[j].exec = ShellExec(j, life, known)
        BY <3>1
      <3>3. CASE j \in Validation
        BY <3>1, <3>2, <3>3, SaidRules DEF ShellExec, IsTerminal, TerminalStates
      <3>4. CASE j \notin Validation /\ life = "Timeout"
        BY <3>1, <3>2, <3>4, SaidRules DEF ShellExec
      <3>5. CASE j \notin Validation /\ life # "Timeout"
        BY <3>1, <3>2, <3>5, SaidRules DEF ShellExec
      <3>6. QED
        BY <3>3, <3>4, <3>5
    <2>3. CASE NextStep(j)
      <3>1. /\ j \in Validation /\ verdict'[j].life = "Stopped"
            /\ verdict'[j].exec = "none"
        BY <1>2, <1>4, <2>3 DEF NextStep, CommandOK
      <3>2. QED
        BY <3>1, SaidRules DEF IsTerminal, TerminalStates
    <2>4. CASE FinishStructured(j)
      <3>1. verdict'[j] \in { [life |-> "Completed", exec |-> "Completed"],
                  [life |-> "Failed", exec |-> "Completed"],
                  [life |-> "Timeout", exec |-> "TimedOut"],
                  [life |-> "Lost", exec |-> "OutcomeUnknown"] }
        BY <1>2, <2>4 DEF FinishStructured
      <3>2. QED
        BY <3>1, SaidRules
    <2>5. CASE Settle(j)
      <3>1. verdict'[j] = verdict[j] \/ (verdict'[j].life = "Stopped"
                                          /\ verdict'[j].exec = "Completed")
        BY <1>2, <2>5 DEF Settle, Verdict
      <3>2. Said(j, verdict[j])
        BY <1>2, <2>5 DEF Settle, SaidOK
      <3>3. QED
        BY <3>1, <3>2, SaidRules
    <2>6. CASE StopLook(j) \/ StopFlag(j) \/ StopKill(j)
      <3>1. pc' = pc /\ verdict' = verdict
        BY <2>6 DEF StopLook, StopFlag, StopKill
      <3>2. QED
        BY <1>2, <1>4, <3>1 DEF SaidOK
    <2>7. QED
      BY <2>1, <2>2, <2>3, <2>4, <2>5, <2>6 DEF ControlStep
  <1>5. SaidOK(j)'
    BY <1>1, <1>3, <1>4, SaidSameRecord
  <1>6. QED
    BY <1>1, <1>5, SaidLocal DEF Same

(* The two fences: slot and child are not told to the Server. *)
LEMMA FenceSaid ==
  ASSUME ManagerInv, SaidInv, NEW j \in Jobs, Fence(j) \/ Publish(j)
  PROVE  SaidInv'
  <1> USE DEF Goto, Conclude, procVars
  <1>1. /\ pc \in [Jobs -> Places] /\ verdict \in [Jobs -> Verdict]
        /\ rec \in [Jobs -> JobRecord] /\ spawns[j] \in 0..Steps /\ CommandOK(j)
    BY DEF ManagerInv, TypeOK, JobOK
  <1>2. /\ spawns' = spawns
        /\ \A i \in Jobs \ {j} : rec'[i] = rec[i] /\ pc'[i] = pc[i] /\ verdict'[i] = verdict[i]
    BY <1>1 DEF Fence, Publish
  <1>3. /\ rec'[j].life = rec[j].life /\ rec'[j].exec = rec[j].exec
        /\ rec'[j].seq = rec[j].seq /\ rec'[j].started = rec[j].started
    BY <1>1 DEF Fence, Publish, JobRecord
  <1>4. ASSUME pc'[j] \in {"settle", "report"} PROVE Said(j, verdict'[j])
    <2>1. CASE Fence(j)
      <3>1. verdict'[j] = Refused(j)
        BY <1>1, <1>4, <2>1 DEF Fence
      <3>2. verdict'[j].life = "Failed" /\ verdict'[j].exec = PreStart(j)
        BY <3>1 DEF Refused
      <3>3. QED
        BY <3>2, SaidRules
    <2>2. CASE Publish(j)
      <3>1. spawns[j] > 1 => j \in Validation
        BY <1>1 DEF CommandOK, Limit
      <3>2. verdict'[j] = IF spawns[j] > 1 THEN [life |-> "Stopped", exec |-> "none"]
                          ELSE [life |-> "Failed",
                                exec |-> IF j \in Validation THEN "none"
                                         ELSE "OutcomeUnknown"]
        BY <1>1, <1>4, <2>2 DEF Publish
      <3>3. \/ j \in Validation /\ verdict'[j].life \in {"Stopped", "Failed"}
               /\ verdict'[j].exec = "none"
            \/ verdict'[j].life = "Failed" /\ verdict'[j].exec = "OutcomeUnknown"
        BY <3>1, <3>2
      <3>4. QED
        BY <3>3, SaidRules DEF IsTerminal, TerminalStates
    <2>3. QED
      BY <2>1, <2>2
  <1>5. SaidOK(j)'
    BY <1>2, <1>3, <1>4, SaidSameRecord
  <1>6. QED
    BY <1>2, <1>5, SaidLocal

(* What an update makes of an active record. *)
LEMMA UpdateFields ==
  ASSUME NEW r \in JobRecord, IsRunnerActive(r.life), r.exec = "none", NEW incoming, NEW exec
  PROVE  LET q == RecordUpdate(r, incoming, exec)
         IN  /\ q.life = IF Regresses(r.life, incoming) THEN r.life ELSE incoming
             /\ q.exec = exec
             /\ q.seq = r.seq + 1
             /\ q.started <=> r.started \/ ( /\ exec # "NotStarted"
                                             /\ q.life \in {"Running", "Completed", "Failed",
                                                            "Stopped", "Timeout"} )
  BY DEF RecordUpdate, Present, IsTerminal, TerminalStates, IsRunnerActive,
         RunnerActiveStates, JobRecord

(* A record that has ended or is gone stays. *)
LEMMA UpdateIgnored ==
  ASSUME NEW r \in JobRecord, ~IsRunnerActive(r.life), NEW incoming, NEW exec
  PROVE  RecordUpdate(r, incoming, exec) = r
  BY DEF RecordUpdate, Present, IsTerminal, IsRunnerActive, JobRecord

(* Steps that record something. *)
LEMMA RecordSaid ==
  ASSUME ManagerInv, RanInv, SaidInv, NEW j \in Jobs,
         ActiveRecordStep(j) \/ FinalRecordStep(j)
  PROVE  SaidInv'
  <1> USE DEF Goto, Conclude, procVars
  <1>1. /\ rec \in [Jobs -> JobRecord] /\ rec[j] \in JobRecord /\ pc \in [Jobs -> Places]
        /\ verdict \in [Jobs -> Verdict] /\ verdict[j] \in Verdict
        /\ RecordOK(j) /\ PlaceOK(j) /\ CommandOK(j) /\ Ran(j) /\ SaidOK(j)
    BY DEF ManagerInv, TypeOK, JobOK, RanInv, SaidInv
  <1>2. PICK incoming, exec :
           /\ rec' = [rec EXCEPT ![j] = RecordUpdate(rec[j], incoming, exec)]
           /\ \/ incoming \in {"RunnerQueued", "StopRequested"} /\ exec = "none"
              \/ incoming = "Running" /\ exec = "none" /\ pc[j] \in {"started", "running"}
              \/ incoming = "Stopped" /\ exec = PreStart(j) /\ stopper[j] = "cancel"
              \/ incoming = verdict[j].life /\ exec = verdict[j].exec /\ pc[j] = "report"
    <2>1. CASE Announce(j) \/ AnnounceQueued(j) \/ StopTell(j)
      BY <2>1 DEF Announce, AnnounceQueued, StopTell, Record
    <2>2. CASE Started(j) \/ Output(j)
      BY <2>2 DEF Started, Output, Record
    <2>3. CASE StopCancel(j)
      BY <2>3 DEF StopCancel, Record
    <2>4. CASE ReportEnd(j)
      BY <2>4 DEF ReportEnd, Record
    <2>5. QED
      BY <2>1, <2>2, <2>3, <2>4 DEF ActiveRecordStep, FinalRecordStep
  <1>3. /\ rec'[j] = RecordUpdate(rec[j], incoming, exec)
        /\ \A i \in Jobs \ {j} : rec'[i] = rec[i]
    BY <1>1, <1>2
  <1>4. /\ spawns' = spawns
        /\ \A i \in Jobs \ {j} : pc'[i] = pc[i] /\ verdict'[i] = verdict[i]
        /\ pc'[j] \notin {"settle", "report"} \/ (pc'[j] = pc[j] /\ verdict'[j] = verdict[j])
    BY <1>1 DEF ActiveRecordStep, FinalRecordStep, Announce, AnnounceQueued, Started, Output,
                StopTell, ReportEnd, StopCancel
  <1>5. CASE ~IsRunnerActive(rec[j].life)
    <2>1. rec'[j] = rec[j]
      BY <1>1, <1>3, <1>5, UpdateIgnored
    <2>2. pc'[j] \in {"settle", "report"} => Said(j, verdict'[j])
      BY <1>1, <1>4 DEF SaidOK
    <2>3. SaidOK(j)'
      BY <1>4, <2>1, <2>2, SaidSameRecord
    <2>4. QED
      BY <1>3, <1>4, <2>3, SaidLocal
  <1>6. CASE IsRunnerActive(rec[j].life)
    <2> DEFINE q == rec'[j]
    <2>1. rec[j].exec = "none" /\ rec[j].seq \in Nat /\ rec[j].started \in BOOLEAN
      BY <1>1, <1>6 DEF RecordOK, WellFormed, JobRecord
    <2>2. /\ q.life = IF Regresses(rec[j].life, incoming) THEN rec[j].life ELSE incoming
          /\ q.exec = exec /\ q.seq = rec[j].seq + 1
          /\ q.started <=> rec[j].started \/ ( /\ exec # "NotStarted"
                                               /\ q.life \in {"Running", "Completed", "Failed",
                                                              "Stopped", "Timeout"} )
      BY <1>1, <1>3, <1>6, <2>1, UpdateFields
    <2>3. CASE /\ exec = "none"
               /\ \/ incoming \in {"RunnerQueued", "StopRequested"}
                  \/ incoming = "Running" /\ pc[j] \in {"started", "running"}
      <3>1. IsRunnerActive(q.life)
        BY <1>6, <2>2, <2>3 DEF IsRunnerActive, RunnerActiveStates
      <3>2. Said(j, q) /\ Present(q) /\ q.exec = "none"
        BY <2>2, <2>3, <3>1, SaidRules DEF Present, IsRunnerActive, RunnerActiveStates
      <3>3. q.life = "Running" => q.started
        BY <2>2, <2>3
      <3>4. q.started => spawns[j] > 0
        <4>1. CASE rec[j].started
          BY <1>1, <1>6, <4>1 DEF SaidOK
        <4>2. CASE ~rec[j].started /\ q.started
          <5>1. q.life = "Running"
            BY <2>2, <3>1, <4>2 DEF IsRunnerActive, RunnerActiveStates
          <5>2. rec[j].life # "Running"
            BY <1>1, <4>2 DEF SaidOK
          <5>3. incoming = "Running"
            BY <2>2, <5>1, <5>2
          <5>4. QED
            BY <1>1, <2>3, <5>3 DEF Ran
        <4>3. QED
          BY <4>1, <4>2
      <3>5. pc'[j] \in {"settle", "report"} => Said(j, verdict'[j])
        BY <1>1, <1>4 DEF SaidOK
      <3>6. SaidOK(j)'
        BY <1>4, <3>2, <3>3, <3>4, <3>5 DEF SaidOK, Said, Present
      <3>7. QED
        BY <1>3, <1>4, <3>6, SaidLocal
    <2>4. CASE \/ incoming = "Stopped" /\ exec = PreStart(j) /\ stopper[j] = "cancel"
               \/ incoming = verdict[j].life /\ exec = verdict[j].exec /\ pc[j] = "report"
      <3>1. incoming \in TerminalStates
        BY <1>1, <2>4 DEF Verdict, TerminalStates
      <3>2. q.life = incoming
        BY <2>2, <3>1 DEF Regresses, TerminalStates
      <3>3. Said(j, q)
        <4>1. CASE incoming = "Stopped" /\ exec = PreStart(j)
          BY <2>2, <3>2, <4>1, SaidRules
        <4>2. CASE incoming = verdict[j].life /\ exec = verdict[j].exec /\ pc[j] = "report"
          BY <1>1, <2>2, <3>2, <4>2 DEF SaidOK, Said
        <4>3. QED
          BY <2>4, <4>1, <4>2
      <3>4. exec = "NotStarted" => spawns[j] = 0
        <4>1. CASE stopper[j] = "cancel"
          BY <1>1, <4>1 DEF PlaceOK, CommandOK, BeforeSpawn
        <4>2. CASE exec = verdict[j].exec
          BY <1>1, <4>2 DEF CommandOK
        <4>3. QED
          BY <2>4, <4>1, <4>2
      <3>5. exec = "NotStarted" => ~rec[j].started
        BY <1>1, <1>6, <3>4 DEF SaidOK
      <3>6. q.exec = "NotStarted" => ~q.started
        BY <2>2, <3>5
      <3>7. Present(q) /\ ~IsRunnerActive(q.life) /\ q.life # "Running"
        BY <3>1, <3>2 DEF Present, TerminalStates, IsRunnerActive, RunnerActiveStates
      <3>8. pc'[j] \in {"settle", "report"} => Said(j, verdict'[j])
        BY <1>1, <1>4 DEF SaidOK
      <3>9. SaidOK(j)'
        BY <3>3, <3>6, <3>7, <3>8 DEF SaidOK, Said, Present, IsRunnerActive,
             RunnerActiveStates
      <3>10. QED
        BY <1>3, <1>4, <3>9, SaidLocal
    <2>5. QED
      BY <1>2, <2>3, <2>4
  <1>7. QED
    BY <1>5, <1>6

(* Admission and retention. *)
LEMMA LifecycleSaid ==
  ASSUME ManagerInv, SaidInv, NEW j \in Jobs, Enqueue(j) \/ Prune(j)
  PROVE  SaidInv'
  <1>1. rec \in [Jobs -> JobRecord] /\ pc \in [Jobs -> Places] /\ SaidOK(j)
    BY DEF ManagerInv, TypeOK, SaidInv
  <1>2. CASE Enqueue(j)
    <2>1. /\ verdict' = verdict /\ spawns' = spawns
          /\ \A i \in Jobs \ {j} : rec'[i] = rec[i] /\ pc'[i] = pc[i]
          /\ pc'[j] \in {"done", "queued", "announce"}
          /\ rec'[j].started = FALSE
          /\ \/ rec'[j].life = "Failed" /\ rec'[j].exec = PreStart(j)
             \/ rec'[j].life = "RunnerQueued" /\ rec'[j].exec = "none"
      BY <1>1, <1>2 DEF Enqueue, Goto, NoRecord, procVars
    <2>2. Said(j, rec'[j]) /\ Present(rec'[j]) /\ rec'[j].life # "Running"
      BY <2>1, SaidRules DEF Present, IsRunnerActive, RunnerActiveStates
    <2>3. SaidOK(j)'
      BY <2>1, <2>2 DEF SaidOK, Said, Present
    <2>4. QED
      BY <2>1, <2>3, SaidLocal
  <1>3. CASE Prune(j)
    <2>1. /\ verdict' = verdict /\ pc' = pc /\ spawns' = spawns /\ rec'[j] = NoRecord
          /\ \A i \in Jobs \ {j} : rec'[i] = rec[i]
      BY <1>1, <1>3 DEF Prune, procVars
    <2>2. pc'[j] \in {"settle", "report"} => Said(j, verdict'[j])
      BY <1>1, <2>1 DEF SaidOK
    <2>3. /\ rec'[j].life = "Absent" /\ rec'[j].seq = 0 /\ rec'[j].exec = "none"
          /\ rec'[j].started = FALSE
      BY <2>1 DEF NoRecord
    <2>4. SaidOK(j)'
      BY <2>2, <2>3 DEF SaidOK, Said, Present
    <2>5. QED
      BY <2>1, <2>4, SaidLocal
  <1>4. QED
    BY <1>2, <1>3

(* Wake, stops of queued Jobs and the shutdown. *)
LEMMA GlobalSaid ==
  ASSUME ManagerInv, SaidInv,
         \/ Wake \/ StopAcceptingWork \/ ShutdownStep \/ UNCHANGED vars
         \/ \E j \in Jobs : Stop(j)
  PROVE  SaidInv'
  <1>1. /\ rec \in [Jobs -> JobRecord] /\ pc \in [Jobs -> Places] /\ queued \in Seq(Jobs)
    BY DEF ManagerInv, TypeOK
  <1>2. CASE rec' = rec /\ pc' = pc /\ verdict' = verdict /\ spawns' = spawns
    BY <1>2 DEF SaidInv, SaidOK, Said
  <1>3. CASE /\ Wake /\ queued # <<>>
             /\ rec' = [rec EXCEPT ![Head(queued)].slot = TRUE]
             /\ pc' = [pc EXCEPT ![Head(queued)] = "start"]
    <2>1. PICK j \in Jobs : j = Head(queued)
      BY <1>1, <1>3
    <2>2. verdict' = verdict /\ spawns' = spawns
      BY <1>3 DEF Wake, procVars
    <2>3. /\ \A i \in Jobs \ {j} : rec'[i] = rec[i] /\ pc'[i] = pc[i]
          /\ rec'[j].life = rec[j].life /\ rec'[j].exec = rec[j].exec
          /\ rec'[j].seq = rec[j].seq /\ rec'[j].started = rec[j].started
          /\ pc'[j] = "start"
      BY <1>1, <1>3, <2>1 DEF JobRecord
    <2>4. SaidOK(j)'
      BY <2>2, <2>3, SaidSameRecord
    <2>5. QED
      BY <2>2, <2>3, <2>4, SaidLocal
  <1>4. QED
    BY <1>2, <1>3 DEF Wake, StopAcceptingWork, ShutdownStep, CancelQueued, SignalAll, Drain,
                      Stop, Goto, procVars, vars

(* Every step. *)
LEMMA SaidNext ==
  ASSUME ManagerInv, RanInv, SaidInv, [Next]_vars
  PROVE  SaidInv'
  BY ControlSaid, FenceSaid, RecordSaid, LifecycleSaid, GlobalSaid
     DEF Next, JobStep, StopStep, ControlStep, ActiveRecordStep, FinalRecordStep

(* Nothing is said in the beginning. *)
LEMMA SaidInit == Init => SaidInv
  BY DEF Init, SaidInv, SaidOK, NoRecord, Present, IsRunnerActive, RunnerActiveStates

-------------------------------------------------------------------------------
(* Theorems *)

(* Nothing is wrong in the beginning. *)
LEMMA ManagerInit == Init => ManagerInv
  <1> SUFFICES ASSUME Init PROVE ManagerInv
    OBVIOUS
  <1>1. NoVerdict \in Verdict /\ NoVerdict.exec = "none"
    BY DEF NoVerdict, Verdict, TerminalStates, ExecutionStates
  <1>2. TypeOK
    BY <1>1, NoRecordType, ManagerAssumption DEF Init, TypeOK, Places, StopPlaces
  <1>3. Waiting = {} /\ Unique
    BY DEF Init, Waiting, Unique
  <1>4. ASSUME NEW j \in Jobs PROVE JobOK(j)
    BY <1>1, <1>3, NoRecordType, ManagerAssumption
       DEF Init, JobOK, RecordOK, PlaceOK, CommandOK, SignalOK, Signalled, Carried, Limit
  <1>5. Reserved = {}
    BY NoRecordType DEF Init, Reserved, Active
  <1>6. Cardinality(Reserved) <= MaxConcurrent
    BY <1>5, FS_EmptySet, ManagerAssumption
  <1>7. NoLostWakeup
    BY DEF Init, NoLostWakeup
  <1>8. QED
    BY <1>2, <1>3, <1>4, <1>6, <1>7 DEF ManagerInv

(* Every step keeps the invariant and moves every record forward. *)
LEMMA ManagerNext ==
  ASSUME ManagerInv, [Next]_vars
  PROVE  ManagerInv' /\ AllForward
  <1>1. CASE UNCHANGED vars
    <2>1. /\ rec' = rec /\ stopFlag' = stopFlag /\ queued' = queued /\ phase' = phase
          /\ targets' = targets /\ pc' = pc /\ verdict' = verdict /\ late' = late
          /\ stopper' = stopper /\ handle' = handle /\ waking' = waking
          /\ spawns' = spawns /\ alive' = alive
      BY <1>1 DEF vars
    <2>2. TypeOK' /\ Unique' /\ NoLostWakeup'
      BY <2>1 DEF ManagerInv, TypeOK, Unique, NoLostWakeup, HasFreeSlot, Reserved, Active,
                  ShuttingDown
    <2>3. Waiting' \subseteq Waiting /\ (Signalled' => Signalled) /\ \A i \in Jobs : Same(i)
      BY <2>1 DEF Waiting, Signalled, Same
    <2>4. QED
      BY <2>2, <2>3, GlobalPreserves
  <1>2. ASSUME NEW j \in Jobs, ControlStep(j) PROVE ManagerInv' /\ AllForward
    BY <1>2, ControlLocal, ControlTyped, ControlOK, LocalPreserves
  <1>3. ASSUME NEW j \in Jobs, ActiveRecordStep(j) \/ FinalRecordStep(j)
        PROVE  ManagerInv' /\ AllForward
    BY <1>3, ActiveRecordPreserves, FinalRecordPreserves
  <1>4. ASSUME NEW j \in Jobs,
               Enqueue(j) \/ Stop(j) \/ Fence(j) \/ Publish(j) \/ Prune(j)
        PROVE  ManagerInv' /\ AllForward
    BY <1>4, EnqueuePreserves, StopPreserves, FencePreserves, PublishPreserves,
       PrunePreserves
  <1>5. CASE Wake \/ StopAcceptingWork \/ ShutdownStep
    BY <1>5, WakePreserves, ShutdownPreserves
  <1>6. QED
    BY <1>1, <1>2, <1>3, <1>4, <1>5
       DEF Next, JobStep, StopStep, ControlStep, ActiveRecordStep, FinalRecordStep

(***************************************************************************)
(* The inductive invariant holds: records, threads, slots, queue and       *)
(* processes of the executor agree in every state.                         *)
(***************************************************************************)
THEOREM ManagerInvariant == Spec => []ManagerInv
  <1>1. ManagerInv /\ [Next]_vars => ManagerInv'
    BY ManagerNext
  <1>2. QED
    BY ManagerInit, <1>1, PTL DEF Spec

(* Every command that runs belongs to a Job that holds a slot. *)
LEMMA SlotsKept == ManagerInv => SlotBound
  <1> SUFFICES ASSUME ManagerInv PROVE SlotBound
    OBVIOUS
  <1>1. { j \in Jobs : alive[j] } \subseteq Reserved
    BY DEF ManagerInv, JobOK, PlaceOK, RecordOK, Carried, Places, Reserved, Active
  <1>2. /\ IsFiniteSet({ j \in Jobs : alive[j] })
        /\ Cardinality({ j \in Jobs : alive[j] }) <= Cardinality(Reserved)
    BY <1>1, ReservedFinite, FS_Subset
  <1>3. Cardinality({ j \in Jobs : alive[j] }) \in Nat
    BY <1>2, FS_CardinalityType
  <1>4. QED
    BY <1>2, <1>3, ReservedFinite, ManagerAssumption DEF ManagerInv, SlotBound

(* The processes that run fit into the slots. *)
THEOREM SlotsSafe == Spec => []SlotBound
  <1>1. ManagerInv => SlotBound
    BY SlotsKept
  <1>2. QED
    BY ManagerInvariant, <1>1, PTL

(* The thread of a Job that has ended has nothing left to do. *)
LEMMA QuietKept == ManagerInv => EndedIsQuiet
  <1> SUFFICES ASSUME ManagerInv, NEW j \in Jobs,
                      IsTerminal(rec[j].life) \/ (~Present(rec[j]) /\ pc[j] # "idle")
               PROVE  /\ ~alive[j] /\ ~rec[j].slot /\ rec[j].child = 0
                      /\ \A k \in 1..Len(queued) : queued[k] # j
                      /\ pc[j] \in {"queued", "done"}
    BY DEF EndedIsQuiet
  <1>1. JobOK(j) /\ pc[j] \in Places
    BY DEF ManagerInv, TypeOK
  <1>2. ~IsRunnerActive(rec[j].life)
    BY DEF IsTerminal, TerminalStates, Present, IsRunnerActive, RunnerActiveStates
  <1>3. pc[j] \notin Carried /\ pc[j] # "idle"
    BY <1>1, <1>2 DEF JobOK, RecordOK, Present, IsTerminal, TerminalStates
  <1>4. pc[j] \in {"queued", "done"}
    BY <1>1, <1>3 DEF Carried
  <1>5. j \notin Waiting /\ ~alive[j]
    BY <1>1, <1>2, <1>4 DEF JobOK, PlaceOK
  <1>6. QED
    BY <1>1, <1>2, <1>4, <1>5 DEF JobOK, RecordOK, WellFormed, Waiting

(* A Job that has ended is quiet. *)
THEOREM EndedQuiet == Spec => []EndedIsQuiet
  <1>1. ManagerInv => EndedIsQuiet
    BY QuietKept
  <1>2. QED
    BY ManagerInvariant, <1>1, PTL

(* not_started is never said of a command that was started. *)
THEOREM NotStartedSafe == Spec => []NotStartedIsTruth
  <1>1. ManagerInv => NotStartedIsTruth
    BY DEF ManagerInv, JobOK, RecordOK, NotStartedIsTruth
  <1>2. QED
    BY ManagerInvariant, <1>1, PTL

(* A command is started once. *)
THEOREM SpawnsSafe == Spec => []SpawnedOnce
  <1>1. ManagerInv => SpawnedOnce
    BY DEF ManagerInv, JobOK, CommandOK, SpawnedOnce, Limit
  <1>2. QED
    BY ManagerInvariant, <1>1, PTL

(* No wakeup is lost. *)
THEOREM WakeupsSafe == Spec => []NoLostWakeup
  <1>1. ManagerInv => NoLostWakeup
    BY DEF ManagerInv
  <1>2. QED
    BY ManagerInvariant, <1>1, PTL

(* A shutdown that has signalled the Jobs reaches everything that runs or  *)
(* may still be started.                                                   *)
THEOREM ShutdownSafe == Spec => []ShutdownReachesAll
  <1>1. ManagerInv => ShutdownReachesAll
    BY DEF ManagerInv, JobOK, SignalOK, Signalled, ShutdownReachesAll
  <1>2. QED
    BY ManagerInvariant, <1>1, PTL

(* Every variable keeps its type: the count of threads that start queued    *)
(* Jobs never falls below zero, no command counter passes the plan's steps, *)
(* and no thread is at a place the code does not have.                     *)
THEOREM TypesSafe == Spec => []TypeOK
  <1>1. ManagerInv => TypeOK
    BY DEF ManagerInv
  <1>2. QED
    BY ManagerInvariant, <1>1, PTL

(* What is recorded as completed did run: the record of a Job says so only  *)
(* after a command of the Job was started.                                 *)
THEOREM CompletedRan == Spec => [](\A j \in Jobs : rec[j].life = "Completed" => spawns[j] > 0)
  <1>1. Init => RanInv
    BY DEF Init, RanInv, Ran, NoRecord
  <1>2. ManagerInv /\ RanInv /\ [Next]_vars => RanInv'
    BY EnqueueVisible, WorkVisible DEF Visible, Work, Next
  <1>3. RanInv => \A j \in Jobs : rec[j].life = "Completed" => spawns[j] > 0
    BY DEF RanInv, Ran
  <1>4. QED
    BY ManagerInvariant, <1>1, <1>2, <1>3, PTL DEF Spec

(* Records only move forward. *)
THEOREM RecordsForward == Spec => LifecycleForward
  <1> DEFINE Step == \A j \in Jobs : Present(rec[j]) /\ Present(rec'[j]) =>
                        /\ Rank(rec[j].life) <= Rank(rec'[j].life)
                        /\ IsTerminal(rec[j].life) => rec'[j] = rec[j]
                        /\ (rec'[j].life # rec[j].life \/ rec'[j].exec # rec[j].exec) =>
                               rec'[j].seq > rec[j].seq
  <1>1. ManagerInv /\ [Next]_vars => [Step]_vars
    BY ManagerNext DEF AllForward, Forward
  <1>2. QED
    BY ManagerInvariant, <1>1, PTL DEF Spec, LifecycleForward

(* What is said of a command goes with the lifecycle of its Job. *)
LEMMA StopsKept == ManagerInv /\ SaidInv => OnlyEarlyStopRefused
  <1> SUFFICES ASSUME ManagerInv, SaidInv, NEW j \in Jobs, rec[j].seq > 0,
                      rec[j].life = "StopRequested" => rec[j].started
               PROVE  ValidSnapshot(j \in Structured, rec[j])
    BY DEF OnlyEarlyStopRefused, ManagerInv, TypeOK, JobRecord
  <1>1. rec[j] \in JobRecord /\ SaidOK(j)
    BY DEF ManagerInv, TypeOK, SaidInv
  <1>2. Present(rec[j])
    BY <1>1 DEF SaidOK, JobRecord
  <1>3. IsRunnerActive(rec[j].life) \/ IsTerminal(rec[j].life)
    BY <1>1, <1>2 DEF JobRecord, Present, IsRunnerActive, IsTerminal
  <1>4. rec[j].life \in {"Running", "StopRequested"} => rec[j].started
    BY <1>1 DEF SaidOK
  <1>5. ValidExecution(j \in Structured, rec[j].started, rec[j].life, rec[j].exec)
    BY <1>1, <1>2 DEF SaidOK, Said, ValidExecution, IsTerminal, TerminalStates, IsTimedOut
  <1>6. QED
    BY <1>3, <1>4, <1>5 DEF ValidSnapshot

(***************************************************************************)
(* Every record that was announced may be told to the Server in the        *)
(* inventory of a registration, unless it says stop_requested of a Job     *)
(* that did not start.                                                     *)
(***************************************************************************)
THEOREM EarlyStopOnly == Spec => []OnlyEarlyStopRefused
  <1>1. Init => RanInv
    BY DEF Init, RanInv, Ran, NoRecord
  <1>2. ManagerInv /\ RanInv /\ [Next]_vars => RanInv'
    BY EnqueueVisible, WorkVisible DEF Visible, Work, Next
  <1>3. ManagerInv /\ RanInv /\ SaidInv /\ [Next]_vars => SaidInv'
    BY SaidNext
  <1>4. ManagerInv /\ SaidInv => OnlyEarlyStopRefused
    BY StopsKept
  <1>5. QED
    BY ManagerInvariant, SaidInit, <1>1, <1>2, <1>3, <1>4, PTL DEF Spec
===============================================================================
