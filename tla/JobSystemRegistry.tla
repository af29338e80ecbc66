-------------------------- MODULE JobSystemRegistry ---------------------------
(***************************************************************************)
(* Proofs that the Server at work with the Runner's executor is the Server *)
(* of RunnerRegistry, for every set of Jobs, of processes and every bound: *)
(* what the executor records and however late it arrives is among what     *)
(* that module lets a Runner say.  So what is proved there of the registry *)
(* alone holds in the whole system.                                        *)
(***************************************************************************)
EXTENDS JobSystemProofs

(* The registry with its proofs. *)
RR == INSTANCE RunnerRegistryProofs
    WITH Detached <- {}, MaxReceipts <- 0, Results <- {}, overturned <- {},
         Reports <- (RunnerActiveStates \cup TerminalStates) \X ExecutionStates

-------------------------------------------------------------------------------
(* The numbers of updates *)

(* The updates of a Job that its process may still record: that it is      *)
(* queued, that it runs, that it ended and that it is asked to stop.       *)
Left(place, waits, stop) ==
    (IF place \in {"idle", "announce"} \/ waits THEN 1 ELSE 0)
    + (IF place \in {"idle", "announce", "queued", "start", "fence", "check", "spawn",
                     "publish", "started", "step"} THEN 1 ELSE 0)
    + (IF place # "done" THEN 1 ELSE 0)
    + (IF stop \in {"cancel", "look", "flag", "tell"} THEN 1 ELSE 0)

(* The bound on numbers has room for all of them. *)
NumberOK(j) ==
    /\ rec[j].seq + Left(pc[j], late[j], stopper[j]) <= MaxSeq
    /\ late[j] => pc[j] \notin {"idle", "announce"}

NumbersInv ==
    /\ \A j \in Jobs : NumberOK(j)
    /\ \A u \in sent : u.seq \in 1..MaxSeq

(* The step changes nothing about the numbers of the other Jobs. *)
Others(j) ==
    \A i \in Jobs \ {j} : /\ rec'[i] = rec[i] /\ pc'[i] = pc[i]
                          /\ late'[i] = late[i] /\ stopper'[i] = stopper[i]

AllNumbers == \A j \in Jobs : NumberOK(j)

(* What the executor's types say of one Job. *)
LEMMA NumberTypes ==
  ASSUME MP!ManagerInv
  PROVE  /\ rec \in [Jobs -> MP!JobRecord] /\ pc \in [Jobs -> MP!Places]
         /\ late \in [Jobs -> BOOLEAN] /\ stopper \in [Jobs -> MP!StopPlaces]
         /\ \A j \in Jobs : rec[j] \in MP!JobRecord /\ rec[j].seq \in Nat
         /\ MaxSeq \in Nat /\ MaxOutputSeq \in Nat /\ MaxStopSeq \in Nat
         /\ MaxSeq >= MaxOutputSeq + 3 /\ MaxSeq >= MaxStopSeq + 3
  BY SystemAssumption, NumberAssumption DEF MP!ManagerInv, MP!TypeOK, MP!JobRecord

(* A step that concerns one Job. *)
LEMMA NumberLocal ==
  ASSUME AllNumbers, NEW j \in Jobs, Others(j), NumberOK(j)'
  PROVE  AllNumbers'
  BY DEF AllNumbers, Others, NumberOK

(* An update takes one number at most. *)
LEMMA RecordNumber ==
  ASSUME NEW r \in MP!JobRecord, NEW incoming, NEW exec
  PROVE  MP!RecordUpdate(r, incoming, exec).seq \in {r.seq, r.seq + 1}
  BY DEF MP!RecordUpdate

(* Steps that record nothing. *)
LEMMA ControlNumbers ==
  ASSUME MP!ManagerInv, AllNumbers, NEW j \in Jobs,
         \/ MP!StartNow(j) \/ MP!PrepareFails(j) \/ MP!Check(j) \/ MP!Spawn(j)
         \/ MP!SpawnFails(j) \/ MP!Finish(j) \/ MP!NextStep(j)
         \/ MP!FinishStructured(j) \/ MP!Settle(j) \/ MP!StopLook(j)
         \/ MP!StopFlag(j) \/ MP!StopKill(j) \/ MP!Fence(j) \/ MP!Publish(j)
  PROVE  AllNumbers'
  <1>1. /\ rec \in [Jobs -> MP!JobRecord] /\ pc \in [Jobs -> MP!Places]
        /\ late \in [Jobs -> BOOLEAN] /\ stopper \in [Jobs -> MP!StopPlaces]
        /\ rec[j].seq \in Nat /\ MaxSeq \in Nat /\ NumberOK(j)
    BY NumberTypes DEF AllNumbers
  <1> USE DEF MP!Goto, MP!GotoStop, MP!Conclude
  <1>2. CASE \/ MP!StartNow(j) \/ MP!PrepareFails(j) \/ MP!Check(j) \/ MP!Spawn(j)
             \/ MP!SpawnFails(j) \/ MP!Finish(j) \/ MP!NextStep(j)
             \/ MP!FinishStructured(j) \/ MP!Settle(j)
    <2>1. rec' = rec /\ late' = late /\ stopper' = stopper
      BY <1>2 DEF MP!StartNow, MP!PrepareFails, MP!Check, MP!Spawn, MP!SpawnFails,
           MP!Finish, MP!NextStep, MP!FinishStructured, MP!Settle
    <2>2. /\ \A i \in Jobs \ {j} : pc'[i] = pc[i]
          /\ pc[j] # "done" /\ pc'[j] \notin {"idle", "announce"}
          /\ pc'[j] \in {"queued", "start", "fence", "check", "spawn", "publish",
                         "started", "step"} =>
                pc[j] \in {"start", "fence", "check", "spawn", "step"}
      BY <1>1, <1>2 DEF MP!StartNow, MP!PrepareFails, MP!Check, MP!Spawn, MP!SpawnFails,
           MP!Finish, MP!NextStep, MP!FinishStructured, MP!Settle
    <2>3. NumberOK(j)'
      BY <1>1, <2>1, <2>2 DEF NumberOK, Left
    <2>4. QED
      BY <2>1, <2>2, <2>3, NumberLocal DEF Others
  <1>3. CASE MP!StopLook(j) \/ MP!StopFlag(j) \/ MP!StopKill(j)
    <2>1. rec' = rec /\ late' = late /\ pc' = pc
      BY <1>3 DEF MP!StopLook, MP!StopFlag, MP!StopKill
    <2>2. /\ \A i \in Jobs \ {j} : stopper'[i] = stopper[i]
          /\ stopper'[j] \in {"cancel", "look", "flag", "tell"} =>
                stopper[j] \in {"look", "flag"}
      BY <1>1, <1>3 DEF MP!StopLook, MP!StopFlag, MP!StopKill
    <2>3. NumberOK(j)'
      BY <1>1, <2>1, <2>2 DEF NumberOK, Left
    <2>4. QED
      BY <2>1, <2>2, <2>3, NumberLocal DEF Others
  <1>4. CASE MP!Fence(j) \/ MP!Publish(j)
    <2>1. late' = late /\ stopper' = stopper
      BY <1>4 DEF MP!Fence, MP!Publish
    <2>2. /\ \A i \in Jobs \ {j} : pc'[i] = pc[i]
          /\ pc[j] \in {"fence", "publish"}
          /\ pc'[j] \in {"report", "spawn", "check", "started"}
      BY <1>1, <1>4 DEF MP!Fence, MP!Publish
    <2>3. /\ \A i \in Jobs \ {j} : rec'[i] = rec[i]
          /\ rec'[j].seq = rec[j].seq
      BY <1>1, <1>4 DEF MP!Fence, MP!Publish, MP!JobRecord
    <2>4. NumberOK(j)'
      BY <1>1, <2>1, <2>2, <2>3 DEF NumberOK, Left
    <2>5. QED
      BY <2>1, <2>2, <2>3, <2>4, NumberLocal DEF Others
  <1>5. QED
    BY <1>2, <1>3, <1>4

(* Steps that record an update, each of which was allowed for. *)
LEMMA RecordNumbers ==
  ASSUME MP!ManagerInv, AllNumbers, NEW j \in Jobs,
         \/ MP!Announce(j) \/ MP!AnnounceQueued(j) \/ MP!Started(j)
         \/ MP!ReportEnd(j) \/ MP!StopCancel(j) \/ MP!StopTell(j) \/ MP!Output(j)
  PROVE  AllNumbers'
  <1>1. /\ rec \in [Jobs -> MP!JobRecord] /\ pc \in [Jobs -> MP!Places]
        /\ late \in [Jobs -> BOOLEAN] /\ stopper \in [Jobs -> MP!StopPlaces]
        /\ rec[j] \in MP!JobRecord /\ rec[j].seq \in Nat /\ MaxSeq \in Nat
        /\ MaxOutputSeq \in Nat /\ MaxSeq >= MaxOutputSeq + 3 /\ NumberOK(j)
    BY NumberTypes DEF AllNumbers
  <1>2. PICK incoming, exec : MP!Record(j, incoming, exec)
    BY Zenon DEF MP!Announce, MP!AnnounceQueued, MP!Started, MP!ReportEnd, MP!StopCancel,
         MP!StopTell, MP!Output
  <1>3. /\ \A i \in Jobs \ {j} : rec'[i] = rec[i]
        /\ rec'[j].seq \in {rec[j].seq, rec[j].seq + 1}
    BY <1>1, <1>2, RecordNumber DEF MP!Record
  <1>4. CASE MP!Announce(j) \/ MP!Started(j) \/ MP!ReportEnd(j)
    <2>1. late' = late /\ stopper' = stopper
      BY <1>4 DEF MP!Announce, MP!Started, MP!ReportEnd
    <2>2. /\ \A i \in Jobs \ {j} : pc'[i] = pc[i]
          /\ <<pc[j], pc'[j]>> \in {<<"announce", "start">>, <<"started", "running">>,
                                    <<"report", "done">>}
      BY <1>1, <1>4 DEF MP!Announce, MP!Started, MP!ReportEnd, MP!Goto
    <2>3. NumberOK(j)'
      BY <1>1, <1>3, <2>1, <2>2 DEF NumberOK, Left
    <2>4. QED
      BY <1>3, <2>1, <2>2, <2>3, NumberLocal DEF Others
  <1>5. CASE MP!AnnounceQueued(j)
    <2>1. /\ pc' = pc /\ stopper' = stopper
          /\ \A i \in Jobs \ {j} : late'[i] = late[i]
          /\ late[j] /\ late'[j] = FALSE
      BY <1>1, <1>5 DEF MP!AnnounceQueued
    <2>2. NumberOK(j)'
      BY <1>1, <1>3, <2>1 DEF NumberOK, Left
    <2>3. QED
      BY <1>3, <2>1, <2>2, NumberLocal DEF Others
  <1>6. CASE MP!StopCancel(j) \/ MP!StopTell(j)
    <2>1. /\ pc' = pc /\ late' = late
          /\ \A i \in Jobs \ {j} : stopper'[i] = stopper[i]
          /\ stopper[j] \in {"cancel", "tell"} /\ stopper'[j] \in {"none", "kill"}
      BY <1>1, <1>6 DEF MP!StopCancel, MP!StopTell, MP!GotoStop
    <2>2. NumberOK(j)'
      BY <1>1, <1>3, <2>1 DEF NumberOK, Left
    <2>3. QED
      BY <1>3, <2>1, <2>2, NumberLocal DEF Others
  <1>7. CASE MP!Output(j)
    <2>1. /\ pc' = pc /\ late' = late /\ stopper' = stopper
          /\ pc[j] = "running" /\ rec[j].seq < MaxOutputSeq
      BY <1>7 DEF MP!Output
    <2>2. NumberOK(j)'
      BY <1>1, <1>3, <2>1 DEF NumberOK, Left
    <2>3. QED
      BY <1>3, <2>1, <2>2, NumberLocal DEF Others
  <1>8. QED
    BY <1>4, <1>5, <1>6, <1>7

(* The arrival of a request, the start of a queued Job and retention. *)
LEMMA RequestNumbers ==
  ASSUME MP!ManagerInv, AllNumbers, NEW j \in Jobs,
         MP!Enqueue(j) \/ MP!Stop(j) \/ MP!Prune(j)
  PROVE  AllNumbers'
  <1>1. /\ rec \in [Jobs -> MP!JobRecord] /\ pc \in [Jobs -> MP!Places]
        /\ late \in [Jobs -> BOOLEAN] /\ stopper \in [Jobs -> MP!StopPlaces]
        /\ rec[j] \in MP!JobRecord /\ rec[j].seq \in Nat /\ MaxSeq \in Nat
        /\ MaxStopSeq \in Nat /\ MaxSeq >= MaxStopSeq + 3 /\ NumberOK(j)
    BY NumberTypes DEF AllNumbers
  <1>2. CASE MP!Enqueue(j)
    <2>1. stopper' = stopper /\ pc[j] = "idle"
      BY <1>2, Zenon DEF MP!Enqueue, MP!Admits
    <2>2. /\ \A i \in Jobs \ {j} : rec'[i] = rec[i] /\ pc'[i] = pc[i] /\ late'[i] = late[i]
          /\ \/ pc'[j] = "done" /\ rec'[j].seq = 1 /\ late'[j] = late[j]
             \/ pc'[j] = "queued" /\ rec'[j].seq = 0 /\ late'[j] = TRUE
             \/ pc'[j] = "announce" /\ rec'[j].seq = 0 /\ late'[j] = late[j]
      BY <1>1, <1>2 DEF MP!Enqueue, MP!Goto, MP!NoRecord
    <2>3. NumberOK(j)'
      BY <1>1, <2>1, <2>2 DEF NumberOK, Left
    <2>4. QED
      BY <2>1, <2>2, <2>3, NumberLocal DEF Others
  <1>3. CASE MP!Stop(j)
    <2>1. /\ rec' = rec /\ pc' = pc /\ late' = late
          /\ rec[j].seq < MaxStopSeq
          /\ \A i \in Jobs \ {j} : stopper'[i] = stopper[i]
      BY <1>1, <1>3 DEF MP!Stop, MP!GotoStop
    <2>2. NumberOK(j)'
      BY <1>1, <2>1 DEF NumberOK, Left
    <2>3. QED
      BY <2>1, <2>2, NumberLocal DEF Others
  <1>4. CASE MP!Prune(j)
    <2>1. /\ pc' = pc /\ late' = late /\ stopper' = stopper
          /\ \A i \in Jobs \ {j} : rec'[i] = rec[i]
          /\ rec'[j].seq = 0
      BY <1>1, <1>4 DEF MP!Prune, MP!NoRecord
    <2>2. NumberOK(j)'
      BY <1>1, <2>1 DEF NumberOK, Left
    <2>3. QED
      BY <2>1, <2>2, NumberLocal DEF Others
  <1>5. QED
    BY <1>2, <1>3, <1>4

(* A queued Job that is started was announced or will be. *)
LEMMA WakeNumbers == ASSUME MP!ManagerInv, AllNumbers, MP!Wake PROVE AllNumbers'
  <1>1. /\ rec \in [Jobs -> MP!JobRecord] /\ pc \in [Jobs -> MP!Places]
        /\ MaxSeq \in Nat /\ queued \in Seq(Jobs)
    BY NumberTypes DEF MP!ManagerInv, MP!TypeOK
  <1>2. late' = late /\ stopper' = stopper
    BY DEF MP!Wake
  <1>3. CASE rec' = rec /\ pc' = pc
    BY <1>2, <1>3 DEF AllNumbers, NumberOK
  <1>4. CASE /\ queued # <<>>
             /\ rec' = [rec EXCEPT ![Head(queued)].slot = TRUE]
             /\ pc' = [pc EXCEPT ![Head(queued)] = "start"]
    <2>1. PICK j \in Jobs : j = Head(queued) /\ 1 \in 1..Len(queued) /\ queued[1] = j
      BY <1>1, <1>4
    <2>2. pc[j] = "queued"
      BY <2>1 DEF MP!ManagerInv, MP!JobOK, MP!PlaceOK, MP!Waiting
    <2>3. /\ \A i \in Jobs \ {j} : rec'[i] = rec[i] /\ pc'[i] = pc[i]
          /\ rec'[j].seq = rec[j].seq /\ pc'[j] = "start"
      BY <1>1, <1>4, <2>1 DEF MP!JobRecord
    <2>4. NumberOK(j)'
      BY <1>1, <1>2, <2>2, <2>3 DEF AllNumbers, NumberOK, Left
    <2>5. QED
      BY <1>2, <2>3, <2>4, NumberLocal DEF Others
  <1>5. QED
    BY <1>3, <1>4, Zenon DEF MP!Wake, MP!Goto

(* Every step of the Runner process keeps the bound on numbers. *)
LEMMA RunnerNumbers == ASSUME SystemInv, NumbersInv, RunnerStep PROVE NumbersInv'
  <1>1. MP!ManagerInv /\ AllNumbers
    BY DEF SystemInv, NumbersInv, AllNumbers
  <1>2. AllNumbers'
    <2>1. ASSUME NEW j \in Jobs, MP!JobStep(j) PROVE AllNumbers'
      BY <1>1, <2>1, ControlNumbers, RecordNumbers DEF MP!JobStep
    <2>2. ASSUME NEW j \in Jobs, MP!StopStep(j) PROVE AllNumbers'
      BY <1>1, <2>2, ControlNumbers, RecordNumbers DEF MP!StopStep
    <2>3. ASSUME NEW j \in Jobs,
                 MP!AnnounceQueued(j) \/ MP!Output(j) \/ MP!Prune(j)
                 \/ MP!Enqueue(j) \/ MP!Stop(j)
          PROVE  AllNumbers'
      BY <1>1, <2>3, RecordNumbers, RequestNumbers
    <2>4. CASE Execute
      BY <1>1, <2>1, <2>2, <2>3, <2>4, SameExecutor, SameWake, WakeNumbers, Zenon
         DEF Execute
    <2>5. ASSUME NEW r \in inbox, Serve(r) PROVE AllNumbers'
      <3>1. r.job \in Jobs
        BY DEF SystemInv, SystemTypes
      <3>2. MP!Enqueue(r.job) \/ MP!Stop(r.job)
        BY <2>5, <3>1, SameExecutor, Zenon DEF Serve
      <3>3. QED
        BY <2>3, <3>1, <3>2
    <2>6. QED
      BY <2>4, <2>5 DEF RunnerStep
  <1>3. ASSUME NEW u \in sent' PROVE u.seq \in 1..MaxSeq
    <2>1. CASE u \in sent
      BY <2>1 DEF NumbersInv
    <2>2. CASE u \in Recorded
      <3>1. PICK j \in Jobs : rec'[j].seq > rec[j].seq /\ u.seq = rec'[j].seq
        BY <2>2 DEF Recorded
      <3>2. MP!ManagerInv'
        BY RunnerStepWorks DEF RunnerWorks
      <3>3. rec[j].seq \in Nat /\ rec'[j].seq \in Nat /\ MaxSeq \in Nat
        BY <1>1, <3>2, SystemAssumption DEF MP!ManagerInv, MP!TypeOK, MP!JobRecord
      <3>4. rec'[j].seq <= MaxSeq
        BY <1>2, <3>3 DEF AllNumbers, NumberOK, Left
      <3>5. QED
        BY <3>1, <3>3, <3>4
    <2>3. QED
      BY <2>1, <2>2 DEF RunnerStep
  <1>4. QED
    BY <1>2, <1>3 DEF NumbersInv, AllNumbers

(* So does every other step. *)
LEMMA NumbersNext == ASSUME SystemInv, NumbersInv, [Next]_vars PROVE NumbersInv'
  <1>1. CASE RunnerStep
    BY <1>1, RunnerNumbers
  <1>2. ASSUME NEW i, Replace(i) PROVE NumbersInv'
    <2>1. /\ sent' = sent
          /\ \A j \in Jobs : rec'[j].seq = 0 /\ pc'[j] = "idle" /\ late'[j] = FALSE
                             /\ stopper'[j] = "none"
      BY <1>2 DEF Replace, Manager!NoRecord
    <2>2. MaxSeq \in Nat /\ MaxSeq >= 3
      BY SystemAssumption, NumberAssumption
    <2>3. QED
      BY <2>1, <2>2 DEF NumbersInv, NumberOK, Left
  <1>3. CASE UNCHANGED <<managerVars, sent>>
    BY <1>3 DEF NumbersInv, NumberOK, managerVars
  <1>4. QED
    BY <1>1, <1>2, <1>3
       DEF Next, ServerStep, Dispatch, Disconnect, Report, Register, linkVars, vars

-------------------------------------------------------------------------------
(* The refinement *)

(* An update that arrives is one that the open registry allows. *)
LEMMA ReportRefines ==
  ASSUME SystemInv, NumbersInv, NEW s \in sessions, NEW u \in sent, Report(s, u)
  PROVE  Registry!RunnerStep
  <1> DEFINE t == [life |-> u.life, exec |-> u.exec, seq |-> u.seq, withLogs |-> TRUE]
             p == <<u.life, u.exec>>
  <1>1. u \in Update /\ UpdateOK(u) /\ u.seq \in 1..MaxSeq /\ u.job \in Jobs
    BY DEF SystemInv, SystemTypes, NumbersInv, Update
  <1>2. s.inst = u.inst /\ Registry!UpdateJob(s, u.job, t)
    BY Zenon DEF Report
  <1>3. Registry!MaySpeakOf(s.inst, u.job)
    BY <1>1, <1>2 DEF UpdateOK, Registry!MaySpeakOf
  <1>4. t \in Registry!Updates
    <2>1. p \in (RunnerActiveStates \cup TerminalStates) \X ExecutionStates
      BY <1>1 DEF Update
    <2>2. PICK b \in BOOLEAN :
             t = [life |-> p[1], exec |-> p[2], seq |-> u.seq, withLogs |-> b]
      OBVIOUS
    <2> HIDE DEF t, p
    <2>3. QED
      BY <1>1, <2>1, <2>2 DEF Registry!Updates
  <1> HIDE DEF t
  <1>5. QED
    BY <1>1, <1>2, <1>3, <1>4, Zenon DEF Registry!RunnerStep

(* The inventory of the process that runs speaks of Jobs that were handed  *)
(* to it.                                                                  *)
LEMMA InventoryRefines ==
  ASSUME SystemInv, NumbersInv, Registry!Preflight(inst, Inventory)
  PROVE  Inventory \in Registry!Inventories(inst)
  <1> DEFINE D == { k \in Jobs : rec[k].life # "Absent" }
  <1>1. DOMAIN Inventory = D /\ Inventory = [j \in D |-> Inventory[j]]
    BY DEF Inventory
  <1>2. ASSUME NEW j \in D
        PROVE  Registry!MaySpeakOf(inst, j) /\ Inventory[j] \in Registry!Snapshots(j)
    <2> DEFINE p == <<rec[j].life, rec[j].exec>>
               t == [life |-> p[1], exec |-> p[2], seq |-> rec[j].seq,
                     started |-> rec[j].started]
    <2>1. ExecutorOK(j) /\ WorkOK(j) /\ NumberOK(j) /\ MaxSeq \in Nat
      BY ExecutorFacts, SystemAssumption DEF SystemInv, ExecutorInv, NumbersInv
    <2>2. Registry!MaySpeakOf(inst, j)
      BY <2>1 DEF ExecutorOK, WorkOK, Registry!MaySpeakOf
    <2>3. Inventory[j] = t
      BY DEF Inventory
    <2>4. p \in (RunnerActiveStates \cup TerminalStates) \X ExecutionStates
      BY <2>1 DEF ExecutorOK
    <2>5. rec[j].seq \in Nat /\ rec[j].started \in BOOLEAN /\ rec[j].seq <= MaxSeq
      BY <2>1 DEF ExecutorOK, NumberOK, Left
    <2>6. Registry!ValidSnapshot(j \in Structured, Inventory[j])
      BY <1>1, Zenon DEF Registry!Preflight
    <2>7. Inventory[j].seq > 0
      BY <2>6 DEF Registry!ValidSnapshot
    <2>8. rec[j].seq \in 1..MaxSeq
      BY <2>1, <2>3, <2>5, <2>7
    <2> HIDE DEF p
    <2>9. Inventory[j] \in Registry!Snapshots(j)
      BY <2>3, <2>4, <2>5, <2>6, <2>8 DEF Registry!Snapshots
    <2>10. QED
      BY <2>2, <2>9
  <1>3. D \in SUBSET { j \in Jobs : Registry!MaySpeakOf(inst, j) }
    BY <1>2
  <1>4. Inventory \in [D -> UNION { Registry!Snapshots(j) : j \in D }]
    <2>1. \A j \in D : Inventory[j] \in UNION { Registry!Snapshots(k) : k \in D }
      BY <1>2
    <2> HIDE DEF D
    <2>2. QED
      BY <1>1, <2>1
  <1> HIDE DEF D
  <1>5. Inventory \in { f \in [D -> UNION { Registry!Snapshots(j) : j \in D }] :
                         \A j \in D : f[j] \in Registry!Snapshots(j) }
    BY <1>2, <1>4
  <1>6. QED
    BY <1>3, <1>5 DEF Registry!Inventories

(* Every step is a step of the registry or none for it. *)
LEMMA StepRefines ==
  ASSUME SystemInv, NumbersInv, [Next]_vars
  PROVE  [Registry!Next]_(Registry!vars)
  <1>1. CASE ServerStep
    <2>1. ASSUME NEW j \in Jobs, Registry!StartJob(j, "Public") PROVE Registry!ClientStep
      BY <2>1, Zenon DEF Registry!ClientStep
    <2>2. ASSUME NEW j \in Jobs, NEW expired \in BOOLEAN,
                 Registry!ReadJob(j, expired) \/ Registry!StopJob(j, expired)
          PROVE  Registry!ClientStep
      BY <2>2, Zenon DEF Registry!ClientStep
    <2>3. ASSUME NEW j \in Jobs, Registry!PruneTerminal(j) PROVE Registry!Sweep
      BY <2>3, Zenon DEF Registry!Sweep
    <2>4. ASSUME NEW S \in SUBSET Jobs, Registry!ExpireRecovering(S) PROVE Registry!Sweep
      BY <2>4, Zenon DEF Registry!Sweep
    <2>5. ASSUME Registry!ExpireLease PROVE Registry!Sweep
      BY <2>5, Zenon DEF Registry!Sweep
    <2>6. QED
      BY <1>1, <2>1, <2>2, <2>3, <2>4, <2>5, Zenon DEF ServerStep, Registry!Next
  <1>2. ASSUME NEW s \in sessions, Dispatch(s) \/ Disconnect(s) PROVE Registry!Next
    BY <1>2, Zenon DEF Dispatch, Disconnect, Registry!Next, Registry!RunnerStep
  <1>3. ASSUME NEW s \in sessions, NEW u \in sent, Report(s, u) PROVE Registry!Next
    BY <1>3, ReportRefines DEF Registry!Next
  <1>4. ASSUME NEW conn \in Registry!NewConnection,
               NEW S \in SUBSET { j \in Jobs : Registry!RecoveryActive(jobs[j]) },
               Register(conn, S)
        PROVE  Registry!Next
    <2>1. inst \in Instances /\ Registry!Register(inst, conn, Inventory, S)
      BY <1>4 DEF Register, SystemInv, SystemTypes
    <2>2. Registry!Preflight(inst, Inventory)
      BY <2>1, Zenon DEF Registry!Register
    <2>3. Inventory \in Registry!Inventories(inst)
      BY <2>2, InventoryRefines
    <2>4. QED
      BY <2>1, <2>3, Zenon DEF Registry!Next, Registry!RunnerStep
  <1>5. CASE RunnerStep
    BY <1>5 DEF RunnerStep, registryVars, Registry!vars
  <1>6. ASSUME NEW i, Replace(i) PROVE UNCHANGED Registry!vars
    BY <1>6 DEF Replace, registryVars, Registry!vars
  <1>7. CASE UNCHANGED vars
    BY <1>7 DEF vars, registryVars, Registry!vars
  <1>8. QED
    BY <1>1, <1>2, <1>3, <1>4, <1>5, <1>6, <1>7, Zenon DEF Next

(* The invariant with the numbers. *)
LEMMA NumbersInit == Init => NumbersInv
  <1> SUFFICES ASSUME Init PROVE NumbersInv
    OBVIOUS
  <1>1. MaxSeq \in Nat /\ MaxSeq >= 3
    BY SystemAssumption, NumberAssumption
  <1>2. /\ sent = {}
        /\ \A j \in Jobs : rec[j].seq = 0 /\ pc[j] = "idle" /\ late[j] = FALSE
                           /\ stopper[j] = "none"
    BY DEF Init, Manager!Init, Manager!NoRecord
  <1>3. QED
    BY <1>1, <1>2 DEF NumbersInv, NumberOK, Left

(***************************************************************************)
(* No update takes a number beyond the bound.                              *)
(***************************************************************************)
THEOREM NumbersBounded == Spec => [](SystemInv /\ NumbersInv)
  <1>1. SystemInv /\ NumbersInv /\ [Next]_vars => (SystemInv /\ NumbersInv)'
    BY SystemNext, NumbersNext
  <1>2. QED
    BY SystemInit, NumbersInit, <1>1, PTL DEF Spec

(***************************************************************************)
(* The Server at work with these Runner processes is the open registry:    *)
(* whatever the executor records, however late, repeated or out of order   *)
(* it arrives, across process replacement and Server restarts.             *)
(***************************************************************************)
THEOREM RegistryRefined == Spec => ImplementsRegistry
  <1>1. Init => Registry!Init
    BY DEF Init
  <1>2. SystemInv /\ NumbersInv /\ [Next]_vars => [Registry!Next]_(Registry!vars)
    BY StepRefines
  <1>3. QED
    BY NumbersBounded, <1>1, <1>2, PTL DEF Spec, ImplementsRegistry, Registry!Spec

-------------------------------------------------------------------------------
(* What is proved of the registry holds in the system *)

(* The registry that the system runs is the one that the proofs are about. *)
LEMMA SameRegistry ==
  ASSUME NEW j, NEW e, NEW vis, NEW s, NEW u, NEW i, NEW c, NEW inv, NEW S
  PROVE  /\ Registry!StartJob(j, vis) => RR!StartJob(j, vis)
         /\ Registry!ReadJob(j, e) => RR!ReadJob(j, e)
         /\ Registry!StopJob(j, e) => RR!StopJob(j, e)
         /\ Registry!PromoteHiddenJob(j, e) => RR!PromoteHiddenJob(j, e)
         /\ Registry!RecordCleanupIntent(j) => RR!RecordCleanupIntent(j)
         /\ Registry!RemoveProjected(j) => RR!RemoveProjected(j)
         /\ Registry!CancelHiddenJob(j, e) => RR!CancelHiddenJob(j, e)
         /\ Registry!PruneTerminal(j) => RR!PruneTerminal(j)
         /\ Registry!ForgetSuppression(j) => RR!ForgetSuppression(j)
         /\ Registry!Poll(s) => RR!Poll(s)
         /\ Registry!Touch(s) => RR!Touch(s)
         /\ Registry!Disconnect(s) => RR!Disconnect(s)
         /\ Registry!UpdateJob(s, j, u) => RR!UpdateJob(s, j, u)
         /\ Registry!Register(i, c, inv, S) => RR!Register(i, c, inv, S)
         /\ Registry!ExpireRecovering(S) => RR!ExpireRecovering(S)
         /\ Registry!LoseReceipt(e) => RR!LoseReceipt(e)
         /\ Registry!WriteReceipt(e, S) => RR!WriteReceipt(e, S)
         /\ Registry!GoStale => RR!GoStale
         /\ Registry!Restart => RR!Restart
         /\ Registry!ExpireLease => RR!ExpireLease
         /\ Registry!RecoveryActive(u) <=> RR!RecoveryActive(u)
         /\ Registry!MaySpeakOf(i, j) <=> RR!MaySpeakOf(i, j)
         /\ Registry!Updates = RR!Updates /\ Registry!Inventories(i) = RR!Inventories(i)
         /\ Registry!NewConnection = RR!NewConnection
  <1> USE DEF Registry!NoJob, Registry!Present, Registry!RecoveryActive,
        Registry!Request, Registry!NoLease, Registry!OwnExecutionState,
        Registry!MarkLost, Registry!BeginRecovery, Registry!Refresh,
        Registry!DropCleanedUp, Registry!ApplyUpdate, Registry!ApplySnapshot,
        Registry!RecordFromSnapshot, Registry!Captured, Registry!CaptureReceipts,
        Registry!Retained, Registry!DropRequestsOf, Registry!DropStartRequest,
        Registry!CanEnqueue, Registry!HoldsLease, Registry!Dispatched,
        Registry!StoppedBeforeDispatch, Registry!MaySpeakOf,
        Registry!AcceptsUpdate, Registry!Transfers, Registry!Preflight,
        Registry!Orphaned, Registry!Missing, Registry!TakesSnapshot,
        Registry!AfterLosses, Registry!Rebuilds, Registry!Reconciled,
        Registry!EndedByInventory, Registry!Hydrated, Registry!runnerVars,
        Registry!TerminalStates, Registry!IsTerminal, Registry!IsTimedOut,
        Registry!RunnerActiveStates, Registry!IsRunnerActive,
        Registry!ExecutionStates, Registry!ValidExecution, Registry!ValidSnapshot,
        Registry!Cardinality, Registry!IsFiniteSet
  <1> USE DEF RR!NoJob, RR!Present, RR!RecoveryActive, RR!Request, RR!NoLease,
        RR!OwnExecutionState, RR!MarkLost, RR!BeginRecovery, RR!Refresh,
        RR!DropCleanedUp, RR!ApplyUpdate, RR!ApplySnapshot, RR!RecordFromSnapshot,
        RR!Captured, RR!CaptureReceipts, RR!Retained, RR!DropRequestsOf,
        RR!DropStartRequest, RR!CanEnqueue, RR!HoldsLease, RR!Dispatched,
        RR!StoppedBeforeDispatch, RR!MaySpeakOf, RR!AcceptsUpdate, RR!Transfers,
        RR!Preflight, RR!Orphaned, RR!Missing, RR!TakesSnapshot, RR!AfterLosses,
        RR!Rebuilds, RR!Reconciled, RR!EndedByInventory, RR!Hydrated,
        RR!runnerVars, RR!TerminalStates, RR!IsTerminal, RR!IsTimedOut,
        RR!RunnerActiveStates, RR!IsRunnerActive, RR!ExecutionStates,
        RR!ValidExecution, RR!ValidSnapshot, RR!Cardinality, RR!IsFiniteSet
  <1>1. Registry!StartJob(j, vis) => RR!StartJob(j, vis)
    BY Zenon DEF Registry!StartJob, RR!StartJob
  <1>2. Registry!ReadJob(j, e) => RR!ReadJob(j, e)
    BY Zenon DEF Registry!ReadJob, RR!ReadJob
  <1>3. Registry!StopJob(j, e) => RR!StopJob(j, e)
    BY Zenon DEF Registry!StopJob, RR!StopJob
  <1>4. Registry!PromoteHiddenJob(j, e) => RR!PromoteHiddenJob(j, e)
    BY Zenon DEF Registry!PromoteHiddenJob, RR!PromoteHiddenJob
  <1>5. Registry!RecordCleanupIntent(j) => RR!RecordCleanupIntent(j)
    BY Zenon DEF Registry!RecordCleanupIntent, RR!RecordCleanupIntent
  <1>6. Registry!RemoveProjected(j) => RR!RemoveProjected(j)
    BY Zenon DEF Registry!RemoveProjected, RR!RemoveProjected
  <1>7. Registry!CancelHiddenJob(j, e) => RR!CancelHiddenJob(j, e)
    BY Zenon DEF Registry!CancelHiddenJob, RR!CancelHiddenJob
  <1>8. Registry!PruneTerminal(j) => RR!PruneTerminal(j)
    BY Zenon DEF Registry!PruneTerminal, RR!PruneTerminal
  <1>9. Registry!ForgetSuppression(j) => RR!ForgetSuppression(j)
    BY Zenon DEF Registry!ForgetSuppression, RR!ForgetSuppression
  <1>10. Registry!Poll(s) => RR!Poll(s)
    BY Zenon DEF Registry!Poll, RR!Poll
  <1>11. Registry!Touch(s) => RR!Touch(s)
    BY Zenon DEF Registry!Touch, RR!Touch
  <1>12. Registry!Disconnect(s) => RR!Disconnect(s)
    BY Zenon DEF Registry!Disconnect, RR!Disconnect
  <1>13. Registry!UpdateJob(s, j, u) => RR!UpdateJob(s, j, u)
    BY Zenon DEF Registry!UpdateJob, RR!UpdateJob
  <1>14. Registry!Register(i, c, inv, S) => RR!Register(i, c, inv, S)
    BY Zenon DEF Registry!Register, RR!Register
  <1>15. Registry!ExpireRecovering(S) => RR!ExpireRecovering(S)
    BY Zenon DEF Registry!ExpireRecovering, RR!ExpireRecovering
  <1>16. Registry!LoseReceipt(e) => RR!LoseReceipt(e)
    BY Zenon DEF Registry!LoseReceipt, RR!LoseReceipt
  <1>17. Registry!WriteReceipt(e, S) => RR!WriteReceipt(e, S)
    BY Zenon DEF Registry!WriteReceipt, RR!WriteReceipt
  <1>18. Registry!GoStale => RR!GoStale
    BY Zenon DEF Registry!GoStale, RR!GoStale
  <1>19. Registry!Restart => RR!Restart
    BY Zenon DEF Registry!Restart, RR!Restart
  <1>20. Registry!ExpireLease => RR!ExpireLease
    BY Zenon DEF Registry!ExpireLease, RR!ExpireLease
  <1>21. /\ Registry!RecoveryActive(u) <=> RR!RecoveryActive(u)
         /\ Registry!MaySpeakOf(i, j) <=> RR!MaySpeakOf(i, j)
    BY Zenon
  <1>22. Registry!Updates = RR!Updates /\ Registry!NewConnection = RR!NewConnection
    BY DEF Registry!Updates, RR!Updates, Registry!NewConnection, RR!NewConnection
  <1>23. Registry!Inventories(i) = RR!Inventories(i)
    BY DEF Registry!Inventories, RR!Inventories, Registry!Snapshots, RR!Snapshots
  <1>24. QED
    BY <1>1, <1>2, <1>3, <1>4, <1>5, <1>6, <1>7, <1>8, <1>9, <1>10, <1>11, <1>12, <1>13,
       <1>14, <1>15, <1>16, <1>17, <1>18, <1>19, <1>20, <1>21, <1>22, <1>23, Zenon

(* So its steps are the ones that the proofs are about. *)
LEMMA SameSteps == Registry!Next => RR!Next
  <1>1. Registry!RunnerStep => RR!RunnerStep
    <2>1. ASSUME NEW i \in Instances, NEW c \in Registry!NewConnection,
                 NEW S \in SUBSET { j \in Jobs : Registry!RecoveryActive(jobs[j]) },
                 NEW inv \in Registry!Inventories(i), Registry!Register(i, c, inv, S)
          PROVE  RR!RunnerStep
      <3>1. /\ c \in RR!NewConnection /\ inv \in RR!Inventories(i)
            /\ RR!Register(i, c, inv, S)
        BY <2>1, SameRegistry
      <3>2. S \in SUBSET { j \in Jobs : RR!RecoveryActive(jobs[j]) }
        BY SameRegistry
      <3>3. QED
        BY <3>1, <3>2, Zenon DEF RR!RunnerStep
    <2>2. ASSUME NEW s \in sessions, NEW j \in Jobs, NEW u \in Registry!Updates,
                 Registry!MaySpeakOf(s.inst, j), Registry!UpdateJob(s, j, u)
          PROVE  RR!RunnerStep
      <3>1. u \in RR!Updates /\ RR!MaySpeakOf(s.inst, j) /\ RR!UpdateJob(s, j, u)
        BY <2>2, SameRegistry
      <3>2. QED
        BY <3>1, Zenon DEF RR!RunnerStep
    <2>3. ASSUME NEW s \in sessions,
                 Registry!Poll(s) \/ Registry!Touch(s) \/ Registry!Disconnect(s)
          PROVE  RR!RunnerStep
      BY <2>3, SameRegistry, Zenon DEF RR!RunnerStep
    <2>4. QED
      BY <2>1, <2>2, <2>3, Zenon DEF Registry!RunnerStep
  <1>2. Registry!ClientStep => RR!ClientStep
    BY SameRegistry, Zenon DEF Registry!ClientStep, RR!ClientStep
  <1>3. Registry!Sweep => RR!Sweep
    BY SameRegistry, Zenon DEF Registry!Sweep, RR!Sweep
  <1>4. Registry!StorageStep => RR!StorageStep
    BY SameRegistry, Zenon DEF Registry!StorageStep, RR!StorageStep
  <1>5. QED
    BY <1>1, <1>2, <1>3, <1>4, SameRegistry, Zenon DEF Registry!Next, RR!Next

(* The reports of the system are what those proofs assume of reports. *)
LEMMA ReportsTyped ==
  (RunnerActiveStates \cup TerminalStates) \X ExecutionStates
      \subseteq (RR!RunnerActiveStates \cup RR!TerminalStates) \X RR!ExecutionStates
  BY Zenon DEF RunnerActiveStates, TerminalStates, ExecutionStates,
     RR!RunnerActiveStates, RR!TerminalStates, RR!ExecutionStates

(* The registry's inductive invariant holds in the system. *)
LEMMA RegistryInvHolds == Spec => []RR!RegistryInv
  <1>1. Init => RR!RegistryInv
    <2> SUFFICES ASSUME Init PROVE RR!RegistryInv
      OBVIOUS
    <2>1. RR!Init
      BY Zenon DEF Init, Registry!Init, RR!Init, Registry!NoLease, RR!NoLease,
         Registry!NoJob, RR!NoJob
    <2>2. QED
      BY <2>1, RR!RegistryInit, ReportsTyped, SystemAssumption
  <1>2. [Registry!Next]_(Registry!vars) /\ RR!RegistryInv => RR!RegistryInv'
    <2> SUFFICES ASSUME [Registry!Next]_(Registry!vars), RR!RegistryInv
                 PROVE  RR!RegistryInv'
      OBVIOUS
    <2>1. [RR!Next]_(RR!vars)
      BY SameSteps DEF Registry!vars, RR!vars
    <2>2. QED
      BY <2>1, RR!RegistryNext, ReportsTyped, SystemAssumption
  <1>3. QED
    BY RegistryRefined, <1>1, <1>2, PTL DEF Spec, ImplementsRegistry, Registry!Spec

(***************************************************************************)
(* What the registry keeps against any Runner it keeps against this one:   *)
(* every Job that has not ended belongs to the lease holder, the record,   *)
(* the pending request and the queue agree, and a start request is handed  *)
(* to one process at most.                                                 *)
(***************************************************************************)
THEOREM RegistrySafeInSystem ==
  Spec => []( /\ Registry!ActiveJobsOwnedByLease
              /\ Registry!QueuedExactlyWhenRequested
              /\ Registry!HandedOutAtMostOnce )
  <1>1. RR!RegistryInv => /\ Registry!ActiveJobsOwnedByLease
                          /\ Registry!QueuedExactlyWhenRequested
                          /\ Registry!HandedOutAtMostOnce
    <2> SUFFICES ASSUME RR!RegistryInv
                 PROVE  /\ Registry!ActiveJobsOwnedByLease
                        /\ Registry!QueuedExactlyWhenRequested
                        /\ Registry!HandedOutAtMostOnce
      OBVIOUS
    <2>1. /\ RR!ActiveJobsOwnedByLease /\ RR!QueuedExactlyWhenRequested
          /\ RR!HandedOutAtMostOnce
      BY RR!RegistryFacts, ReportsTyped, SystemAssumption
    <2>2. QED
      BY <2>1, Zenon
         DEF Registry!ActiveJobsOwnedByLease, RR!ActiveJobsOwnedByLease,
             Registry!QueuedExactlyWhenRequested, RR!QueuedExactlyWhenRequested,
             Registry!HandedOutAtMostOnce, RR!HandedOutAtMostOnce, Registry!Present,
             RR!Present, Registry!IsTerminal, RR!IsTerminal, Registry!TerminalStates,
             RR!TerminalStates, Registry!Cardinality, RR!Cardinality,
             Registry!IsFiniteSet, RR!IsFiniteSet
  <1>2. QED
    BY RegistryInvHolds, <1>1, PTL

(***************************************************************************)
(* Every Job of the system is public and every start request is decoded,   *)
(* so no result answers one, and here the rule holds as the comment in     *)
(* reconcile_inventory_locked states it: a terminal state never revives or *)
(* changes its class, nor does what is said of the command.                *)
(***************************************************************************)
THEOREM VerdictsFinalInSystem ==
  Spec => Registry!VerdictFinal /\ Registry!TerminalNeverRevives
  <1> DEFINE Stays ==
        \A j \in Jobs : Registry!IsTerminal(jobs[j].life) /\ Registry!Present(jobs'[j]) =>
            jobs'[j].life = jobs[j].life /\ jobs'[j].exec = jobs[j].exec
      Verdicts ==
        \A j \in Jobs \ {}' :
          Registry!IsTerminal(jobs[j].life) /\ jobs[j].vis # "Cleanup"
                                             /\ Registry!Present(jobs'[j]) =>
              /\ jobs'[j].life = jobs[j].life
              /\ jobs'[j].exec = jobs[j].exec
      Lives ==
        \A j \in Jobs :
          Registry!IsTerminal(jobs[j].life) /\ Registry!Present(jobs'[j]) =>
              jobs'[j].life = jobs[j].life
  <1>1. SystemInv /\ RR!RegistryInv /\ [Registry!Next]_(Registry!vars) =>
            [Stays]_(Registry!vars)
    <2> SUFFICES ASSUME SystemInv, RR!RegistryInv, Registry!Next PROVE Stays
      OBVIOUS
    <2>1. RR!Next /\ RR!RecordsInv
      BY SameSteps DEF RR!RegistryInv
    <2>2. RR!VerdictStep \/ UNCHANGED RR!vars
      BY <2>1, RR!RecordsNext, ReportsTyped, SystemAssumption
    <2>3. \A j \in Jobs : jobs[j].vis = "Public"
      BY DEF SystemInv, SystemTypes, ServerRecord
    <2>4. CASE UNCHANGED RR!vars
      BY <2>4 DEF RR!vars
    <2>5. CASE RR!VerdictStep
      BY <2>3, <2>5 DEF RR!VerdictStep, RR!Same, RR!IsTerminal, RR!TerminalStates, RR!Present,
           Registry!IsTerminal, Registry!TerminalStates, Registry!Present
    <2>6. QED
      BY <2>2, <2>4, <2>5
  <1>2. Stays => Lives /\ Verdicts
    OBVIOUS
  <1>3. Registry!VerdictFinal <=> [][Verdicts]_(Registry!vars)
    BY DEF Registry!VerdictFinal
  <1>4. Registry!TerminalNeverRevives <=> [][Lives]_(Registry!vars)
    BY DEF Registry!TerminalNeverRevives
  <1> HIDE DEF Stays, Lives, Verdicts
  <1>5. QED
    BY RegistryInvHolds, SystemInvariant, RegistryRefined, <1>1, <1>2, <1>3, <1>4, PTL
       DEF ImplementsRegistry, Registry!Spec
===============================================================================
