------------------------- MODULE RunnerRegistryProofs -------------------------
(***************************************************************************)
(* Proofs about the Server's registry, for every set of Jobs and of Runner *)
(* processes and for every bound: the records of Jobs and their durable    *)
(* receipts, dispatch at most once, the request queue and the types.       *)
(***************************************************************************)
EXTENDS RunnerRegistry, FiniteSetTheorems, TLAPS

-------------------------------------------------------------------------------
(* The inductive invariant. *)

(* A record that has not ended belongs to process i, and i exists. *)
Owned(r, i) == Present(r) /\ ~IsTerminal(r.life) => r.inst = i /\ i \in Instances

(* A verdict v that was published about Job j is the verdict of its record *)
(* r, unless j is in O: then both are verdicts.                            *)
Vouches(j, v, r, O) ==
    /\ IsTerminal(v.life)
    /\ IsTerminal(r.life)
    /\ r.vis = "Public"
    /\ j \notin O => r.life = v.life /\ r.exec = v.exec

RecordsTyped ==
    /\ lease.inst \in Instances \cup {NoInst}
    /\ jobs \in [Jobs -> JobRecord]
    /\ receipts \in [Jobs -> JobRecord]
    /\ unwritten \subseteq [job: Jobs, rec: JobRecord]
    /\ overturned \subseteq Jobs

RecordsInv ==
    /\ RecordsTyped
    /\ \A j \in Jobs : Owned(jobs[j], lease.inst)
    /\ \A j \in Jobs : Present(receipts[j]) =>
                          Vouches(j, receipts[j], jobs[j], overturned)
    /\ \A e \in unwritten : Vouches(e.job, e.rec, jobs[e.job], overturned)

(* What an operation that removes no public record may do to a record. *)
Keeps(r, q) ==
    /\ IsTerminal(r.life) /\ r.vis # "Cleanup" /\ Present(q) =>
           q.life = r.life /\ q.exec = r.exec
    /\ IsTerminal(r.life) /\ r.vis = "Public" =>
           Present(q) /\ q.vis = "Public" /\ q.life = r.life /\ q.exec = r.exec

-------------------------------------------------------------------------------
(* The transformers of one record. *)

(* The record that stands for an absent Job is a record. *)
LEMMA NoJobType == NoJob \in JobRecord /\ ~Present(NoJob)
  BY RegistryAssumption
     DEF NoJob, JobRecord, Present, Visibilities, ExecutionStates

(* Losing a Job keeps the type, ends the Job and changes no verdict. *)
LEMMA MarkLostFacts ==
  ASSUME NEW j \in Jobs, NEW r \in JobRecord
  PROVE  /\ MarkLost(j, r) \in JobRecord
         /\ Keeps(r, MarkLost(j, r))
         /\ Present(r) <=> Present(MarkLost(j, r))
         /\ Present(r) => IsTerminal(MarkLost(j, r).life)
         /\ MarkLost(j, r).vis = r.vis
         /\ \A i : Owned(MarkLost(j, r), i)
  <1>1. CASE ~Present(r) \/ IsTerminal(r.life)
    <2>1. MarkLost(j, r) = r
      BY <1>1 DEF MarkLost
    <2>2. QED
      BY <1>1, <2>1 DEF Keeps, Owned, Present, IsTerminal, TerminalStates
  <1>2. CASE Present(r) /\ ~IsTerminal(r.life)
    <2> DEFINE q == [r EXCEPT !.life = "Lost", !.exec = OwnExecutionState(j, r),
                              !.recovering = FALSE]
    <2>1. MarkLost(j, r) = q
      BY <1>2 DEF MarkLost
    <2>2. OwnExecutionState(j, r) \in ExecutionStates
      BY DEF OwnExecutionState, JobRecord, ExecutionStates
    <2>3. q \in JobRecord /\ q.life = "Lost" /\ q.vis = r.vis
      BY <2>2 DEF JobRecord, Lifecycles
    <2>4. Present(q) /\ IsTerminal(q.life)
      BY <2>3 DEF Present, IsTerminal, TerminalStates
    <2>5. QED
      BY <1>2, <2>1, <2>3, <2>4 DEF Keeps, Owned
  <1>3. QED
    BY <1>1, <1>2

(* The recovery overlay changes neither lifecycle, owner nor visibility. *)
LEMMA BeginRecoveryFacts ==
  ASSUME NEW r \in JobRecord
  PROVE  /\ BeginRecovery(r) \in JobRecord
         /\ BeginRecovery(r).life = r.life
         /\ BeginRecovery(r).inst = r.inst
         /\ BeginRecovery(r).vis = r.vis
         /\ BeginRecovery(r).exec = r.exec
  BY DEF BeginRecovery, JobRecord

(* Only a record that awaits cleanup and has ended is dropped. *)
LEMMA DropCleanedUpFacts ==
  ASSUME NEW r \in JobRecord
  PROVE  /\ DropCleanedUp(r) \in JobRecord
         /\ Keeps(r, DropCleanedUp(r))
         /\ \A i : Owned(r, i) => Owned(DropCleanedUp(r), i)
         /\ r.vis # "Cleanup" => DropCleanedUp(r) = r
  <1>1. CASE r.vis = "Cleanup" /\ IsTerminal(r.life)
    BY <1>1, NoJobType DEF DropCleanedUp, Keeps, Owned
  <1>2. CASE ~(r.vis = "Cleanup" /\ IsTerminal(r.life))
    <2>1. DropCleanedUp(r) = r
      BY <1>2 DEF DropCleanedUp
    <2>2. QED
      BY <2>1 DEF Keeps, Present, IsTerminal, TerminalStates
  <1>3. QED
    BY <1>1, <1>2

(* Refreshing a record leaves a verdict, its owner and visibility alone. *)
LEMMA RefreshFacts ==
  ASSUME NEW j \in Jobs, NEW r \in JobRecord, NEW online, NEW expired
  PROVE  /\ Refresh(j, r, online, expired) \in JobRecord
         /\ Keeps(r, Refresh(j, r, online, expired))
         /\ \A i : Owned(r, i) => Owned(Refresh(j, r, online, expired), i)
         /\ Refresh(j, r, online, expired).vis = r.vis
         /\ IsTerminal(r.life) => Refresh(j, r, online, expired) = r
         /\ Present(r) <=> Present(Refresh(j, r, online, expired))
  <1> DEFINE q == Refresh(j, r, online, expired)
  <1>1. CASE q = r
    BY <1>1 DEF Keeps, Present, IsTerminal, TerminalStates
  <1>2. CASE q = MarkLost(j, r) /\ ~IsTerminal(r.life)
    BY <1>2, MarkLostFacts
  <1>3. CASE q = BeginRecovery(r) /\ ~IsTerminal(r.life)
    BY <1>3, BeginRecoveryFacts DEF Keeps, Owned, Present
  <1>4. QED
    BY <1>1, <1>2, <1>3
       DEF Refresh, IsRunnerActive, RunnerActiveStates, IsTerminal, TerminalStates

(* A report that a Runner may send, apart from its sequence number. *)
Reportable(u) ==
    /\ u.life \in RunnerActiveStates \cup TerminalStates
    /\ u.exec \in ExecutionStates
    /\ u.seq \in 1..MaxSeq

(* An update keeps the type, the owner and the visibility. *)
LEMMA ApplyUpdateFacts ==
  ASSUME NEW j \in Jobs, NEW r \in JobRecord, NEW u, Reportable(u)
  PROVE  /\ ApplyUpdate(j, r, u) \in JobRecord
         /\ ApplyUpdate(j, r, u).inst = r.inst
         /\ ApplyUpdate(j, r, u).vis = r.vis
  <1> DEFINE started == r.started \/ ( /\ u.exec # "NotStarted"
                                       /\ u.life \in {"Running", "Completed", "Failed",
                                                      "Stopped", "Timeout"} )
             exec == IF IsTerminal(u.life) THEN u.exec ELSE r.exec
             good == [r EXCEPT !.life = u.life, !.seq = u.seq, !.recovering = FALSE,
                               !.started = started, !.exec = exec]
             bad == [r EXCEPT !.life = "Failed", !.seq = u.seq,
                              !.exec = OwnExecutionState(j, r)]
  <1>1. exec \in ExecutionStates /\ OwnExecutionState(j, r) \in ExecutionStates
    BY DEF Reportable, OwnExecutionState, JobRecord, ExecutionStates
  <1>2. u.seq \in 0..MaxSeq
    BY RegistryAssumption DEF Reportable
  <1>3. u.life \in Lifecycles \ {"StartedLegacy"}
    BY DEF Reportable, RunnerActiveStates, TerminalStates, Lifecycles
  <1>4. started \in BOOLEAN
    OBVIOUS
  <1> HIDE DEF started, exec
  <1>5. good \in JobRecord /\ good.inst = r.inst /\ good.vis = r.vis
    BY <1>1, <1>2, <1>3, <1>4 DEF JobRecord
  <1>6. bad \in JobRecord /\ bad.inst = r.inst /\ bad.vis = r.vis
    BY <1>1, <1>2 DEF JobRecord, Lifecycles
  <1>7. ApplyUpdate(j, r, u) = good \/ ApplyUpdate(j, r, u) = bad
    BY DEF ApplyUpdate, started, exec
  <1>8. QED
    BY <1>5, <1>6, <1>7

(* A snapshot is a report that also says whether the command started. *)
SnapshotLike(s) == Reportable(s) /\ s.started \in BOOLEAN

(* A snapshot, applied or rebuilt from, gives a record of its sender. *)
LEMMA SnapshotFacts ==
  ASSUME NEW i \in Instances, NEW r \in JobRecord, NEW s, SnapshotLike(s)
  PROVE  /\ ApplySnapshot(r, i, s) \in JobRecord
         /\ ApplySnapshot(r, i, s).inst = i
         /\ RecordFromSnapshot(i, s) \in JobRecord
         /\ RecordFromSnapshot(i, s).inst = i
  <1>1. s.seq \in 0..MaxSeq
    BY RegistryAssumption DEF SnapshotLike, Reportable
  <1>2. s.life \in Lifecycles \ {"StartedLegacy"}
    BY DEF SnapshotLike, Reportable, RunnerActiveStates, TerminalStates, Lifecycles
  <1>3. s.exec \in ExecutionStates /\ s.started \in BOOLEAN
    BY DEF SnapshotLike, Reportable
  <1>4. QED
    BY <1>1, <1>2, <1>3, NoJobType DEF ApplySnapshot, RecordFromSnapshot, JobRecord

(* A result ends a record and changes nothing else. *)
LEMMA ResultFacts ==
  ASSUME NEW r \in JobRecord, NEW success
  PROVE  /\ ResultApplied(r, success) \in JobRecord
         /\ ResultApplied(r, success).vis = r.vis
         /\ ResultApplied(r, success).life # "Queued"
         /\ Present(r) => IsTerminal(ResultApplied(r, success).life)
         /\ Present(r) <=> Present(ResultApplied(r, success))
         /\ \A i : Owned(ResultApplied(r, success), i)
  <1>1. CASE ~Present(r)
    BY <1>1 DEF ResultApplied, Owned, Present
  <1>2. CASE Present(r)
    <2> DEFINE l == IF success THEN "Completed" ELSE "Failed"
               q == [r EXCEPT !.life = l]
    <2>1. l \in {"Completed", "Failed"}
      OBVIOUS
    <2>2. ResultApplied(r, success) = q
      BY <1>2 DEF ResultApplied
    <2> HIDE DEF l
    <2>3. q \in JobRecord /\ q.life = l /\ q.vis = r.vis
      BY <2>1 DEF JobRecord, Lifecycles
    <2>4. QED
      BY <1>2, <2>1, <2>2, <2>3 DEF Present, IsTerminal, TerminalStates, Owned
  <1>3. QED
    BY <1>1, <1>2

(* A change that spares a record which has ended may come first. *)
LEMMA KeepsChain ==
  ASSUME NEW r, NEW q, NEW p, IsTerminal(r.life) => q = r, Keeps(q, p)
  PROVE  Keeps(r, p)
  BY DEF Keeps

(* Reconciliation of one Job: the record that results is typed, belongs to *)
(* the registering process unless it ended, and keeps a verdict.           *)
LEMMA ReconciledFacts ==
  ASSUME NEW i \in Instances, NEW inv, NEW late, NEW j \in Jobs,
         RecordsInv, Preflight(i, inv), j \in DOMAIN inv => SnapshotLike(inv[j])
  PROVE  /\ Reconciled(i, inv, late, j) \in JobRecord
         /\ Owned(Reconciled(i, inv, late, j), i)
         /\ Keeps(jobs[j], Reconciled(i, inv, late, j))
  <1> DEFINE r == jobs[j]
             lost == late \cup Orphaned(i, inv) \cup Missing(i, inv)
             m == IF j \in lost THEN MarkLost(j, r) ELSE r
             a == AfterLosses(i, inv, late, j)
             b == IF j \notin DOMAIN inv THEN a
                  ELSE IF Rebuilds(i, j, inv, a) THEN RecordFromSnapshot(i, inv[j])
                  ELSE IF Present(a) /\ TakesSnapshot(i, j, inv, a)
                       THEN ApplySnapshot(a, i, inv[j])
                  ELSE a
  <1>1. r \in JobRecord /\ Owned(r, lease.inst) /\ lease.inst \in Instances \cup {NoInst}
    BY DEF RecordsInv, RecordsTyped
  <1>2. /\ m \in JobRecord /\ Keeps(r, m) /\ m.vis = r.vis
        /\ IsTerminal(r.life) => m = r
        /\ Present(m) => Present(r)
    BY <1>1, MarkLostFacts DEF Keeps, Present, IsTerminal, TerminalStates, MarkLost
  <1>3. a = m \/ a = DropCleanedUp(m)
    BY DEF AfterLosses
  <1>4. a \in JobRecord /\ Keeps(r, a)
    BY <1>2, <1>3, DropCleanedUpFacts, KeepsChain
  <1>5. IsTerminal(r.life) /\ Present(a) => a = r
    BY <1>2, <1>3, NoJobType DEF DropCleanedUp
  <1>6. \/ Owned(a, i)
        \/ j \in DOMAIN inv /\ Transfers(i, j, inv) /\ a = r
    <2>1. CASE ~Present(a) \/ IsTerminal(a.life)
      BY <2>1 DEF Owned
    <2>2. CASE Present(a) /\ ~IsTerminal(a.life)
      <3>1. a = m /\ a = r /\ j \notin lost
        BY <1>1, <1>2, <1>3, <2>2, MarkLostFacts, NoJobType DEF DropCleanedUp
      <3>2. r.inst = lease.inst /\ lease.inst \in Instances
        BY <1>1, <2>2, <3>1 DEF Owned
      <3>3. r.life = "Queued" \/ IsRunnerActive(r.life)
        BY <1>1, <2>2, <3>1 DEF JobRecord, Present, IsTerminal, TerminalStates,
                               Lifecycles, IsRunnerActive, RunnerActiveStates
      <3>4. CASE lease.inst = i
        BY <3>1, <3>2, <3>4 DEF Owned
      <3>5. CASE lease.inst # i
        BY <3>1, <3>2, <3>3, <3>5, RegistryAssumption DEF Orphaned, Transfers
      <3>6. QED
        BY <3>4, <3>5
    <2>3. QED
      BY <2>1, <2>2
  <1>7. b \in JobRecord /\ Owned(b, i)
    <2>1. CASE j \notin DOMAIN inv
      BY <1>4, <1>6, <2>1
    <2>2. CASE j \in DOMAIN inv /\ Rebuilds(i, j, inv, a)
      BY <1>4, <2>2, SnapshotFacts DEF Owned
    <2>3. CASE j \in DOMAIN inv /\ ~Rebuilds(i, j, inv, a) /\ Present(a)
               /\ TakesSnapshot(i, j, inv, a)
      BY <1>4, <2>3, SnapshotFacts DEF Owned
    <2>4. CASE j \in DOMAIN inv /\ ~Rebuilds(i, j, inv, a)
               /\ ~(Present(a) /\ TakesSnapshot(i, j, inv, a))
      <3>1. b = a
        BY <2>4
      <3>2. ASSUME Present(r), ~IsTerminal(r.life), Transfers(i, j, inv), a = r
            PROVE  FALSE
        <4>1. inv[j].seq >= r.seq
          BY <2>4, <3>2 DEF Preflight
        <4>2. inv[j].seq \in Int /\ r.seq \in Int
          BY <1>1, <2>4 DEF SnapshotLike, Reportable, JobRecord
        <4>3. QED
          BY <2>4, <3>2, <4>1, <4>2 DEF TakesSnapshot
      <3>3. QED
        BY <1>4, <1>6, <3>1, <3>2 DEF Owned
    <2>5. QED
      BY <2>1, <2>2, <2>3, <2>4
  <1>8. IsTerminal(r.life) /\ r.vis # "Cleanup" => b = r
    <2>1. SUFFICES ASSUME IsTerminal(r.life), r.vis # "Cleanup"
                   PROVE  b = r
      OBVIOUS
    <2>2. a = r
      BY <1>2, <1>3, <2>1 DEF DropCleanedUp
    <2>3. Present(a)
      BY <2>1, <2>2 DEF Present, IsTerminal, TerminalStates
    <2>4. QED
      BY <2>1, <2>2, <2>3 DEF Rebuilds, TakesSnapshot
  <1>9. Reconciled(i, inv, late, j) = DropCleanedUp(b)
    BY DEF Reconciled
  <1> HIDE DEF b
  <1>10. Keeps(r, DropCleanedUp(b))
    BY <1>8 DEF DropCleanedUp, Keeps, Present, IsTerminal, TerminalStates
  <1>11. QED
    BY <1>7, <1>9, <1>10, DropCleanedUpFacts

-------------------------------------------------------------------------------
(* Steps. *)

(* A record keeps the verdict it had. *)
Same(j) == jobs'[j].life = jobs[j].life /\ jobs'[j].exec = jobs[j].exec

(* A result answers the pending start request of a Job that had ended. *)
Answered(j) == pend[j] = "sent" /\ IsTerminal(jobs[j].life)

(* What a step may do to a verdict that a client can see: a late result    *)
(* replaces it, and a restart may bring back what was replaced.            *)
VerdictStep ==
    /\ overturned \subseteq overturned'
    /\ \A j \in overturned' \ overturned : Answered(j)
    /\ \A j \in Jobs :
          IsTerminal(jobs[j].life) /\ jobs[j].vis # "Cleanup" /\ Present(jobs'[j]) =>
              \/ Same(j)
              \/ /\ j \in overturned'
                 /\ Answered(j) \/ (jobs'[j].hydrated /\ lease'.inst = NoInst)

(* A step that stores no receipt, removes no public record and replaces no *)
(* verdict: all but late results, retention, the write of a receipt and a  *)
(* restart.                                                                *)
CalmStep ==
    /\ lease'.inst \in Instances \cup {NoInst}
    /\ jobs' \in [Jobs -> JobRecord]
    /\ receipts' = receipts
    /\ overturned' = overturned
    /\ unwritten' \subseteq unwritten \cup Captured(jobs, jobs')
    /\ \A j \in Jobs : Keeps(jobs[j], jobs'[j]) /\ Owned(jobs'[j], lease'.inst)

(* What is captured is typed and vouched for. *)
LEMMA CapturedFacts ==
  ASSUME jobs' \in [Jobs -> JobRecord], NEW e \in Captured(jobs, jobs'), NEW O
  PROVE  /\ e \in [job: Jobs, rec: JobRecord]
         /\ Vouches(e.job, e.rec, jobs'[e.job], O)
  BY DEF Captured, Vouches

(* Calm steps keep the invariant and every verdict. *)
LEMMA CalmPreserves == RecordsInv /\ CalmStep => RecordsInv' /\ VerdictStep
  <1> SUFFICES ASSUME RecordsInv, CalmStep
               PROVE  RecordsInv' /\ VerdictStep
    OBVIOUS
  <1>1. VerdictStep
    BY DEF CalmStep, VerdictStep, Keeps, Same
  <1>2. \A e \in Captured(jobs, jobs') :
            /\ e \in [job: Jobs, rec: JobRecord]
            /\ Vouches(e.job, e.rec, jobs'[e.job], overturned')
    BY CapturedFacts DEF CalmStep
  <1>3. RecordsTyped'
    BY <1>2 DEF CalmStep, RecordsInv, RecordsTyped
  <1>4. ASSUME NEW j \in Jobs, NEW v, Vouches(j, v, jobs[j], overturned)
        PROVE  Vouches(j, v, jobs'[j], overturned')
    BY <1>4 DEF CalmStep, Vouches, Keeps
  <1>5. \A e \in unwritten' : Vouches(e.job, e.rec, jobs'[e.job], overturned')
    <2>1. SUFFICES ASSUME NEW e \in unwritten'
                   PROVE  Vouches(e.job, e.rec, jobs'[e.job], overturned')
      OBVIOUS
    <2>2. CASE e \in unwritten
      <3>1. e.job \in Jobs /\ Vouches(e.job, e.rec, jobs[e.job], overturned)
        BY <2>2 DEF RecordsInv, RecordsTyped
      <3>2. QED
        BY <1>4, <3>1
    <2>3. CASE e \in Captured(jobs, jobs')
      BY <1>2, <2>3
    <2>4. QED
      BY <2>1, <2>2, <2>3 DEF CalmStep
  <1>6. \A j \in Jobs : Present(receipts'[j]) =>
                           Vouches(j, receipts'[j], jobs'[j], overturned')
    BY <1>4 DEF CalmStep, RecordsInv
  <1>7. \A j \in Jobs : Owned(jobs'[j], lease'.inst)
    BY DEF CalmStep
  <1>8. RecordsInv'
    BY <1>3, <1>5, <1>6, <1>7 DEF RecordsInv
  <1>9. QED
    BY <1>1, <1>8

(* A step that changes one record calmly. *)
LEMMA CalmUpdate ==
  ASSUME RecordsInv, NEW k \in Jobs, NEW q \in JobRecord,
         Keeps(jobs[k], q), Owned(q, lease.inst),
         jobs' = [jobs EXCEPT ![k] = q],
         lease'.inst = lease.inst, receipts' = receipts, overturned' = overturned,
         unwritten' = unwritten \/ CaptureReceipts
  PROVE  CalmStep
  <1>1. jobs \in [Jobs -> JobRecord]
    BY DEF RecordsInv, RecordsTyped
  <1>2. \A j \in Jobs : jobs'[j] = IF j = k THEN q ELSE jobs[j]
    BY <1>1
  <1>3. \A j \in Jobs : Keeps(jobs[j], jobs'[j]) /\ Owned(jobs'[j], lease'.inst)
    BY <1>2 DEF Keeps, Owned, RecordsInv, Present, IsTerminal, TerminalStates
  <1>4. QED
    BY <1>1, <1>3 DEF CalmStep, RecordsInv, RecordsTyped, CaptureReceipts

(* A step that touches no record. *)
LEMMA CalmStutter ==
  ASSUME RecordsInv, jobs' = jobs, lease'.inst = lease.inst, receipts' = receipts,
         overturned' = overturned, unwritten' \subseteq unwritten
  PROVE  CalmStep
  <1>1. \A j \in Jobs : Keeps(jobs[j], jobs[j])
    BY DEF Keeps, Present, IsTerminal, TerminalStates
  <1>2. QED
    BY <1>1 DEF CalmStep, RecordsInv, RecordsTyped

(* What the client does is calm. *)
LEMMA ClientCalm == RecordsInv /\ ClientStep => CalmStep
  <1> SUFFICES ASSUME RecordsInv, NEW j \in Jobs,
                      \/ \E vis \in {"Hidden", "Public"} : StartJob(j, vis)
                      \/ \E expired \in BOOLEAN : \/ ReadJob(j, expired)
                                                  \/ StopJob(j, expired)
                                                  \/ PromoteHiddenJob(j, expired)
                      \/ RecordCleanupIntent(j)
                      \/ RemoveProjected(j)
               PROVE  CalmStep
    BY DEF ClientStep
  <1>0. /\ jobs \in [Jobs -> JobRecord] /\ jobs[j] \in JobRecord
        /\ Owned(jobs[j], lease.inst) /\ lease.inst \in Instances \cup {NoInst}
    BY DEF RecordsInv, RecordsTyped
  <1>1. ASSUME NEW vis \in {"Hidden", "Public"}, StartJob(j, vis)
        PROVE  CalmStep
    <2> DEFINE q == [NoJob EXCEPT !.life = "Queued", !.inst = lease.inst, !.vis = vis,
                                  !.candidate = TRUE]
    <2>1. q \in JobRecord /\ q.inst = lease.inst
      BY <1>0, NoJobType DEF JobRecord, Lifecycles, Visibilities
    <2>2. lease.inst \in Instances
      BY <1>0, <1>1 DEF StartJob, CanEnqueue
    <2>3. Keeps(jobs[j], q) /\ Owned(q, lease.inst)
      BY <1>1, <2>1, <2>2
         DEF StartJob, Keeps, Owned, Present, IsTerminal, TerminalStates
    <2>4. QED
      BY <1>1, <2>1, <2>3, CalmUpdate DEF StartJob, runnerVars
  <1>2. ASSUME NEW expired \in BOOLEAN, ReadJob(j, expired)
        PROVE  CalmStep
    BY <1>0, <1>2, RefreshFacts, CalmUpdate DEF ReadJob, runnerVars
  <1>3. ASSUME NEW expired \in BOOLEAN, StopJob(j, expired)
        PROVE  CalmStep
    <2> DEFINE r == Refresh(j, jobs[j], lease.online, expired)
               stopped == StoppedBeforeDispatch(j, r)
               asked == [r EXCEPT !.life = "StopRequested"]
    <2>1. /\ r \in JobRecord /\ Keeps(jobs[j], r) /\ Owned(r, lease.inst)
          /\ IsTerminal(jobs[j].life) => r = jobs[j]
      BY <1>0, RefreshFacts
    <2>2. CASE r.life = "Queued" /\ jobs' = [jobs EXCEPT ![j] = stopped]
      <3>1. stopped \in JobRecord /\ stopped.life = "Stopped"
        BY <2>1 DEF StoppedBeforeDispatch, JobRecord, Lifecycles, ExecutionStates
      <3>2. Keeps(jobs[j], stopped) /\ Owned(stopped, lease.inst)
        BY <2>1, <2>2, <3>1 DEF Keeps, Owned, IsTerminal, TerminalStates
      <3>3. QED
        BY <1>3, <2>2, <3>1, <3>2, CalmUpdate DEF StopJob, runnerVars
    <2>3. CASE r.life \in {"RunnerQueued", "Running"}
               /\ jobs' = [jobs EXCEPT ![j] = asked]
      <3>1. asked \in JobRecord /\ asked.life = "StopRequested" /\ asked.inst = r.inst
        BY <2>1 DEF JobRecord, Lifecycles
      <3>2. Keeps(jobs[j], asked) /\ Owned(asked, lease.inst)
        BY <2>1, <2>3, <3>1 DEF Keeps, Owned, Present, IsTerminal, TerminalStates
      <3>3. QED
        BY <1>3, <2>3, <3>1, <3>2, CalmUpdate DEF StopJob, runnerVars
    <2>4. CASE jobs' = [jobs EXCEPT ![j] = r]
      BY <1>3, <2>1, <2>4, CalmUpdate DEF StopJob, runnerVars
    <2>5. QED
      BY <1>3, <2>2, <2>3, <2>4 DEF StopJob
  <1>4. ASSUME NEW expired \in BOOLEAN, PromoteHiddenJob(j, expired)
        PROVE  CalmStep
    <2> DEFINE r == Refresh(j, jobs[j], lease.online, expired)
               q == IF r.vis = "Hidden" /\ ~IsTerminal(r.life)
                    THEN [r EXCEPT !.vis = "Public"] ELSE r
    <2>1. /\ r \in JobRecord /\ Keeps(jobs[j], r) /\ Owned(r, lease.inst)
          /\ IsTerminal(jobs[j].life) => r = jobs[j]
      BY <1>0, RefreshFacts
    <2>2. q \in JobRecord /\ q.life = r.life /\ q.inst = r.inst /\ q.exec = r.exec
      BY <2>1 DEF JobRecord, Visibilities
    <2>3. IsTerminal(r.life) => q = r
      OBVIOUS
    <2>4. jobs' = [jobs EXCEPT ![j] = q]
      BY <1>4 DEF PromoteHiddenJob
    <2> HIDE DEF q, r
    <2>5. Keeps(jobs[j], q) /\ Owned(q, lease.inst)
      BY <2>1, <2>2, <2>3 DEF Keeps, Owned, Present
    <2>6. QED
      BY <1>4, <2>2, <2>4, <2>5, CalmUpdate DEF PromoteHiddenJob, runnerVars
  <1>5. ASSUME RecordCleanupIntent(j)
        PROVE  CalmStep
    BY <1>5, CalmStutter DEF RecordCleanupIntent, runnerVars
  <1>6. ASSUME RemoveProjected(j)
        PROVE  CalmStep
    <2>1. Keeps(jobs[j], NoJob) /\ Owned(NoJob, lease.inst)
      BY <1>6, NoJobType DEF RemoveProjected, Keeps, Owned
    <2>2. QED
      BY <1>6, <2>1, NoJobType, CalmUpdate DEF RemoveProjected, runnerVars
  <1>7. QED
    BY <1>1, <1>2, <1>3, <1>4, <1>5, <1>6

(* What a Runner may send is well-formed. *)
LEMMA InventoryFacts ==
  ASSUME NEW i \in Instances, NEW inv \in Inventories(i), NEW j \in Jobs, j \in DOMAIN inv
  PROVE  SnapshotLike(inv[j])
  <1>1. PICK D \in SUBSET { k \in Jobs : MaySpeakOf(i, k) } :
            /\ inv \in [D -> UNION { Snapshots(k) : k \in D }]
            /\ \A k \in D : inv[k] \in Snapshots(k)
    BY DEF Inventories
  <1>2. inv[j] \in Snapshots(j)
    BY <1>1
  <1>3. PICK p \in Reports, n \in 1..MaxSeq, b \in BOOLEAN :
            inv[j] = [life |-> p[1], exec |-> p[2], seq |-> n, started |-> b]
    BY <1>2 DEF Snapshots
  <1>4. p[1] \in RunnerActiveStates \cup TerminalStates /\ p[2] \in ExecutionStates
    BY RegistryAssumption
  <1>5. QED
    BY <1>3, <1>4 DEF SnapshotLike, Reportable

(* So is every update. *)
LEMMA UpdateFacts == \A u \in Updates : Reportable(u)
  <1>1. SUFFICES ASSUME NEW p \in Reports, NEW n \in 1..MaxSeq, NEW b \in BOOLEAN
                 PROVE  Reportable([life |-> p[1], exec |-> p[2], seq |-> n,
                                    withLogs |-> b])
    BY DEF Updates
  <1>2. p[1] \in RunnerActiveStates \cup TerminalStates /\ p[2] \in ExecutionStates
    BY RegistryAssumption
  <1>3. QED
    BY <1>2 DEF Reportable

(* A late result replaces the verdict of the one Job it is about, which is *)
(* from then on no longer vouched for.                                     *)
LEMMA OverturnPreserves ==
  ASSUME RecordsInv, NEW k \in Jobs, NEW success, Answered(k),
         jobs' = [jobs EXCEPT ![k] = ResultApplied(jobs[k], success)],
         overturned' = overturned \cup {k},
         lease'.inst = lease.inst, receipts' = receipts, CaptureReceipts
  PROVE  RecordsInv' /\ VerdictStep
  <1>1. /\ jobs \in [Jobs -> JobRecord] /\ jobs[k] \in JobRecord
        /\ receipts \in [Jobs -> JobRecord]
        /\ \A j \in Jobs : Owned(jobs[j], lease.inst)
    BY DEF RecordsInv, RecordsTyped
  <1> DEFINE q == ResultApplied(jobs[k], success)
  <1>2. /\ q \in JobRecord /\ q.vis = jobs[k].vis /\ Owned(q, lease.inst)
        /\ IsTerminal(q.life)
    BY <1>1, ResultFacts DEF Answered, Present, IsTerminal, TerminalStates
  <1>3. \A j \in Jobs : jobs'[j] = IF j = k THEN q ELSE jobs[j]
    BY <1>1
  <1>4. jobs' \in [Jobs -> JobRecord]
    BY <1>1, <1>2
  <1> HIDE DEF q
  <1>5. ASSUME NEW j \in Jobs, NEW v, Vouches(j, v, jobs[j], overturned)
        PROVE  Vouches(j, v, jobs'[j], overturned')
    BY <1>2, <1>3, <1>5 DEF Vouches
  <1>6. \A e \in Captured(jobs, jobs') :
            /\ e \in [job: Jobs, rec: JobRecord]
            /\ Vouches(e.job, e.rec, jobs'[e.job], overturned')
    BY <1>4, CapturedFacts
  <1>7. RecordsTyped'
    BY <1>4, <1>6 DEF RecordsInv, RecordsTyped, CaptureReceipts
  <1>8. \A e \in unwritten' : Vouches(e.job, e.rec, jobs'[e.job], overturned')
    <2>1. SUFFICES ASSUME NEW e \in unwritten'
                   PROVE  Vouches(e.job, e.rec, jobs'[e.job], overturned')
      OBVIOUS
    <2>2. CASE e \in unwritten
      <3>1. e.job \in Jobs /\ Vouches(e.job, e.rec, jobs[e.job], overturned)
        BY <2>2 DEF RecordsInv, RecordsTyped
      <3>2. QED
        BY <1>5, <3>1
    <2>3. CASE e \in Captured(jobs, jobs')
      BY <1>6, <2>3
    <2>4. QED
      BY <2>1, <2>2, <2>3 DEF CaptureReceipts
  <1>9. \A j \in Jobs : Present(receipts'[j]) =>
                           Vouches(j, receipts'[j], jobs'[j], overturned')
    BY <1>5 DEF RecordsInv
  <1>10. \A j \in Jobs : Owned(jobs'[j], lease'.inst)
    BY <1>1, <1>2, <1>3
  <1>11. VerdictStep
    BY <1>3 DEF VerdictStep, Same
  <1>12. QED
    BY <1>7, <1>8, <1>9, <1>10, <1>11 DEF RecordsInv

(* What Runner processes send is calm, but for late results. *)
LEMMA RunnerPreserves == RecordsInv /\ RunnerStep => RecordsInv' /\ VerdictStep
  <1> SUFFICES ASSUME RecordsInv, RunnerStep
               PROVE  RecordsInv' /\ VerdictStep
    OBVIOUS
  <1>0. /\ jobs \in [Jobs -> JobRecord]
        /\ \A j \in Jobs : Owned(jobs[j], lease.inst)
        /\ lease.inst \in Instances \cup {NoInst}
    BY DEF RecordsInv, RecordsTyped
  <1>1. ASSUME NEW i \in Instances, NEW conn \in NewConnection, NEW late,
               NEW inv \in Inventories(i), Register(i, conn, inv, late)
        PROVE  CalmStep
    <2>1. /\ jobs' = [j \in Jobs |-> Reconciled(i, inv, late, j)]
          /\ lease'.inst = i
          /\ Preflight(i, inv)
          /\ receipts' = receipts /\ overturned' = overturned
          /\ unwritten' = unwritten \cup Captured(jobs, jobs')
      BY <1>1 DEF Register, CaptureReceipts
    <2>2. \A j \in Jobs : /\ Reconciled(i, inv, late, j) \in JobRecord
                          /\ Owned(Reconciled(i, inv, late, j), i)
                          /\ Keeps(jobs[j], Reconciled(i, inv, late, j))
      BY <2>1, ReconciledFacts, InventoryFacts
    <2>3. QED
      BY <1>0, <2>1, <2>2 DEF CalmStep
  <1>2. ASSUME NEW s \in sessions, Poll(s)
        PROVE  CalmStep
    <2>0. /\ lease'.inst = lease.inst /\ unwritten' = unwritten
          /\ receipts' = receipts /\ overturned' = overturned
      BY <1>0, <1>2 DEF Poll
    <2>1. CASE jobs' = jobs
      BY <2>0, <2>1, CalmStutter
    <2>2. CASE \E j \in Jobs : jobs' = [jobs EXCEPT ![j] = Dispatched(j, @)]
      <3>1. PICK j \in Jobs : jobs' = [jobs EXCEPT ![j] = Dispatched(j, jobs[j])]
        BY <2>2
      <3>2. jobs[j] \in JobRecord /\ Owned(jobs[j], lease.inst)
        BY <1>0
      <3>3. Dispatched(j, jobs[j]) \in JobRecord
        BY <3>2 DEF Dispatched, JobRecord, Lifecycles
      <3>4. Dispatched(j, jobs[j]).inst = jobs[j].inst
        BY <3>2 DEF Dispatched, JobRecord
      <3>5. jobs[j].life # "Queued" => Dispatched(j, jobs[j]) = jobs[j]
        BY DEF Dispatched
      <3>6. /\ Keeps(jobs[j], Dispatched(j, jobs[j]))
            /\ Owned(Dispatched(j, jobs[j]), lease.inst)
        BY <3>2, <3>4, <3>5 DEF Keeps, Owned, Present, IsTerminal, TerminalStates
      <3>7. QED
        BY <2>0, <3>1, <3>3, <3>6, CalmUpdate
    <2>3. QED
      BY <1>2, <2>1, <2>2 DEF Poll
  <1>3. ASSUME NEW s \in sessions, Touch(s)
        PROVE  CalmStep
    BY <1>0, <1>3, CalmStutter DEF Touch
  <1>4. ASSUME NEW s \in sessions, Disconnect(s)
        PROVE  CalmStep
    <2> DEFINE next(j) == IF jobs[j].life = "Queued" THEN MarkLost(j, jobs[j])
                          ELSE BeginRecovery(jobs[j])
    <2>1. ASSUME NEW j \in Jobs
          PROVE  /\ next(j) \in JobRecord
                 /\ Keeps(jobs[j], next(j))
                 /\ Owned(next(j), lease.inst)
      <3>1. jobs[j] \in JobRecord /\ Owned(jobs[j], lease.inst)
        BY <1>0
      <3>2. CASE jobs[j].life = "Queued"
        BY <3>1, <3>2, MarkLostFacts
      <3>3. CASE jobs[j].life # "Queued"
        <4>1. BeginRecovery(jobs[j]) \in JobRecord
          BY <3>1, BeginRecoveryFacts
        <4>2. IsTerminal(jobs[j].life) => BeginRecovery(jobs[j]) = jobs[j]
          BY DEF BeginRecovery, IsRunnerActive, RunnerActiveStates, IsTerminal,
                 TerminalStates
        <4>3. Keeps(jobs[j], BeginRecovery(jobs[j]))
          BY <4>2 DEF Keeps, Present, IsTerminal, TerminalStates
        <4>4. Owned(BeginRecovery(jobs[j]), lease.inst)
          BY <3>1, BeginRecoveryFacts DEF Owned, Present
        <4>5. QED
          BY <3>3, <4>1, <4>3, <4>4
      <3>4. QED
        BY <3>2, <3>3
    <2>2. /\ jobs' = [j \in Jobs |-> next(j)]
          /\ lease'.inst = lease.inst /\ receipts' = receipts /\ overturned' = overturned
          /\ unwritten' = unwritten \cup Captured(jobs, jobs')
      BY <1>0, <1>4 DEF Disconnect, CaptureReceipts
    <2> HIDE DEF next
    <2>3. QED
      BY <1>0, <2>1, <2>2 DEF CalmStep
  <1>5. ASSUME NEW s \in sessions, NEW j \in Jobs, NEW u \in Updates, UpdateJob(s, j, u)
        PROVE  CalmStep
    <2>1. /\ jobs[j] \in JobRecord /\ Owned(jobs[j], lease.inst)
          /\ lease'.inst = lease.inst /\ receipts' = receipts /\ overturned' = overturned
      BY <1>0, <1>5 DEF UpdateJob
    <2>2. CASE AcceptsUpdate(s.inst, jobs[j], u)
      <3> DEFINE a == ApplyUpdate(j, jobs[j], u)
      <3>1. a \in JobRecord /\ a.inst = jobs[j].inst
        BY <2>1, ApplyUpdateFacts, UpdateFacts
      <3>2. Present(jobs[j]) /\ ~IsTerminal(jobs[j].life)
        BY <2>2 DEF AcceptsUpdate
      <3> HIDE DEF a
      <3>3. Owned(a, lease.inst)
        BY <2>1, <3>1, <3>2 DEF Owned
      <3>4. DropCleanedUp(a) \in JobRecord /\ Owned(DropCleanedUp(a), lease.inst)
        BY <3>1, <3>3, DropCleanedUpFacts
      <3>5. Keeps(jobs[j], DropCleanedUp(a))
        BY <3>2 DEF Keeps
      <3>6. jobs' = [jobs EXCEPT ![j] = DropCleanedUp(a)] /\ CaptureReceipts
        BY <1>5, <2>2 DEF UpdateJob, a
      <3>7. QED
        BY <2>1, <3>4, <3>5, <3>6, CalmUpdate
    <2>3. CASE ~AcceptsUpdate(s.inst, jobs[j], u)
      <3>1. jobs' = jobs /\ CaptureReceipts
        BY <1>5, <2>3 DEF UpdateJob
      <3>2. Captured(jobs, jobs) = {}
        BY DEF Captured
      <3>3. QED
        BY <2>1, <3>1, <3>2, CalmStutter DEF CaptureReceipts
    <2>4. QED
      BY <2>2, <2>3
  <1>6. ASSUME NEW s \in sessions, NEW j \in Jobs, NEW success \in Results,
               CompleteJob(s, j, success)
        PROVE  RecordsInv' /\ VerdictStep
    <2>1. /\ jobs[j] \in JobRecord
          /\ lease'.inst = lease.inst /\ receipts' = receipts /\ CaptureReceipts
      BY <1>0, <1>6 DEF CompleteJob
    <2>2. CASE pend[j] = "sent"
      <3> DEFINE q == ResultApplied(jobs[j], success)
      <3>1. jobs' = [jobs EXCEPT ![j] = q]
        BY <1>6, <2>2 DEF CompleteJob
      <3>2. CASE IsTerminal(jobs[j].life)
        <4>1. overturned' = overturned \cup {j} /\ Answered(j)
          BY <1>6, <2>2, <3>2 DEF CompleteJob, Answered
        <4>2. QED
          BY <2>1, <3>1, <4>1, OverturnPreserves
      <3>3. CASE ~IsTerminal(jobs[j].life)
        <4>1. overturned' = overturned
          BY <1>6, <2>2, <3>3 DEF CompleteJob
        <4>2. q \in JobRecord /\ Owned(q, lease.inst)
          BY <2>1, ResultFacts
        <4>3. Keeps(jobs[j], q)
          BY <3>3 DEF Keeps
        <4> HIDE DEF q
        <4>4. QED
          BY <2>1, <3>1, <4>1, <4>2, <4>3, CalmUpdate, CalmPreserves
      <3>4. QED
        BY <3>2, <3>3
    <2>3. CASE pend[j] # "sent"
      <3>1. jobs' = jobs /\ overturned' = overturned
        BY <1>6, <2>3 DEF CompleteJob
      <3>2. Captured(jobs, jobs) = {}
        BY DEF Captured
      <3>3. QED
        BY <2>1, <3>1, <3>2, CalmStutter, CalmPreserves DEF CaptureReceipts
    <2>4. QED
      BY <2>2, <2>3
  <1>7. QED
    BY <1>1, <1>2, <1>3, <1>4, <1>5, <1>6, CalmPreserves DEF RunnerStep

(* Retention removes a public record together with its receipt. *)
LEMMA PrunePreserves ==
  ASSUME RecordsInv, NEW k \in Jobs, PruneTerminal(k)
  PROVE  RecordsInv' /\ VerdictStep
  <1>1. /\ jobs \in [Jobs -> JobRecord] /\ receipts \in [Jobs -> JobRecord]
        /\ jobs' = [jobs EXCEPT ![k] = NoJob]
        /\ receipts' = [receipts EXCEPT ![k] = NoJob]
        /\ unwritten' = { e \in unwritten : e.job # k }
        /\ lease' = lease /\ overturned' = overturned
    BY DEF RecordsInv, RecordsTyped, PruneTerminal, runnerVars
  <1>2. RecordsTyped'
    BY <1>1, NoJobType DEF RecordsInv, RecordsTyped
  <1>3. \A j \in Jobs : /\ j = k => ~Present(jobs'[j]) /\ ~Present(receipts'[j])
                        /\ j # k => jobs'[j] = jobs[j] /\ receipts'[j] = receipts[j]
    BY <1>1, NoJobType
  <1>4. \A j \in Jobs : Owned(jobs'[j], lease'.inst)
    BY <1>1, <1>3 DEF RecordsInv, Owned
  <1>5. \A j \in Jobs : Present(receipts'[j]) =>
                           Vouches(j, receipts'[j], jobs'[j], overturned')
    BY <1>1, <1>3 DEF RecordsInv
  <1>6. \A e \in unwritten' : Vouches(e.job, e.rec, jobs'[e.job], overturned')
    BY <1>1, <1>3 DEF RecordsInv, RecordsTyped
  <1>7. VerdictStep
    BY <1>1, <1>3 DEF VerdictStep, Same
  <1>8. QED
    BY <1>2, <1>4, <1>5, <1>6, <1>7 DEF RecordsInv

(* The rest of the periodic sweep is calm. *)
LEMMA SweepPreserves == RecordsInv /\ Sweep => RecordsInv' /\ VerdictStep
  <1> SUFFICES ASSUME RecordsInv, Sweep
               PROVE  RecordsInv' /\ VerdictStep
    OBVIOUS
  <1>0. /\ jobs \in [Jobs -> JobRecord]
        /\ \A j \in Jobs : Owned(jobs[j], lease.inst)
        /\ lease.inst \in Instances \cup {NoInst}
    BY DEF RecordsInv, RecordsTyped
  <1>1. ASSUME NEW late, ExpireRecovering(late)
        PROVE  CalmStep
    <2> DEFINE m(j) == IF j \in late THEN MarkLost(j, jobs[j]) ELSE jobs[j]
    <2>1. ASSUME NEW j \in Jobs
          PROVE  /\ DropCleanedUp(m(j)) \in JobRecord
                 /\ Keeps(jobs[j], DropCleanedUp(m(j)))
                 /\ Owned(DropCleanedUp(m(j)), lease.inst)
      <3>1. jobs[j] \in JobRecord /\ Owned(jobs[j], lease.inst)
        BY <1>0
      <3>2. /\ m(j) \in JobRecord
            /\ IsTerminal(jobs[j].life) => m(j) = jobs[j]
            /\ Owned(m(j), lease.inst)
        <4>1. CASE j \in late
          BY <3>1, <4>1, MarkLostFacts DEF MarkLost
        <4>2. CASE j \notin late
          BY <3>1, <4>2
        <4>3. QED
          BY <4>1, <4>2
      <3> HIDE DEF m
      <3>3. /\ DropCleanedUp(m(j)) \in JobRecord
            /\ Keeps(m(j), DropCleanedUp(m(j)))
            /\ Owned(DropCleanedUp(m(j)), lease.inst)
        BY <3>2, DropCleanedUpFacts
      <3>4. Keeps(jobs[j], DropCleanedUp(m(j)))
        BY <3>2, <3>3, KeepsChain
      <3>5. QED
        BY <3>3, <3>4
    <2>2. /\ jobs' = [j \in Jobs |-> DropCleanedUp(m(j))]
          /\ lease' = lease /\ receipts' = receipts /\ overturned' = overturned
          /\ unwritten' = unwritten \cup Captured(jobs, jobs')
      BY <1>1 DEF ExpireRecovering, CaptureReceipts, runnerVars
    <2> HIDE DEF m
    <2>3. QED
      BY <1>0, <2>1, <2>2 DEF CalmStep
  <1>2. ASSUME NEW j \in Jobs, ForgetSuppression(j)
        PROVE  CalmStep
    BY <1>2, CalmStutter DEF ForgetSuppression, runnerVars
  <1>3. ASSUME NEW j \in Jobs, NEW expired \in BOOLEAN, CancelHiddenJob(j, expired)
        PROVE  CalmStep
    <2> DEFINE r == Refresh(j, jobs[j], lease.online, expired)
               stop == [r EXCEPT !.vis = "Cleanup", !.life = "StopRequested"]
               wait == [r EXCEPT !.vis = "Cleanup"]
    <2>0. /\ lease' = lease /\ receipts' = receipts /\ overturned' = overturned
          /\ CaptureReceipts
      BY <1>3 DEF CancelHiddenJob, runnerVars
    <2>1. jobs[j] \in JobRecord /\ Owned(jobs[j], lease.inst)
      BY <1>0
    <2>2. /\ r \in JobRecord /\ Keeps(jobs[j], r) /\ Owned(r, lease.inst)
          /\ r.vis = jobs[j].vis
          /\ IsTerminal(jobs[j].life) => r = jobs[j]
      BY <2>1, RefreshFacts
    <2>3. CASE jobs' = [jobs EXCEPT ![j] = r]
      BY <2>0, <2>2, <2>3, CalmUpdate
    <2>4. CASE r.vis # "Public" /\ jobs' = [jobs EXCEPT ![j] = NoJob]
      <3>1. Keeps(jobs[j], NoJob) /\ Owned(NoJob, lease.inst)
        BY <2>2, <2>4, NoJobType DEF Keeps, Owned
      <3>2. QED
        BY <2>0, <2>4, <3>1, NoJobType, CalmUpdate
    <2>5. CASE Present(r) /\ IsRunnerActive(r.life) /\ jobs' = [jobs EXCEPT ![j] = stop]
      <3>1. stop \in JobRecord /\ stop.inst = r.inst
        BY <2>2 DEF JobRecord, Lifecycles, Visibilities
      <3>2. ~IsTerminal(r.life)
        BY <2>5 DEF IsRunnerActive, RunnerActiveStates, IsTerminal, TerminalStates
      <3>3. Keeps(jobs[j], stop) /\ Owned(stop, lease.inst)
        BY <2>2, <2>5, <3>1, <3>2 DEF Keeps, Owned
      <3>4. QED
        BY <2>0, <2>5, <3>1, <3>3, CalmUpdate
    <2>6. CASE Present(r) /\ IsRunnerActive(r.life) /\ jobs' = [jobs EXCEPT ![j] = wait]
      <3>1. wait \in JobRecord /\ wait.inst = r.inst
        BY <2>2 DEF JobRecord, Visibilities
      <3>2. ~IsTerminal(r.life)
        BY <2>6 DEF IsRunnerActive, RunnerActiveStates, IsTerminal, TerminalStates
      <3>3. Keeps(jobs[j], wait) /\ Owned(wait, lease.inst)
        BY <2>2, <2>6, <3>1, <3>2 DEF Keeps, Owned
      <3>4. QED
        BY <2>0, <2>6, <3>1, <3>3, CalmUpdate
    <2>7. QED
      BY <1>3, <2>3, <2>4, <2>5, <2>6
         DEF CancelHiddenJob, IsRunnerActive, RunnerActiveStates
  <1>4. ASSUME ExpireLease
        PROVE  CalmStep
    <2>1. /\ jobs' = [j \in Jobs |-> MarkLost(j, jobs[j])]
          /\ lease' = NoLease /\ receipts' = receipts /\ overturned' = overturned
          /\ unwritten' = unwritten \cup Captured(jobs, jobs')
      BY <1>4 DEF ExpireLease, CaptureReceipts
    <2>2. \A j \in Jobs : /\ MarkLost(j, jobs[j]) \in JobRecord
                          /\ Keeps(jobs[j], MarkLost(j, jobs[j]))
                          /\ Owned(MarkLost(j, jobs[j]), NoLease.inst)
      BY <1>0, MarkLostFacts
    <2>3. QED
      BY <2>1, <2>2 DEF CalmStep, NoLease
  <1>5. QED
    BY <1>1, <1>2, <1>3, <1>4, CalmPreserves, PrunePreserves DEF Sweep

(* The first row of a Job that is stored is what the record says. *)
LEMMA StoragePreserves == RecordsInv /\ StorageStep => RecordsInv' /\ VerdictStep
  <1> SUFFICES ASSUME RecordsInv, NEW e \in unwritten,
                      LoseReceipt(e) \/ \E evicted \in SUBSET Jobs : WriteReceipt(e, evicted)
               PROVE  RecordsInv' /\ VerdictStep
    BY DEF StorageStep
  <1>1. CASE LoseReceipt(e)
    BY <1>1, CalmStutter, CalmPreserves DEF LoseReceipt, runnerVars
  <1>2. ASSUME NEW evicted \in SUBSET Jobs, WriteReceipt(e, evicted)
        PROVE  RecordsInv' /\ VerdictStep
    <2> DEFINE rows == IF Present(receipts[e.job]) THEN receipts
                       ELSE [receipts EXCEPT ![e.job] = e.rec]
    <2>1. /\ jobs' = jobs /\ lease' = lease /\ overturned' = overturned
          /\ unwritten' = unwritten \ {e}
          /\ receipts' = [j \in Jobs |-> IF j \in evicted THEN NoJob ELSE rows[j]]
      BY <1>2 DEF WriteReceipt, runnerVars
    <2>2. /\ e.job \in Jobs /\ e.rec \in JobRecord
          /\ Vouches(e.job, e.rec, jobs[e.job], overturned)
          /\ receipts \in [Jobs -> JobRecord]
      BY DEF RecordsInv, RecordsTyped
    <2>3. rows \in [Jobs -> JobRecord]
      BY <2>2
    <2>4. \A j \in Jobs : Present(rows[j]) => Vouches(j, rows[j], jobs[j], overturned)
      BY <2>2 DEF RecordsInv
    <2> HIDE DEF rows
    <2>5. RecordsTyped'
      BY <2>1, <2>3, NoJobType DEF RecordsInv, RecordsTyped
    <2>6. \A j \in Jobs : Present(receipts'[j]) =>
                             Vouches(j, receipts'[j], jobs'[j], overturned')
      BY <2>1, <2>4, NoJobType
    <2>7. \A d \in unwritten' : Vouches(d.job, d.rec, jobs'[d.job], overturned')
      BY <2>1 DEF RecordsInv
    <2>8. QED
      BY <2>1, <2>5, <2>6, <2>7 DEF RecordsInv, VerdictStep, Same
  <1>3. QED
    BY <1>1, <1>2

(* A restart brings back the verdicts of the stored receipts only. *)
LEMMA RestartPreserves == RecordsInv /\ Restart => RecordsInv' /\ VerdictStep
  <1> SUFFICES ASSUME RecordsInv, Restart
               PROVE  RecordsInv' /\ VerdictStep
    OBVIOUS
  <1>1. /\ jobs' = [j \in Jobs |-> Hydrated(receipts[j])]
        /\ lease' = NoLease /\ receipts' = receipts /\ unwritten' = {}
        /\ overturned' = overturned
    BY DEF Restart
  <1>2. ASSUME NEW j \in Jobs
        PROVE  /\ Hydrated(receipts[j]) \in JobRecord
               /\ Present(Hydrated(receipts[j])) <=> Present(receipts[j])
               /\ Present(receipts[j]) =>
                      /\ Hydrated(receipts[j]).vis = "Public"
                      /\ Hydrated(receipts[j]).life = receipts[j].life
                      /\ Hydrated(receipts[j]).exec = receipts[j].exec
                      /\ Hydrated(receipts[j]).hydrated
    <2>1. receipts[j] \in JobRecord
      BY DEF RecordsInv, RecordsTyped
    <2>2. CASE Present(receipts[j])
      <3> DEFINE q == [receipts[j] EXCEPT !.vis = "Public", !.recovering = FALSE,
                                          !.candidate = FALSE, !.hydrated = TRUE]
      <3>1. Hydrated(receipts[j]) = q
        BY <2>2 DEF Hydrated
      <3>2. /\ q \in JobRecord /\ q.vis = "Public" /\ q.life = receipts[j].life
            /\ q.exec = receipts[j].exec /\ q.hydrated
        BY <2>1 DEF JobRecord, Visibilities
      <3>3. QED
        BY <2>2, <3>1, <3>2 DEF Present
    <2>3. CASE ~Present(receipts[j])
      BY <2>3, NoJobType DEF Hydrated
    <2>4. QED
      BY <2>2, <2>3
  <1>3. RecordsTyped'
    BY <1>1, <1>2 DEF RecordsInv, RecordsTyped, NoLease
  <1>4. \A j \in Jobs : Present(receipts[j]) =>
                           Vouches(j, receipts[j], jobs'[j], overturned)
    BY <1>1, <1>2 DEF RecordsInv, Vouches
  <1>5. \A j \in Jobs : Owned(jobs'[j], lease'.inst)
    BY <1>1, <1>2, <1>4 DEF Owned, Vouches
  <1>6. VerdictStep
    BY <1>1, <1>2 DEF RecordsInv, Vouches, VerdictStep, Same, NoLease
  <1>7. QED
    BY <1>1, <1>3, <1>4, <1>5, <1>6 DEF RecordsInv

-------------------------------------------------------------------------------
(* The theorems about records and receipts. *)

(* Initially there are no records. *)
LEMMA RecordsInit == Init => RecordsInv
  BY NoJobType DEF Init, RecordsInv, RecordsTyped, NoLease, Owned

(* The invariant is inductive, and no step changes a verdict. *)
LEMMA RecordsNext == RecordsInv /\ [Next]_vars => RecordsInv' /\ (VerdictStep \/ UNCHANGED vars)
  <1> SUFFICES ASSUME RecordsInv, [Next]_vars
               PROVE  RecordsInv' /\ (VerdictStep \/ UNCHANGED vars)
    OBVIOUS
  <1>1. CASE RunnerStep
    BY <1>1, RunnerPreserves
  <1>2. CASE ClientStep
    BY <1>2, ClientCalm, CalmPreserves
  <1>3. CASE Sweep
    BY <1>3, SweepPreserves
  <1>4. CASE StorageStep
    BY <1>4, StoragePreserves
  <1>5. CASE GoStale
    <2>1. lease'.inst = lease.inst
      BY <1>5 DEF GoStale
    <2>2. QED
      BY <1>5, <2>1, CalmStutter, CalmPreserves DEF GoStale
  <1>6. CASE Restart
    BY <1>6, RestartPreserves
  <1>7. CASE UNCHANGED vars
    BY <1>7 DEF vars, RecordsInv, RecordsTyped
  <1>8. QED
    BY <1>1, <1>2, <1>3, <1>4, <1>5, <1>6, <1>7 DEF Next

(* The invariant holds in every reachable state. *)
THEOREM RecordsInvariant == Spec => []RecordsInv
  <1>1. RecordsInv /\ [Next]_vars => RecordsInv'
    BY RecordsNext
  <1>2. QED
    BY <1>1, RecordsInit, PTL DEF Spec

(* Every Job that has not ended belongs to the process that holds the      *)
(* lease, however processes replace each other, sessions disconnect and    *)
(* the Server restarts.                                                    *)
THEOREM OwnershipSafe == Spec => []ActiveJobsOwnedByLease
  <1>1. RecordsInv => ActiveJobsOwnedByLease
    BY DEF RecordsInv, Owned, ActiveJobsOwnedByLease
  <1>2. QED
    BY <1>1, RecordsInvariant, PTL

(* A stored receipt never disagrees with the record of its Job, although   *)
(* it is written after the registry was unlocked.                          *)
THEOREM ReceiptsSafe == Spec => []ReceiptAgrees
  <1>1. RecordsInv => ReceiptAgrees
    BY DEF RecordsInv, Vouches, ReceiptAgrees, Present, IsTerminal, TerminalStates
  <1>2. QED
    BY <1>1, RecordsInvariant, PTL

(* No step changes a verdict that a client can see, unless a late result   *)
(* replaced it.                                                            *)
THEOREM VerdictsSafe == Spec => VerdictFinal
  <1> DEFINE Verdict == \A j \in Jobs \ overturned' :
          IsTerminal(jobs[j].life) /\ jobs[j].vis # "Cleanup" /\ Present(jobs'[j]) =>
              /\ jobs'[j].life = jobs[j].life
              /\ jobs'[j].exec = jobs[j].exec
  <1>1. RecordsInv /\ [Next]_vars => [Verdict]_vars
    BY RecordsNext DEF VerdictStep, Same
  <1>2. VerdictFinal <=> [][Verdict]_vars
    BY DEF VerdictFinal
  <1> HIDE DEF Verdict
  <1>3. QED
    BY <1>1, <1>2, RecordsInvariant, PTL DEF Spec

-------------------------------------------------------------------------------
(* Dispatch at most once. *)

(* A Job that was handed out is no longer waiting to be, and a Job that    *)
(* was never admitted neither waits nor was handed out.                    *)
DispatchInv ==
    /\ pend \in [Jobs -> {"none", "queued", "sent"}]
    /\ handed \in [Jobs -> SUBSET { s.inst : s \in sessions }]
    /\ \A j \in Jobs : \/ handed[j] = {}
                       \/ pend[j] # "queued" /\ \E i : handed[j] = {i}
    /\ \A j \in Jobs \ known : handed[j] = {} /\ pend[j] # "queued"

(* A step that hands out nothing and queues no start request. *)
QuietStep ==
    /\ pend' \in [Jobs -> {"none", "queued", "sent"}]
    /\ handed' = handed
    /\ sessions \subseteq sessions'
    /\ known \subseteq known'
    /\ \A j \in Jobs : pend'[j] \in {"none", pend[j]}

(* Quiet steps keep the invariant. *)
LEMMA QuietPreserves == DispatchInv /\ QuietStep => DispatchInv'
  <1>1. QuietStep => \A j \in Jobs : pend'[j] = "queued" => pend[j] = "queued"
    BY DEF QuietStep
  <1>2. QED
    BY <1>1 DEF DispatchInv, QuietStep

(* Every step but admission and dispatch is quiet. *)
LEMMA DispatchNext == DispatchInv /\ [Next]_vars => DispatchInv'
  <1> SUFFICES ASSUME DispatchInv, [Next]_vars
               PROVE  DispatchInv'
    OBVIOUS
  <1> USE DEF runnerVars
  <1>0. pend \in [Jobs -> {"none", "queued", "sent"}]
    BY DEF DispatchInv
  <1>1. ASSUME NEW j \in Jobs, NEW vis, StartJob(j, vis)
        PROVE  DispatchInv'
    BY <1>1 DEF StartJob, DispatchInv
  <1>2. ASSUME NEW s \in sessions, Poll(s)
        PROVE  DispatchInv'
    <2>1. CASE UNCHANGED <<pend, handed>>
      BY <1>0, <1>2, <2>1, QuietPreserves DEF Poll, QuietStep
    <2>2. ASSUME NEW j \in Jobs, pend[j] = "queued", pend' = [pend EXCEPT ![j] = "sent"],
                 handed' = [handed EXCEPT ![j] = @ \cup {s.inst}]
          PROVE  DispatchInv'
      <3>1. handed[j] = {} /\ j \in known
        BY <2>2 DEF DispatchInv
      <3>2. known' = known /\ sessions' = sessions
        BY <1>2 DEF Poll
      <3>3. handed' = [handed EXCEPT ![j] = {s.inst}]
        BY <2>2, <3>1
      <3>4. handed' \in [Jobs -> SUBSET { r.inst : r \in sessions' }]
        <4>1. {s.inst} \in SUBSET { r.inst : r \in sessions }
          OBVIOUS
        <4>2. handed \in [Jobs -> SUBSET { r.inst : r \in sessions }]
          BY DEF DispatchInv
        <4> DEFINE R == SUBSET { r.inst : r \in sessions }
        <4> HIDE DEF R
        <4>3. [handed EXCEPT ![j] = {s.inst}] \in [Jobs -> R]
          BY <4>1, <4>2 DEF R
        <4>4. QED
          BY <3>2, <3>3, <4>3 DEF R
      <3>5. pend' \in [Jobs -> {"none", "queued", "sent"}]
        BY <1>0, <2>2
      <3>6. \A k \in Jobs : /\ k # j => handed'[k] = handed[k] /\ pend'[k] = pend[k]
                            /\ k = j => handed'[k] = {s.inst} /\ pend'[k] = "sent"
        BY <1>0, <2>2, <3>3 DEF DispatchInv
      <3>7. \A k \in Jobs : \/ handed'[k] = {}
                            \/ pend'[k] # "queued" /\ \E i : handed'[k] = {i}
        BY <3>6 DEF DispatchInv
      <3>8. \A k \in Jobs \ known' : handed'[k] = {} /\ pend'[k] # "queued"
        BY <3>1, <3>2, <3>6 DEF DispatchInv
      <3>9. QED
        BY <3>4, <3>5, <3>7, <3>8 DEF DispatchInv
    <2>3. QED
      BY <1>2, <2>1, <2>2 DEF Poll
  <1>3. ASSUME NEW i, NEW conn, NEW inv, NEW late, Register(i, conn, inv, late)
        PROVE  QuietStep
    BY <1>0, <1>3 DEF Register, QuietStep
  <1>4. ASSUME NEW s \in sessions, Touch(s) \/ Disconnect(s)
        PROVE  QuietStep
    BY <1>0, <1>4 DEF Touch, Disconnect, QuietStep
  <1>5. ASSUME NEW s \in sessions, NEW j \in Jobs, NEW u, UpdateJob(s, j, u)
        PROVE  QuietStep
    BY <1>0, <1>5 DEF UpdateJob, QuietStep
  <1>16. ASSUME NEW s \in sessions, NEW j \in Jobs, NEW success, CompleteJob(s, j, success)
         PROVE  QuietStep
    BY <1>0, <1>16 DEF CompleteJob, QuietStep
  <1>6. ASSUME NEW j \in Jobs, NEW e \in BOOLEAN,
               \/ ReadJob(j, e) \/ StopJob(j, e) \/ PromoteHiddenJob(j, e)
               \/ RecordCleanupIntent(j) \/ RemoveProjected(j)
        PROVE  QuietStep
    <2>1. \/ pend' = pend \/ pend' = [pend EXCEPT ![j] = "none"]
      BY <1>6 DEF ReadJob, StopJob, PromoteHiddenJob, RecordCleanupIntent,
                  RemoveProjected, DropStartRequest
    <2>2. UNCHANGED <<handed, sessions, known>>
      BY <1>6 DEF ReadJob, StopJob, PromoteHiddenJob, RecordCleanupIntent, RemoveProjected
    <2>3. QED
      BY <1>0, <2>1, <2>2 DEF QuietStep
  <1>7. ASSUME NEW S, ExpireRecovering(S) \/ (ExpireLease /\ S = {})
        PROVE  QuietStep
    BY <1>0, <1>7 DEF ExpireRecovering, ExpireLease, DropRequestsOf, QuietStep
  <1>8. ASSUME NEW j \in Jobs, NEW e \in BOOLEAN,
               PruneTerminal(j) \/ ForgetSuppression(j) \/ CancelHiddenJob(j, e)
        PROVE  QuietStep
    <2>1. \/ pend' = pend \/ pend' = [pend EXCEPT ![j] = "none"]
          \/ pend' = [k \in Jobs |-> IF k \in {j} THEN "none" ELSE pend[k]]
      BY <1>8 DEF PruneTerminal, ForgetSuppression, CancelHiddenJob, DropStartRequest,
                  DropRequestsOf
    <2>2. UNCHANGED <<handed, sessions, known>>
      BY <1>8 DEF PruneTerminal, ForgetSuppression, CancelHiddenJob
    <2>3. QED
      BY <1>0, <2>1, <2>2 DEF QuietStep
  <1>9. ASSUME NEW e, LoseReceipt(e) \/ \E evicted : WriteReceipt(e, evicted)
        PROVE  QuietStep
    BY <1>0, <1>9 DEF LoseReceipt, WriteReceipt, QuietStep
  <1>10. ASSUME GoStale \/ Restart \/ UNCHANGED vars
         PROVE  QuietStep
    BY <1>0, <1>10 DEF GoStale, Restart, vars, QuietStep
  <1>11. CASE RunnerStep
    BY <1>11, <1>2, <1>3, <1>4, <1>5, <1>16, QuietPreserves DEF RunnerStep
  <1>12. CASE ClientStep
    BY <1>12, <1>1, <1>6, QuietPreserves DEF ClientStep
  <1>13. CASE Sweep
    BY <1>13, <1>7, <1>8, QuietPreserves DEF Sweep
  <1>14. CASE StorageStep
    BY <1>14, <1>9, QuietPreserves DEF StorageStep
  <1>15. QED
    BY <1>10, <1>11, <1>12, <1>13, <1>14, QuietPreserves DEF Next

(* The invariant gives the property. *)
LEMMA HandedOnce == ASSUME DispatchInv PROVE HandedOutAtMostOnce
  <1> SUFFICES ASSUME NEW j \in Jobs
               PROVE  /\ Cardinality(handed[j]) <= 1
                      /\ handed[j] # {} => pend[j] # "queued"
    BY DEF HandedOutAtMostOnce
  <1>1. CASE handed[j] = {}
    BY <1>1, FS_EmptySet
  <1>2. CASE pend[j] # "queued" /\ \E i : handed[j] = {i}
    <2>1. PICK i : handed[j] = {i}
      BY <1>2
    <2>2. Cardinality({i}) = 1
      BY FS_Singleton
    <2>3. QED
      BY <1>2, <2>1, <2>2
  <1>3. QED
    BY <1>1, <1>2 DEF DispatchInv

(* A Job's start request is handed to at most one Runner process, and is   *)
(* never queued again afterwards.                                          *)
THEOREM DispatchSafe == Spec => []HandedOutAtMostOnce
  <1>1. Init => DispatchInv
    BY DEF Init, DispatchInv
  <1>2. DispatchInv => HandedOutAtMostOnce
    BY HandedOnce
  <1>3. QED
    BY <1>1, <1>2, DispatchNext, PTL DEF Spec

-------------------------------------------------------------------------------
(* The request queue. *)

(* The start request of a Job, as the queue holds it. *)
Start(j) == [kind |-> "start", job |-> j]

(* The places of a queue that hold a request, and how many they are. *)
Places(q, r) == { k \in 1..Len(q) : q[k] = r }
Count(q, r) == Cardinality(Places(q, r))

(* Finitely many places hold a request. *)
LEMMA PlacesFinite ==
  ASSUME NEW q \in Seq(Request), NEW r
  PROVE  IsFiniteSet(Places(q, r)) /\ Count(q, r) \in Nat
  <1>1. IsFiniteSet(1..Len(q))
    BY FS_Interval
  <1>2. IsFiniteSet(Places(q, r))
    BY <1>1, FS_Subset DEF Places
  <1>3. QED
    BY <1>2, FS_CardinalityType DEF Count

(* The members of a set of numbers, each with how many there are up to it. *)
Ranks(S) == [k \in S |-> Cardinality({ l \in S : l <= k })]

(* Among finitely many numbers, counting the ones up to each numbers them  *)
(* from 1 on without a gap.                                                *)
LEMMA RankBijection ==
  ASSUME NEW S \in SUBSET Nat, IsFiniteSet(S)
  PROVE  /\ Cardinality(S) \in Nat
         /\ Ranks(S) \in [S -> 1..Cardinality(S)]
         /\ \A k, l \in S : Ranks(S)[k] = Ranks(S)[l] => k = l
         /\ \A n \in 1..Cardinality(S) : \E k \in S : Ranks(S)[k] = n
  <1> DEFINE upto(k) == { l \in S : l <= k }
             rank == [k \in S |-> Cardinality(upto(k))]
             c == Cardinality(S)
  <1>1. c \in Nat
    BY FS_CardinalityType
  <1>2. ASSUME NEW k \in S
        PROVE  /\ IsFiniteSet(upto(k)) /\ Cardinality(upto(k)) \in 1..c
    <2>1. upto(k) \in SUBSET S /\ k \in upto(k)
      OBVIOUS
    <2> HIDE DEF upto
    <2>2. IsFiniteSet(upto(k)) /\ Cardinality(upto(k)) <= c
      BY <2>1, FS_Subset
    <2>3. Cardinality(upto(k)) \in Nat /\ Cardinality(upto(k)) # 0
      BY <2>1, <2>2, FS_CardinalityType, FS_EmptySet
    <2>4. QED
      BY <1>1, <2>2, <2>3
  <1>3. ASSUME NEW k \in S, NEW l \in S, k < l
        PROVE  Cardinality(upto(k)) # Cardinality(upto(l))
    <2>1. k \in Nat /\ l \in Nat /\ \A m \in S : m \in Nat
      OBVIOUS
    <2>2. \A m \in S : m <= k => m <= l
      BY <1>3, <2>1
    <2>3. ~(l <= k) /\ l <= l
      BY <1>3, <2>1
    <2>4. upto(k) \in SUBSET upto(l) /\ l \in upto(l) /\ l \notin upto(k)
      BY <2>2, <2>3
    <2> HIDE DEF upto
    <2>5. QED
      BY <1>2, <2>4, FS_Subset
  <1>4. \A k \in S : rank[k] = Cardinality(upto(k))
    OBVIOUS
  <1>5. rank \in [S -> 1..c]
    BY <1>2
  <1> HIDE DEF upto
  <1>6. \A k, l \in S : rank[k] = rank[l] => k = l
    <2> SUFFICES ASSUME NEW k \in S, NEW l \in S, rank[k] = rank[l], k # l
                 PROVE  FALSE
      OBVIOUS
    <2>1. k < l \/ l < k
      OBVIOUS
    <2>2. QED
      BY <1>3, <1>4, <2>1
  <1> HIDE DEF rank
  <1>7. \A n \in 1..c : \E k \in S : rank[k] = n
    <2>1. rank \in Injection(S, 1..c)
      BY <1>5, <1>6 DEF Injection, IsInjective
    <2>2. IsFiniteSet(1..c) /\ Cardinality(1..c) = c
      BY <1>1, FS_Interval
    <2>3. rank \in Surjection(S, 1..c)
      BY <2>1, <2>2, FS_Injection
    <2>4. QED
      BY <2>3 DEF Surjection
  <1>8. QED
    BY <1>1, <1>5, <1>6, <1>7 DEF rank, upto, Ranks

(* What retaining the requests in K leaves: a queue that is not longer,    *)
(* every request of K as often as before and no other one.                 *)
LEMMA RetainedFacts ==
  ASSUME NEW q \in Seq(Request), NEW K \in SUBSET Request
  PROVE  /\ Retained(q, K) \in Seq(Request)
         /\ Len(Retained(q, K)) <= Len(q)
         /\ \A r \in K : Count(Retained(q, K), r) = Count(q, r)
         /\ \A r : r \notin K => Count(Retained(q, K), r) = 0
  <1> DEFINE kept == { k \in 1..Len(q) : q[k] \in K }
             c == Cardinality(kept)
             rank == [k \in kept |-> Cardinality({ l \in kept : l <= k })]
             pos == [n \in 1..c |-> CHOOSE k \in kept :
                                           Cardinality({ l \in kept : l <= k }) = n]
             s == Retained(q, K)
  <1>0. Len(q) \in Nat
    OBVIOUS
  <1>1. IsFiniteSet(1..Len(q)) /\ Cardinality(1..Len(q)) = Len(q)
    BY <1>0, FS_Interval
  <1>2. kept \in SUBSET (1..Len(q)) /\ kept \in SUBSET Nat
    OBVIOUS
  <1>3. IsFiniteSet(kept) /\ c <= Len(q)
    BY <1>1, <1>2, FS_Subset
  <1>4. /\ c \in Nat
        /\ rank \in [kept -> 1..c]
        /\ \A k, l \in kept : rank[k] = rank[l] => k = l
        /\ \A n \in 1..c : \E k \in kept : rank[k] = n
    BY <1>2, <1>3, RankBijection DEF Ranks
  <1>5. s = [n \in 1..c |-> q[CHOOSE k \in kept : Cardinality({ l \in kept : l <= k }) = n]]
    BY DEF Retained
  <1>6. \A k \in kept : rank[k] = Cardinality({ l \in kept : l <= k })
    OBVIOUS
  <1>7. \A k \in kept : k \in 1..Len(q) /\ q[k] \in K
    OBVIOUS
  <1>17. \A k \in 1..Len(q) : q[k] \in K => k \in kept
    OBVIOUS
  <1>8. s = [n \in 1..c |-> q[pos[n]]]
    BY <1>5
  <1> HIDE DEF kept, rank
  <1>9. \A n \in 1..c : pos[n] \in kept /\ rank[pos[n]] = n
    BY <1>4, <1>6
  <1> HIDE DEF pos, c, s
  <1>10. \A k \in kept : rank[k] \in 1..c /\ pos[rank[k]] = k
    BY <1>4, <1>9
  <1>11. \A n \in 1..c : s[n] = q[pos[n]] /\ s[n] \in K
    BY <1>7, <1>8, <1>9
  <1>12. s \in Seq(Request) /\ Len(s) = c
    BY <1>4, <1>8, <1>11
  <1>13. ASSUME NEW r \in K
         PROVE  Count(s, r) = Count(q, r)
    <2> DEFINE f == [n \in Places(s, r) |-> pos[n]]
    <2>1. \A n \in Places(s, r) : f[n] \in Places(q, r) /\ n \in 1..c /\ f[n] = pos[n]
      BY <1>7, <1>9, <1>11, <1>12 DEF Places
    <2>2. \A n, m \in Places(s, r) : f[n] = f[m] => n = m
      BY <1>9, <2>1
    <2>3. \A k \in Places(q, r) : \E n \in Places(s, r) : f[n] = k
      <3> SUFFICES ASSUME NEW k \in Places(q, r)
                   PROVE  \E n \in Places(s, r) : f[n] = k
        OBVIOUS
      <3>1. k \in kept
        BY <1>17 DEF Places
      <3>2. rank[k] \in Places(s, r)
        BY <1>10, <1>11, <1>12, <3>1 DEF Places
      <3>3. QED
        BY <1>10, <2>1, <3>1, <3>2
    <2>4. f \in Bijection(Places(s, r), Places(q, r))
      BY <2>1, <2>2, <2>3 DEF Bijection, Injection, IsInjective, Surjection
    <2>5. QED
      BY <1>12, <2>4, PlacesFinite, FS_Bijection DEF ExistsBijection, Count
  <1>14. ASSUME NEW r, r \notin K
         PROVE  Count(s, r) = 0
    <2>1. Places(s, r) = {}
      BY <1>11, <1>12, <1>14 DEF Places
    <2>2. QED
      BY <2>1, FS_EmptySet DEF Count
  <1>15. QED
    BY <1>3, <1>12, <1>13, <1>14 DEF s, c

(* A request that is added stands once more. *)
LEMMA AppendFacts ==
  ASSUME NEW q \in Seq(Request), NEW x \in Request
  PROVE  /\ Append(q, x) \in Seq(Request)
         /\ Len(Append(q, x)) = Len(q) + 1
         /\ \A r : Count(Append(q, x), r) = IF r = x THEN Count(q, r) + 1 ELSE Count(q, r)
  <1>1. Append(q, x) \in Seq(Request) /\ Len(Append(q, x)) = Len(q) + 1
    OBVIOUS
  <1>2. ASSUME NEW r
        PROVE  Count(Append(q, x), r) = IF r = x THEN Count(q, r) + 1 ELSE Count(q, r)
    <2>1. CASE r # x
      <3>1. Places(Append(q, x), r) = Places(q, r)
        BY <2>1 DEF Places
      <3>2. QED
        BY <2>1, <3>1 DEF Count
    <2>2. CASE r = x
      <3>1. Places(Append(q, x), r) = Places(q, r) \cup {Len(q) + 1}
        BY <2>2 DEF Places
      <3>2. Len(q) + 1 \notin Places(q, r)
        BY DEF Places
      <3>3. QED
        BY <2>2, <3>1, <3>2, PlacesFinite, FS_AddElement DEF Count
    <2>3. QED
      BY <2>1, <2>2
  <1>3. QED
    BY <1>1, <1>2

(* The request that leaves at the front stands once less. *)
LEMMA TailFacts ==
  ASSUME NEW q \in Seq(Request), q # <<>>
  PROVE  /\ Tail(q) \in Seq(Request)
         /\ Len(Tail(q)) = Len(q) - 1
         /\ \A r : Count(Tail(q), r) = IF r = Head(q) THEN Count(q, r) - 1 ELSE Count(q, r)
  <1>1. /\ Tail(q) \in Seq(Request) /\ Len(Tail(q)) = Len(q) - 1
        /\ Len(q) \in Nat \ {0} /\ Head(q) = q[1]
        /\ \A k \in 1..(Len(q) - 1) : Tail(q)[k] = q[k + 1]
    OBVIOUS
  <1>2. ASSUME NEW r
        PROVE  Count(Tail(q), r) = IF r = Head(q) THEN Count(q, r) - 1 ELSE Count(q, r)
    <2> DEFINE f == [k \in Places(Tail(q), r) |-> k + 1]
               rest == Places(q, r) \ {1}
    <2>1. \A k \in Places(Tail(q), r) : k \in 1..(Len(q) - 1) /\ f[k] = k + 1 /\ f[k] \in rest
      BY <1>1 DEF Places
    <2>2. \A k, l \in Places(Tail(q), r) : f[k] = f[l] => k = l
      BY <2>1
    <2>3. \A m \in rest : \E k \in Places(Tail(q), r) : f[k] = m
      <3> SUFFICES ASSUME NEW m \in rest
                   PROVE  \E k \in Places(Tail(q), r) : f[k] = m
        OBVIOUS
      <3>1. m - 1 \in Places(Tail(q), r) /\ (m - 1) + 1 = m
        BY <1>1 DEF Places
      <3>2. QED
        BY <2>1, <3>1
    <2>4. f \in Bijection(Places(Tail(q), r), rest)
      BY <2>1, <2>2, <2>3 DEF Bijection, Injection, IsInjective, Surjection
    <2> HIDE DEF f, rest
    <2>5. Cardinality(rest) = Count(Tail(q), r)
      <3>1. IsFiniteSet(Places(Tail(q), r)) /\ ExistsBijection(Places(Tail(q), r), rest)
        BY <1>1, <2>4, PlacesFinite DEF ExistsBijection
      <3>2. QED
        BY <3>1, FS_Bijection DEF Count
    <2>6. Cardinality(rest) = IF 1 \in Places(q, r) THEN Count(q, r) - 1 ELSE Count(q, r)
      BY PlacesFinite, FS_RemoveElement DEF Count, rest
    <2>7. 1 \in Places(q, r) <=> r = Head(q)
      BY <1>1 DEF Places
    <2>8. QED
      BY <2>5, <2>6, <2>7
  <1>3. QED
    BY <1>1, <1>2

-------------------------------------------------------------------------------
(* The record, the pending request and the queue agree. *)

(* The queue holds the start request of each Job that waits, once. *)
Holds(q, p) ==
    /\ q \in Seq(Request) /\ Len(q) <= QueueCap
    /\ \A j \in Jobs : Count(q, Start(j)) = IF p[j] = "queued" THEN 1 ELSE 0

(* The Jobs that wait are the ones whose start request is pending. *)
Agree(js, p) == \A j \in Jobs : (js[j].life = "Queued") <=> (p[j] = "queued")

RequestsInv == Holds(queue, pend) /\ Agree(jobs, pend)

(* The queue stays and so do the Jobs that wait. *)
LEMMA HoldsSame ==
  ASSUME NEW q, NEW p, NEW o, Holds(q, p),
         \A j \in Jobs : (o[j] = "queued") <=> (p[j] = "queued")
  PROVE  Holds(q, o)
  BY DEF Holds

(* Some requests are dropped together with the waiting of their Jobs. *)
LEMMA HoldsRetained ==
  ASSUME NEW q, NEW p, NEW o, Holds(q, p), NEW K \in SUBSET Request,
         \A j \in Jobs : (o[j] = "queued") <=> (p[j] = "queued" /\ Start(j) \in K)
  PROVE  Holds(Retained(q, K), o)
  <1>1. q \in Seq(Request) /\ Len(q) <= QueueCap
    BY DEF Holds
  <1>2. /\ Retained(q, K) \in Seq(Request)
        /\ Len(Retained(q, K)) <= Len(q)
        /\ \A r \in K : Count(Retained(q, K), r) = Count(q, r)
        /\ \A r : r \notin K => Count(Retained(q, K), r) = 0
    BY <1>1, RetainedFacts
  <1>3. Len(Retained(q, K)) \in Nat /\ Len(q) \in Nat /\ QueueCap \in Nat
    BY <1>1, <1>2, RegistryAssumption
  <1>4. Len(Retained(q, K)) <= QueueCap
    BY <1>1, <1>2, <1>3
  <1>5. ASSUME NEW j \in Jobs
        PROVE  Count(Retained(q, K), Start(j)) = IF o[j] = "queued" THEN 1 ELSE 0
    BY <1>2 DEF Holds
  <1>6. QED
    BY <1>2, <1>4, <1>5 DEF Holds

(* A request is added where there is room. *)
LEMMA HoldsAppend ==
  ASSUME NEW q, NEW p, NEW o, Holds(q, p), NEW x \in Request, Len(q) < QueueCap,
         \A j \in Jobs : IF x = Start(j) THEN o[j] = "queued" /\ p[j] # "queued"
                         ELSE (o[j] = "queued") <=> (p[j] = "queued")
  PROVE  Holds(Append(q, x), o)
  <1>1. q \in Seq(Request) /\ Len(q) \in Nat /\ QueueCap \in Nat
    BY RegistryAssumption DEF Holds
  <1>2. /\ Append(q, x) \in Seq(Request)
        /\ Len(Append(q, x)) = Len(q) + 1
        /\ \A r : Count(Append(q, x), r) = IF r = x THEN Count(q, r) + 1 ELSE Count(q, r)
    BY <1>1, AppendFacts
  <1>3. Len(Append(q, x)) <= QueueCap
    BY <1>1, <1>2
  <1>4. ASSUME NEW j \in Jobs
        PROVE  Count(Append(q, x), Start(j)) = IF o[j] = "queued" THEN 1 ELSE 0
    BY <1>2 DEF Holds
  <1>5. QED
    BY <1>2, <1>3, <1>4 DEF Holds

(* The oldest request is taken. *)
LEMMA HoldsTail ==
  ASSUME NEW q, NEW p, NEW o, Holds(q, p), q # <<>>,
         \A j \in Jobs : IF Head(q) = Start(j) THEN o[j] # "queued" /\ p[j] = "queued"
                         ELSE (o[j] = "queued") <=> (p[j] = "queued")
  PROVE  Holds(Tail(q), o)
  <1>1. q \in Seq(Request) /\ Len(q) \in Nat /\ QueueCap \in Nat /\ Len(q) <= QueueCap
    BY RegistryAssumption DEF Holds
  <1>2. /\ Tail(q) \in Seq(Request)
        /\ Len(Tail(q)) = Len(q) - 1
        /\ \A r : Count(Tail(q), r) = IF r = Head(q) THEN Count(q, r) - 1 ELSE Count(q, r)
    BY <1>1, TailFacts
  <1>3. Len(Tail(q)) <= QueueCap
    BY <1>1, <1>2
  <1>4. ASSUME NEW j \in Jobs
        PROVE  Count(Tail(q), Start(j)) = IF o[j] = "queued" THEN 1 ELSE 0
    BY <1>2 DEF Holds
  <1>5. QED
    BY <1>2, <1>3, <1>4 DEF Holds

(* Nothing is queued and nothing waits. *)
LEMMA HoldsEmpty ==
  ASSUME NEW o, \A j \in Jobs : o[j] # "queued"
  PROVE  Holds(<<>>, o)
  <1>1. \A r : Places(<<>>, r) = {}
    BY DEF Places
  <1>2. \A r : Count(<<>>, r) = 0
    BY <1>1, FS_EmptySet DEF Count
  <1>3. QED
    BY <1>2, RegistryAssumption DEF Holds

(* What the transformers of a record do to a Job that waits: it is lost,   *)
(* stopped or dispatched, and no other record comes to wait.               *)
LEMMA WaitingFacts ==
  ASSUME NEW j \in Jobs, NEW r \in JobRecord, NEW online, NEW expired
  PROVE  /\ MarkLost(j, r).life # "Queued"
         /\ (BeginRecovery(r).life = "Queued") <=> (r.life = "Queued")
         /\ (DropCleanedUp(r).life = "Queued") <=> (r.life = "Queued")
         /\ (Refresh(j, r, online, expired).life = "Queued") <=> (r.life = "Queued")
         /\ StoppedBeforeDispatch(j, r).life # "Queued"
         /\ Dispatched(j, r).life # "Queued"
         /\ NoJob.life # "Queued"
  <1>1. MarkLost(j, r).life # "Queued"
    <2>1. CASE ~Present(r) \/ IsTerminal(r.life)
      BY <2>1 DEF MarkLost, Present, IsTerminal, TerminalStates
    <2>2. CASE ~(~Present(r) \/ IsTerminal(r.life))
      <3>1. MarkLost(j, r) = [r EXCEPT !.life = "Lost", !.exec = OwnExecutionState(j, r),
                                       !.recovering = FALSE]
        BY <2>2 DEF MarkLost
      <3>2. QED
        BY <3>1 DEF JobRecord
    <2>3. QED
      BY <2>1, <2>2
  <1>2. BeginRecovery(r).life = r.life
    BY BeginRecoveryFacts
  <1>3. NoJob.life # "Queued"
    BY DEF NoJob
  <1>4. (DropCleanedUp(r).life = "Queued") <=> (r.life = "Queued")
    BY <1>3 DEF DropCleanedUp, IsTerminal, TerminalStates
  <1>5. (Refresh(j, r, online, expired).life = "Queued") <=> (r.life = "Queued")
    BY <1>1, <1>2 DEF Refresh, IsRunnerActive, RunnerActiveStates
  <1>6. StoppedBeforeDispatch(j, r).life # "Queued"
    BY DEF StoppedBeforeDispatch, JobRecord
  <1>7. Dispatched(j, r).life # "Queued"
    BY DEF Dispatched, JobRecord
  <1>8. QED
    BY <1>1, <1>2, <1>3, <1>4, <1>5, <1>6, <1>7

(* A Runner never reports that a Job waits. *)
LEMMA ReportedFacts ==
  ASSUME NEW j \in Jobs, NEW r \in JobRecord, NEW u, Reportable(u), NEW i
  PROVE  /\ ApplyUpdate(j, r, u).life # "Queued"
         /\ ApplySnapshot(r, i, u).life # "Queued"
         /\ RecordFromSnapshot(i, u).life # "Queued"
  <1>1. u.life # "Queued"
    BY DEF Reportable, RunnerActiveStates, TerminalStates
  <1>2. ApplyUpdate(j, r, u).life # "Queued"
    <2>1. \/ ApplyUpdate(j, r, u).life = u.life
          \/ ApplyUpdate(j, r, u).life = "Failed"
      BY DEF ApplyUpdate, JobRecord
    <2>2. QED
      BY <1>1, <2>1
  <1>3. ApplySnapshot(r, i, u).life = u.life /\ RecordFromSnapshot(i, u).life = u.life
    BY DEF ApplySnapshot, RecordFromSnapshot, JobRecord, NoJob
  <1>4. QED
    BY <1>1, <1>2, <1>3

(* One record changes. *)
LEMMA AgreeUpdate ==
  ASSUME RecordsInv, Agree(jobs, pend), NEW k \in Jobs, NEW r,
         jobs' = [jobs EXCEPT ![k] = r],
         (r.life = "Queued") <=> (pend'[k] = "queued"),
         \A j \in Jobs \ {k} : pend'[j] = pend[j]
  PROVE  Agree(jobs', pend')
  <1>1. jobs \in [Jobs -> JobRecord]
    BY DEF RecordsInv, RecordsTyped
  <1>2. \A j \in Jobs : jobs'[j] = IF j = k THEN r ELSE jobs[j]
    BY <1>1
  <1>3. QED
    BY <1>2 DEF Agree

(* Typing facts that every step needs. *)
LEMMA RequestsTyped ==
  ASSUME RecordsInv, DispatchInv
  PROVE  /\ jobs \in [Jobs -> JobRecord]
         /\ pend \in [Jobs -> {"none", "queued", "sent"}]
         /\ \A j \in Jobs : jobs[j] \in JobRecord
         /\ \A j \in Jobs : Start(j) \in Request /\ [kind |-> "stop", job |-> j] \in Request
         /\ \A j, k \in Jobs : Start(j) = Start(k) => j = k
         /\ \A j, k \in Jobs : [kind |-> "stop", job |-> j] # Start(k)
  <1>1. /\ jobs \in [Jobs -> JobRecord]
        /\ pend \in [Jobs -> {"none", "queued", "sent"}]
    BY DEF RecordsInv, RecordsTyped, DispatchInv
  <1>2. \A j \in Jobs : jobs[j] \in JobRecord
    BY <1>1
  <1>3. \A j \in Jobs : Start(j) \in Request /\ [kind |-> "stop", job |-> j] \in Request
    BY DEF Start, Request
  <1>4. \A j, k \in Jobs : Start(j) = Start(k) => j = k
    BY DEF Start
  <1>5. \A j, k \in Jobs : [kind |-> "stop", job |-> j] # Start(k)
    BY DEF Start
  <1>6. QED
    BY <1>1, <1>2, <1>3, <1>4, <1>5

(* Dropping the start request of one Job. *)
LEMMA DropStartFacts ==
  ASSUME RecordsInv, DispatchInv, RequestsInv, NEW k \in Jobs, DropStartRequest(k)
  PROVE  /\ Holds(queue', pend')
         /\ pend'[k] = "none"
         /\ \A j \in Jobs \ {k} : pend'[j] = pend[j]
  <1> DEFINE K == Request \ {Start(k)}
  <1>1. queue' = Retained(queue, K)
    BY DEF DropStartRequest, Start
  <1>2. /\ pend'[k] = "none"
        /\ \A j \in Jobs \ {k} : pend'[j] = pend[j]
    BY RequestsTyped DEF DropStartRequest
  <1>3. \A j \in Jobs : (pend'[j] = "queued") <=> (pend[j] = "queued" /\ Start(j) \in K)
    BY <1>2, RequestsTyped
  <1>4. K \in SUBSET Request
    OBVIOUS
  <1> HIDE DEF K
  <1>5. Holds(queue', pend')
    BY <1>1, <1>3, <1>4, HoldsRetained DEF RequestsInv
  <1>6. QED
    BY <1>2, <1>5

(* Dropping the requests of several Jobs. *)
LEMMA DropRequestsFacts ==
  ASSUME RecordsInv, DispatchInv, RequestsInv, NEW S, DropRequestsOf(S)
  PROVE  /\ Holds(queue', pend')
         /\ \A j \in Jobs : pend'[j] = IF j \in S THEN "none" ELSE pend[j]
  <1> DEFINE K == { q \in Request : q.job \notin S }
  <1>1. \A j \in Jobs : pend'[j] = IF j \in S THEN "none" ELSE pend[j]
    BY DEF DropRequestsOf
  <1>2. queue' = Retained(queue, K)
    BY DEF DropRequestsOf
  <1>3. \A j \in Jobs : Start(j) \in K <=> j \notin S
    BY RequestsTyped DEF Start
  <1>4. K \in SUBSET Request
    OBVIOUS
  <1> HIDE DEF K
  <1>5. \A j \in Jobs : (pend'[j] = "queued") <=> (pend[j] = "queued" /\ Start(j) \in K)
    BY <1>1, <1>3
  <1>6. QED
    BY <1>1, <1>2, <1>4, <1>5, HoldsRetained DEF RequestsInv

(* The client's operations. *)
LEMMA ClientRequests ==
  ASSUME RecordsInv, DispatchInv, RequestsInv, ClientStep
  PROVE  RequestsInv'
  <1> SUFFICES ASSUME NEW j \in Jobs,
                      \/ \E vis \in {"Hidden", "Public"} : StartJob(j, vis)
                      \/ \E expired \in BOOLEAN : \/ ReadJob(j, expired)
                                                  \/ StopJob(j, expired)
                                                  \/ PromoteHiddenJob(j, expired)
                      \/ RecordCleanupIntent(j)
                      \/ RemoveProjected(j)
               PROVE  Holds(queue', pend') /\ Agree(jobs', pend')
    BY DEF ClientStep, RequestsInv
  <1>0. /\ Holds(queue, pend) /\ Agree(jobs, pend)
        /\ jobs[j] \in JobRecord /\ pend \in [Jobs -> {"none", "queued", "sent"}]
        /\ (jobs[j].life = "Queued") <=> (pend[j] = "queued")
    BY RequestsTyped DEF RequestsInv, Agree
  <1>1. ASSUME NEW vis \in {"Hidden", "Public"}, StartJob(j, vis)
        PROVE  Holds(queue', pend') /\ Agree(jobs', pend')
    <2> DEFINE q == [NoJob EXCEPT !.life = "Queued", !.inst = lease.inst, !.vis = vis,
                                  !.candidate = TRUE]
    <2>1. /\ jobs' = [jobs EXCEPT ![j] = q]
          /\ queue' = Append(queue, Start(j))
          /\ Len(queue) < QueueCap
          /\ ~Present(jobs[j])
      BY <1>1 DEF StartJob, CanEnqueue, Start
    <2>2. q.life = "Queued"
      BY DEF NoJob
    <2> HIDE DEF q
    <2>3. pend[j] # "queued"
      BY <1>0, <2>1 DEF Present
    <2>4. pend'[j] = "queued" /\ \A k \in Jobs \ {j} : pend'[k] = pend[k]
      BY <1>0, <1>1 DEF StartJob
    <2>5. \A k \in Jobs : IF Start(j) = Start(k) THEN pend'[k] = "queued" /\ pend[k] # "queued"
                          ELSE (pend'[k] = "queued") <=> (pend[k] = "queued")
      BY <2>3, <2>4, RequestsTyped
    <2>6. Holds(queue', pend')
      <3>1. Start(j) \in Request
        BY RequestsTyped
      <3>2. QED
        BY <1>0, <2>1, <2>5, <3>1, HoldsAppend
    <2>7. Agree(jobs', pend')
      <3>1. (q.life = "Queued") <=> (pend'[j] = "queued")
        BY <2>2, <2>4
      <3>2. jobs' = [jobs EXCEPT ![j] = q]
        BY <2>1
      <3>3. QED
        BY <1>0, <2>4, <3>1, <3>2, AgreeUpdate
    <2>8. QED
      BY <2>6, <2>7
  <1>2. ASSUME NEW expired \in BOOLEAN, ReadJob(j, expired)
        PROVE  Holds(queue', pend') /\ Agree(jobs', pend')
    <2>1. /\ pend' = pend /\ queue' = queue
          /\ jobs' = [jobs EXCEPT ![j] = Refresh(j, jobs[j], lease.online, expired)]
      BY <1>2 DEF ReadJob
    <2>2. (Refresh(j, jobs[j], lease.online, expired).life = "Queued")
              <=> (pend'[j] = "queued")
      BY <1>0, <2>1, WaitingFacts
    <2>3. Agree(jobs', pend')
      BY <1>0, <2>1, <2>2, AgreeUpdate
    <2>4. QED
      BY <1>0, <2>1, <2>3
  <1>3. ASSUME NEW expired \in BOOLEAN, StopJob(j, expired)
        PROVE  Holds(queue', pend') /\ Agree(jobs', pend')
    <2> DEFINE r == Refresh(j, jobs[j], lease.online, expired)
               asked == [r EXCEPT !.life = "StopRequested"]
    <2>1. r \in JobRecord /\ ((r.life = "Queued") <=> (pend[j] = "queued"))
      BY <1>0, RefreshFacts, WaitingFacts
    <2>2. CASE jobs' = [jobs EXCEPT ![j] = StoppedBeforeDispatch(j, r)]
               /\ DropStartRequest(j)
      <3>1. StoppedBeforeDispatch(j, r).life # "Queued"
        BY <2>1, WaitingFacts
      <3>2. /\ Holds(queue', pend') /\ pend'[j] = "none"
            /\ \A k \in Jobs \ {j} : pend'[k] = pend[k]
        BY <2>2, DropStartFacts
      <3> DEFINE q == StoppedBeforeDispatch(j, r)
      <3>3. (q.life = "Queued") <=> (pend'[j] = "queued")
        BY <3>1, <3>2
      <3>4. jobs' = [jobs EXCEPT ![j] = q]
        BY <2>2
      <3> HIDE DEF q
      <3>5. Agree(jobs', pend')
        BY <1>0, <3>2, <3>3, <3>4, AgreeUpdate
      <3>6. QED
        BY <3>2, <3>5
    <2>3. CASE /\ jobs' = [jobs EXCEPT ![j] = asked] /\ pend' = pend
               /\ queue' = Append(queue, [kind |-> "stop", job |-> j])
               /\ r.life \in {"RunnerQueued", "Running"} /\ CanEnqueue
      <3>1. asked.life = "StopRequested"
        BY <2>1 DEF JobRecord
      <3> HIDE DEF asked, r
      <3>2. Agree(jobs', pend')
        BY <1>0, <2>1, <2>3, <3>1, AgreeUpdate
      <3>3. Holds(queue', pend')
        BY <1>0, <2>3, HoldsAppend, RequestsTyped DEF CanEnqueue
      <3>4. QED
        BY <3>2, <3>3
    <2>4. CASE jobs' = [jobs EXCEPT ![j] = r] /\ UNCHANGED <<pend, queue>>
      BY <1>0, <2>1, <2>4, AgreeUpdate
    <2>5. QED
      BY <1>3, <2>2, <2>3, <2>4 DEF StopJob
  <1>4. ASSUME NEW expired \in BOOLEAN, PromoteHiddenJob(j, expired)
        PROVE  Holds(queue', pend') /\ Agree(jobs', pend')
    <2> DEFINE r == Refresh(j, jobs[j], lease.online, expired)
               q == IF r.vis = "Hidden" /\ ~IsTerminal(r.life)
                    THEN [r EXCEPT !.vis = "Public"] ELSE r
    <2>1. r \in JobRecord /\ ((r.life = "Queued") <=> (pend[j] = "queued"))
      BY <1>0, RefreshFacts, WaitingFacts
    <2>2. q.life = r.life
      BY <2>1 DEF JobRecord
    <2>3. jobs' = [jobs EXCEPT ![j] = q] /\ pend' = pend /\ queue' = queue
      BY <1>4 DEF PromoteHiddenJob
    <2> HIDE DEF q, r
    <2>4. QED
      BY <1>0, <2>1, <2>2, <2>3, AgreeUpdate
  <1>5. ASSUME RecordCleanupIntent(j)
        PROVE  Holds(queue', pend') /\ Agree(jobs', pend')
    BY <1>0, <1>5 DEF RecordCleanupIntent
  <1>6. ASSUME RemoveProjected(j)
        PROVE  Holds(queue', pend') /\ Agree(jobs', pend')
    <2>1. jobs' = [jobs EXCEPT ![j] = NoJob] /\ DropStartRequest(j)
      BY <1>6 DEF RemoveProjected
    <2>2. NoJob.life # "Queued"
      BY DEF NoJob
    <2>3. /\ Holds(queue', pend') /\ pend'[j] = "none"
          /\ \A k \in Jobs \ {j} : pend'[k] = pend[k]
      BY <2>1, DropStartFacts
    <2>4. (NoJob.life = "Queued") <=> (pend'[j] = "queued")
      BY <2>2, <2>3
    <2>5. Agree(jobs', pend')
      BY <1>0, <2>1, <2>3, <2>4, AgreeUpdate
    <2>6. QED
      BY <2>3, <2>5
  <1>7. QED
    BY <1>1, <1>2, <1>3, <1>4, <1>5, <1>6

(* A Job that a Runner may speak of does not wait any more. *)
LEMMA SpokenOf ==
  ASSUME RecordsInv, DispatchInv, RequestsInv, NEW i, NEW j \in Jobs, MaySpeakOf(i, j)
  PROVE  pend[j] # "queued" /\ jobs[j].life # "Queued"
  <1>1. handed[j] # {}
    BY DEF MaySpeakOf
  <1>2. pend[j] # "queued"
    BY <1>1 DEF DispatchInv
  <1>3. QED
    BY <1>2 DEF RequestsInv, Agree

(* Registration: the inventory speaks only of Jobs that were handed out,   *)
(* and a Job that still waits for the replaced process is lost.            *)
LEMMA RegisterRequests ==
  ASSUME RecordsInv, DispatchInv, RequestsInv,
         NEW i \in Instances, NEW conn, NEW late \in SUBSET Jobs,
         NEW inv \in Inventories(i), Register(i, conn, inv, late)
  PROVE  RequestsInv'
  <1> DEFINE gone == late \cup Orphaned(i, inv) \cup Missing(i, inv)
             ended == EndedByInventory(i, inv, late)
             K == { q \in Request : q.job \notin gone /\ (q.kind = "start" => q.job \notin ended) }
  <1>0. /\ Holds(queue, pend) /\ Agree(jobs, pend)
        /\ \A j \in Jobs : jobs[j] \in JobRecord
        /\ \A j \in Jobs : (jobs[j].life = "Queued") <=> (pend[j] = "queued")
    BY RequestsTyped DEF RequestsInv, Agree
  <1>1. /\ pend' = [j \in Jobs |-> IF j \in gone \cup ended THEN "none" ELSE pend[j]]
        /\ queue' = Retained(queue, K)
        /\ jobs' = [j \in Jobs |-> Reconciled(i, inv, late, j)]
    BY DEF Register
  <1>2. DOMAIN inv \in SUBSET { j \in Jobs : MaySpeakOf(i, j) }
    BY DEF Inventories
  <1>3. \A j \in Jobs : j \in DOMAIN inv => /\ pend[j] # "queued" /\ jobs[j].life # "Queued"
                                            /\ SnapshotLike(inv[j])
    BY <1>2, SpokenOf, InventoryFacts
  <1>4. \A j \in late : IsRunnerActive(jobs[j].life)
    BY DEF Register, RecoveryActive
  <1>5. \A j \in Jobs : Start(j) \in K <=> j \notin gone \cup ended
    BY RequestsTyped DEF Start
  <1>6. K \in SUBSET Request
    OBVIOUS
  <1> HIDE DEF K
  <1>7. Holds(queue', pend')
    <2>1. \A j \in Jobs : (pend'[j] = "queued") <=> (pend[j] = "queued" /\ Start(j) \in K)
      BY <1>1, <1>5
    <2>2. QED
      BY <1>0, <1>1, <1>6, <2>1, HoldsRetained
  <1>8. ASSUME NEW j \in Jobs
        PROVE  (jobs'[j].life = "Queued") <=> (pend'[j] = "queued")
    <2> DEFINE m == IF j \in gone THEN MarkLost(j, jobs[j]) ELSE jobs[j]
               a == AfterLosses(i, inv, late, j)
               b == IF j \notin DOMAIN inv THEN a
                    ELSE IF Rebuilds(i, j, inv, a) THEN RecordFromSnapshot(i, inv[j])
                    ELSE IF Present(a) /\ TakesSnapshot(i, j, inv, a)
                         THEN ApplySnapshot(a, i, inv[j])
                    ELSE a
    <2>1. /\ m \in JobRecord
          /\ (m.life = "Queued") <=> (jobs[j].life = "Queued" /\ j \notin gone)
      BY <1>0, MarkLostFacts, WaitingFacts
    <2>2. a = m \/ a = DropCleanedUp(m)
      BY DEF AfterLosses
    <2> HIDE DEF m
    <2>3. /\ a \in JobRecord
          /\ (a.life = "Queued") <=> (jobs[j].life = "Queued" /\ j \notin gone)
      BY <2>1, <2>2, DropCleanedUpFacts, WaitingFacts
    <2> HIDE DEF a
    <2>4. /\ b \in JobRecord
          /\ (b.life = "Queued") <=> (jobs[j].life = "Queued" /\ j \notin gone)
      <3>1. CASE b = a
        BY <2>3, <3>1
      <3>2. CASE j \in DOMAIN inv /\ \/ b = RecordFromSnapshot(i, inv[j])
                                     \/ b = ApplySnapshot(a, i, inv[j])
        <4>1. Reportable(inv[j]) /\ SnapshotLike(inv[j]) /\ jobs[j].life # "Queued"
          BY <1>3, <3>2 DEF SnapshotLike
        <4>2. b \in JobRecord
          BY <2>3, <3>2, <4>1, SnapshotFacts
        <4>3. b.life # "Queued"
          BY <2>3, <3>2, <4>1, ReportedFacts
        <4>4. QED
          BY <4>1, <4>2, <4>3
      <3>3. QED
        BY <3>1, <3>2
    <2>5. jobs'[j] = DropCleanedUp(b)
      BY <1>1 DEF Reconciled, a
    <2> HIDE DEF b
    <2>6. (jobs'[j].life = "Queued") <=> (jobs[j].life = "Queued" /\ j \notin gone)
      BY <2>4, <2>5, WaitingFacts
    <2>7. j \in ended => pend[j] # "queued"
      BY <1>3 DEF EndedByInventory
    <2> HIDE DEF gone, ended
    <2>8. pend'[j] = IF j \in gone \cup ended THEN "none" ELSE pend[j]
      BY <1>1
    <2>9. QED
      BY <1>0, <2>6, <2>7, <2>8
  <1>9. QED
    BY <1>7, <1>8 DEF RequestsInv, Agree

(* Dispatch and what else a Runner sends. *)
LEMMA RunnerRequests ==
  ASSUME RecordsInv, DispatchInv, RequestsInv, RunnerStep
  PROVE  RequestsInv'
  <1>0. /\ Holds(queue, pend) /\ Agree(jobs, pend)
        /\ \A j \in Jobs : jobs[j] \in JobRecord
        /\ pend \in [Jobs -> {"none", "queued", "sent"}]
        /\ \A j \in Jobs : (jobs[j].life = "Queued") <=> (pend[j] = "queued")
    BY RequestsTyped DEF RequestsInv, Agree
  <1>1. ASSUME NEW s \in sessions, Poll(s)
        PROVE  RequestsInv'
    <2>1. queue # <<>> /\ queue' = Tail(queue)
      BY <1>1 DEF Poll
    <2>2. ASSUME NEW j \in Jobs, Head(queue) = [kind |-> "stop", job |-> j],
                 jobs' = jobs, pend' = pend
          PROVE  RequestsInv'
      <3>1. \A k \in Jobs : Head(queue) # Start(k)
        BY <2>2, RequestsTyped
      <3>2. Holds(queue', pend')
        BY <1>0, <2>1, <2>2, <3>1, HoldsTail
      <3>3. QED
        BY <1>0, <2>2, <3>2 DEF RequestsInv
    <2>3. ASSUME NEW j \in Jobs, Head(queue) = Start(j), pend[j] = "queued",
                 pend' = [pend EXCEPT ![j] = "sent"],
                 jobs' = [jobs EXCEPT ![j] = Dispatched(j, jobs[j])]
          PROVE  RequestsInv'
      <3>1. pend'[j] = "sent" /\ \A k \in Jobs \ {j} : pend'[k] = pend[k]
        BY <1>0, <2>3
      <3>2. \A k \in Jobs : IF Head(queue) = Start(k)
                            THEN pend'[k] # "queued" /\ pend[k] = "queued"
                            ELSE (pend'[k] = "queued") <=> (pend[k] = "queued")
        <4>1. \A k \in Jobs : Head(queue) = Start(k) <=> k = j
          BY <2>3, RequestsTyped
        <4>2. pend[j] = "queued"
          BY <2>3
        <4>3. QED
          BY <3>1, <4>1, <4>2
      <3>3. Holds(queue', pend')
        BY <1>0, <2>1, <3>2, HoldsTail
      <3> DEFINE q == Dispatched(j, jobs[j])
      <3>4. (q.life = "Queued") <=> (pend'[j] = "queued")
        BY <1>0, <3>1, WaitingFacts
      <3>5. jobs' = [jobs EXCEPT ![j] = q]
        BY <2>3
      <3> HIDE DEF q
      <3>6. Agree(jobs', pend')
        BY <1>0, <3>1, <3>4, <3>5, AgreeUpdate
      <3>7. QED
        BY <3>3, <3>6 DEF RequestsInv
    <2>4. QED
      BY <1>1, <2>2, <2>3 DEF Poll, Start
  <1>2. ASSUME NEW s \in sessions, Touch(s)
        PROVE  RequestsInv'
    BY <1>0, <1>2 DEF Touch, RequestsInv
  <1>3. ASSUME NEW s \in sessions, Disconnect(s)
        PROVE  RequestsInv'
    <2>1. /\ jobs' = [j \in Jobs |-> IF jobs[j].life = "Queued" THEN MarkLost(j, jobs[j])
                                     ELSE BeginRecovery(jobs[j])]
          /\ pend' = [j \in Jobs |-> "none"]
          /\ queue' = <<>>
      BY <1>3 DEF Disconnect
    <2>2. \A j \in Jobs : pend'[j] # "queued" /\ jobs'[j].life # "Queued"
      BY <1>0, <2>1, WaitingFacts
    <2>3. Holds(queue', pend')
      BY <2>1, <2>2, HoldsEmpty
    <2>4. QED
      BY <2>2, <2>3 DEF RequestsInv, Agree
  <1>4. ASSUME NEW s \in sessions, NEW j \in Jobs, NEW u \in Updates,
               MaySpeakOf(s.inst, j), UpdateJob(s, j, u)
        PROVE  RequestsInv'
    <2>0. queue' = queue
      BY <1>4 DEF UpdateJob
    <2>1. CASE jobs' = jobs /\ pend' = pend
      BY <1>0, <2>0, <2>1 DEF RequestsInv
    <2>2. CASE /\ jobs' = [jobs EXCEPT ![j] = DropCleanedUp(ApplyUpdate(j, jobs[j], u))]
               /\ pend' = pend \/ pend' = [pend EXCEPT ![j] = "none"]
      <3> DEFINE a == ApplyUpdate(j, jobs[j], u)
                 q == DropCleanedUp(a)
      <3>1. pend[j] # "queued"
        BY <1>4, SpokenOf
      <3>2. pend'[j] # "queued" /\ \A k \in Jobs \ {j} : pend'[k] = pend[k]
        BY <1>0, <2>2, <3>1
      <3>3. a \in JobRecord /\ a.life # "Queued"
        BY <1>0, UpdateFacts, ApplyUpdateFacts, ReportedFacts
      <3> HIDE DEF a
      <3>4. q.life # "Queued"
        BY <3>3, WaitingFacts
      <3>5. jobs' = [jobs EXCEPT ![j] = q]
        BY <2>2 DEF a
      <3> HIDE DEF q
      <3>6. (q.life = "Queued") <=> (pend'[j] = "queued")
        BY <3>2, <3>4
      <3>7. Agree(jobs', pend')
        BY <1>0, <3>2, <3>5, <3>6, AgreeUpdate
      <3>8. \A k \in Jobs : (pend'[k] = "queued") <=> (pend[k] = "queued")
        BY <3>1, <3>2
      <3>9. Holds(queue', pend')
        BY <1>0, <2>0, <3>8, HoldsSame
      <3>10. QED
        BY <3>7, <3>9 DEF RequestsInv
    <2>3. QED
      BY <1>4, <2>1, <2>2 DEF UpdateJob
  <1>5. ASSUME NEW i \in Instances, NEW conn \in NewConnection,
               NEW late \in SUBSET { j \in Jobs : RecoveryActive(jobs[j]) },
               NEW inv \in Inventories(i), Register(i, conn, inv, late)
        PROVE  RequestsInv'
    <2>1. late \in SUBSET Jobs
      OBVIOUS
    <2>2. QED
      BY <1>5, <2>1, RegisterRequests
  <1>6. ASSUME NEW s \in sessions, NEW j \in Jobs, NEW success, CompleteJob(s, j, success)
        PROVE  RequestsInv'
    <2>0. queue' = queue
      BY <1>6 DEF CompleteJob
    <2>1. CASE pend[j] # "sent"
      BY <1>0, <1>6, <2>0, <2>1 DEF CompleteJob, RequestsInv
    <2>2. CASE pend[j] = "sent"
      <3> DEFINE q == ResultApplied(jobs[j], success)
      <3>1. /\ jobs' = [jobs EXCEPT ![j] = q]
            /\ pend'[j] = "none" /\ \A k \in Jobs \ {j} : pend'[k] = pend[k]
        BY <1>0, <1>6, <2>2 DEF CompleteJob
      <3>2. q.life # "Queued"
        BY <1>0, ResultFacts
      <3> HIDE DEF q
      <3>3. (q.life = "Queued") <=> (pend'[j] = "queued")
        BY <3>1, <3>2
      <3>4. Agree(jobs', pend')
        BY <1>0, <3>1, <3>3, AgreeUpdate
      <3>5. \A k \in Jobs : (pend'[k] = "queued") <=> (pend[k] = "queued")
        BY <2>2, <3>1
      <3>6. Holds(queue', pend')
        BY <1>0, <2>0, <3>5, HoldsSame
      <3>7. QED
        BY <3>4, <3>6 DEF RequestsInv
    <2>3. QED
      BY <2>1, <2>2
  <1>7. QED
    BY <1>1, <1>2, <1>3, <1>4, <1>5, <1>6 DEF RunnerStep

(* The periodic sweep. *)
LEMMA SweepRequests ==
  ASSUME RecordsInv, DispatchInv, RequestsInv, Sweep
  PROVE  RequestsInv'
  <1>0. /\ Holds(queue, pend) /\ Agree(jobs, pend)
        /\ jobs \in [Jobs -> JobRecord]
        /\ \A j \in Jobs : jobs[j] \in JobRecord
        /\ \A j \in Jobs : (jobs[j].life = "Queued") <=> (pend[j] = "queued")
    BY RequestsTyped DEF RequestsInv, Agree
  <1>1. ASSUME NEW late, ExpireRecovering(late)
        PROVE  RequestsInv'
    <2> DEFINE m(j) == IF j \in late THEN MarkLost(j, jobs[j]) ELSE jobs[j]
    <2>1. /\ jobs' = [j \in Jobs |-> DropCleanedUp(m(j))]
          /\ DropRequestsOf(late)
          /\ \A j \in late : RecoveryActive(jobs[j])
      BY <1>1 DEF ExpireRecovering
    <2>2. /\ Holds(queue', pend')
          /\ \A j \in Jobs : pend'[j] = IF j \in late THEN "none" ELSE pend[j]
      BY <2>1, DropRequestsFacts
    <2>3. ASSUME NEW j \in Jobs
          PROVE  (jobs'[j].life = "Queued") <=> (pend'[j] = "queued")
      <3>1. m(j) \in JobRecord
        BY <1>0, MarkLostFacts
      <3>2. (m(j).life = "Queued") <=> (jobs[j].life = "Queued" /\ j \notin late)
        BY <1>0, WaitingFacts
      <3> HIDE DEF m
      <3>3. (DropCleanedUp(m(j)).life = "Queued") <=> (m(j).life = "Queued")
        BY <3>1, WaitingFacts
      <3>4. jobs'[j] = DropCleanedUp(m(j))
        BY <2>1
      <3>5. QED
        BY <1>0, <2>2, <3>2, <3>3, <3>4
    <2>4. QED
      BY <2>2, <2>3 DEF RequestsInv, Agree
  <1>2. ASSUME NEW j \in Jobs, PruneTerminal(j)
        PROVE  RequestsInv'
    <2>1. jobs' = [jobs EXCEPT ![j] = NoJob] /\ DropRequestsOf({j})
      BY <1>2 DEF PruneTerminal
    <2>2. /\ Holds(queue', pend')
          /\ \A k \in Jobs : pend'[k] = IF k \in {j} THEN "none" ELSE pend[k]
      BY <2>1, DropRequestsFacts
    <2>3. pend'[j] # "queued" /\ \A k \in Jobs \ {j} : pend'[k] = pend[k]
      BY <2>2
    <2>4. (NoJob.life = "Queued") <=> (pend'[j] = "queued")
      BY <2>3 DEF NoJob
    <2>5. Agree(jobs', pend')
      BY <1>0, <2>1, <2>3, <2>4, AgreeUpdate
    <2>6. QED
      BY <2>2, <2>5 DEF RequestsInv
  <1>3. ASSUME NEW j \in Jobs, ForgetSuppression(j)
        PROVE  RequestsInv'
    BY <1>0, <1>3 DEF ForgetSuppression, RequestsInv
  <1>4. ASSUME NEW j \in Jobs, NEW expired \in BOOLEAN, CancelHiddenJob(j, expired)
        PROVE  RequestsInv'
    <2> DEFINE r == Refresh(j, jobs[j], lease.online, expired)
               asked == [r EXCEPT !.vis = "Cleanup", !.life = "StopRequested"]
               hidden == [r EXCEPT !.vis = "Cleanup"]
    <2>1. r \in JobRecord /\ ((r.life = "Queued") <=> (pend[j] = "queued"))
      BY <1>0, RefreshFacts, WaitingFacts
    <2>2. /\ asked.life = "StopRequested"
          /\ hidden.life = r.life
      BY <2>1 DEF JobRecord
    <2>3. NoJob.life # "Queued"
      BY DEF NoJob
    <2>4. CASE jobs' = [jobs EXCEPT ![j] = r] /\ pend' = pend /\ queue' = queue
      <3> HIDE DEF r
      <3>1. QED
        BY <1>0, <2>1, <2>4, AgreeUpdate DEF RequestsInv
    <2>5. CASE jobs' = [jobs EXCEPT ![j] = NoJob] /\ r.life = "Queued" /\ DropStartRequest(j)
      <3>1. /\ Holds(queue', pend') /\ pend'[j] = "none"
            /\ \A k \in Jobs \ {j} : pend'[k] = pend[k]
        BY <2>5, DropStartFacts
      <3>2. (NoJob.life = "Queued") <=> (pend'[j] = "queued")
        BY <2>3, <3>1
      <3>3. jobs' = [jobs EXCEPT ![j] = NoJob]
        BY <2>5
      <3>4. Agree(jobs', pend')
        BY <1>0, <3>1, <3>2, <3>3, AgreeUpdate
      <3>5. QED
        BY <3>1, <3>4 DEF RequestsInv
    <2>6. CASE /\ jobs' = [jobs EXCEPT ![j] = NoJob] /\ r.life # "Queued"
               /\ pend' = pend /\ queue' = queue
      <3>1. (NoJob.life = "Queued") <=> (pend'[j] = "queued")
        BY <2>1, <2>3, <2>6
      <3>2. Agree(jobs', pend')
        BY <1>0, <2>6, <3>1, AgreeUpdate
      <3>3. QED
        BY <1>0, <2>6, <3>2 DEF RequestsInv
    <2>7. CASE /\ jobs' = [jobs EXCEPT ![j] = asked] /\ pend' = pend
               /\ queue' = Append(queue, [kind |-> "stop", job |-> j])
               /\ r.life \in {"RunnerQueued", "Running"} /\ CanEnqueue
      <3>1. pend[j] # "queued"
        BY <2>1, <2>7
      <3> HIDE DEF asked, r
      <3>2. Agree(jobs', pend')
        BY <1>0, <2>2, <2>7, <3>1, AgreeUpdate
      <3>3. Holds(queue', pend')
        BY <1>0, <2>7, HoldsAppend, RequestsTyped DEF CanEnqueue
      <3>4. QED
        BY <3>2, <3>3 DEF RequestsInv
    <2>8. CASE jobs' = [jobs EXCEPT ![j] = hidden] /\ pend' = pend /\ queue' = queue
      <3> HIDE DEF hidden, r
      <3>1. Agree(jobs', pend')
        BY <1>0, <2>1, <2>2, <2>8, AgreeUpdate
      <3>2. QED
        BY <1>0, <2>8, <3>1 DEF RequestsInv
    <2>9. QED
      <3> HIDE DEF asked, hidden, r
      <3>1. QED
        BY <1>4, <2>4, <2>5, <2>6, <2>7, <2>8 DEF CancelHiddenJob, asked, hidden, r
  <1>5. ASSUME ExpireLease
        PROVE  RequestsInv'
    <2>1. /\ jobs' = [j \in Jobs |-> MarkLost(j, jobs[j])]
          /\ pend' = [j \in Jobs |-> "none"]
          /\ queue' = <<>>
      BY <1>5 DEF ExpireLease
    <2>2. \A j \in Jobs : pend'[j] # "queued" /\ jobs'[j].life # "Queued"
      BY <1>0, <2>1, WaitingFacts
    <2>3. Holds(queue', pend')
      BY <2>1, <2>2, HoldsEmpty
    <2>4. QED
      BY <2>2, <2>3 DEF RequestsInv, Agree
  <1>6. QED
    BY <1>1, <1>2, <1>3, <1>4, <1>5 DEF Sweep

(* Every step keeps the record, the pending request and the queue in       *)
(* agreement.                                                              *)
LEMMA RequestsNext ==
  RecordsInv /\ DispatchInv /\ RequestsInv /\ [Next]_vars => RequestsInv'
  <1> SUFFICES ASSUME RecordsInv, DispatchInv, RequestsInv, [Next]_vars
               PROVE  RequestsInv'
    OBVIOUS
  <1>1. CASE StorageStep \/ GoStale \/ UNCHANGED vars
    <2>1. UNCHANGED <<jobs, pend, queue>>
      BY <1>1 DEF StorageStep, LoseReceipt, WriteReceipt, GoStale, vars
    <2>2. QED
      BY <2>1 DEF RequestsInv
  <1>2. CASE Restart
    <2>1. /\ jobs' = [j \in Jobs |-> Hydrated(receipts[j])]
          /\ pend' = [j \in Jobs |-> "none"]
          /\ queue' = <<>>
      BY <1>2 DEF Restart
    <2>2. \A j \in Jobs : Hydrated(receipts[j]).life # "Queued"
      <3> SUFFICES ASSUME NEW j \in Jobs
                   PROVE  Hydrated(receipts[j]).life # "Queued"
        OBVIOUS
      <3>1. receipts[j] \in JobRecord
        BY DEF RecordsInv, RecordsTyped
      <3>2. Present(receipts[j]) => receipts[j].life # "Queued"
        BY DEF RecordsInv, Vouches, IsTerminal, TerminalStates
      <3>3. CASE Present(receipts[j])
        BY <3>1, <3>2, <3>3 DEF Hydrated, JobRecord
      <3>4. CASE ~Present(receipts[j])
        BY <3>4 DEF Hydrated, NoJob
      <3>5. QED
        BY <3>3, <3>4
    <2>3. \A j \in Jobs : pend'[j] # "queued" /\ jobs'[j].life # "Queued"
      BY <2>1, <2>2
    <2>4. Holds(queue', pend')
      BY <2>1, <2>3, HoldsEmpty
    <2>5. QED
      BY <2>3, <2>4 DEF RequestsInv, Agree
  <1>3. QED
    BY <1>1, <1>2, RunnerRequests, ClientRequests, SweepRequests DEF Next

-------------------------------------------------------------------------------
(* Late results. *)

(* A start request that is still pending belongs to a Job that has not     *)
(* ended, or that a read declared lost; a Job whose verdict was replaced   *)
(* has no start request any more and gets none.                            *)
LateInv ==
    /\ \A j \in Jobs : pend[j] = "sent" /\ IsTerminal(jobs[j].life) =>
                           jobs[j].life = "Lost"
    /\ \A j \in overturned : pend[j] = "none" /\ j \in known

(* A record ends as lost or not at all. *)
EndsLost(r, q) == IsTerminal(q.life) => q.life \in {"Lost", r.life}

(* A step that sends no start request, overturns nothing and ends only     *)
(* Jobs that are lost or that have no request left.                        *)
PlainStep ==
    /\ overturned' = overturned
    /\ known \subseteq known'
    /\ \A j \in Jobs : /\ pend'[j] \in {"none", pend[j]}
                       /\ pend'[j] = "sent" => EndsLost(jobs[j], jobs'[j])

(* Plain steps keep the invariant. *)
LEMMA PlainPreserves ==
  ASSUME RecordsInv, DispatchInv, LateInv, PlainStep
  PROVE  LateInv'
  <1>1. overturned \subseteq Jobs
    BY DEF RecordsInv, RecordsTyped
  <1>2. \A j \in Jobs : pend'[j] = "sent" /\ IsTerminal(jobs'[j].life) =>
                           jobs'[j].life = "Lost"
    BY DEF LateInv, PlainStep, EndsLost, DispatchInv
  <1>3. \A j \in overturned' : pend'[j] = "none" /\ j \in known'
    BY <1>1 DEF LateInv, PlainStep
  <1>4. QED
    BY <1>2, <1>3 DEF LateInv

(* The transformers of a record end it as lost or not at all. *)
LEMMA EndsLostFacts ==
  ASSUME NEW j \in Jobs, NEW r \in JobRecord, NEW online, NEW expired
  PROVE  /\ EndsLost(r, r) /\ EndsLost(r, NoJob)
         /\ EndsLost(r, MarkLost(j, r))
         /\ EndsLost(r, BeginRecovery(r))
         /\ EndsLost(r, DropCleanedUp(r))
         /\ EndsLost(r, Refresh(j, r, online, expired))
  <1>1. EndsLost(r, r) /\ EndsLost(r, NoJob)
    BY DEF EndsLost, NoJob, IsTerminal, TerminalStates
  <1>2. EndsLost(r, MarkLost(j, r))
    <2>1. CASE ~Present(r) \/ IsTerminal(r.life)
      BY <1>1, <2>1 DEF MarkLost
    <2>2. CASE ~(~Present(r) \/ IsTerminal(r.life))
      <3>1. MarkLost(j, r) = [r EXCEPT !.life = "Lost", !.exec = OwnExecutionState(j, r),
                                       !.recovering = FALSE]
        BY <2>2 DEF MarkLost
      <3>2. QED
        BY <3>1 DEF JobRecord, EndsLost
    <2>3. QED
      BY <2>1, <2>2
  <1>3. EndsLost(r, BeginRecovery(r))
    BY BeginRecoveryFacts DEF EndsLost
  <1>4. EndsLost(r, DropCleanedUp(r))
    BY <1>1 DEF DropCleanedUp
  <1>5. EndsLost(r, Refresh(j, r, online, expired))
    BY <1>1, <1>2, <1>3 DEF Refresh
  <1>6. QED
    BY <1>1, <1>2, <1>3, <1>4, <1>5

(* One record changes and no request does. *)
LEMMA PlainUpdate ==
  ASSUME RecordsInv, DispatchInv, NEW k \in Jobs, NEW q, EndsLost(jobs[k], q),
         jobs' = [jobs EXCEPT ![k] = q], pend' = pend,
         overturned' = overturned, known' = known
  PROVE  PlainStep
  <1>1. \A j \in Jobs : jobs'[j] = IF j = k THEN q ELSE jobs[j]
    BY DEF RecordsInv, RecordsTyped
  <1>2. \A j \in Jobs : EndsLost(jobs[j], jobs'[j])
    BY <1>1 DEF EndsLost
  <1>3. QED
    BY <1>2 DEF PlainStep

(* One record changes and its request is dropped. *)
LEMMA PlainDrop ==
  ASSUME RecordsInv, DispatchInv, NEW k \in Jobs, NEW q,
         jobs' = [jobs EXCEPT ![k] = q],
         pend'[k] = "none", \A j \in Jobs \ {k} : pend'[j] = pend[j],
         overturned' = overturned, known' = known
  PROVE  PlainStep
  <1>1. \A j \in Jobs \ {k} : jobs'[j] = jobs[j]
    BY DEF RecordsInv, RecordsTyped
  <1>2. \A j \in Jobs : pend'[j] = "sent" => EndsLost(jobs[j], jobs'[j])
    BY <1>1 DEF EndsLost
  <1>3. QED
    BY <1>2 DEF PlainStep

(* The client's operations. *)
LEMMA ClientLate ==
  ASSUME RecordsInv, DispatchInv, LateInv, ClientStep
  PROVE  LateInv'
  <1> SUFFICES ASSUME NEW j \in Jobs,
                      \/ \E vis \in {"Hidden", "Public"} : StartJob(j, vis)
                      \/ \E expired \in BOOLEAN : \/ ReadJob(j, expired)
                                                  \/ StopJob(j, expired)
                                                  \/ PromoteHiddenJob(j, expired)
                      \/ RecordCleanupIntent(j)
                      \/ RemoveProjected(j)
               PROVE  LateInv'
    BY DEF ClientStep
  <1>0. /\ jobs \in [Jobs -> JobRecord] /\ jobs[j] \in JobRecord
        /\ pend \in [Jobs -> {"none", "queued", "sent"}]
        /\ overturned \subseteq Jobs
    BY DEF RecordsInv, RecordsTyped, DispatchInv
  <1>1. ASSUME NEW vis \in {"Hidden", "Public"}, StartJob(j, vis)
        PROVE  LateInv'
    <2>1. /\ j \notin known /\ known' = known \cup {j} /\ overturned' = overturned
          /\ pend'[j] = "queued" /\ \A k \in Jobs \ {j} : pend'[k] = pend[k]
          /\ \A k \in Jobs \ {j} : jobs'[k] = jobs[k]
      BY <1>0, <1>1 DEF StartJob
    <2>2. QED
      BY <1>0, <2>1 DEF LateInv
  <1>2. ASSUME NEW expired \in BOOLEAN, ReadJob(j, expired)
        PROVE  PlainStep
    <2> DEFINE r == Refresh(j, jobs[j], lease.online, expired)
    <2>1. EndsLost(jobs[j], r)
      BY <1>0, EndsLostFacts
    <2>2. /\ jobs' = [jobs EXCEPT ![j] = r] /\ pend' = pend
          /\ overturned' = overturned /\ known' = known
      BY <1>2 DEF ReadJob
    <2> HIDE DEF r
    <2>3. QED
      BY <2>1, <2>2, PlainUpdate
  <1>3. ASSUME NEW expired \in BOOLEAN, StopJob(j, expired)
        PROVE  PlainStep
    <2> DEFINE r == Refresh(j, jobs[j], lease.online, expired)
               asked == [r EXCEPT !.life = "StopRequested"]
               stopped == StoppedBeforeDispatch(j, r)
    <2>1. r \in JobRecord /\ EndsLost(jobs[j], r)
      BY <1>0, EndsLostFacts, RefreshFacts
    <2>2. EndsLost(jobs[j], asked)
      BY <2>1 DEF EndsLost, JobRecord, IsTerminal, TerminalStates
    <2>3. overturned' = overturned /\ known' = known
      BY <1>3 DEF StopJob
    <2>4. \/ jobs' = [jobs EXCEPT ![j] = stopped] /\ DropStartRequest(j)
          \/ jobs' = [jobs EXCEPT ![j] = asked] /\ pend' = pend
          \/ jobs' = [jobs EXCEPT ![j] = r] /\ pend' = pend
      BY <1>3 DEF StopJob
    <2> HIDE DEF r, asked, stopped
    <2>5. CASE jobs' = [jobs EXCEPT ![j] = stopped] /\ DropStartRequest(j)
      <3>1. pend'[j] = "none" /\ \A k \in Jobs \ {j} : pend'[k] = pend[k]
        BY <1>0, <2>5 DEF DropStartRequest
      <3>2. QED
        BY <2>3, <2>5, <3>1, PlainDrop
    <2>6. QED
      BY <2>1, <2>2, <2>3, <2>4, <2>5, PlainUpdate
  <1>4. ASSUME NEW expired \in BOOLEAN, PromoteHiddenJob(j, expired)
        PROVE  PlainStep
    <2> DEFINE r == Refresh(j, jobs[j], lease.online, expired)
               q == IF r.vis = "Hidden" /\ ~IsTerminal(r.life)
                    THEN [r EXCEPT !.vis = "Public"] ELSE r
    <2>1. r \in JobRecord /\ EndsLost(jobs[j], r)
      BY <1>0, EndsLostFacts, RefreshFacts
    <2>2. q.life = r.life
      BY <2>1 DEF JobRecord
    <2>3. /\ jobs' = [jobs EXCEPT ![j] = q] /\ pend' = pend
          /\ overturned' = overturned /\ known' = known
      BY <1>4 DEF PromoteHiddenJob
    <2> HIDE DEF q, r
    <2>4. EndsLost(jobs[j], q)
      BY <2>1, <2>2 DEF EndsLost
    <2>5. QED
      BY <2>3, <2>4, PlainUpdate
  <1>5. ASSUME RecordCleanupIntent(j)
        PROVE  PlainStep
    BY <1>5 DEF RecordCleanupIntent, PlainStep, EndsLost
  <1>6. ASSUME RemoveProjected(j)
        PROVE  PlainStep
    <2>1. /\ jobs' = [jobs EXCEPT ![j] = NoJob]
          /\ pend'[j] = "none" /\ \A k \in Jobs \ {j} : pend'[k] = pend[k]
          /\ overturned' = overturned /\ known' = known
      BY <1>0, <1>6 DEF RemoveProjected, DropStartRequest
    <2>2. QED
      BY <2>1, PlainDrop
  <1>7. QED
    BY <1>1, <1>2, <1>3, <1>4, <1>5, <1>6, PlainPreserves

(* Registration: an inventory that ends a Job takes its request away.      *)
LEMMA RegisterLate ==
  ASSUME RecordsInv, DispatchInv, NEW i, NEW conn, NEW inv, NEW late,
         Register(i, conn, inv, late)
  PROVE  PlainStep
  <1> DEFINE gone == late \cup Orphaned(i, inv) \cup Missing(i, inv)
             ended == EndedByInventory(i, inv, late)
  <1>1. /\ pend' = [j \in Jobs |-> IF j \in gone \cup ended THEN "none" ELSE pend[j]]
        /\ jobs' = [j \in Jobs |-> Reconciled(i, inv, late, j)]
        /\ overturned' = overturned /\ known' = known
    BY DEF Register
  <1>2. ASSUME NEW j \in Jobs, j \notin gone \cup ended
        PROVE  EndsLost(jobs[j], Reconciled(i, inv, late, j))
    <2> DEFINE a == AfterLosses(i, inv, late, j)
               b == IF j \notin DOMAIN inv THEN a
                    ELSE IF Rebuilds(i, j, inv, a) THEN RecordFromSnapshot(i, inv[j])
                    ELSE IF Present(a) /\ TakesSnapshot(i, j, inv, a)
                         THEN ApplySnapshot(a, i, inv[j])
                    ELSE a
    <2>1. jobs[j] \in JobRecord
      BY DEF RecordsInv, RecordsTyped
    <2>2. a = jobs[j] \/ a = DropCleanedUp(jobs[j])
      BY <1>2 DEF AfterLosses
    <2>3. a \in JobRecord /\ EndsLost(jobs[j], a)
      BY <2>1, <2>2, EndsLostFacts, DropCleanedUpFacts
    <2>4. j \in DOMAIN inv /\ (Rebuilds(i, j, inv, a) \/ (Present(a) /\ TakesSnapshot(i, j, inv, a)))
              => ~IsTerminal(inv[j].life)
      BY <1>2 DEF EndedByInventory
    <2>5. Reconciled(i, inv, late, j) = DropCleanedUp(b)
      BY DEF Reconciled
    <2> HIDE DEF a
    <2>6. b = a \/ ~IsTerminal(b.life)
      <3>1. /\ RecordFromSnapshot(i, inv[j]).life = inv[j].life
            /\ ApplySnapshot(a, i, inv[j]).life = inv[j].life
        BY <2>3 DEF RecordFromSnapshot, ApplySnapshot, JobRecord, NoJob
      <3>2. QED
        BY <2>4, <3>1
    <2> HIDE DEF b
    <2>7. DropCleanedUp(b) = b \/ DropCleanedUp(b) = NoJob
      BY DEF DropCleanedUp
    <2>8. EndsLost(jobs[j], b) /\ EndsLost(jobs[j], NoJob)
      BY <2>3, <2>6 DEF EndsLost, NoJob, IsTerminal, TerminalStates
    <2>9. QED
      BY <2>5, <2>7, <2>8
  <1> HIDE DEF gone, ended
  <1>3. QED
    BY <1>1, <1>2 DEF PlainStep

(* What Runner processes send: a result takes the request of its Job away, *)
(* and the Job it overturns was lost.                                      *)
LEMMA RunnerLate ==
  ASSUME RecordsInv, DispatchInv, RequestsInv, LateInv, RunnerStep
  PROVE  LateInv'
  <1>0. /\ jobs \in [Jobs -> JobRecord] /\ \A j \in Jobs : jobs[j] \in JobRecord
        /\ pend \in [Jobs -> {"none", "queued", "sent"}]
        /\ overturned \subseteq Jobs
    BY DEF RecordsInv, RecordsTyped, DispatchInv
  <1>1. ASSUME NEW s \in sessions, Poll(s)
        PROVE  LateInv'
    <2>0. overturned' = overturned /\ known' = known
      BY <1>1 DEF Poll
    <2>1. CASE jobs' = jobs /\ pend' = pend
      BY <2>0, <2>1 DEF LateInv
    <2>2. ASSUME NEW j \in Jobs, pend[j] = "queued", pend' = [pend EXCEPT ![j] = "sent"],
                 jobs' = [jobs EXCEPT ![j] = Dispatched(j, jobs[j])]
          PROVE  LateInv'
      <3>1. jobs[j].life = "Queued"
        BY <2>2 DEF RequestsInv, Agree
      <3>2. jobs'[j].life = "RunnerQueued"
        <4>1. Dispatched(j, jobs[j]).life = "RunnerQueued"
          BY <1>0, <3>1 DEF Dispatched, JobRecord
        <4>2. QED
          BY <1>0, <2>2, <4>1
      <3>3. \A k \in Jobs \ {j} : jobs'[k] = jobs[k] /\ pend'[k] = pend[k]
        BY <1>0, <2>2
      <3>4. j \notin overturned
        BY <2>2 DEF LateInv
      <3>5. QED
        BY <1>0, <2>0, <3>2, <3>3, <3>4 DEF LateInv, IsTerminal, TerminalStates
    <2>3. QED
      BY <1>1, <2>1, <2>2 DEF Poll
  <1>2. ASSUME NEW s \in sessions, Touch(s)
        PROVE  PlainStep
    BY <1>2 DEF Touch, PlainStep, EndsLost
  <1>3. ASSUME NEW s \in sessions, Disconnect(s)
        PROVE  PlainStep
    BY <1>3 DEF Disconnect, PlainStep
  <1>4. ASSUME NEW s \in sessions, NEW j \in Jobs, NEW u, UpdateJob(s, j, u)
        PROVE  PlainStep
    <2>0. overturned' = overturned /\ known' = known
      BY <1>4 DEF UpdateJob
    <2>1. CASE jobs' = jobs /\ pend' = pend
      BY <2>0, <2>1 DEF PlainStep, EndsLost
    <2> DEFINE a == ApplyUpdate(j, jobs[j], u)
               q == DropCleanedUp(a)
    <2>2. CASE /\ jobs' = [jobs EXCEPT ![j] = q] /\ IsTerminal(a.life)
               /\ pend' = [pend EXCEPT ![j] = "none"]
      <3>1. pend'[j] = "none" /\ \A k \in Jobs \ {j} : pend'[k] = pend[k]
        BY <1>0, <2>2
      <3> HIDE DEF q
      <3>2. QED
        BY <2>0, <2>2, <3>1, PlainDrop
    <2>3. CASE jobs' = [jobs EXCEPT ![j] = q] /\ ~IsTerminal(a.life) /\ pend' = pend
      <3> HIDE DEF a
      <3>1. EndsLost(jobs[j], q)
        BY <2>3 DEF DropCleanedUp, EndsLost
      <3> HIDE DEF q
      <3>2. QED
        BY <2>0, <2>3, <3>1, PlainUpdate
    <2>4. QED
      BY <1>4, <2>1, <2>2, <2>3 DEF UpdateJob
  <1>5. ASSUME NEW s \in sessions, NEW j \in Jobs, NEW success,
               s.inst \in handed[j], CompleteJob(s, j, success)
        PROVE  LateInv'
    <2>1. CASE pend[j] # "sent"
      BY <1>5, <2>1 DEF CompleteJob, LateInv
    <2>2. CASE pend[j] = "sent"
      <3>1. /\ known' = known /\ overturned' \subseteq overturned \cup {j}
            /\ pend'[j] = "none"
            /\ \A k \in Jobs \ {j} : jobs'[k] = jobs[k] /\ pend'[k] = pend[k]
        BY <1>0, <1>5, <2>2 DEF CompleteJob
      <3>2. j \in known
        BY <1>5 DEF DispatchInv
      <3>3. QED
        BY <1>0, <3>1, <3>2 DEF LateInv
    <2>3. QED
      BY <2>1, <2>2
  <1>6. QED
    BY <1>1, <1>2, <1>3, <1>4, <1>5, RegisterLate, PlainPreserves DEF RunnerStep

(* The periodic sweep. *)
LEMMA SweepLate ==
  ASSUME RecordsInv, DispatchInv, Sweep
  PROVE  PlainStep
  <1>0. /\ jobs \in [Jobs -> JobRecord] /\ \A j \in Jobs : jobs[j] \in JobRecord
        /\ pend \in [Jobs -> {"none", "queued", "sent"}]
    BY DEF RecordsInv, RecordsTyped, DispatchInv
  <1>1. ASSUME NEW late, ExpireRecovering(late)
        PROVE  PlainStep
    <2>1. /\ \A j \in Jobs : j \notin late => jobs'[j] = DropCleanedUp(jobs[j])
          /\ \A j \in Jobs : pend'[j] = IF j \in late THEN "none" ELSE pend[j]
          /\ overturned' = overturned /\ known' = known
      BY <1>1 DEF ExpireRecovering, DropRequestsOf
    <2>2. \A j \in Jobs : EndsLost(jobs[j], DropCleanedUp(jobs[j]))
      BY <1>0, EndsLostFacts
    <2>3. QED
      BY <2>1, <2>2 DEF PlainStep
  <1>2. ASSUME NEW j \in Jobs, PruneTerminal(j)
        PROVE  PlainStep
    <2>1. /\ jobs' = [jobs EXCEPT ![j] = NoJob]
          /\ pend'[j] = "none" /\ \A k \in Jobs \ {j} : pend'[k] = pend[k]
          /\ overturned' = overturned /\ known' = known
      BY <1>2 DEF PruneTerminal, DropRequestsOf
    <2>2. QED
      BY <2>1, PlainDrop
  <1>3. ASSUME NEW j \in Jobs, ForgetSuppression(j)
        PROVE  PlainStep
    BY <1>3 DEF ForgetSuppression, PlainStep, EndsLost
  <1>4. ASSUME NEW j \in Jobs, NEW expired \in BOOLEAN, CancelHiddenJob(j, expired)
        PROVE  PlainStep
    <2> DEFINE r == Refresh(j, jobs[j], lease.online, expired)
               asked == [r EXCEPT !.vis = "Cleanup", !.life = "StopRequested"]
               hidden == [r EXCEPT !.vis = "Cleanup"]
    <2>1. r \in JobRecord /\ EndsLost(jobs[j], r)
      BY <1>0, EndsLostFacts, RefreshFacts
    <2>2. asked.life = "StopRequested" /\ hidden.life = r.life
      BY <2>1 DEF JobRecord
    <2>3. overturned' = overturned /\ known' = known
      BY <1>4 DEF CancelHiddenJob
    <2>4. \/ jobs' = [jobs EXCEPT ![j] = r] /\ pend' = pend
          \/ jobs' = [jobs EXCEPT ![j] = NoJob] /\ DropStartRequest(j)
          \/ jobs' = [jobs EXCEPT ![j] = NoJob] /\ pend' = pend
          \/ jobs' = [jobs EXCEPT ![j] = asked] /\ pend' = pend
          \/ jobs' = [jobs EXCEPT ![j] = hidden] /\ pend' = pend
      BY <1>4 DEF CancelHiddenJob
    <2> HIDE DEF r, asked, hidden
    <2>5. EndsLost(jobs[j], asked) /\ EndsLost(jobs[j], hidden)
      BY <2>1, <2>2 DEF EndsLost, IsTerminal, TerminalStates
    <2>6. EndsLost(jobs[j], NoJob)
      BY <1>0, EndsLostFacts
    <2>7. CASE jobs' = [jobs EXCEPT ![j] = NoJob] /\ DropStartRequest(j)
      <3>1. pend'[j] = "none" /\ \A k \in Jobs \ {j} : pend'[k] = pend[k]
        BY <1>0, <2>7 DEF DropStartRequest
      <3>2. QED
        BY <2>3, <2>7, <3>1, PlainDrop
    <2>8. QED
      BY <2>1, <2>3, <2>4, <2>5, <2>6, <2>7, PlainUpdate
  <1>5. ASSUME ExpireLease
        PROVE  PlainStep
    BY <1>5 DEF ExpireLease, PlainStep
  <1>6. QED
    BY <1>1, <1>2, <1>3, <1>4, <1>5 DEF Sweep

(* Every step keeps it. *)
LEMMA LateNext ==
  RecordsInv /\ DispatchInv /\ RequestsInv /\ LateInv /\ [Next]_vars => LateInv'
  <1> SUFFICES ASSUME RecordsInv, DispatchInv, RequestsInv, LateInv, [Next]_vars
               PROVE  LateInv'
    OBVIOUS
  <1>1. CASE StorageStep \/ GoStale \/ UNCHANGED vars
    <2>1. UNCHANGED <<jobs, pend, known, overturned>>
      BY <1>1 DEF StorageStep, LoseReceipt, WriteReceipt, GoStale, vars
    <2>2. QED
      BY <2>1 DEF LateInv
  <1>2. CASE Restart
    <2>1. PlainStep
      BY <1>2 DEF Restart, PlainStep
    <2>2. QED
      BY <2>1, PlainPreserves
  <1>3. QED
    BY <1>1, <1>2, RunnerLate, ClientLate, SweepLate, PlainPreserves DEF Next

-------------------------------------------------------------------------------
(* The types of the rest. *)

(* The rest of the state: the lease, the sessions and the small sets. *)
LeaseTyped ==
    /\ lease \in [inst: Instances \cup {NoInst}, conn: 0..MaxConns,
                  online: BOOLEAN, attached: BOOLEAN]
    /\ retired \in Seq(Instances) /\ Len(retired) <= MaxRetired
    /\ sessions \subseteq Session
    /\ conns \in 0..MaxConns
    /\ intents \subseteq Jobs
    /\ suppressed \subseteq Jobs
    /\ known \subseteq Jobs

(* The record of an absent registration is a lease. *)
LEMMA NoLeaseType ==
  NoLease \in [inst: Instances \cup {NoInst}, conn: 0..MaxConns,
               online: BOOLEAN, attached: BOOLEAN]
  BY RegistryAssumption DEF NoLease

(* A process that is replaced enters the bounded list of retired ones, and *)
(* a connection number stays within its bound.                             *)
LEMMA RegisterTyped ==
  ASSUME LeaseTyped, NEW i \in Instances, NEW conn \in NewConnection,
         NEW inv, NEW late, Register(i, conn, inv, late)
  PROVE  LeaseTyped'
  <1>0. /\ lease.inst \in Instances \cup {NoInst}
        /\ retired \in Seq(Instances) /\ Len(retired) <= MaxRetired
        /\ conns \in 0..MaxConns
        /\ MaxRetired \in Nat \ {0} /\ MaxConns \in Nat
    BY RegistryAssumption DEF LeaseTyped
  <1>1. conn \in 0..MaxConns
    BY <1>0 DEF NewConnection
  <1>2. /\ lease' = [inst |-> i, conn |-> conn, online |-> TRUE, attached |-> conn # 0]
        /\ conns' = IF conn = 0 THEN conns ELSE conn
        /\ sessions' = sessions \cup {[inst |-> i, conn |-> conn]}
        /\ suppressed' = IF lease.inst = i THEN suppressed ELSE {}
        /\ intents' = intents /\ known' = known
    BY DEF Register
  <1>3. lease' \in [inst: Instances \cup {NoInst}, conn: 0..MaxConns,
                    online: BOOLEAN, attached: BOOLEAN]
    <2>1. (conn # 0) \in BOOLEAN
      OBVIOUS
    <2>2. QED
      BY <1>1, <1>2, <2>1
  <1>4. conns' \in 0..MaxConns
    BY <1>0, <1>1, <1>2
  <1>5. sessions' \subseteq Session
    BY <1>1, <1>2 DEF LeaseTyped, Session
  <1>6. retired' \in Seq(Instances) /\ Len(retired') <= MaxRetired
    <2>1. CASE lease.inst \in {NoInst, i}
      BY <1>0, <2>1 DEF Register
    <2>2. CASE lease.inst \notin {NoInst, i} /\ Len(retired) < MaxRetired
      <3>1. retired' = Append(retired, lease.inst) /\ lease.inst \in Instances
        BY <1>0, <2>2 DEF Register
      <3>2. QED
        BY <1>0, <2>2, <3>1
    <2>3. CASE lease.inst \notin {NoInst, i} /\ ~(Len(retired) < MaxRetired)
      <3>1. retired' = Append(Tail(retired), lease.inst) /\ lease.inst \in Instances
        BY <1>0, <2>3 DEF Register
      <3>2. Len(retired) = MaxRetired /\ retired # <<>>
        BY <1>0, <2>3
      <3>3. Tail(retired) \in Seq(Instances) /\ Len(Tail(retired)) = MaxRetired - 1
        BY <1>0, <3>2
      <3>4. QED
        BY <1>0, <3>1, <3>3
    <2>4. QED
      BY <2>1, <2>2, <2>3
  <1>7. QED
    BY <1>2, <1>3, <1>4, <1>5, <1>6 DEF LeaseTyped

(* Every step keeps these types. *)
LEMMA LeaseTypedNext == LeaseTyped /\ [Next]_vars => LeaseTyped'
  <1> SUFFICES ASSUME LeaseTyped, [Next]_vars
               PROVE  LeaseTyped'
    OBVIOUS
  <1> DEFINE L == [inst: Instances \cup {NoInst}, conn: 0..MaxConns,
                   online: BOOLEAN, attached: BOOLEAN]
  <1>0. lease \in L
    BY DEF LeaseTyped
  <1>1. ASSUME NEW s \in sessions, Poll(s) \/ Touch(s)
        PROVE  LeaseTyped'
    <2>1. /\ lease' = [lease EXCEPT !.online = TRUE]
          /\ UNCHANGED <<retired, sessions, conns, intents, suppressed, known>>
      BY <1>1 DEF Poll, Touch
    <2>2. lease' \in L
      BY <1>0, <2>1
    <2>3. QED
      BY <2>1, <2>2 DEF LeaseTyped
  <1>2. ASSUME NEW s \in sessions, Disconnect(s)
        PROVE  LeaseTyped'
    <2>1. /\ lease' = [lease EXCEPT !.online = FALSE, !.attached = FALSE]
          /\ UNCHANGED <<retired, sessions, conns, intents, suppressed, known>>
      BY <1>2 DEF Disconnect
    <2>2. lease' \in L
      BY <1>0, <2>1
    <2>3. QED
      BY <2>1, <2>2 DEF LeaseTyped
  <1>3. ASSUME NEW s \in sessions, NEW j \in Jobs, NEW u, UpdateJob(s, j, u)
        PROVE  LeaseTyped'
    <2> DEFINE b == lease.online \/ HoldsLease(s)
    <2>1. /\ lease' = [lease EXCEPT !.online = b]
          /\ UNCHANGED <<retired, sessions, conns, intents, suppressed, known>>
      BY <1>3 DEF UpdateJob
    <2>2. b \in BOOLEAN
      OBVIOUS
    <2> HIDE DEF b
    <2>3. lease' \in L
      BY <1>0, <2>1, <2>2
    <2>4. QED
      BY <2>1, <2>3 DEF LeaseTyped
  <1>11. ASSUME NEW s \in sessions, NEW j \in Jobs, NEW success, CompleteJob(s, j, success)
         PROVE  LeaseTyped'
    <2> DEFINE b == lease.online \/ HoldsLease(s)
    <2>1. /\ lease' = [lease EXCEPT !.online = b]
          /\ UNCHANGED <<retired, sessions, conns, intents, suppressed, known>>
      BY <1>11 DEF CompleteJob
    <2>2. b \in BOOLEAN
      OBVIOUS
    <2> HIDE DEF b
    <2>3. lease' \in L
      BY <1>0, <2>1, <2>2
    <2>4. QED
      BY <2>1, <2>3 DEF LeaseTyped
  <1>4. CASE RunnerStep
    BY <1>1, <1>2, <1>3, <1>4, <1>11, RegisterTyped DEF RunnerStep
  <1>5. CASE ClientStep
    <2>1. PICK j \in Jobs :
              \/ \E vis \in {"Hidden", "Public"} : StartJob(j, vis)
              \/ \E expired \in BOOLEAN : \/ ReadJob(j, expired)
                                          \/ StopJob(j, expired)
                                          \/ PromoteHiddenJob(j, expired)
              \/ RecordCleanupIntent(j)
              \/ RemoveProjected(j)
      BY <1>5 DEF ClientStep
    <2>2. /\ UNCHANGED runnerVars
          /\ known' \in {known, known \cup {j}}
          /\ intents' \in {intents, intents \cup {j}}
          /\ suppressed' \in {suppressed, suppressed \cup {j}}
      BY <2>1 DEF StartJob, ReadJob, StopJob, PromoteHiddenJob, RecordCleanupIntent,
                  RemoveProjected
    <2>3. QED
      BY <2>2 DEF LeaseTyped, runnerVars
  <1>6. CASE Sweep
    <2>1. CASE ExpireLease
      <3>1. /\ lease' = NoLease /\ retired' = <<>> /\ suppressed' = {}
            /\ intents' \subseteq intents
            /\ UNCHANGED <<sessions, conns, known>>
        BY <2>1 DEF ExpireLease
      <3>2. <<>> \in Seq(Instances) /\ Len(<<>>) <= MaxRetired
        BY RegistryAssumption
      <3>3. QED
        BY <3>1, <3>2, NoLeaseType DEF LeaseTyped
    <2>2. CASE ~ExpireLease
      <3>1. /\ UNCHANGED <<runnerVars, known>>
            /\ intents' \subseteq intents
            /\ suppressed' \subseteq suppressed
        BY <1>6, <2>2 DEF Sweep, ExpireRecovering, PruneTerminal, ForgetSuppression,
                          CancelHiddenJob
      <3>2. QED
        BY <3>1 DEF LeaseTyped, runnerVars
    <2>3. QED
      BY <2>1, <2>2
  <1>7. CASE StorageStep \/ UNCHANGED vars
    <2>1. UNCHANGED <<runnerVars, known, intents, suppressed>>
      BY <1>7 DEF StorageStep, LoseReceipt, WriteReceipt, vars, runnerVars
    <2>2. QED
      BY <2>1 DEF LeaseTyped, runnerVars
  <1>8. CASE GoStale
    <2>1. /\ lease' = [lease EXCEPT !.online = FALSE]
          /\ UNCHANGED <<retired, sessions, conns, intents, suppressed, known>>
      BY <1>8 DEF GoStale
    <2>2. lease' \in L
      BY <1>0, <2>1
    <2>3. QED
      BY <2>1, <2>2 DEF LeaseTyped
  <1>9. CASE Restart
    <2>1. /\ lease' = NoLease /\ retired' = <<>> /\ suppressed' = {} /\ intents' = {}
          /\ UNCHANGED <<sessions, conns, known>>
      BY <1>9 DEF Restart
    <2>2. <<>> \in Seq(Instances) /\ Len(<<>>) <= MaxRetired
      BY RegistryAssumption
    <2>3. QED
      BY <2>1, <2>2, NoLeaseType DEF LeaseTyped
  <1>10. QED
    BY <1>4, <1>5, <1>6, <1>7, <1>8, <1>9 DEF Next

-------------------------------------------------------------------------------
(* The theorems about the types and the queue. *)

(* The inductive invariant of the whole registry. *)
RegistryInv == RecordsInv /\ DispatchInv /\ RequestsInv /\ LateInv /\ LeaseTyped

(* It holds initially. *)
LEMMA RegistryInit == ASSUME Init PROVE RegistryInv
  <1>1. RecordsInv
    BY RecordsInit
  <1>2. DispatchInv
    BY DEF Init, DispatchInv
  <1>3. RequestsInv
    <2>1. \A j \in Jobs : pend[j] # "queued" /\ jobs[j].life # "Queued"
      BY DEF Init, NoJob
    <2>2. queue = <<>>
      BY DEF Init
    <2>3. QED
      BY <2>1, <2>2, HoldsEmpty DEF RequestsInv, Agree
  <1>4. LeaseTyped
    <2>1. <<>> \in Seq(Instances) /\ Len(<<>>) <= MaxRetired /\ 0 \in 0..MaxConns
      BY RegistryAssumption
    <2>2. QED
      BY <2>1, NoLeaseType DEF Init, LeaseTyped
  <1>5. LateInv
    BY DEF Init, LateInv
  <1>6. QED
    BY <1>1, <1>2, <1>3, <1>4, <1>5 DEF RegistryInv

(* Every step keeps it. *)
LEMMA RegistryNext == ASSUME RegistryInv, [Next]_vars PROVE RegistryInv'
  BY RecordsNext, DispatchNext, RequestsNext, LateNext, LeaseTypedNext DEF RegistryInv

(* It holds in every reachable state. *)
THEOREM RegistryInvariant == Spec => []RegistryInv
  <1>1. RegistryInv /\ [Next]_vars => RegistryInv'
    BY RegistryNext
  <1>2. QED
    BY RegistryInit, <1>1, PTL DEF Spec

(* The requests that poll would have to skip: in the queue, but no longer  *)
(* pending.                                                                *)
NothingToSkip ==
    \A k \in 1..Len(queue), j \in Jobs : queue[k] = Start(j) => pend[j] = "queued"

(* The inductive invariant gives the properties. *)
LEMMA RegistryFacts ==
  ASSUME RegistryInv
  PROVE  /\ TypeOK /\ ActiveJobsOwnedByLease /\ QueuedExactlyWhenRequested
         /\ HandedOutAtMostOnce /\ NothingToSkip
  <1>1. TypeOK
    <2>1. { s.inst : s \in sessions } \subseteq Instances
      BY DEF RegistryInv, LeaseTyped, Session
    <2>2. handed \in [Jobs -> SUBSET Instances]
      BY <2>1 DEF RegistryInv, DispatchInv
    <2>3. QED
      BY <2>2 DEF RegistryInv, RecordsInv, RecordsTyped, DispatchInv, RequestsInv,
                  Holds, LeaseTyped, TypeOK
  <1>2. ActiveJobsOwnedByLease
    BY DEF RegistryInv, RecordsInv, Owned, ActiveJobsOwnedByLease
  <1>3. QueuedExactlyWhenRequested
    BY DEF RegistryInv, RequestsInv, Holds, Agree, Count, Places, Start,
           QueuedExactlyWhenRequested
  <1>4. HandedOutAtMostOnce
    BY HandedOnce DEF RegistryInv
  <1>5. NothingToSkip
    <2> SUFFICES ASSUME NEW k \in 1..Len(queue), NEW j \in Jobs,
                        queue[k] = Start(j), pend[j] # "queued"
                 PROVE  FALSE
      BY DEF NothingToSkip
    <2>1. queue \in Seq(Request) /\ Count(queue, Start(j)) = 0
      BY DEF RegistryInv, RequestsInv, Holds
    <2>2. Places(queue, Start(j)) = {}
      BY <2>1, PlacesFinite, FS_EmptySet DEF Count
    <2>3. QED
      BY <2>2 DEF Places
  <1>6. QED
    BY <1>1, <1>2, <1>3, <1>4, <1>5

(* Type correctness: in particular the queue and the list of retired       *)
(* processes never exceed their bounds.                                    *)
THEOREM RegistryTypes == Spec => []TypeOK
  BY RegistryFacts, RegistryInvariant, PTL

(* A Job is queued exactly when its start request is pending and           *)
(* undispatched, and that request is then in the queue exactly once.       *)
THEOREM QueueSafe == Spec => []QueuedExactlyWhenRequested
  BY RegistryFacts, RegistryInvariant, PTL

(* A late result replaces nothing but a loss that the Server declared by   *)
(* itself, and does so once: afterwards only a restart changes the verdict *)
(* of the record, back to the receipt's.                                   *)
THEOREM OverturnsSafe == Spec => OnlyLossesOverturned
  <1> DEFINE Overturns == \A j \in overturned' :
          /\ j \notin overturned => jobs[j].life = "Lost"
          /\ /\ j \in overturned /\ IsTerminal(jobs[j].life)
             /\ jobs[j].vis # "Cleanup" /\ Present(jobs'[j])
             => \/ /\ jobs'[j].life = jobs[j].life
                   /\ jobs'[j].exec = jobs[j].exec
                \/ jobs'[j].hydrated /\ lease'.inst = NoInst
  <1>1. RegistryInv /\ [Next]_vars => [Overturns]_vars
    <2> SUFFICES ASSUME RegistryInv, [Next]_vars, ~UNCHANGED vars
                 PROVE  Overturns
      OBVIOUS
    <2>1. VerdictStep /\ RegistryInv' /\ LateInv
      BY RecordsNext, RegistryNext DEF RegistryInv
    <2>2. overturned' \subseteq Jobs
      BY <2>1 DEF RegistryInv, RecordsInv, RecordsTyped
    <2> SUFFICES ASSUME NEW j \in overturned'
                 PROVE  /\ j \notin overturned => jobs[j].life = "Lost"
                        /\ /\ j \in overturned /\ IsTerminal(jobs[j].life)
                           /\ jobs[j].vis # "Cleanup" /\ Present(jobs'[j])
                           => \/ /\ jobs'[j].life = jobs[j].life
                                 /\ jobs'[j].exec = jobs[j].exec
                              \/ jobs'[j].hydrated /\ lease'.inst = NoInst
      OBVIOUS
    <2>3. j \notin overturned => jobs[j].life = "Lost"
      BY <2>1, <2>2 DEF VerdictStep, Answered, LateInv
    <2>4. j \in overturned => ~Answered(j)
      BY <2>1 DEF Answered, LateInv
    <2>5. QED
      BY <2>1, <2>2, <2>3, <2>4 DEF VerdictStep, Same
  <1>2. OnlyLossesOverturned <=> [][Overturns]_vars
    BY DEF OnlyLossesOverturned
  <1> HIDE DEF Overturns
  <1>3. QED
    BY <1>1, <1>2, RegistryInvariant, PTL DEF Spec

(* poll never meets a start request that is no longer pending, so the loop *)
(* that skips such entries ends at the first one.                          *)
THEOREM PollSkipsNothing == Spec => []NothingToSkip
  BY RegistryFacts, RegistryInvariant, PTL
===============================================================================
