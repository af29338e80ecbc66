---------------------------- MODULE RunnerRegistry ----------------------------
(***************************************************************************)
(* The Server's registry of one logical Runner and of the Jobs admitted    *)
(* for it.  Every operation runs under the registry's async mutex, so each *)
(* is one action; what happens after the unlock (the write of a terminal   *)
(* receipt to SQLite) is an action of its own.                             *)
(*                                                                         *)
(* Runner processes ("instances") are the environment: a registration      *)
(* installs an instance as the lease holder and any session ever           *)
(* established may still deliver polls, updates, results and disconnects.  *)
(* What a Runner says about a Job it was handed is unconstrained here.     *)
(*                                                                         *)
(* Clocks are abstracted: the online window may elapse, a recovery         *)
(* deadline may pass and a retention period may end at any moment.         *)
(***************************************************************************)
EXTENDS JobLifecycle, Integers, Sequences, FiniteSets

CONSTANTS
    Jobs,         \* Job identities, each admitted once
    Instances,    \* Runner processes that may ever hold the lease
    NoInst,       \* no Runner is registered
    Structured,   \* Jobs that run a typed process or script
    Detached,     \* structured Jobs that outlive their Runner process
    Reports,      \* <<lifecycle, execution state>> pairs a Runner may report
    Results,      \* results that may answer a start request: TRUE is a success
    MaxSeq,       \* bound on update sequence numbers
    MaxConns,     \* bound on streaming connections (a UUID each in the code)
    MaxRetired,   \* MAX_RETIRED_INSTANCES_PER_RUNNER
    QueueCap,     \* MAX_QUEUED_REQUESTS_PER_RUNNER
    MaxReceipts   \* JOB_INVENTORY_MAX_TERMINAL_JOBS, receipts per Runner

ASSUME RegistryAssumption ==
    /\ NoInst \notin Instances
    /\ Detached \subseteq Structured
    /\ Structured \subseteq Jobs
    /\ Reports \subseteq (RunnerActiveStates \cup TerminalStates) \X ExecutionStates
    /\ Results \subseteq BOOLEAN
    /\ MaxSeq \in Nat /\ MaxConns \in Nat
    /\ MaxRetired \in Nat \ {0} /\ QueueCap \in Nat /\ MaxReceipts \in Nat

VARIABLES
    lease,      \* the Runner record: lease holder, connection, liveness
    retired,    \* replaced instances, oldest first
    sessions,   \* sessions ever established; any may still deliver messages
    conns,      \* number of streaming connections handed out
    jobs,       \* jobs_by_id
    pend,       \* the Job's start request in pending_by_id, if any
    queue,      \* queues_by_runner: requests not yet dispatched
    handed,     \* instances that were handed the Job's start request
    intents,    \* hidden Jobs whose cleanup is to be retried
    suppressed, \* results already projected: never to be reconstructed
    unwritten,  \* receipts captured at an unlock and not yet stored
    receipts,   \* wc_job_receipts, durable
    known,      \* Jobs that were ever admitted
    overturned  \* history: Jobs whose verdict a late result replaced

vars == <<lease, retired, sessions, conns, jobs, pend, queue, handed, intents,
          suppressed, unwritten, receipts, known, overturned>>

runnerVars == <<lease, retired, sessions, conns>>

-------------------------------------------------------------------------------
(* Records *)

Visibilities == {"Hidden", "Public", "Cleanup"}

(* The Server's record of a Job.  Runners that number their updates never  *)
(* report the historical value "started".                                  *)
JobRecord ==
    [life: (Lifecycles \ {"StartedLegacy"}) \cup {"Absent"},
     inst: Instances \cup {NoInst},
     vis: Visibilities, seq: 0..MaxSeq, recovering: BOOLEAN, started: BOOLEAN,
     exec: ExecutionStates, candidate: BOOLEAN, hydrated: BOOLEAN]

(* No entry in jobs_by_id. *)
NoJob == [life |-> "Absent", inst |-> NoInst, vis |-> "Public", seq |-> 0,
          recovering |-> FALSE, started |-> FALSE, exec |-> "none",
          candidate |-> FALSE, hydrated |-> FALSE]

Present(r) == r.life # "Absent"

(* recovery_active: the overlay counts only over a Runner-owned execution. *)
RecoveryActive(r) == IsRunnerActive(r.life) /\ r.recovering

Session == [inst: Instances, conn: 0..MaxConns]  \* conn 0: HTTP polling

Request == [kind: {"start", "stop"}, job: Jobs]

Report == [life: RunnerActiveStates \cup TerminalStates, exec: ExecutionStates,
           seq: 1..MaxSeq, started: BOOLEAN]

TypeOK ==
    /\ lease \in [inst: Instances \cup {NoInst}, conn: 0..MaxConns,
                  online: BOOLEAN, attached: BOOLEAN]
    /\ retired \in Seq(Instances) /\ Len(retired) <= MaxRetired
    /\ sessions \subseteq Session
    /\ conns \in 0..MaxConns
    /\ jobs \in [Jobs -> JobRecord]
    /\ pend \in [Jobs -> {"none", "queued", "sent"}]
    /\ queue \in Seq(Request) /\ Len(queue) <= QueueCap
    /\ handed \in [Jobs -> SUBSET Instances]
    /\ intents \subseteq Jobs
    /\ suppressed \subseteq Jobs
    /\ unwritten \subseteq [job: Jobs, rec: JobRecord]
    /\ receipts \in [Jobs -> JobRecord]
    /\ known \subseteq Jobs
    /\ overturned \subseteq Jobs

(* No entry in runners: nothing registered, or the registration expired. *)
NoLease == [inst |-> NoInst, conn |-> 0, online |-> FALSE, attached |-> FALSE]

Init ==
    /\ lease = NoLease
    /\ retired = <<>>
    /\ sessions = {}
    /\ conns = 0
    /\ jobs = [j \in Jobs |-> NoJob]
    /\ pend = [j \in Jobs |-> "none"]
    /\ queue = <<>>
    /\ handed = [j \in Jobs |-> {}]
    /\ intents = {}
    /\ suppressed = {}
    /\ unwritten = {}
    /\ receipts = [j \in Jobs |-> NoJob]
    /\ known = {}
    /\ overturned = {}

-------------------------------------------------------------------------------
(* State transformers shared by the operations, each on one Job record. *)

(* What the Server says of the command when it must decide by itself. *)
OwnExecutionState(j, r) ==
    IF j \in Structured
    THEN IF r.started THEN "OutcomeUnknown" ELSE "NotStarted"
    ELSE r.exec

(* Mutant: without the guard for records that have ended. *)
MarkLostUnguarded(j, r) ==
    IF ~Present(r) THEN r
    ELSE [r EXCEPT !.life = "Lost", !.exec = OwnExecutionState(j, r),
                   !.recovering = FALSE]

MarkLost(j, r) ==
    IF ~Present(r) \/ IsTerminal(r.life) THEN r
    ELSE [r EXCEPT !.life = "Lost", !.exec = OwnExecutionState(j, r),
                   !.recovering = FALSE]

BeginRecovery(r) ==
    IF IsRunnerActive(r.life) THEN [r EXCEPT !.recovering = TRUE] ELSE r

(* refresh_job_status_locked, before most reads and before every control   *)
(* operation.  The request of a Job it loses stays in pending_by_id.       *)
Refresh(j, r, online, expired) ==
    IF ~IsRunnerActive(r.life) THEN r
    ELSE IF RecoveryActive(r) THEN IF expired THEN MarkLost(j, r) ELSE r
    ELSE IF online THEN r ELSE BeginRecovery(r)

(* remove_cleanup_terminal_jobs_locked *)
DropCleanedUp(r) ==
    IF r.vis = "Cleanup" /\ IsTerminal(r.life) THEN NoJob ELSE r

(* A Runner update that passed the ownership and sequence checks. *)
ApplyUpdate(j, r, u) ==
    IF ValidExecution(j \in Structured, r.started, u.life, u.exec)
    THEN [r EXCEPT !.life = u.life, !.seq = u.seq, !.recovering = FALSE,
                   !.started = @ \/ ( /\ u.exec # "NotStarted"
                                      /\ u.life \in {"Running", "Completed", "Failed",
                                                     "Stopped", "Timeout"} ),
                   !.exec = IF IsTerminal(u.life) THEN u.exec ELSE @]
    ELSE [r EXCEPT !.life = "Failed", !.seq = u.seq,
                   !.exec = OwnExecutionState(j, r)]

(* An inventory snapshot overrides the record of the same Job. *)
ApplySnapshot(r, i, s) ==
    [r EXCEPT !.life = s.life, !.seq = s.seq, !.started = s.started,
              !.exec = s.exec, !.recovering = FALSE, !.inst = i]

(* A record rebuilt from a snapshot is public and no receipt candidate. *)
RecordFromSnapshot(i, s) ==
    [NoJob EXCEPT !.life = s.life, !.inst = i, !.seq = s.seq,
                  !.started = s.started, !.exec = s.exec]

(* The unlock boundary: Jobs that this operation ended, or whose end it    *)
(* replaced, and that are public and Server-admitted leave a receipt to be *)
(* stored.                                                                 *)
Captured(before, after) ==
    { [job |-> j, rec |-> after[j]] :
        j \in { k \in Jobs \ Detached :
                  /\ after[k].life # before[k].life
                  /\ IsTerminal(after[k].life)
                  /\ after[k].vis = "Public"
                  /\ after[k].candidate } }

CaptureReceipts == unwritten' = unwritten \cup Captured(jobs, jobs')

(* VecDeque::retain: the requests of q that are in K, in their order.  The *)
(* n-th of them stands at the position of q that has n kept ones up to it. *)
Retained(q, K) ==
    LET kept == { k \in 1..Len(q) : q[k] \in K }
        Rank(k) == Cardinality({ l \in kept : l <= k })
    IN  [n \in 1..Cardinality(kept) |-> q[CHOOSE k \in kept : Rank(k) = n]]

(* Requests of Jobs in S leave pending_by_id and the queue. *)
DropRequestsOf(S) ==
    /\ pend' = [j \in Jobs |-> IF j \in S THEN "none" ELSE pend[j]]
    /\ queue' = Retained(queue, { q \in Request : q.job \notin S })

(* Mutant: the pending entry goes, the queued request stays. *)
DropPendingOnly(j) ==
    /\ pend' = [pend EXCEPT ![j] = "none"]
    /\ queue' = queue

DropStartRequest(j) ==
    /\ pend' = [pend EXCEPT ![j] = "none"]
    /\ queue' = Retained(queue, Request \ {[kind |-> "start", job |-> j]})

(* Mutant: the queue's capacity is not checked. *)
CanEnqueueUnbounded == lease.inst # NoInst /\ lease.online

(* ensure_dispatch_supported_locked and ensure_queue_capacity_locked *)
CanEnqueue == lease.inst # NoInst /\ lease.online /\ Len(queue) < QueueCap

-------------------------------------------------------------------------------
(* Admission, dispatch and liveness. *)

(* start_job: the record and its start request appear together.  A Job is *)
(* admitted once: a UUID is fresh, and the identity of a detached Job,     *)
(* derived from the caller's key, is taken as used up by its first Job.    *)
StartJob(j, vis) ==
    /\ j \notin known /\ ~Present(jobs[j])
    /\ CanEnqueue
    /\ vis \in {"Hidden", "Public"}
    /\ jobs' = [jobs EXCEPT ![j] = [NoJob EXCEPT !.life = "Queued",
                    !.inst = lease.inst, !.vis = vis, !.candidate = TRUE]]
    /\ pend' = [pend EXCEPT ![j] = "queued"]
    /\ queue' = Append(queue, [kind |-> "start", job |-> j])
    /\ known' = known \cup {j}
    /\ UNCHANGED <<runnerVars, handed, intents, suppressed, unwritten, receipts,
                   overturned>>

(* A request over a session counts for the lease only when it comes from   *)
(* the lease holder and, for a streaming session, over its connection.     *)
HoldsLease(s) == s.inst = lease.inst /\ s.conn \in {0, lease.conn}

Dispatched(j, r) ==
    IF r.life = "Queued"
    THEN [r EXCEPT !.life = "RunnerQueued", !.started = j \notin Structured]
    ELSE r

(* poll: the oldest request leaves the queue.  A stop leaves no trace, a   *)
(* start stays pending until the Job ends.  An identity in the queue with  *)
(* no entry in pending_by_id would be skipped: there is none.              *)
Poll(s) ==
    /\ HoldsLease(s)
    /\ lease' = [lease EXCEPT !.online = TRUE]
    /\ queue # <<>>
    /\ queue' = Tail(queue)
    /\ \E j \in Jobs :
          \/ /\ Head(queue) = [kind |-> "stop", job |-> j]
             /\ UNCHANGED <<jobs, pend, handed>>
          \/ /\ Head(queue) = [kind |-> "start", job |-> j] /\ pend[j] = "queued"
             /\ pend' = [pend EXCEPT ![j] = "sent"]
             /\ jobs' = [jobs EXCEPT ![j] = Dispatched(j, @)]
             /\ handed' = [handed EXCEPT ![j] = @ \cup {s.inst}]
    /\ UNCHANGED <<retired, sessions, conns, intents, suppressed, unwritten,
                   receipts, known, overturned>>

(* A poll that finds nothing, or a keepalive on the lease's connection. *)
Touch(s) ==
    /\ HoldsLease(s)
    /\ s.conn = 0 => queue = <<>>
    /\ lease' = [lease EXCEPT !.online = TRUE]
    /\ UNCHANGED <<retired, sessions, conns, jobs, pend, queue, handed, intents,
                   suppressed, unwritten, receipts, known, overturned>>

(* RUNNER_ONLINE_WINDOW_SECS pass without a word from the Runner. *)
GoStale ==
    /\ lease.online
    /\ lease' = [lease EXCEPT !.online = FALSE]
    /\ UNCHANGED <<retired, sessions, conns, jobs, pend, queue, handed, intents,
                   suppressed, unwritten, receipts, known, overturned>>

-------------------------------------------------------------------------------
(* Observation and control by the client. *)

(* get_job, list_jobs and job_log refresh the record they read. *)
ReadJob(j, expired) ==
    /\ jobs' = [jobs EXCEPT ![j] = Refresh(j, @, lease.online, expired)]
    /\ CaptureReceipts
    /\ UNCHANGED <<runnerVars, pend, queue, handed, intents, suppressed, receipts,
                   known, overturned>>

StoppedBeforeDispatch(j, r) ==
    [r EXCEPT !.life = "Stopped",
              !.exec = IF j \in Structured THEN "NotStarted" ELSE @]

(* stop_job.  A stop of a recovering Job is refused, and one that cannot   *)
(* be queued leaves the Job as it was.                                     *)
StopJob(j, expired) ==
    LET r == Refresh(j, jobs[j], lease.online, expired)
        deliver == /\ r.vis = "Public"
                   /\ r.life \in {"RunnerQueued", "Running"}
                   /\ ~RecoveryActive(r)
                   /\ CanEnqueue
    IN  /\ \/ /\ r.vis = "Public" /\ r.life = "Queued"
              /\ jobs' = [jobs EXCEPT ![j] = StoppedBeforeDispatch(j, r)]
              /\ DropStartRequest(j)
           \/ /\ deliver
              /\ jobs' = [jobs EXCEPT ![j] = [r EXCEPT !.life = "StopRequested"]]
              /\ queue' = Append(queue, [kind |-> "stop", job |-> j])
              /\ pend' = pend
           \/ /\ ~deliver /\ ~(r.vis = "Public" /\ r.life = "Queued")
              /\ jobs' = [jobs EXCEPT ![j] = r]
              /\ UNCHANGED <<pend, queue>>
        /\ CaptureReceipts
        /\ UNCHANGED <<runnerVars, handed, intents, suppressed, receipts, known,
                       overturned>>

(* promote_hidden_job: the waiting tool call hands its Job to the client.  *)
(* A Job that is already terminal stays hidden: the caller returns it.     *)
PromoteHiddenJob(j, expired) ==
    LET r == Refresh(j, jobs[j], lease.online, expired)
    IN  /\ Present(jobs[j])
        /\ jobs' = [jobs EXCEPT ![j] =
                       IF r.vis = "Hidden" /\ ~IsTerminal(r.life)
                       THEN [r EXCEPT !.vis = "Public"] ELSE r]
        /\ CaptureReceipts
        /\ UNCHANGED <<runnerVars, pend, queue, handed, intents, suppressed,
                       receipts, known, overturned>>

(* record_hidden_cleanup_intent: the waiting tool call was dropped. *)
RecordCleanupIntent(j) ==
    /\ j \in known
    /\ intents' = intents \cup {j}
    /\ UNCHANGED <<runnerVars, jobs, pend, queue, handed, suppressed, unwritten,
                   receipts, known, overturned>>

(* process_hidden_cleanup_intents, one intent: an error other than an      *)
(* unknown Job keeps the intent for the next sweep.                        *)
CancelHiddenJob(j, expired) ==
    LET r == Refresh(j, jobs[j], lease.online, expired)
        mustStop == /\ Present(r) /\ r.vis # "Public"
                    /\ r.life \in {"RunnerQueued", "Running"}
                    /\ ~RecoveryActive(r)
    IN  /\ j \in intents
        /\ \/ /\ ~Present(r) \/ r.vis = "Public"
              /\ jobs' = [jobs EXCEPT ![j] = r]
              /\ UNCHANGED <<pend, queue>>
           \/ /\ Present(r) /\ r.vis # "Public"
              /\ r.life = "Queued" \/ IsTerminal(r.life)
              /\ jobs' = [jobs EXCEPT ![j] = NoJob]
              /\ IF r.life = "Queued" THEN DropStartRequest(j)
                                       ELSE UNCHANGED <<pend, queue>>
           \/ /\ mustStop /\ CanEnqueue
              /\ jobs' = [jobs EXCEPT ![j] = [r EXCEPT !.vis = "Cleanup",
                                                       !.life = "StopRequested"]]
              /\ queue' = Append(queue, [kind |-> "stop", job |-> j])
              /\ pend' = pend
           \/ /\ Present(r) /\ r.vis # "Public"
              /\ IsRunnerActive(r.life)
              /\ ~(mustStop /\ CanEnqueue)
              /\ jobs' = [jobs EXCEPT ![j] = [r EXCEPT !.vis = "Cleanup"]]
              /\ UNCHANGED <<pend, queue>>
        /\ intents' = IF mustStop /\ ~CanEnqueue THEN intents ELSE intents \ {j}
        /\ CaptureReceipts
        /\ UNCHANGED <<runnerVars, handed, suppressed, receipts, known,
                       overturned>>

(* remove_projected_hidden_terminal_job_record: the tool call returned the *)
(* result itself, so the same Runner process must not bring it back.       *)
RemoveProjected(j) ==
    /\ jobs[j].vis = "Hidden" /\ IsTerminal(jobs[j].life)
    /\ suppressed' = IF jobs[j].inst = lease.inst THEN suppressed \cup {j}
                                                  ELSE suppressed
    /\ jobs' = [jobs EXCEPT ![j] = NoJob]
    /\ DropStartRequest(j)
    /\ UNCHANGED <<runnerVars, handed, intents, unwritten, receipts, known,
                   overturned>>

-------------------------------------------------------------------------------
(* What Runner processes send. *)

(* A Runner speaks of Jobs it was handed, or that a former process of it   *)
(* detached.                                                               *)
MaySpeakOf(i, j) == i \in handed[j] \/ (j \in Detached /\ handed[j] # {})

(* Mutant: a late update is applied to a Job that has ended. *)
AcceptsLateUpdate(i, r, u) ==
    /\ Present(r)
    /\ r.inst = i
    /\ RecoveryActive(r) => u.withLogs
    /\ u.seq > r.seq

(* The ownership and ordering checks of update_job. *)
AcceptsUpdate(i, r, u) ==
    /\ Present(r)
    /\ r.inst = i
    /\ RecoveryActive(r) => u.withLogs
    /\ u.seq > r.seq
    /\ ~IsTerminal(r.life)

(* Mutant: the end that an update reports leaves the start request pending. *)
UpdateKeepsRequest(s, j, u) ==
    /\ s.inst = lease.inst
    /\ lease' = [lease EXCEPT !.online = @ \/ HoldsLease(s)]
    /\ IF AcceptsUpdate(s.inst, jobs[j], u)
       THEN jobs' = [jobs EXCEPT ![j] = DropCleanedUp(ApplyUpdate(j, @, u))]
       ELSE UNCHANGED jobs
    /\ CaptureReceipts
    /\ UNCHANGED <<retired, sessions, conns, pend, queue, handed, intents,
                   suppressed, receipts, known, overturned>>

(* update_job.  A late update over a replaced connection is applied, but   *)
(* only the lease's own connection proves that the Runner is alive.        *)
UpdateJob(s, j, u) ==
    /\ s.inst = lease.inst
    /\ lease' = [lease EXCEPT !.online = @ \/ HoldsLease(s)]
    /\ IF AcceptsUpdate(s.inst, jobs[j], u)
       THEN /\ jobs' = [jobs EXCEPT ![j] = DropCleanedUp(ApplyUpdate(j, @, u))]
            /\ pend' = IF IsTerminal(ApplyUpdate(j, jobs[j], u).life)
                       THEN [pend EXCEPT ![j] = "none"] ELSE pend
       ELSE UNCHANGED <<jobs, pend>>
    /\ CaptureReceipts
    /\ UNCHANGED <<retired, sessions, conns, queue, handed, intents, suppressed,
                   receipts, known, overturned>>

(* A result ends the Job's record, whatever state it is in. *)
ResultApplied(r, success) ==
    IF Present(r) THEN [r EXCEPT !.life = IF success THEN "Completed" ELSE "Failed"]
    ELSE r

(* complete: a result for the start request, in place of updates.  It is   *)
(* accepted while the request is pending, also after a read declared the   *)
(* Job lost, and says nothing of the command's execution state.            *)
CompleteJob(s, j, success) ==
    /\ s.inst = lease.inst
    /\ lease' = [lease EXCEPT !.online = @ \/ HoldsLease(s)]
    /\ IF pend[j] = "sent"
       THEN /\ jobs' = [jobs EXCEPT ![j] = ResultApplied(@, success)]
            /\ pend' = [pend EXCEPT ![j] = "none"]
            /\ overturned' =
                  IF IsTerminal(jobs[j].life) THEN overturned \cup {j} ELSE overturned
       ELSE UNCHANGED <<jobs, pend, overturned>>
    /\ CaptureReceipts
    /\ UNCHANGED <<retired, sessions, conns, queue, handed, intents, suppressed,
                   receipts, known>>

(* Mutant: a detached Job follows its Runner even when it is not in the    *)
(* inventory of the next process.                                          *)
TransfersUnseen(i, j, inv) == j \in Detached /\ jobs[j].inst # i

(* A detached Job may follow its Runner into the next process. *)
Transfers(i, j, inv) == j \in Detached \cap DOMAIN inv /\ jobs[j].inst # i

(* preflight_inventory_locked and validate_snapshot, before any change. *)
Preflight(i, inv) ==
    \A j \in DOMAIN inv :
        /\ ValidSnapshot(j \in Structured, inv[j])
        /\ Present(jobs[j]) /\ ~(IsTerminal(jobs[j].life) /\ jobs[j].hydrated) =>
               /\ jobs[j].inst = i \/ Transfers(i, j, inv)
               /\ Transfers(i, j, inv) /\ ~IsTerminal(jobs[j].life) =>
                      inv[j].seq >= jobs[j].seq

(* Mutant: Jobs that were not dispatched yet are overlooked. *)
OrphanedDispatched(i, inv) ==
    { j \in Jobs : /\ lease.inst \notin {NoInst, i}
                   /\ jobs[j].inst = lease.inst
                   /\ IsRunnerActive(jobs[j].life)
                   /\ ~Transfers(i, j, inv) }

(* terminate_instance_jobs_locked: the Jobs of the replaced process. *)
Orphaned(i, inv) ==
    { j \in Jobs : /\ lease.inst \notin {NoInst, i}
                   /\ jobs[j].inst = lease.inst
                   /\ jobs[j].life = "Queued" \/ IsRunnerActive(jobs[j].life)
                   /\ ~Transfers(i, j, inv) }

(* Runner-owned Jobs of this process that its complete inventory lacks. *)
Missing(i, inv) ==
    { j \in Jobs \ DOMAIN inv : jobs[j].inst = i /\ IsRunnerActive(jobs[j].life) }

(* Mutant: a newer snapshot overrides a record that has ended. *)
TakesAnySnapshot(i, j, inv, r) ==
    \/ inv[j].seq > r.seq
    \/ inv[j].seq = r.seq /\ (RecoveryActive(r) \/ Transfers(i, j, inv))

(* An existing record takes a snapshot that is newer, or that ends a       *)
(* recovery; a terminal record takes none.                                 *)
TakesSnapshot(i, j, inv, r) ==
    /\ ~IsTerminal(r.life)
    /\ \/ inv[j].seq > r.seq
       \/ inv[j].seq = r.seq /\ (RecoveryActive(r) \/ Transfers(i, j, inv))

(* One Job after terminate_instance_jobs_locked and after the losses that  *)
(* reconcile_inventory_locked finds; `late' are the Jobs whose recovery    *)
(* deadline has passed by then.                                            *)
AfterLosses(i, inv, late, j) ==
    LET lost == late \cup Orphaned(i, inv) \cup Missing(i, inv)
        r == IF j \in lost THEN MarkLost(j, jobs[j]) ELSE jobs[j]
    IN  IF late # {} \/ lease.inst \notin {NoInst, i} THEN DropCleanedUp(r) ELSE r

(* An unknown Job is rebuilt, unless its result was already returned. *)
Rebuilds(i, j, inv, r) ==
    /\ ~Present(r)
    /\ ~(IsTerminal(inv[j].life) /\ j \in suppressed /\ lease.inst = i)

(* reconcile_inventory_locked, one Job. *)
Reconciled(i, inv, late, j) ==
    LET r == AfterLosses(i, inv, late, j)
    IN  DropCleanedUp(IF j \notin DOMAIN inv THEN r
                      ELSE IF Rebuilds(i, j, inv, r) THEN RecordFromSnapshot(i, inv[j])
                      ELSE IF Present(r) /\ TakesSnapshot(i, j, inv, r)
                           THEN ApplySnapshot(r, i, inv[j])
                      ELSE r)

(* Jobs that the inventory itself ends: their start request is done with. *)
EndedByInventory(i, inv, late) ==
    { j \in DOMAIN inv :
        LET r == AfterLosses(i, inv, late, j)
        IN  /\ IsTerminal(inv[j].life)
            /\ Rebuilds(i, j, inv, r) \/ (Present(r) /\ TakesSnapshot(i, j, inv, r)) }

(* register: a different process takes the lease over at once and the      *)
(* former one is retired; the inventory then decides about the Jobs.       *)
Register(i, conn, inv, late) ==
    LET replaced == lease.inst \notin {NoInst, i}
        gone == late \cup Orphaned(i, inv) \cup Missing(i, inv)
        ended == EndedByInventory(i, inv, late)
    IN  /\ \A k \in 1..Len(retired) : retired[k] # i
        /\ \A j \in late : RecoveryActive(jobs[j])
        /\ Preflight(i, inv)
        /\ lease' = [inst |-> i, conn |-> conn, online |-> TRUE, attached |-> conn # 0]
        /\ conns' = IF conn = 0 THEN conns ELSE conn
        /\ retired' =
              IF ~replaced THEN retired
              ELSE IF Len(retired) < MaxRetired THEN Append(retired, lease.inst)
              ELSE Append(Tail(retired), lease.inst)
        /\ sessions' = sessions \cup {[inst |-> i, conn |-> conn]}
        /\ suppressed' = IF lease.inst = i THEN suppressed ELSE {}
        /\ jobs' = [j \in Jobs |-> Reconciled(i, inv, late, j)]
        /\ pend' = [j \in Jobs |-> IF j \in gone \cup ended THEN "none" ELSE pend[j]]
        /\ queue' = Retained(queue, { q \in Request :
                       q.job \notin gone /\ (q.kind = "start" => q.job \notin ended) })
        /\ CaptureReceipts
        /\ UNCHANGED <<handed, intents, receipts, known, overturned>>

(* Mutant: dispatched start requests go back into the queue. *)
DisconnectReplays(s) ==
    /\ s.inst = lease.inst /\ s.conn = lease.conn
    /\ lease' = [lease EXCEPT !.online = FALSE, !.attached = FALSE]
    /\ jobs' = [j \in Jobs |-> BeginRecovery(jobs[j])]
    /\ \E j \in Jobs :
          /\ pend[j] = "sent"
          /\ pend' = [pend EXCEPT ![j] = "queued"]
          /\ queue' = Append(queue, [kind |-> "start", job |-> j])
    /\ CaptureReceipts
    /\ UNCHANGED <<retired, sessions, conns, handed, intents, suppressed,
                   receipts, known, overturned>>

(* reconcile_disconnect: only the exact session that holds the lease.      *)
(* Undelivered requests are dropped, never replayed after a reconnect.     *)
Disconnect(s) ==
    /\ s.inst = lease.inst /\ s.conn = lease.conn
    /\ lease' = [lease EXCEPT !.online = FALSE, !.attached = FALSE]
    /\ jobs' = [j \in Jobs |-> IF jobs[j].life = "Queued" THEN MarkLost(j, jobs[j])
                                ELSE BeginRecovery(jobs[j])]
    /\ pend' = [j \in Jobs |-> "none"]
    /\ queue' = <<>>
    /\ CaptureReceipts
    /\ UNCHANGED <<retired, sessions, conns, handed, intents, suppressed,
                   receipts, known, overturned>>

-------------------------------------------------------------------------------
(* The periodic sweep, storage and restarts. *)

(* expire_recovering_jobs_locked, for the Jobs whose deadline has passed. *)
ExpireRecovering(late) ==
    /\ late # {} /\ \A j \in late : RecoveryActive(jobs[j])
    /\ jobs' = [j \in Jobs |-> DropCleanedUp(IF j \in late THEN MarkLost(j, jobs[j])
                                              ELSE jobs[j])]
    /\ DropRequestsOf(late)
    /\ CaptureReceipts
    /\ UNCHANGED <<runnerVars, handed, intents, suppressed, receipts, known,
                   overturned>>

(* prune_expired_terminal_jobs_locked: by then the receipt expired too. *)
PruneTerminal(j) ==
    /\ jobs[j].vis = "Public" /\ IsTerminal(jobs[j].life)
    /\ jobs' = [jobs EXCEPT ![j] = NoJob]
    /\ DropRequestsOf({j})
    /\ intents' = intents \ {j}
    /\ receipts' = [receipts EXCEPT ![j] = NoJob]
    /\ unwritten' = { e \in unwritten : e.job # j }
    /\ UNCHANGED <<runnerVars, handed, suppressed, known, overturned>>

(* A suppression outlives its retention period or is evicted at the cap. *)
ForgetSuppression(j) ==
    /\ j \in suppressed
    /\ suppressed' = suppressed \ {j}
    /\ UNCHANGED <<runnerVars, jobs, pend, queue, handed, intents, unwritten,
                   receipts, known, overturned>>

(* prune_expired_shared_key_runners_locked: the registration itself goes. *)
ExpireLease ==
    /\ lease.inst # NoInst /\ ~lease.online /\ ~lease.attached
    /\ lease' = NoLease
    /\ retired' = <<>>
    /\ jobs' = [j \in Jobs |-> MarkLost(j, jobs[j])]
    /\ pend' = [j \in Jobs |-> "none"]
    /\ queue' = <<>>
    /\ suppressed' = {}
    /\ intents' = { j \in intents : ~Present(jobs[j]) }
    /\ CaptureReceipts
    /\ UNCHANGED <<sessions, conns, handed, receipts, known, overturned>>

(* upsert_job_receipt, after the unlock: the first row of a Job stays, and *)
(* beyond the cap an older one goes.  The write may fail.                  *)
WriteReceipt(e, evicted) ==
    /\ e \in unwritten
    /\ unwritten' = unwritten \ {e}
    /\ LET rows == IF Present(receipts[e.job]) THEN receipts
                   ELSE [receipts EXCEPT ![e.job] = e.rec]
            held == { j \in Jobs : Present(rows[j]) }
        IN  /\ evicted \subseteq held
            /\ Cardinality(held) <= MaxReceipts => evicted = {}
            /\ Cardinality(held) > MaxReceipts =>
                   Cardinality(held \ evicted) = MaxReceipts
            /\ receipts' = [j \in Jobs |-> IF j \in evicted THEN NoJob ELSE rows[j]]
    /\ UNCHANGED <<runnerVars, jobs, pend, queue, handed, intents, suppressed,
                   known, overturned>>

LoseReceipt(e) ==
    /\ e \in unwritten
    /\ unwritten' = unwritten \ {e}
    /\ UNCHANGED <<runnerVars, jobs, pend, queue, handed, intents, suppressed,
                   receipts, known, overturned>>

(* Mutant: the execution state is not restored. *)
HydratedPartly(r) ==
    IF ~Present(r) THEN NoJob
    ELSE [r EXCEPT !.vis = "Public", !.recovering = FALSE, !.candidate = FALSE,
                   !.hydrated = TRUE, !.exec = "none"]

Hydrated(r) ==
    IF ~Present(r) THEN NoJob
    ELSE [r EXCEPT !.vis = "Public", !.recovering = FALSE, !.candidate = FALSE,
                   !.hydrated = TRUE]

(* The Server process dies and starts again: only the receipts survive. *)
Restart ==
    /\ lease' = NoLease
    /\ retired' = <<>>
    /\ jobs' = [j \in Jobs |-> Hydrated(receipts[j])]
    /\ pend' = [j \in Jobs |-> "none"]
    /\ queue' = <<>>
    /\ intents' = {} /\ suppressed' = {} /\ unwritten' = {}
    /\ UNCHANGED <<sessions, conns, handed, receipts, known, overturned>>

-------------------------------------------------------------------------------
(* The open system: Runner processes may report anything well-formed about *)
(* a Job that they were handed.                                            *)

Updates == { [life |-> p[1], exec |-> p[2], seq |-> n, withLogs |-> b] :
               p \in Reports, n \in 1..MaxSeq, b \in BOOLEAN }

Snapshots(j) ==
    { t \in { [life |-> p[1], exec |-> p[2], seq |-> n, started |-> b] :
                 p \in Reports, n \in 1..MaxSeq, b \in BOOLEAN } :
        ValidSnapshot(j \in Structured, t) }

Inventories(i) ==
    UNION { { f \in [D -> UNION { Snapshots(j) : j \in D }] :
                \A j \in D : f[j] \in Snapshots(j) } :
            D \in SUBSET { j \in Jobs : MaySpeakOf(i, j) } }

NewConnection == {0} \cup (IF conns < MaxConns THEN {conns + 1} ELSE {})

RunnerStep ==
    \/ \E i \in Instances, conn \in NewConnection,
          late \in SUBSET { j \in Jobs : RecoveryActive(jobs[j]) } :
          \E inv \in Inventories(i) : Register(i, conn, inv, late)
    \/ \E s \in sessions : Poll(s) \/ Touch(s) \/ Disconnect(s)
    \/ \E s \in sessions, j \in Jobs, u \in Updates :
          MaySpeakOf(s.inst, j) /\ UpdateJob(s, j, u)
    \/ \E s \in sessions, j \in Jobs, success \in Results :
          s.inst \in handed[j] /\ CompleteJob(s, j, success)

ClientStep ==
    \E j \in Jobs :
        \/ \E vis \in {"Hidden", "Public"} : StartJob(j, vis)
        \/ \E expired \in BOOLEAN :
              ReadJob(j, expired) \/ StopJob(j, expired) \/ PromoteHiddenJob(j, expired)
        \/ RecordCleanupIntent(j)
        \/ RemoveProjected(j)

Sweep ==
    \/ \E late \in SUBSET Jobs : ExpireRecovering(late)
    \/ \E j \in Jobs : \/ PruneTerminal(j)
                       \/ ForgetSuppression(j)
                       \/ \E expired \in BOOLEAN : CancelHiddenJob(j, expired)
    \/ ExpireLease

StorageStep ==
    \E e \in unwritten :
        LoseReceipt(e) \/ \E evicted \in SUBSET Jobs : WriteReceipt(e, evicted)

Next == RunnerStep \/ ClientStep \/ Sweep \/ StorageStep \/ GoStale \/ Restart

Spec == Init /\ [][Next]_vars

-------------------------------------------------------------------------------
(* Properties *)

(***************************************************************************)
(* Every Job that has not ended belongs to the process that holds the      *)
(* lease: replacement, expiry and restart leave no Job active on behalf of *)
(* a process that can no longer report about it.                           *)
(***************************************************************************)
ActiveJobsOwnedByLease ==
    \A j \in Jobs :
        Present(jobs[j]) /\ ~IsTerminal(jobs[j].life) => jobs[j].inst = lease.inst

(***************************************************************************)
(* The record, the pending request and the queue agree: a Job is queued    *)
(* exactly when its start request is pending and undispatched, and that    *)
(* request is then in the queue exactly once.                              *)
(***************************************************************************)
QueuedExactlyWhenRequested ==
    \A j \in Jobs :
        LET places == { k \in 1..Len(queue) : queue[k] = [kind |-> "start", job |-> j] }
        IN  /\ (jobs[j].life = "Queued") <=> (pend[j] = "queued")
            /\ Cardinality(places) = IF pend[j] = "queued" THEN 1 ELSE 0

(***************************************************************************)
(* A Job's start request is handed to one Runner process at most, and      *)
(* never again once it was handed out, across disconnects, replacements    *)
(* and restarts: the Server does not replay commands.                      *)
(***************************************************************************)
HandedOutAtMostOnce ==
    \A j \in Jobs : /\ Cardinality(handed[j]) <= 1
                    /\ handed[j] # {} => pend[j] # "queued"

(***************************************************************************)
(* A terminal verdict that a client can see is final: as long as the       *)
(* record stays, no later update, inventory, stop, sweep or restart        *)
(* changes how the Job ended or what is said of its command.  The Jobs     *)
(* whose verdict a late result replaced are left to OnlyLossesOverturned.  *)
(***************************************************************************)
VerdictFinal ==
    [][\A j \in Jobs \ overturned' :
          IsTerminal(jobs[j].life) /\ jobs[j].vis # "Cleanup" /\ Present(jobs'[j]) =>
              /\ jobs'[j].life = jobs[j].life
              /\ jobs'[j].exec = jobs[j].exec]_vars

(***************************************************************************)
(* The one way to replace a verdict is a late result, and it replaces      *)
(* nothing but the Server's own declaration that the Job was lost, never   *)
(* an end the Runner reported or the client was given by a stop.  It does  *)
(* so once: afterwards the record changes only when it is removed, or when *)
(* a restarted Server falls back on the receipt.                           *)
(***************************************************************************)
OnlyLossesOverturned ==
    [][\A j \in overturned' :
          /\ j \notin overturned => jobs[j].life = "Lost"
          /\ /\ j \in overturned /\ IsTerminal(jobs[j].life)
             /\ jobs[j].vis # "Cleanup" /\ Present(jobs'[j])
             => \/ /\ jobs'[j].life = jobs[j].life
                   /\ jobs'[j].exec = jobs[j].exec
                \/ jobs'[j].hydrated /\ lease'.inst = NoInst]_vars

(***************************************************************************)
(* The rule as the comment in reconcile_inventory_locked states it, for    *)
(* every record, the ones awaiting cleanup included: a terminal state      *)
(* never revives or changes terminal class.                                *)
(***************************************************************************)
TerminalNeverRevives ==
    [][\A j \in Jobs :
          IsTerminal(jobs[j].life) /\ Present(jobs'[j]) =>
              jobs'[j].life = jobs[j].life]_vars

(***************************************************************************)
(* The durable receipt and the record never disagree, although the receipt *)
(* is written after the registry was unlocked and the registry may since   *)
(* have been rebuilt from receipts and inventories.  Where a late result   *)
(* replaced the verdict the receipt may still say what was written first,  *)
(* but it is the receipt of an end and the Job has a record.               *)
(***************************************************************************)
ReceiptAgrees ==
    \A j \in Jobs :
        Present(receipts[j]) =>
            /\ IsTerminal(receipts[j].life)
            /\ Present(jobs[j])
            /\ j \notin overturned =>
                   jobs[j].life = receipts[j].life /\ jobs[j].exec = receipts[j].exec
===============================================================================
