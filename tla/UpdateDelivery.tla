---------------------------- MODULE UpdateDelivery ----------------------------
(***************************************************************************)
(* How the updates of one validation Job travel from the Runner's record   *)
(* to the Server's: record_update under the `jobs' lock, the delivery      *)
(* queue under its own lock, one delivery worker, the sink that the last   *)
(* registration or dispatch installed, a streaming channel or an HTTP      *)
(* post, and the registration whose inventory and replay repair what a     *)
(* lost connection or a Server restart has lost.                           *)
(*                                                                         *)
(* The threads that record are the one that carries the Job ("carrier":    *)
(* the dispatch thread, then the worker it starts) and the one that serves *)
(* a stop request ("stop").  Each records first and enqueues later, under  *)
(* two locks, so two threads may enqueue in the opposite order.  The       *)
(* Server's recovery deadline is left out: it waits for the Runner.        *)
(***************************************************************************)
EXTENDS JobLifecycle, Integers, Sequences, SequencesExt

CONSTANTS
    Kinds,        \* transports of the Runner: subset of {"stream", "http"}
    Steps,        \* length of the validation plan
    MaxRequired,  \* JOB_UPDATE_REQUIRED_PENDING_MAX
    ChanCap,      \* capacity of a session's outgoing channel
    MaxSessions,  \* bound: sessions that are opened, the first included
    MaxOutputs,   \* bound: output is reported up to this update number
    MaxStops      \* bound: stop requests

ASSUME DeliveryAssumption ==
    /\ Kinds \subseteq {"stream", "http"} /\ Kinds # {}
    /\ Steps \in Nat \ {0} /\ MaxRequired \in Nat \ {0} /\ ChanCap \in Nat \ {0}
    /\ MaxSessions \in Nat \ {0} /\ MaxOutputs \in Nat /\ MaxStops \in Nat

VARIABLES
    rec,      \* the Runner's record of the Job
    carrier,  \* the thread that carries the Job: before or after its insertion
    owed,     \* per recording thread: the update it has yet to enqueue
    stopper,  \* the thread that serves a stop request, with the sink it holds
    stops,    \* number of stop requests so far
    queue,    \* pending_job_updates of the Job
    worker,   \* the delivery worker
    sink,     \* current_sink: the session whose sink is installed
    sess,     \* number of sessions so far
    open,     \* the session that is served, 0 for none
    kind,     \* transport of each session
    chan,     \* updates on their way over each streaming session
    posts,    \* HTTP posts that the Runner gave up on and that may yet arrive
    reg,      \* the registration in progress
    srv       \* the Server's record of the Job

vars == <<rec, carrier, owed, stopper, stops, queue, worker, sink, sess, open,
          kind, chan, posts, reg, srv>>

-------------------------------------------------------------------------------
(* Records, messages and the delivery queue *)

Sessions == 1..MaxSessions

NoProgress == -1

Lives == RunnerActiveStates \cup TerminalStates

JobRecord == [life: Lives \cup {"Absent"}, seq: Nat, prog: -1..Steps]

NoRecord == [life |-> "Absent", seq |-> 0, prog |-> NoProgress]

Message == [life: Lives, seq: Nat, prog: -1..Steps, semantic: BOOLEAN]

NoMessage == [life |-> "RunnerQueued", seq |-> 0, prog |-> NoProgress,
              semantic |-> FALSE]

Resting == [at |-> "idle", m |-> NoMessage, via |-> 1]

NoStopper == [at |-> "idle", via |-> 1]

NoRegistration == [at |-> "idle", inv |-> NoRecord, now |-> NoRecord]

(* `skipped' is history, no field of the code: a suspension was ended while *)
(* the record had moved on from the inventory that was to make up for it.  *)
EmptyQueue == [required |-> <<>>, output |-> NoMessage, suspended |-> FALSE,
               skipped |-> FALSE]

Cleared(q) == [q EXCEPT !.required = <<>>, !.output = NoMessage,
                        !.suspended = FALSE]

(* Mutant: the number of waiting semantic updates is not bounded. *)
EnqueueUnbounded(q, m) ==
    IF q.suspended THEN q
    ELSE IF ~m.semantic THEN [q EXCEPT !.output = m]
    ELSE [q EXCEPT !.output = NoMessage, !.required = Append(@, m)]

(* Mutant: a semantic update replaces the one that waits. *)
EnqueueCoalescing(q, m) ==
    IF q.suspended THEN q
    ELSE IF ~m.semantic THEN [q EXCEPT !.output = m]
    ELSE [q EXCEPT !.output = NoMessage, !.required = <<m>>]

(* JobUpdateDeliveryQueue::enqueue.  Output is coalesced, semantic updates *)
(* are kept one by one, and an overflow gives the whole queue up.          *)
Enqueue(q, m) ==
    IF q.suspended THEN q
    ELSE IF ~m.semantic THEN [q EXCEPT !.output = m]
    ELSE IF q.required # <<>> /\ Last(q.required).seq = m.seq
         THEN [q EXCEPT !.output = NoMessage,
                        !.required = Append(Front(@), m)]
    ELSE IF Len(q.required) >= MaxRequired
         THEN [Cleared(q) EXCEPT !.suspended = TRUE]
    ELSE [q EXCEPT !.output = NoMessage, !.required = Append(@, m)]

NextOf(q) ==
    IF q.suspended THEN NoMessage
    ELSE IF q.required # <<>> THEN Head(q.required) ELSE q.output

(* Mutant: whatever is in front counts as delivered. *)
AcknowledgeFront(q, n) ==
    IF q.required # <<>> THEN [q EXCEPT !.required = Tail(@)]
    ELSE [q EXCEPT !.output = NoMessage]

Acknowledge(q, n) ==
    IF q.required # <<>> /\ Head(q.required).seq = n
    THEN [q EXCEPT !.required = Tail(@)]
    ELSE IF q.output.seq = n THEN [q EXCEPT !.output = NoMessage] ELSE q

(* The longest prefix that the registered inventory covers goes. *)
DiscardThrough(q, n) ==
    LET keep == { k \in 1..Len(q.required) : q.required[k].seq > n }
        first == IF keep = {} THEN Len(q.required) + 1
                 ELSE CHOOSE k \in keep : \A l \in keep : k <= l
    IN  [q EXCEPT !.required = SubSeq(@, first, Len(@)),
                  !.output = IF @.seq <= n THEN NoMessage ELSE @]

IsEmptyQueue(q) == q.required = <<>> /\ q.output = NoMessage

-------------------------------------------------------------------------------
TypeOK ==
    /\ rec \in JobRecord
    /\ carrier \in {"held", "insert", "announce", "work"}
    /\ owed \in [{"carrier", "stop"} -> Message]
    /\ stopper \in [at: {"idle", "held", "look", "tell"}, via: Sessions]
    /\ stops \in 0..MaxStops
    /\ queue \in [required: Seq(Message), output: Message, suspended: BOOLEAN,
                  skipped: BOOLEAN]
    /\ Len(queue.required) <= MaxRequired
    /\ worker \in [at: {"idle", "picked", "posting", "sent"}, m: Message,
                   via: Sessions]
    /\ sink \in Sessions /\ sess \in Sessions /\ open \in 0..MaxSessions
    /\ kind \in [Sessions -> {"stream", "http", "none"}]
    /\ chan \in [Sessions -> Seq(Message)]
    /\ posts \subseteq Message
    /\ reg \in [at: {"idle", "asked", "acked", "installed", "replay"},
                inv: JobRecord,   \* the inventory it registers
                now: JobRecord]   \* the inventory its replay has read
    /\ srv \in [known: BOOLEAN, life: Lives, seq: Nat, prog: -1..Steps,
                fault: {"none", "missing", "invalid"}]

(* The Job was just dispatched over the first session, which is served.    *)
Init ==
    /\ rec = NoRecord
    /\ carrier = "held"
    /\ owed = [t \in {"carrier", "stop"} |-> NoMessage]
    /\ stopper = NoStopper
    /\ stops = 0
    /\ queue = EmptyQueue
    /\ worker = Resting
    /\ sink = 1 /\ sess = 1 /\ open = 1
    /\ kind \in { [s \in Sessions |-> IF s = 1 THEN k ELSE "none"] : k \in Kinds }
    /\ chan = [s \in Sessions |-> <<>>]
    /\ posts = {}
    /\ reg = NoRegistration
    /\ srv = [known |-> TRUE, life |-> "RunnerQueued", seq |-> 0,
              prog |-> NoProgress, fault |-> "none"]

-------------------------------------------------------------------------------
(* Threads that record *)

Regresses(life, incoming) ==
    \/ life = "StopRequested" /\ incoming \in {"RunnerQueued", "Running"}
    \/ life = "Running" /\ incoming = "RunnerQueued"

(* Mutant: a record that has ended takes another update. *)
RecordLate(t, life, prog, explicit) ==
    /\ rec.life # "Absent"
    /\ owed[t] = NoMessage
    /\ rec' = [life |-> life, seq |-> rec.seq + 1,
               prog |-> IF prog = NoProgress THEN rec.prog ELSE prog]
    /\ owed' = [owed EXCEPT ![t] = [life |-> life, seq |-> rec'.seq,
                                    prog |-> rec'.prog, semantic |-> TRUE]]

(* record_update: a record that has ended takes no more, a late report     *)
(* does not take it back, and `explicit' is set by an error or an end.     *)
Record(t, life, prog, explicit) ==
    /\ rec.life # "Absent" /\ ~IsTerminal(rec.life)
    /\ owed[t] = NoMessage
    /\ rec' = [life |-> IF Regresses(rec.life, life) THEN rec.life ELSE life,
               seq |-> rec.seq + 1,
               prog |-> IF prog = NoProgress THEN rec.prog ELSE prog]
    /\ owed' = [owed EXCEPT ![t] =
                  [life |-> rec'.life, seq |-> rec'.seq, prog |-> rec'.prog,
                   semantic |-> \/ explicit
                                \/ rec'.life # rec.life \/ rec'.prog # rec.prog]]

(* queue_recorded_update: the second lock. *)
Hand(t) ==
    /\ owed[t] # NoMessage
    /\ queue' = Enqueue(queue, owed[t])
    /\ owed' = [owed EXCEPT ![t] = NoMessage]
    /\ stopper' = IF t = "stop" THEN NoStopper ELSE stopper
    /\ UNCHANGED <<rec, carrier, stops, worker, sink, sess, open, kind, chan,
                   posts, reg, srv>>

(* JobManager::enqueue: the dispatch thread installs the sink it was       *)
(* spawned with, however late, and then inserts the record.                *)
StartInstall ==
    /\ carrier = "held"
    /\ sink' = 1 /\ carrier' = "insert"
    /\ UNCHANGED <<rec, owed, stopper, stops, queue, worker, sess, open, kind,
                   chan, posts, reg, srv>>

StartInsert ==
    /\ carrier = "insert"
    /\ rec' = [life |-> "RunnerQueued", seq |-> 0, prog |-> NoProgress]
    /\ carrier' = "announce"
    /\ UNCHANGED <<owed, stopper, stops, queue, worker, sink, sess, open, kind,
                   chan, posts, reg, srv>>

(* The reports of the carrier, in the order of its code: queued, running   *)
(* with no step done, output, the next step, the end.                      *)
Announce ==
    /\ carrier = "announce"
    /\ Record("carrier", "RunnerQueued", NoProgress, FALSE)
    /\ carrier' = "work"
    /\ UNCHANGED <<stopper, stops, queue, worker, sink, sess, open, kind, chan,
                   posts, reg, srv>>

WorkReport ==
    \/ /\ rec.prog = NoProgress
       /\ \/ Record("carrier", "Running", 0, FALSE)
          \/ Record("carrier", "Failed", NoProgress, TRUE)
    \/ /\ rec.prog # NoProgress
       /\ \/ rec.seq < MaxOutputs /\ Record("carrier", "Running", rec.prog, FALSE)
          \/ /\ rec.prog + 1 < Steps
             /\ Record("carrier", "Running", rec.prog + 1, FALSE)
          \/ /\ rec.prog + 1 = Steps
             /\ Record("carrier", "Completed", Steps, TRUE)
          \/ Record("carrier", "Failed", rec.prog, TRUE)
          \/ /\ rec.life = "StopRequested"
             /\ Record("carrier", "Stopped", rec.prog, TRUE)

Work ==
    /\ carrier = "work"
    /\ WorkReport
    /\ UNCHANGED <<carrier, stopper, stops, queue, worker, sink, sess, open,
                   kind, chan, posts, reg, srv>>

(* A stop request arrives over the session that is served; its thread     *)
(* keeps that session's sink and installs it when it comes to run.         *)
StopRequest ==
    /\ open # 0 /\ srv.known /\ reg.at \notin {"installed", "replay"}
    /\ stopper.at = "idle" /\ stops < MaxStops
    /\ stops' = stops + 1
    /\ stopper' = [at |-> "held", via |-> open]
    /\ UNCHANGED <<rec, carrier, owed, queue, worker, sink, sess, open, kind,
                   chan, posts, reg, srv>>

StopInstall ==
    /\ stopper.at = "held"
    /\ sink' = stopper.via
    /\ stopper' = [at |-> "look", via |-> 1]
    /\ UNCHANGED <<rec, carrier, owed, stops, queue, worker, sess, open, kind,
                   chan, posts, reg, srv>>

(* JobManager::stop: an unknown Job is an error, the end of one that has   *)
(* ended is sent again, any other is asked to stop.                        *)
StopLook ==
    /\ stopper.at = "look"
    /\ \/ /\ rec.life = "Absent"
          /\ stopper' = NoStopper
          /\ UNCHANGED <<rec, owed>>
       \/ /\ IsTerminal(rec.life)
          /\ owed' = [owed EXCEPT !["stop"] =
                        [life |-> rec.life, seq |-> rec.seq, prog |-> rec.prog,
                         semantic |-> TRUE]]
          /\ stopper' = [stopper EXCEPT !.at = "tell"]
          /\ UNCHANGED rec
       \/ /\ Record("stop", "StopRequested", NoProgress, TRUE)
          /\ stopper' = [stopper EXCEPT !.at = "tell"]
    /\ UNCHANGED <<carrier, stops, queue, worker, sink, sess, open, kind, chan,
                   posts, reg, srv>>

(* prune_terminal_records: the record and its pending updates go. *)
Prune ==
    /\ IsTerminal(rec.life)
    /\ rec' = NoRecord
    /\ queue' = Cleared(queue)
    /\ UNCHANGED <<carrier, owed, stopper, stops, worker, sink, sess, open, kind,
                   chan, posts, reg, srv>>

-------------------------------------------------------------------------------
(* The Server *)

DoneSteps(prog) == IF prog = NoProgress THEN 0 ELSE prog

Cancelling == {"Stopped", "Cancelled", "Timeout", "TimedOut", "Lost"}

(* validate_validation_progress: the cursor moves by one step at most. *)
ValidProgress(before, m) ==
    IF m.prog = NoProgress THEN m.life \in Cancelling \cup {"RunnerQueued"}
    ELSE /\ m.life # "RunnerQueued"
         /\ m.prog \in DoneSteps(before)..(DoneSteps(before) + 1)
         /\ m.life = "Completed" => m.prog = Steps
         /\ m.life \in {"Running", "StopRequested", "Failed"} => m.prog < Steps

(* update_job.  A duplicate, an older update and any update of a Job that  *)
(* has ended change nothing; an impossible one ends the Job as failed.     *)
AfterUpdate(r, m) ==
    IF ~r.known \/ m.seq <= r.seq \/ IsTerminal(r.life) THEN r
    ELSE IF ValidProgress(r.prog, m)
         THEN [r EXCEPT !.life = m.life, !.seq = m.seq,
                        !.prog = IF m.prog = NoProgress THEN @ ELSE m.prog]
    ELSE [r EXCEPT !.life = "Failed", !.seq = m.seq,
                   !.fault = IF m.prog = NoProgress THEN "missing" ELSE "invalid"]

(* validate_snapshot: one snapshot that fails it rejects the registration. *)
ValidInventory(inv) ==
    inv.life = "Absent" \/
    /\ inv.seq > 0
    /\ inv.life = "RunnerQueued" => inv.prog = NoProgress
    /\ inv.life \in {"Running", "StopRequested"} => inv.prog \in 0..(Steps - 1)
    /\ inv.life = "Completed" => inv.prog = Steps

(* reconcile_inventory_locked: no +1 rule here, and a Job that the         *)
(* inventory lacks is lost.                                                *)
AfterInventory(r, inv) ==
    IF inv.life = "Absent"
    THEN IF r.known /\ ~IsTerminal(r.life) THEN [r EXCEPT !.life = "Lost"] ELSE r
    ELSE IF ~r.known
         THEN [known |-> TRUE, life |-> inv.life, seq |-> inv.seq,
               prog |-> inv.prog, fault |-> "none"]
    ELSE IF inv.seq > r.seq /\ ~IsTerminal(r.life)
         THEN [r EXCEPT !.life = inv.life, !.seq = inv.seq, !.prog = inv.prog]
    ELSE r

Receive(s) ==
    /\ chan[s] # <<>>
    /\ srv' = AfterUpdate(srv, Head(chan[s]))
    /\ chan' = [chan EXCEPT ![s] = Tail(@)]
    /\ UNCHANGED <<rec, carrier, owed, stopper, stops, queue, worker, sink, sess,
                   open, kind, posts, reg>>

StrayPost(m) ==
    /\ m \in posts
    /\ srv' = AfterUpdate(srv, m)
    /\ posts' = posts \ {m}
    /\ UNCHANGED <<rec, carrier, owed, stopper, stops, queue, worker, sink, sess,
                   open, kind, chan, reg>>

-------------------------------------------------------------------------------
(* The delivery worker *)

(* The candidate is read under the queue's lock and used after it. *)
Pick ==
    /\ worker.at = "idle"
    /\ NextOf(queue) # NoMessage
    /\ IF rec.life = "Absent"
       THEN queue' = Cleared(queue) /\ UNCHANGED worker
       ELSE /\ worker' = [worker EXCEPT !.at = "picked", !.m = NextOf(queue)]
            /\ UNCHANGED queue
    /\ UNCHANGED <<rec, carrier, owed, stopper, stops, sink, sess, open, kind,
                   chan, posts, reg, srv>>

(* try_send into the channel of a streaming session, under the queue's     *)
(* lock: only what is still next is sent; a full or closed channel means   *)
(* a later retry.                                                          *)
TrySend ==
    /\ worker.at = "picked" /\ kind[sink] = "stream"
    /\ IF /\ NextOf(queue).seq = worker.m.seq
          /\ sink = open /\ Len(chan[sink]) < ChanCap
       THEN /\ chan' = [chan EXCEPT ![sink] = Append(@, worker.m)]
            /\ worker' = [worker EXCEPT !.at = "sent", !.via = sink]
       ELSE /\ worker' = Resting
            /\ UNCHANGED chan
    /\ UNCHANGED <<rec, carrier, owed, stopper, stops, queue, sink, sess, open,
                   kind, posts, reg, srv>>

(* The HTTP post runs outside of every lock. *)
Post ==
    /\ worker.at = "picked" /\ kind[sink] = "http"
    /\ worker' = [worker EXCEPT !.at = "posting", !.via = sink]
    /\ UNCHANGED <<rec, carrier, owed, stopper, stops, queue, sink, sess, open,
                   kind, chan, posts, reg, srv>>

PostAnswered ==
    /\ worker.at = "posting"
    /\ srv' = AfterUpdate(srv, worker.m)
    /\ worker' = IF srv.known THEN [worker EXCEPT !.at = "sent"] ELSE Resting
    /\ UNCHANGED <<rec, carrier, owed, stopper, stops, queue, sink, sess, open,
                   kind, chan, posts, reg>>

(* The answer never came: the Server may have, or may yet, handle it. *)
PostTimesOut ==
    /\ worker.at = "posting" /\ sess < MaxSessions
    /\ posts' = posts \cup {worker.m}
    /\ worker' = Resting
    /\ UNCHANGED <<rec, carrier, owed, stopper, stops, queue, sink, sess, open,
                   kind, chan, reg, srv>>

(* same_job_update_target: one channel, or the same Server over HTTP. *)
SameTarget(a, b) == a = b \/ (kind[a] = "http" /\ kind[b] = "http")

(* A delivery counts only when the sink it used is still the current one. *)
Settle ==
    /\ worker.at = "sent"
    /\ queue' = IF SameTarget(worker.via, sink)
                THEN Acknowledge(queue, worker.m.seq) ELSE queue
    /\ worker' = Resting
    /\ UNCHANGED <<rec, carrier, owed, stopper, stops, sink, sess, open, kind,
                   chan, posts, reg, srv>>

-------------------------------------------------------------------------------
(* Sessions *)

(* The connection ends, or a poll fails.  The last session stays. *)
Close ==
    /\ open # 0 /\ reg.at \notin {"installed", "replay"} /\ sess < MaxSessions
    /\ open' = 0
    /\ UNCHANGED <<rec, carrier, owed, stopper, stops, queue, worker, sink, sess,
                   kind, chan, posts, reg, srv>>

(* What a session that has ended still holds need not arrive. *)
LoseChannel(s) ==
    /\ s # open /\ chan[s] # <<>>
    /\ chan' = [chan EXCEPT ![s] = <<>>]
    /\ UNCHANGED <<rec, carrier, owed, stopper, stops, queue, worker, sink, sess,
                   open, kind, posts, reg, srv>>

(* The Server restarts with an empty registry. *)
ServerRestart ==
    /\ srv.known /\ sess < MaxSessions
    /\ srv' = [known |-> FALSE, life |-> "RunnerQueued", seq |-> 0,
               prog |-> NoProgress, fault |-> "none"]
    /\ chan' = [s \in Sessions |-> <<>>] /\ posts' = {}
    /\ open' = IF reg.at \in {"installed", "replay"} THEN open ELSE 0
    /\ reg' = IF reg.at = "asked" THEN NoRegistration ELSE reg
    /\ UNCHANGED <<rec, carrier, owed, stopper, stops, queue, worker, sink, sess,
                   kind>>

(* A registration starts with the inventory it will send.  After the       *)
(* fallback to polling the Runner stays with it.                           *)
RegisterBegin(k) ==
    /\ open = 0 /\ reg.at = "idle" /\ sess < MaxSessions
    /\ kind[sess] = "http" => k = "http"
    /\ sess' = sess + 1
    /\ kind' = [kind EXCEPT ![sess + 1] = k]
    /\ reg' = [NoRegistration EXCEPT !.at = "asked", !.inv = rec]
    /\ UNCHANGED <<rec, carrier, owed, stopper, stops, queue, worker, sink, open,
                   chan, posts, srv>>

(* A rejected attempt leaves no session behind. *)
RegisterAtServer ==
    /\ reg.at = "asked"
    /\ IF ValidInventory(reg.inv)
       THEN /\ srv' = AfterInventory(srv, reg.inv)
            /\ reg' = [reg EXCEPT !.at = "acked"]
            /\ UNCHANGED <<sess, kind>>
       ELSE /\ reg' = NoRegistration
            /\ sess' = sess - 1 /\ kind' = [kind EXCEPT ![sess] = "none"]
            /\ UNCHANGED srv
    /\ UNCHANGED <<rec, carrier, owed, stopper, stops, queue, worker, sink, open,
                   chan, posts>>

(* The connection fails before the Runner has the Server's answer; what    *)
(* the Server has applied stays.  Again no session is left behind.         *)
RegisterFails ==
    /\ reg.at \in {"asked", "acked"}
    /\ reg' = NoRegistration
    /\ sess' = sess - 1 /\ kind' = [kind EXCEPT ![sess] = "none"]
    /\ UNCHANGED <<rec, carrier, owed, stopper, stops, queue, worker, sink, open,
                   chan, posts, srv>>

InstallSink ==
    /\ reg.at = "acked"
    /\ sink' = sess /\ open' = sess
    /\ reg' = [reg EXCEPT !.at = "installed"]
    /\ UNCHANGED <<rec, carrier, owed, stopper, stops, queue, worker, sess, kind,
                   chan, posts, srv>>

(* replay_snapshots_since reads the records and then locks the queues. *)
ReplayRead ==
    /\ reg.at = "installed"
    /\ reg' = [reg EXCEPT !.at = "replay", !.now = rec]
    /\ UNCHANGED <<rec, carrier, owed, stopper, stops, queue, worker, sink, sess,
                   open, kind, chan, posts, srv>>

(* One replayed snapshot may not carry the cursor over two steps. *)
ReplaySafe(inv, now) == DoneSteps(now.prog) <= DoneSteps(inv.prog) + 1

(* The queue of a Job that the Runner still has: what the registration     *)
(* brought goes, and a newer record that nothing in the queue stands for   *)
(* is sent again, or the queue waits for the next registration.            *)
Replayed(q, inv, now) ==
    LET kept == DiscardThrough(q, inv.seq)
        newer == now.seq > inv.seq
        snapshot == [life |-> now.life, seq |-> now.seq, prog |-> now.prog,
                     semantic |-> TRUE]
    IN  IF kept.suspended /\ newer THEN kept
        ELSE LET live == [kept EXCEPT !.suspended = FALSE, !.skipped =
                              @ \/ (kept.suspended /\ rec.seq > inv.seq)]
             IN  IF ~newer \/ ~IsEmptyQueue(live) THEN live
                 ELSE IF ReplaySafe(inv, now) THEN Enqueue(live, snapshot)
                 ELSE [live EXCEPT !.suspended = TRUE]

Replay ==
    /\ reg.at = "replay"
    /\ queue' = IF reg.now.life = "Absent" THEN queue
                ELSE Replayed(queue, reg.inv, reg.now)
    /\ reg' = NoRegistration
    /\ UNCHANGED <<rec, carrier, owed, stopper, stops, worker, sink, sess, open,
                   kind, chan, posts, srv>>

-------------------------------------------------------------------------------
RunnerStep ==
    \/ StartInstall \/ StartInsert \/ Announce \/ Work
    \/ \E t \in {"carrier", "stop"} : Hand(t)
    \/ StopRequest \/ StopInstall \/ StopLook
    \/ Prune

WorkerStep == Pick \/ TrySend \/ Post \/ PostAnswered \/ PostTimesOut \/ Settle

SessionStep ==
    \/ Close \/ ServerRestart
    \/ \E k \in Kinds : RegisterBegin(k)
    \/ RegisterAtServer \/ RegisterFails \/ InstallSink
    \/ ReplayRead \/ Replay

NetworkStep ==
    \/ \E s \in Sessions : Receive(s) \/ LoseChannel(s)
    \/ \E m \in posts : StrayPost(m)

Next == RunnerStep \/ WorkerStep \/ SessionStep \/ NetworkStep

(* Threads run, a post or a registration that is repeated is answered in   *)
(* the end, a session that lost its Server ends, the Runner reconnects and *)
(* the reader of the session that is served takes every update.            *)
Fairness ==
    /\ WF_vars(StartInstall \/ StartInsert \/ Announce)
    /\ \A t \in {"carrier", "stop"} : WF_vars(Hand(t))
    /\ WF_vars(StopInstall \/ StopLook)
    /\ WF_vars(Pick) /\ WF_vars(TrySend) /\ WF_vars(Post)
    /\ SF_vars(PostAnswered) /\ WF_vars(Settle)
    /\ WF_vars(Close /\ ~srv.known)
    /\ WF_vars(\E k \in Kinds : RegisterBegin(k))
    /\ SF_vars(RegisterAtServer) /\ SF_vars(InstallSink)
    /\ WF_vars(ReplayRead \/ Replay)
    /\ \A s \in Sessions : WF_vars(s = open /\ Receive(s))

Spec == Init /\ [][Next]_vars /\ Fairness

-------------------------------------------------------------------------------
(* Properties *)

SinkLive == kind[sink] = "http" \/ sink = open

Ended == IsTerminal(rec.life)

(* No interleaving of the threads' two locks, no retry, no replay and no   *)
(* suspension makes the Server see the progress cursor go back or jump     *)
(* over a step: only a report without any progress is ever taken for a     *)
(* protocol violation.  The exception is replay_snapshots_since: it reads  *)
(* the records, then locks the queues, and may end the suspension of a Job *)
(* that has moved on in between.                                           *)
NoSkippedStep == srv.fault = "invalid" => queue.skipped

(* The end that the Server accepted from this Runner is the end that the   *)
(* Runner recorded: no retransmission or replay carries another one.       *)
OutcomeAgrees ==
    IsTerminal(srv.life) /\ srv.fault = "none" /\ srv.life # "Lost" =>
        rec.life \in {srv.life, "Absent"}

(* The end of a Job is never forgotten while a session is served: the     *)
(* Server has it, or it is in the queue, in the hands of a thread or on    *)
(* the wire, unless the queue is suspended or, again, a suspension was     *)
(* ended too early.                                                        *)
EndNotForgotten ==
    Ended /\ srv.known /\ open # 0 /\ ~queue.suspended /\ ~queue.skipped =>
        \/ IsTerminal(srv.life)
        \/ \E t \in {"carrier", "stop"} : owed[t].seq = rec.seq
        \/ \E k \in 1..Len(queue.required) : queue.required[k].seq = rec.seq
        \/ \E k \in 1..Len(chan[open]) : chan[open][k].seq = rec.seq

(* While the Runner keeps a working sink to a Server that knows the Job    *)
(* and the queue is not suspended, the end of the Job reaches the Server.  *)
DeliveredWhenConnected ==
    <>[](/\ Ended /\ srv.known /\ SinkLive
         /\ ~queue.suspended /\ ~queue.skipped) =>
        <>[]IsTerminal(srv.life)

(* What the documentation promises after a reconnect: the end of a Job     *)
(* the Server knows can be read from the Server as long as the Runner      *)
(* retains it.                                                             *)
TerminalDelivered ==
    [](Ended /\ srv.known => <>(IsTerminal(srv.life) \/ rec.life = "Absent"))
===============================================================================
