----------------------------- MODULE AgentWake -----------------------------
(***************************************************************************)
(* The Wakes of one Durable Agent: the durable Wake and Wake Attempt rows,  *)
(* the Endpoint generations that may carry them, the task attempt a         *)
(* task-origin Wake stands for, and the process-local continuation          *)
(* controller (one Host binding, one dispatch worker) that turns a pending  *)
(* Wake into one model turn.                                                *)
(*                                                                         *)
(* `db' is the state of the SQLite store; every operation on it is one      *)
(* transaction and so one step.  `fresh', `bind', `worker', `answer',       *)
(* `sched' and `calls' live in the Server process and vanish when it is     *)
(* replaced.  `box' and `told' are what the Host and the model turn hold.   *)
(*                                                                         *)
(* An Endpoint is named by its controller generation (each attach makes one *)
(* of each), and a Wake by its place in the order of creation.  Leases are  *)
(* the fact that they have run out.  Every View is one of the same Host     *)
(* window.  Calls of a View that is no longer bound are refused and change  *)
(* nothing, so the View's calls are those of the bound one.                 *)
(***************************************************************************)
EXTENDS Naturals, FiniteSets

CONSTANTS
    MaxWakes,       \* Wakes ever created
    MaxAttempts,    \* Wake Attempts ever created
    MaxGen,         \* Endpoint attachments
    MaxMessages,    \* Deliveries to the Agent's inbox
    MaxFaults,      \* leases that run out, and Server takeovers
    MaxCalls        \* request handlers between their commit and their call
                    \* on the controller

ASSUME BoundsAssumption ==
    /\ MaxWakes \in Nat \ {0} /\ MaxAttempts \in Nat \ {0} /\ MaxGen \in Nat \ {0}
    /\ MaxMessages \in Nat /\ MaxFaults \in Nat /\ MaxCalls \in Nat \ {0}

VARIABLES db, fresh, bind, worker, answer, sched, calls, box, told, turns,
          messages, faults, gaveUp, unbound

process == <<fresh, bind, worker, answer, sched, calls, gaveUp, unbound>>
host == <<box, told, turns>>
vars == <<db, process, host, messages, faults>>

Wakes == 1..MaxWakes
Attempts == 1..MaxAttempts
Gens == 1..MaxGen

(* States of a Wake past the durable dispatch fence and not yet consumed. *)
Dispatched == {"prepared", "delivered", "delivery_unknown"}
PreFence == {"pending", "claimed"}

-----------------------------------------------------------------------------
(* Reading and changing the store *)

(* The Endpoint of generation g is attached, unexpired and the current one. *)
Current(d, g) ==
    /\ g \in Gens
    /\ g = d.cur
    /\ d.ep[g].life = "attached"
    /\ ~d.ep[g].lapsed

Capable(d, g) == Current(d, g) /\ d.ep[g].capable

Blocked(d) == \E w \in Wakes : d.wake[w].st \in Dispatched

Pending(d) == {w \in Wakes : d.wake[w].st = "pending"}

Oldest(S) == CHOOSE w \in S : \A v \in S : w <= v

Absent(d) == {w \in Wakes : d.wake[w].st = "absent"}
Unused(d) == {a \in Attempts : d.att[a].st = "unused"}

(* A Wake that goes back to pending, or is retired, forgets its claim. *)
Unclaimed(x, st) == [x EXCEPT !.st = st, !.att = 0, !.gen = 0]

(* A revoked attempt is never looked at again, but for its Wake. *)
Revoked(x) == [st |-> "revoked", wake |-> x.wake, gen |-> 0, kind |-> "none", over |-> FALSE]

(* Mutant: the carrier row of a task Wake outlives its claim. *)
DropKeepsCarrier(d, W, A, st) ==
    [d EXCEPT
        !.wake = [w \in Wakes |-> IF w \in W THEN Unclaimed(d.wake[w], st) ELSE d.wake[w]],
        !.att = [a \in Attempts |->
                    IF a \in A THEN Revoked(d.att[a]) ELSE d.att[a]]]

(* The wakes of W lose their claim and become st, the attempts of A are     *)
(* revoked, and the carrier row of a task Wake among them is cleared.      *)
Drop(d, W, A, st) ==
    [d EXCEPT
        !.wake = [w \in Wakes |-> IF w \in W THEN Unclaimed(d.wake[w], st) ELSE d.wake[w]],
        !.att = [a \in Attempts |->
                    IF a \in A THEN Revoked(d.att[a]) ELSE d.att[a]],
        !.task.carrier = IF \E w \in W : d.wake[w].trig = "task" THEN 0 ELSE @]

(* The wakes of W and the attempts of A were handed to a Host, and nobody   *)
(* knows with what result.                                                 *)
MakeUnknown(d, W, A) ==
    [d EXCEPT
        !.wake = [w \in Wakes |->
                    IF w \in W THEN [d.wake[w] EXCEPT !.st = "delivery_unknown"] ELSE d.wake[w]],
        !.att = [a \in Attempts |->
                    IF a \in A THEN [d.att[a] EXCEPT !.st = "delivery_unknown"] ELSE d.att[a]]]

WakesOf(d, g, S) == {w \in Wakes : d.wake[w].gen = g /\ d.wake[w].st \in S}
AttemptsOf(d, g, S) == {a \in Attempts : d.att[a].gen = g /\ d.att[a].st \in S}

(* The Endpoint of generation g is lost: what it claimed is pending again,  *)
(* what it may have dispatched is uncertain, and -- when asked to fence --  *)
(* the task attempt it carries gets a new controller generation.           *)
ReconcileLoss(d, g, fence) ==
    LET f == [d EXCEPT
                !.task.gen = IF fence /\ d.task.carrier = g /\ d.task.st = "active"
                             THEN @ + 1 ELSE @,
                !.task.carrier = IF @ = g THEN 0 ELSE @]
        handed == {"prepared", "delivered"}
    IN MakeUnknown(
           Drop(f, WakesOf(f, g, {"claimed"}), AttemptsOf(f, g, {"claimed"}), "pending"),
           WakesOf(f, g, handed), AttemptsOf(f, g, handed))

(* Taking the Host capability away from an Endpoint that stays attached. *)
Withdraw(d, g) ==
    LET r == IF d.ep[g].capable THEN ReconcileLoss(d, g, FALSE) ELSE d
    IN [r EXCEPT !.ep[g].capable = FALSE]

(* Mutant: the attempt of an expired claim is not revoked. *)
ReleaseExpiredWakesOnly(d) ==
    Drop(d, {w \in Wakes : d.wake[w].st = "claimed" /\ d.att[d.wake[w].att].over}, {}, "pending")

ReleaseExpiredClaims(d) ==
    Drop(d, {w \in Wakes : d.wake[w].st = "claimed" /\ d.att[d.wake[w].att].over},
         {a \in Attempts : d.att[a].st = "claimed" /\ d.att[a].over}, "pending")

(* The task-origin Wakes of W end before the dispatch fence. *)
Retire(d, W) ==
    Drop(d, W, {a \in Attempts : d.att[a].wake \in W /\ d.att[a].st = "claimed"}, "retired")

PreFenceTaskWakes(d) == {w \in Wakes : d.wake[w].trig = "task" /\ d.wake[w].st \in PreFence}

RetireStaleTaskWakes(d) ==
    IF d.task.st = "active" THEN d ELSE Retire(d, PreFenceTaskWakes(d))

(* What claim_next_agent_wake does before it looks for a Wake. *)
Swept(d) == RetireStaleTaskWakes(ReleaseExpiredClaims(d))

(* The Wake the next claim takes, if any. *)
Claimable(d) ==
    LET s == Swept(d)
    IN {w \in Pending(s) : ~Blocked(s) /\ \A v \in Pending(s) : w <= v}

NewAttempt(d, a, w, g, kind, st) ==
    [d EXCEPT
        !.att[a] = [st |-> st, wake |-> w, gen |-> g, kind |-> kind, over |-> FALSE],
        !.wake[w].st = st, !.wake[w].att = a, !.wake[w].gen = g]

(* A claim; of a task-origin Wake it also installs the carrier and hands    *)
(* the task attempt a new controller generation.                           *)
Claim(d, w, a, g, kind) ==
    LET s == NewAttempt(Swept(d), a, w, g, kind, "claimed")
    IN IF s.wake[w].trig = "task"
       THEN [s EXCEPT !.task.gen = @ + 1, !.task.carrier = g] ELSE s

ExactClaim(d, a) == d.wake[d.att[a].wake].att = a

TaskDispatchable(d, a) ==
    d.wake[d.att[a].wake].trig = "task" =>
        d.task.st = "active" /\ d.task.carrier = d.att[a].gen

(* The claim may cross the fence, apart from its task attempt being alive. *)
Preparable(d, a) ==
    /\ Capable(d, d.att[a].gen)
    /\ ExactClaim(d, a)
    /\ d.wake[d.att[a].wake].st = "claimed"
    /\ ~d.att[a].over

SetBoth(d, a, st) == [d EXCEPT !.att[a].st = st, !.wake[d.att[a].wake].st = st]

(* prepare_agent_wake_dispatch: the fence, or the end of a stale task Wake. *)
Prepare(d, a) ==
    IF TaskDispatchable(d, a) THEN SetBoth(d, a, "prepared")
    ELSE Retire(d, {d.att[a].wake})

(* The dispatch binding still stands, right before the Host is called. *)
Verified(d, a) ==
    /\ Capable(d, d.att[a].gen)
    /\ ExactClaim(d, a)
    /\ d.wake[d.att[a].wake].st = "prepared"
    /\ d.att[a].st = "prepared"

(* What the envelope says: the inbox watermark, or the task attempt's       *)
(* controller generation.                                                  *)
Envelope(d, a) ==
    LET w == d.att[a].wake IN IF d.wake[w].trig = "task" THEN d.task.gen ELSE d.wake[w].hw

Release(d, a) ==
    IF Current(d, d.att[a].gen) /\ ExactClaim(d, a) /\ d.wake[d.att[a].wake].st = "claimed"
    THEN Drop(d, {d.att[a].wake}, {a}, "pending") ELSE d

(* finish_agent_wake_delivery accepts the outcome of attempt a. *)
Finishable(d, a, st) ==
    /\ Current(d, d.att[a].gen)
    /\ ExactClaim(d, a)
    /\ d.wake[d.att[a].wake].st \in {"consumed", st, "prepared", "delivery_unknown"}

(* Mutant: a late Host answer overwrites a consumed Wake. *)
FinishDeliveryLate(d, a, st) ==
    IF Finishable(d, a, st) THEN SetBoth(d, a, st) ELSE d

FinishDelivery(d, a, st) ==
    IF Finishable(d, a, st) /\ d.wake[d.att[a].wake].st # "consumed"
    THEN SetBoth(d, a, st) ELSE d

-----------------------------------------------------------------------------
NoBinding == [kind |-> "none", gen |-> 0, att |-> 0, fenced |-> FALSE]
Idle == [pc |-> "idle", att |-> 0]

Init ==
    /\ db = [cur |-> 0,
             ep |-> [g \in Gens |-> [life |-> "none", lapsed |-> FALSE,
                                     capable |-> FALSE, window |-> FALSE]],
             wake |-> [w \in Wakes |-> [trig |-> "none", st |-> "absent",
                                        att |-> 0, gen |-> 0, hw |-> 0]],
             att |-> [a \in Attempts |-> [st |-> "unused", wake |-> 0, gen |-> 0,
                                          kind |-> "none", over |-> FALSE]],
             task |-> [st |-> "none", gen |-> 1, carrier |-> 0]]
    /\ fresh = 0 /\ bind = NoBinding /\ worker = Idle /\ answer = 0
    /\ sched = "no" /\ calls = {} /\ gaveUp = FALSE /\ unbound = FALSE
    /\ box = [a \in Attempts |-> "none"]
    /\ told = [a \in Attempts |-> 0]
    /\ turns = [w \in Wakes |-> 0]
    /\ messages = 0 /\ faults = 0

Fault == faults < MaxFaults /\ faults' = faults + 1

(* No dispatch and no App call holds binding_transitions. *)
Unlocked == worker.pc \in {"idle", "done"} /\ answer = 0

(* A call a request handler makes on the controller after its commit. *)
Call(op, n) == [op |-> op, n |-> n]
After(op, n) ==
    /\ Cardinality(calls) < MaxCalls
    /\ calls' = calls \cup {Call(op, n)}

-----------------------------------------------------------------------------
(* New work *)

(* Mutant: a Delivery joins a Wake that has already been dispatched. *)
JoinableDispatched(d) ==
    {w \in Wakes : d.wake[w].trig = "inbox" /\ d.wake[w].st \in PreFence \cup {"prepared"}}

(* A Message is committed: its Delivery joins the inbox Wake that has not   *)
(* crossed the fence, or makes a new one.                                  *)
Joinable(d) == {w \in Wakes : d.wake[w].trig = "inbox" /\ d.wake[w].st \in PreFence}

(* Mutant: the watermark is one past the Delivery it covers. *)
CoalescePast(d, n) ==
    IF Joinable(d) # {}
    THEN [d EXCEPT !.wake[Oldest(Joinable(d))].hw = n + 1]
    ELSE [d EXCEPT !.wake[Oldest(Absent(d))] =
                    [trig |-> "inbox", st |-> "pending", att |-> 0, gen |-> 0, hw |-> n]]

Coalesce(d, n) ==
    IF Joinable(d) # {}
    THEN [d EXCEPT !.wake[Oldest(Joinable(d))].hw = n]
    ELSE [d EXCEPT !.wake[Oldest(Absent(d))] =
                    [trig |-> "inbox", st |-> "pending", att |-> 0, gen |-> 0, hw |-> n]]

PostMessage ==
    /\ messages < MaxMessages
    /\ Joinable(db) # {} \/ Absent(db) # {}
    /\ messages' = messages + 1
    /\ db' = Coalesce(db, messages')
    /\ After("schedule", messages')
    /\ UNCHANGED <<fresh, bind, worker, answer, sched, gaveUp, unbound, host, faults>>

(* A task attempt is given to the Agent's Endpoint to continue. *)
StartTaskContinuation ==
    /\ db.task.st = "none" /\ Absent(db) # {}
    /\ db' = [db EXCEPT !.task.st = "active",
                        !.wake[Oldest(Absent(db))].trig = "task",
                        !.wake[Oldest(Absent(db))].st = "pending"]
    /\ After("schedule", 0)
    /\ UNCHANGED <<fresh, bind, worker, answer, sched, gaveUp, unbound, host, messages, faults>>

(* The task attempt's lease runs out (nothing is written), or an operation  *)
(* on the task finds it over and retires the Wake that has not been         *)
(* dispatched.                                                             *)
TaskLeaseLapses ==
    /\ Fault
    /\ db.task.st = "active"
    /\ db' = [db EXCEPT !.task.st = "stale"]
    /\ UNCHANGED <<process, host, messages>>

TaskExpiryMaterialized ==
    /\ db.task.st = "stale" /\ PreFenceTaskWakes(db) # {}
    /\ db' = Retire(db, PreFenceTaskWakes(db))
    /\ UNCHANGED <<process, host, messages, faults>>

-----------------------------------------------------------------------------
(* Endpoints *)

(* A new Endpoint; of the older ones only the lifecycle is ever read again. *)
Fresh(d, g, keep) ==
    [d EXCEPT
        !.cur = g,
        !.ep = [h \in Gens |->
            IF h = g THEN [life |-> "attached", lapsed |-> FALSE, capable |-> FALSE, window |-> keep]
            ELSE IF h < g THEN [life |-> d.ep[h].life, lapsed |-> TRUE, capable |-> FALSE, window |-> FALSE]
            ELSE d.ep[h]]]

(* An attach replaces every attached Endpoint and forgets every window. *)
AttachedNow(d) == {g \in Gens : d.ep[g].life = "attached"}

Expired(d) ==
    [d EXCEPT !.ep = [g \in Gens |->
        [d.ep[g] EXCEPT !.life = IF @ = "attached" THEN "expired" ELSE @]]]

(* Mutant: a replacement does not fence the task attempt it interrupts. *)
ReplacedUnfenced(d) ==
    Expired(IF AttachedNow(d) = {} THEN d ELSE ReconcileLoss(d, d.cur, FALSE))

Replaced(d) ==
    Expired(IF AttachedNow(d) = {} THEN d ELSE ReconcileLoss(d, d.cur, TRUE))

AttachEndpoint ==
    /\ db.cur < MaxGen
    /\ db' = Fresh(Replaced(db), db.cur + 1, FALSE)
    /\ After("attached", db.cur + 1)
    /\ UNCHANGED <<fresh, bind, worker, answer, sched, gaveUp, unbound, host, messages, faults>>

(* Detaching is allowed at any time, of an expired Endpoint too, and a      *)
(* repeated detach still calls the controller.                             *)
Detached(d, g) ==
    IF d.ep[g].life = "detached" THEN d
    ELSE [ReconcileLoss(d, g, TRUE) EXCEPT
            !.ep[g] = [life |-> "detached", lapsed |-> TRUE, capable |-> FALSE, window |-> FALSE]]

DetachEndpoint(g) ==
    /\ db.ep[g].life # "none"
    /\ db' = Detached(db, g)
    /\ After("detached", g)
    /\ UNCHANGED <<fresh, bind, worker, answer, sched, gaveUp, unbound, host, messages, faults>>

EndpointLeaseLapses ==
    /\ Fault
    /\ Current(db, db.cur)
    /\ db' = [db EXCEPT !.ep[db.cur].lapsed = TRUE]
    /\ UNCHANGED <<process, host, messages>>

(* The View of the same Host window replaces the Endpoint that ran out. *)
RecoverExpiredEndpoint ==
    /\ Unlocked /\ bind.kind # "push"
    /\ db.cur \in Gens /\ db.cur < MaxGen
    /\ db.ep[db.cur].window
    /\ db.ep[db.cur].life \in {"attached", "expired"}
    /\ db.ep[db.cur].life = "attached" => db.ep[db.cur].lapsed
    /\ LET r == ReconcileLoss(db, db.cur, TRUE)
       IN db' = Fresh(Expired(r), db.cur + 1, TRUE)
    /\ fresh' = db.cur + 1
    /\ bind' = NoBinding
    /\ UNCHANGED <<worker, answer, sched, calls, gaveUp, host, unbound, messages, faults>>

-----------------------------------------------------------------------------
(* The controller: calls made after a commit, and Host bindings *)

Take(op, n) == Call(op, n) \in calls /\ calls' = calls \ {Call(op, n)}

(* false = queued or running, true = an event arrived meanwhile. *)
Marked == IF sched = "no" THEN "clean" ELSE "dirty"

ScheduleAgent(n) ==
    /\ Take("schedule", n)
    /\ sched' = Marked
    /\ gaveUp' = FALSE
    /\ UNCHANGED <<db, fresh, bind, worker, answer, host, unbound, messages, faults>>

ReconcileAttachedEndpoint(g) ==
    /\ Unlocked /\ Take("attached", g)
    /\ fresh' = g
    /\ bind' = IF bind.kind # "none" /\ bind.gen # g THEN NoBinding ELSE bind
    /\ UNCHANGED <<db, worker, answer, sched, gaveUp, host, unbound, messages, faults>>

EndpointDetached(g) ==
    /\ Unlocked /\ Take("detached", g)
    /\ fresh' = IF fresh = g THEN 0 ELSE fresh
    /\ bind' = IF bind.gen = g THEN NoBinding ELSE bind
    /\ UNCHANGED <<db, worker, answer, sched, gaveUp, host, unbound, messages, faults>>

(* Whatever carrier the exact Endpoint had is withdrawn first. *)
Disabled(d) == IF bind.gen = d.cur THEN Withdraw(d, d.cur) ELSE d

(* (A record for the properties: a Host binding was withdrawn while its     *)
(* Endpoint carried the task.)                                             *)
NotesUnbound == unbound' = (unbound \/ (db.task.carrier # 0 /\ db'.task.carrier = 0))

Bound(kind) ==
    /\ bind' = [NoBinding EXCEPT !.kind = kind, !.gen = db.cur]
    /\ db' = [Disabled(db) EXCEPT !.ep[db.cur].capable = TRUE,
                                  !.ep[db.cur].window = (kind = "app")]
    /\ NotesUnbound

RegisterEndpointAdapter ==
    /\ Unlocked /\ Current(db, db.cur) /\ fresh = db.cur
    /\ Bound("push")
    /\ sched' = Marked /\ gaveUp' = FALSE
    /\ UNCHANGED <<fresh, worker, answer, calls, host, messages, faults>>

(* Another View than the bound one; the bound View only renews its lease. *)
RegisterMcpAppBinding ==
    /\ Unlocked /\ Current(db, db.cur)
    /\ bind.kind # "none" => bind.gen = db.cur
    /\ \/ bind.kind = "app"
       \/ fresh = db.cur
       \/ ~db.ep[db.cur].capable /\ db.ep[db.cur].window
    /\ Bound("app")
    /\ UNCHANGED <<fresh, worker, answer, sched, calls, gaveUp, host, messages, faults>>

(* A push adapter leaves no window behind; a View leaves its own. *)
Unregister ==
    /\ Unlocked /\ bind.kind # "none" /\ Current(db, bind.gen)
    /\ db' = [Withdraw(db, bind.gen) EXCEPT !.ep[bind.gen].window = (bind.kind = "app")]
    /\ bind' = NoBinding /\ NotesUnbound
    /\ UNCHANGED <<fresh, worker, answer, sched, calls, gaveUp, host, messages, faults>>

ClaimLeaseLapses(a) ==
    /\ Fault
    /\ db.att[a].st = "claimed" /\ ~db.att[a].over
    /\ db' = [db EXCEPT !.att[a].over = TRUE]
    /\ UNCHANGED <<process, host, messages>>

-----------------------------------------------------------------------------
(* The dispatch worker and its push adapter.  From the claim to the         *)
(* outcome it holds binding_transitions, but no transaction.               *)

At(pc, a) == worker' = [pc |-> pc, att |-> a]

(* dispatch_one drops the binding on an error that is about the Endpoint. *)
Failed(stale) ==
    /\ bind' = IF stale THEN NoBinding ELSE bind
    /\ gaveUp' = ~stale
    /\ At("done", 0)

WorkerClaim ==
    /\ sched # "no" /\ worker.pc = "idle" /\ answer = 0
    /\ \/ /\ bind.kind # "push"
          /\ At("done", 0)
          /\ UNCHANGED <<db, bind, gaveUp>>
       \/ /\ bind.kind = "push" /\ ~Capable(db, bind.gen)
          /\ Failed(TRUE) /\ UNCHANGED db
       \/ /\ bind.kind = "push" /\ Capable(db, bind.gen)
          /\ Claimable(db) = {}
          /\ db' = Swept(db) /\ At("done", 0)
          /\ UNCHANGED <<bind, gaveUp>>
       \/ /\ bind.kind = "push" /\ Capable(db, bind.gen)
          /\ Unused(db) # {}
          /\ \E w \in Claimable(db) :
                /\ db' = Claim(db, w, Oldest(Unused(db)), bind.gen, "push")
                /\ At("claimed", Oldest(Unused(db)))
          /\ UNCHANGED <<bind, gaveUp>>
    /\ UNCHANGED <<fresh, answer, sched, calls, host, unbound, messages, faults>>

(* The adapter's preflight refuses and the claim is given back. *)
WorkerPreflightFails ==
    /\ worker.pc = "claimed"
    /\ db' = Release(db, worker.att)
    /\ Failed(~Current(db, bind.gen))
    /\ UNCHANGED <<fresh, answer, sched, calls, host, unbound, messages, faults>>

WorkerPrepare ==
    /\ worker.pc = "claimed"
    /\ LET a == worker.att
       IN IF Preparable(db, a)
          THEN /\ db' = Prepare(db, a)
               /\ IF TaskDispatchable(db, a)
                  THEN /\ told' = [told EXCEPT ![a] = Envelope(db, a)]
                       /\ At("prepared", a)
                       /\ UNCHANGED <<bind, gaveUp>>
                  ELSE Failed(FALSE) /\ UNCHANGED told
          ELSE Failed(~Capable(db, bind.gen)) /\ UNCHANGED <<db, told>>
    /\ UNCHANGED <<fresh, answer, sched, calls, box, turns, unbound, messages, faults>>

WorkerVerify ==
    /\ worker.pc = "prepared"
    /\ IF Verified(db, worker.att)
       THEN At("verified", worker.att) /\ UNCHANGED <<bind, gaveUp>>
       ELSE Failed(~Capable(db, bind.gen))
    /\ UNCHANGED <<db, fresh, answer, sched, calls, host, unbound, messages, faults>>

(* A model turn starts with the envelope of attempt a. *)
TurnStarts(a) ==
    /\ box' = [box EXCEPT ![a] = "sent"]
    /\ turns' = [turns EXCEPT ![db.att[a].wake] = @ + 1]

(* The Host callback; of an unknown outcome it may have started the turn. *)
WorkerDispatch ==
    /\ worker.pc = "verified"
    /\ \/ TurnStarts(worker.att) /\ \E o \in {"delivered", "delivery_unknown"} : At(o, worker.att)
       \/ At("delivery_unknown", worker.att) /\ UNCHANGED <<box, turns>>
    /\ UNCHANGED <<db, fresh, bind, answer, sched, calls, gaveUp, told, unbound, messages, faults>>

WorkerFinish ==
    /\ worker.pc \in {"delivered", "delivery_unknown"}
    /\ db' = FinishDelivery(db, worker.att, worker.pc)
    /\ bind' = IF Current(db, bind.gen) THEN bind ELSE NoBinding
    /\ At("done", 0)
    /\ UNCHANGED <<fresh, answer, sched, calls, gaveUp, host, unbound, messages, faults>>

(* Mutant: an event that arrived during the dispatch is forgotten. *)
WorkerNextDeaf ==
    /\ worker.pc = "done"
    /\ sched' = "no"
    /\ worker' = Idle
    /\ UNCHANGED <<db, fresh, bind, answer, calls, gaveUp, host, unbound, messages, faults>>

(* The worker runs again if an event arrived, and otherwise waits. *)
WorkerNext ==
    /\ worker.pc = "done"
    /\ sched' = IF sched = "dirty" THEN "clean" ELSE "no"
    /\ worker' = Idle
    /\ gaveUp' = (gaveUp /\ sched # "dirty")
    /\ UNCHANGED <<db, fresh, bind, answer, calls, host, unbound, messages, faults>>

-----------------------------------------------------------------------------
(* The MCP App View, which pulls *)

AppBound == Unlocked /\ bind.kind = "app" /\ Current(db, bind.gen)

(* The View's own claim is still the one to work on. *)
HoldsClaim ==
    /\ bind.att # 0
    /\ bind.fenced \/ ~db.att[bind.att].over
    /\ db.wake[db.att[bind.att].wake].st \notin {"consumed", "retired"}

AcquireMcpAppWake ==
    /\ AppBound /\ ~HoldsClaim /\ Capable(db, bind.gen)
    /\ \/ /\ Claimable(db) = {}
          /\ db' = Swept(db)
          /\ bind' = [bind EXCEPT !.att = 0, !.fenced = FALSE]
       \/ /\ Unused(db) # {}
          /\ \E w \in Claimable(db) :
                db' = Claim(db, w, Oldest(Unused(db)), bind.gen, "app")
          /\ bind' = [bind EXCEPT !.att = Oldest(Unused(db)), !.fenced = FALSE]
    /\ UNCHANGED <<fresh, worker, answer, sched, calls, gaveUp, host, unbound, messages, faults>>

(* The fence is crossed in a transaction of its own ... *)
PrepareMcpAppWake ==
    /\ AppBound /\ bind.att # 0 /\ ~bind.fenced
    /\ Preparable(db, bind.att)
    /\ db' = Prepare(db, bind.att)
    /\ IF TaskDispatchable(db, bind.att)
       THEN /\ answer' = bind.att
            /\ told' = [told EXCEPT ![bind.att] = Envelope(db, bind.att)]
       ELSE UNCHANGED <<answer, told>>
    /\ UNCHANGED <<fresh, bind, worker, sched, calls, gaveUp, box, turns, unbound, messages, faults>>

(* ... and verified before the View gets the message for the Host. *)
AnswerMcpAppPrepare ==
    /\ answer # 0
    /\ IF Verified(db, answer)
       THEN /\ bind' = [bind EXCEPT !.fenced = TRUE]
            /\ box' = [box EXCEPT ![answer] = "ready"]
       ELSE UNCHANGED <<bind, box>>
    /\ answer' = 0
    /\ UNCHANGED <<db, fresh, worker, sched, calls, gaveUp, told, turns, unbound, messages, faults>>

(* The View sends its message, even when it is no longer the bound one; or  *)
(* it never does, because the answer was lost.                             *)
ViewSends(a) ==
    /\ box[a] = "ready"
    /\ TurnStarts(a)
    /\ UNCHANGED <<db, process, told, messages, faults>>

FinishMcpAppWake(st) ==
    /\ AppBound /\ bind.att # 0 /\ bind.fenced
    /\ st = "delivered" => box[bind.att] = "sent"
    /\ db' = FinishDelivery(db, bind.att, st)
    /\ UNCHANGED <<process, host, messages, faults>>

-----------------------------------------------------------------------------
(* Model turns *)

(* A turn that is already running takes a pending inbox Wake. *)
ActivateExplicitly(w) ==
    /\ Current(db, db.cur) /\ Unused(db) # {}
    /\ db.wake[w].trig = "inbox" /\ db.wake[w].st = "pending"
    /\ ~Blocked(db)
    /\ LET a == Oldest(Unused(db))
       IN /\ db' = NewAttempt(db, a, w, db.cur, "explicit", "delivered")
          /\ box' = [box EXCEPT ![a] = "sent"]
          /\ told' = [told EXCEPT ![a] = db.wake[w].hw]
    /\ turns' = [turns EXCEPT ![w] = @ + 1]
    /\ UNCHANGED <<process, messages, faults>>

(* The turn that holds attempt a's token takes its Wake over.  (The lease   *)
(* promotion of a task attempt changes no fact of this model.)             *)
ConsumeWake(a) ==
    /\ box[a] = "sent"
    /\ Current(db, db.att[a].gen) /\ ExactClaim(db, a)
    /\ db.ep[db.cur].capable \/ db.att[a].kind \in {"explicit", "app"}
    /\ db.wake[db.att[a].wake].st \in Dispatched
    /\ db' = SetBoth(db, a, "consumed")
    /\ After("schedule", MaxMessages + db.att[a].wake)
    /\ UNCHANGED <<fresh, bind, worker, answer, sched, gaveUp, unbound, host, messages, faults>>

-----------------------------------------------------------------------------
(* Another Server process takes the database over. *)

ExpireStaleEndpoints(d) ==
    LET g == d.cur
    IN IF g \in Gens /\ d.ep[g].life = "attached" /\ d.ep[g].lapsed
       THEN [ReconcileLoss(d, g, TRUE) EXCEPT !.ep[g].life = "expired", !.ep[g].capable = FALSE]
       ELSE d

WithState(d, st) == {w \in Wakes : d.wake[w].st = st}
AttemptsWith(d, st) == {a \in Attempts : d.att[a].st = st}

(* Mutant: a takeover retries what may already have been dispatched. *)
RecoveredByRetry(d) ==
    LET e == ExpireStaleEndpoints(d)
        lost == {"claimed", "prepared"}
        c == [e EXCEPT !.ep = [g \in Gens |->
                [e.ep[g] EXCEPT !.capable = @ /\ e.ep[g].life # "attached"]]]
    IN Drop(c, {w \in Wakes : c.wake[w].st \in lost}, {a \in Attempts : c.att[a].st \in lost},
            "pending")

Recovered(d) ==
    LET e == ExpireStaleEndpoints(d)
        c == [e EXCEPT !.ep = [g \in Gens |->
                [e.ep[g] EXCEPT !.capable = @ /\ e.ep[g].life # "attached"]]]
    IN MakeUnknown(Drop(c, WithState(c, "claimed"), AttemptsWith(c, "claimed"), "pending"),
                   WithState(c, "prepared"), AttemptsWith(c, "prepared"))

ServerTakeover ==
    /\ Fault
    /\ db' = Recovered(db)
    /\ fresh' = 0 /\ bind' = NoBinding /\ worker' = Idle /\ answer' = 0
    /\ sched' = "no" /\ calls' = {} /\ gaveUp' = FALSE
    /\ UNCHANGED <<unbound, host, messages>>

-----------------------------------------------------------------------------
WorkStep == PostMessage \/ StartTaskContinuation \/ TaskLeaseLapses \/ TaskExpiryMaterialized

EndpointStep ==
    \/ AttachEndpoint \/ EndpointLeaseLapses \/ RecoverExpiredEndpoint
    \/ \E g \in Gens : DetachEndpoint(g) \/ ReconcileAttachedEndpoint(g) \/ EndpointDetached(g)

BindingStep ==
    \/ RegisterEndpointAdapter \/ RegisterMcpAppBinding \/ Unregister
    \/ \E n \in 0..(MaxMessages + MaxWakes) : ScheduleAgent(n)
    \/ \E a \in Attempts : ClaimLeaseLapses(a)

WorkerStep ==
    \/ WorkerClaim \/ WorkerPreflightFails \/ WorkerPrepare \/ WorkerVerify
    \/ WorkerDispatch \/ WorkerFinish \/ WorkerNext

ViewStep ==
    \/ AcquireMcpAppWake \/ PrepareMcpAppWake \/ AnswerMcpAppPrepare
    \/ \E a \in Attempts : ViewSends(a)
    \/ \E st \in {"delivered", "delivery_unknown"} : FinishMcpAppWake(st)

TurnStep ==
    \/ \E w \in Wakes : ActivateExplicitly(w)
    \/ \E a \in Attempts : ConsumeWake(a)

Next == WorkStep \/ EndpointStep \/ BindingStep \/ WorkerStep \/ ViewStep \/ TurnStep
        \/ ServerTakeover

Spec == Init /\ [][Next]_vars

-----------------------------------------------------------------------------
(* Properties *)

WakeStates == {"absent", "consumed", "retired"} \cup PreFence \cup Dispatched
AttemptStates == {"unused", "claimed", "revoked", "consumed"} \cup Dispatched

(* The tables, the bindings, the worker, what the Host and the turns got    *)
(* and the counters have their types; calls and the two history flags are  *)
(* the subject of the properties that read them.                           *)
TypeOK ==
    /\ db.cur \in 0..MaxGen
    /\ db.ep \in [Gens -> [life : {"none", "attached", "expired", "detached"}, lapsed : BOOLEAN,
                           capable : BOOLEAN, window : BOOLEAN]]
    /\ db.wake \in [Wakes -> [trig : {"none", "inbox", "task"}, st : WakeStates,
                              att : 0..MaxAttempts, gen : 0..MaxGen, hw : 0..MaxMessages]]
    /\ db.att \in [Attempts -> [st : AttemptStates, wake : 0..MaxWakes, gen : 0..MaxGen,
                                kind : {"none", "push", "app", "explicit"}, over : BOOLEAN]]
    /\ db.task \in [st : {"none", "active", "stale"}, gen : Nat, carrier : 0..MaxGen]
    /\ fresh \in 0..MaxGen
    /\ bind \in [kind : {"none", "push", "app"}, gen : 0..MaxGen, att : 0..MaxAttempts,
                 fenced : BOOLEAN]
    /\ worker.pc \in {"idle", "claimed", "prepared", "verified", "delivered",
                      "delivery_unknown", "done"}
    /\ worker.att \in 0..MaxAttempts /\ answer \in 0..MaxAttempts
    /\ sched \in {"no", "clean", "dirty"}
    /\ box \in [Attempts -> {"none", "ready", "sent"}]
    /\ told \in [Attempts -> Nat] /\ turns \in [Wakes -> Nat]
    /\ messages \in 0..MaxMessages /\ faults \in 0..MaxFaults

(* A Wake becomes at most one model turn, whatever is retried, replaced,   *)
(* released, lost or restarted (dispatch_next_agent_wake, the View's       *)
(* prepare and the explicit activation together).                          *)
OneTurnPerWake == \A w \in Wakes : turns[w] <= 1

(* The two tables agree: a claimed or dispatched Wake is in the state of    *)
(* the attempt it names, and every other attempt is revoked.               *)
AttemptsAgree ==
    \A w \in Wakes :
        /\ db.wake[w].att # 0 => /\ db.att[db.wake[w].att].wake = w
                                 /\ db.att[db.wake[w].att].st = db.wake[w].st
                                 /\ db.att[db.wake[w].att].gen = db.wake[w].gen
        /\ \A a \in Attempts : db.att[a].wake = w /\ a # db.wake[w].att => db.att[a].st = "revoked"

(* No Message is swallowed by coalescing: some Wake that is still to be    *)
(* dispatched covers it, or the envelope of a dispatch attempt names a     *)
(* watermark that covers it.  The envelope is fixed when the attempt is    *)
(* prepared: whether a turn of unknown delivery read it is not claimed.    *)
MessagesCovered ==
    \A m \in 1..messages : \E w \in Wakes :
        /\ db.wake[w].trig = "inbox" /\ db.wake[w].hw >= m
        /\ \/ db.wake[w].st \in PreFence
           \/ told[db.wake[w].att] >= m

(* The row that names the task's carrier names the Endpoint that holds its  *)
(* Wake, and that Endpoint is the attached one.                            *)
CarrierIsCurrent ==
    db.task.carrier # 0 =>
        /\ db.task.carrier = db.cur /\ db.ep[db.cur].life = "attached"
        /\ \E w \in Wakes : /\ db.wake[w].trig = "task" /\ db.wake[w].gen = db.task.carrier
                             /\ db.wake[w].st \notin {"pending", "retired"}

(* A turn was told the task attempt's present controller generation, so the *)
(* task store would accept what it does.                                   *)
TurnHolds(a) ==
    /\ db.att[a].wake # 0 /\ db.wake[db.att[a].wake].trig = "task"
    /\ box[a] # "none" /\ told[a] = db.task.gen /\ db.task.st = "active"

(* Such a turn belongs to the attached Endpoint: a replaced one's is stale. *)
OldTurnIsStale ==
    \A a \in Attempts :
        TurnHolds(a) => db.att[a].gen = db.cur /\ db.ep[db.cur].life = "attached"

(* The turn of an Endpoint that was replaced, recovered or detached is      *)
(* stale, unless its Host binding was withdrawn while it carried the task:  *)
(* that clears the carrier row, and reconcile_wakes_for_endpoint_loss then  *)
(* finds nothing to fence.                                                 *)
OldTurnIsStaleUnlessUnbound == unbound \/ OldTurnIsStale

(* The dispatch fence is one-way: a Wake past it never becomes pending,     *)
(* claimed or prepared again, keeps its attempt, and a consumed or retired  *)
(* one changes no more (a late Host answer included).                      *)
FenceOneWay ==
    [][\A w \in Wakes :
        /\ db.wake[w].st \in Dispatched =>
              /\ db'.wake[w].st \in (Dispatched \ {"prepared"}) \cup {db.wake[w].st, "consumed"}
              /\ db'.wake[w].att = db.wake[w].att /\ db'.wake[w].hw = db.wake[w].hw
        /\ db.wake[w].st \in {"consumed", "retired"} => db'.wake[w] = db.wake[w]]_vars

(* A push adapter is never left alone with a Wake it could dispatch: the    *)
(* agent is scheduled, or an event is on its way, or the last opportunity   *)
(* failed (the code keeps no timer for that case).                         *)
NoLostOpportunity ==
    bind.kind = "push" /\ Capable(db, bind.gen) /\ Claimable(db) # {} /\ ~gaveUp =>
        sched # "no" \/ \E c \in calls : c.op = "schedule"
=============================================================================
