------------------------ MODULE AgentWakeEventProofs ------------------------
(***************************************************************************)
(* No opportunity to dispatch a Wake is lost, for every number of Wakes,   *)
(* attempts, Endpoint generations, Messages, faults and pending calls.     *)
(***************************************************************************)
EXTENDS AgentWakeProofs

-----------------------------------------------------------------------------
(* The rest of the invariant says when an Endpoint may have a Host, whose   *)
(* claims are outstanding while a push adapter is bound, and why an event   *)
(* is then on its way to the worker.                                       *)

Expected == \E c \in calls : c.op = "schedule"

Served(d) == bind.kind = "push" /\ Capable(d, bind.gen)

BindingOK(d) ==
    /\ fresh <= d.cur /\ bind.gen <= d.cur
    /\ \A g \in Gens : Call("attached", g) \in calls => g <= d.cur
    /\ Call("attached", d.cur) \in calls =>
          /\ fresh # d.cur /\ bind.gen # d.cur
          /\ d.cur \in Gens => ~d.ep[d.cur].capable /\ ~d.ep[d.cur].window
    /\ fresh = d.cur /\ bind.gen # d.cur /\ Current(d, d.cur) => ~d.ep[d.cur].capable
    /\ bind.kind = "none" => bind.gen = 0

ClaimsOK(d) ==
    Served(d) => \A a \in Attempts :
        d.att[a].st = "claimed" => d.att[a].over \/ (worker.pc = "claimed" /\ worker.att = a)

EventOK(d) ==
    /\ worker.pc # "idle" => sched # "no"
    /\ Served(d) /\ ~gaveUp /\ Opportunity(d) =>
          \/ Expected
          \/ worker.pc = "idle" /\ sched # "no"
          \/ worker.pc = "claimed"
          \/ sched = "dirty"

WakeInv == StoreInv(db) /\ TurnInv(db) /\ BindingOK(db) /\ ClaimsOK(db) /\ EventOK(db)

Live == BindingOK(db) /\ ClaimsOK(db) /\ EventOK(db)

(* A step adds no attach notice and takes no schedule call. *)
NoticesKept ==
    \A g \in 0..MaxGen : Call("attached", g) \in calls' => Call("attached", g) \in calls
CallsKept == NoticesKept /\ (Expected => Expected')

(* What a request handler leaves to be called ... *)
LEMMA AfterCalls ==
    ASSUME NEW n
    PROVE  /\ After("schedule", n) => CallsKept /\ Expected'
           /\ After("detached", n) => CallsKept
<1>1. ASSUME NEW op \in {"schedule", "detached"}, After(op, n)
      PROVE  CallsKept
  <2>1. calls' = calls \cup {Call(op, n)}
    BY <1>1 DEF After
  <2>2. \A g : Call("attached", g) # Call(op, n)
    <3>1. \A g : Call("attached", g).op = "attached"
      BY DEF Call
    <3>2. Call(op, n).op # "attached"
      BY DEF Call
    <3> QED BY <3>1, <3>2
  <2> QED BY <2>1, <2>2 DEF CallsKept, NoticesKept, Expected
<1>2. ASSUME After("schedule", n) PROVE Expected'
  <2>1. Call("schedule", n) \in calls' /\ Call("schedule", n).op = "schedule"
    BY <1>2 DEF After, Call
  <2> QED BY <2>1 DEF Expected
<1> QED BY <1>1, <1>2

(* ... and what is left after the call. *)
LEMMA TakeCalls ==
    ASSUME NEW n
    PROVE  /\ Take("schedule", n) => NoticesKept
           /\ Take("detached", n) => CallsKept
           /\ Take("attached", n) => CallsKept /\ Call("attached", n) \notin calls'
<1>1. ASSUME NEW op, Take(op, n)
      PROVE  NoticesKept /\ calls' = calls \ {Call(op, n)}
  BY <1>1 DEF Take, NoticesKept
<1>2. ASSUME NEW op \in {"attached", "detached"}, Take(op, n)
      PROVE  Expected => Expected'
  <2>1. Call(op, n).op # "schedule"
    BY DEF Call
  <2> QED BY <1>1, <1>2, <2>1 DEF Expected
<1> QED BY <1>1, <1>2 DEF CallsKept

(* While an attach notice is pending there is an Endpoint. *)
LEMMA NoticeNames ==
    ASSUME StoreInv(db), ProcessTypes, BindingOK(db), Call("attached", db.cur) \in calls
    PROVE  db.cur # 0
BY BoundsAssumption DEF BindingOK, ProcessTypes

(* The binding and the current Endpoint are as before, as far as the Host   *)
(* is concerned.                                                           *)
SameHost ==
    /\ fresh' = fresh /\ bind'.kind = bind.kind /\ bind'.gen = bind.gen
    /\ db'.cur = db.cur
    /\ db.cur \in Gens => /\ db'.ep[db.cur].capable => db.ep[db.cur].capable
                          /\ db'.ep[db.cur].window => db.ep[db.cur].window
    /\ Current(db', db.cur) => Current(db, db.cur)

(* Such a step keeps what is said of the binding. *)
LEMMA BindingKept ==
    ASSUME BindingOK(db), db \in Stores, SameHost, NoticesKept
    PROVE  BindingOK(db)'
<1>0. db.cur \in 0..MaxGen
  BY Rows
<1>1. fresh' = fresh /\ bind'.kind = bind.kind /\ bind'.gen = bind.gen /\ db'.cur = db.cur
  BY DEF SameHost
<1>2. fresh' <= db'.cur /\ bind'.gen <= db'.cur /\ (bind'.kind = "none" => bind'.gen = 0)
  BY <1>1 DEF BindingOK
<1>3. \A g \in Gens : Call("attached", g) \in calls' => g <= db'.cur
  BY <1>1 DEF BindingOK, NoticesKept, Gens
<1>4. Call("attached", db'.cur) \in calls' =>
          /\ fresh' # db'.cur /\ bind'.gen # db'.cur
          /\ db'.cur \in Gens => ~db'.ep[db'.cur].capable /\ ~db'.ep[db'.cur].window
  BY <1>0, <1>1 DEF BindingOK, NoticesKept, SameHost
<1>5. fresh' = db'.cur /\ bind'.gen # db'.cur /\ Current(db', db'.cur) => ~db'.ep[db'.cur].capable
  BY <1>1 DEF BindingOK, SameHost, Current
<1> QED BY <1>2, <1>3, <1>4, <1>5 DEF BindingOK

(* The binding goes, and the Endpoint does not keep a Host nobody knows of. *)
LEMMA BindingDropped ==
    ASSUME BindingOK(db), StoreInv(db), ProcessTypes, bind' = NoBinding, fresh' = fresh,
           NoticesKept, db'.cur = db.cur, db'.ep = db.ep,
           bind.gen = db.cur => ~Capable(db, db.cur)
    PROVE  BindingOK(db)'
<1>0. db.cur \in 0..MaxGen /\ bind'.gen = 0 /\ bind'.kind = "none"
  BY Rows, NoBindingType DEF StoreInv
<1>1. fresh' <= db'.cur /\ bind'.gen <= db'.cur
  BY <1>0, BoundsAssumption DEF BindingOK
<1>2. \A g \in Gens : Call("attached", g) \in calls' => g <= db'.cur
  BY DEF BindingOK, NoticesKept, Gens
<1>3. Call("attached", db'.cur) \in calls' =>
          /\ fresh' # db'.cur /\ bind'.gen # db'.cur
          /\ db'.cur \in Gens => ~db'.ep[db'.cur].capable /\ ~db'.ep[db'.cur].window
  BY <1>0, NoticeNames DEF BindingOK, NoticesKept
<1>4. fresh' = db'.cur /\ bind'.gen # db'.cur /\ Current(db', db'.cur) => ~db'.ep[db'.cur].capable
  BY DEF BindingOK, Current, Capable
<1> QED BY <1>0, <1>1, <1>2, <1>3, <1>4 DEF BindingOK

(* Without a served push adapter nothing more is asked. *)
LEMMA UnservedStep ==
    ASSUME BindingOK(db)', ~Served(db)', worker'.pc # "idle" => sched' # "no"
    PROVE  Live'
BY DEF Live, ClaimsOK, EventOK

(* The claims left are the same, and there is no new opportunity. *)
Narrowed(d, e) ==
    /\ e.cur = d.cur /\ e.ep = d.ep
    /\ \A a \in Attempts : e.att[a].st = "claimed" => e.att[a] = d.att[a]
    /\ Opportunity(e) => Opportunity(d)

(* No Wake becomes ready, and none that was dispatched is free again. *)
LEMMA NarrowedIf ==
    ASSUME NEW d, NEW e, e.cur = d.cur, e.ep = d.ep,
           \A a \in Attempts : e.att[a].st = "claimed" => e.att[a] = d.att[a],
           Ready(e) \subseteq Ready(d),
           \A w \in Wakes : d.wake[w].st \in Dispatched => e.wake[w].st \in Dispatched
    PROVE  Narrowed(d, e)
BY DEF Narrowed, Opportunity, Blocked

(* A served adapter stays served. *)
LEMMA ServedBefore ==
    ASSUME db'.cur = db.cur, db'.ep = db.ep, bind'.kind = bind.kind, bind'.gen = bind.gen
    PROVE  Served(db)' <=> Served(db)
BY DEF Served, Capable, Current

(* A step that makes no opportunity and leaves the worker alone. *)
LEMMA NarrowStep ==
    ASSUME Live, db \in Stores, Narrowed(db, db'), CallsKept, UNCHANGED <<fresh, worker, sched, gaveUp>>,
           bind'.kind = bind.kind, bind'.gen = bind.gen
    PROVE  Live'
<1>0. db'.cur = db.cur /\ db'.ep = db.ep
  BY DEF Narrowed
<1>1. SameHost
  BY <1>0 DEF SameHost, Current
<1>2. BindingOK(db)'
  BY <1>1, BindingKept DEF Live, CallsKept
<1>3. Served(db)' <=> Served(db)
  BY <1>0, ServedBefore
<1>4. ClaimsOK(db)'
  BY <1>3 DEF Live, ClaimsOK, Narrowed
<1>5. EventOK(db)'
  BY <1>3 DEF Live, EventOK, Narrowed, CallsKept
<1> QED BY <1>2, <1>4, <1>5 DEF Live

(* A step after which an event is on its way. *)
LEMMA ExpectedStep ==
    ASSUME Live, db \in Stores, db'.cur = db.cur, db'.ep = db.ep, CallsKept, Expected',
           \A a \in Attempts : db'.att[a].st = "claimed" => db'.att[a] = db.att[a],
           UNCHANGED <<fresh, bind, worker, sched>>
    PROVE  Live'
<1>1. SameHost
  BY DEF SameHost, Current
<1>2. BindingOK(db)'
  BY <1>1, BindingKept DEF Live, CallsKept
<1>3. Served(db)' <=> Served(db)
  BY ServedBefore
<1>4. ClaimsOK(db)'
  BY <1>3 DEF Live, ClaimsOK
<1>5. EventOK(db)'
  BY DEF Live, EventOK
<1> QED BY <1>2, <1>4, <1>5 DEF Live

(* New work is announced; work that ends is no opportunity. *)
LEMMA WorkLive ==
    ASSUME SafetyInv, Live, WorkStep
    PROVE  Live'
<1>0. StoreInv(db) /\ ProcessTypes /\ db \in Stores /\ db.task \in TaskRecords
  BY Rows DEF SafetyInv, TurnInv, StoreInv
<1>1. CASE PostMessage
  <2>1. messages' \in 0..MaxMessages
    BY <1>0, <1>1, BoundsAssumption DEF ProcessTypes, PostMessage
  <2>2. PICK w \in Wakes : Joined(db, db', w, messages')
    BY <1>0, <1>1, <2>1, CoalesceJoins DEF PostMessage
  <2>3. CallsKept /\ Expected' /\ UNCHANGED <<fresh, bind, worker, sched>>
    BY <1>1, AfterCalls DEF PostMessage
  <2> QED BY <1>0, <2>2, <2>3, ExpectedStep DEF Joined
<1>2. CASE StartTaskContinuation
  <2>1. PICK w \in Wakes : Continued(db, db', w)
    BY <1>0, <1>2, ContinueRows DEF StartTaskContinuation
  <2>2. CallsKept /\ Expected' /\ UNCHANGED <<fresh, bind, worker, sched>>
    BY <1>2, AfterCalls DEF StartTaskContinuation
  <2> QED BY <1>0, <2>1, <2>2, ExpectedStep DEF Continued
<1>3. CASE TaskLeaseLapses
  <2>1. /\ db'.cur = db.cur /\ db'.ep = db.ep /\ db'.wake = db.wake /\ db'.att = db.att
        /\ db'.task.st = "stale"
    BY <1>0, <1>3, TaskLapseSafe DEF TaskLeaseLapses
  <2>2. Ready(db') \subseteq Ready(db)
    BY <2>1 DEF Ready
  <2>3. Narrowed(db, db')
    BY <2>1, <2>2, NarrowedIf
  <2>4. CallsKept /\ UNCHANGED <<fresh, bind, worker, sched, gaveUp>>
    BY <1>3 DEF TaskLeaseLapses, process, CallsKept, NoticesKept, Expected
  <2> QED BY <1>0, <2>3, <2>4, NarrowStep
<1>4. CASE TaskExpiryMaterialized
  <2> DEFINE W == PreFenceTaskWakes(db)
             A == {a \in Attempts : db.att[a].wake \in W /\ db.att[a].st = "claimed"}
  <2>1. Dropped(db, db', W, A, "retired") /\ W \subseteq Wakes
    BY <1>0, <1>4, RetireSafe DEF TaskExpiryMaterialized, PreFenceTaskWakes
  <2>2. \A w \in W : db.wake[w].st \in PreFence
    BY DEF PreFenceTaskWakes
  <2> HIDE DEF W, A
  <2>3. \A a \in Attempts : db'.att[a].st = "claimed" => db'.att[a] = db.att[a]
    BY <2>1 DEF Dropped
  <2>4. Ready(db') \subseteq Ready(db)
    <3> SUFFICES ASSUME NEW w \in Ready(db') PROVE w \in Ready(db)
      OBVIOUS
    <3>1. /\ w \in Wakes
          /\ db'.wake[w].st = "pending" \/ (db'.wake[w].st = "claimed" /\ db'.att[db'.wake[w].att].over)
          /\ db'.wake[w].trig = "task" => db'.task.st = "active"
      BY DEF Ready
    <3>2. w \notin W /\ db'.wake[w] = db.wake[w] /\ db'.task.st = db.task.st
      BY <2>1, <3>1 DEF Dropped
    <3>3. StoreInv(db')
      BY <1>0, <1>4, RetireSafe DEF TaskExpiryMaterialized, Safe
    <3>4. db'.wake[w].st = "claimed" =>
              db'.wake[w].att \in Attempts /\ db'.att[db'.wake[w].att].st = "claimed"
      BY <3>1, <3>3, TablesLinked DEF Linked, Bare
    <3> QED BY <2>3, <3>1, <3>2, <3>4 DEF Ready
  <2>5. /\ db'.cur = db.cur /\ db'.ep = db.ep
        /\ \A w \in Wakes : db.wake[w].st \in Dispatched => db'.wake[w].st \in Dispatched
    BY <2>1, <2>2 DEF Dropped, PreFence, Dispatched
  <2>6. Narrowed(db, db')
    BY <2>3, <2>4, <2>5, NarrowedIf
  <2>7. CallsKept /\ UNCHANGED <<fresh, bind, worker, sched, gaveUp>>
    BY <1>4 DEF TaskExpiryMaterialized, process, CallsKept, NoticesKept, Expected
  <2> QED BY <1>0, <2>6, <2>7, NarrowStep
<1> QED BY <1>1, <1>2, <1>3, <1>4 DEF WorkStep

(* A Wake that is ready in e was ready in d, when rows only lose claims of  *)
(* generations that hold none.                                             *)
LEMMA LostNarrows ==
    ASSUME NEW d, StoreInv(d), NEW r, NEW e, StoreInv(e), NEW g \in Gens, g # d.cur, Lost(d, r, g),
           e.wake = r.wake, e.att = r.att, e.task = r.task
    PROVE  /\ Ready(e) \subseteq Ready(d)
           /\ \A a \in Attempts : e.att[a].st = "claimed" => e.att[a] = d.att[a]
           /\ \A w \in Wakes : d.wake[w].st \in Dispatched => e.wake[w].st \in Dispatched
<1>1. \A a \in Attempts : e.att[a].st = "claimed" => e.att[a] = d.att[a]
  BY DEF Lost
<1>2. Ready(e) \subseteq Ready(d)
  <2> SUFFICES ASSUME NEW w \in Ready(e) PROVE w \in Ready(d)
    OBVIOUS
  <2>1. /\ w \in Wakes
        /\ e.wake[w].st = "pending" \/ (e.wake[w].st = "claimed" /\ e.att[e.wake[w].att].over)
        /\ e.wake[w].trig = "task" => e.task.st = "active"
    BY DEF Ready
  <2>2. ~(d.wake[w].st = "claimed" /\ d.wake[w].gen = g)
    <3>1. d.wake[w].st = "claimed" =>
              /\ d.wake[w].att \in Attempts /\ d.att[d.wake[w].att].st = "claimed"
              /\ d.att[d.wake[w].att].gen = d.wake[w].gen
      BY <2>1, TablesLinked DEF Linked, Bare
    <3>2. d.wake[w].st = "claimed" => d.wake[w].gen = d.cur
      BY <3>1 DEF StoreInv, AttemptOK
    <3> QED BY <3>2
  <2>3. e.wake[w].st = "pending" => d.wake[w].st = "pending"
    BY <2>1, <2>2 DEF Lost
  <2>4. e.wake[w].st = "claimed" => e.wake[w] = d.wake[w] /\ e.att[e.wake[w].att] = d.att[d.wake[w].att]
    <3>1. e.wake[w].st = "claimed" =>
              /\ e.wake[w].att \in Attempts /\ e.att[e.wake[w].att].st = "claimed"
      BY <2>1, TablesLinked DEF Linked, Bare
    <3>2. e.wake[w].st = "claimed" => e.wake[w] = d.wake[w]
      BY <2>1 DEF Lost
    <3> QED BY <1>1, <3>1, <3>2
  <2>5. d.wake[w].trig = "task" => e.wake[w].trig = "task"
    BY <2>1 DEF Lost, Quiet, WakeKept
  <2>6. e.task.st = d.task.st
    BY DEF Lost
  <2> QED BY <2>1, <2>3, <2>4, <2>5, <2>6 DEF Ready
<1> QED BY <1>1, <1>2 DEF Lost

(* Endpoints come and go: the binding of an Endpoint that went is not       *)
(* served, and a new one has no Host yet.                                  *)
LEMMA EndpointsLive ==
    ASSUME SafetyInv, Live, \/ AttachEndpoint \/ EndpointLeaseLapses \/ RecoverExpiredEndpoint
                            \/ \E g \in Gens : DetachEndpoint(g)
    PROVE  Live'
<1>0. /\ StoreInv(db) /\ ProcessTypes /\ db \in Stores /\ BindingOK(db) /\ EventOK(db)
      /\ db.cur \in 0..MaxGen /\ bind.gen \in Nat /\ fresh \in Nat
  BY Rows DEF SafetyInv, TurnInv, StoreInv, Live, ProcessTypes, Bindings
<1>1. worker.pc # "idle" => sched # "no"
  BY <1>0 DEF EventOK
<1>2. CASE AttachEndpoint
  <2> DEFINE g == db.cur + 1
  <2>1. g \in Gens
    BY <1>0, <1>2, BoundsAssumption DEF AttachEndpoint, Gens
  <2>2. db'.cur = g /\ ~db'.ep[g].capable /\ ~db'.ep[g].window
    <3>1. db' = Fresh(Replaced(db), g, FALSE)
      BY <1>2 DEF AttachEndpoint
    <3> HIDE DEF g
    <3> QED BY <1>0, <2>1, <3>1, AttachSafe DEF Renewed
  <2>3. calls' = calls \cup {Call("attached", g)} /\ UNCHANGED <<fresh, bind, worker, sched>>
    BY <1>2 DEF AttachEndpoint, After
  <2>4. fresh <= db.cur /\ bind.gen <= db.cur /\ (bind.kind = "none" => bind.gen = 0)
        /\ \A h \in Gens : Call("attached", h) \in calls => h <= db.cur
    BY <1>0 DEF BindingOK
  <2>5. \A h \in Gens : Call("attached", h) \in calls' => h <= g
    <3>1. \A h \in Gens : Call("attached", h) = Call("attached", g) => h = g
      BY DEF Call
    <3> QED BY <1>0, <2>3, <2>4, <3>1 DEF Gens
  <2>6. fresh # g /\ bind.gen # g /\ fresh <= g /\ bind.gen <= g
    BY <1>0, <2>4
  <2>7. ~Current(db', bind'.gen)
    BY <2>2, <2>3, <2>6 DEF Current
  <2> HIDE DEF g
  <2>8. BindingOK(db)'
    BY <2>2, <2>3, <2>4, <2>5, <2>6 DEF BindingOK
  <2> QED BY <1>1, <2>3, <2>7, <2>8, UnservedStep DEF Served, Capable
<1>3. CASE EndpointLeaseLapses
  <2>1. db.cur \in Gens
    BY <1>3 DEF EndpointLeaseLapses, Current
  <2>2. /\ db'.cur = db.cur /\ db'.ep[db.cur].lapsed
        /\ db'.ep[db.cur].capable = db.ep[db.cur].capable
        /\ db'.ep[db.cur].window = db.ep[db.cur].window
    BY <1>0, <1>3, <2>1, EndpointLapseSafe DEF EndpointLeaseLapses
  <2>3. UNCHANGED <<fresh, bind, worker, sched, calls>>
    BY <1>3 DEF EndpointLeaseLapses, process
  <2>4. \A g : ~Current(db', g)
    BY <2>2 DEF Current
  <2>5. BindingOK(db)'
    BY <1>0, <2>2, <2>3, <2>4, BindingKept DEF SameHost, NoticesKept
  <2> QED BY <1>1, <2>3, <2>4, <2>5, UnservedStep DEF Served, Capable
<1>4. CASE RecoverExpiredEndpoint
  <2> DEFINE g == db.cur + 1
  <2>1. g \in Gens
    BY <1>0, <1>4, BoundsAssumption DEF RecoverExpiredEndpoint, Gens
  <2>2. db'.cur = g /\ ~db'.ep[g].capable
    <3>1. db' = Fresh(Expired(ReconcileLoss(db, db.cur, TRUE)), g, TRUE)
      BY <1>4 DEF RecoverExpiredEndpoint
    <3> HIDE DEF g
    <3> QED BY <1>0, <2>1, <3>1, RecoverySafe DEF Renewed
  <2>3. fresh' = g /\ bind' = NoBinding /\ UNCHANGED <<calls, worker, sched>>
    BY <1>4 DEF RecoverExpiredEndpoint
  <2>4. bind'.gen = 0 /\ bind'.kind = "none"
    BY <2>3, NoBindingType
  <2>5. \A h \in Gens : Call("attached", h) \in calls => h <= db.cur
    BY <1>0 DEF BindingOK
  <2>6. Call("attached", g) \notin calls /\ \A h \in Gens : Call("attached", h) \in calls => h <= g
    BY <1>0, <2>1, <2>5 DEF Gens
  <2>7. g <= g /\ 0 <= g
    BY <1>0
  <2> HIDE DEF g
  <2>8. BindingOK(db)'
    BY <2>2, <2>3, <2>4, <2>6, <2>7 DEF BindingOK
  <2> QED BY <1>1, <2>3, <2>4, <2>8, UnservedStep DEF Served
<1>5. ASSUME NEW g \in Gens, DetachEndpoint(g) PROVE Live'
  <2>1. /\ Safe(db, db') /\ db'.cur = db.cur /\ db'.ep[g].life = "detached"
        /\ db'.ep[g].capable => db.ep[g].capable
        /\ db'.ep[g].window => db.ep[g].window
        /\ \A h \in Gens \ {g} : db'.ep[h] = db.ep[h]
        /\ \/ db' = db
           \/ \E r : Lost(db, r, g) /\ db'.wake = r.wake /\ db'.att = r.att /\ db'.task = r.task
    BY <1>0, <1>5, DetachSafe DEF DetachEndpoint
  <2>2. CallsKept /\ UNCHANGED <<fresh, bind, worker, sched, gaveUp>>
    BY <1>5, AfterCalls DEF DetachEndpoint
  <2>3. SameHost
    BY <2>1, <2>2 DEF SameHost, Current
  <2>4. BindingOK(db)'
    BY <1>0, <2>2, <2>3, BindingKept DEF CallsKept
  <2>5. CASE g = db.cur
    <3>1. \A h : ~Current(db', h)
      BY <2>1, <2>5 DEF Current
    <3> QED BY <1>1, <2>2, <2>4, <3>1, UnservedStep DEF Served, Capable
  <2>6. CASE g # db.cur
    <3>1. /\ Ready(db') \subseteq Ready(db)
          /\ \A a \in Attempts : db'.att[a].st = "claimed" => db'.att[a] = db.att[a]
          /\ \A w \in Wakes : db.wake[w].st \in Dispatched => db'.wake[w].st \in Dispatched
      <4>1. CASE db' = db
        BY <4>1
      <4>2. ASSUME NEW r, Lost(db, r, g), db'.wake = r.wake, db'.att = r.att, db'.task = r.task
            PROVE  <3>1!1 /\ <3>1!2 /\ <3>1!3
        BY <1>0, <2>1, <2>6, <4>2, LostNarrows DEF Safe
      <4> QED BY <2>1, <4>1, <4>2
    <3>2. Opportunity(db') => Opportunity(db)
      BY <3>1 DEF Opportunity, Blocked
    <3>3. Served(db)' => Served(db)
      BY <2>1, <2>2, <2>6 DEF Served, Capable, Current
    <3>4. ClaimsOK(db)'
      BY <2>2, <3>1, <3>3 DEF Live, ClaimsOK
    <3>5. EventOK(db)'
      BY <1>0, <2>2, <3>2, <3>3 DEF EventOK, CallsKept
    <3> QED BY <2>4, <3>4, <3>5 DEF Live
  <2> QED BY <2>5, <2>6
<1> QED BY <1>2, <1>3, <1>4, <1>5

(* The calls that follow a commit. *)
LEMMA CallsLive ==
    ASSUME SafetyInv, Live, \/ \E g \in Gens : ReconcileAttachedEndpoint(g) \/ EndpointDetached(g)
                            \/ \E n \in 0..(MaxMessages + MaxWakes) : ScheduleAgent(n)
    PROVE  Live'
<1>0. /\ StoreInv(db) /\ ProcessTypes /\ db \in Stores /\ BindingOK(db) /\ EventOK(db)
      /\ db.cur \in 0..MaxGen /\ bind.gen \in Nat /\ fresh \in Nat
  BY Rows DEF SafetyInv, TurnInv, StoreInv, Live, ProcessTypes, Bindings
<1>1. ASSUME NEW n, ScheduleAgent(n) PROVE Live'
  <2>1. /\ NoticesKept /\ sched' = Marked /\ gaveUp' = FALSE
        /\ UNCHANGED <<db, fresh, bind, worker>>
    BY <1>1, TakeCalls DEF ScheduleAgent
  <2>2. sched' # "no" /\ (sched # "no" => sched' = "dirty")
    BY <2>1 DEF Marked
  <2>3. BindingOK(db)'
    BY <1>0, <2>1, BindingKept DEF SameHost
  <2>4. ClaimsOK(db)'
    BY <2>1 DEF Live, ClaimsOK, Served, Capable, Current
  <2>5. EventOK(db)'
    BY <1>0, <2>1, <2>2 DEF EventOK
  <2> QED BY <2>3, <2>4, <2>5 DEF Live
<1>2. ASSUME CallsKept, UNCHANGED <<db, worker, sched, gaveUp>>, bind' = bind \/ bind' = NoBinding,
             BindingOK(db)'
      PROVE  Live'
  <2>1. CASE bind' = bind
    <3>1. Served(db)' <=> Served(db)
      BY <1>2, <2>1, ServedBefore
    <3>2. ClaimsOK(db)'
      BY <1>2, <3>1 DEF Live, ClaimsOK
    <3>3. EventOK(db)'
      BY <1>0, <1>2, <3>1 DEF EventOK, CallsKept, Opportunity, Ready, Blocked
    <3> QED BY <1>2, <3>2, <3>3 DEF Live
  <2>2. CASE bind' = NoBinding
    <3>1. ~Served(db)'
      BY <2>2, NoBindingType DEF Served
    <3> QED BY <1>0, <1>2, <3>1, UnservedStep DEF EventOK
  <2> QED BY <1>2, <2>1, <2>2
<1>3. ASSUME NEW g \in Gens, ReconcileAttachedEndpoint(g) PROVE Live'
  <2>1. /\ CallsKept /\ Call("attached", g) \notin calls' /\ Call("attached", g) \in calls
        /\ fresh' = g /\ UNCHANGED <<db, worker, sched, gaveUp>>
        /\ bind' = IF bind.kind # "none" /\ bind.gen # g THEN NoBinding ELSE bind
    BY <1>3, TakeCalls DEF ReconcileAttachedEndpoint, Take
  <2>2. g <= db.cur /\ bind.gen <= db.cur /\ fresh <= db.cur /\ g # 0 /\ 0 <= db.cur
    BY <1>0, <2>1 DEF BindingOK, Gens
  <2>3. (bind' = bind \/ bind' = NoBinding) /\ bind'.gen <= db.cur
        /\ (bind'.kind = "none" => bind'.gen = 0)
    BY <1>0, <2>1, <2>2, NoBindingType DEF BindingOK
  <2>4. \A h \in Gens : Call("attached", h) \in calls' => h <= db.cur
    BY <1>0, <2>1 DEF BindingOK, CallsKept, NoticesKept, Gens
  <2>5. Call("attached", db.cur) \in calls' =>
            /\ g # db.cur /\ bind'.gen # db.cur
            /\ db.cur \in Gens => ~db.ep[db.cur].capable /\ ~db.ep[db.cur].window
    <3> SUFFICES ASSUME Call("attached", db.cur) \in calls'
                 PROVE  /\ g # db.cur /\ bind'.gen # db.cur
                        /\ db.cur \in Gens => ~db.ep[db.cur].capable /\ ~db.ep[db.cur].window
      OBVIOUS
    <3>1. Call("attached", db.cur) \in calls
      BY <1>0, <2>1 DEF CallsKept, NoticesKept
    <3>2. db.cur # 0
      BY <1>0, <3>1, NoticeNames
    <3>3. bind.gen # db.cur
          /\ (db.cur \in Gens => ~db.ep[db.cur].capable /\ ~db.ep[db.cur].window)
      BY <1>0, <3>1 DEF BindingOK
    <3> QED BY <2>1, <2>3, <3>2, <3>3, NoBindingType
  <2>6. g = db.cur => ~db.ep[db.cur].capable
    BY <1>0, <1>3, <2>1 DEF BindingOK
  <2>7. BindingOK(db)'
    BY <2>1, <2>2, <2>3, <2>4, <2>5, <2>6 DEF BindingOK
  <2> QED BY <1>2, <2>1, <2>3, <2>7
<1>4. ASSUME NEW g \in Gens, EndpointDetached(g) PROVE Live'
  <2>1. /\ CallsKept /\ UNCHANGED <<db, worker, sched, gaveUp>>
        /\ fresh' = (IF fresh = g THEN 0 ELSE fresh)
        /\ bind' = IF bind.gen = g THEN NoBinding ELSE bind
    BY <1>4, TakeCalls DEF EndpointDetached
  <2>2. (bind' = bind \/ bind' = NoBinding) /\ bind'.gen <= db.cur /\ fresh' <= db.cur
        /\ (bind'.kind = "none" => bind'.gen = 0)
    BY <1>0, <2>1, NoBindingType DEF BindingOK
  <2>3. \A h \in Gens : Call("attached", h) \in calls' => h <= db.cur
    BY <1>0, <2>1 DEF BindingOK, CallsKept, NoticesKept, Gens
  <2>4. Call("attached", db.cur) \in calls' =>
            /\ fresh' # db.cur /\ bind'.gen # db.cur
            /\ db.cur \in Gens => ~db.ep[db.cur].capable /\ ~db.ep[db.cur].window
    <3> SUFFICES ASSUME Call("attached", db.cur) \in calls'
                 PROVE  /\ fresh' # db.cur /\ bind'.gen # db.cur
                        /\ db.cur \in Gens => ~db.ep[db.cur].capable /\ ~db.ep[db.cur].window
      OBVIOUS
    <3>1. Call("attached", db.cur) \in calls
      BY <1>0, <2>1 DEF CallsKept, NoticesKept
    <3>2. db.cur # 0
      BY <1>0, <3>1, NoticeNames
    <3>3. /\ bind.gen # db.cur /\ fresh # db.cur
          /\ (db.cur \in Gens => ~db.ep[db.cur].capable /\ ~db.ep[db.cur].window)
      BY <1>0, <3>1 DEF BindingOK
    <3> QED BY <2>1, <3>2, <3>3, NoBindingType
  <2>5. fresh' = db.cur /\ bind'.gen # db.cur /\ Current(db, db.cur) => ~db.ep[db.cur].capable
    <3> SUFFICES ASSUME fresh' = db.cur, bind'.gen # db.cur, Current(db, db.cur)
                 PROVE  ~db.ep[db.cur].capable
      OBVIOUS
    <3>1. db.cur # 0
      BY DEF Current, Gens
    <3>2. fresh = db.cur /\ g # db.cur
      BY <2>1, <3>1
    <3>3. bind.gen # db.cur
      BY <2>1, <3>2
    <3> QED BY <1>0, <3>2, <3>3 DEF BindingOK
  <2>6. BindingOK(db)'
    BY <2>1, <2>2, <2>3, <2>4, <2>5 DEF BindingOK, Current
  <2> QED BY <1>2, <2>1, <2>2, <2>6
<1> QED BY <1>1, <1>3, <1>4

(* Hosts are bound and withdrawn, and claims run out. *)
LEMMA HostsLive ==
    ASSUME SafetyInv, Live, \/ RegisterEndpointAdapter \/ RegisterMcpAppBinding \/ Unregister
                            \/ \E a \in Attempts : ClaimLeaseLapses(a)
    PROVE  Live'
<1>0. /\ StoreInv(db) /\ ProcessTypes /\ db \in Stores /\ BindingOK(db) /\ EventOK(db) /\ ClaimsOK(db)
      /\ db.cur \in 0..MaxGen /\ bind.gen \in Nat /\ fresh \in Nat
  BY Rows DEF SafetyInv, TurnInv, StoreInv, Live, ProcessTypes, Bindings
<1>1. worker.pc # "idle" => sched # "no"
  BY <1>0 DEF EventOK
<1>2. ASSUME NEW kind \in {"push", "app"}, Bound(kind), db.cur \in Gens,
             Call("attached", db.cur) \notin calls, fresh' = fresh, calls' = calls
      PROVE  /\ BindingOK(db)' /\ bind'.kind = kind
             /\ (bind.gen # db.cur => ~db.ep[db.cur].capable) =>
                   \A a \in Attempts : db'.att[a].st # "claimed"
  <2> DEFINE r == Disabled(db)
             win == (kind = "app")
  <2>1. (r = db \/ r = Withdraw(db, db.cur)) /\ (bind.gen = db.cur => r = Withdraw(db, db.cur))
    BY DEF Disabled
  <2>2. db' = [r EXCEPT !.ep[db.cur].capable = TRUE, !.ep[db.cur].window = win]
    BY <1>2 DEF Bound
  <2>3. win \in BOOLEAN
    OBVIOUS
  <2>4. bind' = [NoBinding EXCEPT !.kind = kind, !.gen = db.cur]
    BY <1>2 DEF Bound
  <2>5. bind'.kind = kind /\ bind'.gen = db.cur
    BY <2>4 DEF NoBinding
  <2> HIDE DEF r, win
  <2>6. /\ HostBound(db, db')
        /\ (r = db => ~db.ep[db.cur].capable) => \A a \in Attempts : db'.att[a].st # "claimed"
    BY <1>0, <1>2, <2>1, <2>2, <2>3, BoundSafe
  <2>7. db'.cur = db.cur
    BY <2>6 DEF HostBound
  <2>8. BindingOK(db)'
    BY <1>0, <1>2, <2>5, <2>7 DEF BindingOK
  <2>9. r = db /\ bind.gen = db.cur => ~db.ep[db.cur].capable
    <3>1. ASSUME r = db, bind.gen = db.cur PROVE ~db.ep[db.cur].capable
      <4>1. Withdrawn(db, db, db.cur)
        BY <1>0, <1>2, <2>1, <3>1, WithdrawSafe
      <4> QED BY <4>1 DEF Withdrawn
    <3> QED BY <3>1
  <2> QED BY <2>5, <2>6, <2>8, <2>9
<1>3. CASE RegisterEndpointAdapter
  <2>1. /\ Bound("push") /\ Current(db, db.cur) /\ fresh = db.cur /\ sched' = Marked
        /\ worker.pc \in {"idle", "done"} /\ UNCHANGED <<fresh, worker, calls>>
    BY <1>3 DEF RegisterEndpointAdapter, Unlocked
  <2>2. db.cur \in Gens /\ Call("attached", db.cur) \notin calls
    BY <1>0, <2>1 DEF BindingOK, Current
  <2>3. bind.gen # db.cur => ~db.ep[db.cur].capable
    BY <1>0, <2>1 DEF BindingOK
  <2>4. BindingOK(db)' /\ \A a \in Attempts : db'.att[a].st # "claimed"
    BY <1>2, <2>1, <2>2, <2>3
  <2>5. sched' # "no" /\ (sched # "no" => sched' = "dirty")
    BY <2>1 DEF Marked
  <2>6. EventOK(db)'
    BY <1>1, <2>1, <2>5 DEF EventOK
  <2> QED BY <2>4, <2>6 DEF Live, ClaimsOK
<1>4. CASE RegisterMcpAppBinding
  <2>1. /\ Bound("app") /\ Current(db, db.cur) /\ UNCHANGED <<fresh, worker, sched, calls>>
        /\ bind.kind # "none" => bind.gen = db.cur
        /\ \/ bind.kind = "app"
           \/ fresh = db.cur
           \/ ~db.ep[db.cur].capable /\ db.ep[db.cur].window
    BY <1>4 DEF RegisterMcpAppBinding
  <2>2. db.cur \in Gens
    BY <2>1 DEF Current
  <2>3. Call("attached", db.cur) \notin calls
    BY <1>0, <2>1, <2>2 DEF BindingOK
  <2>4. BindingOK(db)' /\ bind'.kind = "app"
    BY <1>2, <2>1, <2>2, <2>3
  <2> QED BY <1>1, <2>1, <2>4, UnservedStep DEF Served
<1>5. CASE Unregister
  <2>1. bind.gen \in Gens /\ bind.gen = db.cur
    BY <1>5 DEF Unregister, Current
  <2>2. db'.cur = db.cur /\ ~db'.ep[db.cur].capable
    <3> DEFINE win == (bind.kind = "app")
    <3>1. win \in BOOLEAN
      OBVIOUS
    <3>2. db' = [Withdraw(db, bind.gen) EXCEPT !.ep[bind.gen].window = win]
      BY <1>5 DEF Unregister
    <3> HIDE DEF win
    <3> QED BY <1>0, <2>1, <3>1, <3>2, UnregisterSafe
  <2>3. bind' = NoBinding /\ UNCHANGED <<fresh, worker, sched, calls>>
    BY <1>5 DEF Unregister
  <2>4. bind'.gen = 0 /\ bind'.kind = "none"
    BY <2>3, NoBindingType
  <2>5. Call("attached", db.cur) \notin calls
    BY <1>0, <2>1 DEF BindingOK
  <2>6. fresh <= db.cur /\ 0 <= db.cur
        /\ \A g \in Gens : Call("attached", g) \in calls => g <= db.cur
    BY <1>0 DEF BindingOK
  <2>7. BindingOK(db)'
    BY <2>2, <2>3, <2>4, <2>5, <2>6 DEF BindingOK
  <2> QED BY <1>1, <2>3, <2>4, <2>7, UnservedStep DEF Served
<1>6. ASSUME NEW a \in Attempts, ClaimLeaseLapses(a) PROVE Live'
  <2>1. db.att[a].st = "claimed" /\ ~db.att[a].over
        /\ UNCHANGED <<fresh, bind, worker, sched, calls, gaveUp>>
    BY <1>6 DEF ClaimLeaseLapses, process
  <2>2. /\ db'.cur = db.cur /\ db'.ep = db.ep /\ db'.att[a].over
        /\ \A b \in Attempts \ {a} : db'.att[b] = db.att[b]
    <3>1. Overdue(db, db', a)
      BY <1>0, <1>6, ClaimLapseSafe DEF ClaimLeaseLapses
    <3> QED BY <3>1 DEF Overdue
  <2>3. BindingOK(db)'
    BY <1>0, <2>1, <2>2, BindingKept DEF SameHost, NoticesKept, Current
  <2>4. Served(db)' <=> Served(db)
    BY <2>1, <2>2, ServedBefore
  <2>5. ClaimsOK(db)'
    BY <1>0, <2>1, <2>2, <2>4 DEF ClaimsOK
  <2>6. Served(db) => worker.pc = "claimed"
    BY <1>0, <2>1 DEF ClaimsOK
  <2>7. EventOK(db)'
    BY <1>1, <2>1, <2>4, <2>6 DEF EventOK
  <2> QED BY <2>3, <2>5, <2>7 DEF Live
<1> QED BY <1>3, <1>4, <1>5, <1>6

(* The worker gives up an opportunity, or the binding that is stale. *)
LEMMA FailedLive ==
    ASSUME SafetyInv, Live, NEW stale \in BOOLEAN, Failed(stale), sched # "no",
           db'.cur = db.cur, db'.ep = db.ep, UNCHANGED <<fresh, sched, calls>>,
           stale /\ bind.gen = db.cur => ~Capable(db, db.cur),
           ~stale /\ Served(db) => \A a \in Attempts : db'.att[a].st = "claimed" => db'.att[a].over
    PROVE  Live'
<1>0. StoreInv(db) /\ ProcessTypes /\ db \in Stores /\ BindingOK(db)
  BY DEF SafetyInv, TurnInv, StoreInv, Live
<1>1. /\ bind' = (IF stale THEN NoBinding ELSE bind) /\ gaveUp' = ~stale
      /\ worker' = [pc |-> "done", att |-> 0] /\ NoticesKept
  BY DEF Failed, At, NoticesKept
<1>2. CASE stale
  <2>1. BindingOK(db)'
    BY <1>0, <1>1, <1>2, BindingDropped
  <2>2. ~Served(db)'
    BY <1>1, <1>2, NoBindingType DEF Served
  <2> QED BY <2>1, <2>2, UnservedStep
<1>3. CASE ~stale
  <2>1. bind' = bind /\ gaveUp' = TRUE
    BY <1>1, <1>3
  <2>2. BindingOK(db)'
    BY <1>0, <1>1, <2>1, BindingKept DEF SameHost, Current
  <2>3. Served(db)' <=> Served(db)
    BY <2>1, ServedBefore
  <2>4. ClaimsOK(db)'
    BY <1>3, <2>3 DEF ClaimsOK
  <2>5. EventOK(db)'
    BY <2>1 DEF EventOK
  <2> QED BY <2>2, <2>4, <2>5 DEF Live
<1> QED BY <1>2, <1>3

(* The worker claims, or finds that there is nothing to claim. *)
LEMMA WorkerClaimLive ==
    ASSUME SafetyInv, Live, WorkerClaim
    PROVE  Live'
<1>0. /\ StoreInv(db) /\ ProcessTypes /\ db \in Stores /\ BindingOK(db) /\ EventOK(db) /\ ClaimsOK(db)
  BY DEF SafetyInv, TurnInv, StoreInv, Live
<1>1. /\ UNCHANGED <<fresh, sched, calls>> /\ sched # "no" /\ worker.pc = "idle"
      /\ NoticesKept
  BY DEF WorkerClaim, NoticesKept
<1>2. CASE bind.kind # "push" /\ At("done", 0) /\ UNCHANGED <<db, bind, gaveUp>>
  <2>1. BindingOK(db)'
    BY <1>0, <1>1, <1>2, BindingKept DEF SameHost
  <2>2. ~Served(db)'
    BY <1>2 DEF Served
  <2> QED BY <1>1, <2>1, <2>2, UnservedStep
<1>3. CASE ~Capable(db, bind.gen) /\ Failed(TRUE) /\ UNCHANGED db
  <2>1. bind.gen = db.cur => ~Capable(db, db.cur)
    BY <1>3
  <2> QED BY <1>1, <1>3, <2>1, FailedLive
<1>4. CASE /\ bind.kind = "push" /\ Capable(db, bind.gen) /\ Claimable(db) = {}
           /\ db' = Swept(db) /\ At("done", 0) /\ UNCHANGED <<bind, gaveUp>>
  <2>1. SweptTo(db, db')
    BY <1>0, <1>4, SweepSafe
  <2>2. ~Opportunity(db)
    BY <1>0, <1>4, ClaimableIffOpportunity
  <2>3. \A a \in Attempts : db'.att[a].st # "claimed"
    BY <1>0, <1>1, <1>4, <2>1 DEF ClaimsOK, Served, SweptTo
  <2>4. ~Opportunity(db')
    <3> SUFFICES ASSUME NEW w \in Ready(db') PROVE w \in Ready(db) \/ Blocked(db')
      BY <2>1, <2>2 DEF Opportunity, SweptTo, Blocked
    <3>1. w \in Wakes
          /\ (db'.wake[w].st = "pending" \/ (db'.wake[w].st = "claimed" /\ db'.att[db'.wake[w].att].over))
      BY DEF Ready
    <3>2. db'.wake[w].st # "claimed"
      <4>1. StoreInv(db')
        BY <2>1 DEF SweptTo, Safe
      <4>2. db'.wake[w].st = "claimed" =>
                db'.wake[w].att \in Attempts /\ db'.att[db'.wake[w].att].st = "claimed"
        BY <3>1, <4>1, TablesLinked DEF Linked, Bare
      <4> QED BY <2>3, <4>2
    <3> QED BY <2>1, <3>1, <3>2 DEF SweptTo
  <2>5. BindingOK(db)'
    BY <1>0, <1>1, <1>4, <2>1, BindingKept DEF SameHost, SweptTo, Current
  <2>6. ClaimsOK(db)' /\ EventOK(db)'
    BY <1>1, <2>3, <2>4 DEF ClaimsOK, EventOK
  <2> QED BY <2>5, <2>6 DEF Live
<1>5. ASSUME NEW a \in Unused(db), NEW w \in Claimable(db), bind.kind = "push",
             Capable(db, bind.gen), db' = Claim(db, w, a, bind.gen, "push"),
             At("claimed", a), UNCHANGED <<bind, gaveUp>>
      PROVE  Live'
  <2>1. Claimed(db, db', a, w, bind.gen)
    BY <1>0, <1>5, ClaimSafe
  <2>2. worker'.pc = "claimed" /\ worker'.att = a
    BY <1>5 DEF At
  <2>3. \A b \in Attempts : db'.att[b].st = "claimed" => b = a
    BY <1>0, <1>1, <1>5, <2>1 DEF ClaimsOK, Served, Claimed
  <2>4. BindingOK(db)'
    BY <1>0, <1>1, <1>5, <2>1, BindingKept DEF SameHost, Claimed, Current
  <2>5. ClaimsOK(db)' /\ EventOK(db)'
    BY <1>1, <2>2, <2>3 DEF ClaimsOK, EventOK
  <2> QED BY <2>4, <2>5 DEF Live
<1>6. CASE Unused(db) # {}
  <2>1. Oldest(Unused(db)) \in Unused(db)
    BY <1>6, OldestIsLeast DEF Unused, Attempts
  <2> QED BY <1>2, <1>3, <1>4, <1>5, <2>1 DEF WorkerClaim
<1> QED BY <1>2, <1>3, <1>4, <1>6 DEF WorkerClaim

(* The worker goes on past the fence, with the store as it was. *)
LEMMA TailStep ==
    ASSUME SafetyInv, Live, db' = db, worker.pc \notin {"idle", "claimed"}, worker'.pc # "idle",
           UNCHANGED <<fresh, bind, sched, calls, gaveUp>>
    PROVE  Live'
<1>0. db \in Stores /\ BindingOK(db) /\ EventOK(db) /\ ClaimsOK(db)
  BY DEF SafetyInv, StoreInv, Live
<1>1. BindingOK(db)'
  BY <1>0, BindingKept DEF SameHost, NoticesKept
<1>2. Served(db)' <=> Served(db)
  BY ServedBefore
<1>3. ClaimsOK(db)'
  BY <1>0, <1>2 DEF ClaimsOK
<1>4. Expected' <=> Expected
  BY DEF Expected
<1>5. EventOK(db)'
  BY <1>0, <1>2, <1>4 DEF EventOK, Opportunity, Ready, Blocked
<1> QED BY <1>1, <1>3, <1>5 DEF Live

(* The worker between its claim and the Host callback. *)
LEMMA WorkerFenceLive ==
    ASSUME SafetyInv, Live, WorkerPreflightFails \/ WorkerPrepare \/ WorkerVerify
    PROVE  Live'
<1>0. /\ StoreInv(db) /\ ProcessTypes /\ db \in Stores /\ BindingOK(db) /\ EventOK(db) /\ ClaimsOK(db)
      /\ WorkerOK(db)
  BY DEF SafetyInv, TurnInv, StoreInv, Live
<1>1. /\ UNCHANGED <<fresh, sched, calls>> /\ sched # "no"
      /\ CallsKept
  BY <1>0 DEF WorkerPreflightFails, WorkerPrepare, WorkerVerify, EventOK, CallsKept, NoticesKept, Expected
<1>2. Served(db) => Current(db, db.cur)
  BY DEF Served, Capable, Current
<1>3. CASE WorkerPreflightFails
  <2> DEFINE stale == ~Current(db, bind.gen)
             a == worker.att
  <2>1. worker.pc = "claimed" /\ db' = Release(db, a) /\ Failed(stale)
    BY <1>3 DEF WorkerPreflightFails
  <2>2. stale \in BOOLEAN /\ (stale /\ bind.gen = db.cur => ~Capable(db, db.cur))
    BY DEF Capable
  <2>3. a \in Attempts /\ db.att[a].st \in {"claimed", "revoked"}
    BY <1>0, <2>1 DEF WorkerOK
  <2>4. /\ db'.cur = db.cur /\ db'.ep = db.ep
        /\ \A b \in Attempts : db'.att[b].st = "claimed" =>
              db'.att[b] = db.att[b] /\ (b = a => ~Current(db, db.att[a].gen))
    BY <1>0, <2>1, <2>3, ReleaseSafe
  <2>5. Served(db) => \A b \in Attempts : db'.att[b].st = "claimed" => db'.att[b].over
    <3> SUFFICES ASSUME Served(db), NEW b \in Attempts, db'.att[b].st = "claimed"
                 PROVE  db'.att[b].over
      OBVIOUS
    <3>1. db'.att[b] = db.att[b] /\ db.att[b].st = "claimed"
      BY <2>4
    <3>2. db.att[b].gen = db.cur
      BY <1>0, <3>1 DEF StoreInv, AttemptOK
    <3>3. b # a
      BY <1>2, <2>4, <3>2
    <3> QED BY <1>0, <3>1, <3>3 DEF ClaimsOK
  <2> HIDE DEF stale, a
  <2> QED BY <1>1, <2>1, <2>2, <2>4, <2>5, FailedLive
<1>4. CASE WorkerPrepare
  <2> DEFINE a == worker.att
  <2>1. worker.pc = "claimed" /\ a \in Attempts /\ db.att[a].st \in {"claimed", "revoked"}
    BY <1>0, <1>4 DEF WorkerPrepare, WorkerOK
  <2>2. CASE Preparable(db, a) /\ TaskDispatchable(db, a)
    <3>1. db.att[a].st = "claimed" /\ db.att[a].wake \in Wakes
      BY <1>0, <2>1, <2>2, PreparableIsClaimed
    <3>2. db' = SetBoth(db, a, "prepared") /\ worker' = [pc |-> "prepared", att |-> a]
          /\ UNCHANGED <<bind, gaveUp>>
      BY <1>4, <2>2 DEF WorkerPrepare, Prepare, At
    <3>3. BothSet(db, db', a, "prepared")
      BY <1>0, <2>1, <3>1, <3>2, SetBothInv DEF Named, Crossed, Dispatched
    <3>4. Blocked(db')
      BY <3>1, <3>3 DEF Blocked, BothSet, Dispatched
    <3>5. BindingOK(db)'
      BY <1>0, <1>1, <3>2, <3>3, BindingKept DEF SameHost, BothSet, Current, CallsKept
    <3>6. Served(db)' <=> Served(db)
      BY <3>2, <3>3, ServedBefore DEF BothSet
    <3>7. ClaimsOK(db)'
      BY <1>0, <2>1, <3>3, <3>6 DEF ClaimsOK, BothSet
    <3>8. EventOK(db)'
      BY <1>1, <3>4 DEF EventOK, Opportunity
    <3> QED BY <3>5, <3>7, <3>8 DEF Live
  <2>3. CASE Preparable(db, a) /\ ~TaskDispatchable(db, a)
    <3>1. db.att[a].st = "claimed"
      BY <1>0, <2>1, <2>3, PreparableIsClaimed
    <3>2. db' = Prepare(db, a) /\ Failed(FALSE)
      BY <1>4, <2>3 DEF WorkerPrepare
    <3>3. /\ db'.cur = db.cur /\ db'.ep = db.ep
          /\ \A b \in Attempts : db'.att[b].st = "claimed" => b # a /\ db'.att[b] = db.att[b]
      BY <1>0, <2>1, <2>3, <3>1, <3>2, PrepareRetiresSafe
    <3>4. Served(db) => \A b \in Attempts : db'.att[b].st = "claimed" => db'.att[b].over
      BY <1>0, <3>3 DEF ClaimsOK
    <3> QED BY <1>1, <3>2, <3>3, <3>4, FailedLive
  <2>4. CASE ~Preparable(db, a)
    <3> DEFINE stale == ~Capable(db, bind.gen)
    <3>1. Failed(stale) /\ db' = db
      BY <1>4, <2>4 DEF WorkerPrepare
    <3>2. stale \in BOOLEAN /\ (stale /\ bind.gen = db.cur => ~Capable(db, db.cur))
      OBVIOUS
    <3>3. Served(db) => \A b \in Attempts : db'.att[b].st = "claimed" => db'.att[b].over
      <4> SUFFICES ASSUME Served(db), NEW b \in Attempts, db.att[b].st = "claimed"
                   PROVE  db.att[b].over
        BY <3>1
      <4>1. CASE b # a
        BY <1>0, <4>1 DEF ClaimsOK
      <4>2. CASE b = a
        <5>1. /\ db.att[a].gen = db.cur /\ db.wake[db.att[a].wake].att = a
              /\ db.wake[db.att[a].wake].st = "claimed"
          BY <1>0, <4>2, TablesLinked DEF Linked, StoreInv, AttemptOK
        <5>2. Capable(db, db.cur)
          BY DEF Served, Capable, Current
        <5> QED BY <2>4, <4>2, <5>1, <5>2 DEF Preparable, ExactClaim
      <4> QED BY <4>1, <4>2
    <3> HIDE DEF stale
    <3> QED BY <1>1, <3>1, <3>2, <3>3, FailedLive
  <2> QED BY <2>2, <2>3, <2>4
<1>5. CASE WorkerVerify
  <2>1. worker.pc = "prepared" /\ db' = db
    BY <1>5 DEF WorkerVerify
  <2>2. CASE Verified(db, worker.att)
    <3>1. worker' = [pc |-> "verified", att |-> worker.att] /\ UNCHANGED <<bind, gaveUp>>
      BY <1>5, <2>2 DEF WorkerVerify, At
    <3> QED BY <1>0, <1>1, <2>1, <3>1, TailStep
  <2>3. CASE ~Verified(db, worker.att)
    <3> DEFINE stale == ~Capable(db, bind.gen)
    <3>1. Failed(stale)
      BY <1>5, <2>3 DEF WorkerVerify
    <3>2. stale \in BOOLEAN /\ (stale /\ bind.gen = db.cur => ~Capable(db, db.cur))
      OBVIOUS
    <3>3. Served(db) => \A b \in Attempts : db'.att[b].st = "claimed" => db'.att[b].over
      BY <1>0, <2>1 DEF ClaimsOK
    <3> HIDE DEF stale
    <3> QED BY <1>1, <2>1, <3>1, <3>2, <3>3, FailedLive
  <2> QED BY <2>2, <2>3
<1> QED BY <1>3, <1>4, <1>5

(* The Host callback, its outcome, and the worker's way back to idle: it    *)
(* waits only when no event is owed.                                       *)
LEMMA WorkerTailLive ==
    ASSUME SafetyInv, Live, WorkerDispatch \/ WorkerFinish \/ WorkerNext
    PROVE  Live'
<1>0. /\ StoreInv(db) /\ ProcessTypes /\ db \in Stores /\ BindingOK(db) /\ EventOK(db) /\ ClaimsOK(db)
      /\ WorkerOK(db)
  BY DEF SafetyInv, TurnInv, StoreInv, Live
<1>1. CASE WorkerDispatch
  <2>1. /\ worker.pc = "verified" /\ worker'.pc \in {"delivered", "delivery_unknown"}
        /\ db' = db /\ UNCHANGED <<fresh, bind, sched, calls, gaveUp>>
    BY <1>1 DEF WorkerDispatch, At
  <2> QED BY <2>1, TailStep
<1>2. CASE WorkerFinish
  <2> DEFINE a == worker.att
  <2>1. /\ worker.pc \in {"delivered", "delivery_unknown"} /\ a \in Attempts
        /\ db.att[a].st \in Crossed /\ db.att[a].st # "claimed" /\ db.att[a].st # "unused"
    BY <1>0, <1>2 DEF WorkerFinish, WorkerOK, Crossed, Dispatched
  <2>2. /\ db' = FinishDelivery(db, a, worker.pc) /\ worker' = [pc |-> "done", att |-> 0]
        /\ bind' = (IF Current(db, bind.gen) THEN bind ELSE NoBinding)
        /\ UNCHANGED <<fresh, sched, calls, gaveUp>>
    BY <1>2 DEF WorkerFinish, At
  <2>3. /\ db'.cur = db.cur /\ db'.ep = db.ep
        /\ db' = db \/ BothSet(db, db', a, worker.pc)
    BY <1>0, <2>1, <2>2, FinishSafe
  <2>4. NoticesKept /\ sched # "no" /\ (Expected' <=> Expected)
    BY <1>0, <2>1, <2>2 DEF NoticesKept, EventOK, Expected
  <2>5. CASE ~Current(db, bind.gen)
    <3>1. BindingOK(db)'
      BY <1>0, <2>2, <2>3, <2>4, <2>5, BindingDropped DEF Capable
    <3>2. ~Served(db)'
      BY <2>2, <2>5, NoBindingType DEF Served
    <3> QED BY <2>2, <2>4, <3>1, <3>2, UnservedStep
  <2>6. CASE Current(db, bind.gen)
    <3>1. bind' = bind
      BY <2>2, <2>6
    <3>2. BindingOK(db)'
      BY <1>0, <2>2, <2>3, <2>4, <3>1, BindingKept DEF SameHost, Current
    <3>3. Served(db)' <=> Served(db)
      BY <2>3, <3>1, ServedBefore
    <3>4. ClaimsOK(db)'
      <4>1. \A b \in Attempts : db'.att[b].st = "claimed" => db'.att[b] = db.att[b]
        BY <2>1, <2>3 DEF BothSet
      <4> QED BY <1>0, <2>1, <3>3, <4>1 DEF ClaimsOK
    <3>5. Opportunity(db') => Opportunity(db)
      <4>1. CASE BothSet(db, db', a, worker.pc)
        <5>1. db.att[a].wake \in Wakes
          BY <1>0, <2>1, TablesLinked DEF Linked, Crossed, Dispatched
        <5>2. db'.wake[db.att[a].wake].st \in Dispatched
          BY <2>1, <4>1 DEF BothSet, Dispatched
        <5> QED BY <5>1, <5>2 DEF Opportunity, Blocked
      <4> QED BY <2>3, <4>1
    <3>6. EventOK(db)'
      BY <1>0, <2>1, <2>2, <2>4, <3>3, <3>5 DEF EventOK
    <3> QED BY <3>2, <3>4, <3>6 DEF Live
  <2> QED BY <2>5, <2>6
<1>3. CASE WorkerNext
  <2>1. /\ worker.pc = "done" /\ sched' = (IF sched = "dirty" THEN "clean" ELSE "no")
        /\ worker' = Idle /\ gaveUp' = (gaveUp /\ sched # "dirty")
        /\ UNCHANGED <<db, fresh, bind, calls>>
    BY <1>3 DEF WorkerNext
  <2>2. worker'.pc = "idle" /\ NoticesKept /\ (Expected' <=> Expected)
    BY <2>1 DEF Idle, NoticesKept, Expected
  <2>3. BindingOK(db)'
    BY <1>0, <2>1, <2>2, BindingKept DEF SameHost
  <2>4. Served(db)' <=> Served(db)
    BY <2>1, ServedBefore
  <2>5. ClaimsOK(db)'
    BY <1>0, <2>1, <2>4 DEF ClaimsOK
  <2>6. Opportunity(db)' <=> Opportunity(db)
    BY <2>1 DEF Opportunity, Ready, Blocked
  <2>7. EventOK(db)'
    <3>1. CASE sched = "dirty"
      BY <2>1, <2>2, <3>1 DEF EventOK
    <3>2. CASE sched # "dirty"
      <4>1. Served(db) /\ ~gaveUp' /\ Opportunity(db) => Expected
        BY <1>0, <2>1, <3>2 DEF EventOK, ProcessTypes
      <4> QED BY <2>2, <2>4, <2>6, <4>1 DEF EventOK
    <3> QED BY <3>1, <3>2
  <2> QED BY <2>3, <2>5, <2>7 DEF Live
<1> QED BY <1>1, <1>2, <1>3

(* While a View is bound there is no push adapter to serve. *)
LEMMA ViewLive ==
    ASSUME SafetyInv, Live, ViewStep
    PROVE  Live'
<1>0. /\ StoreInv(db) /\ ProcessTypes /\ db \in Stores /\ BindingOK(db) /\ EventOK(db) /\ ClaimsOK(db)
      /\ WorkerOK(db) /\ bind \in Bindings
  BY DEF SafetyInv, TurnInv, StoreInv, Live, ProcessTypes
<1>1. ASSUME bind'.kind = "app", bind.kind = "app", bind'.gen = bind.gen,
             db'.cur = db.cur, db'.ep = db.ep, UNCHANGED <<fresh, worker, sched, calls>>
      PROVE  Live'
  <2>1. BindingOK(db)'
    BY <1>0, <1>1, BindingKept DEF SameHost, NoticesKept, Current
  <2>2. ~Served(db)'
    BY <1>1 DEF Served
  <2> QED BY <1>0, <1>1, <2>1, <2>2, UnservedStep DEF EventOK
<1>2. ASSUME db' = db, UNCHANGED <<fresh, worker, sched, calls, gaveUp>>,
             bind'.kind = bind.kind, bind'.gen = bind.gen
      PROVE  Live'
  <2>1. Narrowed(db, db') /\ CallsKept
    BY <1>2 DEF Narrowed, CallsKept, NoticesKept, Expected
  <2> QED BY <1>0, <1>2, <2>1, NarrowStep
<1>3. CASE AcquireMcpAppWake
  <2>1. /\ UNCHANGED <<fresh, worker, sched, calls>> /\ bind.kind = "app" /\ Capable(db, bind.gen)
    BY <1>3 DEF AcquireMcpAppWake, AppBound
  <2>2. ASSUME NEW a \in 0..MaxAttempts, bind' = [bind EXCEPT !.att = a, !.fenced = FALSE],
               db'.cur = db.cur, db'.ep = db.ep
        PROVE  Live'
    <3>1. bind'.kind = bind.kind /\ bind'.gen = bind.gen
      BY <1>0, <2>2, BindingRemembers
    <3> QED BY <1>1, <2>1, <2>2, <3>1
  <2>3. CASE db' = Swept(db) /\ bind' = [bind EXCEPT !.att = 0, !.fenced = FALSE]
    <3>1. 0 \in 0..MaxAttempts
      BY BoundsAssumption
    <3>2. db'.cur = db.cur /\ db'.ep = db.ep
      BY <1>0, <2>3, SweepSafe DEF SweptTo
    <3> QED BY <2>2, <2>3, <3>1, <3>2
  <2>4. ASSUME NEW a \in Unused(db), NEW w \in Claimable(db),
               db' = Claim(db, w, a, bind.gen, "app"),
               bind' = [bind EXCEPT !.att = a, !.fenced = FALSE]
        PROVE  Live'
    <3>1. a \in 0..MaxAttempts
      BY DEF Unused, Attempts
    <3>2. db'.cur = db.cur /\ db'.ep = db.ep
      BY <1>0, <2>1, <2>4, ClaimSafe DEF Claimed
    <3> QED BY <2>2, <2>4, <3>1, <3>2
  <2>5. CASE Unused(db) # {}
    <3>1. Oldest(Unused(db)) \in Unused(db)
      BY <2>5, OldestIsLeast DEF Unused, Attempts
    <3> QED BY <1>3, <2>3, <2>4, <3>1 DEF AcquireMcpAppWake
  <2> QED BY <1>3, <2>3, <2>5 DEF AcquireMcpAppWake
<1>4. CASE PrepareMcpAppWake
  <2> DEFINE a == bind.att
  <2>1. /\ UNCHANGED <<fresh, bind, worker, sched, calls>> /\ bind.kind = "app" /\ a # 0
        /\ Preparable(db, a) /\ db' = Prepare(db, a)
    BY <1>4 DEF PrepareMcpAppWake, AppBound
  <2>2. a \in Attempts /\ db.att[a].st # "unused"
    BY <1>0, <2>1 DEF WorkerOK, Bindings, Attempts
  <2>3. db.att[a].st = "claimed"
    BY <1>0, <2>1, <2>2, PreparableIsClaimed
  <2>4. db'.cur = db.cur /\ db'.ep = db.ep
    <3>1. CASE TaskDispatchable(db, a)
      <4>1. db' = SetBoth(db, a, "prepared") /\ Named(db, a) /\ "prepared" \in Crossed
        BY <2>1, <2>2, <2>3, <3>1 DEF Prepare, Named, Crossed, Dispatched
      <4> QED BY <1>0, <4>1, SetBothInv DEF BothSet
    <3>2. CASE ~TaskDispatchable(db, a)
      BY <1>0, <2>1, <2>2, <2>3, <3>2, PrepareRetiresSafe
    <3> QED BY <3>1, <3>2
  <2> QED BY <1>1, <2>1, <2>4
<1>5. CASE AnswerMcpAppPrepare
  <2>1. /\ UNCHANGED <<db, fresh, worker, sched, calls, gaveUp>>
        /\ bind' = [bind EXCEPT !.fenced = TRUE] \/ bind' = bind
    BY <1>5 DEF AnswerMcpAppPrepare
  <2>2. bind'.kind = bind.kind /\ bind'.gen = bind.gen
    BY <1>0, <2>1 DEF Bindings
  <2> QED BY <1>2, <2>1, <2>2
<1>6. ASSUME NEW a \in Attempts, ViewSends(a) PROVE Live'
  BY <1>2, <1>6 DEF ViewSends, process
<1>7. ASSUME NEW st \in {"delivered", "delivery_unknown"}, FinishMcpAppWake(st) PROVE Live'
  <2>1. /\ db' = FinishDelivery(db, bind.att, st) /\ bind.att # 0 /\ bind.kind = "app"
        /\ UNCHANGED <<fresh, bind, worker, sched, calls>>
    BY <1>7 DEF FinishMcpAppWake, AppBound, process
  <2>2. bind.att \in Attempts /\ db.att[bind.att].st # "unused"
    BY <1>0, <2>1 DEF WorkerOK, Bindings, Attempts
  <2>3. db'.cur = db.cur /\ db'.ep = db.ep
    BY <1>0, <2>1, <2>2, FinishSafe
  <2> QED BY <1>1, <2>1, <2>3
<1> QED BY <1>3, <1>4, <1>5, <1>6, <1>7 DEF ViewStep

(* Turns that take Wakes, and the takeover. *)
LEMMA TurnsLive ==
    ASSUME SafetyInv, Live, TurnStep \/ ServerTakeover
    PROVE  Live'
<1>0. /\ StoreInv(db) /\ ProcessTypes /\ db \in Stores /\ BindingOK(db) /\ EventOK(db) /\ ClaimsOK(db)
      /\ TurnsOK(db) /\ db.cur \in 0..MaxGen
  BY Rows DEF SafetyInv, TurnInv, StoreInv, Live
<1>1. ASSUME NEW w \in Wakes, ActivateExplicitly(w) PROVE Live'
  <2> DEFINE a == Oldest(Unused(db))
  <2>1. a \in Attempts
    BY <1>1, OldestIsLeast DEF ActivateExplicitly, Unused, Attempts
  <2>2. /\ db.cur \in Gens /\ db' = NewAttempt(db, a, w, db.cur, "explicit", "delivered")
        /\ UNCHANGED <<fresh, bind, worker, sched, calls, gaveUp>>
    BY <1>1 DEF ActivateExplicitly, Current, process
  <2> HIDE DEF a
  <2>3. Attempted(db, db', a, w, db.cur, "delivered")
    BY <1>0, <2>1, <2>2, AttemptRows DEF Kinds
  <2>4. Blocked(db')
    BY <2>3 DEF Blocked, Attempted, Dispatched
  <2>5. Narrowed(db, db')
    BY <2>3, <2>4 DEF Narrowed, Attempted, Opportunity
  <2>6. CallsKept
    BY <2>2 DEF CallsKept, NoticesKept, Expected
  <2> QED BY <1>0, <2>2, <2>5, <2>6, NarrowStep
<1>2. ASSUME NEW a \in Attempts, ConsumeWake(a) PROVE Live'
  <2>1. /\ db' = SetBoth(db, a, "consumed") /\ box[a] = "sent"
        /\ UNCHANGED <<fresh, bind, worker, sched>>
    BY <1>2 DEF ConsumeWake
  <2>2. Named(db, a) /\ "consumed" \in Crossed
    BY <1>0, <2>1 DEF TurnsOK, Named, Crossed, Dispatched
  <2>3. BothSet(db, db', a, "consumed")
    BY <1>0, <2>1, <2>2, SetBothInv
  <2>4. CallsKept /\ Expected'
    BY <1>2, AfterCalls DEF ConsumeWake
  <2>5. /\ db'.cur = db.cur /\ db'.ep = db.ep
        /\ \A b \in Attempts : db'.att[b].st = "claimed" => db'.att[b] = db.att[b]
    BY <2>3 DEF BothSet
  <2> QED BY <1>0, <2>1, <2>4, <2>5, ExpectedStep
<1>3. CASE ServerTakeover
  <2>1. /\ fresh' = 0 /\ bind' = NoBinding /\ worker' = Idle /\ calls' = {} /\ db' = Recovered(db)
    BY <1>3 DEF ServerTakeover
  <2>2. db'.cur = db.cur
    BY <1>0, <2>1, TakeoverSafe
  <2>3. bind'.gen = 0 /\ bind'.kind = "none" /\ worker'.pc = "idle"
    BY <2>1, NoBindingType DEF Idle
  <2>4. ~Current(db', 0) /\ 0 <= db.cur
    BY <1>0 DEF Current, Gens
  <2>5. BindingOK(db)'
    BY <2>1, <2>2, <2>3, <2>4 DEF BindingOK
  <2> QED BY <2>3, <2>5, UnservedStep DEF Served
<1> QED BY <1>1, <1>2, <1>3 DEF TurnStep

-----------------------------------------------------------------------------
(* Every step keeps the whole invariant. *)
LEMMA NextKeepsLive ==
    ASSUME SafetyInv, Live, [Next]_vars
    PROVE  Live'
<1>1. CASE WorkStep
  BY <1>1, WorkLive
<1>2. CASE EndpointStep
  BY <1>2, EndpointsLive, CallsLive DEF EndpointStep
<1>3. CASE BindingStep
  BY <1>3, CallsLive, HostsLive DEF BindingStep
<1>4. CASE WorkerStep
  BY <1>4, WorkerClaimLive, WorkerFenceLive, WorkerTailLive DEF WorkerStep
<1>5. CASE ViewStep \/ TurnStep \/ ServerTakeover
  BY <1>5, ViewLive, TurnsLive
<1>6. CASE UNCHANGED vars
  <2>1. UNCHANGED <<db, fresh, bind, worker, sched, calls, gaveUp>>
    BY <1>6 DEF vars, process
  <2>2. Narrowed(db, db') /\ CallsKept
    BY <2>1 DEF Narrowed, CallsKept, NoticesKept, Expected
  <2>3. db \in Stores
    BY DEF SafetyInv, StoreInv
  <2> QED BY <2>1, <2>2, <2>3, NarrowStep
<1> QED BY <1>1, <1>2, <1>3, <1>4, <1>5, <1>6 DEF Next

(* The whole inductive invariant holds in every reachable state. *)
THEOREM WakeInvariant == Spec => []WakeInv
<1>1. Init => WakeInv
  <2> SUFFICES ASSUME Init PROVE WakeInv
    OBVIOUS
  <2>1. SafetyInv
    BY InitSafe
  <2>2. BindingOK(db) /\ bind.kind = "none"
    <3>1. bind.gen = 0 /\ bind.kind = "none" /\ db.cur = 0 /\ fresh = 0 /\ calls = {}
      BY NoBindingType DEF Init
    <3>2. ~Current(db, 0)
      BY DEF Current, Gens
    <3> QED BY <3>1, <3>2 DEF BindingOK
  <2>3. ClaimsOK(db) /\ EventOK(db)
    BY <2>2 DEF Init, Idle, ClaimsOK, EventOK, Served
  <2> QED BY <2>1, <2>2, <2>3 DEF WakeInv, SafetyInv
<1>2. WakeInv /\ [Next]_vars => WakeInv'
  BY NextKeeps, NextKeepsLive DEF Kept, WakeInv, SafetyInv, Live
<1> QED BY <1>1, <1>2, PTL DEF Spec

(* A push adapter is never left alone with a Wake it could dispatch: the    *)
(* agent is scheduled or an event is on its way, unless the last            *)
(* opportunity failed.                                                     *)
THEOREM NoOpportunityLost == Spec => []NoLostOpportunity
<1>1. WakeInv => NoLostOpportunity
  <2> SUFFICES ASSUME WakeInv, bind.kind = "push", Capable(db, bind.gen), Claimable(db) # {}, ~gaveUp
               PROVE  sched # "no" \/ Expected
    BY DEF NoLostOpportunity, Expected
  <2>1. Served(db) /\ Opportunity(db)
    BY ClaimableIffOpportunity DEF WakeInv, Served
  <2> QED BY <2>1 DEF WakeInv, EventOK
<1> QED BY <1>1, WakeInvariant, PTL
=============================================================================
