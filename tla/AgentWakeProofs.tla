-------------------------- MODULE AgentWakeProofs ---------------------------
(***************************************************************************)
(* Safety of one Durable Agent's Wakes, for every number of Wakes, attempts,*)
(* Endpoint generations, Messages, faults and pending calls: the invariant *)
(* that relates the store to the dispatch worker, the View, the Host and the*)
(* turns, kept by every step, and the properties that follow from it.      *)
(***************************************************************************)
EXTENDS AgentWakeStore

-----------------------------------------------------------------------------
(* What the Server process, the Host and the turns may have done, seen      *)
(* against the store                                                       *)

PCs == {"idle", "claimed", "prepared", "verified", "delivered", "delivery_unknown", "done"}

Bindings == [kind : {"none", "push", "app"}, gen : 0..MaxGen, att : 0..MaxAttempts,
             fenced : BOOLEAN]

ProcessTypes ==
    /\ fresh \in 0..MaxGen
    /\ bind \in Bindings
    /\ worker \in [pc : PCs, att : 0..MaxAttempts] /\ answer \in 0..MaxAttempts
    /\ sched \in {"no", "clean", "dirty"}
    /\ gaveUp \in BOOLEAN /\ unbound \in BOOLEAN
    /\ box \in [Attempts -> {"none", "ready", "sent"}]
    /\ told \in [Attempts -> Nat] /\ turns \in [Wakes -> Nat]
    /\ messages \in 0..MaxMessages /\ faults \in 0..MaxFaults

(* Attempt a crossed the fence and nobody was handed its envelope yet. *)
Unsent(d, a) == a \in Attempts /\ d.att[a].st \in Crossed /\ box[a] = "none"

WorkerOK(d) ==
    /\ worker.pc = "claimed" => /\ worker.att \in Attempts
                                /\ d.att[worker.att].st \in {"claimed", "revoked"}
    /\ worker.pc \in {"prepared", "verified"} => Unsent(d, worker.att)
    /\ worker.pc \in {"delivered", "delivery_unknown"} =>
          worker.att \in Attempts /\ d.att[worker.att].st \in Crossed
    /\ worker.pc \notin {"idle", "done"} => answer = 0
    /\ answer # 0 => Unsent(d, answer)
    /\ bind.att # 0 => d.att[bind.att].st # "unused"

TurnsOK(d) ==
    /\ \A a \in Attempts : box[a] # "none" => d.att[a].st \in Crossed
    /\ \A w \in Wakes : turns[w] # 0 =>
          turns[w] = 1 /\ d.wake[w].att # 0 /\ box[d.wake[w].att] = "sent"

(* What a dispatched turn was told: everything its Wake covers, or a        *)
(* controller generation that was handed out.                              *)
ToldOK(d) ==
    \A a \in Attempts : d.att[a].st \in Crossed =>
        /\ d.wake[d.att[a].wake].trig = "inbox" => told[a] >= d.wake[d.att[a].wake].hw
        /\ d.wake[d.att[a].wake].trig = "task" =>
              /\ told[a] <= d.task.gen
              /\ told[a] = d.task.gen /\ d.task.st = "active" /\ ~unbound =>
                    d.task.carrier = d.att[a].gen

Covered(d) == \A m \in 1..messages : \E w \in Wakes : d.wake[w].trig = "inbox" /\ d.wake[w].hw >= m

TurnInv(d) == ProcessTypes /\ WorkerOK(d) /\ TurnsOK(d) /\ ToldOK(d) /\ Covered(d)

-----------------------------------------------------------------------------
(* What steps of the store keep of the turns *)

(* No turn is lost or made by a change of the store. *)
LEMMA TurnsKept ==
    ASSUME StoreInv(db), TurnsOK(db), ProcessTypes,
           \A a \in Attempts : AttemptKept(db, db', a),
           \A w \in Wakes : OneWay(db, db', w),
           UNCHANGED <<box, turns>>
    PROVE  TurnsOK(db)'
<1>1. \A a \in Attempts : box'[a] # "none" => db'.att[a].st \in Crossed
  BY DEF TurnsOK, AttemptKept
<1>2. ASSUME NEW w \in Wakes, turns'[w] # 0
      PROVE  turns'[w] = 1 /\ db'.wake[w].att # 0 /\ box'[db'.wake[w].att] = "sent"
  <2>1. turns[w] = 1 /\ db.wake[w].att # 0 /\ box[db.wake[w].att] = "sent"
    BY <1>2 DEF TurnsOK
  <2>2. db.wake[w].st \notin Bare /\ db.wake[w].att \in Attempts
    BY <2>1 DEF StoreInv, WakeOK
  <2>3. db.wake[w].st \in Crossed
    BY <2>1, <2>2, TablesLinked DEF Linked, TurnsOK
  <2>4. db'.wake[w].att = db.wake[w].att
    BY <2>3 DEF OneWay, Crossed
  <2> QED BY <2>1, <2>4
<1> QED BY <1>1, <1>2 DEF TurnsOK

(* An attempt that has crossed the fence had crossed it before. *)
LEMMA NoneCrossed ==
    ASSUME NEW d \in Stores, NEW e, NEW a \in Attempts, AttemptKept(d, e, a),
           e.att[a].st \in Crossed
    PROVE  d.att[a].st \in Crossed /\ e.att[a].wake = d.att[a].wake /\ e.att[a].gen = d.att[a].gen
<1>1. d.att[a].st \in AttemptStates
  BY Rows DEF AttemptRecords
<1> QED BY <1>1 DEF AttemptKept, AttemptStates, Crossed, Dispatched

(* What turns were told stays what the store says of them. *)
LEMMA ToldKept ==
    ASSUME StoreInv(db), StoreInv(db'), ToldOK(db), Quiet(db, db'), ProcessTypes, told' = told,
           Carries(db, db') \/ unbound', unbound => unbound'
    PROVE  ToldOK(db)'
<1> SUFFICES ASSUME NEW a \in Attempts, db'.att[a].st \in Crossed
             PROVE  /\ db'.wake[db'.att[a].wake].trig = "inbox" =>
                          told'[a] >= db'.wake[db'.att[a].wake].hw
                    /\ db'.wake[db'.att[a].wake].trig = "task" =>
                          /\ told'[a] <= db'.task.gen
                          /\ told'[a] = db'.task.gen /\ db'.task.st = "active" /\ ~unbound' =>
                                db'.task.carrier = db'.att[a].gen
  BY DEF ToldOK
<1> DEFINE w == db.att[a].wake
<1>1. db.att[a].st \in Crossed /\ db'.att[a].wake = w /\ db'.att[a].gen = db.att[a].gen
  BY NoneCrossed DEF Quiet, StoreInv
<1>2. w \in Wakes /\ db.wake[w].st \in Crossed
  BY <1>1, TablesLinked DEF Linked, Crossed, Dispatched
<1>3. db'.wake[w].trig = db.wake[w].trig /\ db'.wake[w].hw = db.wake[w].hw
  <2>1. db.wake[w].trig # "none"
    BY <1>2 DEF StoreInv, WakeOK, Crossed, Dispatched
  <2> QED BY <1>2, <2>1 DEF Quiet, WakeKept
<1>4. /\ told[a] \in Nat /\ db.task.gen \in Nat /\ db'.task.gen \in Nat
      /\ db.task.gen <= db'.task.gen
  BY Rows DEF ProcessTypes, StoreInv, TaskRecords, Quiet
<1> HIDE DEF w
<1>5. db.wake[w].trig = "inbox" => told[a] >= db.wake[w].hw
  BY <1>1 DEF ToldOK, w
<1>6. db.wake[w].trig = "task" => told[a] <= db.task.gen
  BY <1>1 DEF ToldOK, w
<1>7. ASSUME db.wake[w].trig = "task", told[a] = db'.task.gen, db'.task.st = "active", ~unbound'
      PROVE  db'.task.carrier = db.att[a].gen
  <2>1. told[a] = db.task.gen /\ db'.task.gen = db.task.gen
    BY <1>4, <1>6, <1>7
  <2>2. db.task.st = "active" /\ ~unbound
    BY <1>7 DEF Quiet
  <2>3. db.task.carrier = db.att[a].gen
    BY <1>1, <1>7, <2>1, <2>2 DEF ToldOK, w
  <2>4. db'.task.carrier = db.task.carrier \/ db'.task.gen > db.task.gen
    BY <1>2, <1>7 DEF Carries
  <2> QED BY <1>4, <2>1, <2>3, <2>4
<1> QED BY <1>1, <1>3, <1>4, <1>5, <1>6, <1>7

(* A Message stays covered. *)
LEMMA CoveredKept ==
    ASSUME Covered(db), \A w \in Wakes : WakeKept(db, db', w), messages' = messages
    PROVE  Covered(db)'
BY DEF Covered, WakeKept

(* What the worker, the View's answer and the binding hold on to stays      *)
(* theirs.                                                                 *)
LEMMA WorkerKept ==
    ASSUME StoreInv(db), WorkerOK(db), ProcessTypes,
           \A a \in Attempts : AttemptKept(db, db', a), box' = box,
           worker' = worker \/ worker'.pc \in {"idle", "done"},
           answer' = answer \/ answer' = 0,
           bind'.att = bind.att \/ bind'.att = 0
    PROVE  WorkerOK(db)'
<1>0. \A a \in Attempts : db.att[a].st \in AttemptStates
  BY Rows DEF StoreInv, AttemptRecords
<1>1. \A a : Unsent(db, a) => Unsent(db, a)'
  BY DEF Unsent, AttemptKept
<1>2. \A a \in Attempts : db.att[a].st # "unused" => db'.att[a].st # "unused"
  BY <1>0 DEF AttemptKept, AttemptStates, Crossed, Dispatched
<1>3. worker'.pc = "claimed" => /\ worker'.att \in Attempts
                                /\ db'.att[worker'.att].st \in {"claimed", "revoked"}
  BY DEF WorkerOK, AttemptKept
<1>4. worker'.pc \in {"prepared", "verified"} => Unsent(db, worker.att)'
  BY DEF WorkerOK, Unsent, AttemptKept
<1>5. worker'.pc \in {"delivered", "delivery_unknown"} =>
          worker'.att \in Attempts /\ db'.att[worker'.att].st \in Crossed
  BY DEF WorkerOK, AttemptKept
<1>6. worker'.pc \notin {"idle", "done"} => answer' = 0
  BY DEF WorkerOK
<1>7. answer' # 0 => Unsent(db, answer)'
  BY DEF WorkerOK, Unsent, AttemptKept
<1>8. bind'.att # 0 => db'.att[bind'.att].st # "unused"
  <2>1. bind.att \in 0..MaxAttempts
    BY DEF ProcessTypes, Bindings
  <2> QED BY <1>2, <2>1 DEF WorkerOK, Attempts
<1> QED BY <1>3, <1>4, <1>5, <1>6, <1>7, <1>8 DEF WorkerOK

SafetyInv == StoreInv(db) /\ TurnInv(db)

(* A step keeps the fence one-way. *)
FenceStands == \A w \in Wakes : OneWay(db, db', w)

(* What every step keeps. *)
Kept == SafetyInv' /\ FenceStands

(* What a step leaves of that when the types and the worker are looked      *)
(* after separately.                                                       *)
TurnsStand ==
    StoreInv(db)' /\ TurnsOK(db)' /\ ToldOK(db)' /\ Covered(db)' /\ FenceStands

(* A quiet step of the store with no new turn. *)
LEMMA QuietStep ==
    ASSUME SafetyInv, StoreInv(db'), Quiet(db, db'), UNCHANGED <<box, told, turns, messages>>,
           Carries(db, db') \/ unbound', unbound => unbound'
    PROVE  TurnsStand
<1>1. StoreInv(db) /\ TurnsOK(db) /\ ToldOK(db) /\ Covered(db) /\ ProcessTypes
  BY DEF SafetyInv, TurnInv
<1>2. TurnsOK(db)'
  BY <1>1, TurnsKept DEF Quiet
<1>3. ToldOK(db)'
  BY <1>1, ToldKept
<1>4. Covered(db)'
  BY <1>1, CoveredKept DEF Quiet
<1> QED BY <1>2, <1>3, <1>4 DEF TurnsStand, FenceStands, Quiet

(* ... and with nothing that matters to the worker either. *)
LEMMA CalmStep ==
    ASSUME SafetyInv, StoreInv(db'), Quiet(db, db'), UNCHANGED <<box, told, turns, messages>>,
           Carries(db, db') \/ unbound', unbound => unbound',
           worker' = worker \/ worker'.pc \in {"idle", "done"},
           answer' = answer \/ answer' = 0,
           bind'.att = bind.att \/ bind'.att = 0,
           ProcessTypes'
    PROVE  Kept
<1>1. TurnsStand
  BY QuietStep
<1>2. WorkerOK(db)'
  BY WorkerKept DEF SafetyInv, TurnInv, Quiet
<1> QED BY <1>1, <1>2 DEF Kept, FenceStands, SafetyInv, TurnInv, TurnsStand

-----------------------------------------------------------------------------
(* The steps that make, tell or start turns *)

(* Attempt a crosses the fence, and nobody was handed its envelope yet. *)
Crosses(a) ==
    /\ TurnsStand /\ Unsent(db, a)' /\ told' \in [Attempts -> Nat]
    /\ \A b \in Attempts \ {a} : AttemptKept(db, db', b)
    /\ BothSet(db, db', a, "prepared")

(* The envelope of an attempt that crosses says what the store does. *)
LEMMA FenceCrossed ==
    ASSUME SafetyInv, NEW a \in Attempts, db.att[a].st = "claimed", TaskDispatchable(db, a),
           db' = Prepare(db, a), told' = [told EXCEPT ![a] = Envelope(db, a)],
           UNCHANGED <<box, turns, messages, unbound>>
    PROVE  Crosses(a)
<1> DEFINE w == db.att[a].wake
<1>0. StoreInv(db) /\ ProcessTypes /\ TurnsOK(db) /\ ToldOK(db) /\ Covered(db) /\ Linked(db)
  BY TablesLinked DEF SafetyInv, TurnInv
<1>1. w \in Wakes /\ db.wake[w].att = a /\ db.wake[w].st = "claimed"
  BY <1>0 DEF Linked
<1>2. db' = SetBoth(db, a, "prepared") /\ Named(db, a) /\ "prepared" \in Crossed
  BY DEF Prepare, Named, Crossed, Dispatched
<1>3. /\ BothSet(db, db', a, "prepared") /\ StoreInv(db')
      /\ \A v \in Wakes : WakeKept(db, db', v)
      /\ \A v \in Wakes \ {w} : OneWay(db, db', v)
      /\ \A b \in Attempts \ {a} : AttemptKept(db, db', b)
  BY <1>0, <1>2, SetBothInv
<1> HIDE DEF w
<1>4. box[a] = "none" /\ turns[w] = 0
  <2>1. box[a] = "none"
    BY <1>0 DEF TurnsOK, Crossed, Dispatched
  <2> QED BY <1>0, <1>1, <2>1 DEF TurnsOK
<1>5. Unsent(db, a)'
  BY <1>2, <1>3, <1>4 DEF Unsent, BothSet
<1>6. TurnsOK(db)'
  <2>1. \A b \in Attempts : box'[b] # "none" => db'.att[b].st \in Crossed
    BY <1>0, <1>3, <1>4 DEF TurnsOK, AttemptKept
  <2>2. ASSUME NEW v \in Wakes, turns'[v] # 0
        PROVE  turns'[v] = 1 /\ db'.wake[v].att # 0 /\ box'[db'.wake[v].att] = "sent"
    <3>1. v # w /\ turns[v] = 1 /\ db.wake[v].att # 0 /\ box[db.wake[v].att] = "sent"
      BY <1>0, <1>4, <2>2 DEF TurnsOK
    <3>2. db'.wake[v] = db.wake[v]
      BY <1>3, <3>1 DEF BothSet, w
    <3> QED BY <3>1, <3>2
  <2> QED BY <2>1, <2>2 DEF TurnsOK
<1>7. /\ Envelope(db, a) \in Nat
      /\ db.wake[w].trig = "task" => Envelope(db, a) = db.task.gen
      /\ db.wake[w].trig # "task" => Envelope(db, a) = db.wake[w].hw
      /\ db.wake[w].hw \in Nat /\ db.task.gen \in Nat
  BY <1>0, <1>1, Rows DEF Envelope, StoreInv, WakeRecords, TaskRecords, w
<1>8. /\ told' \in [Attempts -> Nat] /\ told'[a] = Envelope(db, a)
      /\ \A b \in Attempts \ {a} : told'[b] = told[b]
  BY <1>0, <1>7 DEF ProcessTypes
<1>9. ToldOK(db)'
  <2> SUFFICES ASSUME NEW b \in Attempts, db'.att[b].st \in Crossed
               PROVE  /\ db'.wake[db'.att[b].wake].trig = "inbox" =>
                            told'[b] >= db'.wake[db'.att[b].wake].hw
                      /\ db'.wake[db'.att[b].wake].trig = "task" =>
                            /\ told'[b] <= db'.task.gen
                            /\ told'[b] = db'.task.gen /\ db'.task.st = "active" /\ ~unbound' =>
                                  db'.task.carrier = db'.att[b].gen
    BY DEF ToldOK
  <2>1. CASE b = a
    <3>1. db'.att[b].wake = w /\ db'.task = db.task /\ db'.wake[w].trig = db.wake[w].trig
          /\ db'.wake[w].hw = db.wake[w].hw /\ db'.att[b].gen = db.att[a].gen
      BY <1>3, <2>1 DEF BothSet, w
    <3>2. db.wake[w].trig = "task" => db.task.carrier = db.att[a].gen
      BY DEF TaskDispatchable, w
    <3> QED BY <1>7, <1>8, <2>1, <3>1, <3>2
  <2>2. CASE b # a
    <3>1. db'.att[b] = db.att[b] /\ db'.task = db.task /\ told'[b] = told[b]
      BY <1>3, <1>8, <2>2 DEF BothSet
    <3>2. /\ db'.wake[db.att[b].wake].trig = db.wake[db.att[b].wake].trig
          /\ db'.wake[db.att[b].wake].hw = db.wake[db.att[b].wake].hw
      <4>1. db.att[b].wake \in Wakes
        BY <1>0, <3>1 DEF Linked, Crossed, Dispatched
      <4> QED BY <1>3, <4>1 DEF BothSet
    <3>3. /\ db.wake[db.att[b].wake].trig = "inbox" => told[b] >= db.wake[db.att[b].wake].hw
          /\ db.wake[db.att[b].wake].trig = "task" =>
                /\ told[b] <= db.task.gen
                /\ told[b] = db.task.gen /\ db.task.st = "active" /\ ~unbound =>
                      db.task.carrier = db.att[b].gen
      BY <1>0, <3>1 DEF ToldOK
    <3> QED BY <3>1, <3>2, <3>3
  <2> QED BY <2>1, <2>2
<1>10. Covered(db)'
  BY <1>0, <1>3, CoveredKept
<1>11. FenceStands
  BY <1>1, <1>3 DEF FenceStands, OneWay, Dispatched
<1> QED BY <1>3, <1>5, <1>6, <1>8, <1>9, <1>10, <1>11 DEF TurnsStand, Crosses

(* A turn starts with the envelope of an attempt that crossed the fence and *)
(* has not started one.                                                    *)
LEMMA TurnStarted ==
    ASSUME SafetyInv, NEW a \in Attempts, db.att[a].st \in Crossed, box[a] # "sent",
           TurnStarts(a), UNCHANGED <<db, told, messages, unbound>>
    PROVE  /\ TurnsStand /\ box' \in [Attempts -> {"none", "ready", "sent"}]
           /\ turns' \in [Wakes -> Nat] /\ \A b \in Attempts \ {a} : box'[b] = box[b]
<1> DEFINE w == db.att[a].wake
<1>0. StoreInv(db) /\ ProcessTypes /\ TurnsOK(db) /\ ToldOK(db) /\ Covered(db) /\ Linked(db)
  BY TablesLinked DEF SafetyInv, TurnInv
<1>1. w \in Wakes /\ db.wake[w].att = a
  BY <1>0 DEF Linked, Crossed, Dispatched
<1>2. turns[w] = 0
  BY <1>0, <1>1 DEF TurnsOK
<1>3. /\ box' \in [Attempts -> {"none", "ready", "sent"}] /\ box'[a] = "sent"
      /\ \A b \in Attempts \ {a} : box'[b] = box[b]
  BY <1>0 DEF TurnStarts, ProcessTypes
<1>4. /\ turns' \in [Wakes -> Nat] /\ turns'[w] = 1
      /\ \A v \in Wakes \ {w} : turns'[v] = turns[v]
  BY <1>0, <1>1, <1>2 DEF TurnStarts, ProcessTypes
<1> HIDE DEF w
<1>5. TurnsOK(db)'
  <2>1. \A b \in Attempts : box'[b] # "none" => db'.att[b].st \in Crossed
    BY <1>0, <1>3 DEF TurnsOK
  <2>2. ASSUME NEW v \in Wakes, turns'[v] # 0
        PROVE  turns'[v] = 1 /\ db'.wake[v].att # 0 /\ box'[db'.wake[v].att] = "sent"
    <3>1. CASE v = w
      BY <1>1, <1>3, <1>4, <3>1 DEF Attempts
    <3>2. CASE v # w
      <4>1. turns[v] = 1 /\ db.wake[v].att # 0 /\ box[db.wake[v].att] = "sent"
        BY <1>0, <1>4, <2>2, <3>2 DEF TurnsOK
      <4>2. db.wake[v].att \in Attempts
        BY <1>0, <4>1 DEF StoreInv, WakeOK
      <4> QED BY <1>3, <1>4, <3>2, <4>1, <4>2
    <3> QED BY <3>1, <3>2
  <2> QED BY <2>1, <2>2 DEF TurnsOK
<1>6. ToldOK(db)' /\ Covered(db)'
  BY <1>0 DEF ToldOK, Covered
<1>7. FenceStands
  BY <1>0 DEF FenceStands, OneWay
<1> QED BY <1>0, <1>3, <1>4, <1>5, <1>6, <1>7 DEF TurnsStand

-----------------------------------------------------------------------------
(* One lemma per operation: the invariant of the turns is kept *)

(* A Message is posted. *)
LEMMA PostMessageSafe ==
    ASSUME SafetyInv, PostMessage
    PROVE  Kept
<1> USE DEF PostMessage
<1>0. /\ StoreInv(db) /\ ProcessTypes /\ TurnsOK(db) /\ ToldOK(db) /\ Covered(db) /\ Linked(db)
      /\ WorkerOK(db)
  BY TablesLinked DEF SafetyInv, TurnInv
<1>1. messages \in 0..MaxMessages /\ messages' = messages + 1 /\ messages' \in 0..MaxMessages
  BY <1>0, BoundsAssumption DEF ProcessTypes
<1>2. PICK w \in Wakes : Joined(db, db', w, messages')
  BY <1>0, <1>1, CoalesceJoins
<1>3. /\ StoreInv(db') /\ \A a \in Attempts : AttemptKept(db, db', a)
      /\ \A v \in Wakes : OneWay(db, db', v)
  BY <1>0, <1>2, JoinedSafe
<1>4. UNCHANGED <<fresh, bind, worker, answer, sched, gaveUp, unbound, box, told, turns, faults>>
  BY DEF host
<1>5. TurnsOK(db)'
  BY <1>0, <1>3, <1>4, TurnsKept
<1>6. ToldOK(db)'
  <2>1. \A a \in Attempts : db.att[a].st \in Crossed =>
            db.att[a].wake \in Wakes /\ db.att[a].wake # w
    BY <1>0, <1>2 DEF Linked, Joined, Crossed, Dispatched, PreFence
  <2> QED BY <1>0, <1>2, <1>4, <2>1 DEF ToldOK, Joined
<1>7. Covered(db)'
  <2> SUFFICES ASSUME NEW m \in 1..messages'
               PROVE  \E v \in Wakes : db'.wake[v].trig = "inbox" /\ db'.wake[v].hw >= m
    BY DEF Covered
  <2>1. db'.wake[w].trig = "inbox" /\ db'.wake[w].hw >= m
    BY <1>1, <1>2 DEF Joined
  <2> QED BY <2>1
<1>8. WorkerOK(db)'
  BY <1>0, <1>3, <1>4, WorkerKept
<1>9. ProcessTypes'
  BY <1>0, <1>1, <1>4 DEF ProcessTypes
<1> QED BY <1>3, <1>5, <1>6, <1>7, <1>8, <1>9 DEF Kept, FenceStands, SafetyInv, TurnInv

(* A task attempt is given to the Agent. *)
LEMMA StartTaskSafe ==
    ASSUME SafetyInv, StartTaskContinuation
    PROVE  Kept
<1> USE DEF StartTaskContinuation
<1>0. /\ StoreInv(db) /\ ProcessTypes /\ TurnsOK(db) /\ ToldOK(db) /\ Covered(db) /\ Linked(db)
      /\ WorkerOK(db)
  BY TablesLinked DEF SafetyInv, TurnInv
<1>1. PICK w \in Wakes : Continued(db, db', w)
  BY <1>0, ContinueRows
<1>2. /\ StoreInv(db') /\ \A a \in Attempts : AttemptKept(db, db', a)
      /\ \A v \in Wakes : OneWay(db, db', v) /\ WakeKept(db, db', v)
      /\ \A v \in Wakes : db.wake[v].trig # "task"
  BY <1>0, <1>1, ContinuedSafe
<1>3. UNCHANGED <<fresh, bind, worker, answer, sched, gaveUp, unbound, box, told, turns,
                  messages, faults>>
  BY DEF host
<1>4. TurnsOK(db)'
  BY <1>0, <1>2, <1>3, TurnsKept
<1>5. ToldOK(db)'
  <2>1. \A a \in Attempts : db.att[a].st \in Crossed =>
            db.att[a].wake \in Wakes /\ db.att[a].wake # w
    BY <1>0, <1>1 DEF Linked, Continued, Crossed, Dispatched
  <2>2. db'.att = db.att /\ told' = told /\ \A v \in Wakes \ {w} : db'.wake[v] = db.wake[v]
    BY <1>1, <1>3 DEF Continued
  <2>3. \A a \in Attempts : db'.att[a].st \in Crossed =>
            /\ db'.wake[db'.att[a].wake].trig = "inbox" =>
                  told'[a] >= db'.wake[db'.att[a].wake].hw
            /\ db'.wake[db'.att[a].wake].trig # "task"
    <3> TAKE a \in Attempts
    <3> HAVE db'.att[a].st \in Crossed
    <3>1. db.att[a].st \in Crossed /\ db'.att[a].wake = db.att[a].wake
      BY <2>2
    <3>2. db'.wake[db.att[a].wake] = db.wake[db.att[a].wake] /\ db.att[a].wake \in Wakes
      BY <2>1, <2>2, <3>1
    <3>3. db.wake[db.att[a].wake].trig = "inbox" => told[a] >= db.wake[db.att[a].wake].hw
      BY <1>0, <3>1 DEF ToldOK
    <3> QED BY <1>2, <2>2, <3>1, <3>2, <3>3
  <2> QED BY <2>3 DEF ToldOK
<1>6. Covered(db)'
  BY <1>0, <1>2, <1>3, CoveredKept
<1>7. WorkerOK(db)'
  BY <1>0, <1>2, <1>3, WorkerKept
<1>8. ProcessTypes'
  BY <1>0, <1>3 DEF ProcessTypes
<1> QED BY <1>2, <1>4, <1>5, <1>6, <1>7, <1>8 DEF Kept, FenceStands, SafetyInv, TurnInv

(* A fault, within its bound. *)
LEMMA FaultTypes ==
    ASSUME ProcessTypes, Fault
    PROVE  faults' \in 0..MaxFaults
BY BoundsAssumption DEF ProcessTypes, Fault

(* Leases run out, task Wakes end. *)
LEMMA LapsesSafe ==
    ASSUME SafetyInv, \/ TaskLeaseLapses \/ TaskExpiryMaterialized \/ EndpointLeaseLapses
                      \/ \E a \in Attempts : ClaimLeaseLapses(a)
    PROVE  Kept
<1>0. StoreInv(db) /\ ProcessTypes
  BY DEF SafetyInv, TurnInv
<1>1. CASE TaskLeaseLapses
  <2>1. Safe(db, db')
    BY <1>0, <1>1, TaskLapseSafe DEF TaskLeaseLapses
  <2>2. UNCHANGED <<process, host, messages>> /\ faults' \in 0..MaxFaults
    BY <1>0, <1>1, FaultTypes DEF TaskLeaseLapses
  <2>3. ProcessTypes'
    BY <1>0, <2>2 DEF ProcessTypes, process, host
  <2> QED BY <2>1, <2>2, <2>3, CalmStep DEF Safe, process, host
<1>2. CASE TaskExpiryMaterialized
  <2>1. Safe(db, db')
    BY <1>0, <1>2, RetireSafe DEF TaskExpiryMaterialized
  <2>2. UNCHANGED <<process, host, messages, faults>>
    BY <1>2 DEF TaskExpiryMaterialized
  <2>3. ProcessTypes'
    BY <1>0, <2>2 DEF ProcessTypes, process, host
  <2> QED BY <2>1, <2>2, <2>3, CalmStep DEF Safe, process, host
<1>3. CASE EndpointLeaseLapses
  <2>1. Safe(db, db')
    BY <1>0, <1>3, EndpointLapseSafe DEF EndpointLeaseLapses, Current
  <2>2. UNCHANGED <<process, host, messages>> /\ faults' \in 0..MaxFaults
    BY <1>0, <1>3, FaultTypes DEF EndpointLeaseLapses
  <2>3. ProcessTypes'
    BY <1>0, <2>2 DEF ProcessTypes, process, host
  <2> QED BY <2>1, <2>2, <2>3, CalmStep DEF Safe, process, host
<1>4. ASSUME NEW a \in Attempts, ClaimLeaseLapses(a) PROVE Kept
  <2>1. Safe(db, db')
    BY <1>0, <1>4, ClaimLapseSafe DEF ClaimLeaseLapses
  <2>2. UNCHANGED <<process, host, messages>> /\ faults' \in 0..MaxFaults
    BY <1>0, <1>4, FaultTypes DEF ClaimLeaseLapses
  <2>3. ProcessTypes'
    BY <1>0, <2>2 DEF ProcessTypes, process, host
  <2> QED BY <2>1, <2>2, <2>3, CalmStep DEF Safe, process, host
<1> QED BY <1>1, <1>2, <1>3, <1>4

(* No binding is one. *)
LEMMA NoBindingType == NoBinding \in Bindings /\ NoBinding.att = 0 /\ NoBinding.gen = 0
                       /\ NoBinding.kind = "none"
BY BoundsAssumption DEF NoBinding, Bindings

(* Endpoints attach, recover and detach. *)
LEMMA EndpointsSafe ==
    ASSUME SafetyInv, \/ AttachEndpoint \/ RecoverExpiredEndpoint
                      \/ \E g \in Gens : DetachEndpoint(g)
    PROVE  Kept
<1>0. StoreInv(db) /\ ProcessTypes /\ db.cur \in 0..MaxGen
  BY Rows DEF SafetyInv, TurnInv, StoreInv
<1>1. CASE AttachEndpoint
  <2>1. Safe(db, db')
    <3>1. db.cur + 1 \in Gens
      BY <1>0, <1>1, BoundsAssumption DEF AttachEndpoint, Gens
    <3> QED BY <1>0, <1>1, <3>1, AttachSafe DEF AttachEndpoint, Safe, Renewed
  <2>2. UNCHANGED <<fresh, bind, worker, answer, sched, gaveUp, unbound, host, messages, faults>>
    BY <1>1 DEF AttachEndpoint
  <2>3. ProcessTypes'
    BY <1>0, <2>2 DEF ProcessTypes, host
  <2> QED BY <2>1, <2>2, <2>3, CalmStep DEF Safe, host
<1>2. CASE RecoverExpiredEndpoint
  <2>0. db.cur + 1 \in Gens
    BY <1>0, <1>2, BoundsAssumption DEF RecoverExpiredEndpoint, Gens
  <2>1. Safe(db, db')
    BY <1>0, <1>2, <2>0, RecoverySafe DEF RecoverExpiredEndpoint, Safe, Renewed
  <2>2. /\ UNCHANGED <<worker, answer, sched, calls, gaveUp, host, unbound, messages, faults>>
        /\ fresh' = db.cur + 1 /\ bind' = NoBinding
    BY <1>2 DEF RecoverExpiredEndpoint
  <2>3. ProcessTypes'
    BY <1>0, <2>0, <2>2, NoBindingType DEF ProcessTypes, host, Gens
  <2> QED BY <2>1, <2>2, <2>3, CalmStep DEF Safe, host, NoBinding
<1>3. ASSUME NEW g \in Gens, DetachEndpoint(g) PROVE Kept
  <2>1. Safe(db, db')
    BY <1>0, <1>3, DetachSafe DEF DetachEndpoint
  <2>2. UNCHANGED <<fresh, bind, worker, answer, sched, gaveUp, unbound, host, messages, faults>>
    BY <1>3 DEF DetachEndpoint
  <2>3. ProcessTypes'
    BY <1>0, <2>2 DEF ProcessTypes, host
  <2> QED BY <2>1, <2>2, <2>3, CalmStep DEF Safe, host
<1> QED BY <1>1, <1>2, <1>3

(* A Host is withdrawn, and leaves its window or none. *)
LEMMA UnregisterSafe ==
    ASSUME NEW d, StoreInv(d), NEW g \in Gens, g = d.cur, NEW win \in BOOLEAN, NEW e,
           e = [Withdraw(d, g) EXCEPT !.ep[g].window = win]
    PROVE  /\ StoreInv(e) /\ Quiet(d, e) /\ e.cur = d.cur /\ ~e.ep[g].capable
           /\ e.task.carrier # 0 => e.task.carrier = d.task.carrier
<1> DEFINE r == Withdraw(d, g)
           x == [r.ep[g] EXCEPT !.window = win]
<1>1. Withdrawn(d, r, g)
  BY WithdrawSafe
<1>3. e = [r EXCEPT !.ep[g].window = win]
  OBVIOUS
<1> HIDE DEF r
<1>4. StoreInv(r) /\ r \in Stores /\ r.ep[g] \in EpRecords /\ r.ep \in [Gens -> EpRecords]
  BY <1>1, Rows DEF Withdrawn, StoreInv
<1>5. x \in EpRecords /\ x.life = r.ep[g].life /\ x.capable = r.ep[g].capable
  BY <1>4 DEF EpRecords
<1>6. e = [r EXCEPT !.ep[g] = x]
  BY <1>3, <1>4 DEF Stores
<1> HIDE DEF x
<1>7. EpWritten(r, e, g, x)
  <2>1. EpWritten(r, [r EXCEPT !.ep[g] = x], g, x)
    BY <1>4, <1>5, EpWrite
  <2> QED BY <1>6, <2>1
<1>8. Safe(r, e)
  BY <1>4, <1>5, <1>7, EpWriteSafe
<1> QED BY <1>1, <1>4, <1>5, <1>7, <1>8, QuietTrans DEF Safe, Withdrawn, EpWritten, StoreInv

(* Calls on the controller, and Hosts that are bound and withdrawn. *)
LEMMA BindingsSafe ==
    ASSUME SafetyInv, \/ \E g \in Gens : ReconcileAttachedEndpoint(g) \/ EndpointDetached(g)
                      \/ \E n \in 0..(MaxMessages + MaxWakes) : ScheduleAgent(n)
                      \/ RegisterEndpointAdapter \/ RegisterMcpAppBinding \/ Unregister
    PROVE  Kept
<1>0. StoreInv(db) /\ ProcessTypes /\ Safe(db, db)
  BY SafeStutter DEF SafetyInv, TurnInv
<1>1. ASSUME NEW g \in Gens, ReconcileAttachedEndpoint(g) \/ EndpointDetached(g)
      PROVE  Kept
  <2>1. /\ UNCHANGED <<db, worker, answer, sched, gaveUp, box, told, turns, unbound, messages, faults>>
        /\ fresh' \in {0, g, fresh} /\ bind' \in {bind, NoBinding}
    BY <1>1 DEF ReconcileAttachedEndpoint, EndpointDetached, host
  <2>2. ProcessTypes'
    <3>1. fresh' \in 0..MaxGen
      BY <1>0, <2>1, BoundsAssumption DEF ProcessTypes, Gens
    <3>2. bind' \in Bindings
      BY <1>0, <2>1, NoBindingType DEF ProcessTypes
    <3> QED BY <1>0, <2>1, <3>1, <3>2 DEF ProcessTypes
  <2>3. bind'.att = bind.att \/ bind'.att = 0
    BY <2>1 DEF NoBinding
  <2> QED BY <1>0, <2>1, <2>2, <2>3, CalmStep DEF Safe
<1>2. ASSUME NEW n, ScheduleAgent(n) PROVE Kept
  <2>1. /\ UNCHANGED <<db, fresh, bind, worker, answer, box, told, turns, unbound, messages, faults>>
        /\ sched' \in {"clean", "dirty"} /\ gaveUp' = FALSE
    BY <1>2 DEF ScheduleAgent, host, Marked
  <2>2. ProcessTypes'
    BY <1>0, <2>1 DEF ProcessTypes
  <2> QED BY <1>0, <2>1, <2>2, CalmStep DEF Safe
<1>3. ASSUME NEW kind \in {"push", "app"}, Bound(kind), db.cur \in Gens,
             sched' \in {sched, "clean", "dirty"}, gaveUp' \in {gaveUp, FALSE},
             UNCHANGED <<fresh, worker, answer, box, told, turns, messages, faults>>
      PROVE  Kept
  <2> DEFINE r == Disabled(db)
             win == (kind = "app")
  <2>1. r = db \/ r = Withdraw(db, db.cur)
    BY DEF Disabled
  <2>2. db' = [r EXCEPT !.ep[db.cur].capable = TRUE, !.ep[db.cur].window = win]
    BY <1>3 DEF Bound
  <2>3. win \in BOOLEAN
    OBVIOUS
  <2> HIDE DEF r, win
  <2>4. HostBound(db, db')
    BY <1>0, <1>3, <2>1, <2>2, <2>3, BoundSafe
  <2>5. unbound' = (unbound \/ (db.task.carrier # 0 /\ db'.task.carrier = 0))
    BY <1>3 DEF Bound, NotesUnbound
  <2>6. unbound' \in BOOLEAN /\ (unbound => unbound') /\ (Carries(db, db') \/ unbound')
    BY <2>4, <2>5 DEF HostBound, Carries
  <2>7. bind' = [NoBinding EXCEPT !.kind = kind, !.gen = db.cur]
    BY <1>3 DEF Bound
  <2>8. bind'.att = 0 /\ bind' \in Bindings
    <3>1. db.cur \in 0..MaxGen
      BY <1>3 DEF Gens
    <3> QED BY <2>7, <3>1, NoBindingType DEF Bindings
  <2>9. ProcessTypes'
    BY <1>0, <1>3, <2>6, <2>8 DEF ProcessTypes
  <2> QED BY <1>3, <2>4, <2>6, <2>8, <2>9, CalmStep DEF HostBound
<1>4. CASE RegisterEndpointAdapter
  <2>1. Bound("push") /\ db.cur \in Gens /\ sched' \in {"clean", "dirty"} /\ gaveUp' = FALSE
        /\ UNCHANGED <<fresh, worker, answer, box, told, turns, messages, faults>>
    BY <1>4 DEF RegisterEndpointAdapter, Current, Marked, host
  <2> QED BY <1>3, <2>1
<1>5. CASE RegisterMcpAppBinding
  <2>1. Bound("app") /\ db.cur \in Gens /\ sched' = sched /\ gaveUp' = gaveUp
        /\ UNCHANGED <<fresh, worker, answer, box, told, turns, messages, faults>>
    BY <1>5 DEF RegisterMcpAppBinding, Current, host
  <2> QED BY <1>3, <2>1
<1>6. CASE Unregister
  <2>1. bind.gen \in Gens /\ bind.gen = db.cur
    BY <1>6 DEF Unregister, Current
  <2>2. /\ StoreInv(db') /\ Quiet(db, db')
        /\ (db'.task.carrier # 0 => db'.task.carrier = db.task.carrier)
    <3> DEFINE win == (bind.kind = "app")
    <3>1. win \in BOOLEAN
      OBVIOUS
    <3>2. db' = [Withdraw(db, bind.gen) EXCEPT !.ep[bind.gen].window = win]
      BY <1>6 DEF Unregister
    <3> HIDE DEF win
    <3> QED BY <1>0, <2>1, <3>1, <3>2, UnregisterSafe
  <2>3. unbound' = (unbound \/ (db.task.carrier # 0 /\ db'.task.carrier = 0))
    BY <1>6 DEF Unregister, NotesUnbound
  <2>4. unbound' \in BOOLEAN /\ (unbound => unbound') /\ (Carries(db, db') \/ unbound')
    BY <2>2, <2>3 DEF Carries
  <2>5. bind' = NoBinding /\ UNCHANGED <<fresh, worker, answer, sched, gaveUp, box, told, turns,
                                         messages, faults>>
    BY <1>6 DEF Unregister, host
  <2>6. bind'.att = 0 /\ ProcessTypes'
    BY <1>0, <2>4, <2>5, NoBindingType DEF ProcessTypes
  <2> QED BY <2>2, <2>4, <2>5, <2>6, CalmStep
<1> QED BY <1>1, <1>2, <1>4, <1>5, <1>6

(* The worker claims, or finds nothing to claim. *)
LEMMA WorkerClaimSafe ==
    ASSUME SafetyInv, WorkerClaim
    PROVE  Kept
<1>0. StoreInv(db) /\ ProcessTypes /\ Safe(db, db) /\ WorkerOK(db)
  BY SafeStutter DEF SafetyInv, TurnInv
<1>1. /\ UNCHANGED <<fresh, answer, sched, box, told, turns, unbound, messages, faults>>
      /\ answer = 0
  BY DEF WorkerClaim, host
<1>2. CASE /\ worker' = [pc |-> "done", att |-> 0] /\ bind' \in {bind, NoBinding}
           /\ gaveUp' \in {gaveUp, FALSE} /\ db' \in {db, Swept(db)}
  <2>1. Safe(db, db')
    BY <1>0, <1>2, SweepSafe DEF SweptTo
  <2>2. worker' \in [pc : PCs, att : 0..MaxAttempts] /\ worker'.pc = "done"
    BY <1>2, BoundsAssumption DEF PCs
  <2>3. bind' \in Bindings /\ (bind'.att = bind.att \/ bind'.att = 0)
    BY <1>0, <1>2, NoBindingType DEF ProcessTypes
  <2>4. ProcessTypes'
    BY <1>0, <1>1, <1>2, <2>2, <2>3 DEF ProcessTypes
  <2> QED BY <1>1, <2>1, <2>2, <2>3, <2>4, CalmStep DEF Safe
<1>3. ASSUME NEW a \in Unused(db), NEW w \in Claimable(db), Capable(db, bind.gen),
             db' = Claim(db, w, a, bind.gen, "push"), worker' = [pc |-> "claimed", att |-> a],
             UNCHANGED <<bind, gaveUp>>
      PROVE  Kept
  <2>1. Claimed(db, db', a, w, bind.gen)
    BY <1>0, <1>3, ClaimSafe
  <2>2. a \in Attempts
    BY <1>3 DEF Unused
  <2>3. TurnsStand
    BY <1>1, <2>1, QuietStep DEF Claimed, Safe
  <2>4. worker' \in [pc : PCs, att : 0..MaxAttempts]
    BY <1>3, <2>2 DEF PCs, Attempts
  <2>5. ProcessTypes'
    BY <1>0, <1>1, <1>3, <2>4 DEF ProcessTypes
  <2>6. WorkerOK(db)'
    <3>1. db'.att[a].st = "claimed"
      BY <2>1 DEF Claimed
    <3>2. bind.att # 0 => db'.att[bind.att].st # "unused"
      <4>1. bind.att \in 0..MaxAttempts
        BY <1>0 DEF ProcessTypes, Bindings
      <4>2. \A b \in Attempts : AttemptKept(db, db', b) /\ db.att[b].st \in AttemptStates
        BY <1>0, <2>1, Rows DEF Claimed, Safe, Quiet, StoreInv, AttemptRecords
      <4> QED BY <1>0, <4>1, <4>2 DEF WorkerOK, AttemptKept, AttemptStates, Crossed, Dispatched,
                                      Attempts
    <3> QED BY <1>1, <1>3, <2>2, <3>1, <3>2 DEF WorkerOK
  <2> QED BY <2>3, <2>5, <2>6 DEF Kept, FenceStands, SafetyInv, TurnInv, TurnsStand
<1>4. CASE bind.kind # "push" /\ At("done", 0) /\ UNCHANGED <<db, bind, gaveUp>>
  BY <1>2, <1>4 DEF At
<1>5. CASE bind.kind = "push" /\ ~Capable(db, bind.gen) /\ Failed(TRUE) /\ UNCHANGED db
  BY <1>2, <1>5 DEF At, Failed
<1>6. CASE /\ Claimable(db) = {} /\ db' = Swept(db) /\ At("done", 0)
           /\ UNCHANGED <<bind, gaveUp>>
  BY <1>2, <1>6 DEF At
<1>7. CASE /\ bind.kind = "push" /\ Capable(db, bind.gen)
           /\ Unused(db) # {}
           /\ \E w \in Claimable(db) :
                 /\ db' = Claim(db, w, Oldest(Unused(db)), bind.gen, "push")
                 /\ At("claimed", Oldest(Unused(db)))
           /\ UNCHANGED <<bind, gaveUp>>
  <2>1. Oldest(Unused(db)) \in Unused(db)
    BY <1>7, OldestIsLeast DEF Unused, Attempts
  <2> QED BY <1>3, <1>7, <2>1 DEF At
<1> QED BY <1>4, <1>5, <1>6, <1>7 DEF WorkerClaim

(* The worker gives up: what Failed leaves. *)
LEMMA FailedSafe ==
    ASSUME SafetyInv, NEW stale \in BOOLEAN, Failed(stale), Safe(db, db'),
           UNCHANGED <<fresh, answer, sched, box, told, turns, unbound, messages, faults>>
    PROVE  Kept
<1>0. ProcessTypes
  BY DEF SafetyInv, TurnInv
<1>1. worker' \in [pc : PCs, att : 0..MaxAttempts] /\ worker'.pc = "done" /\ gaveUp' \in BOOLEAN
  BY BoundsAssumption DEF Failed, At, PCs
<1>2. bind' \in Bindings /\ (bind'.att = bind.att \/ bind'.att = 0)
  BY <1>0, NoBindingType DEF ProcessTypes, Failed
<1>3. ProcessTypes'
  BY <1>0, <1>1, <1>2 DEF ProcessTypes
<1> QED BY <1>1, <1>2, <1>3, CalmStep DEF Safe

(* The worker between its claim and the Host callback. *)
LEMMA WorkerFenceSafe ==
    ASSUME SafetyInv, WorkerPreflightFails \/ WorkerPrepare \/ WorkerVerify
    PROVE  Kept
<1>0. StoreInv(db) /\ ProcessTypes /\ Safe(db, db) /\ WorkerOK(db)
  BY SafeStutter DEF SafetyInv, TurnInv
<1> DEFINE a == worker.att
<1>1. CASE WorkerPreflightFails
  <2>1. a \in Attempts /\ db.att[a].st \in {"claimed", "revoked"}
    BY <1>0, <1>1 DEF WorkerPreflightFails, WorkerOK
  <2>2. Safe(db, db')
    BY <1>0, <1>1, <2>1, ReleaseSafe DEF WorkerPreflightFails
  <2>3. UNCHANGED <<fresh, answer, sched, box, told, turns, unbound, messages, faults>>
    BY <1>1 DEF WorkerPreflightFails, host
  <2>4. Failed(~Current(db, bind.gen)) /\ (~Current(db, bind.gen)) \in BOOLEAN
    BY <1>1 DEF WorkerPreflightFails
  <2> QED BY <2>2, <2>3, <2>4, FailedSafe
<1>2. CASE WorkerPrepare
  <2>1. a \in Attempts /\ db.att[a].st \in {"claimed", "revoked"} /\ worker.pc = "claimed"
    BY <1>0, <1>2 DEF WorkerPrepare, WorkerOK
  <2>2. UNCHANGED <<fresh, answer, sched, calls, box, turns, unbound, messages, faults>>
    BY <1>2 DEF WorkerPrepare
  <2>3. CASE Preparable(db, a) /\ TaskDispatchable(db, a)
    <3>1. db' = Prepare(db, a) /\ told' = [told EXCEPT ![a] = Envelope(db, a)]
          /\ At("prepared", a) /\ UNCHANGED <<bind, gaveUp>>
      BY <1>2, <2>3 DEF WorkerPrepare
    <3>2. db.att[a].st = "claimed"
      BY <1>0, <2>1, <2>3, PreparableIsClaimed
    <3>3. Crosses(a)
      BY <2>1, <2>2, <2>3, <3>1, <3>2, FenceCrossed
    <3>4. worker' = [pc |-> "prepared", att |-> a]
      BY <3>1 DEF At
    <3>5. ProcessTypes'
      <4>1. worker' \in [pc : PCs, att : 0..MaxAttempts]
        BY <2>1, <3>4 DEF PCs, Attempts
      <4> QED BY <1>0, <2>2, <3>1, <3>3, <4>1 DEF ProcessTypes, Crosses
    <3>6. WorkerOK(db)'
      <4>1. answer' = 0
        BY <1>0, <2>1, <2>2 DEF WorkerOK
      <4>2. bind'.att # 0 => db'.att[bind'.att].st # "unused"
        <5>1. bind.att \in 0..MaxAttempts
          BY <1>0 DEF ProcessTypes, Bindings
        <5>2. \A b \in Attempts : db.att[b].st # "unused" => db'.att[b].st # "unused"
          BY <3>3 DEF Crosses, BothSet
        <5> QED BY <1>0, <3>1, <5>1, <5>2 DEF WorkerOK, Attempts
      <4>3. worker'.pc = "prepared" /\ worker'.att = a
        BY <3>4
      <4>4. Unsent(db, worker.att)'
        BY <3>3, <4>3 DEF Crosses, Unsent
      <4> QED BY <4>1, <4>2, <4>3, <4>4 DEF WorkerOK
    <3> QED BY <3>3, <3>5, <3>6 DEF Kept, FenceStands, SafetyInv, TurnInv, TurnsStand, Crosses
  <2>4. CASE Preparable(db, a) /\ ~TaskDispatchable(db, a)
    <3>1. db' = Prepare(db, a) /\ told' = told /\ Failed(FALSE)
      BY <1>2, <2>4 DEF WorkerPrepare
    <3>2. db.att[a].st = "claimed"
      BY <1>0, <2>1, <2>4, PreparableIsClaimed
    <3>3. Safe(db, db')
      BY <1>0, <2>1, <2>4, <3>1, <3>2, PrepareRetiresSafe
    <3> QED BY <2>2, <3>1, <3>3, FailedSafe
  <2>5. CASE ~Preparable(db, a)
    <3>1. db' = db /\ told' = told /\ Failed(~Capable(db, bind.gen))
      BY <1>2, <2>5 DEF WorkerPrepare
    <3>2. (~Capable(db, bind.gen)) \in BOOLEAN /\ Safe(db, db')
      BY <1>0, <3>1
    <3> QED BY <2>2, <3>1, <3>2, FailedSafe
  <2> QED BY <2>3, <2>4, <2>5
<1>3. CASE WorkerVerify
  <2>1. worker.pc = "prepared" /\ Unsent(db, a) /\ answer = 0
    BY <1>0, <1>3 DEF WorkerVerify, WorkerOK
  <2>2. UNCHANGED <<db, fresh, answer, sched, calls, box, told, turns, unbound, messages, faults>>
    BY <1>3 DEF WorkerVerify, host
  <2>3. CASE Verified(db, a)
    <3>1. worker' = [pc |-> "verified", att |-> a] /\ UNCHANGED <<bind, gaveUp>>
      BY <1>3, <2>3 DEF WorkerVerify, At
    <3>2. TurnsStand
      BY <1>0, <2>2, QuietStep DEF Safe
    <3>3. ProcessTypes'
      <4>1. worker' \in [pc : PCs, att : 0..MaxAttempts]
        BY <2>1, <3>1 DEF PCs, Attempts, Unsent
      <4> QED BY <1>0, <2>2, <3>1, <4>1 DEF ProcessTypes
    <3>4. WorkerOK(db)'
      BY <1>0, <2>1, <2>2, <3>1 DEF WorkerOK, Unsent
    <3> QED BY <3>2, <3>3, <3>4 DEF Kept, FenceStands, SafetyInv, TurnInv, TurnsStand
  <2>4. CASE ~Verified(db, a)
    <3>1. Failed(~Capable(db, bind.gen)) /\ (~Capable(db, bind.gen)) \in BOOLEAN /\ Safe(db, db')
      BY <1>0, <1>3, <2>2, <2>4 DEF WorkerVerify
    <3> QED BY <2>2, <3>1, FailedSafe
  <2> QED BY <2>3, <2>4
<1> QED BY <1>1, <1>2, <1>3

(* The Host callback, its outcome, and the worker's way back to idle. *)
LEMMA WorkerTailSafe ==
    ASSUME SafetyInv, WorkerDispatch \/ WorkerFinish \/ WorkerNext
    PROVE  Kept
<1>0. StoreInv(db) /\ ProcessTypes /\ Safe(db, db) /\ WorkerOK(db)
  BY SafeStutter DEF SafetyInv, TurnInv
<1>1. CASE WorkerDispatch
  <2> DEFINE a == worker.att
  <2>1. a \in Attempts /\ db.att[a].st \in Crossed /\ box[a] = "none" /\ answer = 0
    BY <1>0, <1>1 DEF WorkerDispatch, WorkerOK, Unsent
  <2>2. UNCHANGED <<db, fresh, bind, answer, sched, calls, gaveUp, told, unbound, messages, faults>>
    BY <1>1 DEF WorkerDispatch
  <2>3. worker'.pc \in {"delivered", "delivery_unknown"} /\ worker'.att = a
        /\ worker' \in [pc : PCs, att : 0..MaxAttempts]
    BY <1>1, <2>1 DEF WorkerDispatch, At, PCs, Attempts
  <2>4. /\ TurnsStand /\ box' \in [Attempts -> {"none", "ready", "sent"}]
        /\ turns' \in [Wakes -> Nat]
    <3>1. CASE TurnStarts(a)
      BY <2>1, <2>2, <3>1, TurnStarted
    <3>2. CASE UNCHANGED <<box, turns>>
      BY <1>0, <2>2, <3>2, QuietStep DEF Safe, ProcessTypes
    <3> QED BY <1>1, <3>1, <3>2 DEF WorkerDispatch
  <2>5. ProcessTypes'
    BY <1>0, <2>2, <2>3, <2>4 DEF ProcessTypes
  <2>6. WorkerOK(db)'
    BY <1>0, <2>1, <2>2, <2>3 DEF WorkerOK
  <2> QED BY <2>4, <2>5, <2>6 DEF Kept, FenceStands, SafetyInv, TurnInv, TurnsStand
<1>2. CASE WorkerFinish
  <2>1. /\ worker.att \in Attempts /\ db.att[worker.att].st \in Crossed
        /\ worker.pc \in {"delivered", "delivery_unknown"}
    BY <1>0, <1>2 DEF WorkerFinish, WorkerOK
  <2>2. db' = FinishDelivery(db, worker.att, worker.pc)
    BY <1>2 DEF WorkerFinish
  <2>3. Safe(db, db')
    BY <1>0, <2>1, <2>2, FinishSafe DEF Crossed, Dispatched
  <2>4. /\ UNCHANGED <<fresh, answer, sched, gaveUp, box, told, turns, unbound, messages, faults>>
        /\ bind' \in {bind, NoBinding} /\ worker' = [pc |-> "done", att |-> 0]
    BY <1>2 DEF WorkerFinish, host, At
  <2>5. worker' \in [pc : PCs, att : 0..MaxAttempts] /\ worker'.pc = "done"
    BY <2>4, BoundsAssumption DEF PCs
  <2>6. bind' \in Bindings /\ (bind'.att = bind.att \/ bind'.att = 0)
    BY <1>0, <2>4, NoBindingType DEF ProcessTypes
  <2>7. ProcessTypes'
    BY <1>0, <2>4, <2>5, <2>6 DEF ProcessTypes
  <2> QED BY <2>3, <2>4, <2>5, <2>6, <2>7, CalmStep DEF Safe
<1>3. CASE WorkerNext
  <2>1. /\ UNCHANGED <<db, fresh, bind, answer, box, told, turns, unbound, messages, faults>>
        /\ sched' \in {"no", "clean"} /\ worker' = Idle /\ gaveUp' \in BOOLEAN
    BY <1>3 DEF WorkerNext, host
  <2>2. worker' \in [pc : PCs, att : 0..MaxAttempts] /\ worker'.pc = "idle"
    BY <2>1, BoundsAssumption DEF PCs, Idle
  <2>3. ProcessTypes'
    BY <1>0, <2>1, <2>2 DEF ProcessTypes
  <2> QED BY <1>0, <2>1, <2>2, <2>3, CalmStep DEF Safe
<1> QED BY <1>1, <1>2, <1>3

(* The binding remembers the View's claim. *)
LEMMA BindingRemembers ==
    ASSUME NEW b \in Bindings, NEW a \in 0..MaxAttempts, NEW c,
           c = [b EXCEPT !.att = a, !.fenced = FALSE]
    PROVE  c \in Bindings /\ c.att = a /\ c.kind = b.kind /\ c.gen = b.gen
<1>1. c = [kind |-> b.kind, gen |-> b.gen, att |-> a, fenced |-> FALSE]
  BY DEF Bindings
<1>2. b.kind \in {"none", "push", "app"} /\ b.gen \in 0..MaxGen
  BY DEF Bindings
<1> QED BY <1>1, <1>2 DEF Bindings

(* The View acquires a Wake. *)
LEMMA AcquireSafe ==
    ASSUME SafetyInv, AcquireMcpAppWake
    PROVE  Kept
<1>0. StoreInv(db) /\ ProcessTypes /\ WorkerOK(db)
  BY DEF SafetyInv, TurnInv
<1>1. /\ UNCHANGED <<fresh, worker, answer, sched, gaveUp, box, told, turns, unbound, messages, faults>>
      /\ answer = 0 /\ worker.pc \in {"idle", "done"} /\ bind \in Bindings
      /\ Capable(db, bind.gen)
  BY <1>0 DEF AcquireMcpAppWake, AppBound, Unlocked, host, ProcessTypes
<1>2. CASE db' = Swept(db) /\ bind' = [bind EXCEPT !.att = 0, !.fenced = FALSE]
  <2>1. Safe(db, db')
    BY <1>0, <1>2, SweepSafe DEF SweptTo
  <2>2. bind' \in Bindings /\ bind'.att = 0
    <3>1. 0 \in 0..MaxAttempts
      BY BoundsAssumption
    <3> QED BY <1>1, <1>2, <3>1, BindingRemembers
  <2>3. ProcessTypes'
    BY <1>0, <1>1, <2>2 DEF ProcessTypes
  <2> QED BY <1>1, <2>1, <2>2, <2>3, CalmStep DEF Safe
<1>3. ASSUME NEW a \in Unused(db), NEW w \in Claimable(db),
             db' = Claim(db, w, a, bind.gen, "app"),
             bind' = [bind EXCEPT !.att = a, !.fenced = FALSE]
      PROVE  Kept
  <2>1. Claimed(db, db', a, w, bind.gen)
    BY <1>0, <1>1, <1>3, ClaimSafe
  <2>2. a \in Attempts
    BY <1>3 DEF Unused
  <2>3. TurnsStand
    BY <1>1, <2>1, QuietStep DEF Claimed, Safe
  <2>4. bind' \in Bindings /\ bind'.att = a
    <3>1. a \in 0..MaxAttempts
      BY <2>2 DEF Attempts
    <3> QED BY <1>1, <1>3, <3>1, BindingRemembers
  <2>5. ProcessTypes'
    BY <1>0, <1>1, <2>4 DEF ProcessTypes
  <2>6. WorkerOK(db)'
    BY <1>1, <2>1, <2>2, <2>4 DEF WorkerOK, Claimed
  <2> QED BY <2>3, <2>5, <2>6 DEF Kept, FenceStands, SafetyInv, TurnInv, TurnsStand
<1>4. CASE Unused(db) # {}
  <2>1. Oldest(Unused(db)) \in Unused(db)
    BY <1>4, OldestIsLeast DEF Unused, Attempts
  <2> QED BY <1>2, <1>3, <2>1 DEF AcquireMcpAppWake
<1> QED BY <1>2, <1>4 DEF AcquireMcpAppWake

(* The View prepares, is answered, sends and reports. *)
LEMMA ViewSafe ==
    ASSUME SafetyInv,
           \/ PrepareMcpAppWake \/ AnswerMcpAppPrepare \/ \E a \in Attempts : ViewSends(a)
           \/ \E st \in {"delivered", "delivery_unknown"} : FinishMcpAppWake(st)
    PROVE  Kept
<1>0. /\ StoreInv(db) /\ ProcessTypes /\ Safe(db, db) /\ WorkerOK(db) /\ TurnsOK(db)
      /\ bind \in Bindings
  BY SafeStutter DEF SafetyInv, TurnInv, ProcessTypes
<1>1. bind.att # 0 => bind.att \in Attempts /\ db.att[bind.att].st # "unused"
  BY <1>0 DEF WorkerOK, Bindings, Attempts
<1>2. CASE PrepareMcpAppWake
  <2> DEFINE a == bind.att
  <2>1. /\ UNCHANGED <<fresh, bind, worker, sched, calls, gaveUp, box, turns, unbound, messages, faults>>
        /\ answer = 0 /\ worker.pc \in {"idle", "done"} /\ a # 0 /\ Preparable(db, a)
        /\ db' = Prepare(db, a)
    BY <1>2 DEF PrepareMcpAppWake, AppBound, Unlocked
  <2>2. a \in Attempts /\ db.att[a].st = "claimed"
    BY <1>0, <1>1, <2>1, PreparableIsClaimed
  <2>3. CASE TaskDispatchable(db, a)
    <3>1. answer' = a /\ told' = [told EXCEPT ![a] = Envelope(db, a)]
      BY <1>2, <2>3 DEF PrepareMcpAppWake
    <3>2. Crosses(a)
      BY <2>1, <2>2, <2>3, <3>1, FenceCrossed
    <3>3. ProcessTypes'
      BY <1>0, <2>1, <2>2, <3>1, <3>2 DEF ProcessTypes, Crosses, Attempts
    <3>4. WorkerOK(db)'
      <4>1. Unsent(db, answer)'
        <5>1. a' = a /\ answer' = a
          BY <2>1, <3>1
        <5>2. a \in Attempts /\ db'.att[a].st \in Crossed /\ box'[a] = "none"
          BY <2>2, <3>2, <5>1 DEF Crosses, Unsent
        <5> QED BY <5>1, <5>2 DEF Unsent
      <4>2. db'.att[bind'.att].st # "unused"
        BY <2>1, <3>2 DEF Crosses, BothSet
      <4> QED BY <2>1, <4>1, <4>2 DEF WorkerOK
    <3> QED BY <3>2, <3>3, <3>4 DEF Kept, FenceStands, SafetyInv, TurnInv, TurnsStand, Crosses
  <2>4. CASE ~TaskDispatchable(db, a)
    <3>1. UNCHANGED <<answer, told>>
      BY <1>2, <2>4 DEF PrepareMcpAppWake
    <3>2. Safe(db, db')
      BY <1>0, <2>1, <2>2, <2>4, PrepareRetiresSafe
    <3>3. ProcessTypes'
      BY <1>0, <2>1, <3>1 DEF ProcessTypes
    <3> QED BY <2>1, <3>1, <3>2, <3>3, CalmStep DEF Safe
  <2> QED BY <2>3, <2>4
<1>3. CASE AnswerMcpAppPrepare
  <2>1. answer \in Attempts /\ db.att[answer].st \in Crossed /\ box[answer] = "none"
        /\ worker.pc \in {"idle", "done"}
    BY <1>0, <1>3 DEF AnswerMcpAppPrepare, WorkerOK, Unsent
  <2>2. /\ UNCHANGED <<db, fresh, worker, sched, calls, gaveUp, told, turns, unbound, messages, faults>>
        /\ answer' = 0
        /\ \/ bind' = [bind EXCEPT !.fenced = TRUE] /\ box' = [box EXCEPT ![answer] = "ready"]
           \/ bind' = bind /\ box' = box
    BY <1>3 DEF AnswerMcpAppPrepare
  <2>3. bind' \in Bindings /\ bind'.att = bind.att
    BY <1>0, <2>2 DEF Bindings
  <2>4. box' \in [Attempts -> {"none", "ready", "sent"}]
        /\ \A b \in Attempts : b # answer => box'[b] = box[b]
    BY <1>0, <2>2 DEF ProcessTypes
  <2>5. ProcessTypes'
    BY <1>0, <2>2, <2>3, <2>4, BoundsAssumption DEF ProcessTypes
  <2>6. TurnsOK(db)'
    <3>1. \A b \in Attempts : box'[b] # "none" => db'.att[b].st \in Crossed
      BY <1>0, <2>1, <2>2, <2>4 DEF TurnsOK
    <3>2. ASSUME NEW w \in Wakes, turns'[w] # 0
          PROVE  turns'[w] = 1 /\ db'.wake[w].att # 0 /\ box'[db'.wake[w].att] = "sent"
      <4>1. turns[w] = 1 /\ db.wake[w].att # 0 /\ box[db.wake[w].att] = "sent"
        BY <1>0, <2>2, <3>2 DEF TurnsOK
      <4>2. db.wake[w].att \in Attempts /\ db.wake[w].att # answer
        BY <1>0, <2>1, <4>1 DEF StoreInv, WakeOK
      <4> QED BY <2>2, <2>4, <4>1, <4>2
    <3> QED BY <3>1, <3>2 DEF TurnsOK
  <2>7. ToldOK(db)' /\ Covered(db)'
    BY <2>2 DEF SafetyInv, TurnInv, ToldOK, Covered
  <2>8. WorkerOK(db)'
    BY <1>0, <2>1, <2>2, <2>3 DEF WorkerOK
  <2>9. FenceStands
    BY <1>0, <2>2 DEF FenceStands, Safe, Quiet
  <2> QED BY <1>0, <2>2, <2>5, <2>6, <2>7, <2>8, <2>9 DEF Kept, SafetyInv, TurnInv
<1>4. ASSUME NEW a \in Attempts, ViewSends(a) PROVE Kept
  <2>1. box[a] = "ready" /\ TurnStarts(a) /\ UNCHANGED <<db, process, told, messages, faults>>
    BY <1>4 DEF ViewSends
  <2>2. db.att[a].st \in Crossed
    BY <1>0, <2>1 DEF TurnsOK
  <2>3. /\ TurnsStand /\ box' \in [Attempts -> {"none", "ready", "sent"}]
        /\ turns' \in [Wakes -> Nat] /\ \A b \in Attempts \ {a} : box'[b] = box[b]
    BY <2>1, <2>2, TurnStarted DEF process
  <2>4. ProcessTypes'
    BY <1>0, <2>1, <2>3 DEF ProcessTypes, process
  <2>5. WorkerOK(db)'
    BY <1>0, <2>1, <2>3 DEF WorkerOK, Unsent, process
  <2> QED BY <2>3, <2>4, <2>5 DEF Kept, FenceStands, SafetyInv, TurnInv, TurnsStand
<1>5. ASSUME NEW st \in {"delivered", "delivery_unknown"}, FinishMcpAppWake(st)
      PROVE  Kept
  <2>1. /\ db' = FinishDelivery(db, bind.att, st) /\ bind.att # 0
        /\ UNCHANGED <<process, host, messages, faults>>
    BY <1>5 DEF FinishMcpAppWake
  <2>2. Safe(db, db')
    BY <1>0, <1>1, <2>1, FinishSafe
  <2>3. ProcessTypes'
    BY <1>0, <2>1 DEF ProcessTypes, process, host
  <2> QED BY <2>1, <2>2, <2>3, CalmStep DEF Safe, process, host
<1> QED BY <1>2, <1>3, <1>4, <1>5

(* A running turn takes a pending inbox Wake. *)
LEMMA ActivateSafe ==
    ASSUME SafetyInv, NEW w \in Wakes, ActivateExplicitly(w)
    PROVE  Kept
<1> DEFINE a == Oldest(Unused(db))
<1>0. /\ StoreInv(db) /\ ProcessTypes /\ WorkerOK(db) /\ TurnsOK(db) /\ ToldOK(db) /\ Covered(db)
      /\ db \in Stores
  BY DEF SafetyInv, TurnInv, StoreInv
<1>1. a \in Unused(db)
  BY OldestIsLeast DEF ActivateExplicitly, Unused, Attempts
<1>2. a \in Attempts /\ db.att[a].st = "unused"
  BY <1>1 DEF Unused
<1>3. /\ db.wake[w].trig = "inbox" /\ db.wake[w].st = "pending" /\ db.cur \in Gens
      /\ db' = NewAttempt(db, a, w, db.cur, "explicit", "delivered")
      /\ box' = [box EXCEPT ![a] = "sent"] /\ told' = [told EXCEPT ![a] = db.wake[w].hw]
      /\ turns' = [turns EXCEPT ![w] = @ + 1]
      /\ UNCHANGED <<fresh, bind, worker, answer, sched, calls, gaveUp, unbound, messages, faults>>
  BY DEF ActivateExplicitly, Current, process
<1> HIDE DEF a
<1>4. Attempted(db, db', a, w, db.cur, "delivered")
  BY <1>0, <1>2, <1>3, AttemptRows DEF Kinds
<1>5. /\ StoreInv(db') /\ \A v \in Wakes : WakeKept(db, db', v) /\ OneWay(db, db', v)
      /\ \A b \in Attempts \ {a} : AttemptKept(db, db', b)
  BY <1>0, <1>2, <1>3, <1>4, AttemptInv
<1>6. /\ box'[a] = "sent" /\ \A b \in Attempts \ {a} : box'[b] = box[b]
      /\ told'[a] = db.wake[w].hw /\ \A b \in Attempts \ {a} : told'[b] = told[b]
      /\ turns'[w] = turns[w] + 1 /\ \A v \in Wakes \ {w} : turns'[v] = turns[v]
  BY <1>0, <1>2, <1>3 DEF ProcessTypes
<1>7. db.wake[w].hw \in Nat /\ turns[w] \in Nat
  <2>1. db.wake[w].hw \in 0..MaxMessages
    BY <1>0, Rows DEF WakeRecords
  <2> QED BY <1>0, <2>1, BoundsAssumption DEF ProcessTypes
<1>8. ProcessTypes'
  <2>1. box' \in [Attempts -> {"none", "ready", "sent"}] /\ told' \in [Attempts -> Nat]
    BY <1>0, <1>2, <1>3, <1>7 DEF ProcessTypes
  <2>2. turns' \in [Wakes -> Nat]
    BY <1>0, <1>3, <1>7 DEF ProcessTypes
  <2> QED BY <1>0, <1>3, <2>1, <2>2 DEF ProcessTypes
<1>9. TurnsOK(db)'
  <2>1. \A b \in Attempts : box'[b] # "none" => db'.att[b].st \in Crossed
    BY <1>0, <1>4, <1>6 DEF TurnsOK, Attempted, Crossed, Dispatched
  <2>2. db.wake[w].att = 0
    BY <1>0, <1>3 DEF StoreInv, WakeOK, Bare
  <2>3. turns'[w] = 1 /\ db'.wake[w].att = a /\ a # 0
    BY <1>0, <1>2, <1>4, <1>6, <1>7, <2>2 DEF TurnsOK, Attempted, Attempts
  <2>4. ASSUME NEW v \in Wakes \ {w}, turns'[v] # 0
        PROVE  turns'[v] = 1 /\ db'.wake[v].att # 0 /\ box'[db'.wake[v].att] = "sent"
    <3>1. turns[v] = 1 /\ db.wake[v].att # 0 /\ box[db.wake[v].att] = "sent"
      BY <1>0, <1>6, <2>4 DEF TurnsOK
    <3>2. db.wake[v].att \in Attempts
      BY <1>0, <3>1 DEF StoreInv, WakeOK
    <3> QED BY <1>4, <1>6, <2>4, <3>1, <3>2 DEF Attempted
  <2> QED BY <1>6, <2>1, <2>3, <2>4 DEF TurnsOK
<1>10. ToldOK(db)'
  <2>1. db'.att[a].wake = w /\ db'.wake[w].trig = "inbox" /\ told'[a] >= db'.wake[w].hw
    BY <1>3, <1>4, <1>6, <1>7 DEF Attempted
  <2>2. ASSUME NEW b \in Attempts \ {a}, db'.att[b].st \in Crossed
        PROVE  /\ db.att[b].st \in Crossed /\ db'.att[b] = db.att[b] /\ told'[b] = told[b]
               /\ db'.wake[db'.att[b].wake] = db.wake[db.att[b].wake]
    <3>1. db.att[b].st \in Crossed /\ db'.att[b] = db.att[b]
      BY <1>4, <2>2 DEF Attempted
    <3>2. db.att[b].wake \in Wakes /\ db.wake[db.att[b].wake].st = db.att[b].st
      BY <1>0, <3>1, TablesLinked DEF Linked, Crossed, Dispatched
    <3>3. db.att[b].wake # w
      BY <1>3, <3>1, <3>2 DEF Crossed, Dispatched
    <3> QED BY <1>4, <1>6, <3>1, <3>2, <3>3 DEF Attempted
  <2>3. db'.task = db.task /\ unbound' = unbound
    BY <1>3, <1>4 DEF Attempted
  <2>4. ASSUME NEW b \in Attempts \ {a}, db'.att[b].st \in Crossed
        PROVE  /\ db'.wake[db'.att[b].wake].trig = "inbox" => told'[b] >= db'.wake[db'.att[b].wake].hw
               /\ db'.wake[db'.att[b].wake].trig = "task" =>
                     /\ told'[b] <= db'.task.gen
                     /\ told'[b] = db'.task.gen /\ db'.task.st = "active" /\ ~unbound' =>
                           db'.task.carrier = db'.att[b].gen
    BY <1>0, <2>2, <2>3, <2>4 DEF ToldOK
  <2>5. ~(db'.wake[db'.att[a].wake].trig = "task")
    BY <2>1
  <2> QED BY <2>1, <2>4, <2>5 DEF ToldOK
<1>11. Covered(db)'
  BY <1>0, <1>3, <1>5, CoveredKept
<1>12. WorkerOK(db)'
  <2>1. \A b \in Attempts \ {a} : db'.att[b] = db.att[b]
    BY <1>4 DEF Attempted
  <2>2. db'.att[a].st = "delivered"
    BY <1>4 DEF Attempted
  <2>3. worker.pc = "claimed" => worker.att # a
    BY <1>0, <1>2 DEF WorkerOK
  <2>4. \A b : Unsent(db, b) => b # a /\ Unsent(db, b)'
    BY <1>2, <1>6, <2>1 DEF Unsent, Crossed, Dispatched
  <2>5. worker.pc \in {"delivered", "delivery_unknown"} => worker.att # a
    BY <1>0, <1>2 DEF WorkerOK, Crossed, Dispatched
  <2>6. bind.att # 0 => bind.att \in Attempts
    BY <1>0 DEF ProcessTypes, Bindings, Attempts
  <2>7. bind.att # 0 => db'.att[bind.att].st # "unused"
    BY <1>0, <2>1, <2>2, <2>6 DEF WorkerOK
  <2>8. worker.pc \in {"prepared", "verified"} => Unsent(db, worker.att)'
    <3>1. worker' = worker
      BY <1>3
    <3> QED BY <1>0, <2>4, <3>1 DEF WorkerOK, Unsent
  <2>9. answer # 0 => Unsent(db, answer)'
    <3>1. answer' = answer
      BY <1>3
    <3> QED BY <1>0, <2>4, <3>1 DEF WorkerOK, Unsent
  <2> QED BY <1>0, <1>3, <2>1, <2>3, <2>5, <2>7, <2>8, <2>9 DEF WorkerOK
<1> QED BY <1>5, <1>8, <1>9, <1>10, <1>11, <1>12 DEF Kept, FenceStands, SafetyInv, TurnInv

(* A turn takes over the Wake it was started for. *)
LEMMA ConsumeSafe ==
    ASSUME SafetyInv, NEW a \in Attempts, ConsumeWake(a)
    PROVE  Kept
<1>0. StoreInv(db) /\ ProcessTypes /\ TurnsOK(db)
  BY DEF SafetyInv, TurnInv
<1>1. /\ db' = SetBoth(db, a, "consumed")
      /\ box[a] = "sent" /\ ExactClaim(db, a) /\ db.wake[db.att[a].wake].st \in Dispatched
      /\ UNCHANGED <<fresh, bind, worker, answer, sched, gaveUp, unbound, box, told, turns, messages, faults>>
  BY DEF ConsumeWake, host
<1>2. db.att[a].st \in Dispatched
  <2>1. db.att[a].st \in Crossed
    BY <1>0, <1>1 DEF TurnsOK
  <2>2. db.wake[db.att[a].wake].st = db.att[a].st
    BY <1>0, <2>1, TablesLinked DEF Linked, Crossed, Dispatched
  <2> QED BY <1>1, <2>2
<1>3. Safe(db, db') /\ BothSet(db, db', a, "consumed")
  BY <1>0, <1>1, <1>2, MoveOnSafe
<1>4. ProcessTypes'
  BY <1>0, <1>1 DEF ProcessTypes
<1> QED BY <1>1, <1>3, <1>4, CalmStep DEF Safe

(* Another Server process takes over. *)
LEMMA ServerTakeoverSafe ==
    ASSUME SafetyInv, ServerTakeover
    PROVE  Kept
<1>0. StoreInv(db) /\ ProcessTypes
  BY DEF SafetyInv, TurnInv
<1>1. /\ Fault /\ db' = Recovered(db) /\ fresh' = 0 /\ bind' = NoBinding /\ worker' = Idle
      /\ answer' = 0 /\ sched' = "no" /\ gaveUp' = FALSE
      /\ UNCHANGED <<unbound, box, told, turns, messages>>
  BY DEF ServerTakeover, host
<1>2. Safe(db, db')
  BY <1>0, <1>1, TakeoverSafe
<1>3. worker' \in [pc : PCs, att : 0..MaxAttempts] /\ worker'.pc = "idle"
  BY <1>1, BoundsAssumption DEF PCs, Idle
<1>4. 0 \in 0..MaxGen /\ 0 \in 0..MaxAttempts
  BY BoundsAssumption
<1>5. bind' \in Bindings /\ bind'.att = 0
  BY <1>1, NoBindingType
<1>6. ProcessTypes'
  BY <1>0, <1>1, <1>3, <1>4, <1>5, FaultTypes DEF ProcessTypes
<1> QED BY <1>1, <1>2, <1>3, <1>5, <1>6, CalmStep DEF Safe

(* The first store is in order. *)
LEMMA InitSafe ==
    ASSUME Init
    PROVE  SafetyInv
<1>0. 0 \in 0..MaxGen /\ 0 \in 0..MaxAttempts /\ 0 \in 0..MaxWakes /\ 0 \in 0..MaxMessages
      /\ 0 \in 0..MaxFaults /\ 0 \in Nat /\ 1 \in Nat
  BY BoundsAssumption
<1> DEFINE ep0 == [life |-> "none", lapsed |-> FALSE, capable |-> FALSE, window |-> FALSE]
           wake0 == [trig |-> "none", st |-> "absent", att |-> 0, gen |-> 0, hw |-> 0]
           att0 == [st |-> "unused", wake |-> 0, gen |-> 0, kind |-> "none", over |-> FALSE]
           task0 == [st |-> "none", gen |-> 1, carrier |-> 0]
<1>1. /\ db.cur = 0 /\ db.ep = [g \in Gens |-> ep0] /\ db.wake = [w \in Wakes |-> wake0]
      /\ db.att = [a \in Attempts |-> att0] /\ db.task = task0
      /\ db = [cur |-> 0, ep |-> [g \in Gens |-> ep0], wake |-> [w \in Wakes |-> wake0],
               att |-> [a \in Attempts |-> att0], task |-> task0]
  BY DEF Init
<1>2. ep0 \in EpRecords
  BY DEF EpRecords
<1>3. wake0 \in WakeRecords
  BY <1>0 DEF WakeRecords, WakeStates
<1>4. att0 \in AttemptRecords
  BY <1>0 DEF AttemptRecords, AttemptStates
<1>5. task0 \in TaskRecords
  BY <1>0 DEF TaskRecords
<1>6. /\ \A w \in Wakes : db.wake[w].trig = "none" /\ db.wake[w].st = "absent"
                          /\ db.wake[w].att = 0 /\ db.wake[w].gen = 0
      /\ \A a \in Attempts : db.att[a].st = "unused" /\ db.att[a].wake = 0
      /\ db.task.carrier = 0
  BY <1>1
<1> HIDE DEF ep0, wake0, att0, task0
<1>7. db \in Stores
  BY <1>0, <1>1, <1>2, <1>3, <1>4, <1>5 DEF Stores
<1>8. StoreInv(db)
  BY <1>6, <1>7 DEF StoreInv, WakeOK, AttemptOK, OneTaskWake, CarrierOK, Bare
<1>9. ProcessTypes
  <2>1. worker \in [pc : PCs, att : 0..MaxAttempts] /\ bind \in Bindings
    BY <1>0, NoBindingType DEF Init, Idle, PCs
  <2> QED BY <1>0, <2>1 DEF Init, ProcessTypes
<1>10. WorkerOK(db)
  BY NoBindingType DEF Init, Idle, WorkerOK
<1>11. TurnsOK(db) /\ ToldOK(db) /\ Covered(db)
  <2>1. (\A a \in Attempts : box[a] = "none") /\ (\A w \in Wakes : turns[w] = 0) /\ messages = 0
    BY DEF Init
  <2> QED BY <1>6, <2>1 DEF TurnsOK, ToldOK, Covered, Crossed, Dispatched
<1> QED BY <1>8, <1>9, <1>10, <1>11 DEF Kept, FenceStands, SafetyInv, TurnInv

-----------------------------------------------------------------------------
(* Safety *)

(* Every step of the Wakes keeps the invariant, and the fence one-way. *)
LEMMA NextKeeps ==
    ASSUME SafetyInv, [Next]_vars
    PROVE  Kept
<1>1. CASE WorkStep
  BY <1>1, PostMessageSafe, StartTaskSafe, LapsesSafe DEF WorkStep
<1>2. CASE EndpointStep
  BY <1>2, EndpointsSafe, LapsesSafe, BindingsSafe DEF EndpointStep
<1>3. CASE BindingStep
  BY <1>3, BindingsSafe, LapsesSafe DEF BindingStep
<1>4. CASE WorkerStep
  BY <1>4, WorkerClaimSafe, WorkerFenceSafe, WorkerTailSafe DEF WorkerStep
<1>5. CASE ViewStep
  BY <1>5, AcquireSafe, ViewSafe DEF ViewStep
<1>6. CASE TurnStep
  BY <1>6, ActivateSafe, ConsumeSafe DEF TurnStep
<1>7. CASE ServerTakeover
  BY <1>7, ServerTakeoverSafe
<1>8. CASE UNCHANGED vars
  <2>1. UNCHANGED <<db, fresh, bind, worker, answer, sched, calls, gaveUp, unbound, box, told,
                    turns, messages, faults>>
    BY <1>8 DEF vars, process, host
  <2>2. StoreInv(db) /\ ProcessTypes
    BY DEF SafetyInv, TurnInv
  <2>3. ProcessTypes'
    BY <2>1, <2>2 DEF ProcessTypes
  <2>4. StoreInv(db') /\ Quiet(db, db') /\ Carries(db, db')
    BY <2>1, <2>2, SafeStutter DEF Safe
  <2> QED BY <2>1, <2>3, <2>4, CalmStep
<1> QED BY <1>1, <1>2, <1>3, <1>4, <1>5, <1>6, <1>7, <1>8 DEF Next

(* The inductive invariant: the Wake, attempt, Endpoint and task rows agree *)
(* with one another and with what the dispatch worker, the View, the Host   *)
(* and the turns hold, in every reachable state.                           *)
THEOREM SafetyInvariant == Spec => []SafetyInv
<1>1. Init => SafetyInv
  BY InitSafe
<1>2. SafetyInv /\ [Next]_vars => SafetyInv'
  BY NextKeeps DEF Kept
<1> QED BY <1>1, <1>2, PTL DEF Spec

(* Tables, bindings, worker, envelopes and counters keep their types. *)
THEOREM TypeCorrect == Spec => []TypeOK
<1>1. SafetyInv => TypeOK
  <2> SUFFICES ASSUME SafetyInv PROVE TypeOK
    OBVIOUS
  <2>1. db \in Stores /\ ProcessTypes
    BY DEF SafetyInv, StoreInv, TurnInv
  <2>2. /\ db.cur \in 0..MaxGen /\ db.ep \in [Gens -> EpRecords]
        /\ db.wake \in [Wakes -> WakeRecords] /\ db.att \in [Attempts -> AttemptRecords]
        /\ db.task \in TaskRecords
    BY <2>1, Rows
  <2>3. worker.pc \in PCs /\ worker.att \in 0..MaxAttempts
    BY <2>1 DEF ProcessTypes
  <2> QED BY <2>1, <2>2, <2>3 DEF TypeOK, ProcessTypes, EpRecords, WakeRecords, AttemptRecords,
                                  TaskRecords, PCs, Bindings
<1> QED BY <1>1, SafetyInvariant, PTL

(* A Wake becomes at most one model turn, whatever is retried, replaced,    *)
(* released, lost or restarted.                                            *)
THEOREM OneTurn == Spec => []OneTurnPerWake
<1>1. SafetyInv => OneTurnPerWake
  BY DEF SafetyInv, TurnInv, TurnsOK, OneTurnPerWake
<1> QED BY <1>1, SafetyInvariant, PTL

(* The Wake table and the attempt table agree. *)
THEOREM TablesAgree == Spec => []AttemptsAgree
<1>1. SafetyInv => AttemptsAgree
  <2> SUFFICES ASSUME SafetyInv, NEW w \in Wakes
               PROVE  /\ db.wake[w].att # 0 =>
                            /\ db.att[db.wake[w].att].wake = w
                            /\ db.att[db.wake[w].att].st = db.wake[w].st
                            /\ db.att[db.wake[w].att].gen = db.wake[w].gen
                      /\ \A a \in Attempts :
                            db.att[a].wake = w /\ a # db.wake[w].att => db.att[a].st = "revoked"
    BY DEF AttemptsAgree
  <2>1. WakeOK(db, w) /\ \A a \in Attempts : AttemptOK(db, a)
    BY DEF SafetyInv, StoreInv
  <2>2. db.wake[w].att # 0 => db.wake[w].st \notin Bare
    BY <2>1 DEF WakeOK
  <2>3. ASSUME NEW a \in Attempts, db.att[a].wake = w, a # db.wake[w].att
        PROVE  db.att[a].st = "revoked"
    <3>1. w # 0
      BY DEF Wakes
    <3> QED BY <2>1, <2>3, <3>1 DEF AttemptOK
  <2> QED BY <2>1, <2>2, <2>3 DEF WakeOK
<1> QED BY <1>1, SafetyInvariant, PTL

(* No Message is swallowed by coalescing. *)
THEOREM NoMessageSwallowed == Spec => []MessagesCovered
<1>1. SafetyInv => MessagesCovered
  <2> SUFFICES ASSUME SafetyInv, NEW m \in 1..messages
               PROVE  \E w \in Wakes :
                          /\ db.wake[w].trig = "inbox" /\ db.wake[w].hw >= m
                          /\ \/ db.wake[w].st \in PreFence
                             \/ told[db.wake[w].att] >= m
    BY DEF MessagesCovered
  <2>0. StoreInv(db) /\ ProcessTypes /\ ToldOK(db) /\ Covered(db) /\ db \in Stores
    BY DEF SafetyInv, TurnInv, StoreInv
  <2>1. PICK w \in Wakes : db.wake[w].trig = "inbox" /\ db.wake[w].hw >= m
    BY <2>0 DEF Covered
  <2>2. db.wake[w].st \in WakeStates /\ db.wake[w].hw \in Nat
    <3>1. db.wake[w] \in WakeRecords
      BY <2>0, Rows
    <3> QED BY <3>1 DEF WakeRecords
  <2>3. db.wake[w].st \in PreFence \/ db.wake[w].st \in Crossed
    BY <2>0, <2>1, <2>2 DEF StoreInv, WakeOK, WakeStates, Crossed
  <2>4. CASE db.wake[w].st \in Crossed
    <3>1. /\ db.wake[w].att \in Attempts /\ db.att[db.wake[w].att].wake = w
          /\ db.att[db.wake[w].att].st \in Crossed
      BY <2>0, <2>4 DEF StoreInv, WakeOK, Bare, Crossed, Dispatched
    <3>2. told[db.wake[w].att] >= db.wake[w].hw /\ told[db.wake[w].att] \in Nat
      BY <2>0, <2>1, <3>1 DEF ToldOK, ProcessTypes
    <3>3. m \in Nat
      BY <2>0 DEF ProcessTypes
    <3>4. told[db.wake[w].att] >= m
      BY <2>1, <2>2, <3>2, <3>3
    <3> QED BY <2>1, <3>4
  <2> QED BY <2>1, <2>3, <2>4
<1> QED BY <1>1, SafetyInvariant, PTL

(* The task's carrier row names the attached Endpoint, which holds the      *)
(* task's Wake.                                                            *)
THEOREM CarrierRow == Spec => []CarrierIsCurrent
<1>1. SafetyInv => CarrierIsCurrent
  BY DEF SafetyInv, StoreInv, CarrierOK, CarrierIsCurrent
<1> QED BY <1>1, SafetyInvariant, PTL

(* A turn that holds the task's present controller generation belongs to    *)
(* the attached Endpoint, unless a Host binding was withdrawn while its     *)
(* Endpoint carried the task.                                              *)
THEOREM OldTurnsAreStale == Spec => []OldTurnIsStaleUnlessUnbound
<1>1. SafetyInv => OldTurnIsStaleUnlessUnbound
  <2> SUFFICES ASSUME SafetyInv, ~unbound, NEW a \in Attempts, TurnHolds(a)
               PROVE  db.att[a].gen = db.cur /\ db.ep[db.cur].life = "attached"
    BY DEF OldTurnIsStaleUnlessUnbound, OldTurnIsStale
  <2>1. StoreInv(db) /\ TurnsOK(db) /\ ToldOK(db)
    BY DEF SafetyInv, TurnInv
  <2>2. db.att[a].st \in Crossed
    BY <2>1 DEF TurnHolds, TurnsOK
  <2>3. db.task.carrier = db.att[a].gen
    BY <2>1, <2>2 DEF TurnHolds, ToldOK
  <2>4. db.att[a].gen \in Gens
    BY <2>1, <2>2, TablesLinked DEF Linked, Crossed, Dispatched
  <2>5. db.task.carrier # 0
    BY <2>3, <2>4 DEF Gens
  <2> QED BY <2>1, <2>3, <2>5 DEF StoreInv, CarrierOK
<1> QED BY <1>1, SafetyInvariant, PTL

(* The dispatch fence is one-way, in every step. *)
THEOREM FenceIsOneWay == Spec => FenceOneWay
<1>1. SafetyInv /\ [Next]_vars =>
        [\A w \in Wakes :
            /\ db.wake[w].st \in Dispatched =>
                  /\ db'.wake[w].st \in (Dispatched \ {"prepared"}) \cup {db.wake[w].st, "consumed"}
                  /\ db'.wake[w].att = db.wake[w].att /\ db'.wake[w].hw = db.wake[w].hw
            /\ db.wake[w].st \in {"consumed", "retired"} => db'.wake[w] = db.wake[w]]_vars
  BY NextKeeps DEF Kept, FenceStands, OneWay
<1> QED BY <1>1, SafetyInvariant, PTL DEF Spec, FenceOneWay
=============================================================================
