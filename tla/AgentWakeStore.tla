--------------------------- MODULE AgentWakeStore ---------------------------
(***************************************************************************)
(* Lemmas about the store of one Durable Agent's Wakes, for every number of*)
(* Wakes, attempts, Endpoint generations and Messages: the invariant of its*)
(* rows, what each operation on it writes, and that the operation keeps the*)
(* invariant and disturbs no turn.                                         *)
(***************************************************************************)
EXTENDS AgentWake, WellFoundedInduction, TLAPS

-----------------------------------------------------------------------------
(* The invariant of the store *)

EpRecords == [life : {"none", "attached", "expired", "detached"}, lapsed : BOOLEAN,
              capable : BOOLEAN, window : BOOLEAN]
WakeRecords == [trig : {"none", "inbox", "task"}, st : WakeStates,
                att : 0..MaxAttempts, gen : 0..MaxGen, hw : 0..MaxMessages]
AttemptRecords == [st : AttemptStates, wake : 0..MaxWakes, gen : 0..MaxGen,
                   kind : {"none", "push", "app", "explicit"}, over : BOOLEAN]
TaskRecords == [st : {"none", "active", "stale"}, gen : Nat, carrier : 0..MaxGen]

Stores == [cur : 0..MaxGen, ep : [Gens -> EpRecords], wake : [Wakes -> WakeRecords],
           att : [Attempts -> AttemptRecords], task : TaskRecords]

(* States in which a Wake names no attempt, and those past the fence. *)
Bare == {"absent", "pending", "retired"}
Crossed == Dispatched \cup {"consumed"}

(* A Wake names an attempt exactly from its claim on, and the two agree. *)
WakeOK(d, w) ==
    /\ d.wake[w].st \in Bare => d.wake[w].att = 0 /\ d.wake[w].gen = 0
    /\ d.wake[w].st \notin Bare =>
          /\ d.wake[w].att \in Attempts /\ d.wake[w].gen \in Gens
          /\ d.att[d.wake[w].att].wake = w
          /\ d.att[d.wake[w].att].st = d.wake[w].st
          /\ d.att[d.wake[w].att].gen = d.wake[w].gen
    /\ d.wake[w].st = "absent" <=> d.wake[w].trig = "none"
    /\ d.wake[w].trig = "inbox" => d.wake[w].st # "retired"
    /\ d.wake[w].trig = "task" => d.task.st # "none"

(* An attempt that was not revoked is the one its Wake names, and a claim   *)
(* is held by the attached Endpoint while it has its Host.                 *)
AttemptOK(d, a) ==
    /\ d.att[a].st = "unused" <=> d.att[a].wake = 0
    /\ d.att[a].st \notin {"unused", "revoked"} => d.wake[d.att[a].wake].att = a
    /\ d.att[a].st = "claimed" =>
          /\ d.att[a].gen = d.cur /\ d.ep[d.cur].life = "attached" /\ d.ep[d.cur].capable

OneTaskWake(d) ==
    \A v, w \in Wakes : d.wake[v].trig = "task" /\ d.wake[w].trig = "task" => v = w

CarrierOK(d) ==
    d.task.carrier # 0 =>
        /\ d.task.carrier = d.cur /\ d.ep[d.cur].life = "attached"
        /\ \E w \in Wakes : /\ d.wake[w].trig = "task" /\ d.wake[w].gen = d.task.carrier
                             /\ d.wake[w].st \notin {"pending", "retired"}

StoreInv(d) ==
    /\ d \in Stores
    /\ \A w \in Wakes : WakeOK(d, w)
    /\ \A a \in Attempts : AttemptOK(d, a)
    /\ OneTaskWake(d)
    /\ CarrierOK(d)

(* The Wakes the next sweep leaves pending. *)
Ready(d) ==
    {w \in Wakes :
        /\ \/ d.wake[w].st = "pending"
           \/ d.wake[w].st = "claimed" /\ d.att[d.wake[w].att].over
        /\ d.wake[w].trig = "task" => d.task.st = "active"}

Opportunity(d) == Ready(d) # {} /\ ~Blocked(d)

-----------------------------------------------------------------------------
(* What changes of the store keep, in the words of the turns: an attempt    *)
(* past the fence stays there with its Wake and generation, a revoked one   *)
(* stays revoked, a claim is kept or revoked, and no attempt crosses.       *)

OneWay(d, e, w) ==
    /\ d.wake[w].st \in Dispatched =>
          /\ e.wake[w].st \in (Dispatched \ {"prepared"}) \cup {d.wake[w].st, "consumed"}
          /\ e.wake[w].att = d.wake[w].att /\ e.wake[w].hw = d.wake[w].hw
    /\ d.wake[w].st \in {"consumed", "retired"} => e.wake[w] = d.wake[w]

AttemptKept(d, e, a) ==
    /\ d.att[a].st \in Crossed =>
          /\ e.att[a].st \in Crossed
          /\ e.att[a].wake = d.att[a].wake /\ e.att[a].gen = d.att[a].gen
    /\ d.att[a].st = "revoked" => e.att[a].st = "revoked"
    /\ d.att[a].st = "claimed" => e.att[a].st \in {"claimed", "revoked"}
    /\ d.att[a].st = "unused" => e.att[a].st \notin Crossed

WakeKept(d, e, w) ==
    d.wake[w].trig # "none" => e.wake[w].trig = d.wake[w].trig /\ e.wake[w].hw = d.wake[w].hw

Quiet(d, e) ==
    /\ \A a \in Attempts : AttemptKept(d, e, a)
    /\ \A w \in Wakes : WakeKept(d, e, w) /\ OneWay(d, e, w)
    /\ d.task.gen <= e.task.gen
    /\ e.task.st = "active" => d.task.st = "active"

(* While a turn may hold the task, its carrier row stands or the task has a *)
(* new controller generation.                                              *)
Carries(d, e) ==
    \A w \in Wakes :
        d.wake[w].trig = "task" /\ d.wake[w].st \in Crossed /\ e.task.st = "active" =>
            e.task.carrier = d.task.carrier \/ e.task.gen > d.task.gen

-----------------------------------------------------------------------------
(* Lemmas about the operators on the store *)

(* The oldest of some rows is one of them, and none is older. *)
LEMMA OldestIsLeast ==
    ASSUME NEW S \in SUBSET Nat, S # {}
    PROVE  Oldest(S) \in S /\ \A v \in S : Oldest(S) <= v
<1> DEFINE R == OpToRel(<, Nat)
<1>1. PICK x \in S : \A y \in S : ~(<<y, x>> \in R)
  BY WFMin, NatLessThanWellFounded
<1>2. \A y \in S : x <= y
  <2> SUFFICES ASSUME NEW y \in S, ~(x <= y) PROVE FALSE
    OBVIOUS
  <2>1. y < x
    OBVIOUS
  <2>2. <<y, x>> \in R
    BY <2>1 DEF OpToRel
  <2> QED BY <1>1, <2>2
<1> QED BY <1>2 DEF Oldest

(* The rows of a store have their types. *)
LEMMA Rows ==
    ASSUME NEW d \in Stores
    PROVE  /\ d.cur \in 0..MaxGen /\ d.ep \in [Gens -> EpRecords]
           /\ d.wake \in [Wakes -> WakeRecords] /\ d.att \in [Attempts -> AttemptRecords]
           /\ d.task \in TaskRecords
           /\ \A w \in Wakes : d.wake[w] \in WakeRecords
           /\ \A a \in Attempts : d.att[a] \in AttemptRecords
           /\ \A g \in Gens : d.ep[g] \in EpRecords
BY DEF Stores

(* Changing the state of the store is safe, as far as the turns see it,     *)
(* step after step.                                                        *)
LEMMA QuietTrans ==
    ASSUME NEW d, NEW e, NEW f, Quiet(d, e), Quiet(e, f), 
           d \in Stores, e \in Stores, f \in Stores
    PROVE  Quiet(d, f)
<1>1. \A a \in Attempts : AttemptKept(d, f, a)
  <2> TAKE a \in Attempts
  <2>1. AttemptKept(d, e, a) /\ AttemptKept(e, f, a)
    BY DEF Quiet
  <2>2. e.att[a].st \in AttemptStates
    BY Rows DEF AttemptRecords
  <2> QED BY <2>1, <2>2 DEF AttemptKept, Crossed, Dispatched, AttemptStates
<1>2. \A w \in Wakes : WakeKept(d, f, w) /\ OneWay(d, f, w)
  <2> TAKE w \in Wakes
  <2>1. WakeKept(d, e, w) /\ WakeKept(e, f, w) /\ OneWay(d, e, w) /\ OneWay(e, f, w)
    BY DEF Quiet
  <2> QED BY <2>1 DEF WakeKept, OneWay, Dispatched
<1>3. d.task.gen <= f.task.gen /\ (f.task.st = "active" => d.task.st = "active")
  <2>1. d.task.gen \in Nat /\ e.task.gen \in Nat /\ f.task.gen \in Nat
    BY Rows DEF TaskRecords
  <2> QED BY <2>1 DEF Quiet
<1> QED BY <1>1, <1>2, <1>3 DEF Quiet

(* ... and so are the carrier row and the controller generation. *)
LEMMA CarriesTrans ==
    ASSUME NEW d, NEW e, NEW f, Quiet(d, e), Quiet(e, f), Carries(d, e), Carries(e, f),
           d \in Stores, e \in Stores, f \in Stores
    PROVE  Carries(d, f)
<1>1. d.task.gen \in Nat /\ e.task.gen \in Nat /\ f.task.gen \in Nat
  BY Rows DEF TaskRecords
<1> SUFFICES ASSUME NEW w \in Wakes, d.wake[w].trig = "task", d.wake[w].st \in Crossed,
                    f.task.st = "active"
             PROVE  f.task.carrier = d.task.carrier \/ f.task.gen > d.task.gen
  BY DEF Carries
<1>2. e.wake[w].trig = "task" /\ e.wake[w].st \in Crossed /\ e.task.st = "active"
  BY DEF Quiet, WakeKept, OneWay, Crossed, Dispatched
<1> QED BY <1>1, <1>2 DEF Carries, Quiet

-----------------------------------------------------------------------------
(* Claims given back, attempts revoked *)

(* W loses its claims, or ends before the fence, and A are its claims. *)
Droppable(d, W, A, st) ==
    /\ st \in {"pending", "retired"}
    /\ \A w \in W : d.wake[w].st \in PreFence
    /\ st = "retired" => \A w \in W : d.wake[w].trig = "task"
    /\ \A w \in W : d.wake[w].att # 0 => d.wake[w].att \in A
    /\ \A a \in A : d.att[a].st = "claimed" /\ d.att[a].wake \in W

(* What Drop writes, row by row. *)
Dropped(d, e, W, A, st) ==
    /\ e \in Stores /\ e.cur = d.cur /\ e.ep = d.ep
    /\ \A w \in W : /\ e.wake[w].st = st /\ e.wake[w].att = 0 /\ e.wake[w].gen = 0
                    /\ e.wake[w].trig = d.wake[w].trig /\ e.wake[w].hw = d.wake[w].hw
    /\ \A w \in Wakes \ W : e.wake[w] = d.wake[w]
    /\ \A a \in A : e.att[a].st = "revoked" /\ e.att[a].wake = d.att[a].wake
    /\ \A a \in Attempts \ A : e.att[a] = d.att[a]
    /\ e.task.st = d.task.st /\ e.task.gen = d.task.gen
    /\ e.task.carrier = IF \E w \in W : d.wake[w].trig = "task" THEN 0 ELSE d.task.carrier

(* Drop writes just these rows. *)
LEMMA DropRows ==
    ASSUME NEW d \in Stores, NEW W \in SUBSET Wakes, NEW A \in SUBSET Attempts,
           NEW st \in {"pending", "retired"}
    PROVE  Dropped(d, Drop(d, W, A, st), W, A, st)
<1> DEFINE e == Drop(d, W, A, st)
<1> DEFINE wk == [w \in Wakes |-> IF w \in W THEN Unclaimed(d.wake[w], st) ELSE d.wake[w]]
           at == [a \in Attempts |-> IF a \in A THEN Revoked(d.att[a]) ELSE d.att[a]]
           c == IF \E w \in W : d.wake[w].trig = "task" THEN 0 ELSE d.task.carrier
           tk == [d.task EXCEPT !.carrier = c]
<1>1. \A w \in W : /\ Unclaimed(d.wake[w], st) \in WakeRecords
                   /\ Unclaimed(d.wake[w], st).st = st /\ Unclaimed(d.wake[w], st).att = 0
                   /\ Unclaimed(d.wake[w], st).gen = 0
                   /\ Unclaimed(d.wake[w], st).trig = d.wake[w].trig
                   /\ Unclaimed(d.wake[w], st).hw = d.wake[w].hw
  <2> TAKE w \in W
  <2>1. d.wake[w] \in WakeRecords /\ st \in WakeStates
    BY Rows DEF WakeStates, PreFence
  <2>2. 0 \in 0..MaxAttempts /\ 0 \in 0..MaxGen
    BY BoundsAssumption
  <2> QED BY <2>1, <2>2 DEF Unclaimed, WakeRecords
<1>2. \A a \in A : /\ Revoked(d.att[a]) \in AttemptRecords
                   /\ Revoked(d.att[a]).st = "revoked"
                   /\ Revoked(d.att[a]).wake = d.att[a].wake
  BY Rows, BoundsAssumption DEF Revoked, AttemptRecords, AttemptStates
<1>3. wk \in [Wakes -> WakeRecords]
  BY <1>1, Rows
<1>4. at \in [Attempts -> AttemptRecords]
  BY <1>2, Rows
<1>5. /\ tk \in TaskRecords /\ tk.st = d.task.st /\ tk.gen = d.task.gen /\ tk.carrier = c
  BY Rows, BoundsAssumption DEF TaskRecords
<1>6. e = [d EXCEPT !.wake = wk, !.att = at, !.task = tk]
  BY Rows DEF Drop, TaskRecords
<1> HIDE DEF e
<1>7. /\ e \in Stores /\ e.cur = d.cur /\ e.ep = d.ep /\ e.wake = wk /\ e.att = at /\ e.task = tk
  <2> HIDE DEF wk, at, tk
  <2> QED BY <1>3, <1>4, <1>5, <1>6 DEF Stores
<1>8. Dropped(d, e, W, A, st)
  BY <1>1, <1>2, <1>5, <1>7 DEF Dropped
<1> QED BY <1>8 DEF e

(* Giving claims back, or retiring Wakes before the fence, keeps the store  *)
(* in order and disturbs no turn.                                          *)
LEMMA DropSafe ==
    ASSUME NEW d, StoreInv(d), NEW W \in SUBSET Wakes, NEW A \in SUBSET Attempts,
           NEW st \in {"pending", "retired"}, Droppable(d, W, A, st),
           NEW e, e = Drop(d, W, A, st)
    PROVE  StoreInv(e) /\ Quiet(d, e) /\ Carries(d, e)
<1>0. d \in Stores
  BY DEF StoreInv
<1>1. Dropped(d, e, W, A, st)
  BY <1>0, DropRows
<1> USE DEF Dropped
<1>2. \A w \in Wakes : WakeOK(e, w)
  <2> TAKE w \in Wakes
  <2>1. WakeOK(d, w)
    BY DEF StoreInv
  <2>2. CASE w \in W
    BY <1>1, <2>1, <2>2 DEF WakeOK, Droppable, PreFence, Bare
  <2>3. CASE w \notin W
    <3>1. d.wake[w].att \notin A \/ d.wake[w].st \in Bare
      BY <2>1, <2>3 DEF WakeOK, Droppable
    <3> QED BY <1>1, <2>1, <2>3, <3>1 DEF WakeOK
  <2> QED BY <2>2, <2>3
<1>3. \A a \in Attempts : AttemptOK(e, a)
  <2> TAKE a \in Attempts
  <2>1. AttemptOK(d, a) /\ d.att[a].wake \in 0..MaxWakes
    BY <1>0, Rows DEF StoreInv, AttemptRecords
  <2>2. CASE a \in A
    BY <1>1, <2>1, <2>2 DEF AttemptOK, Droppable
  <2>3. CASE a \notin A
    <3>1. d.att[a].st \notin {"unused", "revoked"} =>
             d.att[a].wake \in Wakes /\ d.att[a].wake \notin W
      BY <2>1, <2>3 DEF AttemptOK, Droppable, Wakes, Attempts
    <3> QED BY <1>1, <2>1, <2>3, <3>1 DEF AttemptOK
  <2> QED BY <2>2, <2>3
<1>4. OneTaskWake(e)
  BY <1>1 DEF StoreInv, OneTaskWake
<1>5. CarrierOK(e)
  BY <1>1 DEF StoreInv, CarrierOK
<1>6. \A a \in Attempts : AttemptKept(d, e, a)
  BY <1>1 DEF AttemptKept, Droppable, Crossed, Dispatched
<1>7. \A w \in Wakes : WakeKept(d, e, w) /\ OneWay(d, e, w)
  BY <1>1 DEF WakeKept, OneWay, Droppable, PreFence, Dispatched
<1>8. Quiet(d, e)
  <2>1. d.task.gen \in Nat
    BY <1>0, Rows DEF TaskRecords
  <2> QED BY <1>1, <1>6, <1>7, <2>1 DEF Quiet
<1>9. Carries(d, e)
  <2> SUFFICES ASSUME NEW w \in Wakes, d.wake[w].trig = "task", d.wake[w].st \in Crossed
               PROVE  e.task.carrier = d.task.carrier
    BY DEF Carries
  <2>1. \A v \in W : d.wake[v].trig # "task"
    <3> SUFFICES ASSUME NEW v \in W, d.wake[v].trig = "task" PROVE FALSE
      OBVIOUS
    <3>1. v = w
      BY DEF StoreInv, OneTaskWake
    <3> QED BY <3>1 DEF Droppable, PreFence, Crossed, Dispatched
  <2> QED BY <1>1, <2>1
<1> QED BY <1>1, <1>2, <1>3, <1>4, <1>5, <1>8, <1>9 DEF StoreInv

-----------------------------------------------------------------------------
(* Dispatches whose outcome nobody knows *)

Handed == {"prepared", "delivered"}

(* W was handed out, by the attempts A. *)
Uncertain(d, W, A) ==
    /\ \A w \in W : d.wake[w].st \in Handed /\ d.wake[w].att \in A
    /\ \A a \in A : d.att[a].st \in Handed /\ d.att[a].wake \in W

(* What MakeUnknown writes, row by row. *)
MadeUnknown(d, e, W, A) ==
    /\ e \in Stores /\ e.cur = d.cur /\ e.ep = d.ep /\ e.task = d.task
    /\ \A w \in W : /\ e.wake[w].st = "delivery_unknown"
                    /\ e.wake[w].att = d.wake[w].att /\ e.wake[w].gen = d.wake[w].gen
                    /\ e.wake[w].trig = d.wake[w].trig /\ e.wake[w].hw = d.wake[w].hw
    /\ \A w \in Wakes \ W : e.wake[w] = d.wake[w]
    /\ \A a \in A : /\ e.att[a].st = "delivery_unknown"
                    /\ e.att[a].wake = d.att[a].wake /\ e.att[a].gen = d.att[a].gen
                    /\ e.att[a].over = d.att[a].over
    /\ \A a \in Attempts \ A : e.att[a] = d.att[a]

(* MakeUnknown writes just these rows. *)
LEMMA UnknownRows ==
    ASSUME NEW d \in Stores, NEW W \in SUBSET Wakes, NEW A \in SUBSET Attempts
    PROVE  MadeUnknown(d, MakeUnknown(d, W, A), W, A)
<1> DEFINE e == MakeUnknown(d, W, A)
<1> DEFINE uw(w) == [d.wake[w] EXCEPT !.st = "delivery_unknown"]
           ua(a) == [d.att[a] EXCEPT !.st = "delivery_unknown"]
           wk == [w \in Wakes |-> IF w \in W THEN uw(w) ELSE d.wake[w]]
           at == [a \in Attempts |-> IF a \in A THEN ua(a) ELSE d.att[a]]
<1>1. \A w \in W : /\ uw(w) \in WakeRecords /\ uw(w).st = "delivery_unknown"
                   /\ uw(w).att = d.wake[w].att /\ uw(w).gen = d.wake[w].gen
                   /\ uw(w).trig = d.wake[w].trig /\ uw(w).hw = d.wake[w].hw
  <2> TAKE w \in W
  <2>1. d.wake[w] \in WakeRecords /\ "delivery_unknown" \in WakeStates
    BY Rows DEF WakeStates, Dispatched
  <2> QED BY <2>1 DEF WakeRecords
<1>2. \A a \in A : /\ ua(a) \in AttemptRecords /\ ua(a).st = "delivery_unknown"
                   /\ ua(a).wake = d.att[a].wake /\ ua(a).gen = d.att[a].gen
                   /\ ua(a).over = d.att[a].over
  <2> TAKE a \in A
  <2>1. d.att[a] \in AttemptRecords /\ "delivery_unknown" \in AttemptStates
    BY Rows DEF AttemptStates, Dispatched
  <2> QED BY <2>1 DEF AttemptRecords
<1> HIDE DEF uw, ua
<1>3. wk \in [Wakes -> WakeRecords]
  BY <1>1, Rows
<1>4. at \in [Attempts -> AttemptRecords]
  BY <1>2, Rows
<1>5. e = [d EXCEPT !.wake = wk, !.att = at]
  BY DEF MakeUnknown, uw, ua
<1> HIDE DEF e
<1>6. /\ e \in Stores /\ e.cur = d.cur /\ e.ep = d.ep /\ e.task = d.task
      /\ e.wake = wk /\ e.att = at
  <2> HIDE DEF wk, at
  <2> QED BY <1>3, <1>4, <1>5 DEF Stores
<1>7. MadeUnknown(d, e, W, A)
  BY <1>1, <1>2, <1>6 DEF MadeUnknown
<1> QED BY <1>7 DEF e

(* Marking dispatches uncertain keeps the store in order and disturbs no    *)
(* turn.                                                                   *)
LEMMA UnknownSafe ==
    ASSUME NEW d, StoreInv(d), NEW W \in SUBSET Wakes, NEW A \in SUBSET Attempts,
           Uncertain(d, W, A), NEW e, e = MakeUnknown(d, W, A)
    PROVE  StoreInv(e) /\ Quiet(d, e) /\ Carries(d, e)
<1>0. d \in Stores
  BY DEF StoreInv
<1>1. MadeUnknown(d, e, W, A)
  BY <1>0, UnknownRows
<1> USE DEF MadeUnknown
<1>2. \A w \in Wakes : WakeOK(e, w)
  <2> TAKE w \in Wakes
  <2>1. WakeOK(d, w)
    BY DEF StoreInv
  <2>2. CASE w \in W
    BY <1>1, <2>1, <2>2 DEF WakeOK, Uncertain, Bare, Handed
  <2>3. CASE w \notin W
    <3>1. d.wake[w].att \notin A \/ d.wake[w].st \in Bare
      BY <2>1, <2>3 DEF WakeOK, Uncertain
    <3> QED BY <1>1, <2>1, <2>3, <3>1 DEF WakeOK
  <2> QED BY <2>2, <2>3
<1>3. \A a \in Attempts : AttemptOK(e, a)
  <2> TAKE a \in Attempts
  <2>1. AttemptOK(d, a) /\ d.att[a].wake \in 0..MaxWakes
    BY <1>0, Rows DEF StoreInv, AttemptRecords
  <2>2. d.att[a].wake \in Wakes => e.wake[d.att[a].wake].att = d.wake[d.att[a].wake].att
    BY <1>1
  <2>3. CASE a \in A
    BY <1>1, <2>1, <2>2, <2>3 DEF AttemptOK, Uncertain, Handed, Wakes
  <2>4. CASE a \notin A
    BY <1>1, <2>1, <2>2, <2>4 DEF AttemptOK, Wakes
  <2> QED BY <2>3, <2>4
<1>4. OneTaskWake(e)
  BY <1>1 DEF StoreInv, OneTaskWake
<1>5. CarrierOK(e)
  BY <1>1 DEF StoreInv, CarrierOK
<1>6. \A a \in Attempts : AttemptKept(d, e, a)
  BY <1>1 DEF AttemptKept, Uncertain, Handed, Crossed, Dispatched
<1>7. \A w \in Wakes : WakeKept(d, e, w) /\ OneWay(d, e, w)
  BY <1>1 DEF WakeKept, OneWay, Uncertain, Handed, Dispatched
<1>8. Quiet(d, e)
  <2>1. d.task.gen \in Nat
    BY <1>0, Rows DEF TaskRecords
  <2> QED BY <1>1, <1>6, <1>7, <2>1 DEF Quiet
<1>9. Carries(d, e)
  BY <1>1 DEF Carries
<1> QED BY <1>1, <1>2, <1>3, <1>4, <1>5, <1>8, <1>9 DEF StoreInv

-----------------------------------------------------------------------------
(* The two tables name each other. *)
Linked(d) ==
    /\ \A w \in Wakes : d.wake[w].st \notin Bare =>
          /\ d.wake[w].att \in Attempts /\ d.att[d.wake[w].att].wake = w
          /\ d.att[d.wake[w].att].st = d.wake[w].st /\ d.att[d.wake[w].att].gen = d.wake[w].gen
    /\ \A a \in Attempts : d.att[a].st \notin {"unused", "revoked"} =>
          /\ d.att[a].wake \in Wakes /\ d.wake[d.att[a].wake].att = a
          /\ d.wake[d.att[a].wake].st = d.att[a].st /\ d.wake[d.att[a].wake].gen = d.att[a].gen
          /\ d.att[a].gen \in Gens

(* Every claim and every dispatch is found from its Wake and from its       *)
(* attempt.                                                                *)
LEMMA TablesLinked ==
    ASSUME NEW d, StoreInv(d)
    PROVE  Linked(d)
<1>0. d \in Stores
  BY DEF StoreInv
<1>1. \A w \in Wakes : d.wake[w].st \notin Bare =>
          /\ d.wake[w].att \in Attempts /\ d.att[d.wake[w].att].wake = w
          /\ d.att[d.wake[w].att].st = d.wake[w].st /\ d.att[d.wake[w].att].gen = d.wake[w].gen
          /\ d.wake[w].gen \in Gens
  BY DEF StoreInv, WakeOK
<1>2. ASSUME NEW a \in Attempts, d.att[a].st \notin {"unused", "revoked"}
      PROVE  /\ d.att[a].wake \in Wakes /\ d.wake[d.att[a].wake].att = a
             /\ d.wake[d.att[a].wake].st = d.att[a].st /\ d.wake[d.att[a].wake].gen = d.att[a].gen
             /\ d.att[a].gen \in Gens
  <2>1. AttemptOK(d, a) /\ d.att[a].wake \in 0..MaxWakes
    BY <1>0, Rows DEF StoreInv, AttemptRecords
  <2>2. d.att[a].wake \in Wakes /\ d.wake[d.att[a].wake].att = a
    BY <1>2, <2>1 DEF AttemptOK, Wakes
  <2>3. d.wake[d.att[a].wake].st \notin Bare
    BY <2>2 DEF StoreInv, WakeOK, Attempts
  <2> QED BY <1>1, <2>2, <2>3
<1> QED BY <1>1, <1>2 DEF Linked

-----------------------------------------------------------------------------
(* Endpoints that come, go and lose their Host *)

(* Changes of the Endpoint and task rows alone: the store stays in order if *)
(* the claims and the carrier still belong to the attached Endpoint.        *)
LEMMA RowsStand ==
    ASSUME NEW d, StoreInv(d), NEW e \in Stores, e.wake = d.wake, e.att = d.att,
           d.task.gen <= e.task.gen,
           e.task.st = d.task.st \/ (d.task.st = "active" /\ e.task.st = "stale"),
           \A a \in Attempts : d.att[a].st = "claimed" =>
               d.att[a].gen = e.cur /\ e.ep[e.cur].life = "attached" /\ e.ep[e.cur].capable,
           e.task.carrier # 0 =>
               /\ e.task.carrier = d.task.carrier /\ e.cur = d.cur
               /\ e.ep[e.cur].life = "attached"
    PROVE  StoreInv(e) /\ Quiet(d, e)
<1>1. \A w \in Wakes : WakeOK(e, w)
  BY DEF StoreInv, WakeOK
<1>2. \A a \in Attempts : AttemptOK(e, a)
  BY DEF StoreInv, AttemptOK
<1>3. OneTaskWake(e) /\ CarrierOK(e)
  BY DEF StoreInv, OneTaskWake, CarrierOK
<1>4. \A a \in Attempts : AttemptKept(d, e, a)
  BY DEF AttemptKept, Crossed, Dispatched
<1>5. \A w \in Wakes : WakeKept(d, e, w) /\ OneWay(d, e, w)
  BY DEF WakeKept, OneWay, Dispatched
<1> QED BY <1>1, <1>2, <1>3, <1>4, <1>5 DEF StoreInv, Quiet

(* What is left of generation g when it is lost. *)
Lost(d, e, g) ==
    /\ StoreInv(e) /\ Quiet(d, e) /\ e.cur = d.cur /\ e.ep = d.ep
    /\ e.task.st = d.task.st
    /\ e.task.carrier # 0 => e.task.carrier = d.task.carrier /\ e.task.carrier # g
    /\ \A a \in Attempts : e.att[a].st = "claimed" => e.att[a] = d.att[a] /\ d.att[a].gen # g
    /\ \A w \in Wakes :
          /\ e.wake[w].st = "pending" => \/ d.wake[w].st = "pending"
                                         \/ d.wake[w].st = "claimed" /\ d.wake[w].gen = g
          /\ e.wake[w].st = "claimed" => e.wake[w] = d.wake[w]
          /\ e.wake[w].st \in Dispatched <=> d.wake[w].st \in Dispatched

(* The loss of an Endpoint leaves it with no claim and no carrier, keeps    *)
(* the store in order, disturbs no turn and, with the fence, makes the turn *)
(* it may have started on the task stale.                                  *)
LEMMA LossSafe ==
    ASSUME NEW d, StoreInv(d), NEW g \in 0..MaxGen, NEW fence \in BOOLEAN,
           NEW e, e = ReconcileLoss(d, g, fence)
    PROVE  Lost(d, e, g) /\ (fence => Carries(d, e))
<1>0. d \in Stores /\ d.task \in TaskRecords
  BY Rows DEF StoreInv
<1> DEFINE n == IF fence /\ d.task.carrier = g /\ d.task.st = "active"
                THEN d.task.gen + 1 ELSE d.task.gen
           c == IF d.task.carrier = g THEN 0 ELSE d.task.carrier
           tk == [d.task EXCEPT !.gen = n, !.carrier = c]
           f == [d EXCEPT !.task = tk]
           W == WakesOf(f, g, {"claimed"})
           A == AttemptsOf(f, g, {"claimed"})
           m == Drop(f, W, A, "pending")
           V == WakesOf(f, g, Handed)
           B == AttemptsOf(f, g, Handed)
<1>1. tk \in TaskRecords /\ tk.st = d.task.st /\ tk.gen = n /\ tk.carrier = c
  <2>1. c \in 0..MaxGen /\ n \in Nat
    BY <1>0, BoundsAssumption DEF TaskRecords
  <2> HIDE DEF c, n
  <2> QED BY <1>0, <2>1 DEF TaskRecords
<1>2. f = [d EXCEPT !.task.gen = n, !.task.carrier = c]
  BY <1>0 DEF TaskRecords, Stores
<1>3. e = MakeUnknown(m, V, B)
  BY <1>2 DEF ReconcileLoss, Handed
<1>4. /\ f \in Stores /\ f.cur = d.cur /\ f.ep = d.ep /\ f.wake = d.wake /\ f.att = d.att
      /\ f.task = tk
  <2> HIDE DEF tk
  <2> QED BY <1>0, <1>1 DEF Stores
<1> HIDE DEF f, tk, m
<1>5. d.task.gen \in Nat /\ d.task.gen <= n
  BY <1>0 DEF TaskRecords
<1>6. StoreInv(f) /\ Quiet(d, f)
  <2>1. \A a \in Attempts : d.att[a].st = "claimed" =>
            d.att[a].gen = f.cur /\ f.ep[f.cur].life = "attached" /\ f.ep[f.cur].capable
    BY <1>4 DEF StoreInv, AttemptOK
  <2>2. f.task.carrier # 0 =>
            /\ f.task.carrier = d.task.carrier /\ f.cur = d.cur
            /\ f.ep[f.cur].life = "attached"
    BY <1>1, <1>4 DEF StoreInv, CarrierOK
  <2> QED BY <1>1, <1>4, <1>5, <2>1, <2>2, RowsStand
<1>7. fence => Carries(d, f)
  BY <1>1, <1>4, <1>5 DEF Carries
<1>8. Linked(f)
  BY <1>6, TablesLinked
<1>9. Droppable(f, W, A, "pending")
  BY <1>8 DEF Linked, Droppable, WakesOf, AttemptsOf, PreFence, Bare
<1>10. W \in SUBSET Wakes /\ A \in SUBSET Attempts /\ V \in SUBSET Wakes /\ B \in SUBSET Attempts
  BY DEF WakesOf, AttemptsOf
<1>11. StoreInv(m) /\ Quiet(f, m) /\ Carries(f, m) /\ Dropped(f, m, W, A, "pending")
  BY <1>4, <1>6, <1>9, <1>10, DropSafe, DropRows DEF m
<1>12. Uncertain(m, V, B)
  <2>1. \A w \in V : w \notin W /\ f.wake[w].st \in Handed /\ f.wake[w].att \in B
    BY <1>8 DEF Linked, WakesOf, AttemptsOf, Handed, Bare
  <2>2. \A a \in B : a \notin A /\ f.att[a].st \in Handed /\ f.att[a].wake \in V
    BY <1>8 DEF Linked, WakesOf, AttemptsOf, Handed
  <2> QED BY <1>10, <1>11, <2>1, <2>2 DEF Uncertain, Dropped
<1>13. StoreInv(e) /\ Quiet(m, e) /\ Carries(m, e) /\ MadeUnknown(m, e, V, B)
  BY <1>3, <1>10, <1>11, <1>12, UnknownSafe, UnknownRows DEF StoreInv
<1>14. Quiet(d, e)
  BY <1>0, <1>4, <1>6, <1>11, <1>13, QuietTrans DEF StoreInv
<1>15. fence => Carries(d, e)
  <2>1. Quiet(f, e) /\ Carries(f, e)
    BY <1>4, <1>11, <1>13, QuietTrans, CarriesTrans DEF StoreInv
  <2> QED BY <1>0, <1>4, <1>6, <1>7, <1>13, <2>1, CarriesTrans DEF StoreInv
<1>16. \A a \in Attempts : e.att[a].st = "claimed" => e.att[a] = d.att[a] /\ d.att[a].gen # g
  BY <1>4, <1>11, <1>13 DEF Dropped, MadeUnknown, AttemptsOf
<1>17. \A w \in Wakes :
          /\ e.wake[w].st = "pending" => \/ d.wake[w].st = "pending"
                                         \/ d.wake[w].st = "claimed" /\ d.wake[w].gen = g
          /\ e.wake[w].st = "claimed" => e.wake[w] = d.wake[w]
          /\ e.wake[w].st \in Dispatched <=> d.wake[w].st \in Dispatched
  BY <1>4, <1>10, <1>11, <1>13 DEF Dropped, MadeUnknown, WakesOf, Handed, Dispatched
<1>18. /\ e.cur = d.cur /\ e.ep = d.ep /\ e.task.st = d.task.st
       /\ e.task.carrier # 0 => e.task.carrier = d.task.carrier /\ e.task.carrier # g
  BY <1>1, <1>4, <1>11, <1>13 DEF Dropped, MadeUnknown
<1> QED BY <1>13, <1>14, <1>15, <1>16, <1>17, <1>18 DEF Lost

(* Only the row of Endpoint g changed, to x. *)
EpWritten(d, e, g, x) ==
    /\ e \in Stores /\ e.cur = d.cur /\ e.wake = d.wake /\ e.att = d.att /\ e.task = d.task
    /\ e.ep[g] = x /\ \A h \in Gens \ {g} : e.ep[h] = d.ep[h]

(* Writing one Endpoint row. *)
LEMMA EpWrite ==
    ASSUME NEW d \in Stores, NEW g \in Gens, NEW x \in EpRecords
    PROVE  EpWritten(d, [d EXCEPT !.ep[g] = x], g, x)
<1> DEFINE y == [d.ep EXCEPT ![g] = x]
           e == [d EXCEPT !.ep = y]
<1>1. y \in [Gens -> EpRecords] /\ y[g] = x /\ \A h \in Gens \ {g} : y[h] = d.ep[h]
  BY Rows
<1>2. e \in Stores /\ e.cur = d.cur /\ e.wake = d.wake /\ e.att = d.att /\ e.task = d.task /\ e.ep = y
  <2> HIDE DEF y
  <2> QED BY <1>1 DEF Stores
<1>3. e = [d EXCEPT !.ep[g] = x]
  BY Rows DEF Stores
<1> QED BY <1>1, <1>2, <1>3 DEF EpWritten

(* Generation g is the new Endpoint, and has no Host yet. *)
Renewed(d, e, g) ==
    StoreInv(e) /\ Quiet(d, e) /\ Carries(d, e) /\ e.cur = g /\ ~e.ep[g].capable

(* A new Endpoint takes over a store in which nobody holds a claim or       *)
(* carries the task.                                                       *)
LEMMA FreshSafe ==
    ASSUME NEW q, StoreInv(q), \A a \in Attempts : q.att[a].st # "claimed", q.task.carrier = 0,
           NEW g \in Gens, NEW keep \in BOOLEAN
    PROVE  Renewed(q, Fresh(Expired(q), g, keep), g) /\
           Fresh(Expired(q), g, keep).ep[g].window = keep
<1> DEFINE e == Fresh(Expired(q), g, keep)
<1>0. q \in Stores /\ q.ep \in [Gens -> EpRecords]
  BY Rows DEF StoreInv
<1> DEFINE x(h) == [q.ep[h] EXCEPT !.life = IF @ = "attached" THEN "expired" ELSE @]
           ex == [h \in Gens |-> x(h)]
           p == Expired(q)
           new == [life |-> "attached", lapsed |-> FALSE, capable |-> FALSE, window |-> keep]
           old(h) == [life |-> p.ep[h].life, lapsed |-> TRUE, capable |-> FALSE, window |-> FALSE]
           ey == [h \in Gens |-> IF h = g THEN new ELSE IF h < g THEN old(h) ELSE p.ep[h]]
<1>1. \A h \in Gens : x(h) \in EpRecords
  BY <1>0 DEF EpRecords
<1>2. p = [q EXCEPT !.ep = ex]
  BY DEF Expired
<1>3. /\ p \in Stores /\ p.cur = q.cur /\ p.wake = q.wake /\ p.att = q.att /\ p.task = q.task
      /\ p.ep = ex
  <2> HIDE DEF x, p
  <2>1. ex \in [Gens -> EpRecords]
    BY <1>1
  <2> HIDE DEF ex
  <2> QED BY <1>0, <1>2, <2>1 DEF Stores
<1>4. \A h \in Gens : p.ep[h] \in EpRecords
  BY <1>3, Rows
<1>5. e = [p EXCEPT !.cur = g, !.ep = ey]
  BY DEF Fresh
<1> HIDE DEF p, e
<1>6. new \in EpRecords /\ \A h \in Gens : old(h) \in EpRecords
  BY <1>4 DEF EpRecords
<1> HIDE DEF old
<1>7. ey \in [Gens -> EpRecords] /\ ey[g] = new
  BY <1>4, <1>6
<1>8. /\ e \in Stores /\ e.cur = g /\ e.wake = q.wake /\ e.att = q.att /\ e.task = q.task
      /\ e.ep = ey
  <2>1. g \in 0..MaxGen
    BY DEF Gens
  <2> HIDE DEF ey
  <2> QED BY <1>3, <1>5, <1>7, <2>1 DEF Stores
<1>9. q.task.gen \in Nat
  BY <1>0, Rows DEF TaskRecords
<1>10. StoreInv(e) /\ Quiet(q, e)
  BY <1>8, <1>9, RowsStand
<1> QED BY <1>7, <1>8, <1>10 DEF Carries, Renewed, e

(* Nobody holds a claim or carries the task. *)
Idled(d) == (\A a \in Attempts : d.att[a].st # "claimed") /\ d.task.carrier = 0

(* The generations of claims and of the carrier are attached ones. *)
LEMMA HeldByCurrent ==
    ASSUME NEW d, StoreInv(d), ~Idled(d)
    PROVE  d.cur \in Gens /\ d.ep[d.cur].life = "attached"
<1>0. d \in Stores
  BY DEF StoreInv
<1>1. CASE d.task.carrier # 0
  BY <1>0, <1>1, Rows DEF StoreInv, CarrierOK, TaskRecords, Gens
<1>2. ASSUME NEW a \in Attempts, d.att[a].st = "claimed"
      PROVE  d.cur \in Gens /\ d.ep[d.cur].life = "attached"
  BY <1>2, TablesLinked DEF Linked, StoreInv, AttemptOK
<1> QED BY <1>1, <1>2 DEF Idled

(* The loss of the current Endpoint leaves nobody with a claim. *)
LEMMA LossOfCurrent ==
    ASSUME NEW d, StoreInv(d), NEW e, Lost(d, e, d.cur)
    PROVE  Idled(e)
<1>1. \A a \in Attempts : e.att[a].st # "claimed"
  <2> SUFFICES ASSUME NEW a \in Attempts, e.att[a].st = "claimed" PROVE FALSE
    OBVIOUS
  <2> QED BY DEF Lost, StoreInv, AttemptOK
<1>2. e.task.carrier = 0
  BY DEF Lost, StoreInv, CarrierOK
<1> QED BY <1>1, <1>2 DEF Idled

(* An attach replaces the current Endpoint. *)
LEMMA AttachSafe ==
    ASSUME NEW d, StoreInv(d), NEW g \in Gens, NEW e, e = Fresh(Replaced(d), g, FALSE)
    PROVE  Renewed(d, e, g) /\ ~e.ep[g].window
<1> DEFINE q == IF AttachedNow(d) = {} THEN d ELSE ReconcileLoss(d, d.cur, TRUE)
<1>0. d \in Stores /\ d.cur \in 0..MaxGen /\ d.task.gen \in Nat
  BY Rows DEF StoreInv, TaskRecords
<1>1. StoreInv(q) /\ Quiet(d, q) /\ Carries(d, q) /\ Idled(q)
  <2>1. CASE AttachedNow(d) = {}
    <3>1. Idled(d)
      BY <2>1, HeldByCurrent DEF AttachedNow
    <3>2. Quiet(d, d) /\ Carries(d, d)
      BY <1>0 DEF Quiet, Carries, AttemptKept, WakeKept, OneWay, Crossed, Dispatched
    <3> QED BY <2>1, <3>1, <3>2
  <2>2. CASE AttachedNow(d) # {}
    <3>1. Lost(d, q, d.cur) /\ Carries(d, q)
      BY <1>0, <2>2, LossSafe
    <3> QED BY <3>1, LossOfCurrent DEF Lost
  <2> QED BY <2>1, <2>2
<1>2. e = Fresh(Expired(q), g, FALSE)
  BY DEF Replaced
<1> HIDE DEF q
<1>3. Renewed(q, e, g) /\ e.ep[g].window = FALSE
  BY <1>1, <1>2, FreshSafe, Zenon DEF Idled
<1> QED BY <1>0, <1>1, <1>3, QuietTrans, CarriesTrans DEF StoreInv, Renewed

(* The recovery of an Endpoint that ran out. *)
LEMMA RecoverySafe ==
    ASSUME NEW d, StoreInv(d), NEW g \in Gens, NEW e,
           e = Fresh(Expired(ReconcileLoss(d, d.cur, TRUE)), g, TRUE)
    PROVE  Renewed(d, e, g)
<1> DEFINE q == ReconcileLoss(d, d.cur, TRUE)
<1>0. d \in Stores /\ d.cur \in 0..MaxGen
  BY Rows DEF StoreInv
<1>1. Lost(d, q, d.cur) /\ Carries(d, q)
  BY <1>0, LossSafe
<1> HIDE DEF q
<1>2. StoreInv(q) /\ Quiet(d, q) /\ Idled(q)
  BY <1>1, LossOfCurrent DEF Lost
<1>3. Renewed(q, e, g)
  <2>1. e = Fresh(Expired(q), g, TRUE)
    BY DEF q
  <2> QED BY <1>2, <2>1, FreshSafe, Zenon DEF Idled
<1> QED BY <1>0, <1>1, <1>2, <1>3, QuietTrans, CarriesTrans DEF StoreInv, Renewed

(* A step of the store that disturbs no turn and keeps the task's carrier.  *)
Safe(d, e) == StoreInv(e) /\ Quiet(d, e) /\ Carries(d, e)

(* Such steps compose ... *)
LEMMA SafeTrans ==
    ASSUME NEW d, NEW e, NEW f, StoreInv(d), Safe(d, e), Safe(e, f)
    PROVE  Safe(d, f)
BY QuietTrans, CarriesTrans DEF Safe, StoreInv

(* ... and doing nothing is one. *)
LEMMA SafeStutter ==
    ASSUME NEW d, StoreInv(d)
    PROVE  Safe(d, d)
<1>1. d.task.gen \in Nat
  BY Rows DEF StoreInv, TaskRecords
<1> QED BY <1>1 DEF Safe, Quiet, Carries, AttemptKept, WakeKept, OneWay, Crossed, Dispatched

(* An Endpoint row may change unless its Endpoint holds a claim or carries  *)
(* the task and would lose its attachment or its Host.                     *)
LEMMA EpWriteSafe ==
    ASSUME NEW d, StoreInv(d), NEW g \in Gens, NEW x \in EpRecords, NEW e,
           EpWritten(d, e, g, x),
           g = d.cur => \/ Idled(d)
                        \/ x.life = d.ep[g].life /\ (d.ep[g].capable => x.capable)
    PROVE  Safe(d, e)
<1>1. d \in Stores /\ e \in Stores /\ d.task.gen \in Nat
  BY Rows DEF StoreInv, EpWritten, TaskRecords
<1>2. ~Idled(d) => /\ d.cur \in Gens /\ d.ep[d.cur].life = "attached"
                   /\ e.ep[d.cur].life = "attached"
                   /\ d.ep[d.cur].capable => e.ep[d.cur].capable
  BY HeldByCurrent DEF EpWritten
<1>3. \A a \in Attempts : d.att[a].st = "claimed" =>
          d.att[a].gen = e.cur /\ e.ep[e.cur].life = "attached" /\ e.ep[e.cur].capable
  BY <1>2 DEF StoreInv, AttemptOK, Idled, EpWritten
<1>4. e.task.carrier # 0 => e.task.carrier = d.task.carrier /\ e.cur = d.cur
                            /\ e.ep[e.cur].life = "attached"
  BY <1>2 DEF Idled, EpWritten
<1>5. StoreInv(e) /\ Quiet(d, e)
  BY <1>1, <1>3, <1>4, RowsStand DEF EpWritten
<1>6. Carries(d, e)
  BY DEF Carries, EpWritten
<1> QED BY <1>5, <1>6 DEF Safe

(* A detach, of whatever Endpoint and however often. *)
LEMMA DetachSafe ==
    ASSUME NEW d, StoreInv(d), NEW g \in Gens, NEW e, e = Detached(d, g)
    PROVE  /\ Safe(d, e) /\ e.cur = d.cur /\ e.ep[g].life = "detached"
           /\ e.ep[g].capable => d.ep[g].capable
           /\ e.ep[g].window => d.ep[g].window
           /\ \A h \in Gens \ {g} : e.ep[h] = d.ep[h]
           /\ e = d \/ \E r : Lost(d, r, g) /\ e.wake = r.wake /\ e.att = r.att /\ e.task = r.task
<1>1. CASE d.ep[g].life = "detached"
  BY <1>1, SafeStutter DEF Detached
<1>2. CASE d.ep[g].life # "detached"
  <2> DEFINE r == ReconcileLoss(d, g, TRUE)
             x == [life |-> "detached", lapsed |-> TRUE, capable |-> FALSE, window |-> FALSE]
  <2>1. g \in 0..MaxGen
    BY DEF Gens
  <2>2. Lost(d, r, g) /\ Carries(d, r)
    BY <2>1, LossSafe
  <2>3. e = [r EXCEPT !.ep[g] = x]
    BY <1>2 DEF Detached
  <2>4. x \in EpRecords
    BY DEF EpRecords
  <2> HIDE DEF r, x
  <2>5. EpWritten(r, e, g, x)
    BY <2>2, <2>3, <2>4, EpWrite DEF Lost, StoreInv
  <2>6. g = r.cur => Idled(r)
    BY <2>2, LossOfCurrent DEF Lost
  <2>7. Safe(r, e)
    BY <2>2, <2>4, <2>5, <2>6, EpWriteSafe DEF Lost
  <2>8. Safe(d, e)
    BY <2>2, <2>7, SafeTrans DEF Safe, Lost
  <2> QED BY <2>2, <2>5, <2>8 DEF Lost, EpWritten, x
<1> QED BY <1>1, <1>2

(* What withdrawing the Host of generation g leaves. *)
Withdrawn(d, e, g) ==
    /\ StoreInv(e) /\ Quiet(d, e) /\ e.cur = d.cur
    /\ e.ep[g].life = d.ep[g].life /\ e.ep[g].lapsed = d.ep[g].lapsed /\ ~e.ep[g].capable
    /\ \A h \in Gens \ {g} : e.ep[h] = d.ep[h]
    /\ e.task.st = d.task.st
    /\ e.task.carrier # 0 => e.task.carrier = d.task.carrier
    /\ g = d.cur => \A a \in Attempts : e.att[a].st # "claimed"

(* Withdrawing a Host disturbs no turn, but may clear the carrier row. *)
LEMMA WithdrawSafe ==
    ASSUME NEW d, StoreInv(d), NEW g \in Gens
    PROVE  Withdrawn(d, Withdraw(d, g), g)
<1> DEFINE r == IF d.ep[g].capable THEN ReconcileLoss(d, g, FALSE) ELSE d
           x == [r.ep[g] EXCEPT !.capable = FALSE]
           e == Withdraw(d, g)
<1>1. /\ StoreInv(r) /\ Quiet(d, r) /\ r.cur = d.cur /\ r.ep = d.ep /\ r.task.st = d.task.st
      /\ r.task.carrier # 0 => r.task.carrier = d.task.carrier
      /\ g = d.cur => \A a \in Attempts : r.att[a].st # "claimed"
  <2>1. CASE d.ep[g].capable
    <3>1. g \in 0..MaxGen
      BY DEF Gens
    <3>2. r = ReconcileLoss(d, g, FALSE)
      BY <2>1
    <3>3. Lost(d, r, g)
      BY <3>1, <3>2, LossSafe
    <3>4. g = d.cur => Idled(r)
      BY <3>3, LossOfCurrent
    <3> QED BY <3>3, <3>4 DEF Lost, Idled
  <2>2. CASE ~d.ep[g].capable
    <3>1. r = d
      BY <2>2
    <3>2. Quiet(d, d)
      BY SafeStutter DEF Safe
    <3>3. g = d.cur => \A a \in Attempts : d.att[a].st # "claimed"
      BY <2>2 DEF StoreInv, AttemptOK
    <3> QED BY <3>1, <3>2, <3>3
  <2> QED BY <2>1, <2>2
<1>2. r \in Stores /\ r.ep[g] \in EpRecords
  BY <1>1, Rows DEF StoreInv
<1>3. e = [r EXCEPT !.ep[g].capable = FALSE]
  BY DEF Withdraw
<1> HIDE DEF r, e
<1>4. e = [r EXCEPT !.ep[g] = x]
  BY <1>2, <1>3 DEF Stores
<1>5. /\ x \in EpRecords /\ x.life = r.ep[g].life /\ x.lapsed = r.ep[g].lapsed
      /\ x.capable = FALSE
  BY <1>2 DEF EpRecords
<1> HIDE DEF x
<1>6. EpWritten(r, e, g, x)
  BY <1>2, <1>4, <1>5, EpWrite
<1>7. StoreInv(e) /\ Quiet(r, e)
  <2>1. r.task.gen \in Nat
    BY <1>2, Rows DEF TaskRecords
  <2>2. \A a \in Attempts : r.att[a].st = "claimed" =>
            r.att[a].gen = e.cur /\ e.ep[e.cur].life = "attached" /\ e.ep[e.cur].capable
    <3> SUFFICES ASSUME NEW a \in Attempts, r.att[a].st = "claimed"
                 PROVE  r.att[a].gen = e.cur /\ e.ep[e.cur].life = "attached"
                        /\ e.ep[e.cur].capable
      OBVIOUS
    <3>1. r.cur \in Gens /\ r.cur # g
      BY <1>1, HeldByCurrent DEF Idled
    <3> QED BY <1>1, <1>6, <3>1 DEF EpWritten, StoreInv, AttemptOK
  <2>3. e.task.carrier # 0 => e.task.carrier = r.task.carrier /\ e.cur = r.cur
                              /\ e.ep[e.cur].life = "attached"
    <3>1. r.task.carrier # 0 => r.cur \in Gens /\ r.ep[r.cur].life = "attached"
      BY <1>1, HeldByCurrent DEF Idled
    <3> QED BY <1>1, <1>5, <1>6, <3>1 DEF EpWritten
  <2> QED BY <1>1, <1>6, <2>1, <2>2, <2>3, RowsStand DEF EpWritten
<1>8. Quiet(d, e)
  BY <1>1, <1>7, QuietTrans DEF StoreInv
<1>9. Withdrawn(d, e, g)
  BY <1>1, <1>5, <1>6, <1>7, <1>8 DEF Withdrawn, EpWritten
<1> QED BY <1>9 DEF e

-----------------------------------------------------------------------------
(* What the claim and the task operations do before they look for a Wake *)

(* Task Wakes end before the fence. *)
LEMMA RetireSafe ==
    ASSUME NEW d, StoreInv(d), NEW W \in SUBSET PreFenceTaskWakes(d)
    PROVE  /\ Safe(d, Retire(d, W))
           /\ Dropped(d, Retire(d, W), W,
                      {a \in Attempts : d.att[a].wake \in W /\ d.att[a].st = "claimed"}, "retired")
<1> DEFINE A == {a \in Attempts : d.att[a].wake \in W /\ d.att[a].st = "claimed"}
<1>1. W \in SUBSET Wakes /\ A \in SUBSET Attempts /\ d \in Stores
  BY DEF PreFenceTaskWakes, StoreInv
<1>2. Droppable(d, W, A, "retired")
  <2>1. Linked(d) /\ \A w \in Wakes : d.wake[w].st \in Bare => d.wake[w].att = 0
    BY TablesLinked DEF StoreInv, WakeOK
  <2> QED BY <2>1 DEF Linked, Droppable, PreFenceTaskWakes, PreFence, Bare
<1> QED BY <1>1, <1>2, DropSafe, DropRows DEF Retire, Safe

ExpiredClaims(d) == {w \in Wakes : d.wake[w].st = "claimed" /\ d.att[d.wake[w].att].over}
ExpiredAttempts(d) == {a \in Attempts : d.att[a].st = "claimed" /\ d.att[a].over}

(* Claims whose lease ran out are given back. *)
LEMMA ReleaseExpiredSafe ==
    ASSUME NEW d, StoreInv(d)
    PROVE  /\ Safe(d, ReleaseExpiredClaims(d))
           /\ Dropped(d, ReleaseExpiredClaims(d), ExpiredClaims(d), ExpiredAttempts(d), "pending")
<1>1. /\ ExpiredClaims(d) \in SUBSET Wakes /\ ExpiredAttempts(d) \in SUBSET Attempts
      /\ d \in Stores
  BY DEF ExpiredClaims, ExpiredAttempts, StoreInv
<1>2. Droppable(d, ExpiredClaims(d), ExpiredAttempts(d), "pending")
  <2>1. Linked(d)
    BY TablesLinked
  <2> QED BY <2>1 DEF Linked, Droppable, ExpiredClaims, ExpiredAttempts, PreFence, Bare
<1>3. ReleaseExpiredClaims(d) = Drop(d, ExpiredClaims(d), ExpiredAttempts(d), "pending")
  BY DEF ReleaseExpiredClaims, ExpiredClaims, ExpiredAttempts
<1> QED BY <1>1, <1>2, <1>3, DropSafe, DropRows DEF Safe

(* What the sweep before a claim leaves: the ready Wakes are the pending    *)
(* ones, and the claims left have not run out.                             *)
SweptTo(d, e) ==
    /\ Safe(d, e) /\ e.cur = d.cur /\ e.ep = d.ep /\ e.task.st = d.task.st
    /\ \A w \in Wakes : /\ e.wake[w].st = "pending" <=> w \in Ready(d)
                        /\ e.wake[w].st = "claimed" => e.wake[w] = d.wake[w]
                        /\ e.wake[w].st \in Dispatched <=> d.wake[w].st \in Dispatched
                        /\ e.wake[w].trig = d.wake[w].trig
    /\ \A a \in Attempts : /\ e.att[a].st = "claimed" => e.att[a] = d.att[a] /\ ~d.att[a].over
                           /\ e.att[a].st = "unused" <=> d.att[a].st = "unused"

(* The sweep is safe and does just this. *)
LEMMA SweepSafe ==
    ASSUME NEW d, StoreInv(d)
    PROVE  SweptTo(d, Swept(d))
<1> DEFINE m == ReleaseExpiredClaims(d)
           W == PreFenceTaskWakes(m)
           A == {a \in Attempts : m.att[a].wake \in W /\ m.att[a].st = "claimed"}
           e == Swept(d)
<1>1. Safe(d, m) /\ Dropped(d, m, ExpiredClaims(d), ExpiredAttempts(d), "pending")
  BY ReleaseExpiredSafe
<1>2. e = IF m.task.st = "active" THEN m ELSE Retire(m, W)
  BY DEF Swept, RetireStaleTaskWakes
<1> HIDE DEF m, e
<1>3. Linked(d)
  BY TablesLinked
<1>4. CASE m.task.st = "active"
  <2>1. e = m /\ d.task.st = "active"
    BY <1>1, <1>2, <1>4 DEF Dropped
  <2>2. \A w \in Wakes : /\ e.wake[w].st = "pending" <=> w \in Ready(d)
                         /\ e.wake[w].st = "claimed" => e.wake[w] = d.wake[w]
                         /\ e.wake[w].st \in Dispatched <=> d.wake[w].st \in Dispatched
                         /\ e.wake[w].trig = d.wake[w].trig
    BY <1>1, <2>1 DEF Dropped, Ready, ExpiredClaims, Dispatched
  <2>3. \A a \in Attempts : /\ e.att[a].st = "claimed" => e.att[a] = d.att[a] /\ ~d.att[a].over
                            /\ e.att[a].st = "unused" <=> d.att[a].st = "unused"
    BY <1>1, <2>1 DEF Dropped, ExpiredAttempts
  <2>4. SweptTo(d, e)
    BY <1>1, <2>1, <2>2, <2>3 DEF SweptTo, Dropped
  <2> QED BY <2>4 DEF e
<1>5. CASE m.task.st # "active"
  <2>1. e = Retire(m, W) /\ d.task.st # "active"
    BY <1>1, <1>2, <1>5 DEF Dropped
  <2>2. Safe(m, e) /\ Dropped(m, e, W, A, "retired")
    BY <1>1, <2>1, RetireSafe DEF Safe
  <2>3. Safe(d, e)
    BY <1>1, <2>2, SafeTrans
  <2>4. \A w \in Wakes : w \in W <=> /\ d.wake[w].trig = "task"
                                     /\ d.wake[w].st \in PreFence
    BY <1>1 DEF Dropped, PreFenceTaskWakes, ExpiredClaims, PreFence
  <2>5. \A w \in Wakes : /\ e.wake[w].st = "pending" <=> w \in Ready(d)
                         /\ e.wake[w].st = "claimed" => e.wake[w] = d.wake[w]
                         /\ e.wake[w].st \in Dispatched <=> d.wake[w].st \in Dispatched
                         /\ e.wake[w].trig = d.wake[w].trig
    <3> TAKE w \in Wakes
    <3>1. CASE w \in W
      BY <1>1, <2>1, <2>2, <2>4, <3>1 DEF Dropped, Ready, ExpiredClaims, PreFence, Dispatched
    <3>2. CASE w \notin W
      BY <1>1, <2>1, <2>2, <2>4, <3>2 DEF Dropped, Ready, ExpiredClaims, PreFence, Dispatched
    <3> QED BY <3>1, <3>2
  <2>6. \A a \in Attempts : /\ e.att[a].st = "claimed" => e.att[a] = d.att[a] /\ ~d.att[a].over
                            /\ e.att[a].st = "unused" <=> d.att[a].st = "unused"
    BY <1>1, <2>2 DEF Dropped, ExpiredAttempts
  <2>7. SweptTo(d, e)
    BY <1>1, <2>2, <2>3, <2>5, <2>6 DEF SweptTo, Dropped
  <2> QED BY <2>7 DEF e
<1> QED BY <1>4, <1>5

(* A claim can be made exactly when there is an opportunity. *)
LEMMA ClaimableIffOpportunity ==
    ASSUME NEW d, StoreInv(d)
    PROVE  /\ Claimable(d) # {} <=> Opportunity(d)
           /\ Claimable(d) \subseteq Ready(d)
<1>1. SweptTo(d, Swept(d))
  BY SweepSafe
<1>2. Pending(Swept(d)) = Ready(d)
  BY <1>1 DEF SweptTo, Pending, Ready
<1>3. Blocked(Swept(d)) <=> Blocked(d)
  BY <1>1 DEF SweptTo, Blocked
<1>4. Ready(d) \in SUBSET Nat
  BY DEF Ready, Wakes
<1>5. Ready(d) # {} => \E w \in Ready(d) : \A v \in Ready(d) : w <= v
  BY <1>4, OldestIsLeast
<1> QED BY <1>2, <1>3, <1>5 DEF Claimable, Opportunity

-----------------------------------------------------------------------------
(* Claims *)

(* Attempt a of Wake w was created in state st, for generation g. *)
Attempted(d, e, a, w, g, st) ==
    /\ e \in Stores /\ e.cur = d.cur /\ e.ep = d.ep /\ e.task = d.task
    /\ e.wake[w].st = st /\ e.wake[w].att = a /\ e.wake[w].gen = g
    /\ e.wake[w].trig = d.wake[w].trig /\ e.wake[w].hw = d.wake[w].hw
    /\ \A v \in Wakes \ {w} : e.wake[v] = d.wake[v]
    /\ e.att[a].st = st /\ e.att[a].wake = w /\ e.att[a].gen = g /\ ~e.att[a].over
    /\ \A b \in Attempts \ {a} : e.att[b] = d.att[b]

Kinds == {"push", "app", "explicit"}

(* NewAttempt writes just these rows. *)
LEMMA AttemptRows ==
    ASSUME NEW d \in Stores, NEW a \in Attempts, NEW w \in Wakes, NEW g \in Gens,
           NEW kind \in Kinds, NEW st \in {"claimed", "delivered"}
    PROVE  Attempted(d, NewAttempt(d, a, w, g, kind, st), a, w, g, st)
<1> DEFINE x == [st |-> st, wake |-> w, gen |-> g, kind |-> kind, over |-> FALSE]
           y == [d.wake[w] EXCEPT !.st = st, !.att = a, !.gen = g]
           at == [d.att EXCEPT ![a] = x]
           wk == [d.wake EXCEPT ![w] = y]
           e == NewAttempt(d, a, w, g, kind, st)
<1>0. a \in 0..MaxAttempts /\ w \in 0..MaxWakes /\ g \in 0..MaxGen
  BY DEF Attempts, Wakes, Gens
<1>1. x \in AttemptRecords /\ x.st = st /\ x.wake = w /\ x.gen = g /\ ~x.over
  BY <1>0 DEF AttemptRecords, AttemptStates, Dispatched, Kinds
<1>2. /\ y \in WakeRecords /\ y.st = st /\ y.att = a /\ y.gen = g
      /\ y.trig = d.wake[w].trig /\ y.hw = d.wake[w].hw
  <2>1. d.wake[w] \in WakeRecords /\ st \in WakeStates
    BY Rows DEF WakeStates, PreFence, Dispatched
  <2> QED BY <1>0, <2>1 DEF WakeRecords
<1>3. e = [d EXCEPT !.att = at, !.wake = wk]
  <2>1. d.wake \in [Wakes -> WakeRecords] /\ d.wake[w] \in WakeRecords
    BY Rows
  <2>2. [d.wake EXCEPT ![w].st = st, ![w].att = a, ![w].gen = g] = wk
    BY <2>1 DEF WakeRecords
  <2>3. e = [d EXCEPT !.att = at,
                      !.wake = [d.wake EXCEPT ![w].st = st, ![w].att = a, ![w].gen = g]]
    BY DEF NewAttempt, Stores
  <2> QED BY <2>2, <2>3
<1> HIDE DEF x, y, e
<1>4. at \in [Attempts -> AttemptRecords] /\ at[a] = x /\ \A b \in Attempts \ {a} : at[b] = d.att[b]
  BY <1>1, Rows
<1>5. wk \in [Wakes -> WakeRecords] /\ wk[w] = y /\ \A v \in Wakes \ {w} : wk[v] = d.wake[v]
  BY <1>2, Rows
<1>6. /\ e \in Stores /\ e.cur = d.cur /\ e.ep = d.ep /\ e.task = d.task
      /\ e.wake = wk /\ e.att = at
  <2> HIDE DEF wk, at
  <2> QED BY <1>3, <1>4, <1>5 DEF Stores
<1>7. Attempted(d, e, a, w, g, st)
  BY <1>1, <1>2, <1>4, <1>5, <1>6 DEF Attempted
<1> QED BY <1>7 DEF e

(* A pending Wake and an unused attempt may be joined. *)
LEMMA AttemptInv ==
    ASSUME NEW d, StoreInv(d), NEW a \in Attempts, NEW w \in Wakes, NEW g \in Gens,
           NEW st \in {"claimed", "delivered"}, NEW e, Attempted(d, e, a, w, g, st),
           d.wake[w].st = "pending", d.att[a].st = "unused",
           st = "claimed" => g = d.cur /\ d.ep[d.cur].life = "attached" /\ d.ep[d.cur].capable
    PROVE  /\ StoreInv(e)
           /\ \A v \in Wakes : WakeKept(d, e, v) /\ OneWay(d, e, v)
           /\ \A b \in Attempts \ {a} : AttemptKept(d, e, b)
<1> USE DEF Attempted
<1>0. d \in Stores /\ Linked(d)
  BY TablesLinked DEF StoreInv
<1>1. \A v \in Wakes : WakeOK(e, v)
  <2> TAKE v \in Wakes
  <2>1. WakeOK(d, v)
    BY DEF StoreInv
  <2>2. CASE v = w
    BY <2>1, <2>2 DEF WakeOK, Bare
  <2>3. CASE v # w
    <3>1. d.wake[v].st \in WakeStates
      BY <1>0, Rows DEF WakeRecords
    <3>2. d.wake[v].att # a \/ d.wake[v].st \in Bare
      BY <1>0, <3>1 DEF Linked, Bare, WakeStates, PreFence, Dispatched
    <3> QED BY <2>1, <2>3, <3>2 DEF WakeOK
  <2> QED BY <2>2, <2>3
<1>2. \A b \in Attempts : AttemptOK(e, b)
  <2> TAKE b \in Attempts
  <2>1. AttemptOK(d, b)
    BY DEF StoreInv
  <2>2. CASE b = a
    BY <2>2 DEF AttemptOK, Wakes
  <2>3. CASE b # a
    <3>1. d.att[b].st \in AttemptStates
      BY <1>0, Rows DEF AttemptRecords
    <3>2. d.att[b].st \notin {"unused", "revoked"} => d.att[b].wake \in Wakes \ {w}
      BY <1>0, <3>1 DEF Linked, AttemptStates, Dispatched
    <3> QED BY <2>1, <2>3, <3>2 DEF AttemptOK
  <2> QED BY <2>2, <2>3
<1>3. OneTaskWake(e)
  BY DEF StoreInv, OneTaskWake
<1>4. CarrierOK(e)
  <2> SUFFICES ASSUME d.task.carrier # 0 PROVE CarrierOK(e)
    BY DEF CarrierOK
  <2>1. PICK v \in Wakes : /\ d.wake[v].trig = "task" /\ d.wake[v].gen = d.task.carrier
                           /\ d.wake[v].st \notin {"pending", "retired"}
    BY DEF StoreInv, CarrierOK
  <2>2. e.wake[v] = d.wake[v]
    BY <2>1
  <2> QED BY <2>1, <2>2 DEF StoreInv, CarrierOK
<1>5. \A v \in Wakes : WakeKept(d, e, v) /\ OneWay(d, e, v)
  BY DEF WakeKept, OneWay, Dispatched
<1>6. \A b \in Attempts \ {a} : AttemptKept(d, e, b)
  BY DEF AttemptKept, Crossed, Dispatched
<1> QED BY <1>1, <1>2, <1>3, <1>4, <1>5, <1>6 DEF StoreInv

(* Attempt a of w is the only claim made, after a sweep. *)
Claimed(d, e, a, w, g) ==
    /\ Safe(d, e) /\ e.cur = d.cur /\ e.ep = d.ep
    /\ e.att[a].st = "claimed" /\ e.att[a].wake = w /\ e.att[a].gen = g /\ ~e.att[a].over
    /\ \A b \in Attempts \ {a} : e.att[b].st = "claimed" => e.att[b] = d.att[b] /\ ~d.att[b].over

(* A claim is safe: it disturbs no turn, and of the task it gives the new   *)
(* carrier a controller generation of its own.                             *)
LEMMA ClaimSafe ==
    ASSUME NEW d, StoreInv(d), NEW w \in Claimable(d), NEW a \in Unused(d),
           NEW g, Capable(d, g), NEW kind \in {"push", "app"}
    PROVE  Claimed(d, Claim(d, w, a, g, kind), a, w, g)
<1> DEFINE p == Swept(d)
           s == NewAttempt(p, a, w, g, kind, "claimed")
           tk == [s.task EXCEPT !.gen = @ + 1, !.carrier = g]
           e == Claim(d, w, a, g, kind)
<1>1. SweptTo(d, p)
  BY SweepSafe
<1>2. w \in Ready(d) /\ a \in Attempts /\ d.att[a].st = "unused"
  BY ClaimableIffOpportunity DEF Unused
<1>3. /\ g \in Gens /\ g = d.cur /\ d.ep[d.cur].life = "attached" /\ d.ep[d.cur].capable
      /\ w \in Wakes
  BY <1>2 DEF Capable, Current, Ready
<1>4. StoreInv(p) /\ p \in Stores /\ p.wake[w].st = "pending" /\ p.att[a].st = "unused"
  BY <1>1, <1>2, <1>3 DEF SweptTo, Safe, StoreInv
<1>5. e = IF s.wake[w].trig = "task"
          THEN [s EXCEPT !.task.gen = @ + 1, !.task.carrier = g] ELSE s
  BY DEF Claim
<1> HIDE DEF p, e
<1>6. kind \in Kinds
  BY DEF Kinds
<1>7. Attempted(p, s, a, w, g, "claimed")
  BY <1>2, <1>3, <1>4, <1>6, AttemptRows
<1> HIDE DEF s
<1>8. /\ StoreInv(s)
      /\ \A v \in Wakes : WakeKept(p, s, v) /\ OneWay(p, s, v)
      /\ \A b \in Attempts \ {a} : AttemptKept(p, s, b)
  <2>1. g = p.cur /\ p.ep[p.cur].life = "attached" /\ p.ep[p.cur].capable
    BY <1>1, <1>3 DEF SweptTo
  <2> QED BY <1>2, <1>3, <1>4, <1>7, <2>1, AttemptInv
<1>9. Safe(p, s)
  <2>1. AttemptKept(p, s, a)
    BY <1>4, <1>7 DEF AttemptKept, Attempted, Crossed, Dispatched
  <2>2. p.task.gen \in Nat
    BY <1>4, Rows DEF TaskRecords
  <2> QED BY <1>7, <1>8, <2>1, <2>2 DEF Safe, Quiet, Carries, Attempted
<1>10. /\ Safe(s, e) /\ e.cur = s.cur /\ e.ep = s.ep /\ e.att = s.att
  <2>1. CASE s.wake[w].trig # "task"
    <3>1. e = s
      BY <1>5, <2>1
    <3> QED BY <1>8, <3>1, SafeStutter
  <2>2. CASE s.wake[w].trig = "task"
    <3>0. s.task \in TaskRecords /\ s \in Stores
      BY <1>8, Rows DEF StoreInv
    <3>1. e = [s EXCEPT !.task = tk]
      BY <1>5, <2>2, <3>0 DEF TaskRecords, Stores
    <3>2. tk \in TaskRecords /\ tk.st = s.task.st /\ tk.gen = s.task.gen + 1 /\ tk.carrier = g
      <4>1. g \in 0..MaxGen /\ s.task.gen + 1 \in Nat
        BY <1>3, <3>0 DEF TaskRecords, Gens
      <4> QED BY <3>0, <4>1 DEF TaskRecords
    <3> HIDE DEF tk
    <3>3. /\ e \in Stores /\ e.cur = s.cur /\ e.ep = s.ep /\ e.wake = s.wake /\ e.att = s.att
          /\ e.task = tk
      BY <3>0, <3>1, <3>2 DEF Stores
    <3>4. s.task.gen \in Nat
      BY <3>0 DEF TaskRecords
    <3>5. \A v \in Wakes : WakeOK(e, v)
      BY <1>8, <3>2, <3>3 DEF StoreInv, WakeOK
    <3>6. \A b \in Attempts : AttemptOK(e, b)
      BY <1>8, <3>3 DEF StoreInv, AttemptOK
    <3>7. OneTaskWake(e)
      BY <1>8, <3>3 DEF StoreInv, OneTaskWake
    <3>8. CarrierOK(e)
      <4>1. e.cur = g /\ e.ep[e.cur].life = "attached"
        BY <1>1, <1>3, <1>7, <3>3 DEF SweptTo, Attempted
      <4>2. e.wake[w].trig = "task" /\ e.wake[w].gen = g /\ e.wake[w].st = "claimed"
        BY <1>7, <2>2, <3>3 DEF Attempted
      <4> QED BY <1>3, <3>2, <3>3, <4>1, <4>2 DEF CarrierOK
    <3>9. Quiet(s, e) /\ Carries(s, e)
      <4>1. Quiet(s, s)
        BY <1>8, SafeStutter DEF Safe
      <4>2. \A b \in Attempts : AttemptKept(s, e, b)
        BY <3>3, <4>1 DEF Quiet, AttemptKept
      <4>3. \A v \in Wakes : WakeKept(s, e, v) /\ OneWay(s, e, v)
        BY <3>3, <4>1 DEF Quiet, WakeKept, OneWay
      <4> QED BY <3>2, <3>3, <3>4, <4>2, <4>3 DEF Quiet, Carries
    <3> QED BY <3>3, <3>5, <3>6, <3>7, <3>8, <3>9 DEF Safe, StoreInv
  <2> QED BY <2>1, <2>2
<1>11. Safe(d, e)
  <2>1. Safe(d, s)
    BY <1>1, <1>9, SafeTrans DEF SweptTo
  <2> QED BY <1>10, <2>1, SafeTrans
<1>12. Claimed(d, e, a, w, g)
  BY <1>1, <1>7, <1>10, <1>11 DEF Claimed, SweptTo, Attempted
<1> QED BY <1>12 DEF e

-----------------------------------------------------------------------------
(* The fence and what follows it *)

(* Attempt a and its Wake moved to st, together. *)
BothSet(d, e, a, st) ==
    LET w == d.att[a].wake
    IN /\ e \in Stores /\ e.cur = d.cur /\ e.ep = d.ep /\ e.task = d.task
       /\ e.wake[w].st = st /\ e.wake[w].att = d.wake[w].att /\ e.wake[w].gen = d.wake[w].gen
       /\ e.wake[w].trig = d.wake[w].trig /\ e.wake[w].hw = d.wake[w].hw
       /\ \A v \in Wakes \ {w} : e.wake[v] = d.wake[v]
       /\ e.att[a].st = st /\ e.att[a].wake = w /\ e.att[a].gen = d.att[a].gen
       /\ \A b \in Attempts \ {a} : e.att[b] = d.att[b]

(* SetBoth writes just these rows. *)
LEMMA BothRows ==
    ASSUME NEW d \in Stores, NEW a \in Attempts, d.att[a].wake \in Wakes, NEW st \in Crossed
    PROVE  BothSet(d, SetBoth(d, a, st), a, st)
<1> DEFINE w == d.att[a].wake
           x == [d.att[a] EXCEPT !.st = st]
           y == [d.wake[w] EXCEPT !.st = st]
           at == [d.att EXCEPT ![a] = x]
           wk == [d.wake EXCEPT ![w] = y]
           e == SetBoth(d, a, st)
<1>0. /\ d.att[a] \in AttemptRecords /\ d.wake[w] \in WakeRecords
      /\ d.att \in [Attempts -> AttemptRecords] /\ d.wake \in [Wakes -> WakeRecords]
      /\ st \in AttemptStates /\ st \in WakeStates
  BY Rows DEF AttemptStates, WakeStates, Crossed
<1>1. x \in AttemptRecords /\ x.st = st /\ x.wake = w /\ x.gen = d.att[a].gen
  BY <1>0 DEF AttemptRecords
<1>2. /\ y \in WakeRecords /\ y.st = st /\ y.att = d.wake[w].att /\ y.gen = d.wake[w].gen
      /\ y.trig = d.wake[w].trig /\ y.hw = d.wake[w].hw
  BY <1>0 DEF WakeRecords
<1>3. e = [d EXCEPT !.att = at, !.wake = wk]
  <2>1. [d.att EXCEPT ![a].st = st] = at /\ [d.wake EXCEPT ![w].st = st] = wk
    BY <1>0
  <2>2. e = [d EXCEPT !.att = [d.att EXCEPT ![a].st = st],
                      !.wake = [d.wake EXCEPT ![w].st = st]]
    BY DEF SetBoth, Stores
  <2> QED BY <2>1, <2>2
<1> HIDE DEF x, y, e
<1>4. at \in [Attempts -> AttemptRecords] /\ at[a] = x /\ \A b \in Attempts \ {a} : at[b] = d.att[b]
  BY <1>0, <1>1
<1>5. wk \in [Wakes -> WakeRecords] /\ wk[w] = y /\ \A v \in Wakes \ {w} : wk[v] = d.wake[v]
  BY <1>0, <1>2
<1>6. /\ e \in Stores /\ e.cur = d.cur /\ e.ep = d.ep /\ e.task = d.task
      /\ e.wake = wk /\ e.att = at
  <2> HIDE DEF wk, at
  <2> QED BY <1>3, <1>4, <1>5 DEF Stores
<1>7. BothSet(d, e, a, st)
  BY <1>1, <1>2, <1>4, <1>5, <1>6 DEF BothSet
<1> QED BY <1>7 DEF e

(* Attempt a is the one its Wake names. *)
Named(d, a) == a \in Attempts /\ d.att[a].st \notin {"unused", "revoked"}

(* An attempt its Wake names may cross the fence, or move on past it. *)
LEMMA SetBothInv ==
    ASSUME NEW d, StoreInv(d), NEW a, Named(d, a), NEW st \in Crossed
    PROVE  /\ BothSet(d, SetBoth(d, a, st), a, st) /\ StoreInv(SetBoth(d, a, st))
           /\ \A v \in Wakes : WakeKept(d, SetBoth(d, a, st), v)
           /\ \A v \in Wakes \ {d.att[a].wake} : OneWay(d, SetBoth(d, a, st), v)
           /\ \A b \in Attempts \ {a} : AttemptKept(d, SetBoth(d, a, st), b)
<1> DEFINE e == SetBoth(d, a, st)
           w == d.att[a].wake
<1>0. /\ d \in Stores /\ Linked(d) /\ w \in Wakes /\ d.wake[w].att = a /\ a \in Attempts
      /\ d.wake[w].st = d.att[a].st /\ d.wake[w].gen = d.att[a].gen /\ d.att[a].gen \in Gens
  BY TablesLinked DEF StoreInv, Linked, Named
<1>1. BothSet(d, e, a, st)
  BY <1>0, BothRows
<1> HIDE DEF e
<1> USE DEF BothSet
<1>2. \A v \in Wakes : WakeOK(e, v)
  <2> TAKE v \in Wakes
  <2>1. WakeOK(d, v)
    BY DEF StoreInv
  <2>2. CASE v = w
    <3>1. st \notin Bare /\ st # "absent" /\ st # "retired"
      BY DEF Bare, Crossed, Dispatched
    <3>2. d.wake[w].st # "absent"
      <4>1. WakeOK(d, w)
        BY <1>0 DEF StoreInv
      <4> QED BY <1>0, <4>1 DEF WakeOK, Bare, Attempts
    <3> QED BY <1>0, <1>1, <2>1, <2>2, <3>1, <3>2 DEF WakeOK
  <2>3. CASE v # w
    <3>1. d.wake[v].att # a \/ d.wake[v].st \in Bare
      BY <1>0, <2>3 DEF Linked
    <3> QED BY <1>1, <2>1, <2>3, <3>1 DEF WakeOK
  <2> QED BY <2>2, <2>3
<1>3. \A b \in Attempts : AttemptOK(e, b)
  <2> TAKE b \in Attempts
  <2>1. AttemptOK(d, b)
    BY DEF StoreInv
  <2>2. CASE b = a
    BY <1>0, <1>1, <2>2 DEF AttemptOK, Wakes, Crossed, Dispatched
  <2>3. CASE b # a
    <3>1. d.att[b].st \notin {"unused", "revoked"} => d.att[b].wake \in Wakes \ {w}
      BY <1>0, <2>3 DEF Linked
    <3> QED BY <1>1, <2>1, <2>3, <3>1 DEF AttemptOK
  <2> QED BY <2>2, <2>3
<1>4. OneTaskWake(e)
  BY <1>0, <1>1 DEF StoreInv, OneTaskWake
<1>5. CarrierOK(e)
  <2> SUFFICES ASSUME d.task.carrier # 0 PROVE CarrierOK(e)
    BY <1>1 DEF CarrierOK
  <2>1. PICK v \in Wakes : /\ d.wake[v].trig = "task" /\ d.wake[v].gen = d.task.carrier
                           /\ d.wake[v].st \notin {"pending", "retired"}
    BY DEF StoreInv, CarrierOK
  <2>2. /\ e.wake[v].trig = "task" /\ e.wake[v].gen = d.task.carrier
        /\ e.wake[v].st \notin {"pending", "retired"}
    BY <1>1, <2>1 DEF Crossed, Dispatched
  <2> QED BY <1>1, <2>2 DEF StoreInv, CarrierOK
<1>6. \A v \in Wakes : WakeKept(d, e, v)
  BY <1>0, <1>1 DEF WakeKept
<1>7. \A v \in Wakes \ {w} : OneWay(d, e, v)
  BY <1>1 DEF OneWay, Dispatched
<1>8. \A b \in Attempts \ {a} : AttemptKept(d, e, b)
  BY <1>1 DEF AttemptKept, Crossed, Dispatched
<1>9. StoreInv(e)
  BY <1>1, <1>2, <1>3, <1>4, <1>5 DEF StoreInv
<1> QED BY <1>1, <1>6, <1>7, <1>8, <1>9 DEF e

(* Past the fence an attempt may become delivered, uncertain or consumed,   *)
(* until it is consumed.                                                   *)
LEMMA MoveOnSafe ==
    ASSUME NEW d, StoreInv(d), NEW a \in Attempts, d.att[a].st \in Dispatched,
           NEW st \in {"delivered", "delivery_unknown", "consumed"}
    PROVE  Safe(d, SetBoth(d, a, st)) /\ BothSet(d, SetBoth(d, a, st), a, st)
<1> DEFINE e == SetBoth(d, a, st)
<1>1. Named(d, a) /\ st \in Crossed /\ d.wake[d.att[a].wake].st = d.att[a].st
  BY TablesLinked DEF Named, Linked, Crossed, Dispatched
<1>2. /\ BothSet(d, e, a, st) /\ StoreInv(e)
      /\ \A v \in Wakes : WakeKept(d, e, v)
      /\ \A v \in Wakes \ {d.att[a].wake} : OneWay(d, e, v)
      /\ \A b \in Attempts \ {a} : AttemptKept(d, e, b)
  BY <1>1, SetBothInv
<1> HIDE DEF e
<1>3. OneWay(d, e, d.att[a].wake)
  BY <1>1, <1>2 DEF OneWay, BothSet, Dispatched
<1>4. AttemptKept(d, e, a)
  BY <1>1, <1>2 DEF AttemptKept, BothSet, Crossed, Dispatched
<1>5. d.task.gen \in Nat
  BY Rows DEF StoreInv, TaskRecords
<1>6. Safe(d, e)
  BY <1>2, <1>3, <1>4, <1>5 DEF Safe, Quiet, Carries, BothSet
<1> QED BY <1>2, <1>6 DEF e

(* The outcome of a dispatch is recorded, or refused. *)
LEMMA FinishSafe ==
    ASSUME NEW d, StoreInv(d), NEW a \in Attempts, d.att[a].st # "unused",
           NEW st \in {"delivered", "delivery_unknown"}
    PROVE  /\ Safe(d, FinishDelivery(d, a, st))
           /\ FinishDelivery(d, a, st).cur = d.cur /\ FinishDelivery(d, a, st).ep = d.ep
           /\ FinishDelivery(d, a, st) = d \/ BothSet(d, FinishDelivery(d, a, st), a, st)
<1>1. CASE Finishable(d, a, st) /\ d.wake[d.att[a].wake].st # "consumed"
  <2>1. d.att[a].st \in Dispatched
    <3>1. d.att[a].wake \in Wakes
      BY Rows DEF StoreInv, AttemptOK, AttemptRecords, Wakes
    <3>2. d.wake[d.att[a].wake].st \in Dispatched /\ d.wake[d.att[a].wake].att = a
      BY <1>1 DEF Finishable, ExactClaim, Dispatched
    <3> QED BY <3>1, <3>2, TablesLinked DEF Linked, Bare, Dispatched
  <2>2. FinishDelivery(d, a, st) = SetBoth(d, a, st)
    BY <1>1 DEF FinishDelivery
  <2> QED BY <2>1, <2>2, MoveOnSafe DEF BothSet
<1>2. CASE ~(Finishable(d, a, st) /\ d.wake[d.att[a].wake].st # "consumed")
  BY <1>2, SafeStutter DEF FinishDelivery
<1> QED BY <1>1, <1>2

(* A claim is given back, or it is no longer there. *)
LEMMA ReleaseSafe ==
    ASSUME NEW d, StoreInv(d), NEW a \in Attempts, d.att[a].st \in {"claimed", "revoked"}
    PROVE  /\ Safe(d, Release(d, a)) /\ Release(d, a).cur = d.cur /\ Release(d, a).ep = d.ep
           /\ \A b \in Attempts : Release(d, a).att[b].st = "claimed" =>
                 /\ Release(d, a).att[b] = d.att[b]
                 /\ b = a => ~Current(d, d.att[a].gen)
<1> DEFINE w == d.att[a].wake
           e == Release(d, a)
<1>0. w \in Wakes /\ Linked(d) /\ d \in Stores
  BY Rows, TablesLinked DEF StoreInv, AttemptOK, AttemptRecords, Wakes
<1>1. CASE Current(d, d.att[a].gen) /\ ExactClaim(d, a) /\ d.wake[w].st = "claimed"
  <2>1. e = Drop(d, {w}, {a}, "pending")
    BY <1>1 DEF Release
  <2>2. Droppable(d, {w}, {a}, "pending")
    BY <1>0, <1>1 DEF Linked, Droppable, ExactClaim, PreFence, Bare
  <2>3. Safe(d, e) /\ Dropped(d, e, {w}, {a}, "pending")
    BY <1>0, <2>1, <2>2, DropSafe, DropRows DEF Safe
  <2> HIDE DEF e
  <2> QED BY <2>3 DEF Dropped, e
<1>2. CASE ~(Current(d, d.att[a].gen) /\ ExactClaim(d, a) /\ d.wake[w].st = "claimed")
  <2>1. e = d
    BY <1>2 DEF Release
  <2>2. d.att[a].st = "claimed" => ExactClaim(d, a) /\ d.wake[w].st = "claimed"
    BY <1>0 DEF Linked, ExactClaim
  <2> HIDE DEF e
  <2> QED BY <1>2, <2>1, <2>2, SafeStutter DEF e
<1> QED BY <1>1, <1>2

(* A claim that may cross the fence is a live one. *)
LEMMA PreparableIsClaimed ==
    ASSUME NEW d, StoreInv(d), NEW a \in Attempts, d.att[a].st # "unused", Preparable(d, a)
    PROVE  d.att[a].st = "claimed" /\ d.att[a].wake \in Wakes
<1>1. d.att[a].wake \in Wakes
  BY Rows DEF StoreInv, AttemptOK, AttemptRecords, Wakes
<1> QED BY <1>1, TablesLinked DEF Linked, Preparable, ExactClaim, Bare

(* Of a task that is over, or that another Endpoint carries, the fence is   *)
(* not crossed: the Wake ends.                                             *)
LEMMA PrepareRetiresSafe ==
    ASSUME NEW d, StoreInv(d), NEW a \in Attempts, d.att[a].st = "claimed",
           ~TaskDispatchable(d, a)
    PROVE  /\ Safe(d, Prepare(d, a)) /\ Prepare(d, a).cur = d.cur /\ Prepare(d, a).ep = d.ep
           /\ \A b \in Attempts : Prepare(d, a).att[b].st = "claimed" =>
                  b # a /\ Prepare(d, a).att[b] = d.att[b]
<1> DEFINE W == {d.att[a].wake}
           A == {b \in Attempts : d.att[b].wake \in W /\ d.att[b].st = "claimed"}
           e == Prepare(d, a)
<1>1. e = Retire(d, W)
  BY DEF Prepare
<1>2. W \in SUBSET PreFenceTaskWakes(d)
  BY TablesLinked DEF Linked, TaskDispatchable, PreFenceTaskWakes, PreFence
<1> HIDE DEF e, W
<1>3. Safe(d, e) /\ Dropped(d, e, W, A, "retired")
  BY <1>1, <1>2, RetireSafe
<1>4. a \in A
  BY DEF W
<1> QED BY <1>3, <1>4 DEF Dropped, e

-----------------------------------------------------------------------------
(* New work, and leases that run out *)

(* Message n joined Wake w, or made it. *)
Joined(d, e, w, n) ==
    /\ e \in Stores /\ e.cur = d.cur /\ e.ep = d.ep /\ e.task = d.task /\ e.att = d.att
    /\ w \in Wakes /\ e.wake[w].trig = "inbox" /\ e.wake[w].hw = n
    /\ e.wake[w].att = d.wake[w].att /\ e.wake[w].gen = d.wake[w].gen
    /\ \/ d.wake[w].trig = "inbox" /\ d.wake[w].st \in PreFence /\ e.wake[w].st = d.wake[w].st
       \/ d.wake[w].st = "absent" /\ e.wake[w].st = "pending"
    /\ \A v \in Wakes \ {w} : e.wake[v] = d.wake[v]

(* Only the row of Wake w changed, to x. *)
WakeWritten(d, e, w, x) ==
    /\ e \in Stores /\ e.cur = d.cur /\ e.ep = d.ep /\ e.task = d.task /\ e.att = d.att
    /\ e.wake[w] = x /\ \A v \in Wakes \ {w} : e.wake[v] = d.wake[v]

(* Writing one Wake row. *)
LEMMA WakeWrite ==
    ASSUME NEW d \in Stores, NEW w \in Wakes, NEW x \in WakeRecords
    PROVE  WakeWritten(d, [d EXCEPT !.wake[w] = x], w, x)
<1> DEFINE wk == [d.wake EXCEPT ![w] = x]
           e == [d EXCEPT !.wake = wk]
<1>1. wk \in [Wakes -> WakeRecords] /\ wk[w] = x /\ \A v \in Wakes \ {w} : wk[v] = d.wake[v]
  BY Rows
<1>2. e = [d EXCEPT !.wake[w] = x]
  BY Rows DEF Stores
<1>3. /\ e \in Stores /\ e.cur = d.cur /\ e.ep = d.ep /\ e.task = d.task /\ e.att = d.att
      /\ e.wake = wk
  <2> HIDE DEF wk
  <2> QED BY <1>1 DEF Stores
<1> QED BY <1>1, <1>2, <1>3 DEF WakeWritten

(* A Delivery goes to one Wake that has not crossed the fence. *)
LEMMA CoalesceJoins ==
    ASSUME NEW d, StoreInv(d), NEW n \in 0..MaxMessages, Joinable(d) # {} \/ Absent(d) # {}
    PROVE  \E w \in Wakes : Joined(d, Coalesce(d, n), w, n)
<1> DEFINE e == Coalesce(d, n)
<1>0. d \in Stores /\ Joinable(d) \in SUBSET Nat /\ Absent(d) \in SUBSET Nat
  BY DEF StoreInv, Joinable, Absent, Wakes
<1>1. CASE Joinable(d) # {}
  <2> DEFINE w == Oldest(Joinable(d))
             x == [d.wake[w] EXCEPT !.hw = n]
  <2>1. w \in Joinable(d)
    BY <1>0, <1>1, OldestIsLeast
  <2> HIDE DEF w
  <2>2. w \in Wakes /\ d.wake[w].trig = "inbox" /\ d.wake[w].st \in PreFence
        /\ d.wake[w] \in WakeRecords
    BY <1>0, <2>1, Rows DEF Joinable
  <2>3. /\ x \in WakeRecords /\ x.trig = "inbox" /\ x.hw = n /\ x.st = d.wake[w].st
        /\ x.att = d.wake[w].att /\ x.gen = d.wake[w].gen
    BY <2>2 DEF WakeRecords
  <2>4. e = [d EXCEPT !.wake[w].hw = n]
    BY <1>1 DEF Coalesce, w
  <2>5. e = [d EXCEPT !.wake[w] = x]
    BY <1>0, <2>2, <2>4, Rows DEF Stores
  <2> HIDE DEF e, x
  <2>6. WakeWritten(d, [d EXCEPT !.wake[w] = x], w, x)
    BY <1>0, <2>2, <2>3, WakeWrite
  <2>7. Joined(d, e, w, n)
    BY <2>2, <2>3, <2>5, <2>6 DEF Joined, WakeWritten
  <2> QED BY <2>2, <2>7 DEF e
<1>2. CASE Joinable(d) = {}
  <2> DEFINE w == Oldest(Absent(d))
             x == [trig |-> "inbox", st |-> "pending", att |-> 0, gen |-> 0, hw |-> n]
  <2>1. w \in Absent(d)
    BY <1>0, <1>2, OldestIsLeast
  <2> HIDE DEF w
  <2>2. w \in Wakes /\ d.wake[w].st = "absent" /\ d.wake[w].att = 0 /\ d.wake[w].gen = 0
    BY <2>1 DEF Absent, StoreInv, WakeOK, Bare
  <2>3. /\ x \in WakeRecords /\ x.trig = "inbox" /\ x.hw = n /\ x.st = "pending"
        /\ x.att = 0 /\ x.gen = 0
    BY BoundsAssumption DEF WakeRecords, WakeStates, PreFence
  <2>4. e = [d EXCEPT !.wake[w] = x]
    BY <1>2 DEF Coalesce, w
  <2> HIDE DEF e, x
  <2>5. WakeWritten(d, [d EXCEPT !.wake[w] = x], w, x)
    BY <1>0, <2>2, <2>3, WakeWrite
  <2>6. Joined(d, e, w, n)
    BY <2>2, <2>3, <2>4, <2>5 DEF Joined, WakeWritten
  <2> QED BY <2>2, <2>6 DEF e
<1> QED BY <1>1, <1>2

(* The store stays in order when a Delivery joins, and no turn notices. *)
LEMMA JoinedSafe ==
    ASSUME NEW d, StoreInv(d), NEW e, NEW w, NEW n, Joined(d, e, w, n)
    PROVE  /\ StoreInv(e)
           /\ \A a \in Attempts : AttemptKept(d, e, a)
           /\ \A v \in Wakes : OneWay(d, e, v)
<1> USE DEF Joined
<1>0. Linked(d)
  BY TablesLinked
<1>1. \A v \in Wakes : WakeOK(e, v)
  <2> TAKE v \in Wakes
  <2>1. WakeOK(d, v)
    BY DEF StoreInv
  <2>2. CASE v = w
    BY <2>1, <2>2 DEF WakeOK, Bare, PreFence
  <2>3. CASE v # w
    BY <2>1, <2>3 DEF WakeOK
  <2> QED BY <2>2, <2>3
<1>2. \A a \in Attempts : AttemptOK(e, a)
  <2> TAKE a \in Attempts
  <2>1. AttemptOK(d, a) /\ (d.att[a].wake \in Wakes =>
             e.wake[d.att[a].wake].att = d.wake[d.att[a].wake].att)
    BY DEF StoreInv
  <2> QED BY <1>0, <2>1 DEF AttemptOK, Linked
<1>3. OneTaskWake(e)
  BY DEF StoreInv, OneTaskWake
<1>4. CarrierOK(e)
  <2> SUFFICES ASSUME d.task.carrier # 0 PROVE CarrierOK(e)
    BY DEF CarrierOK
  <2>1. PICK v \in Wakes : /\ d.wake[v].trig = "task" /\ d.wake[v].gen = d.task.carrier
                           /\ d.wake[v].st \notin {"pending", "retired"}
    BY DEF StoreInv, CarrierOK
  <2>2. v # w
    BY <2>1 DEF StoreInv, WakeOK
  <2> QED BY <2>1, <2>2 DEF StoreInv, CarrierOK
<1>5. \A a \in Attempts : AttemptKept(d, e, a)
  BY DEF AttemptKept, Crossed, Dispatched
<1>6. \A v \in Wakes : OneWay(d, e, v)
  BY DEF OneWay, PreFence, Dispatched
<1> QED BY <1>1, <1>2, <1>3, <1>4, <1>5, <1>6 DEF StoreInv

(* The continuation of a task made Wake w. *)
Continued(d, e, w) ==
    /\ e \in Stores /\ e.cur = d.cur /\ e.ep = d.ep /\ e.att = d.att
    /\ e.task.st = "active" /\ e.task.gen = d.task.gen /\ e.task.carrier = d.task.carrier
    /\ w \in Wakes /\ d.wake[w].st = "absent"
    /\ e.wake[w].trig = "task" /\ e.wake[w].st = "pending"
    /\ e.wake[w].att = d.wake[w].att /\ e.wake[w].gen = d.wake[w].gen
    /\ \A v \in Wakes \ {w} : e.wake[v] = d.wake[v]

(* A task attempt is handed to the Agent with a Wake of its own. *)
LEMMA ContinueRows ==
    ASSUME NEW d, StoreInv(d), Absent(d) # {}, NEW e,
           e = [d EXCEPT !.task.st = "active",
                         !.wake[Oldest(Absent(d))].trig = "task",
                         !.wake[Oldest(Absent(d))].st = "pending"]
    PROVE  \E w \in Wakes : Continued(d, e, w)
<1> DEFINE w == Oldest(Absent(d))
           x == [d.wake[w] EXCEPT !.trig = "task", !.st = "pending"]
           tk == [d.task EXCEPT !.st = "active"]
           wk == [d.wake EXCEPT ![w] = x]
<1>0. d \in Stores /\ Absent(d) \in SUBSET Nat
  BY DEF StoreInv, Absent, Wakes
<1>1. w \in Absent(d)
  BY <1>0, OldestIsLeast
<1>2. e = [d EXCEPT !.task.st = "active", !.wake[w].trig = "task", !.wake[w].st = "pending"]
  OBVIOUS
<1> HIDE DEF w
<1>3. /\ w \in Wakes /\ d.wake[w].st = "absent" /\ d.wake[w] \in WakeRecords
      /\ d.wake \in [Wakes -> WakeRecords] /\ d.task \in TaskRecords
  BY <1>0, <1>1, Rows DEF Absent
<1>4. /\ x \in WakeRecords /\ x.trig = "task" /\ x.st = "pending"
      /\ x.att = d.wake[w].att /\ x.gen = d.wake[w].gen
  BY <1>3 DEF WakeRecords, WakeStates, PreFence
<1>5. tk \in TaskRecords /\ tk.st = "active" /\ tk.gen = d.task.gen /\ tk.carrier = d.task.carrier
  BY <1>3 DEF TaskRecords
<1>6. [d.wake EXCEPT ![w].trig = "task", ![w].st = "pending"] = wk
  BY <1>3 DEF WakeRecords
<1>7. e = [d EXCEPT !.task = tk, !.wake = wk]
  BY <1>0, <1>2, <1>6 DEF Stores
<1> HIDE DEF x, tk
<1>8. wk \in [Wakes -> WakeRecords] /\ wk[w] = x /\ \A v \in Wakes \ {w} : wk[v] = d.wake[v]
  BY <1>3, <1>4
<1>9. /\ e \in Stores /\ e.cur = d.cur /\ e.ep = d.ep /\ e.att = d.att /\ e.task = tk
      /\ e.wake = wk
  <2> HIDE DEF wk
  <2> QED BY <1>0, <1>5, <1>7, <1>8 DEF Stores
<1>10. Continued(d, e, w)
  BY <1>3, <1>4, <1>5, <1>8, <1>9 DEF Continued
<1> QED BY <1>3, <1>10

(* The store stays in order, and no turn notices. *)
LEMMA ContinuedSafe ==
    ASSUME NEW d, StoreInv(d), d.task.st = "none", NEW e, NEW w, Continued(d, e, w)
    PROVE  /\ StoreInv(e)
           /\ \A a \in Attempts : AttemptKept(d, e, a)
           /\ \A v \in Wakes : OneWay(d, e, v) /\ WakeKept(d, e, v)
           /\ \A v \in Wakes : d.wake[v].trig # "task"
<1> USE DEF Continued
<1>0. Linked(d) /\ \A v \in Wakes : d.wake[v].trig # "task"
  BY TablesLinked DEF StoreInv, WakeOK
<1>1. \A v \in Wakes : WakeOK(e, v)
  <2> TAKE v \in Wakes
  <2>1. WakeOK(d, v)
    BY DEF StoreInv
  <2>2. CASE v = w
    BY <2>1, <2>2 DEF WakeOK, Bare
  <2>3. CASE v # w
    BY <2>1, <2>3 DEF WakeOK
  <2> QED BY <2>2, <2>3
<1>2. \A a \in Attempts : AttemptOK(e, a)
  <2> TAKE a \in Attempts
  <2>1. AttemptOK(d, a) /\ (d.att[a].wake \in Wakes =>
             e.wake[d.att[a].wake].att = d.wake[d.att[a].wake].att)
    BY DEF StoreInv
  <2> QED BY <1>0, <2>1 DEF AttemptOK, Linked
<1>3. OneTaskWake(e)
  BY <1>0 DEF OneTaskWake
<1>4. CarrierOK(e)
  BY <1>0 DEF StoreInv, CarrierOK
<1>5. \A a \in Attempts : AttemptKept(d, e, a)
  BY DEF AttemptKept, Crossed, Dispatched
<1>6. \A v \in Wakes : OneWay(d, e, v) /\ WakeKept(d, e, v)
  BY <1>0 DEF OneWay, WakeKept, Dispatched, StoreInv, WakeOK
<1> QED BY <1>0, <1>1, <1>2, <1>3, <1>4, <1>5, <1>6 DEF StoreInv

(* The task attempt's lease runs out. *)
LEMMA TaskLapseSafe ==
    ASSUME NEW d, StoreInv(d), d.task.st = "active", NEW e, e = [d EXCEPT !.task.st = "stale"]
    PROVE  /\ Safe(d, e) /\ e.cur = d.cur /\ e.ep = d.ep /\ e.wake = d.wake /\ e.att = d.att
           /\ e.task.st = "stale"
<1> DEFINE tk == [d.task EXCEPT !.st = "stale"]
<1>1. d \in Stores /\ d.task \in TaskRecords
  BY Rows DEF StoreInv
<1>2. tk \in TaskRecords /\ tk.st = "stale" /\ tk.gen = d.task.gen /\ tk.carrier = d.task.carrier
  BY <1>1 DEF TaskRecords
<1>3. e = [d EXCEPT !.task = tk]
  BY <1>1 DEF Stores
<1> HIDE DEF tk
<1>4. /\ e \in Stores /\ e.cur = d.cur /\ e.ep = d.ep /\ e.wake = d.wake /\ e.att = d.att
      /\ e.task = tk
  BY <1>1, <1>2, <1>3 DEF Stores
<1>5. \A a \in Attempts : d.att[a].st = "claimed" =>
          d.att[a].gen = e.cur /\ e.ep[e.cur].life = "attached" /\ e.ep[e.cur].capable
  BY <1>4 DEF StoreInv, AttemptOK
<1>6. e.task.carrier # 0 => e.task.carrier = d.task.carrier /\ e.cur = d.cur
                            /\ e.ep[e.cur].life = "attached"
  BY <1>2, <1>4 DEF StoreInv, CarrierOK
<1>7. d.task.gen \in Nat
  BY <1>1 DEF TaskRecords
<1>8. StoreInv(e) /\ Quiet(d, e)
  <2>1. d.task.gen <= e.task.gen /\ e.task.st = "stale"
    BY <1>2, <1>4, <1>7
  <2> QED BY <1>4, <1>5, <1>6, <2>1, RowsStand
<1> QED BY <1>2, <1>4, <1>8 DEF Safe, Carries

(* The lease of claim a ran out. *)
Overdue(d, e, a) ==
    /\ e.cur = d.cur /\ e.ep = d.ep /\ e.wake = d.wake /\ e.task = d.task
    /\ e.att[a].st = "claimed" /\ e.att[a].over
    /\ \A b \in Attempts \ {a} : e.att[b] = d.att[b]

(* The lease of a claim may run out at any time. *)
LEMMA ClaimLapseSafe ==
    ASSUME NEW d, StoreInv(d), NEW a \in Attempts, d.att[a].st = "claimed",
           NEW e, e = [d EXCEPT !.att[a].over = TRUE]
    PROVE  Safe(d, e) /\ Overdue(d, e, a)
<1> DEFINE x == [d.att[a] EXCEPT !.over = TRUE]
           at == [d.att EXCEPT ![a] = x]
<1>1. /\ d \in Stores /\ d.att[a] \in AttemptRecords /\ d.att \in [Attempts -> AttemptRecords]
      /\ d.task.gen \in Nat
  BY Rows DEF StoreInv, TaskRecords
<1>2. /\ x \in AttemptRecords /\ x.st = d.att[a].st /\ x.wake = d.att[a].wake
      /\ x.gen = d.att[a].gen /\ x.over
  BY <1>1 DEF AttemptRecords
<1>3. [d.att EXCEPT ![a].over = TRUE] = at
  BY <1>1
<1>4. e = [d EXCEPT !.att = at]
  BY <1>1, <1>3 DEF Stores
<1> HIDE DEF x
<1>5. at \in [Attempts -> AttemptRecords] /\ at[a] = x /\ \A b \in Attempts \ {a} : at[b] = d.att[b]
  BY <1>1, <1>2
<1>6. /\ e \in Stores /\ e.cur = d.cur /\ e.ep = d.ep /\ e.wake = d.wake /\ e.task = d.task
      /\ e.att = at
  <2> HIDE DEF at
  <2> QED BY <1>1, <1>4, <1>5 DEF Stores
<1>7. \A b \in Attempts : /\ e.att[b].st = d.att[b].st /\ e.att[b].wake = d.att[b].wake
                          /\ e.att[b].gen = d.att[b].gen
  BY <1>2, <1>5, <1>6
<1>8. \A w \in Wakes : WakeOK(e, w)
  BY <1>6, <1>7 DEF StoreInv, WakeOK
<1>9. \A b \in Attempts : AttemptOK(e, b)
  BY <1>6, <1>7 DEF StoreInv, AttemptOK
<1>10. OneTaskWake(e) /\ CarrierOK(e)
  BY <1>6 DEF StoreInv, OneTaskWake, CarrierOK
<1>11. Quiet(d, e) /\ Carries(d, e)
  BY <1>1, <1>6, <1>7 DEF Quiet, Carries, AttemptKept, WakeKept, OneWay, Crossed, Dispatched
<1> QED BY <1>2, <1>5, <1>6, <1>8, <1>9, <1>10, <1>11 DEF Overdue, Safe, StoreInv

(* The lease of the current Endpoint runs out. *)
LEMMA EndpointLapseSafe ==
    ASSUME NEW d, StoreInv(d), d.cur \in Gens, NEW e, e = [d EXCEPT !.ep[d.cur].lapsed = TRUE]
    PROVE  /\ Safe(d, e) /\ e.cur = d.cur /\ e.wake = d.wake /\ e.att = d.att /\ e.task = d.task
           /\ e.ep[d.cur].lapsed /\ e.ep[d.cur].capable = d.ep[d.cur].capable
           /\ e.ep[d.cur].window = d.ep[d.cur].window
<1> DEFINE x == [d.ep[d.cur] EXCEPT !.lapsed = TRUE]
<1>1. d \in Stores /\ d.ep[d.cur] \in EpRecords /\ d.ep \in [Gens -> EpRecords]
  BY Rows DEF StoreInv
<1>2. /\ x \in EpRecords /\ x.lapsed /\ x.life = d.ep[d.cur].life
      /\ x.capable = d.ep[d.cur].capable /\ x.window = d.ep[d.cur].window
  BY <1>1 DEF EpRecords
<1>3. e = [d EXCEPT !.ep[d.cur] = x]
  BY <1>1 DEF Stores
<1> HIDE DEF x
<1>4. EpWritten(d, e, d.cur, x)
  BY <1>1, <1>2, <1>3, EpWrite
<1>5. Safe(d, e)
  BY <1>2, <1>4, EpWriteSafe
<1> QED BY <1>2, <1>4, <1>5 DEF EpWritten

(* What is left when the current Endpoint got its Host. *)
HostBound(d, e) ==
    /\ StoreInv(e) /\ Quiet(d, e) /\ e.cur = d.cur
    /\ e.task.carrier # 0 => e.task.carrier = d.task.carrier

(* Giving an attached Endpoint its Host, with or without withdrawing        *)
(* another one first, disturbs no turn; it may clear the carrier row.      *)
LEMMA BoundSafe ==
    ASSUME NEW d, StoreInv(d), d.cur \in Gens, NEW r, r = d \/ r = Withdraw(d, d.cur),
           NEW win \in BOOLEAN, NEW e,
           e = [r EXCEPT !.ep[d.cur].capable = TRUE, !.ep[d.cur].window = win]
    PROVE  /\ HostBound(d, e)
           /\ (r = d => ~d.ep[d.cur].capable) =>
                 \A a \in Attempts : e.att[a].st # "claimed"
<1> DEFINE g == d.cur
           x == [r.ep[g] EXCEPT !.capable = TRUE, !.window = win]
<1>1. /\ StoreInv(r) /\ Quiet(d, r) /\ r.cur = d.cur
      /\ r.task.carrier # 0 => r.task.carrier = d.task.carrier
      /\ (r = d => ~d.ep[d.cur].capable) => \A a \in Attempts : r.att[a].st # "claimed"
  <2>1. CASE r = d
    BY <2>1, SafeStutter DEF Safe, StoreInv, AttemptOK
  <2>2. CASE r = Withdraw(d, d.cur) /\ r # d
    BY <2>2, WithdrawSafe DEF Withdrawn
  <2> QED BY <2>1, <2>2
<1>2. r \in Stores /\ r.ep[g] \in EpRecords /\ r.ep \in [Gens -> EpRecords]
  BY <1>1, Rows DEF StoreInv
<1>3. x \in EpRecords /\ x.life = r.ep[g].life /\ x.capable
  BY <1>2 DEF EpRecords
<1>4. e = [r EXCEPT !.ep[g] = x]
  <2>1. [r.ep EXCEPT ![g].capable = TRUE, ![g].window = win] = [r.ep EXCEPT ![g] = x]
    BY <1>2 DEF EpRecords
  <2> QED BY <1>2, <2>1 DEF Stores
<1> HIDE DEF x
<1>5. EpWritten(r, e, g, x)
  <2>1. EpWritten(r, [r EXCEPT !.ep[g] = x], g, x)
    BY <1>2, <1>3, EpWrite
  <2> QED BY <1>4, <2>1
<1>6. Safe(r, e)
  BY <1>1, <1>3, <1>5, EpWriteSafe
<1>7. Quiet(d, e)
  BY <1>1, <1>6, QuietTrans DEF Safe, StoreInv
<1> QED BY <1>1, <1>5, <1>6, <1>7 DEF HostBound, Safe, EpWritten

-----------------------------------------------------------------------------
(* Another Server process takes the database over *)

(* An Endpoint found expired at the takeover is lost. *)
LEMMA ExpireStaleSafe ==
    ASSUME NEW d, StoreInv(d), NEW e, e = ExpireStaleEndpoints(d)
    PROVE  Safe(d, e) /\ e.cur = d.cur
<1> DEFINE g == d.cur
<1>1. CASE ~(g \in Gens /\ d.ep[g].life = "attached" /\ d.ep[g].lapsed)
  BY <1>1, SafeStutter DEF ExpireStaleEndpoints
<1>2. CASE g \in Gens /\ d.ep[g].life = "attached" /\ d.ep[g].lapsed
  <2> DEFINE r == ReconcileLoss(d, g, TRUE)
             x == [r.ep[g] EXCEPT !.life = "expired", !.capable = FALSE]
  <2>1. g \in 0..MaxGen
    BY <1>2 DEF Gens
  <2>2. Lost(d, r, g) /\ Carries(d, r)
    BY <2>1, LossSafe
  <2>3. e = [r EXCEPT !.ep[g].life = "expired", !.ep[g].capable = FALSE]
    BY <1>2 DEF ExpireStaleEndpoints
  <2> HIDE DEF r
  <2>4. r \in Stores /\ r.ep[g] \in EpRecords /\ r.ep \in [Gens -> EpRecords] /\ Idled(r)
    BY <1>2, <2>2, Rows, LossOfCurrent DEF Lost, StoreInv
  <2>5. x \in EpRecords
    BY <2>4 DEF EpRecords
  <2>6. e = [r EXCEPT !.ep[g] = x]
    <3>1. [r.ep EXCEPT ![g].life = "expired", ![g].capable = FALSE] = [r.ep EXCEPT ![g] = x]
      BY <1>2, <2>4 DEF EpRecords
    <3> QED BY <2>3, <2>4, <3>1 DEF Stores
  <2> HIDE DEF x
  <2>7. EpWritten(r, e, g, x)
    <3>1. EpWritten(r, [r EXCEPT !.ep[g] = x], g, x)
      BY <1>2, <2>4, <2>5, EpWrite
    <3> QED BY <2>6, <3>1
  <2>8. Safe(r, e)
    BY <1>2, <2>2, <2>4, <2>5, <2>7, EpWriteSafe DEF Lost
  <2>9. Safe(d, r)
    BY <2>2 DEF Safe, Lost
  <2> QED BY <2>2, <2>7, <2>8, <2>9, SafeTrans DEF EpWritten, Lost
<1> QED BY <1>1, <1>2

(* Two stores have the same Wake, attempt and task rows. *)
SameRows(b, c) == c.cur = b.cur /\ c.wake = b.wake /\ c.att = b.att /\ c.task = b.task

(* Dropping claims does not look at the Endpoint rows ... *)
LEMMA DropSameRows ==
    ASSUME NEW b \in Stores, NEW c \in Stores, SameRows(b, c), NEW W, NEW A, NEW st
    PROVE  SameRows(Drop(b, W, A, st), Drop(c, W, A, st)) /\ Drop(c, W, A, st).ep = c.ep
BY DEF SameRows, Drop, Stores

(* ... nor does marking dispatches uncertain. *)
LEMMA UnknownSameRows ==
    ASSUME NEW b \in Stores, NEW c \in Stores, SameRows(b, c), NEW W, NEW A
    PROVE  SameRows(MakeUnknown(b, W, A), MakeUnknown(c, W, A)) /\ MakeUnknown(c, W, A).ep = c.ep
BY DEF SameRows, MakeUnknown, Stores

(* The takeover is safe: what was claimed is pending again and what was     *)
(* prepared is uncertain, whatever Endpoint it belonged to.                *)
LEMMA TakeoverSafe ==
    ASSUME NEW d, StoreInv(d), NEW e, e = Recovered(d)
    PROVE  Safe(d, e) /\ e.cur = d.cur /\ \A a \in Attempts : e.att[a].st # "claimed"
<1> DEFINE b == ExpireStaleEndpoints(d)
           x(g) == [b.ep[g] EXCEPT !.capable = @ /\ b.ep[g].life # "attached"]
           y == [g \in Gens |-> x(g)]
           c == [b EXCEPT !.ep = y]
           W == WithState(b, "claimed")
           A == AttemptsWith(b, "claimed")
           V == WithState(b, "prepared")
           B == AttemptsWith(b, "prepared")
           m == Drop(b, W, A, "pending")
           mc == Drop(c, W, A, "pending")
           u == MakeUnknown(m, V, B)
<1>1. Safe(d, b) /\ b.cur = d.cur
  BY ExpireStaleSafe
<1>2. e = MakeUnknown(Drop(c, WithState(c, "claimed"), AttemptsWith(c, "claimed"), "pending"),
                      WithState(c, "prepared"), AttemptsWith(c, "prepared"))
  BY DEF Recovered
<1> HIDE DEF b
<1>3. StoreInv(b) /\ b \in Stores /\ Linked(b) /\ \A g \in Gens : b.ep[g] \in EpRecords
  BY <1>1, Rows, TablesLinked DEF Safe, StoreInv
<1>4. \A g \in Gens : x(g) \in EpRecords /\ x(g).life = b.ep[g].life
  BY <1>3 DEF EpRecords
<1> HIDE DEF x
<1>5. y \in [Gens -> EpRecords] /\ \A g \in Gens : y[g].life = b.ep[g].life
  BY <1>4
<1> HIDE DEF y
<1>6. c \in Stores /\ SameRows(b, c) /\ c.ep = y
  BY <1>3, <1>5 DEF Stores, SameRows
<1> HIDE DEF c
<1>7. /\ W \in SUBSET Wakes /\ A \in SUBSET Attempts /\ V \in SUBSET Wakes
      /\ B \in SUBSET Attempts
  BY DEF WithState, AttemptsWith
<1>8. e = MakeUnknown(mc, V, B)
  BY <1>2, <1>6 DEF SameRows, WithState, AttemptsWith
<1>9. Droppable(b, W, A, "pending")
  BY <1>3 DEF Linked, Droppable, WithState, AttemptsWith, PreFence, Bare
<1>10. Safe(b, m) /\ Dropped(b, m, W, A, "pending")
  BY <1>3, <1>7, <1>9, DropSafe, DropRows DEF Safe
<1>11. SameRows(m, mc) /\ mc.ep = y /\ mc \in Stores
  <2>1. SameRows(m, mc) /\ mc.ep = c.ep
    BY <1>3, <1>6, DropSameRows
  <2>2. Dropped(c, mc, W, A, "pending")
    BY <1>6, <1>7, DropRows
  <2> QED BY <1>6, <2>1, <2>2 DEF Dropped
<1> HIDE DEF m, mc
<1>12. Uncertain(m, V, B)
  <2>1. \A w \in V : w \notin W /\ b.wake[w].st = "prepared" /\ b.wake[w].att \in B
    BY <1>3 DEF Linked, WithState, AttemptsWith, Bare
  <2>2. \A a \in B : a \notin A /\ b.att[a].st = "prepared" /\ b.att[a].wake \in V
    BY <1>3 DEF Linked, WithState, AttemptsWith
  <2> QED BY <1>7, <1>10, <2>1, <2>2 DEF Uncertain, Dropped, Handed
<1>13. Safe(m, u) /\ MadeUnknown(m, u, V, B)
  BY <1>7, <1>10, <1>12, UnknownSafe, UnknownRows DEF Safe, StoreInv
<1>14. SameRows(u, e) /\ e.ep = y /\ e \in Stores
  BY <1>7, <1>8, <1>10, <1>11, UnknownSameRows, UnknownRows DEF Safe, StoreInv, MadeUnknown
<1> HIDE DEF u
<1>15. \A a \in Attempts : u.att[a].st # "claimed"
  BY <1>7, <1>10, <1>13 DEF Dropped, MadeUnknown, AttemptsWith
<1>16. StoreInv(u) /\ u.ep = b.ep /\ u.cur = d.cur
  BY <1>1, <1>10, <1>13 DEF Safe, Dropped, MadeUnknown
<1>17. u.task.carrier # 0 => u.cur \in Gens /\ u.ep[u.cur].life = "attached"
  BY <1>16, HeldByCurrent DEF Idled
<1>18. u.task.gen \in Nat
  BY <1>16, Rows DEF StoreInv, TaskRecords
<1>19. StoreInv(e) /\ Quiet(u, e)
  <2>1. /\ e.wake = u.wake /\ e.att = u.att /\ u.task.gen <= e.task.gen
        /\ e.task.st = u.task.st /\ e.cur = u.cur
    BY <1>14, <1>18 DEF SameRows
  <2>2. e.task.carrier # 0 => e.task.carrier = u.task.carrier /\ e.cur = u.cur
                              /\ e.ep[e.cur].life = "attached"
    BY <1>5, <1>14, <1>16, <1>17 DEF SameRows
  <2> QED BY <1>14, <1>15, <1>16, <2>1, <2>2, RowsStand
<1>20. Safe(u, e)
  BY <1>14, <1>19 DEF Safe, Carries, SameRows
<1>21. Safe(d, e)
  <2>1. Safe(d, m)
    BY <1>1, <1>10, SafeTrans
  <2>2. Safe(d, u)
    BY <1>13, <2>1, SafeTrans
  <2> QED BY <1>20, <2>2, SafeTrans
<1> QED BY <1>14, <1>15, <1>16, <1>21 DEF SameRows
=============================================================================
