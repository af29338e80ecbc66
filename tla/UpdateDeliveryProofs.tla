------------------------- MODULE UpdateDeliveryProofs -------------------------
(***************************************************************************)
(* Proofs about UpdateDelivery, for every length of plan, capacity of the  *)
(* queue and of the channels, and number of sessions, outputs and stops.   *)
(***************************************************************************)
EXTENDS UpdateDelivery, WellFoundedInduction, TLAPS

-------------------------------------------------------------------------------
(* What is under way *)

(* What a record, a message or a snapshot says of the Job. *)
Item(x) == <<x.life, x.seq, x.prog>>

ItemsOf(q) == { Item(q[k]) : k \in DOMAIN q }

(* What a record or a message says that stands for none. *)
Nil == { <<"Absent", 0, NoProgress>>, <<"RunnerQueued", 0, NoProgress>> }

(* Everything that the Runner and the network hold about the Job. *)
Items ==
    Nil \cup
    { Item(rec), Item(owed["carrier"]), Item(owed["stop"]), Item(queue.output),
      Item(worker.m), Item(reg.inv), Item(reg.now) }
    \cup ItemsOf(queue.required)
    \cup (UNION { ItemsOf(chan[s]) : s \in Sessions })
    \cup { Item(m) : m \in posts }

(* A report with progress is one that the Server takes, if it is in order. *)
ShapeOK(x) ==
    x[3] # NoProgress =>
        /\ x[1] # "RunnerQueued"
        /\ x[1] = "Completed" => x[3] = Steps
        /\ x[1] \in {"Running", "StopRequested", "Failed"} => x[3] < Steps

(* The only end that is told is the recorded one. *)
EndOK(x) ==
    IsTerminal(x[1]) =>
        /\ carrier \in {"announce", "work"}
        /\ rec.life \in {x[1], "Absent"}

(* A later number never says less progress. *)
InOrder(x, y) == x[2] <= y[2] => DoneSteps(x[3]) <= DoneSteps(y[3])

ItemsInv ==
    /\ \A x \in Items : ShapeOK(x) /\ EndOK(x)
    /\ \A x, y \in Items : InOrder(x, y)

(* The record is the last word on the Job while it is there. *)
RecordInv ==
    /\ carrier \in {"held", "insert"} =>
         /\ rec = NoRecord /\ srv.seq = 0 /\ srv.prog = NoProgress
         /\ \A x \in Items : x[2] = 0 /\ x[3] = NoProgress
    /\ carrier = "announce" => rec.prog = NoProgress
    /\ rec.life = "Absent" => rec = NoRecord
    /\ rec.life # "Absent" => \A x \in Items : x[2] <= rec.seq
    /\ IsTerminal(rec.life) =>
         \A x \in Items : x[2] = rec.seq => x[1] = rec.life
    /\ rec.life # "Absent" /\ owed["carrier"] # NoMessage =>
         owed["carrier"].prog = rec.prog

(* The Server waits for more. *)
Waiting == srv.known /\ ~IsTerminal(srv.life)

ServerInv ==
    /\ IsTerminal(srv.life) /\ srv.fault = "none" /\ srv.life # "Lost" =>
         /\ carrier \in {"announce", "work"}
         /\ rec.life \in {srv.life, "Absent"}
    /\ Waiting =>
         \A x \in Items :
            /\ x[2] <= srv.seq => DoneSteps(x[3]) <= DoneSteps(srv.prog)
            /\ x[2] >= srv.seq => DoneSteps(x[3]) >= DoneSteps(srv.prog)
    /\ Waiting /\ rec.life # "Absent" =>
         /\ srv.seq <= rec.seq
         /\ IsTerminal(rec.life) => srv.seq < rec.seq
    /\ srv.fault = "invalid" => queue.skipped

(* What is said of the Job. *)
SaidInv == ItemsInv /\ RecordInv /\ ServerInv

-------------------------------------------------------------------------------
(* Sessions *)

(* The session that was installed last. *)
Current == IF reg.at \in {"asked", "acked"} THEN sess - 1 ELSE sess

SessionInv ==
    /\ Current \in Sessions
    /\ open \in {0, Current}
    /\ reg.at \in {"asked", "acked"} => open = 0
    /\ reg.at \in {"installed", "replay"} => open = sess
    /\ sink <= Current /\ stopper.via <= Current
    /\ \A s \in Sessions :
         /\ s <= sess <=> kind[s] # "none"
         /\ \A t \in Sessions : s <= t /\ t <= sess /\ kind[s] = "http" => kind[t] = "http"
         /\ kind[s] # "stream" \/ s > Current => chan[s] = <<>>
    /\ worker.at = "posting" => kind[Current] = "http"
    /\ Waiting /\ reg.at \in {"acked", "installed", "replay"} =>
         reg.inv.life # "Absent" /\ reg.inv.seq <= srv.seq

-------------------------------------------------------------------------------
(* The way to the Server *)

(* Progress n is reached, from a base b, with what w and then q bring. *)
Told(q, n) == \E k \in DOMAIN q : n <= DoneSteps(q[k].prog)

Reached(b, w, q, n) == n <= b \/ Told(w, n) \/ Told(q, n)

(* What q brings, after w, raises the progress one step at a time. *)
Chain(b, w, q) ==
    \A i \in DOMAIN q :
        LET n == DoneSteps(q[i].prog) - 1
        IN  \/ n <= b \/ Told(w, n)
            \/ \E j \in DOMAIN q : j < i /\ n <= DoneSteps(q[j].prog)

Numbered(q, n) == \E k \in DOMAIN q : q[k].seq = n

(* For a Server that stands at progress b and number e, with w on its way: *)
(* what the worker wk has picked comes next, and what it has sent is there *)
(* or on its way;                                                          *)
WorkerTo(b, e, w, wk) ==
    /\ wk.at \in {"picked", "posting"} => Reached(b, w, <<>>, DoneSteps(wk.m.prog) - 1)
    /\ wk.at = "sent" => wk.m.seq <= e \/ Numbered(w, wk.m.seq)

(* the queue q brings one step after the other;                            *)
QueueTo(b, w, q) ==
    /\ Chain(b, w, q.required)
    /\ Reached(b, w, q.required, DoneSteps(q.output.prog) - 1)

(* no step of the record r is missing from the queue unless the carrier    *)
(* still holds it, and its end is missing from it in no other case.        *)
RecordTo(b, e, w, r, q, o) ==
    ~q.suspended =>
        /\ Reached(b, w, q.required, DoneSteps(r.prog) - 1)
        /\ \/ o["carrier"].semantic
           \/ Reached(b, w, q.required, DoneSteps(r.prog))
        /\ IsTerminal(r.life) =>
             \/ r.seq <= e
             \/ \E t \in {"carrier", "stop"} : o[t].semantic /\ o[t].seq = r.seq
             \/ Numbered(q.required, r.seq) \/ Numbered(w, r.seq)

DeliversTo(b, e, w, wk, r, q, o) ==
    /\ WorkerTo(b, e, w, wk)
    /\ r.life # "Absent" => QueueTo(b, w, q) /\ RecordTo(b, e, w, r, q, o)

Delivers(b, e, w) == DeliversTo(b, e, w, worker, rec, queue, owed)

Wire == IF open = 0 THEN <<>> ELSE chan[open]

(* Updates can reach the Server without another inventory. *)
Linked == open # 0 \/ reg.at = "acked" \/ kind[Current] = "http"

(* Where the Server will stand when it has taken the inventory. *)
Asked == reg.at = "asked" /\ reg.inv.life # "Absent"

AskedProg ==
    IF srv.known /\ DoneSteps(srv.prog) > DoneSteps(reg.inv.prog)
    THEN DoneSteps(srv.prog) ELSE DoneSteps(reg.inv.prog)

AskedSeq == IF srv.known /\ srv.seq > reg.inv.seq THEN srv.seq ELSE reg.inv.seq

WayInv ==
    ~queue.skipped =>
    /\ Waiting =>
         /\ Linked => Delivers(DoneSteps(srv.prog), srv.seq, Wire)
         /\ \A s \in Sessions : Chain(DoneSteps(srv.prog), <<>>, chan[s])
         /\ \A m \in posts : DoneSteps(m.prog) <= DoneSteps(srv.prog) + 1
    /\ Asked /\ (srv.known => ~IsTerminal(srv.life)) =>
         /\ Delivers(AskedProg, AskedSeq, <<>>)
         /\ \A s \in Sessions : \A k \in DOMAIN chan[s] :
               DoneSteps(chan[s][k].prog) <= AskedProg + 1
         /\ \A m \in posts : DoneSteps(m.prog) <= AskedProg + 1

DeliveryInv ==
    TypeOK /\ SaidInv /\ SessionInv /\ WayInv

-------------------------------------------------------------------------------
(* The delivery queue *)

Queues == [required: Seq(Message), output: Message, suspended: BOOLEAN,
           skipped: BOOLEAN]

QueueOK(q) == q \in Queues /\ Len(q.required) <= MaxRequired

Workers == [at: {"idle", "picked", "posting", "sent"}, m: Message, via: Sessions]

LEMMA NoMessageType ==
    /\ NoMessage \in Message /\ NoRecord \in JobRecord
    /\ Item(NoMessage) \in Nil /\ Item(NoRecord) \in Nil
    /\ DoneSteps(NoProgress) = 0
BY DeliveryAssumption
   DEF NoMessage, Message, NoRecord, JobRecord, Item, Nil, Lives, RunnerActiveStates,
       NoProgress, DoneSteps

(* Progress counts the steps that are done. *)
LEMMA DoneType ==
    ASSUME NEW p \in -1..Steps
    PROVE  DoneSteps(p) \in Nat /\ DoneSteps(p) <= Steps
BY DeliveryAssumption DEF DoneSteps, NoProgress

LEMMA ClearedFacts ==
    ASSUME NEW q \in Queues
    PROVE  /\ QueueOK(Cleared(q))
           /\ Cleared(q).required = <<>> /\ Cleared(q).output = NoMessage
           /\ Cleared(q).suspended = FALSE /\ Cleared(q).skipped = q.skipped
<1>1. <<>> \in Seq(Message) /\ Len(<<>>) = 0
  OBVIOUS
<1>2. NoMessage \in Message
  BY NoMessageType
<1>3. /\ Cleared(q) \in Queues
      /\ Cleared(q).required = <<>> /\ Cleared(q).output = NoMessage
      /\ Cleared(q).suspended = FALSE /\ Cleared(q).skipped = q.skipped
  BY <1>1, <1>2 DEF Cleared, Queues
<1>. QED
  BY <1>1, <1>2, <1>3, DeliveryAssumption DEF QueueOK

(* Mutually exclusive outcomes of an enqueue. *)
EnqueueKeeps(q, m, e) == q.suspended /\ e = q

EnqueueOutput(q, m, e) ==
    /\ ~q.suspended /\ ~m.semantic /\ ~e.suspended
    /\ e.required = q.required /\ e.output = m

EnqueueGivesUp(q, m, e) ==
    /\ ~q.suspended /\ e.suspended /\ e.required = <<>> /\ e.output = NoMessage
    /\ Len(q.required) >= MaxRequired

EnqueueReplaces(q, m, e) ==
    /\ ~q.suspended /\ ~e.suspended /\ m.semantic
    /\ e.output = NoMessage /\ Len(e.required) = Len(q.required)
    /\ Len(q.required) > 0 /\ q.required[Len(q.required)].seq = m.seq
    /\ e.required[Len(q.required)] = m
    /\ \A k \in 1..Len(q.required) : k # Len(q.required) => e.required[k] = q.required[k]

EnqueueAppends(q, m, e) ==
    /\ ~q.suspended /\ ~e.suspended /\ m.semantic
    /\ e.output = NoMessage /\ e.required = Append(q.required, m)

EnqueueResult(q, m, e) ==
    /\ QueueOK(e) /\ e.skipped = q.skipped
    /\ \/ EnqueueKeeps(q, m, e) \/ EnqueueOutput(q, m, e)
       \/ EnqueueGivesUp(q, m, e) \/ EnqueueReplaces(q, m, e)
       \/ EnqueueAppends(q, m, e)

LEMMA EnqueueFacts ==
    ASSUME NEW q, QueueOK(q), NEW m \in Message
    PROVE  EnqueueResult(q, m, Enqueue(q, m))
<1> SUFFICES ASSUME NEW e, e = Enqueue(q, m) PROVE EnqueueResult(q, m, e)
  OBVIOUS
<1>0. q \in Queues /\ q.required \in Seq(Message) /\ Len(q.required) \in Nat
      /\ m.semantic \in BOOLEAN /\ q.suspended \in BOOLEAN
      /\ Len(q.required) <= MaxRequired /\ MaxRequired \in Nat \ {0}
  BY DeliveryAssumption DEF QueueOK, Queues, Message
<1>1. CASE q.suspended
  BY <1>0, <1>1 DEF Enqueue, EnqueueKeeps, EnqueueResult
<1>2. CASE ~q.suspended /\ ~m.semantic
  <2>1. e = [q EXCEPT !.output = m]
    BY <1>2 DEF Enqueue
  <2>2. /\ e \in Queues /\ e.required = q.required /\ e.output = m
        /\ e.suspended = q.suspended /\ e.skipped = q.skipped
    BY <2>1, <1>0 DEF Queues
  <2>. QED
    BY <2>2, <1>0, <1>2 DEF EnqueueOutput, QueueOK, EnqueueResult
<1>3. CASE ~q.suspended /\ m.semantic /\ q.required # <<>> /\ Last(q.required).seq = m.seq
  <2>1. e = [q EXCEPT !.output = NoMessage,
                      !.required = Append(SubSeq(q.required, 1, Len(q.required) - 1), m)]
    BY <1>0, <1>3 DEF Enqueue, Front
  <2>2. Len(q.required) > 0
    BY <1>0, <1>3
  <2>3. /\ SubSeq(q.required, 1, Len(q.required) - 1) \in Seq(Message)
        /\ Len(SubSeq(q.required, 1, Len(q.required) - 1)) = Len(q.required) - 1
        /\ \A k \in 1..(Len(q.required) - 1) :
              SubSeq(q.required, 1, Len(q.required) - 1)[k] = q.required[k]
    BY <1>0, <2>2
  <2> DEFINE r == Append(SubSeq(q.required, 1, Len(q.required) - 1), m)
  <2>4. /\ r \in Seq(Message) /\ Len(r) = Len(q.required) /\ r[Len(q.required)] = m
        /\ \A k \in 1..Len(q.required) : k # Len(q.required) => r[k] = q.required[k]
    BY <1>0, <2>2, <2>3
  <2>5. e = [q EXCEPT !.output = NoMessage, !.required = r]
    BY <2>1
  <2> HIDE DEF r
  <2>6. NoMessage \in Message /\ q \in Queues /\ r \in Seq(Message)
    BY <1>0, <2>4, NoMessageType
  <2>7. /\ e \in Queues /\ e.required = r /\ e.output = NoMessage
        /\ e.suspended = q.suspended /\ e.skipped = q.skipped
    BY <2>5, <2>6 DEF Queues
  <2>. QED
    BY <1>0, <1>3, <2>2, <2>4, <2>6, <2>7 DEF EnqueueReplaces, QueueOK, Last, EnqueueResult
<1>4. CASE /\ ~q.suspended /\ m.semantic /\ Len(q.required) >= MaxRequired
           /\ ~(q.required # <<>> /\ Last(q.required).seq = m.seq)
  <2>1. e = [Cleared(q) EXCEPT !.suspended = TRUE]
    BY <1>0, <1>4 DEF Enqueue
  <2>2. Cleared(q) \in Queues
    BY <1>0, ClearedFacts DEF QueueOK
  <2>3. /\ e \in Queues /\ e.required = <<>> /\ e.output = NoMessage
        /\ e.suspended = TRUE /\ e.skipped = q.skipped
    <3>1. /\ e \in Queues /\ e.required = Cleared(q).required
          /\ e.output = Cleared(q).output
          /\ e.suspended = TRUE /\ e.skipped = Cleared(q).skipped
      BY <2>1, <2>2 DEF Queues
    <3>. QED
      BY <1>0, <3>1, ClearedFacts
  <2>. QED
    BY <1>0, <1>4, <2>3 DEF EnqueueGivesUp, QueueOK, EnqueueResult
<1>5. CASE /\ ~q.suspended /\ m.semantic /\ ~(Len(q.required) >= MaxRequired)
           /\ ~(q.required # <<>> /\ Last(q.required).seq = m.seq)
  <2>1. e = [q EXCEPT !.output = NoMessage, !.required = Append(q.required, m)]
    BY <1>0, <1>5 DEF Enqueue
  <2> DEFINE r == Append(q.required, m)
  <2>2. r \in Seq(Message) /\ Len(r) = Len(q.required) + 1
    BY <1>0
  <2>3. e = [q EXCEPT !.output = NoMessage, !.required = r]
    BY <2>1
  <2> HIDE DEF r
  <2>4. NoMessage \in Message /\ q \in Queues /\ r \in Seq(Message)
    BY <1>0, <2>2, NoMessageType
  <2>5. /\ e \in Queues /\ e.required = r /\ e.output = NoMessage
        /\ e.suspended = q.suspended /\ e.skipped = q.skipped
    BY <2>3, <2>4 DEF Queues
  <2>6. EnqueueAppends(q, m, e)
    BY <1>0, <1>5, <2>5 DEF EnqueueAppends, r
  <2>. QED
    BY <1>0, <1>5, <2>2, <2>4, <2>5, <2>6 DEF QueueOK, EnqueueResult
<1>. QED
  BY <1>0, <1>1, <1>2, <1>3, <1>4, <1>5

(* The first d updates have gone. *)
Dropped(q, r, d) ==
    /\ d \in 0..Len(q) /\ Len(r) = Len(q) - d
    /\ \A k \in 1..Len(r) : r[k] = q[k + d]

Shrinks(q, e, d) ==
    /\ QueueOK(e) /\ e.suspended = q.suspended /\ e.skipped = q.skipped
    /\ Dropped(q.required, e.required, d)
    /\ e.output \in {q.output, NoMessage}

LEMMA AcknowledgeFacts ==
    ASSUME NEW q, QueueOK(q), NEW n \in Nat
    PROVE  \E d \in 0..1 : /\ Shrinks(q, Acknowledge(q, n), d)
                           /\ \A k \in 1..d : q.required[k].seq = n
<1> SUFFICES ASSUME NEW e, e = Acknowledge(q, n)
             PROVE  \E d \in 0..1 : /\ Shrinks(q, e, d)
                                    /\ \A k \in 1..d : q.required[k].seq = n
  OBVIOUS
<1>0. q \in Queues /\ q.required \in Seq(Message) /\ Len(q.required) \in Nat
      /\ Len(q.required) <= MaxRequired /\ MaxRequired \in Nat \ {0}
      /\ q.output \in Message
  BY DeliveryAssumption DEF QueueOK, Queues, Message
<1>1. CASE q.required # <<>> /\ Head(q.required).seq = n
  <2>1. e = [q EXCEPT !.required = Tail(q.required)]
    BY <1>1 DEF Acknowledge
  <2> DEFINE r == Tail(q.required)
  <2>2. /\ Len(q.required) >= 1 /\ r \in Seq(Message) /\ Len(r) = Len(q.required) - 1
        /\ \A k \in 1..Len(r) : r[k] = q.required[k + 1]
        /\ q.required[1].seq = n
    BY <1>0, <1>1
  <2>3. e = [q EXCEPT !.required = r]
    BY <2>1
  <2> HIDE DEF r
  <2>4. /\ e \in Queues /\ e.required = r /\ e.output = q.output
        /\ e.suspended = q.suspended /\ e.skipped = q.skipped
    BY <1>0, <2>2, <2>3 DEF Queues
  <2>5. Shrinks(q, e, 1)
    BY <1>0, <2>2, <2>4 DEF Shrinks, QueueOK, Dropped
  <2>. QED
    BY <2>2, <2>5
<1>2. CASE ~(q.required # <<>> /\ Head(q.required).seq = n)
  <2>1. e = q \/ e = [q EXCEPT !.output = NoMessage]
    BY <1>2 DEF Acknowledge
  <2>2. NoMessage \in Message
    BY NoMessageType
  <2>3. /\ e \in Queues /\ e.required = q.required /\ e.output \in {q.output, NoMessage}
        /\ e.suspended = q.suspended /\ e.skipped = q.skipped
    BY <1>0, <2>1, <2>2 DEF Queues
  <2>4. Shrinks(q, e, 0)
    BY <1>0, <2>3 DEF Shrinks, QueueOK, Dropped
  <2>. QED
    BY <2>4
<1>. QED
  BY <1>1, <1>2

(* The least number of a set. *)
LEMMA LeastNumber ==
    ASSUME NEW S \in SUBSET Nat, S # {}
    PROVE  LET c == CHOOSE k \in S : \A l \in S : k <= l
           IN  c \in S /\ \A l \in S : c <= l
<1> DEFINE R == OpToRel(<, Nat)
<1>1. PICK x \in S : \A y \in S : ~(<<y, x>> \in R)
  BY WFMin, NatLessThanWellFounded
<1>2. \A y \in S : x <= y
  <2> SUFFICES ASSUME NEW y \in S, ~(x <= y) PROVE FALSE
    OBVIOUS
  <2>1. y < x
    OBVIOUS
  <2>2. <<y, x>> \in R
    BY <2>1 DEF OpToRel
  <2>. QED
    BY <1>1, <2>2
<1>. QED
  BY <1>2

LEMMA DiscardFacts ==
    ASSUME NEW q, QueueOK(q), NEW n \in Nat
    PROVE  \E d \in Nat : /\ Shrinks(q, DiscardThrough(q, n), d)
                          /\ \A k \in 1..d : q.required[k].seq <= n
<1> DEFINE keep == { k \in 1..Len(q.required) : q.required[k].seq > n }
           first == IF keep = {} THEN Len(q.required) + 1
                    ELSE CHOOSE k \in keep : \A l \in keep : k <= l
           r == SubSeq(q.required, first, Len(q.required))
           o == IF q.output.seq <= n THEN NoMessage ELSE q.output
           e == DiscardThrough(q, n)
<1>0. q \in Queues /\ q.required \in Seq(Message) /\ Len(q.required) \in Nat
      /\ Len(q.required) <= MaxRequired /\ MaxRequired \in Nat \ {0}
      /\ q.output \in Message
  BY DeliveryAssumption DEF QueueOK, Queues, Message
<1>1. first \in 1..(Len(q.required) + 1) /\ \A k \in 1..(first - 1) : k \notin keep
  <2>1. CASE keep = {}
    BY <1>0, <2>1
  <2>2. CASE keep # {}
    <3>1. keep \in SUBSET Nat
      BY <1>0
    <3>2. first \in keep /\ \A l \in keep : first <= l
      <4> HIDE DEF keep
      <4>. QED
        BY <2>2, <3>1, LeastNumber
    <3> HIDE DEF first
    <3>. QED
      BY <1>0, <3>2
  <2>. QED
    BY <2>1, <2>2
<1>2. e = [q EXCEPT !.required = r, !.output = o]
  BY DEF DiscardThrough
<1> HIDE DEF first
<1>3. \A k \in 1..(first - 1) : q.required[k].seq <= n
  <2> TAKE k \in 1..(first - 1)
  <2>1. k \in 1..Len(q.required) /\ q.required[k] \in Message
    BY <1>0, <1>1
  <2>2. q.required[k].seq \in Nat
    BY <2>1 DEF Message
  <2>. QED
    BY <1>1, <2>1, <2>2
<1>4. /\ r \in Seq(Message) /\ Len(r) = Len(q.required) - (first - 1)
      /\ \A k \in 1..Len(r) : r[k] = q.required[k + (first - 1)]
  BY <1>0, <1>1
<1>5. o \in Message /\ o \in {q.output, NoMessage}
  BY <1>0, NoMessageType
<1> HIDE DEF r, o, e
<1>6. /\ e \in Queues /\ e.required = r /\ e.output = o
      /\ e.suspended = q.suspended /\ e.skipped = q.skipped
  BY <1>0, <1>2, <1>4, <1>5 DEF Queues
<1>7. Shrinks(q, e, first - 1)
  BY <1>0, <1>1, <1>4, <1>5, <1>6 DEF Shrinks, QueueOK, Dropped
<1>. QED
  BY <1>1, <1>3, <1>7 DEF e

(* The snapshot that a replay sends. *)
Snapshot(now) ==
    [life |-> now.life, seq |-> now.seq, prog |-> now.prog, semantic |-> TRUE]

(* Outcomes of a replay, after what the inventory covers has gone: the     *)
(* queue stays suspended, it goes on, it gets the snapshot, or it is       *)
(* suspended.                                                              *)
ReplayStays(kept, e) == kept.suspended /\ e = kept

ReplayGoesOn(kept, inv, e) ==
    /\ ~e.suspended /\ e.required = kept.required /\ e.output = kept.output
    /\ kept.suspended /\ rec.seq > inv.seq => e.skipped

ReplaySends(kept, inv, now, e) ==
    /\ ~kept.suspended /\ ~e.suspended /\ e.output = NoMessage
    /\ kept.required = <<>> /\ kept.output = NoMessage
    /\ e.required = <<Snapshot(now)>> /\ ReplaySafe(inv, now)

ReplayGivesUp(e) == e.suspended /\ e.required = <<>> /\ e.output = NoMessage

ReplayResult(q, inv, now, e) ==
    /\ QueueOK(e) /\ (q.skipped => e.skipped)
    /\ \E d \in Nat, kept \in Queues :
         /\ Shrinks(q, kept, d)
         /\ \A k \in 1..d : q.required[k].seq <= inv.seq
         /\ \/ ReplayStays(kept, e) \/ ReplayGoesOn(kept, inv, e)
            \/ ReplaySends(kept, inv, now, e) \/ ReplayGivesUp(e)

LEMMA ReplayFacts ==
    ASSUME NEW q, QueueOK(q), NEW inv \in JobRecord, NEW now \in JobRecord,
           now.life # "Absent", rec \in JobRecord
    PROVE  ReplayResult(q, inv, now, Replayed(q, inv, now))
<1> SUFFICES ASSUME NEW e, e = Replayed(q, inv, now)
             PROVE  ReplayResult(q, inv, now, e)
  OBVIOUS
<1>0. inv.seq \in Nat /\ now.seq \in Nat /\ Snapshot(now) \in Message
      /\ rec.seq \in Nat
  BY DEF JobRecord, Snapshot, Message
<1> DEFINE kept == DiscardThrough(q, inv.seq)
           live == [kept EXCEPT !.suspended = FALSE, !.skipped =
                      kept.skipped \/ (kept.suspended /\ rec.seq > inv.seq)]
<1>1. PICK d \in Nat : /\ Shrinks(q, kept, d)
                       /\ \A k \in 1..d : q.required[k].seq <= inv.seq
  BY <1>0, DiscardFacts
<1>2. /\ e = IF kept.suspended /\ now.seq > inv.seq THEN kept
              ELSE IF ~(now.seq > inv.seq) \/ ~IsEmptyQueue(live) THEN live
              ELSE IF ReplaySafe(inv, now) THEN Enqueue(live, Snapshot(now))
              ELSE [live EXCEPT !.suspended = TRUE]
  BY DEF Replayed, Snapshot
<1>3. live = [kept EXCEPT !.suspended = FALSE, !.skipped =
                kept.skipped \/ (kept.suspended /\ rec.seq > inv.seq)]
  OBVIOUS
<1> HIDE DEF kept, live
<1>4. /\ kept \in Queues /\ QueueOK(kept) /\ kept.skipped = q.skipped
      /\ kept.skipped \in BOOLEAN /\ kept.suspended \in BOOLEAN
  BY <1>1 DEF Shrinks, QueueOK, Queues
<1>5. /\ live \in Queues /\ live.required = kept.required /\ live.output = kept.output
      /\ live.suspended = FALSE
      /\ live.skipped = (kept.skipped \/ (kept.suspended /\ rec.seq > inv.seq))
  <2> DEFINE f == kept.skipped \/ (kept.suspended /\ rec.seq > inv.seq)
  <2>1. f \in BOOLEAN
    BY <1>0, <1>4
  <2>2. live = [kept EXCEPT !.suspended = FALSE, !.skipped = f]
    BY <1>3
  <2> HIDE DEF f
  <2>3. /\ live \in Queues /\ live.required = kept.required /\ live.output = kept.output
        /\ live.suspended = FALSE /\ live.skipped = f
    BY <1>4, <2>1, <2>2 DEF Queues
  <2>. QED
    BY <2>3 DEF f
<1>6. QueueOK(live)
  BY <1>4, <1>5 DEF QueueOK
<1>7. CASE kept.suspended /\ now.seq > inv.seq
  <2>1. ReplayStays(kept, e)
    BY <1>2, <1>7 DEF ReplayStays
  <2>. QED
    BY <1>1, <1>4, <2>1 DEF ReplayResult, ReplayStays
<1>8. CASE /\ ~(kept.suspended /\ now.seq > inv.seq)
           /\ ~(now.seq > inv.seq) \/ ~IsEmptyQueue(live)
  <2>1. e = live
    BY <1>2, <1>8
  <2>2. ReplayGoesOn(kept, inv, e) /\ (q.skipped => e.skipped)
    BY <1>4, <1>5, <2>1 DEF ReplayGoesOn
  <2>. QED
    BY <1>1, <1>4, <1>6, <2>1, <2>2 DEF ReplayResult
<1>9. CASE /\ ~kept.suspended /\ now.seq > inv.seq
           /\ IsEmptyQueue(live) /\ ReplaySafe(inv, now)
  <2>1. e = Enqueue(live, Snapshot(now))
    BY <1>2, <1>9
  <2>2. EnqueueResult(live, Snapshot(now), e)
    BY <1>0, <1>6, <2>1, EnqueueFacts
  <2>3. Snapshot(now).semantic = TRUE
    BY DEF Snapshot
  <2>4. live.required = <<>> /\ live.output = NoMessage /\ Len(live.required) = 0
    BY <1>9 DEF IsEmptyQueue
  <2>5. EnqueueAppends(live, Snapshot(now), e) /\ QueueOK(e) /\ e.skipped = live.skipped
    BY <1>5, <2>2, <2>3, <2>4, DeliveryAssumption
       DEF EnqueueResult, EnqueueKeeps, EnqueueOutput, EnqueueGivesUp, EnqueueReplaces
  <2>6. e.required = <<Snapshot(now)>>
    BY <2>4, <2>5 DEF EnqueueAppends
  <2>7. ReplaySends(kept, inv, now, e) /\ (q.skipped => e.skipped)
    BY <1>4, <1>5, <1>9, <2>4, <2>5, <2>6 DEF ReplaySends, EnqueueAppends
  <2>. QED
    BY <1>1, <1>4, <2>5, <2>7 DEF ReplayResult
<1>10. CASE /\ ~kept.suspended /\ now.seq > inv.seq
            /\ IsEmptyQueue(live) /\ ~ReplaySafe(inv, now)
  <2>1. e = [live EXCEPT !.suspended = TRUE]
    BY <1>2, <1>10
  <2>2. /\ e \in Queues /\ e.required = live.required /\ e.output = live.output
        /\ e.suspended = TRUE /\ e.skipped = live.skipped
    BY <1>5, <2>1 DEF Queues
  <2>3. ReplayGivesUp(e) /\ (q.skipped => e.skipped) /\ QueueOK(e)
    BY <1>4, <1>5, <1>6, <1>10, <2>2 DEF ReplayGivesUp, IsEmptyQueue, QueueOK
  <2>. QED
    BY <1>1, <1>4, <2>3 DEF ReplayResult
<1>. QED
  BY <1>7, <1>8, <1>9, <1>10

-------------------------------------------------------------------------------
(* What is under way, step by step *)

Owed == [{"carrier", "stop"} -> Message]

ItemType(x) ==
    /\ x[1] \in Lives \cup {"Absent"} /\ x[2] \in Nat /\ x[3] \in -1..Steps
    /\ DoneSteps(x[3]) \in Nat

LEMMA ItemOfType ==
    ASSUME NEW m, m \in Message \/ m \in JobRecord
    PROVE  /\ ItemType(Item(m))
           /\ Item(m)[1] = m.life /\ Item(m)[2] = m.seq /\ Item(m)[3] = m.prog
<1>1. m.life \in Lives \cup {"Absent"} /\ m.seq \in Nat /\ m.prog \in -1..Steps
  BY DEF Message, JobRecord
<1>2. DoneSteps(m.prog) \in Nat
  BY <1>1, DoneType
<1>3. Item(m)[1] = m.life /\ Item(m)[2] = m.seq /\ Item(m)[3] = m.prog
  BY DEF Item
<1>. QED
  BY <1>1, <1>2, <1>3 DEF ItemType

LEMMA ItemsTyped ==
    ASSUME TypeOK, NEW x \in Items
    PROVE  ItemType(x)
<1>1. CASE x \in Nil
  <2>1. ItemType(<<"Absent", 0, NoProgress>>) /\ ItemType(<<"RunnerQueued", 0, NoProgress>>)
    BY NoMessageType, DeliveryAssumption
       DEF ItemType, Lives, RunnerActiveStates, NoProgress
  <2>. QED
    BY <1>1, <2>1 DEF Nil
<1>2. CASE x \in { Item(rec), Item(owed["carrier"]), Item(owed["stop"]),
                   Item(queue.output), Item(worker.m), Item(reg.inv), Item(reg.now) }
  <2>1. /\ rec \in JobRecord /\ owed["carrier"] \in Message /\ owed["stop"] \in Message
        /\ queue.output \in Message /\ worker.m \in Message
        /\ reg.inv \in JobRecord /\ reg.now \in JobRecord
    BY DEF TypeOK
  <2>. QED
    BY <1>2, <2>1, ItemOfType
<1>3. CASE x \in ItemsOf(queue.required)
  <2>1. PICK k \in DOMAIN queue.required : x = Item(queue.required[k])
    BY <1>3 DEF ItemsOf
  <2>2. queue.required[k] \in Message
    BY <2>1 DEF TypeOK
  <2>. QED
    BY <2>1, <2>2, ItemOfType
<1>4. CASE x \in UNION { ItemsOf(chan[s]) : s \in Sessions }
  <2>1. PICK s \in Sessions : x \in ItemsOf(chan[s])
    BY <1>4
  <2>2. PICK k \in DOMAIN chan[s] : x = Item(chan[s][k])
    BY <2>1 DEF ItemsOf
  <2>3. chan[s] \in Seq(Message)
    BY DEF TypeOK
  <2>4. chan[s][k] \in Message
    BY <2>2, <2>3
  <2>. QED
    BY <2>2, <2>4, ItemOfType
<1>5. CASE x \in { Item(m) : m \in posts }
  <2>1. PICK m \in posts : x = Item(m)
    BY <1>5
  <2>2. m \in Message
    BY <2>1 DEF TypeOK
  <2>. QED
    BY <2>1, <2>2, ItemOfType
<1>. QED
  BY <1>1, <1>2, <1>3, <1>4, <1>5 DEF Items

LEMMA HasItems ==
    /\ Nil \subseteq Items
    /\ Item(rec) \in Items /\ Item(owed["carrier"]) \in Items
    /\ Item(owed["stop"]) \in Items /\ Item(queue.output) \in Items
    /\ Item(worker.m) \in Items /\ Item(reg.inv) \in Items /\ Item(reg.now) \in Items
    /\ ItemsOf(queue.required) \subseteq Items
    /\ \A s \in Sessions : ItemsOf(chan[s]) \subseteq Items
    /\ \A m \in posts : Item(m) \in Items
BY DEF Items

(* A step adds no item but what it writes into the record. *)
LEMMA ItemsNext ==
    ASSUME Item(owed'["carrier"]) \in Items \cup {Item(rec')},
           Item(owed'["stop"]) \in Items \cup {Item(rec')},
           Item(queue'.output) \in Items, Item(worker'.m) \in Items,
           Item(reg'.inv) \in Items, Item(reg'.now) \in Items,
           ItemsOf(queue'.required) \subseteq Items,
           \A s \in Sessions : ItemsOf(chan'[s]) \subseteq Items,
           \A m \in posts' : Item(m) \in Items
    PROVE  Items' \subseteq Items \cup {Item(rec')}
<1>1. { Item(m) : m \in posts' } \subseteq Items
  OBVIOUS
<1>2. UNION { ItemsOf(chan'[s]) : s \in Sessions } \subseteq Items
  OBVIOUS
<1>3. Nil \subseteq Items
  BY HasItems
<1>4. Items' = Nil \cup
        { Item(rec'), Item(owed'["carrier"]), Item(owed'["stop"]), Item(queue'.output),
          Item(worker'.m), Item(reg'.inv), Item(reg'.now) }
        \cup ItemsOf(queue'.required)
        \cup (UNION { ItemsOf(chan'[s]) : s \in Sessions })
        \cup { Item(m) : m \in posts' }
  BY DEF Items, Item, ItemsOf
<1> HIDE DEF Items
<1>. QED
  BY <1>1, <1>2, <1>3, <1>4

(* A step that neither records nor reaches the Server. *)
LEMMA QuietSaid ==
    ASSUME TypeOK, SaidInv, rec' = rec, srv' = srv, Items' \subseteq Items,
           carrier' = carrier \/ (carrier = "held" /\ carrier' = "insert"),
           owed'["carrier"] \in {owed["carrier"], NoMessage},
           queue.skipped => queue'.skipped
    PROVE  SaidInv'
<1>1. ItemsInv'
  <2>1. \A x \in Items' : ShapeOK(x)' /\ EndOK(x)'
    BY DEF SaidInv, ItemsInv, ShapeOK, EndOK
  <2>2. \A x, y \in Items' : InOrder(x, y)'
    BY DEF SaidInv, ItemsInv, InOrder
  <2>. QED
    BY <2>1, <2>2 DEF ItemsInv
<1>2. RecordInv'
  BY DEF SaidInv, RecordInv
<1>3. ServerInv'
  BY DEF SaidInv, ServerInv, Waiting
<1>. QED
  BY <1>1, <1>2, <1>3 DEF SaidInv

(* The record appears. *)
LEMMA InsertSaid ==
    ASSUME TypeOK, SaidInv, carrier = "insert", carrier' = "announce",
           rec' = [life |-> "RunnerQueued", seq |-> 0, prog |-> NoProgress],
           srv' = srv, owed' = owed, queue' = queue,
           Items' \subseteq Items \cup {Item(rec')}
    PROVE  SaidInv'
<1>0. rec'.life = "RunnerQueued" /\ rec'.seq = 0 /\ rec'.prog = NoProgress
  OBVIOUS
<1>1. Items' \subseteq Items
  BY <1>0, HasItems DEF Nil, Item
<1>2. \A x \in Items : x[2] = 0 /\ x[3] = NoProgress /\ ~IsTerminal(x[1])
  BY DEF SaidInv, ItemsInv, RecordInv, EndOK
<1>3. srv.seq = 0 /\ ~(IsTerminal(srv.life) /\ srv.fault = "none" /\ srv.life # "Lost")
  BY DEF SaidInv, ServerInv, RecordInv
<1>4. owed["carrier"] \in Message /\ Item(owed["carrier"]) \in Items
  BY HasItems DEF TypeOK
<1>5. owed["carrier"].prog = NoProgress
  BY <1>2, <1>4, ItemOfType
<1>6. ~IsTerminal(rec'.life)
  BY <1>0 DEF IsTerminal, TerminalStates
<1>7. ItemsInv'
  <2>1. \A x \in Items' : ShapeOK(x)' /\ EndOK(x)'
    BY <1>1, <1>2 DEF SaidInv, ItemsInv, ShapeOK, EndOK
  <2>2. \A x, y \in Items' : InOrder(x, y)'
    BY <1>1 DEF SaidInv, ItemsInv, InOrder
  <2>. QED
    BY <2>1, <2>2 DEF ItemsInv
<1>8. RecordInv'
  BY <1>0, <1>1, <1>2, <1>5, <1>6 DEF SaidInv, RecordInv
<1>9. ServerInv'
  BY <1>0, <1>1, <1>3, <1>6 DEF SaidInv, ServerInv, Waiting
<1>. QED
  BY <1>7, <1>8, <1>9 DEF SaidInv

(* The finished record goes. *)
LEMMA PruneSaid ==
    ASSUME TypeOK, SaidInv, rec' = NoRecord, IsTerminal(rec.life), carrier' = carrier,
           srv' = srv, owed' = owed, queue.skipped => queue'.skipped,
           Items' \subseteq Items
    PROVE  SaidInv'
<1>0. rec'.life = "Absent" /\ ~IsTerminal(rec'.life)
  BY DEF NoRecord, IsTerminal, TerminalStates
<1>1. carrier \in {"announce", "work"}
  <2>1. rec.life # "Absent"
    BY DEF IsTerminal, TerminalStates
  <2>. QED
    BY <2>1 DEF TypeOK, SaidInv, RecordInv, NoRecord
<1>2. ItemsInv'
  <2>1. \A x \in Items' : ShapeOK(x)' /\ EndOK(x)'
    BY <1>0, <1>1 DEF SaidInv, ItemsInv, ShapeOK, EndOK
  <2>2. \A x, y \in Items' : InOrder(x, y)'
    BY DEF SaidInv, ItemsInv, InOrder
  <2>. QED
    BY <2>1, <2>2 DEF ItemsInv
<1>3. RecordInv'
  BY <1>0, <1>1 DEF SaidInv, RecordInv, NoRecord
<1>4. ServerInv'
  BY <1>0, <1>1 DEF SaidInv, ServerInv, Waiting
<1>. QED
  BY <1>2, <1>3, <1>4 DEF SaidInv

(* Thread t has recorded. *)
RecordStep(t) ==
    /\ rec.life # "Absent" /\ ~IsTerminal(rec.life) /\ owed[t] = NoMessage
    /\ rec' \in JobRecord /\ rec'.life # "Absent" /\ rec'.seq = rec.seq + 1
    /\ ShapeOK(Item(rec'))
    /\ DoneSteps(rec'.prog) \in {DoneSteps(rec.prog), DoneSteps(rec.prog) + 1}
    /\ owed' \in Owed /\ Item(owed'[t]) = Item(rec')
    /\ \A u \in {"carrier", "stop"} : u # t => owed'[u] = owed[u]
    /\ t = "stop" => rec'.prog = rec.prog
    /\ DoneSteps(rec'.prog) # DoneSteps(rec.prog) => owed'[t].semantic
    /\ IsTerminal(rec'.life) => owed'[t].semantic

LEMMA RecordSaid ==
    ASSUME TypeOK, SaidInv, NEW t \in {"carrier", "stop"}, RecordStep(t),
           carrier' \in {"announce", "work"},
           carrier' = "announce" => rec'.prog = NoProgress,
           srv' = srv, queue' = queue, Items' \subseteq Items \cup {Item(rec')}
    PROVE  SaidInv'
<1> DEFINE z == Item(rec')
<1>0. /\ z[1] = rec'.life /\ z[2] = rec'.seq /\ z[3] = rec'.prog /\ ItemType(z)
      /\ rec'.seq = rec.seq + 1 /\ rec.seq \in Nat
      /\ DoneSteps(rec.prog) \in Nat
  <2>1. rec \in JobRecord
    BY DEF TypeOK
  <2>2. rec.seq \in Nat /\ rec.prog \in -1..Steps
    BY <2>1 DEF JobRecord
  <2>. QED
    BY <2>2, ItemOfType, DoneType DEF RecordStep
<1>1. Item(rec) \in Items /\ Item(rec)[2] = rec.seq /\ Item(rec)[3] = rec.prog
      /\ Item(rec)[1] = rec.life
  BY HasItems, ItemOfType DEF TypeOK
<1>2. \A x \in Items : ItemType(x)
  BY ItemsTyped
<1>3. \A x \in Items : x[2] <= rec.seq
  BY DEF SaidInv, RecordInv, RecordStep
<1>4. \A x \in Items : DoneSteps(x[3]) <= DoneSteps(rec.prog)
  BY <1>1, <1>3 DEF SaidInv, ItemsInv, InOrder
<1>5. DoneSteps(rec.prog) <= DoneSteps(rec'.prog)
  BY <1>0 DEF RecordStep
<1>6. \A x \in Items : ~IsTerminal(x[1])
  BY <1>1 DEF SaidInv, ItemsInv, EndOK, RecordStep
<1> HIDE DEF z
<1>7. Items' \subseteq Items \cup {z}
  BY DEF z
<1>8. ItemsInv'
  <2>1. \A x \in Items' : ShapeOK(x)' /\ EndOK(x)'
    <3>1. ShapeOK(z)
      BY DEF RecordStep, z
    <3>2. \A x \in Items : ShapeOK(x)
      BY DEF SaidInv, ItemsInv
    <3>. QED
      BY <1>0, <1>6, <1>7, <3>1, <3>2 DEF ShapeOK, EndOK
  <2>2. \A x, y \in Items' : InOrder(x, y)'
    <3>1. \A x, y \in Items : InOrder(x, y)
      BY DEF SaidInv, ItemsInv
    <3>2. \A x \in Items : InOrder(x, z) /\ InOrder(z, x)
      <4> TAKE x \in Items
      <4>1. x[2] \in Nat /\ DoneSteps(x[3]) \in Nat /\ DoneSteps(z[3]) \in Nat
        BY <1>0, <1>2 DEF ItemType
      <4>2. x[2] <= rec.seq /\ DoneSteps(x[3]) <= DoneSteps(rec.prog)
        BY <1>3, <1>4
      <4>. QED
        BY <4>1, <4>2, <1>0, <1>5 DEF InOrder
    <3>3. InOrder(z, z)
      BY <1>0 DEF InOrder, ItemType
    <3>. QED
      BY <1>7, <3>1, <3>2, <3>3 DEF InOrder
  <2>. QED
    BY <2>1, <2>2 DEF ItemsInv
<1>9. RecordInv'
  <2>1. rec'.life # "Absent"
    BY DEF RecordStep
  <2>2. \A x \in Items' : x[2] <= rec'.seq
    <3> TAKE x \in Items'
    <3>1. CASE x = z
      BY <3>1, <1>0
    <3>2. CASE x \in Items
      BY <3>2, <1>0, <1>2, <1>3 DEF ItemType
    <3>. QED
      BY <3>1, <3>2, <1>7
  <2>3. \A x \in Items' : x[2] = rec'.seq => x[1] = rec'.life
    <3> TAKE x \in Items'
    <3>1. CASE x = z
      BY <3>1, <1>0
    <3>2. CASE x \in Items
      BY <3>2, <1>0, <1>2, <1>3 DEF ItemType
    <3>. QED
      BY <3>1, <3>2, <1>7
  <2>4. owed'["carrier"] # NoMessage => owed'["carrier"].prog = rec'.prog
    <3>1. CASE t = "carrier"
      <4>1. owed'["carrier"] \in Message /\ Item(owed'["carrier"]) = z
        BY <3>1 DEF RecordStep, Owed, z
      <4>2. Item(owed'["carrier"])[3] = owed'["carrier"].prog
        BY <4>1, ItemOfType
      <4>. QED
        BY <4>1, <4>2, <1>0
    <3>2. CASE t = "stop"
      <4>1. owed'["carrier"] = owed["carrier"] /\ rec'.prog = rec.prog
        BY <3>2 DEF RecordStep
      <4>. QED
        BY <4>1 DEF SaidInv, RecordInv, RecordStep
    <3>. QED
      BY <3>1, <3>2
  <2>. QED
    BY <2>1, <2>2, <2>3, <2>4 DEF RecordInv
<1>10. ServerInv'
  <2>1. Waiting =>
          /\ srv.seq <= rec.seq /\ srv.seq \in Nat
          /\ DoneSteps(srv.prog) <= DoneSteps(rec.prog) /\ DoneSteps(srv.prog) \in Nat
    <3>1. srv.seq \in Nat /\ srv.prog \in -1..Steps
      BY DEF TypeOK
    <3>. QED
      BY <1>1, <3>1, DoneType DEF SaidInv, ServerInv, RecordStep
  <2>2. Waiting =>
         \A x \in Items' :
            /\ x[2] <= srv.seq => DoneSteps(x[3]) <= DoneSteps(srv.prog)
            /\ x[2] >= srv.seq => DoneSteps(x[3]) >= DoneSteps(srv.prog)
    <3> SUFFICES ASSUME Waiting, NEW x \in Items'
                 PROVE  /\ x[2] <= srv.seq => DoneSteps(x[3]) <= DoneSteps(srv.prog)
                        /\ x[2] >= srv.seq => DoneSteps(x[3]) >= DoneSteps(srv.prog)
      OBVIOUS
    <3>1. CASE x = z
      <4>1. DoneSteps(z[3]) \in Nat
        BY <1>0 DEF ItemType
      <4>. QED
        BY <3>1, <4>1, <1>0, <1>5, <2>1
    <3>2. CASE x \in Items
      BY <3>2 DEF SaidInv, ServerInv
    <3>. QED
      BY <3>1, <3>2, <1>7
  <2>3. srv.fault = "invalid" => queue.skipped
    BY DEF SaidInv, ServerInv
  <2>4. ~(IsTerminal(srv.life) /\ srv.fault = "none" /\ srv.life # "Lost")
    BY DEF SaidInv, ServerInv, RecordStep
  <2>5. Waiting => srv.seq < rec'.seq
    BY <1>0, <2>1
  <2>6. Waiting' <=> Waiting
    BY DEF Waiting
  <2>. QED
    BY <2>1, <2>2, <2>3, <2>4, <2>5, <2>6, <1>0 DEF ServerInv
<1>. QED
  BY <1>8, <1>9, <1>10 DEF SaidInv

(* The Server's record. *)
Servers == [known: BOOLEAN, life: Lives, seq: Nat, prog: -1..Steps,
            fault: {"none", "missing", "invalid"}]

(* What an update or an inventory does to a Server that waits. *)
Takes(x) ==
    /\ srv'.known /\ srv'.life = x[1] /\ srv'.seq = x[2] /\ srv'.fault = srv.fault
    /\ srv'.prog = x[3] \/ (x[3] = NoProgress /\ srv'.prog = srv.prog)

LEMMA UpdateResult ==
    ASSUME srv \in Servers, NEW m \in Message, ShapeOK(Item(m)),
           srv' = AfterUpdate(srv, m),
           Waiting => DoneSteps(srv.prog) <= DoneSteps(m.prog) \/ m.seq <= srv.seq,
           Waiting => DoneSteps(m.prog) <= DoneSteps(srv.prog) + 1 \/ queue.skipped
    PROVE  /\ srv' \in Servers
           /\ \/ srv' = srv /\ (Waiting => m.seq <= srv.seq)
              \/ Waiting /\ m.seq > srv.seq /\ Takes(Item(m))
              \/ /\ Waiting /\ IsTerminal(srv'.life) /\ srv'.known
                 /\ srv'.fault # "none" /\ (srv'.fault = "invalid" => queue.skipped)
<1>0. /\ m.life \in Lives /\ m.seq \in Nat /\ m.prog \in -1..Steps
      /\ srv.known \in BOOLEAN /\ srv.seq \in Nat /\ srv.prog \in -1..Steps
      /\ Item(m)[1] = m.life /\ Item(m)[2] = m.seq /\ Item(m)[3] = m.prog
  BY ItemOfType DEF Servers, Message
<1>1. CASE ~srv.known \/ m.seq <= srv.seq \/ IsTerminal(srv.life)
  BY <1>1, <1>0 DEF AfterUpdate, Waiting
<1>2. CASE Waiting /\ m.seq > srv.seq /\ ValidProgress(srv.prog, m)
  <2>1. srv' = [srv EXCEPT !.life = m.life, !.seq = m.seq,
                           !.prog = IF m.prog = NoProgress THEN srv.prog ELSE m.prog]
    BY <1>2, <1>0 DEF AfterUpdate, Waiting
  <2> DEFINE p == IF m.prog = NoProgress THEN srv.prog ELSE m.prog
  <2>2. p \in -1..Steps /\ (p = m.prog \/ (m.prog = NoProgress /\ p = srv.prog))
    BY <1>0
  <2>3. srv' = [srv EXCEPT !.life = m.life, !.seq = m.seq, !.prog = p]
    BY <2>1
  <2> HIDE DEF p
  <2>4. /\ srv' \in Servers /\ srv'.known = srv.known /\ srv'.life = m.life
        /\ srv'.seq = m.seq /\ srv'.prog = p /\ srv'.fault = srv.fault
    BY <1>0, <2>2, <2>3 DEF Servers
  <2>. QED
    BY <1>0, <1>2, <2>2, <2>4 DEF Takes, Waiting
<1>3. CASE Waiting /\ m.seq > srv.seq /\ ~ValidProgress(srv.prog, m)
  <2>1. srv' = [srv EXCEPT !.life = "Failed", !.seq = m.seq,
                   !.fault = IF m.prog = NoProgress THEN "missing" ELSE "invalid"]
    BY <1>3, <1>0 DEF AfterUpdate, Waiting
  <2> DEFINE f == IF m.prog = NoProgress THEN "missing" ELSE "invalid"
  <2>2. srv' = [srv EXCEPT !.life = "Failed", !.seq = m.seq, !.fault = f]
    BY <2>1
  <2>3. f \in {"missing", "invalid"} /\ (f = "invalid" => m.prog # NoProgress)
    OBVIOUS
  <2> HIDE DEF f
  <2>4. "Failed" \in Lives /\ IsTerminal("Failed")
    BY DEF Lives, TerminalStates, IsTerminal
  <2>5. /\ srv' \in Servers /\ srv'.known = srv.known /\ srv'.life = "Failed"
        /\ srv'.fault = f
    BY <1>0, <2>2, <2>3, <2>4 DEF Servers
  <2>6. f = "invalid" => queue.skipped
    <3> SUFFICES ASSUME m.prog # NoProgress, ~queue.skipped PROVE FALSE
      BY <2>3
    <3>1. DoneSteps(srv.prog) <= DoneSteps(m.prog)
          /\ DoneSteps(m.prog) <= DoneSteps(srv.prog) + 1
      BY <1>0, <1>3
    <3>2. DoneSteps(m.prog) = m.prog /\ DoneSteps(srv.prog) \in Nat
      BY <1>0, DoneType DEF DoneSteps
    <3>3. m.prog \in DoneSteps(srv.prog)..(DoneSteps(srv.prog) + 1)
      BY <1>0, <3>1, <3>2
    <3>. QED
      BY <1>0, <1>3, <3>3 DEF ValidProgress, ShapeOK
  <2>. QED
    BY <1>3, <2>3, <2>4, <2>5, <2>6 DEF Waiting
<1>. QED
  BY <1>0, <1>1, <1>2, <1>3 DEF Waiting

(* The Runner's side of what is said stays as it is. *)
RunnerStays ==
    /\ rec' = rec /\ carrier' = carrier /\ owed' = owed /\ Items' \subseteq Items
    /\ queue.skipped => queue'.skipped

LEMMA RunnerStaysSaid ==
    ASSUME TypeOK, SaidInv, RunnerStays,
           carrier \in {"held", "insert"} => srv'.seq = 0 /\ srv'.prog = NoProgress
    PROVE  ItemsInv' /\ RecordInv'
<1>1. ItemsInv'
  <2>1. \A x \in Items' : ShapeOK(x)' /\ EndOK(x)'
    BY DEF SaidInv, ItemsInv, ShapeOK, EndOK, RunnerStays
  <2>2. \A x, y \in Items' : InOrder(x, y)'
    BY DEF SaidInv, ItemsInv, InOrder, RunnerStays
  <2>. QED
    BY <2>1, <2>2 DEF ItemsInv
<1>2. RecordInv'
  BY DEF SaidInv, RecordInv, RunnerStays
<1>. QED
  BY <1>1, <1>2

(* The Server takes what item x says. *)
LEMMA TakenSaid ==
    ASSUME TypeOK, SaidInv, RunnerStays, NEW x \in Items, x[2] > 0,
           srv'.known, srv'.life = x[1], srv'.seq = x[2],
           \/ srv'.prog = x[3]
           \/ /\ x[3] = NoProgress /\ srv'.prog = srv.prog
              /\ Waiting /\ x[2] >= srv.seq,
           srv'.fault = "invalid" => queue'.skipped
    PROVE  SaidInv'
<1>0. \A y \in Items : ItemType(y)
  BY ItemsTyped
<1>1. carrier \notin {"held", "insert"}
  BY <1>0 DEF SaidInv, RecordInv
<1>2. ItemsInv' /\ RecordInv'
  BY <1>1, RunnerStaysSaid
<1>3. IsTerminal(srv'.life) => carrier' \in {"announce", "work"}
                              /\ rec'.life \in {srv'.life, "Absent"}
  BY DEF SaidInv, ItemsInv, EndOK, RunnerStays
<1>4. ASSUME NEW y \in Items'
      PROVE  /\ y[2] <= srv'.seq => DoneSteps(y[3]) <= DoneSteps(srv'.prog)
             /\ y[2] >= srv'.seq => DoneSteps(y[3]) >= DoneSteps(srv'.prog)
  <2>1. y \in Items /\ InOrder(x, y) /\ InOrder(y, x)
    BY DEF SaidInv, ItemsInv, RunnerStays
  <2>2. /\ x[2] \in Nat /\ y[2] \in Nat /\ DoneSteps(x[3]) \in Nat
        /\ DoneSteps(y[3]) \in Nat
    BY <1>0, <2>1 DEF ItemType
  <2>3. CASE srv'.prog = x[3]
    BY <2>1, <2>2, <2>3 DEF InOrder
  <2>4. CASE /\ x[3] = NoProgress /\ srv'.prog = srv.prog
             /\ Waiting /\ x[2] >= srv.seq
    <3>1. DoneSteps(x[3]) = 0 /\ DoneSteps(srv.prog) \in Nat /\ srv.seq \in Nat
      BY <2>4, NoMessageType, DoneType DEF TypeOK
    <3>2. y[2] >= srv.seq => DoneSteps(y[3]) >= DoneSteps(srv.prog)
      BY <2>1, <2>4 DEF SaidInv, ServerInv
    <3>. QED
      BY <2>1, <2>2, <2>4, <3>1, <3>2 DEF InOrder
  <2>. QED
    BY <2>3, <2>4
<1>5. Waiting' /\ rec'.life # "Absent" =>
         /\ srv'.seq <= rec'.seq
         /\ IsTerminal(rec'.life) => srv'.seq < rec'.seq
  <2> SUFFICES ASSUME ~IsTerminal(srv'.life), rec.life # "Absent"
               PROVE  /\ srv'.seq <= rec.seq
                      /\ IsTerminal(rec.life) => srv'.seq < rec.seq
    BY DEF Waiting, RunnerStays
  <2>1. x[2] <= rec.seq
    BY DEF SaidInv, RecordInv
  <2>2. IsTerminal(rec.life) => x[2] # rec.seq
    BY DEF SaidInv, RecordInv
  <2>3. x[2] \in Nat /\ rec.seq \in Nat
    BY <1>0 DEF ItemType, TypeOK, JobRecord
  <2>. QED
    BY <2>1, <2>2, <2>3
<1>6. ServerInv'
  BY <1>3, <1>4, <1>5 DEF ServerInv
<1>. QED
  BY <1>2, <1>6 DEF SaidInv

(* The Server does not wait for more, for a reason of its own. *)
LEMMA DeafSaid ==
    ASSUME TypeOK, SaidInv, RunnerStays, ~Waiting',
           ~IsTerminal(srv'.life) \/ srv'.fault # "none" \/ srv'.life = "Lost",
           carrier \in {"held", "insert"} => srv'.seq = 0 /\ srv'.prog = NoProgress,
           srv'.fault = "invalid" => queue'.skipped
    PROVE  SaidInv'
<1>1. ItemsInv' /\ RecordInv'
  BY RunnerStaysSaid
<1>2. ServerInv'
  BY DEF ServerInv
<1>. QED
  BY <1>1, <1>2 DEF SaidInv

(* An update arrives that raises the progress by one step at most. *)
LEMMA UpdateSaid ==
    ASSUME TypeOK, SaidInv, RunnerStays, NEW m \in Message, Item(m) \in Items,
           srv' = AfterUpdate(srv, m),
           Waiting => DoneSteps(m.prog) <= DoneSteps(srv.prog) + 1 \/ queue.skipped
    PROVE  /\ SaidInv' /\ srv' \in Servers
           /\ \/ srv' = srv
              \/ Waiting /\ IsTerminal(srv'.life) /\ srv'.known
              \/ Waiting /\ m.seq > srv.seq /\ Takes(Item(m))
           /\ Waiting' => m.seq <= srv'.seq
<1>0. srv \in Servers
  BY DEF TypeOK, Servers
<1>1. /\ Item(m)[1] = m.life /\ Item(m)[2] = m.seq /\ Item(m)[3] = m.prog
      /\ m.seq \in Nat /\ DoneSteps(m.prog) \in Nat /\ srv.seq \in Nat
      /\ DoneSteps(srv.prog) \in Nat
  BY <1>0, ItemOfType, DoneType DEF Servers, Message
<1>2. ShapeOK(Item(m))
  BY DEF SaidInv, ItemsInv
<1>3. Waiting => DoneSteps(srv.prog) <= DoneSteps(m.prog) \/ m.seq <= srv.seq
  BY <1>1 DEF SaidInv, ServerInv
<1>4. /\ srv' \in Servers
      /\ \/ srv' = srv /\ (Waiting => m.seq <= srv.seq)
         \/ Waiting /\ m.seq > srv.seq /\ Takes(Item(m))
         \/ /\ Waiting /\ IsTerminal(srv'.life) /\ srv'.known
            /\ srv'.fault # "none" /\ (srv'.fault = "invalid" => queue.skipped)
  BY <1>0, <1>2, <1>3, UpdateResult
<1>5. CASE srv' = srv /\ (Waiting => m.seq <= srv.seq)
  BY <1>4, <1>5, QuietSaid DEF RunnerStays, Waiting
<1>6. CASE Waiting /\ m.seq > srv.seq /\ Takes(Item(m))
  <2>1. SaidInv'
    <3>1. srv.fault = "invalid" => queue'.skipped
      BY DEF SaidInv, ServerInv, RunnerStays
    <3>. QED
      BY <1>1, <1>6, <3>1, TakenSaid DEF Takes
  <2>. QED
    BY <1>1, <1>4, <1>6, <2>1 DEF Takes
<1>7. CASE /\ Waiting /\ IsTerminal(srv'.life) /\ srv'.known
           /\ srv'.fault # "none" /\ (srv'.fault = "invalid" => queue.skipped)
           /\ srv' # srv
  <2>1. m.seq > srv.seq
    BY <1>1, <1>7 DEF AfterUpdate, Waiting
  <2>2. carrier \notin {"held", "insert"}
    BY <1>1, <2>1 DEF SaidInv, RecordInv
  <2>3. SaidInv'
    BY <1>7, <2>2, DeafSaid DEF Waiting, RunnerStays
  <2>. QED
    BY <1>4, <1>7, <2>3 DEF Waiting
<1>8. ~(srv' = srv /\ ~(Waiting => m.seq <= srv.seq))
  <2> SUFFICES ASSUME srv' = srv, Waiting, m.seq > srv.seq PROVE FALSE
    BY <1>1
  <2>1. Takes(Item(m))
    BY <1>1, <1>4 DEF Waiting
  <2>2. srv.seq = m.seq
    BY <1>1, <2>1 DEF Takes
  <2>. QED
    BY <1>1, <2>2
<1>. QED
  BY <1>4, <1>5, <1>6, <1>7, <1>8
-------------------------------------------------------------------------------
(* What is delivered, step by step *)

LEMMA SeqOfMessages ==
    ASSUME NEW q \in Seq(Message)
    PROVE  /\ DOMAIN q = 1..Len(q) /\ Len(q) \in Nat
           /\ \A k \in DOMAIN q : /\ q[k] \in Message /\ q[k].seq \in Nat
                                  /\ DoneSteps(q[k].prog) \in Nat
<1>1. DOMAIN q = 1..Len(q) /\ Len(q) \in Nat
  OBVIOUS
<1>2. ASSUME NEW k \in DOMAIN q
      PROVE  q[k] \in Message /\ q[k].seq \in Nat /\ DoneSteps(q[k].prog) \in Nat
  <2>1. q[k] \in Message
    BY <1>2
  <2>2. q[k].seq \in Nat /\ q[k].prog \in -1..Steps
    BY <2>1 DEF Message
  <2>. QED
    BY <2>1, <2>2, DoneType
<1>. QED
  BY <1>1, <1>2

(* A Server further on, with w2 on its way in place of w. *)
Covers(b, e, w, b2, e2, w2) ==
    /\ b \in Nat /\ b2 \in Nat /\ b <= b2 /\ e \in Nat /\ e2 \in Nat /\ e <= e2
    /\ \A n \in Int : Told(w, n) => n <= b2 \/ Told(w2, n)
    /\ \A n \in Nat : Numbered(w, n) => n <= e2 \/ Numbered(w2, n)

LEMMA CoversSame ==
    ASSUME NEW b \in Nat, NEW b2 \in Nat, b <= b2, NEW e \in Nat, NEW e2 \in Nat, e <= e2,
           NEW w
    PROVE  Covers(b, e, w, b2, e2, w)
BY DEF Covers

(* The first update on the way has arrived. *)
LEMMA CoversTail ==
    ASSUME NEW b \in Nat, NEW b2 \in Nat, b <= b2, NEW e \in Nat, NEW e2 \in Nat, e <= e2,
           NEW w \in Seq(Message), w # <<>>,
           Head(w).seq <= e2, DoneSteps(Head(w).prog) <= b2
    PROVE  Covers(b, e, w, b2, e2, Tail(w))
<1> DEFINE v == Tail(w)
<1>1. /\ Len(w) \in Nat /\ Len(w) > 0 /\ DOMAIN w = 1..Len(w) /\ Head(w) = w[1]
      /\ DOMAIN v = 1..(Len(w) - 1) /\ \A k \in DOMAIN v : v[k] = w[k + 1]
  OBVIOUS
<1> HIDE DEF v
<1>2. ASSUME NEW n \in Int, Told(w, n) PROVE n <= b2 \/ Told(v, n)
  <2>1. PICK k \in DOMAIN w : n <= DoneSteps(w[k].prog)
    BY <1>2 DEF Told
  <2>2. DoneSteps(w[k].prog) \in Nat
    BY SeqOfMessages
  <2>3. CASE k = 1
    BY <1>1, <2>1, <2>2, <2>3
  <2>4. CASE k # 1
    <3>1. k - 1 \in DOMAIN v /\ v[k - 1] = w[k]
      BY <1>1, <2>4
    <3>. QED
      BY <2>1, <3>1 DEF Told
  <2>. QED
    BY <2>3, <2>4
<1>3. ASSUME NEW n \in Nat, Numbered(w, n) PROVE n <= e2 \/ Numbered(v, n)
  <2>1. PICK k \in DOMAIN w : w[k].seq = n
    BY <1>3 DEF Numbered
  <2>3. CASE k = 1
    BY <1>1, <2>1, <2>3
  <2>4. CASE k # 1
    <3>1. k - 1 \in DOMAIN v /\ v[k - 1] = w[k]
      BY <1>1, <2>4
    <3>. QED
      BY <2>1, <3>1 DEF Numbered
  <2>. QED
    BY <2>3, <2>4
<1>. QED
  BY <1>2, <1>3 DEF Covers, v

(* One more update is on the way. *)
LEMMA CoversAppend ==
    ASSUME NEW b \in Nat, NEW e \in Nat, NEW w \in Seq(Message), NEW m \in Message
    PROVE  Covers(b, e, w, b, e, Append(w, m)) /\ Numbered(Append(w, m), m.seq)
<1> DEFINE v == Append(w, m)
<1>1. /\ DOMAIN w \subseteq DOMAIN v /\ \A k \in DOMAIN w : v[k] = w[k]
      /\ Len(w) + 1 \in DOMAIN v /\ v[Len(w) + 1] = m
  OBVIOUS
<1> HIDE DEF v
<1>2. \A n : (Told(w, n) => Told(v, n)) /\ (Numbered(w, n) => Numbered(v, n))
  BY <1>1 DEF Told, Numbered
<1>3. Numbered(v, m.seq)
  BY <1>1 DEF Numbered
<1>4. Covers(b, e, w, b, e, v)
  BY <1>2 DEF Covers
<1>. QED
  BY <1>3, <1>4 DEF v

LEMMA ReachedCovers ==
    ASSUME NEW b, NEW e, NEW w, NEW b2, NEW e2, NEW w2, Covers(b, e, w, b2, e2, w2),
           NEW q, NEW n \in Int, Reached(b, w, q, n)
    PROVE  Reached(b2, w2, q, n)
BY DEF Covers, Reached

LEMMA ChainCovers ==
    ASSUME NEW b, NEW e, NEW w, NEW b2, NEW e2, NEW w2, Covers(b, e, w, b2, e2, w2),
           NEW q \in Seq(Message), Chain(b, w, q)
    PROVE  Chain(b2, w2, q)
<1> SUFFICES ASSUME NEW i \in DOMAIN q
             PROVE  LET n == DoneSteps(q[i].prog) - 1
                    IN  \/ n <= b2 \/ Told(w2, n)
                        \/ \E j \in DOMAIN q : j < i /\ n <= DoneSteps(q[j].prog)
  BY DEF Chain
<1> DEFINE n == DoneSteps(q[i].prog) - 1
<1>1. n \in Int
  BY SeqOfMessages
<1>2. \/ n <= b \/ Told(w, n)
      \/ \E j \in DOMAIN q : j < i /\ n <= DoneSteps(q[j].prog)
  BY DEF Chain
<1>3. n <= b => n <= b2
  BY <1>1 DEF Covers
<1>4. Told(w, n) => n <= b2 \/ Told(w2, n)
  BY <1>1 DEF Covers
<1>. QED
  BY <1>2, <1>3, <1>4

LEMMA DeliversCovers ==
    ASSUME NEW b, NEW e, NEW w, NEW b2, NEW e2, NEW w2, Covers(b, e, w, b2, e2, w2),
           NEW wk \in Workers, NEW r \in JobRecord, NEW q \in Queues, NEW o \in Owed,
           DeliversTo(b, e, w, wk, r, q, o)
    PROVE  DeliversTo(b2, e2, w2, wk, r, q, o)
<1>1. /\ q.required \in Seq(Message) /\ q.output \in Message /\ wk.m \in Message
      /\ wk.m.seq \in Nat /\ r.seq \in Nat
      /\ wk.m.prog \in -1..Steps /\ q.output.prog \in -1..Steps /\ r.prog \in -1..Steps
  BY DEF Queues, Workers, JobRecord, Message
<1>2. /\ DoneSteps(wk.m.prog) \in Nat /\ DoneSteps(q.output.prog) \in Nat
      /\ DoneSteps(r.prog) \in Nat
  BY <1>1, DoneType
<1>3. WorkerTo(b2, e2, w2, wk)
  <2>1. wk.at \in {"picked", "posting"} =>
            Reached(b2, w2, <<>>, DoneSteps(wk.m.prog) - 1)
    BY <1>2, ReachedCovers DEF DeliversTo, WorkerTo
  <2>2. wk.at = "sent" => wk.m.seq <= e2 \/ Numbered(w2, wk.m.seq)
    BY <1>1 DEF DeliversTo, WorkerTo, Covers
  <2>. QED
    BY <2>1, <2>2 DEF WorkerTo
<1>4. ASSUME r.life # "Absent"
      PROVE  QueueTo(b2, w2, q) /\ RecordTo(b2, e2, w2, r, q, o)
  <2>1. QueueTo(b, w, q) /\ RecordTo(b, e, w, r, q, o)
    BY <1>4 DEF DeliversTo
  <2>2. Chain(b2, w2, q.required)
    BY <1>1, <2>1, ChainCovers DEF QueueTo
  <2>3. Reached(b2, w2, q.required, DoneSteps(q.output.prog) - 1)
    BY <1>2, <2>1, ReachedCovers DEF QueueTo
  <2>4. ASSUME ~q.suspended
        PROVE  /\ Reached(b2, w2, q.required, DoneSteps(r.prog) - 1)
               /\ \/ o["carrier"].semantic
                  \/ Reached(b2, w2, q.required, DoneSteps(r.prog))
    BY <1>2, <2>1, <2>4, ReachedCovers DEF RecordTo
  <2>5. ASSUME ~q.suspended, IsTerminal(r.life)
        PROVE  \/ r.seq <= e2
               \/ \E t \in {"carrier", "stop"} : o[t].semantic /\ o[t].seq = r.seq
               \/ Numbered(q.required, r.seq) \/ Numbered(w2, r.seq)
    <3>1. \/ r.seq <= e
          \/ \E t \in {"carrier", "stop"} : o[t].semantic /\ o[t].seq = r.seq
          \/ Numbered(q.required, r.seq) \/ Numbered(w, r.seq)
      BY <2>1, <2>5 DEF RecordTo
    <3>. QED
      BY <1>1, <3>1 DEF Covers
  <2>. QED
    BY <2>2, <2>3, <2>4, <2>5 DEF QueueTo, RecordTo
<1>. QED
  BY <1>3, <1>4 DEF DeliversTo

(* Everything up to number e brings progress b at most; w is on its way. *)
BaseOK(b, e, w) ==
    /\ b \in Nat /\ e \in Nat /\ w \in Seq(Message) /\ ItemsOf(w) \subseteq Items
    /\ \A x \in Items : x[2] <= e => DoneSteps(x[3]) <= b

LEMMA RunnerTypes ==
    ASSUME TypeOK
    PROVE  /\ QueueOK(queue) /\ queue \in Queues /\ queue.required \in Seq(Message)
           /\ queue.output \in Message /\ worker \in Workers /\ worker.m \in Message
           /\ rec \in JobRecord /\ owed \in Owed
           /\ owed["carrier"] \in Message /\ owed["stop"] \in Message
           /\ reg.inv \in JobRecord /\ reg.now \in JobRecord
           /\ chan \in [Sessions -> Seq(Message)] /\ srv \in Servers
           /\ queue.skipped \in BOOLEAN /\ queue.suspended \in BOOLEAN
BY DEF TypeOK, QueueOK, Queues, Workers, Owed, Servers

LEMMA NumbersType ==
    ASSUME NEW m, m \in Message \/ m \in JobRecord
    PROVE  m.seq \in Nat /\ DoneSteps(m.prog) \in Nat /\ DoneSteps(m.prog) - 1 \in Int
BY ItemOfType DEF ItemType

(* Two items with one number bring the same progress. *)
LEMMA SameNumber ==
    ASSUME TypeOK, ItemsInv, NEW m, m \in Message \/ m \in JobRecord, Item(m) \in Items,
           NEW n, n \in Message \/ n \in JobRecord, Item(n) \in Items, m.seq = n.seq
    PROVE  DoneSteps(m.prog) = DoneSteps(n.prog)
<1>1. /\ Item(m)[2] = m.seq /\ Item(m)[3] = m.prog
      /\ Item(n)[2] = n.seq /\ Item(n)[3] = n.prog
  BY ItemOfType
<1>2. InOrder(Item(m), Item(n)) /\ InOrder(Item(n), Item(m))
  BY DEF ItemsInv
<1>3. /\ m.seq \in Nat /\ DoneSteps(m.prog) \in Nat
      /\ n.seq \in Nat /\ DoneSteps(n.prog) \in Nat
  BY NumbersType
<1>. QED
  BY <1>1, <1>2, <1>3 DEF InOrder

LEMMA ItemOfSeq ==
    ASSUME NEW q, NEW k \in DOMAIN q
    PROVE  Item(q[k]) \in ItemsOf(q)
BY DEF ItemsOf

(* Nothing is beyond number e. *)
LEMMA AllCovered ==
    ASSUME TypeOK, NEW b, NEW e, NEW w, BaseOK(b, e, w), \A x \in Items : x[2] <= e
    PROVE  Delivers(b, e, w)
<1>1. \A m : (m \in Message \/ m \in JobRecord) /\ Item(m) \in Items =>
                m.seq <= e /\ DoneSteps(m.prog) <= b
  BY ItemOfType DEF BaseOK
<1>2. b \in Nat /\ e \in Nat
  BY DEF BaseOK
<1>3. \A k \in DOMAIN queue.required : DoneSteps(queue.required[k].prog) <= b
  <2> TAKE k \in DOMAIN queue.required
  <2>1. queue.required[k] \in Message /\ Item(queue.required[k]) \in Items
    BY RunnerTypes, SeqOfMessages, HasItems, ItemOfSeq
  <2>. QED
    BY <1>1, <2>1
<1>4. \A m : m \in Message \/ m \in JobRecord => DoneSteps(m.prog) \in Nat
  BY NumbersType
<1>5. WorkerTo(b, e, w, worker)
  <2>1. worker.m.seq <= e /\ DoneSteps(worker.m.prog) <= b /\ DoneSteps(worker.m.prog) \in Nat
    BY <1>1, <1>4, RunnerTypes, HasItems
  <2>. QED
    BY <1>2, <2>1 DEF WorkerTo, Reached
<1>6. QueueTo(b, w, queue)
  <2>1. DoneSteps(queue.output.prog) <= b /\ DoneSteps(queue.output.prog) \in Nat
    BY <1>1, <1>4, RunnerTypes, HasItems
  <2>2. Chain(b, w, queue.required)
    <3> SUFFICES ASSUME NEW i \in DOMAIN queue.required
                 PROVE  DoneSteps(queue.required[i].prog) - 1 <= b
      BY DEF Chain
    <3>1. DoneSteps(queue.required[i].prog) \in Nat
      BY RunnerTypes, SeqOfMessages
    <3>. QED
      BY <1>2, <1>3, <3>1
  <2>. QED
    BY <1>2, <2>1, <2>2 DEF QueueTo, Reached
<1>7. RecordTo(b, e, w, rec, queue, owed)
  <2>1. rec.seq <= e /\ DoneSteps(rec.prog) <= b /\ DoneSteps(rec.prog) \in Nat
    BY <1>1, <1>4, RunnerTypes, HasItems
  <2>. QED
    BY <1>2, <2>1 DEF RecordTo, Reached
<1>. QED
  BY <1>5, <1>6, <1>7 DEF Delivers, DeliversTo

(* The first updates go that the Server has or that are on their way. *)
LEMMA ShrinkDelivers ==
    ASSUME TypeOK, ItemsInv, NEW b, NEW e, NEW w, BaseOK(b, e, w),
           NEW k2, NEW d \in Nat, Shrinks(queue, k2, d),
           \A k \in 1..d : \/ queue.required[k].seq <= e
                           \/ Numbered(w, queue.required[k].seq),
           QueueTo(b, w, queue), RecordTo(b, e, w, rec, queue, owed)
    PROVE  QueueTo(b, w, k2) /\ RecordTo(b, e, w, rec, k2, owed)
<1> DEFINE q == queue.required  r == k2.required
<1>1. /\ q \in Seq(Message) /\ r \in Seq(Message) /\ k2 \in Queues
      /\ DOMAIN q = 1..Len(q) /\ DOMAIN r = 1..Len(r) /\ Len(q) \in Nat /\ Len(r) \in Nat
      /\ b \in Nat /\ e \in Nat /\ w \in Seq(Message)
  BY RunnerTypes DEF Shrinks, QueueOK, Queues, BaseOK
<1>2. d <= Len(q) /\ Len(r) = Len(q) - d /\ \A k \in 1..Len(r) : r[k] = q[k + d]
  BY <1>1 DEF Shrinks, Dropped
<1>3. \A k \in DOMAIN q : q[k] \in Message /\ q[k].seq \in Nat /\ DoneSteps(q[k].prog) \in Nat
  BY <1>1, SeqOfMessages
<1>4. ASSUME NEW k \in 1..d
      PROVE  DoneSteps(q[k].prog) <= b \/ Told(w, DoneSteps(q[k].prog))
  <2>1. k \in DOMAIN q /\ q[k] \in Message /\ Item(q[k]) \in Items
    BY <1>1, <1>2, <1>3, HasItems, ItemOfSeq
  <2>2. CASE q[k].seq <= e
    BY <2>1, <2>2, ItemOfType DEF BaseOK
  <2>3. CASE Numbered(w, q[k].seq)
    <3>1. PICK j \in DOMAIN w : w[j].seq = q[k].seq
      BY <2>3 DEF Numbered
    <3>2. w[j] \in Message /\ Item(w[j]) \in Items
      BY <1>1, SeqOfMessages, ItemOfSeq DEF BaseOK
    <3>3. DoneSteps(w[j].prog) = DoneSteps(q[k].prog)
      BY <2>1, <3>1, <3>2, SameNumber
    <3>4. DoneSteps(q[k].prog) \in Nat
      BY <1>3, <2>1
    <3>. QED
      BY <3>1, <3>3, <3>4 DEF Told
  <2>. QED
    BY <2>2, <2>3
<1> HIDE DEF q, r
<1>5. ASSUME NEW k \in 1..d, NEW n \in Int, n <= DoneSteps(q[k].prog)
      PROVE  n <= b \/ Told(w, n)
  <2>0. k \in DOMAIN q
    BY <1>1, <1>2
  <2>1. DoneSteps(q[k].prog) \in Nat
    BY <1>3, <2>0
  <2>2. CASE DoneSteps(q[k].prog) <= b
    BY <1>1, <1>5, <2>1, <2>2
  <2>3. CASE Told(w, DoneSteps(q[k].prog))
    <3>1. PICK j \in DOMAIN w : DoneSteps(q[k].prog) <= DoneSteps(w[j].prog)
      BY <2>3 DEF Told
    <3>2. DoneSteps(w[j].prog) \in Nat
      BY <1>1, SeqOfMessages
    <3>. QED
      BY <1>5, <2>1, <3>1, <3>2 DEF Told
  <2>. QED
    BY <1>4, <2>2, <2>3
<1>6. ASSUME NEW n \in Int, Reached(b, w, q, n)
      PROVE  Reached(b, w, r, n)
  <2>1. CASE n <= b \/ Told(w, n)
    BY <2>1 DEF Reached
  <2>2. CASE Told(q, n)
    <3>1. PICK k \in DOMAIN q : n <= DoneSteps(q[k].prog)
      BY <2>2 DEF Told
    <3>2. CASE k \in 1..d
      BY <1>5, <3>1, <3>2 DEF Reached
    <3>3. CASE k \notin 1..d
      <4>1. k - d \in DOMAIN r /\ r[k - d] = q[k]
        BY <1>1, <1>2, <3>3
      <4>. QED
        BY <3>1, <4>1 DEF Reached, Told
    <3>. QED
      BY <3>2, <3>3
  <2>. QED
    BY <1>6, <2>1, <2>2 DEF Reached
<1>7. Chain(b, w, r)
  <2> SUFFICES ASSUME NEW i \in DOMAIN r
               PROVE  LET n == DoneSteps(r[i].prog) - 1
                      IN  \/ n <= b \/ Told(w, n)
                          \/ \E j \in DOMAIN r : j < i /\ n <= DoneSteps(r[j].prog)
    BY DEF Chain
  <2> DEFINE n == DoneSteps(r[i].prog) - 1
  <2>1. i + d \in DOMAIN q /\ r[i] = q[i + d]
    BY <1>1, <1>2
  <2>2. n \in Int /\ n = DoneSteps(q[i + d].prog) - 1
    BY <1>3, <2>1
  <2>3. Chain(b, w, q)
    BY DEF QueueTo, q
  <2>4. \/ n <= b \/ Told(w, n)
        \/ \E j \in DOMAIN q : j < i + d /\ n <= DoneSteps(q[j].prog)
    BY <2>1, <2>2, <2>3 DEF Chain
  <2> HIDE DEF n
  <2>5. ASSUME NEW j \in DOMAIN q, j < i + d, n <= DoneSteps(q[j].prog)
        PROVE  \/ n <= b \/ Told(w, n)
               \/ \E l \in DOMAIN r : l < i /\ n <= DoneSteps(r[l].prog)
    <3>1. CASE j \in 1..d
      BY <1>5, <2>2, <2>5, <3>1
    <3>2. CASE j \notin 1..d
      <4>1. j - d \in DOMAIN r /\ r[j - d] = q[j] /\ j - d < i
        BY <1>1, <1>2, <2>5, <3>2
      <4>. QED
        BY <2>5, <4>1
    <3>. QED
      BY <3>1, <3>2
  <2>. QED
    BY <2>4, <2>5 DEF n
<1>8. Reached(b, w, r, DoneSteps(k2.output.prog) - 1)
  <2>1. CASE k2.output = queue.output
    <3>1. DoneSteps(queue.output.prog) - 1 \in Int
      BY RunnerTypes, NumbersType
    <3>. QED
      BY <1>6, <2>1, <3>1 DEF QueueTo, q
  <2>2. CASE k2.output = NoMessage
    <3>1. DoneSteps(k2.output.prog) = 0
      BY <2>2, NoMessageType DEF NoMessage
    <3>. QED
      BY <1>1, <3>1 DEF Reached
  <2>. QED
    BY <2>1, <2>2 DEF Shrinks
<1>9. RecordTo(b, e, w, rec, k2, owed)
  <2> SUFFICES ASSUME ~k2.suspended
               PROVE  /\ Reached(b, w, r, DoneSteps(rec.prog) - 1)
                      /\ \/ owed["carrier"].semantic
                         \/ Reached(b, w, r, DoneSteps(rec.prog))
                      /\ IsTerminal(rec.life) =>
                           \/ rec.seq <= e
                           \/ \E t \in {"carrier", "stop"} :
                                owed[t].semantic /\ owed[t].seq = rec.seq
                           \/ Numbered(r, rec.seq) \/ Numbered(w, rec.seq)
    BY DEF RecordTo, r
  <2>1. /\ Reached(b, w, q, DoneSteps(rec.prog) - 1)
        /\ \/ owed["carrier"].semantic
           \/ Reached(b, w, q, DoneSteps(rec.prog))
        /\ IsTerminal(rec.life) =>
             \/ rec.seq <= e
             \/ \E t \in {"carrier", "stop"} : owed[t].semantic /\ owed[t].seq = rec.seq
             \/ Numbered(q, rec.seq) \/ Numbered(w, rec.seq)
    BY DEF RecordTo, Shrinks, q
  <2>2. DoneSteps(rec.prog) \in Nat
    BY RunnerTypes, NumbersType
  <2>3. ASSUME Numbered(q, rec.seq)
        PROVE  rec.seq <= e \/ Numbered(r, rec.seq) \/ Numbered(w, rec.seq)
    <3>1. PICK k \in DOMAIN q : q[k].seq = rec.seq
      BY <2>3 DEF Numbered
    <3>2. CASE k \in 1..d
      BY <3>1, <3>2 DEF q
    <3>3. CASE k \notin 1..d
      <4>1. k - d \in DOMAIN r /\ r[k - d] = q[k]
        BY <1>1, <1>2, <3>3
      <4>. QED
        BY <3>1, <4>1 DEF Numbered
    <3>. QED
      BY <3>2, <3>3
  <2>. QED
    BY <1>6, <2>1, <2>2, <2>3
<1>. QED
  BY <1>7, <1>8, <1>9 DEF QueueTo, r

(* The worker rests. *)
LEMMA RestTo ==
    ASSUME NEW b, NEW e, NEW w
    PROVE  WorkerTo(b, e, w, Resting)
BY DEF WorkerTo, Resting

(* The record appears. *)
LEMMA InsertDelivers ==
    ASSUME TypeOK, SaidInv, carrier = "insert", NEW b, NEW e, NEW w, BaseOK(b, e, w),
           NEW r, r.life = "RunnerQueued", r.prog = NoProgress, Delivers(b, e, w)
    PROVE  DeliversTo(b, e, w, worker, r, queue, owed)
<1>1. \A x \in Items : x[3] = NoProgress
  BY DEF SaidInv, RecordInv
<1>2. b \in Nat /\ DoneSteps(NoProgress) = 0 /\ 0 - 1 <= b /\ 0 <= b
  BY NoMessageType DEF BaseOK
<1>3. \A i \in DOMAIN queue.required : queue.required[i].prog = NoProgress
  BY <1>1, RunnerTypes, HasItems, ItemOfType, ItemOfSeq, SeqOfMessages
<1>4. queue.output.prog = NoProgress
  BY <1>1, RunnerTypes, HasItems, ItemOfType
<1>5. Chain(b, w, queue.required)
  BY <1>2, <1>3 DEF Chain
<1>6. QueueTo(b, w, queue)
  BY <1>2, <1>4, <1>5 DEF QueueTo, Reached
<1>7. ~IsTerminal(r.life)
  BY DEF IsTerminal, TerminalStates
<1>8. RecordTo(b, e, w, r, queue, owed)
  BY <1>2, <1>7 DEF RecordTo, Reached
<1>. QED
  BY <1>6, <1>8 DEF Delivers, DeliversTo

(* A thread records. *)
LEMMA RecordDelivers ==
    ASSUME TypeOK, SaidInv, NEW t \in {"carrier", "stop"}, RecordStep(t),
           NEW b, NEW e, NEW w, BaseOK(b, e, w), Delivers(b, e, w)
    PROVE  DeliversTo(b, e, w, worker, rec', queue, owed')
<1>1. QueueTo(b, w, queue) /\ RecordTo(b, e, w, rec, queue, owed) /\ WorkerTo(b, e, w, worker)
  BY DEF Delivers, DeliversTo, RecordStep
<1>2. RecordTo(b, e, w, rec', queue, owed')
  <2> SUFFICES ASSUME ~queue.suspended
               PROVE  /\ Reached(b, w, queue.required, DoneSteps(rec'.prog) - 1)
                      /\ \/ owed'["carrier"].semantic
                         \/ Reached(b, w, queue.required, DoneSteps(rec'.prog))
                      /\ IsTerminal(rec'.life) =>
                           \E u \in {"carrier", "stop"} :
                              owed'[u].semantic /\ owed'[u].seq = rec'.seq
    BY DEF RecordTo
  <2>1. /\ Reached(b, w, queue.required, DoneSteps(rec.prog) - 1)
        /\ \/ owed["carrier"].semantic
           \/ Reached(b, w, queue.required, DoneSteps(rec.prog))
    BY <1>1 DEF RecordTo
  <2>2. /\ DoneSteps(rec.prog) \in Nat
        /\ DoneSteps(rec'.prog) \in {DoneSteps(rec.prog), DoneSteps(rec.prog) + 1}
    BY RunnerTypes, NumbersType DEF RecordStep
  <2>3. owed'[t] \in Message /\ Item(owed'[t]) = Item(rec') /\ rec' \in JobRecord
    BY DEF RecordStep, Owed
  <2>4. owed'[t].seq = rec'.seq
    BY <2>3, ItemOfType
  <2>5. CASE t = "carrier"
    <3>1. Reached(b, w, queue.required, DoneSteps(rec.prog))
      BY <2>1, <2>5 DEF RecordStep, NoMessage
    <3>2. DoneSteps(rec'.prog) # DoneSteps(rec.prog) => owed'["carrier"].semantic
      BY <2>5 DEF RecordStep
    <3>3. Reached(b, w, queue.required, DoneSteps(rec'.prog) - 1)
      <4>1. CASE DoneSteps(rec'.prog) = DoneSteps(rec.prog)
        BY <2>1, <4>1
      <4>2. CASE DoneSteps(rec'.prog) - 1 = DoneSteps(rec.prog)
        BY <3>1, <4>2
      <4>. QED
        BY <2>2, <4>1, <4>2
    <3>. QED
      BY <2>4, <3>1, <3>2, <3>3 DEF RecordStep
  <2>6. CASE t = "stop"
    <3>1. rec'.prog = rec.prog /\ owed'["carrier"] = owed["carrier"]
      BY <2>6 DEF RecordStep
    <3>. QED
      BY <2>1, <2>4, <3>1 DEF RecordStep
  <2>. QED
    BY <2>5, <2>6
<1>. QED
  BY <1>1, <1>2 DEF DeliversTo

(* A recorded end is told again. *)
LEMMA RetellDelivers ==
    ASSUME NEW b, NEW e, NEW w, Delivers(b, e, w), NEW o,
           o["carrier"] = owed["carrier"], o["stop"].semantic, o["stop"].seq = rec.seq
    PROVE  DeliversTo(b, e, w, worker, rec, queue, o)
BY DEF Delivers, DeliversTo, RecordTo

(* The worker picks what is next. *)
LEMMA PickDelivers ==
    ASSUME TypeOK, NEW b, NEW e, NEW w, BaseOK(b, e, w), Delivers(b, e, w),
           rec.life # "Absent", NextOf(queue) # NoMessage, NEW wk,
           wk.at = "picked", wk.m = NextOf(queue)
    PROVE  DeliversTo(b, e, w, wk, rec, queue, owed)
<1>1. QueueTo(b, w, queue) /\ RecordTo(b, e, w, rec, queue, owed)
  BY DEF Delivers, DeliversTo
<1>2. Reached(b, w, <<>>, DoneSteps(NextOf(queue).prog) - 1)
  <2>1. CASE queue.required # <<>>
    <3>1. 1 \in DOMAIN queue.required /\ NextOf(queue) = queue.required[1]
      BY <2>1, RunnerTypes DEF NextOf
    <3>2. \A j \in DOMAIN queue.required : ~(j < 1)
      BY RunnerTypes
    <3>3. Chain(b, w, queue.required)
      BY <1>1 DEF QueueTo
    <3>. QED
      BY <3>1, <3>2, <3>3 DEF Chain, Reached
  <2>2. CASE queue.required = <<>>
    <3>1. NextOf(queue) = queue.output
      BY <2>2 DEF NextOf
    <3>. QED
      BY <1>1, <2>2, <3>1 DEF QueueTo
  <2>. QED
    BY <2>1, <2>2
<1>3. WorkerTo(b, e, w, wk)
  BY <1>2 DEF WorkerTo
<1>. QED
  BY <1>1, <1>3 DEF DeliversTo

(* The worker acknowledges what it has sent. *)
LEMMA SettleDelivers ==
    ASSUME TypeOK, ItemsInv, NEW b, NEW e, NEW w, BaseOK(b, e, w), Delivers(b, e, w),
           worker.at = "sent", NEW k2,
           k2 = queue \/ k2 = Acknowledge(queue, worker.m.seq)
    PROVE  DeliversTo(b, e, w, Resting, rec, k2, owed)
<1>1. CASE k2 = queue \/ rec.life = "Absent"
  BY <1>1, RestTo DEF Delivers, DeliversTo
<1>2. CASE k2 = Acknowledge(queue, worker.m.seq) /\ rec.life # "Absent"
  <2>1. worker.m.seq \in Nat
    BY RunnerTypes, NumbersType
  <2>2. PICK d \in 0..1 : /\ Shrinks(queue, k2, d)
                          /\ \A k \in 1..d : queue.required[k].seq = worker.m.seq
    BY <1>2, <2>1, RunnerTypes, AcknowledgeFacts
  <2>3. worker.m.seq <= e \/ Numbered(w, worker.m.seq)
    BY DEF Delivers, DeliversTo, WorkerTo
  <2>4. QueueTo(b, w, queue) /\ RecordTo(b, e, w, rec, queue, owed)
    BY <1>2 DEF Delivers, DeliversTo
  <2>5. QueueTo(b, w, k2) /\ RecordTo(b, e, w, rec, k2, owed)
    BY <2>2, <2>3, <2>4, ShrinkDelivers
  <2>. QED
    BY <2>5, RestTo DEF DeliversTo
<1>. QED
  BY <1>1, <1>2

(* A thread enqueues what it has recorded. *)
LEMMA HandDelivers ==
    ASSUME TypeOK, SaidInv, NEW b, NEW e, NEW w, BaseOK(b, e, w), Delivers(b, e, w),
           NEW t \in {"carrier", "stop"}, owed[t] # NoMessage,
           NEW k2, EnqueueResult(queue, owed[t], k2),
           NEW o, o[t] = NoMessage,
           \A u \in {"carrier", "stop"} : u # t => o[u] = owed[u]
    PROVE  DeliversTo(b, e, w, worker, rec, k2, o)
<1> DEFINE m == owed[t]  q == queue.required  r == k2.required
           p == DoneSteps(rec.prog)  s == DoneSteps(owed[t].prog)
<1>0. WorkerTo(b, e, w, worker)
  BY DEF Delivers, DeliversTo
<1> SUFFICES ASSUME rec.life # "Absent"
             PROVE  QueueTo(b, w, k2) /\ RecordTo(b, e, w, rec, k2, o)
  BY <1>0 DEF DeliversTo
<1>1. /\ q \in Seq(Message) /\ r \in Seq(Message) /\ DOMAIN q = 1..Len(q)
      /\ DOMAIN r = 1..Len(r) /\ Len(q) \in Nat /\ Len(r) \in Nat
      /\ b \in Nat /\ e \in Nat /\ p \in Nat /\ s \in Nat
      /\ m \in Message /\ m.seq \in Nat /\ rec.seq \in Nat
      /\ m.semantic \in BOOLEAN
  <2>1. m \in Message /\ r \in Seq(Message) /\ q \in Seq(Message) /\ rec \in JobRecord
    BY RunnerTypes DEF EnqueueResult, QueueOK, Queues
  <2>2. m.semantic \in BOOLEAN
    BY <2>1 DEF Message
  <2>3. m.seq \in Nat /\ rec.seq \in Nat /\ p \in Nat /\ s \in Nat
    BY <2>1, NumbersType
  <2>. QED
    BY <2>1, <2>2, <2>3 DEF BaseOK
<1>2. Item(m) \in Items /\ Item(rec) \in Items
  BY HasItems
<1>3. /\ s <= p
      /\ t = "carrier" => s = p
  <2>1. /\ Item(m)[2] = m.seq /\ Item(m)[3] = m.prog
        /\ Item(rec)[2] = rec.seq /\ Item(rec)[3] = rec.prog
    BY <1>1, RunnerTypes, ItemOfType
  <2>2. m.seq <= rec.seq /\ (t = "carrier" => m.prog = rec.prog)
    BY <1>2, <2>1 DEF SaidInv, RecordInv
  <2>. QED
    BY <1>2, <2>1, <2>2 DEF SaidInv, ItemsInv, InOrder
<1>4. QueueTo(b, w, queue) /\ RecordTo(b, e, w, rec, queue, owed)
  BY DEF Delivers, DeliversTo
<1>5. ~queue.suspended =>
        /\ Reached(b, w, q, p - 1)
        /\ owed["carrier"].semantic \/ Reached(b, w, q, p)
        /\ IsTerminal(rec.life) =>
             \/ rec.seq <= e
             \/ \E u \in {"carrier", "stop"} : owed[u].semantic /\ owed[u].seq = rec.seq
             \/ Numbered(q, rec.seq) \/ Numbered(w, rec.seq)
  BY <1>4 DEF RecordTo
<1>6. ~o[t].semantic /\ DoneSteps(NoMessage.prog) = 0
  BY NoMessageType DEF NoMessage
<1>7. \A k \in DOMAIN q : q[k] \in Message /\ q[k].seq \in Nat /\ DoneSteps(q[k].prog) \in Nat
  BY <1>1, SeqOfMessages
<1> HIDE DEF p, s
<1>8. CASE EnqueueKeeps(queue, m, k2)
  BY <1>4, <1>8 DEF EnqueueKeeps, RecordTo
<1>9. CASE EnqueueGivesUp(queue, m, k2)
  <2>1. k2.suspended /\ r = <<>> /\ k2.output = NoMessage
    BY <1>9 DEF EnqueueGivesUp
  <2>2. Chain(b, w, <<>>)
    BY DEF Chain
  <2>3. Reached(b, w, <<>>, DoneSteps(k2.output.prog) - 1)
    BY <1>1, <1>6, <2>1 DEF Reached
  <2>. QED
    BY <2>1, <2>2, <2>3 DEF QueueTo, RecordTo
<1>10. CASE EnqueueOutput(queue, m, k2)
  <2>1. ~queue.suspended /\ ~m.semantic /\ ~k2.suspended /\ r = q /\ k2.output = m
    BY <1>10 DEF EnqueueOutput
  <2>2. Reached(b, w, q, s - 1)
    <3>1. \A n \in Int : n <= p - 1 /\ Told(w, p - 1) => Told(w, n)
      <4> SUFFICES ASSUME NEW n \in Int, n <= p - 1, Told(w, p - 1) PROVE Told(w, n)
        OBVIOUS
      <4>1. PICK k \in DOMAIN w : p - 1 <= DoneSteps(w[k].prog)
        BY DEF Told
      <4>2. DoneSteps(w[k].prog) \in Nat
        BY SeqOfMessages DEF BaseOK
      <4>. QED
        BY <1>1, <4>1, <4>2 DEF Told
    <3>2. \A n \in Int : n <= p - 1 /\ Told(q, p - 1) => Told(q, n)
      <4> SUFFICES ASSUME NEW n \in Int, n <= p - 1, Told(q, p - 1) PROVE Told(q, n)
        OBVIOUS
      <4>1. PICK k \in DOMAIN q : p - 1 <= DoneSteps(q[k].prog)
        BY DEF Told
      <4>. QED
        BY <1>1, <1>7, <4>1 DEF Told
    <3>. QED
      BY <1>1, <1>3, <1>5, <2>1, <3>1, <3>2 DEF Reached
  <2>3. QueueTo(b, w, k2)
    BY <1>4, <2>1, <2>2 DEF QueueTo, s
  <2>4. o["carrier"].semantic \/ Reached(b, w, q, p)
    BY <1>5, <2>1
  <2>5. IsTerminal(rec.life) =>
             \/ rec.seq <= e
             \/ \E u \in {"carrier", "stop"} : o[u].semantic /\ o[u].seq = rec.seq
             \/ Numbered(q, rec.seq) \/ Numbered(w, rec.seq)
    BY <1>5, <2>1
  <2>. QED
    BY <1>5, <2>1, <2>3, <2>4, <2>5 DEF RecordTo, p
<1>11. ASSUME ~queue.suspended, ~k2.suspended, k2.output = NoMessage,
              Chain(b, w, r), \A n \in Int : Told(q, n) => Told(r, n),
              Told(r, s), \A n \in Nat : Numbered(q, n) => Numbered(r, n),
              Numbered(r, m.seq)
       PROVE  QueueTo(b, w, k2) /\ RecordTo(b, e, w, rec, k2, o)
  <2>1. \A n \in Int : Reached(b, w, q, n) => Reached(b, w, r, n)
    BY <1>11 DEF Reached
  <2>2. Reached(b, w, r, DoneSteps(k2.output.prog) - 1)
    BY <1>1, <1>6, <1>11 DEF Reached
  <2>3. Reached(b, w, r, p - 1)
    BY <1>1, <1>5, <1>11, <2>1
  <2>4. o["carrier"].semantic \/ Reached(b, w, r, p)
    <3>1. CASE t = "carrier"
      BY <1>3, <1>11, <3>1 DEF Reached
    <3>2. CASE t = "stop"
      BY <1>1, <1>5, <1>11, <2>1, <3>2
    <3>. QED
      BY <3>1, <3>2
  <2>5. IsTerminal(rec.life) =>
             \/ rec.seq <= e
             \/ \E u \in {"carrier", "stop"} : o[u].semantic /\ o[u].seq = rec.seq
             \/ Numbered(r, rec.seq) \/ Numbered(w, rec.seq)
    BY <1>1, <1>5, <1>11
  <2>. QED
    BY <1>11, <2>2, <2>3, <2>4, <2>5 DEF QueueTo, RecordTo, p
<1>12. CASE EnqueueAppends(queue, m, k2)
  <2>1. ~queue.suspended /\ ~k2.suspended /\ k2.output = NoMessage /\ r = Append(q, m)
    BY <1>12 DEF EnqueueAppends
  <2>2. /\ Len(r) = Len(q) + 1 /\ r[Len(q) + 1] = m
        /\ \A k \in 1..Len(q) : r[k] = q[k]
    BY <1>1, <2>1
  <2> HIDE DEF q, r
  <2>3. \A n : (Told(q, n) => Told(r, n)) /\ (Numbered(q, n) => Numbered(r, n))
    BY <1>1, <2>2 DEF Told, Numbered
  <2>4. Told(r, s) /\ Numbered(r, m.seq)
    BY <1>1, <2>2 DEF Told, Numbered, s
  <2>5. Chain(b, w, r)
    <3> SUFFICES ASSUME NEW i \in DOMAIN r
                 PROVE  LET n == DoneSteps(r[i].prog) - 1
                        IN  \/ n <= b \/ Told(w, n)
                            \/ \E j \in DOMAIN r : j < i /\ n <= DoneSteps(r[j].prog)
      BY DEF Chain
    <3>1. CASE i \in DOMAIN q
      <4>1. r[i] = q[i] /\ Chain(b, w, q)
        BY <1>1, <1>4, <2>2, <3>1 DEF QueueTo, q
      <4>2. LET n == DoneSteps(q[i].prog) - 1
            IN  \/ n <= b \/ Told(w, n)
                \/ \E j \in DOMAIN q : j < i /\ n <= DoneSteps(q[j].prog)
        BY <3>1, <4>1 DEF Chain
      <4>3. \A j \in DOMAIN q : j \in DOMAIN r /\ r[j] = q[j]
        BY <1>1, <2>2
      <4>. QED
        BY <4>1, <4>2, <4>3
    <3>2. CASE i = Len(q) + 1
      <4>1. Reached(b, w, q, p - 1)
        BY <1>5, <2>1
      <4>2. CASE p - 1 <= b
        BY <1>1, <1>3, <2>2, <3>2, <4>2 DEF s
      <4>3. CASE Told(w, p - 1)
        <5>1. PICK k \in DOMAIN w : p - 1 <= DoneSteps(w[k].prog)
          BY <4>3 DEF Told
        <5>2. DoneSteps(w[k].prog) \in Nat
          BY SeqOfMessages DEF BaseOK
        <5>3. s - 1 <= DoneSteps(w[k].prog)
          BY <1>1, <1>3, <5>1, <5>2
        <5>4. Told(w, s - 1)
          BY <5>1, <5>3 DEF Told
        <5>. QED
          BY <2>2, <3>2, <5>4 DEF s
      <4>4. CASE Told(q, p - 1)
        <5>1. PICK k \in DOMAIN q : p - 1 <= DoneSteps(q[k].prog)
          BY <4>4 DEF Told
        <5>2. s - 1 <= DoneSteps(q[k].prog)
          BY <1>1, <1>3, <1>7, <5>1 DEF q
        <5>3. k \in DOMAIN r /\ r[k] = q[k] /\ k < i
          BY <1>1, <2>2, <3>2
        <5>. QED
          BY <2>2, <3>2, <5>2, <5>3 DEF s
      <4>. QED
        BY <4>1, <4>2, <4>3, <4>4 DEF Reached
    <3>. QED
      BY <1>1, <2>2, <3>1, <3>2
  <2>. QED
    BY <1>11, <2>1, <2>3, <2>4, <2>5
<1>13. CASE EnqueueReplaces(queue, m, k2)
  <2>1. /\ ~queue.suspended /\ ~k2.suspended /\ k2.output = NoMessage
        /\ Len(r) = Len(q) /\ Len(q) > 0 /\ q[Len(q)].seq = m.seq /\ r[Len(q)] = m
        /\ \A k \in 1..Len(q) : k # Len(q) => r[k] = q[k]
    BY <1>13 DEF EnqueueReplaces
  <2>2. Len(q) \in DOMAIN q /\ Item(q[Len(q)]) \in Items /\ q[Len(q)] \in Message
    BY <1>1, <1>7, <2>1, HasItems, ItemOfSeq
  <2>3. DoneSteps(q[Len(q)].prog) = s
    BY <1>1, <1>2, <2>1, <2>2, SameNumber DEF SaidInv, s
  <2> HIDE DEF q, r
  <2>4. \A k \in DOMAIN q : DoneSteps(r[k].prog) = DoneSteps(q[k].prog)
                            /\ r[k].seq = q[k].seq
    BY <1>1, <2>1, <2>3 DEF s
  <2>5. DOMAIN r = DOMAIN q
    BY <1>1, <2>1
  <2>6. \A n : (Told(q, n) => Told(r, n)) /\ (Numbered(q, n) => Numbered(r, n))
    BY <2>4, <2>5 DEF Told, Numbered
  <2>7. Told(r, s) /\ Numbered(r, m.seq)
    <3>1. Len(q) \in DOMAIN r
      BY <2>2, <2>5
    <3>2. r[Len(q)].seq = m.seq /\ DoneSteps(r[Len(q)].prog) = s
      BY <2>1 DEF s
    <3>3. s <= s
      BY <1>1
    <3>. QED
      BY <3>1, <3>2, <3>3 DEF Told, Numbered
  <2>8. Chain(b, w, r)
    <3>1. Chain(b, w, q)
      BY <1>4 DEF QueueTo, q
    <3>. QED
      BY <2>4, <2>5, <3>1 DEF Chain
  <2>. QED
    BY <1>11, <2>1, <2>6, <2>7, <2>8
<1>. QED
  BY <1>8, <1>9, <1>10, <1>12, <1>13 DEF EnqueueResult

(* The replay of a registration whose inventory the Server has. *)
LEMMA ReplayDelivers ==
    ASSUME TypeOK, SaidInv, NEW b, NEW e, NEW w, BaseOK(b, e, w), Delivers(b, e, w),
           NEW inv \in JobRecord, Item(inv) \in Items, inv.seq <= e,
           NEW now \in JobRecord,
           NEW k2, ReplayResult(queue, inv, now, k2), ~k2.skipped
    PROVE  DeliversTo(b, e, w, worker, rec, k2, owed)
<1>0. WorkerTo(b, e, w, worker)
  BY DEF Delivers, DeliversTo
<1> SUFFICES ASSUME rec.life # "Absent"
             PROVE  QueueTo(b, w, k2) /\ RecordTo(b, e, w, rec, k2, owed)
  BY <1>0 DEF DeliversTo
<1>1. PICK d \in Nat, kept \in Queues :
         /\ Shrinks(queue, kept, d)
         /\ \A k \in 1..d : queue.required[k].seq <= inv.seq
         /\ \/ ReplayStays(kept, k2) \/ ReplayGoesOn(kept, inv, k2)
            \/ ReplaySends(kept, inv, now, k2) \/ ReplayGivesUp(k2)
  BY DEF ReplayResult
<1>2. /\ b \in Nat /\ e \in Nat /\ inv.seq \in Nat /\ rec.seq \in Nat
      /\ DoneSteps(inv.prog) \in Nat /\ DoneSteps(now.prog) \in Nat
      /\ DoneSteps(inv.prog) <= b
  BY RunnerTypes, NumbersType, ItemOfType DEF BaseOK
<1>3. \A k \in 1..d : queue.required[k].seq <= e
  <2> TAKE k \in 1..d
  <2>1. k \in DOMAIN queue.required
    BY <1>1, RunnerTypes DEF Shrinks, Dropped
  <2>2. queue.required[k].seq \in Nat
    BY <2>1, RunnerTypes, SeqOfMessages
  <2>. QED
    BY <1>1, <1>2, <2>2
<1>4. QueueTo(b, w, kept) /\ RecordTo(b, e, w, rec, kept, owed)
  <2>1. QueueTo(b, w, queue) /\ RecordTo(b, e, w, rec, queue, owed)
    BY DEF Delivers, DeliversTo
  <2>. QED
    BY <1>1, <1>3, <2>1, ShrinkDelivers DEF SaidInv
<1>5. DoneSteps(NoMessage.prog) = 0
  BY NoMessageType DEF NoMessage
<1>6. CASE ReplayStays(kept, k2)
  BY <1>4, <1>6 DEF ReplayStays
<1>7. CASE ReplayGoesOn(kept, inv, k2)
  <2>1. /\ ~k2.suspended /\ k2.required = kept.required /\ k2.output = kept.output
        /\ kept.suspended => ~(rec.seq > inv.seq)
    BY <1>7 DEF ReplayGoesOn
  <2>2. QueueTo(b, w, k2)
    BY <1>4, <2>1 DEF QueueTo
  <2>3. CASE ~kept.suspended
    BY <1>4, <2>1, <2>2, <2>3 DEF RecordTo
  <2>4. CASE kept.suspended
    <3>1. rec.seq <= e
      BY <1>2, <2>1, <2>4
    <3>2. DoneSteps(rec.prog) <= b
      BY <3>1, HasItems, RunnerTypes, ItemOfType DEF BaseOK
    <3>3. DoneSteps(rec.prog) \in Nat
      BY RunnerTypes, NumbersType
    <3>4. RecordTo(b, e, w, rec, k2, owed)
      BY <1>2, <3>1, <3>2, <3>3 DEF RecordTo, Reached
    <3>. QED
      BY <2>2, <3>4
  <2>. QED
    BY <2>3, <2>4
<1>8. CASE ReplaySends(kept, inv, now, k2)
  <2> DEFINE r == k2.required
  <2>1. /\ ~kept.suspended /\ ~k2.suspended /\ k2.output = NoMessage
        /\ kept.required = <<>> /\ r = <<Snapshot(now)>>
        /\ DoneSteps(now.prog) <= DoneSteps(inv.prog) + 1
    BY <1>8 DEF ReplaySends, ReplaySafe
  <2>2. DOMAIN r = {1} /\ r[1].prog = now.prog
    BY <2>1 DEF Snapshot
  <2> HIDE DEF r
  <2>3. Chain(b, w, r)
    BY <1>2, <2>1, <2>2 DEF Chain
  <2>4. \A n : ~Told(<<>>, n) /\ ~Numbered(<<>>, n)
    BY DEF Told, Numbered
  <2>5. Reached(b, w, r, DoneSteps(k2.output.prog) - 1)
    BY <1>2, <1>5, <2>1 DEF Reached
  <2>6. RecordTo(b, e, w, rec, k2, owed)
    BY <1>4, <2>1, <2>4 DEF RecordTo, Reached
  <2>. QED
    BY <2>3, <2>5, <2>6 DEF QueueTo, r
<1>9. CASE ReplayGivesUp(k2)
  <2>1. k2.suspended /\ k2.required = <<>> /\ k2.output = NoMessage
    BY <1>9 DEF ReplayGivesUp
  <2>2. Chain(b, w, <<>>)
    BY DEF Chain
  <2>3. Reached(b, w, <<>>, DoneSteps(k2.output.prog) - 1)
    BY <1>2, <1>5, <2>1 DEF Reached
  <2>. QED
    BY <2>1, <2>2, <2>3 DEF QueueTo, RecordTo
<1>. QED
  BY <1>1, <1>6, <1>7, <1>8, <1>9

-------------------------------------------------------------------------------
(* The way to the Server, step by step *)

LEMMA ServerBase ==
    ASSUME TypeOK, SaidInv, SessionInv, Waiting
    PROVE  BaseOK(DoneSteps(srv.prog), srv.seq, Wire)
<1>1. srv.seq \in Nat /\ DoneSteps(srv.prog) \in Nat
  BY RunnerTypes, DoneType DEF Servers
<1>2. Wire \in Seq(Message) /\ ItemsOf(Wire) \subseteq Items
  <2>1. CASE open = 0
    BY <2>1 DEF Wire, ItemsOf
  <2>2. CASE open # 0
    <3>1. open \in Sessions
      BY <2>2 DEF TypeOK, Sessions
    <3>. QED
      BY <2>2, <3>1, HasItems, RunnerTypes DEF Wire
  <2>. QED
    BY <2>1, <2>2
<1>. QED
  BY <1>1, <1>2 DEF BaseOK, SaidInv, ServerInv

(* The inventory is there to be taken. *)
Taking == Asked /\ (srv.known => ~IsTerminal(srv.life))

LEMMA AskedBase ==
    ASSUME TypeOK, SaidInv, Taking
    PROVE  /\ BaseOK(AskedProg, AskedSeq, <<>>)
           /\ AskedProg \in Nat /\ AskedSeq \in Nat
           /\ srv.known => DoneSteps(srv.prog) <= AskedProg /\ srv.seq <= AskedSeq
           /\ DoneSteps(reg.inv.prog) <= AskedProg /\ reg.inv.seq <= AskedSeq
<1>1. srv.seq \in Nat /\ DoneSteps(srv.prog) \in Nat /\ srv.known \in BOOLEAN
  BY RunnerTypes, DoneType DEF Servers
<1>2. reg.inv.seq \in Nat /\ DoneSteps(reg.inv.prog) \in Nat
  BY RunnerTypes, NumbersType
<1>3. /\ AskedProg \in Nat /\ AskedSeq \in Nat
      /\ srv.known => DoneSteps(srv.prog) <= AskedProg /\ srv.seq <= AskedSeq
      /\ DoneSteps(reg.inv.prog) <= AskedProg /\ reg.inv.seq <= AskedSeq
  BY <1>1, <1>2 DEF AskedProg, AskedSeq
<1>4. AskedSeq = reg.inv.seq \/ (srv.known /\ AskedSeq = srv.seq)
  BY DEF AskedSeq
<1>5. ASSUME NEW x \in Items, x[2] <= AskedSeq PROVE DoneSteps(x[3]) <= AskedProg
  <2>1. x[2] \in Nat /\ DoneSteps(x[3]) \in Nat
    BY ItemsTyped DEF ItemType
  <2>2. CASE AskedSeq = reg.inv.seq
    <3>1. InOrder(x, Item(reg.inv))
      BY HasItems DEF SaidInv, ItemsInv
    <3>2. DoneSteps(x[3]) <= DoneSteps(reg.inv.prog)
      BY <1>5, <2>2, <3>1, RunnerTypes, ItemOfType DEF InOrder
    <3>. QED
      BY <1>2, <1>3, <2>1, <3>2
  <2>3. CASE srv.known /\ AskedSeq = srv.seq
    <3>1. DoneSteps(x[3]) <= DoneSteps(srv.prog)
      BY <1>5, <2>3 DEF SaidInv, ServerInv, Waiting, Taking
    <3>. QED
      BY <1>1, <1>3, <2>1, <2>3, <3>1
  <2>. QED
    BY <1>4, <2>2, <2>3
<1>6. <<>> \in Seq(Message) /\ ItemsOf(<<>>) \subseteq Items
  BY DEF ItemsOf
<1>. QED
  BY <1>3, <1>5, <1>6 DEF BaseOK

(* The two halves of WayInv. *)
ServerWay ==
    /\ Linked => Delivers(DoneSteps(srv.prog), srv.seq, Wire)
    /\ \A s \in Sessions : Chain(DoneSteps(srv.prog), <<>>, chan[s])
    /\ \A m \in posts : DoneSteps(m.prog) <= DoneSteps(srv.prog) + 1

AskedWay ==
    /\ Delivers(AskedProg, AskedSeq, <<>>)
    /\ \A s \in Sessions : \A k \in DOMAIN chan[s] :
          DoneSteps(chan[s][k].prog) <= AskedProg + 1
    /\ \A m \in posts : DoneSteps(m.prog) <= AskedProg + 1

LEMMA WayHalves ==
    WayInv <=> (~queue.skipped => (Waiting => ServerWay) /\ (Taking => AskedWay))
BY DEF WayInv, ServerWay, AskedWay, Taking

(* A step that concerns the record, the queue and the worker only. *)
LEMMA LocalWay ==
    ASSUME TypeOK, SaidInv, SessionInv, WayInv,
           UNCHANGED <<srv, open, kind, sess, chan, posts, reg>>,
           queue.skipped => queue'.skipped,
           \A b, e, w : BaseOK(b, e, w) /\ Delivers(b, e, w) =>
                           DeliversTo(b, e, w, worker', rec', queue', owed')
    PROVE  WayInv'
<1> SUFFICES ASSUME ~queue'.skipped
             PROVE  (Waiting => ServerWay)' /\ (Taking => AskedWay)'
  BY WayHalves DEF WayInv, ServerWay, AskedWay, Taking
<1>1. (Waiting => ServerWay) /\ (Taking => AskedWay)
  BY WayHalves
<1>2. (Waiting' <=> Waiting) /\ (Taking' <=> Taking) /\ (Linked' <=> Linked)
      /\ Wire' = Wire /\ AskedProg' = AskedProg /\ AskedSeq' = AskedSeq
  BY DEF Waiting, Taking, Asked, Linked, Current, Wire, AskedProg, AskedSeq
<1>3. ASSUME Waiting PROVE ServerWay'
  <2>1. Linked => DeliversTo(DoneSteps(srv.prog), srv.seq, Wire, worker', rec', queue', owed')
    BY <1>1, <1>3, ServerBase DEF ServerWay
  <2>. QED
    BY <1>1, <1>2, <1>3, <2>1 DEF ServerWay, Delivers
<1>4. ASSUME Taking PROVE AskedWay'
  <2>1. DeliversTo(AskedProg, AskedSeq, <<>>, worker', rec', queue', owed')
    BY <1>1, <1>4, AskedBase DEF AskedWay
  <2>. QED
    BY <1>1, <1>2, <1>4, <2>1 DEF AskedWay, Delivers
<1>. QED
  BY <1>2, <1>3, <1>4

(* Where an update leaves the Server. *)
Advanced(m) ==
    /\ srv'.known = srv.known
    /\ ~srv.known => srv' = srv
    /\ Waiting' =>
         /\ Waiting
         /\ DoneSteps(srv.prog) <= DoneSteps(srv'.prog) /\ srv.seq <= srv'.seq
         /\ m.seq <= srv'.seq /\ DoneSteps(m.prog) <= DoneSteps(srv'.prog)

LEMMA UpdateAdvances ==
    ASSUME TypeOK, SaidInv, NEW m \in Message, Item(m) \in Items,
           \/ srv' = srv
           \/ Waiting /\ IsTerminal(srv'.life) /\ srv'.known
           \/ Waiting /\ m.seq > srv.seq /\ Takes(Item(m)),
           Waiting' => m.seq <= srv'.seq
    PROVE  Advanced(m)
<1>1. /\ Item(m)[1] = m.life /\ Item(m)[2] = m.seq /\ Item(m)[3] = m.prog
      /\ m.seq \in Nat /\ DoneSteps(m.prog) \in Nat /\ srv.seq \in Nat
      /\ DoneSteps(srv.prog) \in Nat /\ srv.known \in BOOLEAN
  BY ItemOfType, NumbersType, RunnerTypes, DoneType DEF Servers
<1>2. CASE srv' = srv
  <2>1. Waiting' => Waiting
    BY <1>2 DEF Waiting
  <2>2. Waiting /\ m.seq <= srv.seq => DoneSteps(m.prog) <= DoneSteps(srv.prog)
    BY <1>1 DEF SaidInv, ServerInv
  <2>. QED
    BY <1>1, <1>2, <2>1, <2>2 DEF Advanced
<1>3. CASE Waiting /\ IsTerminal(srv'.life) /\ srv'.known
  BY <1>3 DEF Advanced, Waiting
<1>4. CASE Waiting /\ m.seq > srv.seq /\ Takes(Item(m))
  <2>1. /\ srv'.known /\ srv'.seq = m.seq
        /\ srv'.prog = m.prog \/ (m.prog = NoProgress /\ srv'.prog = srv.prog)
    BY <1>1, <1>4 DEF Takes
  <2>2. DoneSteps(srv.prog) <= DoneSteps(m.prog)
    BY <1>1, <1>4 DEF SaidInv, ServerInv
  <2>3. m.prog = NoProgress => DoneSteps(m.prog) = 0
    BY NoMessageType
  <2>. QED
    BY <1>1, <1>4, <2>1, <2>2, <2>3 DEF Advanced, Waiting
<1>. QED
  BY <1>2, <1>3, <1>4

LEMMA ChainTail ==
    ASSUME NEW b \in Nat, NEW b2 \in Nat, b <= b2, NEW q \in Seq(Message), q # <<>>,
           Chain(b, <<>>, q), DoneSteps(Head(q).prog) <= b2
    PROVE  Chain(b2, <<>>, Tail(q))
<1> DEFINE v == Tail(q)
<1>1. /\ Len(q) \in Nat /\ Len(q) > 0 /\ DOMAIN q = 1..Len(q) /\ Head(q) = q[1]
      /\ DOMAIN v = 1..(Len(q) - 1) /\ \A k \in DOMAIN v : v[k] = q[k + 1]
  OBVIOUS
<1>2. \A k \in DOMAIN q : DoneSteps(q[k].prog) \in Nat
  BY SeqOfMessages
<1> HIDE DEF v
<1> SUFFICES ASSUME NEW i \in DOMAIN v
             PROVE  LET n == DoneSteps(v[i].prog) - 1
                    IN  \/ n <= b2 \/ Told(<<>>, n)
                        \/ \E j \in DOMAIN v : j < i /\ n <= DoneSteps(v[j].prog)
  BY DEF Chain, v
<1> DEFINE n == DoneSteps(v[i].prog) - 1
<1>3. i + 1 \in DOMAIN q /\ v[i] = q[i + 1] /\ n \in Int
  BY <1>1, <1>2
<1>4. \/ n <= b \/ Told(<<>>, n)
      \/ \E j \in DOMAIN q : j < i + 1 /\ n <= DoneSteps(q[j].prog)
  BY <1>3 DEF Chain
<1> HIDE DEF n
<1>5. ASSUME NEW j \in DOMAIN q, j < i + 1, n <= DoneSteps(q[j].prog)
      PROVE  n <= b2 \/ \E l \in DOMAIN v : l < i /\ n <= DoneSteps(v[l].prog)
  <2>1. CASE j = 1
    BY <1>1, <1>2, <1>3, <1>5, <2>1
  <2>2. CASE j # 1
    <3>1. j - 1 \in DOMAIN v /\ v[j - 1] = q[j] /\ j - 1 < i
      BY <1>1, <1>5, <2>2
    <3>. QED
      BY <1>5, <3>1
  <2>. QED
    BY <2>1, <2>2
<1>6. n <= b => n <= b2
  BY <1>3
<1>. QED
  BY <1>4, <1>5, <1>6 DEF n

(* An update has reached the Server. *)
LEMMA UpdateWay ==
    ASSUME TypeOK, SaidInv, SessionInv, WayInv, NEW m \in Message, Advanced(m),
           srv' \in Servers, UNCHANGED <<rec, owed, queue, reg, open, kind, sess>>,
           \/ worker' = worker \/ worker' = Resting
           \/ srv.known /\ worker' \in Workers /\ worker'.at = "sent" /\ worker'.m = m,
           posts' \subseteq posts,
           \A s \in Sessions : \/ chan'[s] = chan[s]
                               \/ /\ chan[s] # <<>> /\ chan'[s] = Tail(chan[s])
                                  /\ Head(chan[s]) = m
    PROVE  WayInv'
<1> DEFINE b == DoneSteps(srv.prog)  b2 == DoneSteps(srv'.prog)
           e == srv.seq  e2 == srv'.seq
<1> SUFFICES ASSUME ~queue.skipped
             PROVE  (Waiting => ServerWay)' /\ (Taking => AskedWay)'
  BY WayHalves DEF WayInv, ServerWay, AskedWay, Taking
<1>1. (Waiting => ServerWay) /\ (Taking => AskedWay)
  BY WayHalves
<1>2. /\ b \in Nat /\ b2 \in Nat /\ e \in Nat /\ e2 \in Nat
      /\ m.seq \in Nat /\ DoneSteps(m.prog) \in Nat /\ \A s \in Sessions : chan[s] \in Seq(Message)
      /\ \A x \in posts : DoneSteps(x.prog) \in Nat
      /\ worker \in Workers /\ rec \in JobRecord /\ queue \in Queues /\ owed \in Owed
  BY RunnerTypes, NumbersType, DoneType DEF Servers, TypeOK
<1> HIDE DEF b, b2, e, e2
<1>3. ASSUME NEW c, NEW f \in Nat, NEW w, DeliversTo(c, f, w, worker, rec, queue, owed),
             srv.known => m.seq <= f
      PROVE  DeliversTo(c, f, w, worker', rec, queue, owed)
  <2>1. WorkerTo(c, f, w, worker) =>
          WorkerTo(c, f, w, worker')
    BY <1>3, RestTo DEF WorkerTo
  <2>. QED
    BY <1>3, <2>1 DEF DeliversTo
<1>4. ASSUME Waiting' PROVE ServerWay'
  <2>1. /\ Waiting /\ b <= b2 /\ e <= e2 /\ m.seq <= e2 /\ DoneSteps(m.prog) <= b2
    BY <1>4 DEF Advanced, b, b2, e, e2
  <2>2. ServerWay
    BY <1>1, <2>1
  <2>3. ASSUME NEW s \in Sessions
        PROVE  /\ Covers(b, e, chan[s], b2, e2, chan'[s])
               /\ Chain(b2, <<>>, chan'[s])
    <3>1. Chain(b, <<>>, chan[s]) /\ chan[s] \in Seq(Message)
      BY <1>2, <2>2 DEF ServerWay, b
    <3>2. CASE chan'[s] = chan[s]
      <4>1. Covers(b, e, chan[s], b2, e2, chan[s])
        BY <1>2, <2>1, CoversSame
      <4>2. Covers(b, e, <<>>, b2, e2, <<>>)
        BY <1>2, <2>1, CoversSame
      <4>. QED
        BY <3>1, <3>2, <4>1, <4>2, ChainCovers
    <3>3. CASE /\ chan[s] # <<>> /\ chan'[s] = Tail(chan[s])
               /\ Head(chan[s]) = m
      <4>1. Covers(b, e, chan[s], b2, e2, Tail(chan[s]))
        BY <1>2, <2>1, <3>1, <3>3, CoversTail
      <4>2. Chain(b2, <<>>, Tail(chan[s]))
        BY <1>2, <2>1, <3>1, <3>3, ChainTail
      <4>. QED
        BY <3>3, <4>1, <4>2
    <3>. QED
      BY <3>2, <3>3
  <2>4. Covers(b, e, Wire, b2, e2, Wire')
    <3>1. CASE open = 0
      <4>1. Covers(b, e, <<>>, b2, e2, <<>>)
        BY <1>2, <2>1, CoversSame
      <4>. QED
        BY <3>1, <4>1 DEF Wire
    <3>2. CASE open # 0
      <4>1. open \in Sessions
        BY <3>2 DEF TypeOK, Sessions
      <4>. QED
        BY <2>3, <3>2, <4>1 DEF Wire
    <3>. QED
      BY <3>1, <3>2
  <2>5. ASSUME Linked' PROVE DeliversTo(b2, e2, Wire', worker', rec, queue, owed)
    <3>1. Linked
      BY <2>5 DEF Linked, Current
    <3>2. DeliversTo(b, e, Wire, worker, rec, queue, owed)
      BY <2>2, <3>1 DEF ServerWay, Delivers, b, e
    <3>3. DeliversTo(b2, e2, Wire', worker, rec, queue, owed)
      BY <1>2, <2>4, <3>2, DeliversCovers
    <3>. QED
      BY <1>2, <1>3, <2>1, <3>3
  <2>6. \A x \in posts' : DoneSteps(x.prog) <= b2 + 1
    <3> TAKE x \in posts'
    <3>1. x \in posts /\ DoneSteps(x.prog) <= b + 1 /\ DoneSteps(x.prog) \in Nat
      BY <1>2, <2>2 DEF ServerWay, b
    <3>. QED
      BY <1>2, <2>1, <3>1
  <2>7. \A s \in Sessions : Chain(b2, <<>>, chan'[s])
    BY <2>3
  <2>. QED
    BY <2>5, <2>6, <2>7 DEF ServerWay, Delivers, b2, e2
<1>5. ASSUME Taking' PROVE AskedWay'
  <2>1. Taking
    BY <1>5 DEF Taking, Asked, Advanced, Waiting
  <2>2. /\ AskedProg \in Nat /\ AskedSeq \in Nat /\ AskedProg' \in Nat /\ AskedSeq' \in Nat
        /\ AskedProg <= AskedProg' /\ AskedSeq <= AskedSeq'
        /\ srv.known => m.seq <= AskedSeq'
    <3>1. reg.inv.seq \in Nat /\ DoneSteps(reg.inv.prog) \in Nat
      BY RunnerTypes, NumbersType
    <3>2. CASE srv.known
      <4>1. b <= b2 /\ e <= e2 /\ m.seq <= e2 /\ srv'.known
        BY <1>5, <3>2 DEF Taking, Advanced, Waiting, b, b2, e, e2
      <4>. QED
        BY <1>2, <3>1, <3>2, <4>1 DEF AskedProg, AskedSeq, b, b2, e, e2
    <3>3. CASE ~srv.known
      <4>1. srv' = srv
        BY <3>3 DEF Advanced
      <4>. QED
        BY <1>2, <3>1, <3>3, <4>1 DEF AskedProg, AskedSeq
    <3>. QED
      BY <3>2, <3>3
  <2>3. AskedWay
    BY <1>1, <2>1
  <2>4. DeliversTo(AskedProg', AskedSeq', <<>>, worker', rec, queue, owed)
    <3>1. DeliversTo(AskedProg, AskedSeq, <<>>, worker, rec, queue, owed)
      BY <2>3 DEF AskedWay, Delivers
    <3>2. Covers(AskedProg, AskedSeq, <<>>, AskedProg', AskedSeq', <<>>)
      BY <2>2, CoversSame
    <3>3. DeliversTo(AskedProg', AskedSeq', <<>>, worker, rec, queue, owed)
      BY <1>2, <3>1, <3>2, DeliversCovers
    <3>. QED
      BY <1>3, <2>2, <3>3
  <2>5. ASSUME NEW s \in Sessions, NEW k \in DOMAIN chan'[s]
        PROVE  DoneSteps(chan'[s][k].prog) <= AskedProg' + 1
    <3>1. chan[s] \in Seq(Message)
      BY <1>2
    <3>2. \E l \in DOMAIN chan[s] : chan'[s][k] = chan[s][l]
      <4>1. CASE chan'[s] = chan[s]
        BY <4>1
      <4>2. CASE chan[s] # <<>> /\ chan'[s] = Tail(chan[s])
        <5>1. k + 1 \in DOMAIN chan[s] /\ Tail(chan[s])[k] = chan[s][k + 1]
          BY <3>1, <4>2
        <5>. QED
          BY <4>2, <5>1
      <4>. QED
        BY <4>1, <4>2
    <3>3. PICK l \in DOMAIN chan[s] : chan'[s][k] = chan[s][l]
      BY <3>2
    <3>4. DoneSteps(chan[s][l].prog) \in Nat
      BY <3>1, SeqOfMessages
    <3>5. DoneSteps(chan[s][l].prog) <= AskedProg + 1
      BY <2>3 DEF AskedWay
    <3>. QED
      BY <2>2, <3>3, <3>4, <3>5
  <2>6. \A x \in posts' : DoneSteps(x.prog) <= AskedProg' + 1
    <3> TAKE x \in posts'
    <3>1. x \in posts /\ DoneSteps(x.prog) <= AskedProg + 1 /\ DoneSteps(x.prog) \in Nat
      BY <1>2, <2>3 DEF AskedWay
    <3>. QED
      BY <2>2, <3>1
  <2>. QED
    BY <2>4, <2>5, <2>6 DEF AskedWay, Delivers
<1>. QED
  BY <1>4, <1>5

(* What the worker has picked goes into the channel of the open session. *)
LEMMA TrySendWay ==
    ASSUME TypeOK, SaidInv, SessionInv, WayInv, TrySend
    PROVE  WayInv'
<1>1. CASE UNCHANGED chan /\ worker' = Resting
  <2>1. \A b, e, w : BaseOK(b, e, w) /\ Delivers(b, e, w) =>
                           DeliversTo(b, e, w, worker', rec', queue', owed')
    BY <1>1, RestTo DEF Delivers, DeliversTo, TrySend
  <2>. QED
    BY <1>1, <2>1, LocalWay DEF TrySend
<1>2. CASE /\ sink = open
           /\ chan' = [chan EXCEPT ![sink] = Append(@, worker.m)]
           /\ worker' = [worker EXCEPT !.at = "sent", !.via = sink]
  <2>0. UNCHANGED <<rec, queue, owed, srv, open, reg, kind, sess, posts>> /\ worker.at = "picked"
    BY DEF TrySend
  <2>1. /\ open \in Sessions /\ open # 0 /\ reg.at \notin {"asked", "acked"}
        /\ worker.m \in Message /\ chan \in [Sessions -> Seq(Message)]
    BY <1>2, RunnerTypes DEF TypeOK, SessionInv, Sessions
  <2>2. /\ chan'[open] = Append(chan[open], worker.m)
        /\ \A s \in Sessions : s # open => chan'[s] = chan[s]
    BY <1>2, <2>1
  <2>3. worker'.at = "sent" /\ worker'.m = worker.m
    BY <1>2, RunnerTypes DEF Workers
  <2> SUFFICES ASSUME ~queue.skipped
               PROVE  (Waiting => ServerWay)' /\ (Taking => AskedWay)'
    BY <2>0, WayHalves DEF WayInv, ServerWay, AskedWay, Taking
  <2>4. ~Taking'
    BY <2>0, <2>1 DEF Taking, Asked
  <2>5. ASSUME Waiting' PROVE ServerWay'
    <3> DEFINE b == DoneSteps(srv.prog)  e == srv.seq  w == chan[open]
               v == Append(chan[open], worker.m)
    <3>1. b \in Nat /\ e \in Nat /\ w \in Seq(Message)
      BY <2>1, RunnerTypes, DoneType DEF Servers
    <3>2. Waiting
      BY <2>0, <2>5 DEF Waiting
    <3>3. ServerWay /\ Linked
      BY <2>1, <3>2, WayHalves DEF Linked
    <3>4. DeliversTo(b, e, w, worker, rec, queue, owed)
      BY <2>1, <3>3 DEF ServerWay, Delivers, Wire
    <3>5. Covers(b, e, w, b, e, v) /\ Numbered(v, worker.m.seq)
      BY <2>1, <3>1, CoversAppend
    <3>6. Wire' = v
      BY <2>0, <2>1, <2>2 DEF Wire
    <3>7. Reached(b, w, <<>>, DoneSteps(worker.m.prog) - 1)
      BY <2>0, <3>4 DEF DeliversTo, WorkerTo
    <3>8. Chain(b, <<>>, v)
      <4>1. Chain(b, <<>>, w)
        BY <2>1, <3>3 DEF ServerWay
      <4>2. /\ DOMAIN v = 1..(Len(w) + 1) /\ DOMAIN w = 1..Len(w) /\ Len(w) \in Nat
            /\ v[Len(w) + 1] = worker.m
            /\ \A k \in 1..Len(w) : v[k] = w[k]
        BY <2>1, <3>1
      <4> HIDE DEF v, w, b
      <4> SUFFICES ASSUME NEW i \in DOMAIN v
                   PROVE  LET n == DoneSteps(v[i].prog) - 1
                          IN  \/ n <= b \/ Told(<<>>, n)
                              \/ \E j \in DOMAIN v : j < i /\ n <= DoneSteps(v[j].prog)
        BY DEF Chain
      <4>3. \A j \in DOMAIN w : j \in DOMAIN v /\ v[j] = w[j]
        BY <4>2
      <4>4. CASE i \in DOMAIN w
        <5>1. LET n == DoneSteps(w[i].prog) - 1
              IN  \/ n <= b \/ Told(<<>>, n)
                  \/ \E j \in DOMAIN w : j < i /\ n <= DoneSteps(w[j].prog)
          BY <4>1, <4>4 DEF Chain
        <5>. QED
          BY <4>3, <4>4, <5>1
      <4>5. CASE i = Len(w) + 1
        <5>1. v[i] = worker.m /\ \A j \in DOMAIN w : j < i
          BY <4>2, <4>5
        <5>2. \/ DoneSteps(worker.m.prog) - 1 <= b
              \/ \E j \in DOMAIN w : DoneSteps(worker.m.prog) - 1 <= DoneSteps(w[j].prog)
          BY <3>7 DEF Reached, Told
        <5>. QED
          BY <4>3, <5>1, <5>2
      <4>. QED
        BY <4>2, <4>4, <4>5
    <3> HIDE DEF b, e, w, v
    <3>9. DeliversTo(b, e, v, worker', rec, queue, owed)
      <4>1. DeliversTo(b, e, v, worker, rec, queue, owed)
        BY <3>4, <3>5, RunnerTypes, DeliversCovers
      <4>2. WorkerTo(b, e, v, worker')
        BY <2>3, <3>5 DEF WorkerTo
      <4>. QED
        BY <4>1, <4>2 DEF DeliversTo
    <3>10. \A s \in Sessions : Chain(b, <<>>, chan'[s])
      BY <2>2, <3>3, <3>8 DEF ServerWay, b, v
    <3>. QED
      BY <2>0, <3>3, <3>6, <3>9, <3>10 DEF ServerWay, Delivers, b, e
  <2>. QED
    BY <2>4, <2>5
<1>. QED
  BY <1>1, <1>2 DEF TrySend

(* Nothing is on the way over a session that is served by HTTP. *)
LEMMA PostWire ==
    ASSUME TypeOK, SessionInv, kind[Current] = "http"
    PROVE  Wire = <<>> /\ Linked
<1>1. open = 0 \/ (open = Current /\ open \in Sessions)
  BY DEF SessionInv
<1>2. open \in Sessions /\ kind[open] = "http" => chan[open] = <<>>
  BY DEF SessionInv
<1>. QED
  BY <1>1, <1>2 DEF Wire, Linked

LEMMA PostTimesOutWay ==
    ASSUME TypeOK, SaidInv, SessionInv, WayInv, PostTimesOut
    PROVE  WayInv'
<1>0. /\ UNCHANGED <<rec, queue, owed, srv, open, reg, kind, sess, chan>>
      /\ worker.at = "posting" /\ worker' = Resting /\ posts' = posts \cup {worker.m}
  BY DEF PostTimesOut
<1>1. Wire = <<>> /\ Linked
  BY <1>0, PostWire DEF SessionInv
<1> SUFFICES ASSUME ~queue.skipped
             PROVE  (Waiting => ServerWay)' /\ (Taking => AskedWay)'
  BY <1>0, WayHalves DEF WayInv, ServerWay, AskedWay, Taking
<1>2. (Waiting => ServerWay) /\ (Taking => AskedWay)
  BY WayHalves
<1>3. (Waiting' <=> Waiting) /\ (Taking' <=> Taking) /\ (Linked' <=> Linked)
      /\ Wire' = Wire /\ AskedProg' = AskedProg /\ AskedSeq' = AskedSeq
  BY <1>0 DEF Waiting, Taking, Asked, Linked, Current, Wire, AskedProg, AskedSeq
<1>4. ASSUME NEW b \in Nat, NEW e, DeliversTo(b, e, <<>>, worker, rec, queue, owed)
      PROVE  /\ DeliversTo(b, e, <<>>, worker', rec, queue, owed)
             /\ DoneSteps(worker.m.prog) <= b + 1
  <2>1. Reached(b, <<>>, <<>>, DoneSteps(worker.m.prog) - 1)
    BY <1>0, <1>4 DEF DeliversTo, WorkerTo
  <2>2. DoneSteps(worker.m.prog) - 1 <= b /\ DoneSteps(worker.m.prog) \in Nat
    BY <2>1, RunnerTypes, NumbersType DEF Reached, Told
  <2>. QED
    BY <1>0, <1>4, <2>2, RestTo DEF DeliversTo
<1>5. ASSUME Waiting PROVE ServerWay'
  <2>1. DoneSteps(srv.prog) \in Nat
    BY RunnerTypes, DoneType DEF Servers
  <2>2. DeliversTo(DoneSteps(srv.prog), srv.seq, <<>>, worker, rec, queue, owed)
    BY <1>1, <1>2, <1>5 DEF ServerWay, Delivers
  <2>. QED
    BY <1>0, <1>1, <1>2, <1>3, <1>4, <1>5, <2>1, <2>2 DEF ServerWay, Delivers
<1>6. ASSUME Taking PROVE AskedWay'
  <2>1. AskedProg \in Nat
    BY <1>6, AskedBase
  <2>2. DeliversTo(AskedProg, AskedSeq, <<>>, worker, rec, queue, owed)
    BY <1>2, <1>6 DEF AskedWay, Delivers
  <2>. QED
    BY <1>0, <1>2, <1>3, <1>4, <1>6, <2>1, <2>2 DEF AskedWay, Delivers
<1>. QED
  BY <1>3, <1>5, <1>6

LEMMA CloseWay ==
    ASSUME TypeOK, SaidInv, SessionInv, WayInv, Close
    PROVE  WayInv'
<1>0. /\ UNCHANGED <<rec, queue, owed, srv, worker, reg, kind, sess, chan, posts>>
      /\ open' = 0 /\ open # 0 /\ reg.at \notin {"asked", "acked"}
  BY DEF Close, SessionInv
<1> SUFFICES ASSUME ~queue.skipped
             PROVE  (Waiting => ServerWay)' /\ (Taking => AskedWay)'
  BY <1>0, WayHalves DEF WayInv, ServerWay, AskedWay, Taking
<1>1. ~Taking'
  BY <1>0 DEF Taking, Asked
<1>2. ASSUME Waiting' PROVE ServerWay'
  <2>1. ServerWay
    BY <1>0, <1>2, WayHalves DEF Waiting
  <2>2. ASSUME Linked' PROVE Wire = <<>> /\ Wire' = <<>> /\ Linked
    <3>1. kind[Current] = "http"
      BY <1>0, <2>2 DEF Linked, Current
    <3>. QED
      BY <1>0, <3>1, PostWire DEF Wire
  <2>. QED
    BY <1>0, <2>1, <2>2 DEF ServerWay, Delivers
<1>. QED
  BY <1>1, <1>2

LEMMA LoseChannelWay ==
    ASSUME TypeOK, SaidInv, SessionInv, WayInv, NEW s \in Sessions, LoseChannel(s)
    PROVE  WayInv'
<1>0. /\ UNCHANGED <<rec, queue, owed, srv, worker, reg, kind, sess, open, posts>>
      /\ s # open /\ chan'[s] = <<>> /\ \A t \in Sessions : t # s => chan'[t] = chan[t]
  BY RunnerTypes DEF LoseChannel
<1>1. open = 0 \/ open \in Sessions
  BY DEF TypeOK, Sessions
<1> SUFFICES ASSUME ~queue.skipped
             PROVE  (Waiting => ServerWay)' /\ (Taking => AskedWay)'
  BY <1>0, WayHalves DEF WayInv, ServerWay, AskedWay, Taking
<1>2. (Waiting => ServerWay) /\ (Taking => AskedWay)
  BY WayHalves
<1>3. (Waiting' <=> Waiting) /\ (Taking' <=> Taking) /\ (Linked' <=> Linked)
      /\ Wire' = Wire /\ AskedProg' = AskedProg /\ AskedSeq' = AskedSeq
  BY <1>0, <1>1 DEF Waiting, Taking, Asked, Linked, Current, Wire, AskedProg, AskedSeq
<1>4. ASSUME Waiting PROVE ServerWay'
  <2>1. \A b : Chain(b, <<>>, <<>>)
    BY DEF Chain
  <2>2. \A t \in Sessions : Chain(DoneSteps(srv.prog), <<>>, chan'[t])
    BY <1>0, <1>2, <1>4, <2>1 DEF ServerWay
  <2>. QED
    BY <1>0, <1>2, <1>3, <1>4, <2>2 DEF ServerWay, Delivers
<1>5. ASSUME Taking PROVE AskedWay'
  <2>1. \A t \in Sessions : \A k \in DOMAIN chan'[t] :
          DoneSteps(chan'[t][k].prog) <= AskedProg + 1
    BY <1>0, <1>2, <1>5 DEF AskedWay
  <2>. QED
    BY <1>0, <1>2, <1>3, <1>5, <2>1 DEF AskedWay, Delivers
<1>. QED
  BY <1>3, <1>4, <1>5

LEMMA RestartWay ==
    ASSUME ServerRestart
    PROVE  WayInv'
<1>1. ~srv'.known /\ reg'.at # "asked"
  BY DEF ServerRestart, NoRegistration
<1>. QED
  BY <1>1 DEF WayInv, Waiting, Asked

(* The inventory of a registration covers everything that is under way. *)
LEMMA RegisterBeginWay ==
    ASSUME TypeOK, SaidInv, SessionInv, WayInv, NEW k, RegisterBegin(k)
    PROVE  WayInv'
<1>0. /\ UNCHANGED <<rec, queue, owed, srv, worker, open, chan, posts>>
      /\ open = 0 /\ reg.at = "idle" /\ sess < MaxSessions /\ sess' = sess + 1
      /\ kind' = [kind EXCEPT ![sess + 1] = k]
      /\ reg'.at = "asked" /\ reg'.inv = rec
  BY DEF RegisterBegin, NoRegistration
<1>1. /\ sess \in Sessions /\ Current = sess /\ Current' = sess /\ kind'[sess] = kind[sess]
  BY <1>0, DeliveryAssumption DEF TypeOK, Current, Sessions
<1> SUFFICES ASSUME ~queue.skipped
             PROVE  (Waiting => ServerWay)' /\ (Taking => AskedWay)'
  BY <1>0, WayHalves DEF WayInv, ServerWay, AskedWay, Taking
<1>2. ASSUME Waiting' PROVE ServerWay'
  <2>1. ServerWay
    BY <1>0, <1>2, WayHalves DEF Waiting
  <2>2. Wire' = Wire /\ (Linked' => Linked)
    BY <1>0, <1>1 DEF Wire, Linked
  <2>. QED
    BY <1>0, <2>1, <2>2 DEF ServerWay, Delivers
<1>3. ASSUME Taking' PROVE AskedWay'
  <2> DEFINE b == AskedProg'  e == AskedSeq'
  <2>1. rec.life # "Absent"
    BY <1>0, <1>3 DEF Taking, Asked
  <2>2. /\ b \in Nat /\ e \in Nat /\ DoneSteps(rec.prog) <= b /\ rec.seq <= e
        /\ rec.seq \in Nat /\ DoneSteps(rec.prog) \in Nat
    <3>1. /\ srv.seq \in Nat /\ DoneSteps(srv.prog) \in Nat
          /\ rec.seq \in Nat /\ DoneSteps(rec.prog) \in Nat
      BY RunnerTypes, NumbersType, DoneType DEF Servers
    <3>. QED
      BY <1>0, <3>1 DEF AskedProg, AskedSeq
  <2> HIDE DEF b, e
  <2>3. \A x \in Items : x[2] <= e /\ DoneSteps(x[3]) <= b
    <3> TAKE x \in Items
    <3>1. x[2] \in Nat /\ DoneSteps(x[3]) \in Nat
      BY ItemsTyped DEF ItemType
    <3>2. x[2] <= rec.seq
      BY <2>1 DEF SaidInv, RecordInv
    <3>3. DoneSteps(x[3]) <= DoneSteps(rec.prog)
      BY <3>2, HasItems, RunnerTypes, ItemOfType DEF SaidInv, ItemsInv, InOrder
    <3>. QED
      BY <2>2, <3>1, <3>2, <3>3
  <2>4. BaseOK(b, e, <<>>)
    BY <2>2, <2>3 DEF BaseOK, ItemsOf
  <2>5. Delivers(b, e, <<>>)
    BY <2>3, <2>4, AllCovered
  <2>6. ASSUME NEW m \in Message, Item(m) \in Items
        PROVE  DoneSteps(m.prog) <= b + 1
    BY <2>2, <2>3, <2>6, ItemOfType, NumbersType
  <2>7. \A s \in Sessions : \A l \in DOMAIN chan[s] : DoneSteps(chan[s][l].prog) <= b + 1
    <3> SUFFICES ASSUME NEW s \in Sessions, NEW l \in DOMAIN chan[s]
                 PROVE  chan[s][l] \in Message /\ Item(chan[s][l]) \in Items
      BY <2>6
    <3>1. chan[s] \in Seq(Message)
      BY RunnerTypes
    <3>. QED
      BY <3>1, SeqOfMessages, HasItems, ItemOfSeq
  <2>8. \A m \in posts : DoneSteps(m.prog) <= b + 1
    BY <2>6, HasItems DEF TypeOK
  <2>. QED
    BY <1>0, <2>5, <2>7, <2>8 DEF AskedWay, Delivers, b, e
<1>. QED
  BY <1>2, <1>3

(* The registration ends and leaves the session before it. *)
LEMMA UnregisterWay ==
    ASSUME TypeOK, SaidInv, SessionInv, WayInv, reg.at \in {"asked", "acked"},
           reg' = NoRegistration, sess' = sess - 1, kind' = [kind EXCEPT ![sess] = "none"],
           UNCHANGED <<rec, queue, owed, srv, worker, open, chan, posts>>
    PROVE  WayInv'
<1>0. /\ open = 0 /\ reg'.at = "idle" /\ Current = sess - 1 /\ Current' = sess - 1
      /\ sess - 1 \in Sessions
  BY DEF SessionInv, NoRegistration, Current
<1>1. kind'[sess - 1] = kind[sess - 1]
  BY <1>0 DEF TypeOK, Sessions
<1> SUFFICES ASSUME ~queue.skipped
             PROVE  (Waiting => ServerWay)' /\ (Taking => AskedWay)'
  BY WayHalves DEF WayInv, ServerWay, AskedWay, Taking
<1>2. ~Taking'
  BY <1>0 DEF Taking, Asked
<1>3. ASSUME Waiting' PROVE ServerWay'
  <2>1. ServerWay
    BY <1>3, WayHalves DEF Waiting
  <2>2. Wire' = Wire /\ (Linked' => Linked)
    BY <1>0, <1>1 DEF Wire, Linked
  <2>. QED
    BY <2>1, <2>2 DEF ServerWay, Delivers
<1>. QED
  BY <1>2, <1>3

(* The Server has taken the inventory: it stands where it was to stand. *)
LEMMA RegisterAtServerWay ==
    ASSUME TypeOK, SaidInv, SessionInv, WayInv, RegisterAtServer
    PROVE  WayInv'
<1>1. CASE ~ValidInventory(reg.inv)
  BY <1>1, UnregisterWay DEF RegisterAtServer
<1>2. CASE ValidInventory(reg.inv)
  <2>0. /\ UNCHANGED <<rec, queue, owed, worker, open, chan, posts, sess, kind>>
        /\ srv' = AfterInventory(srv, reg.inv) /\ reg.at = "asked"
        /\ reg' = [reg EXCEPT !.at = "acked"]
    BY <1>2 DEF RegisterAtServer
  <2>1. reg'.at = "acked" /\ open = 0
    BY <2>0 DEF TypeOK, SessionInv
  <2> SUFFICES ASSUME ~queue.skipped
               PROVE  (Waiting => ServerWay)' /\ (Taking => AskedWay)'
    BY <2>0, WayHalves DEF WayInv, ServerWay, AskedWay, Taking
  <2>2. ~Taking'
    BY <2>1 DEF Taking, Asked
  <2>3. ASSUME Waiting' PROVE ServerWay'
    <3>1. reg.inv.life # "Absent" /\ (srv.known => ~IsTerminal(srv.life))
      <4>1. "Lost" \in TerminalStates
        BY DEF TerminalStates
      <4>2. srv \in Servers
        BY RunnerTypes
      <4>3. CASE reg.inv.life = "Absent"
        <5>1. CASE srv.known /\ ~IsTerminal(srv.life)
          <6>1. srv' = [srv EXCEPT !.life = "Lost"]
            BY <2>0, <4>3, <5>1 DEF AfterInventory
          <6>2. srv'.life = "Lost"
            BY <4>2, <6>1 DEF Servers
          <6>. QED
            BY <2>3, <4>1, <6>2 DEF Waiting, IsTerminal
        <5>2. CASE ~(srv.known /\ ~IsTerminal(srv.life))
          <6>1. srv' = srv
            BY <2>0, <4>3, <5>2 DEF AfterInventory
          <6>. QED
            BY <2>3, <5>2, <6>1 DEF Waiting
        <5>. QED
          BY <5>1, <5>2
      <4>4. CASE reg.inv.life # "Absent" /\ srv.known /\ IsTerminal(srv.life)
        <5>1. srv' = srv
          BY <2>0, <4>4 DEF AfterInventory
        <5>. QED
          BY <2>3, <4>4, <5>1 DEF Waiting
      <4>. QED
        BY <4>3, <4>4
    <3>2. Taking
      BY <2>0, <3>1 DEF Taking, Asked
    <3>3. AskedWay
      BY <3>2, WayHalves
    <3>4. AskedProg \in Nat /\ AskedSeq \in Nat
      BY <3>2, AskedBase
    <3>5. DoneSteps(srv'.prog) = AskedProg /\ srv'.seq = AskedSeq
      <4>1. /\ srv.seq \in Nat /\ DoneSteps(srv.prog) \in Nat /\ srv \in Servers
            /\ reg.inv.seq \in Nat /\ DoneSteps(reg.inv.prog) \in Nat
        BY RunnerTypes, NumbersType, DoneType DEF Servers
      <4>2. CASE ~srv.known
        <5>1. srv'.prog = reg.inv.prog /\ srv'.seq = reg.inv.seq
          BY <2>0, <3>1, <4>2 DEF AfterInventory
        <5>. QED
          BY <4>2, <5>1 DEF AskedProg, AskedSeq
      <4>3. CASE srv.known
        <5>0. /\ reg.inv.seq <= srv.seq => DoneSteps(reg.inv.prog) <= DoneSteps(srv.prog)
              /\ reg.inv.seq >= srv.seq => DoneSteps(reg.inv.prog) >= DoneSteps(srv.prog)
          BY <3>1, <4>3, HasItems, RunnerTypes, ItemOfType DEF SaidInv, ServerInv, Waiting
        <5>1. CASE reg.inv.seq > srv.seq
          <6>1. srv' = [srv EXCEPT !.life = reg.inv.life, !.seq = reg.inv.seq,
                                   !.prog = reg.inv.prog]
            BY <2>0, <3>1, <4>3, <5>1 DEF AfterInventory
          <6>2. srv'.prog = reg.inv.prog /\ srv'.seq = reg.inv.seq
            BY <4>1, <6>1 DEF Servers
          <6>. QED
            BY <4>1, <5>0, <5>1, <6>2 DEF AskedProg, AskedSeq
        <5>2. CASE ~(reg.inv.seq > srv.seq)
          <6>1. srv' = srv
            BY <2>0, <3>1, <4>3, <5>2 DEF AfterInventory
          <6>. QED
            BY <4>1, <4>3, <5>0, <5>2, <6>1 DEF AskedProg, AskedSeq
        <5>. QED
          BY <5>1, <5>2
      <4>. QED
        BY <4>2, <4>3
    <3>6. \A s \in Sessions : Chain(AskedProg, <<>>, chan[s])
      <4> SUFFICES ASSUME NEW s \in Sessions, NEW i \in DOMAIN chan[s]
                   PROVE  DoneSteps(chan[s][i].prog) - 1 <= AskedProg
        BY DEF Chain
      <4>1. DoneSteps(chan[s][i].prog) <= AskedProg + 1
        BY <3>3 DEF AskedWay
      <4>2. DoneSteps(chan[s][i].prog) \in Nat
        BY RunnerTypes, SeqOfMessages
      <4>. QED
        BY <3>4, <4>1, <4>2
    <3>7. Wire' = <<>>
      BY <2>0, <2>1 DEF Wire
    <3>. QED
      BY <2>0, <3>3, <3>5, <3>6, <3>7 DEF ServerWay, AskedWay, Delivers
  <2>. QED
    BY <2>2, <2>3
<1>. QED
  BY <1>1, <1>2

LEMMA InstallSinkWay ==
    ASSUME TypeOK, SaidInv, SessionInv, WayInv, InstallSink
    PROVE  WayInv'
<1>0. /\ UNCHANGED <<rec, queue, owed, srv, worker, chan, posts, sess, kind>>
      /\ reg.at = "acked" /\ open' = sess /\ open = 0
      /\ reg' = [reg EXCEPT !.at = "installed"]
  BY DEF InstallSink, SessionInv
<1>1. reg'.at = "installed" /\ sess \in Sessions /\ chan[sess] = <<>> /\ sess # 0
  <2>1. reg'.at = "installed" /\ sess \in Sessions
    BY <1>0 DEF TypeOK
  <2>2. sess \in Nat /\ sess # 0
    BY <2>1, DeliveryAssumption DEF Sessions
  <2>3. sess > Current
    BY <1>0, <2>2 DEF Current
  <2>. QED
    BY <2>1, <2>2, <2>3 DEF SessionInv
<1> SUFFICES ASSUME ~queue.skipped
             PROVE  (Waiting => ServerWay)' /\ (Taking => AskedWay)'
  BY <1>0, WayHalves DEF WayInv, ServerWay, AskedWay, Taking
<1>2. ~Taking'
  BY <1>1 DEF Taking, Asked
<1>3. ASSUME Waiting' PROVE ServerWay'
  <2>1. ServerWay
    BY <1>0, <1>3, WayHalves DEF Waiting
  <2>2. Wire' = <<>> /\ Wire = <<>> /\ Linked
    BY <1>0, <1>1 DEF Wire, Linked
  <2>. QED
    BY <1>0, <2>1, <2>2 DEF ServerWay, Delivers
<1>. QED
  BY <1>2, <1>3

LEMMA ReplayReadWay ==
    ASSUME TypeOK, SaidInv, SessionInv, WayInv, ReplayRead
    PROVE  WayInv'
<1>0. /\ UNCHANGED <<rec, queue, owed, srv, worker, chan, posts, sess, kind, open>>
      /\ reg.at = "installed" /\ reg' = [reg EXCEPT !.at = "replay", !.now = rec]
  BY DEF ReplayRead
<1>1. reg'.at = "replay" /\ open # 0
  BY <1>0, DeliveryAssumption DEF TypeOK, SessionInv, Sessions
<1> SUFFICES ASSUME ~queue.skipped
             PROVE  (Waiting => ServerWay)' /\ (Taking => AskedWay)'
  BY <1>0, WayHalves DEF WayInv, ServerWay, AskedWay, Taking
<1>2. ~Taking'
  BY <1>1 DEF Taking, Asked
<1>3. ASSUME Waiting' PROVE ServerWay'
  <2>1. ServerWay
    BY <1>0, <1>3, WayHalves DEF Waiting
  <2>2. Wire' = Wire /\ Linked
    BY <1>0, <1>1 DEF Wire, Linked
  <2>. QED
    BY <1>0, <2>1, <2>2 DEF ServerWay, Delivers
<1>. QED
  BY <1>2, <1>3

(* What a replay makes of the queue. *)
LEMMA ReplayQueue ==
    ASSUME TypeOK, Replay
    PROVE  \/ queue' = queue
           \/ ReplayResult(queue, reg.inv, reg.now, queue')
BY RunnerTypes, ReplayFacts DEF Replay

LEMMA ReplayWay ==
    ASSUME TypeOK, SaidInv, SessionInv, WayInv, Replay
    PROVE  WayInv'
<1>0. /\ UNCHANGED <<rec, owed, srv, worker, chan, posts, sess, kind, open>>
      /\ reg.at = "replay" /\ reg' = NoRegistration
  BY DEF Replay
<1>1. reg'.at = "idle" /\ open # 0
  BY <1>0, DeliveryAssumption DEF TypeOK, SessionInv, Sessions, NoRegistration
<1>2. queue' = queue \/ ReplayResult(queue, reg.inv, reg.now, queue')
  BY ReplayQueue
<1>3. queue.skipped => queue'.skipped
  BY <1>2 DEF ReplayResult
<1> SUFFICES ASSUME ~queue'.skipped
             PROVE  (Waiting => ServerWay)' /\ (Taking => AskedWay)'
  BY WayHalves DEF WayInv, ServerWay, AskedWay, Taking
<1>4. ~Taking'
  BY <1>1 DEF Taking, Asked
<1>5. ASSUME Waiting' PROVE ServerWay'
  <2>1. ServerWay /\ Waiting
    BY <1>0, <1>3, <1>5, WayHalves DEF Waiting
  <2>2. Wire' = Wire /\ Linked
    BY <1>0, <1>1 DEF Wire, Linked
  <2> DEFINE b == DoneSteps(srv.prog)  e == srv.seq
  <2>3. Delivers(b, e, Wire) /\ BaseOK(b, e, Wire)
    BY <2>1, <2>2, ServerBase DEF ServerWay
  <2>4. DeliversTo(b, e, Wire, worker, rec, queue', owed)
    <3>1. CASE queue' = queue
      BY <2>3, <3>1 DEF Delivers
    <3>2. CASE ReplayResult(queue, reg.inv, reg.now, queue')
      <4>1. reg.inv.seq <= e
        BY <1>0, <2>1 DEF SessionInv
      <4> HIDE DEF e, b
      <4>. QED
        BY <2>3, <3>2, <4>1, HasItems, RunnerTypes, ReplayDelivers
    <3>. QED
      BY <1>2, <3>1, <3>2
  <2>. QED
    BY <1>0, <2>1, <2>2, <2>4 DEF ServerWay, Delivers
<1>. QED
  BY <1>4, <1>5

-------------------------------------------------------------------------------
(* The threads that record *)

LEMMA ActiveRecord ==
    ASSUME TypeOK, SaidInv, rec.life # "Absent", ~IsTerminal(rec.life)
    PROVE  /\ rec.life \in {"RunnerQueued", "Running", "StopRequested"}
           /\ rec.seq \in Nat /\ rec.prog \in -1..Steps /\ carrier \in {"announce", "work"}
           /\ rec.prog # NoProgress =>
                rec.life \in {"Running", "StopRequested"} /\ rec.prog \in 0..(Steps - 1)
<1>1. rec.life \in Lives /\ rec.seq \in Nat /\ rec.prog \in -1..Steps
  BY RunnerTypes DEF JobRecord
<1>2. rec.life \in {"RunnerQueued", "Running", "StopRequested"}
  BY <1>1 DEF Lives, IsTerminal, RunnerActiveStates
<1>3. ShapeOK(Item(rec)) /\ Item(rec)[1] = rec.life /\ Item(rec)[3] = rec.prog
  BY HasItems, RunnerTypes, ItemOfType DEF SaidInv, ItemsInv
<1>4. rec.prog # NoProgress =>
         rec.life \in {"Running", "StopRequested"} /\ rec.prog \in 0..(Steps - 1)
  BY <1>1, <1>2, <1>3, DeliveryAssumption DEF ShapeOK, NoProgress
<1>5. carrier \in {"announce", "work"}
  BY DEF TypeOK, SaidInv, RecordInv, NoRecord
<1>. QED
  BY <1>1, <1>2, <1>4, <1>5

LEMMA RecordFacts ==
    ASSUME TypeOK, SaidInv, NEW t \in {"carrier", "stop"}, NEW life \in Lives, NEW prog,
           NEW explicit \in BOOLEAN, Record(t, life, prog, explicit),
           prog \in {NoProgress, rec.prog, DoneSteps(rec.prog), DoneSteps(rec.prog) + 1},
           prog \in -1..Steps, t = "stop" => prog = NoProgress,
           rec'.prog # NoProgress =>
             /\ life # "RunnerQueued"
             /\ life = "Completed" => rec'.prog = Steps
             /\ life \in {"Running", "StopRequested", "Failed"} => rec'.prog < Steps
    PROVE  RecordStep(t)
<1> DEFINE l == IF Regresses(rec.life, life) THEN rec.life ELSE life
           p == IF prog = NoProgress THEN rec.prog ELSE prog
           s == explicit \/ (l # rec.life \/ p # rec.prog)
<1>0. rec.life # "Absent" /\ ~IsTerminal(rec.life) /\ owed[t] = NoMessage
  BY DEF Record
<1>1. rec' = [life |-> l, seq |-> rec.seq + 1, prog |-> p]
  BY DEF Record
<1>2. /\ rec.life \in {"RunnerQueued", "Running", "StopRequested"}
      /\ rec.seq \in Nat /\ rec.prog \in -1..Steps
      /\ rec.prog # NoProgress =>
           rec.life \in {"Running", "StopRequested"} /\ rec.prog \in 0..(Steps - 1)
  BY <1>0, ActiveRecord
<1>3. l \in Lives /\ p \in -1..Steps /\ s \in BOOLEAN
  BY <1>2 DEF Lives, RunnerActiveStates
<1>4. l = life \/ (l = rec.life /\ life \in {"RunnerQueued", "Running"})
  BY DEF Regresses
<1>5. owed' = [owed EXCEPT ![t] = [life |-> l, seq |-> rec.seq + 1, prog |-> p,
                                   semantic |-> s]]
  <2> HIDE DEF l, p
  <2>1. rec'.life = l /\ rec'.seq = rec.seq + 1 /\ rec'.prog = p
    BY <1>1
  <2>. QED
    BY <2>1 DEF Record
<1>6. p = rec.prog \/ p \in {DoneSteps(rec.prog), DoneSteps(rec.prog) + 1}
  OBVIOUS
<1>7. t = "stop" => p = rec.prog
  OBVIOUS
<1> HIDE DEF l, p, s
<1>8. rec'.life = l /\ rec'.seq = rec.seq + 1 /\ rec'.prog = p /\ rec' \in JobRecord
  BY <1>1, <1>2, <1>3 DEF JobRecord
<1>9. DoneSteps(rec.prog) \in Nat /\ (rec.prog # NoProgress => DoneSteps(rec.prog) = rec.prog)
  BY <1>2, DoneType DEF DoneSteps
<1>10. DoneSteps(p) \in {DoneSteps(rec.prog), DoneSteps(rec.prog) + 1}
  <2>1. CASE p = rec.prog
    BY <2>1
  <2>2. CASE p \in {DoneSteps(rec.prog), DoneSteps(rec.prog) + 1}
    BY <1>9, <2>2 DEF DoneSteps, NoProgress
  <2>. QED
    BY <1>6, <2>1, <2>2
<1>11. l # "Absent"
  BY <1>0, <1>3, <1>4 DEF Lives, RunnerActiveStates, TerminalStates
<1>12. ShapeOK(Item(rec'))
  <2>1. Item(rec')[1] = l /\ Item(rec')[3] = p
    BY <1>8, ItemOfType
  <2>2. ASSUME p # NoProgress
        PROVE  /\ l # "RunnerQueued"
               /\ l = "Completed" => p = Steps
               /\ l \in {"Running", "StopRequested", "Failed"} => p < Steps
    <3>1. CASE l = life
      BY <1>8, <2>2, <3>1
    <3>2. CASE l = rec.life /\ life \in {"RunnerQueued", "Running"} /\ l # life
      <4>1. life = "Running" /\ p < Steps
        BY <1>8, <2>2, <3>2
      <4>2. l \in {"Running", "StopRequested"}
        BY <1>2, <3>2, <4>1 DEF l, Regresses
      <4>. QED
        BY <4>1, <4>2
    <3>. QED
      BY <1>4, <3>1, <3>2
  <2>. QED
    BY <2>1, <2>2 DEF ShapeOK
<1> DEFINE m == [life |-> l, seq |-> rec.seq + 1, prog |-> p, semantic |-> s]
<1>13. /\ m \in Message /\ m.semantic = s /\ Item(m) = Item(rec')
  BY <1>2, <1>3, <1>8 DEF Message, Item
<1> HIDE DEF m
<1>14. /\ owed' \in Owed /\ owed'[t] = m
       /\ \A u \in {"carrier", "stop"} : u # t => owed'[u] = owed[u]
  <2>1. owed' = [owed EXCEPT ![t] = m] /\ owed \in Owed
    BY <1>5, RunnerTypes DEF m
  <2>. QED
    BY <1>13, <2>1 DEF Owed
<1>15. (DoneSteps(p) # DoneSteps(rec.prog) => s) /\ (IsTerminal(l) => s)
  BY <1>0 DEF s
<1>. QED
  BY <1>0, <1>7, <1>8, <1>10, <1>11, <1>12, <1>13, <1>14, <1>15 DEF RecordStep

LEMMA AnnounceFacts ==
    ASSUME TypeOK, SaidInv, Announce
    PROVE  RecordStep("carrier")
<1>1. Record("carrier", "RunnerQueued", NoProgress, FALSE) /\ rec.prog = NoProgress
  BY DEF Announce, SaidInv, RecordInv
<1>2. rec'.prog = NoProgress
  BY <1>1 DEF Record
<1>3. NoProgress \in -1..Steps /\ "RunnerQueued" \in Lives
  BY DeliveryAssumption DEF NoProgress, Lives, RunnerActiveStates
<1>. QED
  BY <1>1, <1>2, <1>3, RecordFacts

LEMMA WorkFacts ==
    ASSUME TypeOK, SaidInv, Work
    PROVE  RecordStep("carrier")
<1>0. NoProgress \in -1..Steps /\ 0 \in -1..Steps /\ Steps \in -1..Steps /\ 0 < Steps
      /\ 0 # NoProgress
      /\ {"Running", "Failed", "Completed", "Stopped"} \subseteq Lives
  BY DeliveryAssumption DEF NoProgress, Lives, RunnerActiveStates, TerminalStates
<1>1. rec.life # "Absent" /\ ~IsTerminal(rec.life)
  BY DEF Work, WorkReport, Record
<1>2. /\ rec.prog \in -1..Steps
      /\ rec.prog # NoProgress =>
           rec.life \in {"Running", "StopRequested"} /\ rec.prog \in 0..(Steps - 1)
  BY <1>1, ActiveRecord
<1>3. \A life, prog, explicit : Record("carrier", life, prog, explicit) =>
          rec'.prog = IF prog = NoProgress THEN rec.prog ELSE prog
  BY DEF Record
<1>4. rec.prog = NoProgress => DoneSteps(rec.prog) = 0
  BY NoMessageType
<1>5. rec.prog # NoProgress => DoneSteps(rec.prog) = rec.prog
  BY DEF DoneSteps
<1>6. CASE rec.prog = NoProgress /\ Record("carrier", "Running", 0, FALSE)
  <2>1. rec'.prog < Steps
    BY <1>0, <1>3, <1>6
  <2>. QED
    BY <1>0, <1>4, <1>6, <2>1, RecordFacts
<1>7. CASE rec.prog = NoProgress /\ Record("carrier", "Failed", NoProgress, TRUE)
  <2>1. rec'.prog = NoProgress
    BY <1>3, <1>7
  <2>. QED
    BY <1>0, <1>7, <2>1, RecordFacts
<1>8. CASE rec.prog # NoProgress /\ Record("carrier", "Running", rec.prog, FALSE)
  <2>0. rec'.prog = rec.prog
    BY <1>8 DEF Record
  <2>1. rec'.prog < Steps
    BY <1>2, <1>8, <2>0, DeliveryAssumption
  <2>. QED
    BY <1>0, <1>2, <1>8, <2>1, RecordFacts
<1>9. CASE /\ rec.prog # NoProgress /\ rec.prog + 1 < Steps
           /\ Record("carrier", "Running", rec.prog + 1, FALSE)
  <2>1. rec.prog + 1 \in -1..Steps /\ rec.prog + 1 # NoProgress
        /\ rec.prog + 1 = DoneSteps(rec.prog) + 1
    BY <1>2, <1>5, <1>9, DeliveryAssumption DEF NoProgress
  <2>2. rec'.prog = rec.prog + 1
    BY <1>9, <2>1 DEF Record
  <2>3. rec'.prog < Steps
    BY <1>9, <2>2
  <2>. QED
    BY <1>0, <1>9, <2>1, <2>3, RecordFacts
<1>10. CASE /\ rec.prog # NoProgress /\ rec.prog + 1 = Steps
            /\ Record("carrier", "Completed", Steps, TRUE)
  <2>1. Steps # NoProgress /\ Steps = DoneSteps(rec.prog) + 1
    BY <1>2, <1>5, <1>10, DeliveryAssumption DEF NoProgress
  <2>2. rec'.prog = Steps
    BY <1>3, <1>10, <2>1
  <2>. QED
    BY <1>0, <1>10, <2>1, <2>2, RecordFacts
<1>11. CASE rec.prog # NoProgress /\ Record("carrier", "Failed", rec.prog, TRUE)
  <2>0. rec'.prog = rec.prog
    BY <1>11 DEF Record
  <2>1. rec'.prog < Steps
    BY <1>2, <1>11, <2>0, DeliveryAssumption
  <2>. QED
    BY <1>0, <1>2, <1>11, <2>1, RecordFacts
<1>12. CASE rec.prog # NoProgress /\ Record("carrier", "Stopped", rec.prog, TRUE)
  BY <1>0, <1>2, <1>12, RecordFacts
<1>. QED
  BY <1>6, <1>7, <1>8, <1>9, <1>10, <1>11, <1>12 DEF Work, WorkReport

LEMMA StopRecordFacts ==
    ASSUME TypeOK, SaidInv, Record("stop", "StopRequested", NoProgress, TRUE)
    PROVE  RecordStep("stop")
<1>1. rec.life # "Absent" /\ ~IsTerminal(rec.life) /\ rec'.prog = rec.prog
  BY DEF Record
<1>2. rec.prog # NoProgress => rec.prog \in 0..(Steps - 1)
  BY <1>1, ActiveRecord
<1>3. NoProgress \in -1..Steps /\ "StopRequested" \in Lives
  BY DeliveryAssumption DEF NoProgress, Lives, RunnerActiveStates
<1>4. rec'.prog # NoProgress => rec'.prog < Steps
  BY <1>1, <1>2, DeliveryAssumption
<1>. QED
  BY <1>3, <1>4, RecordFacts

-------------------------------------------------------------------------------
(* Type correctness *)

LEMMA AfterUpdateType ==
    ASSUME NEW r \in Servers, NEW m \in Message
    PROVE  AfterUpdate(r, m) \in Servers
<1> DEFINE p == IF m.prog = NoProgress THEN r.prog ELSE m.prog
           f == IF m.prog = NoProgress THEN "missing" ELSE "invalid"
<1>1. /\ m.life \in Lives /\ m.seq \in Nat /\ p \in -1..Steps
      /\ f \in {"none", "missing", "invalid"} /\ "Failed" \in Lives
  BY DEF Servers, Message, Lives, TerminalStates
<1>2. \/ AfterUpdate(r, m) = r
      \/ AfterUpdate(r, m) = [r EXCEPT !.life = m.life, !.seq = m.seq, !.prog = p]
      \/ AfterUpdate(r, m) = [r EXCEPT !.life = "Failed", !.seq = m.seq, !.fault = f]
  BY DEF AfterUpdate
<1> HIDE DEF p, f
<1>. QED
  BY <1>1, <1>2 DEF Servers

LEMMA AfterInventoryType ==
    ASSUME NEW r \in Servers, NEW inv \in JobRecord
    PROVE  AfterInventory(r, inv) \in Servers
<1>1. /\ inv.life \in Lives \cup {"Absent"} /\ inv.seq \in Nat /\ inv.prog \in -1..Steps
      /\ "Lost" \in Lives
  BY DEF JobRecord, Lives, TerminalStates
<1>2. CASE inv.life = "Absent"
  BY <1>1, <1>2 DEF AfterInventory, Servers
<1>3. CASE inv.life # "Absent"
  BY <1>1, <1>3 DEF AfterInventory, Servers
<1>. QED
  BY <1>2, <1>3

(* The type invariant, in pieces. *)
ThreadTypes ==
    /\ rec \in JobRecord
    /\ carrier \in {"held", "insert", "announce", "work"}
    /\ owed \in Owed
    /\ stopper \in [at: {"idle", "held", "look", "tell"}, via: Sessions]
    /\ stops \in 0..MaxStops

TransportTypes ==
    /\ worker \in Workers
    /\ sink \in Sessions /\ sess \in Sessions /\ open \in 0..MaxSessions
    /\ kind \in [Sessions -> {"stream", "http", "none"}]
    /\ chan \in [Sessions -> Seq(Message)]
    /\ posts \subseteq Message
    /\ reg \in [at: {"idle", "asked", "acked", "installed", "replay"},
                inv: JobRecord, now: JobRecord]

LEMMA TypeParts ==
    TypeOK <=> ThreadTypes /\ QueueOK(queue) /\ TransportTypes /\ srv \in Servers
BY DEF TypeOK, ThreadTypes, TransportTypes, QueueOK, Queues, Workers, Servers, Owed

LEMMA InitTypes == Init => TypeOK
<1> SUFFICES ASSUME Init PROVE TypeOK
  OBVIOUS
<1>1. 1 \in Sessions /\ 0 \in 0..MaxStops /\ 1 \in 0..MaxSessions
  BY DeliveryAssumption DEF Sessions
<1>2. ThreadTypes
  BY <1>1, NoMessageType DEF Init, ThreadTypes, Owed, NoStopper
<1>3. QueueOK(queue)
  BY NoMessageType, DeliveryAssumption DEF Init, EmptyQueue, QueueOK, Queues
<1>4. kind \in [Sessions -> {"stream", "http", "none"}]
  BY DeliveryAssumption DEF Init
<1>5. worker \in Workers /\ reg \in [at: {"idle", "asked", "acked", "installed", "replay"},
                                    inv: JobRecord, now: JobRecord]
  BY <1>1, NoMessageType DEF Init, Workers, Resting, NoRegistration
<1>6. chan \in [Sessions -> Seq(Message)] /\ posts \subseteq Message
  BY DEF Init
<1>7. TransportTypes
  BY <1>1, <1>4, <1>5, <1>6 DEF Init, TransportTypes
<1>8. srv \in Servers
  BY NoMessageType, DeliveryAssumption
     DEF Init, Servers, Lives, RunnerActiveStates, NoProgress
<1>. QED
  BY <1>2, <1>3, <1>7, <1>8, TypeParts

LEMMA RunnerTypesNext ==
    ASSUME TypeOK, SaidInv, SessionInv, RunnerStep
    PROVE  TypeOK'
<1>0. ThreadTypes /\ QueueOK(queue) /\ TransportTypes /\ srv \in Servers
  BY TypeParts
<1> SUFFICES ThreadTypes' /\ QueueOK(queue)' /\ TransportTypes' /\ (srv \in Servers)'
  BY TypeParts DEF TypeOK, ThreadTypes, TransportTypes, QueueOK, Queues, Workers, Servers, Owed
<1>1. UNCHANGED <<worker, sess, open, kind, chan, posts, reg, srv>>
  BY DEF RunnerStep, StartInstall, StartInsert, Announce, Work, Hand, StopRequest,
         StopInstall, StopLook, Prune
<1>2. CASE StartInstall
  <2>1. 1 \in Sessions
    BY DeliveryAssumption DEF Sessions
  <2>. QED
    BY <1>0, <1>2, <2>1 DEF StartInstall, ThreadTypes, TransportTypes, QueueOK
<1>3. CASE StartInsert
  <2>1. rec' \in JobRecord
    BY <1>3, DeliveryAssumption
       DEF StartInsert, JobRecord, Lives, RunnerActiveStates, NoProgress
  <2>. QED
    BY <1>0, <1>3, <2>1 DEF StartInsert, ThreadTypes, TransportTypes, QueueOK
<1>4. CASE Announce
  <2>1. rec' \in JobRecord /\ owed' \in Owed
    BY <1>4, AnnounceFacts DEF RecordStep
  <2>. QED
    BY <1>0, <1>4, <2>1 DEF Announce, ThreadTypes, TransportTypes, QueueOK
<1>5. CASE Work
  <2>1. rec' \in JobRecord /\ owed' \in Owed
    BY <1>5, WorkFacts DEF RecordStep
  <2>. QED
    BY <1>0, <1>5, <2>1 DEF Work, ThreadTypes, TransportTypes, QueueOK
<1>6. ASSUME NEW t \in {"carrier", "stop"}, Hand(t)
      PROVE  ThreadTypes' /\ QueueOK(queue)' /\ TransportTypes' /\ (srv \in Servers)'
  <2>1. QueueOK(queue')
    <3>1. owed[t] \in Message
      BY <1>0 DEF ThreadTypes, Owed
    <3>2. EnqueueResult(queue, owed[t], queue')
      BY <1>0, <1>6, <3>1, EnqueueFacts DEF Hand
    <3>. QED
      BY <3>2 DEF EnqueueResult
  <2>2. owed' \in Owed
    BY <1>0, <1>6, NoMessageType DEF Hand, ThreadTypes, Owed
  <2>3. stopper' \in [at: {"idle", "held", "look", "tell"}, via: Sessions]
    <3>1. 1 \in Sessions
      BY DeliveryAssumption DEF Sessions
    <3>. QED
      BY <1>0, <1>6, <3>1 DEF Hand, ThreadTypes, NoStopper
  <2>. QED
    BY <1>0, <1>1, <1>6, <2>1, <2>2, <2>3 DEF Hand, ThreadTypes, TransportTypes, QueueOK
<1>7. CASE StopRequest
  <2>1. open \in Sessions
    BY <1>0, <1>7 DEF StopRequest, TransportTypes, Sessions
  <2>2. stops' \in 0..MaxStops
    BY <1>0, <1>7, DeliveryAssumption DEF StopRequest, ThreadTypes
  <2>. QED
    BY <1>0, <1>7, <2>1, <2>2 DEF StopRequest, ThreadTypes, TransportTypes, QueueOK
<1>8. CASE StopInstall
  <2>1. 1 \in Sessions
    BY DeliveryAssumption DEF Sessions
  <2>. QED
    BY <1>0, <1>8, <2>1 DEF StopInstall, ThreadTypes, TransportTypes, QueueOK
<1>9. CASE StopLook
  <2>1. 1 \in Sessions
    BY DeliveryAssumption DEF Sessions
  <2>2. CASE rec.life = "Absent" /\ stopper' = NoStopper /\ UNCHANGED <<rec, owed>>
    BY <1>0, <1>9, <2>1, <2>2 DEF StopLook, ThreadTypes, TransportTypes, QueueOK, NoStopper
  <2>3. CASE /\ IsTerminal(rec.life)
             /\ owed' = [owed EXCEPT !["stop"] =
                           [life |-> rec.life, seq |-> rec.seq, prog |-> rec.prog,
                            semantic |-> TRUE]]
             /\ stopper' = [stopper EXCEPT !.at = "tell"]
             /\ UNCHANGED rec
    <3>1. [life |-> rec.life, seq |-> rec.seq, prog |-> rec.prog, semantic |-> TRUE] \in Message
      BY <1>0, <2>3 DEF ThreadTypes, JobRecord, Message, Lives, IsTerminal
    <3>2. owed' \in Owed
      BY <1>0, <2>3, <3>1 DEF ThreadTypes, Owed
    <3>. QED
      BY <1>0, <1>9, <2>3, <3>2 DEF StopLook, ThreadTypes, TransportTypes, QueueOK
  <2>4. CASE /\ Record("stop", "StopRequested", NoProgress, TRUE)
             /\ stopper' = [stopper EXCEPT !.at = "tell"]
    <3>1. rec' \in JobRecord /\ owed' \in Owed
      BY <2>4, StopRecordFacts DEF RecordStep
    <3>. QED
      BY <1>0, <1>9, <2>4, <3>1 DEF StopLook, ThreadTypes, TransportTypes, QueueOK
  <2>. QED
    BY <1>9, <2>2, <2>3, <2>4 DEF StopLook
<1>10. CASE Prune
  <2>1. QueueOK(queue')
    BY <1>0, <1>10, ClearedFacts DEF Prune, QueueOK
  <2>. QED
    BY <1>0, <1>10, <2>1, NoMessageType DEF Prune, ThreadTypes, TransportTypes, QueueOK
<1>. QED
  BY <1>2, <1>3, <1>4, <1>5, <1>6, <1>7, <1>8, <1>9, <1>10 DEF RunnerStep

LEMMA WorkerTypesNext ==
    ASSUME TypeOK, WorkerStep
    PROVE  TypeOK'
<1>0. ThreadTypes /\ QueueOK(queue) /\ TransportTypes /\ srv \in Servers
  BY TypeParts
<1> SUFFICES ThreadTypes' /\ QueueOK(queue)' /\ TransportTypes' /\ (srv \in Servers)'
  BY TypeParts DEF TypeOK, ThreadTypes, TransportTypes, QueueOK, Queues, Workers, Servers, Owed
<1>1. ThreadTypes'
  BY <1>0 DEF WorkerStep, Pick, TrySend, Post, PostAnswered, PostTimesOut, Settle, ThreadTypes
<1>2. Resting \in Workers
  BY NoMessageType, DeliveryAssumption DEF Resting, Workers, Sessions
<1>3. /\ worker \in Workers /\ worker.m \in Message /\ worker.m.seq \in Nat
      /\ sink \in Sessions
  BY <1>0, NumbersType DEF TransportTypes, Workers
<1>4. CASE Pick
  <2>1. NextOf(queue) \in Message
    BY <1>0, NoMessageType DEF NextOf, QueueOK, Queues
  <2>2. QueueOK(Cleared(queue))
    BY <1>0, ClearedFacts DEF QueueOK
  <2>3. worker' \in Workers
    BY <1>3, <1>4, <2>1 DEF Pick, Workers
  <2>4. QueueOK(queue')
    BY <1>0, <1>4, <2>2 DEF Pick
  <2>. QED
    BY <1>0, <1>1, <1>4, <2>3, <2>4 DEF Pick, TransportTypes
<1>5. CASE TrySend
  <2>1. worker' \in Workers
    BY <1>2, <1>3, <1>5 DEF TrySend, Workers
  <2>2. chan' \in [Sessions -> Seq(Message)]
    <3>1. Append(chan[sink], worker.m) \in Seq(Message)
      BY <1>0, <1>3 DEF TransportTypes
    <3>. QED
      BY <1>0, <1>5, <3>1 DEF TrySend, TransportTypes
  <2>. QED
    BY <1>0, <1>1, <1>5, <2>1, <2>2 DEF TrySend, TransportTypes, QueueOK
<1>6. CASE Post
  <2>1. worker' \in Workers
    BY <1>3, <1>6 DEF Post, Workers
  <2>. QED
    BY <1>0, <1>1, <1>6, <2>1 DEF Post, TransportTypes, QueueOK
<1>7. CASE PostAnswered
  <2>1. worker' \in Workers
    BY <1>2, <1>3, <1>7 DEF PostAnswered, Workers
  <2>2. srv' \in Servers
    BY <1>0, <1>3, <1>7, AfterUpdateType DEF PostAnswered
  <2>. QED
    BY <1>0, <1>1, <1>7, <2>1, <2>2 DEF PostAnswered, TransportTypes, QueueOK
<1>8. CASE PostTimesOut
  BY <1>0, <1>1, <1>2, <1>3, <1>8 DEF PostTimesOut, TransportTypes, QueueOK
<1>9. CASE Settle
  <2>1. QueueOK(Acknowledge(queue, worker.m.seq))
    BY <1>0, <1>3, AcknowledgeFacts DEF Shrinks
  <2>2. QueueOK(queue')
    BY <1>0, <1>9, <2>1 DEF Settle
  <2>. QED
    BY <1>0, <1>1, <1>2, <1>9, <2>2 DEF Settle, TransportTypes
<1>. QED
  BY <1>4, <1>5, <1>6, <1>7, <1>8, <1>9 DEF WorkerStep

LEMMA NetworkTypesNext ==
    ASSUME TypeOK, NetworkStep
    PROVE  TypeOK'
<1>0. ThreadTypes /\ QueueOK(queue) /\ TransportTypes /\ srv \in Servers
  BY TypeParts
<1> SUFFICES ThreadTypes' /\ QueueOK(queue)' /\ TransportTypes' /\ (srv \in Servers)'
  BY TypeParts DEF TypeOK, ThreadTypes, TransportTypes, QueueOK, Queues, Workers, Servers, Owed
<1>1. ThreadTypes' /\ QueueOK(queue')
  BY <1>0 DEF NetworkStep, Receive, LoseChannel, StrayPost, ThreadTypes
<1>2. ASSUME NEW s \in Sessions, Receive(s)
      PROVE  TransportTypes' /\ srv' \in Servers
  <2>1. chan[s] \in Seq(Message) /\ chan[s] # <<>>
    BY <1>0, <1>2 DEF TransportTypes, Receive
  <2>2. Head(chan[s]) \in Message /\ Tail(chan[s]) \in Seq(Message)
    BY <2>1
  <2>3. srv' \in Servers
    BY <1>0, <1>2, <2>2, AfterUpdateType DEF Receive
  <2>4. chan' \in [Sessions -> Seq(Message)]
    BY <1>0, <1>2, <2>2 DEF Receive, TransportTypes
  <2>. QED
    BY <1>0, <1>2, <2>3, <2>4 DEF Receive, TransportTypes
<1>3. ASSUME NEW s \in Sessions, LoseChannel(s)
      PROVE  TransportTypes' /\ srv' \in Servers
  <2>1. <<>> \in Seq(Message)
    OBVIOUS
  <2>2. chan' \in [Sessions -> Seq(Message)]
    BY <1>0, <1>3, <2>1 DEF LoseChannel, TransportTypes
  <2>. QED
    BY <1>0, <1>3, <2>2 DEF LoseChannel, TransportTypes
<1>4. ASSUME NEW m \in posts, StrayPost(m)
      PROVE  TransportTypes' /\ srv' \in Servers
  <2>1. m \in Message
    BY <1>0 DEF TransportTypes
  <2>2. srv' \in Servers
    BY <1>0, <1>4, <2>1, AfterUpdateType DEF StrayPost
  <2>. QED
    BY <1>0, <1>4, <2>2 DEF StrayPost, TransportTypes
<1>. QED
  BY <1>1, <1>2, <1>3, <1>4 DEF NetworkStep

LEMMA SessionTypesNext ==
    ASSUME TypeOK, SessionInv, SessionStep
    PROVE  TypeOK'
<1>0. ThreadTypes /\ QueueOK(queue) /\ TransportTypes /\ srv \in Servers
  BY TypeParts
<1> SUFFICES ThreadTypes' /\ QueueOK(queue)' /\ TransportTypes' /\ (srv \in Servers)'
  BY TypeParts DEF TypeOK, ThreadTypes, TransportTypes, QueueOK, Queues, Workers, Servers, Owed
<1>1. ThreadTypes'
  BY <1>0 DEF SessionStep, Close, ServerRestart, RegisterBegin, RegisterAtServer,
              RegisterFails, InstallSink, ReplayRead, Replay, ThreadTypes
<1>2. /\ NoRegistration \in [at: {"idle", "asked", "acked", "installed", "replay"},
                             inv: JobRecord, now: JobRecord]
      /\ rec \in JobRecord /\ reg.inv \in JobRecord
  BY <1>0, NoMessageType DEF NoRegistration, ThreadTypes, TransportTypes
<1>3. CASE Close
  BY <1>0, <1>1, <1>3, DeliveryAssumption DEF Close, TransportTypes, QueueOK
<1>4. CASE ServerRestart
  <2>1. srv' \in Servers
    BY <1>4, DeliveryAssumption
       DEF ServerRestart, Servers, Lives, RunnerActiveStates, NoProgress
  <2>2. chan' \in [Sessions -> Seq(Message)] /\ posts' \subseteq Message
    BY <1>4 DEF ServerRestart
  <2>3. open' \in 0..MaxSessions
    BY <1>0, <1>4, DeliveryAssumption DEF ServerRestart, TransportTypes
  <2>. QED
    BY <1>0, <1>1, <1>2, <1>4, <2>1, <2>2, <2>3 DEF ServerRestart, TransportTypes, QueueOK
<1>5. ASSUME NEW k \in Kinds, RegisterBegin(k)
      PROVE  QueueOK(queue)' /\ TransportTypes' /\ srv' \in Servers
  <2>1. k \in {"stream", "http", "none"}
    BY DeliveryAssumption
  <2>2. sess' \in Sessions
    BY <1>0, <1>5, DeliveryAssumption DEF RegisterBegin, TransportTypes, Sessions
  <2>3. reg' \in [at: {"idle", "asked", "acked", "installed", "replay"},
                  inv: JobRecord, now: JobRecord]
    BY <1>2, <1>5 DEF RegisterBegin
  <2>. QED
    BY <1>0, <1>5, <2>1, <2>2, <2>3 DEF RegisterBegin, TransportTypes, QueueOK
<1>6. reg.at \in {"asked", "acked"} => sess - 1 \in Sessions
  BY DEF SessionInv, Current
<1>7. CASE RegisterAtServer
  <2>1. srv' \in Servers
    BY <1>0, <1>2, <1>7, AfterInventoryType DEF RegisterAtServer
  <2>2. sess' \in Sessions
    BY <1>0, <1>6, <1>7 DEF RegisterAtServer, TransportTypes
  <2>3. reg' \in [at: {"idle", "asked", "acked", "installed", "replay"},
                  inv: JobRecord, now: JobRecord]
    BY <1>0, <1>2, <1>7 DEF RegisterAtServer, TransportTypes
  <2>. QED
    BY <1>0, <1>1, <1>7, <2>1, <2>2, <2>3 DEF RegisterAtServer, TransportTypes, QueueOK
<1>8. CASE RegisterFails
  BY <1>0, <1>1, <1>2, <1>6, <1>8 DEF RegisterFails, TransportTypes, QueueOK
<1>9. CASE InstallSink
  <2>1. sess \in 0..MaxSessions
    BY <1>0 DEF TransportTypes, Sessions
  <2>. QED
    BY <1>0, <1>1, <1>9, <2>1 DEF InstallSink, TransportTypes, QueueOK
<1>10. CASE ReplayRead
  BY <1>0, <1>1, <1>2, <1>10 DEF ReplayRead, TransportTypes, QueueOK
<1>11. CASE Replay
  <2>1. QueueOK(queue')
    BY <1>0, <1>11, ReplayQueue DEF ReplayResult
  <2>. QED
    BY <1>0, <1>1, <1>2, <1>11, <2>1 DEF Replay, TransportTypes
<1>. QED
  BY <1>1, <1>3, <1>4, <1>5, <1>7, <1>8, <1>9, <1>10, <1>11 DEF SessionStep

-------------------------------------------------------------------------------
(* No step adds an item but what it records *)

LEMMA EnqueueItems ==
    ASSUME NEW q, QueueOK(q), NEW m \in Message, NEW e, EnqueueResult(q, m, e)
    PROVE  /\ ItemsOf(e.required) \subseteq ItemsOf(q.required) \cup {Item(m)}
           /\ Item(e.output) \in {Item(q.output), Item(m), Item(NoMessage)}
<1>1. /\ q.required \in Seq(Message) /\ e.required \in Seq(Message)
      /\ Len(q.required) \in Nat /\ DOMAIN q.required = 1..Len(q.required)
      /\ DOMAIN e.required = 1..Len(e.required)
  BY DEF EnqueueResult, QueueOK, Queues
<1>2. ItemsOf(<<>>) = {}
  BY DEF ItemsOf
<1>3. Item(e.output) \in {Item(q.output), Item(m), Item(NoMessage)}
  BY DEF EnqueueResult, EnqueueKeeps, EnqueueOutput, EnqueueGivesUp, EnqueueReplaces,
         EnqueueAppends
<1>4. ASSUME NEW k \in DOMAIN e.required
      PROVE  e.required[k] = m \/ (k \in DOMAIN q.required /\ e.required[k] = q.required[k])
  <2>1. CASE e.required = q.required
    BY <1>4, <2>1
  <2>2. CASE e.required = <<>>
    BY <1>4, <2>2
  <2>3. CASE EnqueueReplaces(q, m, e)
    <3>1. Len(e.required) = Len(q.required) /\ e.required[Len(q.required)] = m
          /\ \A l \in 1..Len(q.required) :
                l # Len(q.required) => e.required[l] = q.required[l]
      BY <2>3 DEF EnqueueReplaces
    <3>2. k \in 1..Len(q.required)
      BY <1>1, <1>4, <3>1
    <3>. QED
      BY <1>1, <3>1, <3>2
  <2>4. CASE e.required = Append(q.required, m)
    <3>1. k \in 1..(Len(q.required) + 1)
      BY <1>1, <1>4, <2>4
    <3>2. /\ \A l \in 1..Len(q.required) : Append(q.required, m)[l] = q.required[l]
          /\ Append(q.required, m)[Len(q.required) + 1] = m
      BY <1>1
    <3>3. k \in 1..Len(q.required) \/ k = Len(q.required) + 1
      BY <1>1, <3>1
    <3>. QED
      BY <1>1, <2>4, <3>2, <3>3
  <2>. QED
    BY <2>1, <2>2, <2>3, <2>4
       DEF EnqueueResult, EnqueueKeeps, EnqueueOutput, EnqueueGivesUp, EnqueueAppends
<1>5. ItemsOf(e.required) \subseteq ItemsOf(q.required) \cup {Item(m)}
  BY <1>4 DEF ItemsOf
<1>. QED
  BY <1>3, <1>5

LEMMA ShrinkItems ==
    ASSUME NEW q, QueueOK(q), NEW e, NEW d, Shrinks(q, e, d)
    PROVE  /\ ItemsOf(e.required) \subseteq ItemsOf(q.required)
           /\ Item(e.output) \in {Item(q.output), Item(NoMessage)}
<1>1. /\ q.required \in Seq(Message) /\ e.required \in Seq(Message)
      /\ Len(q.required) \in Nat /\ DOMAIN q.required = 1..Len(q.required)
      /\ DOMAIN e.required = 1..Len(e.required)
  BY DEF Shrinks, QueueOK, Queues
<1>2. \A k \in DOMAIN e.required : k + d \in DOMAIN q.required
                                   /\ e.required[k] = q.required[k + d]
  BY <1>1 DEF Shrinks, Dropped
<1>3. ItemsOf(e.required) \subseteq ItemsOf(q.required)
  BY <1>2 DEF ItemsOf
<1>. QED
  BY <1>3 DEF Shrinks

LEMMA ReplayItems ==
    ASSUME NEW q, QueueOK(q), NEW inv, NEW now, NEW e, ReplayResult(q, inv, now, e)
    PROVE  /\ ItemsOf(e.required) \subseteq ItemsOf(q.required) \cup {Item(now)}
           /\ Item(e.output) \in {Item(q.output), Item(NoMessage)}
<1>1. PICK d \in Nat, kept \in Queues :
         /\ Shrinks(q, kept, d)
         /\ \/ ReplayStays(kept, e) \/ ReplayGoesOn(kept, inv, e)
            \/ ReplaySends(kept, inv, now, e) \/ ReplayGivesUp(e)
  BY DEF ReplayResult
<1>2. /\ ItemsOf(kept.required) \subseteq ItemsOf(q.required)
      /\ Item(kept.output) \in {Item(q.output), Item(NoMessage)}
  BY <1>1, ShrinkItems
<1>3. ItemsOf(<<>>) = {} /\ ItemsOf(<<Snapshot(now)>>) = {Item(now)}
  <2>1. ItemsOf(<<Snapshot(now)>>) = {Item(Snapshot(now))}
    BY DEF ItemsOf
  <2>2. Item(Snapshot(now)) = Item(now)
    BY DEF Item, Snapshot
  <2>. QED
    BY <2>1, <2>2 DEF ItemsOf
<1>4. CASE ReplayStays(kept, e)
  BY <1>2, <1>4 DEF ReplayStays
<1>5. CASE ReplayGoesOn(kept, inv, e)
  BY <1>2, <1>5 DEF ReplayGoesOn
<1>6. CASE ReplaySends(kept, inv, now, e)
  BY <1>3, <1>6 DEF ReplaySends
<1>7. CASE ReplayGivesUp(e)
  BY <1>3, <1>7 DEF ReplayGivesUp
<1>. QED
  BY <1>1, <1>4, <1>5, <1>6, <1>7

LEMMA OwedNext ==
    ASSUME TypeOK, SaidInv, Next
    PROVE  \A u \in {"carrier", "stop"} : Item(owed'[u]) \in Items \cup {Item(rec')}
<1> SUFFICES ASSUME NEW u \in {"carrier", "stop"}
             PROVE  Item(owed'[u]) \in Items \cup {Item(rec')}
  OBVIOUS
<1>0. Item(owed[u]) \in Items /\ Item(rec) \in Items /\ Item(NoMessage) \in Items
  BY HasItems, NoMessageType
<1>1. ASSUME NEW t \in {"carrier", "stop"}, RecordStep(t)
      PROVE  Item(owed'[u]) \in Items \cup {Item(rec')}
  BY <1>0, <1>1 DEF RecordStep
<1>2. CASE Announce \/ Work
  BY <1>1, <1>2, AnnounceFacts, WorkFacts
<1>3. ASSUME NEW t \in {"carrier", "stop"}, Hand(t)
      PROVE  Item(owed'[u]) \in Items \cup {Item(rec')}
  <2>1. owed'[u] \in {owed[u], NoMessage}
    BY <1>3, RunnerTypes DEF Hand, Owed
  <2>. QED
    BY <1>0, <2>1
<1>4. CASE StopLook
  <2>1. CASE UNCHANGED <<rec, owed>>
    BY <1>0, <2>1
  <2>2. CASE Record("stop", "StopRequested", NoProgress, TRUE)
    BY <1>1, <2>2, StopRecordFacts
  <2>3. CASE owed' = [owed EXCEPT !["stop"] =
                        [life |-> rec.life, seq |-> rec.seq, prog |-> rec.prog,
                         semantic |-> TRUE]]
    <3>1. owed' = [owed EXCEPT !["stop"] = Snapshot(rec)]
      BY <2>3 DEF Snapshot
    <3>2. owed'[u] \in {owed[u], Snapshot(rec)}
      BY <3>1, RunnerTypes DEF Owed
    <3>3. Item(Snapshot(rec)) = Item(rec)
      BY DEF Snapshot, Item
    <3>. QED
      BY <1>0, <3>2, <3>3
  <2>. QED
    BY <1>4, <2>1, <2>2, <2>3 DEF StopLook
<1>5. CASE UNCHANGED owed
  BY <1>0, <1>5
<1>6. RunnerStep => \/ Announce \/ Work \/ StopLook \/ UNCHANGED owed
                    \/ \E t \in {"carrier", "stop"} : Hand(t)
  BY DEF RunnerStep, StartInstall, StartInsert, StopRequest, StopInstall, Prune
<1>7. WorkerStep => UNCHANGED owed
  BY DEF WorkerStep, Pick, TrySend, Post, PostAnswered, PostTimesOut, Settle
<1>8. SessionStep => UNCHANGED owed
  BY DEF SessionStep, Close, ServerRestart, RegisterBegin, RegisterAtServer,
         RegisterFails, InstallSink, ReplayRead, Replay
<1>9. NetworkStep => UNCHANGED owed
  BY DEF NetworkStep, Receive, LoseChannel, StrayPost
<1>. QED
  BY <1>2, <1>3, <1>4, <1>5, <1>6, <1>7, <1>8, <1>9 DEF Next

LEMMA QueueNext ==
    ASSUME TypeOK, Next
    PROVE  /\ Item(queue'.output) \in Items /\ ItemsOf(queue'.required) \subseteq Items
           /\ queue.skipped => queue'.skipped
<1>0. /\ Item(queue.output) \in Items /\ ItemsOf(queue.required) \subseteq Items
      /\ Item(NoMessage) \in Items /\ Item(reg.now) \in Items /\ QueueOK(queue)
      /\ ItemsOf(<<>>) = {}
  BY HasItems, NoMessageType, RunnerTypes DEF ItemsOf
<1>1. ASSUME NEW t \in {"carrier", "stop"}, Hand(t)
      PROVE  /\ Item(queue'.output) \in Items /\ ItemsOf(queue'.required) \subseteq Items
             /\ queue.skipped => queue'.skipped
  <2>1. owed[t] \in Message /\ Item(owed[t]) \in Items
    BY RunnerTypes, HasItems
  <2>2. EnqueueResult(queue, owed[t], queue')
    BY <1>0, <1>1, <2>1, EnqueueFacts DEF Hand
  <2>. QED
    BY <1>0, <2>1, <2>2, EnqueueItems DEF EnqueueResult
<1>2. CASE queue' = Cleared(queue)
  BY <1>0, <1>2, RunnerTypes, ClearedFacts
<1>3. CASE Settle
  <2>1. worker.m.seq \in Nat
    BY RunnerTypes, NumbersType
  <2>2. queue' = queue \/ \E d \in 0..1 : Shrinks(queue, queue', d)
    BY <1>0, <1>3, <2>1, AcknowledgeFacts DEF Settle
  <2>. QED
    BY <1>0, <2>2, ShrinkItems DEF Shrinks
<1>4. CASE Replay
  <2>1. CASE queue' = queue
    BY <1>0, <2>1
  <2>2. CASE ReplayResult(queue, reg.inv, reg.now, queue')
    <3>1. /\ ItemsOf(queue'.required) \subseteq ItemsOf(queue.required) \cup {Item(reg.now)}
          /\ Item(queue'.output) \in {Item(queue.output), Item(NoMessage)}
      BY <1>0, <2>2, ReplayItems
    <3>2. queue.skipped => queue'.skipped
      BY <2>2 DEF ReplayResult
    <3>. QED
      BY <1>0, <3>1, <3>2
  <2>. QED
    BY <1>4, <2>1, <2>2, ReplayQueue
<1>5. CASE UNCHANGED queue
  BY <1>0, <1>5
<1>6. RunnerStep => \/ UNCHANGED queue \/ queue' = Cleared(queue)
                    \/ \E t \in {"carrier", "stop"} : Hand(t)
  BY DEF RunnerStep, StartInstall, StartInsert, StopRequest, StopInstall, Prune, Announce,
         Work, StopLook
<1>7. WorkerStep => UNCHANGED queue \/ queue' = Cleared(queue) \/ Settle
  BY DEF WorkerStep, Pick, TrySend, Post, PostAnswered, PostTimesOut
<1>8. SessionStep => UNCHANGED queue \/ Replay
  BY DEF SessionStep, Close, ServerRestart, RegisterBegin, RegisterAtServer,
         RegisterFails, InstallSink, ReplayRead
<1>9. NetworkStep => UNCHANGED queue
  BY DEF NetworkStep, Receive, LoseChannel, StrayPost
<1>. QED
  BY <1>1, <1>2, <1>3, <1>4, <1>5, <1>6, <1>7, <1>8, <1>9 DEF Next

LEMMA HeldNext ==
    ASSUME TypeOK, Next
    PROVE  /\ Item(worker'.m) \in Items
           /\ Item(reg'.inv) \in Items /\ Item(reg'.now) \in Items
           /\ \A m \in posts' : Item(m) \in Items
<1>0. /\ Item(worker.m) \in Items /\ Item(rec) \in Items /\ Item(queue.output) \in Items
      /\ Item(reg.inv) \in Items /\ Item(reg.now) \in Items
      /\ Item(NoMessage) \in Items /\ Item(NoRecord) \in Items
      /\ worker \in Workers /\ Resting.m = NoMessage
      /\ NoRegistration.inv = NoRecord /\ NoRegistration.now = NoRecord
      /\ \A m \in posts : Item(m) \in Items
  <2>1. /\ Resting.m = NoMessage /\ NoRegistration.inv = NoRecord
        /\ NoRegistration.now = NoRecord
    BY DEF Resting, NoRegistration
  <2>. QED
    BY <2>1, HasItems, NoMessageType, RunnerTypes
<1>1. Item(NextOf(queue)) \in Items
  <2>1. CASE queue.required # <<>> /\ ~queue.suspended
    <3>1. 1 \in DOMAIN queue.required /\ NextOf(queue) = queue.required[1]
      BY <2>1, RunnerTypes DEF NextOf
    <3>. QED
      BY <3>1, HasItems, ItemOfSeq
  <2>. QED
    BY <1>0, <2>1 DEF NextOf
<1>2. RunnerStep => UNCHANGED <<worker, reg, posts>>
  BY DEF RunnerStep, StartInstall, StartInsert, StopRequest, StopInstall, Prune, Announce,
         Work, StopLook, Hand
<1>3. NetworkStep => UNCHANGED <<worker, reg>> /\ posts' \subseteq posts
  BY DEF NetworkStep, Receive, LoseChannel, StrayPost
<1>4. WorkerStep => /\ UNCHANGED reg /\ posts' \subseteq posts \cup {worker.m}
                    /\ worker'.m \in {worker.m, NoMessage, NextOf(queue)}
  BY <1>0 DEF WorkerStep, Pick, TrySend, Post, PostAnswered, PostTimesOut, Settle, Workers
<1>5. SessionStep => /\ UNCHANGED worker /\ posts' \subseteq posts
                     /\ reg'.inv \in {reg.inv, rec, NoRecord}
                     /\ reg'.now \in {reg.now, rec, NoRecord}
  <2>1. reg \in [at: {"idle", "asked", "acked", "installed", "replay"},
                 inv: JobRecord, now: JobRecord]
    BY DEF TypeOK
  <2>2. SessionStep => UNCHANGED worker /\ posts' \subseteq posts
    BY DEF SessionStep, Close, ServerRestart, RegisterBegin, RegisterAtServer,
         RegisterFails, InstallSink, ReplayRead, Replay
  <2>3. SessionStep =>
          \/ reg' = reg \/ reg' = NoRegistration
          \/ reg' = [NoRegistration EXCEPT !.at = "asked", !.inv = rec]
          \/ \E a : reg' = [reg EXCEPT !.at = a]
          \/ reg' = [reg EXCEPT !.at = "replay", !.now = rec]
    BY DEF SessionStep, Close, ServerRestart, RegisterBegin, RegisterAtServer,
         RegisterFails, InstallSink, ReplayRead, Replay
  <2>. QED
    BY <1>0, <2>1, <2>2, <2>3 DEF NoRegistration
<1>. QED
  BY <1>0, <1>1, <1>2, <1>3, <1>4, <1>5 DEF Next

LEMMA ChanNext ==
    ASSUME TypeOK, Next
    PROVE  \A s \in Sessions : ItemsOf(chan'[s]) \subseteq Items
<1> SUFFICES ASSUME NEW s \in Sessions PROVE ItemsOf(chan'[s]) \subseteq Items
  OBVIOUS
<1>0. /\ ItemsOf(chan[s]) \subseteq Items /\ Item(worker.m) \in Items
      /\ chan[s] \in Seq(Message) /\ worker.m \in Message /\ ItemsOf(<<>>) = {}
      /\ chan \in [Sessions -> Seq(Message)] /\ sink \in Sessions
  BY HasItems, RunnerTypes DEF ItemsOf, TypeOK
<1>1. CASE chan'[s] = chan[s]
  BY <1>0, <1>1
<1>2. CASE chan'[s] = <<>>
  BY <1>0, <1>2
<1>3. CASE chan'[s] = Append(chan[s], worker.m)
  <2>1. \A k \in DOMAIN chan'[s] :
           chan'[s][k] = worker.m \/ (k \in DOMAIN chan[s] /\ chan'[s][k] = chan[s][k])
    BY <1>0, <1>3
  <2>2. ItemsOf(chan'[s]) \subseteq ItemsOf(chan[s]) \cup {Item(worker.m)}
    BY <2>1 DEF ItemsOf
  <2>. QED
    BY <1>0, <2>2
<1>4. CASE chan[s] # <<>> /\ chan'[s] = Tail(chan[s])
  <2>1. \A k \in DOMAIN chan'[s] : k + 1 \in DOMAIN chan[s] /\ chan'[s][k] = chan[s][k + 1]
    BY <1>0, <1>4
  <2>2. ItemsOf(chan'[s]) \subseteq ItemsOf(chan[s])
    BY <2>1 DEF ItemsOf
  <2>. QED
    BY <1>0, <2>2
<1>5. RunnerStep => UNCHANGED chan
  BY DEF RunnerStep, StartInstall, StartInsert, StopRequest, StopInstall, Prune, Announce,
         Work, StopLook, Hand
<1>6. SessionStep => UNCHANGED chan \/ chan'[s] = <<>>
  BY DEF SessionStep, Close, ServerRestart, RegisterBegin, RegisterAtServer,
         RegisterFails, InstallSink, ReplayRead, Replay
<1>7. WorkerStep => chan'[s] = chan[s] \/ chan'[s] = Append(chan[s], worker.m)
  BY <1>0 DEF WorkerStep, Pick, TrySend, Post, PostAnswered, PostTimesOut, Settle
<1>8. NetworkStep => \/ chan'[s] = chan[s] \/ chan'[s] = <<>>
                     \/ chan[s] # <<>> /\ chan'[s] = Tail(chan[s])
  BY <1>0 DEF NetworkStep, Receive, LoseChannel, StrayPost
<1>. QED
  BY <1>1, <1>2, <1>3, <1>4, <1>5, <1>6, <1>7, <1>8 DEF Next

LEMMA ItemsStep ==
    ASSUME TypeOK, SaidInv, Next
    PROVE  /\ Items' \subseteq Items \cup {Item(rec')}
           /\ rec' = rec \/ rec' = NoRecord => Items' \subseteq Items
<1>1. Items' \subseteq Items \cup {Item(rec')}
  <2>1. /\ Item(owed'["carrier"]) \in Items \cup {Item(rec')}
        /\ Item(owed'["stop"]) \in Items \cup {Item(rec')}
    BY OwedNext
  <2>. QED
    BY <2>1, QueueNext, HeldNext, ChanNext, ItemsNext
<1>2. Item(rec) \in Items /\ Item(NoRecord) \in Items
  BY HasItems, NoMessageType
<1>. QED
  BY <1>1, <1>2

-------------------------------------------------------------------------------
(* Updates that reach the Server *)

(* Wherever an update comes from, it raises the progress by one step at    *)
(* most.                                                                   *)
LEMMA UpdateBound ==
    ASSUME TypeOK, SessionInv, WayInv, Waiting, ~queue.skipped
    PROVE  /\ \A s \in Sessions : chan[s] # <<>> =>
                 DoneSteps(Head(chan[s]).prog) <= DoneSteps(srv.prog) + 1
           /\ \A m \in posts : DoneSteps(m.prog) <= DoneSteps(srv.prog) + 1
           /\ worker.at = "posting" =>
                DoneSteps(worker.m.prog) <= DoneSteps(srv.prog) + 1
<1>0. ServerWay /\ DoneSteps(srv.prog) \in Nat
  BY WayHalves, RunnerTypes, DoneType DEF Servers
<1>1. ASSUME NEW s \in Sessions, chan[s] # <<>>
      PROVE  DoneSteps(Head(chan[s]).prog) <= DoneSteps(srv.prog) + 1
  <2>1. chan[s] \in Seq(Message)
    BY RunnerTypes
  <2>2. /\ 1 \in DOMAIN chan[s] /\ Head(chan[s]) = chan[s][1]
        /\ \A j \in DOMAIN chan[s] : ~(j < 1)
    BY <1>1, <2>1
  <2>3. DoneSteps(chan[s][1].prog) \in Nat
    BY <2>1, <2>2, SeqOfMessages
  <2>4. Chain(DoneSteps(srv.prog), <<>>, chan[s])
    BY <1>0 DEF ServerWay
  <2>5. ~Told(<<>>, DoneSteps(chan[s][1].prog) - 1)
    BY DEF Told
  <2>6. DoneSteps(chan[s][1].prog) - 1 <= DoneSteps(srv.prog)
    BY <2>2, <2>4, <2>5 DEF Chain
  <2>. QED
    BY <1>0, <2>2, <2>3, <2>6
<1>2. ASSUME worker.at = "posting"
      PROVE  DoneSteps(worker.m.prog) <= DoneSteps(srv.prog) + 1
  <2>1. Wire = <<>> /\ Linked
    BY <1>2, PostWire DEF SessionInv
  <2>2. Reached(DoneSteps(srv.prog), <<>>, <<>>, DoneSteps(worker.m.prog) - 1)
    BY <1>0, <1>2, <2>1 DEF ServerWay, Delivers, DeliversTo, WorkerTo
  <2>3. DoneSteps(worker.m.prog) - 1 <= DoneSteps(srv.prog)
    BY <2>2 DEF Reached, Told
  <2>4. DoneSteps(worker.m.prog) \in Nat
    BY RunnerTypes, NumbersType
  <2>. QED
    BY <1>0, <2>3, <2>4
<1>3. \A m \in posts : DoneSteps(m.prog) <= DoneSteps(srv.prog) + 1
  BY <1>0 DEF ServerWay
<1>. QED
  BY <1>1, <1>2, <1>3

LEMMA UpdateStep ==
    ASSUME TypeOK, SaidInv, RunnerStays, NEW m \in Message, Item(m) \in Items,
           srv' = AfterUpdate(srv, m),
           Waiting => DoneSteps(m.prog) <= DoneSteps(srv.prog) + 1 \/ queue.skipped
    PROVE  SaidInv' /\ srv' \in Servers /\ Advanced(m)
<1>1. /\ SaidInv' /\ srv' \in Servers
      /\ \/ srv' = srv
         \/ Waiting /\ IsTerminal(srv'.life) /\ srv'.known
         \/ Waiting /\ m.seq > srv.seq /\ Takes(Item(m))
      /\ Waiting' => m.seq <= srv'.seq
  BY UpdateSaid
<1>. QED
  BY <1>1, UpdateAdvances

(* What a step of the Server's record must keep. *)
ServerStep ==
    /\ SaidInv' /\ WayInv'
    /\ Waiting' => Waiting /\ srv.seq <= srv'.seq

LEMMA ReceiveStep ==
    ASSUME TypeOK, SaidInv, SessionInv, WayInv, Next, NEW s \in Sessions, Receive(s)
    PROVE  ServerStep
<1> DEFINE m == Head(chan[s])
<1>0. /\ UNCHANGED <<rec, carrier, owed, queue, worker, open, kind, sess, posts, reg>>
      /\ srv' = AfterUpdate(srv, m) /\ chan[s] # <<>>
      /\ chan' = [chan EXCEPT ![s] = Tail(@)]
  BY DEF Receive
<1>1. chan[s] \in Seq(Message) /\ chan \in [Sessions -> Seq(Message)]
  BY RunnerTypes
<1>2. m \in Message /\ Item(m) \in Items
  <2>1. m = chan[s][1] /\ 1 \in DOMAIN chan[s]
    BY <1>0, <1>1
  <2>. QED
    BY <1>1, <2>1, SeqOfMessages, HasItems, ItemOfSeq
<1>3. RunnerStays
  BY <1>0, ItemsStep DEF RunnerStays
<1>4. Waiting => DoneSteps(m.prog) <= DoneSteps(srv.prog) + 1 \/ queue.skipped
  BY <1>0, UpdateBound
<1>5. \A t \in Sessions : \/ chan'[t] = chan[t]
                          \/ /\ chan[t] # <<>> /\ chan'[t] = Tail(chan[t])
                             /\ Head(chan[t]) = m
  BY <1>0, <1>1
<1> HIDE DEF m
<1>6. SaidInv' /\ srv' \in Servers /\ Advanced(m)
  BY <1>0, <1>2, <1>3, <1>4, UpdateStep
<1>7. WayInv'
  BY <1>0, <1>2, <1>5, <1>6, UpdateWay
<1>. QED
  BY <1>6, <1>7 DEF ServerStep, Advanced

LEMMA StrayPostStep ==
    ASSUME TypeOK, SaidInv, SessionInv, WayInv, Next, NEW m \in posts, StrayPost(m)
    PROVE  ServerStep
<1>0. /\ UNCHANGED <<rec, carrier, owed, queue, worker, open, kind, sess, chan, reg>>
      /\ srv' = AfterUpdate(srv, m) /\ posts' \subseteq posts
  BY DEF StrayPost
<1>1. m \in Message /\ Item(m) \in Items
  BY HasItems DEF TypeOK
<1>2. RunnerStays
  BY <1>0, ItemsStep DEF RunnerStays
<1>3. Waiting => DoneSteps(m.prog) <= DoneSteps(srv.prog) + 1 \/ queue.skipped
  BY UpdateBound
<1>4. SaidInv' /\ srv' \in Servers /\ Advanced(m)
  BY <1>0, <1>1, <1>2, <1>3, UpdateStep
<1>5. WayInv'
  BY <1>0, <1>1, <1>4, UpdateWay
<1>. QED
  BY <1>4, <1>5 DEF ServerStep, Advanced

LEMMA PostAnsweredStep ==
    ASSUME TypeOK, SaidInv, SessionInv, WayInv, Next, PostAnswered
    PROVE  ServerStep
<1> DEFINE m == worker.m
<1>0. /\ UNCHANGED <<rec, carrier, owed, queue, posts, open, kind, sess, chan, reg>>
      /\ srv' = AfterUpdate(srv, m) /\ worker.at = "posting"
      /\ worker' = IF srv.known THEN [worker EXCEPT !.at = "sent"] ELSE Resting
  BY DEF PostAnswered
<1>1. m \in Message /\ Item(m) \in Items
  BY HasItems, RunnerTypes
<1>2. RunnerStays
  BY <1>0, ItemsStep DEF RunnerStays
<1>3. Waiting => DoneSteps(m.prog) <= DoneSteps(srv.prog) + 1 \/ queue.skipped
  BY <1>0, UpdateBound
<1>4. \/ worker' = Resting
      \/ srv.known /\ worker' \in Workers /\ worker'.at = "sent" /\ worker'.m = m
  <2>1. worker \in Workers
    BY RunnerTypes
  <2>. QED
    BY <1>0, <2>1 DEF Workers
<1> HIDE DEF m
<1>5. SaidInv' /\ srv' \in Servers /\ Advanced(m)
  BY <1>0, <1>1, <1>2, <1>3, UpdateStep
<1>6. WayInv'
  BY <1>0, <1>1, <1>4, <1>5, UpdateWay
<1>. QED
  BY <1>5, <1>6 DEF ServerStep, Advanced

LEMMA RestartStep ==
    ASSUME TypeOK, SaidInv, Next, ServerRestart
    PROVE  ServerStep
<1>0. /\ UNCHANGED <<rec, carrier, owed, queue>> /\ ~srv'.known
      /\ srv'.life = "RunnerQueued" /\ srv'.seq = 0 /\ srv'.prog = NoProgress
      /\ srv'.fault = "none"
  BY DEF ServerRestart
<1>1. RunnerStays
  BY <1>0, ItemsStep DEF RunnerStays
<1>2. ~Waiting' /\ ~IsTerminal(srv'.life)
  BY <1>0 DEF Waiting, IsTerminal, TerminalStates
<1>3. SaidInv'
  BY <1>0, <1>1, <1>2, DeafSaid
<1>. QED
  BY <1>2, <1>3, RestartWay DEF ServerStep

(* The Server takes the inventory of a registration. *)
LEMMA InventorySaid ==
    ASSUME TypeOK, SaidInv, RunnerStays, ValidInventory(reg.inv),
           srv' = AfterInventory(srv, reg.inv)
    PROVE  /\ SaidInv'
           /\ Waiting' => reg.inv.life # "Absent" /\ reg.inv.seq <= srv'.seq
<1> DEFINE inv == reg.inv  x == Item(reg.inv)
<1>0. /\ inv \in JobRecord /\ x \in Items /\ srv \in Servers
      /\ x[1] = inv.life /\ x[2] = inv.seq /\ x[3] = inv.prog /\ inv.seq \in Nat
      /\ srv.seq \in Nat
  BY HasItems, RunnerTypes, ItemOfType, NumbersType DEF Servers
<1>1. srv.fault = "invalid" => queue'.skipped
  BY DEF SaidInv, ServerInv, RunnerStays
<1>2. ASSUME srv' = srv PROVE SaidInv'
  BY <1>2, QuietSaid DEF RunnerStays
<1>3. CASE inv.life = "Absent"
  <2>1. CASE srv.known /\ ~IsTerminal(srv.life)
    <3>1. srv' = [srv EXCEPT !.life = "Lost"]
      BY <1>3, <2>1 DEF AfterInventory
    <3>2. /\ srv'.life = "Lost" /\ srv'.seq = srv.seq /\ srv'.prog = srv.prog
          /\ srv'.fault = srv.fault /\ IsTerminal("Lost")
      BY <1>0, <3>1 DEF Servers, IsTerminal, TerminalStates
    <3>3. carrier \in {"held", "insert"} => srv'.seq = 0 /\ srv'.prog = NoProgress
      BY <3>2 DEF SaidInv, RecordInv
    <3>4. ~Waiting'
      BY <3>2 DEF Waiting
    <3>5. SaidInv'
      BY <1>1, <3>2, <3>3, <3>4, DeafSaid
    <3>. QED
      BY <3>4, <3>5
  <2>2. CASE ~(srv.known /\ ~IsTerminal(srv.life))
    <3>1. srv' = srv /\ ~Waiting'
      BY <1>3, <2>2 DEF AfterInventory, Waiting
    <3>. QED
      BY <1>2, <3>1
  <2>. QED
    BY <2>1, <2>2
<1>4. CASE inv.life # "Absent" /\ ~srv.known
  <2>1. srv' = [known |-> TRUE, life |-> inv.life, seq |-> inv.seq,
                prog |-> inv.prog, fault |-> "none"]
    BY <1>4 DEF AfterInventory
  <2>2. /\ srv'.known /\ srv'.life = x[1] /\ srv'.seq = x[2] /\ srv'.prog = x[3]
        /\ srv'.fault = "none"
    BY <1>0, <2>1
  <2>3. x[2] > 0
    BY <1>0, <1>4 DEF ValidInventory
  <2> HIDE DEF x
  <2>4. SaidInv'
    BY <1>0, <2>2, <2>3, TakenSaid
  <2>. QED
    BY <1>0, <1>4, <2>2, <2>4
<1>5. CASE inv.life # "Absent" /\ srv.known /\ inv.seq > srv.seq /\ ~IsTerminal(srv.life)
  <2>1. srv' = [srv EXCEPT !.life = inv.life, !.seq = inv.seq, !.prog = inv.prog]
    BY <1>5 DEF AfterInventory
  <2>2. /\ srv'.known /\ srv'.life = x[1] /\ srv'.seq = x[2] /\ srv'.prog = x[3]
        /\ srv'.fault = srv.fault
    BY <1>0, <1>5, <2>1 DEF Servers
  <2>3. x[2] > 0
    BY <1>0, <1>5
  <2> HIDE DEF x
  <2>4. SaidInv'
    BY <1>0, <1>1, <2>2, <2>3, TakenSaid
  <2>. QED
    BY <1>0, <1>5, <2>2, <2>4
<1>6. CASE inv.life # "Absent" /\ srv.known /\ ~(inv.seq > srv.seq /\ ~IsTerminal(srv.life))
  <2>1. srv' = srv
    BY <1>6 DEF AfterInventory
  <2>2. Waiting' => inv.seq <= srv'.seq
    BY <1>0, <1>6, <2>1 DEF Waiting
  <2>. QED
    BY <1>2, <1>6, <2>1, <2>2
<1>. QED
  BY <1>3, <1>4, <1>5, <1>6

LEMMA RegisterAtServerSaid ==
    ASSUME TypeOK, SaidInv, Next, RegisterAtServer
    PROVE  /\ SaidInv'
           /\ Waiting' /\ reg'.at # "idle" =>
                reg'.inv.life # "Absent" /\ reg'.inv.seq <= srv'.seq
<1>1. UNCHANGED <<rec, carrier, owed, queue>>
  BY DEF RegisterAtServer
<1>2. RunnerStays
  BY <1>1, ItemsStep DEF RunnerStays
<1>3. CASE ValidInventory(reg.inv)
  <2>1. srv' = AfterInventory(srv, reg.inv) /\ reg' = [reg EXCEPT !.at = "acked"]
    BY <1>3 DEF RegisterAtServer
  <2>2. reg'.inv = reg.inv
    BY <2>1 DEF TypeOK
  <2>. QED
    BY <1>2, <1>3, <2>1, <2>2, InventorySaid
<1>4. CASE ~ValidInventory(reg.inv)
  <2>1. srv' = srv /\ reg'.at = "idle"
    BY <1>4 DEF RegisterAtServer, NoRegistration
  <2>. QED
    BY <1>2, <2>1, QuietSaid DEF RunnerStays
<1>. QED
  BY <1>3, <1>4

-------------------------------------------------------------------------------
(* Sessions *)

(* The parts of the session invariant. *)
OpenOK ==
    /\ Current \in Sessions
    /\ open \in {0, Current}
    /\ reg.at \in {"asked", "acked"} => open = 0
    /\ reg.at \in {"installed", "replay"} => open = sess
    /\ sink <= Current /\ stopper.via <= Current

KindOK ==
    \A s \in Sessions :
       /\ s <= sess <=> kind[s] # "none"
       /\ \A t \in Sessions : s <= t /\ t <= sess /\ kind[s] = "http" => kind[t] = "http"
       /\ kind[s] # "stream" \/ s > Current => chan[s] = <<>>

PostOK == worker.at = "posting" => kind[Current] = "http"

InventoryOK ==
    Waiting /\ reg.at \in {"acked", "installed", "replay"} =>
        reg.inv.life # "Absent" /\ reg.inv.seq <= srv.seq

LEMMA SessionParts == SessionInv <=> OpenOK /\ KindOK /\ PostOK /\ InventoryOK
BY DEF SessionInv, OpenOK, KindOK, PostOK, InventoryOK

LEMMA InitSession == Init => SessionInv
<1> SUFFICES ASSUME Init PROVE SessionInv
  OBVIOUS
<1>1. /\ sess = 1 /\ open = 1 /\ sink = 1 /\ stopper.via = 1 /\ reg.at = "idle"
      /\ worker.at = "idle" /\ chan = [s \in Sessions |-> <<>>]
      /\ 1 \in Sessions /\ Current = 1
  BY DeliveryAssumption
     DEF Init, NoStopper, NoRegistration, Resting, Sessions, Current
<1>2. PICK k \in Kinds : kind = [s \in Sessions |-> IF s = 1 THEN k ELSE "none"]
  BY DEF Init
<1>3. k \in {"stream", "http"} /\ \A s \in Sessions : s \in Nat /\ 1 <= s
  BY DeliveryAssumption DEF Sessions
<1>4. OpenOK /\ PostOK /\ InventoryOK
  BY <1>1 DEF OpenOK, PostOK, InventoryOK
<1>5. KindOK
  BY <1>1, <1>2, <1>3 DEF KindOK
<1>. QED
  BY <1>4, <1>5, SessionParts

LEMMA SessionsAre ==
    /\ \A s \in Sessions : s \in Nat /\ s >= 1 /\ s # 0
    /\ 1 \in Sessions /\ Sessions \subseteq Nat /\ 0 \notin Sessions
BY DeliveryAssumption DEF Sessions

LEMMA RunnerSession ==
    ASSUME TypeOK, SessionInv, RunnerStep
    PROVE  SessionInv'
<1>0. OpenOK /\ KindOK /\ PostOK /\ InventoryOK
  BY SessionParts
<1>1. UNCHANGED <<worker, sess, open, kind, chan, reg, srv>>
  BY DEF RunnerStep, StartInstall, StartInsert, Announce, Work, Hand, StopRequest,
         StopInstall, StopLook, Prune
<1>2. Current' = Current /\ Current \in Nat /\ 1 <= Current /\ (Waiting' <=> Waiting)
  BY <1>0, <1>1, SessionsAre DEF OpenOK, Current, Waiting
<1>3. sink' <= Current /\ stopper'.via <= Current
  <2>1. /\ sink <= Current /\ stopper.via <= Current
        /\ open # 0 => open <= Current
        /\ stopper \in [at: {"idle", "held", "look", "tell"}, via: Sessions]
    BY <1>0, <1>2 DEF OpenOK, TypeOK
  <2>2. NoStopper.via = 1
    BY DEF NoStopper
  <2>3. sink' \in {sink, 1, stopper.via}
    BY DEF RunnerStep, StartInstall, StartInsert, Announce, Work, Hand, StopRequest,
           StopInstall, StopLook, Prune
  <2>4. \/ stopper' = stopper \/ stopper' = NoStopper
        \/ stopper' = [at |-> "held", via |-> open] /\ open # 0
        \/ stopper' = [at |-> "look", via |-> 1]
        \/ stopper' = [stopper EXCEPT !.at = "tell"]
    BY DEF RunnerStep, StartInstall, StartInsert, Announce, Work, Hand, StopRequest,
           StopInstall, StopLook, Prune
  <2>5. stopper'.via \in {stopper.via, 1} \/ (open # 0 /\ stopper'.via = open)
    BY <2>1, <2>2, <2>4
  <2>. QED
    BY <1>2, <2>1, <2>3, <2>5
<1>4. OpenOK'
  BY <1>0, <1>1, <1>2, <1>3 DEF OpenOK
<1>5. KindOK' /\ PostOK' /\ InventoryOK'
  BY <1>0, <1>1, <1>2 DEF KindOK, PostOK, InventoryOK
<1>. QED
  BY <1>4, <1>5, SessionParts DEF SessionInv, OpenOK, KindOK, PostOK, InventoryOK

LEMMA WorkerSession ==
    ASSUME TypeOK, SessionInv, WorkerStep, PostAnswered => ServerStep
    PROVE  SessionInv'
<1>0. OpenOK /\ KindOK /\ PostOK /\ InventoryOK
  BY SessionParts
<1>1. UNCHANGED <<sess, open, kind, reg, sink, stopper>>
  BY DEF WorkerStep, Pick, TrySend, Post, PostAnswered, PostTimesOut, Settle
<1>2. Current' = Current /\ Current \in Sessions
  BY <1>0, <1>1 DEF OpenOK, Current
<1>3. OpenOK'
  BY <1>0, <1>1, <1>2 DEF OpenOK
<1>4. InventoryOK'
  <2>1. CASE PostAnswered
    <3>1. Waiting' => Waiting /\ srv.seq <= srv'.seq
      BY <2>1 DEF ServerStep
    <3>2. reg.inv.seq \in Nat /\ srv.seq \in Nat
      BY RunnerTypes, NumbersType DEF Servers
    <3>3. srv'.seq \in Nat
      BY <2>1, RunnerTypes, AfterUpdateType DEF PostAnswered, Servers
    <3>. QED
      BY <1>0, <1>1, <3>1, <3>2, <3>3 DEF InventoryOK
  <2>2. CASE ~PostAnswered
    <3>1. srv' = srv
      BY <2>2 DEF WorkerStep, Pick, TrySend, Post, PostTimesOut, Settle
    <3>. QED
      BY <1>0, <1>1, <3>1 DEF InventoryOK, Waiting
  <2>. QED
    BY <2>1, <2>2
<1>5. PostOK'
  <2>1. CASE worker'.at = "posting" /\ Post
    <3>1. kind[sink] = "http" /\ sink \in Sessions
      BY <2>1 DEF Post, TypeOK
    <3>2. sink <= Current /\ Current <= sess
      BY <1>0, SessionsAre DEF OpenOK, Current, TypeOK
    <3>. QED
      BY <1>0, <1>1, <1>2, <3>1, <3>2 DEF PostOK, KindOK
  <2>2. worker'.at = "posting" => Post
    <3>1. Resting.at = "idle" /\ worker \in Workers
      BY RunnerTypes DEF Resting
    <3>. QED
      BY <3>1 DEF WorkerStep, Pick, TrySend, PostAnswered, PostTimesOut, Settle, Workers
  <2>. QED
    BY <2>1, <2>2 DEF PostOK
<1>6. KindOK'
  <2>1. CASE chan' = chan
    BY <1>0, <1>1, <1>2, <2>1 DEF KindOK
  <2>2. CASE /\ sink = open /\ kind[sink] = "stream"
             /\ chan' = [chan EXCEPT ![sink] = Append(@, worker.m)]
    <3>1. sink \in Sessions /\ sink = Current
      BY <1>0, <2>2, SessionsAre DEF OpenOK, TypeOK
    <3>2. \A s \in Sessions : s # Current => chan'[s] = chan[s]
      BY <2>2, <3>1, RunnerTypes
    <3>3. kind[Current] = "stream" /\ ~(Current > Current)
      BY <2>2, <3>1, SessionsAre
    <3>. QED
      BY <1>0, <1>1, <1>2, <3>2, <3>3 DEF KindOK
  <2>. QED
    BY <2>1, <2>2 DEF WorkerStep, Pick, TrySend, Post, PostAnswered, PostTimesOut, Settle
<1>. QED
  BY <1>3, <1>4, <1>5, <1>6, SessionParts DEF SessionInv, OpenOK, KindOK, PostOK, InventoryOK

LEMMA NetworkSession ==
    ASSUME TypeOK, SessionInv, NetworkStep, UNCHANGED srv \/ ServerStep, TypeOK'
    PROVE  SessionInv'
<1>0. OpenOK /\ KindOK /\ PostOK /\ InventoryOK
  BY SessionParts
<1>1. UNCHANGED <<sess, open, kind, reg, sink, stopper, worker>>
  BY DEF NetworkStep, Receive, LoseChannel, StrayPost
<1>2. Current' = Current
  BY <1>1 DEF Current
<1>3. OpenOK' /\ PostOK'
  BY <1>0, <1>1, <1>2 DEF OpenOK, PostOK
<1>4. InventoryOK'
  <2>1. Waiting' => Waiting /\ (srv.seq <= srv'.seq \/ srv'.seq = srv.seq)
    BY DEF ServerStep, Waiting
  <2>2. reg.inv.seq \in Nat /\ srv.seq \in Nat /\ srv'.seq \in Nat
    BY RunnerTypes, NumbersType DEF Servers, TypeOK
  <2>. QED
    BY <1>0, <1>1, <2>1, <2>2 DEF InventoryOK
<1>5. \A s \in Sessions : chan[s] = <<>> => chan'[s] = <<>>
  BY RunnerTypes DEF NetworkStep, Receive, LoseChannel, StrayPost
<1>6. KindOK'
  BY <1>0, <1>1, <1>2, <1>5 DEF KindOK
<1>. QED
  BY <1>3, <1>4, <1>6, SessionParts DEF SessionInv, OpenOK, KindOK, PostOK, InventoryOK

LEMMA SessionSession ==
    ASSUME TypeOK, SaidInv, SessionInv, SessionStep, Next
    PROVE  SessionInv'
<1>0. OpenOK /\ KindOK /\ PostOK /\ InventoryOK
  BY SessionParts
<1> SUFFICES OpenOK' /\ KindOK' /\ PostOK' /\ InventoryOK'
  BY SessionParts DEF SessionInv, OpenOK, KindOK, PostOK, InventoryOK
<1>1. /\ UNCHANGED <<stopper, worker>>
      /\ sess \in Sessions /\ sink \in Sessions /\ stopper.via \in Sessions
      /\ sess \in Nat /\ sink \in Nat /\ stopper.via \in Nat /\ sess # 0
      /\ Current \in Sessions /\ Current \in Nat /\ Current # 0 /\ Current <= sess
  <2>1. UNCHANGED <<stopper, worker>>
    BY DEF SessionStep, Close, ServerRestart, RegisterBegin, RegisterAtServer,
         RegisterFails, InstallSink, ReplayRead, Replay
  <2>2. /\ sess \in Sessions /\ sink \in Sessions /\ stopper.via \in Sessions
    BY DEF TypeOK
  <2>3. Current \in Sessions /\ (Current = sess \/ Current = sess - 1)
    BY <1>0 DEF OpenOK, Current
  <2>4. sess \in Nat /\ sess # 0 /\ sink \in Nat /\ stopper.via \in Nat
    BY <2>2, SessionsAre
  <2>5. Current \in Nat /\ Current # 0
    BY <2>3, SessionsAre
  <2>6. Current <= sess
    BY <2>3, <2>4
  <2>. QED
    BY <2>1, <2>2, <2>3, <2>4, <2>5, <2>6
<1>2. CASE Close
  <2>1. open' = 0 /\ UNCHANGED <<sink, sess, kind, chan, reg, srv>>
        /\ reg.at \notin {"installed", "replay"}
    BY <1>2 DEF Close
  <2>2. Current' = Current
    BY <2>1 DEF Current
  <2>3. OpenOK'
    BY <1>0, <1>1, <2>1, <2>2 DEF OpenOK
  <2>. QED
    BY <1>0, <1>1, <2>1, <2>2, <2>3 DEF KindOK, PostOK, InventoryOK, Waiting
<1>3. CASE ServerRestart
  <2>1. /\ UNCHANGED <<sink, sess, kind>> /\ ~srv'.known
        /\ chan' = [s \in Sessions |-> <<>>]
        /\ open' = IF reg.at \in {"installed", "replay"} THEN open ELSE 0
        /\ reg' = IF reg.at = "asked" THEN NoRegistration ELSE reg
    BY <1>3 DEF ServerRestart
  <2>2. CASE reg.at # "asked"
    <3>1. Current' = Current /\ reg' = reg
      BY <2>1, <2>2 DEF Current
    <3>2. OpenOK'
      BY <1>0, <1>1, <2>1, <3>1 DEF OpenOK
    <3>. QED
      BY <1>0, <1>1, <2>1, <3>1, <3>2 DEF KindOK, PostOK, InventoryOK, Waiting
  <2>3. CASE reg.at = "asked"
    <3>1. reg'.at = "idle" /\ Current = sess - 1 /\ Current' = sess
      BY <2>1, <2>3 DEF Current, NoRegistration
    <3>2. OpenOK'
      BY <1>0, <1>1, <2>1, <2>3, <3>1 DEF OpenOK
    <3>3. kind[Current] = "http" => kind[sess] = "http"
      <4>1. sess <= sess /\ Current <= sess
        BY <1>1
      <4>. QED
        BY <1>0, <1>1, <4>1 DEF KindOK
    <3>4. PostOK'
      BY <1>0, <1>1, <2>1, <3>1, <3>3 DEF PostOK
    <3>. QED
      BY <1>0, <1>1, <2>1, <3>1, <3>2, <3>4 DEF KindOK, InventoryOK
  <2>. QED
    BY <2>2, <2>3
<1>4. ASSUME NEW k \in Kinds, RegisterBegin(k)
      PROVE  OpenOK' /\ KindOK' /\ PostOK' /\ InventoryOK'
  <2>1. /\ UNCHANGED <<sink, chan, srv, open>> /\ open = 0 /\ reg.at = "idle"
        /\ sess < MaxSessions /\ sess' = sess + 1
        /\ kind[sess] = "http" => k = "http"
        /\ kind' = [kind EXCEPT ![sess + 1] = k]
        /\ reg'.at = "asked"
    BY <1>4 DEF RegisterBegin, NoRegistration
  <2>2. Current' = Current /\ Current = sess
    BY <1>1, <2>1 DEF Current
  <2>3. /\ sess + 1 \in Sessions /\ k \in {"stream", "http"}
        /\ kind'[sess + 1] = k /\ \A s \in Sessions : s # sess + 1 => kind'[s] = kind[s]
    <3>1. sess + 1 \in Sessions
      BY <1>1, <2>1, DeliveryAssumption DEF Sessions
    <3>2. k \in {"stream", "http"} /\ kind \in [Sessions -> {"stream", "http", "none"}]
      BY DeliveryAssumption DEF TypeOK
    <3>. QED
      BY <2>1, <3>1, <3>2
  <2>4. OpenOK'
    BY <1>0, <1>1, <2>1, <2>2 DEF OpenOK
  <2>5. PostOK' /\ InventoryOK'
    <3>1. kind'[Current] = kind[Current]
      BY <1>1, <2>2, <2>3
    <3>. QED
      BY <1>0, <1>1, <2>1, <2>2, <3>1 DEF PostOK, InventoryOK
  <2>6. KindOK'
    <3> SUFFICES ASSUME NEW s \in Sessions
                 PROVE  /\ s <= sess + 1 <=> kind'[s] # "none"
                        /\ \A t \in Sessions :
                             s <= t /\ t <= sess + 1 /\ kind'[s] = "http" => kind'[t] = "http"
                        /\ kind'[s] # "stream" \/ s > sess => chan[s] = <<>>
      BY <2>1, <2>2 DEF KindOK
    <3>0. s \in Nat /\ \A t \in Sessions : t \in Nat
      BY SessionsAre
    <3>1. /\ s <= sess <=> kind[s] # "none"
          /\ \A t \in Sessions : s <= t /\ t <= sess /\ kind[s] = "http" => kind[t] = "http"
          /\ kind[s] # "stream" \/ s > sess => chan[s] = <<>>
      BY <1>0, <2>2 DEF KindOK
    <3>2. CASE s = sess + 1
      <4>1. \A t \in Sessions : s <= t /\ t <= sess + 1 => t = s
        BY <1>1, <3>0, <3>2
      <4>. QED
        BY <1>1, <2>3, <3>0, <3>1, <3>2, <4>1
    <3>3. CASE s # sess + 1
      <4>1. kind'[s] = kind[s]
        BY <2>3, <3>3
      <4>2. s <= sess + 1 <=> s <= sess
        BY <1>1, <3>0, <3>3
      <4>3. ASSUME NEW t \in Sessions, s <= t, t <= sess + 1, kind[s] = "http"
            PROVE  kind'[t] = "http"
        <5>1. CASE t = sess + 1
          <6>1. s <= sess
            BY <1>1, <3>0, <3>3, <4>3
          <6>2. kind[sess] = "http"
            BY <1>1, <3>1, <4>3, <6>1
          <6>. QED
            BY <2>1, <2>3, <5>1, <6>2
        <5>2. CASE t # sess + 1
          <6>1. t <= sess
            BY <1>1, <3>0, <4>3, <5>2
          <6>. QED
            BY <2>3, <3>1, <4>3, <5>2, <6>1
        <5>. QED
          BY <5>1, <5>2
      <4>. QED
        BY <3>1, <4>1, <4>2, <4>3
    <3>. QED
      BY <3>2, <3>3
  <2>. QED
    BY <2>4, <2>5, <2>6
<1>5. ASSUME reg.at \in {"asked", "acked"}, reg' = NoRegistration, sess' = sess - 1,
             kind' = [kind EXCEPT ![sess] = "none"], UNCHANGED <<sink, chan, srv, open>>
      PROVE  OpenOK' /\ KindOK' /\ PostOK' /\ InventoryOK'
  <2>1. reg'.at = "idle" /\ open = 0 /\ Current = sess - 1 /\ Current' = sess - 1
    BY <1>0, <1>5 DEF OpenOK, Current, NoRegistration
  <2>2. kind'[sess] = "none" /\ \A s \in Sessions : s # sess => kind'[s] = kind[s]
    BY <1>1, <1>5 DEF TypeOK
  <2>3. OpenOK'
    BY <1>0, <1>1, <1>5, <2>1 DEF OpenOK
  <2>4. PostOK' /\ InventoryOK'
    <3>1. kind'[sess - 1] = kind[sess - 1]
      BY <1>1, <2>1, <2>2
    <3>. QED
      BY <1>0, <1>1, <1>5, <2>1, <3>1 DEF PostOK, InventoryOK
  <2>5. KindOK'
    <3> SUFFICES ASSUME NEW s \in Sessions
                 PROVE  /\ s <= sess - 1 <=> kind'[s] # "none"
                        /\ \A t \in Sessions :
                             s <= t /\ t <= sess - 1 /\ kind'[s] = "http" => kind'[t] = "http"
                        /\ kind'[s] # "stream" \/ s > sess - 1 => chan[s] = <<>>
      BY <1>5, <2>1 DEF KindOK
    <3>0. s \in Nat /\ \A t \in Sessions : t \in Nat
      BY SessionsAre
    <3>1. /\ s <= sess <=> kind[s] # "none"
          /\ \A t \in Sessions : s <= t /\ t <= sess /\ kind[s] = "http" => kind[t] = "http"
          /\ kind[s] # "stream" \/ s > sess - 1 => chan[s] = <<>>
      BY <1>0, <2>1 DEF KindOK
    <3>2. CASE s = sess
      BY <1>1, <2>2, <3>0, <3>1, <3>2
    <3>3. CASE s # sess
      <4>1. kind'[s] = kind[s] /\ (s <= sess - 1 <=> s <= sess)
        BY <1>1, <2>2, <3>0, <3>3
      <4>2. \A t \in Sessions : t <= sess - 1 => t # sess /\ t <= sess /\ kind'[t] = kind[t]
        BY <1>1, <2>2, <3>0
      <4>. QED
        BY <3>1, <4>1, <4>2
    <3>. QED
      BY <3>2, <3>3
  <2>. QED
    BY <2>3, <2>4, <2>5
<1>6. CASE RegisterAtServer
  <2>1. CASE ~ValidInventory(reg.inv)
    BY <1>5, <1>6, <2>1 DEF RegisterAtServer
  <2>2. CASE ValidInventory(reg.inv)
    <3>1. /\ UNCHANGED <<sink, chan, open, sess, kind>> /\ reg.at = "asked" /\ reg'.at = "acked"
      BY <1>6, <2>2 DEF RegisterAtServer, TypeOK
    <3>2. Current' = Current
      BY <3>1 DEF Current
    <3>3. OpenOK' /\ KindOK' /\ PostOK'
      BY <1>0, <1>1, <3>1, <3>2 DEF OpenOK, KindOK, PostOK
    <3>4. InventoryOK'
      BY <1>6, <3>1, RegisterAtServerSaid DEF InventoryOK
    <3>. QED
      BY <3>3, <3>4
  <2>. QED
    BY <2>1, <2>2
<1>7. CASE RegisterFails
  BY <1>5, <1>7 DEF RegisterFails
<1>8. CASE InstallSink
  <2>1. /\ UNCHANGED <<sess, kind, chan, srv>> /\ sink' = sess /\ open' = sess
        /\ reg.at = "acked" /\ reg' = [reg EXCEPT !.at = "installed"]
    BY <1>8 DEF InstallSink
  <2>2. reg'.at = "installed" /\ reg'.inv = reg.inv
    BY <2>1 DEF TypeOK
  <2>3. Current = sess - 1 /\ Current' = sess
    BY <2>1, <2>2 DEF Current
  <2>4. OpenOK'
    BY <1>0, <1>1, <2>1, <2>2, <2>3 DEF OpenOK
  <2>5. InventoryOK'
    BY <1>0, <2>1, <2>2 DEF InventoryOK, Waiting
  <2>6. kind[Current] = "http" => kind[sess] = "http"
    <3>1. sess <= sess /\ Current <= sess
      BY <1>1
    <3>. QED
      BY <1>0, <1>1, <3>1 DEF KindOK
  <2>7. PostOK'
    BY <1>0, <1>1, <2>1, <2>3, <2>6 DEF PostOK
  <2>8. KindOK'
    <3>1. \A s \in Sessions : s > sess => s > Current
      BY <1>1, SessionsAre
    <3>. QED
      BY <1>0, <2>1, <2>3, <3>1 DEF KindOK
  <2>. QED
    BY <2>4, <2>5, <2>7, <2>8
<1>9. CASE ReplayRead
  <2>1. /\ UNCHANGED <<sink, sess, kind, chan, srv, open>>
        /\ reg.at = "installed" /\ reg' = [reg EXCEPT !.at = "replay", !.now = rec]
    BY <1>9 DEF ReplayRead
  <2>2. reg'.at = "replay" /\ reg'.inv = reg.inv
    BY <2>1 DEF TypeOK
  <2>3. Current' = Current
    BY <2>1, <2>2 DEF Current
  <2>4. OpenOK'
    BY <1>0, <1>1, <2>1, <2>2, <2>3 DEF OpenOK
  <2>. QED
    BY <1>0, <1>1, <2>1, <2>2, <2>3, <2>4 DEF KindOK, PostOK, InventoryOK, Waiting
<1>10. CASE Replay
  <2>1. /\ UNCHANGED <<sink, sess, kind, chan, srv, open>>
        /\ reg.at = "replay" /\ reg'.at = "idle"
    BY <1>10 DEF Replay, NoRegistration
  <2>2. Current' = Current
    BY <2>1 DEF Current
  <2>3. OpenOK'
    BY <1>0, <1>1, <2>1, <2>2 DEF OpenOK
  <2>. QED
    BY <1>0, <1>1, <2>1, <2>2, <2>3 DEF KindOK, PostOK, InventoryOK, Waiting
<1>. QED
  BY <1>2, <1>3, <1>4, <1>6, <1>7, <1>8, <1>9, <1>10 DEF SessionStep

-------------------------------------------------------------------------------
(* The initial state. *)

LEMMA InitItems ==
    ASSUME Init
    PROVE  \A x \in Items : x \in Nil
<1>1. /\ rec = NoRecord /\ owed["carrier"] = NoMessage /\ owed["stop"] = NoMessage
      /\ queue.output = NoMessage /\ queue.required = <<>> /\ worker.m = NoMessage
      /\ reg.inv = NoRecord /\ reg.now = NoRecord /\ posts = {}
      /\ \A s \in Sessions : chan[s] = <<>>
  BY DEF Init, EmptyQueue, Resting, NoRegistration
<1>2. ItemsOf(<<>>) = {}
  BY DEF ItemsOf
<1>. QED
  BY <1>1, <1>2, NoMessageType DEF Items

LEMMA NilFacts ==
    ASSUME NEW x \in Nil
    PROVE  /\ x[2] = 0 /\ x[3] = NoProgress /\ DoneSteps(x[3]) = 0
           /\ ~IsTerminal(x[1])
BY DEF Nil, DoneSteps, IsTerminal, TerminalStates

LEMMA InitSaid == Init => SaidInv
<1> SUFFICES ASSUME Init PROVE SaidInv
  OBVIOUS
<1>1. \A x \in Items : /\ x[2] = 0 /\ x[3] = NoProgress /\ DoneSteps(x[3]) = 0
                       /\ ~IsTerminal(x[1])
  BY InitItems, NilFacts
<1>2. /\ carrier = "held" /\ rec = NoRecord /\ rec.life = "Absent"
      /\ srv.seq = 0 /\ srv.prog = NoProgress /\ srv.fault = "none"
      /\ srv.life = "RunnerQueued"
  BY DEF Init, NoRecord
<1>3. ~IsTerminal(srv.life) /\ ~IsTerminal(rec.life) /\ DoneSteps(srv.prog) = 0
  BY <1>2 DEF IsTerminal, TerminalStates, DoneSteps
<1>4. ItemsInv
  BY <1>1 DEF ItemsInv, ShapeOK, EndOK, InOrder
<1>5. RecordInv
  BY <1>1, <1>2, <1>3 DEF RecordInv
<1>6. ServerInv
  BY <1>1, <1>2, <1>3 DEF ServerInv
<1>. QED
  BY <1>4, <1>5, <1>6 DEF SaidInv

LEMMA InitWay == Init => WayInv
<1> SUFFICES ASSUME Init PROVE WayInv
  OBVIOUS
<1>1. TypeOK /\ SaidInv /\ SessionInv
  BY InitTypes, InitSaid, InitSession
<1>2. /\ rec.life = "Absent" /\ worker.at = "idle" /\ reg.at = "idle" /\ posts = {}
      /\ \A s \in Sessions : chan[s] = <<>>
  BY DEF Init, NoRecord, Resting, NoRegistration
<1>3. ~Taking
  BY <1>2 DEF Taking, Asked
<1>4. \A b, e, w : Delivers(b, e, w)
  BY <1>2 DEF Delivers, DeliversTo, WorkerTo
<1>5. \A b : Chain(b, <<>>, <<>>)
  BY DEF Chain
<1>6. ServerWay
  BY <1>2, <1>4, <1>5 DEF ServerWay
<1>. QED
  BY <1>3, <1>6, WayHalves

-------------------------------------------------------------------------------
(* Every step keeps what the records, the queue and the Server say. *)

LEMMA RunnerSaid ==
    ASSUME TypeOK, SaidInv, RunnerStep, Next
    PROVE  SaidInv'
<1>0. /\ Items' \subseteq Items \cup {Item(rec')}
      /\ rec' = rec \/ rec' = NoRecord => Items' \subseteq Items
      /\ queue.skipped => queue'.skipped
  BY ItemsStep, QueueNext
<1>1. CASE StartInstall
  BY <1>0, <1>1, QuietSaid DEF StartInstall
<1>2. CASE StartInsert
  BY <1>0, <1>2, InsertSaid DEF StartInsert
<1>3. CASE Announce
  <2>1. RecordStep("carrier")
    BY <1>3, AnnounceFacts
  <2>2. srv' = srv /\ queue' = queue /\ carrier' = "work"
    BY <1>3 DEF Announce
  <2>. QED
    BY <1>0, <2>1, <2>2, RecordSaid
<1>4. CASE Work
  <2>1. RecordStep("carrier")
    BY <1>4, WorkFacts
  <2>2. srv' = srv /\ queue' = queue /\ carrier' = "work"
    BY <1>4 DEF Work
  <2>. QED
    BY <1>0, <2>1, <2>2, RecordSaid
<1>5. ASSUME NEW t \in {"carrier", "stop"}, Hand(t)
      PROVE  SaidInv'
  <2>1. rec' = rec /\ srv' = srv /\ carrier' = carrier
    BY <1>5 DEF Hand
  <2>2. owed'["carrier"] \in {owed["carrier"], NoMessage}
    BY <1>5 DEF Hand, TypeOK
  <2>. QED
    BY <1>0, <2>1, <2>2, QuietSaid
<1>6. CASE StopRequest
  BY <1>0, <1>6, QuietSaid DEF StopRequest
<1>7. CASE StopInstall
  BY <1>0, <1>7, QuietSaid DEF StopInstall
<1>8. CASE StopLook
  <2>0. srv' = srv /\ queue' = queue /\ carrier' = carrier
    BY <1>8 DEF StopLook
  <2>1. CASE rec' = rec /\ owed'["carrier"] = owed["carrier"]
    BY <1>0, <2>0, <2>1, QuietSaid
  <2>2. CASE Record("stop", "StopRequested", NoProgress, TRUE)
    <3>1. RecordStep("stop")
      BY <2>2, StopRecordFacts
    <3>2. carrier \in {"announce", "work"} /\ rec'.prog = rec.prog
      BY <3>1, ActiveRecord DEF RecordStep
    <3>3. carrier' = "announce" => rec'.prog = NoProgress
      BY <2>0, <3>2 DEF SaidInv, RecordInv
    <3>. QED
      BY <1>0, <2>0, <3>1, <3>2, <3>3, RecordSaid
  <2>. QED
    BY <1>8, <2>1, <2>2 DEF StopLook, TypeOK
<1>9. CASE Prune
  BY <1>0, <1>9, PruneSaid DEF Prune
<1>. QED
  BY <1>1, <1>2, <1>3, <1>4, <1>5, <1>6, <1>7, <1>8, <1>9 DEF RunnerStep

LEMMA WorkerSaid ==
    ASSUME TypeOK, SaidInv, WorkerStep, Next, PostAnswered => ServerStep
    PROVE  SaidInv'
<1>1. CASE PostAnswered
  BY <1>1 DEF ServerStep
<1>2. CASE ~PostAnswered
  <2>1. rec' = rec /\ srv' = srv /\ carrier' = carrier /\ owed' = owed
    BY <1>2 DEF WorkerStep, Pick, TrySend, Post, PostTimesOut, Settle
  <2>. QED
    BY <2>1, ItemsStep, QueueNext, QuietSaid
<1>. QED
  BY <1>1, <1>2

LEMMA NetworkSaid ==
    ASSUME TypeOK, SaidInv, NetworkStep, Next, UNCHANGED srv \/ ServerStep
    PROVE  SaidInv'
<1>1. rec' = rec /\ carrier' = carrier /\ owed' = owed
  BY DEF NetworkStep, Receive, LoseChannel, StrayPost
<1>. QED
  BY <1>1, ItemsStep, QueueNext, QuietSaid DEF ServerStep

LEMMA SessionSaid ==
    ASSUME TypeOK, SaidInv, SessionStep, Next
    PROVE  SaidInv'
<1>1. CASE ServerRestart
  BY <1>1, RestartStep DEF ServerStep
<1>2. CASE RegisterAtServer
  BY <1>2, RegisterAtServerSaid
<1>3. CASE ~ServerRestart /\ ~RegisterAtServer
  <2>1. rec' = rec /\ srv' = srv /\ carrier' = carrier /\ owed' = owed
    BY <1>3 DEF SessionStep, Close, RegisterBegin, RegisterFails, InstallSink,
                ReplayRead, Replay
  <2>. QED
    BY <2>1, ItemsStep, QueueNext, QuietSaid
<1>. QED
  BY <1>1, <1>2, <1>3

-------------------------------------------------------------------------------
(* Every step keeps what is still on its way. *)

LEMMA RunnerWay ==
    ASSUME TypeOK, SaidInv, SessionInv, WayInv, RunnerStep, Next
    PROVE  WayInv'
<1>0. /\ UNCHANGED <<srv, open, kind, sess, chan, posts, reg, worker>>
      /\ queue.skipped => queue'.skipped
  <2>1. UNCHANGED <<srv, open, kind, sess, chan, posts, reg, worker>>
    BY DEF RunnerStep, StartInstall, StartInsert, Announce, Work, Hand, StopRequest,
         StopInstall, StopLook, Prune
  <2>. QED
    BY <2>1, QueueNext
<1> SUFFICES ASSUME NEW b, NEW e, NEW w, BaseOK(b, e, w), Delivers(b, e, w)
             PROVE  DeliversTo(b, e, w, worker, rec', queue', owed')
  BY <1>0, LocalWay
<1>1. CASE rec' = rec /\ queue' = queue /\ owed' = owed
  BY <1>1 DEF Delivers
<1>2. CASE StartInsert
  <2>1. /\ queue' = queue /\ owed' = owed /\ carrier = "insert"
        /\ rec'.life = "RunnerQueued" /\ rec'.prog = NoProgress
    BY <1>2 DEF StartInsert
  <2>. QED
    BY <2>1, InsertDelivers
<1>3. ASSUME NEW t \in {"carrier", "stop"}, RecordStep(t), queue' = queue
      PROVE  DeliversTo(b, e, w, worker, rec', queue', owed')
  BY <1>3, RecordDelivers
<1>4. CASE Announce \/ Work
  <2>1. RecordStep("carrier") /\ queue' = queue
    BY <1>4, AnnounceFacts, WorkFacts DEF Announce, Work
  <2>. QED
    BY <1>3, <2>1
<1>5. ASSUME NEW t \in {"carrier", "stop"}, Hand(t)
      PROVE  DeliversTo(b, e, w, worker, rec', queue', owed')
  <2>1. /\ rec' = rec /\ owed[t] # NoMessage /\ owed[t] \in Message
        /\ owed'[t] = NoMessage
        /\ \A u \in {"carrier", "stop"} : u # t => owed'[u] = owed[u]
        /\ queue' = Enqueue(queue, owed[t])
    BY <1>5 DEF Hand, TypeOK
  <2>2. EnqueueResult(queue, owed[t], queue')
    BY <2>1, RunnerTypes, EnqueueFacts
  <2>. QED
    BY <2>1, <2>2, HandDelivers
<1>6. CASE StopLook
  <2>1. queue' = queue
    BY <1>6 DEF StopLook
  <2>2. CASE /\ owed' = [owed EXCEPT !["stop"] =
                          [life |-> rec.life, seq |-> rec.seq, prog |-> rec.prog,
                           semantic |-> TRUE]]
             /\ rec' = rec
    <3>1. /\ owed'["carrier"] = owed["carrier"]
          /\ owed'["stop"].semantic /\ owed'["stop"].seq = rec.seq
      BY <2>2 DEF TypeOK
    <3>. QED
      BY <2>1, <2>2, <3>1, RetellDelivers
  <2>3. CASE Record("stop", "StopRequested", NoProgress, TRUE)
    BY <1>3, <2>1, <2>3, StopRecordFacts
  <2>. QED
    BY <1>1, <1>6, <2>1, <2>2, <2>3 DEF StopLook
<1>7. CASE Prune
  <2>1. rec'.life = "Absent"
    BY <1>7 DEF Prune, NoRecord
  <2>. QED
    BY <2>1 DEF Delivers, DeliversTo
<1>. QED
  BY <1>1, <1>2, <1>4, <1>5, <1>6, <1>7 DEF RunnerStep, StartInstall, StopRequest, StopInstall

LEMMA WorkerWay ==
    ASSUME TypeOK, SaidInv, SessionInv, WayInv, WorkerStep, Next
    PROVE  WayInv'
<1>0. queue.skipped => queue'.skipped
  BY QueueNext
<1>1. CASE Pick
  <2>0. UNCHANGED <<srv, open, kind, sess, chan, posts, reg, rec, owed>>
        /\ NextOf(queue) # NoMessage /\ worker.at = "idle"
    BY <1>1 DEF Pick
  <2> SUFFICES ASSUME NEW b, NEW e, NEW w, BaseOK(b, e, w), Delivers(b, e, w)
               PROVE  DeliversTo(b, e, w, worker', rec', queue', owed')
    BY <1>0, <2>0, LocalWay
  <2>1. CASE rec.life = "Absent"
    <3>1. worker' = worker
      BY <1>1, <2>1 DEF Pick
    <3>. QED
      BY <2>0, <2>1, <3>1 DEF Delivers, DeliversTo
  <2>2. CASE rec.life # "Absent"
    <3>1. queue' = queue /\ worker'.at = "picked" /\ worker'.m = NextOf(queue)
      BY <1>1, <2>2, RunnerTypes DEF Pick, Workers
    <3>. QED
      BY <2>0, <2>2, <3>1, PickDelivers
  <2>. QED
    BY <2>1, <2>2
<1>2. CASE Post
  <2>1. UNCHANGED <<srv, open, kind, sess, chan, posts, reg, rec, owed, queue>>
        /\ worker.at = "picked" /\ worker'.at = "posting" /\ worker'.m = worker.m
    BY <1>2, RunnerTypes DEF Post, Workers
  <2>2. ASSUME NEW b, NEW e, NEW w, Delivers(b, e, w)
        PROVE  DeliversTo(b, e, w, worker', rec', queue', owed')
    BY <2>1, <2>2 DEF Delivers, DeliversTo, WorkerTo
  <2>. QED
    BY <1>0, <2>1, <2>2, LocalWay
<1>3. CASE Settle
  <2>1. UNCHANGED <<srv, open, kind, sess, chan, posts, reg, rec, owed>>
        /\ worker.at = "sent" /\ worker' = Resting
        /\ (queue' = queue \/ queue' = Acknowledge(queue, worker.m.seq))
    BY <1>3 DEF Settle
  <2>2. ASSUME NEW b, NEW e, NEW w, BaseOK(b, e, w), Delivers(b, e, w)
        PROVE  DeliversTo(b, e, w, worker', rec', queue', owed')
    BY <2>1, <2>2, SettleDelivers DEF SaidInv
  <2>. QED
    BY <1>0, <2>1, <2>2, LocalWay
<1>. QED
  BY <1>1, <1>2, <1>3, TrySendWay, PostAnsweredStep, PostTimesOutWay DEF WorkerStep, ServerStep

LEMMA NetworkWay ==
    ASSUME TypeOK, SaidInv, SessionInv, WayInv, NetworkStep, Next
    PROVE  WayInv' /\ (UNCHANGED srv \/ ServerStep)
<1>1. ASSUME NEW s \in Sessions, LoseChannel(s)
      PROVE  WayInv' /\ UNCHANGED srv
  BY <1>1, LoseChannelWay DEF LoseChannel
<1>. QED
  BY <1>1, ReceiveStep, StrayPostStep DEF NetworkStep, ServerStep

LEMMA SessionWay ==
    ASSUME TypeOK, SaidInv, SessionInv, WayInv, SessionStep
    PROVE  WayInv'
<1>1. CASE RegisterFails
  BY <1>1, UnregisterWay DEF RegisterFails
<1>. QED
  BY <1>1, CloseWay, RestartWay, RegisterBeginWay, RegisterAtServerWay, InstallSinkWay,
     ReplayReadWay, ReplayWay DEF SessionStep

-------------------------------------------------------------------------------
(* The theorems. *)

LEMMA DeliveryNext ==
    ASSUME DeliveryInv, [Next]_vars
    PROVE  DeliveryInv'
<1>0. TypeOK /\ SaidInv /\ SessionInv /\ WayInv
  BY DEF DeliveryInv
<1>1. CASE RunnerStep
  <2>1. Next
    BY <1>1 DEF Next
  <2>. QED
    BY <1>0, <1>1, <2>1, RunnerTypesNext, RunnerSaid, RunnerSession, RunnerWay DEF DeliveryInv
<1>2. CASE WorkerStep
  <2>1. Next /\ (PostAnswered => ServerStep)
    BY <1>0, <1>2, PostAnsweredStep DEF Next
  <2>. QED
    BY <1>0, <1>2, <2>1, WorkerTypesNext, WorkerSaid, WorkerSession, WorkerWay DEF DeliveryInv
<1>3. CASE SessionStep
  <2>1. Next
    BY <1>3 DEF Next
  <2>. QED
    BY <1>0, <1>3, <2>1, SessionTypesNext, SessionSaid, SessionSession, SessionWay DEF DeliveryInv
<1>4. CASE NetworkStep
  <2>1. Next
    BY <1>4 DEF Next
  <2>2. WayInv' /\ (UNCHANGED srv \/ ServerStep) /\ TypeOK'
    BY <1>0, <1>4, <2>1, NetworkWay, NetworkTypesNext
  <2>. QED
    BY <1>0, <1>4, <2>1, <2>2, NetworkSaid, NetworkSession DEF DeliveryInv
<1>5. CASE UNCHANGED vars
  <2>1. UNCHANGED <<rec, carrier, owed, stopper, stops, queue, worker, sink, sess, open,
                    kind, chan, posts, reg, srv>>
    BY <1>5 DEF vars
  <2>2. TypeOK'
    BY <1>0, <2>1 DEF TypeOK
  <2>3. Items' = Items
    BY <2>1 DEF Items
  <2>4. SaidInv'
    BY <1>0, <2>1, <2>3, QuietSaid
  <2>5. SessionInv'
    BY <1>0, <2>1 DEF SessionInv, Current, Waiting
  <2>6. WayInv'
    BY <1>0, <2>1, LocalWay DEF Delivers
  <2>. QED
    BY <2>2, <2>4, <2>5, <2>6 DEF DeliveryInv
<1>. QED
  BY <1>1, <1>2, <1>3, <1>4, <1>5 DEF Next

(* DeliveryInv holds in every reachable state, whatever the transports,     *)
(* the plan, the capacity of the queue and of the channels, and however     *)
(* many sessions, outputs and stop requests there are: record_update and    *)
(* queue_recorded_update under their two locks, the delivery worker, the    *)
(* Server's update_job and the registration keep it together.               *)
THEOREM DeliveryInvariant == Spec => []DeliveryInv
<1>1. Init => DeliveryInv
  BY InitTypes, InitSaid, InitSession, InitWay DEF DeliveryInv
<1>2. DeliveryInv /\ [Next]_vars => DeliveryInv'
  BY DeliveryNext
<1>. QED
  BY <1>1, <1>2, PTL DEF Spec

(* The variables of the update path keep their types: in particular the     *)
(* queue of JobUpdateDeliveryQueue::enqueue never holds more than           *)
(* MaxRequired semantic updates, and a rejected registration leaves the     *)
(* number of sessions in range.                                             *)
THEOREM DeliveryTypes == Spec => []TypeOK
<1>1. DeliveryInv => TypeOK
  BY DEF DeliveryInv
<1>. QED
  BY <1>1, DeliveryInvariant, PTL

(* The Server never takes an update for a progress cursor that goes back or *)
(* jumps over a step (validate_validation_progress), unless a replay ended  *)
(* the suspension of a queue whose Job had moved on meanwhile.              *)
THEOREM SkippedStepSafe == Spec => []NoSkippedStep
<1>1. DeliveryInv => NoSkippedStep
  BY DEF DeliveryInv, SaidInv, ServerInv, NoSkippedStep
<1>. QED
  BY <1>1, DeliveryInvariant, PTL

(* An end that update_job or the reconciliation accepted is the end that    *)
(* record_update wrote: no retransmission, replay or inventory brings       *)
(* another one.                                                             *)
THEOREM OutcomeSafe == Spec => []OutcomeAgrees
<1>1. DeliveryInv => OutcomeAgrees
  BY DEF DeliveryInv, SaidInv, ServerInv, OutcomeAgrees
<1>. QED
  BY <1>1, DeliveryInvariant, PTL

LEMMA EndOnItsWay == DeliveryInv => EndNotForgotten
<1> SUFFICES ASSUME DeliveryInv, Ended, srv.known, open # 0,
                    ~queue.suspended, ~queue.skipped, ~IsTerminal(srv.life)
             PROVE  \/ \E t \in {"carrier", "stop"} : owed[t].seq = rec.seq
                    \/ \E k \in 1..Len(queue.required) : queue.required[k].seq = rec.seq
                    \/ \E k \in 1..Len(chan[open]) : chan[open][k].seq = rec.seq
  BY DEF EndNotForgotten
<1>0. TypeOK /\ SaidInv /\ SessionInv /\ WayInv
  BY DEF DeliveryInv
<1>1. Waiting /\ Linked /\ Wire = chan[open]
  BY DEF Waiting, Linked, Wire
<1>2. IsTerminal(rec.life) /\ rec.life # "Absent"
  BY DEF Ended, IsTerminal, TerminalStates
<1>3. srv.seq < rec.seq
  BY <1>0, <1>1, <1>2 DEF SaidInv, ServerInv
<1>4. RecordTo(DoneSteps(srv.prog), srv.seq, Wire, rec, queue, owed)
  BY <1>0, <1>1, <1>2, WayHalves DEF ServerWay, Delivers, DeliversTo
<1>5. srv.seq \in Nat /\ rec.seq \in Nat /\ ~(rec.seq <= srv.seq)
  <2>1. srv.seq \in Nat
    BY <1>0, RunnerTypes DEF Servers
  <2>2. rec.seq \in Nat
    BY <1>0, RunnerTypes, NumbersType
  <2>. QED
    BY <1>3, <2>1, <2>2
<1>6. \/ \E t \in {"carrier", "stop"} : owed[t].seq = rec.seq
      \/ Numbered(queue.required, rec.seq) \/ Numbered(Wire, rec.seq)
  BY <1>2, <1>4, <1>5 DEF RecordTo
<1>7. DOMAIN queue.required = 1..Len(queue.required)
  BY <1>0, RunnerTypes, SeqOfMessages
<1>8. DOMAIN chan[open] = 1..Len(chan[open])
  <2>1. open \in Sessions
    BY <1>0, SessionParts DEF OpenOK
  <2>. QED
    BY <1>0, <2>1, RunnerTypes, SeqOfMessages
<1>. QED
  BY <1>1, <1>6, <1>7, <1>8 DEF Numbered

(* While a session is served, the recorded end of a Job that the Server     *)
(* does not have yet is in a queue, in the hands of a recording thread or   *)
(* on the wire of that session: no interleaving of enqueue, acknowledge,    *)
(* reconnection and replay loses it, unless the queue is suspended or a     *)
(* suspension was ended too early.                                          *)
THEOREM EndSafe == Spec => []EndNotForgotten
BY EndOnItsWay, DeliveryInvariant, PTL
===============================================================================
