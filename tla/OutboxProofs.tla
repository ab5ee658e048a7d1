---------------------------- MODULE OutboxProofs ----------------------------
(* What the outbox Lambda guarantees for any set of events, any batch and  *)
(* page size and any number of failures: a checkpoint means delivery, and  *)
(* the two paths together implement the event channel.                     *)
EXTENDS OutboxDelivery, TLAPS

RowStates == {"absent", "outbox", "outbox-delivered"}

Job == [pc : Calls \union {"idle", "done"}, batch : Seq(Events),
        todo : Seq(Events), failed : SUBSET Events]

OutboxTypeOK ==
    /\ row \in [Events -> RowStates]
    /\ index \subseteq Events /\ stream \in Seq(Events) /\ trimmed \subseteq Events
    /\ object \in [Events -> {"none", "own", "other"}]
    /\ sent \subseteq Events \X Queues
    /\ job \in [Paths -> Job]
    /\ faults \in Nat

(* Only rows that were written are known to the index, to the stream and   *)
(* to an invocation.                                                       *)
Written(s) == \A i \in 1..Len(s) : row[s[i]] # "absent"

(* What the calls that dispatch_record has behind it for the item at hand  *)
(* have established, on either path.                                       *)
Prepared(p) ==
    LET k == job[p]
        e == Head(k.todo)
    IN  /\ k.pc \in Calls <=> k.todo # <<>>
        /\ Written(k.todo)
        /\ k.pc \in {"sendTarget", "sendRouted", "mark"} => object[e] = "own"
        /\ k.pc \in {"sendRouted", "mark"} => <<e, "target">> \in sent
        /\ k.pc = "mark" => <<e, Route(e)>> \in sent

(* The items of the stream's batch that are no longer to do have failed or *)
(* are delivered, and the others are exactly its todo list, in order.      *)
Accounted ==
    LET k == job["stream"]
        over == Len(k.batch) - Len(k.todo)
    IN  /\ over >= 0
        /\ \A i \in 1..Len(k.todo) : k.todo[i] = k.batch[over + i]
        /\ \A i \in 1..over : k.batch[i] \in k.failed
                                 \/ row[k.batch[i]] = "outbox-delivered"

OutboxInv ==
    /\ OutboxTypeOK
    /\ \A e \in index : row[e] # "absent"
    /\ Written(stream)
    /\ \A p \in Paths : Prepared(p)
    /\ Accounted
    /\ CheckpointMeansDelivered

(* What every step does to the world outside the invocations.              *)
Advances ==
    /\ \A e \in Events : /\ row[e] # "absent" => row'[e] # "absent"
                         /\ row[e] = "outbox-delivered" => row'[e] = "outbox-delivered"
                         /\ object[e] = "own" => object'[e] = "own"
    /\ sent \subseteq sent'

(***************************************************************************)
(* Head and Tail of a nonempty list of events.                             *)
(***************************************************************************)
LEMMA HeadTail ==
    ASSUME NEW s \in Seq(Events), s # <<>>
    PROVE  /\ Len(s) \in Nat \ {0} /\ Head(s) \in Events /\ Head(s) = s[1]
           /\ Tail(s) \in Seq(Events) /\ Len(Tail(s)) = Len(s) - 1
           /\ \A i \in 1..Len(s) - 1 : Tail(s)[i] = s[i + 1]
OBVIOUS

(***************************************************************************)
(* An invocation that does not move keeps what it has established, as long *)
(* as the world only advances.                                             *)
(***************************************************************************)
LEMMA PreparedKept ==
    ASSUME OutboxTypeOK, NEW p \in Paths, Prepared(p), Advances, job'[p] = job[p]
    PROVE  Prepared(p)'
<1> DEFINE k == job[p]
<1>0. k \in Job /\ k.todo \in Seq(Events)
  BY DEF OutboxTypeOK, Job
<1>1. Written(k.todo)'
  <2>1. \A i \in 1..Len(k.todo) : k.todo[i] \in Events /\ row[k.todo[i]] # "absent"
    BY <1>0 DEF Prepared, Written
  <2> QED BY <2>1 DEF Advances, Written
<1>2. CASE k.todo = <<>>
  <2>1. k.pc \notin Calls
    BY <1>2 DEF Prepared
  <2> QED BY <1>0, <1>1, <1>2, <2>1 DEF Prepared, Calls
<1>3. CASE k.todo # <<>>
  <2>1. Head(k.todo) \in Events
    BY <1>0, <1>3, HeadTail
  <2>2. k.pc \in Calls
    BY <1>3 DEF Prepared
  <2> QED BY <1>0, <1>1, <1>3, <2>1, <2>2 DEF Prepared, Advances
<1> QED BY <1>2, <1>3

LEMMA AccountedKept ==
    ASSUME OutboxTypeOK, Accounted, Advances, job'["stream"] = job["stream"]
    PROVE  Accounted'
<1> DEFINE k == job["stream"]
<1>0. k.todo \in Seq(Events) /\ k.batch \in Seq(Events) /\ Len(k.todo) \in Nat /\ Len(k.batch) \in Nat
  BY DEF OutboxTypeOK, Job, Paths
<1>1. \A i \in 1..Len(k.batch) - Len(k.todo) : k.batch[i] \in Events
  BY <1>0
<1> QED BY <1>0, <1>1 DEF Accounted, Advances

(***************************************************************************)
(* Moving an invocation from one call to the next, and starting one.       *)
(***************************************************************************)
LEMMA Gone ==
    ASSUME OutboxTypeOK, NEW p \in Paths, NEW pc \in Calls, Goto(p, pc)
    PROVE  /\ job' \in [Paths -> Job]
           /\ job'[p] = [job[p] EXCEPT !.pc = pc]
           /\ \A q \in Paths \ {p} : job'[q] = job[q]
BY DEF OutboxTypeOK, Goto, Job

LEMMA Replaced ==
    ASSUME OutboxTypeOK, NEW p \in Paths, NEW k \in Job, job' = [job EXCEPT ![p] = k]
    PROVE  /\ job' \in [Paths -> Job] /\ job'[p] = k
           /\ \A q \in Paths \ {p} : job'[q] = job[q]
BY DEF OutboxTypeOK

LEMMA IdleIsPrepared ==
    /\ Idle \in Job
    /\ \A p \in Paths : job'[p] = Idle => Prepared(p)'
    /\ job'["stream"] = Idle => Accounted'
<1>0. Idle.todo = <<>> /\ Len(Idle.todo) = 0 /\ Idle.batch = <<>> /\ Len(Idle.batch) = 0 /\ Idle.pc = "idle"
  BY DEF Idle
<1>1. Idle \in Job
  <2>1. <<>> \in Seq(Events)
    OBVIOUS
  <2> QED BY <2>1 DEF Idle, Job
<1>2. ASSUME NEW p \in Paths, job'[p] = Idle PROVE Prepared(p)'
  BY <1>0, <1>2 DEF Prepared, Written, Calls
<1>3. ASSUME job'["stream"] = Idle PROVE Accounted'
  <2>1. Len(job'["stream"].batch) - Len(job'["stream"].todo) = 0
    BY <1>0, <1>3
  <2>2. 1..0 = {} /\ Len(job'["stream"].todo) = 0
    BY <1>0, <1>3
  <2> QED BY <2>1, <2>2 DEF Accounted
<1> QED BY <1>1, <1>2, <1>3

(***************************************************************************)
(* The end of an item, failed or not: the invocation is ready for the next *)
(* one, and the stream's invocation has accounted for this one.            *)
(***************************************************************************)
LEMMA ItemOver ==
    ASSUME OutboxTypeOK, NEW p \in Paths, Prepared(p), Accounted, Advances,
           job[p].pc \in Calls, NEW bad \in BOOLEAN, NextItem(p, bad),
           bad \/ row'[Item(p)] = "outbox-delivered"
    PROVE  /\ job' \in [Paths -> Job] /\ Prepared(p)' /\ Accounted'
           /\ \A q \in Paths \ {p} : job'[q] = job[q]
<1> DEFINE k == job[p]
           rest == Tail(k.todo)
           failed == IF bad /\ p = "stream" THEN k.failed \union {Item(p)} ELSE k.failed
           n == [pc |-> FirstCall(rest), batch |-> k.batch, todo |-> rest, failed |-> failed]
<1>0. /\ k \in Job /\ k.todo \in Seq(Events) /\ k.batch \in Seq(Events) /\ k.failed \subseteq Events
      /\ k.todo # <<>>
  BY DEF OutboxTypeOK, Job, Prepared
<1>1. /\ Len(k.todo) \in Nat \ {0} /\ Item(p) \in Events /\ Item(p) = k.todo[1]
      /\ rest \in Seq(Events) /\ Len(rest) = Len(k.todo) - 1
      /\ \A i \in 1..Len(k.todo) - 1 : rest[i] = k.todo[i + 1]
  BY <1>0, HeadTail DEF Item
<1>2. n \in Job
  BY <1>0, <1>1 DEF Job, FirstCall, Calls
<1>3. job' = [job EXCEPT ![p] = n]
  BY <1>0 DEF NextItem, OutboxTypeOK, Job
<1>4. /\ job' \in [Paths -> Job] /\ job'[p] = n /\ \A q \in Paths \ {p} : job'[q] = job[q]
  BY <1>2, <1>3, Replaced
<1>5. Prepared(p)'
  <2>1. \A i \in 1..Len(rest) : rest[i] \in Events /\ row[rest[i]] # "absent"
    BY <1>0, <1>1 DEF Prepared, Written
  <2>2. \A i \in 1..Len(rest) : row'[rest[i]] # "absent"
    BY <2>1 DEF Advances
  <2>3. n.todo = rest /\ n.pc = FirstCall(rest)
    OBVIOUS
  <2>4. n.pc \in {"put", "done"} /\ (n.pc \in Calls <=> rest # <<>>)
    BY <2>3 DEF FirstCall, Calls
  <2> HIDE DEF n, rest
  <2> QED BY <1>4, <2>2, <2>3, <2>4 DEF Prepared, Written
<1>6. CASE p = "stream"
  <2>1. PICK b, t, f, r : b = k.batch /\ t = k.todo /\ f = failed /\ r = rest
    OBVIOUS
  <2>2. /\ b \in Seq(Events) /\ Len(b) \in Nat /\ Len(t) \in Nat \ {0} /\ Len(r) = Len(t) - 1
        /\ \A i \in 1..Len(t) - 1 : r[i] = t[i + 1]
    BY <1>0, <1>1, <2>1
  <2>3. PICK over \in Nat : over = Len(b) - Len(t)
    <3>1. Len(b) - Len(t) >= 0
      <4>1. b = job["stream"].batch /\ t = job["stream"].todo
        BY <1>6, <2>1
      <4> QED BY <4>1 DEF Accounted
    <3>2. Len(b) - Len(t) \in Nat
      BY <2>2, <3>1
    <3> QED BY <3>2
  <2>4. \A i \in 1..Len(t) : t[i] = b[over + i]
    BY <1>6, <2>1, <2>3 DEF Accounted
  <2>5. \A i \in 1..over : b[i] \in k.failed \/ row[b[i]] = "outbox-delivered"
    BY <1>6, <2>1, <2>3 DEF Accounted
  <2>6. b[over + 1] = Item(p)
    <3>1. 1 \in 1..Len(t)
      BY <2>2
    <3> QED BY <1>1, <2>1, <2>4, <3>1
  <2>7. Len(b) - Len(r) = over + 1
    BY <2>2, <2>3
  <2>8. \A i \in 1..Len(r) : r[i] = b[(over + 1) + i]
    <3> SUFFICES ASSUME NEW i \in 1..Len(r) PROVE r[i] = b[(over + 1) + i]
      OBVIOUS
    <3>1. r[i] = t[i + 1] /\ i + 1 \in 1..Len(t) /\ over + (i + 1) = (over + 1) + i
      BY <2>2
    <3> QED BY <2>4, <3>1
  <2>9. \A i \in 1..over + 1 : b[i] \in f \/ row'[b[i]] = "outbox-delivered"
    <3> SUFFICES ASSUME NEW i \in 1..over + 1 PROVE b[i] \in f \/ row'[b[i]] = "outbox-delivered"
      OBVIOUS
    <3>1. CASE i = over + 1
      BY <1>6, <2>1, <2>6, <3>1
    <3>2. CASE i # over + 1
      <4>0. over <= Len(b) /\ Len(b) \in Nat
        <5>1. Len(t) >= 0 /\ Len(t) \in Nat /\ Len(b) \in Nat
          BY <2>2
        <5> QED BY <2>3, <5>1
      <4>1. i \in 1..over /\ i \in 1..Len(b)
        <5>1. i \in Nat /\ i >= 1 /\ i <= over
          BY <3>2
        <5> QED BY <4>0, <5>1
      <4>2. b[i] \in Events
        BY <2>2, <4>1
      <4>3. k.failed \subseteq f
        BY <2>1
      <4> QED BY <2>5, <4>1, <4>2, <4>3 DEF Advances
    <3> QED BY <3>1, <3>2
  <2>10. job'["stream"].batch = b /\ job'["stream"].todo = r /\ job'["stream"].failed = f
    <3>1. job'["stream"] = n
      BY <1>4, <1>6
    <3>2. n.batch = k.batch /\ n.todo = rest /\ n.failed = failed
      OBVIOUS
    <3> HIDE DEF n, k, rest, failed
    <3> QED BY <2>1, <3>1, <3>2
  <2>11. over + 1 >= 0
    BY <2>3
  <2> HIDE DEF rest, failed, k, n
  <2>12. Accounted'
    BY <2>2, <2>3, <2>7, <2>8, <2>9, <2>10, <2>11 DEF Accounted
  <2> QED BY <1>4, <1>5, <2>12
<1>7. CASE p # "stream"
  BY <1>4, <1>5, <1>7, AccountedKept DEF Paths
<1> QED BY <1>4, <1>5, <1>6, <1>7

(***************************************************************************)
(* A step of the invocation on path p that leaves the stream and the index *)
(* alone keeps the invariant, if it is ready for its next call afterwards. *)
(***************************************************************************)
LEMMA PathStep ==
    ASSUME OutboxInv, Advances, OutboxTypeOK', NEW p \in Paths,
           \A q \in Paths \ {p} : job'[q] = job[q], Prepared(p)', Accounted',
           \A e \in Events : row[e] = "absent" => row'[e] = "absent",
           UNCHANGED <<index, stream, trimmed>>
    PROVE  OutboxInv'
<1>1. \A q \in Paths : Prepared(q)'
  BY PreparedKept DEF OutboxInv
<1>2. \A e \in index' : row'[e] # "absent"
  BY DEF OutboxInv, OutboxTypeOK, Advances
<1>3. Written(stream)'
  <2>1. \A i \in 1..Len(stream) : stream[i] \in Events
    BY DEF OutboxInv, OutboxTypeOK
  <2> QED BY <2>1 DEF OutboxInv, Written, Advances
<1>4. CheckpointMeansDelivered'
  BY DEF OutboxInv, CheckpointMeansDelivered, Advances
<1> QED BY <1>1, <1>2, <1>3, <1>4 DEF OutboxInv

(***************************************************************************)
(* One action after the other.                                             *)
(***************************************************************************)
LEMMA WriteRowInv ==
    ASSUME OutboxInv, NEW e \in Events, WriteRow(e) PROVE OutboxInv'
<1>0. /\ row \in [Events -> RowStates] /\ stream \in Seq(Events)
      /\ row' = [row EXCEPT ![e] = "outbox"] /\ row[e] = "absent" /\ stream' = Append(stream, e)
      /\ UNCHANGED <<index, trimmed, object, sent, job, faults>>
  BY DEF OutboxInv, OutboxTypeOK, WriteRow
<1>1. OutboxTypeOK'
  BY <1>0 DEF OutboxInv, OutboxTypeOK, RowStates
<1>2. Advances
  BY <1>0 DEF Advances
<1>3. (\A p \in Paths : Prepared(p)') /\ Accounted'
  BY <1>0, <1>2, PreparedKept, AccountedKept DEF OutboxInv
<1>4. \A d \in index' : row'[d] # "absent"
  BY <1>0 DEF OutboxInv, OutboxTypeOK
<1>5. /\ Len(stream') = Len(stream) + 1 /\ Len(stream) \in Nat
      /\ \A i \in 1..Len(stream) : stream'[i] = stream[i] /\ stream[i] \in Events
      /\ stream'[Len(stream) + 1] = e
  BY <1>0
<1>6. Written(stream)'
  <2> SUFFICES ASSUME NEW i \in 1..Len(stream) + 1 PROVE row'[stream'[i]] # "absent"
    BY <1>5 DEF Written
  <2>1. i \in 1..Len(stream) \/ i = Len(stream) + 1
    BY <1>5
  <2> QED BY <1>0, <1>5, <2>1 DEF OutboxInv, Written
<1>7. CheckpointMeansDelivered'
  <2>1. ToSet(stream') = ToSet(stream) \union {e}
    <3>1. DOMAIN stream = 1..Len(stream) /\ DOMAIN stream' = 1..Len(stream')
      BY <1>0
    <3>2. 1..Len(stream') = (1..Len(stream)) \union {Len(stream) + 1}
      BY <1>5
    <3> QED BY <1>5, <3>1, <3>2 DEF ToSet
  <2> QED BY <1>0, <2>1 DEF OutboxInv, CheckpointMeansDelivered
<1> QED BY <1>1, <1>3, <1>4, <1>6, <1>7 DEF OutboxInv

LEMMA IndexFollowsInv ==
    ASSUME OutboxInv, NEW e \in Events, IndexFollows(e) PROVE OutboxInv'
<1>0. /\ index' = (IF row[e] = "outbox" THEN index \union {e} ELSE index \ {e})
      /\ UNCHANGED <<row, stream, trimmed, object, sent, job, faults>>
  BY DEF IndexFollows
<1>1. OutboxTypeOK'
  BY <1>0 DEF OutboxInv, OutboxTypeOK
<1>2. Advances
  BY <1>0 DEF Advances
<1>3. (\A p \in Paths : Prepared(p)') /\ Accounted'
  BY <1>0, <1>2, PreparedKept, AccountedKept DEF OutboxInv
<1>4. \A d \in index' : row'[d] # "absent"
  BY <1>0 DEF OutboxInv
<1>5. Written(stream)' /\ CheckpointMeansDelivered'
  BY <1>0 DEF OutboxInv, Written, CheckpointMeansDelivered
<1> QED BY <1>1, <1>3, <1>4, <1>5 DEF OutboxInv

LEMMA StreamTrimsInv ==
    ASSUME OutboxInv, StreamTrims PROVE OutboxInv'
<1>0. /\ stream \in Seq(Events) /\ stream # <<>> /\ stream' = Tail(stream)
      /\ trimmed' = trimmed \union {Head(stream)}
      /\ UNCHANGED <<row, index, object, sent, job, faults>>
  BY DEF OutboxInv, OutboxTypeOK, StreamTrims
<1>1. /\ Len(stream) \in Nat \ {0} /\ Head(stream) \in Events /\ Head(stream) = stream[1]
      /\ stream' \in Seq(Events) /\ Len(stream') = Len(stream) - 1
      /\ \A i \in 1..Len(stream) - 1 : stream'[i] = stream[i + 1]
  BY <1>0, HeadTail
<1>2. OutboxTypeOK'
  BY <1>0, <1>1 DEF OutboxInv, OutboxTypeOK
<1>3. Advances
  BY <1>0 DEF Advances
<1>4. (\A p \in Paths : Prepared(p)') /\ Accounted'
  BY <1>0, <1>3, PreparedKept, AccountedKept DEF OutboxInv
<1>5. Written(stream)'
  BY <1>0, <1>1 DEF OutboxInv, Written
<1>6. CheckpointMeansDelivered'
  <2>1. ToSet(stream) \subseteq ToSet(stream') \union {Head(stream)}
    <3>1. DOMAIN stream = 1..Len(stream) /\ DOMAIN stream' = 1..Len(stream')
      BY <1>0, <1>1
    <3> SUFFICES ASSUME NEW i \in 1..Len(stream), i # 1 PROVE stream[i] \in ToSet(stream')
      BY <1>1, <3>1 DEF ToSet
    <3>2. i - 1 \in 1..Len(stream) - 1 /\ (i - 1) + 1 = i
      BY <1>1
    <3>3. stream'[i - 1] = stream[i]
      BY <1>1, <3>2
    <3> QED BY <1>1, <3>1, <3>2, <3>3 DEF ToSet
  <2> QED BY <1>0, <2>1 DEF OutboxInv, CheckpointMeansDelivered
<1>7. \A d \in index' : row'[d] # "absent"
  BY <1>0 DEF OutboxInv
<1> QED BY <1>2, <1>4, <1>5, <1>6, <1>7 DEF OutboxInv

(* What the item at hand is.                                               *)
LEMMA ItemAtHand ==
    ASSUME OutboxInv, NEW p \in Paths, job[p].pc \in Calls
    PROVE  /\ job[p] \in Job /\ job[p].todo \in Seq(Events) /\ job[p].todo # <<>>
           /\ Item(p) \in Events /\ Item(p) = Head(job[p].todo)
           /\ row[Item(p)] \in {"outbox", "outbox-delivered"}
<1>1. job[p] \in Job /\ job[p].todo \in Seq(Events) /\ job[p].todo # <<>> /\ Prepared(p)
  BY DEF OutboxInv, OutboxTypeOK, Job, Prepared
<1>2. Head(job[p].todo) \in Events /\ Head(job[p].todo) = job[p].todo[1] /\ 1 \in 1..Len(job[p].todo)
  BY <1>1, HeadTail
<1>3. row[Head(job[p].todo)] # "absent"
  BY <1>1, <1>2 DEF Prepared, Written
<1> QED BY <1>1, <1>2, <1>3 DEF Item, OutboxInv, OutboxTypeOK, RowStates

(***************************************************************************)
(* Going on to the next call of the same item.                             *)
(***************************************************************************)
LEMMA NextCall ==
    ASSUME OutboxInv, Advances, NEW p \in Paths, job[p].pc \in Calls,
           NEW pc \in Calls, Goto(p, pc),
           pc \in {"sendTarget", "sendRouted", "mark"} => object'[Item(p)] = "own",
           pc \in {"sendRouted", "mark"} => <<Item(p), "target">> \in sent',
           pc = "mark" => <<Item(p), Route(Item(p))>> \in sent'
    PROVE  /\ job' \in [Paths -> Job] /\ Prepared(p)' /\ Accounted'
           /\ \A q \in Paths \ {p} : job'[q] = job[q]
<1>0. /\ job[p] \in Job /\ job[p].todo \in Seq(Events) /\ job[p].todo # <<>>
      /\ Item(p) = Head(job[p].todo)
  BY ItemAtHand
<1>1. /\ job' \in [Paths -> Job] /\ job'[p] = [job[p] EXCEPT !.pc = pc]
      /\ \A q \in Paths \ {p} : job'[q] = job[q]
  BY Gone DEF OutboxInv
<1>2. /\ job'[p].pc = pc /\ job'[p].todo = job[p].todo /\ job'[p].batch = job[p].batch
      /\ job'[p].failed = job[p].failed
  BY <1>0, <1>1 DEF Job
<1>3. \A i \in 1..Len(job[p].todo) : row'[job[p].todo[i]] # "absent"
  <2>1. \A i \in 1..Len(job[p].todo) : job[p].todo[i] \in Events /\ row[job[p].todo[i]] # "absent"
    BY <1>0 DEF OutboxInv, Prepared, Written
  <2> QED BY <2>1 DEF Advances
<1>4. Prepared(p)'
  BY <1>0, <1>2, <1>3 DEF Prepared, Written, Route
<1>5. Accounted'
  <2>1. /\ job'["stream"].batch = job["stream"].batch /\ job'["stream"].todo = job["stream"].todo
        /\ job'["stream"].failed = job["stream"].failed
    BY <1>1, <1>2 DEF Paths
  <2>2. /\ job["stream"].batch \in Seq(Events) /\ Len(job["stream"].batch) \in Nat
        /\ Len(job["stream"].todo) \in Nat
    BY DEF OutboxInv, OutboxTypeOK, Job, Paths
  <2>3. \A i \in 1..Len(job["stream"].batch) - Len(job["stream"].todo) :
            job["stream"].batch[i] \in Events
    BY <2>2
  <2> QED BY <2>1, <2>2, <2>3 DEF OutboxInv, Accounted, Advances
<1> QED BY <1>1, <1>4, <1>5

LEMMA PutObjectInv ==
    ASSUME OutboxInv, NEW p \in Paths, PutObject(p) PROVE OutboxInv'
<1>0. /\ object' = (IF object[Item(p)] = "none" THEN [object EXCEPT ![Item(p)] = "own"] ELSE object)
      /\ UNCHANGED <<row, index, stream, trimmed, sent, faults>>
      /\ object \in [Events -> {"none", "own", "other"}] /\ job[p].pc \in Calls
  BY DEF OutboxInv, OutboxTypeOK, PutObject, Calls
<1>1. Item(p) \in Events
  BY <1>0, ItemAtHand
<1>2. object' \in [Events -> {"none", "own", "other"}] /\ Advances
  BY <1>0, <1>1 DEF Advances
<1>3. /\ job' \in [Paths -> Job] /\ Prepared(p)' /\ Accounted'
      /\ \A q \in Paths \ {p} : job'[q] = job[q]
  <2>1. CASE object[Item(p)] = "other"
    <3>1. NextItem(p, TRUE)
      BY <2>1 DEF PutObject
    <3> QED BY <1>0, <1>2, <3>1, ItemOver DEF OutboxInv
  <2>2. CASE object[Item(p)] # "other"
    <3>1. Goto(p, "sendTarget") /\ "sendTarget" \in Calls
      BY <2>2 DEF PutObject, Calls
    <3>2. object'[Item(p)] = "own"
      BY <1>0, <1>1, <2>2
    <3> QED BY <1>0, <1>2, <3>1, <3>2, NextCall
  <2> QED BY <2>1, <2>2
<1>4. OutboxTypeOK'
  BY <1>0, <1>2, <1>3 DEF OutboxInv, OutboxTypeOK
<1> QED BY <1>0, <1>2, <1>3, <1>4, PathStep

LEMMA SendTargetInv ==
    ASSUME OutboxInv, NEW p \in Paths, SendTarget(p) PROVE OutboxInv'
<1>0. /\ sent' = sent \union {<<Item(p), "target">>} /\ Goto(p, "sendRouted")
      /\ UNCHANGED <<row, index, stream, trimmed, object, faults>>
      /\ job[p].pc \in Calls /\ "sendRouted" \in Calls
  BY DEF SendTarget, Calls
<1>1. Item(p) \in Events /\ Item(p) = Head(job[p].todo)
  BY <1>0, ItemAtHand
<1>2. sent' \subseteq Events \X Queues /\ Advances
  BY <1>0, <1>1 DEF OutboxInv, OutboxTypeOK, Advances, Queues
<1>3. object'[Item(p)] = "own"
  BY <1>0, <1>1 DEF OutboxInv, Prepared, SendTarget
<1>4. /\ job' \in [Paths -> Job] /\ Prepared(p)' /\ Accounted'
      /\ \A q \in Paths \ {p} : job'[q] = job[q]
  BY <1>0, <1>2, <1>3, NextCall
<1>5. OutboxTypeOK'
  BY <1>0, <1>2, <1>4 DEF OutboxInv, OutboxTypeOK
<1> QED BY <1>0, <1>2, <1>4, <1>5, PathStep

LEMMA SendRoutedInv ==
    ASSUME OutboxInv, NEW p \in Paths, SendRouted(p) PROVE OutboxInv'
<1>0. /\ sent' = sent \union {<<Item(p), Route(Item(p))>>} /\ Goto(p, "mark")
      /\ UNCHANGED <<row, index, stream, trimmed, object, faults>>
      /\ job[p].pc \in Calls /\ "mark" \in Calls
  BY DEF SendRouted, Calls
<1>1. Item(p) \in Events /\ Item(p) = Head(job[p].todo)
  BY <1>0, ItemAtHand
<1>2. sent' \subseteq Events \X Queues /\ Advances
  BY <1>0, <1>1 DEF OutboxInv, OutboxTypeOK, Advances, Queues, Route
<1>3. object'[Item(p)] = "own" /\ <<Item(p), "target">> \in sent'
  BY <1>0, <1>1 DEF OutboxInv, Prepared, SendRouted
<1>4. /\ job' \in [Paths -> Job] /\ Prepared(p)' /\ Accounted'
      /\ \A q \in Paths \ {p} : job'[q] = job[q]
  BY <1>0, <1>2, <1>3, NextCall
<1>5. OutboxTypeOK'
  BY <1>0, <1>2, <1>4 DEF OutboxInv, OutboxTypeOK
<1> QED BY <1>0, <1>2, <1>4, <1>5, PathStep

LEMMA MarkDeliveredInv ==
    ASSUME OutboxInv, NEW p \in Paths, MarkDelivered(p) PROVE OutboxInv'
<1>0. /\ row' = (IF row[Item(p)] = "outbox" THEN [row EXCEPT ![Item(p)] = "outbox-delivered"]
                                            ELSE row)
      /\ UNCHANGED <<index, stream, trimmed, object, sent, faults>>
      /\ row \in [Events -> RowStates] /\ job[p].pc \in Calls
  BY DEF OutboxInv, OutboxTypeOK, MarkDelivered, Calls
<1>1. Item(p) \in Events /\ row[Item(p)] \in {"outbox", "outbox-delivered"}
  BY <1>0, ItemAtHand
<1>2. /\ row' \in [Events -> RowStates] /\ Advances /\ row'[Item(p)] = "outbox-delivered"
      /\ \A e \in Events : row[e] = "absent" => row'[e] = "absent"
  BY <1>0, <1>1 DEF Advances, RowStates
<1>3. NextItem(p, FALSE)
  BY <1>1 DEF MarkDelivered
<1>4. /\ job' \in [Paths -> Job] /\ Prepared(p)' /\ Accounted'
      /\ \A q \in Paths \ {p} : job'[q] = job[q]
  BY <1>0, <1>2, <1>3, ItemOver DEF OutboxInv
<1>5. OutboxTypeOK'
  BY <1>0, <1>2, <1>4 DEF OutboxInv, OutboxTypeOK
<1> QED BY <1>0, <1>2, <1>4, <1>5, PathStep

LEMMA CallFailsInv ==
    ASSUME OutboxInv, NEW p \in Paths, CallFails(p) PROVE OutboxInv'
<1>0. /\ row' = row \/ (row[Item(p)] = "outbox" /\ row' = [row EXCEPT ![Item(p)] = "outbox-delivered"])
      /\ UNCHANGED <<index, stream, trimmed, object, sent>> /\ faults' = faults + 1
      /\ row \in [Events -> RowStates] /\ job[p].pc \in Calls /\ NextItem(p, TRUE)
  <2>1. row' = row \/ (row[Item(p)] = "outbox" /\ row' = [row EXCEPT ![Item(p)] = "outbox-delivered"])
    BY DEF CallFails
  <2> QED BY <2>1 DEF OutboxInv, OutboxTypeOK, CallFails
<1>1. Item(p) \in Events
  BY <1>0, ItemAtHand
<1>2. /\ row' \in [Events -> RowStates] /\ Advances
      /\ \A e \in Events : row[e] = "absent" => row'[e] = "absent"
  BY <1>0, <1>1 DEF Advances, RowStates
<1>3. /\ job' \in [Paths -> Job] /\ Prepared(p)' /\ Accounted'
      /\ \A q \in Paths \ {p} : job'[q] = job[q]
  BY <1>0, <1>2, ItemOver DEF OutboxInv
<1>4. OutboxTypeOK'
  BY <1>0, <1>2, <1>3 DEF OutboxInv, OutboxTypeOK
<1> QED BY <1>0, <1>2, <1>3, <1>4, PathStep

(***************************************************************************)
(* The beginning and the end of an invocation.                             *)
(***************************************************************************)
LEMMA IdleInv ==
    ASSUME OutboxInv, NEW p \in Paths, job' = [job EXCEPT ![p] = Idle], faults' \in Nat,
           UNCHANGED <<row, index, stream, trimmed, object, sent>>
    PROVE  OutboxInv'
<1>1. /\ job' \in [Paths -> Job] /\ job'[p] = Idle /\ \A q \in Paths \ {p} : job'[q] = job[q]
  BY Replaced, IdleIsPrepared DEF OutboxInv
<1>2. Advances
  BY DEF Advances
<1>3. Prepared(p)'
  BY <1>1, IdleIsPrepared
<1>4. Accounted'
  <2>1. CASE p = "stream"
    BY <1>1, <2>1, IdleIsPrepared
  <2>2. CASE p # "stream"
    BY <1>1, <1>2, <2>2, AccountedKept DEF OutboxInv, Paths
  <2> QED BY <2>1, <2>2
<1>5. OutboxTypeOK'
  BY <1>1 DEF OutboxInv, OutboxTypeOK
<1> QED BY <1>1, <1>2, <1>3, <1>4, <1>5, PathStep

LEMMA BeginInv ==
    ASSUME OutboxInv, NEW p \in Paths, NEW items \in Seq(Events), NEW batch \in Seq(Events),
           Begin(p, items, batch), p = "stream" => items = batch,
           Written(items), UNCHANGED <<row, index, stream, trimmed, object, sent, faults>>
    PROVE  OutboxInv'
<1> DEFINE n == [pc |-> FirstCall(items), batch |-> batch, todo |-> items, failed |-> {}]
<1>1. n \in Job /\ n.pc = FirstCall(items) /\ n.todo = items /\ n.batch = batch
  BY DEF Job, FirstCall, Calls
<1>2. /\ job' \in [Paths -> Job] /\ job'[p] = n /\ \A q \in Paths \ {p} : job'[q] = job[q]
  <2>1. job' = [job EXCEPT ![p] = n]
    BY DEF Begin
  <2> HIDE DEF n
  <2> QED BY <1>1, <2>1, Replaced DEF OutboxInv
<1>3. Advances
  BY DEF Advances
<1>4. Prepared(p)'
  <2>1. n.pc \in {"put", "done"} /\ (n.pc \in Calls <=> items # <<>>)
    BY <1>1 DEF FirstCall, Calls
  <2>2. \A i \in 1..Len(items) : row'[items[i]] # "absent"
    BY DEF Written
  <2> HIDE DEF n
  <2> QED BY <1>1, <1>2, <2>1, <2>2 DEF Prepared, Written
<1>5. Accounted'
  <2>1. CASE p = "stream"
    <3>1. job'["stream"].todo = batch /\ job'["stream"].batch = batch
      BY <1>1, <1>2, <2>1
    <3>2. Len(batch) \in Nat /\ Len(batch) - Len(batch) = 0 /\ 1..0 = {}
          /\ \A i \in 1..Len(batch) : 0 + i = i
      OBVIOUS
    <3> QED BY <3>1, <3>2 DEF Accounted
  <2>2. CASE p # "stream"
    BY <1>2, <1>3, <2>2, AccountedKept DEF OutboxInv, Paths
  <2> QED BY <2>1, <2>2
<1>6. OutboxTypeOK'
  BY <1>2 DEF OutboxInv, OutboxTypeOK
<1> QED BY <1>2, <1>3, <1>4, <1>5, <1>6, PathStep

LEMMA StreamInvokeInv ==
    ASSUME OutboxInv, StreamInvoke PROVE OutboxInv'
<1>1. PICK n \in 1..Len(stream) : Begin("stream", SubSeq(stream, 1, n), SubSeq(stream, 1, n))
  BY DEF StreamInvoke
<1> DEFINE batch == SubSeq(stream, 1, n)
<1>2. stream \in Seq(Events) /\ Len(stream) \in Nat /\ Written(stream)
  BY DEF OutboxInv, OutboxTypeOK
<1>3. batch \in Seq(Events) /\ Len(batch) = n /\ \A i \in 1..n : batch[i] = stream[i]
  BY <1>2
<1>4. Written(batch)
  BY <1>2, <1>3 DEF Written
<1> HIDE DEF batch
<1>5. Begin("stream", batch, batch) /\ "stream" \in Paths
      /\ UNCHANGED <<row, index, stream, trimmed, object, sent, faults>>
  BY <1>1 DEF batch, StreamInvoke, Paths
<1> QED BY <1>3, <1>4, <1>5, BeginInv

LEMMA ReplayInvokeInv ==
    ASSUME OutboxInv, ReplayInvoke PROVE OutboxInv'
<1>1. PICK n \in 1..ReplayBatch : \E page \in [1..n -> index] : Begin("replay", page, <<>>)
  BY DEF ReplayInvoke
<1>2. PICK page \in [1..n -> index] : Begin("replay", page, <<>>)
  BY <1>1
<1>3. /\ n \in Nat /\ index \subseteq Events /\ \A e \in index : row[e] # "absent"
  BY OutboxAssumption DEF OutboxInv, OutboxTypeOK
<1>4. page \in Seq(Events) /\ Len(page) = n
  BY <1>3
<1>5. Written(page)
  BY <1>3, <1>4 DEF Written
<1>6. /\ "replay" \in Paths /\ "replay" # "stream" /\ <<>> \in Seq(Events)
      /\ UNCHANGED <<row, index, stream, trimmed, object, sent, faults>>
  BY DEF ReplayInvoke, Paths
<1> QED BY <1>2, <1>4, <1>5, <1>6, BeginInv

(***************************************************************************)
(* The checkpoint: what leaves the stream stood in the batch before every  *)
(* failure, so its row is delivered.                                       *)
(***************************************************************************)
LEMMA StreamReturnsInv ==
    ASSUME OutboxInv, StreamReturns PROVE OutboxInv'
<1> DEFINE k == job["stream"]
           batch == k.batch
           bad == {i \in 1..Len(batch) : batch[i] \in Reported(k.failed)}
           good == {batch[i] : i \in {j \in 1..Len(batch) : \A b \in bad : j < b}}
<1>0. /\ k.pc = "done" /\ job' = [job EXCEPT !["stream"] = Idle]
      /\ UNCHANGED <<row, index, trimmed, object, sent, faults>>
      /\ "stream" \in Paths /\ stream \in Seq(Events) /\ Len(stream) \in Nat
      /\ batch \in Seq(Events) /\ Len(batch) \in Nat
  BY DEF StreamReturns, OutboxInv, OutboxTypeOK, Job, Paths
<1>1. PICK n \in 0..Len(stream) :
        /\ \A i \in 1..Len(stream) : stream[i] \in good <=> i <= n
        /\ stream' = SubSeq(stream, n + 1, Len(stream))
  BY DEF StreamReturns
<1>2. \A e \in good : row[e] = "outbox-delivered"
  <2>1. k.todo = <<>> /\ Len(k.todo) = 0
    <3>1. Prepared("stream") /\ k.pc \notin Calls
      BY <1>0 DEF OutboxInv, Calls
    <3> QED BY <3>1 DEF Prepared
  <2>2. \A i \in 1..Len(batch) : batch[i] \in k.failed \/ row[batch[i]] = "outbox-delivered"
    <3>1. Len(k.batch) - Len(k.todo) = Len(batch)
      BY <1>0, <2>1
    <3> QED BY <3>1 DEF OutboxInv, Accounted
  <2>3. \A j \in 1..Len(batch) : (\A b \in bad : j < b) => batch[j] \notin k.failed
    <3> SUFFICES ASSUME NEW j \in 1..Len(batch), \A b \in bad : j < b, batch[j] \in k.failed
                 PROVE  FALSE
      OBVIOUS
    <3>1. j \in bad
      BY DEF Reported
    <3>2. j < j /\ j \in Int
      BY <3>1
    <3> QED BY <3>2
  <2> HIDE DEF k
  <2> QED BY <2>2, <2>3
<1> HIDE DEF good
<1>3. /\ stream' \in Seq(Events) /\ Len(stream') = Len(stream) - n
      /\ \A i \in 1..Len(stream) - n : stream'[i] = stream[n + i] /\ n + i \in 1..Len(stream)
  BY <1>0, <1>1
<1>4. Written(stream)'
  BY <1>0, <1>3 DEF OutboxInv, Written
<1>5. /\ job' \in [Paths -> Job] /\ job'["stream"] = Idle
      /\ \A q \in Paths \ {"stream"} : job'[q] = job[q]
  BY <1>0, Replaced, IdleIsPrepared DEF OutboxInv
<1>6. Advances
  BY <1>0 DEF Advances
<1>7. \A p \in Paths : Prepared(p)'
  BY <1>5, <1>6, IdleIsPrepared, PreparedKept DEF OutboxInv
<1>8. Accounted'
  BY <1>5, IdleIsPrepared
<1>9. CheckpointMeansDelivered'
  <2>1. \A i \in 1..Len(stream) : row[stream[i]] = "outbox-delivered" \/ stream[i] \in ToSet(stream')
    <3> SUFFICES ASSUME NEW i \in 1..Len(stream), i > n PROVE stream[i] \in ToSet(stream')
      BY <1>0, <1>1, <1>2
    <3>1. i - n \in 1..Len(stream) - n /\ n + (i - n) = i
      BY <1>0, <1>1
    <3>2. stream'[i - n] = stream[i] /\ i - n \in DOMAIN stream'
      BY <1>3, <3>1
    <3> QED BY <3>2 DEF ToSet
  <2>2. DOMAIN stream = 1..Len(stream)
    BY <1>0
  <2>3. \A e \in ToSet(stream) : row[e] = "outbox-delivered" \/ e \in ToSet(stream')
    BY <2>1, <2>2 DEF ToSet
  <2> QED BY <1>0, <2>3 DEF OutboxInv, CheckpointMeansDelivered
<1>10. OutboxTypeOK'
  BY <1>0, <1>3, <1>5 DEF OutboxInv, OutboxTypeOK
<1>11. \A e \in index' : row'[e] # "absent"
  BY <1>0 DEF OutboxInv
<1> QED BY <1>4, <1>7, <1>8, <1>9, <1>10, <1>11 DEF OutboxInv

LEMMA OutboxInvInit == OutboxInit => OutboxInv
<1> SUFFICES ASSUME OutboxInit PROVE OutboxInv
  OBVIOUS
<1>1. Idle \in Job
  BY IdleIsPrepared
<1>2. OutboxTypeOK
  <2>1. stream \in Seq(Events) /\ index \subseteq Events /\ trimmed \subseteq Events
        /\ sent \subseteq Events \X Queues /\ faults \in Nat
    BY DEF OutboxInit
  <2>2. row \in [Events -> RowStates] /\ object \in [Events -> {"none", "own", "other"}]
    BY DEF OutboxInit, RowStates
  <2>3. job \in [Paths -> Job]
    BY <1>1 DEF OutboxInit
  <2> QED BY <2>1, <2>2, <2>3 DEF OutboxTypeOK
<1>3. /\ \A p \in Paths : job[p] = Idle
      /\ stream = <<>> /\ Len(stream) = 0 /\ index = {}
      /\ \A e \in Events : row[e] = "absent"
  BY DEF OutboxInit
<1>4. /\ Idle.pc = "idle" /\ Idle.todo = <<>> /\ Idle.batch = <<>> /\ Len(Idle.todo) = 0
      /\ Len(Idle.batch) = 0
  BY DEF Idle
<1>5. \A p \in Paths : Prepared(p)
  BY <1>3, <1>4 DEF Prepared, Written, Calls
<1>6. Accounted
  <2>1. /\ job["stream"].batch = <<>> /\ job["stream"].todo = <<>>
        /\ Len(job["stream"].batch) - Len(job["stream"].todo) = 0 /\ 1..0 = {}
    BY <1>3, <1>4 DEF Paths
  <2>2. Len(job["stream"].todo) = 0
    BY <2>1
  <2> QED BY <2>1, <2>2 DEF Accounted
<1>7. Written(stream) /\ CheckpointMeansDelivered
  BY <1>3 DEF Written, CheckpointMeansDelivered
<1> QED BY <1>2, <1>3, <1>5, <1>6, <1>7 DEF OutboxInv

LEMMA OutboxInvStep == OutboxInv /\ [OutboxNext]_outboxVars => OutboxInv'
<1> SUFFICES ASSUME OutboxInv, [OutboxNext]_outboxVars PROVE OutboxInv'
  OBVIOUS
<1>1. ASSUME NEW e \in Events, WriteRow(e) \/ IndexFollows(e) PROVE OutboxInv'
  BY <1>1, WriteRowInv, IndexFollowsInv
<1>2. CASE StreamTrims
  BY <1>2, StreamTrimsInv
<1>3. ASSUME NEW p \in Paths, Dispatch(p) PROVE OutboxInv'
  BY <1>3, PutObjectInv, SendTargetInv, SendRoutedInv, MarkDeliveredInv DEF Dispatch
<1>4. ASSUME NEW p \in Paths, CallFails(p) PROVE OutboxInv'
  BY <1>4, CallFailsInv
<1>5. ASSUME NEW p \in Paths, InvocationLost(p) PROVE OutboxInv'
  <2>1. faults' \in Nat
    BY <1>5 DEF InvocationLost, OutboxInv, OutboxTypeOK
  <2> QED BY <1>5, <2>1, IdleInv DEF InvocationLost
<1>6. CASE StreamInvoke
  BY <1>6, StreamInvokeInv
<1>7. CASE StreamReturns
  BY <1>7, StreamReturnsInv
<1>8. CASE ReplayInvoke
  BY <1>8, ReplayInvokeInv
<1>9. CASE ReplayReturns
  <2>1. "replay" \in Paths /\ faults' \in Nat
    BY <1>9 DEF ReplayReturns, OutboxInv, OutboxTypeOK, Paths
  <2> QED BY <1>9, <2>1, IdleInv DEF ReplayReturns
<1>10. CASE UNCHANGED outboxVars
  <2> USE <1>10 DEF outboxVars
  <2>1. OutboxTypeOK'
    BY DEF OutboxInv, OutboxTypeOK
  <2>2. Written(stream)' /\ CheckpointMeansDelivered' /\ Accounted'
    BY DEF OutboxInv, Written, CheckpointMeansDelivered, Accounted
  <2>3. \A p \in Paths : Prepared(p)'
    BY DEF OutboxInv, Prepared, Written
  <2> QED BY <2>1, <2>2, <2>3 DEF OutboxInv
<1> QED BY <1>1, <1>2, <1>3, <1>4, <1>5, <1>6, <1>7, <1>8, <1>9, <1>10 DEF OutboxNext

(* Rows, stream, objects and invocations stay well-typed, and of every row *)
(* whose record partial_batch has let the stream checkpoint, the object is *)
(* stored and the messages sent: a row is given up only by trimming.       *)
THEOREM OutboxDelivers == OutboxSpec => [](OutboxTypeOK /\ CheckpointMeansDelivered)
<1>1. OutboxInv => OutboxTypeOK /\ CheckpointMeansDelivered
  BY DEF OutboxInv
<1> QED BY <1>1, OutboxInvInit, OutboxInvStep, PTL DEF OutboxSpec

(***************************************************************************)
(* The refinement of the event channel, action by action.                  *)
(***************************************************************************)
LEMMA WriteRowAccepts ==
    ASSUME OutboxInv, NEW e \in Events, WriteRow(e) PROVE Channel!Accept(e)
<1>1. /\ row \in [Events -> RowStates] /\ row[e] = "absent" /\ row' = [row EXCEPT ![e] = "outbox"]
      /\ UNCHANGED <<object, sent>>
  BY DEF OutboxInv, OutboxTypeOK, WriteRow
<1>2. {d \in Events : row'[d] # "absent"} = {d \in Events : row[d] # "absent"} \union {e}
  BY <1>1
<1>3. {d \in Events : row'[d] = "outbox-delivered"} = {d \in Events : row[d] = "outbox-delivered"}
  BY <1>1
<1> QED BY <1>1, <1>2, <1>3 DEF Channel!Accept

LEMMA PutMakesReadable ==
    ASSUME OutboxInv, NEW p \in Paths, PutObject(p)
    PROVE  Channel!MakeReadable(Item(p)) \/ UNCHANGED Channel!channelVars
<1>0. /\ object' = (IF object[Item(p)] = "none" THEN [object EXCEPT ![Item(p)] = "own"] ELSE object)
      /\ UNCHANGED <<row, sent>>
      /\ object \in [Events -> {"none", "own", "other"}] /\ job[p].pc \in Calls
  BY DEF OutboxInv, OutboxTypeOK, PutObject, Calls
<1>1. Item(p) \in Events /\ row[Item(p)] # "absent"
  BY <1>0, ItemAtHand
<1>2. CASE object[Item(p)] = "none"
  <2>1. {d \in Events : object'[d] = "own"} = {d \in Events : object[d] = "own"} \union {Item(p)}
    BY <1>0, <1>1, <1>2
  <2> QED BY <1>0, <1>1, <2>1 DEF Channel!MakeReadable
<1>3. CASE object[Item(p)] # "none"
  BY <1>0, <1>3 DEF Channel!channelVars
<1> QED BY <1>2, <1>3

LEMMA SendAnnounces ==
    ASSUME OutboxInv, NEW p \in Paths, SendTarget(p) \/ SendRouted(p)
    PROVE  \E q \in Queues : Channel!Announce(Item(p), q)
<1>0. /\ job[p].pc \in Calls /\ UNCHANGED <<row, object>>
      /\ job[p].pc \in {"sendTarget", "sendRouted"}
  BY DEF SendTarget, SendRouted, Calls
<1>1. Item(p) \in Events /\ object[Item(p)] = "own"
  BY <1>0, ItemAtHand DEF OutboxInv, Prepared
<1>2. CASE SendTarget(p)
  <2>1. "target" \in Queues /\ sent' = sent \union {<<Item(p), "target">>}
    BY <1>2 DEF SendTarget, Queues
  <2>2. Channel!Announce(Item(p), "target")
    BY <1>0, <1>1, <2>1 DEF Channel!Announce
  <2> QED BY <2>1, <2>2
<1>3. CASE SendRouted(p)
  <2>1. Route(Item(p)) \in Queues /\ sent' = sent \union {<<Item(p), Route(Item(p))>>}
    BY <1>3 DEF SendRouted, Queues, Route
  <2>2. Channel!Announce(Item(p), Route(Item(p)))
    BY <1>0, <1>1, <2>1 DEF Channel!Announce, Route
  <2> QED BY <2>1, <2>2
<1> QED BY <1>2, <1>3

(* The mark of an item whose three earlier calls have succeeded, whether   *)
(* its answer arrives or not.                                              *)
LEMMA MarkSettles ==
    ASSUME OutboxInv, NEW p \in Paths, job[p].pc = "mark",
           row' = [row EXCEPT ![Item(p)] = "outbox-delivered"], UNCHANGED <<object, sent>>
    PROVE  Channel!Settle(Item(p))
<1>0. row \in [Events -> RowStates] /\ job[p].pc \in Calls
  BY DEF OutboxInv, OutboxTypeOK, Calls
<1>1. Item(p) \in Events /\ row[Item(p)] # "absent" /\ Item(p) = Head(job[p].todo)
  BY <1>0, ItemAtHand
<1>2. <<Item(p), "target">> \in sent /\ <<Item(p), Route(Item(p))>> \in sent
  BY <1>1 DEF OutboxInv, Prepared
<1>3. {d \in Events : row'[d] # "absent"} = {d \in Events : row[d] # "absent"}
  BY <1>0, <1>1
<1>4. {d \in Events : row'[d] = "outbox-delivered"}
        = {d \in Events : row[d] = "outbox-delivered"} \union {Item(p)}
  BY <1>0, <1>1
<1> QED BY <1>1, <1>2, <1>3, <1>4 DEF Channel!Settle, Route

(* The item at hand witnesses the step of the channel.                     *)
LEMMA Witnessed ==
    ASSUME NEW p \in Paths, Item(p) \in Events,
           Channel!MakeReadable(Item(p)) \/ Channel!Settle(Item(p))
    PROVE  Channel!ChannelNext
<1>1. PICK e \in Events : e = Item(p)
  OBVIOUS
<1>2. Channel!MakeReadable(e) \/ Channel!Settle(e)
  BY <1>1 DEF Channel!MakeReadable, Channel!Settle
<1> QED BY <1>2 DEF Channel!ChannelNext

LEMMA ChannelStep ==
    OutboxInv /\ [OutboxNext]_outboxVars => [Channel!ChannelNext]_(Channel!channelVars)
<1> SUFFICES ASSUME OutboxInv, [OutboxNext]_outboxVars
             PROVE  Channel!ChannelNext \/ UNCHANGED Channel!channelVars
  OBVIOUS
<1>1. ASSUME NEW e \in Events, WriteRow(e) PROVE Channel!ChannelNext
  BY <1>1, WriteRowAccepts DEF Channel!ChannelNext
<1>2. ASSUME UNCHANGED <<row, object, sent>> PROVE UNCHANGED Channel!channelVars
  BY <1>2 DEF Channel!channelVars
<1>3. ASSUME NEW p \in Paths, job[p].pc \in Calls PROVE Item(p) \in Events
  BY <1>3, ItemAtHand
<1>4. ASSUME NEW p \in Paths, Dispatch(p)
      PROVE  Channel!ChannelNext \/ UNCHANGED Channel!channelVars
  <2>1. Item(p) \in Events
    BY <1>3, <1>4 DEF Dispatch, PutObject, SendTarget, SendRouted, MarkDelivered, Calls
  <2>2. CASE PutObject(p)
    <3>1. Channel!MakeReadable(Item(p)) => Channel!ChannelNext
      BY <2>1, Witnessed
    <3> QED BY <2>2, <3>1, PutMakesReadable
  <2>3. CASE SendTarget(p) \/ SendRouted(p)
    BY <2>1, <2>3, SendAnnounces DEF Channel!ChannelNext
  <2>4. CASE MarkDelivered(p) /\ row[Item(p)] = "outbox"
    <3>1. /\ job[p].pc = "mark" /\ row' = [row EXCEPT ![Item(p)] = "outbox-delivered"]
          /\ UNCHANGED <<object, sent>>
      BY <2>4 DEF MarkDelivered
    <3>2. Channel!Settle(Item(p))
      BY <3>1, MarkSettles
    <3> QED BY <2>1, <3>2, Witnessed
  <2>5. CASE MarkDelivered(p) /\ row[Item(p)] # "outbox"
    BY <1>2, <2>5 DEF MarkDelivered
  <2> QED BY <1>4, <2>2, <2>3, <2>4, <2>5 DEF Dispatch
<1>5. ASSUME NEW p \in Paths, CallFails(p)
      PROVE  Channel!ChannelNext \/ UNCHANGED Channel!channelVars
  <2>1. Item(p) \in Events /\ UNCHANGED <<object, sent>>
    BY <1>3, <1>5 DEF CallFails
  <2>2. row' = row \/ (job[p].pc = "mark" /\ row' = [row EXCEPT ![Item(p)] = "outbox-delivered"])
    BY <1>5 DEF CallFails
  <2>3. CASE row' = row
    BY <1>2, <2>1, <2>3
  <2>4. CASE job[p].pc = "mark" /\ row' = [row EXCEPT ![Item(p)] = "outbox-delivered"]
    <3>1. Channel!Settle(Item(p))
      BY <2>1, <2>4, MarkSettles
    <3> QED BY <2>1, <3>1, Witnessed
  <2> QED BY <2>2, <2>3, <2>4
<1>6. ASSUME NEW e \in Events, IndexFollows(e) PROVE UNCHANGED <<row, object, sent>>
  BY <1>6 DEF IndexFollows
<1>7. ASSUME NEW p \in Paths, InvocationLost(p) PROVE UNCHANGED <<row, object, sent>>
  BY <1>7 DEF InvocationLost
<1>8. StreamTrims \/ StreamInvoke \/ StreamReturns \/ ReplayInvoke \/ ReplayReturns
        \/ UNCHANGED outboxVars => UNCHANGED <<row, object, sent>>
  BY DEF StreamTrims, StreamInvoke, StreamReturns, ReplayInvoke, ReplayReturns, outboxVars
<1> QED BY <1>1, <1>2, <1>4, <1>5, <1>6, <1>7, <1>8 DEF OutboxNext

(* The stream path and the replay path of dispatch_record, interleaved,    *)
(* failing and dying as they may, implement the channel: no message names  *)
(* an object that cannot be read, and no row is marked before its messages *)
(* are sent.                                                               *)
THEOREM OutboxImplementsChannel == OutboxSpec => ImplementsChannel
<1>1. OutboxInit => Channel!ChannelInit
  BY DEF OutboxInit, Channel!ChannelInit
<1> QED BY <1>1, OutboxInvInit, OutboxInvStep, ChannelStep, PTL
        DEF OutboxSpec, ImplementsChannel, Channel!ChannelSpec
=============================================================================
