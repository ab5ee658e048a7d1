--------------------------- MODULE OutboxDelivery ---------------------------
(***************************************************************************)
(* The outbox Lambda (inventory/handlers/outbox.py): rows written with the *)
(* target state leave the table by two paths, the DynamoDB stream and a    *)
(* scheduled replay over an index of the rows that are still pending.      *)
(* Both run dispatch_record, whose calls to S3, SQS and DynamoDB are steps *)
(* that can interleave, fail, or take effect and lose their answer.        *)
(***************************************************************************)
EXTENDS Naturals, Sequences, SequencesExt

CONSTANTS
    Events,       \* event ids; numbers, because the index is ordered by id
    Coverage,     \* events whose scan reason is coverage
    Poison,       \* rows dispatch_record always refuses: the object key already
                  \* holds another payload (or the row is malformed, which
                  \* raises just as early and changes just as little)
    StreamBatch,  \* records in one stream invocation
    ReplayBatch,  \* outbox_replay_batch_size
    MaxFaults     \* bound on failed calls and lost invocations

ASSUME OutboxAssumption ==
    /\ Events \subseteq Nat
    /\ Coverage \subseteq Events /\ Poison \subseteq Events
    /\ StreamBatch \in Nat \ {0} /\ ReplayBatch \in Nat \ {0} /\ MaxFaults \in Nat

VARIABLES
    row,      \* row[e]: "absent", "outbox" (pending) or "outbox-delivered"
    index,    \* the entity-event-index: a late view of the pending rows
    stream,   \* INSERT records the stream has neither checkpointed nor trimmed
    trimmed,  \* history: events whose record was trimmed unprocessed
    object,   \* object[e]: "none", "own" payload or "other" payload in S3
    sent,     \* <<e, q>>: e was sent to queue q at least once
    job,      \* job[p]: the invocation running on path p
    faults    \* failed calls and lost invocations so far

outboxVars == <<row, index, stream, trimmed, object, sent, job, faults>>

Paths == {"stream", "replay"}
Queues == {"target", "priority", "coverage"}

(* Removals and every scan but a coverage scan are read first.              *)
Route(e) == IF e \in Coverage THEN "coverage" ELSE "priority"

(* One invocation: todo is what is left of its items, pc the next call for  *)
(* Head(todo).  A stream invocation also keeps its batch and the items      *)
(* whose dispatch raised, which it reports; replay only counts failures.    *)
Idle == [pc |-> "idle", batch |-> <<>>, todo |-> <<>>, failed |-> {}]

Calls == {"put", "sendTarget", "sendRouted", "mark"}

OutboxInit ==
    /\ row = [e \in Events |-> "absent"]
    /\ index = {} /\ stream = <<>> /\ trimmed = {}
    /\ object = [e \in Events |-> IF e \in Poison THEN "other" ELSE "none"]
    /\ sent = {}
    /\ job = [p \in Paths |-> Idle]
    /\ faults = 0

----------------------------------------------------------------------------
(* The table and its stream, outside the Lambda.                            *)

(* The transaction of the state store inserts the row.                      *)
WriteRow(e) ==
    /\ row[e] = "absent"
    /\ row' = [row EXCEPT ![e] = "outbox"]
    /\ stream' = Append(stream, e)
    /\ UNCHANGED <<index, trimmed, object, sent, job, faults>>

(* The global secondary index follows the table, row by row, at its pace.   *)
IndexFollows(e) ==
    /\ (e \in index) # (row[e] = "outbox")
    /\ index' = IF row[e] = "outbox" THEN index \union {e} ELSE index \ {e}
    /\ UNCHANGED <<row, stream, trimmed, object, sent, job, faults>>

(* The stream drops a record that was retried for a day.                    *)
StreamTrims ==
    /\ stream # <<>>
    /\ stream' = Tail(stream) /\ trimmed' = trimmed \union {Head(stream)}
    /\ UNCHANGED <<row, index, object, sent, job, faults>>

----------------------------------------------------------------------------
(* One item of a batch.                                                     *)

Item(p) == Head(job[p].todo)

FirstCall(todo) == IF todo = <<>> THEN "done" ELSE "put"

(* The item is over; partial_batch and replay go on with the next one       *)
(* whether it failed or not.                                                *)
NextItem(p, bad) ==
    LET rest == Tail(job[p].todo)
    IN  job' = [job EXCEPT ![p].pc = FirstCall(rest),
                           ![p].todo = rest,
                           ![p].failed = IF bad /\ p = "stream" THEN @ \union {Item(p)}
                                                                ELSE @]

Goto(p, pc) == job' = [job EXCEPT ![p].pc = pc]

(* Mutant: a conflicting object is taken for the event's own.               *)
PutObjectUnverified(p) ==
    /\ job[p].pc = "put"
    /\ object' = IF object[Item(p)] = "none" THEN [object EXCEPT ![Item(p)] = "own"]
                                             ELSE object
    /\ Goto(p, "sendTarget")
    /\ UNCHANGED <<row, index, stream, trimmed, sent, faults>>

(* The row is validated, which has no effect to undo, and its event put     *)
(* with IfNoneMatch; on a conflict the existing object is verified, and one *)
(* that holds another payload raises.                                       *)
PutObject(p) ==
    /\ job[p].pc = "put"
    /\ object' = IF object[Item(p)] = "none" THEN [object EXCEPT ![Item(p)] = "own"]
                                             ELSE object
    /\ IF object[Item(p)] = "other" THEN NextItem(p, TRUE) ELSE Goto(p, "sendTarget")
    /\ UNCHANGED <<row, index, stream, trimmed, sent, faults>>

SendTarget(p) ==
    /\ job[p].pc = "sendTarget"
    /\ sent' = sent \union {<<Item(p), "target">>}
    /\ Goto(p, "sendRouted")
    /\ UNCHANGED <<row, index, stream, trimmed, object, faults>>

SendRouted(p) ==
    /\ job[p].pc = "sendRouted"
    /\ sent' = sent \union {<<Item(p), Route(Item(p))>>}
    /\ Goto(p, "mark")
    /\ UNCHANGED <<row, index, stream, trimmed, object, faults>>

(* _mark_delivered: the update is conditional on the row being pending; a   *)
(* failed condition is settled by a consistent read, which accepts a row    *)
(* the other path has already marked.                                       *)
MarkDelivered(p) ==
    /\ job[p].pc = "mark"
    /\ row' = IF row[Item(p)] = "outbox" THEN [row EXCEPT ![Item(p)] = "outbox-delivered"]
                                         ELSE row
    /\ NextItem(p, row[Item(p)] \notin {"outbox", "outbox-delivered"})
    /\ UNCHANGED <<index, stream, trimmed, object, sent, faults>>

(* A call fails, before or after it took effect.  After the first three     *)
(* calls that is the next call failing before its effect; after the mark    *)
(* the row is delivered and the item still counts as failed.                *)
CallFails(p) ==
    /\ job[p].pc \in Calls /\ faults < MaxFaults
    /\ faults' = faults + 1
    /\ row' \in {row} \union
          IF job[p].pc = "mark" /\ row[Item(p)] = "outbox"
          THEN {[row EXCEPT ![Item(p)] = "outbox-delivered"]} ELSE {}
    /\ NextItem(p, TRUE)
    /\ UNCHANGED <<index, stream, trimmed, object, sent>>

(* The invocation ends without an answer: nothing is checkpointed.          *)
InvocationLost(p) ==
    /\ job[p].pc # "idle" /\ faults < MaxFaults
    /\ faults' = faults + 1
    /\ job' = [job EXCEPT ![p] = Idle]
    /\ UNCHANGED <<row, index, stream, trimmed, object, sent>>

----------------------------------------------------------------------------
(* The stream path.                                                         *)

Begin(p, items, batch) ==
    job' = [job EXCEPT ![p] = [pc |-> FirstCall(items), batch |-> batch,
                               todo |-> items, failed |-> {}]]

(* A batch is at most so long; Lambda may call with fewer records.          *)
StreamInvoke ==
    /\ job["stream"].pc = "idle"
    /\ \E n \in 1..Len(stream) :
          LET batch == SubSeq(stream, 1, n)
          IN  n <= StreamBatch /\ Begin("stream", batch, batch)
    /\ UNCHANGED <<row, index, stream, trimmed, object, sent, faults>>

(* Mutant: the response leaves the failures out.                            *)
ReportedNone(failed) == {}

(* The failures partial_batch reports: every item that raised.              *)
Reported(failed) == failed

(* The records before the first reported failure are checkpointed: of the   *)
(* batch, which was at the head of the stream, all that was not trimmed     *)
(* meanwhile.  The failed one and everything behind it is delivered again.  *)
StreamReturns ==
    /\ job["stream"].pc = "done"
    /\ LET batch == job["stream"].batch
           bad == {i \in 1..Len(batch) : batch[i] \in Reported(job["stream"].failed)}
           good == {batch[i] : i \in {j \in 1..Len(batch) : \A k \in bad : j < k}}
       IN  \E n \in 0..Len(stream) :
              /\ \A i \in 1..Len(stream) : stream[i] \in good <=> i <= n
              /\ stream' = SubSeq(stream, n + 1, Len(stream))
    /\ job' = [job EXCEPT !["stream"] = Idle]
    /\ UNCHANGED <<row, index, trimmed, object, sent, faults>>

----------------------------------------------------------------------------
(* The replay path.                                                         *)

(* Mutant: the page is one row shorter than the poison rows allow.          *)
IsPageOfOne(page) == Len(page) = 1 /\ \A e \in index : page[1] <= e

(* The first rows of the index in event id order, as many as a page holds;  *)
(* there is no second page.                                                 *)
IsPage(page) ==
    /\ \A i, j \in 1..Len(page) : i < j => page[i] < page[j]
    /\ \A e \in index \ ToSet(page) : Len(page) = ReplayBatch /\ page[Len(page)] < e

ReplayInvoke ==
    /\ job["replay"].pc = "idle"
    /\ \E n \in 1..ReplayBatch : \E page \in [1..n -> index] :
          IsPage(page) /\ Begin("replay", page, <<>>)
    /\ UNCHANGED <<row, index, stream, trimmed, object, sent, faults>>

(* replay raises when an item failed, after it has tried all of them; the   *)
(* schedule calls it again in any case.                                     *)
ReplayReturns ==
    /\ job["replay"].pc = "done"
    /\ job' = [job EXCEPT !["replay"] = Idle]
    /\ UNCHANGED <<row, index, stream, trimmed, object, sent, faults>>

----------------------------------------------------------------------------

Dispatch(p) ==
    \/ PutObject(p) \/ SendTarget(p) \/ SendRouted(p) \/ MarkDelivered(p)

OutboxNext ==
    \/ \E e \in Events : WriteRow(e) \/ IndexFollows(e)
    \/ StreamTrims
    \/ \E p \in Paths : Dispatch(p) \/ CallFails(p) \/ InvocationLost(p)
    \/ StreamInvoke \/ StreamReturns \/ ReplayInvoke \/ ReplayReturns

OutboxSpec == OutboxInit /\ [][OutboxNext]_outboxVars

(* The replay rule fires every five minutes, an invocation that is not lost *)
(* runs to its end, and the index catches up.  Nothing is assumed of the    *)
(* stream, which a poison record can hold up until it is trimmed.           *)
FairOutbox ==
    /\ OutboxSpec
    /\ \A e \in Events : WF_outboxVars(IndexFollows(e))
    /\ WF_outboxVars(ReplayInvoke \/ Dispatch("replay") \/ ReplayReturns)

----------------------------------------------------------------------------

(* A record leaves the stream unmarked only by being trimmed: what          *)
(* partial_batch reports holds back the checkpoint, so a row whose record   *)
(* was checkpointed has been delivered by one of the two paths.             *)
CheckpointMeansDelivered ==
    \A e \in Events :
        row[e] # "absent" /\ e \notin ToSet(stream) /\ e \notin trimmed
            => row[e] = "outbox-delivered"

(* A mark left by either path never hides an undelivered event, and a       *)
(* message never names an object that is missing or holds another payload:  *)
(* the two concurrent paths of dispatch_record together implement the       *)
(* channel the parser and the generator rely on.                            *)
Channel ==
    INSTANCE EventChannel WITH
        Subscribed <- [e \in Events |->
                         {"target", IF e \in Coverage THEN "coverage" ELSE "priority"}],
        accepted <- {e \in Events : row[e] # "absent"},
        readable <- {e \in Events : object[e] = "own"},
        announced <- sent,
        settled <- {e \in Events : row[e] = "outbox-delivered"}

ImplementsChannel == Channel!ChannelSpec

(* Every row that can be delivered is, whatever the stream does: a page of  *)
(* the replay has room for a healthy row as long as fewer rows than it      *)
(* holds are poison, and failures of one item do not stop the others.       *)
RowsDelivered ==
    \A e \in Events \ Poison : row[e] = "outbox" ~> row[e] = "outbox-delivered"
=============================================================================
