----------------------------- MODULE MemoryPipeline -----------------------------
(***************************************************************************)
(* The memory worker: one consumer of fact_extraction_queue that reads the *)
(* latest checkpoint of the task's thread, extracts facts from its last    *)
(* messages and stores each one under a fresh id.                          *)
(*                                                                         *)
(* The consumer holds one unacknowledged delivery at a time (prefetch 1).  *)
(* RabbitMQ puts an unacknowledged delivery of a lost connection back at   *)
(* the head of its queue, and a rejected one into the dead letter queue.   *)
(***************************************************************************)
EXTENDS Conversation

CONSTANT MaxCrashes   \* bound: crashes of the worker

ASSUME MemoryAssumption == MaxCrashes \in Nat

VARIABLES
  worker,    \* the delivery in hand and what was extracted from it
  facts,     \* copies of the fact of each request's prompt in long_term_memory
  dlq,       \* fact_extraction_dlq
  acked,     \* acknowledged tasks
  crashes

memoryVars == <<worker, facts, dlq, acked, crashes>>

-----------------------------------------------------------------------------
\* last: the latest prompt in the checkpoint that was read;  shown: the requests
\* whose prompts the extractor was given;  found: those with facts left to store.
Resting == [at |-> "idle", task |-> None, last |-> None, shown |-> {}, found |-> {}]

Window_Two == 2
Window_Three == 3
Window == 4

\* valid_messages[-4:]
Windowed(ms) == SubSeq(ms, IF Len(ms) > Window THEN Len(ms) - Window + 1 ELSE 1, Len(ms))

\* The requests whose prompt the extractor is shown.
Prompted(ms) == {r \in Requests : Contains(Windowed(ms), Human(r))}

MemoryInit ==
  /\ worker = Resting
  /\ facts = [r \in Requests |-> 0]
  /\ dlq = {}
  /\ acked = {}
  /\ crashes = 0

Deliver ==
  /\ worker.at = "idle"
  /\ mq # <<>>
  /\ mq' = Tail(mq)
  /\ worker' = [Resting EXCEPT !.at = "delivered", !.task = Head(mq)]
  /\ UNCHANGED <<history, facts, dlq, acked, crashes>>

\* aget_state of the thread's latest checkpoint, which may be in the middle of a
\* later turn.  Without messages there is nothing to extract.
ReadCheckpoint ==
  /\ worker.at = "delivered"
  /\ LET ms == history[worker.task.thread]
     IN  IF ms = <<>>
         THEN worker' = [worker EXCEPT !.at = "done"]
         ELSE worker' = [worker EXCEPT !.at = "extract", !.shown = Prompted(ms),
                                       !.last = ms[LastHuman(ms)].turn]
  /\ UNCHANGED <<shared, facts, dlq, acked, crashes>>

\* FactExtractor.extract: the facts the model finds in the prompts it is shown,
\* none of them when both of its answers are unusable.
Extract ==
  /\ worker.at = "extract"
  /\ \E found \in SUBSET worker.shown :
       worker' = [worker EXCEPT !.at = IF found = {} THEN "done" ELSE "store", !.found = found]
  /\ UNCHANGED <<shared, facts, dlq, acked, crashes>>

\* MemoryService.add_fact: a new id for every fact; a failure is only logged.
StoreFact(r) == facts' \in {facts, [facts EXCEPT ![r] = @ + 1]}

\* process_extraction_task hands the facts over one by one.
AddFact ==
  /\ worker.at = "store"
  /\ \E r \in worker.found :
       /\ StoreFact(r)
       /\ worker' = [worker EXCEPT !.found = @ \ {r},
                       !.at = IF worker.found = {r} THEN "done" ELSE @]
  /\ UNCHANGED <<shared, dlq, acked, crashes>>

\* A delivery that was not settled goes back to the head of its queue.
Requeue_Dropped == mq
Requeue == <<worker.task>> \o mq

Acknowledge_Redelivered ==
  /\ worker.at = "done"
  /\ mq' = Requeue
  /\ worker' = Resting
  /\ UNCHANGED <<history, facts, dlq, acked, crashes>>

Acknowledge ==
  /\ worker.at = "done"
  /\ acked' = acked \cup {worker.task}
  /\ worker' = Resting
  /\ UNCHANGED <<shared, facts, dlq, crashes>>

Reject_Requeues ==
  /\ worker.at = "delivered"
  /\ mq' = Requeue
  /\ worker' = Resting
  /\ UNCHANGED <<history, facts, dlq, acked, crashes>>

\* Only the checkpoint can fail here: everything below swallows its exceptions.
Reject ==
  /\ worker.at = "delivered"
  /\ dlq' = dlq \cup {worker.task}
  /\ worker' = Resting
  /\ UNCHANGED <<shared, facts, acked, crashes>>

Crash ==
  /\ crashes < MaxCrashes
  /\ crashes' = crashes + 1
  /\ worker.at # "idle"
  /\ mq' = Requeue
  /\ worker' = Resting
  /\ UNCHANGED <<history, facts, dlq, acked>>

-----------------------------------------------------------------------------
WorkerStep == Deliver \/ ReadCheckpoint \/ Extract \/ AddFact \/ Acknowledge \/ Reject

MemoryStep == WorkerStep \/ Crash

MemoryFairness == WF_<<shared, memoryVars>>(WorkerStep)
=============================================================================
