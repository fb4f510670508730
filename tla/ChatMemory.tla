------------------------------- MODULE ChatMemory -------------------------------
(***************************************************************************)
(* The chat stream and the memory worker together, over the checkpoints    *)
(* and the queue they share, with the properties of both.                  *)
(***************************************************************************)
EXTENDS ChatStream, MemoryPipeline

vars == <<shared, chatVars, memoryVars>>

Init == SharedInit /\ ChatInit /\ MemoryInit

Chat == ChatStep /\ UNCHANGED memoryVars
Memory == MemoryStep /\ UNCHANGED chatVars

Next == Chat \/ Memory

Spec == Init /\ [][Next]_vars

FairSpec == Spec /\ ChatFairness /\ MemoryFairness

-----------------------------------------------------------------------------
Request ==
  [at : {"new", "dropped", "lookup", "start", "graph", "final",
         "after", "cache", "receipt", "closed"},
   thread : Threads \cup {None}, prompt : Prompts \cup {None},
   msgs : Seq(Message), drafts : 0..MaxDrafts,
   text : 0..MaxPieces, sent : 0..MaxPieces, whole : 0..MaxPieces,
   final : BOOLEAN, counted : Nat,
   receipt : 0..MaxPieces, task : {"none", "pending", "published"},
   hub : {"none", "open", "complete"},
   gone : BOOLEAN, stray : BOOLEAN, overlapped : BOOLEAN]

\* The shape of the state.
TypeOK ==
  /\ history \in [Threads -> Seq(Message)]
  /\ mq \in Seq(Tasks)
  /\ req \in [Requests -> Request]
  /\ cache \in [Prompts -> [by : Requests \cup {None}, pieces : 0..MaxPieces]]
  /\ gauge \in [{"http", "grpc"} -> Nat]
  /\ restarts \in 0..MaxRestarts
  /\ worker.at \in {"idle", "delivered", "extract", "store", "done"}
  /\ worker.task \in Tasks \cup {None}
  /\ worker.last \in Requests \cup {None}
  /\ worker.shown \subseteq Requests /\ worker.found \subseteq worker.shown
  /\ facts \in [Requests -> Nat]
  /\ dlq \subseteq Tasks
  /\ acked \subseteq Tasks
  /\ crashes \in 0..MaxCrashes

\* A receipt signs exactly the text its client was sent, which is the whole
\* reply unless the stream saw its gRPC call cancelled (generate_receipt).
ReceiptCoversReply ==
  [][\A r \in Requests : req'[r].receipt # req[r].receipt =>
       /\ req'[r].receipt = req[r].sent
       /\ req[r].sent = req[r].whole \/ (req[r].gone /\ ~req[r].final)]_vars

\* The cache is shared by all users, so a reply cut short must not get there
\* from a stream that failed or was left by its client: only a run that saw its
\* gRPC call cancelled stores one (chat_stream_service.py:314).
CutRepliesWereCancelled ==
  [][\A p \in Prompts : cache'[p] # cache[p] =>
       LET r == cache'[p].by
       IN  cache'[p].pieces = req[r].whole \/ (req[r].gone /\ ~req[r].final)]_vars

\* The gauges count the streams that are running, and besides them only the HTTP
\* streams whose response was never iterated; a stream is counted once by the
\* time it ends, if it got past the cache lookup.
MetricsAddUp ==
  /\ gauge["http"] = Cardinality({r \in Requests : Source(r) = "http"
                        /\ (Streaming(r) \/ req[r].at = "dropped")})
  /\ gauge["grpc"] = Cardinality({r \in Requests : Source(r) = "grpc" /\ Streaming(r)})
  /\ \A r \in Requests : req[r].counted <= 1
  /\ \A r \in Requests : Streaming(r) => req[r].counted = 0

\* A turn that ran alone on its thread stays in the history: neither a later
\* turn, nor a task change, nor a run its client left removes its messages.
FinishedTurnKept ==
  \A r \in Requests :
    req[r].final /\ ~req[r].overlapped /\ ~Anonymous(r) =>
      \E i, j \in 1..Len(history[req[r].thread]) :
        /\ i < j
        /\ history[req[r].thread][i] = Human(r)
        /\ history[req[r].thread][j] = Ai(r)

Pending == ToSet(mq) \cup (IF worker.task = None THEN {} ELSE {worker.task})

\* A task is published for a finished turn of a registered user, so the worker
\* never finds a thread without messages, and anonymous users leave none.
TaskHasConversation ==
  /\ \A t \in Pending \cup dlq :
       /\ t.thread \notin AnonThreads
       /\ req[t.turn].final
       /\ history[t.thread] # <<>>
  /\ worker.at \in {"extract", "store", "done"} => worker.last # None
  /\ \A th \in AnonThreads : history[th] = <<>>

\* A published task is never lost, whatever the worker does: it is queued, in
\* hand, dead-lettered or acknowledged, and in one of these places only; a task
\* that was not published is nowhere.
Places(t) ==
  Cardinality({i \in 1..Len(mq) : mq[i] = t})
  + (IF worker.task = t THEN 1 ELSE 0)
  + (IF t \in dlq THEN 1 ELSE 0)
  + (IF t \in acked THEN 1 ELSE 0)

TaskConserved ==
  \A t \in Tasks :
    Places(t) = IF req[t.turn].task = "published" /\ req[t.turn].thread = t.thread THEN 1 ELSE 0

\* The extractor of an acknowledged task was shown the prompt the task is about,
\* when the turn ran alone, its executor left at most two drafts and no later
\* turn had begun: the window is four messages, not the turn's.
AckedTurnWasRead ==
  [][acked' # acked =>
       LET r == worker.task.turn
       IN  worker.last = r /\ ~req[r].overlapped /\ req[r].drafts <= 2
           => r \in worker.shown]_vars

\* Delivery is at least once and ids are fresh, so facts are stored repeatedly:
\* at most once for each task of the thread that was read, and once more for each
\* crash of the worker; never for a user without a task.
Readings(th) ==
  Cardinality({t \in acked : t.thread = th})
  + (IF worker.task # None /\ worker.task.thread = th THEN 1 ELSE 0)

FactsPerReading ==
  \A r \in Requests : facts[r] > 0 =>
    /\ req[r].thread \in HttpThreads \cup HubThreads
    /\ facts[r] <= Readings(req[r].thread) + crashes

\* Every stream ends, and the hub sends ReceiveStreamComplete for every message.
StreamsEnd ==
  \A r \in Requests :
    /\ Streaming(r) ~> req[r].at = "closed"
    /\ req[r].hub = "open" ~> req[r].hub = "complete"

\* Every published task is acknowledged or dead-lettered in the end.
TasksSettle == (mq # <<>> \/ worker # Resting) ~> (mq = <<>> /\ worker = Resting)

-----------------------------------------------------------------------------
(* The invariants of the proofs.                                            *)

\* A request whose run can still write a checkpoint, and one whose prompt may be
\* in a history.
Writes(q) == q.at \in {"graph", "final"} \/ q.stray
Begun(q)  == q.at \notin {"new", "dropped", "lookup", "start"}

\* Streams on the way, by the gauge that counts them.
Live(q)   == q.at \in {"lookup", "start", "graph", "final", "after", "cache", "receipt"}
OnHttp(q) == q.thread \notin HubThreads /\ (Live(q) \/ q.at = "dropped")
OnGrpc(q) == q.thread \in HubThreads /\ Live(q)

\* What the place of a generator says of its fields.
Consistent(q) ==
  /\ q.at = "new" => q = NewRequest
  /\ q.at # "new" => q.thread \in Threads
  /\ q.at = "dropped" => q.thread \notin HubThreads
  /\ q.sent = q.text
  /\ q.counted <= 1 /\ (q.at \notin {"new", "dropped", "closed"} => q.counted = 0)
  /\ q.final \/ q.stray => q.at \in {"after", "cache", "receipt", "closed"}
  /\ ~(q.final /\ q.stray)
  /\ q.at \in {"after", "cache", "receipt"} => IF q.final THEN q.whole = q.text ELSE q.gone
  /\ q.task # "none" => /\ q.final /\ q.thread \notin AnonThreads
                        /\ q.at \in {"cache", "receipt", "closed"}

StreamInv == \A r \in Requests : Consistent(req[r])

HttpStreams == {r \in Requests : OnHttp(req[r])}
GrpcStreams == {r \in Requests : OnGrpc(req[r])}

GaugeInv ==
  /\ IsFiniteSet(HttpStreams) /\ gauge["http"] = Cardinality(HttpStreams)
  /\ IsFiniteSet(GrpcStreams) /\ gauge["grpc"] = Cardinality(GrpcStreams)

\* The k-th message is the latest prompt.
Latest(ms, k) ==
  k \in 1..Len(ms) /\ ms[k].type = "human" /\ \A i \in k + 1 .. Len(ms) : ms[i].type = "ai"

\* A history of a thread, when rq are the requests: it has a prompt, and its
\* messages are those of requests of the thread whose run has begun.
Proper(ms, th, rq) ==
  /\ \E k \in 1..Len(ms) : Latest(ms, k)
  /\ \A i \in 1..Len(ms) : Begun(rq[ms[i].turn]) /\ rq[ms[i].turn].thread = th

\* The messages of r's run, which q stands for, end in its prompt and its answers.
Ahead(r, q) ==
  \E k \in 1..Len(q.msgs) :
    /\ Latest(q.msgs, k) /\ q.msgs[k] = Human(r)
    /\ q.stray \/ Len(q.msgs) <= k + q.drafts

HistoryInv ==
  /\ \A th \in Threads : history[th] = <<>> \/ Proper(history[th], th, req)
  /\ \A th \in AnonThreads : history[th] = <<>>
  /\ \A r \in Requests : Writes(req[r]) =>
       Proper(req[r].msgs, req[r].thread, req) /\ Ahead(r, req[r])

\* A thread with a reply has a checkpoint.
ReplyInv ==
  \A r \in Requests :
    req[r].final /\ req[r].thread \notin AnonThreads => history[req[r].thread] # <<>>

\* Runs of one thread that may both write have overlapped.
OverlapInv ==
  \A r, s \in Requests :
    Writes(req[r]) /\ Writes(req[s]) /\ r # s /\ req[r].thread = req[s].thread => req[r].overlapped

\* The turn of r is kept in the first n messages.
Turn(ms, r, n) ==
  \E i, j \in 1..Len(ms) : i < j /\ j <= n /\ ms[i] = Human(r) /\ ms[j] = Ai(r)

\* ... and before a later prompt.
Behind(ms, r) == \E k \in 1..Len(ms) : ms[k].type = "human" /\ Turn(ms, r, k)

\* At most n answers and the reply follow the prompt of r, if it is the latest.
Short(ms, r, n) ==
  \A k \in 1..Len(ms) : Latest(ms, k) /\ ms[k] = Human(r) => Len(ms) <= k + n + 1

Settled(q) == q.final /\ ~q.overlapped /\ q.thread \notin AnonThreads

\* A turn that ran alone is in the history, and before the prompt of every run
\* that may still write it.
KeptInv ==
  \A r \in Requests : Settled(req[r]) =>
    /\ Turn(history[req[r].thread], r, Len(history[req[r].thread]))
    /\ \A s \in Requests : Writes(req[s]) /\ req[s].thread = req[r].thread =>
         Behind(req[s].msgs, r)
    /\ Short(history[req[r].thread], r, req[r].drafts)

\* A task is in one place, if it was published.
TaskInv ==
  /\ \A i, j \in 1..Len(mq) : mq[i] = mq[j] => i = j
  /\ worker.task \notin ToSet(mq) \cup dlq \cup acked
  /\ ToSet(mq) \cap (dlq \cup acked) = {} /\ dlq \cap acked = {}
  /\ \A t \in Tasks : t \in Pending \cup dlq \cup acked
                     <=> req[t.turn].task = "published" /\ req[t.turn].thread = t.thread

\* What the worker read is about the thread of its task.
ReadInv ==
  /\ worker.at = "idle" <=> worker.task = None
  /\ worker.at \in {"idle", "delivered"} => worker.shown = {}
  /\ \A r \in worker.shown : req[r].thread = worker.task.thread
  /\ worker.at \in {"extract", "store", "done"} =>
       /\ worker.last # None
       /\ /\ worker.last = worker.task.turn
          /\ ~req[worker.last].overlapped /\ req[worker.last].drafts <= 2
          => worker.last \in worker.shown

\* The delivery in hand has stored the facts it no longer holds.
FactsInv ==
  /\ IsFiniteSet(acked)
  /\ \A r \in Requests : facts[r] > 0 =>
       /\ req[r].thread \in HttpThreads \cup HubThreads
       /\ facts[r] <= Cardinality({t \in acked : t.thread = req[r].thread}) + crashes
            + (IF worker.at \in {"store", "done"} /\ worker.task.thread = req[r].thread
                  /\ r \notin worker.found THEN 1 ELSE 0)
=============================================================================
