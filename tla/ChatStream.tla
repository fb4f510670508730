------------------------------- MODULE ChatStream -------------------------------
(***************************************************************************)
(* ChatStreamService.stream and the code around it: the HTTP route and the *)
(* gRPC servicer that consume the stream, the SignalR hub behind gRPC, the *)
(* semantic cache and the publication of an extraction task.               *)
(*                                                                         *)
(* A request is a generator on the agent's event loop; another request     *)
(* runs whenever it awaits.  The graph run is AgentGraph's: here only the  *)
(* messages it checkpoints and the pieces of text it streams matter.       *)
(***************************************************************************)
EXTENDS Conversation, Integers

CONSTANTS
  Prompts,       \* prompts, all within the limit of 8000 characters
  Similar,       \* the prompts whose embedding is within the cache's threshold, by prompt
  MaxDrafts,     \* bound: answers of the executor left in a turn's history
  MaxPieces,     \* bound: chunks of a reply
  MaxRestarts    \* bound: crashes of the agent process

ASSUME ChatAssumption ==
  /\ MaxDrafts \in Nat /\ MaxPieces \in Nat \ {0} /\ MaxRestarts \in Nat
  /\ \A p \in Prompts : p \in Similar[p] /\ Similar[p] \subseteq Prompts

VARIABLES
  req,       \* the generator of each request and what its client has seen
  cache,     \* semantic_cache: the reply stored for each prompt
  gauge,     \* SSE_ACTIVE_STREAMS and GRPC_ACTIVE_STREAMS
  restarts

chatVars == <<req, cache, gauge, restarts>>

-----------------------------------------------------------------------------
NoReply == [by |-> None, pieces |-> 0]

\* at: where the generator stands;  msgs: the messages the run works on;
\* text: ai_full_response_text, sent: the chunks yielded (both in pieces);
\* whole: pieces of the complete reply, once final_state_messages is set;
\* counted: the increments of AGENT_REQUESTS_TOTAL;  task: the publication;
\* hub: the SignalR invocation;  gone: the gRPC call was cancelled;
\* stray: the run goes on although its consumer has left;
\* overlapped: another run of the thread wrote checkpoints meanwhile (history).
NewRequest ==
  [at |-> "new", thread |-> None, prompt |-> None, msgs |-> <<>>, drafts |-> 0,
   text |-> 0, sent |-> 0, whole |-> 0, final |-> FALSE,
   counted |-> 0, receipt |-> 0, task |-> "none", hub |-> "none",
   gone |-> FALSE, stray |-> FALSE, overlapped |-> FALSE]

Source(r) == IF req[r].thread \in HubThreads THEN "grpc" ELSE "http"
Anonymous(r) == req[r].thread \in AnonThreads

InGraph(r) == req[r].at \in {"graph", "final"}
Streaming(r) == InGraph(r) \/ req[r].at \in {"lookup", "start", "after", "cache", "receipt"}

Is(r, at) == req[r].at = at

Update(r, q) == req' = [req EXCEPT ![r] = q]

HubDone_Never(q) == q
HubDone(q) == [q EXCEPT !.hub = IF @ = "open" THEN "complete" ELSE @]

\* What is left of a request when its generator is closed.
Closed(q) ==
  [at |-> "closed", thread |-> q.thread, prompt |-> None,
   msgs |-> IF q.stray THEN q.msgs ELSE <<>>, drafts |-> IF q.final THEN q.drafts ELSE 0,
   text |-> 0, sent |-> 0, whole |-> 0, final |-> q.final,
   counted |-> q.counted, receipt |-> q.receipt, task |-> q.task, hub |-> HubDone(q).hub,
   gone |-> FALSE, stray |-> q.stray, overlapped |-> q.overlapped]

GaugeFalls_OnlyFinished(r) ==
  gauge' = IF req[r].final THEN [gauge EXCEPT ![Source(r)] = @ - 1] ELSE gauge
GaugeFalls_Twice(r) == gauge' = [gauge EXCEPT ![Source(r)] = @ - 2]
GaugeFalls(r) == gauge' = [gauge EXCEPT ![Source(r)] = @ - 1]

\* The finally blocks: the request is counted, the gauge falls, the hub sends
\* ReceiveStreamComplete.
End(r, q) == Update(r, Closed([q EXCEPT !.counted = @ + 1])) /\ GaugeFalls(r)

\* A superstep's checkpoint holds the run's own messages, whatever another
\* run of the thread wrote in between; anonymous runs have no checkpointer.
Checkpoint(r, ms) ==
  history' = IF Anonymous(r) THEN history ELSE [history EXCEPT ![req[r].thread] = ms]

-----------------------------------------------------------------------------
ChatInit ==
  /\ req = [r \in Requests |-> NewRequest]
  /\ cache = [p \in Prompts |-> NoReply]
  /\ gauge = [s \in {"http", "grpc"} |-> 0]
  /\ restarts = 0

\* chat_stream_endpoint: the gauge rises before the response is iterated, and
\* its client may be gone by then.
AcceptHttp(r, th, p) ==
  /\ Is(r, "new")
  /\ \E at \in {"lookup", "dropped"} :
       Update(r, [NewRequest EXCEPT !.at = at, !.thread = th, !.prompt = p])
  /\ gauge' = [gauge EXCEPT !["http"] = @ + 1]
  /\ UNCHANGED <<shared, cache, restarts>>

\* ChatHub.SendMessage and StreamChat: one connection sends one message at a time.
AcceptGrpc(r, th, p) ==
  /\ Is(r, "new")
  /\ \A s \in Requests : req[s].thread = th => req[s].hub # "open"
  /\ Update(r, [NewRequest EXCEPT !.at = "lookup", !.thread = th, !.prompt = p, !.hub = "open"])
  /\ gauge' = [gauge EXCEPT !["grpc"] = @ + 1]
  /\ UNCHANGED <<shared, cache, restarts>>

\* QdrantSemanticCache.get: one of the stored replies within the threshold.
Candidates(p) == {cache[q] : q \in {q \in Similar[p] : cache[q] # NoReply}}

\* A hit is yielded as one chunk, counted, and ends the stream.
CacheHit(r) ==
  /\ Is(r, "lookup")
  /\ Candidates(req[r].prompt) # {}
  /\ End(r, req[r])
  /\ UNCHANGED <<shared, cache, restarts>>

\* Nothing similar is stored, or the lookup failed.
CacheMiss(r) ==
  /\ Is(r, "lookup")
  /\ Update(r, [req[r] EXCEPT !.at = "start"])
  /\ UNCHANGED <<shared, cache, gauge, restarts>>

Writers(r) ==
  {s \in Requests \ {r} : req[s].thread = req[r].thread /\ (InGraph(s) \/ req[s].stray)}

\* The graph loads the thread's checkpoint and adds the prompt.
StartGraph(r) ==
  /\ Is(r, "start")
  /\ LET before == IF Anonymous(r) THEN <<>> ELSE history[req[r].thread]
         ms == Append(before, Human(r))
     IN  /\ req' = [s \in Requests |->
              IF s = r
              THEN [req[r] EXCEPT !.at = "graph", !.msgs = ms, !.overlapped = Writers(r) # {}]
              ELSE [req[s] EXCEPT !.overlapped = @ \/ s \in Writers(r)]]
         /\ Checkpoint(r, ms)
  /\ UNCHANGED <<mq, cache, gauge, restarts>>

\* A superstep that leaves an answer in the history without streaming it.
Draft(r) ==
  /\ Is(r, "graph")
  /\ req[r].drafts < MaxDrafts
  /\ LET ms == Append(req[r].msgs, Ai(r))
     IN  /\ Update(r, [req[r] EXCEPT !.msgs = ms, !.drafts = @ + 1])
         /\ Checkpoint(r, ms)
  /\ UNCHANGED <<mq, cache, gauge, restarts>>

\* TASK_MANAGER moves to the next task: the messages after the latest prompt go.
NextTask(r) ==
  /\ Is(r, "graph")
  /\ LET ms == SubSeq(req[r].msgs, 1, LastHuman(req[r].msgs))
     IN  /\ ms # req[r].msgs
         /\ Update(r, [req[r] EXCEPT !.msgs = ms])
         /\ Checkpoint(r, ms)
  /\ UNCHANGED <<mq, cache, gauge, restarts>>

\* on_chat_model_stream of a node whose text the user sees.
Piece_TextOnly(q) == [q EXCEPT !.text = @ + 1]
Piece(q) == [q EXCEPT !.sent = @ + 1, !.text = @ + 1]

StreamPiece(r) ==
  /\ InGraph(r)
  /\ req[r].text < MaxPieces
  /\ Update(r, Piece([req[r] EXCEPT !.at = "final"]))
  /\ UNCHANGED <<shared, cache, gauge, restarts>>

\* on_chain_end of agent_graph: a reply that was not streamed is yielded whole,
\* unless its content is empty.
EndGraph(r) ==
  /\ InGraph(r)
  /\ LET ms == Append(req[r].msgs, Ai(r))
         q == [req[r] EXCEPT !.at = "after", !.msgs = <<>>, !.final = TRUE]
     IN  /\ \/ q.text = 0 /\ Update(r, [Piece(q) EXCEPT !.whole = 1])
            \/ Update(r, [q EXCEPT !.whole = q.text])
         /\ Checkpoint(r, ms)
  /\ UNCHANGED <<mq, cache, gauge, restarts>>

\* An exception before or in the graph, RPC errors of the models included, or on
\* leaving the saver's context, which an anonymous run does without.
GraphFails_Continues(r) ==
  /\ InGraph(r)
  /\ Update(r, [req[r] EXCEPT !.at = "after"])
  /\ UNCHANGED <<shared, cache, gauge, restarts>>

GraphFails(r) ==
  /\ InGraph(r) \/ Is(r, "start") \/ (Is(r, "after") /\ ~Anonymous(r))
  /\ End(r, req[r])
  /\ UNCHANGED <<shared, cache, restarts>>

\* External: the gRPC call is cancelled; the hub reports it and completes.
CallBreaks(r) ==
  /\ Streaming(r)
  /\ Source(r) = "grpc" /\ ~req[r].gone
  /\ Update(r, HubDone([req[r] EXCEPT !.gone = TRUE]))
  /\ UNCHANGED <<shared, cache, gauge, restarts>>

\* is_cancelled_callback: the event loop of the graph is left, and only that.
SeeCancelled(r) ==
  /\ InGraph(r) /\ req[r].gone
  /\ Update(r, [req[r] EXCEPT !.at = "after", !.stray = TRUE])
  /\ UNCHANGED <<shared, cache, gauge, restarts>>

\* The generator is closed at an await: only the finally blocks run, and none
\* of the service's own while the cache is asked.
Abort(r) ==
  /\ Streaming(r)
  /\ Source(r) = "http" \/ req[r].gone
  /\ LET q == [req[r] EXCEPT !.stray = @ \/ InGraph(r)]
     IN  IF Is(r, "lookup")
         THEN Update(r, Closed(q)) /\ GaugeFalls(r)
         ELSE End(r, q)
  /\ UNCHANGED <<shared, cache, restarts>>

\* A run whose consumer left is cancelled only when its generator is collected.
StrayStep(r) ==
  /\ req[r].stray
  /\ \/ UNCHANGED history
     \/ Checkpoint(r, Append(req[r].msgs, Ai(r)))
  /\ Update(r, [req[r] EXCEPT !.stray = FALSE, !.msgs = <<>>])
  /\ UNCHANGED <<mq, cache, gauge, restarts>>

\* Only a run that reached its end, for a registered user, is worth extracting.
Publishes_Any(q) == q.final
Publishes(q) == q.final /\ q.thread \notin AnonThreads

\* The task that publishes is created, then the reply is cached and signed.
AfterGraph(r) ==
  /\ Is(r, "after")
  /\ LET q == [req[r] EXCEPT !.task = IF Publishes(req[r]) THEN "pending" ELSE @]
     IN  IF q.text > 0
         THEN Update(r, [q EXCEPT !.at = "cache"]) /\ UNCHANGED gauge
         ELSE End(r, q)
  /\ UNCHANGED <<shared, cache, restarts>>

\* QdrantSemanticCache.set under the prompt's id; its failure is only logged.
StoreReply(r) ==
  /\ Is(r, "cache")
  /\ Update(r, [req[r] EXCEPT !.at = "receipt"])
  /\ \/ cache' = [cache EXCEPT ![req[r].prompt] = [by |-> r, pieces |-> req[r].text]]
     \/ UNCHANGED cache
  /\ UNCHANGED <<shared, gauge, restarts>>

\* generate_receipt over the whole text, or no key to sign with.
SendReceipt(r) ==
  /\ Is(r, "receipt")
  /\ \/ End(r, [req[r] EXCEPT !.receipt = req[r].text])
     \/ End(r, req[r])
  /\ UNCHANGED <<shared, cache, restarts>>

\* publish_extraction_task: connect, declare, publish; every failure is logged.
Publish(r) ==
  /\ req[r].task = "pending"
  /\ \/ mq' = Append(mq, Task(req[r].thread, r)) /\ Update(r, [req[r] EXCEPT !.task = "published"])
     \/ mq' = mq /\ Update(r, [req[r] EXCEPT !.task = "none"])
  /\ UNCHANGED <<history, cache, gauge, restarts>>

\* The agent process dies: generators, stray runs and unpublished tasks with it.
Restart ==
  /\ restarts < MaxRestarts
  /\ restarts' = restarts + 1
  /\ req' = [r \in Requests |->
       IF Is(r, "new") THEN req[r]
       ELSE Closed([req[r] EXCEPT !.stray = FALSE,
                      !.task = IF @ = "pending" THEN "none" ELSE @])]
  /\ gauge' = [s \in {"http", "grpc"} |-> 0]
  /\ UNCHANGED <<shared, cache>>

-----------------------------------------------------------------------------
\* What the event loop does for a request without its client or a fault.
Serve(r) ==
  \/ CacheHit(r) \/ CacheMiss(r) \/ StartGraph(r)
  \/ Draft(r) \/ NextTask(r) \/ StreamPiece(r) \/ EndGraph(r) \/ GraphFails(r)
  \/ SeeCancelled(r) \/ StrayStep(r)
  \/ AfterGraph(r) \/ StoreReply(r) \/ SendReceipt(r) \/ Publish(r)

ChatStep ==
  \/ \E r \in Requests :
       \/ \E p \in Prompts :
            \/ \E th \in HttpThreads \cup AnonThreads : AcceptHttp(r, th, p)
            \/ \E th \in HubThreads : AcceptGrpc(r, th, p)
       \/ Serve(r)
       \/ CallBreaks(r) \/ Abort(r)
  \/ Restart

ChatFairness == \A r \in Requests : WF_<<shared, chatVars>>(Serve(r))
=============================================================================
