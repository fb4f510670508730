# Travel assistant system: TLA+ models and proofs

The repository holds two programs. `agent/` is a Python service that answers
travel questions with a graph of language-model nodes (LangGraph), streams the
answer over SSE or gRPC, and mines user preferences in the background.
`website/` is an ASP.NET Core site with accounts, bookings, Stripe payments and
a chat page that forwards the agent's stream. This directory models the parts
whose state is hard to keep right, checks them with TLC on small instances and
proves the most important facts for every size with TLAPS.

## Inventory

| Component | State | Operations | Interacts with | What must hold |
|---|---|---|---|---|
| Agent graph, `agent/app/graph` | `AgentState`: plan, current task, loop counters, action history, evaluator's notes and flags, messages | guardrail, planner, bypass, executor, action tracker, tools, extractor, fact checker, evaluator, task manager, synthesizer, three short replies | language models, tools, checkpoint of the conversation | every run ends within the recursion limit; tools are bounded and not repeated; tasks run in order, once, on their own evidence; a deficient answer is flagged |
| Conversation checkpoints, `chat_stream_service.py` | one `AgentState` per `user_session` thread in Redis | merge of the initial state into the last checkpoint, write after every superstep | agent graph | a turn that ran alone stays in the history |
| Chat stream, `chat_stream_service.py`, `qdrant_cache.py` | the text so far, the semantic cache | cache lookup, forward chunks, cancel, receipt, publish, cache write | transports, graph, RabbitMQ | a receipt covers what was sent; a cut reply is cached only after a cancellation was seen |
| Transports, `api/routes/chat.py`, `grpc_server.py`, `Hubs/ChatHub.cs` | open streams, gauges | start, forward, disconnect | chat stream | every started stream is closed and counted once |
| Memory pipeline, `rabbitmq_publisher.py`, `worker_main.py`, `memory_worker.py`, `memory_service.py` | connection, durable queue, stored facts | publish, deliver, extract, upsert, acknowledge, reject, crash | chat stream, Qdrant | a published task is never lost; duplicates only by later readings and crashes |
| Hotel synchronisation, `hotel_sync_handler.py`, `qdrant_hotel_store.py` | vectors of hotels | upsert, delete | worker | the last update wins |
| Model invocation, `graph/config.py`, `core/concurrency.py` | a semaphore per tier, caches | acquire, call, retry, release | all nodes | permits are never lost; retries are bounded |
| MCP client, `mcp_client.py` | sessions, tools, locks | initialise, health check, reset | container, dev graph | one session per server; tools have their sessions |
| Web search, `web_tools.py` | none | compile snippets within a budget | tools | a round of searches fits the window |
| Vector collections, `qdrant_vector_store.py` | collections | check, create, index | all stores | indexes are complete unless the creator failed |
| Bookings and payments, `BookingService.cs`, `PaymentController.cs`, `BookingController.cs` | `Bookings`, `Payments`, Stripe sessions | create, open a checkout session, webhook, success page, cancel | Stripe, the user | a confirmed booking has a payment, a payment a charge; one row unless disturbed |
| Accounts, `AuthService.cs` | users, refresh tokens | register, login, refresh, logout | browser | not modelled, see below |
| Retrieval, configuration, hotel search, Amadeus, views, dashboards, load tests | little or none of their own | reads | | not modelled, see below |

### Hard behaviours

* Nested loops whose exits are spread over four files: the executor's
  iterations, the tool budget, the rework cycles and the task advance are
  counted, compared and zeroed by different nodes.
* State of one task or turn read by a later one: only some fields of
  `AgentState` are reset by a new request or a new task.
* Identifiers chosen by a language model decide which task is completed.
* Cancellation of a stream between any two awaits; a cache and a queue written
  on the way out.
* Acknowledgement of queue messages around a step that swallows its errors.
* Webhook, success page and cancellation acting on one booking concurrently.

`PROJECT.json` lists these as hazards, each at its line, with the properties
that would catch it.

## Modules

| Module | Models | Built on |
|---|---|---|
| `AgentGraph` | one request's run of the graph | |
| `AgentGraphProperties` | its type invariant, safety and liveness properties, the invariants of the proofs | `AgentGraph` |
| `PlanExecution` | the abstract promise: tasks completed one at a time in plan order, a bounded number of rounds each, an answer once all are complete | |
| `AgentGraphRefinement` | the mapping from `AgentGraph` to `PlanExecution` | both |
| `AgentGraphProofs` | theorems, checked by TLAPS: types, the plan, the bounds | `AgentGraphProperties` |
| `AgentGraphTaskProofs` | theorems: tool calls, tool output, directives, drafts, results | `AgentGraphProofs` |
| `AgentGraphRefinementProofs` | theorem: the graph implements `PlanExecution` | `AgentGraphRefinement`, `AgentGraphTaskProofs` |
| `BookingPayments` | bookings, checkout sessions and payment rows under concurrent web requests | |
| `BookingPaymentsProperties`, `BookingPaymentsProofs` | what holds of the records; theorems | `BookingPayments` |
| `Conversation` | the checkpoints and the queue that the chat stream and the memory worker share | |
| `ChatStream` | the stream service, its HTTP and gRPC consumers, the SignalR hub, the reply cache, the publication of tasks | `Conversation` |
| `MemoryPipeline` | the worker that reads a checkpoint, extracts facts, stores and acknowledges | `Conversation` |
| `ChatMemory` | both together, with their properties | `ChatStream`, `MemoryPipeline` |
| `VectorCollections` | writers of the vector store: check, create, index, upsert, delete as separate calls | |
| `HotelSync` | cached replies, facts and the hotel queue as such writers, with properties | `VectorCollections` |
| `LlmCalls` | model calls under the tier semaphores, with attempts, backoff and cancellation | |
| `ToolServers` | the MCP client manager in the serving process and in Studio | |
| `AgentRuntime` | one process: model calls, tool servers, the tools bound and the tools served, with properties | `LlmCalls`, `ToolServers` |
| `ChatMemoryProofs` | theorems: all its properties but the liveness ones | `ChatMemory` |
| `AgentRuntimeProofs` | theorems: the permits, and the sessions with the tool servers | `AgentRuntime` |
| `HotelSyncProofs` | theorems: the payload indexes of collections, the order of hotel messages, the stored hotels | `HotelSync` |
| `WebSearch` | compression of snippets and compilation within the token budget, as operators | |
| `MessageHistory` | the messages of a conversation and the prompt assembled from them, with properties | `WebSearch` |
| `MessageHistoryProofs` | theorems: the history between two steps, the protocol of every prompt, the latest round | `MessageHistory` |
| `MC...` | instances for TLC | |

### AgentGraph

An action is one LangGraph superstep: the node function followed by the
conditional edge that leaves it. `pc` is the node to run next. The fields of
`AgentState` keep their names. Texts are replaced by their provenance, the task
and the rework round they were written for; that is all the properties tell
apart. What a language model returns is an arbitrary choice, an exception
included where the node does not catch it.

| Code | Model |
|---|---|
| `initial_state` of `chat_stream_service.py`, merged into the last checkpoint | `Init`: plan and counters fresh, the other fields from an earlier turn when there was one |
| `node_input_guardrail`, `route_from_guardrail` | `InputGuardrail`, `RouteFromGuardrail` |
| `node_planner_agent`, `node_direct_executor_init` | `Planner`, `DirectExecutorInit`, sharing `StartPlan` |
| `node_travel_react_agent`, `evaluate_tool_hooks`, `_build_task_context` | `TravelReactAgent`, `EvaluateToolHooks`, `WithinLimits`, `ActiveTask` |
| `action_tracker_node`, `ToolNode` | `ActionTracker`, `Tools` |
| `node_finding_extractor`, `node_fact_checker` | `FindingExtractor`, `FactChecker` |
| `node_evaluator_agent`, `route_from_evaluator` | `EvaluatorAgent`, `LimitReached`, `RouteFromEvaluator` |
| `node_task_manager`, `route_from_task_manager` | `TaskManager`, `Completed`, `NextTask`, `Sandboxed`, `RouteFromTaskManager` |
| LangGraph's superstep count, compared before each superstep and once more when no node is left | `steps`, `Enter`, `RecursionError`, `Finished` |

`tool_call` arguments are compared through `generate_tool_hash`, so `Calls` are
equivalence classes of calls. `pos`, `tools_run`, `invoked` and `forced_tasks`
are history variables: no guard reads them except where `pos` stands for the
task whose messages are being written.

### BookingPayments

A web request is two steps, the read and the save, because ASP.NET Core runs
requests concurrently, each with a context of its own, and the code neither
opens a transaction around both nor declares a concurrency token or a unique
`TransactionId`. `request` holds what a request in progress has read; a save
writes the whole row it read earlier.

| Code | Model |
|---|---|
| `CreateCheckoutSession`, `PayPendingBooking`: insert or read, then `service.Create` | `CreateCheckoutSession`, `PayPendingBooking`, then `OpenSession`, which may fail with a `StripeException` after the booking was saved |
| `Webhook`, calling `ConfirmBookingAndRecordPaymentAsync` | `Webhook` (`StartConfirm`), `SaveConfirmation` |
| `Success`, calling the same method | `SuccessPage` (`StartConfirm`), `SaveConfirmation` |
| `CancelBookingAsync` | `Cancel`, `SaveCancellation`; `Age` lets the 24 hours pass |
| an exception of `SaveChangesAsync` | `SaveFails`: answered 500 by the webhook, swallowed by the success page |
| Stripe | `Pay` and `events`: an event stays until a delivery is answered, may be delivered twice at once, and again when the answer of a saved delivery was lost |

A payment row is a count per session, its `TransactionId`; the amounts of a
booking are summed in hundredths. Handlers that change nothing (a cancelled
booking cancelled again, a page for an unpaid session) are no steps.
`disturbed` is a history variable: the bookings that were cancelled, or whose
confirmations overlapped.

### ChatStream, MemoryPipeline and ChatMemory

A request is the generator `ChatStreamService.stream` with the consumer that
iterates it. `req[r].at` is the await at which it stands, and an action is the
code between two awaits, since everything runs on one event loop. A message is
its type and the request it came from, a text the number of its pieces.

| Code | Model |
|---|---|
| `chat_stream_endpoint`; `StreamChat` behind `ChatHub.SendMessage` | `AcceptHttp`, `AcceptGrpc`; a response never iterated stays at "dropped" |
| `semantic_cache.get` and `.set` | `CacheHit`, `CacheMiss`, `StoreReply` |
| the graph run: messages checkpointed, pieces streamed | `StartGraph`, `Draft`, `NextTask`, `StreamPiece`, `EndGraph`; `GraphFails`, from the start of the run to the end of the saver's context |
| `is_cancelled_callback`, `aclose`, a broken gRPC call | `SeeCancelled`, `Abort`, `CallBreaks` |
| a LangGraph run left by its consumer | `StrayStep`: one checkpoint more, or none |
| `create_task(publish_extraction_task)` | `AfterGraph` marks it, `Publish` runs or fails |
| `generate_receipt` | `SendReceipt` |
| `process_message` of the worker | `Deliver`, `ReadCheckpoint`, `Extract`, `AddFact`, `Acknowledge`, `Reject` |
| restart of the agent, crash of the worker | `Restart`, `Crash`, with RabbitMQ's `Requeue` |

A run works on the messages it loaded and writes them back whole, which is how
two requests on one thread come to overwrite each other; `overlapped` records
that this could have happened. `acked` and `overlapped` are history variables.

### VectorCollections and HotelSync

`_ensure_collection` and `_ensure_hotel_collection` are a check, a creation and
one call for each payload index, then the write; the calls of different threads
interleave. `CallFails` lets any call fail before or after it took effect, `Die`
ends a process. `HotelSync` drives them: threads of the agent that cache replies,
the worker's fact storage, and its handler of `hotel_sync_queue`, which holds
one delivery, acknowledges it on return and dead-letters it when it raises.
`seq`, `settled` and `abandoned` are history.

### LlmCalls, ToolServers and AgentRuntime

`invoke_llm_with_limit` is a coroutine that waits for a semaphore, runs an
attempt, and either returns, raises or backs off. The semaphore is asyncio's, of
Python 3.11 (`agent/dockerfile`): a permit given back wakes the first sleeping
waiter and no other (`WakeUp`), which takes it up in a later step (`Resume`) or
is cancelled before and passes it on; a request that finds somebody waiting queues
behind, even while a permit is left. `ToolServers` is
`DynamicMcpClientManager` with its lock and its line of waiters; an action is
the code between two awaits. A reset closes the sessions one at a time, the
latest first (`BeginReset`, `CloseSession`), and clears the manager when none is
left (`EndReset`), as `AsyncExitStack.aclose` does. `studio` says which process it is: the serving
process, where `startup()` initialises once and `shutdown()` closes, or
LangGraph Studio, where each call of `create_agent_graph` asks the sessions for
a sign of life and may reset. `DevLockFree` is the lock of `_get_dev_lock`,
which keeps nobody out. `AgentRuntime` lets requests call the model and tools:
`bound` is what `get_tools_by_domain` gives the model, `NodeTools` what
`build_workflow` gave the tool node.

### MessageHistory and WebSearch

| Code | Model |
|---|---|
| messages added and removed by the nodes | `Ask`, `Reply`, `node_travel_react_agent`, `Blocked`, `tools`, `Rework`, `NextTask`, `node_final_synthesizer`, `GraphFails` |
| `_sanitize_orphaned_tool_calls`, `prune_messages_by_token_limit` | operators of the same names; `kept_messages` is what pruning leaves, `compiled_messages` the prompt, with the `Reminder` from the second iteration on |
| `search_web_logic` | `compressed_snippets`, `formatted_chunk`, `Compile`, `search_web` |

A call is a number, a content its size in tokens, a fact the source it was
taken from. What an empty answer and an error leave is a short tool message, so
`AnswerLimit` is the larger of a compiled search and a short text. Each call of
a message has an answer of its own: an error may stand beside a long search.
Tokens are counted in one unit; the code counts a search with the encoding of the
fast model and a prompt with that of the balanced one, which are the same for the
models in `settings.py`. The loops of
`search_web_logic` and the sum of sizes are recursive functions over the place in
the list.

Definitions named `X_Something` next to `X` are deliberate faults: replacing `X`
by one of them must make the property they are paired with in `PROJECT.json`
fail, which shows that the property depends on that code.

## Runs

All instances keep the structure of the code and shrink its limits.

| Run | Shows | Bounds |
|---|---|---|
| `safety` | tasks in plan order, the step bound and its invariant, the tool ceiling, duplicate detection across rounds and tasks, sandboxing, the directive's and the flag's task, results; and, since deadlock is checked, that a run only stops at an end | 3 calls, batches of 2, 3 iterations, budget 2, 2 rework cycles, plans of up to two tasks, or of three where two share an id, with zero and missing ids, recursion limit 34, the first above the bound for two tasks, 2 * 15 + 3 |
| `refinement` | the graph implements `PlanExecution`, the recursion error included, and under fairness every request ends | plans of up to three tasks in any id order, 3 rework cycles, limit 30: it cuts two and three tasks short, not one |
| `payments_safety` | no Success without a row of a paid session, one row unless disturbed, and every charged booking gets a row | 1 booking, 2 sessions, 2 requests at a time, `MaxVisits` 2 visits of the success page, `MaxFailures` 2 failed saves or lost answers |
| `conversation` | gauges and counters, turns that ran alone survive, tasks only for finished turns of registered users, receipts and cached replies, what the worker reads while later turns run | 2 requests on 3 threads (HTTP, hub, anonymous), 1 draft, 1 piece |
| `conversation_faults` | a published task is in exactly one place, facts per reading, what an acknowledged task read, every stream ends and every task settles | 1 request, 3 drafts (one more than the window shows), 2 pieces, 1 restart, 1 crash |
| `collections` | indexes missing only after a failed creator, dead letters only for a cause, the store follows the queue | 2 agent threads, the worker's 2, 3 collections; see `HotelSync.cfg` |
| `runtime` | permits, sessions, tools and waiting, in both processes | 3 requests, semaphores of 1 and of 2 permits, 2 attempts, 1 server, 1 death, 1 late answer |
| `prompts` | every prompt follows the provider's protocol; the latest round of tools is in the prompt | 2 turns, 3 visits of the executor, 2 calls in a message, each with one of three answers, window 10 against a budget of 4 + 1: the answers of two calls fit, with a text beside the calls they do not |
| `payments_race`, `tools`, `devlock`, `search` | a comment's or document's claim fails, see Findings | as small as the claim allows |

Why the bounds are enough. Graph: every counter passes its limit, a batch
overshoots the budget, a rework happens after the iterations are used up, a
second and a third task inherit the first one's leftovers, and a stale
checkpoint is among the initial states. Payments: two requests suffice for every
overlap of a read with another request's save, and two sessions for the second
charge of one booking; bookings share nothing but the request slots. Chat: two
requests give every overlap of two turns of a thread, and the third thread kind
comes with them; one piece suffices to tell a whole reply from a cut one when
the run streams nothing more, and the faults run has two. Worker: its deliveries
are handled one at a time, so one task with a crash shows redelivery, and two
requests of one thread show a later checkpoint. Collections: a creation needs
two contenders, and one more queue to follow. Runtime: three requests make a
waiter behind a waiter at one permit and, at two, a request that queues while a
permit is left; one server that dies and one late answer make two resets. Prompts: a failed turn, a blocked call, a rework and a task
change each can precede the prompt. Deadlock is not checked where the system may
stop: all requests served, all bounds used up. Requests, calls and agent threads
are interchangeable, so the runs without temporal properties use symmetry.

### Fairness

`FairSpec` of `AgentGraph` assumes weak fairness of `Node`: LangGraph's loop
runs the scheduled node. A node awaits a language model or a tool; the model
client has a request timeout and a bounded number of retries
(`graph/config.py`), so the await ends. Tool calls have no timeout of their own
in this code: the liveness result assumes that the tools answer. Nothing else is
assumed, in particular not that the evaluator is ever content. `Answered` counts
a recursion error as an end only where the limit is not above the bound. For
malformed plans the end follows from `StepBound` and the absence of deadlock in
`safety`.

`FairSpec` of `BookingPayments` assumes that a request in progress ends (weak
fairness of its own second step) and that an event Stripe can deliver again and
again is delivered (strong fairness of `Webhook` for each session): Stripe
retries an unanswered event for days, while a request slot may be taken in
between. Nobody has to pay, to visit the success page or to cancel, and the
number of failures is bounded by `MaxFailures`.

`FairSpec` of `ChatMemory` assumes weak fairness of `Serve(r)`, the event loop
going on with each request, and of `WorkerStep`, the worker consuming. Clients
need not leave, and crashes and restarts are bounded. Who leaves is not
assumed, so `StreamsEnd` covers streams with and without their clients.

## Findings

* `payments_race`: two confirmations that both read the booking as pending add
  two rows for one charge.
* `tools`: the model is bound to `search_hotel_database`, but the graph's tool
  node got the MCP servers' tools only, none of which has that name: each such
  call is answered with an error. In Studio it is the other way round: the
  bound tools come from the manager of the serving process, which nobody
  initialises there, so the model lacks the tools the node serves.
* `devlock`: the lock that should serialise the health checks in Studio is
  replaced by every call, because an `asyncio.Lock` has no loop before somebody
  waits for it. Two calls that met one dead session reset twice, and the second
  reset closes the session the first call has just opened.
* `search`: compressed snippets are looked up by the place among all results,
  though only the long ones were compressed: after a short result the facts
  stand under other sources.

Also seen while modelling:

Agent graph

* The disclaimer template for a forced acceptance is written to
  `evaluator_feedback`, which nothing reads (`evaluator.py:249`): the raw answer
  is synthesised.
* After a failed classification the low-complexity bypass plans the previous
  turn's objective (`guardrail.py:89`, `planner.py:72`).
* Messages are cleared before a next task, not after the last one
  (`synthesizer.py:147`).
* With the code's limits (8, 10, 2) a task may take 30 supersteps, so three
  tasks always fit in a recursion limit of 100 and four may not
  (`chat_stream_service.py:163`).
* `tool_call_count` is zeroed for each task and compared before a whole batch:
  a request's invocations are bounded (`ToolCeiling`), but by the number of
  tasks times (budget - 1 + batch), not by the budget, as `agent/README.md:239`
  and the comment at `workflow.py:105` have it.
* Equal calls within one message are not detected as duplicates.
* `forced_accept` reports the last task only; an earlier task's flag is
  overwritten. A failed fact check leaves the previous result and its status.
* Tasks that share an id are completed together and executed once.
* `route_from_evaluator`'s limit branch, with its metric, is unreachable, since
  the evaluator has already cleared `needs_rework` at the limit; only
  `MAX_REWORK_CYCLES - 1` reworks ever run.
* Pruning may drop the system prompt, with the rework directive, and leave tool
  messages whose call was cut off.

Payments

* Only `Success` counts as processed, so reloading the success page after a
  cancellation confirms the booking again (`BookingService.cs:57`).
* A booking may have several open sessions; when a second one is paid, its event
  is acknowledged and its charge is recorded nowhere (`BookingService.cs:60`).
* Dong have no minor unit, yet the amount is divided by 100
  (`PaymentController.cs:170`).

Chat, worker and collections

* A cache hit ends without receipt and without an extraction task, which
  `agent/README.md:297` and `:316` promise for every stream.
* Streams whose gRPC call was cancelled are counted as completed, and their cut
  replies may be cached for all users (`chat_stream_service.py:314`).
* The gauge of SSE streams, documented as the current number of connections
  (`docs/metrics_tracking.md:23`), rises before the response is iterated and never
  falls when it is not (`chat.py:37`). `MetricsAddUp` has a term for such
  responses: it says that the gauge goes wrong in no other way.
* The extractor's window of four messages includes the executor's messages with
  calls, so a turn with more drafts hides its own prompt.
* Redelivery stores facts twice, under fresh ids.
* A collection whose creator failed keeps missing its indexes.

Model calls and tools

* Only `httpx.HTTPStatusError` is tried again, and the model clients raise
  exceptions of their own.
* Semaphores are per process: the MCP server and the worker have their own.
* A tool server that failed to start is never tried again, and a caller
  cancelled during a reset or an initialisation leaves the manager half done.
* One failing compression discards all results of a search.

## Proofs

`AgentGraphProofs` assumes only `GraphAssumption`: the limits are naturals, the
iteration limit and the budget positive, a plan is a sequence of natural ids,
`None` is neither an id nor an answer. It proves, for every set of calls, batch size, set of plans
and limits:

* `TypeCorrect`: `TypeOK` is an invariant.
* `PlanInOrder`: the task being worked on is the first pending one
  (`PlanInv`). It needs that completing a task completes at least the one at
  `pos`, so that the next pending one lies beyond it, although the code finds
  tasks by ids that may repeat.
* `StepsCounted`: `StepInv`, the inductive form of the bound. At each node the
  supersteps so far are covered by the counters: one for each visit of the
  executor, two for each dispatch, three for each review. The bound itself is
  not inductive: it does not say how much of the current task's share is used.
  The delicate part is the rework: `iteration_count` is not zeroed by it, so a
  rework adds one visit beyond the iteration limit and at most
  `MaxRounds - 1` of them.
* `StepsBounded`: a request of n tasks takes at most `n * TaskCost + 3`
  supersteps, `TaskCost = 3 * MaxIterations + 4 * (MaxRounds - 1) + 2`.
* `RecursionLimitSpares`: when that is less than the recursion limit, the limit is
  never met. At equality a run can end in the error with its answer written,
  since LangGraph compares before it looks whether a node is left. With the code's
  values `TaskCost` is 30.

`AgentGraphTaskProofs` builds on it, under the same assumption, and proves the
remaining invariants of `safety`. None of them is inductive; what each needs is
at the end of `AgentGraphProperties`:

* `CallsRunOnce`: `NoRepeatedCall`. `HistoryInv`: what ran is in the action
  history, and a message on its way to the tools is in it once it is recorded.
* `TasksSandboxed`: `SandboxedExecution`. `SandboxInv`: before a plan starts the
  messages hold earlier turns' tool output at most.
* `DirectivesAreCurrent`: `DirectiveConcernsTask`. `DirectiveInv` says the same of
  every node of the task, since the notes are written nodes before they are read.
* `DeficientAnswersFlagged`: `DeficientAnswerIsFlagged`. `FlagInv`: tasks forced so
  far lie before the current one; it rests on `PlanInv`, by which the task manager
  only moves forward.
* `LastDraftRecorded`: `LastRoundRecorded`. `DraftInv` follows the draft from the
  executor's message over the extractor to the evaluator.
* `BudgetCharged` and `ToolsBounded`: `ToolCeiling`. `BudgetInv`: the batch on its
  way is charged to the counter before it runs, and the tasks before this one used
  at most their own shares. `ToolCeiling` alone does not survive the reset of the
  counter.
* `ResultsBelong`: `ResultsBelongToTheirTask`. `OwnDraftInv`: the draft was written
  for the current task; completing by id then touches that task only, since ids are
  distinct.

`AgentGraphRefinementProofs` assumes also that `Plans` holds well-formed plans
(`PlansWellFormed`: not empty, ids distinct and not 0, as the planner's prompt
demands) and proves `Refinement`: `Spec` implies `ImplementsPlanExecution`.
`FrontierInv` is the invariant it needs: the tasks completed are exactly those
before the current one. Each node is then mapped to one step: the guardrail to
`StartReply` or none, planner and bypass to `Plan`, the rework edge to `Rework`,
the task manager to `Complete`, the answering nodes to `Answer` or `Fail`, an error
or the recursion limit to `Fail`, everything else to no step. A forced acceptance
is the case the mapping of `rounds` is made for: the evaluator counts a round it
does not grant. Without the assumption the refinement is false; the graph completes
two tasks of one id at once.

`BookingPaymentsProofs` assumes only `PaymentsAssumption` (a positive price,
natural bounds, `None` is neither booking nor session) and proves, for all sets
of bookings, sessions and requests:

* `PaymentsTypeCorrect`: `TypeOK` is an invariant.
* `PaymentsAreCharged`: a payment row belongs to a session that was paid.
* `ConfirmedBookingsArePaid`: a booking that is Success has a payment row of a
  paid session.
* `ConfirmationIdempotent`: a booking that was not disturbed has one row at most.

The inductive invariant adds three parts. `RequestInv`: a request between its
read and its save holds a paid session of the booking it read. `EventInv`: Stripe
only delivers events of paid sessions. `OneRowInv`: while an undisturbed booking
is being confirmed there is one such request and no row yet, and once it has a
row it stays Success; without it nothing excludes that a row exists when the
save adds one.

`ChatMemoryProofs` assumes `ConversationAssumption` (a thread is of one kind, and
`None` is no request, thread or task), `ChatAssumption` (a cached prompt is similar
to itself, a reply has a piece) and `MemoryAssumption`. It proves, for any number of
requests, threads, drafts, pieces, restarts and crashes, every invariant and every
action property of the two chat runs:

* `TypeCorrect`: `TypeOK`.
* `Streams`: the invariant under the conversation's theorems. `Consistent` says what
  the place of a generator implies of its fields; a step of a generator that writes
  no checkpoint is `Calm`, and one lemma carries the histories over all such steps.
  `HistoryInv`: a run's messages end in its own prompt and its answers
  (`Latest`, `Ahead`), also after the cut of `NextTask`.
* `TurnsAreKept`: `FinishedTurnKept`. It is not inductive: that a turn is in the
  checkpoint does not save it from a run that loaded its messages earlier.
  `KeptInv` says that it also lies before the prompt of every run that can still
  write, which cuts behind its own prompt only; `OverlapInv` that two runs that can
  both write know of each other.
* `GaugesAddUp`: `MetricsAddUp`. A gauge is the cardinality of a finite set that one
  stream joins or leaves, without assuming that there are finitely many requests.
* `TasksAreConserved` and `TasksHaveConversations`: `TaskConserved` and
  `TaskHasConversation`. `TaskInv` keeps queue, hand, dead letters and
  acknowledgements apart, so that a redelivery cannot double a task.
* `FactsAreBounded`: `FactsPerReading`. `FactsInv` counts the delivery in hand, which
  has stored the facts it no longer holds.
* `AckedTurnsWereRead`: `AckedTurnWasRead`, from `Short` (how far the prompt of the
  latest turn is from the end) and the window of four messages.
* `CutRepliesAreCancelled` and `ReceiptsCoverReplies`: `CutRepliesWereCancelled` and
  `ReceiptCoversReply`, from `Consistent` before the step.

`AgentRuntimeProofs` assumes `McpAssumption` (the servers are a sequence of
distinct names), `LlmAssumption` (tiers and capacities are
positive) and `RuntimeAssumption`, and proves for every list of servers, any
capacities and any number of requests the following. `mcp_servers_config.json` is an
array of objects with a name each, one in the repository, and the client does not
compare the names: with a name given twice the second session would take the first
one's place in `sessions`, and the theorems would not apply.


* `TypeCorrect`: `TypeOK`.
* `OneHolder`: `CallersInv`. The manager's lock is held by the caller that opens
  or closes sessions and by nobody else; a cancelled caller gives it back.
* `SessionsManaged`: `ManagerInv`. Unless a caller was cancelled under the lock,
  flag, sessions, tools and stack agree. Its part `Opening` says what
  initialisation relies on: whoever opens sessions found none and opens each
  server's once. Only with the lock's holder alone does that survive the other
  callers' steps.
* `OneSessionEach` and `ToolsAreBacked`: `OneSessionPerServer` and
  `ToolsHaveSessions` follow.
* `PermitsBalance`: `PermitsInv`, and from it `PermitsAreConserved` and
  `NobodyWaitsInVain`: `PermitsConserved` and `WaitsForSomebody`. The sets of running
  and of woken requests of each semaphore are finite, and each step moves one request
  between them, the line (`LinesInv`) and the permits left. The attempt to prove that
  nobody sleeps while a permit is left failed, and rightly: with two permits a request
  that finds a waiter queues behind it, so a permit may stay while the woken waiter
  has not run yet. What holds, and what wakes everybody in the end, is that then
  somebody in the line has been woken, who wakes the next one.

`HotelSyncProofs` assumes `VectorAssumption`, `SyncAssumption` and
`DeliveryAssumption` (`None` is not a message) and proves, for any number of writers,
documents, messages, failures and crashes:

* `CreatorsAlone`: `CreatorInv`. Only a caller whose creation succeeded makes indexes,
  a collection has one such caller at most, and a missing collection has no index.
  `CollectionsIndexed`: `IndexedUnlessCreatorFailed` follows; it is not inductive.
* `SettledInOrder`: `OrderInv`. Queue, hand and settled messages are in the order of
  publication, also when a crash puts a delivery back at the head.
* `OneWriter`: `HomeInv`. Every caller writes to its own collection, and the call of
  the hotel handler is that of the message in hand.
* `DeadLettersHaveCause`: `DeadLetteredForCause`. It needs `CauseInv`, that a call
  without a failure is refused only while there is no hotel collection, and that every
  message settled until then was a deletion; and `ExistsInv`, that nobody creates the
  collection between the handler's check and its creation.
* `HotelsAreStored`: `StoredInv`, and from it `StoreFollows`: `StoreFollowsQueue`. A
  hotel is as its settled messages left it, except that the message in hand, or after
  a crash the one at the head of the queue, may have been written already. That one
  is settled before any later one, so its write is accounted for in time.

`MessageHistoryProofs` assumes `SearchAssumption` and `HistoryAssumption` (sizes and
bounds are naturals, searches are sequences of results) and proves, for every window,
budget, batch and search:

* `HistoryKept`: `HistoryInv`. The calls of a message belong to no other message and
  are either all answered right after it or not at all; an answer belongs to such a
  round and has at most `AnswerLimit` tokens. Removing the messages after the latest
  prompt, and a turn that fails anywhere, keep that.
* `PromptsFollowProtocol`: `PromptFollowsProtocol`. Sanitising is reasoned about by
  where each kept message lands (`Places`): a whole round moves together, since
  nothing inside it is dropped, and a message without answers loses its calls. Pruning
  keeps a suffix, so it can only separate answers from their calls at the front.
* `LatestRoundIsKept`: `LatestRoundKept`. `SearchKeepsBudget` shows that a compiled
  search has at most `Budget + Marker` tokens; a round is then a suffix whose
  size is at most the premise's sum, and pruning keeps the longest suffix that fits.

The library's induction theorems cannot be used by the installed provers, so what
recursive functions and `FlattenSeq` compute is proved from the least element of a
set of naturals: `LeastOf`, `ByInduction` (induction as a statement about sets) and
`Recursion` (a function that takes such steps exists).

The properties above are checked by TLC in the runs, and the inductive invariants
were checked on the same instances before they were proved. Every invariant of a
passing run is a theorem. Only model-checked: the liveness properties and the absence
of deadlock, which are out of the prover's reach.

## Not modelled

The wording of prompts, scores, token and cost accounting, tracing and logging;
authentication and message formats; the numeric ranking of retrieval, whose rank
fusion and BM25 the program never calls; remote reads (Amadeus, hotel search);
accounts, where the rotation of refresh tokens has no caller; configuration,
which is constant to the other parts; generated and start-up code; views,
dashboards, load tests and benchmarks. `PROJECT.json` gives the reason for each
component.
