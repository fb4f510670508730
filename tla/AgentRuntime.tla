---------------------------- MODULE AgentRuntime ----------------------------
(***************************************************************************)
(* One process of the agent at work: its requests call the model under the *)
(* semaphores (LlmCalls), with the tools the registry binds to it, and the *)
(* graph's tool node runs them over the sessions of ToolServers.           *)
(***************************************************************************)
EXTENDS LlmCalls, ToolServers

CONSTANTS Registry,    \* the names AGENT_TOOL_REGISTRY allows the travel agent
          LocalTools   \* LOCAL_TOOLS; a server's tool goes by the server's name

ASSUME RuntimeAssumption == Callers = Requests \cup {Main} /\ Main \notin Requests

VARIABLES bound,       \* the tools of the cached, bound model
          used         \* what became of each request's tool call

runtimeVars == <<llmVars, mcpVars, bound, used>>

Init ==
  /\ LlmInit /\ McpInit
  /\ bound = None
  /\ used = [r \in Requests |-> None]

-----------------------------------------------------------------------------
\* The call that built the graph a request runs in.
Builder(r) == IF studio THEN r ELSE Main

Ready(r) == step[Builder(r)] = "returned"

\* build_workflow gives the tool node what initialize_all_servers returned.
NodeTools(r) == {s.server : s \in graph[Builder(r)]}

\* get_mcp_tools reads the manager of the serving process, which nobody
\* initialises in Studio.
get_mcp_tools == IF studio THEN {} ELSE {s.server : s \in tools}

get_tools_by_domain == (get_mcp_tools \cup LocalTools) \cap Registry

\* The executor's calls, of the second tier, take the model the process bound first.
CallModel(r, t) ==
  /\ Ready(r)
  /\ StartCall(r, t)
  /\ bound' = IF t = 2 /\ bound = None THEN get_tools_by_domain ELSE bound
  /\ UNCHANGED <<mcpVars, used>>

\* The executor's model asks for a tool it was bound to and the tool node looks for it.
CallTool(r, name) ==
  /\ call[r] = "answered" /\ tier[r] = 2 /\ used[r] = None
  /\ step[Main] # "stopped"
  /\ used' = [used EXCEPT ![r] =
       IF name \notin NodeTools(r) THEN "invalid"
       ELSE IF \E s \in graph[Builder(r)] \cap alive : s.server = name THEN "served"
       ELSE "failed"]
  /\ UNCHANGED <<llmVars, mcpVars, bound>>

Calling(r) == call[r] \in {"waiting", "running", "backoff"}

\* uvicorn lets the requests finish before the lifespan ends.
StopServing ==
  /\ \A r \in Requests : ~Calling(r)
  /\ Shutdown
  /\ UNCHANGED <<llmVars, bound, used>>

Cancel(r) ==
  \/ CancelCall(r) /\ UNCHANGED <<mcpVars, bound, used>>
  \/ CancelCaller(r) /\ UNCHANGED <<llmVars, bound, used>>

Next ==
  \/ (Start \/ Death) /\ UNCHANGED <<llmVars, bound, used>>
  \/ StopServing
  \/ \E c \in Callers : McpStep(c) /\ UNCHANGED <<llmVars, bound, used>>
  \/ \E r \in Requests :
       \/ CallFactory(r) /\ UNCHANGED <<llmVars, bound, used>>
       \/ \E t \in Tiers : CallModel(r, t)
       \/ LlmStep(r) /\ UNCHANGED <<mcpVars, bound, used>>
       \/ bound # None /\ \E name \in bound : CallTool(r, name)
       \/ Cancel(r)

Spec == Init /\ [][Next]_runtimeVars

-----------------------------------------------------------------------------
Session == [server : Names, nr : Nat]

Steps == {"idle", "checking", "resetting", "closing", "entering", "connecting",
          "returned", "cancelled", "abandoned", "stopped"}

\* Type invariant.
TypeOK ==
  /\ call \in [Requests -> {"none", "waiting", "running", "backoff", "answered", "failed", "cancelled"}]
  /\ tier \in [Requests -> Tiers \cup {None}]
  /\ attempt \in [Requests -> 0..MaxAttempts]
  /\ value \in [Guards -> Nat]
  /\ queue \in [Guards -> Seq(Requests)]
  /\ granted \subseteq Requests
  /\ step \in [Callers -> Steps]
  /\ silent \in [Callers -> SUBSET Session]
  /\ lock \in SUBSET Callers /\ line \in Seq(Callers)
  /\ studio \in BOOLEAN /\ configured \in BOOLEAN /\ initialized \in BOOLEAN
  /\ \A S \in {sessions, tools, stack, alive, loaded} : S \subseteq Session
  /\ graph \in [Callers -> SUBSET Session] /\ todo \in Seq(Names)
  /\ bound \in (SUBSET Registry) \cup {None}
  /\ used \in [Requests -> {None, "served", "invalid", "failed"}]
  /\ opened \in Nat /\ deaths \in 0..MaxDeaths /\ late \in 0..MaxLate

\* No permit is lost or doubled, whichever way attempts end: what is left, in
\* use and handed over always adds up to the capacity, and who sleeps while a
\* permit is left waits behind one that was handed a permit and will wake it
\* (asyncio.Semaphore, `async with sem` in invoke_llm_with_limit, a
\* cancellation between hand-over and wake-up).
PermitsConserved ==
  \A g \in Guards :
    /\ value[g] + Cardinality({r \in Requests : call[r] = "running" /\ Guard(r) = g})
                + Cardinality({r \in granted : Guard(r) = g}) = Permits[g]
    /\ value[g] > 0 /\ queue[g] # <<>> => \E i \in DOMAIN queue[g] : queue[g][i] \in granted

\* A caller cancelled under the lock left the manager half done.
Abandoned == \E c \in Callers : step[c] = "abandoned"

\* However many factory calls race, a server has one session: the test of
\* _is_initialized under the lock and the reset before it keep a second call
\* from launching it again.
OneSessionPerServer ==
  ~Abandoned => \A s, u \in stack : s.server = u.server => s = u

\* A reset is closing the sessions one by one.
Closing == \E c \in Callers : step[c] = "closing"

\* The manager hands out tools of sessions it has not closed, until the process
\* goes down: a reset takes sessions, tools and flag back together, and only while
\* it closes them are there tools whose session is gone.
ToolsHaveSessions ==
  ~Abandoned /\ step[Main] # "stopped" =>
    tools \subseteq sessions /\ (Closing \/ sessions \subseteq stack)

\* Nobody waits for nothing: who waits for a permit waits for a call that has
\* one or was handed one, and who holds the manager's lock is opening or
\* closing sessions, also after cancellations.
WaitsForSomebody ==
  /\ \A r \in Requests :
       call[r] = "waiting" =>
         \E w \in Requests : /\ call[w] = "running" \/ w \in granted
                             /\ Guard(w) = Guard(r)
  /\ \A c \in lock : step[c] \in {"closing", "connecting"}

-----------------------------------------------------------------------------
(* What the documents and comments say and the code does not do.            *)

\* "Always combine with LOCAL_TOOLS": the tools bound to the model are the
\* tools the graph's tool node can run.
BoundToolsAreServed ==
  \A r \in Requests : used[r] = "invalid" => NodeTools(r) # Names

\* "the session stays alive throughout the runtime": a reset closes no session
\* whose server still answers.
LiveSessionsKept ==
  ~Abandoned => \A c \in Callers : step[c] = "closing" => stack \cap alive = {}

-----------------------------------------------------------------------------
(* The invariants of the proofs: why no permit is lost.                     *)

Running(g) == {r \in Requests : call[r] = "running" /\ Guard(r) = g}
Handed(g)  == {r \in granted : Guard(r) = g}

\* Who waits stands once in the line of its semaphore, and nobody else does.
LinesInv ==
  \A g \in Guards :
    /\ \A i, j \in DOMAIN queue[g] : queue[g][i] = queue[g][j] => i = j
    /\ \A i \in DOMAIN queue[g] : call[queue[g][i]] = "waiting" /\ Guard(queue[g][i]) = g
    /\ \A r \in Requests : call[r] = "waiting" /\ Guard(r) = g => r \in ToSet(queue[g])

\* An attempt goes on as long as there are attempts left.
CallsInv ==
  /\ call \in [Requests -> {"none", "waiting", "running", "backoff", "answered", "failed", "cancelled"}]
  /\ tier \in [Requests -> Tiers \cup {None}]
  /\ attempt \in [Requests -> 0..MaxAttempts]
  /\ value \in [Guards -> Nat] /\ queue \in [Guards -> Seq(Requests)]
  /\ \A r \in Requests : call[r] = "backoff" => attempt[r] < MaxAttempts
  /\ granted \subseteq Requests /\ \A r \in granted : call[r] = "waiting"

PermitsInv ==
  /\ CallsInv /\ LinesInv /\ PermitsConserved
  /\ \A g \in Guards : IsFiniteSet(Running(g)) /\ IsFiniteSet(Handed(g))

-----------------------------------------------------------------------------
(* The invariants of the proofs: why the sessions are kept in order.        *)

Holding == {"closing", "connecting"}

\* The lock is held by the one caller that is opening or closing sessions; the
\* serving process has one caller, Studio's process only the factory's.
CallersInv ==
  /\ step \in [Callers -> Steps]
  /\ lock = {c \in Callers : step[c] \in Holding}
  /\ \A c, d \in lock : c = d
  /\ \A c \in Callers : step[c] # "idle" => (studio <=> c # Main)
  /\ \A c \in Callers : step[c] = "stopped" => c = Main

\* Whoever opens sessions found none, and opens each server's once.
Opening ==
  /\ ~initialized /\ tools = {} /\ loaded \subseteq sessions
  /\ todo \in Seq(Names)
  /\ \A i, j \in DOMAIN todo : todo[i] = todo[j] => i = j
  /\ \A s \in stack, i \in DOMAIN todo : s.server # todo[i]

ManagerInv ==
  ~Abandoned =>
    /\ OneSessionPerServer
    /\ step[Main] = "stopped" => stack = {}
    /\ step[Main] # "stopped" =>
         /\ tools \subseteq sessions /\ (Closing \/ sessions \subseteq stack)
         /\ ~initialized /\ lock = {} => stack = {}
    /\ \A c \in Callers : step[c] = "connecting" => Opening
=============================================================================
