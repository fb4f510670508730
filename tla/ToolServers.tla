---------------------------- MODULE ToolServers ----------------------------
(***************************************************************************)
(* The MCP client (mcp/mcp_client.py): sessions with the tool servers, in  *)
(* the serving process opened once by startup(), in LangGraph Studio by    *)
(* each call of the graph factory, which first asks the sessions for a     *)
(* sign of life and resets the manager when one is silent.                 *)
(***************************************************************************)
EXTENDS Integers, Sequences, FiniteSets, SequencesExt

CONSTANTS Main,        \* startup() of the serving process
          Callers,     \* Main, and the calls of the graph factory in Studio
          Servers,     \* mcp_servers_config.json, in order
          MaxDeaths,   \* bound on the sessions that die
          MaxLate      \* bound on the live sessions that miss the 2 s

Names == {Servers[i] : i \in DOMAIN Servers}

ASSUME McpAssumption ==
  /\ Main \in Callers
  /\ Servers \in Seq(Names)
  \* The file is an array of objects with a name each, which the client does not
  \* compare: a second server of one name would take the place of the first.
  /\ \A i, j \in DOMAIN Servers : Servers[i] = Servers[j] => i = j
  /\ MaxDeaths \in Nat /\ MaxLate \in Nat

VARIABLES studio,      \* which of the two processes this is
          configured,  \* the config file can be read
          step,        \* where each caller is
          silent,      \* the sessions a health check has not heard of yet
          lock,        \* {} or {the holder of the manager's lock}
          line,        \* the callers that wait for it, in order
          initialized, sessions, tools,
          stack,       \* the sessions on exit_stack
          alive,       \* the sessions whose server answers
          todo, loaded,  \* the initialisation under way
          graph,       \* the sessions behind the graph a caller got
          opened, deaths, late

mcpVars == <<studio, configured, step, silent, lock, line, initialized, sessions, tools, stack,
             alive, todo, loaded, graph, opened, deaths, late>>

McpInit ==
  /\ studio \in BOOLEAN /\ configured \in BOOLEAN
  /\ step = [c \in Callers |-> "idle"]
  /\ silent = [c \in Callers |-> {}]
  /\ lock = {} /\ line = <<>>
  /\ initialized = FALSE /\ sessions = {} /\ tools = {}
  /\ stack = {} /\ alive = {}
  /\ todo = <<>> /\ loaded = {}
  /\ graph = [c \in Callers |-> {}]
  /\ opened = 0 /\ deaths = 0 /\ late = 0

Goto(c, s) == step' = [step EXCEPT ![c] = s]

\* asyncio.Lock serves its waiters in order, also before a caller that returns.
Queue(c, s) == Goto(c, s) /\ line' = Append(line, c)

Released_NotOnCancel(c) == IF step'[c] = "abandoned" THEN lock ELSE lock \ {c}
Released(c) == lock \ {c}

Acquire(c) == lock = {} /\ line # <<>> /\ c = Head(line) /\ line' = Tail(line)

-----------------------------------------------------------------------------
\* startup() of the serving process.
Start ==
  /\ ~studio /\ step[Main] = "idle"
  /\ Queue(Main, "entering")
  /\ UNCHANGED <<studio, configured, silent, lock, initialized, sessions, tools, stack,
                 alive, todo, loaded, graph, opened, deaths, late>>

\* _get_dev_lock makes a new lock for every call: a lock's _loop is None until
\* somebody waits for it, hence never the running loop.  Nobody is kept out.
DevLockFree(c) == TRUE

\* create_agent_graph, up to the first session asked.
CallFactory(c) ==
  /\ studio /\ c # Main /\ step[c] = "idle"
  /\ DevLockFree(c)
  /\ IF initialized /\ sessions # {}
     THEN Goto(c, "checking") /\ silent' = [silent EXCEPT ![c] = sessions] /\ UNCHANGED line
     ELSE Queue(c, "entering") /\ UNCHANGED silent
  /\ UNCHANGED <<studio, configured, lock, initialized, sessions, tools, stack, alive,
                 todo, loaded, graph, opened, deaths, late>>

\* A session answers list_tools.
Hear(c) ==
  /\ step[c] = "checking"
  /\ \E s \in silent[c] \cap alive :
       /\ silent' = [silent EXCEPT ![c] = @ \ {s}]
       /\ IF silent[c] = {s} THEN Queue(c, "entering") ELSE UNCHANGED <<step, line>>
  /\ UNCHANGED <<studio, configured, lock, initialized, sessions, tools, stack, alive,
                 todo, loaded, graph, opened, deaths, late>>

\* A session is dead, or its answer comes too late.
Miss(c) ==
  /\ step[c] = "checking"
  /\ \/ silent[c] \ alive # {} /\ UNCHANGED late
     \/ silent[c] \cap alive # {} /\ late < MaxLate /\ late' = late + 1
  /\ Queue(c, "resetting")
  /\ silent' = [silent EXCEPT ![c] = {}]
  /\ UNCHANGED <<studio, configured, lock, initialized, sessions, tools, stack, alive,
                 todo, loaded, graph, opened, deaths>>

\* reset, up to exit_stack.aclose().
BeginReset(c) ==
  /\ step[c] = "resetting" /\ Acquire(c)
  /\ lock' = {c}
  /\ Goto(c, "closing")
  /\ UNCHANGED <<studio, configured, silent, initialized, sessions, tools, stack, alive,
                 todo, loaded, graph, opened, deaths, late>>

\* aclose() unwinds the stack, also when it is cancelled half way.
Close == stack' = {} /\ alive' = alive \ stack

\* One await of the reset's aclose(): the session entered last is closed.
CloseSession(c) ==
  /\ step[c] = "closing"
  /\ \E s \in stack :
       /\ \A u \in stack : u.nr <= s.nr
       /\ stack' = stack \ {s} /\ alive' = alive \ {s}
  /\ UNCHANGED <<studio, configured, step, silent, lock, line, initialized, sessions, tools,
                 todo, loaded, graph, opened, deaths, late>>

Cleared_KeepsTools == initialized' = FALSE /\ sessions' = {} /\ tools' = tools
Cleared == initialized' = FALSE /\ sessions' = {} /\ tools' = {}

EndReset(c) ==
  /\ step[c] = "closing" /\ stack = {}
  /\ Cleared
  /\ lock' = Released(c)
  /\ Queue(c, "entering")
  /\ UNCHANGED <<studio, configured, silent, stack, alive, todo, loaded, graph, opened,
                 deaths, late>>

-----------------------------------------------------------------------------
\* initialize_all_servers, up to the first server.
AlreadyDone_Unchecked == FALSE
AlreadyDone == initialized

Initialize(c) ==
  /\ step[c] = "entering" /\ Acquire(c)
  /\ \/ /\ AlreadyDone
        /\ graph' = [graph EXCEPT ![c] = tools]
        /\ Goto(c, "returned")
        /\ UNCHANGED <<lock, todo, loaded>>
     \/ /\ ~AlreadyDone /\ ~configured
        /\ Goto(c, "returned")
        /\ UNCHANGED <<lock, todo, loaded, graph>>
     \/ /\ ~AlreadyDone /\ configured
        /\ lock' = {c} /\ todo' = Servers /\ loaded' = {}
        /\ Goto(c, "connecting")
        /\ UNCHANGED graph
  /\ UNCHANGED <<studio, configured, silent, initialized, sessions, tools, stack, alive,
                 opened, deaths, late>>

\* The next server: it does not start, or its handshake fails, or its tools do
\* not load, or all is well.  A server that failed is passed over for good.
Connect(c) ==
  /\ step[c] = "connecting" /\ todo # <<>>
  /\ LET s == [server |-> Head(todo), nr |-> opened + 1] IN
       \/ UNCHANGED <<stack, alive, sessions, loaded, opened>>
       \/ /\ opened' = opened + 1
          /\ stack' = stack \cup {s} /\ alive' = alive \cup {s}
          /\ \/ UNCHANGED <<sessions, loaded>>
             \/ /\ sessions' = {x \in sessions : x.server # s.server} \cup {s}
                /\ loaded' = loaded \cup {s} \/ loaded' = loaded
  /\ todo' = Tail(todo)
  /\ UNCHANGED <<studio, configured, step, silent, lock, line, initialized, tools, graph, deaths, late>>

Finish(c) ==
  /\ step[c] = "connecting" /\ todo = <<>>
  /\ tools' = loaded /\ initialized' = TRUE
  /\ graph' = [graph EXCEPT ![c] = loaded]
  /\ loaded' = {}
  /\ lock' = Released(c)
  /\ Goto(c, "returned")
  /\ UNCHANGED <<studio, configured, silent, line, sessions, stack, alive, todo, opened, deaths, late>>

\* The caller's task is cancelled.  Under the manager's lock that leaves the
\* work half done: sessions opened, or closed but not forgotten.
CancelCaller(c) ==
  /\ step[c] \in {"checking", "resetting", "entering", "closing", "connecting"}
  /\ Goto(c, IF c \in lock THEN "abandoned" ELSE "cancelled")
  /\ lock' = Released(c) /\ line' = RemoveFirst(line, c)
  /\ silent' = [silent EXCEPT ![c] = {}]
  /\ IF c \in lock THEN todo' = <<>> /\ loaded' = {} ELSE UNCHANGED <<todo, loaded>>
  /\ IF step[c] = "closing" THEN Close ELSE UNCHANGED <<stack, alive>>
  /\ UNCHANGED <<studio, configured, initialized, sessions, tools, graph, opened, deaths, late>>

\* A tool server dies.
Death ==
  /\ deaths < MaxDeaths /\ deaths' = deaths + 1
  /\ \E s \in alive : alive' = alive \ {s}
  /\ UNCHANGED <<studio, configured, step, silent, lock, line, initialized, sessions, tools, stack,
                 todo, loaded, graph, opened, late>>

\* The serving process goes down: shutdown() closes the sessions without the lock.
Shutdown ==
  /\ step[Main] = "returned"
  /\ Goto(Main, "stopped")
  /\ Close
  /\ UNCHANGED <<studio, configured, silent, lock, line, initialized, sessions, tools, todo,
                 loaded, graph, opened, deaths, late>>

McpStep(c) ==
  \/ Hear(c) \/ Miss(c) \/ BeginReset(c) \/ CloseSession(c) \/ EndReset(c)
  \/ Initialize(c) \/ Connect(c) \/ Finish(c)
=============================================================================
