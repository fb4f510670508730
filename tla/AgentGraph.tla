----------------------------- MODULE AgentGraph -----------------------------
(***************************************************************************)
(* One request's run through the LangGraph workflow of agent/app/graph:    *)
(* guardrail, planner, ReAct executor with its tools, extractor, fact      *)
(* checker, evaluator with its rework loop, task manager, synthesizer.     *)
(*                                                                         *)
(* pc is the node LangGraph runs next.  An action is one superstep: the    *)
(* node's handler followed by the conditional edge that leaves it.  What   *)
(* the language models answer is an arbitrary choice; texts are replaced   *)
(* by their provenance, the task and the rework round they were written    *)
(* for.  The fields of AgentState keep their names.                        *)
(***************************************************************************)
EXTENDS Integers, Sequences

CONSTANTS
  Calls,          \* tool calls, up to equality of generate_tool_hash
  MaxBatch,       \* bound: tool calls in one message of the executor
  Plans,          \* the id sequences the planner's model may return
  MaxIterations,  \* MAX_ITERATIONS
  MaxToolCalls,   \* MAX_TOOL_CALLS
  MaxRework,      \* MAX_REWORK_CYCLES = settings.max_rework_cycles
  RecursionLimit, \* trace_config["recursion_limit"]
  None            \* Python's None, or a field that was never written

ASSUME GraphAssumption ==
  /\ MaxBatch \in Nat
  /\ MaxIterations \in Nat \ {0}
  /\ MaxToolCalls \in Nat \ {0}
  /\ MaxRework \in Nat
  /\ RecursionLimit \in Nat
  /\ \A plan \in Plans : plan \in Seq(Nat)
  /\ None \notin Nat \cup [task : Nat \cup {None}, round : Nat]

VARIABLES
  pc,                  \* the next node, or how the run ended
  triage,              \* is_in_domain, intent_confidence, intent_category, complexity
  objective,           \* the request objective was derived from
  tasks,               \* the plan
  current_task_id,
  iteration_count,
  tool_call_count,
  action_history,      \* hashes of dispatched calls, as a set
  rework_count,
  needs_rework,
  evaluator_notes,     \* the task the notes are about; None when empty
  evaluator_feedback,
  forced_accept,
  raw_executor_output, \* with extracted_findings: the answer extracted last
  fact_check_result,
  last_message,        \* messages[-1] where a node or an edge reads it
  observations,        \* the tasks whose ToolMessages are in messages; 0: earlier turns
  steps,               \* supersteps run, counted by LangGraph
  pos,                 \* history: index of the task current_task_id was taken from
  tools_run,           \* history: tool invocations of the whole request
  invoked,             \* history: the calls invoked by the whole request
  forced_tasks         \* history: tasks whose deficient answer was accepted

planVars   == <<tasks, current_task_id, pos>>
loopVars   == <<iteration_count, tool_call_count, action_history>>
reviewVars == <<rework_count, needs_rework, evaluator_notes, evaluator_feedback,
                forced_accept, forced_tasks>>
outputVars == <<raw_executor_output, fact_check_result>>
msgVars    == <<last_message, observations, tools_run, invoked>>
routeVars  == <<triage, objective>>

vars == <<pc, steps, planVars, loopVars, reviewVars, outputVars, msgVars, routeVars>>

-----------------------------------------------------------------------------
Batches == UNION {[1..n -> Calls] : n \in 0..MaxBatch}
CallsOf(batch) == {batch[i] : i \in DOMAIN batch}

\* The provenance of a text the executor wrote: the task its prompt named and
\* the rework round.  task = None: the prompt named no task.
Answers == [task : Nat \cup {None}, round : Nat]

Replies == {"out_of_domain", "clarification_agent", "support_agent"}
Nodes   == {"input_guardrail", "planner", "direct_executor_init",
            "travel_react_agent", "action_tracker", "tools",
            "finding_extractor", "fact_checker", "evaluator_agent",
            "task_manager", "final_synthesizer"} \cup Replies
Ends    == {"END", "error", "recursion_error"}

NewTask_Unset(id, desc) == [id |-> id, desc |-> desc, status |-> None, result |-> None]
NewTask(id, desc) ==
  [id |-> id, desc |-> desc, status |-> "pending", result |-> None]

\* The task named in the executor's prompt: _build_task_context looks the id
\* up in the plan, and finds nothing when the id is falsy.
ActiveTask ==
  LET matches == {i \in DOMAIN tasks : tasks[i].id = current_task_id}
  IN  IF current_task_id \in {None, 0} \/ matches = {}
      THEN None
      ELSE CHOOSE i \in matches : \A j \in matches : i <= j

Pending(plan) == {i \in DOMAIN plan : plan[i].status = "pending"}

\* The task the task manager advances to: the first pending one, if any.
NextTask_Any(plan) == Pending(plan)
NextTask(plan) == {i \in Pending(plan) : \A j \in Pending(plan) : i <= j}

\* LangGraph counts a superstep per node and raises GraphRecursionError
\* instead of starting one beyond the limit.  It compares the count before it
\* looks whether a node is left to run: a run whose last node used up the
\* limit is raised too, its answer written.
Enter(node) == pc = node /\ steps < RecursionLimit /\ steps' = steps + 1
Finished == IF steps' < RecursionLimit THEN "END" ELSE "recursion_error"

-----------------------------------------------------------------------------
(* Conditional edges *)

RouteFromGuardrail(t) ==
  CASE ~t.in_domain -> "out_of_domain"
    [] t.in_domain /\ ~t.confident -> "clarification_agent"
    [] t.in_domain /\ t.confident /\ t.faq -> "support_agent"
    [] t.in_domain /\ t.confident /\ ~t.faq /\ t.low -> "direct_executor_init"
    [] OTHER -> "planner"

\* The iteration and budget safeguards of evaluate_tool_hooks.
WithinLimits_OffByOne(iterations) ==
  iterations <= MaxIterations /\ tool_call_count < MaxToolCalls
WithinLimits_BudgetAsCeiling(iterations) ==
  iterations < MaxIterations /\ tool_call_count <= MaxToolCalls
WithinLimits(iterations) ==
  iterations < MaxIterations /\ tool_call_count < MaxToolCalls

\* evaluate_tool_hooks: tools run only when calls were asked for and no
\* safeguard trips; anything else ends the executor's turn.
EvaluateToolHooks(batch, iterations) ==
  IF /\ batch # <<>>
     /\ WithinLimits(iterations)
     /\ CallsOf(batch) \cap action_history = {}
  THEN "action_tracker"
  ELSE "finding_extractor"

RouteFromEvaluator(rework, count) ==
  IF rework /\ count < MaxRework THEN "travel_react_agent" ELSE "task_manager"

RouteFromTaskManager(id) ==
  IF id # None THEN "travel_react_agent" ELSE "final_synthesizer"

-----------------------------------------------------------------------------
(* The state a request starts in: chat_stream_service resets the plan and   *)
(* the counters; the other fields come from the checkpoint of the user's    *)
(* previous turn, when there is one.                                        *)

Init ==
  /\ pc = "input_guardrail"
  /\ steps = 0
  /\ \E stale \in BOOLEAN, confident \in BOOLEAN :
       /\ stale \/ confident
       /\ triage = [in_domain |-> TRUE, confident |-> confident,
                    faq |-> FALSE, low |-> FALSE]
       /\ objective = IF stale THEN "earlier" ELSE None
       /\ observations = IF stale THEN {0} ELSE {}
       /\ needs_rework \in IF stale THEN BOOLEAN ELSE {FALSE}
       /\ raw_executor_output = IF stale THEN [task |-> None, round |-> 0] ELSE None
       /\ forced_accept \in IF stale THEN BOOLEAN ELSE {FALSE}
       /\ evaluator_notes = IF stale THEN 0 ELSE None
       /\ fact_check_result = [of |-> None, status |-> IF stale THEN "verified" ELSE "none"]
  /\ tasks = <<>>
  /\ current_task_id = None
  /\ pos = 0
  /\ iteration_count = 0
  /\ tool_call_count = 0
  /\ action_history = {}
  /\ rework_count = 0
  /\ evaluator_feedback = [kind |-> "none", of |-> None]
  /\ last_message = [calls |-> <<>>, of |-> None]
  /\ tools_run = 0
  /\ invoked = {}
  /\ forced_tasks = {}

-----------------------------------------------------------------------------
(* Nodes *)

\* A failed classification keeps the confidence and the objective that are in
\* the state; an out-of-domain one keeps the confidence.
InputGuardrail ==
  /\ Enter("input_guardrail")
  /\ \/ \E confident, faq, low \in BOOLEAN :
          /\ triage' = [in_domain |-> TRUE, confident |-> confident,
                        faq |-> faq, low |-> low]
          /\ objective' = "this"
     \/ /\ triage' = [triage EXCEPT !.in_domain = FALSE, !.faq = FALSE, !.low = TRUE]
        /\ objective' = "this"
     \/ /\ triage' = [triage EXCEPT !.in_domain = TRUE, !.faq = FALSE, !.low = TRUE]
        /\ UNCHANGED objective
  /\ pc' = RouteFromGuardrail(triage')
  /\ UNCHANGED <<planVars, loopVars, reviewVars, outputVars, msgVars>>

\* The nodes that answer without a plan; a model's error ends the run.
OutOfDomain ==
  /\ Enter("out_of_domain")
  /\ pc' = Finished
  /\ UNCHANGED <<planVars, loopVars, reviewVars, outputVars, msgVars, routeVars>>

SupportAgent ==
  /\ Enter("support_agent")
  /\ pc' \in {Finished, "error"}
  /\ UNCHANGED <<planVars, loopVars, reviewVars, outputVars, msgVars, routeVars>>

ClarificationAgent ==
  /\ Enter("clarification_agent")
  /\ pc' \in {Finished, "error"}
  /\ UNCHANGED <<planVars, loopVars, reviewVars, outputVars, msgVars, routeVars>>

\* The loop counters planner, direct_executor_init and task_manager zero.
ZeroCounters_KeepRework ==
  iteration_count' = 0 /\ tool_call_count' = 0 /\ UNCHANGED rework_count
ZeroCounters ==
  iteration_count' = 0 /\ tool_call_count' = 0 /\ rework_count' = 0

\* What planner and direct_executor_init share: a fresh plan and zeroed loops.
StartPlan(plan) ==
  /\ tasks' = plan
  /\ current_task_id' = IF plan = <<>> THEN None ELSE plan[1].id
  /\ pos' = 1
  /\ ZeroCounters
  /\ action_history' = {}
  /\ pc' = "travel_react_agent"
  /\ UNCHANGED <<needs_rework, evaluator_notes, evaluator_feedback, forced_accept,
                 forced_tasks, outputVars, msgVars, routeVars>>

Planner ==
  /\ Enter("planner")
  /\ \/ \E ids \in Plans :
          StartPlan([i \in 1..Len(ids) |-> NewTask(ids[i], "this")])
     \/ StartPlan(<<NewTask(1, "this")>>)   \* structured output failed

DirectExecutorInit ==
  /\ Enter("direct_executor_init")
  /\ StartPlan(<<NewTask(1, IF objective = None THEN "this" ELSE objective)>>)

TravelReactAgent ==
  /\ Enter("travel_react_agent")
  /\ \/ \E batch \in Batches :
          /\ iteration_count' = iteration_count + 1
          /\ last_message' = [calls |-> batch,
                              of |-> [task |-> ActiveTask, round |-> rework_count]]
          /\ pc' = EvaluateToolHooks(batch, iteration_count')
     \/ /\ pc' = "error"                    \* the model's error escapes
        /\ UNCHANGED <<iteration_count, last_message>>
  /\ UNCHANGED <<tool_call_count, action_history, observations, tools_run, invoked,
                 planVars, reviewVars, outputVars, routeVars>>

Recorded_LastOnly(batch) == CallsOf(batch)
Recorded(batch) == action_history \cup CallsOf(batch)

\* The calls are charged and recorded before any of them runs.
ActionTracker ==
  /\ Enter("action_tracker")
  /\ action_history' = Recorded(last_message.calls)
  /\ tool_call_count' = tool_call_count + Len(last_message.calls)
  /\ pc' = "tools"
  /\ UNCHANGED <<iteration_count, planVars, reviewVars, outputVars, msgVars, routeVars>>

\* ToolNode answers every call of the last message with a ToolMessage.
Tools ==
  /\ Enter("tools")
  /\ \/ /\ observations' = observations \cup {pos}
        /\ last_message' = [calls |-> <<>>, of |-> None]
        /\ pc' = "travel_react_agent"
     \/ /\ pc' = "error"
        /\ UNCHANGED <<observations, last_message>>
  /\ tools_run' = tools_run + Len(last_message.calls)
  /\ invoked' = invoked \cup CallsOf(last_message.calls)
  /\ UNCHANGED <<planVars, loopVars, reviewVars, outputVars, routeVars>>

Extracted_KeepFirst(text) == IF raw_executor_output = None THEN text ELSE raw_executor_output
Extracted(text) == text

\* With or without the model's help, the output is the last message's text.
FindingExtractor ==
  /\ Enter("finding_extractor")
  /\ raw_executor_output' = Extracted(last_message.of)
  /\ pc' = "fact_checker"
  /\ UNCHANGED <<fact_check_result, planVars, loopVars, reviewVars, msgVars, routeVars>>

\* A failed check returns {}: the previous result stays in the state.
FactChecker ==
  /\ Enter("fact_checker")
  /\ \/ fact_check_result' =
          [of |-> raw_executor_output,
           status |-> IF observations = {} THEN "no_tool_data" ELSE "verified"]
     \/ observations # {} /\ UNCHANGED fact_check_result
  /\ pc' = "evaluator_agent"
  /\ UNCHANGED <<raw_executor_output, planVars, loopVars, reviewVars, msgVars, routeVars>>

LimitReached_Strict(count) == count > MaxRework
LimitReached(count) == count >= MaxRework

\* rework: the model asks for another round; a failed evaluation never does.
\* advice: it says how.  At the limit the answer is accepted all the same.
EvaluatorAgent ==
  /\ Enter("evaluator_agent")
  /\ \E rework, advice \in BOOLEAN :
       LET count  == IF rework THEN rework_count + 1 ELSE rework_count
           forced == rework /\ LimitReached(count)
       IN  /\ rework_count' = count
           /\ needs_rework' = (rework /\ ~forced)
           /\ forced_accept' = forced
           /\ evaluator_notes' = IF advice THEN pos ELSE None
           /\ evaluator_feedback' = [kind |-> IF forced THEN "fallback" ELSE "critique",
                                     of |-> raw_executor_output]
           /\ forced_tasks' = IF forced THEN forced_tasks \cup {pos} ELSE forced_tasks
           /\ pc' = RouteFromEvaluator(needs_rework', rework_count')
  /\ UNCHANGED <<planVars, loopVars, outputVars, msgVars, routeVars>>

Completed_Unmarked(plan) ==
  [i \in DOMAIN plan |->
     IF plan[i].id = current_task_id
     THEN [plan[i] EXCEPT !.result = raw_executor_output]
     ELSE plan[i]]
Completed_ByStatus(plan) ==
  [i \in DOMAIN plan |->
     IF plan[i].status = "pending"
     THEN [plan[i] EXCEPT !.status = "completed", !.result = raw_executor_output]
     ELSE plan[i]]
Completed(plan) ==
  [i \in DOMAIN plan |->
     IF plan[i].id = current_task_id
     THEN [plan[i] EXCEPT !.status = "completed", !.result = raw_executor_output]
     ELSE plan[i]]

Sandboxed_KeepAll(obs) == obs
Sandboxed(obs) == obs \cap {0}

\* Every task with the current id is completed; the next pending one starts
\* with fresh counters and without the messages after the user's.  The action
\* history is kept.
TaskManager ==
  /\ Enter("task_manager")
  /\ tasks' = Completed(tasks)
  /\ \/ \E next \in NextTask(tasks') :
          /\ pos' = next
          /\ current_task_id' = tasks'[next].id
          /\ ZeroCounters
          /\ raw_executor_output' = None
          /\ observations' = Sandboxed(observations)
          /\ last_message' = [calls |-> <<>>, of |-> None]
     \/ /\ Pending(tasks') = {}
        /\ current_task_id' = None
        /\ UNCHANGED <<pos, iteration_count, tool_call_count, rework_count,
                       raw_executor_output, observations, last_message>>
  /\ pc' = RouteFromTaskManager(current_task_id')
  /\ UNCHANGED <<action_history, needs_rework, evaluator_notes, evaluator_feedback,
                 forced_accept, forced_tasks, fact_check_result, tools_run, invoked,
                 routeVars>>

FinalSynthesizer ==
  /\ Enter("final_synthesizer")
  /\ pc' \in {Finished, "error"}
  /\ UNCHANGED <<planVars, loopVars, reviewVars, outputVars, msgVars, routeVars>>

\* GraphRecursionError
RecursionError ==
  /\ pc \in Nodes
  /\ steps >= RecursionLimit
  /\ pc' = "recursion_error"
  /\ UNCHANGED <<steps, planVars, loopVars, reviewVars, outputVars, msgVars, routeVars>>

Node ==
  \/ InputGuardrail \/ Planner \/ DirectExecutorInit
  \/ OutOfDomain \/ SupportAgent \/ ClarificationAgent
  \/ TravelReactAgent \/ ActionTracker \/ Tools
  \/ FindingExtractor \/ FactChecker \/ EvaluatorAgent
  \/ TaskManager \/ FinalSynthesizer
  \/ RecursionError

Done == pc \in Ends /\ UNCHANGED vars

Next == Node \/ Done

\* The event loop runs the scheduled node, and every model call has a timeout.
Fairness == WF_vars(Node)

Spec == Init /\ [][Next]_vars
FairSpec == Spec /\ Fairness
=============================================================================
