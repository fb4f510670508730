------------------------ MODULE AgentGraphProperties ------------------------
(* What one run of the agent graph promises.                               *)
EXTENDS AgentGraph

\* The rounds of one task: the first one, and the reworks the evaluator
\* really sends back.
MaxRounds == IF MaxRework = 0 THEN 1 ELSE MaxRework

\* The supersteps one task can take: MaxIterations + MaxRounds - 1 visits of
\* the executor, MaxIterations - 1 dispatches of two nodes, MaxRounds reviews
\* of three nodes, the task manager.
TaskCost == 3 * MaxIterations + 4 * (MaxRounds - 1) + 2

\* The executor runs once even for an empty plan.
TaskRuns == IF tasks = <<>> THEN 1 ELSE Len(tasks)

Executing == pc \in {"travel_react_agent", "action_tracker", "tools", "finding_extractor",
                     "fact_checker", "evaluator_agent", "task_manager"}

\* The plan a planner is asked for: "Unique incremental ID for the task".
WellFormed ==
  /\ tasks # <<>>
  /\ \A i \in DOMAIN tasks : tasks[i].id # 0
  /\ \A i, j \in DOMAIN tasks : tasks[i].id = tasks[j].id => i = j

-----------------------------------------------------------------------------
Triage == [in_domain : BOOLEAN, confident : BOOLEAN, faq : BOOLEAN, low : BOOLEAN]
Task == [id : Nat, desc : {"this", "earlier"}, status : {"pending", "completed"},
         result : Answers \cup {None}]
Feedback == [kind : {"none", "critique", "fallback"}, of : Answers \cup {None}]
FactCheck == [of : Answers \cup {None}, status : {"none", "no_tool_data", "verified"}]

\* Type invariant: every field of AgentState has the values its node writes.
TypeOK ==
  /\ pc \in Nodes \cup Ends
  /\ steps \in Nat
  /\ triage \in Triage
  /\ objective \in {None, "earlier", "this"}
  /\ tasks \in Seq(Task)
  /\ current_task_id \in Nat \cup {None}
  /\ pos \in Nat
  /\ iteration_count \in Nat
  /\ tool_call_count \in Nat
  /\ action_history \subseteq Calls
  /\ rework_count \in Nat
  /\ needs_rework \in BOOLEAN
  /\ evaluator_notes \in Nat \cup {None}
  /\ evaluator_feedback \in Feedback
  /\ forced_accept \in BOOLEAN
  /\ forced_tasks \subseteq Nat
  /\ raw_executor_output \in Answers \cup {None}
  /\ fact_check_result \in FactCheck
  /\ last_message \in [calls : Batches, of : Answers \cup {None}]
  /\ observations \subseteq Nat
  /\ tools_run \in Nat
  /\ invoked \subseteq Calls

\* The loops of the graph are bounded together: whatever the models answer, a
\* request runs a bounded number of supersteps per planned task (the counters
\* of evaluate_tool_hooks, the rework limit and the task manager's resets).
StepBound == steps <= TaskRuns * TaskCost + 3

\* The current task is the first pending one; the plan is worked off in order.
PlanInv ==
  /\ pc \in {"input_guardrail", "planner", "direct_executor_init"} \cup Replies => tasks = <<>>
  /\ Executing /\ tasks = <<>> => pos = 1 /\ current_task_id = None
  /\ Executing /\ tasks # <<>> =>
       /\ pos \in DOMAIN tasks
       /\ tasks[pos].id = current_task_id
       /\ \A i \in DOMAIN tasks : i < pos => tasks[i].status = "completed"

\* The supersteps before the current task and, by the counters, within it: the
\* executor's visits, two nodes for each dispatch, three for each review.
StepsBefore == 2 + (pos - 1) * TaskCost
Dispatches  == IF iteration_count < MaxIterations THEN iteration_count ELSE MaxIterations - 1
StepsWithin == iteration_count + 2 * Dispatches + 3 * rework_count

\* Why StepBound holds: at each node the steps so far are covered by the counters,
\* and a rework extends the iterations only by the visits beyond MaxIterations.
StepInv ==
  /\ pc = "input_guardrail" => steps = 0
  /\ pc \in {"planner", "direct_executor_init"} \cup Replies => steps = 1
  /\ pc = "travel_react_agent" =>
       /\ rework_count < MaxRounds
       /\ iteration_count <= MaxIterations - 1 + rework_count
       /\ steps <= StepsBefore + StepsWithin
  /\ pc \in {"action_tracker", "tools"} =>
       /\ rework_count < MaxRounds
       /\ iteration_count < MaxIterations
  /\ pc = "action_tracker" => steps + 2 <= StepsBefore + StepsWithin
  /\ pc = "tools" => steps + 1 <= StepsBefore + StepsWithin
  /\ pc \in {"finding_extractor", "fact_checker", "evaluator_agent"} =>
       /\ rework_count < MaxRounds
       /\ iteration_count <= MaxIterations + rework_count
  /\ pc = "finding_extractor" => steps <= StepsBefore + StepsWithin
  /\ pc = "fact_checker" => steps <= StepsBefore + StepsWithin + 1
  /\ pc = "evaluator_agent" => steps <= StepsBefore + StepsWithin + 2
  /\ pc = "task_manager" => steps <= StepsBefore + TaskCost - 1
  /\ pc = "final_synthesizer" => steps <= 2 + TaskRuns * TaskCost
  /\ pc \in Ends => steps <= 3 + TaskRuns * TaskCost

\* A request whose plan is short enough never runs into LangGraph's recursion
\* limit: the loop limits bound the supersteps before the framework does.
EnoughSteps == TaskRuns * TaskCost + 3 < RecursionLimit => pc # "recursion_error"

\* The tool budget of a request.  tool_call_count is compared before a batch
\* and zeroed for each task, so the request's invocations are bounded by the
\* tasks times the budget and one overshooting batch.
ToolCeiling == tools_run <= TaskRuns * (MaxToolCalls - 1 + MaxBatch)

\* Duplicate detection reaches across rework rounds and tasks: a call that ran
\* earlier in the request is never dispatched by a later message, although
\* the task manager zeroes the other counters.
NoRepeatedCall == pc = "action_tracker" => CallsOf(last_message.calls) \cap invoked = {}

\* Context sandboxing: while a task runs, messages hold no tool output of this
\* request's other tasks, which the executor and the fact checker would read.
SandboxedExecution == Executing => observations \subseteq {0, pos}

\* A rework directive injected into the executor's prompt is the evaluator's
\* advice about the task being reworked, never a previous task's or turn's:
\* evaluator_notes is not cleared, rework_count guards it.
DirectiveConcernsTask ==
  pc = "travel_react_agent" /\ rework_count > 0 => evaluator_notes \in {None, pos}

\* No answer the evaluator wants reworked reaches the task manager unflagged:
\* either it was accepted or forced_accept is set and it used every round.
DeficientAnswerIsFlagged ==
  pc = "task_manager" => /\ ~needs_rework
                         /\ forced_accept <=> pos \in forced_tasks
                         /\ forced_accept => rework_count >= MaxRework

\* The answer recorded for a task is the executor's last one: after a rework the
\* deficient draft is gone from raw_executor_output when the task completes.
LastRoundRecorded ==
  pc = "task_manager" =>
    raw_executor_output.round = IF forced_accept THEN rework_count - 1 ELSE rework_count

\* With a well-formed plan each completed task holds an answer the executor
\* wrote while it was given that very task, and all are completed at the end.
ResultsBelongToTheirTask ==
  WellFormed =>
    /\ \A i \in DOMAIN tasks :
         tasks[i].status = "completed" =>
           tasks[i].result # None /\ tasks[i].result.task = i
    /\ pc = "final_synthesizer" => Pending(tasks) = {}

\* An end of the graph's own: the framework's limit counts only where the
\* plan may use it up.
Ended ==
  \/ pc \in {"END", "error"}
  \/ pc = "recursion_error" /\ RecursionLimit <= TaskRuns * TaskCost + 3

\* Every request ends, with an answer or with an error a model or a tool raised:
\* "strict evaluator critiques never block final response delivery".
Answered == <>Ended

-----------------------------------------------------------------------------
(* The invariants of the proofs: why the properties above are kept. *)

Triaging == pc \in {"input_guardrail", "planner", "direct_executor_init"}

\* What ran is recorded, and a message about to be recorded repeats none of it.
HistoryInv ==
  /\ Triaging => invoked = {}
  /\ invoked \subseteq action_history
  /\ pc = "action_tracker" => CallsOf(last_message.calls) \cap action_history = {}
  /\ pc = "tools" => CallsOf(last_message.calls) \subseteq action_history

\* The invocations so far are paid for by the tasks before the current one and by
\* the counter, which charges a batch before the tools run it.
TaskBudget == MaxToolCalls - 1 + MaxBatch
Charged == IF pc = "tools" THEN tools_run + Len(last_message.calls) ELSE tools_run

BudgetInv ==
  /\ Triaging => tools_run = 0
  /\ pc = "action_tracker" => tool_call_count < MaxToolCalls
  /\ Executing => /\ tool_call_count <= TaskBudget
                  /\ Charged <= (pos - 1) * TaskBudget + tool_call_count

\* The request's budget covers what is charged, at its ends too.
ChargedWithin == Charged <= TaskRuns * TaskBudget

SandboxInv == (Triaging => observations \subseteq {0}) /\ SandboxedExecution

DirectiveInv == Executing /\ rework_count > 0 => evaluator_notes \in {None, pos}

\* Forced acceptances belong to earlier tasks until the evaluator forces this one's.
FlagInv ==
  /\ Triaging => forced_tasks = {}
  /\ Executing /\ pc # "task_manager" => \A t \in forced_tasks : t < pos
  /\ pc = "task_manager" => \A t \in forced_tasks : t <= pos

\* The draft on its way to the task manager is the current round's.
DraftInv ==
  /\ pc = "finding_extractor" =>
       last_message.of \in Answers /\ last_message.of.round = rework_count
  /\ pc \in {"fact_checker", "evaluator_agent"} =>
       raw_executor_output \in Answers /\ raw_executor_output.round = rework_count

\* With a well-formed plan it is also the current task's.
OwnDraftInv ==
  WellFormed =>
    /\ pc = "finding_extractor" => last_message.of \in Answers /\ last_message.of.task = pos
    /\ pc \in {"fact_checker", "evaluator_agent", "task_manager"} =>
         raw_executor_output \in Answers /\ raw_executor_output.task = pos
=============================================================================
