------------------------ MODULE AgentGraphTaskProofs ------------------------
(* Theorems about the tasks of one run: tool calls, tool output, directives, *)
(* drafts and results, for every set of calls and plans and all limits.      *)
EXTENDS AgentGraphProofs

\* Where each node goes; a plan starts from triage alone and nothing returns to it.
LEMMA Routes ==
  ASSUME [Next]_vars
  PROVE  /\ InputGuardrail => pc = "input_guardrail"
                              /\ pc' \in {"planner", "direct_executor_init"} \cup Replies
         /\ Planner \/ DirectExecutorInit => Triaging /\ pc' = "travel_react_agent"
         /\ OutOfDomain \/ SupportAgent \/ ClarificationAgent \/ FinalSynthesizer
              => pc' \in Ends
         /\ RecursionError => pc' \in Ends
         /\ TravelReactAgent => pc = "travel_react_agent"
                                /\ pc' \in {"action_tracker", "finding_extractor", "error"}
         /\ ActionTracker => pc = "action_tracker" /\ pc' = "tools"
         /\ Tools => pc = "tools" /\ pc' \in {"travel_react_agent", "error"}
         /\ FindingExtractor => pc = "finding_extractor" /\ pc' = "fact_checker"
         /\ FactChecker => pc = "fact_checker" /\ pc' = "evaluator_agent"
         /\ EvaluatorAgent => pc = "evaluator_agent"
                              /\ pc' \in {"travel_react_agent", "task_manager"}
         /\ TaskManager => pc = "task_manager"
                           /\ pc' \in {"travel_react_agent", "final_synthesizer"}
<1>1. InputGuardrail => pc = "input_guardrail"
                        /\ pc' \in {"planner", "direct_executor_init"} \cup Replies
  BY DEF InputGuardrail, Enter, RouteFromGuardrail, Replies
<1>2. Planner \/ DirectExecutorInit => Triaging /\ pc' = "travel_react_agent"
  BY DEF Planner, DirectExecutorInit, Enter, StartPlan, Triaging
<1>3. /\ OutOfDomain \/ SupportAgent \/ ClarificationAgent \/ FinalSynthesizer => pc' \in Ends
      /\ RecursionError => pc' \in Ends
  BY DEF OutOfDomain, SupportAgent, ClarificationAgent, FinalSynthesizer, RecursionError,
         Finished, Ends
<1>4. /\ TravelReactAgent => pc = "travel_react_agent"
                             /\ pc' \in {"action_tracker", "finding_extractor", "error"}
      /\ ActionTracker => pc = "action_tracker" /\ pc' = "tools"
      /\ Tools => pc = "tools" /\ pc' \in {"travel_react_agent", "error"}
  BY DEF TravelReactAgent, ActionTracker, Tools, EvaluateToolHooks, Enter
<1>5. /\ FindingExtractor => pc = "finding_extractor" /\ pc' = "fact_checker"
      /\ FactChecker => pc = "fact_checker" /\ pc' = "evaluator_agent"
  BY DEF FindingExtractor, FactChecker, Enter
<1>6. /\ EvaluatorAgent => pc = "evaluator_agent"
                           /\ pc' \in {"travel_react_agent", "task_manager"}
      /\ TaskManager => pc = "task_manager"
                        /\ pc' \in {"travel_react_agent", "final_synthesizer"}
  BY DEF EvaluatorAgent, RouteFromEvaluator, TaskManager, RouteFromTaskManager, Enter
<1>7. QED
  BY <1>1, <1>2, <1>3, <1>4, <1>5, <1>6

\* The steps after which no node of a task runs.
Leaving ==
  InputGuardrail \/ OutOfDomain \/ SupportAgent \/ ClarificationAgent
  \/ FinalSynthesizer \/ RecursionError

Planning == Planner \/ DirectExecutorInit

\* The steps by their role.
LEMMA StepKinds ==
  ASSUME [Next]_vars
  PROVE  \/ Leaving \/ Planning
         \/ TravelReactAgent \/ ActionTracker \/ Tools
         \/ FindingExtractor \/ FactChecker \/ EvaluatorAgent \/ TaskManager
         \/ UNCHANGED vars
BY DEF Next, Node, Done, Leaving, Planning

LEMMA PlanningStarts ==
  ASSUME TypeOK, Planning
  PROVE  \E plan \in Seq(Task) : StartPlan(plan)
BY PlannerPlan, DirectPlan DEF Planning

\* Such a step leaves everything but the route, the steps and triage as it is.
LEMMA LeavingLeaves ==
  ASSUME [Next]_vars, Leaving
  PROVE  /\ UNCHANGED <<planVars, loopVars, reviewVars, outputVars, msgVars>>
         /\ ~Executing' /\ pc' # "task_manager"
         /\ Triaging' => Triaging
<1>1. UNCHANGED <<planVars, loopVars, reviewVars, outputVars, msgVars>>
  BY DEF Leaving, InputGuardrail, OutOfDomain, SupportAgent, ClarificationAgent,
         FinalSynthesizer, RecursionError
<1>2. QED
  BY <1>1, Routes DEF Leaving, Executing, Triaging, Replies, Ends

\* The evaluator accepts the answer, accepts it because the rounds are used up, or
\* sends it back.
LEMMA EvaluatorOutcome ==
  ASSUME TypeOK, EvaluatorAgent
  PROVE  \/ /\ pc' = "task_manager" /\ rework_count' = rework_count
            /\ ~forced_accept' /\ ~needs_rework' /\ forced_tasks' = forced_tasks
         \/ /\ pc' = "task_manager" /\ rework_count' = rework_count + 1
            /\ rework_count' >= MaxRework
            /\ forced_accept' /\ ~needs_rework' /\ forced_tasks' = forced_tasks \cup {pos}
         \/ /\ pc' = "travel_react_agent" /\ rework_count' = rework_count + 1
            /\ rework_count' < MaxRework /\ forced_tasks' = forced_tasks
<1>1. PICK rework \in BOOLEAN :
        LET count  == IF rework THEN rework_count + 1 ELSE rework_count
            forced == rework /\ LimitReached(count)
        IN  /\ rework_count' = count
            /\ needs_rework' = (rework /\ ~forced)
            /\ forced_accept' = forced
            /\ forced_tasks' = IF forced THEN forced_tasks \cup {pos} ELSE forced_tasks
            /\ pc' = RouteFromEvaluator(needs_rework', rework_count')
  BY DEF EvaluatorAgent
<1>2. CASE rework = FALSE
  BY <1>1, <1>2 DEF RouteFromEvaluator
<1>3. CASE rework = TRUE /\ LimitReached(rework_count + 1)
  <2>1. /\ rework_count' = rework_count + 1 /\ needs_rework' = FALSE /\ forced_accept' = TRUE
        /\ forced_tasks' = forced_tasks \cup {pos}
        /\ pc' = RouteFromEvaluator(needs_rework', rework_count')
    BY <1>1, <1>3
  <2>2. QED
    BY <1>3, <2>1 DEF RouteFromEvaluator, LimitReached
<1>4. CASE rework = TRUE /\ ~LimitReached(rework_count + 1)
  <2>1. /\ rework_count' = rework_count + 1 /\ needs_rework' = TRUE
        /\ forced_tasks' = forced_tasks
        /\ pc' = RouteFromEvaluator(needs_rework', rework_count')
    BY <1>1, <1>4
  <2>2. rework_count + 1 < MaxRework
    BY <1>4, GraphAssumption DEF LimitReached, TypeOK
  <2>3. QED
    BY <2>1, <2>2 DEF RouteFromEvaluator
<1>5. QED
  BY <1>2, <1>3, <1>4

-----------------------------------------------------------------------------
(* No call runs twice *)

\* A call that ran earlier in the request is never dispatched by a later message:
\* the action history grows with every dispatch and only a new plan clears it.
THEOREM CallsRunOnce == Spec => []NoRepeatedCall
<1>1. Init => HistoryInv
  BY DEF Init, HistoryInv
<1>2. TypeOK /\ HistoryInv /\ [Next]_vars => HistoryInv'
  <2> SUFFICES ASSUME TypeOK, HistoryInv, [Next]_vars PROVE HistoryInv'
    OBVIOUS
  <2> USE DEF loopVars, msgVars
  <2>1. CASE Leaving
    BY <2>1, LeavingLeaves DEF HistoryInv, Executing, Triaging
  <2>2. CASE Planning
    <3>1. action_history' = {} /\ invoked' = {} /\ pc' = "travel_react_agent"
      BY <2>2, PlanningStarts, Routes DEF Planning, StartPlan, HistoryInv
    <3>2. QED
      BY <3>1 DEF HistoryInv, Triaging
  <2>3. CASE TravelReactAgent
    <3>1. UNCHANGED <<action_history, invoked>>
      BY <2>3 DEF TravelReactAgent
    <3>2. pc' = "action_tracker" => CallsOf(last_message'.calls) \cap action_history' = {}
      BY <2>3, <3>1 DEF TravelReactAgent, EvaluateToolHooks
    <3>3. QED
      BY <2>3, <3>1, <3>2, Routes DEF HistoryInv, Triaging
  <2>4. CASE ActionTracker
    <3>1. action_history' = action_history \cup CallsOf(last_message.calls)
          /\ UNCHANGED msgVars
      BY <2>4 DEF ActionTracker, Recorded
    <3>2. QED
      BY <2>4, <3>1, Routes DEF HistoryInv, Triaging, CallsOf
  <2>5. CASE Tools
    <3>1. invoked' = invoked \cup CallsOf(last_message.calls) /\ UNCHANGED action_history
      BY <2>5 DEF Tools
    <3>2. QED
      BY <2>5, <3>1, Routes DEF HistoryInv, Triaging
  <2>6. CASE FindingExtractor \/ FactChecker \/ EvaluatorAgent \/ TaskManager
    <3>1. UNCHANGED <<action_history, invoked>>
      BY <2>6 DEF FindingExtractor, FactChecker, EvaluatorAgent, TaskManager
    <3>2. QED
      BY <2>6, <3>1, Routes DEF HistoryInv, Triaging
  <2>7. CASE UNCHANGED vars
    BY <2>7 DEF vars, HistoryInv, Triaging, CallsOf
  <2>8. QED
    BY <2>1, <2>2, <2>3, <2>4, <2>5, <2>6, <2>7, StepKinds
<1>3. HistoryInv => NoRepeatedCall
  BY DEF HistoryInv, NoRepeatedCall
<1>4. QED
  BY <1>1, <1>2, <1>3, TypeCorrect, PTL DEF Spec

-----------------------------------------------------------------------------
(* Tasks are kept apart *)

\* The task manager moves on to another task with fresh counters, or to the answer.
LEMMA TaskManagerMoves ==
  ASSUME TypeOK, TaskManager
  PROVE  \/ /\ pc' = "final_synthesizer"
            /\ Pending(tasks') = {}
            /\ UNCHANGED <<pos, rework_count, tool_call_count, observations>>
         \/ /\ pc' = "travel_react_agent"
            /\ rework_count' = 0 /\ tool_call_count' = 0
            /\ observations' = observations \cap {0}
<1>1. CASE Pending(tasks') = {}
  BY <1>1 DEF TaskManager, NextTask, RouteFromTaskManager
<1>2. CASE Pending(tasks') # {}
  <2>1. PICK next \in Pending(tasks') :
          /\ current_task_id' = tasks'[next].id
          /\ ZeroCounters /\ observations' = Sandboxed(observations)
    BY <1>2 DEF TaskManager, NextTask
  <2>2. tasks' \in Seq(Task) /\ next \in 1..Len(tasks')
    BY CompletedType DEF TaskManager, Pending
  <2>3. tasks'[next].id \in Nat
    <3>1. tasks'[next] \in Task
      BY <2>2, ElementOfSeq
    <3>2. QED
      BY <3>1 DEF Task
  <2>4. current_task_id' # None
    BY <2>1, <2>3, GraphAssumption
  <2>5. QED
    BY <2>1, <2>4 DEF TaskManager, RouteFromTaskManager, ZeroCounters, Sandboxed
<1>3. QED
  BY <1>1, <1>2

LEMMA NextPosType ==
  ASSUME TypeOK, TaskManager
  PROVE  pos' \in Nat
<1>1. CASE Pending(tasks') = {}
  BY <1>1 DEF TaskManager, NextTask, TypeOK
<1>2. CASE Pending(tasks') # {}
  <2>1. pos' \in Pending(tasks')
    BY <1>2 DEF TaskManager, NextTask
  <2>2. tasks' \in Seq(Task)
    BY CompletedType DEF TaskManager
  <2>3. QED
    BY <2>1, <2>2 DEF Pending
<1>3. QED
  BY <1>1, <1>2

\* While a task runs, messages hold no tool output of the request's other tasks:
\* the next task starts without the messages of the one before.
THEOREM TasksSandboxed == Spec => []SandboxedExecution
<1>1. Init => SandboxInv
  <2> SUFFICES ASSUME Init PROVE SandboxInv
    OBVIOUS
  <2>1. observations \subseteq {0}
    BY DEF Init
  <2>2. QED
    BY <2>1 DEF Init, SandboxInv, SandboxedExecution, Executing
<1>2. TypeOK /\ SandboxInv /\ [Next]_vars => SandboxInv'
  <2> SUFFICES ASSUME TypeOK, SandboxInv, [Next]_vars PROVE SandboxInv'
    OBVIOUS
  <2> USE DEF planVars, msgVars
  <2>1. CASE Leaving
    BY <2>1, LeavingLeaves DEF SandboxInv, SandboxedExecution, Executing, Triaging
  <2>2. CASE Planning
    <3>1. observations' = observations /\ pos' = 1
      BY <2>2, PlanningStarts DEF StartPlan
    <3>2. observations \subseteq {0} /\ pc' = "travel_react_agent"
      BY <2>2, Routes DEF Planning, SandboxInv
    <3>3. QED
      BY <3>1, <3>2 DEF SandboxInv, SandboxedExecution, Triaging
  <2>3. CASE Tools
    <3>1. observations' \in {observations, observations \cup {pos}} /\ pos' = pos /\ Executing
      BY <2>3, Routes DEF Tools, Executing
    <3>2. QED
      BY <2>3, <3>1, Routes DEF SandboxInv, SandboxedExecution, Triaging
  <2>4. CASE TravelReactAgent \/ ActionTracker \/ FindingExtractor \/ FactChecker \/ EvaluatorAgent
    <3>1. observations' = observations /\ pos' = pos
      BY <2>4 DEF TravelReactAgent, ActionTracker, FindingExtractor, FactChecker, EvaluatorAgent
    <3>2. Executing /\ ~Triaging'
      BY <2>4, Routes DEF Executing, Triaging
    <3>3. QED
      BY <3>1, <3>2 DEF SandboxInv, SandboxedExecution
  <2>5. CASE TaskManager
    BY <2>5, TaskManagerMoves DEF SandboxInv, SandboxedExecution, Executing, Triaging
  <2>6. CASE UNCHANGED vars
    BY <2>6 DEF vars, SandboxInv, SandboxedExecution, Executing, Triaging
  <2>7. QED
    BY <2>1, <2>2, <2>3, <2>4, <2>5, <2>6, StepKinds
<1>3. SandboxInv => SandboxedExecution
  BY DEF SandboxInv
<1>4. QED
  BY <1>1, <1>2, <1>3, TypeCorrect, PTL DEF Spec

\* A directive in the executor's prompt is about the task it works on: the notes
\* stay in the state for good, but rework_count, which guards them, is zeroed.
THEOREM DirectivesAreCurrent == Spec => []DirectiveConcernsTask
<1>1. Init => DirectiveInv
  BY DEF Init, DirectiveInv
<1>2. TypeOK /\ DirectiveInv /\ [Next]_vars => DirectiveInv'
  <2> SUFFICES ASSUME TypeOK, DirectiveInv, [Next]_vars PROVE DirectiveInv'
    OBVIOUS
  <2> USE DEF planVars, reviewVars, DirectiveInv
  <2>1. CASE Leaving
    BY <2>1, LeavingLeaves
  <2>2. CASE Planning
    BY <2>2, PlanningStarts DEF StartPlan, ZeroCounters
  <2>3. CASE TravelReactAgent \/ ActionTracker \/ Tools \/ FindingExtractor \/ FactChecker
    <3>1. UNCHANGED <<pos, rework_count, evaluator_notes>>
      BY <2>3 DEF TravelReactAgent, ActionTracker, Tools, FindingExtractor, FactChecker
    <3>2. Executing
      BY <2>3, Routes DEF Executing
    <3>3. QED
      BY <3>1, <3>2
  <2>4. CASE EvaluatorAgent
    BY <2>4 DEF EvaluatorAgent
  <2>5. CASE TaskManager
    BY <2>5, TaskManagerMoves DEF Executing
  <2>6. CASE UNCHANGED vars
    BY <2>6 DEF vars, Executing
  <2>7. QED
    BY <2>1, <2>2, <2>3, <2>4, <2>5, <2>6, StepKinds
<1>3. DirectiveInv => DirectiveConcernsTask
  BY DEF DirectiveInv, DirectiveConcernsTask, Executing
<1>4. QED
  BY <1>1, <1>2, <1>3, TypeCorrect, PTL DEF Spec

\* An answer the evaluator wanted reworked reaches the task manager only flagged,
\* and only after the last round: the flag names this task, no earlier one.
THEOREM DeficientAnswersFlagged == Spec => []DeficientAnswerIsFlagged
<1>1. Init => FlagInv /\ DeficientAnswerIsFlagged
  BY DEF Init, FlagInv, DeficientAnswerIsFlagged, Executing
<1>2. TypeOK /\ PlanInv /\ FlagInv /\ DeficientAnswerIsFlagged /\ [Next]_vars
        => FlagInv' /\ DeficientAnswerIsFlagged'
  <2> SUFFICES ASSUME TypeOK, PlanInv, FlagInv, DeficientAnswerIsFlagged, [Next]_vars
               PROVE  FlagInv' /\ DeficientAnswerIsFlagged'
    OBVIOUS
  <2> USE DEF planVars, reviewVars
  <2>0. pos \in Nat /\ forced_tasks \subseteq Nat
    BY DEF TypeOK
  <2>1. CASE Leaving
    BY <2>1, LeavingLeaves DEF FlagInv, DeficientAnswerIsFlagged
  <2>2. CASE Planning
    <3>1. forced_tasks' = {} /\ pc' = "travel_react_agent"
      BY <2>2, PlanningStarts, Routes DEF Planning, StartPlan, FlagInv
    <3>2. QED
      BY <3>1 DEF FlagInv, DeficientAnswerIsFlagged, Triaging
  <2>3. CASE TravelReactAgent \/ ActionTracker \/ Tools \/ FindingExtractor \/ FactChecker
    <3>1. UNCHANGED <<pos, forced_tasks>>
      BY <2>3 DEF TravelReactAgent, ActionTracker, Tools, FindingExtractor, FactChecker
    <3>2. Executing /\ pc # "task_manager" /\ pc' # "task_manager" /\ ~Triaging'
      BY <2>3, Routes DEF Executing, Triaging
    <3>3. QED
      BY <3>1, <3>2 DEF FlagInv, DeficientAnswerIsFlagged
  <2>4. CASE EvaluatorAgent
    <3>1. pos \notin forced_tasks /\ \A t \in forced_tasks : t < pos /\ t <= pos
      BY <2>0, <2>4, Routes DEF FlagInv, Executing
    <3>2. pos' = pos
      BY <2>4 DEF EvaluatorAgent
    <3>3. pos <= pos
      BY <2>0
    <3>4. QED
      BY <2>4, <3>1, <3>2, <3>3, EvaluatorOutcome DEF FlagInv, DeficientAnswerIsFlagged, Triaging
  <2>5. CASE TaskManager
    <3>1. forced_tasks' = forced_tasks /\ \A t \in forced_tasks : t <= pos
      BY <2>5, Routes DEF TaskManager, FlagInv
    <3>2. CASE pc' = "final_synthesizer"
      BY <3>2 DEF FlagInv, DeficientAnswerIsFlagged, Triaging, Executing
    <3>3. CASE pc' = "travel_react_agent"
      <4>1. pos' > pos /\ pos' \in Nat
        BY <2>5, <3>3, PlanInvTaskManager, NextPosType DEF Executing
      <4>2. \A t \in forced_tasks' : t < pos'
        BY <2>0, <3>1, <4>1
      <4>3. QED
        BY <3>3, <4>2 DEF FlagInv, DeficientAnswerIsFlagged, Triaging
    <3>4. QED
      BY <2>5, <3>2, <3>3, Routes
  <2>6. CASE UNCHANGED vars
    BY <2>6 DEF vars, FlagInv, DeficientAnswerIsFlagged, Executing, Triaging
  <2>7. QED
    BY <2>1, <2>2, <2>3, <2>4, <2>5, <2>6, StepKinds
<1>3. QED
  BY <1>1, <1>2, TypeCorrect, PlanInOrder, PTL DEF Spec

\* The answer recorded for a task is the executor's last one: drafts that were
\* sent back never reach the task manager.
THEOREM LastDraftRecorded == Spec => [](DraftInv /\ LastRoundRecorded)
<1>1. Init => DraftInv /\ LastRoundRecorded
  BY DEF Init, DraftInv, LastRoundRecorded
<1>2. TypeOK /\ DraftInv /\ LastRoundRecorded /\ [Next]_vars => DraftInv' /\ LastRoundRecorded'
  <2> SUFFICES ASSUME TypeOK, DraftInv, LastRoundRecorded, [Next]_vars
               PROVE  DraftInv' /\ LastRoundRecorded'
    OBVIOUS
  <2> USE DEF reviewVars, outputVars, msgVars
  <2>1. CASE TravelReactAgent
    <3>1. ActiveTask \in Nat \cup {None}
      BY DEF ActiveTask, TypeOK
    <3>2. [task |-> ActiveTask, round |-> rework_count] \in Answers
      BY <3>1 DEF Answers, TypeOK
    <3>3. pc' = "finding_extractor" =>
            last_message'.of = [task |-> ActiveTask, round |-> rework_count]
      BY <2>1 DEF TravelReactAgent
    <3>4. rework_count' = rework_count
      BY <2>1 DEF TravelReactAgent
    <3>5. QED
      BY <2>1, <3>2, <3>3, <3>4, Routes DEF DraftInv, LastRoundRecorded
  <2>2. CASE FindingExtractor
    <3>1. raw_executor_output' = last_message.of /\ rework_count' = rework_count
      BY <2>2 DEF FindingExtractor, Extracted
    <3>2. QED
      BY <2>2, <3>1, Routes DEF DraftInv, LastRoundRecorded
  <2>3. CASE FactChecker
    <3>1. UNCHANGED <<raw_executor_output, rework_count>>
      BY <2>3 DEF FactChecker
    <3>2. QED
      BY <2>3, <3>1, Routes DEF DraftInv, LastRoundRecorded
  <2>4. CASE EvaluatorAgent
    <3>1. raw_executor_output.round = rework_count /\ rework_count \in Nat
      BY <2>4, Routes DEF DraftInv, TypeOK
    <3>2. raw_executor_output' = raw_executor_output
      BY <2>4 DEF EvaluatorAgent
    <3>3. rework_count + 1 - 1 = rework_count
      BY <3>1
    <3>4. QED
      BY <2>4, <3>1, <3>2, <3>3, EvaluatorOutcome DEF DraftInv, LastRoundRecorded
  <2>5. CASE Leaving \/ Planning \/ ActionTracker \/ Tools \/ TaskManager
    <3>1. pc' \notin {"finding_extractor", "fact_checker", "evaluator_agent", "task_manager"}
      BY <2>5, Routes, LeavingLeaves DEF Leaving, Planning, Executing
    <3>2. QED
      BY <3>1 DEF DraftInv, LastRoundRecorded
  <2>6. CASE UNCHANGED vars
    BY <2>6 DEF vars, DraftInv, LastRoundRecorded
  <2>7. QED
    BY <2>1, <2>2, <2>3, <2>4, <2>5, <2>6, StepKinds
<1>3. QED
  BY <1>1, <1>2, TypeCorrect, PTL DEF Spec

-----------------------------------------------------------------------------
(* The tool budget *)

LEMMA BudgetType == TaskBudget \in Nat /\ TaskBudget = MaxToolCalls - 1 + MaxBatch
BY GraphAssumption DEF TaskBudget

LEMMA ChargesType == ASSUME TypeOK PROVE Charged \in Nat /\ TaskRuns * TaskBudget \in Int
<1>1. Charged \in Nat
  BY BatchFacts DEF Charged, TypeOK
<1>2. TaskRuns * TaskBudget \in Int
  BY BudgetType DEF TaskRuns, TypeOK
<1>3. QED
  BY <1>1, <1>2

\* A task's share of the budget ends where the next task's begins, and the last
\* one's within the request's.
LEMMA BudgetShares ==
  ASSUME TypeOK, PlanInv, Executing
  PROVE  /\ (pos - 1) * TaskBudget \in Nat
         /\ (pos - 1) * TaskBudget + TaskBudget <= TaskRuns * TaskBudget
         /\ \A later \in Nat : later > pos =>
              (pos - 1) * TaskBudget + TaskBudget <= (later - 1) * TaskBudget
<1>1. Len(tasks) \in Nat /\ DOMAIN tasks = 1..Len(tasks) /\ (tasks # <<>> => Len(tasks) > 0)
  BY DEF TypeOK
<1>2. pos \in 1..TaskRuns /\ TaskRuns \in Nat \ {0}
  BY <1>1 DEF PlanInv, TaskRuns, TypeOK
<1>3. pos - 1 \in Nat /\ pos \in Nat /\ pos <= TaskRuns /\ TaskBudget \in Nat
  BY <1>2, BudgetType
<1>4. (pos - 1) * TaskBudget \in Nat /\ pos * TaskBudget = (pos - 1) * TaskBudget + TaskBudget
  BY <1>3
<1>5. TaskRuns * TaskBudget \in Nat /\ pos * TaskBudget <= TaskRuns * TaskBudget
  BY <1>2, <1>3, ProductMonotone
<1>6. \A later \in Nat : later > pos => pos * TaskBudget <= (later - 1) * TaskBudget
  <2> SUFFICES ASSUME NEW later \in Nat, later > pos
               PROVE  pos * TaskBudget <= (later - 1) * TaskBudget
    OBVIOUS
  <2>1. later - 1 \in Nat /\ pos <= later - 1
    BY <1>3
  <2>2. QED
    BY <1>3, <2>1, ProductMonotone
<1>7. QED
  BY <1>4, <1>5, <1>6

\* The counter pays for a batch before the tools run it, and the task manager's
\* reset opens the next task's share of the request's budget.
THEOREM BudgetCharged == Spec => []BudgetInv
<1>1. Init => BudgetInv
  BY DEF Init, BudgetInv, Executing, Triaging
<1>2. TypeOK /\ PlanInv /\ BudgetInv /\ [Next]_vars => BudgetInv'
  <2> SUFFICES ASSUME TypeOK, PlanInv, BudgetInv, [Next]_vars PROVE BudgetInv'
    OBVIOUS
  <2> USE DEF planVars, loopVars, msgVars
  <2>0. /\ tools_run \in Nat /\ tool_call_count \in Nat /\ pos \in Nat
        /\ Len(last_message.calls) \in Nat /\ Len(last_message.calls) <= MaxBatch
    BY BatchFacts DEF TypeOK
  <2>1. CASE Leaving
    BY <2>1, LeavingLeaves DEF BudgetInv, Triaging, Executing
  <2>2. CASE Planning
    <3>1. tools_run' = tools_run /\ tool_call_count' = 0 /\ pos' = 1
      BY <2>2, PlanningStarts DEF StartPlan, ZeroCounters
    <3>2. tools_run = 0 /\ pc' = "travel_react_agent"
      BY <2>2, Routes DEF Planning, BudgetInv
    <3>3. (pos' - 1) * TaskBudget + tool_call_count' = 0
      BY <3>1, BudgetType
    <3>4. QED
      BY <3>1, <3>2, <3>3, BudgetType DEF BudgetInv, Triaging, Charged
  <2>3. CASE TravelReactAgent
    <3>1. UNCHANGED <<tools_run, tool_call_count, pos>> /\ pc = "travel_react_agent"
      BY <2>3 DEF TravelReactAgent, Enter
    <3>2. pc' = "action_tracker" => tool_call_count < MaxToolCalls
      BY <2>3 DEF TravelReactAgent, EvaluateToolHooks, WithinLimits
    <3>3. pc' # "tools" /\ ~Triaging'
      BY <2>3, Routes DEF Triaging
    <3>4. QED
      BY <3>1, <3>2, <3>3 DEF BudgetInv, Charged, Executing
  <2>4. CASE ActionTracker
    <3>1. /\ tool_call_count' = tool_call_count + Len(last_message.calls)
          /\ UNCHANGED <<tools_run, pos, last_message>>
          /\ pc = "action_tracker" /\ pc' = "tools"
      BY <2>4, Routes DEF ActionTracker
    <3>2. /\ tool_call_count < MaxToolCalls
          /\ tools_run <= (pos - 1) * TaskBudget + tool_call_count
      BY <3>1 DEF BudgetInv, Charged, Executing
    <3>3. tool_call_count' <= TaskBudget
      BY <2>0, <3>1, <3>2, BudgetType, GraphAssumption
    <3>4. PICK share \in Nat : share = (pos - 1) * TaskBudget
      BY <3>1, BudgetShares DEF Executing
    <3>5. tools_run + Len(last_message.calls)
            <= share + (tool_call_count + Len(last_message.calls))
      BY <2>0, <3>2, <3>4
    <3>6. QED
      BY <3>1, <3>3, <3>4, <3>5 DEF BudgetInv, Charged, Executing, Triaging
  <2>5. CASE Tools
    <3>1. /\ tools_run' = tools_run + Len(last_message.calls)
          /\ UNCHANGED <<tool_call_count, pos>>
          /\ pc = "tools" /\ pc' \in {"travel_react_agent", "error"}
      BY <2>5, Routes DEF Tools
    <3>2. QED
      BY <3>1 DEF BudgetInv, Charged, Executing, Triaging
  <2>6. CASE FindingExtractor \/ FactChecker \/ EvaluatorAgent
    <3>1. UNCHANGED <<tools_run, tool_call_count, pos>>
      BY <2>6 DEF FindingExtractor, FactChecker, EvaluatorAgent
    <3>2. /\ Executing /\ pc # "tools" /\ ~Triaging'
          /\ pc' \notin {"tools", "action_tracker"}
      BY <2>6, Routes DEF Executing, Triaging
    <3>3. QED
      BY <3>1, <3>2 DEF BudgetInv, Charged
  <2>7. CASE TaskManager
    <3>1. Executing /\ pc = "task_manager" /\ tools_run' = tools_run
      BY <2>7, Routes DEF Executing, TaskManager
    <3>2. CASE pc' = "final_synthesizer"
      BY <3>2 DEF BudgetInv, Executing, Triaging
    <3>3. CASE pc' = "travel_react_agent"
      <4>1. pos' > pos /\ pos' \in Nat /\ tool_call_count' = 0
        BY <2>7, <3>3, PlanInvTaskManager, NextPosType, TaskManagerMoves DEF Executing
      <4>2. PICK share \in Nat, next \in Int :
              /\ share = (pos - 1) * TaskBudget /\ next = (pos' - 1) * TaskBudget
              /\ share + TaskBudget <= next
        BY <3>1, <4>1, BudgetShares, BudgetType
      <4>3. tools_run <= share + tool_call_count /\ tool_call_count <= TaskBudget
        BY <3>1, <4>2 DEF BudgetInv, Charged
      <4>4. tools_run <= next + 0
        BY <2>0, <4>2, <4>3, BudgetType
      <4>5. QED
        BY <3>1, <3>3, <4>1, <4>2, <4>4, BudgetType DEF BudgetInv, Charged, Executing, Triaging
    <3>4. QED
      BY <2>7, <3>2, <3>3, Routes
  <2>8. CASE UNCHANGED vars
    BY <2>8 DEF vars, BudgetInv, Charged, Executing, Triaging
  <2>9. QED
    BY <2>1, <2>2, <2>3, <2>4, <2>5, <2>6, <2>7, <2>8, StepKinds
<1>3. QED
  BY <1>1, <1>2, TypeCorrect, PlanInOrder, PTL DEF Spec

\* However often the per-task counter is zeroed, a request's tool invocations stay
\* within its tasks' budgets and one overshooting batch for each.
THEOREM ToolsBounded == Spec => []ToolCeiling
<1>1. Init => ChargedWithin
  <2> SUFFICES ASSUME Init PROVE ChargedWithin
    OBVIOUS
  <2>1. Charged = 0 /\ TaskRuns = 1
    BY DEF Init, Charged, TaskRuns
  <2>2. QED
    BY <2>1, BudgetType DEF ChargedWithin
<1>2. TypeOK /\ PlanInv /\ BudgetInv => (Executing => ChargedWithin)
  <2> SUFFICES ASSUME TypeOK, PlanInv, BudgetInv, Executing PROVE ChargedWithin
    OBVIOUS
  <2>1. PICK share \in Nat, all \in Int :
          /\ share = (pos - 1) * TaskBudget /\ all = TaskRuns * TaskBudget
          /\ share + TaskBudget <= all
    BY ChargesType, BudgetShares
  <2>2. PICK charged \in Nat : charged = Charged
    BY ChargesType
  <2>3. charged <= share + tool_call_count /\ tool_call_count <= TaskBudget
    BY <2>1, <2>2 DEF BudgetInv
  <2>4. charged <= all
    BY <2>1, <2>3, BudgetType DEF TypeOK
  <2>5. QED
    BY <2>1, <2>2, <2>4 DEF ChargedWithin
<1>3. TypeOK /\ TypeOK' /\ ChargedWithin /\ (Executing' => ChargedWithin')
     /\ [Next]_vars => ChargedWithin'
  <2> SUFFICES ASSUME TypeOK, TypeOK', ChargedWithin, ~Executing', [Next]_vars
               PROVE  ChargedWithin'
    OBVIOUS
  <2> USE DEF planVars, msgVars
  <2>1. tools_run \in Nat /\ Len(last_message.calls) \in Nat
    BY BatchFacts DEF TypeOK
  <2>2. Charged' = tools_run'
    BY DEF Charged, Executing
  <2>3. TaskRuns' = TaskRuns /\ tools_run' <= Charged
    <3>1. CASE Leaving \/ UNCHANGED vars
      <4>1. UNCHANGED <<tasks, tools_run>>
        BY <3>1, LeavingLeaves DEF vars
      <4>2. QED
        BY <2>1, <4>1 DEF TaskRuns, Charged
    <3>2. CASE TravelReactAgent
      BY <2>1, <3>2 DEF TravelReactAgent, TaskRuns, Charged
    <3>3. CASE Tools
      BY <2>1, <3>3, Routes DEF Tools, TaskRuns, Charged
    <3>4. CASE TaskManager
      <4>1. TaskRuns' = TaskRuns
        <5>1. tasks' \in Seq(Task) /\ Len(tasks') = Len(tasks) /\ tasks \in Seq(Task)
          BY <3>4, CompletedType DEF TaskManager, TypeOK
        <5>2. tasks' = <<>> <=> tasks = <<>>
          BY <5>1
        <5>3. QED
          BY <5>1, <5>2 DEF TaskRuns
      <4>2. tools_run' = tools_run
        BY <3>4 DEF TaskManager
      <4>3. QED
        BY <2>1, <4>1, <4>2 DEF Charged
    <3>5. ~(Planning \/ ActionTracker \/ FindingExtractor \/ FactChecker \/ EvaluatorAgent)
      BY Routes DEF Planning, Executing
    <3>6. QED
      BY <3>1, <3>2, <3>3, <3>4, <3>5, StepKinds
  <2>4. TaskRuns * TaskBudget = TaskRuns' * TaskBudget
    BY <2>3
  <2>5. QED
    <3>1. PICK charged \in Nat, all \in Int : charged = Charged /\ all = TaskRuns * TaskBudget
      BY ChargesType
    <3>2. charged <= all
      BY <3>1 DEF ChargedWithin
    <3>3. tools_run' \in Nat
      BY DEF TypeOK
    <3>4. QED
      BY <2>2, <2>3, <2>4, <3>1, <3>2, <3>3 DEF ChargedWithin
<1>4. TypeOK /\ ChargedWithin => ToolCeiling
  <2> SUFFICES ASSUME TypeOK, ChargedWithin PROVE ToolCeiling
    OBVIOUS
  <2>1. tools_run \in Nat /\ Len(last_message.calls) \in Nat
    BY BatchFacts DEF TypeOK
  <2>2. PICK charged \in Nat, all \in Int : charged = Charged /\ all = TaskRuns * TaskBudget
    BY ChargesType
  <2>3. tools_run <= charged /\ charged <= all
    BY <2>1, <2>2 DEF Charged, ChargedWithin
  <2>4. tools_run <= all
    BY <2>1, <2>3
  <2>5. QED
    BY <2>2, <2>4 DEF ToolCeiling, TaskBudget
<1>5. QED
  BY <1>1, <1>2, <1>3, <1>4, TypeCorrect, PlanInOrder, BudgetCharged, PTL DEF Spec

-----------------------------------------------------------------------------
(* Results *)

\* In a well-formed plan the prompt names the task that is worked on.
LEMMA PromptNamesTask ==
  ASSUME TypeOK, PlanInv, WellFormed, Executing
  PROVE  ActiveTask = pos /\ pos \in Nat
<1>1. pos \in DOMAIN tasks /\ tasks[pos].id = current_task_id /\ pos \in Nat
  BY DEF PlanInv, WellFormed, TypeOK
<1>2. DOMAIN tasks = 1..Len(tasks) /\ tasks[pos] \in Task
  BY <1>1, ElementOfSeq DEF TypeOK
<1>3. current_task_id \in Nat /\ current_task_id # 0
  BY <1>1, <1>2 DEF Task, WellFormed
<1>4. {i \in DOMAIN tasks : tasks[i].id = current_task_id} = {pos}
  BY <1>1 DEF WellFormed
<1>5. pos <= pos
  BY <1>1
<1>6. QED
  BY <1>1, <1>3, <1>4, <1>5, GraphAssumption DEF ActiveTask

\* A new plan is pending as a whole.
LEMMA PlansArePending ==
  ASSUME TypeOK, Planning
  PROVE  \A i \in DOMAIN tasks' : tasks'[i].status = "pending"
<1>1. CASE \E ids \in Plans :
             StartPlan([i \in 1..Len(ids) |-> NewTask(ids[i], "this")])
  BY <1>1 DEF StartPlan, NewTask
<1>2. ASSUME NEW desc, StartPlan(<<NewTask(1, desc)>>)
      PROVE  \A i \in DOMAIN tasks' : tasks'[i].status = "pending"
  <2>1. tasks' = <<NewTask(1, desc)>>
    BY <1>2 DEF StartPlan
  <2>2. DOMAIN tasks' = {1} /\ tasks'[1] = NewTask(1, desc)
    BY <2>1
  <2>3. QED
    BY <2>2 DEF NewTask
<1>3. QED
  BY <1>1, <1>2 DEF Planning, Planner, DirectExecutorInit

\* With a plan of distinct ids, every task gets an answer the executor wrote for it.
THEOREM ResultsBelong == Spec => []ResultsBelongToTheirTask
<1>1. Init => OwnDraftInv /\ ResultsBelongToTheirTask
  BY DEF Init, OwnDraftInv, ResultsBelongToTheirTask, WellFormed
<1>2. TypeOK /\ PlanInv /\ OwnDraftInv /\ ResultsBelongToTheirTask /\ [Next]_vars
      => OwnDraftInv' /\ ResultsBelongToTheirTask'
  <2> SUFFICES ASSUME TypeOK, PlanInv, OwnDraftInv, ResultsBelongToTheirTask, [Next]_vars,
                      WellFormed'
               PROVE  OwnDraftInv' /\ ResultsBelongToTheirTask'
    BY DEF OwnDraftInv, ResultsBelongToTheirTask
  <2> USE DEF planVars, outputVars, msgVars
  <2>1. CASE Leaving
    <3>1. UNCHANGED tasks /\ ~Executing' /\ WellFormed
      BY <2>1, LeavingLeaves DEF WellFormed
    <3>2. pc' # "final_synthesizer"
      BY <2>1, Routes DEF Leaving, Ends, Replies
    <3>3. QED
      BY <3>1, <3>2 DEF OwnDraftInv, ResultsBelongToTheirTask, Executing
  <2>2. CASE Planning
    <3>1. pc' = "travel_react_agent" /\ \A i \in DOMAIN tasks' : tasks'[i].status # "completed"
      BY <2>2, Routes, PlansArePending DEF Planning
    <3>2. QED
      BY <3>1 DEF OwnDraftInv, ResultsBelongToTheirTask
  <2>3. CASE TravelReactAgent
    <3>1. UNCHANGED <<tasks, pos>> /\ WellFormed /\ Executing /\ pc' # "final_synthesizer"
      BY <2>3, Routes DEF TravelReactAgent, WellFormed, Executing
    <3>2. [task |-> ActiveTask, round |-> rework_count] \in Answers /\ ActiveTask = pos
      BY <3>1, PromptNamesTask DEF Answers, TypeOK
    <3>3. pc' = "finding_extractor" =>
            last_message'.of = [task |-> ActiveTask, round |-> rework_count]
      BY <2>3 DEF TravelReactAgent
    <3>4. pc' \notin {"fact_checker", "evaluator_agent", "task_manager"}
      BY <2>3, Routes
    <3>5. ResultsBelongToTheirTask'
      BY <3>1 DEF ResultsBelongToTheirTask
    <3>6. QED
      BY <3>1, <3>2, <3>3, <3>4, <3>5 DEF OwnDraftInv
  <2>4. CASE ActionTracker \/ Tools
    <3>1. UNCHANGED <<tasks, pos>> /\ WellFormed
      BY <2>4 DEF ActionTracker, Tools, WellFormed
    <3>2. pc' \in {"tools", "travel_react_agent", "error"}
      BY <2>4, Routes
    <3>3. QED
      BY <3>1, <3>2 DEF OwnDraftInv, ResultsBelongToTheirTask
  <2>5. CASE FindingExtractor
    <3>1. UNCHANGED <<tasks, pos>> /\ WellFormed /\ raw_executor_output' = last_message.of
      BY <2>5 DEF FindingExtractor, Extracted, WellFormed
    <3>2. QED
      BY <2>5, <3>1, Routes DEF OwnDraftInv, ResultsBelongToTheirTask
  <2>6. CASE FactChecker \/ EvaluatorAgent
    <3>1. UNCHANGED <<tasks, pos, raw_executor_output>> /\ WellFormed
      BY <2>6 DEF FactChecker, EvaluatorAgent, WellFormed
    <3>2. /\ pc \in {"fact_checker", "evaluator_agent"}
          /\ pc' \in {"evaluator_agent", "travel_react_agent", "task_manager"}
      BY <2>6, Routes
    <3>3. QED
      BY <3>1, <3>2 DEF OwnDraftInv, ResultsBelongToTheirTask
  <2>7. CASE TaskManager
    <3>1. /\ DOMAIN tasks' = DOMAIN tasks /\ tasks' = Completed(tasks)
          /\ \A i \in DOMAIN tasks : tasks'[i].id = tasks[i].id
      BY <2>7, CompletedType DEF TaskManager
    <3>2. WellFormed
      <4>1. tasks # <<>>
        BY <3>1 DEF WellFormed
      <4>2. QED
        BY <3>1, <4>1 DEF WellFormed
    <3>3. pos \in DOMAIN tasks /\ tasks[pos].id = current_task_id
      BY <2>7, <3>2, Routes DEF PlanInv, WellFormed, Executing
    <3>4. raw_executor_output \in Answers /\ raw_executor_output.task = pos
      BY <2>7, <3>2, Routes DEF OwnDraftInv
    <3>5. ASSUME NEW i \in DOMAIN tasks', tasks'[i].status = "completed"
          PROVE  tasks'[i].result # None /\ tasks'[i].result.task = i
      <4>1. tasks[i] \in Task
        BY <3>1, ElementOfSeq DEF TypeOK
      <4>2. CASE i = pos
        <5>1. tasks'[i] = [tasks[i] EXCEPT !.status = "completed", !.result = raw_executor_output]
          BY <3>1, <3>3, <4>2 DEF Completed
        <5>2. tasks'[i].result = raw_executor_output
          BY <4>1, <5>1 DEF Task
        <5>3. QED
          BY <3>4, <4>2, <5>2, GraphAssumption DEF Answers
      <4>3. CASE i # pos
        <5>1. tasks[i].id # current_task_id
          BY <3>1, <3>2, <3>3, <4>3 DEF WellFormed
        <5>2. tasks'[i] = tasks[i]
          BY <3>1, <5>1 DEF Completed
        <5>3. QED
          BY <3>1, <3>2, <3>5, <5>2 DEF ResultsBelongToTheirTask
      <4>4. QED
        BY <4>2, <4>3
    <3>6. pc' = "final_synthesizer" => Pending(tasks') = {}
      BY <2>7, TaskManagerMoves
    <3>7. QED
      BY <2>7, <3>5, <3>6, Routes DEF OwnDraftInv, ResultsBelongToTheirTask
  <2>8. CASE UNCHANGED vars
    <3>1. UNCHANGED <<tasks, pos, pc, last_message, raw_executor_output>> /\ WellFormed
      BY <2>8 DEF vars, WellFormed
    <3>2. QED
      BY <3>1 DEF OwnDraftInv, ResultsBelongToTheirTask, Pending
  <2>9. QED
    BY <2>1, <2>2, <2>3, <2>4, <2>5, <2>6, <2>7, <2>8, StepKinds
<1>3. QED
  BY <1>1, <1>2, TypeCorrect, PlanInOrder, PTL DEF Spec
=============================================================================
