--------------------- MODULE AgentGraphRefinementProofs ---------------------
(* The agent graph implements PlanExecution: for every set of calls and of *)
(* well-formed plans and all limits.                                       *)
EXTENDS AgentGraphRefinement, AgentGraphTaskProofs

-----------------------------------------------------------------------------
(* The tasks completed are those before the current one *)

LEMMA CompletedPlan ==
  ASSUME TypeOK, PlanInv, FrontierInv, TaskManager
  PROVE  /\ tasks' \in Seq(Task) /\ Len(tasks') = Len(tasks)
         /\ DOMAIN tasks = 1..Len(tasks) /\ DOMAIN tasks' = 1..Len(tasks)
         /\ pos \in 1..Len(tasks) /\ WellFormed /\ WellFormed'
         /\ \A i \in 1..Len(tasks) :
              /\ i < pos => tasks[i].status = "completed"
              /\ i >= pos => tasks[i].status = "pending"
              /\ i <= pos => tasks'[i].status = "completed"
              /\ i > pos => tasks'[i].status = "pending"
<1>1. Executing /\ WellFormed
  BY Routes DEF TaskManager, Enter, Executing, FrontierInv
<1>2. /\ tasks' \in Seq(Task) /\ Len(tasks') = Len(tasks) /\ DOMAIN tasks' = DOMAIN tasks
      /\ \A i \in DOMAIN tasks : tasks'[i].id = tasks[i].id
      /\ tasks' = Completed(tasks)
  BY CompletedType DEF TaskManager
<1>3. DOMAIN tasks = 1..Len(tasks) /\ Len(tasks) \in Nat
  BY DEF TypeOK
<1>4. /\ pos \in DOMAIN tasks /\ tasks[pos].id = current_task_id
      /\ \A i \in DOMAIN tasks : i < pos => tasks[i].status = "completed"
      /\ \A i \in DOMAIN tasks : i >= pos => tasks[i].status = "pending"
  BY <1>1 DEF PlanInv, FrontierInv, WellFormed
<1>5. WellFormed'
  <2>1. tasks' # <<>>
    BY <1>2, <1>3, <1>4
  <2>2. QED
    BY <1>1, <1>2, <2>1 DEF WellFormed
<1>6. ASSUME NEW i \in DOMAIN tasks
      PROVE  /\ i <= pos => tasks'[i].status = "completed"
             /\ i > pos => tasks'[i].status = "pending"
  <2>1. tasks[i] \in Task /\ i \in Nat /\ pos \in Nat
    BY <1>3, <1>4, ElementOfSeq DEF TypeOK
  <2>2. CASE i = pos
    <3>1. tasks'[i] = [tasks[i] EXCEPT !.status = "completed", !.result = raw_executor_output]
      BY <1>2, <1>4, <2>2 DEF Completed
    <3>2. tasks'[i].status = "completed"
      BY <2>1, <3>1 DEF Task
    <3>3. QED
      BY <2>1, <2>2, <3>2
  <2>3. CASE i # pos
    <3>1. tasks[i].id # current_task_id
      BY <1>1, <1>4, <2>3 DEF WellFormed
    <3>2. tasks'[i] = tasks[i]
      BY <1>2, <3>1 DEF Completed
    <3>3. QED
      BY <1>4, <2>1, <2>3, <3>2
  <2>4. QED
    BY <2>2, <2>3
<1>7. QED
  BY <1>1, <1>2, <1>3, <1>4, <1>5, <1>6

\* What the task manager does to a well-formed plan: it completes the current task
\* and goes on to the next, or to the answer after the last one.
LEMMA NextInOrder ==
  ASSUME TypeOK, PlanInv, FrontierInv, TaskManager
  PROVE  \/ pos = Len(tasks) /\ pc' = "final_synthesizer"
         \/ pos < Len(tasks) /\ pc' = "travel_react_agent" /\ pos' = pos + 1
<1> DEFINE n == Len(tasks)
<1>1. n \in Nat /\ pos \in 1..n /\ pos \in Nat /\ tasks' \in Seq(Task) /\ DOMAIN tasks' = 1..n
  BY CompletedPlan DEF TypeOK
<1>2. Pending(tasks') = {i \in 1..n : i > pos}
  BY <1>1, CompletedPlan DEF Pending
<1>3. CASE pos = n
  <2>1. Pending(tasks') = {}
    BY <1>1, <1>2, <1>3
  <2>2. current_task_id' = None
    BY <2>1 DEF TaskManager, NextTask
  <2>3. QED
    BY <1>3, <2>2 DEF TaskManager, RouteFromTaskManager
<1>4. CASE pos # n
  <2>1. pos + 1 \in Pending(tasks')
    BY <1>1, <1>2, <1>4
  <2>2. PICK next \in Pending(tasks') :
          /\ \A i \in Pending(tasks') : next <= i
          /\ pos' = next /\ current_task_id' = tasks'[next].id
    BY <2>1 DEF TaskManager, NextTask
  <2>3. next = pos + 1
    BY <1>1, <1>2, <2>1, <2>2
  <2>4. tasks'[next] \in Task
    BY <1>1, <1>2, ElementOfSeq
  <2>5. current_task_id' # None
    BY <2>2, <2>4, GraphAssumption DEF Task
  <2>6. QED
    BY <1>1, <1>4, <2>2, <2>3, <2>5 DEF TaskManager, RouteFromTaskManager
<1>5. QED
  BY <1>3, <1>4

\* A well-formed list of ids makes a well-formed plan.
LEMMA GoodStart ==
  ASSUME PlansWellFormed, TypeOK, Planning
  PROVE  /\ WellFormed'
         /\ \A i \in DOMAIN tasks' : tasks'[i].status = "pending"
         /\ Len(tasks') \in Nat \ {0} /\ DOMAIN tasks' = 1..Len(tasks')
<1>1. \A i \in DOMAIN tasks' : tasks'[i].status = "pending"
  BY PlansArePending
<1>2. tasks' \in Seq(Task)
  BY PlanningStarts DEF StartPlan
<1>3. WellFormed'
  <2>1. CASE \E ids \in Plans :
               StartPlan([i \in 1..Len(ids) |-> NewTask(ids[i], "this")])
    <3>1. PICK ids \in Plans : tasks' = [i \in 1..Len(ids) |-> NewTask(ids[i], "this")]
      BY <2>1 DEF StartPlan
    <3>2. DOMAIN ids = 1..Len(ids) /\ Len(ids) \in Nat \ {0}
      BY GraphAssumption DEF PlansWellFormed
    <3>3. DOMAIN tasks' = 1..Len(ids) /\ \A i \in 1..Len(ids) : tasks'[i].id = ids[i]
      BY <3>1 DEF NewTask
    <3>4. tasks' # <<>>
      BY <3>2, <3>3
    <3>5. QED
      BY <3>2, <3>3, <3>4 DEF WellFormed, PlansWellFormed
  <2>2. ASSUME NEW desc, StartPlan(<<NewTask(1, desc)>>)
        PROVE  WellFormed'
    <3>1. tasks' = <<NewTask(1, desc)>>
      BY <2>2 DEF StartPlan
    <3>2. DOMAIN tasks' = {1} /\ tasks'[1].id = 1 /\ tasks' # <<>>
      BY <3>1 DEF NewTask
    <3>3. QED
      BY <3>2 DEF WellFormed
  <2>3. QED
    BY <2>1, <2>2 DEF Planning, Planner, DirectExecutorInit
<1>4. QED
  BY <1>1, <1>2, <1>3 DEF WellFormed

\* The steps of a task before the task manager leave the plan and the position alone.
LEMMA WithinTask ==
  ASSUME [Next]_vars,
         TravelReactAgent \/ ActionTracker \/ Tools \/ FindingExtractor \/ FactChecker
           \/ EvaluatorAgent
  PROVE  /\ UNCHANGED <<tasks, pos>> /\ Executing
         /\ pc' \in {"travel_react_agent", "action_tracker", "tools", "finding_extractor",
                     "fact_checker", "evaluator_agent", "task_manager", "error"}
<1>1. UNCHANGED <<tasks, pos>>
  BY DEF TravelReactAgent, ActionTracker, Tools, FindingExtractor, FactChecker,
         EvaluatorAgent, planVars
<1>2. QED
  BY <1>1, Routes DEF Executing

\* With well-formed plans, the tasks completed are exactly those before the
\* current one, and all of them when the answer is written.
THEOREM Frontier == ASSUME PlansWellFormed PROVE Spec => []FrontierInv
<1>1. Init => FrontierInv
  BY DEF Init, FrontierInv, Executing
<1>2. TypeOK /\ PlanInv /\ FrontierInv /\ [Next]_vars => FrontierInv'
  <2> SUFFICES ASSUME TypeOK, PlanInv, FrontierInv, [Next]_vars PROVE FrontierInv'
    OBVIOUS
  <2>1. CASE Leaving
    <3>1. ~Executing' /\ pc' # "final_synthesizer"
      BY <2>1, LeavingLeaves, Routes DEF Leaving, Ends, Replies
    <3>2. QED
      BY <3>1 DEF FrontierInv
  <2>2. CASE Planning
    <3>1. pc' # "final_synthesizer"
      BY <2>2, Routes DEF Planning
    <3>2. QED
      BY <2>2, <3>1, GoodStart DEF FrontierInv
  <2>3. CASE TravelReactAgent \/ ActionTracker \/ Tools \/ FindingExtractor \/ FactChecker
             \/ EvaluatorAgent
    <3>1. UNCHANGED <<tasks, pos>> /\ Executing /\ pc' # "final_synthesizer"
      BY <2>3, WithinTask
    <3>2. WellFormed' = WellFormed
      BY <3>1 DEF WellFormed
    <3>3. QED
      BY <3>1, <3>2 DEF FrontierInv
  <2>4. CASE TaskManager
    <3>1. /\ Len(tasks) \in Nat /\ pos \in Nat /\ DOMAIN tasks' = 1..Len(tasks) /\ WellFormed'
          /\ \A i \in 1..Len(tasks) :
               /\ i <= pos => tasks'[i].status = "completed"
               /\ i > pos => tasks'[i].status = "pending"
      BY <2>4, CompletedPlan DEF TypeOK
    <3>2. CASE pos = Len(tasks) /\ pc' = "final_synthesizer"
      BY <3>1, <3>2 DEF FrontierInv, Executing
    <3>3. CASE pc' = "travel_react_agent" /\ pos' = pos + 1
      <4>1. \A i \in DOMAIN tasks' : i >= pos' => tasks'[i].status = "pending"
        BY <3>1, <3>3
      <4>2. QED
        BY <3>1, <3>3, <4>1 DEF FrontierInv
    <3>4. QED
      BY <2>4, <3>2, <3>3, NextInOrder
  <2>5. CASE UNCHANGED vars
    BY <2>5 DEF vars, planVars, FrontierInv, Executing, WellFormed
  <2>6. QED
    BY <2>1, <2>2, <2>3, <2>4, <2>5, StepKinds
<1>3. QED
  BY <1>1, <1>2, TypeCorrect, PlanInOrder, PTL DEF Spec

-----------------------------------------------------------------------------
(* The refinement *)

\* The mapping, node by node.
Mapped ==
  /\ pc \in {"input_guardrail", "planner", "direct_executor_init"} =>
       stage = "triage" /\ rounds = 0
  /\ Executing => stage = "executing"
  /\ Executing /\ pc # "task_manager" => rounds = rework_count
  /\ pc = "task_manager" =>
       rounds = IF forced_accept THEN rework_count - 1 ELSE rework_count
  /\ pc \in Replies \cup {"final_synthesizer"} => stage = "writing" /\ rounds = 0
  /\ pc = "END" => stage = "answered" /\ rounds = 0
  /\ pc \in {"error", "recursion_error"} => stage = "failed" /\ rounds = 0

LEMMA Mapping == Mapped /\ Mapped'
<1>1. Mapped
  BY DEF Mapped, stage, rounds, Executing, Replies
<1>2. Mapped'
  BY DEF Mapped, stage, rounds, Executing, Replies
<1>3. QED
  BY <1>1, <1>2

\* A step that the plan execution does not see.
LEMMA Stutters ==
  ASSUME UNCHANGED tasks, UNCHANGED <<stage, rounds>>
  PROVE  UNCHANGED Execution!absVars
BY DEF Execution!absVars

\* A run that ends in an error fails, wherever it was.
LEMMA Fails ==
  ASSUME pc \in Nodes, pc' \in {"error", "recursion_error"}, UNCHANGED tasks
  PROVE  Execution!Fail
BY Mapping DEF Mapped, Execution!Fail, Nodes, Executing, Replies

LEMMA PlanStep ==
  ASSUME PlansWellFormed, TypeOK, PlanInv, [Next]_vars, Planning
  PROVE  Execution!Plan
<1>1. /\ pc \in {"input_guardrail", "planner", "direct_executor_init"}
      /\ pc' = "travel_react_agent"
  BY Routes DEF Planning, Triaging
<1>2. tasks = <<>> /\ rework_count' = 0
  BY <1>1, PlanningStarts DEF PlanInv, StartPlan, ZeroCounters
<1>3. stage = "triage" /\ stage' = "executing" /\ rounds = 0 /\ rounds' = 0
  BY <1>1, <1>2, Mapping DEF Mapped, Executing
<1>4. Len(tasks') \in Nat \ {0}
  BY GoodStart
<1>5. {i \in DOMAIN tasks : tasks[i].status = "completed"} = {}
  BY <1>2
<1>6. {i \in DOMAIN tasks' : tasks'[i].status = "completed"} = {}
  BY GoodStart
<1>7. QED
  BY <1>3, <1>4, <1>5, <1>6 DEF Execution!Plan

LEMMA CompleteStep ==
  ASSUME TypeOK, PlanInv, FrontierInv, [Next]_vars, TaskManager
  PROVE  Execution!Complete
<1> DEFINE done == {i \in DOMAIN tasks : tasks[i].status = "completed"}
<1>1. /\ Len(tasks) \in Nat /\ Len(tasks') = Len(tasks) /\ pos \in 1..Len(tasks)
      /\ DOMAIN tasks = 1..Len(tasks) /\ DOMAIN tasks' = 1..Len(tasks)
  BY CompletedPlan DEF TypeOK
<1>2. done = 1..(pos - 1)
  BY <1>1, CompletedPlan
<1>3. done' = 1..pos
  BY <1>1, CompletedPlan
<1>4. stage = "executing" /\ rounds' = 0
      /\ stage' = IF pos = Len(tasks) THEN "writing" ELSE "executing"
  <2>1. stage = "executing"
    BY Routes, Mapping DEF Mapped, Executing
  <2>2. CASE pos = Len(tasks) /\ pc' = "final_synthesizer"
    BY <2>1, <2>2, Mapping DEF Mapped
  <2>3. CASE pos < Len(tasks) /\ pc' = "travel_react_agent"
    <3>1. rework_count' = 0
      BY <2>3, TaskManagerMoves
    <3>2. rounds' = 0 /\ stage' = "executing"
      BY <2>3, <3>1, Mapping DEF Mapped, Executing
    <3>3. pos # Len(tasks)
      BY <2>3 DEF TypeOK
    <3>4. QED
      BY <2>1, <3>2, <3>3
  <2>4. QED
    BY <2>2, <2>3, NextInOrder
<1>5. QED
  BY <1>1, <1>2, <1>3, <1>4 DEF Execution!Complete

LEMMA AnswerStep ==
  ASSUME TypeOK, PlanInv, FrontierInv, UNCHANGED tasks,
         pc \in Replies \cup {"final_synthesizer"}, pc' = "END"
  PROVE  Execution!Answer
<1>1. stage = "writing" /\ stage' = "answered" /\ rounds = 0 /\ rounds' = 0
  BY Mapping DEF Mapped
<1>2. DOMAIN tasks = 1..Len(tasks)
  BY DEF TypeOK
<1>3. {i \in DOMAIN tasks : tasks[i].status = "completed"} = 1..Len(tasks)
  <2>1. CASE pc = "final_synthesizer"
    BY <1>2, <2>1 DEF FrontierInv
  <2>2. CASE pc \in Replies
    BY <1>2, <2>2 DEF PlanInv
  <2>3. QED
    BY <2>1, <2>2
<1>4. QED
  BY <1>1, <1>3 DEF Execution!Answer

\* A review accepts, with the round that was refused not counted, or sends back.
LEMMA ReviewStep ==
  ASSUME TypeOK, [Next]_vars, EvaluatorAgent
  PROVE  Execution!Rework \/ UNCHANGED Execution!absVars
<1>1. /\ UNCHANGED tasks /\ pc = "evaluator_agent" /\ rework_count \in Nat
      /\ stage = "executing" /\ rounds = rework_count
  BY Routes, Mapping DEF EvaluatorAgent, planVars, Mapped, Executing, TypeOK
<1>2. CASE pc' = "task_manager" /\ rework_count' = rework_count /\ ~forced_accept'
  BY <1>1, <1>2, Mapping, Stutters DEF Mapped, Executing
<1>3. CASE pc' = "task_manager" /\ rework_count' = rework_count + 1 /\ forced_accept'
  <2>1. rounds' = rework_count' - 1 /\ stage' = "executing"
    BY <1>3, Mapping DEF Mapped, Executing
  <2>2. rounds' = rework_count
    BY <1>1, <1>3, <2>1
  <2>3. QED
    BY <1>1, <2>1, <2>2, Stutters
<1>4. CASE pc' = "travel_react_agent" /\ rework_count' = rework_count + 1 /\ rework_count' < MaxRework
  <2>1. rounds' = rework_count + 1 /\ stage' = "executing"
    BY <1>4, Mapping DEF Mapped, Executing
  <2>2. rework_count + 1 < MaxRounds
    BY <1>1, <1>4, GraphAssumption DEF MaxRounds
  <2>3. QED
    BY <1>1, <2>1, <2>2 DEF Execution!Rework
<1>5. QED
  BY <1>2, <1>3, <1>4, EvaluatorOutcome

\* The other nodes of a task are seen when they fail.
LEMMA ExecutorStep ==
  ASSUME TypeOK, [Next]_vars,
         TravelReactAgent \/ ActionTracker \/ Tools \/ FindingExtractor \/ FactChecker
  PROVE  Execution!Fail \/ UNCHANGED Execution!absVars
<1>1. UNCHANGED <<tasks, rework_count>> /\ Executing /\ pc # "task_manager"
  BY WithinTask, Routes
     DEF TravelReactAgent, ActionTracker, Tools, FindingExtractor, FactChecker, reviewVars
<1>2. CASE pc' = "error"
  BY <1>1, <1>2, Fails DEF Executing, Nodes
<1>3. CASE pc' # "error"
  <2>1. Executing' /\ pc' # "task_manager"
    BY <1>3, Routes DEF Executing
  <2>2. QED
    BY <1>1, <2>1, Mapping, Stutters DEF Mapped
<1>4. QED
  BY <1>2, <1>3

\* The guardrail routes; the answering nodes answer or fail; the limit fails.
LEMMA LeavingStep ==
  ASSUME TypeOK, PlanInv, FrontierInv, [Next]_vars, Leaving
  PROVE  Execution!Next \/ UNCHANGED Execution!absVars
<1>1. UNCHANGED tasks
  BY LeavingLeaves DEF planVars
<1>2. CASE InputGuardrail
  <2>1. CASE pc' \in {"planner", "direct_executor_init"}
    <3>1. stage = "triage" /\ stage' = "triage" /\ rounds = 0 /\ rounds' = 0
      BY <1>2, <2>1, Routes, Mapping DEF Mapped
    <3>2. QED
      BY <1>1, <3>1, Stutters
  <2>2. CASE pc' \in Replies
    <3>1. stage = "triage" /\ stage' = "writing" /\ rounds = 0 /\ rounds' = 0
      BY <1>2, <2>2, Routes, Mapping DEF Mapped
    <3>2. Execution!StartReply
      BY <1>1, <3>1 DEF Execution!StartReply
    <3>3. QED
      BY <3>2 DEF Execution!Next
  <2>3. QED
    BY <1>2, <2>1, <2>2, Routes
<1>3. CASE OutOfDomain \/ SupportAgent \/ ClarificationAgent \/ FinalSynthesizer
  <2>1. pc \in Replies \cup {"final_synthesizer"} /\ pc' \in Ends
    BY <1>3 DEF OutOfDomain, SupportAgent, ClarificationAgent, FinalSynthesizer, Enter,
                Finished, Replies, Ends
  <2>2. QED
    BY <1>1, <2>1, AnswerStep, Fails DEF Execution!Next, Nodes, Ends
<1>4. CASE RecursionError
  BY <1>1, <1>4, Fails DEF RecursionError, Execution!Next
<1>5. QED
  BY <1>2, <1>3, <1>4 DEF Leaving

\* Given well-formed plans, whatever the models answer and the tools do, planner,
\* rework edge and task manager together execute the plan as they are meant to:
\* task by task, in order, within the rounds, answered once all are complete.
THEOREM Refinement == ASSUME PlansWellFormed PROVE Spec => ImplementsPlanExecution
<1>1. Init => Execution!Init
  <2> SUFFICES ASSUME Init PROVE Execution!Init
    OBVIOUS
  <2>1. tasks = <<>> /\ pc = "input_guardrail"
    BY DEF Init
  <2>2. stage = "triage" /\ rounds = 0
    BY <2>1, Mapping DEF Mapped
  <2>3. QED
    BY <2>1, <2>2 DEF Execution!Init
<1>2. TypeOK /\ PlanInv /\ FrontierInv /\ [Next]_vars => [Execution!Next]_Execution!absVars
  <2> SUFFICES ASSUME TypeOK, PlanInv, FrontierInv, [Next]_vars
               PROVE  Execution!Next \/ UNCHANGED Execution!absVars
    OBVIOUS
  <2>1. CASE Leaving
    BY <2>1, LeavingStep
  <2>2. CASE Planning
    BY <2>2, PlanStep DEF Execution!Next
  <2>3. CASE TravelReactAgent \/ ActionTracker \/ Tools \/ FindingExtractor \/ FactChecker
    BY <2>3, ExecutorStep DEF Execution!Next
  <2>4. CASE EvaluatorAgent
    BY <2>4, ReviewStep DEF Execution!Next
  <2>5. CASE TaskManager
    BY <2>5, CompleteStep DEF Execution!Next
  <2>6. CASE UNCHANGED vars
    BY <2>6 DEF vars, planVars, reviewVars, Execution!absVars, stage, rounds, Executing
  <2>7. QED
    BY <2>1, <2>2, <2>3, <2>4, <2>5, <2>6, StepKinds
<1>3. QED
  BY <1>1, <1>2, TypeCorrect, PlanInOrder, Frontier, PTL
     DEF Spec, ImplementsPlanExecution, Execution!Spec
=============================================================================
