-------------------------- MODULE AgentGraphProofs --------------------------
(* Theorems about one run of the agent graph, for every set of calls, every *)
(* set of plans and every value of the limits.                              *)
EXTENDS AgentGraphProperties, TLAPS

-----------------------------------------------------------------------------
(* Type correctness *)

LEMMA BatchFacts ==
  ASSUME NEW batch \in Batches
  PROVE  /\ Len(batch) \in Nat /\ Len(batch) <= MaxBatch
         /\ CallsOf(batch) \subseteq Calls
<1>1. PICK n \in 0..MaxBatch : batch \in [1..n -> Calls]
  BY DEF Batches
<1>2. Len(batch) = n
  BY <1>1, GraphAssumption
<1>3. QED
  BY <1>1, <1>2, GraphAssumption DEF CallsOf

LEMMA EmptyBatch == <<>> \in Batches
<1>1. <<>> \in [1..0 -> Calls]
  OBVIOUS
<1>2. QED
  BY <1>1, GraphAssumption DEF Batches

LEMMA IsASeq ==
  ASSUME NEW S, NEW n \in Nat, NEW f, f = [i \in 1..n |-> f[i]],
         \A i \in 1..n : f[i] \in S
  PROVE  f \in Seq(S) /\ Len(f) = n
OBVIOUS

LEMMA FirstId ==
  ASSUME NEW plan \in Seq(Task)
  PROVE  (IF plan = <<>> THEN None ELSE plan[1].id) \in Nat \cup {None}
<1>1. CASE plan = <<>>
  BY <1>1
<1>2. CASE plan # <<>>
  <2>1. plan[1] \in Task
    BY <1>2
  <2>2. QED
    BY <1>2, <2>1 DEF Task
<1>3. QED
  BY <1>1, <1>2

LEMMA ElementOfSeq ==
  ASSUME NEW S, NEW seq \in Seq(S), NEW i \in 1..Len(seq)
  PROVE  seq[i] \in S /\ i \in Nat
OBVIOUS

\* Completing tasks keeps the plan a sequence of tasks of the same length and ids.
LEMMA CompletedType ==
  ASSUME TypeOK
  PROVE  /\ Completed(tasks) \in Seq(Task)
         /\ Len(Completed(tasks)) = Len(tasks)
         /\ DOMAIN Completed(tasks) = DOMAIN tasks
         /\ \A i \in DOMAIN tasks : Completed(tasks)[i].id = tasks[i].id
<1>1. DOMAIN tasks = 1..Len(tasks) /\ Len(tasks) \in Nat
  BY DEF TypeOK
<1>2. \A i \in 1..Len(tasks) : Completed(tasks)[i] \in Task /\ Completed(tasks)[i].id = tasks[i].id
  <2> TAKE i \in 1..Len(tasks)
  <2>1. tasks[i] \in Task
    BY DEF TypeOK
  <2>2. [[tasks[i] EXCEPT !.status = "completed"] EXCEPT !.result = raw_executor_output] \in Task
    BY <2>1 DEF Task, TypeOK
  <2>3. [[tasks[i] EXCEPT !.status = "completed"] EXCEPT !.result = raw_executor_output].id = tasks[i].id
    BY <2>1 DEF Task
  <2>4. QED
    BY <1>1, <2>1, <2>2, <2>3 DEF Completed
<1>3. Completed(tasks) = [i \in 1..Len(tasks) |-> Completed(tasks)[i]]
  BY <1>1 DEF Completed
<1>4. QED
  BY <1>1, <1>2, <1>3, IsASeq

\* A step that starts a plan keeps the types.
LEMMA StartPlanType ==
  ASSUME TypeOK, NEW plan \in Seq(Task), StartPlan(plan), steps' = steps + 1
  PROVE  TypeOK'
<1> USE GraphAssumption DEF TypeOK, planVars, loopVars, reviewVars, outputVars, msgVars, routeVars
<1>1. current_task_id' \in Nat \cup {None}
  BY FirstId DEF StartPlan
<1>2. /\ tasks' \in Seq(Task) /\ pos' \in Nat /\ pc' \in Nodes
      /\ iteration_count' \in Nat /\ tool_call_count' \in Nat /\ rework_count' \in Nat
      /\ action_history' \subseteq Calls
  BY DEF StartPlan, ZeroCounters, Nodes
<1>3. UNCHANGED <<needs_rework, evaluator_notes, evaluator_feedback, forced_accept,
                  forced_tasks, outputVars, msgVars, routeVars>>
  BY DEF StartPlan
<1>4. QED
  BY <1>1, <1>2, <1>3

\* The planner starts a plan of tasks, its model's or the fallback.
LEMMA PlannerPlan ==
  ASSUME TypeOK, Planner
  PROVE  \E plan \in Seq(Task) : StartPlan(plan)
<1>1. CASE \E ids \in Plans :
             StartPlan([i \in 1..Len(ids) |-> NewTask(ids[i], "this")])
  <2>1. PICK ids \in Plans :
               StartPlan([i \in 1..Len(ids) |-> NewTask(ids[i], "this")])
    BY <1>1
  <2>2. [i \in 1..Len(ids) |-> NewTask(ids[i], "this")] \in Seq(Task)
    <3>1. Len(ids) \in Nat /\ \A i \in 1..Len(ids) : ids[i] \in Nat
      BY GraphAssumption
    <3>2. \A i \in 1..Len(ids) : NewTask(ids[i], "this") \in Task
      BY <3>1 DEF NewTask, Task
    <3>3. QED
      BY <3>1, <3>2, IsASeq
  <2>3. QED
    BY <2>1, <2>2
<1>2. CASE StartPlan(<<NewTask(1, "this")>>)
  <2>1. NewTask(1, "this") \in Task
    BY DEF NewTask, Task
  <2>2. <<NewTask(1, "this")>> \in Seq(Task)
    BY <2>1
  <2>3. QED
    BY <1>2, <2>2
<1>3. QED
  BY <1>1, <1>2 DEF Planner

\* The bypass starts a plan of one task.
LEMMA DirectPlan ==
  ASSUME TypeOK, DirectExecutorInit
  PROVE  \E plan \in Seq(Task) : StartPlan(plan)
<1>1. NewTask(1, IF objective = None THEN "this" ELSE objective) \in Task
  BY DEF NewTask, Task, TypeOK
<1>2. <<NewTask(1, IF objective = None THEN "this" ELSE objective)>> \in Seq(Task)
  BY <1>1
<1>3. QED
  BY <1>2 DEF DirectExecutorInit

\* Every field of AgentState keeps the values its nodes write.
THEOREM TypeCorrect == Spec => []TypeOK
<1> USE GraphAssumption
<1> USE DEF Nodes, Ends, Replies, Triage, Task, Feedback, FactCheck, Answers
<1>1. Init => TypeOK
  <2> SUFFICES ASSUME Init PROVE TypeOK
    OBVIOUS
  <2>1. tasks \in Seq(Task)
    BY DEF Init
  <2>2. last_message \in [calls : Batches, of : Answers \cup {None}]
    BY EmptyBatch DEF Init
  <2>3. /\ triage \in Triage
        /\ fact_check_result \in FactCheck
        /\ raw_executor_output \in Answers \cup {None}
        /\ objective \in {None, "earlier", "this"}
        /\ observations \subseteq Nat
        /\ forced_accept \in BOOLEAN /\ needs_rework \in BOOLEAN
        /\ evaluator_notes \in Nat \cup {None}
    <3>1. PICK stale \in BOOLEAN, confident \in BOOLEAN :
            /\ triage = [in_domain |-> TRUE, confident |-> confident,
                         faq |-> FALSE, low |-> FALSE]
            /\ objective = IF stale THEN "earlier" ELSE None
            /\ observations = IF stale THEN {0} ELSE {}
            /\ needs_rework \in IF stale THEN BOOLEAN ELSE {FALSE}
            /\ raw_executor_output = IF stale THEN [task |-> None, round |-> 0] ELSE None
            /\ forced_accept \in IF stale THEN BOOLEAN ELSE {FALSE}
            /\ evaluator_notes = IF stale THEN 0 ELSE None
            /\ fact_check_result = [of |-> None, status |-> IF stale THEN "verified" ELSE "none"]
      BY DEF Init
    <3>2. CASE stale = TRUE
      BY <3>1, <3>2
    <3>3. CASE stale = FALSE
      BY <3>1, <3>3
    <3>4. QED
      BY <3>2, <3>3
  <2>4. evaluator_feedback \in Feedback
    BY DEF Init
  <2>5. QED
    BY <2>1, <2>2, <2>3, <2>4 DEF Init, TypeOK
<1>2. TypeOK /\ [Next]_vars => TypeOK'
  <2> SUFFICES ASSUME TypeOK, [Next]_vars PROVE TypeOK'
    OBVIOUS
  <2> USE DEF TypeOK, Enter, planVars, loopVars, reviewVars, outputVars, msgVars, routeVars
  <2>1. CASE InputGuardrail
    <3>1. triage' \in Triage
      <4>1. CASE triage' = [triage EXCEPT !.in_domain = FALSE, !.faq = FALSE, !.low = TRUE]
        BY <4>1
      <4>2. CASE triage' = [triage EXCEPT !.in_domain = TRUE, !.faq = FALSE, !.low = TRUE]
        BY <4>2
      <4>3. CASE \E confident, faq, low \in BOOLEAN :
                   triage' = [in_domain |-> TRUE, confident |-> confident,
                              faq |-> faq, low |-> low]
        BY <4>3
      <4>4. QED
        BY <2>1, <4>1, <4>2, <4>3 DEF InputGuardrail
    <3>4. objective' \in {None, "earlier", "this"}
      BY <2>1 DEF InputGuardrail
    <3>2. pc' \in Nodes
      BY <2>1 DEF InputGuardrail, RouteFromGuardrail
    <3>3. QED
      BY <2>1, <3>1, <3>2, <3>4 DEF InputGuardrail
  <2>2. CASE OutOfDomain \/ SupportAgent \/ ClarificationAgent \/ FinalSynthesizer
    <3>1. pc' \in Ends /\ steps' = steps + 1
      BY <2>2 DEF OutOfDomain, SupportAgent, ClarificationAgent, FinalSynthesizer,
                  Finished, Enter, Ends
    <3>2. UNCHANGED <<planVars, loopVars, reviewVars, outputVars, msgVars, routeVars>>
      BY <2>2 DEF OutOfDomain, SupportAgent, ClarificationAgent, FinalSynthesizer
    <3>3. QED
      BY <3>1, <3>2
  <2>3. CASE Planner
    <3>1. PICK plan \in Seq(Task) : StartPlan(plan)
      BY <2>3, PlannerPlan
    <3>2. steps' = steps + 1
      BY <2>3 DEF Planner
    <3>3. QED
      BY <3>1, <3>2, StartPlanType
  <2>4. CASE DirectExecutorInit
    <3>1. PICK plan \in Seq(Task) : StartPlan(plan)
      BY <2>4, DirectPlan
    <3>2. steps' = steps + 1
      BY <2>4 DEF DirectExecutorInit
    <3>3. QED
      BY <3>1, <3>2, StartPlanType
  <2>5. CASE TravelReactAgent
    <3>1. ActiveTask \in Nat \cup {None}
      BY DEF ActiveTask
    <3>2. last_message' \in [calls : Batches, of : Answers \cup {None}]
      BY <2>5, <3>1 DEF TravelReactAgent
    <3>3. pc' \in Nodes \cup Ends /\ iteration_count' \in Nat
      BY <2>5 DEF TravelReactAgent, EvaluateToolHooks
    <3>4. QED
      BY <2>5, <3>2, <3>3 DEF TravelReactAgent
  <2>6. CASE ActionTracker
    BY <2>6, BatchFacts DEF ActionTracker, Recorded
  <2>7. CASE Tools
    <3>1. Len(last_message.calls) \in Nat /\ CallsOf(last_message.calls) \subseteq Calls
      BY BatchFacts
    <3>2. last_message' \in [calls : Batches, of : Answers \cup {None}]
      BY <2>7, EmptyBatch DEF Tools
    <3>3. tools_run' \in Nat /\ invoked' \subseteq Calls
      BY <2>7, <3>1 DEF Tools
    <3>4. observations' \subseteq Nat
      BY <2>7 DEF Tools
    <3>5. pc' \in Nodes \cup Ends
      BY <2>7 DEF Tools
    <3>6. QED
      BY <2>7, <3>2, <3>3, <3>4, <3>5 DEF Tools
  <2>8. CASE FindingExtractor
    BY <2>8 DEF FindingExtractor, Extracted
  <2>9. CASE FactChecker
    BY <2>9 DEF FactChecker
  <2>10. CASE EvaluatorAgent
    BY <2>10 DEF EvaluatorAgent, RouteFromEvaluator
  <2>11. CASE TaskManager
    <3>1. tasks' \in Seq(Task)
      BY <2>11, CompletedType DEF TaskManager
    <3>2. last_message' \in [calls : Batches, of : Answers \cup {None}]
      BY <2>11, EmptyBatch DEF TaskManager
    <3>3. pc' \in Nodes
      BY <2>11 DEF TaskManager, RouteFromTaskManager
    <3>4. pos' \in Nat /\ current_task_id' \in Nat \cup {None}
      <4>1. CASE Pending(tasks') = {}
        BY <2>11, <4>1 DEF TaskManager, NextTask
      <4>2. CASE Pending(tasks') # {}
        <5>1. pos' \in Pending(tasks') /\ current_task_id' = tasks'[pos'].id
          BY <2>11, <4>2 DEF TaskManager, NextTask
        <5>2. pos' \in 1..Len(tasks')
          BY <3>1, <5>1 DEF Pending
        <5>3. tasks'[pos'] \in Task /\ pos' \in Nat
          BY <3>1, <5>2, ElementOfSeq
        <5>4. QED
          BY <5>1, <5>3 DEF Task
      <4>3. QED
        BY <4>1, <4>2
    <3>5. /\ iteration_count' \in Nat /\ tool_call_count' \in Nat /\ rework_count' \in Nat
          /\ raw_executor_output' \in Answers \cup {None}
          /\ observations' \subseteq Nat
      <4>1. /\ \/ ZeroCounters
               \/ UNCHANGED <<iteration_count, tool_call_count, rework_count>>
            /\ raw_executor_output' \in {None, raw_executor_output}
            /\ observations' \in {observations, Sandboxed(observations)}
        BY <2>11 DEF TaskManager
      <4>2. QED
        BY <4>1 DEF ZeroCounters, Sandboxed
    <3>6. QED
      BY <2>11, <3>1, <3>2, <3>3, <3>4, <3>5 DEF TaskManager
  <2>12. CASE RecursionError
    BY <2>12 DEF RecursionError
  <2>13. CASE UNCHANGED vars
    BY <2>13 DEF vars
  <2>14. QED
    BY <2>1, <2>2, <2>3, <2>4, <2>5, <2>6, <2>7, <2>8, <2>9, <2>10, <2>11, <2>12, <2>13
       DEF Next, Node, Done
<1>3. QED
  BY <1>1, <1>2, PTL DEF Spec

-----------------------------------------------------------------------------
(* The plan is worked off in order *)

LEMMA PlanInvStart ==
  ASSUME NEW plan \in Seq(Task), StartPlan(plan)
  PROVE  PlanInv'
<1>1. tasks' = plan /\ pos' = 1 /\ pc' = "travel_react_agent"
      /\ current_task_id' = IF plan = <<>> THEN None ELSE plan[1].id
  BY DEF StartPlan
<1>2. CASE plan = <<>>
  BY <1>1, <1>2 DEF PlanInv, Replies, Executing
<1>3. CASE plan # <<>>
  <2>1. 1 \in DOMAIN plan /\ \A i \in DOMAIN plan : ~(i < 1)
    BY <1>3
  <2>2. QED
    BY <1>1, <1>3, <2>1 DEF PlanInv, Replies
<1>4. QED
  BY <1>2, <1>3

LEMMA PlanInvTaskManager ==
  ASSUME TypeOK, PlanInv, TaskManager
  PROVE  /\ PlanInv'
         /\ Len(tasks') = Len(tasks)
         /\ Executing' => pos' > pos
<1>1. /\ tasks' \in Seq(Task) /\ Len(tasks') = Len(tasks) /\ DOMAIN tasks' = DOMAIN tasks
      /\ \A i \in DOMAIN tasks : tasks'[i].id = tasks[i].id
  BY CompletedType DEF TaskManager
<1>2. pc' \in {"travel_react_agent", "final_synthesizer"} /\ Executing
  BY DEF TaskManager, RouteFromTaskManager, Enter, Executing
<1>3. CASE Pending(tasks') = {}
  <2>1. pc' = "final_synthesizer"
    BY <1>3 DEF TaskManager, NextTask, RouteFromTaskManager
  <2>2. QED
    BY <1>1, <2>1 DEF PlanInv, Executing, Replies
<1>4. CASE Pending(tasks') # {}
  <2>1. PICK next \in Pending(tasks') :
          /\ \A i \in Pending(tasks') : next <= i
          /\ pos' = next
          /\ current_task_id' = tasks'[next].id
    BY <1>4 DEF TaskManager, NextTask
  <2>2. next \in DOMAIN tasks' /\ tasks'[next].status = "pending"
    BY DEF Pending
  <2>3. DOMAIN tasks' = 1..Len(tasks') /\ Len(tasks') \in Nat
    BY <1>1
  <2>4. next \in Nat /\ next \in DOMAIN tasks /\ tasks # <<>> /\ tasks' # <<>>
    BY <1>1, <2>2, <2>3
  <2>5. /\ pos \in DOMAIN tasks
        /\ tasks[pos].id = current_task_id
        /\ \A i \in DOMAIN tasks : i < pos => tasks[i].status = "completed"
    BY <1>2, <2>4 DEF PlanInv
  <2>6. \A i \in DOMAIN tasks : i <= pos => tasks'[i].status = "completed"
    <3> SUFFICES ASSUME NEW i \in DOMAIN tasks, i <= pos
                 PROVE  tasks'[i].status = "completed"
      OBVIOUS
    <3>1. tasks[i] \in Task
      BY <1>1, <2>3 DEF TypeOK
    <3>2. tasks'[i] = IF tasks[i].id = current_task_id
                      THEN [tasks[i] EXCEPT !.status = "completed", !.result = raw_executor_output]
                      ELSE tasks[i]
      BY DEF TaskManager, Completed
    <3>3. CASE tasks[i].id = current_task_id
      BY <3>1, <3>2, <3>3 DEF Task
    <3>4. CASE tasks[i].id # current_task_id
      <4>1. i # pos
        BY <2>5, <3>4
      <4>2. i < pos
        BY <1>1, <2>3, <2>5, <4>1 DEF TypeOK
      <4>3. QED
        BY <2>5, <3>2, <3>4, <4>2
    <3>5. QED
      BY <3>3, <3>4
  <2>7. next > pos
    BY <2>2, <2>4, <2>6 DEF TypeOK
  <2>8. \A i \in DOMAIN tasks' : i < next => tasks'[i].status = "completed"
    <3> SUFFICES ASSUME NEW i \in DOMAIN tasks', i < next
                 PROVE  tasks'[i].status = "completed"
      OBVIOUS
    <3>1. i \notin Pending(tasks')
      BY <2>1, <2>3, <2>4
    <3>2. tasks'[i] \in Task
      BY <1>1, <2>3, ElementOfSeq
    <3>3. QED
      BY <3>1, <3>2 DEF Pending, Task
  <2>9. PlanInv'
    BY <1>2, <2>1, <2>2, <2>4, <2>8 DEF PlanInv, Replies
  <2>10. QED
    BY <1>1, <2>1, <2>7, <2>9
<1>5. QED
  BY <1>3, <1>4

\* The remaining nodes leave the plan alone.
LEMMA PlanInvOther ==
  ASSUME PlanInv, UNCHANGED planVars, Executing' => Executing,
         pc' \notin {"input_guardrail", "planner", "direct_executor_init"} \cup Replies
  PROVE  PlanInv'
BY DEF PlanInv, planVars

\* The task the graph works on is the first pending one, every task before it is
\* completed: the task manager never goes back, whatever ids the planner chose.
THEOREM PlanInOrder == Spec => []PlanInv
<1>1. Init => PlanInv
  BY DEF Init, PlanInv, Executing
<1>2. TypeOK /\ PlanInv /\ [Next]_vars => PlanInv'
  <2> SUFFICES ASSUME TypeOK, PlanInv, [Next]_vars PROVE PlanInv'
    OBVIOUS
  <2>1. CASE InputGuardrail
    <3>1. tasks = <<>> /\ tasks' = <<>>
      BY <2>1 DEF InputGuardrail, Enter, PlanInv, planVars
    <3>2. pc' \in {"planner", "direct_executor_init"} \cup Replies
      BY <2>1 DEF InputGuardrail, RouteFromGuardrail, Replies
    <3>3. QED
      BY <3>1, <3>2 DEF PlanInv, Executing, Replies
  <2>2. CASE Planner
    <3>1. \E plan \in Seq(Task) : StartPlan(plan)
      BY <2>2, PlannerPlan
    <3>2. QED
      BY <3>1, PlanInvStart
  <2>3. CASE DirectExecutorInit
    <3>1. \E plan \in Seq(Task) : StartPlan(plan)
      BY <2>3, DirectPlan
    <3>2. QED
      BY <3>1, PlanInvStart
  <2>4. CASE TaskManager
    BY <2>4, PlanInvTaskManager
  <2>5. CASE OutOfDomain \/ SupportAgent \/ ClarificationAgent \/ FinalSynthesizer \/ RecursionError
    <3>1. pc' \in Ends /\ UNCHANGED planVars
      BY <2>5 DEF OutOfDomain, SupportAgent, ClarificationAgent, FinalSynthesizer,
                  RecursionError, Finished, Ends
    <3>2. QED
      BY <3>1, PlanInvOther DEF Ends, Executing, Replies
  <2>6. CASE TravelReactAgent \/ ActionTracker \/ Tools
    <3>1. /\ Executing /\ UNCHANGED planVars
          /\ pc' \in {"travel_react_agent", "action_tracker", "tools", "finding_extractor", "error"}
      BY <2>6 DEF TravelReactAgent, ActionTracker, Tools, EvaluateToolHooks, Enter, Executing
    <3>2. QED
      BY <3>1, PlanInvOther DEF Replies
  <2>7. CASE FindingExtractor \/ FactChecker \/ EvaluatorAgent
    <3>1. /\ Executing /\ UNCHANGED planVars
          /\ pc' \in {"fact_checker", "evaluator_agent", "travel_react_agent", "task_manager"}
      BY <2>7 DEF FindingExtractor, FactChecker, EvaluatorAgent, RouteFromEvaluator,
                  Enter, Executing
    <3>2. QED
      BY <3>1, PlanInvOther DEF Replies
  <2>8. CASE UNCHANGED vars
    BY <2>8 DEF vars, planVars, PlanInv, Executing
  <2>9. QED
    BY <2>1, <2>2, <2>3, <2>4, <2>5, <2>6, <2>7, <2>8 DEF Next, Node, Done
<1>3. QED
  BY <1>1, <1>2, TypeCorrect, PTL DEF Spec

-----------------------------------------------------------------------------
(* The loops are bounded together *)

LEMMA Costs ==
  /\ MaxRounds \in Nat \ {0}
  /\ TaskCost \in Nat
  /\ TaskCost = 3 * MaxIterations + 4 * (MaxRounds - 1) + 2
<1>1. MaxRounds \in Nat \ {0}
  BY GraphAssumption DEF MaxRounds
<1>2. QED
  BY <1>1, GraphAssumption DEF TaskCost

LEMMA ProductMonotone ==
  ASSUME NEW a \in Nat, NEW b \in Nat, NEW k \in Nat, a <= b
  PROVE  a * k \in Nat /\ b * k \in Nat /\ a * k <= b * k
<1>1. PICK d \in Nat : b = a + d
  <2>1. b - a \in Nat /\ b = a + (b - a)
    OBVIOUS
  <2>2. QED
    BY <2>1
<1>2. b * k = a * k + d * k /\ d * k \in Nat /\ a * k \in Nat
  BY <1>1
<1>3. QED
  BY <1>2

\* A task's share of the bound ends where the next task's begins, and the last
\* one's ends within the request's.
LEMMA Shares ==
  ASSUME TypeOK, PlanInv, Executing
  PROVE  /\ StepsBefore \in Nat
         /\ TaskRuns \in Nat \ {0}
         /\ TaskRuns * TaskCost \in Nat
         /\ StepsBefore + TaskCost <= 2 + TaskRuns * TaskCost
         /\ \A later \in Nat : later > pos =>
              StepsBefore + TaskCost <= 2 + (later - 1) * TaskCost
<1>1. Len(tasks) \in Nat /\ DOMAIN tasks = 1..Len(tasks) /\ (tasks # <<>> => Len(tasks) > 0)
  BY DEF TypeOK
<1>2. pos \in 1..TaskRuns /\ TaskRuns \in Nat \ {0}
  BY <1>1 DEF PlanInv, TaskRuns, TypeOK
<1>3. pos - 1 \in Nat /\ pos \in Nat /\ pos <= TaskRuns /\ TaskCost \in Nat
  BY <1>2, Costs
<1>4. (pos - 1) * TaskCost \in Nat /\ pos * TaskCost = (pos - 1) * TaskCost + TaskCost
  BY <1>3
<1>5. TaskRuns * TaskCost \in Nat /\ pos * TaskCost <= TaskRuns * TaskCost
  BY <1>2, <1>3, ProductMonotone
<1>6. \A later \in Nat : later > pos => pos * TaskCost <= (later - 1) * TaskCost
  <2> SUFFICES ASSUME NEW later \in Nat, later > pos
               PROVE  pos * TaskCost <= (later - 1) * TaskCost
    OBVIOUS
  <2>1. later - 1 \in Nat /\ pos <= later - 1
    BY <1>3
  <2>2. QED
    BY <1>3, <2>1, ProductMonotone
<1>7. StepsBefore = 2 + (pos - 1) * TaskCost
  BY DEF StepsBefore
<1>8. \A later \in Nat : later > pos => (later - 1) * TaskCost \in Nat
  BY <1>3, ProductMonotone
<1>9. QED
  BY <1>2, <1>3, <1>4, <1>5, <1>6, <1>7, <1>8

LEMMA CountersType ==
  ASSUME TypeOK
  PROVE  /\ iteration_count \in Nat /\ rework_count \in Nat
         /\ Dispatches \in Nat /\ Dispatches <= MaxIterations - 1
         /\ StepsWithin = iteration_count + 2 * Dispatches + 3 * rework_count
         /\ StepsWithin \in Nat
<1>1. iteration_count \in Nat /\ rework_count \in Nat
  BY DEF TypeOK
<1>2. Dispatches \in Nat /\ Dispatches <= MaxIterations - 1
  BY <1>1, GraphAssumption DEF Dispatches
<1>3. QED
  BY <1>1, <1>2 DEF StepsWithin

\* While a task is worked on, its share of the bound is not used up.
LEMMA ShareLeft ==
  ASSUME TypeOK, PlanInv, StepInv, Executing
  PROVE  steps <= StepsBefore + TaskCost - 1
<1>1. /\ steps \in Nat /\ StepsBefore \in Nat /\ MaxIterations \in Nat \ {0}
      /\ MaxRounds \in Nat \ {0} /\ TaskCost \in Nat
      /\ TaskCost = 3 * MaxIterations + 4 * (MaxRounds - 1) + 2
  BY Shares, Costs, GraphAssumption DEF TypeOK
<1>2. CASE pc = "travel_react_agent"
  BY <1>1, <1>2, CountersType DEF StepInv
<1>3. CASE pc \in {"action_tracker", "tools"}
  BY <1>1, <1>3, CountersType DEF StepInv
<1>4. CASE pc = "finding_extractor"
  BY <1>1, <1>4, CountersType DEF StepInv
<1>5. CASE pc = "fact_checker"
  BY <1>1, <1>5, CountersType DEF StepInv
<1>6. CASE pc = "evaluator_agent"
  BY <1>1, <1>6, CountersType DEF StepInv
<1>7. CASE pc = "task_manager"
  BY <1>7 DEF StepInv
<1>8. QED
  BY <1>2, <1>3, <1>4, <1>5, <1>6, <1>7 DEF Executing

LEMMA TaskRunsType == ASSUME TypeOK PROVE TaskRuns * TaskCost \in Nat
<1>1. TaskRuns \in Nat
  BY DEF TaskRuns, TypeOK
<1>2. QED
  BY <1>1, Costs

\* The bound at every node and at every end.
LEMMA StepInvBounds ==
  ASSUME TypeOK, PlanInv, StepInv
  PROVE  /\ pc \in Nodes => steps <= 2 + TaskRuns * TaskCost
         /\ steps <= TaskRuns * TaskCost + 3
<1>1. TaskRuns * TaskCost \in Nat /\ steps \in Nat
  BY TaskRunsType DEF TypeOK
<1>2. CASE Executing
  BY <1>1, <1>2, Shares, ShareLeft, Costs
<1>3. CASE pc \in Nodes /\ ~Executing
  BY <1>1, <1>3 DEF StepInv, Nodes, Executing, Replies
<1>4. CASE pc \in Ends
  BY <1>1, <1>4 DEF StepInv, Nodes, Ends, Executing, Replies
<1>5. QED
  BY <1>1, <1>2, <1>3, <1>4 DEF TypeOK

LEMMA StepInvStart ==
  ASSUME NEW plan \in Seq(Task), StartPlan(plan), steps' = 2
  PROVE  StepInv'
<1>1. /\ pc' = "travel_react_agent" /\ pos' = 1
      /\ iteration_count' = 0 /\ rework_count' = 0
  BY DEF StartPlan, ZeroCounters
<1>2. StepsBefore' = 2
  <2>1. (pos' - 1) * TaskCost = 0
    BY <1>1, Costs
  <2>2. QED
    BY <2>1 DEF StepsBefore
<1>3. StepsWithin' = 0
  BY <1>1, GraphAssumption DEF StepsWithin, Dispatches
<1>4. QED
  BY <1>1, <1>2, <1>3, Costs, GraphAssumption DEF StepInv, Ends, Replies

\* A step that ends the run.
LEMMA StepInvEnd ==
  ASSUME TypeOK, PlanInv, StepInv, pc \in Nodes, pc' \in Ends, UNCHANGED planVars,
         steps' \in {steps, steps + 1}
  PROVE  StepInv'
<1>1. TaskRuns' = TaskRuns
  BY DEF planVars, TaskRuns
<1>2. steps' <= 3 + TaskRuns * TaskCost
  <2>1. steps \in Nat /\ TaskRuns * TaskCost \in Nat /\ steps <= 2 + TaskRuns * TaskCost
    BY StepInvBounds, TaskRunsType DEF TypeOK
  <2>2. QED
    BY <2>1
<1>3. QED
  BY <1>1, <1>2 DEF StepInv, Ends, Replies

LEMMA StepInvReact ==
  ASSUME TypeOK, StepInv, TravelReactAgent, pc' # "error"
  PROVE  StepInv'
<1>1. /\ pc = "travel_react_agent" /\ steps' = steps + 1 /\ UNCHANGED <<planVars, rework_count>>
      /\ iteration_count' = iteration_count + 1
      /\ \E batch \in Batches : pc' = EvaluateToolHooks(batch, iteration_count')
  BY DEF TravelReactAgent, Enter, reviewVars
<1>2. /\ steps \in Nat /\ pos \in Nat /\ StepsBefore' = StepsBefore
      /\ iteration_count \in Nat /\ rework_count \in Nat
  BY <1>1 DEF TypeOK, StepsBefore, planVars
<1>3. StepsBefore \in Int
  BY <1>2, Costs DEF StepsBefore
<1>4. /\ rework_count < MaxRounds
      /\ iteration_count <= MaxIterations - 1 + rework_count
      /\ steps <= StepsBefore + iteration_count + 2 * Dispatches + 3 * rework_count
  BY <1>1, <1>2, <1>3, CountersType DEF StepInv
<1>5. CASE pc' = "action_tracker"
  <2>1. iteration_count' < MaxIterations
    BY <1>1, <1>5 DEF EvaluateToolHooks, WithinLimits
  <2>2. Dispatches = iteration_count /\ Dispatches' = iteration_count + 1
    BY <1>1, <1>2, <2>1, GraphAssumption DEF Dispatches
  <2>3. StepsWithin' = (iteration_count + 1) + 2 * (iteration_count + 1) + 3 * rework_count
    BY <1>1, <2>2 DEF StepsWithin
  <2>4. steps' + 2 <= StepsBefore' + StepsWithin'
    BY <1>1, <1>2, <1>3, <1>4, <2>2, <2>3
  <2>5. QED
    BY <1>1, <1>4, <1>5, <2>1, <2>4 DEF StepInv, Ends, Replies
<1>6. CASE pc' = "finding_extractor"
  <2>1. PICK d \in Nat : d = Dispatches' /\ d >= Dispatches
    BY <1>1, <1>2, GraphAssumption DEF Dispatches
  <2>2. StepsWithin' = (iteration_count + 1) + 2 * d + 3 * rework_count
    BY <1>1, <2>1 DEF StepsWithin
  <2>3. steps' <= StepsBefore' + StepsWithin'
    <3>1. Dispatches \in Nat /\ d \in Nat /\ d >= Dispatches
      BY <2>1, CountersType
    <3>2. steps' <= StepsBefore + ((iteration_count + 1) + 2 * d + 3 * rework_count)
      BY <1>1, <1>2, <1>3, <1>4, <3>1
    <3>3. QED
      BY <1>2, <2>2, <3>2, Zenon
  <2>4. iteration_count' <= MaxIterations + rework_count'
    BY <1>1, <1>2, <1>4, GraphAssumption
  <2>5. QED
    BY <1>1, <1>4, <1>6, <2>3, <2>4 DEF StepInv, Ends, Replies
<1>7. QED
  BY <1>1, <1>5, <1>6 DEF EvaluateToolHooks

\* Between two visits of the executor nothing but the step count changes.
LEMMA StepInvTools ==
  ASSUME TypeOK, StepInv, ActionTracker \/ Tools, pc' # "error"
  PROVE  StepInv'
<1>1. /\ pc \in {"action_tracker", "tools"} /\ steps' = steps + 1
      /\ UNCHANGED <<planVars, iteration_count, rework_count>>
      /\ pc' = IF pc = "action_tracker" THEN "tools" ELSE "travel_react_agent"
  BY DEF ActionTracker, Tools, Enter, loopVars, reviewVars
<1>2. /\ StepsBefore' = StepsBefore /\ StepsWithin' = StepsWithin
      /\ steps \in Nat /\ pos \in Nat
  BY <1>1 DEF TypeOK, StepsBefore, StepsWithin, Dispatches, planVars
<1>3. StepsBefore \in Int /\ StepsWithin \in Nat /\ iteration_count \in Nat /\ rework_count \in Nat
  BY <1>2, Costs, CountersType DEF StepsBefore
<1>4. CASE pc = "action_tracker"
  BY <1>1, <1>2, <1>3, <1>4 DEF StepInv, Ends, Replies
<1>5. CASE pc = "tools"
  <2>1. /\ rework_count < MaxRounds /\ iteration_count < MaxIterations
        /\ steps + 1 <= StepsBefore + StepsWithin
    BY <1>5 DEF StepInv
  <2>2. iteration_count <= MaxIterations - 1 + rework_count
    BY <1>3, <2>1, GraphAssumption
  <2>3. QED
    BY <1>1, <1>2, <1>3, <1>5, <2>1, <2>2 DEF StepInv, Ends, Replies
<1>6. QED
  BY <1>1, <1>4, <1>5

LEMMA StepInvReview ==
  ASSUME TypeOK, StepInv, FindingExtractor \/ FactChecker
  PROVE  StepInv'
<1>1. /\ pc \in {"finding_extractor", "fact_checker"} /\ steps' = steps + 1
      /\ UNCHANGED <<planVars, iteration_count, rework_count>>
      /\ pc' = IF pc = "finding_extractor" THEN "fact_checker" ELSE "evaluator_agent"
  BY DEF FindingExtractor, FactChecker, Enter, loopVars, reviewVars
<1>2. /\ StepsBefore' = StepsBefore /\ StepsWithin' = StepsWithin
      /\ steps \in Nat /\ pos \in Nat
  BY <1>1 DEF TypeOK, StepsBefore, StepsWithin, Dispatches, planVars
<1>3. StepsBefore \in Int /\ StepsWithin \in Nat
  BY <1>2, Costs, CountersType DEF StepsBefore
<1>4. CASE pc = "finding_extractor"
  BY <1>1, <1>2, <1>3, <1>4 DEF StepInv, Ends, Replies
<1>5. CASE pc = "fact_checker"
  BY <1>1, <1>2, <1>3, <1>5 DEF StepInv, Ends, Replies
<1>6. QED
  BY <1>1, <1>4, <1>5

\* A rework counts three steps; without one the task's share covers the rest.
LEMMA StepInvEvaluator ==
  ASSUME TypeOK, StepInv, EvaluatorAgent
  PROVE  StepInv'
<1>1. /\ pc = "evaluator_agent" /\ steps' = steps + 1
      /\ UNCHANGED <<planVars, iteration_count>>
      /\ rework_count' \in {rework_count, rework_count + 1}
      /\ pc' = RouteFromEvaluator(needs_rework', rework_count')
      /\ needs_rework' => rework_count' = rework_count + 1
  BY DEF EvaluatorAgent, Enter, loopVars
<1>2. /\ StepsBefore' = StepsBefore /\ Dispatches' = Dispatches
      /\ steps \in Nat /\ pos \in Nat
  BY <1>1 DEF TypeOK, StepsBefore, Dispatches, planVars
<1>3. /\ StepsBefore \in Int /\ iteration_count \in Nat /\ rework_count \in Nat
      /\ Dispatches \in Nat /\ Dispatches <= MaxIterations - 1
      /\ MaxIterations \in Nat \ {0} /\ MaxRounds \in Nat \ {0} /\ MaxRework \in Nat
  BY <1>2, Costs, CountersType, GraphAssumption DEF StepsBefore
<1>4. /\ rework_count < MaxRounds
      /\ iteration_count <= MaxIterations + rework_count
      /\ steps <= StepsBefore + iteration_count + 2 * Dispatches + 3 * rework_count + 2
  BY <1>1, <1>3, CountersType DEF StepInv
<1>5. CASE pc' = "travel_react_agent"
  <2>1. rework_count' = rework_count + 1 /\ rework_count' < MaxRounds
    BY <1>1, <1>3, <1>5 DEF RouteFromEvaluator, MaxRounds
  <2>2. StepsWithin' = iteration_count + 2 * Dispatches + 3 * (rework_count + 1)
    BY <1>1, <1>2, <2>1 DEF StepsWithin
  <2>3. steps' <= StepsBefore' + StepsWithin'
    BY <1>1, <1>2, <1>3, <1>4, <2>2
  <2>4. iteration_count' <= MaxIterations - 1 + rework_count'
    BY <1>1, <1>3, <1>4, <2>1
  <2>5. QED
    BY <1>5, <2>1, <2>3, <2>4 DEF StepInv, Ends, Replies
<1>6. CASE pc' = "task_manager"
  <2>1. steps' <= StepsBefore' + TaskCost - 1
    BY <1>1, <1>2, <1>3, <1>4, Costs
  <2>2. QED
    BY <1>6, <2>1 DEF StepInv, Ends, Replies
<1>7. QED
  BY <1>1, <1>5, <1>6 DEF RouteFromEvaluator

LEMMA StepInvTaskManager ==
  ASSUME TypeOK, PlanInv, StepInv, TaskManager, TypeOK', PlanInv'
  PROVE  StepInv'
<1>1. Executing /\ pc = "task_manager" /\ steps' = steps + 1 /\ steps \in Nat
  BY DEF TaskManager, Enter, Executing, TypeOK
<1>2. steps' <= StepsBefore + TaskCost
  BY <1>1, Shares, Costs DEF StepInv
<1>3. TaskRuns' = TaskRuns
  BY PlanInvTaskManager DEF TaskRuns, TypeOK
<1>4. CASE pc' = "final_synthesizer"
  <2>1. steps' <= 2 + TaskRuns' * TaskCost
    BY <1>1, <1>2, <1>3, Shares, Costs
  <2>2. QED
    BY <1>4, <2>1 DEF StepInv, Ends, Replies
<1>5. CASE pc' = "travel_react_agent"
  <2>1. pos' > pos /\ pos' \in Nat
    BY <1>5, PlanInvTaskManager DEF Executing, TypeOK
  <2>2. steps' <= StepsBefore'
    <3>1. StepsBefore' = 2 + (pos' - 1) * TaskCost /\ (pos' - 1) * TaskCost \in Int
      BY <2>1, Costs DEF StepsBefore
    <3>2. StepsBefore + TaskCost <= 2 + (pos' - 1) * TaskCost
      BY <1>1, <2>1, Shares
    <3>3. QED
      BY <1>1, <1>2, <3>1, <3>2, Shares, Costs
  <2>3. iteration_count' = 0 /\ rework_count' = 0
    BY <1>5 DEF TaskManager, RouteFromTaskManager, ZeroCounters
  <2>4. StepsWithin' = 0
    BY <2>3, GraphAssumption DEF StepsWithin, Dispatches
  <2>5. PICK b \in Int : b = StepsBefore'
    BY <2>1, Costs DEF StepsBefore
  <2>6. steps' <= StepsBefore' + StepsWithin'
    <3>1. b \in Int /\ steps' <= b
      BY <2>2, <2>5, Zenon
    <3>2. steps' <= b + 0
      BY <1>1, <3>1
    <3>3. QED
      BY <2>4, <2>5, <3>2, Zenon
  <2>7. rework_count' < MaxRounds /\ iteration_count' <= MaxIterations - 1 + rework_count'
    BY <2>3, Costs, GraphAssumption
  <2>8. QED
    BY <1>5, <2>6, <2>7 DEF StepInv, Ends, Replies
<1>6. QED
  BY <1>4, <1>5 DEF TaskManager, RouteFromTaskManager

\* The counters of the loops account for every superstep, whatever the models
\* answer: a rework extends a task's iterations only by the visits beyond the
\* limit, and a task manager's reset opens the next task's share.
THEOREM StepsCounted == Spec => []StepInv
<1>1. Init => StepInv
  BY DEF Init, StepInv, Ends, Replies
<1>2. TypeOK /\ TypeOK' /\ PlanInv /\ PlanInv' /\ StepInv /\ [Next]_vars => StepInv'
  <2> SUFFICES ASSUME TypeOK, TypeOK', PlanInv, PlanInv', StepInv, [Next]_vars
               PROVE  StepInv'
    OBVIOUS
  <2>1. CASE InputGuardrail
    <3>1. steps' = 1
      BY <2>1 DEF InputGuardrail, Enter, StepInv
    <3>2. pc' \in {"planner", "direct_executor_init"} \cup Replies
      BY <2>1 DEF InputGuardrail, RouteFromGuardrail, Replies
    <3>3. QED
      BY <3>1, <3>2 DEF StepInv, Ends, Replies
  <2>2. CASE Planner \/ DirectExecutorInit
    <3>1. PICK plan \in Seq(Task) : StartPlan(plan)
      BY <2>2, PlannerPlan, DirectPlan
    <3>2. steps' = 2
      BY <2>2 DEF Planner, DirectExecutorInit, Enter, StepInv
    <3>3. QED
      BY <3>1, <3>2, StepInvStart
  <2>3. CASE OutOfDomain \/ SupportAgent \/ ClarificationAgent \/ FinalSynthesizer
    <3>1. /\ pc \in Nodes /\ pc' \in Ends /\ UNCHANGED planVars
          /\ steps' = steps + 1
      BY <2>3 DEF OutOfDomain, SupportAgent, ClarificationAgent, FinalSynthesizer,
                  Finished, Enter, Ends, Nodes, Replies
    <3>2. QED
      BY <3>1, StepInvEnd
  <2>4. CASE RecursionError
    <3>1. pc \in Nodes /\ pc' \in Ends /\ UNCHANGED planVars /\ steps' = steps
      BY <2>4 DEF RecursionError, Ends
    <3>2. QED
      BY <3>1, StepInvEnd
  <2>5. CASE (TravelReactAgent \/ Tools) /\ pc' = "error"
    <3>1. /\ pc \in Nodes /\ pc' \in Ends /\ UNCHANGED planVars
          /\ steps' = steps + 1
      BY <2>5 DEF TravelReactAgent, Tools, Enter, Ends, Nodes
    <3>2. QED
      BY <3>1, StepInvEnd
  <2>6. CASE TravelReactAgent /\ pc' # "error"
    BY <2>6, StepInvReact
  <2>7. CASE (ActionTracker \/ Tools) /\ pc' # "error"
    BY <2>7, StepInvTools
  <2>8. CASE FindingExtractor \/ FactChecker
    BY <2>8, StepInvReview
  <2>9. CASE EvaluatorAgent
    BY <2>9, StepInvEvaluator
  <2>10. CASE TaskManager
    BY <2>10, StepInvTaskManager
  <2>11. CASE UNCHANGED vars
    BY <2>11 DEF vars, planVars, loopVars, reviewVars, StepInv, StepsBefore, StepsWithin,
                 Dispatches, TaskRuns
  <2>12. ActionTracker => pc' # "error"
    BY DEF ActionTracker
  <2>13. QED
    BY <2>1, <2>2, <2>3, <2>4, <2>5, <2>6, <2>7, <2>8, <2>9, <2>10, <2>11, <2>12
       DEF Next, Node, Done
<1>3. QED
  BY <1>1, <1>2, TypeCorrect, PlanInOrder, PTL DEF Spec

\* Whatever the models and tools answer, a request of n tasks takes at most
\* n * TaskCost + 3 supersteps.
THEOREM StepsBounded == Spec => []StepBound
<1>1. TypeOK /\ PlanInv /\ StepInv => StepBound
  BY StepInvBounds DEF StepBound
<1>2. QED
  BY <1>1, TypeCorrect, PlanInOrder, StepsCounted, PTL

\* A plan whose tasks' shares are below the recursion limit never meets it.
THEOREM RecursionLimitSpares == Spec => []EnoughSteps
<1>1. Init => EnoughSteps
  BY DEF Init, EnoughSteps
<1>2. TypeOK /\ TypeOK' /\ StepInv' /\ EnoughSteps /\ [Next]_vars => EnoughSteps'
  <2> SUFFICES ASSUME TypeOK, TypeOK', StepInv', EnoughSteps, [Next]_vars,
                      pc' = "recursion_error"
               PROVE  ~(TaskRuns' * TaskCost + 3 < RecursionLimit)
    BY DEF EnoughSteps
  <2>1. RecursionLimit <= steps' \/ (UNCHANGED vars /\ pc = "recursion_error")
    <3>1. CASE OutOfDomain \/ SupportAgent \/ ClarificationAgent \/ FinalSynthesizer
      <4>1. ~(steps' < RecursionLimit)
        BY <3>1 DEF OutOfDomain, SupportAgent, ClarificationAgent, FinalSynthesizer, Finished
      <4>2. QED
        BY <4>1, GraphAssumption DEF TypeOK
    <3>2. CASE RecursionError
      BY <3>2, GraphAssumption DEF RecursionError, TypeOK
    <3>3. CASE InputGuardrail \/ Planner \/ DirectExecutorInit
      BY <3>3 DEF InputGuardrail, RouteFromGuardrail, Planner, DirectExecutorInit, StartPlan
    <3>4. CASE TravelReactAgent \/ ActionTracker \/ Tools
      BY <3>4 DEF TravelReactAgent, EvaluateToolHooks, ActionTracker, Tools
    <3>5. CASE FindingExtractor \/ FactChecker \/ EvaluatorAgent \/ TaskManager
      BY <3>5 DEF FindingExtractor, FactChecker, EvaluatorAgent, RouteFromEvaluator,
                  TaskManager, RouteFromTaskManager
    <3>6. CASE UNCHANGED vars
      BY <3>6 DEF vars
    <3>7. QED
      BY <3>1, <3>2, <3>3, <3>4, <3>5, <3>6 DEF Next, Node, Done
  <2>2. CASE RecursionLimit <= steps'
    <3>1. steps' <= 3 + TaskRuns' * TaskCost /\ steps' \in Nat
      BY DEF StepInv, Ends, TypeOK
    <3>2. TaskRuns' * TaskCost \in Nat
      <4>1. TaskRuns' \in Nat
        BY DEF TaskRuns, TypeOK
      <4>2. QED
        BY <4>1, Costs
    <3>3. QED
      BY <2>2, <3>1, <3>2, GraphAssumption
  <2>3. CASE UNCHANGED vars /\ pc = "recursion_error"
    BY <2>3 DEF EnoughSteps, TaskRuns, vars, planVars
  <2>4. QED
    BY <2>1, <2>2, <2>3
<1>3. QED
  BY <1>1, <1>2, TypeCorrect, StepsCounted, PTL DEF Spec
=============================================================================
