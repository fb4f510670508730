------------------------ MODULE AgentGraphRefinement ------------------------
(* The agent graph implements PlanExecution when the planner returns       *)
(* well-formed plans.                                                      *)
EXTENDS AgentGraphProperties

stage ==
  CASE pc \in {"input_guardrail", "planner", "direct_executor_init"} -> "triage"
    [] Executing -> "executing"
    [] pc \in Replies \cup {"final_synthesizer"} -> "writing"
    [] pc = "END" -> "answered"
    [] OTHER -> "failed"

\* The evaluator counts the rework it refuses.
rounds ==
  CASE ~Executing -> 0
    [] pc = "task_manager" /\ forced_accept -> rework_count - 1
    [] OTHER -> rework_count

Execution == INSTANCE PlanExecution WITH
  size <- Len(tasks),
  completed <- {i \in DOMAIN tasks : tasks[i].status = "completed"}

\* Tasks run in plan order, each to one completion, within the rounds, and the
\* answer is written after the last one: planner, rework edge and task manager
\* together behave as the plan execution they are meant to be.
ImplementsPlanExecution == Execution!Spec

-----------------------------------------------------------------------------
(* Why: the tasks completed are those before the current one. *)

PlansWellFormed ==
  \A plan \in Plans :
    /\ plan # <<>>
    /\ \A i \in DOMAIN plan : plan[i] # 0
    /\ \A i, j \in DOMAIN plan : plan[i] = plan[j] => i = j

FrontierInv ==
  /\ Executing =>
       WellFormed /\ \A i \in DOMAIN tasks : i >= pos => tasks[i].status = "pending"
  /\ pc = "final_synthesizer" => \A i \in DOMAIN tasks : tasks[i].status = "completed"
=============================================================================
