---------------------------- MODULE PlanExecution ----------------------------
(***************************************************************************)
(* What the agent graph promises of a request with a well-formed plan,     *)
(* without its nodes: tasks are completed one at a time in plan order, a   *)
(* task is worked on for at most MaxRounds rounds, the final answer is     *)
(* written once every task is complete, and a request ends exactly once:   *)
(* answered or failed.                                                     *)
(***************************************************************************)
EXTENDS Naturals

CONSTANT MaxRounds

VARIABLES
  stage,      \* "triage", "executing", "writing", "answered", "failed"
  size,       \* tasks planned
  completed,  \* the tasks completed
  rounds      \* reworks of the task being executed

absVars == <<stage, size, completed, rounds>>

Init == stage = "triage" /\ size = 0 /\ completed = {} /\ rounds = 0

\* Classified: either the request is answered without a plan later on, or planned.
StartReply ==
  /\ stage = "triage"
  /\ stage' = "writing"
  /\ UNCHANGED <<size, completed, rounds>>

Plan ==
  /\ stage = "triage"
  /\ stage' = "executing"
  /\ size' \in Nat \ {0}
  /\ UNCHANGED <<completed, rounds>>

Rework ==
  /\ stage = "executing"
  /\ rounds + 1 < MaxRounds
  /\ rounds' = rounds + 1
  /\ UNCHANGED <<stage, size, completed>>

Complete ==
  /\ stage = "executing"
  /\ \E i \in 1..size :
       /\ completed = 1..(i - 1)
       /\ completed' = 1..i
       /\ stage' = IF i = size THEN "writing" ELSE "executing"
  /\ rounds' = 0
  /\ UNCHANGED size

Answer ==
  /\ stage = "writing"
  /\ completed = 1..size
  /\ stage' = "answered"
  /\ UNCHANGED <<size, completed, rounds>>

Fail ==
  /\ stage \in {"triage", "executing", "writing"}
  /\ stage' = "failed"
  /\ rounds' = 0
  /\ UNCHANGED <<size, completed>>

Next == StartReply \/ Plan \/ Rework \/ Complete \/ Answer \/ Fail

Spec == Init /\ [][Next]_absVars
=============================================================================
