---------------------------- MODULE MCAgentGraph ----------------------------
(* Instances of AgentGraph for TLC. *)
EXTENDS AgentGraphRefinement, TLC

CallSymmetry == Permutations(Calls)

\* The plans a model may return, the malformed ones included: no task, one id
\* twice, an id that is falsy.
AllPlans  == {<<>>, <<1>>, <<1, 2>>, <<1, 1>>, <<0, 1>>, <<1, 2, 2>>}
GoodPlans == {<<1>>, <<1, 2>>, <<2, 1, 3>>}
=============================================================================
