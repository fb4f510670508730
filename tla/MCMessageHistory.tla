-------------------------- MODULE MCMessageHistory --------------------------
(***************************************************************************)
(* MessageHistory on a small instance.                                     *)
(***************************************************************************)
EXTENDS MessageHistory

Result(source, long) ==
  [source |-> source, long |-> long, raw |-> IF long THEN 4 ELSE 1, brief |-> 2]

\* An empty answer, a short result, two long ones that exceed the budget.
ThreeAnswers == {<<>>, <<Result(1, FALSE)>>, <<Result(1, TRUE), Result(2, TRUE)>>}

\* Up to two results, each long or short.
TwoResults ==
  {<<>>} \cup {<<Result(1, a)>> : a \in BOOLEAN}
         \cup {<<Result(1, a), Result(2, b)>> : a, b \in BOOLEAN}
=============================================================================
