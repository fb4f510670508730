------------------------------ MODULE MCChatMemory ------------------------------
(***************************************************************************)
(* ChatMemory on a small instance: the prompts of the model are similar to *)
(* each other.                                                             *)
(***************************************************************************)
EXTENDS ChatMemory, TLC

MCSimilar == [p \in Prompts |-> Prompts]

\* The requests of an instance without temporal properties are alike.
MCSymmetry == Permutations(Requests)
=============================================================================
