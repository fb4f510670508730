--------------------------- MODULE MCAgentRuntime ---------------------------
(***************************************************************************)
(* AgentRuntime on small instances.                                        *)
(***************************************************************************)
EXTENDS AgentRuntime, TLC

CONSTANTS web, hotels

MCSymmetry == Permutations(Requests)

OneServer  == <<web>>
FewPermits == <<1, 2>>
=============================================================================
