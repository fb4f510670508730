------------------------------ MODULE MCHotelSync ------------------------------
(***************************************************************************)
(* HotelSync on a small instance: the agent's threads are alike.           *)
(***************************************************************************)
EXTENDS HotelSync, TLC

MCSymmetry == Permutations(Agents)
=============================================================================
