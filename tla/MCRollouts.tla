------------------------------ MODULE MCRollouts ------------------------------
(***************************************************************************)
(* Instances of Rollouts for model checking.                               *)
(***************************************************************************)
EXTENDS Rollouts, TLC
===============================================================================
