------------------------------- MODULE MCTower -------------------------------
(***************************************************************************)
(* Tower with the callers of MCCallers.                                     *)
(***************************************************************************)
EXTENDS Tower, MCCallers

=============================================================================
