--------------------------- MODULE MCStateMachine ---------------------------
(***************************************************************************)
(* StateMachine with the waits of MCWaits.                                  *)
(***************************************************************************)
EXTENDS StateMachine, MCWaits

=============================================================================
