-------------------------- MODULE MCAnnouncements --------------------------
(***************************************************************************)
(* Announcements with the callers of MCCallers.                             *)
(***************************************************************************)
EXTENDS Announcements, MCCallers

=============================================================================
