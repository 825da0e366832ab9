------------------------------- MODULE Common --------------------------------
(* What Admission and Merge are both about. *)
CONSTANTS
  None,   \* SQL NULL, and no sweep, role, sha or verdict
  Tasks
=============================================================================
