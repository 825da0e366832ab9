----------------------------- MODULE MCAdmission ----------------------------
(* Admission of two tasks, the younger with the higher score.  Nobody designs, and task 2 *)
(* needs it.  Of dev there are a variant scoped to the project of task 1 and two that are *)
(* tied for task 2.                                                                       *)
EXTENDS Admission

MCScore(t) == t

MCBaseOf(v) == "dev"
MCInProject(v, t) == t = 1
MCMatches(v, t) == t = 2
=============================================================================
