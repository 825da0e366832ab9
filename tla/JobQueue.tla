------------------------------- MODULE JobQueue -------------------------------
(***************************************************************************)
(* What the job queue of FlowTrack promises its users, whatever happens to  *)
(* the workers: a job is worked on by one worker at a time, is begun at     *)
(* most MaxTries times, and once it is over it stays over.  A job that is   *)
(* taken away from its worker is taken from a worker that no longer works.  *)
(***************************************************************************)
EXTENDS Integers

CONSTANTS
  Jobs,      \* the jobs that may be handed in
  Workers,   \* the workers that may take one
  Nobody,    \* the worker of a job that has none, not one of Workers
  MaxTries   \* how often a job may be begun

VARIABLES
  state,   \* state[j]: "absent", "waiting", "held" or "over"
  tries,   \* tries[j]: how often j was begun
  worker,  \* worker[j]: who holds j
  active,  \* the workers at work
  used     \* the workers that ever took a job

vars == <<state, tries, worker, active, used>>

Init ==
  /\ state = [j \in Jobs |-> "absent"]
  /\ tries = [j \in Jobs |-> 0]
  /\ worker = [j \in Jobs |-> Nobody]
  /\ active = {}
  /\ used = {}

HandIn(j) ==
  /\ state[j] = "absent"
  /\ state' = [state EXCEPT ![j] = "waiting"]
  /\ UNCHANGED <<tries, worker, active, used>>

\* A worker takes one job in its life.
Take(j, w) ==
  /\ state[j] = "waiting" /\ tries[j] < MaxTries /\ w \notin used
  /\ state' = [state EXCEPT ![j] = "held"]
  /\ tries' = [tries EXCEPT ![j] = @ + 1]
  /\ worker' = [worker EXCEPT ![j] = w]
  /\ active' = active \cup {w}
  /\ used' = used \cup {w}

\* The job is taken for the record only.
Skip(j) ==
  /\ state[j] = "waiting" /\ tries[j] < MaxTries
  /\ state' = [state EXCEPT ![j] = "over"]
  /\ tries' = [tries EXCEPT ![j] = @ + 1]
  /\ UNCHANGED <<worker, active, used>>

\* Held jobs leave their workers: those of again wait for another try.
GiveUp(again, over) ==
  /\ state' = [j \in Jobs |-> IF j \in again THEN "waiting"
                              ELSE IF j \in over THEN "over" ELSE state[j]]
  /\ worker' = [j \in Jobs |-> IF j \in again \cup over THEN Nobody ELSE worker[j]]
  /\ UNCHANGED <<tries, used>>

\* A worker that is done with its job, or has to try again later, stops.
Finish(j, w) ==
  /\ state[j] = "held" /\ worker[j] = w /\ w \in active
  /\ active' = active \ {w}
  /\ \/ GiveUp({}, {j})
     \/ tries[j] < MaxTries /\ GiveUp({j}, {})

\* Workers disappear, and their jobs with them until they are recovered.
Die == \E gone \in SUBSET active :
         /\ active' = active \ gone
         /\ UNCHANGED <<state, tries, worker, used>>

Lost(j) == state[j] = "held" /\ worker[j] \notin active

Recover ==
  /\ \E again, over \in SUBSET {j \in Jobs : Lost(j)} :
       /\ again \cap over = {}
       /\ \A j \in again : tries[j] < MaxTries
       /\ GiveUp(again, over)
  /\ UNCHANGED active

Next ==
  \/ \E j \in Jobs : HandIn(j) \/ Skip(j)
  \/ \E j \in Jobs, w \in Workers : Take(j, w) \/ Finish(j, w)
  \/ Die
  \/ Recover

Spec == Init /\ [][Next]_vars

=============================================================================
