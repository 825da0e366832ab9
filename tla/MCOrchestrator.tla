---------------------------- MODULE MCOrchestrator ----------------------------
(* Values for the constants of Orchestrator that a cfg cannot write. *)
EXTENDS Orchestrator

\* Jobs are 1, 2, ... in claim order, all under one resource key.
MCRank == [j \in Jobs |-> j]
MCKeyOf == [j \in Jobs |-> CHOOSE k \in Keys : TRUE]

\* Bound of a run: the agent job 1 goes with another, or with a merge.
TwoAdded == jobStatus[2] = "absent" \/ jobStatus[3] = "absent"

\* Bound of a run: a third instance or a merge only where all limits are 1.
LowOrFew ==
  \/ limit = 1 /\ \A i \in Instances : granted[i] <= 1
  \/ instStatus[3] = "absent" /\ jobStatus[3] = "absent"

=============================================================================
