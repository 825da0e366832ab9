------------------------------ MODULE Admission ------------------------------
(***************************************************************************)
(* Admission: how several tasks get their first job.  Sweeps of the PO     *)
(* agent (agents/po.py) rank the tasks that are ready and enqueue the best *)
(* of them; sweeps of the DevOps agent (agents/devops.py) enqueue what is  *)
(* blocked on infrastructure; each job is given to the most specialized    *)
(* role there is for its task (orchestrator/dispatch.py), and the claim    *)
(* loop takes the lowest priority number first.                            *)
(*                                                                         *)
(* A sweep is one transaction of a daemon or of `flowtrack po admit`: it   *)
(* reads the open jobs and the live instances, then the tasks, and commits *)
(* its jobs.  A job and its instance are claimed and end together here;    *)
(* Orchestrator is about the times they do not.  After its first stage a   *)
(* task is "away" in the pipeline, until an infra failure blocks it.       *)
(* Tasks are numbers, in the order they were created.                      *)
(***************************************************************************)
EXTENDS Common, Integers, Sequences, FiniteSets, SequencesExt

CONSTANTS
  Score(_),      \* score_task
  NeedsDesign,   \* tasks routed by design that have no ui_spec yet
  Bases,         \* base roles there are
  Variants,      \* their variants
  BaseOf(_),     \* base_role_name of a variant
  Scoped, Patterned,               \* variants that are of a project, or have match_patterns
  InProject(_, _), Matches(_, _),  \* variant and task: same project; a pattern fits the hint
  PoSweepers, DevopsSweepers,  \* loops of daemons, and commands of a human
  Loops,         \* those that are loops
  Batch,         \* po_admission_batch and devops_pickup_batch
  MaxFailures,   \* bound: jobs that fail
  MaxBlocks      \* bound: infra failures

ASSUME AdmissionAssumption ==
  /\ Tasks \subseteq Nat
  /\ \A t \in Tasks : Score(t) \in Nat
  /\ NeedsDesign \subseteq Tasks
  /\ Loops \subseteq PoSweepers \cup DevopsSweepers
  /\ {"dev", "devops"} \subseteq Bases
  /\ \A v \in Variants : BaseOf(v) \in Bases
  /\ Variants \cap Bases = {} /\ None \notin Bases \cup Variants
  /\ Batch \in Nat \ {0} /\ MaxFailures \in Nat /\ MaxBlocks \in Nat

VARIABLES
  task,      \* "new", "todo" (and ready), "away" or "blocked" (infra_failure)
  jobs,      \* open jobs in the order they were made: [task, role, prio, claimed]
  sweep,     \* what each sweep under way has read, or None
  failures,  \* number of jobs that failed so far
  blocks,    \* number of infra failures so far
  overlaps   \* history: jobs of sweeps that committed after another one they had not seen

Sweepers == PoSweepers \cup DevopsSweepers

admissionVars == <<task, jobs, sweep, failures, blocks, overlaps>>

AdmissionInit ==
  /\ task = [t \in Tasks |-> "new"]
  /\ jobs = <<>>
  /\ sweep = [s \in Sweepers |-> None]
  /\ failures = 0 /\ blocks = 0 /\ overlaps = 0

-----------------------------------------------------------------------------
(* Dispatch *)

\* _specificity: a variant scoped to another project, or whose patterns do not fit, is not
\* eligible.
Eligible(v, t) ==
  /\ v \in Scoped => InProject(v, t)
  /\ v \in Patterned => Matches(v, t)

Specificity(v) == (IF v \in Scoped THEN 2 ELSE 0) + (IF v \in Patterned THEN 1 ELSE 0)

\* Mutant: the most specific variant of the base, whatever it is scoped to.
ResolveUnscoped(base, t) ==
  LET of == {v \in Variants : BaseOf(v) = base}
      winners == {v \in of : \A w \in of : Specificity(w) <= Specificity(v)}
  IN  IF base \notin Bases THEN None
      ELSE IF Cardinality(winners) = 1 THEN CHOOSE v \in winners : TRUE
      ELSE base

\* resolve_role: the most specific variant, the base if two are tied, None if there is no
\* such base.
Resolve(base, t) ==
  LET scored == {v \in Variants : BaseOf(v) = base /\ Eligible(v, t)}
      winners == {v \in scored : \A w \in scored : Specificity(w) <= Specificity(v)}
  IN  IF base \notin Bases THEN None
      ELSE IF Cardinality(winners) = 1 THEN CHOOSE v \in winners : TRUE
      ELSE base

-----------------------------------------------------------------------------
(* Sweeps *)

\* Mutant: a task is free as soon as its job is claimed.
Unclaimed == {jobs[j].task : j \in {k \in DOMAIN jobs : ~jobs[k].claimed}}

\* Tasks with an open job or a live instance.
Busy == {jobs[j].task : j \in DOMAIN jobs}

\* A sweep begins with two queries.
ReadBusy(s) ==
  /\ sweep[s] = None
  /\ sweep' = [sweep EXCEPT ![s] = [skip |-> Busy, picks |-> <<>>, overtaken |-> FALSE]]
  /\ UNCHANGED <<task, jobs, failures, blocks, overlaps>>

\* rank_ready_tasks: by score, the oldest of the same score first.
RanksBefore(t, u) == Score(t) > Score(u) \/ (Score(t) = Score(u) /\ t < u)

InOrder(S, Before(_, _)) ==
  [r \in 1 .. Cardinality(S) |-> CHOOSE t \in S : Cardinality({u \in S : Before(u, t)}) = r - 1]

\* Mutant: without the role that designs, a task that needs it is stranded.
CandidatesWithRole(s, skip) ==
  IF s \in PoSweepers
  THEN InOrder({t \in Tasks \ skip : task[t] = "todo" /\ (t \in NeedsDesign => "design" \in Bases)},
               RanksBefore)
  ELSE InOrder({t \in Tasks \ skip : task[t] = "blocked"}, <)

\* pickup_infra_failures: the oldest first.
Candidates(s, skip) ==
  IF s \in PoSweepers THEN InOrder({t \in Tasks \ skip : task[t] = "todo"}, RanksBefore)
  ELSE InOrder({t \in Tasks \ skip : task[t] = "blocked"}, <)

FirstOf(seq, n) == SubSeq(seq, 1, IF n < Len(seq) THEN n ELSE Len(seq))

\* Then it reads the tasks; one that finds none is over.
ReadTasks(s) ==
  /\ sweep[s] # None /\ sweep[s].picks = <<>>
  /\ LET picks == FirstOf(Candidates(s, sweep[s].skip), Batch)
     IN  sweep' = [sweep EXCEPT ![s] =
                     IF picks = <<>> THEN None ELSE [@ EXCEPT !.picks = picks]]
  /\ UNCHANGED <<task, jobs, failures, blocks, overlaps>>

\* ADMISSION_BASE_PRIORITY and the rank; PICKUP_PRIORITY.
Priority(s, rank) == IF s \in PoSweepers THEN 200 + rank - 1 ELSE 40

\* Without the role that designs, the task goes to dev.
RoleFor(s, t) ==
  IF s \in DevopsSweepers THEN Resolve("devops", t)
  ELSE IF t \in NeedsDesign /\ Resolve("design", t) # None THEN Resolve("design", t)
  ELSE Resolve("dev", t)

NewJobs(s) ==
  LET Job(r) == [task |-> sweep[s].picks[r], role |-> RoleFor(s, sweep[s].picks[r]),
                 prio |-> Priority(s, r), claimed |-> FALSE]
  IN  [r \in DOMAIN sweep[s].picks |-> Job(r)]

\* admit_ready_tasks and pickup_infra_failures commit.
CommitSweep(s) ==
  /\ sweep[s] # None /\ sweep[s].picks # <<>>
  /\ jobs' = jobs \o NewJobs(s)
  /\ overlaps' = overlaps + IF sweep[s].overtaken THEN 1 ELSE 0
  /\ sweep' = [u \in Sweepers |->
                 CASE u = s            -> None
                   [] sweep[u] = None  -> None
                   [] OTHER            -> [sweep[u] EXCEPT !.overtaken = TRUE]]
  /\ UNCHANGED <<task, failures, blocks>>

\* It raises; the loop goes on at its next interval.
AbortSweep(s) ==
  /\ sweep[s] # None
  /\ failures < MaxFailures
  /\ failures' = failures + 1
  /\ sweep' = [sweep EXCEPT ![s] = None]
  /\ UNCHANGED <<task, jobs, blocks, overlaps>>

-----------------------------------------------------------------------------
(* Tasks and jobs *)

\* A human or the PM agent writes acceptance criteria.
BecomesReady(t) ==
  /\ task[t] = "new"
  /\ task' = [task EXCEPT ![t] = "todo"]
  /\ UNCHANGED <<jobs, sweep, failures, blocks, overlaps>>

\* claim_next_job: of those queued, by priority, then by age.
ClaimsNext(j) ==
  /\ ~jobs[j].claimed
  /\ \A k \in DOMAIN jobs : ~jobs[k].claimed =>
       jobs[j].prio < jobs[k].prio \/ (jobs[j].prio = jobs[k].prio /\ j <= k)

Claim ==
  \E j \in DOMAIN jobs :
    /\ ClaimsNext(j)
    /\ jobs' = [jobs EXCEPT ![j].claimed = TRUE]
    /\ UNCHANGED <<task, sweep, failures, blocks, overlaps>>

\* The stage succeeds: the task goes on in the pipeline, or returns to it.
Succeed(j) ==
  /\ jobs[j].claimed
  /\ jobs' = RemoveAt(jobs, j)
  /\ task' = [task EXCEPT ![jobs[j].task] = "away"]
  /\ UNCHANGED <<sweep, failures, blocks, overlaps>>

\* The job fails for good; the task stays where it is.
Fail(j) ==
  /\ failures < MaxFailures
  /\ jobs[j].claimed
  /\ failures' = failures + 1
  /\ jobs' = RemoveAt(jobs, j)
  /\ UNCHANGED <<task, sweep, blocks, overlaps>>

\* QA or the merge stage reports an infra failure, as its own job ends.
InfraFailure(t) ==
  /\ blocks < MaxBlocks
  /\ task[t] = "away" /\ t \notin Busy
  /\ blocks' = blocks + 1
  /\ task' = [task EXCEPT ![t] = "blocked"]
  /\ UNCHANGED <<jobs, sweep, failures, overlaps>>

Sweep(s) ==
  ReadBusy(s) \/ ReadTasks(s) \/ CommitSweep(s)

Finish == \E j \in DOMAIN jobs : Succeed(j) \/ Fail(j)

AdmissionNext ==
  \/ \E t \in Tasks : BecomesReady(t) \/ InfraFailure(t)
  \/ \E s \in Sweepers : Sweep(s) \/ AbortSweep(s)
  \/ Claim \/ Finish

\* The loops of a daemon sweep forever, the claim loop claims and agents end; a human need
\* not run any command.
Fairness ==
  /\ \A s \in Loops : WF_admissionVars(Sweep(s))
  /\ WF_admissionVars(Claim)
  /\ WF_admissionVars(Finish)

AdmissionSpec == AdmissionInit /\ [][AdmissionNext]_admissionVars

FairSpec == AdmissionSpec /\ Fairness

-----------------------------------------------------------------------------
(* Properties *)

\* A job is of a role that exists and fits its task, and only of a task that was ready; a
\* sweep picks no task twice and none that is busy.
AdmissionTypeOK ==
  /\ task \in [Tasks -> {"new", "todo", "away", "blocked"}]
  /\ failures \in 0 .. MaxFailures /\ blocks \in 0 .. MaxBlocks /\ overlaps \in Nat
  /\ \A j \in DOMAIN jobs :
       /\ jobs[j].task \in Tasks /\ task[jobs[j].task] # "new"
       /\ \/ jobs[j].role \in Bases
          \/ jobs[j].role \in Variants /\ Eligible(jobs[j].role, jobs[j].task)
       /\ jobs[j].prio \in {40} \cup (200 .. 199 + Batch)
  /\ \A s \in Sweepers : sweep[s] # None =>
       /\ sweep[s].skip \subseteq Tasks
       /\ IsInjective(sweep[s].picks)
       /\ ToSet(sweep[s].picks) \cap sweep[s].skip = {}

\* A task has one open job, but for sweeps that did not see each other's jobs: each of them
\* may add one.
OneOpenJob ==
  \A t \in Tasks : Cardinality({j \in DOMAIN jobs : jobs[j].task = t}) <= 1 + overlaps

\* A task that is ready, or blocked on infrastructure, is worked on in the end: failed jobs
\* are admitted again, and neither the batch nor a missing role strands it.
TakenUp ==
  \A t \in Tasks : task[t] \in {"todo", "blocked"} ~> task[t] = "away"

=============================================================================
