------------------------------- MODULE Pipeline -------------------------------
(***************************************************************************)
(* The life of one task in the agent pipeline: admission by the PO sweep   *)
(* (agents/po.py), the chain dev -> reviewer -> qa -> merge with its       *)
(* verdicts, rework and blocks (spawner.py), the merge stage (merger.py),  *)
(* pickup of infra failures (agents/devops.py), what a human may do to the *)
(* task meanwhile (api/routers/tasks.py, cli/task.py) and the incidents it *)
(* opens and resolves (services/incident_service.py).                      *)
(*                                                                         *)
(* Tasks share no state here.  A job and its instance are one record: how  *)
(* jobs are claimed, retried and lost is the subject of Orchestrator.tla.  *)
(* Here they start, go back to the queue or give up at any time, and the   *)
(* watchdog may fail a job whose supervisor goes on working, or put one    *)
(* back into the queue that has ended since it was read.                   *)
(*                                                                         *)
(* A transaction on the task's row is two steps, the read and the commit.  *)
(* SQLAlchemy's UPDATE writes the columns whose value differs from the one *)
(* the transaction read, and nothing locks the row in between.             *)
(***************************************************************************)
EXTENDS Integers, FiniteSets

CONSTANTS
  None,        \* SQL NULL
  Daemons,     \* the daemons whose PO and devops sweeps run
  MaxBounce,   \* Role.max_bounce_count of reviewer and qa
  MaxJobs,     \* bound: number of jobs the task may get
  MaxTouches,  \* bound: number of times a human acts on the task
  MaxSlips     \* bound: number of times the watchdog takes a job at work for lost

Agents   == {"design", "dev", "reviewer", "qa", "devops", "pm"}
Roles    == Agents \cup {"merge"}
Statuses == {"todo", "in_progress", "blocked", "in_review", "in_qa", "done"}
Buckets  == {"code_failure", "infra_failure", "security", "manual_intervention"}

ASSUME PipelineAssumption ==
  /\ MaxBounce \in Nat
  /\ MaxJobs \in Nat
  /\ MaxTouches \in Nat
  /\ MaxSlips \in Nat
  /\ None \notin Buckets \cup Roles
  /\ \A commits \in SUBSET (1 .. MaxJobs) : None # commits

\* STATUS_ROLE and ROLE_STATUS.
StatusRole == [in_progress |-> "dev", in_review |-> "reviewer", in_qa |-> "qa"]
RoleStatus == [dev |-> "in_progress", reviewer |-> "in_review", qa |-> "in_qa"]

\* Mutant: the development is handed to QA without a review.
ChainSkippingReview ==
  [design   |-> [next |-> "dev",      status |-> "in_progress"],
   dev      |-> [next |-> "qa",       status |-> "in_qa"],
   reviewer |-> [next |-> "qa",       status |-> "in_qa"],
   qa       |-> [next |-> None,       status |-> "done"],
   devops   |-> [next |-> "qa",       status |-> "in_qa"]]

\* next_role_name and task_status_on_success of the seeded roles that have them.
Chain ==
  [design   |-> [next |-> "dev",      status |-> "in_progress"],
   dev      |-> [next |-> "reviewer", status |-> "in_review"],
   reviewer |-> [next |-> "qa",       status |-> "in_qa"],
   qa       |-> [next |-> None,       status |-> "done"],
   devops   |-> [next |-> "qa",       status |-> "in_qa"]]

\* The outcomes of _ROLE_VERDICTS.  An agent that gave no verdict is escalated.
Outcomes ==
  [design   |-> {"success"},
   dev      |-> {"success"},
   pm       |-> {"success"},
   reviewer |-> {"success", "failure", "human"},
   qa       |-> {"success", "failure", "infra", "human"},
   devops   |-> {"success", "human"}]

VARIABLES
  row,        \* the tasks row: [status, reason, bounce]
  open,       \* its jobs that are queued, or have a supervisor at work
  nextId,     \* the next job's id
  needsUi,    \* routed design_dev, and ui_spec is NULL
  incidents,  \* number of its open pipeline incidents
  marks,      \* roles with a stage_completed_reason transition
  merged,     \* commits on the target branch
  human,      \* the API request or command in progress: [op, arg, seen], or None
  touches,    \* number of API requests and commands so far
  admitting,  \* daemons whose PO sweep found the task idle, and
  picking,    \* daemons whose devops sweep did
  late,       \* jobs that the watchdog failed while their supervisors worked
  stale,      \* the claim a watchdog sweep has read: [id, role, parent], or None
  slips,      \* number of jobs at work that the watchdog failed or read so far
  \* history, read by properties only
  delivered,  \* dev jobs that completed: their commits are the task's work
  reviewed,   \* commits on a branch the reviewer approved
  tested,     \* commits on a branch that passed QA
  reworks,    \* automatic returns to dev since a human reset the bounce budget
  detached,   \* a job without parent_branch was added after work was delivered
  gaveUp,     \* some job ended without applying a verdict
  edited,     \* the CLI set the status
  raced,      \* two transactions on the row overlapped
  doubled     \* a job was added, or put back, while another was open

sweepVars == <<admitting, picking, doubled>>
watchVars == <<late, stale, slips>>
workVars  == <<marks, merged, delivered, reviewed, tested>>
vars == <<row, open, nextId, needsUi, incidents, human, touches, sweepVars, watchVars,
          workVars, reworks, detached, gaveUp, edited, raced>>

Row == [status : Statuses, reason : Buckets \cup {None}, bounce : Nat]

\* A new task is ready, or a critical security finding a human must look at.
Init ==
  /\ row \in {[status |-> "todo", reason |-> None, bounce |-> 0],
             [status |-> "blocked", reason |-> "security", bounce |-> 0]}
  /\ open = {}
  /\ nextId = 1
  /\ needsUi \in BOOLEAN
  /\ incidents = 0
  /\ marks = {}
  /\ merged = {}
  /\ human = None
  /\ touches = 0
  /\ admitting = {}
  /\ picking = {}
  /\ late = {}
  /\ stale = None
  /\ slips = 0
  /\ delivered = {}
  /\ reviewed = {}
  /\ tested = {}
  /\ reworks = 0
  /\ detached = FALSE
  /\ gaveUp = FALSE
  /\ edited = FALSE
  /\ raced = FALSE
  /\ doubled = FALSE

-----------------------------------------------------------------------------
(* Rows, jobs and branches *)

\* The UPDATE of a transaction that read seen and assigned new.
Write(seen, new) ==
  /\ row' = [c \in DOMAIN row |-> IF new[c] # seen[c] THEN new[c] ELSE row[c]]
  /\ raced' = (raced \/ row # seen)

\* A queued job.  parent is the content of payload_json.parent_branch, None
\* without one; work, once it runs, the commits on the instance's branch.
Job(role, parent) ==
  [id |-> nextId, role |-> role, phase |-> "queued", parent |-> parent,
   work |-> {}, outcome |-> None, seen |-> None]

\* The open jobs become kept, and a new job for role unless that is None.
Replace(kept, role, parent) ==
  IF role = None
  THEN open' = kept /\ UNCHANGED <<nextId, detached>>
  ELSE /\ nextId <= MaxJobs
       /\ open' = kept \cup {Job(role, parent)}
       /\ nextId' = nextId + 1
       /\ detached' = (detached \/ (parent = None /\ delivered # {}))

Change(j, k) == open' = (open \ {j}) \cup {k}

\* open_pipeline_incident
OpenIncident == incidents' = incidents + 1

\* Mutant: one incident is closed, whether or not one is open.
ResolveOneIncident == incidents' = incidents - 1

\* resolve_pipeline_incidents
ResolveIncidents == incidents' = 0

Live(j) == j.phase # "queued"

\* Its row is CLAIMED, and its instance live.
AtWork(j) == Live(j) /\ j.id \notin late

-----------------------------------------------------------------------------
(* Sweeps *)

\* The task has no queued or claimed job, hence no live instance either, but maybe a
\* supervisor whose job and instance were reaped.
Idle == \A j \in open : j.id \in late

\* The first SELECTs of rank_ready_tasks and pickup_infra_failures.
ReadBusy(d) ==
  /\ Idle
  /\ \/ d \notin admitting /\ admitting' = admitting \cup {d} /\ UNCHANGED picking
     \/ d \notin picking /\ picking' = picking \cup {d} /\ UNCHANGED admitting
  /\ UNCHANGED <<row, open, nextId, needsUi, incidents, human, touches, watchVars,
                 workVars, reworks, detached, gaveUp, edited, raced, doubled>>

\* A sweep adds a job.
AddJob(role) ==
  /\ Replace(open, role, None)
  /\ doubled' = (doubled \/ open # {})

\* admit_ready_tasks for a task with acceptance criteria.
Admit(d) ==
  /\ d \in admitting
  /\ admitting' = admitting \ {d}
  /\ \/ /\ row.status = "todo"
        /\ AddJob(IF needsUi THEN "design" ELSE "dev")
     \/ /\ row.status # "todo"
        /\ UNCHANGED <<open, nextId, detached, doubled>>
  /\ UNCHANGED <<row, needsUi, incidents, human, touches, picking, watchVars, workVars,
                 reworks, gaveUp, edited, raced>>

\* pickup_infra_failures
Pickup(d) ==
  LET stuck == row.status = "blocked" /\ row.reason = "infra_failure"
  IN  /\ d \in picking
      /\ picking' = picking \ {d}
      /\ \/ stuck /\ AddJob("devops")
         \/ ~stuck /\ UNCHANGED <<open, nextId, detached, doubled>>
      /\ UNCHANGED <<row, needsUi, incidents, human, touches, admitting, watchVars,
                     workVars, reworks, gaveUp, edited, raced>>

-----------------------------------------------------------------------------
(* Jobs up to their verdict *)

UnchangedByJobs == UNCHANGED <<nextId, needsUi, incidents, human, touches, sweepVars,
                               reworks, detached, edited>>

\* The branch a worktree forks from: the parent branch of the job, else HEAD, where
\* the target branch is checked out.
BaseBranch(j) == IF j.parent = None THEN merged ELSE j.parent

\* A claim of j that was read before is one of an earlier run.
AgeStale(j) ==
  stale' = IF stale # None /\ stale.id = j.id THEN [stale EXCEPT !.id = 0] ELSE stale

\* Claimed, lock taken, worktree made.  Jobs of one task share a resource key, which
\* the reaper takes from those it fails.
Start(j) ==
  LET own == IF j.role \in {"dev", "devops"} THEN {j.id} ELSE {}
  IN  /\ j.phase = "queued" /\ j.role \in Agents
      /\ \A k \in open : AtWork(k) => k.role = "merge"
      /\ Change(j, [j EXCEPT !.phase = "running", !.work = BaseBranch(j) \cup own])
      /\ AgeStale(j)
      /\ UnchangedByJobs
      /\ UNCHANGED <<row, late, slips, workVars, gaveUp, raced>>

\* Max turns, interrupted, rate limited, or recovered by the watchdog; the job of a
\* reaped instance goes back too.  The next attempt is told what this one did
\* (resume_context) and forks from the same parent, without this one's commits.
Requeue(j) ==
  /\ j.phase = "running" /\ j.role \in Agents
  /\ Change(j, [j EXCEPT !.phase = "queued", !.work = {}])
  /\ late' = late \ {j.id}
  /\ UnchangedByJobs
  /\ UNCHANGED <<row, stale, slips, workVars, gaveUp, raced>>

\* The job ends FAILED or CANCELLED with the task untouched, however far it got:
\* error, timeout, crash, attempts exhausted, or an exception while finalizing.
GiveUp(j) ==
  /\ open' = open \ {j}
  /\ gaveUp' = TRUE
  /\ UnchangedByJobs
  /\ UNCHANGED <<row, watchVars, workVars, raced>>

\* Exit code 0: the finalizing transaction reads the verdict and the row.
Finish(j) ==
  /\ j.phase = "running" /\ j.role \in Agents
  /\ \E o \in Outcomes[j.role] :
       Change(j, [j EXCEPT !.phase = "closing", !.outcome = o, !.seen = row])
  /\ UnchangedByJobs
  /\ UNCHANGED <<row, watchVars, workVars, gaveUp, raced>>

-----------------------------------------------------------------------------
(* The watchdog, when it takes a job at work for lost *)

UnchangedByWatchdog == UNCHANGED <<row, needsUi, incidents, human, touches, admitting,
                                   picking, workVars, reworks, gaveUp, edited, raced>>

\* The reaper kills the instance and fails the job of a supervisor that goes on.
Reap(j) ==
  /\ AtWork(j) /\ slips < MaxSlips
  /\ late' = late \cup {j.id}
  /\ slips' = slips + 1
  /\ UnchangedByWatchdog
  /\ UNCHANGED <<open, nextId, stale, detached, doubled>>

\* _recover_orphaned_claims SELECTs the claimed jobs.
ReadClaim(j) ==
  /\ AtWork(j) /\ stale = None /\ slips < MaxSlips
  /\ stale' = [id |-> j.id, role |-> j.role, parent |-> j.parent]
  /\ slips' = slips + 1
  /\ UnchangedByWatchdog
  /\ UNCHANGED <<open, nextId, late, detached, doubled>>

\* It leaves a live instance's claim alone, and one that is back in the queue is there
\* already.  The run it read is over: the job goes back to the queue, whatever became
\* of it, and its next run, with commits of its own, gets an id of its own.
Recover ==
  /\ stale # None
  /\ stale' = None
  /\ \/ UNCHANGED <<open, nextId, detached, doubled>>
     \/ /\ \A k \in open : k.id = stale.id => k.id \in late
        /\ Replace(open, stale.role, stale.parent)
        /\ doubled' = TRUE
  /\ UnchangedByWatchdog
  /\ UNCHANGED <<late, slips>>

-----------------------------------------------------------------------------
(* The merge stage *)

\* Both stages completed at some time, on whatever branch.
Gate == {"reviewer", "qa"} \subseteq marks

\* run_merge up to git: refused by the gate, or for lack of a source branch.
StartMerge(j) ==
  /\ j.phase = "queued" /\ j.role = "merge"
  /\ \/ /\ Gate /\ j.parent # None
        /\ Change(j, [j EXCEPT !.phase = "running", !.work = j.parent])
     \/ /\ ~Gate \/ j.parent = None
        /\ Change(j, [j EXCEPT !.phase = "closing", !.outcome = "human", !.seen = row])
  /\ UnchangedByJobs
  /\ UNCHANGED <<row, watchVars, workVars, gaveUp, raced>>

\* _cas_merge moves the target branch.
MergeBranch(j) ==
  /\ j.phase = "running" /\ j.role = "merge"
  /\ merged' = merged \cup j.work
  /\ Change(j, [j EXCEPT !.phase = "merged"])
  /\ UnchangedByJobs
  /\ UNCHANGED <<row, watchVars, marks, delivered, reviewed, tested, gaveUp, raced>>

\* A conflict, a lost CAS or a git error; then, after the merge, deploy_command.
FinishMerge(j) ==
  /\ \E o \in (CASE j.phase = "running" /\ j.role = "merge" -> {"conflict", "human"}
                 [] j.phase = "merged" -> {"infra", "success"}
                 [] OTHER -> {}) :
       Change(j, [j EXCEPT !.phase = "closing", !.outcome = o, !.seen = row])
  /\ UnchangedByJobs
  /\ UNCHANGED <<row, watchVars, workVars, gaveUp, raced>>

-----------------------------------------------------------------------------
(* Finalizing: the verdict is applied *)

\* _block_task
Block(j, new, reason) ==
  /\ Write(j.seen, [new EXCEPT !.status = "blocked", !.reason = reason])
  /\ IF reason = "infra_failure" THEN OpenIncident ELSE UNCHANGED incidents
  /\ Replace(open \ {j}, None, None)
  /\ UNCHANGED reworks

\* Outcomes "human", "infra" and "conflict", without consequence on the bounces.
Escalate(j) ==
  /\ j.phase = "closing"
  /\ \/ j.outcome = "human" /\ Block(j, j.seen, "manual_intervention")
     \/ j.outcome = "infra" /\ Block(j, j.seen, "infra_failure")
     \/ j.outcome = "conflict" /\ Block(j, j.seen, "code_failure")
  /\ UNCHANGED <<needsUi, human, touches, sweepVars, watchVars, workVars, gaveUp, edited>>

\* Mutant: the rework starts from the target branch.
ReworkFromTarget(j) == merged

\* The branch of the instance that rejected the work.
ReworkBranch(j) == j.work

\* _route_failure: both rejecting roles route to in_progress, hence to dev.
Reject(j) ==
  LET new == [j.seen EXCEPT !.bounce = @ + 1]
  IN  /\ j.phase = "closing" /\ j.outcome = "failure"
      /\ \/ /\ new.bounce > MaxBounce
            /\ Block(j, new, "manual_intervention")
         \/ /\ new.bounce <= MaxBounce
            /\ Write(j.seen, [new EXCEPT !.status = "in_progress", !.reason = None])
            /\ Replace(open \ {j}, StatusRole["in_progress"], ReworkBranch(j))
            /\ reworks' = reworks + 1
            /\ UNCHANGED incidents
      /\ UNCHANGED <<needsUi, human, touches, sweepVars, watchVars, workVars, gaveUp,
                     edited>>

\* Mutant: a completed stage grants a fresh bounce budget.
ClearedWithBounce(seen) == [seen EXCEPT !.reason = None, !.bounce = 0]

\* A completed stage leaves no block behind, and keeps the bounce count.
Cleared(seen) == [seen EXCEPT !.reason = None]

\* Mutant: devops clears the block and leaves its incident open.
ResolveIfBlockedNotByDevops(j) ==
  IF j.seen.reason # None /\ j.role # "devops" THEN ResolveIncidents ELSE UNCHANGED incidents

ResolveIfBlocked(j) ==
  IF j.seen.reason # None THEN ResolveIncidents ELSE UNCHANGED incidents

\* The success path of _advance_pipeline; merging: merge_enabled is set.
Advance(j, merging) ==
  LET new == Cleared(j.seen)
  IN  \/ /\ merging /\ j.role = "qa"
         /\ Write(j.seen, new)
         /\ Replace(open \ {j}, "merge", j.work)
         /\ marks' = marks \cup {"qa"}
      \/ /\ ~(merging /\ j.role = "qa") /\ j.role \in DOMAIN Chain
         /\ Write(j.seen, [new EXCEPT !.status = Chain[j.role].status])
         /\ Replace(open \ {j}, Chain[j.role].next, j.work)
         /\ marks' = marks \cup {j.role}
      \/ /\ j.role \notin DOMAIN Chain
         /\ Write(j.seen, new)
         /\ Replace(open \ {j}, None, None)
         /\ UNCHANGED marks

\* A design run stores a ui_spec ("created") or none ("skip" or "empty").
CaptureDesignOutput(j) ==
  needsUi' \in IF j.role = "design" THEN {needsUi, FALSE} ELSE {needsUi}

\* _finalize with COMPLETED.
Succeed(j) ==
  /\ j.phase = "closing" /\ j.outcome = "success" /\ j.role \in Agents
  /\ \E merging \in BOOLEAN : Advance(j, merging)
  /\ ResolveIfBlocked(j)
  /\ CaptureDesignOutput(j)
  /\ delivered' = IF j.role = "dev" THEN delivered \cup {j.id} ELSE delivered
  /\ reviewed' = IF j.role = "reviewer" THEN reviewed \cup j.work ELSE reviewed
  /\ tested' = IF j.role = "qa" THEN tested \cup j.work ELSE tested
  /\ UNCHANGED <<merged, human, touches, sweepVars, watchVars, reworks, gaveUp, edited>>

\* _finalize_success of the merge stage.
SucceedMerge(j) ==
  /\ j.phase = "closing" /\ j.outcome = "success" /\ j.role = "merge"
  /\ Write(j.seen, [j.seen EXCEPT !.status = "done", !.reason = None])
  /\ Replace(open \ {j}, None, None)
  /\ marks' = marks \cup {"merge"}
  /\ UNCHANGED <<needsUi, incidents, human, touches, sweepVars, watchVars, merged,
                 delivered, reviewed, tested, reworks, gaveUp, edited>>

-----------------------------------------------------------------------------
(* Humans *)

UnchangedByHumans == UNCHANGED <<needsUi, sweepVars, watchVars, workVars, gaveUp>>

\* A request reads the task.  approve-return-dev is refused unless it awaits approval.
Request(op, arg) ==
  /\ human = None /\ touches < MaxTouches
  /\ op = "approve" => /\ row.status = "blocked"
                       /\ row.reason = "manual_intervention"
  /\ human' = [op |-> op, arg |-> arg, seen |-> row]
  /\ touches' = touches + 1
  /\ UnchangedByHumans
  /\ UNCHANGED <<row, open, nextId, incidents, reworks, detached, edited, raced>>

\* The task moves to a status; out of a block, it gets a fresh bounce budget.
Unblock(status) ==
  LET seen == human.seen
  IN  IF status # "blocked" /\ seen.reason # None
      THEN /\ Write(seen, [status |-> status, reason |-> None, bounce |-> 0])
           /\ ResolveIncidents
           /\ reworks' = 0
      ELSE /\ Write(seen, [seen EXCEPT !.status = status])
           /\ UNCHANGED <<incidents, reworks>>

\* assign_task: a job is added whatever jobs there are.
CommitAssign ==
  LET role == human.arg
  IN  /\ human # None /\ human.op = "assign"
      /\ \/ /\ role \in DOMAIN RoleStatus /\ human.seen.status # RoleStatus[role]
            /\ Unblock(RoleStatus[role])
         \/ /\ role \in DOMAIN RoleStatus => human.seen.status = RoleStatus[role]
            /\ Write(human.seen, human.seen)
            /\ UNCHANGED <<incidents, reworks>>
      /\ Replace(open, role, None)
      /\ human' = None
      /\ UnchangedByHumans
      /\ UNCHANGED <<touches, edited>>

\* The roles a move to status may trigger: none while an instance is live.  One that
\* was reaped while it spawned is RUNNING again, one reaped later is not.
Triggered(status) ==
  IF status \notin DOMAIN StatusRole \/ \E j \in open : AtWork(j) THEN {None}
  ELSE {StatusRole[status]} \cup (IF \E j \in open : Live(j) THEN {None} ELSE {})

\* advance_task_status
CommitAdvance ==
  /\ human # None /\ human.op = "advance"
  /\ Unblock(human.arg)
  /\ \E role \in Triggered(human.arg) : Replace(open, role, None)
  /\ human' = None
  /\ UnchangedByHumans
  /\ UNCHANGED <<touches, edited>>

\* approve_return_to_dev
CommitApprove ==
  /\ human # None /\ human.op = "approve"
  /\ Unblock("in_progress")
  /\ Replace(open, "dev", None)
  /\ human' = None
  /\ UnchangedByHumans
  /\ UNCHANGED <<touches, edited>>

\* The CLI's task update --status: the status and nothing else.
CommitEdit ==
  /\ human # None /\ human.op = "edit"
  /\ Write(human.seen, [human.seen EXCEPT !.status = human.arg])
  /\ edited' = TRUE
  /\ human' = None
  /\ UnchangedByHumans
  /\ UNCHANGED <<open, nextId, incidents, touches, reworks, detached>>

\* The CLI's task assign: a job and nothing else.
Enqueue(role) ==
  /\ touches < MaxTouches
  /\ touches' = touches + 1
  /\ Replace(open, role, None)
  /\ UnchangedByHumans
  /\ UNCHANGED <<row, incidents, human, reworks, edited, raced>>

-----------------------------------------------------------------------------
Next ==
  \/ \E d \in Daemons : ReadBusy(d) \/ Admit(d) \/ Pickup(d)
  \/ \E j \in open :
       \/ Start(j) \/ Requeue(j) \/ GiveUp(j) \/ Finish(j)
       \/ StartMerge(j) \/ MergeBranch(j) \/ FinishMerge(j)
       \/ Escalate(j) \/ Reject(j) \/ Succeed(j) \/ SucceedMerge(j)
       \/ Reap(j) \/ ReadClaim(j)
  \/ Recover
  \/ \E r \in Roles : Request("assign", r) \/ Enqueue(r)
  \/ \E s \in Statuses : Request("advance", s) \/ Request("edit", s)
  \/ Request("approve", None)
  \/ CommitAssign \/ CommitAdvance \/ CommitApprove \/ CommitEdit

Spec == Init /\ [][Next]_vars

-----------------------------------------------------------------------------
(* Properties *)

Ids == 1 .. MaxJobs
JobRecord ==
  [id : Ids, role : Roles, phase : {"queued", "running", "merged", "closing"},
   parent : {None} \cup SUBSET Ids, work : SUBSET Ids,
   outcome : {None, "success", "failure", "human", "infra", "conflict"},
   seen : Row \cup {None}]

\* Every variable stays within the values its column or process can take.
TypeOK ==
  /\ row \in Row
  /\ \A j \in open : j \in JobRecord
  /\ nextId \in 1 .. MaxJobs + 1
  /\ needsUi \in BOOLEAN
  /\ incidents \in Nat
  /\ marks \subseteq Roles
  /\ merged \cup delivered \cup reviewed \cup tested \subseteq Ids
  /\ human = None \/ human \in [op : {"assign", "advance", "approve", "edit"},
                                arg : Roles \cup Statuses \cup {None}, seen : Row]
  /\ touches \in 0 .. MaxTouches
  /\ admitting \cup picking \subseteq Daemons
  /\ late \subseteq Ids
  /\ stale = None \/ stale \in [id : {0} \cup Ids, role : Roles,
                               parent : {None} \cup SUBSET Ids]
  /\ slips \in 0 .. MaxSlips
  /\ reworks \in Nat
  /\ {detached, gaveUp, edited, raced, doubled} \subseteq BOOLEAN

\* "Why a task sits in status=blocked" (models/task.py:28): a task that is not
\* blocked has no blocked_reason, unless two transactions on its row overlapped or
\* the CLI set its status.
ReasonOnlyWhileBlocked ==
  row.reason # None => (row.status = "blocked" \/ edited \/ raced)

\* No human has acted on the task, and it never had two jobs: no second sweep found it
\* idle, no sweep took it up while the supervisor of a reaped job went on, and no job
\* was put back after it had ended.
Undisturbed == touches = 0 /\ ~doubled

\* Left to itself, a task is never forgotten: at a stage it has a job, and blocked it
\* has the reason by which devops or a human finds it, unless a job gave up.  Its one
\* incident is open only as long as the block that opened it, for its end is the MTTR.
BlocksFollowedUp ==
  Undisturbed =>
    /\ (~gaveUp /\ open = {}) =>
         /\ row.status \in {"todo", "blocked", "done"}
         /\ row.status = "blocked" => row.reason # None
    /\ incidents <= 1
    /\ incidents = 1 => row.status = "blocked" /\ row.reason # None

\* "Dev succeeding would zero it every cycle and the cap could never trigger"
\* (models/task.py:83-84): between two human resets, agents send a task back to dev
\* MaxBounce times at most, unless an overlapping transaction lost a count.
ReworksBounded == reworks <= MaxBounce \/ raced

\* Whatever humans do, no commit reaches the target branch without a QA PASS of a
\* branch that held it, nor the work of dev without a reviewer's APPROVE.
MergedWasApproved ==
  /\ merged \subseteq tested
  /\ merged \cap delivered \subseteq reviewed

\* "Review=APPROVE and QA=PASS" (merger.py:10-12) have both been given when the
\* target branch moves, also for a merge job that descends from a devops job a
\* human assigned.
MergeNeedsApprovals == merged # {} => {"reviewer", "qa"} \subseteq marks

\* "So the next agent actually sees the previous role's commits" (spawner.py:832-833): through
\* every rework and retry, what QA passes when a task is done holds all that dev
\* delivered, unless a job was added without the parent branch.
WorkKept ==
  (row.status = "done" /\ Undisturbed) => (delivered \subseteq tested \/ detached)

=============================================================================
