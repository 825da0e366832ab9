# FlowTrack, verified

FlowTrack is a delivery-metrics CLI that grew an orchestrator: a daemon that claims
jobs from a Postgres table, runs one Claude Code agent per job in its own git worktree,
reads the agent's verdict and moves the task to the next stage, until QA passes and the
work is merged and deployed. Around it are an inbox of findings, a mirror in Jira, a budget,
a web board and the time tracking it began as. This directory holds TLA+ modules of that
system, the TLC configurations that check them, and proofs of what matters most for every size
of the system. The source is the reference for every definition; `PROJECT.json` gives, for
each, the file and the lines it stands for.

1. [The system](#1-the-system)
2. [The modules](#2-the-modules)
3. [The runs](#3-the-runs)
4. [The proofs](#4-the-proofs)
5. [What the code does that its comments deny](#5-what-the-code-does-that-its-comments-deny)
6. [Not modelled, and the plan](#6-not-modelled-and-the-plan)

---

## 1. The system

One process, the daemon (`api/app.py`), is a FastAPI application whose lifespan starts six
asyncio tasks: the claim loop, the watchdog, the WebSocket broadcaster, the discovery
manager, the PO admission sweep and the devops pickup. Every database helper is a synchronous
function run in a thread (`asyncio.to_thread`), and is one transaction: `_db` opens a session,
commits at the end, rolls back if an exception passes. An API request's session (`deps.db_session`)
commits when the response has been sent. Postgres runs at READ COMMITTED, and
SQLAlchemy's UPDATE writes, by primary key, the columns that were changed. Between two awaits
of a coroutine, and between the reads and the commit of a transaction, anything else may
happen. Several daemons may share one database; the CLI and the web UI act on it as well.

| Component | State it keeps | Operations | Works with |
|---|---|---|---|
| Job queue (`queue.py`) | `job_queue`: status, attempts, claimed_at, claimed_by | claim (FOR UPDATE SKIP LOCKED, by priority then age), release | claim loop, supervisor, watchdog |
| Claim loop (`loop.py`) | the set of running supervisors | budget gate, claim, dry run, create the instance, spawn; at shutdown wait 30 s, then cancel | queue, budget, supervisor |
| Supervisor (`spawner.py`) | `instances`; its coroutine; a subprocess | worktree, locks, RUNNING, spawn, wait with timeout, finalize; requeue after contention, max turns, interruption or a rate limit | everything |
| Resource locks (`locks.py`) | `resource_locks`, UNIQUE on the key | acquire by INSERT, release by instance, expiry | supervisor, watchdog |
| Watchdog (`watchdog.py`) | none | every 30 s in one transaction: reap silent instances, recover orphaned claims, drop expired locks | instances, queue, locks, sessions |
| Agent sessions (`session_repo.py`) | `sessions` rows owned by an instance | open when it is RUNNING, end with it | metrics reports |
| Task pipeline (`spawner.py`, `pipeline_defs.py`) | `tasks`: status, blocked_reason, bounce_count; `task_transitions` | parse the verdict, next stage, rework with a cap, block | supervisor, merger, API |
| Merge and deploy (`merger.py`) | the target branch, `deployments` | gate, merge in a temporary worktree, `update-ref` compare-and-swap (three attempts), deploy command | pipeline |
| PO admission (`agents/po.py`), DevOps pickup (`agents/devops.py`) | none | rank the ready tasks and add a first job for the best; add a devops job for infra-blocked ones | tasks, queue, dispatch |
| Dispatch (`dispatch.py`) | `roles`, `projects` | choose the role variant for a task | everyone who adds a job |
| Task API and CLI (`routers/tasks.py`, `task_service.py`, `cli/task.py`) | none | API: assign a role, change the status, approve a return to dev; CLI: add, update, assign, comment, remove | tasks, queue, incidents, Jira |
| Jira (`integrations/jira_*.py`) | the issues, in another system | create an issue, push a transition, post a comment, read the backlog | task API, pipeline, merger, discovery |
| Incidents (`incident_service.py`) | `incidents` | open and resolve those of the pipeline; the human CLI's | pipeline, API, CLI |
| Event stream and budget (`stream_parser.py`, `budget.py`) | `instance_events`, `budget_windows` | persist an event with heartbeat and cost; gate | supervisor, claim loop, PM agent |
| Hooks (`hooks.py`, `routers/instances.py`) | none | the agent's callbacks: heartbeat and event | instances |
| Worktrees (`worktree.py`) | worktrees and branches | create from a parent branch or HEAD; remove | supervisor |
| Discovery (`discovery/`) | `discovered_items` | fetch and deduplicate, refine (PM), promote, reject | sources, API, tasks |
| Runtime configuration (`runtime_config.py`, `crypto.py`, `cli/config.py`) | `config`, a cache per process with a time to live, `master.key` and its backup | get, set, delete, invalidate; rotate the key, encrypt plain rows | everyone |
| Event broker and board (`api/events.py`, `web/static/app.js`) | one bounded queue, the connections; what a tab shows | publish from any thread, broadcast; fetch, poll, reconnect | UI |
| Modal and forms (`web/static/app.js`) | what a person sees and types | open a task, follow its log, approve, edit roles and settings | task and settings endpoints |
| Time tracking and reports (`services/`, `cli/`) | `sessions`, `events`, `deployments` of a human | start, pause, resume, end, block, interrupt, deploy, incident; the time in a period | agent sessions, merge stage |

What is hard here, and what correct means:

- **Queue, supervisor, locks, watchdog.** Rows are the only memory that survives the daemon, and four
  paths end an instance (its supervisor, the guard around it, the watchdog's reaper and its
  recovery of orphans) with no lock among them. Correct: one supervisor per job, attempts
  bounded, a settled job stays settled, one editor per module, a session closed with its
  instance; and everything is settled, freed and closed in the end, whatever crashed.
- **Pipeline, merge, API, sweeps.** A task's row has several writers that read it, decide, and
  write later. Each stage must work on the commits of the stage before, and a verdict is about
  the branch it was given on. Correct: nothing is merged that was not reviewed and tested,
  rework stops, nothing is forgotten, blocks and their incidents end together.
- **Admission.** Sweeps of several daemons and of a human read the same tasks. Correct: one job
  per task, and every ready task gets one in the end.
- **Discovery.** The status of an item is checked and changed without a lock. Correct: one task
  for one item, one item for one external record.
- **Jira.** Two stores and no common transaction; each call may fail before or after its effect.
  Correct: the column follows the status, and nothing that was filed is forgotten.
- **Budget.** The gate reads what was spent; those in flight spend on, and the last events may
  be lost. Correct: windows and instances agree, overshoot is bounded by the slots.
- **Settings.** A cache beside a table, and a key beside the rows it encrypts. Correct: a change is
  seen within one time to live, on every daemon; no secret loses its key.
- **Board, modal, forms.** Every fetch is answered at some later moment, whatever has been shown
  or pressed since. Correct: the tab ends up showing what is committed, the modal shows the
  task that was opened, an approval counts once, the last save is the one that is stored.
- **Time tracking.** Check, then insert. Correct: one active session, events nested in it, and a
  report that accounts for the time.

The hazards, each at its line and with the properties that cover it, are in `PROJECT.json`.

## 2. The modules

| Module | Models |
|---|---|
| `Orchestrator` | claim loop, queue, supervisors, locks, watchdog, agent sessions, daemon restarts |
| `JobQueue` | what the queue promises, whoever crashes: the abstract specification of `Orchestrator` |
| `Pipeline` | one task from admission to done: stages, verdicts, rework, blocks, merge, sweeps, API, incidents |
| `Merge` | the merge jobs of several tasks and what else moves the target branch; deploys |
| `Admission` | several tasks, the sweeps that give them their first job, role dispatch |
| `Discovery` | the inbox: scans by several daemons, escalation, refinement, promotion and rejection |
| `Backlog` | tasks and their issues in Jira: the two stores and the calls between them |
| `Metering` | what agents print, what is recorded of it, and the budget gate |
| `Settings` | config table, caches, master key, rotation |
| `Board` | the event broker and the panels of a browser tab |
| `Console` | the modal, the approval and the forms of a tab, with requests that commit after they are answered |
| `Flow` | a human's sessions, events, deployments and incidents, and the report of them |
| `MC*` | constants and symmetry for TLC |
| `Common` | the constants `Merge` and `Admission` have in common |
| `*Proofs` | the proofs about the module they are named for; `TasksProofs`, about `Merge` and `Admission`; `BudgetProofs`, about `Settings` and `Metering`; `BoardDiscoveryProofs`; `UserProofs`, about `Console` and `Flow` |
| `Sums` | what holds of sums over finite sets, for the proofs about costs and times |

Four proof modules each extend two others. For that, the definitions that every module has bear
their module's name in `Admission`, `Metering`, `Board` and `Flow` (`AdmissionInit`, `FlowSpec`).

The modules meet where one takes as an input what another models: `Orchestrator` gives a job an
outcome and `Pipeline` says what it does to the task; `Pipeline` takes as free that a task is
admitted, `Admission` which one, and as an input whether a merge conflicts, which `Merge` says of the
branches of all tasks; `Discovery` makes tasks and `Backlog` their issues;
`Metering` says when the gate that `Orchestrator`'s claims wait for is open; every one of them is a
transaction of `Board`.

### Orchestrator

The state is the rows (`jobStatus`, `attempts`, `claimedBy`, `claimAge`; `instStatus`,
`instJob`, `beat`, `quiet`, `session`; `holder`, `lockAge`), where each supervisor coroutine
stands (`pc`), its subprocess (`proc`), the daemon (`daemonUp`), and the sweep in progress.
An action is one transaction, or one step between two awaits:

| Action | Code |
|---|---|
| `Enqueue` | whoever adds a job |
| `Claim`, `ClaimDryRun` | `_claim_one` |
| `CreateWorktree`, `TryAcquireLocks`, `RequeueOnContention`, `StartAgent` | steps 2 to 5 of `_supervise_inner` |
| `FinalizeCompleted`, `HandleTransientExit`, `FinalizeFailed`, `FinalizeTimeout` | its ends |
| `StartMerge`, `FinishMerge` | `merger.run_merge` |
| `StepRaises` | any step raises; `supervise` catches it, and `_finalize_failed` may raise too |
| `Heartbeat`, `ProcessExit` | the agent |
| `EditRole` | `update_role`: `max_minutes` of the roles |
| `ReadStale`, `WriteKills`, `ExamineClaim`, `CommitSweep`, `SweepRaises` | `_sweep_once`, cut where it reads the live instances and decides, updates the dead ones and reads the claims, reads a claim's instance, and commits; it may raise |
| `StopDaemon`, `StartDaemon` | crash, shutdown, restart: supervisors and the sweep are gone, rows and subprocesses stay |
| `Tick` | the clock |

Abstractions. A timestamp is its age, cut off at the largest threshold it is compared with.
A sweep remembers what it has read (`dead`, with the heartbeat and the limit each verdict was based on; `todo`),
and writes it by primary key, whatever has been committed since: an instance that was read while it was being
spawned is killed although its supervisor waits by then, or has completed it. Between its UPDATEs and its commit
the rows show their old values and are locked (`LockedInstances`, `LockedJobs`): a finalizer or a heartbeat
that writes one of them waits, while claims, worktrees and locks go on. `limit` is `Role.max_minutes`, one for
all roles, which may be edited at any time; the watchdog reads it live and a supervisor keeps the one it was
given (`granted`), for its timeout and its lock. A job is in the only lane there
is: a lane (`worker_id`) restricts which jobs a daemon sees, and `Jobs` is what it sees. A closed
budget gate is a claim that is not made. What finalization does to the task is `Pipeline`'s part.
A task derives one key, so a job has one.

`reaped` and `overwritten` are history: which instances the watchdog killed, and which jobs a
sweep recovered although their row had changed since it was read. They are read by properties
only, to name exactly the exceptions under which a property holds.

### Pipeline

One task: its row (`status`, `reason`, `bounce`), its open jobs, the completed-stage
transitions (`marks`), its open incidents, the target branch (`merged`). A commit is the id of the
job that made it, and a branch is the set of commits on it: `Start` forks from the parent branch
in the job's payload, or from HEAD, where the target branch is checked out; dev and devops add
a commit.

| Action | Code |
|---|---|
| `ReadBusy`, `Admit`, `Pickup` | the first and the second reads of `admit_ready_tasks` and of `pickup_infra_failures` |
| `Start`, `Requeue`, `GiveUp`, `Finish` | a claim up to the verdict: the life of a job in `Orchestrator`, as seen from the task |
| `Reap`; `ReadClaim`, `Recover` | `_kill_stale_instances` and `_recover_orphaned_claims`, when the job's supervisor is at work |
| `StartMerge`, `MergeBranch`, `FinishMerge` | `_run_merge_inner`: gate, `_cas_merge`, deploy |
| `Escalate`, `Reject`, `Succeed`, `SucceedMerge` | `_advance_pipeline` and the merge stage's finalizations |
| `Request`, `CommitAssign`, `CommitAdvance`, `CommitApprove` | the three writing requests of the task API |
| `Request("edit", s)`, `CommitEdit`; `Enqueue` | the CLI's `task update --status`, which sets the status alone, and `task assign`, which adds a job alone |

A finalization and a request are a read (`seen`) and a commit (`Write`, which changes the columns
whose new value differs from the value read), so that any two of them may overlap. `Start`,
`Requeue` and `GiveUp` may happen at any time: they stand for every way `Orchestrator` has of
starting, requeuing and ending a job without a verdict. Of the watchdog two things matter to the
task when it takes a job at work for lost, and they are actions of their own. `Reap` fails the job
and kills the instance of a supervisor that goes on (`late`): the task counts as idle and sweeps may
give it another job, while the late supervisor still finalizes, moves the task, and adds the next
job. `ReadClaim` and `Recover` are the recovery of a claim that was read before its job ended: the
job goes back to the queue, with the role and branch it had (`stale`), beside whatever the task has
by then. `slips` counts both, up to `MaxSlips`. What comes between claim and worktree needs no step
of its own, since neither the task nor its branches are touched. The key of a task is held by one
agent at a time (`Orchestrator`'s `OneEditorPerKey`); the merge stage takes no lock.

An agent's verdict is an input, from the role's table of outcomes, and so is a merge's and a deploy's
result. The chain is the seeded one (migrations 005, 006, 011, 012), without role variants, and
with `merge_enabled` free to change. A task starts in `todo` or, made from a critical security
finding (`escalate_critical_item`), blocked as `security`. One without acceptance criteria is not
admitted, which is `Admit` not being taken until it gets them. Left out: a `pm` or `po` stage's
output and the sentinel reason of rows from before migration 010.

`delivered`, `reviewed`, `tested`, `reworks`, `detached`, `gaveUp`, `edited`, `raced` and `doubled`
are history, read by properties only. The last five name the exceptions of properties: a job added
without its parent branch, a job that ended without a verdict, a status set by the CLI, transactions
on the row that overlapped, and a second job of the task: a sweep gave it one although it had one by
then or the supervisor of a reaped one went on, or the watchdog put back one that had ended. A task
that no human touched and that never had two jobs is `Undisturbed`; a job that is reaped and
finalizes late with none beside it does not disturb.

### Merge

The target branch, the branch of each task's last agent, the merge jobs with where their executor stands
(`pc`) and what it holds (`try`, `old`, `new`, `tip`, `command`, `verdict`), the `deployments`, and outside
of FlowTrack what is in production (`live`) and deploys that nobody waits for any more (`strays`). A branch
is the set of commits reachable from its head, a commit one that nobody else makes.

| Action | Code |
|---|---|
| `Fork`, `Push` | `create_worktree` and the agent's commits; a human's push |
| `Enqueue`, `Start` | a job handed over by QA, or added without a branch; the claim and `_load_context` |
| `ReadTarget`, `MergeSource`, `SwapTarget` with `Retry` | `_cas_merge`: rev-parse, merge in a worktree, `update-ref <new> <old>`, three attempts |
| `StartDeploy`, `FinishDeploy`, `StrayEnds` | `_run_deploy`: no command, exit code, timeout; what a killed shell leaves running |
| `FinalizeSuccess`, `FinalizeBlocked` | the final transactions |
| `Raise`, `StopDaemon`, `Recover` | an exception, a stop, and the watchdog of the next daemon |

A conflict is an input, as git decides it. `faults`, `moves`, `denied` and `overlapped` are bounds and history:
how often the branch moved under an executor, how often `update-ref` failed for another reason, and
whether two deploys were ever under way at once.

### Admission

Several tasks, each `new` (not ready), `todo`, `away` in the pipeline or `blocked` on
infrastructure; their open jobs in the order they were made; and for each sweeper what it has read.

| Action | Code |
|---|---|
| `ReadBusy`, `ReadTasks`, `CommitSweep`, `AbortSweep` | `admit_ready_tasks` and `pickup_infra_failures`: the busy tasks; the candidates, ranked, cut to the batch; the commit; an exception |
| `Claim`, `Succeed`, `Fail` | `claim_next_job` and the end of the job, for better or worse |
| `BecomesReady`, `InfraFailure` | what makes a task a candidate |

A sweeper is a daemon's loop or a `flowtrack po admit`; they overlap freely. `Resolve` is
`resolve_role`: it is applied to each job, and the type invariant says that the role it gets
exists and fits the task. `Score`, scopes and pattern matches are constants. A job and its instance
end together here; `Orchestrator` is about the times they do not.

### Discovery

For each external record, a (source, source_ref): its `discovered_items` row (`item`: status and
`promoted_task_id`), and the number of tasks made from it (`made`; the n-th one is `TaskOf(r, n)`). For
each daemon the scan in progress (`scan`); and the resolutions under way (`resolvers`), whoever
made them.

| Action | Code |
|---|---|
| `Fetch`, `Insert`, `CommitScan`, `RollBack` | `_run_source`: what the source delivers; one INSERT per candidate; the commit, with `escalate_critical_item` for the critical and `_auto_refine` for the rest; an exception |
| `Stop` | the daemon ends: its scan is rolled back and its refinements are forgotten |
| `Ask`, `Decide` | `_auto_refine`: snapshot and PM agent; the item read after the answer |
| `Click` | promote and reject, API and CLI, up to the check of the status |
| `Refine` | `flowtrack discovery refine --apply`, up to the answer |
| `Write`, `Fail` | the commit of any of them; failure of any of them |

A scan is one transaction. Its inserts show at the commit, except to an insert of the same key by
another daemon, which waits (`Free`); two scans that insert in opposite orders wait for each other,
Postgres aborts one of them, and that is `RollBack`. A resolution is a read of the item, with the check
of its status, and a commit that goes by primary key. A resolved item never becomes new again, so
the check can only be wrong in one way: another commits in between (`raced`).

What is found, and what of it is critical, is an input that may differ from scan to scan: `secops_scan.py`
gives severity UNKNOWN to an advisory whose details were not fetched. The PM agent's answer is
`Verdicts`: any recommendation, with a duplicate of one of the tasks it was shown or of none. What
becomes of a task that is made is `Pipeline`'s part. Left
out: titles, specs, scores, and the broker's events, which are published before the commit.
`POST /refine` only asks the agent, and changes nothing. `refined`, `escalated` and
`raced` are history.

### Backlog

The task rows with their ticket, the column of each Jira issue, what each caller has under way, and
the moves Jira has accepted but not made (`late`). A call to Jira is its own step, between
the read and the commit of the transaction it is made in, or after it; it may be refused, take effect
without its answer, or time out and take effect later.

| Action | Code |
|---|---|
| `Add`, `CreateIssue`, `InsertTask`, `InsertFails` | `TaskService.create`: the issue, then the row |
| `Begin`, `AskTransitions`, `PostTransition`, `Write`, `Rollback`, `SettlePush` | a status change by CLI (`edit`: no push), by API and pipeline (`change`: the push is inside the transaction) or by the merge stage (`merge`: after it) |
| `LateMove`, `FiledInJira` | Jira (external) |
| `Promote` | a labelled issue found by `jira_backlog.py` and promoted |
| `CommentOn`, `PostComment`, `NoteComment` | `add_comment` |
| `AssignJob`, `AskRemove`, `Delete` | `task assign`, which makes a row referring to the task; `task rm`, which such a row prevents |

`made`, `lost`, `astray` and `drift` are history: what was filed, what of it was lost, and the tasks
whose last change is known not to have reached Jira; each reason is one of the actions.

### Metering

For each instance: its phase, what it has printed and nobody has read (`pipe`), whether the consumer
is at work (`reading`), the event being persisted, and its cost; and the windows.

| Action | Code |
|---|---|
| `PassGate`, `Claim` | `is_blocked` and the claim after it |
| `Turn`, `Finish`, `Die` | the agent; a full pipe blocks it |
| `Read`, `Persist`, `PersistFails`, `ReadError` | `consume_stream`, `_persist_event`, and the return of the reader on an overlong line |
| `Cleanup` | `_cleanup_tasks`: the consumer is cancelled after two seconds; the thread that persists is not |
| `PmCall`, `HourPasses` | the PM agent's cost, which no gate guards; the clock |

Each turn's estimate and its real cost are free of each other. `late` are instances whose last event
was persisted after their slot was given back.

### Settings

For each setting its row (value, and the key it is encrypted with), `master.key` and
`master.key.bak`, the cache of each process; for each thread what it has under way, and the command.

| Action | Code |
|---|---|
| `StartGet`, `MakeKey`, `Fetch`, `Store` | `RuntimeConfig.get`: cache, session and key, row, cache again |
| `StartChange`, `CommitChange`, `Invalidate`, `FailChange` | `set` and `delete`, from the endpoint or the CLI |
| `StartCommand`, `CommandMakesKey`, `Ask`, `Rename`, `OpenNewKey`, `Decrypt`, `Rewrite` | `flowtrack config rotate-key` |
| `Encrypt`, `Rewrite` | `flowtrack config encrypt` |
| `EndCommand`, `DeleteBackup` | interruption or exception at any point; the user |
| `Tick` | time: what is left of an entry, and for how long it has been wrong |

A key is made by whoever finds no file, also by two at once, when the later file wins (`careless`).

### Board

`db` is the version of each panel that its endpoints return. A transaction publishes before or after
it commits, by type; an event may be dropped at a full queue or lost with a socket.

| Action | Code |
|---|---|
| `Begin`, `Publish`, `Commit`, `Rollback` | any transaction, `publish_sync` |
| `Broadcast`, `DropDead` | `run_broadcaster`; a send that fails |
| `Connect`, `Disconnect` | `connectWS` and the endpoint of the socket |
| `OnMessage` and its five cases | `ws.onmessage` |
| `Poll`, `ScheduledRefresh`, `Read`, `Render`, `FailFetch` | `refresh` and its requests, each read at the server and rendered when it arrives |

### Console

The modal, the approval of a blocked task and the forms are three groups of variables with nothing
in common but the person's clicks.

| Action | Code |
|---|---|
| `Open`, `ReadDetail`, `Render`, `FetchFails`, `Close` | `openModal` and `GET /detail` |
| `EventRecorded`, `Arrives` | `_persist_event` with the broadcast; `pushLiveEvent` |
| `CapExceeded`, `Refresh`, `PressCard`, `PressToast`, `CloseToast` | the block; the card and the toast |
| `ServerReads`, `ServerAnswers`, `ServerCommits`, `ServerFails`, `Answered`, `Unanswered` | `approve_return_to_dev` and `advance_task_status`: read, flush and return, the commit of `db_session` after it; what the tab is told |
| `ReadList`, `RenderForm`, `Edit`, `Save`, `Reset` | the panels |
| `PatchReads`, `PatchFlushes`, `PatchCommits`, `PatchDies`, `PatchAnswered`, `PatchUnanswered` | `update_role` and the settings' PATCH and DELETE |
| `SavedElsewhere` | another client |

A request lives in the server and in the tab, and neither waits for the other. `deps.db_session`
commits in its teardown, which runs after the response is sent (`routers/discovery.py:62-64`): the
tab may be told ok, refresh and press again before the commit, and the commit may still fail. A
settings endpoint commits itself, before its answer. An UPDATE has the columns whose value differs
from the row that was read (`Written`), and locks the row until the commit; a save back to the old
value, read before an earlier save commits, writes nothing, and the earlier one stays. A task's
approval is checked on the row read, so that only the row lock of the first, and no check, stands
before a second that has read the block already (`raced`).

An event has a kind (`EventKinds`), which says where it shows: `GET /detail` lists five types with a
nonblank summary (`_DETAIL_EVENT_TYPES`), and `pushLiveEvent` drops others and empty texts. So a
usage line is in the details alone, a streamed message in the log alone, an assistant's text in both
and a heartbeat in neither; `ModalTrue` says of each what its kind allows.

An answer carries what the server read when it answered; a render
puts it where the tab is now. A refresh replaces the card, so that a button waiting for an answer is
no longer on the page, while the handlers of the panel's body are added again with every render
(`listeners`): one press sends as many requests. `gap`, `alone`, `raced`, `saved` and `contested` are
history.

### Flow

Tables of sessions, events, deployments and incidents, and one command per terminal: it reads when it
begins (`Begin`, with what it will write), and writes by primary key when it commits
(`Commit`, `Write`) or is rolled back (`Abort`). Agents and the merge stage write the same tables. A
command that was overtaken by another's commit counts as a race. The report (`ActiveTime`) is an operator
over the tables.

## 3. The runs

| Run | Instance | Shows |
|---|---|---|
| `safety` | 3 jobs, one a merge, of which 2 are added (`TwoAdded`), 2 under one key, 3 instances, 2 attempts, 1 fault, worktrees, agents and merges slow, limits 1 and 2, sweeps not isolated; 4.3 M states | the type invariant, `OneSupervisorPerJob`, `OneEditorPerKey`, `WaitingNeverReaped`, `SettledStaysSettled` |
| `liveness` | 2 jobs, 4 instances, 1 fault, dry runs, isolated sweeps; 70 k states | `JobsSettle`, `ResourcesFreed` under `FairSpec`; `ImplementsQueue`: every behaviour is one of `JobQueue` |
| `pipeline` | 8 jobs, bounce cap 1, 1 daemon, 1 human action or 1 slip of the watchdog (`HumanOrWatchdog`); 7.0 M states | the type invariant, `BlocksFollowedUp`, `ReworksBounded`, `MergedWasApproved`, `WorkKept` |
| `merge` | 2 tasks, a job each, 2 attempts, 1 push, a branch forked again, 1 fault, 1 refusal; 5.3 M states | `NothingStomped`, `DoneIsDelivered`, `OvertakenBeforeGivingUp` |
| `admission` | 2 tasks, 2 loops and a command, batch 1, 3 role variants, 1 failure, 1 infra block; 402 k states | the type invariant, `OneOpenJob`, and `TakenUp` under `FairSpec` |
| `discovery` | 2 daemons, 2 records, 2 scans, 2 requests or commands; 2.2 M states | the type invariant, `TasksMatchItems`, `HandledOnce`, `ResolvedStays` |
| `backlog` | 2 callers, 4 calls, 2 tasks, 1 issue, 3 columns, 1 comment, 1 late move; 2.9 M states | the type invariant, `Mirrored`, `RemoteAccounted` |
| `metering` | 3 instances, 2 slots, 2 hours, a pipe of 1, 1 fault, 1 PM call; 1.6 M states | the type invariant, `OvershootBounded`, `Reconciled` |
| `settings` | 1 secret, 2 processes, 2 threads, 1 change, 3 keys; 2.1 M states | `BoundedStaleness`, `SecretsRecoverable`, `RewriteKeepsValues` |
| `board` | queue of 2, wire of 1, 3 requests, 2 transactions, 1 failure; 581 k states | `SummaryInOrder`, and `Converges` under `FairSpec` |
| `console` | 2 tasks, 3 fields in 2 forms, 4 clicks on a form or 3 elsewhere, 4 kinds of events, 2 events, 2 blocks, 1 save elsewhere, 2 saves pending; 2.5 M states | `ModalTrue`, `ApprovedOnce`, `LastSaveStored` |
| `flow` | 2 terminals, 4 commands, 1 act of an agent, 2 days, a report of 1; 5.7 M states | the type invariant, `Nested`, `ActiveTimeAccounted` |

The type invariants of `Merge`, `Settings`, `Board` and `Console` are no property of a run, for they are proved.

**Bounds.** `MaxInstances` is the number of claims in a behaviour. Three let one job be claimed
twice and another once, or one job be claimed for a third time after a stale recovery, the shape of
every race found; the liveness run has as many as two jobs with two attempts can use, so that no job
waits for an id. `MaxFaults` counts exceptions and stops together: with one, each step fails once in
some behaviour, and a restart is met with every mix of rows left over; the proofs have no such
bound. `StaleFloor` and the first limit are 1, the least that keeps floor, time to live and grace (2
minutes) in the order they have in the code. With a second limit, 2, an edit may cut the limit to
half, which the watchdog then takes for the silence it allows; behaviours with a third instance or a
merge keep limit 1 (`LowOrFew`), for a cut needs one agent only. The `safety` run leaves the sweep
unisolated, and worktrees, agents and merges slow; in that run a sweep itself takes no time, though
any number of steps may come in between (the proofs let it take time too). `liveness` isolates
sweeps and lets only agents take time, because what it states is not true otherwise (section 5, 1
and 3). It has no merge job: a constraint like `TwoAdded` would take states from its fair
behaviours. The proof of the refinement covers merges.

`MaxJobs` bounds the jobs of one task: with a cap of one, eight hold dev, review, rework, review,
qa, devops, qa and merge. `MaxTouches`, the number of API requests and commands: one may overlap any
transaction and adds a second open job. The run has one daemon, whose sweeps never both take up the
task while its watchdog takes no job at work for lost (`OneDaemonSweepsOnce`). `MaxSlips` bounds how
often it does; one reaped job is enough for two chains of jobs, its own and that of the task's next
sweep, and one recovery for a job beside the next. A human action and a slip each add a job out of
turn; `HumanOrWatchdog` explores them one at a time, and the proofs, which have neither bound, cover
them together, with any number of daemons. In `merge`, two attempts are what tells the first from
the last, and a push and the other task's merge both overtake an executor. Two jobs, one key and one
task suffice for a conflict between two; what is pairwise in the code, the lock and the claim, is
proved for any number. In `admission` a batch of one makes the two tasks compete, and three sweepers
overlap in every way two of a kind and one of the other can. In `discovery`, `MaxScans` lets two
daemons scan at once, or one scan find what an earlier one found; two records wait for each other's
inserts, and the second one's task is what an item may duplicate; `MaxTouches` lets two humans and
two automatic refinements work on one item.

In `backlog`, four calls are an `add`, two overlapping changes and a comment or a removal; two
columns for `done`, of which one leads back, make a push succeed, find no transition, or find
another. In `metering`, three instances and two slots let one be claimed while the last event of
another is still being persisted. In `settings`, three keys are the first, the one of a rotation and
the one another process makes in between; processes and threads are interchangeable (symmetry; no
temporal property but `RewriteKeepsValues`, which is a property of steps and treats them alike). In
`board`, a request for the board counts twice, for it is followed by two. In `flow`, four commands
are a start, an event or a deployment, its end, and one that overtakes.

`MCConsole` explores the three parts of the tab one at a time (`part`): an action of one leaves the
variables of the others alone and every property reads one part, so a violation in an interleaving
would be one in its projection. A form gets four clicks, which an edit, its save and a save back to
the old value take (edit, save, edit, save); the modal and the approvals get three. Two saves and
three lists pending, and two handlers of a panel (`FewRequests`), are what it takes for one save to
overtake another. The proofs are about the whole of `Next`, with no such bounds.

**Deadlock** is checked in the Orchestrator runs and in `admission`. It is off elsewhere, where a
model really may stop: a task that is done or blocked for a human, an inbox whose scans and
requests are used up, a tab or a table with no more clicks, commands, calls or hours left.

**Fairness** is stated where a property needs it, and only of what the code schedules.

- `Orchestrator`: ready coroutines run (asyncio), so supervisors and the claim loop take their
  steps; strong fairness, because an isolated sweep disables them again and again while in
  the database a transaction waits for the other's row locks and then proceeds. The watchdog sweeps
  every 30 s, whatever its last sweep raised. Time passes, and strongly fair at that: a sweep that takes no time
  stops the clock again and again, but the watchdog waits 30 s between two. A stopped daemon is started again by
  whoever runs it (`docs/ORCHESTRATOR.md` recommends a service manager), and an agent without a supervisor
  ends by itself (max turns). Nothing is assumed of `StepRaises`, `StopDaemon`, heartbeats or agents
  that are waited for. A budget gate that stays shut would stop claims: liveness is about the daemon while
  its gate opens.
- `Admission`: loops sweep at their interval whatever the last sweep raised, the claim loop claims, agents
  end. Humans need not run a command, and a task need not become ready.
- `Board`: a transaction commits or is rolled back and publishes; `setInterval` polls; the oldest request is
  read and answered. Nothing is assumed of the broker or the socket: convergence comes from the poll alone.

## 4. The proofs

Assumptions: one named ASSUME per module (`JobsAssumption` and `BoundsAssumption` of `Orchestrator`,
`PipelineAssumption`, `MergeAssumption`, `AdmissionAssumption`, `DiscoveryAssumption`,
`SettingsAssumption`, `MeteringAssumption`, `BoardAssumption`, `ConsoleAssumption`,
`FlowAssumption`, `BacklogAssumption`). They say that bounds are natural numbers, limits positive,
ranks distinct, forms disjoint, secrets settings, that a column named like a status means it, and
that `None`, `Null`, `Nothing` and `NoEvent`, which stand for NULL, are no number, no row, no task,
no job and no branch; nothing about sizes, but that `Callers` of `Backlog` and `Instances` of
`Metering` are finite, for comments are counted and costs added up. TLC evaluates them in every run.

`OrchestratorProofs`. None of the safety invariants is inductive by itself, so they are drawn from
one, `IInv`, whose parts are

- `SupervisorInv`, `ClaimInv`: a claim and its instance name each other;
- `OwnerInv`: a supervised instance owns its job unless the watchdog took it; this is what makes
  `OneSupervisorPerJob` hold, as a job has one owner;
- `ReadInv`, `OrphanInv`: what a sweep in progress remembers is either still so, or the job has
  `Changed`; without them a recovery could not be shown to hit only jobs nobody works on;
- `AttemptsInv`: a queued job has an attempt left, whichever path queued it;
- `SessionInv`, `TimerInv`, `BeatInv`, `LockInv`: a session is closed in the step that leaves
  `running`; heartbeats begin with the agent; a supervised agent has been heard of since its timer
  began, and its lock is younger than its timer;
- `VerdictInv`, `FreedInv`: what a sweep remembers of an instance it takes for dead. One that had
  sent a heartbeat when it was read is not waited for any more, unless the limit was cut to half:
  its silence was at least twice the limit read, and `TimerInv` bounds the silence of one that is
  waited for by its own limit. This must be kept while others commit, until the kill does; and the
  locks the sweep deleted stay those of the instances it kills.

Theorems: `TypeCorrect`, `JobsExclusive`, `EditorsExclusive` (invariants), `SilentAgentsSpared` and
`SettledStays` (action properties), and two that no run states by itself: `AttemptsLimited`
(`AttemptsBounded`) and `SessionsClosed` (`SessionOpenOnlyWhileRunning`).

In its last section, `QueueImplemented`: if `Ideal` (sweeps isolated, nothing but agents slow, no
limit as much as twice another), `Spec` implements `JobQueue!Spec`. The mapping is in `Orchestrator`
(`Queue`). `IdealInv` adds that no supervised instance is reaped and that what a sweep has read
still holds. The conditions are needed (section 5, 1, 3 and 15).

`PipelineProofs`. One invariant again, `IInv`, in four groups:

- `TypeOK`, `ReadInv`: what a finalization or a request read is a row, and what it asks is possible;
- `ReasonOnlyWhileBlocked`, `BounceInv` (`bounce_count` is at least the number of reworks): a
  transaction that overlapped another sets `raced`, so only one that read the current row has to
  be looked at (`WriteRow`);
- `IdInv`, `OwnInv`: branches hold commits of jobs that exist, and an open job's commit is on its own
  branch only, so that work of dev which is not yet delivered cannot be merged ahead;
  `ReviewedInv`, `TestedInv`, `GateInv`: jobs of QA, devops and the merge stage hold reviewed
  work, merge jobs tested work, and a running merge has passed the gate. The merge invariant is about
  `merged`, which moves late: the parts say what holds of a branch at each stage before;
- `AloneInv`, `WorkInv`, of a task that is `Undisturbed`: it has at most one open job, of the role
  its status calls for; a verdict under way read the row as it still is; without a job it is in the
  backlog, done, or blocked with a reason, but for a job that gave up; its one incident is open only
  while it is blocked; and while no job was added without its branch, the branch of its job holds
  every commit of dev that was delivered. `AloneInv` is what turns "each finalization leaves the
  task with a successor" into "the task is never forgotten": a finalization alone may rely on its
  read.

In the first three, every action is a job that moves on (`Moves`), a job that ends and hands over
its branch (`Ends`), or a job that is added without one, and the step lemmas are about these three
shapes. In the last, a step of anyone else disturbs the task for good (`StaysDisturbed`), so that
what is left is the one job's own life (`MoveAlone`, `EndAlone`, `BlockAlone`) and one sweep that
finds none (`SweepAlone`). Theorems: `TypeCorrect`, `BouncesAreBounded`, `MergesAreApproved`,
`TasksAreFollowedUp`, `WorkIsKept`, and, stated by no run, `ReasonsAreOfBlocks`
(`ReasonOnlyWhileBlocked`), `MergesAreGated` (`MergeNeedsApprovals`) and `OneDaemonSweepsOnce` (with
one daemon whose watchdog takes no job at work for lost, an untouched task is undisturbed; by an
invariant of its own, `SweepInv`).

`TasksProofs`, of `Merge`. `MergeInv` is `TypeOK` and six more parts: `TipInv`, what an executor
merged or checked out is still on the target branch; `SwapInv`, what it is about to swap in holds
the head it read and the branch QA passed; `TryInv`, the branch moved, or `update-ref` refused, at
least once per attempt used up; `OneDeployInv`, while no two deploys were under way at once, the one
that is, stray or not, has all that is in production; and `DeployedInv`, a deploy that succeeded is
in production, where it stays because of `OneDeployInv`. Theorems: `MergeTypeCorrect`,
`NeverStomped`, `DoneDelivered`, `GivesUpOvertaken`.

`TasksProofs`, of `Admission`. `OneOpenJob` counts, and its invariant, `AdmissionInv`, says why the
count is right: what a sweep picked is each task once, of a kind its role fits, and not one that was
busy when it read (`SweepsInv`); so a sweep adds at most one job to a task, and to one that has a
job already only if another sweep's commit came between, which `overlaps` counts. That a task loses
a job when one ends is an injection of the positions that are left into those there were
(`JobRemoved`, `FewerJobs`). The order in which sweeps look at tasks is a rank counted from those
ahead; `EachRank` shows that every rank is taken, and so that the order is one of all of them,
without which nothing would be known of what a batch holds. Theorems: `AdmissionTypeCorrect`,
`OneJobAtATime`.

`BoardDiscoveryProofs`, of `Discovery`. Of the items, what is not yet seen is what matters: a record
that a scan has inserted and not committed has no row, no task and no refinement, and no other scan
has inserted it (`Free`); a resolution that has found its item new is right about it or the item is
`raced`; and nobody holds a resolution of an escalated item. Theorems: `TypeCorrect`, `TasksMatch`,
`ItemsHandledOnce`, `ResolvedItemsStay`.

`BudgetProofs`, of `Settings`. Three invariants, proved one after the other. For `BoundedStaleness`,
what is left of an entry's time and for how long it has been wrong add up to at most the time to
live and a stall, whoever stored it. For `SecretsRecoverable`, the keys a thread or the command may
still write with are in one of the files unless `careless`, also while the file is renamed and there
is none. For `RewriteKeepsValues`, the rows the command holds have the values of the table where
nobody changed them. Theorems: `TypeCorrect`, `StalenessBounded`, `SecretsStayRecoverable`,
`CommandsKeepValues`.

`BudgetProofs`, of `Metering`. `MeterInv` is about each instance by itself: a result is the last
event of a pipe and carries the real cost, and what is shown, recorded or still to be read stays
within what the turns so far may cost. The turns that were printed and not yet counted (`Unread`)
are what makes the bound on the cost inductive. `CapInv` adds the windows: each unit of cost that an
agent in flight may still record is a token (`Tokens`); a window, with the tokens of the agents that
may still add to it and those of an agent that is about to be claimed (`Reserve`), stays below the
cap and the slots' worth of agents (`Room`). Recording turns tokens into cost (`TokensShrink`), a
late agent brings a share of its own, and a claim finds its tokens reserved by the gate.
`BalanceInv`: the windows of a kind add up to what instances recorded and calls cost. Theorems:
`MeteringTypeCorrect`, `OvershootIsBounded`, `WindowsReconcile`.

`Sums`. A sum of the community modules is a CHOOSE of a function that is defined by recursion on
sets. That there is one is proved for sets of so many elements, of which the least number without
one would not be the least (`Least`, `SumsExist`); the same argument is an induction over the
subsets of a finite set (`SubsetInduction`), by which a sum changes as one of its terms does
(`SumsChange`) and a sum of sizes is a size (`SumCounts`). Two facts about sizes follow (`Injected`,
`InThree`).

`BoardDiscoveryProofs`, of `Board`. The numbers of the events rise from the summary that is shown
over the wire and the queue to the transaction under way (`InFlight`): dropping any of them, or the
wire as a whole, keeps that. `Counted` bounds the versions of the panels, for the types. Theorems:
`BoardTypeCorrect`, `SummaryOrdered`.

`UserProofs`, of `Console`. One invariant for each part of the tab. `BlockInv`: two approvals inside
the server, between read and commit, are for different blocks or the block is `raced`; and a block
that was approved is over, with no other approval of it inside. What the tab has been told plays no
part in it. `FormInv`: while nobody else writes a field, every save under way carries what was saved
last; one that will not write the field, for it differs not from the row read, has found it stored;
and it is stored or a save will write it. `ModalInv`: `Complete` of what is shown and, before it is
rendered, of what the fetch has read; and the only fetch that can still be rendered is the one of
the task that is open. Theorems: `TypeCorrect`, `ApprovalsSingle`, `SavesLast`, `DetailsTrue`.

`UserProofs`, of `Flow`. `FlowInv` says two things of a command under way. What it needs to write at
all, a row that is there and a human's, no commit takes away (`CommandsInv`; `MayWrite` is kept when
tables grow). What it read, that no session is active, or that its session is, and which of its
events are open, is `StillTrue` while no commit has overtaken it (`ReadInv`). Each kind of command
is then shown to keep the nesting if what it read is still true (`KeepsNest`), and to activate at
most one session in any case, and no second one if it is (`OneActivated`): so a race is paid for
with one session (`FewActive`). Agents and the pipeline leave alone what a human tracks
(`UntouchedKeeps`). The clock is not in the nesting that is proved, `Nests`: an interval that has
ended stays before one that began later. `Before` asks for an end, where `Apart` of the property
takes the present for one, and would not be kept by `Tick`. For the report, `ForwardInv`: while
nothing raced, rows end after they began. Then a duration is a number of points of time, and the
time of a set of rows is how many points they have, each counted for its row (`TimeCounts`). A point
of a block or an interrupt is one of an event of a session elsewhere, or one that an interrupt
shares with a block of its session, or goes to its session; of the last, no two go to the same point
of the same session, because events of a kind are apart (`Covered`). Theorems: `FlowTypeCorrect`,
`TrackedTimeNests`, `ActiveTimeAccounts`.

`BacklogProofs`. A status change is `clean` until another one, or a late move, meets it on its task
or its issue; `CleanInv`: a clean change reads a row and an issue that nobody else moves, so that it
knows the row's status and, once its push was answered, the issue's column. `SyncInv` is `Mirrored`
without its last condition: where row and issue differ, a push has moved the issue already or is to
move it (`Halfway`). `FiledInv`: an issue that was filed is with exactly one command or exactly one
row; `NotedInv` counts the comments. `StageInv` says which command can be at which stage, `TypeInv`
the types. An action is either no part of a status change (`ChangesKept`, `SyncKept`, `FiledKept`,
`NotedKept`), or a step of one push (`PushGoesOn`), of one commit or rollback (`ChangeSteps`), or it
meets changes of others (`AlikeKeeps`). `BacklogAssumption` asks of the board only that a column
named like a status means it. Theorems: `TypeCorrect`, `MirrorKept`, `RemoteKept`.

Model-checked only: liveness (`JobsSettle`, `ResourcesFreed`, `TakenUp`, `Converges`), which needs fairness and
ENABLED. Every invariant and every action property of the runs is a theorem.

## 5. What the code does that its comments deny

A property of a passing run says what the code keeps. Where a comment promises more, the property
names the exception, through a history variable, and TLC reaches it in that run. The
exceptions, with the comment they are about:

1. A worktree, a merge or a deploy that takes over 120 s sends no heartbeat: its instance is reaped
   while its supervisor works, although the watchdog is for supervisors that have died
   (`watchdog.py:8-10`). `reaped` in `OneEditorPerKey` and `SettledStaysSettled`.
2. A job whose daemon crashed is failed by the reaper with attempts left; the recovery that would requeue
   it (`watchdog.py:145-146`) runs second and finds nothing. `JobsSettle` holds: it is settled, as failed.
3. A recovery writes a claim it read before the job was requeued and claimed anew; two
   supervisors work on it (`queue.py:3-5`). `overwritten` in `OneSupervisorPerJob`.
4. A rejection by a second open job clears an infra block and leaves its incident open
   (`spawner.py:397`). `BlocksFollowedUp` and `WorkKept` are about a task that no human has touched
   and that never had two jobs (`doubled`): two daemons' sweeps took it up at once, or one did while
   the supervisor of a reaped job went on (1), or a recovery put back a job that had ended (3).
5. The devops job forks from HEAD, so the QA run that verifies the fix tests a tree without the
   work that was blocked, and its PASS finishes the task (migration 012 says it re-verifies).
   `detached` in `WorkKept`.
6. The status of an item is checked on the row that was read; two promotions that both read it as
   new make two tasks, and the item is linked to the second (`promote.py:63`). `raced` in
   `TasksMatchItems` and `ResolvedStays`.
7. A finding inserted while its severity was unknown stays in the inbox when a later scan reports
   it critical, for the insert is a conflict and nothing else is looked at (`manager.py:136`). `HandledOnce`
   is about those that were critical when they were inserted.
8. Two sweeps that do not see each other's jobs both admit a task (`po.py`). `overlaps` in `OneOpenJob`.
9. The subprocess of a lost supervisor is not killed: its lock is freed, and the next agent edits beside
   it. `OneEditorPerKey` is about supervised agents.
10. `task update --status` moves a blocked task and leaves its reason, its spent bounce budget and
    its incident (`edited`), and it never reaches Jira, which "mirrors FlowTrack task status
    changes" (`jira_sync.py:1`; `drift` in `Mirrored`).
11. A rotation re-encrypts the rows its session has read, not those of the second query
    (`Requeried`); with two rotations or a second process that makes a key, a secret's key may be in neither
    file (`careless` in `SecretsRecoverable`), and a value changed during the prompt is overwritten
    (`overtaken` in `RewriteKeepsValues`).
12. The role form sends every field it shows, so a save overwrites what another client has changed
    in any of them; its listeners are added again at each render, so one press sends several
    requests; and it is told ok, and the next save may be sent, before the commit (`contested` in
    `LastSaveStored`). An approval is also answered before its commit: pressed again in between, it
    is given twice (`raced` in `ApprovedOnce`).
13. The report takes overlapping blocks and interrupts off twice, and events of sessions it does not count;
    its active time may be negative (`Outside` and `Twice` in `ActiveTimeAccounted`).
14. Two deploys at once may leave the older commit in production, although the later merge holds it
    (`overlapped` in `DoneIsDelivered`); "kept moving during 3 merge attempts" (`merger.py:214`) is also said
    of a branch that `update-ref` could not write (`denied` in `OvertakenBeforeGivingUp`).

15. The reaper's verdict is about an instance as it was read: one that was still making its worktree
    may be waited for when the kill is written, and its agent's job is failed while it works. And
    the grace is twice the role's limit as it is now, not as the agent was given it: cut to half, it
    reaps agents within their time. The watchdog "only cleans up DB state for instances whose
    supervisor process itself crashed" (`watchdog.py:8-10`). `beat` and `limit` of the verdict in
    `WaitingNeverReaped`.

Two more that no property is about: a run out of turns is retried from the branch its job was given, without
the commits its resume context says not to repeat (`spawner.py:905`), and that context takes the place of the
feedback a rework was sent with.

## 6. Not modelled, and the plan

Not modelled, because there is nothing two steps can disturb, or because it is the outside world: the API's
token check; HTTP clients and the mapping of what they return (inputs of `Discovery` and `Backlog`); prompts and
the parsing of answers (inputs); rendering and layout; DDL (only the seeds are used, as the
chain of `Pipeline`). `PROJECT.json` lists each with its reason.

Left out of components that are modelled:

- The discovery tab and the budget view of the UI: they show and press what `Board`, `Console` and
  `Discovery` have.
- The other metrics of the reports: sums over the rows whose nesting `Nested` is about.

To prove next: an abstract specification of the target branch, a log to which deliveries are
appended, and that `Merge` implements it.
