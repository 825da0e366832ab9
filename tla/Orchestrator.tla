----------------------------- MODULE Orchestrator -----------------------------
(***************************************************************************)
(* The orchestrator daemon of FlowTrack: the claim loop (loop.py), the job *)
(* queue (queue.py), one supervisor coroutine per claimed job (spawner.py, *)
(* and merger.py for the builtin merge stage), the logical resource locks  *)
(* (locks.py) and the watchdog (watchdog.py), over the rows they share in  *)
(* Postgres and the agent subprocesses they start.                         *)
(*                                                                         *)
(* One action is one database transaction, or one step between two awaits  *)
(* of a coroutine.  The watchdog's sweep is one transaction, but at READ   *)
(* COMMITTED its reads are not protected from other commits: it is split   *)
(* where it reads, where it writes rows (which stay locked, and show their *)
(* old values to others, until it commits) and where it commits.           *)
(*                                                                         *)
(* Time is discrete.  Every timestamp the code compares with now() is kept *)
(* as its age, cut off at the largest threshold it is compared with.       *)
(***************************************************************************)
EXTENDS Integers, FiniteSets

CONSTANTS
  Jobs,           \* rows that may be added to job_queue
  MergeJobs,      \* the jobs whose role is the builtin "merge"
  Rank,           \* Rank[j]: position of j in the order (priority, created_at)
  Keys,           \* resource keys
  KeyOf,          \* KeyOf[j]: the key derive_locks_for returns for j's task
  None,           \* SQL NULL
  MaxInstances,   \* bound: number of instance ids a behaviour may use
  MaxAttempts,    \* Job.max_attempts
  MaxConcurrent,  \* max_concurrent_instances
  Limits,         \* the values Role.max_minutes may be given, one for all roles
  StaleFloor,     \* _MIN_STALE_SECONDS
  SlowSteps,      \* the steps of a supervisor, and "sweep", that may take time
  MayDryRun,      \* orchestrator_dry_run may be set
  IsolatedSweep,  \* TRUE: nothing else commits between a sweep's reads and writes
  MaxFaults       \* bound: number of steps that raise and of times the daemon stops

Instances == 1 .. MaxInstances
JobStatus == {"absent", "queued", "claimed", "done", "failed", "cancelled"}
Terminal  == {"done", "failed", "cancelled"}
InstStatus == {"absent", "spawning", "running", "completed", "failed", "killed"}
Live      == {"spawning", "running"}
\* Where a supervisor stands: before create_worktree, _try_acquire_locks,
\* _requeue_on_contention and _mark_running, waiting for its subprocess, in
\* supervise()'s exception handler, in the merge executor.
Steps == {"start", "lock", "contend", "mark", "wait", "fail", "merging"}

ASSUME JobsAssumption ==
  /\ MergeJobs \subseteq Jobs
  /\ Rank \in [Jobs -> Nat]
  /\ \A j, k \in Jobs : Rank[j] = Rank[k] => j = k
  /\ KeyOf \in [Jobs -> Keys]

ASSUME BoundsAssumption ==
  /\ MaxInstances \in Nat
  /\ None \notin Instances
  /\ MaxAttempts \in Nat \ {0}
  /\ MaxConcurrent \in Nat
  /\ Limits \subseteq Nat \ {0}
  /\ StaleFloor \in Nat \ {0}
  /\ MaxFaults \in Nat
  /\ MayDryRun \in BOOLEAN
  /\ IsolatedSweep \in BOOLEAN
  \* Database transactions and process creation are fast; git worktree add, the
  \* agent and the merge (git and deploy_command) may not be, nor a sweep.
  /\ SlowSteps \subseteq {"start", "wait", "merging", "sweep"}

VARIABLES
  \* job_queue
  jobStatus, attempts, claimedBy,
  claimAge,    \* age of claimed_at, for a claimed job
  \* instances and the agent session each one owns
  instStatus, instJob,
  beat,        \* last_heartbeat_at is not NULL
  quiet,       \* age of last_heartbeat_at, of spawned_at while it is NULL
  session,     \* it owns an ACTIVE sessions row
  \* resource_locks
  holder, lockAge,
  \* supervisors ("idle" before the claim, "done" once supervise() returned,
  \* "lost" when its coroutine ended with nothing finalized) and subprocesses
  pc,
  granted,     \* role_max_minutes of its context: subprocess timeout and lock TTL
  timer,       \* time since wait_for(proc.wait()) began
  proc,        \* "none", "running" or, while its exit is not handled, "exited"
  \* the daemon process, and the row of the roles
  daemonUp, faults,
  limit,       \* Role.max_minutes
  \* the watchdog's sweep in progress
  sweeping,    \* "no", "read": the live instances, "written": the dead ones
  dead,        \* the instances it read and decided to kill
  freed,       \* keys whose locks it deleted
  todo,        \* claims it read and did not examine yet
  orphans,     \* claims it decided to recover
  \* history, read by properties only
  reaped,      \* instances the watchdog ever killed
  overwritten  \* jobs a sweep recovered although their row had changed since it read it

jobVars   == <<jobStatus, attempts, claimedBy, claimAge>>
instVars  == <<instStatus, instJob, beat, quiet, session>>
lockVars  == <<holder, lockAge>>
supVars   == <<pc, granted, timer, proc>>
sweepVars == <<sweeping, dead, freed, todo, orphans>>
ghostVars == <<reaped, overwritten>>
dayVars   == <<daemonUp, faults, limit>>
vars == <<jobVars, instVars, lockVars, supVars, sweepVars, ghostVars, dayVars>>

-----------------------------------------------------------------------------
Init ==
  /\ jobStatus = [j \in Jobs |-> "absent"]
  /\ attempts = [j \in Jobs |-> 0]
  /\ claimedBy = [j \in Jobs |-> None]
  /\ claimAge = [j \in Jobs |-> 0]
  /\ instStatus = [i \in Instances |-> "absent"]
  /\ instJob = [i \in Instances |-> None]
  /\ beat = [i \in Instances |-> FALSE]
  /\ quiet = [i \in Instances |-> 0]
  /\ session = [i \in Instances |-> FALSE]
  /\ holder = [k \in Keys |-> None]
  /\ lockAge = [k \in Keys |-> 0]
  /\ pc = [i \in Instances |-> "idle"]
  /\ granted = [i \in Instances |-> 0]
  /\ timer = [i \in Instances |-> 0]
  /\ proc = [i \in Instances |-> "none"]
  /\ daemonUp = TRUE
  /\ faults = 0
  /\ limit \in Limits
  /\ sweeping = "no"
  /\ dead = {}
  /\ freed = {}
  /\ todo = {}
  /\ orphans = {}
  /\ reaped = {}
  /\ overwritten = {}

Supervised(i) == pc[i] \in Steps
Goto(i, step) == pc' = [pc EXCEPT ![i] = step]

-----------------------------------------------------------------------------
(* The queue *)

\* Another part of the daemon, the API or the CLI adds a job.
Enqueue(j) ==
  /\ jobStatus[j] = "absent"
  /\ jobStatus' = [jobStatus EXCEPT ![j] = "queued"]
  /\ UNCHANGED <<attempts, claimedBy, claimAge, instVars, lockVars, supVars,
                 sweepVars, ghostVars, dayVars>>

\* Mutant: the claim query also returns failed jobs.
NextInLineOrFailed(j) ==
  /\ jobStatus[j] \in {"queued", "failed"}
  /\ \A k \in Jobs : jobStatus[k] = "queued" => Rank[j] <= Rank[k]

NextInLine(j) ==
  /\ jobStatus[j] = "queued"
  /\ \A k \in Jobs : jobStatus[k] = "queued" => Rank[j] <= Rank[k]

\* Instance ids are uuids; handing them out in order only keeps runs small.
Fresh(i) ==
  /\ instStatus[i] = "absent"
  /\ \A k \in Instances : k < i => instStatus[k] # "absent"

\* A slot is free: supervisors that did not finish count, subprocesses do not.
SlotFree == Cardinality({i \in Instances : Supervised(i)}) < MaxConcurrent

\* One tick of the claim loop: the job is claimed and its instance created in
\* one transaction, then the supervisor is started and _load_context reads the role.
Claim(j, i) ==
  /\ daemonUp /\ SlotFree /\ NextInLine(j) /\ Fresh(i)
  /\ jobStatus' = [jobStatus EXCEPT ![j] = "claimed"]
  /\ attempts' = [attempts EXCEPT ![j] = @ + 1]
  /\ claimedBy' = [claimedBy EXCEPT ![j] = i]
  /\ claimAge' = [claimAge EXCEPT ![j] = 0]
  /\ instStatus' = [instStatus EXCEPT ![i] = "spawning"]
  /\ instJob' = [instJob EXCEPT ![i] = j]
  /\ Goto(i, "start")
  /\ granted' = [granted EXCEPT ![i] = limit]
  /\ UNCHANGED <<beat, quiet, session, lockVars, timer, proc, sweepVars,
                 ghostVars, dayVars>>

\* The same tick while orchestrator_dry_run is set: claimed, then cancelled.
ClaimDryRun(j) ==
  /\ MayDryRun
  /\ daemonUp /\ SlotFree /\ NextInLine(j)
  /\ jobStatus' = [jobStatus EXCEPT ![j] = "cancelled"]
  /\ attempts' = [attempts EXCEPT ![j] = @ + 1]
  /\ UNCHANGED <<claimedBy, claimAge, instVars, lockVars, supVars, sweepVars,
                 ghostVars, dayVars>>

\* claimed_at is read of claimed jobs only.
ForgetClaimOf(S) == claimAge' = [j \in Jobs |-> IF j \in S THEN 0 ELSE claimAge[j]]

\* Mutant: the instance's final status is written to the job.
ReleaseJobAsInstance(j, status, i) ==
  /\ jobStatus' = [jobStatus EXCEPT ![j] = IF status = "done" THEN "completed" ELSE status]
  /\ claimedBy' = [claimedBy EXCEPT ![j] = i]
  /\ ForgetClaimOf({j})
  /\ UNCHANGED attempts

\* release_job
ReleaseJob(j, status, i) ==
  /\ jobStatus' = [jobStatus EXCEPT ![j] = status]
  /\ claimedBy' = [claimedBy EXCEPT ![j] = i]
  /\ ForgetClaimOf({j})
  /\ UNCHANGED attempts

\* Mutant: one attempt too many.
RequeueJobOnceMore(j, i) ==
  \/ /\ attempts[j] <= MaxAttempts
     /\ jobStatus' = [jobStatus EXCEPT ![j] = "queued"]
     /\ claimedBy' = [claimedBy EXCEPT ![j] = None]
     /\ ForgetClaimOf({j})
     /\ UNCHANGED attempts
  \/ /\ attempts[j] > MaxAttempts
     /\ ReleaseJob(j, "failed", i)

\* Back to the queue for another attempt, if the job has one left.
RequeueJob(j, i) ==
  \/ /\ attempts[j] < MaxAttempts
     /\ jobStatus' = [jobStatus EXCEPT ![j] = "queued"]
     /\ claimedBy' = [claimedBy EXCEPT ![j] = None]
     /\ ForgetClaimOf({j})
     /\ UNCHANGED attempts
  \/ /\ attempts[j] >= MaxAttempts
     /\ ReleaseJob(j, "failed", i)

-----------------------------------------------------------------------------
(* Locks and sessions *)

FreeLocks(S) ==
  /\ holder' = [k \in Keys |-> IF k \in S THEN None ELSE holder[k]]
  /\ lockAge' = [k \in Keys |-> IF k \in S THEN 0 ELSE lockAge[k]]

\* The keys release_all deletes, for every instance of a set.
HeldBy(S) == {k \in Keys : holder[k] \in S}

\* end_for_instance, for every instance of a set.
EndSessions(S) == session' = [i \in Instances |-> session[i] /\ i \notin S]

-----------------------------------------------------------------------------
(* One supervisor *)

\* Nothing compares the ages of an instance that is over.
ForgetBeats(S) ==
  /\ beat' = [i \in Instances |-> beat[i] /\ i \notin S]
  /\ quiet' = [i \in Instances |-> IF i \in S THEN 0 ELSE quiet[i]]

\* supervise() returns.
Return(i) ==
  /\ Goto(i, "done")
  /\ granted' = [granted EXCEPT ![i] = 0]
  /\ timer' = [timer EXCEPT ![i] = 0]
  /\ ForgetBeats({i})

\* The rest of _load_context, then git worktree add.
CreateWorktree(i) ==
  /\ pc[i] = "start"
  /\ instJob[i] \notin MergeJobs
  /\ \E next \in {"lock", "fail"} : Goto(i, next)
  /\ UNCHANGED <<jobVars, instVars, lockVars, granted, timer, proc>>

\* INSERT under the UNIQUE constraint on resource_key.  It waits for the sweep if
\* that has deleted the key's lock and not committed.
TryAcquireLocks(i) ==
  LET k == KeyOf[instJob[i]]
  IN  /\ pc[i] = "lock" /\ k \notin freed
      /\ \/ /\ holder[k] = None
            /\ holder' = [holder EXCEPT ![k] = i]
            /\ lockAge' = [lockAge EXCEPT ![k] = 0]
            /\ Goto(i, "mark")
         \/ /\ holder[k] # None
            /\ Goto(i, "contend")
            /\ UNCHANGED lockVars
      /\ UNCHANGED <<jobVars, instVars, granted, timer, proc>>

RequeueOnContention(i) ==
  /\ pc[i] = "contend"
  /\ instStatus' = [instStatus EXCEPT ![i] = "failed"]
  /\ RequeueJob(instJob[i], i)
  /\ Return(i)
  /\ UNCHANGED <<instJob, session, lockVars, proc>>

\* _mark_running, which writes the status whatever it was, then the subprocess.
StartAgent(i) ==
  /\ pc[i] = "mark"
  /\ instStatus' = [instStatus EXCEPT ![i] = "running"]
  /\ beat' = [beat EXCEPT ![i] = TRUE]
  /\ quiet' = [quiet EXCEPT ![i] = 0]
  /\ session' = [session EXCEPT ![i] = TRUE]
  /\ proc' = [proc EXCEPT ![i] = "running"]
  /\ Goto(i, "wait")
  /\ UNCHANGED <<jobVars, instJob, lockVars, granted, timer>>

\* The instance, session and lock writes every finalizer makes, in the same
\* transaction as those to the job.
Settle(i, status) ==
  /\ instStatus' = [instStatus EXCEPT ![i] = status]
  /\ EndSessions({i})
  /\ FreeLocks(HeldBy({i}))
  /\ Return(i)
  /\ UNCHANGED instJob

\* A subprocess that nobody killed goes on; an exit is handled.
Reaped(i) == proc' = [proc EXCEPT ![i] = IF @ = "exited" THEN "none" ELSE @]

\* Exit code 0.
FinalizeCompleted(i) ==
  /\ pc[i] = "wait" /\ proc[i] = "exited"
  /\ Settle(i, "completed")
  /\ Reaped(i)
  /\ ReleaseJob(instJob[i], "done", i)

\* Exit code != 0 with a result worth another attempt (max turns, interrupted, 429).
HandleTransientExit(i) ==
  /\ pc[i] = "wait" /\ proc[i] = "exited"
  /\ Settle(i, "failed")
  /\ Reaped(i)
  /\ RequeueJob(instJob[i], i)

\* Any other exit code, and every path that ends in _finalize_failed.
FinalizeFailed(i) ==
  /\ \/ pc[i] = "wait" /\ proc[i] = "exited"
     \/ pc[i] = "fail"
  /\ Settle(i, "failed")
  /\ Reaped(i)
  /\ ReleaseJob(instJob[i], "failed", i)

\* wait_for(proc.wait()) expires: the subprocess is killed, then the rows written.
FinalizeTimeout(i) ==
  /\ pc[i] = "wait" /\ proc[i] = "running" /\ timer[i] >= granted[i]
  /\ Settle(i, "killed")
  /\ proc' = [proc EXCEPT ![i] = "none"]
  /\ ReleaseJob(instJob[i], "failed", i)

\* The builtin merge stage: no lock, no session, and no heartbeat.
StartMerge(i) ==
  /\ pc[i] = "start"
  /\ instJob[i] \in MergeJobs
  /\ instStatus' = [instStatus EXCEPT ![i] = "running"]
  /\ Goto(i, "merging")
  /\ UNCHANGED <<jobVars, instJob, beat, quiet, session, lockVars, granted, timer, proc>>

FinishMerge(i) ==
  /\ pc[i] = "merging"
  /\ \/ /\ instStatus' = [instStatus EXCEPT ![i] = "completed"]
        /\ ReleaseJob(instJob[i], "done", i)
     \/ /\ instStatus' = [instStatus EXCEPT ![i] = "failed"]
        /\ ReleaseJob(instJob[i], "failed", i)
  /\ Return(i)
  /\ UNCHANGED <<instJob, session, lockVars, proc>>

\* Any step may raise (database down, git or exec error): supervise() catches it
\* and goes to _finalize_failed; if that raises too, the task ends with nothing
\* written.  A subprocess already started is not killed by this code, but the
\* closing of its pipes may end it.
StepRaises(i) ==
  /\ Supervised(i) /\ faults < MaxFaults
  /\ \E next \in {"fail", "lost"} : Goto(i, next)
  /\ proc' = [proc EXCEPT ![i] = "none"] \/ Reaped(i)
  /\ timer' = [timer EXCEPT ![i] = 0]
  /\ faults' = faults + 1
  /\ UNCHANGED <<jobVars, instVars, lockVars, granted>>

\* The rows of instances and jobs that a sweep has updated and not committed:
\* whoever updates one of them waits.
LockedInstances == IF sweeping = "written" THEN {d.inst : d \in dead} ELSE {}
LockedJobs ==
  {j \in Jobs : jobStatus[j] = "claimed" /\ claimedBy[j] \in LockedInstances}

Progress(i) ==
  \/ CreateWorktree(i) \/ TryAcquireLocks(i)
  \/ /\ i \notin LockedInstances
     /\ StartAgent(i) \/ StartMerge(i)
  \/ /\ i \notin LockedInstances /\ instJob[i] \notin LockedJobs
     /\ \/ RequeueOnContention(i) \/ FinalizeCompleted(i) \/ HandleTransientExit(i)
        \/ FinalizeFailed(i) \/ FinalizeTimeout(i) \/ FinishMerge(i)

Supervise(i) ==
  /\ daemonUp
  /\ \/ Progress(i) /\ UNCHANGED faults
     \/ StepRaises(i)
  /\ UNCHANGED <<sweepVars, ghostVars, daemonUp, limit>>

-----------------------------------------------------------------------------
(* The subprocess *)

\* receive_hook, as _persist_event: last_heartbeat_at is now, whatever the status.
Beat(i) ==
  /\ beat' = [beat EXCEPT ![i] = TRUE]
  /\ quiet' = [quiet EXCEPT ![i] = 0]

\* It writes a stream event or calls the daemon's hook endpoint.  Nothing reads
\* the heartbeat of an instance that is over.
Heartbeat(i) ==
  /\ daemonUp /\ proc[i] = "running"
  /\ instStatus[i] \in Live \/ Supervised(i)
  /\ i \notin LockedInstances
  /\ Beat(i)
  /\ UNCHANGED <<jobVars, instStatus, instJob, session, lockVars, supVars,
                 sweepVars, ghostVars, dayVars>>

\* It ends; only a supervisor that waits for it learns so.
ProcessExit(i) ==
  /\ proc[i] = "running"
  /\ proc' = [proc EXCEPT ![i] = IF pc[i] = "wait" THEN "exited" ELSE "none"]
  /\ UNCHANGED <<jobVars, instVars, lockVars, pc, granted, timer, sweepVars,
                 ghostVars, dayVars>>

\* PATCH /roles: the limit changes for agents to come, and for the watchdog.
EditRole ==
  /\ limit' \in Limits \ {limit}
  /\ UNCHANGED <<jobVars, instVars, lockVars, supVars, sweepVars, ghostVars,
                 daemonUp, faults>>

-----------------------------------------------------------------------------
(* The watchdog *)

AtLeastFloor(age) == IF age > StaleFloor THEN age ELSE StaleFloor

\* Mutant: the role's limit is not doubled.
GraceNotDoubled(i) == IF beat[i] THEN AtLeastFloor(limit) ELSE StaleFloor

\* Time without a heartbeat after which an instance counts as dead.
Grace(i) == IF beat[i] THEN AtLeastFloor(2 * limit) ELSE StaleFloor

\* Mutant: instances that never sent a heartbeat are not considered.
StaleAfterBeat(i) == instStatus[i] \in Live /\ beat[i] /\ quiet[i] >= Grace(i)

\* Mutant: only instances that never sent a heartbeat are considered.
StaleBeforeBeat(i) == instStatus[i] \in Live /\ ~beat[i] /\ quiet[i] >= Grace(i)

Stale(i) == instStatus[i] \in Live /\ quiet[i] >= Grace(i)

\* _kill_stale_instances reads the roles, then the live instances, and decides by
\* what it has read.
ReadStale ==
  /\ daemonUp /\ sweeping = "no"
  /\ sweeping' = "read"
  /\ dead' = {[inst |-> i, beat |-> beat[i], limit |-> limit] :
                i \in {k \in Instances : Stale(k)}}
  /\ UNCHANGED <<jobVars, instVars, lockVars, supVars, freed, todo, orphans,
                 ghostVars, dayVars>>

\* What the sweep remembers of a claim it read.
Seen(j) == [job |-> j, by |-> claimedBy[j], tries |-> attempts[j]]

\* It updates the rows of the dead instances whatever they hold by now, ends their
\* sessions, deletes their locks and fails their jobs, all read only now, and
\* _recover_orphaned_claims reads the other claims.  Nobody sees this before the
\* commit, which is where the rows change.
WriteKills ==
  LET insts == {d.inst : d \in dead}
  IN  /\ daemonUp /\ sweeping = "read"
      /\ sweeping' = "written"
      /\ freed' = HeldBy(insts)
      /\ todo' = {Seen(j) : j \in {x \in Jobs : /\ jobStatus[x] = "claimed"
                                                /\ claimedBy[x] \notin insts
                                                /\ claimAge[x] > StaleFloor}}
      /\ UNCHANGED <<jobVars, instVars, lockVars, supVars, dead, orphans, ghostVars,
                     dayVars>>

\* Mutant: an old claim is taken for an orphan.
OrphanedByAge(c) == c.by \in Instances \cup {None}

\* The claim has no live instance.
Orphaned(c) == c.by # None => instStatus[c.by] \notin Live

\* One turn of its loop: the claim's instance is read now, the claim was read before.
ExamineClaim ==
  /\ daemonUp /\ sweeping = "written"
  /\ \E c \in todo :
       /\ todo' = todo \ {c}
       /\ orphans' = IF Orphaned(c) THEN orphans \cup {c} ELSE orphans
  /\ UNCHANGED <<jobVars, instVars, lockVars, supVars, sweeping, dead, freed,
                 ghostVars, dayVars>>

\* Mutant: locks expire one minute early.
ExpiredEarly == {k \in Keys : holder[k] # None /\ lockAge[k] >= granted[holder[k]] - 1}

\* sweep_expired.  The lock is taken before the subprocess's timer starts, with
\* the same length: when the timer is due, the lock is already past expires_at.
Expired == {k \in Keys : holder[k] # None /\ lockAge[k] >= granted[holder[k]]}

\* The row no longer is the claim the sweep read.
Changed(c) == ~(jobStatus[c.job] = "claimed" /\ claimedBy[c.job] = c.by)

\* Where the sweep stands before it starts and after it ends.
NoSweep ==
  /\ sweeping' = "no"
  /\ dead' = {}
  /\ freed' = {}
  /\ todo' = {}
  /\ orphans' = {}

\* Expired locks are dropped, and the commit shows the kills.  The recoveries
\* reach the rows by primary key, whatever these hold by now.
CommitSweep ==
  LET again == {c.job : c \in {o \in orphans : o.tries < MaxAttempts}}
      given == {c.job : c \in {o \in orphans : o.tries >= MaxAttempts}}
  IN  /\ daemonUp /\ sweeping = "written" /\ todo = {}
      /\ jobStatus' = [j \in Jobs |-> IF j \in again THEN "queued"
                                      ELSE IF j \in given \cup LockedJobs THEN "failed"
                                      ELSE jobStatus[j]]
      /\ claimedBy' = [j \in Jobs |-> IF j \in again THEN None ELSE claimedBy[j]]
      /\ instStatus' = [i \in Instances |->
                          IF i \in LockedInstances THEN "killed" ELSE instStatus[i]]
      /\ EndSessions(LockedInstances)
      /\ ForgetBeats({i \in LockedInstances : ~Supervised(i)})
      /\ FreeLocks(freed \cup Expired)
      /\ NoSweep
      /\ reaped' = reaped \cup LockedInstances
      /\ overwritten' = overwritten \cup {c.job : c \in {o \in orphans : Changed(o)}}
      /\ ForgetClaimOf(again \cup given \cup LockedJobs)
      /\ UNCHANGED <<attempts, instJob, supVars, dayVars>>

Sweep == ReadStale \/ WriteKills \/ ExamineClaim \/ CommitSweep

\* A sweep that raises is rolled back; the next one comes.
SweepRaises ==
  /\ daemonUp /\ sweeping # "no" /\ faults < MaxFaults
  /\ NoSweep
  /\ faults' = faults + 1
  /\ UNCHANGED <<jobVars, instVars, lockVars, supVars, ghostVars, daemonUp, limit>>

-----------------------------------------------------------------------------
(* The daemon process and time *)

\* Shutdown past its grace period, or a crash: no supervisor finalizes, a sweep
\* in progress is rolled back, and subprocesses may outlive the daemon.
StopDaemon ==
  /\ daemonUp /\ faults < MaxFaults
  /\ daemonUp' = FALSE
  /\ faults' = faults + 1
  /\ pc' = [i \in Instances |-> IF Supervised(i) THEN "lost" ELSE pc[i]]
  /\ timer' = [i \in Instances |-> 0]
  /\ \E survivors \in SUBSET {i \in Instances : proc[i] = "running"} :
       proc' = [i \in Instances |-> IF i \in survivors THEN "running" ELSE "none"]
  /\ NoSweep
  /\ UNCHANGED <<jobVars, instVars, lockVars, granted, ghostVars, limit>>

StartDaemon ==
  /\ ~daemonUp
  /\ daemonUp' = TRUE
  /\ UNCHANGED <<jobVars, instVars, lockVars, supVars, sweepVars, ghostVars,
                 faults, limit>>

\* A step that takes no time is taken before time passes, and so is the
\* reaction to an exited subprocess or to a timeout.
MayWait(i) ==
  /\ pc[i] \in SlowSteps
  /\ pc[i] = "wait" => proc[i] = "running" /\ timer[i] < granted[i]

Aged(age, top) == IF age < top THEN age + 1 ELSE age

\* The largest threshold quiet is compared with.
LongestLimit == CHOOSE m \in Limits : \A n \in Limits : n <= m
LongestGrace(i) == IF beat[i] THEN AtLeastFloor(2 * LongestLimit) ELSE StaleFloor

Tick ==
  /\ \A i \in Instances : Supervised(i) => MayWait(i)
  /\ sweeping # "no" => "sweep" \in SlowSteps
  /\ claimAge' = [j \in Jobs |-> IF jobStatus[j] = "claimed"
                                   THEN Aged(claimAge[j], StaleFloor + 1)
                                   ELSE claimAge[j]]
  /\ quiet' = [i \in Instances |-> IF instStatus[i] \in Live \/ Supervised(i)
                                     THEN Aged(quiet[i], LongestGrace(i)) ELSE quiet[i]]
  /\ lockAge' = [k \in Keys |-> IF holder[k] # None
                                  THEN Aged(lockAge[k], granted[holder[k]])
                                  ELSE lockAge[k]]
  /\ timer' = [i \in Instances |-> IF pc[i] = "wait" THEN timer[i] + 1 ELSE timer[i]]
  /\ UNCHANGED <<jobStatus, attempts, claimedBy, instStatus, instJob, beat, session,
                 holder, pc, granted, proc, sweepVars, ghostVars, dayVars>>

-----------------------------------------------------------------------------
\* With IsolatedSweep, no transaction commits while a sweep is in progress.
Undisturbed == IsolatedSweep => sweeping = "no"

Next ==
  \/ \E j \in Jobs : Enqueue(j)
  \/ /\ Undisturbed
     /\ \/ \E j \in Jobs : ClaimDryRun(j)
        \/ \E j \in Jobs, i \in Instances : Claim(j, i)
        \/ \E i \in Instances : Supervise(i)
  \/ \E i \in Instances : Heartbeat(i) \/ ProcessExit(i)
  \/ EditRole
  \/ Sweep \/ SweepRaises
  \/ StopDaemon \/ StartDaemon
  \/ Tick

Spec == Init /\ [][Next]_vars

\* Every step of the daemon is eventually taken: asyncio runs ready coroutines,
\* the watchdog sweeps every 30 s, time passes, the service manager restarts the
\* daemon, and an agent nobody waits for ends on its own (max turns).  A
\* transaction held up by one isolated sweep after another still gets its turn,
\* hence SF.
Fairness ==
  /\ SF_vars(Undisturbed /\ \E j \in Jobs, i \in Instances : Claim(j, i))
  /\ \A i \in Instances :
       /\ SF_vars(Undisturbed /\ Supervise(i) /\ UNCHANGED faults)
       /\ WF_vars(~Supervised(i) /\ ProcessExit(i))
  /\ WF_vars(Sweep)
  /\ WF_vars(StartDaemon)
  /\ SF_vars(Tick)

FairSpec == Spec /\ Fairness

-----------------------------------------------------------------------------
(* Properties *)

Verdicts == [inst : Instances, beat : BOOLEAN, limit : Limits]
Claims == [job : Jobs, by : Instances \cup {None}, tries : Nat]

\* Every variable stays within the values its column or process can take.
TypeOK ==
  /\ jobStatus \in [Jobs -> JobStatus]
  /\ attempts \in [Jobs -> Nat]
  /\ claimedBy \in [Jobs -> Instances \cup {None}]
  /\ claimAge \in [Jobs -> Nat]
  /\ instStatus \in [Instances -> InstStatus]
  /\ instJob \in [Instances -> Jobs \cup {None}]
  /\ beat \in [Instances -> BOOLEAN]
  /\ quiet \in [Instances -> Nat]
  /\ session \in [Instances -> BOOLEAN]
  /\ holder \in [Keys -> Instances \cup {None}]
  /\ lockAge \in [Keys -> Nat]
  /\ pc \in [Instances -> Steps \cup {"idle", "done", "lost"}]
  /\ granted \in [Instances -> Nat]
  /\ timer \in [Instances -> Nat]
  /\ proc \in [Instances -> {"none", "running", "exited"}]
  /\ daemonUp \in BOOLEAN
  /\ faults \in 0 .. MaxFaults
  /\ limit \in Limits
  /\ sweeping \in {"no", "read", "written"}
  /\ dead \in SUBSET Verdicts
  /\ freed \in SUBSET Keys
  /\ todo \in SUBSET Claims
  /\ orphans \in SUBSET Claims
  /\ reaped \in SUBSET Instances
  /\ overwritten \in SUBSET Jobs

\* "If claim/release is wrong, two instances pick up the same job" (queue.py:3-5):
\* no two supervisors work on one job, through every claim, requeue, watchdog
\* recovery, timeout and restart, unless a sweep recovered the job from a stale read.
OneSupervisorPerJob ==
  \A i, k \in Instances :
    (Supervised(i) /\ Supervised(k) /\ instJob[i] = instJob[k])
      => (i = k \/ instJob[i] \in overwritten)

\* A job is tried MaxAttempts times at most, once more after a recovery from a
\* stale read, whichever of the four requeue paths sent it back.
AttemptsBounded ==
  \A j \in Jobs :
    attempts[j] <= IF j \in overwritten THEN MaxAttempts + 1 ELSE MaxAttempts

\* An agent session is open only while its instance is RUNNING, however the
\* instance ends: a session left open inflates the flow-time metrics for ever.
SessionOpenOnlyWhileRunning ==
  \A i \in Instances : session[i] => instStatus[i] = "running"

\* Supervised subprocesses within their time limit.
Editing(i) == pc[i] = "wait" /\ timer[i] < granted[i]

\* "Two tasks sharing the same module are serialized" (locks.py:26): two
\* supervised agents work under one resource key only when the watchdog took the
\* lock from one of them or one has outlived the lock's TTL.
OneEditorPerKey ==
  \A i, k \in Instances \ reaped :
    (Editing(i) /\ Editing(k) /\ KeyOf[instJob[i]] = KeyOf[instJob[k]]) => i = k

\* The watchdog's grace period is long enough, however long an agent stays silent:
\* an instance whose supervisor waits for the subprocess is reaped only if the sweep
\* read it before its first heartbeat (a slow git worktree add), or the role's limit
\* was cut to half of what the agent was given or less.
WaitingNeverReaped ==
  [][\A i \in reaped' \ reaped :
       pc[i] = "wait" => \E d \in dead : /\ d.inst = i
                                         /\ ~d.beat \/ 2 * d.limit <= granted[i]]_vars

\* A settled job stays as it is, unless its instance was reaped under a live
\* supervisor that finishes later, or a sweep recovers it from a stale read.
SettledStaysSettled ==
  [][\A j \in Jobs :
       (jobStatus[j] \in Terminal /\ jobStatus'[j] # jobStatus[j])
         => (claimedBy[j] \in reaped \/ j \in overwritten')]_vars

\* Every job that was queued is eventually settled.
JobsSettle ==
  \A j \in Jobs : jobStatus[j] # "absent" ~> jobStatus[j] \in Terminal

\* What a lost supervisor held is given back, whoever crashed while holding it: no
\* resource key stays locked, and every agent session ends, for one left open
\* inflates the flow-time metrics for ever.
ResourcesFreed ==
  /\ \A k \in Keys : holder[k] # None ~> holder[k] = None
  /\ \A i \in Instances : session[i] ~> ~session[i]

\* What the tables promise as a queue (JobQueue.tla): a claimed job is held by the
\* instance in claimed_by_instance_id.
JobState(j) ==
  IF jobStatus[j] \in Terminal THEN "over"
  ELSE IF jobStatus[j] = "queued" THEN "waiting"
  ELSE IF jobStatus[j] = "claimed" THEN "held" ELSE "absent"

Queue == INSTANCE JobQueue WITH
  Workers  <- Instances,
  Nobody   <- None,
  MaxTries <- MaxAttempts,
  state    <- [j \in Jobs |-> JobState(j)],
  tries    <- attempts,
  worker   <- [j \in Jobs |-> IF jobStatus[j] = "claimed" THEN claimedBy[j] ELSE None],
  active   <- {i \in Instances : Supervised(i)},
  used     <- {i \in Instances : instStatus[i] # "absent"}

\* As long as sweeps are isolated, only agents take time and the limit is never cut
\* to half, the orchestrator is the queue that JobQueue describes, whatever crashes.
ImplementsQueue == Queue!Spec

=============================================================================
