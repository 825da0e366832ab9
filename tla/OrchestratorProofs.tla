-------------------------- MODULE OrchestratorProofs --------------------------
(***************************************************************************)
(* Proofs, for every value of the constants, of the safety properties of   *)
(* Orchestrator.  They rest on one inductive invariant, IInv.               *)
(***************************************************************************)
EXTENDS Orchestrator, TLAPS

-----------------------------------------------------------------------------
(* The inductive invariant, part by part *)

\* A supervisor's instance exists and has a job.
SupervisorInv ==
  \A i \in Instances :
    pc[i] # "idle" => instStatus[i] # "absent" /\ instJob[i] \in Jobs

\* A job's claimed_by_instance_id names an instance made for that job, which is
\* live as long as it is supervised and the claim stands.
ClaimInv ==
  \A j \in Jobs :
    /\ claimedBy[j] # None =>
         instStatus[claimedBy[j]] # "absent" /\ instJob[claimedBy[j]] = j
    /\ jobStatus[j] = "claimed" =>
         /\ claimedBy[j] # None
         /\ Supervised(claimedBy[j]) => instStatus[claimedBy[j]] \in Live

\* A supervised instance owns its job, unless the watchdog took it away.
OwnerInv ==
  \A i \in Instances :
    (Supervised(i) /\ instJob[i] \notin overwritten) =>
      /\ claimedBy[instJob[i]] = i
      /\ \/ jobStatus[instJob[i]] = "claimed"
         \/ jobStatus[instJob[i]] = "failed" /\ i \in reaped

\* What a sweep in progress remembers of the claims it read.
ReadInv ==
  \A c \in todo \cup orphans :
    /\ c.by # None /\ instStatus[c.by] # "absent"
    /\ ~Changed(c) => attempts[c.job] = c.tries
    /\ c.tries < MaxAttempts =>
         /\ attempts[c.job] <= MaxAttempts
         /\ jobStatus[c.job] = "queued" => attempts[c.job] < MaxAttempts

\* A claim to be recovered that still stands has no supervisor left.
OrphanInv == \A c \in orphans : Changed(c) \/ ~Supervised(c.by)

\* A queued job has an attempt left, or was put back by a sweep's stale read.
AttemptsInv ==
  \A j \in Jobs :
    /\ \/ attempts[j] <= MaxAttempts
       \/ j \in overwritten /\ attempts[j] = MaxAttempts + 1
    /\ jobStatus[j] = "absent" => attempts[j] = 0
    /\ jobStatus[j] = "queued" =>
         \/ attempts[j] < MaxAttempts
         \/ j \in overwritten /\ attempts[j] = MaxAttempts

\* A session is opened by StartAgent and outlives the supervisor only if that is lost.
SessionInv ==
  \A i \in Instances :
    session[i] => instStatus[i] = "running" /\ pc[i] \in {"wait", "fail", "lost"}

\* A supervised subprocess gave a sign of life after its timer started.
TimerInv ==
  \A i \in Instances :
    /\ IF pc[i] = "wait"
         THEN beat[i] /\ quiet[i] <= timer[i] /\ timer[i] <= granted[i]
         ELSE timer[i] = 0
    /\ Supervised(i) => granted[i] \in Limits

\* The steps from StartAgent on.
Started == {"wait", "fail", "done", "lost"}

\* Heartbeats and subprocesses come with StartAgent.
BeatInv ==
  \A i \in Instances : beat[i] \/ proc[i] # "none" => pc[i] \in Started

\* What a sweep remembers of the instances it takes for dead: one that had sent a
\* heartbeat is not waited for any more, unless the limit was cut to half.
Condemned(d) ==
  /\ instStatus[d.inst] # "absent"
  /\ d.beat => /\ pc[d.inst] \in Started
               /\ pc[d.inst] = "wait" => 2 * d.limit <= granted[d.inst]

VerdictInv == \A d \in dead : Condemned(d)

\* The locks a sweep deleted are still those of the instances it kills.
FreedInv == \A k \in freed : holder[k] \in LockedInstances

\* A subprocess within its time limit works under its lock.
Guarded(i) ==
  LET k == KeyOf[instJob[i]]
  IN  /\ pc[i] = "mark" => holder[k] = i /\ lockAge[k] = 0
      /\ Editing(i) => holder[k] = i /\ lockAge[k] <= timer[i]

LockInv == \A i \in Instances \ reaped : Guarded(i)

IInv ==
  /\ TypeOK
  /\ SupervisorInv
  /\ ClaimInv
  /\ OwnerInv
  /\ ReadInv
  /\ OrphanInv
  /\ AttemptsInv
  /\ SessionInv
  /\ TimerInv
  /\ BeatInv
  /\ VerdictInv
  /\ FreedInv
  /\ LockInv

-----------------------------------------------------------------------------
(* Typing *)

\* The tables start empty, every variable in its type.
LEMMA TypeInit == Init => TypeOK
<1> SUFFICES ASSUME Init PROVE TypeOK
  OBVIOUS
<1> USE BoundsAssumption DEF Init, JobStatus, InstStatus
<1>1. /\ jobStatus \in [Jobs -> JobStatus]
      /\ attempts \in [Jobs -> Nat]
      /\ claimedBy \in [Jobs -> Instances \cup {None}]
      /\ claimAge \in [Jobs -> Nat]
  OBVIOUS
<1>2. /\ instStatus \in [Instances -> InstStatus]
      /\ instJob \in [Instances -> Jobs \cup {None}]
      /\ beat \in [Instances -> BOOLEAN]
      /\ quiet \in [Instances -> Nat]
      /\ session \in [Instances -> BOOLEAN]
  OBVIOUS
<1>3. /\ holder \in [Keys -> Instances \cup {None}]
      /\ lockAge \in [Keys -> Nat]
      /\ pc \in [Instances -> Steps \cup {"idle", "done", "lost"}]
      /\ granted \in [Instances -> Nat]
      /\ timer \in [Instances -> Nat]
      /\ proc \in [Instances -> {"none", "running", "exited"}]
  OBVIOUS
<1>4. faults \in 0 .. MaxFaults
  OBVIOUS
<1> QED
  BY <1>1, <1>2, <1>3, <1>4 DEF TypeOK

\* Every action keeps every variable in its type.
LEMMA TypeStep == TypeOK /\ [Next]_vars => TypeOK'
<1> SUFFICES ASSUME TypeOK, [Next]_vars PROVE TypeOK'
  OBVIOUS
<1> USE JobsAssumption, BoundsAssumption DEF TypeOK, JobStatus, InstStatus, Steps
<1>1. ASSUME NEW j \in Jobs, Enqueue(j) PROVE TypeOK'
  BY <1>1 DEF Enqueue, instVars, lockVars, supVars, sweepVars, ghostVars, dayVars
<1>2. ASSUME NEW j \in Jobs, ClaimDryRun(j) PROVE TypeOK'
  BY <1>2 DEF ClaimDryRun, instVars, lockVars, supVars, sweepVars, ghostVars, dayVars
<1>3. ASSUME NEW j \in Jobs, NEW i \in Instances, Claim(j, i) PROVE TypeOK'
  BY <1>3 DEF Claim, Goto, lockVars, sweepVars, ghostVars, dayVars
<1>4. ASSUME NEW i \in Instances, Supervise(i) PROVE TypeOK'
  <2> USE DEF sweepVars, ghostVars, ForgetClaimOf, ForgetBeats
  <2>a. UNCHANGED <<sweepVars, ghostVars, daemonUp, limit>>
    BY <1>4 DEF Supervise
  <2>0. (Progress(i) /\ UNCHANGED faults) \/ StepRaises(i)
    BY <1>4 DEF Supervise
  <2>1. CASE CreateWorktree(i) /\ UNCHANGED faults
    BY <2>a, <2>1 DEF CreateWorktree, Goto, jobVars, instVars, lockVars
  <2>2. CASE TryAcquireLocks(i) /\ UNCHANGED faults
    BY <2>a, <2>2, SMTT(40) DEF TryAcquireLocks, Goto, jobVars, instVars, lockVars
  <2>3. CASE RequeueOnContention(i) /\ UNCHANGED faults
    BY <2>a, <2>3 DEF RequeueOnContention, RequeueJob, ReleaseJob, Return, Goto, lockVars
  <2>4. CASE StartAgent(i) /\ UNCHANGED faults
    BY <2>a, <2>4 DEF StartAgent, Goto, jobVars, lockVars
  <2>5. CASE FinalizeCompleted(i) /\ UNCHANGED faults
    BY <2>a, <2>5 DEF FinalizeCompleted, Settle, EndSessions, FreeLocks, HeldBy, Return,
       Goto, Reaped, ReleaseJob
  <2>6. CASE HandleTransientExit(i) /\ UNCHANGED faults
    BY <2>a, <2>6, SMTT(40) DEF HandleTransientExit, Settle, EndSessions, FreeLocks, HeldBy, Return,
       Goto, Reaped, ReleaseJob, RequeueJob
  <2>7. CASE FinalizeFailed(i) /\ UNCHANGED faults
    BY <2>a, <2>7 DEF FinalizeFailed, Settle, EndSessions, FreeLocks, HeldBy, Return,
       Goto, Reaped, ReleaseJob
  <2>8. CASE FinalizeTimeout(i) /\ UNCHANGED faults
    BY <2>a, <2>8 DEF FinalizeTimeout, Settle, EndSessions, FreeLocks, HeldBy, Return,
       Goto, ReleaseJob
  <2>9. CASE StartMerge(i) /\ UNCHANGED faults
    BY <2>a, <2>9 DEF StartMerge, Goto, jobVars, lockVars
  <2>10. CASE FinishMerge(i) /\ UNCHANGED faults
    BY <2>a, <2>10 DEF FinishMerge, ReleaseJob, Return, Goto, lockVars
  <2>11. CASE StepRaises(i)
    BY <2>a, <2>11 DEF StepRaises, Goto, Reaped, jobVars, instVars, lockVars
  <2> QED
    BY <2>0, <2>1, <2>2, <2>3, <2>4, <2>5, <2>6, <2>7, <2>8, <2>9, <2>10, <2>11
    DEF Progress
<1>5. ASSUME NEW i \in Instances, Heartbeat(i) PROVE TypeOK'
  BY <1>5 DEF Heartbeat, Beat, jobVars, lockVars, supVars, sweepVars, ghostVars, dayVars
<1>6. ASSUME NEW i \in Instances, ProcessExit(i) PROVE TypeOK'
  BY <1>6 DEF ProcessExit, jobVars, instVars, lockVars, sweepVars, ghostVars, dayVars
<1>7. CASE ReadStale \/ WriteKills
  <2>1. CASE ReadStale
    <3>1. dead' \in SUBSET Verdicts
      BY <2>1 DEF ReadStale, Verdicts
    <3> QED
      BY <2>1, <3>1 DEF ReadStale, jobVars, instVars, lockVars, supVars, ghostVars, dayVars
  <2>2. CASE WriteKills
    <3>1. todo' \in SUBSET Claims
      BY <2>2 DEF WriteKills, Seen, Claims
    <3> QED
      BY <2>2, <3>1
      DEF WriteKills, HeldBy, jobVars, instVars, lockVars, supVars, ghostVars, dayVars
  <2> QED
    BY <1>7, <2>1, <2>2
<1>8. CASE ExamineClaim
  BY <1>8 DEF ExamineClaim, jobVars, instVars, lockVars, supVars, ghostVars, dayVars
<1>9. CASE CommitSweep
  <2>1. overwritten' \in SUBSET Jobs
    BY <1>9 DEF CommitSweep, Claims
  <2>2. LockedInstances \in SUBSET Instances
    BY DEF LockedInstances, Verdicts
  <2>3. reaped' \in SUBSET Instances
    BY <1>9, <2>2 DEF CommitSweep
  <2>4. /\ jobStatus' \in [Jobs -> JobStatus]
        /\ claimedBy' \in [Jobs -> Instances \cup {None}]
        /\ claimAge' \in [Jobs -> Nat]
    BY <1>9 DEF CommitSweep, ForgetClaimOf
  <2>5. /\ instStatus' \in [Instances -> InstStatus]
        /\ session' \in [Instances -> BOOLEAN]
        /\ beat' \in [Instances -> BOOLEAN]
        /\ quiet' \in [Instances -> Nat]
    BY <1>9 DEF CommitSweep, EndSessions, ForgetBeats
  <2>6. holder' \in [Keys -> Instances \cup {None}] /\ lockAge' \in [Keys -> Nat]
    BY <1>9 DEF CommitSweep, FreeLocks
  <2> QED
    BY <1>9, <2>1, <2>3, <2>4, <2>5, <2>6 DEF CommitSweep, NoSweep, supVars, dayVars
<1>10. CASE StopDaemon
  <2>1. pc' \in [Instances -> Steps \cup {"idle", "done", "lost"}]
    BY <1>10 DEF StopDaemon
  <2>2. proc' \in [Instances -> {"none", "running", "exited"}]
    BY <1>10 DEF StopDaemon
  <2>3. faults' \in 0 .. MaxFaults
    BY <1>10 DEF StopDaemon
  <2> QED
    BY <1>10, <2>1, <2>2, <2>3
    DEF StopDaemon, NoSweep, jobVars, instVars, lockVars, ghostVars
<1>11. CASE StartDaemon
  BY <1>11 DEF StartDaemon, jobVars, instVars, lockVars, supVars, sweepVars, ghostVars
<1>12. CASE Tick
  <2>1. quiet' \in [Instances -> Nat]
    BY <1>12 DEF Tick, Aged
  <2>2. claimAge' \in [Jobs -> Nat] /\ timer' \in [Instances -> Nat]
    BY <1>12 DEF Tick, Aged
  <2>3. lockAge' \in [Keys -> Nat]
    BY <1>12 DEF Tick, Aged
  <2> QED
    BY <1>12, <2>1, <2>2, <2>3 DEF Tick, sweepVars, ghostVars, dayVars
<1>13. CASE UNCHANGED vars
  BY <1>13 DEF vars, jobVars, instVars, lockVars, supVars, sweepVars, ghostVars, dayVars
<1>14. CASE EditRole \/ SweepRaises
  BY <1>14
  DEF EditRole, SweepRaises, NoSweep, jobVars, instVars, lockVars, supVars, sweepVars, ghostVars
<1> QED
  BY <1>1, <1>2, <1>3, <1>4, <1>5, <1>6, <1>7, <1>8, <1>9, <1>10, <1>11, <1>12, <1>13, <1>14
  DEF Next, Sweep

-----------------------------------------------------------------------------
(* What a step does to jobs, claims and supervisors *)

\* The step of a supervisor as the queue sees it: it goes on and leaves the jobs
\* alone, or it settles or requeues its own job and returns.
Effect(i) ==
  /\ Supervised(i)
  /\ UNCHANGED <<attempts, instJob, todo, orphans, reaped, overwritten>>
  /\ \E step \in Steps \cup {"done", "lost"} : pc' = [pc EXCEPT ![i] = step]
  /\ \E status \in InstStatus \ {"absent"} : instStatus' = [instStatus EXCEPT ![i] = status]
  /\ \/ /\ UNCHANGED <<jobStatus, claimedBy>>
        /\ instStatus'[i] \in Live \/ instStatus'[i] = instStatus[i]
     \/ /\ pc' = [pc EXCEPT ![i] = "done"]
        /\ \E status \in {"queued", "done", "failed"}, by \in {i, None} :
             /\ jobStatus' = [jobStatus EXCEPT ![instJob[i]] = status]
             /\ claimedBy' = [claimedBy EXCEPT ![instJob[i]] = by]
             /\ status = "queued" => attempts[instJob[i]] < MaxAttempts

\* The variables that the parts of the invariant about jobs depend on.
coreVars == <<jobStatus, attempts, claimedBy, instStatus, instJob, pc, todo, orphans,
              reaped, overwritten>>

\* All that one step of a supervisor may do to the variables the invariant is about:
\* it moves on or returns, and touches the rows of its own instance and job only.
LEMMA SuperviseEffect ==
  ASSUME TypeOK, SupervisorInv, NEW i \in Instances, Supervise(i)
  PROVE  Effect(i)
<1> USE DEF sweepVars, ghostVars, Supervised, Steps, InstStatus, Live
<1>a. UNCHANGED <<sweepVars, ghostVars>>
  BY DEF Supervise
<1>b. /\ pc \in [Instances -> Steps \cup {"idle", "done", "lost"}]
      /\ instStatus \in [Instances -> InstStatus]
  BY DEF TypeOK
<1>c. Supervised(i) => instStatus[i] # "absent"
  BY DEF SupervisorInv
<1>1. CASE CreateWorktree(i)
  BY <1>1, <1>a, <1>b, <1>c DEF Effect, CreateWorktree, Goto, jobVars, instVars
<1>2. CASE TryAcquireLocks(i)
  BY <1>2, <1>a, <1>b, <1>c DEF Effect, TryAcquireLocks, Goto, jobVars, instVars
<1>3. CASE RequeueOnContention(i)
  BY <1>3, <1>a, <1>b, <1>c DEF Effect, RequeueOnContention, RequeueJob, ReleaseJob, Return, Goto
<1>4. CASE StartAgent(i)
  BY <1>4, <1>a, <1>b, <1>c DEF Effect, StartAgent, Goto, jobVars
<1>5. CASE FinalizeCompleted(i)
  BY <1>5, <1>a, <1>b, <1>c DEF Effect, FinalizeCompleted, Settle, ReleaseJob, Return, Goto
<1>6. CASE HandleTransientExit(i)
  BY <1>6, <1>a, <1>b, <1>c
  DEF Effect, HandleTransientExit, Settle, RequeueJob, ReleaseJob, Return, Goto
<1>7. CASE FinalizeFailed(i)
  BY <1>7, <1>a, <1>b, <1>c DEF Effect, FinalizeFailed, Settle, ReleaseJob, Return, Goto
<1>8. CASE FinalizeTimeout(i)
  BY <1>8, <1>a, <1>b, <1>c DEF Effect, FinalizeTimeout, Settle, ReleaseJob, Return, Goto
<1>9. CASE StartMerge(i)
  BY <1>9, <1>a, <1>b, <1>c DEF Effect, StartMerge, Goto, jobVars
<1>10. CASE FinishMerge(i)
  BY <1>10, <1>a, <1>b, <1>c DEF Effect, FinishMerge, ReleaseJob, Return, Goto
<1>11. CASE StepRaises(i)
  <2>1. Supervised(i) /\ UNCHANGED <<jobVars, instVars>>
    BY <1>11 DEF StepRaises
  <2>2. \E step \in Steps \cup {"done", "lost"} : pc' = [pc EXCEPT ![i] = step]
    BY <1>11 DEF StepRaises, Goto
  <2>3. instStatus' = [instStatus EXCEPT ![i] = instStatus[i]]
    BY <2>1, <1>b DEF instVars
  <2> QED
    BY <2>1, <2>2, <2>3, <1>a, <1>b, <1>c DEF Effect, jobVars, instVars
<1> QED
  BY <1>1, <1>2, <1>3, <1>4, <1>5, <1>6, <1>7, <1>8, <1>9, <1>10, <1>11 DEF Supervise, Progress

\* Every step, sorted by what it does to jobs, claims and supervisors.
LEMMA CoreCases ==
  ASSUME TypeOK, SupervisorInv, [Next]_vars
  PROVE  \/ \E j \in Jobs : Enqueue(j) \/ ClaimDryRun(j)
         \/ \E j \in Jobs, i \in Instances : Claim(j, i)
         \/ \E i \in Instances : Effect(i)
         \/ WriteKills \/ ExamineClaim \/ CommitSweep \/ SweepRaises \/ StopDaemon
         \/ UNCHANGED coreVars
<1> USE DEF coreVars, jobVars, instVars, supVars, sweepVars, ghostVars
<1>1. ASSUME NEW i \in Instances, Heartbeat(i) \/ ProcessExit(i) PROVE UNCHANGED coreVars
  BY <1>1 DEF Heartbeat, Beat, ProcessExit
<1>2. CASE ReadStale \/ EditRole \/ StartDaemon \/ Tick \/ UNCHANGED vars
  BY <1>2 DEF ReadStale, EditRole, StartDaemon, Tick, vars
<1> QED
  BY <1>1, <1>2, SuperviseEffect DEF Next, Sweep

-----------------------------------------------------------------------------
(* Claims and supervisors *)

\* Every step keeps supervised instances and claims naming each other.
LEMMA ClaimStep ==
  ASSUME IInv, [Next]_vars
  PROVE  SupervisorInv' /\ ClaimInv'
<1> USE DEF Supervised, Steps, Live, TypeOK, SupervisorInv, ClaimInv
<1>a. TypeOK /\ SupervisorInv /\ ClaimInv
  BY DEF IInv
<1>b. TypeOK'
  BY <1>a, TypeStep
<1>c. None \notin Instances
  BY BoundsAssumption
<1>1. ASSUME NEW j \in Jobs, Enqueue(j) \/ ClaimDryRun(j) PROVE SupervisorInv' /\ ClaimInv'
  BY <1>1, <1>a, <1>b, <1>c DEF Enqueue, ClaimDryRun, instVars, supVars
<1>2. ASSUME NEW j \in Jobs, NEW i \in Instances, Claim(j, i) PROVE SupervisorInv' /\ ClaimInv'
  BY <1>2, <1>a, <1>b, <1>c DEF Claim, Fresh, Goto
<1>3. ASSUME NEW i \in Instances, Effect(i) PROVE SupervisorInv' /\ ClaimInv'
  BY <1>3, <1>a, <1>b, <1>c DEF Effect, InstStatus
<1>4. CASE WriteKills \/ SweepRaises
  BY <1>4, <1>a, <1>b, <1>c DEF WriteKills, SweepRaises, jobVars, instVars, supVars
<1>5. CASE ExamineClaim \/ UNCHANGED coreVars
  BY <1>5, <1>a, <1>b, <1>c DEF ExamineClaim, jobVars, instVars, supVars, coreVars
<1>6. CASE CommitSweep
  <2>1. /\ UNCHANGED <<instJob, pc>>
        /\ instStatus' = [i \in Instances |->
                            IF i \in LockedInstances THEN "killed" ELSE instStatus[i]]
        /\ \A j \in Jobs : claimedBy'[j] = None \/ claimedBy'[j] = claimedBy[j]
        /\ \A j \in Jobs : jobStatus'[j] = "claimed" =>
              /\ jobStatus[j] = "claimed" /\ claimedBy'[j] = claimedBy[j]
              /\ claimedBy[j] \notin LockedInstances
    BY <1>6, <1>a DEF CommitSweep, supVars, LockedJobs
  <2> QED
    BY <2>1, <1>a, <1>b, <1>c
<1>7. CASE StopDaemon
  BY <1>7, <1>a, <1>b, <1>c DEF StopDaemon, jobVars, instVars
<1> QED
  BY <1>a, <1>1, <1>2, <1>3, <1>4, <1>5, <1>6, <1>7, CoreCases

\* Every step keeps supervised instances in possession of their jobs.
LEMMA OwnerStep ==
  ASSUME IInv, [Next]_vars
  PROVE  OwnerInv'
<1> USE DEF Supervised, Steps, OwnerInv
<1>a. TypeOK /\ SupervisorInv /\ ClaimInv /\ OwnerInv /\ OrphanInv /\ ReadInv
  BY DEF IInv
<1>b. TypeOK' /\ SupervisorInv' /\ ClaimInv'
  BY <1>a, TypeStep, ClaimStep
<1>c. None \notin Instances
  BY BoundsAssumption
<1>1. ASSUME NEW j \in Jobs, Enqueue(j) \/ ClaimDryRun(j) PROVE OwnerInv'
  BY <1>1, <1>a, <1>b DEF Enqueue, ClaimDryRun, NextInLine, instVars, supVars, ghostVars,
     TypeOK, SupervisorInv
<1>2. ASSUME NEW j \in Jobs, NEW i \in Instances, Claim(j, i) PROVE OwnerInv'
  BY <1>2, <1>a, <1>b DEF Claim, NextInLine, Fresh, Goto, ghostVars, TypeOK, SupervisorInv
<1>3. ASSUME NEW i \in Instances, Effect(i) PROVE OwnerInv'
  BY <1>3, <1>a, <1>b, <1>c DEF Effect, TypeOK, SupervisorInv
<1>4. CASE WriteKills \/ SweepRaises
  BY <1>4, <1>a DEF WriteKills, SweepRaises, jobVars, instVars, supVars, ghostVars
<1>5. CASE ExamineClaim \/ UNCHANGED coreVars
  BY <1>5, <1>a DEF ExamineClaim, jobVars, instVars, supVars, ghostVars, coreVars
<1>6. CASE CommitSweep
  <2> SUFFICES ASSUME NEW i \in Instances, Supervised(i)', instJob'[i] \notin overwritten'
               PROVE  /\ claimedBy'[instJob'[i]] = i
                      /\ \/ jobStatus'[instJob'[i]] = "claimed"
                         \/ jobStatus'[instJob'[i]] = "failed" /\ i \in reaped'
    OBVIOUS
  <2> DEFINE j == instJob[i]
  <2>1. /\ UNCHANGED <<pc, instJob>>
        /\ reaped' = reaped \cup LockedInstances
        /\ overwritten' = overwritten \cup {c.job : c \in {o \in orphans : Changed(o)}}
    BY <1>6 DEF CommitSweep, supVars
  <2>2. j \in Jobs /\ claimedBy[j] = i /\ Supervised(i)
    BY <2>1, <1>a DEF SupervisorInv
  <2>3. \A c \in orphans : c.job # j
    BY <2>1, <2>2, <1>a DEF OrphanInv, Changed
  <2>4. /\ claimedBy'[j] = claimedBy[j]
        /\ jobStatus'[j] = IF j \in LockedJobs THEN "failed" ELSE jobStatus[j]
    BY <1>6, <2>2, <2>3 DEF CommitSweep
  <2>5. j \in LockedJobs => i \in LockedInstances
    BY <2>2 DEF LockedJobs
  <2> QED
    BY <1>a, <2>1, <2>4, <2>5
<1>7. CASE StopDaemon
  BY <1>7, <1>a DEF StopDaemon, jobVars, instVars, ghostVars, TypeOK
<1> QED
  BY <1>a, <1>1, <1>2, <1>3, <1>4, <1>5, <1>6, <1>7, CoreCases

-----------------------------------------------------------------------------
(* Sweeps in progress *)

\* A claim that no longer stands is never made again: only Claim makes one, for
\* an instance that did not exist.
LEMMA ChangedStays ==
  ASSUME IInv, [Next]_vars, NEW c \in Claims, c.by # None, instStatus[c.by] # "absent",
         Changed(c)
  PROVE  Changed(c)'
<1> USE DEF Changed, TypeOK, Claims
<1>a. TypeOK /\ SupervisorInv /\ ClaimInv
  BY DEF IInv
<1>c. None \notin Instances
  BY BoundsAssumption
<1>1. ASSUME NEW j \in Jobs, Enqueue(j) \/ ClaimDryRun(j) PROVE Changed(c)'
  BY <1>1, <1>a DEF Enqueue, ClaimDryRun
<1>2. ASSUME NEW j \in Jobs, NEW i \in Instances, Claim(j, i) PROVE Changed(c)'
  BY <1>2, <1>a DEF Claim, Fresh
<1>3. ASSUME NEW i \in Instances, Effect(i) PROVE Changed(c)'
  BY <1>3, <1>a DEF Effect
<1>4. CASE WriteKills \/ SweepRaises
  BY <1>4 DEF WriteKills, SweepRaises, jobVars
<1>5. CASE ExamineClaim \/ UNCHANGED coreVars
  BY <1>5 DEF ExamineClaim, jobVars, coreVars
<1>6. CASE CommitSweep
  BY <1>6, <1>a, <1>c DEF CommitSweep
<1>7. CASE StopDaemon
  BY <1>7 DEF StopDaemon, jobVars
<1> QED
  BY <1>a, <1>1, <1>2, <1>3, <1>4, <1>5, <1>6, <1>7, CoreCases

\* What a sweep remembers of a claim, for one claim.
Remembered(c) ==
  /\ c.by # None /\ instStatus[c.by] # "absent"
  /\ ~Changed(c) => attempts[c.job] = c.tries
  /\ c.tries < MaxAttempts =>
       /\ attempts[c.job] <= MaxAttempts
       /\ jobStatus[c.job] = "queued" => attempts[c.job] < MaxAttempts

\* Whatever happens while a sweep is in progress keeps what it remembers true.
LEMMA RememberedStays ==
  ASSUME IInv, [Next]_vars, ~CommitSweep, NEW c \in todo \cup orphans
  PROVE  Remembered(c)'
<1> USE DEF TypeOK, Claims
<1>a. TypeOK /\ SupervisorInv /\ ClaimInv /\ AttemptsInv /\ TypeOK'
  BY TypeStep DEF IInv
<1>b. c \in Claims /\ c.job \in Jobs /\ c.tries \in Nat
  BY <1>a
<1>c. Remembered(c)
  BY DEF IInv, ReadInv, Remembered
<1>d. c.by \in Instances
  BY <1>b, <1>c DEF Remembered
<1>e. Changed(c) => Changed(c)'
  BY <1>b, <1>c, ChangedStays DEF Remembered
<1>f. MaxAttempts \in Nat \ {0}
  BY BoundsAssumption
<1> USE DEF Remembered
<1>1. ASSUME NEW j \in Jobs, Enqueue(j) \/ ClaimDryRun(j) PROVE Remembered(c)'
  BY <1>1, <1>a, <1>b, <1>c, <1>d, <1>f
  DEF Enqueue, ClaimDryRun, NextInLine, Changed, instVars, AttemptsInv
<1>2. ASSUME NEW j \in Jobs, NEW i \in Instances, Claim(j, i) PROVE Remembered(c)'
  BY <1>2, <1>a, <1>b, <1>c, <1>d, <1>f DEF Claim, NextInLine, Fresh, Changed
<1>3. ASSUME NEW i \in Instances, Effect(i) PROVE Remembered(c)'
  BY <1>3, <1>a, <1>b, <1>c, <1>d, <1>e, <1>f DEF Effect
<1>4. CASE WriteKills \/ SweepRaises
  BY <1>4, <1>c DEF WriteKills, SweepRaises, jobVars, instVars, Changed
<1>5. CASE ExamineClaim \/ UNCHANGED coreVars
  BY <1>5, <1>b, <1>c DEF ExamineClaim, jobVars, instVars, coreVars, Changed
<1>7. CASE StopDaemon
  BY <1>7, <1>c DEF StopDaemon, jobVars, instVars, Changed
<1> QED
  BY <1>a, <1>1, <1>2, <1>3, <1>4, <1>5, <1>7, CoreCases

\* Every step keeps what a sweep remembers of the claims it read as true as it was:
\* the attempts of a claim that still stands, and the room left for another one.
LEMMA ReadStep ==
  ASSUME IInv, [Next]_vars
  PROVE  ReadInv'
<1>a. TypeOK /\ ClaimInv
  BY DEF IInv
<1> SUFFICES ASSUME NEW c \in todo' \cup orphans' PROVE Remembered(c)'
  BY DEF ReadInv, Remembered
<1>1. ASSUME c \in todo \cup orphans, ~CommitSweep PROVE Remembered(c)'
  BY <1>1, RememberedStays
<1>2. CASE CommitSweep
  BY <1>2 DEF CommitSweep, NoSweep
<1>3. CASE WriteKills /\ c \notin todo \cup orphans
  <2>1. PICK j \in Jobs : jobStatus[j] = "claimed" /\ c = Seen(j)
    BY <1>3 DEF WriteKills
  <2>2. /\ c.job = j /\ c.by = claimedBy[j] /\ c.tries = attempts[j]
        /\ UNCHANGED <<attempts, claimedBy, jobStatus, instStatus>>
    BY <1>3, <2>1 DEF Seen, WriteKills, jobVars, instVars
  <2>3. claimedBy[j] # None /\ claimedBy[j] \in Instances /\ instStatus[claimedBy[j]] # "absent"
    BY <1>a, <2>1 DEF ClaimInv, TypeOK
  <2>4. attempts[j] \in Nat /\ MaxAttempts \in Nat
    BY <1>a, BoundsAssumption DEF TypeOK
  <2> QED
    BY <2>1, <2>2, <2>3, <2>4 DEF Remembered
<1>4. CASE ~WriteKills
  <2>1. todo' \cup orphans' \subseteq todo \cup orphans \/ CommitSweep
    <3>1. CASE UNCHANGED <<todo, orphans>>
      BY <3>1
    <3>2. CASE ExamineClaim
      BY <3>2 DEF ExamineClaim
    <3>3. CASE StopDaemon \/ SweepRaises
      BY <3>3 DEF StopDaemon, SweepRaises, NoSweep
    <3> QED
      BY <1>4, <1>a, <3>1, <3>2, <3>3, CoreCases
      DEF IInv, Enqueue, ClaimDryRun, Claim, Effect, coreVars, sweepVars
  <2> QED
    BY <2>1, <1>1, <1>2
<1> QED
  BY <1>1, <1>2, <1>3, <1>4 DEF WriteKills, CommitSweep

\* A recovery in progress never concerns a claim whose supervisor is at work.
LEMMA OrphanStep ==
  ASSUME IInv, [Next]_vars
  PROVE  OrphanInv'
<1> USE DEF TypeOK, OrphanInv
<1>a. TypeOK /\ SupervisorInv /\ ClaimInv /\ OrphanInv /\ ReadInv
  BY DEF IInv
<1> SUFFICES ASSUME NEW c \in orphans', ~Changed(c)' PROVE ~Supervised(c.by)'
  OBVIOUS
<1>b. ASSUME c \in orphans PROVE c.by \in Instances /\ ~Supervised(c.by)
  <2>1. c \in Claims /\ c.by # None /\ instStatus[c.by] # "absent"
    BY <1>b, <1>a DEF ReadInv
  <2>2. ~Changed(c)
    BY <2>1, ChangedStays
  <2> QED
    BY <1>a, <1>b, <2>1, <2>2 DEF Claims
<1>c. ASSUME c \in orphans PROVE instStatus[c.by] # "absent"
  BY <1>a, <1>c DEF ReadInv
<1> USE DEF Supervised, Steps
<1>1. ASSUME NEW j \in Jobs, Enqueue(j) \/ ClaimDryRun(j) PROVE ~Supervised(c.by)'
  BY <1>1, <1>b DEF Enqueue, ClaimDryRun, supVars, sweepVars
<1>2. ASSUME NEW j \in Jobs, NEW i \in Instances, Claim(j, i) PROVE ~Supervised(c.by)'
  BY <1>2, <1>a, <1>b, <1>c DEF Claim, Fresh, Goto, sweepVars
<1>3. ASSUME NEW i \in Instances, Effect(i) PROVE ~Supervised(c.by)'
  BY <1>3, <1>a, <1>b DEF Effect
<1>4. CASE WriteKills \/ SweepRaises
  BY <1>4, <1>b DEF WriteKills, SweepRaises, NoSweep, supVars
<1>5. CASE ExamineClaim
  <2>1. UNCHANGED <<jobVars, instVars, supVars>>
    BY <1>5 DEF ExamineClaim
  <2>2. CASE c \in orphans
    BY <2>1, <2>2, <1>b DEF supVars
  <2>3. CASE c \notin orphans
    <3>1. c \in todo /\ Orphaned(c)
      BY <1>5, <2>3 DEF ExamineClaim
    <3>2. c \in Claims /\ c.by # None /\ c.job \in Jobs
      BY <1>a, <3>1 DEF ReadInv, Claims
    <3>3. jobStatus[c.job] = "claimed" /\ claimedBy[c.job] = c.by
      BY <2>1 DEF Changed, jobVars
    <3> QED
      BY <1>a, <2>1, <3>1, <3>2, <3>3 DEF Orphaned, ClaimInv, supVars
  <2> QED
    BY <2>2, <2>3
<1>6. CASE CommitSweep
  BY <1>6 DEF CommitSweep, NoSweep
<1>7. CASE StopDaemon
  BY <1>7 DEF StopDaemon, NoSweep
<1>8. CASE UNCHANGED coreVars
  BY <1>8, <1>b DEF coreVars
<1> QED
  BY <1>a, <1>1, <1>2, <1>3, <1>4, <1>5, <1>6, <1>7, <1>8, CoreCases

-----------------------------------------------------------------------------
(* Attempts *)

\* Every claim, requeue and recovery keeps the attempts within the limit.
LEMMA AttemptsStep ==
  ASSUME IInv, [Next]_vars
  PROVE  AttemptsInv'
<1> USE DEF TypeOK, AttemptsInv
<1>a. TypeOK /\ SupervisorInv /\ AttemptsInv /\ ReadInv
  BY DEF IInv
<1>b. MaxAttempts \in Nat \ {0}
  BY BoundsAssumption
<1>1. ASSUME NEW j \in Jobs, Enqueue(j) \/ ClaimDryRun(j) PROVE AttemptsInv'
  BY <1>1, <1>a, <1>b DEF Enqueue, ClaimDryRun, NextInLine, ghostVars
<1>2. ASSUME NEW j \in Jobs, NEW i \in Instances, Claim(j, i) PROVE AttemptsInv'
  BY <1>2, <1>a, <1>b DEF Claim, NextInLine, ghostVars
<1>3. ASSUME NEW i \in Instances, Effect(i) PROVE AttemptsInv'
  BY <1>3, <1>a, <1>b DEF Effect
<1>4. CASE WriteKills \/ SweepRaises
  BY <1>4, <1>a DEF WriteKills, SweepRaises, jobVars, ghostVars
<1>5. CASE ExamineClaim \/ UNCHANGED coreVars
  BY <1>5, <1>a DEF ExamineClaim, jobVars, ghostVars, coreVars
<1>6. CASE CommitSweep
  <2> SUFFICES ASSUME NEW j \in Jobs PROVE
        /\ \/ attempts'[j] <= MaxAttempts
           \/ j \in overwritten' /\ attempts'[j] = MaxAttempts + 1
        /\ jobStatus'[j] = "absent" => attempts'[j] = 0
        /\ jobStatus'[j] = "queued" =>
             \/ attempts'[j] < MaxAttempts
             \/ j \in overwritten' /\ attempts'[j] = MaxAttempts
    OBVIOUS
  <2>1. /\ attempts' = attempts
        /\ overwritten' = overwritten \cup {c.job : c \in {o \in orphans : Changed(o)}}
    BY <1>6 DEF CommitSweep
  <2>2. CASE jobStatus'[j] = jobStatus[j]
    BY <2>1, <2>2, <1>a
  <2>3. CASE jobStatus'[j] = "queued" /\ jobStatus[j] # "queued"
    <3>1. PICK c \in orphans : c.job = j /\ c.tries < MaxAttempts
      BY <1>6, <2>3 DEF CommitSweep
    <3>2. /\ attempts[j] <= MaxAttempts
          /\ ~Changed(c) => attempts[j] = c.tries
      BY <3>1, <1>a DEF ReadInv
    <3>3. attempts[j] \in Nat
      BY <1>a
    <3> QED
      BY <1>b, <2>1, <2>3, <3>1, <3>2, <3>3
  <2>4. CASE jobStatus'[j] = "failed"
    BY <2>1, <2>4, <1>a
  <2> QED
    BY <1>6, <2>2, <2>3, <2>4 DEF CommitSweep
<1>7. CASE StopDaemon
  BY <1>7, <1>a DEF StopDaemon, jobVars, ghostVars
<1> QED
  BY <1>a, <1>1, <1>2, <1>3, <1>4, <1>5, <1>6, <1>7, CoreCases

-----------------------------------------------------------------------------
(* Sessions, heartbeats and locks *)

\* Every way an instance ends, ends its session.
LEMMA SessionStep ==
  ASSUME IInv, [Next]_vars
  PROVE  SessionInv'
<1> USE DEF Supervised, Steps, TypeOK, SessionInv
<1>a. TypeOK /\ SupervisorInv /\ SessionInv
  BY DEF IInv
<1>b. TypeOK'
  BY <1>a, TypeStep
<1>1. ASSUME NEW j \in Jobs, Enqueue(j) \/ ClaimDryRun(j) PROVE SessionInv'
  BY <1>1, <1>a, <1>b DEF Enqueue, ClaimDryRun, instVars, lockVars, supVars, ghostVars
<1>2. ASSUME NEW j \in Jobs, NEW i \in Instances, Claim(j, i) PROVE SessionInv'
  BY <1>2, <1>a, <1>b DEF Claim, Fresh, Goto, lockVars, ghostVars
<1>3. ASSUME NEW i \in Instances, Supervise(i) PROVE SessionInv'
  <2>a. UNCHANGED ghostVars
    BY <1>3 DEF Supervise
  <2>1. CASE CreateWorktree(i)
    BY <2>1, <2>a, <1>a, <1>b DEF CreateWorktree, Goto, instVars, lockVars, ghostVars
  <2>2. CASE TryAcquireLocks(i)
    BY <2>2, <2>a, <1>a, <1>b DEF TryAcquireLocks, Goto, instVars, lockVars, ghostVars
  <2>3. CASE RequeueOnContention(i)
    BY <2>3, <2>a, <1>a, <1>b DEF RequeueOnContention, Return, Goto, lockVars, ghostVars
  <2>4. CASE StartAgent(i)
    BY <2>4, <2>a, <1>a, <1>b DEF StartAgent, Goto, lockVars, ghostVars
  <2>5. CASE \E status \in InstStatus : Settle(i, status)
    <3> SUFFICES ASSUME NEW k \in Instances, session'[k]
                 PROVE  instStatus'[k] = "running" /\ pc'[k] \in {"wait", "fail", "lost"}
      OBVIOUS
    <3>1. session[k] /\ k # i
      BY <2>5 DEF Settle, EndSessions
    <3> QED
      BY <2>5, <3>1, <1>a DEF Settle, Return, Goto
  <2>6. CASE StartMerge(i)
    BY <2>6, <2>a, <1>a, <1>b DEF StartMerge, Goto, lockVars, ghostVars
  <2>7. CASE FinishMerge(i)
    BY <2>7, <2>a, <1>a, <1>b DEF FinishMerge, Return, Goto, lockVars, ghostVars
  <2>8. CASE StepRaises(i)
    BY <2>8, <2>a, <1>a, <1>b DEF StepRaises, Goto, instVars, lockVars, ghostVars
  <2> QED
    BY <1>3, <2>1, <2>2, <2>3, <2>4, <2>5, <2>6, <2>7, <2>8
    DEF Supervise, Progress, FinalizeCompleted, HandleTransientExit, FinalizeFailed,
        FinalizeTimeout, InstStatus
<1>4. ASSUME NEW i \in Instances, Heartbeat(i) \/ ProcessExit(i) PROVE SessionInv'
  BY <1>4, <1>a, <1>b DEF Heartbeat, Beat, ProcessExit, instVars, lockVars, supVars, ghostVars
<1>5. CASE ReadStale \/ WriteKills \/ SweepRaises \/ EditRole
  BY <1>5, <1>a DEF ReadStale, WriteKills, SweepRaises, EditRole, instVars, supVars
<1>6. CASE ExamineClaim \/ StartDaemon \/ UNCHANGED vars
  BY <1>6, <1>a, <1>b DEF ExamineClaim, StartDaemon, vars, instVars, lockVars, supVars, ghostVars
<1>7. CASE CommitSweep
  BY <1>7, <1>a DEF CommitSweep, EndSessions, supVars
<1>8. CASE StopDaemon
  BY <1>8, <1>a, <1>b DEF StopDaemon, instVars, lockVars, ghostVars
<1>9. CASE Tick
  BY <1>9, <1>a, <1>b DEF Tick, Aged, MayWait, ghostVars
<1> QED
  BY <1>1, <1>2, <1>3, <1>4, <1>5, <1>6, <1>7, <1>8, <1>9 DEF Next, Sweep

\* A silent agent is never silent for longer than its timer runs.
LEMMA TimerStep ==
  ASSUME IInv, [Next]_vars
  PROVE  TimerInv'
<1> USE DEF Supervised, Steps, TypeOK, TimerInv
<1>a. TypeOK /\ SupervisorInv /\ TimerInv
  BY DEF IInv
<1>b. TypeOK'
  BY <1>a, TypeStep
<1>c. Limits \subseteq Nat \ {0}
  BY BoundsAssumption
<1>1. ASSUME NEW j \in Jobs, Enqueue(j) \/ ClaimDryRun(j) PROVE TimerInv'
  BY <1>1, <1>a, <1>b, <1>c DEF Enqueue, ClaimDryRun, instVars, lockVars, supVars, ghostVars
<1>2. ASSUME NEW j \in Jobs, NEW i \in Instances, Claim(j, i) PROVE TimerInv'
  <2>1. /\ pc[i] = "idle" /\ UNCHANGED <<beat, quiet, timer>>
        /\ pc' = [pc EXCEPT ![i] = "start"] /\ granted' = [granted EXCEPT ![i] = limit]
    BY <1>2, <1>a DEF Claim, Fresh, Goto, SupervisorInv
  <2> QED
    BY <2>1, <1>a, <1>c
<1>3. ASSUME NEW i \in Instances, Supervise(i) PROVE TimerInv'
  <2>a. UNCHANGED ghostVars
    BY <1>3 DEF Supervise
  <2>1. CASE CreateWorktree(i)
    BY <2>1, <2>a, <1>a, <1>b, <1>c DEF CreateWorktree, Goto, instVars, lockVars, ghostVars
  <2>2. CASE TryAcquireLocks(i)
    BY <2>2, <2>a, <1>a, <1>b, <1>c DEF TryAcquireLocks, Goto, instVars, lockVars, ghostVars
  <2>3. CASE RequeueOnContention(i)
    BY <2>3, <1>a, <1>b DEF RequeueOnContention, Return, Goto, ForgetBeats
  <2>4. CASE StartAgent(i)
    BY <2>4, <2>a, <1>a, <1>b, <1>c DEF StartAgent, Goto, lockVars, ghostVars
  <2>5. CASE \E status \in InstStatus : Settle(i, status)
    BY <2>5, <1>a, <1>b DEF Settle, Return, Goto, ForgetBeats
  <2>6. CASE StartMerge(i)
    BY <2>6, <2>a, <1>a, <1>b, <1>c DEF StartMerge, Goto, lockVars, ghostVars
  <2>7. CASE FinishMerge(i)
    BY <2>7, <1>a, <1>b DEF FinishMerge, Return, Goto, ForgetBeats
  <2>8. CASE StepRaises(i)
    BY <2>8, <2>a, <1>a, <1>b, <1>c DEF StepRaises, Goto, instVars, lockVars, ghostVars
  <2> QED
    BY <1>3, <2>1, <2>2, <2>3, <2>4, <2>5, <2>6, <2>7, <2>8
    DEF Supervise, Progress, FinalizeCompleted, HandleTransientExit, FinalizeFailed,
        FinalizeTimeout, InstStatus
<1>4. ASSUME NEW i \in Instances, Heartbeat(i) \/ ProcessExit(i) PROVE TimerInv'
  BY <1>4, <1>a, <1>b, <1>c DEF Heartbeat, Beat, ProcessExit, instVars, lockVars, supVars, ghostVars
<1>5. CASE ReadStale \/ WriteKills \/ SweepRaises \/ EditRole
  BY <1>5, <1>a DEF ReadStale, WriteKills, SweepRaises, EditRole, instVars, supVars
<1>6. CASE ExamineClaim \/ StartDaemon \/ UNCHANGED vars
  BY <1>6, <1>a, <1>b, <1>c
  DEF ExamineClaim, StartDaemon, vars, instVars, lockVars, supVars, ghostVars
<1>7. CASE CommitSweep
  <2>1. /\ UNCHANGED supVars
        /\ \A i \in Instances : Supervised(i) => beat'[i] = beat[i] /\ quiet'[i] = quiet[i]
    BY <1>7, <1>a DEF CommitSweep, ForgetBeats
  <2> QED
    BY <2>1, <1>a, <1>b, <1>c DEF supVars
<1>8. CASE StopDaemon
  BY <1>8, <1>a, <1>b, <1>c DEF StopDaemon, instVars, lockVars, ghostVars
<1>9. CASE Tick
  <2> SUFFICES ASSUME NEW i \in Instances
               PROVE  /\ IF pc'[i] = "wait"
                           THEN beat'[i] /\ quiet'[i] <= timer'[i] /\ timer'[i] <= granted'[i]
                           ELSE timer'[i] = 0
                      /\ Supervised(i)' => granted'[i] \in Limits
    OBVIOUS
  <2>1. UNCHANGED <<pc, beat, granted>>
    BY <1>9 DEF Tick
  <2>2. timer'[i] = IF pc[i] = "wait" THEN timer[i] + 1 ELSE timer[i]
    BY <1>9 DEF Tick
  <2>3. quiet'[i] <= quiet[i] + 1
    BY <1>9, <1>a DEF Tick, Aged
  <2>4. pc[i] = "wait" => timer[i] < granted[i]
    BY <1>9 DEF Tick, MayWait
  <2>5. quiet[i] \in Nat /\ quiet'[i] \in Nat /\ timer[i] \in Nat /\ granted[i] \in Nat
    BY <1>a, <1>b
  <2> QED
    BY <2>1, <2>2, <2>3, <2>4, <2>5, <1>a
<1> QED
  BY <1>1, <1>2, <1>3, <1>4, <1>5, <1>6, <1>7, <1>8, <1>9 DEF Next, Sweep

\* How a supervisor moves: it touches its own instance only, is never back at an
\* earlier step than StartAgent, and keeps what it was granted until it returns.
LEMMA SuperviseMoves ==
  ASSUME TypeOK, NEW i \in Instances, Supervise(i)
  PROVE  /\ \A k \in Instances \ {i} :
              UNCHANGED <<pc[k], granted[k], beat[k], proc[k]>>
         /\ pc[i] \in Started => pc'[i] \in Started \ {"wait"}
         /\ pc'[i] # "done" => granted'[i] = granted[i]
         /\ beat'[i] \/ proc'[i] # "none" =>
              pc'[i] \in Started \/ beat[i] \/ proc[i] # "none"
<1> USE DEF TypeOK, Started, Steps
<1>1. CASE CreateWorktree(i)
  BY <1>1 DEF CreateWorktree, Goto, instVars
<1>2. CASE TryAcquireLocks(i)
  BY <1>2 DEF TryAcquireLocks, Goto, instVars
<1>3. CASE StartAgent(i)
  BY <1>3 DEF StartAgent, Goto
<1>4. CASE StartMerge(i)
  BY <1>4 DEF StartMerge, Goto
<1>5. CASE Return(i) /\ proc' = proc
  BY <1>5 DEF Return, Goto, ForgetBeats
<1>6. CASE Return(i) /\ Reaped(i)
  BY <1>6 DEF Return, Goto, ForgetBeats, Reaped
<1>7. CASE Return(i) /\ proc' = [proc EXCEPT ![i] = "none"]
  BY <1>7 DEF Return, Goto, ForgetBeats
<1>8. CASE StepRaises(i)
  BY <1>8 DEF StepRaises, Goto, Reaped, instVars
<1> QED
  BY <1>1, <1>2, <1>3, <1>4, <1>5, <1>6, <1>7, <1>8
  DEF Supervise, Progress, RequeueOnContention, FinalizeCompleted, HandleTransientExit,
      FinalizeFailed, FinalizeTimeout, FinishMerge, Settle

\* Nothing sends a heartbeat, and no subprocess runs, before StartAgent.
LEMMA BeatStep ==
  ASSUME IInv, [Next]_vars
  PROVE  BeatInv'
<1> USE DEF BeatInv
<1>a. TypeOK /\ SupervisorInv /\ BeatInv
  BY DEF IInv
<1>1. ASSUME NEW j \in Jobs, Enqueue(j) \/ ClaimDryRun(j) PROVE BeatInv'
  BY <1>1, <1>a DEF Enqueue, ClaimDryRun, instVars, supVars
<1>2. ASSUME NEW j \in Jobs, NEW i \in Instances, Claim(j, i) PROVE BeatInv'
  <2>1. pc[i] = "idle" /\ UNCHANGED <<beat, proc>> /\ pc' = [pc EXCEPT ![i] = "start"]
    BY <1>2, <1>a DEF Claim, Fresh, Goto, SupervisorInv
  <2> QED
    BY <2>1, <1>a DEF TypeOK, Started
<1>3. ASSUME NEW i \in Instances, Supervise(i) PROVE BeatInv'
  <2>1. \A k \in Instances \ {i} : UNCHANGED <<pc[k], granted[k], beat[k], proc[k]>>
    BY <1>a, <1>3, SuperviseMoves
  <2>2. /\ pc[i] \in Started => pc'[i] \in Started
        /\ beat'[i] \/ proc'[i] # "none" =>
             pc'[i] \in Started \/ beat[i] \/ proc[i] # "none"
    BY <1>a, <1>3, SuperviseMoves
  <2>3. (beat'[i] \/ proc'[i] # "none") => pc'[i] \in Started
    BY <2>2, <1>a
  <2>4. ASSUME NEW k \in Instances \ {i}
        PROVE  (beat'[k] \/ proc'[k] # "none") => pc'[k] \in Started
    BY <2>1, <2>4, <1>a
  <2> QED
    BY <2>3, <2>4
<1>4. ASSUME NEW i \in Instances, Heartbeat(i) \/ ProcessExit(i) PROVE BeatInv'
  <2>1. pc' = pc /\ proc[i] = "running" /\ pc[i] \in Started
    BY <1>4, <1>a DEF Heartbeat, ProcessExit, supVars
  <2>2. ASSUME NEW k \in Instances \ {i} PROVE UNCHANGED <<beat[k], proc[k]>>
    BY <1>4, <1>a DEF Heartbeat, Beat, ProcessExit, instVars, supVars, TypeOK
  <2>3. ASSUME NEW k \in Instances, beat'[k] \/ proc'[k] # "none" PROVE pc'[k] \in Started
    BY <2>1, <2>2, <2>3, <1>a
  <2> QED
    BY <2>3
<1>5. CASE ReadStale \/ WriteKills \/ ExamineClaim \/ SweepRaises \/ EditRole
  BY <1>5, <1>a
  DEF ReadStale, WriteKills, ExamineClaim, SweepRaises, EditRole, instVars, supVars
<1>6. CASE CommitSweep
  <2>1. UNCHANGED supVars /\ \A i \in Instances : beat'[i] => beat[i]
    BY <1>6 DEF CommitSweep, ForgetBeats
  <2> QED
    BY <2>1, <1>a DEF supVars
<1>7. CASE StopDaemon
  BY <1>7, <1>a DEF StopDaemon, instVars, Started, TypeOK
<1>8. CASE StartDaemon \/ Tick \/ UNCHANGED vars
  BY <1>8, <1>a DEF StartDaemon, Tick, vars, instVars, supVars
<1> QED
  BY <1>1, <1>2, <1>3, <1>4, <1>5, <1>6, <1>7, <1>8 DEF Next, Sweep

\* The watchdog takes an instance that has sent a heartbeat for dead only when its
\* supervisor waits no more or the limit was cut to half of what it was granted.
LEMMA VerdictStep ==
  ASSUME IInv, [Next]_vars
  PROVE  VerdictInv'
<1> USE DEF VerdictInv
<1>a. TypeOK /\ SupervisorInv /\ TimerInv /\ BeatInv /\ VerdictInv
  BY DEF IInv
<1>b. dead \subseteq Verdicts
  BY <1>a DEF TypeOK
<1> SUFFICES ASSUME NEW d \in dead' PROVE Condemned(d)'
  OBVIOUS
<1>c. ASSUME d \in dead PROVE d.inst \in Instances /\ Condemned(d)
  BY <1>a, <1>b, <1>c DEF Verdicts
<1> USE DEF Condemned
<1>1. ASSUME NEW j \in Jobs, Enqueue(j) \/ ClaimDryRun(j) PROVE Condemned(d)'
  BY <1>1, <1>c DEF Enqueue, ClaimDryRun, instVars, supVars, sweepVars
<1>2. ASSUME NEW j \in Jobs, NEW i \in Instances, Claim(j, i) PROVE Condemned(d)'
  <2>1. d \in dead /\ d.inst # i
    BY <1>2, <1>c DEF Claim, Fresh, sweepVars
  <2> QED
    BY <2>1, <1>2, <1>c DEF Claim, Goto
<1>3. ASSUME NEW i \in Instances, Supervise(i) PROVE Condemned(d)'
  <2>1. d \in dead
    BY <1>3 DEF Supervise, sweepVars
  <2>2. Effect(i)
    BY <1>3, <1>a, SuperviseEffect
  <2>3. instStatus'[d.inst] # "absent"
    BY <2>1, <2>2, <1>a, <1>c DEF Effect, TypeOK
  <2>4. CASE d.inst = i
    <3>1. pc[i] \in Started => pc'[i] \in Started \ {"wait"}
      BY <1>a, <1>3, SuperviseMoves
    <3> QED
      BY <2>1, <2>3, <2>4, <3>1, <1>c
  <2>5. CASE d.inst # i
    <3>1. UNCHANGED <<pc[d.inst], granted[d.inst]>>
      BY <1>a, <1>3, <2>1, <2>5, <1>c, SuperviseMoves
    <3> QED
      BY <2>1, <2>3, <3>1, <1>c
  <2> QED
    BY <2>4, <2>5
<1>4. ASSUME NEW i \in Instances, Heartbeat(i) \/ ProcessExit(i) PROVE Condemned(d)'
  BY <1>4, <1>c DEF Heartbeat, Beat, ProcessExit, instVars, supVars, sweepVars
<1>5. CASE ReadStale
  <2>1. PICK i \in Instances : Stale(i) /\ d = [inst |-> i, beat |-> beat[i], limit |-> limit]
    BY <1>5 DEF ReadStale
  <2>2. instStatus'[i] # "absent" /\ UNCHANGED <<pc, granted>>
    BY <1>5, <2>1 DEF ReadStale, Stale, Live, instVars, supVars
  <2>3. beat[i] => pc[i] \in Started
    BY <1>a DEF BeatInv
  <2>4. ASSUME beat[i], pc[i] = "wait" PROVE 2 * limit <= granted[i]
    <3>1. quiet[i] <= timer[i] /\ timer[i] <= granted[i] /\ quiet[i] >= AtLeastFloor(2 * limit)
      BY <1>a, <2>1, <2>4 DEF TimerInv, Stale, Grace
    <3>2. quiet[i] \in Nat /\ timer[i] \in Nat /\ granted[i] \in Nat /\ limit \in Nat
      BY <1>a, BoundsAssumption DEF TypeOK
    <3>3. StaleFloor \in Nat
      BY BoundsAssumption
    <3> QED
      BY <3>1, <3>2, <3>3 DEF AtLeastFloor
  <2> QED
    BY <2>1, <2>2, <2>3, <2>4
<1>6. CASE WriteKills \/ ExamineClaim \/ EditRole
  BY <1>6, <1>c DEF WriteKills, ExamineClaim, EditRole, instVars, supVars, sweepVars
<1>7. CASE CommitSweep \/ SweepRaises \/ StopDaemon
  BY <1>7 DEF CommitSweep, SweepRaises, StopDaemon, NoSweep
<1>8. CASE StartDaemon \/ Tick \/ UNCHANGED vars
  BY <1>8, <1>c DEF StartDaemon, Tick, vars, instVars, supVars, sweepVars
<1> QED
  BY <1>1, <1>2, <1>3, <1>4, <1>5, <1>6, <1>7, <1>8 DEF Next, Sweep

\* Until the sweep commits, the keys it frees stay with the instances it kills: these
\* wait for their rows, and whoever wants the key waits for the lock's.
LEMMA FreedStep ==
  ASSUME IInv, [Next]_vars
  PROVE  FreedInv'
<1> USE DEF FreedInv
<1>a. TypeOK /\ SupervisorInv /\ FreedInv
  BY DEF IInv
<1>b. freed \subseteq Keys
  BY <1>a DEF TypeOK
<1>c. ASSUME UNCHANGED <<sweeping, dead>> PROVE LockedInstances' = LockedInstances
  BY <1>c DEF LockedInstances
<1>d. ASSUME UNCHANGED <<sweepVars, holder>> PROVE FreedInv'
  BY <1>a, <1>c, <1>d DEF sweepVars
<1>1. ASSUME NEW j \in Jobs, Enqueue(j) \/ ClaimDryRun(j) PROVE FreedInv'
  BY <1>1, <1>d DEF Enqueue, ClaimDryRun, lockVars
<1>2. ASSUME NEW j \in Jobs, NEW i \in Instances, Claim(j, i) PROVE FreedInv'
  BY <1>2, <1>d DEF Claim, lockVars
<1>3. ASSUME NEW i \in Instances, Supervise(i) PROVE FreedInv'
  <2>a. UNCHANGED sweepVars
    BY <1>3 DEF Supervise
  <2>1. CASE UNCHANGED holder
    BY <2>a, <2>1, <1>d
  <2>2. CASE TryAcquireLocks(i) /\ ~UNCHANGED holder
    <3>1. holder' = [holder EXCEPT ![KeyOf[instJob[i]]] = i] /\ KeyOf[instJob[i]] \notin freed
      BY <2>2 DEF TryAcquireLocks, lockVars
    <3> QED
      BY <2>a, <3>1, <1>a, <1>b, <1>c DEF sweepVars, TypeOK
  <2>3. CASE i \notin LockedInstances /\ \E status \in InstStatus : Settle(i, status)
    <3>1. holder' = [k \in Keys |-> IF holder[k] = i THEN None ELSE holder[k]]
      BY <2>3 DEF Settle, FreeLocks, HeldBy
    <3> QED
      BY <2>a, <2>3, <3>1, <1>a, <1>b, <1>c DEF sweepVars
  <2> QED
    BY <1>3, <2>1, <2>2, <2>3
    DEF Supervise, Progress, CreateWorktree, RequeueOnContention, StartAgent, StartMerge,
        FinalizeCompleted, HandleTransientExit, FinalizeFailed, FinalizeTimeout, FinishMerge,
        StepRaises, InstStatus, lockVars
<1>4. ASSUME NEW i \in Instances, Heartbeat(i) \/ ProcessExit(i) PROVE FreedInv'
  BY <1>4, <1>d DEF Heartbeat, ProcessExit, lockVars
<1>5. CASE ReadStale
  <2>1. freed = {}
    BY <1>5, <1>a DEF ReadStale, LockedInstances
  <2> QED
    BY <1>5, <2>1 DEF ReadStale
<1>6. CASE WriteKills
  BY <1>6 DEF WriteKills, HeldBy, LockedInstances, lockVars
<1>7. CASE ExamineClaim
  BY <1>7, <1>a, <1>c DEF ExamineClaim, lockVars
<1>8. CASE CommitSweep \/ SweepRaises \/ StopDaemon
  BY <1>8 DEF CommitSweep, SweepRaises, StopDaemon, NoSweep
<1>9. CASE EditRole \/ StartDaemon \/ Tick \/ UNCHANGED vars
  BY <1>9, <1>d DEF EditRole, StartDaemon, Tick, vars, lockVars
<1> QED
  BY <1>1, <1>2, <1>3, <1>4, <1>5, <1>6, <1>7, <1>8, <1>9 DEF Next, Sweep

\* A lock stays with its holder until the holder is reaped, its timer is due or it
\* settles.
LEMMA LockStep ==
  ASSUME IInv, [Next]_vars
  PROVE  LockInv'
<1> USE DEF Supervised, Steps, TypeOK, LockInv, Guarded, Editing
<1>a. TypeOK /\ SupervisorInv /\ TimerInv /\ FreedInv /\ LockInv
  BY DEF IInv
<1>b. TypeOK'
  BY <1>a, TypeStep
<1>c. /\ Limits \subseteq Nat \ {0} /\ None \notin Instances /\ KeyOf \in [Jobs -> Keys]
      /\ SlowSteps \subseteq {"start", "wait", "merging", "sweep"}
  BY BoundsAssumption, JobsAssumption
<1>1. ASSUME NEW j \in Jobs, Enqueue(j) \/ ClaimDryRun(j) PROVE LockInv'
  BY <1>1, <1>a, <1>b, <1>c DEF Enqueue, ClaimDryRun, instVars, lockVars, supVars, ghostVars
<1>2. ASSUME NEW j \in Jobs, NEW i \in Instances, Claim(j, i) PROVE LockInv'
  BY <1>2, <1>a, <1>b, <1>c DEF Claim, Fresh, Goto, lockVars, ghostVars
<1>3. ASSUME NEW i \in Instances, Supervise(i) PROVE LockInv'
  <2>a. UNCHANGED ghostVars
    BY <1>3 DEF Supervise
  <2>1. CASE CreateWorktree(i)
    BY <2>1, <2>a, <1>a, <1>b, <1>c DEF CreateWorktree, Goto, instVars, lockVars, ghostVars
  <2>2. CASE TryAcquireLocks(i)
    <3> SUFFICES ASSUME NEW e \in Instances \ reaped PROVE Guarded(e)'
      BY <2>a DEF ghostVars
    <3>1. UNCHANGED <<instJob, granted, timer>> /\ Guarded(e)
      BY <2>2, <1>a DEF TryAcquireLocks, instVars
    <3>2. CASE UNCHANGED lockVars /\ pc'[i] = "contend"
      BY <2>2, <3>1, <3>2, <1>a DEF TryAcquireLocks, Goto, lockVars
    <3> DEFINE k == KeyOf[instJob[i]]
    <3>3. CASE /\ holder[k] = None
               /\ holder' = [holder EXCEPT ![k] = i]
               /\ lockAge' = [lockAge EXCEPT ![k] = 0]
               /\ pc' = [pc EXCEPT ![i] = "mark"]
      <4>1. k \in Keys
        BY <2>2, <1>a, <1>c DEF TryAcquireLocks, SupervisorInv
      <4>2. CASE e = i
        BY <3>1, <3>3, <4>1, <4>2, <1>a
      <4>3. CASE e # i
        BY <3>1, <3>3, <4>1, <4>3, <1>a, <1>c
      <4> QED
        BY <4>2, <4>3
    <3> QED
      BY <2>2, <3>2, <3>3, <1>a DEF TryAcquireLocks, Goto
  <2>3. CASE RequeueOnContention(i)
    BY <2>3, <2>a, <1>a, <1>b, <1>c DEF RequeueOnContention, Return, Goto, lockVars, ghostVars
  <2>4. CASE StartAgent(i)
    BY <2>4, <2>a, <1>a, <1>b, <1>c DEF StartAgent, Goto, lockVars, ghostVars
  <2>5. CASE \E status \in InstStatus : Settle(i, status)
    <3> SUFFICES ASSUME NEW e \in Instances \ reaped PROVE Guarded(e)'
      BY <2>a DEF ghostVars
    <3>1. /\ UNCHANGED instJob /\ Guarded(e)
          /\ pc' = [pc EXCEPT ![i] = "done"] /\ timer' = [timer EXCEPT ![i] = 0]
          /\ granted' = [granted EXCEPT ![i] = 0]
          /\ holder' = [k \in Keys |-> IF holder[k] = i THEN None ELSE holder[k]]
          /\ lockAge' = [k \in Keys |-> IF holder[k] = i THEN 0 ELSE lockAge[k]]
      BY <2>5, <1>a DEF Settle, FreeLocks, HeldBy, Return, Goto
    <3>2. pc[e] # "idle" => KeyOf[instJob[e]] \in Keys
      BY <1>a, <1>c DEF SupervisorInv
    <3> QED
      BY <3>1, <3>2, <1>a
  <2>6. CASE StartMerge(i)
    BY <2>6, <2>a, <1>a, <1>b, <1>c DEF StartMerge, Goto, lockVars, ghostVars
  <2>7. CASE FinishMerge(i)
    BY <2>7, <2>a, <1>a, <1>b, <1>c DEF FinishMerge, Return, Goto, lockVars, ghostVars
  <2>8. CASE StepRaises(i)
    BY <2>8, <2>a, <1>a, <1>b, <1>c DEF StepRaises, Goto, instVars, lockVars, ghostVars
  <2> QED
    BY <1>3, <2>1, <2>2, <2>3, <2>4, <2>5, <2>6, <2>7, <2>8
    DEF Supervise, Progress, FinalizeCompleted, HandleTransientExit, FinalizeFailed,
        FinalizeTimeout, InstStatus
<1>4. ASSUME NEW i \in Instances, Heartbeat(i) \/ ProcessExit(i) PROVE LockInv'
  BY <1>4, <1>a, <1>b, <1>c DEF Heartbeat, Beat, ProcessExit, instVars, lockVars, supVars, ghostVars
<1>5. CASE ReadStale \/ WriteKills \/ SweepRaises \/ EditRole
  BY <1>5, <1>a
  DEF ReadStale, WriteKills, SweepRaises, EditRole, instVars, lockVars, supVars, ghostVars
<1>6. CASE ExamineClaim \/ StartDaemon \/ UNCHANGED vars
  BY <1>6, <1>a, <1>b, <1>c
  DEF ExamineClaim, StartDaemon, vars, instVars, lockVars, supVars, ghostVars
<1>7. CASE CommitSweep
  <2> SUFFICES ASSUME NEW e \in Instances \ reaped' PROVE Guarded(e)'
    OBVIOUS
  <2>1. /\ UNCHANGED <<instJob, pc, granted, timer>>
        /\ e \notin reaped /\ e \notin LockedInstances
    BY <1>7 DEF CommitSweep, supVars
  <2>2. Guarded(e) /\ (pc[e] # "idle" => KeyOf[instJob[e]] \in Keys)
    BY <2>1, <1>a, <1>c DEF SupervisorInv
  <2>3. Supervised(e) => granted[e] \in Nat \ {0}
    BY <1>a, <1>c DEF TimerInv
  <2>4. ASSUME NEW k \in Keys, holder[k] = e, lockAge[k] < granted[e]
        PROVE  holder'[k] = e /\ lockAge'[k] = lockAge[k]
    <3>1. k \notin freed \cup Expired
      BY <2>1, <2>4, <1>a DEF FreedInv, Expired
    <3> QED
      BY <1>7, <2>4, <3>1 DEF CommitSweep, FreeLocks
  <2> QED
    BY <2>1, <2>2, <2>3, <2>4, <1>a, <1>b
<1>8. CASE StopDaemon
  BY <1>8, <1>a, <1>b, <1>c DEF StopDaemon, instVars, lockVars, ghostVars
<1>9. CASE Tick
  <2> SUFFICES ASSUME NEW e \in Instances \ reaped PROVE Guarded(e)'
    BY <1>9 DEF Tick, ghostVars
  <2>1. UNCHANGED <<instJob, holder, pc, granted>> /\ Guarded(e)
    BY <1>9, <1>a DEF Tick
  <2>2. pc[e] # "mark" /\ (pc[e] = "wait" => timer[e] < granted[e] /\ timer'[e] = timer[e] + 1)
    BY <1>9, <1>a, <1>c DEF Tick, MayWait
  <2>3. \A k \in Keys : lockAge'[k] \in Nat /\ lockAge'[k] <= lockAge[k] + 1
    BY <1>9, <1>a, <1>b DEF Tick, Aged
  <2>4. pc[e] # "idle" => KeyOf[instJob[e]] \in Keys
    BY <1>a, <1>c DEF SupervisorInv
  <2> QED
    BY <2>1, <2>2, <2>3, <2>4, <1>a, <1>b, <1>c
<1> QED
  BY <1>1, <1>2, <1>3, <1>4, <1>5, <1>6, <1>7, <1>8, <1>9 DEF Next, Sweep

-----------------------------------------------------------------------------
(* The invariant, and what follows from it *)

\* The invariant holds of the empty tables.
LEMMA InitIInv == Init => IInv
<1> SUFFICES ASSUME Init PROVE IInv
  OBVIOUS
<1>1. TypeOK
  BY TypeInit
<1>2. SupervisorInv /\ ClaimInv /\ OwnerInv /\ ReadInv /\ OrphanInv
  BY DEF Init, SupervisorInv, ClaimInv, OwnerInv, ReadInv, OrphanInv, Supervised, Steps
<1>3. AttemptsInv
  BY BoundsAssumption DEF Init, AttemptsInv
<1>4. SessionInv /\ TimerInv /\ BeatInv
  BY DEF Init, SessionInv, TimerInv, BeatInv, Supervised, Steps
<1>5. VerdictInv /\ FreedInv /\ LockInv
  BY DEF Init, VerdictInv, FreedInv, LockInv, Guarded, Editing
<1> QED
  BY <1>1, <1>2, <1>3, <1>4, <1>5 DEF IInv

\* The invariant is inductive.
LEMMA StepIInv == IInv /\ [Next]_vars => IInv'
<1> SUFFICES ASSUME IInv, [Next]_vars PROVE IInv'
  OBVIOUS
<1>1. TypeOK'
  BY TypeStep DEF IInv
<1> QED
  BY <1>1, ClaimStep, OwnerStep, ReadStep, OrphanStep, AttemptsStep, SessionStep,
     TimerStep, BeatStep, VerdictStep, FreedStep, LockStep
  DEF IInv

\* IInv holds in every reachable state.
THEOREM Invariance == Spec => []IInv
  BY InitIInv, StepIInv, PTL DEF Spec

\* Every variable keeps its type in every behaviour of the daemon.
THEOREM TypeCorrect == Spec => []TypeOK
<1>1. IInv => TypeOK
  BY DEF IInv
<1> QED
  BY <1>1, Invariance, PTL

\* Two supervisors never work on one job, unless a sweep requeued the job from a
\* stale read (queue.py:3-5).
THEOREM JobsExclusive == Spec => []OneSupervisorPerJob
<1>1. IInv => OneSupervisorPerJob
  BY DEF IInv, OwnerInv, OneSupervisorPerJob
<1> QED
  BY <1>1, Invariance, PTL

\* No combination of requeue paths begins a job more than MaxAttempts times, or once
\* more after a recovery from a stale read.
THEOREM AttemptsLimited == Spec => []AttemptsBounded
<1>1. IInv => AttemptsBounded
  BY BoundsAssumption DEF IInv, AttemptsInv, AttemptsBounded, TypeOK
<1> QED
  BY <1>1, Invariance, PTL

\* An open agent session belongs to a RUNNING instance.
THEOREM SessionsClosed == Spec => []SessionOpenOnlyWhileRunning
<1>1. IInv => SessionOpenOnlyWhileRunning
  BY DEF IInv, SessionInv, SessionOpenOnlyWhileRunning
<1> QED
  BY <1>1, Invariance, PTL

\* Supervised agents within their time limit, not reaped, never share a key.
THEOREM EditorsExclusive == Spec => []OneEditorPerKey
<1>1. IInv => OneEditorPerKey
  BY DEF IInv, LockInv, Guarded, OneEditorPerKey
<1> QED
  BY <1>1, Invariance, PTL

\* An instance whose supervisor waits for its subprocess is reaped only if the sweep
\* read it before its first heartbeat, or with half of its limit or less: twice the
\* limit it was given is longer than any agent can be silent.
THEOREM SilentAgentsSpared == Spec => WaitingNeverReaped
<1>1. ASSUME IInv, [Next]_vars, NEW i \in reaped' \ reaped, pc[i] = "wait"
      PROVE  \E d \in dead : /\ d.inst = i
                             /\ ~d.beat \/ 2 * d.limit <= granted[i]
  <2>1. CASE CommitSweep
    <3>1. i \in LockedInstances
      BY <1>1, <2>1 DEF CommitSweep
    <3>2. PICK d \in dead : d.inst = i
      BY <3>1 DEF LockedInstances
    <3>3. Condemned(d)
      BY <1>1 DEF IInv, VerdictInv
    <3> QED
      BY <1>1, <3>2, <3>3 DEF Condemned
  <2>2. CASE ~CommitSweep
    BY <1>1, <2>2, CoreCases
    DEF IInv, Enqueue, ClaimDryRun, Claim, Effect, WriteKills, ExamineClaim, SweepRaises,
        StopDaemon, coreVars, ghostVars
  <2> QED
    BY <2>1, <2>2
<1>2. IInv /\ [Next]_vars =>
        [\A i \in reaped' \ reaped :
           pc[i] = "wait" => \E d \in dead : /\ d.inst = i
                                             /\ ~d.beat \/ 2 * d.limit <= granted[i]]_vars
  BY <1>1
<1> QED
  BY <1>2, Invariance, PTL DEF Spec, WaitingNeverReaped

\* A settled job changes only through a supervisor whose instance was reaped under
\* it, or through a recovery from a stale read.
THEOREM SettledStays == Spec => SettledStaysSettled
<1>1. ASSUME IInv, [Next]_vars, NEW j \in Jobs, jobStatus[j] \in Terminal,
             jobStatus'[j] # jobStatus[j]
      PROVE  claimedBy[j] \in reaped \/ j \in overwritten'
  <2> USE DEF Terminal
  <2>a. TypeOK /\ SupervisorInv /\ OwnerInv
    BY <1>1 DEF IInv
  <2>1. CASE \/ \E k \in Jobs : Enqueue(k) \/ ClaimDryRun(k)
             \/ \E k \in Jobs, i \in Instances : Claim(k, i)
    BY <1>1, <2>1, <2>a DEF Enqueue, ClaimDryRun, Claim, NextInLine, TypeOK
  <2>2. ASSUME NEW i \in Instances, Effect(i)
        PROVE  claimedBy[j] \in reaped \/ j \in overwritten'
    <3>1. instJob[i] = j /\ Supervised(i) /\ overwritten' = overwritten
      BY <1>1, <2>2, <2>a DEF Effect, TypeOK
    <3> QED
      BY <1>1, <3>1, <2>a DEF OwnerInv
  <2>3. CASE WriteKills \/ SweepRaises
    BY <1>1, <2>3 DEF WriteKills, SweepRaises, jobVars
  <2>4. CASE CommitSweep
    <3>1. PICK c \in orphans : c.job = j
      BY <1>1, <2>4 DEF CommitSweep, LockedJobs
    <3>2. Changed(c)
      BY <1>1, <3>1 DEF Changed
    <3> QED
      BY <2>4, <3>1, <3>2 DEF CommitSweep
  <2>5. CASE ExamineClaim \/ StopDaemon \/ UNCHANGED coreVars
    BY <1>1, <2>5 DEF ExamineClaim, StopDaemon, coreVars, jobVars
  <2> QED
    BY <1>1, <2>a, <2>1, <2>2, <2>3, <2>4, <2>5, CoreCases
<1>2. IInv /\ [Next]_vars =>
        [\A j \in Jobs : (jobStatus[j] \in Terminal /\ jobStatus'[j] # jobStatus[j])
                            => (claimedBy[j] \in reaped \/ j \in overwritten')]_vars
  BY <1>1
<1> QED
  BY <1>2, Invariance, PTL DEF Spec, SettledStaysSettled

-----------------------------------------------------------------------------
(* As long as a sweep's reads and writes are isolated from other commits,        *)
(* nothing but an agent takes time and the role's limit is never cut to half,    *)
(* the orchestrator implements the abstract queue of JobQueue.                   *)

\* The three conditions on the environment.
Ideal ==
  /\ IsolatedSweep
  /\ SlowSteps \subseteq {"wait"}
  /\ \A longer, shorter \in Limits : longer < 2 * shorter

-----------------------------------------------------------------------------
(* The invariant under these conditions *)

\* An instance exists from its claim on.
IdleInv ==
  \A i \in Instances :
    pc[i] = "idle" => instStatus[i] = "absent" /\ quiet[i] = 0 /\ i \notin reaped

\* A supervisor's instance is never reaped: it has just been claimed, or has sent a
\* heartbeat less than the limit it was granted ago.
Heard(i) == quiet[i] = 0 \/ (beat[i] /\ quiet[i] <= granted[i])

FreshInv == \A i \in Instances : Supervised(i) => i \notin reaped /\ Heard(i)

\* What a sweep read still holds when it writes.
SweepInv ==
  /\ \A c \in todo \cup orphans : ~Changed(c)
  /\ \A d \in dead : ~Supervised(d.inst)
  /\ sweeping = "no" => dead = {} /\ todo = {} /\ orphans = {}
  /\ overwritten = {}

IdealInv == IInv /\ IdleInv /\ FreshInv /\ SweepInv

\* The strengthened invariant holds of the empty tables.
LEMMA IdealInit == Init => IdealInv
<1> SUFFICES ASSUME Init PROVE IdealInv
  OBVIOUS
<1>1. IdleInv /\ FreshInv /\ SweepInv
  BY DEF Init, IdleInv, FreshInv, SweepInv, Supervised, Steps, Heard
<1> QED
  BY <1>1, InitIInv DEF IdealInv

\* The watchdog finds no supervised instance stale.
LEMMA SupervisedNotStale ==
  ASSUME Ideal, IdealInv, NEW i \in Instances, Supervised(i)
  PROVE  ~Stale(i)
<1>1. quiet[i] \in Nat /\ StaleFloor \in Nat \ {0}
  BY BoundsAssumption DEF IdealInv, IInv, TypeOK
<1>2. quiet[i] = 0 \/ (beat[i] /\ quiet[i] <= granted[i])
  BY DEF IdealInv, FreshInv, Heard
<1>3. granted[i] \in Limits /\ limit \in Limits /\ Limits \subseteq Nat \ {0}
  BY BoundsAssumption DEF IdealInv, IInv, TypeOK, TimerInv
<1>4. granted[i] < 2 * limit
  BY <1>3 DEF Ideal
<1>5. ~(quiet[i] >= Grace(i))
  BY <1>1, <1>2, <1>3, <1>4 DEF Grace, AtLeastFloor
<1> QED
  BY <1>5 DEF Stale

\* Every step leaves an instance id that no claim has used yet without a row.
LEMMA IdleStep ==
  ASSUME Ideal, IdealInv, [Next]_vars
  PROVE  IdleInv'
<1> USE DEF IdleInv, Supervised, Steps, TypeOK
<1>a. TypeOK /\ SupervisorInv /\ VerdictInv /\ IdleInv
  BY DEF IdealInv, IInv
<1>1. ASSUME NEW j \in Jobs, Enqueue(j) \/ ClaimDryRun(j) PROVE IdleInv'
  BY <1>1, <1>a DEF Enqueue, ClaimDryRun, instVars, supVars, ghostVars
<1>2. ASSUME NEW j \in Jobs, NEW i \in Instances, Claim(j, i) PROVE IdleInv'
  BY <1>2, <1>a DEF Claim, Goto, ghostVars
<1>3. ASSUME NEW i \in Instances, Supervise(i) PROVE IdleInv'
  <2>1. Effect(i)
    BY <1>3, <1>a, SuperviseEffect
  <2>2. pc[i] # "idle" /\ pc'[i] # "idle" /\ reaped' = reaped
    BY <2>1, <1>a DEF Effect
  <2>3. \A k \in Instances \ {i} : UNCHANGED <<pc[k], instStatus[k]>>
    BY <2>1, <1>a DEF Effect
  <2>4. \A k \in Instances \ {i} : quiet'[k] = quiet[k]
    BY <1>3, <1>a
    DEF Supervise, Progress, CreateWorktree, TryAcquireLocks, RequeueOnContention, StartAgent,
        FinalizeCompleted, HandleTransientExit, FinalizeFailed, FinalizeTimeout, StartMerge,
        FinishMerge, StepRaises, Settle, Return, ForgetBeats, instVars
  <2> QED
    BY <2>2, <2>3, <2>4, <1>a
<1>4. ASSUME NEW i \in Instances, Heartbeat(i) \/ ProcessExit(i) PROVE IdleInv'
  BY <1>4, <1>a DEF Heartbeat, Beat, ProcessExit, instVars, supVars, ghostVars, Live
<1>5. CASE CommitSweep
  <2>1. /\ UNCHANGED pc /\ reaped' = reaped \cup LockedInstances
        /\ \A i \in Instances : quiet'[i] = 0 \/ quiet'[i] = quiet[i]
        /\ \A i \in Instances : i \notin LockedInstances => instStatus'[i] = instStatus[i]
    BY <1>5 DEF CommitSweep, ForgetBeats, supVars
  <2>2. \A i \in LockedInstances : instStatus[i] # "absent"
    BY <1>a DEF LockedInstances, VerdictInv, Condemned
  <2> QED
    BY <2>1, <2>2, <1>a
<1>6. CASE ReadStale \/ WriteKills \/ ExamineClaim \/ SweepRaises \/ EditRole
           \/ StartDaemon \/ UNCHANGED vars
  BY <1>6, <1>a
  DEF ReadStale, WriteKills, ExamineClaim, SweepRaises, EditRole, StartDaemon, vars, instVars,
      supVars, ghostVars
<1>7. CASE StopDaemon
  BY <1>7, <1>a DEF StopDaemon, instVars, ghostVars
<1>8. CASE Tick
  BY <1>8, <1>a DEF Tick, Live, ghostVars
<1> QED
  BY <1>1, <1>2, <1>3, <1>4, <1>5, <1>6, <1>7, <1>8 DEF Next, Sweep

\* An instance that has just been given a heartbeat or created is not silent.
LEMMA HeardNow ==
  ASSUME NEW i \in Instances, quiet'[i] = 0
  PROVE  Heard(i)'
  BY DEF Heard

\* Every step keeps the instances with a supervisor unreaped and heard of lately.
LEMMA FreshStep ==
  ASSUME Ideal, IdealInv, [Next]_vars
  PROVE  FreshInv'
<1> USE DEF Supervised, Steps
<1>a. TypeOK /\ SupervisorInv /\ IdleInv
  BY DEF IdealInv, IInv
<1>b. pc \in [Instances -> Steps \cup {"idle", "done", "lost"}]
  BY <1>a DEF TypeOK
<1> SUFFICES ASSUME NEW k \in Instances, Supervised(k)'
             PROVE  k \notin reaped' /\ Heard(k)'
  BY DEF FreshInv
<1>c. Supervised(k) => k \notin reaped /\ Heard(k)
  BY DEF IdealInv, FreshInv
<1>0. ASSUME Supervised(k), UNCHANGED <<reaped, beat[k], quiet[k], granted[k]>>
      PROVE  k \notin reaped' /\ Heard(k)'
  BY <1>0, <1>c DEF Heard
<1>1. ASSUME NEW j \in Jobs, Enqueue(j) \/ ClaimDryRun(j) PROVE k \notin reaped' /\ Heard(k)'
  BY <1>1, <1>0 DEF Enqueue, ClaimDryRun, instVars, supVars, ghostVars
<1>2. ASSUME NEW j \in Jobs, NEW i \in Instances, Claim(j, i)
      PROVE  k \notin reaped' /\ Heard(k)'
  <2>1. UNCHANGED <<beat, quiet, reaped>> /\ pc' = [pc EXCEPT ![i] = "start"]
    BY <1>2 DEF Claim, Goto, ghostVars
  <2>2. pc[i] = "idle"
    BY <1>2, <1>a, <1>b DEF Claim, Fresh, SupervisorInv
  <2>3. quiet[i] = 0 /\ i \notin reaped
    BY <1>a, <2>2 DEF IdleInv
  <2>4. CASE k = i
    <3>1. quiet'[k] = 0 /\ k \notin reaped'
      BY <2>1, <2>3, <2>4
    <3> QED
      BY <3>1, HeardNow
  <2>5. CASE k # i
    BY <2>1, <2>5, <1>0, <1>2, <1>a DEF Claim, TypeOK
  <2> QED
    BY <2>4, <2>5
<1>3. ASSUME NEW i \in Instances, Supervise(i) PROVE k \notin reaped' /\ Heard(k)'
  <2>1. UNCHANGED reaped
    BY <1>3 DEF Supervise, ghostVars
  <2>2. CASE CreateWorktree(i) \/ TryAcquireLocks(i) \/ StartMerge(i) \/ StepRaises(i)
    BY <2>1, <2>2, <1>0, <1>b
    DEF CreateWorktree, TryAcquireLocks, StartMerge, StepRaises, Goto, instVars
  <2>3. CASE StartAgent(i) /\ k = i
    <3>1. quiet'[k] = 0 /\ Supervised(k)
      BY <2>3, <1>a DEF StartAgent, TypeOK
    <3> QED
      BY <3>1, <2>1, <1>c, HeardNow
  <2>4. CASE StartAgent(i) /\ k # i
    BY <2>1, <2>4, <1>0, <1>a, <1>b DEF StartAgent, Goto, TypeOK
  <2>5. CASE Return(i)
    BY <2>1, <2>5, <1>0, <1>a, <1>b DEF Return, Goto, ForgetBeats, TypeOK
  <2> QED
    BY <1>3, <2>2, <2>3, <2>4, <2>5
    DEF Supervise, Progress, RequeueOnContention, FinalizeCompleted, HandleTransientExit,
        FinalizeFailed, FinalizeTimeout, FinishMerge, Settle
<1>4. ASSUME NEW i \in Instances, Heartbeat(i) PROVE k \notin reaped' /\ Heard(k)'
  <2>1. UNCHANGED <<pc, granted, reaped>>
    BY <1>4 DEF Heartbeat, Beat, supVars, ghostVars
  <2>2. quiet'[k] = 0 \/ UNCHANGED <<beat[k], quiet[k]>>
    BY <1>4, <1>a DEF Heartbeat, Beat, TypeOK
  <2>3. CASE quiet'[k] = 0
    BY <2>1, <2>3, <1>c, HeardNow
  <2> QED
    BY <2>1, <2>2, <2>3, <1>0
<1>5. ASSUME NEW i \in Instances, ProcessExit(i) PROVE k \notin reaped' /\ Heard(k)'
  BY <1>5, <1>0 DEF ProcessExit, instVars, ghostVars
<1>6. CASE CommitSweep
  <2>1. Supervised(k) /\ UNCHANGED granted /\ reaped' = reaped \cup LockedInstances
    BY <1>6 DEF CommitSweep, supVars
  <2>2. k \notin LockedInstances
    BY <2>1 DEF LockedInstances, IdealInv, SweepInv
  <2>3. beat'[k] = beat[k] /\ quiet'[k] = quiet[k]
    BY <1>6, <1>a, <2>2 DEF CommitSweep, ForgetBeats, TypeOK
  <2> QED
    BY <2>1, <2>2, <2>3, <1>c DEF Heard
<1>7. CASE ReadStale \/ WriteKills \/ ExamineClaim \/ SweepRaises \/ EditRole
           \/ StartDaemon \/ UNCHANGED vars
  BY <1>7, <1>0
  DEF ReadStale, WriteKills, ExamineClaim, SweepRaises, EditRole, StartDaemon, vars, instVars,
      supVars, ghostVars
<1>8. CASE StopDaemon
  BY <1>8 DEF StopDaemon
<1>9. CASE Tick
  <2>1. pc[k] = "wait" /\ pc'[k] = "wait" /\ UNCHANGED reaped
    BY <1>9 DEF Tick, MayWait, Ideal, ghostVars
  <2>2. TimerInv' /\ TypeOK'
    BY TimerStep, TypeStep DEF IdealInv, IInv
  <2>3. beat'[k] /\ quiet'[k] <= timer'[k] /\ timer'[k] <= granted'[k]
    BY <2>1, <2>2 DEF TimerInv
  <2>4. quiet'[k] \in Nat /\ timer'[k] \in Nat /\ granted'[k] \in Nat
    BY <2>2 DEF TypeOK
  <2> QED
    BY <2>1, <2>3, <2>4, <1>c DEF Heard
<1> QED
  BY <1>1, <1>2, <1>3, <1>4, <1>5, <1>6, <1>7, <1>8, <1>9 DEF Next, Sweep

\* With isolated sweeps nothing changes a claim between its reading and its recovery,
\* and no instance that was taken for dead has a supervisor.
LEMMA SweepStep ==
  ASSUME Ideal, IdealInv, [Next]_vars
  PROVE  SweepInv'
<1> USE DEF SweepInv, Changed, TypeOK, Claims
<1>a. TypeOK /\ SupervisorInv /\ SweepInv
  BY DEF IdealInv, IInv
<1>0. ASSUME UNCHANGED <<jobStatus, claimedBy, pc, sweeping, dead, todo, orphans, overwritten>>
      PROVE  SweepInv'
  BY <1>0, <1>a DEF Supervised
<1>1. CASE /\ sweeping = "no"
           /\ UNCHANGED <<sweeping, dead, todo, orphans, overwritten>>
  BY <1>1, <1>a
<1>2. CASE ReadStale
  <2>1. \A d \in dead' : ~Supervised(d.inst)
    BY <1>2, SupervisedNotStale DEF ReadStale
  <2> QED
    BY <1>2, <2>1, <1>a DEF ReadStale, Supervised, jobVars, supVars, ghostVars
<1>3. CASE WriteKills
  <2>1. \A c \in todo' \cup orphans' : ~Changed(c)
    BY <1>3, <1>a DEF WriteKills, Seen
  <2> QED
    BY <1>3, <2>1, <1>a DEF WriteKills, Supervised, jobVars, supVars, ghostVars
<1>4. CASE ExamineClaim
  BY <1>4, <1>a DEF ExamineClaim, Supervised, jobVars, supVars, ghostVars
<1>5. CASE CommitSweep \/ SweepRaises \/ StopDaemon
  BY <1>5, <1>a DEF CommitSweep, SweepRaises, StopDaemon, NoSweep, ghostVars
<1>6. ASSUME NEW j \in Jobs, Enqueue(j) PROVE SweepInv'
  BY <1>6, <1>a DEF Enqueue, Supervised, supVars, sweepVars, ghostVars
<1>7. ASSUME NEW i \in Instances, Heartbeat(i) \/ ProcessExit(i) PROVE SweepInv'
  BY <1>7, <1>0 DEF Heartbeat, Beat, ProcessExit, jobVars, supVars, sweepVars, ghostVars
<1>8. CASE EditRole \/ StartDaemon \/ Tick \/ UNCHANGED vars
  BY <1>8, <1>0 DEF EditRole, StartDaemon, Tick, vars, jobVars, supVars, sweepVars, ghostVars
<1>9. ASSUME Undisturbed,
             \/ \E j \in Jobs : ClaimDryRun(j)
             \/ \E j \in Jobs, i \in Instances : Claim(j, i)
             \/ \E i \in Instances : Supervise(i)
      PROVE  SweepInv'
  BY <1>9, <1>1
  DEF Undisturbed, Ideal, ClaimDryRun, Claim, Supervise, sweepVars, ghostVars
<1> QED
  BY <1>2, <1>3, <1>4, <1>5, <1>6, <1>7, <1>8, <1>9 DEF Next, Sweep

\* The strengthened invariant is inductive.
LEMMA IdealStep == Ideal /\ IdealInv /\ [Next]_vars => IdealInv'
<1>1. Ideal /\ IdealInv /\ [Next]_vars => IInv'
  BY StepIInv DEF IdealInv
<1> QED
  BY <1>1, IdleStep, FreshStep, SweepStep DEF IdealInv

-----------------------------------------------------------------------------
(* The simulation *)

\* A supervised instance holds its job.
LEMMA SupervisedHolds ==
  ASSUME IdealInv, NEW i \in Instances, Supervised(i)
  PROVE  /\ instJob[i] \in Jobs
         /\ jobStatus[instJob[i]] = "claimed"
         /\ claimedBy[instJob[i]] = i
  BY DEF IdealInv, IInv, SupervisorInv, OwnerInv, FreshInv, SweepInv, Supervised, Steps

\* The abstract variables.
qState  == [j \in Jobs |-> JobState(j)]
qWorker == [j \in Jobs |-> IF jobStatus[j] = "claimed" THEN claimedBy[j] ELSE None]
qActive == {i \in Instances : Supervised(i)}
qUsed   == {i \in Instances : instStatus[i] # "absent"}

\* Nothing the queue shows changes.
LEMMA Stutter ==
  ASSUME UNCHANGED coreVars
  PROVE  UNCHANGED Queue!vars
  BY DEF coreVars, Queue!vars, JobState, Supervised

\* A job added to the table is handed in to the queue.
LEMMA SimulateEnqueue ==
  ASSUME IdealInv, TypeOK', NEW j \in Jobs, Enqueue(j)
  PROVE  Queue!HandIn(j)
<1> USE DEF TypeOK
<1>a. TypeOK /\ TypeOK'
  BY DEF IdealInv, IInv
<1>1. UNCHANGED <<attempts, claimedBy, instStatus, pc>>
  BY DEF Enqueue, instVars, supVars
<1>2. jobStatus[j] = "absent" /\ jobStatus' = [jobStatus EXCEPT ![j] = "queued"]
  BY DEF Enqueue
<1>3. qState[j] = "absent"
  BY <1>2 DEF qState, JobState, Terminal
<1>4. qState' = [qState EXCEPT ![j] = "waiting"]
  BY <1>a, <1>2 DEF qState, JobState, Terminal
<1>5. qWorker' = qWorker
  BY <1>a, <1>1, <1>2 DEF qWorker
<1>6. qActive' = qActive /\ qUsed' = qUsed
  BY <1>1 DEF qActive, qUsed, Supervised
<1> QED
  BY <1>1, <1>3, <1>4, <1>5, <1>6
  DEF Queue!HandIn, qState, qWorker, qActive, qUsed

\* A claim takes the first job that waits.
LEMMA SimulateClaim ==
  ASSUME IdealInv, NEW j \in Jobs, NEW i \in Instances, Claim(j, i)
  PROVE  Queue!Take(j, i)
<1> USE DEF TypeOK
<1>a. TypeOK /\ SupervisorInv /\ AttemptsInv /\ overwritten = {}
  BY DEF IdealInv, IInv, SweepInv
<1>1. /\ jobStatus[j] = "queued" /\ instStatus[i] = "absent"
      /\ jobStatus' = [jobStatus EXCEPT ![j] = "claimed"]
      /\ attempts' = [attempts EXCEPT ![j] = @ + 1]
      /\ claimedBy' = [claimedBy EXCEPT ![j] = i]
      /\ instStatus' = [instStatus EXCEPT ![i] = "spawning"]
      /\ pc' = [pc EXCEPT ![i] = "start"]
  BY DEF Claim, NextInLine, Fresh, Goto
<1>2. qState[j] = "waiting" /\ qState' = [qState EXCEPT ![j] = "held"]
  BY <1>a, <1>1 DEF qState, JobState, Terminal
<1>3. attempts[j] < MaxAttempts
  BY <1>a, <1>1 DEF AttemptsInv
<1>4. qWorker' = [qWorker EXCEPT ![j] = i]
  BY <1>a, <1>1 DEF qWorker
<1>5. qActive' = qActive \cup {i}
  BY <1>a, <1>1 DEF qActive, Supervised, Steps
<1>6. i \notin qUsed /\ qUsed' = qUsed \cup {i}
  BY <1>a, <1>1 DEF qUsed
<1> QED
  BY <1>1, <1>2, <1>3, <1>4, <1>5, <1>6 DEF Queue!Take, qState, qWorker, qActive, qUsed

\* A dry-run claim skips the first job that waits.
LEMMA SimulateDryRun ==
  ASSUME IdealInv, NEW j \in Jobs, ClaimDryRun(j)
  PROVE  Queue!Skip(j)
<1> USE DEF TypeOK
<1>a. TypeOK /\ AttemptsInv /\ overwritten = {}
  BY DEF IdealInv, IInv, SweepInv
<1>1. /\ jobStatus[j] = "queued"
      /\ jobStatus' = [jobStatus EXCEPT ![j] = "cancelled"]
      /\ attempts' = [attempts EXCEPT ![j] = @ + 1]
      /\ UNCHANGED <<claimedBy, instStatus, pc>>
  BY DEF ClaimDryRun, NextInLine, instVars, supVars
<1>2. qState[j] = "waiting" /\ qState' = [qState EXCEPT ![j] = "over"]
  BY <1>a, <1>1 DEF qState, JobState, Terminal
<1>3. attempts[j] < MaxAttempts
  BY <1>a, <1>1 DEF AttemptsInv
<1>4. qWorker' = qWorker /\ qActive' = qActive /\ qUsed' = qUsed
  BY <1>a, <1>1 DEF qWorker, qActive, qUsed, Supervised
<1> QED
  BY <1>1, <1>2, <1>3, <1>4 DEF Queue!Skip, qState, qWorker, qActive, qUsed

\* A supervisor goes on, is lost, or finishes its job and stops.
LEMMA SimulateEffect ==
  ASSUME IdealInv, NEW i \in Instances, Effect(i)
  PROVE  \/ UNCHANGED Queue!vars
         \/ Queue!Die
         \/ \E j \in Jobs : Queue!Finish(j, i)
<1> USE DEF TypeOK
<1>a. TypeOK
  BY DEF IdealInv, IInv
<1>b. /\ instJob[i] \in Jobs
      /\ jobStatus[instJob[i]] = "claimed" /\ claimedBy[instJob[i]] = i
  BY SupervisedHolds DEF Effect
<1>c. None \notin Instances
  BY BoundsAssumption
<1>d. Supervised(i) /\ UNCHANGED attempts
  BY DEF Effect
<1>e. instStatus[i] # "absent" /\ qUsed' = qUsed
  <2>1. instStatus[i] # "absent"
    BY <1>a, <1>d DEF IdealInv, IInv, SupervisorInv, Supervised, Steps
  <2>2. PICK status \in InstStatus \ {"absent"} :
          instStatus' = [instStatus EXCEPT ![i] = status]
    BY DEF Effect
  <2> QED
    BY <1>a, <2>1, <2>2 DEF qUsed
<1>1. CASE UNCHANGED <<jobStatus, claimedBy>>
  <2>1. qState' = qState /\ qWorker' = qWorker
    BY <1>1 DEF qState, qWorker, JobState
  <2>2. PICK step \in Steps \cup {"done", "lost"} : pc' = [pc EXCEPT ![i] = step]
    BY DEF Effect
  <2>3. qActive' = qActive \/ qActive' = qActive \ {i}
    <3>1. CASE step \in Steps
      BY <1>a, <1>d, <2>2, <3>1 DEF qActive, Supervised
    <3>2. CASE step \notin Steps
      BY <1>a, <2>2, <3>2 DEF qActive, Supervised
    <3> QED
      BY <3>1, <3>2
  <2>4. CASE qActive' = qActive
    BY <1>d, <1>e, <2>1, <2>4 DEF Queue!vars, qState, qWorker, qActive, qUsed
  <2>5. CASE qActive' = qActive \ {i}
    <3>1. {i} \in SUBSET qActive
      BY <1>d DEF qActive
    <3> QED
      BY <1>d, <1>e, <2>1, <2>5, <3>1 DEF Queue!Die, qState, qWorker, qActive, qUsed
  <2> QED
    BY <2>3, <2>4, <2>5
<1>2. CASE ~UNCHANGED <<jobStatus, claimedBy>>
  <2> DEFINE j == instJob[i]
  <2>1. pc' = [pc EXCEPT ![i] = "done"]
    BY <1>2 DEF Effect
  <2>2. PICK status \in {"queued", "done", "failed"}, by \in {i, None} :
          /\ jobStatus' = [jobStatus EXCEPT ![j] = status]
          /\ claimedBy' = [claimedBy EXCEPT ![j] = by]
          /\ status = "queued" => attempts[j] < MaxAttempts
    BY <1>2 DEF Effect
  <2>3. qActive' = qActive \ {i} /\ i \in qActive
    BY <1>a, <1>d, <2>1 DEF qActive, Supervised, Steps
  <2>4. qState[j] = "held" /\ qWorker[j] = i
    BY <1>b DEF qState, qWorker, JobState, Terminal
  <2>5. qWorker' = [k \in Jobs |-> IF k \in {j} THEN None ELSE qWorker[k]]
    BY <1>a, <1>b, <2>2 DEF qWorker
  <2>6. CASE status = "queued"
    <3>1. qState' = [k \in Jobs |-> IF k \in {j} THEN "waiting" ELSE qState[k]]
      BY <1>a, <1>b, <2>2, <2>6 DEF qState, JobState, Terminal
    <3> QED
      BY <1>b, <1>d, <1>e, <2>2, <2>3, <2>4, <2>5, <2>6, <3>1
      DEF Queue!Finish, Queue!GiveUp, qState, qWorker, qActive, qUsed
  <2>7. CASE status # "queued"
    <3>1. qState' = [k \in Jobs |-> IF k \in {j} THEN "over" ELSE qState[k]]
      BY <1>a, <1>b, <2>2, <2>7 DEF qState, JobState, Terminal
    <3> QED
      BY <1>b, <1>d, <1>e, <2>2, <2>3, <2>4, <2>5, <3>1
      DEF Queue!Finish, Queue!GiveUp, qState, qWorker, qActive, qUsed
  <2> QED
    BY <2>6, <2>7
<1> QED
  BY <1>1, <1>2

\* The end of a sweep takes jobs only from instances without a supervisor: it fails
\* those of the dead and gives the orphans back or up.
LEMMA SimulateCommitSweep ==
  ASSUME IdealInv, CommitSweep
  PROVE  Queue!Recover
<1> USE DEF TypeOK
<1>a. TypeOK /\ ReadInv /\ OrphanInv /\ VerdictInv /\ SweepInv
  BY DEF IdealInv, IInv
<1> DEFINE again == {c.job : c \in {o \in orphans : o.tries < MaxAttempts}}
           given == {c.job : c \in {o \in orphans : o.tries >= MaxAttempts}}
           over  == (given \cup LockedJobs) \ again
<1>1. /\ jobStatus' = [j \in Jobs |-> IF j \in again THEN "queued"
                                      ELSE IF j \in over THEN "failed" ELSE jobStatus[j]]
      /\ claimedBy' = [j \in Jobs |-> IF j \in again THEN None ELSE claimedBy[j]]
      /\ UNCHANGED <<attempts, pc>>
      /\ instStatus' = [i \in Instances |->
                          IF i \in LockedInstances THEN "killed" ELSE instStatus[i]]
  BY DEF CommitSweep, supVars
<1>2. \A c \in orphans : /\ c.job \in Jobs /\ c.tries \in Nat
                         /\ jobStatus[c.job] = "claimed" /\ claimedBy[c.job] = c.by
                         /\ attempts[c.job] = c.tries /\ ~Supervised(c.by)
  BY <1>a DEF Claims, SweepInv, ReadInv, OrphanInv, Changed
<1>3. \A i \in LockedInstances : ~Supervised(i) /\ instStatus[i] # "absent"
  BY <1>a DEF LockedInstances, SweepInv, VerdictInv, Condemned
<1>4. \A j \in again \cup over : /\ j \in Jobs /\ jobStatus[j] = "claimed"
                               /\ ~Supervised(claimedBy[j])
  BY <1>2, <1>3 DEF LockedJobs
<1>5. \A j \in again \cup over : Queue!Lost(j)
  BY <1>4 DEF Queue!Lost, JobState, Terminal
<1>6. again \cap over = {} /\ (\A j \in again : attempts[j] < MaxAttempts)
  BY <1>2
<1> HIDE DEF over
<1>7. qState' = [j \in Jobs |-> IF j \in again THEN "waiting"
                                ELSE IF j \in over THEN "over" ELSE qState[j]]
  BY <1>1, <1>4 DEF qState, JobState, Terminal
<1>8. qWorker' = [j \in Jobs |-> IF j \in again \cup over THEN None ELSE qWorker[j]]
  BY <1>1, <1>4 DEF qWorker
<1>9. qActive' = qActive /\ qUsed' = qUsed
  BY <1>1, <1>3 DEF qActive, qUsed, Supervised
<1>10. Queue!GiveUp(again, over)
  BY <1>1, <1>7, <1>8, <1>9 DEF Queue!GiveUp, qState, qWorker, qUsed
<1>11. /\ again \in SUBSET {j \in Jobs : Queue!Lost(j)}
       /\ over \in SUBSET {j \in Jobs : Queue!Lost(j)}
  BY <1>4, <1>5
<1> HIDE DEF again, given
<1>12. UNCHANGED {i \in Instances : Supervised(i)}
  BY <1>9 DEF qActive
<1>13. \E back, gone \in SUBSET {j \in Jobs : Queue!Lost(j)} :
         /\ back \cap gone = {}
         /\ \A j \in back : attempts[j] < MaxAttempts
         /\ Queue!GiveUp(back, gone)
  BY <1>6, <1>10, <1>11 DEF Queue!GiveUp
<1> QED
  BY <1>12, <1>13 DEF Queue!Recover

\* When the daemon stops, every worker at work dies.
LEMMA SimulateStopDaemon ==
  ASSUME IdealInv, StopDaemon
  PROVE  Queue!Die
<1>a. pc \in [Instances -> Steps \cup {"idle", "done", "lost"}]
  BY DEF IdealInv, IInv, TypeOK
<1>1. UNCHANGED <<jobStatus, attempts, claimedBy, instStatus>>
  BY DEF StopDaemon, jobVars, instVars
<1>2. qActive' = qActive \ qActive
  BY <1>a DEF StopDaemon, qActive, Supervised, Steps
<1>3. qState' = qState /\ qWorker' = qWorker /\ qUsed' = qUsed
  BY <1>1 DEF qState, qWorker, qUsed, JobState
<1> QED
  BY <1>1, <1>2, <1>3 DEF Queue!Die, qState, qWorker, qActive, qUsed

\* The empty tables are the empty queue.
LEMMA SimulateInit == Init => Queue!Init
<1> SUFFICES ASSUME Init PROVE Queue!Init
  OBVIOUS
<1>1. qState = [j \in Jobs |-> "absent"] /\ qWorker = [j \in Jobs |-> None]
  BY DEF Init, qState, qWorker, JobState, Terminal
<1>2. qActive = {} /\ qUsed = {}
  BY DEF Init, qActive, qUsed, Supervised, Steps
<1>3. attempts = [j \in Jobs |-> 0]
  BY DEF Init
<1> QED
  BY <1>1, <1>2, <1>3 DEF Queue!Init, qState, qWorker, qActive, qUsed

\* Every step of the orchestrator is a step of the queue or leaves it as it is.
LEMMA Simulation ==
  ASSUME Ideal, IdealInv, [Next]_vars
  PROVE  [Queue!Next]_(Queue!vars)
<1>a. TypeOK /\ TypeOK' /\ SupervisorInv
  BY TypeStep DEF IdealInv, IInv
<1>1. ASSUME NEW j \in Jobs, Enqueue(j) \/ ClaimDryRun(j) PROVE Queue!Next
  BY <1>1, <1>a, SimulateEnqueue, SimulateDryRun DEF Queue!Next
<1>2. ASSUME NEW j \in Jobs, NEW i \in Instances, Claim(j, i) PROVE Queue!Next
  BY <1>2, SimulateClaim DEF Queue!Next
<1>3. ASSUME NEW i \in Instances, Effect(i) PROVE Queue!Next \/ UNCHANGED Queue!vars
  BY <1>3, SimulateEffect DEF Queue!Next
<1>4. CASE CommitSweep \/ StopDaemon
  BY <1>4, SimulateCommitSweep, SimulateStopDaemon DEF Queue!Next
<1>5. CASE WriteKills \/ ExamineClaim \/ SweepRaises
  <2>1. UNCHANGED <<jobStatus, attempts, claimedBy, instStatus, pc>>
    BY <1>5 DEF WriteKills, ExamineClaim, SweepRaises, jobVars, instVars, supVars
  <2> QED
    BY <2>1 DEF Queue!vars, JobState, Supervised
<1>6. CASE UNCHANGED coreVars
  BY <1>6, Stutter
<1> QED
  BY <1>a, <1>1, <1>2, <1>3, <1>4, <1>5, <1>6, CoreCases

\* While sweeps are isolated, only agents take time and no limit is cut to half, the
\* orchestrator is the queue that JobQueue describes, whatever raises, crashes and
\* restarts.
THEOREM QueueImplemented == Ideal => (Spec => ImplementsQueue)
<1> SUFFICES ASSUME Ideal PROVE Spec => ImplementsQueue
  OBVIOUS
<1>1. Init => Queue!Init /\ IdealInv
  BY SimulateInit, IdealInit
<1>2. IdealInv /\ [Next]_vars => IdealInv'
  BY IdealStep
<1>3. IdealInv /\ [Next]_vars => [Queue!Next]_(Queue!vars)
  BY Simulation
<1> QED
  BY <1>1, <1>2, <1>3, PTL DEF Spec, ImplementsQueue, Queue!Spec

=============================================================================
