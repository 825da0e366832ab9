--------------------------------- MODULE Merge ---------------------------------
(***************************************************************************)
(* The merge stage of several tasks at once (merger.py): merge jobs that   *)
(* take no lock move one target branch, each from a worktree of its own,   *)
(* by compare-and-swap, then run deploy_command and write a Deployment.    *)
(* Beside them agents fork branches (worktree.py), humans push to the      *)
(* target branch, the daemon stops, and deploys outlive it.                *)
(*                                                                         *)
(* One action is one git command or one transaction.  The worktree add and *)
(* remove around a merge belong to the command before them: nothing else   *)
(* reads that worktree.  A commit is known by its sha, and stands for all  *)
(* that is reachable from it: it is the set of commits of its history,     *)
(* itself included.                                                        *)
(***************************************************************************)
EXTENDS Common, Integers

CONSTANTS
  JobsOf,     \* bound: merge jobs a task may get
  Attempts,   \* _CAS_ATTEMPTS
  MaxForks,   \* bound: branches an agent makes for a task
  MaxPushes,  \* bound: commits humans push to the target branch
  MaxFaults   \* bound: exceptions and stops of the daemon, and, counted by
              \* themselves, refusals of update-ref

\* The n-th merge job of task t is <<t, n>>.
Jobs == Tasks \X (1 .. JobsOf)
TaskOf(j) == j[1]

Makers   == Tasks \cup Jobs \cup {None}
Commits  == [by : Makers, n : Nat]
NoBranch == {}

\* Where the executor of a job stands: before rev-parse of the target, merge, and
\* update-ref; merged and not yet deploying; waiting for deploy_command; before its
\* final transaction.  "lost": its daemon stopped.
Running  == {"reading", "merging", "swapping", "merged", "deploying", "closing"}
Verdicts == {"refused", "error", "conflict", "cas_failed", "deploy_failed", "success"}

ASSUME MergeAssumption ==
  /\ None \notin Tasks \cup Jobs \cup Verdicts
  /\ JobsOf \in Nat
  /\ Attempts \in Nat \ {0}
  /\ MaxForks \in Nat
  /\ MaxPushes \in Nat
  /\ MaxFaults \in Nat

VARIABLES
  \* git
  target,     \* head of the target branch
  branch,     \* head of the branch of a task's last agent
  made,       \* number of commits made by each task, each executor and humans (None)
  \* tables
  source,     \* payload_json.parent_branch of a job: the head of that branch
  status,     \* "open", "blocked" or "done", of a task
  deployments,
  \* executors
  pc, try, old, new, verdict,
  tip,        \* what its deploy_command checked out
  command,    \* deploy_command was set
  \* the world
  live,       \* what is in production
  strays,     \* what deploys nobody waits for checked out
  \* bounds and history
  faults,
  moves,      \* number of times the target branch moved under the executor of a job
  denied,     \* number of times update-ref failed with the branch in place
  overlapped  \* two deploys were under way at once

gitVars   == <<target, branch, made>>
tableVars == <<source, status, deployments>>
execVars  == <<pc, try, old, new, verdict, tip, command>>
worldVars == <<live, strays, overlapped>>
countVars == <<faults, moves, denied>>
vars == <<gitVars, tableVars, execVars, worldVars, countVars>>

Init ==
  /\ target = {}
  /\ branch = [t \in Tasks |-> NoBranch]
  /\ made = [m \in Makers |-> 0]
  /\ source = [j \in Jobs |-> NoBranch]
  /\ status = [t \in Tasks |-> "open"]
  /\ deployments = {}
  /\ pc = [j \in Jobs |-> "absent"]
  /\ try = [j \in Jobs |-> 0]
  /\ old = [j \in Jobs |-> {}]
  /\ new = [j \in Jobs |-> {}]
  /\ verdict = [j \in Jobs |-> None]
  /\ tip = [j \in Jobs |-> {}]
  /\ command = [j \in Jobs |-> FALSE]
  /\ live = {}
  /\ strays = {}
  /\ faults = 0
  /\ moves = [j \in Jobs |-> 0]
  /\ denied = 0
  /\ overlapped = FALSE

-----------------------------------------------------------------------------
(* Branches *)

\* The next commit of a maker.
Commit(m) == [by |-> m, n |-> made[m] + 1]
Make(m) == made' = [made EXCEPT ![m] = @ + 1]

Move(head) ==
  /\ target' = head
  /\ moves' = [j \in Jobs |-> IF head # target /\ pc[j] \in Running
                                THEN moves[j] + 1 ELSE moves[j]]

\* create_worktree with the agent's commits: a new branch forks from the parent
\* branch of the job, or from HEAD, which is the target branch.
Fork(t) ==
  /\ made[t] < MaxForks
  /\ \E base \in {target, branch[t]} :
       branch' = [branch EXCEPT ![t] = base \cup {Commit(t)}]
  /\ Make(t)
  /\ UNCHANGED <<target, tableVars, execVars, worldVars, countVars>>

\* A human commits to the target branch.
Push ==
  /\ made[None] < MaxPushes
  /\ Move(target \cup {Commit(None)})
  /\ Make(None)
  /\ UNCHANGED <<branch, tableVars, execVars, worldVars, faults, denied>>

-----------------------------------------------------------------------------
(* Jobs *)

Goto(j, step) == pc' = [pc EXCEPT ![j] = step]
End(j, v) == verdict' = [verdict EXCEPT ![j] = v]

\* QA passes and hands over the branch it tested; or the API or the CLI adds the
\* job, without a branch.
Enqueue(j) ==
  /\ pc[j] = "absent"
  /\ \E head \in {branch[TaskOf(j)], NoBranch} : source' = [source EXCEPT ![j] = head]
  /\ Goto(j, "queued")
  /\ UNCHANGED <<gitVars, status, deployments, try, old, new, verdict, tip, command,
                 worldVars, countVars>>

\* The claim and _load_context.  Whether the transitions prove the review and QA is
\* Pipeline's part.
Start(j) ==
  /\ pc[j] = "queued"
  /\ \/ /\ source[j] # NoBranch
        /\ Goto(j, "reading")
        /\ UNCHANGED verdict
     \/ /\ Goto(j, "closing")
        /\ End(j, "refused")
  /\ try' = [try EXCEPT ![j] = 1]
  /\ UNCHANGED <<gitVars, tableVars, old, new, tip, command, worldVars, countVars>>

-----------------------------------------------------------------------------
(* _cas_merge *)

UnchangedByGit == UNCHANGED <<branch, tableVars, tip, command, worldVars, faults>>

\* rev-parse refs/heads/<target> and worktree add --detach; either may fail.
ReadTarget(j) ==
  /\ pc[j] = "reading"
  /\ \/ Goto(j, "merging") /\ UNCHANGED verdict
     \/ Goto(j, "closing") /\ End(j, "error")
  /\ old' = [old EXCEPT ![j] = target]
  /\ UnchangedByGit
  /\ UNCHANGED <<target, made, try, new, moves, denied>>

\* merge --no-ff and rev-parse HEAD: nothing to do if the branch is merged already,
\* else a new commit, or a conflict.
MergeSource(j) ==
  /\ pc[j] = "merging"
  /\ \/ /\ source[j] \subseteq old[j]
        /\ Goto(j, "swapping")
        /\ new' = [new EXCEPT ![j] = old[j]]
        /\ UNCHANGED <<made, verdict>>
     \/ /\ ~(source[j] \subseteq old[j])
        /\ Goto(j, "swapping")
        /\ new' = [new EXCEPT ![j] = old[j] \cup source[j] \cup {Commit(j)}]
        /\ Make(j)
        /\ UNCHANGED verdict
     \/ /\ Goto(j, "closing")
        /\ \E v \in {"conflict", "error"} : End(j, v)
        /\ UNCHANGED <<made, new>>
  /\ UnchangedByGit
  /\ UNCHANGED <<target, try, old, moves, denied>>

\* Mutant: the next attempt swaps against the sha read before the first.
RetryStale(j) ==
  \/ /\ try[j] < Attempts
     /\ Goto(j, "swapping")
     /\ try' = [try EXCEPT ![j] = @ + 1]
     /\ UNCHANGED verdict
  \/ /\ try[j] >= Attempts
     /\ Goto(j, "closing")
     /\ End(j, "cas_failed")
     /\ UNCHANGED try

\* The next attempt, from the fresh sha, if there is one left.
Retry(j) ==
  \/ /\ try[j] < Attempts
     /\ Goto(j, "reading")
     /\ try' = [try EXCEPT ![j] = @ + 1]
     /\ UNCHANGED verdict
  \/ /\ try[j] >= Attempts
     /\ Goto(j, "closing")
     /\ End(j, "cas_failed")
     /\ UNCHANGED try

\* Mutant: update-ref is not told the value the branch must have.
SwapWithoutOld(j) ==
  /\ pc[j] = "swapping"
  /\ Move(new[j])
  /\ Goto(j, "merged")
  /\ UnchangedByGit
  /\ UNCHANGED <<made, try, old, new, verdict, denied>>

\* update-ref <target> <new> <old>.  It may also fail for a reason of its own.
SwapTarget(j) ==
  /\ pc[j] = "swapping"
  /\ \/ /\ target = old[j]
        /\ Move(new[j])
        /\ Goto(j, "merged")
        /\ UNCHANGED <<try, verdict, denied>>
     \/ /\ target # old[j]
        /\ Retry(j)
        /\ UNCHANGED <<target, moves, denied>>
     \/ /\ target = old[j] /\ denied < MaxFaults
        /\ denied' = denied + 1
        /\ Retry(j)
        /\ UNCHANGED <<target, moves>>
  /\ UnchangedByGit
  /\ UNCHANGED <<made, old, new>>

-----------------------------------------------------------------------------
(* _run_deploy *)

Deploying == {j \in Jobs : pc[j] = "deploying"}

\* Without deploy_command the merge is all.  With it, the command first checks out
\* the target branch, as the module's docstring asks of it.
StartDeploy(j) ==
  /\ pc[j] = "merged"
  /\ \/ /\ command' = [command EXCEPT ![j] = FALSE]
        /\ Goto(j, "closing")
        /\ End(j, "success")
        /\ UNCHANGED <<tip, overlapped>>
     \/ /\ command' = [command EXCEPT ![j] = TRUE]
        /\ Goto(j, "deploying")
        /\ tip' = [tip EXCEPT ![j] = target]
        /\ overlapped' = (overlapped \/ Deploying # {} \/ strays # {})
        /\ UNCHANGED verdict
  /\ UNCHANGED <<gitVars, tableVars, try, old, new, live, strays, countVars>>

\* Mutant: the exit code of deploy_command is not looked at.
FinishDeployUnseen(j) ==
  /\ pc[j] = "deploying"
  /\ live' \in {tip[j], live}
  /\ strays' = strays
  /\ End(j, "success")
  /\ Goto(j, "closing")
  /\ UNCHANGED <<gitVars, tableVars, try, old, new, tip, command, overlapped, countVars>>

\* Exit code 0; another, by which time it may have had its effect or not; or a
\* timeout, when the shell is killed and what it started may go on.
FinishDeploy(j) ==
  /\ pc[j] = "deploying"
  /\ \/ /\ live' = tip[j]
        /\ End(j, "success")
        /\ UNCHANGED strays
     \/ /\ live' \in {tip[j], live}
        /\ strays' \in {strays, strays \cup {tip[j]}}
        /\ End(j, "deploy_failed")
  /\ Goto(j, "closing")
  /\ UNCHANGED <<gitVars, tableVars, try, old, new, tip, command, overlapped, countVars>>

\* A deploy that nobody waits for ends; there may be several of the same commit.
StrayEnds(head) ==
  /\ head \in strays
  /\ live' \in {head, live}
  /\ strays' \in {strays, strays \ {head}}
  /\ UNCHANGED <<gitVars, tableVars, execVars, overlapped, countVars>>

-----------------------------------------------------------------------------
(* Final transactions *)

Deployment(j) ==
  [task |-> TaskOf(j), source |-> source[j], commit |-> new[j], deployed |-> command[j]]

\* The executor is done with its job, and nothing of it is left.
Leave(j) ==
  /\ Goto(j, "over")
  /\ try' = [try EXCEPT ![j] = 0]
  /\ old' = [old EXCEPT ![j] = {}]
  /\ new' = [new EXCEPT ![j] = {}]
  /\ tip' = [tip EXCEPT ![j] = {}]
  /\ command' = [command EXCEPT ![j] = FALSE]
  /\ moves' = [moves EXCEPT ![j] = 0]
  /\ End(j, None)

\* _finalize_success
FinalizeSuccess(j) ==
  /\ pc[j] = "closing" /\ verdict[j] = "success"
  /\ deployments' = deployments \cup {Deployment(j)}
  /\ status' = [status EXCEPT ![TaskOf(j)] = "done"]
  /\ Leave(j)
  /\ UNCHANGED <<gitVars, source, worldVars, faults, denied>>

\* _finalize_blocked
FinalizeBlocked(j) ==
  /\ pc[j] = "closing" /\ verdict[j] # "success"
  /\ status' = [status EXCEPT ![TaskOf(j)] = "blocked"]
  /\ Leave(j)
  /\ UNCHANGED <<gitVars, source, deployments, worldVars, faults, denied>>

-----------------------------------------------------------------------------
(* Failures *)

\* The deploys of these executors go on without them, or end here.
Abandon(S) == \E going \in SUBSET {tip[j] : j \in S \cap Deploying} :
                strays' = strays \cup going

\* Any step raises: run_merge fails the job and leaves the task alone.
Raise(j) ==
  /\ pc[j] \in Running /\ faults < MaxFaults
  /\ faults' = faults + 1
  /\ Abandon({j})
  /\ Leave(j)
  /\ UNCHANGED <<gitVars, tableVars, live, overlapped, denied>>

\* The daemon stops, and every executor with it.
StopDaemon ==
  /\ faults < MaxFaults
  /\ faults' = faults + 1
  /\ Abandon(Jobs)
  /\ pc' = [j \in Jobs |-> IF pc[j] \in Running THEN "lost" ELSE pc[j]]
  /\ try' = [j \in Jobs |-> 0]
  /\ old' = [j \in Jobs |-> {}]
  /\ new' = [j \in Jobs |-> {}]
  /\ verdict' = [j \in Jobs |-> None]
  /\ tip' = [j \in Jobs |-> {}]
  /\ command' = [j \in Jobs |-> FALSE]
  /\ moves' = [j \in Jobs |-> 0]
  /\ UNCHANGED <<gitVars, tableVars, live, overlapped, denied>>

\* The watchdog of the next daemon fails the job, or puts it back.
Recover(j) ==
  /\ pc[j] = "lost"
  /\ \E next \in {"queued", "over"} : Goto(j, next)
  /\ UNCHANGED <<gitVars, tableVars, try, old, new, verdict, tip, command, worldVars,
                 countVars>>

-----------------------------------------------------------------------------
Next ==
  \/ Push
  \/ \E t \in Tasks : Fork(t)
  \/ \E j \in Jobs :
       \/ Enqueue(j) \/ Start(j) \/ ReadTarget(j) \/ MergeSource(j)
       \/ SwapTarget(j) \/ StartDeploy(j) \/ FinishDeploy(j)
       \/ FinalizeSuccess(j) \/ FinalizeBlocked(j) \/ Raise(j) \/ Recover(j)
  \/ \E head \in strays : StrayEnds(head)
  \/ StopDaemon

Spec == Init /\ [][Next]_vars

-----------------------------------------------------------------------------
(* Properties *)

\* Every variable stays within the values its column, branch or process can take.
TypeOK ==
  /\ target \in SUBSET Commits
  /\ branch \in [Tasks -> SUBSET Commits]
  /\ made \in [Makers -> Nat]
  /\ source \in [Jobs -> SUBSET Commits]
  /\ status \in [Tasks -> {"open", "blocked", "done"}]
  /\ deployments \subseteq [task : Tasks, source : SUBSET Commits,
                            commit : SUBSET Commits, deployed : BOOLEAN]
  /\ pc \in [Jobs -> Running \cup {"absent", "queued", "over", "lost"}]
  /\ try \in [Jobs -> Nat]
  /\ old \in [Jobs -> SUBSET Commits]
  /\ new \in [Jobs -> SUBSET Commits]
  /\ verdict \in [Jobs -> Verdicts \cup {None}]
  /\ tip \in [Jobs -> SUBSET Commits]
  /\ command \in [Jobs -> BOOLEAN]
  /\ live \in SUBSET Commits
  /\ strays \subseteq SUBSET Commits
  /\ faults \in Nat
  /\ moves \in [Jobs -> Nat]
  /\ denied \in Nat
  /\ overlapped \in BOOLEAN

\* "Concurrent merges can't stomp each other" (merger.py:15-16): whoever moves the
\* target branch, what was on it stays on it.
NothingStomped == [][target \subseteq target']_vars

\* A Deployment names a commit of the target branch that holds the whole branch QA
\* passed, a task is done only with one, and what was deployed is in production,
\* through crashes, retries and executors of one task or of several that overtake
\* each other, unless two deploys ran at once: no lock keeps them apart, and the one
\* that checked out first may end last.
DoneIsDelivered ==
  /\ \A t \in Tasks : status[t] = "done" => \E d \in deployments : d.task = t
  /\ \A d \in deployments :
       /\ d.source \subseteq d.commit
       /\ d.commit \subseteq target
       /\ d.deployed => (d.source \subseteq live \/ overlapped)

\* "Kept moving during {_CAS_ATTEMPTS} merge attempts" (merger.py:214): an executor
\* gives up only after the branch has moved that often under it, but for the
\* refusals of update-ref that had other reasons.
OvertakenBeforeGivingUp ==
  \A j \in Jobs : verdict[j] = "cas_failed" => moves[j] + denied >= Attempts

=============================================================================
