----------------------------- MODULE TasksProofs -----------------------------
(***************************************************************************)
(* How several tasks enter and leave the system at once, for every number  *)
(* of them.  The merge stage: nothing on the target branch is lost, what   *)
(* is done is delivered, and an executor gives up only after it was        *)
(* overtaken.  Admission: sweeps that do not see each other enqueue a task *)
(* no more often than they overlap.                                        *)
(***************************************************************************)
EXTENDS Merge, Admission, FiniteSetTheorems, SequenceTheorems, TLAPS

-----------------------------------------------------------------------------
(* Merge: the inductive invariant *)

\* The executor of j has moved the target branch.
HasMerged(j) ==
  \/ pc[j] \in {"merged", "deploying"}
  \/ pc[j] = "closing" /\ verdict[j] = "success"

\* The head update-ref is about to set holds the head it replaces and the branch QA
\* tested; once it is set, it is history of the target branch.
SwapInv ==
  \A j \in Jobs :
    /\ pc[j] = "swapping" => source[j] \cup old[j] \subseteq new[j]
    /\ HasMerged(j) => source[j] \subseteq new[j] /\ new[j] \subseteq target

\* The attempts that are over were each overtaken or refused, and so is the one under
\* way once the branch differs from the sha it read.
Overtaken(j) == pc[j] \in {"merging", "swapping"} /\ target # old[j]
TryInv ==
  \A j \in Jobs :
    /\ verdict[j] # None => pc[j] = "closing"
    /\ pc[j] \in {"reading", "merging", "swapping"} => moves[j] + denied >= try[j] - 1
    /\ Overtaken(j) => moves[j] + denied >= try[j]
    /\ verdict[j] = "cas_failed" => moves[j] + denied >= Attempts

\* What is in production or on its way was on the target branch.
TipInv ==
  /\ live \subseteq target
  /\ \A s \in strays : s \subseteq target
  /\ \A j \in Jobs :
       pc[j] = "deploying" => tip[j] \subseteq target /\ source[j] \subseteq tip[j]

\* Deploys that never overlapped follow each other: the one under way will not take
\* back what is in production.
OneDeployInv ==
  overlapped \/
    /\ \A j, k \in Deploying : j = k
    /\ Deploying # {} => strays = {}
    /\ \A s, r \in strays : s = r
    /\ \A j \in Deploying : live \subseteq tip[j]
    /\ \A s \in strays : live \subseteq s

\* A job that will record a deploy has its branch in production.
DeployedInv ==
  \A j \in Jobs :
    pc[j] = "closing" /\ verdict[j] = "success" /\ command[j]
      => source[j] \subseteq live \/ overlapped

MergeInv ==
  /\ TypeOK /\ SwapInv /\ TryInv /\ TipInv /\ OneDeployInv /\ DeployedInv
  /\ DoneIsDelivered

-----------------------------------------------------------------------------
(* Types *)

\* The next commit of a maker is a commit.
LEMMA CommitTyped == ASSUME TypeOK, NEW m \in Makers PROVE Commit(m) \in Commits
  BY DEF TypeOK, Commit, Commits

\* A job belongs to a task, and both make commits.
LEMMA JobsTyped == \A j \in Jobs : TaskOf(j) \in Tasks /\ j \in Makers
  BY DEF Jobs, TaskOf, Makers

\* The initial state is typed.
LEMMA TypeInit == Init => TypeOK
<1> SUFFICES ASSUME Init PROVE TypeOK
  OBVIOUS
<1>1. overlapped \in BOOLEAN /\ command \in [Jobs -> BOOLEAN]
  BY DEF Init
<1>2. deployments \subseteq [task : Tasks, source : SUBSET Commits,
                            commit : SUBSET Commits, deployed : BOOLEAN]
  BY DEF Init
<1> QED
  BY <1>1, <1>2 DEF Init, TypeOK, NoBranch

\* What an executor that leaves forgets.
LEMMA LeaveTyped ==
  ASSUME TypeOK, NEW j \in Jobs, Leave(j)
  PROVE  /\ pc' \in [Jobs -> Running \cup {"absent", "queued", "over", "lost"}]
         /\ try' \in [Jobs -> Nat] /\ moves' \in [Jobs -> Nat]
         /\ old' \in [Jobs -> SUBSET Commits] /\ new' \in [Jobs -> SUBSET Commits]
         /\ tip' \in [Jobs -> SUBSET Commits] /\ command' \in [Jobs -> BOOLEAN]
         /\ verdict' \in [Jobs -> Verdicts \cup {None}]
  BY DEF TypeOK, Leave, Goto, End

\* The target branch moves to another set of commits.
LEMMA MoveTyped ==
  ASSUME TypeOK, NEW head \in SUBSET Commits, Move(head)
  PROVE  target' \in SUBSET Commits /\ moves' \in [Jobs -> Nat]
  BY DEF TypeOK, Move

\* What deploys went on without their executor are checkouts.
LEMMA AbandonTyped ==
  ASSUME TypeOK, NEW S, S \subseteq Jobs, Abandon(S)
  PROVE  strays' \subseteq SUBSET Commits
  BY DEF TypeOK, Abandon, Deploying

\* Every step keeps the types.
LEMMA TypeStep == TypeOK /\ [Next]_vars => TypeOK'
<1> SUFFICES ASSUME TypeOK, [Next]_vars PROVE TypeOK'
  OBVIOUS
<1> USE DEF TypeOK, Goto, End, gitVars, tableVars, execVars, worldVars, countVars
<1>1. CASE Push
  <2>1. None \in Makers
    BY DEF Makers
  <2>2. target \cup {Commit(None)} \in SUBSET Commits
    BY <2>1, CommitTyped
  <2>3. target' \in SUBSET Commits /\ moves' \in [Jobs -> Nat]
    BY <1>1, <2>2, MoveTyped DEF Push
  <2>4. made' \in [Makers -> Nat]
    BY <1>1, <2>1 DEF Push, Make
  <2> QED
    BY <1>1, <2>3, <2>4 DEF Push
<1>2. ASSUME NEW t \in Tasks, Fork(t) PROVE TypeOK'
  <2>1. Commit(t) \in Commits
    BY CommitTyped DEF Makers
  <2>2. branch' \in [Tasks -> SUBSET Commits]
    BY <1>2, <2>1 DEF Fork
  <2>3. made' \in [Makers -> Nat]
    BY <1>2 DEF Fork, Make, Makers
  <2> QED
    BY <1>2, <2>2, <2>3 DEF Fork
<1>3. ASSUME NEW j \in Jobs, Enqueue(j) PROVE TypeOK'
  BY <1>3, JobsTyped DEF Enqueue, NoBranch
<1>4. ASSUME NEW j \in Jobs, Start(j) PROVE TypeOK'
  BY <1>4 DEF Start, Running, Verdicts
<1>5. ASSUME NEW j \in Jobs, ReadTarget(j) PROVE TypeOK'
  BY <1>5 DEF ReadTarget, UnchangedByGit, Running, Verdicts
<1>6. ASSUME NEW j \in Jobs, MergeSource(j) PROVE TypeOK'
  <2>1. Commit(j) \in Commits
    BY CommitTyped, JobsTyped
  <2>2. old[j] \cup source[j] \cup {Commit(j)} \in SUBSET Commits
    BY <2>1
  <2>3. new' \in [Jobs -> SUBSET Commits]
    BY <1>6, <2>2 DEF MergeSource
  <2>4. made' \in [Makers -> Nat]
    BY <1>6 DEF MergeSource, Make
  <2>5. pc' \in [Jobs -> Running \cup {"absent", "queued", "over", "lost"}]
    BY <1>6 DEF MergeSource, Running
  <2>6. verdict' \in [Jobs -> Verdicts \cup {None}]
    BY <1>6 DEF MergeSource, Verdicts
  <2> QED
    BY <1>6, <2>3, <2>4, <2>5, <2>6 DEF MergeSource, UnchangedByGit
<1>7. ASSUME NEW j \in Jobs, SwapTarget(j) PROVE TypeOK'
  <2>1. target' \in SUBSET Commits /\ moves' \in [Jobs -> Nat]
    <3>1. CASE Move(new[j])
      BY <3>1, MoveTyped
    <3>2. CASE UNCHANGED <<target, moves>>
      BY <3>2
    <3> QED
      BY <1>7, <3>1, <3>2 DEF SwapTarget
  <2>2. pc' \in [Jobs -> Running \cup {"absent", "queued", "over", "lost"}]
    BY <1>7 DEF SwapTarget, Retry, Running
  <2>3. verdict' \in [Jobs -> Verdicts \cup {None}]
    BY <1>7 DEF SwapTarget, Retry, Verdicts
  <2>4. try' \in [Jobs -> Nat] /\ denied' \in Nat
    BY <1>7 DEF SwapTarget, Retry
  <2> QED
    BY <1>7, <2>1, <2>2, <2>3, <2>4 DEF SwapTarget, UnchangedByGit
<1>8. ASSUME NEW j \in Jobs, StartDeploy(j) PROVE TypeOK'
  BY <1>8, ZenonT(30) DEF StartDeploy, Running, Verdicts
<1>9. ASSUME NEW j \in Jobs, FinishDeploy(j) PROVE TypeOK'
  BY <1>9 DEF FinishDeploy, Running, Verdicts
<1>10. ASSUME NEW j \in Jobs, FinalizeSuccess(j) PROVE TypeOK'
  <2>1. deployments' \subseteq [task : Tasks, source : SUBSET Commits,
                                commit : SUBSET Commits, deployed : BOOLEAN]
    BY <1>10, JobsTyped DEF FinalizeSuccess, Deployment
  <2>2. status' \in [Tasks -> {"open", "blocked", "done"}]
    BY <1>10, JobsTyped DEF FinalizeSuccess
  <2>3. Leave(j)
    BY <1>10 DEF FinalizeSuccess
  <2> QED
    BY <1>10, <2>1, <2>2, <2>3, LeaveTyped DEF FinalizeSuccess
<1>11. ASSUME NEW j \in Jobs, FinalizeBlocked(j) PROVE TypeOK'
  <2>1. status' \in [Tasks -> {"open", "blocked", "done"}]
    BY <1>11, JobsTyped DEF FinalizeBlocked
  <2>2. Leave(j)
    BY <1>11 DEF FinalizeBlocked
  <2> QED
    BY <1>11, <2>1, <2>2, LeaveTyped DEF FinalizeBlocked
<1>12. ASSUME NEW j \in Jobs, Raise(j) PROVE TypeOK'
  <2>1. Leave(j) /\ Abandon({j})
    BY <1>12 DEF Raise
  <2>2. strays' \subseteq SUBSET Commits
    BY <2>1, AbandonTyped
  <2> QED
    BY <1>12, <2>1, <2>2, LeaveTyped DEF Raise
<1>13. ASSUME NEW j \in Jobs, Recover(j) PROVE TypeOK'
  BY <1>13 DEF Recover
<1>14. ASSUME NEW head \in strays, StrayEnds(head) PROVE TypeOK'
  BY <1>14 DEF StrayEnds
<1>15. CASE StopDaemon
  <2>1. strays' \subseteq SUBSET Commits
    BY <1>15, AbandonTyped DEF StopDaemon
  <2>2. pc' \in [Jobs -> Running \cup {"absent", "queued", "over", "lost"}]
    BY <1>15 DEF StopDaemon
  <2> QED
    BY <1>15, <2>1, <2>2 DEF StopDaemon
<1>16. CASE UNCHANGED vars
  BY <1>16 DEF vars
<1> QED
  BY <1>1, <1>2, <1>3, <1>4, <1>5, <1>6, <1>7, <1>8, <1>9, <1>10, <1>11, <1>12,
     <1>13, <1>14, <1>15, <1>16 DEF Next

-----------------------------------------------------------------------------
(* Merges *)

\* Whoever moves the target branch, what was on it stays.
LEMMA TargetGrows == TypeOK /\ SwapInv /\ [Next]_vars => target \subseteq target'
<1> SUFFICES ASSUME TypeOK, SwapInv, [Next]_vars PROVE target \subseteq target'
  OBVIOUS
<1>1. CASE Push
  BY <1>1 DEF Push, Move
<1>2. ASSUME NEW j \in Jobs, SwapTarget(j) PROVE target \subseteq target'
  BY <1>2 DEF SwapTarget, SwapInv, Move
<1>3. CASE target' = target
  BY <1>3
<1> QED
  BY <1>1, <1>2, <1>3
     DEF Next, Fork, Enqueue, Start, ReadTarget, MergeSource, StartDeploy, FinishDeploy,
         FinalizeSuccess, FinalizeBlocked, Raise, Recover, StrayEnds, StopDaemon, vars,
         gitVars

\* Jobs that are leaving or lost have merged nothing they still tell of.
LEMMA SwapStep == TypeOK /\ SwapInv /\ [Next]_vars => SwapInv'
<1> SUFFICES ASSUME TypeOK, SwapInv, [Next]_vars, NEW k \in Jobs
             PROVE  /\ pc'[k] = "swapping" => source'[k] \cup old'[k] \subseteq new'[k]
                    /\ HasMerged(k)' => /\ source'[k] \subseteq new'[k]
                                        /\ new'[k] \subseteq target'
  BY DEF SwapInv
<1> DEFINE P == /\ pc'[k] = "swapping" => source'[k] \cup old'[k] \subseteq new'[k]
                /\ HasMerged(k)' => /\ source'[k] \subseteq new'[k]
                                    /\ new'[k] \subseteq target'
<1>0. target \subseteq target'
  BY TargetGrows
<1> USE DEF TypeOK, SwapInv, HasMerged, Goto, End, gitVars, tableVars, execVars
<1>1. CASE Push
  BY <1>1, <1>0 DEF Push
<1>2. ASSUME NEW t \in Tasks, Fork(t) PROVE P
  BY <1>2 DEF Fork
<1>3. ASSUME NEW j \in Jobs, Enqueue(j) PROVE P
  BY <1>3 DEF Enqueue
<1>4. ASSUME NEW j \in Jobs, Start(j) PROVE P
  BY <1>4 DEF Start
<1>5. ASSUME NEW j \in Jobs, ReadTarget(j) PROVE P
  BY <1>5 DEF ReadTarget, UnchangedByGit
<1>6. ASSUME NEW j \in Jobs, MergeSource(j) PROVE P
  BY <1>6 DEF MergeSource, UnchangedByGit
<1>7. ASSUME NEW j \in Jobs, SwapTarget(j) PROVE P
  <2>1. CASE k = j
    BY <1>7, <1>0, <2>1 DEF SwapTarget, UnchangedByGit, Move, Retry
  <2>2. CASE k # j
    BY <1>7, <1>0, <2>2 DEF SwapTarget, UnchangedByGit, Retry
  <2> QED
    BY <2>1, <2>2
<1>8. ASSUME NEW j \in Jobs, StartDeploy(j) PROVE P
  BY <1>8 DEF StartDeploy
<1>9. ASSUME NEW j \in Jobs, FinishDeploy(j) PROVE P
  BY <1>9 DEF FinishDeploy
<1>10. ASSUME NEW j \in Jobs, Leave(j), UNCHANGED <<target, source>> PROVE P
  BY <1>10 DEF Leave
<1>11. ASSUME NEW j \in Jobs, Recover(j) PROVE P
  BY <1>11 DEF Recover
<1>12. ASSUME NEW head \in strays, StrayEnds(head) PROVE P
  BY <1>12 DEF StrayEnds
<1>13. CASE StopDaemon
  BY <1>13 DEF StopDaemon, Running
<1>14. CASE UNCHANGED vars
  BY <1>14 DEF vars
<1> QED
  BY <1>1, <1>2, <1>3, <1>4, <1>5, <1>6, <1>7, <1>8, <1>9, <1>10, <1>11, <1>12,
     <1>13, <1>14 DEF Next, FinalizeSuccess, FinalizeBlocked, Raise

\* A move of the target branch counts for every executor under way.
LEMMA MoveCounts ==
  ASSUME TypeOK, NEW head, Move(head), NEW k \in Jobs
  PROVE  /\ moves'[k] >= moves[k]
         /\ pc[k] \in Running /\ target' # target => moves'[k] >= moves[k] + 1
<1> PICK n \in Nat : moves[k] = n
  BY DEF TypeOK
<1> QED
  BY DEF Move, TypeOK

\* An attempt that the branch did not let pass was overtaken or refused.
LEMMA RetryCounts ==
  ASSUME TypeOK, TryInv, NEW j \in Jobs, pc[j] = "swapping", Retry(j),
         moves' = moves, denied' \in Nat, denied' >= denied,
         target # old[j] \/ denied' >= denied + 1
  PROVE  /\ pc'[j] \in {"reading", "closing"}
         /\ verdict'[j] # None => pc'[j] = "closing"
         /\ pc'[j] = "reading" => moves'[j] + denied' >= try'[j] - 1
         /\ verdict'[j] = "cas_failed" => moves'[j] + denied' >= Attempts
<1> USE DEF TypeOK, Goto, End
<1>1. moves[j] + denied' >= try[j]
  BY DEF TryInv, Overtaken
<1>2. verdict[j] = None
  BY DEF TryInv
<1>3. CASE try[j] < Attempts
  <2>1. pc'[j] = "reading" /\ try'[j] = try[j] + 1 /\ verdict' = verdict
    BY <1>3, MergeAssumption DEF Retry
  <2> QED
    BY <1>1, <1>2, <2>1, MergeAssumption DEF Verdicts
<1>4. CASE try[j] >= Attempts
  <2>1. pc'[j] = "closing" /\ verdict'[j] = "cas_failed"
    BY <1>4, MergeAssumption DEF Retry
  <2> QED
    BY <1>1, <1>4, <2>1, MergeAssumption
<1> QED
  BY <1>3, <1>4, MergeAssumption

\* Attempts are counted, and given up, as moves of the branch and refusals come.
LEMMA TryStep == TypeOK /\ TryInv /\ [Next]_vars => TryInv'
<1> SUFFICES ASSUME TypeOK, TryInv, [Next]_vars, NEW k \in Jobs
             PROVE  /\ verdict'[k] # None => pc'[k] = "closing"
                    /\ pc'[k] \in {"reading", "merging", "swapping"}
                         => moves'[k] + denied' >= try'[k] - 1
                    /\ Overtaken(k)' => moves'[k] + denied' >= try'[k]
                    /\ verdict'[k] = "cas_failed" => moves'[k] + denied' >= Attempts
  BY DEF TryInv
<1> DEFINE P == /\ verdict'[k] # None => pc'[k] = "closing"
                /\ pc'[k] \in {"reading", "merging", "swapping"}
                     => moves'[k] + denied' >= try'[k] - 1
                /\ Overtaken(k)' => moves'[k] + denied' >= try'[k]
                /\ verdict'[k] = "cas_failed" => moves'[k] + denied' >= Attempts
<1> USE MergeAssumption
    DEF TypeOK, TryInv, Overtaken, Goto, End, gitVars, tableVars, execVars, countVars
<1>0. /\ moves[k] \in Nat /\ denied \in Nat /\ try[k] \in Nat /\ Attempts \in Nat
      /\ moves'[k] \in Nat /\ denied' \in Nat /\ try'[k] \in Nat
  BY TypeStep
<1>a. ASSUME NEW head, Move(head), denied' = denied,
             UNCHANGED <<pc, try, old, verdict>> \/
               \E j \in Jobs : /\ j # k
                               /\ \E s : Goto(j, s)
                               /\ UNCHANGED <<try, old, verdict>>
      PROVE P
  <2>1. pc'[k] = pc[k] /\ try'[k] = try[k] /\ old'[k] = old[k] /\ verdict'[k] = verdict[k]
    BY <1>a
  <2>2. /\ moves'[k] >= moves[k]
        /\ pc[k] \in Running /\ target' # target => moves'[k] >= moves[k] + 1
    BY <1>a, MoveCounts
  <2>3. CASE target' = target
    BY <1>0, <1>a, <2>1, <2>2, <2>3
  <2>4. CASE target' # target
    BY <1>0, <1>a, <2>1, <2>2, <2>4 DEF Running
  <2> QED
    BY <2>3, <2>4
<1>1. CASE Push
  BY <1>1, <1>a DEF Push
<1>2. ASSUME NEW t \in Tasks, Fork(t) PROVE P
  BY <1>2, <1>0 DEF Fork
<1>3. ASSUME NEW j \in Jobs, Enqueue(j) PROVE P
  BY <1>3, <1>0 DEF Enqueue
<1>4. ASSUME NEW j \in Jobs, Start(j) PROVE P
  BY <1>4, <1>0 DEF Start, Verdicts
<1>5. ASSUME NEW j \in Jobs, ReadTarget(j) PROVE P
  BY <1>5, <1>0 DEF ReadTarget, UnchangedByGit, Verdicts
<1>6. ASSUME NEW j \in Jobs, MergeSource(j) PROVE P
  BY <1>6, <1>0 DEF MergeSource, UnchangedByGit, Verdicts
<1>7. ASSUME NEW j \in Jobs, SwapTarget(j) PROVE P
  <2>0. pc[j] = "swapping" /\ verdict[j] = None
    BY <1>7 DEF SwapTarget
  <2>1. CASE k = j /\ target # old[j] /\ Retry(j) /\ UNCHANGED <<target, moves, denied>>
    BY <1>0, <2>0, <2>1, RetryCounts
  <2>2. CASE k = j /\ denied' = denied + 1 /\ Retry(j) /\ UNCHANGED <<target, moves>>
    BY <1>0, <2>0, <2>2, RetryCounts
  <2>3. CASE k = j /\ Move(new[j]) /\ Goto(j, "merged") /\ UNCHANGED verdict
    BY <2>0, <2>3 DEF Verdicts
  <2>4. CASE k # j /\ Retry(j) /\ UNCHANGED <<target, moves>>
    <3>1. /\ pc'[k] = pc[k] /\ try'[k] = try[k] /\ old'[k] = old[k]
          /\ verdict'[k] = verdict[k] /\ moves'[k] = moves[k] /\ denied' >= denied
      BY <1>7, <1>0, <2>4 DEF SwapTarget, UnchangedByGit, Retry
    <3> QED
      BY <1>0, <2>4, <3>1
  <2>5. CASE k # j /\ Move(new[j]) /\ Goto(j, "merged") /\ UNCHANGED <<try, verdict, denied>>
    BY <1>7, <1>a, <2>5 DEF SwapTarget, UnchangedByGit
  <2> QED
    BY <1>7, <2>1, <2>2, <2>3, <2>4, <2>5 DEF SwapTarget
<1>8. ASSUME NEW j \in Jobs, StartDeploy(j) PROVE P
  BY <1>8, <1>0 DEF StartDeploy, Verdicts
<1>9. ASSUME NEW j \in Jobs, FinishDeploy(j) PROVE P
  BY <1>9, <1>0 DEF FinishDeploy, Verdicts
<1>10. ASSUME NEW j \in Jobs, Leave(j), UNCHANGED <<target, denied>> PROVE P
  BY <1>10, <1>0 DEF Leave, Verdicts
<1>11. ASSUME NEW j \in Jobs, Recover(j) PROVE P
  BY <1>11, <1>0 DEF Recover, Verdicts
<1>12. ASSUME NEW head \in strays, StrayEnds(head) PROVE P
  BY <1>12, <1>0 DEF StrayEnds
<1>13. CASE StopDaemon
  BY <1>13, <1>0 DEF StopDaemon, Running, Verdicts
<1>14. CASE UNCHANGED vars
  BY <1>14 DEF vars
<1> QED
  BY <1>1, <1>2, <1>3, <1>4, <1>5, <1>6, <1>7, <1>8, <1>9, <1>10, <1>11, <1>12,
     <1>13, <1>14 DEF Next, FinalizeSuccess, FinalizeBlocked, Raise

-----------------------------------------------------------------------------
(* Deploys *)

\* Only what was on the target branch is, or will be, in production.
LEMMA TipStep == TypeOK /\ SwapInv /\ TipInv /\ [Next]_vars => TipInv'
<1> SUFFICES ASSUME TypeOK, SwapInv, TipInv, [Next]_vars PROVE TipInv'
  OBVIOUS
<1>0. target \subseteq target'
  BY TargetGrows
<1> USE DEF TypeOK, TipInv, Goto, End, gitVars, tableVars, execVars, worldVars
<1>1. CASE Push
  BY <1>1, <1>0 DEF Push
<1>2. ASSUME NEW t \in Tasks, Fork(t) PROVE TipInv'
  BY <1>2 DEF Fork
<1>3. ASSUME NEW j \in Jobs, Enqueue(j) PROVE TipInv'
  BY <1>3 DEF Enqueue
<1>4. ASSUME NEW j \in Jobs, Start(j) PROVE TipInv'
  BY <1>4 DEF Start
<1>5. ASSUME NEW j \in Jobs, ReadTarget(j) PROVE TipInv'
  BY <1>5 DEF ReadTarget, UnchangedByGit
<1>6. ASSUME NEW j \in Jobs, MergeSource(j) PROVE TipInv'
  BY <1>6 DEF MergeSource, UnchangedByGit
<1>7. ASSUME NEW j \in Jobs, SwapTarget(j) PROVE TipInv'
  BY <1>7, <1>0 DEF SwapTarget, UnchangedByGit, Retry
<1>8. ASSUME NEW j \in Jobs, StartDeploy(j) PROVE TipInv'
  <2>1. source[j] \subseteq target
    BY <1>8 DEF StartDeploy, SwapInv, HasMerged
  <2> QED
    BY <1>8, <2>1 DEF StartDeploy
<1>9. ASSUME NEW j \in Jobs, FinishDeploy(j) PROVE TipInv'
  BY <1>9 DEF FinishDeploy
<1>10. ASSUME NEW j \in Jobs, Leave(j), UNCHANGED <<target, source, live>>,
              strays' = strays \/ Abandon({j})
       PROVE  TipInv'
  BY <1>10 DEF Leave, Abandon, Deploying
<1>11. ASSUME NEW j \in Jobs, Recover(j) PROVE TipInv'
  BY <1>11 DEF Recover
<1>12. ASSUME NEW head \in strays, StrayEnds(head) PROVE TipInv'
  BY <1>12 DEF StrayEnds
<1>13. CASE StopDaemon
  <2>1. \A s \in strays' : s \subseteq target
    BY <1>13 DEF StopDaemon, Abandon, Deploying
  <2> QED
    BY <1>13, <2>1 DEF StopDaemon, Running
<1>14. CASE UNCHANGED vars
  BY <1>14 DEF vars
<1> QED
  BY <1>1, <1>2, <1>3, <1>4, <1>5, <1>6, <1>7, <1>8, <1>9, <1>10, <1>11, <1>12,
     <1>13, <1>14 DEF Next, FinalizeSuccess, FinalizeBlocked, Raise

\* Once two deploys have overlapped there is no telling; until then production only
\* advances.
LEMMA LiveGrows ==
  TypeOK /\ TipInv /\ OneDeployInv /\ [Next]_vars
    => /\ overlapped => overlapped'
       /\ overlapped' \/ live \subseteq live'
<1> SUFFICES ASSUME TypeOK, TipInv, OneDeployInv, [Next]_vars
             PROVE  /\ overlapped => overlapped'
                    /\ overlapped' \/ live \subseteq live'
  OBVIOUS
<1>1. ASSUME NEW j \in Jobs, StartDeploy(j)
      PROVE  (overlapped => overlapped') /\ (overlapped' \/ live \subseteq live')
  <2>1. live' = live
    BY <1>1 DEF StartDeploy
  <2>2. \/ overlapped' = (overlapped \/ Deploying # {} \/ strays # {})
        \/ overlapped' = overlapped
    BY <1>1 DEF StartDeploy
  <2>3. overlapped => overlapped'
    BY <2>2, Zenon
  <2> QED
    BY <2>1, <2>3
<1>2. ASSUME NEW j \in Jobs, FinishDeploy(j)
      PROVE  (overlapped => overlapped') /\ (overlapped' \/ live \subseteq live')
  BY <1>2 DEF FinishDeploy, OneDeployInv, Deploying
<1>3. ASSUME NEW head \in strays, StrayEnds(head)
      PROVE  (overlapped => overlapped') /\ (overlapped' \/ live \subseteq live')
  BY <1>3 DEF StrayEnds, OneDeployInv
<1>4. CASE UNCHANGED <<live, overlapped>>
  BY <1>4
<1> QED
  BY <1>1, <1>2, <1>3, <1>4
     DEF Next, Push, Fork, Enqueue, Start, ReadTarget, MergeSource, SwapTarget,
         UnchangedByGit, FinalizeSuccess, FinalizeBlocked, Raise, Recover, StopDaemon,
         vars, worldVars

\* At most one deploy is under way, unless a step says they overlap, and it will not
\* take anything back.
LEMMA OneDeployStep ==
  TypeOK /\ TipInv /\ OneDeployInv /\ [Next]_vars => OneDeployInv'
<1> SUFFICES ASSUME TypeOK, TipInv, OneDeployInv, [Next]_vars, ~overlapped'
             PROVE  OneDeployInv'
  BY DEF OneDeployInv
<1>0. ~overlapped
  BY LiveGrows
<1> USE <1>0 DEF OneDeployInv, Goto, worldVars
<1>1. ASSUME Deploying' \subseteq Deploying, tip' = tip, live' = live, strays' = strays
      PROVE  OneDeployInv'
  BY <1>1
<1>2. ASSUME NEW j \in Jobs, StartDeploy(j) PROVE OneDeployInv'
  <2>1. CASE pc' = [pc EXCEPT ![j] = "closing"] /\ UNCHANGED tip
    BY <1>2, <1>1, <2>1 DEF StartDeploy, Deploying, TypeOK
  <2>2. CASE /\ pc' = [pc EXCEPT ![j] = "deploying"]
             /\ tip' = [tip EXCEPT ![j] = target]
             /\ Deploying = {} /\ strays = {}
    <3>1. Deploying' = {j}
      BY <2>2 DEF Deploying, TypeOK
    <3>2. tip'[j] = target /\ live \subseteq target
      BY <2>2 DEF TipInv, TypeOK
    <3>3. live' = live /\ strays' = {}
      BY <1>2, <2>2 DEF StartDeploy
    <3> QED
      BY <3>1, <3>2, <3>3
  <2> QED
    BY <1>2, <2>1, <2>2 DEF StartDeploy
<1>3. ASSUME NEW j \in Jobs, FinishDeploy(j) PROVE OneDeployInv'
  <2>1. Deploying = {j} /\ strays = {} /\ live \subseteq tip[j]
    BY <1>3 DEF FinishDeploy, Deploying
  <2>2. Deploying' = {}
    BY <1>3, <2>1 DEF FinishDeploy, Deploying, TypeOK
  <2>3. strays' \subseteq {tip[j]} /\ live' \in {tip[j], live}
    BY <1>3, <2>1 DEF FinishDeploy
  <2> QED
    BY <2>1, <2>2, <2>3
<1>4. ASSUME NEW S, S \subseteq Jobs, Abandon(S), live' = live,
             \A k \in Jobs : \/ pc'[k] = pc[k] /\ tip'[k] = tip[k] /\ k \notin S
                             \/ pc'[k] # "deploying"
      PROVE  OneDeployInv'
  <2>1. Deploying' \subseteq Deploying \ S /\ \A k \in Deploying' : tip'[k] = tip[k]
    BY <1>4 DEF Deploying
  <2>2. PICK going \in SUBSET {tip[j] : j \in S \cap Deploying} : strays' = strays \cup going
    BY <1>4 DEF Abandon
  <2>3. CASE S \cap Deploying = {}
    BY <1>4, <2>1, <2>2, <2>3
  <2>4. CASE S \cap Deploying # {}
    <3>1. PICK j \in S \cap Deploying : TRUE
      BY <2>4
    <3>2. Deploying = {j} /\ strays = {} /\ live \subseteq tip[j]
      BY <3>1
    <3>3. Deploying' = {}
      BY <2>1, <3>1, <3>2
    <3>4. strays' \subseteq {tip[j]}
      BY <2>2, <3>1, <3>2
    <3> QED
      BY <1>4, <3>2, <3>3, <3>4
  <2> QED
    BY <2>3, <2>4
<1>5. ASSUME NEW j \in Jobs, Raise(j) PROVE OneDeployInv'
  <2>1. \A k \in Jobs : \/ pc'[k] = pc[k] /\ tip'[k] = tip[k] /\ k \notin {j}
                        \/ pc'[k] # "deploying"
    BY <1>5 DEF Raise, Leave, TypeOK
  <2> QED
    BY <1>5, <1>4, <2>1 DEF Raise
<1>6. CASE StopDaemon
  <2>1. \A k \in Jobs : pc'[k] # "deploying"
    BY <1>6 DEF StopDaemon, Running
  <2> QED
    BY <1>6, <1>4, <2>1 DEF StopDaemon
<1>7. ASSUME NEW head \in strays, StrayEnds(head) PROVE OneDeployInv'
  <2>1. Deploying = {} /\ Deploying' = {}
    BY <1>7 DEF StrayEnds, execVars, Deploying
  <2>2. strays = {head} /\ strays' \subseteq {head} /\ live' \in {head, live}
    BY <1>7 DEF StrayEnds
  <2> QED
    BY <2>1, <2>2
<1>8. ASSUME NEW j \in Jobs, Leave(j), UNCHANGED worldVars PROVE OneDeployInv'
  <2>1. Deploying' \subseteq Deploying /\ \A k \in Deploying' : tip'[k] = tip[k]
    BY <1>8 DEF Leave, Deploying, TypeOK
  <2> QED
    BY <1>8, <2>1
<1>9. ASSUME NEW j \in Jobs, NEW s, Goto(j, s), s # "deploying", UNCHANGED <<tip, worldVars>>
      PROVE  OneDeployInv'
  <2>1. Deploying' \subseteq Deploying
    BY <1>9 DEF Deploying, TypeOK
  <2> QED
    BY <1>9, <1>1, <2>1
<1>10. ASSUME NEW j \in Jobs,
              Enqueue(j) \/ Start(j) \/ ReadTarget(j) \/ MergeSource(j) \/ SwapTarget(j)
                \/ Recover(j)
       PROVE  OneDeployInv'
  <2>1. UNCHANGED <<tip, worldVars>>
    BY <1>10 DEF Enqueue, Start, ReadTarget, MergeSource, SwapTarget, UnchangedByGit,
                 Recover
  <2>2. \E s : Goto(j, s) /\ s # "deploying"
    BY <1>10 DEF Enqueue, Start, ReadTarget, MergeSource, SwapTarget, Retry, Recover
  <2> QED
    BY <1>9, <2>1, <2>2
<1>11. CASE UNCHANGED <<pc, tip, worldVars>>
  BY <1>11 DEF Deploying
<1> QED
  BY <1>2, <1>3, <1>5, <1>6, <1>7, <1>8, <1>10, <1>11
     DEF Next, Push, Fork, FinalizeSuccess, FinalizeBlocked, vars, execVars

\* A deploy that was waited for has put the branch in production.
LEMMA DeployedStep ==
  TypeOK /\ TryInv /\ TipInv /\ OneDeployInv /\ DeployedInv /\ [Next]_vars => DeployedInv'
<1> SUFFICES ASSUME TypeOK, TryInv, TipInv, OneDeployInv, DeployedInv, [Next]_vars,
                    NEW k \in Jobs,
                    pc'[k] = "closing", verdict'[k] = "success", command'[k]
             PROVE  source'[k] \subseteq live' \/ overlapped'
  BY DEF DeployedInv
<1>0. (overlapped => overlapped') /\ (overlapped' \/ live \subseteq live')
  BY LiveGrows
<1>1. ASSUME NEW j \in Jobs, FinishDeploy(j), k = j
      PROVE  source'[k] \subseteq live' \/ overlapped'
  <2>1. pc[k] = "deploying" /\ source' = source /\ live' = tip[k]
    BY <1>1, MergeAssumption DEF FinishDeploy, End, TypeOK, tableVars
  <2> QED
    BY <2>1 DEF TipInv
<1>2. CASE pc[k] = "closing" /\ verdict[k] = "success" /\ command[k] /\ source'[k] = source[k]
  BY <1>0, <1>2 DEF DeployedInv
<1>3. ASSUME NEW j \in Jobs, j = k,
             Enqueue(j) \/ Start(j) \/ ReadTarget(j) \/ MergeSource(j) \/ SwapTarget(j)
      PROVE  FALSE
  BY <1>3, MergeAssumption
     DEF Enqueue, Start, ReadTarget, MergeSource, SwapTarget, Retry, UnchangedByGit, Goto,
         End, TypeOK, TryInv
<1>4. ASSUME NEW j \in Jobs, j = k, StartDeploy(j) PROVE FALSE
  BY <1>4, MergeAssumption DEF StartDeploy, Goto, End, TypeOK, TryInv
<1>5. ASSUME NEW j \in Jobs, j = k, Leave(j) \/ Recover(j) PROVE FALSE
  BY <1>5 DEF Leave, Recover, Goto, TypeOK
<1>6. CASE StopDaemon
  BY <1>6, MergeAssumption DEF StopDaemon, Verdicts
<1>7. ASSUME NEW j \in Jobs, j # k,
             Enqueue(j) \/ Start(j) \/ ReadTarget(j) \/ MergeSource(j) \/ SwapTarget(j)
      PROVE  source'[k] \subseteq live' \/ overlapped'
  BY <1>7, <1>2
     DEF Enqueue, Start, ReadTarget, MergeSource, SwapTarget, Retry, UnchangedByGit, Goto,
         End, TypeOK, tableVars
<1>8. ASSUME NEW j \in Jobs, j # k, StartDeploy(j) \/ FinishDeploy(j) \/ Recover(j)
      PROVE  source'[k] \subseteq live' \/ overlapped'
  BY <1>8, <1>2 DEF StartDeploy, FinishDeploy, Recover, Goto, End, TypeOK, tableVars
<1>9. ASSUME NEW j \in Jobs, j # k, Leave(j), source' = source
      PROVE  source'[k] \subseteq live' \/ overlapped'
  BY <1>9, <1>2 DEF Leave, Goto, End, TypeOK
<1>10. CASE UNCHANGED <<pc, verdict, command, source>>
  BY <1>10, <1>2
<1> QED
  BY <1>1, <1>3, <1>4, <1>5, <1>6, <1>7, <1>8, <1>9, <1>10
     DEF Next, Push, Fork, StrayEnds, FinalizeSuccess, FinalizeBlocked, Raise, vars,
         execVars, tableVars

-----------------------------------------------------------------------------
(* Deliveries *)

\* A Deployment says what was merged and deployed, and stays true.
LEMMA DoneStep == MergeInv /\ [Next]_vars => DoneIsDelivered'
<1> SUFFICES ASSUME MergeInv, [Next]_vars PROVE DoneIsDelivered'
  OBVIOUS
<1> USE DEF MergeInv
<1>0. target \subseteq target'
  BY TargetGrows
<1>1. (overlapped => overlapped') /\ (overlapped' \/ live \subseteq live')
  BY LiveGrows
<1>2. ASSUME UNCHANGED <<status, deployments>> PROVE DoneIsDelivered'
  BY <1>0, <1>1, <1>2 DEF DoneIsDelivered
<1>3. ASSUME NEW j \in Jobs, FinalizeSuccess(j) PROVE DoneIsDelivered'
  <2>1. pc[j] = "closing" /\ verdict[j] = "success"
    BY <1>3 DEF FinalizeSuccess
  <2>2. deployments' = deployments \cup {Deployment(j)}
    BY <1>3 DEF FinalizeSuccess
  <2>3. /\ Deployment(j).task = TaskOf(j)
        /\ Deployment(j).source = source[j]
        /\ Deployment(j).commit = new[j]
        /\ Deployment(j).deployed = command[j]
    BY DEF Deployment
  <2>4. source[j] \subseteq new[j] /\ new[j] \subseteq target
    BY <2>1 DEF SwapInv, HasMerged
  <2>5. command[j] => source[j] \subseteq live \/ overlapped
    BY <2>1 DEF DeployedInv
  <2>6. \A t \in Tasks : status'[t] = "done" => \E d \in deployments' : d.task = t
    <3> SUFFICES ASSUME NEW t \in Tasks, status'[t] = "done"
                 PROVE  \E d \in deployments' : d.task = t
      OBVIOUS
    <3>1. CASE t = TaskOf(j)
      BY <2>2, <2>3, <3>1
    <3>2. CASE t # TaskOf(j)
      <4>1. status[t] = "done"
        BY <1>3, <3>2 DEF FinalizeSuccess, TypeOK
      <4> QED
        BY <2>2, <4>1 DEF DoneIsDelivered
    <3> QED
      BY <3>1, <3>2
  <2>7. \A d \in deployments' :
          /\ d.source \subseteq d.commit
          /\ d.commit \subseteq target'
          /\ d.deployed => (d.source \subseteq live' \/ overlapped')
    <3> SUFFICES ASSUME NEW d \in deployments'
                 PROVE  /\ d.source \subseteq d.commit
                        /\ d.commit \subseteq target'
                        /\ d.deployed => (d.source \subseteq live' \/ overlapped')
      OBVIOUS
    <3>1. CASE d \in deployments
      BY <1>0, <1>1, <3>1 DEF DoneIsDelivered
    <3>2. CASE d = Deployment(j)
      BY <1>0, <1>1, <2>3, <2>4, <2>5, <3>2
    <3> QED
      BY <2>2, <3>1, <3>2
  <2> QED
    BY <2>6, <2>7 DEF DoneIsDelivered
<1>4. ASSUME NEW j \in Jobs, FinalizeBlocked(j) PROVE DoneIsDelivered'
  <2>1. deployments' = deployments
    BY <1>4 DEF FinalizeBlocked
  <2>2. \A t \in Tasks : status'[t] = "done" => status[t] = "done"
    BY <1>4 DEF FinalizeBlocked, TypeOK
  <2> QED
    BY <1>0, <1>1, <2>1, <2>2 DEF DoneIsDelivered
<1> QED
  BY <1>2, <1>3, <1>4
     DEF Next, Push, Fork, Enqueue, Start, ReadTarget, MergeSource, SwapTarget,
         UnchangedByGit, StartDeploy, FinishDeploy, Raise, Recover, StrayEnds, StopDaemon,
         tableVars, vars

\* The invariant holds at first.
LEMMA MergeInvInit == Init => MergeInv
<1> SUFFICES ASSUME Init PROVE MergeInv
  OBVIOUS
<1> USE MergeAssumption DEF Init
<1>1. TypeOK
  BY TypeInit
<1>2. SwapInv /\ DeployedInv
  BY DEF SwapInv, HasMerged, DeployedInv
<1>3. TryInv
  BY DEF TryInv, Overtaken, Verdicts
<1>4. TipInv /\ OneDeployInv
  BY DEF TipInv, OneDeployInv, Deploying
<1>5. DoneIsDelivered
  BY DEF DoneIsDelivered
<1> QED
  BY <1>1, <1>2, <1>3, <1>4, <1>5 DEF MergeInv

\* Every step keeps it.
LEMMA MergeInvStep == MergeInv /\ [Next]_vars => MergeInv'
  BY TypeStep, SwapStep, TryStep, TipStep, OneDeployStep, DeployedStep, DoneStep DEF MergeInv

\* The inductive invariant is one.
LEMMA MergeInvHolds == Spec => []MergeInv
  BY MergeInvInit, MergeInvStep, PTL DEF Spec

-----------------------------------------------------------------------------
(* What the merge stage promises *)

\* Every variable stays within the values its column, branch or process can take.
THEOREM MergeTypeCorrect == Spec => []TypeOK
<1>1. MergeInv => TypeOK
  BY DEF MergeInv
<1> QED
  BY <1>1, MergeInvHolds, PTL

\* Concurrent merges can't stomp each other: update-ref moves the target branch only
\* from the head the merge was made on, so what anybody put there stays.
THEOREM NeverStomped == Spec => NothingStomped
<1>1. MergeInv /\ [Next]_vars => [target \subseteq target']_vars
  BY TargetGrows DEF MergeInv
<1> QED
  BY <1>1, MergeInvHolds, PTL DEF Spec, NothingStomped

\* A done task has a Deployment, whose commit is on the target branch with all that QA
\* passed, and what was deployed is in production unless two deploys ran at once.
THEOREM DoneDelivered == Spec => []DoneIsDelivered
<1>1. MergeInv => DoneIsDelivered
  BY DEF MergeInv
<1> QED
  BY <1>1, MergeInvHolds, PTL

\* An executor that reports that the branch kept moving saw it move, or update-ref
\* refuse, as often as it is allowed to try.
THEOREM GivesUpOvertaken == Spec => []OvertakenBeforeGivingUp
<1>1. MergeInv => OvertakenBeforeGivingUp
  BY DEF MergeInv, TryInv, OvertakenBeforeGivingUp
<1> QED
  BY <1>1, MergeInvHolds, PTL

-----------------------------------------------------------------------------
(* Admission: the inductive invariant, part by part *)

JobRecord == [task : Tasks, role : Bases \cup Variants, prio : Nat, claimed : BOOLEAN]
SweepRecord == [skip : SUBSET Tasks, picks : Seq(Tasks), overtaken : BOOLEAN]

ReadyTasks == {t \in Tasks : task[t] # "new"}

\* The open jobs of a task, by number.
OpenOf(t) == {j \in DOMAIN jobs : jobs[j].task = t}

\* Types, and finitely many tasks that are ready: rankings count them.
FormInv ==
  /\ task \in [Tasks -> {"new", "todo", "away", "blocked"}]
  /\ failures \in 0 .. MaxFailures /\ blocks \in 0 .. MaxBlocks /\ overlaps \in Nat
  /\ jobs \in Seq(JobRecord)
  /\ sweep \in [Sweepers -> SweepRecord \cup {None}]
  /\ IsFiniteSet(ReadyTasks)

\* A job is of a task that was ready, and of a role that fits it.
JobFits(job, ready) ==
  /\ job.task \in ready
  /\ job.role \in Bases \/ (job.role \in Variants /\ Eligible(job.role, job.task))
  /\ job.prio \in {40} \cup (200 .. 199 + Batch)

JobsInv == \A j \in DOMAIN jobs : JobFits(jobs[j], ReadyTasks)

\* What a sweep picked was ready and is so for good, and as long as no other sweep commits,
\* no task gets a job that it has not seen.
PicksFit(w, ready, busy) ==
  /\ IsInjective(w.picks) /\ Len(w.picks) <= Batch
  /\ \A r \in DOMAIN w.picks : w.picks[r] \in ready \ w.skip
  /\ ~w.overtaken => busy \subseteq w.skip

SweepsInv == \A s \in Sweepers : sweep[s] # None => PicksFit(sweep[s], ReadyTasks, Busy)

\* OneOpenJob, with a name for the set it counts.
FewOpenJobs == \A t \in Tasks : Cardinality(OpenOf(t)) <= 1 + overlaps

AdmissionInv == FormInv /\ JobsInv /\ SweepsInv /\ FewOpenJobs

-----------------------------------------------------------------------------
(* Admission: rankings *)

\* Of two elements one comes before the other, and so do those before it.
Precedence(S, Before) ==
  /\ Before \in [S -> SUBSET S]
  /\ \A t \in S : t \notin Before[t]
  /\ \A t, u \in S : t # u =>
       \/ t \in Before[u] /\ Before[t] \subseteq Before[u]
       \/ u \in Before[t] /\ Before[u] \subseteq Before[t]

\* There is an element before which there are none, one before which there is one, and so on.
HasRanks(S, Before) ==
  /\ Cardinality(S) \in Nat
  /\ \A r \in 1 .. Cardinality(S) : \E t \in S : Cardinality(Before[t]) = r - 1

\* So it is in every finite set.
LEMMA EachRank ==
  ASSUME NEW S, IsFiniteSet(S), NEW Before, Precedence(S, Before)
  PROVE  HasRanks(S, Before)
<1>. USE DEF Precedence
<1>1. Cardinality(S) \in Nat
  BY FS_CardinalityType
<1>2. \A t \in S : IsFiniteSet(Before[t]) /\ Cardinality(Before[t]) \in Nat
  BY FS_Subset, FS_CardinalityType
<1>3. ASSUME NEW t \in S, NEW U \in SUBSET S, Before[t] \subseteq U, t \in U
      PROVE  Cardinality(Before[t]) < Cardinality(U)
  <2>1. IsFiniteSet(U) /\ Cardinality(U) \in Nat
    BY FS_Subset, FS_CardinalityType
  <2>2. Before[t] # U
    BY <1>3
  <2>3. Cardinality(Before[t]) <= Cardinality(U) /\ Cardinality(Before[t]) # Cardinality(U)
    BY <1>3, <2>1, <2>2, FS_Subset
  <2> QED
    BY <1>2, <2>1, <2>3
<1> DEFINE last == Cardinality(S) - 1
           rank == [t \in S |-> Cardinality(Before[t])]
<1>4. \A t \in S : rank[t] \in 0 .. last
  BY <1>1, <1>2, <1>3
<1>5. ASSUME NEW t \in S, NEW u \in S, rank[t] = rank[u] PROVE t = u
  <2>1. ASSUME t # u PROVE FALSE
    <3>1. CASE t \in Before[u] /\ Before[t] \subseteq Before[u]
      BY <1>2, <1>3, <1>5, <3>1
    <3>2. CASE u \in Before[t] /\ Before[u] \subseteq Before[t]
      BY <1>2, <1>3, <1>5, <3>2
    <3> QED
      BY <2>1, <3>1, <3>2
  <2> QED
    BY <2>1
<1>6. rank \in Injection(S, 0 .. last)
  BY <1>4, <1>5 DEF Injection, IsInjective
<1>7. IsFiniteSet(0 .. last) /\ Cardinality(0 .. last) = Cardinality(S)
  BY <1>1, FS_Interval
<1>8. rank \in Surjection(S, 0 .. last)
  BY <1>6, <1>7, FS_Injection
<1>9. ASSUME NEW r \in 1 .. Cardinality(S) PROVE \E t \in S : Cardinality(Before[t]) = r - 1
  <2>1. r - 1 \in 0 .. last
    BY <1>1
  <2> QED
    BY <1>8, <2>1 DEF Surjection
<1> QED
  BY <1>1, <1>9 DEF HasRanks

\* What InOrder needs to know of the elements it puts in order.
Ordered(seq, S) ==
  /\ seq \in Seq(S)
  /\ \A a, b \in DOMAIN seq : seq[a] = seq[b] => a = b

\* A sequence that has for each rank the element with that many before it has no element
\* twice.
LEMMA RankedOrdered ==
  ASSUME NEW S, NEW n \in Nat, NEW seq, seq = [r \in 1 .. n |-> seq[r]],
         NEW before \in [S -> Nat],
         \A r \in 1 .. n : seq[r] \in S /\ before[seq[r]] = r - 1
  PROVE  Ordered(seq, S)
<1>1. DOMAIN seq = 1 .. n /\ seq \in [1 .. n -> S]
  OBVIOUS
<1>2. seq \in Seq(S)
  BY <1>1, SeqDef
<1>3. ASSUME NEW a \in DOMAIN seq, NEW b \in DOMAIN seq, seq[a] = seq[b] PROVE a = b
  BY <1>1, <1>3
<1> QED
  BY <1>2, <1>3 DEF Ordered

\* rank_ready_tasks: each task once, whatever the scores.
LEMMA RankingOrdered ==
  ASSUME AdmissionAssumption, NEW S \in SUBSET Tasks, IsFiniteSet(S)
  PROVE  Ordered(InOrder(S, RanksBefore), S)
<1> DEFINE Before == [t \in S |-> {u \in S : RanksBefore(u, t)}]
           before == [t \in S |-> Cardinality(Before[t])]
           seq == InOrder(S, RanksBefore)
<1>1. S \subseteq Nat /\ \A t \in S : Score(t) \in Nat
  BY DEF AdmissionAssumption
<1>2. \A t \in S : ~RanksBefore(t, t)
  BY <1>1 DEF RanksBefore
<1>3. \A t, u \in S : t # u => RanksBefore(t, u) \/ RanksBefore(u, t)
  BY <1>1 DEF RanksBefore
<1>4. \A t, u, v \in S : RanksBefore(t, u) /\ RanksBefore(u, v) => RanksBefore(t, v)
  BY <1>1 DEF RanksBefore
<1>5. /\ \A t \in S : t \notin Before[t]
      /\ \A t, u \in S : t # u =>
           \/ t \in Before[u] /\ Before[t] \subseteq Before[u]
           \/ u \in Before[t] /\ Before[u] \subseteq Before[t]
  BY <1>2, <1>3, <1>4, Zenon
<1>6. Before \in [S -> SUBSET S]
  OBVIOUS
<1>7. /\ Cardinality(S) \in Nat
      /\ \A r \in 1 .. Cardinality(S) : \E t \in S : Cardinality(Before[t]) = r - 1
  <2>1. Precedence(S, Before)
    BY <1>5, <1>6, Zenon DEF Precedence
  <2> HIDE DEF Before
  <2>5. HasRanks(S, Before)
    BY <2>1, EachRank
  <2> QED
    BY <2>5 DEF HasRanks
<1>8. \A t \in S : Before[t] = {u \in S : RanksBefore(u, t)}
  OBVIOUS
<1>9. before \in [S -> Nat]
  BY <1>6, FS_Subset, FS_CardinalityType
<1>10. seq = [r \in 1 .. Cardinality(S) |->
                CHOOSE t \in S : Cardinality({u \in S : RanksBefore(u, t)}) = r - 1]
  BY DEF InOrder
<1>11. ASSUME NEW r \in 1 .. Cardinality(S) PROVE seq[r] \in S /\ before[seq[r]] = r - 1
  <2>1. PICK t \in S : Cardinality({u \in S : RanksBefore(u, t)}) = r - 1
    BY <1>7, <1>8
  <2>2. seq[r] = CHOOSE x \in S : Cardinality({u \in S : RanksBefore(u, x)}) = r - 1
    BY <1>10
  <2>3. seq[r] \in S /\ Cardinality({u \in S : RanksBefore(u, seq[r])}) = r - 1
    BY <2>1, <2>2, Zenon
  <2> QED
    BY <1>8, <2>3
<1>12. seq = [r \in 1 .. Cardinality(S) |-> seq[r]]
  BY <1>10
<1> HIDE DEF seq, before
<1>13. Ordered(seq, S)
  BY <1>7, <1>9, <1>11, <1>12, RankedOrdered
<1> QED
  BY <1>13 DEF seq

\* pickup_infra_failures: the oldest first, each once.
LEMMA AgeOrdered ==
  ASSUME AdmissionAssumption, NEW S \in SUBSET Tasks, IsFiniteSet(S)
  PROVE  Ordered(InOrder(S, <), S)
<1> DEFINE Before == [t \in S |-> {u \in S : u < t}]
           before == [t \in S |-> Cardinality(Before[t])]
           seq == InOrder(S, <)
<1>1. S \subseteq Nat
  BY DEF AdmissionAssumption
<1>2. \A t, u \in S : t # u => t < u \/ u < t
  BY <1>1
<1>3. \A t, u, v \in S : ~(t < t) /\ (t < u /\ u < v => t < v)
  BY <1>1
<1>4. Precedence(S, Before)
  <2>1. Before \in [S -> SUBSET S]
    OBVIOUS
  <2>2. /\ \A t \in S : t \notin Before[t]
        /\ \A t, u \in S : t # u =>
             \/ t \in Before[u] /\ Before[t] \subseteq Before[u]
             \/ u \in Before[t] /\ Before[u] \subseteq Before[t]
    BY <1>2, <1>3, Zenon
  <2> QED
    BY <2>1, <2>2, Zenon DEF Precedence
<1>5. /\ Cardinality(S) \in Nat
      /\ \A r \in 1 .. Cardinality(S) : \E t \in S : Cardinality(Before[t]) = r - 1
  <2> HIDE DEF Before
  <2>5. HasRanks(S, Before)
    BY <1>4, EachRank
  <2> QED
    BY <2>5 DEF HasRanks
<1>6. \A t \in S : Before[t] = {u \in S : u < t}
  OBVIOUS
<1>7. before \in [S -> Nat]
  <2>1. \A t \in S : Before[t] \in SUBSET S
    OBVIOUS
  <2> HIDE DEF Before
  <2> QED
    BY <2>1, FS_Subset, FS_CardinalityType
<1>8. seq = [r \in 1 .. Cardinality(S) |->
               CHOOSE t \in S : Cardinality({u \in S : u < t}) = r - 1]
  BY DEF InOrder
<1>9. ASSUME NEW r \in 1 .. Cardinality(S) PROVE seq[r] \in S /\ before[seq[r]] = r - 1
  <2>1. PICK t \in S : Cardinality({u \in S : u < t}) = r - 1
    BY <1>5, <1>6
  <2>2. seq[r] = CHOOSE x \in S : Cardinality({u \in S : u < x}) = r - 1
    BY <1>8
  <2>3. seq[r] \in S /\ Cardinality({u \in S : u < seq[r]}) = r - 1
    BY <2>1, <2>2, Zenon
  <2> QED
    BY <1>6, <2>3
<1>10. seq = [r \in 1 .. Cardinality(S) |-> seq[r]]
  BY <1>8
<1> HIDE DEF seq, before
<1>11. Ordered(seq, S)
  BY <1>5, <1>7, <1>9, <1>10, RankedOrdered
<1> QED
  BY <1>11 DEF seq

\* What a sweep finds: ready tasks, each once, none of those it is to skip.
LEMMA CandidatesOrdered ==
  ASSUME AdmissionAssumption, FormInv, NEW s, NEW skip
  PROVE  \E S \in SUBSET (ReadyTasks \ skip) : Ordered(Candidates(s, skip), S)
<1>1. ASSUME NEW S \in SUBSET ReadyTasks PROVE S \in SUBSET Tasks /\ IsFiniteSet(S)
  BY <1>1, FS_Subset DEF FormInv, ReadyTasks
<1>2. CASE s \in PoSweepers
  <2>1. {t \in Tasks \ skip : task[t] = "todo"} \in SUBSET (ReadyTasks \ skip)
    BY DEF ReadyTasks
  <2>2. Ordered(Candidates(s, skip), {t \in Tasks \ skip : task[t] = "todo"})
    BY <1>1, <1>2, <2>1, RankingOrdered DEF Candidates
  <2> QED
    BY <2>1, <2>2
<1>3. CASE s \notin PoSweepers
  <2>1. {t \in Tasks \ skip : task[t] = "blocked"} \in SUBSET (ReadyTasks \ skip)
    BY DEF ReadyTasks
  <2>2. Ordered(Candidates(s, skip), {t \in Tasks \ skip : task[t] = "blocked"})
    BY <1>1, <1>3, <2>1, AgeOrdered DEF Candidates
  <2> QED
    BY <2>1, <2>2
<1> QED
  BY <1>2, <1>3

\* The batch: no more than its limit of them.
LEMMA BatchOrdered ==
  ASSUME NEW S, NEW seq, Ordered(seq, S), NEW n \in Nat
  PROVE  Ordered(FirstOf(seq, n), S) /\ Len(FirstOf(seq, n)) <= n
<1>1. PICK l \in Nat : l = Len(seq)
  BY LenProperties DEF Ordered
<1>2. PICK m \in Nat : m = (IF n < l THEN n ELSE l)
  OBVIOUS
<1>3. m <= n /\ m <= l
  BY <1>2
<1>4. FirstOf(seq, n) = SubSeq(seq, 1, m)
  BY <1>1, <1>2 DEF FirstOf
<1>5. DOMAIN seq = 1 .. l /\ \A i \in 1 .. m : i \in DOMAIN seq /\ seq[i] \in S
  BY <1>1, <1>3, LenProperties, ElementOfSeq DEF Ordered
<1>6. /\ SubSeq(seq, 1, m) \in Seq(S) /\ Len(SubSeq(seq, 1, m)) = m
      /\ \A i \in 1 .. m : SubSeq(seq, 1, m)[i] = seq[i]
  <2>1. /\ SubSeq(seq, 1, m) \in Seq(S)
        /\ Len(SubSeq(seq, 1, m)) = IF 1 <= m THEN m - 1 + 1 ELSE 0
        /\ \A i \in 1 .. m - 1 + 1 : SubSeq(seq, 1, m)[i] = seq[1 + i - 1]
    BY <1>5, SubSeqProperties
  <2> QED
    BY <2>1
<1>7. DOMAIN SubSeq(seq, 1, m) = 1 .. m
  BY <1>6, LenProperties
<1> QED
  BY <1>3, <1>4, <1>5, <1>6, <1>7 DEF Ordered

-----------------------------------------------------------------------------
(* Admission: dispatch *)

\* resolve_role returns a role that exists and fits the task, if there is the base role.
LEMMA ResolveFits ==
  ASSUME AdmissionAssumption, NEW base \in Bases, NEW t \in Tasks
  PROVE  \/ Resolve(base, t) \in Bases
         \/ Resolve(base, t) \in Variants /\ Eligible(Resolve(base, t), t)
<1> DEFINE scored == {v \in Variants : BaseOf(v) = base /\ Eligible(v, t)}
           winners == {v \in scored : \A w \in scored : Specificity(w) <= Specificity(v)}
<1>1. Resolve(base, t) =
        IF Cardinality(winners) = 1 THEN CHOOSE v \in winners : TRUE ELSE base
  BY DEF Resolve
<1>2. CASE Cardinality(winners) = 1
  <2>1. winners # {}
    BY <1>2, FS_EmptySet
  <2>2. Resolve(base, t) \in winners
    BY <1>1, <1>2, <2>1
  <2> QED
    BY <2>2
<1>3. CASE Cardinality(winners) # 1
  BY <1>1, <1>3
<1> QED
  BY <1>2, <1>3

\* So does the choice of a sweep, with or without a role that designs.
LEMMA RoleFits ==
  ASSUME AdmissionAssumption, NEW s, NEW t \in Tasks
  PROVE  \/ RoleFor(s, t) \in Bases
         \/ RoleFor(s, t) \in Variants /\ Eligible(RoleFor(s, t), t)
<1>1. "dev" \in Bases /\ "devops" \in Bases
  BY DEF AdmissionAssumption
<1>2. ASSUME Resolve("design", t) # None PROVE "design" \in Bases
  BY <1>2 DEF Resolve
<1> QED
  BY <1>1, <1>2, ResolveFits DEF RoleFor

-----------------------------------------------------------------------------
(* Admission: jobs *)

\* The jobs without one: each of them was there before, under another number.
LEMMA JobRemoved ==
  ASSUME NEW S, NEW seq \in Seq(S), NEW i \in DOMAIN seq
  PROVE  /\ RemoveAt(seq, i) \in Seq(S)
         /\ DOMAIN seq = 1 .. Len(seq) /\ Len(seq) \in Nat
         /\ DOMAIN RemoveAt(seq, i) = 1 .. Len(seq) - 1
         /\ \A j \in 1 .. Len(seq) - 1 :
              RemoveAt(seq, i)[j] = IF j < i THEN seq[j] ELSE seq[j + 1]
<1>1. PICK n \in Nat : n = Len(seq)
  BY LenProperties
<1>2. DOMAIN seq = 1 .. n /\ i \in 1 .. n /\ \A j \in 1 .. n : seq[j] \in S
  BY <1>1, LenProperties, ElementOfSeq
<1> DEFINE front == SubSeq(seq, 1, i - 1)
           back == SubSeq(seq, i + 1, n)
<1>3. /\ front \in Seq(S) /\ Len(front) = i - 1
      /\ \A j \in 1 .. i - 1 : front[j] = seq[j]
  <2>1. /\ front \in Seq(S) /\ Len(front) = IF 1 <= i - 1 THEN i - 1 - 1 + 1 ELSE 0
        /\ \A j \in 1 .. i - 1 - 1 + 1 : front[j] = seq[1 + j - 1]
    BY <1>2, SubSeqProperties
  <2> HIDE DEF front
  <2> QED
    BY <1>2, <2>1
<1>4. /\ back \in Seq(S) /\ Len(back) = n - i
      /\ \A j \in 1 .. n - i : back[j] = seq[i + j]
  <2>1. /\ back \in Seq(S) /\ Len(back) = IF i + 1 <= n THEN n - (i + 1) + 1 ELSE 0
        /\ \A j \in 1 .. n - (i + 1) + 1 : back[j] = seq[i + 1 + j - 1]
    BY <1>2, SubSeqProperties
  <2> HIDE DEF back
  <2>2. Len(back) = n - i /\ n - (i + 1) + 1 = n - i
    BY <1>2, <2>1
  <2>3. ASSUME NEW j \in 1 .. n - i PROVE back[j] = seq[i + j]
    <3>1. j \in 1 .. n - (i + 1) + 1 /\ i + 1 + j - 1 = i + j
      BY <1>2
    <3> QED
      BY <2>1, <3>1
  <2> QED
    BY <2>1, <2>2, <2>3
<1>5. RemoveAt(seq, i) = front \o back
  BY <1>1 DEF RemoveAt
<1> HIDE DEF front, back
<1>6. /\ front \o back \in Seq(S) /\ Len(front \o back) = n - 1
      /\ \A j \in 1 .. n - 1 :
           (front \o back)[j] = IF j <= i - 1 THEN front[j] ELSE back[j - (i - 1)]
  <2>1. /\ front \o back \in Seq(S) /\ Len(front \o back) = i - 1 + (n - i)
        /\ \A j \in 1 .. i - 1 + (n - i) :
             (front \o back)[j] = IF j <= i - 1 THEN front[j] ELSE back[j - (i - 1)]
    <3>1. /\ front \o back \in Seq(S) /\ Len(front \o back) = Len(front) + Len(back)
          /\ \A j \in 1 .. Len(front) + Len(back) :
               (front \o back)[j] = IF j <= Len(front) THEN front[j] ELSE back[j - Len(front)]
      BY <1>3, <1>4, ConcatProperties, Zenon
    <3> QED
      BY <1>3, <1>4, <3>1, Zenon
  <2>2. i - 1 + (n - i) = n - 1
    BY <1>2
  <2> QED
    BY <2>1, <2>2
<1>7. DOMAIN (front \o back) = 1 .. n - 1
  BY <1>6, LenProperties
<1>8. ASSUME NEW j \in 1 .. n - 1
      PROVE  (front \o back)[j] = IF j < i THEN seq[j] ELSE seq[j + 1]
  <2>1. CASE j < i
    <3>1. j <= i - 1 /\ j \in 1 .. i - 1
      BY <1>2, <2>1
    <3> QED
      BY <1>3, <1>6, <2>1, <3>1
  <2>2. CASE ~(j < i)
    <3>1. ~(j <= i - 1) /\ j - (i - 1) \in 1 .. n - i /\ i + (j - (i - 1)) = j + 1
      BY <1>2, <2>2
    <3> QED
      BY <1>4, <1>6, <2>2, <3>1
  <2> QED
    BY <2>1, <2>2
<1> QED
  BY <1>1, <1>2, <1>5, <1>6, <1>7, <1>8

\* No task has more of them.
LEMMA FewerJobs ==
  ASSUME FormInv, NEW i \in DOMAIN jobs, jobs' = RemoveAt(jobs, i), NEW t
  PROVE  /\ IsFiniteSet(OpenOf(t)') /\ IsFiniteSet(OpenOf(t))
         /\ Cardinality(OpenOf(t)') <= Cardinality(OpenOf(t))
<1>1. PICK n \in Nat : n = Len(jobs) /\ DOMAIN jobs = 1 .. n
  BY LenProperties DEF FormInv
<1>2. /\ DOMAIN jobs' = 1 .. n - 1
      /\ \A j \in 1 .. n - 1 : jobs'[j] = IF j < i THEN jobs[j] ELSE jobs[j + 1]
  BY <1>1, JobRemoved DEF FormInv
<1>3. IsFiniteSet(OpenOf(t))
  <2>1. IsFiniteSet(1 .. n) /\ OpenOf(t) \in SUBSET (1 .. n)
    BY <1>1, FS_Interval DEF OpenOf
  <2> QED
    BY <2>1, FS_Subset
<1> DEFINE was == [j \in OpenOf(t)' |-> IF j < i THEN j ELSE j + 1]
<1>4. was \in Injection(OpenOf(t)', OpenOf(t))
  <2>1. OpenOf(t)' \subseteq 1 .. n - 1
    BY <1>2 DEF OpenOf
  <2>2. \A j \in OpenOf(t)' : was[j] \in OpenOf(t)
    BY <1>1, <1>2, <2>1 DEF OpenOf
  <2>3. \A j, k \in OpenOf(t)' : was[j] = was[k] => j = k
    BY <1>1, <2>1
  <2> QED
    BY <2>2, <2>3 DEF Injection, IsInjective
<1> QED
  BY <1>3, <1>4, FS_Injection

\* There are finitely many of a task.
LEMMA JobsFinite ==
  ASSUME NEW S, NEW seq \in Seq(S), NEW t
  PROVE  LET of == {j \in DOMAIN seq : seq[j].task = t}
         IN  IsFiniteSet(of) /\ Cardinality(of) \in Nat
<1> DEFINE of == {j \in DOMAIN seq : seq[j].task = t}
<1>1. PICK n \in Nat : n = Len(seq) /\ DOMAIN seq = 1 .. n
  BY LenProperties
<1>2. IsFiniteSet(1 .. n) /\ of \in SUBSET (1 .. n)
  BY <1>1, FS_Interval
<1> HIDE DEF of
<1>3. IsFiniteSet(of) /\ Cardinality(of) \in Nat
  BY <1>2, FS_Subset, FS_CardinalityType
<1> QED
  BY <1>3 DEF of

\* A step that adds no job, and takes no task from those that were ready, keeps everything.
LEMMA NothingAdded ==
  ASSUME AdmissionInv, FormInv', ReadyTasks \subseteq ReadyTasks',
         overlaps' = overlaps, sweep' = sweep,
         \A j \in DOMAIN jobs' : \E k \in DOMAIN jobs :
           /\ jobs'[j].task = jobs[k].task
           /\ jobs'[j].role = jobs[k].role /\ jobs'[j].prio = jobs[k].prio,
         \A t \in Tasks : Cardinality(OpenOf(t)') <= Cardinality(OpenOf(t))
  PROVE  AdmissionInv'
<1>1. JobsInv'
  BY DEF AdmissionInv, JobsInv, JobFits
<1>2. Busy' \subseteq Busy
  BY DEF Busy
<1>3. SweepsInv'
  BY <1>2 DEF AdmissionInv, SweepsInv, PicksFit
<1>4. FewOpenJobs'
  <2>2. \A t \in Tasks : Cardinality(OpenOf(t)) <= 1 + overlaps
    BY DEF AdmissionInv, FewOpenJobs
  <2>3. \A t \in Tasks : Cardinality(OpenOf(t)) \in Nat /\ Cardinality(OpenOf(t)') \in Nat
    <3>1. jobs \in Seq(JobRecord) /\ jobs' \in Seq(JobRecord)
      BY DEF AdmissionInv, FormInv, JobRecord
    <3> QED
      BY <3>1, JobsFinite DEF OpenOf
  <2>4. overlaps \in Nat
    BY DEF AdmissionInv, FormInv
  <2>5. \A t \in Tasks : Cardinality(OpenOf(t)') <= 1 + overlaps'
    BY <2>2, <2>3, <2>4
  <2> QED
    BY <2>5 DEF FewOpenJobs
<1> QED
  BY <1>1, <1>3, <1>4 DEF AdmissionInv

\* So does one that only changes a sweep, for one whose picks fit.
LEMMA SweepChanged ==
  ASSUME AdmissionInv, NEW s \in Sweepers, NEW w \in SweepRecord \cup {None},
         sweep' = [sweep EXCEPT ![s] = w], w # None => PicksFit(w, ReadyTasks, Busy),
         task' = task, jobs' = jobs, blocks' = blocks, overlaps' = overlaps,
         failures' \in 0 .. MaxFailures
  PROVE  AdmissionInv'
<1>1. FormInv'
  BY DEF AdmissionInv, FormInv, ReadyTasks, JobRecord, SweepRecord
<1>2. ReadyTasks' = ReadyTasks /\ Busy' = Busy
  BY DEF ReadyTasks, Busy
<1>3. JobsInv'
  BY <1>2 DEF AdmissionInv, JobsInv, JobFits
<1>4. SweepsInv'
  <2>1. ASSUME NEW u \in Sweepers, sweep'[u] # None PROVE PicksFit(sweep'[u], ReadyTasks, Busy)
    BY <2>1 DEF AdmissionInv, FormInv, SweepsInv
  <2> QED
    BY <1>2, <2>1 DEF SweepsInv
<1>5. FewOpenJobs'
  BY DEF AdmissionInv, FewOpenJobs, OpenOf
<1> QED
  BY <1>1, <1>3, <1>4, <1>5 DEF AdmissionInv

\* The number of jobs that one sweep adds: one of each task it picked.
LEMMA JobsAdded ==
  ASSUME AdmissionInv, AdmissionAssumption, NEW s \in Sweepers, sweep[s] # None,
         jobs' = jobs \o NewJobs(s)
  PROVE  /\ jobs' \in Seq(JobRecord)
         /\ \A j \in DOMAIN jobs' : JobFits(jobs'[j], ReadyTasks)
         /\ \A t \in Tasks :
              /\ Cardinality(OpenOf(t)') <= 1 + Cardinality(OpenOf(t))
              /\ \/ OpenOf(t)' = OpenOf(t)
                 \/ t \in ReadyTasks \ sweep[s].skip
<1> DEFINE w == sweep[s]
           added == NewJobs(s)
<1>1. w \in SweepRecord /\ PicksFit(w, ReadyTasks, Busy)
  BY DEF AdmissionInv, FormInv, SweepsInv
<1>2. PICK n \in Nat : n = Len(jobs) /\ DOMAIN jobs = 1 .. n
  BY LenProperties DEF AdmissionInv, FormInv
<1>3. PICK l \in Nat : l = Len(w.picks) /\ DOMAIN w.picks = 1 .. l
  BY <1>1, LenProperties DEF SweepRecord
<1>4. l <= Batch /\ Batch \in Nat
  BY <1>1, <1>3 DEF PicksFit, AdmissionAssumption
<1>5. \A r \in 1 .. l : w.picks[r] \in ReadyTasks \ w.skip /\ w.picks[r] \in Tasks
  BY <1>1, <1>3 DEF PicksFit, ReadyTasks
<1>6. DOMAIN added = 1 .. l
  BY <1>3 DEF NewJobs
<1>7. ASSUME NEW r \in 1 .. l
      PROVE  added[r] \in JobRecord /\ JobFits(added[r], ReadyTasks) /\ added[r].task = w.picks[r]
  <2>1. added[r] = [task |-> w.picks[r], role |-> RoleFor(s, w.picks[r]),
                  prio |-> Priority(s, r), claimed |-> FALSE]
    BY <1>3 DEF NewJobs
  <2>2. \/ RoleFor(s, w.picks[r]) \in Bases
        \/ /\ RoleFor(s, w.picks[r]) \in Variants
           /\ Eligible(RoleFor(s, w.picks[r]), w.picks[r])
    BY <1>5, RoleFits
  <2>3. Priority(s, r) \in {40} \cup (200 .. 199 + Batch) /\ Priority(s, r) \in Nat
    BY <1>4 DEF Priority
  <2> QED
    BY <1>5, <2>1, <2>2, <2>3 DEF JobRecord, JobFits
<1>8. added \in Seq(JobRecord) /\ Len(added) = l
  <2>1. added = [r \in 1 .. l |-> added[r]]
    BY <1>3 DEF NewJobs
  <2> HIDE DEF added
  <2>2. added \in [1 .. l -> JobRecord]
    BY <1>7, <2>1
  <2>3. added \in Seq(JobRecord)
    BY <2>2, SeqDef
  <2> QED
    BY <1>6, <2>3, LenProperties
<1>9. /\ jobs' \in Seq(JobRecord) /\ DOMAIN jobs' = 1 .. n + l
      /\ \A j \in 1 .. n + l : jobs'[j] = IF j <= n THEN jobs[j] ELSE added[j - n]
  <2>0. jobs \in Seq(JobRecord) /\ jobs' = jobs \o added
    BY DEF AdmissionInv, FormInv
  <2> HIDE DEF added
  <2>1. /\ jobs' \in Seq(JobRecord) /\ Len(jobs') = Len(jobs) + Len(added)
        /\ \A j \in 1 .. Len(jobs) + Len(added) :
             jobs'[j] = IF j <= Len(jobs) THEN jobs[j] ELSE added[j - Len(jobs)]
    BY <1>8, <2>0, ConcatProperties, Zenon
  <2>2. /\ jobs' \in Seq(JobRecord) /\ Len(jobs') = n + l
        /\ \A j \in 1 .. n + l : jobs'[j] = IF j <= n THEN jobs[j] ELSE added[j - n]
    BY <1>2, <1>8, <2>1, Zenon
  <2> QED
    BY <2>2, LenProperties
<1> HIDE DEF added
<1>10. ASSUME NEW j \in DOMAIN jobs' PROVE JobFits(jobs'[j], ReadyTasks)
  <2>1. CASE j <= n
    <3>1. j \in DOMAIN jobs /\ jobs'[j] = jobs[j]
      BY <1>2, <1>9, <2>1
    <3> QED
      BY <3>1 DEF AdmissionInv, JobsInv
  <2>2. CASE ~(j <= n)
    <3>1. j - n \in 1 .. l /\ jobs'[j] = added[j - n]
      BY <1>9, <2>2
    <3> QED
      BY <1>7, <3>1
  <2> QED
    BY <2>1, <2>2
<1>11. ASSUME NEW t \in Tasks
       PROVE  /\ Cardinality(OpenOf(t)') <= 1 + Cardinality(OpenOf(t))
              /\ OpenOf(t)' = OpenOf(t) \/ t \in ReadyTasks \ w.skip
  <2>1. IsFiniteSet(OpenOf(t)) /\ Cardinality(OpenOf(t)) \in Nat
    <3>1. jobs \in Seq(JobRecord)
      BY DEF AdmissionInv, FormInv
    <3> QED
      BY <3>1, JobsFinite DEF OpenOf
  <2>2. \A j \in 1 .. n : j \in OpenOf(t)' <=> j \in OpenOf(t)
    BY <1>2, <1>9 DEF OpenOf
  <2>3. OpenOf(t) \subseteq 1 .. n /\ OpenOf(t)' \subseteq 1 .. n + l
    BY <1>2, <1>9 DEF OpenOf
  <2>4. CASE \E r \in 1 .. l : w.picks[r] = t
    <3>1. PICK r \in 1 .. l : w.picks[r] = t
      BY <2>4
    <3>2. \A q \in 1 .. l : w.picks[q] = t => q = r
      BY <1>1, <1>3, <3>1 DEF PicksFit, IsInjective
    <3>3. OpenOf(t)' \subseteq OpenOf(t) \cup {n + r}
      <4>1. ASSUME NEW j \in OpenOf(t)', j \notin 1 .. n PROVE j = n + r
        <5>1. j \in 1 .. n + l /\ jobs'[j].task = t
          BY <1>9 DEF OpenOf
        <5>2. j - n \in 1 .. l /\ ~(j <= n)
          BY <4>1, <5>1
        <5>3. jobs'[j] = added[j - n]
          BY <1>9, <5>1, <5>2
        <5>4. added[j - n].task = w.picks[j - n]
          BY <1>7, <5>2
        <5>5. j - n = r
          BY <3>2, <5>1, <5>2, <5>3, <5>4
        <5> QED
          BY <5>1, <5>5
      <4> QED
        BY <2>2, <4>1
    <3>4. /\ IsFiniteSet(OpenOf(t) \cup {n + r})
          /\ Cardinality(OpenOf(t) \cup {n + r}) \in Nat
          /\ Cardinality(OpenOf(t) \cup {n + r}) <= Cardinality(OpenOf(t)) + 1
      <4>1. /\ IsFiniteSet(OpenOf(t) \cup {n + r})
            /\ \/ Cardinality(OpenOf(t) \cup {n + r}) = Cardinality(OpenOf(t))
               \/ Cardinality(OpenOf(t) \cup {n + r}) = Cardinality(OpenOf(t)) + 1
        BY <2>1, FS_AddElement, Zenon
      <4> QED
        BY <2>1, <4>1
    <3>5. Cardinality(OpenOf(t)') <= Cardinality(OpenOf(t) \cup {n + r})
      BY <3>3, <3>4, FS_Subset
    <3>6. Cardinality(OpenOf(t)') \in Nat
      BY <3>3, <3>4, FS_Subset, FS_CardinalityType
    <3>7. t \in ReadyTasks \ w.skip
      BY <1>5, <3>1
    <3> QED
      BY <2>1, <3>4, <3>5, <3>6, <3>7
  <2>5. CASE \A r \in 1 .. l : w.picks[r] # t
    <3>1. ASSUME NEW j \in OpenOf(t)' PROVE j \in 1 .. n
      <4>1. j \in 1 .. n + l /\ jobs'[j].task = t
        BY <1>9 DEF OpenOf
      <4>2. ASSUME ~(j <= n) PROVE FALSE
        <5>1. j - n \in 1 .. l /\ jobs'[j] = added[j - n]
          BY <1>9, <4>1, <4>2
        <5> QED
          BY <1>7, <2>5, <4>1, <5>1
      <4> QED
        BY <4>1, <4>2
    <3>2. OpenOf(t)' = OpenOf(t)
      BY <2>2, <2>3, <3>1
    <3> QED
      BY <2>1, <3>2
  <2> QED
    BY <2>4, <2>5
<1> QED
  BY <1>9, <1>10, <1>11

\* A sweep that commits: it has not seen the jobs of those that committed since it began, and
\* is counted for that; the sweeps under way have not seen its jobs.
LEMMA CommitKeeps ==
  ASSUME AdmissionInv, AdmissionAssumption, NEW s \in Sweepers, CommitSweep(s)
  PROVE  AdmissionInv'
<1>1. sweep[s] # None /\ jobs' = jobs \o NewJobs(s)
  BY DEF CommitSweep
<1>2. /\ jobs' \in Seq(JobRecord)
      /\ \A j \in DOMAIN jobs' : JobFits(jobs'[j], ReadyTasks)
      /\ \A t \in Tasks :
           /\ Cardinality(OpenOf(t)') <= 1 + Cardinality(OpenOf(t))
           /\ OpenOf(t)' = OpenOf(t) \/ t \in ReadyTasks \ sweep[s].skip
  BY <1>1, JobsAdded
<1>3. ReadyTasks' = ReadyTasks
  BY DEF CommitSweep, ReadyTasks
<1>4. sweep' \in [Sweepers -> SweepRecord \cup {None}]
  <2>1. ASSUME NEW u \in Sweepers, u # s, sweep[u] # None
        PROVE  [sweep[u] EXCEPT !.overtaken = TRUE] \in SweepRecord
    BY <2>1 DEF AdmissionInv, FormInv, SweepRecord
  <2> QED
    BY <2>1 DEF CommitSweep
<1>5. overlaps \in Nat /\ overlaps' \in Nat
  BY DEF CommitSweep, AdmissionInv, FormInv
<1>6. FormInv'
  BY <1>2, <1>3, <1>4, <1>5 DEF CommitSweep, AdmissionInv, FormInv, JobRecord, SweepRecord
<1>7. JobsInv'
  BY <1>2, <1>3 DEF JobsInv, JobFits
<1>8. SweepsInv'
  <2>1. ASSUME NEW u \in Sweepers, sweep'[u] # None
        PROVE  PicksFit(sweep'[u], ReadyTasks, Busy')
    <3>1. /\ u # s /\ sweep[u] # None
          /\ sweep'[u] = [sweep[u] EXCEPT !.overtaken = TRUE]
      BY <2>1 DEF CommitSweep
    <3>2. sweep[u] \in SweepRecord /\ PicksFit(sweep[u], ReadyTasks, Busy)
      BY <3>1 DEF AdmissionInv, FormInv, SweepsInv
    <3> QED
      BY <3>1, <3>2 DEF PicksFit, SweepRecord
  <2> QED
    BY <1>3, <2>1 DEF SweepsInv
<1>9. FewOpenJobs'
  <2>1. jobs \in Seq(JobRecord) /\ jobs' \in Seq(JobRecord)
    BY <1>2 DEF AdmissionInv, FormInv
  <2>2. ASSUME NEW t \in Tasks
        PROVE  /\ Cardinality(OpenOf(t)) \in Nat /\ Cardinality(OpenOf(t)') \in Nat
               /\ Cardinality(OpenOf(t)) <= 1 + overlaps
    <3>1. Cardinality(OpenOf(t)) \in Nat /\ Cardinality(OpenOf(t)') \in Nat
      BY <2>1, JobsFinite DEF OpenOf
    <3> QED
      BY <3>1 DEF AdmissionInv, FewOpenJobs
  <2>3. ASSUME NEW t \in Tasks PROVE Cardinality(OpenOf(t)') <= 1 + overlaps'
    <3>1. CASE sweep[s].overtaken
      <4>1. overlaps' = overlaps + 1
        BY <3>1 DEF CommitSweep
      <4>2. Cardinality(OpenOf(t)') <= 1 + Cardinality(OpenOf(t))
        BY <1>2
      <4> QED
        BY <1>5, <2>2, <4>1, <4>2
    <3>2. CASE ~sweep[s].overtaken
      <4>1. overlaps' = overlaps
        BY <1>5, <3>2 DEF CommitSweep
      <4>2. CASE OpenOf(t)' = OpenOf(t)
        BY <2>2, <4>1, <4>2
      <4>3. CASE t \notin sweep[s].skip
        <5>1. t \notin Busy
          BY <1>1, <3>2, <4>3 DEF AdmissionInv, SweepsInv, PicksFit
        <5>2. OpenOf(t) = {}
          BY <5>1 DEF Busy, OpenOf
        <5>3. Cardinality(OpenOf(t)) = 0
          BY <5>2, FS_EmptySet
        <5>4. Cardinality(OpenOf(t)') <= 1 + Cardinality(OpenOf(t))
          BY <1>2
        <5> QED
          BY <1>5, <2>2, <4>1, <5>3, <5>4
      <4> QED
        BY <1>2, <4>2, <4>3
    <3> QED
      BY <3>1, <3>2
  <2> QED
    BY <2>3 DEF FewOpenJobs
<1> QED
  BY <1>6, <1>7, <1>8, <1>9 DEF AdmissionInv

\* The other steps of a sweep.
LEMMA SweepKeeps ==
  ASSUME AdmissionInv, AdmissionAssumption, NEW s \in Sweepers,
         ReadBusy(s) \/ ReadTasks(s) \/ AbortSweep(s)
  PROVE  AdmissionInv'
<1>0. /\ MaxFailures \in Nat /\ Batch \in Nat
      /\ failures \in 0 .. MaxFailures
  BY DEF AdmissionAssumption, AdmissionInv, FormInv
<1>1. CASE ReadBusy(s)
  <2> DEFINE w == [skip |-> Busy, picks |-> <<>>, overtaken |-> FALSE]
  <2>1. Busy \subseteq Tasks
    BY DEF AdmissionInv, JobsInv, JobFits, Busy, ReadyTasks
  <2>2. <<>> \in Seq(Tasks) /\ Len(<<>>) = 0 /\ DOMAIN <<>> = {}
    BY EmptySeq, LenProperties
  <2>3. w \in SweepRecord
    BY <2>1, <2>2 DEF SweepRecord
  <2>4. PicksFit(w, ReadyTasks, Busy)
    BY <1>0, <2>2 DEF PicksFit, IsInjective
  <2>5. /\ sweep' = [sweep EXCEPT ![s] = w] /\ failures' \in 0 .. MaxFailures
        /\ task' = task /\ jobs' = jobs /\ blocks' = blocks /\ overlaps' = overlaps
    BY <1>0, <1>1 DEF ReadBusy
  <2> HIDE DEF w
  <2> QED
    BY <2>3, <2>4, <2>5, SweepChanged
<1>2. CASE ReadTasks(s)
  <2> DEFINE was == sweep[s]
             picks == FirstOf(Candidates(s, was.skip), Batch)
             w == IF picks = <<>> THEN None ELSE [was EXCEPT !.picks = picks]
  <2>1. was # None /\ was \in SweepRecord /\ PicksFit(was, ReadyTasks, Busy)
    BY <1>2 DEF ReadTasks, AdmissionInv, FormInv, SweepsInv
  <2>2. PICK S \in SUBSET (ReadyTasks \ was.skip) : Ordered(Candidates(s, was.skip), S)
    BY CandidatesOrdered DEF AdmissionInv
  <2>3. Ordered(picks, S) /\ Len(picks) <= Batch
    BY <1>0, <2>2, BatchOrdered
  <2>4. /\ sweep' = [sweep EXCEPT ![s] = w] /\ failures' \in 0 .. MaxFailures
        /\ task' = task /\ jobs' = jobs /\ blocks' = blocks /\ overlaps' = overlaps
    BY <1>0, <1>2 DEF ReadTasks
  <2> HIDE DEF picks
  <2>5. picks \in Seq(Tasks) /\ \A r \in DOMAIN picks : picks[r] \in ReadyTasks \ was.skip
    <3>1. picks \in Seq(S)
      BY <2>3 DEF Ordered
    <3>2. PICK n \in Nat : n = Len(picks) /\ DOMAIN picks = 1 .. n
      BY <3>1, LenProperties
    <3>3. \A r \in 1 .. n : picks[r] \in S
      BY <3>1, <3>2, ElementOfSeq
    <3>4. picks = [r \in 1 .. n |-> picks[r]]
      BY <3>1, <3>2, LenProperties, SeqDef
    <3>5. picks \in [1 .. n -> Tasks]
      BY <3>3, <3>4 DEF ReadyTasks
    <3> QED
      BY <3>2, <3>3, <3>5, SeqDef
  <2>6. w # None => w \in SweepRecord /\ PicksFit(w, ReadyTasks, Busy)
    <3>1. [was EXCEPT !.picks = picks] \in SweepRecord
      BY <2>1, <2>5 DEF SweepRecord
    <3>2. PicksFit([was EXCEPT !.picks = picks], ReadyTasks, Busy)
      BY <2>1, <2>3, <2>5 DEF PicksFit, IsInjective, Ordered, SweepRecord
    <3> QED
      BY <3>1, <3>2
  <2> HIDE DEF w
  <2> QED
    BY <2>4, <2>6, SweepChanged
<1>3. CASE AbortSweep(s)
  <2>1. /\ sweep' = [sweep EXCEPT ![s] = None] /\ failures' \in 0 .. MaxFailures
        /\ task' = task /\ jobs' = jobs /\ blocks' = blocks /\ overlaps' = overlaps
    BY <1>0, <1>3 DEF AbortSweep
  <2> QED
    BY <2>1, SweepChanged
<1> QED
  BY <1>1, <1>2, <1>3

\* A task becomes ready, or is blocked: no job of it is touched.
LEMMA TaskKeeps ==
  ASSUME AdmissionInv, AdmissionAssumption, NEW t \in Tasks,
         BecomesReady(t) \/ InfraFailure(t)
  PROVE  AdmissionInv'
<1>1. /\ jobs' = jobs /\ sweep' = sweep /\ failures' = failures /\ overlaps' = overlaps
      /\ blocks' \in 0 .. MaxBlocks
      /\ \E x \in {"todo", "blocked"} : task' = [task EXCEPT ![t] = x]
  <2>1. MaxBlocks \in Nat /\ blocks \in 0 .. MaxBlocks
    BY DEF AdmissionAssumption, AdmissionInv, FormInv
  <2> QED
    BY <2>1 DEF BecomesReady, InfraFailure
<1>2. task \in [Tasks -> {"new", "todo", "away", "blocked"}] /\ IsFiniteSet(ReadyTasks)
  BY DEF AdmissionInv, FormInv
<1>3. ReadyTasks' = ReadyTasks \cup {t}
  BY <1>1, <1>2 DEF ReadyTasks
<1>4. IsFiniteSet(ReadyTasks')
  BY <1>2, <1>3, FS_AddElement
<1>5. FormInv'
  BY <1>1, <1>2, <1>4 DEF AdmissionInv, FormInv, JobRecord, SweepRecord
<1>6. \A u \in Tasks : OpenOf(u)' = OpenOf(u) /\ Cardinality(OpenOf(u)) \in Nat
  <2>1. jobs \in Seq(JobRecord)
    BY DEF AdmissionInv, FormInv
  <2> QED
    BY <1>1, <2>1, JobsFinite DEF OpenOf
<1>7. \A u \in Tasks : Cardinality(OpenOf(u)') <= Cardinality(OpenOf(u))
  BY <1>6
<1> QED
  BY <1>1, <1>3, <1>5, <1>7, NothingAdded

\* A claim changes no job but for being claimed.
LEMMA ClaimKeeps ==
  ASSUME AdmissionInv, AdmissionAssumption, Claim
  PROVE  AdmissionInv'
<1>1. PICK i \in DOMAIN jobs : jobs' = [jobs EXCEPT ![i].claimed = TRUE]
  BY DEF Claim
<1>2. /\ task' = task /\ sweep' = sweep /\ failures' = failures /\ blocks' = blocks
      /\ overlaps' = overlaps
  BY DEF Claim
<1>3. jobs \in Seq(JobRecord)
  BY DEF AdmissionInv, FormInv
<1>4. PICK n \in Nat : n = Len(jobs) /\ DOMAIN jobs = 1 .. n
  BY <1>3, LenProperties
<1>5. DOMAIN jobs' = 1 .. n /\ jobs' = [j \in 1 .. n |-> jobs'[j]]
  BY <1>1, <1>3, <1>4, LenProperties, SeqDef
<1>6. \A j \in 1 .. n :
        /\ jobs[j] \in JobRecord
        /\ jobs'[j] = IF j = i THEN [jobs[i] EXCEPT !.claimed = TRUE] ELSE jobs[j]
  BY <1>1, <1>3, <1>4, ElementOfSeq
<1>7. \A j \in 1 .. n :
        /\ jobs'[j] \in JobRecord
        /\ jobs'[j].task = jobs[j].task
        /\ jobs'[j].role = jobs[j].role /\ jobs'[j].prio = jobs[j].prio
  BY <1>6 DEF JobRecord
<1>8. jobs' \in Seq(JobRecord)
  BY <1>5, <1>7, SeqDef
<1>9. FormInv'
  BY <1>2, <1>8 DEF AdmissionInv, FormInv, ReadyTasks, JobRecord, SweepRecord
<1>10. \A t \in Tasks : OpenOf(t)' = OpenOf(t) /\ Cardinality(OpenOf(t)) \in Nat
  <2>1. \A t \in Tasks : OpenOf(t)' = OpenOf(t)
    BY <1>4, <1>5, <1>7 DEF OpenOf
  <2>2. \A t \in Tasks : Cardinality(OpenOf(t)) \in Nat
    BY <1>3, JobsFinite DEF OpenOf
  <2> QED
    BY <2>1, <2>2
<1>11. \A t \in Tasks : Cardinality(OpenOf(t)') <= Cardinality(OpenOf(t))
  BY <1>10
<1>12. ReadyTasks \subseteq ReadyTasks'
  BY <1>2 DEF ReadyTasks
<1>13. \A j \in DOMAIN jobs' : \E k \in DOMAIN jobs :
         /\ jobs'[j].task = jobs[k].task
         /\ jobs'[j].role = jobs[k].role /\ jobs'[j].prio = jobs[k].prio
  BY <1>4, <1>5, <1>7
<1> QED
  BY <1>2, <1>9, <1>11, <1>12, <1>13, NothingAdded

\* The end of a job takes it away.
LEMMA FinishKeeps ==
  ASSUME AdmissionInv, AdmissionAssumption, NEW i \in DOMAIN jobs, Succeed(i) \/ Fail(i)
  PROVE  AdmissionInv'
<1>0. FormInv
  BY DEF AdmissionInv
<1>1. /\ jobs' = RemoveAt(jobs, i) /\ sweep' = sweep /\ blocks' = blocks
      /\ overlaps' = overlaps
      /\ task' = task \/ task' = [task EXCEPT ![jobs[i].task] = "away"]
      /\ failures' \in 0 .. MaxFailures
  <2>1. MaxFailures \in Nat /\ failures \in 0 .. MaxFailures
    BY <1>0 DEF AdmissionAssumption, FormInv
  <2> QED
    BY <2>1 DEF Succeed, Fail
<1>2. jobs[i].task \in ReadyTasks
  BY DEF AdmissionInv, JobsInv, JobFits
<1>3. task' \in [Tasks -> {"new", "todo", "away", "blocked"}] /\ ReadyTasks' = ReadyTasks
  BY <1>0, <1>1, <1>2 DEF FormInv, ReadyTasks
<1>4. /\ jobs' \in Seq(JobRecord)
      /\ DOMAIN jobs = 1 .. Len(jobs) /\ Len(jobs) \in Nat
      /\ DOMAIN jobs' = 1 .. Len(jobs) - 1
      /\ \A j \in 1 .. Len(jobs) - 1 : jobs'[j] = IF j < i THEN jobs[j] ELSE jobs[j + 1]
  BY <1>0, <1>1, JobRemoved DEF FormInv
<1>5. FormInv'
  BY <1>0, <1>1, <1>3, <1>4 DEF FormInv, JobRecord, SweepRecord
<1>6. ASSUME NEW j \in DOMAIN jobs'
      PROVE  \E k \in DOMAIN jobs : jobs'[j] = jobs[k]
  <2>1. j \in DOMAIN jobs /\ j + 1 \in DOMAIN jobs
    BY <1>4
  <2> QED
    BY <1>4, <2>1
<1>7. \A t \in Tasks : Cardinality(OpenOf(t)') <= Cardinality(OpenOf(t))
  BY <1>0, <1>1, FewerJobs
<1>8. \A j \in DOMAIN jobs' : \E k \in DOMAIN jobs :
        /\ jobs'[j].task = jobs[k].task
        /\ jobs'[j].role = jobs[k].role /\ jobs'[j].prio = jobs[k].prio
  BY <1>6
<1> QED
  BY <1>1, <1>3, <1>5, <1>7, <1>8, NothingAdded

-----------------------------------------------------------------------------
(* What admission promises *)

\* It holds before anything is ready.
LEMMA AdmissionInvInit == AdmissionInit /\ AdmissionAssumption => AdmissionInv
<1> SUFFICES ASSUME AdmissionInit, AdmissionAssumption PROVE AdmissionInv
  OBVIOUS
<1>1. jobs = <<>> /\ DOMAIN jobs = {} /\ jobs \in Seq(JobRecord)
  BY EmptySeq, LenProperties DEF AdmissionInit
<1>2. ReadyTasks = {} /\ IsFiniteSet(ReadyTasks)
  BY FS_EmptySet DEF AdmissionInit, ReadyTasks
<1>3. FormInv
  BY <1>1, <1>2 DEF AdmissionInit, FormInv, AdmissionAssumption
<1>4. JobsInv
  BY <1>1 DEF JobsInv
<1>5. SweepsInv
  BY DEF AdmissionInit, SweepsInv
<1>6. FewOpenJobs
  <2>1. \A t \in Tasks : OpenOf(t) = {}
    BY <1>1 DEF OpenOf
  <2>2. Cardinality({}) = 0 /\ overlaps = 0
    BY FS_EmptySet DEF AdmissionInit
  <2> QED
    BY <2>1, <2>2 DEF FewOpenJobs
<1> QED
  BY <1>3, <1>4, <1>5, <1>6 DEF AdmissionInv

\* Every step keeps the invariant.
LEMMA AdmissionInvStep ==
  AdmissionInv /\ AdmissionAssumption /\ [AdmissionNext]_admissionVars => AdmissionInv'
<1> SUFFICES ASSUME AdmissionInv, AdmissionAssumption, [AdmissionNext]_admissionVars
             PROVE  AdmissionInv'
  OBVIOUS
<1>1. CASE \E t \in Tasks : BecomesReady(t) \/ InfraFailure(t)
  BY <1>1, TaskKeeps
<1>2. CASE \E s \in Sweepers : Sweep(s) \/ AbortSweep(s)
  BY <1>2, SweepKeeps, CommitKeeps DEF Sweep
<1>3. CASE Claim
  BY <1>3, ClaimKeeps
<1>4. CASE Finish
  BY <1>4, FinishKeeps DEF Finish
<1>5. CASE UNCHANGED admissionVars
  BY <1>5 DEF admissionVars, AdmissionInv, FormInv, JobsInv, JobFits, SweepsInv, PicksFit,
              FewOpenJobs, OpenOf, ReadyTasks, Busy, JobRecord, SweepRecord
<1> QED
  BY <1>1, <1>2, <1>3, <1>4, <1>5 DEF AdmissionNext

\* So it holds throughout.
LEMMA AdmissionInvHolds == AdmissionSpec => []AdmissionInv
<1>1. AdmissionInit => AdmissionInv
  BY AdmissionInvInit, AdmissionAssumption
<1>2. AdmissionInv /\ [AdmissionNext]_admissionVars => AdmissionInv'
  BY AdmissionInvStep, AdmissionAssumption
<1> QED
  BY <1>1, <1>2, PTL DEF AdmissionSpec

\* It says more than the types.
LEMMA AdmissionTyped == AdmissionInv => AdmissionTypeOK
<1> SUFFICES ASSUME AdmissionInv PROVE AdmissionTypeOK
  OBVIOUS
<1>1. ASSUME NEW s \in Sweepers, sweep[s] # None
      PROVE  /\ sweep[s].skip \subseteq Tasks
             /\ IsInjective(sweep[s].picks)
             /\ ToSet(sweep[s].picks) \cap sweep[s].skip = {}
  <2>1. sweep[s] \in SweepRecord /\ PicksFit(sweep[s], ReadyTasks, Busy)
    BY <1>1 DEF AdmissionInv, FormInv, SweepsInv
  <2> QED
    BY <2>1 DEF SweepRecord, PicksFit, ToSet
<1>2. \A j \in DOMAIN jobs :
        /\ jobs[j].task \in Tasks /\ task[jobs[j].task] # "new"
        /\ \/ jobs[j].role \in Bases
           \/ jobs[j].role \in Variants /\ Eligible(jobs[j].role, jobs[j].task)
        /\ jobs[j].prio \in {40} \cup (200 .. 199 + Batch)
  BY DEF AdmissionInv, JobsInv, JobFits, ReadyTasks
<1> QED
  BY <1>1, <1>2 DEF AdmissionTypeOK, AdmissionInv, FormInv

\* Every job is of a task that was ready and of a role that exists and fits it, and no sweep
\* picks a task twice or one that it has seen busy, whatever the scores, roles and scopes.
THEOREM AdmissionTypeCorrect == AdmissionSpec => []AdmissionTypeOK
  BY AdmissionInvHolds, AdmissionTyped, PTL

\* A task has no more open jobs than one, and one for each time that a sweep committed
\* without having seen the jobs of another, for every number of tasks, sweeps and roles.
THEOREM OneJobAtATime == AdmissionSpec => []OneOpenJob
<1>1. AdmissionInv => OneOpenJob
  BY DEF AdmissionInv, FewOpenJobs, OpenOf, OneOpenJob
<1> QED
  BY <1>1, AdmissionInvHolds, PTL

=============================================================================
