---------------------------- MODULE PipelineProofs ----------------------------
(***************************************************************************)
(* Proofs, for every number of daemons, jobs and requests, of safety       *)
(* properties of Pipeline: what may be merged, how often work bounces,     *)
(* when a task has a blocked_reason, and, of a task that nobody else       *)
(* touches, that every block is followed up and no work is lost.           *)
(***************************************************************************)
EXTENDS Pipeline, TLAPS

-----------------------------------------------------------------------------
(* The inductive invariant, part by part *)

\* The commits on the branch a job is to fork from.
Commits(parent) == IF parent = None THEN {} ELSE parent

\* Everything on the branches of a job.
Holds(j) == j.work \cup Commits(j.parent)

\* Jobs have ids of their own, and branches hold commits of jobs that exist.
IdInv ==
  /\ \A j \in open : j.id < nextId
  /\ \A j, k \in open : j.id = k.id => j = k
  /\ \A j \in open : \A c \in Holds(j) : c < nextId
  /\ \A c \in merged \cup delivered : c < nextId

\* The commit of an open job is on its own branch only.
OwnInv ==
  \A j \in open :
    /\ j.id \notin merged \cup delivered
    /\ j.id \notin Commits(j.parent)
    /\ j.role \notin {"dev", "devops"} => j.id \notin j.work
    /\ \A k \in open \ {j} : j.id \notin Holds(k)

\* Work of dev that reaches QA, devops or the merge stage was reviewed.
ReviewedInv ==
  /\ merged \cap delivered \subseteq reviewed
  /\ \A j \in open :
       j.role \in {"qa", "devops", "merge"} => Holds(j) \cap delivered \subseteq reviewed

\* What the merge stage is given has passed QA.
TestedInv ==
  /\ merged \subseteq tested
  /\ \A j \in open : j.role = "merge" => Holds(j) \subseteq tested

\* A merge under way has passed the gate.
GateInv ==
  /\ MergeNeedsApprovals
  /\ \A j \in open : j.role = "merge" /\ j.phase = "running" => Gate

\* A claim that a watchdog sweep has read was of a job like the open ones.
ClaimInv ==
  stale # None =>
    /\ \A c \in Commits(stale.parent) : c < nextId
    /\ \A j \in open : j.id \notin Commits(stale.parent)
    /\ stale.role \in {"qa", "devops", "merge"} =>
         Commits(stale.parent) \cap delivered \subseteq reviewed
    /\ stale.role = "merge" => Commits(stale.parent) \subseteq tested

\* Without overlapping transactions, bounce_count counts the reworks.
BounceInv == raced \/ (reworks <= MaxBounce /\ reworks <= row.bounce)

\* What a finalization or a request remembers is of the right kind.
ReadInv ==
  /\ \A j \in open : j.phase = "closing" => j.seen \in Row
  /\ human # None =>
       /\ human.op = "assign" => human.arg \in Roles
       /\ human.op \in {"advance", "edit"} => human.arg \in Statuses

\* Of a task left to itself, the one job is of the role its status calls for, and a
\* verdict under way was read from the row as it is.
StageOf(j) ==
  /\ j.role \in {"design", "dev", "reviewer", "qa", "devops", "merge"}
  /\ j.role = "design" => row.status = "todo"
  /\ j.role = "dev" => row.status \in {"todo", "in_progress"}
  /\ j.role = "reviewer" => row.status = "in_review"
  /\ j.role \in {"qa", "merge"} => row.status = "in_qa"
  /\ j.role = "devops" => row.status = "blocked" /\ row.reason = "infra_failure"
  /\ j.phase = "merged" => j.role = "merge"
  /\ j.phase = "closing" => j.seen = row
  /\ j.phase = "closing" /\ j.role \in Agents => j.outcome \in Outcomes[j.role]
  /\ j.phase = "closing" /\ j.role = "merge" => j.outcome # "failure"

AloneInv ==
  Undisturbed =>
    /\ human = None /\ ~edited /\ ~raced
    /\ \A j, k \in open : j = k
    /\ \A j \in open : StageOf(j)
    /\ row.status = "blocked" <=> row.reason # None
    /\ incidents <= 1
    /\ incidents = 1 => row.status = "blocked"
    /\ ~gaveUp /\ open = {} => row.status \in {"todo", "blocked", "done"}
    /\ row.status = "done" => open = {}

\* Its job has all the work of dev so far on its branch, or will when it starts.
WorkInv ==
  Undisturbed /\ ~detached =>
    /\ \A j \in open :
         /\ delivered \subseteq Commits(j.parent)
         /\ j.phase \in {"running", "closing"} /\ j.role \in Agents =>
              /\ delivered \subseteq j.work
              /\ j.role = "dev" => j.id \in j.work
         /\ j.role = "merge" => delivered \subseteq tested
    /\ row.status = "done" => delivered \subseteq tested

IInv ==
  /\ TypeOK
  /\ ReadInv
  /\ ReasonOnlyWhileBlocked
  /\ BounceInv
  /\ IdInv
  /\ OwnInv
  /\ ReviewedInv
  /\ TestedInv
  /\ GateInv
  /\ ClaimInv
  /\ AloneInv
  /\ WorkInv

-----------------------------------------------------------------------------
(* Typing *)

\* A commit keeps the row well-formed.
LEMMA WriteTyped ==
  ASSUME row \in Row, raced \in BOOLEAN, NEW seen \in Row, NEW new \in Row, Write(seen, new)
  PROVE  row' \in Row /\ raced' \in BOOLEAN
BY DEF Write, Row

\* Adding a job, or none, keeps the jobs well-formed.
LEMMA ReplaceTyped ==
  ASSUME TypeOK, NEW kept \in SUBSET open, NEW role \in Roles \cup {None},
         NEW parent \in {None} \cup SUBSET Ids, Replace(kept, role, parent)
  PROVE  /\ \A k \in open' : k \in JobRecord
         /\ nextId' \in 1 .. MaxJobs + 1
         /\ detached' \in BOOLEAN
         /\ \A k \in open' : k \in open \/ k.phase = "queued"
<1>1. CASE role = None
  BY <1>1 DEF Replace, TypeOK
<1>2. CASE role # None
  <2>1. nextId \in Ids /\ MaxJobs \in Nat
    BY <1>2, PipelineAssumption DEF Replace, TypeOK, Ids
  <2>2. Job(role, parent) \in JobRecord
    BY <2>1, <1>2 DEF Job, JobRecord
  <2>3. /\ open' = kept \cup {Job(role, parent)}
        /\ nextId' = nextId + 1
        /\ detached' = (detached \/ (parent = None /\ delivered # {}))
    BY <1>2 DEF Replace
  <2>4. Job(role, parent).phase = "queued"
    BY DEF Job
  <2>5. nextId' \in 1 .. MaxJobs + 1 /\ detached' \in BOOLEAN
    BY <2>1, <2>3 DEF Ids, TypeOK
  <2> QED
    BY <2>2, <2>3, <2>4, <2>5 DEF TypeOK
<1> QED
  BY <1>1, <1>2

\* Changing an open job keeps the jobs well-formed.
LEMMA ChangeTyped ==
  ASSUME TypeOK, NEW j \in open, NEW k \in JobRecord, Change(j, k)
  PROVE  \A m \in open' : m \in JobRecord
BY DEF Change, TypeOK

\* A task starts well-formed.
LEMMA TypeInit == Init => TypeOK /\ ReadInv
<1> SUFFICES ASSUME Init PROVE TypeOK /\ ReadInv
  OBVIOUS
<1>1. row \in Row
  BY DEF Init, Row, Statuses, Buckets
<1>2. /\ nextId \in 1 .. MaxJobs + 1
      /\ touches \in 0 .. MaxTouches /\ slips \in 0 .. MaxSlips
      /\ incidents \in Nat /\ reworks \in Nat
  BY PipelineAssumption DEF Init
<1>3. {detached, gaveUp, edited, raced, doubled} \subseteq BOOLEAN
  BY DEF Init
<1> QED
  BY <1>1, <1>2, <1>3 DEF Init, TypeOK, ReadInv

\* Each agent's outcomes are outcomes.
LEMMA KnownOutcomes ==
  \A r \in Agents : Outcomes[r] \subseteq {"success", "failure", "human", "infra", "conflict"}
<1> SUFFICES ASSUME NEW r \in Agents
             PROVE  Outcomes[r] \subseteq {"success", "failure", "human", "infra", "conflict"}
  OBVIOUS
<1>1. CASE r \in {"design", "dev", "pm"}
  BY <1>1 DEF Outcomes
<1>2. CASE r \in {"reviewer", "qa", "devops"}
  BY <1>2 DEF Outcomes
<1> QED
  BY <1>1, <1>2 DEF Agents

\* What the watchdog remembers of a task.
WatchTyped ==
  /\ late \subseteq Ids
  /\ stale = None \/ stale \in [id : {0} \cup Ids, role : Roles,
                               parent : {None} \cup SUBSET Ids]
  /\ slips \in 0 .. MaxSlips

\* A job that starts makes a claim read before an old one.
LEMMA AgeTyped ==
  ASSUME TypeOK, NEW j \in open, AgeStale(j), UNCHANGED <<late, slips>>
  PROVE  WatchTyped'
<1>1. stale # None => [stale EXCEPT !.id = 0] \in
        [id : {0} \cup Ids, role : Roles, parent : {None} \cup SUBSET Ids]
  BY DEF TypeOK
<1> QED
  BY <1>1 DEF TypeOK, AgeStale, WatchTyped, Ids

\* The frame of the steps of a job on its way to a verdict.
LEMMA JobsFrame ==
  ASSUME TypeOK, ReadInv, UnchangedByJobs, UNCHANGED <<row, raced>>, WatchTyped',
         marks' \subseteq Roles,
         merged' \cup delivered' \cup reviewed' \cup tested' \subseteq Ids, gaveUp' \in BOOLEAN,
         \A k \in open' : k \in JobRecord,
         \A k \in open' : k.phase = "closing" => k.seen \in Row
  PROVE  TypeOK' /\ ReadInv'
BY DEF TypeOK, ReadInv, UnchangedByJobs, sweepVars, WatchTyped, JobRecord, Row, Ids

\* What an action on an open job knows of it.
LEMMA JobFields ==
  ASSUME TypeOK, NEW j \in open
  PROVE  /\ j \in JobRecord
         /\ j.id \in Ids /\ j.role \in Roles /\ j.work \subseteq Ids
         /\ Commits(j.parent) \subseteq Ids
         /\ j.parent # None => j.parent \subseteq Ids
BY DEF TypeOK, JobRecord, Commits

\* The steps of a job up to its verdict keep every variable in its type.
LEMMA TypeJobs ==
  ASSUME TypeOK, ReadInv, NEW j \in open,
         \/ Start(j) \/ Requeue(j) \/ GiveUp(j) \/ Finish(j)
         \/ StartMerge(j) \/ MergeBranch(j) \/ FinishMerge(j)
  PROVE  TypeOK' /\ ReadInv'
<1>a. /\ j \in JobRecord
      /\ j.id \in Ids /\ j.role \in Roles /\ j.work \subseteq Ids
      /\ Commits(j.parent) \subseteq Ids
      /\ j.parent # None => j.parent \subseteq Ids
  BY JobFields
<1>b. \A k \in open : k.phase = "closing" => k.seen \in Row
  BY DEF ReadInv
<1>c. /\ row \in Row /\ marks \subseteq Roles /\ gaveUp \in BOOLEAN
      /\ merged \cup delivered \cup reviewed \cup tested \subseteq Ids
      /\ \A k \in open : k \in JobRecord
  BY DEF TypeOK
<1>d. ASSUME UNCHANGED watchVars PROVE WatchTyped'
  BY <1>d DEF TypeOK, watchVars, WatchTyped, Ids
<1> USE DEF workVars
<1>1. ASSUME Start(j) PROVE TypeOK' /\ ReadInv'
  <2> DEFINE base == IF j.parent = None THEN merged ELSE j.parent
             own  == IF j.role \in {"dev", "devops"} THEN {j.id} ELSE {}
             k    == [j EXCEPT !.phase = "running", !.work = base \cup own]
  <2>1. base \cup own \subseteq Ids
    BY <1>a, <1>c
  <2>2. k \in JobRecord /\ k.phase = "running"
    BY <1>a, <2>1 DEF JobRecord
  <2>3. Change(j, k) /\ UnchangedByJobs /\ UNCHANGED <<row, workVars, gaveUp, raced>>
    BY <1>1 DEF Start, BaseBranch
  <2>4. WatchTyped'
    BY <1>1, AgeTyped DEF Start
  <2> HIDE DEF k
  <2> QED
    BY <2>2, <2>3, <2>4, <1>b, <1>c, JobsFrame DEF Change
<1>2. ASSUME Requeue(j) PROVE TypeOK' /\ ReadInv'
  <2> DEFINE k == [j EXCEPT !.phase = "queued", !.work = {}]
  <2>2. k \in JobRecord /\ k.phase = "queued"
    BY <1>a DEF JobRecord
  <2>3. Change(j, k) /\ UnchangedByJobs /\ UNCHANGED <<row, workVars, gaveUp, raced>>
    BY <1>2 DEF Requeue
  <2>4. WatchTyped'
    BY <1>2 DEF Requeue, TypeOK, WatchTyped, Ids
  <2> HIDE DEF k
  <2> QED
    BY <2>2, <2>3, <2>4, <1>b, <1>c, JobsFrame DEF Change
<1>3. ASSUME GiveUp(j) PROVE TypeOK' /\ ReadInv'
  BY <1>3, <1>b, <1>c, <1>d, JobsFrame DEF GiveUp
<1>4. ASSUME NEW o \in {"success", "failure", "human", "infra", "conflict"},
             Change(j, [j EXCEPT !.phase = "closing", !.outcome = o, !.seen = row]),
             UnchangedByJobs, UNCHANGED <<row, watchVars, workVars, gaveUp, raced>>
      PROVE  TypeOK' /\ ReadInv'
  <2> DEFINE k == [j EXCEPT !.phase = "closing", !.outcome = o, !.seen = row]
  <2>2. k \in JobRecord /\ k.seen = row
    BY <1>a, <1>c DEF JobRecord
  <2>3. Change(j, k)
    BY <1>4
  <2> HIDE DEF k
  <2> QED
    BY <2>2, <2>3, <1>4, <1>b, <1>c, <1>d, JobsFrame DEF Change
<1>5. ASSUME Finish(j) PROVE TypeOK' /\ ReadInv'
  <2>1. PICK o \in Outcomes[j.role] :
          Change(j, [j EXCEPT !.phase = "closing", !.outcome = o, !.seen = row])
    BY <1>5 DEF Finish
  <2>2. o \in {"success", "failure", "human", "infra", "conflict"}
    BY <1>5, KnownOutcomes DEF Finish
  <2>3. UnchangedByJobs /\ UNCHANGED <<row, watchVars, workVars, gaveUp, raced>>
    BY <1>5 DEF Finish
  <2> QED
    BY <2>1, <2>2, <2>3, <1>4
<1>6. ASSUME StartMerge(j) PROVE TypeOK' /\ ReadInv'
  <2>1. CASE Gate /\ j.parent # None
             /\ Change(j, [j EXCEPT !.phase = "running", !.work = j.parent])
    <3> DEFINE k == [j EXCEPT !.phase = "running", !.work = j.parent]
    <3>2. k \in JobRecord /\ k.phase = "running"
      BY <1>a, <2>1 DEF JobRecord
    <3>3. Change(j, k) /\ UnchangedByJobs
          /\ UNCHANGED <<row, watchVars, workVars, gaveUp, raced>>
      BY <1>6, <2>1 DEF StartMerge
    <3> HIDE DEF k
    <3> QED
      BY <3>2, <3>3, <1>b, <1>c, <1>d, JobsFrame DEF Change
  <2>2. CASE Change(j, [j EXCEPT !.phase = "closing", !.outcome = "human", !.seen = row])
    BY <2>2, <1>4, <1>6 DEF StartMerge
  <2> QED
    BY <2>1, <2>2, <1>6 DEF StartMerge
<1>7. ASSUME MergeBranch(j) PROVE TypeOK' /\ ReadInv'
  <2> DEFINE k == [j EXCEPT !.phase = "merged"]
  <2>1. merged' \subseteq Ids
    BY <1>7, <1>a, <1>c DEF MergeBranch
  <2>2. k \in JobRecord /\ k.phase = "merged"
    BY <1>a DEF JobRecord
  <2>3. Change(j, k) /\ UnchangedByJobs
        /\ UNCHANGED <<row, watchVars, marks, delivered, reviewed, tested, gaveUp, raced>>
    BY <1>7 DEF MergeBranch
  <2> HIDE DEF k
  <2> QED
    BY <2>1, <2>2, <2>3, <1>b, <1>c, <1>d, JobsFrame DEF Change
<1>8. ASSUME FinishMerge(j) PROVE TypeOK' /\ ReadInv'
  <2>1. PICK o \in {"conflict", "human", "infra", "success"} :
          Change(j, [j EXCEPT !.phase = "closing", !.outcome = o, !.seen = row])
    BY <1>8 DEF FinishMerge
  <2> QED
    BY <2>1, <1>4, <1>8 DEF FinishMerge
<1> QED
  BY <1>1, <1>2, <1>3, <1>5, <1>6, <1>7, <1>8

\* The frame of a finalization.
LEMMA FinalFrame ==
  ASSUME TypeOK, ReadInv, NEW j \in open, j.phase = "closing", NEW new \in Row,
         Write(j.seen, new),
         NEW role \in Roles \cup {None}, NEW parent \in {None} \cup SUBSET Ids,
         Replace(open \ {j}, role, parent),
         incidents' \in Nat, reworks' \in Nat, needsUi' \in BOOLEAN, marks' \subseteq Roles,
         merged' \cup delivered' \cup reviewed' \cup tested' \subseteq Ids,
         UNCHANGED <<human, touches, sweepVars, watchVars, gaveUp, edited>>
  PROVE  TypeOK' /\ ReadInv'
<1>1. row' \in Row /\ raced' \in BOOLEAN
  BY WriteTyped DEF TypeOK, ReadInv
<1>2. /\ \A k \in open' : k \in JobRecord
      /\ nextId' \in 1 .. MaxJobs + 1
      /\ detached' \in BOOLEAN
      /\ \A k \in open' : k \in open \/ k.phase = "queued"
  <2>1. open \ {j} \in SUBSET open
    OBVIOUS
  <2> QED
    BY <2>1, ReplaceTyped
<1>3. ReadInv'
  BY <1>2 DEF ReadInv
<1> QED
  BY <1>1, <1>2, <1>3 DEF TypeOK, sweepVars, watchVars, JobRecord, Row, Ids

\* The frame of a request's or command's commit.
LEMMA HumanFrame ==
  ASSUME TypeOK, ReadInv, human # None, NEW new \in Row, Write(human.seen, new),
         NEW role \in Roles \cup {None}, Replace(open, role, None),
         incidents' \in Nat, reworks' \in Nat, edited' \in BOOLEAN, human' = None,
         UnchangedByHumans, touches' = touches
  PROVE  TypeOK' /\ ReadInv'
<1>1. human.seen \in Row
  BY DEF TypeOK
<1>2. row' \in Row /\ raced' \in BOOLEAN
  BY <1>1, WriteTyped DEF TypeOK
<1>3. /\ \A k \in open' : k \in JobRecord
      /\ nextId' \in 1 .. MaxJobs + 1
      /\ detached' \in BOOLEAN
      /\ \A k \in open' : k \in open \/ k.phase = "queued"
  BY ReplaceTyped
<1>4. ReadInv'
  BY <1>3 DEF ReadInv
<1> QED
  BY <1>2, <1>3, <1>4
  DEF TypeOK, UnchangedByHumans, sweepVars, watchVars, workVars, JobRecord, Row, Ids

\* The stages of the chain and their statuses exist.
LEMMA KnownChain ==
  \A r \in DOMAIN Chain : Chain[r].next \in Roles \cup {None} /\ Chain[r].status \in Statuses
<1> SUFFICES ASSUME NEW r \in DOMAIN Chain
             PROVE  Chain[r].next \in Roles \cup {None} /\ Chain[r].status \in Statuses
  OBVIOUS
<1>1. CASE r \in {"design", "dev"}
  BY <1>1 DEF Chain, Roles, Agents, Statuses
<1>2. CASE r \in {"reviewer", "qa", "devops"}
  BY <1>2 DEF Chain, Roles, Agents, Statuses
<1> QED
  BY <1>1, <1>2 DEF Chain

\* Incidents are counted in Nat.
LEMMA IncidentsTyped ==
  ASSUME incidents \in Nat, ResolveIncidents \/ OpenIncident \/ UNCHANGED incidents
  PROVE  incidents' \in Nat
BY DEF ResolveIncidents, OpenIncident

\* Blocking a task keeps every variable in its type.
LEMMA TypeBlock ==
  ASSUME TypeOK, ReadInv, NEW j \in open, j.phase = "closing", NEW new \in Row,
         NEW reason \in Buckets, Block(j, new, reason),
         UNCHANGED <<needsUi, human, touches, sweepVars, watchVars, workVars, gaveUp, edited>>
  PROVE  TypeOK' /\ ReadInv'
<1> DEFINE blocked == [new EXCEPT !.status = "blocked", !.reason = reason]
<1>1. blocked \in Row
  BY DEF Row, Statuses
<1>2. /\ Write(j.seen, blocked)
      /\ Replace(open \ {j}, None, None)
      /\ reworks' = reworks
      /\ OpenIncident \/ UNCHANGED incidents
  BY DEF Block
<1>3. incidents' \in Nat
  BY <1>2, IncidentsTyped DEF TypeOK
<1> HIDE DEF blocked
<1> QED
  BY <1>1, <1>2, <1>3, FinalFrame DEF TypeOK, workVars

\* Finalizations keep every variable in its type.
LEMMA TypeFinal ==
  ASSUME TypeOK, ReadInv, NEW j \in open,
         Escalate(j) \/ Reject(j) \/ Succeed(j) \/ SucceedMerge(j)
  PROVE  TypeOK' /\ ReadInv'
<1>a. /\ j.work \subseteq Ids /\ j.id \in Ids
      /\ j.phase = "closing" /\ j.seen \in Row
  BY JobFields DEF ReadInv, Escalate, Reject, Succeed, CaptureDesignOutput, SucceedMerge
<1>b. /\ incidents \in Nat /\ reworks \in Nat /\ needsUi \in BOOLEAN /\ marks \subseteq Roles
      /\ merged \cup delivered \cup reviewed \cup tested \subseteq Ids
  BY DEF TypeOK
<1>1. ASSUME Escalate(j) PROVE TypeOK' /\ ReadInv'
  <2>1. PICK reason \in Buckets : Block(j, j.seen, reason)
    BY <1>1 DEF Escalate, Buckets
  <2> QED
    BY <2>1, <1>1, <1>a, TypeBlock DEF Escalate
<1>2. ASSUME Reject(j) PROVE TypeOK' /\ ReadInv'
  <2> DEFINE new == [j.seen EXCEPT !.bounce = @ + 1]
             sent == [new EXCEPT !.status = "in_progress", !.reason = None]
  <2>0. new \in Row
    <3>1. j.seen.bounce + 1 \in Nat
      BY <1>a DEF Row
    <3> QED
      BY <3>1, <1>a DEF Row
  <2>1. new \in Row /\ sent \in Row
    BY <2>0 DEF Row, Statuses
  <2>2. CASE Block(j, new, "manual_intervention")
    <3> HIDE DEF new
    <3> QED
      BY <2>1, <2>2, <1>2, <1>a, TypeBlock DEF Reject, Buckets
  <2>3. CASE /\ Write(j.seen, sent)
             /\ Replace(open \ {j}, StatusRole["in_progress"], ReworkBranch(j))
             /\ reworks' = reworks + 1
             /\ UNCHANGED incidents
    <3>1. StatusRole["in_progress"] \in Roles
      BY DEF StatusRole, Roles, Agents
    <3>2. ReworkBranch(j) \in SUBSET Ids
      BY <1>a DEF ReworkBranch
    <3>3. UNCHANGED <<needsUi, human, touches, sweepVars, watchVars, workVars, gaveUp,
                      edited>>
      BY <1>2 DEF Reject
    <3> HIDE DEF new, sent
    <3> QED
      BY <2>1, <2>3, <3>1, <3>2, <3>3, <1>a, <1>b, FinalFrame DEF workVars
  <2> QED
    BY <2>2, <2>3, <1>2 DEF Reject
<1>3. ASSUME Succeed(j) PROVE TypeOK' /\ ReadInv'
  <2>1. PICK merging \in BOOLEAN : Advance(j, merging)
    BY <1>3 DEF Succeed, CaptureDesignOutput
  <2>2. Cleared(j.seen) \in Row
    BY <1>a DEF Cleared, Row
  <2>3. /\ incidents' \in Nat
        /\ needsUi' \in BOOLEAN
        /\ reworks' = reworks
        /\ UNCHANGED <<human, touches, sweepVars, watchVars, gaveUp, edited>>
    BY <1>3, <1>b, IncidentsTyped DEF Succeed, CaptureDesignOutput, ResolveIfBlocked
  <2>4. merged' \cup delivered' \cup reviewed' \cup tested' \subseteq Ids
    BY <1>3, <1>a, <1>b DEF Succeed, CaptureDesignOutput
  <2>5. PICK new \in Row, role \in Roles \cup {None}, parent \in {None} \cup SUBSET Ids :
          /\ Write(j.seen, new)
          /\ Replace(open \ {j}, role, parent)
          /\ marks' \subseteq Roles
    <3>1. CASE /\ Write(j.seen, Cleared(j.seen))
               /\ Replace(open \ {j}, "merge", j.work)
               /\ marks' = marks \cup {"qa"}
      BY <3>1, <2>2, <1>a, <1>b DEF Roles, Agents
    <3>2. CASE /\ j.role \in DOMAIN Chain
               /\ Write(j.seen, [Cleared(j.seen) EXCEPT !.status = Chain[j.role].status])
               /\ Replace(open \ {j}, Chain[j.role].next, j.work)
               /\ marks' = marks \cup {j.role}
      <4> DEFINE new == [Cleared(j.seen) EXCEPT !.status = Chain[j.role].status]
      <4>1. Chain[j.role].next \in Roles \cup {None} /\ Chain[j.role].status \in Statuses
        BY <3>2, KnownChain
      <4>2. new \in Row
        BY <4>1, <2>2 DEF Row
      <4>3. j.role \in Roles
        BY JobFields
      <4>4. Write(j.seen, new)
        BY <3>2
      <4>5. j.work \in {None} \cup SUBSET Ids /\ marks' \subseteq Roles
        BY <3>2, <4>3, <1>a, <1>b
      <4> HIDE DEF new
      <4> QED
        BY <3>2, <4>1, <4>2, <4>4, <4>5
    <3>3. CASE /\ Write(j.seen, Cleared(j.seen))
               /\ Replace(open \ {j}, None, None)
               /\ UNCHANGED marks
      BY <3>3, <2>2, <1>b
    <3> QED
      BY <2>1, <3>1, <3>2, <3>3 DEF Advance
  <2> QED
    BY <2>3, <2>4, <2>5, <1>a, <1>b, FinalFrame
<1>4. ASSUME SucceedMerge(j) PROVE TypeOK' /\ ReadInv'
  <2> DEFINE new == [j.seen EXCEPT !.status = "done", !.reason = None]
  <2>1. new \in Row
    BY <1>a DEF Row, Statuses
  <2>2. /\ Write(j.seen, new)
        /\ Replace(open \ {j}, None, None)
        /\ UNCHANGED <<needsUi, incidents, human, touches, sweepVars, watchVars, merged,
                       delivered, reviewed, tested, reworks, gaveUp, edited>>
    BY <1>4 DEF SucceedMerge
  <2>3. marks' \subseteq Roles
    BY <1>4, <1>b DEF SucceedMerge, Roles
  <2> HIDE DEF new
  <2> QED
    BY <2>1, <2>2, <2>3, <1>a, <1>b, FinalFrame
<1> QED
  BY <1>1, <1>2, <1>3, <1>4

\* Sweeps, requests and commands keep every variable in its type.
LEMMA TypeOthers ==
  ASSUME TypeOK, ReadInv,
         \/ \E d \in Daemons : ReadBusy(d) \/ Admit(d) \/ Pickup(d)
         \/ \E r \in Roles : Request("assign", r) \/ Enqueue(r)
         \/ \E s \in Statuses : Request("advance", s) \/ Request("edit", s)
         \/ Request("approve", None)
         \/ CommitAssign \/ CommitAdvance \/ CommitApprove \/ CommitEdit
         \/ Recover \/ \E j \in open : Reap(j) \/ ReadClaim(j)
  PROVE  TypeOK' /\ ReadInv'
<1>a. /\ incidents \in Nat /\ reworks \in Nat /\ edited \in BOOLEAN
      /\ human # None => human.seen \in Row
  BY DEF TypeOK
<1>1. ASSUME NEW d \in Daemons, ReadBusy(d) PROVE TypeOK' /\ ReadInv'
  BY <1>1 DEF ReadBusy, TypeOK, ReadInv, watchVars, workVars, JobRecord, Row, Ids
<1>2. ASSUME NEW role \in Roles \cup {None}, NEW parent \in {None} \cup SUBSET Ids,
             Replace(open, role, parent), WatchTyped',
             admitting' \cup picking' \subseteq Daemons, touches' \in 0 .. MaxTouches,
             doubled' \in BOOLEAN,
             UNCHANGED <<row, needsUi, incidents, human, workVars, reworks, gaveUp, edited,
                         raced>>
      PROVE  TypeOK' /\ ReadInv'
  <2>1. /\ \A k \in open' : k \in JobRecord
        /\ nextId' \in 1 .. MaxJobs + 1
        /\ detached' \in BOOLEAN
        /\ \A k \in open' : k \in open \/ k.phase = "queued"
    BY <1>2, ReplaceTyped
  <2> QED
    BY <1>2, <2>1 DEF TypeOK, ReadInv, WatchTyped, workVars, JobRecord, Row, Ids
<1>w. ASSUME UNCHANGED watchVars PROVE WatchTyped'
  BY <1>w DEF TypeOK, watchVars, WatchTyped, Ids
<1>3. ASSUME UNCHANGED <<open, nextId, detached>> PROVE Replace(open, None, None)
  BY <1>3 DEF Replace
<1>4. ASSUME NEW d \in Daemons, Admit(d) PROVE TypeOK' /\ ReadInv'
  <2>1. /\ admitting' \cup picking' \subseteq Daemons
        /\ touches' \in 0 .. MaxTouches
        /\ UNCHANGED <<row, needsUi, incidents, human, workVars, reworks, gaveUp, edited, raced>>
    BY <1>4 DEF Admit, TypeOK
  <2>2. PICK role \in Roles \cup {None} : Replace(open, role, None)
    BY <1>3, <1>4 DEF Admit, AddJob, Roles, Agents
  <2>3. doubled' \in BOOLEAN /\ WatchTyped'
    BY <1>4, <1>w DEF Admit, AddJob, TypeOK
  <2> QED
    BY <1>2, <2>1, <2>2, <2>3
<1>5. ASSUME NEW d \in Daemons, Pickup(d) PROVE TypeOK' /\ ReadInv'
  <2>1. /\ admitting' \cup picking' \subseteq Daemons
        /\ touches' \in 0 .. MaxTouches
        /\ UNCHANGED <<row, needsUi, incidents, human, workVars, reworks, gaveUp, edited, raced>>
    BY <1>5 DEF Pickup, TypeOK
  <2>2. PICK role \in Roles \cup {None} : Replace(open, role, None)
    BY <1>3, <1>5 DEF Pickup, AddJob, Roles, Agents
  <2>3. doubled' \in BOOLEAN /\ WatchTyped'
    BY <1>5, <1>w DEF Pickup, AddJob, TypeOK
  <2> QED
    BY <1>2, <2>1, <2>2, <2>3
<1>6. ASSUME NEW r \in Roles, Enqueue(r) PROVE TypeOK' /\ ReadInv'
  <2>1. touches' \in 0 .. MaxTouches
    BY <1>6, PipelineAssumption DEF Enqueue, TypeOK
  <2>2. /\ admitting' \cup picking' \subseteq Daemons
        /\ doubled' \in BOOLEAN /\ WatchTyped'
        /\ Replace(open, r, None)
        /\ UNCHANGED <<row, needsUi, incidents, human, workVars, reworks, gaveUp, edited, raced>>
    BY <1>6, <1>w DEF Enqueue, UnchangedByHumans, sweepVars, TypeOK
  <2> QED
    BY <1>2, <2>1, <2>2
<1>7. ASSUME NEW op, NEW arg, Request(op, arg),
             \/ op = "assign" /\ arg \in Roles
             \/ op \in {"advance", "edit"} /\ arg \in Statuses
             \/ op = "approve" /\ arg = None
      PROVE  TypeOK' /\ ReadInv'
  <2>1. touches' \in 0 .. MaxTouches
    BY <1>7, PipelineAssumption DEF Request, TypeOK
  <2>2. human' \in [op : {"assign", "advance", "approve", "edit"},
                    arg : Roles \cup Statuses \cup {None}, seen : Row]
    BY <1>7 DEF Request, TypeOK
  <2>3. human'.op = op /\ human'.arg = arg
    BY <1>7 DEF Request
  <2>4. ReadInv'
    BY <1>7, <2>3 DEF Request, ReadInv
  <2> QED
    BY <1>7, <2>1, <2>2, <2>4
    DEF Request, TypeOK, UnchangedByHumans, workVars, sweepVars, watchVars, JobRecord, Row, Ids
<1>8. ASSUME NEW status \in Statuses, Unblock(status), human # None
      PROVE  /\ \E new \in Row : Write(human.seen, new)
             /\ incidents' \in Nat /\ reworks' \in Nat
  <2>1. CASE Write(human.seen, [status |-> status, reason |-> None, bounce |-> 0])
             /\ ResolveIncidents /\ reworks' = 0
    <3>1. [status |-> status, reason |-> None, bounce |-> 0] \in Row
      BY DEF Row
    <3> QED
      BY <3>1, <2>1 DEF ResolveIncidents
  <2>2. CASE Write(human.seen, [human.seen EXCEPT !.status = status])
             /\ UNCHANGED <<incidents, reworks>>
    <3>1. [human.seen EXCEPT !.status = status] \in Row
      BY <1>8, <1>a DEF Row
    <3> QED
      BY <3>1, <2>2, <1>a
  <2> QED
    BY <2>1, <2>2, <1>8 DEF Unblock
<1>9. ASSUME CommitAssign PROVE TypeOK' /\ ReadInv'
  <2>1. human # None /\ human.arg \in Roles
    BY <1>9 DEF CommitAssign, ReadInv
  <2>2. /\ \E new \in Row : Write(human.seen, new)
        /\ incidents' \in Nat /\ reworks' \in Nat
    <3>1. CASE human.arg \in DOMAIN RoleStatus /\ Unblock(RoleStatus[human.arg])
      <4>1. RoleStatus[human.arg] \in Statuses
        BY <3>1 DEF RoleStatus, Statuses
      <4> QED
        BY <4>1, <3>1, <2>1, <1>8
    <3>2. CASE Write(human.seen, human.seen) /\ UNCHANGED <<incidents, reworks>>
      BY <3>2, <2>1, <1>a
    <3> QED
      BY <3>1, <3>2, <1>9 DEF CommitAssign
  <2>3. /\ Replace(open, human.arg, None) /\ human' = None /\ UnchangedByHumans
        /\ UNCHANGED <<touches, edited>>
    BY <1>9 DEF CommitAssign
  <2> QED
    BY <2>1, <2>2, <2>3, <1>a, HumanFrame
<1>10. ASSUME CommitAdvance PROVE TypeOK' /\ ReadInv'
  <2>1. human # None /\ human.arg \in Statuses /\ Unblock(human.arg)
    BY <1>10 DEF CommitAdvance, ReadInv
  <2>2. /\ \E new \in Row : Write(human.seen, new)
        /\ incidents' \in Nat /\ reworks' \in Nat
    BY <2>1, <1>8
  <2>3. PICK role \in Roles \cup {None} : Replace(open, role, None)
    <3>1. \A s \in DOMAIN StatusRole : StatusRole[s] \in Roles
      BY DEF StatusRole, Roles, Agents
    <3> QED
      BY <3>1, <1>10 DEF CommitAdvance, Triggered
  <2>4. human' = None /\ UnchangedByHumans /\ UNCHANGED <<touches, edited>>
    BY <1>10 DEF CommitAdvance
  <2> QED
    BY <2>1, <2>2, <2>3, <2>4, <1>a, HumanFrame
<1>11. ASSUME CommitApprove PROVE TypeOK' /\ ReadInv'
  <2>1. human # None /\ Unblock("in_progress") /\ "in_progress" \in Statuses
    BY <1>11 DEF CommitApprove, Statuses
  <2>2. /\ \E new \in Row : Write(human.seen, new)
        /\ incidents' \in Nat /\ reworks' \in Nat
    BY <2>1, <1>8
  <2>3. /\ Replace(open, "dev", None) /\ human' = None /\ UnchangedByHumans
        /\ UNCHANGED <<touches, edited>>
        /\ "dev" \in Roles
    BY <1>11 DEF CommitApprove, Roles, Agents
  <2> QED
    BY <2>1, <2>2, <2>3, <1>a, HumanFrame
<1>12. ASSUME CommitEdit PROVE TypeOK' /\ ReadInv'
  <2> DEFINE new == [human.seen EXCEPT !.status = human.arg]
  <2>1. human # None /\ human.arg \in Statuses
    BY <1>12 DEF CommitEdit, ReadInv
  <2>2. new \in Row
    BY <2>1, <1>a DEF Row
  <2>3. /\ Write(human.seen, new) /\ human' = None /\ UnchangedByHumans
        /\ UNCHANGED <<open, nextId, incidents, touches, reworks, detached>>
        /\ edited' = TRUE
    BY <1>12 DEF CommitEdit
  <2>4. Replace(open, None, None)
    BY <2>3, <1>3
  <2> HIDE DEF new
  <2> QED
    BY <2>1, <2>2, <2>3, <2>4, <1>a, HumanFrame
<1>13. ASSUME UnchangedByWatchdog
       PROVE  /\ admitting' \cup picking' \subseteq Daemons /\ touches' \in 0 .. MaxTouches
              /\ UNCHANGED <<row, needsUi, incidents, human, workVars, reworks, gaveUp, edited,
                             raced>>
  BY <1>13 DEF UnchangedByWatchdog, TypeOK
<1>14. ASSUME NEW j \in open, Reap(j) \/ ReadClaim(j) PROVE TypeOK' /\ ReadInv'
  <2>1. j.id \in Ids /\ j.role \in Roles /\ j.parent \in {None} \cup SUBSET Ids
    BY <1>14 DEF TypeOK, JobRecord
  <2>2. slips' \in 0 .. MaxSlips
    BY <1>14, PipelineAssumption DEF Reap, ReadClaim, TypeOK
  <2>a. late' \subseteq Ids
    BY <1>14, <2>1 DEF Reap, ReadClaim, TypeOK
  <2>b. stale' = None \/ stale' \in [id : {0} \cup Ids, role : Roles,
                                    parent : {None} \cup SUBSET Ids]
    <3>1. CASE Reap(j)
      BY <3>1 DEF Reap, TypeOK
    <3>2. CASE ReadClaim(j)
      BY <2>1, <3>2 DEF ReadClaim
    <3> QED
      BY <1>14, <3>1, <3>2
  <2>3. WatchTyped'
    BY <2>2, <2>a, <2>b DEF WatchTyped, Ids
  <2>4. UnchangedByWatchdog /\ UNCHANGED <<open, nextId, detached, doubled>>
    BY <1>14 DEF Reap, ReadClaim
  <2>5. Replace(open, None, None) /\ doubled' \in BOOLEAN
    BY <2>4, <1>3 DEF TypeOK
  <2> QED
    BY <1>2, <1>13, <2>3, <2>4, <2>5
<1>15. ASSUME Recover PROVE TypeOK' /\ ReadInv'
  <2>1. WatchTyped' /\ UnchangedByWatchdog
    BY <1>15 DEF Recover, TypeOK, WatchTyped, Ids
  <2>2. CASE UNCHANGED <<open, nextId, detached, doubled>>
    <3>1. Replace(open, None, None) /\ doubled' \in BOOLEAN
      BY <2>2, <1>3 DEF TypeOK
    <3> QED
      BY <1>2, <1>13, <2>1, <3>1
  <2>3. CASE Replace(open, stale.role, stale.parent) /\ doubled' = TRUE
    <3>1. stale.role \in Roles /\ stale.parent \in {None} \cup SUBSET Ids
      BY <1>15 DEF Recover, TypeOK
    <3> QED
      BY <1>2, <1>13, <2>1, <2>3, <3>1
  <2> QED
    BY <1>15, <2>2, <2>3 DEF Recover
<1> QED
  BY <1>1, <1>4, <1>5, <1>6, <1>7, <1>9, <1>10, <1>11, <1>12, <1>14, <1>15

\* Every step keeps every variable in its type.
LEMMA TypeStep == TypeOK /\ ReadInv /\ [Next]_vars => TypeOK' /\ ReadInv'
<1> SUFFICES ASSUME TypeOK, ReadInv, [Next]_vars PROVE TypeOK' /\ ReadInv'
  OBVIOUS
<1>1. CASE UNCHANGED vars
  BY <1>1 DEF vars, sweepVars, watchVars, workVars, TypeOK, ReadInv, JobRecord, Row, Ids
<1>2. CASE Next
  BY <1>2, TypeJobs, TypeFinal, TypeOthers DEF Next
<1> QED
  BY <1>1, <1>2

-----------------------------------------------------------------------------
(* The row: blocked_reason and bounce_count *)

RowInv == ReasonOnlyWhileBlocked /\ BounceInv

\* Only a commit whose transaction read the current row has to be looked at.
LEMMA WriteRow ==
  ASSUME TypeOK, NEW seen \in Row, NEW new \in Row, Write(seen, new),
         (row = seen /\ ~raced) =>
            /\ new.reason # None => (new.status = "blocked" \/ edited')
            /\ reworks' <= MaxBounce /\ reworks' <= new.bounce
  PROVE  RowInv'
<1>1. CASE row = seen /\ ~raced
  <2>1. row' = new
    BY <1>1 DEF Write, Row
  <2> QED
    BY <1>1, <2>1 DEF RowInv, ReasonOnlyWhileBlocked, BounceInv
<1>2. CASE ~(row = seen /\ ~raced)
  <2>1. raced'
    BY <1>2 DEF Write
  <2> QED
    BY <2>1 DEF RowInv, ReasonOnlyWhileBlocked, BounceInv
<1> QED
  BY <1>1, <1>2

\* A block has a reason, and gives no rework.
LEMMA BlockRow ==
  ASSUME TypeOK, RowInv, NEW j \in open, j.seen \in Row, NEW new \in Row,
         NEW reason \in Buckets, Block(j, new, reason),
         row = j.seen => new.bounce >= row.bounce
  PROVE  RowInv'
<1> DEFINE blocked == [new EXCEPT !.status = "blocked", !.reason = reason]
<1>1. blocked \in Row /\ blocked.status = "blocked" /\ blocked.bounce = new.bounce
  BY DEF Row, Statuses
<1>2. Write(j.seen, blocked) /\ reworks' = reworks
  BY DEF Block
<1>3. (row = j.seen /\ ~raced) => reworks <= MaxBounce /\ reworks <= new.bounce
  BY PipelineAssumption DEF RowInv, BounceInv, TypeOK, Row
<1> HIDE DEF blocked
<1> QED
  BY <1>1, <1>2, <1>3, WriteRow

\* Every finalization keeps the row's invariant.
LEMMA RowFinal ==
  ASSUME TypeOK, ReadInv, RowInv, NEW j \in open,
         Escalate(j) \/ Reject(j) \/ Succeed(j) \/ SucceedMerge(j)
  PROVE  RowInv'
<1>a. j.seen \in Row /\ row \in Row
  BY DEF ReadInv, TypeOK, Escalate, Reject, Succeed, CaptureDesignOutput, SucceedMerge
<1>b. ~raced => reworks <= MaxBounce /\ reworks <= row.bounce
  BY DEF RowInv, BounceInv
<1>1. ASSUME Escalate(j) PROVE RowInv'
  <2>1. PICK reason \in Buckets : Block(j, j.seen, reason)
    BY <1>1 DEF Escalate, Buckets
  <2>2. j.seen.bounce \in Nat
    BY <1>a DEF Row
  <2> QED
    BY <2>1, <2>2, <1>a, BlockRow
<1>2. ASSUME Reject(j) PROVE RowInv'
  <2> DEFINE new == [j.seen EXCEPT !.bounce = @ + 1]
             sent == [new EXCEPT !.status = "in_progress", !.reason = None]
  <2>0. j.seen.bounce \in Nat /\ reworks \in Nat
    BY <1>a DEF Row, TypeOK
  <2>1. new \in Row /\ new.bounce = j.seen.bounce + 1
    BY <2>0, <1>a DEF Row
  <2>2. sent \in Row /\ sent.bounce = new.bounce /\ sent.reason = None
    BY <2>1 DEF Row, Statuses
  <2>3. CASE Block(j, new, "manual_intervention")
    <3> HIDE DEF new
    <3> QED
      BY <2>0, <2>1, <2>3, <1>a, BlockRow DEF Buckets
  <2>4. CASE /\ new.bounce <= MaxBounce
             /\ Write(j.seen, sent)
             /\ reworks' = reworks + 1
    <3>1. (row = j.seen /\ ~raced) => reworks' <= MaxBounce /\ reworks' <= sent.bounce
      BY <2>0, <2>1, <2>2, <2>4, <1>b, PipelineAssumption
    <3> HIDE DEF new, sent
    <3> QED
      BY <2>2, <2>4, <3>1, <1>a, WriteRow
  <2> QED
    BY <2>3, <2>4, <1>2 DEF Reject
<1>3. ASSUME NEW new \in Row, Write(j.seen, new), new.bounce = j.seen.bounce,
             new.reason = None, reworks' = reworks
      PROVE  RowInv'
  BY <1>3, <1>a, <1>b, WriteRow
<1>4. ASSUME Succeed(j) PROVE RowInv'
  <2>1. /\ Cleared(j.seen) \in Row
        /\ Cleared(j.seen).bounce = j.seen.bounce
        /\ Cleared(j.seen).reason = None
    BY <1>a DEF Cleared, Row
  <2>2. ASSUME j.role \in DOMAIN Chain,
               Write(j.seen, [Cleared(j.seen) EXCEPT !.status = Chain[j.role].status])
        PROVE  RowInv'
    <3> DEFINE new == [Cleared(j.seen) EXCEPT !.status = Chain[j.role].status]
    <3>1. Chain[j.role].status \in Statuses
      BY <2>2, KnownChain
    <3>2. new \in Row /\ new.bounce = j.seen.bounce /\ new.reason = None
      BY <2>1, <3>1 DEF Row
    <3>3. Write(j.seen, new) /\ reworks' = reworks
      BY <2>2, <1>4 DEF Succeed, CaptureDesignOutput
    <3> HIDE DEF new
    <3> QED
      BY <3>2, <3>3, <1>3
  <2>3. reworks' = reworks
    BY <1>4 DEF Succeed, CaptureDesignOutput
  <2>4. \/ Write(j.seen, Cleared(j.seen))
        \/ /\ j.role \in DOMAIN Chain
           /\ Write(j.seen, [Cleared(j.seen) EXCEPT !.status = Chain[j.role].status])
    BY <1>4 DEF Succeed, CaptureDesignOutput, Advance
  <2> QED
    BY <2>1, <2>2, <2>3, <2>4, <1>3
<1>5. ASSUME SucceedMerge(j) PROVE RowInv'
  <2> DEFINE new == [j.seen EXCEPT !.status = "done", !.reason = None]
  <2>1. new \in Row /\ new.bounce = j.seen.bounce /\ new.reason = None
    BY <1>a DEF Row, Statuses
  <2>2. Write(j.seen, new) /\ reworks' = reworks
    BY <1>5 DEF SucceedMerge
  <2> HIDE DEF new
  <2> QED
    BY <2>1, <2>2, <1>3
<1> QED
  BY <1>1, <1>2, <1>4, <1>5

\* Every commit of a human keeps the row's invariant.
LEMMA RowHuman ==
  ASSUME TypeOK, ReadInv, RowInv,
         CommitAssign \/ CommitAdvance \/ CommitApprove \/ CommitEdit
  PROVE  RowInv'
<1>a. human # None /\ human.seen \in Row /\ row \in Row
  BY DEF TypeOK, CommitAssign, CommitAdvance, CommitApprove, CommitEdit
<1>b. ~raced => reworks <= MaxBounce /\ reworks <= row.bounce
  BY DEF RowInv, BounceInv
<1>c. ~raced /\ row.reason # None => row.status = "blocked" \/ edited
  BY DEF RowInv, ReasonOnlyWhileBlocked
<1>1. ASSUME NEW status \in Statuses, Unblock(status) PROVE RowInv'
  <2>1. CASE Write(human.seen, [status |-> status, reason |-> None, bounce |-> 0])
             /\ reworks' = 0
    <3> DEFINE new == [status |-> status, reason |-> None, bounce |-> 0]
    <3>1. new \in Row /\ new.bounce = 0 /\ new.reason = None
      BY DEF Row
    <3> HIDE DEF new
    <3> QED
      BY <2>1, <3>1, <1>a, WriteRow, PipelineAssumption DEF new
  <2>2. CASE /\ status = "blocked" \/ human.seen.reason = None
             /\ Write(human.seen, [human.seen EXCEPT !.status = status])
             /\ UNCHANGED reworks
    <3> DEFINE new == [human.seen EXCEPT !.status = status]
    <3>1. /\ new \in Row /\ new.bounce = human.seen.bounce
          /\ new.reason = human.seen.reason /\ new.status = status
      BY <1>1, <1>a DEF Row
    <3>2. Write(human.seen, new)
      BY <2>2
    <3> HIDE DEF new
    <3> QED
      BY <2>2, <3>1, <3>2, <1>a, <1>b, WriteRow
  <2> QED
    BY <2>1, <2>2, <1>1 DEF Unblock
<1>2. ASSUME CommitAssign PROVE RowInv'
  <2>1. CASE human.arg \in DOMAIN RoleStatus /\ Unblock(RoleStatus[human.arg])
    <3>1. RoleStatus[human.arg] \in Statuses
      BY <2>1 DEF RoleStatus, Statuses
    <3> QED
      BY <2>1, <3>1, <1>1
  <2>2. CASE Write(human.seen, human.seen) /\ UNCHANGED <<incidents, reworks>>
    <3>1. edited' = edited
      BY <1>2 DEF CommitAssign
    <3> QED
      BY <2>2, <3>1, <1>a, <1>b, <1>c, WriteRow
  <2> QED
    BY <2>1, <2>2, <1>2 DEF CommitAssign
<1>3. ASSUME CommitAdvance PROVE RowInv'
  BY <1>3, <1>1, <1>a DEF CommitAdvance, ReadInv
<1>4. ASSUME CommitApprove PROVE RowInv'
  BY <1>4, <1>1 DEF CommitApprove, Statuses
<1>5. ASSUME CommitEdit PROVE RowInv'
  <2> DEFINE new == [human.seen EXCEPT !.status = human.arg]
  <2>1. new \in Row /\ new.bounce = human.seen.bounce
    BY <1>5, <1>a DEF Row, CommitEdit, ReadInv
  <2>2. Write(human.seen, new) /\ reworks' = reworks /\ edited'
    BY <1>5 DEF CommitEdit
  <2> HIDE DEF new
  <2> QED
    BY <2>1, <2>2, <1>a, <1>b, WriteRow
<1> QED
  BY <1>2, <1>3, <1>4, <1>5

\* Every step keeps the row's invariant.
LEMMA RowStep == TypeOK /\ ReadInv /\ RowInv /\ [Next]_vars => RowInv'
<1> SUFFICES ASSUME TypeOK, ReadInv, RowInv, [Next]_vars PROVE RowInv'
  OBVIOUS
<1>1. ASSUME UNCHANGED <<row, reworks, edited, raced>> PROVE RowInv'
  BY <1>1 DEF RowInv, ReasonOnlyWhileBlocked, BounceInv
<1>2. CASE UNCHANGED vars
  BY <1>1, <1>2 DEF vars
<1>3. ASSUME NEW d \in Daemons, ReadBusy(d) \/ Admit(d) \/ Pickup(d) PROVE RowInv'
  BY <1>1, <1>3 DEF ReadBusy, Admit, Pickup
<1>4. ASSUME NEW j \in open,
             \/ Start(j) \/ Requeue(j) \/ GiveUp(j) \/ Finish(j)
             \/ StartMerge(j) \/ MergeBranch(j) \/ FinishMerge(j)
      PROVE  RowInv'
  BY <1>1, <1>4
  DEF Start, BaseBranch, Requeue, GiveUp, Finish, StartMerge, MergeBranch, FinishMerge,
      UnchangedByJobs
<1>5. ASSUME NEW op, NEW arg, Request(op, arg) PROVE RowInv'
  BY <1>1, <1>5 DEF Request
<1>6. ASSUME NEW r \in Roles, Enqueue(r) PROVE RowInv'
  BY <1>1, <1>6 DEF Enqueue
<1>7. ASSUME Recover \/ \E j \in open : Reap(j) \/ ReadClaim(j) PROVE RowInv'
  BY <1>1, <1>7 DEF Recover, Reap, ReadClaim, UnchangedByWatchdog
<1> QED
  BY <1>2, <1>3, <1>4, <1>5, <1>6, <1>7, RowFinal, RowHuman DEF Next

-----------------------------------------------------------------------------
(* Branches and the jobs that work on them *)

BranchInv == IdInv /\ OwnInv

\* A job that ends, with one added or not, leaves every branch to its owners.
LEMMA ReplaceBranches ==
  ASSUME TypeOK, BranchInv, NEW kept \in SUBSET open, NEW role, NEW parent,
         Replace(kept, role, parent), merged' = merged,
         \A c \in Commits(parent) : c \in Ids /\ c < nextId,
         \A k \in kept : k.id \notin Commits(parent),
         \A c \in delivered' : c \in delivered \/ (c \in Ids /\ c < nextId),
         \A k \in kept : k.id \notin delivered'
  PROVE  BranchInv'
<1>a. /\ nextId \in Nat
      /\ \A j \in open : j.id \in Nat /\ j.work \subseteq Nat
      /\ \A j \in open : Commits(j.parent) \subseteq Nat
      /\ merged \subseteq Nat /\ delivered \subseteq Nat
  BY JobFields, PipelineAssumption DEF TypeOK, Ids
<1>b. IdInv /\ OwnInv
  BY DEF BranchInv
<1>1. CASE role = None
  <2>1. open' = kept /\ nextId' = nextId
    BY <1>1 DEF Replace
  <2>2. IdInv'
    <3>1. \A c \in merged' \cup delivered' : c < nextId'
      BY <1>b, <2>1 DEF IdInv
    <3>2. /\ \A j \in open' : j.id < nextId'
          /\ \A j, k \in open' : j.id = k.id => j = k
          /\ \A j \in open' : \A c \in Holds(j) : c < nextId'
      BY <1>b, <2>1 DEF IdInv
    <3> QED
      BY <3>1, <3>2 DEF IdInv, Holds, Commits
  <2>3. OwnInv'
    <3>1. ASSUME NEW j \in kept
          PROVE  /\ j.id \notin merged' \cup delivered'
                 /\ j.id \notin Commits(j.parent)
                 /\ j.role \notin {"dev", "devops"} => j.id \notin j.work
                 /\ \A k \in kept \ {j} : j.id \notin Holds(k)
      BY <1>b DEF OwnInv
    <3> QED
      BY <2>1, <3>1 DEF OwnInv, Holds, Commits
  <2> QED
    BY <2>2, <2>3 DEF BranchInv
<1>2. CASE role # None
  <2> DEFINE n == Job(role, parent)
  <2>1. open' = kept \cup {n} /\ nextId' = nextId + 1
    BY <1>2 DEF Replace
  <2>2. n.id = nextId /\ n.work = {} /\ n.parent = parent
    BY DEF Job
  <2>3. Holds(n) = Commits(parent)
    BY <2>2 DEF Holds
  <2>4. \A c \in Commits(parent) \cup merged \cup delivered' : c \in Nat /\ c < nextId
    <3>1. \A c \in Ids : c \in Nat
      BY PipelineAssumption DEF Ids
    <3> QED
      BY <3>1, <1>a, <1>b DEF IdInv
  <2>5. \A k \in kept : k.id < nextId /\ \A c \in Holds(k) : c \in Nat /\ c < nextId
    BY <1>a, <1>b DEF IdInv, Holds
  <2> HIDE DEF n
  <2>6. IdInv'
    <3>1. \A j \in open' : j.id < nextId' /\ \A c \in Holds(j) : c < nextId'
      BY <2>1, <2>2, <2>3, <2>4, <2>5, <1>a
    <3>2. \A j, k \in open' : j.id = k.id => j = k
      BY <2>1, <2>2, <2>5, <1>a, <1>b DEF IdInv
    <3>3. \A c \in merged' \cup delivered' : c < nextId'
      BY <2>1, <2>4, <1>a
    <3> QED
      BY <3>1, <3>2, <3>3 DEF IdInv, Holds, Commits
  <2>7. OwnInv'
    <3>1. ASSUME NEW j \in kept
          PROVE  /\ j.id \notin merged' \cup delivered'
                 /\ j.id \notin Commits(j.parent)
                 /\ j.role \notin {"dev", "devops"} => j.id \notin j.work
                 /\ \A k \in open' \ {j} : j.id \notin Holds(k)
      BY <2>1, <2>3, <1>b DEF OwnInv
    <3>2. /\ n.id \notin merged' \cup delivered'
          /\ n.id \notin Commits(n.parent)
          /\ n.id \notin n.work
          /\ \A k \in kept : n.id \notin Holds(k)
      BY <2>2, <2>4, <2>5, <1>a
    <3> QED
      BY <2>1, <3>1, <3>2 DEF OwnInv, Holds, Commits
  <2> QED
    BY <2>6, <2>7 DEF BranchInv
<1> QED
  BY <1>1, <1>2

\* A job keeps to its own branch.
LEMMA ChangeBranches ==
  ASSUME TypeOK, BranchInv, NEW j \in open, NEW k, Change(j, k), nextId' = nextId,
         delivered' = delivered, k.id = j.id, k.role = j.role, k.parent = j.parent,
         k.work \subseteq Holds(j) \cup merged \cup
                        (IF j.role \in {"dev", "devops"} THEN {j.id} ELSE {}),
         merged' = merged \/ (j.role = "merge" /\ merged' = merged \cup j.work)
  PROVE  BranchInv'
<1>a. IdInv /\ OwnInv
  BY DEF BranchInv
<1>b. open' = (open \ {j}) \cup {k} /\ Holds(k) = k.work \cup Commits(j.parent)
  BY DEF Change, Holds
<1>c. \A m \in open \ {j} : m.id # j.id
  BY <1>a DEF IdInv
<1>1. IdInv'
  <2>1. \A c \in Holds(k) \cup merged' \cup delivered' : c < nextId
    BY <1>a, <1>b DEF IdInv, Holds
  <2>2. \A m, n \in open' : m.id = n.id => m = n
    BY <1>a, <1>b, <1>c DEF IdInv
  <2>3. \A m \in open' : m.id < nextId /\ \A c \in Holds(m) : c < nextId
    BY <2>1, <1>a, <1>b DEF IdInv
  <2> QED
    BY <2>1, <2>2, <2>3 DEF IdInv, Holds, Commits
<1>2. OwnInv'
  <2>1. /\ k.id \notin merged' \cup delivered'
        /\ k.id \notin Commits(k.parent)
        /\ k.role \notin {"dev", "devops"} => k.id \notin k.work
    BY <1>a DEF OwnInv, Holds
  <2>2. \A m \in open \ {j} : k.id \notin Holds(m)
    BY <1>a DEF OwnInv
  <2>3. ASSUME NEW m \in open \ {j}
        PROVE  m.id \notin merged' \cup delivered' /\ m.id \notin Holds(k)
    BY <1>a, <1>b, <1>c DEF OwnInv, Holds
  <2> QED
    BY <1>a, <1>b, <2>1, <2>2, <2>3 DEF OwnInv, Holds, Commits
<1> QED
  BY <1>1, <1>2 DEF BranchInv

ApprovedInv == ReviewedInv /\ TestedInv /\ GateInv

\* The same for what was approved: the job added has approved work, if its role asks it.
LEMMA ReplaceApproved ==
  ASSUME BranchInv, ApprovedInv, NEW kept \in SUBSET open, NEW role, NEW parent,
         Replace(kept, role, parent), merged' = merged,
         marks \subseteq marks', reviewed \subseteq reviewed', tested \subseteq tested',
         \A c \in delivered' \ delivered : c \notin merged,
         \A c \in delivered' \ delivered : \A k \in kept : c \notin Holds(k),
         role = "merge" => Commits(parent) \subseteq tested',
         role \in {"qa", "devops", "merge"} =>
            Commits(parent) \cap delivered' \subseteq reviewed'
  PROVE  ApprovedInv'
<1> DEFINE n == Job(role, parent)
<1>1. /\ Holds(n) = Commits(parent)
      /\ n.role = role /\ n.phase = "queued"
  BY DEF Job, Holds
<1>2. \A k \in open' : k \in kept \/ (k = n /\ role # None)
  BY DEF Replace
<1> HIDE DEF n
<1>3. ReviewedInv'
  <2>1. merged' \cap delivered' \subseteq reviewed'
    BY DEF ApprovedInv, ReviewedInv
  <2>2. ASSUME NEW k \in kept, k.role \in {"qa", "devops", "merge"}
        PROVE  Holds(k) \cap delivered' \subseteq reviewed'
    BY <2>2 DEF ApprovedInv, ReviewedInv
  <2> QED
    BY <1>1, <1>2, <2>1, <2>2 DEF ReviewedInv, Holds, Commits
<1>4. TestedInv'
  <2>1. ASSUME NEW k \in kept, k.role = "merge" PROVE Holds(k) \subseteq tested'
    BY <2>1 DEF ApprovedInv, TestedInv
  <2> QED
    BY <1>1, <1>2, <2>1 DEF ApprovedInv, TestedInv, Holds, Commits
<1>5. GateInv'
  BY <1>1, <1>2 DEF ApprovedInv, GateInv, MergeNeedsApprovals, Gate
<1> QED
  BY <1>3, <1>4, <1>5 DEF ApprovedInv

\* Job j moves on, as k, and moves the target branch if its merge is running.
Moves(j, k) ==
  /\ Change(j, k)
  /\ k.id = j.id /\ k.role = j.role /\ k.parent = j.parent
  /\ k.work \subseteq Holds(j) \cup merged \cup
                      (IF j.role \in {"dev", "devops"} THEN {j.id} ELSE {})
  /\ k.role = "merge" /\ k.phase = "running" => Gate
  /\ \/ merged' = merged
     \/ j.role = "merge" /\ j.phase = "running" /\ merged' = merged \cup j.work
  /\ UNCHANGED <<nextId, marks, delivered, reviewed, tested>>

\* A job that moves on keeps to what was approved.
LEMMA ChangeApproved ==
  ASSUME BranchInv, ApprovedInv, NEW j \in open, NEW k, Moves(j, k)
  PROVE  ApprovedInv'
<1>1. open' = (open \ {j}) \cup {k} /\ Holds(k) = k.work \cup Commits(j.parent)
  BY DEF Moves, Change, Holds
<1>2. k.role = j.role /\ UNCHANGED <<marks, delivered, reviewed, tested>>
  BY DEF Moves
<1>3. Holds(k) \subseteq Holds(j) \cup merged \cup
                         (IF j.role \in {"dev", "devops"} THEN {j.id} ELSE {})
  BY <1>1 DEF Moves, Holds
<1>4. merged \cap delivered \subseteq reviewed /\ merged \subseteq tested
  BY DEF ApprovedInv, ReviewedInv, TestedInv
<1>5. merged' = merged \/ (j.role = "merge" /\ Gate /\ merged' \subseteq merged \cup Holds(j))
  BY DEF Moves, ApprovedInv, GateInv, Holds
<1>6. ReviewedInv'
  <2>1. merged' \cap delivered' \subseteq reviewed'
    BY <1>2, <1>4, <1>5 DEF ApprovedInv, ReviewedInv
  <2>2. k.role \in {"qa", "devops", "merge"} => Holds(k) \cap delivered' \subseteq reviewed'
    BY <1>2, <1>3, <1>4 DEF ApprovedInv, ReviewedInv, BranchInv, OwnInv
  <2> QED
    BY <1>1, <1>2, <2>1, <2>2 DEF ApprovedInv, ReviewedInv, Holds, Commits
<1>7. TestedInv'
  <2>1. merged' \subseteq tested'
    BY <1>2, <1>4, <1>5 DEF ApprovedInv, TestedInv
  <2>2. k.role = "merge" => Holds(k) \subseteq tested'
    BY <1>2, <1>3, <1>4 DEF ApprovedInv, TestedInv
  <2> QED
    BY <1>1, <1>2, <2>1, <2>2 DEF ApprovedInv, TestedInv, Holds, Commits
<1>8. GateInv'
  <2>1. k.role = "merge" /\ k.phase = "running" => Gate'
    BY <1>2 DEF Moves, Gate
  <2>2. MergeNeedsApprovals'
    BY <1>2, <1>5 DEF ApprovedInv, GateInv, MergeNeedsApprovals, Gate
  <2> QED
    BY <1>1, <1>2, <2>1, <2>2 DEF ApprovedInv, GateInv, Gate
<1> QED
  BY <1>6, <1>7, <1>8 DEF ApprovedInv

\* Every step of a job on its way to a verdict is such a move.
LEMMA JobMoves ==
  ASSUME TypeOK, NEW j \in open,
         \/ Start(j) \/ Requeue(j) \/ Finish(j)
         \/ StartMerge(j) \/ MergeBranch(j) \/ FinishMerge(j)
  PROVE  \E k : Moves(j, k)
<1>a. j \in JobRecord
  BY DEF TypeOK
<1>b. ASSUME UnchangedByJobs PROVE nextId' = nextId
  BY <1>b DEF UnchangedByJobs
<1>c. "merge" \notin Agents
  BY DEF Agents
<1> USE DEF workVars
<1>1. ASSUME Start(j) PROVE \E k : Moves(j, k)
  <2> DEFINE base == IF j.parent = None THEN merged ELSE j.parent
             own  == IF j.role \in {"dev", "devops"} THEN {j.id} ELSE {}
             k    == [j EXCEPT !.phase = "running", !.work = base \cup own]
  <2>1. /\ k.id = j.id /\ k.role = j.role /\ k.parent = j.parent
        /\ k.work = base \cup own
    BY <1>a DEF JobRecord
  <2>2. base \subseteq Holds(j) \cup merged
    BY DEF Holds, Commits
  <2>3. Change(j, k) /\ UNCHANGED <<nextId, workVars>> /\ j.role # "merge"
    BY <1>1, <1>b, <1>c DEF Start, BaseBranch
  <2> HIDE DEF k, base
  <2> QED
    BY <2>1, <2>2, <2>3 DEF Moves
<1>2. ASSUME Requeue(j) PROVE \E k : Moves(j, k)
  <2> DEFINE k == [j EXCEPT !.phase = "queued", !.work = {}]
  <2>1. k.id = j.id /\ k.role = j.role /\ k.parent = j.parent /\ k.work = {}
    BY <1>a DEF JobRecord
  <2>2. Change(j, k) /\ UNCHANGED <<nextId, workVars>> /\ j.role # "merge"
    BY <1>2, <1>b, <1>c DEF Requeue
  <2> HIDE DEF k
  <2> QED
    BY <2>1, <2>2 DEF Moves
<1>3. ASSUME NEW o,
             Change(j, [j EXCEPT !.phase = "closing", !.outcome = o, !.seen = row]),
             UNCHANGED <<nextId, workVars>>
      PROVE  \E k : Moves(j, k)
  <2> DEFINE k == [j EXCEPT !.phase = "closing", !.outcome = o, !.seen = row]
  <2>1. /\ k.id = j.id /\ k.role = j.role /\ k.parent = j.parent /\ k.work = j.work
        /\ k.phase = "closing"
    BY <1>a DEF JobRecord
  <2>2. Change(j, k)
    BY <1>3
  <2> HIDE DEF k
  <2> QED
    BY <2>1, <2>2, <1>3 DEF Moves, Holds
<1>4. ASSUME Finish(j) PROVE \E k : Moves(j, k)
  BY <1>4, <1>3, <1>b DEF Finish
<1>5. ASSUME StartMerge(j) PROVE \E k : Moves(j, k)
  <2>1. UNCHANGED <<nextId, workVars>>
    BY <1>5, <1>b DEF StartMerge
  <2>2. CASE Gate /\ j.parent # None
             /\ Change(j, [j EXCEPT !.phase = "running", !.work = j.parent])
    <3> DEFINE k == [j EXCEPT !.phase = "running", !.work = j.parent]
    <3>1. k.id = j.id /\ k.role = j.role /\ k.parent = j.parent /\ k.work = j.parent
      BY <1>a DEF JobRecord
    <3>2. Change(j, k) /\ k.work \subseteq Holds(j)
      BY <2>2, <3>1 DEF Holds, Commits
    <3> HIDE DEF k
    <3> QED
      BY <2>1, <2>2, <3>1, <3>2 DEF Moves
  <2>3. CASE Change(j, [j EXCEPT !.phase = "closing", !.outcome = "human", !.seen = row])
    BY <2>1, <2>3, <1>3
  <2> QED
    BY <2>2, <2>3, <1>5 DEF StartMerge
<1>6. ASSUME MergeBranch(j) PROVE \E k : Moves(j, k)
  <2> DEFINE k == [j EXCEPT !.phase = "merged"]
  <2>1. /\ k.id = j.id /\ k.role = j.role /\ k.parent = j.parent /\ k.work = j.work
        /\ k.phase = "merged"
    BY <1>a DEF JobRecord
  <2>2. /\ Change(j, k) /\ j.role = "merge" /\ j.phase = "running"
        /\ merged' = merged \cup j.work
        /\ UNCHANGED <<nextId, marks, delivered, reviewed, tested>>
    BY <1>6, <1>b DEF MergeBranch
  <2> HIDE DEF k
  <2> QED
    BY <2>1, <2>2 DEF Moves, Holds
<1>7. ASSUME FinishMerge(j) PROVE \E k : Moves(j, k)
  BY <1>7, <1>3, <1>b DEF FinishMerge
<1> QED
  BY <1>1, <1>2, <1>4, <1>5, <1>6, <1>7

\* Job j ends, and role gets a job on what j had, unless it is None.
Ends(j, role, parent) ==
  /\ Replace(open \ {j}, role, parent)
  /\ Commits(parent) \subseteq j.work
  /\ role = "merge" => j.role = "qa" /\ j.work \subseteq tested'
  /\ role \in {"qa", "devops"} =>
       j.role = "devops" \/ (j.role = "reviewer" /\ j.work \subseteq reviewed')
  /\ delivered' = delivered \/ (j.role = "dev" /\ delivered' = delivered \cup {j.id})
  /\ merged' = merged
  /\ marks \subseteq marks' /\ reviewed \subseteq reviewed' /\ tested \subseteq tested'

\* Only reviewer and devops hand work to QA, and none of the chain to devops or merge.
LEMMA ChainToQa ==
  ASSUME NEW r \in DOMAIN Chain
  PROVE  /\ Chain[r].next \in {"qa", "devops"} => r \in {"reviewer", "devops"}
         /\ Chain[r].next # "merge"
<1>0. None \notin {"qa", "devops", "merge"}
  BY PipelineAssumption DEF Roles, Agents
<1>1. CASE r \in {"design", "dev"}
  BY <1>1 DEF Chain
<1>2. CASE r \in {"reviewer", "qa", "devops"}
  BY <1>0, <1>2 DEF Chain
<1> QED
  BY <1>1, <1>2 DEF Chain

\* A job that gives up, or whose verdict is applied, ends so.
LEMMA JobEnds ==
  ASSUME TypeOK, NEW j \in open,
         GiveUp(j) \/ Escalate(j) \/ Reject(j) \/ Succeed(j) \/ SucceedMerge(j)
  PROVE  \E role, parent : Ends(j, role, parent)
<1>a. None \notin {"qa", "devops", "merge"}
  BY PipelineAssumption DEF Roles, Agents
<1>b. Commits(None) = {} /\ Commits(j.work) \subseteq j.work
  BY DEF Commits
<1> USE DEF workVars
<1>1. ASSUME Replace(open \ {j}, None, None), merged' = merged, delivered' = delivered,
             marks \subseteq marks', reviewed \subseteq reviewed', tested \subseteq tested'
      PROVE  \E role, parent : Ends(j, role, parent)
  BY <1>1, <1>a, <1>b DEF Ends
<1>2. ASSUME NEW new, NEW reason, Block(j, new, reason), UNCHANGED workVars
      PROVE  \E role, parent : Ends(j, role, parent)
  BY <1>2, <1>1 DEF Block
<1>3. ASSUME GiveUp(j) PROVE \E role, parent : Ends(j, role, parent)
  BY <1>3, <1>1 DEF GiveUp, UnchangedByJobs, Replace
<1>4. ASSUME Escalate(j) PROVE \E role, parent : Ends(j, role, parent)
  BY <1>4, <1>2 DEF Escalate
<1>5. ASSUME Reject(j) PROVE \E role, parent : Ends(j, role, parent)
  <2> DEFINE new == [j.seen EXCEPT !.bounce = @ + 1]
  <2>1. CASE Block(j, new, "manual_intervention")
    BY <2>1, <1>2, <1>5 DEF Reject
  <2>2. CASE Replace(open \ {j}, StatusRole["in_progress"], ReworkBranch(j))
    <3>1. StatusRole["in_progress"] = "dev" /\ ReworkBranch(j) = j.work
      BY DEF StatusRole, ReworkBranch
    <3>2. Ends(j, "dev", j.work)
      BY <1>5, <1>b, <2>2, <3>1 DEF Reject, Ends
    <3> QED
      BY <3>2
  <2> QED
    BY <2>1, <2>2, <1>5 DEF Reject
<1>6. ASSUME Succeed(j) PROVE \E role, parent : Ends(j, role, parent)
  <2>1. PICK merging \in BOOLEAN : Advance(j, merging)
    BY <1>6 DEF Succeed, CaptureDesignOutput
  <2>2. /\ merged' = merged
        /\ reviewed \subseteq reviewed' /\ tested \subseteq tested'
        /\ delivered' = delivered \/ (j.role = "dev" /\ delivered' = delivered \cup {j.id})
        /\ j.role = "qa" => j.work \subseteq tested'
        /\ j.role = "reviewer" => j.work \subseteq reviewed'
    BY <1>6 DEF Succeed, CaptureDesignOutput
  <2>3. CASE /\ j.role = "qa" /\ Replace(open \ {j}, "merge", j.work)
             /\ marks' = marks \cup {"qa"}
    <3>1. Ends(j, "merge", j.work)
      BY <1>b, <2>2, <2>3 DEF Ends
    <3> QED
      BY <3>1
  <2>4. CASE /\ j.role \in DOMAIN Chain
             /\ Replace(open \ {j}, Chain[j.role].next, j.work)
             /\ marks' = marks \cup {j.role}
    <3>1. /\ Chain[j.role].next \in {"qa", "devops"} => j.role \in {"reviewer", "devops"}
          /\ Chain[j.role].next # "merge"
      BY <2>4, ChainToQa
    <3>2. Ends(j, Chain[j.role].next, j.work)
      BY <1>b, <2>2, <2>4, <3>1 DEF Ends
    <3> QED
      BY <3>2
  <2>5. CASE Replace(open \ {j}, None, None) /\ UNCHANGED marks
    <3>1. Ends(j, None, None)
      BY <1>a, <1>b, <2>2, <2>5 DEF Ends
    <3> QED
      BY <3>1
  <2> QED
    BY <2>1, <2>3, <2>4, <2>5 DEF Advance
<1>7. ASSUME SucceedMerge(j) PROVE \E role, parent : Ends(j, role, parent)
  BY <1>7, <1>1 DEF SucceedMerge
<1> QED
  BY <1>3, <1>4, <1>5, <1>6, <1>7

\* What a job that ends leaves behind.
LEMMA EndKeeps ==
  ASSUME TypeOK, BranchInv, ApprovedInv, NEW j \in open, NEW role, NEW parent,
         Ends(j, role, parent)
  PROVE  BranchInv' /\ ApprovedInv'
<1> DEFINE kept == open \ {j}
<1>a. IdInv /\ OwnInv
  BY DEF BranchInv
<1>b. j.id \in Ids /\ j.work \subseteq Ids /\ j.work \subseteq Holds(j)
  BY JobFields DEF Holds
<1>1. Commits(parent) \subseteq Holds(j) /\ \A c \in Commits(parent) : c \in Ids /\ c < nextId
  BY <1>a, <1>b DEF Ends, IdInv
<1>2. \A k \in kept : k.id \notin Commits(parent) /\ k.id # j.id /\ j.id \notin Holds(k)
  BY <1>a, <1>1 DEF OwnInv, IdInv
<1>3. \A c \in delivered' : c \in delivered \/ c = j.id
  BY DEF Ends
<1>4. j.id < nextId /\ j.id \notin merged /\ \A k \in kept : k.id \notin delivered
  BY <1>a DEF IdInv, OwnInv
<1>5. BranchInv'
  <2>1. kept \in SUBSET open /\ Replace(kept, role, parent) /\ merged' = merged
    BY DEF Ends
  <2>2. \A c \in delivered' : c \in delivered \/ (c \in Ids /\ c < nextId)
    BY <1>b, <1>3, <1>4
  <2>3. \A k \in kept : k.id \notin delivered'
    BY <1>2, <1>3, <1>4
  <2> HIDE DEF kept
  <2> QED
    BY <1>1, <1>2, <2>1, <2>2, <2>3, ReplaceBranches
<1>6. ApprovedInv'
  <2>1. /\ kept \in SUBSET open /\ Replace(kept, role, parent) /\ merged' = merged
        /\ marks \subseteq marks' /\ reviewed \subseteq reviewed' /\ tested \subseteq tested'
    BY DEF Ends
  <2>2. role = "merge" => Commits(parent) \subseteq tested'
    BY DEF Ends
  <2>3. role \in {"qa", "devops", "merge"} =>
           Commits(parent) \cap delivered' \subseteq reviewed'
    <3>1. CASE j.role \in {"qa", "devops"}
      BY <1>1, <3>1 DEF Ends, ApprovedInv, ReviewedInv
    <3>2. CASE j.role \notin {"qa", "devops"}
      BY <3>2 DEF Ends
    <3> QED
      BY <3>1, <3>2
  <2>4. /\ \A c \in delivered' \ delivered : c \notin merged
        /\ \A c \in delivered' \ delivered : \A k \in kept : c \notin Holds(k)
    BY <1>2, <1>3, <1>4
  <2> HIDE DEF kept
  <2> QED
    BY <2>1, <2>2, <2>3, <2>4, ReplaceApproved
<1> QED
  BY <1>5, <1>6

\* Every step keeps branches to their owners and moves approved work only.
LEMMA ApprovedStep ==
  TypeOK /\ BranchInv /\ ApprovedInv /\ ClaimInv /\ [Next]_vars =>
    BranchInv' /\ ApprovedInv'
<1> SUFFICES ASSUME TypeOK, BranchInv, ApprovedInv, ClaimInv, [Next]_vars
             PROVE  BranchInv' /\ ApprovedInv'
  OBVIOUS
<1>1. CASE UNCHANGED vars
  BY <1>1 DEF vars, workVars, BranchInv, IdInv, OwnInv, ApprovedInv, ReviewedInv, TestedInv,
              GateInv, MergeNeedsApprovals, Gate, Holds, Commits
<1>2. ASSUME NEW j \in open, NEW k, Moves(j, k) PROVE BranchInv' /\ ApprovedInv'
  <2>1. BranchInv'
    BY <1>2, ChangeBranches DEF Moves
  <2> QED
    BY <2>1, <1>2, ChangeApproved
<1>3. ASSUME NEW role, Replace(open, role, None), UNCHANGED workVars
      PROVE  BranchInv' /\ ApprovedInv'
  <2>1. Commits(None) = {}
    BY DEF Commits
  <2>2. /\ merged' = merged /\ delivered' = delivered /\ marks \subseteq marks'
        /\ reviewed \subseteq reviewed' /\ tested \subseteq tested'
    BY <1>3 DEF workVars
  <2>3. \A k \in open : k.id \notin delivered'
    BY <2>2 DEF BranchInv, OwnInv
  <2>4. BranchInv'
    BY <1>3, <2>1, <2>2, <2>3, ReplaceBranches
  <2>5. ApprovedInv'
    BY <1>3, <2>1, <2>2, ReplaceApproved
  <2> QED
    BY <2>4, <2>5
<1>4. ASSUME UNCHANGED <<open, nextId, detached>> PROVE Replace(open, None, None)
  BY <1>4 DEF Replace
<1>5. ASSUME NEW d \in Daemons, ReadBusy(d) \/ Admit(d) \/ Pickup(d)
      PROVE  BranchInv' /\ ApprovedInv'
  BY <1>3, <1>4, <1>5 DEF ReadBusy, Admit, Pickup, AddJob
<1>6. ASSUME NEW op, NEW arg, Request(op, arg) PROVE BranchInv' /\ ApprovedInv'
  BY <1>3, <1>4, <1>6 DEF Request, UnchangedByHumans
<1>7. ASSUME NEW r \in Roles, Enqueue(r) PROVE BranchInv' /\ ApprovedInv'
  BY <1>3, <1>7 DEF Enqueue, UnchangedByHumans
<1>8. ASSUME CommitAssign \/ CommitAdvance \/ CommitApprove \/ CommitEdit
      PROVE  BranchInv' /\ ApprovedInv'
  BY <1>3, <1>4, <1>8
  DEF CommitAssign, CommitAdvance, CommitApprove, CommitEdit, UnchangedByHumans
<1>9. ASSUME Recover PROVE BranchInv' /\ ApprovedInv'
  <2>1. UNCHANGED workVars
    BY <1>9 DEF Recover, UnchangedByWatchdog
  <2>2. CASE Replace(open, stale.role, stale.parent)
    <3>1. /\ \A c \in Commits(stale.parent) : c \in Ids /\ c < nextId
          /\ \A k \in open : k.id \notin Commits(stale.parent)
          /\ stale.role = "merge" => Commits(stale.parent) \subseteq tested'
          /\ stale.role \in {"qa", "devops", "merge"} =>
               Commits(stale.parent) \cap delivered' \subseteq reviewed'
      BY <1>9, <2>1 DEF Recover, ClaimInv, TypeOK, Commits, workVars
    <3>2. /\ merged' = merged /\ delivered' = delivered /\ marks \subseteq marks'
          /\ reviewed \subseteq reviewed' /\ tested \subseteq tested'
      BY <2>1 DEF workVars
    <3>3. \A k \in open : k.id \notin delivered'
      BY <3>2 DEF BranchInv, OwnInv
    <3>4. BranchInv'
      BY <2>2, <3>1, <3>2, <3>3, ReplaceBranches
    <3>5. ApprovedInv'
      BY <2>2, <3>1, <3>2, ReplaceApproved
    <3> QED
      BY <3>4, <3>5
  <2> QED
    BY <1>3, <1>4, <1>9, <2>1, <2>2 DEF Recover
<1>10. ASSUME NEW j \in open, Reap(j) \/ ReadClaim(j) PROVE BranchInv' /\ ApprovedInv'
  BY <1>3, <1>4, <1>10 DEF Reap, ReadClaim, UnchangedByWatchdog
<1> QED
  BY <1>1, <1>2, <1>5, <1>6, <1>7, <1>8, <1>9, <1>10, JobMoves, JobEnds, EndKeeps DEF Next

\* Steps only add: jobs with new ids, commits of open jobs to what was delivered, and
\* branches to what was reviewed or tested.
Adds ==
  /\ nextId \in Nat /\ nextId' \in Nat /\ nextId <= nextId'
  /\ \A k \in open' : k.id = nextId \/ \E m \in open : k.id = m.id
  /\ \A c \in delivered' \ delivered : \E m \in open : c = m.id
  /\ reviewed \subseteq reviewed' /\ tested \subseteq tested'

\* Every step does no more.
LEMMA AddsStep == TypeOK /\ TypeOK' /\ [Next]_vars => Adds
<1> SUFFICES ASSUME TypeOK, TypeOK', [Next]_vars PROVE Adds
  OBVIOUS
<1>a. nextId \in Nat /\ nextId' \in Nat
  BY PipelineAssumption DEF TypeOK
<1>1. ASSUME NEW kept \in SUBSET open, NEW role, NEW parent, Replace(kept, role, parent),
             \A c \in delivered' \ delivered : \E m \in open : c = m.id,
             reviewed \subseteq reviewed', tested \subseteq tested'
      PROVE  Adds
  BY <1>a, <1>1 DEF Replace, Job, Adds
<1>2. ASSUME UNCHANGED <<open, nextId, detached, delivered, reviewed, tested>> PROVE Adds
  BY <1>a, <1>2 DEF Adds
<1>3. ASSUME NEW role, NEW parent, Replace(open, role, parent),
             UNCHANGED <<delivered, reviewed, tested>>
      PROVE  Adds
  BY <1>1, <1>3
<1>4. ASSUME NEW j \in open, NEW k, Moves(j, k) PROVE Adds
  BY <1>a, <1>4 DEF Moves, Change, Adds
<1>5. ASSUME NEW j \in open, NEW role, NEW parent, Ends(j, role, parent) PROVE Adds
  BY <1>1, <1>5 DEF Ends
<1> USE DEF workVars
<1>6. ASSUME NEW d \in Daemons, ReadBusy(d) \/ Admit(d) \/ Pickup(d) PROVE Adds
  BY <1>2, <1>3, <1>6 DEF ReadBusy, Admit, Pickup, AddJob
<1>7. ASSUME Recover \/ \E j \in open : Reap(j) \/ ReadClaim(j) PROVE Adds
  BY <1>2, <1>3, <1>7 DEF Recover, Reap, ReadClaim, UnchangedByWatchdog
<1>8. ASSUME NEW op, NEW arg, Request(op, arg) PROVE Adds
  BY <1>2, <1>8 DEF Request, UnchangedByHumans
<1>9. ASSUME NEW r \in Roles, Enqueue(r) PROVE Adds
  BY <1>3, <1>9 DEF Enqueue, UnchangedByHumans
<1>10. ASSUME CommitAssign \/ CommitAdvance \/ CommitApprove \/ CommitEdit PROVE Adds
  BY <1>2, <1>3, <1>10
  DEF CommitAssign, CommitAdvance, CommitApprove, CommitEdit, UnchangedByHumans
<1>11. CASE UNCHANGED vars
  BY <1>2, <1>11 DEF vars
<1> QED
  BY <1>4, <1>5, <1>6, <1>7, <1>8, <1>9, <1>10, <1>11, JobMoves, JobEnds DEF Next

\* A watchdog sweep's claim changes only when it is read, dropped, or outrun.
LEMMA ClaimKept ==
  ASSUME [Next]_vars
  PROVE  \/ stale' = None
         \/ stale # None /\ stale'.role = stale.role /\ stale'.parent = stale.parent
         \/ \E j \in open : ReadClaim(j)
<1>1. CASE UNCHANGED stale
  BY <1>1
<1>2. CASE UNCHANGED vars
  BY <1>1, <1>2 DEF vars, watchVars
<1>3. ASSUME NEW d \in Daemons, ReadBusy(d) \/ Admit(d) \/ Pickup(d) PROVE UNCHANGED stale
  BY <1>3 DEF ReadBusy, Admit, Pickup, watchVars
<1>4. ASSUME NEW j \in open,
             \/ Requeue(j) \/ GiveUp(j) \/ Finish(j) \/ Reap(j)
             \/ StartMerge(j) \/ MergeBranch(j) \/ FinishMerge(j)
             \/ Escalate(j) \/ Reject(j) \/ Succeed(j) \/ SucceedMerge(j)
      PROVE  UNCHANGED stale
  BY <1>4 DEF Requeue, GiveUp, Finish, Reap, StartMerge, MergeBranch, FinishMerge,
              Escalate, Reject, Succeed, SucceedMerge, watchVars
<1>5. ASSUME NEW j \in open, Start(j), stale # None
      PROVE  stale'.role = stale.role /\ stale'.parent = stale.parent
  BY <1>5 DEF Start, AgeStale
<1>6. ASSUME NEW j \in open, Start(j), stale = None PROVE stale' = None
  BY <1>6 DEF Start, AgeStale
<1>7. ASSUME NEW op, NEW arg, Request(op, arg) PROVE UNCHANGED stale
  BY <1>7 DEF Request, UnchangedByHumans, watchVars
<1>8. ASSUME NEW r \in Roles, Enqueue(r) PROVE UNCHANGED stale
  BY <1>8 DEF Enqueue, UnchangedByHumans, watchVars
<1>9. ASSUME CommitAssign \/ CommitAdvance \/ CommitApprove \/ CommitEdit
      PROVE  UNCHANGED stale
  BY <1>9
  DEF CommitAssign, CommitAdvance, CommitApprove, CommitEdit, UnchangedByHumans, watchVars
<1>10. ASSUME Recover PROVE stale' = None
  BY <1>10 DEF Recover
<1> QED
  BY <1>1, <1>2, <1>3, <1>4, <1>5, <1>6, <1>7, <1>8, <1>9, <1>10 DEF Next

\* What a sweep read of an open job stays true of what it will put back.
LEMMA ClaimStep ==
  TypeOK /\ TypeOK' /\ BranchInv /\ ApprovedInv /\ ClaimInv /\ [Next]_vars => ClaimInv'
<1> SUFFICES ASSUME TypeOK, TypeOK', BranchInv, ApprovedInv, ClaimInv, [Next]_vars,
                    stale' # None
             PROVE  ClaimInv'
  BY DEF ClaimInv
<1>1. ASSUME NEW role, NEW parent, stale'.role = role, stale'.parent = parent,
             \A c \in Commits(parent) : c \in Nat /\ c < nextId,
             \A j \in open : j.id \notin Commits(parent),
             role \in {"qa", "devops", "merge"} =>
               Commits(parent) \cap delivered \subseteq reviewed,
             role = "merge" => Commits(parent) \subseteq tested
      PROVE  ClaimInv'
  <2>1. Adds
    BY AddsStep
  <2>2. \A c \in Commits(parent) : c < nextId'
    BY <1>1, <2>1 DEF Adds
  <2>3. \A j \in open' : j.id \notin Commits(parent)
    BY <1>1, <2>1 DEF Adds
  <2>4. Commits(parent) \cap delivered' \subseteq delivered
    BY <1>1, <2>1 DEF Adds
  <2> QED
    BY <1>1, <2>1, <2>2, <2>3, <2>4 DEF ClaimInv, Adds, Commits
<1>2. \A c \in Ids : c \in Nat
  BY PipelineAssumption DEF Ids
<1>3. CASE stale # None /\ stale'.role = stale.role /\ stale'.parent = stale.parent
  <2>1. Commits(stale.parent) \subseteq Ids
    BY <1>3 DEF TypeOK, Commits
  <2> QED
    BY <1>1, <1>2, <1>3, <2>1 DEF ClaimInv
<1>4. ASSUME NEW j \in open, ReadClaim(j) PROVE ClaimInv'
  <2>1. stale'.role = j.role /\ stale'.parent = j.parent
    BY <1>4 DEF ReadClaim
  <2>2. Commits(j.parent) \subseteq Ids /\ Commits(j.parent) \subseteq Holds(j)
    BY JobFields DEF Holds
  <2>3. /\ \A c \in Commits(j.parent) : c \in Nat /\ c < nextId
        /\ \A k \in open : k.id \notin Commits(j.parent)
    BY <1>2, <2>2 DEF BranchInv, IdInv, OwnInv
  <2>4. /\ j.role \in {"qa", "devops", "merge"} =>
             Commits(j.parent) \cap delivered \subseteq reviewed
        /\ j.role = "merge" => Commits(j.parent) \subseteq tested
    BY <2>2 DEF ApprovedInv, ReviewedInv, TestedInv
  <2> QED
    BY <1>1, <2>1, <2>3, <2>4
<1> QED
  BY <1>3, <1>4, ClaimKept

-----------------------------------------------------------------------------
(* Tasks left to themselves *)

\* The open jobs, once the only one is taken away, or before the first.
LEMMA OneJob ==
  ASSUME Undisturbed, AloneInv, NEW j \in open
  PROVE  open \ {j} = {} /\ open = {j}
BY DEF AloneInv

\* What a task is disturbed by stays.
LEMMA StaysDisturbed ==
  ASSUME TypeOK, [Next]_vars, Undisturbed'
  PROVE  Undisturbed /\ touches' = touches
<1>0. touches \in Nat /\ touches' = 0 /\ ~doubled'
  BY PipelineAssumption DEF TypeOK, Undisturbed
<1>1. ASSUME touches' = touches, doubled' = doubled PROVE Undisturbed /\ touches' = touches
  BY <1>1 DEF Undisturbed
<1>2. ASSUME NEW d \in Daemons, ReadBusy(d) \/ Admit(d) \/ Pickup(d)
      PROVE  Undisturbed /\ touches' = touches
  <2>1. touches' = touches
    BY <1>2 DEF ReadBusy, Admit, Pickup
  <2>2. ~doubled
    BY <1>0, <1>2 DEF ReadBusy, Admit, Pickup, AddJob
  <2> QED
    BY <1>0, <2>1, <2>2 DEF Undisturbed
<1>3. ASSUME touches' = touches + 1 PROVE FALSE
  BY <1>0, <1>3
<1>4. ASSUME NEW op, NEW arg, Request(op, arg) PROVE FALSE
  BY <1>3, <1>4 DEF Request
<1>5. ASSUME NEW r, Enqueue(r) PROVE FALSE
  BY <1>3, <1>5 DEF Enqueue
<1>6. ASSUME CommitAssign \/ CommitAdvance \/ CommitApprove \/ CommitEdit
      PROVE  touches' = touches /\ doubled' = doubled
  BY <1>6 DEF CommitAssign, CommitAdvance, CommitApprove, CommitEdit, UnchangedByHumans,
              sweepVars
<1>7. ASSUME NEW j \in open,
             \/ Start(j) \/ Requeue(j) \/ GiveUp(j) \/ Finish(j)
             \/ StartMerge(j) \/ MergeBranch(j) \/ FinishMerge(j)
             \/ Escalate(j) \/ Reject(j) \/ Succeed(j) \/ SucceedMerge(j)
      PROVE  touches' = touches /\ doubled' = doubled
  BY <1>7 DEF Start, Requeue, GiveUp, Finish, StartMerge, MergeBranch, FinishMerge,
              UnchangedByJobs, Escalate, Reject, Succeed, SucceedMerge, sweepVars
<1>8. CASE UNCHANGED vars
  BY <1>1, <1>8 DEF vars, sweepVars
<1>9. ASSUME Recover \/ \E j \in open : Reap(j) \/ ReadClaim(j)
      PROVE  Undisturbed /\ touches' = touches
  BY <1>0, <1>9 DEF Recover, Reap, ReadClaim, UnchangedByWatchdog, Undisturbed
<1> QED
  BY <1>1, <1>2, <1>4, <1>5, <1>6, <1>7, <1>8, <1>9 DEF Next

\* A transaction that read the row as it is leaves what it assigned.
LEMMA WriteAlone ==
  ASSUME row \in Row, NEW new \in Row, Write(row, new)
  PROVE  row'.status = new.status /\ row'.reason = new.reason /\ (~raced => ~raced')
<1>1. row' = [c \in DOMAIN row |-> IF new[c] # row[c] THEN new[c] ELSE row[c]]
  BY DEF Write
<1>2. "status" \in DOMAIN row /\ "reason" \in DOMAIN row
  BY DEF Row
<1>3. row'.status = new.status /\ row'.reason = new.reason
  BY <1>1, <1>2
<1>4. ~raced => ~raced'
  BY DEF Write
<1> QED
  BY <1>3, <1>4

\* The job of a sweep is the only one, of a task that waits for it.
LEMMA SweepAlone ==
  ASSUME TypeOK, AloneInv, WorkInv, Undisturbed, Undisturbed', NEW role \in Roles,
         AddJob(role), \/ role \in {"design", "dev"} /\ row.status = "todo"
                       \/ /\ role = "devops"
                          /\ row.status = "blocked" /\ row.reason = "infra_failure",
         UNCHANGED <<row, incidents, human, workVars, gaveUp, edited, raced>>
  PROVE  AloneInv' /\ WorkInv'
<1>0. role # None
  BY PipelineAssumption
<1>n. PICK n : n = Job(role, None)
  OBVIOUS
<1>1. Replace(open, role, None) /\ open = {}
  BY DEF AddJob, Undisturbed
<1>2. open' = {n} /\ detached' = (detached \/ delivered # {})
  BY <1>n, <1>0, <1>1 DEF Replace
<1>3. n.role = role /\ n.phase = "queued" /\ n.parent = None
  BY <1>n DEF Job
<1>4. StageOf(n)'
  BY <1>3 DEF StageOf
<1>5. AloneInv'
  BY <1>2, <1>4 DEF AloneInv
<1>6. ~detached' => delivered' = {}
  BY <1>2 DEF workVars
<1>7. role # "merge" /\ row.status # "done"
  OBVIOUS
<1> QED
  BY <1>2, <1>3, <1>5, <1>6, <1>7 DEF WorkInv

\* A job on its way to a verdict has read the row as it is, and has what it started from.
LEMMA MoveAlone ==
  ASSUME TypeOK, AloneInv, WorkInv, Undisturbed, NEW j \in open, NEW k, Change(j, k),
         UNCHANGED <<row, incidents, human, detached, delivered, tested, gaveUp, edited, raced>>,
         k.role = j.role, k.parent = j.parent, k.id = j.id,
         k.phase = "merged" => k.role = "merge",
         k.phase = "closing" =>
           /\ k.seen = row
           /\ k.role \in Agents => k.outcome \in Outcomes[k.role]
           /\ k.role = "merge" => k.outcome # "failure",
         ~detached /\ k.phase \in {"running", "closing"} /\ k.role \in Agents =>
           delivered \subseteq k.work /\ (k.role = "dev" => k.id \in k.work)
  PROVE  AloneInv' /\ WorkInv'
<1>1. open' = {k}
  BY OneJob DEF Change
<1>2. StageOf(j)
  BY DEF AloneInv
<1>3. StageOf(k)'
  BY <1>2 DEF StageOf
<1>4. AloneInv'
  BY <1>1, <1>3 DEF AloneInv
<1>5. WorkInv'
  <2> SUFFICES ASSUME ~detached
               PROVE  /\ delivered \subseteq Commits(k.parent)
                      /\ k.phase \in {"running", "closing"} /\ k.role \in Agents =>
                           /\ delivered \subseteq k.work
                           /\ k.role = "dev" => k.id \in k.work
                      /\ k.role = "merge" => delivered \subseteq tested
                      /\ row.status # "done"
    BY <1>1 DEF WorkInv, Commits
  <2>1. row.status # "done"
    BY DEF AloneInv
  <2> QED
    BY <2>1 DEF WorkInv
<1> QED
  BY <1>4, <1>5

\* Every step up to a verdict is such a move, or gives up.
LEMMA JobsAlone ==
  ASSUME TypeOK, AloneInv, WorkInv, Undisturbed, NEW j \in open,
         \/ Start(j) \/ Requeue(j) \/ GiveUp(j) \/ Finish(j)
         \/ StartMerge(j) \/ MergeBranch(j) \/ FinishMerge(j)
  PROVE  AloneInv' /\ WorkInv'
<1>a. j \in JobRecord
  BY DEF TypeOK
<1>b. "merge" \notin Agents
  BY DEF Agents
<1>c. ASSUME UnchangedByJobs PROVE UNCHANGED <<incidents, human, detached, edited>>
  BY <1>c DEF UnchangedByJobs
<1>d. ~detached =>
        /\ delivered \subseteq Commits(j.parent)
        /\ j.phase \in {"running", "closing"} /\ j.role \in Agents =>
             /\ delivered \subseteq j.work
             /\ j.role = "dev" => j.id \in j.work
  BY DEF WorkInv
<1> USE DEF workVars
<1>1. ASSUME Start(j) PROVE AloneInv' /\ WorkInv'
  <2> DEFINE own  == IF j.role \in {"dev", "devops"} THEN {j.id} ELSE {}
             k    == [j EXCEPT !.phase = "running", !.work = BaseBranch(j) \cup own]
  <2>1. /\ k.id = j.id /\ k.role = j.role /\ k.parent = j.parent
        /\ k.work = BaseBranch(j) \cup own /\ k.phase = "running"
    BY <1>a DEF JobRecord
  <2>2. ~detached => delivered \subseteq BaseBranch(j)
    BY <1>d DEF Commits, BaseBranch
  <2>3. Change(j, k) /\ UNCHANGED <<row, delivered, tested, gaveUp, raced>>
        /\ UNCHANGED <<incidents, human, detached, edited>>
    BY <1>1, <1>c DEF Start
  <2> HIDE DEF k
  <2> QED
    BY <2>1, <2>2, <2>3, MoveAlone
<1>2. ASSUME Requeue(j) PROVE AloneInv' /\ WorkInv'
  <2> DEFINE k == [j EXCEPT !.phase = "queued", !.work = {}]
  <2>1. k.id = j.id /\ k.role = j.role /\ k.parent = j.parent /\ k.phase = "queued"
    BY <1>a DEF JobRecord
  <2>2. Change(j, k) /\ UNCHANGED <<row, delivered, tested, gaveUp, raced>>
        /\ UNCHANGED <<incidents, human, detached, edited>>
    BY <1>2, <1>c DEF Requeue
  <2> HIDE DEF k
  <2> QED
    BY <2>1, <2>2, MoveAlone
<1>3. ASSUME GiveUp(j) PROVE AloneInv' /\ WorkInv'
  <2>1. open' = {} /\ gaveUp' /\ UNCHANGED <<row, delivered, tested, raced>>
        /\ UNCHANGED <<incidents, human, detached, edited>>
    BY <1>3, <1>c, OneJob DEF GiveUp
  <2>2. row.status # "done"
    BY DEF AloneInv
  <2> QED
    BY <2>1, <2>2 DEF AloneInv, WorkInv
<1>4. ASSUME NEW o, Change(j, [j EXCEPT !.phase = "closing", !.outcome = o, !.seen = row]),
             UnchangedByJobs, UNCHANGED <<row, workVars, gaveUp, raced>>,
             \/ j.role \in Agents /\ o \in Outcomes[j.role] /\ j.phase = "running"
             \/ j.role = "merge" /\ o # "failure"
      PROVE  AloneInv' /\ WorkInv'
  <2> DEFINE k == [j EXCEPT !.phase = "closing", !.outcome = o, !.seen = row]
  <2>1. /\ k.id = j.id /\ k.role = j.role /\ k.parent = j.parent /\ k.work = j.work
        /\ k.phase = "closing" /\ k.outcome = o /\ k.seen = row
    BY <1>a DEF JobRecord
  <2>2. Change(j, k)
    BY <1>4
  <2> HIDE DEF k
  <2> QED
    BY <2>1, <2>2, <1>4, <1>b, <1>c, <1>d, MoveAlone
<1>5. ASSUME Finish(j) PROVE AloneInv' /\ WorkInv'
  BY <1>5, <1>4 DEF Finish
<1>6. ASSUME StartMerge(j) PROVE AloneInv' /\ WorkInv'
  <2>1. CASE Change(j, [j EXCEPT !.phase = "running", !.work = j.parent])
    <3> DEFINE k == [j EXCEPT !.phase = "running", !.work = j.parent]
    <3>1. k.id = j.id /\ k.role = j.role /\ k.parent = j.parent /\ k.phase = "running"
      BY <1>a DEF JobRecord
    <3>2. Change(j, k) /\ UNCHANGED <<row, delivered, tested, gaveUp, raced>>
          /\ UNCHANGED <<incidents, human, detached, edited>> /\ k.role \notin Agents
      BY <1>6, <1>b, <1>c, <2>1, <3>1 DEF StartMerge
    <3> HIDE DEF k
    <3> QED
      BY <3>1, <3>2, MoveAlone
  <2>2. CASE Change(j, [j EXCEPT !.phase = "closing", !.outcome = "human", !.seen = row])
    BY <2>2, <1>4, <1>6 DEF StartMerge
  <2> QED
    BY <2>1, <2>2, <1>6 DEF StartMerge
<1>7. ASSUME MergeBranch(j) PROVE AloneInv' /\ WorkInv'
  <2> DEFINE k == [j EXCEPT !.phase = "merged"]
  <2>1. k.id = j.id /\ k.role = j.role /\ k.parent = j.parent /\ k.phase = "merged"
    BY <1>a DEF JobRecord
  <2>2. Change(j, k) /\ UNCHANGED <<row, delivered, tested, gaveUp, raced>>
        /\ UNCHANGED <<incidents, human, detached, edited>> /\ j.role = "merge"
    BY <1>7, <1>c DEF MergeBranch
  <2> HIDE DEF k
  <2> QED
    BY <2>1, <2>2, MoveAlone
<1>8. ASSUME FinishMerge(j) PROVE AloneInv' /\ WorkInv'
  <2>0. j.role = "merge"
    <3>1. j.phase \in {"running", "merged"} /\ (j.phase = "running" => j.role = "merge")
      BY <1>8 DEF FinishMerge
    <3> QED
      BY <3>1 DEF AloneInv, StageOf
  <2>1. PICK o \in {"conflict", "human", "infra", "success"} :
          Change(j, [j EXCEPT !.phase = "closing", !.outcome = o, !.seen = row])
    BY <1>8 DEF FinishMerge
  <2> QED
    BY <2>0, <2>1, <1>4, <1>8 DEF FinishMerge
<1> QED
  BY <1>1, <1>2, <1>3, <1>5, <1>6, <1>7, <1>8

\* The task has left its backlog, and its job is not waiting for devops.
OnItsWay == row.status # "todo" /\ (open # {} => row.reason # "infra_failure")

\* What the finalization of the only job leaves: the job it added, if any, is of the
\* role the new status calls for, and has the branch of the one that ended.
LEMMA EndAlone ==
  ASSUME TypeOK, AloneInv, WorkInv, Undisturbed, NEW j \in open, j.phase = "closing",
         NEW new \in Row, Write(j.seen, new),
         NEW role \in Roles \cup {None}, NEW parent, Replace(open \ {j}, role, parent),
         UNCHANGED <<human, gaveUp, edited>>, tested \subseteq tested',
         new.status = "blocked" <=> new.reason # None,
         incidents' <= 1, incidents' = 1 => new.status = "blocked",
         \/ role = None /\ new.status \in {"blocked", "done"}
         \/ role = "dev" /\ new.status = "in_progress"
         \/ role = "reviewer" /\ new.status = "in_review"
         \/ role \in {"qa", "merge"} /\ new.status = "in_qa",
         ~detached => /\ role # None => delivered' \subseteq Commits(parent)
                      /\ role = "merge" => delivered' \subseteq tested'
                      /\ new.status = "done" => delivered' \subseteq tested'
  PROVE  AloneInv' /\ WorkInv' /\ OnItsWay'
<1>1. /\ StageOf(j) /\ j.seen = row
      /\ human' = None /\ ~edited' /\ ~raced
  BY DEF AloneInv, StageOf
<1>2. row'.status = new.status /\ row'.reason = new.reason /\ ~raced'
  BY <1>1, WriteAlone DEF TypeOK
<1>3. open \ {j} = {}
  BY OneJob
<1>4. ~detached' => ~detached
  BY DEF Replace
<1>5. CASE role = None
  <2>1. open' = {}
    BY <1>3, <1>5 DEF Replace
  <2>2. new.status \in {"blocked", "done"}
    BY <1>5, PipelineAssumption DEF Roles, Agents
  <2>3. AloneInv'
    BY <1>1, <1>2, <2>1, <2>2 DEF AloneInv
  <2>4. OnItsWay'
    BY <1>2, <2>1, <2>2 DEF OnItsWay
  <2> QED
    BY <1>2, <1>4, <2>1, <2>3, <2>4 DEF WorkInv
<1>6. CASE role # None
  <2>0. PICK n : n = Job(role, parent)
    OBVIOUS
  <2>1. open' = {n}
    BY <1>3, <1>6, <2>0 DEF Replace
  <2>2. n.role = role /\ n.phase = "queued" /\ n.parent = parent
    BY <2>0 DEF Job
  <2>3. StageOf(n)'
    BY <1>2, <1>6, <2>2 DEF StageOf
  <2>4. new.status # "done"
    BY <1>6
  <2>5. AloneInv'
    BY <1>1, <1>2, <2>1, <2>3, <2>4 DEF AloneInv
  <2>6. OnItsWay'
    <3>1. new.status \in {"in_progress", "in_review", "in_qa"}
      BY <1>6
    <3>2. new.reason = None
      BY <3>1
    <3> QED
      BY <1>2, <3>1, <3>2, PipelineAssumption DEF OnItsWay, Buckets
  <2> QED
    BY <1>2, <1>4, <1>6, <2>1, <2>2, <2>4, <2>5, <2>6 DEF WorkInv, Commits
<1> QED
  BY <1>5, <1>6

\* A block has a reason, and opens an incident only where none is open.
LEMMA BlockAlone ==
  ASSUME TypeOK, AloneInv, WorkInv, Undisturbed, NEW j \in open, j.phase = "closing",
         NEW new \in Row, NEW reason \in Buckets, Block(j, new, reason),
         reason = "infra_failure" => incidents = 0,
         UNCHANGED <<human, gaveUp, edited>>, tested \subseteq tested'
  PROVE  AloneInv' /\ WorkInv' /\ OnItsWay'
<1> DEFINE blocked == [new EXCEPT !.status = "blocked", !.reason = reason]
<1>1. blocked \in Row /\ blocked.status = "blocked" /\ blocked.reason = reason
  BY DEF Row, Statuses
<1>2. reason # None
  BY PipelineAssumption
<1>3. Write(j.seen, blocked) /\ Replace(open \ {j}, None, None)
  BY DEF Block
<1>4. incidents' <= 1
  <2>1. incidents \in Nat /\ incidents <= 1
    BY DEF TypeOK, AloneInv
  <2>2. incidents' = incidents \/ (incidents = 0 /\ incidents' = incidents + 1)
    BY DEF Block, OpenIncident
  <2> QED
    BY <2>1, <2>2
<1>5. None # "merge"
  BY PipelineAssumption DEF Roles
<1> HIDE DEF blocked
<1> QED
  BY <1>1, <1>2, <1>3, <1>4, <1>5, EndAlone

\* A role that is not devops finds no incident open.
LEMMA NoIncident ==
  ASSUME TypeOK, AloneInv, Undisturbed, NEW j \in open, j.role # "devops"
  PROVE  incidents = 0
<1>1. row.status # "blocked"
  BY DEF AloneInv, StageOf
<1> QED
  BY <1>1 DEF AloneInv, TypeOK

\* Every verdict, applied, leaves the task at the stage of its next job, blocked with a
\* reason, or done.
LEMMA FinalsAlone ==
  ASSUME TypeOK, AloneInv, WorkInv, Undisturbed, NEW j \in open,
         Escalate(j) \/ Reject(j) \/ Succeed(j) \/ SucceedMerge(j)
  PROVE  AloneInv' /\ WorkInv' /\ OnItsWay'
<1>a. j \in JobRecord /\ j.work \in SUBSET Ids /\ j.id \in Ids
  BY DEF TypeOK, JobRecord
<1>b. j.phase = "closing"
  BY DEF Escalate, Reject, Succeed, SucceedMerge
<1>c. j.seen = row /\ row \in Row /\ StageOf(j)
  BY <1>b DEF AloneInv, StageOf, TypeOK
<1>d. j.role # "devops" => incidents = 0
  BY NoIncident
<1>e. j.work # None /\ Commits(j.work) = j.work
  BY <1>a, PipelineAssumption DEF Commits, Ids
<1>f. ~detached =>
        /\ j.role \in Agents => delivered \subseteq j.work
        /\ j.role = "dev" => j.id \in j.work
        /\ j.role = "merge" => delivered \subseteq tested
  BY <1>b DEF WorkInv, Agents
<1>g. None \notin Roles
  BY PipelineAssumption
<1> USE DEF workVars
<1>1. ASSUME Escalate(j) PROVE AloneInv' /\ WorkInv' /\ OnItsWay'
  <2>1. ASSUME NEW reason \in Buckets, Block(j, j.seen, reason),
               reason = "infra_failure" => j.role # "devops"
        PROVE  AloneInv' /\ WorkInv' /\ OnItsWay'
    BY <1>1, <1>b, <1>c, <1>d, <2>1, BlockAlone DEF Escalate
  <2>2. j.outcome = "infra" => j.role # "devops"
    BY <1>b, <1>c DEF StageOf, Outcomes, Agents
  <2> QED
    BY <1>1, <2>1, <2>2 DEF Escalate, Buckets
<1>2. ASSUME Reject(j) PROVE AloneInv' /\ WorkInv' /\ OnItsWay'
  <2> DEFINE new  == [j.seen EXCEPT !.bounce = @ + 1]
             sent == [new EXCEPT !.status = "in_progress", !.reason = None]
  <2>0. j.role # "devops" /\ j.role \in Agents
    <3>1. j.outcome = "failure"
      BY <1>2 DEF Reject
    <3> QED
      BY <3>1, <1>b, <1>c DEF StageOf, Outcomes, Agents
  <2>1. new \in Row
    BY <1>c DEF Row
  <2>2. sent \in Row /\ sent.status = "in_progress" /\ sent.reason = None
    BY <2>1 DEF Row, Statuses
  <2>3. CASE Block(j, new, "manual_intervention")
    <3> HIDE DEF new
    <3> QED
      BY <2>1, <2>3, <1>2, <1>b, BlockAlone DEF Reject, Buckets
  <2>4. CASE /\ Write(j.seen, sent)
             /\ Replace(open \ {j}, StatusRole["in_progress"], ReworkBranch(j))
             /\ UNCHANGED incidents
    <3>1. Replace(open \ {j}, "dev", j.work) /\ "dev" \in Roles /\ "dev" # None
      BY <2>4, <1>g DEF StatusRole, ReworkBranch, Roles, Agents
    <3>2. UNCHANGED <<human, gaveUp, edited, delivered, tested>>
      BY <1>2 DEF Reject
    <3>3. incidents' = 0
      BY <2>0, <2>4, <1>d
    <3> HIDE DEF new, sent
    <3> QED
      BY <2>0, <2>2, <2>4, <3>1, <3>2, <3>3, <1>b, <1>e, <1>f, EndAlone
  <2> QED
    BY <2>3, <2>4, <1>2 DEF Reject
<1>3. ASSUME Succeed(j) PROVE AloneInv' /\ WorkInv' /\ OnItsWay'
  <2>1. PICK merging \in BOOLEAN : Advance(j, merging)
    BY <1>3 DEF Succeed
  <2>2. Cleared(j.seen) \in Row /\ Cleared(j.seen).reason = None
        /\ Cleared(j.seen).status = row.status
    BY <1>c DEF Cleared, Row
  <2>3. incidents' = 0
    <3>1. CASE j.seen.reason # None
      BY <3>1, <1>3 DEF Succeed, ResolveIfBlocked, ResolveIncidents
    <3>2. CASE j.seen.reason = None
      <4>1. incidents = 0
        BY <3>2, <1>c DEF AloneInv, TypeOK
      <4> QED
        BY <3>2, <4>1, <1>3 DEF Succeed, ResolveIfBlocked
    <3> QED
      BY <3>1, <3>2
  <2>4. /\ UNCHANGED <<human, gaveUp, edited>> /\ tested \subseteq tested'
        /\ j.role \in Agents
        /\ ~detached => delivered' \subseteq j.work
        /\ ~detached /\ j.role = "qa" => delivered' \subseteq tested'
    BY <1>3, <1>f DEF Succeed
  <2>5. CASE /\ j.role = "qa"
             /\ Write(j.seen, Cleared(j.seen))
             /\ Replace(open \ {j}, "merge", j.work)
    <3>1. row.status = "in_qa" /\ "merge" \in Roles
      BY <2>5, <1>c DEF StageOf, Roles
    <3> QED
      BY <2>2, <2>3, <2>4, <2>5, <3>1, <1>b, <1>e, <1>g, EndAlone
  <2>6. CASE /\ j.role \in DOMAIN Chain
             /\ Write(j.seen, [Cleared(j.seen) EXCEPT !.status = Chain[j.role].status])
             /\ Replace(open \ {j}, Chain[j.role].next, j.work)
    <3> DEFINE new == [Cleared(j.seen) EXCEPT !.status = Chain[j.role].status]
    <3>1. Chain[j.role].next \in Roles \cup {None} /\ Chain[j.role].status \in Statuses
      BY <2>6, KnownChain
    <3>2. new \in Row /\ new.status = Chain[j.role].status /\ new.reason = None
      BY <2>2, <3>1 DEF Row
    <3>3. \/ Chain[j.role].next = None /\ Chain[j.role].status = "done" /\ j.role = "qa"
          \/ Chain[j.role].next = "dev" /\ Chain[j.role].status = "in_progress"
          \/ Chain[j.role].next = "reviewer" /\ Chain[j.role].status = "in_review"
          \/ Chain[j.role].next = "qa" /\ Chain[j.role].status = "in_qa"
      <4>1. CASE j.role \in {"design", "dev"}
        BY <4>1 DEF Chain
      <4>2. CASE j.role \in {"reviewer", "qa", "devops"}
        BY <4>2 DEF Chain
      <4> QED
        BY <2>6, <4>1, <4>2 DEF Chain
    <3>4. Write(j.seen, new)
      BY <2>6
    <3>5. Chain[j.role].status # "blocked" /\ Chain[j.role].next # "merge"
      BY <3>3, <1>g DEF Roles
    <3>6. Chain[j.role].status = "done" => j.role = "qa"
      BY <3>3
    <3> HIDE DEF new
    <3> QED
      BY <2>3, <2>4, <2>6, <3>1, <3>2, <3>3, <3>4, <3>5, <3>6, <1>b, <1>e, EndAlone
  <2>7. j.role \in DOMAIN Chain
    BY <2>4, <1>c DEF StageOf, Chain, Agents
  <2> QED
    BY <2>1, <2>5, <2>6, <2>7 DEF Advance
<1>4. ASSUME SucceedMerge(j) PROVE AloneInv' /\ WorkInv' /\ OnItsWay'
  <2> DEFINE new == [j.seen EXCEPT !.status = "done", !.reason = None]
  <2>1. new \in Row /\ new.status = "done" /\ new.reason = None
    BY <1>c DEF Row, Statuses
  <2>2. /\ Write(j.seen, new) /\ Replace(open \ {j}, None, None) /\ j.role = "merge"
        /\ UNCHANGED <<incidents, human, delivered, tested, gaveUp, edited>>
    BY <1>4 DEF SucceedMerge
  <2>3. incidents' = 0
    BY <2>2, <1>d
  <2> HIDE DEF new
  <2> QED
    BY <2>1, <2>2, <2>3, <1>b, <1>f, <1>g, EndAlone DEF Roles
<1> QED
  BY <1>1, <1>2, <1>3, <1>4

\* Every step keeps a task left to itself on its way.
LEMMA AloneStep ==
  TypeOK /\ AloneInv /\ WorkInv /\ [Next]_vars => AloneInv' /\ WorkInv'
<1> SUFFICES ASSUME TypeOK, AloneInv, WorkInv, [Next]_vars, Undisturbed'
             PROVE  AloneInv' /\ WorkInv'
  BY DEF AloneInv, WorkInv
<1>0. Undisturbed /\ touches' = touches
  BY StaysDisturbed
<1>a. touches = 0 /\ touches \in Nat /\ human = None
  BY <1>0 DEF Undisturbed, AloneInv
<1>1. CASE UNCHANGED vars
  BY <1>0, <1>1 DEF vars, workVars, AloneInv, WorkInv, StageOf, Commits
<1>2. ASSUME UNCHANGED <<row, open, incidents, human, workVars, detached, gaveUp, edited,
                         raced>>
      PROVE  AloneInv' /\ WorkInv'
  BY <1>0, <1>2 DEF workVars, AloneInv, WorkInv, StageOf, Commits
<1>3. ASSUME NEW d \in Daemons, ReadBusy(d) PROVE AloneInv' /\ WorkInv'
  BY <1>2, <1>3 DEF ReadBusy
<1>4. ASSUME NEW d \in Daemons, Admit(d) PROVE AloneInv' /\ WorkInv'
  <2>1. UNCHANGED <<row, incidents, human, workVars, gaveUp, edited, raced>>
    BY <1>4 DEF Admit
  <2>2. CASE UNCHANGED <<open, detached>>
    BY <1>2, <2>1, <2>2
  <2>3. CASE row.status = "todo" /\ AddJob(IF needsUi THEN "design" ELSE "dev")
    <3>1. PICK role \in {"design", "dev"} : AddJob(role)
      BY <2>3
    <3>2. role \in Roles
      BY DEF Roles, Agents
    <3> QED
      BY <1>0, <2>1, <2>3, <3>1, <3>2, SweepAlone
  <2> QED
    BY <1>4, <2>2, <2>3 DEF Admit
<1>5. ASSUME NEW d \in Daemons, Pickup(d) PROVE AloneInv' /\ WorkInv'
  <2>1. UNCHANGED <<row, incidents, human, workVars, gaveUp, edited, raced>>
    BY <1>5 DEF Pickup
  <2>2. CASE UNCHANGED <<open, detached>>
    BY <1>2, <2>1, <2>2
  <2>3. CASE /\ row.status = "blocked" /\ row.reason = "infra_failure"
             /\ AddJob("devops")
    <3>1. "devops" \in Roles
      BY DEF Roles, Agents
    <3> QED
      BY <1>0, <2>1, <2>3, <3>1, SweepAlone
  <2> QED
    BY <1>5, <2>2, <2>3 DEF Pickup
<1>6. ASSUME NEW op, NEW arg, Request(op, arg) PROVE FALSE
  BY <1>0, <1>a, <1>6 DEF Request
<1>7. ASSUME NEW r, Enqueue(r) PROVE FALSE
  BY <1>0, <1>a, <1>7 DEF Enqueue
<1>8. ASSUME CommitAssign \/ CommitAdvance \/ CommitApprove \/ CommitEdit PROVE FALSE
  BY <1>a, <1>8 DEF CommitAssign, CommitAdvance, CommitApprove, CommitEdit
<1>9. ASSUME Recover \/ \E j \in open : Reap(j) \/ ReadClaim(j) PROVE AloneInv' /\ WorkInv'
  <2>1. UNCHANGED <<row, incidents, human, workVars, gaveUp, edited, raced>>
    BY <1>9 DEF Recover, Reap, ReadClaim, UnchangedByWatchdog
  <2>2. UNCHANGED <<open, detached>>
    BY <1>0, <1>9 DEF Recover, Reap, ReadClaim, Undisturbed
  <2> QED
    BY <1>2, <2>1, <2>2
<1> QED
  BY <1>0, <1>1, <1>3, <1>4, <1>5, <1>6, <1>7, <1>8, <1>9, JobsAlone, FinalsAlone DEF Next

\* With one daemon, and a watchdog that never takes a job at work for lost, a sweep
\* that found the task idle is the first to give it a job.
SweepInv ==
  touches = 0 /\ slips = 0 =>
    /\ ~doubled /\ late = {} /\ stale = None
    /\ open # {} => /\ admitting # {} => row.status # "todo"
                    /\ picking # {} => row.reason # "infra_failure"

\* Its sweeps follow each other, and no other puts a task back where they look.
LEMMA SweepStep ==
  ASSUME \A d, e \in Daemons : d = e
  PROVE  IInv /\ SweepInv /\ [Next]_vars => SweepInv'
<1> SUFFICES ASSUME IInv, SweepInv, [Next]_vars, touches' = 0, slips' = 0
             PROVE  /\ ~doubled' /\ late' = {} /\ stale' = None
                    /\ open' # {} => /\ admitting' # {} => row'.status # "todo"
                                     /\ picking' # {} => row'.reason # "infra_failure"
  BY DEF SweepInv
<1> DEFINE P == /\ ~doubled' /\ late' = {} /\ stale' = None
                /\ open' # {} => /\ admitting' # {} => row'.status # "todo"
                                 /\ picking' # {} => row'.reason # "infra_failure"
<1>0. /\ touches \in Nat /\ slips \in Nat /\ TypeOK /\ AloneInv /\ WorkInv
      /\ admitting \subseteq Daemons /\ picking \subseteq Daemons
  BY PipelineAssumption DEF IInv, TypeOK
<1>a. ASSUME touches = 0, slips = 0
      PROVE  /\ Undisturbed /\ ~doubled /\ late = {} /\ stale = None
             /\ row.status # "blocked" => row.reason = None
             /\ open # {} => /\ admitting # {} => row.status # "todo"
                             /\ picking # {} => row.reason # "infra_failure"
  BY <1>0, <1>a DEF SweepInv, Undisturbed, AloneInv
<1>b. ASSUME touches' = touches, UNCHANGED <<row, sweepVars, watchVars>>,
             open' # {} => open # {}
      PROVE  P
  BY <1>a, <1>b DEF sweepVars, watchVars
<1>1. CASE UNCHANGED vars
  BY <1>1, <1>b DEF vars
<1>2. ASSUME NEW d \in Daemons, ReadBusy(d) PROVE P
  BY <1>a, <1>2 DEF ReadBusy, Idle, watchVars
<1>3. ASSUME NEW d \in Daemons, Admit(d) PROVE P
  <2>1. /\ touches = 0 /\ admitting' = {} /\ admitting # {} /\ picking' = picking
        /\ row' = row /\ UNCHANGED watchVars /\ slips = 0
    BY <1>0, <1>3 DEF Admit, watchVars
  <2>2. CASE row.status = "todo" /\ doubled' = (doubled \/ open # {})
    <3>1. open = {}
      BY <1>a, <2>1, <2>2
    <3>2. row.reason # "infra_failure"
      BY <1>a, <2>1, <2>2, PipelineAssumption DEF Buckets
    <3> QED
      BY <1>a, <2>1, <2>2, <3>1, <3>2 DEF watchVars
  <2>3. CASE UNCHANGED <<open, doubled>>
    BY <1>a, <2>1, <2>3 DEF watchVars
  <2> QED
    BY <1>3, <2>2, <2>3 DEF Admit, AddJob
<1>4. ASSUME NEW d \in Daemons, Pickup(d) PROVE P
  <2>1. /\ touches = 0 /\ picking' = {} /\ picking # {} /\ admitting' = admitting
        /\ row' = row /\ UNCHANGED watchVars /\ slips = 0
    BY <1>0, <1>4 DEF Pickup, watchVars
  <2>2. CASE /\ row.status = "blocked" /\ row.reason = "infra_failure"
             /\ doubled' = (doubled \/ open # {})
    <3>1. open = {}
      BY <1>a, <2>1, <2>2
    <3> QED
      BY <1>a, <2>1, <2>2, <3>1 DEF watchVars
  <2>3. CASE UNCHANGED <<open, doubled>>
    BY <1>a, <2>1, <2>3 DEF watchVars
  <2> QED
    BY <1>4, <2>2, <2>3 DEF Pickup, AddJob
<1>5. ASSUME NEW j \in open,
             \/ Start(j) \/ Requeue(j) \/ GiveUp(j) \/ Finish(j)
             \/ StartMerge(j) \/ MergeBranch(j) \/ FinishMerge(j)
      PROVE  P
  <2>1. touches' = touches /\ slips' = slips /\ UNCHANGED <<row, sweepVars>>
    BY <1>5 DEF Start, Requeue, GiveUp, Finish, StartMerge, MergeBranch, FinishMerge,
                UnchangedByJobs, watchVars
  <2>2. late' = {} /\ stale' = None
    BY <1>a, <1>5, <2>1
    DEF Start, AgeStale, Requeue, GiveUp, Finish, StartMerge, MergeBranch, FinishMerge,
        watchVars
  <2> QED
    BY <1>a, <1>5, <2>1, <2>2 DEF sweepVars
<1>6. ASSUME NEW j \in open, Escalate(j) \/ Reject(j) \/ Succeed(j) \/ SucceedMerge(j)
      PROVE  P
  <2>1. touches' = touches /\ UNCHANGED <<sweepVars, watchVars>> /\ slips' = slips
    BY <1>6 DEF Escalate, Reject, Succeed, SucceedMerge, watchVars
  <2>2. OnItsWay'
    BY <1>0, <1>a, <1>6, <2>1, FinalsAlone
  <2> QED
    BY <1>a, <2>1, <2>2 DEF OnItsWay, sweepVars, watchVars
<1>7. ASSUME NEW op, NEW arg, Request(op, arg) PROVE FALSE
  BY <1>0, <1>7 DEF Request
<1>8. ASSUME NEW r, Enqueue(r) PROVE FALSE
  BY <1>0, <1>8 DEF Enqueue
<1>9. ASSUME CommitAssign \/ CommitAdvance \/ CommitApprove \/ CommitEdit PROVE FALSE
  <2>1. touches = 0 /\ slips = 0 /\ human # None
    BY <1>9
    DEF CommitAssign, CommitAdvance, CommitApprove, CommitEdit, UnchangedByHumans, watchVars
  <2> QED
    BY <1>0, <1>a, <2>1 DEF Undisturbed, AloneInv
<1>10. ASSUME NEW j \in open, Reap(j) \/ ReadClaim(j) PROVE FALSE
  BY <1>0, <1>10 DEF Reap, ReadClaim
<1>11. ASSUME Recover PROVE FALSE
  <2>1. touches = 0 /\ slips = 0 /\ stale # None
    BY <1>11 DEF Recover, UnchangedByWatchdog
  <2> QED
    BY <1>a, <2>1
<1> QED
  BY <1>1, <1>2, <1>3, <1>4, <1>5, <1>6, <1>7, <1>8, <1>9, <1>10, <1>11 DEF Next

-----------------------------------------------------------------------------
(* Theorems *)

\* A task starts with the invariant.
LEMMA InitInv == Init => IInv
<1> SUFFICES ASSUME Init PROVE IInv
  OBVIOUS
<1>1. ReasonOnlyWhileBlocked /\ BounceInv
  BY PipelineAssumption DEF Init, ReasonOnlyWhileBlocked, BounceInv
<1>2. IdInv /\ OwnInv /\ ClaimInv
  BY DEF Init, IdInv, OwnInv, ClaimInv
<1>3. ReviewedInv /\ TestedInv /\ GateInv
  BY DEF Init, ReviewedInv, TestedInv, GateInv, MergeNeedsApprovals
<1>4. AloneInv /\ WorkInv
  BY PipelineAssumption DEF Init, AloneInv, WorkInv, Buckets
<1> QED
  BY <1>1, <1>2, <1>3, <1>4, TypeInit DEF IInv

\* Every step keeps the invariant.
LEMMA NextInv == IInv /\ [Next]_vars => IInv'
BY TypeStep, RowStep, ApprovedStep, ClaimStep, AloneStep
DEF IInv, RowInv, BranchInv, ApprovedInv

\* The invariant holds of every reachable state, whatever agents, sweeps and
\* humans do to the task and in whatever order their transactions commit.
THEOREM Invariance == Spec => []IInv
BY InitInv, NextInv, PTL DEF Spec

\* Rows, jobs, requests and branches stay what the code takes them for.
THEOREM TypeCorrect == Spec => []TypeOK
<1>1. IInv => TypeOK
  BY DEF IInv
<1> QED
  BY <1>1, Invariance, PTL

\* A task that is not blocked has no blocked_reason: _block_task and the success
\* path of _advance_pipeline, and every unblocking request, keep the two together.
THEOREM ReasonsAreOfBlocks == Spec => []ReasonOnlyWhileBlocked
<1>1. IInv => ReasonOnlyWhileBlocked
  BY DEF IInv
<1> QED
  BY <1>1, Invariance, PTL

\* _route_failure sends a task back to dev at most MaxBounce times before a human
\* looks at it: bounce_count is never below the number of reworks.
THEOREM BouncesAreBounded == Spec => []ReworksBounded
<1>1. IInv => ReworksBounded
  BY DEF IInv, BounceInv, ReworksBounded
<1> QED
  BY <1>1, Invariance, PTL

\* Every commit that reaches the target branch passed QA, and those of dev a
\* review: the merge stage takes the branch its parent QA instance tested.
THEOREM MergesAreApproved == Spec => []MergedWasApproved
<1>1. IInv => MergedWasApproved
  BY DEF IInv, ReviewedInv, TestedInv, MergedWasApproved
<1> QED
  BY <1>1, Invariance, PTL

\* The target branch moves only after both stages of the merge gate completed.
THEOREM MergesAreGated == Spec => []MergeNeedsApprovals
<1>1. IInv => MergeNeedsApprovals
  BY DEF IInv, GateInv
<1> QED
  BY <1>1, Invariance, PTL

\* A task that no human touched and that never had two jobs is never forgotten, though
\* its jobs be reaped at work: each finalization leaves it with a job, with a reason a
\* sweep or a human finds it by, or done, and its incident ends with its block.
THEOREM TasksAreFollowedUp == Spec => []BlocksFollowedUp
<1>1. IInv => BlocksFollowedUp
  BY DEF IInv, AloneInv, BlocksFollowedUp
<1> QED
  BY <1>1, Invariance, PTL

\* What QA passed of such a task when it is done holds all that dev delivered: every
\* job of the chain starts from the branch of the one before it, rework from the branch
\* that was rejected, and a retry from the same parent.
THEOREM WorkIsKept == Spec => []WorkKept
<1>1. IInv => WorkKept
  BY DEF IInv, WorkInv, WorkKept
<1> QED
  BY <1>1, Invariance, PTL

\* One daemon's sweeps never both take up a task, while its watchdog takes no job at
\* work for lost: they run one after the other, and a task that has a job is neither in
\* the backlog nor blocked by infra when they look.
THEOREM OneDaemonSweepsOnce ==
  ASSUME \A d, e \in Daemons : d = e
  PROVE  Spec => [](touches = 0 /\ slips = 0 => ~doubled)
<1>1. Init => SweepInv
  BY DEF Init, SweepInv
<1>2. SweepInv => (touches = 0 /\ slips = 0 => ~doubled)
  BY DEF SweepInv
<1>3. IInv /\ SweepInv /\ [Next]_vars => SweepInv'
  BY SweepStep
<1> QED
  BY <1>1, <1>2, <1>3, Invariance, PTL DEF Spec

=============================================================================
