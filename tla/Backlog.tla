------------------------------ MODULE Backlog ------------------------------
(***************************************************************************)
(* The backlog a person keeps with `flowtrack task` and the Jira project   *)
(* it is mirrored to.  FlowTrack and Jira are two stores with no common    *)
(* transaction: every command is a row change and a call to Jira, in an    *)
(* order of its own, and either may fail, or take effect without its       *)
(* answer arriving.  The callers are the command line, the API's handlers, *)
(* the worker that advances the pipeline and the merge worker.             *)
(*   add      creates the issue, then inserts the row that carries its key *)
(*   update   edits the row and says nothing to Jira                       *)
(*   change   (API and pipeline) moves the issue, then commits the row     *)
(*   merge    commits the row, then moves the issue                        *)
(*   comment  posts the comment, then inserts the row with `synced`        *)
(*   rm       deletes the row, which any row referring to it prevents      *)
(***************************************************************************)
EXTENDS Naturals, FiniteSets, Sequences

CONSTANTS
    Callers,      \* sessions of the command line, requests and workers
    Issues,       \* issues the Jira project can hold
    Statuses,     \* the task statuses the callers use
    Columns,      \* the columns of the Jira board, named like its transitions
    First,        \* the column a new issue is in
    StatusOf,     \* [Columns -> Statuses], what the team means by a column
    Offered,      \* [Columns -> SUBSET Columns], the workflow's transitions
    MaxTasks,     \* bound: rows ever inserted
    MaxCalls,     \* bound: commands ever started
    MaxComments,  \* bound: comments ever posted
    MaxLate,      \* bound: moves Jira has accepted and not made yet
    None

\* The transitions tried for a status, the first the board has winning.
Candidates(s) ==
    CASE s = "todo"        -> <<"To Do", "Backlog", "Open", "New">>
      [] s = "in_progress" -> <<"In Progress", "In Development", "Development", "Doing">>
      [] s = "in_review"   -> <<"In Review", "Code Review", "Review", "Under Review",
                            "Peer Review">>
      [] s = "in_qa"       -> <<"Testing", "QA", "In QA", "Test", "Quality Assurance">>
      [] s = "done"        -> <<"Done", "Closed", "Resolved", "Complete", "Merged">>
      [] s = "blocked"     -> <<"Blocked", "On Hold", "Impediment", "Waiting">>

Named(s) == {Candidates(s)[i] : i \in DOMAIN Candidates(s)}
Before(s, m, n) ==
    \E i, j \in DOMAIN Candidates(s) :
        i < j /\ Candidates(s)[i] = m /\ Candidates(s)[j] = n

\* The team means by a column named like a status that status; no status is
\* the mark of a deleted row.
ASSUME BacklogAssumption ==
    /\ IsFiniteSet(Callers)
    /\ First \in Columns /\ "todo" \in Statuses /\ "removed" \notin Statuses
    /\ StatusOf \in [Columns -> Statuses]
    /\ Offered \in [Columns -> SUBSET Columns]
    /\ \A s \in Statuses : \A col \in Named(s) \cap Columns : StatusOf[col] = s
    /\ None \notin Issues \cup Columns
    /\ {MaxTasks, MaxCalls, MaxComments, MaxLate} \subseteq Nat

VARIABLES
    tasks,     \* the rows, in order of creation; Removed once deleted
    column,    \* where each issue of the project stands, None if not filed
    op,        \* what each caller has under way
    calls,     \* commands started so far
    late,      \* moves that timed out and that Jira may still make
    posted,    \* comments on the issues
    synced,    \* comment rows marked synced_to_jira
    made,      \* history: the issues FlowTrack filed
    lost,      \* history: those whose answer, row or task was lost since
    astray,    \* history: comments posted whose answer or row was lost
    drift      \* history: tasks whose last change did not reach Jira as it should

rows == <<tasks, posted, synced>>
history == <<made, lost, astray, drift>>
vars == <<tasks, column, op, calls, late, posted, synced, made, lost, astray, drift>>

Ids == 1..MaxTasks
Removed == [status |-> "removed", ticket |-> None, pinned |-> FALSE, how |-> "none"]
Exists(t) == t \in 1..Len(tasks) /\ tasks[t] # Removed
Called == calls < MaxCalls /\ calls' = calls + 1
Idle == [kind |-> "idle", stage |-> "idle", task |-> 0, from |-> "none", to |-> "none",
         issue |-> None, names |-> {}, hit |-> FALSE, clean |-> TRUE]

-----------------------------------------------------------------------------
\* What the mirror means

Mirrors(col, s) == StatusOf[col] = s

Holders(i) == {t \in Ids : Exists(t) /\ tasks[t].ticket = i}
StatusKinds == {"edit", "change", "merge"}
ChangeOn(c, t) == op[c].kind \in StatusKinds /\ op[c].task = t

\* Calls that may move the issue or the row of task t.
Rivals(t) == {c \in Callers : op[c].kind \in StatusKinds
                 /\ \/ op[c].task = t
                    \/ op[c].issue # None /\ op[c].issue = tasks[t].ticket}
Soiled(cs) == [c \in Callers |-> IF c \in cs THEN [op[c] EXCEPT !.clean = FALSE] ELSE op[c]]

\* Issue i moves on account of task t: the other tasks that carry i drift.
Moves(i, col, t) ==
    /\ column' = [column EXCEPT ![i] = col]
    /\ drift' = drift \cup (Holders(i) \ {t})

-----------------------------------------------------------------------------
\* `task add`: the issue first, the row after it

Add(c, s, given, sync) ==
    /\ op[c] = Idle /\ Called
    /\ given # None => column[given] # None
    /\ op' = [op EXCEPT ![c] = [Idle EXCEPT !.kind = "add", !.to = s, !.issue = given,
                                  !.stage = IF sync /\ given = None THEN "creating"
                                            ELSE "inserting"]]
    /\ UNCHANGED <<rows, column, late, history>>

\* Jira files the issue, or refuses; a timeout reads like a refusal.
CreateIssue(c) ==
    /\ op[c].stage = "creating"
    /\ \/ \E i \in Issues, answered \in BOOLEAN :
            /\ column[i] = None
            /\ column' = [column EXCEPT ![i] = First]
            /\ made' = made \cup {i}
            /\ lost' = IF answered THEN lost ELSE lost \cup {i}
            /\ op' = [op EXCEPT ![c].stage = "inserting",
                                ![c].issue = IF answered THEN i ELSE None,
                                ![c].hit = answered]
       \/ /\ op' = [op EXCEPT ![c].stage = "inserting"]
          /\ UNCHANGED <<column, made, lost>>
    /\ UNCHANGED <<calls, rows, late, astray, drift>>

\* Mutant of TicketOf: the key Jira answered with is printed and not stored.
TicketGiven(o) == IF o.hit THEN None ELSE o.issue

\* The row carries the key Jira answered with, else the one that was given.
TicketOf(o) == o.issue
OriginOf(o) == IF o.issue = None THEN "none" ELSE IF o.hit THEN "made" ELSE "given"

Inserted(status, ticket, how) ==
    /\ Len(tasks) < MaxTasks
    /\ tasks' = Append(tasks, [status |-> status, ticket |-> ticket, how |-> how,
                               pinned |-> how = "found"])
    /\ drift' = IF ticket = None \/ Mirrors(column[ticket], status) THEN drift
                ELSE drift \cup {Len(tasks) + 1}

\* The status given to `add` is not pushed: the issue stays in its column.
InsertTask(c) ==
    /\ op[c].kind = "add" /\ op[c].stage = "inserting"
    /\ Inserted(op[c].to, TicketOf(op[c]), OriginOf(op[c]))
    /\ op' = [op EXCEPT ![c] = Idle]
    /\ UNCHANGED <<calls, column, late, posted, synced, made, lost, astray>>

\* The insert fails; an issue that was filed for it stays in Jira.
InsertFails(c) ==
    /\ op[c].kind = "add" /\ op[c].stage = "inserting"
    /\ lost' = IF OriginOf(op[c]) = "made" THEN lost \cup {op[c].issue} ELSE lost
    /\ op' = [op EXCEPT ![c] = Idle]
    /\ UNCHANGED <<calls, rows, column, late, made, astray, drift>>

\* External: somebody files an issue, or drops one into a column, in Jira.
FiledInJira(i, col) ==
    /\ column[i] = None
    /\ column' = [column EXCEPT ![i] = col]
    /\ UNCHANGED <<calls, rows, op, late, history>>

\* The source fetched it when it was open and labelled, wherever it is now.
Fetched(i) == column[i] # None

\* The discovery of a labelled issue, promoted: once per issue, whoever
\* else carries it, and without a push.
Promote(i) ==
    /\ Fetched(i)
    /\ \A t \in DOMAIN tasks : tasks[t].how = "found" => tasks[t].ticket # i
    /\ Inserted("todo", i, "found")
    /\ UNCHANGED <<calls, column, op, late, posted, synced, made, lost, astray>>

-----------------------------------------------------------------------------
\* Status changes.  `change` calls Jira inside the transaction, `merge` after it.

Begin(c, kind, t, s) ==
    /\ op[c] = Idle /\ Exists(t) /\ Called
    /\ kind = "merge" => s = "done"
    /\ op' = [Soiled(Rivals(t)) EXCEPT ![c] =
                 [Idle EXCEPT !.kind = kind, !.task = t, !.from = tasks[t].status, !.to = s,
                              !.issue = IF kind = "edit" THEN None ELSE tasks[t].ticket,
                              !.clean = Rivals(t) = {},
                              !.stage = IF kind = "change" /\ tasks[t].ticket # None THEN "asking"
                                        ELSE "writing"]]
    /\ UNCHANGED <<rows, column, late, history>>

\* Mutant of Matching: the names are not looked up among those on offer.
MatchingAnything(s, offered) == Named(s)

\* Mutant of Matching: whatever is on offer will do.
MatchingWhatever(s, offered) == offered

\* The candidates that the issue's present column offers.
Matching(s, offered) == Named(s) \cap offered

AfterPush(o) == IF o.kind = "change" THEN "writing" ELSE "settling"

Asked(c, names) ==
    op' = [op EXCEPT ![c].names = names,
                     ![c].stage = IF names = {} THEN AfterPush(op[c]) ELSE "posting"]

AskTransitions(c) ==
    /\ op[c].stage = "asking"
    /\ \/ Asked(c, Matching(op[c].to, Offered[column[op[c].issue]]))
       \/ Asked(c, {})                      \* no answer, or not a 200
    /\ UNCHANGED <<calls, rows, column, late, history>>

\* One POST, of candidate n; anything but a 204 goes on to the next one.
Goes(c, n, hit) ==
    LET rest == op[c].names \ {n} IN
    op' = [op EXCEPT ![c].names = rest, ![c].hit = hit,
                     ![c].stage = IF rest = {} THEN AfterPush(op[c]) ELSE "posting"]

PostTransition(c, n) ==
    LET i == op[c].issue IN
    /\ op[c].stage = "posting"
    /\ n \in op[c].names /\ \A m \in op[c].names : ~Before(op[c].to, m, n)
    /\ \/ /\ n \in Offered[column[i]]                          \* 204
          /\ Moves(i, n, op[c].task)
          /\ op' = [op EXCEPT ![c].names = {}, ![c].hit = TRUE, ![c].stage = AfterPush(op[c])]
          /\ UNCHANGED late
       \/ /\ n \in Offered[column[i]]                          \* done, the answer lost
          /\ Moves(i, n, op[c].task)
          /\ Goes(c, n, TRUE)
          /\ UNCHANGED late
       \/ /\ Goes(c, n, op[c].hit)                             \* refused or unreachable
          /\ UNCHANGED <<column, late, drift>>
       \/ /\ Cardinality(late) < MaxLate                       \* timed out, still on its way
          /\ late' = late \cup {<<i, n>>}
          /\ Goes(c, n, op[c].hit)
          /\ UNCHANGED <<column, drift>>
    /\ UNCHANGED <<calls, rows, made, lost, astray>>

\* A move that had timed out is made after all.
LateMove(i, col) ==
    /\ <<i, col>> \in late
    /\ late' = late \ {<<i, col>>}
    /\ IF col \in Offered[column[i]]
       THEN /\ Moves(i, col, 0)
            /\ op' = Soiled({c \in Callers : op[c].issue = i})
       ELSE UNCHANGED <<column, drift, op>>
    /\ UNCHANGED <<calls, rows, made, lost, astray>>

\* The ORM writes the status only if it differs from the one it loaded.
Written(t, from, to) ==
    IF from = to THEN tasks
    ELSE [tasks EXCEPT ![t].status = to]

Settled(o) == IF o.clean /\ o.hit THEN drift \ {o.task} ELSE drift \cup {o.task}

\* The commit; the API and the workers also insert a transition row.
Write(c) ==
    LET o == op[c] IN
    /\ o.kind \in StatusKinds /\ o.stage = "writing"
    /\ Exists(o.task)
    /\ tasks' = [Written(o.task, o.from, o.to) EXCEPT
                    ![o.task].pinned = @ \/ o.kind # "edit"]
    /\ IF o.kind = "merge" /\ o.issue # None
       THEN /\ op' = [op EXCEPT ![c].stage = "asking"]
            /\ UNCHANGED drift
       ELSE /\ op' = [op EXCEPT ![c] = Idle]
            /\ drift' = CASE tasks[o.task].ticket = None -> drift
                          [] tasks[o.task].ticket # None /\ o.kind = "edit" ->
                               IF o.from = o.to THEN drift ELSE drift \cup {o.task}
                          [] OTHER -> Settled(o)
    /\ UNCHANGED <<calls, column, late, posted, synced, made, lost, astray>>

\* The merge worker's push is over; it reports nothing back.
SettlePush(c) ==
    /\ op[c].stage = "settling"
    /\ op' = [op EXCEPT ![c] = Idle]
    /\ drift' = Settled(op[c])
    /\ UNCHANGED <<calls, rows, column, late, made, lost, astray>>

\* The transaction fails: the row is gone, or the database or a later
\* statement of the handler failed.  What Jira was told stays.
Rollback(c) ==
    LET o == op[c] IN
    /\ o.kind \in StatusKinds /\ o.stage = "writing"
    /\ op' = [op EXCEPT ![c] = Idle]
    /\ drift' = IF o.hit THEN drift \cup {o.task} ELSE drift
    /\ UNCHANGED <<calls, rows, column, late, made, lost, astray>>

-----------------------------------------------------------------------------
\* Comments, jobs and `rm`

CommentOn(c, t, sync) ==
    /\ op[c] = Idle /\ Exists(t) /\ Called
    /\ op' = [op EXCEPT ![c] = [Idle EXCEPT !.kind = "comment", !.task = t,
                 !.stage = IF sync /\ tasks[t].ticket # None THEN "commenting" ELSE "noting"]]
    /\ UNCHANGED <<rows, column, late, history>>

PostComment(c) ==
    /\ op[c].stage = "commenting"
    /\ \/ /\ posted < MaxComments
          /\ posted' = posted + 1
          /\ \E answered \in BOOLEAN :
                /\ op' = [op EXCEPT ![c].stage = "noting", ![c].hit = answered]
                /\ astray' = IF answered THEN astray ELSE astray + 1
       \/ /\ op' = [op EXCEPT ![c].stage = "noting"]
          /\ UNCHANGED <<posted, astray>>
    /\ UNCHANGED <<calls, tasks, synced, column, late, made, lost, drift>>

\* The row takes the answer for its flag; no task, no row.
NoteComment(c) ==
    LET o == op[c] IN
    /\ o.stage = "noting"
    /\ op' = [op EXCEPT ![c] = Idle]
    /\ \/ /\ Exists(o.task)
          /\ tasks' = [tasks EXCEPT ![o.task].pinned = TRUE]
          /\ synced' = IF o.hit THEN synced + 1 ELSE synced
          /\ UNCHANGED astray
       \/ /\ astray' = IF o.hit THEN astray + 1 ELSE astray
          /\ UNCHANGED <<tasks, synced>>
    /\ UNCHANGED <<calls, posted, column, late, made, lost, drift>>

\* `task assign` inserts a job and leaves the status alone.
AssignJob(t) ==
    /\ Exists(t)
    /\ tasks' = [tasks EXCEPT ![t].pinned = TRUE]
    /\ UNCHANGED <<calls, column, op, late, posted, synced, history>>

\* `task rm` reads the list and waits for the person to confirm.
AskRemove(c, t) ==
    /\ op[c] = Idle /\ Exists(t) /\ Called
    /\ op' = [op EXCEPT ![c] = [Idle EXCEPT !.kind = "rm", !.task = t, !.stage = "confirming"]]
    /\ UNCHANGED <<rows, column, late, history>>

\* No foreign key cascades: comments, jobs, transitions and discovered items
\* make the DELETE fail.  The issue stays in Jira.
Delete(c) ==
    LET t == op[c].task IN
    /\ op[c].stage = "confirming"
    /\ op' = [op EXCEPT ![c] = Idle]
    /\ IF Exists(t) /\ ~tasks[t].pinned
       THEN /\ tasks' = [tasks EXCEPT ![t] = Removed]
            /\ lost' = IF tasks[t].how = "made" THEN lost \cup {tasks[t].ticket} ELSE lost
       ELSE UNCHANGED <<tasks, lost>>
    /\ UNCHANGED <<calls, column, late, posted, synced, made, astray, drift>>

-----------------------------------------------------------------------------
Init ==
    /\ tasks = <<>>
    /\ column = [i \in Issues |-> None]
    /\ op = [c \in Callers |-> Idle]
    /\ late = {} /\ made = {} /\ lost = {} /\ drift = {}
    /\ calls = 0 /\ posted = 0 /\ synced = 0 /\ astray = 0

Next ==
    \/ \E c \in Callers :
        \/ \E s \in Statuses, g \in Issues \cup {None}, b \in BOOLEAN : Add(c, s, g, b)
        \/ CreateIssue(c) \/ InsertTask(c) \/ InsertFails(c)
        \/ \E k \in StatusKinds, t \in Ids, s \in Statuses : Begin(c, k, t, s)
        \/ AskTransitions(c) \/ Write(c) \/ SettlePush(c) \/ Rollback(c)
        \/ \E t \in Ids : AskRemove(c, t) \/ \E b \in BOOLEAN : CommentOn(c, t, b)
        \/ \E n \in Columns : PostTransition(c, n)
        \/ PostComment(c) \/ NoteComment(c) \/ Delete(c)
    \/ \E i \in Issues : Promote(i) \/ \E col \in Columns : FiledInJira(i, col) \/ LateMove(i, col)
    \/ \E t \in Ids : AssignJob(t)

Spec == Init /\ [][Next]_vars

-----------------------------------------------------------------------------
Ops == [kind : {"idle", "add", "comment", "rm"} \cup StatusKinds,
        stage : {"idle", "creating", "inserting", "asking", "posting", "writing", "settling",
                 "commenting", "noting", "confirming"},
        task : 0..MaxTasks, from : Statuses \cup {"none"}, to : Statuses \cup {"none"},
        issue : Issues \cup {None}, names : SUBSET Columns, hit : BOOLEAN, clean : BOOLEAN]

\* Every variable has its type, whatever a row refers to in Jira is there,
\* and a push only ever asks for a transition the board has.
TypeOK ==
    /\ \A t \in DOMAIN tasks : tasks[t] # Removed =>
         tasks[t] \in [status : Statuses, pinned : BOOLEAN,
                      how : {"none", "made", "given", "found"},
                      ticket : {None} \cup {i \in Issues : column[i] # None}]
    /\ Len(tasks) \in 0..MaxTasks
    /\ column \in [Issues -> Columns \cup {None}]
    /\ op \in [Callers -> Ops]
    /\ late \subseteq Issues \X Columns /\ drift \subseteq Ids
    /\ lost \subseteq made /\ made \subseteq {i \in Issues : column[i] # None}
    /\ {posted, synced, astray} \subseteq 0..MaxComments /\ calls \in 0..MaxCalls

\* "Mirrors FlowTrack task status changes to Jira column transitions"
\* (jira_sync.py:1), as far as the code keeps it: while no change of a task
\* is under way, its issue stands in a column of its status, unless the last
\* change came from the CLI, overlapped another one, was rolled back after
\* the push, found no transition, or somebody else's push moved the issue.
Mirrored ==
    \A t \in Ids :
        ( /\ Exists(t) /\ tasks[t].ticket # None
          /\ t \notin drift
          /\ \A c \in Callers : ~ChangeOn(c, t) )
            => Mirrors(column[tasks[t].ticket], tasks[t].status)

\* Nothing FlowTrack wrote in Jira is forgotten unless an answer or a row was
\* lost: an issue it filed is the ticket of the one task it was filed for, or
\* of the one about to be inserted; and the comments on the issues are those
\* marked as synced and those about to be.
RemoteAccounted ==
    /\ \A i \in made \ lost :
         \/ Cardinality({t \in Holders(i) : tasks[t].how = "made"}) = 1
         \/ \E c \in Callers : op[c].kind = "add" /\ op[c].issue = i /\ op[c].hit
    /\ posted = synced + astray
                 + Cardinality({c \in Callers : op[c].stage = "noting" /\ op[c].hit})

=============================================================================
