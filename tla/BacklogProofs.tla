---------------------------- MODULE BacklogProofs ----------------------------
(***************************************************************************)
(* Proofs, for any number of callers, issues, tasks and calls, of the      *)
(* properties of Backlog.  What carries them is when a call may believe    *)
(* its answer: a status change that no other one has met (`clean`) reads   *)
(* and writes a row and an issue that nobody else touches.                 *)
(***************************************************************************)
EXTENDS Backlog, FiniteSetTheorems, SequenceTheorems, TLAPS

-----------------------------------------------------------------------------
(* The inductive invariant *)

Rows == [status : Statuses \cup {"removed"}, ticket : Issues \cup {None}, pinned : BOOLEAN,
         how : {"none", "made", "given", "found"}]
Pushers == {"change", "merge"}
Filed(i) == i # None => column[i] # None

\* A stage belongs to the command that goes through it.
Belongs(o) ==
  /\ o.stage \in {"creating", "inserting"} => o.kind = "add"
  /\ o.stage \in {"commenting", "noting"} => o.kind = "comment"
  /\ o.stage = "confirming" => o.kind = "rm"
  /\ o.stage = "writing" => o.kind \in StatusKinds
  /\ o.stage \in {"asking", "posting", "settling"} => o.kind \in Pushers

RowTypes ==
  /\ tasks \in Seq(Rows) /\ Len(tasks) <= MaxTasks
  /\ \A t \in DOMAIN tasks : /\ tasks[t] # Removed => tasks[t].status \in Statuses
                             /\ Filed(tasks[t].ticket)
                             /\ tasks[t].how = "made" => tasks[t].ticket # None
OpTypes ==
  /\ op \in [Callers -> Ops]
  /\ \A c \in Callers :
       /\ op[c].kind \in {"add"} \cup StatusKinds => op[c].to \in Statuses
       /\ Filed(op[c].issue) /\ Belongs(op[c])
IssueTypes ==
  /\ column \in [Issues -> Columns \cup {None}]
  /\ late \subseteq Issues \X Columns /\ drift \subseteq Ids
  /\ lost \subseteq made /\ made \subseteq {i \in Issues : column[i] # None}
TypeInv ==
  /\ RowTypes /\ OpTypes /\ IssueTypes
  /\ calls \in 0..MaxCalls
  /\ posted \in 0..MaxComments /\ synced \in Nat /\ astray \in Nat

\* A row that has not been deleted; the issue that a command has in hand is the
\* ticket of the task it works on.
Present(t, ts) == t \in 1..Len(ts) /\ ts[t] # Removed
InStage(o, ts) ==
  /\ o.stage \in {"asking", "posting", "settling"} => o.issue # None
  /\ o.names # {} => o.stage = "posting" /\ o.names \subseteq Named(o.to)
  /\ o.kind \in Pushers => /\ o.hit => o.issue # None
                           /\ Present(o.task, ts) => ts[o.task].ticket = o.issue
  /\ o.kind \in StatusKinds => o.task \in 1..Len(ts)
  /\ o.kind = "edit" => o.stage = "writing"
  /\ o.stage = "settling" => o.kind = "merge"
StageInv == \A c \in Callers : InStage(op[c], tasks)

\* What a status change that met no other one knows of its row and its issue.
Target(o) == IF o.kind = "merge" /\ o.stage # "writing" THEN o.to ELSE o.from
Knows(o, ts, cols) ==
  /\ Present(o.task, ts) => ts[o.task].status = Target(o)
  /\ o.kind \in Pushers /\ o.hit => Mirrors(cols[o.issue], o.to)
Apart(o, q) ==
  /\ q.task # o.task
  /\ q.kind \in Pushers /\ o.kind \in Pushers /\ o.issue # None => q.issue # o.issue
CleanInv ==
  \A c \in Callers : op[c].clean /\ op[c].kind \in StatusKinds =>
    /\ Knows(op[c], tasks, column)
    /\ \A d \in Callers \ {c} : op[d].kind \in StatusKinds => Apart(op[c], op[d])

\* A push that has moved the issue, or a row that has moved before its issue.
Halfway(o, t) ==
  /\ o.task = t
  /\ \/ o.kind = "change" /\ o.hit
     \/ o.kind = "merge" /\ o.stage \in {"asking", "posting", "settling"}
SyncInv ==
  \A t \in DOMAIN tasks :
    tasks[t].ticket # None /\ t \notin drift =>
      \/ Mirrors(column[tasks[t].ticket], tasks[t].status)
      \/ \E c \in Callers : Halfway(op[c], t)

\* An issue that was filed is with one command or with one row.
Filers(i) == {c \in Callers : op[c].kind = "add" /\ op[c].issue = i /\ op[c].hit}
Carriers(i) == {t \in DOMAIN tasks : tasks[t].how = "made" /\ tasks[t].ticket = i}
FiledInv ==
  /\ \A i \in Issues : i \notin made => Filers(i) = {} /\ Carriers(i) = {}
  /\ \A i \in made \ lost : \/ Carriers(i) = {} /\ \E c \in Callers : Filers(i) = {c}
                            \/ Filers(i) = {} /\ \E t \in DOMAIN tasks : Carriers(i) = {t}
  /\ \A c \in Callers :
       op[c].kind = "add" /\ op[c].hit => op[c].stage = "inserting" /\ op[c].issue # None

Noting == {c \in Callers : op[c].stage = "noting" /\ op[c].hit}
NotedInv ==
  /\ posted = synced + astray + Cardinality(Noting)
  /\ \A c \in Callers : op[c].stage = "commenting" => ~op[c].hit

IInv == TypeInv /\ StageInv /\ CleanInv /\ SyncInv /\ FiledInv /\ NotedInv

-----------------------------------------------------------------------------
(* Types *)

\* The bounds are natural numbers.
LEMMA Bounds == MaxTasks \in Nat /\ MaxCalls \in Nat /\ MaxComments \in Nat /\ MaxLate \in Nat
BY BacklogAssumption

\* Inserting a row keeps the rows' types.
LEMMA InsertedTypes ==
  ASSUME TypeInv, NEW s \in Statuses, NEW i \in Issues \cup {None}, Filed(i),
         NEW how \in {"none", "made", "given", "found"}, Inserted(s, i, how), UNCHANGED column,
         how = "made" => i # None
  PROVE  RowTypes' /\ drift' \subseteq Ids
<1> USE BacklogAssumption DEF TypeInv, RowTypes
<1> DEFINE row == [status |-> s, ticket |-> i, how |-> how, pinned |-> how = "found"]
<1>1. row \in Rows
  <2>1. (how = "found") \in BOOLEAN
    OBVIOUS
  <2> QED
    BY <2>1 DEF Rows
<1>2. row.status \in Statuses /\ row.ticket = i /\ row.how = how
  OBVIOUS
<1> HIDE DEF row
<1>3. tasks' = Append(tasks, row) /\ Len(tasks) < MaxTasks
  BY DEF Inserted, row
<1>4. /\ tasks' \in Seq(Rows) /\ Len(tasks') = Len(tasks) + 1
      /\ \A t \in 1..Len(tasks) : tasks'[t] = tasks[t]
      /\ tasks'[Len(tasks) + 1] = row
  BY <1>1, <1>3, AppendProperties
<1>5. Len(tasks) \in Nat /\ DOMAIN tasks = 1..Len(tasks) /\ DOMAIN tasks' = 1..(Len(tasks) + 1)
  BY <1>4, LenProperties
<1>6. \A t \in DOMAIN tasks' : t \in DOMAIN tasks \/ t = Len(tasks) + 1
  BY <1>5
<1>7. RowTypes'
  BY <1>2, <1>3, <1>4, <1>5, <1>6 DEF Filed
<1>8. drift' \subseteq Ids
  <2>1. Len(tasks) + 1 \in Ids
    BY <1>3, <1>5, Bounds DEF Ids
  <2>2. drift' \subseteq drift \cup {Len(tasks) + 1}
    BY DEF Inserted
  <2> QED
    BY <2>1, <2>2 DEF IssueTypes
<1> QED
  BY <1>7, <1>8

\* A row that is rewritten keeps its place; its ticket is still filed.
LEMMA RewrittenTypes ==
  ASSUME TypeInv, NEW t \in DOMAIN tasks, NEW row \in Rows,
         tasks' = [tasks EXCEPT ![t] = row],
         row # Removed => row.status \in Statuses, row.ticket \in {None, tasks[t].ticket},
         row.how = "made" => row.ticket # None,
         UNCHANGED column
  PROVE  RowTypes' /\ Len(tasks') = Len(tasks) /\ DOMAIN tasks' = DOMAIN tasks
<1> USE DEF TypeInv, RowTypes
<1>1. tasks' \in Seq(Rows) /\ Len(tasks') = Len(tasks) /\ DOMAIN tasks' = DOMAIN tasks
  BY ExceptSeq, LenProperties
<1>2. \A u \in DOMAIN tasks : tasks'[u] = IF u = t THEN row ELSE tasks[u]
  OBVIOUS
<1> QED
  BY <1>1, <1>2 DEF Filed

\* Rows are numbered from 1.
LEMMA RowDomains ==
  ASSUME RowTypes
  PROVE  DOMAIN tasks = 1..Len(tasks) /\ Len(tasks) \in Nat
BY LenProperties DEF RowTypes

\* Rows that stay keep their types while issues stay filed.
LEMMA RowTypesKept ==
  ASSUME TypeInv, UNCHANGED tasks, \A i \in Issues : column[i] # None => column'[i] # None
  PROVE  RowTypes'
<1> USE DEF TypeInv, RowTypes
<1>1. \A t \in DOMAIN tasks : tasks[t] \in Rows /\ Filed(tasks[t].ticket)
  BY LenProperties
<1>2. \A t \in DOMAIN tasks : tasks[t].ticket \in Issues \cup {None}
  BY <1>1 DEF Rows
<1>3. \A t \in DOMAIN tasks : Filed(tasks[t].ticket)'
  BY <1>1, <1>2 DEF Filed
<1> QED
  BY <1>3 DEF Filed

\* A step of one caller: what it has under way becomes o, the rest stays.
Advances(c, o) ==
  /\ o \in Ops /\ op' \in [Callers -> Ops]
  /\ \A d \in Callers : op'[d] = IF d = c THEN o ELSE op[d]

\* What a caller has under way is replaced.
LEMMA Advancing ==
  ASSUME TypeInv, NEW c \in Callers, NEW o \in Ops, op' = [op EXCEPT ![c] = o]
  PROVE  Advances(c, o)
BY DEF TypeInv, OpTypes, Advances

\* A command that goes on keeps the types, whatever else the step does.
LEMMA OpTypesKept ==
  ASSUME TypeInv, NEW c \in Callers, NEW o, Advances(c, o),
         o.kind \in {"add"} \cup StatusKinds => o.to \in Statuses,
         Belongs(o), Filed(o.issue)', \A i \in Issues : column[i] # None => column'[i] # None
  PROVE  OpTypes'
<1>1. \A d \in Callers : op[d].issue \in Issues \cup {None}
  BY DEF TypeInv, OpTypes, Ops
<1> QED
  BY <1>1 DEF TypeInv, OpTypes, Filed, Advances

\* An idle caller is in its type.
LEMMA IdleType ==
  /\ Idle \in Ops /\ Idle.kind = "idle" /\ Idle.stage = "idle" /\ Idle.issue = None
  /\ Idle.names = {} /\ ~Idle.hit /\ Idle.clean
BY Bounds DEF Idle, Ops

\* What a step that is no part of a status change may do to rows and issues:
\* insert, delete, and move an issue that no row and no command refers to.
RowsStay ==
  /\ DOMAIN tasks \subseteq DOMAIN tasks'
  /\ \A t \in DOMAIN tasks : tasks'[t] # Removed =>
       /\ tasks[t] # Removed
       /\ tasks'[t].status = tasks[t].status /\ tasks'[t].ticket = tasks[t].ticket
ColumnsStay == \A i \in Issues : column[i] # None => column'[i] = column[i]

\* No status change is begun, goes on or ends; no issue that was filed is
\* handed over; no comment that was posted is noted.
NoChange(o) == o.kind \notin StatusKinds /\ o.names = {} /\ Belongs(o)
NoFiling(o) == ~(o.kind = "add" /\ o.hit)
NoNote(o) == ~(o.stage \in {"noting", "commenting"} /\ o.hit)
NoChanges == \A d \in Callers : op'[d] = op[d] \/ (NoChange(op[d]) /\ NoChange(op'[d]))
NoFilings == \A d \in Callers : op'[d] = op[d] \/ (NoFiling(op[d]) /\ NoFiling(op'[d]))
NoNotes == \A d \in Callers : op'[d] = op[d] \/ (NoNote(op[d]) /\ NoNote(op'[d]))

\* A step of one caller is calm if that caller is, before and after.
LEMMA CalmStep ==
  ASSUME NEW c \in Callers, NEW o, Advances(c, o)
  PROVE  /\ NoChange(op[c]) /\ NoChange(o) => NoChanges
         /\ NoFiling(op[c]) /\ NoFiling(o) => NoFilings
         /\ NoNote(op[c]) /\ NoNote(o) => NoNotes
<1>1. op'[c] = o /\ \A d \in Callers : op'[d] = op[d] \/ d = c
  BY DEF Advances
<1> QED
  BY <1>1 DEF NoChanges, NoFilings, NoNotes

\* An idle caller has nothing under way.
LEMMA IdleCalm == NoChange(Idle) /\ NoFiling(Idle) /\ NoNote(Idle)
BY IdleType DEF NoChange, NoFiling, NoNote, StatusKinds, Belongs

\* Such a step keeps what is known of the status changes under way.
LEMMA ChangesKept ==
  ASSUME TypeInv, TypeInv', StageInv, CleanInv, RowsStay, ColumnsStay,
         NoChanges
  PROVE  StageInv' /\ CleanInv'
<1> USE DEF NoChanges, NoChange
<1>1. \A d \in Callers : op'[d].kind \in StatusKinds => op'[d] = op[d]
  OBVIOUS
<1>2. DOMAIN tasks = 1..Len(tasks) /\ DOMAIN tasks' = 1..Len(tasks')
  BY LenProperties DEF TypeInv, RowTypes
<1>3. \A t \in 1..Len(tasks) : /\ t \in 1..Len(tasks')
                               /\ Present(t, tasks') => /\ Present(t, tasks)
                                    /\ tasks'[t].status = tasks[t].status
                                    /\ tasks'[t].ticket = tasks[t].ticket
  BY <1>2 DEF Present, RowsStay
<1>4. Pushers \subseteq StatusKinds
  BY DEF Pushers, StatusKinds
<1>5. ASSUME NEW d \in Callers, op'[d] = op[d] PROVE InStage(op'[d], tasks')
  BY <1>3, <1>4, <1>5 DEF StageInv, InStage
<1>6. ASSUME NEW d \in Callers, NoChange(op'[d]) PROVE InStage(op'[d], tasks')
  BY <1>4, <1>6 DEF InStage, StatusKinds, Belongs, Pushers
<1>7. StageInv'
  BY <1>5, <1>6 DEF StageInv
<1>8. ASSUME NEW d \in Callers, op'[d].clean, op'[d].kind \in StatusKinds
      PROVE  Knows(op[d], tasks', column')
  <2>1. op'[d] = op[d] /\ op[d].task \in 1..Len(tasks)
    BY <1>1, <1>8 DEF StageInv, InStage
  <2>2. op[d].kind \in Pushers /\ op[d].hit => column'[op[d].issue] = column[op[d].issue]
    BY DEF StageInv, InStage, ColumnsStay, TypeInv, OpTypes, Ops, Filed
  <2> QED
    BY <1>3, <1>8, <2>1, <2>2 DEF CleanInv, Knows
<1>9. CleanInv'
  BY <1>1, <1>8 DEF CleanInv
<1> QED
  BY <1>7, <1>9

\* Such a step keeps rows and issues together, if the rows it inserts are so.
LEMMA SyncKept ==
  ASSUME TypeInv, SyncInv, RowsStay, ColumnsStay, drift \subseteq drift',
         \A t \in DOMAIN tasks' \ DOMAIN tasks :
           tasks'[t].ticket # None /\ t \notin drift'
             => Mirrors(column'[tasks'[t].ticket], tasks'[t].status),
         NoChanges
  PROVE  SyncInv'
<1> SUFFICES ASSUME NEW t \in DOMAIN tasks', tasks'[t].ticket # None, t \notin drift',
                    t \in DOMAIN tasks
             PROVE  \/ Mirrors(column'[tasks'[t].ticket], tasks'[t].status)
                    \/ \E d \in Callers : Halfway(op'[d], t)
  BY DEF SyncInv, Mirrors, Halfway
<1>1. /\ tasks'[t].status = tasks[t].status /\ tasks'[t].ticket = tasks[t].ticket
      /\ t \notin drift
  <2>1. Removed.ticket = None
    BY DEF Removed
  <2> QED
    BY <2>1 DEF RowsStay
<1>2. column'[tasks'[t].ticket] = column[tasks[t].ticket]
  <2>1. tasks[t] \in Rows
    BY DEF TypeInv, RowTypes
  <2>2. tasks[t].ticket \in Issues
    BY <1>1, <2>1 DEF Rows
  <2> QED
    BY <1>1, <2>2 DEF TypeInv, RowTypes, Filed, ColumnsStay
<1>3. CASE Mirrors(column[tasks[t].ticket], tasks[t].status)
  BY <1>1, <1>2, <1>3 DEF Mirrors
<1>4. CASE \E d \in Callers : Halfway(op[d], t)
  <2>1. PICK d \in Callers : Halfway(op[d], t)
    BY <1>4
  <2>2. op[d].kind \in StatusKinds
    BY <2>1 DEF Halfway, StatusKinds
  <2>3. op'[d] = op[d]
    BY <2>2 DEF NoChanges, NoChange
  <2> QED
    BY <2>1, <2>3
<1> QED
  BY <1>1, <1>3, <1>4 DEF SyncInv

\* A step that files nothing and carries nothing keeps what is known of it.
LEMMA FiledKept ==
  ASSUME FiledInv, NoFilings, DOMAIN tasks \subseteq DOMAIN tasks',
         \A i \in Issues : Carriers(i)' = Carriers(i),
         made' = made, lost \subseteq lost', made \subseteq Issues
  PROVE  FiledInv'
<1>1. \A i \in Issues : Filers(i)' = Filers(i)
  BY DEF Filers, NoFilings, NoFiling
<1> QED
  BY <1>1 DEF FiledInv, NoFilings, NoFiling

\* The same for comments.
LEMMA NotedKept ==
  ASSUME NotedInv, NoNotes, UNCHANGED <<posted, synced, astray>>
  PROVE  NotedInv'
<1>1. Noting' = Noting
  BY DEF Noting, NoNotes, NoNote
<1> QED
  BY <1>1 DEF NotedInv, NoNotes, NoNote

-----------------------------------------------------------------------------
(* `task add` *)

\* `task add` begins: nothing has been filed and nothing inserted.
LEMMA AddKeeps ==
  ASSUME IInv, NEW c \in Callers, NEW s \in Statuses, NEW g \in Issues \cup {None},
         NEW b \in BOOLEAN, Add(c, s, g, b)
  PROVE  IInv'
<1> DEFINE stage == IF b /\ g = None THEN "creating" ELSE "inserting"
           o == [Idle EXCEPT !.kind = "add", !.to = s, !.issue = g, !.stage = stage]
<1>0. stage \in {"creating", "inserting"}
  OBVIOUS
<1>1. op[c] = Idle /\ op' = [op EXCEPT ![c] = o]
  BY DEF Add
<1>2. /\ UNCHANGED <<tasks, posted, synced, column, late, made, lost, astray, drift>>
      /\ calls' \in 0..MaxCalls /\ Filed(g)
  BY Bounds DEF Add, rows, history, Called, IInv, TypeInv, Filed
<1> HIDE DEF stage
<1>3. o \in Ops
  BY <1>0, IdleType DEF Ops
<1>4. /\ o.kind = "add" /\ o.to = s /\ o.issue = g /\ ~o.hit /\ o.names = {}
      /\ o.stage \in {"creating", "inserting"}
  BY <1>0, IdleType DEF Ops
<1> HIDE DEF o
<1>5. Advances(c, o)
  BY <1>1, <1>3, Advancing DEF IInv
<1>6. TypeInv'
  <2>1. OpTypes'
    BY <1>2, <1>4, <1>5, OpTypesKept DEF IInv, Filed, Belongs
  <2> QED
    BY <1>2, <2>1 DEF IInv, TypeInv, RowTypes, IssueTypes, Filed
<1>7. RowsStay /\ ColumnsStay /\ \A i \in Issues : Carriers(i)' = Carriers(i)
  BY <1>2 DEF RowsStay, ColumnsStay, Carriers
<1>8. NoChanges /\ NoFilings /\ NoNotes
  <2>1. NoChange(o) /\ NoFiling(o) /\ NoNote(o)
    BY <1>4 DEF NoChange, NoFiling, NoNote, StatusKinds, Belongs
  <2> QED
    BY <1>1, <1>5, <2>1, IdleCalm, CalmStep
<1>9. StageInv' /\ CleanInv' /\ SyncInv'
  BY <1>2, <1>6, <1>7, <1>8, ChangesKept, SyncKept DEF IInv
<1>10. NotedInv' /\ FiledInv'
  BY <1>2, <1>7, <1>8, NotedKept, FiledKept DEF IInv, TypeInv, IssueTypes
<1> QED
  BY <1>6, <1>9, <1>10 DEF IInv

\* An issue that is filed is with the command that filed it, or its answer is
\* lost; the issue is new, so that nobody else refers to it.
LEMMA CreateKeeps ==
  ASSUME IInv, NEW c \in Callers, CreateIssue(c)
  PROVE  IInv'
<1> USE BacklogAssumption
<1>0. /\ op[c] \in Ops /\ op[c].stage = "creating" /\ op \in [Callers -> Ops]
      /\ UNCHANGED <<calls, tasks, posted, synced, late, astray, drift>>
  BY DEF CreateIssue, rows, IInv, TypeInv, OpTypes
<1>1. /\ NoChange(op[c]) /\ NoNote(op[c]) /\ NoFiling(op[c])
      /\ op[c].kind = "add" /\ op[c].to \in Statuses
  <2>1. Belongs(op[c]) /\ op[c].kind = "add" /\ op[c].names = {} /\ op[c].to \in Statuses
    BY <1>0 DEF IInv, TypeInv, OpTypes, Belongs, StageInv, InStage
  <2>2. ~op[c].hit
    BY <1>0, <2>1 DEF IInv, FiledInv
  <2> QED
    BY <1>0, <2>1, <2>2 DEF NoChange, NoNote, NoFiling, StatusKinds
<1>2. RowsStay /\ \A i \in Issues : Carriers(i)' = Carriers(i)
  BY <1>0 DEF RowsStay, Carriers
<1>3. ASSUME NEW i \in Issues \cup {None}, NEW h \in BOOLEAN, Filed(i)',
             op' = [op EXCEPT ![c].stage = "inserting", ![c].issue = i, ![c].hit = h],
             ColumnsStay, IssueTypes'
      PROVE  /\ TypeInv' /\ StageInv' /\ CleanInv' /\ SyncInv' /\ NotedInv'
             /\ \E o : Advances(c, o) /\ o.kind = "add" /\ o.stage = "inserting"
                         /\ o.issue = i /\ o.hit = h
  <2> DEFINE o == [op[c] EXCEPT !.stage = "inserting", !.issue = i, !.hit = h]
  <2>1. o \in Ops /\ op' = [op EXCEPT ![c] = o]
    BY <1>0, <1>3 DEF Ops
  <2>2. /\ o.kind = "add" /\ o.stage = "inserting" /\ o.to \in Statuses /\ o.names = {}
        /\ o.issue = i /\ o.hit = h
    BY <1>0, <1>1 DEF Ops, NoChange
  <2> HIDE DEF o
  <2>3. Advances(c, o)
    BY <2>1, Advancing DEF IInv
  <2>4. Belongs(o) /\ NoChange(o) /\ NoNote(o)
    BY <2>2 DEF Belongs, NoChange, NoNote, StatusKinds
  <2>5. NoChanges /\ NoNotes
    BY <1>1, <2>3, <2>4, CalmStep
  <2>6. \A j \in Issues : column[j] # None => column'[j] # None
    BY <1>3 DEF ColumnsStay
  <2>7. OpTypes'
    BY <1>3, <2>2, <2>3, <2>4, <2>6, OpTypesKept DEF IInv, Filed
  <2>8. TypeInv'
    <3>1. RowTypes'
      BY <1>0, <2>6, RowTypesKept DEF IInv
    <3> QED
      BY <1>0, <1>3, <2>7, <3>1 DEF IInv, TypeInv
  <2>9. StageInv' /\ CleanInv' /\ SyncInv' /\ NotedInv'
    BY <1>0, <1>2, <1>3, <2>5, <2>8, ChangesKept, SyncKept, NotedKept DEF IInv
  <2> QED
    BY <2>2, <2>3, <2>8, <2>9
<1>4. CASE UNCHANGED <<column, made, lost>> /\ op' = [op EXCEPT ![c].stage = "inserting"]
  <2>0. PICK i \in Issues \cup {None} : i = op[c].issue
    BY <1>0 DEF Ops
  <2>1. op' = [op EXCEPT ![c].stage = "inserting", ![c].issue = i, ![c].hit = FALSE]
    <3>1. ~op[c].hit /\ op[c].hit \in BOOLEAN
      BY <1>0, <1>1 DEF NoFiling, Ops
    <3> QED
      BY <1>0, <1>4, <2>0, <3>1 DEF Ops
  <2>2. Filed(i)'
    BY <1>0, <1>4, <2>0 DEF IInv, TypeInv, OpTypes, Ops, Filed
  <2>3. ColumnsStay /\ IssueTypes'
    BY <1>0, <1>4 DEF ColumnsStay, IInv, TypeInv, IssueTypes
  <2>4. PICK o : Advances(c, o) /\ o.kind = "add" /\ o.hit = FALSE
    BY <1>3, <2>1, <2>2, <2>3
  <2>5. NoFilings
    BY <1>1, <2>4, CalmStep DEF NoFiling
  <2>6. FiledInv'
    BY <1>0, <1>2, <1>4, <2>5, FiledKept DEF IInv, TypeInv, IssueTypes
  <2> QED
    BY <1>3, <2>1, <2>2, <2>3, <2>6 DEF IInv
<1>5. ASSUME NEW i \in Issues, NEW answered \in BOOLEAN, column[i] = None,
             column' = [column EXCEPT ![i] = First], made' = made \cup {i},
             lost' = IF answered THEN lost ELSE lost \cup {i},
             op' = [op EXCEPT ![c].stage = "inserting",
                              ![c].issue = IF answered THEN i ELSE None, ![c].hit = answered]
      PROVE  IInv'
  <2> DEFINE j == IF answered THEN i ELSE None
  <2>1. j \in Issues \cup {None} /\ op' = [op EXCEPT ![c].stage = "inserting",
                              ![c].issue = j, ![c].hit = answered]
    BY <1>5
  <2>2. column' \in [Issues -> Columns \cup {None}] /\ column'[i] = First /\ First # None
        /\ i \notin made
    BY <1>5 DEF IInv, TypeInv, IssueTypes
  <2>3. Filed(j)' /\ ColumnsStay
    BY <1>5, <2>2 DEF Filed, ColumnsStay, IInv, TypeInv, IssueTypes
  <2>4. IssueTypes'
    BY <1>0, <1>5, <2>2 DEF IInv, TypeInv, IssueTypes
  <2> HIDE DEF j
  <2>a. \E o : Advances(c, o) /\ o.kind = "add" /\ o.stage = "inserting"
                 /\ o.issue = j /\ o.hit = answered
    <3>1. answered \in BOOLEAN
      OBVIOUS
    <3> QED
      BY ONLY <1>3, <2>1, <2>3, <2>4, <3>1
  <2>5. PICK o : Advances(c, o) /\ o.kind = "add" /\ o.stage = "inserting"
                   /\ o.issue = j /\ o.hit = answered
    BY <2>a
  <2>6. FiledInv'
    <3>1. Filers(i) = {} /\ Carriers(i) = {} /\ i \notin lost
      BY <2>2 DEF IInv, FiledInv, TypeInv, IssueTypes
    <3>2. \A k \in Issues \ {i} : Filers(k)' = Filers(k)
      BY <1>1, <2>5 DEF Filers, Advances, j, NoFiling
    <3>3. ASSUME answered PROVE Filers(i)' = {c}
      <4>1. op'[c].kind = "add" /\ op'[c].issue = i /\ op'[c].hit
        BY <2>5, <3>3 DEF Advances, j
      <4>2. \A d \in Callers \ {c} : op'[d] = op[d]
        BY <2>5 DEF Advances
      <4> QED
        BY <3>1, <4>1, <4>2 DEF Filers
    <3>4. \A k \in Issues : Carriers(k)' = Carriers(k)
      BY <1>2
    <3>5. \A k \in made \ lost : k \in Issues \ {i}
      BY <2>2 DEF IInv, TypeInv, IssueTypes
    <3>6. \A k \in made' \ lost' : \/ Carriers(k)' = {} /\ \E d \in Callers : Filers(k)' = {d}
                                   \/ Filers(k)' = {} /\ \E t \in DOMAIN tasks' : Carriers(k)' = {t}
      <4> SUFFICES ASSUME NEW k \in made' \ lost'
          PROVE \/ Carriers(k)' = {} /\ \E d \in Callers : Filers(k)' = {d}
                \/ Filers(k)' = {} /\ \E t \in DOMAIN tasks' : Carriers(k)' = {t}
        OBVIOUS
      <4>1. CASE k = i
        BY <1>5, <3>1, <3>3, <3>4, <4>1
      <4>2. CASE k \in made \ lost
        BY <1>0, <3>2, <3>4, <3>5, <4>2 DEF IInv, FiledInv
      <4> QED
        BY <1>5, <4>1, <4>2
    <3>7. \A k \in Issues : k \notin made' => Filers(k)' = {} /\ Carriers(k)' = {}
      BY <1>5, <3>2, <3>4 DEF IInv, FiledInv
    <3>8. \A d \in Callers : op'[d].kind = "add" /\ op'[d].hit =>
            op'[d].stage = "inserting" /\ op'[d].issue # None
      BY <2>5 DEF Advances, IInv, FiledInv, j
    <3> QED
      BY <3>6, <3>7, <3>8 DEF FiledInv
  <2> QED
    BY <1>3, <2>1, <2>3, <2>4, <2>6 DEF IInv
<1> QED
  BY <1>4, <1>5 DEF CreateIssue

\* The row that is inserted takes the issue over from its command.
LEMMA InsertKeeps ==
  ASSUME IInv, NEW c \in Callers, InsertTask(c)
  PROVE  IInv'
<1>0. /\ op[c] \in Ops /\ op[c].kind = "add" /\ op[c].stage = "inserting"
      /\ op[c].to \in Statuses /\ Filed(op[c].issue) /\ op[c].names = {} /\ Belongs(op[c])
      /\ UNCHANGED <<calls, column, late, posted, synced, made, lost, astray>>
  BY DEF InsertTask, IInv, TypeInv, OpTypes, StageInv, InStage
<1> DEFINE i == op[c].issue
           how == OriginOf(op[c])
           row == [status |-> op[c].to, ticket |-> i, how |-> how, pinned |-> how = "found"]
<1>1. /\ i \in Issues \cup {None} /\ how \in {"none", "made", "given", "found"}
      /\ how = "made" <=> i # None /\ op[c].hit
  BY <1>0 DEF OriginOf, Ops
<1>2. op' = [op EXCEPT ![c] = Idle] /\ Inserted(op[c].to, i, how)
  BY DEF InsertTask, TicketOf
<1>3. tasks' = Append(tasks, row)
  BY <1>2 DEF Inserted
<1>4. row.status = op[c].to /\ row.ticket = i /\ row.how = how
  OBVIOUS
<1> HIDE DEF row, how, i
<1>5. Advances(c, Idle)
  BY <1>2, IdleType, Advancing DEF IInv
<1>6. RowTypes' /\ drift' \subseteq Ids
  <2>1. ASSUME NEW s \in Statuses, NEW j \in Issues \cup {None},
               NEW w \in {"none", "made", "given", "found"}, Filed(j), Inserted(s, j, w),
               w = "made" => j # None
        PROVE  RowTypes' /\ drift' \subseteq Ids
    BY <1>0, <2>1, InsertedTypes DEF IInv
  <2>2. PICK s \in Statuses, j \in Issues \cup {None}, w \in {"none", "made", "given", "found"} :
          s = op[c].to /\ j = i /\ w = how
    BY <1>0, <1>1
  <2>3. Filed(j) /\ Inserted(s, j, w) /\ (w = "made" => j # None)
    BY <1>0, <1>1, <1>2, <2>2 DEF i
  <2> QED
    BY <2>1, <2>2, <2>3
<1>7. TypeInv'
  <2>1. OpTypes'
    BY <1>0, <1>5, IdleType, IdleCalm, OpTypesKept DEF IInv, Filed, NoChange, StatusKinds
  <2> QED
    BY <1>0, <1>6, <2>1 DEF IInv, TypeInv, IssueTypes
<1>8. /\ DOMAIN tasks' = DOMAIN tasks \cup {Len(tasks) + 1} /\ Len(tasks) + 1 \notin DOMAIN tasks
      /\ \A t \in DOMAIN tasks : tasks'[t] = tasks[t]
      /\ tasks'[Len(tasks) + 1] = row
  <2>1. tasks \in Seq(Rows) /\ tasks' \in Seq(Rows) /\ Len(tasks) \in Nat
    BY <1>7, LenProperties DEF IInv, TypeInv, RowTypes
  <2>2. Len(tasks') = Len(tasks) + 1 /\ tasks'[Len(tasks) + 1] = row
        /\ \A t \in 1..Len(tasks) : tasks'[t] = tasks[t]
    BY <1>3, <2>1
  <2> QED
    BY <2>1, <2>2, LenProperties
<1>9. RowsStay /\ ColumnsStay /\ drift \subseteq drift'
  BY <1>0, <1>2, <1>8 DEF RowsStay, ColumnsStay, Inserted
<1>10. \A t \in DOMAIN tasks' \ DOMAIN tasks :
         tasks'[t].ticket # None /\ t \notin drift'
           => Mirrors(column'[tasks'[t].ticket], tasks'[t].status)
  BY <1>0, <1>2, <1>4, <1>8 DEF Inserted, Mirrors
<1>11. NoChange(op[c]) /\ NoNote(op[c])
  BY <1>0 DEF NoChange, NoNote, StatusKinds
<1>12. StageInv' /\ CleanInv' /\ SyncInv' /\ NotedInv'
  BY <1>0, <1>5, <1>7, <1>9, <1>10, <1>11, IdleCalm, CalmStep, ChangesKept, SyncKept, NotedKept
     DEF IInv
<1>13. FiledInv'
  <2>1. \A k \in Issues : Carriers(k)' =
          IF how = "made" /\ k = i THEN Carriers(k) \cup {Len(tasks) + 1} ELSE Carriers(k)
    BY <1>4, <1>8 DEF Carriers
  <2>2. \A k \in Issues : Filers(k)' = Filers(k) \ {c}
    BY <1>5, IdleType DEF Filers, Advances
  <2>3. \A k \in Issues : c \in Filers(k) <=> how = "made" /\ k = i
    BY <1>0, <1>1, BacklogAssumption DEF Filers, i
  <2>4. \A d \in Callers : op'[d].kind = "add" /\ op'[d].hit =>
          op'[d].stage = "inserting" /\ op'[d].issue # None
    BY <1>5, IdleType DEF Advances, IInv, FiledInv
  <2>5. \A k \in Issues : k \notin made' => Filers(k)' = {} /\ Carriers(k)' = {}
    BY <1>0, <2>1, <2>2, <2>3 DEF IInv, FiledInv
  <2>6. ASSUME NEW k \in made \ lost
        PROVE  \/ Carriers(k)' = {} /\ \E d \in Callers : Filers(k)' = {d}
               \/ Filers(k)' = {} /\ \E t \in DOMAIN tasks' : Carriers(k)' = {t}
    <3>0. k \in Issues
      BY DEF IInv, TypeInv, IssueTypes
    <3>1. CASE how = "made" /\ k = i
      <4>1. Filers(k) = {c} /\ Carriers(k) = {}
        BY <2>3, <3>0, <3>1 DEF IInv, FiledInv
      <4> QED
        BY <1>8, <2>1, <2>2, <3>0, <3>1, <4>1
    <3>2. CASE ~(how = "made" /\ k = i)
      <4>1. Carriers(k)' = Carriers(k) /\ Filers(k)' = Filers(k)
        BY <2>1, <2>2, <2>3, <3>0, <3>2
      <4> QED
        BY <1>8, <4>1 DEF IInv, FiledInv
    <3> QED
      BY <3>1, <3>2
  <2> QED
    BY <1>0, <2>4, <2>5, <2>6 DEF FiledInv
<1> QED
  BY <1>7, <1>12, <1>13 DEF IInv

\* An insert that fails gives the issue up, which `lost` records.
LEMMA InsertFailsKeeps ==
  ASSUME IInv, NEW c \in Callers, InsertFails(c)
  PROVE  IInv'
<1>0. /\ op[c] \in Ops /\ op[c].kind = "add" /\ op[c].stage = "inserting"
      /\ op[c].names = {} /\ Belongs(op[c]) /\ op' = [op EXCEPT ![c] = Idle]
      /\ UNCHANGED <<calls, tasks, column, late, posted, synced, made, astray, drift>>
      /\ lost' = IF OriginOf(op[c]) = "made" THEN lost \cup {op[c].issue} ELSE lost
  BY DEF InsertFails, rows, IInv, TypeInv, OpTypes, StageInv, InStage
<1>1. op[c].hit => op[c].issue \in made /\ lost' = lost \cup {op[c].issue}
  <2>1. op[c].hit => op[c].issue # None /\ op[c].issue \in Issues /\ c \in Filers(op[c].issue)
    BY <1>0 DEF IInv, FiledInv, Ops, Filers
  <2> QED
    BY <1>0, <2>1 DEF IInv, FiledInv, OriginOf
<1>2. ~op[c].hit => lost' = lost
  BY <1>0 DEF OriginOf
<1>3. op[c].hit \in BOOLEAN
  BY <1>0 DEF Ops
<1>4. Advances(c, Idle)
  BY <1>0, IdleType, Advancing DEF IInv
<1>5. RowsStay /\ ColumnsStay /\ \A i \in Issues : Carriers(i)' = Carriers(i)
  BY <1>0 DEF RowsStay, ColumnsStay, Carriers
<1>6. TypeInv'
  <2>1. OpTypes'
    BY <1>0, <1>4, IdleType, IdleCalm, OpTypesKept DEF IInv, Filed, NoChange, StatusKinds
  <2>2. RowTypes' /\ IssueTypes'
    BY <1>0, <1>1, <1>2, <1>3, RowTypesKept DEF IInv, TypeInv, IssueTypes
  <2> QED
    BY <1>0, <2>1, <2>2 DEF IInv, TypeInv
<1>7. NoChange(op[c]) /\ NoNote(op[c])
  BY <1>0 DEF NoChange, NoNote, StatusKinds
<1>8. StageInv' /\ CleanInv' /\ SyncInv' /\ NotedInv'
  BY <1>0, <1>4, <1>5, <1>6, <1>7, IdleCalm, CalmStep, ChangesKept, SyncKept, NotedKept DEF IInv
<1>9. FiledInv'
  <2>1. \A k \in Issues : Filers(k)' = Filers(k) \ {c}
    BY <1>4, IdleType DEF Filers, Advances
  <2>2. \A k \in made' \ lost' : k \in made \ lost /\ c \notin Filers(k) /\ k \in Issues
    BY <1>0, <1>1, <1>2, <1>3 DEF Filers, IInv, TypeInv, IssueTypes
  <2>3. \A k \in made' \ lost' : Filers(k)' = Filers(k) /\ Carriers(k)' = Carriers(k)
    BY <1>5, <2>1, <2>2
  <2>4. \A d \in Callers : op'[d].kind = "add" /\ op'[d].hit =>
          op'[d].stage = "inserting" /\ op'[d].issue # None
    BY <1>4, IdleType DEF Advances, IInv, FiledInv
  <2>5. \A k \in Issues : k \notin made' => Filers(k)' = {} /\ Carriers(k)' = {}
    BY <1>0, <1>5, <2>1 DEF IInv, FiledInv
  <2> QED
    BY <1>0, <2>2, <2>3, <2>4, <2>5 DEF IInv, FiledInv
<1> QED
  BY <1>6, <1>8, <1>9 DEF IInv

-----------------------------------------------------------------------------
(* What people do in Jira, discovery, comments, jobs and `task rm` *)

\* An issue that somebody files in Jira is on no row and with no command.
LEMMA FiledInJiraKeeps ==
  ASSUME IInv, NEW i \in Issues, NEW col \in Columns, FiledInJira(i, col)
  PROVE  IInv'
<1> USE BacklogAssumption
<1>0. /\ column[i] = None /\ column' = [column EXCEPT ![i] = col]
      /\ UNCHANGED <<calls, tasks, posted, synced, op, late, made, lost, astray, drift>>
  BY DEF FiledInJira, rows, history
<1>1. ColumnsStay /\ column' \in [Issues -> Columns \cup {None}] /\ col # None
      /\ \A j \in Issues : column[j] # None => column'[j] # None
  BY <1>0 DEF ColumnsStay, IInv, TypeInv, IssueTypes
<1>2. TypeInv'
  <2>1. RowTypes'
    BY <1>0, <1>1, RowTypesKept DEF IInv
  <2>2. IssueTypes'
    BY <1>0, <1>1 DEF IInv, TypeInv, IssueTypes
  <2>3. \A d \in Callers : op[d].issue \in Issues \cup {None}
    BY DEF IInv, TypeInv, OpTypes, Ops
  <2>4. OpTypes'
    BY <1>0, <1>1, <2>3 DEF IInv, TypeInv, OpTypes, Filed
  <2> QED
    BY <1>0, <2>1, <2>2, <2>4 DEF IInv, TypeInv
<1>3. RowsStay /\ NoChanges
  BY <1>0 DEF RowsStay, NoChanges
<1>4. StageInv' /\ CleanInv' /\ SyncInv'
  BY <1>0, <1>1, <1>2, <1>3, ChangesKept, SyncKept DEF IInv
<1>5. FiledInv' /\ NotedInv'
  BY <1>0 DEF IInv, FiledInv, NotedInv, Filers, Carriers, Noting
<1> QED
  BY <1>2, <1>4, <1>5 DEF IInv

\* A row that is promoted shares its issue at most with rows of other origin.
LEMMA PromoteKeeps ==
  ASSUME IInv, NEW i \in Issues, Promote(i)
  PROVE  IInv'
<1> USE BacklogAssumption
<1> DEFINE row == [status |-> "todo", ticket |-> i, how |-> "found", pinned |-> "found" = "found"]
<1>0. /\ Filed(i) /\ Inserted("todo", i, "found") /\ tasks' = Append(tasks, row)
      /\ UNCHANGED <<calls, column, op, late, posted, synced, made, lost, astray>>
  BY DEF Promote, Fetched, Filed, Inserted
<1>1. row.status = "todo" /\ row.ticket = i /\ row.how = "found"
  OBVIOUS
<1> HIDE DEF row
<1>2. RowTypes' /\ drift' \subseteq Ids
  BY <1>0, BacklogAssumption, InsertedTypes DEF IInv
<1>3. TypeInv'
  BY <1>0, <1>2 DEF IInv, TypeInv, OpTypes, IssueTypes, Filed
<1>4. /\ DOMAIN tasks' = DOMAIN tasks \cup {Len(tasks) + 1} /\ Len(tasks) + 1 \notin DOMAIN tasks
      /\ \A t \in DOMAIN tasks : tasks'[t] = tasks[t]
      /\ tasks'[Len(tasks) + 1] = row
  <2>1. tasks \in Seq(Rows) /\ tasks' \in Seq(Rows) /\ Len(tasks) \in Nat
    BY <1>3, LenProperties DEF IInv, TypeInv, RowTypes
  <2>2. Len(tasks') = Len(tasks) + 1 /\ tasks'[Len(tasks) + 1] = row
        /\ \A t \in 1..Len(tasks) : tasks'[t] = tasks[t]
    BY <1>0, <2>1
  <2> QED
    BY <2>1, <2>2, LenProperties
<1>5. RowsStay /\ ColumnsStay /\ drift \subseteq drift' /\ NoChanges /\ NoFilings /\ NoNotes
  BY <1>0, <1>4 DEF RowsStay, ColumnsStay, Inserted, NoChanges, NoFilings, NoNotes
<1>6. \A t \in DOMAIN tasks' \ DOMAIN tasks :
        tasks'[t].ticket # None /\ t \notin drift'
          => Mirrors(column'[tasks'[t].ticket], tasks'[t].status)
  BY <1>0, <1>1, <1>4 DEF Inserted, Mirrors
<1>7. \A k \in Issues : Carriers(k)' = Carriers(k)
  BY <1>1, <1>4 DEF Carriers
<1>8. StageInv' /\ CleanInv' /\ SyncInv'
  BY <1>0, <1>3, <1>5, <1>6, ChangesKept, SyncKept DEF IInv
<1>9. FiledInv' /\ NotedInv'
  BY <1>0, <1>4, <1>5, <1>7, FiledKept, NotedKept DEF IInv, TypeInv, IssueTypes
<1> QED
  BY <1>3, <1>8, <1>9 DEF IInv

\* A row that is rewritten with its status and ticket, or removed, disturbs
\* no status change.
LEMMA RowsRewritten ==
  ASSUME TypeInv, NEW t \in DOMAIN tasks, NEW row \in Rows, tasks' = [tasks EXCEPT ![t] = row],
         row # Removed => /\ tasks[t] # Removed
                          /\ row.status = tasks[t].status /\ row.ticket = tasks[t].ticket
                          /\ row.how = tasks[t].how
  PROVE  /\ RowsStay /\ DOMAIN tasks' = DOMAIN tasks
         /\ UNCHANGED column => RowTypes'
         /\ row.how = tasks[t].how /\ row.ticket = tasks[t].ticket
              => \A i \in Issues : Carriers(i)' = Carriers(i)
<1>1. DOMAIN tasks' = DOMAIN tasks /\ tasks'[t] = row
      /\ \A u \in DOMAIN tasks : u # t => tasks'[u] = tasks[u]
  OBVIOUS
<1>2. RowsStay
  BY <1>1 DEF RowsStay
<1>3. tasks[t] \in Rows /\ Removed.ticket = None
  BY DEF TypeInv, RowTypes, Removed
<1>a. row.how = "made" => row.ticket # None
  BY DEF TypeInv, RowTypes, Removed
<1>4. UNCHANGED column => RowTypes'
  BY <1>3, <1>a, RewrittenTypes DEF TypeInv, RowTypes
<1>5. row.how = tasks[t].how /\ row.ticket = tasks[t].ticket
        => \A i \in Issues : Carriers(i)' = Carriers(i)
  BY <1>1 DEF Carriers
<1> QED
  BY <1>1, <1>2, <1>4, <1>5

\* Assigning a job pins the row and disturbs nothing else.
LEMMA AssignKeeps ==
  ASSUME IInv, NEW t \in Ids, AssignJob(t)
  PROVE  IInv'
<1> DEFINE row == [tasks[t] EXCEPT !.pinned = TRUE]
<1>0. /\ tasks' = [tasks EXCEPT ![t].pinned = TRUE] /\ Exists(t)
      /\ UNCHANGED <<calls, column, op, late, posted, synced, made, lost, astray, drift>>
  BY DEF AssignJob, history
<1>1. t \in DOMAIN tasks /\ tasks[t] \in Rows /\ tasks[t] # Removed
  BY <1>0, LenProperties DEF Exists, IInv, TypeInv, RowTypes
<1>2. row \in Rows /\ row.status = tasks[t].status /\ row.ticket = tasks[t].ticket
      /\ row.how = tasks[t].how /\ tasks' = [tasks EXCEPT ![t] = row]
  BY <1>0, <1>1 DEF Rows
<1> HIDE DEF row
<1>3. RowsStay /\ RowTypes' /\ DOMAIN tasks' = DOMAIN tasks
      /\ \A i \in Issues : Carriers(i)' = Carriers(i)
  BY <1>0, <1>1, <1>2, RowsRewritten DEF IInv
<1>4. TypeInv'
  BY <1>0, <1>3 DEF IInv, TypeInv, OpTypes, IssueTypes, Filed
<1>5. ColumnsStay /\ NoChanges /\ NoFilings /\ NoNotes
  BY <1>0 DEF ColumnsStay, NoChanges, NoFilings, NoNotes
<1>6. StageInv' /\ CleanInv' /\ SyncInv'
  BY <1>0, <1>3, <1>4, <1>5, ChangesKept, SyncKept DEF IInv
<1>7. FiledInv' /\ NotedInv'
  BY <1>0, <1>3, <1>5, FiledKept, NotedKept DEF IInv, TypeInv, IssueTypes
<1> QED
  BY <1>4, <1>6, <1>7 DEF IInv

\* A command on a task that an idle caller begins, other than a status change.
LEMMA BegunKeeps ==
  ASSUME IInv, NEW c \in Callers, NEW kind \in {"comment", "rm"}, NEW t \in Ids,
         NEW stage \in {"commenting", "noting", "confirming"},
         stage = "confirming" <=> kind = "rm", op[c] = Idle, Called,
         op' = [op EXCEPT ![c] = [Idle EXCEPT !.kind = kind, !.task = t, !.stage = stage]],
         UNCHANGED <<tasks, posted, synced, column, late, made, lost, astray, drift>>
  PROVE  IInv'
<1> DEFINE o == [Idle EXCEPT !.kind = kind, !.task = t, !.stage = stage]
<1>1. o \in Ops /\ o.kind = kind /\ o.stage = stage /\ ~o.hit /\ o.names = {} /\ o.issue = None
  <2>1. kind \in {"idle", "add", "comment", "rm"} \cup StatusKinds /\ t \in 0..MaxTasks
    BY Bounds DEF Ids
  <2>2. o \in Ops
    BY <2>1, IdleType DEF Ops
  <2> QED
    BY <2>2, IdleType DEF Ops
<1> HIDE DEF o
<1>2. Advances(c, o)
  BY <1>1, Advancing DEF IInv, o
<1>3. NoChange(o) /\ NoFiling(o) /\ NoNote(o)
  BY <1>1 DEF NoChange, NoFiling, NoNote, StatusKinds, Belongs
<1>4. NoChanges /\ NoFilings /\ NoNotes
  BY <1>2, <1>3, IdleCalm, CalmStep
<1>5. RowsStay /\ ColumnsStay /\ \A i \in Issues : Carriers(i)' = Carriers(i)
  BY DEF RowsStay, ColumnsStay, Carriers
<1>6. TypeInv'
  <2>1. OpTypes'
    BY <1>1, <1>2, <1>3, OpTypesKept DEF IInv, Filed, NoChange, StatusKinds
  <2>2. RowTypes' /\ IssueTypes' /\ calls' \in 0..MaxCalls
    BY Bounds DEF IInv, TypeInv, RowTypes, IssueTypes, Filed, Called
  <2> QED
    BY <2>1, <2>2 DEF IInv, TypeInv
<1>7. StageInv' /\ CleanInv' /\ SyncInv'
  BY <1>4, <1>5, <1>6, ChangesKept, SyncKept DEF IInv
<1>8. FiledInv' /\ NotedInv'
  BY <1>4, <1>5, FiledKept, NotedKept DEF IInv, TypeInv, IssueTypes
<1> QED
  BY <1>6, <1>7, <1>8 DEF IInv

\* A comment that is begun has not been posted.
LEMMA CommentOnKeeps ==
  ASSUME IInv, NEW c \in Callers, NEW t \in Ids, NEW b \in BOOLEAN, CommentOn(c, t, b)
  PROVE  IInv'
<1> DEFINE stage == IF b /\ tasks[t].ticket # None THEN "commenting" ELSE "noting"
<1>1. /\ op[c] = Idle /\ Called
      /\ op' = [op EXCEPT ![c] = [Idle EXCEPT !.kind = "comment", !.task = t, !.stage = stage]]
      /\ UNCHANGED <<tasks, posted, synced, column, late, made, lost, astray, drift>>
  BY DEF CommentOn, rows, history
<1>2. PICK st \in {"commenting", "noting"} : st = stage
  OBVIOUS
<1> HIDE DEF stage
<1> QED
  BY <1>1, <1>2, BegunKeeps

\* `task rm` changes nothing until it is confirmed.
LEMMA AskRemoveKeeps ==
  ASSUME IInv, NEW c \in Callers, NEW t \in Ids, AskRemove(c, t)
  PROVE  IInv'
<1>1. /\ op[c] = Idle /\ Called
      /\ op' = [op EXCEPT ![c] =
                  [Idle EXCEPT !.kind = "rm", !.task = t, !.stage = "confirming"]]
      /\ UNCHANGED <<tasks, posted, synced, column, late, made, lost, astray, drift>>
  BY DEF AskRemove, rows, history
<1> QED
  BY <1>1, BegunKeeps

\* A comment that is posted is with its command or astray.
LEMMA PostCommentKeeps ==
  ASSUME IInv, NEW c \in Callers, PostComment(c)
  PROVE  IInv'
<1> USE BacklogAssumption
<1>0. /\ op[c] \in Ops /\ op[c].stage = "commenting" /\ op[c].kind = "comment" /\ ~op[c].hit
      /\ op[c].names = {} /\ Filed(op[c].issue)
      /\ UNCHANGED <<calls, tasks, synced, column, late, made, lost, drift>>
  <2>1. /\ op[c].stage = "commenting"
        /\ UNCHANGED <<calls, tasks, synced, column, late, made, lost, drift>>
    BY DEF PostComment
  <2> QED
    BY <2>1 DEF IInv, TypeInv, OpTypes, Belongs, StageInv, InStage, NotedInv
<1>1. PICK h \in BOOLEAN :
        /\ op' = [op EXCEPT ![c].stage = "noting", ![c].hit = h]
        /\ \/ posted < MaxComments /\ posted' = posted + 1
              /\ astray' = IF h THEN astray ELSE astray + 1
           \/ ~h /\ UNCHANGED <<posted, astray>>
  <2>1. CASE op' = [op EXCEPT ![c].stage = "noting"] /\ UNCHANGED <<posted, astray>>
    <3>1. op' = [op EXCEPT ![c].stage = "noting", ![c].hit = FALSE]
      <4>1. op[c].hit = FALSE
        BY <1>0 DEF Ops
      <4> QED
        BY <1>0, <2>1, <4>1 DEF Ops
    <3> QED
      BY <2>1, <3>1
  <2> QED
    BY <2>1 DEF PostComment
<1> DEFINE o == [op[c] EXCEPT !.stage = "noting", !.hit = h]
<1>2. o \in Ops /\ op' = [op EXCEPT ![c] = o]
  BY <1>0, <1>1 DEF Ops, IInv, TypeInv, OpTypes
<1>3. /\ o.kind = "comment" /\ o.stage = "noting" /\ o.hit = h /\ o.names = {}
      /\ o.issue = op[c].issue
  BY <1>0 DEF Ops
<1> HIDE DEF o
<1>4. Advances(c, o)
  BY <1>2, Advancing DEF IInv
<1>5. NoChange(o) /\ NoChange(op[c]) /\ NoFiling(o) /\ NoFiling(op[c])
  BY <1>0, <1>3 DEF NoChange, NoFiling, StatusKinds, Belongs
<1>6. NoChanges /\ NoFilings
  BY <1>4, <1>5, CalmStep
<1>7. RowsStay /\ ColumnsStay /\ \A i \in Issues : Carriers(i)' = Carriers(i)
  BY <1>0 DEF RowsStay, ColumnsStay, Carriers
<1>8. TypeInv'
  <2>1. OpTypes'
    BY <1>0, <1>3, <1>4, <1>5, OpTypesKept DEF IInv, Filed, NoChange, StatusKinds
  <2>2. posted' \in 0..MaxComments /\ astray' \in Nat
    BY <1>1, Bounds DEF IInv, TypeInv
  <2> QED
    BY <1>0, <2>1, <2>2 DEF IInv, TypeInv, RowTypes, IssueTypes, Filed
<1>9. StageInv' /\ CleanInv' /\ SyncInv' /\ FiledInv'
  BY <1>0, <1>6, <1>7, <1>8, ChangesKept, SyncKept, FiledKept DEF IInv, TypeInv, IssueTypes
<1>10. NotedInv'
  <2>1. Noting' = IF h THEN Noting \cup {c} ELSE Noting
    BY <1>0, <1>3, <1>4 DEF Noting, Advances
  <2>2. c \notin Noting /\ IsFiniteSet(Noting)
    BY <1>0, FS_Subset DEF Noting
  <2>3. Cardinality(Noting) \in Nat
        /\ Cardinality(Noting') = IF h THEN Cardinality(Noting) + 1 ELSE Cardinality(Noting)
    BY <2>1, <2>2, FS_AddElement, FS_CardinalityType
  <2>4. posted' = synced' + astray' + Cardinality(Noting')
    BY <1>0, <1>1, <2>3 DEF IInv, TypeInv, NotedInv
  <2>5. \A d \in Callers : op'[d].stage = "commenting" => ~op'[d].hit
    BY <1>3, <1>4 DEF Advances, IInv, NotedInv
  <2> QED
    BY <2>4, <2>5 DEF NotedInv, Noting
<1> QED
  BY <1>8, <1>9, <1>10 DEF IInv

\* A comment's row takes the comment over from its command; without a row it
\* is astray.
LEMMA NoteCommentKeeps ==
  ASSUME IInv, NEW c \in Callers, NoteComment(c)
  PROVE  IInv'
<1>0. /\ op[c] \in Ops /\ op[c].stage = "noting" /\ op[c].kind = "comment"
      /\ op[c].hit \in BOOLEAN /\ op[c].names = {} /\ op' = [op EXCEPT ![c] = Idle]
      /\ UNCHANGED <<calls, posted, column, late, made, lost, drift>>
  <2>1. /\ op[c].stage = "noting" /\ op' = [op EXCEPT ![c] = Idle]
        /\ UNCHANGED <<calls, posted, column, late, made, lost, drift>>
    BY DEF NoteComment
  <2>2. op[c] \in Ops /\ op[c].kind = "comment" /\ op[c].names = {}
    BY <2>1 DEF IInv, TypeInv, OpTypes, Belongs, StageInv, InStage
  <2> QED
    BY <2>1, <2>2 DEF Ops
<1>1. Advances(c, Idle)
  BY <1>0, IdleType, Advancing DEF IInv
<1>2. NoChange(op[c]) /\ NoFiling(op[c])
  BY <1>0 DEF NoChange, NoFiling, StatusKinds, Belongs
<1>3. NoChanges /\ NoFilings /\ ColumnsStay
  BY <1>0, <1>1, <1>2, IdleCalm, CalmStep DEF ColumnsStay
<1>4. /\ RowsStay /\ RowTypes' /\ DOMAIN tasks' = DOMAIN tasks
      /\ \A i \in Issues : Carriers(i)' = Carriers(i)
  <2>1. CASE UNCHANGED tasks
    <3>1. RowTypes'
      BY <1>0, <2>1, RowTypesKept DEF IInv
    <3> QED
      BY <2>1, <3>1 DEF RowsStay, Carriers
  <2>2. CASE Exists(op[c].task) /\ tasks' = [tasks EXCEPT ![op[c].task].pinned = TRUE]
    <3>1. PICK t \in DOMAIN tasks : t = op[c].task
      BY <2>2, LenProperties DEF Exists, IInv, TypeInv, RowTypes
    <3> DEFINE row == [tasks[t] EXCEPT !.pinned = TRUE]
    <3>2. tasks[t] \in Rows /\ tasks[t] # Removed
      BY <2>2, <3>1, LenProperties DEF Exists, IInv, TypeInv, RowTypes
    <3>3. row \in Rows /\ row.status = tasks[t].status /\ row.ticket = tasks[t].ticket
          /\ row.how = tasks[t].how /\ tasks' = [tasks EXCEPT ![t] = row]
      BY <2>2, <3>1, <3>2 DEF Rows
    <3> HIDE DEF row
    <3> QED
      BY <1>0, <3>2, <3>3, RowsRewritten DEF IInv
  <2> QED
    BY <2>1, <2>2 DEF NoteComment
<1>5. TypeInv'
  <2>1. OpTypes'
    BY <1>0, <1>1, IdleType, IdleCalm, OpTypesKept DEF IInv, Filed, NoChange, StatusKinds
  <2>2. synced' \in Nat /\ astray' \in Nat
    BY DEF NoteComment, IInv, TypeInv
  <2> QED
    BY <1>0, <1>4, <2>1, <2>2 DEF IInv, TypeInv, IssueTypes
<1>6. StageInv' /\ CleanInv' /\ SyncInv' /\ FiledInv'
  BY <1>0, <1>3, <1>4, <1>5, ChangesKept, SyncKept, FiledKept DEF IInv, TypeInv, IssueTypes
<1>7. NotedInv'
  <2>1. Noting' = Noting \ {c}
    BY <1>1, IdleType DEF Noting, Advances
  <2>2. (c \in Noting <=> op[c].hit) /\ IsFiniteSet(Noting)
    BY <1>0, FS_Subset, BacklogAssumption DEF Noting
  <2>3. Cardinality(Noting) \in Nat /\ Cardinality(Noting') \in Nat
        /\ Cardinality(Noting) = IF op[c].hit THEN Cardinality(Noting') + 1
                                 ELSE Cardinality(Noting')
    <3>1. IsFiniteSet(Noting \ {c}) /\ Cardinality(Noting \ {c}) =
            IF c \in Noting THEN Cardinality(Noting) - 1 ELSE Cardinality(Noting)
      BY <2>2, FS_RemoveElement
    <3>2. Cardinality(Noting) \in Nat /\ Cardinality(Noting \ {c}) \in Nat
      BY <2>2, <3>1, FS_CardinalityType
    <3> QED
      BY <2>1, <2>2, <3>1, <3>2
  <2>4. synced' + astray' = IF op[c].hit THEN synced + astray + 1 ELSE synced + astray
    BY <1>0 DEF NoteComment, IInv, TypeInv
  <2>a. synced \in Nat /\ astray \in Nat /\ synced' \in Nat /\ astray' \in Nat
    BY <1>5 DEF IInv, TypeInv
  <2>b. posted = synced + astray + Cardinality(Noting)
    BY DEF IInv, NotedInv
  <2>5. posted' = synced' + astray' + Cardinality(Noting')
    <3>0. PICK m \in Nat : m = Cardinality(Noting')
      BY <2>3
    <3>1. Cardinality(Noting) = IF op[c].hit THEN m + 1 ELSE m
      BY <2>3, <3>0
    <3>2. posted = (synced + astray) + (IF op[c].hit THEN m + 1 ELSE m)
      BY <2>b, <3>1
    <3>3. posted' = (synced' + astray') + m
      <4>0. posted' = posted
        BY <1>0
      <4>1. CASE op[c].hit
        <5>1. posted = (synced + astray) + (m + 1) /\ synced' + astray' = (synced + astray) + 1
          BY <2>4, <3>2, <4>1
        <5>2. PICK s \in Nat, a \in Nat, t \in Nat, b \in Nat :
                s = synced /\ a = astray /\ t = synced' /\ b = astray'
          BY <2>a
        <5>3. posted' = (s + a) + (m + 1) /\ t + b = (s + a) + 1
          BY <4>0, <5>1, <5>2
        <5>4. posted' = (t + b) + m
          BY <5>3
        <5> QED
          BY <5>2, <5>4
      <4>2. CASE ~op[c].hit
        BY <1>0, <2>4, <2>a, <3>2, <4>2
      <4> QED
        BY <4>1, <4>2
    <3> QED
      BY <3>0, <3>3
  <2>6. \A d \in Callers : op'[d].stage = "commenting" => ~op'[d].hit
    BY <1>1, IdleType DEF Advances, IInv, NotedInv
  <2> QED
    BY <2>5, <2>6 DEF NotedInv, Noting
<1> QED
  BY <1>5, <1>6, <1>7 DEF IInv

\* A row that is deleted gives the issue that was filed for it up.
LEMMA DeleteKeeps ==
  ASSUME IInv, NEW c \in Callers, Delete(c)
  PROVE  IInv'
<1> USE BacklogAssumption
<1>0. /\ op[c] \in Ops /\ op[c].stage = "confirming" /\ op[c].kind = "rm"
      /\ op[c].names = {} /\ op' = [op EXCEPT ![c] = Idle]
      /\ UNCHANGED <<calls, column, late, posted, synced, made, astray, drift>>
  <2>1. /\ op[c].stage = "confirming" /\ op' = [op EXCEPT ![c] = Idle]
        /\ UNCHANGED <<calls, column, late, posted, synced, made, astray, drift>>
    BY DEF Delete
  <2> QED
    BY <2>1 DEF IInv, TypeInv, OpTypes, Belongs, StageInv, InStage
<1>1. Advances(c, Idle)
  BY <1>0, IdleType, Advancing DEF IInv
<1>2. NoChange(op[c]) /\ NoFiling(op[c]) /\ NoNote(op[c])
  BY <1>0 DEF NoChange, NoFiling, NoNote, StatusKinds, Belongs
<1>3. NoChanges /\ NoFilings /\ NoNotes /\ ColumnsStay
  BY <1>0, <1>1, <1>2, IdleCalm, CalmStep DEF ColumnsStay
<1>4. OpTypes'
  BY <1>0, <1>1, IdleType, IdleCalm, OpTypesKept DEF IInv, Filed, NoChange, StatusKinds
<1>5. CASE UNCHANGED <<tasks, lost>>
  <2>1. TypeInv'
    BY <1>0, <1>4, <1>5 DEF IInv, TypeInv, RowTypes, IssueTypes, Filed
  <2>2. RowsStay /\ \A i \in Issues : Carriers(i)' = Carriers(i)
    BY <1>5 DEF RowsStay, Carriers
  <2> QED
    BY <1>0, <1>3, <1>5, <2>1, <2>2, ChangesKept, SyncKept, FiledKept, NotedKept
       DEF IInv, TypeInv, IssueTypes
<1>6. ASSUME NEW t \in DOMAIN tasks, tasks' = [tasks EXCEPT ![t] = Removed],
             lost' = IF tasks[t].how = "made" THEN lost \cup {tasks[t].ticket} ELSE lost
      PROVE  IInv'
  <2>0. tasks[t] \in Rows
    BY <1>6, LenProperties DEF IInv, TypeInv, RowTypes
  <2>1. Removed \in Rows /\ Removed.ticket = None /\ Removed.how = "none"
    BY DEF Removed, Rows
  <2>2. RowsStay /\ RowTypes' /\ DOMAIN tasks' = DOMAIN tasks
    BY <1>0, <1>6, <2>1, RowsRewritten DEF IInv
  <2>3. \A i \in Issues : Carriers(i)' = Carriers(i) \ {t}
    BY <1>6, <2>1 DEF Carriers
  <2>4. \A i \in Issues : t \in Carriers(i) => i \in made /\ i \in lost'
    BY <1>6 DEF Carriers, IInv, FiledInv
  <2>5. \A i \in Issues : Filers(i)' = Filers(i)
    BY <1>3 DEF Filers, NoFilings, NoFiling
  <2>6. lost \subseteq lost' /\ lost' \subseteq made
    <3>1. CASE tasks[t].how = "made" /\ tasks[t].ticket \in Issues
      BY <1>6, <2>4, <3>1 DEF Carriers, IInv, TypeInv, IssueTypes
    <3>2. CASE tasks[t].how # "made"
      BY <1>6, <3>2 DEF IInv, TypeInv, IssueTypes
    <3>3. tasks[t].how = "made" => tasks[t].ticket # None
      BY DEF IInv, TypeInv, RowTypes
    <3> QED
      BY <2>0, <3>1, <3>2, <3>3 DEF Rows
  <2>7. TypeInv'
    BY <1>0, <1>4, <2>2, <2>6 DEF IInv, TypeInv, IssueTypes
  <2>8. StageInv' /\ CleanInv' /\ SyncInv' /\ NotedInv'
    BY <1>0, <1>3, <2>2, <2>7, ChangesKept, SyncKept, NotedKept DEF IInv
  <2>9. FiledInv'
    <3>1. \A i \in Issues : i \notin made' => Filers(i)' = {} /\ Carriers(i)' = {}
      BY <1>0, <2>3, <2>5 DEF IInv, FiledInv
    <3>2. \A i \in made' \ lost' : i \in made \ lost /\ i \in Issues
      BY <1>0, <2>6 DEF IInv, TypeInv, IssueTypes
    <3>3. ASSUME NEW i \in made' \ lost' PROVE Carriers(i)' = Carriers(i) /\ Filers(i)' = Filers(i)
      <4>1. i \in Issues /\ t \notin Carriers(i)
        BY <2>4, <3>2
      <4>2. Carriers(i)' = Carriers(i) \ {t} /\ Filers(i)' = Filers(i)
        BY <2>3, <2>5, <4>1
      <4>3. Carriers(i) \ {t} = Carriers(i)
        BY <4>1
      <4> QED
        BY <4>2, <4>3
    <3>4. \A d \in Callers : op'[d].kind = "add" /\ op'[d].hit =>
            op'[d].stage = "inserting" /\ op'[d].issue # None
      BY <1>1, IdleType DEF Advances, IInv, FiledInv
    <3> QED
      BY <2>2, <3>1, <3>2, <3>3, <3>4 DEF IInv, FiledInv
  <2> QED
    BY <2>7, <2>8, <2>9 DEF IInv
<1>7. op[c].task \in DOMAIN tasks \/ ~Exists(op[c].task)
  BY LenProperties DEF Exists, IInv, TypeInv, RowTypes
<1> QED
  BY <1>5, <1>6, <1>7 DEF Delete

-----------------------------------------------------------------------------
(* Status changes *)

\* A status change files nothing and notes no comment.
LEMMA ChangeQuiet ==
  ASSUME NEW o, o.kind \in StatusKinds \cup {"idle"}, Belongs(o)
  PROVE  NoFiling(o) /\ NoNote(o)
BY DEF NoFiling, NoNote, Belongs, StatusKinds

\* What is known of a command that is to push, or to write.
LEMMA AtWork ==
  ASSUME IInv, NEW c \in Callers, op[c].kind \in StatusKinds
  PROVE  /\ op[c] \in Ops /\ op[c].to \in Statuses /\ op[c].task \in DOMAIN tasks \cap Ids
         /\ NoFiling(op[c]) /\ NoNote(op[c]) /\ Filed(op[c].issue) /\ Belongs(op[c])
         /\ InStage(op[c], tasks)
<1>1. op[c] \in Ops /\ op[c].to \in Statuses /\ Filed(op[c].issue) /\ Belongs(op[c])
      /\ InStage(op[c], tasks)
  BY DEF IInv, TypeInv, OpTypes, StageInv
<1>2. op[c].task \in DOMAIN tasks \cap Ids
  <2>1. op[c].task \in 1..Len(tasks)
    BY <1>1 DEF InStage
  <2>2. Len(tasks) \in Nat /\ Len(tasks) <= MaxTasks /\ DOMAIN tasks = 1..Len(tasks)
    BY RowDomains DEF IInv, TypeInv, RowTypes
  <2> QED
    BY <2>1, <2>2, Bounds DEF Ids
<1> QED
  BY <1>1, <1>2, ChangeQuiet

\* A push asks or posts: it goes on with what it knows, and the issue either
\* stays or goes to a column of the status.
LEMMA PushGoesOn ==
  ASSUME IInv, NEW c \in Callers, op[c].stage \in {"asking", "posting"}, NEW o \in Ops,
         op' = [op EXCEPT ![c] = o],
         o.kind = op[c].kind, o.task = op[c].task, o.from = op[c].from, o.to = op[c].to,
         o.issue = op[c].issue, o.clean = op[c].clean,
         o.names \subseteq Named(o.to), o.names # {} => o.stage = "posting",
         o.stage \in {"posting", AfterPush(op[c])},
         late' \subseteq Issues \X Columns,
         \/ UNCHANGED <<column, drift>> /\ o.hit = op[c].hit
         \/ o.hit /\ \E n \in Named(o.to) \cap Columns : Moves(op[c].issue, n, op[c].task),
         UNCHANGED <<calls, tasks, posted, synced, made, lost, astray>>
  PROVE  IInv'
<1> DEFINE i == op[c].issue
           t == op[c].task
<1>0. /\ op[c].kind \in Pushers /\ op[c].kind \in StatusKinds /\ i # None /\ i \in Issues
      /\ o.stage = "settling" => o.kind = "merge"
      /\ o.kind = "merge" => o.stage \in {"posting", "settling"}
      /\ o.stage \in {"posting", "writing", "settling"}
  <2>1. Belongs(op[c]) /\ InStage(op[c], tasks) /\ op[c] \in Ops
    BY DEF IInv, TypeInv, OpTypes, StageInv
  <2>2. op[c].kind \in Pushers /\ i # None
    BY <2>1 DEF Belongs, InStage
  <2> QED
    BY <2>1, <2>2 DEF Pushers, StatusKinds, Ops, AfterPush
<1>1. op[c] \in Ops /\ o.to \in Statuses /\ t \in DOMAIN tasks \cap Ids /\ Filed(i)
      /\ InStage(op[c], tasks) /\ NoFiling(op[c]) /\ NoNote(op[c])
  BY <1>0, AtWork
<1>2. Advances(c, o)
  BY Advancing DEF IInv
<1>3. column' \in [Issues -> Columns \cup {None}]
      /\ \A j \in Issues : column[j] # None => column'[j] # None
  BY <1>0, <1>1, BacklogAssumption DEF Moves, IInv, TypeInv, IssueTypes
<1>4. \A j \in Issues \ {i} : column'[j] = column[j]
  BY <1>0 DEF Moves, IInv, TypeInv, IssueTypes
<1>5. drift \subseteq drift' /\ drift' \subseteq Ids
  BY DEF Moves, Holders, IInv, TypeInv, IssueTypes
<1>6. Belongs(o) /\ NoFiling(o) /\ NoNote(o)
  <2>1. Belongs(o)
    BY <1>0 DEF Belongs, Pushers, StatusKinds
  <2> QED
    BY <1>0, <2>1, ChangeQuiet
<1>7. TypeInv'
  <2>1. OpTypes'
    <3>1. Filed(o.issue)'
      BY <1>0, <1>1, <1>3 DEF Filed
    <3>2. o.kind \in {"add"} \cup StatusKinds => o.to \in Statuses
      BY <1>1
    <3> QED
      BY <1>2, <1>3, <1>6, <3>1, <3>2, OpTypesKept DEF IInv
  <2>2. RowTypes'
    BY <1>3, RowTypesKept DEF IInv
  <2>3. IssueTypes'
    BY <1>3, <1>5 DEF IInv, TypeInv, IssueTypes
  <2> QED
    BY <2>1, <2>2, <2>3 DEF IInv, TypeInv
<1>8. StageInv'
  <2>1. InStage(o, tasks)
    BY <1>0, <1>1 DEF InStage
  <2> QED
    BY <1>2, <2>1 DEF IInv, StageInv, Advances
<1>9. CleanInv'
  <2>1. ASSUME NEW d \in Callers, op'[d].clean, op'[d].kind \in StatusKinds
        PROVE  Knows(op'[d], tasks', column')
    <3>1. CASE d = c
      <4>1. op'[d] = o /\ op[c].clean /\ Knows(op[c], tasks, column)
        BY <1>0, <1>2, <2>1, <3>1 DEF Advances, IInv, CleanInv
      <4>2. Present(o.task, tasks') => tasks'[o.task].status = Target(o)
        BY <1>0, <4>1 DEF Knows, Target
      <4>3. o.hit => Mirrors(column'[o.issue], o.to)
        <5>1. CASE UNCHANGED column /\ o.hit = op[c].hit
          BY <1>0, <4>1, <5>1 DEF Knows, Mirrors
        <5>2. CASE \E n \in Named(o.to) \cap Columns : Moves(i, n, t)
          BY <1>0, <1>1, <5>2, BacklogAssumption
             DEF Moves, Mirrors, IInv, TypeInv, IssueTypes
        <5> QED
          BY <5>1, <5>2
      <4> QED
        BY <4>1, <4>2, <4>3 DEF Knows
    <3>2. CASE d # c
      <4>1. op'[d] = op[d] /\ Knows(op[d], tasks, column) /\ Apart(op[d], op[c])
        BY <1>0, <1>2, <2>1, <3>2 DEF Advances, IInv, CleanInv
      <4>2. op[d].kind \in Pushers /\ op[d].hit => op[d].issue \in Issues \ {i}
        <5>1. InStage(op[d], tasks) /\ op[d] \in Ops
          BY DEF IInv, StageInv, TypeInv, OpTypes
        <5> QED
          BY <1>0, <4>1, <5>1 DEF Apart, InStage, Ops
      <4> QED
        BY <1>4, <4>1, <4>2 DEF Knows, Mirrors
    <3> QED
      BY <3>1, <3>2
  <2>2. ASSUME NEW d \in Callers, op'[d].clean, op'[d].kind \in StatusKinds,
               NEW e \in Callers \ {d}, op'[e].kind \in StatusKinds
        PROVE  Apart(op'[d], op'[e])
    <3>1. \A f \in Callers : /\ op'[f].kind = op[f].kind /\ op'[f].task = op[f].task
                             /\ op'[f].issue = op[f].issue /\ op'[f].clean = op[f].clean
      BY <1>2 DEF Advances
    <3>2. Apart(op[d], op[e])
      BY <2>2, <3>1 DEF IInv, CleanInv
    <3> QED
      BY <3>1, <3>2 DEF Apart
  <2> QED
    BY <2>1, <2>2 DEF CleanInv
<1>10. SyncInv'
  <2> SUFFICES ASSUME NEW u \in DOMAIN tasks, tasks[u].ticket # None, u \notin drift'
               PROVE  \/ Mirrors(column'[tasks[u].ticket], tasks[u].status)
                      \/ \E d \in Callers : Halfway(op'[d], u)
    BY DEF SyncInv, Mirrors, Halfway
  <2>1. CASE \E d \in Callers : Halfway(op[d], u)
    <3>1. PICK d \in Callers : Halfway(op[d], u)
      BY <2>1
    <3>2. CASE d # c
      BY <1>2, <3>1, <3>2 DEF Advances
    <3>3. CASE d = c
      <4>1. Halfway(o, u)
        BY <1>0, <3>1, <3>3 DEF Halfway
      <4> QED
        BY <1>2, <4>1 DEF Advances
    <3> QED
      BY <3>2, <3>3
  <2>2. CASE Mirrors(column[tasks[u].ticket], tasks[u].status)
    <3>1. CASE UNCHANGED column
      BY <2>2, <3>1
    <3>2. CASE tasks[u].ticket # i
      <4>0. tasks[u] \in Rows
        BY LenProperties DEF IInv, TypeInv, RowTypes
      <4>1. tasks[u].ticket \in Issues
        BY <4>0 DEF Rows
      <4> QED
        BY <1>4, <2>2, <3>2, <4>1 DEF Mirrors
    <3>3. CASE tasks[u].ticket = i /\ o.hit /\ \E n \in Columns : Moves(i, n, t)
      <4>1. u \in Holders(i)
        <5>1. u \in 1..Len(tasks) /\ Len(tasks) \in Nat /\ Len(tasks) <= MaxTasks
          BY RowDomains DEF IInv, TypeInv, RowTypes
        <5>2. tasks[u] # Removed
          BY DEF Removed
        <5> QED
          BY <3>3, <5>1, <5>2, Bounds DEF Holders, Exists, Ids
      <4>2. u = t
        BY <3>3, <4>1 DEF Moves
      <4>3. Halfway(o, u)
        BY <1>0, <3>3, <4>2 DEF Halfway, Pushers
      <4> QED
        BY <1>2, <4>3 DEF Advances
    <3> QED
      BY <3>1, <3>2, <3>3
  <2>3. u \notin drift
    BY <1>5
  <2> QED
    BY <2>1, <2>2, <2>3 DEF IInv, SyncInv
<1>11. FiledInv' /\ NotedInv'
  <2>1. NoFilings /\ NoNotes
    BY <1>1, <1>2, <1>6, CalmStep
  <2>2. \A k \in Issues : Carriers(k)' = Carriers(k)
    BY DEF Carriers
  <2> QED
    BY <2>1, <2>2, FiledKept, NotedKept DEF IInv, TypeInv, IssueTypes
<1> QED
  BY <1>7, <1>8, <1>9, <1>10, <1>11 DEF IInv

\* Asking for the transitions finds columns of the status, or none.
LEMMA AskKeeps ==
  ASSUME IInv, NEW c \in Callers, AskTransitions(c)
  PROVE  IInv'
<1>0. op[c].stage = "asking" /\ UNCHANGED <<calls, tasks, posted, synced, column, late,
                                            made, lost, astray, drift>>
  BY DEF AskTransitions, rows, history
<1>1. op[c].kind \in StatusKinds
  BY <1>0 DEF IInv, TypeInv, OpTypes, Belongs, Pushers, StatusKinds
<1>2. /\ op[c] \in Ops /\ op[c].to \in Statuses /\ op[c].issue \in Issues
      /\ column[op[c].issue] \in Columns
  <2>1. op[c] \in Ops /\ op[c].to \in Statuses /\ op[c].issue # None /\ Filed(op[c].issue)
    BY <1>0, <1>1, AtWork DEF InStage
  <2> QED
    BY <2>1 DEF Ops, Filed, IInv, TypeInv, IssueTypes
<1>3. PICK names \in SUBSET (Named(op[c].to) \cap Columns) : Asked(c, names)
  <2>1. Matching(op[c].to, Offered[column[op[c].issue]]) \subseteq Named(op[c].to) \cap Columns
    BY <1>2, BacklogAssumption DEF Matching
  <2> QED
    BY <2>1 DEF AskTransitions
<1>4. PICK stage \in {"posting", AfterPush(op[c])} :
        stage = IF names = {} THEN AfterPush(op[c]) ELSE "posting"
  OBVIOUS
<1> DEFINE o == [op[c] EXCEPT !.names = names, !.stage = stage]
<1>5. op' = [op EXCEPT ![c] = o]
  BY <1>2, <1>3, <1>4 DEF Asked, Ops, IInv, TypeInv, OpTypes
<1>6. stage \in {"posting", "writing", "settling"}
  BY DEF AfterPush
<1>7. o \in Ops
  BY <1>2, <1>6 DEF Ops
<1>8. /\ o.kind = op[c].kind /\ o.task = op[c].task /\ o.from = op[c].from /\ o.to = op[c].to
      /\ o.issue = op[c].issue /\ o.clean = op[c].clean /\ o.hit = op[c].hit
      /\ o.names = names /\ o.stage = stage
  BY <1>2 DEF Ops
<1> HIDE DEF o
<1>9. o.names \subseteq Named(o.to) /\ (o.names # {} => o.stage = "posting")
  BY <1>4, <1>8
<1>10. late' \subseteq Issues \X Columns
  BY <1>0 DEF IInv, TypeInv, IssueTypes
<1> QED
  BY <1>0, <1>5, <1>7, <1>8, <1>9, <1>10, PushGoesOn

\* A POST moves the issue to a column of the status, or does not move it.
LEMMA PostKeeps ==
  ASSUME IInv, NEW c \in Callers, NEW n \in Columns, PostTransition(c, n)
  PROVE  IInv'
<1> DEFINE i == op[c].issue
<1>0. op[c].stage = "posting" /\ n \in op[c].names
      /\ UNCHANGED <<calls, tasks, posted, synced, made, lost, astray>>
  BY DEF PostTransition, rows
<1>1. op[c].kind \in StatusKinds
  BY <1>0 DEF IInv, TypeInv, OpTypes, Belongs, Pushers, StatusKinds
<1>2. /\ op[c] \in Ops /\ op[c].to \in Statuses /\ i \in Issues
      /\ op[c].names \subseteq Named(op[c].to)
  <2>1. op[c] \in Ops /\ op[c].to \in Statuses /\ i # None /\ op[c].names \subseteq Named(op[c].to)
    BY <1>0, <1>1, AtWork DEF InStage
  <2> QED
    BY <2>1 DEF Ops
<1>3. PICK names \in SUBSET op[c].names, h \in BOOLEAN, stage \in {"posting", AfterPush(op[c])} :
        /\ op' = [op EXCEPT ![c].names = names, ![c].hit = h, ![c].stage = stage]
        /\ names # {} => stage = "posting"
        /\ \/ UNCHANGED <<column, drift>> /\ h = op[c].hit
           \/ h /\ Moves(i, n, op[c].task)
  <2> DEFINE rest == op[c].names \ {n}
  <2>0. op[c].hit \in BOOLEAN
    BY <1>2 DEF Ops
  <2>1. ASSUME NEW h \in BOOLEAN, Goes(c, n, h)
        PROVE  \E names \in SUBSET op[c].names, stage \in {"posting", AfterPush(op[c])} :
                 /\ op' = [op EXCEPT ![c].names = names, ![c].hit = h, ![c].stage = stage]
                 /\ names # {} => stage = "posting"
    <3>1. CASE rest = {}
      BY <2>1, <3>1 DEF Goes
    <3>2. CASE rest # {}
      BY <2>1, <3>2 DEF Goes
    <3> QED
      BY <3>1, <3>2
  <2>2. CASE Moves(i, n, op[c].task)
             /\ op' = [op EXCEPT ![c].names = {}, ![c].hit = TRUE, ![c].stage = AfterPush(op[c])]
    BY <2>2
  <2>3. CASE Moves(i, n, op[c].task) /\ Goes(c, n, TRUE)
    BY <2>1, <2>3
  <2>4. CASE UNCHANGED <<column, drift>> /\ Goes(c, n, op[c].hit)
    BY <2>0, <2>1, <2>4
  <2> QED
    BY <2>2, <2>3, <2>4 DEF PostTransition
<1> DEFINE o == [op[c] EXCEPT !.names = names, !.hit = h, !.stage = stage]
<1>5. op' = [op EXCEPT ![c] = o]
  BY <1>2, <1>3 DEF Ops, IInv, TypeInv, OpTypes
<1>6. stage \in {"posting", "writing", "settling"}
  BY DEF AfterPush
<1>7. o \in Ops
  BY <1>2, <1>3, <1>6 DEF Ops
<1>8. /\ o.kind = op[c].kind /\ o.task = op[c].task /\ o.from = op[c].from /\ o.to = op[c].to
      /\ o.issue = op[c].issue /\ o.clean = op[c].clean /\ o.hit = h
      /\ o.names = names /\ o.stage = stage
  BY <1>2 DEF Ops
<1> HIDE DEF o
<1>9. o.names \subseteq Named(o.to) /\ (o.names # {} => o.stage = "posting")
  BY <1>2, <1>3, <1>8
<1>10. late' \subseteq Issues \X Columns
  <2>1. late' \in {late, late \cup {<<i, n>>}}
    BY DEF PostTransition
  <2> QED
    BY <1>2, <2>1 DEF IInv, TypeInv, IssueTypes
<1>11. \/ UNCHANGED <<column, drift>> /\ o.hit = op[c].hit
       \/ o.hit /\ \E m \in Named(o.to) \cap Columns : Moves(op[c].issue, m, op[c].task)
  <2>1. n \in Named(o.to) \cap Columns
    BY <1>0, <1>2, <1>8
  <2> QED
    BY <1>3, <1>8, <2>1
<1> QED
  BY <1>0, <1>5, <1>7, <1>8, <1>9, <1>10, <1>11, PushGoesOn

\* A status change writes its row, is rolled back or is over: of its row
\* the status may change, of the rows that drift its own may come or go.
LEMMA ChangeSteps ==
  ASSUME IInv, NEW c \in Callers, op[c].kind \in StatusKinds, NEW o, Advances(c, o),
         o.kind \in StatusKinds \cup {"idle"}, Belongs(o), InStage(o, tasks'),
         o.kind \in StatusKinds => /\ o.task = op[c].task /\ o.to = op[c].to
                                   /\ o.kind = op[c].kind /\ o.clean = op[c].clean
                                   /\ o.clean => Knows(o, tasks', column),
         o.issue \in {None, op[c].issue},
         RowTypes', DOMAIN tasks' = DOMAIN tasks, drift' \subseteq Ids,
         \A u \in DOMAIN tasks :
           /\ u # op[c].task => tasks'[u] = tasks[u] /\ (u \in drift <=> u \in drift')
           /\ tasks'[u].ticket = tasks[u].ticket /\ tasks'[u].how = tasks[u].how
           /\ tasks'[u] = Removed <=> tasks[u] = Removed,
         LET t == op[c].task IN
           tasks'[t].ticket # None /\ t \notin drift' =>
             \/ Mirrors(column[tasks'[t].ticket], tasks'[t].status)
             \/ \E d \in Callers : Halfway(op'[d], t),
         UNCHANGED <<calls, column, late, posted, synced, made, lost, astray>>
  PROVE  IInv'
<1> DEFINE t == op[c].task
<1>1. /\ op[c] \in Ops /\ op[c].to \in Statuses /\ t \in DOMAIN tasks /\ NoFiling(op[c])
      /\ NoNote(op[c]) /\ Filed(op[c].issue)
  BY AtWork
<1>2. op'[c] = o /\ \A d \in Callers \ {c} : op'[d] = op[d]
  BY DEF Advances
<1>3. \A u : Present(u, tasks') <=> Present(u, tasks)
  <2>1. DOMAIN tasks = 1..Len(tasks) /\ DOMAIN tasks' = 1..Len(tasks')
    BY LenProperties DEF IInv, TypeInv, RowTypes
  <2> QED
    BY <2>1 DEF Present
<1>4. TypeInv'
  <2>1. o.kind \in {"add"} \cup StatusKinds => o.to \in Statuses
    BY <1>1 DEF StatusKinds
  <2>2. Filed(o.issue)'
    BY <1>1 DEF Filed
  <2>3. OpTypes'
    BY <2>1, <2>2, OpTypesKept DEF IInv
  <2> QED
    BY <2>3 DEF IInv, TypeInv, IssueTypes
<1>5. StageInv'
  <2>1. ASSUME NEW d \in Callers \ {c} PROVE InStage(op[d], tasks')
    <3>1. InStage(op[d], tasks)
      BY DEF IInv, StageInv
    <3>2. op[d].kind \in Pushers /\ Present(op[d].task, tasks) =>
            tasks'[op[d].task].ticket = tasks[op[d].task].ticket
      BY RowDomains DEF Present, IInv, TypeInv
    <3>3. DOMAIN tasks = 1..Len(tasks) /\ DOMAIN tasks' = 1..Len(tasks')
      BY LenProperties DEF IInv, TypeInv, RowTypes
    <3> QED
      BY <1>3, <3>1, <3>2, <3>3 DEF InStage
  <2> QED
    BY <1>2, <2>1 DEF StageInv
<1>6. CleanInv'
  <2>1. ASSUME NEW d \in Callers \ {c}, op[d].clean, op[d].kind \in StatusKinds
        PROVE  Knows(op[d], tasks', column)
    <3>1. Knows(op[d], tasks, column) /\ op[d].task # t /\ op[d].task \in DOMAIN tasks
      BY <2>1, AtWork DEF IInv, CleanInv, Apart
    <3> QED
      BY <1>3, <3>1 DEF Knows
  <2>2. ASSUME NEW d \in Callers, op'[d].clean, op'[d].kind \in StatusKinds,
               NEW e \in Callers \ {d}, op'[e].kind \in StatusKinds
        PROVE  Apart(op'[d], op'[e])
    <3>1. \A f \in {d, e} :
            /\ op'[f].kind = op[f].kind /\ op'[f].task = op[f].task
            /\ op'[f].issue \in {None, op[f].issue} /\ op'[f].clean = op[f].clean
      BY <1>2, <2>2
    <3>2. Apart(op[d], op[e])
      BY <2>2, <3>1 DEF IInv, CleanInv
    <3> QED
      BY <3>1, <3>2 DEF Apart
  <2>3. o.clean /\ o.kind \in StatusKinds => Knows(o, tasks', column)
    OBVIOUS
  <2> QED
    BY <1>2, <2>1, <2>2, <2>3 DEF CleanInv
<1>7. SyncInv'
  <2> SUFFICES ASSUME NEW u \in DOMAIN tasks, tasks'[u].ticket # None, u \notin drift', u # t
               PROVE  \/ Mirrors(column[tasks'[u].ticket], tasks'[u].status)
                      \/ \E d \in Callers : Halfway(op'[d], u)
    BY DEF SyncInv, Mirrors, Halfway
  <2>1. \A d \in Callers : Halfway(op[d], u) => d # c /\ op'[d] = op[d]
    BY <1>2 DEF Halfway
  <2>2. tasks'[u] = tasks[u] /\ u \notin drift
    OBVIOUS
  <2> QED
    BY <2>1, <2>2 DEF IInv, SyncInv
<1>8. FiledInv' /\ NotedInv'
  <2>1. NoFilings /\ NoNotes
    BY <1>1, ChangeQuiet, CalmStep
  <2>2. \A k \in Issues : Carriers(k)' = Carriers(k)
    BY DEF Carriers
  <2> QED
    BY <2>1, <2>2, FiledKept, NotedKept DEF IInv, TypeInv, IssueTypes
<1> QED
  BY <1>4, <1>5, <1>6, <1>7, <1>8 DEF IInv

\* A status change that is over leaves its caller idle.
LEMMA ChangeEnds ==
  ASSUME IInv, NEW c \in Callers, op[c].kind \in StatusKinds, op' = [op EXCEPT ![c] = Idle],
         UNCHANGED <<calls, tasks, column, late, posted, synced, made, lost, astray>>,
         drift' \in {drift, drift \cup {op[c].task}, drift \ {op[c].task}},
         LET t == op[c].task IN
           tasks[t].ticket # None /\ t \notin drift' =>
             \/ Mirrors(column[tasks[t].ticket], tasks[t].status)
             \/ \E d \in Callers : Halfway(op'[d], t)
  PROVE  IInv'
<1>1. Advances(c, Idle)
  BY IdleType, Advancing DEF IInv
<1>2. Belongs(Idle) /\ InStage(Idle, tasks) /\ Idle.kind = "idle"
  BY IdleType DEF Belongs, InStage, Pushers, StatusKinds
<1>3. RowTypes' /\ drift' \subseteq Ids
  <2>1. op[c].task \in Ids
    BY AtWork
  <2> QED
    BY <2>1 DEF IInv, TypeInv, RowTypes, IssueTypes, Filed
<1>4. Idle.issue = None /\ "idle" \notin StatusKinds
  BY IdleType DEF StatusKinds
<1>5. \A u \in DOMAIN tasks : u # op[c].task => (u \in drift <=> u \in drift')
  OBVIOUS
<1> HIDE DEF Idle
<1> QED
  BY <1>1, <1>2, <1>3, <1>4, <1>5, ChangeSteps

\* A change that is rolled back has moved nothing, or its task drifts.
LEMMA RollbackKeeps ==
  ASSUME IInv, NEW c \in Callers, Rollback(c)
  PROVE  IInv'
<1> DEFINE t == op[c].task
<1>1. /\ op[c].kind \in StatusKinds /\ op[c].stage = "writing"
      /\ op' = [op EXCEPT ![c] = Idle]
      /\ drift' = IF op[c].hit THEN drift \cup {t} ELSE drift
      /\ UNCHANGED <<calls, tasks, column, late, posted, synced, made, lost, astray>>
  BY DEF Rollback, rows
<1>2. t \in DOMAIN tasks
  BY <1>1, AtWork
<1>3. ASSUME tasks[t].ticket # None, t \notin drift'
      PROVE  \/ Mirrors(column[tasks[t].ticket], tasks[t].status)
             \/ \E d \in Callers : Halfway(op'[d], t)
  <2>1. ~op[c].hit /\ t \notin drift
    BY <1>1, <1>3
  <2>2. ~Halfway(op[c], t)
    BY <1>1, <2>1 DEF Halfway
  <2>3. \A d \in Callers : d # c => op'[d] = op[d]
    BY <1>1 DEF IInv, TypeInv, OpTypes
  <2> QED
    BY <1>2, <1>3, <2>1, <2>2, <2>3 DEF IInv, SyncInv
<1> QED
  BY <1>1, <1>3, ChangeEnds

\* The merge worker's push is over: row and issue agree, or the task drifts.
LEMMA SettlePushKeeps ==
  ASSUME IInv, NEW c \in Callers, SettlePush(c)
  PROVE  IInv'
<1> DEFINE t == op[c].task
<1>1. /\ op[c].stage = "settling" /\ op' = [op EXCEPT ![c] = Idle]
      /\ drift' = Settled(op[c])
      /\ UNCHANGED <<calls, tasks, column, late, posted, synced, made, lost, astray>>
  BY DEF SettlePush, rows
<1>2. op[c].kind = "merge" /\ op[c].kind \in StatusKinds /\ op[c].kind \in Pushers
  BY <1>1 DEF IInv, StageInv, InStage, StatusKinds, Pushers
<1>3. t \in DOMAIN tasks /\ InStage(op[c], tasks) /\ DOMAIN tasks = 1..Len(tasks)
  BY <1>2, AtWork, RowDomains DEF IInv, TypeInv
<1>4. ASSUME tasks[t].ticket # None, t \notin drift'
      PROVE  Mirrors(column[tasks[t].ticket], tasks[t].status)
  <2>1. op[c].clean /\ op[c].hit
    BY <1>1, <1>4 DEF Settled
  <2>2. Present(t, tasks)
    BY <1>3, <1>4 DEF Present, Removed
  <2>3. tasks[t].ticket = op[c].issue
    BY <1>2, <1>3, <2>2 DEF InStage
  <2>4. Knows(op[c], tasks, column)
    BY <1>2, <2>1 DEF IInv, CleanInv
  <2> QED
    BY <1>1, <1>2, <2>1, <2>2, <2>3, <2>4 DEF Knows, Target
<1> QED
  BY <1>1, <1>2, <1>4, ChangeEnds DEF Settled

\* The commit of a status change: what is left to do is on record in the
\* command, and what is not is in `drift`.
LEMMA WriteKeeps ==
  ASSUME IInv, NEW c \in Callers, Write(c)
  PROVE  IInv'
<1> DEFINE t == op[c].task
           s == IF op[c].from = op[c].to THEN tasks[t].status ELSE op[c].to
           pin == tasks[t].pinned \/ op[c].kind # "edit"
           row == [tasks[t] EXCEPT !.status = s, !.pinned = pin]
<1>1. /\ op[c].kind \in StatusKinds /\ op[c].stage = "writing" /\ Exists(t)
      /\ UNCHANGED <<calls, column, late, posted, synced, made, lost, astray>>
  BY DEF Write
<1>2. /\ op[c] \in Ops /\ op[c].to \in Statuses /\ t \in DOMAIN tasks \cap Ids
      /\ InStage(op[c], tasks) /\ Filed(op[c].issue)
  BY <1>1, AtWork
<1>3. /\ tasks[t] \in Rows /\ tasks[t] # Removed /\ tasks[t].status \in Statuses
      /\ tasks \in Seq(Rows) /\ DOMAIN tasks = 1..Len(tasks)
  BY <1>1, <1>2, LenProperties DEF Exists, IInv, TypeInv, RowTypes
<1>4. s \in Statuses /\ pin \in BOOLEAN
  <2>1. tasks[t].pinned \in BOOLEAN
    BY <1>3 DEF Rows
  <2>2. pin \in BOOLEAN
    OBVIOUS
  <2> QED
    BY <1>2, <1>3, <2>2
<1>5. tasks' = [tasks EXCEPT ![t] = row]
  <2>1. tasks' = [Written(t, op[c].from, op[c].to) EXCEPT ![t].pinned = @ \/ op[c].kind # "edit"]
    BY DEF Write
  <2>2. CASE op[c].from = op[c].to
    BY <1>2, <1>3, <2>1, <2>2 DEF Written, Rows
  <2>3. CASE op[c].from # op[c].to
    <3>1. Written(t, op[c].from, op[c].to) = [tasks EXCEPT ![t].status = op[c].to]
      BY <2>3 DEF Written
    <3>2. Written(t, op[c].from, op[c].to)[t].pinned = tasks[t].pinned
      BY <1>2, <1>3, <3>1 DEF Rows
    <3> QED
      BY <1>2, <1>3, <2>1, <2>3, <3>1, <3>2 DEF Rows
  <2> QED
    BY <2>2, <2>3
<1> HIDE DEF pin
<1>6. /\ row \in Rows /\ row.status = s /\ row.ticket = tasks[t].ticket
      /\ row.how = tasks[t].how /\ row # Removed
  <2>1. row \in Rows /\ row.status = s /\ row.ticket = tasks[t].ticket /\ row.how = tasks[t].how
    BY <1>3, <1>4 DEF Rows
  <2> QED
    BY <1>4, <2>1, BacklogAssumption DEF Removed
<1> HIDE DEF row
<1>7. /\ DOMAIN tasks' = DOMAIN tasks /\ RowTypes' /\ tasks'[t] = row
      /\ \A u \in DOMAIN tasks : u # t => tasks'[u] = tasks[u]
  <2>1. RowTypes' /\ DOMAIN tasks' = DOMAIN tasks
    <3>1. row.how = "made" => row.ticket # None
      BY <1>2, <1>6 DEF IInv, TypeInv, RowTypes
    <3> QED
      BY <1>1, <1>2, <1>4, <1>5, <1>6, <3>1, RewrittenTypes DEF IInv
  <2> QED
    BY <1>2, <1>5, <2>1
<1>8. \A u \in DOMAIN tasks :
        /\ tasks'[u].ticket = tasks[u].ticket /\ tasks'[u].how = tasks[u].how
        /\ tasks'[u] = Removed <=> tasks[u] = Removed
  BY <1>3, <1>6, <1>7
<1>9. op[c].from # op[c].to \/ op[c].clean => row.status = op[c].to
  <2>1. CASE op[c].from # op[c].to
    BY <1>6, <2>1
  <2>2. CASE op[c].from = op[c].to /\ op[c].clean
    <3>1. tasks[t].status = op[c].from
      BY <1>1, <1>2, <1>3, <2>2 DEF IInv, CleanInv, Knows, Target, Present
    <3> QED
      BY <1>6, <2>2, <3>1
  <2> QED
    BY <2>1, <2>2
<1>10. op[c].from = op[c].to => row.status = tasks[t].status
  BY <1>6
<1> HIDE DEF s
<1>11. InStage(op[c], tasks')
  <2>1. DOMAIN tasks' = 1..Len(tasks')
    BY <1>7, LenProperties DEF RowTypes
  <2>2. \A u : Present(u, tasks') <=> Present(u, tasks)
    BY <1>3, <1>7, <1>8, <2>1 DEF Present
  <2> QED
    BY <1>2, <1>3, <1>7, <1>8, <2>1, <2>2 DEF InStage
<1>12. CASE op[c].kind = "merge" /\ op[c].issue # None
  <2> DEFINE o == [op[c] EXCEPT !.stage = "asking"]
  <2>1. op' = [op EXCEPT ![c].stage = "asking"] /\ drift' = drift
    BY <1>12 DEF Write
  <2>2. o \in Ops /\ op' = [op EXCEPT ![c] = o]
    BY <1>2, <2>1 DEF Ops, IInv, TypeInv, OpTypes
  <2>3. /\ o.kind = "merge" /\ o.kind = op[c].kind /\ o.stage = "asking" /\ o.task = t
        /\ o.from = op[c].from /\ o.to = op[c].to /\ o.issue = op[c].issue
        /\ o.names = op[c].names /\ o.hit = op[c].hit /\ o.clean = op[c].clean
    BY <1>2, <1>12 DEF Ops
  <2> HIDE DEF o
  <2>4. Advances(c, o)
    BY <2>2, Advancing DEF IInv
  <2>5. Belongs(o) /\ InStage(o, tasks')
    <3>1. op[c].names = {}
      BY <1>1, <1>2 DEF InStage
    <3> QED
      BY <1>11, <1>12, <2>3, <3>1 DEF Belongs, InStage, Pushers
  <2>6. o.clean => Knows(o, tasks', column)
    <3>1. op[c].clean => Knows(op[c], tasks, column)
      BY <1>1 DEF IInv, CleanInv
    <3> QED
      BY <1>7, <1>9, <2>3, <3>1 DEF Knows, Target
  <2>7. Halfway(op'[c], t)
    BY <2>3, <2>4 DEF Halfway, Advances
  <2>8. drift' \subseteq Ids
    BY <2>1 DEF IInv, TypeInv, IssueTypes
  <2> QED
    BY <1>1, <1>7, <1>8, <2>1, <2>3, <2>4, <2>5, <2>6, <2>7, <2>8, ChangeSteps
<1>13. CASE ~(op[c].kind = "merge" /\ op[c].issue # None)
  <2>1. /\ op' = [op EXCEPT ![c] = Idle]
        /\ drift' = CASE tasks[t].ticket = None -> drift
                      [] tasks[t].ticket # None /\ op[c].kind = "edit" ->
                           IF op[c].from = op[c].to THEN drift ELSE drift \cup {t}
                      [] OTHER -> Settled(op[c])
    BY <1>13 DEF Write
  <2>2. drift' \in {drift, drift \cup {t}, drift \ {t}}
    BY <2>1 DEF Settled
  <2>3. Advances(c, Idle)
    BY <2>1, IdleType, Advancing DEF IInv
  <2>4. Belongs(Idle) /\ InStage(Idle, tasks') /\ Idle.kind = "idle" /\ Idle.issue = None
    BY IdleType DEF Belongs, InStage, Pushers, StatusKinds
  <2>5. ASSUME tasks'[t].ticket # None, t \notin drift'
        PROVE  \/ Mirrors(column[tasks'[t].ticket], tasks'[t].status)
               \/ \E d \in Callers : Halfway(op'[d], t)
    <3>1. tasks[t].ticket # None /\ tasks'[t].ticket = tasks[t].ticket /\ tasks'[t] = row
      BY <1>2, <1>7, <1>8, <2>5
    <3>2. CASE op[c].kind = "edit"
      <4>1. op[c].from = op[c].to /\ t \notin drift
        BY <2>1, <2>5, <3>1, <3>2
      <4>2. ~Halfway(op[c], t)
        BY <3>2 DEF Halfway
      <4>3. \A d \in Callers : d # c => op'[d] = op[d]
        BY <2>3 DEF Advances
      <4> QED
        BY <1>2, <1>10, <3>1, <4>1, <4>2, <4>3 DEF IInv, SyncInv
    <3>3. CASE op[c].kind # "edit"
      <4>1. op[c].clean /\ op[c].hit
        BY <2>1, <2>5, <3>1, <3>3 DEF Settled
      <4>2. op[c].kind \in Pushers /\ Present(t, tasks)
        BY <1>1, <1>2, <1>3, <3>3 DEF StatusKinds, Pushers, Present
      <4>3. tasks[t].ticket = op[c].issue
        BY <1>2, <4>2 DEF InStage
      <4>4. Mirrors(column[op[c].issue], op[c].to)
        BY <1>1, <4>1, <4>2 DEF IInv, CleanInv, Knows
      <4> QED
        BY <1>9, <3>1, <4>1, <4>3, <4>4
    <3> QED
      BY <3>2, <3>3
  <2>6. drift' \subseteq Ids
    BY <1>2, <2>2 DEF IInv, TypeInv, IssueTypes
  <2>7. "idle" \notin StatusKinds
    BY DEF StatusKinds
  <2>8. \A u \in DOMAIN tasks : u # t => (u \in drift <=> u \in drift')
    BY <2>2
  <2> HIDE DEF Idle
  <2> QED
    BY <1>1, <1>7, <1>8, <2>3, <2>4, <2>5, <2>6, <2>7, <2>8, ChangeSteps
<1> QED
  BY <1>12, <1>13

-----------------------------------------------------------------------------
(* Calls that meet *)

\* Two commands that differ at most in whether they still believe their answer.
Alike(p, o) ==
  /\ p \in Ops
  /\ p.kind = o.kind /\ p.stage = o.stage /\ p.task = o.task /\ p.from = o.from /\ p.to = o.to
  /\ p.issue = o.issue /\ p.names = o.names /\ p.hit = o.hit
  /\ p.clean => o.clean

\* Soiling calls changes nothing else of them.
LEMMA SoiledAlike ==
  ASSUME op \in [Callers -> Ops], NEW cs \in SUBSET Callers
  PROVE  /\ Soiled(cs) \in [Callers -> Ops]
         /\ \A d \in Callers : /\ Alike(Soiled(cs)[d], op[d])
                               /\ d \in cs => ~Soiled(cs)[d].clean
                               /\ d \notin cs => Soiled(cs)[d] = op[d]
<1>1. ASSUME NEW d \in Callers
      PROVE  /\ Alike(Soiled(cs)[d], op[d])
             /\ d \in cs => ~Soiled(cs)[d].clean
             /\ d \notin cs => Soiled(cs)[d] = op[d]
  <2>0. op[d] \in Ops
    OBVIOUS
  <2>1. CASE d \in cs
    <3> DEFINE o == [op[d] EXCEPT !.clean = FALSE]
    <3>1. Soiled(cs)[d] = o
      BY <2>1 DEF Soiled
    <3>2. o \in Ops
      BY <2>0 DEF Ops
    <3>3. /\ o.kind = op[d].kind /\ o.stage = op[d].stage /\ o.task = op[d].task
          /\ o.from = op[d].from /\ o.to = op[d].to /\ o.issue = op[d].issue
          /\ o.names = op[d].names /\ o.hit = op[d].hit /\ ~o.clean
      BY <2>0 DEF Ops
    <3> HIDE DEF o
    <3> QED
      BY <2>1, <3>1, <3>2, <3>3 DEF Alike
  <2>2. CASE d \notin cs
    BY <2>0, <2>2 DEF Soiled, Alike
  <2> QED
    BY <2>1, <2>2
<1>2. Soiled(cs) \in [Callers -> Ops]
  <2>1. Soiled(cs) = [d \in Callers |-> Soiled(cs)[d]]
    BY DEF Soiled
  <2> QED
    BY <1>1, <2>1 DEF Alike
<1> QED
  BY <1>1, <1>2

\* What a step of somebody else keeps, that soils calls and leaves rows alone.
LEMMA AlikeKeeps ==
  ASSUME IInv, op' \in [Callers -> Ops], NEW fresh \in SUBSET Callers,
         \A d \in Callers \ fresh : Alike(op'[d], op[d]),
         \A d \in fresh : /\ op[d] = Idle
                          /\ op'[d].kind \in StatusKinds /\ op'[d].to \in Statuses
                          /\ Belongs(op'[d]) /\ InStage(op'[d], tasks) /\ Filed(op'[d].issue)
                          /\ op'[d].stage \in {"asking", "writing"},
         IssueTypes', calls' \in 0..MaxCalls,
         \A i \in Issues : column[i] # None => column'[i] # None,
         UNCHANGED <<tasks, posted, synced, made, lost, astray>>
  PROVE  TypeInv' /\ StageInv' /\ FiledInv' /\ NotedInv'
<1>1. \A d \in Callers : op[d].issue \in Issues \cup {None} /\ op'[d].issue \in Issues \cup {None}
  BY DEF IInv, TypeInv, OpTypes, Ops
<1>2. \A d \in fresh : NoFiling(op'[d]) /\ NoNote(op'[d]) /\ NoFiling(op[d]) /\ NoNote(op[d])
  BY ChangeQuiet, IdleCalm
<1>3. OpTypes'
  <2>1. ASSUME NEW d \in Callers \ fresh
        PROVE  /\ op'[d].kind \in {"add"} \cup StatusKinds => op'[d].to \in Statuses
               /\ op'[d].issue # None => column'[op'[d].issue] # None
               /\ Belongs(op'[d])
    <3>1. Alike(op'[d], op[d]) /\ Filed(op[d].issue) /\ Belongs(op[d])
          /\ (op[d].kind \in {"add"} \cup StatusKinds => op[d].to \in Statuses)
      BY DEF IInv, TypeInv, OpTypes
    <3>2. Belongs(op'[d])
      BY <3>1 DEF Alike, Belongs
    <3>3. op'[d].issue # None => column'[op'[d].issue] # None
      BY <1>1, <3>1 DEF Alike, Filed
    <3> QED
      BY <3>1, <3>2, <3>3 DEF Alike
  <2>2. \A d \in fresh : op'[d].issue # None => column'[op'[d].issue] # None
    BY <1>1 DEF Filed
  <2> QED
    BY <2>1, <2>2 DEF OpTypes, Filed
<1>4. TypeInv'
  BY <1>3, RowTypesKept DEF IInv, TypeInv
<1>5. StageInv'
  <2>1. ASSUME NEW d \in Callers \ fresh PROVE InStage(op'[d], tasks)
    <3>1. Alike(op'[d], op[d]) /\ InStage(op[d], tasks)
      BY DEF IInv, StageInv
    <3> QED
      BY <3>1 DEF Alike, InStage
  <2> QED
    BY <2>1 DEF StageInv
<1>6. FiledInv'
  <2>1. \A i \in Issues : Filers(i)' = Filers(i)
    <3> SUFFICES ASSUME NEW i \in Issues, NEW d \in Callers
                 PROVE  d \in Filers(i)' <=> d \in Filers(i)
      BY DEF Filers
    <3> QED
      BY <1>2 DEF Filers, Alike, NoFiling
  <2>2. \A i \in Issues : Carriers(i)' = Carriers(i)
    BY DEF Carriers
  <2>3. \A d \in Callers : op'[d].kind = "add" /\ op'[d].hit =>
            op'[d].stage = "inserting" /\ op'[d].issue # None
    BY <1>2 DEF Alike, NoFiling, IInv, FiledInv
  <2>4. made \subseteq Issues
    BY DEF IInv, TypeInv, IssueTypes
  <2> QED
    BY <2>1, <2>2, <2>3, <2>4 DEF IInv, FiledInv
<1>7. NotedInv'
  <2>1. Noting' = Noting
    <3> SUFFICES ASSUME NEW d \in Callers PROVE d \in Noting' <=> d \in Noting
      BY DEF Noting
    <3> QED
      BY <1>2 DEF Noting, Alike, NoNote
  <2>2. \A d \in Callers : op'[d].stage = "commenting" => ~op'[d].hit
    BY <1>2 DEF Alike, NoNote, IInv, NotedInv
  <2> QED
    BY <2>1, <2>2 DEF IInv, NotedInv
<1> QED
  BY <1>4, <1>5, <1>6, <1>7

\* A move that is late takes every task that carries the issue along.
LEMMA LateMoveKeeps ==
  ASSUME IInv, NEW i \in Issues, NEW col \in Columns, LateMove(i, col)
  PROVE  IInv'
<1> DEFINE cs == {c \in Callers : op[c].issue = i}
<1>0. op \in [Callers -> Ops] /\ UNCHANGED <<calls, tasks, posted, synced, made, lost, astray>>
      /\ late' \subseteq Issues \X Columns
  BY DEF LateMove, rows, IInv, TypeInv, OpTypes, IssueTypes
<1>1. CASE UNCHANGED <<column, drift, op>>
  <2>1. TypeInv'
    BY <1>0, <1>1 DEF IInv, TypeInv, RowTypes, OpTypes, IssueTypes, Filed
  <2>2. StageInv' /\ CleanInv' /\ SyncInv'
    BY <1>0, <1>1 DEF IInv, StageInv, CleanInv, Knows, Mirrors, SyncInv
  <2>3. FiledInv' /\ NotedInv'
    BY <1>0, <1>1 DEF IInv, FiledInv, Filers, Carriers, NotedInv, Noting
  <2> QED
    BY <2>1, <2>2, <2>3 DEF IInv
<1>2. CASE Moves(i, col, 0) /\ op' = Soiled(cs)
  <2>0. cs \in SUBSET Callers
    OBVIOUS
  <2>1. /\ op' \in [Callers -> Ops]
        /\ \A d \in Callers : /\ Alike(op'[d], op[d])
                              /\ op[d].issue = i => ~op'[d].clean
                              /\ op[d].issue # i => op'[d] = op[d]
    BY <1>0, <1>2, <2>0, SoiledAlike
  <2>2. /\ column' \in [Issues -> Columns \cup {None}]
        /\ \A j \in Issues : column[j] # None => column'[j] # None
        /\ \A j \in Issues \ {i} : column'[j] = column[j]
    BY <1>2, BacklogAssumption DEF Moves, IInv, TypeInv, IssueTypes
  <2>3. drift \subseteq drift' /\ drift' \subseteq Ids /\ Holders(i) \subseteq drift'
    <3>1. 0 \notin Holders(i) /\ drift' = drift \cup (Holders(i) \ {0})
      BY <1>2, Bounds DEF Moves, Holders, Ids
    <3>2. Holders(i) \subseteq Ids /\ drift \subseteq Ids
      BY DEF Holders, IInv, TypeInv, IssueTypes
    <3> QED
      BY <3>1, <3>2
  <2>4. IssueTypes'
    BY <1>0, <2>2, <2>3 DEF IInv, TypeInv, IssueTypes
  <2>5. calls' \in 0..MaxCalls /\ {} \in SUBSET Callers
    BY <1>0 DEF IInv, TypeInv
  <2>6. TypeInv' /\ StageInv' /\ FiledInv' /\ NotedInv'
    BY <1>0, <2>1, <2>2, <2>4, <2>5, AlikeKeeps
  <2>7. CleanInv'
    <3>1. ASSUME NEW d \in Callers, op'[d].clean, op'[d].kind \in StatusKinds
          PROVE  Knows(op'[d], tasks, column')
      <4>1. op'[d] = op[d] /\ op[d].issue # i /\ Knows(op[d], tasks, column)
        BY <2>1, <3>1 DEF IInv, CleanInv
      <4>2. op[d].kind \in Pushers /\ op[d].hit => op[d].issue \in Issues \ {i}
        <5>1. InStage(op[d], tasks) /\ op[d] \in Ops
          BY <1>0 DEF IInv, StageInv
        <5> QED
          BY <4>1, <5>1 DEF InStage, Ops
      <4> QED
        BY <2>2, <4>1, <4>2 DEF Knows, Mirrors
    <3>2. ASSUME NEW d \in Callers, op'[d].clean, op'[d].kind \in StatusKinds,
                 NEW e \in Callers \ {d}, op'[e].kind \in StatusKinds
          PROVE  Apart(op'[d], op'[e])
      <4>1. Alike(op'[d], op[d]) /\ Alike(op'[e], op[e])
        BY <2>1
      <4>2. Apart(op[d], op[e])
        BY <3>2, <4>1 DEF IInv, CleanInv, Alike
      <4> QED
        BY <4>1, <4>2 DEF Apart, Alike
    <3> QED
      BY <1>0, <3>1, <3>2 DEF CleanInv
  <2>8. SyncInv'
    <3> SUFFICES ASSUME NEW u \in DOMAIN tasks, tasks[u].ticket # None, u \notin drift'
                 PROVE  \/ Mirrors(column'[tasks[u].ticket], tasks[u].status)
                        \/ \E d \in Callers : Halfway(op'[d], u)
      BY <1>0 DEF SyncInv, Mirrors, Halfway
    <3>1. tasks[u].ticket \in Issues \ {i}
      <4>1. tasks[u] \in Rows /\ u \in 1..Len(tasks) /\ Len(tasks) \in Nat
            /\ Len(tasks) <= MaxTasks
        BY RowDomains DEF IInv, TypeInv, RowTypes
      <4>2. tasks[u] # Removed /\ u \in Ids
        BY <4>1, Bounds DEF Removed, Ids
      <4>3. tasks[u].ticket # i
        BY <2>3, <4>1, <4>2 DEF Holders, Exists
      <4> QED
        BY <4>1, <4>3 DEF Rows
    <3>2. \A d \in Callers : Halfway(op[d], u) => Halfway(op'[d], u)
      BY <2>1 DEF Halfway, Alike
    <3> QED
      BY <2>2, <2>3, <3>1, <3>2 DEF IInv, SyncInv, Mirrors
  <2> QED
    BY <2>6, <2>7, <2>8 DEF IInv
<1> QED
  BY <1>1, <1>2 DEF LateMove

\* A change that begins believes what it reads only if no other is about.
LEMMA BeginKeeps ==
  ASSUME IInv, NEW c \in Callers, NEW kind \in StatusKinds, NEW t \in Ids, NEW s \in Statuses,
         Begin(c, kind, t, s)
  PROVE  IInv'
<1> DEFINE cs == Rivals(t)
           k == tasks[t].ticket
<1>0. /\ op[c] = Idle /\ Exists(t) /\ Called
      /\ UNCHANGED <<tasks, posted, synced, column, late, made, lost, astray, drift>>
      /\ op \in [Callers -> Ops] /\ cs \in SUBSET Callers
  BY DEF Begin, rows, history, IInv, TypeInv, OpTypes, Rivals
<1>1. /\ t \in DOMAIN tasks /\ t \in 1..Len(tasks) /\ tasks[t] \in Rows /\ tasks[t] # Removed
      /\ tasks[t].status \in Statuses /\ Filed(k) /\ k \in Issues \cup {None}
      /\ t \in 0..MaxTasks
  <2>1. t \in DOMAIN tasks /\ t \in 1..Len(tasks) /\ tasks[t] \in Rows /\ tasks[t] # Removed
    BY <1>0, RowDomains DEF Exists, IInv, TypeInv, RowTypes
  <2> QED
    BY <2>1, Bounds DEF IInv, TypeInv, RowTypes, Rows, Ids
<1>2. PICK issue \in {None, k} : issue = IF kind = "edit" THEN None ELSE k
  OBVIOUS
<1>3. PICK stage \in {"asking", "writing"} :
        stage = IF kind = "change" /\ k # None THEN "asking" ELSE "writing"
  OBVIOUS
<1>4. PICK clean \in BOOLEAN : clean = (cs = {})
  OBVIOUS
<1> DEFINE o == [Idle EXCEPT !.kind = kind, !.task = t, !.from = tasks[t].status, !.to = s,
                             !.issue = issue, !.clean = clean, !.stage = stage]
<1>5. op' = [Soiled(cs) EXCEPT ![c] = o]
  BY <1>2, <1>3, <1>4 DEF Begin
<1>6. /\ o \in Ops /\ o.kind = kind /\ o.task = t /\ o.from = tasks[t].status /\ o.to = s
      /\ o.issue = issue /\ o.clean = clean /\ o.stage = stage /\ ~o.hit /\ o.names = {}
  <2>1. o \in Ops
    BY <1>1, IdleType DEF Ops
  <2> QED
    BY <2>1, IdleType DEF Ops
<1> HIDE DEF o, cs, k
<1>7. /\ op' \in [Callers -> Ops] /\ op'[c] = o
      /\ \A d \in Callers \ {c} : /\ Alike(op'[d], op[d])
                                  /\ d \in cs => ~op'[d].clean
                                  /\ d \notin cs => op'[d] = op[d]
  BY <1>0, <1>5, <1>6, SoiledAlike
<1>8. Belongs(o) /\ InStage(o, tasks) /\ Filed(o.issue)
  <2>1. o.stage = "asking" => kind = "change" /\ o.issue # None
    BY <1>2, <1>3, <1>6
  <2>2. kind = "edit" => o.stage = "writing"
    BY <1>3, <1>6
  <2>3. Belongs(o)
    BY <1>6, <2>1 DEF Belongs, Pushers, StatusKinds
  <2>4. kind \in Pushers => o.issue = tasks[t].ticket
    BY <1>2, <1>6 DEF Pushers, k
  <2>5. InStage(o, tasks)
    BY <1>1, <1>6, <2>1, <2>2, <2>4 DEF InStage
  <2> QED
    BY <1>1, <1>2, <1>6, <2>3, <2>5 DEF Filed
<1>9. TypeInv' /\ StageInv' /\ FiledInv' /\ NotedInv'
  <2>1. calls' \in 0..MaxCalls
    BY <1>0, Bounds DEF Called, IInv, TypeInv
  <2>2. IssueTypes' /\ \A i \in Issues : column[i] # None => column'[i] # None
    BY <1>0 DEF IInv, TypeInv, IssueTypes
  <2>3. {c} \in SUBSET Callers /\ \A d \in Callers \ {c} : Alike(op'[d], op[d])
    BY <1>7
  <2>4. \A d \in {c} : /\ op[d] = Idle
                       /\ op'[d].kind \in StatusKinds /\ op'[d].to \in Statuses
                       /\ Belongs(op'[d]) /\ InStage(op'[d], tasks) /\ Filed(op'[d].issue)
                       /\ op'[d].stage \in {"asking", "writing"}
    BY <1>0, <1>6, <1>7, <1>8
  <2> QED
    BY <1>0, <1>7, <2>1, <2>2, <2>3, <2>4, AlikeKeeps
<1>10. CleanInv'
  <2>1. ASSUME NEW d \in Callers, op'[d].clean, op'[d].kind \in StatusKinds
        PROVE  Knows(op'[d], tasks, column)
    <3>1. CASE d = c
      <4>1. o.kind = "merge" => o.stage = "writing"
        BY <1>3, <1>6
      <4> QED
        BY <1>6, <1>7, <3>1, <4>1 DEF Knows, Target
    <3>2. CASE d # c
      BY <1>7, <2>1, <3>2 DEF IInv, CleanInv
    <3> QED
      BY <3>1, <3>2
  <2>2. ASSUME NEW d \in Callers \ {c}, op[d].kind \in StatusKinds, d \notin cs
        PROVE  op[d].task # t /\ (op[d].issue # None => op[d].issue # k)
    BY <2>2 DEF cs, Rivals, k
  <2>3. ASSUME NEW d \in Callers, op'[d].clean, op'[d].kind \in StatusKinds,
               NEW e \in Callers \ {d}, op'[e].kind \in StatusKinds
        PROVE  Apart(op'[d], op'[e])
    <3>1. CASE d = c
      <4>1. Alike(op'[e], op[e]) /\ e \notin cs /\ e # c
        BY <1>4, <1>6, <1>7, <2>3, <3>1
      <4>2. op[e].task # t /\ (op[e].issue # None => op[e].issue # k)
        BY <2>2, <2>3, <4>1 DEF Alike
      <4> QED
        BY <1>2, <1>6, <1>7, <3>1, <4>1, <4>2 DEF Apart, Alike
    <3>2. CASE e = c
      <4>1. op'[d] = op[d] /\ d \notin cs /\ d # c
        BY <1>7, <2>3, <3>2
      <4>2. op[d].task # t /\ (op[d].issue # None => op[d].issue # k)
        BY <2>2, <2>3, <4>1
      <4> QED
        BY <1>2, <1>6, <1>7, <3>2, <4>1, <4>2 DEF Apart
    <3>3. CASE d # c /\ e # c
      <4>1. op'[d] = op[d] /\ Alike(op'[e], op[e])
        BY <1>7, <2>3, <3>3
      <4>2. Apart(op[d], op[e])
        BY <2>3, <4>1 DEF IInv, CleanInv, Alike
      <4> QED
        BY <4>1, <4>2 DEF Apart, Alike
    <3> QED
      BY <3>1, <3>2, <3>3
  <2> QED
    BY <1>0, <2>1, <2>3 DEF CleanInv
<1>11. SyncInv'
  <2>1. \A d \in Callers, u \in DOMAIN tasks : Halfway(op[d], u) => Halfway(op'[d], u)
    BY <1>0, <1>7, IdleType DEF Halfway, Alike
  <2> QED
    BY <1>0, <2>1 DEF IInv, SyncInv, Mirrors
<1> QED
  BY <1>9, <1>10, <1>11 DEF IInv

-----------------------------------------------------------------------------
(* The theorems *)

\* At the start nothing is known, and nothing has to be.
LEMMA InitKeeps == Init => IInv
<1> SUFFICES ASSUME Init PROVE IInv
  OBVIOUS
<1>1. /\ tasks = <<>> /\ DOMAIN tasks = {} /\ Len(tasks) = 0 /\ tasks \in Seq(Rows)
      /\ op \in [Callers -> Ops] /\ \A c \in Callers : op[c] = Idle
  BY IdleType DEF Init
<1>2. TypeInv
  <2>1. OpTypes
    BY <1>1, IdleType, IdleCalm DEF OpTypes, Filed, StatusKinds, NoChange
  <2>2. RowTypes /\ IssueTypes
    BY <1>1, Bounds DEF Init, RowTypes, IssueTypes
  <2> QED
    BY <2>1, <2>2, Bounds DEF Init, TypeInv
<1>3. StageInv /\ CleanInv /\ SyncInv
  BY <1>1, IdleType DEF StageInv, InStage, CleanInv, SyncInv, Pushers, StatusKinds
<1>4. FiledInv
  BY <1>1, IdleType DEF Init, FiledInv, Filers, Carriers
<1>5. NotedInv
  <2>1. Noting = {}
    BY <1>1, IdleType DEF Noting
  <2> QED
    BY <1>1, <2>1, FS_EmptySet, IdleType DEF Init, NotedInv
<1> QED
  BY <1>2, <1>3, <1>4, <1>5 DEF IInv

\* Every step keeps the invariant.
LEMMA NextKeeps == IInv /\ [Next]_vars => IInv'
<1> SUFFICES ASSUME IInv, [Next]_vars PROVE IInv'
  OBVIOUS
<1>1. ASSUME NEW c \in Callers, NEW s \in Statuses, NEW g \in Issues \cup {None},
             NEW b \in BOOLEAN, Add(c, s, g, b)
      PROVE  IInv'
  BY <1>1, AddKeeps
<1>2. ASSUME NEW c \in Callers, CreateIssue(c) \/ InsertTask(c) \/ InsertFails(c) PROVE IInv'
  BY <1>2, CreateKeeps, InsertKeeps, InsertFailsKeeps
<1>3. ASSUME NEW c \in Callers, NEW k \in StatusKinds, NEW t \in Ids, NEW s \in Statuses,
             Begin(c, k, t, s)
      PROVE  IInv'
  BY <1>3, BeginKeeps
<1>4. ASSUME NEW c \in Callers, AskTransitions(c) \/ Write(c) \/ SettlePush(c) \/ Rollback(c)
      PROVE  IInv'
  BY <1>4, AskKeeps, WriteKeeps, SettlePushKeeps, RollbackKeeps
<1>5. ASSUME NEW c \in Callers, NEW t \in Ids, AskRemove(c, t) PROVE IInv'
  BY <1>5, AskRemoveKeeps
<1>6. ASSUME NEW c \in Callers, NEW t \in Ids, NEW b \in BOOLEAN, CommentOn(c, t, b) PROVE IInv'
  BY <1>6, CommentOnKeeps
<1>7. ASSUME NEW c \in Callers, NEW n \in Columns, PostTransition(c, n) PROVE IInv'
  BY <1>7, PostKeeps
<1>8. ASSUME NEW c \in Callers, PostComment(c) \/ NoteComment(c) \/ Delete(c) PROVE IInv'
  BY <1>8, PostCommentKeeps, NoteCommentKeeps, DeleteKeeps
<1>9. ASSUME NEW i \in Issues, Promote(i) PROVE IInv'
  BY <1>9, PromoteKeeps
<1>10. ASSUME NEW i \in Issues, NEW col \in Columns, FiledInJira(i, col) \/ LateMove(i, col)
       PROVE  IInv'
  BY <1>10, FiledInJiraKeeps, LateMoveKeeps
<1>11. ASSUME NEW t \in Ids, AssignJob(t) PROVE IInv'
  BY <1>11, AssignKeeps
<1>12. ASSUME UNCHANGED vars PROVE IInv'
  <2>1. TypeInv'
    BY <1>12 DEF vars, IInv, TypeInv, RowTypes, OpTypes, IssueTypes, Filed
  <2>2. StageInv' /\ CleanInv' /\ SyncInv'
    BY <1>12 DEF vars, IInv, StageInv, CleanInv, Knows, Mirrors, SyncInv
  <2>3. FiledInv' /\ NotedInv'
    BY <1>12 DEF vars, IInv, FiledInv, Filers, Carriers, NotedInv, Noting
  <2> QED
    BY <2>1, <2>2, <2>3 DEF IInv
<1> QED
  BY <1>1, <1>2, <1>3, <1>4, <1>5, <1>6, <1>7, <1>8, <1>9, <1>10, <1>11, <1>12 DEF Next

\* The invariant holds of every state.
LEMMA Invariant == Spec => []IInv
BY InitKeeps, NextKeeps, PTL DEF Spec

\* Every variable has its type, rows and commands name issues that Jira has,
\* and a push asks for columns of the board alone.
THEOREM TypeCorrect == Spec => []TypeOK
<1>1. IInv => TypeOK
  <2> SUFFICES ASSUME IInv PROVE TypeOK
    OBVIOUS
  <2>1. ASSUME NEW t \in DOMAIN tasks, tasks[t] # Removed
        PROVE  tasks[t] \in [status : Statuses, pinned : BOOLEAN,
                             how : {"none", "made", "given", "found"},
                             ticket : {None} \cup {i \in Issues : column[i] # None}]
    <3>1. tasks[t] \in Rows /\ tasks[t].status \in Statuses /\ Filed(tasks[t].ticket)
      BY <2>1, LenProperties DEF IInv, TypeInv, RowTypes
    <3> QED
      BY <3>1 DEF Rows, Filed
  <2>2. Len(tasks) \in 0..MaxTasks
    BY RowDomains, Bounds DEF IInv, TypeInv, RowTypes
  <2>3. synced \in 0..MaxComments /\ astray \in 0..MaxComments
    <3>1. Noting \subseteq Callers
      BY DEF Noting
    <3>2. IsFiniteSet(Noting)
      BY <3>1, BacklogAssumption, FS_Subset
    <3>3. PICK n \in Nat : n = Cardinality(Noting)
      BY <3>2, FS_CardinalityType
    <3>4. posted = synced + astray + n /\ posted \in 0..MaxComments
          /\ synced \in Nat /\ astray \in Nat
      BY <3>3 DEF IInv, NotedInv, TypeInv
    <3> QED
      BY <3>4, Bounds
  <2> QED
    BY <2>1, <2>2, <2>3 DEF IInv, TypeInv, OpTypes, IssueTypes, TypeOK
<1> QED
  BY <1>1, Invariant, PTL

\* An issue stands in a column of its task's status, unless one of the ways
\* the code loses it has been taken.
THEOREM MirrorKept == Spec => []Mirrored
<1>1. IInv => Mirrored
  <2> SUFFICES ASSUME IInv, NEW t \in Ids, Exists(t), tasks[t].ticket # None, t \notin drift,
                      \A c \in Callers : ~ChangeOn(c, t)
               PROVE  Mirrors(column[tasks[t].ticket], tasks[t].status)
    BY DEF Mirrored
  <2>1. t \in DOMAIN tasks
    BY RowDomains DEF Exists, IInv, TypeInv
  <2>2. \A c \in Callers : ~Halfway(op[c], t)
    BY DEF Halfway, ChangeOn, StatusKinds
  <2> QED
    BY <2>1, <2>2 DEF IInv, SyncInv
<1> QED
  BY <1>1, Invariant, PTL

\* What FlowTrack left in Jira is on a row, about to be, or known to be lost.
THEOREM RemoteKept == Spec => []RemoteAccounted
<1>1. IInv => RemoteAccounted
  <2> SUFFICES ASSUME IInv PROVE RemoteAccounted
    OBVIOUS
  <2>1. ASSUME NEW i \in made \ lost
        PROVE  \/ Cardinality({t \in Holders(i) : tasks[t].how = "made"}) = 1
               \/ \E c \in Callers : op[c].kind = "add" /\ op[c].issue = i /\ op[c].hit
    <3>1. CASE \E c \in Callers : Filers(i) = {c}
      BY <3>1 DEF Filers
    <3>2. CASE \E t \in DOMAIN tasks : Carriers(i) = {t}
      <4>1. {t \in Holders(i) : tasks[t].how = "made"} = Carriers(i)
        <5>1. DOMAIN tasks = 1..Len(tasks) /\ Len(tasks) \in Nat /\ Len(tasks) <= MaxTasks
          BY RowDomains DEF IInv, TypeInv, RowTypes
        <5>2. DOMAIN tasks \subseteq Ids
          BY <5>1, Bounds DEF Ids
        <5>3. \A t \in DOMAIN tasks : tasks[t].how = "made" => tasks[t] # Removed
          BY DEF Removed
        <5> QED
          BY <5>1, <5>2, <5>3 DEF Holders, Exists, Carriers
      <4>2. PICK t : Carriers(i) = {t}
        BY <3>2
      <4> QED
        BY <4>1, <4>2, FS_Singleton
    <3> QED
      BY <3>1, <3>2 DEF IInv, FiledInv
  <2>2. posted = synced + astray
                   + Cardinality({c \in Callers : op[c].stage = "noting" /\ op[c].hit})
    BY DEF IInv, NotedInv, Noting
  <2> QED
    BY <2>1, <2>2 DEF RemoteAccounted
<1> QED
  BY <1>1, Invariant, PTL

=============================================================================
