------------------------------ MODULE Discovery ------------------------------
(***************************************************************************)
(* The discovery inbox: daemons scan external sources (discovery/manager), *)
(* insert what they had not seen, escalate critical findings and have the  *)
(* PM agent refine the rest, while humans promote, reject or refine the    *)
(* same items by API and CLI (api/routers/discovery.py, cli/discovery.py). *)
(*                                                                         *)
(* A scan is one transaction with an INSERT per candidate.  A resolution   *)
(* is a read of the item and a commit: the check of its status in between  *)
(* (discovery/promote.py) is made on the row that was read, and nothing    *)
(* locks the row.                                                          *)
(***************************************************************************)
EXTENDS Integers, FiniteSets

CONSTANTS
  None,        \* SQL NULL, no row, no scan
  Daemons,     \* the daemons that run the discovery manager
  Refs,        \* external records, each a (source, source_ref)
  MaxScans,    \* bound: number of scans
  MaxTouches   \* bound: number of API requests and commands

Statuses == {"new", "promoted", "rejected", "duplicate"}

ASSUME DiscoveryAssumption ==
  /\ MaxScans \in Nat
  /\ MaxTouches \in Nat
  /\ Daemons \cap Nat = {}
  /\ None \notin Refs \X Nat
  /\ None \notin [status : Statuses, link : {None} \cup (Refs \X Nat)]

VARIABLES
  item,       \* the discovered_items row of each ref: [status, link], or None
  made,       \* number of tasks made from each ref's item
  scan,       \* each daemon's scan: [left, critical, fresh], or None
  resolvers,  \* resolutions under way: [by, ref, step, listed, verdict, new]
  scans,      \* number of scans so far
  touches,    \* number of requests and commands so far
  \* history, read by properties only
  refined,    \* number of automatic refinements of each ref's item
  escalated,  \* refs whose item was inserted with a blocked task
  raced       \* refs whose item was resolved by two who both found it new

itemVars == <<item, made>>
vars == <<itemVars, scan, resolvers, scans, touches, refined, escalated, raced>>

Init ==
  /\ item = [r \in Refs |-> None]
  /\ made = [r \in Refs |-> 0]
  /\ scan = [d \in Daemons |-> None]
  /\ resolvers = {}
  /\ scans = 0
  /\ touches = 0
  /\ refined = [r \in Refs |-> 0]
  /\ escalated = {}
  /\ raced = {}

\* The n-th task made from r's item, and all there are.
TaskOf(r, n) == <<r, n>>
Tasks == UNION {{TaskOf(r, n) : n \in 1 .. made[r]} : r \in Refs}

-----------------------------------------------------------------------------
(* Scans *)

\* What a source delivers.  The severity of an advisory is UNKNOWN when its details
\* could not be fetched, so a ref may be critical in one scan and not in another.
Fetch(d) ==
  /\ scan[d] = None
  /\ scans < MaxScans
  /\ \E found \in SUBSET Refs \ {{}} : \E critical \in SUBSET found :
       scan' = [scan EXCEPT ![d] = [left |-> found, critical |-> critical, fresh |-> {}]]
  /\ scans' = scans + 1
  /\ UNCHANGED <<itemVars, resolvers, touches, refined, escalated, raced>>

\* Mutant: the item was looked up by itself, without the UNIQUE constraint.
FreeWithoutConstraint(d, r) == TRUE

\* INSERT waits for the transaction of another daemon that inserted the same key.
Free(d, r) == \A e \in Daemons \ {d} : scan[e] # None => r \notin scan[e].fresh

\* ON CONFLICT DO NOTHING; fresh: rowcount was 1.
Insert(d, r) ==
  /\ scan[d] # None /\ r \in scan[d].left
  /\ \/ /\ item[r] # None
        /\ scan' = [scan EXCEPT ![d].left = @ \ {r}]
     \/ /\ item[r] = None /\ Free(d, r)
        /\ scan' = [scan EXCEPT ![d].left = @ \ {r}, ![d].fresh = @ \cup {r}]
  /\ UNCHANGED <<itemVars, resolvers, scans, touches, refined, escalated, raced>>

\* The row a scan commits: promote_item within escalate_critical_item, if critical.
Inserted(r, critical) ==
  IF critical THEN [status |-> "promoted", link |-> TaskOf(r, 1)]
              ELSE [status |-> "new",      link |-> None]

\* A resolution; new: it has read the item as new.
Resolver(by, r, step, listed, verdict, new) ==
  [by |-> by, ref |-> r, step |-> step, listed |-> listed, verdict |-> verdict, new |-> new]

\* The scan commits; with auto_refine_discovered, the items to refine get a task each.
CommitScan(d) ==
  LET s == scan[d]
      urgent == s.fresh \cap s.critical
      queued == s.fresh \ s.critical
  IN  /\ s # None /\ s.left = {}
      /\ item' = [r \in Refs |-> IF r \in s.fresh THEN Inserted(r, r \in s.critical) ELSE item[r]]
      /\ made' = [r \in Refs |-> IF r \in urgent THEN made[r] + 1 ELSE made[r]]
      /\ escalated' = escalated \cup urgent
      /\ \/ /\ resolvers' = resolvers \cup
                   {Resolver(d, r, "waiting", {}, None, FALSE) : r \in queued}
            /\ refined' = [r \in Refs |-> IF r \in queued THEN refined[r] + 1 ELSE refined[r]]
         \/ UNCHANGED <<resolvers, refined>>
      /\ scan' = [scan EXCEPT ![d] = None]
      /\ UNCHANGED <<scans, touches, raced>>

\* An exception, or the loser of a database deadlock: the whole scan is rolled back.
RollBack(d) ==
  /\ scan[d] # None
  /\ scan' = [scan EXCEPT ![d] = None]
  /\ UNCHANGED <<itemVars, resolvers, scans, touches, refined, escalated, raced>>

\* The daemon stops: its scan is rolled back, its refinements are forgotten.
Stop(d) ==
  /\ scan' = [scan EXCEPT ![d] = None]
  /\ resolvers' = {x \in resolvers : x.by # d}
  /\ UNCHANGED <<itemVars, scans, touches, refined, escalated, raced>>

-----------------------------------------------------------------------------
(* Resolutions *)

UnchangedByResolvers == UNCHANGED <<scan, scans, refined, escalated>>

IsNew(r) == item[r] # None /\ item[r].status = "new"

Becomes(x, y) == resolvers' = (resolvers \ {x}) \cup {y}

\* Mutant: the task an item duplicates is taken from the answer as it is.
VerdictsUnchecked(x) ==
  {[status |-> "duplicate", link |-> TaskOf(r, 1)] : r \in Refs}

\* What may be decided, of the tasks listed to the PM agent when it was asked.
Verdicts(x) ==
  {[status |-> "promoted", link |-> None], [status |-> "rejected", link |-> None]}
    \cup {[status |-> "duplicate", link |-> t] : t \in x.listed \cup {None}}

\* An automatic refinement takes its snapshot and asks the PM agent.
Ask(x) ==
  /\ x.step = "waiting"
  /\ Becomes(x, [x EXCEPT !.step = "asked", !.listed = Tasks])
  /\ UnchangedByResolvers
  /\ UNCHANGED <<itemVars, touches, raced>>

\* Mutant: the answer is applied as it was asked for.
StillUnresolved(x) == TRUE

\* The check at the head of promote_item, reject_item and duplicate_item.
Unresolved(x) == IsNew(x.ref)

\* The agent has answered and the item is read: a resolved one is skipped.
Decide(x) ==
  /\ x.step = "asked"
  /\ \/ /\ Unresolved(x)
        /\ \E v \in Verdicts(x) :
             Becomes(x, [x EXCEPT !.step = "writing", !.verdict = v, !.new = IsNew(x.ref)])
     \/ /\ ~Unresolved(x)
        /\ resolvers' = resolvers \ {x}
  /\ UnchangedByResolvers
  /\ UNCHANGED <<itemVars, touches, raced>>

\* promote and reject, by API or CLI: the item is read, a resolved one is refused (409).
Click(r, status) ==
  /\ touches < MaxTouches
  /\ touches' = touches + 1
  /\ IsNew(r)
  /\ resolvers' = resolvers \cup
       {Resolver(touches', r, "writing", {}, [status |-> status, link |-> None], TRUE)}
  /\ UnchangedByResolvers
  /\ UNCHANGED <<itemVars, raced>>

Promote(r) == Click(r, "promoted")
Reject(r)  == Click(r, "rejected")

\* flowtrack discovery refine --apply: nothing is applied if the item was resolved
\* when the agent was asked.
Refine(r) ==
  /\ touches < MaxTouches
  /\ touches' = touches + 1
  /\ IsNew(r)
  /\ resolvers' = resolvers \cup
       {Resolver(touches', r, "asked", Tasks, None, FALSE)}
  /\ UnchangedByResolvers
  /\ UNCHANGED <<itemVars, raced>>

\* Mutant: a promotion makes the task and forgets the link to it.
RowWithoutLink(x) == [item[x.ref] EXCEPT !.status = x.verdict.status]

\* The row after the commit: the link is written only if there is one to write.
ResolvedRow(x) ==
  LET r == x.ref
      v == x.verdict
      task == IF v.status = "promoted" THEN TaskOf(r, made[r] + 1) ELSE v.link
  IN  [status |-> v.status, link |-> IF task = None THEN item[r].link ELSE task]

\* The commit: of two who read the item as new, the second overwrites the first.
Write(x) ==
  LET r == x.ref
  IN  /\ x.step = "writing"
      /\ item' = [item EXCEPT ![r] = ResolvedRow(x)]
      /\ made' = [made EXCEPT ![r] = IF x.verdict.status = "promoted" THEN @ + 1 ELSE @]
      /\ raced' = IF x.new /\ ~IsNew(r) THEN raced \cup {r} ELSE raced
      /\ resolvers' = resolvers \ {x}
      /\ UnchangedByResolvers
      /\ UNCHANGED touches

\* The agent fails or answers nonsense, the command is interrupted, the commit fails.
Fail(x) ==
  /\ resolvers' = resolvers \ {x}
  /\ UnchangedByResolvers
  /\ UNCHANGED <<itemVars, touches, raced>>

-----------------------------------------------------------------------------
Next ==
  \/ \E d \in Daemons :
       \/ Fetch(d) \/ CommitScan(d) \/ RollBack(d) \/ Stop(d)
       \/ \E r \in Refs : Insert(d, r)
  \/ \E x \in resolvers : Ask(x) \/ Decide(x) \/ Write(x) \/ Fail(x)
  \/ \E r \in Refs : Promote(r) \/ Reject(r) \/ Refine(r)

Spec == Init /\ [][Next]_vars

-----------------------------------------------------------------------------
(* Properties *)

Rows  == [status : Statuses,
          link : {None} \cup (Refs \X (Nat \ {0}))]
Scans == [left : SUBSET Refs, critical : SUBSET Refs, fresh : SUBSET Refs]
Resolutions ==
  [by : Daemons \cup 1 .. MaxTouches, ref : Refs, step : {"waiting", "asked", "writing"},
   listed : SUBSET (Refs \X (Nat \ {0})), verdict : Rows \cup {None},
   new : BOOLEAN]

\* Every variable stays within the values its column or process can take, and a link
\* is to a task that exists (the foreign key of promoted_task_id).
TypeOK ==
  /\ \A r \in Refs : item[r] = None \/ item[r] \in Rows
  /\ \A r \in Refs : item[r] # None => item[r].link \in {None} \cup Tasks
  /\ made \in [Refs -> Nat] /\ refined \in [Refs -> Nat]
  /\ \A d \in Daemons : scan[d] = None \/ scan[d] \in Scans
  /\ \A x \in resolvers : x \in Resolutions
  /\ scans \in 0 .. MaxScans
  /\ touches \in 0 .. MaxTouches
  /\ escalated \cup raced \subseteq Refs

\* "Create a Task from a DiscoveredItem and flip the item to PROMOTED" (promote.py:63): an
\* item that is promoted has one task, its own, and any other has none, whatever scans,
\* refinements and humans do, unless two of them found it new.
TasksMatchItems ==
  \A r \in Refs \ raced :
    IF item[r] # None /\ item[r].status = "promoted"
    THEN made[r] = 1 /\ item[r].link = TaskOf(r, 1)
    ELSE made[r] = 0

\* Whatever a later scan delivers and however late an agent answers, a resolved item
\* stays as it is, unless two resolutions found it new.
ResolvedStays ==
  [][\A r \in Refs :
       (item[r] # None /\ ~IsNew(r)) => (item'[r] = item[r] \/ r \in raced')]_vars

\* "IDs of rows actually inserted" (manager.py:96): though daemons scan the same sources
\* at once, an item is refined automatically once at most, for each call costs money, and
\* one escalated when it was inserted, "never queued for TPM refinement" (manager.py:136),
\* is not touched again, not even by a command that reads the inbox while the scan commits.
HandledOnce ==
  /\ \A r \in Refs : refined[r] <= 1
  /\ \A r \in escalated :
       /\ item[r] = [status |-> "promoted", link |-> TaskOf(r, 1)]
       /\ made[r] = 1
       /\ \A x \in resolvers : x.ref # r

=============================================================================
