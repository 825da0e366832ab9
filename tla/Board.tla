-------------------------------- MODULE Board --------------------------------
(***************************************************************************)
(* Board: what a browser tab shows (web/static/app.js) of what the daemon  *)
(* commits, over the event broker (api/events.py), the WebSocket of        *)
(* api/app.py and the endpoints the tab fetches.                           *)
(*                                                                         *)
(* A transaction of any component changes what some endpoints return, and  *)
(* publishes an event before or after it commits.  Events may be dropped   *)
(* at a full queue, lost with a connection or stand for a change that is   *)
(* rolled back; answers may be overtaken by later ones.  What an endpoint  *)
(* returns is a version, the number of commits that changed it.            *)
(***************************************************************************)
EXTENDS Integers, Sequences, SequencesExt

CONSTANTS
  Nothing,      \* no transaction, no answer yet
  QueueMax,     \* _QUEUE_MAX
  MaxWire,      \* bound: messages sent to the tab and not yet handled
  MaxFetches,   \* bound: requests of the tab under way, the board counted twice
  MaxChanges,   \* bound: transactions
  MaxFailures   \* bound: requests that fail and connections that break

\* What the publishers send.  The tab has no case for merge_completed, po_task_admitted and
\* others: they are "unheard".
Types == {"instance_event", "task_transitioned", "instance_finalized",
          "discovered_item_promoted", "unheard"}

ASSUME BoardAssumption ==
  /\ QueueMax \in Nat \ {0} /\ MaxWire \in Nat \ {0} /\ MaxFetches \in Nat \ {0, 1}
  /\ MaxChanges \in Nat /\ MaxFailures \in Nat
  /\ Nothing \notin Nat
  /\ Nothing \notin [type : Types, n : Nat, committed : BOOLEAN, published : BOOLEAN]

VARIABLES
  db,         \* the version of each panel that the endpoints return
  writer,     \* the transaction under way: [event, committed, published], or Nothing
  changes,    \* number of transactions so far
  queue,      \* the broker's events
  connected,  \* the broker sends to the tab's socket
  socket,     \* the tab's view of its socket: "open" or "closed"
  wire,       \* messages on their way to the tab, in order
  scheduled,  \* refreshScheduled
  fetches,    \* the tab's requests: [panel, ver], ver Nothing until it is read
  shown,      \* the version of each panel the tab shows
  summary,    \* the number of the last progress event the tab shows
  failures    \* number of failures so far

serverVars == <<db, writer, changes>>
tabVars == <<socket, scheduled, fetches, shown, summary>>
boardVars == <<db, writer, changes, queue, connected, socket, wire, scheduled, fetches,
               shown, summary, failures>>

Panels == {"kanban", "discovery", "budget"}

\* The panels the change behind an event is in.
ChangedBy(type) ==
  CASE type = "instance_event"           -> {"kanban", "budget"}
    [] type = "discovered_item_promoted" -> {"kanban", "discovery"}
    [] OTHER                             -> {"kanban"}

BoardInit ==
  /\ db = [p \in Panels |-> 0]
  /\ writer = Nothing /\ changes = 0
  /\ queue = <<>>
  /\ connected = FALSE /\ socket = "closed"
  /\ wire = <<>>
  /\ scheduled = FALSE
  /\ fetches = <<[panel |-> "kanban", ver |-> Nothing]>>
  /\ shown = [p \in Panels |-> 0]
  /\ summary = 0
  /\ failures = 0

-----------------------------------------------------------------------------
(* The daemon *)

\* A transaction begins.
Begin(type) ==
  /\ writer = Nothing
  /\ changes < MaxChanges
  /\ changes' = changes + 1
  /\ writer' = [type |-> type, n |-> changes + 1, committed |-> FALSE, published |-> FALSE]
  /\ UNCHANGED <<db, queue, connected, wire, tabVars, failures>>

\* _persist_event publishes only what it has committed; others do either first.
CommitFirst == {"instance_event", "instance_finalized"}

\* publish_sync: at a full queue the event is dropped.
Offered(event) == IF Len(queue) < QueueMax THEN Append(queue, event) ELSE queue

Publish ==
  /\ writer # Nothing /\ ~writer.published
  /\ writer.type \in CommitFirst => writer.committed
  /\ queue' = Offered([type |-> writer.type, n |-> writer.n])
  /\ writer' = IF writer.committed THEN Nothing ELSE [writer EXCEPT !.published = TRUE]
  /\ UNCHANGED <<db, changes, connected, wire, tabVars, failures>>

\* The commit; a publisher that comes before it has published.
Commit ==
  /\ writer # Nothing /\ ~writer.committed
  /\ db' = [p \in Panels |-> IF p \in ChangedBy(writer.type) THEN db[p] + 1 ELSE db[p]]
  /\ writer' = IF writer.published THEN Nothing ELSE [writer EXCEPT !.committed = TRUE]
  /\ UNCHANGED <<changes, queue, connected, wire, tabVars, failures>>

\* The transaction is rolled back, its event published or not.
Rollback ==
  /\ writer # Nothing /\ ~writer.committed
  /\ writer' = Nothing
  /\ UNCHANGED <<db, changes, queue, connected, wire, tabVars, failures>>

\* Mutant: the newest event is taken first.
Newest(q) == Len(q)

\* asyncio.Queue is first in, first out.
Oldest(q) == 1

\* run_broadcaster: the event goes to the socket, if there is one.
Broadcast ==
  /\ queue # <<>>
  /\ connected => Len(wire) < MaxWire
  /\ wire' = IF connected THEN Append(wire, queue[Oldest(queue)]) ELSE wire
  /\ queue' = RemoveAt(queue, Oldest(queue))
  /\ UNCHANGED <<serverVars, connected, tabVars, failures>>

\* A send fails: the event is lost and the socket dropped, which the tab may not see.
DropDead ==
  /\ queue # <<>> /\ connected
  /\ failures < MaxFailures
  /\ failures' = failures + 1
  /\ connected' = FALSE
  /\ queue' = RemoveAt(queue, Oldest(queue))
  /\ UNCHANGED <<serverVars, wire, tabVars>>

-----------------------------------------------------------------------------
(* The tab *)

Request(p) == [panel |-> p, ver |-> Nothing]

\* The board is fetched after a delay; a refresh that is scheduled already is enough.
Schedule == scheduled' = TRUE

\* A request for the board stands for the two that follow it.
Load(requests) ==
  Len(requests) + Len(SelectSeq(requests, LAMBDA r : r.panel = "kanban"))

\* The tab makes a request, within the bound.
Retrieve(p) ==
  /\ Load(Append(fetches, Request(p))) <= MaxFetches
  /\ fetches' = Append(fetches, Request(p))

\* connectWS, at the start and 1.5 seconds after each close.
Connect ==
  /\ socket = "closed"
  /\ socket' = "open"
  /\ connected' = TRUE
  /\ wire' = <<>>
  /\ UNCHANGED <<serverVars, queue, scheduled, fetches, shown, summary, failures>>

\* broker.remove, at the end of the endpoint.
Removed == FALSE

\* The connection breaks; what was on its way is lost.
Disconnect ==
  /\ socket = "open"
  /\ failures < MaxFailures
  /\ failures' = failures + 1
  /\ socket' = "closed"
  /\ connected' = Removed
  /\ wire' = <<>>
  /\ UNCHANGED <<serverVars, queue, scheduled, fetches, shown, summary>>

Received(type) == wire # <<>> /\ Head(wire).type = type /\ wire' = Tail(wire)

\* ws.onmessage: the summary of an instance, and the budget panel.
OnInstanceEvent ==
  /\ Received("instance_event")
  /\ summary' = Head(wire).n
  /\ Retrieve("budget")
  /\ UNCHANGED <<serverVars, queue, connected, socket, scheduled, shown, failures>>

OnTransition ==
  /\ Received("task_transitioned")
  /\ Schedule
  /\ UNCHANGED <<serverVars, queue, connected, socket, fetches, shown, summary, failures>>

OnFinalized ==
  /\ Received("instance_finalized")
  /\ Schedule
  /\ Retrieve("budget")
  /\ UNCHANGED <<serverVars, queue, connected, socket, shown, summary, failures>>

OnDiscovery ==
  /\ Received("discovered_item_promoted")
  /\ Schedule
  /\ Retrieve("discovery")
  /\ UNCHANGED <<serverVars, queue, connected, socket, shown, summary, failures>>

OnUnheard ==
  /\ Received("unheard")
  /\ UNCHANGED <<serverVars, queue, connected, tabVars, failures>>

\* refresh, every five seconds: setInterval does not wait for the last one to end.
Poll ==
  /\ Retrieve("kanban")
  /\ UNCHANGED <<serverVars, queue, connected, wire, socket, scheduled, shown, summary,
                 failures>>

\* refresh, when the timer of scheduleRefresh fires.
ScheduledRefresh ==
  /\ scheduled
  /\ scheduled' = FALSE
  /\ Retrieve("kanban")
  /\ UNCHANGED <<serverVars, queue, connected, wire, socket, shown, summary, failures>>

\* An endpoint reads what is committed.
Read(i) ==
  /\ fetches[i].ver = Nothing
  /\ fetches' = [fetches EXCEPT ![i].ver = db[fetches[i].panel]]
  /\ UNCHANGED <<serverVars, queue, connected, wire, socket, scheduled, shown, summary,
                 failures>>

\* Mutant: the inbox is left to its events.
SettledButInbox(p) == IF p = "kanban" THEN <<Request("budget")>> ELSE <<>>

\* What refresh fetches when the board is there, or has failed.
Settled(p) ==
  IF p = "kanban" THEN <<Request("discovery"), Request("budget")>> ELSE <<>>

\* The request is over, and those that follow it are made.
Answered(i) == fetches' = RemoveAt(fetches, i) \o Settled(fetches[i].panel)

\* An answer is shown, whatever was asked or shown since.
Render(i) ==
  /\ fetches[i].ver # Nothing
  /\ Answered(i)
  /\ shown' = [shown EXCEPT ![fetches[i].panel] = fetches[i].ver]
  /\ UNCHANGED <<serverVars, queue, connected, wire, socket, scheduled, summary, failures>>

\* A request fails: the panel stays as it is.
FailFetch(i) ==
  /\ failures < MaxFailures
  /\ failures' = failures + 1
  /\ Answered(i)
  /\ UNCHANGED <<serverVars, queue, connected, wire, socket, scheduled, shown, summary>>

-----------------------------------------------------------------------------
OnMessage == OnInstanceEvent \/ OnTransition \/ OnFinalized \/ OnDiscovery \/ OnUnheard

BoardNext ==
  \/ \E type \in Types : Begin(type)
  \/ Publish \/ Commit \/ Rollback \/ Broadcast \/ DropDead
  \/ Connect \/ Disconnect \/ OnMessage \/ Poll \/ ScheduledRefresh
  \/ \E i \in DOMAIN fetches : Read(i) \/ Render(i) \/ FailFetch(i)

BoardSpec == BoardInit /\ [][BoardNext]_boardVars

\* A transaction ends, the tab polls, and the oldest request is read and answered.
Fairness ==
  /\ WF_boardVars(Commit) /\ WF_boardVars(Publish)
  /\ WF_boardVars(Poll)
  /\ WF_boardVars(fetches # <<>> /\ (Read(1) \/ Render(1)))

FairSpec == BoardSpec /\ Fairness

-----------------------------------------------------------------------------
(* Properties *)

Events == [type : Types, n : 1 .. MaxChanges]

\* The queue keeps its limit, and the broker sends only to a socket the tab has open.
BoardTypeOK ==
  /\ db \in [Panels -> 0 .. MaxChanges]
  /\ writer \in [type : Types, n : 1 .. MaxChanges, committed : BOOLEAN,
                 published : BOOLEAN] \cup {Nothing}
  /\ changes \in 0 .. MaxChanges
  /\ queue \in Seq(Events) /\ Len(queue) <= QueueMax
  /\ connected \in BOOLEAN /\ socket \in {"open", "closed"}
  /\ connected => socket = "open"
  /\ wire \in Seq(Events) /\ Len(wire) <= MaxWire
  /\ scheduled \in BOOLEAN
  /\ fetches \in Seq([panel : Panels, ver : (0 .. MaxChanges) \cup {Nothing}])
  /\ shown \in [Panels -> 0 .. MaxChanges]
  /\ summary \in 0 .. MaxChanges
  /\ failures \in 0 .. MaxFailures

\* "DB is always source of truth" (app.js:6): when nothing changes any more, every panel
\* ends up showing what is committed, whichever events were dropped, lost or published for
\* a change that was rolled back, and whichever answers came late.
Converges == <>[](shown = db)

\* The summary shown of an instance never goes back to an earlier event, across drops at
\* a full queue, dead sockets and reconnections.
SummaryInOrder == [][summary' >= summary]_boardVars
=============================================================================
