------------------------------ MODULE Console ------------------------------
(***************************************************************************)
(* One browser tab of the kanban at the hands of a person: the modal that  *)
(* shows a task and streams the events of its instance, the card and the   *)
(* toast that both offer to approve a return to dev, and the forms of the  *)
(* roles and the settings.  (Board has the board itself and its sources.)  *)
(* The tab is one thread, but every fetch is a request, a transaction of   *)
(* the server, and a handler that runs when the answer arrives, whatever   *)
(* the person has opened, pressed or typed since.  The transaction of the  *)
(* tasks and roles endpoints is that of deps.db_session, which commits     *)
(* once the answer has been sent: an answer "ok" precedes its commit, and  *)
(* the commit may fail.  A setting is committed before its answer.  A tab  *)
(* whose connection fails is told so while the server goes on.             *)
(* `clicks` bounds what the person does.                                   *)
(***************************************************************************)
EXTENDS Integers, FiniteSets, Sequences

CONSTANTS
    Tasks,       \* tasks with a live instance, shown on the board
    Panels,      \* the forms: a set of sets of fields, one PATCH per set
    Values,      \* what a field holds, None for an empty one
    SettingPanels,\* the panels that are settings; the others are roles
    Secrets,     \* fields shown as a blank, and stored encrypted
    EventKinds,  \* of events: where they show, a set of subsets of Places
    MaxClicks,   \* bound: clicks and edits of the person
    MaxEvents,   \* bound: events per instance
    MaxBlocks,   \* bound: times the task is blocked for approval
    MaxElsewhere,\* bound: saves of other clients
    None

Fields == UNION Panels

\* An event's type and text decide whether the details list it
\* (_DETAIL_EVENT_TYPES and a summary) and whether the live log shows it.
Places == {"details", "log"}

ASSUME ConsoleAssumption ==
    /\ MaxClicks \in Nat /\ MaxEvents \in Nat /\ MaxBlocks \in Nat /\ MaxElsewhere \in Nat
    /\ \A p, q \in Panels : p = q \/ p \cap q = {}
    /\ SettingPanels \subseteq Panels /\ Secrets \subseteq Fields
    /\ EventKinds \subseteq SUBSET Places
    /\ None \notin Values \cup Tasks

VARIABLES
    clicks,
    \* the modal
    modal,      \* [task, active, log, body]
    recorded,   \* the kinds of each instance's events in the database
    wire,       \* broadcast events on their way to the tab
    fetches,    \* /detail requests, in the server or on their way back
    gap,        \* history: events that came when there was no log, or never
    alone,      \* history: no other fetch was pending at the last open
    \* the approval of one task
    blocked,    \* the task awaits an approval
    block,      \* how often it has been blocked
    card,       \* [awaiting, enabled, offer], the card as last rendered
    toast,      \* "none", "ready" or "busy"
    requests,   \* those of the buttons: in the server, or the tab waits for them
    approvals,  \* history: dev jobs queued by an approval, per block
    raced,      \* history: blocks read by an approval while another's was open
    \* the forms
    stored,     \* the fields in the database
    form,       \* the inputs
    listeners,  \* click handlers on each panel's body
    saving,     \* panels whose button is disabled
    patches,    \* the saves: in the server, or the tab waits for them
    loads,
    saved,      \* history: what this tab last saved in each field
    contested,  \* history: fields somebody or something else wrote since
    elsewhere   \* saves of other clients so far

modalVars == <<modal, recorded, wire, fetches, gap, alone>>
blockVars == <<blocked, block, card, toast, requests, approvals, raced>>
formVars  == <<stored, form, listeners, saving, patches, loads, saved, contested, elsewhere>>
vars == <<clicks, modalVars, blockVars, formVars>>

Click == clicks < MaxClicks /\ clicks' = clicks + 1

-----------------------------------------------------------------------------
\* The task modal

NoLog == {<<None, 0>>}
NoBody == [task |-> None, upto |-> 0, events |-> {}]
Closed == [task |-> None, active |-> None, log |-> NoLog, body |-> NoBody]

\* Mutant of Opened: the log of the task that was open stays.
OpenedOverLog(t) == [Closed EXCEPT !.task = t, !.active = t, !.log = modal.log]

\* The card's instance is watched at once; the body is "fetching details".
Opened(t) == [Closed EXCEPT !.task = t, !.active = t]

Open(t) ==
    /\ Click
    /\ modal' = Opened(t)
    /\ fetches' = fetches \cup {[id |-> clicks, task |-> t, upto |-> -1, events |-> {}]}
    /\ alone' = (fetches = {})
    /\ gap' = {}
    /\ UNCHANGED <<recorded, wire, blockVars, formVars>>

\* Escape, the backdrop or the button.  The body stays in the hidden modal.
Close ==
    /\ Click
    /\ modal.task # None
    /\ modal' = [modal EXCEPT !.task = None, !.active = None, !.log = NoLog]
    /\ UNCHANGED <<recorded, wire, fetches, gap, alone, blockVars, formVars>>

\* The events of t that show in a place.
Listed(t, place) == {n \in DOMAIN recorded[t] : place \in recorded[t][n]}

\* GET /detail reads the events there are, and answers those that it lists.
ReadDetail(f) ==
    /\ f \in fetches /\ f.upto = -1
    /\ fetches' = (fetches \ {f}) \cup {[f EXCEPT !.upto = Len(recorded[f.task]),
                                                 !.events = Listed(f.task, "details")]}
    /\ UNCHANGED <<clicks, modal, recorded, wire, gap, alone, blockVars, formVars>>

\* The answer is rendered into whatever modal there is, and the section of
\* the live stream is that of the instance watched now.
Render(f) ==
    /\ f \in fetches /\ f.upto # -1
    /\ fetches' = fetches \ {f}
    /\ modal' = [modal EXCEPT !.body = [task |-> f.task, upto |-> f.upto, events |-> f.events],
                              !.log = IF modal.active = None THEN NoLog ELSE {}]
    /\ UNCHANGED <<clicks, recorded, wire, gap, alone, blockVars, formVars>>

\* The request fails: the modal says so.
FetchFails(f) ==
    /\ f \in fetches
    /\ fetches' = fetches \ {f}
    /\ modal' = [modal EXCEPT !.body = NoBody]
    /\ gap' = gap \cup modal.log
    /\ UNCHANGED <<clicks, recorded, wire, alone, blockVars, formVars>>

\* The agent's event is committed, then broadcast; a full queue drops it.
EventRecorded(t, kind) ==
    LET e == <<t, Len(recorded[t]) + 1>> IN
    /\ Len(recorded[t]) < MaxEvents
    /\ recorded' = [recorded EXCEPT ![t] = Append(@, kind)]
    /\ \/ wire' = Append(wire, e) /\ UNCHANGED gap
       \/ gap' = gap \cup {e} /\ UNCHANGED wire
    /\ UNCHANGED <<clicks, modal, fetches, alone, blockVars, formVars>>

\* pushLiveEvent skips the events that do not show in the log.
LogShows(e) == e[2] \in Listed(e[1], "log")

\* ws.onmessage: only the watched instance's events, only into a log.
Arrives ==
    LET e == Head(wire) IN
    /\ wire # <<>>
    /\ wire' = Tail(wire)
    /\ IF e[1] = modal.active /\ modal.log # NoLog
       THEN modal' = (IF LogShows(e) THEN [modal EXCEPT !.log = @ \cup {e}] ELSE modal)
            /\ UNCHANGED gap
       ELSE gap' = (IF e[1] = modal.active THEN gap \cup {e} ELSE gap) /\ UNCHANGED modal
    /\ UNCHANGED <<clicks, recorded, fetches, alone, blockVars, formVars>>

-----------------------------------------------------------------------------
\* Approving the return of a blocked task to dev

CardOf(b) == [awaiting |-> b, enabled |-> TRUE]

\* The bounce cap: the task is blocked and the toast shown, unless the event
\* is dropped or a toast for the task is up.
CapExceeded ==
    /\ ~blocked /\ block < MaxBlocks
    /\ blocked' = TRUE /\ block' = block + 1
    /\ toast' \in {toast, IF toast = "none" THEN "ready" ELSE toast}
    /\ UNCHANGED <<clicks, card, requests, approvals, raced, modalVars, formVars>>

\* A refresh builds every card anew, with buttons that are enabled; those
\* that await an answer are no longer on the page.
Detached(rs, from) == {[r EXCEPT !.from = IF @ = from THEN "gone" ELSE @] : r \in rs}

Refresh ==
    /\ card' = CardOf(blocked)
    /\ requests' = Detached(requests, "card")
    /\ UNCHANGED <<clicks, blocked, block, toast, approvals, raced, modalVars, formVars>>

Sent(from, what) == requests \cup
    {[id |-> clicks, from |-> from, what |-> what, stage |-> "sent", block |-> 0, waits |-> TRUE]}

\* The card offers to approve, or to advance and assign, as it was rendered.
PressCard ==
    /\ Click
    /\ card.enabled
    /\ card' = [card EXCEPT !.enabled = FALSE]
    /\ requests' = Sent("card", IF card.awaiting THEN "approve" ELSE "move")
    /\ UNCHANGED <<blocked, block, toast, approvals, raced, modalVars, formVars>>

PressToast ==
    /\ Click
    /\ toast = "ready"
    /\ toast' = "busy"
    /\ requests' = Sent("toast", "approve")
    /\ UNCHANGED <<blocked, block, card, approvals, raced, modalVars, formVars>>

\* Dismissed by the person or by its minute running out.
CloseToast ==
    /\ toast # "none"
    /\ toast' = "none"
    /\ requests' = Detached(requests, "toast")
    /\ UNCHANGED <<clicks, blocked, block, card, approvals, raced, modalVars, formVars>>

\* A request is over when the server is done with it and the tab has been told.
Kept(r) == IF r.waits \/ r.stage \in {"sent", "read", "answered"} THEN {r} ELSE {}
Becomes(r, s) == (requests \ {r}) \cup Kept(s)
At(r, stage) == Becomes(r, [r EXCEPT !.stage = stage])

\* Mutant of MayApprove: the endpoint does not look at the status.
MayApproveAlways(r) == TRUE
MayApprove(r) == blocked

\* The block an endpoint finds the task in, 0 for none.
BlockRead == IF blocked THEN block ELSE 0

\* An approval of the same block has been read by the server and not committed.
Open2nd(r) == \E q \in requests : /\ q.what = "approve" /\ q.stage \in {"read", "answered"}
                                  /\ q.block = BlockRead

\* The handler loads the task; an approval of one that is not blocked is a 409.
ServerReads(r) ==
    /\ r \in requests /\ r.stage = "sent"
    /\ IF r.what = "move" \/ MayApprove(r)
       THEN /\ requests' = Becomes(r, [r EXCEPT !.stage = "read", !.block = BlockRead])
            /\ raced' = IF r.what = "approve" /\ Open2nd(r) THEN raced \cup {BlockRead} ELSE raced
       ELSE requests' = At(r, "refused") /\ UNCHANGED raced
    /\ UNCHANGED <<clicks, blocked, block, card, toast, approvals, modalVars, formVars>>

\* It writes the task, whose row an approval keeps locked until it commits, and
\* returns: the answer is sent with the transaction still open.
ServerAnswers(r) ==
    /\ r \in requests /\ r.stage = "read"
    /\ r.what = "approve" =>
          \A q \in requests : ~(q.what = "approve" /\ q.stage = "answered")
    /\ requests' = At(r, "answered")
    /\ UNCHANGED <<clicks, blocked, block, card, toast, approvals, raced, modalVars, formVars>>

\* db_session commits: an approval ends the block and adds the dev job; a move
\* ends it if it writes a status, by primary key, whatever the block is by now.
ServerCommits(r) ==
    /\ r \in requests /\ r.stage = "answered"
    /\ \/ /\ r.what = "approve"
          /\ blocked' = FALSE
          /\ approvals' = [approvals EXCEPT ![r.block] = @ + 1]
       \/ /\ r.what = "move"
          /\ blocked' \in {blocked, FALSE}
          /\ UNCHANGED approvals
    /\ requests' = At(r, "over")
    /\ UNCHANGED <<clicks, block, card, toast, raced, modalVars, formVars>>

\* The request does not arrive or its handler raises; or, once it was
\* answered, the commit does.  Either way it is rolled back.
ServerFails(r) ==
    /\ r \in requests
    /\ \/ r.stage \in {"sent", "read"} /\ requests' = At(r, "refused")
       \/ r.stage = "answered" /\ requests' = At(r, "over")
    /\ UNCHANGED <<clicks, blocked, block, card, toast, approvals, raced, modalVars, formVars>>

\* The tab is told, or its connection fails: if the button that was pressed is
\* still there, a toast goes after an ok and a refused press is offered again.
Told(r, ok) ==
    /\ r.waits
    /\ requests' = Becomes(r, [r EXCEPT !.waits = FALSE])
    /\ card' = IF r.from = "card" /\ ~ok THEN [card EXCEPT !.enabled = TRUE] ELSE card
    /\ toast' = IF r.from # "toast" THEN toast ELSE IF ok THEN "none" ELSE "ready"
    /\ UNCHANGED <<clicks, blocked, block, approvals, raced, modalVars, formVars>>

Answered(r) ==
    /\ r \in requests
    /\ r.stage \in {"answered", "over"} /\ Told(r, TRUE)

Unanswered(r) == r \in requests /\ Told(r, FALSE)

-----------------------------------------------------------------------------
\* The forms of roles and settings

Shown(row) == [f \in Fields |-> IF f \in Secrets THEN None ELSE row[f]]

\* load(): the list is fetched, and rendering it refills every input of the
\* panel and adds one more click handler to the body that stays.
Load(p, id) == [id |-> id, panel |-> p, row |-> None]

ReadList(l) ==
    /\ l \in loads /\ l.row = None
    /\ loads' = (loads \ {l}) \cup {[l EXCEPT !.row = stored]}
    /\ UNCHANGED <<clicks, modalVars, blockVars, stored, form, listeners, saving, patches, saved,
                   contested, elsewhere>>

RenderForm(l) ==
    /\ l \in loads /\ l.row # None
    /\ loads' = loads \ {l}
    /\ form' = [f \in Fields |-> IF f \in l.panel THEN Shown(l.row)[f] ELSE form[f]]
    /\ listeners' = [listeners EXCEPT ![l.panel] = @ + 1]
    /\ saving' = saving \ {l.panel}
    /\ UNCHANGED <<clicks, modalVars, blockVars, stored, patches, saved, contested, elsewhere>>

Edit(f, v) ==
    /\ Click
    /\ form[f] # v
    /\ form' = [form EXCEPT ![f] = v]
    /\ UNCHANGED <<modalVars, blockVars, stored, listeners, saving, patches, loads, saved,
                   contested, elsewhere>>

\* One click, one request from each handler, and the button is disabled.
Sends(p, row) ==
    /\ p \notin saving /\ listeners[p] > 0
    /\ saving' = saving \cup {p}
    /\ patches' = patches \cup {[id |-> <<clicks, n>>, panel |-> p, row |-> row, seen |-> None,
                                 stage |-> "sent", waits |-> TRUE] : n \in 1..listeners[p]}
    /\ saved' = [f \in Fields |-> IF f \in p THEN <<row[f]>> ELSE saved[f]]
    /\ contested' = IF \E q \in patches : q.panel = p THEN contested \cup p ELSE contested \ p
    /\ UNCHANGED <<modalVars, blockVars, stored, form, listeners, loads, elsewhere>>

\* The PATCH carries every field of the panel as the inputs show it.
Save(p) == Click /\ Sends(p, form)

\* A setting is reset: its row is deleted.
Reset(p) ==
    /\ Click
    /\ p \in SettingPanels
    /\ Sends(p, [f \in Fields |-> None])

PatchKept(q) == IF q.waits \/ q.stage \in {"sent", "read", "flushed"} THEN {q} ELSE {}
PatchBecomes(q, r) == patches' = (patches \ {q}) \cup PatchKept(r)

UnchangedByServer == UNCHANGED <<clicks, modalVars, blockVars, form, listeners, saving, loads,
                                 saved, elsewhere>>

\* The handler reads the row.
PatchReads(q) ==
    /\ q \in patches /\ q.stage = "sent"
    /\ PatchBecomes(q, [q EXCEPT !.stage = "read", !.seen = stored])
    /\ UNCHANGED <<stored, contested>>
    /\ UnchangedByServer

\* Mutant of Written: a field left empty is taken for one not sent.
WrittenIfNonEmpty(q) == {f \in q.panel : q.row[f] # None /\ q.row[f] # q.seen[f]}

\* The columns of its UPDATE: those set to another value than was read.  A
\* secret set again has another ciphertext.
Written(q) == {f \in q.panel : q.row[f] # q.seen[f] \/ (f \in Secrets /\ q.row[f] # None)}

\* The row is locked by an UPDATE that is not committed.
RowLocked(p) == \E q \in patches : q.panel = p /\ q.stage = "flushed" /\ Written(q) # {}

\* The UPDATE, if there is anything to write, and the handler returns.
PatchFlushes(q) ==
    /\ q \in patches /\ q.stage = "read"
    /\ Written(q) # {} => ~RowLocked(q.panel)
    /\ PatchBecomes(q, [q EXCEPT !.stage = "flushed"])
    /\ UNCHANGED <<stored, contested>>
    /\ UnchangedByServer

PatchCommits(q) ==
    /\ q \in patches /\ q.stage = "flushed"
    /\ stored' = [f \in Fields |-> IF f \in Written(q) THEN q.row[f] ELSE stored[f]]
    /\ PatchBecomes(q, [q EXCEPT !.stage = "over"])
    /\ UNCHANGED contested
    /\ UnchangedByServer

\* The request does not arrive, its handler or its commit raises.
PatchDies(q) ==
    /\ q \in patches /\ q.stage \in {"sent", "read", "flushed"}
    /\ PatchBecomes(q, [q EXCEPT !.stage = IF @ = "flushed" /\ q.panel \notin SettingPanels
                                            THEN "over" ELSE "refused"])
    /\ contested' = contested \cup q.panel
    /\ UNCHANGED stored
    /\ UnchangedByServer

PatchTold(q) ==
    /\ q \in patches /\ q.waits
    /\ PatchBecomes(q, [q EXCEPT !.waits = FALSE])
    /\ UNCHANGED <<clicks, modalVars, blockVars, stored, form, listeners, saved, contested,
                   elsewhere>>

\* The answer ok, which a role's save gives before it commits: the panel is
\* loaded again.
PatchAnswered(q) ==
    /\ PatchTold(q)
    /\ q.stage = "over" \/ (q.stage = "flushed" /\ q.panel \notin SettingPanels)
    /\ loads' = loads \cup {Load(q.panel, q.id)}
    /\ UNCHANGED saving

\* The answer is an error or the connection fails, and the button comes back.  A
\* setting is loaded again also after a reset that was refused.
PatchUnanswered(q) ==
    /\ PatchTold(q)
    /\ saving' = saving \ {q.panel}
    /\ loads' \in {loads, IF q.panel \in SettingPanels THEN loads \cup {Load(q.panel, q.id)}
                                                       ELSE loads}

\* Another tab, the CLI or a script writes a field.
SavedElsewhere(f, v) ==
    /\ elsewhere < MaxElsewhere
    /\ elsewhere' = elsewhere + 1
    /\ stored' = [stored EXCEPT ![f] = v]
    /\ contested' = contested \cup {f}
    /\ UNCHANGED <<clicks, modalVars, blockVars, form, listeners, saving, patches, loads, saved>>

-----------------------------------------------------------------------------
Init ==
    /\ clicks = 0
    /\ modal = Closed /\ recorded = [t \in Tasks |-> <<>>] /\ wire = <<>>
    /\ fetches = {} /\ gap = {} /\ alone = TRUE
    /\ blocked = FALSE /\ block = 0 /\ card = CardOf(FALSE) /\ toast = "none"
    /\ requests = {} /\ approvals = [b \in 0..MaxBlocks |-> 0] /\ raced = {}
    /\ stored \in [Fields -> Values] /\ form = [f \in Fields |-> None]
    /\ listeners = [p \in Panels |-> 0] /\ saving = {} /\ patches = {}
    /\ loads = {Load(p, <<0, 0>>) : p \in Panels}
    /\ saved = [f \in Fields |-> <<>>] /\ contested = {} /\ elsewhere = 0

ModalNext ==
    \/ \E t \in Tasks : Open(t) \/ \E kind \in EventKinds : EventRecorded(t, kind)
    \/ \E f \in fetches : ReadDetail(f) \/ Render(f) \/ FetchFails(f)
    \/ Close \/ Arrives

BlockNext ==
    \/ CapExceeded \/ Refresh \/ PressCard \/ PressToast \/ CloseToast
    \/ \E r \in requests :
          \/ ServerReads(r) \/ ServerAnswers(r) \/ ServerCommits(r) \/ ServerFails(r)
          \/ Answered(r) \/ Unanswered(r)

FormNext ==
    \/ \E l \in loads : ReadList(l) \/ RenderForm(l)
    \/ \E f \in Fields, v \in Values \cup {None} : Edit(f, v) \/ SavedElsewhere(f, v)
    \/ \E p \in Panels : Save(p) \/ Reset(p)
    \/ \E q \in patches :
          \/ PatchReads(q) \/ PatchFlushes(q) \/ PatchCommits(q) \/ PatchDies(q)
          \/ PatchAnswered(q) \/ PatchUnanswered(q)

Next == ModalNext \/ BlockNext \/ FormNext

Spec == Init /\ [][Next]_vars

-----------------------------------------------------------------------------
Events == Tasks \X (1..MaxEvents)
Onway == {wire[i] : i \in DOMAIN wire}

\* Every variable has its type, and a log is only kept for a watched instance.
TypeOK ==
    /\ clicks \in 0..MaxClicks /\ elsewhere \in 0..MaxElsewhere
    /\ modal.task \in Tasks \cup {None} /\ modal.active = modal.task
    /\ \/ modal.log = NoLog
       \/ modal.active # None /\ modal.log \subseteq {modal.active} \X (1..MaxEvents)
    /\ \A e \in Tasks : recorded[e] \in Seq(EventKinds) /\ Len(recorded[e]) <= MaxEvents
    /\ recorded = [t \in Tasks |-> recorded[t]] /\ wire \in Seq(Events)
    /\ fetches \subseteq [id : 0..MaxClicks, task : Tasks, upto : -1..MaxEvents,
                          events : SUBSET (1..MaxEvents)]
    /\ block \in 0..MaxBlocks /\ blocked \in BOOLEAN /\ toast \in {"none", "ready", "busy"}
    /\ requests \subseteq [id : 0..MaxClicks, from : {"card", "toast", "gone"},
                           what : {"approve", "move"}, block : 0..MaxBlocks,
                           stage : {"sent", "read", "answered", "over", "refused"},
                           waits : BOOLEAN]
    /\ {stored, form} \subseteq [Fields -> Values \cup {None}]
    /\ listeners \in [Panels -> Nat] /\ saving \subseteq Panels

\* The modal shows the task that was opened, once its details are there, if
\* no earlier fetch was still pending when it was opened.  Every event of its
\* instance recorded before the details were read is among them if it is one
\* they list, and every later one is in the live log or on its way if it is one
\* that shows there, unless it was dropped or came while there was no log.
ModalTrue ==
    (modal.task # None /\ modal.body.task # None /\ alone) =>
        /\ modal.body.task = modal.task
        /\ \A n \in DOMAIN recorded[modal.task] :
              IF n <= modal.body.upto
              THEN n \in Listed(modal.task, "details") => n \in modal.body.events
              ELSE n \in Listed(modal.task, "log") =>
                      <<modal.task, n>> \in modal.log \cup Onway \cup gap

\* A block is approved once, whatever card, toast or refreshed card it is
\* pressed on and whatever the tab has been told, unless an approval read the
\* block before another one of it had committed; and without a block nothing is.
ApprovedOnce ==
    \A b \in 0..MaxBlocks : b \in raced \/ approvals[b] <= (IF b = 0 THEN 0 ELSE 1)

\* What this tab saved last is what is stored, once its requests are over in the
\* server too, unless one failed there, another client wrote the field since, or
\* the save was sent while an earlier one of the panel was not over, though the
\* tab may have been told that it was.
LastSaveStored ==
    \A f \in Fields :
        (saved[f] # <<>> /\ f \notin contested /\ \A q \in patches : f \notin q.panel)
            => stored[f] = saved[f][1]

=============================================================================
