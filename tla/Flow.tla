-------------------------------- MODULE Flow ---------------------------------
(***************************************************************************)
(* Flow: the time a human tracks with the CLI (cli/dev.py, review, test,   *)
(* block, interrupt, deploy, incident), beside the sessions and incidents  *)
(* of the agents in the same tables, and the time a report makes of them   *)
(* (services/report_service.py).                                           *)
(*                                                                         *)
(* A command is one transaction: it reads when it begins, with the clock,  *)
(* and writes when it commits; `end` talks to GitHub and Jira in between.  *)
(* What two statements of one command read is read at once: a commit       *)
(* between them has the effect of one before both or after both.  Pause    *)
(* and resume events, which nothing reads, are left out.                   *)
(***************************************************************************)
EXTENDS Integers, Sequences, FiniteSets, FiniteSetsExt

CONSTANTS
  Null,          \* no session, no deployment, not ended, no command
  Terminals,     \* where commands run
  Period,        \* days of a report
  MaxTime,       \* bound: the clock, in days
  MaxCommands,   \* bound: commands begun
  MaxAgents      \* bound: what agents and the pipeline begin

ASSUME FlowAssumption ==
  /\ Period \in Nat \ {0}
  /\ MaxTime \in Nat /\ MaxCommands \in Nat /\ MaxAgents \in Nat
  /\ Null \notin Nat

VARIABLES
  now,          \* the clock
  sessions,     \* table of [owner, status, began, ended]
  events,       \* table of [session, kind, began, ended]
  deployments,  \* table of [session, at]
  incidents,    \* table of [owner, deployment, began, ended]
  commands,     \* the command under way in each terminal, or Null
  begun,        \* number of commands so far
  agents,       \* number of what they have begun so far
  races         \* history: commits of commands that another command overtook

tables == <<sessions, events, deployments, incidents>>
counters == <<begun, agents, races>>
flowVars == <<now, tables, commands, counters>>

Kinds == {"block", "interrupt"}

FlowInit ==
  /\ now = 0
  /\ sessions = <<>> /\ events = <<>> /\ deployments = <<>> /\ incidents = <<>>
  /\ commands = [t \in Terminals |-> Null]
  /\ begun = 0 /\ agents = 0 /\ races = 0

-----------------------------------------------------------------------------
(* What commands read *)

\* SessionRepository.get_active returns any of these.
Active == {s \in DOMAIN sessions : sessions[s].status # "ended" /\ sessions[s].owner = "human"}

\* EventRepository.get_active_by_type returns any of these.
OpenEvents(s, kind) ==
  {e \in DOMAIN events : events[e].session = s /\ events[e].kind = kind /\ events[e].ended = Null}

\* .order_by(started_at.desc())
LastIncident(open) == {i \in open : \A j \in open : incidents[j].began <= incidents[i].began}

\* IncidentRepository.get_active: of those a human opened, one that began last.
OpenIncidents ==
  LastIncident({i \in DOMAIN incidents : incidents[i].ended = Null /\ incidents[i].owner = "human"})

\* DeploymentRepository.get_latest, of the human and of the merge stage alike.
LatestDeployments ==
  {d \in DOMAIN deployments : \A x \in DOMAIN deployments : deployments[x].at <= deployments[d].at}

\* .first(): one of them, Null if there is none.
First(found) == IF found = {} THEN {Null} ELSE found

-----------------------------------------------------------------------------
(* A command begins: what it reads decides what it will write.  One that    *)
(* finds its precondition broken says so and changes nothing.               *)

Command(op, kind, session, rows) ==
  [op |-> op, kind |-> kind, session |-> session, rows |-> rows, at |-> now,
   overtaken |-> FALSE]

Begin(t, command) ==
  /\ commands[t] = Null
  /\ begun < MaxCommands
  /\ begun' = begun + 1
  /\ commands' = [commands EXCEPT ![t] = command]
  /\ UNCHANGED <<now, tables, agents, races>>

StartSession(t) ==
  /\ Active = {}
  /\ Begin(t, Command("start", Null, Null, {}))

\* Mutant: only the block is closed.
ClosedBlocks(s) == {{b} \ {Null} : b \in First(OpenEvents(s, "block"))}

\* The open block and the open interrupt of the session are closed with it.
ClosedWith(s) ==
  {{b, i} \ {Null} : b \in First(OpenEvents(s, "block")), i \in First(OpenEvents(s, "interrupt"))}

EndSession(t) ==
  \E s \in Active : \E rows \in ClosedWith(s) : Begin(t, Command("end", Null, s, rows))

Pause(t) ==
  \E s \in Active :
    /\ sessions[s].status = "active"
    /\ Begin(t, Command("pause", Null, s, {}))

Resume(t) ==
  \E s \in Active :
    /\ sessions[s].status = "paused"
    /\ Begin(t, Command("resume", Null, s, {}))

\* A block may start while an interrupt is open, and either in a paused session.
StartEvent(t, kind) ==
  \E s \in Active :
    /\ OpenEvents(s, kind) = {}
    /\ Begin(t, Command("open", kind, s, {}))

EndEvent(t, kind) ==
  \E s \in Active : \E e \in OpenEvents(s, kind) :
    Begin(t, Command("close", kind, s, {e}))

\* record_deploy: the session, if one is active, lends its ticket and pull request.
RecordDeploy(t) ==
  \E s \in First(Active) : Begin(t, Command("deploy", Null, s, {}))

\* An incident is one of the latest deployment.
StartIncident(t) ==
  \E d \in First(LatestDeployments) : Begin(t, Command("incident", Null, Null, {d} \ {Null}))

EndIncident(t) ==
  \E i \in OpenIncidents : Begin(t, Command("resolve", Null, Null, {i}))

-----------------------------------------------------------------------------
(* A command commits *)

Session(owner, at) == [owner |-> owner, status |-> "active", began |-> at, ended |-> Null]

\* Mutant: the session is ended at no time.
EndSessionRowUntimed(c) == [sessions EXCEPT ![c.session].status = "ended"]

\* SessionRepository.end and EventRepository.end set the time, ended or not.
EndSessionRow(c) ==
  [sessions EXCEPT ![c.session].status = "ended", ![c.session].ended = c.at]

EndEventRows(c) ==
  [e \in DOMAIN events |-> IF e \in c.rows THEN [events[e] EXCEPT !.ended = c.at] ELSE events[e]]

NewEvent(c) == [session |-> c.session, kind |-> c.kind, began |-> c.at, ended |-> Null]

NewIncident(owner, deployment, at) ==
  [owner |-> owner, deployment |-> deployment, began |-> at, ended |-> Null]

\* Rows are updated by key: what another command made of them since is not looked at.
Write(c) ==
  /\ sessions' = CASE c.op = "start"  -> Append(sessions, Session("human", c.at))
                   [] c.op = "end"    -> EndSessionRow(c)
                   [] c.op = "pause"  -> [sessions EXCEPT ![c.session].status = "paused"]
                   [] c.op = "resume" -> [sessions EXCEPT ![c.session].status = "active"]
                   [] OTHER           -> sessions
  /\ events' = CASE c.op = "open"             -> Append(events, NewEvent(c))
                 [] c.op \in {"end", "close"} -> EndEventRows(c)
                 [] OTHER                     -> events
  /\ deployments' = IF c.op = "deploy"
                    THEN Append(deployments, [session |-> c.session, at |-> c.at])
                    ELSE deployments
  /\ incidents' = CASE c.op = "incident" ->
                         Append(incidents,
                                NewIncident("human", CHOOSE d \in First(c.rows) : TRUE, c.at))
                    [] c.op = "resolve"  ->
                         [i \in DOMAIN incidents |->
                            IF i \in c.rows THEN [incidents[i] EXCEPT !.ended = c.at]
                            ELSE incidents[i]]
                    [] OTHER             -> incidents

Commit(t) ==
  /\ commands[t] # Null
  /\ Write(commands[t])
  /\ races' = races + IF commands[t].overtaken THEN 1 ELSE 0
  /\ commands' = [u \in Terminals |->
                    CASE u = t              -> Null
                      [] commands[u] = Null -> Null
                      [] OTHER              -> [commands[u] EXCEPT !.overtaken = TRUE]]
  /\ UNCHANGED <<now, begun, agents>>

\* A comment cannot be posted but for an error of HTTP, or the command is interrupted:
\* get_db rolls back.
Abort(t) ==
  /\ commands[t] # Null
  /\ commands' = [commands EXCEPT ![t] = Null]
  /\ UNCHANGED <<now, tables, counters>>

-----------------------------------------------------------------------------
(* Agents and the pipeline *)

\* What they begin is counted; what is begun may end.
AgentBegins ==
  /\ agents < MaxAgents
  /\ agents' = agents + 1
  /\ UNCHANGED <<now, commands, begun, races>>

\* _mark_running creates the session of its instance.
AgentStarts ==
  /\ AgentBegins
  /\ sessions' = Append(sessions, Session("agent", now))
  /\ UNCHANGED <<events, deployments, incidents>>

\* end_for_instance, by the spawner or by the watchdog.
AgentEnds(s) ==
  /\ sessions[s].owner = "agent" /\ sessions[s].status # "ended"
  /\ sessions' = [sessions EXCEPT ![s].status = "ended", ![s].ended = now]
  /\ UNCHANGED <<now, events, deployments, incidents, commands, counters>>

\* The merge stage records its deployment, with no session.
AgentDeploys ==
  /\ AgentBegins
  /\ deployments' = Append(deployments, [session |-> Null, at |-> now])
  /\ UNCHANGED <<sessions, events, incidents>>

\* open_pipeline_incident: not one of a deployment.
OpenPipelineIncident ==
  /\ AgentBegins
  /\ incidents' = Append(incidents, NewIncident("pipeline", Null, now))
  /\ UNCHANGED <<sessions, events, deployments>>

\* resolve_pipeline_incidents of the one task there is.
ResolvePipelineIncidents ==
  /\ \E i \in DOMAIN incidents : incidents[i].owner = "pipeline" /\ incidents[i].ended = Null
  /\ incidents' = [i \in DOMAIN incidents |->
                     IF incidents[i].owner = "pipeline" /\ incidents[i].ended = Null
                     THEN [incidents[i] EXCEPT !.ended = now] ELSE incidents[i]]
  /\ UNCHANGED <<now, sessions, events, deployments, commands, counters>>

Tick ==
  /\ now < MaxTime
  /\ now' = now + 1
  /\ UNCHANGED <<tables, commands, counters>>

Agents ==
  \/ AgentStarts \/ AgentDeploys \/ OpenPipelineIncident \/ ResolvePipelineIncidents
  \/ \E s \in DOMAIN sessions : AgentEnds(s)

FlowNext ==
  \/ Tick \/ Agents
  \/ \E t \in Terminals :
       \/ StartSession(t) \/ EndSession(t) \/ Pause(t) \/ Resume(t)
       \/ \E kind \in Kinds : StartEvent(t, kind) \/ EndEvent(t, kind)
       \/ RecordDeploy(t) \/ StartIncident(t) \/ EndIncident(t)
       \/ Commit(t) \/ Abort(t)

FlowSpec == FlowInit /\ [][FlowNext]_flowVars

-----------------------------------------------------------------------------
(* The report *)

EndOf(row) == IF row.ended = Null THEN now ELSE row.ended

Duration(row) == EndOf(row) - row.began

\* list_by_period, up to now.
InPeriod(table) == {x \in DOMAIN table : now - Period <= table[x].began /\ table[x].began < now}

\* Mutant: what is still open counts for nothing.
TotalTimeOfEnded ==
  MapThenSumSet(LAMBDA s : Duration(sessions[s]),
                {s \in InPeriod(sessions) : sessions[s].ended # Null})

TotalTime == MapThenSumSet(LAMBDA s : Duration(sessions[s]), InPeriod(sessions))

TimeIn(kind) ==
  MapThenSumSet(LAMBDA e : Duration(events[e]), {e \in InPeriod(events) : events[e].kind = kind})

ActiveTime == TotalTime - TimeIn("block") - TimeIn("interrupt")

-----------------------------------------------------------------------------
(* Properties *)

Times == 0 .. now

\* Rows refer to rows that exist and end when they are said to have, commands run at
\* their time.
FlowTypeOK ==
  /\ now \in 0 .. MaxTime /\ begun \in 0 .. MaxCommands /\ agents \in 0 .. MaxAgents
  /\ races \in 0 .. begun
  /\ \A s \in DOMAIN sessions :
       /\ sessions[s].owner \in {"human", "agent"}
       /\ sessions[s].status \in {"active", "paused", "ended"}
       /\ sessions[s].began \in Times /\ sessions[s].ended \in Times \cup {Null}
       /\ sessions[s].status = "ended" => sessions[s].ended # Null
  /\ \A e \in DOMAIN events :
       /\ events[e].session \in DOMAIN sessions /\ events[e].kind \in Kinds
       /\ events[e].began \in Times /\ events[e].ended \in Times \cup {Null}
  /\ \A d \in DOMAIN deployments :
       deployments[d].session \in DOMAIN sessions \cup {Null} /\ deployments[d].at \in Times
  /\ \A i \in DOMAIN incidents :
       /\ incidents[i].owner \in {"human", "pipeline"}
       /\ incidents[i].deployment \in DOMAIN deployments \cup {Null}
       /\ incidents[i].began \in Times /\ incidents[i].ended \in Times \cup {Null}
  /\ \A t \in Terminals : commands[t] # Null => commands[t].at \in Times

Apart(x, y) == EndOf(x) <= y.began \/ EndOf(y) <= x.began

\* What a human tracks nests, if no command committed on a read that another overtook:
\* sessions do not overlap, an event lies in its session and does not outlive it, events
\* of a kind do not overlap, a deployment lies in its session and an incident comes after
\* its deployment.  Every race leaves at most one more session active.
Nested ==
  /\ Cardinality(Active) <= 1 + races
  /\ races = 0 =>
       /\ \A r, s \in DOMAIN sessions :
            sessions[r].owner = "human" /\ sessions[s].owner = "human" /\ r # s =>
              Apart(sessions[r], sessions[s])
       /\ \A e \in DOMAIN events :
            LET s == sessions[events[e].session]
            IN  /\ s.began <= events[e].began
                /\ s.status = "ended" => events[e].ended # Null /\ events[e].ended <= s.ended
       /\ \A e, f \in DOMAIN events :
            events[e].session = events[f].session /\ events[e].kind = events[f].kind /\ e # f =>
              Apart(events[e], events[f])
       /\ \A d \in DOMAIN deployments :
            deployments[d].session # Null =>
              LET s == sessions[deployments[d].session]
              IN  s.began <= deployments[d].at /\ deployments[d].at <= EndOf(s)
       /\ \A i \in DOMAIN incidents :
            incidents[i].deployment # Null =>
              deployments[incidents[i].deployment].at <= incidents[i].began

\* The time of the period's events in sessions that began before the period.
Outside ==
  MapThenSumSet(LAMBDA e : Duration(events[e]),
                {e \in InPeriod(events) : events[e].session \notin InPeriod(sessions)})

LaterOf(a, b) == IF a < b THEN b ELSE a
EarlierOf(a, b) == IF a < b THEN a ELSE b

\* The time that is in a block and in an interrupt of the same session.
Twice ==
  LET Shared(p) == LaterOf(0, EarlierOf(EndOf(events[p[1]]), EndOf(events[p[2]]))
                                - LaterOf(events[p[1]].began, events[p[2]].began))
  IN  MapThenSumSet(Shared, {p \in InPeriod(events) \X InPeriod(events) :
        /\ events[p[1]].kind = "block" /\ events[p[2]].kind = "interrupt"
        /\ events[p[1]].session = events[p[2]].session})

\* The active time of a report, which its ratios are made of, is negative only by what the
\* report takes off twice and by the events of sessions it does not count.
ActiveTimeAccounted == races = 0 => ActiveTime + Outside + Twice >= 0
=============================================================================
