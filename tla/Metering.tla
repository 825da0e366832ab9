------------------------------ MODULE Metering -------------------------------
(***************************************************************************)
(* Metering: what the agents cost, read from the events they print         *)
(* (orchestrator/stream_parser.py), added up in windows of time            *)
(* (orchestrator/budget.py), and the gate that stops new claims when a     *)
(* window is full (orchestrator/loop.py).                                  *)
(*                                                                         *)
(* A turn prints an event whose tokens are priced by a table, and the last *)
(* event may carry what the agent really cost.  Events are persisted one   *)
(* by one, each in a transaction; those that are not read two seconds      *)
(* after the agent exits are lost, and so is one whose transaction fails.  *)
(* Time is the number of the hour; the month is a longer day that gates    *)
(* nothing, and is left out.                                               *)
(***************************************************************************)
EXTENDS Integers, Sequences, FiniteSets, FiniteSetsExt

CONSTANTS
  NoEvent,       \* no event being persisted
  Instances,
  Slots,         \* max_concurrent_instances
  Hours,         \* hours of a day
  Caps,          \* budget_hour_cap_usd and budget_day_cap_usd
  PipeMax,       \* events that wait in the pipe and in the reader's buffer
  MaxTurns,      \* bound: turns of an agent
  MaxCost,       \* bound: cost of a turn, estimated or real
  MaxCalls,      \* bound: recorded calls of the PM agent
  MaxHour,       \* bound: the clock
  MaxFaults      \* bound: transactions and reads that fail

Kinds == {"hour", "day"}

ASSUME MeteringAssumption ==
  /\ Slots \in Nat \ {0} /\ Hours \in Nat \ {0} /\ PipeMax \in Nat \ {0}
  /\ Caps \in [Kinds -> Nat]
  /\ MaxTurns \in Nat /\ MaxCost \in Nat /\ MaxCalls \in Nat /\ MaxHour \in Nat
  /\ MaxFaults \in Nat
  /\ IsFiniteSet(Instances)

VARIABLES
  hour,        \* the clock
  windows,     \* budget_windows: cost by kind and number of the window
  gate,        \* the loop has seen the gate open and is about to claim
  phase,       \* "none", "running", "exited" or "ended" of each instance
  pipe,        \* events an agent has printed and nobody has read
  reading,     \* the consumer of the instance is at work
  persisting,  \* the event being persisted, with the hour it began in, or NoEvent
  cost,        \* instances.cost_usd
  turns,       \* turns of each agent so far
  calls,       \* calls of the PM agent so far
  faults,      \* number of faults so far
  \* history, read by properties only
  spent,       \* what each agent really cost
  recorded,    \* what each instance has added to the windows
  settled,     \* the event with the real cost has been persisted
  late         \* persisted after the instance was finalized

agentVars == <<phase, pipe, reading, turns, spent>>
historyVars == <<recorded, settled, late>>
meteringVars == <<hour, windows, gate, persisting, cost, calls, faults, agentVars, historyVars>>

\* _truncate
Window(kind, h) == IF kind = "hour" THEN h ELSE h \div Hours

MeteringInit ==
  /\ hour = 0
  /\ windows = [k \in Kinds |-> [n \in 0 .. MaxHour |-> 0]]
  /\ gate = FALSE
  /\ phase = [i \in Instances |-> "none"]
  /\ pipe = [i \in Instances |-> <<>>]
  /\ reading = [i \in Instances |-> FALSE]
  /\ persisting = [i \in Instances |-> NoEvent]
  /\ cost = [i \in Instances |-> 0]
  /\ turns = [i \in Instances |-> 0]
  /\ calls = 0 /\ faults = 0
  /\ spent = [i \in Instances |-> 0]
  /\ recorded = [i \in Instances |-> 0]
  /\ settled = [i \in Instances |-> FALSE]
  /\ late = {}

-----------------------------------------------------------------------------
(* The gate and the claim *)

\* Supervisors the loop has not seen end.
InFlight == {i \in Instances : phase[i] \in {"running", "exited"}}

\* Mutant: the windows of one kind only.
IsBlockedByDay == Caps["day"] > 0 /\ windows["day"][Window("day", hour)] >= Caps["day"]

\* is_blocked: a cap of 0 is none.
IsBlocked ==
  \E k \in Kinds : Caps[k] > 0 /\ windows[k][Window(k, hour)] >= Caps[k]

\* Other transactions may commit between the query of the gate and the claim.
PassGate ==
  /\ ~gate
  /\ Cardinality(InFlight) < Slots
  /\ ~IsBlocked
  /\ gate' = TRUE
  /\ UNCHANGED <<hour, windows, persisting, cost, calls, faults, agentVars, historyVars>>

\* There is a job; its agent starts.
Claim(i) ==
  /\ gate
  /\ phase[i] = "none"
  /\ gate' = FALSE
  /\ phase' = [phase EXCEPT ![i] = "running"]
  /\ reading' = [reading EXCEPT ![i] = TRUE]
  /\ UNCHANGED <<hour, windows, persisting, cost, calls, faults, pipe, turns, spent,
                 historyVars>>

-----------------------------------------------------------------------------
(* The agent *)

Usage(c) == [type |-> "usage", cost |-> c]
Result(c) == [type |-> "result", cost |-> c]

\* An agent whose pipe is full is blocked until somebody reads or it is killed.
Prints(i, event) ==
  /\ Len(pipe[i]) < PipeMax
  /\ pipe' = [pipe EXCEPT ![i] = Append(@, event)]

\* A turn costs something, and what the tokens are priced at may be more or less.
Turn(i, real, estimate) ==
  /\ phase[i] = "running"
  /\ turns[i] < MaxTurns
  /\ Prints(i, Usage(estimate))
  /\ turns' = [turns EXCEPT ![i] = @ + 1]
  /\ spent' = [spent EXCEPT ![i] = @ + real]
  /\ UNCHANGED <<hour, windows, gate, phase, reading, persisting, cost, calls, faults,
                 historyVars>>

\* The agent ends with a result.
Finish(i) ==
  /\ phase[i] = "running"
  /\ Prints(i, Result(spent[i]))
  /\ phase' = [phase EXCEPT ![i] = "exited"]
  /\ UNCHANGED <<hour, windows, gate, reading, persisting, cost, calls, faults, turns, spent,
                 historyVars>>

\* It exits with none, or is killed at the role's timeout.
Die(i) ==
  /\ phase[i] = "running"
  /\ phase' = [phase EXCEPT ![i] = "exited"]
  /\ UNCHANGED <<hour, windows, gate, pipe, reading, persisting, cost, calls, faults, turns,
                 spent, historyVars>>

\* _cleanup_tasks and _finalize: the consumer has read all there is, or is cancelled after
\* two seconds.  The thread that persists an event is not.
Cleanup(i) ==
  /\ phase[i] = "exited"
  /\ phase' = [phase EXCEPT ![i] = "ended"]
  /\ pipe' = [pipe EXCEPT ![i] = <<>>]
  /\ reading' = [reading EXCEPT ![i] = FALSE]
  /\ UNCHANGED <<hour, windows, gate, persisting, cost, calls, faults, turns, spent,
                 historyVars>>

-----------------------------------------------------------------------------
(* The consumer *)

Fault == faults < MaxFaults /\ faults' = faults + 1

\* consume_stream: one event at a time.
Read(i) ==
  /\ reading[i] /\ persisting[i] = NoEvent
  /\ pipe[i] # <<>>
  /\ persisting' = [persisting EXCEPT ![i] = [event |-> Head(pipe[i]), at |-> hour]]
  /\ pipe' = [pipe EXCEPT ![i] = Tail(@)]
  /\ UNCHANGED <<hour, windows, gate, cost, calls, faults, phase, reading, turns, spent,
                 historyVars>>

\* A line beyond the buffer's limit: readline raises ValueError, the consumer returns.
ReadError(i) ==
  /\ Fault
  /\ reading[i] /\ persisting[i] = NoEvent
  /\ reading' = [reading EXCEPT ![i] = FALSE]
  /\ UNCHANGED <<hour, windows, gate, persisting, cost, calls, phase, pipe, turns, spent,
                 historyVars>>

\* record_usage: each window is taken by the clock of its own statement, here that of the
\* hour when the transaction began and that of the day when it commits.
Recorded(amount, began) ==
  LET at == [hour |-> Window("hour", began), day |-> Window("day", hour)]
  IN  [k \in Kinds |-> [windows[k] EXCEPT ![at[k]] = @ + amount]]

\* Mutant: a result only replaces what the instance shows.
AddedUsage(i, event) == IF event.type = "usage" THEN event.cost ELSE 0

\* Usage is added; a result replaces the sum, and adds what the sum was short of.
Added(i, event) ==
  IF event.type = "usage" THEN event.cost
  ELSE IF event.cost > cost[i] THEN event.cost - cost[i] ELSE 0

\* Mutant: a result is one more estimate.
NewCostBySum(i, event) == cost[i] + event.cost

NewCost(i, event) == IF event.type = "usage" THEN cost[i] + event.cost ELSE event.cost

\* _persist_event commits.
Persist(i) ==
  /\ persisting[i] # NoEvent
  /\ LET event == persisting[i].event
     IN  /\ windows' = Recorded(Added(i, event), persisting[i].at)
         /\ recorded' = [recorded EXCEPT ![i] = @ + Added(i, event)]
         /\ cost' = [cost EXCEPT ![i] = NewCost(i, event)]
         /\ settled' = [settled EXCEPT ![i] = event.type = "result"]
  /\ late' = IF phase[i] = "ended" THEN late \cup {i} ELSE late
  /\ persisting' = [persisting EXCEPT ![i] = NoEvent]
  /\ UNCHANGED <<hour, gate, calls, faults, agentVars>>

\* It fails: the event is lost, the consumer goes on.
PersistFails(i) ==
  /\ Fault
  /\ persisting[i] # NoEvent
  /\ persisting' = [persisting EXCEPT ![i] = NoEvent]
  /\ UNCHANGED <<hour, windows, gate, cost, calls, agentVars, historyVars>>

\* The PM agent answers a refinement; no gate is asked before it.  A call whose answer
\* cannot be used is not recorded.
PmCall(c) ==
  /\ calls < MaxCalls
  /\ calls' = calls + 1
  /\ windows' = Recorded(c, hour)
  /\ UNCHANGED <<hour, gate, persisting, cost, faults, agentVars, historyVars>>

HourPasses ==
  /\ hour < MaxHour
  /\ hour' = hour + 1
  /\ UNCHANGED <<windows, gate, persisting, cost, calls, faults, agentVars, historyVars>>

MeteringNext ==
  \/ PassGate \/ HourPasses
  \/ PmCall(MaxCost)
  \/ \E i \in Instances :
       \/ Claim(i) \/ Finish(i) \/ Die(i) \/ Cleanup(i)
       \/ \E real, estimate \in 0 .. MaxCost : Turn(i, real, estimate)
       \/ Read(i) \/ ReadError(i) \/ Persist(i) \/ PersistFails(i)

MeteringSpec == MeteringInit /\ [][MeteringNext]_meteringVars

-----------------------------------------------------------------------------
(* Properties *)

MaxSpent == MaxTurns * MaxCost

\* No instance shows more than its agent may cost, and only one in flight is read.
MeteringTypeOK ==
  /\ hour \in 0 .. MaxHour /\ gate \in BOOLEAN
  /\ windows \in [Kinds -> [0 .. MaxHour -> Nat]]
  /\ calls \in 0 .. MaxCalls /\ faults \in 0 .. MaxFaults
  /\ late \subseteq Instances
  /\ \A i \in Instances :
       /\ phase[i] \in {"none", "running", "exited", "ended"}
       /\ pipe[i] \in Seq([type : {"usage", "result"}, cost : 0 .. MaxSpent])
       /\ Len(pipe[i]) <= PipeMax
       /\ reading[i] \in BOOLEAN /\ reading[i] => i \in InFlight
       /\ persisting[i] # NoEvent => persisting[i].at \in 0 .. hour
       /\ turns[i] \in 0 .. MaxTurns /\ settled[i] \in BOOLEAN
       /\ {cost[i], spent[i]} \subseteq 0 .. MaxSpent

\* However far the agents in flight overshoot, a window holds less than its cap and what
\* as many agents as there are slots may cost, beside the calls of the PM agent and the
\* agents whose last event was persisted when their slot was free again.
OvershootBounded ==
  \A k \in Kinds : Caps[k] > 0 =>
    \A n \in 0 .. MaxHour :
      windows[k][n] < Caps[k] + MaxSpent * (Slots + Cardinality(late)) + MaxCost * calls

\* The windows of each kind add up to what the instances and the PM agent have recorded,
\* no instance has recorded less than it shows, and one whose result was persisted shows
\* what it really cost, whichever of its other events were lost.
Reconciled ==
  /\ \A k \in Kinds :
       MapThenSumSet(LAMBDA n : windows[k][n], 0 .. MaxHour)
         = MapThenSumSet(LAMBDA i : recorded[i], Instances) + MaxCost * calls
  /\ \A i \in Instances :
       /\ recorded[i] >= cost[i]
       /\ settled[i] => cost[i] = spent[i]
=============================================================================
