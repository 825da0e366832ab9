------------------------------ MODULE UserProofs ------------------------------
(***************************************************************************)
(* Proofs, for every value of the constants, of the invariants of the two  *)
(* modules about what people do: Console, the browser, and Flow, the time  *)
(* they track with the CLI.                                                *)
(*                                                                         *)
(* Console: the modal, the approvals and the forms share only the bound on *)
(* clicks, so each has an inductive invariant of its own beside the types. *)
(*                                                                         *)
(* Flow: the inductive invariant says of every command under way what it   *)
(* needs to write at all, which no commit of another takes away, and what  *)
(* is still so of what it read while none has overtaken it.  The time of a *)
(* report is counted in the points of time that its rows cover.            *)
(***************************************************************************)
EXTENDS Console, Flow, Sums, SequenceTheorems

(***************************************************************************)
(* Console                                                                 *)
(***************************************************************************)

-----------------------------------------------------------------------------
(* Sequences *)

\* An element that is appended to a queue is in it.
LEMMA Appended ==
  ASSUME NEW S, NEW s \in Seq(S), NEW e \in S
  PROVE  /\ Append(s, e) \in Seq(S)
         /\ {Append(s, e)[i] : i \in DOMAIN Append(s, e)} = {s[i] : i \in DOMAIN s} \cup {e}
BY AppendProperties

\* All but the first element of a queue are in its tail.
LEMMA Dequeued ==
  ASSUME NEW S, NEW s \in Seq(S), s # <<>>
  PROVE  /\ Head(s) \in S /\ Tail(s) \in Seq(S)
         /\ {s[i] : i \in DOMAIN s} \subseteq {Head(s)} \cup {Tail(s)[i] : i \in DOMAIN Tail(s)}
<1>1. Head(s) \in S /\ Tail(s) \in Seq(S) /\ Len(Tail(s)) = Len(s) - 1
  BY HeadTailProperties
<1>2. ASSUME NEW i \in DOMAIN s PROVE s[i] = Head(s) \/ \E k \in DOMAIN Tail(s) : s[i] = Tail(s)[k]
  <2>1. CASE i = 1
    BY <2>1
  <2>2. CASE i # 1
    <3>1. i - 1 \in DOMAIN Tail(s) /\ Tail(s)[i - 1] = s[i]
      BY <1>1, <2>2, HeadTailProperties
    <3> QED
      BY <3>1
  <2> QED
    BY <2>1, <2>2
<1> QED
  BY <1>1, <1>2

-----------------------------------------------------------------------------
(* Typing *)

Contents == [Fields -> Values \cup {None}]
Bodies == [task : Tasks \cup {None}, upto : Nat, events : SUBSET Nat]
Modals == [task : Tasks \cup {None}, active : Tasks \cup {None},
           log : SUBSET ((Tasks \cup {None}) \X Nat), body : Bodies]
Fetches == [id : 0..MaxClicks, task : Tasks, upto : -1..MaxEvents,
            events : SUBSET (1..MaxEvents)]
Patches == [id : (0..MaxClicks) \X Nat, panel : Panels, row : Contents,
            seen : Contents \cup {None},
            stage : {"sent", "read", "flushed", "over", "refused"}, waits : BOOLEAN]
Loads == [id : (0..MaxClicks) \X Nat, panel : Panels, row : Contents \cup {None}]

\* The variables that TypeOK leaves to the actions.
Shapes ==
  /\ modal \in Modals
  /\ alone \in BOOLEAN
  /\ card \in [awaiting : BOOLEAN, enabled : BOOLEAN]
  /\ approvals \in [0..MaxBlocks -> Nat]
  /\ patches \subseteq Patches /\ loads \subseteq Loads
  /\ saved \in [Fields -> {<<>>} \cup {<<v>> : v \in Values \cup {None}}]

TypeInv == TypeOK /\ Shapes

ModalTypes ==
  /\ modal \in Modals /\ alone \in BOOLEAN
  /\ modal.active = modal.task
  /\ \/ modal.log = NoLog
     \/ modal.active # None /\ modal.log \subseteq {modal.active} \X (1..MaxEvents)
  /\ recorded \in [Tasks -> Seq(EventKinds)] /\ \A t \in Tasks : Len(recorded[t]) <= MaxEvents
  /\ wire \in Seq(Events)
  /\ fetches \subseteq Fetches

Stages == {"sent", "read", "answered", "over", "refused"}
Requests == [id : 0..MaxClicks, from : {"card", "toast", "gone"}, what : {"approve", "move"},
             block : 0..MaxBlocks, stage : Stages, waits : BOOLEAN]

BlockTypes ==
  /\ block \in 0..MaxBlocks /\ blocked \in BOOLEAN /\ toast \in {"none", "ready", "busy"}
  /\ requests \subseteq Requests
  /\ card \in [awaiting : BOOLEAN, enabled : BOOLEAN]
  /\ approvals \in [0..MaxBlocks -> Nat]

FormTypes ==
  /\ stored \in Contents /\ form \in Contents
  /\ listeners \in [Panels -> Nat] /\ saving \subseteq Panels
  /\ patches \subseteq Patches /\ loads \subseteq Loads
  /\ saved \in [Fields -> {<<>>} \cup {<<v>> : v \in Values \cup {None}}]
  /\ elsewhere \in 0..MaxElsewhere

\* TypeOK in three parts, one for each part of the tab.
LEMMA TypeParts == TypeInv <=> clicks \in 0..MaxClicks /\ ModalTypes /\ BlockTypes /\ FormTypes
<1>1. (/\ \A e \in Tasks : recorded[e] \in Seq(EventKinds) /\ Len(recorded[e]) <= MaxEvents
       /\ recorded = [t \in Tasks |-> recorded[t]])
      <=> (/\ recorded \in [Tasks -> Seq(EventKinds)]
           /\ \A t \in Tasks : Len(recorded[t]) <= MaxEvents)
  OBVIOUS
<1> QED
  BY <1>1 DEF TypeInv, TypeOK, Shapes, ModalTypes, BlockTypes, FormTypes, Contents, Requests,
     Stages, Modals, Fetches

\* A fetch keeps its shape when the server notes how far it has read and what it lists.
LEMMA Stamped ==
  ASSUME NEW f \in Fetches, NEW n \in -1..MaxEvents, NEW es \in SUBSET (1..MaxEvents)
  PROVE  [f EXCEPT !.upto = n, !.events = es] \in Fetches
BY DEF Fetches

\* The events that show in a place are recorded ones.
LEMMA ListedTypes ==
  ASSUME ModalTypes, NEW t \in Tasks, NEW place
  PROVE  /\ Len(recorded[t]) \in 0..MaxEvents /\ DOMAIN recorded[t] = 1..Len(recorded[t])
         /\ Listed(t, place) \subseteq 1..MaxEvents
<1>1. recorded[t] \in Seq(EventKinds) /\ Len(recorded[t]) <= MaxEvents /\ MaxEvents \in Nat
  BY ConsoleAssumption DEF ModalTypes
<1>2. Len(recorded[t]) \in Nat /\ DOMAIN recorded[t] = 1..Len(recorded[t])
  BY <1>1
<1>3. 1..Len(recorded[t]) \subseteq 1..MaxEvents
  BY <1>1, <1>2
<1> QED
  BY <1>1, <1>2, <1>3 DEF Listed

\* What a step leaves alone keeps its types.
LEMMA Untouched ==
  /\ UNCHANGED modalVars /\ ModalTypes => ModalTypes'
  /\ UNCHANGED blockVars /\ BlockTypes => BlockTypes'
  /\ UNCHANGED formVars /\ FormTypes => FormTypes'
BY DEF modalVars, blockVars, formVars, ModalTypes, BlockTypes, FormTypes

\* The empty tab is in its types.
LEMMA TypeInit == Init => TypeInv
<1> SUFFICES ASSUME Init PROVE TypeInv
  OBVIOUS
<1> USE ConsoleAssumption DEF Init
<1>1. clicks \in 0..MaxClicks
  OBVIOUS
<1>2. ModalTypes
  <2>1. modal \in Modals /\ modal.log = NoLog /\ modal.active = modal.task
    BY DEF Modals, Bodies, Closed, NoLog, NoBody
  <2>2. recorded \in [Tasks -> Seq(EventKinds)] /\ \A t \in Tasks : Len(recorded[t]) <= MaxEvents
    OBVIOUS
  <2> QED
    BY <2>1, <2>2 DEF ModalTypes
<1>3. BlockTypes
  <2>1. card \in [awaiting : BOOLEAN, enabled : BOOLEAN] /\ blocked \in BOOLEAN
    BY Zenon DEF CardOf
  <2>2. approvals \in [0..MaxBlocks -> Nat] /\ block \in 0..MaxBlocks
    OBVIOUS
  <2> QED
    BY <2>1, <2>2 DEF BlockTypes
<1>4. FormTypes
  BY DEF FormTypes, Contents, Loads, Load, Fields
<1> QED
  BY <1>1, <1>2, <1>3, <1>4, TypeParts

\* An event on its way joins a sequence of events.
LEMMA WireType ==
  ASSUME ModalTypes, NEW e \in Events, wire' \in {wire, Append(wire, e)}
  PROVE  wire' \in Seq(Events)
<1>1. wire \in Seq(Events)
  BY DEF ModalTypes
<1>2. Append(wire, e) \in Seq(Events)
  BY <1>1, Appended
<1> QED
  BY <1>1, <1>2

\* Recording an event makes the instance's sequence longer by it.
LEMMA RecordedNext ==
  ASSUME ModalTypes, NEW t \in Tasks, NEW kind \in EventKinds, EventRecorded(t, kind)
  PROVE  /\ recorded' \in [Tasks -> Seq(EventKinds)]
         /\ \A u \in Tasks : u # t => recorded'[u] = recorded[u]
         /\ Len(recorded'[t]) = Len(recorded[t]) + 1 /\ Len(recorded'[t]) \in 1..MaxEvents
         /\ recorded'[t][Len(recorded[t]) + 1] = kind
         /\ \A n \in 1..Len(recorded[t]) : recorded'[t][n] = recorded[t][n]
<1>1. recorded[t] \in Seq(EventKinds) /\ recorded'[t] = Append(recorded[t], kind)
  BY DEF EventRecorded, ModalTypes
<1>2. Len(recorded[t]) \in Nat /\ Len(recorded[t]) < MaxEvents
  BY <1>1 DEF EventRecorded
<1>3. /\ Append(recorded[t], kind) \in Seq(EventKinds)
      /\ Len(recorded'[t]) = Len(recorded[t]) + 1
      /\ recorded'[t][Len(recorded[t]) + 1] = kind
      /\ \A n \in 1..Len(recorded[t]) : recorded'[t][n] = recorded[t][n]
  BY <1>1, AppendProperties
<1>4. recorded' \in [Tasks -> Seq(EventKinds)]
  BY <1>3 DEF EventRecorded, ModalTypes
<1>5. \A u \in Tasks : u # t => recorded'[u] = recorded[u]
  BY DEF EventRecorded, ModalTypes
<1> QED
  BY <1>2, <1>3, <1>4, <1>5, ConsoleAssumption

\* The steps of the modal keep its types,
LEMMA ModalTypeStep ==
  ASSUME clicks \in 0..MaxClicks, ModalTypes, ModalNext
  PROVE  clicks' \in 0..MaxClicks /\ ModalTypes'
<1> USE ConsoleAssumption
<1> USE DEF ModalTypes, Modals, Bodies
<1>1. ASSUME NEW t \in Tasks, Open(t) PROVE clicks' \in 0..MaxClicks /\ ModalTypes'
  <2>1. modal' = [task |-> t, active |-> t, log |-> NoLog, body |-> NoBody]
    BY <1>1 DEF Open, Opened, Closed
  <2>2. modal' \in Modals
    BY <2>1 DEF NoLog, NoBody
  <2>3. [id |-> clicks, task |-> t, upto |-> -1, events |-> {}] \in Fetches
    BY DEF Fetches
  <2>4. alone' \in BOOLEAN
    BY <1>1, Zenon DEF Open
  <2>5. fetches' \subseteq Fetches
    BY <1>1, <2>3 DEF Open
  <2>6. clicks' \in 0..MaxClicks
    BY <1>1 DEF Open, Click
  <2>7. modal'.log = NoLog /\ modal'.active = modal'.task
    BY <2>1
  <2> QED
    BY <1>1, <2>2, <2>4, <2>5, <2>6, <2>7 DEF Open
<1>2. ASSUME NEW t \in Tasks, NEW kind \in EventKinds, EventRecorded(t, kind)
      PROVE  clicks' \in 0..MaxClicks /\ ModalTypes'
  <2> DEFINE n == Len(recorded[t]) + 1
  <2>1. /\ recorded' \in [Tasks -> Seq(EventKinds)]
        /\ \A u \in Tasks : u # t => recorded'[u] = recorded[u]
        /\ Len(recorded'[t]) = n /\ Len(recorded'[t]) \in 1..MaxEvents
    BY <1>2, RecordedNext
  <2>2. wire' \in Seq(Events)
    <3>1. <<t, n>> \in Events
      BY <2>1 DEF Events
    <3>2. wire' \in {wire, Append(wire, <<t, n>>)}
      BY <1>2 DEF EventRecorded
    <3> HIDE DEF n
    <3>3. \A e \in Events : wire' \in {wire, Append(wire, e)} => wire' \in Seq(Events)
      BY WireType
    <3> QED
      BY <3>1, <3>2, <3>3
  <2>3. ASSUME NEW u \in Tasks PROVE Len(recorded'[u]) <= MaxEvents
    <3>1. CASE u = t
      BY <2>1, <3>1
    <3>2. CASE u # t
      BY <2>1, <3>2
    <3> QED
      BY <3>1, <3>2
  <2> HIDE DEF n
  <2> QED
    BY <1>2, <2>1, <2>2, <2>3 DEF EventRecorded
<1>3. ASSUME NEW f \in fetches, ReadDetail(f) PROVE clicks' \in 0..MaxClicks /\ ModalTypes'
  <2>1. [f EXCEPT !.upto = Len(recorded[f.task]), !.events = Listed(f.task, "details")] \in Fetches
    <3>1. f \in Fetches /\ f.task \in Tasks
      BY DEF Fetches
    <3>2. /\ Len(recorded[f.task]) \in -1..MaxEvents
          /\ Listed(f.task, "details") \in SUBSET (1..MaxEvents)
      BY <3>1, ListedTypes
    <3> QED
      BY <3>1, <3>2, Stamped
  <2> QED
    BY <1>3, <2>1 DEF ReadDetail
<1>4. ASSUME NEW f \in fetches, Render(f) PROVE clicks' \in 0..MaxClicks /\ ModalTypes'
  <2>1. f.task \in Tasks /\ f.upto \in Nat /\ f.events \in SUBSET Nat
    BY <1>4 DEF Render, Fetches
  <2>2. modal' = [task |-> modal.task, active |-> modal.active,
                  log |-> IF modal.active = None THEN NoLog ELSE {},
                  body |-> [task |-> f.task, upto |-> f.upto, events |-> f.events]]
    BY <1>4 DEF Render
  <2>3. modal' \in Modals
    BY <2>1, <2>2 DEF NoLog
  <2> QED
    BY <1>4, <2>2, <2>3 DEF Render
<1>5. ASSUME NEW f \in fetches, FetchFails(f) PROVE clicks' \in 0..MaxClicks /\ ModalTypes'
  BY <1>5 DEF FetchFails, NoBody
<1>6. CASE Close
  <2>1. modal' = [task |-> None, active |-> None, log |-> NoLog, body |-> modal.body]
    BY <1>6 DEF Close
  <2>2. modal' \in Modals
    BY <2>1 DEF NoLog
  <2> QED
    BY <1>6, <2>1, <2>2 DEF Close, Click
<1>7. CASE Arrives
  <2>1. Head(wire) \in Events /\ wire' \in Seq(Events)
    BY <1>7, HeadTailProperties DEF Arrives
  <2>2. PICK t \in Tasks, n \in 1..MaxEvents : Head(wire) = <<t, n>>
    BY <2>1 DEF Events
  <2>3. CASE /\ modal' = [modal EXCEPT !.log = @ \cup {Head(wire)}]
             /\ t = modal.active /\ modal.log # NoLog
    <3>1. modal.log \cup {<<t, n>>} \subseteq {modal.active} \X (1..MaxEvents)
      BY <2>3
    <3>2. modal.log \cup {<<t, n>>} \in SUBSET ((Tasks \cup {None}) \X Nat)
      <4>1. n \in Nat /\ t \in Tasks \cup {None}
        BY <2>2
      <4>2. modal.log \in SUBSET ((Tasks \cup {None}) \X Nat)
        BY DEF Modals
      <4> QED
        BY <4>1, <4>2
    <3>3. modal' = [task |-> modal.task, active |-> modal.active,
                    log |-> modal.log \cup {<<t, n>>}, body |-> modal.body]
      BY <2>2, <2>3
    <3>4. modal' \in Modals
      BY <3>2, <3>3
    <3>5. /\ modal'.active = modal'.task /\ modal'.active # None
          /\ modal'.log \subseteq {modal'.active} \X (1..MaxEvents)
      BY <2>2, <2>3, <3>1, <3>3
    <3> QED
      BY <1>7, <2>1, <3>4, <3>5 DEF Arrives
  <2>4. CASE UNCHANGED modal
    BY <1>7, <2>1, <2>4 DEF Arrives
  <2>5. Head(wire)[1] = t /\ t # None
    BY <2>2
  <2> QED
    BY <1>7, <2>3, <2>4, <2>5 DEF Arrives
<1> QED
  BY <1>1, <1>2, <1>3, <1>4, <1>5, <1>6, <1>7 DEF ModalNext

\* Changing the stage, the sender or the block of requests keeps their type.
LEMMA RequestTypes ==
  ASSUME requests \subseteq Requests
  PROVE  /\ \A r \in requests, s \in Requests : Becomes(r, s) \subseteq Requests
         /\ \A r \in requests, stage \in Stages : At(r, stage) \subseteq Requests
         /\ \A from \in {"card", "toast"} : Detached(requests, from) \subseteq Requests
         /\ \A from \in {"card", "toast"}, what \in {"approve", "move"} :
              clicks \in 0..MaxClicks => Sent(from, what) \subseteq Requests
         /\ BlockTypes =>
              \A r \in requests : [r EXCEPT !.stage = "read", !.block = BlockRead] \in Requests
         /\ \A r \in requests : [r EXCEPT !.waits = FALSE] \in Requests
<1>1. ASSUME NEW r \in Requests, NEW stage \in Stages
      PROVE  [r EXCEPT !.stage = stage] \in Requests
  BY DEF Requests, Stages
<1>2. ASSUME NEW r \in Requests, NEW from \in {"card", "toast"}
      PROVE  [r EXCEPT !.from = IF @ = from THEN "gone" ELSE @] \in Requests
  BY DEF Requests
<1>3. ASSUME NEW from \in {"card", "toast"}, NEW what \in {"approve", "move"},
             clicks \in 0..MaxClicks
      PROVE  [id |-> clicks, from |-> from, what |-> what, stage |-> "sent", block |-> 0,
              waits |-> TRUE] \in Requests
  BY <1>3, ConsoleAssumption DEF Requests, Stages
<1>4. \A r \in requests, s \in Requests : Becomes(r, s) \subseteq Requests
  BY DEF Becomes, Kept
<1>5. \A r \in requests, stage \in Stages : At(r, stage) \subseteq Requests
  BY <1>1, <1>4 DEF At
<1>6. \A from \in {"card", "toast"} : Detached(requests, from) \subseteq Requests
  BY <1>2 DEF Detached
<1>7. ASSUME NEW r \in requests, BlockTypes
      PROVE  [r EXCEPT !.stage = "read", !.block = BlockRead] \in Requests
  <2>1. BlockRead \in 0..MaxBlocks
    BY <1>7, ConsoleAssumption DEF BlockTypes, BlockRead
  <2>2. r \in Requests
    OBVIOUS
  <2> QED
    BY <2>1, <2>2 DEF Requests, Stages
<1>8. ASSUME NEW r \in requests PROVE [r EXCEPT !.waits = FALSE] \in Requests
  BY DEF Requests
<1> QED
  BY <1>3, <1>4, <1>5, <1>6, <1>7, <1>8 DEF Sent

\* those of the blocks theirs,
LEMMA BlockTypeStep ==
  ASSUME clicks \in 0..MaxClicks, BlockTypes, BlockNext
  PROVE  clicks' \in 0..MaxClicks /\ BlockTypes'
<1> USE ConsoleAssumption
<1> USE DEF BlockTypes
<1>1. CASE CapExceeded
  BY <1>1 DEF CapExceeded
<1>2. CASE Refresh
  <2>1. card' \in [awaiting : BOOLEAN, enabled : BOOLEAN]
    BY <1>2, Zenon DEF Refresh, CardOf
  <2> QED
    BY <1>2, <2>1, RequestTypes DEF Refresh
<1>3. CASE PressCard
  <2>1. requests' \subseteq Requests
    <3>1. (IF card.awaiting THEN "approve" ELSE "move") \in {"approve", "move"}
      OBVIOUS
    <3> QED
      BY <1>3, <3>1, RequestTypes DEF PressCard
  <2>2. card' \in [awaiting : BOOLEAN, enabled : BOOLEAN]
    BY <1>3 DEF PressCard
  <2> QED
    BY <1>3, <2>1, <2>2 DEF PressCard, Click
<1>4. CASE PressToast
  <2>1. requests' \subseteq Requests
    BY <1>4, RequestTypes DEF PressToast
  <2> QED
    BY <1>4, <2>1 DEF PressToast, Click
<1>5. CASE CloseToast
  BY <1>5, RequestTypes DEF CloseToast
<1>6. ASSUME NEW r \in requests, ServerReads(r) PROVE clicks' \in 0..MaxClicks /\ BlockTypes'
  <2>1. [r EXCEPT !.stage = "read", !.block = BlockRead] \in Requests
    BY RequestTypes
  <2>2. requests' \subseteq Requests
    <3>1. /\ Becomes(r, [r EXCEPT !.stage = "read", !.block = BlockRead]) \subseteq Requests
          /\ At(r, "refused") \subseteq Requests
      <4>1. \A s \in Requests : Becomes(r, s) \subseteq Requests
        BY RequestTypes
      <4>2. \A stage \in Stages : At(r, stage) \subseteq Requests
        BY RequestTypes
      <4> QED
        BY <2>1, <4>1, <4>2 DEF Stages
    <3>2. \/ requests' = Becomes(r, [r EXCEPT !.stage = "read", !.block = BlockRead])
          \/ requests' = At(r, "refused")
      BY <1>6, Zenon DEF ServerReads
    <3> QED
      BY <3>1, <3>2
  <2> QED
    BY <1>6, <2>2 DEF ServerReads
<1>7. ASSUME NEW r \in requests, ServerCommits(r) PROVE clicks' \in 0..MaxClicks /\ BlockTypes'
  <2>1. approvals' \in [0..MaxBlocks -> Nat]
    <3>1. r.block \in 0..MaxBlocks
      BY DEF Requests
    <3>2. [approvals EXCEPT ![r.block] = @ + 1] \in [0..MaxBlocks -> Nat]
      BY <3>1
    <3> QED
      BY <1>7, <3>2 DEF ServerCommits
  <2>2. requests' \subseteq Requests
    BY <1>7, RequestTypes DEF ServerCommits, Stages
  <2> QED
    BY <1>7, <2>1, <2>2 DEF ServerCommits
<1>8. ASSUME NEW r \in requests, ServerFails(r) \/ ServerAnswers(r)
      PROVE  clicks' \in 0..MaxClicks /\ BlockTypes'
  BY <1>8, RequestTypes DEF ServerFails, ServerAnswers, Stages
<1>9. ASSUME NEW r \in requests, NEW ok, Told(r, ok)
      PROVE  clicks' \in 0..MaxClicks /\ BlockTypes'
  <2>1. requests' \subseteq Requests
    BY <1>9, RequestTypes DEF Told
  <2>2. card' \in [awaiting : BOOLEAN, enabled : BOOLEAN] /\ toast' \in {"none", "ready", "busy"}
    BY <1>9 DEF Told
  <2> QED
    BY <1>9, <2>1, <2>2 DEF Told
<1>10. ASSUME NEW r \in requests, Answered(r) \/ Unanswered(r)
       PROVE  clicks' \in 0..MaxClicks /\ BlockTypes'
  BY <1>9, <1>10 DEF Answered, Unanswered
<1> QED
  BY <1>1, <1>2, <1>3, <1>4, <1>5, <1>6, <1>7, <1>8, <1>10 DEF BlockNext

\* A click on a form: what is sent is of the panel's type.
LEMMA SendsTypes ==
  ASSUME clicks \in 0..MaxClicks, FormTypes, NEW p \in Panels, NEW row \in Contents, Sends(p, row)
  PROVE  FormTypes'
<1>1. \A n \in 1..listeners[p] :
        [id |-> <<clicks, n>>, panel |-> p, row |-> row, seen |-> None, stage |-> "sent",
         waits |-> TRUE] \in Patches
  BY ConsoleAssumption DEF FormTypes, Patches
<1>2. patches' \subseteq Patches
  BY <1>1 DEF Sends, FormTypes
<1>3. saved' \in [Fields -> {<<>>} \cup {<<v>> : v \in Values \cup {None}}]
  BY DEF Sends, FormTypes, Contents
<1> QED
  BY <1>2, <1>3 DEF Sends, FormTypes

\* What the server makes of a save is of its type.
LEMMA PatchTypes ==
  ASSUME FormTypes, NEW q \in patches
  PROVE  /\ q \in Patches
         /\ [q EXCEPT !.stage = "read", !.seen = stored] \in Patches
         /\ \A stage \in {"flushed", "over", "refused"} : [q EXCEPT !.stage = stage] \in Patches
         /\ [q EXCEPT !.waits = FALSE] \in Patches
BY DEF FormTypes, Patches

\* A save that is kept or dropped leaves the others as they are.
LEMMA BecomesTypes ==
  ASSUME FormTypes, NEW q \in patches, NEW r \in Patches, PatchBecomes(q, r)
  PROVE  patches' \subseteq Patches
BY DEF FormTypes, PatchBecomes, PatchKept

\* those of the forms theirs,
LEMMA FormTypeStep ==
  ASSUME clicks \in 0..MaxClicks, FormTypes, FormNext
  PROVE  clicks' \in 0..MaxClicks /\ FormTypes'
<1> USE ConsoleAssumption
<1>1. ASSUME NEW l \in loads, ReadList(l) PROVE clicks' \in 0..MaxClicks /\ FormTypes'
  BY <1>1 DEF ReadList, FormTypes, Loads
<1>2. ASSUME NEW l \in loads, RenderForm(l) PROVE clicks' \in 0..MaxClicks /\ FormTypes'
  BY <1>2 DEF RenderForm, FormTypes, Loads, Shown, Contents, Fields
<1>3. ASSUME NEW f \in Fields, NEW v \in Values \cup {None}, Edit(f, v)
      PROVE  clicks' \in 0..MaxClicks /\ FormTypes'
  BY <1>3 DEF Edit, Click, FormTypes, Contents
<1>4. ASSUME NEW f \in Fields, NEW v \in Values \cup {None}, SavedElsewhere(f, v)
      PROVE  clicks' \in 0..MaxClicks /\ FormTypes'
  BY <1>4 DEF SavedElsewhere, FormTypes, Contents
<1>5. ASSUME NEW p \in Panels, Save(p) PROVE clicks' \in 0..MaxClicks /\ FormTypes'
  <2>1. form \in Contents /\ Sends(p, form)
    BY <1>5 DEF Save, FormTypes
  <2> QED
    BY <1>5, <2>1, SendsTypes DEF Save, Click
<1>6. ASSUME NEW p \in Panels, Reset(p) PROVE clicks' \in 0..MaxClicks /\ FormTypes'
  <2>1. [f \in Fields |-> None] \in Contents
    BY DEF Contents
  <2> QED
    BY <1>6, <2>1, SendsTypes DEF Reset, Click
<1>7. ASSUME NEW q \in patches, PatchReads(q) \/ PatchFlushes(q) \/ PatchDies(q)
      PROVE  clicks' \in 0..MaxClicks /\ FormTypes'
  <2>1. \E r \in Patches : PatchBecomes(q, r)
    <3>1. (IF q.stage = "flushed" /\ q.panel \notin SettingPanels THEN "over" ELSE "refused")
            \in {"flushed", "over", "refused"}
      OBVIOUS
    <3>2. PatchDies(q) => \E stage \in {"flushed", "over", "refused"} :
                            PatchBecomes(q, [q EXCEPT !.stage = stage])
      BY <3>1 DEF PatchDies
    <3> QED
      BY <1>7, <3>2, PatchTypes DEF PatchReads, PatchFlushes
  <2>2. patches' \subseteq Patches
    BY <2>1, BecomesTypes
  <2> QED
    BY <1>7, <2>2 DEF PatchReads, PatchFlushes, PatchDies, UnchangedByServer, FormTypes
<1>8. ASSUME NEW q \in patches, PatchCommits(q) PROVE clicks' \in 0..MaxClicks /\ FormTypes'
  <2>1. patches' \subseteq Patches /\ q.row \in Contents
    <3>1. \E r \in Patches : PatchBecomes(q, r)
      BY <1>8, PatchTypes DEF PatchCommits
    <3>2. q.row \in Contents
      BY DEF FormTypes, Patches
    <3> QED
      BY <3>1, <3>2, BecomesTypes
  <2>2. stored' \in Contents
    BY <1>8, <2>1 DEF PatchCommits, FormTypes, Contents
  <2> QED
    BY <1>8, <2>1, <2>2 DEF PatchCommits, UnchangedByServer, FormTypes
<1>9. ASSUME NEW q \in patches, PatchAnswered(q) \/ PatchUnanswered(q)
      PROVE  clicks' \in 0..MaxClicks /\ FormTypes'
  <2>1. patches' \subseteq Patches /\ Load(q.panel, q.id) \in Loads
    <3>1. \E r \in Patches : PatchBecomes(q, r)
      BY <1>9, PatchTypes DEF PatchAnswered, PatchUnanswered, PatchTold
    <3>2. Load(q.panel, q.id) \in Loads
      BY DEF FormTypes, Load, Patches, Loads
    <3> QED
      BY <3>1, <3>2, BecomesTypes
  <2> QED
    BY <1>9, <2>1 DEF PatchAnswered, PatchUnanswered, PatchTold, FormTypes
<1> QED
  BY <1>1, <1>2, <1>3, <1>4, <1>5, <1>6, <1>7, <1>8, <1>9 DEF FormNext

\* A step of one part leaves the variables of the others alone.
LEMMA PartsApart ==
  /\ ModalNext => UNCHANGED <<blockVars, formVars>>
  /\ BlockNext => UNCHANGED <<modalVars, formVars>>
  /\ FormNext => UNCHANGED <<modalVars, blockVars>>
<1>1. ModalNext => UNCHANGED <<blockVars, formVars>>
  BY DEF ModalNext, Open, EventRecorded, ReadDetail, Render, FetchFails, Close, Arrives
<1>2. BlockNext => UNCHANGED <<modalVars, formVars>>
  BY DEF BlockNext, CapExceeded, Refresh, PressCard, PressToast, CloseToast, ServerReads,
     ServerAnswers, ServerCommits, ServerFails, Answered, Unanswered, Told
<1>3. FormNext => UNCHANGED <<modalVars, blockVars>>
  BY DEF FormNext, ReadList, RenderForm, Edit, SavedElsewhere, Save, Reset, Sends, PatchReads,
     PatchFlushes, PatchCommits, PatchDies, PatchAnswered, PatchUnanswered, PatchTold,
     UnchangedByServer
<1> QED
  BY <1>1, <1>2, <1>3

\* Every step keeps the types.
LEMMA TypeStep == TypeInv /\ [Next]_vars => TypeInv'
<1> SUFFICES ASSUME TypeInv, [Next]_vars
             PROVE  clicks' \in 0..MaxClicks /\ ModalTypes' /\ BlockTypes' /\ FormTypes'
  <2>1. (clicks \in 0..MaxClicks /\ ModalTypes /\ BlockTypes /\ FormTypes => TypeInv)'
    BY TypeParts, PTL
  <2> QED
    BY <2>1
<1>1. clicks \in 0..MaxClicks /\ ModalTypes /\ BlockTypes /\ FormTypes
  BY TypeParts
<1>2. CASE ModalNext
  BY <1>1, <1>2, PartsApart, ModalTypeStep, Untouched
<1>3. CASE BlockNext
  BY <1>1, <1>3, PartsApart, BlockTypeStep, Untouched
<1>4. CASE FormNext
  BY <1>1, <1>4, PartsApart, FormTypeStep, Untouched
<1>5. CASE UNCHANGED vars
  BY <1>1, <1>5, Untouched DEF vars
<1> QED
  BY <1>2, <1>3, <1>4, <1>5 DEF Next

\* Every variable keeps its type, a log is only kept for a watched instance, for all
\* tasks, panels and bounds (TypeOK).
THEOREM TypeCorrect == Spec => []TypeOK
<1>1. Init => TypeInv
  BY TypeInit
<1>2. TypeInv /\ [Next]_vars => TypeInv'
  BY TypeStep
<1>3. TypeInv => TypeOK
  BY DEF TypeInv
<1> QED
  BY <1>1, <1>2, <1>3, PTL DEF Spec

-----------------------------------------------------------------------------
(* The approvals *)

\* A request to approve that the server has read and not yet committed, answered or not.
Inside(r) == r.stage \in {"read", "answered"} /\ r.what = "approve"

\* Two approvals of one block inside the server are a race, and a block that was approved
\* is over, with no other approval of it inside.
BlockInv ==
  /\ blocked => block # 0
  /\ \A b \in 0..MaxBlocks : b > block \/ b = 0 => approvals[b] = 0
  /\ \A r \in requests : r.block <= block /\ (Inside(r) => r.block # 0)
  /\ \A r, q \in requests :
       (Inside(r) /\ Inside(q) /\ r.block = q.block) => (r = q \/ r.block \in raced)
  /\ \A b \in 0..MaxBlocks : (approvals[b] # 0 /\ b \notin raced) =>
       /\ approvals[b] = 1
       /\ ~(blocked /\ block = b)
       /\ \A r \in requests : Inside(r) => r.block # b

\* A step that neither reads, commits nor blocks leaves the approvals as they are.
LEMMA BlockFramed ==
  ASSUME BlockInv, UNCHANGED <<blocked, block, approvals, raced>>,
         \A r \in requests' : r.block <= block,
         \A r \in requests' : Inside(r) => \E q \in requests : Inside(q) /\ q.block = r.block,
         \A r, s \in requests' :
           (Inside(r) /\ Inside(s) /\ r # s) =>
             \E p, q \in requests : /\ p # q /\ Inside(p) /\ Inside(q)
                                    /\ p.block = r.block /\ q.block = s.block
  PROVE  BlockInv'
<1> USE DEF BlockInv
<1>1. \A r, s \in requests' :
        (Inside(r) /\ Inside(s) /\ r.block = s.block) => (r = s \/ r.block \in raced)
  OBVIOUS
<1>2. \A b \in 0..MaxBlocks : (approvals[b] # 0 /\ b \notin raced) =>
        \A r \in requests' : Inside(r) => r.block # b
  OBVIOUS
<1>3. \A r \in requests' : Inside(r) => r.block # 0
  OBVIOUS
<1> QED
  BY <1>1, <1>2, <1>3 DEF Inside

\* Nor does one that changes a request without letting it in.
LEMMA BlockKept ==
  ASSUME BlockInv, UNCHANGED <<blocked, block, approvals, raced>>,
         NEW r \in requests, NEW s, requests' \subseteq (requests \ {r}) \cup {s},
         s.block = r.block, Inside(s) => Inside(r)
  PROVE  BlockInv'
<1>1. \A q \in requests' : q = s \/ (q \in requests /\ q # r)
  OBVIOUS
<1>2. \A q \in requests' : q.block <= block
  BY <1>1 DEF BlockInv
<1>3. \A q \in requests' : Inside(q) => \E p \in requests : Inside(p) /\ p.block = q.block
  BY <1>1
<1>4. ASSUME NEW p \in requests', NEW q \in requests', Inside(p), Inside(q), p # q
      PROVE  \E x, y \in requests : /\ x # y /\ Inside(x) /\ Inside(y)
                                    /\ x.block = p.block /\ y.block = q.block
  <2>1. CASE p = s
    <3>1. q \in requests /\ q # r /\ Inside(r)
      BY <1>1, <1>4, <2>1
    <3> QED
      BY <1>4, <2>1, <3>1
  <2>2. CASE q = s
    <3>1. p \in requests /\ p # r /\ Inside(r)
      BY <1>1, <1>4, <2>2
    <3> QED
      BY <1>4, <2>2, <3>1
  <2>3. CASE p # s /\ q # s
    BY <1>1, <1>4, <2>3
  <2> QED
    BY <2>1, <2>2, <2>3
<1> QED
  BY <1>2, <1>3, <1>4, BlockFramed

\* What the server or the tab makes of a request replaces it or removes it.
LEMMA RequestBecomes ==
  ASSUME BlockTypes, NEW r \in requests
  PROVE  /\ \A s : Becomes(r, s) \subseteq (requests \ {r}) \cup {s}
         /\ \A stage \in Stages : /\ [r EXCEPT !.stage = stage].stage = stage
                                  /\ [r EXCEPT !.stage = stage].block = r.block
                                  /\ [r EXCEPT !.stage = stage].what = r.what
         /\ [r EXCEPT !.waits = FALSE].stage = r.stage
         /\ [r EXCEPT !.waits = FALSE].block = r.block
         /\ [r EXCEPT !.waits = FALSE].what = r.what
BY DEF Becomes, Kept, BlockTypes, Requests, Stages

\* Nor does one that moves a request on without letting it in,
LEMMA BlockMoved ==
  ASSUME BlockTypes, BlockInv, UNCHANGED <<blocked, block, approvals, raced>>,
         NEW r \in requests, NEW stage \in Stages, requests' = At(r, stage),
         stage \in {"read", "answered"} => r.stage \in {"read", "answered"}
  PROVE  BlockInv'
<1> DEFINE s == [r EXCEPT !.stage = stage]
<1>1. s.stage = stage /\ s.block = r.block /\ s.what = r.what
  BY RequestBecomes
<1>2. requests' \subseteq (requests \ {r}) \cup {s}
  BY RequestBecomes DEF At
<1> HIDE DEF s
<1>3. Inside(s) => Inside(r)
  BY <1>1 DEF Inside
<1> QED
  BY <1>1, <1>2, <1>3, BlockKept

\* or tells the tab.
LEMMA BlockTold ==
  ASSUME BlockTypes, BlockInv, UNCHANGED <<blocked, block, approvals, raced>>,
         NEW r \in requests, requests' = Becomes(r, [r EXCEPT !.waits = FALSE])
  PROVE  BlockInv'
<1> DEFINE s == [r EXCEPT !.waits = FALSE]
<1>1. s.stage = r.stage /\ s.block = r.block /\ s.what = r.what
  BY RequestBecomes
<1>2. requests' \subseteq (requests \ {r}) \cup {s}
  BY RequestBecomes
<1> HIDE DEF s
<1>3. Inside(s) => Inside(r)
  BY <1>1 DEF Inside
<1> QED
  BY <1>1, <1>2, <1>3, BlockKept

\* A block is approved once, unless another request was in the server beside the one that did.
LEMMA BlockStep ==
  ASSUME BlockTypes, BlockInv, BlockNext
  PROVE  BlockInv'
<1>1. CASE CapExceeded
  <2>1. block' = block + 1 /\ block' \in 1..MaxBlocks /\ approvals[block'] = 0
    BY <1>1, ConsoleAssumption DEF CapExceeded, BlockTypes, BlockInv
  <2>2. \A r \in requests : r.block \in Nat
    BY DEF BlockTypes, Requests
  <2>3. UNCHANGED <<requests, approvals, raced>>
    BY <1>1 DEF CapExceeded
  <2>4. \A r \in requests : r.block <= block' /\ (Inside(r) => r.block # 0)
    BY <2>1, <2>2 DEF BlockInv, BlockTypes
  <2> QED
    BY <2>1, <2>3, <2>4 DEF BlockInv, BlockTypes, Inside
<1>2. CASE Refresh
  BY <1>2, BlockFramed DEF Refresh, Detached, BlockTypes, BlockInv, Requests, Inside
<1>3. ASSUME NEW from, NEW what, requests' = Sent(from, what),
             UNCHANGED <<blocked, block, approvals, raced>>
      PROVE  BlockInv'
  BY <1>3, BlockFramed DEF Sent, BlockTypes, BlockInv, Inside
<1>4. CASE PressCard \/ PressToast
  BY <1>3, <1>4 DEF PressCard, PressToast
<1>5. CASE CloseToast
  BY <1>5, BlockFramed DEF CloseToast, Detached, BlockTypes, BlockInv, Requests, Inside
<1>6. ASSUME NEW r \in requests, ServerReads(r) PROVE BlockInv'
  <2>1. CASE r.what = "move" \/ blocked
    <3> DEFINE s == [r EXCEPT !.stage = "read", !.block = BlockRead]
    <3>1. /\ r.stage = "sent" /\ requests' \subseteq (requests \ {r}) \cup {s}
          /\ raced' = IF r.what = "approve" /\ Open2nd(r) THEN raced \cup {BlockRead} ELSE raced
          /\ UNCHANGED <<blocked, block, approvals>>
      BY <1>6, <2>1, RequestBecomes DEF ServerReads, MayApprove
    <3>2. s.stage = "read" /\ s.what = r.what /\ s.block = BlockRead
      BY DEF BlockTypes, Requests
    <3>3. \A q \in requests' : q = s \/ q \in requests
      BY <3>1
    <3> HIDE DEF s
    <3>4. BlockRead <= block /\ (blocked => BlockRead = block)
      BY DEF BlockRead, BlockTypes
    <3>5. Inside(s) => blocked /\ r.what = "approve"
      BY <2>1, <3>2 DEF Inside
    <3>6. \A q \in requests' : q.block <= block /\ (Inside(q) => q.block # 0)
      BY <3>2, <3>3, <3>4, <3>5 DEF BlockInv
    <3>7. ASSUME NEW p \in requests', NEW q \in requests', Inside(p), Inside(q),
                 p.block = q.block, p # q
          PROVE  p.block \in raced'
      <4>1. CASE p \in requests /\ q \in requests
        BY <3>1, <3>7, <4>1 DEF BlockInv
      <4>2. CASE p = s /\ q \in requests
        <5>1. q.stage \in {"read", "answered"} /\ q.what = "approve" /\ q.block = BlockRead
          BY <3>2, <3>7, <4>2 DEF Inside
        <5>2. Open2nd(r)
          BY <4>2, <5>1 DEF Open2nd
        <5> QED
          BY <3>1, <3>2, <3>5, <3>7, <4>2, <5>2
      <4>3. CASE q = s /\ p \in requests
        <5>1. p.stage \in {"read", "answered"} /\ p.what = "approve" /\ p.block = BlockRead
          BY <3>2, <3>7, <4>3 DEF Inside
        <5>2. Open2nd(r)
          BY <4>3, <5>1 DEF Open2nd
        <5> QED
          BY <3>1, <3>2, <3>5, <3>7, <4>3, <5>2
      <4> QED
        BY <3>3, <3>7, <4>1, <4>2, <4>3
    <3>8. ASSUME NEW b \in 0..MaxBlocks, approvals[b] # 0, b \notin raced'
          PROVE  /\ approvals[b] = 1 /\ ~(blocked /\ block = b)
                 /\ \A q \in requests' : Inside(q) => q.block # b
      <4>1. b \notin raced
        BY <3>1, <3>8
      <4>2. /\ approvals[b] = 1 /\ ~(blocked /\ block = b)
            /\ \A q \in requests : Inside(q) => q.block # b
        BY <3>8, <4>1 DEF BlockInv
      <4> QED
        BY <3>2, <3>3, <3>4, <3>5, <4>2
    <3> QED
      BY <3>1, <3>6, <3>7, <3>8 DEF BlockInv, Inside
  <2>2. CASE ~(r.what = "move" \/ blocked)
    <3>1. requests' = At(r, "refused") /\ UNCHANGED <<blocked, block, approvals, raced>>
      BY <1>6, <2>2 DEF ServerReads, MayApprove
    <3> QED
      BY <3>1, BlockMoved DEF Stages
  <2> QED
    BY <2>1, <2>2
<1>7. ASSUME NEW r \in requests, ServerCommits(r) PROVE BlockInv'
  <2> DEFINE s == [r EXCEPT !.stage = "over"]
  <2>1. /\ requests' \subseteq (requests \ {r}) \cup {s} /\ r.stage = "answered"
        /\ blocked' \in {blocked, FALSE} /\ UNCHANGED <<block, raced>>
    BY <1>7, RequestBecomes DEF ServerCommits, At
  <2>2. s.stage = "over" /\ s.block = r.block
    BY DEF BlockTypes, Requests
  <2> HIDE DEF s
  <2>3. \A q \in requests' : (q \in requests /\ q # r) \/ (~Inside(q) /\ q.block <= block)
    BY <2>1, <2>2 DEF BlockInv, Inside
  <2>4. r.block \in 0..MaxBlocks /\ r.block <= block /\ approvals \in [0..MaxBlocks -> Nat]
    BY DEF BlockTypes, BlockInv, Requests
  <2>5. \A q \in requests' : q.block <= block /\ (Inside(q) => q.block # 0)
    BY <2>3 DEF BlockInv
  <2>6. \A p, q \in requests' :
          (Inside(p) /\ Inside(q) /\ p.block = q.block) => (p = q \/ p.block \in raced)
    BY <2>3 DEF BlockInv
  <2>7. blocked' => block # 0
    BY <2>1 DEF BlockInv
  <2>8. CASE r.what = "approve"
    <3>1. Inside(r) /\ r.block # 0 /\ blocked' = FALSE
      BY <1>7, <2>1, <2>8 DEF Inside, BlockInv, ServerCommits
    <3>2. r.block \notin raced =>
            approvals[r.block] = 0 /\ \A q \in requests : (Inside(q) /\ q # r) => q.block # r.block
      BY <2>4, <3>1 DEF BlockInv
    <3>3. \A b \in 0..MaxBlocks :
            approvals'[b] = IF b = r.block THEN approvals[b] + 1 ELSE approvals[b]
      BY <1>7, <2>4, <2>8 DEF ServerCommits
    <3>4. \A b \in 0..MaxBlocks : b > block \/ b = 0 => approvals'[b] = 0
      BY <2>4, <3>1, <3>3 DEF BlockInv, BlockTypes
    <3>5. ASSUME NEW b \in 0..MaxBlocks, approvals'[b] # 0, b \notin raced
          PROVE  approvals'[b] = 1 /\ \A q \in requests' : Inside(q) => q.block # b
      <4>1. CASE b = r.block
        BY <2>3, <3>2, <3>3, <3>5, <4>1
      <4>2. CASE b # r.block
        BY <2>3, <3>3, <3>5, <4>2 DEF BlockInv
      <4> QED
        BY <4>1, <4>2
    <3> QED
      BY <2>1, <2>5, <2>6, <2>7, <3>1, <3>4, <3>5 DEF BlockInv, Inside
  <2>9. CASE r.what # "approve"
    <3>1. approvals' = approvals
      BY <1>7, <2>9 DEF ServerCommits
    <3>2. \A b \in 0..MaxBlocks : (approvals[b] # 0 /\ b \notin raced) =>
            /\ approvals[b] = 1 /\ ~(blocked' /\ block = b)
            /\ \A q \in requests' : Inside(q) => q.block # b
      BY <2>1, <2>3 DEF BlockInv
    <3>3. \A b \in 0..MaxBlocks : b > block \/ b = 0 => approvals[b] = 0
      BY DEF BlockInv
    <3> QED
      BY <2>1, <2>5, <2>6, <2>7, <3>1, <3>2, <3>3 DEF BlockInv, Inside
  <2> QED
    BY <2>8, <2>9
<1>8. ASSUME NEW r \in requests, ServerAnswers(r) \/ ServerFails(r) PROVE BlockInv'
  <2>1. \/ requests' = At(r, "answered") /\ r.stage = "read"
        \/ requests' = At(r, "refused") \/ requests' = At(r, "over")
    BY <1>8 DEF ServerAnswers, ServerFails
  <2>2. UNCHANGED <<blocked, block, approvals, raced>>
    BY <1>8 DEF ServerAnswers, ServerFails
  <2>3. CASE requests' = At(r, "answered") /\ r.stage = "read"
    BY <2>2, <2>3, BlockMoved DEF Stages
  <2>4. CASE requests' = At(r, "refused")
    BY <2>2, <2>4, BlockMoved DEF Stages
  <2>5. CASE requests' = At(r, "over")
    BY <2>2, <2>5, BlockMoved DEF Stages
  <2> QED
    BY <2>1, <2>3, <2>4, <2>5
<1>9. ASSUME NEW r \in requests, Answered(r) \/ Unanswered(r) PROVE BlockInv'
  <2>1. /\ requests' = Becomes(r, [r EXCEPT !.waits = FALSE])
        /\ UNCHANGED <<blocked, block, approvals, raced>>
    BY <1>9 DEF Answered, Unanswered, Told
  <2> QED
    BY <2>1, BlockTold
<1> QED
  BY <1>1, <1>2, <1>4, <1>5, <1>6, <1>7, <1>8, <1>9 DEF BlockNext

\* Approving is single: a block is approved once, whatever card, toast or refreshed card it
\* is pressed on and however late the server commits what it has answered, unless an approval
\* read the block before another had committed, for every number of blocks and clicks
\* (ApprovedOnce).
THEOREM ApprovalsSingle == Spec => []ApprovedOnce
<1> DEFINE Inv == TypeInv /\ BlockInv
<1>1. Init => Inv
  <2>1. Init => BlockInv
    BY ConsoleAssumption DEF Init, BlockInv
  <2> QED
    BY <2>1, TypeInit
<1>2. Inv /\ [Next]_vars => Inv'
  <2> SUFFICES ASSUME TypeInv, BlockInv, [Next]_vars PROVE BlockInv'
    BY TypeStep
  <2>1. BlockTypes
    BY TypeParts
  <2>2. CASE BlockNext
    BY <2>1, <2>2, BlockStep
  <2>3. CASE ModalNext \/ FormNext \/ UNCHANGED vars
    <3>1. UNCHANGED blockVars
      BY <2>3, PartsApart DEF vars
    <3> QED
      BY <3>1 DEF blockVars, BlockInv, Inside
  <2> QED
    BY <2>2, <2>3 DEF Next
<1>3. Inv => ApprovedOnce
  BY DEF BlockInv, ApprovedOnce
<1> QED
  BY <1>1, <1>2, <1>3, PTL DEF Spec

-----------------------------------------------------------------------------
(* The forms *)

\* A save that will write the field when it commits, or may yet.
Pending(q, f) ==
  f \in q.panel /\ (q.stage = "sent" \/ (q.stage \in {"read", "flushed"} /\ f \in Written(q)))

\* As long as nobody else writes a field, every save under way carries what was saved last,
\* one that will not write it has found it stored, and it is stored or one will write it.
FormInv ==
  \A f \in Fields : (saved[f] # <<>> /\ f \notin contested) =>
    /\ \A q \in patches : f \in q.panel => q.row[f] = saved[f][1]
    /\ \A q \in patches : (f \in q.panel /\ q.stage \in {"read", "flushed"} /\ f \notin Written(q))
                             => stored[f] = saved[f][1]
    /\ stored[f] = saved[f][1] \/ \E q \in patches : Pending(q, f)

\* What a press sends is what was saved last.
LEMMA SendsForm ==
  ASSUME FormTypes, FormInv, NEW p \in Panels, NEW row \in Contents, Sends(p, row)
  PROVE  FormInv'
<1> DEFINE new(n) == [id |-> <<clicks, n>>, panel |-> p, row |-> row, seen |-> None,
                      stage |-> "sent", waits |-> TRUE]
<1>1. patches' = patches \cup {new(n) : n \in 1..listeners[p]}
  BY DEF Sends
<1>2. \A q \in patches : q.panel \in Panels
  BY DEF FormTypes, Patches
<1>3. SUFFICES ASSUME NEW f \in Fields, saved'[f] # <<>>, f \notin contested'
               PROVE  /\ \A q \in patches' : f \in q.panel => q.row[f] = saved'[f][1]
                      /\ \A q \in patches' :
                           (f \in q.panel /\ q.stage \in {"read", "flushed"} /\ f \notin Written(q))
                              => stored'[f] = saved'[f][1]
                      /\ stored'[f] = saved'[f][1] \/ \E q \in patches' : Pending(q, f)
  BY DEF FormInv, Pending, Written
<1>4. saved' = [g \in Fields |-> IF g \in p THEN <<row[g]>> ELSE saved[g]] /\ stored' = stored
  BY DEF Sends
<1>5. \A q \in patches' : q \in patches \/ (q.panel = p /\ q.row = row /\ q.stage = "sent")
  BY <1>1
<1>6. CASE f \in p
  <2>1. \A q \in patches : f \notin q.panel
    <3>1. ~\E q \in patches : q.panel = p
      BY <1>3, <1>6 DEF Sends
    <3> QED
      BY <1>2, <1>6, <3>1, ConsoleAssumption
  <2>2. new(1) \in patches' /\ Pending(new(1), f)
    <3>1. 1 \in 1..listeners[p]
      BY DEF Sends, FormTypes
    <3> QED
      BY <1>1, <1>6, <3>1 DEF Pending
  <2>3. saved'[f][1] = row[f]
    BY <1>4, <1>6
  <2> HIDE DEF new
  <2> QED
    BY <1>5, <2>1, <2>2, <2>3
<1>7. CASE f \notin p
  <2>1. f \notin contested /\ saved'[f] = saved[f] /\ saved[f] # <<>>
    BY <1>3, <1>4, <1>7 DEF Sends
  <2>2. /\ \A q \in patches : f \in q.panel => q.row[f] = saved[f][1]
        /\ \A q \in patches :
             (f \in q.panel /\ q.stage \in {"read", "flushed"} /\ f \notin Written(q))
                => stored[f] = saved[f][1]
        /\ stored[f] = saved[f][1] \/ \E q \in patches : Pending(q, f)
    BY <2>1 DEF FormInv
  <2>3. patches \subseteq patches'
    BY <1>1
  <2> HIDE DEF new
  <2> QED
    BY <1>4, <1>5, <1>7, <2>1, <2>2, <2>3
<1> QED
  BY <1>6, <1>7

\* A step of a save that leaves what it carries, what is stored and whether it will write
\* as they are for a field keeps them all.
LEMMA PatchKeeps ==
  ASSUME FormTypes, FormInv, NEW q \in patches, NEW r, PatchBecomes(q, r),
         r.panel = q.panel, r.row = q.row, stored' = stored, saved' = saved,
         contested' \in {contested, contested \cup q.panel},
         contested' = contested => \A f \in q.panel : saved[f] # <<>> /\ f \notin contested =>
           /\ Pending(q, f) => Pending(r, f) \/ stored[f] = saved[f][1]
           /\ (r.stage \in {"read", "flushed"} /\ f \notin Written(r)) => stored[f] = saved[f][1]
  PROVE  FormInv'
<1>1. \A x \in patches' : (x \in patches /\ x # q) \/ x = r
  BY DEF PatchBecomes, PatchKept
<1>2. \A x \in patches : x # q => x \in patches'
  BY DEF PatchBecomes
<1>3. \A f : Pending(r, f) => r \in patches'
  BY DEF PatchBecomes, PatchKept, Pending
<1>4. SUFFICES ASSUME NEW f \in Fields, saved[f] # <<>>, f \notin contested'
               PROVE  /\ \A x \in patches' : f \in x.panel => x.row[f] = saved[f][1]
                      /\ \A x \in patches' :
                           (f \in x.panel /\ x.stage \in {"read", "flushed"} /\ f \notin Written(x))
                              => stored[f] = saved[f][1]
                      /\ stored[f] = saved[f][1] \/ \E x \in patches' : Pending(x, f)
  BY DEF FormInv, Pending, Written
<1>5. /\ \A x \in patches : f \in x.panel => x.row[f] = saved[f][1]
      /\ \A x \in patches :
           (f \in x.panel /\ x.stage \in {"read", "flushed"} /\ f \notin Written(x))
              => stored[f] = saved[f][1]
      /\ stored[f] = saved[f][1] \/ \E x \in patches : Pending(x, f)
  BY <1>4 DEF FormInv
<1>6. CASE f \in q.panel
  <2>1. /\ Pending(q, f) => Pending(r, f) \/ stored[f] = saved[f][1]
        /\ (r.stage \in {"read", "flushed"} /\ f \notin Written(r)) => stored[f] = saved[f][1]
    BY <1>4, <1>6
  <2> QED
    BY <1>1, <1>2, <1>3, <1>5, <1>6, <2>1
<1>7. CASE f \notin q.panel
  <2>1. ~Pending(q, f)
    BY <1>7 DEF Pending
  <2> QED
    BY <1>1, <1>2, <1>5, <1>7, <2>1
<1> QED
  BY <1>6, <1>7

\* The forms keep what was saved last in the saves under way.
LEMMA FormStep ==
  ASSUME FormTypes, FormInv, FormNext
  PROVE  FormInv'
<1> DEFINE Sameform == UNCHANGED <<stored, saved, contested, patches>>
<1>0. Sameform => FormInv'
  BY DEF FormInv, Pending, Written
<1>1. ASSUME NEW l \in loads, ReadList(l) \/ RenderForm(l) PROVE FormInv'
  BY <1>0, <1>1 DEF ReadList, RenderForm
<1>2. ASSUME NEW f \in Fields, NEW v \in Values \cup {None}, Edit(f, v) PROVE FormInv'
  BY <1>0, <1>2 DEF Edit
<1>3. ASSUME NEW f \in Fields, NEW v \in Values \cup {None}, SavedElsewhere(f, v) PROVE FormInv'
  <2>1. /\ UNCHANGED <<saved, patches>> /\ contested' = contested \cup {f}
        /\ \A g \in Fields : g # f => stored'[g] = stored[g]
    BY <1>3 DEF SavedElsewhere, FormTypes, Contents
  <2> QED
    BY <2>1 DEF FormInv, Pending, Written
<1>4. ASSUME NEW p \in Panels, Save(p) PROVE FormInv'
  BY <1>4, SendsForm DEF Save, FormTypes
<1>5. ASSUME NEW p \in Panels, Reset(p) PROVE FormInv'
  <2>1. [f \in Fields |-> None] \in Contents /\ Sends(p, [f \in Fields |-> None])
    BY <1>5 DEF Contents, Reset
  <2> HIDE DEF FormInv
  <2> QED
    BY <2>1, SendsForm
<1>6. ASSUME NEW q \in patches, PatchReads(q) PROVE FormInv'
  <2> DEFINE r == [q EXCEPT !.stage = "read", !.seen = stored]
  <2>1. r.panel = q.panel /\ r.row = q.row /\ r.seen = stored /\ r.stage = "read"
    BY DEF FormTypes, Patches
  <2>2. PatchBecomes(q, r) /\ UNCHANGED <<stored, saved, contested>>
    BY <1>6 DEF PatchReads, UnchangedByServer
  <2> HIDE DEF r
  <2>3. ASSUME NEW f \in q.panel, saved[f] # <<>>, f \notin contested
        PROVE  /\ f \in Written(r) \/ stored[f] = saved[f][1]
               /\ Pending(r, f) \/ stored[f] = saved[f][1]
    <3>1. f \in Fields /\ q.row[f] = saved[f][1]
      BY <2>3 DEF FormInv, FormTypes, Patches, Fields
    <3> QED
      BY <2>1, <3>1 DEF Written, Pending
  <2> QED
    BY <2>1, <2>2, <2>3, PatchKeeps
<1>7. ASSUME NEW q \in patches, PatchFlushes(q) PROVE FormInv'
  <2> DEFINE r == [q EXCEPT !.stage = "flushed"]
  <2>1. r.panel = q.panel /\ r.row = q.row /\ r.seen = q.seen /\ r.stage = "flushed"
    BY DEF FormTypes, Patches
  <2>2. PatchBecomes(q, r) /\ UNCHANGED <<stored, saved, contested>> /\ q.stage = "read"
    BY <1>7 DEF PatchFlushes, UnchangedByServer
  <2> HIDE DEF r
  <2>3. Written(r) = Written(q)
    BY <2>1 DEF Written
  <2>4. ASSUME NEW f \in q.panel, saved[f] # <<>>, f \notin contested
        PROVE  /\ Pending(q, f) => Pending(r, f)
               /\ f \notin Written(r) => stored[f] = saved[f][1]
    <3>1. f \in Fields
      BY DEF FormTypes, Patches, Fields
    <3> QED
      BY <2>1, <2>2, <2>3, <2>4, <3>1 DEF Pending, FormInv
  <2> QED
    BY <2>1, <2>2, <2>4, PatchKeeps
<1>8. ASSUME NEW q \in patches, PatchCommits(q) PROVE FormInv'
  <2> DEFINE r == [q EXCEPT !.stage = "over"]
  <2>1. r.panel = q.panel /\ r.row = q.row /\ r.stage = "over"
    BY DEF FormTypes, Patches
  <2>2. PatchBecomes(q, r) /\ UNCHANGED <<saved, contested>> /\ q.stage = "flushed"
    BY <1>8 DEF PatchCommits, UnchangedByServer
  <2> HIDE DEF r
  <2>3. \A f \in Fields : stored'[f] = IF f \in Written(q) THEN q.row[f] ELSE stored[f]
    BY <1>8 DEF PatchCommits
  <2>4. \A x \in patches' : (x \in patches /\ x # q) \/ x = r
    BY <2>2 DEF PatchBecomes, PatchKept
  <2>5. \A x \in patches : x # q => x \in patches'
    BY <2>2 DEF PatchBecomes
  <2>6. Written(q) \subseteq q.panel
    BY DEF Written
  <2>7. SUFFICES ASSUME NEW f \in Fields, saved[f] # <<>>, f \notin contested
                 PROVE  /\ \A x \in patches' : f \in x.panel => x.row[f] = saved[f][1]
                        /\ \A x \in patches' :
                             (f \in x.panel /\ x.stage \in {"read", "flushed"}
                                             /\ f \notin Written(x))
                                => stored'[f] = saved[f][1]
                        /\ stored'[f] = saved[f][1] \/ \E x \in patches' : Pending(x, f)
    BY <2>2 DEF FormInv, Pending, Written
  <2>8. /\ \A x \in patches : f \in x.panel => x.row[f] = saved[f][1]
        /\ \A x \in patches :
             (f \in x.panel /\ x.stage \in {"read", "flushed"} /\ f \notin Written(x))
                => stored[f] = saved[f][1]
        /\ stored[f] = saved[f][1] \/ \E x \in patches : Pending(x, f)
    BY <2>7 DEF FormInv
  <2>9. CASE f \in q.panel
    <3>1. stored'[f] = saved[f][1]
      BY <2>2, <2>3, <2>8, <2>9
    <3> QED
      BY <2>1, <2>4, <2>8, <3>1
  <2>10. CASE f \notin q.panel
    <3>1. stored'[f] = stored[f] /\ ~Pending(q, f)
      BY <2>3, <2>6, <2>10 DEF Pending
    <3> QED
      BY <2>1, <2>4, <2>5, <2>8, <2>10, <3>1
  <2> QED
    BY <2>9, <2>10
<1>9. ASSUME NEW q \in patches, PatchDies(q) PROVE FormInv'
  <2>1. PICK stage \in {"over", "refused"} : PatchBecomes(q, [q EXCEPT !.stage = stage])
    BY <1>9 DEF PatchDies
  <2> DEFINE r == [q EXCEPT !.stage = stage]
  <2>2. r.panel = q.panel /\ r.row = q.row /\ r.stage \in {"over", "refused"}
    BY DEF FormTypes, Patches
  <2>3. UNCHANGED <<stored, saved>> /\ contested' = contested \cup q.panel /\ PatchBecomes(q, r)
    BY <1>9, <2>1 DEF PatchDies, UnchangedByServer
  <2> HIDE DEF r
  <2>4. contested' = contested =>
          \A f \in q.panel : ~(saved[f] # <<>> /\ f \notin contested)
    BY <2>3
  <2> QED
    BY <2>2, <2>3, <2>4, PatchKeeps
<1>10. ASSUME NEW q \in patches, PatchAnswered(q) \/ PatchUnanswered(q) PROVE FormInv'
  <2> DEFINE r == [q EXCEPT !.waits = FALSE]
  <2>1. r.panel = q.panel /\ r.row = q.row /\ r.seen = q.seen /\ r.stage = q.stage
    BY DEF FormTypes, Patches
  <2>2. PatchBecomes(q, r) /\ UNCHANGED <<stored, saved, contested>>
    BY <1>10 DEF PatchAnswered, PatchUnanswered, PatchTold
  <2> HIDE DEF r
  <2>3. Written(r) = Written(q)
    BY <2>1 DEF Written
  <2>4. ASSUME NEW f \in q.panel, saved[f] # <<>>, f \notin contested
        PROVE  /\ Pending(q, f) => Pending(r, f)
               /\ (r.stage \in {"read", "flushed"} /\ f \notin Written(r))
                     => stored[f] = saved[f][1]
    <3>1. f \in Fields
      BY DEF FormTypes, Patches, Fields
    <3> QED
      BY <2>1, <2>3, <2>4, <3>1 DEF Pending, FormInv
  <2> QED
    BY <2>1, <2>2, <2>4, PatchKeeps
<1> QED
  BY <1>1, <1>2, <1>3, <1>4, <1>5, <1>6, <1>7, <1>8, <1>9, <1>10 DEF FormNext

\* What the tab saved last in a field is what is stored once its requests are over in the
\* server, though it is told so before they commit and a save writes only what differs from
\* what it read, for all panels and any number of duplicate listeners, but for the
\* exceptions LastSaveStored states.
THEOREM SavesLast == Spec => []LastSaveStored
<1> DEFINE Inv == TypeInv /\ FormInv
<1>1. Init => Inv
  <2>1. Init => FormInv
    BY DEF Init, FormInv
  <2> QED
    BY <2>1, TypeInit
<1>2. Inv /\ [Next]_vars => Inv'
  <2> SUFFICES ASSUME TypeInv, FormInv, [Next]_vars PROVE FormInv'
    BY TypeStep
  <2>1. FormTypes
    BY TypeParts
  <2>2. CASE FormNext
    BY <2>1, <2>2, FormStep
  <2>3. CASE ModalNext \/ BlockNext \/ UNCHANGED vars
    <3>1. UNCHANGED formVars
      BY <2>3, PartsApart DEF vars
    <3> QED
      BY <3>1 DEF formVars, FormInv, Pending, Written
  <2> QED
    BY <2>2, <2>3 DEF Next
<1>3. Inv => LastSaveStored
  BY DEF FormInv, LastSaveStored, Pending
<1> QED
  BY <1>1, <1>2, <1>3, PTL DEF Spec

-----------------------------------------------------------------------------
(* The modal *)

\* The events of the open task that a list read up to some event and a log account for, with
\* those on their way and those known to be missed.
Complete(upto, shown, log) ==
  \A n \in DOMAIN recorded[modal.task] :
    IF n <= upto
    THEN n \in Listed(modal.task, "details") => n \in shown
    ELSE n \in Listed(modal.task, "log") => <<modal.task, n>> \in log \cup Onway \cup gap

\* No list goes beyond the events there are.  If no fetch was pending when the modal was
\* opened, the only one is its own, and until that is rendered there is no log.
ModalInv ==
  /\ \A f \in fetches : f.upto <= Len(recorded[f.task])
  /\ modal.body.task # None => modal.body.upto <= Len(recorded[modal.body.task])
  /\ (modal.task # None /\ alone) =>
       /\ modal.body.task \in {None, modal.task}
       /\ \A f, g \in fetches : f = g
       /\ \A f \in fetches :
            /\ f.task = modal.task /\ modal.body.task = None /\ modal.log = NoLog
            /\ f.upto # -1 => Complete(f.upto, f.events, {})
       /\ modal.body.task # None =>
            Complete(modal.body.upto, modal.body.events, modal.log)

\* The modal keeps every event of the instance that is watched, of the task that is open.
LEMMA ModalStep ==
  ASSUME ModalTypes, ModalInv, ModalNext
  PROVE  ModalInv'
<1> USE ConsoleAssumption
<1>1. ASSUME NEW t \in Tasks, Open(t) PROVE ModalInv'
  <2>1. modal' = [task |-> t, active |-> t, log |-> NoLog, body |-> NoBody]
    BY <1>1 DEF Open, Opened, Closed
  <2> DEFINE new == [id |-> clicks, task |-> t, upto |-> -1, events |-> {}]
  <2>2. /\ fetches' = fetches \cup {new} /\ recorded' = recorded
        /\ alone' => fetches = {}
    BY <1>1 DEF Open
  <2>3. new.task = t /\ new.upto = -1 /\ new.upto <= Len(recorded[t])
    BY ListedTypes
  <2>4. modal'.task = t /\ modal'.body.task = None /\ modal'.log = NoLog
    BY <2>1 DEF NoBody
  <2> HIDE DEF new
  <2> QED
    BY <2>2, <2>3, <2>4 DEF ModalInv
<1>2. ASSUME NEW t \in Tasks, NEW kind \in EventKinds, EventRecorded(t, kind) PROVE ModalInv'
  <2> DEFINE n == Len(recorded[t]) + 1
  <2>1. /\ \A u \in Tasks : u # t => recorded'[u] = recorded[u]
        /\ Len(recorded'[t]) = n /\ n \in 1..MaxEvents
        /\ \A m \in 1..Len(recorded[t]) : recorded'[t][m] = recorded[t][m]
        /\ Len(recorded[t]) \in Nat /\ DOMAIN recorded[t] = 1..Len(recorded[t])
        /\ DOMAIN recorded'[t] = 1..Len(recorded'[t])
    <3>1. recorded' \in [Tasks -> Seq(EventKinds)]
      BY <1>2, RecordedNext
    <3> QED
      BY <1>2, <3>1, RecordedNext, ListedTypes
  <2> HIDE DEF n
  <2>2. Onway' \cup gap' = Onway \cup gap \cup {<<t, n>>}
    <3>1. <<t, n>> \in Events
      BY <2>1 DEF Events
    <3>2. CASE wire' = Append(wire, <<t, n>>) /\ gap' = gap
      <4>1. wire \in Seq(Events)
        BY DEF ModalTypes
      <4>2. \A e \in Events : {Append(wire, e)[i] : i \in DOMAIN Append(wire, e)} = Onway \cup {e}
        BY <4>1, Appended DEF Onway
      <4>3. Onway' = Onway \cup {<<t, n>>}
        BY <3>1, <3>2, <4>2 DEF Onway
      <4> QED
        BY <3>2, <4>3
    <3>3. CASE wire' = wire /\ gap' = gap \cup {<<t, n>>}
      BY <3>3 DEF Onway
    <3> QED
      BY <1>2, <3>2, <3>3 DEF EventRecorded, n
  <2>3. modal' = modal /\ fetches' = fetches /\ alone' = alone
    BY <1>2 DEF EventRecorded
  <2>4. \A u \in Tasks : Len(recorded[u]) <= Len(recorded'[u])
    <3>1. \A u \in Tasks : Len(recorded[u]) \in Nat
      BY ListedTypes
    <3> QED
      BY <2>1, <3>1 DEF n
  <2>5. ASSUME modal.task # None, NEW upto \in Int, upto <= Len(recorded[modal.task]),
               NEW shown, NEW log, Complete(upto, shown, log)
        PROVE  Complete(upto, shown, log)'
    <3>1. modal.task \in Tasks
      BY <2>5 DEF ModalTypes, Modals
    <3>2. SUFFICES ASSUME NEW m \in DOMAIN recorded'[modal.task]
                   PROVE  IF m <= upto
                          THEN m \in Listed(modal.task, "details")' => m \in shown
                          ELSE m \in Listed(modal.task, "log")' =>
                                 <<modal.task, m>> \in log \cup Onway' \cup gap'
      BY <2>3 DEF Complete
    <3>3. CASE m \in DOMAIN recorded[modal.task]
      <4>1. recorded'[modal.task][m] = recorded[modal.task][m]
        BY <2>1, <3>1, <3>3
      <4>2. \A place : m \in Listed(modal.task, place)' => m \in Listed(modal.task, place)
        BY <2>3, <3>3, <4>1 DEF Listed
      <4> QED
        BY <2>2, <2>5, <3>3, <4>2 DEF Complete
    <3>4. CASE m \notin DOMAIN recorded[modal.task]
      <4>1. modal.task = t /\ m = n /\ ~(m <= upto)
        BY <2>1, <2>5, <3>1, <3>2, <3>4 DEF n
      <4> QED
        BY <2>2, <4>1
    <3> QED
      BY <3>3, <3>4
  <2>6. \A f \in fetches : f.upto \in Int /\ f.task \in Tasks /\ Len(recorded[f.task]) \in Int
                           /\ Len(recorded'[f.task]) \in Int
    <3>1. \A f \in fetches : f.upto \in Int /\ f.task \in Tasks
      BY DEF ModalTypes, Fetches
    <3>2. \A u \in Tasks : Len(recorded[u]) \in Int
      BY ListedTypes
    <3>3. \A u \in Tasks : Len(recorded'[u]) \in Int
      BY <2>1, <3>2
    <3> QED
      BY <3>1, <3>2, <3>3
  <2>7. \A f \in fetches : f.upto <= Len(recorded'[f.task])
    BY <2>4, <2>6 DEF ModalInv
  <2>8. modal.body.task # None =>
          modal.body.upto \in Int /\ modal.body.upto <= Len(recorded'[modal.body.task])
    <3>1. modal.body.task \in Tasks \cup {None} /\ modal.body.upto \in Int
      BY DEF ModalTypes, Modals, Bodies
    <3>2. \A u \in Tasks : Len(recorded[u]) \in Int /\ Len(recorded'[u]) \in Int
      <4>1. \A u \in Tasks : Len(recorded[u]) \in Int
        BY ListedTypes
      <4> QED
        BY <2>1, <4>1
    <3> QED
      BY <2>4, <3>1, <3>2 DEF ModalInv
  <2>9. ASSUME modal.task # None, alone
        PROVE  /\ \A f \in fetches : f.upto # -1 => Complete(f.upto, f.events, {})'
               /\ modal.body.task # None =>
                    Complete(modal.body.upto, modal.body.events, modal.log)'
    <3>1. \A f \in fetches : f.upto # -1 => Complete(f.upto, f.events, {})'
      BY <2>5, <2>6, <2>9 DEF ModalInv
    <3>2. modal.body.task # None =>
            Complete(modal.body.upto, modal.body.events, modal.log)'
      BY <2>3, <2>5, <2>8, <2>9 DEF ModalInv
    <3> QED
      BY <3>1, <3>2
  <2> HIDE DEF Complete
  <2> QED
    BY <2>3, <2>7, <2>8, <2>9 DEF ModalInv
<1>3. ASSUME NEW f \in fetches, ReadDetail(f) PROVE ModalInv'
  <2> DEFINE g == [f EXCEPT !.upto = Len(recorded[f.task]), !.events = Listed(f.task, "details")]
  <2>1. /\ g.task = f.task /\ g.upto = Len(recorded[f.task])
        /\ g.events = Listed(f.task, "details")
    BY DEF ModalTypes, Fetches
  <2>2. fetches' = (fetches \ {f}) \cup {g} /\ UNCHANGED <<modal, recorded, wire, gap, alone>>
    BY <1>3 DEF ReadDetail
  <2> HIDE DEF g
  <2>3. f.task \in Tasks /\ Len(recorded[f.task]) \in Nat
        /\ DOMAIN recorded[f.task] = 1..Len(recorded[f.task])
    <3>1. f.task \in Tasks
      BY DEF ModalTypes, Fetches
    <3> QED
      BY <3>1, ListedTypes
  <2>4. \A x \in fetches' : x.upto <= Len(recorded[x.task])
    BY <2>1, <2>2, <2>3 DEF ModalInv
  <2>5. ASSUME modal.task # None, alone PROVE fetches' = {g} /\ f.task = modal.task
    BY <2>2, <2>5 DEF ModalInv
  <2>6. ASSUME modal.task # None, alone
        PROVE  \A x \in fetches' : Complete(x.upto, x.events, {})'
    <3>1. SUFFICES ASSUME NEW x \in fetches', NEW n \in DOMAIN recorded[modal.task]
                   PROVE  n <= x.upto /\ (n \in Listed(modal.task, "details") => n \in x.events)
      BY <2>2 DEF Complete, Listed
    <3>2. x = g /\ f.task = modal.task
      BY <2>5, <2>6
    <3>3. n <= Len(recorded[f.task])
      BY <2>3, <3>1, <3>2
    <3> QED
      BY <2>1, <3>2, <3>3
  <2>7. (modal.task # None /\ alone) =>
          /\ modal.body.task = None /\ modal.log = NoLog
          /\ \A x, y \in fetches' : x = y
          /\ \A x \in fetches' : x.task = modal.task
    <3> HIDE DEF ModalInv
    <3>1. (modal.task # None /\ alone) => modal.body.task = None /\ modal.log = NoLog
      BY DEF ModalInv
    <3> QED
      BY <2>1, <2>5, <3>1
  <2>8. modal.body.task # None => modal.body.upto <= Len(recorded[modal.body.task])
    BY DEF ModalInv
  <2> HIDE DEF Complete
  <2> QED
    BY <2>2, <2>4, <2>6, <2>7, <2>8 DEF ModalInv
<1>4. ASSUME NEW f \in fetches, Render(f) PROVE ModalInv'
  <2>1. modal' = [task |-> modal.task, active |-> modal.active,
                  log |-> IF modal.active = None THEN NoLog ELSE {},
                  body |-> [task |-> f.task, upto |-> f.upto, events |-> f.events]]
    BY <1>4 DEF Render, ModalTypes, Modals
  <2>2. fetches' = fetches \ {f} /\ UNCHANGED <<recorded, wire, gap, alone>> /\ f.upto # -1
    BY <1>4 DEF Render
  <2>3. Onway' = Onway
    BY <2>2 DEF Onway
  <2>4. /\ modal'.task = modal.task /\ modal'.body.task = f.task /\ modal'.body.upto = f.upto
        /\ modal'.body.events = f.events
        /\ modal.task # None => modal'.log = {}
    BY <2>1 DEF ModalTypes
  <2>5. ASSUME modal.task # None, alone PROVE fetches' = {} /\ f.task = modal.task
    BY <2>2, <2>5 DEF ModalInv
  <2>6. (modal.task # None /\ alone) => Complete(modal.body.upto, modal.body.events, modal.log)'
    <3>1. (modal.task # None /\ alone) => Complete(f.upto, f.events, {})'
      <4>1. (modal.task # None /\ alone) => Complete(f.upto, f.events, {})
        BY <2>2 DEF ModalInv
      <4> QED
        BY <2>2, <2>3, <2>4, <4>1 DEF Complete, Listed
    <3>2. modal.task # None => modal'.log = {}
      BY <2>4
    <3>3. modal'.body.upto = f.upto /\ modal'.body.events = f.events
      BY <2>4
    <3> QED
      BY <3>1, <3>2, <3>3 DEF Complete
  <2>7. /\ \A x \in fetches' : x.upto <= Len(recorded'[x.task])
        /\ modal'.body.upto <= Len(recorded'[modal'.body.task])
    BY <2>2, <2>4 DEF ModalInv
  <2> HIDE DEF Complete
  <2> QED
    BY <2>2, <2>4, <2>5, <2>6, <2>7 DEF ModalInv
<1>5. ASSUME NEW f \in fetches, FetchFails(f) PROVE ModalInv'
  <2>1. modal'.task = modal.task /\ modal'.body.task = None /\ modal'.log = modal.log
    BY <1>5 DEF FetchFails, NoBody, ModalTypes, Modals
  <2>2. fetches' = fetches \ {f} /\ alone' = alone /\ recorded' = recorded
    BY <1>5 DEF FetchFails
  <2>3. (modal.task # None /\ alone) => fetches' = {}
    BY <2>2 DEF ModalInv
  <2> QED
    BY <2>1, <2>2, <2>3 DEF ModalInv
<1>6. CASE Close
  BY <1>6 DEF Close, ModalInv, ModalTypes, Modals
<1>7. CASE Arrives
  <2> DEFINE e == Head(wire)
  <2>1. wire # <<>> /\ wire' = Tail(wire) /\ UNCHANGED <<recorded, fetches, alone>>
    BY <1>7 DEF Arrives
  <2>2. Onway \subseteq {e} \cup Onway' /\ e \in Events
    <3>1. wire \in Seq(Events)
      BY DEF ModalTypes
    <3>2. /\ e \in Events
          /\ {wire[i] : i \in DOMAIN wire}
               \subseteq {e} \cup {Tail(wire)[i] : i \in DOMAIN Tail(wire)}
      BY <2>1, <3>1, Dequeued
    <3> QED
      BY <2>1, <3>2 DEF Onway
  <2>3. PICK t \in Tasks, n \in 1..MaxEvents : e = <<t, n>> /\ e[1] = t /\ e[2] = n
    BY <2>2 DEF Events
  <2>4. /\ modal'.task = modal.task /\ modal'.body = modal.body
        /\ modal.log \subseteq modal'.log /\ gap \subseteq gap'
        /\ modal.log = NoLog => modal'.log = modal.log
        /\ t = modal.active => \/ e \in gap'
                               \/ modal.log # NoLog /\ (LogShows(e) => e \in modal'.log)
    BY <1>7, <2>3 DEF Arrives, ModalTypes, Modals
  <2> HIDE DEF e
  <2>5. ASSUME modal.task # None, NEW m, <<modal.task, m>> \in Onway \cup gap
        PROVE  \/ <<modal.task, m>> \in Onway' \cup gap'
               \/ modal.log # NoLog /\ (m \in Listed(modal.task, "log") =>
                                          <<modal.task, m>> \in modal'.log)
    <3>1. CASE <<modal.task, m>> = e
      <4>1. t = modal.active /\ m = n /\ modal.task = t
        BY <2>3, <3>1 DEF ModalTypes
      <4> QED
        BY <2>3, <2>4, <3>1, <4>1 DEF LogShows
    <3>2. CASE <<modal.task, m>> # e
      BY <2>2, <2>4, <2>5, <3>2
    <3> QED
      BY <3>1, <3>2
  <2>6. ASSUME modal.task # None, alone, NEW f \in fetches, f.upto # -1
        PROVE  Complete(f.upto, f.events, {})'
    <3>1. modal.log = NoLog /\ Complete(f.upto, f.events, {})
      BY <2>6 DEF ModalInv
    <3>2. \A m : <<modal.task, m>> \in {} \cup Onway \cup gap =>
                   <<modal.task, m>> \in {} \cup Onway' \cup gap'
      BY <2>5, <2>6, <3>1
    <3> QED
      BY <2>1, <2>4, <3>1, <3>2 DEF Complete, Listed
  <2>7. ASSUME modal.task # None, alone, modal.body.task # None
        PROVE  Complete(modal.body.upto, modal.body.events, modal.log)'
    <3>1. Complete(modal.body.upto, modal.body.events, modal.log)
      BY <2>7 DEF ModalInv
    <3>2. \A m : <<modal.task, m>> \in modal.log \cup Onway \cup gap =>
                   \/ <<modal.task, m>> \in modal'.log \cup Onway' \cup gap'
                   \/ m \notin Listed(modal.task, "log")
      BY <2>4, <2>5, <2>7
    <3> QED
      BY <2>1, <2>4, <3>1, <3>2 DEF Complete, Listed
  <2> HIDE DEF Complete
  <2> QED
    BY <2>1, <2>4, <2>6, <2>7 DEF ModalInv
<1> QED
  BY <1>1, <1>2, <1>3, <1>4, <1>5, <1>6, <1>7 DEF ModalNext

\* The modal shows the task that was opened, with every event that the details list and that
\* was read, and its log misses no later one that it shows but those ModalTrue excepts, for
\* all tasks and any number and kinds of events.
THEOREM DetailsTrue == Spec => []ModalTrue
<1> DEFINE Inv == TypeInv /\ ModalInv
<1>1. Init => Inv
  <2>1. Init => ModalInv
    BY DEF Init, ModalInv, Closed, NoBody
  <2> QED
    BY <2>1, TypeInit
<1>2. Inv /\ [Next]_vars => Inv'
  <2> SUFFICES ASSUME TypeInv, ModalInv, [Next]_vars PROVE ModalInv'
    BY TypeStep
  <2>1. ModalTypes
    BY TypeParts
  <2>2. CASE ModalNext
    BY <2>1, <2>2, ModalStep
  <2>3. CASE BlockNext \/ FormNext \/ UNCHANGED vars
    <3>1. UNCHANGED modalVars
      BY <2>3, PartsApart DEF vars
    <3> QED
      BY <3>1 DEF modalVars, ModalInv, Complete, Listed, Onway
  <2> QED
    BY <2>2, <2>3 DEF Next
<1>3. Inv => ModalTrue
  BY DEF ModalInv, ModalTrue, Complete
<1> QED
  BY <1>1, <1>2, <1>3, PTL DEF Spec

(***************************************************************************)
(* Flow                                                                    *)
(***************************************************************************)

-----------------------------------------------------------------------------
(* The inductive invariant, part by part *)

States == {"active", "paused", "ended"}
Ended == Nat \cup {Null}
SessionRow == [owner : {"human", "agent"}, status : States, began : Nat, ended : Ended]
EventRow == [session : Nat, kind : Kinds, began : Nat, ended : Ended]
DeploymentRow == [session : Nat \cup {Null}, at : Nat]
IncidentRow == [owner : {"human", "pipeline"}, deployment : Nat \cup {Null}, began : Nat,
                ended : Ended]

InSession == {"end", "pause", "resume", "open", "close"}
Ops == InSession \cup {"start", "deploy", "incident", "resolve"}
CommandRecord ==
  [op : Ops, kind : Kinds \cup {Null}, session : Nat \cup {Null}, rows : SUBSET Nat, at : Nat,
   overtaken : BOOLEAN]

TablesForm ==
  /\ sessions \in Seq(SessionRow) /\ events \in Seq(EventRow)
  /\ deployments \in Seq(DeploymentRow) /\ incidents \in Seq(IncidentRow)

ShapeInv ==
  /\ now \in 0 .. MaxTime /\ begun \in 0 .. MaxCommands /\ agents \in 0 .. MaxAgents
  /\ races \in Nat
  /\ TablesForm
  /\ commands \in [Terminals -> CommandRecord \cup {Null}]

\* A row begins and ends no later than that.
By(row, time) == row.began <= time /\ (row.ended # Null => row.ended <= time)

\* What a human tracks is of sessions of a human.
HumanIn(ss, s) == s \in DOMAIN ss /\ ss[s].owner = "human"

ActiveIn(ss, s) == HumanIn(ss, s) /\ ss[s].status # "ended"

SessionsFit(ss, time) ==
  \A s \in DOMAIN ss : By(ss[s], time) /\ (ss[s].status = "ended" => ss[s].ended # Null)

EventsFit(ss, es, time) ==
  \A e \in DOMAIN es : By(es[e], time) /\ HumanIn(ss, es[e].session)

DeploymentsFit(ss, ds, time) ==
  \A d \in DOMAIN ds : ds[d].at <= time /\ (ds[d].session # Null => HumanIn(ss, ds[d].session))

IncidentsFit(ds, is, time) ==
  \A i \in DOMAIN is :
    /\ By(is[i], time)
    /\ is[i].deployment # Null =>
         is[i].deployment \in DOMAIN ds /\ ds[is[i].deployment].at <= is[i].began

RowsInv ==
  /\ SessionsFit(sessions, now) /\ EventsFit(sessions, events, now)
  /\ DeploymentsFit(sessions, deployments, now) /\ IncidentsFit(deployments, incidents, now)

\* What a command needs to write, whatever other commands did since it began.
MayWrite(c, ss, ds) ==
  /\ c.op \in InSession => HumanIn(ss, c.session)
  /\ c.op = "deploy" /\ c.session # Null => HumanIn(ss, c.session)
  /\ c.op = "open" => c.kind \in Kinds
  /\ c.op = "incident" => \A d \in c.rows : d \in DOMAIN ds /\ ds[d].at <= c.at

CommandsInv ==
  \A t \in Terminals : commands[t] # Null =>
    commands[t].at <= now /\ MayWrite(commands[t], sessions, deployments)

Running == {t \in Terminals : commands[t] # Null}

CountInv == IsFiniteSet(Running) /\ races + Cardinality(Running) <= begun

FewActive == Cardinality(Active) <= 1 + races

\* Nothing a human tracks is later than that.
AllBy(time, ss, es, ds) ==
  /\ \A s \in DOMAIN ss : ss[s].owner = "human" => By(ss[s], time)
  /\ \A e \in DOMAIN es : By(es[e], time)
  /\ \A d \in DOMAIN ds : ds[d].session # Null => ds[d].at <= time

\* What a command read is still so: it ends the open events of its session and no others,
\* and one of each kind of which there are any.
StillTrue(c, ss, es, ds) ==
  /\ AllBy(c.at, ss, es, ds)
  /\ c.op = "start" => \A s \in DOMAIN ss : ~ActiveIn(ss, s)
  /\ c.op \in InSession => ActiveIn(ss, c.session)
  /\ c.op = "deploy" /\ c.session # Null => ActiveIn(ss, c.session)
  /\ c.op = "open" =>
       \A e \in DOMAIN es : es[e].session = c.session /\ es[e].kind = c.kind => es[e].ended # Null
  /\ c.op \in {"close", "end"} =>
       \A e \in c.rows : e \in DOMAIN es /\ es[e].session = c.session /\ es[e].ended = Null
  /\ c.op = "end" =>
       \A e \in DOMAIN es : es[e].session = c.session /\ es[e].ended = Null =>
         \E f \in c.rows : es[f].kind = es[e].kind

ReadInv ==
  \A t \in Terminals : commands[t] # Null /\ ~commands[t].overtaken =>
    StillTrue(commands[t], sessions, events, deployments)

\* One is over when the other begins, and stays so.
Before(x, y) == x.ended # Null /\ x.ended <= y.began

OneAfterAnother(x, y) == Before(x, y) \/ Before(y, x)

SessionsNest(ss) ==
  /\ \A s \in DOMAIN ss : ActiveIn(ss, s) => ss[s].ended = Null
  /\ \A r, s \in DOMAIN ss :
       ss[r].owner = "human" /\ ss[s].owner = "human" /\ r # s => OneAfterAnother(ss[r], ss[s])

EventsNest(ss, es) ==
  /\ \A e \in DOMAIN es :
       /\ ss[es[e].session].began <= es[e].began
       /\ ss[es[e].session].status = "ended" =>
            es[e].ended # Null /\ es[e].ended <= ss[es[e].session].ended
  /\ \A e, f \in DOMAIN es :
       es[e].session = es[f].session /\ es[e].kind = es[f].kind /\ e # f =>
         OneAfterAnother(es[e], es[f])

DeploymentsNest(ss, ds) ==
  \A d \in DOMAIN ds : ds[d].session # Null =>
    /\ ss[ds[d].session].began <= ds[d].at
    /\ ss[ds[d].session].ended # Null => ds[d].at <= ss[ds[d].session].ended

Nests(ss, es, ds) == SessionsNest(ss) /\ EventsNest(ss, es) /\ DeploymentsNest(ss, ds)

NestInv == races = 0 => Nests(sessions, events, deployments)

FlowInv ==
  /\ ShapeInv /\ RowsInv /\ CommandsInv /\ CountInv /\ FewActive /\ ReadInv /\ NestInv

-----------------------------------------------------------------------------
(* Tables *)

\* A row that is inserted leaves the others where they are.
LEMMA RowInserted ==
  ASSUME NEW S, NEW table \in Seq(S), NEW row \in S
  PROVE  /\ Append(table, row) \in Seq(S)
         /\ \E n \in Nat :
              /\ n \notin DOMAIN table /\ DOMAIN Append(table, row) = DOMAIN table \cup {n}
              /\ Append(table, row)[n] = row
         /\ \A i \in DOMAIN table : Append(table, row)[i] = table[i]
<1>1. PICK n \in Nat : n = Len(table)
  BY LenProperties
<1>2. DOMAIN table = 1 .. n
  BY <1>1, LenProperties
<1>3. /\ Append(table, row) \in Seq(S) /\ Len(Append(table, row)) = n + 1
      /\ \A i \in 1 .. n : Append(table, row)[i] = table[i]
      /\ Append(table, row)[n + 1] = row
  BY <1>1, AppendProperties
<1>4. DOMAIN Append(table, row) = 1 .. n + 1
  BY <1>3, LenProperties
<1>5. n + 1 \notin 1 .. n /\ 1 .. n + 1 = (1 .. n) \cup {n + 1} /\ n + 1 \in Nat
  OBVIOUS
<1> QED
  BY <1>2, <1>3, <1>4, <1>5

\* Rows that are updated stay a table.
LEMMA RowsUpdated ==
  ASSUME NEW S, NEW table \in Seq(S), NEW rows,
         rows = [i \in DOMAIN table |-> rows[i]], \A i \in DOMAIN table : rows[i] \in S
  PROVE  rows \in Seq(S) /\ DOMAIN rows = DOMAIN table
<1>1. PICK n \in Nat : n = Len(table)
  BY LenProperties
<1>2. DOMAIN table = 1 .. n
  BY <1>1, LenProperties
<1>3. rows \in [1 .. n -> S]
  BY <1>2
<1> QED
  BY <1>2, <1>3, SeqDef

\* There are finitely many rows, with numbers.
LEMMA TableFinite ==
  ASSUME NEW S, NEW table \in Seq(S)
  PROVE  /\ IsFiniteSet(DOMAIN table) /\ DOMAIN table \subseteq Nat
         /\ \A i \in DOMAIN table : table[i] \in S
<1>1. PICK n \in Nat : n = Len(table)
  BY LenProperties
<1>2. DOMAIN table = 1 .. n
  BY <1>1, LenProperties
<1>3. IsFiniteSet(1 .. n)
  BY FS_Interval
<1> QED
  BY <1>2, <1>3, ElementOfSeq

\* Their rows are what their tables hold.
LEMMA RowsForm ==
  ASSUME TablesForm
  PROVE  /\ \A s \in DOMAIN sessions : sessions[s] \in SessionRow /\ s \in Nat
         /\ \A e \in DOMAIN events : events[e] \in EventRow /\ e \in Nat
         /\ \A d \in DOMAIN deployments : deployments[d] \in DeploymentRow /\ d \in Nat
         /\ \A i \in DOMAIN incidents : incidents[i] \in IncidentRow /\ i \in Nat
BY TableFinite DEF TablesForm

-----------------------------------------------------------------------------
(* What a command writes *)

\* No table loses a row, and a session of a human stays one.
Grows ==
  /\ \A s \in DOMAIN sessions :
       s \in DOMAIN sessions' /\ sessions'[s].owner = sessions[s].owner
  /\ \A d \in DOMAIN deployments :
       d \in DOMAIN deployments' /\ deployments'[d] = deployments[d]

\* At most one session becomes active; if what the command read is still so, and one does,
\* there is no other.
OneActivated(c) ==
  /\ \E x : \A s : ActiveIn(sessions', s) => ActiveIn(sessions, s) \/ s = x
  /\ StillTrue(c, sessions, events, deployments) =>
       \/ \A s : ActiveIn(sessions', s) => ActiveIn(sessions, s)
       \/ \E x : \A s : ActiveIn(sessions', s) => s = x

KeepsNest(c) ==
  StillTrue(c, sessions, events, deployments) /\ Nests(sessions, events, deployments) =>
    Nests(sessions', events', deployments')

Fits ==
  /\ SessionsFit(sessions', now) /\ EventsFit(sessions', events', now)
  /\ DeploymentsFit(sessions', deployments', now) /\ IncidentsFit(deployments', incidents', now)

RowWritten(c) == TablesForm' /\ Fits /\ Grows /\ OneActivated(c) /\ KeepsNest(c)

Writes(c) ==
  /\ c \in CommandRecord /\ now \in Nat /\ c.at <= now
  /\ TablesForm /\ RowsInv
  /\ MayWrite(c, sessions, deployments)
  /\ Write(c)

\* A session starts.
LEMMA StartWritten ==
  ASSUME FlowAssumption, NEW c, Writes(c), c.op = "start"
  PROVE  RowWritten(c)
<1> DEFINE row == Session("human", c.at)
<1>1. /\ sessions' = Append(sessions, row) /\ events' = events /\ deployments' = deployments
      /\ incidents' = incidents
  BY DEF Writes, Write
<1>2. c.at \in Nat /\ c.at <= now /\ now \in Nat /\ Null \notin Nat
  BY DEF Writes, CommandRecord, FlowAssumption
<1>3. /\ row \in SessionRow /\ row.owner = "human" /\ row.status = "active" /\ row.began = c.at
      /\ row.ended = Null
  BY <1>2 DEF Session, SessionRow, States, Ended
<1> HIDE DEF row
<1>4. /\ TablesForm /\ RowsInv
      /\ \A s \in DOMAIN sessions : sessions[s] \in SessionRow /\ s \in Nat
      /\ \A e \in DOMAIN events : events[e] \in EventRow
      /\ \A d \in DOMAIN deployments : deployments[d] \in DeploymentRow
  BY RowsForm DEF Writes
<1>5. PICK n \in Nat :
        /\ sessions' \in Seq(SessionRow)
        /\ n \notin DOMAIN sessions /\ DOMAIN sessions' = DOMAIN sessions \cup {n}
        /\ sessions'[n] = row
        /\ \A s \in DOMAIN sessions : sessions'[s] = sessions[s]
  <2>1. sessions \in Seq(SessionRow) /\ row \in SessionRow
    BY <1>3, <1>4 DEF TablesForm
  <2>2. sessions' = Append(sessions, row)
    BY <1>1
  <2> QED
    BY <2>1, <2>2, RowInserted
<1>6. TablesForm'
  BY <1>1, <1>4, <1>5 DEF TablesForm, EventRow, DeploymentRow, IncidentRow, SessionRow
<1>7. Grows
  BY <1>1, <1>5 DEF Grows
<1>8. Fits
  <2>1. SessionsFit(sessions', now)
    BY <1>2, <1>3, <1>4, <1>5 DEF RowsInv, SessionsFit, By
  <2>2. EventsFit(sessions', events', now) /\ DeploymentsFit(sessions', deployments', now)
    BY <1>1, <1>4, <1>5 DEF RowsInv, EventsFit, DeploymentsFit, HumanIn
  <2> QED
    BY <1>1, <1>4, <2>1, <2>2 DEF Fits, RowsInv
<1>9. \A s : ActiveIn(sessions', s) => ActiveIn(sessions, s) \/ s = n
  BY <1>5 DEF ActiveIn, HumanIn
<1>10. OneActivated(c)
  <2>1. ASSUME StillTrue(c, sessions, events, deployments) PROVE \A s : ~ActiveIn(sessions, s)
    BY <2>1 DEF StillTrue, ActiveIn, HumanIn
  <2> QED
    BY <1>9, <2>1 DEF OneActivated
<1>11. KeepsNest(c)
  <2> SUFFICES ASSUME StillTrue(c, sessions, events, deployments),
                      Nests(sessions, events, deployments)
               PROVE  Nests(sessions', events', deployments')
    BY DEF KeepsNest
  <2>1. ASSUME NEW s \in DOMAIN sessions, sessions[s].owner = "human"
        PROVE  Before(sessions[s], row)
    <3>1. By(sessions[s], c.at) /\ sessions[s].status = "ended"
      BY <2>1 DEF StillTrue, AllBy, ActiveIn, HumanIn
    <3>2. sessions[s].ended # Null
      BY <1>4, <3>1 DEF RowsInv, SessionsFit
    <3> QED
      BY <1>3, <3>1, <3>2 DEF By, Before
  <2>2. SessionsNest(sessions')
    <3>1. \A s \in DOMAIN sessions' : ActiveIn(sessions', s) => sessions'[s].ended = Null
      BY <1>3, <1>5 DEF Nests, SessionsNest, ActiveIn, HumanIn
    <3>2. ASSUME NEW r \in DOMAIN sessions', NEW s \in DOMAIN sessions',
                 sessions'[r].owner = "human", sessions'[s].owner = "human", r # s
          PROVE  OneAfterAnother(sessions'[r], sessions'[s])
      <4>1. CASE r # n /\ s # n
        BY <1>5, <3>2, <4>1 DEF Nests, SessionsNest
      <4>2. CASE r = n
        BY <1>5, <2>1, <3>2, <4>2 DEF OneAfterAnother
      <4>3. CASE s = n
        BY <1>5, <2>1, <3>2, <4>3 DEF OneAfterAnother
      <4> QED
        BY <4>1, <4>2, <4>3
    <3> QED
      BY <3>1, <3>2 DEF SessionsNest
  <2>3. EventsNest(sessions', events')
    BY <1>1, <1>4, <1>5 DEF Nests, EventsNest, RowsInv, EventsFit, HumanIn
  <2>4. DeploymentsNest(sessions', deployments')
    BY <1>1, <1>4, <1>5 DEF Nests, DeploymentsNest, RowsInv, DeploymentsFit, HumanIn
  <2> QED
    BY <2>2, <2>3, <2>4 DEF Nests
<1> QED
  BY <1>6, <1>7, <1>8, <1>10, <1>11 DEF RowWritten

\* What the cases share.
LEMMA WritesForm ==
  ASSUME FlowAssumption, NEW c, Writes(c)
  PROVE  /\ c.at \in Nat /\ c.at <= now /\ now \in Nat /\ Null \notin Nat
         /\ c.session \in Nat \cup {Null} /\ c.kind \in Kinds \cup {Null} /\ c.op \in Ops
         /\ TablesForm /\ RowsInv
         /\ \A s \in DOMAIN sessions : sessions[s] \in SessionRow /\ s \in Nat
         /\ \A e \in DOMAIN events : events[e] \in EventRow /\ e \in Nat
         /\ \A d \in DOMAIN deployments : deployments[d] \in DeploymentRow /\ d \in Nat
         /\ \A i \in DOMAIN incidents : incidents[i] \in IncidentRow /\ i \in Nat
BY RowsForm DEF Writes, CommandRecord, FlowAssumption

\* A session ends, with what is open in it.
LEMMA EndWritten ==
  ASSUME FlowAssumption, NEW c, Writes(c), c.op = "end"
  PROVE  RowWritten(c)
<1> DEFINE x == c.session
<1>1. /\ sessions' = EndSessionRow(c) /\ events' = EndEventRows(c)
      /\ deployments' = deployments /\ incidents' = incidents
  BY DEF Writes, Write
<1>2. /\ c.at \in Nat /\ c.at <= now /\ now \in Nat /\ Null \notin Nat
      /\ TablesForm /\ RowsInv
      /\ \A s \in DOMAIN sessions : sessions[s] \in SessionRow
      /\ \A e \in DOMAIN events : events[e] \in EventRow
      /\ \A d \in DOMAIN deployments : deployments[d] \in DeploymentRow
  BY WritesForm
<1>3. x \in DOMAIN sessions /\ sessions[x].owner = "human"
  BY DEF Writes, MayWrite, InSession, HumanIn
<1>4. /\ sessions' = [s \in DOMAIN sessions |-> sessions'[s]]
      /\ \A s \in DOMAIN sessions : s # x => sessions'[s] = sessions[s]
      /\ sessions'[x] = [sessions[x] EXCEPT !.status = "ended", !.ended = c.at]
  BY <1>1, <1>2, <1>3 DEF EndSessionRow, TablesForm
<1>5. /\ sessions'[x] \in SessionRow /\ sessions'[x].owner = "human"
      /\ sessions'[x].began = sessions[x].began
      /\ sessions'[x].status = "ended" /\ sessions'[x].ended = c.at
  BY <1>2, <1>3, <1>4 DEF SessionRow, States, Ended
<1>6. sessions' \in Seq(SessionRow) /\ DOMAIN sessions' = DOMAIN sessions
  BY <1>2, <1>4, <1>5, RowsUpdated DEF TablesForm
<1>7. /\ events' = [e \in DOMAIN events |-> events'[e]]
      /\ \A e \in DOMAIN events :
           events'[e] = IF e \in c.rows THEN [events[e] EXCEPT !.ended = c.at] ELSE events[e]
  BY <1>1 DEF EndEventRows
<1>8. \A e \in DOMAIN events :
        /\ events'[e] \in EventRow
        /\ events'[e].session = events[e].session /\ events'[e].kind = events[e].kind
        /\ events'[e].began = events[e].began
        /\ e \in c.rows => events'[e].ended = c.at
        /\ e \notin c.rows => events'[e].ended = events[e].ended
  BY <1>2, <1>7 DEF EventRow, Ended
<1>9. events' \in Seq(EventRow) /\ DOMAIN events' = DOMAIN events
  BY <1>2, <1>7, <1>8, RowsUpdated DEF TablesForm
<1>10. TablesForm'
  BY <1>1, <1>2, <1>6, <1>9 DEF TablesForm, EventRow, DeploymentRow, IncidentRow, SessionRow
<1>11. Grows
  BY <1>1, <1>3, <1>4, <1>5, <1>6 DEF Grows
<1>12. Fits
  <2>0. \A s \in DOMAIN sessions :
          By(sessions[s], now) /\ (sessions[s].status = "ended" => sessions[s].ended # Null)
    BY <1>2 DEF RowsInv, SessionsFit
  <2>1. SessionsFit(sessions', now)
    <3>1. By(sessions'[x], now) /\ sessions'[x].ended # Null
      BY <1>2, <1>3, <1>5, <2>0 DEF By
    <3> QED
      BY <1>4, <1>6, <2>0, <3>1 DEF SessionsFit
  <2>2. \A s : HumanIn(sessions, s) => HumanIn(sessions', s)
    BY <1>11 DEF Grows, HumanIn
  <2>3. EventsFit(sessions', events', now)
    BY <1>2, <1>8, <1>9, <2>2 DEF RowsInv, EventsFit, By
  <2>4. DeploymentsFit(sessions', deployments', now)
    BY <1>1, <1>2, <2>2 DEF RowsInv, DeploymentsFit
  <2> QED
    BY <1>1, <1>2, <2>1, <2>3, <2>4 DEF Fits, RowsInv
<1>13. OneActivated(c)
  <2>1. \A s : ActiveIn(sessions', s) => ActiveIn(sessions, s)
    BY <1>4, <1>5, <1>6 DEF ActiveIn, HumanIn
  <2> QED
    BY <2>1 DEF OneActivated
<1>14. KeepsNest(c)
  <2> SUFFICES ASSUME StillTrue(c, sessions, events, deployments),
                      Nests(sessions, events, deployments)
               PROVE  Nests(sessions', events', deployments')
    BY DEF KeepsNest
  <2>1. /\ AllBy(c.at, sessions, events, deployments)
        /\ sessions[x].ended = Null
        /\ \A e \in c.rows : e \in DOMAIN events /\ events[e].session = x /\ events[e].ended = Null
        /\ \A e \in DOMAIN events : events[e].session = x /\ events[e].ended = Null =>
             \E f \in c.rows : events[f].kind = events[e].kind
    BY <1>3 DEF StillTrue, InSession, Nests, SessionsNest
  <2>2. SessionsNest(sessions')
    <3>1. \A s \in DOMAIN sessions' : ActiveIn(sessions', s) => sessions'[s].ended = Null
      BY <1>4, <1>5, <1>6 DEF Nests, SessionsNest, ActiveIn, HumanIn
    <3>2. ASSUME NEW s \in DOMAIN sessions, sessions[s].owner = "human", s # x
          PROVE  Before(sessions'[s], sessions'[x])
      <4>1. Before(sessions[s], sessions[x])
        BY <1>3, <2>1, <3>2 DEF Nests, SessionsNest, OneAfterAnother, Before
      <4> QED
        BY <1>4, <1>5, <3>2, <4>1 DEF Before
    <3>3. ASSUME NEW r \in DOMAIN sessions', NEW s \in DOMAIN sessions',
                 sessions'[r].owner = "human", sessions'[s].owner = "human", r # s
          PROVE  OneAfterAnother(sessions'[r], sessions'[s])
      <4>1. CASE r # x /\ s # x
        BY <1>4, <1>6, <3>3, <4>1 DEF Nests, SessionsNest
      <4>2. CASE r = x
        BY <1>4, <1>6, <3>2, <3>3, <4>2 DEF OneAfterAnother
      <4>3. CASE s = x
        BY <1>4, <1>6, <3>2, <3>3, <4>3 DEF OneAfterAnother
      <4> QED
        BY <4>1, <4>2, <4>3
    <3> QED
      BY <3>1, <3>3 DEF SessionsNest
  <2>3. EventsNest(sessions', events')
    <3>1. ASSUME NEW e \in DOMAIN events, NEW f \in DOMAIN events,
                 events[e].session = events[f].session, events[e].kind = events[f].kind, e # f
          PROVE  OneAfterAnother(events[e], events[f])
      BY <3>1 DEF Nests, EventsNest
    <3>2. ASSUME NEW e \in DOMAIN events, events[e].session = x
          PROVE  events'[e].ended # Null /\ events'[e].ended <= c.at
      <4>1. CASE e \in c.rows
        BY <1>2, <1>8, <4>1
      <4>2. CASE e \notin c.rows
        <5>1. ASSUME events[e].ended = Null PROVE FALSE
          <6>1. PICK f \in c.rows : events[f].kind = events[e].kind
            BY <2>1, <3>2, <5>1
          <6>2. f \in DOMAIN events /\ events[f].session = x /\ events[f].ended = Null /\ f # e
            BY <2>1, <4>2
          <6>3. OneAfterAnother(events[e], events[f])
            BY <3>1, <3>2, <6>1, <6>2
          <6> QED
            BY <5>1, <6>2, <6>3 DEF OneAfterAnother, Before
        <5> QED
          BY <1>8, <2>1, <4>2, <5>1 DEF AllBy, By
      <4> QED
        BY <4>1, <4>2
    <3>3. ASSUME NEW e \in DOMAIN events, events[e].session # x
          PROVE  events'[e] = events[e]
      BY <1>7, <2>1, <3>3
    <3>4. ASSUME NEW e \in DOMAIN events
          PROVE  /\ events[e].session \in DOMAIN sessions
                 /\ sessions[events[e].session].began <= events[e].began
                 /\ sessions[events[e].session].status = "ended" =>
                      /\ events[e].ended # Null
                      /\ events[e].ended <= sessions[events[e].session].ended
      BY <1>2 DEF Nests, EventsNest, RowsInv, EventsFit, HumanIn
    <3>5. ASSUME NEW e \in DOMAIN events
          PROVE  /\ sessions'[events'[e].session].began <= events'[e].began
                 /\ sessions'[events'[e].session].status = "ended" =>
                      /\ events'[e].ended # Null
                      /\ events'[e].ended <= sessions'[events'[e].session].ended
      <4>1. CASE events[e].session = x
        BY <1>5, <1>8, <3>2, <3>4, <4>1
      <4>2. CASE events[e].session # x
        BY <1>4, <3>3, <3>4, <4>2
      <4> QED
        BY <4>1, <4>2
    <3>6. ASSUME NEW e \in DOMAIN events, NEW f \in DOMAIN events, Before(events[e], events[f])
          PROVE  Before(events'[e], events'[f])
      BY <1>8, <2>1, <3>6 DEF Before
    <3>7. ASSUME NEW e \in DOMAIN events, NEW f \in DOMAIN events,
                 events'[e].session = events'[f].session, events'[e].kind = events'[f].kind, e # f
          PROVE  OneAfterAnother(events'[e], events'[f])
      BY <1>8, <3>1, <3>6, <3>7 DEF OneAfterAnother
    <3> QED
      BY <1>9, <3>5, <3>7 DEF EventsNest
  <2>4. DeploymentsNest(sessions', deployments')
    <3>1. ASSUME NEW d \in DOMAIN deployments, deployments[d].session # Null
          PROVE  /\ deployments[d].session \in DOMAIN sessions
                 /\ deployments[d].at <= c.at
                 /\ sessions[deployments[d].session].began <= deployments[d].at
                 /\ sessions[deployments[d].session].ended # Null =>
                      deployments[d].at <= sessions[deployments[d].session].ended
      BY <1>2, <2>1, <3>1
         DEF Nests, DeploymentsNest, RowsInv, DeploymentsFit, HumanIn, AllBy
    <3> QED
      BY <1>1, <1>4, <1>5, <3>1 DEF DeploymentsNest
  <2> QED
    BY <2>2, <2>3, <2>4 DEF Nests
<1> QED
  BY <1>10, <1>11, <1>12, <1>13, <1>14 DEF RowWritten

\* A session pauses or resumes: one that was ended since becomes active again.
LEMMA StatusWritten ==
  ASSUME FlowAssumption, NEW c, Writes(c), c.op \in {"pause", "resume"}
  PROVE  RowWritten(c)
<1> DEFINE x == c.session
<1>1. /\ \E status \in {"active", "paused"} :
            sessions' = [sessions EXCEPT ![x].status = status]
      /\ events' = events /\ deployments' = deployments /\ incidents' = incidents
  BY DEF Writes, Write
<1>2. /\ TablesForm /\ RowsInv
      /\ \A s \in DOMAIN sessions : sessions[s] \in SessionRow
      /\ \A e \in DOMAIN events : events[e] \in EventRow
      /\ \A d \in DOMAIN deployments : deployments[d] \in DeploymentRow
  BY WritesForm
<1>3. x \in DOMAIN sessions /\ sessions[x].owner = "human"
  BY DEF Writes, MayWrite, InSession, HumanIn
<1>4. /\ sessions' = [s \in DOMAIN sessions |-> sessions'[s]]
      /\ \A s \in DOMAIN sessions : s # x => sessions'[s] = sessions[s]
      /\ \E status \in {"active", "paused"} : sessions'[x] = [sessions[x] EXCEPT !.status = status]
  BY <1>1, <1>2, <1>3 DEF TablesForm
<1>5. \A s \in DOMAIN sessions :
        /\ sessions'[s] \in SessionRow
        /\ sessions'[s].owner = sessions[s].owner
        /\ sessions'[s].began = sessions[s].began /\ sessions'[s].ended = sessions[s].ended
        /\ sessions'[s].status = "ended" => sessions[s].status = "ended"
        /\ s # x => sessions'[s].status = sessions[s].status
  BY <1>2, <1>3, <1>4 DEF SessionRow, States, Ended
<1>6. sessions' \in Seq(SessionRow) /\ DOMAIN sessions' = DOMAIN sessions
  BY <1>2, <1>4, <1>5, RowsUpdated DEF TablesForm
<1>7. TablesForm'
  BY <1>1, <1>2, <1>6 DEF TablesForm, EventRow, DeploymentRow, IncidentRow, SessionRow
<1>8. Grows
  BY <1>1, <1>5, <1>6 DEF Grows
<1>9. Fits
  <2>1. SessionsFit(sessions', now)
    BY <1>2, <1>5, <1>6 DEF RowsInv, SessionsFit, By
  <2>2. \A s : HumanIn(sessions, s) => HumanIn(sessions', s)
    BY <1>8 DEF Grows, HumanIn
  <2>3. EventsFit(sessions', events', now) /\ DeploymentsFit(sessions', deployments', now)
    BY <1>1, <1>2, <2>2 DEF RowsInv, EventsFit, DeploymentsFit
  <2> QED
    BY <1>1, <1>2, <2>1, <2>3 DEF Fits, RowsInv
<1>10. \A s : ActiveIn(sessions', s) => ActiveIn(sessions, s) \/ s = x
  BY <1>5, <1>6 DEF ActiveIn, HumanIn
<1>11. StillTrue(c, sessions, events, deployments) => ActiveIn(sessions, x)
  BY DEF StillTrue, InSession
<1>12. OneActivated(c)
  BY <1>10, <1>11 DEF OneActivated
<1>13. KeepsNest(c)
  <2> SUFFICES ASSUME StillTrue(c, sessions, events, deployments),
                      Nests(sessions, events, deployments)
               PROVE  Nests(sessions', events', deployments')
    BY DEF KeepsNest
  <2>1. SessionsNest(sessions')
    <3>1. \A s \in DOMAIN sessions' : ActiveIn(sessions', s) => sessions'[s].ended = Null
      BY <1>5, <1>6, <1>10, <1>11 DEF Nests, SessionsNest
    <3>2. \A r, s \in DOMAIN sessions' :
            sessions'[r].owner = "human" /\ sessions'[s].owner = "human" /\ r # s =>
              OneAfterAnother(sessions'[r], sessions'[s])
      BY <1>5, <1>6 DEF Nests, SessionsNest, OneAfterAnother, Before
    <3> QED
      BY <3>1, <3>2 DEF SessionsNest
  <2>2. EventsNest(sessions', events')
    BY <1>1, <1>2, <1>5, <1>6 DEF Nests, EventsNest, RowsInv, EventsFit, HumanIn
  <2>3. DeploymentsNest(sessions', deployments')
    BY <1>1, <1>2, <1>5, <1>6 DEF Nests, DeploymentsNest, RowsInv, DeploymentsFit, HumanIn
  <2> QED
    BY <2>1, <2>2, <2>3 DEF Nests
<1> QED
  BY <1>7, <1>8, <1>9, <1>12, <1>13 DEF RowWritten

\* Commands that leave the sessions alone activate none.
LEMMA NoneActivated ==
  ASSUME NEW c, sessions' = sessions
  PROVE  OneActivated(c)
BY DEF OneActivated

\* A block or an interrupt begins.
LEMMA OpenWritten ==
  ASSUME FlowAssumption, NEW c, Writes(c), c.op = "open"
  PROVE  RowWritten(c)
<1> DEFINE row == NewEvent(c)
<1>1. /\ events' = Append(events, row) /\ sessions' = sessions /\ deployments' = deployments
      /\ incidents' = incidents
  BY DEF Writes, Write
<1>2. /\ c.at \in Nat /\ c.at <= now /\ now \in Nat /\ Null \notin Nat
      /\ c.session \in Nat \cup {Null}
      /\ TablesForm /\ RowsInv
      /\ \A s \in DOMAIN sessions : sessions[s] \in SessionRow /\ s \in Nat
      /\ \A e \in DOMAIN events : events[e] \in EventRow
  BY WritesForm
<1>3. HumanIn(sessions, c.session) /\ c.kind \in Kinds
  BY DEF Writes, MayWrite, InSession
<1>4. c.session \in Nat
  BY <1>2, <1>3 DEF HumanIn
<1>5. /\ row \in EventRow /\ row.session = c.session /\ row.kind = c.kind
      /\ row.began = c.at /\ row.ended = Null
  BY <1>2, <1>3, <1>4 DEF NewEvent, EventRow, Ended
<1> HIDE DEF row
<1>6. PICK n \in Nat :
        /\ events' \in Seq(EventRow)
        /\ n \notin DOMAIN events /\ DOMAIN events' = DOMAIN events \cup {n}
        /\ events'[n] = row
        /\ \A e \in DOMAIN events : events'[e] = events[e]
  <2>1. events \in Seq(EventRow) /\ row \in EventRow
    BY <1>2, <1>5 DEF TablesForm
  <2>2. events' = Append(events, row)
    BY <1>1
  <2> QED
    BY <2>1, <2>2, RowInserted
<1>7. TablesForm'
  BY <1>1, <1>2, <1>6 DEF TablesForm, EventRow, DeploymentRow, IncidentRow, SessionRow
<1>8. Grows
  BY <1>1 DEF Grows
<1>9. Fits
  <2>1. EventsFit(sessions', events', now)
    BY <1>1, <1>2, <1>3, <1>5, <1>6 DEF RowsInv, EventsFit, By
  <2> QED
    BY <1>1, <1>2, <2>1 DEF Fits, RowsInv
<1>10. KeepsNest(c)
  <2> SUFFICES ASSUME StillTrue(c, sessions, events, deployments),
                      Nests(sessions, events, deployments)
               PROVE  Nests(sessions', events', deployments')
    BY DEF KeepsNest
  <2>1. /\ By(sessions[c.session], c.at) /\ sessions[c.session].status # "ended"
        /\ \A e \in DOMAIN events : By(events[e], c.at)
        /\ \A e \in DOMAIN events :
             events[e].session = c.session /\ events[e].kind = c.kind => events[e].ended # Null
    BY <1>3 DEF StillTrue, AllBy, InSession, ActiveIn, HumanIn
  <2>2. ASSUME NEW e \in DOMAIN events', events'[e].session = c.session,
               events'[e].kind = c.kind, e # n
        PROVE  Before(events'[e], row)
    BY <1>5, <1>6, <2>1, <2>2 DEF Before, By
  <2>3. EventsNest(sessions', events')
    <3>1. \A e \in DOMAIN events' :
            /\ sessions'[events'[e].session].began <= events'[e].began
            /\ sessions'[events'[e].session].status = "ended" =>
                 /\ events'[e].ended # Null
                 /\ events'[e].ended <= sessions'[events'[e].session].ended
      BY <1>1, <1>5, <1>6, <2>1 DEF Nests, EventsNest, By
    <3>2. ASSUME NEW e \in DOMAIN events', NEW f \in DOMAIN events',
                 events'[e].session = events'[f].session, events'[e].kind = events'[f].kind, e # f
          PROVE  OneAfterAnother(events'[e], events'[f])
      <4>1. CASE e # n /\ f # n
        BY <1>6, <3>2, <4>1 DEF Nests, EventsNest
      <4>2. CASE e = n
        BY <1>5, <1>6, <2>2, <3>2, <4>2 DEF OneAfterAnother
      <4>3. CASE f = n
        BY <1>5, <1>6, <2>2, <3>2, <4>3 DEF OneAfterAnother
      <4> QED
        BY <4>1, <4>2, <4>3
    <3> QED
      BY <3>1, <3>2 DEF EventsNest
  <2> QED
    BY <1>1, <2>3 DEF Nests
<1> QED
  BY <1>1, <1>7, <1>8, <1>9, <1>10, NoneActivated DEF RowWritten

\* It ends.
LEMMA CloseWritten ==
  ASSUME FlowAssumption, NEW c, Writes(c), c.op = "close"
  PROVE  RowWritten(c)
<1>1. /\ events' = EndEventRows(c) /\ sessions' = sessions /\ deployments' = deployments
      /\ incidents' = incidents
  BY DEF Writes, Write
<1>2. /\ c.at \in Nat /\ c.at <= now /\ now \in Nat /\ Null \notin Nat
      /\ TablesForm /\ RowsInv
      /\ \A e \in DOMAIN events : events[e] \in EventRow
  BY WritesForm
<1>3. /\ events' = [e \in DOMAIN events |-> events'[e]]
      /\ \A e \in DOMAIN events :
           events'[e] = IF e \in c.rows THEN [events[e] EXCEPT !.ended = c.at] ELSE events[e]
  BY <1>1 DEF EndEventRows
<1>4. \A e \in DOMAIN events :
        /\ events'[e] \in EventRow
        /\ events'[e].session = events[e].session /\ events'[e].kind = events[e].kind
        /\ events'[e].began = events[e].began
        /\ e \in c.rows => events'[e].ended = c.at
        /\ e \notin c.rows => events'[e].ended = events[e].ended
  BY <1>2, <1>3 DEF EventRow, Ended
<1>5. events' \in Seq(EventRow) /\ DOMAIN events' = DOMAIN events
  BY <1>2, <1>3, <1>4, RowsUpdated DEF TablesForm
<1>6. TablesForm'
  BY <1>1, <1>2, <1>5 DEF TablesForm, EventRow, DeploymentRow, IncidentRow, SessionRow
<1>7. Grows
  BY <1>1 DEF Grows
<1>8. Fits
  <2>1. EventsFit(sessions', events', now)
    BY <1>1, <1>2, <1>4, <1>5 DEF RowsInv, EventsFit, By
  <2> QED
    BY <1>1, <1>2, <2>1 DEF Fits, RowsInv
<1>9. KeepsNest(c)
  <2> SUFFICES ASSUME StillTrue(c, sessions, events, deployments),
                      Nests(sessions, events, deployments)
               PROVE  Nests(sessions', events', deployments')
    BY DEF KeepsNest
  <2>1. /\ sessions[c.session].status # "ended"
        /\ \A e \in c.rows :
             e \in DOMAIN events /\ events[e].session = c.session /\ events[e].ended = Null
    BY DEF StillTrue, InSession, ActiveIn
  <2>2. ASSUME NEW e \in DOMAIN events, NEW f \in DOMAIN events, Before(events[e], events[f])
        PROVE  Before(events'[e], events'[f])
    BY <1>4, <2>1, <2>2 DEF Before
  <2>3. EventsNest(sessions', events')
    <3>1. \A e \in DOMAIN events :
            /\ sessions[events[e].session].began <= events'[e].began
            /\ sessions[events[e].session].status = "ended" =>
                 /\ events'[e].ended # Null
                 /\ events'[e].ended <= sessions[events[e].session].ended
      BY <1>4, <2>1 DEF Nests, EventsNest
    <3>2. ASSUME NEW e \in DOMAIN events, NEW f \in DOMAIN events,
                 events'[e].session = events'[f].session, events'[e].kind = events'[f].kind, e # f
          PROVE  OneAfterAnother(events'[e], events'[f])
      <4>1. OneAfterAnother(events[e], events[f])
        BY <1>4, <3>2 DEF Nests, EventsNest
      <4> QED
        BY <2>2, <4>1 DEF OneAfterAnother
    <3> QED
      BY <1>1, <1>4, <1>5, <3>1, <3>2 DEF EventsNest
  <2> QED
    BY <1>1, <2>3 DEF Nests
<1> QED
  BY <1>1, <1>6, <1>7, <1>8, <1>9, NoneActivated DEF RowWritten

\* A deployment is recorded.
LEMMA DeployWritten ==
  ASSUME FlowAssumption, NEW c, Writes(c), c.op = "deploy"
  PROVE  RowWritten(c)
<1> DEFINE row == [session |-> c.session, at |-> c.at]
<1>1. /\ deployments' = Append(deployments, row) /\ sessions' = sessions /\ events' = events
      /\ incidents' = incidents
  BY DEF Writes, Write
<1>2. /\ c.at \in Nat /\ c.at <= now /\ now \in Nat /\ Null \notin Nat
      /\ c.session \in Nat \cup {Null}
      /\ TablesForm /\ RowsInv
      /\ \A d \in DOMAIN deployments : deployments[d] \in DeploymentRow
  BY WritesForm
<1>3. c.session # Null => HumanIn(sessions, c.session)
  BY DEF Writes, MayWrite
<1>4. row \in DeploymentRow /\ row.session = c.session /\ row.at = c.at
  BY <1>2 DEF DeploymentRow
<1> HIDE DEF row
<1>5. PICK n \in Nat :
        /\ deployments' \in Seq(DeploymentRow)
        /\ n \notin DOMAIN deployments /\ DOMAIN deployments' = DOMAIN deployments \cup {n}
        /\ deployments'[n] = row
        /\ \A d \in DOMAIN deployments : deployments'[d] = deployments[d]
  <2>1. deployments \in Seq(DeploymentRow) /\ row \in DeploymentRow
    BY <1>2, <1>4 DEF TablesForm
  <2>2. deployments' = Append(deployments, row)
    BY <1>1
  <2> QED
    BY <2>1, <2>2, RowInserted
<1>6. TablesForm'
  BY <1>1, <1>2, <1>5 DEF TablesForm, EventRow, DeploymentRow, IncidentRow, SessionRow
<1>7. Grows
  BY <1>1, <1>5 DEF Grows
<1>8. Fits
  <2>1. DeploymentsFit(sessions', deployments', now)
    BY <1>1, <1>2, <1>3, <1>4, <1>5 DEF RowsInv, DeploymentsFit
  <2>2. IncidentsFit(deployments', incidents', now)
    BY <1>1, <1>2, <1>5 DEF RowsInv, IncidentsFit
  <2> QED
    BY <1>1, <1>2, <2>1, <2>2 DEF Fits, RowsInv
<1>9. KeepsNest(c)
  <2> SUFFICES ASSUME StillTrue(c, sessions, events, deployments),
                      Nests(sessions, events, deployments)
               PROVE  Nests(sessions', events', deployments')
    BY DEF KeepsNest
  <2>1. ASSUME c.session # Null
        PROVE  sessions[c.session].began <= c.at /\ sessions[c.session].ended = Null
    BY <1>3, <2>1 DEF StillTrue, AllBy, By, ActiveIn, HumanIn, Nests, SessionsNest
  <2>2. DeploymentsNest(sessions', deployments')
    BY <1>1, <1>4, <1>5, <2>1 DEF Nests, DeploymentsNest
  <2> QED
    BY <1>1, <2>2 DEF Nests
<1> QED
  BY <1>1, <1>6, <1>7, <1>8, <1>9, NoneActivated DEF RowWritten

\* An incident begins, of the deployment that was the latest.
LEMMA IncidentWritten ==
  ASSUME FlowAssumption, NEW c, Writes(c), c.op = "incident"
  PROVE  RowWritten(c)
<1> DEFINE d == CHOOSE x \in First(c.rows) : TRUE
           row == NewIncident("human", d, c.at)
<1>1. /\ incidents' = Append(incidents, row) /\ sessions' = sessions /\ events' = events
      /\ deployments' = deployments
  BY DEF Writes, Write
<1>2. /\ c.at \in Nat /\ c.at <= now /\ now \in Nat /\ Null \notin Nat
      /\ TablesForm /\ RowsInv
      /\ \A i \in DOMAIN incidents : incidents[i] \in IncidentRow
      /\ \A x \in DOMAIN deployments : x \in Nat
  BY WritesForm
<1>3. \A x \in c.rows : x \in DOMAIN deployments /\ deployments[x].at <= c.at
  BY DEF Writes, MayWrite
<1>4. d \in First(c.rows)
  BY DEF First
<1>5. d # Null => d \in DOMAIN deployments /\ deployments[d].at <= c.at
  BY <1>3, <1>4 DEF First
<1>6. d \in Nat \cup {Null}
  BY <1>2, <1>5
<1> HIDE DEF d
<1>7. row \in IncidentRow /\ row.deployment = d /\ row.began = c.at /\ row.ended = Null
  BY <1>2, <1>6 DEF IncidentRow, NewIncident, Ended
<1> HIDE DEF row
<1>8. PICK n \in Nat :
        /\ incidents' \in Seq(IncidentRow)
        /\ n \notin DOMAIN incidents /\ DOMAIN incidents' = DOMAIN incidents \cup {n}
        /\ incidents'[n] = row
        /\ \A i \in DOMAIN incidents : incidents'[i] = incidents[i]
  <2>1. incidents \in Seq(IncidentRow) /\ row \in IncidentRow
    BY <1>2, <1>7 DEF TablesForm
  <2> QED
    BY <1>1, <2>1, RowInserted
<1>9. TablesForm'
  BY <1>1, <1>2, <1>8 DEF TablesForm, EventRow, DeploymentRow, IncidentRow, SessionRow
<1>10. Grows
  BY <1>1 DEF Grows
<1>11. Fits
  <2>1. IncidentsFit(deployments', incidents', now)
    BY <1>1, <1>2, <1>5, <1>7, <1>8 DEF RowsInv, IncidentsFit, By
  <2> QED
    BY <1>1, <1>2, <2>1 DEF Fits, RowsInv
<1>12. KeepsNest(c)
  BY <1>1 DEF KeepsNest
<1> QED
  BY <1>1, <1>9, <1>10, <1>11, <1>12, NoneActivated DEF RowWritten

\* It ends.
LEMMA ResolveWritten ==
  ASSUME FlowAssumption, NEW c, Writes(c), c.op = "resolve"
  PROVE  RowWritten(c)
<1>1. /\ incidents' = [i \in DOMAIN incidents |->
                         IF i \in c.rows THEN [incidents[i] EXCEPT !.ended = c.at]
                         ELSE incidents[i]]
      /\ sessions' = sessions /\ events' = events /\ deployments' = deployments
  BY DEF Writes, Write
<1>2. /\ c.at \in Nat /\ c.at <= now /\ now \in Nat /\ Null \notin Nat
      /\ TablesForm /\ RowsInv
      /\ \A i \in DOMAIN incidents : incidents[i] \in IncidentRow
  BY WritesForm
<1>3. /\ incidents' = [i \in DOMAIN incidents |-> incidents'[i]]
      /\ \A i \in DOMAIN incidents :
           /\ incidents'[i] \in IncidentRow
           /\ incidents'[i].deployment = incidents[i].deployment
           /\ incidents'[i].began = incidents[i].began
           /\ incidents'[i].ended = c.at \/ incidents'[i].ended = incidents[i].ended
  BY <1>1, <1>2 DEF IncidentRow, Ended
<1>4. incidents' \in Seq(IncidentRow) /\ DOMAIN incidents' = DOMAIN incidents
  BY <1>2, <1>3, RowsUpdated DEF TablesForm
<1>5. TablesForm'
  BY <1>1, <1>2, <1>4 DEF TablesForm, EventRow, DeploymentRow, IncidentRow, SessionRow
<1>6. Grows
  BY <1>1 DEF Grows
<1>7. Fits
  <2>1. IncidentsFit(deployments', incidents', now)
    BY <1>1, <1>2, <1>3, <1>4 DEF RowsInv, IncidentsFit, By
  <2> QED
    BY <1>1, <1>2, <2>1 DEF Fits, RowsInv
<1>8. KeepsNest(c)
  BY <1>1 DEF KeepsNest
<1> QED
  BY <1>1, <1>5, <1>6, <1>7, <1>8, NoneActivated DEF RowWritten

\* Whatever the command.
LEMMA CommandWritten ==
  ASSUME FlowAssumption, NEW c, Writes(c)
  PROVE  RowWritten(c)
<1>1. c.op \in Ops
  BY WritesForm
<1> QED
  BY <1>1, StartWritten, EndWritten, StatusWritten, OpenWritten, CloseWritten, DeployWritten,
     IncidentWritten, ResolveWritten DEF Ops, InSession

-----------------------------------------------------------------------------
(* A command commits *)

\* What a command needs to write is still there when tables have grown.
LEMMA MayStillWrite ==
  ASSUME Grows, NEW c, MayWrite(c, sessions, deployments)
  PROVE  MayWrite(c, sessions', deployments')
BY DEF Grows, MayWrite, HumanIn

\* What a commit does to the commands under way.
LEMMA CommitsOvertake ==
  ASSUME FlowAssumption, ShapeInv, NEW t \in Terminals, Commit(t)
  PROVE  /\ commands[t] # Null /\ commands[t] \in CommandRecord
         /\ commands' \in [Terminals -> CommandRecord \cup {Null}]
         /\ commands'[t] = Null
         /\ \A u \in Terminals : u # t /\ commands[u] = Null => commands'[u] = Null
         /\ \A u \in Terminals : u # t /\ commands[u] # Null /\ commands'[u] # Null =>
              commands'[u] = [commands[u] EXCEPT !.overtaken = TRUE]
<1>1. /\ commands[t] # Null
      /\ commands' = [u \in Terminals |->
                        CASE u = t              -> Null
                          [] commands[u] = Null -> Null
                          [] OTHER              -> [commands[u] EXCEPT !.overtaken = TRUE]]
  BY DEF Commit
<1>2. \A u \in Terminals : commands[u] \in CommandRecord \cup {Null}
  BY DEF ShapeInv
<1>3. ASSUME NEW r \in CommandRecord
      PROVE  [r EXCEPT !.overtaken = TRUE] \in CommandRecord
  BY <1>3 DEF CommandRecord
<1>4. \A u \in Terminals :
        /\ u = t \/ commands[u] = Null => commands'[u] = Null
        /\ u # t /\ commands[u] # Null =>
             commands'[u] = [commands[u] EXCEPT !.overtaken = TRUE]
  BY <1>1
<1>5. \A u \in Terminals : commands'[u] \in CommandRecord \cup {Null}
  BY <1>2, <1>3, <1>4
<1>6. commands' \in [Terminals -> CommandRecord \cup {Null}]
  BY <1>1, <1>5
<1> QED
  BY <1>1, <1>2, <1>4, <1>6

\* Every race leaves at most one more session active.
LEMMA CommitKeepsFew ==
  ASSUME FlowAssumption, FlowInv, NEW t \in Terminals, Commit(t), NEW c, c = commands[t],
         RowWritten(c), c.overtaken \in BOOLEAN
  PROVE  races' \in Nat /\ races <= races' /\ races' <= races + 1 /\ FewActive'
<1>1. /\ races \in Nat /\ FewActive
      /\ c.overtaken => races' = races + 1
      /\ ~c.overtaken => races' = races
      /\ ~c.overtaken => StillTrue(c, sessions, events, deployments)
  BY DEF FlowInv, ShapeInv, Commit, ReadInv
<1>2. races' \in Nat /\ races <= races' /\ races' <= races + 1
  BY <1>1
<1>3. /\ Active = {s \in DOMAIN sessions : ActiveIn(sessions, s)}
      /\ Active' = {s \in DOMAIN sessions' : ActiveIn(sessions', s)}
  BY DEF Active, ActiveIn, HumanIn
<1>4. IsFiniteSet(DOMAIN sessions) /\ IsFiniteSet(DOMAIN sessions')
  <2>1. sessions \in Seq(SessionRow) /\ sessions' \in Seq(SessionRow)
    BY DEF FlowInv, ShapeInv, TablesForm, RowWritten, SessionRow
  <2> QED
    BY <2>1, TableFinite
<1>5. /\ IsFiniteSet(Active) /\ Cardinality(Active) \in Nat
      /\ IsFiniteSet(Active') /\ Cardinality(Active') \in Nat
  BY <1>3, <1>4, FS_Subset, FS_CardinalityType
<1>6. Cardinality(Active) <= 1 + races
  BY <1>1 DEF FewActive
<1>7. CASE \A s : ActiveIn(sessions', s) => ActiveIn(sessions, s)
  <2>1. Active' \subseteq Active
    BY <1>3, <1>7 DEF ActiveIn, HumanIn
  <2>2. Cardinality(Active') <= Cardinality(Active)
    BY <1>5, <2>1, FS_Subset
  <2> QED
    BY <1>1, <1>2, <1>5, <1>6, <2>2 DEF FewActive
<1>8. CASE c.overtaken
  <2>1. PICK x : \A s : ActiveIn(sessions', s) => ActiveIn(sessions, s) \/ s = x
    BY DEF RowWritten, OneActivated
  <2>2. Active' \subseteq Active \cup {x}
    BY <1>3, <2>1 DEF ActiveIn, HumanIn
  <2>3. /\ IsFiniteSet(Active \cup {x})
        /\ \/ Cardinality(Active \cup {x}) = Cardinality(Active)
           \/ Cardinality(Active \cup {x}) = Cardinality(Active) + 1
    BY <1>5, FS_AddElement
  <2>4. Cardinality(Active') <= Cardinality(Active \cup {x})
    BY <2>2, <2>3, FS_Subset
  <2> QED
    BY <1>1, <1>2, <1>5, <1>6, <1>8, <2>3, <2>4 DEF FewActive
<1>9. CASE \E x : \A s : ActiveIn(sessions', s) => s = x
  <2>1. PICK x : \A s : ActiveIn(sessions', s) => s = x
    BY <1>9
  <2>2. Active' \subseteq {x}
    BY <1>3, <2>1
  <2>3. IsFiniteSet({x}) /\ Cardinality({x}) = 1
    BY FS_Singleton
  <2>4. Cardinality(Active') <= 1
    BY <2>2, <2>3, FS_Subset
  <2> QED
    BY <1>1, <1>2, <1>5, <2>4 DEF FewActive
<1> QED
  BY <1>1, <1>2, <1>7, <1>8, <1>9 DEF RowWritten, OneActivated

\* The command is no longer counted, but in the races if it was overtaken.
LEMMA CommitKeepsCount ==
  ASSUME FlowAssumption, FlowInv, NEW t \in Terminals, Commit(t)
  PROVE  CountInv'
<1>1. /\ races \in Nat /\ begun \in Nat /\ begun' = begun
      /\ races' = races \/ races' = races + 1
      /\ IsFiniteSet(Running) /\ races + Cardinality(Running) <= begun
  BY DEF FlowInv, ShapeInv, FlowAssumption, CountInv, Commit
<1>2. t \in Running
  BY DEF Commit, Running
<1>3. Running' \subseteq Running \ {t}
  BY CommitsOvertake DEF Running, FlowInv
<1>4. /\ IsFiniteSet(Running \ {t})
      /\ Cardinality(Running \ {t}) = Cardinality(Running) - 1
  BY <1>1, <1>2, FS_RemoveElement
<1>5. /\ IsFiniteSet(Running') /\ Cardinality(Running') <= Cardinality(Running \ {t})
  BY <1>3, <1>4, FS_Subset
<1>6. Cardinality(Running) \in Nat /\ Cardinality(Running') \in Nat
  BY <1>1, <1>5, FS_CardinalityType
<1> QED
  BY <1>1, <1>4, <1>5, <1>6 DEF CountInv

\* All of the invariant.
LEMMA CommitKeeps ==
  ASSUME FlowAssumption, FlowInv, NEW t \in Terminals, Commit(t)
  PROVE  FlowInv'
<1>1. PICK c : c = commands[t]
  OBVIOUS
<1>2. /\ c # Null /\ c \in CommandRecord
      /\ commands' \in [Terminals -> CommandRecord \cup {Null}]
      /\ commands'[t] = Null
      /\ \A u \in Terminals : commands[u] = Null => commands'[u] = Null
      /\ \A u \in Terminals : commands'[u] # Null =>
           u # t /\ commands[u] # Null /\ commands'[u] = [commands[u] EXCEPT !.overtaken = TRUE]
  BY <1>1, CommitsOvertake DEF FlowInv
<1>3. now' = now /\ begun' = begun /\ agents' = agents
  BY DEF Commit
<1>4. now \in Nat /\ c.at <= now /\ MayWrite(c, sessions, deployments)
  BY <1>1, <1>2 DEF FlowInv, ShapeInv, CommandsInv, FlowAssumption
<1>5. Writes(c)
  BY <1>1, <1>2, <1>4 DEF Writes, FlowInv, ShapeInv, Commit
<1>6. RowWritten(c)
  BY <1>5, CommandWritten
<1>7. c.overtaken \in BOOLEAN
  BY <1>2 DEF CommandRecord
<1>8. races' \in Nat /\ races <= races' /\ FewActive'
  BY <1>1, <1>6, <1>7, CommitKeepsFew
<1>9. ShapeInv'
  <2>1. now' \in 0 .. MaxTime /\ begun' \in 0 .. MaxCommands /\ agents' \in 0 .. MaxAgents
    BY <1>3 DEF FlowInv, ShapeInv
  <2>2. TablesForm'
    BY <1>6 DEF RowWritten
  <2>3. commands' \in [Terminals -> CommandRecord \cup {Null}]'
    BY <1>2 DEF CommandRecord
  <2> QED
    BY <1>8, <2>1, <2>2, <2>3 DEF ShapeInv
<1>10. RowsInv'
  BY <1>3, <1>6 DEF RowWritten, Fits, RowsInv
<1>11. CommandsInv'
  <2> SUFFICES ASSUME NEW u \in Terminals, commands'[u] # Null
               PROVE  /\ commands'[u].at <= now'
                      /\ MayWrite(commands'[u], sessions', deployments')
    BY DEF CommandsInv
  <2>1. PICK b : b = commands[u]
    OBVIOUS
  <2>2. /\ b # Null /\ b \in CommandRecord /\ commands'[u] = [b EXCEPT !.overtaken = TRUE]
        /\ b.at <= now /\ MayWrite(b, sessions, deployments)
    BY <1>2, <2>1 DEF FlowInv, CommandsInv, ShapeInv
  <2>3. MayWrite(b, sessions', deployments')
    BY <1>6, <2>2, MayStillWrite DEF RowWritten
  <2>4. /\ commands'[u].at = b.at /\ commands'[u].op = b.op /\ commands'[u].kind = b.kind
        /\ commands'[u].session = b.session /\ commands'[u].rows = b.rows
    BY <2>2 DEF CommandRecord
  <2> QED
    BY <1>3, <2>2, <2>3, <2>4 DEF MayWrite
<1>12. CountInv'
  BY CommitKeepsCount
<1>13. ReadInv'
  <2>1. ASSUME NEW u \in Terminals, commands'[u] # Null
        PROVE  commands'[u].overtaken
    <3>1. PICK b : b = commands[u]
      OBVIOUS
    <3>2. b \in CommandRecord /\ commands'[u] = [b EXCEPT !.overtaken = TRUE]
      BY <1>2, <2>1, <3>1 DEF FlowInv, ShapeInv
    <3> QED
      BY <3>2 DEF CommandRecord
  <2> QED
    BY <2>1 DEF ReadInv
<1>14. NestInv'
  <2> SUFFICES ASSUME races' = 0 PROVE Nests(sessions', events', deployments')
    BY DEF NestInv
  <2>1. races = 0 /\ ~c.overtaken
    BY <1>1, <1>8 DEF Commit, FlowInv, ShapeInv
  <2>2. StillTrue(c, sessions, events, deployments) /\ Nests(sessions, events, deployments)
    BY <1>1, <1>2, <2>1 DEF FlowInv, ReadInv, NestInv
  <2> QED
    BY <1>6, <2>2 DEF RowWritten, KeepsNest
<1> QED
  BY <1>8, <1>9, <1>10, <1>11, <1>12, <1>13, <1>14 DEF FlowInv

-----------------------------------------------------------------------------
(* A command begins *)

\* Nothing is later than now.
LEMMA AllByNow ==
  ASSUME RowsInv
  PROVE  AllBy(now, sessions, events, deployments)
BY DEF RowsInv, SessionsFit, EventsFit, DeploymentsFit, AllBy

\* A command that may write and has just read.
LEMMA BeginKeeps ==
  ASSUME FlowAssumption, FlowInv, NEW t \in Terminals, NEW c, Begin(t, c),
         c \in CommandRecord, c.at = now, MayWrite(c, sessions, deployments),
         StillTrue(c, sessions, events, deployments)
  PROVE  FlowInv'
<1>1. /\ commands[t] = Null /\ commands' = [commands EXCEPT ![t] = c]
      /\ begun < MaxCommands /\ begun' = begun + 1
      /\ now' = now /\ sessions' = sessions /\ events' = events /\ deployments' = deployments
      /\ incidents' = incidents /\ agents' = agents /\ races' = races
  BY DEF Begin, tables
<1>2. /\ ShapeInv /\ RowsInv /\ CommandsInv /\ CountInv /\ FewActive /\ ReadInv /\ NestInv
  BY DEF FlowInv
<1>3. /\ commands' \in [Terminals -> CommandRecord \cup {Null}]
      /\ commands'[t] = c
      /\ \A u \in Terminals : u # t => commands'[u] = commands[u]
  BY <1>1, <1>2 DEF ShapeInv
<1>4. ShapeInv'
  <2>1. TablesForm' /\ races' \in Nat /\ now' \in 0 .. MaxTime /\ agents' \in 0 .. MaxAgents
    BY <1>1, <1>2
       DEF ShapeInv, TablesForm, EventRow, DeploymentRow, IncidentRow, SessionRow
  <2>2. begun' \in 0 .. MaxCommands
    BY <1>1, <1>2 DEF ShapeInv, FlowAssumption
  <2>3. commands' \in [Terminals -> CommandRecord \cup {Null}]'
    BY <1>3 DEF CommandRecord
  <2> QED
    BY <2>1, <2>2, <2>3 DEF ShapeInv
<1>5. RowsInv'
  BY <1>1, <1>2 DEF RowsInv
<1>6. CommandsInv'
  <2> SUFFICES ASSUME NEW u \in Terminals, commands'[u] # Null
               PROVE  commands'[u].at <= now /\ MayWrite(commands'[u], sessions, deployments)
    BY <1>1 DEF CommandsInv
  <2>1. now \in Nat
    BY <1>2 DEF ShapeInv, FlowAssumption
  <2> QED
    BY <1>2, <1>3, <2>1 DEF CommandsInv
<1>7. CountInv'
  <2>1. /\ races \in Nat /\ begun \in Nat
        /\ IsFiniteSet(Running) /\ races + Cardinality(Running) <= begun
    BY <1>2 DEF ShapeInv, CountInv, FlowAssumption
  <2>2. Running' \subseteq Running \cup {t}
    BY <1>1, <1>3 DEF Running
  <2>3. /\ IsFiniteSet(Running \cup {t})
        /\ \/ Cardinality(Running \cup {t}) = Cardinality(Running)
           \/ Cardinality(Running \cup {t}) = Cardinality(Running) + 1
    BY <2>1, FS_AddElement
  <2>4. IsFiniteSet(Running') /\ Cardinality(Running') <= Cardinality(Running \cup {t})
    BY <2>2, <2>3, FS_Subset
  <2>5. Cardinality(Running) \in Nat /\ Cardinality(Running') \in Nat
    BY <2>1, <2>4, FS_CardinalityType
  <2> QED
    BY <1>1, <2>1, <2>3, <2>4, <2>5 DEF CountInv
<1>8. FewActive'
  BY <1>1, <1>2 DEF FewActive, Active
<1>9. ReadInv'
  BY <1>1, <1>2, <1>3 DEF ReadInv
<1>10. NestInv'
  BY <1>1, <1>2 DEF NestInv
<1> QED
  BY <1>4, <1>5, <1>6, <1>7, <1>8, <1>9, <1>10 DEF FlowInv

\* A command of the present time.
LEMMA CommandForm ==
  ASSUME FlowAssumption, FlowInv, NEW op \in Ops, NEW kind \in Kinds \cup {Null},
         NEW session \in Nat \cup {Null}, NEW rows \in SUBSET Nat, NEW c,
         c = Command(op, kind, session, rows)
  PROVE  /\ c \in CommandRecord /\ c.at = now /\ c.op = op /\ c.kind = kind
         /\ c.session = session /\ c.rows = rows
         /\ AllBy(now, sessions, events, deployments)
<1>1. now \in Nat
  BY DEF FlowInv, ShapeInv, FlowAssumption
<1> QED
  BY <1>1, AllByNow DEF Command, CommandRecord, FlowInv

\* What a command finds: the sessions of a human that have not ended, and open events.
LEMMA Found ==
  ASSUME FlowAssumption, FlowInv
  PROVE  /\ \A s \in Active : s \in Nat /\ s # Null /\ ActiveIn(sessions, s)
         /\ \A s : ActiveIn(sessions, s) => s \in Active
         /\ \A s, kind : \A e \in OpenEvents(s, kind) :
              /\ e \in Nat /\ e # Null /\ e \in DOMAIN events
              /\ events[e].session = s /\ events[e].kind = kind /\ events[e].ended = Null
         /\ \A s, kind : \A e \in DOMAIN events :
              events[e].session = s /\ events[e].kind = kind /\ events[e].ended = Null =>
                e \in OpenEvents(s, kind)
<1>1. /\ \A s \in DOMAIN sessions : s \in Nat
      /\ \A e \in DOMAIN events : e \in Nat
  BY RowsForm DEF FlowInv, ShapeInv
<1> QED
  BY <1>1 DEF Active, ActiveIn, HumanIn, OpenEvents, FlowAssumption

\* The command starts a session where there is none.
LEMMA StartBegins ==
  ASSUME FlowAssumption, FlowInv, NEW t \in Terminals, StartSession(t)
  PROVE  FlowInv'
<1>1. PICK c : c = Command("start", Null, Null, {})
  OBVIOUS
<1>2. /\ c \in CommandRecord /\ c.at = now /\ c.op = "start"
      /\ AllBy(now, sessions, events, deployments)
  <2>1. "start" \in Ops /\ {} \in SUBSET Nat
    BY DEF Ops
  <2>2. ASSUME NEW kind \in Kinds \cup {Null}, NEW session \in Nat \cup {Null},
               c = Command("start", kind, session, {})
        PROVE  /\ c \in CommandRecord /\ c.at = now /\ c.op = "start"
               /\ AllBy(now, sessions, events, deployments)
    BY <2>1, <2>2, CommandForm
  <2> QED
    BY <1>1, <2>2
<1>3. MayWrite(c, sessions, deployments)
  BY <1>2 DEF MayWrite, InSession
<1>4. \A s : ~ActiveIn(sessions, s)
  BY Found DEF StartSession
<1>5. StillTrue(c, sessions, events, deployments)
  BY <1>2, <1>4 DEF StillTrue, InSession
<1> QED
  BY <1>1, <1>2, <1>3, <1>5, BeginKeeps DEF StartSession

\* It is of the session that is active, and of some of its open events.
LEMMA SessionBegins ==
  ASSUME FlowAssumption, FlowInv, NEW t \in Terminals, NEW op \in InSession \cup {"deploy"},
         NEW kind \in Kinds \cup {Null}, NEW s \in Active, NEW rows \in SUBSET DOMAIN events,
         Begin(t, Command(op, kind, s, rows)),
         op = "open" => kind \in Kinds /\ OpenEvents(s, kind) = {},
         \A e \in rows : events[e].session = s /\ events[e].ended = Null,
         op = "end" => \A e \in DOMAIN events : events[e].session = s /\ events[e].ended = Null =>
                         \E f \in rows : events[f].kind = events[e].kind
  PROVE  FlowInv'
<1>1. PICK c : c = Command(op, kind, s, rows)
  OBVIOUS
<1>2. rows \in SUBSET Nat /\ op \in Ops
  BY RowsForm DEF FlowInv, ShapeInv, Ops
<1>3. s \in Nat /\ ActiveIn(sessions, s)
  BY Found
<1>4. /\ c \in CommandRecord /\ c.at = now /\ c.op = op /\ c.kind = kind /\ c.session = s
      /\ c.rows = rows
      /\ AllBy(now, sessions, events, deployments)
  BY <1>1, <1>2, <1>3, CommandForm
<1>5. op # "start" /\ op # "incident"
  BY DEF InSession
<1>6. MayWrite(c, sessions, deployments)
  BY <1>3, <1>4, <1>5 DEF MayWrite, ActiveIn
<1>7. op = "open" => \A e \in DOMAIN events :
        events[e].session = s /\ events[e].kind = kind => events[e].ended # Null
  BY Found
<1>8. StillTrue(c, sessions, events, deployments)
  BY <1>3, <1>4, <1>5, <1>7 DEF StillTrue
<1> QED
  BY <1>1, <1>4, <1>6, <1>8, BeginKeeps

\* It is of no session: a deployment outside one, or an incident.
LEMMA OtherBegins ==
  ASSUME FlowAssumption, FlowInv, NEW t \in Terminals,
         NEW op \in {"deploy", "incident", "resolve"}, NEW rows \in SUBSET Nat,
         Begin(t, Command(op, Null, Null, rows)),
         op = "incident" => \A d \in rows : d \in DOMAIN deployments
  PROVE  FlowInv'
<1>1. PICK c : c = Command(op, Null, Null, rows)
  OBVIOUS
<1>2. op \in Ops /\ op \notin InSession /\ op # "start" /\ op # "open" /\ op # "close" /\ op # "end"
  BY DEF Ops, InSession
<1>3. /\ c \in CommandRecord /\ c.at = now /\ c.op = op /\ c.session = Null
      /\ c.rows = rows
      /\ AllBy(now, sessions, events, deployments)
  <2>1. ASSUME NEW kind \in Kinds \cup {Null}, NEW session \in Nat \cup {Null},
               c = Command(op, kind, session, rows)
        PROVE  /\ c \in CommandRecord /\ c.at = now /\ c.op = op /\ c.session = session
               /\ c.rows = rows
               /\ AllBy(now, sessions, events, deployments)
    BY <1>2, <2>1, CommandForm
  <2> QED
    BY <1>1, <2>1
<1>4. \A d \in DOMAIN deployments : deployments[d].at <= now
  BY DEF FlowInv, RowsInv, DeploymentsFit
<1>5. MayWrite(c, sessions, deployments)
  BY <1>2, <1>3, <1>4 DEF MayWrite
<1>6. StillTrue(c, sessions, events, deployments)
  BY <1>2, <1>3 DEF StillTrue
<1> QED
  BY <1>1, <1>3, <1>5, <1>6, BeginKeeps

\* Whatever it is.
LEMMA CommandBegins ==
  ASSUME FlowAssumption, FlowInv, NEW t \in Terminals,
         \/ StartSession(t) \/ EndSession(t) \/ Pause(t) \/ Resume(t)
         \/ \E kind \in Kinds : StartEvent(t, kind) \/ EndEvent(t, kind)
         \/ RecordDeploy(t) \/ StartIncident(t) \/ EndIncident(t)
  PROVE  FlowInv'
<1>1. CASE EndSession(t)
  <2>0. PICK s \in Active : \E rows \in ClosedWith(s) : Begin(t, Command("end", Null, s, rows))
    BY <1>1 DEF EndSession
  <2>1. PICK rows \in ClosedWith(s) : Begin(t, Command("end", Null, s, rows))
    BY <2>0
  <2>2. PICK b \in First(OpenEvents(s, "block")), i \in First(OpenEvents(s, "interrupt")) :
          rows = {b, i} \ {Null}
    BY <2>1 DEF ClosedWith
  <2>3. \A e \in rows : e \in DOMAIN events /\ events[e].session = s /\ events[e].ended = Null
    BY <2>2, Found DEF First
  <2>4. ASSUME NEW e \in DOMAIN events, events[e].session = s, events[e].ended = Null
        PROVE  \E f \in rows : events[f].kind = events[e].kind
    <3>1. events[e].kind \in Kinds
      BY RowsForm DEF FlowInv, ShapeInv, EventRow
    <3>2. e \in OpenEvents(s, events[e].kind)
      BY <2>4, Found
    <3>3. CASE events[e].kind = "block"
      <4>1. b \in OpenEvents(s, "block")
        BY <2>2, <3>2, <3>3 DEF First
      <4> QED
        BY <2>2, <3>3, <4>1, Found
    <3>4. CASE events[e].kind = "interrupt"
      <4>1. i \in OpenEvents(s, "interrupt")
        BY <2>2, <3>2, <3>4 DEF First
      <4> QED
        BY <2>2, <3>4, <4>1, Found
    <3> QED
      BY <3>1, <3>3, <3>4 DEF Kinds
  <2>5. rows \in SUBSET DOMAIN events
    BY <2>3
  <2> QED
    BY <2>1, <2>3, <2>4, <2>5, SessionBegins DEF InSession
<1>2. CASE Pause(t) \/ Resume(t)
  <2>1. PICK s \in Active : \E op \in {"pause", "resume"} : Begin(t, Command(op, Null, s, {}))
    BY <1>2 DEF Pause, Resume
  <2> QED
    BY <2>1, SessionBegins DEF InSession
<1>3. ASSUME NEW kind \in Kinds, StartEvent(t, kind)
      PROVE  FlowInv'
  <2>1. PICK s \in Active :
          OpenEvents(s, kind) = {} /\ Begin(t, Command("open", kind, s, {}))
    BY <1>3 DEF StartEvent
  <2> QED
    BY <2>1, SessionBegins DEF InSession
<1>4. ASSUME NEW kind \in Kinds, EndEvent(t, kind)
      PROVE  FlowInv'
  <2>0. PICK s \in Active :
          \E e \in OpenEvents(s, kind) : Begin(t, Command("close", kind, s, {e}))
    BY <1>4 DEF EndEvent
  <2>1. PICK e \in OpenEvents(s, kind) : Begin(t, Command("close", kind, s, {e}))
    BY <2>0
  <2>2. {e} \in SUBSET DOMAIN events /\ events[e].session = s /\ events[e].ended = Null
    BY <2>1, Found
  <2> QED
    BY <2>1, <2>2, SessionBegins DEF InSession
<1>5. CASE RecordDeploy(t)
  <2>1. PICK s \in First(Active) : Begin(t, Command("deploy", Null, s, {}))
    BY <1>5 DEF RecordDeploy
  <2>2. CASE s = Null
    BY <2>1, <2>2, OtherBegins
  <2>3. CASE s # Null
    <3>1. s \in Active
      BY <2>1, <2>3 DEF First
    <3> QED
      BY <2>1, <3>1, SessionBegins DEF InSession
  <2> QED
    BY <2>2, <2>3
<1>6. CASE StartIncident(t)
  <2>1. PICK d \in First(LatestDeployments) :
          Begin(t, Command("incident", Null, Null, {d} \ {Null}))
    BY <1>6 DEF StartIncident
  <2>2. \A x \in {d} \ {Null} : x \in DOMAIN deployments /\ x \in Nat
    BY <2>1, RowsForm DEF First, LatestDeployments, FlowInv, ShapeInv
  <2>3. {d} \ {Null} \in SUBSET Nat
    BY <2>2
  <2> QED
    BY <2>1, <2>2, <2>3, OtherBegins
<1>7. CASE EndIncident(t)
  <2>1. PICK i \in OpenIncidents : Begin(t, Command("resolve", Null, Null, {i}))
    BY <1>7 DEF EndIncident
  <2>2. {i} \in SUBSET Nat
    BY <2>1, RowsForm DEF OpenIncidents, LastIncident, FlowInv, ShapeInv
  <2> QED
    BY <2>1, <2>2, OtherBegins
<1> QED
  BY <1>1, <1>2, <1>3, <1>4, <1>5, <1>6, <1>7, StartBegins

-----------------------------------------------------------------------------
(* Agents, the pipeline and the clock *)

\* What a human tracks stays as it is.
HumanUntouched ==
  /\ \A s : HumanIn(sessions', s) <=> HumanIn(sessions, s)
  /\ \A s : HumanIn(sessions, s) => sessions'[s] = sessions[s]
  /\ events' = events
  /\ \A d \in DOMAIN deployments : d \in DOMAIN deployments' /\ deployments'[d] = deployments[d]
  /\ \A d \in DOMAIN deployments' :
       deployments'[d].session # Null => d \in DOMAIN deployments

\* Then nothing that commands read changes, and nothing that nests.
LEMMA UntouchedKeeps ==
  ASSUME RowsInv, HumanUntouched
  PROVE  /\ \A s : ActiveIn(sessions', s) <=> ActiveIn(sessions, s)
         /\ \A c : MayWrite(c, sessions, deployments) => MayWrite(c, sessions', deployments')
         /\ \A c : StillTrue(c, sessions, events, deployments) =>
              StillTrue(c, sessions', events', deployments')
         /\ Nests(sessions, events, deployments) => Nests(sessions', events', deployments')
<1>1. \A s : ActiveIn(sessions', s) <=> ActiveIn(sessions, s)
  BY DEF HumanUntouched, ActiveIn
<1>2. ASSUME NEW c, MayWrite(c, sessions, deployments)
      PROVE  MayWrite(c, sessions', deployments')
  BY <1>2 DEF HumanUntouched, MayWrite
<1>3. ASSUME NEW time, AllBy(time, sessions, events, deployments)
      PROVE  AllBy(time, sessions', events', deployments')
  BY <1>3 DEF HumanUntouched, AllBy, HumanIn
<1>4. ASSUME NEW c, StillTrue(c, sessions, events, deployments)
      PROVE  StillTrue(c, sessions', events', deployments')
  BY <1>1, <1>3, <1>4 DEF HumanUntouched, StillTrue, ActiveIn, HumanIn
<1>5. ASSUME Nests(sessions, events, deployments)
      PROVE  Nests(sessions', events', deployments')
  <2>1. SessionsNest(sessions')
    BY <1>1, <1>5 DEF HumanUntouched, Nests, SessionsNest, ActiveIn, HumanIn
  <2>2. EventsNest(sessions', events')
    BY <1>5 DEF HumanUntouched, Nests, EventsNest, RowsInv, EventsFit
  <2>3. DeploymentsNest(sessions', deployments')
    BY <1>5 DEF HumanUntouched, Nests, DeploymentsNest, RowsInv, DeploymentsFit
  <2> QED
    BY <2>1, <2>2, <2>3 DEF Nests
<1> QED
  BY <1>1, <1>2, <1>4, <1>5

\* So the invariant is kept.
LEMMA AgentKeeps ==
  ASSUME FlowAssumption, FlowInv, HumanUntouched, TablesForm', Fits,
         UNCHANGED <<now, commands, begun, races>>, agents' \in 0 .. MaxAgents
  PROVE  FlowInv'
<1>1. /\ ShapeInv /\ RowsInv /\ CommandsInv /\ CountInv /\ FewActive /\ ReadInv /\ NestInv
  BY DEF FlowInv
<1>2. ShapeInv'
  BY <1>1 DEF ShapeInv, CommandRecord
<1>3. RowsInv'
  BY DEF RowsInv, Fits
<1>4. /\ \A s : ActiveIn(sessions', s) <=> ActiveIn(sessions, s)
      /\ \A c : MayWrite(c, sessions, deployments) => MayWrite(c, sessions', deployments')
      /\ \A c : StillTrue(c, sessions, events, deployments) =>
           StillTrue(c, sessions', events', deployments')
      /\ Nests(sessions, events, deployments) => Nests(sessions', events', deployments')
  BY <1>1, UntouchedKeeps
<1>5. CommandsInv'
  BY <1>1, <1>4 DEF CommandsInv
<1>6. CountInv'
  BY <1>1 DEF CountInv, Running
<1>7. FewActive'
  <2>1. Active' = Active
    BY <1>4 DEF Active, ActiveIn, HumanIn
  <2> QED
    BY <1>1, <2>1 DEF FewActive
<1>8. ReadInv'
  BY <1>1, <1>4 DEF ReadInv
<1>9. NestInv'
  BY <1>1, <1>4 DEF NestInv
<1> QED
  BY <1>2, <1>3, <1>5, <1>6, <1>7, <1>8, <1>9 DEF FlowInv

\* What agents' steps share.
LEMMA AgentForm ==
  ASSUME FlowAssumption, FlowInv
  PROVE  /\ now \in Nat /\ Null \notin Nat /\ agents \in 0 .. MaxAgents
         /\ TablesForm /\ RowsInv
         /\ \A s \in DOMAIN sessions : sessions[s] \in SessionRow /\ s \in Nat
         /\ \A i \in DOMAIN incidents : incidents[i] \in IncidentRow
BY RowsForm DEF FlowInv, ShapeInv, FlowAssumption

\* The session of an agent's instance is another.
LEMMA AgentStartsKeeps ==
  ASSUME FlowAssumption, FlowInv, AgentStarts
  PROVE  FlowInv'
<1> DEFINE row == Session("agent", now)
<1>1. /\ sessions' = Append(sessions, row) /\ events' = events /\ deployments' = deployments
      /\ incidents' = incidents
      /\ UNCHANGED <<now, commands, begun, races>> /\ agents < MaxAgents /\ agents' = agents + 1
  BY DEF AgentStarts, AgentBegins
<1>2. /\ now \in Nat /\ Null \notin Nat /\ agents \in 0 .. MaxAgents /\ TablesForm /\ RowsInv
  BY AgentForm
<1>3. /\ row \in SessionRow /\ row.owner = "agent" /\ row.status = "active" /\ row.began = now
      /\ row.ended = Null
  BY <1>2 DEF Session, SessionRow, States, Ended
<1> HIDE DEF row
<1>4. sessions \in Seq(SessionRow) /\ row \in SessionRow
  BY <1>2, <1>3 DEF TablesForm
<1>5. PICK n \in Nat :
        /\ sessions' \in Seq(SessionRow)
        /\ n \notin DOMAIN sessions /\ DOMAIN sessions' = DOMAIN sessions \cup {n}
        /\ sessions'[n] = row
        /\ \A s \in DOMAIN sessions : sessions'[s] = sessions[s]
  BY <1>1, <1>4, RowInserted
<1>6. TablesForm'
  BY <1>1, <1>2, <1>5 DEF TablesForm, EventRow, DeploymentRow, IncidentRow, SessionRow
<1>7. HumanUntouched
  BY <1>1, <1>3, <1>5 DEF HumanUntouched, HumanIn
<1>8. Fits
  <2>1. SessionsFit(sessions', now)
    BY <1>2, <1>3, <1>5 DEF RowsInv, SessionsFit, By
  <2>2. EventsFit(sessions', events', now) /\ DeploymentsFit(sessions', deployments', now)
    BY <1>1, <1>2, <1>7 DEF RowsInv, EventsFit, DeploymentsFit, HumanUntouched
  <2> QED
    BY <1>1, <1>2, <2>1, <2>2 DEF Fits, RowsInv
<1>9. agents' \in 0 .. MaxAgents
  BY <1>1, <1>2 DEF FlowAssumption
<1> QED
  BY <1>1, <1>6, <1>7, <1>8, <1>9, AgentKeeps

\* It ends.
LEMMA AgentEndsKeeps ==
  ASSUME FlowAssumption, FlowInv, NEW x \in DOMAIN sessions, AgentEnds(x)
  PROVE  FlowInv'
<1>1. /\ sessions[x].owner = "agent"
      /\ sessions' = [sessions EXCEPT ![x].status = "ended", ![x].ended = now]
      /\ events' = events /\ deployments' = deployments /\ incidents' = incidents
      /\ UNCHANGED <<now, commands, begun, races>> /\ agents' = agents
  BY DEF AgentEnds, counters
<1>2. /\ now \in Nat /\ Null \notin Nat /\ agents \in 0 .. MaxAgents /\ TablesForm /\ RowsInv
      /\ \A s \in DOMAIN sessions : sessions[s] \in SessionRow
  BY AgentForm
<1>3. /\ sessions' = [s \in DOMAIN sessions |-> sessions'[s]]
      /\ \A s \in DOMAIN sessions : s # x => sessions'[s] = sessions[s]
      /\ sessions'[x] = [sessions[x] EXCEPT !.status = "ended", !.ended = now]
  BY <1>1, <1>2 DEF TablesForm
<1>4. /\ sessions'[x] \in SessionRow /\ sessions'[x].owner = "agent"
      /\ sessions'[x].began = sessions[x].began /\ sessions'[x].ended = now
  <2>1. sessions[x] \in SessionRow /\ sessions[x].owner = "agent" /\ now \in Ended
    BY <1>1, <1>2 DEF Ended
  <2> QED
    BY <1>3, <2>1 DEF SessionRow, States
<1>5. sessions' \in Seq(SessionRow) /\ DOMAIN sessions' = DOMAIN sessions
  BY <1>2, <1>3, <1>4, RowsUpdated DEF TablesForm
<1>6. TablesForm'
  BY <1>1, <1>2, <1>5 DEF TablesForm, EventRow, DeploymentRow, IncidentRow, SessionRow
<1>7. HumanUntouched
  BY <1>1, <1>3, <1>4, <1>5 DEF HumanUntouched, HumanIn
<1>8. Fits
  <2>1. SessionsFit(sessions', now)
    <3>1. now # Null /\ now <= now /\ sessions[x].began <= now
      BY <1>2 DEF RowsInv, SessionsFit, By
    <3>2. \A s \in DOMAIN sessions : s # x =>
            By(sessions'[s], now) /\ (sessions'[s].status = "ended" => sessions'[s].ended # Null)
      BY <1>2, <1>3 DEF RowsInv, SessionsFit
    <3>3. By(sessions'[x], now) /\ sessions'[x].ended # Null
      BY <1>4, <3>1 DEF By
    <3> QED
      BY <1>5, <3>2, <3>3 DEF SessionsFit
  <2>2. EventsFit(sessions', events', now) /\ DeploymentsFit(sessions', deployments', now)
    BY <1>1, <1>2, <1>7 DEF RowsInv, EventsFit, DeploymentsFit, HumanUntouched
  <2> QED
    BY <1>1, <1>2, <2>1, <2>2 DEF Fits, RowsInv
<1> QED
  BY <1>1, <1>2, <1>6, <1>7, <1>8, AgentKeeps

\* The merge stage records a deployment of no session.
LEMMA AgentDeploysKeeps ==
  ASSUME FlowAssumption, FlowInv, AgentDeploys
  PROVE  FlowInv'
<1> DEFINE row == [session |-> Null, at |-> now]
<1>1. /\ deployments' = Append(deployments, row) /\ sessions' = sessions /\ events' = events
      /\ incidents' = incidents
      /\ UNCHANGED <<now, commands, begun, races>> /\ agents < MaxAgents /\ agents' = agents + 1
  BY DEF AgentDeploys, AgentBegins
<1>2. /\ now \in Nat /\ Null \notin Nat /\ agents \in 0 .. MaxAgents /\ TablesForm /\ RowsInv
  BY AgentForm
<1>3. row \in DeploymentRow /\ row.session = Null /\ row.at = now
  BY <1>2 DEF DeploymentRow
<1> HIDE DEF row
<1>4. deployments \in Seq(DeploymentRow) /\ row \in DeploymentRow
  BY <1>2, <1>3 DEF TablesForm
<1>5. PICK n \in Nat :
        /\ deployments' \in Seq(DeploymentRow)
        /\ n \notin DOMAIN deployments /\ DOMAIN deployments' = DOMAIN deployments \cup {n}
        /\ deployments'[n] = row
        /\ \A d \in DOMAIN deployments : deployments'[d] = deployments[d]
  BY <1>1, <1>4, RowInserted
<1>6. TablesForm'
  BY <1>1, <1>2, <1>5 DEF TablesForm, EventRow, DeploymentRow, IncidentRow, SessionRow
<1>7. HumanUntouched
  BY <1>1, <1>3, <1>5 DEF HumanUntouched
<1>8. Fits
  <2>1. DeploymentsFit(sessions', deployments', now)
    BY <1>1, <1>2, <1>3, <1>5 DEF RowsInv, DeploymentsFit
  <2>2. IncidentsFit(deployments', incidents', now)
    BY <1>1, <1>2, <1>5 DEF RowsInv, IncidentsFit
  <2> QED
    BY <1>1, <1>2, <2>1, <2>2 DEF Fits, RowsInv
<1>9. agents' \in 0 .. MaxAgents
  BY <1>1, <1>2 DEF FlowAssumption
<1> QED
  BY <1>1, <1>6, <1>7, <1>8, <1>9, AgentKeeps

\* An incident of the pipeline begins, of no deployment.
LEMMA PipelineIncidentKeeps ==
  ASSUME FlowAssumption, FlowInv, OpenPipelineIncident
  PROVE  FlowInv'
<1> DEFINE row == NewIncident("pipeline", Null, now)
<1>1. /\ incidents' = Append(incidents, row) /\ sessions' = sessions /\ events' = events
      /\ deployments' = deployments
      /\ UNCHANGED <<now, commands, begun, races>> /\ agents < MaxAgents /\ agents' = agents + 1
  BY DEF OpenPipelineIncident, AgentBegins
<1>2. /\ now \in Nat /\ Null \notin Nat /\ agents \in 0 .. MaxAgents /\ TablesForm /\ RowsInv
  BY AgentForm
<1>3. row \in IncidentRow /\ row.deployment = Null /\ row.began = now /\ row.ended = Null
  BY <1>2 DEF IncidentRow, NewIncident, Ended
<1> HIDE DEF row
<1>4. incidents \in Seq(IncidentRow) /\ row \in IncidentRow
  BY <1>2, <1>3 DEF TablesForm
<1>5. PICK n \in Nat :
        /\ incidents' \in Seq(IncidentRow)
        /\ n \notin DOMAIN incidents /\ DOMAIN incidents' = DOMAIN incidents \cup {n}
        /\ incidents'[n] = row
        /\ \A i \in DOMAIN incidents : incidents'[i] = incidents[i]
  BY <1>1, <1>4, RowInserted
<1>6. TablesForm'
  BY <1>1, <1>2, <1>5 DEF TablesForm, EventRow, DeploymentRow, IncidentRow, SessionRow
<1>7. HumanUntouched
  BY <1>1 DEF HumanUntouched
<1>8. Fits
  <2>1. IncidentsFit(deployments', incidents', now)
    BY <1>1, <1>2, <1>3, <1>5 DEF RowsInv, IncidentsFit, By
  <2> QED
    BY <1>1, <1>2, <2>1 DEF Fits, RowsInv
<1>9. agents' \in 0 .. MaxAgents
  BY <1>1, <1>2 DEF FlowAssumption
<1> QED
  BY <1>1, <1>6, <1>7, <1>8, <1>9, AgentKeeps

\* Those that are open end.
LEMMA PipelineResolvesKeeps ==
  ASSUME FlowAssumption, FlowInv, ResolvePipelineIncidents
  PROVE  FlowInv'
<1>1. /\ incidents' = [i \in DOMAIN incidents |->
                         IF incidents[i].owner = "pipeline" /\ incidents[i].ended = Null
                         THEN [incidents[i] EXCEPT !.ended = now] ELSE incidents[i]]
      /\ sessions' = sessions /\ events' = events /\ deployments' = deployments
      /\ UNCHANGED <<now, commands, begun, races>> /\ agents' = agents
  BY DEF ResolvePipelineIncidents, counters
<1>2. /\ now \in Nat /\ Null \notin Nat /\ agents \in 0 .. MaxAgents /\ TablesForm /\ RowsInv
      /\ \A i \in DOMAIN incidents : incidents[i] \in IncidentRow
  BY AgentForm
<1>3. /\ incidents' = [i \in DOMAIN incidents |-> incidents'[i]]
      /\ \A i \in DOMAIN incidents :
           /\ incidents'[i] \in IncidentRow
           /\ incidents'[i].deployment = incidents[i].deployment
           /\ incidents'[i].began = incidents[i].began
           /\ incidents'[i].ended = now \/ incidents'[i].ended = incidents[i].ended
  BY <1>1, <1>2 DEF IncidentRow, Ended
<1>4. incidents' \in Seq(IncidentRow) /\ DOMAIN incidents' = DOMAIN incidents
  BY <1>2, <1>3, RowsUpdated DEF TablesForm
<1>5. TablesForm'
  BY <1>1, <1>2, <1>4 DEF TablesForm, EventRow, DeploymentRow, IncidentRow, SessionRow
<1>6. HumanUntouched
  BY <1>1 DEF HumanUntouched
<1>7. Fits
  <2>1. IncidentsFit(deployments', incidents', now)
    BY <1>1, <1>2, <1>3, <1>4 DEF RowsInv, IncidentsFit, By
  <2> QED
    BY <1>1, <1>2, <2>1 DEF Fits, RowsInv
<1> QED
  BY <1>1, <1>2, <1>5, <1>6, <1>7, AgentKeeps

\* Time passes.
LEMMA TickKeeps ==
  ASSUME FlowAssumption, FlowInv, Tick
  PROVE  FlowInv'
<1>1. /\ now < MaxTime /\ now' = now + 1
      /\ sessions' = sessions /\ events' = events /\ deployments' = deployments
      /\ incidents' = incidents /\ commands' = commands
      /\ begun' = begun /\ agents' = agents /\ races' = races
  BY DEF Tick, tables, counters
<1>2. /\ ShapeInv /\ RowsInv /\ CommandsInv /\ CountInv /\ FewActive /\ ReadInv /\ NestInv
  BY DEF FlowInv
<1>3. now \in Nat /\ now' \in 0 .. MaxTime /\ now <= now'
  BY <1>1, <1>2 DEF ShapeInv, FlowAssumption
<1>4. ShapeInv'
  BY <1>1, <1>2, <1>3
     DEF ShapeInv, TablesForm, EventRow, DeploymentRow, IncidentRow, SessionRow, CommandRecord
<1>5. RowsInv'
  <2>1. /\ \A s \in DOMAIN sessions : sessions[s] \in SessionRow
        /\ \A e \in DOMAIN events : events[e] \in EventRow
        /\ \A d \in DOMAIN deployments : deployments[d] \in DeploymentRow
        /\ \A i \in DOMAIN incidents : incidents[i] \in IncidentRow
    BY <1>2, RowsForm DEF ShapeInv
  <2>2. ASSUME NEW row, row.began \in Nat, row.ended \in Ended, By(row, now)
        PROVE  By(row, now')
    BY <1>3, <2>2 DEF By, Ended
  <2>3. /\ \A s \in DOMAIN sessions : By(sessions[s], now) => By(sessions[s], now')
        /\ \A e \in DOMAIN events : By(events[e], now) => By(events[e], now')
        /\ \A i \in DOMAIN incidents : By(incidents[i], now) => By(incidents[i], now')
    BY <2>1, <2>2 DEF SessionRow, EventRow, IncidentRow
  <2>4. \A d \in DOMAIN deployments : deployments[d].at <= now => deployments[d].at <= now'
    BY <1>3, <2>1 DEF DeploymentRow
  <2>5. SessionsFit(sessions, now') /\ EventsFit(sessions, events, now')
    BY <1>2, <2>3 DEF RowsInv, SessionsFit, EventsFit
  <2>6. DeploymentsFit(sessions, deployments, now') /\ IncidentsFit(deployments, incidents, now')
    BY <1>2, <2>3, <2>4 DEF RowsInv, DeploymentsFit, IncidentsFit
  <2> QED
    BY <1>1, <2>5, <2>6 DEF RowsInv
<1>6. CommandsInv'
  <2>1. \A t \in Terminals : commands[t] # Null => commands[t].at \in Nat
    BY <1>2 DEF ShapeInv, CommandRecord
  <2>2. \A t \in Terminals : commands[t] # Null => commands[t].at <= now'
    BY <1>2, <1>3, <2>1 DEF CommandsInv
  <2> QED
    BY <1>1, <1>2, <2>2 DEF CommandsInv
<1>7. CountInv' /\ FewActive' /\ ReadInv' /\ NestInv'
  BY <1>1, <1>2 DEF CountInv, Running, FewActive, Active, ReadInv, NestInv
<1> QED
  BY <1>4, <1>5, <1>6, <1>7 DEF FlowInv

\* A command is rolled back.
LEMMA AbortKeeps ==
  ASSUME FlowAssumption, FlowInv, NEW t \in Terminals, Abort(t)
  PROVE  FlowInv'
<1>1. /\ commands' = [commands EXCEPT ![t] = Null]
      /\ sessions' = sessions /\ events' = events /\ deployments' = deployments
      /\ incidents' = incidents /\ now' = now
      /\ begun' = begun /\ agents' = agents /\ races' = races
  BY DEF Abort, tables, counters
<1>2. /\ ShapeInv /\ RowsInv /\ CommandsInv /\ CountInv /\ FewActive /\ ReadInv /\ NestInv
  BY DEF FlowInv
<1>3. /\ commands' \in [Terminals -> CommandRecord \cup {Null}]
      /\ \A u \in Terminals : commands'[u] # Null => commands'[u] = commands[u]
  BY <1>1, <1>2 DEF ShapeInv
<1>4. ShapeInv'
  BY <1>1, <1>2, <1>3
     DEF ShapeInv, TablesForm, EventRow, DeploymentRow, IncidentRow, SessionRow, CommandRecord
<1>5. RowsInv'
  BY <1>1, <1>2 DEF RowsInv
<1>6. CommandsInv' /\ ReadInv'
  BY <1>1, <1>2, <1>3 DEF CommandsInv, ReadInv
<1>7. CountInv'
  <2>1. /\ races \in Nat /\ begun \in Nat
        /\ IsFiniteSet(Running) /\ races + Cardinality(Running) <= begun
    BY <1>2 DEF ShapeInv, CountInv, FlowAssumption
  <2>2. Running' \subseteq Running
    BY <1>3 DEF Running
  <2>3. IsFiniteSet(Running') /\ Cardinality(Running') <= Cardinality(Running)
    BY <2>1, <2>2, FS_Subset
  <2>4. Cardinality(Running) \in Nat /\ Cardinality(Running') \in Nat
    BY <2>1, <2>3, FS_CardinalityType
  <2> QED
    BY <1>1, <2>1, <2>3, <2>4 DEF CountInv
<1>8. FewActive' /\ NestInv'
  BY <1>1, <1>2 DEF FewActive, Active, NestInv
<1> QED
  BY <1>4, <1>5, <1>6, <1>7, <1>8 DEF FlowInv

-----------------------------------------------------------------------------
(* The invariant holds *)

\* Nothing is tracked at first.
LEMMA FlowInvInit == FlowAssumption /\ FlowInit => FlowInv
<1> SUFFICES ASSUME FlowAssumption, FlowInit PROVE FlowInv
  OBVIOUS
<1>1. /\ now = 0 /\ sessions = <<>> /\ events = <<>> /\ deployments = <<>> /\ incidents = <<>>
      /\ commands = [t \in Terminals |-> Null] /\ begun = 0 /\ agents = 0 /\ races = 0
  BY DEF FlowInit
<1>2. /\ DOMAIN sessions = {} /\ DOMAIN events = {} /\ DOMAIN deployments = {}
      /\ DOMAIN incidents = {}
  BY <1>1
<1>3. TablesForm
  BY <1>1, EmptySeq DEF TablesForm
<1>4. ShapeInv
  BY <1>1, <1>3 DEF ShapeInv, FlowAssumption
<1>5. RowsInv
  BY <1>2 DEF RowsInv, SessionsFit, EventsFit, DeploymentsFit, IncidentsFit
<1>6. \A t \in Terminals : commands[t] = Null
  BY <1>1
<1>7. CommandsInv /\ ReadInv
  BY <1>6 DEF CommandsInv, ReadInv
<1>8. IsFiniteSet({}) /\ Cardinality({}) = 0
  BY FS_EmptySet
<1>9. Running = {} /\ Active = {}
  BY <1>2, <1>6 DEF Running, Active
<1>10. CountInv /\ FewActive
  BY <1>1, <1>8, <1>9 DEF CountInv, FewActive
<1>11. NestInv
  BY <1>2 DEF NestInv, Nests, SessionsNest, EventsNest, DeploymentsNest, ActiveIn, HumanIn
<1> QED
  BY <1>4, <1>5, <1>7, <1>10, <1>11 DEF FlowInv

\* Every step keeps it.
LEMMA FlowInvStep == FlowAssumption /\ FlowInv /\ [FlowNext]_flowVars => FlowInv'
<1> SUFFICES ASSUME FlowAssumption, FlowInv, [FlowNext]_flowVars PROVE FlowInv'
  OBVIOUS
<1>1. CASE Tick
  BY <1>1, TickKeeps
<1>2. CASE Agents
  BY <1>2, AgentStartsKeeps, AgentEndsKeeps, AgentDeploysKeeps, PipelineIncidentKeeps,
     PipelineResolvesKeeps DEF Agents
<1>3. ASSUME NEW t \in Terminals,
             \/ StartSession(t) \/ EndSession(t) \/ Pause(t) \/ Resume(t)
             \/ \E kind \in Kinds : StartEvent(t, kind) \/ EndEvent(t, kind)
             \/ RecordDeploy(t) \/ StartIncident(t) \/ EndIncident(t)
      PROVE  FlowInv'
  BY <1>3, CommandBegins
<1>4. ASSUME NEW t \in Terminals, Commit(t) PROVE FlowInv'
  BY <1>4, CommitKeeps
<1>5. ASSUME NEW t \in Terminals, Abort(t) PROVE FlowInv'
  BY <1>5, AbortKeeps
<1>6. CASE UNCHANGED flowVars
  <2>1. /\ now' = now /\ sessions' = sessions /\ events' = events /\ deployments' = deployments
        /\ incidents' = incidents /\ commands' = commands
        /\ begun' = begun /\ agents' = agents /\ races' = races
    BY <1>6 DEF flowVars, tables, counters
  <2>2. ShapeInv'
    BY <2>1 DEF FlowInv, ShapeInv, TablesForm, EventRow, DeploymentRow, IncidentRow, SessionRow,
       CommandRecord
  <2> QED
    BY <2>1, <2>2 DEF FlowInv, RowsInv, CommandsInv, CountInv, Running, FewActive, Active,
       ReadInv, NestInv
<1> QED
  BY <1>1, <1>2, <1>3, <1>4, <1>5, <1>6 DEF FlowNext

\* So it holds throughout.
LEMMA FlowInvHolds == FlowSpec => []FlowInv
<1>1. FlowInit => FlowInv
  BY FlowInvInit, FlowAssumption
<1>2. FlowInv /\ [FlowNext]_flowVars => FlowInv'
  BY FlowInvStep, FlowAssumption
<1> QED
  BY <1>1, <1>2, PTL DEF FlowSpec

\* Rows refer to rows that are there, begin and end when the clock has been, and no command
\* is of a later time: the five tables of models/, whatever the terminals and the agents do.
THEOREM FlowTypeCorrect == FlowSpec => []FlowTypeOK
<1>1. ASSUME FlowAssumption, FlowInv PROVE FlowTypeOK
  <2>1. /\ now \in 0 .. MaxTime /\ begun \in 0 .. MaxCommands /\ agents \in 0 .. MaxAgents
        /\ races \in Nat /\ now \in Nat /\ begun \in Nat /\ Null \notin Nat
        /\ TablesForm /\ RowsInv /\ CommandsInv
        /\ commands \in [Terminals -> CommandRecord \cup {Null}]
    BY <1>1 DEF FlowInv, ShapeInv, FlowAssumption
  <2>2. races \in 0 .. begun
    <3>1. Cardinality(Running) \in Nat /\ races + Cardinality(Running) <= begun
      BY <1>1, FS_CardinalityType DEF FlowInv, CountInv
    <3> QED
      BY <2>1, <3>1
  <2>3. /\ \A s \in DOMAIN sessions : sessions[s] \in SessionRow
        /\ \A e \in DOMAIN events : events[e] \in EventRow
        /\ \A d \in DOMAIN deployments : deployments[d] \in DeploymentRow
        /\ \A i \in DOMAIN incidents : incidents[i] \in IncidentRow
    BY <2>1, RowsForm
  <2>4. ASSUME NEW row, row.began \in Nat, row.ended \in Ended, By(row, now)
        PROVE  row.began \in Times /\ row.ended \in Times \cup {Null}
    BY <2>1, <2>4 DEF By, Ended, Times
  <2>5. ASSUME NEW s \in DOMAIN sessions
        PROVE  /\ sessions[s].owner \in {"human", "agent"}
               /\ sessions[s].status \in {"active", "paused", "ended"}
               /\ sessions[s].began \in Times /\ sessions[s].ended \in Times \cup {Null}
               /\ sessions[s].status = "ended" => sessions[s].ended # Null
    <3>1. By(sessions[s], now) /\ (sessions[s].status = "ended" => sessions[s].ended # Null)
      BY <2>1 DEF RowsInv, SessionsFit
    <3> QED
      BY <2>3, <2>4, <3>1 DEF SessionRow, States
  <2>6. ASSUME NEW e \in DOMAIN events
        PROVE  /\ events[e].session \in DOMAIN sessions /\ events[e].kind \in Kinds
               /\ events[e].began \in Times /\ events[e].ended \in Times \cup {Null}
    <3>1. By(events[e], now) /\ HumanIn(sessions, events[e].session)
      BY <2>1 DEF RowsInv, EventsFit
    <3> QED
      BY <2>3, <2>4, <3>1 DEF EventRow, HumanIn
  <2>7. ASSUME NEW d \in DOMAIN deployments
        PROVE  /\ deployments[d].session \in DOMAIN sessions \cup {Null}
               /\ deployments[d].at \in Times
    <3>1. /\ deployments[d].at <= now
          /\ deployments[d].session # Null => deployments[d].session \in DOMAIN sessions
      BY <2>1 DEF RowsInv, DeploymentsFit, HumanIn
    <3> QED
      BY <2>1, <2>3, <3>1 DEF DeploymentRow, Times
  <2>8. ASSUME NEW i \in DOMAIN incidents
        PROVE  /\ incidents[i].owner \in {"human", "pipeline"}
               /\ incidents[i].deployment \in DOMAIN deployments \cup {Null}
               /\ incidents[i].began \in Times /\ incidents[i].ended \in Times \cup {Null}
    <3>1. /\ By(incidents[i], now)
          /\ incidents[i].deployment # Null => incidents[i].deployment \in DOMAIN deployments
      BY <2>1 DEF RowsInv, IncidentsFit
    <3> QED
      BY <2>3, <2>4, <3>1 DEF IncidentRow
  <2>9. ASSUME NEW t \in Terminals, commands[t] # Null
        PROVE  commands[t].at \in Times
    <3>1. commands[t].at <= now /\ commands[t].at \in Nat
      BY <2>1, <2>9 DEF CommandsInv, CommandRecord
    <3> QED
      BY <2>1, <3>1 DEF Times
  <2> QED
    BY <2>1, <2>2, <2>5, <2>6, <2>7, <2>8, <2>9 DEF FlowTypeOK
<1> QED
  BY <1>1, FlowInvHolds, FlowAssumption, PTL

\* What a human tracks nests unless a command committed on a read that another had overtaken,
\* and every such race leaves at most one more session active, however many terminals run
\* commands: services/ write by key what they read before.
THEOREM TrackedTimeNests == FlowSpec => []Nested
<1>1. ASSUME FlowAssumption, FlowInv PROVE Nested
  <2>1. Cardinality(Active) <= 1 + races
    BY <1>1 DEF FlowInv, FewActive
  <2>2. ASSUME races = 0
        PROVE  /\ \A r, s \in DOMAIN sessions :
                    sessions[r].owner = "human" /\ sessions[s].owner = "human" /\ r # s =>
                      Apart(sessions[r], sessions[s])
               /\ \A e \in DOMAIN events :
                    LET s == sessions[events[e].session]
                    IN  /\ s.began <= events[e].began
                        /\ s.status = "ended" =>
                             events[e].ended # Null /\ events[e].ended <= s.ended
               /\ \A e, f \in DOMAIN events :
                    events[e].session = events[f].session /\ events[e].kind = events[f].kind
                    /\ e # f =>
                      Apart(events[e], events[f])
               /\ \A d \in DOMAIN deployments :
                    deployments[d].session # Null =>
                      LET s == sessions[deployments[d].session]
                      IN  s.began <= deployments[d].at /\ deployments[d].at <= EndOf(s)
               /\ \A i \in DOMAIN incidents :
                    incidents[i].deployment # Null =>
                      deployments[incidents[i].deployment].at <= incidents[i].began
    <3>1. Nests(sessions, events, deployments) /\ RowsInv
      BY <1>1, <2>2 DEF FlowInv, NestInv
    <3>2. \A x, y : OneAfterAnother(x, y) => Apart(x, y)
      BY DEF OneAfterAnother, Before, Apart, EndOf
    <3>3. \A r, s \in DOMAIN sessions :
            sessions[r].owner = "human" /\ sessions[s].owner = "human" /\ r # s =>
              Apart(sessions[r], sessions[s])
      BY <3>1, <3>2 DEF Nests, SessionsNest
    <3>4. \A e, f \in DOMAIN events :
            events[e].session = events[f].session /\ events[e].kind = events[f].kind /\ e # f =>
              Apart(events[e], events[f])
      BY <3>1, <3>2 DEF Nests, EventsNest
    <3>5. ASSUME NEW d \in DOMAIN deployments, deployments[d].session # Null
          PROVE  /\ sessions[deployments[d].session].began <= deployments[d].at
                 /\ deployments[d].at <= EndOf(sessions[deployments[d].session])
      BY <3>1, <3>5 DEF Nests, DeploymentsNest, RowsInv, DeploymentsFit, EndOf
    <3>6. \A e \in DOMAIN events :
            /\ sessions[events[e].session].began <= events[e].began
            /\ sessions[events[e].session].status = "ended" =>
                 events[e].ended # Null /\ events[e].ended <= sessions[events[e].session].ended
      BY <3>1 DEF Nests, EventsNest
    <3>7. \A i \in DOMAIN incidents : incidents[i].deployment # Null =>
            deployments[incidents[i].deployment].at <= incidents[i].began
      BY <3>1 DEF RowsInv, IncidentsFit
    <3> QED
      BY <3>3, <3>4, <3>5, <3>6, <3>7
  <2> QED
    BY <2>1, <2>2 DEF Nested
<1> QED
  BY <1>1, FlowInvHolds, FlowAssumption, PTL

-----------------------------------------------------------------------------
(* The time of a report *)

\* A row ends after it began.
Forward(row) == row.ended # Null => row.began <= row.ended

\* The points of time a row covers.
Points(row) == row.began .. EndOf(row) - 1

Timed(row) ==
  row.began \in Nat /\ row.ended \in Ended /\ By(row, now) /\ Forward(row)

\* Its duration is how many they are.
LEMMA DurationCounts ==
  ASSUME now \in Nat, NEW row, Timed(row)
  PROVE  /\ Points(row) \subseteq 0 .. now /\ IsFiniteSet(Points(row))
         /\ Duration(row) = Cardinality(Points(row)) /\ Duration(row) \in Nat
         /\ \A p : p \in Points(row) <=> p \in Nat /\ row.began <= p /\ p < EndOf(row)
         /\ EndOf(row) \in Nat /\ EndOf(row) <= now
<1>1. row.began \in Nat /\ row.began <= now /\ row.ended \in Nat \cup {Null}
  BY DEF Timed, By, Ended
<1>2. PICK a \in Nat : a = row.began
  BY <1>1
<1>3. EndOf(row) \in Nat /\ a <= EndOf(row) /\ EndOf(row) <= now
  BY <1>1, <1>2 DEF Timed, By, Forward, EndOf
<1>4. PICK b \in Nat : b = EndOf(row)
  BY <1>3
<1>5. a <= b /\ b <= now
  BY <1>3, <1>4
<1>6. Points(row) = a .. b - 1
  BY <1>2, <1>4 DEF Points
<1>7. Duration(row) = b - a
  BY <1>2, <1>4 DEF Duration
<1>8. IsFiniteSet(a .. b - 1) /\ Cardinality(a .. b - 1) = IF a > b - 1 THEN 0 ELSE (b - 1) - a + 1
  BY FS_Interval
<1>9. Cardinality(a .. b - 1) = b - a
  BY <1>5, <1>8
<1>10. a .. b - 1 \subseteq 0 .. now
  BY <1>5
<1>11. \A p : p \in a .. b - 1 <=> p \in Nat /\ a <= p /\ p < b
  BY <1>5
<1> QED
  BY <1>2, <1>3, <1>4, <1>5, <1>6, <1>7, <1>8, <1>9, <1>10, <1>11

\* The sum of the durations of some rows of a table, and the points of each of them.
TimeOf(table, S) == MapThenSumSet(LAMBDA x : Duration(table[x]), S)
Spans(table, S) == Tagged(S, [x \in S |-> Points(table[x])], 0 .. now)

\* The sum is one of the durations as a function.
LEMMA TimeSums ==
  ASSUME NEW table, NEW S, IsFiniteSet(S), NEW f, f = [x \in S |-> Duration(table[x])]
  PROVE  \E h : Summing(f, S, h) /\ TimeOf(table, S) = h[S]
<1> DEFINE Solves(h) == h = [s \in SUBSET S |-> IF s = {} THEN 0 ELSE
                               Duration(table[FirstOf(s)]) + h[s \ {FirstOf(s)}]]
<1>1. TimeOf(table, S) = (CHOOSE h : Solves(h))[S]
  BY DEF TimeOf, MapThenSumSet, MapThenFoldSet, FirstOf
<1>2. ASSUME NEW s \in SUBSET S, s # {} PROVE f[FirstOf(s)] = Duration(table[FirstOf(s)])
  BY <1>2 DEF FirstOf
<1>3. ASSUME NEW h PROVE Solves(h) <=> Summing(f, S, h)
  <2>1. PICK g : g = [s \in SUBSET S |-> IF s = {} THEN 0 ELSE
                        Duration(table[FirstOf(s)]) + h[s \ {FirstOf(s)}]]
    OBVIOUS
  <2>2. PICK k : k = [s \in SUBSET S |-> IF s = {} THEN 0 ELSE
                        f[FirstOf(s)] + h[s \ {FirstOf(s)}]]
    OBVIOUS
  <2>3. \A s \in SUBSET S : g[s] = k[s]
    BY <1>2, <2>1, <2>2
  <2>4. g = k
    BY <2>1, <2>2, <2>3
  <2> QED
    BY <2>1, <2>2, <2>4 DEF Summing
<1>4. \E h : Solves(h)
  <2>1. Summing(f, S, Sums(f, S))
    BY SumsExist
  <2> HIDE DEF Solves
  <2> QED
    BY <1>3, <2>1
<1> HIDE DEF Solves
<1>5. Solves(CHOOSE h : Solves(h))
  BY <1>4, Zenon
<1>6. Summing(f, S, CHOOSE h : Solves(h))
  BY <1>3, <1>5, Zenon
<1> QED
  BY <1>1, <1>6, Zenon

\* So it is how many points they cover, each counted for its row.
LEMMA TimeCounts ==
  ASSUME now \in Nat, NEW table, NEW S, IsFiniteSet(S), \A x \in S : Timed(table[x])
  PROVE  /\ IsFiniteSet(Spans(table, S)) /\ Cardinality(Spans(table, S)) \in Nat
         /\ TimeOf(table, S) = Cardinality(Spans(table, S))
<1>1. PICK f : f = [x \in S |-> Duration(table[x])]
  OBVIOUS
<1>2. PICK F : F = [x \in S |-> Points(table[x])]
  OBVIOUS
<1>3. PICK U : U = 0 .. now
  OBVIOUS
<1>4. IsFiniteSet(U)
  BY <1>3, FS_Interval
<1>5. PICK h : Summing(f, S, h) /\ TimeOf(table, S) = h[S]
  BY <1>1, TimeSums
<1>6. \A x \in S : F[x] \subseteq U /\ f[x] = Cardinality(F[x])
  BY <1>1, <1>2, <1>3, DurationCounts
<1>7. h[S] = Cardinality(Tagged(S, F, U))
  BY <1>4, <1>5, <1>6, SumCounts
<1>8. IsFiniteSet(Tagged(S, F, U)) /\ Cardinality(Tagged(S, F, U)) \in Nat
  BY <1>4, TaggedFinite
<1> QED
  BY <1>2, <1>3, <1>5, <1>7, <1>8 DEF Spans

\* The time two rows share is how many points they share.
SharedBy(x, y) == LaterOf(0, EarlierOf(EndOf(x), EndOf(y)) - LaterOf(x.began, y.began))

\* And how many they are is that time.
LEMMA SharedCounts ==
  ASSUME now \in Nat, NEW x, NEW y, Timed(x), Timed(y)
  PROVE  /\ Points(x) \cap Points(y) \subseteq 0 .. now
         /\ SharedBy(x, y) = Cardinality(Points(x) \cap Points(y))
<1>1. PICK a \in Nat : a = x.began
  BY DEF Timed
<1>2. PICK b \in Nat : b = EndOf(x)
  BY DurationCounts
<1>3. PICK c \in Nat : c = y.began
  BY DEF Timed
<1>4. PICK d \in Nat : d = EndOf(y)
  BY DurationCounts
<1>5. PICK l \in Nat : l = LaterOf(a, c)
  BY DEF LaterOf
<1>6. PICK u \in Nat : u = EarlierOf(b, d)
  BY DEF EarlierOf
<1>7. Points(x) = a .. b - 1 /\ Points(y) = c .. d - 1
  BY <1>1, <1>2, <1>3, <1>4 DEF Points
<1>8. (a .. b - 1) \cap (c .. d - 1) = l .. u - 1
  BY <1>5, <1>6 DEF LaterOf, EarlierOf
<1>9. IsFiniteSet(l .. u - 1) /\ Cardinality(l .. u - 1) = IF l > u - 1 THEN 0 ELSE (u - 1) - l + 1
  BY FS_Interval
<1>10. LaterOf(0, u - l) = IF l > u - 1 THEN 0 ELSE (u - 1) - l + 1
  BY DEF LaterOf
<1>11. SharedBy(x, y) = LaterOf(0, u - l)
  BY <1>1, <1>2, <1>3, <1>4, <1>5, <1>6 DEF SharedBy
<1>12. Points(x) \subseteq 0 .. now
  BY DurationCounts
<1> QED
  BY <1>7, <1>8, <1>9, <1>10, <1>11, <1>12

\* A block and an interrupt of one session.
Pairs ==
  {p \in InPeriod(events) \X InPeriod(events) :
     /\ events[p[1]].kind = "block" /\ events[p[2]].kind = "interrupt"
     /\ events[p[1]].session = events[p[2]].session}

\* What a report takes off twice is a sum as a function.
LEMMA TwiceSums ==
  ASSUME NEW S, S = Pairs, IsFiniteSet(S),
         NEW f, f = [p \in S |-> SharedBy(events[p[1]], events[p[2]])]
  PROVE  \E h : Summing(f, S, h) /\ Twice = h[S]
<1> DEFINE Solves(h) == h = [s \in SUBSET S |-> IF s = {} THEN 0 ELSE
                               SharedBy(events[FirstOf(s)[1]], events[FirstOf(s)[2]])
                                 + h[s \ {FirstOf(s)}]]
<1>1. Twice = (CHOOSE h : Solves(h))[S]
  BY DEF Twice, Pairs, SharedBy, MapThenSumSet, MapThenFoldSet, FirstOf
<1>2. ASSUME NEW s \in SUBSET S, s # {}
      PROVE  f[FirstOf(s)] = SharedBy(events[FirstOf(s)[1]], events[FirstOf(s)[2]])
  BY <1>2 DEF FirstOf
<1>3. ASSUME NEW h PROVE Solves(h) <=> Summing(f, S, h)
  <2>1. PICK g : g = [s \in SUBSET S |-> IF s = {} THEN 0 ELSE
                        SharedBy(events[FirstOf(s)[1]], events[FirstOf(s)[2]])
                          + h[s \ {FirstOf(s)}]]
    OBVIOUS
  <2>2. PICK k : k = [s \in SUBSET S |-> IF s = {} THEN 0 ELSE
                        f[FirstOf(s)] + h[s \ {FirstOf(s)}]]
    OBVIOUS
  <2>3. \A s \in SUBSET S : g[s] = k[s]
    BY <1>2, <2>1, <2>2
  <2>4. g = k
    BY <2>1, <2>2, <2>3
  <2> QED
    BY <2>1, <2>2, <2>4 DEF Summing
<1>4. \E h : Solves(h)
  <2>1. Summing(f, S, Sums(f, S))
    BY SumsExist
  <2> HIDE DEF Solves
  <2> QED
    BY <1>3, <2>1
<1> HIDE DEF Solves
<1>5. Solves(CHOOSE h : Solves(h))
  BY <1>4, Zenon
<1>6. Summing(f, S, CHOOSE h : Solves(h))
  BY <1>3, <1>5, Zenon
<1> QED
  BY <1>1, <1>6, Zenon

\* So it is how many points they share, each counted for its pair.
LEMMA TwiceCounts ==
  ASSUME now \in Nat, IsFiniteSet(InPeriod(events)),
         \A e \in InPeriod(events) : Timed(events[e]),
         NEW Q, Q = Pairs, NEW R,
         R = [p \in Q |-> Points(events[p[1]]) \cap Points(events[p[2]])]
  PROVE  Twice = Cardinality(Tagged(Q, R, 0 .. now))
<1>1. IsFiniteSet(Q)
  <2>1. IsFiniteSet(InPeriod(events) \X InPeriod(events))
    BY FS_Product
  <2>2. Q \in SUBSET (InPeriod(events) \X InPeriod(events))
    BY DEF Pairs
  <2> QED
    BY <2>1, <2>2, FS_Subset
<1>2. PICK f : f = [p \in Q |-> SharedBy(events[p[1]], events[p[2]])]
  OBVIOUS
<1>3. PICK h : Summing(f, Q, h) /\ Twice = h[Q]
  BY <1>1, <1>2, TwiceSums
<1>4. PICK U : U = 0 .. now
  OBVIOUS
<1>5. IsFiniteSet(U)
  BY <1>4, FS_Interval
<1>6. ASSUME NEW p \in Q PROVE R[p] \subseteq U /\ f[p] = Cardinality(R[p])
  <2>1. Timed(events[p[1]]) /\ Timed(events[p[2]])
    BY DEF Pairs
  <2>2. /\ Points(events[p[1]]) \cap Points(events[p[2]]) \subseteq 0 .. now
        /\ SharedBy(events[p[1]], events[p[2]])
             = Cardinality(Points(events[p[1]]) \cap Points(events[p[2]]))
    BY <2>1, SharedCounts
  <2> QED
    BY <1>2, <1>4, <2>2
<1>7. h[Q] = Cardinality(Tagged(Q, R, U))
  BY <1>1, <1>3, <1>5, <1>6, SumCounts
<1> QED
  BY <1>3, <1>4, <1>7

-----------------------------------------------------------------------------
(* Rows end after they began *)

\* While no command commits on a read that another overtook, rows end after they began.
ForwardInv ==
  races = 0 => /\ \A s \in DOMAIN sessions : Forward(sessions[s])
               /\ \A e \in DOMAIN events : Forward(events[e])

\* A row that a step leaves or makes without an end, or ends at a time it had begun.
EndsAt(old, new, x, time) ==
  \/ new[x].ended = Null
  \/ /\ x \in DOMAIN old /\ new[x].began = old[x].began
     /\ new[x].ended = old[x].ended \/ (new[x].ended = time /\ old[x].began <= time)

\* So rows still end after they began.
LEMMA StaysForward ==
  ASSUME NEW old, NEW new, NEW time, \A x \in DOMAIN old : Forward(old[x]),
         \A x \in DOMAIN new : EndsAt(old, new, x, time)
  PROVE  \A x \in DOMAIN new : Forward(new[x])
BY DEF Forward, EndsAt

\* What a command writes, if what it read is still so.
LEMMA WriteEnds ==
  ASSUME FlowAssumption, NEW c, Writes(c), StillTrue(c, sessions, events, deployments)
  PROVE  /\ \A s \in DOMAIN sessions' : EndsAt(sessions, sessions', s, c.at)
         /\ \A e \in DOMAIN events' : EndsAt(events, events', e, c.at)
<1>1. /\ c.at \in Nat /\ TablesForm /\ c.op \in Ops
      /\ \A s \in DOMAIN sessions : sessions[s] \in SessionRow
      /\ \A e \in DOMAIN events : events[e] \in EventRow
      /\ c.session \in Nat \cup {Null} /\ c.kind \in Kinds \cup {Null}
  BY WritesForm
<1>2. c.op \in InSession => c.session \in DOMAIN sessions /\ sessions[c.session].owner = "human"
  BY DEF Writes, MayWrite, HumanIn
<1>3. /\ \A s \in DOMAIN sessions : sessions[s].owner = "human" => sessions[s].began <= c.at
      /\ \A e \in DOMAIN events : events[e].began <= c.at
  BY DEF StillTrue, AllBy, By
<1>4. Write(c)
  BY DEF Writes
<1>5. ASSUME NEW s \in DOMAIN sessions' PROVE EndsAt(sessions, sessions', s, c.at)
  <2>1. CASE c.op = "start"
    <3>1. PICK row : row = Session("human", c.at)
      OBVIOUS
    <3>2. row \in SessionRow /\ row.ended = Null
      BY <1>1, <3>1 DEF Session, SessionRow, States, Ended
    <3>3. sessions' = Append(sessions, row) /\ sessions \in Seq(SessionRow)
      BY <1>1, <1>4, <2>1, <3>1 DEF Write, TablesForm
    <3>4. PICK n \in Nat : /\ DOMAIN sessions' = DOMAIN sessions \cup {n} /\ sessions'[n] = row
                           /\ \A x \in DOMAIN sessions : sessions'[x] = sessions[x]
      BY <3>2, <3>3, RowInserted
    <3> QED
      BY <3>2, <3>4 DEF EndsAt
  <2>2. CASE c.op = "end"
    <3>1. PICK x : x = c.session
      OBVIOUS
    <3>2. x \in DOMAIN sessions /\ sessions[x].began <= c.at
      BY <1>2, <1>3, <2>2, <3>1 DEF InSession
    <3>3. sessions' = [sessions EXCEPT ![x].status = "ended", ![x].ended = c.at]
      BY <1>4, <2>2, <3>1 DEF Write, EndSessionRow
    <3>4. /\ \A r \in DOMAIN sessions : r # x => sessions'[r] = sessions[r]
          /\ sessions'[x] = [sessions[x] EXCEPT !.status = "ended", !.ended = c.at]
          /\ DOMAIN sessions' = DOMAIN sessions
      BY <1>1, <3>2, <3>3 DEF TablesForm
    <3>5. sessions'[x].began = sessions[x].began /\ sessions'[x].ended = c.at
      BY <1>1, <3>2, <3>4 DEF SessionRow
    <3> QED
      BY <3>2, <3>4, <3>5 DEF EndsAt
  <2>3. CASE c.op \in {"pause", "resume"}
    <3>1. PICK x, v : /\ x \in DOMAIN sessions
                      /\ sessions' = [sessions EXCEPT ![x].status = v]
      BY <1>2, <1>4, <2>3 DEF Write, InSession
    <3>2. /\ DOMAIN sessions' = DOMAIN sessions
          /\ \A r \in DOMAIN sessions : r # x => sessions'[r] = sessions[r]
          /\ sessions'[x] = [sessions[x] EXCEPT !.status = v]
      BY <1>1, <3>1 DEF TablesForm
    <3>3. sessions'[x].began = sessions[x].began /\ sessions'[x].ended = sessions[x].ended
      BY <1>1, <3>1, <3>2 DEF SessionRow
    <3> QED
      BY <3>2, <3>3 DEF EndsAt
  <2>4. CASE c.op \notin {"start", "end", "pause", "resume"}
    <3>1. sessions' = sessions
      BY <1>4, <2>4 DEF Write
    <3> QED
      BY <3>1 DEF EndsAt
  <2> QED
    BY <2>1, <2>2, <2>3, <2>4
<1>6. ASSUME NEW e \in DOMAIN events' PROVE EndsAt(events, events', e, c.at)
  <2>1. CASE c.op = "open"
    <3>1. PICK row : row = NewEvent(c)
      OBVIOUS
    <3>2. row \in EventRow /\ row.ended = Null
      <4>1. c.session \in DOMAIN sessions /\ c.kind \in Kinds
        BY <1>2, <2>1 DEF InSession, Writes, MayWrite
      <4>2. c.session \in Nat
        BY <1>1, <4>1, TableFinite DEF TablesForm
      <4> QED
        BY <1>1, <3>1, <4>1, <4>2 DEF NewEvent, EventRow, Ended
    <3>3. events' = Append(events, row) /\ events \in Seq(EventRow)
      BY <1>1, <1>4, <2>1, <3>1 DEF Write, TablesForm
    <3>4. PICK n \in Nat : /\ DOMAIN events' = DOMAIN events \cup {n} /\ events'[n] = row
                           /\ \A x \in DOMAIN events : events'[x] = events[x]
      BY <3>2, <3>3, RowInserted
    <3> QED
      BY <3>2, <3>4 DEF EndsAt
  <2>2. CASE c.op \in {"end", "close"}
    <3>1. events' = [x \in DOMAIN events |-> IF x \in c.rows THEN [events[x] EXCEPT !.ended = c.at]
                                              ELSE events[x]]
      BY <1>4, <2>2 DEF Write, EndEventRows
    <3>2. e \in DOMAIN events /\ events[e] \in EventRow /\ events[e].began <= c.at
      BY <1>1, <1>3, <3>1
    <3>3. events'[e] = IF e \in c.rows THEN [events[e] EXCEPT !.ended = c.at] ELSE events[e]
      BY <3>1, <3>2
    <3>4. /\ events'[e].began = events[e].began
          /\ events'[e].ended = c.at \/ events'[e].ended = events[e].ended
      BY <3>2, <3>3 DEF EventRow
    <3> QED
      BY <3>2, <3>4 DEF EndsAt
  <2>3. CASE c.op \notin {"open", "end", "close"}
    <3>1. events' = events
      BY <1>4, <2>3 DEF Write
    <3> QED
      BY <3>1 DEF EndsAt
  <2> QED
    BY <2>1, <2>2, <2>3
<1> QED
  BY <1>5, <1>6

\* Every step keeps rows that way.
LEMMA ForwardStep ==
  ASSUME FlowAssumption, FlowInv, ForwardInv, [FlowNext]_flowVars
  PROVE  ForwardInv'
<1>1. now \in Nat /\ races \in Nat /\ TablesForm /\ RowsInv
      /\ \A s \in DOMAIN sessions : sessions[s] \in SessionRow
  BY AgentForm DEF FlowInv, ShapeInv
<1>2. ASSUME races' = races, NEW time,
             \A s \in DOMAIN sessions' : EndsAt(sessions, sessions', s, time),
             \A e \in DOMAIN events' : EndsAt(events, events', e, time)
      PROVE  ForwardInv'
  <2>1. ASSUME races' = 0 PROVE \A s \in DOMAIN sessions' : Forward(sessions'[s])
    <3>1. \A s \in DOMAIN sessions : Forward(sessions[s])
      BY <1>2, <2>1 DEF ForwardInv
    <3> QED
      BY <1>2, <3>1, StaysForward
  <2>2. ASSUME races' = 0 PROVE \A e \in DOMAIN events' : Forward(events'[e])
    <3>1. \A e \in DOMAIN events : Forward(events[e])
      BY <1>2, <2>2 DEF ForwardInv
    <3> QED
      BY <1>2, <3>1, StaysForward
  <2>3. races' = 0 => /\ \A s \in DOMAIN sessions' : Forward(sessions'[s])
                      /\ \A e \in DOMAIN events' : Forward(events'[e])
    BY <2>1, <2>2
  <2> QED
    BY <2>3 DEF ForwardInv, Forward
<1>3. CASE UNCHANGED <<sessions, events, races>>
  <2>1. /\ \A s \in DOMAIN sessions' : EndsAt(sessions, sessions', s, 0)
        /\ \A e \in DOMAIN events' : EndsAt(events, events', e, 0)
    BY <1>3 DEF EndsAt
  <2> QED
    BY <1>2, <1>3, <2>1
<1>4. CASE AgentStarts
  <2>1. PICK row : row = Session("agent", now)
    OBVIOUS
  <2>2. row \in SessionRow /\ row.ended = Null
    BY <1>1, <2>1 DEF Session, SessionRow, States, Ended
  <2>3. /\ sessions' = Append(sessions, row) /\ sessions \in Seq(SessionRow)
        /\ events' = events /\ races' = races
    BY <1>1, <1>4, <2>1 DEF AgentStarts, AgentBegins, TablesForm
  <2>4. PICK n \in Nat : /\ DOMAIN sessions' = DOMAIN sessions \cup {n} /\ sessions'[n] = row
                         /\ \A x \in DOMAIN sessions : sessions'[x] = sessions[x]
    BY <2>2, <2>3, RowInserted
  <2>5. /\ \A s \in DOMAIN sessions' : EndsAt(sessions, sessions', s, now)
        /\ \A e \in DOMAIN events' : EndsAt(events, events', e, now)
    BY <2>2, <2>3, <2>4 DEF EndsAt
  <2> QED
    BY <1>2, <2>3, <2>5
<1>5. ASSUME NEW x \in DOMAIN sessions, AgentEnds(x) PROVE ForwardInv'
  <2>1. /\ sessions' = [sessions EXCEPT ![x].status = "ended", ![x].ended = now]
        /\ events' = events /\ races' = races
    BY <1>5 DEF AgentEnds, counters
  <2>2. sessions[x].began <= now
    BY <1>1 DEF RowsInv, SessionsFit, By
  <2>3. /\ \A r \in DOMAIN sessions : r # x => sessions'[r] = sessions[r]
        /\ sessions'[x] = [sessions[x] EXCEPT !.status = "ended", !.ended = now]
        /\ DOMAIN sessions' = DOMAIN sessions
    BY <1>1, <2>1 DEF TablesForm
  <2>4. sessions'[x].began = sessions[x].began /\ sessions'[x].ended = now
    BY <1>1, <2>3 DEF SessionRow
  <2>5. /\ \A s \in DOMAIN sessions' : EndsAt(sessions, sessions', s, now)
        /\ \A e \in DOMAIN events' : EndsAt(events, events', e, now)
    BY <2>1, <2>2, <2>3, <2>4 DEF EndsAt
  <2> QED
    BY <1>2, <2>1, <2>5
<1>6. ASSUME NEW t \in Terminals, Commit(t) PROVE ForwardInv'
  <2>1. PICK c : c = commands[t]
    OBVIOUS
  <2>2. c # Null /\ c \in CommandRecord /\ c.overtaken \in BOOLEAN
    BY <1>6, <2>1, CommitsOvertake DEF FlowInv, CommandRecord
  <2>3. now \in Nat /\ c.at <= now /\ MayWrite(c, sessions, deployments)
    BY <1>1, <2>1, <2>2 DEF FlowInv, CommandsInv
  <2>4. Writes(c)
    BY <1>1, <1>6, <2>1, <2>2, <2>3 DEF Writes, Commit
  <2>5. CASE c.overtaken
    <3>1. races' = races + 1
      BY <1>6, <2>1, <2>5 DEF Commit
    <3>2. races' # 0
      BY <1>1, <3>1
    <3> QED
      BY <3>2 DEF ForwardInv
  <2>6. CASE ~c.overtaken
    <3>1. races' = races
      <4>1. races' = races + 0
        BY <1>6, <2>1, <2>6 DEF Commit
      <4> QED
        BY <1>1, <4>1
    <3>2. StillTrue(c, sessions, events, deployments)
      BY <2>1, <2>2, <2>6 DEF FlowInv, ReadInv
    <3>3. /\ \A s \in DOMAIN sessions' : EndsAt(sessions, sessions', s, c.at)
          /\ \A e \in DOMAIN events' : EndsAt(events, events', e, c.at)
      BY <2>4, <3>2, WriteEnds
    <3> QED
      BY <1>2, <3>1, <3>3
  <2> QED
    BY <2>2, <2>5, <2>6
<1>7. CASE FlowNext
  <2>1. CASE Tick \/ AgentDeploys \/ OpenPipelineIncident \/ ResolvePipelineIncidents
    <3>1. UNCHANGED <<sessions, events, races>>
      BY <2>1 DEF Tick, AgentDeploys, OpenPipelineIncident, ResolvePipelineIncidents, AgentBegins,
         tables, counters
    <3> QED
      BY <1>3, <3>1
  <2>2. ASSUME NEW t \in Terminals,
               \/ StartSession(t) \/ EndSession(t) \/ Pause(t) \/ Resume(t)
               \/ \E kind \in Kinds : StartEvent(t, kind) \/ EndEvent(t, kind)
               \/ RecordDeploy(t) \/ StartIncident(t) \/ EndIncident(t) \/ Abort(t)
        PROVE  ForwardInv'
    <3>1. UNCHANGED <<sessions, events, races>>
      BY <2>2 DEF StartSession, EndSession, Pause, Resume, StartEvent, EndEvent, RecordDeploy,
         StartIncident, EndIncident, Abort, Begin, tables, counters
    <3> QED
      BY <1>3, <3>1
  <2> QED
    BY <1>4, <1>5, <1>6, <1>7, <2>1, <2>2 DEF FlowNext, Agents
<1>8. CASE UNCHANGED flowVars
  <2>1. UNCHANGED <<sessions, events, races>>
    BY <1>8 DEF flowVars, tables, counters
  <2> QED
    BY <1>3, <2>1
<1> QED
  BY <1>7, <1>8

-----------------------------------------------------------------------------
(* Blocks and interrupts are covered by sessions *)

\* Points of two kinds of events: each is one of a session in S, where events of a kind do not
\* meet, or of an event of no such session, or one that both kinds have.
LEMMA Covered ==
  ASSUME NEW S, IsFiniteSet(S), NEW E, IsFiniteSet(E), NEW U, IsFiniteSet(U),
         NEW B \in SUBSET E, NEW I \in SUBSET E, B \cap I = {},
         NEW n, NEW P, NEW Z, NEW R, NEW O, NEW Q,
         O = {e \in E : n[e] \notin S},
         Q = {q \in E \X E : q[1] \in B /\ q[2] \in I /\ n[q[1]] = n[q[2]]},
         \A q \in Q : R[q] = P[q[1]] \cap P[q[2]],
         \A e \in E : n[e] \in S => P[e] \subseteq Z[n[e]],
         \A e, f \in B : n[e] = n[f] /\ e # f => P[e] \cap P[f] = {},
         \A e, f \in I : n[e] = n[f] /\ e # f => P[e] \cap P[f] = {}
  PROVE  Cardinality(Tagged(B, P, U)) + Cardinality(Tagged(I, P, U))
           <= Cardinality(Tagged(S, Z, U)) + Cardinality(Tagged(O, P, U))
                + Cardinality(Tagged(Q, R, U))
<1>1. PICK TB : TB = Tagged(B, P, U)
  OBVIOUS
<1>2. PICK TI : TI = Tagged(I, P, U)
  OBVIOUS
<1>3. PICK TS : TS = Tagged(S, Z, U)
  OBVIOUS
<1>4. PICK TO : TO = Tagged(O, P, U)
  OBVIOUS
<1>5. PICK TQ : TQ = Tagged(Q, R, U)
  OBVIOUS
<1>6. /\ IsFiniteSet(B) /\ IsFiniteSet(I) /\ IsFiniteSet(O) /\ IsFiniteSet(Q)
  <2>1. IsFiniteSet(B) /\ IsFiniteSet(I)
    BY FS_Subset
  <2>2. O \in SUBSET E /\ Q \in SUBSET (E \X E)
    OBVIOUS
  <2>3. IsFiniteSet(E \X E)
    BY FS_Product
  <2> QED
    BY <2>1, <2>2, <2>3, FS_Subset
<1>7. /\ IsFiniteSet(TB) /\ Cardinality(TB) \in Nat /\ IsFiniteSet(TI) /\ Cardinality(TI) \in Nat
      /\ IsFiniteSet(TS) /\ Cardinality(TS) \in Nat /\ IsFiniteSet(TO) /\ Cardinality(TO) \in Nat
      /\ IsFiniteSet(TQ) /\ Cardinality(TQ) \in Nat
  BY <1>1, <1>2, <1>3, <1>4, <1>5, <1>6, TaggedFinite
<1>8. PICK X : X = TB \cup TI
  OBVIOUS
<1>9. \A t \in X : /\ t \in E \X U /\ t[2] \in P[t[1]] /\ t = <<t[1], t[2]>>
                   /\ t[1] \in B \/ t[1] \in I
  BY <1>1, <1>2, <1>8 DEF Tagged
<1>10. Cardinality(X) = Cardinality(TB) + Cardinality(TI)
  <2>1. TB \cap TI = {}
    BY <1>1, <1>2 DEF Tagged
  <2>2. Cardinality(TB \cup TI) = Cardinality(TB) + Cardinality(TI) - Cardinality(TB \cap TI)
    BY <1>7, FS_Union
  <2>3. Cardinality(TB \cap TI) = 0
    BY <2>1, FS_EmptySet
  <2> QED
    BY <1>7, <1>8, <2>2, <2>3
<1>11. PICK XO : XO = {t \in X : t[1] \in O}
  OBVIOUS
<1>12. PICK XQ : XQ = {t \in X : /\ t[1] \in I
                                 /\ \E b \in B : n[b] = n[t[1]] /\ t[2] \in P[b]}
  OBVIOUS
<1>13. PICK XS : XS = {t \in X : t \notin XO /\ t \notin XQ}
  OBVIOUS
<1>14. IsFiniteSet(XO) /\ Cardinality(XO) \in Nat /\ Cardinality(XO) <= Cardinality(TO)
  <2>1. XO \in SUBSET TO
    BY <1>4, <1>9, <1>11 DEF Tagged
  <2>2. IsFiniteSet(XO) /\ Cardinality(XO) <= Cardinality(TO)
    BY <1>7, <2>1, FS_Subset
  <2> QED
    BY <2>2, FS_CardinalityType
<1>15. IsFiniteSet(XQ) /\ Cardinality(XQ) \in Nat /\ Cardinality(XQ) <= Cardinality(TQ)
  <2>1. PICK c : c = [t \in XQ |-> CHOOSE b \in B : n[b] = n[t[1]] /\ t[2] \in P[b]]
    OBVIOUS
  <2>2. \A t \in XQ : c[t] \in B /\ n[c[t]] = n[t[1]] /\ t[2] \in P[c[t]]
    BY <1>12, <2>1
  <2>3. PICK f : f = [t \in XQ |-> <<<<c[t], t[1]>>, t[2]>>]
    OBVIOUS
  <2>4. f = [t \in XQ |-> f[t]]
    BY <2>3
  <2>5. ASSUME NEW t \in XQ PROVE f[t] \in TQ
    <3>1. /\ t \in X /\ t[1] \in I /\ t[1] \in E /\ t[2] \in U /\ t[2] \in P[t[1]]
          /\ c[t] \in B /\ n[c[t]] = n[t[1]] /\ t[2] \in P[c[t]]
      BY <1>9, <1>12, <2>2
    <3>2. PICK q : q = <<c[t], t[1]>>
      OBVIOUS
    <3>3. q \in Q /\ q[1] = c[t] /\ q[2] = t[1]
      BY <3>1, <3>2
    <3>4. t[2] \in R[q]
      BY <3>1, <3>3
    <3>5. f[t] = <<q, t[2]>>
      BY <2>3, <3>2
    <3> QED
      BY <1>5, <3>1, <3>3, <3>4, <3>5 DEF Tagged
  <2>6. ASSUME NEW t \in XQ, NEW u \in XQ, f[t] = f[u] PROVE t = u
    <3>1. t = <<t[1], t[2]>> /\ u = <<u[1], u[2]>>
      BY <1>9, <1>12
    <3>2. <<<<c[t], t[1]>>, t[2]>> = <<<<c[u], u[1]>>, u[2]>>
      BY <2>3, <2>6
    <3>3. t[1] = u[1] /\ t[2] = u[2]
      BY <3>2
    <3> QED
      BY <3>1, <3>3
  <2> QED
    BY <1>7, <2>4, <2>5, <2>6, Injected
<1>16. IsFiniteSet(XS) /\ Cardinality(XS) \in Nat /\ Cardinality(XS) <= Cardinality(TS)
  <2>1. PICK f : f = [t \in XS |-> <<n[t[1]], t[2]>>]
    OBVIOUS
  <2>2. f = [t \in XS |-> f[t]]
    BY <2>1
  <2>3. ASSUME NEW t \in XS
        PROVE  /\ t = <<t[1], t[2]>> /\ t[1] \in E /\ t[2] \in U /\ t[2] \in P[t[1]]
               /\ n[t[1]] \in S
               /\ t[1] \in B \/ t[1] \in I
               /\ t[1] \in I => \A b \in B : ~(n[b] = n[t[1]] /\ t[2] \in P[b])
    <3>1. t \in X /\ t \notin XO /\ t \notin XQ
      BY <1>13
    <3>2. t = <<t[1], t[2]>> /\ t[1] \in E /\ t[2] \in U /\ t[2] \in P[t[1]]
      BY <1>9, <3>1
    <3>3. t[1] \in B \/ t[1] \in I
      BY <1>9, <3>1
    <3>4. n[t[1]] \in S
      BY <1>11, <3>1, <3>2
    <3>5. t[1] \in I => \A b \in B : ~(n[b] = n[t[1]] /\ t[2] \in P[b])
      BY <1>12, <3>1
    <3> QED
      BY <3>2, <3>3, <3>4, <3>5
  <2>4. ASSUME NEW t \in XS PROVE f[t] \in TS
    <3>1. t[1] \in E /\ t[2] \in U /\ t[2] \in Z[n[t[1]]] /\ n[t[1]] \in S
      BY <2>3
    <3> QED
      BY <1>3, <2>1, <3>1 DEF Tagged
  <2>5. ASSUME NEW t \in XS, NEW u \in XS, f[t] = f[u] PROVE t = u
    <3>1. <<n[t[1]], t[2]>> = <<n[u[1]], u[2]>>
      BY <2>1, <2>5
    <3>2. n[t[1]] = n[u[1]] /\ t[2] = u[2]
      BY <3>1
    <3>3. t[2] \in P[t[1]] /\ t[2] \in P[u[1]]
      BY <2>3, <3>2
    <3>4. t[1] = u[1]
      <4>1. CASE t[1] \in B /\ u[1] \in B
        BY <3>2, <3>3, <4>1
      <4>2. CASE t[1] \in I /\ u[1] \in I
        BY <3>2, <3>3, <4>2
      <4>3. ~(t[1] \in B /\ u[1] \in I)
        BY <2>3, <3>2, <3>3
      <4>4. ~(t[1] \in I /\ u[1] \in B)
        BY <2>3, <3>2, <3>3
      <4> QED
        BY <2>3, <4>1, <4>2, <4>3, <4>4
    <3> QED
      BY <2>3, <3>2, <3>4
  <2> QED
    BY <1>7, <2>2, <2>4, <2>5, Injected
<1>17. Cardinality(X) <= Cardinality(XS) + Cardinality(XO) + Cardinality(XQ)
  <2>1. X \subseteq XS \cup XO \cup XQ
    BY <1>13
  <2> QED
    BY <1>14, <1>15, <1>16, <2>1, InThree
<1>18. Cardinality(TB) + Cardinality(TI) <= Cardinality(TS) + Cardinality(TO) + Cardinality(TQ)
  BY <1>7, <1>10, <1>14, <1>15, <1>16, <1>17
<1> QED
  BY <1>1, <1>2, <1>3, <1>4, <1>5, <1>18

\* What the times of a report count lies in the sessions, where events of a kind are apart.
LEMMA TimesNest ==
  ASSUME FlowAssumption, FlowInv, ForwardInv, races = 0
  PROVE  /\ now \in Nat
         /\ \A s \in DOMAIN sessions : Timed(sessions[s])
         /\ \A e \in DOMAIN events :
              /\ Timed(events[e]) /\ events[e].session \in DOMAIN sessions
              /\ Points(events[e]) \subseteq Points(sessions[events[e].session])
         /\ \A e, f \in DOMAIN events :
              events[e].session = events[f].session /\ events[e].kind = events[f].kind /\ e # f =>
                Points(events[e]) \cap Points(events[f]) = {}
<1>1. now \in Nat /\ Null \notin Nat /\ TablesForm /\ RowsInv
  BY AgentForm
<1>2. /\ \A s \in DOMAIN sessions : sessions[s] \in SessionRow
      /\ \A e \in DOMAIN events : events[e] \in EventRow
  BY <1>1, RowsForm
<1>3. Nests(sessions, events, deployments)
  BY DEF FlowInv, NestInv
<1>4. \A s \in DOMAIN sessions : Timed(sessions[s])
  BY <1>1, <1>2 DEF ForwardInv, RowsInv, SessionsFit, SessionRow, Timed
<1>5. \A e \in DOMAIN events : Timed(events[e]) /\ HumanIn(sessions, events[e].session)
  BY <1>1, <1>2 DEF ForwardInv, RowsInv, EventsFit, EventRow, Timed
<1>6. ASSUME NEW e \in DOMAIN events
      PROVE  Points(events[e]) \subseteq Points(sessions[events[e].session])
  <2>1. PICK x : x = events[e]
    OBVIOUS
  <2>2. PICK s : s = events[e].session
    OBVIOUS
  <2>3. PICK y : y = sessions[s]
    OBVIOUS
  <2>4. s \in DOMAIN sessions /\ sessions[s].owner = "human" /\ Timed(x) /\ Timed(y)
    BY <1>4, <1>5, <2>1, <2>2, <2>3 DEF HumanIn
  <2>5. y.began <= x.began
    BY <1>3, <2>1, <2>2, <2>3 DEF Nests, EventsNest
  <2>6. y.ended # Null => x.ended # Null /\ x.ended <= y.ended
    <3>1. y.ended # Null => y.status = "ended"
      BY <1>3, <2>3, <2>4 DEF Nests, SessionsNest, ActiveIn, HumanIn
    <3>2. y.status = "ended" => x.ended # Null /\ x.ended <= y.ended
      BY <1>3, <2>1, <2>2, <2>3 DEF Nests, EventsNest
    <3> QED
      BY <3>1, <3>2
  <2>7. EndOf(x) <= EndOf(y)
    <3>1. EndOf(x) \in Nat /\ EndOf(x) <= now
      BY <1>1, <2>4, DurationCounts
    <3> QED
      BY <2>6, <3>1 DEF EndOf
  <2>8. /\ \A p : p \in Points(x) <=> p \in Nat /\ x.began <= p /\ p < EndOf(x)
        /\ \A p : p \in Points(y) <=> p \in Nat /\ y.began <= p /\ p < EndOf(y)
        /\ EndOf(x) \in Nat /\ EndOf(y) \in Nat
    BY <1>1, <2>4, DurationCounts
  <2>9. x.began \in Nat /\ y.began \in Nat
    BY <2>4 DEF Timed
  <2>10. ASSUME NEW p \in Points(x) PROVE p \in Points(y)
    <3>1. p \in Nat /\ x.began <= p /\ p < EndOf(x)
      BY <2>8
    <3>2. y.began <= p /\ p < EndOf(y)
      BY <2>5, <2>7, <2>8, <2>9, <3>1
    <3> QED
      BY <2>8, <3>1, <3>2
  <2> QED
    BY <2>1, <2>2, <2>3, <2>10
<1>7. ASSUME NEW e \in DOMAIN events, NEW f \in DOMAIN events,
             events[e].session = events[f].session, events[e].kind = events[f].kind, e # f
      PROVE  Points(events[e]) \cap Points(events[f]) = {}
  <2>1. PICK x : x = events[e]
    OBVIOUS
  <2>2. PICK y : y = events[f]
    OBVIOUS
  <2>3. Timed(x) /\ Timed(y)
    BY <1>5, <2>1, <2>2
  <2>4. Before(x, y) \/ Before(y, x)
    BY <1>3, <1>7, <2>1, <2>2 DEF Nests, EventsNest, OneAfterAnother
  <2>5. EndOf(x) <= y.began \/ EndOf(y) <= x.began
    BY <2>4 DEF Before, EndOf
  <2>6. /\ \A p : p \in Points(x) <=> p \in Nat /\ x.began <= p /\ p < EndOf(x)
        /\ \A p : p \in Points(y) <=> p \in Nat /\ y.began <= p /\ p < EndOf(y)
        /\ EndOf(x) \in Nat /\ EndOf(y) \in Nat
    BY <1>1, <2>3, DurationCounts
  <2>7. x.began \in Nat /\ y.began \in Nat
    BY <2>3 DEF Timed
  <2>8. ASSUME NEW p, p \in Points(x), p \in Points(y) PROVE FALSE
    <3>1. p \in Nat /\ x.began <= p /\ p < EndOf(x) /\ y.began <= p /\ p < EndOf(y)
      BY <2>6, <2>8
    <3> QED
      BY <2>5, <2>6, <2>7, <3>1
  <2> QED
    BY <2>1, <2>2, <2>8
<1> QED
  BY <1>1, <1>4, <1>5, <1>6, <1>7 DEF HumanIn

\* The events of a kind that a report counts, and those in sessions it does not count.
OfKind(kind) == {e \in InPeriod(events) : events[e].kind = kind}
Elsewhere == {e \in InPeriod(events) : events[e].session \notin InPeriod(sessions)}

\* Blocks and interrupts take no more time than the sessions, beside what is counted twice or
\* elsewhere.
LEMMA ActiveTimeCovered ==
  ASSUME FlowAssumption, FlowInv, ForwardInv, races = 0
  PROVE  ActiveTime + Outside + Twice >= 0
<1>1. PICK S : S = InPeriod(sessions)
  OBVIOUS
<1>2. PICK E : E = InPeriod(events)
  OBVIOUS
<1>3. PICK U : U = 0 .. now
  OBVIOUS
<1>4. PICK B : B = OfKind("block")
  OBVIOUS
<1>5. PICK I : I = OfKind("interrupt")
  OBVIOUS
<1>6. PICK O : O = Elsewhere
  OBVIOUS
<1>7. PICK Q : Q = Pairs
  OBVIOUS
<1>8. PICK n : n = [e \in E |-> events[e].session]
  OBVIOUS
<1>9. PICK P : P = [e \in E |-> Points(events[e])]
  OBVIOUS
<1>10. PICK Z : Z = [s \in S |-> Points(sessions[s])]
  OBVIOUS
<1>11. PICK R : R = [q \in Q |-> Points(events[q[1]]) \cap Points(events[q[2]])]
  OBVIOUS
<1>12. /\ S \subseteq DOMAIN sessions /\ E \subseteq DOMAIN events
       /\ B \subseteq E /\ I \subseteq E /\ O \subseteq E
  BY <1>1, <1>2, <1>4, <1>5, <1>6 DEF InPeriod, OfKind, Elsewhere
<1>13. IsFiniteSet(S) /\ IsFiniteSet(E) /\ IsFiniteSet(U) /\ now \in Nat
  <2>1. now \in Nat /\ TablesForm
    BY AgentForm
  <2>2. IsFiniteSet(DOMAIN sessions) /\ IsFiniteSet(DOMAIN events)
    BY <2>1, TableFinite DEF TablesForm
  <2>3. IsFiniteSet(U)
    BY <1>3, <2>1, FS_Interval
  <2> QED
    BY <1>12, <2>1, <2>2, <2>3, FS_Subset
<1>14. IsFiniteSet(B) /\ IsFiniteSet(I) /\ IsFiniteSet(O)
  BY <1>12, <1>13, FS_Subset
<1>15. /\ \A s \in S : Timed(sessions[s])
       /\ \A e \in E : Timed(events[e])
  BY <1>12, TimesNest
<1>16. Cardinality(Tagged(B, P, U)) + Cardinality(Tagged(I, P, U))
         <= Cardinality(Tagged(S, Z, U)) + Cardinality(Tagged(O, P, U))
              + Cardinality(Tagged(Q, R, U))
  <2>1. B \in SUBSET E /\ I \in SUBSET E /\ B \cap I = {}
    BY <1>4, <1>5, <1>12 DEF OfKind
  <2>2. O = {e \in E : n[e] \notin S}
    BY <1>1, <1>2, <1>6, <1>8 DEF Elsewhere
  <2>3. Q = {q \in E \X E : q[1] \in B /\ q[2] \in I /\ n[q[1]] = n[q[2]]}
    BY <1>2, <1>4, <1>5, <1>7, <1>8 DEF Pairs, OfKind
  <2>4. \A q \in Q : R[q] = P[q[1]] \cap P[q[2]]
    BY <1>9, <1>11, <2>3
  <2>5. \A e \in E : n[e] \in S => P[e] \subseteq Z[n[e]]
    BY <1>8, <1>9, <1>10, <1>12, TimesNest
  <2>6. \A e, f \in B : n[e] = n[f] /\ e # f => P[e] \cap P[f] = {}
    BY <1>4, <1>8, <1>9, <1>12, TimesNest DEF OfKind
  <2>7. \A e, f \in I : n[e] = n[f] /\ e # f => P[e] \cap P[f] = {}
    BY <1>5, <1>8, <1>9, <1>12, TimesNest DEF OfKind
  <2> QED
    BY <1>13, <2>1, <2>2, <2>3, <2>4, <2>5, <2>6, <2>7, Covered
<1>17. TotalTime = Cardinality(Tagged(S, Z, U)) /\ TotalTime \in Nat
  <2>1. TotalTime = TimeOf(sessions, S)
    BY <1>1 DEF TotalTime, TimeOf, MapThenSumSet, MapThenFoldSet
  <2>2. Spans(sessions, S) = Tagged(S, Z, U)
    BY <1>3, <1>10 DEF Spans
  <2> QED
    BY <1>13, <1>15, <2>1, <2>2, TimeCounts
<1>18. ASSUME NEW T, T \subseteq E
       PROVE  /\ TimeOf(events, T) = Cardinality(Tagged(T, P, U))
              /\ TimeOf(events, T) \in Nat
  <2>1. IsFiniteSet(T) /\ \A e \in T : Timed(events[e])
    BY <1>13, <1>15, <1>18, FS_Subset
  <2>2. PICK F : F = [e \in T |-> Points(events[e])]
    OBVIOUS
  <2>3. \A e \in T : F[e] = P[e]
    BY <1>9, <1>18, <2>2
  <2>4. Tagged(T, F, U) = Tagged(T, P, U)
    BY <2>3 DEF Tagged
  <2>5. Spans(events, T) = Tagged(T, P, U)
    BY <1>3, <2>2, <2>4 DEF Spans
  <2> QED
    BY <1>13, <2>1, <2>5, TimeCounts
<1>19. TimeIn("block") = Cardinality(Tagged(B, P, U)) /\ TimeIn("block") \in Nat
  <2>1. TimeIn("block") = TimeOf(events, B)
    BY <1>4 DEF TimeIn, OfKind, TimeOf, MapThenSumSet, MapThenFoldSet
  <2> QED
    BY <1>12, <1>18, <2>1
<1>20. TimeIn("interrupt") = Cardinality(Tagged(I, P, U)) /\ TimeIn("interrupt") \in Nat
  <2>1. TimeIn("interrupt") = TimeOf(events, I)
    BY <1>5 DEF TimeIn, OfKind, TimeOf, MapThenSumSet, MapThenFoldSet
  <2> QED
    BY <1>12, <1>18, <2>1
<1>21. Outside = Cardinality(Tagged(O, P, U)) /\ Outside \in Nat
  <2>1. Outside = TimeOf(events, O)
    BY <1>6 DEF Outside, Elsewhere, TimeOf, MapThenSumSet, MapThenFoldSet
  <2> QED
    BY <1>12, <1>18, <2>1
<1>22. Twice = Cardinality(Tagged(Q, R, U)) /\ Twice \in Nat
  <2>1. Twice = Cardinality(Tagged(Q, R, 0 .. now))
    BY <1>2, <1>7, <1>11, <1>13, <1>15, TwiceCounts
  <2>2. IsFiniteSet(Q)
    <3>1. IsFiniteSet(E \X E) /\ Q \in SUBSET (E \X E)
      BY <1>2, <1>7, <1>13, FS_Product DEF Pairs
    <3> QED
      BY <3>1, FS_Subset
  <2> QED
    BY <1>3, <1>13, <2>1, <2>2, TaggedFinite
<1>23. ActiveTime = TotalTime - TimeIn("block") - TimeIn("interrupt")
  BY DEF ActiveTime
<1>24. \A a, b, c, d, e \in Nat : b + c <= a + d + e => (a - b - c) + d + e >= 0
  OBVIOUS
<1>25. TimeIn("block") + TimeIn("interrupt") <= TotalTime + Outside + Twice
  BY <1>16, <1>17, <1>19, <1>20, <1>21, <1>22
<1> QED
  BY <1>17, <1>19, <1>20, <1>21, <1>22, <1>23, <1>24, <1>25

\* Blocks and interrupts take off a report at most what its sessions last, what both take off
\* and what belongs to sessions it does not count, whatever the period and however many
\* commands and agents there were (report_service.py; the ratios divide by this time).
THEOREM ActiveTimeAccounts == FlowSpec => []ActiveTimeAccounted
<1>1. FlowInit => ForwardInv
  BY DEF FlowInit, ForwardInv
<1>2. FlowInv /\ ForwardInv /\ [FlowNext]_flowVars => ForwardInv'
  BY ForwardStep, FlowAssumption
<1>3. FlowInv /\ ForwardInv => ActiveTimeAccounted
  BY ActiveTimeCovered, FlowAssumption DEF ActiveTimeAccounted
<1> QED
  BY <1>1, <1>2, <1>3, FlowInvHolds, PTL DEF FlowSpec

===============================================================================
