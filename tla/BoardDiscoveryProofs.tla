------------------------- MODULE BoardDiscoveryProofs -------------------------
(***************************************************************************)
(* Proofs, for every value of the constants, about what a browser tab      *)
(* shows (Board) and about the items it lists for the product owner to     *)
(* promote (Discovery).                                                    *)
(***************************************************************************)
EXTENDS Board, Discovery, SequenceTheorems, TLAPS

(***************************************************************************)
(* Board: the types hold and the summary a tab shows never goes back.  The *)
(* numbers of the events rise from the summary over the wire and the       *)
(* broker's queue to the transaction under way, whatever is dropped on the *)
(* way.                                                                    *)
(***************************************************************************)

-----------------------------------------------------------------------------
(* The inductive invariant *)

\* The events of a sequence rise.
Rising(s) == \A i, j \in DOMAIN s : i < j => s[i].n < s[j].n

\* What has been published so far is at most so many.
Published == IF writer # Nothing /\ ~writer.published THEN changes - 1 ELSE changes

\* The commits that have changed a panel are at most so many.
Committed == IF writer # Nothing /\ ~writer.committed THEN changes - 1 ELSE changes

InFlight ==
  /\ writer # Nothing => writer.n = changes
  /\ Rising(queue) /\ Rising(wire)
  /\ \A j \in DOMAIN queue : summary <= queue[j].n /\ queue[j].n <= Published
  /\ \A i \in DOMAIN wire : summary <= wire[i].n /\ wire[i].n <= Published
  /\ \A i \in DOMAIN wire, j \in DOMAIN queue : wire[i].n < queue[j].n
  /\ summary <= Published

Counted == \A p \in Panels : db[p] <= Committed

BoardInv == BoardTypeOK /\ InFlight /\ Counted

-----------------------------------------------------------------------------
(* Sequences *)

\* A sequence without its i-th element.
LEMMA Removed1 ==
  ASSUME NEW S, NEW s \in Seq(S), NEW i \in DOMAIN s
  PROVE  RemoveAt(s, i) \in Seq(S)
<1>1. Len(s) \in Nat /\ i \in 1 .. Len(s) /\ \A j \in 1 .. Len(s) : s[j] \in S
  BY LenProperties, ElementOfSeq
<1>2. SubSeq(s, 1, i - 1) \in Seq(S)
  BY <1>1, SubSeqProperties
<1>3. SubSeq(s, i + 1, Len(s)) \in Seq(S)
  BY <1>1, SubSeqProperties
<1> QED
  BY <1>2, <1>3, ConcatProperties DEF RemoveAt

\* Without its first.
LEMMA Dequeued ==
  ASSUME NEW S, NEW s \in Seq(S), s # <<>>
  PROVE  /\ RemoveAt(s, 1) = Tail(s) /\ Tail(s) \in Seq(S)
         /\ Len(s) \in Nat \ {0} /\ Len(Tail(s)) = Len(s) - 1
         /\ DOMAIN s = 1 .. Len(s) /\ DOMAIN Tail(s) = 1 .. Len(s) - 1
         /\ \A i \in DOMAIN Tail(s) : Tail(s)[i] = s[i + 1]
         /\ Head(s) = s[1] /\ Head(s) \in S
<1>1. Len(s) \in Nat \ {0} /\ DOMAIN s = 1 .. Len(s)
  BY EmptySeq, LenProperties
<1>2. /\ Tail(s) \in Seq(S) /\ Len(Tail(s)) = Len(s) - 1 /\ Head(s) \in S
      /\ \A i \in 1 .. Len(Tail(s)) : Tail(s)[i] = s[i + 1]
  BY HeadTailProperties
<1>3. RemoveAt(s, 1) = Tail(s)
  <2>1. SubSeq(s, 1, 0) = <<>>
    BY SubSeqEmpty
  <2>2. Tail(s) = SubSeq(s, 2, Len(s))
    BY TailIsSubSeq
  <2>3. <<>> \o Tail(s) = Tail(s)
    BY <1>2, ConcatEmptySeq
  <2> QED
    BY <2>1, <2>2, <2>3 DEF RemoveAt
<1>4. Head(s) = s[1]
  OBVIOUS
<1>5. DOMAIN Tail(s) = 1 .. Len(s) - 1
  BY <1>2, LenProperties
<1> QED
  BY <1>1, <1>2, <1>3, <1>4, <1>5

\* With one more.
LEMMA Appended ==
  ASSUME NEW S, NEW s \in Seq(S), NEW e \in S
  PROVE  /\ Append(s, e) \in Seq(S) /\ Len(Append(s, e)) = Len(s) + 1 /\ Len(s) \in Nat
         /\ DOMAIN s = 1 .. Len(s) /\ DOMAIN Append(s, e) = 1 .. Len(s) + 1
         /\ \A i \in DOMAIN s : Append(s, e)[i] = s[i]
         /\ Append(s, e)[Len(s) + 1] = e
<1>1. Len(s) \in Nat /\ DOMAIN s = 1 .. Len(s)
  BY LenProperties
<1>2. /\ Append(s, e) \in Seq(S) /\ Len(Append(s, e)) = Len(s) + 1
      /\ \A i \in 1 .. Len(s) : Append(s, e)[i] = s[i]
      /\ Append(s, e)[Len(s) + 1] = e
  BY AppendProperties
<1>3. DOMAIN Append(s, e) = 1 .. Len(s) + 1
  BY <1>2, LenProperties
<1> QED
  BY <1>1, <1>2, <1>3

-----------------------------------------------------------------------------
(* Every step keeps the types *)

Requests == [panel : Panels, ver : (0 .. MaxChanges) \cup {Nothing}]
Writers == [type : Types, n : 1 .. MaxChanges, committed : BOOLEAN, published : BOOLEAN]

ServerTypes ==
  /\ db \in [Panels -> 0 .. MaxChanges]
  /\ writer \in Writers \cup {Nothing}
  /\ changes \in 0 .. MaxChanges
QueueTypes == queue \in Seq(Events) /\ Len(queue) <= QueueMax
WireTypes ==
  /\ connected \in BOOLEAN /\ socket \in {"open", "closed"}
  /\ connected => socket = "open"
  /\ wire \in Seq(Events) /\ Len(wire) <= MaxWire
TabTypes ==
  /\ scheduled \in BOOLEAN
  /\ fetches \in Seq(Requests)
  /\ shown \in [Panels -> 0 .. MaxChanges]
  /\ summary \in 0 .. MaxChanges
  /\ failures \in 0 .. MaxFailures

\* The types, in parts that one step seldom disturbs together.
LEMMA TypeParts == BoardTypeOK => ServerTypes /\ QueueTypes /\ WireTypes /\ TabTypes
BY DEF BoardTypeOK, ServerTypes, QueueTypes, WireTypes, TabTypes, Requests, Writers

\* The parts make up the types.
LEMMA TypeWhole ==
  ServerTypes' /\ QueueTypes' /\ WireTypes' /\ TabTypes' => BoardTypeOK'
BY DEF BoardTypeOK, ServerTypes, QueueTypes, WireTypes, TabTypes, Requests, Writers

\* A part whose variables do not change keeps its types.
LEMMA Untouched ==
  /\ ServerTypes /\ UNCHANGED <<db, writer, changes>> => ServerTypes'
  /\ QueueTypes /\ UNCHANGED queue => QueueTypes'
  /\ WireTypes /\ UNCHANGED <<connected, socket, wire>> => WireTypes'
  /\ TabTypes /\ UNCHANGED <<scheduled, fetches, shown, summary, failures>> => TabTypes'
BY DEF ServerTypes, QueueTypes, WireTypes, TabTypes

\* The events of a sequence have numbers.
LEMMA EventNumbers ==
  ASSUME NEW s \in Seq(Events)
  PROVE  \A j \in DOMAIN s : s[j].n \in Int
<1> SUFFICES ASSUME NEW j \in DOMAIN s PROVE s[j].n \in Int
  OBVIOUS
<1>1. s[j] \in Events
  BY LenProperties, ElementOfSeq
<1> QED
  BY <1>1 DEF Events

\* A transaction under way is not Nothing.
LEMMA WriterIsSome == \A w \in Writers : w # Nothing
BY BoardAssumption DEF Writers

\* The daemon and the tab start in order.
LEMMA BoardInvInit == BoardInit => BoardInv
<1> SUFFICES ASSUME BoardInit PROVE BoardInv
  OBVIOUS
<1> USE BoardAssumption DEF BoardInit
<1>1. BoardTypeOK
  <2>1. [panel |-> "kanban", ver |-> Nothing] \in Requests
    BY DEF Requests, Panels
  <2>2. <<[panel |-> "kanban", ver |-> Nothing]>> \in Seq(Requests)
    BY <2>1
  <2>3. queue \in Seq(Events) /\ wire \in Seq(Events) /\ Len(queue) = 0 /\ Len(wire) = 0
    BY EmptySeq
  <2>4. ServerTypes
    BY DEF ServerTypes
  <2>5. QueueTypes
    BY <2>3 DEF QueueTypes
  <2>6. connected \in BOOLEAN /\ (connected => socket = "open") /\ scheduled \in BOOLEAN
    BY Zenon
  <2>7. WireTypes
    BY <2>3, <2>6 DEF WireTypes
  <2>8. TabTypes
    BY <2>2, <2>6 DEF TabTypes
  <2> QED
    BY <2>4, <2>5, <2>7, <2>8 DEF BoardTypeOK, ServerTypes, QueueTypes, WireTypes, TabTypes,
                                  Requests, Writers
<1>2. InFlight
  BY DEF InFlight, Rising, Published
<1>3. Counted
  BY DEF Counted, Committed
<1> QED
  BY <1>1, <1>2, <1>3 DEF BoardInv

\* A transaction that begins, publishes, commits or is rolled back keeps the types.
LEMMA ServerStepTypes ==
  ASSUME BoardInv, (\E type \in Types : Begin(type)) \/ Publish \/ Commit \/ Rollback
  PROVE  BoardTypeOK'
<1> USE BoardAssumption
<1>0. ServerTypes /\ QueueTypes /\ WireTypes /\ TabTypes /\ InFlight /\ Counted
  BY TypeParts DEF BoardInv
<1>1. CASE \E type \in Types : Begin(type)
  <2>1. PICK type \in Types : Begin(type)
    BY <1>1
  <2>2. changes + 1 \in 1 .. MaxChanges
    BY <1>0, <2>1 DEF ServerTypes, Begin
  <2>3. [type |-> type, n |-> changes + 1, committed |-> FALSE, published |-> FALSE] \in Writers
    BY <2>2 DEF Writers
  <2>4. ServerTypes'
    BY <1>0, <2>1, <2>2, <2>3 DEF ServerTypes, Begin
  <2> QED
    BY <1>0, <2>1, <2>4, Untouched, TypeWhole DEF Begin, tabVars
<1>2. CASE Publish
  <2>1. writer \in Writers
    BY <1>0, <1>2 DEF ServerTypes, Publish
  <2>2. [type |-> writer.type, n |-> writer.n] \in Events
    BY <2>1 DEF Writers, Events
  <2>3. QueueTypes'
    <3>1. CASE Len(queue) < QueueMax
      <4>1. queue' = Append(queue, [type |-> writer.type, n |-> writer.n])
        BY <1>2, <3>1 DEF Publish, Offered
      <4> QED
        BY <1>0, <2>2, <3>1, <4>1, Appended DEF QueueTypes
    <3>2. CASE ~(Len(queue) < QueueMax)
      BY <1>0, <1>2, <3>2 DEF Publish, Offered, QueueTypes
    <3> QED
      BY <3>1, <3>2
  <2>4. [writer EXCEPT !.published = TRUE] \in Writers
    BY <2>1 DEF Writers
  <2>5. ServerTypes'
    BY <1>0, <1>2, <2>4 DEF ServerTypes, Publish
  <2> QED
    BY <1>0, <1>2, <2>3, <2>5, Untouched, TypeWhole DEF Publish, tabVars
<1>3. CASE Commit
  <2>1. writer \in Writers
    BY <1>0, <1>3 DEF ServerTypes, Commit
  <2>2. [writer EXCEPT !.committed = TRUE] \in Writers
    BY <2>1 DEF Writers
  <2>3. \A p \in Panels : db[p] + 1 \in 0 .. MaxChanges
    BY <1>0, <1>3 DEF Counted, Committed, Commit, ServerTypes
  <2>4. ServerTypes'
    BY <1>0, <1>3, <2>2, <2>3 DEF ServerTypes, Commit
  <2> QED
    BY <1>0, <1>3, <2>4, Untouched, TypeWhole DEF Commit, tabVars
<1>4. CASE Rollback
  <2>1. ServerTypes'
    BY <1>0, <1>4 DEF ServerTypes, Rollback
  <2> QED
    BY <1>0, <1>4, <2>1, Untouched, TypeWhole DEF Rollback, tabVars
<1> QED
  BY <1>1, <1>2, <1>3, <1>4

\* So does the broker, and a socket that opens or closes.
LEMMA BrokerStepTypes ==
  ASSUME BoardInv, Broadcast \/ DropDead \/ Connect \/ Disconnect
  PROVE  BoardTypeOK'
<1> USE BoardAssumption
<1>0. ServerTypes /\ QueueTypes /\ WireTypes /\ TabTypes
  BY TypeParts DEF BoardInv
<1>1. ASSUME queue # <<>>
      PROVE  /\ RemoveAt(queue, Oldest(queue)) \in Seq(Events)
             /\ Len(RemoveAt(queue, Oldest(queue))) <= QueueMax
             /\ queue[Oldest(queue)] \in Events
  BY <1>0, <1>1, Dequeued DEF QueueTypes, Oldest
<1>2. CASE Broadcast
  <2>1. QueueTypes'
    BY <1>1, <1>2 DEF QueueTypes, Broadcast
  <2>2. WireTypes'
    <3>1. CASE connected
      <4>1. wire' = Append(wire, queue[Oldest(queue)]) /\ Len(wire) < MaxWire
        BY <1>2, <3>1 DEF Broadcast
      <4>2. Append(wire, queue[Oldest(queue)]) \in Seq(Events)
            /\ Len(Append(wire, queue[Oldest(queue)])) <= MaxWire
        BY <1>0, <1>1, <1>2, <4>1, Appended DEF WireTypes, Broadcast
      <4> QED
        BY <1>0, <1>2, <4>1, <4>2 DEF WireTypes, Broadcast, tabVars
    <3>2. CASE ~connected
      BY <1>0, <1>2, <3>2 DEF WireTypes, Broadcast, tabVars
    <3> QED
      BY <3>1, <3>2
  <2> QED
    BY <1>0, <1>2, <2>1, <2>2, Untouched, TypeWhole DEF Broadcast, serverVars, tabVars
<1>3. CASE DropDead
  <2>1. QueueTypes'
    BY <1>1, <1>3 DEF QueueTypes, DropDead
  <2>2. WireTypes'
    BY <1>0, <1>3 DEF WireTypes, DropDead, tabVars
  <2>3. TabTypes'
    BY <1>0, <1>3 DEF TabTypes, DropDead, tabVars
  <2> QED
    BY <1>0, <1>3, <2>1, <2>2, <2>3, Untouched, TypeWhole DEF DropDead, serverVars
<1>4. CASE Connect
  <2>1. wire' = <<>> /\ wire' \in Seq(Events) /\ Len(wire') = 0
    BY <1>4, EmptySeq DEF Connect
  <2>2. WireTypes'
    BY <1>4, <2>1 DEF WireTypes, Connect
  <2> QED
    BY <1>0, <1>4, <2>2, Untouched, TypeWhole DEF Connect, serverVars
<1>5. CASE Disconnect
  <2>1. wire' = <<>> /\ wire' \in Seq(Events) /\ Len(wire') = 0
    BY <1>5, EmptySeq DEF Disconnect
  <2>4. connected' \in BOOLEAN /\ (connected' => socket' = "open")
    BY <1>5, Zenon DEF Disconnect, Removed
  <2>5. socket' = "closed"
    BY <1>5 DEF Disconnect
  <2>2. WireTypes'
    BY <2>1, <2>4, <2>5 DEF WireTypes
  <2>3. TabTypes'
    BY <1>0, <1>5 DEF TabTypes, Disconnect
  <2> QED
    BY <1>0, <1>5, <2>2, <2>3, Untouched, TypeWhole DEF Disconnect, serverVars
<1> QED
  BY <1>2, <1>3, <1>4, <1>5

\* A request for a panel.
LEMMA FetchType ==
  ASSUME fetches \in Seq(Requests), NEW p \in Panels, Retrieve(p)
  PROVE  fetches' \in Seq(Requests)
<1>1. Request(p) \in Requests
  BY DEF Request, Requests
<1> QED
  BY <1>1, Appended DEF Retrieve

\* So does the tab when it handles a message.
LEMMA MessageStepTypes ==
  ASSUME BoardInv, OnMessage
  PROVE  BoardTypeOK'
<1> USE BoardAssumption
<1>0. ServerTypes /\ QueueTypes /\ WireTypes /\ TabTypes
  BY TypeParts DEF BoardInv
<1>1. /\ wire # <<>> /\ wire' = Tail(wire)
      /\ UNCHANGED <<serverVars, queue, connected, socket, shown, failures>>
  BY DEF OnMessage, OnInstanceEvent, OnTransition, OnFinalized, OnDiscovery, OnUnheard, Received,
         tabVars
<1>2. WireTypes' /\ Head(wire) \in Events
  BY <1>0, <1>1, Dequeued DEF WireTypes
<1>3. "budget" \in Panels /\ "discovery" \in Panels
  BY DEF Panels
<1>4. fetches' \in Seq(Requests)
  <2>1. fetches \in Seq(Requests)
    BY <1>0 DEF TabTypes
  <2>2. CASE OnInstanceEvent \/ OnFinalized
    BY <1>3, <2>1, <2>2, FetchType DEF OnInstanceEvent, OnFinalized
  <2>3. CASE OnDiscovery
    BY <1>3, <2>1, <2>3, FetchType DEF OnDiscovery
  <2>4. CASE OnTransition \/ OnUnheard
    BY <2>1, <2>4 DEF OnTransition, OnUnheard, tabVars
  <2> QED
    BY <2>2, <2>3, <2>4 DEF OnMessage
<1>5. scheduled' \in BOOLEAN
  BY <1>0, Zenon DEF TabTypes, OnMessage, OnInstanceEvent, OnTransition, OnFinalized, OnDiscovery,
                     OnUnheard, tabVars, Schedule
<1>6. summary' \in {summary, Head(wire).n}
  BY DEF OnMessage, OnInstanceEvent, OnTransition, OnFinalized, OnDiscovery, OnUnheard, tabVars
<1>7. TabTypes'
  BY <1>0, <1>1, <1>2, <1>4, <1>5, <1>6 DEF TabTypes, Events
<1> QED
  BY <1>0, <1>1, <1>2, <1>7, Untouched, TypeWhole DEF serverVars

\* So does the tab when it makes a request, and when one is read, answered or fails.
LEMMA RequestStepTypes ==
  ASSUME BoardInv,
         \/ Poll \/ ScheduledRefresh
         \/ \E i \in DOMAIN fetches : Read(i) \/ Render(i) \/ FailFetch(i)
  PROVE  BoardTypeOK'
<1> USE BoardAssumption
<1>0. ServerTypes /\ QueueTypes /\ WireTypes /\ TabTypes /\ fetches \in Seq(Requests)
  BY TypeParts DEF BoardInv, TabTypes
<1>1. CASE Poll \/ ScheduledRefresh
  <2>1. "kanban" \in Panels
    BY DEF Panels
  <2>2. fetches' \in Seq(Requests)
    BY <1>0, <1>1, <2>1, FetchType DEF Poll, ScheduledRefresh
  <2>3. scheduled' \in BOOLEAN /\ UNCHANGED <<shown, summary, failures>>
    BY <1>0, <1>1 DEF Poll, ScheduledRefresh, TabTypes
  <2>4. TabTypes'
    BY <1>0, <2>2, <2>3 DEF TabTypes
  <2> QED
    BY <1>0, <1>1, <2>4, Untouched, TypeWhole DEF Poll, ScheduledRefresh, serverVars
<1>2. ASSUME NEW i \in DOMAIN fetches, Read(i) PROVE BoardTypeOK'
  <2>1. i \in 1 .. Len(fetches) /\ fetches[i] \in Requests
    BY <1>0, LenProperties, ElementOfSeq
  <2>2. db[fetches[i].panel] \in 0 .. MaxChanges
    BY <1>0, <2>1 DEF Requests, ServerTypes
  <2>3. [fetches[i] EXCEPT !.ver = db[fetches[i].panel]] \in Requests
    BY <2>1, <2>2 DEF Requests
  <2>4. fetches' = [fetches EXCEPT ![i] = [fetches[i] EXCEPT !.ver = db[fetches[i].panel]]]
    BY <1>2 DEF Read
  <2>5. fetches' \in Seq(Requests)
    BY <1>0, <2>1, <2>3, <2>4, ExceptSeq
  <2>6. TabTypes'
    BY <1>0, <1>2, <2>5 DEF TabTypes, Read
  <2> QED
    BY <1>0, <1>2, <2>6, Untouched, TypeWhole DEF Read, serverVars
<1>3. ASSUME NEW i \in DOMAIN fetches, Render(i) \/ FailFetch(i) PROVE BoardTypeOK'
  <2>1. i \in 1 .. Len(fetches) /\ fetches[i] \in Requests
    BY <1>0, LenProperties, ElementOfSeq
  <2>2. Settled(fetches[i].panel) \in Seq(Requests)
    <3>1. Request("discovery") \in Requests /\ Request("budget") \in Requests
      BY DEF Request, Requests, Panels
    <3> QED
      BY <3>1 DEF Settled
  <2>3. RemoveAt(fetches, i) \in Seq(Requests)
    BY <1>0, Removed1
  <2>4. fetches' \in Seq(Requests)
    <3>1. fetches' = RemoveAt(fetches, i) \o Settled(fetches[i].panel)
      BY <1>3 DEF Render, FailFetch, Answered
    <3> QED
      BY <2>2, <2>3, <3>1, ConcatProperties
  <2>5. shown' \in [Panels -> 0 .. MaxChanges] /\ failures' \in 0 .. MaxFailures
    <3>1. CASE Render(i)
      <4>1. fetches[i].panel \in Panels /\ fetches[i].ver \in 0 .. MaxChanges
        BY <2>1, <3>1 DEF Render, Requests
      <4> QED
        BY <1>0, <3>1, <4>1 DEF Render, TabTypes
    <3>2. CASE FailFetch(i)
      BY <1>0, <3>2 DEF FailFetch, TabTypes
    <3> QED
      BY <1>3, <3>1, <3>2
  <2>6. TabTypes'
    BY <1>0, <1>3, <2>4, <2>5 DEF TabTypes, Render, FailFetch
  <2> QED
    BY <1>0, <1>3, <2>6, Untouched, TypeWhole DEF Render, FailFetch, serverVars
<1> QED
  BY <1>1, <1>2, <1>3

\* Every step keeps the types.
LEMMA BoardTypeStep == BoardInv /\ [BoardNext]_boardVars => BoardTypeOK'
<1> SUFFICES ASSUME BoardInv, [BoardNext]_boardVars PROVE BoardTypeOK'
  OBVIOUS
<1>1. CASE UNCHANGED boardVars
  BY <1>1, TypeParts, TypeWhole, Untouched DEF BoardInv, boardVars
<1> QED
  BY <1>1, ServerStepTypes, BrokerStepTypes, MessageStepTypes, RequestStepTypes DEF BoardNext

-----------------------------------------------------------------------------
(* Every step keeps the events in order *)

\* Every step keeps the panels within the transactions that have committed.
LEMMA CountedStep == BoardInv /\ [BoardNext]_boardVars => Counted'
<1> SUFFICES ASSUME BoardInv, [BoardNext]_boardVars PROVE Counted'
  OBVIOUS
<1> USE BoardAssumption
<1>0. ServerTypes /\ Counted /\ BoardTypeOK'
  BY TypeParts, BoardTypeStep DEF BoardInv
<1>1. CASE UNCHANGED serverVars
  BY <1>0, <1>1 DEF Counted, Committed, serverVars
<1>2. ASSUME NEW type \in Types, Begin(type) PROVE Counted'
  BY <1>0, <1>2 DEF Counted, Committed, Begin, ServerTypes
<1>3. CASE Publish
  <2>1. writer \in Writers /\ UNCHANGED <<db, changes>>
    BY <1>0, <1>3 DEF ServerTypes, Publish
  <2>2. writer' = IF writer.committed THEN Nothing ELSE [writer EXCEPT !.published = TRUE]
    BY <1>3 DEF Publish
  <2>3. Committed' = Committed
    <3>1. CASE writer.committed
      BY <1>3, <2>1, <2>2, <3>1 DEF Committed, Publish
    <3>2. CASE ~writer.committed
      <4>1. writer' = [writer EXCEPT !.published = TRUE] /\ changes' = changes
        BY <2>1, <2>2, <3>2
      <4>2. writer' \in Writers /\ writer'.committed = writer.committed
        BY <2>1, <4>1 DEF Writers
      <4>3. writer' # Nothing /\ writer # Nothing
        BY <2>1, <4>2, WriterIsSome
      <4>4. ~writer'.committed
        BY <3>2, <4>2, Zenon
      <4> QED
        BY <3>2, <4>1, <4>3, <4>4 DEF Committed
    <3> QED
      BY <3>1, <3>2
  <2> QED
    BY <1>0, <2>1, <2>3 DEF Counted
<1>4. CASE Commit
  <2>1. writer \in Writers /\ changes' = changes
    BY <1>0, <1>4 DEF ServerTypes, Commit
  <2>2. Committed = changes - 1
    BY <1>4 DEF Committed, Commit
  <2>3. Committed' = changes
    <3>1. CASE writer.published
      BY <1>4, <2>1, <3>1 DEF Committed, Commit
    <3>2. CASE ~writer.published
      <4>1. writer' = [writer EXCEPT !.committed = TRUE]
        BY <1>4, <3>2 DEF Commit
      <4>2. writer'.committed
        BY <2>1, <4>1 DEF Writers
      <4> QED
        BY <2>1, <4>2 DEF Committed
    <3> QED
      BY <3>1, <3>2
  <2>4. \A p \in Panels : db[p] \in Int /\ db[p] <= changes - 1 /\ changes \in Int
    BY <1>0, <2>2 DEF Counted, ServerTypes
  <2>5. \A p \in Panels : db'[p] \in {db[p], db[p] + 1}
    BY <1>4 DEF Commit
  <2> QED
    BY <2>3, <2>4, <2>5 DEF Counted
<1>5. CASE Rollback
  BY <1>0, <1>5 DEF Counted, Committed, Rollback, ServerTypes
<1>6. CASE Broadcast \/ DropDead \/ Connect \/ Disconnect
  BY <1>1, <1>6 DEF Broadcast, DropDead, Connect, Disconnect
<1>7. CASE OnMessage
  BY <1>1, <1>7 DEF OnMessage, OnInstanceEvent, OnTransition, OnFinalized, OnDiscovery, OnUnheard
<1>8. CASE \/ Poll \/ ScheduledRefresh
           \/ \E i \in DOMAIN fetches : Read(i) \/ Render(i) \/ FailFetch(i)
  BY <1>1, <1>8 DEF Poll, ScheduledRefresh, Read, Render, FailFetch
<1>9. CASE UNCHANGED boardVars
  BY <1>1, <1>9 DEF boardVars, serverVars
<1> QED
  BY <1>2, <1>3, <1>4, <1>5, <1>6, <1>7, <1>8, <1>9 DEF BoardNext

\* A step that leaves the events alone and publishes none.
LEMMA InFlightUnpublished ==
  ASSUME BoardInv, BoardTypeOK', writer' # Nothing => writer'.n = changes', Published <= Published',
         queue' = queue, wire' = wire, summary' = summary
  PROVE  InFlight'
<1>1. /\ \A j \in DOMAIN queue : queue[j].n \in Int
      /\ \A i \in DOMAIN wire : wire[i].n \in Int
  BY EventNumbers DEF BoardInv, BoardTypeOK
<1>2. Published \in Int /\ Published' \in Int /\ summary \in Int
  BY BoardAssumption DEF BoardInv, BoardTypeOK, Published
<1> QED
  BY <1>1, <1>2 DEF BoardInv, InFlight, Rising

\* Every step keeps the events in order.
LEMMA InFlightStep == BoardInv /\ [BoardNext]_boardVars => InFlight'
<1> SUFFICES ASSUME BoardInv, [BoardNext]_boardVars PROVE InFlight'
  OBVIOUS
<1> USE BoardAssumption
<1>0. /\ ServerTypes /\ QueueTypes /\ WireTypes /\ InFlight /\ BoardTypeOK'
      /\ changes \in Int /\ summary \in Int /\ Published \in Int
  BY TypeParts, BoardTypeStep DEF BoardInv, ServerTypes, TabTypes, Published
<1>1. ASSUME UNCHANGED <<serverVars, queue, wire, summary>> PROVE InFlight'
  <2>1. Published' = Published /\ (writer' # Nothing => writer'.n = changes')
    BY <1>0, <1>1 DEF Published, serverVars, InFlight
  <2> QED
    BY <1>0, <1>1, <2>1, InFlightUnpublished
<1>2. ASSUME NEW type \in Types, Begin(type) PROVE InFlight'
  <2> DEFINE w == [type |-> type, n |-> changes + 1, committed |-> FALSE, published |-> FALSE]
  <2>2. writer = Nothing /\ writer' = w /\ changes' = changes + 1
    BY <1>2 DEF Begin
  <2>3. w \in Writers /\ w.n = changes + 1 /\ ~w.published
    BY <1>0, <1>2 DEF Begin, ServerTypes, Writers
  <2> HIDE DEF w
  <2>1. Published' = changes /\ Published = changes /\ writer'.n = changes'
    BY <1>0, <2>2, <2>3, WriterIsSome DEF Published
  <2> QED
    BY <1>0, <1>2, <2>1, InFlightUnpublished DEF Begin, tabVars
<1>3. CASE Commit
  <2>1. writer \in Writers /\ writer.n = changes /\ changes' = changes
    BY <1>0, <1>3 DEF ServerTypes, Commit, InFlight
  <2>2. CASE writer.published
    <3>1. Published' = changes /\ writer' = Nothing /\ Published = changes
      BY <1>3, <2>1, <2>2 DEF Commit, Published
    <3> QED
      BY <1>0, <1>3, <3>1, InFlightUnpublished DEF Commit, tabVars
  <2>3. CASE ~writer.published
    <3>1. writer' = [writer EXCEPT !.committed = TRUE]
      BY <1>3, <2>3 DEF Commit
    <3>2. writer' \in Writers /\ writer'.n = changes' /\ writer'.published = writer.published
      BY <2>1, <3>1 DEF Writers
    <3>4. writer # Nothing /\ writer' # Nothing
      BY <2>1, <3>2, WriterIsSome
    <3>5. ~writer'.published
      BY <2>3, <3>2, Zenon
    <3>3. Published' = Published
      BY <2>1, <2>3, <3>4, <3>5 DEF Published
    <3> QED
      BY <1>0, <1>3, <3>2, <3>3, InFlightUnpublished DEF Commit, tabVars
  <2> QED
    BY <2>2, <2>3
<1>4. CASE Rollback
  <2>1. Published' = changes /\ Published <= changes /\ writer' = Nothing
    BY <1>0, <1>4 DEF Rollback, Published
  <2> QED
    BY <1>0, <1>4, <2>1, InFlightUnpublished DEF Rollback, tabVars
<1>5. CASE Publish
  <2>1. writer \in Writers /\ writer.n = changes /\ ~writer.published
    BY <1>0, <1>5 DEF ServerTypes, Publish, InFlight
  <2>2. Published = changes - 1
    BY <1>5 DEF Publish, Published
  <2>3. changes' = changes /\ Published' = changes /\ (writer' # Nothing => writer'.n = changes)
    <3>1. CASE writer.committed
      BY <1>5, <3>1 DEF Publish, Published
    <3>2. CASE ~writer.committed
      <4>1. writer' = [writer EXCEPT !.published = TRUE] /\ changes' = changes
        BY <1>5, <3>2 DEF Publish
      <4>2. writer'.published /\ writer'.n = changes
        BY <2>1, <4>1 DEF Writers
      <4> QED
        BY <4>1, <4>2 DEF Published
    <3> QED
      BY <3>1, <3>2
  <2>4. wire' = wire /\ summary' = summary
    BY <1>5 DEF Publish, tabVars
  <2>5. CASE queue' = queue
    BY <1>0, <2>2, <2>3, <2>4, <2>5, InFlightUnpublished
  <2>6. CASE queue' # queue
    <3> DEFINE e == [type |-> writer.type, n |-> writer.n]
    <3>1. queue' = Append(queue, e)
      BY <1>5, <2>6 DEF Publish, Offered
    <3>2. e \in Events /\ e.n = changes
      BY <2>1 DEF Writers, Events
    <3> HIDE DEF e
    <3>3. /\ Len(queue) \in Nat
          /\ DOMAIN queue = 1 .. Len(queue) /\ DOMAIN queue' = 1 .. Len(queue) + 1
          /\ \A i \in DOMAIN queue : queue'[i] = queue[i]
          /\ queue'[Len(queue) + 1] = e
      <4>1. queue \in Seq(Events)
        BY <1>0 DEF QueueTypes
      <4> QED
        BY <3>1, <3>2, <4>1, Appended
    <3>4. /\ \A j \in DOMAIN queue : queue[j].n \in Int
          /\ \A i \in DOMAIN wire : wire[i].n \in Int
      BY <1>0, EventNumbers DEF QueueTypes, WireTypes
    <3>5. \A j \in DOMAIN queue' : \/ j \in DOMAIN queue /\ queue'[j] = queue[j]
                                   \/ j = Len(queue) + 1 /\ queue'[j] = e
      BY <3>3
    <3>6. Rising(queue')
      BY <1>0, <2>2, <3>2, <3>3, <3>4, <3>5 DEF InFlight, Rising
    <3>7. \A j \in DOMAIN queue' : summary <= queue'[j].n /\ queue'[j].n <= changes
      BY <1>0, <2>2, <3>2, <3>4, <3>5 DEF InFlight
    <3>8. \A i \in DOMAIN wire : summary <= wire[i].n /\ wire[i].n <= changes
      BY <1>0, <2>2, <3>4 DEF InFlight
    <3>9. \A i \in DOMAIN wire, j \in DOMAIN queue' : wire[i].n < queue'[j].n
      BY <1>0, <2>2, <3>2, <3>4, <3>5 DEF InFlight
    <3>10. summary <= changes /\ Rising(wire)
      BY <1>0, <2>2 DEF InFlight
    <3> QED
      BY <2>3, <2>4, <3>6, <3>7, <3>8, <3>9, <3>10 DEF InFlight, Rising
  <2> QED
    BY <2>5, <2>6
<1>6. ASSUME Broadcast \/ DropDead PROVE InFlight'
  <2>1. /\ queue # <<>> /\ queue' = RemoveAt(queue, 1)
        /\ UNCHANGED serverVars /\ summary' = summary
        /\ wire' = wire \/ wire' = Append(wire, queue[1])
    BY <1>6 DEF Broadcast, DropDead, Oldest, tabVars
  <2>2. /\ queue' = Tail(queue) /\ Len(queue) \in Nat \ {0}
        /\ DOMAIN queue = 1 .. Len(queue) /\ DOMAIN queue' = 1 .. Len(queue) - 1
        /\ \A i \in DOMAIN queue' : queue'[i] = queue[i + 1]
        /\ queue[1] \in Events
    BY <1>0, <2>1, Dequeued DEF QueueTypes
  <2>3. Published' = Published /\ (writer' # Nothing => writer'.n = changes')
    BY <1>0, <2>1 DEF Published, serverVars, InFlight
  <2>4. /\ \A j \in DOMAIN queue : queue[j].n \in Int
        /\ \A i \in DOMAIN wire : wire[i].n \in Int
    BY <1>0, EventNumbers DEF QueueTypes, WireTypes
  <2>5. \A j \in DOMAIN queue' : /\ j + 1 \in DOMAIN queue /\ queue'[j] = queue[j + 1]
                                 /\ queue[1].n < queue'[j].n
    BY <1>0, <2>2, <2>4 DEF InFlight, Rising
  <2>6. Rising(queue')
    BY <1>0, <2>2, <2>5 DEF InFlight, Rising
  <2>7. \A j \in DOMAIN queue' : summary <= queue'[j].n /\ queue'[j].n <= Published
    BY <1>0, <2>5 DEF InFlight
  <2>8. 1 \in DOMAIN queue
    BY <2>2
  <2>9. \A i \in DOMAIN wire' : \/ i \in DOMAIN wire /\ wire'[i] = wire[i]
                                \/ i = Len(wire) + 1 /\ wire'[i] = queue[1]
    BY <1>0, <2>1, <2>2, Appended DEF WireTypes
  <2>10. Len(wire) \in Nat /\ DOMAIN wire = 1 .. Len(wire)
    BY <1>0, LenProperties DEF WireTypes
  <2>11. Rising(wire')
    BY <1>0, <2>4, <2>8, <2>9, <2>10 DEF InFlight, Rising
  <2>12. \A i \in DOMAIN wire' : summary <= wire'[i].n /\ wire'[i].n <= Published
    BY <1>0, <2>8, <2>9 DEF InFlight
  <2>13. \A i \in DOMAIN wire', j \in DOMAIN queue' : wire'[i].n < queue'[j].n
    BY <1>0, <2>5, <2>9 DEF InFlight
  <2>14. summary <= Published
    BY <1>0 DEF InFlight
  <2> QED
    BY <2>1, <2>3, <2>6, <2>7, <2>11, <2>12, <2>13, <2>14 DEF InFlight, Rising
<1>7. ASSUME Connect \/ Disconnect PROVE InFlight'
  <2>1. /\ queue' = queue /\ wire' = <<>> /\ summary' = summary /\ UNCHANGED serverVars
        /\ DOMAIN wire' = {}
    BY <1>7, EmptySeq DEF Connect, Disconnect
  <2>2. Published' = Published /\ (writer' # Nothing => writer'.n = changes')
    BY <1>0, <2>1 DEF Published, serverVars, InFlight
  <2> QED
    BY <1>0, <2>1, <2>2 DEF InFlight, Rising
<1>8. CASE OnMessage
  <2>1. /\ wire # <<>> /\ wire' = Tail(wire) /\ queue' = queue /\ UNCHANGED serverVars
        /\ summary' \in {summary, Head(wire).n}
    BY <1>8 DEF OnMessage, OnInstanceEvent, OnTransition, OnFinalized, OnDiscovery, OnUnheard,
                Received, tabVars
  <2>2. /\ Len(wire) \in Nat \ {0} /\ Head(wire) = wire[1]
        /\ DOMAIN wire = 1 .. Len(wire) /\ DOMAIN wire' = 1 .. Len(wire) - 1
        /\ \A i \in DOMAIN wire' : wire'[i] = wire[i + 1]
    BY <1>0, <2>1, Dequeued DEF WireTypes
  <2>3. Published' = Published /\ (writer' # Nothing => writer'.n = changes')
    BY <1>0, <2>1 DEF Published, serverVars, InFlight
  <2>4. /\ \A j \in DOMAIN queue : queue[j].n \in Int
        /\ \A i \in DOMAIN wire : wire[i].n \in Int
    BY <1>0, EventNumbers DEF QueueTypes, WireTypes
  <2>5. 1 \in DOMAIN wire
    BY <2>2
  <2>6. /\ summary <= wire[1].n /\ wire[1].n <= Published
        /\ \A j \in DOMAIN queue : wire[1].n < queue[j].n
    BY <1>0, <2>5 DEF InFlight
  <2>7. \A i \in DOMAIN wire' : /\ i + 1 \in DOMAIN wire /\ wire'[i] = wire[i + 1]
                                /\ wire[1].n < wire'[i].n
    BY <1>0, <2>2, <2>4 DEF InFlight, Rising
  <2>8. summary' \in Int /\ summary <= summary' /\ summary' <= wire[1].n
    BY <1>0, <2>1, <2>2, <2>4, <2>5, <2>6
  <2>9. Rising(wire')
    BY <1>0, <2>2, <2>7 DEF InFlight, Rising
  <2>10. \A j \in DOMAIN queue : summary' <= queue[j].n /\ queue[j].n <= Published
    BY <1>0, <2>4, <2>5, <2>6, <2>8 DEF InFlight
  <2>11. \A i \in DOMAIN wire' : summary' <= wire'[i].n /\ wire'[i].n <= Published
    BY <1>0, <2>4, <2>5, <2>7, <2>8 DEF InFlight
  <2>12. \A i \in DOMAIN wire', j \in DOMAIN queue : wire'[i].n < queue[j].n
    BY <1>0, <2>7 DEF InFlight
  <2>13. summary' <= Published
    BY <1>0, <2>4, <2>5, <2>6, <2>8
  <2> QED
    BY <1>0, <2>1, <2>3, <2>9, <2>10, <2>11, <2>12, <2>13 DEF InFlight, Rising
<1>9. CASE \/ Poll \/ ScheduledRefresh
           \/ \E i \in DOMAIN fetches : Read(i) \/ Render(i) \/ FailFetch(i)
  BY <1>1, <1>9 DEF Poll, ScheduledRefresh, Read, Render, FailFetch
<1>10. CASE UNCHANGED boardVars
  BY <1>1, <1>10 DEF boardVars, serverVars
<1> QED
  BY <1>2, <1>3, <1>4, <1>5, <1>6, <1>7, <1>8, <1>9, <1>10 DEF BoardNext

\* The invariant holds in every behaviour.
LEMMA BoardInvariant == BoardSpec => []BoardInv
<1>1. BoardInv /\ [BoardNext]_boardVars => BoardInv'
  BY BoardTypeStep, CountedStep, InFlightStep DEF BoardInv
<1> QED
  BY <1>1, BoardInvInit, PTL DEF BoardSpec

-----------------------------------------------------------------------------
(* Theorems *)

\* For every size of the queue: the queue keeps its limit and the broker sends only to
\* a socket the tab has open (_QUEUE_MAX and remove, api/events.py).
THEOREM BoardTypeCorrect == BoardSpec => []BoardTypeOK
<1>1. BoardInv => BoardTypeOK
  BY DEF BoardInv
<1> QED
  BY <1>1, BoardInvariant, PTL

\* For every size of the queue and any number of failures: the summary of an instance on
\* the board never goes back (publish_sync, run_broadcaster and ws.onmessage).
THEOREM SummaryOrdered == BoardSpec => SummaryInOrder
<1>1. BoardInv /\ [BoardNext]_boardVars => [summary' >= summary]_boardVars
  <2> SUFFICES ASSUME BoardInv, [BoardNext]_boardVars
               PROVE  summary' >= summary \/ UNCHANGED boardVars
    OBVIOUS
  <2>1. summary \in Int
    BY BoardAssumption DEF BoardInv, BoardTypeOK
  <2>2. CASE OnInstanceEvent
    <3>1. wire \in Seq(Events) /\ wire # <<>> /\ summary' = Head(wire).n
      BY <2>2 DEF OnInstanceEvent, Received, BoardInv, BoardTypeOK
    <3>2. Head(wire) = wire[1] /\ 1 \in DOMAIN wire /\ Head(wire) \in Events
      BY <3>1, Dequeued
    <3>3. summary <= wire[1].n /\ wire[1].n \in Int
      BY <3>2 DEF BoardInv, InFlight, Events
    <3> QED
      BY <2>1, <3>1, <3>2, <3>3
  <2>3. CASE ~OnInstanceEvent
    <3>1. summary' = summary
      BY <2>3 DEF BoardNext, boardVars, Begin, Publish, Commit, Rollback, Broadcast, DropDead,
              Connect, Disconnect, OnMessage, OnTransition, OnFinalized, OnDiscovery, OnUnheard,
              Poll, ScheduledRefresh, Read, Render, FailFetch, tabVars
    <3> QED
      BY <2>1, <3>1
  <2> QED
    BY <2>2, <2>3
<1> QED
  BY <1>1, BoardInvariant, PTL DEF BoardSpec, SummaryInOrder

(***************************************************************************)
(* Discovery: two facts carry the proofs.  A ref that a scan has inserted  *)
(* and not committed is in one scan only and in nothing else, and whoever  *)
(* is about to write has read the item as new.                             *)
(***************************************************************************)

-----------------------------------------------------------------------------
(* The inductive invariant *)

\* Links, the tasks listed to the agent and the tasks it has named are tasks that exist.
Items == item \in [Refs -> Rows \cup {None}]
LinksExist == \A r \in Refs : item[r] # None => item[r].link \in {None} \cup Tasks
Knows(x, tasks) ==
  /\ x.listed \subseteq tasks
  /\ x.step = "writing" => /\ x.new = TRUE /\ x.verdict # None
                           /\ x.verdict.link \in {None} \cup tasks
ResolversKnow == \A x \in resolvers : Knows(x, Tasks)

TypeInv ==
  /\ Items
  /\ LinksExist
  /\ made \in [Refs -> Nat] /\ refined \in [Refs -> Nat]
  /\ scan \in [Daemons -> Scans \cup {None}]
  /\ resolvers \subseteq Resolutions
  /\ ResolversKnow
  /\ scans \in 0 .. MaxScans
  /\ touches \in 0 .. MaxTouches
  /\ escalated \subseteq Refs /\ raced \subseteq Refs

\* What a scan has inserted is in no other scan and not yet committed.
FreshOnce ==
  \A d \in Daemons : scan[d] # None =>
    \A r \in scan[d].fresh :
      item[r] = None /\ \A e \in Daemons \ {d} : scan[e] # None => r \notin scan[e].fresh

\* Nothing is known of a ref that has no item.
Unseen ==
  \A r \in Refs : item[r] = None =>
    /\ made[r] = 0 /\ refined[r] = 0
    /\ r \notin escalated
    /\ \A x \in resolvers : x.ref # r

IInv == TypeInv /\ FreshOnce /\ Unseen /\ TasksMatchItems /\ HandledOnce

-----------------------------------------------------------------------------
(* Tasks and rows *)

\* A row and a task are not NULL.
LEMMA NotNull ==
  /\ \A row \in Rows : row # None
  /\ \A r \in Refs, n \in Nat : TaskOf(r, n) # None
<1>1. Rows \subseteq [status : Statuses, link : {None} \cup (Refs \X Nat)]
  <2>1. {None} \cup (Refs \X (Nat \ {0})) \subseteq {None} \cup (Refs \X Nat)
    OBVIOUS
  <2> QED
    BY <2>1, Zenon DEF Rows
<1>2. \A r \in Refs, n \in Nat : TaskOf(r, n) \in Refs \X Nat
  BY DEF TaskOf
<1> QED
  BY <1>1, <1>2, DiscoveryAssumption

\* Tasks are numbered from 1.
LEMMA TaskType ==
  ASSUME made \in [Refs -> Nat]
  PROVE  /\ Tasks \subseteq Refs \X (Nat \ {0})
         /\ \A r \in Refs : \A n \in 1 .. made[r] : TaskOf(r, n) \in Tasks
BY DEF Tasks, TaskOf

\* Tasks are made and never removed.
LEMMA TasksGrow ==
  ASSUME made \in [Refs -> Nat], made' \in [Refs -> Nat], \A r \in Refs : made[r] <= made'[r]
  PROVE  Tasks \subseteq Tasks'
<1> SUFFICES ASSUME NEW r \in Refs, NEW n \in 1 .. made[r] PROVE TaskOf(r, n) \in Tasks'
  BY DEF Tasks
<1>1. n \in 1 .. made'[r]
  OBVIOUS
<1> QED
  BY <1>1 DEF Tasks

\* Links to tasks that exist stay so while more are made.
LEMMA LinksStay ==
  ASSUME TypeInv, UNCHANGED item, Tasks \subseteq Tasks'
  PROVE  Items' /\ LinksExist'
BY DEF TypeInv, Items, LinksExist

\* With one more resolution, all of them know of tasks that exist.
LEMMA ResolverJoins ==
  ASSUME TypeInv, Tasks \subseteq Tasks', NEW y \in Resolutions, Knows(y, Tasks'),
         resolvers' \subseteq resolvers \cup {y}
  PROVE  resolvers' \subseteq Resolutions /\ ResolversKnow'
BY DEF TypeInv, ResolversKnow, Knows

\* So do those that are left when some end.
LEMMA ResolversLeave ==
  ASSUME TypeInv, Tasks \subseteq Tasks', resolvers' \subseteq resolvers
  PROVE  resolvers' \subseteq Resolutions /\ ResolversKnow'
BY DEF TypeInv, ResolversKnow, Knows

-----------------------------------------------------------------------------
(* Every step keeps the types *)

\* An empty inbox.
LEMMA TypeInit == Init => IInv
<1> SUFFICES ASSUME Init PROVE IInv
  OBVIOUS
<1> USE DEF Init
<1>1. TypeInv
  BY DiscoveryAssumption DEF TypeInv, Items, LinksExist, ResolversKnow
<1>2. FreshOnce /\ Unseen
  BY DEF FreshOnce, Unseen
<1>3. TasksMatchItems /\ HandledOnce
  BY DEF TasksMatchItems, HandledOnce
<1> QED
  BY <1>1, <1>2, <1>3 DEF IInv

\* Scans read sources, insert, and are rolled back.
LEMMA ScanTypes ==
  ASSUME TypeInv, NEW d \in Daemons,
         Fetch(d) \/ (\E r \in Refs : Insert(d, r)) \/ RollBack(d) \/ Stop(d)
  PROVE  TypeInv'
<1>1. UNCHANGED <<item, made, touches, refined, escalated, raced>> /\ resolvers' \subseteq resolvers
  BY DEF Fetch, Insert, RollBack, Stop, itemVars
<1>2. Tasks' = Tasks
  BY <1>1 DEF Tasks
<1>3. scan' \in [Daemons -> Scans \cup {None}] /\ scans' \in 0 .. MaxScans
  <2>1. CASE Fetch(d)
    BY <2>1, DiscoveryAssumption DEF TypeInv, Fetch, Scans
  <2>2. CASE \E r \in Refs : Insert(d, r)
    <3>1. PICK r \in Refs : Insert(d, r)
      BY <2>2
    <3>2. scan[d] \in Scans
      BY <3>1 DEF TypeInv, Insert
    <3>3. /\ [scan[d] EXCEPT !.left = scan[d].left \ {r}] \in Scans
          /\ [scan[d] EXCEPT !.left = scan[d].left \ {r},
                             !.fresh = scan[d].fresh \cup {r}] \in Scans
      BY <3>2 DEF Scans
    <3>4. scan' \in {[scan EXCEPT ![d] = [scan[d] EXCEPT !.left = scan[d].left \ {r}]],
                     [scan EXCEPT ![d] = [scan[d] EXCEPT !.left = scan[d].left \ {r},
                                                         !.fresh = scan[d].fresh \cup {r}]]}
      BY <3>1 DEF Insert
    <3> QED
      BY <3>1, <3>3, <3>4 DEF TypeInv, Insert
  <2>3. CASE RollBack(d) \/ Stop(d)
    BY <2>3 DEF TypeInv, RollBack, Stop
  <2> QED
    BY <2>1, <2>2, <2>3
<1>4. Items' /\ LinksExist'
  BY <1>1, <1>2, LinksStay
<1>5. resolvers' \subseteq Resolutions /\ ResolversKnow'
  BY <1>1, <1>2, ResolversLeave
<1> QED
  BY <1>1, <1>3, <1>4, <1>5 DEF TypeInv

\* A commit inserts rows whose links are to the tasks it makes.
LEMMA CommitTypes ==
  ASSUME TypeInv, NEW d \in Daemons, CommitScan(d)
  PROVE  TypeInv'
<1> DEFINE s == scan[d]
           urgent == s.fresh \cap s.critical
           queued == s.fresh \ s.critical
<1>1. s \in Scans /\ s.fresh \subseteq Refs /\ s.critical \subseteq Refs
  BY DEF TypeInv, CommitScan, Scans
<1>2. /\ item' = [r \in Refs |-> IF r \in s.fresh THEN Inserted(r, r \in s.critical) ELSE item[r]]
      /\ made' = [r \in Refs |-> IF r \in urgent THEN made[r] + 1 ELSE made[r]]
      /\ escalated' = escalated \cup urgent
      /\ resolvers' \subseteq resolvers \cup
           {Resolver(d, r, "waiting", {}, None, FALSE) : r \in queued}
      /\ refined' \in {refined, [r \in Refs |-> IF r \in queued THEN refined[r] + 1
                                                                ELSE refined[r]]}
      /\ scan' = [scan EXCEPT ![d] = None]
      /\ UNCHANGED <<scans, touches, raced>>
  BY DEF CommitScan
<1>3. urgent \subseteq Refs /\ queued \subseteq Refs /\ urgent = s.fresh \cap s.critical
  BY <1>1
<1> HIDE DEF s, urgent, queued
<1>4. made' \in [Refs -> Nat] /\ refined' \in [Refs -> Nat]
  BY <1>2 DEF TypeInv
<1>5. Tasks \subseteq Tasks' /\ \A r \in urgent : TaskOf(r, 1) \in Tasks'
  <2>1. \A r \in Refs : made[r] <= made'[r]
    BY <1>2 DEF TypeInv
  <2>2. \A r \in urgent : 1 \in 1 .. made'[r]
    BY <1>2, <1>3 DEF TypeInv
  <2>3. \A r \in Refs : \A n \in 1 .. made'[r] : TaskOf(r, n) \in Tasks'
    BY <1>4 DEF Tasks
  <2>4. Tasks \subseteq Tasks'
    BY <1>4, <2>1, TasksGrow DEF TypeInv
  <2> QED
    BY <1>3, <2>2, <2>3, <2>4
<1>6. ASSUME NEW r \in Refs
      PROVE  /\ item'[r] \in Rows \cup {None}
             /\ item'[r] # None => item'[r].link \in {None} \cup Tasks'
  <2>1. CASE r \in urgent
    <3>1. item'[r] = [status |-> "promoted", link |-> TaskOf(r, 1)]
      BY <1>2, <1>3, <2>1 DEF Inserted
    <3> QED
      BY <1>5, <2>1, <3>1 DEF Rows, Statuses, TaskOf
  <2>2. CASE r \in s.fresh /\ r \notin urgent
    <3>1. item'[r] = [status |-> "new", link |-> None]
      BY <1>2, <1>3, <2>2 DEF Inserted
    <3> QED
      BY <3>1 DEF Rows, Statuses
  <2>3. CASE r \notin s.fresh
    BY <1>2, <1>5, <2>3 DEF TypeInv, Items, LinksExist
  <2> QED
    BY <1>3, <2>1, <2>2, <2>3
<1>7. Items' /\ LinksExist'
  BY <1>2, <1>6 DEF Items, LinksExist
<1>8. ASSUME NEW x \in resolvers' PROVE x \in Resolutions /\ Knows(x, Tasks')
  <2>1. CASE x \in resolvers
    BY <1>5, <2>1 DEF TypeInv, ResolversKnow, Knows
  <2>2. CASE \E r \in queued : x = Resolver(d, r, "waiting", {}, None, FALSE)
    <3>1. PICK r \in queued : x = Resolver(d, r, "waiting", {}, None, FALSE)
      BY <2>2
    <3>2. /\ r \in Refs /\ {} \in SUBSET (Refs \X (Nat \ {0})) /\ None \in Rows \cup {None}
          /\ "waiting" \in {"waiting", "asked", "writing"} /\ FALSE \in BOOLEAN
          /\ d \in Daemons \cup 1 .. MaxTouches
      BY <1>3
    <3>3. x \in Resolutions /\ x.step = "waiting" /\ x.listed = {}
      BY <3>1, <3>2 DEF Resolver, Resolutions
    <3> QED
      BY <3>3 DEF Knows
  <2> QED
    BY <1>2, <1>8, <2>1, <2>2
<1>9. scan' \in [Daemons -> Scans \cup {None}]
  BY <1>2 DEF TypeInv
<1> QED
  BY <1>2, <1>3, <1>4, <1>7, <1>8, <1>9 DEF TypeInv, ResolversKnow

\* The agent is asked, answers or fails: no item changes.
LEMMA ResolverTypes ==
  ASSUME TypeInv, NEW x \in resolvers, Ask(x) \/ Decide(x) \/ Fail(x)
  PROVE  TypeInv'
<1>1. /\ UNCHANGED <<item, made, touches, raced, scan, scans, refined, escalated>>
  BY DEF Ask, Decide, Fail, UnchangedByResolvers, itemVars
<1>2. Tasks' = Tasks /\ Tasks \subseteq Refs \X (Nat \ {0})
  BY <1>1, TaskType DEF Tasks, TypeInv
<1>3. x \in Resolutions /\ Knows(x, Tasks)
  BY DEF TypeInv, ResolversKnow
<1>4. resolvers' \subseteq Resolutions /\ ResolversKnow'
  <2>1. CASE Ask(x)
    <3> DEFINE y == [x EXCEPT !.step = "asked", !.listed = Tasks]
    <3>1. y \in Resolutions /\ y.step = "asked" /\ y.listed = Tasks
      BY <1>2, <1>3 DEF Resolutions
    <3>2. resolvers' \subseteq resolvers \cup {y}
      BY <2>1 DEF Ask, Becomes
    <3> HIDE DEF y
    <3> QED
      BY <1>2, <3>1, <3>2, ResolverJoins DEF Knows
  <2>2. CASE Decide(x) /\ Unresolved(x)
    <3>1. PICK v \in Verdicts(x) :
            Becomes(x, [x EXCEPT !.step = "writing", !.verdict = v, !.new = IsNew(x.ref)])
      BY <2>2 DEF Decide
    <3>2. IsNew(x.ref) = TRUE
      BY <2>2, Zenon DEF Unresolved, IsNew
    <3>3. x.listed \subseteq Tasks /\ x.listed \subseteq Refs \X (Nat \ {0})
      BY <1>2, <1>3 DEF Knows
    <3>4. v \in Rows /\ v.link \in {None} \cup Tasks
      BY <3>3 DEF Verdicts, Rows, Statuses
    <3> DEFINE y == [x EXCEPT !.step = "writing", !.verdict = v, !.new = TRUE]
    <3>5. /\ y \in Resolutions /\ y.step = "writing" /\ y.listed = x.listed
          /\ y.verdict = v /\ y.new = TRUE
      BY <1>3, <3>4 DEF Resolutions
    <3>6. resolvers' \subseteq resolvers \cup {y}
      BY <3>1, <3>2 DEF Becomes
    <3> HIDE DEF y
    <3>7. Knows(y, Tasks)
      BY <3>3, <3>4, <3>5, NotNull DEF Knows
    <3> QED
      BY <1>2, <3>5, <3>6, <3>7, ResolverJoins
  <2>3. CASE (Decide(x) /\ ~Unresolved(x)) \/ Fail(x)
    <3>1. resolvers' \subseteq resolvers
      BY <2>3 DEF Decide, Fail
    <3> QED
      BY <1>2, <3>1, ResolversLeave
  <2> QED
    BY <2>1, <2>2, <2>3
<1>5. Items' /\ LinksExist'
  BY <1>1, <1>2, LinksStay
<1> QED
  BY <1>1, <1>4, <1>5 DEF TypeInv

\* A person's request is one more resolution.
LEMMA ClickTypes ==
  ASSUME TypeInv, NEW r \in Refs, Click(r, "promoted") \/ Click(r, "rejected") \/ Refine(r)
  PROVE  TypeInv'
<1>1. /\ UNCHANGED <<item, made, raced, scan, scans, refined, escalated>>
      /\ touches' = touches + 1 /\ touches' \in 1 .. MaxTouches
  <2>1. touches \in 0 .. MaxTouches /\ MaxTouches \in Nat
    BY DiscoveryAssumption DEF TypeInv
  <2>2. touches < MaxTouches /\ touches' = touches + 1
    BY DEF Click, Refine
  <2>3. UNCHANGED <<item, made, raced, scan, scans, refined, escalated>>
    BY DEF Click, Refine, UnchangedByResolvers, itemVars
  <2> QED
    BY <2>1, <2>2, <2>3
<1>2. Tasks' = Tasks /\ Tasks \subseteq Refs \X (Nat \ {0})
  BY <1>1, TaskType DEF Tasks, TypeInv
<1>3. resolvers' \subseteq Resolutions /\ ResolversKnow'
  <2>1. ASSUME NEW status \in {"promoted", "rejected"}, Click(r, status)
        PROVE  resolvers' \subseteq Resolutions /\ ResolversKnow'
    <3> DEFINE v == [status |-> status, link |-> None]
               y == Resolver(touches', r, "writing", {}, v, TRUE)
    <3>1. v \in Rows /\ v.link = None
      BY DEF Rows, Statuses
    <3>2. resolvers' \subseteq resolvers \cup {y}
      BY <2>1 DEF Click
    <3> HIDE DEF v
    <3>5. /\ {} \in SUBSET (Refs \X (Nat \ {0})) /\ v \in Rows \cup {None}
          /\ "writing" \in {"waiting", "asked", "writing"} /\ TRUE \in BOOLEAN
          /\ touches' \in Daemons \cup 1 .. MaxTouches
      BY <1>1, <3>1
    <3>3. /\ y \in Resolutions /\ y.step = "writing" /\ y.listed = {}
          /\ y.verdict = v /\ y.new = TRUE
      BY <3>5 DEF Resolver, Resolutions
    <3> HIDE DEF y
    <3>4. Knows(y, Tasks)
      BY <3>1, <3>3, NotNull DEF Knows
    <3> QED
      BY <1>2, <3>2, <3>3, <3>4, ResolverJoins
  <2>2. ASSUME Refine(r) PROVE resolvers' \subseteq Resolutions /\ ResolversKnow'
    <3> DEFINE y == Resolver(touches', r, "asked", Tasks, None, FALSE)
    <3>1. resolvers' \subseteq resolvers \cup {y}
      BY <2>2 DEF Refine
    <3>3. /\ Tasks \in SUBSET (Refs \X (Nat \ {0})) /\ None \in Rows \cup {None}
          /\ "asked" \in {"waiting", "asked", "writing"} /\ FALSE \in BOOLEAN
          /\ touches' \in Daemons \cup 1 .. MaxTouches
      BY <1>1, <1>2
    <3>2. y \in Resolutions /\ y.step = "asked" /\ y.listed = Tasks
      BY <3>3 DEF Resolver, Resolutions
    <3> HIDE DEF y
    <3> QED
      BY <1>2, <3>1, <3>2, ResolverJoins DEF Knows
  <2> QED
    BY <2>1, <2>2
<1>4. Items' /\ LinksExist'
  BY <1>1, <1>2, LinksStay
<1> QED
  BY <1>1, <1>3, <1>4 DEF TypeInv

\* What a resolution writes, who was about to write it.
LEMMA Written ==
  ASSUME TypeInv, NEW x \in resolvers, Write(x)
  PROVE  /\ x \in Resolutions /\ x.ref \in Refs /\ x.new = TRUE
         /\ x.verdict \in Rows /\ x.verdict.link \in {None} \cup Tasks
         /\ ResolvedRow(x).status = x.verdict.status
         /\ x.verdict.status = "promoted" => ResolvedRow(x).link = TaskOf(x.ref, made[x.ref] + 1)
         /\ ResolvedRow(x) = [status |-> ResolvedRow(x).status, link |-> ResolvedRow(x).link]
<1>1. x \in Resolutions /\ Knows(x, Tasks) /\ x.step = "writing"
  BY DEF TypeInv, ResolversKnow, Write
<1>2. x.ref \in Refs /\ x.verdict \in Rows
  BY <1>1 DEF Resolutions, Knows
<1>3. made[x.ref] + 1 \in Nat
  BY <1>2 DEF TypeInv
<1> QED
  BY <1>1, <1>2, <1>3, NotNull DEF Knows, ResolvedRow

\* A resolution writes a status, and a link to the task it makes or was told of.
LEMMA WriteTypes ==
  ASSUME TypeInv, NEW x \in resolvers, Write(x), LinksExist, item[x.ref] # None
  PROVE  TypeInv'
<1> DEFINE r == x.ref
<1>1. /\ x \in Resolutions /\ r \in Refs
      /\ x.verdict \in Rows /\ x.verdict.link \in {None} \cup Tasks
  BY Written
<1>2. /\ item' = [item EXCEPT ![r] = ResolvedRow(x)]
      /\ made' = [made EXCEPT ![r] = IF x.verdict.status = "promoted" THEN made[r] + 1 ELSE made[r]]
      /\ raced' \in {raced \cup {r}, raced}
      /\ resolvers' = resolvers \ {x}
      /\ UNCHANGED <<scan, scans, refined, escalated, touches>>
  BY DEF Write, UnchangedByResolvers
<1> HIDE DEF r
<1>3. made' \in [Refs -> Nat] /\ Tasks \subseteq Tasks'
  <2>1. made' \in [Refs -> Nat] /\ \A q \in Refs : made[q] <= made'[q]
    BY <1>1, <1>2 DEF TypeInv
  <2> QED
    BY <2>1, TasksGrow DEF TypeInv
<1>4. ResolvedRow(x) \in Rows /\ ResolvedRow(x).link \in {None} \cup Tasks'
  <2>1. CASE x.verdict.status = "promoted"
    <3>1. ResolvedRow(x).link = TaskOf(r, made[r] + 1) /\ ResolvedRow(x).status = "promoted"
      BY <2>1, Written DEF r
    <3>2. made[r] + 1 \in 1 .. made'[r] /\ made[r] + 1 \in Nat \ {0}
      BY <1>1, <1>2, <2>1 DEF TypeInv
    <3>3. TaskOf(r, made[r] + 1) \in Tasks'
      BY <1>1, <3>2 DEF Tasks
    <3>4. ResolvedRow(x) = [status |-> ResolvedRow(x).status, link |-> ResolvedRow(x).link]
      BY Written
    <3>5. TaskOf(r, made[r] + 1) \in Refs \X (Nat \ {0})
      BY <1>1, <3>2 DEF TaskOf
    <3> QED
      BY <3>1, <3>3, <3>4, <3>5 DEF Rows, Statuses
  <2>2. CASE x.verdict.status # "promoted"
    <3>1. item[r] \in Rows /\ item[r].link \in {None} \cup Tasks
      BY <1>1 DEF TypeInv, Items, LinksExist, r
    <3>2. ResolvedRow(x).status = x.verdict.status
          /\ ResolvedRow(x).link \in {item[r].link, x.verdict.link}
      BY <2>2 DEF ResolvedRow, r
    <3>3. ResolvedRow(x) = [status |-> ResolvedRow(x).status, link |-> ResolvedRow(x).link]
      BY Written
    <3>4. ResolvedRow(x).link \in {None} \cup (Refs \X (Nat \ {0}))
      BY <1>1, <3>1, <3>2 DEF Rows, Statuses
    <3> QED
      BY <1>1, <1>3, <3>1, <3>2, <3>3, <3>4 DEF Rows, Statuses
  <2> QED
    BY <2>1, <2>2
<1>5. Items' /\ LinksExist'
  BY <1>1, <1>2, <1>3, <1>4 DEF TypeInv, Items, LinksExist
<1>6. resolvers' \subseteq Resolutions /\ ResolversKnow'
  BY <1>2, <1>3, ResolversLeave
<1>7. raced' \subseteq Refs
  BY <1>1, <1>2 DEF TypeInv
<1> QED
  BY <1>2, <1>3, <1>5, <1>6, <1>7 DEF TypeInv

\* A resolution is of an item.
LEMMA ResolverHasItem ==
  ASSUME TypeInv, Unseen, NEW x \in resolvers
  PROVE  x.ref \in Refs /\ item[x.ref] # None
<1>1. x.ref \in Refs
  BY DEF TypeInv, Resolutions
<1> QED
  BY <1>1 DEF Unseen

\* Every step keeps the types.
LEMMA TypeStep == IInv /\ [Next]_vars => TypeInv'
<1> SUFFICES ASSUME IInv, [Next]_vars PROVE TypeInv'
  OBVIOUS
<1>0. TypeInv /\ Unseen /\ LinksExist
  BY DEF IInv, TypeInv
<1>1. CASE UNCHANGED vars
  BY <1>0, <1>1 DEF vars, itemVars, TypeInv, Items, LinksExist, ResolversKnow, Tasks
<1>2. ASSUME NEW x \in resolvers, Write(x) PROVE TypeInv'
  BY <1>0, <1>2, ResolverHasItem, WriteTypes
<1>3. CASE Next
  BY <1>0, <1>2, <1>3, ScanTypes, CommitTypes, ResolverTypes, ClickTypes DEF Next, Promote, Reject
<1> QED
  BY <1>1, <1>3

-----------------------------------------------------------------------------
(* Every step keeps what is known of each ref *)

\* What the rest of the invariant says of a ref.
Handled(r) ==
  /\ item[r] = None => /\ made[r] = 0 /\ refined[r] = 0
                       /\ r \notin escalated
                       /\ \A x \in resolvers : x.ref # r
  /\ r \notin raced => IF item[r] # None /\ item[r].status = "promoted"
                      THEN made[r] = 1 /\ item[r].link = TaskOf(r, 1)
                      ELSE made[r] = 0
  /\ refined[r] <= 1
  /\ r \in escalated => /\ item[r] = [status |-> "promoted", link |-> TaskOf(r, 1)]
                         /\ made[r] = 1
                         /\ \A x \in resolvers : x.ref # r

\* The invariant, ref by ref.
LEMMA HandledParts ==
  ASSUME escalated \subseteq Refs
  PROVE  Unseen /\ TasksMatchItems /\ HandledOnce <=> \A r \in Refs : Handled(r)
BY DEF Unseen, TasksMatchItems, HandledOnce, Handled

\* A ref that a step leaves alone, but for resolutions that end.
LEMMA HandledStays ==
  ASSUME NEW r \in Refs, Handled(r), item'[r] = item[r], made'[r] = made[r],
         refined'[r] = refined[r], r \in escalated' <=> r \in escalated,
         r \in raced => r \in raced',
         \A x \in resolvers' : x.ref = r => \E y \in resolvers : y.ref = r
  PROVE  Handled(r)'
BY DEF Handled

\* A scan inserts only what no other scan has and no commit has made an item.
LEMMA FreshStep == IInv /\ [Next]_vars => FreshOnce'
<1> SUFFICES ASSUME IInv, [Next]_vars PROVE FreshOnce'
  OBVIOUS
<1>0. TypeInv /\ FreshOnce /\ Unseen
  BY DEF IInv
<1>1. ASSUME NEW d \in Daemons, Fetch(d) \/ RollBack(d) \/ Stop(d) PROVE FreshOnce'
  <2>1. UNCHANGED item
    BY <1>1 DEF Fetch, RollBack, Stop, itemVars
  <2>2. /\ \A e \in Daemons \ {d} : scan'[e] = scan[e]
        /\ scan'[d] # None => scan'[d].fresh = {}
    BY <1>0, <1>1 DEF TypeInv, Fetch, RollBack, Stop
  <2> QED
    BY <1>0, <2>1, <2>2 DEF FreshOnce
<1>2. ASSUME NEW d \in Daemons, NEW r \in Refs, Insert(d, r) PROVE FreshOnce'
  <2>1. scan[d] \in Scans /\ UNCHANGED item
    BY <1>0, <1>2 DEF TypeInv, Insert, itemVars
  <2>2. \A e \in Daemons \ {d} : scan'[e] = scan[e]
    BY <1>0, <1>2 DEF TypeInv, Insert
  <2>3. \/ scan'[d].fresh = scan[d].fresh
        \/ scan'[d].fresh = scan[d].fresh \cup {r} /\ item[r] = None /\ Free(d, r)
    <3>1. /\ [scan[d] EXCEPT !.left = scan[d].left \ {r}].fresh = scan[d].fresh
          /\ [scan[d] EXCEPT !.left = scan[d].left \ {r},
                             !.fresh = scan[d].fresh \cup {r}].fresh = scan[d].fresh \cup {r}
      BY <2>1 DEF Scans
    <3>2. \/ scan' = [scan EXCEPT ![d] = [scan[d] EXCEPT !.left = scan[d].left \ {r}]]
          \/ /\ scan' = [scan EXCEPT ![d] = [scan[d] EXCEPT !.left = scan[d].left \ {r},
                                                !.fresh = scan[d].fresh \cup {r}]]
             /\ item[r] = None /\ Free(d, r)
      BY <1>2 DEF Insert
    <3> QED
      BY <1>0, <3>1, <3>2 DEF TypeInv
  <2>4. scan[d] # None
    BY <1>2 DEF Insert
  <2> QED
    BY <1>0, <2>1, <2>2, <2>3, <2>4 DEF FreshOnce, Free
<1>3. ASSUME NEW d \in Daemons, CommitScan(d) PROVE FreshOnce'
  <2>1. scan[d] # None /\ \A r \in Refs : r \notin scan[d].fresh => item'[r] = item[r]
    BY <1>3 DEF CommitScan
  <2>2. scan'[d] = None /\ \A e \in Daemons \ {d} : scan'[e] = scan[e]
    BY <1>0, <1>3 DEF TypeInv, CommitScan
  <2>3. \A e \in Daemons : scan[e] # None => scan[e].fresh \subseteq Refs
    BY <1>0 DEF TypeInv, Scans
  <2> QED
    BY <1>0, <2>1, <2>2, <2>3 DEF FreshOnce
<1>4. ASSUME NEW x \in resolvers, Ask(x) \/ Decide(x) \/ Fail(x) \/ Write(x) PROVE FreshOnce'
  <2>1. UNCHANGED scan
    BY <1>4 DEF Ask, Decide, Fail, Write, UnchangedByResolvers
  <2>2. x.ref \in Refs /\ item[x.ref] # None
    BY <1>0, ResolverHasItem
  <2>3. \A r \in Refs \ {x.ref} : item'[r] = item[r]
    BY <1>0, <1>4 DEF Ask, Decide, Fail, Write, itemVars, TypeInv, Items
  <2>4. \A e \in Daemons : scan[e] # None => scan[e].fresh \subseteq Refs
    BY <1>0 DEF TypeInv, Scans
  <2> QED
    BY <1>0, <2>1, <2>2, <2>3, <2>4 DEF FreshOnce
<1>5. ASSUME NEW r \in Refs, Click(r, "promoted") \/ Click(r, "rejected") \/ Refine(r)
      PROVE  FreshOnce'
  <2>1. UNCHANGED <<item, scan>>
    BY <1>5 DEF Click, Refine, UnchangedByResolvers, itemVars
  <2> QED
    BY <1>0, <2>1 DEF FreshOnce
<1>6. CASE UNCHANGED vars
  BY <1>0, <1>6 DEF FreshOnce, vars, itemVars
<1> QED
  BY <1>1, <1>2, <1>3, <1>4, <1>5, <1>6 DEF Next, Promote, Reject

\* What is known of each ref is kept by the scan, or the resolution, that has it.
LEMMA HandledStep == IInv /\ [Next]_vars => \A r \in Refs : Handled(r)'
<1> SUFFICES ASSUME IInv, [Next]_vars, NEW r \in Refs PROVE Handled(r)'
  OBVIOUS
<1>0. TypeInv /\ FreshOnce /\ Unseen /\ Handled(r)
  <2>1. TypeInv /\ FreshOnce /\ Unseen /\ TasksMatchItems /\ HandledOnce
    BY DEF IInv
  <2> QED
    BY <2>1, HandledParts DEF TypeInv
<1>1. ASSUME NEW d \in Daemons,
             Fetch(d) \/ (\E q \in Refs : Insert(d, q)) \/ RollBack(d) \/ Stop(d)
      PROVE  Handled(r)'
  <2>1. UNCHANGED <<item, made, refined, escalated, raced>> /\ resolvers' \subseteq resolvers
    BY <1>1 DEF Fetch, Insert, RollBack, Stop, itemVars
  <2> QED
    BY <1>0, <2>1, HandledStays
<1>2. ASSUME NEW d \in Daemons, CommitScan(d) PROVE Handled(r)'
  <2> DEFINE s == scan[d]
             urgent == s.fresh \cap s.critical
             queued == s.fresh \ s.critical
  <2>1. /\ item' = [q \in Refs |-> IF q \in s.fresh THEN Inserted(q, q \in s.critical) ELSE item[q]]
        /\ made' = [q \in Refs |-> IF q \in urgent THEN made[q] + 1 ELSE made[q]]
        /\ escalated' = escalated \cup urgent
        /\ resolvers' \subseteq resolvers \cup
             {Resolver(d, q, "waiting", {}, None, FALSE) : q \in queued}
        /\ refined' \in {refined, [q \in Refs |-> IF q \in queued THEN refined[q] + 1
                                                                  ELSE refined[q]]}
        /\ UNCHANGED raced
    BY <1>2 DEF CommitScan
  <2>2. r \in s.fresh => item[r] = None
    BY <1>0, <1>2 DEF FreshOnce, CommitScan
  <2>3. \A q \in queued : Resolver(d, q, "waiting", {}, None, FALSE).ref = q
    BY DEF Resolver
  <2>4. CASE r \notin s.fresh
    <3>1. item'[r] = item[r] /\ made'[r] = made[r] /\ refined'[r] = refined[r]
      BY <1>0, <2>1, <2>4 DEF TypeInv
    <3>2. ASSUME NEW x \in resolvers', x.ref = r PROVE \E y \in resolvers : y.ref = r
      <4>1. r \notin queued
        BY <2>4
      <4>2. CASE x \in resolvers
        BY <3>2, <4>2
      <4>3. CASE x \in {Resolver(d, q, "waiting", {}, None, FALSE) : q \in queued}
        <5>1. PICK q \in queued : x = Resolver(d, q, "waiting", {}, None, FALSE)
          BY <4>3
        <5> HIDE DEF queued
        <5>2. x.ref = q
          BY <5>1, <2>3
        <5> QED
          BY <5>2, <3>2, <4>1
      <4> QED
        BY <2>1, <4>2, <4>3
    <3> QED
      BY <1>0, <2>1, <2>4, <3>1, <3>2, HandledStays
  <2>5. CASE r \in urgent
    <3>1. item'[r] = [status |-> "promoted", link |-> TaskOf(r, 1)] /\ item[r] = None
      BY <2>1, <2>2, <2>5 DEF Inserted
    <3>2. made'[r] = 1 /\ refined'[r] = 0
      BY <1>0, <2>1, <2>2, <2>5 DEF Handled, TypeInv
    <3>3. \A x \in resolvers' : x.ref # r
      <4>1. \A x \in resolvers : x.ref # r
        BY <1>0, <2>2, <2>5 DEF Handled
      <4>2. r \notin queued
        BY <2>5
      <4> HIDE DEF queued
      <4>3. \A x \in {Resolver(d, q, "waiting", {}, None, FALSE) : q \in queued} : x.ref # r
        BY <2>3, <4>2
      <4> QED
        BY <2>1, <4>1, <4>3
    <3>4. item'[r] # None
      <4>1. TaskOf(r, 1) \in Refs \X (Nat \ {0})
        BY DEF TaskOf
      <4>2. item'[r] \in Rows
        BY <3>1, <4>1 DEF Rows, Statuses
      <4> QED
        BY <4>2, NotNull
    <3> QED
      BY <3>1, <3>2, <3>3, <3>4 DEF Handled
  <2>6. CASE r \in queued
    <3>1. item'[r] = [status |-> "new", link |-> None] /\ item[r] = None
      BY <2>1, <2>2, <2>6 DEF Inserted
    <3>2. made'[r] = 0 /\ refined'[r] <= 1 /\ r \notin escalated'
      BY <1>0, <2>1, <2>2, <2>6 DEF Handled, TypeInv
    <3>3. item'[r] \in Rows
      BY <3>1 DEF Rows, Statuses
    <3>4. item'[r] # None /\ item'[r].status = "new"
      BY <3>1, <3>3, NotNull
    <3> QED
      BY <3>2, <3>4 DEF Handled
  <2> QED
    BY <2>4, <2>5, <2>6
<1>3. ASSUME NEW x \in resolvers, Ask(x) \/ Decide(x) \/ Fail(x) PROVE Handled(r)'
  <2>1. UNCHANGED <<item, made, refined, escalated, raced>>
    BY <1>3 DEF Ask, Decide, Fail, UnchangedByResolvers, itemVars
  <2>2. x \in Resolutions
    BY <1>0 DEF TypeInv
  <2>3. \A y \in resolvers' : y \in resolvers \/ y.ref = x.ref
    <3>1. CASE Ask(x)
      <4>1. [x EXCEPT !.step = "asked", !.listed = Tasks].ref = x.ref
        BY <2>2 DEF Resolutions
      <4> QED
        BY <3>1, <4>1 DEF Ask, Becomes
    <3>2. CASE Decide(x)
      <4>1. CASE ~Unresolved(x)
        BY <3>2, <4>1 DEF Decide
      <4>2. CASE Unresolved(x)
        <5>1. PICK v \in Verdicts(x) :
                Becomes(x, [x EXCEPT !.step = "writing", !.verdict = v, !.new = IsNew(x.ref)])
          BY <3>2, <4>2 DEF Decide
        <5>2. [x EXCEPT !.step = "writing", !.verdict = v, !.new = IsNew(x.ref)].ref = x.ref
          BY <2>2 DEF Resolutions
        <5> QED
          BY <5>1, <5>2 DEF Becomes
      <4> QED
        BY <4>1, <4>2
    <3>3. CASE Fail(x)
      BY <3>3 DEF Fail
    <3> QED
      BY <1>3, <3>1, <3>2, <3>3
  <2> QED
    BY <1>0, <2>1, <2>3, HandledStays
<1>4. ASSUME NEW x \in resolvers, Write(x) PROVE Handled(r)'
  <2>1. /\ item' = [item EXCEPT ![x.ref] = ResolvedRow(x)]
        /\ made' = [made EXCEPT ![x.ref] = IF x.verdict.status = "promoted" THEN made[x.ref] + 1
                                           ELSE made[x.ref]]
        /\ raced' = IF x.new /\ ~IsNew(x.ref) THEN raced \cup {x.ref} ELSE raced
        /\ resolvers' = resolvers \ {x}
        /\ UNCHANGED <<refined, escalated>>
    BY <1>4 DEF Write, UnchangedByResolvers
  <2>2. /\ x.ref \in Refs /\ x.new = TRUE /\ x.verdict \in Rows
        /\ ResolvedRow(x).status = x.verdict.status
        /\ x.verdict.status = "promoted" => ResolvedRow(x).link = TaskOf(x.ref, made[x.ref] + 1)
    BY <1>0, <1>4, Written
  <2>3. item[x.ref] # None
    BY <1>0, ResolverHasItem
  <2>4. CASE r # x.ref
    <3>1. item'[r] = item[r] /\ made'[r] = made[r]
      BY <1>0, <2>1, <2>4 DEF TypeInv, Items
    <3>2. r \in raced => r \in raced'
      BY <2>1
    <3> QED
      BY <1>0, <2>1, <3>1, <3>2, HandledStays
  <2>5. CASE r = x.ref
    <3>1. r \notin escalated /\ refined[r] <= 1
      BY <1>0, <2>5 DEF Handled
    <3>2. item'[r] = ResolvedRow(x) /\ item'[r] # None
      <4>1. TypeInv'
        BY TypeStep
      <4>2. item'[r] = ResolvedRow(x)
        BY <1>0, <2>1, <2>5 DEF TypeInv, Items
      <4>3. ResolvedRow(x) \in [status : Statuses, link : {None} \cup (Refs \X Nat)]
        <5>1. ResolvedRow(x) = [status |-> ResolvedRow(x).status, link |-> ResolvedRow(x).link]
          BY <1>0, <1>4, Written
        <5>2. made[x.ref] + 1 \in Nat
          BY <1>0, <2>2 DEF TypeInv
        <5>3. ResolvedRow(x).link \in {None} \cup (Refs \X Nat)
          <6>1. item[x.ref] \in Rows
            BY <1>0, <2>2, <2>3 DEF TypeInv, Items
          <6>2. item[x.ref].link \in {None} \cup (Refs \X Nat)
            BY <6>1 DEF Rows
          <6>3. x.verdict.link \in {None} \cup (Refs \X Nat)
            BY <2>2 DEF Rows
          <6>4. TaskOf(x.ref, made[x.ref] + 1) \in Refs \X Nat
            BY <2>2, <5>2 DEF TaskOf
          <6> QED
            BY <6>2, <6>3, <6>4 DEF ResolvedRow
        <5>4. ResolvedRow(x).status \in Statuses
          BY <2>2 DEF Rows
        <5> QED
          BY <5>1, <5>3, <5>4
      <4> QED
        BY <4>2, <4>3, DiscoveryAssumption
    <3>3. r \notin raced' => r \notin raced /\ IsNew(r)
      BY <2>1, <2>2, <2>5
    <3>4. r \notin raced' => made[r] = 0
      BY <1>0, <3>3 DEF Handled, IsNew
    <3>5. made'[r] = IF x.verdict.status = "promoted" THEN made[r] + 1 ELSE made[r]
      BY <1>0, <2>1, <2>5 DEF TypeInv
    <3> QED
      BY <2>1, <2>2, <2>5, <3>1, <3>2, <3>4, <3>5 DEF Handled
  <2> QED
    BY <2>4, <2>5
<1>5. ASSUME NEW q \in Refs, Click(q, "promoted") \/ Click(q, "rejected") \/ Refine(q)
      PROVE  Handled(r)'
  <2>1. UNCHANGED <<item, made, refined, escalated, raced>> /\ IsNew(q)
    BY <1>5 DEF Click, Refine, UnchangedByResolvers, itemVars
  <2>2. \A y \in resolvers' : y \in resolvers \/ y.ref = q
    BY <1>5 DEF Click, Refine, Resolver
  <2>3. CASE r = q
    BY <1>0, <2>1, <2>3 DEF Handled, IsNew
  <2>4. CASE r # q
    BY <1>0, <2>1, <2>2, <2>4, HandledStays
  <2> QED
    BY <2>3, <2>4
<1>6. CASE UNCHANGED vars
  BY <1>0, <1>6, HandledStays DEF vars, itemVars
<1> QED
  BY <1>1, <1>2, <1>3, <1>4, <1>5, <1>6 DEF Next, Promote, Reject

\* The inductive invariant holds.
LEMMA Invariant == Spec => []IInv
<1>1. IInv /\ [Next]_vars => IInv'
  <2> SUFFICES ASSUME IInv, [Next]_vars PROVE IInv'
    OBVIOUS
  <2>1. TypeInv' /\ FreshOnce' /\ \A r \in Refs : Handled(r)'
    BY TypeStep, FreshStep, HandledStep
  <2>2. Unseen' /\ TasksMatchItems' /\ HandledOnce'
    BY <2>1 DEF TypeInv, Unseen, TasksMatchItems, HandledOnce, Handled
  <2> QED
    BY <2>1, <2>2 DEF IInv
<1> QED
  BY TypeInit, <1>1, PTL DEF Spec

\* The inbox, the scans and the resolutions keep their types, and a link is to a task that
\* exists (the foreign key of promoted_task_id).
THEOREM TypeCorrect == Spec => []TypeOK
<1>1. IInv => TypeOK
  BY DEF IInv, TypeInv, Items, LinksExist, TypeOK
<1> QED
  BY <1>1, Invariant, PTL

\* An item that is promoted has one task, its own, and any other has none, unless two
\* resolutions found it new (promote_item, reject_item, duplicate_item).
THEOREM TasksMatch == Spec => []TasksMatchItems
<1>1. IInv => TasksMatchItems
  BY DEF IInv
<1> QED
  BY <1>1, Invariant, PTL

\* However many daemons scan the same sources, an item is refined automatically once at
\* most, and an escalated one is left alone (INSERT ... ON CONFLICT of _insert_candidates).
THEOREM ItemsHandledOnce == Spec => []HandledOnce
<1>1. IInv => HandledOnce
  BY DEF IInv
<1> QED
  BY <1>1, Invariant, PTL

\* A resolved item stays as it is, however late an agent answers, unless two resolutions
\* found it new (the checks at the head of promote_item, reject_item and duplicate_item).
THEOREM ResolvedItemsStay == Spec => ResolvedStays
<1>1. ASSUME IInv, [Next]_vars, NEW r \in Refs, item[r] # None, ~IsNew(r)
      PROVE  item'[r] = item[r] \/ r \in raced'
  <2>0. TypeInv /\ FreshOnce /\ Unseen
    BY <1>1 DEF IInv
  <2>1. ASSUME NEW d \in Daemons, CommitScan(d) PROVE item'[r] = item[r]
    <3>1. r \notin scan[d].fresh
      BY <1>1, <2>0, <2>1 DEF FreshOnce, CommitScan
    <3> QED
      BY <2>1, <3>1 DEF CommitScan
  <2>2. ASSUME NEW x \in resolvers, Write(x) PROVE item'[r] = item[r] \/ r \in raced'
    <3>1. x.new = TRUE
      BY <2>0, <2>2, Written
    <3> QED
      BY <1>1, <2>0, <2>2, <3>1 DEF Write, TypeInv, Items
  <2>3. ASSUME ~\E d \in Daemons : CommitScan(d), ~\E x \in resolvers : Write(x)
        PROVE  UNCHANGED item
    BY <1>1, <2>3 DEF Next, Promote, Reject, Fetch, RollBack, Stop, Insert, Ask, Decide, Fail,
       Click, Refine,
       itemVars, vars
  <2> QED
    BY <2>1, <2>2, <2>3
<1>2. IInv /\ [Next]_vars
        => [\A r \in Refs :
              (item[r] # None /\ ~IsNew(r)) => (item'[r] = item[r] \/ r \in raced')]_vars
  BY <1>1
<1> QED
  BY <1>2, Invariant, PTL DEF Spec, ResolvedStays
===============================================================================
