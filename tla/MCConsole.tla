------------------------------ MODULE MCConsole ------------------------------
\* A role of two fields, saved together, and a secret setting.  The modal,
\* the approvals and each of the forms share no variable but the bound on
\* clicks, so a behaviour of the tab interleaves one of each: a run picks one
\* at the start and explores it with all the clicks.
EXTENDS Console, Functions

VARIABLE part

MCPanels == {{"prompt", "limit"}, {"token"}}
MCSettingPanels == {{"token"}}

\* A usage line, a streamed message and a text of the assistant, and a heartbeat.
MCKinds == {{"details"}, {"log"}, {"details", "log"}, {}}

MCInit == Init /\ part \in {{"modal"}, {"approvals"}} \cup Panels

\* Of the forms only p is used: the others are not even loaded.
OnlyForm(p) ==
    /\ \A f \in Fields \ p : stored'[f] = stored[f] /\ form'[f] = form[f]
    /\ \A l \in loads' : l.panel = p \/ l.row = None

\* A save back to the old value takes four clicks: edit, save, edit, save.
MCNext ==
    /\ UNCHANGED part
    /\ \/ part = {"modal"} /\ ModalNext /\ clicks' < MaxClicks
       \/ part = {"approvals"} /\ BlockNext /\ clicks' < MaxClicks
       \/ part \in Panels /\ FormNext /\ OnlyForm(part)

MCSpec == MCInit /\ [][MCNext]_<<vars, part>>

\* Bounds: events recorded for the instances together; saves and lists that
\* are pending at once, and click handlers of a panel.
FewEvents == FoldFunction(LAMBDA s, n : Len(s) + n, 0, recorded) <= 2
FewRequests ==
    /\ Cardinality(patches) <= 2 /\ Cardinality(loads) <= 3
    /\ \A p \in Panels : listeners[p] <= 2

=============================================================================
