------------------------------ MODULE MCBacklog ------------------------------
\* Two callers, a board with two columns for finished work, one of which
\* cannot go back to the first column.
EXTENDS Backlog, TLC

MCColumns == {"To Do", "Done", "Closed"}
MCStatusOf == [col \in MCColumns |-> IF col = "To Do" THEN "todo" ELSE "done"]
MCOffered == [col \in MCColumns |->
    IF col = "To Do" THEN {"Done", "Closed"}
    ELSE IF col = "Done" THEN {"Closed"} ELSE {"To Do", "Done"}]

Symmetry == Permutations(Callers)

=============================================================================
