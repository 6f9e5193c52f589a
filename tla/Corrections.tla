----------------------------- MODULE Corrections -----------------------------
(***************************************************************************)
(* What it means that rows are corrected, if through other rows: the words *)
(* in which Supersession and SearchPath say what a search may drop.  pairs *)
(* is a set of <<newer, older>>.                                           *)
(***************************************************************************)

\* With a row, all of rows that correct it.
IsClosed(group, rows, pairs) ==
    \A newer \in rows, row \in group : <<newer, row>> \in pairs => newer \in group

\* A row, what corrects it, what corrects that, and so on.
Correctors(row, rows, pairs) ==
    {newer \in rows :
        \A group \in SUBSET rows :
            row \in group /\ IsClosed(group, rows, pairs) => newer \in group}

\* Corrections do not go round in a circle: of any rows one is corrected by none.
IsAcyclic(rows, pairs) ==
    \A group \in SUBSET rows : group # {} =>
        \E last \in group : \A newer \in group : <<newer, last>> \notin pairs
=============================================================================
