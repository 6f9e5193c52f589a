--------------------------- MODULE MCWindowPacking ---------------------------
EXTENDS WindowPacking, TLC

\* Three turns of one session and a turn of another.
MCRows == 1 .. 4

\* The store has the session as it is shown; or its first two turns the other way
\* round; or the turn that is shown first behind the other two.
MCStoreOrders ==
    {1 :> 1 @@ 2 :> 2 @@ 3 :> 3 @@ 4 :> 5,
     1 :> 2 @@ 2 :> 1 @@ 3 :> 3 @@ 4 :> 5,
     1 :> 3 @@ 2 :> 1 @@ 3 :> 2 @@ 4 :> 5}

\* A short line, one that is mostly CJK, and one that is over the budget alone.
MCLines == {[cjk |-> 0, other |-> 3], [cjk |-> 2, other |-> 1], [cjk |-> 3, other |-> 14]}
=============================================================================
