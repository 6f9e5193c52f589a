---------------------------- MODULE MCPostgresAdd ---------------------------
EXTENDS PostgresAdd, TLC

CONSTANTS h1, h2, h3, h4, A, B, k1, k2, u1, one, two

\* h4 is a thread of another process than the others.
MCProcessOf == [h \in Handlers |-> IF h = h4 THEN B ELSE A]
MCUserOf == [key \in Keys |-> u1]
MCMessageCount == [p \in Payloads |-> IF p = one THEN 1 ELSE 2]
MCSingle == [p \in Payloads |-> 1]

\* The two threads of process A are interchangeable, and so are the two keys,
\* which belong to one user.
ThreadSymmetry == Permutations({h1, h2}) \cup Permutations(Keys)

\* No step of a handler depends on known, outcome or acked, nor does its fairness.
Progress ==
    <<db, pc, req, finite, freeSlots, connections, keyHolder, userHolder, next>>
=============================================================================
