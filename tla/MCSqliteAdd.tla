---------------------------- MODULE MCSqliteAdd -----------------------------
EXTENDS SqliteAdd, TLC

CONSTANTS h1, h2, h3, A, B, k1, k2, u1, one, two

\* h1 and h2 are threads of one process; any other handler is a process's own.
MCProcessOf == [h \in Handlers |-> IF h \in {h1, h2} THEN A ELSE B]
MCUserOf == [key \in Keys |-> u1]
MCMessageCount == [p \in Payloads |-> IF p = one THEN 1 ELSE 2]

\* The two threads of process A are interchangeable, and so are the two keys,
\* which belong to one user.
ThreadSymmetry == Permutations({h1, h2}) \cup Permutations(Keys)
=============================================================================
