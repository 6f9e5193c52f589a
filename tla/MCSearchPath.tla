---------------------------- MODULE MCSearchPath ----------------------------
EXTENDS SearchPath, TLC

CONSTANTS s1, s2, A, old, fix, note, other, u1, u2, plain, day

\* A session of u1: a fact, a note the plain query does not match, and the fact's
\* correction, added with the note or by itself; u2 has a row of its own.  The
\* day query names the day of the fact.
MCUserOf == [row \in Rows |-> IF row = other THEN u2 ELSE u1]
MCSessionOf == [row \in Rows |-> "session"]
MCRequests == {{old}, {fix, note} \cap Rows, {other} \cap Rows}
MCPlace == [row \in Rows |-> CASE row = old -> 1 [] row = note -> 2 [] OTHER -> 3]
MCMatches == [query \in Queries |-> IF query = plain THEN {old, fix, other} \cap Rows ELSE {}]
MCSimilar == [query \in Queries |-> Rows]
MCStrong == [query \in Queries |-> {note} \cap Rows]
MCOverlapping == [query \in Queries |-> {old, fix} \cap Rows]
MCDated == [query \in Queries |-> IF query = day THEN {old} ELSE {}]
MCPlans ==
    [query \in Queries |->
        {[extra |-> {}, intent |-> "none"],
         [extra |-> {note} \cap Rows, intent |-> "latest"],
         [extra |-> {}, intent |-> "earliest"],
         [extra |-> {}, intent |-> "recently"]}]
MCCorrects == {<<fix, old>>} \cap (Rows \X Rows)
MCProcessOf == [s \in Searchers |-> A]

SearcherSymmetry == Permutations(Searchers)
=============================================================================
