--------------------------- MODULE MCSupersession ---------------------------
\* Three requests that add to one session; the first two name the same chunk,
\* the third an earlier one.
EXTENDS SessionWindows, TLC

CONSTANTS a, b, c

MCSessionOf == [r \in Requests |-> 1]

MCChunkOf == a :> 1 @@ b :> 1 @@ c :> 0

\* In string order the hash ids are as good as random.
MCIdRank ==
    <<a, 0>> :> 5 @@ <<a, 1>> :> 0 @@ <<b, 0>> :> 2 @@ <<b, 1>> :> 4 @@ <<c, 0>> :> 1 @@ <<c, 1>> :> 3
=============================================================================
