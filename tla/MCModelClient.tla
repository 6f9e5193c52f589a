--------------------------- MODULE MCModelClient ----------------------------
EXTENDS ModelClient, TLC

\* An empty text; two of wide and narrow characters that are cut, one of which begins
\* with a quotation mark, four bytes in JSON inside JSON; and one of two control
\* characters, seven bytes each, which is too large by itself.
MCTexts ==
    {[size |-> 0, frame |-> 1, escaped |-> 0 :> 0],
     [size |-> 4, frame |-> 1, escaped |-> 0 :> 0 @@ 2 :> 3 @@ 3 :> 4 @@ 4 :> 5],
     [size |-> 5, frame |-> 2, escaped |-> 0 :> 0 @@ 1 :> 4 @@ 3 :> 7 @@ 5 :> 10],
     [size |-> 2, frame |-> 2, escaped |-> 0 :> 0 @@ 1 :> 7 @@ 2 :> 14]}

\* The limits scaled down: a piece is 2 or 3 bytes instead of 2048 or 4096, a request
\* 3 items instead of 16 or 10 and 15 or 5 bytes instead of 32768 or 8000.
MCLimits ==
    [annotate |-> [piece |-> 2, items |-> 3, bytes |-> 15],
     embed |-> [piece |-> 3, items |-> 3, bytes |-> 5]]

\* The envelope grows with the number of fragments, and not by the same for each.
MCEnvelope == 0 :> 3 @@ 1 :> 3 @@ 2 :> 4 @@ 3 :> 6
=============================================================================
