---------------------------- MODULE WindowPacking ----------------------------
(***************************************************************************)
(* How a search packs its evidence into the token budget: pack_windows of  *)
(* app/pack.py, called with the windows of radius 1 that _windows makes.   *)
(*                                                                         *)
(* Rows are numbered by source order, the order in which a window shows    *)
(* its rows; which rows it has is decided by the order of the store, and   *)
(* the two need not agree (module SessionWindows).  A line is its number   *)
(* of CJK characters and of other characters, which is all that            *)
(* estimate_tokens looks at.                                               *)
(***************************************************************************)
EXTENDS Naturals, FiniteSets, Sequences, SequencesExt, Functions

CONSTANTS
    Rows,        \* the rows of the user, as their places in source order
    StoreOrders, \* where they may fall in the store; a gap is a change of session
    Lines,       \* what a row may render to
    MaxTokens,   \* AML_MAX_OUTPUT_TOKENS
    MaxItems     \* min(top_k, AML_MAX_OUTPUT_ITEMS)

Text == [cjk : Nat, other : Nat]

\* Every line opens with its "[id | role]" header, which is not CJK.
ASSUME PackingAssumption ==
    /\ Rows \subseteq Nat
    /\ StoreOrders \subseteq Injection(Rows, Nat)
    /\ Lines \subseteq {line \in Text : line.other > 0}
    /\ MaxTokens \in Nat \ {0}
    /\ MaxItems \in Nat \ {0}

VARIABLES
    stored,     \* where the rows are in the store
    rendered,   \* the line of each row
    ranked,     \* the anchors, best first: no row is an anchor twice
    at,         \* "windows", "rows" or "done": the loop the call is in
    index,      \* the anchor the outer loop is at
    pending,    \* the set of the rows of its window still to come
    text,       \* lines, joined
    ids,
    output,
    seen,
    used

vars == <<stored, rendered, ranked, at, index, pending, text, ids, output, seen, used>>
call == <<stored, rendered, ranked>>

Blank == [cjk |-> 0, other |-> 0]

EstimateTokens(value) == value.cjk + (value.other + 3) \div 4

\* One more line, after a newline unless it is the first.
Joined(value, line, first) ==
    [cjk   |-> value.cjk + line.cjk,
     other |-> value.other + line.other + (IF first THEN 0 ELSE 1)]

\* The beginnings of a line, its header's first character at least.
Beginnings(line) == [cjk : 0 .. line.cjk, other : 1 .. line.other]

\* Mutant: the three characters of the mark are not reserved.
HasRoomBare(prefix, budget) == prefix.cjk + (prefix.other + 3) \div 4 <= budget

\* The prefix and "..." are within the budget.
HasRoom(prefix, budget) == prefix.cjk + (prefix.other + 6) \div 4 <= budget

\* How far truncate_line's loop gets before the character that leaves no room:
\* it depends on where in the line its CJK characters are.
Longest(line, budget) ==
    {prefix \in Beginnings(line) :
        /\ HasRoom(prefix, budget)
        /\ \/ /\ prefix.cjk < line.cjk
              /\ ~ HasRoom([prefix EXCEPT !.cjk = @ + 1], budget)
           \/ /\ prefix.other < line.other
              /\ ~ HasRoom([prefix EXCEPT !.other = @ + 1], budget)}

\* truncate_line of a line over the budget: trailing blanks go before the mark.
Truncated(line, budget) ==
    {[cjk |-> cut.cjk, other |-> cut.other + 3] : cut \in
        {cut \in Beginnings(line) : \E prefix \in Longest(line, budget) :
            cut.cjk = prefix.cjk /\ cut.other <= prefix.other}}

Anchor == ranked[index]

\* The rows that are stored next to one in its session, and that one.
Context(row) ==
    {near \in Rows : stored[near] <= stored[row] + 1 /\ stored[row] <= stored[near] + 1}

\* The row the inner loop is at: it takes those of a window in source order.
Row == CHOOSE row \in pending : \A later \in pending : row <= later

\* Mutant: the lines the window already has are not counted.
FitsAlone(line) == used + EstimateTokens(line) <= MaxTokens

Fits(line) == used + EstimateTokens(Joined(text, line, ids = <<>>)) <= MaxTokens

Init ==
    /\ stored \in StoreOrders
    /\ rendered \in [Rows -> Lines]
    /\ ranked \in {s \in SeqOf(Rows, MaxItems) : IsInjective(s)}
    /\ at = "windows"
    /\ index = 1
    /\ pending = {}
    /\ text = Blank
    /\ ids = <<>>
    /\ output = <<>>
    /\ seen = {}
    /\ used = 0

-----------------------------------------------------------------------------
OpenWindow ==
    /\ at = "windows"
    /\ index <= Len(ranked)
    /\ Len(output) < MaxItems
    /\ at' = "rows"
    /\ pending' = Context(Anchor)
    /\ text' = Blank
    /\ ids' = <<>>
    /\ UNCHANGED <<call, index, output, seen, used>>

SkipSeen ==
    /\ at = "rows"
    /\ pending # {}
    /\ Row \in seen
    /\ pending' = pending \ {Row}
    /\ UNCHANGED <<call, at, index, text, ids, output, seen, used>>

TakeRow ==
    /\ at = "rows"
    /\ pending # {}
    /\ Row \notin seen
    /\ Fits(rendered[Row])
    /\ text' = Joined(text, rendered[Row], ids = <<>>)
    /\ ids' = Append(ids, Row)
    /\ pending' = pending \ {Row}
    /\ UNCHANGED <<call, at, index, output, seen, used>>

\* Mutant: a first row over the budget is dropped, as a later one is.
CutFirstRowNever ==
    /\ at = "rows"
    /\ pending # {}
    /\ Row \notin seen
    /\ ~ Fits(rendered[Row])
    /\ ids = <<>>
    /\ pending' = {}
    /\ UNCHANGED <<call, at, index, text, ids, output, seen, used>>

\* The first new row of a window is cut to what is left of the budget, and left
\* out when nothing is; a later one ends the window.
CutFirstRow ==
    /\ at = "rows"
    /\ pending # {}
    /\ Row \notin seen
    /\ ~ Fits(rendered[Row])
    /\ ids = <<>>
    /\ IF used < MaxTokens
       THEN /\ text' \in Truncated(rendered[Row], MaxTokens - used)
            /\ ids' = <<Row>>
       ELSE UNCHANGED <<text, ids>>
    /\ pending' = {}
    /\ UNCHANGED <<call, at, index, output, seen, used>>

StopAtRow ==
    /\ at = "rows"
    /\ pending # {}
    /\ Row \notin seen
    /\ ~ Fits(rendered[Row])
    /\ ids # <<>>
    /\ pending' = {}
    /\ UNCHANGED <<call, at, index, text, ids, output, seen, used>>

\* Mutant: a window is named for its anchor whether it shows it or not.
SourceAlwaysAnchor == Anchor

\* The anchor may be missing: shown by an earlier window, or cut off.
Source == IF Anchor \in ToSet(ids) THEN Anchor ELSE ids[1]

\* Every row of the window is not shown again.
Shown == ToSet(ids)

CloseWindow ==
    /\ at = "rows"
    /\ pending = {}
    /\ at' = "windows"
    /\ index' = index + 1
    /\ IF ids = <<>>
       THEN UNCHANGED <<output, seen, used>>
       ELSE /\ output' = Append(output, [source |-> Source, content |-> text, source_ids |-> ids])
            /\ seen' = seen \cup Shown
            /\ used' = used + EstimateTokens(text)
    /\ UNCHANGED <<call, pending, text, ids>>

Return ==
    /\ at = "windows"
    /\ index > Len(ranked) \/ Len(output) >= MaxItems
    /\ at' = "done"
    /\ UNCHANGED <<call, index, pending, text, ids, output, seen, used>>

Next ==
    \/ OpenWindow
    \/ SkipSeen
    \/ TakeRow
    \/ CutFirstRow
    \/ StopAtRow
    \/ CloseWindow
    \/ Return

Spec == Init /\ [][Next]_vars

-----------------------------------------------------------------------------
Window == [source : Rows, content : Text, source_ids : Seq(Rows)]

\* The values a call of pack_windows goes through.
TypeOK ==
    /\ stored \in Injection(Rows, Nat)
    /\ rendered \in [Rows -> Lines]
    /\ ranked \in Seq(Rows)
    /\ at \in {"windows", "rows", "done"}
    /\ index \in 1 .. Len(ranked) + 1
    /\ pending \subseteq Rows
    /\ text \in Text
    /\ ids \in Seq(Rows)
    /\ output \in Seq(Window)
    /\ seen \subseteq Rows
    /\ used \in 0 .. MaxTokens

\* What a response costs.
TokensOf(packed) == SumFunction([i \in DOMAIN packed |-> EstimateTokens(packed[i].content)])

\* The evidence of a response never costs more than the budget, truncation marks
\* and newlines included, however its lines mix scripts (pack.py 31-45, 66-80).
WithinBudget == TokensOf(output) <= MaxTokens

\* No row is shown by two windows, and each window is named for a row it shows
\* (pack.py 64-65, 81-83).
SourcesAreShownOnce ==
    /\ \A i \in DOMAIN output : output[i].source \in ToSet(output[i].source_ids)
    /\ \A i, j \in DOMAIN output :
        i # j => ToSet(output[i].source_ids) \cap ToSet(output[j].source_ids) = {}

\* A ranked row is missing from the response only when the budget is spent to the
\* last token, or when a row that its window shows before it is in the response
\* instead, whichever order the store cut the window from; in particular a search
\* with matches never packs an empty response (pack.py 68-74, service.py 417-444).
AnchorsLoseOnlyToNeighbours ==
    at = "done" =>
        \A i \in DOMAIN ranked :
            \/ ranked[i] \in seen
            \/ used = MaxTokens
            \/ \E row \in Context(ranked[i]) : row < ranked[i] /\ row \in seen

\* "A single oversized source is truncated within budget rather than dropped":
\* the one match of a search, itself over the budget, is in the response
\* (pack.py 68-74).
OversizedSourceIsKept ==
    at = "done" /\ Len(ranked) = 1 /\ EstimateTokens(rendered[ranked[1]]) > MaxTokens =>
        ranked[1] \in seen
=============================================================================
