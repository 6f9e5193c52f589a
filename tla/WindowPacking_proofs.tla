------------------------ MODULE WindowPacking_proofs ------------------------
(***************************************************************************)
(* What pack_windows returns, for any rows, lines, anchors and budget.     *)
(***************************************************************************)
EXTENDS WindowPacking, OrderLemmas, SequenceTheorems

\* The rows a window shows up to and with its anchor.
UpTo(row) == {shown \in Context(row) : shown <= row}

\* The rows of the window being packed are new, and within the budget; until one of
\* those up to its anchor is shown, the anchor is still to come.
OpenInv ==
    at = "rows" =>
        /\ index <= Len(ranked)
        /\ Len(output) < MaxItems
        /\ ToSet(ids) \cap seen = {}
        /\ ids # <<>> => used + EstimateTokens(text) <= MaxTokens
        /\ \/ UpTo(Anchor) \cap (seen \cup ToSet(ids)) # {}
           \/ used = MaxTokens
           \/ ids = <<>> /\ Anchor \in pending /\ pending \subseteq Context(Anchor)

\* Every window packed is accounted for in seen.
OutputInv ==
    /\ Len(output) < index
    /\ \A i \in DOMAIN output :
        /\ output[i].source \in ToSet(output[i].source_ids)
        /\ ToSet(output[i].source_ids) \subseteq seen
    /\ \A i, j \in DOMAIN output :
        i # j => ToSet(output[i].source_ids) \cap ToSet(output[j].source_ids) = {}

\* What became of the anchor at i.
Settled(i) ==
    \/ UpTo(ranked[i]) \cap seen # {}
    \/ used = MaxTokens

RankedInv ==
    /\ Len(ranked) <= MaxItems
    /\ \A i \in DOMAIN ranked : i < index => Settled(i)
    /\ at = "done" => index > Len(ranked)

\* used is what the windows packed so far cost.
UsedInv == used = TokensOf(output)

IInv ==
    /\ TypeOK
    /\ UsedInv
    /\ OpenInv
    /\ OutputInv
    /\ RankedInv

-----------------------------------------------------------------------------
(***************************************************************************)
(* Lines and windows                                                       *)
(***************************************************************************)
\* estimate_tokens is a count.
LEMMA TokensAreNat == \A t \in Text : EstimateTokens(t) \in Nat
BY DEF Text, EstimateTokens

\* Lines join to text.
LEMMA JoinedIsText ==
    \A t, line \in Text, first \in BOOLEAN : Joined(t, line, first) \in Text
BY DEF Text, Joined

\* truncate_line keeps a line within the budget it is given, mark included.
LEMMA TruncatedFits ==
    ASSUME NEW line \in Text, NEW budget \in Nat, NEW t \in Truncated(line, budget)
    PROVE  t \in Text /\ EstimateTokens(t) <= budget
<1>1. PICK cut \in Beginnings(line), prefix \in Longest(line, budget) :
        /\ t = [cjk |-> cut.cjk, other |-> cut.other + 3]
        /\ cut.cjk = prefix.cjk
        /\ cut.other <= prefix.other
  BY DEF Truncated
<1>2. /\ cut.cjk \in Nat /\ cut.other \in Nat
      /\ prefix.cjk \in Nat /\ prefix.other \in Nat
  BY DEF Beginnings, Longest, Text
<1>3. prefix.cjk + (prefix.other + 6) \div 4 <= budget
  BY DEF Longest, HasRoom
<1>4. t.cjk = cut.cjk /\ t.other = cut.other + 3
  BY <1>1
<1>5. EstimateTokens(t) = cut.cjk + (cut.other + 6) \div 4
  BY <1>2, <1>4 DEF EstimateTokens
<1>6. (cut.other + 6) \div 4 <= (prefix.other + 6) \div 4
  BY <1>1, <1>2
<1>7. EstimateTokens(t) <= budget
  <2>1. cut.cjk = prefix.cjk
    BY <1>1
  <2>2. (cut.other + 6) \div 4 \in Int /\ (prefix.other + 6) \div 4 \in Int
    BY <1>2
  <2> QED BY <1>2, <1>3, <1>5, <1>6, <2>1, <2>2
<1> QED BY <1>1, <1>2, <1>7 DEF Text

\* The first of the rows still to come, and its line.
LEMMA RowIsFirst ==
    ASSUME TypeOK, pending # {}
    PROVE  /\ Row \in pending
           /\ Row \in Rows
           /\ \A later \in pending : Row <= later
           /\ rendered[Row] \in Text
<1>1. Lines \subseteq Text /\ pending \in SUBSET Nat
  BY PackingAssumption DEF TypeOK
<1>2. \E row \in pending : \A later \in pending : row <= later
  BY <1>1, LeastNatural
<1>3. Row \in pending /\ \A later \in pending : Row <= later
  BY <1>2 DEF Row
<1> QED BY <1>1, <1>3 DEF TypeOK

\* A window has its anchor.
LEMMA ContextHasAnchor ==
    ASSUME TypeOK, NEW row \in Rows
    PROVE  row \in UpTo(row) /\ row \in Context(row) /\ Context(row) \subseteq Rows
<1>1. stored[row] \in Nat
  BY DEF TypeOK, Injection
<1>2. row <= row
  BY PackingAssumption
<1> QED BY <1>1, <1>2 DEF Context, UpTo

\* While the anchor is still to come, so is no row after it: the row at hand is one
\* of those up to the anchor.
LEMMA RowIsUpToAnchor ==
    ASSUME TypeOK, Anchor \in Rows, Anchor \in pending, pending \subseteq Context(Anchor)
    PROVE  Row \in UpTo(Anchor)
BY RowIsFirst DEF UpTo

\* The rows of a window and one more.
LEMMA AppendedRows ==
    ASSUME NEW s \in Seq(Rows), NEW row \in Rows
    PROVE  ToSet(Append(s, row)) = ToSet(s) \cup {row}
<1>1. DOMAIN s = 1 .. Len(s) /\ Len(s) \in Nat
  OBVIOUS
<1>2. DOMAIN Append(s, row) = 1 .. Len(s) + 1
  OBVIOUS
<1>3. \A i \in 1 .. Len(s) : Append(s, row)[i] = s[i]
  OBVIOUS
<1>4. Append(s, row)[Len(s) + 1] = row
  OBVIOUS
<1>5. ToSet(Append(s, row)) \subseteq ToSet(s) \cup {row}
  BY <1>1, <1>2, <1>3, <1>4 DEF ToSet
<1>6. ToSet(s) \cup {row} \subseteq ToSet(Append(s, row))
  BY <1>1, <1>2, <1>3, <1>4 DEF ToSet
<1> QED BY <1>5, <1>6

\* A window that shows something.
LEMMA FirstRowIsShown ==
    ASSUME NEW s \in Seq(Rows), s # <<>>
    PROVE  s[1] \in ToSet(s)
BY DEF ToSet

\* Packing nothing costs nothing,
LEMMA NoTokens == TokensOf(<<>>) = 0
BY SumOfNone DEF TokensOf

\* and one more window costs what its content does.
LEMMA OneMoreWindow ==
    ASSUME NEW packed \in Seq(Window), NEW w \in Window
    PROVE  TokensOf(Append(packed, w)) = TokensOf(packed) + EstimateTokens(w.content)
<1> DEFINE n == Len(packed)
           more == Append(packed, w)
           before == [i \in DOMAIN packed |-> EstimateTokens(packed[i].content)]
           after == [i \in DOMAIN more |-> EstimateTokens(more[i].content)]
<1>1. n \in Nat /\ DOMAIN packed = 1 .. n /\ DOMAIN more = 1 .. n + 1
  OBVIOUS
<1>2. /\ more[n + 1] = w
      /\ \A i \in 1 .. n : more[i] = packed[i] /\ packed[i] \in Window
  OBVIOUS
<1>3. EstimateTokens(w.content) \in Nat
  BY TokensAreNat DEF Window
<1> HIDE DEF n, more
<1>4. /\ DOMAIN before = 1 .. n /\ DOMAIN after = 1 .. n + 1
      /\ after[n + 1] = EstimateTokens(w.content)
  BY <1>1, <1>2
<1>5. \A i \in 1 .. n : before[i] \in Nat /\ after[i] = before[i]
  BY <1>1, <1>2, TokensAreNat DEF Window
<1>6. TokensOf(packed) = SumFunction(before) /\ TokensOf(more) = SumFunction(after)
  BY DEF TokensOf
<1> HIDE DEF before, after
<1>7. SumFunction(after) = SumFunction(before) + after[n + 1]
  BY <1>1, <1>3, <1>4, <1>5, SumOfOneMore
<1> QED BY <1>4, <1>6, <1>7 DEF more

-----------------------------------------------------------------------------
(***************************************************************************)
(* The steps of a call                                                     *)
(***************************************************************************)
LEMMA InitIInv == Init => IInv
<1> SUFFICES ASSUME Init PROVE IInv
  OBVIOUS
<1> USE DEF Init
<1>1. PICK m \in 0 .. MaxItems : ranked \in [1 .. m -> Rows]
  BY PackingAssumption DEF SeqOf
<1>2. ranked \in Seq(Rows) /\ Len(ranked) = m
  BY <1>1
<1>3. TypeOK
  BY <1>2, PackingAssumption DEF TypeOK, Blank, Text
<1>4. RankedInv
  BY <1>1, <1>2, PackingAssumption DEF RankedInv
<1>5. OutputInv
  BY DEF OutputInv
<1>6. OpenInv
  BY DEF OpenInv
<1>7. UsedInv
  BY NoTokens DEF UsedInv
<1> QED BY <1>3, <1>4, <1>5, <1>6, <1>7 DEF IInv

\* What a window costs is counted when it is packed.
LEMMA StepUsedInv == IInv /\ [Next]_vars => UsedInv'
<1> SUFFICES ASSUME IInv, [Next]_vars PROVE UsedInv'
  OBVIOUS
<1>1. CASE CloseWindow /\ ids # <<>>
  <2> DEFINE w == [source |-> Source, content |-> text, source_ids |-> ids]
  <2>1. output' = Append(output, w) /\ used' = used + EstimateTokens(text)
    BY <1>1 DEF CloseWindow
  <2>2. output \in Seq(Window) /\ ids \in Seq(Rows) /\ text \in Text
    BY DEF IInv, TypeOK
  <2>3. Anchor \in Rows /\ ids[1] \in Rows
    BY <1>1, <2>2 DEF CloseWindow, IInv, TypeOK, OpenInv, Anchor
  <2>4. w \in Window /\ w.content = text
    BY <2>2, <2>3 DEF Window, Source
  <2> HIDE DEF w
  <2>5. TokensOf(output') = TokensOf(output) + EstimateTokens(text)
    BY <2>1, <2>2, <2>4, OneMoreWindow
  <2> QED BY <2>1, <2>5 DEF IInv, UsedInv
<1>2. CASE ~ (CloseWindow /\ ids # <<>>)
  <2>1. UNCHANGED <<output, used>>
    BY <1>2 DEF Next, OpenWindow, SkipSeen, TakeRow, CutFirstRow, StopAtRow, CloseWindow,
                Return, vars
  <2>2. TokensOf(output)' = TokensOf(output)
    BY <2>1 DEF TokensOf
  <2> QED BY <2>1, <2>2 DEF IInv, UsedInv
<1> QED BY <1>1, <1>2

\* Every step of a call keeps the inductive invariant.
LEMMA StepIInv == IInv /\ [Next]_vars => IInv'
<1> SUFFICES ASSUME IInv, [Next]_vars PROVE TypeOK' /\ OpenInv' /\ OutputInv' /\ RankedInv'
  BY StepUsedInv DEF IInv
<1> USE DEF IInv
<1> USE PackingAssumption
<1>0. /\ Len(ranked) \in Nat
      /\ DOMAIN ranked = 1 .. Len(ranked)
      /\ index \in Nat \ {0}
      /\ index <= Len(ranked) => Anchor \in Rows
      /\ MaxTokens \in Nat
  BY DEF TypeOK, Anchor
<1>A. ASSUME UNCHANGED stored
      PROVE  \A row : UpTo(row)' = UpTo(row) /\ Context(row)' = Context(row)
  BY <1>A DEF UpTo, Context
<1>B. ASSUME UNCHANGED <<call, index, output, seen, used>>, at # "done", at' # "done"
      PROVE  OutputInv' /\ RankedInv'
  BY <1>A, <1>B DEF OutputInv, RankedInv, Settled, call
<1>1. CASE OpenWindow
  <2> USE <1>1 DEF OpenWindow, call
  <2>1. Anchor \in Rows /\ Anchor' = Anchor
    BY <1>0 DEF Anchor
  <2>2. Anchor \in Context(Anchor) /\ Context(Anchor) \subseteq Rows
    BY <2>1, ContextHasAnchor
  <2>3. TypeOK'
    <3>1. text' \in Text /\ ids' \in Seq(Rows) /\ pending' \subseteq Rows
      BY <2>2 DEF Blank, Text
    <3> QED BY <3>1 DEF TypeOK
  <2>4. ToSet(ids') = {}
    BY DEF ToSet
  <2>5. OpenInv'
    BY <1>A, <2>1, <2>2, <2>4 DEF OpenInv
  <2> QED BY <1>B, <2>3, <2>5
<1>2. CASE SkipSeen
  <2> USE <1>2 DEF SkipSeen, call
  <2>1. TypeOK'
    BY DEF TypeOK
  <2>2. Anchor \in Rows /\ Anchor' = Anchor
    BY <1>0 DEF Anchor, OpenInv
  <2>3. ASSUME Anchor \in pending, pending \subseteq Context(Anchor)
        PROVE  Row \in UpTo(Anchor) \cap seen
    BY <2>2, <2>3, RowIsUpToAnchor
  <2>4. OpenInv'
    BY <1>A, <2>2, <2>3 DEF OpenInv
  <2> QED BY <1>B, <2>1, <2>4
<1>3. CASE TakeRow
  <2> USE <1>3 DEF TakeRow, call
  <2>1. Row \in Rows /\ rendered[Row] \in Text
    BY RowIsFirst
  <2>2. text' \in Text
    BY <2>1, JoinedIsText DEF TypeOK
  <2>3. TypeOK'
    BY <2>1, <2>2 DEF TypeOK
  <2>4. Anchor \in Rows /\ Anchor' = Anchor
    BY <1>0 DEF Anchor, OpenInv
  <2>5. ToSet(ids') = ToSet(ids) \cup {Row}
    <3>1. ids \in Seq(Rows) /\ ids' = Append(ids, Row)
      BY DEF TypeOK
    <3> QED BY <2>1, <3>1, AppendedRows, Zenon
  <2>6. used' + EstimateTokens(text') <= MaxTokens
    BY DEF Fits
  <2>7. ASSUME Anchor \in pending, pending \subseteq Context(Anchor)
        PROVE  Row \in UpTo(Anchor)
    BY <2>4, <2>7, RowIsUpToAnchor
  <2>8. OpenInv'
    BY <1>A, <2>4, <2>5, <2>6, <2>7 DEF OpenInv
  <2> QED BY <1>B, <2>3, <2>8
<1>4. CASE CutFirstRow
  <2> USE <1>4 DEF CutFirstRow, call
  <2>1. Row \in Rows /\ rendered[Row] \in Text
    BY RowIsFirst
  <2>2. Anchor \in Rows /\ Anchor' = Anchor
    BY <1>0 DEF Anchor, OpenInv
  <2>3. CASE used < MaxTokens
    <3>1. /\ text' \in Truncated(rendered[Row], MaxTokens - used)
          /\ ids' = <<Row>>
          /\ MaxTokens - used \in Nat
      BY <2>3 DEF TypeOK
    <3>2. text' \in Text /\ EstimateTokens(text') <= MaxTokens - used
      BY <2>1, <3>1, TruncatedFits
    <3>3. TypeOK'
      BY <2>1, <3>1, <3>2 DEF TypeOK
    <3>4. ToSet(ids') = {Row} /\ ToSet(ids) = {}
      BY <3>1 DEF ToSet
    <3>5. ASSUME Anchor \in pending, pending \subseteq Context(Anchor)
          PROVE  Row \in UpTo(Anchor)
      BY <2>2, <3>5, RowIsUpToAnchor
    <3>6. used' + EstimateTokens(text') <= MaxTokens
      BY <3>2, TokensAreNat DEF TypeOK
    <3>7. OpenInv'
      BY <1>A, <2>2, <3>1, <3>4, <3>5, <3>6 DEF OpenInv
    <3> QED BY <1>B, <3>3, <3>7
  <2>4. CASE ~ used < MaxTokens
    <3>1. used = MaxTokens /\ UNCHANGED <<text, ids>>
      BY <2>4 DEF TypeOK
    <3>2. TypeOK'
      BY <3>1 DEF TypeOK
    <3>3. OpenInv'
      BY <2>2, <3>1 DEF OpenInv
    <3> QED BY <1>B, <3>2, <3>3
  <2> QED BY <2>3, <2>4
<1>5. CASE StopAtRow
  <2> USE <1>5 DEF StopAtRow, call
  <2>1. TypeOK'
    BY DEF TypeOK
  <2>2. Anchor' = Anchor
    BY DEF Anchor
  <2>3. OpenInv'
    BY <1>A, <2>2 DEF OpenInv
  <2> QED BY <1>B, <2>1, <2>3
<1>6. CASE CloseWindow
  <2> USE <1>6 DEF CloseWindow, call
  <2>1. Anchor \in Rows /\ index <= Len(ranked)
    BY <1>0 DEF OpenInv
  <2>2. \A row : UpTo(row)' = UpTo(row)
    BY <1>A
  <2>3. UpTo(Anchor) \cap (seen \cup ToSet(ids)) # {} \/ used = MaxTokens
    BY DEF OpenInv
  <2>4. OpenInv'
    BY DEF OpenInv
  <2>5. CASE ids = <<>>
    <3>1. TypeOK'
      <4>1. UNCHANGED <<stored, rendered, ranked, pending, text, ids, output, seen, used>>
        BY <2>5
      <4>2. at' \in {"windows", "rows", "done"}
        OBVIOUS
      <4>3. index' \in 1 .. Len(ranked) + 1
        BY <1>0, <2>1
      <4> QED BY <4>1, <4>2, <4>3 DEF TypeOK
    <3>2. ToSet(ids) = {}
      BY <2>5 DEF ToSet
    <3>3. Settled(index)
      BY <2>3, <3>2 DEF Settled, Anchor
    <3>4. RankedInv'
      BY <1>0, <2>2, <2>5, <3>3 DEF RankedInv, Settled
    <3>5. OutputInv'
      <4>1. UNCHANGED <<output, seen>> /\ index' = index + 1
        BY <2>5
      <4>2. Len(output) \in Nat
        BY DEF TypeOK
      <4>3. Len(output) < index'
        BY <1>0, <4>1, <4>2 DEF OutputInv
      <4> QED BY <4>1, <4>3 DEF OutputInv
    <3> QED BY <2>4, <3>1, <3>4, <3>5
  <2>6. CASE ids # <<>>
    <3> DEFINE w == [source |-> Source, content |-> text, source_ids |-> ids]
    <3>1. /\ output' = Append(output, w)
          /\ seen' = seen \cup ToSet(ids)
          /\ used' = used + EstimateTokens(text)
      BY <2>6 DEF Shown
    <3>2. ids[1] \in ToSet(ids) /\ Source \in ToSet(ids)
      BY <2>6, FirstRowIsShown DEF TypeOK, Source
    <3>3. ToSet(ids) \subseteq Rows
      BY DEF TypeOK, ToSet
    <3>4. w \in Window
      BY <3>2, <3>3 DEF TypeOK, Window
    <3>5. EstimateTokens(text) \in Nat /\ used + EstimateTokens(text) <= MaxTokens
      BY <2>6, TokensAreNat DEF OpenInv, TypeOK
    <3>6. used' \in 0 .. MaxTokens
      BY <3>1, <3>5 DEF TypeOK
    <3>7. /\ Len(output) \in Nat
          /\ DOMAIN output = 1 .. Len(output)
          /\ Len(output') = Len(output) + 1
          /\ DOMAIN output' = 1 .. Len(output) + 1
          /\ \A i \in 1 .. Len(output) : output'[i] = output[i]
          /\ output'[Len(output) + 1] = w
      BY <3>1, <3>4 DEF TypeOK
    <3>8. w.source = Source /\ w.source_ids = ids
      OBVIOUS
    <3>9. TypeOK'
      <4>1. output' \in Seq(Window)
        BY <3>1, <3>4 DEF TypeOK
      <4>2. seen' \subseteq Rows
        BY <3>1, <3>3 DEF TypeOK
      <4> QED BY <1>0, <2>1, <3>6, <4>1, <4>2 DEF TypeOK
    <3> HIDE DEF w
    <3>10. OutputInv'
      <4>1. Len(output') < index'
        BY <1>0, <3>7 DEF OutputInv
      <4>2. ASSUME NEW i \in DOMAIN output'
            PROVE  /\ output'[i].source \in ToSet(output'[i].source_ids)
                   /\ ToSet(output'[i].source_ids) \subseteq seen'
        <5>1. CASE i \in 1 .. Len(output)
          BY <3>1, <3>7, <5>1 DEF OutputInv
        <5>2. CASE i = Len(output) + 1
          BY <3>1, <3>2, <3>7, <3>8, <5>2
        <5> QED BY <3>7, <5>1, <5>2
      <4>3. ASSUME NEW i \in DOMAIN output', NEW j \in DOMAIN output', i # j
            PROVE  ToSet(output'[i].source_ids) \cap ToSet(output'[j].source_ids) = {}
        <5>1. ToSet(ids) \cap seen = {}
          BY DEF OpenInv
        <5>2. CASE i \in 1 .. Len(output) /\ j \in 1 .. Len(output)
          BY <3>7, <4>3, <5>2 DEF OutputInv
        <5>3. CASE i = Len(output) + 1 /\ j \in 1 .. Len(output)
          BY <3>7, <3>8, <5>1, <5>3 DEF OutputInv
        <5>4. CASE j = Len(output) + 1 /\ i \in 1 .. Len(output)
          BY <3>7, <3>8, <5>1, <5>4 DEF OutputInv
        <5> QED BY <3>7, <4>3, <5>2, <5>3, <5>4
      <4> QED BY <4>1, <4>2, <4>3 DEF OutputInv
    <3>11. ASSUME used = MaxTokens
           PROVE  used' = MaxTokens
      BY <3>1, <3>5, <3>11
    <3>12. RankedInv'
      <4>1. ASSUME NEW i \in DOMAIN ranked', i < index'
            PROVE  Settled(i)'
        <5>1. CASE i < index
          BY <2>2, <3>1, <3>11, <5>1 DEF RankedInv, Settled
        <5>2. CASE i = index
          BY <2>2, <2>3, <3>1, <3>11, <5>2 DEF Settled, Anchor
        <5> QED BY <1>0, <4>1, <5>1, <5>2
      <4> QED BY <4>1 DEF RankedInv
    <3> QED BY <2>4, <3>9, <3>10, <3>12
  <2> QED BY <2>5, <2>6
<1>7. CASE Return
  <2> USE <1>7 DEF Return, call
  <2>1. TypeOK'
    BY DEF TypeOK
  <2>2. Len(output) \in Nat
    BY DEF TypeOK
  <2>3. index > Len(ranked)
    BY <1>0, <2>2 DEF OutputInv, RankedInv
  <2>4. OpenInv' /\ OutputInv' /\ RankedInv'
    BY <1>A, <2>3 DEF OpenInv, OutputInv, RankedInv, Settled
  <2> QED BY <2>1, <2>4
<1>8. CASE UNCHANGED vars
  <2> USE <1>8 DEF vars
  <2>1. TypeOK'
    BY DEF TypeOK
  <2>2. Anchor' = Anchor
    BY DEF Anchor
  <2>3. OpenInv'
    BY <1>A, <2>2 DEF OpenInv
  <2>4. OutputInv'
    BY DEF OutputInv
  <2>5. RankedInv'
    BY <1>A DEF RankedInv, Settled
  <2> QED BY <2>1, <2>3, <2>4, <2>5
<1> QED BY <1>1, <1>2, <1>3, <1>4, <1>5, <1>6, <1>7, <1>8 DEF Next

\* The inductive invariant holds throughout a call.
THEOREM SpecIInv == Spec => []IInv
BY InitIInv, StepIInv, PTL DEF Spec

-----------------------------------------------------------------------------
\* The values of a call keep their types: what it has used never passes the
\* budget, whatever lines are joined or cut (pack.py 48-84).
THEOREM TypeCorrect == Spec => []TypeOK
BY SpecIInv, PTL DEF IInv

\* The evidence of a response never costs more than the budget, for any corpus,
\* lines, budget and ranking (pack.py 31-45, 66-80).
THEOREM ResponseWithinBudget == Spec => []WithinBudget
<1>1. IInv => WithinBudget
  BY PackingAssumption DEF IInv, TypeOK, UsedInv, WithinBudget
<1> QED BY SpecIInv, <1>1, PTL

\* No row is shown by two windows and each window is named for a row it shows,
\* for any corpus, budget and ranking (pack.py 64-65, 81-83).
THEOREM ShownOnce == Spec => []SourcesAreShownOnce
<1>1. IInv => SourcesAreShownOnce
  BY DEF IInv, OutputInv, SourcesAreShownOnce
<1> QED BY SpecIInv, <1>1, PTL

\* A match is left out only when the budget is spent or a row that its window shows
\* before it is in the response, for any corpus, order of the store, budget and
\* ranking (pack.py 68-74, service.py 417-444).
THEOREM AnchorsAreKept == Spec => []AnchorsLoseOnlyToNeighbours
<1>1. IInv => AnchorsLoseOnlyToNeighbours
  <2> SUFFICES ASSUME IInv, at = "done", NEW i \in DOMAIN ranked
               PROVE  \/ ranked[i] \in seen
                      \/ used = MaxTokens
                      \/ \E row \in Context(ranked[i]) : row < ranked[i] /\ row \in seen
    BY DEF AnchorsLoseOnlyToNeighbours
  <2>1. i < index
    BY DEF IInv, RankedInv, TypeOK
  <2>2. Settled(i)
    BY <2>1 DEF IInv, RankedInv
  <2>3. ranked[i] \in Rows /\ Context(ranked[i]) \subseteq Rows
    BY DEF IInv, TypeOK, Context
  <2>4. ASSUME NEW row \in UpTo(ranked[i]) \cap seen, row # ranked[i]
        PROVE  row \in Context(ranked[i]) /\ row < ranked[i] /\ row \in seen
    <3>1. row \in Context(ranked[i]) /\ row <= ranked[i] /\ row \in seen
      BY DEF UpTo
    <3>2. row \in Nat /\ ranked[i] \in Nat
      BY <2>3, <3>1, PackingAssumption
    <3> QED BY <2>4, <3>1, <3>2
  <2>5. CASE UpTo(ranked[i]) \cap seen # {}
    BY <2>4, <2>5
  <2> QED BY <2>2, <2>5 DEF Settled
<1> QED BY SpecIInv, <1>1, PTL

=============================================================================
