----------------------- MODULE SessionWindows_proofs ------------------------
(***************************************************************************)
(* The rows of a user: what _is_later, the stores and the display make of  *)
(* their order, for any chunk numbers, sessions, ids and clock.            *)
(*                                                                         *)
(* With timestamps on every message of a user or on none, "later" is a     *)
(* strict order on the user's rows, over both stores, whatever the clock   *)
(* and the order of the commits (MCSupersessionMixed shows that a mixture  *)
(* breaks it); so what a search drops, it drops for a row it shows.        *)
(*                                                                         *)
(* The orders of the stores, of the display and of _is_later agree within  *)
(* a request, and a window hides a row between the ones it shows only      *)
(* where the two orders it is cut by and shown in must differ.             *)
(***************************************************************************)
EXTENDS SessionWindows, OrderLemmas

-----------------------------------------------------------------------------
(***************************************************************************)
(* Supersession: which of two rows is later, and what is dropped           *)
(***************************************************************************)
\* The rows of a request share created_at and are numbered in order, by SQLite
\* from 1 up; Postgres does not number them.
Numbered(x, y) ==
    x.request = y.request =>
        /\ x.created = y.created
        /\ store = "sqlite" => (x.ordinal < y.ordinal <=> x.row_id < y.row_id)

IInv ==
    /\ IsFiniteSet(rows)
    /\ \A row \in rows :
        /\ row \in MemoryRows
        /\ row.occurred \in Timestamps
        /\ IF store = "sqlite" THEN row.row_id > 0 ELSE row.row_id = 0
    /\ \A x, y \in rows : Numbered(x, y)

\* The row an Add makes of its i-th message.
NewRow(request, created, stamps, i) ==
    [request |-> request, ordinal |-> i, occurred |-> stamps[i], created |-> created,
     row_id |-> RowId(i)]

\* An Add numbers its rows past all others.
LEMMA AddPreserves ==
    ASSUME IInv, NEW request \in Requests, NEW created \in Clock, NEW n \in Messages,
           Add(request, created, n)
    PROVE  IInv'
<1>1. PICK stamps \in [0 .. n - 1 -> Timestamps] :
        rows' = rows \cup {NewRow(request, created, stamps, i) : i \in 0 .. n - 1}
  BY DEF Add, NewRow
<1>2. /\ n \in Nat /\ created \in Nat /\ Cardinality(rows) \in Nat
      /\ \A row \in rows : row.request # request
      /\ store' = store
  BY SupersessionAssumption, FS_CardinalityType DEF IInv, Add
<1> DEFINE new == {NewRow(request, created, stamps, i) : i \in 0 .. n - 1}
<1>3. IsFiniteSet(rows')
  <2>1. IsFiniteSet(0 .. n - 1)
    BY <1>2, FS_Interval
  <2>2. IsFiniteSet(new)
    <3> DEFINE f == [i \in 0 .. n - 1 |-> NewRow(request, created, stamps, i)]
    <3>1. f \in Surjection(0 .. n - 1, new)
      BY DEF Surjection
    <3> QED BY <2>1, <3>1, FS_Surjection
  <2> QED BY <1>1, <2>2, FS_Union DEF IInv
<1>4. ASSUME NEW i \in 0 .. n - 1
      PROVE  LET row == NewRow(request, created, stamps, i)
             IN  /\ row \in MemoryRows
                 /\ row.occurred \in Timestamps
                 /\ IF store = "sqlite" THEN row.row_id > 0 ELSE row.row_id = 0
                 /\ row.request = request /\ row.created = created /\ row.ordinal = i
                 /\ store = "sqlite" => row.row_id = Cardinality(rows) + i + 1
  <2>1. i \in Nat
    BY <1>2
  <2>2. stamps[i] \in Timestamps
    BY <1>1
  <2>3. stamps[i] \in Nat \cup {None}
    BY <2>2, SupersessionAssumption
  <2> QED BY <1>2, <2>1, <2>2, <2>3 DEF NewRow, MemoryRows, RowId
<1>5. ASSUME NEW row \in rows'
      PROVE  /\ row \in MemoryRows
             /\ row.occurred \in Timestamps
             /\ IF store = "sqlite" THEN row.row_id > 0 ELSE row.row_id = 0
  BY <1>1, <1>4 DEF IInv
<1>6. ASSUME NEW x \in rows', NEW y \in rows' PROVE Numbered(x, y)
  <2>1. CASE x \in rows /\ y \in rows
    BY <2>1 DEF IInv
  <2>2. CASE x \in rows /\ y \in new
    BY <2>2, <1>2, <1>4 DEF Numbered
  <2>3. CASE x \in new /\ y \in rows
    BY <2>3, <1>2, <1>4 DEF Numbered
  <2>4. CASE x \in new /\ y \in new
    <3>1. PICK i \in 0 .. n - 1 : x = NewRow(request, created, stamps, i)
      BY <2>4
    <3>2. PICK j \in 0 .. n - 1 : y = NewRow(request, created, stamps, j)
      BY <2>4
    <3>3. /\ x.created = created /\ x.ordinal = i
          /\ store = "sqlite" => x.row_id = Cardinality(rows) + i + 1
      BY <3>1, <1>4
    <3>4. /\ y.created = created /\ y.ordinal = j
          /\ store = "sqlite" => y.row_id = Cardinality(rows) + j + 1
      BY <3>2, <1>4
    <3> QED BY <3>3, <3>4, <1>2 DEF Numbered
  <2> QED BY <2>1, <2>2, <2>3, <2>4, <1>1
<1>7. \A x, y : Numbered(x, y)' = Numbered(x, y)
  BY <1>2 DEF Numbered
<1> QED BY <1>2, <1>3, <1>5, <1>6, <1>7 DEF IInv

\* Between rows nothing else tells apart, it is the numbering that decides.
Tied(x, y) == x.occurred = y.occurred /\ x.created = y.created

\* With timestamps everywhere or nowhere, _is_later is a lexicographic order.
LEMMA LaterByCases ==
    ASSUME IInv, Homogeneous, NEW x \in rows, NEW y \in rows
    PROVE  /\ x.occurred # y.occurred =>
                /\ x.occurred \in Nat /\ y.occurred \in Nat
                /\ IsLater(x, y) <=> x.occurred > y.occurred
           /\ x.occurred = y.occurred /\ x.created # y.created =>
                (IsLater(x, y) <=> x.created > y.created)
           /\ Tied(x, y) /\ store = "sqlite" => (IsLater(x, y) <=> x.row_id > y.row_id)
           /\ Tied(x, y) /\ store # "sqlite" =>
                (IsLater(x, y) <=> x.request = y.request /\ x.ordinal > y.ordinal)
<1>1. /\ x \in MemoryRows /\ y \in MemoryRows
      /\ x.occurred \in Timestamps /\ y.occurred \in Timestamps
      /\ Numbered(x, y) /\ Numbered(y, x)
      /\ IF store = "sqlite" THEN x.row_id > 0 /\ y.row_id > 0 ELSE x.row_id = 0 /\ y.row_id = 0
  BY DEF IInv
<1>2. /\ x.created \in Nat /\ x.ordinal \in Nat /\ x.row_id \in Nat
      /\ y.created \in Nat /\ y.ordinal \in Nat /\ y.row_id \in Nat
  BY <1>1 DEF MemoryRows
<1>3. x.occurred # y.occurred => x.occurred \in Nat /\ y.occurred \in Nat
  BY <1>1, SupersessionAssumption DEF Homogeneous
<1>4. x.occurred # y.occurred => (IsLater(x, y) <=> x.occurred > y.occurred)
  BY <1>3, SupersessionAssumption DEF IsLater
<1>5. x.occurred = y.occurred /\ x.created # y.created =>
        (IsLater(x, y) <=> x.created > y.created)
  BY DEF IsLater
<1>6. ASSUME Tied(x, y), store = "sqlite" PROVE IsLater(x, y) <=> x.row_id > y.row_id
  <2>1. IsLater(x, y) <=> IF x.request = y.request /\ x.ordinal # y.ordinal
                          THEN x.ordinal > y.ordinal ELSE x.row_id > y.row_id
    BY <1>1, <1>2, <1>6 DEF IsLater, Tied
  <2> QED BY <2>1, <1>1, <1>2, <1>6 DEF Numbered
<1>7. ASSUME Tied(x, y), store # "sqlite"
      PROVE  IsLater(x, y) <=> x.request = y.request /\ x.ordinal > y.ordinal
  BY <1>1, <1>2, <1>7 DEF IsLater, Tied
<1> QED BY <1>3, <1>4, <1>5, <1>6, <1>7

\* Distinct rows differ in what that order compares.
LEMMA InvIsAnOrder == IInv /\ Homogeneous => LaterIsAnOrder
<1> SUFFICES ASSUME IInv, Homogeneous, NEW a \in rows, NEW b \in rows, NEW c \in rows,
                    IsLater(a, b)
             PROVE  /\ ~ IsLater(b, a)
                    /\ IsLater(b, c) => IsLater(a, c)
  BY DEF LaterIsAnOrder
<1>1. \A x \in {a, b, c} : x.created \in Nat /\ x.ordinal \in Nat /\ x.row_id \in Nat
  BY DEF IInv, MemoryRows
<1>2. ~ IsLater(b, a)
  <2>1. CASE a.occurred # b.occurred
    BY <2>1, LaterByCases
  <2>2. CASE a.occurred = b.occurred /\ a.created # b.created
    BY <2>2, <1>1, LaterByCases
  <2>3. CASE Tied(a, b)
    <3>1. Tied(b, a)
      BY <2>3 DEF Tied
    <3> QED BY <2>3, <3>1, <1>1, LaterByCases
  <2> QED BY <2>1, <2>2, <2>3 DEF Tied
<1>3. ASSUME IsLater(b, c) PROVE IsLater(a, c)
  <2>1. CASE a.occurred # b.occurred \/ b.occurred # c.occurred
    <3>1. a.occurred # b.occurred => a.occurred > b.occurred
      BY LaterByCases
    <3>2. b.occurred # c.occurred => b.occurred > c.occurred
      BY <1>3, LaterByCases
    <3>3. a.occurred \in Nat /\ b.occurred \in Nat /\ c.occurred \in Nat
      BY <2>1, LaterByCases
    <3>4. a.occurred > c.occurred
      BY <2>1, <3>1, <3>2, <3>3
    <3> QED BY <3>3, <3>4, LaterByCases
  <2>2. CASE /\ a.occurred = b.occurred /\ b.occurred = c.occurred
             /\ a.created # b.created \/ b.created # c.created
    <3>1. a.created # b.created => a.created > b.created
      BY <2>2, LaterByCases
    <3>2. b.created # c.created => b.created > c.created
      BY <2>2, <1>3, LaterByCases
    <3>3. a.created > c.created
      BY <2>2, <3>1, <3>2, <1>1
    <3> QED BY <2>2, <3>3, <1>1, LaterByCases
  <2>3. CASE Tied(a, b) /\ Tied(b, c)
    <3>1. Tied(a, c)
      BY <2>3 DEF Tied
    <3>2. CASE store = "sqlite"
      <4>1. a.row_id > b.row_id /\ b.row_id > c.row_id
        BY <2>3, <3>2, <1>3, LaterByCases
      <4>2. a.row_id > c.row_id
        BY <4>1, <1>1
      <4> QED BY <3>1, <3>2, <4>2, LaterByCases
    <3>3. CASE store # "sqlite"
      <4>1. /\ a.request = b.request /\ a.ordinal > b.ordinal
            /\ b.request = c.request /\ b.ordinal > c.ordinal
        BY <2>3, <3>3, <1>3, LaterByCases
      <4>2. a.request = c.request /\ a.ordinal > c.ordinal
        BY <4>1, <1>1
      <4> QED BY <3>1, <3>3, <4>2, LaterByCases
    <3> QED BY <3>2, <3>3
  <2> QED BY <2>1, <2>2, <2>3 DEF Tied
<1> QED BY <1>2, <1>3

\* Row numbers stay unique, whatever is added.
LEMMA SpecIInv == Spec => []IInv
<1>1. Init => IInv
  BY FS_EmptySet DEF Init, IInv
<1>2. IInv /\ [Next]_vars => IInv'
  <2> SUFFICES ASSUME IInv, [Next]_vars PROVE IInv'
    OBVIOUS
  <2>1. ASSUME NEW request \in Requests, NEW created \in Clock, NEW n \in Messages,
               Add(request, created, n)
        PROVE  IInv'
    BY <2>1, AddPreserves
  <2>2. CASE Search \/ UNCHANGED vars
    <3>1. rows' = rows /\ store' = store
      BY <2>2 DEF Search, vars
    <3> QED BY <3>1 DEF IInv, Numbered
  <2> QED BY <2>1, <2>2 DEF Next
<1> QED BY <1>1, <1>2, PTL DEF Spec

\* With timestamps on all rows or on none, of two rows one is later at most, and
\* "later" does not go round in a circle (service.py 338-348).
THEOREM LaterOrdersRows == Spec => []LaterIsAnOrder
<1>1. IInv => LaterIsAnOrder
  BY InvIsAnOrder DEF LaterIsAnOrder
<1> QED BY <1>1, SpecIInv, PTL
\* What a search acted on, and what it made of it.
SearchInv ==
    corrects # {} =>
        /\ corrects \subseteq {pair \in rows \X rows : IsLater(pair[1], pair[2])}
        /\ kept = Suppressed(rows, corrects)

\* An Add forgets the last search; a search sees the rows there are.
LEMMA SpecSearchInv == Spec => []SearchInv
<1>1. Init => SearchInv
  BY DEF Init, SearchInv
<1>2. SearchInv /\ [Next]_vars => SearchInv'
  <2> SUFFICES ASSUME SearchInv, [Next]_vars PROVE SearchInv'
    OBVIOUS
  <2>1. ASSUME NEW request \in Requests, NEW created \in Clock, NEW n \in Messages,
               Add(request, created, n)
        PROVE  SearchInv'
    BY <2>1 DEF Add, SearchInv
  <2>2. CASE Search
    BY <2>2 DEF Search, SearchInv, Suppressed
  <2>3. CASE UNCHANGED vars
    BY <2>3 DEF vars, SearchInv, Suppressed
  <2> QED BY <2>1, <2>2, <2>3 DEF Next
<1> QED BY <1>1, <1>2, PTL DEF Spec

\* Corrections follow "later", so they do not go round.
LEMMA InvIsAcyclic == IInv /\ SearchInv /\ Homogeneous => IsAcyclic(rows, corrects)
<1> SUFFICES ASSUME IInv, SearchInv, Homogeneous PROVE IsAcyclic(rows, corrects)
  OBVIOUS
<1> DEFINE Later == {pair \in rows \X rows : IsLater(pair[1], pair[2])}
<1>1. \A x, y \in rows : <<x, y>> \in Later <=> IsLater(x, y)
  OBVIOUS
<1>2. corrects \in SUBSET Later
  BY DEF SearchInv
<1> HIDE DEF Later
<1>3. /\ \A x \in rows : <<x, x>> \notin Later
      /\ \A x, y, z \in rows : <<x, y>> \in Later /\ <<y, z>> \in Later => <<x, z>> \in Later
  BY <1>1, InvIsAnOrder DEF LaterIsAnOrder
<1>4. IsFiniteSet(rows)
  BY DEF IInv
<1> QED BY <1>2, <1>3, <1>4, StrictOrderIsAcyclic

\* The last of the rows that correct a row is kept.
LEMMA InvKeepsCorrectors ==
    ASSUME IInv, SearchInv, Homogeneous, corrects # {}, NEW row \in rows
    PROVE  kept \cap Correctors(row, rows, corrects) # {}
<1>1. Correctors(row, rows, corrects) \subseteq rows
  BY DEF Correctors
<1>2. IsAcyclic(Correctors(row, rows, corrects), corrects)
  BY <1>1, InvIsAcyclic DEF IsAcyclic
<1>3. PICK last \in Correctors(row, rows, corrects) :
        \A newer \in rows : <<newer, last>> \notin corrects
  BY <1>2, LastCorrector
<1>4. last \in kept
  BY <1>1, <1>3 DEF SearchInv, Suppressed
<1> QED BY <1>3, <1>4

\* A row is dropped only for a row that is shown and corrects it, if through rows that
\* are dropped too (service.py 285-335).
THEOREM DroppedAreCorrected == Spec => []DroppedRowsAreCorrected
<1>1. IInv /\ SearchInv => DroppedRowsAreCorrected
  BY InvKeepsCorrectors DEF DroppedRowsAreCorrected
<1> QED BY <1>1, SpecIInv, SpecSearchInv, PTL

\* With timestamps on all rows or on none, a search never drops every candidate, and
\* the corrections it acts on do not go round in a circle: what SearchPath assumes of
\* its corpus (service.py 285-348).
THEOREM SearchableIfHomogeneous ==
    Spec => [](Homogeneous => CorrectionsStaySearchable /\ IsAcyclic(rows, corrects))
<1>1. ASSUME IInv, SearchInv, Homogeneous PROVE CorrectionsStaySearchable
  <2> SUFFICES ASSUME corrects # {} PROVE kept # {}
    BY DEF CorrectionsStaySearchable
  <2>1. PICK pair \in corrects : pair \in rows \X rows
    BY <1>1 DEF SearchInv
  <2>2. pair[1] \in rows
    BY <2>1
  <2> QED BY <1>1, <2>2, InvKeepsCorrectors
<1>2. IInv /\ SearchInv =>
        (Homogeneous => CorrectionsStaySearchable /\ IsAcyclic(rows, corrects))
  BY <1>1, InvIsAcyclic
<1> QED BY <1>2, SpecIInv, SpecSearchInv, PTL

-----------------------------------------------------------------------------
(***************************************************************************)
(* Session windows                                                         *)
(***************************************************************************)
\* IInv, with what gives every row an id of its own.
WindowInv ==
    /\ IInv
    /\ \A row \in rows : row.ordinal \in Ordinals

LEMMA SpecWindowInv == Spec => []WindowInv
<1> DEFINE Numbers == \A row \in rows : row.ordinal \in Ordinals
<1>1. Init => Numbers
  BY DEF Init
<1>2. Numbers /\ [Next]_vars => Numbers'
  <2> SUFFICES ASSUME Numbers, [Next]_vars PROVE Numbers'
    OBVIOUS
  <2>1. ASSUME NEW request \in Requests, NEW created \in Clock, NEW n \in Messages,
               Add(request, created, n)
        PROVE  Numbers'
    <3>1. \A i \in 0 .. n - 1 : i \in Ordinals
      BY <2>1 DEF Ordinals
    <3> QED BY <2>1, <3>1 DEF Add
  <2>2. CASE Search \/ UNCHANGED vars
    BY <2>2 DEF Search, vars
  <2> QED BY <2>1, <2>2 DEF Next
<1>3. Spec => []Numbers
  BY <1>1, <1>2, PTL DEF Spec
<1> QED BY <1>3, SpecIInv, PTL DEF WindowInv

\* What the orders compare are numbers.
LEMMA KeyTypes ==
    ASSUME WindowInv, NEW row \in rows
    PROVE  /\ Chunk(row) \in Nat /\ Stamp(row) \in Nat /\ Id(row) \in Nat
           /\ row.ordinal \in Nat /\ row.created \in Nat /\ row.row_id \in Nat
<1>1. row \in MemoryRows /\ row.ordinal \in Ordinals
  BY DEF WindowInv, IInv
<1>2. Chunk(row) \in Nat /\ Stamp(row) \in Nat
  BY <1>1, WindowAssumption, SupersessionAssumption DEF MemoryRows, Chunk, Stamp
<1>3. <<row.request, row.ordinal>> \in Requests \X Ordinals
  BY <1>1 DEF MemoryRows
<1>4. IdRank \in [Requests \X Ordinals -> Nat]
  BY WindowAssumption DEF Injection
<1>5. Id(row) \in Nat
  BY <1>3, <1>4 DEF Id
<1> QED BY <1>1, <1>2, <1>5 DEF MemoryRows

LEMMA StoredBeforeIsTransitive ==
    ASSUME WindowInv, NEW x \in rows, NEW y \in rows, NEW z \in rows,
           StoredBefore(x, y), StoredBefore(y, z)
    PROVE  StoredBefore(x, z)
<1>1. \A row \in {x, y, z} :
        /\ Chunk(row) \in Nat /\ Stamp(row) \in Nat /\ Id(row) \in Nat
        /\ row.ordinal \in Nat /\ row.created \in Nat /\ row.row_id \in Nat
  BY KeyTypes
<1>2. CASE store = "sqlite"
  BY <1>1, <1>2 DEF StoredBefore, SqliteBefore
<1>3. CASE store # "sqlite"
  BY <1>1, <1>3 DEF StoredBefore, PostgresBefore
<1> QED BY <1>2, <1>3

\* Within a request it is the ordinal that decides, where timestamps do not.
LEMMA InvOrdersAgree == WindowInv => OrdersAgreeWithinARequest
<1> SUFFICES ASSUME WindowInv, NEW x \in rows, NEW y \in rows, x.request = y.request,
                    x.occurred = None <=> y.occurred = None
             PROVE  /\ IsLater(y, x) <=> ShownBefore(x, y)
                    /\ IsLater(y, x) <=> StoredBefore(x, y)
  BY DEF OrdersAgreeWithinARequest
<1>1. \A row \in {x, y} :
        /\ Chunk(row) \in Nat /\ Stamp(row) \in Nat /\ Id(row) \in Nat
        /\ row.ordinal \in Nat /\ row.created \in Nat /\ row.row_id \in Nat
  BY KeyTypes
<1>2. /\ Numbered(x, y) /\ Numbered(y, x)
      /\ IF store = "sqlite" THEN x.row_id > 0 /\ y.row_id > 0 ELSE x.row_id = 0 /\ y.row_id = 0
  BY DEF WindowInv, IInv
<1>3. Chunk(x) = Chunk(y) /\ x.created = y.created
  BY <1>2 DEF Chunk, Numbered
<1>4. x.ordinal = y.ordinal => Id(x) = Id(y)
  BY DEF Id
<1>5. CASE x.occurred = None \/ x.occurred = y.occurred
  <2>1. Stamp(x) = Stamp(y)
    BY <1>5 DEF Stamp
  <2>2. IsLater(y, x) <=> y.ordinal > x.ordinal
    BY <1>1, <1>2, <1>3, <1>5 DEF IsLater, Numbered
  <2>3. StoredBefore(x, y) <=> x.ordinal < y.ordinal
    BY <1>1, <1>2, <1>3, <1>4, <2>1 DEF StoredBefore, SqliteBefore, PostgresBefore, Numbered
  <2>4. ShownBefore(x, y) <=> x.ordinal < y.ordinal
    BY <1>1, <1>2, <1>3, <2>1, <2>3 DEF ShownBefore, Numbered
  <2> QED BY <1>1, <2>2, <2>3, <2>4
<1>6. CASE x.occurred # None /\ x.occurred # y.occurred
  <2>1. Stamp(x) = x.occurred /\ Stamp(y) = y.occurred
    BY <1>6 DEF Stamp
  <2> QED
    BY <1>1, <1>3, <1>6, <2>1 DEF IsLater, StoredBefore, SqliteBefore, PostgresBefore, ShownBefore
<1> QED BY <1>5, <1>6

\* Two rows that the display and the store put in different orders.
LEMMA OrdersDiffer ==
    ASSUME WindowInv, NEW x \in rows, NEW y \in rows, ShownBefore(x, y), ~ StoredBefore(x, y)
    PROVE  IF store = "sqlite" THEN Chunk(x) < Chunk(y)
           ELSE x.created # y.created /\ Chunk(x) = Chunk(y) /\ Stamp(x) = Stamp(y)
<1>1. store # "sqlite" => x.row_id = y.row_id
  BY DEF WindowInv, IInv
<1>2. CASE store = "sqlite"
  BY <1>2 DEF ShownBefore, StoredBefore, SqliteBefore
<1>3. CASE store # "sqlite"
  BY <1>1, <1>3 DEF ShownBefore, StoredBefore, PostgresBefore
<1> QED BY <1>2, <1>3

\* A hidden row comes before all the store's window or after it.
LEMMA InvWindowsHide == WindowInv => WindowsHideOnlyOtherRequests
<1> SUFFICES ASSUME WindowInv, NEW seed \in rows,
                    NEW x \in Window(seed), NEW y \in Window(seed),
                    NEW hidden \in SessionRows(seed) \ Window(seed),
                    ShownBefore(x, hidden), ShownBefore(hidden, y)
             PROVE  IF store = "sqlite" THEN Chunk(x) # Chunk(y)
                    ELSE \E row \in {x, y} :
                            /\ row.created # hidden.created
                            /\ Chunk(row) = Chunk(hidden)
                            /\ Stamp(row) = Stamp(hidden)
  BY DEF WindowsHideOnlyOtherRequests
<1>1. x \in rows /\ y \in rows /\ hidden \in rows /\ hidden \in SessionRows(seed)
  BY DEF Window, SessionRows
<1>2. PICK between \in SessionRows(seed) :
        \/ StoredBefore(hidden, between) /\ StoredBefore(between, seed)
        \/ StoredBefore(seed, between) /\ StoredBefore(between, hidden)
  BY DEF Window
<1>3. between \in rows
  BY DEF SessionRows
<1>4. StoredBefore(hidden, seed) \/ StoredBefore(seed, hidden)
  BY <1>1, <1>2, <1>3, StoredBeforeIsTransitive
<1>5. \/ ~ StoredBefore(x, hidden)
      \/ ~ StoredBefore(hidden, y)
  BY <1>1, <1>4 DEF Window
<1>6. /\ Chunk(x) \in Nat /\ Chunk(y) \in Nat /\ Chunk(hidden) \in Nat
      /\ Chunk(x) <= Chunk(hidden) /\ Chunk(hidden) <= Chunk(y)
  BY <1>1, KeyTypes DEF ShownBefore
<1>7. CASE ~ StoredBefore(x, hidden)
  BY <1>1, <1>6, <1>7, OrdersDiffer
<1>8. CASE ~ StoredBefore(hidden, y)
  BY <1>1, <1>6, <1>8, OrdersDiffer
<1> QED BY <1>5, <1>7, <1>8

\* Between two rows of a request that have both a timestamp or neither, the stores'
\* orders, the display's and _is_later agree (service.py 338-348, db.py 38-42).
THEOREM OrdersAgree == Spec => []OrdersAgreeWithinARequest
BY InvOrdersAgree, SpecWindowInv, PTL

\* A window hides a row between two it shows only across chunks, over SQLite, and
\* only for another created_at, over Postgres (service.py 417-444).
THEOREM WindowsHide == Spec => []WindowsHideOnlyOtherRequests
BY InvWindowsHide, SpecWindowInv, PTL
=============================================================================
