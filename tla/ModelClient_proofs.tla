------------------------- MODULE ModelClient_proofs --------------------------
(***************************************************************************)
(* For any texts, piece sizes, request limits, order of answers and number *)
(* of attempts: requests keep their limits, every byte of every message is *)
(* asked about once, and each message's vector is made of its own pieces.  *)
(*                                                                         *)
(* The invariant follows the stream: what was answered and what is in the  *)
(* batch make up exactly the bytes before the place the stream stands at.  *)
(***************************************************************************)
EXTENDS ModelClient, OrderLemmas, SequenceTheorems

\* Pieces that make up the first n bytes of a text.
Tiles(pieces, m, n) ==
    /\ \A i \in Own(pieces, m) : pieces[i].to <= n
    /\ \A b \in 0 .. n - 1 :
        \E i \in Own(pieces, m) :
            /\ Has(pieces[i], b)
            /\ \A j \in Own(pieces, m) : Has(pieces[j], b) => j = i

\* The bytes of a message before the place of the stream.
Read(m) == IF m < owner THEN texts[m].size ELSE IF m = owner THEN at ELSE 0

Complete(pieces, m) ==
    Tiles(pieces, m, Read(m)) /\ (m < owner => Own(pieces, m) # {})

\* The stream stands between two characters.
PlaceInv == stage \in Stages /\ ~ AtEnd => at \in Ends(texts[owner])

BatchInv ==
    /\ batch # <<>> => stage \in Stages \cup {"failed"}
    /\ stage \in Stages => Len(batch) <= Limits[stage].items
    /\ stage = "annotate" => bytes = 0
    /\ stage = "annotate" /\ batch # <<>> => JsonSize(batch) <= Limits[stage].bytes
    /\ stage = "embed" => bytes <= Limits[stage].bytes /\ bytes = TextSize(batch)
    /\ attempt > 0 => stage \in Stages /\ batch # <<>>
    /\ \A i \in DOMAIN batch : batch[i].from <= batch[i].to

AskedInv ==
    /\ stage = "annotate" => sums = <<>> /\ \A m \in Messages : Complete(asked \o batch, m)
    /\ stage \in {"embed", "done"} => \A m \in Messages : Covers(asked, m)

SumsInv ==
    /\ stage = "embed" => \A m \in Messages : Complete(Origins \o batch, m)
    /\ stage = "done" => \A m \in Messages : Covers(Origins, m)
    /\ \A i \in DOMAIN sums :
        /\ sums[i].owner = sums[i].of.owner
        /\ sums[i].weight = Length(sums[i].of)
        /\ sums[i].dimension = dimension

CuesInv == \A m \in Messages : \A p \in cues[m] : p.owner = m

IInv == TypeOK /\ PlaceInv /\ BatchInv /\ AskedInv /\ SumsInv /\ CuesInv

-----------------------------------------------------------------------------
\* One piece more.
LEMMA Appended ==
    ASSUME NEW pieces \in Seq(Pieces), NEW piece \in Pieces
    PROVE  /\ Append(pieces, piece) \in Seq(Pieces)
           /\ DOMAIN Append(pieces, piece) = DOMAIN pieces \cup {Len(pieces) + 1}
           /\ Len(pieces) + 1 \notin DOMAIN pieces
           /\ Append(pieces, piece)[Len(pieces) + 1] = piece
           /\ \A i \in DOMAIN pieces : Append(pieces, piece)[i] = pieces[i]
OBVIOUS

\* The next piece prolongs a tiling,
LEMMA TilesAppend ==
    ASSUME NEW pieces \in Seq(Pieces), NEW piece \in Pieces, NEW n \in Nat,
           Tiles(pieces, piece.owner, n), piece.from = n, n <= piece.to
    PROVE  Tiles(Append(pieces, piece), piece.owner, piece.to)
<1> DEFINE more == Append(pieces, piece)
           last == Len(pieces) + 1
           m == piece.owner
<1>1. /\ last \notin DOMAIN pieces /\ more[last] = piece
      /\ \A i \in DOMAIN pieces : more[i] = pieces[i]
      /\ DOMAIN more = DOMAIN pieces \cup {last}
  BY Appended
<1>2. piece.to \in Nat /\ \A i \in DOMAIN pieces : pieces[i].to \in Nat
  <2>1. \A p \in Pieces : p.to \in Nat
    BY DEF Pieces
  <2>2. \A i \in DOMAIN pieces : pieces[i] \in Pieces
    OBVIOUS
  <2> QED BY <2>1, <2>2
<1> HIDE DEF more, last
<1>3. Own(more, m) = Own(pieces, m) \cup {last} /\ Own(pieces, m) \subseteq DOMAIN pieces
  BY <1>1 DEF Own
<1>4. \A i \in Own(more, m) : more[i].to <= piece.to
  BY <1>1, <1>2, <1>3 DEF Tiles
<1>5. ASSUME NEW b \in 0 .. piece.to - 1
      PROVE  \E i \in Own(more, m) :
                /\ Has(more[i], b)
                /\ \A j \in Own(more, m) : Has(more[j], b) => j = i
  <2>1. CASE b < n
    <3>1. b \in 0 .. n - 1
      BY <2>1, <1>2
    <3>2. PICK i \in Own(pieces, m) :
            /\ Has(pieces[i], b)
            /\ \A j \in Own(pieces, m) : Has(pieces[j], b) => j = i
      BY <3>1 DEF Tiles
    <3>3. ~ Has(piece, b)
      BY <2>1, <1>2 DEF Has
    <3> QED BY <3>2, <3>3, <1>1, <1>3
  <2>2. CASE n <= b
    <3>1. Has(piece, b)
      BY <2>2, <1>2 DEF Has
    <3>2. \A i \in Own(pieces, m) : ~ Has(pieces[i], b)
      <4>1. \A i \in Own(pieces, m) : pieces[i].to <= n /\ pieces[i].to \in Nat
        BY <1>2, <1>3 DEF Tiles
      <4> QED BY <2>2, <4>1, <1>2 DEF Has
    <3> QED BY <3>1, <3>2, <1>1, <1>3
  <2> QED BY <2>1, <2>2, <1>2
<1>6. Tiles(more, m, piece.to)
  BY <1>4, <1>5 DEF Tiles
<1> QED BY <1>6 DEF more

\* and leaves the tilings of the other texts alone.
LEMMA TilesOther ==
    ASSUME NEW pieces \in Seq(Pieces), NEW piece \in Pieces, NEW m, m # piece.owner
    PROVE  /\ Own(Append(pieces, piece), m) = Own(pieces, m)
           /\ \A n : Tiles(pieces, m, n) => Tiles(Append(pieces, piece), m, n)
<1> DEFINE more == Append(pieces, piece)
           last == Len(pieces) + 1
<1>1. /\ last \notin DOMAIN pieces /\ more[last] = piece
      /\ \A i \in DOMAIN pieces : more[i] = pieces[i]
      /\ DOMAIN more = DOMAIN pieces \cup {last}
  BY Appended
<1> HIDE DEF more, last
<1>2. Own(more, m) = Own(pieces, m) /\ \A i \in Own(pieces, m) : more[i] = pieces[i]
  BY <1>1 DEF Own
<1>3. \A n : Tiles(pieces, m, n) => Tiles(more, m, n)
  BY <1>2 DEF Tiles
<1> QED BY <1>2, <1>3 DEF more

\* At the end of the stream the pieces make up all of every text.
LEMMA CompleteCovers ==
    ASSUME TypeOK, AtEnd, NEW m \in Messages, NEW pieces, Complete(pieces, m)
    PROVE  Covers(pieces, m)
<1>1. m < owner
  BY DEF TypeOK, AtEnd, Messages
<1> QED BY <1>1 DEF Complete, Covers, Read, Tiles

\* A text, and where it can be cut.
LEMMA TextType ==
    ASSUME TypeOK, NEW m \in Messages
    PROVE  /\ texts[m] \in Texts
           /\ texts[m].size \in Nat
           /\ Ends(texts[m]) \subseteq 0 .. texts[m].size
BY TextsAssumption DEF TypeOK, Messages

\* What TakePiece does, and that the piece is one.
LEMMA TakenPiece ==
    ASSUME TypeOK, TakePiece
    PROVE  \E to \in Nat :
            /\ at <= to /\ to <= texts[owner].size
            /\ to <= at + Limits[stage].piece
            /\ Piece(to) \in Pieces
            /\ Piece(to).owner = owner /\ Piece(to).from = at /\ Piece(to).to = to
            /\ Fits(Piece(to)) /\ ~ TooLarge(Piece(to))
            /\ to \in Ends(texts[owner])
            /\ batch' = Append(batch, Piece(to))
            /\ bytes' = IF stage = "embed" THEN bytes + Length(Piece(to)) ELSE bytes
            /\ IF to = texts[owner].size THEN owner' = owner + 1 /\ at' = 0
                                         ELSE owner' = owner /\ at' = to
<1>1. PICK to \in Ends(texts[owner]) :
        /\ IsPiece(to)
        /\ Fits(Piece(to)) /\ ~ TooLarge(Piece(to))
        /\ batch' = Append(batch, Piece(to))
        /\ bytes' = IF stage = "embed" THEN bytes + Length(Piece(to)) ELSE bytes
        /\ IF to = texts[owner].size THEN owner' = owner + 1 /\ at' = 0
                                     ELSE owner' = owner /\ at' = to
  BY DEF TakePiece
<1>2. owner \in Messages /\ owner \in Nat /\ at \in Nat
  BY DEF TypeOK, TakePiece, AtEnd, Messages
<1>3. to \in Nat /\ to <= texts[owner].size /\ at <= to /\ to <= at + Limits[stage].piece
  BY <1>1, <1>2, TextType DEF IsPiece
<1>4. /\ Piece(to) \in Pieces
      /\ Piece(to).owner = owner /\ Piece(to).from = at /\ Piece(to).to = to
  BY <1>2, <1>3 DEF Piece, Pieces
<1> QED BY <1>1, <1>3, <1>4

\* Of the message the stream is in, the tiling grows; the others keep theirs.
LEMMA TakeCompletes ==
    ASSUME TypeOK, TakePiece, NEW m \in Messages, NEW others \in Seq(Pieces),
           Complete(others \o batch, m)
    PROVE  /\ Tiles(others \o batch', m, Read(m)')
           /\ m < owner' => Own(others \o batch', m) # {}
<1>1. PICK to \in Nat :
        /\ at <= to /\ Piece(to) \in Pieces
        /\ Piece(to).owner = owner /\ Piece(to).from = at /\ Piece(to).to = to
        /\ batch' = Append(batch, Piece(to))
        /\ IF to = texts[owner].size THEN owner' = owner + 1 /\ at' = 0
                                     ELSE owner' = owner /\ at' = to
  BY TakenPiece
<1>2. /\ owner \in Nat /\ at \in Nat /\ m \in Nat /\ batch \in Seq(Pieces)
      /\ texts' = texts
  BY DEF TypeOK, TakePiece, Messages
<1> DEFINE pieces == others \o batch
           piece == Piece(to)
<1>3. pieces \in Seq(Pieces) /\ others \o batch' = Append(pieces, piece)
  BY <1>1, <1>2
<1>4. Tiles(pieces, m, Read(m)) /\ (m < owner => Own(pieces, m) # {})
  BY DEF Complete
<1> HIDE DEF pieces, piece
<1>5. CASE m = owner
  <2>1. Tiles(pieces, m, at)
    BY <1>2, <1>4, <1>5 DEF Read
  <2>2. Tiles(Append(pieces, piece), m, to)
    BY <1>1, <1>2, <1>3, <1>5, <2>1, TilesAppend DEF piece
  <2>3. Read(m)' = to
    BY <1>1, <1>2, <1>5 DEF Read
  <2>4. Len(pieces) + 1 \in Own(Append(pieces, piece), m)
    BY <1>1, <1>3, <1>5, Appended DEF Own, piece
  <2> QED BY <1>3, <2>2, <2>3, <2>4
<1>6. CASE m # owner
  <2>1. Read(m)' = Read(m) /\ (m < owner' => m < owner)
    BY <1>1, <1>2, <1>6 DEF Read
  <2>2. m # piece.owner /\ piece \in Pieces
    BY <1>1, <1>6 DEF piece
  <2>3. /\ Own(Append(pieces, piece), m) = Own(pieces, m)
        /\ Tiles(Append(pieces, piece), m, Read(m))
    BY <1>3, <1>4, <2>2, TilesOther
  <2> QED BY <1>3, <1>4, <2>1, <2>3
<1> QED BY <1>5, <1>6

\* A text piece more adds its bytes.
LEMMA OneMorePiece ==
    ASSUME NEW pieces \in Seq(Pieces), \A i \in DOMAIN pieces : pieces[i].from <= pieces[i].to,
           NEW piece \in Pieces, piece.from <= piece.to
    PROVE  TextSize(Append(pieces, piece)) = TextSize(pieces) + Length(piece)
<1> DEFINE n == Len(pieces)
           more == Append(pieces, piece)
           before == [i \in DOMAIN pieces |-> Length(pieces[i])]
           after == [i \in DOMAIN more |-> Length(more[i])]
<1>1. n \in Nat /\ DOMAIN pieces = 1 .. n /\ DOMAIN more = 1 .. n + 1
  OBVIOUS
<1>2. /\ more[n + 1] = piece
      /\ \A i \in 1 .. n : more[i] = pieces[i] /\ pieces[i] \in Pieces
  OBVIOUS
<1>3. \A p \in Pieces : p.from <= p.to => Length(p) \in Nat
  BY DEF Length, Pieces
<1> HIDE DEF n, more
<1>4. DOMAIN before = 1 .. n /\ DOMAIN after = 1 .. n + 1 /\ after[n + 1] = Length(piece)
  BY <1>1, <1>2
<1>5. \A i \in 1 .. n : before[i] \in Nat /\ after[i] = before[i]
  BY <1>1, <1>2, <1>3
<1>6. TextSize(pieces) = SumFunction(before) /\ TextSize(more) = SumFunction(after)
  BY DEF TextSize
<1> HIDE DEF before, after
<1>7. after[n + 1] \in Nat
  BY <1>3, <1>4
<1>8. SumFunction(after) = SumFunction(before) + after[n + 1]
  BY <1>1, <1>4, <1>5, <1>7, SumOfOneMore
<1> QED BY <1>4, <1>6, <1>8 DEF more

\* The size of a request of one fragment is a number.
LEMMA JsonSizeOfOne ==
    ASSUME TypeOK, NEW piece \in Pieces, piece.owner \in Messages,
           {piece.from, piece.to} \subseteq Ends(texts[piece.owner]), piece.from <= piece.to
    PROVE  JsonSize(<<piece>>) \in Nat
<1> DEFINE text == texts[piece.owner]
           cost == JsonLength(piece)
           after == [i \in DOMAIN <<piece>> |-> JsonLength(<<piece>>[i])]
<1>1. text \in Texts
  BY TextType
<1>2. /\ text.frame \in Nat
      /\ text.escaped[piece.from] \in Nat /\ text.escaped[piece.to] \in Nat
      /\ text.escaped[piece.from] <= text.escaped[piece.to]
  <2>1. /\ text.frame \in Nat
        /\ text.escaped \in [Ends(text) -> Nat]
        /\ \A e, f \in Ends(text) : e < f => text.escaped[e] <= text.escaped[f]
    BY <1>1, TextsAssumption
  <2>2. piece.from = piece.to \/ piece.from < piece.to
    BY DEF Pieces
  <2>3. piece.from \in Ends(text) /\ piece.to \in Ends(text)
    OBVIOUS
  <2> HIDE DEF text
  <2> QED BY <2>1, <2>2, <2>3
<1>3. cost \in Nat
  <2>1. cost = text.frame + text.escaped[piece.to] - text.escaped[piece.from]
    BY DEF JsonLength
  <2> HIDE DEF cost, text
  <2> QED BY <1>2, <2>1
<1>4. DOMAIN <<piece>> = 1 .. 0 + 1 /\ <<piece>>[0 + 1] = piece
  OBVIOUS
<1>5. DOMAIN after = 1 .. 0 + 1 /\ after[0 + 1] = cost
  BY <1>4
<1>6. JsonSize(<<piece>>) = Envelope[1] + SumFunction(after)
  <2>1. Len(<<piece>>) = 1
    OBVIOUS
  <2> QED BY <2>1 DEF JsonSize
<1> HIDE DEF after, cost
<1> DEFINE none == [i \in 1 .. 0 |-> 0]
<1>7. DOMAIN none = 1 .. 0 /\ (\A i \in 1 .. 0 : none[i] \in Nat /\ after[i] = none[i])
  OBVIOUS
<1> HIDE DEF none
<1>8. 0 \in Nat /\ after[0 + 1] \in Nat
  BY <1>3, <1>5
<1>9. /\ SumFunction(none) \in Nat
      /\ SumFunction(after) = SumFunction(none) + after[0 + 1]
  BY ONLY <1>5, <1>7, <1>8, SumOfOneMore
<1>10. Envelope[1] \in Nat
  BY LimitsAssumption DEF Stages
<1> QED BY <1>6, <1>8, <1>9, <1>10

-----------------------------------------------------------------------------
LEMMA InitIInv == Init => IInv
<1> SUFFICES ASSUME Init PROVE IInv
  OBVIOUS
<1>1. PICK n \in 1 .. MaxMessages : texts \in [1 .. n -> Texts]
  BY DEF Init
<1>2. texts \in Seq(Texts) /\ Len(texts) = n /\ n \in Nat \ {0} /\ texts # <<>>
  BY <1>1, LimitsAssumption
<1>3. TypeOK
  <2>1. owner \in 1 .. Len(texts) + 1 /\ at \in Nat /\ attempt \in 0 .. Attempts
    BY <1>2, LimitsAssumption DEF Init
  <2>2. /\ batch \in Seq(Pieces) /\ cues \in [Messages -> SUBSET Pieces]
        /\ sums \in Seq(Vectors) /\ asked \in Seq(Pieces)
    BY DEF Init
  <2> QED BY <1>2, <2>1, <2>2 DEF Init, TypeOK, Stages
<1>4. PlaceInv
  BY <1>1, <1>2, TextsAssumption DEF Init, PlaceInv, AtEnd
<1>5. BatchInv
  <2>1. Limits["annotate"].items \in Nat
    BY LimitsAssumption DEF Stages
  <2> QED BY <2>1 DEF Init, BatchInv, Stages
<1>6. AskedInv
  <2>1. ASSUME NEW m \in Messages PROVE Complete(asked \o batch, m)
    <3>1. Own(asked \o batch, m) = {}
      BY DEF Init, Own
    <3>2. Read(m) = 0 /\ ~ m < owner
      BY <1>2 DEF Init, Read, Messages
    <3> QED BY <3>1, <3>2 DEF Complete, Tiles
  <2> QED BY <2>1 DEF Init, AskedInv
<1>7. SumsInv /\ CuesInv
  BY DEF Init, SumsInv, CuesInv
<1> QED BY <1>3, <1>4, <1>5, <1>6, <1>7 DEF IInv

\* What was weighted so far is of pieces.
LEMMA OriginsArePieces == TypeOK => Origins \in Seq(Pieces)
<1> SUFFICES ASSUME TypeOK PROVE Origins \in Seq(Pieces)
  OBVIOUS
<1>1. Len(sums) \in Nat /\ DOMAIN sums = 1 .. Len(sums) /\ \A i \in DOMAIN sums : sums[i] \in Vectors
  BY DEF TypeOK
<1>2. Origins \in [1 .. Len(sums) -> Pieces]
  BY <1>1 DEF Origins, Vectors
<1> QED BY <1>1, <1>2

LEMMA TakePieceStep == IInv /\ TakePiece => IInv'
<1> SUFFICES ASSUME IInv, TakePiece PROVE IInv'
  OBVIOUS
<1> USE DEF IInv
<1>1. PICK to \in Nat :
        /\ at <= to /\ to <= texts[owner].size
        /\ to <= at + Limits[stage].piece
        /\ Piece(to) \in Pieces
        /\ Piece(to).owner = owner /\ Piece(to).from = at /\ Piece(to).to = to
        /\ Fits(Piece(to)) /\ ~ TooLarge(Piece(to))
        /\ to \in Ends(texts[owner])
        /\ batch' = Append(batch, Piece(to))
        /\ bytes' = IF stage = "embed" THEN bytes + Length(Piece(to)) ELSE bytes
        /\ IF to = texts[owner].size THEN owner' = owner + 1 /\ at' = 0
                                     ELSE owner' = owner /\ at' = to
  BY TakenPiece
<1>2. /\ UNCHANGED <<texts, stage, attempt, asked, cues, sums, dimension>>
      /\ stage \in Stages /\ attempt = 0 /\ ~ AtEnd
      /\ owner \in Messages /\ owner \in 1 .. Len(texts) /\ at \in Nat
      /\ batch \in Seq(Pieces) /\ bytes \in Nat
      /\ Messages' = Messages
  BY DEF TypeOK, TakePiece, AtEnd, Messages
<1> DEFINE piece == Piece(to)
<1>A. /\ piece \in Pieces /\ piece.owner = owner /\ piece.from = at /\ piece.to = to
      /\ Fits(piece) /\ ~ TooLarge(piece)
      /\ batch' = Append(batch, piece)
      /\ bytes' = IF stage = "embed" THEN bytes + Length(piece) ELSE bytes
  BY <1>1
<1> HIDE DEF piece
<1>3. /\ piece.from <= piece.to
      /\ Length(piece) \in Nat /\ Length(piece) <= Limits[stage].piece
  <2>1. Length(piece) = to - at
    BY <1>A DEF Length
  <2>2. Limits[stage].piece \in Nat
    BY <1>2, LimitsAssumption
  <2> QED BY <1>1, <1>A, <1>2, <2>1, <2>2
<1>4. /\ batch' \in Seq(Pieces) /\ batch' # <<>>
      /\ Len(batch') = Len(batch) + 1 /\ Len(batch) \in Nat
      /\ \A i \in DOMAIN batch' : batch'[i] = piece \/ (i \in DOMAIN batch /\ batch'[i] = batch[i])
  <2>1. batch' \in Seq(Pieces) /\ Len(batch') = Len(batch) + 1 /\ Len(batch) \in Nat
    BY <1>A, <1>2
  <2>2. batch' # <<>>
    BY <2>1
  <2>3. /\ DOMAIN batch' = DOMAIN batch \cup {Len(batch) + 1}
        /\ batch'[Len(batch) + 1] = piece
        /\ \A i \in DOMAIN batch : batch'[i] = batch[i]
    BY <1>A, <1>2, Appended
  <2> QED BY <2>1, <2>2, <2>3
<1>5. TypeOK'
  <2>1. bytes' \in Nat
    BY <1>A, <1>2, <1>3
  <2>2. owner' \in 1 .. Len(texts) + 1 /\ at' \in Nat
    <3>1. owner' \in {owner, owner + 1} /\ at' \in {0, to}
      BY <1>1
    <3>2. Len(texts) \in Nat /\ owner \in 1 .. Len(texts)
      BY <1>2 DEF TypeOK
    <3> QED BY <3>1, <3>2
  <2>3. /\ texts' \in Seq(Texts) /\ texts' # <<>>
        /\ stage' \in Stages \cup {"done", "failed"}
        /\ owner' \in 1 .. Len(texts') + 1
        /\ attempt' \in 0 .. Attempts
    BY <1>2, <2>2 DEF TypeOK
  <2>4. /\ asked' \in Seq(Pieces)
        /\ cues' \in [Messages' -> SUBSET Pieces]
        /\ sums' \in Seq(Vectors)
        /\ dimension' \in Dimensions \cup {0}
    BY <1>2 DEF TypeOK
  <2>5. batch' \in Seq(Pieces)
    BY <1>4
  <2> QED BY <2>1, <2>2, <2>3, <2>4, <2>5 DEF TypeOK
<1>6. PlaceInv'
  <2>1. CASE to = texts[owner].size
    <3>1. at' = 0 /\ owner' = owner + 1
      BY <1>1, <2>1
    <3>2. ~ AtEnd' => owner' \in Messages
      BY <3>1, <1>2, <1>5 DEF AtEnd, Messages, TypeOK
    <3>3. ~ AtEnd' => 0 \in Ends(texts[owner'])
      BY <3>2, TextType, TextsAssumption
    <3> QED BY <3>1, <3>3, <1>2 DEF PlaceInv
  <2>2. CASE to # texts[owner].size
    BY <2>2, <1>1, <1>2 DEF PlaceInv
  <2> QED BY <2>1, <2>2
<1>7. BatchInv'
  <2>1. /\ Limits[stage].items \in Nat \ {0} /\ Limits[stage].bytes \in Nat
        /\ Limits[stage].piece \in Nat
        /\ stage = "embed" => Limits[stage].piece <= Limits[stage].bytes
    BY <1>2, LimitsAssumption DEF Stages
  <2>2. Len(batch') <= Limits[stage].items
    BY <1>A, <1>4, <2>1 DEF Fits
  <2>3. \A i \in DOMAIN batch' : batch'[i].from <= batch'[i].to
    BY <1>3, <1>4 DEF BatchInv
  <2>4. ASSUME stage = "annotate" PROVE JsonSize(batch') <= Limits[stage].bytes
    <3>1. CASE batch = <<>>
      <4>1. {piece.from, piece.to} \subseteq Ends(texts[piece.owner])
        BY <1>1, <1>A, <1>2 DEF PlaceInv
      <4>2. JsonSize(<<piece>>) \in Nat
        BY <1>A, <1>2, <1>3, <4>1, JsonSizeOfOne
      <4>3. ~ JsonSize(<<piece>>) > Limits[stage].bytes
        BY <1>A, <2>4, <3>1 DEF TooLarge
      <4>4. batch' = <<piece>>
        BY <1>A, <3>1
      <4> QED BY <2>1, <4>2, <4>3, <4>4
    <3>2. CASE batch # <<>>
      BY <1>A, <2>4, <3>2 DEF Fits
    <3> QED BY <3>1, <3>2
  <2>5. JsonSize(batch)' = JsonSize(batch')
    BY <1>2 DEF JsonSize, JsonLength
  <2>6. ASSUME stage = "embed" PROVE bytes' <= Limits[stage].bytes /\ bytes' = TextSize(batch')
    <3>1. bytes' = bytes + Length(piece) /\ bytes = TextSize(batch)
      BY <1>A, <2>6 DEF BatchInv
    <3>2. \A i \in DOMAIN batch : batch[i].from <= batch[i].to
      BY DEF BatchInv
    <3>3. TextSize(batch') = TextSize(batch) + Length(piece)
      BY <1>A, <1>2, <1>3, <3>2, OneMorePiece
    <3>4. bytes' = TextSize(batch')
      BY ONLY <3>1, <3>3
    <3>5. CASE batch = <<>>
      <4>1. bytes = 0
        BY <3>1, <3>5, SumOfNone DEF TextSize
      <4>2. bytes' = Length(piece)
        BY <1>3, <3>1, <4>1
      <4>3. Limits[stage].piece <= Limits[stage].bytes
        BY <2>1, <2>6
      <4> QED BY <1>3, <2>1, <3>4, <4>2, <4>3
    <3>6. CASE batch # <<>>
      <4>1. bytes + Length(piece) <= Limits[stage].bytes
        BY <1>A, <2>6, <3>6 DEF Fits
      <4> QED BY <3>1, <3>4, <4>1
    <3> QED BY <3>5, <3>6
  <2>7. TextSize(batch)' = TextSize(batch')
    BY DEF TextSize, Length
  <2>8. stage = "annotate" => bytes' = 0
    BY <1>A DEF BatchInv
  <2> QED BY <1>2, <1>4, <2>2, <2>3, <2>4, <2>5, <2>6, <2>7, <2>8 DEF BatchInv
<1>8. ASSUME NEW m \in Messages, NEW others \in Seq(Pieces), Complete(others \o batch, m),
             others' = others
      PROVE  Complete(others \o batch, m)'
  <2>1. /\ Tiles(others \o batch', m, Read(m)')
        /\ m < owner' => Own(others \o batch', m) # {}
    BY <1>8, TakeCompletes
  <2> QED BY <1>8, <2>1 DEF Complete, Tiles, Own, Has
<1>9. AskedInv'
  <2>1. ASSUME stage = "annotate", NEW m \in Messages PROVE Complete(asked \o batch, m)'
    <3>1. Complete(asked \o batch, m) /\ asked \in Seq(Pieces) /\ asked' = asked
      BY <1>2, <2>1 DEF AskedInv, TypeOK
    <3> QED BY <3>1, <1>8
  <2>2. stage # "annotate" => \A m \in Messages : Covers(asked, m)'
    BY <1>2 DEF AskedInv, Stages, Covers, Own, Has
  <2> QED BY <1>2, <2>1, <2>2 DEF AskedInv
<1>10. SumsInv'
  <2>1. ASSUME stage = "embed", NEW m \in Messages PROVE Complete(Origins \o batch, m)'
    <3>1. Complete(Origins \o batch, m) /\ Origins \in Seq(Pieces) /\ Origins' = Origins
      BY <1>2, <2>1, OriginsArePieces DEF SumsInv, Origins
    <3> QED BY <3>1, <1>8
  <2>2. \A i \in DOMAIN sums : Length(sums[i].of)' = Length(sums[i].of)
    BY <1>2 DEF Length
  <2> QED BY <1>2, <2>1, <2>2 DEF SumsInv, Stages
<1>11. CuesInv'
  BY <1>2 DEF CuesInv
<1> QED BY <1>5, <1>6, <1>7, <1>9, <1>10, <1>11

\* Refusing, sending, failing and ending leave the stream alone.
LEMMA StandingStep ==
    IInv /\ (RefuseFragment \/ SendBatch \/ RequestFails \/ EmbeddingsRejected \/ UNCHANGED vars)
        => IInv'
<1> SUFFICES ASSUME IInv,
                    RefuseFragment \/ SendBatch \/ RequestFails \/ EmbeddingsRejected
                        \/ UNCHANGED vars
             PROVE  IInv'
  OBVIOUS
<1> USE DEF IInv
<1>1. /\ UNCHANGED <<texts, owner, at, batch, bytes, asked, cues, sums, dimension>>
      /\ stage' \in {stage, "failed"}
      /\ attempt' > 0 => stage' = stage /\ stage \in Stages /\ batch # <<>>
      /\ attempt' \in 0 .. Attempts
  <2>1. Attempts \in Nat \ {0} /\ attempt \in 0 .. Attempts
    BY LimitsAssumption DEF TypeOK
  <2>2. CASE RefuseFragment
    BY <2>1, <2>2 DEF RefuseFragment
  <2>3. CASE SendBatch
    BY <2>1, <2>3 DEF SendBatch
  <2>4. CASE RequestFails
    BY <2>1, <2>4 DEF RequestFails, BatchInv
  <2>5. CASE EmbeddingsRejected
    BY <2>1, <2>5 DEF EmbeddingsRejected
  <2>6. CASE UNCHANGED vars
    BY <2>1, <2>6 DEF vars, BatchInv
  <2> QED BY <2>2, <2>3, <2>4, <2>5, <2>6
<1>2. /\ stage' \in Stages => stage' = stage
      /\ stage' \in {"annotate", "embed", "done"} => stage' = stage
      /\ stage \in Stages \cup {"failed"} => stage' \in Stages \cup {"failed"}
  BY <1>1 DEF Stages
<1>3. TypeOK'
  BY <1>1 DEF TypeOK, Messages
<1>4. /\ Messages' = Messages /\ Origins' = Origins
      /\ JsonSize(batch)' = JsonSize(batch) /\ TextSize(batch)' = TextSize(batch)
      /\ \A m : Read(m)' = Read(m)
  BY <1>1 DEF Messages, Origins, JsonSize, JsonLength, TextSize, Length, Read
<1>5. PlaceInv'
  BY <1>1, <1>2 DEF PlaceInv, AtEnd
<1>6. BatchInv'
  <2>1. stage' \in Stages => Len(batch') <= Limits[stage'].items
    BY <1>1, <1>2 DEF BatchInv
  <2>2. stage' = "annotate" => /\ bytes' = 0
                               /\ batch' # <<>> => JsonSize(batch)' <= Limits[stage'].bytes
    BY <1>1, <1>2, <1>4 DEF BatchInv
  <2>3. stage' = "embed" => bytes' <= Limits[stage'].bytes /\ bytes' = TextSize(batch)'
    BY <1>1, <1>2, <1>4 DEF BatchInv
  <2>4. /\ batch' # <<>> => stage' \in Stages \cup {"failed"}
        /\ attempt' > 0 => stage' \in Stages /\ batch' # <<>>
        /\ \A i \in DOMAIN batch' : batch'[i].from <= batch'[i].to
    BY <1>1, <1>2 DEF BatchInv
  <2> QED BY <2>1, <2>2, <2>3, <2>4 DEF BatchInv
<1>7. AskedInv'
  BY <1>1, <1>2, <1>4 DEF AskedInv, Complete, Covers, Tiles, Own, Has
<1>8. SumsInv' /\ CuesInv'
  <2>1. \A i \in DOMAIN sums : Length(sums[i].of)' = Length(sums[i].of)
    BY <1>1 DEF Length
  <2> QED BY <1>1, <1>2, <1>4, <2>1 DEF SumsInv, CuesInv, Complete, Covers, Tiles, Own, Has
<1> QED BY <1>3, <1>5, <1>6, <1>7, <1>8

\* A batch that was answered leaves nothing behind.
LEMMA EmptyBatch == TextSize(<<>>) = 0
BY SumOfNone DEF TextSize

LEMMA NextBatchInv ==
    ASSUME IInv, NextBatch, stage \in Stages, UNCHANGED stage
    PROVE  BatchInv'
<1>1. batch' = <<>> /\ bytes' = 0 /\ attempt' = 0
  BY DEF NextBatch
<1>2. Limits[stage].items \in Nat /\ Limits[stage].bytes \in Nat
  BY LimitsAssumption
<1>3. TextSize(batch)' = 0
  <2>1. TextSize(batch)' = TextSize(batch')
    BY DEF TextSize, Length
  <2> QED BY <1>1, <2>1, EmptyBatch
<1> QED BY <1>1, <1>2, <1>3 DEF BatchInv

\* What was in the batch is answered now, so the stream stays as it is.
LEMMA AnnotationsStep == IInv /\ AnnotationsAnswered => IInv'
<1> SUFFICES ASSUME IInv, AnnotationsAnswered PROVE IInv'
  OBVIOUS
<1> USE DEF IInv
<1>1. /\ UNCHANGED <<texts, stage, owner, at, sums, dimension>>
      /\ stage = "annotate" /\ attempt' = 0 /\ batch' = <<>> /\ bytes' = 0
      /\ asked' = asked \o batch
  BY DEF AnnotationsAnswered, NextBatch
<1>2. PICK indexes \in SUBSET (-1 .. Len(batch)) :
        cues' = [m \in Messages |->
                    cues[m] \cup {batch[i + 1] : i \in {j \in indexes :
                        (0 <= j /\ j < Len(batch)) /\ CueOwner(j) = m}}]
  <2>1. PICK indexes \in SUBSET (-1 .. Len(batch)) :
          cues' = [m \in Messages |->
                      cues[m] \cup {batch[i + 1] : i \in {j \in {i \in indexes :
                          0 <= i /\ i < Len(batch)} : CueOwner(j) = m}}]
    BY DEF AnnotationsAnswered
  <2> QED BY <2>1
<1>3. /\ batch \in Seq(Pieces) /\ asked \in Seq(Pieces) /\ Messages' = Messages
      /\ \A i \in DOMAIN batch : batch[i] \in Pieces
      /\ \A i \in indexes : 0 <= i /\ i < Len(batch) => i + 1 \in DOMAIN batch
  BY <1>1 DEF TypeOK, Messages
<1>4. asked' \in Seq(Pieces) /\ asked' \o batch' = asked \o batch
  BY <1>1, <1>3
<1>5. TypeOK'
  <2>1. cues' \in [Messages -> SUBSET Pieces]
    BY <1>2, <1>3 DEF TypeOK
  <2> QED BY <1>1, <1>3, <1>4, <2>1, LimitsAssumption DEF TypeOK
<1>6. PlaceInv' /\ BatchInv'
  <2>1. BatchInv'
    BY <1>1, NextBatchInv DEF NextBatch, Stages
  <2> QED BY <1>1, <2>1 DEF PlaceInv, AtEnd
<1>7. AskedInv'
  <2>1. ASSUME NEW m \in Messages PROVE Complete(asked \o batch, m)'
    <3>1. Complete(asked \o batch, m)
      BY <1>1 DEF AskedInv
    <3>2. Read(m)' = Read(m)
      BY <1>1 DEF Read
    <3> QED BY <1>1, <1>4, <3>1, <3>2 DEF Complete, Tiles, Own, Has
  <2> QED BY <1>1, <1>3, <2>1 DEF AskedInv
<1>8. SumsInv'
  BY <1>1, <1>3 DEF SumsInv, AskedInv
<1>9. CuesInv'
  BY <1>2, <1>3 DEF CuesInv, CueOwner
<1> QED BY <1>5, <1>6, <1>7, <1>8, <1>9

LEMMA StartEmbeddingStep == IInv /\ StartEmbedding => IInv'
<1> SUFFICES ASSUME IInv, StartEmbedding PROVE IInv'
  OBVIOUS
<1> USE DEF IInv
<1>1. /\ UNCHANGED <<texts, batch, bytes, attempt, asked, cues, sums, dimension>>
      /\ stage = "annotate" /\ stage' = "embed" /\ owner' = 1 /\ at' = 0
      /\ AtEnd /\ batch = <<>> /\ attempt = 0 /\ bytes = 0 /\ sums = <<>>
  BY DEF StartEmbedding, Begin, BatchInv, AskedInv
<1>2. Messages' = Messages
  BY <1>1 DEF Messages
<1>3. TypeOK'
  BY <1>1 DEF TypeOK, Messages, Stages
<1>4. PlaceInv'
  <2>1. 1 \in Messages
    BY DEF TypeOK, Messages
  <2>2. 0 \in Ends(texts[1])
    BY <2>1, TextType, TextsAssumption
  <2> QED BY <1>1, <2>2 DEF PlaceInv
<1>5. BatchInv'
  <2>1. Limits["embed"].items \in Nat /\ Limits["embed"].bytes \in Nat
    BY LimitsAssumption DEF Stages
  <2>2. TextSize(batch)' = 0
    <3>1. TextSize(batch)' = TextSize(batch')
      BY DEF TextSize, Length
    <3> QED BY <1>1, <3>1, EmptyBatch
  <2> QED BY <1>1, <2>1, <2>2 DEF BatchInv, Stages
<1>6. AskedInv'
  <2>1. ASSUME NEW m \in Messages PROVE Covers(asked, m)'
    <3>1. asked \o batch = asked
      BY <1>1 DEF TypeOK
    <3>2. Complete(asked, m)
      BY <1>1, <3>1 DEF AskedInv
    <3>3. Covers(asked, m)
      BY <1>1, <3>2, CompleteCovers
    <3> QED BY <1>1, <3>3 DEF Covers, Own, Has
  <2> QED BY <1>1, <1>2, <2>1 DEF AskedInv
<1>7. SumsInv'
  <2>1. ASSUME NEW m \in Messages PROVE Complete(Origins \o batch, m)'
    <3>1. Own((Origins \o batch)', m) = {}
      <4>1. (Origins \o batch)' = <<>>
        BY <1>1 DEF Origins
      <4> QED BY <4>1 DEF Own
    <3>2. Read(m)' = 0 /\ ~ m < owner'
      BY <1>1 DEF Read, Messages, TypeOK
    <3> QED BY <3>1, <3>2 DEF Complete, Tiles, Own
  <2> QED BY <1>1, <1>2, <2>1 DEF SumsInv
<1>8. CuesInv'
  BY <1>1, <1>2 DEF CuesInv
<1> QED BY <1>3, <1>4, <1>5, <1>6, <1>7, <1>8

\* Sorted by index, row i of an accepted answer is the vector of input i.
LEMMA SortedMatches ==
    ASSUME TypeOK, batch # <<>>, NEW data \in Answers, IndexesMatch(data), NEW i \in DOMAIN batch
    PROVE  /\ i \in DOMAIN Sorted(data)
           /\ Sorted(data)[i].index + 1 = i
           /\ \E k \in DOMAIN data : Sorted(data)[i] = data[k]
<1>1. i \in Nat /\ i - 1 \in 0 .. Len(batch) - 1
  BY DEF TypeOK
<1>2. \E k \in DOMAIN data : data[k].index = i - 1
  BY <1>1 DEF IndexesMatch
<1> DEFINE j == CHOOSE k \in DOMAIN data : data[k].index = i - 1
<1>3. j \in DOMAIN data /\ data[j].index = i - 1
  BY <1>2
<1>4. Sorted(data)[i] = data[j] /\ i \in DOMAIN Sorted(data)
  BY DEF Sorted
<1> HIDE DEF j
<1> QED BY <1>1, <1>3, <1>4

\* The rows of an accepted answer are vectors of one dimension, and the first rows of
\* all answers have it too.
LEMMA RowsUsable ==
    ASSUME NEW data \in Answers, Len(batch) \in Nat \ {0}, IndexesMatch(data),
           VectorsUsable(data)
    PROVE  /\ data[1].dimension \in Dimensions
           /\ dimension \in {0, data[1].dimension}
           /\ \A k \in DOMAIN data : data[k].dimension = data[1].dimension
<1>1. PICK n \in {Len(batch) - 1, Len(batch)} :
        data \in [1 .. n -> [index : 0 .. Len(batch), dimension : Dimensions \cup {0}]]
  BY DEF Answers
<1>2. 1 \in DOMAIN data
  BY <1>1 DEF IndexesMatch
<1> QED BY <1>2 DEF VectorsUsable

LEMMA EmbeddingsStep == IInv /\ EmbeddingsAnswered => IInv'
<1> SUFFICES ASSUME IInv, EmbeddingsAnswered PROVE IInv'
  OBVIOUS
<1> USE DEF IInv
<1>1. /\ UNCHANGED <<texts, stage, owner, at, asked, cues>>
      /\ stage = "embed" /\ attempt > 0 /\ batch # <<>>
      /\ attempt' = 0 /\ batch' = <<>> /\ bytes' = 0
  BY DEF EmbeddingsAnswered, NextBatch, BatchInv
<1>2. PICK data \in Answers :
        /\ IndexesMatch(data)
        /\ VectorsUsable(data)
        /\ dimension' = data[1].dimension
        /\ sums' = sums \o [i \in DOMAIN batch |-> Weighted(Sorted(data), i)]
  BY DEF EmbeddingsAnswered
<1>3. /\ batch \in Seq(Pieces) /\ Len(batch) \in Nat \ {0} /\ Messages' = Messages
      /\ DOMAIN batch = 1 .. Len(batch)
      /\ \A i \in DOMAIN batch : batch[i] \in Pieces
      /\ sums \in Seq(Vectors) /\ Len(sums) \in Nat /\ DOMAIN sums = 1 .. Len(sums)
  BY <1>1 DEF TypeOK, Messages
<1>4. /\ dimension' \in Dimensions /\ dimension \in {0, dimension'}
      /\ \A k \in DOMAIN data : data[k].dimension = dimension'
  BY <1>2, <1>3, RowsUsable
<1> DEFINE new == [i \in DOMAIN batch |-> Weighted(Sorted(data), i)]
<1>5. ASSUME NEW i \in DOMAIN batch
      PROVE  /\ new[i].owner = batch[i].owner
             /\ new[i].of = batch[i]
             /\ new[i].dimension = dimension'
             /\ new[i].weight = Length(batch[i])
             /\ new[i] \in Vectors
  <2>1. Sorted(data)[i].index + 1 = i /\ \E k \in DOMAIN data : Sorted(data)[i] = data[k]
    BY <1>1, <1>2, SortedMatches
  <2>2. Sorted(data)[i].dimension = dimension'
    BY <2>1, <1>4
  <2>3. new[i] = [owner |-> batch[i].owner, of |-> batch[i], dimension |-> dimension',
                  weight |-> Length(batch[i])]
    BY <2>1, <2>2 DEF Weighted
  <2>4. Length(batch[i]) \in Int /\ batch[i].owner \in Nat
    BY <1>3 DEF Length, Pieces
  <2> HIDE DEF new
  <2> QED BY <1>3, <1>4, <2>3, <2>4 DEF Vectors
<1>6. /\ sums' = sums \o new /\ new \in Seq(Vectors) /\ Len(new) = Len(batch)
      /\ DOMAIN new = DOMAIN batch
  <2>1. DOMAIN new = 1 .. Len(batch)
    BY <1>3
  <2>2. sums' = sums \o new
    BY <1>2
  <2> HIDE DEF new
  <2>3. new \in [1 .. Len(batch) -> Vectors]
    <3>1. new = [i \in 1 .. Len(batch) |-> new[i]]
      BY <1>3 DEF new
    <3> QED BY <1>3, <1>5, <3>1
  <2>4. new \in Seq(Vectors)
    BY <1>3, <2>3
  <2>5. Len(new) = Len(batch)
    BY <1>3, <2>1, <2>4
  <2> QED BY <1>3, <2>1, <2>2, <2>4, <2>5
<1> HIDE DEF new
<1>7. /\ sums' \in Seq(Vectors)
      /\ DOMAIN sums' = 1 .. Len(sums) + Len(batch)
      /\ \A i \in DOMAIN sums' : \/ i \in DOMAIN sums /\ sums'[i] = sums[i]
                                 \/ /\ i \notin DOMAIN sums
                                    /\ i - Len(sums) \in DOMAIN batch
                                    /\ sums'[i] = new[i - Len(sums)]
  <2>A. /\ sums \o new \in Seq(Vectors)
        /\ Len(sums \o new) = Len(sums) + Len(new)
        /\ \A i \in 1 .. Len(sums) + Len(new) :
             (sums \o new)[i] = IF i <= Len(sums) THEN sums[i] ELSE new[i - Len(sums)]
    <3>1. sums \in Seq(Vectors) /\ new \in Seq(Vectors)
      BY <1>3, <1>6
    <3> QED BY <3>1, ConcatProperties
  <2>B. sums' = sums \o new /\ Len(new) = Len(batch)
    BY <1>6
  <2>1. sums' \in Seq(Vectors) /\ Len(sums') = Len(sums) + Len(batch)
    BY <2>A, <2>B
  <2>2. DOMAIN sums' = 1 .. Len(sums) + Len(batch)
    BY <2>1
  <2>3. \A i \in 1 .. Len(sums) + Len(batch) :
          sums'[i] = IF i <= Len(sums) THEN sums[i] ELSE new[i - Len(sums)]
    BY <2>A, <2>B
  <2>4. ASSUME NEW i \in DOMAIN sums'
        PROVE  \/ i \in DOMAIN sums /\ i <= Len(sums)
               \/ i \notin DOMAIN sums /\ ~ i <= Len(sums) /\ i - Len(sums) \in DOMAIN batch
    BY <1>3, <2>2
  <2> QED BY <2>1, <2>2, <2>3, <2>4
<1>8. TypeOK'
  <2>1. batch' \in Seq(Pieces)
    BY <1>1
  <2> QED BY <1>1, <1>3, <1>4, <1>7, <2>1, LimitsAssumption DEF TypeOK
<1>9. PlaceInv' /\ BatchInv' /\ CuesInv'
  <2>1. BatchInv'
    BY <1>1, NextBatchInv DEF NextBatch, Stages
  <2> QED BY <1>1, <1>3, <2>1 DEF PlaceInv, CuesInv, AtEnd
<1>10. AskedInv'
  BY <1>1, <1>3 DEF AskedInv, Covers, Own, Has
<1>11. Origins' = Origins \o batch
  <2>1. Origins \in Seq(Pieces) /\ Len(Origins) = Len(sums)
    <3>1. Origins \in Seq(Pieces) /\ DOMAIN Origins = 1 .. Len(sums)
      BY <1>3, OriginsArePieces DEF Origins
    <3> QED BY <1>3, <3>1
  <2>2. /\ Origins \o batch \in Seq(Pieces)
        /\ Len(Origins \o batch) = Len(sums) + Len(batch)
        /\ \A i \in 1 .. Len(sums) + Len(batch) :
              (Origins \o batch)[i] = IF i <= Len(sums) THEN Origins[i] ELSE batch[i - Len(sums)]
    BY <1>3, <2>1
  <2>3. DOMAIN Origins' = 1 .. Len(sums) + Len(batch) /\ \A i \in DOMAIN sums' : Origins'[i] = sums'[i].of
    BY <1>7 DEF Origins
  <2>4. Origins' \in Seq(Pieces) /\ Len(Origins') = Len(sums) + Len(batch)
    <3>1. \A i \in DOMAIN sums' : sums'[i].of \in Pieces
      <4>1. \A i \in DOMAIN sums' : sums'[i] \in Vectors
        BY <1>7
      <4>2. \A v \in Vectors : v.of \in Pieces
        BY DEF Vectors
      <4> QED BY <4>1, <4>2
    <3>2. Origins' = [i \in 1 .. Len(sums) + Len(batch) |-> sums'[i].of]
      BY <1>7 DEF Origins
    <3>3. Origins' \in [1 .. Len(sums) + Len(batch) -> Pieces]
      BY <1>7, <3>1, <3>2
    <3> QED BY <1>3, <3>3
  <2>5. ASSUME NEW i \in 1 .. Len(sums) + Len(batch) PROVE Origins'[i] = (Origins \o batch)[i]
    <3>1. Origins'[i] = sums'[i].of
      BY <1>7, <2>3
    <3>2. CASE i \in DOMAIN sums
      <4>1. Origins[i] = sums[i].of /\ sums'[i] = sums[i] /\ i <= Len(sums)
        BY <1>3, <1>7, <3>2 DEF Origins
      <4> QED BY <2>2, <3>1, <4>1
    <3>3. CASE i \notin DOMAIN sums
      <4>1. ~ i <= Len(sums)
        BY <1>3, <3>3
      <4>2. i - Len(sums) \in DOMAIN batch /\ sums'[i] = new[i - Len(sums)]
        BY <1>7, <3>3
      <4>3. sums'[i].of = batch[i - Len(sums)]
        BY <1>5, <4>2
      <4> QED BY <2>2, <3>1, <4>1, <4>3
    <3> QED BY <3>2, <3>3
  <2> QED BY <2>2, <2>4, <2>5, SeqEqual
<1>12. SumsInv'
  <2>1. ASSUME NEW m \in Messages PROVE Complete(Origins \o batch, m)'
    <3>1. Complete(Origins \o batch, m)
      BY <1>1 DEF SumsInv
    <3>2. Origins' \o batch' = Origins \o batch
      <4>1. Origins \o batch \in Seq(Pieces)
        BY <1>3, OriginsArePieces
      <4> QED BY <1>1, <1>11, <4>1
    <3>3. Read(m)' = Read(m) /\ owner' = owner
      BY <1>1 DEF Read
    <3> QED BY <3>1, <3>2, <3>3 DEF Complete, Tiles, Own, Has
  <2>2. ASSUME NEW i \in DOMAIN sums'
        PROVE  /\ sums'[i].owner = sums'[i].of.owner
               /\ sums'[i].weight = Length(sums'[i].of)
               /\ sums'[i].dimension = dimension'
    <3>1. CASE i \in DOMAIN sums
      <4>1. /\ sums[i].owner = sums[i].of.owner
            /\ sums[i].weight = Length(sums[i].of)
            /\ sums[i].dimension = dimension
        BY <3>1 DEF SumsInv
      <4>2. dimension # 0
        <5>1. sums[i] \in Vectors
          BY <1>3, <3>1
        <5>2. dimension \in Dimensions
          BY <4>1, <5>1 DEF Vectors
        <5> QED BY <5>2, LimitsAssumption
      <4>3. dimension' = dimension /\ sums'[i] = sums[i]
        BY <1>4, <1>7, <3>1, <4>2
      <4> QED BY <4>1, <4>3
    <3>2. CASE i \notin DOMAIN sums
      <4>1. i - Len(sums) \in DOMAIN batch /\ sums'[i] = new[i - Len(sums)]
        BY <1>7, <3>2
      <4> QED BY <1>5, <4>1
    <3> QED BY <3>1, <3>2
  <2>3. Messages' = Messages /\ stage' = "embed"
    BY <1>1, <1>3
  <2>4. \A i \in DOMAIN sums' : Length(sums[i].of)' = Length(sums'[i].of)
    BY DEF Length
  <2> QED BY <2>1, <2>2, <2>3, <2>4 DEF SumsInv
<1> QED BY <1>8, <1>9, <1>10, <1>12

LEMMA ReturnStep == IInv /\ Return => IInv'
<1> SUFFICES ASSUME IInv, Return PROVE IInv'
  OBVIOUS
<1> USE DEF IInv
<1>1. /\ UNCHANGED <<texts, owner, at, batch, bytes, attempt, asked, cues, sums, dimension>>
      /\ stage = "embed" /\ stage' = "done" /\ AtEnd /\ batch = <<>> /\ attempt = 0
  BY DEF Return
<1>2. Messages' = Messages /\ Origins' = Origins
  BY <1>1 DEF Messages, Origins
<1>3. TypeOK' /\ PlaceInv' /\ BatchInv' /\ CuesInv'
  BY <1>1, <1>2 DEF TypeOK, Messages, PlaceInv, BatchInv, CuesInv, Stages
<1>4. AskedInv'
  BY <1>1, <1>2 DEF AskedInv, Covers, Own, Has
<1>5. SumsInv'
  <2>1. ASSUME NEW m \in Messages PROVE Covers(Origins, m)'
    <3>1. Origins \o batch = Origins
      BY <1>1, OriginsArePieces
    <3>2. Complete(Origins, m)
      BY <1>1, <3>1 DEF SumsInv
    <3>3. Covers(Origins, m)
      BY <1>1, <3>2, CompleteCovers
    <3> QED BY <1>1, <1>2, <3>3 DEF Covers, Own, Has
  <2>2. \A i \in DOMAIN sums : Length(sums[i].of)' = Length(sums[i].of)
    BY <1>1 DEF Length
  <2> QED BY <1>1, <1>2, <2>1, <2>2 DEF SumsInv
<1> QED BY <1>3, <1>4, <1>5

\* Every step of the two calls keeps the invariant.
LEMMA SpecIInv == Spec => []IInv
<1>1. IInv /\ [Next]_vars => IInv'
  <2> SUFFICES ASSUME IInv, [Next]_vars PROVE IInv'
    OBVIOUS
  <2>1. CASE TakePiece
    BY <2>1, TakePieceStep
  <2>2. CASE RefuseFragment \/ SendBatch \/ RequestFails \/ EmbeddingsRejected \/ UNCHANGED vars
    BY <2>2, StandingStep
  <2>3. CASE AnnotationsAnswered
    BY <2>3, AnnotationsStep
  <2>4. CASE StartEmbedding
    BY <2>4, StartEmbeddingStep
  <2>5. CASE EmbeddingsAnswered
    BY <2>5, EmbeddingsStep
  <2>6. CASE Return
    BY <2>6, ReturnStep
  <2> QED BY <2>1, <2>2, <2>3, <2>4, <2>5, <2>6 DEF Next
<1> QED BY InitIInv, <1>1, PTL DEF Spec

-----------------------------------------------------------------------------
\* The variables keep their types; no request is sent more often than allowed.
THEOREM TypeCorrect == Spec => []TypeOK
<1>1. IInv => TypeOK
  BY DEF IInv
<1> QED BY <1>1, SpecIInv, PTL

\* No request exceeds the items and bytes its endpoint takes (llm.py 131-148, 264-284).
THEOREM BoundsHold == Spec => []RequestsAreBounded
<1>1. IInv => RequestsAreBounded
  BY DEF IInv, BatchInv, RequestsAreBounded, Stages
<1> QED BY <1>1, SpecIInv, PTL

\* Every byte of every message is asked about once, and terms stay with their message
\* (llm.py 252-287).
THEOREM AnnotationsHold == Spec => []AnnotationsAreComplete
<1>1. IInv => AnnotationsAreComplete
  BY DEF IInv, AskedInv, CuesInv, AnnotationsAreComplete
<1> QED BY <1>1, SpecIInv, PTL

\* A message's embedding is the weighted average of the vectors of its own pieces, all
\* of them, whatever the order of the answers (llm.py 150-209).
THEOREM VectorsHold == Spec => []VectorsCoverTheirTexts
<1>1. IInv => VectorsCoverTheirTexts
  BY DEF IInv, SumsInv, VectorsCoverTheirTexts
<1> QED BY <1>1, SpecIInv, PTL
=============================================================================
