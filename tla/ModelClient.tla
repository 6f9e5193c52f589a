----------------------------- MODULE ModelClient -----------------------------
(***************************************************************************)
(* The model calls of one Add: annotate_messages, then embed_texts, both   *)
(* over _post, of app/llm.py.  (The query of a search is embedded the same *)
(* way, as one text.)                                                      *)
(*                                                                         *)
(* A text is cut into pieces at character boundaries, the pieces of all    *)
(* texts form one stream, the stream is sent in batches, and each answer   *)
(* is matched with its batch by the index it gives.  The next piece is     *)
(* known by its place: the text it is of and the byte it starts at.        *)
(*                                                                         *)
(* An embedding request is limited in the bytes of its texts, an           *)
(* annotation request in the bytes of its JSON, in which the fragments are *)
(* encoded twice and what is not plain ASCII is escaped.                   *)
(*                                                                         *)
(* The endpoint is assumed to compute the vector it gives index i from the *)
(* i-th input; everything else about its answers is open.                  *)
(***************************************************************************)
EXTENDS Naturals, Integers, Sequences, FiniteSets, SequencesExt

CONSTANTS
    Texts,        \* what a message may say: its size, what JSON needs for a fragment
                  \* of it besides its characters (the role is there), and what the
                  \* characters up to each of their ends take in JSON
    MaxWidth,     \* the bytes of the widest character, 4 in UTF-8
    MaxMessages,  \* bound: the messages of the Add
    Limits,       \* per stage: bytes of a piece, items and bytes of a request
    Envelope,     \* what a request of so many fragments needs besides them
    Attempts,     \* 3
    Dimensions    \* the lengths a usable vector may have

Stages == {"annotate", "embed"}

\* The places where a text can be cut.
Ends(text) == DOMAIN text.escaped

\* Characters end one after the other, and none takes less than nothing.
ASSUME TextsAssumption ==
    /\ MaxWidth \in Nat \ {0}
    /\ \A text \in Texts :
        /\ text.size \in Nat
        /\ text.frame \in Nat
        /\ {0, text.size} \subseteq Ends(text)
        /\ Ends(text) \subseteq 0 .. text.size
        /\ text.escaped \in [Ends(text) -> Nat]
        /\ \A e, f \in Ends(text) : e < f => text.escaped[e] <= text.escaped[f]
        /\ \A e \in Ends(text) \ {text.size} :
            \E f \in Ends(text) : e < f /\ f <= e + MaxWidth

\* Every character fits in a piece, and every piece in an embedding request.
ASSUME LimitsAssumption ==
    /\ MaxMessages \in Nat \ {0}
    /\ Attempts \in Nat \ {0}
    /\ Dimensions \subseteq Nat \ {0}
    /\ Limits \in [Stages -> [piece : Nat, items : Nat \ {0}, bytes : Nat]]
    /\ \A stage \in Stages : MaxWidth <= Limits[stage].piece
    /\ Limits["embed"].piece <= Limits["embed"].bytes
    /\ Envelope \in [0 .. Limits["annotate"].items -> Nat]

VARIABLES
    texts,      \* the contents of the messages
    stage,      \* which call runs, and how it ended
    owner, at,  \* the next piece: of which text, from which byte
    batch,      \* the pieces of the next request
    bytes,      \* batch_bytes, which embed_texts counts
    attempt,    \* how often the request was sent, 0 while none is due
    asked,      \* the fragments whose annotation requests were answered, in order
    cues,       \* the fragments whose terms each message got
    sums,       \* the weighted vectors that were added to the sums, in order
    dimension   \* the dimension of all vectors, 0 before the first

vars == <<texts, stage, owner, at, batch, bytes, attempt, asked, cues, sums, dimension>>

Messages == DOMAIN texts

Begin(next) ==
    /\ stage' = next
    /\ owner' = 1
    /\ at' = 0

Init ==
    /\ texts \in UNION {[1 .. n -> Texts] : n \in 1 .. MaxMessages}
    /\ stage = "annotate" /\ owner = 1 /\ at = 0
    /\ batch = <<>> /\ bytes = 0 /\ attempt = 0
    /\ asked = <<>>
    /\ cues = [m \in Messages |-> {}]
    /\ sums = <<>>
    /\ dimension = 0

-----------------------------------------------------------------------------
\* The piece that starts where the stream stands: the most characters its limit
\* allows, so all of a text that is short enough.
IsPiece(to) ==
    /\ to \in Ends(texts[owner])
    /\ at <= to
    /\ to <= at + Limits[stage].piece
    /\ \A e \in Ends(texts[owner]) : e <= at + Limits[stage].piece => e <= to

Piece(to) == [owner |-> owner, from |-> at, to |-> to]
Length(piece) == piece.to - piece.from

\* A fragment in the transcript of an annotation request.
JsonLength(piece) ==
    LET text == texts[piece.owner]
    IN  text.frame + text.escaped[piece.to] - text.escaped[piece.from]

\* len(json.dumps(payload_for(pieces)))
JsonSize(pieces) ==
    Envelope[Len(pieces)] + SumFunction([i \in DOMAIN pieces |-> JsonLength(pieces[i])])

AtEnd == owner > Len(texts)

\* Mutant: the sizes are compared without the piece that is to be added.
FitsLate(piece) ==
    /\ Len(batch) < Limits[stage].items
    /\ \/ batch = <<>>
       \/ stage = "annotate" /\ JsonSize(batch) <= Limits[stage].bytes
       \/ stage = "embed" /\ bytes <= Limits[stage].bytes

\* A first piece always goes in, another one while both limits allow it.
Fits(piece) ==
    /\ Len(batch) < Limits[stage].items
    /\ \/ batch = <<>>
       \/ stage = "annotate" /\ JsonSize(Append(batch, piece)) <= Limits[stage].bytes
       \/ stage = "embed" /\ bytes + Length(piece) <= Limits[stage].bytes

\* A first fragment that makes too large a request by itself.
TooLarge(piece) ==
    stage = "annotate" /\ batch = <<>> /\ JsonSize(<<piece>>) > Limits[stage].bytes

TakePiece ==
    /\ stage \in Stages
    /\ attempt = 0
    /\ ~ AtEnd
    /\ \E to \in Ends(texts[owner]) :
        /\ IsPiece(to)
        /\ Fits(Piece(to))
        /\ ~ TooLarge(Piece(to))
        /\ batch' = Append(batch, Piece(to))
        /\ bytes' = IF stage = "embed" THEN bytes + Length(Piece(to)) ELSE bytes
        /\ IF to = texts[owner].size
           THEN owner' = owner + 1 /\ at' = 0
           ELSE owner' = owner /\ at' = to
    /\ UNCHANGED <<texts, stage, attempt, asked, cues, sums, dimension>>

\* "annotation request exceeds size limit"; the batches before it were sent.
RefuseFragment ==
    /\ stage \in Stages
    /\ attempt = 0
    /\ ~ AtEnd
    /\ \E to \in Ends(texts[owner]) : IsPiece(to) /\ TooLarge(Piece(to))
    /\ stage' = "failed"
    /\ UNCHANGED <<texts, owner, at, batch, bytes, attempt, asked, cues, sums, dimension>>

\* A batch goes out when the next piece does not fit any more, or none is left.
SendBatch ==
    /\ stage \in Stages
    /\ attempt = 0
    /\ batch # <<>>
    /\ ~ AtEnd => \E to \in Ends(texts[owner]) : IsPiece(to) /\ ~ Fits(Piece(to))
    /\ attempt' = 1
    /\ UNCHANGED <<texts, stage, owner, at, batch, bytes, asked, cues, sums, dimension>>

\* Mutant: after the last attempt the count starts over.
RequestFailsForever ==
    /\ attempt > 0
    /\ \/ /\ attempt' = IF attempt < Attempts THEN attempt + 1 ELSE 1
          /\ UNCHANGED stage
       \/ stage' = "failed" /\ attempt' = 0
    /\ UNCHANGED <<texts, owner, at, batch, bytes, asked, cues, sums, dimension>>

\* Mutant: one attempt too many.
RequestFailsLate ==
    /\ attempt > 0
    /\ \/ /\ attempt <= Attempts
          /\ attempt' = attempt + 1
          /\ UNCHANGED stage
       \/ stage' = "failed" /\ attempt' = 0
    /\ UNCHANGED <<texts, owner, at, batch, bytes, asked, cues, sums, dimension>>

\* A busy or broken endpoint, a lost or malformed answer: tried again until the
\* attempts are used up.  Any other failure ends the call.
RequestFails ==
    /\ attempt > 0
    /\ \/ /\ attempt < Attempts
          /\ attempt' = attempt + 1
          /\ UNCHANGED stage
       \/ stage' = "failed" /\ attempt' = 0
    /\ UNCHANGED <<texts, owner, at, batch, bytes, asked, cues, sums, dimension>>

\* The batch was answered; the stream goes on.
NextBatch ==
    /\ attempt' = 0
    /\ batch' = <<>>
    /\ bytes' = 0

\* Mutant: the index of an item is taken for the index of a message.
CueOwnerDirect(i) == i + 1

\* An item's index counts within its request.
CueOwner(i) == batch[i + 1].owner

\* Items with no usable index or terms are ignored, and so may any item be missing.
AnnotationsAnswered ==
    /\ stage = "annotate"
    /\ attempt > 0
    /\ \E indexes \in SUBSET (-1 .. Len(batch)) :
        LET usable == {i \in indexes : 0 <= i /\ i < Len(batch)}
        IN  cues' = [m \in Messages |->
                        cues[m] \cup {batch[i + 1] : i \in {j \in usable : CueOwner(j) = m}}]
    /\ asked' = asked \o batch
    /\ NextBatch
    /\ UNCHANGED <<texts, stage, owner, at, sums, dimension>>

\* Mutant: what is left of the last batch is forgotten.
StartEmbeddingEarly ==
    /\ stage = "annotate"
    /\ attempt = 0
    /\ AtEnd
    /\ Begin("embed")
    /\ NextBatch
    /\ UNCHANGED <<texts, asked, cues, sums, dimension>>

StartEmbedding ==
    /\ stage = "annotate"
    /\ attempt = 0
    /\ AtEnd /\ batch = <<>>
    /\ Begin("embed")
    /\ UNCHANGED <<texts, batch, bytes, attempt, asked, cues, sums, dimension>>

\* The rows of an embedding answer: an index and the vector's dimension, 0 if it
\* is not a list of finite numbers.
Answers ==
    UNION {[1 .. n -> [index : 0 .. Len(batch), dimension : Dimensions \cup {0}]] :
           n \in {Len(batch) - 1, Len(batch)}}

\* One row for each input, no index out of range or given twice.
IndexesMatch(data) ==
    /\ Len(data) = Len(batch)
    /\ {data[k].index : k \in DOMAIN data} = 0 .. Len(batch) - 1

\* Mutant: the rows are taken in the order they came in.
SortedAsReceived(data) == data

\* sorted(data, key=row["index"])
Sorted(data) ==
    [i \in DOMAIN batch |-> data[CHOOSE k \in DOMAIN data : data[k].index = i - 1]]

\* Usable vectors of one dimension, that of all batches before.
VectorsUsable(data) ==
    \E d \in Dimensions :
        /\ dimension \in {0, d}
        /\ \A k \in DOMAIN data : data[k].dimension = d

\* Row i is weighted with the bytes of the batch's i-th piece, into its owner's sum.
\* (of is what the endpoint computed the vector from.)
Weighted(rows, i) ==
    [owner |-> batch[i].owner, of |-> batch[rows[i].index + 1],
     dimension |-> rows[i].dimension, weight |-> Length(batch[i])]

EmbeddingsAnswered ==
    /\ stage = "embed"
    /\ attempt > 0
    /\ \E data \in Answers :
        /\ IndexesMatch(data)
        /\ VectorsUsable(data)
        /\ dimension' = data[1].dimension
        /\ sums' = sums \o [i \in DOMAIN batch |-> Weighted(Sorted(data), i)]
    /\ NextBatch
    /\ UNCHANGED <<texts, stage, owner, at, asked, cues>>

\* An answer that fails these tests, as any may, ends the call; it is not asked for
\* again.
EmbeddingsRejected ==
    /\ stage = "embed"
    /\ attempt > 0
    /\ stage' = "failed"
    /\ attempt' = 0
    /\ UNCHANGED <<texts, owner, at, batch, bytes, asked, cues, sums, dimension>>

Return ==
    /\ stage = "embed"
    /\ attempt = 0
    /\ AtEnd /\ batch = <<>>
    /\ stage' = "done"
    /\ UNCHANGED <<texts, owner, at, batch, bytes, attempt, asked, cues, sums, dimension>>

Next ==
    \/ TakePiece
    \/ RefuseFragment
    \/ SendBatch
    \/ RequestFails
    \/ AnnotationsAnswered
    \/ StartEmbedding
    \/ EmbeddingsAnswered
    \/ EmbeddingsRejected
    \/ Return

Spec == Init /\ [][Next]_vars

\* Each request ends by itself: it has a timeout.
FairSpec == Spec /\ WF_vars(Next)

-----------------------------------------------------------------------------
Pieces == [owner : Nat, from : Nat, to : Nat]
Vectors == [owner : Nat, of : Pieces, dimension : Dimensions, weight : Int]

TypeOK ==
    /\ texts \in Seq(Texts) /\ texts # <<>>
    /\ stage \in Stages \cup {"done", "failed"}
    /\ owner \in 1 .. Len(texts) + 1
    /\ at \in Nat
    /\ batch \in Seq(Pieces)
    /\ bytes \in Nat
    /\ attempt \in 0 .. Attempts
    /\ asked \in Seq(Pieces)
    /\ cues \in [Messages -> SUBSET Pieces]
    /\ sums \in Seq(Vectors)
    /\ dimension \in Dimensions \cup {0}

\* The bytes of the texts of an embedding request.
TextSize(pieces) == SumFunction([i \in DOMAIN pieces |-> Length(pieces[i])])

\* What goes out respects both limits of its endpoint, JSON and its escapes included
\* where the limit is one of JSON, and is never empty (llm.py 131-148, 264-286).
RequestsAreBounded ==
    attempt > 0 =>
        /\ batch # <<>>
        /\ Len(batch) <= Limits[stage].items
        /\ IF stage = "annotate" THEN JsonSize(batch) <= Limits[stage].bytes
                                 ELSE TextSize(batch) <= Limits[stage].bytes

Own(pieces, m) == {i \in DOMAIN pieces : pieces[i].owner = m}

Has(piece, b) == piece.from <= b /\ b < piece.to

\* The pieces make up a text: every byte is in exactly one of them, and an empty
\* text is a piece too.
Covers(pieces, m) ==
    /\ Own(pieces, m) # {}
    /\ \A b \in 0 .. texts[m].size - 1 :
        \E i \in Own(pieces, m) :
            /\ Has(pieces[i], b)
            /\ \A j \in Own(pieces, m) : Has(pieces[j], b) => j = i

\* Before embedding starts the endpoint was asked about every byte of every message
\* once, and no message got terms of another one (llm.py 252-287).
AnnotationsAreComplete ==
    /\ stage \in {"embed", "done"} => \A m \in Messages : Covers(asked, m)
    /\ \A m \in Messages : \A p \in cues[m] : p.owner = m

\* What the vectors in the sums were computed from.
Origins == [i \in DOMAIN sums |-> sums[i].of]

\* The vectors averaged for a message are those of its own pieces, each added once and
\* weighted by its own bytes, and they cover it, in whatever order and batches they
\* came (llm.py 150-209).
VectorsCoverTheirTexts ==
    stage = "done" =>
        /\ \A m \in Messages : Covers(Origins, m)
        /\ \A i \in DOMAIN sums :
            /\ sums[i].owner = sums[i].of.owner
            /\ sums[i].weight = Length(sums[i].of)
            /\ sums[i].dimension = dimension

\* With at most three attempts a request the call ends, in vectors or in an error
\* (llm.py 363-492).
EveryCallEnds == <>(stage \in {"done", "failed"})
=============================================================================
