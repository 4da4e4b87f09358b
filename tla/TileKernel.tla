----------------------------- MODULE TileKernel -----------------------------
(***************************************************************************)
(* The loop every packed kernel runs on one register tile, followed for    *)
(* one lane, that is one element of the tile: chunk after chunk the        *)
(* accumulators are filled and folded into fin, and the finished tile is   *)
(* stored, cut at the edge of the matrix.  What a chunk contributes to a   *)
(* lane, and what the format's scalar definition of the dot product says   *)
(* it should, come from the modules of the formats.                        *)
(***************************************************************************)
EXTENDS PackedKernels, Sequences

\* What runs without packs, and the designs the kernels superseded.
gemv2 == INSTANCE Gemv2 WITH Rows <- {1, 2}, Cols <- {1}
early == INSTANCE EarlierQBit WITH Blocks <- Supers

Designs == {"v1", "v2", "v3"}

\* What may be multiplied: a kernel, and a record with the variant and the
\* size of the part of the matrix under the tile.
Cases ==
    [kernel : {"q4_K"}, of : q4_K!Cases] \cup [kernel : {"q5_K"}, of : q5_K!Cases] \cup
    [kernel : {"q2_K"}, of : q2_K!Cases] \cup [kernel : {"q3_K"}, of : q3_K!Cases] \cup
    [kernel : {"q6_K"}, of : q6_K!Cases] \cup [kernel : {"leg"},  of : leg!Cases] \cup
    [kernel : {"iq4"},  of : iq4!Cases]  \cup [kernel : {"grid"}, of : grid!Cases] \cup
    [kernel : {"qbit"}, of : qbit!Cases] \cup [kernel : {"gemv2"}, of : gemv2!Cases] \cup
    UNION {[kernel : {v}, of : early!Cases[v]] : v \in Designs}

MR(k) ==
    CASE k \in {"iq4", "grid"} -> iq4!MR
      [] k = "gemv2"           -> gemv2!MR
      [] k \in Designs         -> early!MR[k]
      [] OTHER                 -> q4_K!MR
NR(k) ==
    CASE k = "gemv2"   -> gemv2!NR
      [] k \in Designs -> early!NR[k]
      [] OTHER         -> q4_K!NR

Chunks(k) ==
    CASE k \in {"q4_K", "q5_K"}         -> q4_K!Chunks
      [] k \in {"q2_K", "q3_K", "q6_K"} -> q2_K!Chunks
      [] k = "leg"  -> leg!Chunks
      [] k = "iq4"  -> iq4!Chunks
      [] k = "grid" -> grid!Chunks
      [] k = "qbit" -> qbit!Chunks
      [] k = "gemv2" -> gemv2!Chunks
      [] k \in Designs -> early!Chunks[k]

\* What chunk ch adds to lane <<r, j>>.
Contribution(cs, r, j, ch) ==
    CASE cs.kernel = "q4_K" -> q4_K!Contribution(cs.of, r, j, ch)
      [] cs.kernel = "q5_K" -> q5_K!Contribution(cs.of, r, j, ch)
      [] cs.kernel = "q2_K" -> q2_K!Contribution(cs.of, r, j, ch)
      [] cs.kernel = "q3_K" -> q3_K!Contribution(cs.of, r, j, ch)
      [] cs.kernel = "q6_K" -> q6_K!Contribution(cs.of, r, j, ch)
      [] cs.kernel = "leg"  -> leg!Contribution(cs.of, r, j, ch)
      [] cs.kernel = "iq4"  -> iq4!Contribution(cs.of, r, j, ch)
      [] cs.kernel = "grid" -> grid!Contribution(cs.of, r, j, ch)
      [] cs.kernel = "qbit" -> qbit!Contribution(cs.of, r, j, ch)
      [] cs.kernel = "gemv2" -> gemv2!Contribution(cs.of, r, j, ch)
      [] cs.kernel \in Designs -> early!Contribution(cs.kernel, cs.of, r, j, ch)

\* What the scalar dot product of row r and column j adds over chunk ch.
Reference(cs, r, j, ch) ==
    CASE cs.kernel = "q4_K" -> q4_K!Reference(cs.of, r, j, ch)
      [] cs.kernel = "q5_K" -> q5_K!Reference(cs.of, r, j, ch)
      [] cs.kernel = "q2_K" -> q2_K!Reference(cs.of, r, j, ch)
      [] cs.kernel = "q3_K" -> q3_K!Reference(cs.of, r, j, ch)
      [] cs.kernel = "q6_K" -> q6_K!Reference(cs.of, r, j, ch)
      [] cs.kernel = "leg"  -> leg!Reference(cs.of, r, j, ch)
      [] cs.kernel = "iq4"  -> iq4!Reference(cs.of, r, j, ch)
      [] cs.kernel = "grid" -> grid!Reference(cs.of, r, j, ch)
      [] cs.kernel = "qbit" -> qbit!Reference(cs.of, r, j, ch)
      [] cs.kernel = "gemv2" -> gemv2!Reference(cs.of, r, j, ch)
      [] cs.kernel \in Designs -> early!Reference(cs.kernel, cs.of, r, j, ch)

VARIABLES
    case,   \* the case; constant
    lane,   \* [r, j]: the element of the tile that is followed
    fin,    \* its value: what was added to it, in order
    out     \* what was stored, with its place in the matrix
vars == <<case, lane, fin, out>>

Init ==
    /\ case \in Cases
    /\ lane \in [r : 0 .. MR(case.kernel) - 1, j : 0 .. NR(case.kernel) - 1]
    /\ fin = <<>>
    /\ out = "pending"

\* One chunk: zero the accumulators, issue the outer products, fold.
Chunk ==
    /\ Len(fin) < Chunks(case.kernel)
    /\ fin' = Append(fin, Contribution(case, lane.r, lane.j, Len(fin)))
    /\ UNCHANGED <<case, lane, out>>

StoreAll(r, j) == TRUE  \* mutant: a full tile is stored whatever its size

InMatrix(r, j) == r < case.of.rows /\ j < case.of.cols

StoreEarly ==   \* mutant: the tile is stored before its last chunk
    /\ Len(fin) = Chunks(case.kernel) - 1 /\ out = "pending"
    /\ out' = IF InMatrix(lane.r, lane.j) THEN "stored" ELSE "dropped"
    /\ UNCHANGED <<case, lane, fin>>

\* The store loops run over the rows and columns that exist.
Store ==
    /\ Len(fin) = Chunks(case.kernel) /\ out = "pending"
    /\ out' = IF InMatrix(lane.r, lane.j) THEN "stored" ELSE "dropped"
    /\ UNCHANGED <<case, lane, fin>>

Next == Chunk \/ Store

Spec == Init /\ [][Next]_vars

-----------------------------------------------------------------------------
\* Every element of the matrix under the tile receives, chunk by chunk, the
\* products of its own row and column with the scales and corrections that
\* the scalar definition gives them; the lanes beyond the matrix compute with
\* the last row or column, so that nothing outside it is read, and are not
\* stored.  The chunk that was added last is compared: the earlier ones were
\* the last of earlier states.
EveryLaneIsReference ==
    /\ fin # <<>> =>
          fin[Len(fin)] = Reference(case, LastOr(lane.r, case.of.rows),
                                    LastOr(lane.j, case.of.cols), Len(fin) - 1)
    /\ out # "pending" => (out = "stored") = (lane.r < case.of.rows /\ lane.j < case.of.cols)

\* What is stored is the whole element: the addends of the scalar dot product of its row and
\* column over all chunks of the slab, each once and in order, and nothing else.
StoredIsWhole ==
    out = "stored" =>
        fin = [n \in 1 .. Chunks(case.kernel) |-> Reference(case, lane.r, lane.j, n - 1)]
=============================================================================
