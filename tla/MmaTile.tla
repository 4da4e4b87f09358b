------------------------------ MODULE MmaTile ------------------------------
(***************************************************************************)
(* The vocabulary the packed kernels share: bytes as tuples of source      *)
(* bits, 16-byte vector registers, the 4x4 word transposition and the      *)
(* interleaved tile layout every repacker writes, the outer-product        *)
(* instruction that reads it, and sums of products.                        *)
(*                                                                         *)
(* Data is symbolic.  A byte is the function that says which source bit is *)
(* at each of its eight positions, so the decoding of a format is followed *)
(* bit by bit for all contents of a block at once; a sum of products is    *)
(* the bag of its products, with the factors it was multiplied by kept     *)
(* apart.                                                                  *)
(***************************************************************************)
EXTENDS Integers, FiniteSets, Bags, Sequences

-----------------------------------------------------------------------------
(* Bytes and words: position 0 is the least significant bit.               *)

Off == <<>>

\* Byte i of a field of a block, and the little-endian word of its bytes
\* first .. first + bytes - 1.
SourceByte(blk, field, i) == [k \in 0 .. 7 |-> <<blk, field, i, k>>]
SourceWord(blk, field, first, bytes) ==
    [k \in 0 .. 8 * bytes - 1 |-> <<blk, field, first + k \div 8, k % 8>>]

\* A byte promoted to int.
Promoted(v) == [k \in 0 .. 31 |-> IF k \in DOMAIN v THEN v[k] ELSE Off]

Shr(v, n) == [k \in DOMAIN v |-> IF k + n \in DOMAIN v THEN v[k + n] ELSE Off]
Shl(v, n) == [k \in DOMAIN v |-> IF k - n \in DOMAIN v THEN v[k - n] ELSE Off]

\* v & mask, the mask given by the positions of its ones.
And(v, ones) == [k \in DOMAIN v |-> IF k \in ones THEN v[k] ELSE Off]
LowBits(n)   == 0 .. n - 1

\* v | w; two source bits at one position do not happen in these formats and
\* stay visible as a pair.
Or(v, w) ==
    [k \in DOMAIN v |-> IF v[k] = Off THEN w[k] ELSE IF w[k] = Off THEN v[k] ELSE <<v[k], w[k]>>]

\* The number a byte or word holds, whatever its width.
Number(v) == {<<k, v[k]>> : k \in {b \in DOMAIN v : v[b] # Off}}

-----------------------------------------------------------------------------
(* Vector registers: four words of four bytes.                             *)

Vector(Byte(_)) == [w \in 0 .. 3 |-> [b \in 0 .. 3 |-> Byte(4 * w + b)]]

MergeH(u, v) == [w \in 0 .. 3 |-> IF w % 2 = 0 THEN u[w \div 2] ELSE v[w \div 2]]
MergeL(u, v) == [w \in 0 .. 3 |-> IF w % 2 = 0 THEN u[2 + w \div 2] ELSE v[2 + w \div 2]]

\* vec_xxpermdi with selector 0 (both high doublewords) and 3 (both low).
PermHigh(u, v) == [w \in 0 .. 3 |-> IF w < 2 THEN u[w] ELSE v[w - 2]]
PermLow(u, v)  == [w \in 0 .. 3 |-> IF w < 2 THEN u[w + 2] ELSE v[w]]

Untransposed(rows) == rows  \* mutant: the four rows go out as they came

\* mma_transpose4: vector w of the result holds word w of the four rows.
Transpose4(rows) ==
    LET t0 == MergeH(rows[0], rows[1])
        t1 == MergeL(rows[0], rows[1])
        t2 == MergeH(rows[2], rows[3])
        t3 == MergeL(rows[2], rows[3])
    IN  [w \in 0 .. 3 |-> CASE w = 0 -> PermHigh(t0, t2)
                            [] w = 1 -> PermLow(t0, t2)
                            [] w = 2 -> PermHigh(t1, t3)
                            [] w = 3 -> PermLow(t1, t3)]

UngroupedLanes(t, groups, g, h) == [r \in 0 .. 3 |-> t[groups * r + g][h]]  \* mutant: every groups-th lane

\* rows4: the h-th vectors of lanes 4 * g .. 4 * g + 3.
GroupedLanes(t, groups, g, h) == [r \in 0 .. 3 |-> t[4 * g + r][h]]

\* One chunk of a tile of 4 * groups lanes, t[lane][h] being the h-th vector
\* of a lane: the repackers transpose each group of four lanes to
\* v[4 * groups * h + g], stride groups.
PackTile(t, groups) ==
    [i \in Nat |->
        LET h == i \div (4 * groups)
            w == (i % (4 * groups)) \div groups
            g == i % groups
        IN  Transpose4(GroupedLanes(t, groups, g, h))[w]]

\* Per-lane numbers in vectors of four: element [g][l] belongs to lane
\* 4 * g + l.
LaneVectors(F(_), groups) == [g \in 0 .. groups - 1 |-> [l \in 0 .. 3 |-> F(4 * g + l)]]

NoClamp(l, size) == l  \* mutant: lanes beyond the matrix are read as they are

\* The row (or column) a lane of a ragged tile stands for.
ClampLane(l, size) == IF l >= size THEN size - 1 ELSE l

-----------------------------------------------------------------------------
(* Sums of products.                                                       *)

\* The bag of f[i] over the indices of f.
BagOfValues(f) ==
    LET entries == {<<i, f[i]>> : i \in DOMAIN f}
    IN  [v \in {e[2] : e \in entries} |-> Cardinality({e \in entries : e[2] = v})]

\* The single copies that the bag P has of the elements of S.
CopiesOf(P, S) == UNION {{p} \X (1 .. P[p]) : p \in S}

\* xvi8ger4pp repeated over the depth of a chunk: element <<row, col>> of the
\* accumulator gains the products of the four bytes of word row of x (read
\* as signed) and of word col of y (read as unsigned), at every step.
Accumulated(steps, x, y, row, col) ==
    BagOfValues([s \in (0 .. steps - 1) \X (0 .. 3) |->
        <<x[s[1]][row][s[2]], y[s[1]][col][s[2]]>>])

\* The 16x8 kernels: activations on the signed operand, acc[i][g] built from
\* y[2 * x + i] and a[4 * x + g].  The sum for tile row r and column j.
Sum16x8(steps, a, y, r, j) ==
    Accumulated(steps, [x \in 0 .. steps - 1 |-> y[2 * x + j \div 4]],
                       [x \in 0 .. steps - 1 |-> a[4 * x + r \div 4]], j % 4, r % 4)

\* The 8x8 kernels: weights on the signed operand, acc[g][i] built from
\* a[2 * x + g] and y[2 * x + i].
Sum8x8(steps, a, y, r, j) ==
    Accumulated(steps, [x \in 0 .. steps - 1 |-> a[2 * x + r \div 4]],
                       [x \in 0 .. steps - 1 |-> y[2 * x + j \div 4]], r % 4, j % 4)

\* One addend of a result: times * (product of the factors) * (sum of the
\* products); factors is a bag, so that a scale applied twice shows.
Addend(times, factors, products) ==
    [times |-> times, factors |-> factors, products |-> products]

Factor(f) == SetToBag({f})

\* An element of an activation block, and bsums[i] of a q8_K block: the sum
\* of its elements 16 * i .. 16 * i + 15 (maintained by the quantizer).
Activation(blk, e) == <<blk, e>>
BSum(blk, i) == SetToBag({<<Activation(blk, e)>> : e \in 16 * i .. 16 * i + 15})

\* The chunk of a pack of activations: depth 16-byte vectors from element
\* first on, of the eight blocks yb(j).
Activations(yb(_), first, depth) ==
    PackTile([j \in 0 .. 7 |-> [h \in 0 .. depth - 1 |->
        Vector(LAMBDA i : Activation(yb(j), first + 16 * h + i))]], 2)

-----------------------------------------------------------------------------
(* Activations on the unsigned operand (the 8x8 kernels).                  *)

Unflipped(y) == <<y, 0>>  \* mutant: the activations go in as they are

\* XOR 0x80: the unsigned byte is the signed one plus 128.
Flipped(y) == <<y, 128>>

\* depth 16-byte vectors of flipped activations from element first on.
FlippedActivations(yb(_), first, depth) ==
    PackTile([j \in 0 .. 7 |-> [h \in 0 .. depth - 1 |->
        Vector(LAMBDA i : Flipped(Activation(yb(j), first + 16 * h + i)))]], 2)

\* 128 * sum(w) over the vectors of weights of a lane.
C128Of(w, depth) ==
    [times |-> 128,
     sum   |-> BagOfValues([i \in 0 .. 16 * depth - 1 |-> w[i \div 16][(i % 16) \div 4][i % 4]])]

\* The bag of Part(p) for the products p of P.
PartsOf(P, Part(_)) ==
    [v \in {Part(p) : p \in DOMAIN P} |-> Cardinality(CopiesOf(P, {p \in DOMAIN P : Part(p) = v}))]

\* s * (P - C128), P being a sum of w * (y + bias): what the bias of the
\* activations adds and what C128 takes off cancel when they are the same.
Unbiased(s, P, C128) ==
    LET bias  == (CHOOSE p \in DOMAIN P : TRUE)[2][2]
        added == Addend(bias, s, PartsOf(P, LAMBDA p : p[1]))
        taken == Addend(C128.times, s, C128.sum)
    IN  {Addend(1, s, PartsOf(P, LAMBDA p : <<p[1], p[2][1]>>))} \cup
            (IF added = taken THEN {} ELSE {added, [taken EXCEPT !.times = -C128.times]})
=============================================================================
