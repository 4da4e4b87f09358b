---------------------------- MODULE EarlierQBit ----------------------------
(***************************************************************************)
(* The earlier designs of the 1- and 2-bit kernels (src/reference): v1     *)
(* (q1_0_ppc_mma.cpp, q2_0_ppc_mma.cpp), a 4x4 tile computed from the raw  *)
(* operands, and v2 (q1_0_ppc_mma_v2.cpp), 8x8 from packs.  Both put the   *)
(* weights, alpha * code - 1, on the signed operand and the activations,   *)
(* flipped, on the unsigned one; v1 takes the 128 * sum(w) this adds off   *)
(* by a sum over the weights it has unpacked, v2 by counting the ones of   *)
(* the packed word.  v3 (qbit_ppc_mma_v3.cpp) packs and adds as v4 does.  A   *)
(* chunk of v1 and v2 is 32 weights, one of v3 a block of 128.             *)
(***************************************************************************)
EXTENDS MmaTile

CONSTANTS Blocks, Rows8, Rows16, Cols   \* as for QBit
v4 == INSTANCE QBit WITH Rows <- Rows16

MR == [v1 |-> 4, v2 |-> 8, v3 |-> 16]
NR == [v1 |-> 4, v2 |-> 8, v3 |-> 8]
Chunks == [v1 |-> 4 * Blocks, v2 |-> 4 * Blocks, v3 |-> Blocks]

\* v1 leaves what does not fill its tile to scalar code, v2 is for q1_0.
Cases == [
    v1 |-> [type : v4!Types, rows : {MR.v1}, cols : {NR.v1}],
    v2 |-> [type : {"q1_0"}, rows : Rows8, cols : Cols],
    v3 |-> [type : v4!Types, rows : Rows16, cols : Cols]]

A(r, ch) == v4!A(r, ch \div 4)
B(j, ch) == v4!B(j, ch \div 4, ch % 4)

\* alpha * code - 1 for a code of one or two bits.
Weight(type, code) == <<v4!Alpha(type), Number(code)>>

\* q1_unpack32_c: byte i / 8 of a vector, its bit i % 8.
UnpackQ1(blk, c) ==
    [h \in 0 .. 1 |-> Vector(LAMBDA i :
        Weight("q1_0", And(Shr(SourceByte(blk, "qs", 4 * c + 2 * h + i \div 8), i % 8), LowBits(1))))]

\* q2_unpack32_c: byte i / 4 of a vector, its two bits from 2 * (i % 4) on.
UnpackQ2(blk, c) ==
    [h \in 0 .. 1 |-> Vector(LAMBDA i :
        Weight("q2_0", And(Shr(SourceByte(blk, "qs", 8 * c + 4 * h + i \div 4), 2 * (i % 4)), LowBits(2))))]

Unpack32(type, blk, c) == IF type = "q1_0" THEN UnpackQ1(blk, c) ELSE UnpackQ2(blk, c)

\* Flipped activations of columns yb, two vectors deep, in groups of four.
FlippedColumns(yb, groups) ==
    PackTile([j \in DOMAIN yb |-> [h \in 0 .. 1 |->
        Vector(LAMBDA i : Flipped(Activation(yb[j], 16 * h + i)))]], groups)

-----------------------------------------------------------------------------
(* v1.                                                                     *)

\* The unpacked weights of a chunk, and its operands.
Ta(cs, ch)   == [i \in 0 .. 3 |-> Unpack32(cs.type, A(i, ch), ch % 4)]
VecA(cs, ch) == PackTile(Ta(cs, ch), 1)
VecB(ch)     == FlippedColumns([j \in 0 .. 3 |-> B(j, ch)], 1)

\* q1_chunk_sum, q2_chunk_sum: 128 * csum of a row.
Csum128(ta) == C128Of(ta, 2)

\* q1mma_tile4x4, q2mma_tile4x4: (P - 128 * csum) * (dA * dB).
Tile4x4(cs, r, j, ch) ==
    LET P == Accumulated(8, VecA(cs, ch), VecB(ch), r, j)
    IN  Unbiased(Factor(<<"d", A(r, ch)>>) (+) Factor(<<"dB", B(j, ch)>>), P,
                 Csum128(Ta(cs, ch)[r]))

-----------------------------------------------------------------------------
(* v2.                                                                     *)

\* mutant: the word whose ones are counted is that of the block's first part
CorrOfFirst(blk, c) ==
    LET w == SourceWord(blk, "qs", 0, 4)
    IN  [constant |-> 4096, each |-> -256, ones |-> BagOfValues([k \in 0 .. 31 |-> {<<0, w[k]>>}])]

\* corr of pack_A8: 4096 - 256 * popcount(w).
CorrOf(blk, c) ==
    LET w == SourceWord(blk, "qs", 4 * c, 4)
    IN  [constant |-> 4096, each |-> -256, ones |-> BagOfValues([k \in 0 .. 31 |-> {<<0, w[k]>>}])]

\* What the bias of flipped activations adds to P, sum(w) * bias with w = 2 *
\* code - 1, with its sign reversed and in the same form.
MinusBias(P) ==
    LET bias == (CHOOSE p \in DOMAIN P : TRUE)[2][2]
    IN  [constant |-> bias * Cardinality(CopiesOf(P, DOMAIN P)), each |-> -2 * bias,
         ones     |-> PartsOf(P, LAMBDA p : p[1][2])]

PackA8(rows, ch) ==
    LET bp(r) == A(ClampLane(r, rows), ch)
    IN  [v    |-> PackTile([r \in 0 .. 7 |-> UnpackQ1(bp(r), ch % 4)], 2),
         dA   |-> [r \in 0 .. 7 |-> Factor(<<"d", bp(r)>>)],
         corr |-> [r \in 0 .. 7 |-> CorrOf(bp(r), ch % 4)]]

PackB8(cols, ch) ==
    LET yb == [j \in 0 .. 7 |-> B(ClampLane(j, cols), ch)]
    IN  [v  |-> FlippedColumns(yb, 2),
         dB |-> LaneVectors(LAMBDA j : Factor(<<"dB", yb[j]>>), 2)]

\* kernel_8x8: (P + corr) * (dA * dB).
Kernel8x8(cs, r, j, ch) ==
    LET pa == PackA8(cs.rows, ch)
        pb == PackB8(cs.cols, ch)
        P  == Sum8x8(8, pa.v, pb.v, r, j)
        s  == pa.dA[r] (+) pb.dB[j \div 4][j % 4]
    IN  {Addend(1, s, PartsOf(P, LAMBDA p : <<p[1], p[2][1]>>))} \cup
            (IF pa.corr[r] = MinusBias(P) THEN {} ELSE {Addend(1, s, <<pa.corr[r], P>>)})

-----------------------------------------------------------------------------
(* v3.                                                                     *)

\* pack_A16_q1 and pack_A16_q2, part c of block b: as qbit_repack of v4.
PackA16(type, rows, b, c) == v4!RepackA(type, rows, b, c)

\* pack_B8: as qbit_pack_b of v4.
PackB16(cols, b, c) == v4!PackB(cols, b, c)

\* E of a block, one term for each part: dB * S.
E(cols, j, b) ==
    {LET pb == PackB16(cols, b, c)
     IN  <<pb.dB[j \div 4][j % 4], pb.S[j \div 4][j % 4]>> : c \in 0 .. 3}

\* kernel_16x8: alpha * dB * dA * P for the four parts of a block, and dA * E
\* taken off behind the loop.
Kernel16x8(cs, r, j, b) ==
    LET dA(c) == PackA16(cs.type, cs.rows, b, c).dA[r \div 4][r % 4]
        dB(c) == PackB16(cs.cols, b, c).dB[j \div 4][j % 4]
        P(c)  == Sum16x8(8, PackA16(cs.type, cs.rows, b, c).v, PackB16(cs.cols, b, c).v, r, j)
    IN  (UNION {v4!ByBits(v4!Alpha(cs.type), dB(c) (+) dA(c), P(c)) : c \in 0 .. 3})
        \cup {Addend(-1, dA(0) (+) e[1], e[2]) : e \in E(cs.cols, j, b)}

Contribution(design, cs, r, j, ch) ==
    CASE design = "v1" -> Tile4x4(cs, r, j, ch)
      [] design = "v2" -> Kernel8x8(cs, r, j, ch)
      [] design = "v3" -> Kernel16x8(cs, r, j, ch)

\* q1_q8_dot_ref: bit e % 8 of byte e / 8 of the part.
DotRefQ1(cs, r, j, ch) ==
    BagOfValues([e \in 0 .. 31 |->
        LET byte == SourceByte(A(r, ch), "qs", 4 * (ch % 4) + e \div 8)
        IN  <<Weight(cs.type, And(Shr(byte, e % 8), {0})), Activation(B(j, ch), e)>>])

\* q2_q8_dot_ref: the four weights of byte b of the part.
DotRefQ2(cs, r, j, ch) ==
    LET qs(b)      == SourceByte(A(r, ch), "qs", 8 * (ch % 4) + b)
        w(b, t)    == Weight(cs.type, And(Shr(qs(b), <<0, 2, 4, 6>>[t + 1]), {0, 1}))
    IN  BagOfValues([x \in (0 .. 7) \X (0 .. 3) |->
            <<w(x[1], x[2]), Activation(B(j, ch), 4 * x[1] + x[2])>>])

DotRef(cs, r, j, ch) ==
    {Addend(1, Factor(<<"d", A(r, ch)>>) (+) Factor(<<"dB", B(j, ch)>>),
            IF cs.type = "q1_0" THEN DotRefQ1(cs, r, j, ch) ELSE DotRefQ2(cs, r, j, ch))}

\* dref_q1 and dref_q2 of v3, as those of v4.
Reference(design, cs, r, j, ch) ==
    IF design = "v3" THEN v4!Reference(cs, r, j, ch) ELSE DotRef(cs, r, j, ch)
=============================================================================
