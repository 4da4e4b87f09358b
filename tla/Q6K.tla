-------------------------------- MODULE Q6K --------------------------------
(***************************************************************************)
(* The q6_K kernel (src/q6_k_ppc_mma.cpp): superblocks of 256 weights in   *)
(* sixteen sub-blocks of 16 with 8-bit scales.  A weight is its 6-bit code *)
(* minus 32: a nibble of ql and two bits of qh.  A chunk is a sub-block.   *)
(***************************************************************************)
EXTENDS MmaTile

CONSTANTS Supers, Rows, Cols   \* superblocks of the slab; sizes under the tile

MR == 16
NR == 8
Chunks == 16 * Supers
Cases  == [rows : Rows, cols : Cols]

A(r, b) == <<"A", r, b>>   \* superblock b of row r
B(j, b) == <<"B", j, b>>   \* q8_K block b of column j

\* mutant: the nibble follows the half of the quarter, not its pair
NibbleByParity(blk, c) ==
    LET qq == (c % 8) \div 2
        lo == c % 2
        nib(i) == SourceByte(blk, "ql", 64 * (c \div 8) + 32 * (qq \div 2) + 16 * lo + i)
        hb(i)  == And(Shr(SourceByte(blk, "qh", 32 * (c \div 8) + 16 * lo + i), 2 * qq), LowBits(2))
    IN  [h \in {0} |-> Vector(LAMBDA i :
            Or(IF qq % 2 = 0 THEN And(nib(i), LowBits(4)) ELSE Shr(nib(i), 4), Shl(hb(i), 4)))]

\* q6k_codes16: the 16 codes of sub-block c.
Codes16(blk, c) ==
    LET half == c \div 8
        qq   == (c % 8) \div 2
        lo   == c % 2
        nib(i) == SourceByte(blk, "ql", 64 * half + 32 * (qq % 2) + 16 * lo + i)
        hb(i)  == And(Shr(SourceByte(blk, "qh", 32 * half + 16 * lo + i), 2 * qq), LowBits(2))
    IN  [h \in {0} |-> Vector(LAMBDA i :
            Or(IF qq < 2 THEN And(nib(i), LowBits(4)) ELSE Shr(nib(i), 4), Shl(hb(i), 4)))]

\* q6k_repack_a: one chunk of a tile of rows rows.
RepackA(rows, b, c) ==
    LET bp(r) == A(ClampLane(r, rows), b)
    IN  [v   |-> PackTile([r \in 0 .. MR - 1 |-> Codes16(bp(r), c)], 4),
         dsc |-> LaneVectors(LAMBDA r :
                    Factor(<<"d", bp(r)>>) (+) Factor(SourceByte(bp(r), "scales", c)), 4)]

\* q6k_pack_b: one chunk; TS is dB * 32 * bsums[c].
PackB(cols, b, c) ==
    LET yb(j) == B(ClampLane(j, cols), b)
    IN  [v  |-> Activations(yb, 16 * c, 1),
         dB |-> LaneVectors(LAMBDA j : Factor(<<"dB", yb(j)>>), 2),
         TS |-> LaneVectors(LAMBDA j : [times |-> 32, sum |-> BSum(yb(j), c)], 2)]

\* kernel6k_16x8: fin += dsc * (dB * P - TS).
Contribution(cs, r, j, ch) ==
    LET pa == RepackA(cs.rows, ch \div 16, ch % 16)
        pb == PackB(cs.cols, ch \div 16, ch % 16)
        TS == pb.TS[j \div 4][j % 4]
        s  == pb.dB[j \div 4][j % 4] (+) pa.dsc[r \div 4][r % 4]
    IN  {Addend(1, s, Sum16x8(4, pa.v, pb.v, r, j)), Addend(-TS.times, s, TS.sum)}

\* dref runs over l = 0 .. 31 of each half and takes four elements per l:
\* number k of them is at y[l + 32 * k], decoded from ql[l] or ql[l + 32],
\* low or high nibble, and bits 2 * k of qh[l], with scale sc[l / 16 + 2 * k].
Reference(cs, r, j, ch) ==
    LET b    == ch \div 16
        ql(n, l) == SourceByte(A(r, b), "ql", 64 * n + l)
        qh(n, l) == SourceByte(A(r, b), "qh", 32 * n + l)
        nibble(n, l, k) == CASE k = 0 -> And(ql(n, l), LowBits(4))
                             [] k = 1 -> And(ql(n, l + 32), LowBits(4))
                             [] k = 2 -> Shr(ql(n, l), 4)
                             [] k = 3 -> Shr(ql(n, l + 32), 4)
        q(n, l, k) == [nibble(n, l, k) EXCEPT ![4] = qh(n, l)[2 * k], ![5] = qh(n, l)[2 * k + 1]]
        scaled     == {x \in (0 .. 1) \X (0 .. 31) \X (0 .. 3) :
                          8 * x[1] + x[2] \div 16 + 2 * x[3] = ch % 16}
        y(n, l, k) == Activation(B(j, b), 128 * n + l + 32 * k)
        s    == Factor(<<"dB", B(j, b)>>) (+) Factor(<<"d", A(r, b)>>)
                   (+) Factor(SourceByte(A(r, b), "scales", ch % 16))
    IN  {Addend(1, s, BagOfValues([x \in scaled |->
                                      <<y(x[1], x[2], x[3]), q(x[1], x[2], x[3])>>])),
         Addend(-32, s, BagOfValues([x \in scaled |-> <<y(x[1], x[2], x[3])>>]))}
=============================================================================
