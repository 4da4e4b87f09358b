------------------------------- MODULE Legacy -------------------------------
(***************************************************************************)
(* The kernel of the legacy formats (src/legacy_ppc_mma.cpp): q4_0, q4_1,  *)
(* q5_0 and q5_1, blocks of 32 weights, one block per chunk.  q4_0 and     *)
(* q5_0 take a fixed offset off the code and are multiplied with q8_0      *)
(* blocks; q4_1 and q5_1 add a minimum and are multiplied with q8_1        *)
(* blocks, whose stored s is dB times the sum of the block.                *)
(***************************************************************************)
EXTENDS MmaTile

CONSTANTS Blocks, Rows, Cols   \* blocks of the slab; sizes under the tile

MR == 16
NR == 8
Chunks == Blocks
Types  == {"q4_0", "q4_1", "q5_0", "q5_1"}
Cases  == [type : Types, rows : Rows, cols : Cols]

A(r, b) == <<"A", r, b>>   \* block b of row r
B(j, b) == <<"B", j, b>>   \* q8_0 or q8_1 block b of column j

Affine   == {"q4_1", "q5_1"}                    \* HAS_M, READ_S, MODE 1
FiveBits == {"q5_0", "q5_1"}
SFact(type) == IF type = "q5_0" THEN 16 ELSE 8  \* of the types with an offset

\* A number used once, where a sum of products is expected.
One == SetToBag({<<>>})

Nibbles32(blk) ==
    [h \in 0 .. 1 |-> Vector(LAMBDA i :
        LET byte == SourceByte(blk, "qs", i)
        IN  IF h = 0 THEN And(byte, LowBits(4)) ELSE Shr(byte, 4))]

\* mutant: both halves take the fifth bits of the first
SameHighBits(blk, v) ==
    [h \in 0 .. 1 |-> Vector(LAMBDA i :
        Or(v[h][i \div 4][i % 4],
           Shl(And(Shr(SourceByte(blk, "qh", i \div 8), i % 8), LowBits(1)), 4)))]

\* qh_merge: repL, repH choose the byte of qh, sh the bit.
QhMerge(blk, v) ==
    [h \in 0 .. 1 |-> Vector(LAMBDA i :
        Or(v[h][i \div 4][i % 4],
           Shl(And(Shr(SourceByte(blk, "qh", 2 * h + i \div 8), i % 8), LowBits(1)), 4)))]

Codes(type, blk) ==
    IF type \in FiveBits THEN QhMerge(blk, Nibbles32(blk)) ELSE Nibbles32(blk)

\* repack_generic: one chunk; mA is 0 without HAS_M and then not used.
RepackA(type, rows, b) ==
    LET bp(r) == A(ClampLane(r, rows), b)
    IN  [v  |-> PackTile([r \in 0 .. MR - 1 |-> Codes(type, bp(r))], 4),
         dA |-> LaneVectors(LAMBDA r : Factor(<<"d", bp(r)>>), 4),
         mA |-> LaneVectors(LAMBDA r : Factor(<<"m", bp(r)>>), 4)]

\* pack_b_generic: one chunk.  SB is the stored s, or SFACT * dB * sum(y).
PackB(type, cols, b) ==
    LET yb(j) == B(ClampLane(j, cols), b)
        sum(j) == BSum(yb(j), 0) (+) BSum(yb(j), 1)
    IN  [v  |-> Activations(yb, 0, 2),
         dB |-> LaneVectors(LAMBDA j : Factor(<<"dB", yb(j)>>), 2),
         SB |-> LaneVectors(LAMBDA j :
                    IF type \in Affine
                    THEN [times |-> 1, factors |-> Factor(<<"s", yb(j)>>), sum |-> One]
                    ELSE [times |-> SFact(type), factors |-> Factor(<<"dB", yb(j)>>), sum |-> sum(j)],
                2)]

\* kernel_leg_16x8: fin += dA * (dB * P - SB), or fin += dA * dB * P + mA * SB.
Contribution(cs, r, j, ch) ==
    LET pa == RepackA(cs.type, cs.rows, ch)
        pb == PackB(cs.type, cs.cols, ch)
        dA == pa.dA[r \div 4][r % 4]
        SB == pb.SB[j \div 4][j % 4]
        P  == Addend(1, pb.dB[j \div 4][j % 4] (+) dA, Sum16x8(8, pa.v, pb.v, r, j))
    IN  IF cs.type \in Affine
        THEN {P, Addend(SB.times, SB.factors (+) pa.mA[r \div 4][r % 4], SB.sum)}
        ELSE {P, Addend(-SB.times, SB.factors (+) dA, SB.sum)}

\* The reference of the test: bit l of qh, read as one 32-bit number, is the
\* fifth bit of element l (q5code).
Reference(cs, r, j, ch) ==
    LET blk == A(r, ch)
        dy  == Factor(<<"dB", B(j, ch)>>)
        nib(l) == IF l < 16 THEN And(SourceByte(blk, "qs", l), LowBits(4))
                            ELSE Shr(SourceByte(blk, "qs", l - 16), 4)
        q(l)   == IF cs.type \in FiveBits
                  THEN [nib(l) EXCEPT ![4] = SourceByte(blk, "qh", l \div 8)[l % 8]]
                  ELSE nib(l)
        y(l)   == Activation(B(j, ch), l)
        scaled == Factor(<<"d", blk>>) (+) dy
        offset == CASE cs.type = "q5_0" -> 16 [] cs.type = "q4_0" -> 8
    IN  {Addend(1, scaled, BagOfValues([l \in 0 .. 31 |-> <<y(l), q(l)>>])),
         IF cs.type \in Affine
         THEN Addend(1, Factor(<<"m", blk>>) (+) Factor(<<"s", B(j, ch)>>), One)
         ELSE Addend(-offset, scaled, BagOfValues([l \in 0 .. 31 |-> <<y(l)>>]))}
=============================================================================
