-------------------------------- MODULE QBit --------------------------------
(***************************************************************************)
(* The 1- and 2-bit kernels (src/qbit_ppc_mma_v4.cpp): q1_0 and q2_0,      *)
(* blocks of 128 weights against four q8_0 blocks.  A weight is alpha * q  *)
(* - 1 for its code q; the GEMM takes the sum of the activations off in a  *)
(* second loop over the blocks of the slab, the GEMV works on the raw      *)
(* weights, bit by bit.  What both add to a result is compared by the bits *)
(* of the codes.  A chunk of the model is a block, four chunks of the      *)
(* code.                                                                   *)
(***************************************************************************)
EXTENDS MmaTile

CONSTANTS Blocks, Rows, Cols   \* 128-weight blocks of the slab; sizes under the tile

MR == 16
NR == 8
Chunks == Blocks
Types  == {"q1_0", "q2_0"}
Cases  ==
    [type : Types, kernel : {"gemm"}, rows : Rows, cols : Cols] \cup
    [type : Types, kernel : {"gemv"}, rows : {MR}, cols : {NR}]

A(r, b)    == <<"A", r, b>>           \* block b of row r
B(j, b, c) == <<"B", j, 4 * b + c>>   \* the q8_0 block of its part c

\* alpha: what the callers pass to qbit_gemm_packed.
Alpha(type) == IF type = "q1_0" THEN 2 ELSE 1

\* mutant: the second vector of a part starts where the first did
SameBytes(type, blk, c) ==
    [h \in 0 .. 1 |-> Vector(LAMBDA i :
        IF type = "q1_0"
        THEN And(Shr(SourceByte(blk, "qs", 4 * c + i \div 8), i % 8), LowBits(1))
        ELSE And(Shr(SourceByte(blk, "qs", 8 * c + i \div 4), 2 * (i % 4)), LowBits(2)))]

\* q1_codes32, q2_codes32: rep0 and rep1 (with off) choose the byte, sh the
\* bits.
Codes32(type, blk, c) ==
    [h \in 0 .. 1 |-> Vector(LAMBDA i :
        IF type = "q1_0"
        THEN And(Shr(SourceByte(blk, "qs", 4 * c + 2 * h + i \div 8), i % 8), LowBits(1))
        ELSE And(Shr(SourceByte(blk, "qs", 8 * c + 4 * h + i \div 4), 2 * (i % 4)), LowBits(2)))]

\* repack_rows: part c of block b.
RepackA(type, rows, b, c) ==
    LET bp(r) == A(ClampLane(r, rows), b)
    IN  [v  |-> PackTile([r \in 0 .. MR - 1 |-> Codes32(type, bp(r), c)], 4),
         dA |-> LaneVectors(LAMBDA r : Factor(<<"d", bp(r)>>), 4)]

\* qbit_pack_b: part c of block b.  E of the block is the sum of dB * S.
PackB(cols, b, c) ==
    LET yb(j) == B(ClampLane(j, cols), b, c)
    IN  [v  |-> Activations(yb, 0, 2),
         dB |-> LaneVectors(LAMBDA j : Factor(<<"dB", yb(j)>>), 2),
         S  |-> LaneVectors(LAMBDA j : BSum(yb(j), 0) (+) BSum(yb(j), 1), 2)]

\* times * s * (a sum of y * q) as one sum per bit of the codes q.
ByBits(times, s, P) ==
    LET bitsOf(q) == {k \in 0 .. 7 : q[k] # Off}
        planes    == UNION {bitsOf(p[2]) : p \in DOMAIN P}
    IN  {Addend(times * 2 ^ k, s, [e \in {<<p[1], p[2][k]>> : p \in DOMAIN P} |->
            Cardinality(CopiesOf(P, {p \in DOMAIN P : <<p[1], p[2][k]>> = e}))]) :
            k \in planes}

\* kernel_16x8: alpha * dB * dA * P for the four parts; then dA * E is taken
\* off.
Gemm(cs, r, j, b) ==
    UNION {
        LET pa == RepackA(cs.type, cs.rows, b, c)
            pb == PackB(cs.cols, b, c)
            dB == pb.dB[j \div 4][j % 4]
            dA == pa.dA[r \div 4][r % 4]
        IN  ByBits(Alpha(cs.type), dB (+) dA, Sum16x8(8, pa.v, pb.v, r, j))
            \cup {Addend(-1, dA (+) dB, pb.S[j \div 4][j % 4])} : c \in 0 .. 3}

\* gemv_row_q1: the activations under the mask of set bits, twice, minus S;
\* gemv_row_q2: those under the low bits, those under the high bits twice,
\* minus S.
Gemv(cs, r, j, b) ==
    UNION {
        LET blk     == A(r, b)
            y(i)    == Activation(B(j, b, c), i)
            per     == IF cs.type = "q1_0" THEN 8 ELSE 4           \* weights to a byte
            byte(i) == SourceByte(blk, "qs", (32 \div per) * c + i \div per)
            masked(bit(_)) == BagOfValues([i \in 0 .. 31 |-> <<y(i), byte(i)[bit(i % per)]>>])
            s       == Factor(<<"d", blk>>) (+) Factor(<<"dB", B(j, b, c)>>)
            sum     == BagOfValues([i \in 0 .. 31 |-> <<y(i)>>])
        IN  (IF cs.type = "q1_0"
             THEN {Addend(2, s, masked(LAMBDA i : i))}
             ELSE {Addend(1, s, masked(LAMBDA i : 2 * i)),
                   Addend(2, s, masked(LAMBDA i : 2 * i + 1))})
            \cup {Addend(-1, s, sum)} : c \in 0 .. 3}

Contribution(cs, r, j, ch) ==
    IF cs.kernel = "gemm" THEN Gemm(cs, r, j, ch) ELSE Gemv(cs, r, j, ch)

\* dref_q1: weights 2 * bit - 1, bit j % 8 of byte j / 8; dref_q2: q - 1, two
\* bits at 2 * t of byte b for weight 4 * b + t.
Reference(cs, r, j, ch) ==
    UNION {
        LET qs(i) == SourceByte(A(r, ch), "qs", i)
            q(e)  == IF cs.type = "q1_0"
                     THEN And(Shr(qs(4 * c + e \div 8), e % 8), LowBits(1))
                     ELSE LET t == e % 4 IN And(Shr(qs(8 * c + (e - t) \div 4), 2 * t), LowBits(2))
            y(e)  == Activation(B(j, ch, c), e)
            s     == Factor(<<"d", A(r, ch)>>) (+) Factor(<<"dB", B(j, ch, c)>>)
        IN  ByBits(Alpha(cs.type), s, BagOfValues([e \in 0 .. 31 |-> <<y(e), q(e)>>]))
            \cup {Addend(-1, s, BagOfValues([e \in 0 .. 31 |-> <<y(e)>>]))} : c \in 0 .. 3}
=============================================================================
