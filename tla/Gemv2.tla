------------------------------- MODULE Gemv2 -------------------------------
(***************************************************************************)
(* The two-row product of a q4_K matrix with one vector                    *)
(* (gemv2_q4_K_q8_K_ppc in src/q4_k_ppc_mma.cpp): no packs and no outer    *)
(* products, but the twelve bytes of scales and minima of a superblock     *)
(* decoded in vector registers.  A chunk is a superblock; the tile is a    *)
(* pair of rows, of which the second may not exist.                        *)
(***************************************************************************)
EXTENDS MmaTile

CONSTANTS Supers, Rows, Cols
q4_K == INSTANCE Q4K

MR == 2
NR == 1
Chunks == Supers
Cases  == [rows : Rows, cols : Cols]

A(r, b) == q4_K!A(r, b)
B(b)    == q4_K!B(0, b)

\* vec_xl_len: the first len bytes, and zeros.
LoadLen(blk, field, first, len) ==
    Vector(LAMBDA i : IF i < len THEN SourceByte(blk, field, first + i)
                                 ELSE [k \in 0 .. 7 |-> Off])

\* vec_and with a splat mask, vec_sr by a splat, vec_or.
AndBytes(u, ones) == [w \in 0 .. 3 |-> [b \in 0 .. 3 |-> And(u[w][b], ones)]]
ShrBytes(u, n)    == [w \in 0 .. 3 |-> [b \in 0 .. 3 |-> Shr(u[w][b], n)]]
OrBytes(u, v)     == [w \in 0 .. 3 |-> [b \in 0 .. 3 |-> Or(u[w][b], v[w][b])]]

\* The setup of a row: eight scales and eight minima in bytes 0 .. 7 and
\* 8 .. 15 of a register.
Utmps(blk) ==
    LET u0  == LoadLen(blk, "scales", 0, 8)
        u30 == AndBytes(ShrBytes(u0, 2), {4, 5})
        u2  == LoadLen(blk, "scales", 8, 4)
        u31 == MergeH(AndBytes(u2, LowBits(4)), ShrBytes(u2, 4))
    IN  MergeH(AndBytes(u0, LowBits(6)), OrBytes(u30, u31))

\* vec_unpackh and vec_unpackl: the elements 0 .. 7 and 8 .. 15.
UnpackH(u) == [i \in 0 .. 7 |-> u[i \div 4][i % 4]]
UnpackL(u) == [i \in 0 .. 7 |-> u[2 + i \div 4][i % 4]]

\* vec_mergeh and vec_mergel of eight elements with themselves.
DoubledH(s) == [i \in 0 .. 7 |-> s[i \div 2]]
DoubledL(s) == [i \in 0 .. 7 |-> s[4 + i \div 2]]

Unrotated(scales) == scales  \* mutant: the second half meets the scales of the first

\* vec_sld by eight bytes.
Rotated(scales) == [i \in 0 .. 7 |-> scales[(i + 4) % 8]]

\* The activations behind bsums[s] for the s of S.
SumsOf(y, S) == BagOfValues([t \in S \X (0 .. 15) |-> <<Activation(y, 16 * t[1] + t[2])>>])

\* q4xmins0 and q4xmins1 times the sums of sixteen activations, even and odd
\* elements; equal minima are collected.
MinTerms(vdmin, minima, y) ==
    LET q4xmins == [i \in 0 .. 15 |-> IF i < 8 THEN DoubledH(minima)[i] ELSE DoubledL(minima)[i - 8]]
    IN  {Addend(-1, vdmin (+) Factor(q4xmins[i]), SumsOf(y, {k \in 0 .. 15 : q4xmins[k] = q4xmins[i]})) :
            i \in 0 .. 15}

\* vec_msum of a register of weights with sixteen activations.
Msum(y, first, x) ==
    BagOfValues([i \in 0 .. 15 |-> <<Activation(y, first + i), x[i \div 4][i % 4]>>])

\* sia0 .. sia3 of one half of the superblock: qv00 and qv10 with the scale
\* vs0, qv01 and qv11 with vs1, qv20 and qv30 with vs2, qv21 and qv31 with vs3.
ScaleTerms(vd, scales, blk, y, half) ==
    LET qx(i)   == Vector(LAMBDA b : SourceByte(blk, "qs", 64 * half + 16 * i + b))
        low(i)  == AndBytes(qx(i), LowBits(4))
        high(i) == ShrBytes(qx(i), 4)
        q8(e)   == 128 * half + e
        sia(n, first, u, v) ==
            Addend(1, vd (+) Factor(scales[n]), Msum(y, q8(first), u) (+) Msum(y, q8(first + 16), v))
    IN  {sia(0, 0, low(0), low(1)),   sia(1, 32, high(0), high(1)),
         sia(2, 64, low(2), low(3)),  sia(3, 96, high(2), high(3))}

\* One superblock of row r of the pair; without a second row the first is
\* computed twice.
Contribution(cs, r, j, ch) ==
    LET two  == 1 < cs.rows
        blk  == A(IF two THEN r ELSE 0, ch)
        yd   == Factor(<<"dB", B(ch)>>)
        utmps   == Utmps(blk)
        vscales == UnpackH(utmps)
    IN  MinTerms(Factor(<<"dmin", blk>>) (+) yd, UnpackL(utmps), B(ch)) \cup
        ScaleTerms(Factor(<<"d", blk>>) (+) yd, vscales, blk, B(ch), 0) \cup
        ScaleTerms(Factor(<<"d", blk>>) (+) yd, Rotated(vscales), blk, B(ch), 1)

\* dref, the eight sub-blocks of a superblock together.
Reference(cs, r, j, ch) == UNION {q4_K!Reference(cs, r, 0, 8 * ch + sub) : sub \in 0 .. 7}
=============================================================================
