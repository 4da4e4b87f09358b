------------------------------ MODULE Numbers ------------------------------
(***************************************************************************)
(* Exact numbers for the conversions of scales: a finite nonnegative float *)
(* is a dyadic number n * 2^p in lowest terms, so that two conversions can *)
(* be compared for every input; and decoded weights, whose parts are       *)
(* symbolic, as sums of terms times a bag of factors.                      *)
(***************************************************************************)
EXTENDS MmaTile

\* n * 2^p.
Dyadic(n, p) ==
    IF n = 0 THEN [n |-> 0, p |-> 0]
    ELSE LET k == CHOOSE i \in 0 .. 30 : n % 2^i = 0 /\ (n \div 2^i) % 2 = 1
         IN  [n |-> n \div 2^k, p |-> p + k]

\* The bits of a float32: sign, exponent field and mantissa field.
Float(neg, e, m) == [neg |-> neg, e |-> e, m |-> m]

\* The number they stand for.
FloatValue(f) ==
    IF f.e = 255 THEN [finite |-> FALSE]
    ELSE [neg |-> f.neg,
          mag |-> IF f.e = 0 THEN Dyadic(f.m, -149) ELSE Dyadic(2^23 + f.m, f.e - 150)]

-----------------------------------------------------------------------------
\* mutant: the exponent of a subnormal is not lowered for its last shift
SubnormalOneUp(neg, mant) ==
    LET n == CHOOSE i \in 1 .. 10 : (mant * 2^i) \div 1024 = 1
    IN  Float(neg, 127 - 15 + 2 - n, ((mant * 2^n) % 1024) * 2^13)

\* fp16_to_fp32, the subnormals: shifted until bit 10 is set.
Subnormal(neg, mant) ==
    LET n == CHOOSE i \in 1 .. 10 : (mant * 2^i) \div 1024 = 1
    IN  Float(neg, 127 - 15 + 1 - n, ((mant * 2^n) % 1024) * 2^13)

Fp16ToFp32(h) ==
    LET neg  == h \div 2^15 = 1
        exp  == (h \div 2^10) % 2^5
        mant == h % 2^10
    IN  CASE exp = 0 /\ mant = 0 -> Float(neg, 0, 0)
          [] exp = 0 /\ mant # 0 -> Subnormal(neg, mant)
          [] exp = 31            -> Float(neg, 255, mant * 2^13)
          [] OTHER               -> Float(neg, exp + 127 - 15, mant * 2^13)

\* e8m0_half_to_fp32: ldexpf(1, e - 128).
E8M0HalfToFp32(e) == Dyadic(1, e - 128)

\* ue4m3_to_fp32: half of the number, zero for the pattern of NaN.
UE4M3ToFp32(x) ==
    LET exp == (x \div 8) % 16
        man == x % 8
    IN  CASE x \in {0, 127} -> Dyadic(0, 0)
          [] x \notin {0, 127} /\ exp = 0 -> Dyadic(man, -9 - 1)
          [] x \notin {0, 127} /\ exp # 0 -> Dyadic(8 + man, exp - 7 - 3 - 1)

-----------------------------------------------------------------------------
(* Decoded weights.                                                        *)

\* A scale: 2^two times the product of its factors.
ScaleOf(two, factors) == [two |-> two, factors |-> factors]
D(blk)         == Factor(<<"fp16", Number(SourceWord(blk, "d", 0, 2))>>)
PlusHalf(v)    == Factor(<<"1/2 +", Number(v)>>)
OddFactor(v)   == Factor(<<"1 + 2 *", Number(v)>>)

\* An entry of a table of rows of small integers.
Entry(grid, index, j) == <<grid, Number(index), j>>

\* The byte ksigns_iq2xs[index], and the mask kmask_iq2xs[j].
KSigns(index) == [k \in 0 .. 7 |-> <<"ksigns_iq2xs", Number(index), k>>]
KMask(j)      == {j}

\* A weight is a set of terms <<coefficient, atom>>.
\* neg ? -g : g.
Signed(neg, g) == {<<1, <<Number(neg), g>>>>}
Plain(g)       == {<<1, g>>}

\* scale * (sum of the terms), counted in eighths.
Element(scale, terms) ==
    [factors |-> scale.factors, eighths |-> {<<t[1] * 2^(3 + scale.two), t[2]>> : t \in terms}]
=============================================================================
