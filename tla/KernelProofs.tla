---------------------------- MODULE KernelProofs ----------------------------
(***************************************************************************)
(* Proofs about the tile loop: the superseded designs and the two-row      *)
(* product first, with which every kernel is covered, then the invariant   *)
(* of a lane and the theorem that it receives, chunk by chunk, what the    *)
(* scalar dot product of its format adds.                                  *)
(***************************************************************************)
EXTENDS TileKernel, PackedKernelProofs

-----------------------------------------------------------------------------
(* The superseded designs.                                                 *)

\* The instance speaks of the same tiles, sums and bits.
LEMMA Vocabulary_early ==
  /\ \A t, groups : early!PackTile(t, groups) = PackTile(t, groups)
  /\ \A steps, a, y, r, j : early!Sum8x8(steps, a, y, r, j) = Sum8x8(steps, a, y, r, j)
  /\ \A a, b : early!(+)(a, b) = a (+) b
  /\ \A f : early!BagOfValues(f) = BagOfValues(f)
  /\ \A f : early!Factor(f) = Factor(f)
  /\ \A times, f, P : early!Addend(times, f, P) = Addend(times, f, P)
  /\ \A l, size : early!ClampLane(l, size) = ClampLane(l, size)
  /\ \A blk, e : early!Activation(blk, e) = Activation(blk, e)
  /\ \A blk, field, i : early!SourceByte(blk, field, i) = SourceByte(blk, field, i)
  /\ \A n : early!LowBits(n) = LowBits(n)
  /\ \A v, n : early!Shr(v, n) = Shr(v, n) /\ early!Shl(v, n) = Shl(v, n)
  /\ \A v, w : early!And(v, w) = And(v, w) /\ early!Or(v, w) = Or(v, w)
  /\ \A w, depth : early!C128Of(w, depth) = C128Of(w, depth)
  /\ \A s, P, c : early!Unbiased(s, P, c) = Unbiased(s, P, c)
  /\ \A y : early!Flipped(y) = Flipped(y)
  /\ \A steps, x, y, row, col : early!Accumulated(steps, x, y, row, col) = Accumulated(steps, x, y, row, col)
  /\ \A S : early!Cardinality(S) = Cardinality(S)
  /\ \A P, S : early!CopiesOf(P, S) = CopiesOf(P, S)
  /\ \A v : early!Number(v) = Number(v)
  /\ \A blk, field, first, n : early!SourceWord(blk, field, first, n) = SourceWord(blk, field, first, n)
BY DEF early!PackTile, PackTile, early!Transpose4, Transpose4, early!GroupedLanes, GroupedLanes,
       early!MergeH, MergeH, early!MergeL, MergeL, early!PermHigh, PermHigh, early!PermLow, PermLow,
       early!Sum8x8, Sum8x8, early!Accumulated, Accumulated, early!BagOfValues, BagOfValues,
       early!Cardinality, Cardinality, early!(+), (+), early!Factor, Factor, early!SetToBag, SetToBag,
       early!Addend, Addend, early!C128Of, C128Of, early!Unbiased, Unbiased, early!PartsOf, PartsOf,
       early!CopiesOf, CopiesOf, early!Flipped, Flipped, early!Number, Number, early!SourceWord, SourceWord, early!Activation, Activation, early!ClampLane, ClampLane,
       early!SourceByte, SourceByte, early!LowBits, LowBits, early!Shr, Shr, early!Shl, Shl, early!And, And,
       early!Or, Or, early!Off, Off

\* The instance that v3 and the references are built from is that of the
\* kernels above.
LEMMA Vocabulary_v4 ==
  /\ \A type : early!v4!Alpha(type) = qbit!Alpha(type)
  /\ \A r, b : early!v4!A(r, b) = qbit!A(r, b)
  /\ \A j, b, c : early!v4!B(j, b, c) = qbit!B(j, b, c)
  /\ early!v4!Types = qbit!Types
  /\ \A times, s, P : early!v4!ByBits(times, s, P) = qbit!ByBits(times, s, P)
  /\ \A cols, b, c : early!v4!PackB(cols, b, c) = qbit!PackB(cols, b, c)
  /\ \A type, rows, b, c : early!v4!RepackA(type, rows, b, c) = qbit!RepackA(type, rows, b, c)
  /\ \A cs, r, j, b : early!v4!Reference(cs, r, j, b) = qbit!Reference(cs, r, j, b)
<1>1. /\ \A type : early!v4!Alpha(type) = qbit!Alpha(type)
      /\ \A r, b : early!v4!A(r, b) = qbit!A(r, b)
      /\ \A j, b, c : early!v4!B(j, b, c) = qbit!B(j, b, c)
      /\ early!v4!Types = qbit!Types
      /\ early!v4!MR = qbit!MR
      /\ \A f : early!v4!Factor(f) = qbit!Factor(f)
      /\ \A l, size : early!v4!ClampLane(l, size) = qbit!ClampLane(l, size)
  BY DEF early!v4!Alpha, qbit!Alpha, early!v4!A, qbit!A, early!v4!B, qbit!B, early!v4!Types, qbit!Types,
         early!v4!MR, qbit!MR, early!v4!Factor, qbit!Factor, early!v4!SetToBag, qbit!SetToBag,
         early!v4!ClampLane, qbit!ClampLane
<1>2. /\ \A a, b : early!v4!(+)(a, b) = qbit!(+)(a, b)
      /\ \A times, f, P : early!v4!Addend(times, f, P) = qbit!Addend(times, f, P)
      /\ \A f : early!v4!BagOfValues(f) = qbit!BagOfValues(f)
      /\ \A blk, e : early!v4!Activation(blk, e) = qbit!Activation(blk, e)
  BY DEF early!v4!(+), qbit!(+), early!v4!Addend, qbit!Addend, early!v4!Activation, qbit!Activation,
         early!v4!BagOfValues, qbit!BagOfValues, early!v4!Cardinality, qbit!Cardinality
<1>3. /\ \A blk, field, i : early!v4!SourceByte(blk, field, i) = qbit!SourceByte(blk, field, i)
      /\ \A v, n : early!v4!Shr(v, n) = qbit!Shr(v, n)
      /\ \A v, w : early!v4!And(v, w) = qbit!And(v, w)
      /\ \A n : early!v4!LowBits(n) = qbit!LowBits(n)
  BY DEF early!v4!And, qbit!And, early!v4!Shr, qbit!Shr, early!v4!SourceByte, qbit!SourceByte,
         early!v4!LowBits, qbit!LowBits, early!v4!Off, qbit!Off
<1>4. \A type, blk, c : early!v4!Codes32(type, blk, c) = qbit!Codes32(type, blk, c)
  BY <1>3 DEF early!v4!Codes32, qbit!Codes32, early!v4!Vector, qbit!Vector
<1>5. \A t, groups : early!v4!PackTile(t, groups) = qbit!PackTile(t, groups)
  BY DEF early!v4!PackTile, qbit!PackTile, early!v4!Transpose4, qbit!Transpose4,
         early!v4!GroupedLanes, qbit!GroupedLanes, early!v4!MergeH, qbit!MergeH, early!v4!MergeL, qbit!MergeL,
         early!v4!PermHigh, qbit!PermHigh, early!v4!PermLow, qbit!PermLow
<1>6. \A times, s, P : early!v4!ByBits(times, s, P) = qbit!ByBits(times, s, P)
  BY DEF early!v4!ByBits, qbit!ByBits, early!v4!Off, qbit!Off, early!v4!Addend, qbit!Addend,
         early!v4!CopiesOf, qbit!CopiesOf, early!v4!Cardinality, qbit!Cardinality
<1>7. \A type, rows, b, c : early!v4!RepackA(type, rows, b, c) = qbit!RepackA(type, rows, b, c)
  BY ZenonT(40), <1>1, <1>4, <1>5 DEF early!v4!RepackA, qbit!RepackA, early!v4!LaneVectors, qbit!LaneVectors
<1>8. \A cols, b, c : early!v4!PackB(cols, b, c) = qbit!PackB(cols, b, c)
  BY DEF early!v4!PackB, qbit!PackB, early!v4!B, qbit!B, early!v4!ClampLane, qbit!ClampLane,
         early!v4!PackTile, qbit!PackTile, early!v4!Transpose4, qbit!Transpose4,
         early!v4!GroupedLanes, qbit!GroupedLanes, early!v4!MergeH, qbit!MergeH, early!v4!MergeL, qbit!MergeL,
         early!v4!PermHigh, qbit!PermHigh, early!v4!PermLow, qbit!PermLow, early!v4!Vector, qbit!Vector,
         early!v4!LaneVectors, qbit!LaneVectors, early!v4!Factor, qbit!Factor, early!v4!SetToBag, qbit!SetToBag,
         early!v4!Activations, qbit!Activations, early!v4!Activation, qbit!Activation,
         early!v4!BSum, qbit!BSum, early!v4!(+), qbit!(+)
<1>9. ASSUME NEW cs, NEW r, NEW j, NEW b
      PROVE  early!v4!Reference(cs, r, j, b) = qbit!Reference(cs, r, j, b)
  <2> DEFINE qs4(i) == early!v4!SourceByte(early!v4!A(r, b), "qs", i)
             code4(c, e) == IF cs.type = "q1_0"
                           THEN early!v4!And(early!v4!Shr(qs4(4 * c + e \div 8), e % 8), early!v4!LowBits(1))
                           ELSE early!v4!And(early!v4!Shr(qs4(8 * c + (e - (e % 4)) \div 4), 2 * (e % 4)), early!v4!LowBits(2))
             products4(c) == [e \in 0 .. 31 |-> <<early!v4!Activation(early!v4!B(j, b, c), e), code4(c, e)>>]
             sums4(c) == [e \in 0 .. 31 |-> <<early!v4!Activation(early!v4!B(j, b, c), e)>>]
             s4(c) == early!v4!(+)(early!v4!Factor(<<"d", early!v4!A(r, b)>>), early!v4!Factor(<<"dB", early!v4!B(j, b, c)>>))
             part4(c) == early!v4!ByBits(early!v4!Alpha(cs.type), s4(c), early!v4!BagOfValues(products4(c)))
                          \cup {early!v4!Addend(-1, s4(c), early!v4!BagOfValues(sums4(c)))}
             qs(i) == qbit!SourceByte(qbit!A(r, b), "qs", i)
             code(c, e) == IF cs.type = "q1_0"
                           THEN qbit!And(qbit!Shr(qs(4 * c + e \div 8), e % 8), qbit!LowBits(1))
                           ELSE qbit!And(qbit!Shr(qs(8 * c + (e - (e % 4)) \div 4), 2 * (e % 4)), qbit!LowBits(2))
             products(c) == [e \in 0 .. 31 |-> <<qbit!Activation(qbit!B(j, b, c), e), code(c, e)>>]
             sums(c) == [e \in 0 .. 31 |-> <<qbit!Activation(qbit!B(j, b, c), e)>>]
             s(c) == qbit!(+)(qbit!Factor(<<"d", qbit!A(r, b)>>), qbit!Factor(<<"dB", qbit!B(j, b, c)>>))
             part(c) == qbit!ByBits(qbit!Alpha(cs.type), s(c), qbit!BagOfValues(products(c)))
                          \cup {qbit!Addend(-1, s(c), qbit!BagOfValues(sums(c)))}
  <2>1. early!v4!Reference(cs, r, j, b) = UNION {part4(c) : c \in 0 .. 3}
    BY DEF early!v4!Reference
  <2>2. qbit!Reference(cs, r, j, b) = UNION {part(c) : c \in 0 .. 3}
    BY DEF qbit!Reference
  <2>3. ASSUME NEW c
        PROVE  part4(c) = part(c)
    <3>1. \A e : code4(c, e) = code(c, e)
      BY <1>1, <1>3
    <3>2. products4(c) = products(c)
      <4> HIDE DEF code4, code
      <4> QED BY <1>1, <1>2, <3>1
    <3>3. sums4(c) = sums(c) /\ s4(c) = s(c)
      BY <1>1, <1>2
    <3> HIDE DEF products4, products, sums4, sums, s4, s
    <3> QED BY <1>1, <1>2, <1>6, <3>2, <3>3
  <2> HIDE DEF part4, part
  <2> QED BY <2>1, <2>2, <2>3
<1> QED BY <1>1, <1>6, <1>7, <1>8, <1>9

\* v3: as the kernel of tiles of v4.
LEMMA Lane_v3 ==
  ASSUME NEW cs, cs.type \in qbit!Types, cs.rows \in Nat \ {0}, cs.cols \in Nat \ {0},
         NEW r \in 0 .. 15, NEW j \in 0 .. 7, NEW ch \in Nat
  PROVE  early!Contribution("v3", cs, r, j, ch)
            = early!Reference("v3", cs, LastOr(r, cs.rows), LastOr(j, cs.cols), ch)
<1> DEFINE row == qbit!A(LastOr(r, cs.rows), ch)
           col(c) == qbit!B(LastOr(j, cs.cols), ch, c)
           pa(c) == qbit!RepackA(cs.type, cs.rows, ch, c)
           pb(c) == qbit!PackB(cs.cols, ch, c)
           dB(c) == pb(c).dB[j \div 4][j % 4]
           dA(c) == pa(c).dA[r \div 4][r % 4]
           S(c) == pb(c).S[j \div 4][j % 4]
           E == {<<dB(c), S(c)>> : c \in 0 .. 3}
           fA == Factor(<<"d", row>>)
           fB(c) == Factor(<<"dB", col(c)>>)
           bits(c) == qbit!ByBits(qbit!Alpha(cs.type), fB(c) (+) fA, PartProducts(cs.type, row, col(c), c))
           sum(c) == Addend(-1, fA (+) fB(c), PartSum(col(c)))
<1>1. ASSUME NEW c \in 0 .. 3
      PROVE  /\ dA(c) = fA /\ dB(c) = fB(c) /\ S(c) = PartSum(col(c))
             /\ Sum16x8(8, pa(c).v, pb(c).v, r, j) = PartProducts(cs.type, row, col(c), c)
  <2>1. /\ row = qbit!A(LastOr(r, cs.rows), ch) /\ col(c) = qbit!B(LastOr(j, cs.cols), ch, c)
        /\ pa(c) = qbit!RepackA(cs.type, cs.rows, ch, c) /\ pb(c) = qbit!PackB(cs.cols, ch, c)
    OBVIOUS
  <2> HIDE DEF row, col, pa, pb
  <2>2. PartLane(pa(c), pb(c), r, j, cs.type, row, col(c), c)
    BY <2>1, Part_qbit
  <2> QED BY <2>2 DEF PartLane
<1>2. early!Contribution("v3", cs, r, j, ch)
        = (UNION {bits(c) : c \in 0 .. 3}) \cup {sum(c) : c \in 0 .. 3}
  <2> DEFINE part(c) == early!v4!ByBits(early!v4!Alpha(cs.type),
                            early!(+)(early!PackB16(cs.cols, ch, c).dB[j \div 4][j % 4], early!PackA16(cs.type, cs.rows, ch, c).dA[r \div 4][r % 4]),
                            early!Sum16x8(8, early!PackA16(cs.type, cs.rows, ch, c).v, early!PackB16(cs.cols, ch, c).v, r, j))
             last(e) == early!Addend(-1, early!(+)(early!PackA16(cs.type, cs.rows, ch, 0).dA[r \div 4][r % 4], e[1]), e[2])
  <2>1. early!Contribution("v3", cs, r, j, ch) = (UNION {part(c) : c \in 0 .. 3}) \cup {last(e) : e \in early!E(cs.cols, j, ch)}
    BY DEF early!Contribution, early!Kernel16x8
  <2>2. \A c : early!PackA16(cs.type, cs.rows, ch, c) = pa(c) /\ early!PackB16(cs.cols, ch, c) = pb(c)
    BY Vocabulary_v4 DEF early!PackA16, early!PackB16
  <2>3. early!E(cs.cols, j, ch) = E
    <3> HIDE DEF pb
    <3> QED BY <2>2 DEF early!E
  <2>4. ASSUME NEW c \in 0 .. 3
        PROVE  part(c) = bits(c)
    <3>1. early!Sum16x8(8, pa(c).v, pb(c).v, r, j) = Sum16x8(8, pa(c).v, pb(c).v, r, j)
      <4> HIDE DEF pa, pb
      <4> QED BY DEF early!Sum16x8, Sum16x8, early!Accumulated, Accumulated, early!BagOfValues, BagOfValues,
                     early!Cardinality, Cardinality
    <3> HIDE DEF pa, pb, row, col, fA, fB
    <3> QED BY <1>1, <2>2, <3>1, Vocabulary_early, Vocabulary_v4
  <2>5. \A c \in 0 .. 3 : last(<<dB(c), S(c)>>) = sum(c)
    <3>1. 0 \in 0 .. 3
      OBVIOUS
    <3>2. dA(0) = fA
      BY <1>1, <3>1
    <3> HIDE DEF pa, pb, row, col, fA, fB
    <3> QED BY <1>1, <2>2, <3>2, Vocabulary_early
  <2>6. {last(e) : e \in E} = {sum(c) : c \in 0 .. 3}
    <3> HIDE DEF last, sum, dB, S
    <3> QED BY <2>5
  <2>7. {part(c) : c \in 0 .. 3} = {bits(c) : c \in 0 .. 3}
    <3> HIDE DEF part, bits
    <3> QED BY <2>4
  <2> HIDE DEF part, last, bits, sum, E
  <2> QED BY <2>1, <2>3, <2>6, <2>7
<1>3. \A c : fB(c) (+) fA = fA (+) fB(c) /\ PartScale(row, col(c)) = fA (+) fB(c)
  <2>1. ASSUME NEW c
        PROVE  fB(c) (+) fA = fA (+) fB(c)
    <3>1. IsABag(fA) /\ IsABag(fB(c))
      BY FactorIsBag
    <3> HIDE DEF fA, fB
    <3> QED BY <3>1, PlusOfBags
  <2> HIDE DEF row, col
  <2> QED BY <2>1 DEF PartScale
<1>4. early!Reference("v3", cs, LastOr(r, cs.rows), LastOr(j, cs.cols), ch)
        = UNION {PartResult(cs.type, row, col(c), c) : c \in 0 .. 3}
  BY Vocabulary_v4, Reference_qbit DEF early!Reference
<1>5. \A c : PartResult(cs.type, row, col(c), c) = bits(c) \cup {sum(c)}
  <2> HIDE DEF row, col, fA, fB
  <2> QED BY <1>3 DEF PartResult
<1> HIDE DEF bits, sum, row, col
<1>6. UNION {PartResult(cs.type, row, col(c), c) : c \in 0 .. 3} = (UNION {bits(c) : c \in 0 .. 3}) \cup {sum(c) : c \in 0 .. 3}
  BY <1>5
<1> QED BY <1>2, <1>4, <1>6

\* The weights of a part, and their dot product with the activations.
PartWeight(type, blk, c, e) == <<qbit!Alpha(type), Number(PartCode(type, blk, c, e))>>
PartTerms(type, blk, col, c) == [e \in 0 .. 31 |-> <<PartWeight(type, blk, c, e), Activation(col, e)>>]
PartDot(type, blk, col, c) == BagOfValues(PartTerms(type, blk, col, c))

\* Unpacked weights are in their places.
LEMMA Unpacked_early ==
  ASSUME NEW type \in qbit!Types, NEW blk, NEW c \in 0 .. 3, NEW e \in 0 .. 31
  PROVE  LaneByte(early!Unpack32(type, blk, c), e) = PartWeight(type, blk, c, e)
<1> DEFINE h == e \div 16
           w == (e % 16) \div 4
           k == e % 4
           i == 4 * w + k
<1>1. h \in 0 .. 1 /\ w \in 0 .. 3 /\ k \in 0 .. 3 /\ 16 * h + i = e
  BY BytePlace
<1>2. i \in 0 .. 15 /\ i \div 4 = w /\ i % 4 = k
  <2> HIDE DEF h, w, k
  <2> QED BY <1>1
<1>3. 4 * c + 2 * h + i \div 8 = 4 * c + e \div 8 /\ i % 8 = e % 8 /\ 8 * c + 4 * h + i \div 4 = 8 * c + e \div 4 /\ i % 4 = e % 4
  <2> HIDE DEF h, i
  <2> QED BY <1>1, <1>2
<1>4. LaneByte(early!Unpack32(type, blk, c), e) = early!Unpack32(type, blk, c)[h][w][k]
  BY DEF LaneByte
<1>5. \A t, code : early!Weight(t, code) = <<qbit!Alpha(t), Number(code)>>
  BY Vocabulary_v4, Vocabulary_early DEF early!Weight
<1>6. CASE type = "q1_0"
  <2>1. early!Unpack32(type, blk, c)[h][w][k]
          = early!Weight("q1_0", And(Shr(SourceByte(blk, "qs", 4 * c + 2 * h + i \div 8), i % 8), LowBits(1)))
    <3> HIDE DEF h, w, k
    <3> QED BY <1>1, <1>6, Vocabulary_early DEF early!Unpack32, early!UnpackQ1, early!Vector
  <2> HIDE DEF h, w, k, i
  <2> QED BY <1>3, <1>4, <1>5, <1>6, <2>1 DEF PartWeight, PartCode
<1>7. CASE type = "q2_0"
  <2>1. early!Unpack32(type, blk, c)[h][w][k]
          = early!Weight("q2_0", And(Shr(SourceByte(blk, "qs", 8 * c + 4 * h + i \div 4), 2 * (i % 4)), LowBits(2)))
    <3> HIDE DEF h, w, k
    <3> QED BY <1>1, <1>7, Vocabulary_early DEF early!Unpack32, early!UnpackQ2, early!Vector
  <2> HIDE DEF h, w, k, i
  <2> QED BY <1>3, <1>4, <1>5, <1>7, <2>1 DEF PartWeight, PartCode
<1> QED BY <1>6, <1>7 DEF qbit!Types

\* Flipped activations are in their places.
FlipTile(yb) ==
    [j \in DOMAIN yb |-> [h \in 0 .. 1 |-> early!Vector(LAMBDA i : early!Flipped(early!Activation(yb[j], 16 * h + i)))]]

\* The flipped activations of a column are in its lane.
LEMMA Flips_early ==
  ASSUME NEW yb
  PROVE  /\ \A groups : early!FlippedColumns(yb, groups) = PackTile(FlipTile(yb), groups)
         /\ \A j \in DOMAIN yb, e \in 0 .. 31 : LaneByte(FlipTile(yb)[j], e) = <<Activation(yb[j], e), 128>>
<1>1. \A groups : early!FlippedColumns(yb, groups) = PackTile(FlipTile(yb), groups)
  <2>1. \A groups : early!FlippedColumns(yb, groups) = early!PackTile(FlipTile(yb), groups)
    BY DEF early!FlippedColumns, FlipTile
  <2> QED BY <2>1, Vocabulary_early
<1>2. ASSUME NEW j \in DOMAIN yb, NEW e \in 0 .. 31
      PROVE  LaneByte(FlipTile(yb)[j], e) = <<Activation(yb[j], e), 128>>
  <2> DEFINE h == e \div 16
             w == (e % 16) \div 4
             k == e % 4
  <2>1. h \in 0 .. 1 /\ w \in 0 .. 3 /\ k \in 0 .. 3 /\ 16 * h + (4 * w + k) = e
    BY BytePlace
  <2>2. LaneByte(FlipTile(yb)[j], e) = FlipTile(yb)[j][h][w][k]
    BY DEF LaneByte
  <2> HIDE DEF h, w, k
  <2>3. FlipTile(yb)[j][h][w][k] = early!Flipped(early!Activation(yb[j], 16 * h + (4 * w + k)))
    BY <2>1 DEF FlipTile, early!Vector
  <2> QED BY <2>1, <2>2, <2>3, Vocabulary_early DEF Flipped
<1> QED BY <1>1, <1>2

\* The scalar dot product of a part.
LEMMA DotRef_early ==
  ASSUME NEW cs, cs.type \in qbit!Types, NEW r, NEW j, NEW ch \in Nat
  PROVE  early!DotRef(cs, r, j, ch)
            = {Addend(1, PartScale(early!A(r, ch), early!B(j, ch)), PartDot(cs.type, early!A(r, ch), early!B(j, ch), ch % 4))}
<1> DEFINE row == early!A(r, ch)
           col == early!B(j, ch)
           c == ch % 4
           f == PartTerms(cs.type, row, col, c)
<1>1. \A t, code : early!Weight(t, code) = <<qbit!Alpha(t), Number(code)>>
  BY Vocabulary_v4, Vocabulary_early DEF early!Weight
<1>2. c \in 0 .. 3
  OBVIOUS
<1>3. ASSUME cs.type = "q1_0"
      PROVE  early!DotRefQ1(cs, r, j, ch) = PartDot(cs.type, row, col, c)
  <2> DEFINE g == [e \in 0 .. 31 |-> <<early!Weight(cs.type, early!And(early!Shr(early!SourceByte(row, "qs", 4 * c + e \div 8), e % 8), {0})),
                                       early!Activation(col, e)>>]
  <2>1. early!DotRefQ1(cs, r, j, ch) = early!BagOfValues(g)
    BY DEF early!DotRefQ1
  <2>2. LowBits(1) = {0}
    BY DEF LowBits
  <2>3. g = f
    <3> HIDE DEF row, col, c
    <3> QED BY <1>1, <1>3, <2>2, Vocabulary_early DEF f, PartTerms, PartWeight, PartCode
  <2> HIDE DEF f, g
  <2> QED BY <2>1, <2>3, Vocabulary_early DEF PartDot, f
<1>4. ASSUME cs.type = "q2_0"
      PROVE  early!DotRefQ2(cs, r, j, ch) = PartDot(cs.type, row, col, c)
  <2> DEFINE D == (0 .. 7) \X (0 .. 3)
             g == [x \in D |-> <<early!Weight(cs.type, early!And(early!Shr(early!SourceByte(row, "qs", 8 * c + x[1]), <<0, 2, 4, 6>>[x[2] + 1]), {0, 1})),
                                 early!Activation(col, 4 * x[1] + x[2])>>]
             place == [x \in D |-> 4 * x[1] + x[2]]
  <2>1. early!DotRefQ2(cs, r, j, ch) = early!BagOfValues(g)
    BY DEF early!DotRefQ2
  <2>2. LowBits(2) = {0, 1}
    BY DEF LowBits
  <2>3. DOMAIN f = 0 .. 31 /\ DOMAIN g = D
    BY DEF PartTerms
  <2>4. IsFiniteSet(D)
    <3>1. 0 \in Int /\ 7 \in Int /\ 3 \in Int
      OBVIOUS
    <3>2. IsFiniteSet(0 .. 7) /\ IsFiniteSet(0 .. 3)
      BY ONLY <3>1, FS_Interval
    <3> QED BY ONLY <3>2, FS_Product
  <2>5. place \in Bijection(D, 0 .. 31)
    <3>1. place \in [D -> 0 .. 31]
      OBVIOUS
    <3>2. \A a, b \in D : place[a] = place[b] => a = b
      <4>1. ASSUME NEW a1 \in 0 .. 7, NEW a2 \in 0 .. 3, NEW b1 \in 0 .. 7, NEW b2 \in 0 .. 3,
                   4 * a1 + a2 = 4 * b1 + b2
            PROVE  a1 = b1 /\ a2 = b2
        BY ONLY <4>1, a1 \in 0 .. 7, a2 \in 0 .. 3, b1 \in 0 .. 7, b2 \in 0 .. 3
      <4>2. \A a \in D : a[1] \in 0 .. 7 /\ a[2] \in 0 .. 3 /\ a = <<a[1], a[2]>> /\ place[a] = 4 * a[1] + a[2]
        OBVIOUS
      <4> HIDE DEF D, place
      <4> QED BY <4>1, <4>2
    <3>3. \A e \in 0 .. 31 : \E a \in D : place[a] = e
      <4>1. ASSUME NEW e \in 0 .. 31
            PROVE  <<e \div 4, e % 4>> \in D /\ place[<<e \div 4, e % 4>>] = e
        <5>1. e \div 4 \in 0 .. 7 /\ e % 4 \in 0 .. 3 /\ 4 * (e \div 4) + (e % 4) = e
          OBVIOUS
        <5> QED BY <5>1
      <4> QED BY <4>1
    <3> QED BY <3>1, <3>2, <3>3, Fun_IsBij
  <2>6. ASSUME NEW b \in 0 .. 7, NEW t \in 0 .. 3
        PROVE  f[place[<<b, t>>]] = g[<<b, t>>]
    <3> DEFINE e == 4 * b + t
    <3>1. e \in 0 .. 31 /\ e \div 4 = b /\ e % 4 = t /\ <<0, 2, 4, 6>>[t + 1] = 2 * t /\ <<b, t>> \in D
      OBVIOUS
    <3>2. place[<<b, t>>] = e
      BY <3>1
    <3>3. g[<<b, t>>] = <<early!Weight(cs.type, early!And(early!Shr(early!SourceByte(row, "qs", 8 * c + b), 2 * t), {0, 1})),
                          early!Activation(col, e)>>
      <4> HIDE DEF row, col, c
      <4> QED BY <3>1
    <3>4. f[e] = <<<<qbit!Alpha(cs.type), Number(And(Shr(SourceByte(row, "qs", 8 * c + e \div 4), 2 * (e % 4)), LowBits(2)))>>, Activation(col, e)>>
      <4> HIDE DEF row, col, c, e
      <4> QED BY <1>4, <3>1 DEF f, PartTerms, PartWeight, PartCode
    <3> HIDE DEF row, col, c, e, g, f, place
    <3> QED BY <1>1, <2>2, <3>1, <3>2, <3>3, <3>4, Vocabulary_early
  <2>7. \A x \in D : f[place[x]] = g[x]
    <3>1. \A x \in D : x[1] \in 0 .. 7 /\ x[2] \in 0 .. 3 /\ x = <<x[1], x[2]>>
      OBVIOUS
    <3> HIDE DEF f, g, place, D
    <3> QED BY SMTT(30), <2>6, <3>1
  <2> HIDE DEF f, g, D, place
  <2>8. BagOfValues(g) = BagOfValues(f)
    BY <2>3, <2>4, <2>5, <2>7, Reordered
  <2> QED BY <2>1, <2>8, Vocabulary_early DEF PartDot, f
<1>5. early!DotRef(cs, r, j, ch)
        = {early!Addend(1, early!(+)(early!Factor(<<"d", row>>), early!Factor(<<"dB", col>>)),
              IF cs.type = "q1_0" THEN early!DotRefQ1(cs, r, j, ch) ELSE early!DotRefQ2(cs, r, j, ch))}
  BY DEF early!DotRef
<1>6. cs.type \in {"q1_0", "q2_0"}
  BY DEF qbit!Types
<1> HIDE DEF row, col, c
<1> QED BY <1>3, <1>4, <1>5, <1>6, Vocabulary_early DEF PartScale, row, col, c

\* The terms of a lane of unpacked weights against flipped activations.
LEMMA Terms_early ==
  ASSUME NEW type \in qbit!Types, NEW blk, NEW col, NEW c \in 0 .. 3, NEW u, NEW v, u = early!Unpack32(type, blk, c),
         \A e \in 0 .. 31 : LaneByte(v, e) = <<Activation(col, e), 128>>
  PROVE  LaneTerms(PartTerms(type, blk, col, c), u, v, 2)
<1>1. \A e \in 0 .. 31 : LaneByte(u, e) = PartWeight(type, blk, c, e)
  BY Unpacked_early
<1> QED BY <1>1 DEF LaneTerms, PartTerms

\* v1: the weights unpacked on the fly.
LEMMA Lane_v1 ==
  ASSUME NEW cs, cs.type \in qbit!Types, cs.rows = 4, cs.cols = 4,
         NEW r \in 0 .. 3, NEW j \in 0 .. 3, NEW ch \in Nat
  PROVE  early!Contribution("v1", cs, r, j, ch)
            = early!Reference("v1", cs, LastOr(r, cs.rows), LastOr(j, cs.cols), ch)
<1> DEFINE row == early!A(r, ch)
           col == early!B(j, ch)
           c == ch % 4
           ta == early!Ta(cs, ch)
           yb == [l \in 0 .. 3 |-> early!B(l, ch)]
           tb == FlipTile(yb)
           x == PackTile(ta, 1)
           y == PackTile(tb, 1)
           s == PartScale(row, col)
           g == PartTerms(cs.type, row, col, c)
<1>1. ta[r] = early!Unpack32(cs.type, row, c)
  BY DEF early!Ta
<1>2. early!VecA(cs, ch) = x /\ early!VecB(ch) = y
  <2>1. early!VecA(cs, ch) = early!PackTile(ta, 1) /\ early!VecB(ch) = early!FlippedColumns(yb, 1)
    BY DEF early!VecA, early!VecB
  <2>2. early!FlippedColumns(yb, 1) = PackTile(FlipTile(yb), 1)
    <3> HIDE DEF yb
    <3> QED BY Flips_early
  <2> HIDE DEF ta, yb
  <2> QED BY <2>1, <2>2, Vocabulary_early
<1>3. \A e \in 0 .. 31 : LaneByte(tb[j], e) = <<Activation(col, e), 128>>
  <2>1. j \in DOMAIN yb /\ yb[j] = col
    OBVIOUS
  <2> HIDE DEF yb, col
  <2> QED BY <2>1, Flips_early
<1>4. Accumulated(8, x, y, r, j) = BagOfValues(ByteProducts(8, ta[r], tb[j]))
  <2>1. ASSUME NEW t, NEW l \in 0 .. 3, NEW n \in 0 .. 7
        PROVE  PackTile(t, 1)[n][l] = t[l][n \div 4][n % 4]
    <3>1. 1 \in {1, 2, 4} /\ l \in 0 .. 4 * 1 - 1 /\ n \in Nat /\ 1 * n + l \div 4 = n /\ l % 4 = l
      OBVIOUS
    <3>2. PackedWord(t, 1, l, n) = t[l][n \div 4][n % 4]
      BY <3>1, PackedLane
    <3> QED BY <3>1, <3>2 DEF PackedWord
  <2> DEFINE steps == 8
  <2>2. steps \in Nat /\ \A n \in 0 .. steps - 1 : n \in 0 .. 7
    OBVIOUS
  <2> HIDE DEF ta, tb, steps
  <2>3. \A n \in 0 .. steps - 1 : x[n][r] = ta[r][n \div 4][n % 4] /\ y[n][j] = tb[j][n \div 4][n % 4]
    BY <2>1, <2>2
  <2> HIDE DEF x, y
  <2>4. Accumulated(steps, x, y, r, j) = BagOfValues(ByteProducts(steps, ta[r], tb[j]))
    BY ONLY <2>2, <2>3, StepsAreBytes
  <2> QED BY <2>4 DEF steps
<1>5. BiasedLane(s, ta[r], tb[j], 2) = {Addend(1, s, BagOfValues(g))}
  <2>1. c \in 0 .. 3
    OBVIOUS
  <2> DEFINE u == ta[r]
             v == tb[j]
  <2> HIDE DEF row, col, c, s, u, v
  <2>2. u = early!Unpack32(cs.type, row, c) /\ \A e \in 0 .. 31 : LaneByte(v, e) = <<Activation(col, e), 128>>
    BY <1>1, <1>3 DEF u, v
  <2>3. LaneTerms(g, u, v, 2)
    BY <2>1, <2>2, Terms_early
  <2>4. 2 \in Nat \ {0}
    OBVIOUS
  <2> HIDE DEF g
  <2>5. BiasedLane(s, u, v, 2) = {Addend(1, s, BagOfValues(g))}
    BY ONLY <2>3, <2>4, UnbiasedLane
  <2> QED BY <2>5 DEF u, v
<1>6. early!Contribution("v1", cs, r, j, ch)
        = early!Unbiased(early!(+)(early!Factor(<<"d", row>>), early!Factor(<<"dB", col>>)),
                         early!Accumulated(8, early!VecA(cs, ch), early!VecB(ch), r, j), early!C128Of(ta[r], 2))
  BY DEF early!Contribution, early!Tile4x4, early!Csum128
<1>7. early!Contribution("v1", cs, r, j, ch) = {Addend(1, s, PartDot(cs.type, row, col, c))}
  <2>1. 4 * 2 = 8
    OBVIOUS
  <2>2. s = Factor(<<"d", row>>) (+) Factor(<<"dB", col>>)
    BY DEF PartScale
  <2> HIDE DEF ta, tb, x, y, row, col, c, s
  <2> QED BY <1>2, <1>4, <1>5, <1>6, <2>1, <2>2, Vocabulary_early DEF BiasedLane, PartDot
<1>8. early!Reference("v1", cs, LastOr(r, cs.rows), LastOr(j, cs.cols), ch) = {Addend(1, s, PartDot(cs.type, row, col, c))}
  <2>1. LastOr(r, cs.rows) = r /\ LastOr(j, cs.cols) = j
    BY DEF LastOr
  <2>2. early!DotRef(cs, r, j, ch) = {Addend(1, s, PartDot(cs.type, row, col, c))}
    BY DotRef_early
  <2> QED BY <2>1, <2>2 DEF early!Reference
<1> QED BY <1>7, <1>8

\* The correction in terms of the codes of a part.
CodesCorrection(row, c) ==
    [constant |-> 4096, each |-> -256, ones |-> BagOfValues([e \in 0 .. 31 |-> Number(PartCode("q1_0", row, c, e))])]

\* The correction counts the ones of the word that holds the codes of a part.
LEMMA CorrOf_early ==
  ASSUME NEW row, NEW c \in 0 .. 3
  PROVE  early!CorrOf(row, c) = CodesCorrection(row, c)
<1> DEFINE w == SourceWord(row, "qs", 4 * c, 4)
           f == [k \in 0 .. 31 |-> {<<0, w[k]>>}]
           g == [e \in 0 .. 31 |-> Number(PartCode("q1_0", row, c, e))]
<1> DEFINE word == early!SourceWord(row, "qs", 4 * c, 4)
           spelt == [k \in 0 .. 31 |-> {<<0, word[k]>>}]
<1>1. early!CorrOf(row, c) = [constant |-> 4096, each |-> -256, ones |-> BagOfValues(f)]
  <2>1. early!CorrOf(row, c) = [constant |-> 4096, each |-> -256, ones |-> early!BagOfValues(spelt)]
    BY DEF early!CorrOf
  <2>2. word = w
    <3> HIDE DEF word
    <3> QED BY Vocabulary_early DEF word
  <2>3. spelt = f
    <3> HIDE DEF word, w
    <3> QED BY <2>2
  <2> HIDE DEF spelt, f
  <2> QED BY <2>1, <2>3, Vocabulary_early
<1>2. ASSUME NEW e \in 0 .. 31
      PROVE  {<<0, w[e]>>} = Number(PartCode("q1_0", row, c, e))
  <2> DEFINE x == SourceByte(row, "qs", 4 * c + e \div 8)
             n == e % 8
             q == And(Shr(x, n), LowBits(1))
  <2>1. n \in 0 .. 7 /\ x[n] # Off /\ DOMAIN x = 0 .. 7
    BY DEF SourceByte, Off
  <2>2. w[e] = x[n]
    BY DEF SourceWord, SourceByte
  <2>3. PartCode("q1_0", row, c, e) = q
    BY DEF PartCode
  <2> HIDE DEF x, n, w
  <2>4. Shr(x, n) = [k \in 0 .. 7 |-> IF k + n \in 0 .. 7 THEN x[k + n] ELSE Off]
    BY <2>1 DEF Shr
  <2>5. DOMAIN q = 0 .. 7 /\ \A k \in 0 .. 7 : q[k] = IF k = 0 THEN x[n] ELSE Off
    BY <2>1, <2>4 DEF And, LowBits
  <2> HIDE DEF q
  <2>6. {b \in DOMAIN q : q[b] # Off} = {0}
    BY <2>1, <2>5
  <2>7. q[0] = x[n]
    BY <2>5
  <2>8. Number(q) = {<<0, q[0]>>}
    BY <2>6 DEF Number
  <2> QED BY <2>2, <2>3, <2>7, <2>8
<1>3. f = g
  <2> HIDE DEF w
  <2> QED BY <1>2
<1> HIDE DEF f, g
<1> QED BY <1>1, <1>3 DEF g, CodesCorrection

\* v2: the bias of the flipped activations is what the correction takes off.
LEMMA Lane_v2 ==
  ASSUME NEW cs, cs.type = "q1_0", cs.rows \in Nat \ {0}, cs.cols \in Nat \ {0},
         NEW r \in 0 .. 7, NEW j \in 0 .. 7, NEW ch \in Nat
  PROVE  early!Contribution("v2", cs, r, j, ch)
            = early!Reference("v2", cs, LastOr(r, cs.rows), LastOr(j, cs.cols), ch)
<1> DEFINE row == early!A(LastOr(r, cs.rows), ch)
           col == early!B(LastOr(j, cs.cols), ch)
           c == ch % 4
           pa == early!PackA8(cs.rows, ch)
           pb == early!PackB8(cs.cols, ch)
           ta == [l \in 0 .. 7 |-> early!UnpackQ1(early!A(early!ClampLane(l, cs.rows), ch), c)]
           yb == [l \in 0 .. 7 |-> early!B(early!ClampLane(l, cs.cols), ch)]
           tb == FlipTile(yb)
           s == PartScale(row, col)
           D == 0 .. 31
           f == [e \in D |-> <<PartWeight("q1_0", row, c, e), <<Activation(col, e), 128>>>>]
           g == PartTerms("q1_0", row, col, c)
           ones == [e \in D |-> Number(PartCode("q1_0", row, c, e))]
           P == BagOfValues(f)
<1>1. c \in 0 .. 3 /\ "q1_0" \in qbit!Types
  BY DEF qbit!Types
<1>2. ClampLane(r, cs.rows) = LastOr(r, cs.rows) /\ ClampLane(j, cs.cols) = LastOr(j, cs.cols)
  BY ClampIsLast
<1>3. /\ early!A(early!ClampLane(r, cs.rows), ch) = row
      /\ early!B(early!ClampLane(j, cs.cols), ch) = col
  BY <1>2, Vocabulary_early
<1>4. pa.v = PackTile(ta, 2) /\ pa.dA[r] = Factor(<<"d", row>>) /\ pa.corr[r] = early!CorrOf(row, c)
  <2>1. pa.v = early!PackTile(ta, 2)
    BY DEF early!PackA8
  <2>2. /\ pa.dA[r] = early!Factor(<<"d", early!A(early!ClampLane(r, cs.rows), ch)>>)
        /\ pa.corr[r] = early!CorrOf(early!A(early!ClampLane(r, cs.rows), ch), c)
    BY DEF early!PackA8
  <2> HIDE DEF pa, ta, row, c
  <2> QED BY <1>3, <2>1, <2>2, Vocabulary_early
<1>5. pb.v = PackTile(tb, 2)
  <2>1. pb.v = early!FlippedColumns(yb, 2)
    BY DEF early!PackB8
  <2> HIDE DEF pb, yb
  <2> QED BY <2>1, Flips_early
<1>6. pb.dB[j \div 4][j % 4] = Factor(<<"dB", col>>)
  <2> DEFINE a == j \div 4
             l == j % 4
  <2>1. a \in 0 .. 2 - 1 /\ l \in 0 .. 3 /\ 4 * a + l = j
    OBVIOUS
  <2>2. yb[j] = col
    BY <1>3
  <2>3. pb.dB[a][l] = early!Factor(<<"dB", yb[4 * a + l]>>)
    <3> HIDE DEF a, l
    <3> QED BY <2>1 DEF early!PackB8, early!LaneVectors
  <2> HIDE DEF yb, pb, col
  <2> QED BY <2>1, <2>2, <2>3, Vocabulary_early
<1>7. ASSUME NEW e \in D
      PROVE  LaneByte(ta[r], e) = PartWeight("q1_0", row, c, e) /\ LaneByte(tb[j], e) = <<Activation(col, e), 128>>
  <2>1. ta[r] = early!Unpack32("q1_0", row, c)
    <3>1. ta[r] = early!UnpackQ1(early!A(early!ClampLane(r, cs.rows), ch), c)
      OBVIOUS
    <3> HIDE DEF ta, row, c
    <3> QED BY <1>3, <3>1 DEF early!Unpack32
  <2>2. j \in DOMAIN yb /\ yb[j] = col
    BY <1>3
  <2> HIDE DEF ta, yb, row, col, c
  <2>3. LaneByte(ta[r], e) = PartWeight("q1_0", row, c, e)
    BY <1>1, <2>1, Unpacked_early
  <2>4. LaneByte(tb[j], e) = <<Activation(col, e), 128>>
    BY <2>2, Flips_early
  <2> QED BY <2>3, <2>4
<1>8. Sum8x8(8, pa.v, pb.v, r, j) = P
  <2>1. \A e \in 0 .. 4 * 8 - 1 : LaneByte(ta[r], e) = PartWeight("q1_0", row, c, e) /\ LaneByte(tb[j], e) = <<Activation(col, e), 128>>
    <3> HIDE DEF ta, tb, row, col, c
    <3> QED BY <1>7
  <2> HIDE DEF ta, tb, pa, pb, row, col, c
  <2>2. Sum8x8(8, PackTile(ta, 2), PackTile(tb, 2), r, j) = BagOfValues(ByteProducts(8, ta[r], tb[j]))
    <3>1. 8 \in Nat
      OBVIOUS
    <3>2. ASSUME NEW u, NEW v
          PROVE  Sum8x8(8, PackTile(u, 2), PackTile(v, 2), r, j) = BagOfValues(ByteProducts(8, u[r], v[j]))
      BY ONLY <3>1, r \in 0 .. 7, j \in 0 .. 7, Sum8x8OfTiles, ZenonT(40)
    <3> QED BY ONLY <3>2
  <2>3. ByteProducts(8, ta[r], tb[j]) = f
    BY <2>1 DEF ByteProducts
  <2> QED BY <2>2, <2>3, <1>4, <1>5
<1>9. IsFiniteSet(DOMAIN f) /\ DOMAIN f = D /\ Cardinality(D) = 32
  <2>1. 0 \in Int /\ 31 \in Int
    OBVIOUS
  <2>2. IsFiniteSet(D) /\ Cardinality(D) = (IF 0 > 31 THEN 0 ELSE 31 - 0 + 1)
    BY ONLY <2>1, FS_Interval
  <2> QED BY <2>2
<1>10. PartsOf(P, LAMBDA p : <<p[1], p[2][1]>>) = BagOfValues(g)
  <2>1. DOMAIN g = DOMAIN f /\ \A e \in DOMAIN f : g[e] = <<f[e][1], f[e][2][1]>>
    BY DEF PartTerms
  <2> HIDE DEF f, g
  <2> QED BY <1>9, <2>1, UnbiasedProducts
<1>11. PartsOf(P, LAMBDA p : p[1][2]) = BagOfValues(ones)
  <2> DEFINE part == [p \in DOMAIN P |-> p[1][2]]
  <2>1. DOMAIN P = {f[e] : e \in DOMAIN f}
    <3> HIDE DEF f
    <3> QED BY <1>9, SumTerms
  <2>2. \A e \in DOMAIN f : f[e][1][2] = ones[e]
    BY DEF PartWeight
  <2>3. DOMAIN ones = DOMAIN f
    OBVIOUS
  <2>4. P = BagOfValues(f)
    OBVIOUS
  <2> HIDE DEF P, f, ones
  <2>5. \A e \in DOMAIN f : part[f[e]] = ones[e]
    BY <2>1, <2>2
  <2>6. PartsOf(P, LAMBDA p : p[1][2]) = Parts(P, part)
    BY DEF PartsOf, Parts
  <2> HIDE DEF part
  <2>7. Parts(P, part) = BagOfValues(ones)
    BY <1>9, <2>3, <2>4, <2>5, PartsOfSum
  <2> QED BY <2>6, <2>7
<1>12. (CHOOSE p \in DOMAIN P : TRUE)[2][2] = 128
  <2>1. DOMAIN P = {f[e] : e \in DOMAIN f}
    <3> HIDE DEF f
    <3> QED BY <1>9, SumTerms
  <2>2. (\A e \in DOMAIN f : f[e][2][2] = 128) /\ 0 \in DOMAIN f
    OBVIOUS
  <2> HIDE DEF P, f
  <2>3. \E p : p \in DOMAIN P
    BY <2>1, <2>2
  <2>4. (CHOOSE p \in DOMAIN P : TRUE) \in DOMAIN P
    BY <2>3
  <2> QED BY <2>1, <2>2, <2>4
<1>13. Cardinality(CopiesOf(P, DOMAIN P)) = 32
  <2>1. DOMAIN P = {f[e] : e \in DOMAIN f}
    <3> HIDE DEF f
    <3> QED BY <1>9, SumTerms
  <2>2. P = BagOfValues(f)
    OBVIOUS
  <2> HIDE DEF P, f
  <2>3. {e \in DOMAIN f : f[e] \in DOMAIN P} = DOMAIN f
    BY <2>1
  <2>4. IsFiniteSet(DOMAIN f) /\ DOMAIN P \subseteq DOMAIN BagOfValues(f)
    BY <1>9, <2>2
  <2>5. Cardinality(CopiesOf(P, DOMAIN P)) = Cardinality({e \in DOMAIN f : f[e] \in DOMAIN P})
    BY ONLY <2>2, <2>4, CopiesAreTerms
  <2> QED BY <1>9, <2>3, <2>5
<1> DEFINE bias == (CHOOSE p \in DOMAIN P : TRUE)[2][2]
<1>14. early!MinusBias(P) = early!CorrOf(row, c)
  <2>1. early!MinusBias(P) = [constant |-> bias * early!Cardinality(early!CopiesOf(P, DOMAIN P)), each |-> -2 * bias,
                              ones |-> early!PartsOf(P, LAMBDA p : p[1][2])]
    <3> HIDE DEF P
    <3> QED BY DEF early!MinusBias
  <2>2. early!PartsOf(P, LAMBDA p : p[1][2]) = PartsOf(P, LAMBDA p : p[1][2])
    <3> HIDE DEF P
    <3> QED BY DEF early!PartsOf, PartsOf, early!Cardinality, Cardinality, early!CopiesOf, CopiesOf
  <2>3. early!CorrOf(row, c) = [constant |-> 4096, each |-> -256, ones |-> BagOfValues(ones)]
    <3>1. c \in 0 .. 3
      BY <1>1
    <3>2. ones = [e \in 0 .. 31 |-> Number(PartCode("q1_0", row, c, e))]
      OBVIOUS
    <3>3. early!CorrOf(row, c) = CodesCorrection(row, c)
      <4> HIDE DEF row, c
      <4> QED BY <3>1, CorrOf_early
    <3>4. CodesCorrection(row, c) = [constant |-> 4096, each |-> -256, ones |-> BagOfValues(ones)]
      <4> HIDE DEF row, c
      <4> QED BY <3>2 DEF CodesCorrection, ones
    <3> HIDE DEF row, c, ones
    <3> QED BY <3>3, <3>4
  <2>4. 128 * 32 = 4096 /\ -2 * 128 = -256
    OBVIOUS
  <2> HIDE DEF P, ones, row, c, bias
  <2>5. bias = 128
    BY <1>12 DEF bias
  <2>6. early!Cardinality(early!CopiesOf(P, DOMAIN P)) = 32
    BY <1>13, Vocabulary_early
  <2> QED BY <2>1, <2>2, <2>3, <2>4, <2>5, <2>6, <1>11
<1>15. early!Contribution("v2", cs, r, j, ch) = {Addend(1, s, PartDot("q1_0", row, col, c))}
  <2> DEFINE Q == early!Sum8x8(8, pa.v, pb.v, r, j)
             t == early!(+)(pa.dA[r], pb.dB[j \div 4][j % 4])
  <2>1. early!Contribution("v2", cs, r, j, ch)
          = {early!Addend(1, t, early!PartsOf(Q, LAMBDA p : <<p[1], p[2][1]>>))} \cup
               (IF pa.corr[r] = early!MinusBias(Q) THEN {} ELSE {early!Addend(1, t, <<pa.corr[r], Q>>)})
    BY DEF early!Contribution, early!Kernel8x8
  <2>2. Q = P /\ t = s
    <3> HIDE DEF pa, pb, P, row, col
    <3> QED BY <1>4, <1>6, <1>8, Vocabulary_early DEF PartScale
  <2>3. early!PartsOf(P, LAMBDA p : <<p[1], p[2][1]>>) = PartsOf(P, LAMBDA p : <<p[1], p[2][1]>>)
    <3> HIDE DEF P
    <3> QED BY DEF early!PartsOf, PartsOf, early!Cardinality, Cardinality, early!CopiesOf, CopiesOf
  <2>4. PartDot("q1_0", row, col, c) = BagOfValues(g)
    BY DEF PartDot
  <2> DEFINE kept == early!PartsOf(Q, LAMBDA p : <<p[1], p[2][1]>>)
  <2>5. kept = BagOfValues(g)
    <3>1. kept = early!PartsOf(P, LAMBDA p : <<p[1], p[2][1]>>)
      <4> HIDE DEF P, Q
      <4> QED BY <2>2 DEF early!PartsOf
    <3> QED BY <1>10, <2>3, <3>1
  <2> HIDE DEF P, Q, pa, pb, row, col, c, s, t, g, kept
  <2> QED BY <1>4, <1>14, <2>1, <2>2, <2>4, <2>5, Vocabulary_early DEF kept
<1>16. early!Reference("v2", cs, LastOr(r, cs.rows), LastOr(j, cs.cols), ch) = {Addend(1, s, PartDot("q1_0", row, col, c))}
  <2>1. early!DotRef(cs, LastOr(r, cs.rows), LastOr(j, cs.cols), ch) = {Addend(1, s, PartDot("q1_0", row, col, c))}
    BY <1>1, DotRef_early
  <2> QED BY <2>1 DEF early!Reference
<1> QED BY <1>15, <1>16

\* The operators gemv2 is written with are those of this module.
LEMMA Vocabulary_gemv2 ==
  /\ \A a, b : gemv2!(+)(a, b) = a (+) b
  /\ \A f : gemv2!BagOfValues(f) = BagOfValues(f)
  /\ \A f : gemv2!Factor(f) = Factor(f)
  /\ \A times, f, P : gemv2!Addend(times, f, P) = Addend(times, f, P)
  /\ \A blk, e : gemv2!Activation(blk, e) = Activation(blk, e)
  /\ \A blk, field, i : gemv2!SourceByte(blk, field, i) = SourceByte(blk, field, i)
  /\ \A n : gemv2!LowBits(n) = LowBits(n)
  /\ \A v, n : gemv2!Shr(v, n) = Shr(v, n)
  /\ \A v, w : gemv2!And(v, w) = And(v, w) /\ gemv2!Or(v, w) = Or(v, w)
  /\ \A u, v : gemv2!MergeH(u, v) = MergeH(u, v)
  /\ gemv2!Off = Off
BY DEF gemv2!(+), (+), gemv2!BagOfValues, BagOfValues, gemv2!Cardinality, Cardinality,
       gemv2!Factor, Factor, gemv2!SetToBag, SetToBag, gemv2!Addend, Addend,
       gemv2!Activation, Activation, gemv2!SourceByte, SourceByte, gemv2!LowBits, LowBits,
       gemv2!Shr, Shr, gemv2!And, And, gemv2!Or, Or, gemv2!MergeH, MergeH, gemv2!Off, Off

\* A scale and a minimum as the scalar code decodes them, and the codes of a
\* sub-block, in the vocabulary of this module.
SubScale(blk, m) ==
    LET q(i) == SourceByte(blk, "scales", i)
    IN  IF m < 4 THEN And(q(m), LowBits(6))
                 ELSE Or(And(q(m + 4), LowBits(4)), Shl(Shr(q(m - 4), 6), 4))
SubMin(blk, m) ==
    LET q(i) == SourceByte(blk, "scales", i)
    IN  IF m < 4 THEN And(q(m + 4), LowBits(6)) ELSE Or(Shr(q(m + 4), 4), Shl(Shr(q(m), 6), 4))
SubCode(blk, m, e) ==
    LET byte == SourceByte(blk, "qs", 32 * (m \div 2) + e)
    IN  IF m % 2 = 1 THEN Shr(byte, 4) ELSE And(byte, LowBits(4))

\* The two upper bits of one byte put above four bits of another.
LEMMA UpperBits ==
  ASSUME NEW v, DOMAIN v = 0 .. 7, NEW n, Narrow(n, 4)
  PROVE  /\ Or(And(Shr(v, 2), {4, 5}), n) = [k \in 0 .. 7 |-> IF k \in {4, 5} THEN v[k + 2] ELSE n[k]]
         /\ Or(n, Shl(Shr(v, 6), 4)) = [k \in 0 .. 7 |-> IF k \in {4, 5} THEN v[k + 2] ELSE n[k]]
<1> DEFINE up == And(Shr(v, 2), {4, 5})
           hi == Shl(Shr(v, 6), 4)
<1>1. up = [k \in 0 .. 7 |-> IF k \in {4, 5} THEN v[k + 2] ELSE Off]
  <2>1. Shr(v, 2) = [k \in 0 .. 7 |-> IF k + 2 \in 0 .. 7 THEN v[k + 2] ELSE Off]
    BY DEF Shr
  <2> QED BY <2>1 DEF And
<1>2. hi = [k \in 0 .. 7 |-> IF k \in {4, 5} THEN v[k + 2] ELSE Off]
  <2>1. Shr(v, 6) = [k \in 0 .. 7 |-> IF k + 6 \in 0 .. 7 THEN v[k + 6] ELSE Off]
    BY DEF Shr
  <2>2. hi = [k \in 0 .. 7 |-> IF k - 4 \in 0 .. 7 THEN Shr(v, 6)[k - 4] ELSE Off]
    BY <2>1 DEF Shl
  <2>3. \A k \in 0 .. 7 : hi[k] = IF k \in {4, 5} THEN v[k + 2] ELSE Off
    BY <2>1, <2>2
  <2> HIDE DEF hi
  <2> QED BY <2>2, <2>3
<1> HIDE DEF up, hi
<1>3. n = [k \in 0 .. 7 |-> n[k]] /\ n[4] = Off /\ n[5] = Off
  BY DEF Narrow
<1>4. \A k \in 0 .. 7 : up[k] # Off => k \in {4, 5}
  BY <1>1
<1>5. Or(up, n) = [k \in 0 .. 7 |-> IF k \in {4, 5} THEN v[k + 2] ELSE n[k]]
  BY <1>1, <1>3 DEF Or
<1>6. Or(n, hi) = [k \in 0 .. 7 |-> IF k \in {4, 5} THEN v[k + 2] ELSE n[k]]
  BY <1>2, <1>3 DEF Or
<1> QED BY <1>5, <1>6 DEF up, hi

\* The setup of a row finds the scales and the minima of the eight sub-blocks.
LEMMA Decoded_gemv2 ==
  ASSUME NEW blk, NEW b \in 0 .. 3
  PROVE  /\ gemv2!Utmps(blk)[0][b] = SubScale(blk, b)
         /\ gemv2!Utmps(blk)[1][b] = SubScale(blk, 4 + b)
         /\ gemv2!Utmps(blk)[2][b] = SubMin(blk, b)
         /\ gemv2!Utmps(blk)[3][b] = SubMin(blk, 4 + b)
<1> DEFINE q(i) == SourceByte(blk, "scales", i)
           u0 == gemv2!LoadLen(blk, "scales", 0, 8)
           u2 == gemv2!LoadLen(blk, "scales", 8, 4)
           u1 == gemv2!AndBytes(u0, gemv2!LowBits(6))
           u30 == gemv2!AndBytes(gemv2!ShrBytes(u0, 2), {4, 5})
           lo == gemv2!AndBytes(u2, gemv2!LowBits(4))
           hi == gemv2!ShrBytes(u2, 4)
           u31 == gemv2!MergeH(lo, hi)
           or == gemv2!OrBytes(u30, u31)
<1>1. /\ u0[0][b] = q(b) /\ u0[1][b] = q(4 + b) /\ u2[0][b] = q(8 + b)
  <2>1. /\ u0[0][b] = gemv2!SourceByte(blk, "scales", 0 + (4 * 0 + b))
        /\ u0[1][b] = gemv2!SourceByte(blk, "scales", 0 + (4 * 1 + b))
        /\ u2[0][b] = gemv2!SourceByte(blk, "scales", 8 + (4 * 0 + b))
    BY DEF gemv2!LoadLen, gemv2!Vector
  <2>2. 0 + (4 * 0 + b) = b /\ 0 + (4 * 1 + b) = 4 + b /\ 8 + (4 * 0 + b) = 8 + b
    OBVIOUS
  <2> HIDE DEF u0, u2
  <2> QED BY <2>1, <2>2, Vocabulary_gemv2
<1>2. gemv2!Utmps(blk) = gemv2!MergeH(u1, or)
  BY DEF gemv2!Utmps
<1> HIDE DEF u0, u2
<1>3. /\ u1[0][b] = And(q(b), LowBits(6)) /\ u1[1][b] = And(q(4 + b), LowBits(6))
      /\ lo[0][b] = And(q(8 + b), LowBits(4)) /\ hi[0][b] = Shr(q(8 + b), 4)
  <2>1. /\ u1[0][b] = gemv2!And(u0[0][b], gemv2!LowBits(6)) /\ u1[1][b] = gemv2!And(u0[1][b], gemv2!LowBits(6))
        /\ lo[0][b] = gemv2!And(u2[0][b], gemv2!LowBits(4)) /\ hi[0][b] = gemv2!Shr(u2[0][b], 4)
    BY DEF gemv2!AndBytes, gemv2!ShrBytes
  <2> HIDE DEF u1, lo, hi, q
  <2> QED BY <1>1, <2>1, Vocabulary_gemv2
<1>4. u30[0][b] = And(Shr(q(b), 2), {4, 5}) /\ u30[1][b] = And(Shr(q(4 + b), 2), {4, 5})
  <2>1. /\ u30[0][b] = gemv2!And(gemv2!Shr(u0[0][b], 2), {4, 5})
        /\ u30[1][b] = gemv2!And(gemv2!Shr(u0[1][b], 2), {4, 5})
    BY DEF gemv2!AndBytes, gemv2!ShrBytes
  <2> HIDE DEF u30, q
  <2> QED BY <1>1, <2>1, Vocabulary_gemv2
<1> HIDE DEF u1, lo, hi, u30
<1>5. u31[0] = lo[0] /\ u31[1] = hi[0]
  BY Vocabulary_gemv2 DEF MergeH
<1> HIDE DEF u31
<1>6. or[0][b] = Or(u30[0][b], u31[0][b]) /\ or[1][b] = Or(u30[1][b], u31[1][b])
  <2>1. or[0][b] = gemv2!Or(u30[0][b], u31[0][b]) /\ or[1][b] = gemv2!Or(u30[1][b], u31[1][b])
    BY DEF gemv2!OrBytes
  <2> HIDE DEF or
  <2> QED BY <2>1, Vocabulary_gemv2
<1> HIDE DEF or
<1>7. /\ gemv2!Utmps(blk)[0] = u1[0] /\ gemv2!Utmps(blk)[1] = or[0]
      /\ gemv2!Utmps(blk)[2] = u1[1] /\ gemv2!Utmps(blk)[3] = or[1]
  BY <1>2, Vocabulary_gemv2 DEF MergeH
<1>8. \A i : DOMAIN q(i) = 0 .. 7 /\ Narrow(And(q(i), LowBits(4)), 4) /\ Narrow(Shr(q(i), 4), 4)
  BY SourceIsByte, Nibbles
<1>9. /\ SubScale(blk, b) = And(q(b), LowBits(6)) /\ SubMin(blk, b) = And(q(4 + b), LowBits(6))
      /\ SubScale(blk, 4 + b) = Or(And(q(8 + b), LowBits(4)), Shl(Shr(q(b), 6), 4))
      /\ SubMin(blk, 4 + b) = Or(Shr(q(8 + b), 4), Shl(Shr(q(4 + b), 6), 4))
  <2>1. b < 4 /\ ~(4 + b < 4) /\ (4 + b) + 4 = 8 + b /\ (4 + b) - 4 = b /\ b + 4 = 4 + b
    OBVIOUS
  <2> HIDE DEF q
  <2> QED BY <2>1 DEF SubScale, SubMin, q
<1> HIDE DEF q
<1>10. /\ Or(And(Shr(q(b), 2), {4, 5}), And(q(8 + b), LowBits(4)))
            = Or(And(q(8 + b), LowBits(4)), Shl(Shr(q(b), 6), 4))
       /\ Or(And(Shr(q(4 + b), 2), {4, 5}), Shr(q(8 + b), 4))
            = Or(Shr(q(8 + b), 4), Shl(Shr(q(4 + b), 6), 4))
  BY <1>8, UpperBits
<1> QED BY <1>3, <1>4, <1>5, <1>6, <1>7, <1>9, <1>10

\* The registers of scales and minima hold those of the eight sub-blocks in order.
LEMMA Scales_gemv2 ==
  ASSUME NEW blk, NEW m \in 0 .. 7
  PROVE  /\ gemv2!UnpackH(gemv2!Utmps(blk))[m] = SubScale(blk, m)
         /\ gemv2!UnpackL(gemv2!Utmps(blk))[m] = SubMin(blk, m)
<1> DEFINE u == gemv2!Utmps(blk)
           b == m % 4
<1>1. gemv2!UnpackH(u)[m] = u[m \div 4][b] /\ gemv2!UnpackL(u)[m] = u[2 + m \div 4][b]
  BY DEF gemv2!UnpackH, gemv2!UnpackL
<1>2. b \in 0 .. 3 /\ ((m \div 4 = 0 /\ m = b) \/ (m \div 4 = 1 /\ m = 4 + b))
  OBVIOUS
<1>3. u[0][b] = SubScale(blk, b) /\ u[1][b] = SubScale(blk, 4 + b)
      /\ u[2][b] = SubMin(blk, b) /\ u[3][b] = SubMin(blk, 4 + b)
  BY <1>2, Decoded_gemv2
<1> HIDE DEF u, b
<1>4. CASE m \div 4 = 0 /\ m = b
  <2>1. 2 + m \div 4 = 2
    BY <1>4
  <2> QED BY <1>1, <1>3, <1>4, <2>1 DEF u
<1>5. CASE m \div 4 = 1 /\ m = 4 + b
  <2>1. 2 + m \div 4 = 3
    BY <1>5
  <2> QED BY <1>1, <1>3, <1>5, <2>1 DEF u
<1> QED BY <1>2, <1>4, <1>5 DEF u

\* Each minimum is made of bits no other is made of.
LEMMA MinimaDiffer ==
  ASSUME NEW blk, NEW m \in 0 .. 7, NEW n \in 0 .. 7, SubMin(blk, m) = SubMin(blk, n)
  PROVE  m = n
<1> DEFINE q(i) == SourceByte(blk, "scales", i)
<1>1. \A k \in 0 .. 3 : And(q(k + 4), LowBits(6))[0] = <<blk, "scales", k + 4, 0>>
  BY DEF SourceByte, And, LowBits
<1>2. \A k \in 4 .. 7 : Or(Shr(q(k + 4), 4), Shl(Shr(q(k), 6), 4))[0] = <<blk, "scales", k + 4, 4>>
  <2>1. ASSUME NEW k \in 4 .. 7
        PROVE  Or(Shr(q(k + 4), 4), Shl(Shr(q(k), 6), 4))[0] = <<blk, "scales", k + 4, 4>>
    <3> DEFINE lo == Shr(q(k + 4), 4)
               hi == Shl(Shr(q(k), 6), 4)
    <3>1. DOMAIN lo = 0 .. 7 /\ lo[0] = <<blk, "scales", k + 4, 4>>
      BY DEF Shr, SourceByte
    <3>2. hi[0] = Off
      BY DEF Shr, Shl, SourceByte
    <3>3. lo[0] # Off
      <4> HIDE DEF lo
      <4> QED BY <3>1 DEF Off
    <3> HIDE DEF lo, hi
    <3>4. Or(lo, hi)[0] = lo[0]
      BY <3>1, <3>2, <3>3 DEF Or
    <3> QED BY <3>1, <3>4 DEF lo, hi
  <2> QED BY <2>1
<1>3. \A k \in 0 .. 7 : SubMin(blk, k)[0] = <<blk, "scales", k + 4, IF k < 4 THEN 0 ELSE 4>>
  <2>1. \A k \in 0 .. 7 : SubMin(blk, k) = IF k < 4 THEN And(q(k + 4), LowBits(6))
                                           ELSE Or(Shr(q(k + 4), 4), Shl(Shr(q(k), 6), 4))
    BY DEF SubMin
  <2> HIDE DEF q
  <2> QED BY <1>1, <1>2, <2>1
<1>4. <<blk, "scales", m + 4, IF m < 4 THEN 0 ELSE 4>> = <<blk, "scales", n + 4, IF n < 4 THEN 0 ELSE 4>>
  BY <1>3
<1>5. m + 4 = n + 4
  BY <1>4
<1> QED BY <1>5

\* What the minimum of a sub-block takes off.
SubMinTerm(s, blk, y, m) ==
    Addend(-1, s (+) Factor(SubMin(blk, m)), BagOfValues([e \in 0 .. 31 |-> <<Activation(y, 32 * m + e)>>]))

\* The sums of sixteen behind a minimum are those of its sub-block.
LEMMA SumsOf_gemv2 ==
  ASSUME NEW y, NEW m \in 0 .. 7
  PROVE  gemv2!SumsOf(y, {2 * m, 2 * m + 1}) = BagOfValues([e \in 0 .. 31 |-> <<Activation(y, 32 * m + e)>>])
<1> DEFINE D == {2 * m, 2 * m + 1} \X (0 .. 15)
           E == 0 .. 31
           f == [e \in E |-> <<Activation(y, 32 * m + e)>>]
           g == [t \in D |-> <<Activation(y, 16 * t[1] + t[2])>>]
           h == [e \in E |-> <<2 * m + e \div 16, e % 16>>]
<1>1. gemv2!SumsOf(y, {2 * m, 2 * m + 1}) = BagOfValues(g)
  <2> DEFINE G == [t \in D |-> <<gemv2!Activation(y, 16 * t[1] + t[2])>>]
  <2>1. gemv2!SumsOf(y, {2 * m, 2 * m + 1}) = gemv2!BagOfValues(G)
    BY DEF gemv2!SumsOf
  <2>2. G = g
    BY Vocabulary_gemv2
  <2> HIDE DEF G, g
  <2> QED BY <2>1, <2>2, Vocabulary_gemv2
<1>2. \A e \in E : h[e] \in D /\ 16 * (2 * m + e \div 16) + (e % 16) = 32 * m + e
  <2>1. ASSUME NEW e \in E
        PROVE  /\ e \div 16 \in {0, 1} /\ e % 16 \in 0 .. 15
               /\ 16 * (2 * m + e \div 16) + (e % 16) = 32 * m + e
    OBVIOUS
  <2>2. ASSUME NEW e \in E
        PROVE  2 * m + e \div 16 \in {2 * m, 2 * m + 1}
    <3>1. CASE e \div 16 = 0
      BY <3>1
    <3>2. CASE e \div 16 = 1
      BY <3>2
    <3> QED BY <2>1, <3>1, <3>2
  <2> QED BY <2>1, <2>2
<1>3. h \in Bijection(E, D)
  <2>1. h \in [E -> D]
    BY <1>2
  <2>2. \A a, b \in E : h[a] = h[b] => a = b
    <3>1. \A a, b \in E : h[a] = h[b] => a \div 16 = b \div 16 /\ a % 16 = b % 16
      OBVIOUS
    <3>2. \A a, b \in E : a \div 16 = b \div 16 /\ a % 16 = b % 16 => a = b
      OBVIOUS
    <3> HIDE DEF h
    <3> QED BY <3>1, <3>2
  <2>3. \A t \in D : \E e \in E : h[e] = t
    <3>1. ASSUME NEW i \in {0, 1}, NEW k \in 0 .. 15
          PROVE  16 * i + k \in E /\ h[16 * i + k] = <<2 * m + i, k>>
      <4>1. 16 * i + k \in E /\ (16 * i + k) \div 16 = i /\ (16 * i + k) % 16 = k
        OBVIOUS
      <4> QED BY <4>1
    <3>2. \A t \in D : \E i \in {0, 1}, k \in 0 .. 15 : t = <<2 * m + i, k>>
      <4>1. 2 * m = 2 * m + 0
        OBVIOUS
      <4> QED BY <4>1
    <3> HIDE DEF h, D, E
    <3>3. ASSUME NEW t \in D
          PROVE  \E e \in E : h[e] = t
      <4>1. PICK i \in {0, 1}, k \in 0 .. 15 : t = <<2 * m + i, k>>
        BY <3>2
      <4>2. 16 * i + k \in E /\ h[16 * i + k] = <<2 * m + i, k>>
        BY <3>1
      <4> QED BY <4>1, <4>2
    <3> QED BY <3>3
  <2> HIDE DEF h, D, E
  <2> QED BY <2>1, <2>2, <2>3, Fun_IsBij
<1>4. \A e \in E : g[h[e]] = f[e]
  BY <1>2
<1>5. IsFiniteSet(E)
  <2>1. 0 \in Int /\ 31 \in Int
    OBVIOUS
  <2> QED BY ONLY <2>1, FS_Interval
<1>6. DOMAIN f = E /\ DOMAIN g = D
  OBVIOUS
<1> HIDE DEF f, g, h, D, E
<1>7. BagOfValues(f) = BagOfValues(g)
  BY <1>3, <1>4, <1>5, <1>6, Reordered
<1> QED BY <1>1, <1>7 DEF f, E

\* The even and the odd products with the minima, collected, are the eight sub-blocks.
LEMMA MinTerms_gemv2 ==
  ASSUME NEW s, NEW blk, NEW y
  PROVE  gemv2!MinTerms(s, gemv2!UnpackL(gemv2!Utmps(blk)), y) = {SubMinTerm(s, blk, y, m) : m \in 0 .. 7}
<1> DEFINE minima == gemv2!UnpackL(gemv2!Utmps(blk))
           mins == [i \in 0 .. 15 |-> IF i < 8 THEN gemv2!DoubledH(minima)[i] ELSE gemv2!DoubledL(minima)[i - 8]]
           alike(i) == {k \in 0 .. 15 : mins[k] = mins[i]}
           term(i) == gemv2!Addend(-1, gemv2!(+)(s, gemv2!Factor(mins[i])), gemv2!SumsOf(y, alike(i)))
           want(m) == SubMinTerm(s, blk, y, m)
<1>1. gemv2!MinTerms(s, minima, y) = {term(i) : i \in 0 .. 15}
  <2> HIDE DEF minima
  <2> QED BY DEF gemv2!MinTerms
<1>2. \A i \in 0 .. 15 : mins[i] = minima[i \div 2]
  <2>1. \A i \in 0 .. 7 : gemv2!DoubledH(minima)[i] = minima[i \div 2]
                          /\ gemv2!DoubledL(minima)[i] = minima[4 + i \div 2]
    <3> HIDE DEF minima
    <3> QED BY DEF gemv2!DoubledH, gemv2!DoubledL
  <2>2. \A i \in 8 .. 15 : i - 8 \in 0 .. 7 /\ 4 + (i - 8) \div 2 = i \div 2
    OBVIOUS
  <2> HIDE DEF minima
  <2> QED BY <2>1, <2>2
<1>3. \A m \in 0 .. 7 : minima[m] = SubMin(blk, m)
  BY Scales_gemv2
<1> HIDE DEF minima, mins
<1>4. ASSUME NEW i \in 0 .. 15
      PROVE  term(i) = want(i \div 2)
  <2> DEFINE m == i \div 2
  <2>1. m \in 0 .. 7 /\ \A k \in 0 .. 15 : k \div 2 \in 0 .. 7 /\ (k \div 2 = m <=> k \in {2 * m, 2 * m + 1})
    OBVIOUS
  <2>2. \A k \in 0 .. 15 : mins[k] = mins[i] <=> k \div 2 = m
    BY <1>2, <1>3, <2>1, MinimaDiffer
  <2>3. 2 * m \in 0 .. 15 /\ 2 * m + 1 \in 0 .. 15
    BY <2>1
  <2>4. mins[i] = SubMin(blk, m)
    BY <1>2, <1>3, <2>1
  <2> HIDE DEF m
  <2>5. alike(i) = {2 * m, 2 * m + 1}
    BY <2>1, <2>2, <2>3
  <2> HIDE DEF alike
  <2>6. gemv2!SumsOf(y, alike(i)) = BagOfValues([e \in 0 .. 31 |-> <<Activation(y, 32 * m + e)>>])
    BY <2>1, <2>5, SumsOf_gemv2
  <2>7. term(i) = Addend(-1, s (+) Factor(mins[i]), gemv2!SumsOf(y, alike(i)))
    BY Vocabulary_gemv2
  <2> HIDE DEF term
  <2> QED BY <2>4, <2>6, <2>7 DEF SubMinTerm, m
<1> HIDE DEF term, want
<1>5. \A m \in 0 .. 7 : 2 * m \in 0 .. 15 /\ (2 * m) \div 2 = m
  OBVIOUS
<1>6. \A i \in 0 .. 15 : i \div 2 \in 0 .. 7
  OBVIOUS
<1>7. {term(i) : i \in 0 .. 15} = {want(m) : m \in 0 .. 7}
  <2>1. \A v \in {term(i) : i \in 0 .. 15} : v \in {want(m) : m \in 0 .. 7}
    BY <1>4, <1>6
  <2>2. \A m \in 0 .. 7 : want(m) = term(2 * m)
    BY <1>4, <1>5
  <2>3. \A v \in {want(m) : m \in 0 .. 7} : v \in {term(i) : i \in 0 .. 15}
    BY <1>5, <2>2
  <2> QED BY <2>1, <2>3
<1> QED BY <1>1, <1>7 DEF minima, want

\* The sums of the first and of the second half of different terms.
LEMMA HalvesOfSum ==
  ASSUME NEW f, DOMAIN f = 0 .. 31, \A i, k \in 0 .. 31 : f[i] = f[k] => i = k,
         NEW g, DOMAIN g = 0 .. 15, \A i \in 0 .. 15 : g[i] = f[i],
         NEW h, DOMAIN h = 0 .. 15, \A i \in 0 .. 15 : h[i] = f[16 + i]
  PROVE  BagOfValues(g) (+) BagOfValues(h) = BagOfValues(f)
<1> DEFINE S == {f[i] : i \in 0 .. 31}
           T == {g[i] : i \in 0 .. 15}
           U == {h[i] : i \in 0 .. 15}
<1>1. IsFiniteSet(0 .. 15) /\ IsFiniteSet(0 .. 31)
  <2>1. 0 \in Int /\ 15 \in Int /\ 31 \in Int
    OBVIOUS
  <2> QED BY ONLY <2>1, FS_Interval
<1>2. BagOfValues(f) = SetToBag(S)
  BY <1>1, DifferentTerms
<1>3. BagOfValues(g) = SetToBag(T)
  <2>1. \A i, k \in 0 .. 15 : g[i] = g[k] => i = k
    OBVIOUS
  <2> QED BY <1>1, <2>1, DifferentTerms
<1>4. BagOfValues(h) = SetToBag(U)
  <2>1. \A i, k \in 0 .. 15 : h[i] = h[k] => i = k
    <3>1. \A i, k \in 0 .. 15 : h[i] = h[k] => 16 + i = 16 + k
      OBVIOUS
    <3> QED BY <3>1
  <2> QED BY <1>1, <2>1, DifferentTerms
<1>5. S = T \cup U
  <2>1. \A i \in 0 .. 31 : i \in 0 .. 15 \/ (i - 16 \in 0 .. 15 /\ 16 + (i - 16) = i)
    OBVIOUS
  <2>2. ASSUME NEW i \in 0 .. 31
        PROVE  f[i] \in T \cup U
    <3>1. CASE i \in 0 .. 15
      BY <3>1
    <3>2. CASE i - 16 \in 0 .. 15 /\ 16 + (i - 16) = i
      <4>1. h[i - 16] = f[i]
        BY <3>2
      <4> QED BY <3>2, <4>1
    <3> QED BY <2>1, <3>1, <3>2
  <2>3. \A i \in 0 .. 15 : i \in 0 .. 31 /\ 16 + i \in 0 .. 31
    OBVIOUS
  <2>4. \A i \in 0 .. 15 : g[i] \in S /\ h[i] \in S
    BY <2>3
  <2> QED BY <2>2, <2>4
<1>6. T \cap U = {}
  <2>1. ASSUME NEW i \in 0 .. 15, NEW k \in 0 .. 15, g[i] = h[k]
        PROVE  FALSE
    <3>1. i \in 0 .. 31 /\ 16 + k \in 0 .. 31 /\ i # 16 + k
      OBVIOUS
    <3> QED BY <2>1, <3>1
  <2> QED BY <2>1
<1> HIDE DEF S, T, U
<1>7. SetToBag(T) (+) SetToBag(U) = SetToBag(S)
  BY <1>5, <1>6 DEF SetToBag, (+)
<1> QED BY <1>2, <1>3, <1>4, <1>7

\* What the codes of a sub-block add with their scale.
SubProducts(blk, y, m) == [e \in 0 .. 31 |-> <<Activation(y, 32 * m + e), SubCode(blk, m, e)>>]
SubScaleTerm(s, blk, y, m) ==
    Addend(1, s (+) Factor(SubScale(blk, m)), BagOfValues(SubProducts(blk, y, m)))

\* Half a superblock adds what its four sub-blocks add with their scales.
LEMMA ScaleTerms_gemv2 ==
  ASSUME NEW s, NEW scales, NEW blk, NEW y, NEW half \in {0, 1},
         \A n \in 0 .. 3 : scales[n] = SubScale(blk, 4 * half + n)
  PROVE  gemv2!ScaleTerms(s, scales, blk, y, half) = {SubScaleTerm(s, blk, y, 4 * half + n) : n \in 0 .. 3}
<1> DEFINE qx(i) == [w \in 0 .. 3 |-> [b \in 0 .. 3 |-> gemv2!SourceByte(blk, "qs", 64 * half + 16 * i + (4 * w + b))]]
           low(i) == gemv2!AndBytes(qx(i), gemv2!LowBits(4))
           high(i) == gemv2!ShrBytes(qx(i), 4)
           sia(n, first, u, v) ==
             gemv2!Addend(1, gemv2!(+)(s, gemv2!Factor(scales[n])),
                 gemv2!(+)(gemv2!Msum(y, 128 * half + first, u), gemv2!Msum(y, 128 * half + (first + 16), v)))
           reg(n, k) == IF n % 2 = 0 THEN low(2 * (n \div 2) + k) ELSE high(2 * (n \div 2) + k)
           want(n) == SubScaleTerm(s, blk, y, 4 * half + n)
<1>1. gemv2!ScaleTerms(s, scales, blk, y, half)
        = {sia(0, 0, low(0), low(1)), sia(1, 32, high(0), high(1)),
           sia(2, 64, low(2), low(3)), sia(3, 96, high(2), high(3))}
  BY DEF gemv2!ScaleTerms, gemv2!Vector
<1>2. \A i, w, b : w \in 0 .. 3 /\ b \in 0 .. 3 =>
          /\ low(i)[w][b] = And(SourceByte(blk, "qs", 64 * half + 16 * i + (4 * w + b)), LowBits(4))
          /\ high(i)[w][b] = Shr(SourceByte(blk, "qs", 64 * half + 16 * i + (4 * w + b)), 4)
  <2>1. ASSUME NEW i, NEW w \in 0 .. 3, NEW b \in 0 .. 3
        PROVE  /\ low(i)[w][b] = gemv2!And(qx(i)[w][b], gemv2!LowBits(4))
               /\ high(i)[w][b] = gemv2!Shr(qx(i)[w][b], 4)
    <3> HIDE DEF qx
    <3> QED BY DEF gemv2!AndBytes, gemv2!ShrBytes
  <2>2. ASSUME NEW i, NEW w \in 0 .. 3, NEW b \in 0 .. 3
        PROVE  qx(i)[w][b] = SourceByte(blk, "qs", 64 * half + 16 * i + (4 * w + b))
    BY Vocabulary_gemv2
  <2> HIDE DEF low, high, qx
  <2>3. ASSUME NEW i, NEW w \in 0 .. 3, NEW b \in 0 .. 3
        PROVE  /\ low(i)[w][b] = And(SourceByte(blk, "qs", 64 * half + 16 * i + (4 * w + b)), LowBits(4))
               /\ high(i)[w][b] = Shr(SourceByte(blk, "qs", 64 * half + 16 * i + (4 * w + b)), 4)
    BY <2>1, <2>2, Vocabulary_gemv2
  <2> QED BY <2>3
<1> HIDE DEF low, high
<1>3. ASSUME NEW n \in 0 .. 3, NEW k \in {0, 1}, NEW e \in 0 .. 15
      PROVE  reg(n, k)[e \div 4][e % 4] = SubCode(blk, 4 * half + n, 16 * k + e)
  <2> DEFINE w == e \div 4
             b == e % 4
             i == 2 * (n \div 2) + k
  <2>1. w \in 0 .. 3 /\ b \in 0 .. 3 /\ 4 * w + b = e
    OBVIOUS
  <2>2. (4 * half + n) % 2 = n % 2 /\ n % 2 \in {0, 1} /\ (4 * half + n) \div 2 = 2 * half + n \div 2
    OBVIOUS
  <2> HIDE DEF w, b
  <2>3. 64 * half + 16 * i + (4 * w + b) = 32 * ((4 * half + n) \div 2) + (16 * k + e)
    BY <2>1, <2>2
  <2> DEFINE byte == SourceByte(blk, "qs", 64 * half + 16 * i + (4 * w + b))
  <2>4. SubCode(blk, 4 * half + n, 16 * k + e) = IF n % 2 = 1 THEN Shr(byte, 4) ELSE And(byte, LowBits(4))
    <3>1. byte = SourceByte(blk, "qs", 32 * ((4 * half + n) \div 2) + (16 * k + e))
      BY <2>3
    <3> HIDE DEF byte
    <3> QED BY <2>2, <3>1 DEF SubCode
  <2>5. low(i)[w][b] = And(byte, LowBits(4)) /\ high(i)[w][b] = Shr(byte, 4)
    BY <1>2, <2>1
  <2>6. reg(n, k) = IF n % 2 = 0 THEN low(i) ELSE high(i)
    OBVIOUS
  <2> HIDE DEF byte, i, reg
  <2>7. reg(n, k)[w][b] = SubCode(blk, 4 * half + n, 16 * k + e)
    BY <2>2, <2>4, <2>5, <2>6
  <2> QED BY <2>7 DEF w, b
<1>4. /\ low(0) = reg(0, 0) /\ low(1) = reg(0, 1) /\ high(0) = reg(1, 0) /\ high(1) = reg(1, 1)
      /\ low(2) = reg(2, 0) /\ low(3) = reg(2, 1) /\ high(2) = reg(3, 0) /\ high(3) = reg(3, 1)
  OBVIOUS
<1> HIDE DEF reg
<1>5. ASSUME NEW n \in 0 .. 3
      PROVE  sia(n, 32 * n, reg(n, 0), reg(n, 1)) = want(n)
  <2> DEFINE m == 4 * half + n
             u == reg(n, 0)
             v == reg(n, 1)
             f == SubProducts(blk, y, m)
             g == [e \in 0 .. 15 |-> <<Activation(y, 128 * half + 32 * n + e), u[e \div 4][e % 4]>>]
             h == [e \in 0 .. 15 |-> <<Activation(y, 128 * half + (32 * n + 16) + e), v[e \div 4][e % 4]>>]
  <2>1. 32 * m = 128 * half + 32 * n
    OBVIOUS
  <2>2. \A e \in 0 .. 15 : u[e \div 4][e % 4] = SubCode(blk, m, e) /\ v[e \div 4][e % 4] = SubCode(blk, m, 16 + e)
    <3>1. \A e \in 0 .. 15 : 16 * 0 + e = e /\ 16 * 1 + e = 16 + e
      OBVIOUS
    <3>2. \A e \in 0 .. 15 : u[e \div 4][e % 4] = SubCode(blk, m, 16 * 0 + e)
      BY <1>3
    <3>3. \A e \in 0 .. 15 : v[e \div 4][e % 4] = SubCode(blk, m, 16 * 1 + e)
      BY <1>3
    <3> HIDE DEF u, v, m
    <3> QED BY <3>1, <3>2, <3>3
  <2> HIDE DEF u, v
  <2>3. gemv2!Msum(y, 128 * half + 32 * n, u) = BagOfValues(g)
    <3> DEFINE G == [i \in 0 .. 15 |-> <<gemv2!Activation(y, 128 * half + 32 * n + i), u[i \div 4][i % 4]>>]
    <3>1. gemv2!Msum(y, 128 * half + 32 * n, u) = gemv2!BagOfValues(G)
      BY DEF gemv2!Msum
    <3>2. G = g
      BY Vocabulary_gemv2
    <3> HIDE DEF G, g
    <3> QED BY <3>1, <3>2, Vocabulary_gemv2
  <2>4. gemv2!Msum(y, 128 * half + (32 * n + 16), v) = BagOfValues(h)
    <3> DEFINE G == [i \in 0 .. 15 |-> <<gemv2!Activation(y, 128 * half + (32 * n + 16) + i), v[i \div 4][i % 4]>>]
    <3>1. gemv2!Msum(y, 128 * half + (32 * n + 16), v) = gemv2!BagOfValues(G)
      BY DEF gemv2!Msum
    <3>2. G = h
      BY Vocabulary_gemv2
    <3> HIDE DEF G, h
    <3> QED BY <3>1, <3>2, Vocabulary_gemv2
  <2>5. \A i \in 0 .. 15 : g[i] = f[i]
    <3>1. \A i \in 0 .. 15 : 128 * half + 32 * n + i = 32 * m + i /\ i \in 0 .. 31
      BY <2>1
    <3> HIDE DEF m
    <3> QED BY <2>2, <3>1 DEF SubProducts
  <2>6. \A i \in 0 .. 15 : h[i] = f[16 + i]
    <3>1. \A i \in 0 .. 15 : 128 * half + (32 * n + 16) + i = 32 * m + (16 + i) /\ 16 + i \in 0 .. 31
      BY <2>1
    <3> HIDE DEF m
    <3> QED BY <2>2, <3>1 DEF SubProducts
  <2>7. DOMAIN g = 0 .. 15 /\ DOMAIN h = 0 .. 15 /\ DOMAIN f = 0 .. 31
    BY DEF SubProducts
  <2>8. \A i, k \in 0 .. 31 : f[i] = f[k] => i = k
    <3>1. \A i \in 0 .. 31 : f[i][1][2] = 32 * m + i
      BY DEF SubProducts, Activation
    <3>2. ASSUME NEW i \in 0 .. 31, NEW k \in 0 .. 31, f[i] = f[k]
          PROVE  i = k
      <4>1. 32 * m + i = 32 * m + k
        <5> HIDE DEF f, m
        <5> QED BY <3>1, <3>2
      <4> QED BY <4>1
    <3> QED BY <3>2
  <2> HIDE DEF f, g, h
  <2>9. BagOfValues(g) (+) BagOfValues(h) = BagOfValues(f)
    BY <2>5, <2>6, <2>7, <2>8, HalvesOfSum
  <2>10. sia(n, 32 * n, u, v) = Addend(1, s (+) Factor(scales[n]),
                gemv2!Msum(y, 128 * half + 32 * n, u) (+) gemv2!Msum(y, 128 * half + (32 * n + 16), v))
    BY Vocabulary_gemv2
  <2>11. scales[n] = SubScale(blk, m)
    OBVIOUS
  <2> HIDE DEF m, sia
  <2> QED BY <2>3, <2>4, <2>9, <2>10, <2>11 DEF SubScaleTerm, u, v, f, m
<1> HIDE DEF sia, want
<1>6. /\ sia(0, 0, reg(0, 0), reg(0, 1)) = want(0) /\ sia(1, 32, reg(1, 0), reg(1, 1)) = want(1)
      /\ sia(2, 64, reg(2, 0), reg(2, 1)) = want(2) /\ sia(3, 96, reg(3, 0), reg(3, 1)) = want(3)
  <2>1. 32 * 0 = 0 /\ 32 * 1 = 32 /\ 32 * 2 = 64 /\ 32 * 3 = 96 /\ 0 .. 3 = {0, 1, 2, 3}
    OBVIOUS
  <2>2. 0 \in 0 .. 3 /\ 1 \in 0 .. 3 /\ 2 \in 0 .. 3 /\ 3 \in 0 .. 3
    OBVIOUS
  <2> QED BY <1>5, <2>1, <2>2
<1>7. {want(n) : n \in 0 .. 3} = {want(0), want(1), want(2), want(3)}
  <2>1. \A n : n \in 0 .. 3 <=> n = 0 \/ n = 1 \/ n = 2 \/ n = 3
    OBVIOUS
  <2> QED BY <2>1
<1> QED BY <1>1, <1>4, <1>6, <1>7 DEF want

\* What a sub-block adds, and the scalar definition in these terms.
SubResult(blk, y, m) ==
    {SubScaleTerm(Factor(<<"d", blk>>) (+) Factor(<<"dB", y>>), blk, y, m),
     SubMinTerm(Factor(<<"dmin", blk>>) (+) Factor(<<"dB", y>>), blk, y, m)}

\* The scalar definition of a sub-block, in these terms.
LEMMA Reference_gemv2 ==
  ASSUME NEW cs, NEW r, NEW ch \in Nat, NEW sub \in 0 .. 7
  PROVE  gemv2!q4_K!Reference(cs, r, 0, 8 * ch + sub) = SubResult(gemv2!A(r, ch), gemv2!B(ch), sub)
<1> DEFINE blk == gemv2!A(r, ch)
           y == gemv2!B(ch)
           b == (8 * ch + sub) \div 8
           m == (8 * ch + sub) % 8
           fy == Factor(<<"dB", y>>)
           fd == Factor(<<"d", blk>>)
           fm == Factor(<<"dmin", blk>>)
           S == gemv2!q4_K!ScaleMin(blk, sub)
           products == [e \in 0 .. 31 |-> <<gemv2!q4_K!Activation(y, 32 * sub + e),
                           IF sub % 2 = 1
                           THEN gemv2!q4_K!Shr(gemv2!q4_K!SourceByte(blk, "qs", 32 * (sub \div 2) + e), 4)
                           ELSE gemv2!q4_K!And(gemv2!q4_K!SourceByte(blk, "qs", 32 * (sub \div 2) + e), gemv2!q4_K!LowBits(4))>>]
           ys == [e \in 0 .. 31 |-> <<gemv2!q4_K!Activation(y, 32 * sub + e)>>]
           yd == gemv2!q4_K!Factor(<<"dB", y>>)
<1>1. b = ch /\ m = sub
  OBVIOUS
<1>2. /\ \A p, q : gemv2!q4_K!(+)(p, q) = p (+) q
      /\ \A f : gemv2!q4_K!Factor(f) = Factor(f)
      /\ \A times, f, P : gemv2!q4_K!Addend(times, f, P) = Addend(times, f, P)
      /\ \A f : gemv2!q4_K!BagOfValues(f) = BagOfValues(f)
      /\ \A bk, e : gemv2!q4_K!Activation(bk, e) = Activation(bk, e)
      /\ \A bk, field, i : gemv2!q4_K!SourceByte(bk, field, i) = SourceByte(bk, field, i)
      /\ \A n : gemv2!q4_K!LowBits(n) = LowBits(n)
      /\ \A v, n : gemv2!q4_K!Shr(v, n) = Shr(v, n) /\ gemv2!q4_K!Shl(v, n) = Shl(v, n)
      /\ \A v, w : gemv2!q4_K!And(v, w) = And(v, w) /\ gemv2!q4_K!Or(v, w) = Or(v, w)
  BY DEF gemv2!q4_K!(+), (+), gemv2!q4_K!Factor, Factor, gemv2!q4_K!SetToBag, SetToBag,
         gemv2!q4_K!Addend, Addend, gemv2!q4_K!BagOfValues, BagOfValues,
         gemv2!q4_K!Cardinality, Cardinality, gemv2!q4_K!Activation, Activation,
         gemv2!q4_K!SourceByte, SourceByte, gemv2!q4_K!LowBits, LowBits, gemv2!q4_K!Shr, Shr,
         gemv2!q4_K!Shl, Shl, gemv2!q4_K!And, And, gemv2!q4_K!Or, Or, gemv2!q4_K!Off, Off
<1>3. gemv2!q4_K!A(r, b) = blk /\ gemv2!q4_K!B(0, b) = y
  BY <1>1 DEF gemv2!A, gemv2!B
<1>4. gemv2!q4_K!Reference(cs, r, 0, 8 * ch + sub)
        = {gemv2!q4_K!Addend(1, gemv2!q4_K!(+)(gemv2!q4_K!(+)(yd, gemv2!q4_K!Factor(<<"d", blk>>)), gemv2!q4_K!Factor(S.sc)),
               gemv2!q4_K!BagOfValues(products)),
           gemv2!q4_K!Addend(-1, gemv2!q4_K!(+)(gemv2!q4_K!(+)(yd, gemv2!q4_K!Factor(<<"dmin", blk>>)), gemv2!q4_K!Factor(S.mn)),
               gemv2!q4_K!BagOfValues(ys))}
  <2> HIDE DEF b, m, blk, y
  <2> QED BY ZenonT(40), <1>1, <1>3 DEF gemv2!q4_K!Reference, b, m
<1>5. S.sc = SubScale(blk, sub) /\ S.mn = SubMin(blk, sub)
  <2> HIDE DEF blk
  <2> QED BY <1>2 DEF gemv2!q4_K!ScaleMin, SubScale, SubMin
<1>6. products = SubProducts(blk, y, sub)
  <2> HIDE DEF blk, y
  <2>1. sub % 2 \in {0, 1}
    OBVIOUS
  <2> QED BY <1>2, <2>1 DEF SubProducts, SubCode
<1>7. ys = [e \in 0 .. 31 |-> <<Activation(y, 32 * sub + e)>>]
  <2> HIDE DEF y
  <2> QED BY <1>2
<1>8. yd = fy
  BY <1>2
<1>9. fy (+) fd = fd (+) fy /\ fy (+) fm = fm (+) fy
  <2>1. IsABag(fy) /\ IsABag(fd) /\ IsABag(fm)
    BY FactorIsBag
  <2> HIDE DEF fy, fd, fm
  <2> QED BY <2>1, PlusOfBags
<1> HIDE DEF blk, y, products, ys, yd, S
<1>10. gemv2!q4_K!Reference(cs, r, 0, 8 * ch + sub)
         = {Addend(1, (fy (+) fd) (+) Factor(SubScale(blk, sub)), BagOfValues(SubProducts(blk, y, sub))),
            Addend(-1, (fy (+) fm) (+) Factor(SubMin(blk, sub)), BagOfValues(ys))}
  BY <1>2, <1>4, <1>5, <1>6, <1>8
<1> HIDE DEF fy, fd, fm
<1> QED BY <1>7, <1>9, <1>10 DEF SubResult, SubScaleTerm, SubMinTerm, fy, fd, fm, blk, y

\* Both rows of a pair receive the eight sub-blocks of a superblock.
LEMMA Lane_gemv2 ==
  ASSUME NEW cs, cs.rows \in {1, 2}, NEW r \in 0 .. 1, NEW j, NEW c, NEW ch \in Nat
  PROVE  gemv2!Contribution(cs, r, j, ch) = gemv2!Reference(cs, LastOr(r, cs.rows), c, ch)
<1> DEFINE row == LastOr(r, cs.rows)
           blk == gemv2!A(row, ch)
           y == gemv2!B(ch)
           sd == Factor(<<"d", blk>>) (+) Factor(<<"dB", y>>)
           sm == Factor(<<"dmin", blk>>) (+) Factor(<<"dB", y>>)
           scales == gemv2!UnpackH(gemv2!Utmps(blk))
           scale(m) == SubScaleTerm(sd, blk, y, m)
           min(m) == SubMinTerm(sm, blk, y, m)
<1>1. (IF 1 < cs.rows THEN r ELSE 0) = row
  BY DEF LastOr
<1> HIDE DEF row
<1>2. gemv2!Contribution(cs, r, j, ch)
        = gemv2!MinTerms(sm, gemv2!UnpackL(gemv2!Utmps(blk)), y) \cup
          (gemv2!ScaleTerms(sd, scales, blk, y, 0) \cup gemv2!ScaleTerms(sd, gemv2!Rotated(scales), blk, y, 1))
  <2> DEFINE x == IF 1 < cs.rows THEN r ELSE 0
             z == gemv2!A(x, ch)
             fd == gemv2!(+)(gemv2!Factor(<<"d", z>>), gemv2!Factor(<<"dB", y>>))
             fm == gemv2!(+)(gemv2!Factor(<<"dmin", z>>), gemv2!Factor(<<"dB", y>>))
  <2>1. gemv2!Contribution(cs, r, j, ch)
          = gemv2!MinTerms(fm, gemv2!UnpackL(gemv2!Utmps(z)), y) \cup
            (gemv2!ScaleTerms(fd, gemv2!UnpackH(gemv2!Utmps(z)), z, y, 0) \cup
             gemv2!ScaleTerms(fd, gemv2!Rotated(gemv2!UnpackH(gemv2!Utmps(z))), z, y, 1))
    <3> HIDE DEF y
    <3> QED BY DEF gemv2!Contribution, y
  <2>2. z = blk
    BY <1>1
  <2> HIDE DEF x, z, blk, y
  <2>3. fd = sd /\ fm = sm
    BY <2>2, Vocabulary_gemv2
  <2> HIDE DEF fd, fm, sd, sm
  <2> QED BY <2>1, <2>2, <2>3
<1> HIDE DEF blk, y, sd, sm
<1>3. \A m \in 0 .. 7 : scales[m] = SubScale(blk, m)
  BY Scales_gemv2
<1>4. \A n \in 0 .. 3 : gemv2!Rotated(scales)[n] = scales[4 + n]
  <2>1. \A n \in 0 .. 3 : (n + 4) % 8 = 4 + n /\ n \in 0 .. 7
    OBVIOUS
  <2> HIDE DEF scales
  <2> QED BY <2>1 DEF gemv2!Rotated
<1> HIDE DEF scales
<1>5. gemv2!ScaleTerms(sd, scales, blk, y, 0) = {SubScaleTerm(sd, blk, y, 4 * 0 + n) : n \in 0 .. 3}
  <2>1. \A n \in 0 .. 3 : scales[n] = SubScale(blk, 4 * 0 + n)
    <3>1. \A n \in 0 .. 3 : 4 * 0 + n = n /\ n \in 0 .. 7
      OBVIOUS
    <3> QED BY <1>3, <3>1
  <2>2. 0 \in {0, 1}
    OBVIOUS
  <2> QED BY <2>1, <2>2, ScaleTerms_gemv2
<1>6. gemv2!ScaleTerms(sd, gemv2!Rotated(scales), blk, y, 1) = {SubScaleTerm(sd, blk, y, 4 * 1 + n) : n \in 0 .. 3}
  <2>1. \A n \in 0 .. 3 : gemv2!Rotated(scales)[n] = SubScale(blk, 4 * 1 + n)
    <3>1. \A n \in 0 .. 3 : 4 * 1 + n = 4 + n /\ 4 + n \in 0 .. 7
      OBVIOUS
    <3> QED BY <1>3, <1>4, <3>1
  <2>2. 1 \in {0, 1}
    OBVIOUS
  <2> QED BY <2>1, <2>2, ScaleTerms_gemv2
<1>7. gemv2!MinTerms(sm, gemv2!UnpackL(gemv2!Utmps(blk)), y) = {min(m) : m \in 0 .. 7}
  BY MinTerms_gemv2
<1>8. \A sub \in 0 .. 7 : gemv2!q4_K!Reference(cs, row, 0, 8 * ch + sub) = {scale(sub), min(sub)}
  <2>1. ASSUME NEW sub \in 0 .. 7
        PROVE  gemv2!q4_K!Reference(cs, row, 0, 8 * ch + sub) = SubResult(gemv2!A(row, ch), gemv2!B(ch), sub)
    BY Reference_gemv2
  <2>2. \A sub : SubResult(blk, y, sub) = {scale(sub), min(sub)}
    BY DEF SubResult, sd, sm
  <2> HIDE DEF scale, min
  <2> QED BY <2>1, <2>2 DEF blk, y
<1>9. gemv2!Reference(cs, row, c, ch) = UNION {gemv2!q4_K!Reference(cs, row, 0, 8 * ch + sub) : sub \in 0 .. 7}
  BY DEF gemv2!Reference
<1> DEFINE ref(sub) == gemv2!q4_K!Reference(cs, row, 0, 8 * ch + sub)
<1>10. /\ {SubScaleTerm(sd, blk, y, 4 * 0 + n) : n \in 0 .. 3} = {scale(m) : m \in 0 .. 3}
       /\ {SubScaleTerm(sd, blk, y, 4 * 1 + n) : n \in 0 .. 3} = {scale(m) : m \in 4 .. 7}
  <2>1. \A n \in 0 .. 3 : 4 * 0 + n = n /\ 4 * 1 + n \in 4 .. 7
    OBVIOUS
  <2>2. \A m \in 4 .. 7 : m - 4 \in 0 .. 3 /\ 4 * 1 + (m - 4) = m
    OBVIOUS
  <2>3. {SubScaleTerm(sd, blk, y, 4 * 0 + n) : n \in 0 .. 3} = {scale(m) : m \in 0 .. 3}
    BY <2>1
  <2> DEFINE V == {SubScaleTerm(sd, blk, y, 4 * 1 + n) : n \in 0 .. 3}
             W == {scale(m) : m \in 4 .. 7}
  <2>4. \A v \in V : v \in W
    BY <2>1
  <2>5. ASSUME NEW m \in 4 .. 7
        PROVE  scale(m) \in V
    <3>1. scale(m) = SubScaleTerm(sd, blk, y, 4 * 1 + (m - 4))
      BY <2>2
    <3> QED BY <2>2, <3>1
  <2>6. V = W
    <3> HIDE DEF V
    <3> QED BY <2>4, <2>5
  <2> QED BY <2>3, <2>6
<1>11. \A m : m \in 0 .. 7 <=> m \in 0 .. 3 \/ m \in 4 .. 7
  OBVIOUS
<1>12. UNION {ref(sub) : sub \in 0 .. 7}
         = {min(m) : m \in 0 .. 7} \cup ({scale(m) : m \in 0 .. 3} \cup {scale(m) : m \in 4 .. 7})
  <2> HIDE DEF ref, scale, min
  <2>1. \A sub \in 0 .. 7 : ref(sub) = {scale(sub), min(sub)}
    BY <1>8 DEF ref, scale, min
  <2>2. {scale(m) : m \in 0 .. 7} = {scale(m) : m \in 0 .. 3} \cup {scale(m) : m \in 4 .. 7}
    BY <1>11
  <2>3. UNION {ref(sub) : sub \in 0 .. 7} = {min(m) : m \in 0 .. 7} \cup {scale(m) : m \in 0 .. 7}
    <3>1. ASSUME NEW x \in UNION {ref(sub) : sub \in 0 .. 7}
          PROVE  x \in {min(m) : m \in 0 .. 7} \cup {scale(m) : m \in 0 .. 7}
      <4>1. PICK sub \in 0 .. 7 : x \in ref(sub)
        BY <3>1
      <4> QED BY <2>1, <4>1
    <3>2. ASSUME NEW x \in {min(m) : m \in 0 .. 7} \cup {scale(m) : m \in 0 .. 7}
          PROVE  x \in UNION {ref(sub) : sub \in 0 .. 7}
      <4>1. PICK sub \in 0 .. 7 : x = min(sub) \/ x = scale(sub)
        BY <3>2
      <4>2. x \in ref(sub)
        BY <2>1, <4>1
      <4> QED BY <4>2
    <3> QED BY <3>1, <3>2
  <2> QED BY <2>2, <2>3
<1> HIDE DEF scale, min, ref
<1>13. gemv2!Reference(cs, row, c, ch) = UNION {ref(sub) : sub \in 0 .. 7}
  BY <1>9 DEF ref
<1> QED BY <1>2, <1>5, <1>6, <1>7, <1>10, <1>12, <1>13 DEF row

-----------------------------------------------------------------------------
(* Every lane of every kernel.                                             *)

\* Whatever the kernel, what a chunk adds to a lane of the tile is what the
\* scalar definition of the format's dot product adds to the element of the
\* matrix the lane stands for.
LEMMA ChunkIsReference ==
  ASSUME NEW c \in Cases, NEW r \in 0 .. MR(c.kernel) - 1, NEW j \in 0 .. NR(c.kernel) - 1, NEW ch \in Nat
  PROVE  Contribution(c, r, j, ch) = Reference(c, LastOr(r, c.of.rows), LastOr(j, c.of.cols), ch)
<1> DEFINE k == c.kernel
           of == c.of
<1>1. q4_K!MR = 16 /\ q4_K!NR = 8 /\ iq4!MR = 8 /\ gemv2!MR = 2 /\ gemv2!NR = 1
  BY DEF q4_K!MR, q4_K!NR, iq4!MR, gemv2!MR, gemv2!NR
<1>2. ASSUME k \in {"q4_K", "q5_K", "q2_K", "q3_K", "q6_K", "leg", "qbit"}
      PROVE  r \in 0 .. 15 /\ j \in 0 .. 7
  <2>1. MR(k) = 16 /\ NR(k) = 8
    BY <1>1, <1>2 DEF MR, NR, Designs
  <2> HIDE DEF k
  <2>2. r \in 0 .. MR(k) - 1 /\ j \in 0 .. NR(k) - 1
    BY DEF k
  <2> QED BY <2>1, <2>2
<1>3. ASSUME k \in {"iq4", "grid"}
      PROVE  r \in 0 .. 7 /\ j \in 0 .. 7
  <2>1. MR(k) = 8 /\ NR(k) = 8
    BY <1>1, <1>3 DEF MR, NR, Designs
  <2> HIDE DEF k
  <2>2. r \in 0 .. MR(k) - 1 /\ j \in 0 .. NR(k) - 1
    BY DEF k
  <2> QED BY <2>1, <2>2
<1>4. ASSUME NEW s \in {"q4_K", "q5_K", "q2_K", "q3_K", "q6_K"}, c \in [kernel : {s}, of : [rows : Rows16, cols : Cols]]
      PROVE  /\ k = s /\ of.rows \in Nat \ {0} /\ of.cols \in Nat \ {0}
             /\ r \in 0 .. 15 /\ j \in 0 .. 7
  <2>1. k = s /\ of \in [rows : Rows16, cols : Cols]
    BY <1>4
  <2>2. of.rows \in Rows16 /\ of.cols \in Cols
    BY <2>1
  <2> HIDE DEF k, of
  <2>3. r \in 0 .. 15 /\ j \in 0 .. 7
    BY <1>2, <2>1
  <2> QED BY <2>1, <2>2, <2>3, SizesAssumption
<1> HIDE DEF of, k
<1>5. CASE c \in [kernel : {"q4_K"}, of : q4_K!Cases]
  <2>1. k = "q4_K" /\ of.rows \in Nat \ {0} /\ of.cols \in Nat \ {0} /\ r \in 0 .. 15 /\ j \in 0 .. 7
    BY <1>4, <1>5 DEF q4_K!Cases
  <2>2. q4_K!Contribution(of, r, j, ch) = q4_K!Reference(of, LastOr(r, of.rows), LastOr(j, of.cols), ch)
    BY <2>1, Lane_q4_K
  <2> QED BY <2>1, <2>2 DEF Contribution, Reference, Designs, k, of
<1>6. CASE c \in [kernel : {"q5_K"}, of : q5_K!Cases]
  <2>1. k = "q5_K" /\ of.rows \in Nat \ {0} /\ of.cols \in Nat \ {0} /\ r \in 0 .. 15 /\ j \in 0 .. 7
    BY <1>4, <1>6 DEF q5_K!Cases
  <2>2. q5_K!Contribution(of, r, j, ch) = q5_K!Reference(of, LastOr(r, of.rows), LastOr(j, of.cols), ch)
    BY <2>1, Lane_q5_K
  <2> QED BY <2>1, <2>2 DEF Contribution, Reference, Designs, k, of
<1>7. CASE c \in [kernel : {"q2_K"}, of : q2_K!Cases]
  <2>1. k = "q2_K" /\ of.rows \in Nat \ {0} /\ of.cols \in Nat \ {0} /\ r \in 0 .. 15 /\ j \in 0 .. 7
    BY <1>4, <1>7 DEF q2_K!Cases
  <2>2. q2_K!Contribution(of, r, j, ch) = q2_K!Reference(of, LastOr(r, of.rows), LastOr(j, of.cols), ch)
    BY <2>1, Lane_q2_K
  <2> QED BY <2>1, <2>2 DEF Contribution, Reference, Designs, k, of
<1>8. CASE c \in [kernel : {"q3_K"}, of : q3_K!Cases]
  <2>1. k = "q3_K" /\ of.rows \in Nat \ {0} /\ of.cols \in Nat \ {0} /\ r \in 0 .. 15 /\ j \in 0 .. 7
    BY <1>4, <1>8 DEF q3_K!Cases
  <2>2. q3_K!Contribution(of, r, j, ch) = q3_K!Reference(of, LastOr(r, of.rows), LastOr(j, of.cols), ch)
    BY <2>1, Lane_q3_K
  <2> QED BY <2>1, <2>2 DEF Contribution, Reference, Designs, k, of
<1>9. CASE c \in [kernel : {"q6_K"}, of : q6_K!Cases]
  <2>1. k = "q6_K" /\ of.rows \in Nat \ {0} /\ of.cols \in Nat \ {0} /\ r \in 0 .. 15 /\ j \in 0 .. 7
    BY <1>4, <1>9 DEF q6_K!Cases
  <2>2. q6_K!Contribution(of, r, j, ch) = q6_K!Reference(of, LastOr(r, of.rows), LastOr(j, of.cols), ch)
    BY <2>1, Lane_q6_K
  <2> QED BY <2>1, <2>2 DEF Contribution, Reference, Designs, k, of
<1>10. CASE c \in [kernel : {"leg"}, of : leg!Cases]
  <2>1. k = "leg" /\ of \in [type : leg!Types, rows : Rows16, cols : Cols]
    BY <1>10 DEF leg!Cases, k, of
  <2>2. of.type \in leg!Types /\ of.rows \in Nat \ {0} /\ of.cols \in Nat \ {0}
    <3>1. of.type \in leg!Types /\ of.rows \in Rows16 /\ of.cols \in Cols
      BY <2>1
    <3> QED BY <3>1, SizesAssumption
  <2>3. r \in 0 .. 15 /\ j \in 0 .. 7
    BY <1>2, <2>1
  <2>4. leg!Contribution(of, r, j, ch) = leg!Reference(of, LastOr(r, of.rows), LastOr(j, of.cols), ch)
    BY <2>2, <2>3, Lane_leg
  <2> QED BY <2>1, <2>4 DEF Contribution, Reference, Designs, k, of
<1>11. CASE c \in [kernel : {"iq4"}, of : iq4!Cases]
  <2>1. k = "iq4" /\ of \in [type : iq4!Types, rows : Rows8, cols : Cols]
    BY <1>11 DEF iq4!Cases, k, of
  <2>2. of.rows \in Nat \ {0} /\ of.cols \in Nat \ {0}
    <3>1. of.rows \in Rows8 /\ of.cols \in Cols
      BY <2>1
    <3> QED BY <3>1, SizesAssumption
  <2>3. r \in 0 .. 7 /\ j \in 0 .. 7
    BY <1>3, <2>1
  <2>4. iq4!Contribution(of, r, j, ch) = iq4!Reference(of, LastOr(r, of.rows), LastOr(j, of.cols), ch)
    BY <2>2, <2>3, Lane_iq4
  <2> QED BY <2>1, <2>4 DEF Contribution, Reference, Designs, k, of
<1>12. CASE c \in [kernel : {"grid"}, of : grid!Cases]
  <2>1. k = "grid" /\ of \in grid!Cases
    BY <1>12 DEF k, of
  <2>2. /\ of.family \in {"deep32", "deep16", "nvfp4"} /\ of.kernel \in {"gemm", "gemv"}
        /\ (of.kernel = "gemv" => of.cols = 1) /\ of.rows \in Nat \ {0} /\ of.cols \in Nat \ {0}
    <3> DEFINE gemm == [family : {"deep32", "deep16", "nvfp4"}, kernel : {"gemm"}, rows : Rows8, cols : Cols]
               gemv == [family : {"deep32", "deep16"}, kernel : {"gemv"}, rows : Rows8, cols : {1}]
    <3>1. CASE of \in gemm
      <4>1. of.family \in {"deep32", "deep16", "nvfp4"} /\ of.kernel = "gemm" /\ of.rows \in Rows8 /\ of.cols \in Cols
        BY <3>1
      <4> QED BY <4>1, SizesAssumption
    <3>2. CASE of \in gemv
      <4>1. of.family \in {"deep32", "deep16"} /\ of.kernel = "gemv" /\ of.rows \in Rows8 /\ of.cols = 1
        BY <3>2
      <4>2. of.rows \in Nat \ {0}
        BY <4>1, SizesAssumption
      <4>3. of.cols \in Nat \ {0}
        BY <4>1
      <4>4. of.family \in {"deep32", "deep16", "nvfp4"} /\ of.kernel \in {"gemm", "gemv"}
        BY <4>1
      <4> QED BY <4>1, <4>2, <4>3, <4>4
    <3>3. of \in gemm \/ of \in gemv
      BY <2>1 DEF grid!Cases
    <3> HIDE DEF gemm, gemv
    <3> QED BY <3>1, <3>2, <3>3
  <2>3. r \in 0 .. 7 /\ j \in 0 .. 7
    BY <1>3, <2>1
  <2>4. grid!Contribution(of, r, j, ch) = grid!Reference(of, LastOr(r, of.rows), LastOr(j, of.cols), ch)
    BY <2>2, <2>3, Lane_grid
  <2> QED BY <2>1, <2>4 DEF Contribution, Reference, Designs, k, of
<1>13. CASE c \in [kernel : {"qbit"}, of : qbit!Cases]
  <2>1. k = "qbit" /\ of \in qbit!Cases
    BY <1>13 DEF k, of
  <2>2. /\ of.type \in qbit!Types /\ of.kernel \in {"gemm", "gemv"}
        /\ (of.kernel = "gemv" => of.rows = 16 /\ of.cols = 8) /\ of.rows \in Nat \ {0} /\ of.cols \in Nat \ {0}
    <3>1. CASE of \in [type : qbit!Types, kernel : {"gemm"}, rows : Rows16, cols : Cols]
      <4>1. of.type \in qbit!Types /\ of.kernel = "gemm" /\ of.rows \in Rows16 /\ of.cols \in Cols
        BY <3>1
      <4> QED BY <4>1, SizesAssumption
    <3>2. CASE of \in [type : qbit!Types, kernel : {"gemv"}, rows : {qbit!MR}, cols : {qbit!NR}]
      <4>1. of.type \in qbit!Types /\ of.kernel = "gemv" /\ of.rows = 16 /\ of.cols = 8
        BY <3>2 DEF qbit!MR, qbit!NR
      <4> QED BY <4>1
    <3> QED BY <2>1, <3>1, <3>2 DEF qbit!Cases
  <2>3. r \in 0 .. 15 /\ j \in 0 .. 7
    BY <1>2, <2>1
  <2>4. qbit!Contribution(of, r, j, ch) = qbit!Reference(of, LastOr(r, of.rows), LastOr(j, of.cols), ch)
    BY <2>2, <2>3, Lane_qbit
  <2> QED BY <2>1, <2>4 DEF Contribution, Reference, Designs, k, of
<1>14. CASE c \in [kernel : {"gemv2"}, of : gemv2!Cases]
  <2>1. k = "gemv2" /\ of \in [rows : {1, 2}, cols : {1}]
    BY <1>14 DEF gemv2!Cases, k, of
  <2>2. of.rows \in {1, 2}
    BY <2>1
  <2>3. r \in 0 .. 1
    <3>1. MR(k) = 2
      BY <1>1, <2>1 DEF MR, Designs
    <3>2. r \in 0 .. MR(k) - 1
      BY DEF k
    <3> QED BY <3>1, <3>2
  <2>4. gemv2!Contribution(of, r, j, ch) = gemv2!Reference(of, LastOr(r, of.rows), LastOr(j, of.cols), ch)
    BY <2>2, <2>3, Lane_gemv2
  <2> QED BY <2>1, <2>4 DEF Contribution, Reference, Designs, k, of
<1>15. ASSUME NEW v \in Designs, c \in [kernel : {v}, of : early!Cases[v]]
       PROVE  Contribution(c, r, j, ch) = Reference(c, LastOr(r, of.rows), LastOr(j, of.cols), ch)
  <2>1. k = v /\ of \in early!Cases[v]
    BY <1>15 DEF k, of
  <2>2. /\ Contribution(c, r, j, ch) = early!Contribution(v, of, r, j, ch)
        /\ \A a, b : Reference(c, a, b, ch) = early!Reference(v, of, a, b, ch)
    BY <2>1 DEF Contribution, Reference, Designs, k, of
  <2>3. MR(k) = early!MR[v] /\ NR(k) = early!NR[v]
    BY <2>1 DEF MR, NR, Designs
  <2>4. r \in 0 .. MR(k) - 1 /\ j \in 0 .. NR(k) - 1
    BY DEF k
  <2>5. early!v4!Types = qbit!Types
    BY Vocabulary_v4
  <2>6. CASE v = "v1"
    <3>1. of \in [type : early!v4!Types, rows : {4}, cols : {4}]
      BY <2>1, <2>6 DEF early!Cases, early!MR, early!NR
    <3>2. of.type \in qbit!Types /\ of.rows = 4 /\ of.cols = 4
      BY <2>5, <3>1
    <3>3. MR(k) = 4 /\ NR(k) = 4
      BY <2>3, <2>6 DEF early!MR, early!NR
    <3>4. r \in 0 .. 3 /\ j \in 0 .. 3
      BY <2>4, <3>3
    <3>5. early!Contribution("v1", of, r, j, ch) = early!Reference("v1", of, LastOr(r, of.rows), LastOr(j, of.cols), ch)
      BY <3>2, <3>4, Lane_v1
    <3> QED BY <2>2, <2>6, <3>5
  <2>7. CASE v = "v2"
    <3>1. of \in [type : {"q1_0"}, rows : Rows8, cols : Cols]
      BY <2>1, <2>7 DEF early!Cases
    <3>2. of.type = "q1_0" /\ of.rows \in Nat \ {0} /\ of.cols \in Nat \ {0}
      <4>1. of.type = "q1_0" /\ of.rows \in Rows8 /\ of.cols \in Cols
        BY <3>1
      <4> QED BY <4>1, SizesAssumption
    <3>3. MR(k) = 8 /\ NR(k) = 8
      BY <2>3, <2>7 DEF early!MR, early!NR
    <3>4. r \in 0 .. 7 /\ j \in 0 .. 7
      BY <2>4, <3>3
    <3>5. early!Contribution("v2", of, r, j, ch) = early!Reference("v2", of, LastOr(r, of.rows), LastOr(j, of.cols), ch)
      BY <3>2, <3>4, Lane_v2
    <3> QED BY <2>2, <2>7, <3>5
  <2>8. CASE v = "v3"
    <3>1. of \in [type : early!v4!Types, rows : Rows16, cols : Cols]
      BY <2>1, <2>8 DEF early!Cases
    <3>2. of.type \in qbit!Types /\ of.rows \in Nat \ {0} /\ of.cols \in Nat \ {0}
      <4>1. of.type \in qbit!Types /\ of.rows \in Rows16 /\ of.cols \in Cols
        BY <2>5, <3>1
      <4> QED BY <4>1, SizesAssumption
    <3>3. MR(k) = 16 /\ NR(k) = 8
      BY <2>3, <2>8 DEF early!MR, early!NR
    <3>4. r \in 0 .. 15 /\ j \in 0 .. 7
      BY <2>4, <3>3
    <3>5. early!Contribution("v3", of, r, j, ch) = early!Reference("v3", of, LastOr(r, of.rows), LastOr(j, of.cols), ch)
      BY <3>2, <3>4, Lane_v3
    <3> QED BY <2>2, <2>8, <3>5
  <2> QED BY <2>6, <2>7, <2>8 DEF Designs
<1>16. CASE c \in UNION {[kernel : {v}, of : early!Cases[v]] : v \in Designs}
  <2>1. PICK v \in Designs : c \in [kernel : {v}, of : early!Cases[v]]
    BY <1>16
  <2> QED BY <1>15, <2>1 DEF of
<1> QED BY <1>5, <1>6, <1>7, <1>8, <1>9, <1>10, <1>11, <1>12, <1>13, <1>14, <1>16 DEF Cases

\* A lane that is followed: what was added to it is what the chunks up to now
\* contribute, in their order, and nothing else; it is stored when it lies in
\* the matrix.
Added(n) == Contribution(case, lane.r, lane.j, n)
LaneInv ==
    /\ case \in Cases
    /\ lane.r \in 0 .. MR(case.kernel) - 1 /\ lane.j \in 0 .. NR(case.kernel) - 1
    /\ Len(fin) \in Nat
    /\ fin = [n \in 1 .. Len(fin) |-> Added(n - 1)]
    /\ out # "pending" => (out = "stored") = InMatrix(lane.r, lane.j)

\* A chunk is appended to what was added before.
LEMMA ChunkAppends ==
  ASSUME LaneInv, Chunk
  PROVE  /\ case' = case /\ lane' = lane /\ out' = out
         /\ fin' = [m \in 1 .. Len(fin) + 1 |-> Added(m - 1)] /\ Len(fin') = Len(fin) + 1
<1> DEFINE x == Contribution(case, lane.r, lane.j, Len(fin))
           n == Len(fin)
<1>1. case' = case /\ lane' = lane /\ out' = out /\ fin' = Append(fin, x)
  BY DEF Chunk
<1>2. \A m : Added(m)' = Added(m)
  BY <1>1 DEF Added
<1>3. n \in Nat /\ fin = [m \in 1 .. n |-> Added(m - 1)] /\ x = Added(n)
  BY DEF LaneInv, Added
<1> HIDE DEF x, n
<1>4. fin' = [m \in 1 .. n + 1 |-> Added(m - 1)] /\ Len(fin') = n + 1
  <2>1. fin \in Seq({Added(m) : m \in Nat})
    BY <1>3
  <2>2. Append(fin, x) = [m \in 1 .. n + 1 |-> IF m \in 1 .. n THEN Added(m - 1) ELSE x]
    <3>1. \A m \in 1 .. n : Append(fin, x)[m] = Added(m - 1)
      BY <1>3, <2>1 DEF n
    <3>2. Append(fin, x)[n + 1] = x /\ DOMAIN Append(fin, x) = 1 .. n + 1
      BY <1>3, <2>1 DEF n
    <3>3. \A m \in 1 .. n + 1 : m \in 1 .. n \/ m = n + 1
      BY <1>3
    <3>4. Append(fin, x) \in Seq({Added(m) : m \in Nat})
      BY <1>3, <2>1
    <3> DEFINE S == {Added(m) : m \in Nat}
               added == Append(fin, x)
    <3>5. Len(added) = n + 1
      BY <1>3, <2>1 DEF n
    <3>6. Append(fin, x) = [m \in 1 .. n + 1 |-> Append(fin, x)[m]]
      <4>1. added \in Seq(S)
        BY <3>4
      <4> HIDE DEF S, added
      <4>2. added \in [1 .. Len(added) -> S]
        BY <4>1
      <4>3. added \in [1 .. n + 1 -> S]
        BY <3>5, <4>2
      <4>4. added = [m \in 1 .. n + 1 |-> added[m]]
        BY <4>3
      <4> QED BY <4>4 DEF added
    <3>7. \A m \in 1 .. n + 1 : Append(fin, x)[m] = IF m \in 1 .. n THEN Added(m - 1) ELSE x
      BY <1>3, <3>1, <3>2, <3>3
    <3> QED BY <3>6, <3>7
  <2>3. Append(fin, x) = [m \in 1 .. n + 1 |-> Added(m - 1)]
    <3>1. \A m \in 1 .. n + 1 : m \in 1 .. n \/ (m = n + 1 /\ m - 1 = n)
      BY <1>3
    <3> QED BY <1>3, <2>2, <3>1
  <2>4. Len(Append(fin, x)) = n + 1
    BY <2>1 DEF n
  <2> QED BY <1>1, <2>3, <2>4
<1> QED BY <1>1, <1>4 DEF n

\* The invariant is preserved by the chunks and by the store.
LEMMA LaneInvHolds == Spec => []LaneInv
<1>1. Init => LaneInv
  <2> SUFFICES ASSUME Init
               PROVE  LaneInv
    OBVIOUS
  <2>1. lane.r \in 0 .. MR(case.kernel) - 1 /\ lane.j \in 0 .. NR(case.kernel) - 1
    BY DEF Init
  <2>2. fin = [n \in 1 .. Len(fin) |-> Added(n - 1)] /\ Len(fin) \in Nat
    <3>1. fin = <<>> /\ Len(fin) = 0
      BY DEF Init
    <3> QED BY <3>1
  <2> QED BY <2>1, <2>2 DEF Init, LaneInv
<1>2. LaneInv /\ [Next]_vars => LaneInv'
  <2> SUFFICES ASSUME LaneInv, [Next]_vars
               PROVE  LaneInv'
    OBVIOUS
  <2>1. CASE Chunk
    <3>1. /\ case' = case /\ lane' = lane /\ out' = out
          /\ fin' = [m \in 1 .. Len(fin) + 1 |-> Added(m - 1)] /\ Len(fin') = Len(fin) + 1
      BY <2>1, ChunkAppends
    <3>2. \A m : Added(m)' = Added(m)
      BY <3>1 DEF Added
    <3>3. Len(fin) \in Nat
      BY DEF LaneInv
    <3>4. fin' = [m \in 1 .. Len(fin') |-> Added(m - 1)'] /\ Len(fin') \in Nat
      BY <3>1, <3>2, <3>3
    <3>5. InMatrix(lane.r, lane.j)' = InMatrix(lane.r, lane.j)
      BY <3>1 DEF InMatrix
    <3> QED BY <3>1, <3>2, <3>4, <3>5 DEF LaneInv
  <2>2. CASE Store
    <3>1. case' = case /\ lane' = lane /\ fin' = fin
          /\ out' = IF InMatrix(lane.r, lane.j) THEN "stored" ELSE "dropped"
      BY <2>2 DEF Store
    <3>2. InMatrix(lane.r, lane.j)' = InMatrix(lane.r, lane.j) /\ \A m : Added(m)' = Added(m)
      BY <3>1 DEF InMatrix, Added
    <3>3. InMatrix(lane.r, lane.j) \in BOOLEAN
      BY DEF InMatrix
    <3> QED BY <3>1, <3>2, <3>3 DEF LaneInv
  <2>3. CASE UNCHANGED vars
    <3>1. case' = case /\ lane' = lane /\ fin' = fin /\ out' = out
      BY <2>3 DEF vars
    <3> QED BY <3>1 DEF LaneInv, Added, InMatrix
  <2> QED BY <2>1, <2>2, <2>3 DEF Next
<1> QED BY <1>1, <1>2, PTL DEF Spec

\* For every format, variant, size of the edge tile and lane, chunk after chunk: the
\* packed kernels (repackers, outer products, corrections, stores) add to an
\* element of the result exactly what the format's scalar dot product adds, and store
\* the lanes that lie in the matrix and no others.
THEOREM EveryKernelIsItsReference == Spec => []EveryLaneIsReference
<1>1. LaneInv => EveryLaneIsReference
  <2> SUFFICES ASSUME LaneInv
               PROVE  EveryLaneIsReference
    OBVIOUS
  <2>1. ASSUME fin # <<>>
        PROVE  fin[Len(fin)] = Reference(case, LastOr(lane.r, case.of.rows), LastOr(lane.j, case.of.cols), Len(fin) - 1)
    <3> DEFINE n == Len(fin)
    <3>1. n \in Nat /\ fin = [m \in 1 .. n |-> Added(m - 1)]
      BY DEF LaneInv
    <3>2. n # 0
      BY <2>1, <3>1
    <3>3. n \in 1 .. n /\ n - 1 \in Nat
      BY <3>1, <3>2
    <3> HIDE DEF n
    <3>4. fin[n] = Added(n - 1)
      BY <3>1, <3>3
    <3>5. Added(n - 1) = Reference(case, LastOr(lane.r, case.of.rows), LastOr(lane.j, case.of.cols), n - 1)
      BY <3>3, ChunkIsReference DEF LaneInv, Added
    <3> QED BY <3>4, <3>5 DEF n
  <2>2. out # "pending" => (out = "stored") = (lane.r < case.of.rows /\ lane.j < case.of.cols)
    BY DEF LaneInv, InMatrix
  <2> QED BY <2>1, <2>2 DEF EveryLaneIsReference
<1> QED BY <1>1, LaneInvHolds, PTL

\* A slab is a number of chunks for every kernel.
LEMMA SlabIsCounted ==
  ASSUME NEW c \in Cases
  PROVE  Chunks(c.kernel) \in Nat
<1> DEFINE k == c.kernel
<1>1. /\ q4_K!Chunks \in Nat /\ q2_K!Chunks \in Nat /\ leg!Chunks \in Nat /\ iq4!Chunks \in Nat
      /\ grid!Chunks \in Nat /\ qbit!Chunks \in Nat /\ gemv2!Chunks \in Nat
  BY SizesAssumption DEF q4_K!Chunks, q2_K!Chunks, leg!Chunks, iq4!Chunks, grid!Chunks, qbit!Chunks, gemv2!Chunks
<1>2. \A v \in Designs : early!Chunks[v] \in Nat
  BY SizesAssumption DEF early!Chunks, Designs
<1>3. k \in {"q4_K", "q5_K", "q2_K", "q3_K", "q6_K", "leg", "iq4", "grid", "qbit", "gemv2"} \cup Designs
  BY DEF Cases
<1> HIDE DEF k
<1>4. Chunks(k) \in Nat
  BY <1>1, <1>2, <1>3 DEF Chunks, Designs
<1> QED BY <1>4 DEF k

\* A lane is stored when it has been through the whole slab, and gets nothing after.
SlabInv ==
    /\ Len(fin) <= Chunks(case.kernel)
    /\ out # "pending" => Len(fin) = Chunks(case.kernel)

LEMMA SlabInvHolds == Spec => [](LaneInv /\ SlabInv)
<1>1. Init => SlabInv
  <2> SUFFICES ASSUME Init
               PROVE  SlabInv
    OBVIOUS
  <2>1. Len(fin) = 0 /\ Chunks(case.kernel) \in Nat /\ out = "pending"
    BY SlabIsCounted DEF Init
  <2> QED BY <2>1 DEF SlabInv
<1>2. LaneInv /\ SlabInv /\ [Next]_vars => SlabInv'
  <2> SUFFICES ASSUME LaneInv, SlabInv, [Next]_vars
               PROVE  SlabInv'
    OBVIOUS
  <2>1. CASE Chunk
    <3>1. case' = case /\ out' = out /\ Len(fin') = Len(fin) + 1
      BY <2>1, ChunkAppends
    <3>2. Chunks(case.kernel)' = Chunks(case.kernel)
      BY <3>1
    <3>3. Len(fin) \in Nat /\ Chunks(case.kernel) \in Nat /\ Len(fin) < Chunks(case.kernel)
      BY <2>1, SlabIsCounted DEF LaneInv, Chunk
    <3>4. out = "pending"
      BY <3>3 DEF SlabInv
    <3> QED BY <3>1, <3>2, <3>3, <3>4 DEF SlabInv
  <2>2. CASE Store
    <3>1. case' = case /\ fin' = fin /\ Len(fin) = Chunks(case.kernel)
      BY <2>2 DEF Store
    <3>2. Chunks(case.kernel)' = Chunks(case.kernel) /\ Len(fin)' = Len(fin)
      BY <3>1
    <3> QED BY <3>1, <3>2 DEF SlabInv
  <2>3. CASE UNCHANGED vars
    <3>1. case' = case /\ fin' = fin /\ out' = out
      BY <2>3 DEF vars
    <3>2. Chunks(case.kernel)' = Chunks(case.kernel) /\ Len(fin)' = Len(fin)
      BY <3>1
    <3> QED BY <3>1, <3>2 DEF SlabInv
  <2> QED BY <2>1, <2>2, <2>3 DEF Next
<1> QED BY <1>1, <1>2, LaneInvHolds, PTL DEF Spec

\* For every format, variant, slab, size of the edge tile and lane, a store loop writes the
\* complete scalar dot product of the row and the column the lane stands for.
THEOREM StoredLanesAreWhole == Spec => []StoredIsWhole
<1>1. LaneInv /\ SlabInv => StoredIsWhole
  <2> SUFFICES ASSUME LaneInv, SlabInv, out = "stored"
               PROVE  fin = [n \in 1 .. Chunks(case.kernel) |-> Reference(case, lane.r, lane.j, n - 1)]
    BY DEF StoredIsWhole
  <2> DEFINE d == Chunks(case.kernel)
  <2>1. d \in Nat /\ fin = [n \in 1 .. d |-> Added(n - 1)]
    BY SlabIsCounted DEF LaneInv, SlabInv
  <2>2. LastOr(lane.r, case.of.rows) = lane.r /\ LastOr(lane.j, case.of.cols) = lane.j
    BY DEF LaneInv, InMatrix, LastOr
  <2> HIDE DEF d
  <2>3. ASSUME NEW n \in 1 .. d
        PROVE  Added(n - 1) = Reference(case, lane.r, lane.j, n - 1)
    <3>1. n - 1 \in Nat
      BY <2>1
    <3>2. Added(n - 1) = Reference(case, LastOr(lane.r, case.of.rows), LastOr(lane.j, case.of.cols), n - 1)
      BY <3>1, ChunkIsReference DEF LaneInv, Added
    <3> QED BY <2>2, <3>2
  <2>4. fin = [n \in 1 .. d |-> Reference(case, lane.r, lane.j, n - 1)]
    BY <2>1, <2>3
  <2> QED BY <2>4 DEF d
<1> QED BY <1>1, SlabInvHolds, PTL
=============================================================================
