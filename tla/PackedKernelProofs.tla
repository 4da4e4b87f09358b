------------------------- MODULE PackedKernelProofs -------------------------
(***************************************************************************)
(* Proofs about the kernels that multiply from packs: whatever the variant *)
(* of the format, the size of the edge tile and the lane, a chunk adds to  *)
(* the lane what the scalar dot product of the format adds to the element  *)
(* of the result the lane stands for.  First lemmas about sums, packed     *)
(* tiles and bits, then one section per kernel.                            *)
(*                                                                         *)
(* A kernel's section first says that the vocabulary its module extends    *)
(* is the one of this module, then follows a lane through the packs: its   *)
(* codes and activations, its scales, and the sum of products.             *)
(***************************************************************************)
EXTENDS PackedKernels, MmaTile, FiniteSetTheorems, FunctionTheorems, TLAPS

-----------------------------------------------------------------------------
(* Sums of products.                                                        *)

\* The products of a sum, and the terms with the value v.
Values(f)   == {f[i] : i \in DOMAIN f}
Terms(f, v) == {i \in DOMAIN f : f[i] = v}

\* How often a value occurs.
LEMMA BagValues ==
  ASSUME NEW f, IsFiniteSet(DOMAIN f)
  PROVE  BagOfValues(f) = [v \in Values(f) |-> Cardinality(Terms(f, v))]
<1> DEFINE entries == {<<i, f[i]>> : i \in DOMAIN f}
<1>1. {e[2] : e \in entries} = {f[i] : i \in DOMAIN f}
  <2>1. \A i \in DOMAIN f : <<i, f[i]>> \in entries /\ <<i, f[i]>>[2] = f[i]
    OBVIOUS
  <2>2. \A e \in entries : \E i \in DOMAIN f : e[2] = f[i]
    OBVIOUS
  <2> HIDE DEF entries
  <2>3. \A v \in {e[2] : e \in entries} : v \in {f[i] : i \in DOMAIN f}
    BY <2>2
  <2>4. \A v \in {f[i] : i \in DOMAIN f} : \E e \in entries : v = e[2]
    BY <2>1
  <2> QED BY <2>3, <2>4
<1>2. ASSUME NEW v
      PROVE  Cardinality({e \in entries : e[2] = v}) = Cardinality({i \in DOMAIN f : f[i] = v})
  <2> DEFINE S == {i \in DOMAIN f : f[i] = v}
             T == {e \in entries : e[2] = v}
             h == [i \in S |-> <<i, f[i]>>]
  <2>1. IsFiniteSet(S)
    BY FS_Subset
  <2>2. h \in Bijection(S, T)
    <3>1. h \in [S -> T]
      OBVIOUS
    <3>2. \A a, b \in S : h[a] = h[b] => a = b
      OBVIOUS
    <3>3. \A e \in T : \E a \in S : h[a] = e
      OBVIOUS
    <3> QED BY <3>1, <3>2, <3>3, Fun_IsBij
  <2> HIDE DEF S, T, h
  <2>3. ExistsBijection(S, T)
    BY <2>2 DEF ExistsBijection
  <2> QED BY <2>1, <2>3, FS_Bijection DEF S, T
<1> HIDE DEF entries
<1> QED BY <1>1, <1>2 DEF BagOfValues, Values, Terms, entries

\* A sum does not depend on the order of its terms.
LEMMA Reordered ==
  ASSUME NEW f, NEW g, IsFiniteSet(DOMAIN f), NEW h \in Bijection(DOMAIN f, DOMAIN g),
         \A i \in DOMAIN f : g[h[i]] = f[i]
  PROVE  BagOfValues(f) = BagOfValues(g)
<1>1. /\ h \in [DOMAIN f -> DOMAIN g]
      /\ \A a, b \in DOMAIN f : h[a] = h[b] => a = b
      /\ \A b \in DOMAIN g : \E a \in DOMAIN f : h[a] = b
  BY Fun_BijectionProperties
<1>2. IsFiniteSet(DOMAIN g)
  BY FS_Bijection DEF ExistsBijection
<1>3. Values(f) = Values(g)
  BY <1>1 DEF Values
<1>4. ASSUME NEW v
      PROVE  Cardinality(Terms(f, v)) = Cardinality(Terms(g, v))
  <2> DEFINE S == {i \in DOMAIN f : f[i] = v}
             T == {i \in DOMAIN g : g[i] = v}
             k == [i \in S |-> h[i]]
  <2>1. IsFiniteSet(S)
    BY FS_Subset
  <2>2. k \in Bijection(S, T)
    <3>1. k \in [S -> T]
      BY <1>1
    <3>2. \A a, b \in S : k[a] = k[b] => a = b
      BY <1>1
    <3>3. \A e \in T : \E a \in S : k[a] = e
      BY <1>1
    <3> QED BY <3>1, <3>2, <3>3, Fun_IsBij
  <2> HIDE DEF S, T, k
  <2>3. ExistsBijection(S, T)
    BY <2>2 DEF ExistsBijection
  <2> QED BY <2>1, <2>3, FS_Bijection DEF S, T, Terms
<1>5. BagOfValues(g) = [v \in Values(g) |-> Cardinality(Terms(g, v))]
  BY <1>2, BagValues
<1>6. BagOfValues(f) = [v \in Values(f) |-> Cardinality(Terms(f, v))]
  BY BagValues
<1> QED BY <1>3, <1>4, <1>5, <1>6

\* The copies a sum has of the products of a set are the terms with these values.
LEMMA CopiesAreTerms ==
  ASSUME NEW f, IsFiniteSet(DOMAIN f), NEW S, S \subseteq DOMAIN BagOfValues(f)
  PROVE  Cardinality(CopiesOf(BagOfValues(f), S)) = Cardinality({i \in DOMAIN f : f[i] \in S})
<1> DEFINE P == BagOfValues(f)
           bij == [v \in S |-> CHOOSE b : b \in Bijection(1 .. P[v], Terms(f, v))]
           C == CopiesOf(P, S)
           T == {i \in DOMAIN f : f[i] \in S}
           h == [c \in C |-> bij[c[1]][c[2]]]
<1>1. \A v \in S : P[v] = Cardinality(Terms(f, v))
  BY BagValues
<1> HIDE DEF P
<1>2. ASSUME NEW v \in S
      PROVE  /\ bij[v] \in [1 .. P[v] -> Terms(f, v)]
             /\ \A a, b \in 1 .. P[v] : bij[v][a] = bij[v][b] => a = b
             /\ \A i \in Terms(f, v) : \E a \in 1 .. P[v] : bij[v][a] = i
  <2>1. IsFiniteSet(Terms(f, v))
    BY FS_Subset DEF Terms
  <2>2. ExistsBijection(1 .. P[v], Terms(f, v))
    BY <1>1, <2>1, FS_CardinalityType
  <2>3. bij[v] \in Bijection(1 .. P[v], Terms(f, v))
    BY <2>2 DEF ExistsBijection
  <2> DEFINE b == bij[v]
             D == 1 .. P[v]
             E == Terms(f, v)
  <2> HIDE DEF b, D, E
  <2>4. b \in Bijection(D, E)
    BY <2>3 DEF b, D, E
  <2>5. b \in [D -> E] /\ (\A x, y \in D : b[x] = b[y] => x = y) /\ \A i \in E : \E x \in D : b[x] = i
    BY <2>4, Fun_BijectionProperties
  <2> QED BY <2>5 DEF b, D, E
<1> HIDE DEF bij
<1>3. \A c : c \in C <=> \E v \in S : \E k \in 1 .. P[v] : c = <<v, k>>
  BY DEF CopiesOf
<1> HIDE DEF C
<1>4. h \in Bijection(C, T)
  <2>1. h \in [C -> T]
    <3>1. ASSUME NEW v \in S, NEW k \in 1 .. P[v]
          PROVE  bij[v][k] \in T
      <4>1. bij[v][k] \in Terms(f, v)
        BY <1>2
      <4> QED BY <4>1 DEF Terms
    <3> HIDE DEF T
    <3> QED BY <1>3, <3>1
  <2>2. \A a, b \in C : h[a] = h[b] => a = b
    <3>1. ASSUME NEW v \in S, NEW k \in 1 .. P[v], NEW w \in S, NEW l \in 1 .. P[w],
                 bij[v][k] = bij[w][l]
          PROVE  v = w /\ k = l
      <4>1. bij[v][k] \in Terms(f, v) /\ bij[w][l] \in Terms(f, w)
        BY ZenonT(40), <1>2
      <4>2. v = w
        BY <3>1, <4>1 DEF Terms
      <4> QED BY <1>2, <3>1, <4>2
    <3> QED BY <1>3, <3>1
  <2>3. \A i \in T : \E a \in C : h[a] = i
    <3>1. ASSUME NEW i \in T
          PROVE  \E a \in C : h[a] = i
      <4>1. f[i] \in S /\ i \in Terms(f, f[i])
        BY DEF Terms
      <4>2. PICK k \in 1 .. P[f[i]] : bij[f[i]][k] = i
        BY <4>1, <1>2
      <4>3. <<f[i], k>> \in C
        BY <1>3, <4>1, <4>2
      <4> QED BY <4>2, <4>3
    <3> QED BY <3>1
  <2> QED BY <2>1, <2>2, <2>3, Fun_IsBij
<1> HIDE DEF h
<1>5. IsFiniteSet(T)
  BY FS_Subset
<1>6. ExistsBijection(T, C)
  BY <1>4, Fun_ExistsBijSymmetric DEF ExistsBijection
<1> HIDE DEF T
<1> QED BY <1>5, <1>6, FS_Bijection DEF C, P, T

\* The addition of bags.
LEMMA PlusOfBags ==
  ASSUME NEW a, NEW b, IsABag(a), IsABag(b)
  PROVE  IsABag(a (+) b) /\ a (+) b = b (+) a
<1>1. \A x \in DOMAIN a : a[x] \in Nat /\ a[x] > 0
  BY DEF IsABag
<1>2. \A x \in DOMAIN b : b[x] \in Nat /\ b[x] > 0
  BY DEF IsABag
<1>3. DOMAIN a \cup DOMAIN b = DOMAIN b \cup DOMAIN a
  OBVIOUS
<1>4. a (+) b = b (+) a
  BY <1>1, <1>2, <1>3 DEF (+)
<1>5. IsABag(a (+) b)
  BY <1>1, <1>2 DEF (+), IsABag
<1> QED BY <1>4, <1>5

\* The addition of bags may be regrouped.
LEMMA PlusIsAssociative ==
  ASSUME NEW a, NEW b, NEW c, IsABag(a), IsABag(b), IsABag(c)
  PROVE  (a (+) b) (+) c = a (+) (b (+) c)
<1>1. \A x \in DOMAIN a : a[x] \in Nat
  BY DEF IsABag
<1>2. \A x \in DOMAIN b : b[x] \in Nat
  BY DEF IsABag
<1>3. \A x \in DOMAIN c : c[x] \in Nat
  BY DEF IsABag
<1>4. (DOMAIN a \cup DOMAIN b) \cup DOMAIN c = DOMAIN a \cup (DOMAIN b \cup DOMAIN c)
  OBVIOUS
<1> QED BY <1>1, <1>2, <1>3, <1>4 DEF (+)

\* A single factor is a bag.
LEMMA FactorIsBag ==
  ASSUME NEW f
  PROVE  IsABag(Factor(f))
BY DEF Factor, SetToBag, IsABag

-----------------------------------------------------------------------------
(* The layout of packed tiles.                                              *)

\* mma_transpose4 gives byte r of word w the place of word w of row r.
LEMMA Transposed ==
  ASSUME NEW rows, NEW w \in 0 .. 3, NEW r \in 0 .. 3
  PROVE  Transpose4(rows)[w][r] = rows[r][w]
<1>1. \A u, v : /\ MergeH(u, v)[0] = u[0] /\ MergeH(u, v)[1] = v[0]
                /\ MergeH(u, v)[2] = u[1] /\ MergeH(u, v)[3] = v[1]
  BY DEF MergeH
<1>2. \A u, v : /\ MergeL(u, v)[0] = u[2] /\ MergeL(u, v)[1] = v[2]
                /\ MergeL(u, v)[2] = u[3] /\ MergeL(u, v)[3] = v[3]
  BY DEF MergeL
<1>3. \A u, v : /\ PermHigh(u, v)[0] = u[0] /\ PermHigh(u, v)[1] = u[1]
                /\ PermHigh(u, v)[2] = v[0] /\ PermHigh(u, v)[3] = v[1]
  BY DEF PermHigh
<1>4. \A u, v : /\ PermLow(u, v)[0] = u[2] /\ PermLow(u, v)[1] = u[3]
                /\ PermLow(u, v)[2] = v[2] /\ PermLow(u, v)[3] = v[3]
  BY DEF PermLow
<1>5. w \in {0, 1, 2, 3} /\ r \in {0, 1, 2, 3}
  OBVIOUS
<1> QED BY <1>1, <1>2, <1>3, <1>4, <1>5 DEF Transpose4

\* What step s of a chunk multiplies for lane r: word r % 4 of its vector r \div 4.
PackedWord(t, groups, r, s) == PackTile(t, groups)[groups * s + r \div 4][r % 4]

\* It is word s % 4 of vector s \div 4 of the lane.
LEMMA PackedLane ==
  ASSUME NEW t, NEW groups \in {1, 2, 4}, NEW r \in 0 .. 4 * groups - 1, NEW s \in Nat
  PROVE  PackedWord(t, groups, r, s) = t[r][s \div 4][s % 4]
<1> DEFINE i == groups * s + r \div 4
           h == i \div (4 * groups)
           w == (i % (4 * groups)) \div groups
           g == i % groups
<1>1. i \in Nat /\ h = s \div 4 /\ w = s % 4 /\ g = r \div 4
  <2>1. CASE groups = 1
    BY <2>1
  <2>2. CASE groups = 2
    BY <2>2
  <2>3. CASE groups = 4
    BY <2>3
  <2> QED BY <2>1, <2>2, <2>3
<1>6. r \in 0 .. 15
  OBVIOUS
<1>2. w \in 0 .. 3 /\ r % 4 \in 0 .. 3 /\ 4 * g + (r % 4) = r
  BY <1>1, <1>6
<1>3. PackTile(t, groups)[i] = Transpose4(GroupedLanes(t, groups, g, h))[w]
  BY <1>1 DEF PackTile
<1> HIDE DEF i, h, w, g
<1>4. Transpose4(GroupedLanes(t, groups, g, h))[w][r % 4] = GroupedLanes(t, groups, g, h)[r % 4][w]
  BY <1>2, Transposed
<1>5. GroupedLanes(t, groups, g, h)[r % 4] = t[r][h]
  BY <1>2 DEF GroupedLanes
<1> QED BY <1>1, <1>3, <1>4, <1>5 DEF i, PackedWord

\* Byte e of a lane's vectors.
LaneByte(u, e) == u[e \div 16][(e % 16) \div 4][e % 4]

\* The products of the bytes of two lanes over the steps of a chunk.
ByteProducts(steps, u, v) == [e \in 0 .. 4 * steps - 1 |-> <<LaneByte(u, e), LaneByte(v, e)>>]

\* Byte k of word a of a lane.
LEMMA ByteOfStep ==
  ASSUME NEW a \in Nat, NEW k \in 0 .. 3
  PROVE  /\ (4 * a + k) \div 16 = a \div 4
         /\ ((4 * a + k) % 16) \div 4 = a % 4
         /\ (4 * a + k) % 4 = k
<1> DEFINE q == a \div 4
           m == a % 4
           e == 4 * a + k
<1>1. q \in Nat /\ m \in 0 .. 3 /\ a = 4 * q + m
  OBVIOUS
<1> HIDE DEF q, m
<1>2. e = 16 * q + (4 * m + k) /\ 4 * m + k \in 0 .. 15
  BY <1>1
<1>3. e \div 16 = q /\ e % 16 = 4 * m + k /\ e % 4 = k
  BY <1>1, <1>2
<1>4. (4 * m + k) \div 4 = m
  BY <1>1
<1> QED BY <1>3, <1>4 DEF q, m

\* The outer products of a chunk add up the products of the bytes of two lanes.
LEMMA StepsAreBytes ==
  ASSUME NEW steps \in Nat, NEW x, NEW y, NEW row, NEW col, NEW u, NEW v,
         \A s \in 0 .. steps - 1 : x[s][row] = u[s \div 4][s % 4] /\ y[s][col] = v[s \div 4][s % 4]
  PROVE  Accumulated(steps, x, y, row, col) = BagOfValues(ByteProducts(steps, u, v))
<1> DEFINE D == (0 .. steps - 1) \X (0 .. 3)
           E == 0 .. 4 * steps - 1
           f == [s \in D |-> <<x[s[1]][row][s[2]], y[s[1]][col][s[2]]>>]
           g == [e \in E |-> <<LaneByte(u, e), LaneByte(v, e)>>]
           h == [s \in D |-> 4 * s[1] + s[2]]
<1>1. h \in Bijection(D, E)
  <2>1. h \in [D -> E]
    OBVIOUS
  <2>2. \A a, b \in D : h[a] = h[b] => a = b
    <3>1. ASSUME NEW a1 \in 0 .. steps - 1, NEW a2 \in 0 .. 3, NEW b1 \in 0 .. steps - 1, NEW b2 \in 0 .. 3,
                 4 * a1 + a2 = 4 * b1 + b2
          PROVE  a1 = b1 /\ a2 = b2
      <4>1. a1 \in Int /\ b1 \in Int
        OBVIOUS
      <4> QED BY ONLY <3>1, <4>1, a2 \in 0 .. 3, b2 \in 0 .. 3
    <3>2. \A a \in D : a[1] \in 0 .. steps - 1 /\ a[2] \in 0 .. 3 /\ a = <<a[1], a[2]>>
                        /\ h[a] = 4 * a[1] + a[2]
      OBVIOUS
    <3> HIDE DEF D, h
    <3> QED BY <3>1, <3>2
  <2>3. \A e \in E : \E a \in D : h[a] = e
    <3>1. ASSUME NEW e \in E
          PROVE  <<e \div 4, e % 4>> \in D /\ h[<<e \div 4, e % 4>>] = e
      <4>1. e \div 4 \in 0 .. steps - 1 /\ e % 4 \in 0 .. 3 /\ 4 * (e \div 4) + (e % 4) = e
        OBVIOUS
      <4> QED BY <4>1
    <3> QED BY <3>1
  <2> QED BY <2>1, <2>2, <2>3, Fun_IsBij
<1>2. \A s \in D : g[h[s]] = f[s]
  <2>1. ASSUME NEW a \in 0 .. steps - 1, NEW k \in 0 .. 3
        PROVE  g[h[<<a, k>>]] = f[<<a, k>>]
    <3> DEFINE e == 4 * a + k
    <3>1. /\ e \in E /\ <<a, k>> \in D /\ a \in Nat
      OBVIOUS
    <3>4. e \div 16 = a \div 4 /\ (e % 16) \div 4 = a % 4 /\ e % 4 = k
      BY <3>1, ByteOfStep
    <3>2. h[<<a, k>>] = e
      BY <3>1
    <3>3. f[<<a, k>>] = <<u[a \div 4][a % 4][k], v[a \div 4][a % 4][k]>>
      BY <3>1
    <3> HIDE DEF e, h
    <3> QED BY <3>1, <3>2, <3>3, <3>4 DEF LaneByte
  <2>2. \A s \in D : s[1] \in 0 .. steps - 1 /\ s[2] \in 0 .. 3 /\ s = <<s[1], s[2]>>
    OBVIOUS
  <2> HIDE DEF f, g, h, D
  <2> QED BY <2>1, <2>2
<1>3. IsFiniteSet(D) /\ DOMAIN f = D /\ DOMAIN g = E
  <2>1. steps - 1 \in Int /\ 0 \in Int /\ 3 \in Int
    OBVIOUS
  <2>3. IsFiniteSet(0 .. steps - 1) /\ IsFiniteSet(0 .. 3)
    BY <2>1, FS_Interval
  <2>2. IsFiniteSet(D)
    BY <2>3, FS_Product
  <2> QED BY <2>2
<1> HIDE DEF D, E, h
<1>4. BagOfValues(f) = BagOfValues(g)
  <2> HIDE DEF f, g
  <2> QED BY <1>1, <1>2, <1>3, Reordered
<1> QED BY <1>4 DEF Accumulated, ByteProducts, D, E

\* The 16x8 outer products over two packed tiles add, for row r and column j, the
\* products of the bytes of lane j of the one and lane r of the other.
LEMMA Sum16x8OfTiles ==
  ASSUME NEW ta, NEW tb, NEW r, r \in 0 .. 15, NEW j, j \in 0 .. 7, NEW steps, steps \in Nat
  PROVE  Sum16x8(steps, PackTile(ta, 4), PackTile(tb, 2), r, j)
            = BagOfValues(ByteProducts(steps, tb[j], ta[r]))
<1>1. \A s \in 0 .. steps - 1 : PackedWord(ta, 4, r, s) = ta[r][s \div 4][s % 4]
  <2>1. 4 \in {1, 2, 4} /\ r \in 0 .. 4 * 4 - 1 /\ \A s \in 0 .. steps - 1 : s \in Nat
    OBVIOUS
  <2> QED BY <2>1, PackedLane
<1>2. \A s \in 0 .. steps - 1 : PackedWord(tb, 2, j, s) = tb[j][s \div 4][s % 4]
  <2>1. 2 \in {1, 2, 4} /\ j \in 0 .. 4 * 2 - 1 /\ \A s \in 0 .. steps - 1 : s \in Nat
    OBVIOUS
  <2> QED BY SMTT(30), <2>1, PackedLane
<1> DEFINE x == [s \in 0 .. steps - 1 |-> PackTile(tb, 2)[2 * s + j \div 4]]
           y == [s \in 0 .. steps - 1 |-> PackTile(ta, 4)[4 * s + r \div 4]]
<1>3. \A s \in 0 .. steps - 1 : x[s][j % 4] = tb[j][s \div 4][s % 4] /\ y[s][r % 4] = ta[r][s \div 4][s % 4]
  BY <1>1, <1>2 DEF PackedWord
<1>4. Sum16x8(steps, PackTile(ta, 4), PackTile(tb, 2), r, j) = Accumulated(steps, x, y, j % 4, r % 4)
  BY DEF Sum16x8
<1> HIDE DEF x, y
<1> QED BY <1>3, <1>4, StepsAreBytes

\* The same for the 8x8 outer products.
LEMMA Sum8x8OfTiles ==
  ASSUME NEW ta, NEW tb, NEW r, r \in 0 .. 7, NEW j, j \in 0 .. 7, NEW steps, steps \in Nat
  PROVE  Sum8x8(steps, PackTile(ta, 2), PackTile(tb, 2), r, j)
            = BagOfValues(ByteProducts(steps, ta[r], tb[j]))
<1>1. \A s \in 0 .. steps - 1 : PackedWord(ta, 2, r, s) = ta[r][s \div 4][s % 4]
  <2>1. 2 \in {1, 2, 4} /\ r \in 0 .. 4 * 2 - 1 /\ \A s \in 0 .. steps - 1 : s \in Nat
    OBVIOUS
  <2> QED BY <2>1, PackedLane
<1>2. \A s \in 0 .. steps - 1 : PackedWord(tb, 2, j, s) = tb[j][s \div 4][s % 4]
  <2>1. 2 \in {1, 2, 4} /\ j \in 0 .. 4 * 2 - 1 /\ \A s \in 0 .. steps - 1 : s \in Nat
    OBVIOUS
  <2> QED BY <2>1, PackedLane
<1> DEFINE x == [s \in 0 .. steps - 1 |-> PackTile(ta, 2)[2 * s + r \div 4]]
           y == [s \in 0 .. steps - 1 |-> PackTile(tb, 2)[2 * s + j \div 4]]
<1>3. \A s \in 0 .. steps - 1 : x[s][r % 4] = ta[r][s \div 4][s % 4] /\ y[s][j % 4] = tb[j][s \div 4][s % 4]
  BY <1>1, <1>2 DEF PackedWord
<1>4. Sum8x8(steps, PackTile(ta, 2), PackTile(tb, 2), r, j) = Accumulated(steps, x, y, r % 4, j % 4)
  BY DEF Sum8x8
<1> HIDE DEF x, y
<1> QED BY <1>3, <1>4, StepsAreBytes

-----------------------------------------------------------------------------
(* Sums of activations, and the bias of flipped ones.                       *)

\* A sum of different terms has each once.
LEMMA DifferentTerms ==
  ASSUME NEW f, IsFiniteSet(DOMAIN f), \A i, k \in DOMAIN f : f[i] = f[k] => i = k
  PROVE  BagOfValues(f) = SetToBag({f[i] : i \in DOMAIN f})
<1>1. ASSUME NEW k \in DOMAIN f
      PROVE  Cardinality(Terms(f, f[k])) = 1
  <2>1. Terms(f, f[k]) = {k}
    BY DEF Terms
  <2> QED BY <2>1, FS_Singleton
<1>2. \A v \in Values(f) : Cardinality(Terms(f, v)) = 1
  BY <1>1 DEF Values
<1>3. BagOfValues(f) = [v \in Values(f) |-> Cardinality(Terms(f, v))]
  BY BagValues
<1>4. BagOfValues(f) = [v \in Values(f) |-> 1]
  BY <1>2, <1>3
<1> QED BY <1>4 DEF SetToBag, Values

\* The sums of activations from element first on.
ActivationTerms(blk, first, n) == [e \in 0 .. n - 1 |-> <<Activation(blk, first + e)>>]

\* The sum of different activations has each once.
LEMMA ActivationSum ==
  ASSUME NEW blk, NEW first \in Int, NEW n \in Nat
  PROVE  BagOfValues(ActivationTerms(blk, first, n))
            = SetToBag({<<Activation(blk, e)>> : e \in first .. first + n - 1})
<1> DEFINE f == ActivationTerms(blk, first, n)
<1>1. DOMAIN f = 0 .. n - 1 /\ \A e \in 0 .. n - 1 : f[e] = <<<<blk, first + e>>>>
  BY DEF ActivationTerms, Activation
<1>2. IsFiniteSet(0 .. n - 1)
  <2>1. n - 1 \in Int
    OBVIOUS
  <2> QED BY <2>1, FS_Interval
<1>3. {f[e] : e \in 0 .. n - 1} = {<<Activation(blk, e)>> : e \in first .. first + n - 1}
  <2>1. \A e \in 0 .. n - 1 : first + e \in first .. first + n - 1
    OBVIOUS
  <2>2. \A e \in first .. first + n - 1 : e - first \in 0 .. n - 1 /\ first + (e - first) = e
    OBVIOUS
  <2> HIDE DEF f
  <2>3. \A v \in {f[e] : e \in 0 .. n - 1} : v \in {<<Activation(blk, e)>> : e \in first .. first + n - 1}
    BY <1>1, <2>1 DEF Activation
  <2>4. \A v \in {<<Activation(blk, e)>> : e \in first .. first + n - 1} : v \in {f[e] : e \in 0 .. n - 1}
    <3>1. ASSUME NEW e \in first .. first + n - 1
          PROVE  f[e - first] = <<Activation(blk, e)>>
      BY <1>1, <2>2 DEF Activation
    <3> QED BY <2>2, <3>1
  <2> QED BY <2>3, <2>4
<1> HIDE DEF f
<1>4. \A e, k \in 0 .. n - 1 : f[e] = f[k] => e = k
  <2>1. \A e, k \in 0 .. n - 1 : f[e] = f[k] => first + e = first + k
    BY <1>1
  <2> QED BY <2>1
<1> QED BY SMTT(30), <1>1, <1>2, <1>3, <1>4, DifferentTerms DEF f

\* bsums[i], and two neighbours together.
LEMMA BSums ==
  ASSUME NEW blk, NEW i \in Int
  PROVE  /\ BSum(blk, i) = BagOfValues(ActivationTerms(blk, 16 * i, 16))
         /\ BSum(blk, 2 * i) (+) BSum(blk, 2 * i + 1) = BagOfValues(ActivationTerms(blk, 32 * i, 32))
<1> DEFINE S(first, n) == {<<Activation(blk, e)>> : e \in first .. first + n - 1}
<1>1. BSum(blk, i) = SetToBag(S(16 * i, 16))
  BY DEF BSum
<1>2. BSum(blk, 2 * i) = SetToBag(S(32 * i, 16)) /\ BSum(blk, 2 * i + 1) = SetToBag(S(32 * i + 16, 16))
  <2>1. /\ 16 * (2 * i) = 32 * i /\ 16 * (2 * i) + 15 = 32 * i + 16 - 1
        /\ 16 * (2 * i + 1) = 32 * i + 16 /\ 16 * (2 * i + 1) + 15 = (32 * i + 16) + 16 - 1
    OBVIOUS
  <2> QED BY <2>1 DEF BSum
<1>3. S(32 * i, 32) = S(32 * i, 16) \cup S(32 * i + 16, 16)
  <2>1. 32 * i .. 32 * i + 31 = (32 * i .. 32 * i + 15) \cup (32 * i + 16 .. 32 * i + 31)
    OBVIOUS
  <2> QED BY <2>1
<1>4. S(32 * i, 16) \cap S(32 * i + 16, 16) = {}
  <2>1. \A e \in 32 * i .. 32 * i + 15, k \in 32 * i + 16 .. 32 * i + 31 :
            <<Activation(blk, e)>> # <<Activation(blk, k)>>
    BY DEF Activation
  <2> QED BY <2>1
<1> HIDE DEF S
<1>5. SetToBag(S(32 * i, 16)) (+) SetToBag(S(32 * i + 16, 16)) = SetToBag(S(32 * i, 32))
  BY <1>3, <1>4 DEF SetToBag, (+)
<1>6. SetToBag(S(16 * i, 16)) = BagOfValues(ActivationTerms(blk, 16 * i, 16))
      /\ SetToBag(S(32 * i, 32)) = BagOfValues(ActivationTerms(blk, 32 * i, 32))
  BY ActivationSum DEF S
<1> QED BY <1>1, <1>2, <1>5, <1>6

\* What a sum keeps of each product.
Parts(P, part) ==
    [v \in {part[p] : p \in DOMAIN P} |-> Cardinality(CopiesOf(P, {p \in DOMAIN P : part[p] = v}))]

\* What is kept of the products of a sum is the sum of what is kept of its terms.
LEMMA PartsOfSum ==
  ASSUME NEW f, IsFiniteSet(DOMAIN f), NEW P, P = BagOfValues(f), NEW g, DOMAIN g = DOMAIN f,
         NEW part, \A e \in DOMAIN f : part[f[e]] = g[e]
  PROVE  Parts(P, part) = BagOfValues(g)
<1> DEFINE D == DOMAIN f
<1>1. IsFiniteSet(D) /\ DOMAIN f = D /\ DOMAIN g = D /\ \A e \in D : part[f[e]] = g[e]
  OBVIOUS
<1> HIDE DEF D
<1>2. /\ \A e \in D : f[e] \in DOMAIN P
      /\ \A p \in DOMAIN P : \E e \in D : p = f[e]
  <2>1. BagOfValues(f) = [v \in Values(f) |-> Cardinality(Terms(f, v))]
    BY BagValues
  <2>2. DOMAIN P = Values(f)
    BY <2>1
  <2> QED BY <2>2, <1>1 DEF Values
<1>3. {part[p] : p \in DOMAIN P} = Values(g)
  <2>1. \A p \in DOMAIN P : part[p] \in Values(g)
    BY <1>1, <1>2 DEF Values
  <2>2. ASSUME NEW v \in Values(g)
        PROVE  v \in {part[p] : p \in DOMAIN P}
    <3>1. PICK e \in D : v = g[e]
      BY <1>1 DEF Values
    <3> QED BY <1>1, <1>2, <3>1
  <2> QED BY <2>1, <2>2
<1>4. ASSUME NEW v
      PROVE  Cardinality(CopiesOf(P, {p \in DOMAIN P : part[p] = v})) = Cardinality(Terms(g, v))
  <2> DEFINE S == {p \in DOMAIN P : part[p] = v}
  <2>1. {e \in DOMAIN f : f[e] \in S} = Terms(g, v)
    BY <1>1, <1>2 DEF Terms
  <2>2. IsFiniteSet(DOMAIN f) /\ S \subseteq DOMAIN BagOfValues(f)
    OBVIOUS
  <2> HIDE DEF S
  <2>3. Cardinality(CopiesOf(P, S)) = Cardinality({e \in DOMAIN f : f[e] \in S})
    BY <2>2, CopiesAreTerms
  <2> QED BY <2>1, <2>3 DEF S
<1>5. BagOfValues(g) = [v \in Values(g) |-> Cardinality(Terms(g, v))]
  BY <1>1, BagValues
<1> QED BY <1>3, <1>4, <1>5 DEF Parts

\* The terms of a sum are its values.
LEMMA SumTerms ==
  ASSUME NEW f, IsFiniteSet(DOMAIN f)
  PROVE  DOMAIN BagOfValues(f) = {f[e] : e \in DOMAIN f}
BY BagValues DEF Values

\* The first factors, and the products without the bias.
LEMMA FirstFactors ==
  ASSUME NEW f, IsFiniteSet(DOMAIN f), NEW g, DOMAIN g = DOMAIN f, \A e \in DOMAIN f : g[e] = f[e][1]
  PROVE  PartsOf(BagOfValues(f), LAMBDA p : p[1]) = BagOfValues(g)
<1> DEFINE P == BagOfValues(f)
           part == [p \in DOMAIN P |-> p[1]]
<1>1. DOMAIN P = {f[e] : e \in DOMAIN f}
  BY SumTerms
<1> HIDE DEF P
<1>2. \A e \in DOMAIN f : part[f[e]] = g[e]
  BY <1>1
<1>3. PartsOf(P, LAMBDA p : p[1]) = Parts(P, part)
  BY DEF PartsOf, Parts
<1> HIDE DEF part
<1>4. Parts(P, part) = BagOfValues(g)
  BY <1>2, PartsOfSum DEF P
<1> QED BY <1>3, <1>4 DEF P

\* The products without the bias of the activations.
LEMMA UnbiasedProducts ==
  ASSUME NEW f, IsFiniteSet(DOMAIN f), NEW g, DOMAIN g = DOMAIN f,
         \A e \in DOMAIN f : g[e] = <<f[e][1], f[e][2][1]>>
  PROVE  PartsOf(BagOfValues(f), LAMBDA p : <<p[1], p[2][1]>>) = BagOfValues(g)
<1> DEFINE P == BagOfValues(f)
           part == [p \in DOMAIN P |-> <<p[1], p[2][1]>>]
<1>1. DOMAIN P = {f[e] : e \in DOMAIN f}
  BY SumTerms
<1> HIDE DEF P
<1>2. \A e \in DOMAIN f : part[f[e]] = g[e]
  BY <1>1
<1>3. PartsOf(P, LAMBDA p : <<p[1], p[2][1]>>) = Parts(P, part)
  BY DEF PartsOf, Parts
<1> HIDE DEF part
<1>4. Parts(P, part) = BagOfValues(g)
  BY <1>2, PartsOfSum DEF P
<1> QED BY <1>3, <1>4 DEF P

\* What the flips add is what the correction takes off.
LEMMA BiasCancels ==
  ASSUME NEW s, NEW f, NEW g, NEW w, NEW C, IsFiniteSet(DOMAIN f), DOMAIN f # {},
         DOMAIN w = DOMAIN f, DOMAIN g = DOMAIN f, C.times # -C.times, C.sum = BagOfValues(w),
         \A e \in DOMAIN f : f[e][1] = w[e] /\ f[e][2][2] = C.times /\ g[e] = <<f[e][1], f[e][2][1]>>
  PROVE  Unbiased(s, BagOfValues(f), C) = {Addend(1, s, BagOfValues(g))}
<1> DEFINE P == BagOfValues(f)
           b == C.times
           added == PartsOf(P, LAMBDA p : p[1])
           rest == PartsOf(P, LAMBDA p : <<p[1], p[2][1]>>)
           bias == (CHOOSE p \in DOMAIN P : TRUE)[2][2]
<1>1. DOMAIN P = {f[e] : e \in DOMAIN f}
  BY SumTerms
<1>2. bias = b
  <2> HIDE DEF P
  <2>1. (CHOOSE p \in DOMAIN P : TRUE) \in DOMAIN P
    BY <1>1
  <2> QED BY <1>1, <2>1
<1>3. added = BagOfValues(w)
  BY FirstFactors
<1>4. rest = BagOfValues(g)
  <2>1. IsFiniteSet(DOMAIN f) /\ DOMAIN g = DOMAIN f /\ \A e \in DOMAIN f : g[e] = <<f[e][1], f[e][2][1]>>
    OBVIOUS
  <2> QED BY ONLY <2>1, UnbiasedProducts
<1> HIDE DEF P, added, rest, bias
<1>5. Unbiased(s, P, C) = {Addend(1, s, rest)}
  BY <1>2, <1>3 DEF Unbiased, added, rest, bias, b
<1> QED BY <1>4, <1>5 DEF P

\* A lane u of weights against a lane v of flipped activations, whose products
\* without the bias are those of g.
BiasedLane(s, u, v, depth) == Unbiased(s, BagOfValues(ByteProducts(4 * depth, u, v)), C128Of(u, depth))
LaneTerms(g, u, v, depth) ==
    /\ DOMAIN g = 0 .. 16 * depth - 1
    /\ \A e \in 0 .. 16 * depth - 1 :
           LaneByte(v, e)[2] = 128 /\ g[e] = <<LaneByte(u, e), LaneByte(v, e)[1]>>

\* What is left of such a lane is the sum of the products of the weights with
\* the activations themselves.
LEMMA UnbiasedLane ==
  ASSUME NEW s, NEW depth, depth \in Nat \ {0}, NEW u, NEW v, NEW g, LaneTerms(g, u, v, depth)
  PROVE  BiasedLane(s, u, v, depth) = {Addend(1, s, BagOfValues(g))}
<1> DEFINE n == 16 * depth
           f == [e \in 0 .. n - 1 |-> <<LaneByte(u, e), LaneByte(v, e)>>]
           w == [e \in 0 .. n - 1 |-> LaneByte(u, e)]
           c == C128Of(u, depth)
<1>1. n \in Nat \ {0} /\ 4 * (4 * depth) - 1 = n - 1
  OBVIOUS
<1>2. ByteProducts(4 * depth, u, v) = f
  <2> HIDE DEF n
  <2> QED BY <1>1 DEF ByteProducts
<1>3. c.times = 128 /\ c.sum = BagOfValues(w) /\ 128 # -128
  BY DEF C128Of, LaneByte
<1>4. IsFiniteSet(0 .. n - 1) /\ 0 .. n - 1 # {}
  <2>1. n - 1 \in Int /\ 0 \in 0 .. n - 1
    OBVIOUS
  <2> HIDE DEF n
  <2> QED BY <2>1, FS_Interval
<1>5. /\ DOMAIN f = 0 .. n - 1 /\ DOMAIN w = 0 .. n - 1 /\ DOMAIN g = 0 .. n - 1
      /\ \A e \in 0 .. n - 1 : f[e][1] = w[e] /\ f[e][2][2] = 128 /\ g[e] = <<f[e][1], f[e][2][1]>>
  <2>1. \A e \in 0 .. n - 1 : LaneByte(v, e)[2] = 128 /\ g[e] = <<LaneByte(u, e), LaneByte(v, e)[1]>>
    BY DEF LaneTerms
  <2>2. DOMAIN g = 0 .. n - 1
    BY DEF LaneTerms
  <2> HIDE DEF n
  <2> QED BY <2>1, <2>2
<1> HIDE DEF n, w, c, f
<1>6. /\ IsFiniteSet(DOMAIN f) /\ DOMAIN f # {} /\ DOMAIN w = DOMAIN f /\ DOMAIN g = DOMAIN f
      /\ c.times # -c.times /\ c.sum = BagOfValues(w)
      /\ \A e \in DOMAIN f : f[e][1] = w[e] /\ f[e][2][2] = c.times /\ g[e] = <<f[e][1], f[e][2][1]>>
  BY <1>3, <1>4, <1>5
<1>7. Unbiased(s, BagOfValues(f), c) = {Addend(1, s, BagOfValues(g))}
  BY ONLY <1>6, BiasCancels
<1> QED BY <1>2, <1>7 DEF c, BiasedLane

\* The sum that keeps one bit of the second factors.
Plane(P, k) ==
    [v \in {<<p[1], p[2][k]>> : p \in DOMAIN P} |->
        Cardinality(CopiesOf(P, {p \in DOMAIN P : <<p[1], p[2][k]>> = v}))]

\* The products with one bit of the codes.
LEMMA PlaneOfSum ==
  ASSUME NEW f, IsFiniteSet(DOMAIN f), NEW k, NEW g, DOMAIN g = DOMAIN f,
         \A e \in DOMAIN f : g[e] = <<f[e][1], f[e][2][k]>>, NEW P, P = BagOfValues(f)
  PROVE  Plane(P, k) = BagOfValues(g)
<1> DEFINE part == [p \in DOMAIN P |-> <<p[1], p[2][k]>>]
<1>1. DOMAIN P = {f[e] : e \in DOMAIN f}
  BY SumTerms
<1>2. \A e \in DOMAIN f : part[f[e]] = g[e]
  BY <1>1
<1>3. Plane(P, k) = Parts(P, part)
  BY DEF Plane, Parts
<1> HIDE DEF part
<1>4. Parts(P, part) = BagOfValues(g)
  BY <1>2, PartsOfSum
<1> QED BY <1>3, <1>4

-----------------------------------------------------------------------------
(* Lanes of a tile.                                                         *)

\* The place of a lane in vectors of four.
LEMMA LanePlace ==
  ASSUME NEW groups \in Nat, NEW l \in 0 .. 4 * groups - 1
  PROVE  l \div 4 \in 0 .. groups - 1 /\ l % 4 \in 0 .. 3 /\ 4 * (l \div 4) + (l % 4) = l
OBVIOUS

\* The bytes of two vectors filled in order.
LEMMA BytePlace ==
  ASSUME NEW n \in Nat, NEW e \in 0 .. 16 * n - 1
  PROVE  /\ e \div 16 \in 0 .. n - 1 /\ (e % 16) \div 4 \in 0 .. 3 /\ e % 4 \in 0 .. 3
         /\ 16 * (e \div 16) + (4 * ((e % 16) \div 4) + (e % 4)) = e
         /\ 4 * ((e % 16) \div 4) + (e % 4) = e % 16
<1>1. e \div 16 \in 0 .. n - 1
  OBVIOUS
<1>2. e % 16 \in 0 .. 15 /\ 16 * (e \div 16) + (e % 16) = e
  OBVIOUS
<1> DEFINE m == e % 16
           q == e \div 16
<1>3. e % 4 = m % 4
  OBVIOUS
<1> HIDE DEF m, q
<1>4. m \in 0 .. 15 /\ 16 * q + m = e /\ q \in Int
  BY <1>1, <1>2 DEF m, q
<1>5. m \div 4 \in 0 .. 3 /\ m % 4 \in 0 .. 3 /\ 4 * (m \div 4) + (m % 4) = m
  BY <1>4
<1> QED BY <1>1, <1>3, <1>4, <1>5 DEF m, q

\* A lane beyond the matrix is given its last row or column.
LEMMA ClampIsLast ==
  ASSUME NEW l \in Nat, NEW size \in Nat
  PROVE  ClampLane(l, size) = LastOr(l, size)
BY DEF ClampLane, LastOr

-----------------------------------------------------------------------------
(* Bits of codes.                                                          *)

\* A byte with zeros from bit p on.
Narrow(n, p) == n = [k \in 0 .. 7 |-> n[k]] /\ \A k \in p .. 7 : n[k] = Off

\* A byte of a block has eight bits.
LEMMA SourceIsByte ==
  ASSUME NEW blk, NEW field, NEW i
  PROVE  DOMAIN SourceByte(blk, field, i) = 0 .. 7
BY DEF SourceByte

\* Either half of a byte, taken alone, fits four bits.
LEMMA Nibbles ==
  ASSUME NEW v, DOMAIN v = 0 .. 7
  PROVE  Narrow(And(v, LowBits(4)), 4) /\ Narrow(Shr(v, 4), 4)
<1>1. And(v, LowBits(4)) = [k \in 0 .. 7 |-> And(v, LowBits(4))[k]] /\ \A k \in 4 .. 7 : And(v, LowBits(4))[k] = Off
  BY DEF And, LowBits
<1>2. Shr(v, 4) = [k \in 0 .. 7 |-> Shr(v, 4)[k]] /\ \A k \in 4 .. 7 : Shr(v, 4)[k] = Off
  BY DEF Shr
<1> QED BY <1>1, <1>2 DEF Narrow

\* Two bits of a byte, taken alone, fit two.
LEMMA BitPairs ==
  ASSUME NEW v, DOMAIN v = 0 .. 7, NEW s \in Nat
  PROVE  Narrow(And(Shr(v, s), LowBits(2)), 2)
<1>1. DOMAIN Shr(v, s) = 0 .. 7
  BY DEF Shr
<1> QED BY <1>1 DEF And, LowBits, Narrow

\* A bit of h put over the zeros of n.
LEMMA BitMerged ==
  ASSUME NEW n, NEW p \in 0 .. 7, Narrow(n, p), NEW h, DOMAIN h = 0 .. 7, NEW s \in 0 .. 7
  PROVE  Or(n, Shl(And(Shr(h, s), LowBits(1)), p)) = [n EXCEPT ![p] = h[s]]
<1> DEFINE m == Shl(And(Shr(h, s), LowBits(1)), p)
<1>1. \A k \in 0 .. 7 : m[k] = IF k = p THEN h[s] ELSE Off
  <2>1. And(Shr(h, s), LowBits(1)) = [k \in 0 .. 7 |-> IF k = 0 THEN h[s] ELSE Off]
    <3>1. Shr(h, s) = [k \in 0 .. 7 |-> IF k + s \in 0 .. 7 THEN h[k + s] ELSE Off]
      BY DEF Shr
    <3> QED BY <3>1 DEF And, LowBits
  <2> QED BY <2>1 DEF Shl
<1>2. DOMAIN n = 0 .. 7 /\ \A k \in p .. 7 : n[k] = Off
  BY DEF Narrow
<1> HIDE DEF m
<1>3. Or(n, m) = [k \in 0 .. 7 |-> IF k = p THEN h[s] ELSE n[k]]
  BY <1>1, <1>2 DEF Or
<1>4. [n EXCEPT ![p] = h[s]] = [k \in 0 .. 7 |-> IF k = p THEN h[s] ELSE n[k]]
  BY DEF Narrow
<1> QED BY <1>3, <1>4 DEF m

\* Two bits of h put over the zeros of n.
LEMMA BitsMerged ==
  ASSUME NEW n, Narrow(n, 4), NEW h, DOMAIN h = 0 .. 7, NEW s \in 0 .. 6
  PROVE  Or(n, Shl(And(Shr(h, s), LowBits(2)), 4)) = [n EXCEPT ![4] = h[s], ![5] = h[s + 1]]
<1> DEFINE m == Shl(And(Shr(h, s), LowBits(2)), 4)
<1>1. \A k \in 0 .. 7 : m[k] = IF k = 4 THEN h[s] ELSE IF k = 5 THEN h[s + 1] ELSE Off
  <2>1. And(Shr(h, s), LowBits(2)) = [k \in 0 .. 7 |-> IF k = 0 THEN h[s] ELSE IF k = 1 THEN h[s + 1] ELSE Off]
    <3>1. Shr(h, s) = [k \in 0 .. 7 |-> IF k + s \in 0 .. 7 THEN h[k + s] ELSE Off]
      BY DEF Shr
    <3> QED BY <3>1 DEF And, LowBits
  <2> QED BY <2>1 DEF Shl
<1>2. DOMAIN n = 0 .. 7 /\ \A k \in 4 .. 7 : n[k] = Off
  BY DEF Narrow
<1> HIDE DEF m
<1>3. Or(n, m) = [k \in 0 .. 7 |-> IF k = 4 THEN h[s] ELSE IF k = 5 THEN h[s + 1] ELSE n[k]]
  BY <1>1, <1>2 DEF Or
<1>4. [n EXCEPT ![4] = h[s], ![5] = h[s + 1]]
         = [k \in 0 .. 7 |-> IF k = 4 THEN h[s] ELSE IF k = 5 THEN h[s + 1] ELSE n[k]]
  BY DEF Narrow
<1> QED BY <1>3, <1>4 DEF m

-----------------------------------------------------------------------------
(* q4_K.                                                                   *)

\* The instance speaks of the same tiles, sums and bits.
LEMMA Vocabulary_q4_K ==
  /\ \A t, groups : q4_K!PackTile(t, groups) = PackTile(t, groups)
  /\ \A steps, a, y, r, j : q4_K!Sum16x8(steps, a, y, r, j) = Sum16x8(steps, a, y, r, j)
  /\ \A a, b : q4_K!(+)(a, b) = a (+) b
  /\ \A f : q4_K!BagOfValues(f) = BagOfValues(f)
  /\ \A f : q4_K!Factor(f) = Factor(f)
  /\ \A times, f, P : q4_K!Addend(times, f, P) = Addend(times, f, P)
  /\ \A l, size : q4_K!ClampLane(l, size) = ClampLane(l, size)
  /\ \A blk, e : q4_K!Activation(blk, e) = Activation(blk, e)
  /\ \A blk, field, i : q4_K!SourceByte(blk, field, i) = SourceByte(blk, field, i)
  /\ \A n : q4_K!LowBits(n) = LowBits(n)
  /\ \A v, n : q4_K!Shr(v, n) = Shr(v, n) /\ q4_K!Shl(v, n) = Shl(v, n)
  /\ \A v, w : q4_K!And(v, w) = And(v, w) /\ q4_K!Or(v, w) = Or(v, w)
  /\ \A blk, i : q4_K!BSum(blk, i) = BSum(blk, i)
BY DEF q4_K!PackTile, PackTile, q4_K!Transpose4, Transpose4, q4_K!GroupedLanes, GroupedLanes,
       q4_K!MergeH, MergeH, q4_K!MergeL, MergeL, q4_K!PermHigh, PermHigh, q4_K!PermLow, PermLow,
       q4_K!Sum16x8, Sum16x8, q4_K!Accumulated, Accumulated, q4_K!BagOfValues, BagOfValues,
       q4_K!Cardinality, Cardinality, q4_K!(+), (+), q4_K!Factor, Factor, q4_K!SetToBag, SetToBag,
       q4_K!Addend, Addend, q4_K!BSum, BSum, q4_K!Activation, Activation, q4_K!ClampLane, ClampLane,
       q4_K!SourceByte, SourceByte, q4_K!LowBits, LowBits, q4_K!Shr, Shr, q4_K!Shl, Shl, q4_K!And, And,
       q4_K!Or, Or, q4_K!Off, Off

\* What a chunk of q4_K adds to a lane is what the scalar definition adds: the codes meet
\* the activations of their column, and TS takes off the minimum.
LEMMA Lane_q4_K ==
  ASSUME NEW cs, cs.rows \in Nat \ {0}, cs.cols \in Nat \ {0}, NEW r \in 0 .. 15, NEW j \in 0 .. 7,
         NEW ch \in Nat
  PROVE  q4_K!Contribution(cs, r, j, ch)
            = q4_K!Reference(cs, LastOr(r, cs.rows), LastOr(j, cs.cols), ch)
<1> DEFINE b == ch \div 8
           sub == ch % 8
           row == q4_K!A(LastOr(r, cs.rows), b)
           col == q4_K!B(LastOr(j, cs.cols), b)
           ta == [l \in 0 .. q4_K!MR - 1 |-> q4_K!Codes32(q4_K!A(q4_K!ClampLane(l, cs.rows), b), sub)]
           tb == [l \in 0 .. 7 |-> [h \in 0 .. 2 - 1 |-> q4_K!Vector(LAMBDA i :
                     q4_K!Activation(q4_K!B(q4_K!ClampLane(l, cs.cols), b), 32 * sub + 16 * h + i))]]
           pa == q4_K!RepackA(cs.rows, b, sub)
           pb == q4_K!PackB(cs.cols, b, sub)
           code(e) == LET byte == q4_K!SourceByte(row, "qs", 32 * (sub \div 2) + e)
                      IN  IF sub % 2 = 1 THEN q4_K!Shr(byte, 4) ELSE q4_K!And(byte, q4_K!LowBits(4))
           at(e) == 32 * sub + e
<1>1. /\ cs.rows \in Nat \ {0} /\ cs.cols \in Nat \ {0} /\ sub \in 0 .. 8 - 1 /\ b \in Nat
      /\ r \in 0 .. 4 * 4 - 1 /\ j \in 0 .. 4 * 2 - 1
  OBVIOUS
<1>2. /\ r \div 4 \in 0 .. 3 /\ r % 4 \in 0 .. 3 /\ 4 * (r \div 4) + (r % 4) = r
      /\ j \div 4 \in 0 .. 1 /\ j % 4 \in 0 .. 3 /\ 4 * (j \div 4) + (j % 4) = j
  OBVIOUS
<1>3. ClampLane(r, cs.rows) = LastOr(r, cs.rows) /\ ClampLane(j, cs.cols) = LastOr(j, cs.cols)
  BY <1>1, ClampIsLast
<1>4. pa.v = PackTile(ta, 4)
  <2>1. pa.v = q4_K!PackTile(ta, 4)
    BY DEF q4_K!RepackA
  <2> QED BY <2>1, Vocabulary_q4_K
<1>5. pb.v = PackTile(tb, 2)
  <2>1. pb.v = q4_K!PackTile(tb, 2)
    BY DEF q4_K!PackB, q4_K!Activations
  <2> QED BY <2>1, Vocabulary_q4_K
<1>6. q4_K!A(q4_K!ClampLane(r, cs.rows), b) = row /\ q4_K!B(q4_K!ClampLane(j, cs.cols), b) = col
  BY <1>3, Vocabulary_q4_K
<1>7. /\ pa.dsc[r \div 4][r % 4] = Factor(<<"d", row>>) (+) Factor(q4_K!ScaleMin(row, sub).sc)
      /\ pa.dm[r \div 4][r % 4] = Factor(<<"dmin", row>>) (+) Factor(q4_K!ScaleMin(row, sub).mn)
  <2> DEFINE g == r \div 4
             l == r % 4
             of == q4_K!A(q4_K!ClampLane(4 * g + l, cs.rows), b)
  <2>0. g \in 0 .. 4 - 1 /\ l \in 0 .. 3
    BY <1>2
  <2>1. of = row
    BY <1>2, <1>6
  <2>2. pa.dsc[g][l] = q4_K!(+)(q4_K!Factor(<<"d", of>>), q4_K!Factor(q4_K!ScaleMin(of, sub).sc))
    <3> HIDE DEF b, sub, g, l
    <3> QED BY <2>0 DEF q4_K!RepackA, q4_K!LaneVectors
  <2>3. pa.dm[g][l] = q4_K!(+)(q4_K!Factor(<<"dmin", of>>), q4_K!Factor(q4_K!ScaleMin(of, sub).mn))
    <3> HIDE DEF b, sub, g, l
    <3> QED BY <2>0 DEF q4_K!RepackA, q4_K!LaneVectors
  <2> HIDE DEF of, pa, row
  <2> QED BY <2>1, <2>2, <2>3, Vocabulary_q4_K
<1>8. pb.dB[j \div 4][j % 4] = Factor(<<"dB", col>>) /\ pb.TS[j \div 4][j % 4] = BSum(col, 2 * sub) (+) BSum(col, 2 * sub + 1)
  BY <1>2, <1>6, Vocabulary_q4_K DEF q4_K!PackB, q4_K!LaneVectors
<1>9. ASSUME NEW e \in 0 .. 31
      PROVE  LaneByte(ta[r], e) = code(e) /\ LaneByte(tb[j], e) = Activation(col, 32 * sub + e)
  <2> DEFINE h == e \div 16
             w == (e % 16) \div 4
             k == e % 4
  <2>1. /\ h \in 0 .. 2 - 1 /\ w \in 0 .. 3 /\ k \in 0 .. 3
        /\ 16 * h + (4 * w + k) = e
    BY BytePlace
  <2>2. ta[r] = q4_K!Codes32(row, sub)
    BY <1>1, <1>6 DEF q4_K!MR
  <2>3. q4_K!Codes32(row, sub)[h][w][k] = code(e)
    <3> HIDE DEF row, sub, h, w, k
    <3>1. 32 * (sub \div 2) + 16 * h + (4 * w + k) = 32 * (sub \div 2) + e
      BY <1>1, <2>1
    <3>2. sub % 2 = 0 \/ sub % 2 = 1
      BY <1>1
    <3> QED BY <2>1, <3>1, <3>2 DEF q4_K!Codes32, q4_K!Vector
  <2>4. tb[j][h][w][k] = q4_K!Activation(col, 32 * sub + e)
    <3>1. tb[j][h][w][k] = q4_K!Activation(q4_K!B(q4_K!ClampLane(j, cs.cols), b), 32 * sub + 16 * h + (4 * w + k))
      BY <1>1, <2>1 DEF q4_K!Vector
    <3> HIDE DEF tb, col, sub, h, w, k
    <3>2. 32 * sub + 16 * h + (4 * w + k) = 32 * sub + e
      BY <1>1, <2>1
    <3> QED BY <3>1, <3>2, <1>6
  <2> HIDE DEF ta, tb, code, col, row
  <2> QED BY <2>2, <2>3, <2>4, Vocabulary_q4_K DEF LaneByte
<1> DEFINE y == [e \in 0 .. 31 |-> Activation(col, 32 * sub + e)]
           q == [e \in 0 .. 31 |-> code(e)]
           P == BagOfValues([e \in 0 .. 31 |-> <<y[e], q[e]>>])
           Y == BagOfValues([e \in 0 .. 31 |-> <<y[e]>>])
<1>10. Sum16x8(8, pa.v, pb.v, r, j) = P
  <2>1. \A e \in 0 .. 4 * 8 - 1 : LaneByte(tb[j], e) = y[e] /\ LaneByte(ta[r], e) = q[e]
    <3> HIDE DEF ta, tb, col, sub, code
    <3>1. \A e \in 0 .. 31 : LaneByte(tb[j], e) = y[e] /\ LaneByte(ta[r], e) = q[e]
      BY <1>9
    <3> QED BY <3>1
  <2> HIDE DEF ta, tb, y, q, pa, pb
  <2>2. Sum16x8(8, PackTile(ta, 4), PackTile(tb, 2), r, j) = BagOfValues(ByteProducts(8, tb[j], ta[r]))
    <3>1. 8 \in Nat
      OBVIOUS
    <3>2. ASSUME NEW u, NEW v
          PROVE  Sum16x8(8, PackTile(u, 4), PackTile(v, 2), r, j) = BagOfValues(ByteProducts(8, v[j], u[r]))
      BY ONLY <3>1, r \in 0 .. 15, j \in 0 .. 7, Sum16x8OfTiles, Zenon
    <3> QED BY ONLY <3>2
  <2>3. ByteProducts(8, tb[j], ta[r]) = [e \in 0 .. 31 |-> <<y[e], q[e]>>]
    BY <2>1 DEF ByteProducts
  <2> QED BY <2>2, <2>3, <1>4, <1>5
<1>11. BSum(col, 2 * sub) (+) BSum(col, 2 * sub + 1) = Y
  <2>1. BSum(col, 2 * sub) (+) BSum(col, 2 * sub + 1) = BagOfValues(ActivationTerms(col, 32 * sub, 32))
    <3> HIDE DEF col, sub
    <3>1. sub \in Int
      BY <1>1
    <3> QED BY ONLY <3>1, BSums
  <2>2. ActivationTerms(col, 32 * sub, 32) = [e \in 0 .. 31 |-> <<y[e]>>]
    BY DEF ActivationTerms
  <2> QED BY <2>1, <2>2
<1>12. ASSUME NEW e \in 0 .. 31
       PROVE  at(e) = 32 * sub + e
  BY <1>1
<1> DEFINE dB == Factor(<<"dB", col>>)
           d == Factor(<<"d", row>>)
           dmin == Factor(<<"dmin", row>>)
           sc == Factor(q4_K!ScaleMin(row, sub).sc)
           mn == Factor(q4_K!ScaleMin(row, sub).mn)
<1>13. q4_K!Contribution(cs, r, j, ch) = {Addend(1, dB (+) (d (+) sc), P), Addend(-1, dB (+) (dmin (+) mn), Y)}
  <2>1. q4_K!Contribution(cs, r, j, ch)
          = {q4_K!Addend(1, q4_K!(+)(pb.dB[j \div 4][j % 4], pa.dsc[r \div 4][r % 4]),
                         q4_K!Sum16x8(8, pa.v, pb.v, r, j)),
             q4_K!Addend(-1, q4_K!(+)(pb.dB[j \div 4][j % 4], pa.dm[r \div 4][r % 4]), pb.TS[j \div 4][j % 4])}
    BY DEF q4_K!Contribution
  <2> HIDE DEF pa, pb, row, col, sub, P, Y
  <2> QED BY <2>1, <1>7, <1>8, <1>10, <1>11, Vocabulary_q4_K
<1>14. q4_K!Reference(cs, LastOr(r, cs.rows), LastOr(j, cs.cols), ch)
          = {Addend(1, (dB (+) d) (+) sc, P), Addend(-1, (dB (+) dmin) (+) mn, Y)}
  <2> DEFINE terms == [e \in 0 .. 31 |-> <<q4_K!Activation(col, at(e)), code(e)>>]
             sums == [e \in 0 .. 31 |-> <<q4_K!Activation(col, at(e))>>]
  <2>1. q4_K!Reference(cs, LastOr(r, cs.rows), LastOr(j, cs.cols), ch)
          = {q4_K!Addend(1, q4_K!(+)(q4_K!(+)(q4_K!Factor(<<"dB", col>>), q4_K!Factor(<<"d", row>>)), q4_K!Factor(q4_K!ScaleMin(row, sub).sc)),
                      q4_K!BagOfValues(terms)),
             q4_K!Addend(-1, q4_K!(+)(q4_K!(+)(q4_K!Factor(<<"dB", col>>), q4_K!Factor(<<"dmin", row>>)), q4_K!Factor(q4_K!ScaleMin(row, sub).mn)),
                      q4_K!BagOfValues(sums))}
    BY DEF q4_K!Reference
  <2>2. terms = [e \in 0 .. 31 |-> <<y[e], q[e]>>] /\ sums = [e \in 0 .. 31 |-> <<y[e]>>]
    <3> HIDE DEF col, sub, code, at
    <3> QED BY <1>12, Vocabulary_q4_K
  <2> HIDE DEF row, col, sub, y, q, code, terms, sums
  <2> QED BY <2>1, <2>2, Vocabulary_q4_K
<1> HIDE DEF dB, d, dmin, sc, mn
<1>15. IsABag(dB) /\ IsABag(d) /\ IsABag(dmin) /\ IsABag(sc) /\ IsABag(mn)
  BY FactorIsBag DEF dB, d, dmin, sc, mn
<1>16. dB (+) (d (+) sc) = (dB (+) d) (+) sc /\ dB (+) (dmin (+) mn) = (dB (+) dmin) (+) mn
  BY <1>15, PlusIsAssociative
<1> QED BY <1>13, <1>14, <1>16

-----------------------------------------------------------------------------
(* q5_K.                                                                   *)

\* The instance speaks of the same tiles, sums and bits.
LEMMA Vocabulary_q5_K ==
  /\ \A t, groups : q5_K!PackTile(t, groups) = PackTile(t, groups)
  /\ \A steps, a, y, r, j : q5_K!Sum16x8(steps, a, y, r, j) = Sum16x8(steps, a, y, r, j)
  /\ \A a, b : q5_K!(+)(a, b) = a (+) b
  /\ \A f : q5_K!BagOfValues(f) = BagOfValues(f)
  /\ \A f : q5_K!Factor(f) = Factor(f)
  /\ \A times, f, P : q5_K!Addend(times, f, P) = Addend(times, f, P)
  /\ \A l, size : q5_K!ClampLane(l, size) = ClampLane(l, size)
  /\ \A blk, e : q5_K!Activation(blk, e) = Activation(blk, e)
  /\ \A blk, field, i : q5_K!SourceByte(blk, field, i) = SourceByte(blk, field, i)
  /\ \A n : q5_K!LowBits(n) = LowBits(n)
  /\ \A v, n : q5_K!Shr(v, n) = Shr(v, n) /\ q5_K!Shl(v, n) = Shl(v, n)
  /\ \A v, w : q5_K!And(v, w) = And(v, w) /\ q5_K!Or(v, w) = Or(v, w)
  /\ \A blk, i : q5_K!BSum(blk, i) = BSum(blk, i)
BY DEF q5_K!PackTile, PackTile, q5_K!Transpose4, Transpose4, q5_K!GroupedLanes, GroupedLanes,
       q5_K!MergeH, MergeH, q5_K!MergeL, MergeL, q5_K!PermHigh, PermHigh, q5_K!PermLow, PermLow,
       q5_K!Sum16x8, Sum16x8, q5_K!Accumulated, Accumulated, q5_K!BagOfValues, BagOfValues,
       q5_K!Cardinality, Cardinality, q5_K!(+), (+), q5_K!Factor, Factor, q5_K!SetToBag, SetToBag,
       q5_K!Addend, Addend, q5_K!BSum, BSum, q5_K!Activation, Activation, q5_K!ClampLane, ClampLane,
       q5_K!SourceByte, SourceByte, q5_K!LowBits, LowBits, q5_K!Shr, Shr, q5_K!Shl, Shl, q5_K!And, And,
       q5_K!Or, Or, q5_K!Off, Off

\* The same for q5_K, whose fifth bits come from qh.
LEMMA Lane_q5_K ==
  ASSUME NEW cs, cs.rows \in Nat \ {0}, cs.cols \in Nat \ {0}, NEW r \in 0 .. 15, NEW j \in 0 .. 7,
         NEW ch \in Nat
  PROVE  q5_K!Contribution(cs, r, j, ch)
            = q5_K!Reference(cs, LastOr(r, cs.rows), LastOr(j, cs.cols), ch)
<1> DEFINE b == ch \div 8
           sub == ch % 8
           row == q5_K!A(LastOr(r, cs.rows), b)
           col == q5_K!B(LastOr(j, cs.cols), b)
           ta == [l \in 0 .. q5_K!MR - 1 |-> q5_K!Codes32(q5_K!A(q5_K!ClampLane(l, cs.rows), b), sub)]
           tb == [l \in 0 .. 7 |-> [h \in 0 .. 2 - 1 |-> q5_K!Vector(LAMBDA i :
                     q5_K!Activation(q5_K!B(q5_K!ClampLane(l, cs.cols), b), 32 * sub + 16 * h + i))]]
           pa == q5_K!RepackA(cs.rows, b, sub)
           pb == q5_K!PackB(cs.cols, b, sub)
           code(e) == LET byte == q5_K!SourceByte(row, "qs", 32 * (sub \div 2) + e)
                          nib  == IF sub % 2 = 1 THEN q5_K!Shr(byte, 4) ELSE q5_K!And(byte, q5_K!LowBits(4))
                      IN  [nib EXCEPT ![4] = q5_K!SourceByte(row, "qh", e)[sub]]
           at(e) == 32 * sub + e
<1>1. /\ cs.rows \in Nat \ {0} /\ cs.cols \in Nat \ {0} /\ sub \in 0 .. 8 - 1 /\ b \in Nat
      /\ r \in 0 .. 4 * 4 - 1 /\ j \in 0 .. 4 * 2 - 1
  OBVIOUS
<1>2. /\ r \div 4 \in 0 .. 3 /\ r % 4 \in 0 .. 3 /\ 4 * (r \div 4) + (r % 4) = r
      /\ j \div 4 \in 0 .. 1 /\ j % 4 \in 0 .. 3 /\ 4 * (j \div 4) + (j % 4) = j
  OBVIOUS
<1>3. ClampLane(r, cs.rows) = LastOr(r, cs.rows) /\ ClampLane(j, cs.cols) = LastOr(j, cs.cols)
  BY <1>1, ClampIsLast
<1>4. pa.v = PackTile(ta, 4)
  <2>1. pa.v = q5_K!PackTile(ta, 4)
    BY DEF q5_K!RepackA
  <2> QED BY <2>1, Vocabulary_q5_K
<1>5. pb.v = PackTile(tb, 2)
  <2>1. pb.v = q5_K!PackTile(tb, 2)
    BY DEF q5_K!PackB, q5_K!Activations
  <2> QED BY <2>1, Vocabulary_q5_K
<1>6. q5_K!A(q5_K!ClampLane(r, cs.rows), b) = row /\ q5_K!B(q5_K!ClampLane(j, cs.cols), b) = col
  BY <1>3, Vocabulary_q5_K
<1>7. /\ pa.dsc[r \div 4][r % 4] = Factor(<<"d", row>>) (+) Factor(q5_K!ScaleMin(row, sub).sc)
      /\ pa.dm[r \div 4][r % 4] = Factor(<<"dmin", row>>) (+) Factor(q5_K!ScaleMin(row, sub).mn)
  <2> DEFINE g == r \div 4
             l == r % 4
             of == q5_K!A(q5_K!ClampLane(4 * g + l, cs.rows), b)
  <2>0. g \in 0 .. 4 - 1 /\ l \in 0 .. 3
    BY <1>2
  <2>1. of = row
    BY <1>2, <1>6
  <2>2. pa.dsc[g][l] = q5_K!(+)(q5_K!Factor(<<"d", of>>), q5_K!Factor(q5_K!ScaleMin(of, sub).sc))
    <3> HIDE DEF b, sub, g, l
    <3> QED BY <2>0 DEF q5_K!RepackA, q5_K!LaneVectors
  <2>3. pa.dm[g][l] = q5_K!(+)(q5_K!Factor(<<"dmin", of>>), q5_K!Factor(q5_K!ScaleMin(of, sub).mn))
    <3> HIDE DEF b, sub, g, l
    <3> QED BY <2>0 DEF q5_K!RepackA, q5_K!LaneVectors
  <2> HIDE DEF of, pa, row
  <2> QED BY <2>1, <2>2, <2>3, Vocabulary_q5_K
<1>8. pb.dB[j \div 4][j % 4] = Factor(<<"dB", col>>) /\ pb.TS[j \div 4][j % 4] = BSum(col, 2 * sub) (+) BSum(col, 2 * sub + 1)
  BY <1>2, <1>6, Vocabulary_q5_K DEF q5_K!PackB, q5_K!LaneVectors
<1>9. ASSUME NEW e \in 0 .. 31
      PROVE  LaneByte(ta[r], e) = code(e) /\ LaneByte(tb[j], e) = Activation(col, 32 * sub + e)
  <2> DEFINE h == e \div 16
             w == (e % 16) \div 4
             k == e % 4
  <2>1. /\ h \in 0 .. 2 - 1 /\ w \in 0 .. 3 /\ k \in 0 .. 3
        /\ 16 * h + (4 * w + k) = e
    BY BytePlace
  <2>2. ta[r] = q5_K!Codes32(row, sub)
    BY <1>1, <1>6 DEF q5_K!MR
  <2>3. q5_K!Codes32(row, sub)[h][w][k] = code(e)
    <3> DEFINE byte == SourceByte(row, "qs", 32 * (sub \div 2) + e)
               high == SourceByte(row, "qh", e)
               nib == IF sub % 2 = 1 THEN Shr(byte, 4) ELSE And(byte, LowBits(4))
    <3>1. 32 * (sub \div 2) + 16 * h + (4 * w + k) = 32 * (sub \div 2) + e /\ 16 * h + (4 * w + k) = e
      <4> HIDE DEF sub, h, w, k
      <4> QED BY <1>1, <2>1
    <3>2. sub % 2 = 0 \/ sub % 2 = 1
      BY <1>1
    <3>3. q5_K!Codes32(row, sub)[h][w][k] = Or(nib, Shl(And(Shr(high, sub), LowBits(1)), 4))
      <4> HIDE DEF row, sub, h, w, k
      <4> QED BY <2>1, <3>1, <3>2, Vocabulary_q5_K DEF q5_K!Codes32, q5_K!Vector
    <3>4. code(e) = [nib EXCEPT ![4] = high[sub]]
      <4> HIDE DEF row, sub
      <4> QED BY Vocabulary_q5_K
    <3>5. Narrow(nib, 4) /\ DOMAIN high = 0 .. 7
      BY Nibbles, SourceIsByte
    <3> HIDE DEF nib, high, sub, code
    <3>6. 4 \in 0 .. 7 /\ sub \in 0 .. 7
      BY <1>1
    <3>7. Or(nib, Shl(And(Shr(high, sub), LowBits(1)), 4)) = [nib EXCEPT ![4] = high[sub]]
      BY ONLY <3>5, <3>6, BitMerged
    <3> QED BY <3>3, <3>4, <3>7
  <2>4. tb[j][h][w][k] = q5_K!Activation(col, 32 * sub + e)
    <3>1. tb[j][h][w][k] = q5_K!Activation(q5_K!B(q5_K!ClampLane(j, cs.cols), b), 32 * sub + 16 * h + (4 * w + k))
      BY <1>1, <2>1 DEF q5_K!Vector
    <3> HIDE DEF tb, col, sub, h, w, k
    <3>2. 32 * sub + 16 * h + (4 * w + k) = 32 * sub + e
      BY <1>1, <2>1
    <3> QED BY <3>1, <3>2, <1>6
  <2> HIDE DEF ta, tb, code, col, row
  <2> QED BY <2>2, <2>3, <2>4, Vocabulary_q5_K DEF LaneByte
<1> DEFINE y == [e \in 0 .. 31 |-> Activation(col, 32 * sub + e)]
           q == [e \in 0 .. 31 |-> code(e)]
           P == BagOfValues([e \in 0 .. 31 |-> <<y[e], q[e]>>])
           Y == BagOfValues([e \in 0 .. 31 |-> <<y[e]>>])
<1>10. Sum16x8(8, pa.v, pb.v, r, j) = P
  <2>1. \A e \in 0 .. 4 * 8 - 1 : LaneByte(tb[j], e) = y[e] /\ LaneByte(ta[r], e) = q[e]
    <3> HIDE DEF ta, tb, col, sub, code
    <3>1. \A e \in 0 .. 31 : LaneByte(tb[j], e) = y[e] /\ LaneByte(ta[r], e) = q[e]
      BY <1>9
    <3> QED BY <3>1
  <2> HIDE DEF ta, tb, y, q, pa, pb
  <2>2. Sum16x8(8, PackTile(ta, 4), PackTile(tb, 2), r, j) = BagOfValues(ByteProducts(8, tb[j], ta[r]))
    <3>1. 8 \in Nat
      OBVIOUS
    <3>2. ASSUME NEW u, NEW v
          PROVE  Sum16x8(8, PackTile(u, 4), PackTile(v, 2), r, j) = BagOfValues(ByteProducts(8, v[j], u[r]))
      BY ONLY <3>1, r \in 0 .. 15, j \in 0 .. 7, Sum16x8OfTiles, Zenon
    <3> QED BY ONLY <3>2
  <2>3. ByteProducts(8, tb[j], ta[r]) = [e \in 0 .. 31 |-> <<y[e], q[e]>>]
    BY <2>1 DEF ByteProducts
  <2> QED BY <2>2, <2>3, <1>4, <1>5
<1>11. BSum(col, 2 * sub) (+) BSum(col, 2 * sub + 1) = Y
  <2>1. BSum(col, 2 * sub) (+) BSum(col, 2 * sub + 1) = BagOfValues(ActivationTerms(col, 32 * sub, 32))
    <3> HIDE DEF col, sub
    <3>1. sub \in Int
      BY <1>1
    <3> QED BY ONLY <3>1, BSums
  <2>2. ActivationTerms(col, 32 * sub, 32) = [e \in 0 .. 31 |-> <<y[e]>>]
    BY DEF ActivationTerms
  <2> QED BY <2>1, <2>2
<1>12. ASSUME NEW e \in 0 .. 31
       PROVE  at(e) = 32 * sub + e
  BY <1>1
<1> DEFINE dB == Factor(<<"dB", col>>)
           d == Factor(<<"d", row>>)
           dmin == Factor(<<"dmin", row>>)
           sc == Factor(q5_K!ScaleMin(row, sub).sc)
           mn == Factor(q5_K!ScaleMin(row, sub).mn)
<1>13. q5_K!Contribution(cs, r, j, ch) = {Addend(1, dB (+) (d (+) sc), P), Addend(-1, dB (+) (dmin (+) mn), Y)}
  <2>1. q5_K!Contribution(cs, r, j, ch)
          = {q5_K!Addend(1, q5_K!(+)(pb.dB[j \div 4][j % 4], pa.dsc[r \div 4][r % 4]),
                         q5_K!Sum16x8(8, pa.v, pb.v, r, j)),
             q5_K!Addend(-1, q5_K!(+)(pb.dB[j \div 4][j % 4], pa.dm[r \div 4][r % 4]), pb.TS[j \div 4][j % 4])}
    BY DEF q5_K!Contribution
  <2> HIDE DEF pa, pb, row, col, sub, P, Y
  <2> QED BY <2>1, <1>7, <1>8, <1>10, <1>11, Vocabulary_q5_K
<1>14. q5_K!Reference(cs, LastOr(r, cs.rows), LastOr(j, cs.cols), ch)
          = {Addend(1, (dB (+) d) (+) sc, P), Addend(-1, (dB (+) dmin) (+) mn, Y)}
  <2> DEFINE terms == [e \in 0 .. 31 |-> <<q5_K!Activation(col, at(e)), code(e)>>]
             sums == [e \in 0 .. 31 |-> <<q5_K!Activation(col, at(e))>>]
  <2>1. q5_K!Reference(cs, LastOr(r, cs.rows), LastOr(j, cs.cols), ch)
          = {q5_K!Addend(1, q5_K!(+)(q5_K!(+)(q5_K!Factor(<<"dB", col>>), q5_K!Factor(<<"d", row>>)), q5_K!Factor(q5_K!ScaleMin(row, sub).sc)),
                      q5_K!BagOfValues(terms)),
             q5_K!Addend(-1, q5_K!(+)(q5_K!(+)(q5_K!Factor(<<"dB", col>>), q5_K!Factor(<<"dmin", row>>)), q5_K!Factor(q5_K!ScaleMin(row, sub).mn)),
                      q5_K!BagOfValues(sums))}
    BY DEF q5_K!Reference
  <2>2. terms = [e \in 0 .. 31 |-> <<y[e], q[e]>>] /\ sums = [e \in 0 .. 31 |-> <<y[e]>>]
    <3> HIDE DEF col, sub, code, at
    <3> QED BY <1>12, Vocabulary_q5_K
  <2> HIDE DEF row, col, sub, y, q, code, terms, sums
  <2> QED BY <2>1, <2>2, Vocabulary_q5_K
<1> HIDE DEF dB, d, dmin, sc, mn
<1>15. IsABag(dB) /\ IsABag(d) /\ IsABag(dmin) /\ IsABag(sc) /\ IsABag(mn)
  BY FactorIsBag DEF dB, d, dmin, sc, mn
<1>16. dB (+) (d (+) sc) = (dB (+) d) (+) sc /\ dB (+) (dmin (+) mn) = (dB (+) dmin) (+) mn
  BY <1>15, PlusIsAssociative
<1> QED BY <1>13, <1>14, <1>16

-----------------------------------------------------------------------------
(* q2_K.                                                                   *)

\* The instance speaks of the same tiles, sums and bits.
LEMMA Vocabulary_q2_K ==
  /\ \A t, groups : q2_K!PackTile(t, groups) = PackTile(t, groups)
  /\ \A steps, a, y, r, j : q2_K!Sum16x8(steps, a, y, r, j) = Sum16x8(steps, a, y, r, j)
  /\ \A a, b : q2_K!(+)(a, b) = a (+) b
  /\ \A f : q2_K!BagOfValues(f) = BagOfValues(f)
  /\ \A f : q2_K!Factor(f) = Factor(f)
  /\ \A times, f, P : q2_K!Addend(times, f, P) = Addend(times, f, P)
  /\ \A l, size : q2_K!ClampLane(l, size) = ClampLane(l, size)
  /\ \A blk, e : q2_K!Activation(blk, e) = Activation(blk, e)
  /\ \A blk, field, i : q2_K!SourceByte(blk, field, i) = SourceByte(blk, field, i)
  /\ \A n : q2_K!LowBits(n) = LowBits(n)
  /\ \A v, n : q2_K!Shr(v, n) = Shr(v, n) /\ q2_K!Shl(v, n) = Shl(v, n)
  /\ \A v, w : q2_K!And(v, w) = And(v, w) /\ q2_K!Or(v, w) = Or(v, w)
  /\ \A blk, i : q2_K!BSum(blk, i) = BSum(blk, i)
BY DEF q2_K!PackTile, PackTile, q2_K!Transpose4, Transpose4, q2_K!GroupedLanes, GroupedLanes,
       q2_K!MergeH, MergeH, q2_K!MergeL, MergeL, q2_K!PermHigh, PermHigh, q2_K!PermLow, PermLow,
       q2_K!Sum16x8, Sum16x8, q2_K!Accumulated, Accumulated, q2_K!BagOfValues, BagOfValues,
       q2_K!Cardinality, Cardinality, q2_K!(+), (+), q2_K!Factor, Factor, q2_K!SetToBag, SetToBag,
       q2_K!Addend, Addend, q2_K!BSum, BSum, q2_K!Activation, Activation, q2_K!ClampLane, ClampLane,
       q2_K!SourceByte, SourceByte, q2_K!LowBits, LowBits, q2_K!Shr, Shr, q2_K!Shl, Shl, q2_K!And, And,
       q2_K!Or, Or, q2_K!Off, Off

\* The same for q2_K, in chunks of sixteen weights.
LEMMA Lane_q2_K ==
  ASSUME NEW cs, cs.rows \in Nat \ {0}, cs.cols \in Nat \ {0}, NEW r \in 0 .. 15, NEW j \in 0 .. 7,
         NEW ch \in Nat
  PROVE  q2_K!Contribution(cs, r, j, ch)
            = q2_K!Reference(cs, LastOr(r, cs.rows), LastOr(j, cs.cols), ch)
<1> DEFINE b == ch \div 16
           sub == ch % 16
           row == q2_K!A(LastOr(r, cs.rows), b)
           col == q2_K!B(LastOr(j, cs.cols), b)
           ta == [l \in 0 .. q2_K!MR - 1 |-> q2_K!Codes16(q2_K!A(q2_K!ClampLane(l, cs.rows), b), sub)]
           tb == [l \in 0 .. 7 |-> [h \in 0 .. 1 - 1 |-> q2_K!Vector(LAMBDA i :
                     q2_K!Activation(q2_K!B(q2_K!ClampLane(l, cs.cols), b), 16 * sub + 16 * h + i))]]
           pa == q2_K!RepackA(cs.rows, b, sub)
           pb == q2_K!PackB(cs.cols, b, sub)
           code(e) == q2_K!And(q2_K!Shr(q2_K!SourceByte(row, "qs", 32 * (sub \div 8) + 16 * (sub % 2) + e),
                            2 * ((sub % 8) \div 2)), q2_K!LowBits(2))
           at(e) == 128 * (sub \div 8) + 16 * (2 * ((sub % 8) \div 2)) + 16 * (sub % 2) + e
<1>1. /\ cs.rows \in Nat \ {0} /\ cs.cols \in Nat \ {0} /\ sub \in 0 .. 16 - 1 /\ b \in Nat
      /\ r \in 0 .. 4 * 4 - 1 /\ j \in 0 .. 4 * 2 - 1
  OBVIOUS
<1>2. /\ r \div 4 \in 0 .. 3 /\ r % 4 \in 0 .. 3 /\ 4 * (r \div 4) + (r % 4) = r
      /\ j \div 4 \in 0 .. 1 /\ j % 4 \in 0 .. 3 /\ 4 * (j \div 4) + (j % 4) = j
  OBVIOUS
<1>3. ClampLane(r, cs.rows) = LastOr(r, cs.rows) /\ ClampLane(j, cs.cols) = LastOr(j, cs.cols)
  BY <1>1, ClampIsLast
<1>4. pa.v = PackTile(ta, 4)
  <2>1. pa.v = q2_K!PackTile(ta, 4)
    BY DEF q2_K!RepackA
  <2> QED BY <2>1, Vocabulary_q2_K
<1>5. pb.v = PackTile(tb, 2)
  <2>1. pb.v = q2_K!PackTile(tb, 2)
    BY DEF q2_K!PackB, q2_K!Activations
  <2> QED BY <2>1, Vocabulary_q2_K
<1>6. q2_K!A(q2_K!ClampLane(r, cs.rows), b) = row /\ q2_K!B(q2_K!ClampLane(j, cs.cols), b) = col
  BY <1>3, Vocabulary_q2_K
<1>7. /\ pa.dsc[r \div 4][r % 4] = Factor(<<"d", row>>) (+) Factor(q2_K!And(q2_K!SourceByte(row, "scales", sub), q2_K!LowBits(4)))
      /\ pa.dm[r \div 4][r % 4] = Factor(<<"dmin", row>>) (+) Factor(q2_K!Shr(q2_K!SourceByte(row, "scales", sub), 4))
  <2> DEFINE g == r \div 4
             l == r % 4
             of == q2_K!A(q2_K!ClampLane(4 * g + l, cs.rows), b)
  <2>0. g \in 0 .. 4 - 1 /\ l \in 0 .. 3
    BY <1>2
  <2>1. of = row
    BY <1>2, <1>6
  <2>2. pa.dsc[g][l] = q2_K!(+)(q2_K!Factor(<<"d", of>>), q2_K!Factor(q2_K!And(q2_K!SourceByte(of, "scales", sub), q2_K!LowBits(4))))
    <3> HIDE DEF b, sub, g, l
    <3> QED BY <2>0 DEF q2_K!RepackA, q2_K!LaneVectors
  <2>3. pa.dm[g][l] = q2_K!(+)(q2_K!Factor(<<"dmin", of>>), q2_K!Factor(q2_K!Shr(q2_K!SourceByte(of, "scales", sub), 4)))
    <3> HIDE DEF b, sub, g, l
    <3> QED BY <2>0 DEF q2_K!RepackA, q2_K!LaneVectors
  <2> HIDE DEF of, pa, row
  <2> QED BY <2>1, <2>2, <2>3, Vocabulary_q2_K
<1>8. pb.dB[j \div 4][j % 4] = Factor(<<"dB", col>>) /\ pb.TS[j \div 4][j % 4] = BSum(col, sub)
  BY <1>2, <1>6, Vocabulary_q2_K DEF q2_K!PackB, q2_K!LaneVectors
<1>9. ASSUME NEW e \in 0 .. 15
      PROVE  LaneByte(ta[r], e) = code(e) /\ LaneByte(tb[j], e) = Activation(col, 16 * sub + e)
  <2> DEFINE h == e \div 16
             w == (e % 16) \div 4
             k == e % 4
  <2>1. /\ h \in 0 .. 1 - 1 /\ w \in 0 .. 3 /\ k \in 0 .. 3
        /\ 16 * h + (4 * w + k) = e /\ h = 0 /\ 4 * w + k = e
    BY BytePlace
  <2>2. ta[r] = q2_K!Codes16(row, sub)
    BY <1>1, <1>6 DEF q2_K!MR
  <2>3. q2_K!Codes16(row, sub)[h][w][k] = code(e)
    <3> HIDE DEF row, sub, h, w, k
    <3> QED BY <2>1 DEF q2_K!Codes16, q2_K!Vector
  <2>4. tb[j][h][w][k] = q2_K!Activation(col, 16 * sub + e)
    <3>1. tb[j][h][w][k] = q2_K!Activation(q2_K!B(q2_K!ClampLane(j, cs.cols), b), 16 * sub + 16 * h + (4 * w + k))
      BY <1>1, <2>1 DEF q2_K!Vector
    <3> HIDE DEF tb, col, sub, h, w, k
    <3>2. 16 * sub + 16 * h + (4 * w + k) = 16 * sub + e
      BY <1>1, <2>1
    <3> QED BY <3>1, <3>2, <1>6
  <2> HIDE DEF ta, tb, code, col, row
  <2> QED BY <2>2, <2>3, <2>4, Vocabulary_q2_K DEF LaneByte
<1> DEFINE y == [e \in 0 .. 15 |-> Activation(col, 16 * sub + e)]
           q == [e \in 0 .. 15 |-> code(e)]
           P == BagOfValues([e \in 0 .. 15 |-> <<y[e], q[e]>>])
           Y == BagOfValues([e \in 0 .. 15 |-> <<y[e]>>])
<1>10. Sum16x8(4, pa.v, pb.v, r, j) = P
  <2>1. \A e \in 0 .. 4 * 4 - 1 : LaneByte(tb[j], e) = y[e] /\ LaneByte(ta[r], e) = q[e]
    <3> HIDE DEF ta, tb, col, sub, code
    <3>1. \A e \in 0 .. 15 : LaneByte(tb[j], e) = y[e] /\ LaneByte(ta[r], e) = q[e]
      BY <1>9
    <3> QED BY <3>1
  <2> HIDE DEF ta, tb, y, q, pa, pb
  <2>2. Sum16x8(4, PackTile(ta, 4), PackTile(tb, 2), r, j) = BagOfValues(ByteProducts(4, tb[j], ta[r]))
    <3>1. 4 \in Nat
      OBVIOUS
    <3>2. ASSUME NEW u, NEW v
          PROVE  Sum16x8(4, PackTile(u, 4), PackTile(v, 2), r, j) = BagOfValues(ByteProducts(4, v[j], u[r]))
      BY ONLY <3>1, r \in 0 .. 15, j \in 0 .. 7, Sum16x8OfTiles, Zenon
    <3> QED BY ONLY <3>2
  <2>3. ByteProducts(4, tb[j], ta[r]) = [e \in 0 .. 15 |-> <<y[e], q[e]>>]
    BY <2>1 DEF ByteProducts
  <2> QED BY <2>2, <2>3, <1>4, <1>5
<1>11. BSum(col, sub) = Y
  <2>1. BSum(col, sub) = BagOfValues(ActivationTerms(col, 16 * sub, 16))
    <3> HIDE DEF col, sub
    <3>1. sub \in Int
      BY <1>1
    <3> QED BY ONLY <3>1, BSums
  <2>2. ActivationTerms(col, 16 * sub, 16) = [e \in 0 .. 15 |-> <<y[e]>>]
    BY DEF ActivationTerms
  <2> QED BY <2>1, <2>2
<1>12. ASSUME NEW e \in 0 .. 15
       PROVE  at(e) = 16 * sub + e
  BY <1>1
<1> DEFINE dB == Factor(<<"dB", col>>)
           d == Factor(<<"d", row>>)
           dmin == Factor(<<"dmin", row>>)
           sc == Factor(q2_K!And(q2_K!SourceByte(row, "scales", sub), q2_K!LowBits(4)))
           mn == Factor(q2_K!Shr(q2_K!SourceByte(row, "scales", sub), 4))
<1>13. q2_K!Contribution(cs, r, j, ch) = {Addend(1, dB (+) (d (+) sc), P), Addend(-1, dB (+) (dmin (+) mn), Y)}
  <2>1. q2_K!Contribution(cs, r, j, ch)
          = {q2_K!Addend(1, q2_K!(+)(pb.dB[j \div 4][j % 4], pa.dsc[r \div 4][r % 4]),
                         q2_K!Sum16x8(4, pa.v, pb.v, r, j)),
             q2_K!Addend(-1, q2_K!(+)(pb.dB[j \div 4][j % 4], pa.dm[r \div 4][r % 4]), pb.TS[j \div 4][j % 4])}
    BY DEF q2_K!Contribution
  <2> HIDE DEF pa, pb, row, col, sub, P, Y
  <2> QED BY <2>1, <1>7, <1>8, <1>10, <1>11, Vocabulary_q2_K
<1>14. q2_K!Reference(cs, LastOr(r, cs.rows), LastOr(j, cs.cols), ch)
          = {Addend(1, (dB (+) d) (+) sc, P), Addend(-1, (dB (+) dmin) (+) mn, Y)}
  <2> DEFINE terms == [e \in 0 .. 15 |-> <<q2_K!Activation(col, at(e)), code(e)>>]
             sums == [e \in 0 .. 15 |-> <<q2_K!Activation(col, at(e))>>]
  <2>1. q2_K!Reference(cs, LastOr(r, cs.rows), LastOr(j, cs.cols), ch)
          = {q2_K!Addend(1, q2_K!(+)(q2_K!(+)(q2_K!Factor(<<"dB", col>>), q2_K!Factor(<<"d", row>>)), q2_K!Factor(q2_K!And(q2_K!SourceByte(row, "scales", sub), q2_K!LowBits(4)))),
                      q2_K!BagOfValues(terms)),
             q2_K!Addend(-1, q2_K!(+)(q2_K!(+)(q2_K!Factor(<<"dB", col>>), q2_K!Factor(<<"dmin", row>>)), q2_K!Factor(q2_K!Shr(q2_K!SourceByte(row, "scales", sub), 4))),
                      q2_K!BagOfValues(sums))}
    BY DEF q2_K!Reference
  <2>2. terms = [e \in 0 .. 15 |-> <<y[e], q[e]>>] /\ sums = [e \in 0 .. 15 |-> <<y[e]>>]
    <3> HIDE DEF col, sub, code, at
    <3> QED BY <1>12, Vocabulary_q2_K
  <2> HIDE DEF row, col, sub, y, q, code, terms, sums
  <2> QED BY <2>1, <2>2, Vocabulary_q2_K
<1> HIDE DEF dB, d, dmin, sc, mn
<1>15. IsABag(dB) /\ IsABag(d) /\ IsABag(dmin) /\ IsABag(sc) /\ IsABag(mn)
  BY FactorIsBag DEF dB, d, dmin, sc, mn
<1>16. dB (+) (d (+) sc) = (dB (+) d) (+) sc /\ dB (+) (dmin (+) mn) = (dB (+) dmin) (+) mn
  BY <1>15, PlusIsAssociative
<1> QED BY <1>13, <1>14, <1>16

-----------------------------------------------------------------------------
(* q3_K.                                                                   *)

\* The instance speaks of the same tiles, sums and bits.
LEMMA Vocabulary_q3_K ==
  /\ \A t, groups : q3_K!PackTile(t, groups) = PackTile(t, groups)
  /\ \A steps, a, y, r, j : q3_K!Sum16x8(steps, a, y, r, j) = Sum16x8(steps, a, y, r, j)
  /\ \A a, b : q3_K!(+)(a, b) = a (+) b
  /\ \A f : q3_K!BagOfValues(f) = BagOfValues(f)
  /\ \A f : q3_K!Factor(f) = Factor(f)
  /\ \A times, f, P : q3_K!Addend(times, f, P) = Addend(times, f, P)
  /\ \A l, size : q3_K!ClampLane(l, size) = ClampLane(l, size)
  /\ \A blk, e : q3_K!Activation(blk, e) = Activation(blk, e)
  /\ \A blk, field, i : q3_K!SourceByte(blk, field, i) = SourceByte(blk, field, i)
  /\ \A n : q3_K!LowBits(n) = LowBits(n)
  /\ \A v, n : q3_K!Shr(v, n) = Shr(v, n) /\ q3_K!Shl(v, n) = Shl(v, n)
  /\ \A v, w : q3_K!And(v, w) = And(v, w) /\ q3_K!Or(v, w) = Or(v, w)
  /\ \A blk, i : q3_K!BSum(blk, i) = BSum(blk, i)
BY DEF q3_K!PackTile, PackTile, q3_K!Transpose4, Transpose4, q3_K!GroupedLanes, GroupedLanes,
       q3_K!MergeH, MergeH, q3_K!MergeL, MergeL, q3_K!PermHigh, PermHigh, q3_K!PermLow, PermLow,
       q3_K!Sum16x8, Sum16x8, q3_K!Accumulated, Accumulated, q3_K!BagOfValues, BagOfValues,
       q3_K!Cardinality, Cardinality, q3_K!(+), (+), q3_K!Factor, Factor, q3_K!SetToBag, SetToBag,
       q3_K!Addend, Addend, q3_K!BSum, BSum, q3_K!Activation, Activation, q3_K!ClampLane, ClampLane,
       q3_K!SourceByte, SourceByte, q3_K!LowBits, LowBits, q3_K!Shr, Shr, q3_K!Shl, Shl, q3_K!And, And,
       q3_K!Or, Or, q3_K!Off, Off

\* The same for q3_K, whose third bits come from hmask and whose codes are off by four.
LEMMA Lane_q3_K ==
  ASSUME NEW cs, cs.rows \in Nat \ {0}, cs.cols \in Nat \ {0}, NEW r \in 0 .. 15, NEW j \in 0 .. 7,
         NEW ch \in Nat
  PROVE  q3_K!Contribution(cs, r, j, ch)
            = q3_K!Reference(cs, LastOr(r, cs.rows), LastOr(j, cs.cols), ch)
<1> DEFINE b == ch \div 16
           sub == ch % 16
           row == q3_K!A(LastOr(r, cs.rows), b)
           col == q3_K!B(LastOr(j, cs.cols), b)
           ta == [l \in 0 .. q3_K!MR - 1 |-> q3_K!Codes16(q3_K!A(q3_K!ClampLane(l, cs.rows), b), sub)]
           tb == [l \in 0 .. 7 |-> [h \in 0 .. 1 - 1 |-> q3_K!Vector(LAMBDA i :
                     q3_K!Activation(q3_K!B(q3_K!ClampLane(l, cs.cols), b), 16 * sub + 16 * h + i))]]
           pa == q3_K!RepackA(cs.rows, b, sub)
           pb == q3_K!PackB(cs.cols, b, sub)
           code(e) == [q3_K!And(q3_K!Shr(q3_K!SourceByte(row, "qs", 32 * (sub \div 8) + 16 * (sub % 2) + e),
                             2 * ((sub % 8) \div 2)), q3_K!LowBits(2))
                         EXCEPT ![2] = q3_K!SourceByte(row, "hmask", 16 * (sub % 2) + e)
                                           [4 * (sub \div 8) + (2 * ((sub % 8) \div 2)) \div 2]]
           at(e) == 128 * (sub \div 8) + 16 * (2 * ((sub % 8) \div 2)) + 16 * (sub % 2) + e
<1>1. /\ cs.rows \in Nat \ {0} /\ cs.cols \in Nat \ {0} /\ sub \in 0 .. 16 - 1 /\ b \in Nat
      /\ r \in 0 .. 4 * 4 - 1 /\ j \in 0 .. 4 * 2 - 1
  OBVIOUS
<1>2. /\ r \div 4 \in 0 .. 3 /\ r % 4 \in 0 .. 3 /\ 4 * (r \div 4) + (r % 4) = r
      /\ j \div 4 \in 0 .. 1 /\ j % 4 \in 0 .. 3 /\ 4 * (j \div 4) + (j % 4) = j
  OBVIOUS
<1>3. ClampLane(r, cs.rows) = LastOr(r, cs.rows) /\ ClampLane(j, cs.cols) = LastOr(j, cs.cols)
  BY <1>1, ClampIsLast
<1>4. pa.v = PackTile(ta, 4)
  <2>1. pa.v = q3_K!PackTile(ta, 4)
    BY DEF q3_K!RepackA
  <2> QED BY <2>1, Vocabulary_q3_K
<1>5. pb.v = PackTile(tb, 2)
  <2>1. pb.v = q3_K!PackTile(tb, 2)
    BY DEF q3_K!PackB, q3_K!Activations
  <2> QED BY <2>1, Vocabulary_q3_K
<1>6. q3_K!A(q3_K!ClampLane(r, cs.rows), b) = row /\ q3_K!B(q3_K!ClampLane(j, cs.cols), b) = col
  BY <1>3, Vocabulary_q3_K
<1>7. pa.dsc[r \div 4][r % 4] = Factor(<<"d", row>>) (+) Factor(<<"less 32", q3_K!Scale6(row, sub)>>)
  <2> DEFINE g == r \div 4
             l == r % 4
             of == q3_K!A(q3_K!ClampLane(4 * g + l, cs.rows), b)
  <2>0. g \in 0 .. 4 - 1 /\ l \in 0 .. 3
    BY <1>2
  <2>1. of = row
    BY <1>2, <1>6
  <2>2. pa.dsc[g][l] = q3_K!(+)(q3_K!Factor(<<"d", of>>), q3_K!Factor(<<"less 32", q3_K!Scale6(of, sub)>>))
    <3> HIDE DEF b, sub, g, l
    <3> QED BY <2>0 DEF q3_K!RepackA, q3_K!LaneVectors
  <2> HIDE DEF of, pa, row
  <2> QED BY <2>1, <2>2, Vocabulary_q3_K
<1>8. /\ pb.dB[j \div 4][j % 4] = Factor(<<"dB", col>>)
      /\ pb.TS[j \div 4][j % 4] = [times |-> 4, sum |-> BSum(col, sub)]
  BY <1>2, <1>6, Vocabulary_q3_K DEF q3_K!PackB, q3_K!LaneVectors
<1>9. ASSUME NEW e \in 0 .. 15
      PROVE  LaneByte(ta[r], e) = code(e) /\ LaneByte(tb[j], e) = Activation(col, 16 * sub + e)
  <2> DEFINE h == e \div 16
             w == (e % 16) \div 4
             k == e % 4
  <2>1. /\ h \in 0 .. 1 - 1 /\ w \in 0 .. 3 /\ k \in 0 .. 3
        /\ 16 * h + (4 * w + k) = e /\ h = 0 /\ 4 * w + k = e
    BY BytePlace
  <2>2. ta[r] = q3_K!Codes16(row, sub)
    BY <1>1, <1>6 DEF q3_K!MR
  <2>3. q3_K!Codes16(row, sub)[h][w][k] = code(e)
    <3> DEFINE n == And(Shr(SourceByte(row, "qs", 32 * (sub \div 8) + 16 * (sub % 2) + e),
                            2 * ((sub % 8) \div 2)), LowBits(2))
               high == SourceByte(row, "hmask", 16 * (sub % 2) + e)
               bit == 4 * (sub \div 8) + (sub % 8) \div 2
    <3>1. bit \in 0 .. 7 /\ 2 * ((sub % 8) \div 2) \in Nat
          /\ 4 * (sub \div 8) + (2 * ((sub % 8) \div 2)) \div 2 = bit
      <4> HIDE DEF sub
      <4> QED BY <1>1
    <3>2. q3_K!Codes16(row, sub)[h][w][k] = Or(n, Shl(And(Shr(high, bit), LowBits(1)), 2))
      <4> HIDE DEF row, sub, h, w, k
      <4> QED BY <2>1, Vocabulary_q3_K DEF q3_K!Codes16, q3_K!Vector
    <3>3. code(e) = [n EXCEPT ![2] = high[bit]]
      <4> HIDE DEF row, sub
      <4> QED BY <3>1, Vocabulary_q3_K
    <3>4. Narrow(n, 2) /\ DOMAIN high = 0 .. 7
      <4> HIDE DEF sub
      <4> QED BY <3>1, BitPairs, SourceIsByte
    <3> HIDE DEF n, high, bit, code
    <3>5. 2 \in 0 .. 7
      OBVIOUS
    <3>6. Or(n, Shl(And(Shr(high, bit), LowBits(1)), 2)) = [n EXCEPT ![2] = high[bit]]
      BY ONLY <3>1, <3>4, <3>5, BitMerged
    <3> QED BY <3>2, <3>3, <3>6
  <2>4. tb[j][h][w][k] = q3_K!Activation(col, 16 * sub + e)
    <3>1. tb[j][h][w][k] = q3_K!Activation(q3_K!B(q3_K!ClampLane(j, cs.cols), b), 16 * sub + 16 * h + (4 * w + k))
      BY <1>1, <2>1 DEF q3_K!Vector
    <3> HIDE DEF tb, col, sub, h, w, k
    <3>2. 16 * sub + 16 * h + (4 * w + k) = 16 * sub + e
      BY <1>1, <2>1
    <3> QED BY <3>1, <3>2, <1>6
  <2> HIDE DEF ta, tb, code, col, row
  <2> QED BY <2>2, <2>3, <2>4, Vocabulary_q3_K DEF LaneByte
<1> DEFINE y == [e \in 0 .. 15 |-> Activation(col, 16 * sub + e)]
           q == [e \in 0 .. 15 |-> code(e)]
           P == BagOfValues([e \in 0 .. 15 |-> <<y[e], q[e]>>])
           Y == BagOfValues([e \in 0 .. 15 |-> <<y[e]>>])
<1>10. Sum16x8(4, pa.v, pb.v, r, j) = P
  <2>1. \A e \in 0 .. 4 * 4 - 1 : LaneByte(tb[j], e) = y[e] /\ LaneByte(ta[r], e) = q[e]
    <3> HIDE DEF ta, tb, col, sub, code
    <3>1. \A e \in 0 .. 15 : LaneByte(tb[j], e) = y[e] /\ LaneByte(ta[r], e) = q[e]
      BY <1>9
    <3> QED BY <3>1
  <2> HIDE DEF ta, tb, y, q, pa, pb
  <2>2. Sum16x8(4, PackTile(ta, 4), PackTile(tb, 2), r, j) = BagOfValues(ByteProducts(4, tb[j], ta[r]))
    <3>1. 4 \in Nat
      OBVIOUS
    <3>2. ASSUME NEW u, NEW v
          PROVE  Sum16x8(4, PackTile(u, 4), PackTile(v, 2), r, j) = BagOfValues(ByteProducts(4, v[j], u[r]))
      BY ONLY <3>1, r \in 0 .. 15, j \in 0 .. 7, Sum16x8OfTiles, Zenon
    <3> QED BY ONLY <3>2
  <2>3. ByteProducts(4, tb[j], ta[r]) = [e \in 0 .. 15 |-> <<y[e], q[e]>>]
    BY <2>1 DEF ByteProducts
  <2> QED BY <2>2, <2>3, <1>4, <1>5
<1>11. BSum(col, sub) = Y
  <2>1. BSum(col, sub) = BagOfValues(ActivationTerms(col, 16 * sub, 16))
    <3> HIDE DEF col, sub
    <3>1. sub \in Int
      BY <1>1
    <3> QED BY ONLY <3>1, BSums
  <2>2. ActivationTerms(col, 16 * sub, 16) = [e \in 0 .. 15 |-> <<y[e]>>]
    BY DEF ActivationTerms
  <2> QED BY <2>1, <2>2
<1>12. ASSUME NEW e \in 0 .. 15
       PROVE  at(e) = 16 * sub + e
  BY <1>1
<1> DEFINE dB == Factor(<<"dB", col>>)
           d == Factor(<<"d", row>>)
           sc == Factor(<<"less 32", q3_K!Scale6(row, sub)>>)
<1>13. q3_K!Contribution(cs, r, j, ch) = {Addend(1, dB (+) (d (+) sc), P), Addend(-4, dB (+) (d (+) sc), Y)}
  <2>1. q3_K!Contribution(cs, r, j, ch)
          = {q3_K!Addend(1, q3_K!(+)(pb.dB[j \div 4][j % 4], pa.dsc[r \div 4][r % 4]),
                      q3_K!Sum16x8(4, pa.v, pb.v, r, j)),
             q3_K!Addend(-pb.TS[j \div 4][j % 4].times, q3_K!(+)(pb.dB[j \div 4][j % 4], pa.dsc[r \div 4][r % 4]),
                      pb.TS[j \div 4][j % 4].sum)}
    BY DEF q3_K!Contribution
  <2> HIDE DEF pa, pb, row, col, sub, P, Y
  <2>2. pb.TS[j \div 4][j % 4].times = 4 /\ pb.TS[j \div 4][j % 4].sum = Y
    BY <1>8, <1>11
  <2> QED BY <2>1, <2>2, <1>7, <1>8, <1>10, Vocabulary_q3_K
<1>14. q3_K!Reference(cs, LastOr(r, cs.rows), LastOr(j, cs.cols), ch)
          = {Addend(1, (dB (+) d) (+) sc, P), Addend(-4, (dB (+) d) (+) sc, Y)}
  <2> DEFINE terms == [e \in 0 .. 15 |-> <<q3_K!Activation(col, at(e)), code(e)>>]
             sums == [e \in 0 .. 15 |-> <<q3_K!Activation(col, at(e))>>]
             s == q3_K!(+)(q3_K!(+)(q3_K!Factor(<<"dB", col>>), q3_K!Factor(<<"d", row>>)), q3_K!Factor(<<"less 32", q3_K!Scale6(row, sub)>>))
  <2>1. q3_K!Reference(cs, LastOr(r, cs.rows), LastOr(j, cs.cols), ch)
          = {q3_K!Addend(1, s, q3_K!BagOfValues(terms)), q3_K!Addend(-4, s, q3_K!BagOfValues(sums))}
    BY DEF q3_K!Reference
  <2>2. terms = [e \in 0 .. 15 |-> <<y[e], q[e]>>] /\ sums = [e \in 0 .. 15 |-> <<y[e]>>]
    <3> HIDE DEF col, sub, code, at
    <3> QED BY <1>12, Vocabulary_q3_K
  <2> HIDE DEF row, col, sub, y, q, code, terms, sums
  <2> QED BY <2>1, <2>2, Vocabulary_q3_K
<1> HIDE DEF dB, d, sc
<1>15. IsABag(dB) /\ IsABag(d) /\ IsABag(sc)
  BY FactorIsBag DEF dB, d, sc
<1>16. dB (+) (d (+) sc) = (dB (+) d) (+) sc
  BY <1>15, PlusIsAssociative
<1> QED BY <1>13, <1>14, <1>16

-----------------------------------------------------------------------------
(* q6_K.                                                                   *)

\* The instance speaks of the same tiles, sums and bits.
LEMMA Vocabulary_q6_K ==
  /\ \A t, groups : q6_K!PackTile(t, groups) = PackTile(t, groups)
  /\ \A steps, a, y, r, j : q6_K!Sum16x8(steps, a, y, r, j) = Sum16x8(steps, a, y, r, j)
  /\ \A a, b : q6_K!(+)(a, b) = a (+) b
  /\ \A f : q6_K!BagOfValues(f) = BagOfValues(f)
  /\ \A f : q6_K!Factor(f) = Factor(f)
  /\ \A times, f, P : q6_K!Addend(times, f, P) = Addend(times, f, P)
  /\ \A l, size : q6_K!ClampLane(l, size) = ClampLane(l, size)
  /\ \A blk, e : q6_K!Activation(blk, e) = Activation(blk, e)
  /\ \A blk, field, i : q6_K!SourceByte(blk, field, i) = SourceByte(blk, field, i)
  /\ \A n : q6_K!LowBits(n) = LowBits(n)
  /\ \A v, n : q6_K!Shr(v, n) = Shr(v, n) /\ q6_K!Shl(v, n) = Shl(v, n)
  /\ \A v, w : q6_K!And(v, w) = And(v, w) /\ q6_K!Or(v, w) = Or(v, w)
  /\ \A blk, i : q6_K!BSum(blk, i) = BSum(blk, i)
BY DEF q6_K!PackTile, PackTile, q6_K!Transpose4, Transpose4, q6_K!GroupedLanes, GroupedLanes,
       q6_K!MergeH, MergeH, q6_K!MergeL, MergeL, q6_K!PermHigh, PermHigh, q6_K!PermLow, PermLow,
       q6_K!Sum16x8, Sum16x8, q6_K!Accumulated, Accumulated, q6_K!BagOfValues, BagOfValues,
       q6_K!Cardinality, Cardinality, q6_K!(+), (+), q6_K!Factor, Factor, q6_K!SetToBag, SetToBag,
       q6_K!Addend, Addend, q6_K!BSum, BSum, q6_K!Activation, Activation, q6_K!ClampLane, ClampLane,
       q6_K!SourceByte, SourceByte, q6_K!LowBits, LowBits, q6_K!Shr, Shr, q6_K!Shl, Shl, q6_K!And, And,
       q6_K!Or, Or, q6_K!Off, Off

\* The same for q6_K, whose codes are put together from ql and qh and are off by 32.
LEMMA Lane_q6_K ==
  ASSUME NEW cs, cs.rows \in Nat \ {0}, cs.cols \in Nat \ {0}, NEW r \in 0 .. 15, NEW j \in 0 .. 7,
         NEW ch \in Nat
  PROVE  q6_K!Contribution(cs, r, j, ch)
            = q6_K!Reference(cs, LastOr(r, cs.rows), LastOr(j, cs.cols), ch)
<1> DEFINE b == ch \div 16
           sub == ch % 16
           row == q6_K!A(LastOr(r, cs.rows), b)
           col == q6_K!B(LastOr(j, cs.cols), b)
           ta == [l \in 0 .. q6_K!MR - 1 |-> q6_K!Codes16(q6_K!A(q6_K!ClampLane(l, cs.rows), b), sub)]
           tb == [l \in 0 .. 7 |-> [h \in 0 .. 1 - 1 |-> q6_K!Vector(LAMBDA i :
                     q6_K!Activation(q6_K!B(q6_K!ClampLane(l, cs.cols), b), 16 * sub + 16 * h + i))]]
           pa == q6_K!RepackA(cs.rows, b, sub)
           pb == q6_K!PackB(cs.cols, b, sub)
           code(e) == LET qq   == (sub % 8) \div 2
                          byte == q6_K!SourceByte(row, "ql", 64 * (sub \div 8) + 32 * (qq % 2) + 16 * (sub % 2) + e)
                          high == q6_K!SourceByte(row, "qh", 32 * (sub \div 8) + 16 * (sub % 2) + e)
                      IN  [IF qq < 2 THEN q6_K!And(byte, q6_K!LowBits(4)) ELSE q6_K!Shr(byte, 4)
                             EXCEPT ![4] = high[2 * qq], ![5] = high[2 * qq + 1]]
           at(e) == 16 * sub + e
<1>1. /\ cs.rows \in Nat \ {0} /\ cs.cols \in Nat \ {0} /\ sub \in 0 .. 16 - 1 /\ b \in Nat
      /\ r \in 0 .. 4 * 4 - 1 /\ j \in 0 .. 4 * 2 - 1
  OBVIOUS
<1>2. /\ r \div 4 \in 0 .. 3 /\ r % 4 \in 0 .. 3 /\ 4 * (r \div 4) + (r % 4) = r
      /\ j \div 4 \in 0 .. 1 /\ j % 4 \in 0 .. 3 /\ 4 * (j \div 4) + (j % 4) = j
  OBVIOUS
<1>3. ClampLane(r, cs.rows) = LastOr(r, cs.rows) /\ ClampLane(j, cs.cols) = LastOr(j, cs.cols)
  BY <1>1, ClampIsLast
<1>4. pa.v = PackTile(ta, 4)
  <2>1. pa.v = q6_K!PackTile(ta, 4)
    BY DEF q6_K!RepackA
  <2> QED BY <2>1, Vocabulary_q6_K
<1>5. pb.v = PackTile(tb, 2)
  <2>1. pb.v = q6_K!PackTile(tb, 2)
    BY DEF q6_K!PackB, q6_K!Activations
  <2> QED BY <2>1, Vocabulary_q6_K
<1>6. q6_K!A(q6_K!ClampLane(r, cs.rows), b) = row /\ q6_K!B(q6_K!ClampLane(j, cs.cols), b) = col
  BY <1>3, Vocabulary_q6_K
<1>7. pa.dsc[r \div 4][r % 4] = Factor(<<"d", row>>) (+) Factor(q6_K!SourceByte(row, "scales", sub))
  <2> DEFINE g == r \div 4
             l == r % 4
             of == q6_K!A(q6_K!ClampLane(4 * g + l, cs.rows), b)
  <2>0. g \in 0 .. 4 - 1 /\ l \in 0 .. 3
    BY <1>2
  <2>1. of = row
    BY <1>2, <1>6
  <2>2. pa.dsc[g][l] = q6_K!(+)(q6_K!Factor(<<"d", of>>), q6_K!Factor(q6_K!SourceByte(of, "scales", sub)))
    <3> HIDE DEF b, sub, g, l
    <3> QED BY <2>0 DEF q6_K!RepackA, q6_K!LaneVectors
  <2> HIDE DEF of, pa, row
  <2> QED BY <2>1, <2>2, Vocabulary_q6_K
<1>8. /\ pb.dB[j \div 4][j % 4] = Factor(<<"dB", col>>)
      /\ pb.TS[j \div 4][j % 4] = [times |-> 32, sum |-> BSum(col, sub)]
  BY <1>2, <1>6, Vocabulary_q6_K DEF q6_K!PackB, q6_K!LaneVectors
<1>9. ASSUME NEW e \in 0 .. 15
      PROVE  LaneByte(ta[r], e) = code(e) /\ LaneByte(tb[j], e) = Activation(col, 16 * sub + e)
  <2> DEFINE h == e \div 16
             w == (e % 16) \div 4
             k == e % 4
  <2>1. /\ h \in 0 .. 1 - 1 /\ w \in 0 .. 3 /\ k \in 0 .. 3
        /\ 16 * h + (4 * w + k) = e /\ h = 0 /\ 4 * w + k = e
    BY BytePlace
  <2>2. ta[r] = q6_K!Codes16(row, sub)
    BY <1>1, <1>6 DEF q6_K!MR
  <2>3. q6_K!Codes16(row, sub)[h][w][k] = code(e)
    <3> DEFINE qq == (sub % 8) \div 2
               byte == SourceByte(row, "ql", 64 * (sub \div 8) + 32 * (qq % 2) + 16 * (sub % 2) + e)
               high == SourceByte(row, "qh", 32 * (sub \div 8) + 16 * (sub % 2) + e)
               nib == IF qq < 2 THEN And(byte, LowBits(4)) ELSE Shr(byte, 4)
    <3>1. 2 * qq \in 0 .. 6
      <4> HIDE DEF sub
      <4> QED BY <1>1
    <3>2. q6_K!Codes16(row, sub)[h][w][k] = Or(nib, Shl(And(Shr(high, 2 * qq), LowBits(2)), 4))
      <4> HIDE DEF row, sub, h, w, k
      <4> QED BY <2>1, Vocabulary_q6_K DEF q6_K!Codes16, q6_K!Vector
    <3>3. code(e) = [nib EXCEPT ![4] = high[2 * qq], ![5] = high[2 * qq + 1]]
      <4> HIDE DEF row, sub
      <4> QED BY Vocabulary_q6_K
    <3>4. Narrow(nib, 4) /\ DOMAIN high = 0 .. 7
      BY Nibbles, SourceIsByte
    <3> HIDE DEF nib, high, qq, code
    <3>5. Or(nib, Shl(And(Shr(high, 2 * qq), LowBits(2)), 4))
             = [nib EXCEPT ![4] = high[2 * qq], ![5] = high[2 * qq + 1]]
      BY ONLY <3>1, <3>4, BitsMerged
    <3> QED BY <3>2, <3>3, <3>5
  <2>4. tb[j][h][w][k] = q6_K!Activation(col, 16 * sub + e)
    <3>1. tb[j][h][w][k] = q6_K!Activation(q6_K!B(q6_K!ClampLane(j, cs.cols), b), 16 * sub + 16 * h + (4 * w + k))
      BY <1>1, <2>1 DEF q6_K!Vector
    <3> HIDE DEF tb, col, sub, h, w, k
    <3>2. 16 * sub + 16 * h + (4 * w + k) = 16 * sub + e
      BY <1>1, <2>1
    <3> QED BY <3>1, <3>2, <1>6
  <2> HIDE DEF ta, tb, code, col, row
  <2> QED BY <2>2, <2>3, <2>4, Vocabulary_q6_K DEF LaneByte
<1> DEFINE y == [e \in 0 .. 15 |-> Activation(col, 16 * sub + e)]
           q == [e \in 0 .. 15 |-> code(e)]
           P == BagOfValues([e \in 0 .. 15 |-> <<y[e], q[e]>>])
           Y == BagOfValues([e \in 0 .. 15 |-> <<y[e]>>])
<1>10. Sum16x8(4, pa.v, pb.v, r, j) = P
  <2>1. \A e \in 0 .. 4 * 4 - 1 : LaneByte(tb[j], e) = y[e] /\ LaneByte(ta[r], e) = q[e]
    <3> HIDE DEF ta, tb, col, sub, code
    <3>1. \A e \in 0 .. 15 : LaneByte(tb[j], e) = y[e] /\ LaneByte(ta[r], e) = q[e]
      BY <1>9
    <3> QED BY <3>1
  <2> HIDE DEF ta, tb, y, q, pa, pb
  <2>2. Sum16x8(4, PackTile(ta, 4), PackTile(tb, 2), r, j) = BagOfValues(ByteProducts(4, tb[j], ta[r]))
    <3>1. 4 \in Nat
      OBVIOUS
    <3>2. ASSUME NEW u, NEW v
          PROVE  Sum16x8(4, PackTile(u, 4), PackTile(v, 2), r, j) = BagOfValues(ByteProducts(4, v[j], u[r]))
      BY ONLY <3>1, r \in 0 .. 15, j \in 0 .. 7, Sum16x8OfTiles, Zenon
    <3> QED BY ONLY <3>2
  <2>3. ByteProducts(4, tb[j], ta[r]) = [e \in 0 .. 15 |-> <<y[e], q[e]>>]
    BY <2>1 DEF ByteProducts
  <2> QED BY <2>2, <2>3, <1>4, <1>5
<1>11. BSum(col, sub) = Y
  <2>1. BSum(col, sub) = BagOfValues(ActivationTerms(col, 16 * sub, 16))
    <3> HIDE DEF col, sub
    <3>1. sub \in Int
      BY <1>1
    <3> QED BY ONLY <3>1, BSums
  <2>2. ActivationTerms(col, 16 * sub, 16) = [e \in 0 .. 15 |-> <<y[e]>>]
    BY DEF ActivationTerms
  <2> QED BY <2>1, <2>2
<1>12. ASSUME NEW e \in 0 .. 15
       PROVE  at(e) = 16 * sub + e
  BY <1>1
<1> DEFINE dB == Factor(<<"dB", col>>)
           d == Factor(<<"d", row>>)
           sc == Factor(q6_K!SourceByte(row, "scales", sub))
<1>13. q6_K!Contribution(cs, r, j, ch) = {Addend(1, dB (+) (d (+) sc), P), Addend(-32, dB (+) (d (+) sc), Y)}
  <2>1. q6_K!Contribution(cs, r, j, ch)
          = {q6_K!Addend(1, q6_K!(+)(pb.dB[j \div 4][j % 4], pa.dsc[r \div 4][r % 4]),
                      q6_K!Sum16x8(4, pa.v, pb.v, r, j)),
             q6_K!Addend(-pb.TS[j \div 4][j % 4].times, q6_K!(+)(pb.dB[j \div 4][j % 4], pa.dsc[r \div 4][r % 4]),
                      pb.TS[j \div 4][j % 4].sum)}
    BY DEF q6_K!Contribution
  <2> HIDE DEF pa, pb, row, col, sub, P, Y
  <2>2. pb.TS[j \div 4][j % 4].times = 32 /\ pb.TS[j \div 4][j % 4].sum = Y
    BY <1>8, <1>11
  <2> QED BY <2>1, <2>2, <1>7, <1>8, <1>10, Vocabulary_q6_K
<1>14. q6_K!Reference(cs, LastOr(r, cs.rows), LastOr(j, cs.cols), ch)
          = {Addend(1, (dB (+) d) (+) sc, P), Addend(-32, (dB (+) d) (+) sc, Y)}
  <2> DEFINE ql(n, l) == q6_K!SourceByte(row, "ql", 64 * n + l)
             qh(n, l) == q6_K!SourceByte(row, "qh", 32 * n + l)
             nibble(n, l, k) == CASE k = 0 -> q6_K!And(ql(n, l), q6_K!LowBits(4))
                                  [] k = 1 -> q6_K!And(ql(n, l + 32), q6_K!LowBits(4))
                                  [] k = 2 -> q6_K!Shr(ql(n, l), 4)
                                  [] k = 3 -> q6_K!Shr(ql(n, l + 32), 4)
             six(n, l, k) == [nibble(n, l, k) EXCEPT ![4] = qh(n, l)[2 * k], ![5] = qh(n, l)[2 * k + 1]]
             scaled == {x \in (0 .. 1) \X (0 .. 31) \X (0 .. 3) :
                           8 * x[1] + x[2] \div 16 + 2 * x[3] = sub}
             of(n, l, k) == q6_K!Activation(col, 128 * n + l + 32 * k)
             terms == [x \in scaled |-> <<of(x[1], x[2], x[3]), six(x[1], x[2], x[3])>>]
             sums == [x \in scaled |-> <<of(x[1], x[2], x[3])>>]
             s == q6_K!(+)(q6_K!(+)(q6_K!Factor(<<"dB", col>>), q6_K!Factor(<<"d", row>>)), q6_K!Factor(q6_K!SourceByte(row, "scales", sub)))
             half == sub \div 8
             qq == (sub % 8) \div 2
             lo == sub % 2
             place == [e \in 0 .. 15 |-> <<half, 16 * lo + e, qq>>]
  <2>1. q6_K!Reference(cs, LastOr(r, cs.rows), LastOr(j, cs.cols), ch)
          = {q6_K!Addend(1, s, q6_K!BagOfValues(terms)), q6_K!Addend(-32, s, q6_K!BagOfValues(sums))}
    BY DEF q6_K!Reference
  <2>2. half \in 0 .. 1 /\ qq \in 0 .. 3 /\ lo \in 0 .. 1 /\ sub = 8 * half + lo + 2 * qq
    <3> HIDE DEF sub
    <3> QED BY <1>1
  <2>3. place \in Bijection(0 .. 15, scaled)
    <3> HIDE DEF sub, half, qq, lo
    <3>1. place \in [0 .. 15 -> scaled]
      <4>1. ASSUME NEW e \in 0 .. 15
            PROVE  <<half, 16 * lo + e, qq>> \in scaled
        <5>1. 16 * lo + e \in 0 .. 31 /\ (16 * lo + e) \div 16 = lo
          BY <2>2
        <5> QED BY <2>2, <5>1
      <4> QED BY <4>1
    <3>2. \A e, f \in 0 .. 15 : place[e] = place[f] => e = f
      <4>1. \A e, f \in 0 .. 15 : place[e] = place[f] => 16 * lo + e = 16 * lo + f
        OBVIOUS
      <4> QED BY <4>1, <2>2
    <3>3. \A x \in scaled : \E e \in 0 .. 15 : place[e] = x
      <4>3. ASSUME NEW x \in scaled
            PROVE  /\ x = <<x[1], x[2], x[3]>> /\ x[1] \in 0 .. 1 /\ x[2] \in 0 .. 31 /\ x[3] \in 0 .. 3
                   /\ 8 * x[1] + x[2] \div 16 + 2 * x[3] = sub
        OBVIOUS
      <4> HIDE DEF scaled
      <4>4. ASSUME NEW x \in scaled
            PROVE  \E e \in 0 .. 15 : place[e] = x
        <5> DEFINE n == x[1]
                   l == x[2]
                   k == x[3]
        <5>1. x = <<n, l, k>> /\ n \in 0 .. 1 /\ l \in 0 .. 31 /\ k \in 0 .. 3 /\ 8 * n + l \div 16 + 2 * k = sub
          BY <4>3
        <5> HIDE DEF n, l, k
        <5>2. n = half /\ k = qq /\ l - 16 * lo \in 0 .. 15 /\ 16 * lo + (l - 16 * lo) = l
          BY <2>2, <5>1
        <5>3. place[l - 16 * lo] = <<n, l, k>>
          BY <5>2
        <5> QED BY <5>1, <5>2, <5>3
      <4> QED BY <4>4
    <3> HIDE DEF place, scaled
    <3> QED BY <3>1, <3>2, <3>3, Fun_IsBij
  <2>4. ASSUME NEW e \in 0 .. 15
        PROVE  terms[place[e]] = <<y[e], q[e]>> /\ sums[place[e]] = <<y[e]>>
    <3>1. place[e] = <<half, 16 * lo + e, qq>> /\ place[e] \in scaled
      <4>1. place[e] = <<half, 16 * lo + e, qq>>
        <5> HIDE DEF half, lo, qq
        <5> QED OBVIOUS
      <4> HIDE DEF place, scaled
      <4>2. place \in [0 .. 15 -> scaled]
        BY ONLY <2>3, Fun_BijectionProperties
      <4> QED BY <4>1, <4>2
    <3>2. of(half, 16 * lo + e, qq) = y[e]
      <4>1. 128 * half + (16 * lo + e) + 32 * qq = 16 * sub + e
        <5> HIDE DEF sub, half, lo, qq
        <5> QED BY <2>2
      <4> HIDE DEF sub, half, lo, qq, col
      <4> QED BY <4>1, Vocabulary_q6_K
    <3>3. six(half, 16 * lo + e, qq) = q[e]
      <4>1. /\ 64 * half + (16 * lo + e) = 64 * half + 16 * lo + e
            /\ 32 * half + (16 * lo + e) = 32 * half + 16 * lo + e
            /\ 64 * half + (16 * lo + e + 32) = 64 * half + 32 + 16 * lo + e
        <5> HIDE DEF sub, half, lo, qq
        <5> QED BY <2>2
      <4>2. q[e] = code(e)
        <5> HIDE DEF code
        <5> QED OBVIOUS
      <4>3. code(e) = LET byte == q6_K!SourceByte(row, "ql", 64 * half + 32 * (qq % 2) + 16 * lo + e)
                          high == q6_K!SourceByte(row, "qh", 32 * half + 16 * lo + e)
                      IN  [IF qq < 2 THEN q6_K!And(byte, q6_K!LowBits(4)) ELSE q6_K!Shr(byte, 4)
                             EXCEPT ![4] = high[2 * qq], ![5] = high[2 * qq + 1]]
        OBVIOUS
      <4> HIDE DEF code, half, lo, qq, row, q
      <4>4. nibble(half, 16 * lo + e, qq)
              = LET byte == q6_K!SourceByte(row, "ql", 64 * half + 32 * (qq % 2) + 16 * lo + e)
                IN  IF qq < 2 THEN q6_K!And(byte, q6_K!LowBits(4)) ELSE q6_K!Shr(byte, 4)
        <5>1. qq \in {0, 1, 2, 3}
          BY <2>2
        <5>2. CASE qq \in {0, 2}
          <6>1. 64 * half + 32 * (qq % 2) + 16 * lo + e = 64 * half + (16 * lo + e)
            BY <2>2, <5>2
          <6> QED BY <5>2, <6>1
        <5>3. CASE qq \in {1, 3}
          <6>1. 64 * half + 32 * (qq % 2) + 16 * lo + e = 64 * half + (16 * lo + e + 32)
            BY <2>2, <5>3
          <6> QED BY <5>3, <6>1
        <5> QED BY <5>1, <5>2, <5>3
      <4>5. qh(half, 16 * lo + e) = q6_K!SourceByte(row, "qh", 32 * half + 16 * lo + e)
        BY <4>1
      <4> HIDE DEF nibble, qh
      <4> QED BY <4>2, <4>3, <4>4, <4>5
    <3> HIDE DEF place, scaled, half, lo, qq, y, q, of, six
    <3> QED BY <3>1, <3>2, <3>3
  <2>5. q6_K!BagOfValues(terms) = P /\ q6_K!BagOfValues(sums) = Y
    <3> DEFINE u == [e \in 0 .. 15 |-> <<y[e], q[e]>>]
               v == [e \in 0 .. 15 |-> <<y[e]>>]
    <3>1. /\ DOMAIN u = 0 .. 15 /\ DOMAIN v = 0 .. 15
          /\ DOMAIN terms = scaled /\ DOMAIN sums = scaled
          /\ \A e \in 0 .. 15 : terms[place[e]] = u[e] /\ sums[place[e]] = v[e]
      <4> HIDE DEF place, scaled, half, lo, qq, y, q, of, six
      <4> QED BY <2>4
    <3>2. IsFiniteSet(0 .. 15)
      <4>1. 0 \in Int /\ 15 \in Int
        OBVIOUS
      <4> QED BY <4>1, FS_Interval
    <3> HIDE DEF u, v, terms, sums, place, scaled
    <3>3. BagOfValues(u) = BagOfValues(terms)
      BY ONLY <2>3, <3>1, <3>2, Reordered
    <3>4. BagOfValues(v) = BagOfValues(sums)
      BY ONLY <2>3, <3>1, <3>2, Reordered
    <3> QED BY <3>3, <3>4, Vocabulary_q6_K DEF u, v
  <2> HIDE DEF row, col, sub, y, q, code, terms, sums, P, Y
  <2> QED BY <2>1, <2>5, Vocabulary_q6_K
<1> HIDE DEF dB, d, sc
<1>15. IsABag(dB) /\ IsABag(d) /\ IsABag(sc)
  BY FactorIsBag DEF dB, d, sc
<1>16. dB (+) (d (+) sc) = (dB (+) d) (+) sc
  BY <1>15, PlusIsAssociative
<1> QED BY <1>13, <1>14, <1>16

-----------------------------------------------------------------------------
(* The legacy formats.                                                     *)

\* The instance speaks of the same tiles, sums and bits.
LEMMA Vocabulary_leg ==
  /\ \A t, groups : leg!PackTile(t, groups) = PackTile(t, groups)
  /\ \A steps, a, y, r, j : leg!Sum16x8(steps, a, y, r, j) = Sum16x8(steps, a, y, r, j)
  /\ \A a, b : leg!(+)(a, b) = a (+) b
  /\ \A f : leg!BagOfValues(f) = BagOfValues(f)
  /\ \A f : leg!Factor(f) = Factor(f)
  /\ \A times, f, P : leg!Addend(times, f, P) = Addend(times, f, P)
  /\ \A l, size : leg!ClampLane(l, size) = ClampLane(l, size)
  /\ \A blk, e : leg!Activation(blk, e) = Activation(blk, e)
  /\ \A blk, field, i : leg!SourceByte(blk, field, i) = SourceByte(blk, field, i)
  /\ \A n : leg!LowBits(n) = LowBits(n)
  /\ \A v, n : leg!Shr(v, n) = Shr(v, n) /\ leg!Shl(v, n) = Shl(v, n)
  /\ \A v, w : leg!And(v, w) = And(v, w) /\ leg!Or(v, w) = Or(v, w)
  /\ \A blk, i : leg!BSum(blk, i) = BSum(blk, i)
BY DEF leg!PackTile, PackTile, leg!Transpose4, Transpose4, leg!GroupedLanes, GroupedLanes,
       leg!MergeH, MergeH, leg!MergeL, MergeL, leg!PermHigh, PermHigh, leg!PermLow, PermLow,
       leg!Sum16x8, Sum16x8, leg!Accumulated, Accumulated, leg!BagOfValues, BagOfValues,
       leg!Cardinality, Cardinality, leg!(+), (+), leg!Factor, Factor, leg!SetToBag, SetToBag,
       leg!Addend, Addend, leg!BSum, BSum, leg!Activation, Activation, leg!ClampLane, ClampLane,
       leg!SourceByte, SourceByte, leg!LowBits, LowBits, leg!Shr, Shr, leg!Shl, Shl, leg!And, And,
       leg!Or, Or, leg!Off, Off

\* What a block of a legacy format adds to a lane is what its scalar definition adds.
LEMMA Lane_leg ==
  ASSUME NEW cs, cs.type \in leg!Types, cs.rows \in Nat \ {0}, cs.cols \in Nat \ {0},
         NEW r \in 0 .. 15, NEW j \in 0 .. 7, NEW ch \in Nat
  PROVE  leg!Contribution(cs, r, j, ch)
            = leg!Reference(cs, LastOr(r, cs.rows), LastOr(j, cs.cols), ch)
<1> DEFINE row == leg!A(LastOr(r, cs.rows), ch)
           col == leg!B(LastOr(j, cs.cols), ch)
           ta == [l \in 0 .. leg!MR - 1 |-> leg!Codes(cs.type, leg!A(leg!ClampLane(l, cs.rows), ch))]
           tb == [l \in 0 .. 7 |-> [h \in 0 .. 2 - 1 |-> leg!Vector(LAMBDA i :
                     leg!Activation(leg!B(leg!ClampLane(l, cs.cols), ch), 0 + 16 * h + i))]]
           pa == leg!RepackA(cs.type, cs.rows, ch)
           pb == leg!PackB(cs.type, cs.cols, ch)
           dA == pa.dA[r \div 4][r % 4]
           mA == pa.mA[r \div 4][r % 4]
           dB == pb.dB[j \div 4][j % 4]
           SB == pb.SB[j \div 4][j % 4]
           nib(e) == IF e < 16 THEN And(SourceByte(row, "qs", e), LowBits(4))
                               ELSE Shr(SourceByte(row, "qs", e - 16), 4)
           fifth(e) == SourceByte(row, "qh", e \div 8)[e % 8]
           code(e) == IF cs.type \in leg!FiveBits THEN [nib(e) EXCEPT ![4] = fifth(e)] ELSE nib(e)
<1>1. /\ cs.rows \in Nat \ {0} /\ cs.cols \in Nat \ {0}
      /\ r \in 0 .. 4 * 4 - 1 /\ j \in 0 .. 4 * 2 - 1
  OBVIOUS
<1>2. /\ r \div 4 \in 0 .. 4 - 1 /\ r % 4 \in 0 .. 3 /\ 4 * (r \div 4) + (r % 4) = r
      /\ j \div 4 \in 0 .. 2 - 1 /\ j % 4 \in 0 .. 3 /\ 4 * (j \div 4) + (j % 4) = j
  OBVIOUS
<1>3. ClampLane(r, cs.rows) = LastOr(r, cs.rows) /\ ClampLane(j, cs.cols) = LastOr(j, cs.cols)
  BY <1>1, ClampIsLast
<1>4. pa.v = PackTile(ta, 4)
  <2>1. pa.v = leg!PackTile(ta, 4)
    BY DEF leg!RepackA
  <2> QED BY <2>1, Vocabulary_leg
<1>5. pb.v = PackTile(tb, 2)
  <2>1. pb.v = leg!PackTile(tb, 2)
    BY DEF leg!PackB, leg!Activations
  <2> QED BY <2>1, Vocabulary_leg
<1>6. leg!A(leg!ClampLane(r, cs.rows), ch) = row /\ leg!B(leg!ClampLane(j, cs.cols), ch) = col
  BY <1>3, Vocabulary_leg
<1>7. dA = Factor(<<"d", row>>) /\ mA = Factor(<<"m", row>>)
  <2> DEFINE g == r \div 4
             l == r % 4
             of == leg!A(leg!ClampLane(4 * g + l, cs.rows), ch)
  <2>1. of = row
    BY <1>2, <1>6
  <2>2. g \in 0 .. 4 - 1 /\ l \in 0 .. 3
    BY <1>2
  <2>3. pa.dA[g][l] = leg!Factor(<<"d", of>>) /\ pa.mA[g][l] = leg!Factor(<<"m", of>>)
    <3> HIDE DEF g, l
    <3> QED BY <2>2 DEF leg!RepackA, leg!LaneVectors
  <2> HIDE DEF of, pa, row
  <2> QED BY <2>1, <2>3, Vocabulary_leg
<1>8. /\ dB = Factor(<<"dB", col>>)
      /\ SB = IF cs.type \in leg!Affine
              THEN [times |-> 1, factors |-> Factor(<<"s", col>>), sum |-> leg!One]
              ELSE [times |-> leg!SFact(cs.type), factors |-> Factor(<<"dB", col>>),
                    sum |-> BSum(col, 0) (+) BSum(col, 1)]
  <2> DEFINE g == j \div 4
             l == j % 4
             of == leg!B(leg!ClampLane(4 * g + l, cs.cols), ch)
  <2>1. of = col
    BY <1>2, <1>6
  <2>2. g \in 0 .. 2 - 1 /\ l \in 0 .. 3
    BY <1>2
  <2>3. pb.dB[g][l] = leg!Factor(<<"dB", of>>)
    <3> HIDE DEF g, l
    <3> QED BY <2>2 DEF leg!PackB, leg!LaneVectors
  <2>4. pb.SB[g][l] = IF cs.type \in leg!Affine
              THEN [times |-> 1, factors |-> leg!Factor(<<"s", of>>), sum |-> leg!One]
              ELSE [times |-> leg!SFact(cs.type), factors |-> leg!Factor(<<"dB", of>>),
                    sum |-> leg!(+)(leg!BSum(of, 0), leg!BSum(of, 1))]
    <3> HIDE DEF g, l
    <3> QED BY <2>2 DEF leg!PackB, leg!LaneVectors
  <2> HIDE DEF of, pb, col
  <2> QED BY <2>1, <2>3, <2>4, Vocabulary_leg
<1>9. ASSUME NEW e \in 0 .. 31
      PROVE  LaneByte(ta[r], e) = code(e) /\ LaneByte(tb[j], e) = Activation(col, e)
  <2> DEFINE h == e \div 16
             w == (e % 16) \div 4
             k == e % 4
             i == 4 * w + k
  <2>1. h \in 0 .. 1 /\ w \in 0 .. 3 /\ k \in 0 .. 3 /\ 16 * h + i = e
    BY BytePlace
  <2>2. i \in 0 .. 15 /\ i \div 4 = w /\ i % 4 = k
    <3> HIDE DEF h, w, k
    <3> QED BY <2>1
  <2>3. 2 * h + i \div 8 = e \div 8 /\ i % 8 = e % 8 /\ (h = 0 <=> e < 16) /\ (h = 1 => i = e - 16) /\ (h = 0 => i = e)
    <3> HIDE DEF h, i
    <3> QED BY <2>1, <2>2
  <2>4. ta[r] = leg!Codes(cs.type, row)
    BY <1>1, <1>6 DEF leg!MR
  <2>5. leg!Nibbles32(row)[h][w][k] = nib(e)
    <3> HIDE DEF row, h, w, k
    <3> QED BY <2>1, <2>2, <2>3, Vocabulary_leg DEF leg!Nibbles32, leg!Vector
  <2>6. leg!Codes(cs.type, row)[h][w][k] = code(e)
    <3>1. CASE cs.type \notin leg!FiveBits
      <4> HIDE DEF nib, fifth, h, w, k, row
      <4> QED BY <3>1, <2>5 DEF leg!Codes
    <3>2. CASE cs.type \in leg!FiveBits
      <4> DEFINE high == SourceByte(row, "qh", e \div 8)
      <4>1. leg!QhMerge(row, leg!Nibbles32(row))[h][w][k]
               = Or(leg!Nibbles32(row)[h][i \div 4][i % 4], Shl(And(Shr(SourceByte(row, "qh", 2 * h + i \div 8), i % 8), LowBits(1)), 4))
        <5> HIDE DEF row, h, w, k
        <5> QED BY <2>1, Vocabulary_leg DEF leg!QhMerge, leg!Vector
      <4>2. leg!QhMerge(row, leg!Nibbles32(row))[h][w][k] = Or(nib(e), Shl(And(Shr(high, e % 8), LowBits(1)), 4))
        <5> HIDE DEF row, h, w, k, i, nib
        <5> QED BY <4>1, <2>2, <2>3, <2>5
      <4>3. Narrow(nib(e), 4) /\ DOMAIN high = 0 .. 7
        BY Nibbles, SourceIsByte
      <4>4. 4 \in 0 .. 7 /\ e % 8 \in 0 .. 7
        OBVIOUS
      <4> HIDE DEF high, nib
      <4>5. Or(nib(e), Shl(And(Shr(high, e % 8), LowBits(1)), 4)) = [nib(e) EXCEPT ![4] = high[e % 8]]
        BY ONLY <4>3, <4>4, BitMerged
      <4>6. leg!Codes(cs.type, row) = leg!QhMerge(row, leg!Nibbles32(row))
        BY <3>2 DEF leg!Codes
      <4>7. code(e) = [nib(e) EXCEPT ![4] = high[e % 8]]
        BY <3>2 DEF high
      <4> QED BY <4>2, <4>5, <4>6, <4>7
    <3> QED BY <3>1, <3>2
  <2>7. tb[j][h][w][k] = leg!Activation(col, e)
    <3>1. tb[j][h][w][k] = leg!Activation(leg!B(leg!ClampLane(j, cs.cols), ch), 0 + 16 * h + i)
      BY <1>1, <2>1 DEF leg!Vector
    <3> HIDE DEF tb, col, h, w, k, i
    <3>2. 0 + 16 * h + i = e
      BY <2>1, <2>2
    <3> QED BY <3>1, <3>2, <1>6
  <2> HIDE DEF ta, tb, code, col, row
  <2> QED BY <2>4, <2>6, <2>7, Vocabulary_leg DEF LaneByte
<1> DEFINE y == [e \in 0 .. 31 |-> Activation(col, e)]
           q == [e \in 0 .. 31 |-> code(e)]
           P == BagOfValues([e \in 0 .. 31 |-> <<y[e], q[e]>>])
           Y == BagOfValues([e \in 0 .. 31 |-> <<y[e]>>])
<1>10. Sum16x8(8, pa.v, pb.v, r, j) = P
  <2>1. \A e \in 0 .. 4 * 8 - 1 : LaneByte(tb[j], e) = y[e] /\ LaneByte(ta[r], e) = q[e]
    <3> HIDE DEF ta, tb, col, code
    <3>1. \A e \in 0 .. 31 : LaneByte(tb[j], e) = y[e] /\ LaneByte(ta[r], e) = q[e]
      BY <1>9
    <3> QED BY <3>1
  <2> HIDE DEF ta, tb, y, q, pa, pb
  <2>2. Sum16x8(8, PackTile(ta, 4), PackTile(tb, 2), r, j) = BagOfValues(ByteProducts(8, tb[j], ta[r]))
    <3>1. 8 \in Nat
      OBVIOUS
    <3>2. ASSUME NEW u, NEW v
          PROVE  Sum16x8(8, PackTile(u, 4), PackTile(v, 2), r, j) = BagOfValues(ByteProducts(8, v[j], u[r]))
      BY ONLY <3>1, r \in 0 .. 15, j \in 0 .. 7, Sum16x8OfTiles, Zenon
    <3> QED BY ONLY <3>2
  <2>3. ByteProducts(8, tb[j], ta[r]) = [e \in 0 .. 31 |-> <<y[e], q[e]>>]
    BY <2>1 DEF ByteProducts
  <2> QED BY <2>2, <2>3, <1>4, <1>5
<1>11. BSum(col, 0) (+) BSum(col, 1) = Y
  <2>1. BSum(col, 2 * 0) (+) BSum(col, 2 * 0 + 1) = BagOfValues(ActivationTerms(col, 32 * 0, 32))
    <3> HIDE DEF col
    <3>1. 0 \in Int
      OBVIOUS
    <3> QED BY ONLY <3>1, BSums
  <2>2. ActivationTerms(col, 32 * 0, 32) = [e \in 0 .. 31 |-> <<y[e]>>]
    BY DEF ActivationTerms
  <2> QED BY <2>1, <2>2
<1> DEFINE fd == Factor(<<"d", row>>)
           fm == Factor(<<"m", row>>)
           fB == Factor(<<"dB", col>>)
           fs == Factor(<<"s", col>>)
<1>12. leg!Contribution(cs, r, j, ch)
          = {Addend(1, fB (+) fd, P),
             IF cs.type \in leg!Affine THEN Addend(1, fs (+) fm, leg!One)
                                       ELSE Addend(-leg!SFact(cs.type), fB (+) fd, Y)}
  <2>1. leg!Contribution(cs, r, j, ch)
          = IF cs.type \in leg!Affine
            THEN {leg!Addend(1, leg!(+)(dB, dA), leg!Sum16x8(8, pa.v, pb.v, r, j)),
                  leg!Addend(SB.times, leg!(+)(SB.factors, mA), SB.sum)}
            ELSE {leg!Addend(1, leg!(+)(dB, dA), leg!Sum16x8(8, pa.v, pb.v, r, j)),
                  leg!Addend(-SB.times, leg!(+)(SB.factors, dA), SB.sum)}
    BY DEF leg!Contribution
  <2>2. cs.type \in leg!Affine => SB.times = 1 /\ SB.factors = fs /\ SB.sum = leg!One
    <3> HIDE DEF SB, col, row
    <3> QED BY <1>8
  <2>3. cs.type \notin leg!Affine => SB.times = leg!SFact(cs.type) /\ SB.factors = fB /\ SB.sum = Y
    <3> HIDE DEF SB, col, row, Y
    <3> QED BY <1>8, <1>11
  <2> HIDE DEF pa, pb, row, col, P, Y, SB, dB, dA, mA
  <2> QED BY <2>1, <2>2, <2>3, <1>7, <1>8, <1>10, Vocabulary_leg
<1>13. leg!Reference(cs, LastOr(r, cs.rows), LastOr(j, cs.cols), ch)
          = {Addend(1, fd (+) fB, P),
             IF cs.type \in leg!Affine THEN Addend(1, fm (+) fs, leg!One)
                                       ELSE Addend(-leg!SFact(cs.type), fd (+) fB, Y)}
  <2> DEFINE ni(e) == IF e < 16 THEN leg!And(leg!SourceByte(row, "qs", e), leg!LowBits(4))
                               ELSE leg!Shr(leg!SourceByte(row, "qs", e - 16), 4)
             co(e) == IF cs.type \in leg!FiveBits
                      THEN [ni(e) EXCEPT ![4] = leg!SourceByte(row, "qh", e \div 8)[e % 8]]
                      ELSE ni(e)
             offset == CASE cs.type = "q5_0" -> 16 [] cs.type = "q4_0" -> 8
             terms == [e \in 0 .. 31 |-> <<leg!Activation(col, e), co(e)>>]
             sums == [e \in 0 .. 31 |-> <<leg!Activation(col, e)>>]
             s == leg!(+)(leg!Factor(<<"d", row>>), leg!Factor(<<"dB", col>>))
  <2>1. leg!Reference(cs, LastOr(r, cs.rows), LastOr(j, cs.cols), ch)
          = {leg!Addend(1, s, leg!BagOfValues(terms)),
             IF cs.type \in leg!Affine
             THEN leg!Addend(1, leg!(+)(leg!Factor(<<"m", row>>), leg!Factor(<<"s", col>>)), leg!One)
             ELSE leg!Addend(-offset, s, leg!BagOfValues(sums))}
    BY DEF leg!Reference
  <2>2. ASSUME NEW e \in 0 .. 31
        PROVE  co(e) = code(e)
    <3> HIDE DEF row
    <3>1. ni(e) = nib(e)
      BY Vocabulary_leg
    <3>2. leg!SourceByte(row, "qh", e \div 8)[e % 8] = fifth(e)
      BY Vocabulary_leg
    <3> HIDE DEF ni, nib, fifth
    <3> QED BY <3>1, <3>2
  <2>3. terms = [e \in 0 .. 31 |-> <<y[e], q[e]>>] /\ sums = [e \in 0 .. 31 |-> <<y[e]>>]
    <3> HIDE DEF col, code, co
    <3> QED BY <2>2, Vocabulary_leg
  <2>4. cs.type \notin leg!Affine => offset = leg!SFact(cs.type)
    BY DEF leg!Affine, leg!SFact, leg!Types
  <2> HIDE DEF row, col, y, q, code, terms, sums, offset
  <2> QED BY <2>1, <2>3, <2>4, Vocabulary_leg
<1> HIDE DEF fd, fm, fB, fs
<1>14. IsABag(fd) /\ IsABag(fm) /\ IsABag(fB) /\ IsABag(fs)
  BY FactorIsBag DEF fd, fm, fB, fs
<1>15. fB (+) fd = fd (+) fB /\ fs (+) fm = fm (+) fs
  BY <1>14, PlusOfBags
<1> HIDE DEF row, col, P, Y
<1> QED BY <1>12, <1>13, <1>15

-----------------------------------------------------------------------------
(* The signed formats.                                                     *)

\* The instance speaks of the same tiles, sums and bits.
LEMMA Vocabulary_iq4 ==
  /\ \A t, groups : iq4!PackTile(t, groups) = PackTile(t, groups)
  /\ \A steps, a, y, r, j : iq4!Sum8x8(steps, a, y, r, j) = Sum8x8(steps, a, y, r, j)
  /\ \A a, b : iq4!(+)(a, b) = a (+) b
  /\ \A f : iq4!BagOfValues(f) = BagOfValues(f)
  /\ \A f : iq4!Factor(f) = Factor(f)
  /\ \A times, f, P : iq4!Addend(times, f, P) = Addend(times, f, P)
  /\ \A l, size : iq4!ClampLane(l, size) = ClampLane(l, size)
  /\ \A blk, e : iq4!Activation(blk, e) = Activation(blk, e)
  /\ \A blk, field, i : iq4!SourceByte(blk, field, i) = SourceByte(blk, field, i)
  /\ \A n : iq4!LowBits(n) = LowBits(n)
  /\ \A v, n : iq4!Shr(v, n) = Shr(v, n) /\ iq4!Shl(v, n) = Shl(v, n)
  /\ \A v, w : iq4!And(v, w) = And(v, w) /\ iq4!Or(v, w) = Or(v, w)
  /\ \A w, depth : iq4!C128Of(w, depth) = C128Of(w, depth)
  /\ \A s, P, c : iq4!Unbiased(s, P, c) = Unbiased(s, P, c)
  /\ \A y : iq4!Flipped(y) = Flipped(y)
BY DEF iq4!PackTile, PackTile, iq4!Transpose4, Transpose4, iq4!GroupedLanes, GroupedLanes,
       iq4!MergeH, MergeH, iq4!MergeL, MergeL, iq4!PermHigh, PermHigh, iq4!PermLow, PermLow,
       iq4!Sum8x8, Sum8x8, iq4!Accumulated, Accumulated, iq4!BagOfValues, BagOfValues,
       iq4!Cardinality, Cardinality, iq4!(+), (+), iq4!Factor, Factor, iq4!SetToBag, SetToBag,
       iq4!Addend, Addend, iq4!C128Of, C128Of, iq4!Unbiased, Unbiased, iq4!PartsOf, PartsOf,
       iq4!CopiesOf, CopiesOf, iq4!Flipped, Flipped, iq4!Activation, Activation, iq4!ClampLane, ClampLane,
       iq4!SourceByte, SourceByte, iq4!LowBits, LowBits, iq4!Shr, Shr, iq4!Shl, Shl, iq4!And, And,
       iq4!Or, Or, iq4!Off, Off

\* The 8x8 kernel of the signed formats: the flipped activations put a bias on every
\* product, C128 takes it off, and what is left is the scalar definition.
LEMMA Lane_iq4 ==
  ASSUME NEW cs, cs.rows \in Nat \ {0}, cs.cols \in Nat \ {0},
         NEW r \in 0 .. 7, NEW j \in 0 .. 7, NEW ch \in Nat
  PROVE  iq4!Contribution(cs, r, j, ch)
            = iq4!Reference(cs, LastOr(r, cs.rows), LastOr(j, cs.cols), ch)
<1> DEFINE row == iq4!A(cs.type, LastOr(r, cs.rows), ch)
           col == iq4!B(cs.type, LastOr(j, cs.cols), ch)
           ib == iq4!InBlock(cs.type, ch)
           ta == [l \in 0 .. iq4!MR - 1 |-> iq4!Weights(cs.type, iq4!A(cs.type, iq4!ClampLane(l, cs.rows), ch), ib)]
           tb == [l \in 0 .. 7 |-> [h \in 0 .. 2 - 1 |-> iq4!Vector(LAMBDA i :
                     iq4!Flipped(iq4!Activation(iq4!B(cs.type, iq4!ClampLane(l, cs.cols), ch), 32 * ib + 16 * h + i)))]]
           pa == iq4!RepackA(cs.type, cs.rows, ch)
           pb == iq4!PackB(cs.type, cs.cols, ch)
           qs(l) == iq4!SourceByte(row, "qs", 16 * ib + l)
           w == [l \in 0 .. 31 |->
                   IF cs.type = "q8_0" THEN iq4!SourceByte(row, "qs", l)
                   ELSE iq4!Value(cs.type, IF l < 16 THEN iq4!And(qs(l), iq4!LowBits(4)) ELSE iq4!Shr(qs(l - 16), 4))]
           y == [l \in 0 .. 31 |-> Activation(col, 32 * ib + l)]
           s == iq4!Scale(cs.type, row, ib) (+) Factor(<<"dB", col>>)
<1>1. /\ cs.rows \in Nat \ {0} /\ cs.cols \in Nat \ {0} /\ ib \in Nat
      /\ r \in 0 .. 4 * 2 - 1 /\ j \in 0 .. 4 * 2 - 1
  BY DEF iq4!InBlock
<1>2. /\ r \div 4 \in 0 .. 2 - 1 /\ r % 4 \in 0 .. 3 /\ 4 * (r \div 4) + (r % 4) = r
      /\ j \div 4 \in 0 .. 2 - 1 /\ j % 4 \in 0 .. 3 /\ 4 * (j \div 4) + (j % 4) = j
  OBVIOUS
<1>3. ClampLane(r, cs.rows) = LastOr(r, cs.rows) /\ ClampLane(j, cs.cols) = LastOr(j, cs.cols)
  BY <1>1, ClampIsLast
<1>4. pa.v = PackTile(ta, 2)
  <2>1. pa.v = iq4!PackTile(ta, 2)
    BY DEF iq4!RepackA
  <2> QED BY <2>1, Vocabulary_iq4
<1>5. pb.v = PackTile(tb, 2)
  <2>1. pb.v = iq4!PackTile(tb, 2)
    BY DEF iq4!PackB, iq4!FlippedActivations
  <2> QED BY <2>1, Vocabulary_iq4
<1>6. /\ iq4!A(cs.type, iq4!ClampLane(r, cs.rows), ch) = row
      /\ iq4!B(cs.type, iq4!ClampLane(j, cs.cols), ch) = col
  BY <1>3, Vocabulary_iq4
<1>7. ta[r] = iq4!Weights(cs.type, row, ib)
  BY <1>1, <1>6 DEF iq4!MR
<1>8. pa.sA[r \div 4][r % 4] = iq4!Scale(cs.type, row, ib) /\ pa.C128[r \div 4][r % 4] = C128Of(ta[r], 2)
  <2> DEFINE g == r \div 4
             l == r % 4
             of == iq4!A(cs.type, iq4!ClampLane(4 * g + l, cs.rows), ch)
  <2>1. of = row
    BY <1>2, <1>6
  <2>2. g \in 0 .. 2 - 1 /\ l \in 0 .. 3
    BY <1>2
  <2>3. pa.sA[g][l] = iq4!Scale(cs.type, of, ib) /\ pa.C128[g][l] = iq4!C128Of(iq4!Weights(cs.type, of, ib), 2)
    <3> HIDE DEF g, l, ib
    <3> QED BY <2>2 DEF iq4!RepackA, iq4!LaneVectors, ib
  <2> HIDE DEF of, pa, row, ta
  <2> QED BY <2>1, <2>3, <1>7, Vocabulary_iq4
<1>9. pb.dB[j \div 4][j % 4] = Factor(<<"dB", col>>)
  <2> DEFINE g == j \div 4
             l == j % 4
             of == iq4!B(cs.type, iq4!ClampLane(4 * g + l, cs.cols), ch)
  <2>1. of = col
    BY <1>2, <1>6
  <2>2. g \in 0 .. 2 - 1 /\ l \in 0 .. 3
    BY <1>2
  <2>3. pb.dB[g][l] = iq4!Factor(<<"dB", of>>)
    <3> HIDE DEF g, l
    <3> QED BY <2>2 DEF iq4!PackB, iq4!LaneVectors
  <2> HIDE DEF of, pb, col
  <2> QED BY <2>1, <2>3, Vocabulary_iq4
<1>10. ASSUME NEW e \in 0 .. 31
       PROVE  LaneByte(ta[r], e) = w[e] /\ LaneByte(tb[j], e) = Flipped(y[e])
  <2> DEFINE h == e \div 16
             m == (e % 16) \div 4
             k == e % 4
             i == 4 * m + k
  <2>1. h \in 0 .. 1 /\ m \in 0 .. 3 /\ k \in 0 .. 3 /\ 16 * h + i = e
    BY BytePlace
  <2>2. i \in 0 .. 15
    <3> HIDE DEF h, m, k
    <3> QED BY <2>1
  <2>3. (h = 0 <=> e < 16) /\ (h = 1 => i = e - 16) /\ (h = 0 => i = e)
    <3> HIDE DEF h, i
    <3> QED BY <2>1, <2>2
  <2>4. iq4!Weights(cs.type, row, ib)[h][m][k] = w[e]
    <3>1. CASE cs.type = "q8_0"
      <4>1. iq4!Weights(cs.type, row, ib)[h][m][k] = iq4!SourceByte(row, "qs", 16 * h + i)
        <5> HIDE DEF row, ib, h, m, k
        <5> QED BY <2>1, <3>1 DEF iq4!Weights, iq4!Vector
      <4> HIDE DEF row, ib, h, i
      <4> QED BY <4>1, <2>1, <3>1
    <3>2. CASE cs.type # "q8_0"
      <4>1. iq4!Weights(cs.type, row, ib)[h][m][k]
              = iq4!Value(cs.type, IF h = 0 THEN iq4!And(iq4!SourceByte(row, "qs", 16 * ib + i), iq4!LowBits(4))
                                            ELSE iq4!Shr(iq4!SourceByte(row, "qs", 16 * ib + i), 4))
        <5> HIDE DEF row, ib, h, m, k
        <5> QED BY <2>1, <3>2 DEF iq4!Weights, iq4!Lookup32, iq4!Vector
      <4> HIDE DEF row, ib, h, i
      <4> QED BY <4>1, <2>1, <2>3, <3>2
    <3> QED BY <3>1, <3>2
  <2>5. tb[j][h][m][k] = iq4!Flipped(iq4!Activation(col, 32 * ib + e))
    <3>1. tb[j][h][m][k] = iq4!Flipped(iq4!Activation(iq4!B(cs.type, iq4!ClampLane(j, cs.cols), ch), 32 * ib + 16 * h + i))
      BY SMTT(30), <1>1, <2>1 DEF iq4!Vector
    <3> HIDE DEF tb, col, h, i, ib
    <3>2. 32 * ib + 16 * h + i = 32 * ib + e
      BY <1>1, <2>1, <2>2
    <3> QED BY <3>1, <3>2, <1>6
  <2>6. y[e] = Activation(col, 32 * ib + e)
    BY DEF y
  <2> HIDE DEF ta, tb, w, y, col, row, ib
  <2> QED BY <2>4, <2>5, <2>6, <1>7, Vocabulary_iq4 DEF LaneByte
<1>11. Sum8x8(8, pa.v, pb.v, r, j) = BagOfValues(ByteProducts(8, ta[r], tb[j]))
  <2>1. 8 \in Nat
    OBVIOUS
  <2>2. ASSUME NEW u, NEW v
        PROVE  Sum8x8(8, PackTile(u, 2), PackTile(v, 2), r, j) = BagOfValues(ByteProducts(8, u[r], v[j]))
    BY ONLY <2>1, r \in 0 .. 7, j \in 0 .. 7, Sum8x8OfTiles, ZenonT(40)
  <2>3. Sum8x8(8, PackTile(ta, 2), PackTile(tb, 2), r, j) = BagOfValues(ByteProducts(8, ta[r], tb[j]))
    BY ONLY <2>2
  <2> QED BY <2>3, <1>4, <1>5
<1>12. Unbiased(s, BagOfValues(ByteProducts(8, ta[r], tb[j])), C128Of(ta[r], 2))
          = {Addend(1, s, BagOfValues([e \in 0 .. 31 |-> <<w[e], y[e]>>]))}
  <2> DEFINE g == [e \in 0 .. 31 |-> <<w[e], y[e]>>]
  <2>1. 16 * 2 - 1 = 31 /\ 4 * 2 = 8
    OBVIOUS
  <2>2. DOMAIN g = 0 .. 16 * 2 - 1
    OBVIOUS
  <2>3. \A e \in 0 .. 16 * 2 - 1 : LaneByte(tb[j], e)[2] = 128 /\ g[e] = <<LaneByte(ta[r], e), LaneByte(tb[j], e)[1]>>
    <3>1. \A e \in 0 .. 31 : g[e] = <<w[e], y[e]>>
      OBVIOUS
    <3> HIDE DEF ta, tb, w, y, g
    <3> QED BY <1>10, <2>1, <3>1 DEF Flipped
  <2> HIDE DEF ta, tb, g, s
  <2>4. LaneTerms(g, ta[r], tb[j], 2)
    BY <2>2, <2>3 DEF LaneTerms
  <2>5. 2 \in Nat \ {0}
    OBVIOUS
  <2>6. BiasedLane(s, ta[r], tb[j], 2) = {Addend(1, s, BagOfValues(g))}
    BY ONLY <2>4, <2>5, UnbiasedLane
  <2> QED BY <2>1, <2>6 DEF g, BiasedLane
<1>13. iq4!Contribution(cs, r, j, ch) = {Addend(1, s, BagOfValues([e \in 0 .. 31 |-> <<w[e], y[e]>>]))}
  <2>1. iq4!Contribution(cs, r, j, ch)
          = iq4!Unbiased(iq4!(+)(pa.sA[r \div 4][r % 4], pb.dB[j \div 4][j % 4]),
                         iq4!Sum8x8(8, pa.v, pb.v, r, j), pa.C128[r \div 4][r % 4])
    BY DEF iq4!Contribution
  <2> HIDE DEF pa, pb, ta, tb, row, col, ib, w, y
  <2> QED BY <2>1, <1>8, <1>9, <1>11, <1>12, Vocabulary_iq4
<1>14. iq4!Reference(cs, LastOr(r, cs.rows), LastOr(j, cs.cols), ch)
          = {Addend(1, s, BagOfValues([e \in 0 .. 31 |-> <<w[e], y[e]>>]))}
  <2> DEFINE val(l) == IF cs.type = "q8_0" THEN iq4!SourceByte(row, "qs", l)
                       ELSE iq4!Value(cs.type, IF l < 16 THEN iq4!And(qs(l), iq4!LowBits(4)) ELSE iq4!Shr(qs(l - 16), 4))
             terms == [l \in 0 .. 31 |-> <<val(l), iq4!Activation(col, 32 * ib + l)>>]
  <2>1. iq4!Reference(cs, LastOr(r, cs.rows), LastOr(j, cs.cols), ch)
          = {iq4!Addend(1, iq4!(+)(iq4!Scale(cs.type, row, ib), iq4!Factor(<<"dB", col>>)), iq4!BagOfValues(terms))}
    BY DEF iq4!Reference
  <2>2. terms = [e \in 0 .. 31 |-> <<w[e], y[e]>>]
    <3> HIDE DEF col, row, ib, qs
    <3> QED BY Vocabulary_iq4
  <2> HIDE DEF row, col, ib, y, w, terms
  <2> QED BY <2>1, <2>2, Vocabulary_iq4
<1> QED BY <1>13, <1>14

-----------------------------------------------------------------------------
(* The grid formats.                                                       *)

\* The instance speaks of the same tiles, sums and bits.
LEMMA Vocabulary_grid ==
  /\ \A t, groups : grid!PackTile(t, groups) = PackTile(t, groups)
  /\ \A steps, a, y, r, j : grid!Sum8x8(steps, a, y, r, j) = Sum8x8(steps, a, y, r, j)
  /\ \A a, b : grid!(+)(a, b) = a (+) b
  /\ \A f : grid!BagOfValues(f) = BagOfValues(f)
  /\ \A f : grid!Factor(f) = Factor(f)
  /\ \A times, f, P : grid!Addend(times, f, P) = Addend(times, f, P)
  /\ \A l, size : grid!ClampLane(l, size) = ClampLane(l, size)
  /\ \A blk, e : grid!Activation(blk, e) = Activation(blk, e)
  /\ \A blk, field, i : grid!SourceByte(blk, field, i) = SourceByte(blk, field, i)
  /\ \A n : grid!LowBits(n) = LowBits(n)
  /\ \A v, n : grid!Shr(v, n) = Shr(v, n) /\ grid!Shl(v, n) = Shl(v, n)
  /\ \A v, w : grid!And(v, w) = And(v, w) /\ grid!Or(v, w) = Or(v, w)
  /\ \A w, depth : grid!C128Of(w, depth) = C128Of(w, depth)
  /\ \A s, P, c : grid!Unbiased(s, P, c) = Unbiased(s, P, c)
  /\ \A y : grid!Flipped(y) = Flipped(y)
  /\ \A steps, x, y, row, col : grid!Accumulated(steps, x, y, row, col) = Accumulated(steps, x, y, row, col)
BY DEF grid!PackTile, PackTile, grid!Transpose4, Transpose4, grid!GroupedLanes, GroupedLanes,
       grid!MergeH, MergeH, grid!MergeL, MergeL, grid!PermHigh, PermHigh, grid!PermLow, PermLow,
       grid!Sum8x8, Sum8x8, grid!Accumulated, Accumulated, grid!BagOfValues, BagOfValues,
       grid!Cardinality, Cardinality, grid!(+), (+), grid!Factor, Factor, grid!SetToBag, SetToBag,
       grid!Addend, Addend, grid!C128Of, C128Of, grid!Unbiased, Unbiased, grid!PartsOf, PartsOf,
       grid!CopiesOf, CopiesOf, grid!Flipped, Flipped, grid!Activation, Activation, grid!ClampLane, ClampLane,
       grid!SourceByte, SourceByte, grid!LowBits, LowBits, grid!Shr, Shr, grid!Shl, Shl, grid!And, And,
       grid!Or, Or, grid!Off, Off

\* The same for the grid kernels, the product with one vector included.
LEMMA Lane_grid ==
  ASSUME NEW cs, cs.family \in {"deep32", "deep16", "nvfp4"}, cs.kernel \in {"gemm", "gemv"},
         cs.kernel = "gemv" => cs.cols = 1, cs.rows \in Nat \ {0}, cs.cols \in Nat \ {0},
         NEW r \in 0 .. 7, NEW j \in 0 .. 7, NEW ch \in Nat
  PROVE  grid!Contribution(cs, r, j, ch)
            = grid!Reference(cs, LastOr(r, cs.rows), LastOr(j, cs.cols), ch)
<1> DEFINE family == cs.family
           depth == grid!Depth(family)
           n == 16 * depth
           c == ch % grid!PerA(family)
           from == n * c
           first == n * (ch % grid!PerB(family))
           row == grid!A(family, LastOr(r, cs.rows), ch)
           col == grid!B(family, LastOr(j, cs.cols), ch)
           ta == [l \in 0 .. grid!MR - 1 |-> grid!ChunkCodes(family, grid!A(family, grid!ClampLane(l, cs.rows), ch), c)]
           pa == grid!RepackA(family, cs.rows, ch)
           w == [e \in 0 .. n - 1 |-> grid!Code(row, from + e)]
           y == [e \in 0 .. n - 1 |-> Activation(col, first + e)]
           s == grid!Scale(row, c) (+) Factor(<<"dB", col>>)
           result == {Addend(1, s, BagOfValues([e \in 0 .. n - 1 |-> <<w[e], y[e]>>]))}
<1>1. /\ cs.rows \in Nat \ {0} /\ cs.cols \in Nat \ {0} /\ depth \in {1, 2} /\ from \in Int /\ first \in Int
      /\ r \in 0 .. 4 * 2 - 1 /\ j \in 0 .. 4 * 2 - 1
  <2>1. depth \in {1, 2} /\ c \in Int /\ ch % grid!PerB(family) \in Int
    BY DEF grid!Depth, grid!PerA, grid!PerB
  <2> HIDE DEF c, depth
  <2> QED BY <2>1
<1>2. /\ r \div 4 \in 0 .. 2 - 1 /\ r % 4 \in 0 .. 3 /\ 4 * (r \div 4) + (r % 4) = r
      /\ j \div 4 \in 0 .. 2 - 1 /\ j % 4 \in 0 .. 3 /\ 4 * (j \div 4) + (j % 4) = j
  OBVIOUS
<1>3. ClampLane(r, cs.rows) = LastOr(r, cs.rows) /\ ClampLane(j, cs.cols) = LastOr(j, cs.cols)
  BY <1>1, ClampIsLast
<1>4. pa.v = PackTile(ta, 2)
  <2>1. pa.v = grid!PackTile(ta, 2)
    BY DEF grid!RepackA
  <2> QED BY <2>1, Vocabulary_grid
<1>5. /\ grid!A(family, grid!ClampLane(r, cs.rows), ch) = row
      /\ grid!B(family, grid!ClampLane(j, cs.cols), ch) = col
  BY <1>3, Vocabulary_grid
<1>6. ta[r] = grid!ChunkCodes(family, row, c)
  BY <1>1, <1>5 DEF grid!MR
<1>7. pa.sA[r \div 4][r % 4] = grid!Scale(row, c) /\ pa.C128[r \div 4][r % 4] = C128Of(ta[r], depth)
  <2> DEFINE g == r \div 4
             l == r % 4
             of == grid!A(family, grid!ClampLane(4 * g + l, cs.rows), ch)
  <2>1. of = row
    BY <1>2, <1>5
  <2>2. g \in 0 .. 2 - 1 /\ l \in 0 .. 3
    BY <1>2
  <2>3. /\ pa.sA[g][l] = grid!Scale(of, c)
        /\ pa.C128[g][l] = grid!C128Of(grid!ChunkCodes(family, of, c), depth)
    <3> HIDE DEF g, l
    <3> QED BY <2>2 DEF grid!RepackA, grid!LaneVectors
  <2> HIDE DEF of, pa, row, ta, depth, c
  <2> QED BY <2>1, <2>3, <1>6, Vocabulary_grid
\* The bytes of a chunk of n elements: vector h, word m and byte k hold
\* element e.
<1>8. ASSUME NEW e \in 0 .. n - 1, NEW h, h = e \div 16, NEW m, m = (e % 16) \div 4, NEW k, k = e % 4
      PROVE  h \in 0 .. depth - 1 /\ m \in 0 .. 3 /\ k \in 0 .. 3 /\ 16 * h + (4 * m + k) = e
  <2>1. depth \in Nat /\ e \in 0 .. 16 * depth - 1
    BY <1>1
  <2> HIDE DEF depth, n
  <2> QED BY <2>1, <1>8, BytePlace
<1>9. ASSUME NEW e \in 0 .. n - 1
      PROVE  LaneByte(ta[r], e) = w[e]
  <2> DEFINE h == e \div 16
             m == (e % 16) \div 4
             k == e % 4
  <2>1. h \in 0 .. depth - 1 /\ m \in 0 .. 3 /\ k \in 0 .. 3 /\ 16 * h + (4 * m + k) = e
    <3> HIDE DEF n, depth
    <3> QED BY <1>8
  <2>2. grid!ChunkCodes(family, row, c)[h][m][k] = grid!Code(row, from + 16 * h + (4 * m + k))
    <3> HIDE DEF row, c, h, m, k
    <3> QED BY <2>1 DEF grid!ChunkCodes, grid!Vector
  <2>3. from + 16 * h + (4 * m + k) = from + e
    <3> HIDE DEF from, depth
    <3> QED BY <1>1, <2>1
  <2> HIDE DEF ta, row, from, n
  <2> QED BY <2>2, <2>3, <1>6 DEF LaneByte
<1>10. ASSUME NEW v,
              \A h \in 0 .. depth - 1, m \in 0 .. 3, k \in 0 .. 3 :
                  v[h][m][k] = grid!Flipped(grid!Activation(col, first + 16 * h + (4 * m + k)))
       PROVE  Unbiased(s, BagOfValues(ByteProducts(4 * depth, ta[r], v)), C128Of(ta[r], depth)) = result
  <2>1. ASSUME NEW e \in 0 .. n - 1
        PROVE  LaneByte(v, e) = Flipped(y[e])
    <3> DEFINE h == e \div 16
               m == (e % 16) \div 4
               k == e % 4
    <3>1. h \in 0 .. depth - 1 /\ m \in 0 .. 3 /\ k \in 0 .. 3 /\ 16 * h + (4 * m + k) = e
      <4> HIDE DEF n, depth
      <4> QED BY <1>8
    <3>2. LaneByte(v, e) = grid!Flipped(grid!Activation(col, first + 16 * h + (4 * m + k)))
      <4>1. LaneByte(v, e) = v[h][m][k]
        BY DEF LaneByte
      <4> HIDE DEF h, m, k, first, col, depth
      <4> QED BY <1>10, <3>1, <4>1
    <3>3. first + 16 * h + (4 * m + k) = first + e
      <4> HIDE DEF first, depth
      <4> QED BY <1>1, <3>1
    <3>4. y[e] = Activation(col, first + e)
      <4> HIDE DEF n, col, first
      <4> QED OBVIOUS
    <3> HIDE DEF first, col, y, h, m, k, n
    <3> QED BY <3>2, <3>3, <3>4, Vocabulary_grid
  <2> DEFINE g == [e \in 0 .. n - 1 |-> <<w[e], y[e]>>]
  <2>2. depth \in {1, 2} /\ DOMAIN g = 0 .. 16 * depth - 1
    BY <1>1
  <2>3. \A e \in 0 .. 16 * depth - 1 : LaneByte(v, e)[2] = 128 /\ g[e] = <<LaneByte(ta[r], e), LaneByte(v, e)[1]>>
    <3>1. \A e \in 0 .. 16 * depth - 1 : g[e] = <<w[e], y[e]>>
      OBVIOUS
    <3>2. \A e \in 0 .. 16 * depth - 1 : LaneByte(ta[r], e) = w[e] /\ LaneByte(v, e) = Flipped(y[e])
      <4> HIDE DEF ta, w, y, depth
      <4> QED BY <1>9, <2>1
    <3> HIDE DEF ta, w, y, depth, g
    <3> QED BY <3>1, <3>2 DEF Flipped
  <2> HIDE DEF ta, g, s, depth
  <2>4. LaneTerms(g, ta[r], v, depth)
    BY <2>2, <2>3 DEF LaneTerms
  <2>5. depth \in Nat \ {0}
    BY <2>2
  <2>6. BiasedLane(s, ta[r], v, depth) = {Addend(1, s, BagOfValues(g))}
    BY ONLY <2>4, <2>5, UnbiasedLane
  <2> QED BY <2>6 DEF g, BiasedLane
<1>11. ASSUME cs.kernel = "gemm"
       PROVE  grid!Contribution(cs, r, j, ch) = result
  <2> DEFINE tb == [l \in 0 .. 7 |-> [h \in 0 .. depth - 1 |-> grid!Vector(LAMBDA i :
                       grid!Flipped(grid!Activation(grid!B(family, grid!ClampLane(l, cs.cols), ch), first + 16 * h + i)))]]
             pb == grid!PackB(family, cs.cols, ch)
  <2>1. pb.v = PackTile(tb, 2)
    <3>1. pb.v = grid!PackTile(tb, 2)
      BY DEF grid!PackB, grid!FlippedActivations
    <3> QED BY <3>1, Vocabulary_grid
  <2>2. pb.dB[j \div 4][j % 4] = Factor(<<"dB", col>>)
    <3> DEFINE g == j \div 4
               l == j % 4
               of == grid!B(family, grid!ClampLane(4 * g + l, cs.cols), ch)
    <3>1. of = col
      BY <1>2, <1>5
    <3>2. g \in 0 .. 2 - 1 /\ l \in 0 .. 3
      BY <1>2
    <3>3. pb.dB[g][l] = grid!Factor(<<"dB", of>>)
      <4> HIDE DEF g, l
      <4> QED BY <3>2 DEF grid!PackB, grid!LaneVectors
    <3> HIDE DEF of, pb, col
    <3> QED BY <3>1, <3>3, Vocabulary_grid
  <2>3. Unbiased(s, BagOfValues(ByteProducts(4 * depth, ta[r], tb[j])), C128Of(ta[r], depth)) = result
    <3>1. ASSUME NEW h \in 0 .. depth - 1, NEW m \in 0 .. 3, NEW k \in 0 .. 3
          PROVE  tb[j][h][m][k] = grid!Flipped(grid!Activation(col, first + 16 * h + (4 * m + k)))
      <4>1. tb[j][h][m][k] = grid!Flipped(grid!Activation(grid!B(family, grid!ClampLane(j, cs.cols), ch), first + 16 * h + (4 * m + k)))
        <5> HIDE DEF depth, first
        <5> QED BY <1>1 DEF grid!Vector
      <4> HIDE DEF tb, col, first
      <4> QED BY <4>1, <1>5
    <3> HIDE DEF tb, depth, first, col, s, ta, result
    <3> QED BY <3>1, <1>10
  <2>4. Sum8x8(4 * depth, pa.v, pb.v, r, j) = BagOfValues(ByteProducts(4 * depth, ta[r], tb[j]))
    <3> DEFINE steps == 4 * depth
    <3>1. steps \in Nat
      BY <1>1
    <3> HIDE DEF steps
    <3>2. ASSUME NEW u, NEW v
          PROVE  Sum8x8(steps, PackTile(u, 2), PackTile(v, 2), r, j) = BagOfValues(ByteProducts(steps, u[r], v[j]))
      BY ONLY <3>1, r \in 0 .. 7, j \in 0 .. 7, Sum8x8OfTiles, ZenonT(40)
    <3>3. Sum8x8(steps, PackTile(ta, 2), PackTile(tb, 2), r, j) = BagOfValues(ByteProducts(steps, ta[r], tb[j]))
      BY ONLY <3>2
    <3> QED BY <3>3, <1>4, <2>1 DEF steps
  <2>5. grid!Contribution(cs, r, j, ch)
           = grid!Unbiased(grid!(+)(pa.sA[r \div 4][r % 4], pb.dB[j \div 4][j % 4]),
                           grid!Sum8x8(4 * depth, pa.v, pb.v, r, j), pa.C128[r \div 4][r % 4])
    BY <1>11 DEF grid!Contribution, grid!Gemm
  <2>6. grid!Contribution(cs, r, j, ch) = result
    <3> HIDE DEF pa, pb, ta, tb, row, col, c, depth, result
    <3> QED BY <2>2, <2>3, <2>4, <2>5, <1>7, Vocabulary_grid
  <2> QED BY <2>6
<1>12. grid!Reference(cs, LastOr(r, cs.rows), LastOr(j, cs.cols), ch) = result
  <2> DEFINE terms == [l \in 0 .. n - 1 |-> <<grid!Code(row, from + l), grid!Activation(col, first + l)>>]
  <2>1. grid!Reference(cs, LastOr(r, cs.rows), LastOr(j, cs.cols), ch)
          = {grid!Addend(1, grid!(+)(grid!Scale(row, c), grid!Factor(<<"dB", col>>)), grid!BagOfValues(terms))}
    BY DEF grid!Reference
  <2>2. terms = [e \in 0 .. n - 1 |-> <<w[e], y[e]>>]
    <3> HIDE DEF col, row, from, first, n
    <3> QED BY Vocabulary_grid
  <2> HIDE DEF row, col, c, n, y, w, terms
  <2> QED BY <2>1, <2>2, Vocabulary_grid
<1>13. ASSUME cs.kernel = "gemv"
       PROVE  grid!Contribution(cs, r, j, ch) = result
  <2> DEFINE tv == [h \in 0 .. depth - 1 |-> grid!Vector(LAMBDA i : grid!Flipped(grid!Activation(col, first + 16 * h + i)))]
             xs == [x \in 0 .. 4 * depth - 1 |-> pa.v[2 * x + r \div 4]]
             ys == [x \in 0 .. 4 * depth - 1 |-> grid!Replicated(grid!Vector(LAMBDA i : grid!Flipped(grid!Activation(col, first + 16 * (x \div 4) + i))), x % 4)]
             acc == [rw \in 0 .. 3 |-> [cl \in 0 .. 3 |-> grid!Accumulated(4 * depth, xs, ys, rw, cl)]]
  <2>1. grid!B(family, 0, ch) = col
    <3>1. LastOr(j, cs.cols) = 0
      BY <1>13 DEF LastOr
    <3> QED BY <3>1
  <2>2. grid!Contribution(cs, r, j, ch)
           = grid!Unbiased(grid!(+)(pa.sA[r \div 4][r % 4], grid!Factor(<<"dB", col>>)),
                           grid!Gathered(acc)[r % 4], pa.C128[r \div 4][r % 4])
    <3>1. grid!Contribution(cs, r, j, ch) = grid!Gemv(cs, r, ch)
      BY <1>13 DEF grid!Contribution
    <3> DEFINE blk == grid!B(family, 0, ch)
               ys0 == [x \in 0 .. 4 * depth - 1 |-> grid!Replicated(grid!Vector(LAMBDA i : grid!Flipped(grid!Activation(blk, first + 16 * (x \div 4) + i))), x % 4)]
               acc0 == [rw \in 0 .. 3 |-> [cl \in 0 .. 3 |-> grid!Accumulated(4 * depth, xs, ys0, rw, cl)]]
    <3>2. grid!Gemv(cs, r, ch)
             = grid!Unbiased(grid!(+)(pa.sA[r \div 4][r % 4], grid!Factor(<<"dB", blk>>)),
                             grid!Gathered(acc0)[r % 4], pa.C128[r \div 4][r % 4])
      BY DEF grid!Gemv
    <3>3. acc0 = acc
      <4>1. blk = col
        BY <2>1
      <4> HIDE DEF col, blk, xs, depth, first
      <4> QED BY <4>1 DEF grid!Vector
    <3> HIDE DEF acc, acc0, col, pa
    <3> QED BY <2>1, <3>1, <3>2, <3>3
  <2>3. grid!Gathered(acc)[r % 4] = acc[r % 4][0]
    <3> HIDE DEF acc
    <3>1. \A u, v : grid!MergeH(u, v)[0] = u[0] /\ grid!MergeH(u, v)[1] = v[0]
      BY DEF grid!MergeH
    <3>2. \A u, v : /\ grid!PermHigh(u, v)[0] = u[0] /\ grid!PermHigh(u, v)[1] = u[1]
                    /\ grid!PermHigh(u, v)[2] = v[0] /\ grid!PermHigh(u, v)[3] = v[1]
      BY DEF grid!PermHigh
    <3>3. r % 4 \in {0, 1, 2, 3}
      BY <1>2
    <3> QED BY <3>1, <3>2, <3>3 DEF grid!Gathered
  <2>4. acc[r % 4][0] = Accumulated(4 * depth, xs, ys, r % 4, 0)
    <3> HIDE DEF xs, ys
    <3> QED BY <1>2, Vocabulary_grid
  <2>5. Accumulated(4 * depth, xs, ys, r % 4, 0) = BagOfValues(ByteProducts(4 * depth, ta[r], tv))
    <3> DEFINE steps == 4 * depth
    <3>1. steps \in Nat
      BY <1>1
    <3>2. ASSUME NEW x \in 0 .. steps - 1
          PROVE  xs[x][r % 4] = ta[r][x \div 4][x % 4]
      <4>1. 2 \in {1, 2, 4} /\ r \in 0 .. 4 * 2 - 1 /\ x \in Nat
        <5> HIDE DEF depth
        <5> QED BY <3>1
      <4>2. PackedWord(ta, 2, r, x) = ta[r][x \div 4][x % 4]
        <5> HIDE DEF ta
        <5> QED BY ONLY <4>1, PackedLane
      <4>3. xs[x] = PackTile(ta, 2)[2 * x + r \div 4]
        <5> HIDE DEF pa, ta, depth
        <5> QED BY <1>4
      <4> HIDE DEF xs, ta
      <4> QED BY <4>2, <4>3 DEF PackedWord
    <3>3. ASSUME NEW x \in 0 .. steps - 1
          PROVE  ys[x][0] = tv[x \div 4][x % 4]
      <4>1. x \div 4 \in 0 .. depth - 1 /\ x % 4 \in 0 .. 3
        <5> HIDE DEF depth
        <5> QED BY <1>1
      <4> HIDE DEF depth, first, col
      <4> QED BY <4>1 DEF grid!Replicated
    <3>4. \A x \in 0 .. steps - 1 : xs[x][r % 4] = ta[r][x \div 4][x % 4] /\ ys[x][0] = tv[x \div 4][x % 4]
      <4> HIDE DEF xs, ys, ta, tv, steps
      <4> QED BY <3>2, <3>3
    <3> HIDE DEF xs, ys, ta, tv, steps
    <3>5. Accumulated(steps, xs, ys, r % 4, 0) = BagOfValues(ByteProducts(steps, ta[r], tv))
      BY ONLY <3>1, <3>4, StepsAreBytes
    <3> QED BY <3>5 DEF steps
  <2>6. Unbiased(s, BagOfValues(ByteProducts(4 * depth, ta[r], tv)), C128Of(ta[r], depth)) = result
    <3>1. ASSUME NEW h \in 0 .. depth - 1, NEW m \in 0 .. 3, NEW k \in 0 .. 3
          PROVE  tv[h][m][k] = grid!Flipped(grid!Activation(col, first + 16 * h + (4 * m + k)))
      <4> HIDE DEF depth, first, col
      <4> QED BY DEF grid!Vector
    <3> HIDE DEF tv, depth, first, col, s, ta, result
    <3> QED BY <3>1, <1>10
  <2>7. grid!Contribution(cs, r, j, ch) = result
    <3> HIDE DEF pa, acc, xs, ys, tv, ta, row, col, c, depth, result
    <3> QED BY <2>2, <2>3, <2>4, <2>5, <2>6, <1>7, Vocabulary_grid
  <2> QED BY <2>7
<1> HIDE DEF result
<1> QED BY <1>11, <1>12, <1>13

-----------------------------------------------------------------------------
(* The one- and two-bit formats.                                           *)

\* The instance speaks of the same tiles, sums and bits.
LEMMA Vocabulary_qbit ==
  /\ \A t, groups : qbit!PackTile(t, groups) = PackTile(t, groups)
  /\ \A steps, a, y, r, j : qbit!Sum16x8(steps, a, y, r, j) = Sum16x8(steps, a, y, r, j)
  /\ \A a, b : qbit!(+)(a, b) = a (+) b
  /\ \A f : qbit!BagOfValues(f) = BagOfValues(f)
  /\ \A f : qbit!Factor(f) = Factor(f)
  /\ \A times, f, P : qbit!Addend(times, f, P) = Addend(times, f, P)
  /\ \A l, size : qbit!ClampLane(l, size) = ClampLane(l, size)
  /\ \A blk, e : qbit!Activation(blk, e) = Activation(blk, e)
  /\ \A blk, field, i : qbit!SourceByte(blk, field, i) = SourceByte(blk, field, i)
  /\ \A n : qbit!LowBits(n) = LowBits(n)
  /\ \A v, n : qbit!Shr(v, n) = Shr(v, n) /\ qbit!Shl(v, n) = Shl(v, n)
  /\ \A v, w : qbit!And(v, w) = And(v, w) /\ qbit!Or(v, w) = Or(v, w)
  /\ \A blk, i : qbit!BSum(blk, i) = BSum(blk, i)
  /\ \A S : qbit!Cardinality(S) = Cardinality(S)
  /\ \A P, S : qbit!CopiesOf(P, S) = CopiesOf(P, S)
BY DEF qbit!PackTile, PackTile, qbit!Transpose4, Transpose4, qbit!GroupedLanes, GroupedLanes,
       qbit!MergeH, MergeH, qbit!MergeL, MergeL, qbit!PermHigh, PermHigh, qbit!PermLow, PermLow,
       qbit!Sum16x8, Sum16x8, qbit!Accumulated, Accumulated, qbit!BagOfValues, BagOfValues,
       qbit!Cardinality, Cardinality, qbit!(+), (+), qbit!Factor, Factor, qbit!SetToBag, SetToBag,
       qbit!Addend, Addend, qbit!BSum, BSum, qbit!CopiesOf, CopiesOf, qbit!Activation, Activation, qbit!ClampLane, ClampLane,
       qbit!SourceByte, SourceByte, qbit!LowBits, LowBits, qbit!Shr, Shr, qbit!Shl, Shl, qbit!And, And,
       qbit!Or, Or, qbit!Off, Off

\* Code e of part c of a block, its products with the activations of a block
\* and the sum of these.
PartCode(type, blk, c, e) ==
    IF type = "q1_0" THEN And(Shr(SourceByte(blk, "qs", 4 * c + e \div 8), e % 8), LowBits(1))
                     ELSE And(Shr(SourceByte(blk, "qs", 8 * c + e \div 4), 2 * (e % 4)), LowBits(2))
PartProducts(type, blk, col, c) == BagOfValues([e \in 0 .. 31 |-> <<Activation(col, e), PartCode(type, blk, c, e)>>])
PartSum(col) == BagOfValues([e \in 0 .. 31 |-> <<Activation(col, e)>>])

\* The packs of a part hold this for lane <<r, j>>.
PartLane(pa, pb, r, j, type, row, col, c) ==
    /\ pa.dA[r \div 4][r % 4] = Factor(<<"d", row>>)
    /\ pb.dB[j \div 4][j % 4] = Factor(<<"dB", col>>)
    /\ pb.S[j \div 4][j % 4] = PartSum(col)
    /\ Sum16x8(8, pa.v, pb.v, r, j) = PartProducts(type, row, col, c)

\* Everything a part of 32 weights brings to a lane is in its place in the packs.
LEMMA Part_qbit ==
  ASSUME NEW type \in qbit!Types, NEW rows \in Nat \ {0}, NEW cols \in Nat \ {0},
         NEW r \in 0 .. 15, NEW j \in 0 .. 7, NEW b \in Nat, NEW c \in 0 .. 3,
         NEW row, row = qbit!A(LastOr(r, rows), b), NEW col, col = qbit!B(LastOr(j, cols), b, c),
         NEW pa, pa = qbit!RepackA(type, rows, b, c), NEW pb, pb = qbit!PackB(cols, b, c)
  PROVE  PartLane(pa, pb, r, j, type, row, col, c)
<1> DEFINE ta == [l \in 0 .. qbit!MR - 1 |-> qbit!Codes32(type, qbit!A(qbit!ClampLane(l, rows), b), c)]
           tb == [l \in 0 .. 7 |-> [h \in 0 .. 2 - 1 |-> qbit!Vector(LAMBDA i :
                     qbit!Activation(qbit!B(qbit!ClampLane(l, cols), b, c), 0 + 16 * h + i))]]
<1>1. r \in 0 .. 4 * 4 - 1 /\ j \in 0 .. 4 * 2 - 1
  OBVIOUS
<1>2. /\ r \div 4 \in 0 .. 4 - 1 /\ r % 4 \in 0 .. 3 /\ 4 * (r \div 4) + (r % 4) = r
      /\ j \div 4 \in 0 .. 2 - 1 /\ j % 4 \in 0 .. 3 /\ 4 * (j \div 4) + (j % 4) = j
  OBVIOUS
<1>3. ClampLane(r, rows) = LastOr(r, rows) /\ ClampLane(j, cols) = LastOr(j, cols)
  BY ClampIsLast
<1>4. pa.v = PackTile(ta, 4)
  <2>1. pa.v = qbit!PackTile(ta, 4)
    BY DEF qbit!RepackA
  <2> QED BY <2>1, Vocabulary_qbit
<1>5. pb.v = PackTile(tb, 2)
  <2>1. pb.v = qbit!PackTile(tb, 2)
    BY DEF qbit!PackB, qbit!Activations
  <2> QED BY <2>1, Vocabulary_qbit
<1>6. qbit!A(qbit!ClampLane(r, rows), b) = row /\ qbit!B(qbit!ClampLane(j, cols), b, c) = col
  BY <1>3, Vocabulary_qbit
<1>7. pa.dA[r \div 4][r % 4] = Factor(<<"d", row>>)
  <2> DEFINE g == r \div 4
             l == r % 4
             of == qbit!A(qbit!ClampLane(4 * g + l, rows), b)
  <2>1. of = row
    BY <1>2, <1>6
  <2>2. g \in 0 .. 4 - 1 /\ l \in 0 .. 3
    BY <1>2
  <2>3. pa.dA[g][l] = qbit!Factor(<<"d", of>>)
    <3> HIDE DEF g, l
    <3> QED BY <2>2 DEF qbit!RepackA, qbit!LaneVectors
  <2> HIDE DEF of
  <2> QED BY <2>1, <2>3, Vocabulary_qbit
<1>8. /\ pb.dB[j \div 4][j % 4] = Factor(<<"dB", col>>)
      /\ pb.S[j \div 4][j % 4] = BSum(col, 0) (+) BSum(col, 1)
  <2> DEFINE g == j \div 4
             l == j % 4
             of == qbit!B(qbit!ClampLane(4 * g + l, cols), b, c)
  <2>1. of = col
    BY <1>2, <1>6
  <2>2. g \in 0 .. 2 - 1 /\ l \in 0 .. 3
    BY <1>2
  <2>3. pb.dB[g][l] = qbit!Factor(<<"dB", of>>)
    <3> HIDE DEF g, l
    <3> QED BY <2>2 DEF qbit!PackB, qbit!LaneVectors
  <2>4. pb.S[g][l] = qbit!(+)(qbit!BSum(of, 0), qbit!BSum(of, 1))
    <3> HIDE DEF g, l
    <3> QED BY <2>2 DEF qbit!PackB, qbit!LaneVectors
  <2> HIDE DEF of
  <2> QED BY <2>1, <2>3, <2>4, Vocabulary_qbit
<1>9. ASSUME NEW e \in 0 .. 31
      PROVE  LaneByte(ta[r], e) = PartCode(type, row, c, e) /\ LaneByte(tb[j], e) = Activation(col, e)
  <2> DEFINE h == e \div 16
             w == (e % 16) \div 4
             k == e % 4
             i == 4 * w + k
  <2>1. h \in 0 .. 1 /\ w \in 0 .. 3 /\ k \in 0 .. 3 /\ 16 * h + i = e
    BY BytePlace
  <2>2. i \in 0 .. 15 /\ i \div 4 = w /\ i % 4 = k
    <3> HIDE DEF h, w, k
    <3> QED BY <2>1
  <2>3. 4 * c + 2 * h + i \div 8 = 4 * c + e \div 8 /\ i % 8 = e % 8 /\ 8 * c + 4 * h + i \div 4 = 8 * c + e \div 4 /\ i % 4 = e % 4
    <3> HIDE DEF h, i
    <3> QED BY <2>1, <2>2
  <2>4. ta[r] = qbit!Codes32(type, row, c)
    BY <1>1, <1>6 DEF qbit!MR
  <2>5. qbit!Codes32(type, row, c)[h][w][k] = PartCode(type, row, c, e)
    <3>1. qbit!Codes32(type, row, c)[h][w][k]
            = IF type = "q1_0"
              THEN And(Shr(SourceByte(row, "qs", 4 * c + 2 * h + i \div 8), i % 8), LowBits(1))
              ELSE And(Shr(SourceByte(row, "qs", 8 * c + 4 * h + i \div 4), 2 * (i % 4)), LowBits(2))
      <4> HIDE DEF h, w, k
      <4> QED BY <2>1, Vocabulary_qbit DEF qbit!Codes32, qbit!Vector
    <3> HIDE DEF h, w, k, i
    <3> QED BY <3>1, <2>3 DEF PartCode
  <2>6. tb[j][h][w][k] = qbit!Activation(col, e)
    <3>1. tb[j][h][w][k] = qbit!Activation(qbit!B(qbit!ClampLane(j, cols), b, c), 0 + 16 * h + i)
      BY <1>1, <2>1 DEF qbit!Vector
    <3> HIDE DEF tb, h, w, k, i
    <3>2. 0 + 16 * h + i = e
      BY <2>1, <2>2
    <3> QED BY <3>1, <3>2, <1>6
  <2> HIDE DEF ta, tb
  <2> QED BY <2>4, <2>5, <2>6, Vocabulary_qbit DEF LaneByte
<1>10. Sum16x8(8, pa.v, pb.v, r, j) = PartProducts(type, row, col, c)
  <2> HIDE DEF ta, tb
  <2>1. \A e \in 0 .. 4 * 8 - 1 : LaneByte(tb[j], e) = Activation(col, e) /\ LaneByte(ta[r], e) = PartCode(type, row, c, e)
    BY <1>9
  <2>2. Sum16x8(8, PackTile(ta, 4), PackTile(tb, 2), r, j) = BagOfValues(ByteProducts(8, tb[j], ta[r]))
    <3>1. 8 \in Nat
      OBVIOUS
    <3>2. ASSUME NEW u, NEW v
          PROVE  Sum16x8(8, PackTile(u, 4), PackTile(v, 2), r, j) = BagOfValues(ByteProducts(8, v[j], u[r]))
      BY ONLY <3>1, r \in 0 .. 15, j \in 0 .. 7, Sum16x8OfTiles, Zenon
    <3> QED BY ONLY <3>2
  <2>3. ByteProducts(8, tb[j], ta[r]) = [e \in 0 .. 31 |-> <<Activation(col, e), PartCode(type, row, c, e)>>]
    BY <2>1 DEF ByteProducts
  <2> QED BY <2>2, <2>3, <1>4, <1>5 DEF PartProducts
<1>11. BSum(col, 0) (+) BSum(col, 1) = PartSum(col)
  <2>1. BSum(col, 2 * 0) (+) BSum(col, 2 * 0 + 1) = BagOfValues(ActivationTerms(col, 32 * 0, 32))
    <3>1. 0 \in Int
      OBVIOUS
    <3> QED BY ONLY <3>1, BSums
  <2>2. ActivationTerms(col, 32 * 0, 32) = [e \in 0 .. 31 |-> <<Activation(col, e)>>]
    BY DEF ActivationTerms
  <2> QED BY <2>1, <2>2 DEF PartSum
<1> QED BY <1>7, <1>8, <1>10, <1>11 DEF PartLane

\* The sums of the bits of the codes.
CodeBits(type) == IF type = "q1_0" THEN {0} ELSE {0, 1}
PartPlane(type, blk, col, c, k) ==
    BagOfValues([e \in 0 .. 31 |-> <<Activation(col, e), PartCode(type, blk, c, e)[k]>>])

\* The sum of the products with the codes, split by the bits of the codes.
LEMMA Planes_qbit ==
  ASSUME NEW type \in qbit!Types, NEW row, NEW col, NEW c \in 0 .. 3, NEW times, NEW s
  PROVE  qbit!ByBits(times, s, PartProducts(type, row, col, c))
            = {Addend(times * 2 ^ k, s, PartPlane(type, row, col, c, k)) : k \in CodeBits(type)}
<1> DEFINE f == [e \in 0 .. 31 |-> <<Activation(col, e), PartCode(type, row, c, e)>>]
           P == PartProducts(type, row, col, c)
           code(e) == PartCode(type, row, c, e)
           bitsOf(q) == {k \in 0 .. 7 : q[k] # Off}
           planes == UNION {bitsOf(p[2]) : p \in DOMAIN P}
<1>1. IsFiniteSet(DOMAIN f)
  <2>1. 0 \in Int /\ 31 \in Int
    OBVIOUS
  <2>2. IsFiniteSet(0 .. 31)
    BY ONLY <2>1, FS_Interval
  <2> QED BY <2>2
<1>2. P = BagOfValues(f)
  BY DEF PartProducts
<1>3. \A k : Plane(P, k) = PartPlane(type, row, col, c, k)
  <2>1. ASSUME NEW k
        PROVE  Plane(P, k) = PartPlane(type, row, col, c, k)
    <3> DEFINE g == [e \in 0 .. 31 |-> <<Activation(col, e), code(e)[k]>>]
    <3>1. DOMAIN g = DOMAIN f /\ \A e \in DOMAIN f : g[e] = <<f[e][1], f[e][2][k]>>
      OBVIOUS
    <3>2. PartPlane(type, row, col, c, k) = BagOfValues(g)
      BY DEF PartPlane
    <3> HIDE DEF f, g, P
    <3>3. Plane(P, k) = BagOfValues(g)
      BY ONLY <1>1, <1>2, <3>1, PlaneOfSum
    <3> QED BY <3>2, <3>3
  <2> QED BY <2>1
<1>4. ASSUME NEW e \in 0 .. 31
      PROVE  bitsOf(code(e)) = CodeBits(type)
  <2>1. CASE type = "q1_0"
    <3> DEFINE x == SourceByte(row, "qs", 4 * c + e \div 8)
               n == e % 8
    <3>1. n \in 0 .. 7
      OBVIOUS
    <3>2. \A k \in 0 .. 7 : x[k] # Off
      BY DEF SourceByte, Off
    <3>3. code(e) = And(Shr(x, n), LowBits(1)) /\ DOMAIN x = 0 .. 7
      BY <2>1 DEF PartCode, SourceByte
    <3> HIDE DEF x, n
    <3>4. Shr(x, n) = [k \in 0 .. 7 |-> IF k + n \in 0 .. 7 THEN x[k + n] ELSE Off]
      BY <3>3 DEF Shr
    <3>5. \A k \in 0 .. 7 : code(e)[k] = IF k = 0 THEN x[n] ELSE Off
      BY <3>1, <3>3, <3>4 DEF And, LowBits
    <3> HIDE DEF code
    <3> QED BY <2>1, <3>1, <3>2, <3>5 DEF CodeBits
  <2>2. CASE type # "q1_0"
    <3> DEFINE x == SourceByte(row, "qs", 8 * c + e \div 4)
               n == 2 * (e % 4)
    <3>1. n \in {0, 2, 4, 6}
      OBVIOUS
    <3>2. \A k \in 0 .. 7 : x[k] # Off
      BY DEF SourceByte, Off
    <3>3. code(e) = And(Shr(x, n), LowBits(2)) /\ DOMAIN x = 0 .. 7
      BY <2>2 DEF PartCode, SourceByte
    <3> HIDE DEF x, n
    <3>4. Shr(x, n) = [k \in 0 .. 7 |-> IF k + n \in 0 .. 7 THEN x[k + n] ELSE Off]
      BY <3>3 DEF Shr
    <3>5. \A k \in 0 .. 7 : code(e)[k] = IF k = 0 THEN x[n] ELSE IF k = 1 THEN x[n + 1] ELSE Off
      BY <3>1, <3>3, <3>4 DEF And, LowBits
    <3> HIDE DEF code
    <3> QED BY <2>2, <3>1, <3>2, <3>5 DEF CodeBits
  <2> QED BY <2>1, <2>2
<1>5. planes = CodeBits(type)
  <2>1. DOMAIN P = {<<Activation(col, e), code(e)>> : e \in 0 .. 31}
    <3>1. BagOfValues(f) = [v \in Values(f) |-> Cardinality(Terms(f, v))]
      BY <1>1, BagValues
    <3>2. DOMAIN P = Values(f)
      <4> HIDE DEF P, f
      <4> QED BY <1>2, <3>1
    <3>3. Values(f) = {<<Activation(col, e), code(e)>> : e \in 0 .. 31}
      BY DEF Values
    <3> QED BY <3>2, <3>3
  <2> HIDE DEF P, code, bitsOf
  <2>2. ASSUME NEW p \in DOMAIN P
        PROVE  bitsOf(p[2]) = CodeBits(type)
    BY <1>4, <2>1
  <2>3. \E p : p \in DOMAIN P
    <3>1. <<Activation(col, 0), code(0)>> \in DOMAIN P
      BY <2>1
    <3> QED BY <3>1
  <2> QED BY <2>2, <2>3
<1> DEFINE kept(k) == [v \in {<<p[1], p[2][k]>> : p \in DOMAIN P} |->
                         qbit!Cardinality(qbit!CopiesOf(P, {p \in DOMAIN P : <<p[1], p[2][k]>> = v}))]
<1>6. qbit!ByBits(times, s, P) = {qbit!Addend(times * 2 ^ k, s, kept(k)) : k \in planes}
  <2> HIDE DEF P
  <2> QED BY DEF qbit!ByBits, qbit!Off, Off
<1>7. \A k : kept(k) = Plane(P, k)
  <2> HIDE DEF P
  <2> QED BY Vocabulary_qbit DEF Plane
<1>8. qbit!ByBits(times, s, P) = {Addend(times * 2 ^ k, s, Plane(P, k)) : k \in planes}
  <2> HIDE DEF P, planes, kept
  <2>1. \A k : qbit!Addend(times * 2 ^ k, s, kept(k)) = Addend(times * 2 ^ k, s, Plane(P, k))
    BY <1>7, Vocabulary_qbit
  <2> QED BY <1>6, <2>1
<1> HIDE DEF P, planes
<1> QED BY <1>3, <1>5, <1>8 DEF P

\* What a part of a block adds to a result.
PartScale(blk, col) == Factor(<<"d", blk>>) (+) Factor(<<"dB", col>>)
PartResult(type, blk, col, c) ==
    qbit!ByBits(qbit!Alpha(type), PartScale(blk, col), PartProducts(type, blk, col, c))
        \cup {Addend(-1, PartScale(blk, col), PartSum(col))}

\* The scalar definition of a block, part by part.
LEMMA Reference_qbit ==
  ASSUME NEW cs, NEW r, NEW j, NEW ch
  PROVE  qbit!Reference(cs, r, j, ch)
            = UNION {PartResult(cs.type, qbit!A(r, ch), qbit!B(j, ch, c), c) : c \in 0 .. 3}
<1> DEFINE row == qbit!A(r, ch)
           col(c) == qbit!B(j, ch, c)
           qs(i) == qbit!SourceByte(row, "qs", i)
           code(c, e) == IF cs.type = "q1_0"
                         THEN qbit!And(qbit!Shr(qs(4 * c + e \div 8), e % 8), qbit!LowBits(1))
                         ELSE qbit!And(qbit!Shr(qs(8 * c + (e - (e % 4)) \div 4), 2 * (e % 4)), qbit!LowBits(2))
           products(c) == [e \in 0 .. 31 |-> <<qbit!Activation(col(c), e), code(c, e)>>]
           sums(c) == [e \in 0 .. 31 |-> <<qbit!Activation(col(c), e)>>]
           s(c) == qbit!(+)(qbit!Factor(<<"d", row>>), qbit!Factor(<<"dB", col(c)>>))
           part(c) == qbit!ByBits(qbit!Alpha(cs.type), s(c), qbit!BagOfValues(products(c)))
                        \cup {qbit!Addend(-1, s(c), qbit!BagOfValues(sums(c)))}
<1>1. qbit!Reference(cs, r, j, ch) = UNION {part(c) : c \in 0 .. 3}
  BY DEF qbit!Reference
<1>2. ASSUME NEW c \in 0 .. 3
      PROVE  part(c) = PartResult(cs.type, row, col(c), c)
  <2>1. products(c) = [e \in 0 .. 31 |-> <<Activation(col(c), e), PartCode(cs.type, row, c, e)>>]
    <3>1. ASSUME NEW e \in 0 .. 31
          PROVE  code(c, e) = PartCode(cs.type, row, c, e)
      <4>1. (e - (e % 4)) \div 4 = e \div 4
        OBVIOUS
      <4> HIDE DEF row
      <4> QED BY <4>1, Vocabulary_qbit DEF PartCode
    <3> HIDE DEF row, col, code
    <3> QED BY <3>1, Vocabulary_qbit
  <2>2. sums(c) = [e \in 0 .. 31 |-> <<Activation(col(c), e)>>]
    <3> HIDE DEF col
    <3> QED BY Vocabulary_qbit
  <2>3. s(c) = PartScale(row, col(c))
    <3> HIDE DEF col, row
    <3> QED BY Vocabulary_qbit DEF PartScale
  <2> HIDE DEF products, sums, s, row, col
  <2> QED BY <2>1, <2>2, <2>3, Vocabulary_qbit DEF PartResult, PartProducts, PartSum
<1> HIDE DEF part, row, col
<1>3. {part(c) : c \in 0 .. 3} = {PartResult(cs.type, row, col(c), c) : c \in 0 .. 3}
  BY <1>2
<1> QED BY <1>1, <1>3 DEF row, col

\* The kernel of tiles: the sums of a part, its bits together.
LEMMA Gemm_qbit ==
  ASSUME NEW cs, cs.type \in qbit!Types, cs.rows \in Nat \ {0}, cs.cols \in Nat \ {0},
         NEW r \in 0 .. 15, NEW j \in 0 .. 7, NEW ch \in Nat
  PROVE  qbit!Gemm(cs, r, j, ch)
            = UNION {PartResult(cs.type, qbit!A(LastOr(r, cs.rows), ch), qbit!B(LastOr(j, cs.cols), ch, c), c)
                        : c \in 0 .. 3}
<1> DEFINE row == qbit!A(LastOr(r, cs.rows), ch)
           col(c) == qbit!B(LastOr(j, cs.cols), ch, c)
           pa(c) == qbit!RepackA(cs.type, cs.rows, ch, c)
           pb(c) == qbit!PackB(cs.cols, ch, c)
           dB(c) == pb(c).dB[j \div 4][j % 4]
           dA(c) == pa(c).dA[r \div 4][r % 4]
           part(c) == qbit!ByBits(qbit!Alpha(cs.type), qbit!(+)(dB(c), dA(c)), qbit!Sum16x8(8, pa(c).v, pb(c).v, r, j))
                        \cup {qbit!Addend(-1, qbit!(+)(dA(c), dB(c)), pb(c).S[j \div 4][j % 4])}
<1>1. qbit!Gemm(cs, r, j, ch) = UNION {part(c) : c \in 0 .. 3}
  BY DEF qbit!Gemm
<1>2. ASSUME NEW c \in 0 .. 3
      PROVE  part(c) = PartResult(cs.type, row, col(c), c)
  <2>1. /\ dA(c) = Factor(<<"d", row>>) /\ dB(c) = Factor(<<"dB", col(c)>>)
        /\ pb(c).S[j \div 4][j % 4] = PartSum(col(c))
        /\ Sum16x8(8, pa(c).v, pb(c).v, r, j) = PartProducts(cs.type, row, col(c), c)
    <3>1. /\ row = qbit!A(LastOr(r, cs.rows), ch) /\ col(c) = qbit!B(LastOr(j, cs.cols), ch, c)
          /\ pa(c) = qbit!RepackA(cs.type, cs.rows, ch, c) /\ pb(c) = qbit!PackB(cs.cols, ch, c)
      OBVIOUS
    <3> HIDE DEF row, col, pa, pb
    <3>2. PartLane(pa(c), pb(c), r, j, cs.type, row, col(c), c)
      BY <3>1, Part_qbit
    <3> QED BY <3>2 DEF PartLane
  <2>2. Factor(<<"dB", col(c)>>) (+) Factor(<<"d", row>>) = Factor(<<"d", row>>) (+) Factor(<<"dB", col(c)>>)
    <3> DEFINE a == Factor(<<"dB", col(c)>>)
               b == Factor(<<"d", row>>)
    <3>1. IsABag(a) /\ IsABag(b)
      BY FactorIsBag
    <3> HIDE DEF a, b
    <3>2. a (+) b = b (+) a
      BY <3>1, PlusOfBags
    <3> QED BY <3>2 DEF a, b
  <2> HIDE DEF pa, pb, row, col, dA, dB
  <2> QED BY <2>1, <2>2, Vocabulary_qbit DEF PartResult, PartScale
<1> HIDE DEF part, row, col
<1>3. {part(c) : c \in 0 .. 3} = {PartResult(cs.type, row, col(c), c) : c \in 0 .. 3}
  BY <1>2
<1> QED BY <1>1, <1>3 DEF row, col

\* The product with a vector: a sum for each bit of the raw weights.
LEMMA Gemv_qbit ==
  ASSUME NEW cs, cs.type \in qbit!Types, NEW r, NEW j, NEW ch
  PROVE  qbit!Gemv(cs, r, j, ch)
            = UNION {PartResult(cs.type, qbit!A(r, ch), qbit!B(j, ch, c), c) : c \in 0 .. 3}
<1> DEFINE row == qbit!A(r, ch)
           col(c) == qbit!B(j, ch, c)
           per == IF cs.type = "q1_0" THEN 8 ELSE 4
           byte(c, i) == qbit!SourceByte(row, "qs", (32 \div per) * c + i \div per)
           s(c) == qbit!(+)(qbit!Factor(<<"d", row>>), qbit!Factor(<<"dB", col(c)>>))
           all(c) == [i \in 0 .. 31 |-> <<qbit!Activation(col(c), i), byte(c, i)[i % per]>>]
           low(c) == [i \in 0 .. 31 |-> <<qbit!Activation(col(c), i), byte(c, i)[2 * (i % per)]>>]
           high(c) == [i \in 0 .. 31 |-> <<qbit!Activation(col(c), i), byte(c, i)[2 * (i % per) + 1]>>]
           sums(c) == [i \in 0 .. 31 |-> <<qbit!Activation(col(c), i)>>]
           part(c) == (IF cs.type = "q1_0"
                       THEN {qbit!Addend(2, s(c), qbit!BagOfValues(all(c)))}
                       ELSE {qbit!Addend(1, s(c), qbit!BagOfValues(low(c))),
                             qbit!Addend(2, s(c), qbit!BagOfValues(high(c)))})
                      \cup {qbit!Addend(-1, s(c), qbit!BagOfValues(sums(c)))}
<1>1. qbit!Gemv(cs, r, j, ch) = UNION {part(c) : c \in 0 .. 3}
  BY DEF qbit!Gemv
<1>2. ASSUME NEW c \in 0 .. 3
      PROVE  part(c) = PartResult(cs.type, row, col(c), c)
  <2>1. sums(c) = [e \in 0 .. 31 |-> <<Activation(col(c), e)>>]
    <3> HIDE DEF col
    <3> QED BY Vocabulary_qbit
  <2>2. s(c) = PartScale(row, col(c))
    <3> HIDE DEF col, row
    <3> QED BY Vocabulary_qbit DEF PartScale
  <2>3. qbit!ByBits(qbit!Alpha(cs.type), PartScale(row, col(c)), PartProducts(cs.type, row, col(c), c))
          = {Addend(qbit!Alpha(cs.type) * 2 ^ k, PartScale(row, col(c)), PartPlane(cs.type, row, col(c), c, k))
                : k \in CodeBits(cs.type)}
    <3> HIDE DEF col, row
    <3> QED BY Planes_qbit
  <2>4. CASE cs.type = "q1_0"
    <3>1. all(c) = [e \in 0 .. 31 |-> <<Activation(col(c), e), PartCode(cs.type, row, c, e)[0]>>]
      <4>1. ASSUME NEW e \in 0 .. 31
            PROVE  byte(c, e)[e % per] = PartCode(cs.type, row, c, e)[0]
        <5> DEFINE x == SourceByte(row, "qs", 4 * c + e \div 8)
                   n == e % 8
        <5>1. n \in 0 .. 7 /\ e % per = n /\ (32 \div per) * c + e \div per = 4 * c + e \div 8
          BY <2>4
        <5>2. byte(c, e)[e % per] = x[n]
          <6> HIDE DEF row, n, per
          <6> QED BY <5>1, Vocabulary_qbit
        <5>3. PartCode(cs.type, row, c, e) = And(Shr(x, n), LowBits(1)) /\ DOMAIN x = 0 .. 7
          BY <2>4 DEF PartCode, SourceByte
        <5> HIDE DEF x, n
        <5>4. Shr(x, n) = [k \in 0 .. 7 |-> IF k + n \in 0 .. 7 THEN x[k + n] ELSE Off]
          BY <5>3 DEF Shr
        <5>5. PartCode(cs.type, row, c, e)[0] = x[n]
          BY <5>1, <5>3, <5>4 DEF And, LowBits
        <5> QED BY <5>2, <5>5
      <4> HIDE DEF byte, row, col, per
      <4> QED BY <4>1, Vocabulary_qbit
    <3>2. qbit!Alpha(cs.type) = 2 /\ CodeBits(cs.type) = {0} /\ 2 * 2 ^ 0 = 2
      BY <2>4 DEF qbit!Alpha, CodeBits
    <3>3. qbit!ByBits(qbit!Alpha(cs.type), PartScale(row, col(c)), PartProducts(cs.type, row, col(c), c))
            = {Addend(2, PartScale(row, col(c)), PartPlane(cs.type, row, col(c), c, 0))}
      <4> HIDE DEF row, col
      <4> QED BY <2>3, <3>2
    <3> HIDE DEF all, sums, s, row, col
    <3> QED BY <2>1, <2>2, <2>4, <3>1, <3>3, Vocabulary_qbit DEF PartResult, PartPlane, PartSum
  <2>5. CASE cs.type # "q1_0"
    <3>1. /\ low(c) = [e \in 0 .. 31 |-> <<Activation(col(c), e), PartCode(cs.type, row, c, e)[0]>>]
          /\ high(c) = [e \in 0 .. 31 |-> <<Activation(col(c), e), PartCode(cs.type, row, c, e)[1]>>]
      <4>1. ASSUME NEW e \in 0 .. 31
            PROVE  /\ byte(c, e)[2 * (e % per)] = PartCode(cs.type, row, c, e)[0]
                   /\ byte(c, e)[2 * (e % per) + 1] = PartCode(cs.type, row, c, e)[1]
        <5> DEFINE x == SourceByte(row, "qs", 8 * c + e \div 4)
                   n == 2 * (e % 4)
        <5>1. n \in {0, 2, 4, 6} /\ 2 * (e % per) = n /\ (32 \div per) * c + e \div per = 8 * c + e \div 4
          BY <2>5
        <5>2. byte(c, e)[2 * (e % per)] = x[n] /\ byte(c, e)[2 * (e % per) + 1] = x[n + 1]
          <6> HIDE DEF row, n, per
          <6> QED BY <5>1, Vocabulary_qbit
        <5>3. PartCode(cs.type, row, c, e) = And(Shr(x, n), LowBits(2)) /\ DOMAIN x = 0 .. 7
          BY <2>5 DEF PartCode, SourceByte
        <5> HIDE DEF x, n
        <5>4. Shr(x, n) = [k \in 0 .. 7 |-> IF k + n \in 0 .. 7 THEN x[k + n] ELSE Off]
          BY <5>3 DEF Shr
        <5>5. PartCode(cs.type, row, c, e)[0] = x[n] /\ PartCode(cs.type, row, c, e)[1] = x[n + 1]
          BY <5>1, <5>3, <5>4 DEF And, LowBits
        <5> QED BY <5>2, <5>5
      <4> HIDE DEF byte, row, col, per
      <4> QED BY <4>1, Vocabulary_qbit
    <3>2. qbit!Alpha(cs.type) = 1 /\ CodeBits(cs.type) = {0, 1} /\ 1 * 2 ^ 0 = 1 /\ 1 * 2 ^ 1 = 2
      BY <2>5 DEF qbit!Alpha, CodeBits
    <3>3. qbit!ByBits(qbit!Alpha(cs.type), PartScale(row, col(c)), PartProducts(cs.type, row, col(c), c))
            = {Addend(1, PartScale(row, col(c)), PartPlane(cs.type, row, col(c), c, 0)),
               Addend(2, PartScale(row, col(c)), PartPlane(cs.type, row, col(c), c, 1))}
      <4> HIDE DEF row, col
      <4> QED BY <2>3, <3>2
    <3> HIDE DEF low, high, sums, s, row, col
    <3> QED BY <2>1, <2>2, <2>5, <3>1, <3>3, Vocabulary_qbit DEF PartResult, PartPlane, PartSum
  <2> QED BY <2>4, <2>5
<1> HIDE DEF part, row, col
<1>3. {part(c) : c \in 0 .. 3} = {PartResult(cs.type, row, col(c), c) : c \in 0 .. 3}
  BY <1>2
<1> QED BY <1>1, <1>3 DEF row, col

\* Both kernels of the one- and two-bit formats add what the scalar definition adds.
LEMMA Lane_qbit ==
  ASSUME NEW cs, cs.type \in qbit!Types, cs.kernel \in {"gemm", "gemv"}, cs.rows \in Nat \ {0}, cs.cols \in Nat \ {0},
         cs.kernel = "gemv" => cs.rows = 16 /\ cs.cols = 8,
         NEW r \in 0 .. 15, NEW j \in 0 .. 7, NEW ch \in Nat
  PROVE  qbit!Contribution(cs, r, j, ch)
            = qbit!Reference(cs, LastOr(r, cs.rows), LastOr(j, cs.cols), ch)
<1> DEFINE result == UNION {PartResult(cs.type, qbit!A(LastOr(r, cs.rows), ch), qbit!B(LastOr(j, cs.cols), ch, c), c) : c \in 0 .. 3}
<1>1. qbit!Reference(cs, LastOr(r, cs.rows), LastOr(j, cs.cols), ch) = result
  BY Reference_qbit
<1>2. qbit!Gemm(cs, r, j, ch) = result
  BY SMTT(30), Gemm_qbit
<1>3. cs.kernel = "gemv" => qbit!Gemv(cs, r, j, ch) = result
  <2>1. cs.kernel = "gemv" => LastOr(r, cs.rows) = r /\ LastOr(j, cs.cols) = j
    BY DEF LastOr
  <2>2. qbit!Gemv(cs, r, j, ch) = UNION {PartResult(cs.type, qbit!A(r, ch), qbit!B(j, ch, c), c) : c \in 0 .. 3}
    BY Gemv_qbit
  <2> QED BY <2>1, <2>2
<1> HIDE DEF result
<1> QED BY <1>1, <1>2, <1>3 DEF qbit!Contribution
=============================================================================
