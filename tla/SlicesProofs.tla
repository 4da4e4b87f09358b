---------------------------- MODULE SlicesProofs ----------------------------
(***************************************************************************)
(* What the split of a multiplication among threads guarantees for every   *)
(* number of rows, every tile height and every number of threads: each     *)
(* tile, and each row of the matrix being repacked, has exactly one owner. *)
(***************************************************************************)
EXTENDS Slices, TLAPS

LEMMA DivBounds ==
  ASSUME NEW a \in Nat, NEW b \in Nat \ {0}
  PROVE  /\ a \div b \in Nat
         /\ b * (a \div b) <= a
         /\ a < b * (a \div b) + b
OBVIOUS

\* Rounding up: the quotient is large enough, and no larger than needed.
LEMMA CeilBounds ==
  ASSUME NEW a \in Nat, NEW b \in Nat \ {0}
  PROVE  /\ CeilDiv(a, b) \in Nat
         /\ a <= b * CeilDiv(a, b)
         /\ b * CeilDiv(a, b) < a + b
         /\ a > 0 => CeilDiv(a, b) > 0
<1>1. a + b - 1 \in Nat
  OBVIOUS
<1>2. /\ CeilDiv(a, b) \in Nat
      /\ b * CeilDiv(a, b) <= a + b - 1
      /\ a + b - 1 < b * CeilDiv(a, b) + b
  BY <1>1, DivBounds DEF CeilDiv
<1>3. a > 0 => CeilDiv(a, b) > 0
  BY <1>2
<1> QED BY <1>2, <1>3

\* Two multiples of p that are both within p above the same number are equal.
LEMMA SameMultiple ==
  ASSUME NEW p \in Nat, NEW i \in Nat, NEW j \in Nat, NEW k \in Int,
         i * p <= k, k < i * p + p, j * p <= k, k < j * p + p
  PROVE  i = j
<1>1. ~ i < j
  <2>1. SUFFICES ASSUME i < j PROVE FALSE
    OBVIOUS
  <2>2. (i + 1) * p <= j * p
    BY <2>1
  <2> QED BY <2>2
<1>2. ~ j < i
  <2>1. SUFFICES ASSUME j < i PROVE FALSE
    OBVIOUS
  <2>2. (j + 1) * p <= i * p
    BY <2>1
  <2> QED BY <2>2
<1> QED BY <1>1, <1>2

\* ThreadTiles without the minimum: what a thread's for loop visits.
LEMMA TilesOfThread ==
  ASSUME NEW tiles \in Nat, NEW nth \in Nat \ {0}, NEW ith \in 0 .. nth - 1,
         NEW k \in 0 .. tiles - 1
  PROVE  k \in ThreadTiles(tiles, ith, nth)
           <=> /\ ith * CeilDiv(tiles, nth) <= k
               /\ k < ith * CeilDiv(tiles, nth) + CeilDiv(tiles, nth)
<1> DEFINE p == CeilDiv(tiles, nth)
<1>1. p \in Nat
  BY CeilBounds
<1>2. ith * p \in Nat
  BY <1>1
<1> HIDE DEF p
<1>3. MinOf(ith * p + p, tiles) <= ith * p + p
      /\ (k < ith * p + p => k < MinOf(ith * p + p, tiles))
  BY <1>1, <1>2 DEF MinOf
<1>4. MinOf(ith * p + p, tiles) \in Int
  BY <1>1, <1>2 DEF MinOf
<1> QED BY <1>1, <1>2, <1>3, <1>4 DEF ThreadTiles, FirstTile, EndTile, p

\* Every tile belongs to exactly one thread: the loops over per = (tiles + nth - 1) / nth
\* tiles that every packed GEMM and every operation driver run leave no tile out and
\* compute none twice.
THEOREM EveryTileOnce ==
  ASSUME NEW tiles \in Nat, NEW nth \in Nat \ {0}, NEW k \in 0 .. tiles - 1
  PROVE  /\ \E ith \in 0 .. nth - 1 : k \in ThreadTiles(tiles, ith, nth)
         /\ \A i, j \in 0 .. nth - 1 :
               k \in ThreadTiles(tiles, i, nth) /\ k \in ThreadTiles(tiles, j, nth) => i = j
<1> DEFINE p == CeilDiv(tiles, nth)
<1>1. p \in Nat /\ p > 0 /\ tiles <= nth * p
  BY CeilBounds
<1> HIDE DEF p
<1> DEFINE w == k \div p
<1>2. w \in Nat /\ p * w <= k /\ k < p * w + p
  BY <1>1, DivBounds
<1> HIDE DEF w
<1>3. w < nth
  <2>1. SUFFICES ASSUME nth <= w PROVE FALSE
    BY <1>2
  <2>2. nth * p <= w * p
    BY <2>1, <1>1, <1>2
  <2>3. w * p = p * w
    BY <1>1, <1>2
  <2>4. k < nth * p
    BY <1>1
  <2> QED BY <2>2, <2>3, <2>4, <1>1, <1>2
<1>4. w \in 0 .. nth - 1
  BY <1>2, <1>3
<1>5. w * p <= k /\ k < w * p + p
  BY <1>1, <1>2
<1>6. k \in ThreadTiles(tiles, w, nth)
  BY <1>4, <1>5, TilesOfThread DEF p
<1>7. ASSUME NEW i \in 0 .. nth - 1, NEW j \in 0 .. nth - 1,
             k \in ThreadTiles(tiles, i, nth), k \in ThreadTiles(tiles, j, nth)
      PROVE  i = j
  <2>1. i * p <= k /\ k < i * p + p /\ j * p <= k /\ k < j * p + p
    BY <1>7, TilesOfThread DEF p
  <2> QED BY <2>1, <1>1, SameMultiple
<1> QED BY <1>4, <1>6, <1>7

\* A row and its tile: comparing a row with the first row of a tile compares the tiles.
LEMMA RowAgainstTile ==
  ASSUME NEW r \in Nat, NEW mr \in Nat \ {0}, NEW t \in Nat
  PROVE  /\ t * mr <= r <=> t <= r \div mr
         /\ r < t * mr <=> r \div mr < t
<1> DEFINE q == r \div mr
<1>1. q \in Nat /\ mr * q <= r /\ r < mr * q + mr
  BY DivBounds
<1> HIDE DEF q
<1>2. t <= q => t * mr <= q * mr
  BY <1>1
<1>3. q < t => (q + 1) * mr <= t * mr
  BY <1>1
<1>4. q * mr = mr * q /\ (q + 1) * mr = mr * q + mr /\ t * mr \in Nat
  BY <1>1
<1>5. t <= q => t * mr <= r
  BY <1>1, <1>2, <1>4
<1>6. q < t => r < t * mr
  BY <1>1, <1>3, <1>4
<1> QED BY <1>1, <1>4, <1>5, <1>6 DEF q

\* The rows of a slice are the rows of the thread's tiles, the ragged last tile included.
LEMMA RowsOfThread ==
  ASSUME NEW m \in Nat, NEW mr \in Nat \ {0}, NEW nth \in Nat \ {0},
         NEW ith \in 0 .. nth - 1, NEW r \in 0 .. m - 1
  PROVE  r \in SliceRows(ApackSlice(m, mr, ith, nth))
           <=> r \div mr \in ThreadTiles(TileCount(m, mr), ith, nth)
<1> DEFINE tiles == TileCount(m, mr)
           t0 == FirstTile(tiles, ith, nth)
           t1 == EndTile(tiles, ith, nth)
           q  == r \div mr
<1>1. tiles \in Nat /\ m <= mr * tiles
  BY CeilBounds DEF TileCount
<1>2. CeilDiv(tiles, nth) \in Nat
  BY <1>1, CeilBounds
<1>3. t0 \in Nat
  BY <1>2 DEF FirstTile
<1>4. t1 \in Nat
  BY <1>1, <1>2, <1>3 DEF EndTile, MinOf
<1>5. q \in Nat /\ q < tiles
  <2>1. q \in Nat /\ mr * q <= r
    BY DivBounds
  <2>2. r < tiles * mr
    BY <1>1
  <2>3. q < tiles
    BY <2>2, <1>1, RowAgainstTile
  <2> QED BY <2>1, <2>3
<1>6. /\ t0 * mr <= r <=> t0 <= q
      /\ r < t1 * mr <=> q < t1
  BY <1>3, <1>4, RowAgainstTile
<1>7. q \in ThreadTiles(tiles, ith, nth) <=> t0 <= q /\ q < t1
  <2> HIDE DEF q, tiles, t0, t1
  <2> QED BY <1>1, <1>5 DEF ThreadTiles, t0, t1
<1>8. r \in SliceRows(ApackSlice(m, mr, ith, nth)) <=> t0 * mr <= r /\ r < t1 * mr
  <2>1. CASE t0 >= t1
    <3>1. ApackSlice(m, mr, ith, nth) = [i0 |-> 0, rows |-> 0]
      BY <2>1 DEF ApackSlice
    <3>2. SliceRows(ApackSlice(m, mr, ith, nth)) = {}
      BY <3>1 DEF SliceRows
    <3>3. ~(t0 <= q /\ q < t1)
      BY <2>1, <1>3, <1>4, <1>5
    <3> QED BY <3>2, <3>3, <1>6
  <2>2. CASE t0 < t1
    <3>1. ApackSlice(m, mr, ith, nth)
            = [i0 |-> t0 * mr, rows |-> MinOf(t1 * mr, m) - t0 * mr]
      BY <2>2, <1>3, <1>4 DEF ApackSlice
    <3> DEFINE a == t0 * mr
               b == t1 * mr
    <3>2. a \in Nat /\ b \in Nat
      BY <1>3, <1>4
    <3>3. SliceRows(ApackSlice(m, mr, ith, nth)) = a .. a + (MinOf(b, m) - a) - 1
      BY <3>1 DEF SliceRows
    <3> HIDE DEF a, b
    <3>4. r \in a .. a + (MinOf(b, m) - a) - 1 <=> a <= r /\ r < b
      BY <3>2 DEF MinOf
    <3> QED BY <3>3, <3>4 DEF a, b
  <2> HIDE DEF t0, t1
  <2> QED BY <2>1, <2>2, <1>3, <1>4
<1> QED BY <1>6, <1>7, <1>8

\* Every row of the matrix is repacked by exactly one thread: the slices ppc_apack_slice
\* hands out cover the rows and do not overlap, for ragged heights, for more threads than
\* tiles and for no rows at all.
THEOREM EveryRowOnce ==
  ASSUME NEW m \in Nat, NEW mr \in Nat \ {0}, NEW nth \in Nat \ {0}, NEW r \in 0 .. m - 1
  PROVE  /\ \E ith \in 0 .. nth - 1 : r \in SliceRows(ApackSlice(m, mr, ith, nth))
         /\ \A i, j \in 0 .. nth - 1 :
               /\ r \in SliceRows(ApackSlice(m, mr, i, nth))
               /\ r \in SliceRows(ApackSlice(m, mr, j, nth))
               => i = j
<1> DEFINE tiles == TileCount(m, mr)
           q == r \div mr
<1>1. tiles \in Nat /\ m <= mr * tiles
  BY CeilBounds DEF TileCount
<1>2. q \in 0 .. tiles - 1
  <2>1. r < tiles * mr
    BY <1>1
  <2>2. q < tiles
    BY <2>1, <1>1, RowAgainstTile
  <2> QED BY <2>2, <1>1, DivBounds
<1>3. \A i \in 0 .. nth - 1 : r \in SliceRows(ApackSlice(m, mr, i, nth))
                               <=> q \in ThreadTiles(tiles, i, nth)
  BY RowsOfThread
<1> HIDE DEF tiles, q
<1> QED BY <1>1, <1>2, <1>3, EveryTileOnce
=============================================================================
