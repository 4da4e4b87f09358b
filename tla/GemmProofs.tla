----------------------------- MODULE GemmProofs -----------------------------
(***************************************************************************)
(* No element of the result is ever stored by two threads: for every       *)
(* driver, with the pack cache and without it, every shape, leading        *)
(* dimension and number of threads, as long as the cache gives all threads *)
(* of an operation the same answer (it does not always: MixedPaths).       *)
(*                                                                         *)
(* The argument: a thread that is in its loops divides C by rows or by     *)
(* columns, all threads by the same rule; what it stores has its row, or   *)
(* column, in a tile that Slices gives to it and to nobody else; and an    *)
(* address is that of one row and column only, since ldc is at least m.    *)
(***************************************************************************)
EXTENDS UncachedOp, SlicesProofs, FiniteSetTheorems

\* How a thread that stores at all divides the result.
Loops == {"percall", "rows", "gemv", "columns", "own"}

OwnerHeight(t) == IF path[t] = "own" THEN Height ELSE MR

\* Element i, j is in the share of thread t.
Owns(t, i, j) ==
    IF path[t] = "columns"
    THEN j \div NR \in ThreadTiles(TileCount(op.n, NR), t, op.nth)
    ELSE i \div OwnerHeight(t) \in ThreadTiles(TileCount(op.m, OwnerHeight(t)), t, op.nth)

OwnElement(t, a) ==
    \E i \in 0 .. op.m - 1, j \in 0 .. op.n - 1 : a = Address(i, j) /\ Owns(t, i, j)

OpOK ==
    /\ op.m \in Nat \ {0} /\ op.n \in Nat \ {0} /\ op.nth \in Nat \ {0}
    /\ op.ldc \in Nat /\ op.ldc >= op.m
    /\ op.kind = "pairs" => op.n = 1

PlacesOK ==
    /\ pc \in [Ith -> {"acquire", "fill", "filled", "await", "choose", "tiles", "repacked", "end",
                       "enter", "own"}]
    /\ path \in [Ith -> {"unknown", "cached"} \cup Loops]
    /\ tile \in [Ith -> Nat \X Nat]
    /\ DOMAIN writers = DOMAIN c

\* The path says where a thread can be.
PathOK(t) ==
    /\ pc[t] = "acquire" => path[t] = "unknown"
    /\ pc[t] \in {"fill", "filled", "await", "choose"} => path[t] = "cached"
    /\ pc[t] \in {"tiles", "repacked"} => path[t] \in Loops \ {"own"}
    /\ pc[t] \in {"enter", "own"} => path[t] = "own"
    /\ path[t] = "columns" => ~ByRows
    /\ path[t] \in {"rows", "gemv"} => ByRows

\* A thread in its loops is inside its share.
LoopOK(t) ==
    /\ pc[t] \in {"tiles", "repacked"} => /\ tile[t][1] \in MyRowTiles(t)
                                          /\ tile[t][2] \in ColTiles(MyCols(t))
    /\ pc[t] = "own" =>
          /\ op.kind # "gemv" => I0(t) <= tile[t][1] /\ tile[t][1] < I1(t)
          /\ op.kind \in {"tiles", "gemv"} => tile[t][2] < op.n

\* All threads divide by the same rule.
OneRule ==
    \A t, u \in Ith :
        /\ path[t] = "percall" => path[u] \in {"unknown", "percall"}
        /\ path[t] = "own" => path[u] = "own"

WritersOK ==
    \A a \in DOMAIN c : \A t \in writers[a] :
        t \in Ith /\ path[t] \in Loops /\ OwnElement(t, a)

IInv ==
    /\ OpOK /\ PlacesOK /\ OneRule /\ WritersOK
    /\ \A t \in Ith : PathOK(t) /\ LoopOK(t)

-----------------------------------------------------------------------------
(* Tiles, rows and addresses.                                               *)

\* An address is that of one row and one column.
LEMMA OneAddress ==
  ASSUME OpOK,
         NEW i \in 0 .. op.m - 1, NEW j \in 0 .. op.n - 1,
         NEW k \in 0 .. op.m - 1, NEW l \in 0 .. op.n - 1,
         Address(i, j) = Address(k, l)
  PROVE  i = k /\ j = l
<1> DEFINE ldc == op.ldc
           a == i + j * ldc
<1>1. ldc \in Nat /\ op.m <= ldc /\ op.m \in Nat /\ op.n \in Nat
  BY DEF OpOK
<1>2. i + j * ldc = k + l * ldc
  BY DEF Address
<1> HIDE DEF ldc
<1>3. j * ldc \in Nat /\ l * ldc \in Nat
  BY <1>1
<1>4. i < ldc /\ k < ldc /\ i \in Nat /\ k \in Nat /\ j \in Nat /\ l \in Nat
  BY <1>1
<1>5. a \in Int /\ j * ldc <= a /\ a < j * ldc + ldc
  BY <1>1, <1>3, <1>4
<1>6. l * ldc <= a /\ a < l * ldc + ldc
  BY <1>1, <1>2, <1>3, <1>4
<1>7. j = l
  <2> HIDE DEF a
  <2> QED BY <1>1, <1>4, <1>5, <1>6, SameMultiple
<1> QED BY <1>2, <1>3, <1>4, <1>7

\* A row in tile w of a matrix is below the last row, and in tile w only.
LEMMA RowOfTile ==
  ASSUME NEW m \in Nat \ {0}, NEW h \in Nat \ {0}, NEW w \in 0 .. TileCount(m, h) - 1,
         NEW r \in 0 .. MinOf(m - w * h, h) - 1
  PROVE  /\ w * h + r \in 0 .. m - 1
         /\ (w * h + r) \div h = w
<1>1. TileCount(m, h) \in Nat
  BY CeilBounds DEF TileCount
<1>2. w \in Nat /\ w * h \in Nat /\ (w + 1) * h = w * h + h
  BY <1>1
<1>3. r \in Nat /\ r < m - w * h /\ r < h
  BY <1>2 DEF MinOf
<1>4. w * h + r \in Nat /\ w * h + r < (w + 1) * h /\ w * h <= w * h + r
  BY <1>2, <1>3
<1>5. w + 1 \in Nat
  BY <1>2
<1> DEFINE x == w * h + r
<1>6. w <= x \div h /\ x \div h < w + 1
  <2>1. x \in Nat /\ x < (w + 1) * h /\ w * h <= x
    BY <1>4
  <2> HIDE DEF x
  <2>2. w <= x \div h
    BY <2>1, <1>2, RowAgainstTile
  <2>3. x \div h < w + 1
    BY <2>1, <1>5, RowAgainstTile
  <2> QED BY <2>2, <2>3
<1>7. x \div h \in Nat
  BY <1>4, DivBounds
<1> QED BY <1>2, <1>3, <1>6, <1>7

\* The tile of a row is one of the tiles.
LEMMA TileOfRow ==
  ASSUME NEW m \in Nat \ {0}, NEW h \in Nat \ {0}, NEW r \in 0 .. m - 1
  PROVE  r \div h \in 0 .. TileCount(m, h) - 1
<1>1. TileCount(m, h) \in Nat /\ m <= h * TileCount(m, h)
  BY CeilBounds DEF TileCount
<1>2. r \in Nat /\ r < TileCount(m, h) * h
  BY <1>1
<1>3. r \div h < TileCount(m, h)
  BY <1>1, <1>2, RowAgainstTile
<1> QED BY <1>1, <1>2, <1>3, DivBounds

\* Two owners of one element by the same rule are one thread.
LEMMA OneOwner ==
  ASSUME OpOK, NEW t \in Ith, NEW u \in Ith,
         (path[t] = "columns") = (path[u] = "columns"), OwnerHeight(t) = OwnerHeight(u),
         NEW i \in 0 .. op.m - 1, NEW j \in 0 .. op.n - 1,
         Owns(t, i, j), Owns(u, i, j)
  PROVE  t = u
<1>1. /\ op.m \in Nat \ {0} /\ op.n \in Nat \ {0} /\ op.nth \in Nat \ {0}
      /\ NR \in Nat \ {0} /\ MR \in Nat \ {0}
  BY GeometryAssumption DEF OpOK
<1>2. t \in 0 .. op.nth - 1 /\ u \in 0 .. op.nth - 1
  BY DEF Ith
<1>3. CASE path[t] = "columns"
  <2>1. /\ j \div NR \in ThreadTiles(TileCount(op.n, NR), t, op.nth)
        /\ j \div NR \in ThreadTiles(TileCount(op.n, NR), u, op.nth)
    BY <1>3 DEF Owns
  <2>2. j \div NR \in 0 .. TileCount(op.n, NR) - 1 /\ TileCount(op.n, NR) \in Nat
    BY <1>1, TileOfRow, CeilBounds DEF TileCount
  <2> QED BY <2>1, <2>2, <1>1, <1>2, EveryTileOnce
<1>4. CASE path[t] # "columns"
  <2> DEFINE h == OwnerHeight(t)
  <2>1. h \in Nat \ {0}
    BY <1>1 DEF OwnerHeight, Height
  <2>2. /\ i \div h \in ThreadTiles(TileCount(op.m, h), t, op.nth)
        /\ i \div h \in ThreadTiles(TileCount(op.m, h), u, op.nth)
    BY <1>4 DEF Owns
  <2> HIDE DEF h
  <2>3. i \div h \in 0 .. TileCount(op.m, h) - 1 /\ TileCount(op.m, h) \in Nat
    BY <1>1, <2>1, TileOfRow, CeilBounds DEF TileCount
  <2> QED BY <2>2, <2>3, <1>1, <1>2, EveryTileOnce
<1> QED BY <1>3, <1>4

\* The rows I0 .. I1 - 1 are those of the thread's tiles.
LEMMA OwnRows ==
  ASSUME OpOK, NEW t \in Ith, NEW i \in Int, I0(t) <= i, i < I1(t)
  PROVE  /\ i \in 0 .. op.m - 1
         /\ i \div Height \in ThreadTiles(TileCount(op.m, Height), t, op.nth)
<1> DEFINE h == Height
           tiles == TileCount(op.m, h)
           p == CeilDiv(tiles, op.nth)
           first == t * p
<1>1. op.m \in Nat \ {0} /\ op.nth \in Nat \ {0} /\ h \in Nat \ {0} /\ t \in 0 .. op.nth - 1
  BY GeometryAssumption DEF OpOK, Height, Ith
<1>2. I0(t) = first * h /\ I1(t) = MinOf(op.m, (first + p) * h)
  BY DEF I0, I1, FirstTile
<1> HIDE DEF h
<1>3. tiles \in Nat
  BY <1>1, CeilBounds DEF TileCount
<1>4. p \in Nat
  BY <1>1, <1>3, CeilBounds
<1> HIDE DEF p
<1>5. first \in Nat /\ first + p \in Nat
  BY <1>1, <1>4
<1> HIDE DEF first
<1>6. first * h \in Nat /\ (first + p) * h \in Nat
  BY <1>1, <1>5
<1>7. i \in Nat /\ i < op.m /\ first * h <= i /\ i < (first + p) * h
  BY <1>1, <1>2, <1>6 DEF MinOf
<1>8. first <= i \div h /\ i \div h < first + p
  BY <1>1, <1>5, <1>7, RowAgainstTile
<1>9. i \in 0 .. op.m - 1
  BY <1>1, <1>7
<1>10. i \div h \in 0 .. tiles - 1
  BY <1>1, <1>9, TileOfRow
<1>11. i \div h \in ThreadTiles(tiles, t, op.nth)
  BY <1>1, <1>3, <1>8, <1>10, TilesOfThread DEF first, p
<1> QED BY <1>9, <1>11 DEF h

\* How many tiles a thread has, and that they follow one another.
LEMMA SizeOfShare ==
  ASSUME NEW tiles \in Nat, NEW nth \in Nat \ {0}, NEW t \in 0 .. nth - 1
  PROVE  /\ Cardinality(ThreadTiles(tiles, t, nth)) \in Nat
         /\ \A k \in Nat : k < Cardinality(ThreadTiles(tiles, t, nth)) =>
                FirstTile(tiles, t, nth) + k \in ThreadTiles(tiles, t, nth)
<1> DEFINE first == FirstTile(tiles, t, nth)
           end == EndTile(tiles, t, nth)
<1>1. CeilDiv(tiles, nth) \in Nat
  BY CeilBounds
<1>2. first \in Nat
  BY <1>1 DEF FirstTile
<1>3. end \in Nat /\ end <= tiles
  BY <1>1, <1>2 DEF EndTile, MinOf
<1>4. ThreadTiles(tiles, t, nth) = {k \in 0 .. tiles - 1 : first <= k /\ k < end}
  BY DEF ThreadTiles
<1> HIDE DEF first, end
<1>5. ThreadTiles(tiles, t, nth) = first .. end - 1
  BY <1>2, <1>3, <1>4
<1>6. Cardinality(first .. end - 1) = IF first > end - 1 THEN 0 ELSE end - 1 - first + 1
  BY <1>2, <1>3, FS_Interval
<1> QED BY <1>2, <1>3, <1>5, <1>6 DEF first

\* The columns of a thread on the cached path lie in the tiles of its share.
LEMMA OwnColumns ==
  ASSUME OpOK, NEW t \in Ith, NEW ct \in ColTiles(ColCount(t)),
         NEW r \in 0 .. MinOf(ColCount(t) - ct * NR, NR) - 1
  PROVE  /\ ColStart(t) + ct * NR + r \in 0 .. op.n - 1
         /\ (ColStart(t) + ct * NR + r) \div NR \in ThreadTiles(TileCount(op.n, NR), t, op.nth)
<1> DEFINE tiles == TileCount(op.n, NR)
           first == FirstTile(tiles, t, op.nth)
           size == Cardinality(ThreadTiles(tiles, t, op.nth))
           cols == ColCount(t)
<1>1. op.n \in Nat \ {0} /\ op.nth \in Nat \ {0} /\ NR \in Nat \ {0} /\ t \in 0 .. op.nth - 1
  BY GeometryAssumption DEF OpOK, Ith
<1>2. tiles \in Nat
  BY <1>1, CeilBounds DEF TileCount
<1>3. first \in Nat
  <2> HIDE DEF tiles
  <2>1. CeilDiv(tiles, op.nth) \in Nat
    BY <1>1, <1>2, CeilBounds
  <2> QED BY <1>1, <2>1 DEF FirstTile
<1>4. size \in Nat /\ \A k \in Nat : k < size => first + k \in ThreadTiles(tiles, t, op.nth)
  BY <1>1, <1>2, SizeOfShare
<1>5. ColStart(t) = first * NR /\ cols = MinOf(op.n - first * NR, size * NR)
  BY DEF ColStart, ColCount
<1>6. ct \in 0 .. CeilDiv(cols, NR) - 1
  BY DEF ColTiles, TileCount
<1> HIDE DEF tiles, first, size, cols
<1>7. first * NR \in Nat /\ size * NR \in Nat
  BY <1>1, <1>3, <1>4
<1>8. cols \in Int /\ cols <= op.n - first * NR /\ cols <= size * NR
  BY <1>1, <1>5, <1>7 DEF MinOf
<1>9. ct \in Nat
  BY <1>6
<1>10. ct * NR \in Nat
  BY <1>1, <1>9
<1>11. r \in Nat /\ r < cols - ct * NR /\ r < NR
  BY <1>1, <1>8, <1>10 DEF MinOf, cols
<1>12. ct * NR < size * NR
  BY <1>7, <1>8, <1>10, <1>11
<1>13. ct < size
  <2>1. SUFFICES ASSUME size <= ct PROVE FALSE
    BY <1>4, <1>9
  <2>2. size * NR <= ct * NR
    BY <2>1, <1>1, <1>4, <1>9
  <2> QED BY <2>2, <1>7, <1>10, <1>12
<1>14. first + ct \in ThreadTiles(tiles, t, op.nth)
  BY <1>4, <1>9, <1>13
<1>15. (first + ct) * NR = first * NR + ct * NR /\ (first + ct + 1) * NR = first * NR + ct * NR + NR
  BY <1>1, <1>3, <1>9
<1> DEFINE j == first * NR + ct * NR + r
<1>16. j \in Nat /\ j < op.n
  BY <1>1, <1>7, <1>8, <1>10, <1>11
<1>17. (first + ct) * NR <= j /\ j < (first + ct + 1) * NR
  BY <1>7, <1>10, <1>11, <1>15, <1>1
<1> HIDE DEF j
<1>18. first + ct <= j \div NR /\ j \div NR < first + ct + 1
  <2>1. first + ct \in Nat /\ first + ct + 1 \in Nat
    BY <1>3, <1>9
  <2>2. first + ct <= j \div NR
    BY <2>1, <1>1, <1>16, <1>17, RowAgainstTile
  <2>3. j \div NR < first + ct + 1
    BY <2>1, <1>1, <1>16, <1>17, RowAgainstTile
  <2> QED BY <2>2, <2>3
<1>19. j \div NR = first + ct
  BY <1>1, <1>3, <1>9, <1>16, <1>18, DivBounds
<1> QED BY <1>1, <1>5, <1>14, <1>16, <1>19 DEF j, tiles

\* The rows of a share, as numbers.
LEMMA ShareBounds ==
  ASSUME OpOK, NEW t \in Ith
  PROVE  I0(t) \in Nat /\ I1(t) \in Nat /\ I1(t) <= op.m
<1> DEFINE h == Height
           tiles == TileCount(op.m, h)
           p == CeilDiv(tiles, op.nth)
           first == t * p
<1>1. op.m \in Nat \ {0} /\ op.nth \in Nat \ {0} /\ h \in Nat \ {0} /\ t \in 0 .. op.nth - 1
  BY GeometryAssumption DEF OpOK, Height, Ith
<1>2. I0(t) = first * h /\ I1(t) = MinOf(op.m, (first + p) * h)
  BY DEF I0, I1, FirstTile
<1> HIDE DEF h
<1>3. tiles \in Nat
  BY <1>1, CeilBounds DEF TileCount
<1> HIDE DEF tiles
<1>4. p \in Nat
  BY <1>1, <1>3, CeilBounds
<1> HIDE DEF p
<1>5. first \in Nat /\ first + p \in Nat
  BY <1>1, <1>4
<1> HIDE DEF first
<1>6. first * h \in Nat /\ (first + p) * h \in Nat
  BY <1>1, <1>5
<1> QED BY <1>1, <1>2, <1>6 DEF MinOf

\* The tile a thread starts at is the first of its tiles.
LEMMA FirstTileOfLoop ==
  ASSUME OpOK, NEW t \in Ith,
         NEW S, S = RowTiles \/ S = ThreadTiles(TileCount(op.m, MR), t, op.nth), S # {}
  PROVE  /\ S \subseteq Nat /\ (CHOOSE k \in S : \A l \in S : k <= l) \in S
         /\ \A f \in S : (CHOOSE k \in S : \A l \in S : k <= l) <= f
<1> DEFINE tiles == TileCount(op.m, MR)
           first == FirstTile(tiles, t, op.nth)
           end == EndTile(tiles, t, op.nth)
<1>1. op.m \in Nat \ {0} /\ op.nth \in Nat \ {0} /\ MR \in Nat \ {0} /\ t \in 0 .. op.nth - 1
  BY GeometryAssumption DEF OpOK, Ith
<1>2. tiles \in Nat
  BY <1>1, CeilBounds DEF TileCount
<1>3. S = RowTiles => S = {k \in 0 .. tiles - 1 : 0 <= k /\ k < tiles}
  BY <1>2 DEF RowTiles
<1>4. S # RowTiles => S = {k \in 0 .. tiles - 1 : first <= k /\ k < end}
  BY DEF ThreadTiles
<1> HIDE DEF tiles
<1>5. CeilDiv(tiles, op.nth) \in Nat
  BY <1>1, <1>2, CeilBounds
<1>6. first \in Nat
  BY <1>1, <1>5 DEF FirstTile
<1>7. end \in Int
  BY <1>2, <1>5, <1>6 DEF EndTile, MinOf
<1> HIDE DEF first, end
<1>8. \E f \in S : \A l \in S : f <= l
  <2>1. CASE S = RowTiles
    <3>1. 0 \in S /\ \A l \in S : 0 <= l
      BY <2>1, <1>2, <1>3
    <3> QED BY <3>1
  <2>2. CASE S # RowTiles
    <3>1. first \in S /\ \A l \in S : first <= l
      BY <2>2, <1>2, <1>4, <1>6, <1>7
    <3> QED BY <3>1
  <2> QED BY <2>1, <2>2
<1>9. S \subseteq Nat
  BY <1>3, <1>4, <1>2
<1> QED BY <1>8, <1>9

-----------------------------------------------------------------------------
(* What the steps of one thread leave alone.                                *)

Others(t) == \A u \in Ith \ {t} : pc'[u] = pc[u] /\ path'[u] = path[u] /\ tile'[u] = tile[u]

LEMMA OthersKeep ==
  ASSUME IInv, NEW t \in Ith, op' = op, Others(t),
         PlacesOK', PathOK(t)', LoopOK(t)', OneRule', WritersOK'
  PROVE  IInv'
<1>1. OpOK' /\ Ith' = Ith
  BY DEF IInv, OpOK, Ith
<1>2. ASSUME NEW u \in Ith, u # t
      PROVE  PathOK(u)' /\ LoopOK(u)'
  <2>1. pc'[u] = pc[u] /\ path'[u] = path[u] /\ tile'[u] = tile[u]
    BY <1>2 DEF Others
  <2>2. PathOK(u)'
    BY <1>2, <2>1 DEF IInv, PathOK, ByRows
  <2>3. MyRowTiles(u)' = MyRowTiles(u) /\ MyCols(u)' = MyCols(u)
    BY <2>1 DEF MyRowTiles, MyCols, RowTiles, ColCount, ColStart
  <2>4. I0(u)' = I0(u) /\ I1(u)' = I1(u)
    BY DEF I0, I1, Height, InTiles
  <2>5. LoopOK(u)'
    BY <1>2, <2>1, <2>3, <2>4 DEF IInv, LoopOK
  <2> QED BY <2>2, <2>5
<1> QED BY <1>1, <1>2 DEF IInv

\* Ownership is a matter of the operation and of the path.
LEMMA OwnsKept ==
  ASSUME op' = op, NEW t, path'[t] = path[t], NEW a, OwnElement(t, a)
  PROVE  OwnElement(t, a)'
<1>1. Height' = Height
  BY DEF Height, InTiles
<1>2. OwnerHeight(t)' = OwnerHeight(t)
  BY <1>1 DEF OwnerHeight
<1>3. \A i, j : Owns(t, i, j)' = Owns(t, i, j)
  BY <1>2 DEF Owns
<1>4. \A i, j : Address(i, j)' = Address(i, j)
  BY DEF Address
<1> QED BY <1>3, <1>4 DEF OwnElement

\* Before its loops a thread has stored nothing.
LEMMA WritersKept ==
  ASSUME IInv, NEW t \in Ith, op' = op, c' = c, writers' = writers,
         Others(t), path'[t] = path[t] \/ path[t] \notin Loops
  PROVE  WritersOK'
<1>1. SUFFICES ASSUME NEW a \in DOMAIN c, NEW u \in writers[a]
               PROVE  u \in Ith /\ path'[u] \in Loops /\ OwnElement(u, a)'
  BY DEF WritersOK, Ith
<1>2. u \in Ith /\ path[u] \in Loops /\ OwnElement(u, a)
  BY <1>1 DEF IInv, WritersOK
<1>3. path'[u] = path[u]
  BY <1>2 DEF Others
<1> QED BY <1>2, <1>3, OwnsKept

\* In its loops it stores elements of its share.
LEMMA WritersGrow ==
  ASSUME IInv, NEW t \in Ith, op' = op, path' = path, path[t] \in Loops,
         DOMAIN c' = DOMAIN c,
         \A a \in DOMAIN c : \A u \in writers'[a] :
            u \in writers[a] \/ (u = t /\ OwnElement(t, a))
  PROVE  WritersOK'
<1>1. SUFFICES ASSUME NEW a \in DOMAIN c, NEW u \in writers'[a]
               PROVE  u \in Ith /\ path'[u] \in Loops /\ OwnElement(u, a)'
  BY DEF WritersOK, Ith
<1>2. u \in Ith /\ path[u] \in Loops /\ OwnElement(u, a)
  BY <1>1 DEF IInv, WritersOK
<1> QED BY <1>2, OwnsKept

LEMMA RuleKept ==
  ASSUME IInv, op' = op, path' = path
  PROVE  OneRule'
BY DEF IInv, OneRule, Ith

-----------------------------------------------------------------------------
(* The drivers with the cache.                                              *)

\* Entering the loops, before anything is stored.
LEMMA StartsKeeps ==
  ASSUME IInv, NEW t \in Ith, path[t] \notin Loops,
         NEW p \in Loops \ {"own"}, NEW tiles, NEW cols,
         Starts(t, p, tiles, cols), UNCHANGED <<op, c, writers>>,
         p = "columns" => ~ByRows, p \in {"rows", "gemv"} => ByRows,
         tiles = IF p = "columns" THEN RowTiles ELSE ThreadTiles(TileCount(op.m, MR), t, op.nth),
         cols = IF p = "columns" THEN ColCount(t) ELSE op.n,
         cols > 0 => 0 \in ColTiles(cols),
         \A u \in Ith : path[u] # "own",
         p = "percall" => \A u \in Ith : path[u] \in {"unknown", "percall"},
         p # "percall" => \A u \in Ith : path[u] # "percall",
         cols \in Int
  PROVE  IInv'
<1>1. OpOK /\ PlacesOK
  BY DEF IInv
<1>2. path' = [path EXCEPT ![t] = p] /\ path'[t] = p
  BY <1>1 DEF Starts, PlacesOK
<1>3. \/ pc' = [pc EXCEPT ![t] = "end"] /\ tile' = tile
      \/ /\ tiles # {} /\ cols > 0
         /\ pc' = [pc EXCEPT ![t] = "tiles"]
         /\ tile' = [tile EXCEPT ![t] = <<CHOOSE k \in tiles : \A l \in tiles : k <= l, 0>>]
  BY DEF Starts
<1>4. tiles # {} => /\ tiles \subseteq Nat
                    /\ (CHOOSE k \in tiles : \A l \in tiles : k <= l) \in tiles
  BY <1>1, FirstTileOfLoop
<1> DEFINE start == CHOOSE k \in tiles : \A l \in tiles : k <= l
<1>5. tiles # {} => start \in tiles /\ start \in Nat
  BY <1>4
<1> HIDE DEF start
<1>6. \/ pc' = [pc EXCEPT ![t] = "end"] /\ tile' = tile
      \/ /\ tiles # {} /\ cols > 0
         /\ pc' = [pc EXCEPT ![t] = "tiles"] /\ tile' = [tile EXCEPT ![t] = <<start, 0>>]
  BY <1>3 DEF start
<1>7. PlacesOK'
  <2>1. pc' \in [Ith -> {"acquire", "fill", "filled", "await", "choose", "tiles", "repacked",
                         "end", "enter", "own"}]
    BY <1>1, <1>6 DEF PlacesOK
  <2>2. path' \in [Ith -> {"unknown", "cached"} \cup Loops]
    BY <1>1, <1>2 DEF PlacesOK
  <2>3. tile' \in [Ith -> Nat \X Nat]
    BY <1>1, <1>5, <1>6 DEF PlacesOK
  <2> QED BY <2>1, <2>2, <2>3, <1>1 DEF PlacesOK, Ith
<1>8. Others(t)
  BY <1>1, <1>2, <1>6 DEF Others, PlacesOK
<1>9. pc'[t] \in {"end", "tiles"}
  BY <1>1, <1>6 DEF PlacesOK
<1>10. PathOK(t)'
  <2>1. ByRows' = ByRows
    BY DEF ByRows
  <2> QED BY <1>2, <1>9, <2>1 DEF PathOK
<1>11. LoopOK(t)'
  <2>1. SUFFICES ASSUME pc'[t] = "tiles"
                 PROVE  tile'[t][1] \in MyRowTiles(t)' /\ tile'[t][2] \in ColTiles(MyCols(t))'
    BY <1>9 DEF LoopOK
  <2>2. tiles # {} /\ cols > 0 /\ tile'[t] = <<start, 0>>
    BY <2>1, <1>1, <1>6 DEF PlacesOK
  <2>3. MyRowTiles(t)' = tiles
    BY <1>2 DEF MyRowTiles, RowTiles
  <2>4. MyCols(t)' = cols
    BY <1>2 DEF MyCols, ColCount, ColStart
  <2>5. ColTiles(MyCols(t))' = ColTiles(cols)
    BY <2>4 DEF ColTiles
  <2> QED BY <2>2, <2>3, <2>5, <1>5
<1>12. OneRule'
  BY <1>1, <1>2, <1>8 DEF OneRule, Others, Ith, IInv, Loops
<1>13. WritersOK'
  BY <1>8, WritersKept
<1> QED BY <1>7, <1>8, <1>10, <1>11, <1>12, <1>13, OthersKeep

\* There is a column tile as soon as there is a column.
LEMMA SomeColumnTile ==
  ASSUME NEW n \in Int, n > 0
  PROVE  0 \in ColTiles(n)
<1>1. CeilDiv(n, NR) \in Nat /\ CeilDiv(n, NR) > 0
  BY CeilBounds, GeometryAssumption
<1> QED BY <1>1 DEF ColTiles, TileCount

LEMMA ColCountInt ==
  ASSUME OpOK, NEW t \in Ith
  PROVE  ColCount(t) \in Int
<1> DEFINE tiles == TileCount(op.n, NR)
<1>1. op.n \in Nat \ {0} /\ op.nth \in Nat \ {0} /\ NR \in Nat \ {0} /\ t \in 0 .. op.nth - 1
  BY GeometryAssumption DEF OpOK, Ith
<1>2. tiles \in Nat
  BY <1>1, CeilBounds DEF TileCount
<1> HIDE DEF tiles
<1>3. CeilDiv(tiles, op.nth) \in Nat
  BY <1>1, <1>2, CeilBounds
<1>4. FirstTile(tiles, t, op.nth) \in Nat
  BY <1>1, <1>3 DEF FirstTile
<1>5. Cardinality(ThreadTiles(tiles, t, op.nth)) \in Nat
  BY <1>1, <1>2, SizeOfShare
<1>6. FirstTile(tiles, t, op.nth) * NR \in Nat
      /\ Cardinality(ThreadTiles(tiles, t, op.nth)) * NR \in Nat
  BY <1>1, <1>4, <1>5
<1> QED BY <1>1, <1>6 DEF ColCount, ColStart, MinOf, tiles

LEMMA RefusedKeeps ==
  ASSUME IInv, ~RefusalsDiffer, NEW t \in Ith, Refused(t)
  PROVE  IInv'
<1>1. pc[t] = "acquire" /\ path[t] = "unknown"
  BY DEF Refused, IInv, PathOK
<1>2. \A u \in Ith : path[u] \in {"unknown", "percall"}
  BY DEF Refused
<1>3. Starts(t, "percall", ThreadTiles(TileCount(op.m, MR), t, op.nth), op.n)
      /\ UNCHANGED <<op, c, writers>>
  BY DEF Refused
<1>4. op.n \in Int /\ 0 \in ColTiles(op.n)
  BY SomeColumnTile DEF IInv, OpOK
<1>5. "percall" \in Loops \ {"own"} /\ path[t] \notin Loops
  BY <1>1 DEF Loops
<1> QED BY <1>2, <1>3, <1>4, <1>5, StartsKeeps

LEMMA ChooseKeeps ==
  ASSUME IInv, NEW t \in Ith, Choose(t)
  PROVE  IInv'
<1>1. pc[t] = "choose" /\ path[t] = "cached" /\ path[t] \notin Loops
  BY DEF Choose, IInv, PathOK, Loops
<1>2. \A u \in Ith : path[u] \notin {"percall", "own"}
  BY <1>1 DEF IInv, OneRule
<1>3. UNCHANGED <<op, c, writers>>
  BY DEF Choose
<1>4. op.n \in Int /\ 0 \in ColTiles(op.n) /\ ColCount(t) \in Int
  BY SomeColumnTile, ColCountInt DEF IInv, OpOK
<1>5. ColCount(t) > 0 => 0 \in ColTiles(ColCount(t))
  BY <1>4, SomeColumnTile
<1>6. CASE ByRows
  <2> DEFINE p == IF op.kind \in {"grid", "grid16"} /\ op.n = 1 THEN "gemv" ELSE "rows"
  <2>1. Starts(t, p, ThreadTiles(TileCount(op.m, MR), t, op.nth), op.n)
    BY <1>6 DEF Choose
  <2>2. p \in {"gemv", "rows"}
    OBVIOUS
  <2> HIDE DEF p
  <2>3. p \in Loops \ {"own"} /\ p # "columns" /\ p # "percall"
    BY <2>2 DEF Loops
  <2> QED BY <1>1, <1>2, <1>3, <1>4, <1>6, <2>1, <2>3, StartsKeeps
<1>7. CASE ~ByRows
  <2>1. Starts(t, "columns", RowTiles, ColCount(t))
    BY <1>7 DEF Choose
  <2>2. "columns" \in Loops \ {"own"}
    BY DEF Loops
  <2> QED BY <1>1, <1>2, <1>3, <1>4, <1>5, <1>7, <2>1, <2>2, StartsKeeps
<1> QED BY <1>6, <1>7

\* A step that only moves a thread to another place of the same path.
LEMMA MoveKeeps ==
  ASSUME IInv, NEW t \in Ith, UNCHANGED <<op, path, tile>>, NEW place,
         pc' = [pc EXCEPT ![t] = place],
         place \in {"acquire", "fill", "filled", "await", "choose", "tiles", "repacked", "end",
                   "enter", "own"},
         PathOK(t)', LoopOK(t)', WritersOK', DOMAIN writers' = DOMAIN c'
  PROVE  IInv'
<1>1. PlacesOK'
  BY DEF IInv, PlacesOK, Ith
<1>2. Others(t)
  BY DEF IInv, PlacesOK, Others
<1> QED BY <1>1, <1>2, RuleKept, OthersKeep

LEMMA AcquiredKeeps ==
  ASSUME IInv, ~RefusalsDiffer, NEW t \in Ith, Acquired(t)
  PROVE  IInv'
<1>1. pc[t] = "acquire" /\ path[t] = "unknown" /\ path[t] \notin Loops
  BY DEF Acquired, IInv, PathOK, Loops
<1>2. \A u \in Ith : path[u] \notin {"percall", "own"}
  BY <1>1 DEF Acquired, IInv, OneRule
<1>3. PICK place \in {"fill", "choose"} : pc' = [pc EXCEPT ![t] = place]
  BY DEF Acquired
<1>4. path' = [path EXCEPT ![t] = "cached"] /\ UNCHANGED <<op, tile, c, writers>>
  BY DEF Acquired
<1>5. PlacesOK'
  BY <1>3, <1>4 DEF IInv, PlacesOK, Ith
<1>6. Others(t) /\ pc'[t] = place /\ path'[t] = "cached"
  BY <1>3, <1>4 DEF IInv, PlacesOK, Others
<1>7. PathOK(t)' /\ LoopOK(t)'
  BY <1>6 DEF PathOK, LoopOK
<1>8. OneRule'
  BY <1>2, <1>4, <1>6 DEF OneRule, Others, Ith
<1>9. WritersOK'
  BY <1>1, <1>4, <1>6, WritersKept
<1> QED BY <1>4, <1>5, <1>6, <1>7, <1>8, <1>9, OthersKeep

LEMMA FillKeeps ==
  ASSUME IInv, NEW t \in Ith, Fill(t) \/ Filled(t) \/ Await(t)
  PROVE  IInv'
<1>1. UNCHANGED <<op, path, tile, c, writers>>
  BY DEF Fill, Filled, Await
<1>2. PICK place \in {"filled", "await", "choose"} : pc' = [pc EXCEPT ![t] = place]
  BY DEF Fill, Filled, Await
<1>3. path[t] = "cached"
  BY DEF Fill, Filled, Await, IInv, PathOK
<1>4. pc'[t] = place /\ path'[t] = "cached"
  BY <1>1, <1>2, <1>3 DEF IInv, PlacesOK
<1>5. PathOK(t)' /\ LoopOK(t)'
  BY <1>4 DEF PathOK, LoopOK
<1>6. Others(t)
  BY <1>1, <1>2 DEF IInv, PlacesOK, Others
<1>7. WritersOK' /\ DOMAIN writers' = DOMAIN c'
  BY <1>1, <1>6, WritersKept DEF IInv, PlacesOK
<1> QED BY <1>1, <1>2, <1>5, <1>7, MoveKeeps

LEMMA RepackKeeps ==
  ASSUME IInv, NEW t \in Ith, RepackOne(t)
  PROVE  IInv'
<1>1. UNCHANGED <<op, path, tile, c, writers>> /\ pc' = [pc EXCEPT ![t] = "repacked"]
  BY DEF RepackOne
<1>2. pc[t] = "tiles" /\ PathOK(t) /\ LoopOK(t)
  BY DEF RepackOne, IInv
<1>3. pc'[t] = "repacked"
  BY <1>1 DEF IInv, PlacesOK
<1>4. PathOK(t)'
  BY <1>1, <1>2, <1>3 DEF PathOK, ByRows
<1>5. MyRowTiles(t)' = MyRowTiles(t) /\ ColTiles(MyCols(t))' = ColTiles(MyCols(t))
  BY <1>1 DEF MyRowTiles, MyCols, RowTiles, ColTiles, ColCount, ColStart
<1>6. LoopOK(t)'
  BY <1>1, <1>2, <1>3, <1>5 DEF LoopOK
<1>7. Others(t)
  BY <1>1 DEF IInv, PlacesOK, Others
<1>8. WritersOK' /\ DOMAIN writers' = DOMAIN c'
  BY <1>1, <1>7, WritersKept DEF IInv, PlacesOK
<1> QED BY <1>1, <1>4, <1>6, <1>8, MoveKeeps

\* A register tile lies in the share of its thread.
LEMMA TileInShare ==
  ASSUME IInv, NEW t \in Ith, pc[t] \in {"tiles", "repacked"},
         NEW r \in RowsOf(tile[t][1]), NEW q \in ColsOf(t, tile[t][2])
  PROVE  OwnElement(t, Address(tile[t][1] * MR + r, MyCol0(t) + tile[t][2] * NR + q))
<1> DEFINE rt == tile[t][1]
           ct == tile[t][2]
           i == rt * MR + r
           j == MyCol0(t) + ct * NR + q
<1>1. OpOK /\ path[t] \in Loops \ {"own"} /\ rt \in MyRowTiles(t) /\ ct \in ColTiles(MyCols(t))
  BY DEF IInv, PathOK, LoopOK
<1>2. /\ op.m \in Nat \ {0} /\ op.n \in Nat \ {0} /\ op.nth \in Nat \ {0}
      /\ MR \in Nat \ {0} /\ NR \in Nat \ {0}
  BY <1>1, GeometryAssumption DEF OpOK
<1>3. rt \in 0 .. TileCount(op.m, MR) - 1
  BY <1>1 DEF MyRowTiles, RowTiles, ThreadTiles
<1>4. r \in 0 .. MinOf(op.m - rt * MR, MR) - 1 /\ q \in 0 .. MinOf(MyCols(t) - ct * NR, NR) - 1
  BY DEF RowsOf, ColsOf
<1> HIDE DEF rt, ct
<1>5. i \in 0 .. op.m - 1 /\ i \div MR = rt
  BY <1>2, <1>3, <1>4, RowOfTile
<1>6. CASE path[t] = "columns"
  <2>1. /\ ct \in ColTiles(ColCount(t)) /\ MyCol0(t) = ColStart(t)
        /\ q \in 0 .. MinOf(ColCount(t) - ct * NR, NR) - 1
    BY <1>1, <1>4, <1>6 DEF MyCols, MyCol0
  <2>2. j \in 0 .. op.n - 1 /\ j \div NR \in ThreadTiles(TileCount(op.n, NR), t, op.nth)
    BY <1>1, <2>1, OwnColumns
  <2>3. Owns(t, i, j)
    BY <1>6, <2>2 DEF Owns
  <2> QED BY <1>5, <2>2, <2>3 DEF OwnElement, rt, ct
<1>7. CASE path[t] # "columns"
  <2>1. /\ ct \in 0 .. TileCount(op.n, NR) - 1 /\ MyCol0(t) = 0
        /\ q \in 0 .. MinOf(op.n - ct * NR, NR) - 1
    BY <1>1, <1>4, <1>7 DEF MyCols, MyCol0, ColTiles
  <2>2. ct * NR + q \in 0 .. op.n - 1
    BY <1>2, <2>1, RowOfTile
  <2>3. ct * NR \in Int /\ q \in Int
    BY <1>2, <2>1
  <2>4. j = ct * NR + q
    BY <2>1, <2>3
  <2>5. Owns(t, i, j)
    BY <1>1, <1>5, <1>7 DEF Owns, OwnerHeight, MyRowTiles, Loops
  <2> QED BY <1>5, <2>2, <2>4, <2>5 DEF OwnElement, rt, ct
<1> QED BY <1>6, <1>7

LEMMA TileKeeps ==
  ASSUME IInv, NEW t \in Ith, Tile(t)
  PROVE  IInv'
<1> DEFINE rt == tile[t][1]
           ct == tile[t][2]
           hit(a) == {x \in RowsOf(rt) \X ColsOf(t, ct) :
                         Address(rt * MR + x[1], MyCol0(t) + ct * NR + x[2]) = a}
           next == NextTile(t, rt, ct)
<1>1. pc[t] \in {"tiles", "repacked"} /\ PathOK(t) /\ LoopOK(t) /\ OpOK /\ PlacesOK
  BY DEF Tile, IInv
<1>2. /\ UNCHANGED <<op, path>>
      /\ DOMAIN c' = DOMAIN c
      /\ writers' = [a \in DOMAIN c |-> IF hit(a) = {} THEN writers[a] ELSE writers[a] \cup {t}]
      /\ \/ next[1] \in MyRowTiles(t) /\ tile' = [tile EXCEPT ![t] = next] /\ pc' = [pc EXCEPT ![t] = "tiles"]
         \/ tile' = tile /\ pc' = [pc EXCEPT ![t] = "end"]
  BY DEF Tile
<1>3. path[t] \in Loops \ {"own"} /\ rt \in MyRowTiles(t) /\ ct \in ColTiles(MyCols(t))
  BY <1>1 DEF PathOK, LoopOK
<1>4. rt \in Nat /\ ct \in Nat
  BY <1>1 DEF PlacesOK
<1>5. /\ next[1] \in Nat /\ next[2] \in Nat /\ next = <<next[1], next[2]>>
      /\ next[2] \in ColTiles(MyCols(t))
  <2>1. MyCols(t) \in Int
    BY <1>1, ColCountInt DEF MyCols, OpOK
  <2>2. TileCount(MyCols(t), NR) \in Int
    BY <2>1, GeometryAssumption DEF TileCount, CeilDiv
  <2>3. 0 \in ColTiles(MyCols(t))
    BY <2>2, <1>3, <1>4 DEF ColTiles
  <2> QED BY <2>3, <1>4 DEF NextTile
<1>6. \A a \in DOMAIN c : \A u \in writers'[a] :
         u \in writers[a] \/ (u = t /\ OwnElement(t, a))
  <2>1. SUFFICES ASSUME NEW a \in DOMAIN c, hit(a) # {}
                 PROVE  OwnElement(t, a)
    BY <1>2
  <2>2. PICK x \in RowsOf(rt) \X ColsOf(t, ct) :
           Address(rt * MR + x[1], MyCol0(t) + ct * NR + x[2]) = a
    BY <2>1
  <2>3. x[1] \in RowsOf(rt) /\ x[2] \in ColsOf(t, ct)
    BY <2>2
  <2> QED BY <1>1, <2>2, <2>3, TileInShare
<1> HIDE DEF hit, next, rt, ct
<1>7. WritersOK'
  BY <1>2, <1>3, <1>6, WritersGrow
<1>8. PlacesOK'
  BY <1>1, <1>2, <1>5 DEF PlacesOK, Ith
<1>9. Others(t)
  BY <1>1, <1>2 DEF PlacesOK, Others
<1>10. PathOK(t)'
  <2>1. pc'[t] \in {"tiles", "end"}
    BY <1>1, <1>2 DEF PlacesOK
  <2> QED BY <2>1, <1>1, <1>2 DEF PathOK, ByRows
<1>11. LoopOK(t)'
  <2>1. MyRowTiles(t)' = MyRowTiles(t) /\ ColTiles(MyCols(t))' = ColTiles(MyCols(t))
    BY <1>2 DEF MyRowTiles, MyCols, RowTiles, ColTiles, ColCount, ColStart
  <2>2. \/ pc'[t] = "end"
        \/ pc'[t] = "tiles" /\ tile'[t] = next /\ next[1] \in MyRowTiles(t)
    BY <1>1, <1>2 DEF PlacesOK
  <2> QED BY <2>1, <2>2, <1>5 DEF LoopOK
<1> QED BY <1>2, <1>7, <1>8, <1>9, <1>10, <1>11, RuleKept, OthersKeep

-----------------------------------------------------------------------------
(* The drivers without the cache.                                           *)

\* What Store adds lies in the share when the rows do.
LEMMA StoreInShare ==
  ASSUME IInv, NEW t \in Ith, path[t] = "own", NEW f, Store(t, f),
         \A x \in DOMAIN f : /\ x[1] \in Int /\ I0(t) <= x[1] /\ x[1] < I1(t)
                             /\ x[2] \in 0 .. op.n - 1
  PROVE  /\ DOMAIN c' = DOMAIN c /\ DOMAIN writers' = DOMAIN c
         /\ \A a \in DOMAIN c : \A u \in writers'[a] :
               u \in writers[a] \/ (u = t /\ OwnElement(t, a))
<1> DEFINE hit(a) == {x \in DOMAIN f : Address(x[1], x[2]) = a}
<1>1. /\ DOMAIN c' = DOMAIN c
      /\ writers' = [a \in DOMAIN c |-> IF hit(a) = {} THEN writers[a] ELSE writers[a] \cup {t}]
  BY DEF Store
<1>2. SUFFICES ASSUME NEW a \in DOMAIN c, hit(a) # {}
               PROVE  OwnElement(t, a)
  BY <1>1
<1>3. PICK x \in DOMAIN f : Address(x[1], x[2]) = a
  BY <1>2
<1>4. OpOK
  BY DEF IInv
<1>5. /\ x[1] \in 0 .. op.m - 1
      /\ x[1] \div Height \in ThreadTiles(TileCount(op.m, Height), t, op.nth)
  BY <1>3, <1>4, OwnRows
<1>6. Owns(t, x[1], x[2])
  BY <1>5 DEF Owns, OwnerHeight
<1> QED BY <1>3, <1>5, <1>6 DEF OwnElement

\* One turn of a loop: a store in the share, or none, and the next place.
LEMMA TurnKeeps ==
  ASSUME IInv, NEW t \in Ith, pc[t] = "own", UNCHANGED <<op, path>>,
         NEW place \in {"own", "end"}, NEW x \in Nat, NEW y \in Nat,
         tile' = [tile EXCEPT ![t] = <<x, y>>], pc' = [pc EXCEPT ![t] = place],
         DOMAIN c' = DOMAIN c, DOMAIN writers' = DOMAIN c,
         \A a \in DOMAIN c : \A u \in writers'[a] :
            u \in writers[a] \/ (u = t /\ OwnElement(t, a)),
         place = "own" => /\ op.kind # "gemv" => I0(t) <= x /\ x < I1(t)
                          /\ op.kind \in {"tiles", "gemv"} => y < op.n
  PROVE  IInv'
<1>1. PathOK(t) /\ PlacesOK /\ path[t] = "own" /\ "own" \in Loops
  BY DEF IInv, PathOK, Loops
<1>2. /\ tile'[t] = <<x, y>> /\ pc'[t] = place
  BY <1>1 DEF PlacesOK
<1>3. PlacesOK'
  BY <1>1 DEF PlacesOK, Ith
<1>4. Others(t)
  BY <1>1 DEF PlacesOK, Others
<1>5. PathOK(t)'
  BY <1>1, <1>2 DEF PathOK
<1>6. I0(t)' = I0(t) /\ I1(t)' = I1(t)
  BY DEF I0, I1, Height, InTiles
<1>7. LoopOK(t)'
  <2>1. op' = op /\ tile'[t][1] = x /\ tile'[t][2] = y /\ pc'[t] \in {"own", "end"}
    BY <1>2
  <2>2. pc'[t] \notin {"tiles", "repacked"}
    BY <2>1
  <2>3. pc'[t] = "own" =>
          /\ op'.kind # "gemv" => I0(t)' <= tile'[t][1] /\ tile'[t][1] < I1(t)'
          /\ op'.kind \in {"tiles", "gemv"} => tile'[t][2] < op'.n
    BY <1>2, <1>6, <2>1
  <2> QED BY <2>2, <2>3 DEF LoopOK
<1>8. WritersOK'
  BY <1>1, WritersGrow
<1> QED BY <1>3, <1>4, <1>5, <1>7, <1>8, RuleKept, OthersKeep

LEMMA EnterKeeps ==
  ASSUME IInv, NEW t \in Ith, Enter(t)
  PROVE  IInv'
<1>1. PathOK(t) /\ PlacesOK /\ OpOK /\ path[t] = "own" /\ UNCHANGED <<op, path, c, writers>>
  BY DEF Enter, IInv, PathOK
<1>2. I0(t) \in Nat /\ I1(t) \in Nat
  BY <1>1, ShareBounds
<1>3. PICK x \in Nat \X Nat :
         /\ tile' = [tile EXCEPT ![t] = x]
         /\ pc' = [pc EXCEPT ![t] = IF I0(t) < I1(t) THEN "own" ELSE "end"]
         /\ (op.kind # "gemv" => x[1] = I0(t)) /\ x[2] = 0
  <2> DEFINE first == IF op.kind = "gemv" THEN <<0, 0>> ELSE <<I0(t), 0>>
  <2>1. /\ tile' = [tile EXCEPT ![t] = first]
        /\ pc' = [pc EXCEPT ![t] = IF I0(t) < I1(t) THEN "own" ELSE "end"]
    BY DEF Enter
  <2>2. first \in Nat \X Nat /\ (op.kind # "gemv" => first[1] = I0(t)) /\ first[2] = 0
    BY <1>2
  <2> HIDE DEF first
  <2> QED BY <2>1, <2>2
<1>4. tile'[t] = x /\ pc'[t] = (IF I0(t) < I1(t) THEN "own" ELSE "end")
  BY <1>1, <1>3 DEF PlacesOK
<1>5. PlacesOK'
  BY <1>1, <1>3 DEF PlacesOK, Ith
<1>6. Others(t)
  BY <1>1, <1>3 DEF PlacesOK, Others
<1>7. PathOK(t)'
  BY <1>1, <1>4 DEF PathOK
<1>8. I0(t)' = I0(t) /\ I1(t)' = I1(t) /\ op.n > 0
  BY <1>1 DEF I0, I1, Height, InTiles, OpOK
<1>9. LoopOK(t)'
  <2>1. /\ pc'[t] \in {"own", "end"} /\ (pc'[t] = "own" => I0(t) < I1(t))
        /\ tile'[t][2] = 0 /\ (op.kind # "gemv" => tile'[t][1] = I0(t))
    BY <1>3, <1>4
  <2>2. op' = op
    BY <1>1
  <2>3. pc'[t] \notin {"tiles", "repacked"}
    BY <2>1
  <2>4. op.n \in Nat /\ 0 < op.n
    BY <1>1 DEF OpOK
  <2>5. pc'[t] = "own" => /\ op'.kind # "gemv" => I0(t)' <= tile'[t][1] /\ tile'[t][1] < I1(t)'
                          /\ tile'[t][2] < op'.n
    BY <1>2, <1>8, <2>1, <2>2, <2>4
  <2> QED BY <2>3, <2>5 DEF LoopOK
<1>10. WritersOK'
  BY <1>1, <1>6, WritersKept
<1> QED BY <1>1, <1>5, <1>6, <1>7, <1>9, <1>10, RuleKept, OthersKeep

\* The facts about a thread in a loop of its own.
LEMMA InOwnLoop ==
  ASSUME IInv, NEW t \in Ith, pc[t] = "own"
  PROVE  /\ OpOK /\ op.n \in Nat /\ MR \in Nat \ {0} /\ NR \in Nat \ {0}
         /\ path[t] = "own" /\ I0(t) \in Nat /\ I1(t) \in Nat
         /\ tile[t][1] \in Nat /\ tile[t][2] \in Nat
         /\ op.kind # "gemv" => I0(t) <= tile[t][1] /\ tile[t][1] < I1(t)
         /\ op.kind \in {"tiles", "gemv"} => tile[t][2] < op.n
  BY ShareBounds, GeometryAssumption DEF IInv, PathOK, LoopOK, PlacesOK, OpOK

\* A store of rows of the share into columns of the matrix, and the next place.
LEMMA PieceKeeps ==
  ASSUME IInv, NEW t \in Ith, pc[t] = "own", UNCHANGED <<op, path>>,
         NEW rows \in SUBSET Int, NEW cols \in SUBSET (0 .. op.n - 1), NEW f,
         DOMAIN f = rows \X cols, Store(t, f),
         \A r \in rows : I0(t) <= r /\ r < I1(t),
         NEW more, NEW x \in Nat, NEW y \in Nat, GoOn(t, more, x, y),
         more => /\ op.kind # "gemv" => I0(t) <= x /\ x < I1(t)
                 /\ op.kind \in {"tiles", "gemv"} => y < op.n
  PROVE  IInv'
<1>1. path[t] = "own"
  BY InOwnLoop
<1>2. \A z \in DOMAIN f : /\ z[1] \in Int /\ I0(t) <= z[1] /\ z[1] < I1(t)
                          /\ z[2] \in 0 .. op.n - 1
  OBVIOUS
<1>3. /\ DOMAIN c' = DOMAIN c /\ DOMAIN writers' = DOMAIN c
      /\ \A a \in DOMAIN c : \A u \in writers'[a] :
            u \in writers[a] \/ (u = t /\ OwnElement(t, a))
  BY <1>1, <1>2, StoreInShare
<1>4. CASE more
  <2>1. tile' = [tile EXCEPT ![t] = <<x, y>>] /\ pc' = [pc EXCEPT ![t] = "own"]
    BY <1>4 DEF GoOn
  <2> QED BY <2>1, <1>3, <1>4, TurnKeeps
<1>5. CASE ~more
  <2>1. tile' = [tile EXCEPT ![t] = <<x, y>>] /\ pc' = [pc EXCEPT ![t] = "end"]
    BY <1>5 DEF GoOn
  <2> QED BY <2>1, <1>3, TurnKeeps
<1> QED BY <1>4, <1>5

\* The three kinds of pieces of the first designs.
LEMMA WholeTileKeeps ==
  ASSUME IInv, NEW t \in Ith, WholeTile(t)
  PROVE  IInv'
<1> DEFINE i == tile[t][1]
           j == tile[t][2]
           rows == i .. i + MR - 1
           cols == j .. j + NR - 1
           f == Products(rows, cols)
<1>1. pc[t] = "own" /\ op.kind = "tiles" /\ UNCHANGED <<op, path>>
  BY DEF WholeTile, Running
<1>2. /\ MR \in Nat \ {0} /\ NR \in Nat \ {0} /\ op.n \in Nat
      /\ I0(t) \in Nat /\ I1(t) \in Nat /\ i \in Nat /\ j \in Nat
      /\ I0(t) <= i /\ i < I1(t) /\ j < op.n
  BY <1>1, InOwnLoop
<1>3. /\ Store(t, f) /\ i + MR <= I1(t) /\ j + NR <= op.n
      /\ IF j + NR < op.n THEN GoOn(t, TRUE, i, j + NR) ELSE GoOn(t, i + MR < I1(t), i + MR, 0)
  BY DEF WholeTile
<1>4. DOMAIN f = rows \X cols
  BY DEF Products
<1> HIDE DEF i, j, f
<1>5. rows \in SUBSET Int /\ \A r \in rows : I0(t) <= r /\ r < I1(t)
  BY <1>2, <1>3
<1>6. cols \in SUBSET (0 .. op.n - 1)
  BY <1>2, <1>3
<1> HIDE DEF rows, cols
<1>7. CASE j + NR < op.n
  <2>1. j + NR \in Nat
    BY <1>2
  <2>2. GoOn(t, TRUE, i, j + NR)
    BY <1>3, <1>7
  <2> QED BY <2>1, <2>2, <1>1, <1>2, <1>3, <1>4, <1>5, <1>6, <1>7, PieceKeeps
<1>8. CASE ~(j + NR < op.n)
  <2> DEFINE more == i + MR < I1(t)
             x == i + MR
  <2>1. GoOn(t, more, x, 0) /\ x \in Nat /\ (more => I0(t) <= x /\ x < I1(t) /\ 0 < op.n)
    BY <1>2, <1>3, <1>8
  <2> HIDE DEF more, x
  <2> QED BY <2>1, <1>1, <1>3, <1>4, <1>5, <1>6, PieceKeeps
<1> QED BY <1>7, <1>8

LEMMA ColumnEdgeKeeps ==
  ASSUME IInv, NEW t \in Ith, ColumnEdge(t)
  PROVE  IInv'
<1> DEFINE i == tile[t][1]
           j == tile[t][2]
           rows == i .. i + MR - 1
           cols == {j}
           f == Products(rows, cols)
<1>1. pc[t] = "own" /\ op.kind = "tiles" /\ UNCHANGED <<op, path>>
  BY DEF ColumnEdge, Running
<1>2. /\ MR \in Nat \ {0} /\ op.n \in Nat
      /\ I0(t) \in Nat /\ I1(t) \in Nat /\ i \in Nat /\ j \in Nat
      /\ I0(t) <= i /\ i < I1(t) /\ j < op.n
  BY <1>1, InOwnLoop
<1>3. /\ Store(t, f) /\ i + MR <= I1(t)
      /\ IF j + 1 < op.n THEN GoOn(t, TRUE, i, j + 1) ELSE GoOn(t, i + MR < I1(t), i + MR, 0)
  BY DEF ColumnEdge
<1>4. DOMAIN f = rows \X cols
  BY DEF Products
<1> HIDE DEF i, j, f
<1>5. rows \in SUBSET Int /\ \A r \in rows : I0(t) <= r /\ r < I1(t)
  BY <1>2, <1>3
<1>6. cols \in SUBSET (0 .. op.n - 1)
  BY <1>2
<1> HIDE DEF rows, cols
<1>7. CASE j + 1 < op.n
  <2>1. j + 1 \in Nat
    BY <1>2
  <2>2. GoOn(t, TRUE, i, j + 1)
    BY <1>3, <1>7
  <2> QED BY <2>1, <2>2, <1>1, <1>2, <1>3, <1>4, <1>5, <1>6, <1>7, PieceKeeps
<1>8. CASE ~(j + 1 < op.n)
  <2> DEFINE more == i + MR < I1(t)
             x == i + MR
  <2>1. GoOn(t, more, x, 0) /\ x \in Nat /\ (more => I0(t) <= x /\ x < I1(t) /\ 0 < op.n)
    BY <1>2, <1>3, <1>8
  <2> HIDE DEF more, x
  <2> QED BY <2>1, <1>1, <1>3, <1>4, <1>5, <1>6, PieceKeeps
<1> QED BY <1>7, <1>8

LEMMA RowEdgeKeeps ==
  ASSUME IInv, NEW t \in Ith, RowEdge(t)
  PROVE  IInv'
<1> DEFINE i == tile[t][1]
           j == tile[t][2]
           rows == {i}
           cols == {j}
           f == Products(rows, cols)
<1>1. pc[t] = "own" /\ op.kind = "tiles" /\ UNCHANGED <<op, path>>
  BY DEF RowEdge, Running
<1>2. /\ op.n \in Nat
      /\ I0(t) \in Nat /\ I1(t) \in Nat /\ i \in Nat /\ j \in Nat
      /\ I0(t) <= i /\ i < I1(t) /\ j < op.n
  BY <1>1, InOwnLoop
<1>3. /\ Store(t, f)
      /\ IF j + 1 < op.n THEN GoOn(t, TRUE, i, j + 1) ELSE GoOn(t, i + 1 < I1(t), i + 1, 0)
  BY DEF RowEdge
<1>4. DOMAIN f = rows \X cols
  BY DEF Products
<1> HIDE DEF i, j, f
<1>5. rows \in SUBSET Int /\ \A r \in rows : I0(t) <= r /\ r < I1(t)
  BY <1>2
<1>6. cols \in SUBSET (0 .. op.n - 1)
  BY <1>2
<1> HIDE DEF rows, cols
<1>7. CASE j + 1 < op.n
  <2>1. j + 1 \in Nat
    BY <1>2
  <2>2. GoOn(t, TRUE, i, j + 1)
    BY <1>3, <1>7
  <2> QED BY <2>1, <2>2, <1>1, <1>2, <1>3, <1>4, <1>5, <1>6, <1>7, PieceKeeps
<1>8. CASE ~(j + 1 < op.n)
  <2> DEFINE more == i + 1 < I1(t)
             x == i + 1
  <2>1. GoOn(t, more, x, 0) /\ x \in Nat /\ (more => I0(t) <= x /\ x < I1(t) /\ 0 < op.n)
    BY <1>2, <1>3, <1>8
  <2> HIDE DEF more, x
  <2> QED BY <2>1, <1>1, <1>3, <1>4, <1>5, <1>6, PieceKeeps
<1> QED BY <1>7, <1>8

\* The designs that keep the accumulators over the slabs.
LEMMA SlabKeeps ==
  ASSUME IInv, NEW t \in Ith, Slab(t)
  PROVE  IInv'
<1> DEFINE i == tile[t][1]
           s == tile[t][2]
<1>1. /\ pc[t] = "own" /\ op.kind = "slabs" /\ UNCHANGED <<op, path, c, writers>>
      /\ GoOn(t, TRUE, i, s + 1)
  BY DEF Slab, Running
<1>2. /\ i \in Nat /\ s \in Nat /\ I0(t) <= i /\ i < I1(t)
  BY <1>1, InOwnLoop
<1> HIDE DEF i, s
<1>3. tile' = [tile EXCEPT ![t] = <<i, s + 1>>] /\ pc' = [pc EXCEPT ![t] = "own"]
  BY <1>1 DEF GoOn
<1>4. s + 1 \in Nat
  BY <1>2
<1>5. DOMAIN c' = DOMAIN c /\ DOMAIN writers' = DOMAIN c
  BY <1>1 DEF IInv, PlacesOK
<1>6. op.kind \notin {"tiles", "gemv"}
  BY <1>1
<1> QED BY <1>1, <1>2, <1>3, <1>4, <1>5, <1>6, TurnKeeps

LEMMA StoreSlabsKeeps ==
  ASSUME IInv, NEW t \in Ith, StoreSlabs(t)
  PROVE  IInv'
<1> DEFINE i == tile[t][1]
           rows == i .. MinOf(i + MR, I1(t)) - 1
           cols == 0 .. op.n - 1
           f == [z \in rows \X cols |-> own[t].fin[z[2] \div NR][<<z[1] - i, z[2] % NR>>]]
           more == i + MR < I1(t)
           x == i + MR
<1>1. pc[t] = "own" /\ op.kind = "slabs" /\ UNCHANGED <<op, path>>
  BY DEF StoreSlabs, Running
<1>2. /\ MR \in Nat \ {0} /\ I0(t) \in Nat /\ I1(t) \in Nat /\ i \in Nat
      /\ I0(t) <= i /\ i < I1(t)
  BY <1>1, InOwnLoop
<1>3. Store(t, f) /\ GoOn(t, more, x, 0)
  BY DEF StoreSlabs
<1>4. DOMAIN f = rows \X cols
  OBVIOUS
<1> HIDE DEF i, f
<1>5. rows \in SUBSET Int /\ \A r \in rows : I0(t) <= r /\ r < I1(t)
  BY <1>2 DEF MinOf
<1>6. x \in Nat /\ (more => I0(t) <= x /\ x < I1(t))
  BY <1>2
<1> HIDE DEF rows, more, x
<1>7. cols \in SUBSET (0 .. op.n - 1) /\ op.kind \notin {"tiles", "gemv"}
  BY <1>1
<1> HIDE DEF cols
<1> QED BY <1>1, <1>3, <1>4, <1>5, <1>6, <1>7, PieceKeeps

\* The two GEMVs.
LEMMA ColumnKeeps ==
  ASSUME IInv, NEW t \in Ith, Column(t)
  PROVE  IInv'
<1> DEFINE j == tile[t][2]
           rows == I0(t) .. I1(t) - 1
           cols == {j}
           f == Products(rows, cols)
           more == j + 1 < op.n
           y == j + 1
<1>1. pc[t] = "own" /\ op.kind = "gemv" /\ UNCHANGED <<op, path>>
  BY DEF Column, Running
<1>2. /\ op.n \in Nat /\ I0(t) \in Nat /\ I1(t) \in Nat /\ j \in Nat /\ j < op.n
  BY <1>1, InOwnLoop
<1>3. Store(t, f) /\ GoOn(t, more, 0, y)
  BY DEF Column
<1>4. DOMAIN f = rows \X cols
  BY DEF Products
<1> HIDE DEF j, f
<1>5. rows \in SUBSET Int /\ \A r \in rows : I0(t) <= r /\ r < I1(t)
  BY <1>2
<1>6. cols \in SUBSET (0 .. op.n - 1)
  BY <1>2
<1>7. y \in Nat /\ 0 \in Nat /\ (more => y < op.n)
  BY <1>2
<1> HIDE DEF rows, cols, more, y
<1> QED BY <1>1, <1>3, <1>4, <1>5, <1>6, <1>7, PieceKeeps

LEMMA PairKeeps ==
  ASSUME IInv, NEW t \in Ith, Pair(t)
  PROVE  IInv'
<1> DEFINE r == tile[t][1]
           xb == IF r + 1 < I1(t) THEN r + 1 ELSE r
           rows == {r, xb}
           cols == {0}
           f == Products(rows, cols)
           more == r + 2 < I1(t)
           x == r + 2
<1>1. pc[t] = "own" /\ op.kind = "pairs" /\ UNCHANGED <<op, path>>
  BY DEF Pair, Running
<1>2. /\ OpOK /\ I0(t) \in Nat /\ I1(t) \in Nat /\ r \in Nat /\ I0(t) <= r /\ r < I1(t)
  BY <1>1, InOwnLoop
<1>3. Store(t, f) /\ GoOn(t, more, x, 0)
  BY DEF Pair
<1>4. DOMAIN f = rows \X cols
  BY DEF Products
<1> HIDE DEF r, f
<1>5. rows \in SUBSET Int /\ \A z \in rows : I0(t) <= z /\ z < I1(t)
  BY <1>2
<1>6. cols \in SUBSET (0 .. op.n - 1)
  BY <1>1, <1>2 DEF OpOK
<1>7. x \in Nat /\ 0 \in Nat /\ (more => I0(t) <= x /\ x < I1(t))
  BY <1>2
<1>8. op.kind \notin {"tiles", "gemv"}
  BY <1>1
<1> HIDE DEF rows, cols, more, x
<1> QED BY <1>1, <1>3, <1>4, <1>5, <1>6, <1>7, <1>8, PieceKeeps

-----------------------------------------------------------------------------
(* The invariant and the theorem.                                           *)

LEMMA InitKeeps == AllInit => IInv
<1>1. ASSUME Init PROVE IInv
  <2>1. PICK s \in Shapes, nth \in Teams, kind \in Kinds :
           op = [m |-> s.m, n |-> s.n, kb |-> s.kb, ldc |-> s.ldc, nth |-> nth, kind |-> kind]
    BY <1>1 DEF Init
  <2>2. s \in [m : Nat \ {0}, n : Nat \ {0}, kb : Nat \ {0}, ldc : Nat] /\ s.ldc >= s.m
        /\ nth \in Nat \ {0} /\ kind # "pairs"
    BY GeometryAssumption
  <2>3. OpOK
    BY <2>1, <2>2 DEF OpOK
  <2>4. /\ pc = [t \in Ith |-> "acquire"] /\ path = [t \in Ith |-> "unknown"]
        /\ tile = [t \in Ith |-> <<0, 0>>]
        /\ DOMAIN writers = DOMAIN c /\ \A a \in DOMAIN c : writers[a] = {}
    BY <1>1 DEF Init
  <2>5. PlacesOK
    BY <2>4 DEF PlacesOK
  <2>6. OneRule /\ WritersOK
    BY <2>4 DEF OneRule, WritersOK
  <2>7. \A t \in Ith : PathOK(t) /\ LoopOK(t)
    BY <2>4 DEF PathOK, LoopOK
  <2> QED BY <2>3, <2>5, <2>6, <2>7 DEF IInv
<1>2. ASSUME OwnInit PROVE IInv
  <2>1. PICK s \in Shapes, nth \in Teams, kind \in OwnKinds :
           /\ kind = "pairs" => s.n = 1
           /\ op = [m |-> s.m, n |-> s.n, kb |-> s.kb, ldc |-> s.ldc, nth |-> nth, kind |-> kind]
    BY <1>2 DEF OwnInit
  <2>2. s \in [m : Nat \ {0}, n : Nat \ {0}, kb : Nat \ {0}, ldc : Nat] /\ s.ldc >= s.m
        /\ nth \in Nat \ {0}
    BY GeometryAssumption
  <2>3. OpOK
    BY <2>1, <2>2 DEF OpOK
  <2>4. /\ pc = [t \in Ith |-> "enter"] /\ path = [t \in Ith |-> "own"]
        /\ tile = [t \in Ith |-> <<0, 0>>]
        /\ DOMAIN writers = DOMAIN c /\ \A a \in DOMAIN c : writers[a] = {}
    BY <1>2 DEF OwnInit
  <2>5. PlacesOK
    BY <2>4 DEF PlacesOK, Loops
  <2>6. OneRule /\ WritersOK
    BY <2>4 DEF OneRule, WritersOK
  <2>7. \A t \in Ith : PathOK(t) /\ LoopOK(t)
    BY <2>4 DEF PathOK, LoopOK
  <2> QED BY <2>3, <2>5, <2>6, <2>7 DEF IInv
<1> QED BY <1>1, <1>2 DEF AllInit

LEMMA StutterKeeps ==
  ASSUME IInv, UNCHANGED <<op, pc, path, tile, c, writers>>
  PROVE  IInv'
<1>1. 0 \in Ith
  BY DEF IInv, OpOK, Ith
<1>2. PathOK(0) /\ LoopOK(0) /\ PlacesOK
  BY <1>1 DEF IInv
<1>3. PathOK(0)'
  BY <1>2 DEF PathOK, ByRows
<1>4. MyRowTiles(0)' = MyRowTiles(0) /\ ColTiles(MyCols(0))' = ColTiles(MyCols(0))
  BY DEF MyRowTiles, MyCols, RowTiles, ColTiles, ColCount, ColStart
<1>5. I0(0)' = I0(0) /\ I1(0)' = I1(0)
  BY DEF I0, I1, Height, InTiles
<1>6. LoopOK(0)'
  BY <1>2, <1>4, <1>5 DEF LoopOK
<1>7. Others(0)
  BY DEF Others
<1>8. PlacesOK'
  BY <1>2 DEF PlacesOK, Ith
<1> QED BY <1>1, <1>3, <1>6, <1>7, <1>8, WritersKept, RuleKept, OthersKeep

LEMMA StepKeeps ==
  ASSUME IInv, ~RefusalsDiffer, [AllNext]_ownvars
  PROVE  IInv'
<1>1. CASE UNCHANGED ownvars
  BY <1>1, StutterKeeps DEF ownvars, vars
<1>2. CASE Next
  <2>1. CASE UNCHANGED vars
    BY <2>1, StutterKeeps DEF vars
  <2>2. ASSUME NEW t \in Ith, ThreadStep(t)
        PROVE  IInv'
    BY <2>2, RefusedKeeps, AcquiredKeeps, FillKeeps, ChooseKeeps, RepackKeeps, TileKeeps
    DEF ThreadStep
  <2> QED BY <1>2, <2>1, <2>2 DEF Next
<1>3. ASSUME NEW t \in Ith, OwnStep(t)
      PROVE  IInv'
  BY <1>3, EnterKeeps, WholeTileKeeps, ColumnEdgeKeeps, RowEdgeKeeps, SlabKeeps,
     StoreSlabsKeeps, ColumnKeeps, PairKeeps DEF OwnStep
<1> QED BY <1>1, <1>2, <1>3 DEF AllNext

LEMMA IInvHolds ==
  ASSUME ~RefusalsDiffer
  PROVE  AllSpec => []IInv
<1>1. AllInit => IInv
  BY InitKeeps
<1>2. IInv /\ [AllNext]_ownvars => IInv'
  BY StepKeeps
<1> QED BY <1>1, <1>2, PTL DEF AllSpec

\* Threads that have stored at all divide the result by the same rule.
LEMMA SameRule ==
  ASSUME IInv, NEW t \in Ith, NEW u \in Ith, path[t] \in Loops, path[u] \in Loops
  PROVE  (path[t] = "columns") = (path[u] = "columns") /\ OwnerHeight(t) = OwnerHeight(u)
<1>1. /\ path[t] = "percall" => path[u] = "percall"
      /\ path[u] = "percall" => path[t] = "percall"
      /\ path[t] = "own" => path[u] = "own"
      /\ path[u] = "own" => path[t] = "own"
  BY DEF IInv, OneRule, Loops
<1>2. /\ path[t] = "columns" => ~ByRows
      /\ path[u] = "columns" => ~ByRows
      /\ path[t] \in {"rows", "gemv"} => ByRows
      /\ path[u] \in {"rows", "gemv"} => ByRows
  BY DEF IInv, PathOK
<1>3. path[t] = "columns" <=> path[u] = "columns"
  BY <1>1, <1>2 DEF Loops
<1>4. path[t] = "own" <=> path[u] = "own"
  BY <1>1
<1> QED BY <1>3, <1>4 DEF OwnerHeight

\* What the invariant is for: two threads that stored the same element are
\* the same thread.
LEMMA SameWriter ==
  ASSUME IInv, NEW a \in DOMAIN c, NEW t \in writers[a], NEW u \in writers[a]
  PROVE  t = u
<1>1. /\ t \in Ith /\ path[t] \in Loops /\ OwnElement(t, a)
      /\ u \in Ith /\ path[u] \in Loops /\ OwnElement(u, a)
  BY DEF IInv, WritersOK
<1>2. PICK i \in 0 .. op.m - 1, j \in 0 .. op.n - 1 : a = Address(i, j) /\ Owns(t, i, j)
  BY <1>1 DEF OwnElement
<1>3. PICK k \in 0 .. op.m - 1, l \in 0 .. op.n - 1 : a = Address(k, l) /\ Owns(u, k, l)
  BY <1>1 DEF OwnElement
<1>4. OpOK
  BY DEF IInv
<1>5. i = k /\ j = l
  <2>1. Address(i, j) = Address(k, l)
    BY <1>2, <1>3
  <2> QED BY <2>1, <1>4, OneAddress
<1>6. (path[t] = "columns") = (path[u] = "columns") /\ OwnerHeight(t) = OwnerHeight(u)
  BY <1>1, SameRule
<1> QED BY <1>1, <1>2, <1>3, <1>4, <1>5, <1>6, OneOwner

\* No element of the result is ever stored by two threads: the packed GEMMs, the GEMVs
\* and the earlier designs share C without a lock, whatever the shape, the leading
\* dimension and the number of threads, as long as the cache answers all threads of an
\* operation alike.
THEOREM EveryElementHasOneWriter ==
  ASSUME ~RefusalsDiffer
  PROVE  AllSpec => []OneWriter
<1>1. IInv => OneWriter
  <2>1. SUFFICES ASSUME IInv, NEW a \in DOMAIN c
                 PROVE  Cardinality(writers[a]) <= 1
    BY DEF OneWriter
  <2>2. CASE writers[a] = {}
    BY <2>2, FS_EmptySet
  <2>3. CASE writers[a] # {}
    <3>1. PICK t : t \in writers[a]
      BY <2>3
    <3>2. \A u \in writers[a] : u = t
      BY <2>1, <3>1, SameWriter
    <3>3. writers[a] = {t}
      BY <3>1, <3>2
    <3> QED BY <3>3, FS_Singleton
  <2> QED BY <2>2, <2>3
<1> QED BY <1>1, IInvHolds, PTL
=============================================================================
