-------------------------- MODULE GemmResultProofs --------------------------
(***************************************************************************)
(* What an operation leaves in C, for every driver, shape, leading         *)
(* dimension and number of threads: every value stored is the product of   *)
(* its row and its column, and none is missing at the end.  As in          *)
(* GemmProofs the cache gives all threads of an operation the same answer. *)
(*                                                                         *)
(* The argument has five layers, each an invariant that rests on those     *)
(* before it and on IInv:                                                  *)
(*   FillOK     the slot of the cache agrees with the places of the        *)
(*              threads; a slice is outstanding for each thread that owes  *)
(*              one, so a thread in its loops finds a whole pack or none;  *)
(*   MemoryOK   the designs that go slab by slab have the products of the  *)
(*              slabs so far in their accumulators;                        *)
(*   CoverOK    a thread has stored every element of its share that lies   *)
(*              before its place in its loops, hence, at the end of them,  *)
(*              its share;                                                 *)
(*   PackOK, PrivateOK   the cells of every thread that is through with    *)
(*              packing are those of a finished pack, and a private pack   *)
(*              is that of the row tile its thread is at;                  *)
(*   StoredOK   an element that was stored to holds its product.           *)
(***************************************************************************)
EXTENDS GemmProofs

-----------------------------------------------------------------------------
(* The slot of the cache and the places of the threads.                     *)

\* The threads of a parallel fill that have not counted down yet.
Owing == {t \in Ith : pc[t] \in {"acquire", "fill", "filled"}}

FillOK ==
    /\ fill \in {"none", "busy", "whole"}
    /\ \A t \in Ith : path[t] = "unknown" => pc[t] = "acquire"
    /\ fill = "none" => \A t \in Ith : path[t] \in {"unknown", "percall", "own"}
    /\ fill = "busy" => \A t \in Ith : pc[t] \in {"acquire", "fill", "filled", "await"}
    /\ fill = "whole" => \A t \in Ith : pc[t] \notin {"fill", "filled"}
    /\ pending = IF fill = "busy" /\ op.kind # "serial" THEN Cardinality(Owing) ELSE 0
    /\ fill = "busy" /\ op.kind # "serial" => Owing # {}
    /\ fill = "busy" /\ op.kind = "serial" =>
          \A t, u \in Ith : pc[t] \in {"fill", "filled"} /\ pc[u] \in {"fill", "filled"} => t = u

\* How many threads owe a slice.
LEMMA OwingCount ==
  ASSUME OpOK
  PROVE  /\ IsFiniteSet(Owing) /\ Cardinality(Owing) \in 0 .. op.nth
         /\ Cardinality(Owing) = 0 <=> Owing = {}
         /\ Owing = Ith => Cardinality(Owing) = op.nth
         /\ Ith # {}
<1>1. op.nth \in Nat \ {0}
  BY DEF OpOK
<1>2. IsFiniteSet(Ith) /\ Cardinality(Ith) = op.nth /\ 0 \in Ith
  <2> DEFINE k == op.nth
  <2>1. k \in Nat \ {0} /\ Ith = 0 .. k - 1
    BY <1>1 DEF Ith
  <2> HIDE DEF k
  <2>2. IsFiniteSet(0 .. k - 1) /\ Cardinality(0 .. k - 1) = IF 0 > k - 1 THEN 0 ELSE k - 1 - 0 + 1
    BY <2>1, FS_Interval
  <2> QED BY <2>1, <2>2 DEF k
<1>3. Owing \subseteq Ith
  BY DEF Owing
<1>4. IsFiniteSet(Owing) /\ Cardinality(Owing) \in Nat /\ Cardinality(Owing) <= Cardinality(Ith)
  BY <1>2, <1>3, FS_Subset, FS_CardinalityType
<1>5. Cardinality(Owing) = 0 <=> Owing = {}
  BY <1>4, FS_EmptySet
<1> QED BY <1>1, <1>2, <1>4, <1>5

\* A step of thread t that leaves the slot alone.
LEMMA FillKept ==
  ASSUME FillOK, NEW t \in Ith, UNCHANGED <<op, fill, pending>>, Others(t),
         path'[t] # "unknown",
         fill = "none" => path'[t] \in {"percall", "own"},
         fill = "busy" => /\ pc'[t] \in {"acquire", "fill", "filled", "await"}
                          /\ pc'[t] \in {"fill", "filled"} <=> pc[t] \in {"fill", "filled"}
                          /\ pc'[t] \in {"acquire", "fill", "filled"}
                                <=> pc[t] \in {"acquire", "fill", "filled"},
         fill = "whole" => pc'[t] \notin {"fill", "filled"}
  PROVE  FillOK'
<1>1. Ith' = Ith
  BY DEF Ith
<1>2. \A u \in Ith : u = t \/ (pc'[u] = pc[u] /\ path'[u] = path[u])
  BY DEF Others
<1>3. fill = "busy" => Owing' = Owing
  BY <1>1, <1>2 DEF Owing
<1>4. fill' = fill /\ pending' = pending /\ op'.kind = op.kind
  OBVIOUS
<1>5. fill' = "busy" /\ op'.kind = "serial" =>
         \A v, u \in Ith : pc'[v] \in {"fill", "filled"} /\ pc'[u] \in {"fill", "filled"} => v = u
  BY <1>2 DEF FillOK
<1>6. /\ \A u \in Ith : path'[u] = "unknown" => pc'[u] = "acquire"
      /\ fill' = "none" => \A u \in Ith : path'[u] \in {"unknown", "percall", "own"}
      /\ fill' = "busy" => \A u \in Ith : pc'[u] \in {"acquire", "fill", "filled", "await"}
      /\ fill' = "whole" => \A u \in Ith : pc'[u] \notin {"fill", "filled"}
  BY <1>2 DEF FillOK
<1>7. /\ pending' = IF fill' = "busy" /\ op'.kind # "serial" THEN Cardinality(Owing') ELSE 0
      /\ fill' = "busy" /\ op'.kind # "serial" => Owing' # {}
  BY <1>3 DEF FillOK
<1> QED BY <1>1, <1>4, <1>5, <1>6, <1>7 DEF FillOK

LEMMA OwnFillKept ==
  ASSUME FillOK, UNCHANGED <<op, fill, pending, pc, path>>
  PROVE  FillOK'
BY DEF FillOK, Owing, Ith

\* Joining the operation: the first thread of a parallel fill finds that all owe a slice.
LEMMA FillAcquired ==
  ASSUME IInv, FillOK, ~RefusalsDiffer, NEW t \in Ith, Acquired(t)
  PROVE  FillOK'
<1>1. /\ pc[t] = "acquire" /\ UNCHANGED <<op, tile>> /\ Ith' = Ith /\ op.nth \in Nat \ {0}
      /\ path' = [path EXCEPT ![t] = "cached"] /\ \A u \in Ith : path[u] # "percall"
  BY DEF Acquired, Ith, IInv, OpOK
<1>2. PlacesOK /\ OpOK
  BY DEF IInv
<1>3. \A u \in Ith : path'[u] = IF u = t THEN "cached" ELSE path[u]
  BY <1>1, <1>2 DEF PlacesOK
<1>4. CASE fill = "none"
  <2>1. /\ fill' = "busy" /\ pc' = [pc EXCEPT ![t] = "fill"]
        /\ pending' = IF op.kind = "serial" THEN 0 ELSE op.nth
    BY <1>4 DEF Acquired
  <2>2. \A u \in Ith : pc[u] = "acquire"
    <3>1. path[t] = "unknown"
      BY <1>1 DEF IInv, PathOK
    <3>2. \A u \in Ith : path[u] = "unknown"
      BY <3>1, <1>1, <1>4 DEF FillOK, IInv, OneRule
    <3> QED BY <3>2 DEF FillOK
  <2>3. \A u \in Ith : pc'[u] = IF u = t THEN "fill" ELSE "acquire"
    BY <2>1, <2>2, <1>2 DEF PlacesOK
  <2>4. Owing' = Ith'
    BY <2>3, <1>1 DEF Owing
  <2>5. OpOK'
    BY <1>1, <1>2 DEF OpOK
  <2>6. (OpOK => (Owing = Ith => Cardinality(Owing) = op.nth) /\ Ith # {})'
    BY OwingCount, PTL
  <2>7. Cardinality(Owing') = op.nth /\ Owing' # {}
    BY <2>4, <2>5, <2>6, <1>1
  <2> QED BY <1>1, <1>3, <2>1, <2>3, <2>7 DEF FillOK
<1>5. CASE fill # "none"
  <2>1. /\ fill' = fill /\ pending' = pending
        /\ \/ fill = "busy" /\ op.kind # "serial" /\ pc' = [pc EXCEPT ![t] = "fill"]
           \/ fill = "whole" /\ pc' = [pc EXCEPT ![t] = "choose"]
    BY <1>5 DEF Acquired
  <2>2. \/ fill = "busy" /\ op.kind # "serial" /\ \A u \in Ith : pc'[u] = IF u = t THEN "fill" ELSE pc[u]
        \/ fill = "whole" /\ \A u \in Ith : pc'[u] = IF u = t THEN "choose" ELSE pc[u]
    BY <2>1, <1>2 DEF PlacesOK
  <2>3. fill = "busy" => Owing' = Owing
    BY <2>2, <1>1 DEF Owing
  <2>4. /\ fill' \in {"none", "busy", "whole"}
        /\ \A u \in Ith : path'[u] = "unknown" => pc'[u] = "acquire"
        /\ fill' = "busy" => \A u \in Ith : pc'[u] \in {"acquire", "fill", "filled", "await"}
        /\ fill' = "whole" => \A u \in Ith : pc'[u] \notin {"fill", "filled"}
        /\ pending' = IF fill' = "busy" /\ op'.kind # "serial" THEN Cardinality(Owing') ELSE 0
        /\ fill' = "busy" /\ op'.kind # "serial" => Owing' # {}
        /\ fill' # "none" /\ ~(fill' = "busy" /\ op'.kind = "serial")
    BY <1>1, <1>3, <1>5, <2>1, <2>2, <2>3 DEF FillOK
  <2> QED BY <1>1, <2>4 DEF FillOK
<1> QED BY <1>4, <1>5

\* Counting down: the pack is whole when nobody owes a slice any more.
LEMMA FillFilled ==
  ASSUME IInv, FillOK, NEW t \in Ith, Filled(t)
  PROVE  FillOK'
<1>1. /\ pc[t] = "filled" /\ path[t] = "cached" /\ UNCHANGED <<op, path>> /\ Ith' = Ith
      /\ pc' = [pc EXCEPT ![t] = "await"] /\ OpOK /\ PlacesOK
  BY DEF Filled, Ith, IInv, PathOK
<1>2. \A u \in Ith : pc'[u] = IF u = t THEN "await" ELSE pc[u]
  BY <1>1 DEF PlacesOK
<1>3. /\ pending' = (IF op.kind = "serial" THEN 0 ELSE pending - 1)
      /\ fill' = (IF pending' = 0 THEN "whole" ELSE "busy")
  BY DEF Filled
<1>4. fill = "busy"
  BY <1>1 DEF FillOK
<1>5. \A u \in Ith : path'[u] = "unknown" => pc'[u] = "acquire"
  BY <1>1, <1>2 DEF FillOK
<1>6. CASE op.kind = "serial"
  <2>1. pending' = 0 /\ fill' = "whole"
    BY <1>3, <1>6
  <2>2. \A u \in Ith : pc'[u] \notin {"fill", "filled"}
    BY <1>1, <1>2, <1>4, <1>6 DEF FillOK
  <2> QED BY <1>1, <1>5, <2>1, <2>2 DEF FillOK
<1>7. CASE op.kind # "serial"
  <2>1. Owing' = Owing \ {t} /\ t \in Owing
    BY <1>1, <1>2 DEF Owing
  <2>2. IsFiniteSet(Owing) /\ Cardinality(Owing) \in Nat /\ pending = Cardinality(Owing)
    BY <1>1, <1>4, <1>7, OwingCount DEF FillOK
  <2>3. IsFiniteSet(Owing') /\ Cardinality(Owing') = Cardinality(Owing) - 1
    BY <2>1, <2>2, FS_RemoveElement
  <2>4. Cardinality(Owing') \in Nat
    BY <2>3, FS_CardinalityType
  <2>5. Cardinality(Owing') = 0 <=> Owing' = {}
    BY <2>3, FS_EmptySet
  <2>6. pending' = Cardinality(Owing')
    BY <1>3, <1>7, <2>2, <2>3
  <2>7. \A u \in Ith : pc'[u] \in {"acquire", "fill", "filled", "await"}
    BY <1>2, <1>4 DEF FillOK
  <2>8. CASE Owing' = {}
    <3>1. \A u \in Ith : pc'[u] \notin {"acquire", "fill", "filled"}
      BY <2>8, <1>1 DEF Owing
    <3>2. fill' = "whole" /\ pending' = 0
      BY <1>3, <2>5, <2>6, <2>8
    <3> QED BY <1>1, <1>5, <3>1, <3>2 DEF FillOK
  <2>9. CASE Owing' # {}
    <3>1. fill' = "busy"
      BY <1>3, <2>5, <2>6, <2>9
    <3> QED BY <1>1, <1>5, <1>7, <2>6, <2>7, <2>9, <3>1 DEF FillOK
  <2> QED BY <2>8, <2>9
<1> QED BY <1>6, <1>7

\* The other steps of the drivers with the cache.
LEMMA FillByCached ==
  ASSUME IInv, FillOK, ~RefusalsDiffer, NEW t \in Ith, ThreadStep(t)
  PROVE  FillOK'
<1>1. PathOK(t) /\ PlacesOK
  BY DEF IInv
<1>2. CASE Refused(t)
  <2>1. UNCHANGED <<op, fill, pending>> /\ fill = "none"
        /\ path' = [path EXCEPT ![t] = "percall"]
    BY <1>2 DEF Refused, Starts
  <2>2. PICK place : pc' = [pc EXCEPT ![t] = place]
    BY <1>2 DEF Refused, Starts
  <2>3. tile' = tile \/ \E x : tile' = [tile EXCEPT ![t] = x]
    BY <1>2 DEF Refused, Starts
  <2>4. Others(t) /\ path'[t] = "percall"
    BY <1>1, <2>1, <2>2, <2>3 DEF Others, PlacesOK
  <2> QED BY <2>1, <2>4, FillKept
<1>3. CASE Acquired(t)
  BY <1>3, FillAcquired
<1>4. CASE Fill(t)
  <2>1. UNCHANGED <<op, fill, pending, path, tile>> /\ pc' = [pc EXCEPT ![t] = "filled"] /\ pc[t] = "fill"
    BY <1>4 DEF Fill
  <2>2. Others(t) /\ pc'[t] = "filled" /\ path'[t] = "cached"
    BY <1>1, <2>1 DEF Others, PlacesOK, PathOK
  <2>3. fill = "busy"
    BY <1>1, <2>1 DEF FillOK, PathOK
  <2> QED BY <2>1, <2>2, <2>3, FillKept
<1>5. CASE Filled(t)
  BY <1>5, FillFilled
<1>6. CASE Await(t)
  <2>1. UNCHANGED <<op, fill, pending, path, tile>> /\ pc' = [pc EXCEPT ![t] = "choose"]
        /\ pc[t] = "await" /\ fill = "whole"
    BY <1>6 DEF Await
  <2>2. Others(t) /\ pc'[t] = "choose" /\ path'[t] = "cached"
    BY <1>1, <2>1 DEF Others, PlacesOK, PathOK
  <2> QED BY <2>1, <2>2, FillKept
<1>7. CASE Choose(t)
  <2>1. UNCHANGED <<op, fill, pending>> /\ pc[t] = "choose" /\ path[t] = "cached"
    BY <1>1, <1>7 DEF Choose, PathOK
  <2>2. PICK p \in {"gemv", "rows", "columns"} : path' = [path EXCEPT ![t] = p]
    BY <1>7 DEF Choose, Starts
  <2>3. PICK place \in {"end", "tiles"} : pc' = [pc EXCEPT ![t] = place]
    BY <1>7 DEF Choose, Starts
  <2>4. tile' = tile \/ \E x : tile' = [tile EXCEPT ![t] = x]
    BY <1>7 DEF Choose, Starts
  <2>5. Others(t) /\ path'[t] = p /\ pc'[t] = place
    BY <1>1, <2>2, <2>3, <2>4 DEF Others, PlacesOK
  <2>6. fill = "whole"
    BY <2>1 DEF FillOK
  <2> QED BY <2>1, <2>2, <2>3, <2>5, <2>6, FillKept
<1>8. CASE RepackOne(t) \/ Tile(t)
  <2>1. UNCHANGED <<op, fill, pending, path>> /\ pc[t] \in {"tiles", "repacked"}
    BY <1>8 DEF RepackOne, Tile
  <2>2. PICK place \in {"repacked", "end", "tiles"} : pc' = [pc EXCEPT ![t] = place]
    BY <1>8 DEF RepackOne, Tile
  <2>3. tile' = tile \/ \E x : tile' = [tile EXCEPT ![t] = x]
    BY <1>8 DEF RepackOne, Tile
  <2>4. Others(t) /\ path'[t] = path[t] /\ pc'[t] = place
    BY <1>1, <2>1, <2>2, <2>3 DEF Others, PlacesOK
  <2>5. path[t] \in Loops \ {"own"} /\ fill # "busy"
    BY <1>1, <2>1 DEF PathOK, FillOK
  <2> QED BY <2>1, <2>2, <2>4, <2>5, FillKept DEF Loops, FillOK
<1> QED BY <1>2, <1>3, <1>4, <1>5, <1>6, <1>7, <1>8 DEF ThreadStep

\* What every step of a driver without the cache does to the threads.
LEMMA OwnMoves ==
  ASSUME IInv, NEW t \in Ith, OwnStep(t)
  PROVE  /\ UNCHANGED <<op, pa, fill, pending, path, pt>> /\ Others(t)
         /\ pc[t] \in {"enter", "own"} /\ pc'[t] \in {"own", "end"} /\ path[t] = "own"
<1>1. PlacesOK /\ PathOK(t)
  BY DEF IInv
<1>2. /\ UNCHANGED <<op, pa, fill, pending, path, pt>> /\ pc[t] \in {"enter", "own"}
      /\ (\E place \in {"own", "end"} : pc' = [pc EXCEPT ![t] = place])
      /\ \E x : tile' = [tile EXCEPT ![t] = x]
  <2>1. CASE Enter(t)
    BY <2>1 DEF Enter
  <2>2. CASE WholeTile(t) \/ ColumnEdge(t) \/ RowEdge(t)
    BY <2>2 DEF WholeTile, ColumnEdge, RowEdge, Running, GoOn
  <2>3. CASE Slab(t) \/ StoreSlabs(t)
    BY <2>3 DEF Slab, StoreSlabs, Running, GoOn
  <2>4. CASE Column(t) \/ Pair(t)
    BY <2>4 DEF Column, Pair, Running, GoOn
  <2> QED BY <2>1, <2>2, <2>3, <2>4 DEF OwnStep
<1> QED BY <1>1, <1>2 DEF Others, PlacesOK, PathOK

\* Every step, of either sort of driver, keeps the slot and the places together.
LEMMA FillStep ==
  ASSUME IInv, FillOK, ~RefusalsDiffer, [AllNext]_ownvars
  PROVE  FillOK'
<1>1. CASE UNCHANGED ownvars
  BY <1>1, OwnFillKept DEF ownvars, vars
<1>2. CASE Next
  BY <1>2, FillByCached, OwnFillKept DEF Next, vars
<1>3. ASSUME NEW t \in Ith, OwnStep(t)
      PROVE  FillOK'
  <2>1. fill # "busy"
    BY <1>3, OwnMoves DEF FillOK
  <2> QED BY <1>3, <2>1, OwnMoves, FillKept
<1> QED BY <1>1, <1>2, <1>3 DEF AllNext

LEMMA FillInit == AllInit => FillOK
<1>1. Init => FillOK
  BY DEF Init, FillOK
<1>2. OwnInit => FillOK
  BY DEF OwnInit, FillOK
<1> QED BY <1>1, <1>2 DEF AllInit

LEMMA FillHolds ==
  ASSUME ~RefusalsDiffer
  PROVE  AllSpec => []FillOK
<1>1. AllInit => FillOK
  BY FillInit
<1>2. IInv /\ FillOK /\ [AllNext]_ownvars => FillOK'
  BY FillStep
<1> QED BY <1>1, <1>2, IInvHolds, PTL DEF AllSpec

\* Every variable stays in its place, whatever the driver, the shape and the team: the
\* pack is busy exactly while slices of its fill are outstanding, `pending' never exceeds
\* the team nor falls below zero, and no thread runs a tile outside its share or the matrix.
THEOREM PlacesHold ==
  ASSUME ~RefusalsDiffer
  PROVE  AllSpec => []TypeOK
<1>1. IInv /\ FillOK => TypeOK
  <2>1. SUFFICES ASSUME IInv, FillOK PROVE TypeOK
    OBVIOUS
  <2>2. Cardinality(Owing) \in 0 .. op.nth /\ (Cardinality(Owing) = 0 <=> Owing = {})
        /\ op.nth \in Nat
    BY <2>1, OwingCount DEF IInv, OpOK
  <2>3. pending \in 0 .. op.nth
    BY <2>1, <2>2 DEF FillOK
  <2>4. op.kind # "serial" => (fill = "busy") = (pending > 0)
    BY <2>1, <2>2 DEF FillOK
  <2>5. ASSUME NEW t \in Ith
        PROVE  /\ path[t] \in {"unknown", "cached", "percall", "rows", "columns", "gemv", "own"}
               /\ pc[t] \in {"acquire", "fill", "filled", "await", "choose", "tiles", "repacked",
                             "end", "enter", "own"}
               /\ pc[t] \in {"tiles", "repacked"} => /\ tile[t][1] \in MyRowTiles(t)
                                                     /\ tile[t][2] \in ColTiles(MyCols(t))
    BY <2>1 DEF IInv, PlacesOK, LoopOK, Loops
  <2> QED BY <2>1, <2>3, <2>4, <2>5 DEF TypeOK, FillOK
<1> QED BY <1>1, IInvHolds, FillHolds, PTL

-----------------------------------------------------------------------------
(* The shape and the driver.                                                *)

ShapeOK ==
    /\ op.kb \in Nat \ {0}
    /\ \/ op.kind \in Kinds /\ \A t \in Ith : path[t] # "own"
       \/ op.kind \in OwnKinds /\ \A t \in Ith : path[t] = "own"

\* What every step of a driver with the cache does to the threads.
LEMMA CachedMoves ==
  ASSUME IInv, NEW t \in Ith, ThreadStep(t), path[t] # "own"
  PROVE  /\ op' = op /\ Others(t) /\ path'[t] # "own" /\ pc'[t] \notin {"enter", "own"}
<1>1. PlacesOK
  BY DEF IInv
<1>2. /\ op' = op
      /\ path' = path \/ \E p \in {"percall", "cached", "gemv", "rows", "columns"} :
                            path' = [path EXCEPT ![t] = p]
      /\ \E place \in {"fill", "filled", "await", "choose", "tiles", "repacked", "end"} :
            pc' = [pc EXCEPT ![t] = place]
      /\ tile' = tile \/ \E x : tile' = [tile EXCEPT ![t] = x]
  <2>1. CASE Refused(t) \/ Choose(t)
    BY <2>1 DEF Refused, Choose, Starts
  <2>2. CASE Acquired(t) \/ Fill(t) \/ Filled(t) \/ Await(t)
    BY <2>2 DEF Acquired, Fill, Filled, Await
  <2>3. CASE RepackOne(t) \/ Tile(t)
    BY <2>3 DEF RepackOne, Tile
  <2> QED BY <2>1, <2>2, <2>3 DEF ThreadStep
<1> QED BY <1>1, <1>2 DEF PlacesOK, Others

\* The threads of a driver without the cache take no step of the others.
LEMMA CachedPath ==
  ASSUME IInv, NEW t \in Ith, ThreadStep(t)
  PROVE  path[t] # "own"
<1>1. pc[t] \notin {"enter", "own"}
  BY DEF ThreadStep, Refused, Acquired, Fill, Filled, Await, Choose, RepackOne, Tile
<1>2. \/ pc[t] = "acquire" /\ path[t] = "unknown"
      \/ path[t] \in {"cached"} \cup (Loops \ {"own"})
  BY <1>1 DEF ThreadStep, Refused, Acquired, Fill, Filled, Await, Choose, RepackOne, Tile,
     IInv, PathOK
<1> QED BY <1>2

LEMMA ShapeStep ==
  ASSUME IInv, ShapeOK, [AllNext]_ownvars
  PROVE  ShapeOK'
<1>1. ASSUME NEW t \in Ith, op' = op, Others(t), path'[t] = "own" <=> path[t] = "own"
      PROVE  ShapeOK'
  BY <1>1 DEF ShapeOK, Others, Ith
<1>2. CASE UNCHANGED <<op, path>>
  BY <1>2 DEF ShapeOK, Ith
<1>3. ASSUME NEW t \in Ith, OwnStep(t)
      PROVE  ShapeOK'
  BY <1>1, <1>3, OwnMoves
<1>4. ASSUME NEW t \in Ith, ThreadStep(t)
      PROVE  ShapeOK'
  <2>1. path[t] # "own"
    BY <1>4, CachedPath
  <2> QED BY <1>1, <1>4, <2>1, CachedMoves
<1> QED BY <1>2, <1>3, <1>4 DEF AllNext, Next, ownvars, vars

LEMMA ShapeInit == AllInit => ShapeOK
<1>1. ASSUME Init PROVE ShapeOK
  <2>1. PICK s \in Shapes, nth \in Teams, kind \in Kinds :
           op = [m |-> s.m, n |-> s.n, kb |-> s.kb, ldc |-> s.ldc, nth |-> nth, kind |-> kind]
    BY <1>1 DEF Init
  <2>2. s.kb \in Nat \ {0}
    BY GeometryAssumption
  <2>3. \A t \in Ith : path[t] = "unknown"
    BY <1>1 DEF Init
  <2> QED BY <2>1, <2>2, <2>3 DEF ShapeOK
<1>2. ASSUME OwnInit PROVE ShapeOK
  <2>1. PICK s \in Shapes, nth \in Teams, kind \in OwnKinds :
           op = [m |-> s.m, n |-> s.n, kb |-> s.kb, ldc |-> s.ldc, nth |-> nth, kind |-> kind]
    BY <1>2 DEF OwnInit
  <2>2. s.kb \in Nat \ {0}
    BY GeometryAssumption
  <2>3. \A t \in Ith : path[t] = "own"
    BY <1>2 DEF OwnInit
  <2> QED BY <2>1, <2>2, <2>3 DEF ShapeOK
<1> QED BY <1>1, <1>2 DEF AllInit

LEMMA ShapeHolds ==
  ASSUME ~RefusalsDiffer
  PROVE  AllSpec => []ShapeOK
<1>1. AllInit => ShapeOK
  BY ShapeInit
<1>2. IInv /\ ShapeOK /\ [AllNext]_ownvars => ShapeOK'
  BY ShapeStep
<1> QED BY <1>1, <1>2, IInvHolds, PTL DEF AllSpec

\* No kind of driver is both with and without the cache.
LEMMA KindsApart == Kinds \cap OwnKinds = {} /\ "slabs" \notin Kinds
BY GeometryAssumption, OwnKindsAssumption

-----------------------------------------------------------------------------
(* Slabs.                                                                   *)

\* The slabs are not empty and lie inside the depth; up to KC units there is one.
LEMMA SlabBounds ==
  ASSUME ShapeOK
  PROVE  /\ KC \in Nat \ {0} /\ CeilDiv(op.kb, KC) \in Nat /\ CeilDiv(op.kb, KC) > 0
         /\ Slabs = 0 .. CeilDiv(op.kb, KC) - 1
         /\ \A s \in Slabs : s \in Nat /\ s * KC < op.kb /\ SlabUnits(s) \in Nat
         /\ \A s \in Slabs : Depth(s) \subseteq 0 .. KC - 1
         /\ op.kb <= KC => Slabs = {0}
<1> DEFINE n == CeilDiv(op.kb, KC)
<1>1. op.kb \in Nat \ {0} /\ KC \in Nat \ {0}
  BY GeometryAssumption DEF ShapeOK
<1>2. n \in Nat /\ op.kb <= KC * n /\ KC * n < op.kb + KC /\ n > 0
  BY <1>1, CeilBounds
<1>3. Slabs = 0 .. n - 1
  BY DEF Slabs
<1> HIDE DEF n
<1>4. ASSUME NEW s \in Slabs
      PROVE  s \in Nat /\ s * KC < op.kb /\ SlabUnits(s) \in Nat /\ Depth(s) \subseteq 0 .. KC - 1
  <2>1. s \in Nat /\ s + 1 <= n
    BY <1>2, <1>3
  <2>2. s * KC \in Nat /\ (s + 1) * KC = s * KC + KC /\ (s + 1) * KC <= n * KC /\ n * KC = KC * n
    BY <2>1, <1>1, <1>2
  <2>3. s * KC < op.kb
    BY <2>2, <1>1, <1>2
  <2>4. SlabUnits(s) \in Nat /\ SlabUnits(s) <= KC
    BY <2>2, <2>3, <1>1 DEF SlabUnits, MinOf
  <2>5. Depth(s) \subseteq 0 .. KC - 1
    BY <2>4, <1>1 DEF Depth
  <2> QED BY <2>1, <2>3, <2>4, <2>5
<1>5. op.kb <= KC => n = 1
  <2>1. SUFFICES ASSUME op.kb <= KC, n >= 2 PROVE FALSE
    BY <1>2
  <2>2. 2 * KC <= KC * n
    BY <2>1, <1>1, <1>2
  <2> QED BY <2>1, <2>2, <1>1, <1>2
<1> QED BY <1>1, <1>2, <1>3, <1>4, <1>5 DEF n

\* The products of the first s slabs.
Partial(i, j, s) ==
    [p \in {q \in Positions : q[1] < s} |-> <<<<i, p[1] * KC + p[2]>>, <<j, p[1] * KC + p[2]>>>>]

\* The positions of the slabs are the units of a row, each once.
LEMMA AllPositions ==
  ASSUME ShapeOK
  PROVE  Positions = {q \in Slabs \X (0 .. KC - 1) : q[1] * KC + q[2] < op.kb}
<1>1. SUFFICES ASSUME NEW s \in Slabs, NEW d \in 0 .. KC - 1
               PROVE  d \in Depth(s) <=> s * KC + d < op.kb
  BY DEF Positions
<1>2. KC \in Nat \ {0} /\ s \in Nat /\ op.kb \in Nat /\ s * KC < op.kb
  BY SlabBounds DEF ShapeOK
<1>3. s * KC \in Nat
  BY <1>2
<1> QED BY <1>2, <1>3 DEF Depth, SlabUnits, MinOf

\* The products of all slabs are the whole product.
LEMMA AllSlabs ==
  ASSUME ShapeOK, NEW i, NEW j, NEW s \in Nat, s \notin Slabs
  PROVE  Partial(i, j, s) = DotProduct(i, j)
<1>1. Slabs = 0 .. CeilDiv(op.kb, KC) - 1 /\ CeilDiv(op.kb, KC) \in Nat
  BY SlabBounds
<1>2. \A x \in Slabs : x < s
  BY <1>1
<1>3. {q \in Positions : q[1] < s} = Positions
  BY <1>2 DEF Positions
<1> QED BY <1>3, AllPositions DEF Partial, DotProduct

-----------------------------------------------------------------------------
(* The memory of the designs that go slab by slab.                          *)

RowsLeft(t, i) == MinOf(I1(t) - i, MR)
ColsLeft(jt)   == MinOf(op.n - jt * NR, NR)

Lanes(n) == (0 .. n - 1) \X (0 .. KC - 1)

\* At row i the accumulators hold the products of the first s slabs, and what the single
\* slab of B was packed into still holds it.
GoodMemory(mem, t, i, s) ==
    /\ DOMAIN mem = {"PA", "PB", "fin"}
    /\ DOMAIN mem.PA = Lanes(MR)
    /\ DOMAIN mem.PB = ColTiles(op.n) /\ \A jt \in ColTiles(op.n) : DOMAIN mem.PB[jt] = Lanes(NR)
    /\ s > 0 => \A jt \in ColTiles(op.n), j \in 0 .. NR - 1, r \in 0 .. MR - 1 :
          r < RowsLeft(t, i) /\ j < ColsLeft(jt) =>
              mem.fin[jt][<<r, j>>] = Partial(i + r, jt * NR + j, s)
    /\ op.kb <= KC /\ (i # I0(t) \/ s > 0) =>
          \A jt \in ColTiles(op.n), j \in 0 .. NR - 1, d \in Depth(0) :
              j < ColsLeft(jt) => mem.PB[jt][<<j, d>>] = <<jt * NR + j, d>>

\* What a lane of a packed row tile holds, and of a packed column tile.
LEMMA PackedRow ==
  ASSUME ShapeOK, NEW row0, NEW rows, NEW it, NEW s \in Slabs, NEW d \in Depth(s),
         NEW r \in 0 .. MR - 1
  PROVE  RepackA(row0, rows, it)[s][<<r, d>>] = <<row0 + Clamp(it * MR + r, rows), s * KC + d>>
<1>1. d \in 0 .. KC - 1
  BY SlabBounds
<1> QED BY <1>1 DEF RepackA

LEMMA PackedColumn ==
  ASSUME ShapeOK, NEW col0, NEW cols, NEW jt \in ColTiles(cols), NEW s \in Slabs,
         NEW d \in Depth(s), NEW j \in 0 .. NR - 1
  PROVE  PackB(col0, cols)[jt][s][<<j, d>>] = <<col0 + Clamp(jt * NR + j, cols), s * KC + d>>
<1>1. d \in 0 .. KC - 1
  BY SlabBounds
<1> QED BY <1>1 DEF PackB

\* The accumulator before slab s, and what the slab adds to it.
SoFar(x, y, s) == IF s = 0 THEN <<>> ELSE Partial(x, y, s)
OneSlab(x, y, s) == [p \in {s} \X Depth(s) |-> <<<<x, s * KC + p[2]>>, <<y, s * KC + p[2]>>>>]

\* One more slab: the products of s + 1 slabs.
LEMMA PlusSlab ==
  ASSUME NEW s \in Slabs, NEW x, NEW y, s \in Nat,
         Depth(s) \subseteq 0 .. KC - 1, Slabs \subseteq Nat
  PROVE  Plus(SoFar(x, y, s), OneSlab(x, y, s)) = Partial(x, y, s + 1)
<1> DEFINE f == SoFar(x, y, s)
           g == OneSlab(x, y, s)
           before == {q \in Positions : q[1] < s}
           now == {q \in Positions : q[1] < s + 1}
           here == {s} \X Depth(s)
<1>1. Positions \subseteq Slabs \X (0 .. KC - 1)
  BY DEF Positions
<1>2. \A q \in Positions : q[1] \in Nat
  BY <1>1
<1>3. here = {q \in Positions : q[1] = s}
  BY DEF Positions
<1>4. before \cap here = {} /\ before \cup here = now
  BY <1>2, <1>3
<1>5. DOMAIN f = before /\ \A p \in before : f[p] = <<<<x, p[1] * KC + p[2]>>, <<y, p[1] * KC + p[2]>>>>
  <2>1. CASE s = 0
    <3>1. before = {}
      BY <1>2, <2>1
    <3>2. DOMAIN f = {}
      BY <2>1 DEF SoFar
    <3> QED BY <3>1, <3>2
  <2>2. CASE s # 0
    BY <2>2 DEF Partial, SoFar
  <2> QED BY <2>1, <2>2
<1>6. DOMAIN g = here /\ \A p \in here : g[p] = <<<<x, p[1] * KC + p[2]>>, <<y, p[1] * KC + p[2]>>>>
  BY <1>3 DEF OneSlab
<1> HIDE DEF before, now, here, f, g
<1>7. Plus(f, g) = [p \in now |-> IF p \in before THEN f[p] ELSE g[p]]
  BY <1>4, <1>5, <1>6 DEF Plus
<1>8. \A p \in now : (IF p \in before THEN f[p] ELSE g[p])
                        = <<<<x, p[1] * KC + p[2]>>, <<y, p[1] * KC + p[2]>>>>
  BY <1>4, <1>5, <1>6
<1>9. Plus(f, g) = [p \in now |-> <<<<x, p[1] * KC + p[2]>>, <<y, p[1] * KC + p[2]>>>>]
  BY <1>7, <1>8
<1> QED BY <1>9 DEF Partial, now, f, g

\* One turn of the loop over the slabs.
LEMMA SlabWork ==
  ASSUME IInv, ShapeOK, NEW t \in Ith, Slab(t), DOMAIN own = Ith,
         GoodMemory(own[t], t, tile[t][1], tile[t][2])
  PROVE  /\ \A u \in Ith \ {t} : own'[u] = own[u]
         /\ DOMAIN own' = Ith
         /\ tile[t][2] + 1 <= CeilDiv(op.kb, KC)
         /\ GoodMemory(own'[t], t, tile[t][1], tile[t][2] + 1)
<1> DEFINE i == tile[t][1]
           s == tile[t][2]
           old == own[t]
           A == Over(RepackA(i, MinOf(I1(t) - i, MR), 0)[s], old.PA, s)
           B(jt) == IF RepackB(t, i) THEN Over(PackB(0, op.n)[jt][s], old.PB[jt], s) ELSE old.PB[jt]
           start(jt) == IF s = 0 THEN Zeroed ELSE old.fin[jt]
           fin == [jt \in ColTiles(op.n) |-> [x \in DOMAIN Zeroed |->
                      Plus(start(jt)[x], SlabProduct(A, B(jt), s, x[1], x[2]))]]
           PB == [jt \in ColTiles(op.n) |-> B(jt)]
           new == [old EXCEPT !.PA = A, !.PB = PB, !.fin = fin]
<1>1. pc[t] = "own" /\ s \in Slabs /\ own' = [own EXCEPT ![t] = new]
  BY DEF Slab, Running
<1>2. /\ OpOK /\ op.n \in Nat /\ MR \in Nat \ {0} /\ NR \in Nat \ {0} /\ i \in Nat
      /\ op.kind # "gemv" => I0(t) <= i /\ i < I1(t)
      /\ I0(t) \in Nat /\ I1(t) \in Nat
  BY <1>1, InOwnLoop
<1>3. /\ KC \in Nat \ {0} /\ CeilDiv(op.kb, KC) \in Nat /\ Slabs = 0 .. CeilDiv(op.kb, KC) - 1
      /\ s \in Nat /\ Depth(s) \subseteq 0 .. KC - 1 /\ (op.kb <= KC => Slabs = {0})
      /\ Slabs \subseteq Nat /\ op.kb \in Nat
  BY <1>1, SlabBounds DEF ShapeOK
<1>4. /\ DOMAIN old = {"PA", "PB", "fin"} /\ DOMAIN old.PA = Lanes(MR)
      /\ \A jt \in ColTiles(op.n) : DOMAIN old.PB[jt] = Lanes(NR)
  BY DEF GoodMemory
<1>5. own'[t] = new /\ (\A u \in Ith \ {t} : own'[u] = own[u]) /\ DOMAIN own' = Ith
  BY <1>1
<1>6. s + 1 <= CeilDiv(op.kb, KC)
  BY <1>1, <1>3
<1>7. \A jt \in ColTiles(op.n) : jt \in Nat
  BY DEF ColTiles
<1>8. ASSUME NEW r \in 0 .. MR - 1, r < RowsLeft(t, i), NEW d \in Depth(s)
      PROVE  A[<<r, d>>] = <<i + r, s * KC + d>>
  <2>1. <<r, d>> \in DOMAIN old.PA
    BY <1>3, <1>4 DEF Lanes
  <2>2. A[<<r, d>>] = RepackA(i, RowsLeft(t, i), 0)[s][<<r, d>>]
    BY <2>1 DEF Over, RowsLeft
  <2>3. RepackA(i, RowsLeft(t, i), 0)[s][<<r, d>>] = <<i + Clamp(0 * MR + r, RowsLeft(t, i)), s * KC + d>>
    BY <1>1, PackedRow
  <2>4. 0 * MR + r = r
    BY <1>2
  <2>5. Clamp(r, RowsLeft(t, i)) = r
    <3>1. RowsLeft(t, i) \in Int
      BY <1>2 DEF RowsLeft, MinOf
    <3> QED BY <1>8, <3>1 DEF Clamp
  <2> QED BY <2>2, <2>3, <2>4, <2>5
<1>9. ASSUME NEW jt \in ColTiles(op.n), NEW j \in 0 .. NR - 1, j < ColsLeft(jt), NEW d \in Depth(s)
      PROVE  B(jt)[<<j, d>>] = <<jt * NR + j, s * KC + d>>
  <2>1. CASE RepackB(t, i)
    <3>1. <<j, d>> \in DOMAIN old.PB[jt]
      BY <1>3, <1>4 DEF Lanes
    <3>2. B(jt)[<<j, d>>] = PackB(0, op.n)[jt][s][<<j, d>>]
      BY <2>1, <3>1 DEF Over
    <3>3. PackB(0, op.n)[jt][s][<<j, d>>] = <<0 + Clamp(jt * NR + j, op.n), s * KC + d>>
      BY <1>1, PackedColumn
    <3>4. jt * NR \in Nat
      BY <1>2, <1>7
    <3>5. Clamp(jt * NR + j, op.n) = jt * NR + j
      BY <1>2, <1>9, <3>4 DEF Clamp, ColsLeft, MinOf
    <3>6. 0 + Clamp(jt * NR + j, op.n) = jt * NR + j
      BY <3>4, <3>5
    <3> HIDE DEF B, s
    <3> QED BY <3>2, <3>3, <3>6
  <2>2. CASE ~RepackB(t, i)
    <3>1. i # I0(t) /\ op.kb <= KC /\ s = 0
      BY <2>2, <1>1, <1>3, GeometryAssumption DEF RepackB
    <3>2. B(jt)[<<j, d>>] = old.PB[jt][<<j, d>>]
      BY <2>2
    <3>3. old.PB[jt][<<j, d>>] = <<jt * NR + j, d>>
      BY <3>1, <1>9 DEF GoodMemory
    <3>4. s * KC + d = d
      BY <3>1, <1>3
    <3> QED BY <3>2, <3>3, <3>4
  <2> QED BY <2>1, <2>2
<1>10. ASSUME NEW jt \in ColTiles(op.n) PROVE DOMAIN B(jt) = Lanes(NR)
  <2>1. CASE RepackB(t, i)
    BY <2>1, <1>4 DEF Over
  <2>2. CASE ~RepackB(t, i)
    BY <2>2, <1>4
  <2> QED BY <2>1, <2>2
<1>11. DOMAIN A = Lanes(MR)
  BY <1>4 DEF Over
<1>12. ASSUME NEW jt \in ColTiles(op.n), NEW j \in 0 .. NR - 1, NEW r \in 0 .. MR - 1,
              r < RowsLeft(t, i), j < ColsLeft(jt)
       PROVE  fin[jt][<<r, j>>] = Partial(i + r, jt * NR + j, s + 1)
  <2> DEFINE f == start(jt)[<<r, j>>]
             g == SlabProduct(A, B(jt), s, r, j)
             x == i + r
             y == jt * NR + j
  <2>1. <<r, j>> \in DOMAIN Zeroed /\ Zeroed[<<r, j>>] = <<>>
    BY DEF Zeroed
  <2>2. fin[jt][<<r, j>>] = Plus(f, g)
    BY <2>1
  <2>3. f = SoFar(x, y, s)
    <3>1. CASE s = 0
      BY <3>1, <2>1 DEF SoFar
    <3>2. CASE s # 0
      <4>1. s > 0 /\ f = old.fin[jt][<<r, j>>]
        BY <3>2, <1>3
      <4> QED BY <4>1, <3>2, <1>12 DEF GoodMemory, SoFar
    <3> QED BY <3>1, <3>2
  <2>4. g = OneSlab(x, y, s)
    <3>1. \A d \in Depth(s) : A[<<r, d>>] = <<x, s * KC + d>> /\ B(jt)[<<j, d>>] = <<y, s * KC + d>>
      BY <1>8, <1>9, <1>12
    <3> HIDE DEF A, B, x, y
    <3> QED BY <3>1 DEF SlabProduct, OneSlab
  <2>5. Plus(f, g) = Partial(x, y, s + 1)
    <3> HIDE DEF f, g, x, y, s
    <3>1. s \in Slabs /\ s \in Nat /\ Depth(s) \subseteq 0 .. KC - 1 /\ Slabs \subseteq Nat
      BY <1>1, <1>3
    <3> QED BY <3>1, <2>3, <2>4, PlusSlab
  <2> QED BY <2>2, <2>5
<1> HIDE DEF fin, A, i, s, old
<1>13. /\ DOMAIN new = {"PA", "PB", "fin"} /\ new.PA = A /\ new.fin = fin
       /\ new.PB = PB
  <2> HIDE DEF PB
  <2> QED BY <1>4
<1>14. DOMAIN PB = ColTiles(op.n) /\ \A jt \in ColTiles(op.n) : PB[jt] = B(jt)
  OBVIOUS
<1> HIDE DEF PB, B
<1>15. ASSUME op.kb <= KC, NEW jt \in ColTiles(op.n), NEW j \in 0 .. NR - 1, NEW d \in Depth(0), j < ColsLeft(jt)
       PROVE  new.PB[jt][<<j, d>>] = <<jt * NR + j, d>>
  <2>1. s = 0 /\ s * KC + d = d
    <3>1. s = 0 /\ d \in Int
      BY <1>15, <1>1, <1>3 DEF s
    <3> QED BY <3>1, <1>3
  <2> QED BY <2>1, <1>9, <1>13, <1>14, <1>15
<1> HIDE DEF new
<1>16. /\ DOMAIN new.PA = Lanes(MR) /\ DOMAIN new.PB = ColTiles(op.n)
       /\ \A jt \in ColTiles(op.n) : DOMAIN new.PB[jt] = Lanes(NR)
  BY <1>10, <1>11, <1>13, <1>14
<1>17. GoodMemory(new, t, i, s + 1)
  BY <1>12, <1>13, <1>15, <1>16 DEF GoodMemory
<1> QED BY <1>5, <1>6, <1>17 DEF i, s

MemoryOK ==
    op.kind = "slabs" =>
        /\ DOMAIN own = Ith
        /\ \A t \in Ith : \A mem, i, s :
              own[t] = mem =>
                  /\ pc[t] = "enter" => GoodMemory(mem, t, I0(t), 0)
                  /\ pc[t] = "own" /\ tile[t][1] = i /\ tile[t][2] = s =>
                        s <= CeilDiv(op.kb, KC) /\ GoodMemory(mem, t, i, s)

\* What makes a memory good does not change with the steps.
LEMMA GoodKept ==
  ASSUME op' = op, NEW t, NEW mem, NEW i, NEW s
  PROVE  /\ GoodMemory(mem, t, i, s)' <=> GoodMemory(mem, t, i, s)
         /\ I0(t)' = I0(t) /\ I1(t)' = I1(t)
<1>1. I0(t)' = I0(t) /\ I1(t)' = I1(t)
  BY DEF I0, I1, Height, InTiles
<1>2. RowsLeft(t, i)' = RowsLeft(t, i) /\ \A jt : ColsLeft(jt)' = ColsLeft(jt)
  BY <1>1 DEF RowsLeft, ColsLeft
<1>3. \A x, y, n : Partial(x, y, n)' = Partial(x, y, n)
  BY DEF Partial, Positions, Depth, Slabs, SlabUnits
<1>4. ColTiles(op.n)' = ColTiles(op.n) /\ Depth(0)' = Depth(0)
  BY DEF ColTiles, Depth, SlabUnits
<1>5. GoodMemory(mem, t, i, s)' <=> GoodMemory(mem, t, i, s)
  BY <1>1, <1>2, <1>3, <1>4 DEF GoodMemory
<1> QED BY <1>1, <1>5

\* A thread's memory is good for its first row as it enters, or at the first row of
\* another tile before the first slab.
LEMMA GoodStart ==
  ASSUME NEW t, NEW mem, NEW i, NEW s, GoodMemory(mem, t, i, s), NEW k,
         k = I0(t) \/ (s > 0 /\ op.kb <= KC) \/ op.kb > KC, op.kb \in Nat
  PROVE  GoodMemory(mem, t, k, 0)
<1>1. op.kb <= KC /\ k # I0(t) => s > 0
  BY GeometryAssumption
<1> QED BY <1>1 DEF GoodMemory

\* The memory a thread begins with.
LEMMA FreshMemory ==
  ASSUME NEW t
  PROVE  GoodMemory(NewMemory, t, I0(t), 0)
BY DEF GoodMemory, NewMemory, NewLanes, Lanes

\* The steps of the other threads.
LEMMA MemoryKept ==
  ASSUME MemoryOK, op' = op, DOMAIN own' = DOMAIN own,
         NEW t \in Ith, Others(t), \A u \in Ith \ {t} : own'[u] = own[u],
         op.kind = "slabs" => pc'[t] \notin {"enter"},
         op.kind = "slabs" /\ pc'[t] = "own" =>
             /\ tile'[t][2] <= CeilDiv(op.kb, KC)
             /\ GoodMemory(own'[t], t, tile'[t][1], tile'[t][2])
  PROVE  MemoryOK'
<1>1. Ith' = Ith
  BY DEF Ith
<1>2. SUFFICES ASSUME op.kind = "slabs", NEW u \in Ith, NEW mem, NEW i, NEW s, own'[u] = mem
               PROVE  /\ pc'[u] = "enter" => GoodMemory(mem, u, I0(u), 0)
                      /\ pc'[u] = "own" /\ tile'[u][1] = i /\ tile'[u][2] = s =>
                            s <= CeilDiv(op.kb, KC) /\ GoodMemory(mem, u, i, s)
  <2>1. \A u, mem, i, s : GoodMemory(mem, u, i, s)' <=> GoodMemory(mem, u, i, s)
    BY GoodKept
  <2>2. \A u : I0(u)' = I0(u)
    BY GoodKept
  <2> QED BY <1>1, <2>1, <2>2 DEF MemoryOK
<1>3. CASE u = t
  BY <1>2, <1>3
<1>4. CASE u # t
  <2>1. pc'[u] = pc[u] /\ tile'[u] = tile[u] /\ own'[u] = own[u]
    BY <1>4 DEF Others
  <2> QED BY <1>2, <2>1 DEF MemoryOK
<1> QED BY <1>3, <1>4

LEMMA MemoryStep ==
  ASSUME IInv, ShapeOK, MemoryOK, [AllNext]_ownvars
  PROVE  MemoryOK'
<1>1. ASSUME op' = op, op.kind # "slabs" PROVE MemoryOK'
  BY <1>1 DEF MemoryOK
<1>2. CASE UNCHANGED ownvars
  <2>1. 0 \in Ith /\ UNCHANGED <<op, pc, path, tile, own>>
    BY <1>2 DEF ownvars, vars, IInv, OpOK, Ith
  <2>2. Others(0)
    BY <2>1 DEF Others
  <2>3. CASE op.kind = "slabs"
    <3>1. path[0] = "own"
      BY <2>1, <2>3, KindsApart DEF ShapeOK
    <3>2. MemoryOK'
      <4>1. Ith' = Ith
        BY <2>1 DEF Ith
      <4>2. \A u, mem, i, s : GoodMemory(mem, u, i, s)' <=> GoodMemory(mem, u, i, s)
        BY <2>1, GoodKept
      <4>3. \A u : I0(u)' = I0(u)
        BY <2>1, GoodKept
      <4> QED BY <2>1, <4>1, <4>2, <4>3 DEF MemoryOK
    <3> QED BY <3>2
  <2> QED BY <1>1, <2>1, <2>3
<1>3. ASSUME NEW t \in Ith, ThreadStep(t)
      PROVE  MemoryOK'
  <2>1. op.kind # "slabs" /\ op' = op
    BY <1>3, CachedPath, CachedMoves, KindsApart DEF ShapeOK
  <2> QED BY <1>1, <2>1
<1>4. ASSUME NEW t \in Ith, OwnStep(t), op.kind = "slabs"
      PROVE  MemoryOK'
  <2>1. /\ op' = op /\ Others(t) /\ pc[t] \in {"enter", "own"} /\ pc'[t] \in {"own", "end"}
        /\ PlacesOK
    BY <1>4, OwnMoves DEF IInv
  <2>2. CASE Enter(t)
    <3>1. pc[t] = "enter" /\ tile'[t] = <<I0(t), 0>> /\ own' = own
      BY <1>4, <2>1, <2>2 DEF Enter, PlacesOK
    <3>2. GoodMemory(own[t], t, I0(t), 0)
      BY <1>4, <3>1 DEF MemoryOK
    <3>3. 0 <= CeilDiv(op.kb, KC)
      BY SlabBounds
    <3> QED BY <2>1, <3>1, <3>2, <3>3, MemoryKept
  <2>3. CASE Slab(t)
    <3>1. pc[t] = "own" /\ tile'[t] = <<tile[t][1], tile[t][2] + 1>>
      BY <2>1, <2>3 DEF Slab, Running, GoOn, PlacesOK
    <3>2. DOMAIN own = Ith /\ GoodMemory(own[t], t, tile[t][1], tile[t][2])
      BY <1>4, <3>1 DEF MemoryOK
    <3>3. /\ tile[t][2] + 1 <= CeilDiv(op.kb, KC) /\ DOMAIN own' = Ith
          /\ \A u \in Ith \ {t} : own'[u] = own[u]
          /\ GoodMemory(own'[t], t, tile[t][1], tile[t][2] + 1)
      BY <2>3, <3>2, SlabWork
    <3> QED BY <2>1, <3>1, <3>2, <3>3, MemoryKept
  <2>4. CASE StoreSlabs(t)
    <3>1. /\ pc[t] = "own" /\ tile[t][2] \notin Slabs /\ own' = own
          /\ tile'[t] = <<tile[t][1] + MR, 0>>
      BY <2>1, <2>4 DEF StoreSlabs, Running, GoOn, PlacesOK
    <3>2. /\ GoodMemory(own[t], t, tile[t][1], tile[t][2])
          /\ tile[t][2] <= CeilDiv(op.kb, KC)
      BY <1>4, <3>1 DEF MemoryOK
    <3>3. /\ CeilDiv(op.kb, KC) \in Nat /\ CeilDiv(op.kb, KC) > 0
          /\ Slabs = 0 .. CeilDiv(op.kb, KC) - 1 /\ KC \in Nat
      BY SlabBounds
    <3>4. tile[t][2] \in Nat /\ tile[t][2] > 0
      BY <3>1, <3>3, <2>1 DEF PlacesOK
    <3>5. op.kb \in Nat
      BY DEF ShapeOK
    <3>6. op.kb <= KC \/ op.kb > KC
      BY <3>3, <3>5
    <3>7. GoodMemory(own[t], t, tile[t][1] + MR, 0)
      BY <3>2, <3>4, <3>5, <3>6, GoodStart
    <3> QED BY <2>1, <3>1, <3>3, <3>7, MemoryKept
  <2>5. CASE WholeTile(t) \/ ColumnEdge(t) \/ RowEdge(t) \/ Column(t) \/ Pair(t)
    BY <1>4, <2>5 DEF WholeTile, ColumnEdge, RowEdge, Column, Pair, Running
  <2> QED BY <1>4, <2>2, <2>3, <2>4, <2>5 DEF OwnStep
<1>5. ASSUME NEW t \in Ith, OwnStep(t)
      PROVE  MemoryOK'
  BY <1>1, <1>4, <1>5, OwnMoves
<1>6. CASE UNCHANGED vars /\ UNCHANGED own
  BY <1>2, <1>6 DEF ownvars
<1> QED BY <1>2, <1>3, <1>5, <1>6 DEF AllNext, Next

LEMMA MemoryInit == AllInit => MemoryOK
<1>1. ASSUME Init PROVE MemoryOK
  <2>1. PICK s \in Shapes, nth \in Teams, kind \in Kinds :
           op = [m |-> s.m, n |-> s.n, kb |-> s.kb, ldc |-> s.ldc, nth |-> nth, kind |-> kind]
    BY <1>1 DEF Init
  <2>2. op.kind # "slabs"
    BY <2>1, KindsApart
  <2> QED BY <2>2 DEF MemoryOK
<1>2. ASSUME OwnInit PROVE MemoryOK
  <2>1. pc = [t \in Ith |-> "enter"] /\ own = [t \in Ith |-> NewMemory]
    BY <1>2 DEF OwnInit
  <2> QED BY <2>1, FreshMemory DEF MemoryOK
<1> QED BY <1>1, <1>2 DEF AllInit

LEMMA MemoryHolds ==
  ASSUME ~RefusalsDiffer
  PROVE  AllSpec => []MemoryOK
<1>1. AllInit => MemoryOK
  BY MemoryInit
<1>2. IInv /\ ShapeOK /\ MemoryOK /\ [AllNext]_ownvars => MemoryOK'
  BY MemoryStep
<1> QED BY <1>1, <1>2, IInvHolds, ShapeHolds, PTL DEF AllSpec

-----------------------------------------------------------------------------
(* Every element of a share is stored.                                      *)

\* Every element has its place in C.
LEMMA AddressInC ==
  ASSUME OpOK, NEW i \in 0 .. op.m - 1, NEW j \in 0 .. op.n - 1
  PROVE  Address(i, j) \in 0 .. op.ldc * op.n - 1
<1> DEFINE ldc == op.ldc
           n == op.n
<1>1. ldc \in Nat /\ n \in Nat /\ i \in Nat /\ j \in Nat /\ i < ldc /\ j + 1 <= n
  BY DEF OpOK
<1> HIDE DEF ldc, n
<1>2. (j + 1) * ldc <= n * ldc /\ (j + 1) * ldc = j * ldc + ldc /\ j * ldc \in Nat
      /\ n * ldc = ldc * n /\ ldc * n \in Nat
  BY <1>1
<1>3. i + j * ldc \in 0 .. ldc * n - 1
  BY <1>1, <1>2
<1> QED BY <1>3 DEF Address, ldc, n

\* The rows of the elements in the share of a driver without the cache.
LEMMA OwnedRows ==
  ASSUME OpOK, NEW t \in Ith, path[t] = "own", NEW i \in 0 .. op.m - 1, NEW j, Owns(t, i, j)
  PROVE  I0(t) <= i /\ i < I1(t)
<1> DEFINE h == Height
           tiles == TileCount(op.m, h)
           p == CeilDiv(tiles, op.nth)
           first == t * p
<1>1. op.m \in Nat \ {0} /\ op.nth \in Nat \ {0} /\ h \in Nat \ {0} /\ t \in 0 .. op.nth - 1
  BY GeometryAssumption DEF OpOK, Height, Ith
<1>2. I0(t) = first * h /\ I1(t) = MinOf(op.m, (first + p) * h)
  BY DEF I0, I1, FirstTile
<1>3. i \div h \in ThreadTiles(tiles, t, op.nth)
  BY DEF Owns, OwnerHeight
<1> HIDE DEF h
<1>4. tiles \in Nat
  BY <1>1, CeilBounds DEF TileCount
<1>5. i \div h \in 0 .. tiles - 1
  BY <1>1, TileOfRow
<1>6. first <= i \div h /\ i \div h < first + p
  BY <1>1, <1>3, <1>4, <1>5, TilesOfThread
<1>7. p \in Nat
  BY <1>1, <1>4, CeilBounds
<1> HIDE DEF p, tiles
<1>8. first \in Nat /\ first + p \in Nat
  BY <1>1, <1>7
<1> HIDE DEF first
<1>9. first * h <= i /\ i < (first + p) * h
  BY <1>1, <1>6, <1>8, RowAgainstTile
<1> QED BY <1>1, <1>2, <1>9 DEF MinOf

\* The columns of the elements in the share of a thread that divides by columns.
LEMMA OwnedColumns ==
  ASSUME OpOK, NEW t \in Ith, NEW j \in 0 .. op.n - 1,
         j \div NR \in ThreadTiles(TileCount(op.n, NR), t, op.nth)
  PROVE  ColStart(t) \in Nat /\ ColStart(t) <= j /\ j < ColStart(t) + ColCount(t)
<1> DEFINE tiles == TileCount(op.n, NR)
           first == FirstTile(tiles, t, op.nth)
           end == EndTile(tiles, t, op.nth)
           S == ThreadTiles(tiles, t, op.nth)
           size == Cardinality(S)
           k == j \div NR
<1>1. op.n \in Nat \ {0} /\ op.nth \in Nat \ {0} /\ NR \in Nat \ {0} /\ t \in 0 .. op.nth - 1
  BY GeometryAssumption DEF OpOK, Ith
<1>2. tiles \in Nat /\ k \in S
  BY <1>1, CeilBounds DEF TileCount
<1>3. ColStart(t) = first * NR /\ ColCount(t) = MinOf(op.n - first * NR, size * NR)
  BY DEF ColStart, ColCount
<1> HIDE DEF tiles
<1>4. CeilDiv(tiles, op.nth) \in Nat
  BY <1>1, <1>2, CeilBounds
<1>5. first \in Nat /\ end \in Int /\ end <= tiles
  BY <1>1, <1>2, <1>4 DEF FirstTile, EndTile, MinOf
<1>6. S = {x \in 0 .. tiles - 1 : first <= x /\ x < end}
  BY DEF ThreadTiles
<1> HIDE DEF first, end, S, k
<1>7. k \in Nat /\ first <= k /\ k < end
  BY <1>2, <1>6
<1>8. S = first .. end - 1
  BY <1>2, <1>5, <1>6
<1>9. size = end - first
  BY <1>5, <1>7, <1>8, FS_Interval
<1>10. first * NR <= j /\ j < end * NR
  <2>1. end \in Nat /\ j \in Nat
    BY <1>5, <1>7
  <2> QED BY <2>1, <1>1, <1>5, <1>7, RowAgainstTile DEF k
<1>11. first * NR \in Nat /\ end * NR \in Int /\ size * NR = end * NR - first * NR
  BY <1>1, <1>5, <1>9
<1> HIDE DEF size
<1> QED BY <1>1, <1>3, <1>10, <1>11 DEF MinOf

\* After the last tile of a loop over row tiles there is none.
LEMMA LastTile ==
  ASSUME OpOK, NEW t \in Ith,
         NEW S, S = RowTiles \/ S = ThreadTiles(TileCount(op.m, MR), t, op.nth),
         NEW rt \in S, rt + 1 \notin S
  PROVE  \A k \in S : k \in Nat /\ k <= rt
<1> DEFINE tiles == TileCount(op.m, MR)
           first == FirstTile(tiles, t, op.nth)
           end == EndTile(tiles, t, op.nth)
<1>1. op.m \in Nat \ {0} /\ op.nth \in Nat \ {0} /\ MR \in Nat \ {0} /\ t \in 0 .. op.nth - 1
  BY GeometryAssumption DEF OpOK, Ith
<1>2. tiles \in Nat
  BY <1>1, CeilBounds DEF TileCount
<1>3. S # RowTiles => S = {k \in 0 .. tiles - 1 : first <= k /\ k < end}
  BY DEF ThreadTiles
<1>4. S = RowTiles => S = {k \in 0 .. tiles - 1 : 0 <= k /\ k < tiles}
  BY <1>2 DEF RowTiles
<1> HIDE DEF tiles
<1>5. CeilDiv(tiles, op.nth) \in Nat
  BY <1>1, <1>2, CeilBounds
<1>6. first \in Nat /\ end \in Int /\ end <= tiles
  BY <1>1, <1>2, <1>5 DEF FirstTile, EndTile, MinOf
<1> HIDE DEF first, end
<1> QED BY <1>2, <1>3, <1>4, <1>6

\* Element i, j comes before place <<x, y>> of a loop over columns in a loop over blocks of h rows.
Before(i, j, x, y, h) == i < x \/ (i < x + h /\ j < y)

\* The same of the loops of a driver without the cache.
Behind(t, i, j, x, y) ==
    \/ op.kind = "tiles" /\ Before(i, j, x, y, IF x + MR <= I1(t) THEN MR ELSE 1)
    \/ op.kind = "gemv" /\ j < y
    \/ op.kind \notin {"tiles", "gemv"} /\ i < x

\* The elements a thread has left behind.
Passed(t, i, j) ==
    \/ pc[t] = "end"
    \/ /\ pc[t] \in {"tiles", "repacked"}
       /\ Before(i, j, tile[t][1] * MR, MyCol0(t) + tile[t][2] * NR, MR)
    \/ pc[t] = "own" /\ Behind(t, i, j, tile[t][1], tile[t][2])

Covered(t) ==
    /\ pc[t] = "end" => path[t] \in Loops
    /\ \A i \in 0 .. op.m - 1, j \in 0 .. op.n - 1 :
           Owns(t, i, j) /\ Passed(t, i, j) => t \in writers[Address(i, j)]

CoverOK ==
    /\ DOMAIN c = 0 .. op.ldc * op.n - 1
    /\ \A t \in Ith : Covered(t)

LEMMA CoveredKept ==
  ASSUME CoverOK, op' = op, DOMAIN c' = DOMAIN c, NEW t \in Ith, Others(t),
         \A a \in DOMAIN c : writers[a] \subseteq writers'[a], OpOK, Covered(t)'
  PROVE  CoverOK'
<1>1. Ith' = Ith
  BY DEF Ith
<1>2. ASSUME NEW u \in Ith, u # t
      PROVE  Covered(u)'
  <2>1. pc'[u] = pc[u] /\ path'[u] = path[u] /\ tile'[u] = tile[u] /\ Covered(u)
    BY <1>2 DEF Others, CoverOK
  <2>2. Height' = Height
    BY DEF Height, InTiles
  <2>3. OwnerHeight(u)' = OwnerHeight(u)
    BY <2>1, <2>2 DEF OwnerHeight
  <2>4. \A i, j : Owns(u, i, j)' = Owns(u, i, j) /\ Address(i, j)' = Address(i, j)
    BY <2>1, <2>3 DEF Owns, Address
  <2>5. MyCol0(u)' = MyCol0(u) /\ I1(u)' = I1(u)
    BY <2>1, <2>2 DEF MyCol0, ColStart, I1
  <2>6. \A i, j : Passed(u, i, j)' <=> Passed(u, i, j)
    BY <2>1, <2>5 DEF Passed, Behind
  <2>7. \A i \in 0 .. op.m - 1, j \in 0 .. op.n - 1 : Address(i, j) \in DOMAIN c
    BY AddressInC DEF CoverOK
  <2> QED BY <2>1, <2>4, <2>6, <2>7 DEF Covered
<1>3. DOMAIN c' = 0 .. op'.ldc * op'.n - 1
  BY DEF CoverOK
<1> QED BY <1>1, <1>2, <1>3 DEF CoverOK

\* Before a thread has passed anything, and after a step that passes nothing.
LEMMA NothingPassed ==
  ASSUME CoverOK, OpOK, op' = op, c' = c, writers' = writers, NEW t \in Ith, Others(t),
         pc'[t] = "end" => path'[t] \in Loops,
         \A i \in 0 .. op.m - 1, j \in 0 .. op.n - 1 : Owns(t, i, j)' => ~Passed(t, i, j)'
  PROVE  CoverOK'
<1>1. Covered(t)'
  BY DEF Covered
<1> QED BY <1>1, CoveredKept

\* A thread that starts its loops has left nothing behind, and one without a share owns nothing.
LEMMA StartsCover ==
  ASSUME CoverOK, IInv, NEW t \in Ith, NEW p \in Loops \ {"own"}, NEW tiles, NEW cols,
         Starts(t, p, tiles, cols), UNCHANGED <<op, c, writers>>,
         tiles = IF p = "columns" THEN RowTiles ELSE ThreadTiles(TileCount(op.m, MR), t, op.nth),
         cols = IF p = "columns" THEN ColCount(t) ELSE op.n
  PROVE  CoverOK'
<1>1. OpOK /\ PlacesOK
  BY DEF IInv
<1>2. op.m \in Nat \ {0} /\ op.n \in Nat \ {0} /\ MR \in Nat \ {0} /\ NR \in Nat \ {0}
  BY <1>1, GeometryAssumption DEF OpOK
<1>3. path' = [path EXCEPT ![t] = p] /\ path'[t] = p
  BY <1>1 DEF Starts, PlacesOK
<1> DEFINE start == CHOOSE k \in tiles : \A l \in tiles : k <= l
<1>4. tiles # {} => tiles \subseteq Nat /\ start \in tiles /\ \A k \in tiles : start <= k
  BY <1>1, FirstTileOfLoop
<1>5. \/ (tiles = {} \/ cols <= 0) /\ pc' = [pc EXCEPT ![t] = "end"] /\ tile' = tile
      \/ tiles # {} /\ pc' = [pc EXCEPT ![t] = "tiles"] /\ tile' = [tile EXCEPT ![t] = <<start, 0>>]
  BY DEF Starts
<1> HIDE DEF start
<1>6. Others(t)
  BY <1>1, <1>3, <1>5 DEF PlacesOK, Others
<1>7. ASSUME NEW i \in 0 .. op.m - 1, NEW j \in 0 .. op.n - 1, Owns(t, i, j)'
      PROVE  ~Passed(t, i, j)'
  <2>1. i \div MR \in tiles
    <3>1. CASE p = "columns"
      BY <3>1, <1>2, TileOfRow DEF RowTiles
    <3>2. CASE p # "columns"
      BY <3>2, <1>3, <1>7 DEF Owns, OwnerHeight
    <3> QED BY <3>1, <3>2
  <2>2. MyCol0(t)' \in Nat /\ MyCol0(t)' <= j /\ ~(cols <= 0)
    <3>1. CASE p = "columns"
      <4>1. j \div NR \in ThreadTiles(TileCount(op.n, NR), t, op.nth)
        BY <1>3, <1>7, <3>1 DEF Owns
      <4>2. ColStart(t) \in Nat /\ ColStart(t) <= j /\ j < ColStart(t) + ColCount(t)
        BY <4>1, <1>1, OwnedColumns
      <4>3. MyCol0(t)' = ColStart(t)
        BY <1>3, <3>1 DEF MyCol0, ColStart
      <4>4. ColCount(t) \in Int
        BY <1>1, ColCountInt
      <4> QED BY <4>2, <4>3, <4>4, <3>1
    <3>2. CASE p # "columns"
      BY <3>2, <1>2, <1>3 DEF MyCol0
    <3> QED BY <3>1, <3>2
  <2>3. /\ tiles \subseteq Nat /\ start \in Nat /\ start <= i \div MR
        /\ pc'[t] = "tiles" /\ tile'[t] = <<start, 0>>
    BY <2>1, <2>2, <1>1, <1>4, <1>5 DEF PlacesOK
  <2>4. i \in Nat /\ start * MR <= i /\ start * MR \in Nat
    <3>1. i \in Nat
      BY <1>2
    <3>2. start * MR <= i
      BY <3>1, <2>3, <1>2, RowAgainstTile
    <3> QED BY <3>1, <3>2, <2>3, <1>2
  <2>5. ~Before(i, j, start * MR, MyCol0(t)' + 0 * NR, MR)
    BY <2>2, <2>4, <1>2 DEF Before
  <2> QED BY <2>3, <2>5 DEF Passed
<1> QED BY <1>1, <1>3, <1>6, <1>7, NothingPassed

\* A register tile is stored, and what the loop leaves behind is stored.
LEMMA TileCover ==
  ASSUME CoverOK, IInv, NEW t \in Ith, Tile(t)
  PROVE  CoverOK'
<1> DEFINE rt == tile[t][1]
           ct == tile[t][2]
           hit(a) == {x \in RowsOf(rt) \X ColsOf(t, ct) :
                         Address(rt * MR + x[1], MyCol0(t) + ct * NR + x[2]) = a}
           next == NextTile(t, rt, ct)
           col == MyCol0(t) + ct * NR
<1>1. pc[t] \in {"tiles", "repacked"} /\ PathOK(t) /\ LoopOK(t) /\ OpOK /\ PlacesOK /\ Covered(t)
  BY DEF Tile, IInv, CoverOK
<1>2. /\ UNCHANGED <<op, path>>
      /\ DOMAIN c' = DOMAIN c
      /\ writers' = [a \in DOMAIN c |-> IF hit(a) = {} THEN writers[a] ELSE writers[a] \cup {t}]
      /\ \/ next[1] \in MyRowTiles(t) /\ tile' = [tile EXCEPT ![t] = next] /\ pc' = [pc EXCEPT ![t] = "tiles"]
         \/ next[1] \notin MyRowTiles(t) /\ tile' = tile /\ pc' = [pc EXCEPT ![t] = "end"]
  BY DEF Tile
<1>3. path[t] \in Loops \ {"own"} /\ rt \in MyRowTiles(t) /\ ct \in ColTiles(MyCols(t))
  BY <1>1 DEF PathOK, LoopOK
<1>4. /\ rt \in Nat /\ ct \in Nat /\ op.m \in Nat \ {0} /\ op.n \in Nat \ {0}
      /\ MR \in Nat \ {0} /\ NR \in Nat \ {0}
  BY <1>1, GeometryAssumption DEF PlacesOK, OpOK
<1>5. next = IF ct + 1 \in ColTiles(MyCols(t)) THEN <<rt, ct + 1>> ELSE <<rt + 1, 0>>
  BY DEF NextTile
<1>6. MyCols(t) \in Int
  BY <1>1, <1>4, ColCountInt DEF MyCols
<1>7. ct + 1 \notin ColTiles(MyCols(t)) => MyCols(t) <= (ct + 1) * NR
  <2> DEFINE n == CeilDiv(MyCols(t), NR)
  <2>1. SUFFICES ASSUME ct + 1 \notin ColTiles(MyCols(t)), MyCols(t) > 0
                 PROVE  MyCols(t) <= (ct + 1) * NR
    <3>1. (ct + 1) * NR \in Nat
      BY <1>4
    <3> QED BY <2>1, <3>1, <1>6
  <2>2. n \in Nat /\ MyCols(t) <= NR * n
    <3>1. MyCols(t) \in Nat
      BY <2>1, <1>6
    <3> QED BY <3>1, <1>4, CeilBounds
  <2>3. ct \in 0 .. n - 1 /\ ct + 1 \notin 0 .. n - 1
    BY <2>1, <1>3 DEF ColTiles, TileCount
  <2> HIDE DEF n
  <2>4. n = ct + 1
    BY <2>2, <2>3, <1>4
  <2> QED BY <2>2, <2>4, <1>4
<1>8. \A a \in DOMAIN c : writers[a] \subseteq writers'[a]
  BY <1>2
<1>9. Others(t)
  BY <1>1, <1>2 DEF PlacesOK, Others
<1>10. pc'[t] \in {"tiles", "end"} /\ Loops \ {"own"} \subseteq Loops
  BY <1>1, <1>2 DEF PlacesOK
<1>11. ASSUME NEW i \in 0 .. op.m - 1, NEW j \in 0 .. op.n - 1, Owns(t, i, j), Passed(t, i, j)'
       PROVE  t \in writers'[Address(i, j)]
  <2>1. Address(i, j) \in DOMAIN c
    BY <1>1, AddressInC DEF CoverOK
  <2>2. CASE Passed(t, i, j)
    BY <2>1, <2>2, <1>1, <1>8, <1>11 DEF Covered
  <2>3. CASE ~Passed(t, i, j)
    <3> DEFINE r == i - rt * MR
               q == j - col
    <3>1. MyCol0(t) \in Nat /\ MyCol0(t) <= j /\ j < MyCol0(t) + MyCols(t)
      <4>1. CASE path[t] = "columns"
        <5>1. j \div NR \in ThreadTiles(TileCount(op.n, NR), t, op.nth)
          BY <4>1, <1>11 DEF Owns
        <5> QED BY <5>1, <4>1, <1>1, OwnedColumns DEF MyCol0, MyCols
      <4>2. CASE path[t] # "columns"
        BY <4>2, <1>4 DEF MyCol0, MyCols
      <4> QED BY <4>1, <4>2
    <3>2. i \div MR \in MyRowTiles(t)
      <4>1. CASE path[t] = "columns"
        BY <4>1, <1>4, TileOfRow DEF MyRowTiles, RowTiles
      <4>2. CASE path[t] # "columns"
        BY <4>2, <1>3, <1>11 DEF MyRowTiles, Owns, OwnerHeight
      <4> QED BY <4>1, <4>2
    <3>3. ~Before(i, j, rt * MR, col, MR)
      BY <2>3, <1>1 DEF Passed
    <3>4. /\ rt * MR \in Nat /\ (rt + 1) * MR = rt * MR + MR
          /\ ct * NR \in Nat /\ (ct + 1) * NR = ct * NR + NR /\ i \in Nat /\ j \in Nat
      BY <1>4
    <3>5. col \in Nat /\ MyCol0(t) + (ct + 1) * NR = col + NR
      BY <3>1, <3>4, <1>4
    <3>6. rt * MR <= i
      BY <3>3, <3>4 DEF Before
    <3>7. MyCol0(t)' = MyCol0(t)
      BY <1>2 DEF MyCol0, ColStart
    <3>8. i < rt * MR + MR
      <4>1. CASE pc'[t] = "tiles"
        <5>1. tile'[t] = next
          BY <4>1, <1>1, <1>2 DEF PlacesOK
        <5>2. Before(i, j, next[1] * MR, MyCol0(t) + next[2] * NR, MR)
          BY <5>1, <4>1, <3>7, <1>11 DEF Passed
        <5>3. CASE next = <<rt, ct + 1>>
          BY <5>2, <5>3, <3>4, <3>6 DEF Before
        <5>4. CASE next = <<rt + 1, 0>>
          <6>1. Before(i, j, rt * MR + MR, MyCol0(t), MR)
            BY <5>2, <5>4, <3>1, <3>4, <1>4
          <6> QED BY <6>1, <3>1, <3>4 DEF Before
        <5> QED BY <5>3, <5>4, <1>5
      <4>2. CASE pc'[t] = "end"
        <5>1. next[1] \notin MyRowTiles(t)
          BY <4>2, <1>1, <1>2 DEF PlacesOK
        <5>2. rt + 1 \notin MyRowTiles(t)
          BY <5>1, <1>3, <1>5
        <5>3. i \div MR <= rt
          BY <5>2, <3>2, <1>1, <1>3, LastTile DEF MyRowTiles
        <5>4. i \div MR < rt + 1 /\ i \div MR \in Nat /\ rt + 1 \in Nat
          <6>1. i \div MR \in Nat
            BY <3>4, <1>4, DivBounds
          <6> QED BY <6>1, <5>3, <1>4
        <5>5. i < (rt + 1) * MR
          BY <5>4, <3>4, <1>4, RowAgainstTile
        <5> QED BY <5>5, <3>4
      <4> QED BY <4>1, <4>2, <1>10
    <3>9. col <= j
      BY <3>3, <3>4, <3>5, <3>6, <3>8 DEF Before
    <3>10. j < col + NR
      <4>1. CASE pc'[t] = "tiles" /\ next = <<rt, ct + 1>>
        <5>1. tile'[t] = next
          BY <4>1, <1>1, <1>2 DEF PlacesOK
        <5>2. Before(i, j, rt * MR, MyCol0(t) + (ct + 1) * NR, MR)
          BY <5>1, <4>1, <3>7, <1>11 DEF Passed
        <5> QED BY <5>2, <3>4, <3>5, <3>6 DEF Before
      <4>2. CASE next # <<rt, ct + 1>>
        <5>1. MyCols(t) <= (ct + 1) * NR
          BY <4>2, <1>5, <1>7
        <5>2. (ct + 1) * NR \in Nat
          BY <3>4, <1>4
        <5> HIDE DEF col, ct
        <5> QED BY <5>1, <5>2, <3>1, <3>4, <3>5, <1>6
      <4>3. CASE pc'[t] = "end" /\ next = <<rt, ct + 1>>
        <5>1. next[1] \notin MyRowTiles(t)
          BY <4>3, <1>1, <1>2 DEF PlacesOK
        <5> QED BY <5>1, <4>3, <1>3
      <4> QED BY <4>1, <4>2, <4>3, <1>10
    <3>11. r \in RowsOf(rt) /\ q \in ColsOf(t, ct)
      <4>1. r \in Nat /\ r < op.m - rt * MR /\ r < MR
        BY <3>4, <3>6, <3>8, <1>4
      <4>2. q \in Nat /\ q < MyCols(t) - ct * NR /\ q < NR
        BY <3>1, <3>4, <3>5, <3>9, <3>10, <1>4, <1>6
      <4>3. op.m - rt * MR \in Int /\ MyCols(t) - ct * NR \in Int
        BY <3>4, <1>4, <1>6
      <4> HIDE DEF r, q
      <4>4. r \in 0 .. MinOf(op.m - rt * MR, MR) - 1
        BY <4>1, <4>3, <1>4 DEF MinOf
      <4>5. q \in 0 .. MinOf(MyCols(t) - ct * NR, NR) - 1
        BY <4>2, <4>3, <1>4 DEF MinOf
      <4> QED BY <4>4, <4>5 DEF RowsOf, ColsOf
    <3>12. rt * MR + r = i /\ col + q = j
      BY <3>4, <3>5
    <3>13. <<r, q>> \in hit(Address(i, j))
      <4> HIDE DEF r, q, rt, ct
      <4> QED BY <3>11, <3>12
    <3> QED BY <3>13, <2>1, <1>2
  <2> QED BY <2>2, <2>3
<1> HIDE DEF rt, ct, next, col, hit
<1>12. Covered(t)'
  <2>1. \A i, j : Owns(t, i, j)' = Owns(t, i, j) /\ Address(i, j)' = Address(i, j)
    BY <1>2 DEF Owns, OwnerHeight, Height, InTiles, Address
  <2> QED BY <2>1, <1>2, <1>3, <1>10, <1>11 DEF Covered
<1> QED BY <1>1, <1>2, <1>8, <1>9, <1>12, CoveredKept

\* One turn of a loop without the cache: what it leaves behind and had not before is stored.
LEMMA PieceCover ==
  ASSUME CoverOK, IInv, NEW t \in Ith, pc[t] = "own", UNCHANGED <<op, path>>,
         NEW f, NEW rows, NEW cols, DOMAIN f = rows \X cols, Store(t, f),
         NEW more, NEW x, NEW y, GoOn(t, more, x, y),
         \A i \in 0 .. op.m - 1, j \in 0 .. op.n - 1 :
            /\ I0(t) <= i /\ i < I1(t) /\ (more => Behind(t, i, j, x, y))
            => Behind(t, i, j, tile[t][1], tile[t][2]) \/ (i \in rows /\ j \in cols)
  PROVE  CoverOK'
<1>1. OpOK /\ PlacesOK /\ path[t] = "own" /\ Covered(t)
  BY InOwnLoop DEF IInv, CoverOK
<1> DEFINE hit(a) == {z \in DOMAIN f : Address(z[1], z[2]) = a}
<1>2. /\ DOMAIN c' = DOMAIN c
      /\ writers' = [a \in DOMAIN c |-> IF hit(a) = {} THEN writers[a] ELSE writers[a] \cup {t}]
  BY DEF Store
<1>3. /\ tile'[t] = <<x, y>> /\ Others(t)
      /\ pc'[t] = IF more THEN "own" ELSE "end"
  BY <1>1 DEF GoOn, PlacesOK, Others
<1>4. \A a \in DOMAIN c : writers[a] \subseteq writers'[a]
  BY <1>2
<1>5. Height' = Height
  BY DEF Height, InTiles
<1>6. I1(t)' = I1(t)
  BY <1>5 DEF I1
<1>7. ASSUME NEW i \in 0 .. op.m - 1, NEW j \in 0 .. op.n - 1, Owns(t, i, j), Passed(t, i, j)'
      PROVE  t \in writers'[Address(i, j)]
  <2>1. Address(i, j) \in DOMAIN c
    BY <1>1, AddressInC DEF CoverOK
  <2>2. I0(t) <= i /\ i < I1(t)
    BY <1>1, <1>7, OwnedRows
  <2>3. more => Behind(t, i, j, x, y)
    BY <1>3, <1>6, <1>7 DEF Passed, Behind
  <2>4. CASE Behind(t, i, j, tile[t][1], tile[t][2])
    BY <2>1, <2>4, <1>1, <1>4, <1>7 DEF Covered, Passed
  <2>5. CASE i \in rows /\ j \in cols
    <3>1. <<i, j>> \in hit(Address(i, j))
      BY <2>5
    <3> QED BY <3>1, <2>1, <1>2
  <2> QED BY <2>2, <2>3, <2>4, <2>5
<1> HIDE DEF hit
<1>8. Covered(t)'
  <2>1. \A i, j : Owns(t, i, j)' = Owns(t, i, j) /\ Address(i, j)' = Address(i, j)
    BY <1>5 DEF Owns, OwnerHeight, Address
  <2> QED BY <2>1, <1>1, <1>7 DEF Covered, Loops
<1> QED BY <1>1, <1>2, <1>3, <1>4, <1>8, CoveredKept

LEMMA EnterCover ==
  ASSUME CoverOK, IInv, NEW t \in Ith, Enter(t)
  PROVE  CoverOK'
<1>1. /\ OpOK /\ PlacesOK /\ path[t] = "own" /\ UNCHANGED <<op, path, c, writers>> /\ pc[t] = "enter"
  BY DEF Enter, IInv, PathOK
<1>2. I0(t) \in Nat /\ I1(t) \in Nat /\ op.m \in Nat
  BY <1>1, ShareBounds DEF OpOK
<1>3. /\ pc'[t] = (IF I0(t) < I1(t) THEN "own" ELSE "end")
      /\ tile'[t] = IF op.kind = "gemv" THEN <<0, 0>> ELSE <<I0(t), 0>>
  BY <1>1 DEF Enter, PlacesOK
<1>4. Others(t)
  BY <1>1, OwnMoves DEF OwnStep
<1>5. I1(t)' = I1(t)
  BY <1>1 DEF I1, Height, InTiles
<1>6. ASSUME NEW i \in 0 .. op.m - 1, NEW j \in 0 .. op.n - 1, Owns(t, i, j)'
      PROVE  ~Passed(t, i, j)'
  <2>1. Owns(t, i, j)
    BY <1>1, <1>6 DEF Owns, OwnerHeight, Height, InTiles
  <2>2. I0(t) <= i /\ i < I1(t) /\ i \in Nat
    BY <2>1, <1>1, <1>2, OwnedRows
  <2>3. pc'[t] = "own" /\ j \in Nat
    BY <2>2, <1>2, <1>3, <1>1 DEF OpOK
  <2>4. ~Behind(t, i, j, I0(t), 0)
    BY <2>2, <2>3, <1>2 DEF Behind, Before
  <2>5. ~Behind(t, i, j, tile'[t][1], tile'[t][2])
    BY <2>4, <2>3, <1>3 DEF Behind
  <2> QED BY <2>3, <2>5, <1>1, <1>5 DEF Passed, Behind
<1> QED BY <1>1, <1>4, <1>6, NothingPassed DEF Loops

LEMMA WholeTileCover ==
  ASSUME CoverOK, IInv, NEW t \in Ith, WholeTile(t)
  PROVE  CoverOK'
<1> DEFINE i == tile[t][1]
           j == tile[t][2]
           rows == i .. i + MR - 1
           cols == j .. j + NR - 1
           f == Products(rows, cols)
<1>1. pc[t] = "own" /\ op.kind = "tiles" /\ UNCHANGED <<op, path>>
  BY DEF WholeTile, Running
<1>2. /\ MR \in Nat \ {0} /\ NR \in Nat \ {0} /\ op.n \in Nat
      /\ I0(t) \in Nat /\ I1(t) \in Nat /\ i \in Nat /\ j \in Nat /\ op.m \in Nat
      /\ i < I1(t) /\ j < op.n
  BY <1>1, InOwnLoop DEF OpOK
<1>3. /\ Store(t, f) /\ i + MR <= I1(t) /\ j + NR <= op.n
      /\ IF j + NR < op.n THEN GoOn(t, TRUE, i, j + NR) ELSE GoOn(t, i + MR < I1(t), i + MR, 0)
  BY DEF WholeTile
<1>4. DOMAIN f = rows \X cols
  BY DEF Products
<1> HIDE DEF f, i, j
<1>5. CASE j + NR < op.n
  <2> DEFINE y == j + NR
             more == TRUE
  <2>1. GoOn(t, more, i, y)
    BY <1>3, <1>5
  <2>2. ASSUME NEW k \in 0 .. op.m - 1, NEW l \in 0 .. op.n - 1, Behind(t, k, l, i, y)
        PROVE  Behind(t, k, l, i, j) \/ (k \in rows /\ l \in cols)
    BY <2>2, <1>1, <1>2, <1>3 DEF Behind, Before
  <2> HIDE DEF y, more, rows, cols
  <2>3. \A k \in 0 .. op.m - 1, l \in 0 .. op.n - 1 :
            I0(t) <= k /\ k < I1(t) /\ (more => Behind(t, k, l, i, y)) =>
                Behind(t, k, l, i, j) \/ (k \in rows /\ l \in cols)
    BY <2>2 DEF more
  <2> QED BY <2>1, <2>3, <1>1, <1>3, <1>4, PieceCover DEF i, j
<1>6. CASE ~(j + NR < op.n)
  <2> DEFINE x == i + MR
             more == x < I1(t)
  <2>1. GoOn(t, more, x, 0)
    BY <1>3, <1>6
  <2>2. ASSUME NEW k \in 0 .. op.m - 1, NEW l \in 0 .. op.n - 1, k < I1(t),
               more => Behind(t, k, l, x, 0)
        PROVE  Behind(t, k, l, i, j) \/ (k \in rows /\ l \in cols)
    <3>1. k < i + MR
      BY <2>2, <1>1, <1>2 DEF Behind, Before
    <3> QED BY <3>1, <1>1, <1>2, <1>3, <1>6 DEF Behind, Before
  <2> HIDE DEF x, more, rows, cols
  <2> QED BY <2>1, <2>2, <1>1, <1>3, <1>4, PieceCover DEF i, j
<1> QED BY <1>5, <1>6

LEMMA ColumnEdgeCover ==
  ASSUME CoverOK, IInv, NEW t \in Ith, ColumnEdge(t)
  PROVE  CoverOK'
<1> DEFINE i == tile[t][1]
           j == tile[t][2]
           rows == i .. i + MR - 1
           cols == {j}
           f == Products(rows, cols)
<1>1. pc[t] = "own" /\ op.kind = "tiles" /\ UNCHANGED <<op, path>>
  BY DEF ColumnEdge, Running
<1>2. /\ MR \in Nat \ {0} /\ op.n \in Nat
      /\ I0(t) \in Nat /\ I1(t) \in Nat /\ i \in Nat /\ j \in Nat /\ op.m \in Nat
      /\ i < I1(t) /\ j < op.n
  BY <1>1, InOwnLoop DEF OpOK
<1>3. /\ Store(t, f) /\ i + MR <= I1(t)
      /\ IF j + 1 < op.n THEN GoOn(t, TRUE, i, j + 1) ELSE GoOn(t, i + MR < I1(t), i + MR, 0)
  BY DEF ColumnEdge
<1>4. DOMAIN f = rows \X cols
  BY DEF Products
<1> HIDE DEF f, i, j
<1>5. CASE j + 1 < op.n
  <2> DEFINE y == j + 1
             more == TRUE
  <2>1. GoOn(t, more, i, y)
    BY <1>3, <1>5
  <2>2. ASSUME NEW k \in 0 .. op.m - 1, NEW l \in 0 .. op.n - 1, Behind(t, k, l, i, y)
        PROVE  Behind(t, k, l, i, j) \/ (k \in rows /\ l \in cols)
    BY <2>2, <1>1, <1>2, <1>3 DEF Behind, Before
  <2> HIDE DEF y, more, rows, cols
  <2>3. \A k \in 0 .. op.m - 1, l \in 0 .. op.n - 1 :
            I0(t) <= k /\ k < I1(t) /\ (more => Behind(t, k, l, i, y)) =>
                Behind(t, k, l, i, j) \/ (k \in rows /\ l \in cols)
    BY <2>2 DEF more
  <2> QED BY <2>1, <2>3, <1>1, <1>3, <1>4, PieceCover DEF i, j
<1>6. CASE ~(j + 1 < op.n)
  <2> DEFINE x == i + MR
             more == x < I1(t)
  <2>1. GoOn(t, more, x, 0)
    BY <1>3, <1>6
  <2>2. ASSUME NEW k \in 0 .. op.m - 1, NEW l \in 0 .. op.n - 1, k < I1(t),
               more => Behind(t, k, l, x, 0)
        PROVE  Behind(t, k, l, i, j) \/ (k \in rows /\ l \in cols)
    <3>1. k < i + MR
      BY <2>2, <1>1, <1>2 DEF Behind, Before
    <3> QED BY <3>1, <1>1, <1>2, <1>3, <1>6 DEF Behind, Before
  <2> HIDE DEF x, more, rows, cols
  <2> QED BY <2>1, <2>2, <1>1, <1>3, <1>4, PieceCover DEF i, j
<1> QED BY <1>5, <1>6

LEMMA RowEdgeCover ==
  ASSUME CoverOK, IInv, NEW t \in Ith, RowEdge(t)
  PROVE  CoverOK'
<1> DEFINE i == tile[t][1]
           j == tile[t][2]
           rows == {i}
           cols == {j}
           f == Products(rows, cols)
<1>1. pc[t] = "own" /\ op.kind = "tiles" /\ UNCHANGED <<op, path>>
  BY DEF RowEdge, Running
<1>2. /\ MR \in Nat \ {0} /\ op.n \in Nat
      /\ I0(t) \in Nat /\ I1(t) \in Nat /\ i \in Nat /\ j \in Nat /\ op.m \in Nat
      /\ i < I1(t) /\ j < op.n
  BY <1>1, InOwnLoop DEF OpOK
<1>3. /\ Store(t, f) /\ i + MR > I1(t)
      /\ IF j + 1 < op.n THEN GoOn(t, TRUE, i, j + 1) ELSE GoOn(t, i + 1 < I1(t), i + 1, 0)
  BY DEF RowEdge
<1>4. DOMAIN f = rows \X cols
  BY DEF Products
<1> HIDE DEF f, i, j
<1>5. CASE j + 1 < op.n
  <2> DEFINE y == j + 1
             more == TRUE
  <2>1. GoOn(t, more, i, y)
    BY <1>3, <1>5
  <2>2. ASSUME NEW k \in 0 .. op.m - 1, NEW l \in 0 .. op.n - 1, Behind(t, k, l, i, y)
        PROVE  Behind(t, k, l, i, j) \/ (k \in rows /\ l \in cols)
    BY <2>2, <1>1, <1>2, <1>3 DEF Behind, Before
  <2> HIDE DEF y, more, rows, cols
  <2>3. \A k \in 0 .. op.m - 1, l \in 0 .. op.n - 1 :
            I0(t) <= k /\ k < I1(t) /\ (more => Behind(t, k, l, i, y)) =>
                Behind(t, k, l, i, j) \/ (k \in rows /\ l \in cols)
    BY <2>2 DEF more
  <2> QED BY <2>1, <2>3, <1>1, <1>3, <1>4, PieceCover DEF i, j
<1>6. CASE ~(j + 1 < op.n)
  <2> DEFINE x == i + 1
             more == x < I1(t)
  <2>1. GoOn(t, more, x, 0)
    BY <1>3, <1>6
  <2>2. ASSUME NEW k \in 0 .. op.m - 1, NEW l \in 0 .. op.n - 1, k < I1(t),
               more => Behind(t, k, l, x, 0)
        PROVE  Behind(t, k, l, i, j) \/ (k \in rows /\ l \in cols)
    <3>1. k < i + 1
      BY <2>2, <1>1, <1>2 DEF Behind, Before
    <3> QED BY <3>1, <1>1, <1>2, <1>3, <1>6 DEF Behind, Before
  <2> HIDE DEF x, more, rows, cols
  <2> QED BY <2>1, <2>2, <1>1, <1>3, <1>4, PieceCover DEF i, j
<1> QED BY <1>5, <1>6

LEMMA SlabCover ==
  ASSUME CoverOK, IInv, NEW t \in Ith, Slab(t)
  PROVE  CoverOK'
<1>1. /\ OpOK /\ PlacesOK /\ path[t] = "own" /\ UNCHANGED <<op, path, c, writers>> /\ pc[t] = "own"
      /\ op.kind = "slabs" /\ Covered(t)
  BY InOwnLoop DEF Slab, Running, IInv, CoverOK
<1>2. pc'[t] = "own" /\ tile'[t] = <<tile[t][1], tile[t][2] + 1>> /\ Others(t)
  BY <1>1, OwnMoves DEF Slab, GoOn, PlacesOK, OwnStep
<1>3. \A i, j : Owns(t, i, j)' = Owns(t, i, j) /\ Address(i, j)' = Address(i, j)
  BY <1>1 DEF Owns, OwnerHeight, Height, InTiles, Address
<1>4. \A i, j : Passed(t, i, j)' <=> Passed(t, i, j)
  BY <1>1, <1>2 DEF Passed, Behind
<1>5. Covered(t)'
  BY <1>1, <1>2, <1>3, <1>4 DEF Covered
<1> QED BY <1>1, <1>2, <1>5, CoveredKept

LEMMA StoreSlabsCover ==
  ASSUME CoverOK, IInv, NEW t \in Ith, StoreSlabs(t)
  PROVE  CoverOK'
<1> DEFINE i == tile[t][1]
           rows == i .. MinOf(i + MR, I1(t)) - 1
           cols == 0 .. op.n - 1
           f == [z \in rows \X cols |-> own[t].fin[z[2] \div NR][<<z[1] - i, z[2] % NR>>]]
           more == i + MR < I1(t)
           x == i + MR
<1>1. pc[t] = "own" /\ op.kind = "slabs" /\ UNCHANGED <<op, path>>
  BY DEF StoreSlabs, Running
<1>2. /\ MR \in Nat \ {0} /\ I0(t) \in Nat /\ I1(t) \in Nat /\ i \in Nat /\ op.m \in Nat
      /\ i < I1(t)
  BY <1>1, InOwnLoop DEF OpOK
<1>3. Store(t, f) /\ GoOn(t, more, x, 0)
  BY DEF StoreSlabs
<1>4. DOMAIN f = rows \X cols
  OBVIOUS
<1> HIDE DEF i, f
<1>5. ASSUME NEW k \in 0 .. op.m - 1, NEW l \in 0 .. op.n - 1, k < I1(t),
             more => Behind(t, k, l, x, 0)
      PROVE  Behind(t, k, l, i, tile[t][2]) \/ (k \in rows /\ l \in cols)
  <2>1. k < i + MR
    BY <1>5, <1>1, <1>2 DEF Behind
  <2>2. k < i => Behind(t, k, l, i, tile[t][2])
    BY <1>1 DEF Behind
  <2>3. k >= i => k \in rows
    BY <2>1, <1>2, <1>5 DEF MinOf
  <2> QED BY <2>2, <2>3, <1>2
<1> HIDE DEF rows, more, x, cols
<1> QED BY <1>1, <1>3, <1>4, <1>5, PieceCover DEF i

LEMMA ColumnCover ==
  ASSUME CoverOK, IInv, NEW t \in Ith, Column(t)
  PROVE  CoverOK'
<1> DEFINE j == tile[t][2]
           rows == I0(t) .. I1(t) - 1
           cols == {j}
           f == Products(rows, cols)
           more == j + 1 < op.n
           y == j + 1
<1>1. pc[t] = "own" /\ op.kind = "gemv" /\ UNCHANGED <<op, path>>
  BY DEF Column, Running
<1>2. /\ op.n \in Nat /\ I0(t) \in Nat /\ I1(t) \in Nat /\ j \in Nat /\ j < op.n /\ op.m \in Nat
  BY <1>1, InOwnLoop DEF OpOK
<1>3. Store(t, f) /\ GoOn(t, more, 0, y)
  BY DEF Column
<1>4. DOMAIN f = rows \X cols
  BY DEF Products
<1> HIDE DEF j, f
<1>5. ASSUME NEW k \in 0 .. op.m - 1, NEW l \in 0 .. op.n - 1, I0(t) <= k, k < I1(t),
             more => Behind(t, k, l, 0, y)
      PROVE  Behind(t, k, l, tile[t][1], j) \/ (k \in rows /\ l \in cols)
  <2>1. l <= j /\ k \in rows
    BY <1>5, <1>1, <1>2 DEF Behind
  <2> QED BY <2>1, <1>1, <1>2 DEF Behind
<1> HIDE DEF rows, cols, more, y
<1> QED BY <1>1, <1>3, <1>4, <1>5, PieceCover DEF j

LEMMA PairCover ==
  ASSUME CoverOK, IInv, NEW t \in Ith, Pair(t)
  PROVE  CoverOK'
<1> DEFINE r == tile[t][1]
           xb == IF r + 1 < I1(t) THEN r + 1 ELSE r
           rows == {r, xb}
           cols == {0}
           f == Products(rows, cols)
           more == r + 2 < I1(t)
           x == r + 2
<1>1. pc[t] = "own" /\ op.kind = "pairs" /\ UNCHANGED <<op, path>>
  BY DEF Pair, Running
<1>2. /\ OpOK /\ I0(t) \in Nat /\ I1(t) \in Nat /\ r \in Nat /\ r < I1(t) /\ op.m \in Nat
      /\ op.n = 1
  BY <1>1, InOwnLoop DEF OpOK
<1>3. Store(t, f) /\ GoOn(t, more, x, 0)
  BY DEF Pair
<1>4. DOMAIN f = rows \X cols
  BY DEF Products
<1> HIDE DEF r, f
<1>5. ASSUME NEW k \in 0 .. op.m - 1, NEW l \in 0 .. op.n - 1, k < I1(t),
             more => Behind(t, k, l, x, 0)
      PROVE  Behind(t, k, l, r, tile[t][2]) \/ (k \in rows /\ l \in cols)
  <2>1. k < r + 2 /\ l \in cols
    BY <1>5, <1>1, <1>2 DEF Behind
  <2>2. k >= r => k \in rows
    BY <2>1, <1>2, <1>5
  <2>3. k < r => Behind(t, k, l, r, tile[t][2])
    BY <1>1 DEF Behind
  <2> QED BY <2>1, <2>2, <2>3, <1>2
<1> HIDE DEF rows, cols, more, x
<1> QED BY <1>1, <1>3, <1>4, <1>5, PieceCover DEF r

\* Moves before the loops, and the repacking of a tile in them.
LEMMA FillCover ==
  ASSUME CoverOK, IInv, NEW t \in Ith, Acquired(t) \/ Fill(t) \/ Filled(t) \/ Await(t)
  PROVE  CoverOK'
<1>1. UNCHANGED <<op, c, writers>> /\ OpOK /\ PlacesOK
  BY DEF Acquired, Fill, Filled, Await, IInv
<1>2. PICK place \in {"fill", "filled", "await", "choose"} : pc' = [pc EXCEPT ![t] = place]
  BY DEF Acquired, Fill, Filled, Await
<1>3. pc'[t] = place
  BY <1>1, <1>2 DEF PlacesOK
<1>4. path[t] # "own"
  BY CachedPath DEF ThreadStep
<1>5. Others(t)
  BY <1>4, CachedMoves DEF ThreadStep
<1>6. \A i \in 0 .. op.m - 1, j \in 0 .. op.n - 1 : ~Passed(t, i, j)'
  BY <1>3 DEF Passed
<1> QED BY <1>1, <1>3, <1>5, <1>6, NothingPassed

LEMMA RepackCover ==
  ASSUME CoverOK, IInv, NEW t \in Ith, RepackOne(t)
  PROVE  CoverOK'
<1>1. UNCHANGED <<op, path, tile, c, writers>> /\ OpOK /\ PlacesOK /\ Covered(t)
      /\ pc[t] = "tiles" /\ pc' = [pc EXCEPT ![t] = "repacked"]
  BY DEF RepackOne, IInv, CoverOK
<1>2. pc'[t] = "repacked" /\ Others(t)
  BY <1>1 DEF PlacesOK, Others
<1>3. \A i, j : Owns(t, i, j)' = Owns(t, i, j) /\ Address(i, j)' = Address(i, j)
  BY <1>1 DEF Owns, OwnerHeight, Height, InTiles, Address
<1>4. MyCol0(t)' = MyCol0(t)
  BY <1>1 DEF MyCol0, ColStart
<1>5. \A i, j : Passed(t, i, j)' <=> Passed(t, i, j)
  BY <1>1, <1>2, <1>4 DEF Passed
<1>6. Covered(t)'
  BY <1>1, <1>2, <1>3, <1>5 DEF Covered
<1> QED BY <1>1, <1>2, <1>6, CoveredKept

LEMMA ChooseCover ==
  ASSUME CoverOK, IInv, NEW t \in Ith, Refused(t) \/ Choose(t)
  PROVE  CoverOK'
<1>1. UNCHANGED <<op, c, writers>>
  BY DEF Refused, Choose
<1>2. CASE Refused(t)
  <2>1. Starts(t, "percall", ThreadTiles(TileCount(op.m, MR), t, op.nth), op.n)
    BY <1>2 DEF Refused
  <2>2. "percall" \in Loops \ {"own"}
    BY DEF Loops
  <2> QED BY <1>1, <2>1, <2>2, StartsCover
<1>3. CASE Choose(t) /\ ByRows
  <2> DEFINE p == IF op.kind \in {"grid", "grid16"} /\ op.n = 1 THEN "gemv" ELSE "rows"
  <2>1. Starts(t, p, ThreadTiles(TileCount(op.m, MR), t, op.nth), op.n)
    BY <1>3 DEF Choose
  <2>2. p \in Loops \ {"own"} /\ p # "columns"
    BY DEF Loops
  <2> HIDE DEF p
  <2> QED BY <1>1, <2>1, <2>2, StartsCover
<1>4. CASE Choose(t) /\ ~ByRows
  <2>1. Starts(t, "columns", RowTiles, ColCount(t))
    BY <1>4 DEF Choose
  <2>2. "columns" \in Loops \ {"own"}
    BY DEF Loops
  <2> QED BY <1>1, <2>1, <2>2, StartsCover
<1> QED BY <1>2, <1>3, <1>4

LEMMA CoverStep ==
  ASSUME IInv, CoverOK, [AllNext]_ownvars
  PROVE  CoverOK'
<1>1. ASSUME UNCHANGED vars PROVE CoverOK'
  <2>1. 0 \in Ith /\ OpOK /\ UNCHANGED <<op, pc, path, tile, c, writers>> /\ Covered(0)
    BY <1>1 DEF vars, IInv, OpOK, Ith, CoverOK
  <2>2. Others(0)
    BY <2>1 DEF Others
  <2>3. Covered(0)'
    <3>1. \A i, j : Owns(0, i, j)' = Owns(0, i, j) /\ Address(i, j)' = Address(i, j)
      BY <2>1 DEF Owns, OwnerHeight, Height, InTiles, Address
    <3>2. MyCol0(0)' = MyCol0(0) /\ I1(0)' = I1(0)
      BY <2>1 DEF MyCol0, ColStart, I1, Height, InTiles
    <3>3. \A i, j : Passed(0, i, j)' <=> Passed(0, i, j)
      BY <2>1, <3>2 DEF Passed, Behind
    <3> QED BY <2>1, <3>1, <3>3 DEF Covered
  <2> QED BY <2>1, <2>2, <2>3, CoveredKept
<1>2. ASSUME NEW t \in Ith, ThreadStep(t) PROVE CoverOK'
  BY <1>2, FillCover, RepackCover, ChooseCover, TileCover DEF ThreadStep
<1>3. ASSUME NEW t \in Ith, OwnStep(t) PROVE CoverOK'
  BY <1>3, EnterCover, WholeTileCover, ColumnEdgeCover, RowEdgeCover, SlabCover, StoreSlabsCover,
     ColumnCover, PairCover DEF OwnStep
<1> QED BY <1>1, <1>2, <1>3 DEF AllNext, Next, ownvars

LEMMA CoverInit == AllInit => CoverOK
<1>1. CASE Init
  <2>1. DOMAIN c = 0 .. op.ldc * op.n - 1 /\ pc = [t \in Ith |-> "acquire"]
    BY <1>1 DEF Init
  <2> QED BY <2>1 DEF CoverOK, Covered, Passed
<1>2. CASE OwnInit
  <2>1. DOMAIN c = 0 .. op.ldc * op.n - 1 /\ pc = [t \in Ith |-> "enter"]
    BY <1>2 DEF OwnInit
  <2> QED BY <2>1 DEF CoverOK, Covered, Passed
<1> QED BY <1>1, <1>2 DEF AllInit

LEMMA CoverHolds ==
  ASSUME ~RefusalsDiffer
  PROVE  AllSpec => []CoverOK
<1>1. AllInit => CoverOK
  BY CoverInit
<1>2. IInv /\ CoverOK /\ [AllNext]_ownvars => CoverOK'
  BY CoverStep
<1> QED BY <1>1, <1>2, IInvHolds, PTL DEF AllSpec

-----------------------------------------------------------------------------
(* What is stored.                                                          *)

\* Element a keeps its value, or thread t stores product p(i, j) into it.
Keeps(a) == c'[a] = c[a] /\ writers'[a] = writers[a]

StoresProduct(t, a) ==
    \E i \in 0 .. op.m - 1, j \in 0 .. op.n - 1 :
        a = Address(i, j) /\ c'[a] = DotProduct(i, j) /\ writers'[a] = writers[a] \cup {t}

\* A store of products is a store of products, wherever the loops of its driver are.
LEMMA StoreEffect ==
  ASSUME NEW t, NEW f, Store(t, f), NEW a \in DOMAIN c,
         \A z \in DOMAIN f : /\ z[1] \in 0 .. op.m - 1 /\ z[2] \in 0 .. op.n - 1
                             /\ f[z] = DotProduct(z[1], z[2])
  PROVE  Keeps(a) \/ StoresProduct(t, a)
<1> DEFINE hit == {z \in DOMAIN f : Address(z[1], z[2]) = a}
<1>1. /\ c'[a] = IF hit = {} THEN c[a] ELSE f[CHOOSE x \in hit : TRUE]
      /\ writers'[a] = IF hit = {} THEN writers[a] ELSE writers[a] \cup {t}
  BY DEF Store
<1>2. CASE hit = {}
  BY <1>1, <1>2 DEF Keeps
<1>3. CASE hit # {}
  <2> DEFINE z == CHOOSE x \in hit : TRUE
  <2>1. z \in hit
    BY <1>3
  <2> HIDE DEF z
  <2>2. z \in DOMAIN f /\ Address(z[1], z[2]) = a
    BY <2>1
  <2>3. c'[a] = f[z] /\ writers'[a] = writers[a] \cup {t}
    BY <1>1, <1>3 DEF z
  <2> QED BY <2>2, <2>3 DEF StoresProduct
<1> QED BY <1>2, <1>3

\* The products straight from the blocks.
LEMMA ProductsEffect ==
  ASSUME IInv, NEW t \in Ith, pc[t] = "own", NEW rows, NEW cols, Store(t, Products(rows, cols)),
         \A r \in rows : r \in Nat /\ r < I1(t), cols \subseteq 0 .. op.n - 1,
         NEW a \in DOMAIN c
  PROVE  Keeps(a) \/ StoresProduct(t, a)
<1> DEFINE f == Products(rows, cols)
<1>1. I1(t) \in Nat /\ I1(t) <= op.m /\ op.m \in Nat
  BY InOwnLoop, ShareBounds DEF OpOK
<1>2. DOMAIN f = rows \X cols /\ \A z \in rows \X cols : f[z] = DotProduct(z[1], z[2])
  BY DEF Products
<1>3. \A z \in rows \X cols : z[1] \in 0 .. op.m - 1 /\ z[2] \in 0 .. op.n - 1
  <2>1. rows \subseteq 0 .. op.m - 1
    BY <1>1
  <2> QED BY <2>1
<1> HIDE DEF f
<1>4. Store(t, f)
  BY DEF f
<1>5. \A z \in DOMAIN f : /\ z[1] \in 0 .. op.m - 1 /\ z[2] \in 0 .. op.n - 1
                          /\ f[z] = DotProduct(z[1], z[2])
  BY <1>2, <1>3
<1> QED BY <1>4, <1>5, StoreEffect

\* After the last slab the accumulators are the products.
LEMMA SlabsEffect ==
  ASSUME IInv, ShapeOK, MemoryOK, NEW t \in Ith, StoreSlabs(t), NEW a \in DOMAIN c
  PROVE  Keeps(a) \/ StoresProduct(t, a)
<1> DEFINE i == tile[t][1]
           s == tile[t][2]
           rows == i .. MinOf(i + MR, I1(t)) - 1
           cols == 0 .. op.n - 1
           f == [z \in rows \X cols |-> own[t].fin[z[2] \div NR][<<z[1] - i, z[2] % NR>>]]
<1>1. pc[t] = "own" /\ op.kind = "slabs" /\ s \notin Slabs /\ Store(t, f)
  BY DEF StoreSlabs, Running
<1>2. /\ MR \in Nat \ {0} /\ NR \in Nat \ {0} /\ op.n \in Nat \ {0} /\ I1(t) \in Nat /\ i \in Nat
      /\ s \in Nat /\ op.m \in Nat /\ I1(t) <= op.m
  <2>1. /\ OpOK /\ MR \in Nat \ {0} /\ NR \in Nat \ {0} /\ I1(t) \in Nat /\ i \in Nat /\ s \in Nat
    BY <1>1, InOwnLoop
  <2>2. I1(t) <= op.m
    BY <2>1, ShareBounds
  <2>3. op.n \in Nat \ {0} /\ op.m \in Nat
    BY <2>1 DEF OpOK
  <2> QED BY <2>1, <2>2, <2>3
<1>3. s > 0
  <2>1. Slabs = 0 .. CeilDiv(op.kb, KC) - 1 /\ CeilDiv(op.kb, KC) \in Nat /\ CeilDiv(op.kb, KC) > 0
    BY SlabBounds
  <2> QED BY <2>1, <1>1, <1>2
<1>4. GoodMemory(own[t], t, i, s)
  BY <1>1 DEF MemoryOK
<1> HIDE DEF i, s
<1>5. ASSUME NEW x \in rows, NEW y \in cols
      PROVE  x \in 0 .. op.m - 1 /\ f[<<x, y>>] = DotProduct(x, y)
  <2> DEFINE jt == y \div NR
             r == x - i
             j == y % NR
  <2>1. x \in Nat /\ x >= i /\ x < I1(t) /\ x < i + MR /\ y \in Nat /\ y < op.n
    BY <1>2 DEF MinOf
  <2>2. /\ jt \in Nat /\ j \in 0 .. NR - 1 /\ jt * NR + j = y
    BY <2>1, <1>2
  <2>3. jt \in ColTiles(op.n)
    BY <1>2, TileOfRow DEF ColTiles
  <2>4. r \in 0 .. MR - 1 /\ i + r = x /\ r < RowsLeft(t, i)
    BY <2>1, <1>2 DEF RowsLeft, MinOf
  <2>5. j < ColsLeft(jt)
    <3>1. jt * NR \in Nat
      BY <2>2, <1>2
    <3>2. j < op.n - jt * NR /\ j < NR /\ op.n - jt * NR \in Int
      BY <3>1, <2>1, <2>2, <1>2
    <3> QED BY <3>2 DEF ColsLeft, MinOf
  <2>6. own[t].fin[jt][<<r, j>>] = Partial(i + r, jt * NR + j, s)
    BY <2>2, <2>3, <2>4, <2>5, <1>3, <1>4 DEF GoodMemory
  <2>7. f[<<x, y>>] = own[t].fin[jt][<<r, j>>]
    OBVIOUS
  <2>8. Partial(x, y, s) = DotProduct(x, y)
    BY <1>1, <1>2, AllSlabs DEF s
  <2>9. x \in 0 .. op.m - 1
    BY <2>1, <1>2
  <2> QED BY <2>2, <2>4, <2>6, <2>7, <2>8, <2>9
<1>6. DOMAIN f = rows \X cols
  OBVIOUS
<1> HIDE DEF f, rows
<1>7. \A z \in DOMAIN f : /\ z[1] \in 0 .. op.m - 1 /\ z[2] \in 0 .. op.n - 1
                          /\ f[z] = DotProduct(z[1], z[2])
  BY <1>5, <1>6
<1> QED BY <1>1, <1>7, StoreEffect

\* Whatever a driver without the cache stores is a product.
LEMMA OwnEffect ==
  ASSUME IInv, ShapeOK, MemoryOK, NEW t \in Ith, OwnStep(t), NEW a \in DOMAIN c
  PROVE  Keeps(a) \/ StoresProduct(t, a)
<1> DEFINE i == tile[t][1]
           j == tile[t][2]
<1>1. CASE Enter(t) \/ Slab(t)
  BY <1>1 DEF Enter, Slab, Keeps
<1>2. pc[t] = "own" => /\ MR \in Nat \ {0} /\ NR \in Nat \ {0} /\ op.n \in Nat
                       /\ I0(t) \in Nat /\ I1(t) \in Nat /\ i \in Nat /\ j \in Nat
                       /\ op.kind # "gemv" => I0(t) <= i /\ i < I1(t)
                       /\ op.kind \in {"tiles", "gemv"} => j < op.n
                       /\ op.kind = "pairs" => op.n = 1
  BY InOwnLoop DEF OpOK
<1>3. CASE WholeTile(t)
  <2> DEFINE rows == i .. i + MR - 1
             cols == j .. j + NR - 1
  <2>1. /\ pc[t] = "own" /\ Store(t, Products(rows, cols)) /\ op.kind = "tiles"
        /\ i + MR <= I1(t) /\ j + NR <= op.n
    BY <1>3 DEF WholeTile, Running
  <2> HIDE DEF i, j
  <2>2. /\ MR \in Nat \ {0} /\ NR \in Nat \ {0} /\ op.n \in Nat /\ I1(t) \in Nat
        /\ i \in Nat /\ j \in Nat /\ i < I1(t) /\ j < op.n
    BY <2>1, <1>2
  <2>3. \A r \in rows : r \in Nat /\ r < I1(t)
    BY <2>1, <2>2
  <2>4. cols \subseteq 0 .. op.n - 1
    BY <2>1, <2>2
  <2> HIDE DEF rows, cols
  <2> QED BY <2>1, <2>3, <2>4, ProductsEffect
<1>4. CASE ColumnEdge(t)
  <2> DEFINE rows == i .. i + MR - 1
             cols == {j}
  <2>1. /\ pc[t] = "own" /\ Store(t, Products(rows, cols)) /\ op.kind = "tiles" /\ i + MR <= I1(t)
    BY <1>4 DEF ColumnEdge, Running
  <2> HIDE DEF i, j
  <2>2. /\ MR \in Nat \ {0} /\ NR \in Nat \ {0} /\ op.n \in Nat /\ I1(t) \in Nat
        /\ i \in Nat /\ j \in Nat /\ i < I1(t) /\ j < op.n
    BY <2>1, <1>2
  <2>3. \A r \in rows : r \in Nat /\ r < I1(t)
    BY <2>1, <2>2
  <2>4. cols \subseteq 0 .. op.n - 1
    BY <2>1, <2>2
  <2> HIDE DEF rows, cols
  <2> QED BY <2>1, <2>3, <2>4, ProductsEffect
<1>5. CASE RowEdge(t)
  <2> DEFINE rows == {i}
             cols == {j}
  <2>1. pc[t] = "own" /\ Store(t, Products(rows, cols)) /\ op.kind = "tiles"
    BY <1>5 DEF RowEdge, Running
  <2> HIDE DEF i, j
  <2>2. /\ MR \in Nat \ {0} /\ NR \in Nat \ {0} /\ op.n \in Nat /\ I1(t) \in Nat
        /\ i \in Nat /\ j \in Nat /\ i < I1(t) /\ j < op.n
    BY <2>1, <1>2
  <2>3. \A r \in rows : r \in Nat /\ r < I1(t)
    BY <2>1, <2>2
  <2>4. cols \subseteq 0 .. op.n - 1
    BY <2>1, <2>2
  <2> HIDE DEF rows, cols
  <2> QED BY <2>1, <2>3, <2>4, ProductsEffect
<1>6. CASE StoreSlabs(t)
  BY <1>6, SlabsEffect
<1>7. CASE Column(t)
  <2> DEFINE rows == I0(t) .. I1(t) - 1
             cols == {j}
  <2>1. pc[t] = "own" /\ Store(t, Products(rows, cols)) /\ op.kind = "gemv"
    BY <1>7 DEF Column, Running
  <2> HIDE DEF i, j
  <2>2. (\A r \in rows : r \in Nat /\ r < I1(t)) /\ cols \subseteq 0 .. op.n - 1
    BY <2>1, <1>2
  <2> HIDE DEF rows, cols
  <2> QED BY <2>1, <2>2, ProductsEffect
<1>8. CASE Pair(t)
  <2> DEFINE rows == {i, IF i + 1 < I1(t) THEN i + 1 ELSE i}
             cols == {0}
  <2>1. pc[t] = "own" /\ Store(t, Products(rows, cols)) /\ op.kind = "pairs"
    BY <1>8 DEF Pair, Running
  <2> HIDE DEF i, j
  <2>2. i \in Nat /\ i < I1(t) /\ I1(t) \in Nat /\ op.n = 1
    BY <2>1, <1>2
  <2>3. (\A r \in rows : r \in Nat /\ r < I1(t)) /\ cols \subseteq 0 .. op.n - 1
    <3>1. i + 1 < I1(t) => \A r \in rows : r = i \/ r = i + 1
      OBVIOUS
    <3>2. ~(i + 1 < I1(t)) => \A r \in rows : r = i
      OBVIOUS
    <3>3. cols \subseteq 0 .. op.n - 1
      BY <2>2
    <3> HIDE DEF rows, cols
    <3> QED BY <2>2, <3>1, <3>2, <3>3
  <2> HIDE DEF rows, cols
  <2> QED BY <2>1, <2>3, ProductsEffect
<1> QED BY <1>1, <1>3, <1>4, <1>5, <1>6, <1>7, <1>8 DEF OwnStep

\* What a thread of a driver with the cache stores, in the coordinates of its register tile.
StoresLane(t, a) ==
    \E r \in RowsOf(tile[t][1]), q \in ColsOf(t, tile[t][2]) :
        /\ a = Address(tile[t][1] * MR + r, MyCol0(t) + tile[t][2] * NR + q)
        /\ c'[a] = Accumulate(TileOfA(t, tile[t][1]), PackB(MyCol0(t), MyCols(t))[tile[t][2]], r, q)
        /\ writers'[a] = writers[a] \cup {t}

\* A register tile stores its own lanes and nothing else.
LEMMA TileEffect ==
  ASSUME NEW t \in Ith, Tile(t), NEW a \in DOMAIN c
  PROVE  Keeps(a) \/ StoresLane(t, a)
<1> DEFINE rt == tile[t][1]
           ct == tile[t][2]
           ta == TileOfA(t, rt)
           tb == PackB(MyCol0(t), MyCols(t))[ct]
           hit == {x \in RowsOf(rt) \X ColsOf(t, ct) :
                      Address(rt * MR + x[1], MyCol0(t) + ct * NR + x[2]) = a}
           x == CHOOSE x \in hit : TRUE
<1>1. /\ c'[a] = IF hit = {} THEN c[a] ELSE Accumulate(ta, tb, x[1], x[2])
      /\ writers'[a] = IF hit = {} THEN writers[a] ELSE writers[a] \cup {t}
  BY DEF Tile
<1>2. hit # {} => x \in hit
  OBVIOUS
<1>3. hit # {} => /\ x[1] \in RowsOf(rt) /\ x[2] \in ColsOf(t, ct)
                  /\ a = Address(rt * MR + x[1], MyCol0(t) + ct * NR + x[2])
  BY <1>2
<1> HIDE DEF x, hit
<1> QED BY <1>1, <1>3 DEF Keeps, StoresLane

LEMMA OtherEffect ==
  ASSUME NEW t, ThreadStep(t), ~Tile(t), NEW a
  PROVE  Keeps(a)
BY DEF ThreadStep, Refused, Acquired, Fill, Filled, Await, Choose, RepackOne, Keeps

-----------------------------------------------------------------------------
(* No element is missed.                                                    *)

\* What a new allocation holds is not itself a sum of products.
JunkIsNoProduct == \A P \in SUBSET (Nat \X Nat) : Junk # [p \in P |-> Junk[p]]

\* A product cannot be mistaken for what an allocation left.
LEMMA NotJunk ==
  ASSUME ShapeOK, JunkIsNoProduct, NEW i, NEW j, NEW ta, NEW tb
  PROVE  DotProduct(i, j) # Junk /\ Accumulate(ta, tb, i, j) # Junk
<1>1. ASSUME NEW P \in SUBSET (Nat \X Nat), NEW f, f = [p \in P |-> f[p]]
      PROVE  f # Junk
  BY <1>1 DEF JunkIsNoProduct
<1>2. Slabs \subseteq Nat /\ 0 .. KC - 1 \subseteq Nat
  BY SlabBounds
<1>3. Positions \in SUBSET (Nat \X Nat)
  BY <1>2 DEF Positions
<1> DEFINE P == {q \in Slabs \X (0 .. KC - 1) : q[1] * KC + q[2] < op.kb}
<1>4. P \in SUBSET (Nat \X Nat)
  BY <1>2
<1>5. DotProduct(i, j) = [p \in P |-> DotProduct(i, j)[p]]
  BY DEF DotProduct
<1>6. Accumulate(ta, tb, i, j) = [p \in Positions |-> Accumulate(ta, tb, i, j)[p]]
  BY DEF Accumulate
<1> HIDE DEF P
<1> QED BY <1>1, <1>3, <1>4, <1>5, <1>6

WrittenOK == \A a \in DOMAIN c : writers[a] # {} => c[a] # Junk

\* An operation keeps its shape and its matrix.
LEMMA SameMatrix ==
  ASSUME IInv, ShapeOK, [AllNext]_ownvars
  PROVE  op' = op /\ DOMAIN c' = DOMAIN c
<1>1. CASE UNCHANGED vars
  BY <1>1 DEF vars
<1>2. ASSUME NEW t \in Ith, ThreadStep(t) PROVE op' = op /\ DOMAIN c' = DOMAIN c
  <2>1. op' = op
    BY <1>2, CachedPath, CachedMoves
  <2>2. DOMAIN c' = DOMAIN c
    BY <1>2 DEF ThreadStep, Refused, Acquired, Fill, Filled, Await, Choose, RepackOne, Tile
  <2> QED BY <2>1, <2>2
<1>3. ASSUME NEW t \in Ith, OwnStep(t) PROVE op' = op /\ DOMAIN c' = DOMAIN c
  <2>1. op' = op
    BY <1>3, OwnMoves
  <2>2. ASSUME NEW f, Store(t, f) PROVE DOMAIN c' = DOMAIN c
    BY <2>2 DEF Store
  <2>3. DOMAIN c' = DOMAIN c
    BY <1>3, <2>2 DEF OwnStep, Enter, WholeTile, ColumnEdge, RowEdge, Slab, StoreSlabs, Column, Pair
  <2> QED BY <2>1, <2>3
<1> QED BY <1>1, <1>2, <1>3 DEF AllNext, Next, ownvars

LEMMA WrittenStep ==
  ASSUME IInv, ShapeOK, MemoryOK, WrittenOK, JunkIsNoProduct, [AllNext]_ownvars
  PROVE  WrittenOK'
<1>1. DOMAIN c' = DOMAIN c
  BY SameMatrix
<1>2. ASSUME NEW a \in DOMAIN c, Keeps(a) PROVE writers'[a] # {} => c'[a] # Junk
  BY <1>2 DEF Keeps, WrittenOK
<1>3. CASE UNCHANGED vars
  BY <1>3 DEF vars, WrittenOK
<1>4. ASSUME NEW t \in Ith, ThreadStep(t), NEW a \in DOMAIN c PROVE writers'[a] # {} => c'[a] # Junk
  <2>1. CASE Tile(t)
    <3>1. StoresLane(t, a) => c'[a] # Junk
      BY NotJunk DEF StoresLane
    <3> QED BY <1>2, <2>1, <3>1, TileEffect
  <2>2. CASE ~Tile(t)
    BY <1>2, <1>4, <2>2, OtherEffect
  <2> QED BY <2>1, <2>2
<1>5. ASSUME NEW t \in Ith, OwnStep(t), NEW a \in DOMAIN c PROVE writers'[a] # {} => c'[a] # Junk
  <2>1. StoresProduct(t, a) => c'[a] # Junk
    BY NotJunk DEF StoresProduct
  <2> QED BY <1>2, <1>5, <2>1, OwnEffect
<1> QED BY <1>1, <1>3, <1>4, <1>5 DEF AllNext, Next, ownvars, WrittenOK

LEMMA WrittenHolds ==
  ASSUME ~RefusalsDiffer, JunkIsNoProduct
  PROVE  AllSpec => []WrittenOK
<1>1. AllInit => WrittenOK
  BY DEF AllInit, Init, OwnInit, WrittenOK
<1>2. IInv /\ ShapeOK /\ MemoryOK /\ WrittenOK /\ [AllNext]_ownvars => WrittenOK'
  BY WrittenStep
<1> QED BY <1>1, <1>2, IInvHolds, ShapeHolds, MemoryHolds, PTL DEF AllSpec

\* When all threads are in or past their loops, every element is in a share.
LEMMA SomeOwner ==
  ASSUME IInv, \A t \in Ith : path[t] \in Loops,
         NEW i \in 0 .. op.m - 1, NEW j \in 0 .. op.n - 1
  PROVE  \E t \in Ith : Owns(t, i, j)
<1>1. /\ op.m \in Nat \ {0} /\ op.n \in Nat \ {0} /\ op.nth \in Nat \ {0}
      /\ NR \in Nat \ {0} /\ MR \in Nat \ {0} /\ 0 \in Ith /\ Ith = 0 .. op.nth - 1
  BY GeometryAssumption DEF IInv, OpOK, Ith
<1> DEFINE h == OwnerHeight(0)
<1>2. \A u \in Ith : (path[u] = "columns") = (path[0] = "columns") /\ OwnerHeight(u) = h
  BY <1>1, SameRule
<1>3. h \in Nat \ {0}
  BY <1>1 DEF OwnerHeight, Height
<1> HIDE DEF h
<1>4. CASE path[0] = "columns"
  <2>1. j \div NR \in 0 .. TileCount(op.n, NR) - 1 /\ TileCount(op.n, NR) \in Nat
    BY <1>1, TileOfRow, CeilBounds DEF TileCount
  <2>2. \E u \in 0 .. op.nth - 1 : j \div NR \in ThreadTiles(TileCount(op.n, NR), u, op.nth)
    BY <2>1, <1>1, EveryTileOnce
  <2>3. PICK u \in Ith : j \div NR \in ThreadTiles(TileCount(op.n, NR), u, op.nth)
    BY <2>2, <1>1
  <2>4. path[u] = "columns"
    BY <1>2, <1>4
  <2> QED BY <2>3, <2>4 DEF Owns
<1>5. CASE path[0] # "columns"
  <2>1. i \div h \in 0 .. TileCount(op.m, h) - 1 /\ TileCount(op.m, h) \in Nat
    BY <1>1, <1>3, TileOfRow, CeilBounds DEF TileCount
  <2>2. \E u \in 0 .. op.nth - 1 : i \div h \in ThreadTiles(TileCount(op.m, h), u, op.nth)
    BY <2>1, <1>1, EveryTileOnce
  <2>3. PICK u \in Ith : i \div h \in ThreadTiles(TileCount(op.m, h), u, op.nth)
    BY <2>2, <1>1
  <2>4. path[u] # "columns" /\ OwnerHeight(u) = h
    BY <1>2, <1>5
  <2> QED BY <2>3, <2>4 DEF Owns
<1> QED BY <1>4, <1>5

\* When the last thread is done no element of the result is missed, by any driver, for any
\* shape, leading dimension, tile and slab size and team, as long as the cache answers the
\* threads of an operation alike: the shares cover the matrix, and each thread's loops,
\* with their ragged last tiles, rows and columns, leave no element of its share behind.
THEOREM NothingIsMissed ==
  ASSUME ~RefusalsDiffer, JunkIsNoProduct
  PROVE  AllSpec => []NoElementMissed
<1>1. IInv /\ CoverOK /\ WrittenOK => NoElementMissed
  <2>1. SUFFICES ASSUME IInv, CoverOK, WrittenOK, AllDone,
                        NEW i \in 0 .. op.m - 1, NEW j \in 0 .. op.n - 1
                 PROVE  c[Address(i, j)] # Junk
    BY DEF NoElementMissed, Elements
  <2>2. \A t \in Ith : pc[t] = "end" /\ Covered(t) /\ path[t] \in Loops
    BY <2>1 DEF AllDone, CoverOK, Covered
  <2>3. PICK t \in Ith : Owns(t, i, j)
    BY <2>1, <2>2, SomeOwner
  <2>4. t \in writers[Address(i, j)]
    BY <2>2, <2>3 DEF Covered, Passed
  <2>5. Address(i, j) \in DOMAIN c
    BY <2>1, AddressInC DEF CoverOK, IInv
  <2> QED BY <2>1, <2>4, <2>5 DEF WrittenOK
<1> QED BY <1>1, IInvHolds, CoverHolds, WrittenHolds, PTL

-----------------------------------------------------------------------------
(* Cells.                                                                   *)

\* Division by the multiple that fits.
LEMMA Quotient ==
  ASSUME NEW a \in Nat, NEW b \in Nat \ {0}, NEW q \in Nat, q * b <= a, a < q * b + b
  PROVE  a \div b = q /\ a % b = a - q * b
<1> DEFINE d == a \div b
<1>1. d \in Nat /\ b * d <= a /\ a < b * d + b
  BY DivBounds
<1>2. a % b = a - b * d
  OBVIOUS
<1> HIDE DEF d
<1>3. b * d = d * b
  BY <1>1
<1>4. d = q
  BY <1>1, <1>3, SameMultiple
<1> QED BY <1>2, <1>3, <1>4 DEF d

\* Whole multiples of the divisor go into the quotient.
LEMMA ShiftedQuotient ==
  ASSUME NEW o \in Nat, NEW b \in Nat \ {0}, NEW k \in Nat
  PROVE  (o + k * b) \div b = o \div b + k /\ (o + k * b) % b = o % b
<1> DEFINE d == o \div b
           a == o + k * b
<1>1. d \in Nat /\ b * d <= o /\ o < b * d + b /\ o % b = o - b * d
  BY DivBounds
<1> HIDE DEF d
<1>2. (d + k) * b = b * d + k * b /\ k * b \in Nat /\ b * d \in Nat
  BY <1>1
<1>3. a \in Nat /\ (d + k) * b <= a /\ a < (d + k) * b + b /\ d + k \in Nat
  BY <1>1, <1>2
<1> HIDE DEF a
<1>4. a \div b = d + k /\ a % b = a - (d + k) * b
  BY <1>3, Quotient
<1>5. a % b = o % b
  BY <1>1, <1>2, <1>4 DEF a
<1> QED BY <1>4, <1>5 DEF d, a

\* In a memory of tiles of S slabs of Z cells: the slab of cell a, cell o from tile k on,
\* and cell x of slab s of tile w.
SlabOfCell(S, Z, a)   == (a \div Z) % S
CellFrom(S, Z, k, o)  == o + k * S * Z
CellAt(S, Z, w, s, x) == (w * S + s) * Z + x

\* The cells of a slice are those of its tiles, counted from its base.
LEMMA CellOfSlice ==
  ASSUME NEW S \in Nat \ {0}, NEW Z \in Nat \ {0}, NEW k \in Nat, NEW o \in Nat
  PROVE  /\ CellFrom(S, Z, k, o) \div (Z * S) = o \div (Z * S) + k
         /\ SlabOfCell(S, Z, CellFrom(S, Z, k, o)) = SlabOfCell(S, Z, o)
         /\ CellFrom(S, Z, k, o) % Z = o % Z
<1> DEFINE a == o + k * S * Z
<1>1. k * S \in Nat /\ (k * S) * Z = k * (Z * S) /\ Z * S \in Nat \ {0}
  OBVIOUS
<1>2. a \div (Z * S) = o \div (Z * S) + k
  <2> DEFINE b == Z * S
  <2>1. b \in Nat \ {0} /\ a = o + k * b
    BY <1>1
  <2> HIDE DEF b
  <2>2. (o + k * b) \div b = o \div b + k
    BY <2>1, ShiftedQuotient
  <2> QED BY <2>1, <2>2 DEF b
<1>3. a \div Z = o \div Z + k * S /\ a % Z = o % Z
  <2> DEFINE e == k * S
  <2>1. e \in Nat /\ a = o + e * Z
    BY <1>1
  <2> HIDE DEF e
  <2>2. (o + e * Z) \div Z = o \div Z + e /\ (o + e * Z) % Z = o % Z
    BY <2>1, ShiftedQuotient
  <2> QED BY <2>1, <2>2 DEF e
<1>4. (a \div Z) % S = (o \div Z) % S
  <2> DEFINE d == o \div Z
  <2>1. d \in Nat
    BY DivBounds
  <2> HIDE DEF d
  <2>2. (d + k * S) % S = d % S
    BY <2>1, ShiftedQuotient
  <2> QED BY <2>2, <1>3 DEF d
<1>5. CellFrom(S, Z, k, o) = a
  BY DEF CellFrom
<1>6. SlabOfCell(S, Z, a) = SlabOfCell(S, Z, o)
  BY <1>4 DEF SlabOfCell
<1> HIDE DEF a
<1> QED BY <1>2, <1>3, <1>5, <1>6

\* Where the cells of a slab are.
LEMMA CellOfSlab ==
  ASSUME NEW S \in Nat \ {0}, NEW Z \in Nat \ {0}, NEW w \in Nat, NEW s \in 0 .. S - 1,
         NEW x \in 0 .. Z - 1
  PROVE  /\ CellAt(S, Z, w, s, x) \in Nat /\ CellAt(S, Z, w, s, x) < (w + 1) * (Z * S)
         /\ CellAt(S, Z, w, s, x) \div (Z * S) = w
         /\ SlabOfCell(S, Z, CellAt(S, Z, w, s, x)) = s
         /\ CellAt(S, Z, w, s, x) % Z = x
<1> DEFINE u == w * S + s
           a == u * Z + x
<1>1. w * S \in Nat /\ u \in Nat
  OBVIOUS
<1>2. u * Z \in Nat
  BY <1>1
<1>3. a \div Z = u /\ a % Z = x
  <2> HIDE DEF u
  <2> QED BY <1>1, <1>2, Quotient
<1>4. u % S = s /\ u \div S = w
  BY <1>1, Quotient
<1>5. s * Z + x \in Nat /\ s * Z + x < S * Z
  <2>1. s * Z \in Nat /\ (s + 1) * Z = s * Z + Z /\ (s + 1) * Z <= S * Z
    <3>1. s \in Nat /\ s + 1 <= S
      OBVIOUS
    <3> QED BY <3>1
  <2> QED BY <2>1
<1>6. a = (s * Z + x) + w * S * Z /\ w * S * Z = w * (Z * S) /\ S * Z = Z * S
  <2>1. u * Z = w * S * Z + s * Z
    OBVIOUS
  <2> QED BY <2>1
<1>7. a \div (Z * S) = w
  <2> DEFINE b == Z * S
             o == s * Z + x
  <2>1. b \in Nat \ {0} /\ o \in Nat /\ o < b /\ a = o + w * b
    BY <1>5, <1>6
  <2>2. a \in Nat
    BY <1>2
  <2> HIDE DEF b, a, o
  <2>3. w * b \in Nat
    BY <2>1
  <2>4. a \div b = w
    BY <2>1, <2>2, <2>3, Quotient
  <2> QED BY <2>4 DEF b
<1>8. a \in Nat /\ a < (w + 1) * (Z * S)
  <2>1. (w + 1) * (Z * S) = w * S * Z + S * Z /\ a \in Nat
    BY <1>2
  <2> DEFINE e == w * S * Z
             h == S * Z
             o == s * Z + x
  <2>2. a = o + e /\ o \in Nat /\ o < h /\ e \in Nat /\ h \in Nat
    BY <1>5, <1>6
  <2> HIDE DEF a, e, h, o
  <2>3. a < e + h
    BY <2>2
  <2> QED BY <2>1, <2>3 DEF e, h
<1>9. CellAt(S, Z, w, s, x) = a
  BY DEF CellAt
<1>10. SlabOfCell(S, Z, a) = s
  BY <1>3, <1>4 DEF SlabOfCell
<1> HIDE DEF a, u
<1> QED BY <1>3, <1>7, <1>8, <1>9, <1>10

-----------------------------------------------------------------------------
(* The pack.                                                                *)

\* The row tile of cell a, and the cell of a finished pack.
TileOfCell(a) == a \div (Size * Cardinality(Slabs))
WholeCell(a)  == <<RepackA(0, op.m, TileOfCell(a))[(a \div Size) % Cardinality(Slabs)], a % Size>>

\* The slices of every driver are counted in the structure of its pack.
OneStructure == \A k \in Kinds : SliceUnit[k] = TileSize[k]

\* The slabs are numbered without gaps.
LEMMA SlabCount ==
  ASSUME ShapeOK
  PROVE  Cardinality(Slabs) \in Nat \ {0} /\ Slabs = 0 .. Cardinality(Slabs) - 1
<1> DEFINE n == CeilDiv(op.kb, KC)
<1>1. n \in Nat /\ n > 0 /\ Slabs = 0 .. n - 1
  BY SlabBounds
<1> HIDE DEF n
<1>2. Cardinality(0 .. n - 1) = IF 0 > n - 1 THEN 0 ELSE n - 1 - 0 + 1
  BY <1>1, FS_Interval
<1> QED BY <1>1, <1>2

\* Every cell of a pack is of one of the row tiles and of one of the slabs.
LEMMA CellNumbers ==
  ASSUME ShapeOK, OpOK, op.kind \in Kinds
  PROVE  /\ Size \in Nat \ {0} /\ MR \in Nat \ {0} /\ op.m \in Nat \ {0}
         /\ TileCount(op.m, MR) \in Nat \ {0}
         /\ Cells = 0 .. TileCount(op.m, MR) * Cardinality(Slabs) * Size - 1
         /\ \A a \in Cells : /\ a \in Nat /\ TileOfCell(a) \in 0 .. TileCount(op.m, MR) - 1
                             /\ (a \div Size) % Cardinality(Slabs) \in Slabs
<1> DEFINE n == TileCount(op.m, MR)
           S == Cardinality(Slabs)
           Z == Size
           b == Z * S
<1>1. Z \in Nat \ {0} /\ MR \in Nat \ {0} /\ op.m \in Nat \ {0} /\ S \in Nat \ {0} /\ Slabs = 0 .. S - 1
  BY GeometryAssumption, SlabCount DEF Size, OpOK
<1>2. n \in Nat \ {0}
  <2>1. op.m \in Nat /\ op.m > 0 /\ MR \in Nat \ {0}
    BY <1>1
  <2>2. CeilDiv(op.m, MR) \in Nat /\ CeilDiv(op.m, MR) > 0
    BY <2>1, CeilBounds
  <2> QED BY <2>2 DEF TileCount
<1>3. Cells = 0 .. n * S * Z - 1
  BY DEF Cells
<1> HIDE DEF n, S, Z
<1>4. n * S * Z = n * b /\ b \in Nat \ {0} /\ n * b \in Nat
  BY <1>1, <1>2
<1>5. ASSUME NEW a \in Cells
      PROVE  a \in Nat /\ TileOfCell(a) \in 0 .. n - 1 /\ (a \div Z) % S \in Slabs
  <2>1. a \in Nat /\ a < n * b
    BY <1>3, <1>4, <1>5
  <2>2. a \div b < n
    <3> HIDE DEF b
    <3> QED BY <2>1, <1>2, <1>4, RowAgainstTile
  <2>3. a \div b \in Nat
    BY <2>1, <1>4, DivBounds
  <2>4. (a \div Z) % S \in Slabs
    <3>1. a \div Z \in Nat
      BY <2>1, <1>1, DivBounds
    <3> QED BY <3>1, <1>1
  <2>5. TileOfCell(a) = a \div b
    BY DEF TileOfCell, S, Z
  <2> QED BY <2>1, <2>2, <2>3, <2>4, <2>5, <1>2
<1> QED BY <1>1, <1>2, <1>3, <1>5 DEF n, S, Z

\* The serial packer makes every cell of the pack.
LEMMA PackedWhole ==
  ASSUME ShapeOK, OpOK, op.kind \in Kinds, NEW mem, NEW a \in Cells
  PROVE  PackInto(mem, 0, 0, op.m)[a] = WholeCell(a)
<1>1. a \in Nat /\ a - 0 = a /\ TileOfCell(a) < TileCount(op.m, MR)
  BY CellNumbers
<1> QED BY <1>1 DEF PackInto, WholeCell, TileOfCell

\* A row tile packed as part of a slice is that of the whole matrix: the clamping to the
\* rows of the slice is the clamping to the rows of the matrix.
LEMMA SliceTile ==
  ASSUME ShapeOK, OpOK, NEW first \in Nat, NEW end \in Nat, end <= TileCount(op.m, MR),
         NEW w \in Nat, first <= w, w < end,
         NEW rows, rows = MinOf(end * MR, op.m) - first * MR
  PROVE  RepackA(first * MR, rows, w - first) = RepackA(0, op.m, w)
<1>1. MR \in Nat \ {0} /\ op.m \in Nat \ {0}
  BY GeometryAssumption DEF OpOK
<1>2. ASSUME NEW r \in 0 .. MR - 1
      PROVE  first * MR + Clamp((w - first) * MR + r, rows) = 0 + Clamp(w * MR + r, op.m)
  <2> DEFINE f == first * MR
             e == end * MR
             u == w * MR
  <2>1. f \in Nat /\ e \in Nat /\ u \in Nat /\ (w - first) * MR = u - f
    BY <1>1
  <2>2. u + MR <= e
    <3>1. w + 1 <= end
      OBVIOUS
    <3>2. (w + 1) * MR <= end * MR /\ (w + 1) * MR = u + MR
      BY <3>1, <1>1
    <3> QED BY <3>2
  <2>3. rows = MinOf(e, op.m) - f
    OBVIOUS
  <2>4. r \in Nat /\ r < MR
    BY <1>1
  <2> HIDE DEF f, e, u
  <2>5. f + Clamp(u - f + r, rows) = Clamp(u + r, op.m)
    BY <2>1, <2>2, <2>3, <2>4, <1>1 DEF Clamp, MinOf
  <2>6. Clamp(u + r, op.m) \in Int
    BY <2>1, <2>4, <1>1 DEF Clamp
  <2>7. (w - first) * MR + r = u - f + r
    BY <2>1
  <2> QED BY <2>5, <2>6, <2>7 DEF f, u
<1>3. ASSUME NEW s \in Slabs, NEW x \in (0 .. MR - 1) \X (0 .. KC - 1)
      PROVE  (IF x[2] \in Depth(s)
              THEN <<first * MR + Clamp((w - first) * MR + x[1], rows), s * KC + x[2]>> ELSE Junk)
             = (IF x[2] \in Depth(s) THEN <<0 + Clamp(w * MR + x[1], op.m), s * KC + x[2]>> ELSE Junk)
  <2>1. x[1] \in 0 .. MR - 1
    OBVIOUS
  <2>2. first * MR + Clamp((w - first) * MR + x[1], rows) = 0 + Clamp(w * MR + x[1], op.m)
    BY <2>1, <1>2
  <2> QED BY <2>2
<1>4. RepackA(first * MR, rows, w - first) = [s \in Slabs |-> [x \in (0 .. MR - 1) \X (0 .. KC - 1) |->
         IF x[2] \in Depth(s)
         THEN <<first * MR + Clamp((w - first) * MR + x[1], rows), s * KC + x[2]>> ELSE Junk]]
  BY DEF RepackA
<1>5. RepackA(0, op.m, w) = [s \in Slabs |-> [x \in (0 .. MR - 1) \X (0 .. KC - 1) |->
         IF x[2] \in Depth(s) THEN <<0 + Clamp(w * MR + x[1], op.m), s * KC + x[2]>> ELSE Junk]]
  BY DEF RepackA
<1> QED BY <1>3, <1>4, <1>5

\* A thread of a parallel fill makes the cells of its own tiles, and touches no others.
LEMMA PackedSlice ==
  ASSUME ShapeOK, OpOK, OneStructure, op.kind \in Kinds, NEW t \in Ith, NEW mem, NEW a \in Cells,
         NEW sl, sl = ApackSlice(op.m, MR, t, op.nth)
  PROVE  PackInto(mem, SliceBase(sl.i0), sl.i0, sl.rows)[a]
            = IF TileOfCell(a) \in ThreadTiles(TileCount(op.m, MR), t, op.nth)
              THEN WholeCell(a) ELSE mem[a]
<1> DEFINE n == TileCount(op.m, MR)
           S == Cardinality(Slabs)
           Z == Size
           first == FirstTile(n, t, op.nth)
           end == EndTile(n, t, op.nth)
           base == SliceBase(sl.i0)
           o == a - base
           it == o \div (Z * S)
           w == TileOfCell(a)
<1>1. Z \in Nat \ {0} /\ MR \in Nat \ {0} /\ op.m \in Nat \ {0} /\ n \in Nat \ {0}
      /\ a \in Nat /\ w \in 0 .. n - 1 /\ S \in Nat \ {0} /\ Slabs = 0 .. S - 1
      /\ op.nth \in Nat \ {0} /\ t \in 0 .. op.nth - 1
  BY CellNumbers, SlabCount DEF OpOK, Ith
<1>2. first \in Nat /\ end \in Int /\ end <= n /\ (end = n \/ end = first + CeilDiv(n, op.nth))
  <2> HIDE DEF n
  <2>1. CeilDiv(n, op.nth) \in Nat
    BY <1>1, CeilBounds
  <2> QED BY <1>1, <2>1 DEF FirstTile, EndTile, MinOf
<1>3. w \in ThreadTiles(n, t, op.nth) <=> first <= w /\ w < end
  BY <1>1 DEF ThreadTiles
<1>4. PackInto(mem, base, sl.i0, sl.rows)[a]
        = IF o >= 0 /\ it < TileCount(sl.rows, MR)
          THEN <<RepackA(sl.i0, sl.rows, it)[(o \div Z) % S], o % Z>> ELSE mem[a]
  BY DEF PackInto
<1>5. sl = IF first >= end THEN [i0 |-> 0, rows |-> 0]
           ELSE [i0 |-> first * MR, rows |-> MinOf(end * MR, op.m) - first * MR]
  BY DEF ApackSlice
<1>6. base = (sl.i0 \div MR) * S * Z
  BY DEF SliceBase, Size, OneStructure
<1>7. w = a \div (Z * S) /\ WholeCell(a) = <<RepackA(0, op.m, w)[(a \div Z) % S], a % Z>>
  BY DEF TileOfCell, WholeCell
<1>8. Z * S \in Nat \ {0}
  BY <1>1
<1> HIDE DEF n, S, Z, first, end, base, w
<1>9. CASE first >= end
  <2>1. sl.i0 = 0 /\ sl.rows = 0
    BY <1>5, <1>9
  <2>2. sl.i0 \div MR = 0
    BY <2>1, <1>1, Quotient
  <2>3. base = 0
    BY <2>2, <1>1, <1>6
  <2>4. TileCount(sl.rows, MR) = 0
    <3>1. MR - 1 \in Nat /\ 0 * MR = 0 /\ 0 \in Nat /\ 0 * MR <= MR - 1 /\ MR - 1 < 0 * MR + MR
      BY <1>1
    <3>2. (MR - 1) \div MR = 0
      BY <3>1, <1>1, Quotient
    <3>3. 0 + MR - 1 = MR - 1
      BY <1>1
    <3> QED BY <2>1, <3>2, <3>3 DEF TileCount, CeilDiv
  <2>5. o = a /\ it \in Nat
    <3>1. o = a
      BY <2>3, <1>1
    <3> QED BY <3>1, <1>1, <1>8, DivBounds
  <2>6. ~(it < TileCount(sl.rows, MR))
    BY <2>4, <2>5
  <2>7. w \notin ThreadTiles(n, t, op.nth)
    BY <1>1, <1>2, <1>3, <1>9
  <2> QED BY <2>6, <2>7, <1>4 DEF base, w, n
<1>10. CASE first < end
  <2>1. sl.i0 = first * MR /\ sl.rows = MinOf(end * MR, op.m) - first * MR /\ end \in Nat
    BY <1>2, <1>5, <1>10
  <2>2. sl.i0 \div MR = first
    <3>1. first * MR \in Nat
      BY <1>1, <1>2
    <3> QED BY <3>1, <2>1, <1>1, <1>2, Quotient
  <2>3. base = first * S * Z /\ base \in Nat /\ first * S * Z = first * (Z * S)
    BY <2>2, <1>1, <1>2, <1>6
  <2>4. o >= 0 <=> first <= w
    <3> DEFINE b == Z * S
    <3>1. first * b <= a <=> first <= a \div b
      <4>1. b \in Nat \ {0}
        BY <1>8
      <4> HIDE DEF b
      <4> QED BY <1>1, <1>2, <4>1, RowAgainstTile
    <3>2. base = first * b /\ w = a \div b
      BY <2>3, <1>7
    <3> HIDE DEF b
    <3>3. o >= 0 <=> base <= a
      BY <2>3, <1>1
    <3> QED BY <3>1, <3>2, <3>3
  <2>5. TileCount(sl.rows, MR) = end - first
    <3> DEFINE f == first * MR
               e == end * MR
               k == end - first
    <3>1. f \in Nat /\ e \in Nat /\ e - f = k * MR /\ k \in Nat \ {0} /\ (k - 1) * MR = k * MR - MR
      BY <1>1, <1>2, <1>10, <2>1
    <3>2. e - MR < op.m
      <4>1. op.m <= MR * n /\ MR * n < op.m + MR
        BY <1>1, CeilBounds DEF n, TileCount
      <4>2. e <= MR * n
        <5>1. end * MR <= n * MR /\ n * MR = MR * n
          BY <1>1, <1>2, <2>1
        <5> QED BY <5>1
      <4>3. MR \in Nat /\ op.m \in Nat /\ MR * n \in Int
        BY <1>1, <1>2
      <4> DEFINE p == MR * n
      <4> HIDE DEF e, p
      <4> QED BY <4>1, <4>2, <4>3, <3>1 DEF p
    <3>3. sl.rows = MinOf(e, op.m) - f
      BY <2>1
    <3> HIDE DEF f, e
    <3>4. sl.rows \in Nat /\ sl.rows <= k * MR /\ sl.rows > (k - 1) * MR
      <4> DEFINE g == k * MR
      <4>1. g \in Nat /\ e - f = g /\ (k - 1) * MR = g - MR /\ (k - 1) * MR \in Nat
        BY <3>1, <1>1
      <4> HIDE DEF g, k
      <4>2. sl.rows \in Int /\ sl.rows <= g /\ sl.rows > g - MR
        BY <4>1, <3>1, <3>2, <3>3, <1>1 DEF MinOf
      <4> QED BY <4>1, <4>2, <1>1 DEF g
    <3> HIDE DEF k
    <3>5. (sl.rows + MR - 1) \div MR = k
      <4> DEFINE x == sl.rows + MR - 1
                 g == k * MR
      <4>1. x \in Nat /\ g <= x /\ x < g + MR /\ k \in Nat
        BY <3>1, <3>4, <1>1
      <4> HIDE DEF x, g
      <4> QED BY <4>1, <1>1, Quotient DEF x, g
    <3> QED BY <3>5 DEF TileCount, CeilDiv, k
  <2>6. CASE o >= 0
    <3>1. o \in Nat /\ a = o + first * S * Z
      BY <2>3, <2>6, <1>1
    <3>2. /\ w = it + first /\ (a \div Z) % S = (o \div Z) % S /\ a % Z = o % Z
      <4> HIDE DEF o
      <4>1. /\ CellFrom(S, Z, first, o) \div (Z * S) = o \div (Z * S) + first
            /\ SlabOfCell(S, Z, CellFrom(S, Z, first, o)) = SlabOfCell(S, Z, o)
            /\ CellFrom(S, Z, first, o) % Z = o % Z
        <5>1. S \in Nat \ {0} /\ Z \in Nat \ {0} /\ first \in Nat /\ o \in Nat
          BY <1>1, <1>2, <3>1
        <5> QED BY <5>1, CellOfSlice
      <4>2. a = CellFrom(S, Z, first, o)
        BY <3>1 DEF CellFrom
      <4>3. (a \div Z) % S = (o \div Z) % S
        BY <4>1, <4>2 DEF SlabOfCell
      <4> QED BY <4>1, <4>2, <4>3, <1>7
    <3>3. it \in Nat
      BY <3>1, <1>8, DivBounds
    <3> HIDE DEF o, it
    <3>4. it < end - first <=> w < end
      BY <3>2, <3>3, <1>2, <2>1
    <3>5. ASSUME w < end PROVE RepackA(sl.i0, sl.rows, it) = RepackA(0, op.m, w)
      <4>1. it = w - first /\ first <= w /\ w \in Nat
        BY <3>2, <3>3, <1>2, <1>1
      <4> QED BY <4>1, <3>5, <2>1, <1>2, SliceTile DEF n
    <3> QED BY <2>4, <2>5, <2>6, <3>2, <3>4, <3>5, <1>3, <1>4, <1>7 DEF base, w, n
  <2>7. CASE ~(o >= 0)
    BY <2>4, <2>7, <1>3, <1>4 DEF base, w, n
  <2> QED BY <2>6, <2>7
<1> QED BY <1>2, <1>9, <1>10

\* The thread that repacks row tile w: all tiles are those of the one serial packer.
Packs(t, w) == op.kind = "serial" \/ w \in ThreadTiles(TileCount(op.m, MR), t, op.nth)

\* The cells of the threads that are through with packing are those of a finished pack;
\* a whole pack has no others.
PackOK ==
    \A a \in Cells :
        /\ fill = "whole" => pa[a] = WholeCell(a)
        /\ fill = "busy" => \A t \in Ith :
              pc[t] \in {"filled", "await"} /\ Packs(t, TileOfCell(a)) => pa[a] = WholeCell(a)

\* What a finished pack is depends on the operation only.
LEMMA SameCells ==
  ASSUME op' = op
  PROVE  /\ Ith' = Ith /\ Cells' = Cells
         /\ \A a : WholeCell(a)' = WholeCell(a) /\ TileOfCell(a)' = TileOfCell(a)
         /\ \A t, w : Packs(t, w)' = Packs(t, w)
<1>1. Ith' = Ith /\ Slabs' = Slabs /\ Size' = Size
  BY DEF Ith, Slabs, Size
<1>2. Cells' = Cells
  BY <1>1 DEF Cells
<1>3. \A a : TileOfCell(a)' = TileOfCell(a)
  BY <1>1 DEF TileOfCell
<1>4. \A w : RepackA(0, op.m, w)' = RepackA(0, op.m, w)
  <2>1. \A s : Depth(s)' = Depth(s)
    BY DEF Depth, SlabUnits
  <2> QED BY <1>1, <2>1 DEF RepackA
<1>5. \A a : WholeCell(a)' = WholeCell(a)
  BY <1>1, <1>3, <1>4 DEF WholeCell
<1>6. \A t, w : Packs(t, w)' = Packs(t, w)
  BY DEF Packs
<1> QED BY <1>1, <1>2, <1>3, <1>5, <1>6

\* A step that leaves the pack and the slot alone, and finishes no packing.
LEMMA PackKept ==
  ASSUME PackOK, UNCHANGED <<op, pa, fill>>,
         \A u \in Ith : pc'[u] \in {"filled", "await"} => pc[u] \in {"filled", "await"}
  PROVE  PackOK'
<1>1. /\ Ith' = Ith /\ Cells' = Cells
      /\ \A a : WholeCell(a)' = WholeCell(a) /\ TileOfCell(a)' = TileOfCell(a)
      /\ \A t, w : Packs(t, w)' = Packs(t, w)
  BY SameCells
<1> QED BY <1>1 DEF PackOK

\* The first thread to acquire finds all others still to do so.
LEMMA FirstToAcquire ==
  ASSUME IInv, FillOK, ~RefusalsDiffer, NEW t \in Ith, Acquired(t), fill = "none"
  PROVE  \A u \in Ith : pc'[u] \in {"acquire", "fill"}
<1>1. pc[t] = "acquire" /\ (\A u \in Ith : path[u] # "percall") /\ pc' = [pc EXCEPT ![t] = "fill"]
  BY DEF Acquired
<1>2. path[t] = "unknown"
  BY <1>1 DEF IInv, PathOK
<1>3. \A u \in Ith : path[u] = "unknown"
  BY <1>1, <1>2 DEF FillOK, IInv, OneRule
<1> QED BY <1>1, <1>3 DEF FillOK, IInv, PlacesOK

\* One thread's repacking.
LEMMA PackFill ==
  ASSUME IInv, ShapeOK, OneStructure, FillOK, PackOK, NEW t \in Ith, Fill(t)
  PROVE  PackOK'
<1>1. /\ pc[t] = "fill" /\ UNCHANGED <<op, fill>> /\ pc' = [pc EXCEPT ![t] = "filled"]
      /\ OpOK /\ PlacesOK /\ PathOK(t)
  BY DEF Fill, IInv
<1>2. op.kind \in Kinds /\ fill = "busy"
  BY <1>1 DEF ShapeOK, PathOK, FillOK
<1>3. /\ Ith' = Ith /\ Cells' = Cells
      /\ \A a : WholeCell(a)' = WholeCell(a) /\ TileOfCell(a)' = TileOfCell(a)
      /\ \A u, w : Packs(u, w)' = Packs(u, w)
  BY <1>1, SameCells
<1>4. SUFFICES ASSUME NEW a \in Cells, NEW u \in Ith, pc'[u] \in {"filled", "await"},
                      Packs(u, TileOfCell(a))
               PROVE  pa'[a] = WholeCell(a)
  BY <1>1, <1>2, <1>3 DEF PackOK
<1>5. u = t \/ pa[a] = WholeCell(a)
  BY <1>1, <1>2, <1>4 DEF PackOK, PlacesOK
<1>6. CASE op.kind = "serial"
  <2>1. pa' = PackInto(pa, 0, 0, op.m)
    BY <1>6 DEF Fill
  <2> QED BY <1>1, <1>2, <2>1, PackedWhole
<1>7. CASE op.kind # "serial"
  <2> DEFINE sl == ApackSlice(op.m, MR, t, op.nth)
  <2>1. pa' = PackInto(pa, SliceBase(sl.i0), sl.i0, sl.rows)
    BY <1>7 DEF Fill
  <2> HIDE DEF sl
  <2>2. PackInto(pa, SliceBase(sl.i0), sl.i0, sl.rows)[a]
           = IF TileOfCell(a) \in ThreadTiles(TileCount(op.m, MR), t, op.nth)
             THEN WholeCell(a) ELSE pa[a]
    BY <1>1, <1>2, PackedSlice DEF sl
  <2>3. u = t => TileOfCell(a) \in ThreadTiles(TileCount(op.m, MR), t, op.nth)
    BY <1>4, <1>7 DEF Packs
  <2> QED BY <1>5, <2>1, <2>2, <2>3
<1> QED BY <1>6, <1>7

\* The last slice: every tile was packed by somebody.
LEMMA PackFilled ==
  ASSUME IInv, ShapeOK, FillOK, PackOK, NEW t \in Ith, Filled(t)
  PROVE  PackOK'
<1>1. /\ pc[t] = "filled" /\ UNCHANGED <<op, pa>> /\ pc' = [pc EXCEPT ![t] = "await"]
      /\ OpOK /\ PlacesOK /\ PathOK(t)
      /\ pending' = (IF op.kind = "serial" THEN 0 ELSE pending - 1)
      /\ fill' = (IF pending' = 0 THEN "whole" ELSE "busy")
  BY DEF Filled, IInv
<1>2. op.kind \in Kinds /\ fill = "busy"
  BY <1>1 DEF ShapeOK, PathOK, FillOK
<1>3. \A u \in Ith : pc'[u] \in {"filled", "await"} => pc[u] \in {"filled", "await"}
  BY <1>1 DEF PlacesOK
<1>4. CASE pending' # 0
  BY <1>1, <1>2, <1>3, <1>4, PackKept
<1>5. CASE pending' = 0
  <2>1. /\ Ith' = Ith /\ Cells' = Cells /\ fill' = "whole"
        /\ \A a : WholeCell(a)' = WholeCell(a) /\ TileOfCell(a)' = TileOfCell(a)
    BY <1>1, <1>5, SameCells
  <2>2. SUFFICES ASSUME NEW a \in Cells
                 PROVE  \E u \in Ith : pc[u] \in {"filled", "await"} /\ Packs(u, TileOfCell(a))
    BY <1>1, <1>2, <2>1 DEF PackOK
  <2>3. CASE op.kind = "serial"
    BY <1>1, <2>3 DEF Packs
  <2>4. CASE op.kind # "serial"
    <3>1. /\ IsFiniteSet(Owing) /\ Cardinality(Owing) \in Nat /\ pending = Cardinality(Owing)
          /\ t \in Owing
      BY <1>1, <1>2, <2>4, OwingCount DEF FillOK, Owing
    <3>2. IsFiniteSet(Owing \ {t}) /\ Cardinality(Owing \ {t}) = Cardinality(Owing) - 1
      BY <3>1, FS_RemoveElement
    <3>3. Cardinality(Owing \ {t}) = 0
      BY <1>1, <1>5, <2>4, <3>1, <3>2
    <3>4. Owing \ {t} = {}
      BY <3>2, <3>3, FS_EmptySet
    <3>5. \A u \in Ith : pc[u] \in {"filled", "await"}
      BY <1>1, <1>2, <3>4 DEF Owing, FillOK
    <3>6. /\ TileOfCell(a) \in 0 .. TileCount(op.m, MR) - 1 /\ TileCount(op.m, MR) \in Nat
          /\ op.nth \in Nat \ {0}
      BY <1>1, <1>2, CellNumbers DEF OpOK
    <3>7. \E u \in 0 .. op.nth - 1 : TileOfCell(a) \in ThreadTiles(TileCount(op.m, MR), u, op.nth)
      BY <3>6, EveryTileOnce
    <3> QED BY <3>5, <3>7 DEF Ith, Packs
  <2> QED BY <2>3, <2>4
<1> QED BY <1>4, <1>5

\* Every step keeps the packed cells.
LEMMA PackStep ==
  ASSUME IInv, ShapeOK, OneStructure, FillOK, PackOK, ~RefusalsDiffer, [AllNext]_ownvars
  PROVE  PackOK'
<1>1. CASE UNCHANGED vars
  BY <1>1, PackKept DEF vars
<1>2. ASSUME NEW t \in Ith, ThreadStep(t)
      PROVE  PackOK'
  <2>1. PlacesOK /\ Ith' = Ith /\ op' = op
    BY <1>2, CachedPath, CachedMoves DEF IInv, Ith
  <2>2. CASE Refused(t) \/ Choose(t) \/ RepackOne(t) \/ Tile(t) \/ Await(t)
    <3>1. /\ UNCHANGED <<op, pa, fill>>
          /\ \E place \in {"choose", "repacked", "tiles", "end"} : pc' = [pc EXCEPT ![t] = place]
      BY <2>2 DEF Refused, Choose, Starts, RepackOne, Tile, Await
    <3>2. \A u \in Ith : pc'[u] \in {"filled", "await"} => pc[u] \in {"filled", "await"}
      BY <2>1, <3>1 DEF PlacesOK
    <3> QED BY <3>1, <3>2, PackKept
  <2>3. CASE Fill(t)
    BY <2>3, PackFill
  <2>4. CASE Filled(t)
    BY <2>4, PackFilled
  <2>5. CASE Acquired(t) /\ fill = "none"
    <3>1. fill' = "busy"
      BY <2>5 DEF Acquired
    <3>2. \A u \in Ith : pc'[u] \notin {"filled", "await"}
      BY <2>5, FirstToAcquire
    <3> QED BY <2>1, <3>1, <3>2 DEF PackOK
  <2>6. CASE Acquired(t) /\ fill # "none"
    <3>1. /\ UNCHANGED <<op, pa, fill>>
          /\ \E place \in {"fill", "choose"} : pc' = [pc EXCEPT ![t] = place]
      BY <2>6 DEF Acquired
    <3>2. \A u \in Ith : pc'[u] \in {"filled", "await"} => pc[u] \in {"filled", "await"}
      BY <2>1, <3>1 DEF PlacesOK
    <3> QED BY <3>1, <3>2, PackKept
  <2> QED BY <1>2, <2>2, <2>3, <2>4, <2>5, <2>6 DEF ThreadStep
<1>3. ASSUME NEW t \in Ith, OwnStep(t)
      PROVE  PackOK'
  <2>1. /\ UNCHANGED <<op, pa, fill>> /\ pc'[t] \in {"own", "end"}
        /\ \A u \in Ith \ {t} : pc'[u] = pc[u]
    BY <1>3, OwnMoves DEF Others
  <2>2. \A u \in Ith : pc'[u] \in {"filled", "await"} => pc[u] \in {"filled", "await"}
    BY <2>1
  <2> QED BY <2>1, <2>2, PackKept
<1> QED BY <1>1, <1>2, <1>3 DEF AllNext, Next, ownvars

\* An operation may find a pack that an earlier one finished.
LEMMA PackInit ==
  ASSUME AllInit, IInv, ShapeOK
  PROVE  PackOK
<1>1. fill # "busy" /\ (fill = "whole" => Init)
  BY DEF AllInit, Init, OwnInit
<1>2. SUFFICES ASSUME fill = "whole", Init, NEW a \in Cells
               PROVE  pa[a] = WholeCell(a)
  BY <1>1 DEF PackOK
<1>3. pa = PackInto(<<>>, 0, 0, op.m) /\ op.kind \in Kinds
  <2>1. \E s \in Shapes, nth \in Teams, kind \in Kinds :
           op = [m |-> s.m, n |-> s.n, kb |-> s.kb, ldc |-> s.ldc, nth |-> nth, kind |-> kind]
    BY <1>2 DEF Init
  <2> QED BY <1>2, <2>1 DEF Init
<1> QED BY <1>3, PackedWhole DEF IInv

LEMMA PackHolds ==
  ASSUME ~RefusalsDiffer, OneStructure
  PROVE  AllSpec => []PackOK
<1>1. AllInit => PackOK
  BY InitKeeps, ShapeInit, PackInit
<1>2. IInv /\ ShapeOK /\ FillOK /\ PackOK /\ [AllNext]_ownvars => PackOK'
  BY PackStep
<1> QED BY <1>1, <1>2, IInvHolds, ShapeHolds, FillHolds, PTL DEF AllSpec

\* The slab a kernel finds in a finished pack.
LEMMA SlabOfPack ==
  ASSUME ShapeOK, OpOK, op.kind \in Kinds, \A a \in Cells : pa[a] = WholeCell(a),
         NEW w \in 0 .. TileCount(op.m, MR) - 1, NEW s \in Slabs
  PROVE  SlabAt(pa, w, s) = RepackA(0, op.m, w)[s]
<1> DEFINE S == Cardinality(Slabs)
           Z == Size
           n == TileCount(op.m, MR)
           slab == RepackA(0, op.m, w)[s]
           cell(x) == CellAt(S, Z, w, s, x)
<1>1. /\ S \in Nat \ {0} /\ Z \in Nat \ {0} /\ n \in Nat \ {0} /\ w \in Nat /\ w < n
      /\ s \in 0 .. S - 1 /\ Cells = 0 .. n * S * Z - 1
  BY SlabCount, CellNumbers
<1> HIDE DEF S, Z, n
<1>2. ASSUME NEW x \in 0 .. Z - 1
      PROVE  pa[cell(x)] = <<slab, x>>
  <2>1. /\ cell(x) \in 0 .. n * S * Z - 1 /\ cell(x) \div (Z * S) = w
        /\ SlabOfCell(S, Z, cell(x)) = s /\ cell(x) % Z = x
    <3>1. /\ w \in Nat /\ S \in Nat \ {0} /\ Z \in Nat \ {0}
          /\ s \in 0 .. S - 1 /\ x \in 0 .. Z - 1
      BY <1>1
    <3>2. CellAt(S, Z, w, s, x) \div (Z * S) = w
      BY <3>1, CellOfSlab
    <3>3. SlabOfCell(S, Z, CellAt(S, Z, w, s, x)) = s /\ CellAt(S, Z, w, s, x) % Z = x
      BY <3>1, CellOfSlab
    <3>4. cell(x) \in Nat /\ cell(x) < (w + 1) * (Z * S)
      BY <3>1, CellOfSlab
    <3>5. (w + 1) * (Z * S) <= n * S * Z
      <4> DEFINE b == Z * S
      <4>1. b \in Nat /\ n * S * Z = n * b /\ w + 1 <= n /\ n \in Nat
        BY <1>1
      <4> HIDE DEF b
      <4>2. (w + 1) * b <= n * b
        BY <4>1, <3>1
      <4> QED BY <4>1, <4>2 DEF b
    <3>6. cell(x) \in 0 .. n * S * Z - 1
      <4> DEFINE g == n * S * Z
                 e == (w + 1) * (Z * S)
      <4>1. g \in Nat /\ e \in Nat /\ e <= g
        BY <1>1, <3>1, <3>5
      <4> HIDE DEF e, g, cell
      <4>2. cell(x) \in 0 .. g - 1
        BY <4>1, <3>4 DEF e
      <4> QED BY <4>2 DEF g
    <3> QED BY <3>2, <3>3, <3>6
  <2> HIDE DEF cell
  <2>2. pa[cell(x)] = WholeCell(cell(x))
    BY <1>1, <2>1
  <2>3. WholeCell(cell(x)) = <<RepackA(0, op.m, cell(x) \div (Z * S))[(cell(x) \div Z) % S], cell(x) % Z>>
    BY DEF WholeCell, TileOfCell, S, Z
  <2>4. (cell(x) \div Z) % S = s
    BY <2>1 DEF SlabOfCell
  <2> QED BY <2>1, <2>2, <2>3, <2>4
<1>3. SlabAt(pa, w, s) = IF \A x \in 0 .. Z - 1 : pa[cell(x)] = <<pa[cell(0)][1], x>>
                         THEN pa[cell(0)][1]
                         ELSE [x \in (0 .. MR - 1) \X (0 .. KC - 1) |-> Junk]
  BY DEF SlabAt, CellAt, S, Z
<1>4. 0 \in 0 .. Z - 1
  BY <1>1
<1> HIDE DEF cell, slab
<1>5. pa[cell(0)][1] = slab
  BY <1>2, <1>4
<1> QED BY <1>2, <1>3, <1>5 DEF slab

-----------------------------------------------------------------------------
(* The private pack of a refused thread.                                    *)

\* From its first column tile on, it is that of the row tile the thread is at.
PrivateOK ==
    /\ DOMAIN pt = Ith
    /\ \A t \in Ith :
          path[t] = "percall" /\ (pc[t] = "repacked" \/ (pc[t] = "tiles" /\ tile[t][2] # 0))
          => pt[t] = RepackA(tile[t][1] * MR, MinOf(op.m - tile[t][1] * MR, MR), 0)

\* A step that leaves the private packs alone and starts no repacked row tile.
LEMMA PrivateKept ==
  ASSUME PrivateOK, NEW t \in Ith, op' = op, pt' = pt, Others(t),
         path'[t] = "percall" => /\ pc'[t] # "repacked"
                                 /\ pc'[t] = "tiles" /\ tile'[t][2] # 0 =>
                                       /\ path[t] = "percall" /\ tile'[t][1] = tile[t][1]
                                       /\ pc[t] = "repacked" \/ (pc[t] = "tiles" /\ tile[t][2] # 0)
  PROVE  PrivateOK'
<1>1. Ith' = Ith
  BY DEF Ith
<1>2. SUFFICES ASSUME NEW u \in Ith, path'[u] = "percall",
                      pc'[u] = "repacked" \/ (pc'[u] = "tiles" /\ tile'[u][2] # 0)
               PROVE  pt[u] = RepackA(tile[u][1] * MR, MinOf(op.m - tile[u][1] * MR, MR), 0)
                      /\ tile'[u][1] = tile[u][1]
  <2>1. ASSUME NEW u \in Ith, tile'[u][1] = tile[u][1]
        PROVE  RepackA(tile[u][1] * MR, MinOf(op.m - tile[u][1] * MR, MR), 0)'
                  = RepackA(tile[u][1] * MR, MinOf(op.m - tile[u][1] * MR, MR), 0)
    <3>1. Slabs' = Slabs /\ \A s : Depth(s)' = Depth(s)
      BY DEF Slabs, Depth, SlabUnits
    <3>2. MinOf(op.m - tile[u][1] * MR, MR)' = MinOf(op.m - tile[u][1] * MR, MR)
      BY <2>1 DEF MinOf
    <3> QED BY <2>1, <3>1, <3>2 DEF RepackA
  <2> QED BY <1>1, <2>1 DEF PrivateOK
<1>3. CASE u = t
  BY <1>2, <1>3 DEF PrivateOK
<1>4. CASE u # t
  BY <1>2, <1>4 DEF PrivateOK, Others
<1> QED BY <1>3, <1>4

LEMMA PrivateStep ==
  ASSUME IInv, PrivateOK, [AllNext]_ownvars
  PROVE  PrivateOK'
<1>1. CASE UNCHANGED vars
  <2>1. Ith' = Ith
    BY <1>1 DEF Ith, vars
  <2>2. \A t \in Ith : RepackA(tile[t][1] * MR, MinOf(op.m - tile[t][1] * MR, MR), 0)'
                          = RepackA(tile[t][1] * MR, MinOf(op.m - tile[t][1] * MR, MR), 0)
    BY <1>1 DEF vars, RepackA, Slabs, Depth, SlabUnits
  <2> QED BY <1>1, <2>1, <2>2 DEF PrivateOK, vars
<1>2. ASSUME NEW t \in Ith, ThreadStep(t)
      PROVE  PrivateOK'
  <2>1. PlacesOK /\ op' = op /\ Others(t) /\ PathOK(t) /\ path[t] # "own"
    BY <1>2, CachedPath, CachedMoves DEF IInv
  <2>2. CASE Refused(t)
    <3>1. \/ pc'[t] = "end"
          \/ pc'[t] = "tiles" /\ tile'[t][2] = 0
      BY <2>1, <2>2 DEF Refused, Starts, PlacesOK
    <3>2. pt' = pt
      BY <2>2 DEF Refused
    <3> QED BY <2>1, <3>1, <3>2, PrivateKept
  <2>3. CASE Acquired(t) \/ Fill(t) \/ Filled(t) \/ Await(t)
    <3>1. pt' = pt /\ \E place \in {"fill", "filled", "await", "choose"} : pc' = [pc EXCEPT ![t] = place]
      BY <2>3 DEF Acquired, Fill, Filled, Await
    <3>2. pc'[t] \notin {"repacked", "tiles"}
      BY <2>1, <3>1 DEF PlacesOK
    <3> QED BY <2>1, <3>1, <3>2, PrivateKept
  <2>4. CASE Choose(t)
    <3>1. pt' = pt /\ \E p \in {"gemv", "rows", "columns"} : path' = [path EXCEPT ![t] = p]
      BY <2>4 DEF Choose, Starts
    <3>2. path'[t] # "percall"
      BY <2>1, <3>1 DEF PlacesOK
    <3> QED BY <2>1, <3>1, <3>2, PrivateKept
  <2>5. CASE RepackOne(t)
    <3> DEFINE new == RepackA(tile[t][1] * MR, MinOf(op.m - tile[t][1] * MR, MR), 0)
    <3>1. pt' = [pt EXCEPT ![t] = new] /\ UNCHANGED <<path, tile>>
      BY <2>5 DEF RepackOne
    <3>2. Ith' = Ith /\ DOMAIN pt = Ith
      BY <2>1 DEF Ith, PrivateOK
    <3>3. \A u \in Ith : RepackA(tile[u][1] * MR, MinOf(op.m - tile[u][1] * MR, MR), 0)'
                            = RepackA(tile[u][1] * MR, MinOf(op.m - tile[u][1] * MR, MR), 0)
      BY <2>1, <3>1 DEF RepackA, Slabs, Depth, SlabUnits
    <3>4. pt'[t] = new /\ \A u \in Ith \ {t} : pt'[u] = pt[u] /\ pc'[u] = pc[u]
      <4> HIDE DEF new
      <4> QED BY <2>1, <3>1, <3>2 DEF Others
    <3> QED BY <3>1, <3>2, <3>3, <3>4 DEF PrivateOK
  <2>6. CASE Tile(t)
    <3> DEFINE rt == tile[t][1]
               ct == tile[t][2]
               next == NextTile(t, rt, ct)
    <3>1. /\ UNCHANGED <<path, pt>>
          /\ pc[t] = "repacked" \/ (pc[t] = "tiles" /\ (path[t] = "percall" => ct # 0))
          /\ \/ tile' = [tile EXCEPT ![t] = next] /\ pc' = [pc EXCEPT ![t] = "tiles"]
             \/ pc' = [pc EXCEPT ![t] = "end"]
      BY <2>6 DEF Tile
    <3>2. next = <<rt, ct + 1>> \/ next = <<rt + 1, 0>>
      BY DEF NextTile
    <3> HIDE DEF next
    <3>3. \/ pc'[t] = "end"
          \/ pc'[t] = "tiles" /\ tile'[t] = next
      BY <2>1, <3>1 DEF PlacesOK
    <3>4. pc'[t] = "tiles" /\ tile'[t][2] # 0 => tile'[t][1] = rt
      BY <3>2, <3>3
    <3> QED BY <2>1, <3>1, <3>3, <3>4, PrivateKept
  <2> QED BY <1>2, <2>2, <2>3, <2>4, <2>5, <2>6 DEF ThreadStep
<1>3. ASSUME NEW t \in Ith, OwnStep(t)
      PROVE  PrivateOK'
  BY <1>3, OwnMoves, PrivateKept
<1> QED BY <1>1, <1>2, <1>3 DEF AllNext, Next, ownvars

LEMMA PrivateHolds ==
  ASSUME ~RefusalsDiffer
  PROVE  AllSpec => []PrivateOK
<1>1. AllInit => PrivateOK
  BY DEF AllInit, Init, OwnInit, PrivateOK
<1>2. IInv /\ PrivateOK /\ [AllNext]_ownvars => PrivateOK'
  BY PrivateStep
<1> QED BY <1>1, <1>2, IInvHolds, PTL DEF AllSpec

-----------------------------------------------------------------------------
(* Every store is the product.                                              *)

\* A thread in its loops finds the rows of its row tile: in the whole pack of the cache,
\* or in its own.
LEMMA RowsFound ==
  ASSUME IInv, ShapeOK, FillOK, PackOK, PrivateOK, NEW t \in Ith, Tile(t),
         NEW s \in Slabs, NEW d \in Depth(s), NEW r \in RowsOf(tile[t][1])
  PROVE  TileOfA(t, tile[t][1])[s][<<r, d>>] = <<tile[t][1] * MR + r, s * KC + d>>
<1> DEFINE w == tile[t][1]
           rows == MinOf(op.m - w * MR, MR)
<1>1. /\ pc[t] \in {"tiles", "repacked"} /\ PathOK(t) /\ LoopOK(t) /\ OpOK /\ PlacesOK
      /\ pc[t] = "repacked" \/ (path[t] = "percall" => tile[t][2] # 0)
  BY DEF Tile, IInv
<1>2. path[t] \in Loops \ {"own"} /\ w \in MyRowTiles(t)
  BY <1>1 DEF PathOK, LoopOK
<1>3. /\ w \in 0 .. TileCount(op.m, MR) - 1 /\ w \in Nat /\ MR \in Nat \ {0}
      /\ op.m \in Nat \ {0} /\ op.kind \in Kinds
  BY <1>1, <1>2, GeometryAssumption
     DEF MyRowTiles, RowTiles, ThreadTiles, PlacesOK, OpOK, ShapeOK
<1>4. w * MR \in Nat
  BY <1>3
<1>5. r \in 0 .. rows - 1
  BY DEF RowsOf
<1>6. r \in 0 .. MR - 1 /\ r < rows /\ rows \in Int /\ w * MR + r < op.m
  <2> DEFINE e == w * MR
  <2> HIDE DEF w, e
  <2>1. e \in Nat
    BY <1>4 DEF e
  <2>2. r \in 0 .. MinOf(op.m - e, MR) - 1
    BY <1>5 DEF e
  <2> QED BY <1>3, <2>1, <2>2 DEF MinOf, e
<1> HIDE DEF w, rows
<1>7. CASE path[t] = "percall"
  <2>1. pt[t] = RepackA(w * MR, rows, 0) /\ TileOfA(t, w) = pt[t]
    BY <1>1, <1>7 DEF PrivateOK, TileOfA, w, rows
  <2>2. RepackA(w * MR, rows, 0)[s][<<r, d>>] = <<w * MR + Clamp(0 * MR + r, rows), s * KC + d>>
    BY <1>6, PackedRow
  <2>3. Clamp(0 * MR + r, rows) = r
    BY <1>3, <1>6 DEF Clamp
  <2> QED BY <2>1, <2>2, <2>3 DEF w
<1>8. CASE path[t] # "percall"
  <2>1. fill = "whole"
    BY <1>1, <1>2, <1>8 DEF FillOK, Loops
  <2>2. \A a \in Cells : pa[a] = WholeCell(a)
    BY <2>1 DEF PackOK
  <2>3. TileOfA(t, w)[s] = RepackA(0, op.m, w)[s]
    <3>1. SlabAt(pa, w, s) = RepackA(0, op.m, w)[s]
      BY <1>1, <1>3, <2>2, SlabOfPack
    <3> QED BY <1>8, <3>1 DEF TileOfA
  <2>4. RepackA(0, op.m, w)[s][<<r, d>>] = <<0 + Clamp(w * MR + r, op.m), s * KC + d>>
    BY <1>6, PackedRow
  <2>5. 0 + Clamp(w * MR + r, op.m) = w * MR + r
    BY <1>3, <1>4, <1>6 DEF Clamp
  <2> QED BY <2>3, <2>4, <2>5 DEF w
<1> QED BY <1>7, <1>8

\* The columns of a column tile, counted in the matrix.
LEMMA ColumnsFound ==
  ASSUME IInv, ShapeOK, NEW t \in Ith, pc[t] \in {"tiles", "repacked"},
         NEW s \in Slabs, NEW d \in Depth(s), NEW q \in ColsOf(t, tile[t][2])
  PROVE  /\ MyCol0(t) + tile[t][2] * NR + q \in 0 .. op.n - 1
         /\ PackB(MyCol0(t), MyCols(t))[tile[t][2]][s][<<q, d>>]
               = <<MyCol0(t) + tile[t][2] * NR + q, s * KC + d>>
<1> DEFINE ct == tile[t][2]
           col0 == MyCol0(t)
           cols == MyCols(t)
<1>1. /\ OpOK /\ PlacesOK /\ path[t] \in Loops \ {"own"} /\ ct \in ColTiles(cols) /\ ct \in Nat
  BY DEF IInv, PathOK, LoopOK, PlacesOK
<1>2. /\ op.n \in Nat \ {0} /\ op.nth \in Nat \ {0} /\ NR \in Nat \ {0} /\ cols \in Int
      /\ ColTiles(cols) = 0 .. TileCount(cols, NR) - 1
  BY <1>1, GeometryAssumption, ColCountInt DEF OpOK, MyCols, ColTiles
<1>3. q \in 0 .. MinOf(cols - ct * NR, NR) - 1
  BY DEF ColsOf
<1>4. col0 + ct * NR + q \in 0 .. op.n - 1 /\ col0 \in Int
  <2>1. CASE path[t] = "columns"
    <3>1. /\ ct \in ColTiles(ColCount(t)) /\ col0 = ColStart(t)
          /\ q \in 0 .. MinOf(ColCount(t) - ct * NR, NR) - 1
      BY <1>1, <1>3, <2>1 DEF MyCols, MyCol0
    <3>2. ColStart(t) + ct * NR + q \in 0 .. op.n - 1
      BY <1>1, <3>1, OwnColumns
    <3>3. ColStart(t) \in Int
      <4>1. CeilDiv(TileCount(op.n, NR), op.nth) \in Nat
        <5>1. TileCount(op.n, NR) \in Nat
          BY <1>2, CeilBounds DEF TileCount
        <5> QED BY <5>1, <1>2, CeilBounds
      <4>2. t \in Nat
        BY DEF Ith
      <4> QED BY <4>1, <4>2, <1>2 DEF ColStart, FirstTile
    <3> QED BY <3>1, <3>2, <3>3
  <2>2. CASE path[t] # "columns"
    <3>1. /\ ct \in 0 .. TileCount(op.n, NR) - 1 /\ col0 = 0 /\ q \in 0 .. MinOf(op.n - ct * NR, NR) - 1
      BY <1>1, <1>3, <2>2 DEF MyCols, MyCol0, ColTiles
    <3>2. ct * NR + q \in 0 .. op.n - 1
      BY <1>2, <3>1, RowOfTile
    <3>3. ct * NR \in Int /\ q \in Int
      BY <1>1, <1>2, <3>1
    <3> HIDE DEF ct, col0
    <3>4. col0 + ct * NR + q = ct * NR + q
      BY <3>1, <3>3
    <3> QED BY <3>1, <3>2, <3>4
  <2> QED BY <2>1, <2>2
<1> HIDE DEF ct, col0, cols
<1>5. ct * NR \in Nat
  BY <1>1, <1>2
<1>6. q \in 0 .. NR - 1 /\ ct * NR + q < cols
  <2> DEFINE e == ct * NR
  <2>1. e \in Nat /\ q \in 0 .. MinOf(cols - e, NR) - 1
    BY <1>3, <1>5
  <2> HIDE DEF e
  <2>2. q \in 0 .. NR - 1 /\ e + q < cols
    BY <1>2, <2>1 DEF MinOf
  <2> QED BY <2>2 DEF e
<1>7. PackB(col0, cols)[ct][s][<<q, d>>] = <<col0 + Clamp(ct * NR + q, cols), s * KC + d>>
  BY <1>1, <1>6, PackedColumn
<1>8. Clamp(ct * NR + q, cols) = ct * NR + q
  BY <1>2, <1>5, <1>6 DEF Clamp
<1>9. col0 + (ct * NR + q) = col0 + ct * NR + q
  BY <1>4, <1>5, <1>6
<1> QED BY <1>4, <1>7, <1>8, <1>9 DEF ct, col0, cols

\* What a lane of a register tile stores is its product.
LEMMA LaneIsProduct ==
  ASSUME IInv, ShapeOK, FillOK, PackOK, PrivateOK, NEW t \in Ith, Tile(t), NEW a,
         StoresLane(t, a)
  PROVE  StoresProduct(t, a)
<1> DEFINE w == tile[t][1]
           ct == tile[t][2]
           ta == TileOfA(t, w)
           tb == PackB(MyCol0(t), MyCols(t))[ct]
<1>1. PICK r \in RowsOf(w), q \in ColsOf(t, ct) :
           /\ a = Address(w * MR + r, MyCol0(t) + ct * NR + q)
           /\ c'[a] = Accumulate(ta, tb, r, q)
           /\ writers'[a] = writers[a] \cup {t}
  BY DEF StoresLane
<1> DEFINE i == w * MR + r
           j == MyCol0(t) + ct * NR + q
<1>2. pc[t] \in {"tiles", "repacked"} /\ OpOK /\ LoopOK(t)
  BY DEF Tile, IInv
<1>3. ASSUME NEW s \in Slabs, NEW d \in Depth(s)
      PROVE  /\ ta[s][<<r, d>>] = <<i, s * KC + d>> /\ tb[s][<<q, d>>] = <<j, s * KC + d>>
             /\ j \in 0 .. op.n - 1
  <2>1. r \in RowsOf(tile[t][1]) /\ q \in ColsOf(t, tile[t][2])
    BY <1>1
  <2>2. TileOfA(t, tile[t][1])[s][<<r, d>>] = <<tile[t][1] * MR + r, s * KC + d>>
    BY <1>3, <2>1, RowsFound
  <2>3. /\ MyCol0(t) + tile[t][2] * NR + q \in 0 .. op.n - 1
        /\ PackB(MyCol0(t), MyCols(t))[tile[t][2]][s][<<q, d>>]
              = <<MyCol0(t) + tile[t][2] * NR + q, s * KC + d>>
    BY <1>2, <1>3, <2>1, ColumnsFound
  <2> QED BY <2>2, <2>3
<1>4. j \in 0 .. op.n - 1
  <2>1. KC \in Nat \ {0} /\ 0 \in Slabs /\ op.kb \in Nat \ {0}
    BY SlabBounds DEF ShapeOK
  <2>2. 0 \in Depth(0)
    BY <2>1 DEF Depth, SlabUnits, MinOf
  <2> QED BY <2>1, <2>2, <1>3
<1>5. i \in 0 .. op.m - 1
  <2>1. w \in 0 .. TileCount(op.m, MR) - 1 /\ op.m \in Nat \ {0} /\ MR \in Nat \ {0}
    BY <1>2, GeometryAssumption DEF LoopOK, MyRowTiles, RowTiles, ThreadTiles, OpOK
  <2>2. r \in 0 .. MinOf(op.m - w * MR, MR) - 1
    BY DEF RowsOf
  <2> QED BY <2>1, <2>2, RowOfTile
<1>6. Accumulate(ta, tb, r, q) = DotProduct(i, j)
  <2> HIDE DEF ta, tb, i, j
  <2>1. \A p \in Positions : p[1] \in Slabs /\ p[2] \in Depth(p[1])
    BY DEF Positions
  <2>2. \A p \in Positions : <<ta[p[1]][<<r, p[2]>>], tb[p[1]][<<q, p[2]>>]>>
                                = <<<<i, p[1] * KC + p[2]>>, <<j, p[1] * KC + p[2]>>>>
    BY <1>3, <2>1
  <2>3. Accumulate(ta, tb, r, q)
           = [p \in Positions |-> <<<<i, p[1] * KC + p[2]>>, <<j, p[1] * KC + p[2]>>>>]
    BY <2>2 DEF Accumulate
  <2> QED BY <2>3, AllPositions DEF DotProduct
<1> HIDE DEF i, j
<1>7. a = Address(i, j) /\ c'[a] = DotProduct(i, j) /\ writers'[a] = writers[a] \cup {t}
  BY <1>1, <1>6 DEF i, j
<1> QED BY <1>4, <1>5, <1>7 DEF StoresProduct

\* Untouched, an element is what the allocation left; stored to, it is its product.
StoredOK ==
    \A a \in DOMAIN c :
        /\ writers[a] = {} => c[a] = Junk
        /\ writers[a] # {} => \E i \in 0 .. op.m - 1, j \in 0 .. op.n - 1 :
                                  a = Address(i, j) /\ c[a] = DotProduct(i, j)

\* No step stores anything but a product.
LEMMA StoredStep ==
  ASSUME IInv, ShapeOK, FillOK, MemoryOK, PackOK, PrivateOK, StoredOK, [AllNext]_ownvars
  PROVE  StoredOK'
<1>1. op' = op /\ DOMAIN c' = DOMAIN c
  BY SameMatrix
<1>2. \A i, j : Address(i, j)' = Address(i, j) /\ DotProduct(i, j)' = DotProduct(i, j)
  BY <1>1 DEF Address, DotProduct, Slabs
<1>3. SUFFICES ASSUME NEW a \in DOMAIN c
               PROVE  Keeps(a) \/ \E t \in Ith : StoresProduct(t, a)
  <2>1. ASSUME NEW a \in DOMAIN c, Keeps(a)
        PROVE  /\ writers'[a] = {} => c'[a] = Junk
               /\ writers'[a] # {} => \E i \in 0 .. op.m - 1, j \in 0 .. op.n - 1 :
                                          a = Address(i, j) /\ c'[a] = DotProduct(i, j)
    BY <2>1 DEF Keeps, StoredOK
  <2>2. ASSUME NEW a \in DOMAIN c, NEW t \in Ith, StoresProduct(t, a)
        PROVE  /\ writers'[a] = {} => c'[a] = Junk
               /\ writers'[a] # {} => \E i \in 0 .. op.m - 1, j \in 0 .. op.n - 1 :
                                          a = Address(i, j) /\ c'[a] = DotProduct(i, j)
    BY <2>2 DEF StoresProduct
  <2>3. ASSUME NEW a \in DOMAIN c
        PROVE  /\ writers'[a] = {} => c'[a] = Junk
               /\ writers'[a] # {} => \E i \in 0 .. op.m - 1, j \in 0 .. op.n - 1 :
                                          a = Address(i, j) /\ c'[a] = DotProduct(i, j)
    BY <1>3, <2>1, <2>2
  <2> QED BY <1>1, <1>2, <2>3 DEF StoredOK
<1>4. CASE UNCHANGED vars
  BY <1>4 DEF vars, Keeps
<1>5. ASSUME NEW t \in Ith, ThreadStep(t)
      PROVE  Keeps(a) \/ StoresProduct(t, a)
  <2>1. CASE Tile(t)
    BY <2>1, TileEffect, LaneIsProduct
  <2>2. CASE ~Tile(t)
    BY <1>5, <2>2, OtherEffect
  <2> QED BY <2>1, <2>2
<1>6. ASSUME NEW t \in Ith, OwnStep(t)
      PROVE  Keeps(a) \/ StoresProduct(t, a)
  BY <1>6, OwnEffect
<1> QED BY <1>4, <1>5, <1>6 DEF AllNext, Next, ownvars

\* The row and the column of an address.
LEMMA CoordinatesOf ==
  ASSUME OpOK, NEW i \in 0 .. op.m - 1, NEW j \in 0 .. op.n - 1
  PROVE  Address(i, j) % op.ldc = i /\ Address(i, j) \div op.ldc = j
<1>1. /\ op.ldc \in Nat \ {0} /\ i \in Nat /\ j \in Nat /\ i < op.ldc
  BY DEF OpOK
<1> DEFINE b == op.ldc
           a == i + j * b
<1>2. b \in Nat \ {0} /\ i < b /\ j * b \in Nat
  BY <1>1
<1>3. a \in Nat /\ j * b <= a /\ a < j * b + b /\ a - j * b = i
  <2> DEFINE e == j * b
  <2>1. e \in Nat /\ a = i + e /\ i \in Nat
    BY <1>1, <1>2
  <2> HIDE DEF a, b, e
  <2>2. a \in Nat /\ e <= a /\ a < e + b /\ a - e = i
    BY <2>1, <1>2
  <2> QED BY <2>2 DEF e
<1> HIDE DEF a, b
<1>4. a \div b = j /\ a % b = i
  BY <1>1, <1>2, <1>3, Quotient
<1> QED BY <1>4 DEF a, b, Address

\* Whatever a thread stores is the whole product of its row and its column, at its own
\* address: however the operation is divided, whichever way each thread obtained its
\* weights, and with whatever the slabs, the lanes beyond the edge and the memory of a
\* previous operation hold -- as long as the cache answers all threads of an operation
\* alike and a driver counts its slices in the structures it packs (where it does not, the
\* 16-wide grid driver, the threads of a parallel fill overwrite each other: SliceStride).
THEOREM StoresAreProducts ==
  ASSUME ~RefusalsDiffer, OneStructure
  PROVE  AllSpec => []EveryStoreIsTheProduct
<1>1. AllInit => StoredOK
  BY DEF AllInit, Init, OwnInit, StoredOK
<1>2. IInv /\ ShapeOK /\ FillOK /\ MemoryOK /\ PackOK /\ PrivateOK /\ StoredOK /\ [AllNext]_ownvars
         => StoredOK'
  BY StoredStep
<1>3. IInv /\ StoredOK => EveryStoreIsTheProduct
  <2>1. SUFFICES ASSUME IInv, StoredOK, NEW a \in DOMAIN c, c[a] # Junk
                 PROVE  a \in Elements /\ c[a] = DotProduct(a % op.ldc, a \div op.ldc)
    BY DEF EveryStoreIsTheProduct
  <2>2. PICK i \in 0 .. op.m - 1, j \in 0 .. op.n - 1 : a = Address(i, j) /\ c[a] = DotProduct(i, j)
    BY <2>1 DEF StoredOK
  <2>3. a % op.ldc = i /\ a \div op.ldc = j
    BY <2>1, <2>2, CoordinatesOf DEF IInv
  <2> QED BY <2>2, <2>3 DEF Elements
<1> QED BY <1>1, <1>2, <1>3, IInvHolds, ShapeHolds, FillHolds, MemoryHolds, PackHolds, PrivateHolds, PTL
        DEF AllSpec
=============================================================================
