-------------------------- MODULE PackCacheProofs ---------------------------
(***************************************************************************)
(* The slot table of the pack cache stays consistent for every number of   *)
(* tensors, contexts, threads and buffers, every cap, and every behaviour  *)
(* of the callers and of the allocator that PackCache allows: clear() and  *)
(* reloads in the middle of operations, failed allocations, moved tables,  *)
(* operations that fill one pack at the same time.                         *)
(***************************************************************************)
EXTENDS PackCache, FiniteSetTheorems, TLAPS

-----------------------------------------------------------------------------
(* Data: least elements, and the bytes of a set of slots.                   *)

\* The scans of the slot table find a first match whenever there is a match.
LEMMA FirstIsLeast ==
  ASSUME NEW S \in SUBSET Nat, S # {}
  PROVE  First(S) \in S /\ \A j \in S : First(S) <= j
<1> DEFINE Below == {0 .. i : i \in S}
           R == StrictSubsetOrdering(Nat)
<1>1. IsWellFoundedOn(R, FiniteSubsetsOf(Nat))
  BY FS_StrictSubsetOrderingWellFounded
<1>2. Below \subseteq FiniteSubsetsOf(Nat) /\ Below # {}
  <2>1. \A i \in S : 0 .. i \in SUBSET Nat /\ IsFiniteSet(0 .. i)
    BY FS_Interval
  <2> QED BY <2>1 DEF FiniteSubsetsOf
<1>3. PICK X \in Below : \A Y \in Below : ~ (<<Y, X>> \in R)
  <2> HIDE DEF R, Below
  <2> QED BY <1>1, <1>2, WFMin, Zenon
<1>4. PICK i \in S : X = 0 .. i
  OBVIOUS
<1>5. ASSUME NEW j \in S, j < i
      PROVE  FALSE
  <2>1. 0 .. j \in SUBSET Nat /\ 0 .. i \in SUBSET Nat /\ 0 .. j \subseteq 0 .. i
    BY <1>5
  <2>2. i \in 0 .. i /\ i \notin 0 .. j
    BY <1>5
  <2>3. <<0 .. j, 0 .. i>> \in R
    BY <2>1, <2>2 DEF StrictSubsetOrdering
  <2> QED BY <2>3, <1>3, <1>4
<1>6. \A j \in S : i <= j
  BY <1>5
<1> QED BY <1>6 DEF First

\* A table of n slots in which the sizes of the slots S are known and capped.
Sized(tab, n, S) ==
    /\ n \in Nat
    /\ S \subseteq 1 .. n
    /\ \A i \in S : tab[i].bytes \in Nat /\ tab[i].bytes <= Cap

LEMMA UnitsFinite ==
  ASSUME NEW tab, NEW n, NEW S, Sized(tab, n, S)
  PROVE  IsFiniteSet(Units(tab, S)) /\ Cardinality(Units(tab, S)) \in Nat
<1>1. IsFiniteSet((1 .. n) \X (1 .. Cap))
  <2>1. IsFiniteSet(1 .. n) /\ IsFiniteSet(1 .. Cap)
    <3>1. 1 \in Int /\ n \in Int /\ Cap \in Int
      BY MemoryAssumption DEF Sized
    <3> QED BY <3>1, FS_Interval
  <2> QED BY <2>1, FS_Product
<1>2. Units(tab, S) \subseteq (1 .. n) \X (1 .. Cap)
  BY MemoryAssumption DEF Units, Sized
<1>3. IsFiniteSet(Units(tab, S))
  BY <1>1, <1>2, FS_Subset
<1> QED BY <1>3, FS_CardinalityType

LEMMA UnitsEmpty == \A tab : Cardinality(Units(tab, {})) = 0
BY FS_EmptySet DEF Units

LEMMA UnitsSingle ==
  ASSUME NEW tab, NEW i, tab[i].bytes \in Nat
  PROVE  Cardinality(Units(tab, {i})) = tab[i].bytes
<1>1. Units(tab, {i}) = {i} \X (1 .. tab[i].bytes)
  BY DEF Units
<1>2. IsFiniteSet(1 .. tab[i].bytes) /\ Cardinality(1 .. tab[i].bytes) = tab[i].bytes
  <2>1. 1 \in Int /\ tab[i].bytes \in Int
    OBVIOUS
  <2>2. /\ IsFiniteSet(1 .. tab[i].bytes)
        /\ Cardinality(1 .. tab[i].bytes)
             = IF 1 > tab[i].bytes THEN 0 ELSE tab[i].bytes - 1 + 1
    BY <2>1, FS_Interval
  <2> QED BY <2>2
<1>3. IsFiniteSet({i}) /\ Cardinality({i}) = 1
  BY FS_Singleton
<1>4. Cardinality({i} \X (1 .. tab[i].bytes)) = 1 * tab[i].bytes
  BY <1>2, <1>3, FS_Product
<1>5. 1 * tab[i].bytes = tab[i].bytes
  OBVIOUS
<1> QED BY <1>1, <1>4, <1>5

LEMMA UnitsSplit ==
  ASSUME NEW tab, NEW n, NEW A, NEW B,
         Sized(tab, n, A), Sized(tab, n, B), A \cap B = {}
  PROVE  Cardinality(Units(tab, A \cup B))
           = Cardinality(Units(tab, A)) + Cardinality(Units(tab, B))
<1>1. Units(tab, A \cup B) = Units(tab, A) \cup Units(tab, B)
  BY DEF Units
<1>2. Units(tab, A) \cap Units(tab, B) = {}
  BY DEF Units
<1>3. IsFiniteSet(Units(tab, A)) /\ IsFiniteSet(Units(tab, B))
  BY UnitsFinite
<1> DEFINE a == Cardinality(Units(tab, A))
           b == Cardinality(Units(tab, B))
<1>4. a \in Nat /\ b \in Nat
  BY UnitsFinite
<1>5. Cardinality(Units(tab, A) \cup Units(tab, B)) = a + b - Cardinality({})
  BY <1>2, <1>3, FS_Union
<1>6. Cardinality({}) = 0
  BY FS_EmptySet
<1>7. Cardinality(Units(tab, A \cup B)) = a + b - 0
  BY <1>1, <1>5, <1>6
<1> HIDE DEF a, b
<1>8. Cardinality(Units(tab, A \cup B)) = a + b
  BY <1>4, <1>7
<1> QED BY <1>8 DEF a, b

-----------------------------------------------------------------------------
(* The slot table as a value: what every operation on it preserves.         *)

UsedIn(tab, n) == {i \in 1 .. n : tab[i].used}

\* A slot nobody counts slices in: published, or filled by a single thread.
Settled(s) == s.ready \/ s.tensor \in Serial

TableOK(tab, n, lv, tot) ==
    /\ n \in Nat
    /\ tab \in [1 .. n -> Slot]
    /\ \A i \in UsedIn(tab, n) :
          /\ tab[i].tensor \in Tensor /\ tab[i].buf \in Buf /\ tab[i].bytes <= Cap
          /\ Settled(tab[i]) => tab[i].pending = 0
    /\ \A i, j \in UsedIn(tab, n) :
          tab[i].tensor = tab[j].tensor \/ tab[i].buf = tab[j].buf => i = j
    /\ lv = {tab[i].buf : i \in UsedIn(tab, n)}
    /\ tot = Cardinality(Units(tab, UsedIn(tab, n)))
    /\ tot <= Cap

LEMMA EmptyIsSlot == Empty \in Slot /\ ~Empty.used
BY DEF Empty, Slot

LEMMA TableSized ==
  ASSUME NEW tab, NEW n, NEW lv, NEW tot, TableOK(tab, n, lv, tot),
         NEW S \in SUBSET UsedIn(tab, n)
  PROVE  Sized(tab, n, S)
BY DEF TableOK, Sized, UsedIn, Slot

LEMMA TableTotalType ==
  ASSUME NEW tab, NEW n, NEW lv, NEW tot, TableOK(tab, n, lv, tot)
  PROVE  tot \in Nat
<1>1. Sized(tab, n, UsedIn(tab, n))
  BY TableSized
<1> QED BY <1>1, UnitsFinite DEF TableOK

\* Freeing the used slots S: retirement and clear().
BufsIn(tab, S)   == {tab[i].buf : i \in S}
Dropped(tab, n, S) == [i \in 1 .. n |-> IF i \in S THEN Empty ELSE tab[i]]

LEMMA DropSlots ==
  ASSUME NEW tab, NEW n, NEW lv, NEW tot, TableOK(tab, n, lv, tot),
         NEW S \in SUBSET UsedIn(tab, n)
  PROVE  /\ TableOK(Dropped(tab, n, S), n, lv \ BufsIn(tab, S),
                    tot - Cardinality(Units(tab, S)))
         /\ UsedIn(Dropped(tab, n, S), n) = UsedIn(tab, n) \ S
<1> DEFINE tub == Dropped(tab, n, S)
           U == UsedIn(tab, n)
           V == U \ S
<1> USE DEF Dropped, BufsIn
<1>1. UsedIn(tub, n) = V
  BY EmptyIsSlot DEF UsedIn
<1>2. \A i \in V : tub[i] = tab[i]
  BY DEF UsedIn
<1>3. tub \in [1 .. n -> Slot]
  BY EmptyIsSlot DEF TableOK
<1>4. \A i, j \in V : tub[i].tensor = tub[j].tensor \/ tub[i].buf = tub[j].buf => i = j
  BY <1>2 DEF TableOK
<1>5. lv \ {tab[i].buf : i \in S} = {tub[i].buf : i \in V}
  <2>1. lv = {tab[i].buf : i \in U}
    BY DEF TableOK
  <2>2. \A i \in V, j \in S : tab[i].buf # tab[j].buf
    BY DEF TableOK
  <2>3. \A i \in V : tub[i].buf = tab[i].buf
    BY <1>2
  <2> HIDE DEF tub
  <2> QED BY <2>1, <2>2, <2>3
<1>6. /\ tot - Cardinality(Units(tab, S)) = Cardinality(Units(tub, V))
      /\ tot - Cardinality(Units(tab, S)) <= Cap
  <2> DEFINE s == Cardinality(Units(tab, S))
             v == Cardinality(Units(tab, V))
  <2>1. Sized(tab, n, S) /\ Sized(tab, n, V)
    BY TableSized
  <2>2. Cardinality(Units(tab, S \cup V)) = s + v
    <3>1. S \cap V = {}
      OBVIOUS
    <3> QED BY <2>1, <3>1, UnitsSplit
  <2>3. s \in Nat /\ v \in Nat
    BY <2>1, UnitsFinite
  <2>4. S \cup V = U
    OBVIOUS
  <2>5. tot = s + v /\ tot <= Cap
    BY <2>2, <2>4 DEF TableOK
  <2>6. Units(tub, V) = Units(tab, V)
    <3>1. \A i \in V : tub[i].bytes = tab[i].bytes
      BY <1>2
    <3> HIDE DEF V
    <3> QED BY <3>1 DEF Units
  <2> HIDE DEF s, v
  <2>7. tot - s = v /\ tot - s <= Cap
    BY <2>3, <2>5, MemoryAssumption
  <2> QED BY <2>6, <2>7 DEF s, v
<1> QED BY <1>1, <1>2, <1>3, <1>4, <1>5, <1>6 DEF TableOK

\* grow_locked: more slots, all of them unused.
LEMMA GrowTable ==
  ASSUME NEW tab, NEW n, NEW lv, NEW tot, TableOK(tab, n, lv, tot),
         NEW m \in Nat, m >= n,
         NEW tub, tub = [i \in 1 .. m |-> IF i <= n THEN tab[i] ELSE Empty]
  PROVE  /\ TableOK(tub, m, lv, tot)
         /\ UsedIn(tub, m) = UsedIn(tab, n)
         /\ \A i \in UsedIn(tab, n) : tub[i] = tab[i]
<1> DEFINE U == UsedIn(tab, n)
<1>1. n \in Nat /\ tab \in [1 .. n -> Slot]
  BY DEF TableOK
<1>2. UsedIn(tub, m) = U
  BY <1>1, EmptyIsSlot DEF UsedIn
<1>3. \A i \in U : tub[i] = tab[i]
  BY <1>1 DEF UsedIn
<1>4. tub \in [1 .. m -> Slot]
  BY <1>1, EmptyIsSlot
<1>5. Units(tub, U) = Units(tab, U)
  <2>1. \A i \in U : tub[i].bytes = tab[i].bytes
    BY <1>3
  <2> HIDE DEF U
  <2> QED BY <2>1 DEF Units
<1>6. lv = {tub[i].buf : i \in U}
  <2>1. \A i \in U : tub[i].buf = tab[i].buf
    BY <1>3
  <2>2. lv = {tab[i].buf : i \in U}
    BY DEF TableOK
  <2> QED BY <2>1, <2>2
<1>7. tot = Cardinality(Units(tub, U)) /\ tot <= Cap
  BY <1>5 DEF TableOK
<1>8. \A i \in U : /\ tub[i].tensor \in Tensor /\ tub[i].buf \in Buf /\ tub[i].bytes <= Cap
                   /\ Settled(tub[i]) => tub[i].pending = 0
  BY <1>3 DEF TableOK
<1>9. \A i, j \in U : tub[i].tensor = tub[j].tensor \/ tub[i].buf = tub[j].buf => i = j
  BY <1>3 DEF TableOK
<1> HIDE DEF U
<1>10. TableOK(tub, m, lv, tot)
  BY <1>2, <1>4, <1>6, <1>7, <1>8, <1>9 DEF TableOK
<1> QED BY <1>2, <1>3, <1>10 DEF U

\* Admission into an unused slot.
LEMMA FillSlot ==
  ASSUME NEW tab, NEW n, NEW lv, NEW tot, TableOK(tab, n, lv, tot),
         NEW d \in 1 .. n, ~tab[d].used,
         NEW s \in Slot, s.used, s.tensor \in Tensor, s.buf \in Buf \ lv,
         Settled(s) => s.pending = 0,
         \A i \in UsedIn(tab, n) : tab[i].tensor # s.tensor,
         tot + s.bytes <= Cap,
         NEW tub, tub = [tab EXCEPT ![d] = s]
  PROVE  TableOK(tub, n, lv \cup {s.buf}, tot + s.bytes)
<1> DEFINE U == UsedIn(tab, n)
           V == U \cup {d}
<1>1. /\ n \in Nat /\ tab \in [1 .. n -> Slot] /\ d \notin U
      /\ s.bytes \in Nat /\ s.pending \in Nat
  BY DEF TableOK, UsedIn, Slot
<1>2. tub \in [1 .. n -> Slot] /\ tub[d] = s /\ \A i \in U : tub[i] = tab[i]
  BY <1>1 DEF UsedIn
<1>3. UsedIn(tub, n) = V
  BY <1>1, <1>2 DEF UsedIn
<1>4. \A i, j \in V : tub[i].tensor = tub[j].tensor \/ tub[i].buf = tub[j].buf => i = j
  <2>1. \A i \in U : tub[i].tensor # s.tensor /\ tub[i].buf # s.buf
    BY <1>2 DEF TableOK
  <2>2. \A i, j \in U : tub[i].tensor = tub[j].tensor \/ tub[i].buf = tub[j].buf => i = j
    BY <1>2 DEF TableOK
  <2> QED BY <2>1, <2>2, <1>2
<1>5. lv \cup {s.buf} = {tub[i].buf : i \in V}
  BY <1>2 DEF TableOK
<1>6. s.bytes <= Cap /\ tot + s.bytes = Cardinality(Units(tub, V))
  <2>1. Units(tub, U) = Units(tab, U)
    <3>1. \A i \in U : tab[i].bytes = tub[i].bytes
      BY <1>2
    <3>2. Units(tab, U) = Units(tub, U)
      BY <3>1 DEF Units
    <3> QED BY <3>2
  <2> DEFINE u == Cardinality(Units(tub, U))
  <2>2. Sized(tab, n, U)
    BY TableSized
  <2>3. tot = u /\ u \in Nat
    BY <2>1, <2>2, UnitsFinite DEF TableOK
  <2>4. s.bytes <= Cap
    <3> HIDE DEF u
    <3> QED BY <2>3, <1>1, MemoryAssumption
  <2>5. Sized(tub, n, U) /\ Sized(tub, n, {d})
    BY <2>2, <2>4, <1>1, <1>2 DEF Sized
  <2>6. Cardinality(Units(tub, {d})) = s.bytes
    BY <1>1, <1>2, UnitsSingle
  <2>7. U \cap {d} = {}
    BY <1>1
  <2>8. Cardinality(Units(tub, V)) = u + Cardinality(Units(tub, {d}))
    BY <2>5, <2>7, UnitsSplit
  <2> HIDE DEF u
  <2> QED BY <2>3, <2>4, <2>6, <2>8
<1>7. tot + s.bytes <= Cap
  OBVIOUS
<1>8. \A i \in V : /\ tub[i].tensor \in Tensor /\ tub[i].buf \in Buf /\ tub[i].bytes <= Cap
                   /\ Settled(tub[i]) => tub[i].pending = 0
  <2>1. \A i \in U : /\ tab[i].tensor \in Tensor /\ tab[i].buf \in Buf /\ tab[i].bytes <= Cap
                     /\ Settled(tab[i]) => tab[i].pending = 0
    BY DEF TableOK
  <2> QED BY <2>1, <1>2, <1>6
<1> HIDE DEF V
<1> QED BY <1>1, <1>2, <1>3, <1>4, <1>5, <1>6, <1>7, <1>8 DEF TableOK

\* publish and slice_done: only `ready' and `pending' of one slot change.
LEMMA TouchSlot ==
  ASSUME NEW tab, NEW n, NEW lv, NEW tot, TableOK(tab, n, lv, tot),
         NEW d \in UsedIn(tab, n), NEW r \in BOOLEAN, NEW p \in Nat,
         r \/ tab[d].tensor \in Serial => p = 0,
         NEW tub, tub = [tab EXCEPT ![d].ready = r, ![d].pending = p]
  PROVE  TableOK(tub, n, lv, tot)
<1> DEFINE U == UsedIn(tab, n)
<1>1. n \in Nat /\ tab \in [1 .. n -> Slot] /\ d \in 1 .. n
  BY DEF TableOK, UsedIn
<1>2. tub \in [1 .. n -> Slot]
  BY <1>1 DEF Slot
<1>3. \A i \in 1 .. n : /\ tub[i].used = tab[i].used /\ tub[i].tensor = tab[i].tensor
                        /\ tub[i].buf = tab[i].buf /\ tub[i].bytes = tab[i].bytes
                        /\ i # d => tub[i] = tab[i]
  BY <1>1 DEF Slot
<1>4. tub[d].ready = r /\ tub[d].pending = p
  BY <1>1 DEF Slot
<1>5. UsedIn(tub, n) = U
  BY <1>3 DEF UsedIn
<1>6. U \subseteq 1 .. n
  BY DEF UsedIn
<1>7. Units(tub, U) = Units(tab, U)
  <2>1. \A i \in U : tub[i].bytes = tab[i].bytes
    BY <1>3, <1>6
  <2> HIDE DEF U
  <2> QED BY <2>1 DEF Units
<1>8. tot = Cardinality(Units(tub, U)) /\ tot <= Cap
  BY <1>7 DEF TableOK
<1>9. lv = {tub[i].buf : i \in U}
  BY <1>3, <1>6 DEF TableOK
<1>10. \A i, j \in U : tub[i].tensor = tub[j].tensor \/ tub[i].buf = tub[j].buf => i = j
  BY <1>3, <1>6 DEF TableOK
<1>11. \A i \in U : /\ tub[i].tensor \in Tensor /\ tub[i].buf \in Buf /\ tub[i].bytes <= Cap
                    /\ Settled(tub[i]) => tub[i].pending = 0
  <2>1. \A i \in U : /\ tab[i].tensor \in Tensor /\ tab[i].buf \in Buf /\ tab[i].bytes <= Cap
                     /\ Settled(tab[i]) => tab[i].pending = 0
    BY DEF TableOK
  <2>2. \A i \in U : i # d => tub[i] = tab[i]
    BY <1>3, <1>6
  <2>3. Settled(tub[d]) => tub[d].pending = 0
    BY <1>1, <1>3, <1>4 DEF Settled
  <2> QED BY <2>1, <2>2, <2>3, <1>3, <1>6
<1> HIDE DEF U
<1> QED BY <1>1, <1>2, <1>5, <1>8, <1>9, <1>10, <1>11 DEF TableOK

-----------------------------------------------------------------------------
(* The inductive invariant.                                                 *)

TableInv == TableOK(slots, nslots, live, total)

PlacesInv ==
    /\ \A t \in Thread : pc[t] # "idle" => TensorOf(t) \in Tensor
    /\ \A t \in Thread : pc[t] \in Waits => ptr[t] \in 1 .. nslots

IInv == TypeOK /\ TableInv /\ PlacesInv

LEMMA NthIsNat == \A c \in Ctx : Nth(c) \in Nat
BY FS_Subset, FS_CardinalityType, ThreadsAssumption DEF Nth, Threads

\* A scan that finds a match finds the only one.
LEMMA TheMatch ==
  ASSUME IInv, NEW t \in Thread, Matches(TensorOf(t)) # {}
  PROVE  /\ MatchOf(t) \in Matches(TensorOf(t))
         /\ MatchOf(t) \in Used /\ MatchOf(t) \in 1 .. nslots
         /\ \A i \in Matches(TensorOf(t)) : i = MatchOf(t)
<1>1. Matches(TensorOf(t)) \in SUBSET Nat
  BY DEF Matches, IInv, TypeOK
<1>2. MatchOf(t) \in Matches(TensorOf(t))
  BY <1>1, FirstIsLeast DEF MatchOf
<1>3. \A i, j \in Matches(TensorOf(t)) : i = j
  BY DEF IInv, TableInv, TableOK, UsedIn, Matches
<1> QED BY <1>2, <1>3 DEF Matches, Used

\* What the fall-through to admission finds: the stale slot, if any, dropped, and
\* no other slot of the key.
LEMMA AfterRetirement ==
  ASSUME IInv, NEW t \in Thread, Vacant(t)
  PROVE  /\ TableOK(Emptied(Retired(t)), nslots, live \ BufsOf(Retired(t)),
                    TotalWithout(Retired(t)))
         /\ \A i \in UsedIn(Emptied(Retired(t)), nslots) :
               Emptied(Retired(t))[i].tensor # TensorOf(t)
<1> DEFINE gone == Retired(t)
           kept == Emptied(gone)
<1>1. gone \subseteq UsedIn(slots, nslots)
  BY TheMatch DEF Retired, Stale, UsedIn, Used
<1>2. kept = Dropped(slots, nslots, gone) /\ BufsOf(gone) = BufsIn(slots, gone)
  BY DEF Emptied, Dropped, BufsOf, BufsIn
<1>3. TableOK(slots, nslots, live, total)
  BY DEF IInv, TableInv
<1>4. /\ TableOK(kept, nslots, live \ BufsOf(gone), total - Cardinality(Units(slots, gone)))
      /\ UsedIn(kept, nslots) = UsedIn(slots, nslots) \ gone
  <2> HIDE DEF gone, kept
  <2>1. gone \in SUBSET UsedIn(slots, nslots)
    BY <1>1
  <2> QED BY <2>1, <1>2, <1>3, DropSlots
<1>5. \A i \in UsedIn(slots, nslots) \ gone : slots[i].tensor # TensorOf(t)
  BY TheMatch DEF Vacant, Retired, UsedIn, Matches
<1>6. \A i \in UsedIn(kept, nslots) : kept[i].tensor # TensorOf(t)
  BY <1>2, <1>4, <1>5 DEF UsedIn, Dropped
<1> QED BY <1>4, <1>6 DEF TotalWithout, Weight

\* grow_locked leaves a consistent table with an unused slot in it.
LEMMA AfterGrowth ==
  ASSUME NEW tab, NEW lv, NEW tot, TableOK(tab, nslots, lv, tot)
  PROVE  /\ NextSize(tab) \in Nat /\ NextSize(tab) >= nslots
         /\ TableOK(Grown(tab), NextSize(tab), lv, tot)
         /\ UsedIn(Grown(tab), NextSize(tab)) = UsedIn(tab, nslots)
         /\ \A i \in UsedIn(tab, nslots) : Grown(tab)[i] = tab[i]
         /\ \E i \in 1 .. NextSize(tab) : ~Grown(tab)[i].used
<1>1. nslots \in Nat
  BY DEF TableOK
<1>2. NextSize(tab) \in Nat /\ NextSize(tab) >= nslots
  BY <1>1, MemoryAssumption DEF NextSize
<1>3. Grown(tab) = [i \in 1 .. NextSize(tab) |-> IF i <= nslots THEN tab[i] ELSE Empty]
  BY DEF Grown
<1>4. /\ TableOK(Grown(tab), NextSize(tab), lv, tot)
      /\ UsedIn(Grown(tab), NextSize(tab)) = UsedIn(tab, nslots)
      /\ \A i \in UsedIn(tab, nslots) : Grown(tab)[i] = tab[i]
  BY <1>2, <1>3, GrowTable
<1>5. \E i \in 1 .. NextSize(tab) : ~Grown(tab)[i].used
  <2>1. CASE Full(tab)
    <3>1. nslots + 1 \in 1 .. NextSize(tab) /\ ~(nslots + 1 <= nslots)
      BY <2>1, <1>1, MemoryAssumption DEF NextSize
    <3> QED BY <3>1, <1>3, EmptyIsSlot
  <2>2. CASE ~Full(tab)
    <3>1. PICK i \in 1 .. nslots : ~tab[i].used
      BY <2>2 DEF Full
    <3>2. i \in 1 .. NextSize(tab) /\ i <= nslots
      BY <1>1, <1>2
    <3> QED BY <3>1, <3>2, <1>3
  <2> QED BY <2>1, <2>2
<1> QED BY <1>2, <1>4, <1>5

LEMMA ScrubbedType ==
  ASSUME TypeOK, NEW S
  PROVE  Scrubbed(S) \in [Buf -> [0 .. Tiles - 1 -> Content \cup {Junk}]]
BY DEF TypeOK, Scrubbed, Blank

LEMMA FpOfType ==
  ASSUME IInv, NEW t \in Thread, pc[t] # "idle"
  PROVE  FpOf(t) \in FpValue \cup {NoFp}
BY KeysAssumption, ThreadsAssumption DEF IInv, PlacesInv, TypeOK, FpOf, TensorOf

LEMMA LostAfterType ==
  ASSUME TypeOK, NEW t, NEW tab, NEW l \in LostAfter(t, tab)
  PROVE  l \subseteq Thread
BY DEF TypeOK, LostAfter

LEMMA ScanningIsActive ==
  ASSUME IInv, NEW t \in Thread, Scanning(t)
  PROVE  pc[t] # "idle" /\ TensorOf(t) \in Tensor
BY DEF Scanning, IInv, PlacesInv

-----------------------------------------------------------------------------
(* One lemma per kind of step.                                              *)

LEMMA InitIInv == Init => IInv
<1> SUFFICES ASSUME Init PROVE IInv
  OBVIOUS
<1>1. TypeOK
  BY MemoryAssumption, KeysAssumption DEF Init, TypeOK, Blank, Places
<1>2. TableInv
  <2>1. UsedIn(slots, nslots) = {}
    BY DEF Init, UsedIn
  <2>2. Cardinality(Units(slots, {})) = 0
    BY UnitsEmpty
  <2>3. slots \in [1 .. nslots -> Slot] /\ nslots \in Nat
    BY <1>1 DEF TypeOK
  <2>4. live = {slots[i].buf : i \in {}} /\ total = 0 /\ 0 <= Cap
    BY MemoryAssumption DEF Init
  <2> QED BY <2>1, <2>2, <2>3, <2>4 DEF TableInv, TableOK
<1>3. PlacesInv
  BY DEF Init, PlacesInv, Waits
<1> QED BY <1>1, <1>2, <1>3 DEF IInv

\* Steps that leave the table alone and move at most thread t.
LEMMA QuietSteps ==
  ASSUME IInv, NEW t \in Thread,
         \/ Bypass(t) \/ Hit(t) \/ WaitForPack(t) \/ Join(t) \/ WaitForStale(t)
         \/ WakeHit(t) \/ WakeSlice(t) \/ SleepAgain(t) \/ SpuriousWakeup(t)
         \/ Multiply(t) \/ Pack(t)
  PROVE  IInv'
<1> USE DEF IInv
<1>1. CASE Bypass(t)
  <2>1. TypeOK'
    BY <1>1 DEF Bypass, Return, TypeOK, Places
  <2>2. PlacesInv'
    BY <1>1 DEF Bypass, Return, TypeOK, PlacesInv, TensorOf, Waits
  <2> QED BY <2>1, <2>2, <1>1 DEF Bypass, TableInv
<1>2. CASE Hit(t)
  <2>1. MatchOf(t) \in 1 .. nslots
    BY <1>2, TheMatch DEF Hit, Hits
  <2>2. slots[MatchOf(t)].buf \in Buf \cup {NoBuf}
    BY <2>1 DEF TypeOK, Slot
  <2>3. TypeOK'
    BY <1>2, <2>2 DEF Hit, Return, TypeOK, Places, cacheVars
  <2>4. PlacesInv'
    BY <1>2, ScanningIsActive DEF Hit, Return, TypeOK, PlacesInv, TensorOf, Waits, cacheVars
  <2> QED BY <2>3, <2>4, <1>2 DEF Hit, TableInv, cacheVars
<1>3. CASE Join(t)
  <2>1. MatchOf(t) \in 1 .. nslots
    BY <1>3, TheMatch DEF Join, Hits
  <2>2. slots[MatchOf(t)].buf \in Buf \cup {NoBuf}
    BY <2>1 DEF TypeOK, Slot
  <2>3. TypeOK'
    BY <1>3, <2>2 DEF Join, Return, TypeOK, Places, cacheVars
  <2>4. PlacesInv'
    BY <1>3, ScanningIsActive DEF Join, Return, TypeOK, PlacesInv, TensorOf, Waits, cacheVars
  <2> QED BY <2>3, <2>4, <1>3 DEF Join, TableInv, cacheVars
<1>4. CASE WaitForPack(t) \/ WaitForStale(t)
  <2>1. MatchOf(t) \in 1 .. nslots /\ Scanning(t)
    BY <1>4, TheMatch DEF WaitForPack, Hits, WaitForStale, Stale
  <2>2. /\ \E p \in {"hit_wait", "stale_wait"} : Sleep(t, p, MatchOf(t))
        /\ UNCHANGED <<cacheVars, mem, content, op, ops, buf>>
    BY <1>4 DEF WaitForPack, WaitForStale
  <2>3. FpOf(t) \in FpValue \cup {NoFp}
    BY <2>1, ScanningIsActive, FpOfType
  <2>4. TypeOK'
    BY <2>1, <2>2, <2>3 DEF Sleep, TypeOK, Places, cacheVars
  <2>5. PlacesInv'
    BY <2>1, <2>2, ScanningIsActive DEF Sleep, TypeOK, PlacesInv, TensorOf, Waits, cacheVars
  <2> QED BY <2>4, <2>5, <2>2 DEF TableInv, cacheVars
<1>5. CASE WakeHit(t) \/ WakeSlice(t)
  <2>1. pc[t] \in Waits
    BY <1>5 DEF WakeHit, WakeSlice, Woken
  <2>2. slots[ptr[t]].buf \in Buf \cup {NoBuf}
    BY <2>1 DEF PlacesInv, TypeOK, Slot
  <2>3. PICK b \in Buf \cup {NoBuf} : Return(t, "use", b)
    BY <1>5, <2>2 DEF WakeHit, WakeSlice, TypeOK
  <2>4. lost' = lost \ {t} /\ UNCHANGED <<cacheVars, mem, content, op, ops, asleep>>
    BY <1>5 DEF WakeHit, WakeSlice
  <2>5. TypeOK'
    BY <2>3, <2>4 DEF Return, TypeOK, Places, cacheVars
  <2>6. PlacesInv'
    BY <2>1, <2>3, <2>4 DEF Return, TypeOK, PlacesInv, TensorOf, Waits, cacheVars
  <2> QED BY <2>4, <2>5, <2>6 DEF TableInv, cacheVars
<1>6. CASE SleepAgain(t) \/ SpuriousWakeup(t)
  <2>1. /\ UNCHANGED <<cacheVars, mem, content, op, ops, pc, buf, fp, ptr, lost>>
        /\ asleep' \in {asleep \cup {t}, asleep \ {t}}
    BY <1>6 DEF SleepAgain, SpuriousWakeup
  <2>2. TypeOK'
    BY <2>1 DEF TypeOK, cacheVars
  <2>3. PlacesInv'
    BY <2>1 DEF PlacesInv, TensorOf, Waits, cacheVars
  <2> QED BY <2>1, <2>2, <2>3 DEF TableInv, cacheVars
<1>7. CASE Multiply(t)
  <2>1. TypeOK'
    BY <1>7 DEF Multiply, Return, TypeOK, Places, cacheVars
  <2>2. PlacesInv'
    BY <1>7 DEF Multiply, Return, TypeOK, PlacesInv, TensorOf, Waits, cacheVars
  <2> QED BY <2>1, <2>2, <1>7 DEF Multiply, TableInv, cacheVars
<1>8. CASE Pack(t)
  <2>1. content[TensorOf(t)] \in Content
    BY <1>8 DEF Pack, PlacesInv, TypeOK
  <2>2. mem' \in [Buf -> [0 .. Tiles - 1 -> Content \cup {Junk}]]
    BY <1>8, <2>1 DEF Pack, TypeOK
  <2>3. TypeOK'
    BY <1>8, <2>2 DEF Pack, TypeOK, Places, cacheVars
  <2>4. PlacesInv'
    BY <1>8 DEF Pack, TypeOK, PlacesInv, TensorOf, Waits, cacheVars
  <2> QED BY <2>3, <2>4, <1>8 DEF Pack, TableInv, cacheVars
<1> QED BY <1>1, <1>2, <1>3, <1>4, <1>5, <1>6, <1>7, <1>8

LEMMA RefuseStep ==
  ASSUME IInv, NEW t \in Thread, Refuse(t)
  PROVE  IInv'
<1> DEFINE gone == Retired(t)
           tab  == Emptied(gone)
<1>1. Scanning(t) /\ Vacant(t) /\ pc[t] # "idle" /\ TensorOf(t) \in Tensor
  BY ScanningIsActive DEF Refuse
<1>2. TableOK(tab, nslots, live \ BufsOf(gone), TotalWithout(gone))
  BY <1>1, AfterRetirement
<1>3. /\ NextSize(tab) \in Nat /\ NextSize(tab) >= nslots
      /\ TableOK(Grown(tab), NextSize(tab), live \ BufsOf(gone), TotalWithout(gone))
  <2> HIDE DEF gone, tab
  <2> QED BY <1>2, AfterGrowth
<1>4. /\ \/ slots' = tab /\ nslots' = nslots
         \/ slots' = Grown(tab) /\ nslots' = NextSize(tab)
      /\ total' = TotalWithout(gone) /\ live' = live \ BufsOf(gone)
      /\ lost' \subseteq Thread
  BY LostAfterType DEF Refuse, IInv, TypeOK
<1>5. TableInv' /\ nslots' \in Nat /\ nslots' >= nslots
  <2>1. nslots \in Nat
    BY DEF IInv, TypeOK
  <2> HIDE DEF gone, tab
  <2> QED BY <1>2, <1>3, <1>4, <2>1 DEF TableInv
<1>6. slots' \in [1 .. nslots' -> Slot] /\ total' \in Int /\ live' \subseteq Buf
  <2>1. live \subseteq Buf
    BY DEF IInv, TypeOK
  <2>2. total' \in Int
    BY <1>5, TableTotalType DEF TableInv
  <2>3. slots' \in [1 .. nslots' -> Slot]
    BY <1>5 DEF TableInv, TableOK
  <2> QED BY <1>4, <2>1, <2>2, <2>3
<1>7. mem' \in [Buf -> [0 .. Tiles - 1 -> Content \cup {Junk}]]
  BY ScrubbedType DEF Refuse, IInv
<1>8. /\ Return(t, "fallback", NoBuf) /\ refused' = refused + 1
      /\ UNCHANGED <<admitted, content, op, ops, asleep>>
  BY DEF Refuse
<1> HIDE DEF gone, tab
<1>9. TypeOK'
  BY <1>4, <1>5, <1>6, <1>7, <1>8 DEF IInv, TypeOK, Return, Places
<1>10. PlacesInv'
  BY <1>1, <1>5, <1>8 DEF IInv, TypeOK, PlacesInv, Return, TensorOf, Waits
<1> QED BY <1>5, <1>9, <1>10 DEF IInv

LEMMA AdmitStep ==
  ASSUME IInv, NEW t \in Thread, Admit(t)
  PROVE  IInv'
<1> DEFINE gone == Retired(t)
           tab  == Emptied(gone)
           n    == NextSize(tab)
           lv   == live \ BufsOf(gone)
           left == TotalWithout(gone)
           dst  == First({i \in 1 .. n : ~Grown(tab)[i].used})
<1>1. Scanning(t) /\ Vacant(t) /\ pc[t] # "idle" /\ TensorOf(t) \in Tensor
  BY ScanningIsActive DEF Admit
<1>2. /\ TableOK(tab, nslots, lv, left)
      /\ \A i \in UsedIn(tab, nslots) : tab[i].tensor # TensorOf(t)
  BY <1>1, AfterRetirement
<1>3. PICK b \in Buf \ lv :
        /\ slots' = [Grown(tab) EXCEPT ![dst] = NewSlot(t, b)]
        /\ live' = lv \cup {b}
        /\ Return(t, "pack", b)
  BY DEF Admit
<1>4. /\ left + Bytes[TensorOf(t)] <= Cap /\ nslots' = n
      /\ total' = left + Bytes[TensorOf(t)] /\ lost' \subseteq Thread
      /\ admitted' = admitted + 1 /\ mem' = Scrubbed(gone)
      /\ UNCHANGED <<refused, content, op, ops, asleep>>
  BY LostAfterType DEF Admit, IInv, TypeOK
<1>5. NewSlot(t, b) \in Slot /\ NewSlot(t, b).bytes = Bytes[TensorOf(t)]
  <2>1. FpOf(t) \in FpValue \cup {NoFp}
    BY <1>1, FpOfType
  <2>2. PendingAtFirst(t) \in Nat
    BY NthIsNat, ThreadsAssumption DEF PendingAtFirst
  <2>3. Bytes[TensorOf(t)] \in Nat
    BY <1>1, KeysAssumption
  <2> QED BY <1>1, <2>1, <2>2, <2>3 DEF NewSlot, Slot
<1>6. /\ n \in Nat /\ n >= nslots
      /\ TableOK(Grown(tab), n, lv, left)
      /\ \A i \in UsedIn(Grown(tab), n) : Grown(tab)[i].tensor # TensorOf(t)
      /\ \E i \in 1 .. n : ~Grown(tab)[i].used
  <2> HIDE DEF gone, tab, lv, left
  <2> QED BY <1>2, AfterGrowth
<1>7. dst \in 1 .. n /\ ~Grown(tab)[dst].used
  <2> DEFINE free == {i \in 1 .. n : ~Grown(tab)[i].used}
  <2>1. free \in SUBSET Nat /\ free # {}
    BY <1>6
  <2> HIDE DEF free
  <2>2. First(free) \in free
    BY <2>1, FirstIsLeast
  <2> QED BY <2>2 DEF free
<1> HIDE DEF gone, tab, n, lv, left, dst
<1>8. TableOK([Grown(tab) EXCEPT ![dst] = NewSlot(t, b)], n, lv \cup {b},
              left + Bytes[TensorOf(t)])
  <2> DEFINE s == NewSlot(t, b)
  <2>1. /\ s \in Slot /\ s.used /\ s.tensor = TensorOf(t) /\ s.buf = b
        /\ Settled(s) => s.pending = 0
        /\ s.bytes = Bytes[TensorOf(t)]
    BY <1>5, <1>1 DEF NewSlot, Settled, PendingAtFirst, Par
  <2> HIDE DEF s
  <2>2. s.tensor \in Tensor /\ s.buf \in Buf \ lv /\ left + s.bytes <= Cap
    BY <1>1, <1>3, <1>4, <2>1
  <2>3. \A i \in UsedIn(Grown(tab), n) : Grown(tab)[i].tensor # s.tensor
    BY <1>6, <2>1
  <2>4. TableOK([Grown(tab) EXCEPT ![dst] = s], n, lv \cup {s.buf}, left + s.bytes)
    BY <1>6, <1>7, <2>1, <2>2, <2>3, FillSlot
  <2> QED BY <2>1, <2>4 DEF s
<1>9. TableInv'
  BY <1>3, <1>4, <1>8 DEF TableInv
<1>10. slots' \in [1 .. nslots' -> Slot] /\ nslots' \in Nat /\ total' \in Int
  <2>1. total' \in Nat
    BY <1>9, TableTotalType DEF TableInv
  <2> QED BY <2>1, <1>9 DEF TableInv, TableOK
<1>11. mem' \in [Buf -> [0 .. Tiles - 1 -> Content \cup {Junk}]]
  BY <1>4, ScrubbedType DEF IInv
<1>12. TypeOK'
  <2>1. live' \subseteq Buf
    BY <1>3 DEF IInv, TypeOK, lv
  <2>2. nslots' >= nslots /\ nslots \in Nat
    BY <1>4, <1>6 DEF IInv, TypeOK
  <2>3. ptr' \in [Thread -> 0 .. nslots']
    BY <1>3, <1>10, <2>2 DEF IInv, TypeOK, Return
  <2> QED BY <1>3, <1>4, <1>10, <1>11, <2>1, <2>3 DEF IInv, TypeOK, Return, Places
<1>13. PlacesInv'
  <2>1. nslots' >= nslots /\ nslots \in Nat /\ nslots' \in Nat
    BY <1>4, <1>6 DEF IInv, TypeOK
  <2> QED BY <1>1, <1>3, <1>4, <2>1 DEF IInv, TypeOK, PlacesInv, Return, TensorOf, Waits
<1> QED BY <1>9, <1>12, <1>13 DEF IInv


LEMMA PublishStep ==
  ASSUME IInv, NEW t \in Thread, Publish(t)
  PROVE  IInv'
<1> USE DEF IInv
<1>1. TableInv' /\ slots' \in [1 .. nslots -> Slot]
  <2>1. CASE Matches(TensorOf(t)) = {}
    BY <2>1 DEF Publish, TableInv, TypeOK
  <2>2. CASE Matches(TensorOf(t)) # {}
    <3> DEFINE d == MatchOf(t)
    <3>1. d \in UsedIn(slots, nslots) /\ slots[d].tensor = TensorOf(t)
      BY <2>2, TheMatch DEF UsedIn, Matches
    <3>2. slots \in [1 .. nslots -> Slot] /\ d \in 1 .. nslots
      BY <3>1 DEF TypeOK, UsedIn
    <3>3. slots[d].pending = 0
      BY <3>1 DEF TableInv, TableOK, Settled, Publish
    <3>4. slots' = [slots EXCEPT ![d].ready = TRUE]
      BY <2>2 DEF Publish
    <3> HIDE DEF d
    <3>5. [slots EXCEPT ![d].ready = TRUE] = [slots EXCEPT ![d].ready = TRUE, ![d].pending = 0]
      BY <3>2, <3>3 DEF Slot
    <3>6. TableOK(slots', nslots, live, total)
      BY <3>1, <3>4, <3>5, TouchSlot DEF TableInv
    <3> QED BY <3>6 DEF TableInv, TableOK, Publish
  <2> QED BY <2>1, <2>2
<1>2. TypeOK'
  BY <1>1 DEF Publish, TypeOK, Places, AfterBroadcast
<1>3. PlacesInv'
  BY DEF Publish, TypeOK, PlacesInv, TensorOf, Waits
<1> QED BY <1>1, <1>2, <1>3

LEMMA SliceDoneStep ==
  ASSUME IInv, NEW t \in Thread, SliceDone(t)
  PROVE  IInv'
<1> USE DEF IInv
<1>1. CASE Matches(TensorOf(t)) = {} /\ pc' = [pc EXCEPT ![t] = "use"]
           /\ UNCHANGED <<slots, ptr, asleep>>
  <2>1. TableInv'
    BY <1>1 DEF SliceDone, TableInv
  <2>2. TypeOK'
    BY <1>1 DEF SliceDone, TypeOK, Places
  <2>3. PlacesInv'
    BY <1>1 DEF SliceDone, TypeOK, PlacesInv, TensorOf, Waits
  <2> QED BY <2>1, <2>2, <2>3
<1>2. CASE Matches(TensorOf(t)) # {}
  <2> DEFINE d     == MatchOf(t)
             p     == CountDown(slots[d].pending)
             ready == slots[d].ready \/ LastSlice(slots[d].pending)
  <2>1. /\ d \in UsedIn(slots, nslots) /\ slots[d].tensor = TensorOf(t)
        /\ slots \in [1 .. nslots -> Slot] /\ d \in 1 .. nslots
    BY <1>2, TheMatch DEF UsedIn, Matches, TypeOK
  <2>2. p \in Nat /\ ready \in BOOLEAN /\ (ready => p = 0)
    <3>1. slots[d].pending \in Nat /\ slots[d].ready \in BOOLEAN
      BY <2>1 DEF Slot
    <3>2. slots[d].ready => slots[d].pending = 0
      BY <2>1 DEF TableInv, TableOK, Settled
    <3> QED BY <3>1, <3>2 DEF CountDown, LastSlice
  <2>3. /\ slots' = [slots EXCEPT ![d].pending = p, ![d].ready = ready]
        /\ pc' = [pc EXCEPT ![t] = IF ready THEN "use" ELSE "slice_wait"]
        /\ ptr' = [ptr EXCEPT ![t] = IF ready THEN 0 ELSE d]
        /\ asleep' \subseteq asleep \cup {t}
        /\ UNCHANGED <<nslots, total, admitted, refused, live, mem, content, op, ops,
                       buf, fp, lost>>
    BY <1>2 DEF SliceDone, AfterBroadcast
  <2>4. slots[d].tensor \notin Serial
    BY <2>1 DEF SliceDone, Par
  <2> HIDE DEF d, p, ready
  <2>5. slots' = [slots EXCEPT ![d].ready = ready, ![d].pending = p]
    BY <2>1, <2>3 DEF Slot
  <2>6. TableOK(slots', nslots, live, total)
    BY <2>1, <2>2, <2>4, <2>5, TouchSlot DEF TableInv
  <2>7. TypeOK'
    <3>1. slots' \in [1 .. nslots -> Slot]
      BY <2>6 DEF TableOK
    <3>2. ptr' \in [Thread -> 0 .. nslots] /\ pc' \in [Thread -> Places]
      BY <2>1, <2>3 DEF TypeOK, Places
    <3>3. asleep' \subseteq Thread
      BY <2>3 DEF TypeOK
    <3> QED BY <3>1, <3>2, <3>3, <2>3 DEF TypeOK
  <2>8. PlacesInv'
    BY <2>1, <2>3 DEF SliceDone, TypeOK, PlacesInv, TensorOf, Waits
  <2> QED BY <2>3, <2>6, <2>7, <2>8 DEF TableInv
<1> QED BY <1>1, <1>2 DEF SliceDone

\* Steps of the callers, and clear().
LEMMA CallerSteps ==
  ASSUME IInv,
         \/ \E c \in Ctx : EndOp(c) \/ \E x \in Tensor : StartOp(c, x)
         \/ \E x \in Tensor : Reload(x)
  PROVE  IInv'
<1> USE DEF IInv
<1>1. ASSUME NEW c \in Ctx, NEW x \in Tensor, StartOp(c, x) PROVE IInv'
  <2>1. ops' \in 0 .. MaxOps
    BY <1>1, MemoryAssumption DEF StartOp, TypeOK
  <2>2. TypeOK'
    BY <1>1, <2>1 DEF StartOp, TypeOK, Places, cacheVars
  <2>3. PlacesInv'
    BY <1>1, ThreadsAssumption DEF StartOp, TypeOK, PlacesInv, TensorOf, Waits, cacheVars
  <2> QED BY <1>1, <2>2, <2>3 DEF StartOp, TableInv, cacheVars
<1>2. ASSUME NEW c \in Ctx, EndOp(c) PROVE IInv'
  <2>1. TypeOK'
    BY <1>2 DEF EndOp, TypeOK, Places, cacheVars
  <2>2. PlacesInv'
    BY <1>2, ThreadsAssumption DEF EndOp, TypeOK, PlacesInv, TensorOf, Waits, cacheVars
  <2> QED BY <1>2, <2>1, <2>2 DEF EndOp, TableInv, cacheVars
<1>3. ASSUME NEW x \in Tensor, Reload(x) PROVE IInv'
  <2>1. TypeOK'
    BY <1>3 DEF Reload, TypeOK, cacheVars, threadVars
  <2>2. PlacesInv'
    BY <1>3 DEF Reload, PlacesInv, TensorOf, Waits, cacheVars, threadVars
  <2> QED BY <1>3, <2>1, <2>2 DEF Reload, TableInv, cacheVars
<1> QED BY <1>1, <1>2, <1>3

LEMMA ClearStep ==
  ASSUME IInv, Clear
  PROVE  IInv'
<1> DEFINE gone == {i \in 1 .. nslots : slots[i].used /\ slots[i].ready}
<1>1. /\ slots' = Emptied(gone) /\ total' = TotalWithout(gone)
      /\ live' = live \ BufsOf(gone) /\ mem' = Scrubbed(gone)
      /\ UNCHANGED <<nslots, admitted, refused, content, op, ops, threadVars>>
  BY DEF Clear
<1>2. gone \in SUBSET UsedIn(slots, nslots)
  BY DEF UsedIn
<1> HIDE DEF gone
<1>3. Emptied(gone) = Dropped(slots, nslots, gone) /\ BufsOf(gone) = BufsIn(slots, gone)
  BY DEF Emptied, Dropped, BufsOf, BufsIn
<1>4. TableOK(slots', nslots, live', total')
  BY <1>1, <1>2, <1>3, DropSlots DEF IInv, TableInv, TotalWithout, Weight
<1>5. total' \in Nat /\ slots' \in [1 .. nslots -> Slot]
  BY <1>4, TableTotalType DEF TableOK
<1>6. mem' \in [Buf -> [0 .. Tiles - 1 -> Content \cup {Junk}]]
  BY <1>1, ScrubbedType DEF IInv
<1>7. TypeOK'
  BY <1>1, <1>5, <1>6 DEF IInv, TypeOK, threadVars
<1>8. PlacesInv'
  BY <1>1 DEF IInv, PlacesInv, TensorOf, Waits, threadVars
<1> QED BY <1>1, <1>4, <1>7, <1>8 DEF IInv, TableInv

-----------------------------------------------------------------------------
(* The theorems.                                                            *)

\* Every step of the cache, its callers and the allocator keeps the table
\* consistent.
LEMMA NextIInv == IInv /\ [Next]_vars => IInv'
<1> SUFFICES ASSUME IInv, [Next]_vars PROVE IInv'
  OBVIOUS
<1>1. ASSUME NEW t \in Thread, ThreadStep(t) \/ SpuriousWakeup(t) PROVE IInv'
  BY <1>1, QuietSteps, RefuseStep, AdmitStep, PublishStep, SliceDoneStep DEF ThreadStep
<1>2. CASE \/ \E c \in Ctx : EndOp(c) \/ \E x \in Tensor : StartOp(c, x)
           \/ \E x \in Tensor : Reload(x)
  BY <1>2, CallerSteps
<1>3. CASE Clear
  BY <1>3, ClearStep
<1>4. CASE UNCHANGED vars
  BY <1>4 DEF vars, cacheVars, threadVars, IInv, TypeOK, TableInv, PlacesInv, TensorOf, Waits
<1> QED BY <1>1, <1>2, <1>3, <1>4 DEF Next

LEMMA Invariance == Spec => []IInv
BY InitIInv, NextIInv, PTL DEF Spec

\* The model's variables keep their types: what malloc returns, what the table
\* holds and what a thread's slot pointer points at.
THEOREM TypesHold == Spec => []TypeOK
<1>1. IInv => TypeOK
  BY DEF IInv
<1> QED BY <1>1, Invariance, PTL

\* The cache never holds two slots for one key, whichever threads race to admit
\* it, so publish and slice_done find the slot they mean by key alone.
THEOREM KeysAreUnique == Spec => []OneSlotPerKey
<1>1. IInv => OneSlotPerKey
  BY DEF IInv, TableInv, TableOK, UsedIn, OneSlotPerKey, Used
<1> QED BY <1>1, Invariance, PTL

\* No pack leaks, none is freed twice and no two slots share one, through
\* admissions, refusals, retirements, growths and clear().
THEOREM NoLeakNoDoubleFree == Spec => []BuffersOwned
<1>1. IInv => BuffersOwned
  BY DEF IInv, TableInv, TableOK, UsedIn, BuffersOwned, Used
<1> QED BY <1>1, Invariance, PTL

\* g_total is the size of what is resident and PPC_APACK_CACHE_MB bounds it.
THEOREM CapIsKept == Spec => []BytesAccounted
<1>1. IInv => BytesAccounted
  BY DEF IInv, TableInv, TableOK, UsedIn, BytesAccounted, Used, Weight
<1> QED BY <1>1, Invariance, PTL

\* The count-down of slice_done can end only one fill of a slot.
THEOREM CountDownEndsOnce == Spec => []ReadyIsSettled
<1>1. IInv => ReadyIsSettled
  BY DEF IInv, TableInv, TableOK, UsedIn, ReadyIsSettled, Used, Settled
<1> QED BY <1>1, Invariance, PTL
=============================================================================
