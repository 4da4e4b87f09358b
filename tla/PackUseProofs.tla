---------------------------- MODULE PackUseProofs ---------------------------
(***************************************************************************)
(* What the operations may rely on, for every number of tensors, contexts, *)
(* threads and buffers and every cap: a multiplication reads a whole pack  *)
(* of the present weights, all threads of an operation have the same pack  *)
(* or none, a parallel fill is counted exactly, a serial one has a single  *)
(* packer, nobody writes into or frees a pack in use, and nobody sleeps    *)
(* through the broadcast it waits for.                                     *)
(*                                                                         *)
(* It holds under Calm, which names what the code relies on and does not   *)
(* check: the runs SharedFill, MovedTable and PartialRefusal show what     *)
(* happens without three of its parts, and a reload or clear() in the      *)
(* middle of an operation changes or frees what the operation reads.       *)
(***************************************************************************)
EXTENDS PackCacheProofs, SlicesProofs

\* clear() and reloads wait for the operations they touch, memory suffices
\* and the slot table stays where it is; a tensor filled in parallel belongs
\* to one context; the fingerprint tells the weights apart.
Calm ==
    /\ InFlight = {} /\ ~AllocMayFail /\ ~TableMayMove
    /\ \A c, d \in Ctx : \A x \in Par : x \in Uses[c] /\ x \in Uses[d] => c = d
    /\ \A d, e \in Content : Fp[d] = Fp[e] => d = e

\* Slot i holds, or will hold, the present weights of x.
Current(i, x) == i \in Used /\ slots[i].tensor = x /\ slots[i].fp = Fp[content[x]]

\* A pack of x is refused now and stays so until the cache is cleared.
NoRoom(x) == Bytes[x] > Cap \/ (Matches(x) = {} /\ total + Bytes[x] > Cap)

\* Slot i is the slot thread t was given.
SlotOf(t, i) ==
    /\ Current(i, TensorOf(t))
    /\ pc[t] \in {"pack", "packed"} => ~slots[i].ready
    /\ pc[t] \in {"use", "done"} => slots[i].ready
    /\ pc[t] \in {"hit_wait", "slice_wait"} => ptr[t] = i
    /\ pc[t] # "hit_wait" => buf[t] = slots[i].buf

Served(t) ==
    /\ pc[t] \in {"pack", "packed", "hit_wait", "slice_wait", "use", "done"}
    /\ pc[t] = "hit_wait" => TensorOf(t) \in Serial
    /\ pc[t] = "slice_wait" => TensorOf(t) \in Par
    /\ \E i \in Used : SlotOf(t, i)

TurnedAway(t) == pc[t] \in {"fallback", "done"} /\ buf[t] = NoBuf /\ NoRoom(TensorOf(t))

ThreadOK(t) ==
    /\ pc[t] = "idle" <=> TensorOf(t) = NoTensor
    /\ pc[t] \notin {"idle", "acquire"} => Served(t) \/ TurnedAway(t)

\* What a thread has packed is there.
Written(t) ==
    pc[t] \in {"packed", "slice_wait"} =>
        \A k \in Mine(t) : mem[buf[t]][k] = content[TensorOf(t)]

\* The threads of a context whose slice of a parallel fill is still to come.
Outstanding(c) == {t \in Threads(c) : pc[t] \in {"acquire", "pack", "packed"}}

Fills(t, x) == pc[t] \in {"pack", "packed"} /\ TensorOf(t) = x

SlotOK(i) ==
    /\ slots[i].bytes = Bytes[slots[i].tensor]
    /\ slots[i].ready => \E d \in Content : slots[i].fp = Fp[d] /\ mem[slots[i].buf] = Whole(d)
    /\ ~slots[i].ready =>
          /\ slots[i].fp = Fp[content[slots[i].tensor]]
          /\ slots[i].tensor \in Serial => \E t \in Thread : Fills(t, slots[i].tensor)
          /\ slots[i].tensor \in Par =>
                \E c \in Ctx : /\ op[c] = slots[i].tensor
                               /\ slots[i].pending = Cardinality(Outstanding(c))
                               /\ slots[i].pending > 0

OpsOK == \A c \in Ctx : op[c] = NoTensor \/ op[c] \in Uses[c]

UInv ==
    /\ IInv /\ lost = {} /\ OpsOK /\ OneSerialPacker
    /\ \A i \in Used : SlotOK(i)
    /\ \A t \in Thread : ThreadOK(t) /\ Written(t)

-----------------------------------------------------------------------------
(* What the invariant says at once.                                         *)

LEMMA TableFacts ==
  ASSUME IInv
  PROVE  /\ nslots \in Nat /\ slots \in [1 .. nslots -> Slot] /\ Used \subseteq 1 .. nslots
         /\ \A i \in Used : /\ slots[i].tensor \in Tensor /\ slots[i].buf \in Buf
                            /\ slots[i].bytes \in Nat /\ slots[i].bytes <= Cap
                            /\ slots[i].pending \in Nat /\ slots[i].ready \in BOOLEAN
         /\ \A i, j \in Used :
               slots[i].tensor = slots[j].tensor \/ slots[i].buf = slots[j].buf => i = j
         /\ live = {slots[i].buf : i \in Used}
         /\ total \in Nat /\ total <= Cap /\ Cap \in Nat
<1>1. Used = UsedIn(slots, nslots)
  BY DEF Used, UsedIn
<1>2. total \in Nat
  BY TableTotalType DEF IInv, TableInv
<1> QED BY <1>1, <1>2, MemoryAssumption DEF IInv, TableInv, TableOK, UsedIn, Slot

\* Scans start at the call: no thread waits for a stale slot.
LEMMA ScanIsACall ==
  ASSUME UInv, NEW t \in Thread, Scanning(t)
  PROVE  /\ pc[t] = "acquire" /\ FpOf(t) = Fp[content[TensorOf(t)]]
         /\ TensorOf(t) \in Tensor /\ Bytes[TensorOf(t)] \in Nat \ {0}
         /\ Bytes[TensorOf(t)] <= Cap /\ content[TensorOf(t)] \in Content
<1>1. pc[t] # "stale_wait"
  BY DEF UInv, ThreadOK, Served, TurnedAway
<1>2. pc[t] = "acquire" /\ Bytes[TensorOf(t)] <= Cap
  BY <1>1 DEF Scanning
<1>3. TensorOf(t) \in Tensor
  BY <1>2 DEF UInv, IInv, PlacesInv
<1> QED BY <1>2, <1>3, KeysAssumption DEF FpOf, UInv, IInv, TypeOK

\* The match of a scan, and that nothing else matches.
LEMMA TheSlot ==
  ASSUME UInv, NEW t \in Thread, Matches(TensorOf(t)) # {}
  PROVE  /\ MatchOf(t) \in Used /\ slots[MatchOf(t)].tensor = TensorOf(t)
         /\ \A i \in Used : slots[i].tensor = TensorOf(t) => i = MatchOf(t)
BY TheMatch DEF UInv, Matches, Used

LEMMA MatchesAreUsed == \A x : Matches(x) = {i \in Used : slots[i].tensor = x}
BY DEF Matches, Used

\* A slot that is being filled has the present fingerprint, so nobody ever
\* waits for a stale one.
LEMMA NoStaleWait ==
  ASSUME UInv, NEW t \in Thread
  PROVE  ~WaitForStale(t)
<1> SUFFICES ASSUME WaitForStale(t) PROVE FALSE
  OBVIOUS
<1>1. Scanning(t) /\ Stale(t) /\ ~slots[MatchOf(t)].ready
  BY DEF WaitForStale
<1>2. MatchOf(t) \in Used /\ slots[MatchOf(t)].tensor = TensorOf(t)
  BY <1>1, TheSlot DEF Stale
<1>3. slots[MatchOf(t)].fp = Fp[content[TensorOf(t)]]
  BY <1>1, <1>2 DEF UInv, SlotOK
<1> QED BY <1>1, <1>3, ScanIsACall DEF Stale

\* Where a scan goes on to admission nobody of the same tensor has a slot.
LEMMA VacantMeansNobody ==
  ASSUME UInv, NEW t \in Thread, Scanning(t), Vacant(t)
  PROVE  /\ \A i \in Used : ~Current(i, TensorOf(t))
         /\ \A u \in Thread : TensorOf(u) = TensorOf(t) => ~Served(u)
<1>1. ASSUME NEW i \in Used PROVE ~Current(i, TensorOf(t))
  <2>1. SUFFICES ASSUME Current(i, TensorOf(t)) PROVE FALSE
    OBVIOUS
  <2>2. Matches(TensorOf(t)) # {}
    BY <2>1, MatchesAreUsed DEF Current
  <2>3. i = MatchOf(t)
    BY <2>1, <2>2, TheSlot DEF Current
  <2>4. slots[i].fp = FpOf(t)
    BY <2>1, ScanIsACall DEF Current
  <2> QED BY <2>2, <2>3, <2>4 DEF Vacant, Stale
<1>2. ASSUME NEW u \in Thread, TensorOf(u) = TensorOf(t) PROVE ~Served(u)
  BY <1>1, <1>2 DEF Served, SlotOf
<1> QED BY <1>1, <1>2

\* The slot of a thread is the only one for its tensor.
LEMMA OneSlotOf ==
  ASSUME UInv, NEW t \in Thread, NEW i \in Used, SlotOf(t, i),
         NEW j \in Used, slots[j].tensor = TensorOf(t)
  PROVE  j = i
BY TableFacts DEF UInv, SlotOf, Current

LEMMA ServedOrNot ==
  ASSUME UInv, NEW t \in Thread
  PROVE  /\ pc[t] \in {"pack", "packed", "hit_wait", "slice_wait", "use"} => Served(t)
         /\ pc[t] = "fallback" => TurnedAway(t)
         /\ pc[t] = "done" => Served(t) \/ TurnedAway(t)
         /\ pc[t] # "stale_wait"
         /\ TurnedAway(t) => \A i \in Used : slots[i].tensor # TensorOf(t)
         /\ Served(t) => buf[t] # NoBuf \/ pc[t] = "hit_wait"
<1>1. TurnedAway(t) => \A i \in Used : slots[i].tensor # TensorOf(t)
  <2> SUFFICES ASSUME TurnedAway(t), NEW i \in Used, slots[i].tensor = TensorOf(t)
               PROVE  FALSE
    OBVIOUS
  <2>1. slots[i].bytes = Bytes[TensorOf(t)] /\ slots[i].bytes <= Cap /\ slots[i].bytes \in Nat
        /\ Cap \in Nat
    BY TableFacts DEF UInv, SlotOK
  <2>2. Matches(TensorOf(t)) # {}
    BY MatchesAreUsed
  <2> QED BY <2>1, <2>2 DEF TurnedAway, NoRoom
<1>2. Served(t) => buf[t] # NoBuf \/ pc[t] = "hit_wait"
  BY TableFacts, MemoryAssumption DEF UInv, Served, SlotOf
<1>3. pc[t] \notin {"idle", "acquire"} => Served(t) \/ TurnedAway(t)
  BY DEF UInv, ThreadOK
<1>4. TurnedAway(t) => pc[t] \in {"fallback", "done"}
  BY DEF TurnedAway
<1>5. Served(t) => pc[t] \in {"pack", "packed", "hit_wait", "slice_wait", "use", "done"}
  BY DEF Served
<1> QED BY <1>1, <1>2, <1>3, <1>4, <1>5

-----------------------------------------------------------------------------
(* What a step leaves alone.                                                *)

LEMMA OtherKept ==
  ASSUME UInv, NEW u \in Thread,
         pc'[u] = pc[u], buf'[u] = buf[u], ptr'[u] = ptr[u],
         op'[CtxOf[u]] = op[CtxOf[u]],
         pc[u] # "idle" => content'[TensorOf(u)] = content[TensorOf(u)],
         \A i \in Used : Current(i, TensorOf(u)) =>
            /\ i \in Used' /\ slots'[i].tensor = slots[i].tensor
            /\ slots'[i].fp = slots[i].fp /\ slots'[i].buf = slots[i].buf
            /\ \/ slots'[i].ready = slots[i].ready
               \/ slots'[i].ready /\ pc[u] \notin {"pack", "packed"},
         NEW x, x = TensorOf(u), pc[u] # "idle" /\ NoRoom(x) => NoRoom(x)'
  PROVE  ThreadOK(u)'
<1>1. TensorOf(u)' = x
  BY DEF TensorOf
<1>2. ThreadOK(u)
  BY DEF UInv
<1>3. ASSUME Served(u), pc[u] # "idle" PROVE Served(u)'
  <2>1. PICK i \in Used : SlotOf(u, i)
    BY <1>3 DEF Served
  <2>2. Current(i, x)
    BY <2>1 DEF SlotOf
  <2>3. /\ i \in Used' /\ slots'[i].tensor = slots[i].tensor
        /\ slots'[i].fp = slots[i].fp /\ slots'[i].buf = slots[i].buf
        /\ \/ slots'[i].ready = slots[i].ready
           \/ slots'[i].ready /\ pc[u] \notin {"pack", "packed"}
    BY <2>2
  <2>4. content'[x] = content[x]
    BY <1>3
  <2>5. Current(i, TensorOf(u))'
    BY <1>1, <2>2, <2>3, <2>4 DEF Current
  <2>6. SlotOf(u, i)'
    BY <2>1, <2>3, <2>5 DEF SlotOf
  <2> QED BY <1>1, <1>3, <2>3, <2>6 DEF Served
<1>4. ASSUME TurnedAway(u) PROVE TurnedAway(u)'
  BY <1>1, <1>4 DEF TurnedAway
<1>5. CASE pc[u] = "idle"
  BY <1>1, <1>2, <1>5 DEF ThreadOK
<1>6. CASE pc[u] # "idle"
  BY <1>1, <1>2, <1>3, <1>4, <1>6 DEF ThreadOK
<1> QED BY <1>5, <1>6

LEMMA WrittenKept ==
  ASSUME UInv, NEW u \in Thread,
         pc'[u] = pc[u], buf'[u] = buf[u], op'[CtxOf[u]] = op[CtxOf[u]],
         pc[u] \in {"packed", "slice_wait"} =>
            /\ content'[TensorOf(u)] = content[TensorOf(u)]
            /\ mem'[buf[u]] = mem[buf[u]]
  PROVE  Written(u)'
<1>1. TensorOf(u)' = TensorOf(u)
  BY DEF TensorOf
<1>2. Mine(u)' = Mine(u)
  BY <1>1 DEF Mine
<1>3. Written(u)
  BY DEF UInv
<1> QED BY <1>1, <1>2, <1>3 DEF Written

LEMMA SlotKept ==
  ASSUME UInv, NEW i \in Used, slots'[i] = slots[i],
         slots[i].ready => mem'[slots[i].buf] = mem[slots[i].buf],
         ~slots[i].ready => content'[slots[i].tensor] = content[slots[i].tensor],
         ~slots[i].ready /\ slots[i].tensor \in Serial =>
            \A t \in Thread : Fills(t, slots[i].tensor) =>
               pc'[t] \in {"pack", "packed"} /\ op'[CtxOf[t]] = op[CtxOf[t]],
         ~slots[i].ready /\ slots[i].tensor \in Par =>
            \A c \in Ctx : op[c] = slots[i].tensor =>
               op'[c] = op[c] /\ Outstanding(c)' = Outstanding(c)
  PROVE  SlotOK(i)'
<1> DEFINE x == slots[i].tensor
<1>1. SlotOK(i)
  BY DEF UInv
<1>2. slots'[i].bytes = Bytes[slots'[i].tensor]
  BY <1>1 DEF SlotOK
<1>3. slots'[i].ready => \E d \in Content : slots'[i].fp = Fp[d] /\ mem'[slots'[i].buf] = Whole(d)
  BY <1>1 DEF SlotOK
<1>4. ASSUME ~slots[i].ready
      PROVE  /\ slots'[i].fp = Fp[content'[x]]
             /\ x \in Serial => \E t \in Thread : Fills(t, x)'
             /\ x \in Par => \E c \in Ctx : /\ op'[c] = x
                                            /\ slots'[i].pending = Cardinality(Outstanding(c)')
                                            /\ slots'[i].pending > 0
  <2>1. slots'[i].fp = Fp[content'[x]]
    BY <1>1, <1>4 DEF SlotOK
  <2>2. x \in Serial => \E t \in Thread : Fills(t, x)'
    <3>1. SUFFICES ASSUME x \in Serial PROVE \E t \in Thread : Fills(t, x)'
      OBVIOUS
    <3>2. PICK t \in Thread : Fills(t, x)
      BY <1>1, <1>4, <3>1 DEF SlotOK
    <3>3. Fills(t, x)'
      BY <1>4, <3>1, <3>2 DEF Fills, TensorOf
    <3> QED BY <3>3
  <2>3. ASSUME x \in Par
        PROVE  \E c \in Ctx : /\ op'[c] = x
                              /\ slots'[i].pending = Cardinality(Outstanding(c)')
                              /\ slots'[i].pending > 0
    <3>1. PICK c \in Ctx : /\ op[c] = x /\ slots[i].pending = Cardinality(Outstanding(c))
                           /\ slots[i].pending > 0
      BY <1>1, <1>4, <2>3 DEF SlotOK
    <3>2. op'[c] = op[c] /\ Outstanding(c)' = Outstanding(c)
      BY <1>4, <2>3, <3>1
    <3> QED BY <3>1, <3>2
  <2> QED BY <2>1, <2>2, <2>3
<1>5. slots'[i].ready \/ ~slots[i].ready
  OBVIOUS
<1> QED BY <1>2, <1>3, <1>4, <1>5 DEF SlotOK

-----------------------------------------------------------------------------
(* Steps that leave the table and the packs alone.                          *)

LEMMA Moved ==
  ASSUME UInv, IInv', NEW t \in Thread,
         UNCHANGED <<slots, nslots, total, mem, content, op>>, lost' = {},
         NEW p, pc' = [pc EXCEPT ![t] = p],
         \A u \in Thread \ {t} : buf'[u] = buf[u] /\ ptr'[u] = ptr[u],
         pc[t] \notin {"pack", "packed"},
         p \in {"pack", "packed"} => TensorOf(t) \in Par,
         pc[t] = "acquire" /\ p # "pack" =>
            \A i \in Used : slots[i].tensor = TensorOf(t) /\ TensorOf(t) \in Par => slots[i].ready,
         pc[t] # "acquire" => p \notin {"acquire", "pack", "packed"},
         ThreadOK(t)', Written(t)'
  PROVE  UInv'
<1>1. /\ slots' = slots /\ nslots' = nslots /\ total' = total /\ op' = op
      /\ Used' = Used /\ \A x : Matches(x)' = Matches(x)
  BY DEF cacheVars, Used, Matches
<1>2. pc'[t] = p /\ \A u \in Thread \ {t} : pc'[u] = pc[u]
  BY DEF UInv, IInv, TypeOK
<1>3. \A x : NoRoom(x)' <=> NoRoom(x)
  BY <1>1 DEF NoRoom
<1>4. ASSUME NEW u \in Thread, u # t
      PROVE  ThreadOK(u)' /\ Written(u)'
  BY <1>1, <1>2, <1>3, <1>4, OtherKept, WrittenKept
<1>5. ASSUME NEW i \in Used
      PROVE  SlotOK(i)'
  <2>1. ASSUME NEW c \in Ctx, ~slots[i].ready, slots[i].tensor \in Par, op[c] = slots[i].tensor
        PROVE  Outstanding(c)' = Outstanding(c)
    <3> DEFINE counted == {"acquire", "pack", "packed"}
    <3>1. \A u \in Threads(c) : pc'[u] \in counted <=> pc[u] \in counted
      <4>1. SUFFICES ASSUME t \in Threads(c) PROVE p \in counted <=> pc[t] \in counted
        BY <1>2 DEF Threads
      <4>2. TensorOf(t) = slots[i].tensor
        BY <2>1, <4>1 DEF Threads, TensorOf
      <4>3. pc[t] = "acquire" => p = "pack"
        BY <2>1, <4>2
      <4> QED BY <4>3
    <3> QED BY <3>1 DEF Outstanding
  <2>2. \A u \in Thread : Fills(u, slots[i].tensor) => pc'[u] \in {"pack", "packed"}
    BY <1>2 DEF Fills
  <2> QED BY <1>1, <2>1, <2>2, SlotKept
<1>6. OneSerialPacker'
  <2>1. SUFFICES ASSUME NEW u \in Thread, NEW v \in Thread,
                        {pc'[u], pc'[v]} \subseteq {"pack", "packed"},
                        TensorOf(u) = TensorOf(v), TensorOf(u) \in Serial
                 PROVE  u = v
    BY <1>1 DEF OneSerialPacker, TensorOf
  <2>2. u # t /\ v # t
    BY <1>2, <2>1 DEF Par
  <2> QED BY <1>2, <2>1, <2>2 DEF UInv, OneSerialPacker
<1>7. OpsOK'
  BY <1>1 DEF UInv, OpsOK
<1> QED BY <1>1, <1>4, <1>5, <1>6, <1>7 DEF UInv

LEMMA GetsSlot ==
  ASSUME UInv, NEW t \in Thread, UNCHANGED <<slots, nslots, content, op>>,
         TensorOf(t) \in Tensor, NEW i \in Used, Current(i, TensorOf(t)),
         NEW p \in {"pack", "packed", "hit_wait", "slice_wait", "use", "done"}, pc'[t] = p,
         p \in {"pack", "packed"} => ~slots[i].ready,
         p \in {"use", "done"} => slots[i].ready,
         p = "hit_wait" => TensorOf(t) \in Serial,
         p = "slice_wait" => TensorOf(t) \in Par,
         p \in {"hit_wait", "slice_wait"} => ptr'[t] = i,
         p # "hit_wait" => buf'[t] = slots[i].buf
  PROVE  ThreadOK(t)'
<1>1. TensorOf(t)' = TensorOf(t) /\ Used' = Used
  BY DEF TensorOf, Used
<1>2. SlotOf(t, i)'
  BY <1>1 DEF SlotOf, Current
<1>3. Served(t)'
  BY <1>1, <1>2 DEF Served
<1>4. TensorOf(t) # NoTensor
  BY KeysAssumption
<1> QED BY <1>1, <1>3, <1>4 DEF ThreadOK

\* A hit is a current slot.
LEMMA HitIsCurrent ==
  ASSUME UInv, NEW t \in Thread, Scanning(t), Hits(t)
  PROVE  MatchOf(t) \in Used /\ Current(MatchOf(t), TensorOf(t))
BY ScanIsACall, TheSlot DEF Hits, Current

LEMMA BypassKeeps ==
  ASSUME UInv, IInv', NEW t \in Thread, Bypass(t)
  PROVE  UInv'
<1>1. /\ pc' = [pc EXCEPT ![t] = "fallback"] /\ buf' = [buf EXCEPT ![t] = NoBuf]
      /\ ptr' = [ptr EXCEPT ![t] = 0] /\ lost' = {}
      /\ UNCHANGED <<slots, nslots, total, mem, content, op>>
  BY DEF Bypass, Return, UInv
<1>2. pc[t] = "acquire"
  BY DEF Bypass
<1>3. TensorOf(t) \in Tensor
  BY <1>2 DEF UInv, IInv, PlacesInv
<1>4. Bytes[TensorOf(t)] \in Nat /\ Bytes[TensorOf(t)] > Cap /\ Cap \in Nat
  BY <1>3, KeysAssumption, MemoryAssumption DEF Bypass
<1>5. \A i \in Used : slots[i].tensor # TensorOf(t)
  <2>1. SUFFICES ASSUME NEW i \in Used, slots[i].tensor = TensorOf(t) PROVE FALSE
    OBVIOUS
  <2>2. slots[i].bytes <= Cap /\ slots[i].bytes = Bytes[TensorOf(t)]
    BY <2>1, TableFacts DEF UInv, SlotOK
  <2> QED BY <1>4, <2>2
<1>6. TensorOf(t)' = TensorOf(t) /\ TensorOf(t) # NoTensor
  BY <1>1, <1>3, KeysAssumption DEF TensorOf
<1>7. pc'[t] = "fallback" /\ buf'[t] = NoBuf
  BY <1>1 DEF UInv, IInv, TypeOK
<1>8. ThreadOK(t)' /\ Written(t)'
  BY <1>4, <1>6, <1>7 DEF ThreadOK, Written, TurnedAway, NoRoom
<1>9. \A u \in Thread \ {t} : buf'[u] = buf[u] /\ ptr'[u] = ptr[u]
  BY <1>1 DEF UInv, IInv, TypeOK
<1> QED BY <1>1, <1>2, <1>5, <1>8, <1>9, Moved

LEMMA HitKeeps ==
  ASSUME UInv, IInv', NEW t \in Thread, Hit(t) \/ Join(t)
  PROVE  UInv'
<1> DEFINE i == MatchOf(t)
           p == IF Hit(t) THEN "use" ELSE "pack"
<1>1. Scanning(t) /\ Hits(t)
  BY DEF Hit, Join
<1>2. /\ pc[t] = "acquire" /\ TensorOf(t) \in Tensor /\ i \in Used /\ Current(i, TensorOf(t))
  BY <1>1, ScanIsACall, HitIsCurrent
<1>3. /\ pc' = [pc EXCEPT ![t] = p] /\ buf' = [buf EXCEPT ![t] = slots[i].buf]
      /\ ptr' = [ptr EXCEPT ![t] = 0] /\ lost' = {}
      /\ UNCHANGED <<slots, nslots, total, mem, content, op>>
  BY DEF Hit, Join, Return, UInv, cacheVars
<1>4. /\ p \in {"use", "pack"} /\ (p = "pack" => ~slots[i].ready /\ TensorOf(t) \in Par)
      /\ (p = "use" => slots[i].ready)
  BY DEF Hit, Join
<1>5. \A j \in Used : slots[j].tensor = TensorOf(t) => j = i
  BY <1>2, MatchesAreUsed, TheSlot DEF Current
<1> HIDE DEF i, p
<1>6. pc'[t] = p /\ buf'[t] = slots[i].buf
      /\ \A u \in Thread \ {t} : buf'[u] = buf[u] /\ ptr'[u] = ptr[u]
  BY <1>3 DEF UInv, IInv, TypeOK
<1>7. ThreadOK(t)'
  BY <1>2, <1>3, <1>4, <1>6, GetsSlot
<1>8. Written(t)'
  BY <1>4, <1>6 DEF Written
<1> QED BY <1>2, <1>3, <1>4, <1>5, <1>6, <1>7, <1>8, Moved

LEMMA WaitForPackKeeps ==
  ASSUME UInv, IInv', NEW t \in Thread, WaitForPack(t)
  PROVE  UInv'
<1> DEFINE i == MatchOf(t)
<1>1. Scanning(t) /\ Hits(t) /\ TensorOf(t) \in Serial
  BY DEF WaitForPack
<1>2. /\ pc[t] = "acquire" /\ TensorOf(t) \in Tensor /\ i \in Used /\ Current(i, TensorOf(t))
  BY <1>1, ScanIsACall, HitIsCurrent
<1>3. /\ pc' = [pc EXCEPT ![t] = "hit_wait"] /\ ptr' = [ptr EXCEPT ![t] = i] /\ lost' = {}
      /\ UNCHANGED <<slots, nslots, total, mem, content, op, buf>>
  BY DEF WaitForPack, Sleep, UInv, cacheVars
<1> HIDE DEF i
<1>4. pc'[t] = "hit_wait" /\ ptr'[t] = i
      /\ \A u \in Thread \ {t} : buf'[u] = buf[u] /\ ptr'[u] = ptr[u]
  BY <1>3 DEF UInv, IInv, TypeOK
<1>5. ThreadOK(t)'
  BY <1>1, <1>2, <1>3, <1>4, GetsSlot
<1>6. Written(t)'
  BY <1>4 DEF Written
<1>7. TensorOf(t) \notin Par
  BY <1>1 DEF Par
<1> QED BY <1>2, <1>3, <1>4, <1>5, <1>6, <1>7, Moved

LEMMA WakeKeeps ==
  ASSUME UInv, IInv', NEW t \in Thread, WakeHit(t) \/ WakeSlice(t)
  PROVE  UInv'
<1>1. pc[t] \in {"hit_wait", "slice_wait"} /\ Served(t) /\ slots[ptr[t]].ready
  BY ServedOrNot DEF WakeHit, WakeSlice, MayBeReady, UInv
<1>2. PICK i \in Used : SlotOf(t, i)
  BY <1>1 DEF Served
<1>3. ptr[t] = i /\ slots[i].ready /\ Current(i, TensorOf(t))
      /\ (pc[t] = "slice_wait" => buf[t] = slots[i].buf)
  BY <1>1, <1>2 DEF SlotOf
<1>4. TensorOf(t) \in Tensor
  BY <1>1 DEF UInv, IInv, PlacesInv
<1>5. /\ pc' = [pc EXCEPT ![t] = "use"] /\ buf' = [buf EXCEPT ![t] = slots[i].buf]
      /\ ptr' = [ptr EXCEPT ![t] = 0] /\ lost' = {}
      /\ UNCHANGED <<slots, nslots, total, mem, content, op>>
  BY <1>3 DEF WakeHit, WakeSlice, Return, UInv, cacheVars
<1>6. pc'[t] = "use" /\ buf'[t] = slots[i].buf
      /\ \A u \in Thread \ {t} : buf'[u] = buf[u] /\ ptr'[u] = ptr[u]
  BY <1>5 DEF UInv, IInv, TypeOK
<1>7. ThreadOK(t)'
  BY <1>3, <1>4, <1>5, <1>6, GetsSlot
<1>8. Written(t)'
  BY <1>6 DEF Written
<1> QED BY <1>1, <1>5, <1>6, <1>7, <1>8, Moved

LEMMA MultiplyKeeps ==
  ASSUME UInv, IInv', NEW t \in Thread, Multiply(t)
  PROVE  UInv'
<1>1. /\ pc[t] \in {"use", "fallback"}
      /\ pc' = [pc EXCEPT ![t] = "done"] /\ buf' = [buf EXCEPT ![t] = buf[t]]
      /\ ptr' = [ptr EXCEPT ![t] = 0] /\ lost' = {}
      /\ UNCHANGED <<slots, nslots, total, mem, content, op>>
  BY DEF Multiply, Return, UInv, cacheVars
<1>2. TensorOf(t) \in Tensor /\ TensorOf(t) # NoTensor /\ TensorOf(t)' = TensorOf(t)
  BY <1>1, KeysAssumption DEF UInv, IInv, PlacesInv, TensorOf
<1>3. pc'[t] = "done" /\ buf'[t] = buf[t]
      /\ \A u \in Thread \ {t} : buf'[u] = buf[u] /\ ptr'[u] = ptr[u]
  BY <1>1 DEF UInv, IInv, TypeOK
<1>4. Written(t)'
  BY <1>3 DEF Written
<1>5. ThreadOK(t)'
  <2>1. CASE pc[t] = "use"
    <3>1. PICK i \in Used : SlotOf(t, i)
      BY <2>1, ServedOrNot DEF Served
    <3>2. Current(i, TensorOf(t)) /\ slots[i].ready /\ buf[t] = slots[i].buf
      BY <2>1, <3>1 DEF SlotOf
    <3> QED BY <1>1, <1>2, <1>3, <3>2, GetsSlot
  <2>2. CASE pc[t] = "fallback"
    <3>1. TurnedAway(t)
      BY <2>2, ServedOrNot
    <3>2. TurnedAway(t)'
      BY <1>1, <1>2, <1>3, <3>1 DEF TurnedAway, NoRoom, Matches
    <3> QED BY <1>2, <1>3, <3>2 DEF ThreadOK
  <2> QED BY <1>1, <2>1, <2>2
<1> QED BY <1>1, <1>3, <1>4, <1>5, Moved

LEMMA NothingMoves ==
  ASSUME UInv, IInv', UNCHANGED <<slots, nslots, total, mem, content, op, pc, buf, ptr, lost>>
  PROVE  UInv'
<1>1. Used' = Used /\ \A x : NoRoom(x)' <=> NoRoom(x)
  BY DEF Used, NoRoom, Matches
<1>2. \A u \in Thread : ThreadOK(u)' /\ Written(u)'
  BY <1>1, OtherKept, WrittenKept
<1>3. \A c \in Ctx : Outstanding(c)' = Outstanding(c)
  BY DEF Outstanding
<1>4. \A i \in Used : SlotOK(i)'
  BY <1>3, SlotKept DEF Fills
<1>5. OneSerialPacker' /\ OpsOK'
  BY DEF UInv, OneSerialPacker, OpsOK, TensorOf
<1> QED BY <1>1, <1>2, <1>4, <1>5 DEF UInv

-----------------------------------------------------------------------------
(* Packing.                                                                 *)

LEMMA MineAreTiles == \A t \in Thread : Mine(t) \subseteq 0 .. Tiles - 1
BY DEF Mine, ThreadTiles

LEMMA PackKeeps ==
  ASSUME UInv, IInv', NEW t \in Thread, Pack(t)
  PROVE  UInv'
<1> DEFINE x == TensorOf(t)
           b == buf[t]
           new == [k \in 0 .. Tiles - 1 |-> IF k \in Mine(t) THEN content[x] ELSE mem[b][k]]
<1>1. /\ pc[t] = "pack" /\ mem' = [mem EXCEPT ![b] = new]
      /\ pc' = [pc EXCEPT ![t] = "packed"]
      /\ UNCHANGED <<cacheVars, content, op, ops, buf, fp, ptr, asleep, lost>>
  BY DEF Pack
<1>2. /\ slots' = slots /\ nslots' = nslots /\ total' = total /\ op' = op /\ content' = content
      /\ buf' = buf /\ ptr' = ptr /\ lost' = {}
      /\ Used' = Used /\ \A y : NoRoom(y)' <=> NoRoom(y)
  BY <1>1 DEF cacheVars, Used, NoRoom, Matches, UInv
<1>3. pc'[t] = "packed" /\ \A u \in Thread \ {t} : pc'[u] = pc[u]
  BY <1>1 DEF UInv, IInv, TypeOK
<1>4. x \in Tensor
  BY <1>1 DEF UInv, IInv, PlacesInv
<1>5. PICK i \in Used : SlotOf(t, i)
  BY <1>1, ServedOrNot DEF Served
<1>6. Current(i, x) /\ ~slots[i].ready /\ b = slots[i].buf /\ b \in Buf
  BY <1>1, <1>5, TableFacts DEF SlotOf, UInv
<1>7. mem'[b] = new /\ \A a \in Buf \ {b} : mem'[a] = mem[a]
  BY <1>1, <1>6 DEF UInv, IInv, TypeOK
<1>8. \A k \in Mine(t) : mem'[b][k] = content[x]
  BY <1>7, MineAreTiles
<1>9. \A k \in 0 .. Tiles - 1 : mem'[b][k] = content[x] \/ mem'[b][k] = mem[b][k]
  BY <1>7
<1> HIDE DEF new
<1>10. ThreadOK(t)'
  BY <1>2, <1>3, <1>4, <1>6, GetsSlot
<1>11. Mine(t)' = Mine(t) /\ TensorOf(t)' = x
  BY <1>2 DEF Mine, TensorOf
<1>12. Written(t)'
  BY <1>2, <1>8, <1>11 DEF Written
<1>13. ASSUME NEW u \in Thread, u # t
       PROVE  ThreadOK(u)' /\ Written(u)'
  <2>1. ThreadOK(u)'
    BY <1>2, <1>3, <1>13, OtherKept
  <2>2. CASE pc[u] \in {"packed", "slice_wait"} /\ buf[u] = b
    <3>1. PICK j \in Used : SlotOf(u, j)
      BY <2>2, ServedOrNot DEF Served
    <3>2. slots[j].buf = slots[i].buf /\ slots[j].tensor = TensorOf(u)
      BY <2>2, <3>1, <1>6 DEF SlotOf, Current
    <3>3. j = i /\ TensorOf(u) = x
      BY <3>2, <1>6, TableFacts DEF UInv, Current
    <3>4. TensorOf(u)' = x /\ Mine(u)' = Mine(u)
      BY <1>2, <3>3 DEF TensorOf, Mine
    <3>5. \A k \in Mine(u) : mem[b][k] = content[x]
      BY <2>2, <3>3 DEF UInv, Written
    <3>6. \A k \in Mine(u) : mem'[b][k] = content[x]
      BY <3>5, <1>9, MineAreTiles
    <3>7. Written(u)'
      BY <1>2, <2>2, <3>4, <3>6 DEF Written
    <3> QED BY <2>1, <3>7
  <2>3. CASE ~(pc[u] \in {"packed", "slice_wait"} /\ buf[u] = b)
    <3>1. pc[u] \in {"packed", "slice_wait"} => buf[u] \in Buf
      <4>1. SUFFICES ASSUME pc[u] \in {"packed", "slice_wait"} PROVE buf[u] \in Buf
        OBVIOUS
      <4>2. PICK j \in Used : SlotOf(u, j)
        BY <4>1, ServedOrNot DEF Served
      <4> QED BY <4>1, <4>2, TableFacts DEF SlotOf, UInv
    <3>2. pc'[u] = pc[u] /\ buf'[u] = buf[u] /\ op'[CtxOf[u]] = op[CtxOf[u]]
      BY <1>2, <1>3, <1>13
    <3>3. pc[u] \in {"packed", "slice_wait"} => content'[TensorOf(u)] = content[TensorOf(u)]
                                               /\ mem'[buf[u]] = mem[buf[u]]
      BY <1>2, <1>7, <2>3, <3>1
    <3>4. Written(u)'
      BY <3>2, <3>3, WrittenKept
    <3> QED BY <2>1, <3>4
  <2> QED BY <2>1, <2>2, <2>3
<1>14. ASSUME NEW j \in Used
       PROVE  SlotOK(j)'
  <2>1. slots[j].ready => mem'[slots[j].buf] = mem[slots[j].buf]
    BY <1>6, <1>7, TableFacts DEF UInv
  <2>2. \A c \in Ctx : Outstanding(c)' = Outstanding(c)
    BY <1>1, <1>3 DEF Outstanding, Threads
  <2>3. \A u \in Thread : \A y : Fills(u, y) => pc'[u] \in {"pack", "packed"}
    BY <1>3 DEF Fills
  <2> QED BY <1>2, <2>1, <2>2, <2>3, SlotKept
<1>15. OneSerialPacker' /\ OpsOK'
  <2>1. \A u \in Thread : pc'[u] \in {"pack", "packed"} <=> pc[u] \in {"pack", "packed"}
    BY <1>1, <1>3
  <2>2. \A u \in Thread : TensorOf(u)' = TensorOf(u)
    BY <1>2 DEF TensorOf
  <2> QED BY <1>2, <2>1, <2>2 DEF UInv, OneSerialPacker, OpsOK
<1> QED BY <1>2, <1>10, <1>12, <1>13, <1>14, <1>15 DEF UInv

-----------------------------------------------------------------------------
(* Admission and refusal.                                                   *)

\* What is left of the table after a retirement and a growth.
LEMMA Admission ==
  ASSUME UInv, NEW t \in Thread, Scanning(t), Vacant(t),
         NEW gone, gone = Retired(t), NEW tab, tab = Grown(Emptied(gone)),
         NEW n, n = NextSize(Emptied(gone)), NEW left, left = TotalWithout(gone)
  PROVE  /\ UsedIn(tab, n) = Used \ gone
         /\ \A i \in Used \ gone : tab[i] = slots[i] /\ slots[i].tensor # TensorOf(t)
         /\ \A i \in gone : i \in Used /\ slots[i].tensor = TensorOf(t) /\ slots[i].ready
         /\ gone = {} => Matches(TensorOf(t)) = {} /\ left = total
         /\ gone # {} => left + Bytes[TensorOf(t)] = total
         /\ n \in Nat /\ left \in Int
         /\ \E i \in 1 .. n : ~tab[i].used
<1> DEFINE kept == Emptied(gone)
           x == TensorOf(t)
           m == MatchOf(t)
<1>1. IInv
  BY DEF UInv
<1>2. gone # {} => gone = {m} /\ Matches(x) # {} /\ Stale(t)
  BY DEF Retired, Stale
<1>3. Matches(x) # {} => m \in Used /\ slots[m].tensor = x /\ \A i \in Used : slots[i].tensor = x => i = m
  BY TheSlot
<1>4. gone = {} => Matches(x) = {}
  BY DEF Vacant, Retired
<1>5. \A i \in gone : i \in Used /\ slots[i].tensor = x /\ slots[i].ready
  BY <1>2, <1>3 DEF Vacant
<1>6. \A i \in Used \ gone : slots[i].tensor # x
  BY <1>2, <1>3, <1>4, MatchesAreUsed
<1>7. TableOK(kept, nslots, live \ BufsOf(gone), left)
  BY <1>1, AfterRetirement
<1>8. UsedIn(kept, nslots) = Used \ gone /\ \A i \in Used \ gone : kept[i] = slots[i]
  BY EmptyIsSlot DEF Emptied, UsedIn, Used
<1> HIDE DEF kept
<1>9. /\ NextSize(kept) \in Nat
      /\ UsedIn(Grown(kept), NextSize(kept)) = UsedIn(kept, nslots)
      /\ \A i \in UsedIn(kept, nslots) : Grown(kept)[i] = kept[i]
      /\ \E i \in 1 .. NextSize(kept) : ~Grown(kept)[i].used
  BY <1>7, AfterGrowth
<1>10. tab = Grown(kept) /\ n = NextSize(kept)
  BY DEF kept
<1>11. left \in Nat
  BY <1>7, TableTotalType
<1>12. gone = {} => left = total
  <2>1. SUFFICES ASSUME gone = {} PROVE left = total
    OBVIOUS
  <2>2. left = total - 0
    BY <2>1, UnitsEmpty DEF TotalWithout, Weight
  <2> QED BY <2>2, <1>1, TableFacts
<1>13. gone # {} => left + Bytes[x] = total
  <2>1. SUFFICES ASSUME gone # {} PROVE left + Bytes[x] = total
    OBVIOUS
  <2>2. m \in Used /\ gone = {m} /\ slots[m].bytes = Bytes[x] /\ slots[m].bytes \in Nat
    BY <2>1, <1>1, <1>2, <1>3, TableFacts DEF UInv, SlotOK
  <2>3. left = total - slots[m].bytes
    BY <2>2, UnitsSingle DEF TotalWithout, Weight
  <2> QED BY <2>2, <2>3, <1>1, TableFacts
<1> QED BY <1>4, <1>5, <1>6, <1>8, <1>9, <1>10, <1>11, <1>12, <1>13

LEMMA NobodyIsLost ==
  ASSUME UInv, Calm, NEW t, NEW tab, NEW l \in LostAfter(t, tab)
  PROVE  l = {}
BY DEF UInv, Calm, LostAfter

LEMMA RefuseKeeps ==
  ASSUME UInv, Calm, IInv', NEW t \in Thread, Refuse(t)
  PROVE  UInv'
<1> DEFINE gone == Retired(t)
           kept == Emptied(gone)
           tab  == Grown(kept)
           n    == NextSize(kept)
           left == TotalWithout(gone)
<1>0. PICK x : x = TensorOf(t)
  OBVIOUS
<1>1. /\ Scanning(t) /\ Vacant(t) /\ left + Bytes[x] > Cap
      /\ slots' = tab /\ nslots' = n /\ total' = left
      /\ mem' = Scrubbed(gone) /\ lost' \in LostAfter(t, kept)
      /\ pc' = [pc EXCEPT ![t] = "fallback"] /\ buf' = [buf EXCEPT ![t] = NoBuf]
      /\ ptr' = [ptr EXCEPT ![t] = 0]
      /\ UNCHANGED <<content, op>>
  BY <1>0 DEF Refuse, Return, Calm
<1>2. /\ UsedIn(tab, n) = Used \ gone
      /\ \A i \in Used \ gone : tab[i] = slots[i] /\ slots[i].tensor # x
      /\ gone = {} => Matches(x) = {} /\ left = total
      /\ gone # {} => left + Bytes[x] = total
  BY <1>0, <1>1, Admission
<1>3. lost' = {}
  BY <1>1, NobodyIsLost
<1>4. pc[t] = "acquire" /\ x \in Tensor /\ x # NoTensor
  BY <1>0, <1>1, ScanIsACall, KeysAssumption
<1> HIDE DEF kept, tab, n, left
<1>5. gone = {}
  <2>1. total <= Cap /\ total \in Nat /\ Cap \in Nat
    BY TableFacts DEF UInv
  <2> QED BY <1>1, <1>2, <2>1
<1>6. Used' = Used /\ \A i \in Used : slots'[i] = slots[i] /\ slots[i].tensor # x
  BY <1>1, <1>2, <1>5 DEF Used, UsedIn
<1>7. total' = total /\ Matches(x) = {} /\ total + Bytes[x] > Cap
  BY <1>1, <1>2, <1>5
<1>8. \A y : Matches(y)' = Matches(y)
  BY <1>6 DEF Matches, Used
<1>9. \A y : NoRoom(y)' <=> NoRoom(y)
  BY <1>7, <1>8 DEF NoRoom
<1>10. \A a \in Buf : mem'[a] = mem[a]
  BY <1>1, <1>5 DEF Scrubbed, BufsOf
<1>11. /\ pc'[t] = "fallback" /\ buf'[t] = NoBuf
       /\ \A u \in Thread \ {t} : pc'[u] = pc[u] /\ buf'[u] = buf[u] /\ ptr'[u] = ptr[u]
  BY <1>1 DEF UInv, IInv, TypeOK
<1>12. ThreadOK(t)' /\ Written(t)'
  <2>1. TensorOf(t)' = x
    BY <1>0, <1>1 DEF TensorOf
  <2>2. NoRoom(x)'
    BY <1>7, <1>9 DEF NoRoom
  <2> QED BY <1>4, <1>11, <2>1, <2>2 DEF ThreadOK, TurnedAway, Written
<1>13. ASSUME NEW u \in Thread, u # t
       PROVE  ThreadOK(u)' /\ Written(u)'
  <2>1. ThreadOK(u)'
    BY <1>1, <1>6, <1>9, <1>11, <1>13, OtherKept
  <2>2. Written(u)'
    <3>1. pc[u] \in {"packed", "slice_wait"} => buf[u] \in Buf
      BY ServedOrNot, TableFacts DEF Served, SlotOf, UInv
    <3> QED BY <1>1, <1>10, <1>11, <1>13, <3>1, WrittenKept
  <2> QED BY <2>1, <2>2
<1>14. ASSUME NEW i \in Used
       PROVE  SlotOK(i)'
  <2>1. mem'[slots[i].buf] = mem[slots[i].buf]
    BY <1>10, TableFacts DEF UInv
  <2>2. ASSUME NEW c \in Ctx, op[c] = slots[i].tensor
        PROVE  Outstanding(c)' = Outstanding(c)
    <3>1. t \notin Threads(c)
      BY <1>0, <1>6, <2>2 DEF Threads, TensorOf
    <3> QED BY <1>11, <3>1 DEF Outstanding, Threads
  <2>3. \A u \in Thread : \A y : Fills(u, y) => pc'[u] \in {"pack", "packed"}
    BY <1>4, <1>11 DEF Fills
  <2> QED BY <1>1, <1>6, <2>1, <2>2, <2>3, SlotKept
<1>15. OneSerialPacker' /\ OpsOK'
  <2>1. \A u \in Thread : pc'[u] \in {"pack", "packed"} => pc[u] \in {"pack", "packed"}
    BY <1>11
  <2>2. \A u \in Thread : TensorOf(u)' = TensorOf(u)
    BY <1>1 DEF TensorOf
  <2> QED BY <1>1, <2>1, <2>2 DEF UInv, OneSerialPacker, OpsOK
<1> QED BY <1>3, <1>6, <1>12, <1>13, <1>14, <1>15 DEF UInv

LEMMA AdmitKeeps ==
  ASSUME UInv, Calm, IInv', NEW t \in Thread, Admit(t)
  PROVE  UInv'
<1> DEFINE gone == Retired(t)
           kept == Emptied(gone)
           tab  == Grown(kept)
           n    == NextSize(kept)
           left == TotalWithout(gone)
           free == {i \in 1 .. n : ~tab[i].used}
<1>0. PICK x, dst : x = TensorOf(t) /\ dst = First(free)
  OBVIOUS
<1>1. PICK b \in Buf \ (live \ BufsOf(gone)) :
      /\ slots' = [tab EXCEPT ![dst] = NewSlot(t, b)]
      /\ pc' = [pc EXCEPT ![t] = "pack"] /\ buf' = [buf EXCEPT ![t] = b]
      /\ ptr' = [ptr EXCEPT ![t] = 0]
  BY <1>0 DEF Admit, Return
<1>2. /\ Scanning(t) /\ Vacant(t) /\ left + Bytes[x] <= Cap
      /\ nslots' = n /\ total' = left + Bytes[x]
      /\ mem' = Scrubbed(gone) /\ lost' \in LostAfter(t, kept)
      /\ UNCHANGED <<content, op>>
  BY <1>0 DEF Admit
<1>3. /\ UsedIn(tab, n) = Used \ gone
      /\ \A i \in Used \ gone : tab[i] = slots[i] /\ slots[i].tensor # x
      /\ \A i \in gone : i \in Used /\ slots[i].tensor = x /\ slots[i].ready
      /\ gone = {} => Matches(x) = {} /\ left = total
      /\ gone # {} => left + Bytes[x] = total
      /\ n \in Nat /\ left \in Int
      /\ \E i \in 1 .. n : ~tab[i].used
  BY <1>0, <1>2, Admission
<1>4. lost' = {}
  BY <1>2, NobodyIsLost
<1>5. /\ pc[t] = "acquire" /\ x \in Tensor /\ x # NoTensor
      /\ FpOf(t) = Fp[content[x]] /\ Bytes[x] \in Nat \ {0} /\ Bytes[x] <= Cap
  BY <1>0, <1>2, ScanIsACall, KeysAssumption
<1>6. dst \in 1 .. n /\ ~tab[dst].used
  <2>1. free \in SUBSET Nat /\ free # {}
    BY <1>3
  <2> HIDE DEF free
  <2>2. First(free) \in free
    BY <2>1, FirstIsLeast
  <2> QED BY <1>0, <2>2 DEF free
<1>7. DOMAIN tab = 1 .. n
  BY DEF Grown
<1> HIDE DEF kept, tab, n, left, free
<1>8. /\ slots'[dst] = NewSlot(t, b) /\ dst \notin Used \ gone
      /\ \A i \in 1 .. n : i # dst => slots'[i] = tab[i]
  BY <1>1, <1>3, <1>6, <1>7 DEF UsedIn
<1>9. /\ slots'[dst].used /\ slots'[dst].tensor = x /\ slots'[dst].fp = Fp[content[x]]
      /\ slots'[dst].buf = b /\ slots'[dst].bytes = Bytes[x] /\ ~slots'[dst].ready
      /\ slots'[dst].pending = PendingAtFirst(t)
  BY <1>0, <1>5, <1>8 DEF NewSlot
<1>10. Used' = (Used \ gone) \cup {dst}
  BY <1>2, <1>3, <1>6, <1>8, <1>9 DEF Used, UsedIn
<1>11. \A i \in Used \ gone : slots'[i] = slots[i] /\ slots[i].tensor # x
  BY <1>3, <1>8 DEF UsedIn
<1>12. \A i \in Used \ gone : mem'[slots[i].buf] = mem[slots[i].buf]
  <2>1. \A i \in Used \ gone : slots[i].buf \in Buf /\ slots[i].buf \notin BufsOf(gone)
    BY <1>3, TableFacts DEF UInv, BufsOf
  <2> QED BY <1>2, <2>1 DEF Scrubbed
<1>13. /\ pc'[t] = "pack" /\ buf'[t] = b
       /\ \A u \in Thread \ {t} : pc'[u] = pc[u] /\ buf'[u] = buf[u] /\ ptr'[u] = ptr[u]
  BY <1>1 DEF UInv, IInv, TypeOK
<1>14. /\ \A i \in Used : ~Current(i, x)
       /\ \A u \in Thread : TensorOf(u) = x => ~Served(u)
  BY <1>0, <1>2, VacantMeansNobody
<1>15. \A u \in Thread : TensorOf(u)' = TensorOf(u)
  BY <1>2 DEF TensorOf
<1>16. total \in Nat /\ total <= Cap /\ Cap \in Nat /\ total <= total'
  <2>1. total \in Nat /\ total <= Cap /\ Cap \in Nat
    BY TableFacts DEF UInv
  <2>2. total <= total'
    BY <1>2, <1>3, <1>5, <2>1
  <2> QED BY <2>1, <2>2
<1>17. ASSUME NEW u \in Thread, pc[u] # "idle", NoRoom(TensorOf(u)), NEW y, y = TensorOf(u)
       PROVE  NoRoom(y)' /\ y # x
  <2>1. y \in Tensor /\ Bytes[y] \in Nat
    BY <1>17, KeysAssumption DEF UInv, IInv, PlacesInv
  <2>2. y # x
    <3>1. SUFFICES ASSUME y = x PROVE FALSE
      OBVIOUS
    <3>2. Matches(x) = {} /\ total + Bytes[x] > Cap
      BY <1>5, <1>16, <1>17, <3>1 DEF NoRoom
    <3>3. gone = {}
      BY <1>3, <3>2, MatchesAreUsed
    <3> QED BY <1>2, <1>3, <3>2, <3>3, <1>5, <1>16
  <2>3. CASE Bytes[y] > Cap
    BY <2>2, <2>3 DEF NoRoom
  <2>4. CASE Matches(y) = {} /\ total + Bytes[y] > Cap
    <3>1. total' + Bytes[y] > Cap
      <4>1. total' \in Int
        BY <1>2, <1>3, <1>5
      <4> QED BY <1>16, <2>1, <2>4, <4>1
    <3>2. \A i \in Used : slots[i].tensor # y
      BY <2>4, MatchesAreUsed
    <3>3. \A i \in Used' : slots'[i].tensor # y
      BY <1>9, <1>10, <1>11, <2>2, <3>2
    <3>4. Matches(y)' = {}
      BY <3>3 DEF Matches, Used
    <3> QED BY <2>2, <3>1, <3>4 DEF NoRoom
  <2> QED BY <1>17, <2>3, <2>4 DEF NoRoom
<1>18. ThreadOK(t)' /\ Written(t)'
  <2>1. TensorOf(t)' = x
    BY <1>0, <1>15
  <2>2. Current(dst, x)'
    BY <1>2, <1>9, <1>10 DEF Current
  <2>3. SlotOf(t, dst)'
    BY <1>9, <1>13, <2>1, <2>2 DEF SlotOf
  <2>4. Served(t)'
    BY <1>10, <1>13, <2>3 DEF Served
  <2> QED BY <1>5, <1>13, <2>1, <2>4 DEF ThreadOK, Written
<1>19. ASSUME NEW u \in Thread, u # t
       PROVE  ThreadOK(u)' /\ Written(u)'
  <2>1. PICK y : y = TensorOf(u)
    OBVIOUS
  <2>2. \A i \in Used : Current(i, y) => i \in Used \ gone
    BY <1>3, <1>14 DEF Current
  <2>3. ThreadOK(u)'
    <3>1. pc[u] # "idle" /\ NoRoom(y) => NoRoom(y)'
      BY <1>17, <2>1
    <3>2. \A i \in Used : Current(i, y) => i \in Used' /\ slots'[i] = slots[i]
      BY <1>10, <1>11, <2>2
    <3> QED BY <1>2, <1>13, <1>19, <2>1, <3>1, <3>2, OtherKept
  <2>4. Written(u)'
    <3>1. ASSUME pc[u] \in {"packed", "slice_wait"} PROVE mem'[buf[u]] = mem[buf[u]]
      <4>1. PICK i \in Used : SlotOf(u, i)
        BY <3>1, ServedOrNot DEF Served
      <4>2. Current(i, y) /\ buf[u] = slots[i].buf
        BY <2>1, <3>1, <4>1 DEF SlotOf
      <4> QED BY <1>12, <2>2, <4>2
    <3> QED BY <1>2, <1>13, <1>19, <3>1, WrittenKept
  <2> QED BY <2>3, <2>4
<1>20. ASSUME NEW i \in Used \ gone
       PROVE  SlotOK(i)'
  <2>1. ASSUME NEW c \in Ctx, op[c] = slots[i].tensor
        PROVE  Outstanding(c)' = Outstanding(c)
    <3>1. t \notin Threads(c)
      BY <1>0, <1>11, <2>1 DEF Threads, TensorOf
    <3> QED BY <1>13, <3>1 DEF Outstanding, Threads
  <2>2. \A u \in Thread : \A y : Fills(u, y) => pc'[u] \in {"pack", "packed"}
    BY <1>5, <1>13 DEF Fills
  <2> QED BY <1>2, <1>11, <1>12, <2>1, <2>2, SlotKept
<1>21. SlotOK(dst)'
  <2>1. Fills(t, x)'
    BY <1>0, <1>13, <1>15 DEF Fills
  <2>2. ASSUME x \in Par
        PROVE  \E c \in Ctx : /\ op'[c] = x
                              /\ slots'[dst].pending = Cardinality(Outstanding(c)')
                              /\ slots'[dst].pending > 0
    <3> DEFINE c == CtxOf[t]
    <3>1. c \in Ctx /\ op[c] = x /\ op'[c] = x /\ t \in Threads(c)
      BY <1>0, <1>2, ThreadsAssumption DEF TensorOf, Threads
    <3> HIDE DEF c
    <3>2. ASSUME NEW u \in Threads(c), u # t PROVE pc[u] = "acquire"
      <4>1. u \in Thread /\ TensorOf(u) = x
        BY <3>1 DEF Threads, TensorOf
      <4>2. pc[u] # "idle"
        BY <1>5, <4>1 DEF UInv, ThreadOK
      <4>3. ~Served(u)
        BY <1>14, <4>1
      <4>4. ~TurnedAway(u)
        BY <1>17, <4>1, <4>2 DEF TurnedAway
      <4> QED BY <4>1, <4>2, <4>3, <4>4 DEF UInv, ThreadOK
    <3>3. Outstanding(c)' = Threads(c)
      BY <1>13, <3>1, <3>2 DEF Outstanding, Threads
    <3>4. slots'[dst].pending = Cardinality(Threads(c))
      BY <1>0, <1>9, <2>2 DEF PendingAtFirst, Nth, c
    <3>5. IsFiniteSet(Threads(c))
      BY ThreadsAssumption, FS_Subset DEF Threads
    <3>6. Cardinality(Threads(c)) \in Nat /\ Cardinality(Threads(c)) # 0
      BY <3>1, <3>5, FS_CardinalityType, FS_EmptySet
    <3> QED BY <3>1, <3>3, <3>4, <3>6
  <2> QED BY <1>2, <1>9, <2>1, <2>2 DEF SlotOK
<1>22. OneSerialPacker'
  <2>1. \A u \in Thread : pc[u] \in {"pack", "packed"} => TensorOf(u) # x
    BY <1>14, ServedOrNot
  <2> QED BY <1>0, <1>13, <1>15, <2>1 DEF UInv, OneSerialPacker
<1>23. OpsOK'
  BY <1>2 DEF UInv, OpsOK
<1> QED BY <1>4, <1>10, <1>18, <1>19, <1>20, <1>21, <1>22, <1>23 DEF UInv

-----------------------------------------------------------------------------
(* Publication.                                                             *)

\* Thread t has packed, and d is its slot: nobody else is affected.
LEMMA Settles ==
  ASSUME UInv, IInv', NEW t \in Thread, pc[t] = "packed",
         NEW x, x = TensorOf(t), NEW d \in Used, slots[d].tensor = x,
         UNCHANGED <<nslots, total, mem, content, op, buf>>, lost' = {},
         NEW p \in {"use", "slice_wait"}, pc' = [pc EXCEPT ![t] = p],
         \A u \in Thread \ {t} : ptr'[u] = ptr[u],
         Used' = Used, \A i \in Used \ {d} : slots'[i] = slots[i],
         slots'[d].tensor = x, slots'[d].fp = slots[d].fp, slots'[d].buf = slots[d].buf,
         \/ slots'[d].ready = slots[d].ready
         \/ /\ slots'[d].ready
            /\ \A u \in Thread \ {t} : TensorOf(u) = x => pc[u] \notin {"pack", "packed"},
         ThreadOK(t)', Written(t)', SlotOK(d)'
  PROVE  UInv'
<1>1. pc'[t] = p /\ \A u \in Thread \ {t} : pc'[u] = pc[u]
  BY DEF UInv, IInv, TypeOK
<1>2. \A i \in Used : slots'[i].tensor = slots[i].tensor
  OBVIOUS
<1>3. \A y : Matches(y)' = Matches(y)
  BY <1>2 DEF Matches, Used
<1>4. \A y : NoRoom(y)' <=> NoRoom(y)
  BY <1>3 DEF NoRoom
<1>5. ASSUME NEW u \in Thread, u # t
      PROVE  ThreadOK(u)' /\ Written(u)'
  <2>1. ASSUME NEW i \in Used, Current(i, TensorOf(u))
        PROVE  /\ slots'[i].fp = slots[i].fp /\ slots'[i].buf = slots[i].buf
               /\ \/ slots'[i].ready = slots[i].ready
                  \/ slots'[i].ready /\ pc[u] \notin {"pack", "packed"}
    BY <1>5, <2>1 DEF Current
  <2>2. ThreadOK(u)'
    BY <1>1, <1>2, <1>4, <1>5, <2>1, OtherKept
  <2>3. Written(u)'
    BY <1>1, <1>5, WrittenKept
  <2> QED BY <2>2, <2>3
<1>6. ASSUME NEW i \in Used, i # d
      PROVE  SlotOK(i)'
  <2>1. slots[i].tensor # x
    BY <1>6, TableFacts DEF UInv
  <2>2. ASSUME NEW c \in Ctx, op[c] = slots[i].tensor
        PROVE  Outstanding(c)' = Outstanding(c)
    <3>1. t \notin Threads(c)
      BY <2>1, <2>2 DEF Threads, TensorOf
    <3> QED BY <1>1, <3>1 DEF Outstanding, Threads
  <2>3. \A u \in Thread : Fills(u, slots[i].tensor) => pc'[u] \in {"pack", "packed"}
    BY <1>1, <2>1 DEF Fills
  <2> QED BY <1>6, <2>2, <2>3, SlotKept
<1>7. OneSerialPacker' /\ OpsOK'
  <2>1. \A u \in Thread : pc'[u] \in {"pack", "packed"} => pc[u] \in {"pack", "packed"}
    BY <1>1
  <2>2. \A u \in Thread : TensorOf(u)' = TensorOf(u)
    BY DEF TensorOf
  <2> QED BY <2>1, <2>2 DEF UInv, OneSerialPacker, OpsOK
<1> QED BY <1>5, <1>6, <1>7 DEF UInv

\* The slot of a thread that has packed.
LEMMA PackedSlot ==
  ASSUME UInv, NEW t \in Thread, pc[t] = "packed"
  PROVE  /\ Matches(TensorOf(t)) # {} /\ TensorOf(t) \in Tensor
         /\ MatchOf(t) \in Used /\ SlotOf(t, MatchOf(t))
<1>1. PICK i \in Used : SlotOf(t, i)
  BY ServedOrNot DEF Served
<1>2. Matches(TensorOf(t)) # {}
  BY <1>1, MatchesAreUsed DEF SlotOf, Current
<1>3. i = MatchOf(t)
  BY <1>1, <1>2, TheSlot DEF SlotOf, Current
<1> QED BY <1>1, <1>2, <1>3 DEF UInv, IInv, PlacesInv

LEMMA WholeWhenWritten ==
  ASSUME UInv, NEW b \in Buf, NEW d \in Content, \A k \in 0 .. Tiles - 1 : mem[b][k] = d
  PROVE  mem[b] = Whole(d)
<1>1. mem[b] \in [0 .. Tiles - 1 -> Content \cup {Junk}]
  BY DEF UInv, IInv, TypeOK
<1> QED BY <1>1 DEF Whole

LEMMA PublishKeeps ==
  ASSUME UInv, IInv', NEW t \in Thread, Publish(t)
  PROVE  UInv'
<1>0. PICK x, d, b, w : x = TensorOf(t) /\ d = MatchOf(t) /\ b = buf[t] /\ w = content[x]
  OBVIOUS
<1>1. /\ pc[t] = "packed" /\ x \in Serial
      /\ Matches(TensorOf(t)) # {} /\ x \in Tensor /\ x # NoTensor /\ w \in Content
      /\ d \in Used /\ SlotOf(t, d)
  BY <1>0, PackedSlot, KeysAssumption DEF Publish, UInv, IInv, TypeOK
<1>2. Current(d, x) /\ ~slots[d].ready /\ b = slots[d].buf /\ b \in Buf
  BY <1>0, <1>1, TableFacts DEF SlotOf, UInv
<1>3. /\ slots' = [slots EXCEPT ![d].ready = TRUE]
      /\ pc' = [pc EXCEPT ![t] = "use"] /\ lost' = {}
      /\ UNCHANGED <<nslots, total, mem, content, op, buf, ptr>>
  BY <1>0, <1>1 DEF Publish, UInv
<1>4. slots \in [1 .. nslots -> Slot] /\ d \in 1 .. nslots
  BY <1>1, TableFacts DEF UInv
<1>5. /\ slots'[d].used = slots[d].used /\ slots'[d].tensor = slots[d].tensor
      /\ slots'[d].fp = slots[d].fp /\ slots'[d].buf = slots[d].buf
      /\ slots'[d].bytes = slots[d].bytes /\ slots'[d].ready
      /\ \A i \in 1 .. nslots : i # d => slots'[i] = slots[i]
  BY <1>3, <1>4 DEF Slot
<1>6. Used' = Used
  BY <1>3, <1>5 DEF Used
<1>7. pc'[t] = "use" /\ buf'[t] = b /\ TensorOf(t)' = x /\ content'[x] = w
  BY <1>0, <1>3 DEF UInv, IInv, TypeOK, TensorOf
<1>8. mem[b] = Whole(w)
  <2>1. Mine(t) = 0 .. Tiles - 1
    BY <1>0, <1>1 DEF Mine
  <2>2. \A k \in 0 .. Tiles - 1 : mem[b][k] = w
    BY <1>0, <1>1, <2>1 DEF UInv, Written
  <2> QED BY <1>1, <1>2, <2>2, WholeWhenWritten
<1>9. SlotOK(d)'
  <2>1. slots'[d].fp = Fp[w] /\ mem'[slots'[d].buf] = Whole(w)
    BY <1>0, <1>2, <1>3, <1>5, <1>8 DEF Current
  <2>2. slots'[d].bytes = Bytes[slots'[d].tensor]
    BY <1>1, <1>5 DEF UInv, SlotOK
  <2> QED BY <1>1, <1>5, <2>1, <2>2 DEF SlotOK
<1>10. ThreadOK(t)' /\ Written(t)'
  <2>1. Current(d, x)'
    BY <1>2, <1>3, <1>5, <1>6 DEF Current
  <2>2. SlotOf(t, d)'
    BY <1>2, <1>5, <1>7, <2>1 DEF SlotOf
  <2>3. Served(t)'
    BY <1>1, <1>6, <1>7, <2>2 DEF Served
  <2> QED BY <1>1, <1>7, <2>3 DEF ThreadOK, Written
<1>11. \A u \in Thread \ {t} : TensorOf(u) = x => pc[u] \notin {"pack", "packed"}
  BY <1>0, <1>1 DEF UInv, OneSerialPacker
<1>12. slots[d].tensor = x
  BY <1>2 DEF Current
<1>13. \A i \in Used \ {d} : slots'[i] = slots[i]
  BY <1>5 DEF Used
<1>14. \A u \in Thread \ {t} : ptr'[u] = ptr[u]
  BY <1>3
<1>15. PICK p \in {"use", "slice_wait"} : pc' = [pc EXCEPT ![t] = p]
  BY <1>3
<1>16. slots'[d].tensor = x /\ slots'[d].fp = slots[d].fp /\ slots'[d].buf = slots[d].buf
  BY <1>5, <1>12
<1>17. pc[t] = "packed" /\ x = TensorOf(t) /\ d \in Used /\ slots'[d].ready
  BY <1>0, <1>1, <1>5
<1> QED BY <1>3, <1>6, <1>9, <1>10, <1>11, <1>12, <1>13, <1>14, <1>15, <1>16, <1>17, Settles

\* The context that fills slot d in parallel is that of its threads.
LEMMA TheFiller ==
  ASSUME UInv, Calm, NEW t \in Thread, TensorOf(t) \in Par, NEW d \in Used,
         slots[d].tensor = TensorOf(t), ~slots[d].ready
  PROVE  /\ slots[d].pending = Cardinality(Outstanding(CtxOf[t])) /\ slots[d].pending > 0
         /\ \A u \in Thread : TensorOf(u) = TensorOf(t) => CtxOf[u] = CtxOf[t]
<1> DEFINE x == TensorOf(t)
<1>1. x # NoTensor
  BY KeysAssumption DEF Par
<1>2. \A c \in Ctx : op[c] = x => c = CtxOf[t]
  BY <1>1, ThreadsAssumption DEF UInv, OpsOK, Calm, TensorOf
<1>3. PICK c \in Ctx : /\ op[c] = x /\ slots[d].pending = Cardinality(Outstanding(c))
                       /\ slots[d].pending > 0
  BY DEF UInv, SlotOK
<1>4. \A u \in Thread : TensorOf(u) = x => CtxOf[u] = CtxOf[t]
  BY <1>2, ThreadsAssumption DEF TensorOf
<1> QED BY <1>2, <1>3, <1>4

\* When only thread t has its slice to come, every other tile is there.
LEMMA LastOne ==
  ASSUME UInv, Calm, NEW t \in Thread, pc[t] = "packed", TensorOf(t) \in Par,
         NEW d \in Used, SlotOf(t, d), slots[d].pending = 1
  PROVE  /\ mem[buf[t]] = Whole(content[TensorOf(t)])
         /\ \A u \in Thread \ {t} : TensorOf(u) = TensorOf(t) => pc[u] \notin {"pack", "packed"}
<1> DEFINE c == CtxOf[t]
           x == TensorOf(t)
<1>1. Current(d, x) /\ ~slots[d].ready /\ buf[t] = slots[d].buf /\ buf[t] \in Buf /\ x # NoTensor
  BY TableFacts, KeysAssumption DEF SlotOf, UInv, Par
<1>2. /\ Cardinality(Outstanding(c)) = 1
      /\ \A u \in Thread : TensorOf(u) = x => CtxOf[u] = c
  BY <1>1, TheFiller DEF Current
<1>3. IsFiniteSet(Outstanding(c)) /\ t \in Outstanding(c)
  BY ThreadsAssumption, FS_Subset DEF Outstanding, Threads
<1>4. Outstanding(c) = {t}
  <2>1. Cardinality(Outstanding(c) \ {t}) = 0 /\ IsFiniteSet(Outstanding(c) \ {t})
    BY <1>2, <1>3, FS_RemoveElement
  <2>2. Outstanding(c) \ {t} = {}
    BY <2>1, FS_EmptySet
  <2> QED BY <1>3, <2>2
<1>5. ASSUME NEW u \in Threads(c), u # t
      PROVE  /\ pc[u] = "slice_wait" /\ buf[u] = buf[t] /\ TensorOf(u) = x
  <2>1. u \in Thread /\ TensorOf(u) = x
    BY DEF Threads, TensorOf
  <2>2. pc[u] \notin {"acquire", "pack", "packed"}
    BY <1>4, <1>5 DEF Outstanding
  <2>3. pc[u] # "idle"
    BY <1>1, <2>1 DEF UInv, ThreadOK
  <2>4. ~TurnedAway(u)
    BY <1>1, <2>1, ServedOrNot DEF Current
  <2>5. Served(u)
    BY <2>1, <2>2, <2>3, <2>4 DEF UInv, ThreadOK
  <2>6. PICK i \in Used : SlotOf(u, i)
    BY <2>5 DEF Served
  <2>7. i = d
    BY <1>1, <2>1, <2>6, OneSlotOf DEF Current
  <2>8. pc[u] \notin {"use", "done", "hit_wait"}
    BY <1>1, <2>1, <2>5, <2>6, <2>7 DEF SlotOf, Served, Par
  <2>9. pc[u] = "slice_wait"
    BY <2>2, <2>5, <2>8 DEF Served
  <2> QED BY <1>1, <2>1, <2>6, <2>7, <2>9 DEF SlotOf
<1>6. ASSUME NEW k \in 0 .. Tiles - 1
      PROVE  mem[buf[t]][k] = content[x]
  <2>1. c \in Ctx /\ t \in Threads(c)
    BY ThreadsAssumption DEF Threads
  <2>2. Nth(c) \in Nat \ {0} /\ Tiles \in Nat
    <3>1. IsFiniteSet(Threads(c))
      BY ThreadsAssumption, FS_Subset DEF Threads
    <3>2. Nth(c) \in Nat /\ Nth(c) # 0
      BY <2>1, <3>1, FS_CardinalityType, FS_EmptySet DEF Nth
    <3> QED BY <3>2, KeysAssumption
  <2>3. PICK ith \in 0 .. Nth(c) - 1 : k \in ThreadTiles(Tiles, ith, Nth(c))
    BY <2>2, EveryTileOnce
  <2>4. PICK u \in Threads(c) : Ith[u] = ith
    BY <2>1, ThreadsAssumption
  <2>5. u \in Thread /\ CtxOf[u] = c /\ TensorOf(u) = x /\ buf[u] = buf[t]
        /\ pc[u] \in {"packed", "slice_wait"}
    BY <1>5, <2>4 DEF Threads, TensorOf
  <2>6. k \in Mine(u)
    BY <2>3, <2>4, <2>5 DEF Mine, Par
  <2> QED BY <2>5, <2>6 DEF UInv, Written
<1>7. content[x] \in Content
  BY DEF UInv, IInv, TypeOK, Par
<1>8. mem[buf[t]] = Whole(content[x])
  BY <1>1, <1>6, <1>7, WholeWhenWritten
<1>9. ASSUME NEW u \in Thread, u # t, TensorOf(u) = x
      PROVE  pc[u] \notin {"pack", "packed"}
  BY <1>2, <1>5, <1>9 DEF Threads
<1> QED BY <1>8, <1>9

LEMMA SliceDoneKeeps ==
  ASSUME UInv, Calm, IInv', NEW t \in Thread, SliceDone(t)
  PROVE  UInv'
<1>0. PICK x, d, b, w, n : /\ x = TensorOf(t) /\ d = MatchOf(t) /\ b = buf[t] /\ w = content[x]
                           /\ n = slots[d].pending
  OBVIOUS
<1>1. /\ pc[t] = "packed" /\ x \in Par
      /\ Matches(TensorOf(t)) # {} /\ x \in Tensor /\ x # NoTensor /\ w \in Content
      /\ d \in Used /\ SlotOf(t, d)
  BY <1>0, PackedSlot, KeysAssumption DEF SliceDone, UInv, IInv, TypeOK
<1>2. /\ Current(d, x) /\ ~slots[d].ready /\ b = slots[d].buf /\ b \in Buf
      /\ slots[d].tensor = x
  BY <1>0, <1>1, TableFacts DEF SlotOf, UInv, Current
<1>3. n = Cardinality(Outstanding(CtxOf[t])) /\ n > 0 /\ n \in Nat
  BY <1>0, <1>1, <1>2, TheFiller, TableFacts DEF UInv
<1>4. PICK last \in BOOLEAN : last <=> n = 1
  OBVIOUS
<1>5. PICK p \in {"use", "slice_wait"} : p = IF last THEN "use" ELSE "slice_wait"
  OBVIOUS
<1>6. /\ slots' = [slots EXCEPT ![d].pending = n - 1, ![d].ready = last]
      /\ pc' = [pc EXCEPT ![t] = p]
      /\ ptr' = [ptr EXCEPT ![t] = IF last THEN 0 ELSE d] /\ lost' = {}
      /\ UNCHANGED <<nslots, total, mem, content, op, buf>>
  <2>1. LastSlice(n) = last /\ CountDown(n) = n - 1 /\ slots[d].ready = FALSE
    <3>1. slots[d].ready \in BOOLEAN
      BY <1>1, TableFacts DEF UInv
    <3> QED BY <1>2, <1>3, <1>4, <3>1 DEF LastSlice, CountDown
  <2>2. /\ slots' = [slots EXCEPT ![d].pending = CountDown(@), ![d].ready = slots[d].ready \/ LastSlice(n)]
        /\ pc' = [pc EXCEPT ![t] = IF slots[d].ready \/ LastSlice(n) THEN "use" ELSE "slice_wait"]
        /\ ptr' = [ptr EXCEPT ![t] = IF slots[d].ready \/ LastSlice(n) THEN 0 ELSE d]
        /\ UNCHANGED <<nslots, total, mem, content, op, buf, lost>>
    BY <1>0, <1>1 DEF SliceDone
  <2>3. (slots[d].ready \/ LastSlice(n)) = last
    BY <2>1
  <2>4. slots' = [slots EXCEPT ![d].pending = n - 1, ![d].ready = last]
    <3>1. slots \in [1 .. nslots -> Slot] /\ d \in 1 .. nslots
      BY <1>1, TableFacts DEF UInv
    <3> QED BY <1>0, <2>1, <2>2, <2>3, <3>1 DEF Slot
  <2> QED BY <1>5, <2>2, <2>3, <2>4 DEF UInv
<1>7. slots \in [1 .. nslots -> Slot] /\ d \in 1 .. nslots
  BY <1>1, TableFacts DEF UInv
<1>8. /\ slots'[d].used = slots[d].used /\ slots'[d].tensor = slots[d].tensor
      /\ slots'[d].fp = slots[d].fp /\ slots'[d].buf = slots[d].buf
      /\ slots'[d].bytes = slots[d].bytes /\ slots'[d].ready = last
      /\ slots'[d].pending = n - 1
      /\ \A i \in 1 .. nslots : i # d => slots'[i] = slots[i]
  BY <1>6, <1>7 DEF Slot
<1>9. Used' = Used
  BY <1>6, <1>8 DEF Used
<1>10. pc'[t] = p /\ buf'[t] = b /\ TensorOf(t)' = x /\ content'[x] = w
       /\ ptr'[t] = (IF last THEN 0 ELSE d)
       /\ \A u \in Thread \ {t} : ptr'[u] = ptr[u] /\ pc'[u] = pc[u]
  BY <1>0, <1>6 DEF UInv, IInv, TypeOK, TensorOf
<1>11. last => /\ mem[b] = Whole(w)
               /\ \A u \in Thread \ {t} : TensorOf(u) = x => pc[u] \notin {"pack", "packed"}
  BY <1>0, <1>1, <1>4, LastOne
<1>12. SlotOK(d)'
  <2>1. slots'[d].fp = Fp[w] /\ mem'[slots'[d].buf] = mem[b]
    BY <1>0, <1>2, <1>6, <1>8 DEF Current
  <2>2. slots'[d].bytes = Bytes[slots'[d].tensor] /\ slots'[d].tensor = x
    BY <1>1, <1>2, <1>8 DEF UInv, SlotOK
  <2>3. CASE last
    BY <1>1, <1>8, <1>11, <2>1, <2>2, <2>3 DEF SlotOK
  <2>4. CASE ~last
    <3> DEFINE c == CtxOf[t]
    <3>1. c \in Ctx /\ op'[c] = x
      BY <1>0, <1>6, ThreadsAssumption DEF TensorOf
    <3>2. IsFiniteSet(Outstanding(c)) /\ t \in Outstanding(c)
      BY <1>1, ThreadsAssumption, FS_Subset DEF Outstanding, Threads
    <3>3. Outstanding(c)' = Outstanding(c) \ {t}
      BY <1>5, <1>10, <2>4 DEF Outstanding, Threads
    <3>4. Cardinality(Outstanding(c)') = n - 1
      BY <1>3, <3>2, <3>3, FS_RemoveElement
    <3>5. n - 1 > 0
      BY <1>3, <1>4, <2>4
    <3> HIDE DEF c
    <3>6. x \notin Serial
      BY <1>1 DEF Par
    <3>7. slots'[d].fp = Fp[content'[x]]
      BY <1>10, <2>1
    <3> QED BY <1>8, <2>2, <2>4, <3>1, <3>4, <3>5, <3>6, <3>7 DEF SlotOK
  <2> QED BY <2>3, <2>4
<1>13. ThreadOK(t)'
  <2>1. Current(d, x)'
    BY <1>1, <1>2, <1>6, <1>8, <1>9 DEF Current
  <2>2. SlotOf(t, d)'
    BY <1>2, <1>5, <1>8, <1>10, <2>1 DEF SlotOf
  <2>3. Served(t)'
    BY <1>1, <1>5, <1>9, <1>10, <2>2 DEF Served
  <2> QED BY <1>1, <1>5, <1>10, <2>3 DEF ThreadOK
<1>14. Written(t)'
  <2>1. Mine(t)' = Mine(t)
    BY <1>6 DEF Mine, TensorOf
  <2>2. \A k \in Mine(t) : mem[b][k] = w
    BY <1>0, <1>1 DEF UInv, Written
  <2> QED BY <1>6, <1>10, <2>1, <2>2 DEF Written
<1>15. \A i \in Used \ {d} : slots'[i] = slots[i]
  BY <1>8 DEF Used
<1>16. slots'[d].tensor = x /\ slots'[d].fp = slots[d].fp /\ slots'[d].buf = slots[d].buf
  BY <1>2, <1>8
<1>17. \/ slots'[d].ready = slots[d].ready
       \/ /\ slots'[d].ready
          /\ \A u \in Thread \ {t} : TensorOf(u) = x => pc[u] \notin {"pack", "packed"}
  <2>1. slots[d].ready = FALSE
    BY <1>1, <1>2, TableFacts DEF UInv
  <2> QED BY <1>8, <1>11, <2>1
<1>18. \A u \in Thread \ {t} : ptr'[u] = ptr[u]
  BY <1>10
<1>19. pc[t] = "packed" /\ x = TensorOf(t) /\ d \in Used /\ slots[d].tensor = x
  BY <1>0, <1>1, <1>2
<1> QED BY <1>6, <1>9, <1>12, <1>13, <1>14, <1>15, <1>16, <1>17, <1>18, <1>19, Settles

-----------------------------------------------------------------------------
(* The callers.                                                             *)

LEMMA StartOpKeeps ==
  ASSUME UInv, IInv', NEW c \in Ctx, NEW x \in Tensor, StartOp(c, x)
  PROVE  UInv'
<1>1. /\ op[c] = NoTensor /\ x \in Uses[c] /\ op' = [op EXCEPT ![c] = x]
      /\ pc' = [t \in Thread |-> IF CtxOf[t] = c THEN "acquire" ELSE pc[t]] /\ lost' = {}
      /\ UNCHANGED <<slots, nslots, total, mem, content, buf, ptr>>
  BY DEF StartOp, cacheVars, UInv
<1>2. /\ x # NoTensor /\ op'[c] = x /\ \A e \in Ctx \ {c} : op'[e] = op[e]
      /\ \A t \in Thread : CtxOf[t] \in Ctx
  BY <1>1, KeysAssumption, ThreadsAssumption DEF UInv, IInv, TypeOK
<1>3. /\ \A t \in Threads(c) : pc[t] = "idle" /\ pc'[t] = "acquire" /\ TensorOf(t)' = x
      /\ \A t \in Thread \ Threads(c) : pc'[t] = pc[t] /\ TensorOf(t)' = TensorOf(t)
                                        /\ op'[CtxOf[t]] = op[CtxOf[t]]
  BY <1>1, <1>2 DEF Threads, UInv, ThreadOK, TensorOf
<1>4. Used' = Used /\ \A y : NoRoom(y)' <=> NoRoom(y)
  BY <1>1 DEF Used, NoRoom, Matches
<1>5. ASSUME NEW t \in Thread
      PROVE  ThreadOK(t)' /\ Written(t)'
  <2>1. CASE t \in Threads(c)
    BY <1>2, <1>3, <2>1 DEF ThreadOK, Written
  <2>2. CASE t \notin Threads(c)
    BY <1>1, <1>3, <1>4, <2>2, OtherKept, WrittenKept
  <2> QED BY <2>1, <2>2
<1>6. ASSUME NEW i \in Used
      PROVE  SlotOK(i)'
  <2>1. slots[i].tensor # NoTensor
    BY TableFacts, KeysAssumption DEF UInv
  <2>2. ASSUME NEW e \in Ctx, op[e] = slots[i].tensor
        PROVE  op'[e] = op[e] /\ Outstanding(e)' = Outstanding(e)
    <3>1. e # c
      BY <1>1, <2>1, <2>2
    <3>2. \A t \in Threads(e) : t \in Thread \ Threads(c)
      BY <3>1 DEF Threads
    <3> QED BY <1>2, <1>3, <3>1, <3>2 DEF Outstanding
  <2>3. \A t \in Thread : Fills(t, slots[i].tensor) =>
           pc'[t] \in {"pack", "packed"} /\ op'[CtxOf[t]] = op[CtxOf[t]]
    BY <1>3 DEF Fills
  <2> QED BY <1>1, <2>2, <2>3, SlotKept
<1>7. OneSerialPacker' /\ OpsOK'
  <2>1. OpsOK'
    BY <1>1, <1>2 DEF UInv, OpsOK
  <2>2. \A t \in Thread : pc'[t] \in {"pack", "packed"} =>
           pc[t] \in {"pack", "packed"} /\ TensorOf(t)' = TensorOf(t)
    BY <1>3
  <2> QED BY <2>1, <2>2 DEF UInv, OneSerialPacker
<1> QED BY <1>1, <1>4, <1>5, <1>6, <1>7 DEF UInv

LEMMA EndOpKeeps ==
  ASSUME UInv, Calm, IInv', NEW c \in Ctx, EndOp(c)
  PROVE  UInv'
<1>1. /\ op[c] # NoTensor /\ op' = [op EXCEPT ![c] = NoTensor] /\ lost' = {}
      /\ \A t \in Threads(c) : pc[t] = "done"
      /\ pc' = [t \in Thread |-> IF CtxOf[t] = c THEN "idle" ELSE pc[t]]
      /\ buf' = [t \in Thread |-> IF CtxOf[t] = c THEN NoBuf ELSE buf[t]]
      /\ UNCHANGED <<slots, nslots, total, mem, content, ptr>>
  BY DEF EndOp, cacheVars, UInv
<1>2. /\ op'[c] = NoTensor /\ \A e \in Ctx \ {c} : op'[e] = op[e]
      /\ \A t \in Thread : CtxOf[t] \in Ctx
  BY <1>1, ThreadsAssumption DEF UInv, IInv, TypeOK
<1>3. /\ \A t \in Threads(c) : pc'[t] = "idle" /\ TensorOf(t)' = NoTensor
      /\ \A t \in Thread \ Threads(c) : pc'[t] = pc[t] /\ TensorOf(t)' = TensorOf(t)
                                        /\ buf'[t] = buf[t] /\ op'[CtxOf[t]] = op[CtxOf[t]]
  BY <1>1, <1>2 DEF Threads, TensorOf
<1>4. Used' = Used /\ \A y : NoRoom(y)' <=> NoRoom(y)
  BY <1>1 DEF Used, NoRoom, Matches
<1>5. ASSUME NEW t \in Thread
      PROVE  ThreadOK(t)' /\ Written(t)'
  <2>1. CASE t \in Threads(c)
    BY <1>3, <2>1 DEF ThreadOK, Written
  <2>2. CASE t \notin Threads(c)
    BY <1>1, <1>3, <1>4, <2>2, OtherKept, WrittenKept
  <2> QED BY <2>1, <2>2
<1>6. ASSUME NEW i \in Used
      PROVE  SlotOK(i)'
  <2>1. ASSUME NEW e \in Ctx, op[e] = slots[i].tensor, ~slots[i].ready, slots[i].tensor \in Par
        PROVE  op'[e] = op[e] /\ Outstanding(e)' = Outstanding(e)
    <3>1. e # c
      <4>1. SUFFICES ASSUME e = c PROVE FALSE
        OBVIOUS
      <4>2. PICK f \in Ctx : /\ op[f] = slots[i].tensor
                             /\ slots[i].pending = Cardinality(Outstanding(f))
                             /\ slots[i].pending > 0
        BY <2>1 DEF UInv, SlotOK
      <4>3. f = c
        BY <1>1, <2>1, <4>1, <4>2 DEF UInv, OpsOK, Calm
      <4>4. Outstanding(c) = {}
        BY <1>1 DEF Outstanding
      <4> QED BY <4>2, <4>3, <4>4, FS_EmptySet
    <3>2. \A t \in Threads(e) : t \in Thread \ Threads(c)
      BY <3>1 DEF Threads
    <3> QED BY <1>2, <1>3, <3>1, <3>2 DEF Outstanding
  <2>2. \A t \in Thread : Fills(t, slots[i].tensor) =>
           pc'[t] \in {"pack", "packed"} /\ op'[CtxOf[t]] = op[CtxOf[t]]
    BY <1>1, <1>3 DEF Fills
  <2> QED BY <1>1, <2>1, <2>2, SlotKept
<1>7. OneSerialPacker' /\ OpsOK'
  <2>1. OpsOK'
    BY <1>2 DEF UInv, OpsOK
  <2>2. \A t \in Thread : pc'[t] \in {"pack", "packed"} =>
           pc[t] \in {"pack", "packed"} /\ TensorOf(t)' = TensorOf(t)
    BY <1>3
  <2> QED BY <2>1, <2>2 DEF UInv, OneSerialPacker
<1> QED BY <1>1, <1>4, <1>5, <1>6, <1>7 DEF UInv

\* A slot that is being filled belongs to a running operation.
LEMMA FilledForAnOp ==
  ASSUME UInv, NEW i \in Used, ~slots[i].ready
  PROVE  \E c \in Ctx : op[c] = slots[i].tensor
<1>1. slots[i].tensor \in Tensor
  BY TableFacts DEF UInv
<1>2. CASE slots[i].tensor \in Serial
  <2>1. PICK t \in Thread : Fills(t, slots[i].tensor)
    BY <1>2 DEF UInv, SlotOK
  <2> QED BY <2>1, ThreadsAssumption DEF Fills, TensorOf
<1>3. CASE slots[i].tensor \in Par
  BY <1>3 DEF UInv, SlotOK
<1> QED BY <1>1, <1>2, <1>3 DEF Par

LEMMA ReloadKeeps ==
  ASSUME UInv, Calm, IInv', NEW x \in Tensor, Reload(x)
  PROVE  UInv'
<1>1. PICK d \in Content : content' = [content EXCEPT ![x] = d]
  BY DEF Reload
<1>2. /\ \A c \in Ctx : op[c] # x
      /\ UNCHANGED <<slots, nslots, total, mem, op, pc, buf, ptr>> /\ lost' = {}
  BY DEF Reload, Calm, cacheVars, threadVars, UInv
<1>3. \A y \in Tensor \ {x} : content'[y] = content[y]
  BY <1>1 DEF UInv, IInv, TypeOK
<1>4. Used' = Used /\ \A y : NoRoom(y)' <=> NoRoom(y)
  BY <1>2 DEF Used, NoRoom, Matches
<1>5. ASSUME NEW t \in Thread
      PROVE  ThreadOK(t)' /\ Written(t)'
  <2>1. pc[t] # "idle" => TensorOf(t) \in Tensor \ {x}
    BY <1>2, ThreadsAssumption DEF UInv, IInv, PlacesInv, TensorOf
  <2>2. pc[t] # "idle" => content'[TensorOf(t)] = content[TensorOf(t)]
    BY <1>3, <2>1
  <2> QED BY <1>2, <1>4, <2>2, OtherKept, WrittenKept
<1>6. ASSUME NEW i \in Used
      PROVE  SlotOK(i)'
  <2>1. ~slots[i].ready => slots[i].tensor # x
    BY <1>2, FilledForAnOp
  <2>2. ~slots[i].ready => content'[slots[i].tensor] = content[slots[i].tensor]
    BY <1>3, <2>1, TableFacts DEF UInv
  <2>3. \A c \in Ctx : Outstanding(c)' = Outstanding(c)
    BY <1>2 DEF Outstanding
  <2> QED BY <1>2, <2>2, <2>3, SlotKept DEF Fills
<1>7. OneSerialPacker' /\ OpsOK'
  BY <1>2 DEF UInv, OneSerialPacker, OpsOK, TensorOf
<1> QED BY <1>2, <1>4, <1>5, <1>6, <1>7 DEF UInv

LEMMA ClearKeeps ==
  ASSUME UInv, Calm, IInv', Clear
  PROVE  UInv'
<1>1. /\ \A c \in Ctx : op[c] = NoTensor
      /\ slots' = Emptied({i \in 1 .. nslots : slots[i].used /\ slots[i].ready})
      /\ UNCHANGED <<nslots, content, op, pc, buf, ptr>> /\ lost' = {}
  BY DEF Clear, Calm, threadVars, UInv
<1>2. \A i \in Used : slots[i].ready
  BY <1>1, FilledForAnOp, TableFacts, KeysAssumption DEF UInv
<1>3. Used' = {}
  BY <1>1, <1>2, EmptyIsSlot DEF Used, Emptied
<1>4. \A t \in Thread : pc'[t] = "idle" /\ TensorOf(t)' = NoTensor
  BY <1>1, ThreadsAssumption DEF UInv, ThreadOK, TensorOf
<1>5. \A t \in Thread : ThreadOK(t)' /\ Written(t)'
  BY <1>4 DEF ThreadOK, Written
<1>6. OneSerialPacker' /\ OpsOK'
  BY <1>1, <1>4 DEF OneSerialPacker, OpsOK
<1> QED BY <1>1, <1>3, <1>5, <1>6 DEF UInv

-----------------------------------------------------------------------------
(* The theorems.                                                            *)

LEMMA InitUInv == Init => UInv
<1> SUFFICES ASSUME Init PROVE UInv
  OBVIOUS
<1>1. IInv
  BY InitIInv
<1>2. Used = {} /\ lost = {}
  BY DEF Init, Used
<1>3. \A t \in Thread : pc[t] = "idle" /\ TensorOf(t) = NoTensor
  BY ThreadsAssumption DEF Init, TensorOf
<1>4. \A t \in Thread : ThreadOK(t) /\ Written(t)
  BY <1>3 DEF ThreadOK, Written
<1>5. OneSerialPacker /\ OpsOK
  BY <1>3 DEF OneSerialPacker, OpsOK, Init
<1> QED BY <1>1, <1>2, <1>4, <1>5 DEF UInv

LEMMA NextUInv == UInv /\ Calm /\ [Next]_vars => UInv'
<1> SUFFICES ASSUME UInv, Calm, [Next]_vars PROVE UInv'
  OBVIOUS
<1>1. IInv'
  BY NextIInv DEF UInv
<1>2. ASSUME NEW t \in Thread, ThreadStep(t) \/ SpuriousWakeup(t) PROVE UInv'
  <2>1. SleepAgain(t) \/ SpuriousWakeup(t) =>
           UNCHANGED <<slots, nslots, total, mem, content, op, pc, buf, ptr, lost>>
    BY DEF SleepAgain, SpuriousWakeup, cacheVars
  <2>2. CASE SleepAgain(t) \/ SpuriousWakeup(t)
    BY <1>1, <2>1, <2>2, NothingMoves
  <2>3. CASE Bypass(t) \/ Hit(t) \/ WaitForPack(t) \/ Join(t) \/ Refuse(t) \/ Admit(t)
    BY <1>1, <2>3, BypassKeeps, HitKeeps, WaitForPackKeeps, RefuseKeeps, AdmitKeeps
  <2>4. CASE Pack(t) \/ Publish(t) \/ SliceDone(t) \/ WakeHit(t) \/ WakeSlice(t) \/ Multiply(t)
    BY <1>1, <2>4, PackKeeps, PublishKeeps, SliceDoneKeeps, WakeKeeps, MultiplyKeeps
  <2> QED BY <1>2, <2>2, <2>3, <2>4, NoStaleWait DEF ThreadStep
<1>3. CASE \E c \in Ctx : EndOp(c) \/ \E x \in Tensor : StartOp(c, x)
  BY <1>1, <1>3, StartOpKeeps, EndOpKeeps
<1>4. CASE \E x \in Tensor : Reload(x)
  BY <1>1, <1>4, ReloadKeeps
<1>5. CASE Clear
  BY <1>1, <1>5, ClearKeeps
<1>6. CASE UNCHANGED vars
  BY <1>1, <1>6, NothingMoves DEF vars, cacheVars, threadVars
<1> QED BY <1>2, <1>3, <1>4, <1>5, <1>6 DEF Next

LEMMA UseInvariance == ASSUME Calm PROVE Spec => []UInv
<1>1. UInv /\ [Next]_vars => UInv'
  BY NextUInv
<1> QED BY <1>1, InitUInv, PTL DEF Spec

LEMMA UsersAreServed ==
  ASSUME UInv, Calm, NEW t \in Thread, pc[t] = "use"
  PROVE  buf[t] \in live /\ mem[buf[t]] = Whole(content[TensorOf(t)])
<1>1. PICK i \in Used : SlotOf(t, i)
  BY ServedOrNot DEF Served
<1>2. /\ Current(i, TensorOf(t)) /\ slots[i].ready /\ buf[t] = slots[i].buf
  BY <1>1 DEF SlotOf
<1>3. buf[t] \in live
  BY <1>2, TableFacts DEF UInv
<1>4. PICK d \in Content : slots[i].fp = Fp[d] /\ mem[slots[i].buf] = Whole(d)
  BY <1>2 DEF UInv, SlotOK
<1>5. content[TensorOf(t)] \in Content
  BY DEF UInv, IInv, TypeOK, PlacesInv
<1>6. d = content[TensorOf(t)]
  BY <1>2, <1>4, <1>5 DEF Current, Calm
<1> QED BY <1>2, <1>3, <1>4, <1>6

\* A multiplication with a pack reads one that is allocated, complete and of the
\* present weights: returning from slice_done, like a hit, means the whole pack.
THEOREM PacksAreWhole == ASSUME Calm PROVE Spec => []UsersSeeWholePack
<1>1. UInv => UsersSeeWholePack
  BY UsersAreServed DEF UsersSeeWholePack
<1> QED BY <1>1, UseInvariance, PTL

\* The threads of an operation never mix the packed and the fallback path, which
\* split the result differently.
THEOREM PathsAgree == ASSUME Calm PROVE Spec => []OnePathPerOp
<1>1. ASSUME UInv, NEW t \in Thread, NEW u \in Thread, CtxOf[t] = CtxOf[u],
             {pc[t], pc[u]} \subseteq {"pack", "packed", "slice_wait", "use", "fallback", "done"}
      PROVE  buf[t] = buf[u]
  <2>1. TensorOf(t) = TensorOf(u)
    BY <1>1 DEF TensorOf
  <2>2. \A v \in {t, u} : Served(v) \/ TurnedAway(v)
    BY <1>1 DEF UInv, ThreadOK
  <2>3. \A v \in {t, u} : TurnedAway(v) => buf[v] = NoBuf /\ \A i \in Used : slots[i].tensor # TensorOf(t)
    BY <1>1, <2>1, ServedOrNot DEF TurnedAway
  <2>4. \A v \in {t, u} : Served(v) =>
           \E i \in Used : SlotOf(v, i) /\ buf[v] = slots[i].buf /\ slots[i].tensor = TensorOf(t)
    BY <1>1, <2>1 DEF Served, SlotOf, Current
  <2>5. CASE Served(t) /\ Served(u)
    <3>1. PICK i \in Used : SlotOf(t, i) /\ buf[t] = slots[i].buf /\ slots[i].tensor = TensorOf(t)
      BY <2>4, <2>5
    <3>2. PICK j \in Used : buf[u] = slots[j].buf /\ slots[j].tensor = TensorOf(t)
      BY <2>4, <2>5
    <3>3. j = i
      BY <1>1, <3>1, <3>2, OneSlotOf
    <3> QED BY <3>1, <3>2, <3>3
  <2>6. CASE ~(Served(t) /\ Served(u))
    BY <2>2, <2>3, <2>4, <2>6
  <2> QED BY <2>5, <2>6
<1>2. UInv => OnePathPerOp
  BY <1>1 DEF OnePathPerOp
<1> QED BY <1>2, UseInvariance, PTL

\* slice_done's counter is the number of slices still to come, so it reaches zero
\* on the last of them and on no other.
THEOREM FillsAreCounted == ASSUME Calm PROVE Spec => []PendingIsExact
<1>1. UInv => PendingIsExact
  BY DEF UInv, SlotOK, PendingIsExact, Outstanding
<1> QED BY <1>1, UseInvariance, PTL

\* While one thread packs a serial tensor every other thread waits or has it.
THEOREM OnePacker == ASSUME Calm PROVE Spec => []OneSerialPacker
<1>1. UInv => OneSerialPacker
  BY DEF UInv
<1> QED BY <1>1, UseInvariance, PTL

\* What a reader of a pack holds fast.
LEMMA ReaderStays ==
  ASSUME UInv, Calm, [Next]_vars, NEW t \in Thread, pc[t] = "use", pc'[t] = "use"
  PROVE  /\ buf'[t] = buf[t] /\ TensorOf(t)' = TensorOf(t)
         /\ content'[TensorOf(t)] = content[TensorOf(t)]
<1>0. TensorOf(t) # NoTensor /\ CtxOf[t] \in Ctx /\ op[CtxOf[t]] = TensorOf(t)
  BY ThreadsAssumption DEF UInv, ThreadOK, TensorOf
<1>1. ASSUME NEW u \in Thread, ThreadStep(u) \/ SpuriousWakeup(u)
      PROVE  buf'[t] = buf[t] /\ op' = op /\ content' = content
  <2>1. op' = op /\ content' = content
    BY <1>1 DEF ThreadStep, SpuriousWakeup, Bypass, Hit, WaitForPack, Join, WaitForStale, Refuse,
                Admit, Pack, Publish, SliceDone, WakeHit, WakeSlice, SleepAgain, Multiply
  <2>2. buf' = buf \/ \E p, b : Return(u, p, b)
    BY <1>1 DEF ThreadStep, SpuriousWakeup, Bypass, Hit, WaitForPack, Join, WaitForStale, Refuse,
                Admit, Pack, Publish, SliceDone, WakeHit, WakeSlice, SleepAgain, Multiply, Sleep
  <2>3. CASE u # t
    BY <2>1, <2>2, <2>3 DEF Return, UInv, IInv, TypeOK
  <2>4. CASE u = t
    <3>1. ~Scanning(t) /\ ~Multiply(t)
      BY DEF Scanning, Multiply, Return, UInv, IInv, TypeOK
    <3>2. SleepAgain(t) \/ SpuriousWakeup(t)
      BY <1>1, <2>4, <3>1 DEF ThreadStep, Bypass, Hit, WaitForPack, Join, WaitForStale, Refuse,
                              Admit, Pack, Publish, SliceDone, WakeHit, WakeSlice
    <3> QED BY <3>2 DEF SleepAgain, SpuriousWakeup
  <2> QED BY <2>1, <2>3, <2>4
<1>2. ASSUME NEW c \in Ctx, EndOp(c) \/ \E x \in Tensor : StartOp(c, x)
      PROVE  buf'[t] = buf[t] /\ op'[CtxOf[t]] = op[CtxOf[t]] /\ content' = content
  <2>1. c # CtxOf[t]
    BY <1>0, <1>2 DEF EndOp, StartOp
  <2> QED BY <1>0, <1>2, <2>1 DEF EndOp, StartOp, UInv, IInv, TypeOK
<1>3. ASSUME NEW x \in Tensor, Reload(x)
      PROVE  buf'[t] = buf[t] /\ op' = op /\ content'[TensorOf(t)] = content[TensorOf(t)]
  <2>1. TensorOf(t) # x /\ TensorOf(t) \in Tensor
    BY <1>0, <1>3 DEF Reload, Calm, UInv, IInv, PlacesInv
  <2> QED BY <1>3, <2>1 DEF Reload, threadVars, UInv, IInv, TypeOK
<1>4. CASE Clear \/ UNCHANGED vars
  BY <1>4 DEF Clear, vars, threadVars, TensorOf
<1> QED BY <1>1, <1>2, <1>3, <1>4 DEF Next, TensorOf

\* Nobody writes into a pack or frees it while a multiplication reads it: no
\* retirement, no clear(), no late slice.
THEOREM ReadersAreAlone == ASSUME Calm PROVE Spec => NoWriteUnderReader
<1>1. ASSUME UInv, UsersSeeWholePack, UsersSeeWholePack', [Next]_vars,
             NEW t \in Thread, pc[t] = "use", pc'[t] = "use"
      PROVE  mem'[buf[t]] = mem[buf[t]] /\ buf[t] \in live'
  <2>1. /\ buf'[t] = buf[t] /\ TensorOf(t)' = TensorOf(t)
        /\ content'[TensorOf(t)] = content[TensorOf(t)]
    BY <1>1, ReaderStays
  <2>2. mem[buf[t]] = Whole(content[TensorOf(t)])
    BY <1>1 DEF UsersSeeWholePack
  <2>3. buf'[t] \in live' /\ mem'[buf'[t]] = Whole(content'[TensorOf(t)'])
    BY <1>1 DEF UsersSeeWholePack, Whole
  <2> QED BY <2>1, <2>2, <2>3
<1>2. UInv /\ UsersSeeWholePack /\ UsersSeeWholePack' /\ [Next]_vars =>
         [\A t \in Thread : pc[t] = "use" /\ pc'[t] = "use" =>
             mem'[buf[t]] = mem[buf[t]] /\ buf[t] \in live']_vars
  BY <1>1
<1> QED BY <1>2, UseInvariance, PacksAreWhole, PTL DEF Spec, NoWriteUnderReader

\* A refused thread retired nothing, and an admission puts back what it retired.
LEMMA RefuseUncachesNone ==
  ASSUME UInv, Calm, NEW t \in Thread, Refuse(t), NEW i \in Used
  PROVE  i \in Used' /\ slots'[i].tensor = slots[i].tensor
<1> DEFINE gone == Retired(t)
           kept == Emptied(gone)
           tab  == Grown(kept)
           n    == NextSize(kept)
           left == TotalWithout(gone)
<1>1. /\ Scanning(t) /\ Vacant(t) /\ left + Bytes[TensorOf(t)] > Cap
      /\ slots' = tab /\ nslots' = n
  BY DEF Refuse, Calm
<1>2. /\ UsedIn(tab, n) = Used \ gone
      /\ \A j \in Used \ gone : tab[j] = slots[j]
      /\ gone # {} => left + Bytes[TensorOf(t)] = total
  BY <1>1, Admission
<1> HIDE DEF kept, tab, n, left
<1>3. gone = {}
  <2>1. total <= Cap /\ total \in Nat /\ Cap \in Nat
    BY TableFacts DEF UInv
  <2> QED BY <1>1, <1>2, <2>1
<1> QED BY <1>1, <1>2, <1>3 DEF Used, UsedIn

LEMMA AdmitUncachesNone ==
  ASSUME UInv, NEW t \in Thread, Admit(t), NEW i \in Used
  PROVE  \E j \in Used' : slots'[j].tensor = slots[i].tensor
<1> DEFINE gone == Retired(t)
           kept == Emptied(gone)
           tab  == Grown(kept)
           n    == NextSize(kept)
           free == {j \in 1 .. n : ~tab[j].used}
<1>0. PICK dst : dst = First(free)
  OBVIOUS
<1>1. PICK b \in Buf \ (live \ BufsOf(gone)) : slots' = [tab EXCEPT ![dst] = NewSlot(t, b)]
  BY <1>0 DEF Admit
<1>2. Scanning(t) /\ Vacant(t) /\ nslots' = n
  BY DEF Admit
<1>3. /\ UsedIn(tab, n) = Used \ gone
      /\ \A j \in Used \ gone : tab[j] = slots[j]
      /\ \A j \in gone : slots[j].tensor = TensorOf(t)
      /\ n \in Nat /\ \E j \in 1 .. n : ~tab[j].used
  BY <1>2, Admission
<1>4. dst \in 1 .. n /\ ~tab[dst].used
  <2>1. free \in SUBSET Nat /\ free # {}
    BY <1>3
  <2> HIDE DEF free
  <2>2. First(free) \in free
    BY <2>1, FirstIsLeast
  <2> QED BY <1>0, <2>2 DEF free
<1>5. DOMAIN tab = 1 .. n
  BY DEF Grown
<1> HIDE DEF kept, tab, n, free
<1>6. /\ slots'[dst] = NewSlot(t, b) /\ \A j \in 1 .. n : j # dst => slots'[j] = tab[j]
  BY <1>1, <1>4, <1>5
<1>7. CASE i \in gone
  <2>1. dst \in Used' /\ slots'[dst].tensor = slots[i].tensor
    BY <1>2, <1>3, <1>4, <1>6, <1>7 DEF Used, NewSlot
  <2> QED BY <2>1
<1>8. CASE i \notin gone
  <2>1. i \in UsedIn(tab, n) /\ i # dst
    BY <1>3, <1>4, <1>8 DEF UsedIn
  <2>2. i \in Used' /\ slots'[i] = slots[i]
    BY <1>2, <1>3, <1>6, <1>8, <2>1 DEF Used, UsedIn
  <2> QED BY <2>2
<1> QED BY <1>7, <1>8

\* "The cache's effect is monotonic": only clear() takes the pack of a tensor away
\* for good; a refusal comes before anything is retired, and a retirement is
\* followed by an admission.
THEOREM PacksAreKept == ASSUME Calm PROVE Spec => OnlyClearUncaches
<1>1. ASSUME UInv, [Next]_vars, ~Clear, NEW i \in Used
      PROVE  \E j \in Used' : slots'[j].tensor = slots[i].tensor
  <2>1. CASE UNCHANGED <<slots, nslots>>
    BY <2>1 DEF Used
  <2>2. ASSUME NEW t \in Thread, Publish(t) \/ SliceDone(t)
        PROVE  i \in Used' /\ slots'[i].tensor = slots[i].tensor
    <3>1. slots \in [1 .. nslots -> Slot] /\ nslots' = nslots
      BY <1>1, <2>2, TableFacts DEF UInv, Publish, SliceDone
    <3>2. \/ slots' = slots
          \/ \E m, r : slots' = [slots EXCEPT ![m].ready = r]
          \/ \E m, r, p : slots' = [slots EXCEPT ![m].pending = p, ![m].ready = r]
      <4>1. CASE Publish(t)
        BY <4>1 DEF Publish
      <4>2. CASE SliceDone(t) /\ Matches(TensorOf(t)) = {}
        BY <4>2 DEF SliceDone
      <4>3. CASE SliceDone(t) /\ Matches(TensorOf(t)) # {}
        <5> DEFINE m == MatchOf(t)
        <5>1. slots' = [slots EXCEPT ![m].pending = CountDown(slots[m].pending),
                                     ![m].ready = slots[m].ready \/ LastSlice(slots[m].pending)]
          BY <1>1, <3>1, <4>3, TheMatch DEF SliceDone, UInv
        <5> QED BY <5>1
      <4> QED BY <2>2, <4>1, <4>2, <4>3
    <3>3. i \in 1 .. nslots /\ slots[i] \in Slot
      BY <1>1, <3>1 DEF Used
    <3>4. slots'[i].used = slots[i].used /\ slots'[i].tensor = slots[i].tensor
      <4>1. ASSUME NEW m, NEW r, slots' = [slots EXCEPT ![m].ready = r]
            PROVE  slots'[i].used = slots[i].used /\ slots'[i].tensor = slots[i].tensor
        BY <3>1, <3>3, <4>1 DEF Slot
      <4>2. ASSUME NEW m, NEW r, NEW p, slots' = [slots EXCEPT ![m].pending = p, ![m].ready = r]
            PROVE  slots'[i].used = slots[i].used /\ slots'[i].tensor = slots[i].tensor
        BY <3>1, <3>3, <4>2 DEF Slot
      <4> QED BY <3>2, <4>1, <4>2
    <3> QED BY <1>1, <3>1, <3>3, <3>4 DEF Used
  <2>3. ASSUME NEW t \in Thread, ThreadStep(t) \/ SpuriousWakeup(t)
        PROVE  \E j \in Used' : slots'[j].tensor = slots[i].tensor
    <3>1. CASE Refuse(t)
      BY <1>1, <3>1, RefuseUncachesNone
    <3>2. CASE Admit(t)
      BY <1>1, <3>2, AdmitUncachesNone
    <3>3. CASE Publish(t) \/ SliceDone(t)
      BY <2>2, <3>3
    <3>4. CASE ~(Refuse(t) \/ Admit(t) \/ Publish(t) \/ SliceDone(t))
      <4>1. UNCHANGED <<slots, nslots>>
        BY <2>3, <3>4 DEF ThreadStep, SpuriousWakeup, Bypass, Hit, WaitForPack, Join, WaitForStale,
                          Pack, WakeHit, WakeSlice, SleepAgain, Multiply, cacheVars
      <4> QED BY <2>1, <4>1
    <3> QED BY <3>1, <3>2, <3>3, <3>4
  <2>4. CASE \E c \in Ctx : EndOp(c) \/ \E x \in Tensor : StartOp(c, x)
    BY <2>1, <2>4 DEF EndOp, StartOp, cacheVars
  <2>5. CASE (\E x \in Tensor : Reload(x)) \/ UNCHANGED vars
    BY <2>1, <2>5 DEF Reload, vars, cacheVars
  <2> QED BY <1>1, <2>3, <2>4, <2>5 DEF Next
<1>2. ASSUME UInv, [Next]_vars, NEW x \in Tensor, Matches(x) # {}, Matches(x)' = {} PROVE Clear
  <2>1. PICK i \in Used : slots[i].tensor = x
    BY <1>2, MatchesAreUsed
  <2>2. SUFFICES ASSUME ~Clear PROVE FALSE
    OBVIOUS
  <2>3. PICK j \in Used' : slots'[j].tensor = x
    BY <1>1, <1>2, <2>1, <2>2
  <2> QED BY <1>2, <2>3 DEF Matches, Used
<1>3. UInv /\ [Next]_vars => [(\E x \in Tensor : Matches(x) # {} /\ Matches(x)' = {}) => Clear]_vars
  BY <1>2
<1> QED BY <1>3, UseInvariance, PTL DEF Spec, OnlyClearUncaches

-----------------------------------------------------------------------------
(* Waiting: every sleeper waits for a broadcast that is still to come.      *)

\* No sleeper's condition is true.
SleepersWait == \A t \in asleep : pc[t] \in {"hit_wait", "slice_wait"} /\ ~slots[ptr[t]].ready

\* A sleeper's pointer is the slot of its own tensor, so the table's steps that
\* spare the unready slots spare it.
LEMMA SleepersSlot ==
  ASSUME UInv, SleepersWait, NEW t \in asleep
  PROVE  /\ t \in Thread /\ pc[t] \in {"hit_wait", "slice_wait"}
         /\ ptr[t] \in Used /\ slots[ptr[t]].tensor = TensorOf(t) /\ ~slots[ptr[t]].ready
         /\ pc[t] = "hit_wait" => TensorOf(t) \in Serial
         /\ pc[t] = "slice_wait" => TensorOf(t) \in Par
<1>1. t \in Thread /\ pc[t] \in {"hit_wait", "slice_wait"} /\ ~slots[ptr[t]].ready
  BY DEF SleepersWait, UInv, IInv, TypeOK
<1>2. Served(t)
  BY <1>1, ServedOrNot
<1>3. PICK i \in Used : SlotOf(t, i)
  BY <1>2 DEF Served
<1>4. ptr[t] = i /\ slots[i].tensor = TensorOf(t)
  BY <1>1, <1>3 DEF SlotOf, Current
<1> QED BY <1>1, <1>2, <1>3, <1>4 DEF Served

\* A sleeper that sleeps on keeps waiting for what it waited for.
LEMMA SleepsOn ==
  ASSUME UInv, SleepersWait, NEW u \in asleep,
         pc'[u] = pc[u], ptr'[u] = ptr[u], slots'[ptr[u]] = slots[ptr[u]]
  PROVE  pc'[u] \in {"hit_wait", "slice_wait"} /\ ~slots'[ptr'[u]].ready
BY SleepersSlot

\* A step of an awake thread leaves the place and the pointer of a sleeper alone.
LEMMA SleepersStay ==
  ASSUME UInv, SleepersWait, NEW t \in Thread, ThreadStep(t), NEW u \in asleep
  PROVE  /\ u # t
         /\ pc'[u] = pc[u] /\ ptr'[u] = ptr[u]
<1>1. u \in Thread /\ pc[u] \in {"hit_wait", "slice_wait"}
  BY SleepersSlot
<1>2. u # t
  <2>1. ~Scanning(u) /\ ~Woken(u)
    BY <1>1 DEF Scanning, Woken
  <2> QED BY <1>1, <2>1 DEF ThreadStep, Bypass, Hit, WaitForPack, Join, WaitForStale, Refuse, Admit,
                            Pack, Publish, SliceDone, WakeHit, WakeSlice, SleepAgain, Multiply
<1>3. /\ pc' = pc \/ \E p : pc' = [pc EXCEPT ![t] = p]
      /\ ptr' = ptr \/ \E i : ptr' = [ptr EXCEPT ![t] = i]
  BY DEF ThreadStep, Bypass, Hit, WaitForPack, Join, WaitForStale, Refuse, Admit, Pack, Publish,
         SliceDone, WakeHit, WakeSlice, SleepAgain, Multiply, Return, Sleep
<1> QED BY <1>1, <1>2, <1>3 DEF UInv, IInv, TypeOK

\* Admission retires a finished pack at most, so a slot somebody waits for stays.
LEMMA AdmissionSparesUnready ==
  ASSUME UInv, Calm, NEW t \in Thread, Refuse(t) \/ Admit(t), NEW i \in Used, ~slots[i].ready
  PROVE  slots'[i] = slots[i]
<1> DEFINE gone == Retired(t)
           kept == Emptied(gone)
           tab  == Grown(kept)
           n    == NextSize(kept)
           free == {j \in 1 .. n : ~tab[j].used}
<1>1. Scanning(t) /\ Vacant(t)
  BY DEF Refuse, Admit
<1>2. /\ UsedIn(tab, n) = Used \ gone
      /\ \A j \in Used \ gone : tab[j] = slots[j]
      /\ \A j \in gone : slots[j].ready
      /\ n \in Nat /\ \E j \in 1 .. n : ~tab[j].used
  BY <1>1, Admission
<1>3. i \in Used \ gone /\ tab[i] = slots[i] /\ tab[i].used
  BY <1>2 DEF Used
<1>4. CASE Refuse(t)
  BY <1>3, <1>4 DEF Refuse, Calm
<1>5. CASE Admit(t)
  <2>1. PICK dst, b : dst = First(free) /\ slots' = [tab EXCEPT ![dst] = NewSlot(t, b)]
    BY <1>5 DEF Admit
  <2>2. dst \in 1 .. n /\ ~tab[dst].used
    <3>1. free \in SUBSET Nat /\ free # {}
      BY <1>2
    <3> HIDE DEF free
    <3>2. First(free) \in free
      BY <3>1, FirstIsLeast
    <3> QED BY <2>1, <3>2 DEF free
  <2>3. DOMAIN tab = 1 .. n /\ i \in 1 .. n
    BY <1>2, <1>3 DEF Grown, UsedIn
  <2> HIDE DEF kept, tab, n, free
  <2> QED BY <1>3, <2>1, <2>2, <2>3
<1> QED BY <1>4, <1>5

\* publish wakes all; slice_done wakes all when the pack becomes ready, and
\* otherwise goes to sleep itself, on a slot that is not.
LEMMA PublishersWake ==
  ASSUME UInv, SleepersWait, NEW t \in Thread, Publish(t) \/ SliceDone(t)
  PROVE  SleepersWait'
<1>1. CASE Publish(t)
  BY <1>1 DEF Publish, AfterBroadcast, SleepersWait
<1>2. CASE SliceDone(t) /\ Matches(TensorOf(t)) = {}
  <2>1. UNCHANGED <<slots, ptr, asleep>>
    BY <1>2 DEF SliceDone
  <2>2. ThreadStep(t)
    BY <1>2 DEF ThreadStep
  <2>3. \A u \in asleep : pc'[u] = pc[u]
    BY <2>2, SleepersStay
  <2> QED BY <2>1, <2>3 DEF SleepersWait
<1>3. CASE SliceDone(t) /\ Matches(TensorOf(t)) # {}
  <2> DEFINE i == MatchOf(t)
             last == LastSlice(slots[i].pending)
             ready == slots[i].ready \/ last
  <2>1. /\ slots' = [slots EXCEPT ![i].pending = CountDown(slots[i].pending), ![i].ready = ready]
        /\ asleep' = (IF last THEN AfterBroadcast ELSE asleep) \cup (IF ready THEN {} ELSE {t})
        /\ pc' = [pc EXCEPT ![t] = IF ready THEN "use" ELSE "slice_wait"]
        /\ ptr' = [ptr EXCEPT ![t] = IF ready THEN 0 ELSE i]
    <3>1. i \in 1 .. nslots /\ slots \in [1 .. nslots -> Slot]
      BY <1>3, TheMatch DEF UInv, IInv, TypeOK
    <3> QED BY <1>3, <3>1 DEF SliceDone
  <2>2. i \in 1 .. nslots /\ slots \in [1 .. nslots -> Slot] /\ ready \in BOOLEAN
    BY <1>3, TheMatch DEF UInv, IInv, TypeOK, Slot, LastSlice
  <2>3. \A u \in asleep : u # t /\ pc'[u] = pc[u] /\ ptr'[u] = ptr[u]
    BY <1>3, SleepersStay DEF ThreadStep
  <2>4. slots'[i].ready = ready /\ \A j \in 1 .. nslots : j # i => slots'[j] = slots[j]
    BY <2>1, <2>2 DEF Slot
  <2>5. /\ t \in asleep' => t \in asleep \/ ~ready
        /\ ~ready => pc'[t] = "slice_wait" /\ ptr'[t] = i
    BY <2>1 DEF AfterBroadcast, UInv, IInv, TypeOK
  <2>6. \A u \in asleep' : u # t => u \in asleep /\ ~last
    BY <2>1 DEF AfterBroadcast
  <2> HIDE DEF i, ready, last
  <2>7. ASSUME NEW u \in asleep', u # t
        PROVE  pc'[u] \in {"hit_wait", "slice_wait"} /\ ~slots'[ptr'[u]].ready
    <3>1. u \in asleep /\ ~last
      BY <2>6, <2>7
    <3>2. /\ pc[u] \in {"hit_wait", "slice_wait"}
          /\ ptr[u] \in Used /\ ~slots[ptr[u]].ready
      BY <3>1, SleepersSlot
    <3>3. ~slots'[ptr[u]].ready
      BY <2>4, <3>1, <3>2 DEF ready, Used
    <3> QED BY <2>3, <3>1, <3>2, <3>3
  <2>8. ASSUME t \in asleep'
        PROVE  pc'[t] \in {"hit_wait", "slice_wait"} /\ ~slots'[ptr'[t]].ready
    <3>1. ~ready
      BY <2>3, <2>5, <2>8
    <3> QED BY <2>4, <2>5, <3>1
  <2> QED BY <2>7, <2>8 DEF SleepersWait
<1> QED BY <1>1, <1>2, <1>3

\* The other steps of a thread, those that go to sleep among them.
LEMMA OthersSleepOn ==
  ASSUME UInv, Calm, SleepersWait, NEW t \in Thread, ThreadStep(t), ~Publish(t), ~SliceDone(t)
  PROVE  SleepersWait'
<1>1. \A u \in asleep : u # t /\ pc'[u] = pc[u] /\ ptr'[u] = ptr[u]
  BY SleepersStay
<1>2. \A u \in asleep : ptr[u] \in Used /\ ~slots[ptr[u]].ready
  BY SleepersSlot
<1>3. \A u \in asleep : slots'[ptr[u]] = slots[ptr[u]]
  <2>1. CASE Refuse(t) \/ Admit(t)
    BY <1>2, <2>1, AdmissionSparesUnready
  <2>2. CASE ~(Refuse(t) \/ Admit(t))
    <3>1. slots' = slots
      BY <2>2 DEF ThreadStep, Bypass, Hit, WaitForPack, Join, WaitForStale, Pack, WakeHit, WakeSlice,
                  SleepAgain, Multiply, cacheVars
    <3> QED BY <3>1
  <2> QED BY <2>1, <2>2
<1>4. \A u \in asleep : pc'[u] \in {"hit_wait", "slice_wait"} /\ ~slots'[ptr'[u]].ready
  BY <1>1, <1>3, SleepsOn
<1>5. CASE WaitForPack(t)
  <2>1. /\ asleep' = asleep \cup {t} /\ slots' = slots /\ ~slots[MatchOf(t)].ready
        /\ pc' = [pc EXCEPT ![t] = "hit_wait"] /\ ptr' = [ptr EXCEPT ![t] = MatchOf(t)]
    BY <1>5 DEF WaitForPack, Sleep, cacheVars
  <2>2. pc'[t] = "hit_wait" /\ ptr'[t] = MatchOf(t)
    BY <2>1 DEF UInv, IInv, TypeOK
  <2> QED BY <1>4, <2>1, <2>2 DEF SleepersWait
<1>6. CASE SleepAgain(t)
  <2>1. /\ asleep' = asleep \cup {t} /\ UNCHANGED <<slots, pc, ptr>>
        /\ pc[t] \in Waits /\ MayBeUnready(t)
    BY <1>6 DEF SleepAgain, cacheVars, Woken
  <2>2. pc[t] \in {"hit_wait", "slice_wait"} /\ ~slots[ptr[t]].ready
    BY <2>1, ServedOrNot DEF Waits, MayBeUnready, UInv
  <2> QED BY <1>4, <2>1, <2>2 DEF SleepersWait
<1>7. CASE ~WaitForPack(t) /\ ~SleepAgain(t)
  <2>1. asleep' = asleep
    BY <1>7, NoStaleWait DEF ThreadStep, Bypass, Hit, Join, Refuse, Admit, Pack, WakeHit, WakeSlice, Multiply
  <2> QED BY <1>4, <2>1 DEF SleepersWait
<1> QED BY <1>5, <1>6, <1>7

\* The callers: operations start and end around the sleepers, and clear() leaves
\* a slot that is being filled where it is.
LEMMA CallersLetSleep ==
  ASSUME UInv, SleepersWait,
         \/ \E t \in Thread : SpuriousWakeup(t)
         \/ \E c \in Ctx : EndOp(c) \/ \E x \in Tensor : StartOp(c, x)
         \/ \E x \in Tensor : Reload(x)
         \/ Clear
         \/ UNCHANGED vars
  PROVE  SleepersWait'
<1>1. \A u \in asleep : /\ u \in Thread /\ pc[u] \in {"hit_wait", "slice_wait"}
                        /\ ptr[u] \in Used /\ ~slots[ptr[u]].ready
  BY SleepersSlot
<1>2. asleep' \subseteq asleep /\ ptr' = ptr
  BY DEF SpuriousWakeup, EndOp, StartOp, Reload, Clear, vars, threadVars
<1>3. ASSUME NEW u \in asleep PROVE pc'[u] = pc[u]
  <2>1. CASE \E c \in Ctx : EndOp(c) \/ \E x \in Tensor : StartOp(c, x)
    <3>1. PICK c \in Ctx : EndOp(c) \/ \E x \in Tensor : StartOp(c, x)
      BY <2>1
    <3>2. CtxOf[u] # c
      <4>1. CASE EndOp(c)
        BY <1>1, <4>1 DEF EndOp, Threads
      <4>2. CASE \E x \in Tensor : StartOp(c, x)
        BY <1>1, <4>2 DEF StartOp, UInv, ThreadOK, TensorOf
      <4> QED BY <3>1, <4>1, <4>2
    <3> QED BY <1>1, <3>1, <3>2 DEF EndOp, StartOp
  <2>2. CASE ~\E c \in Ctx : EndOp(c) \/ \E x \in Tensor : StartOp(c, x)
    BY <2>2 DEF SpuriousWakeup, Reload, Clear, vars, threadVars
  <2> QED BY <2>1, <2>2
<1>4. ASSUME NEW u \in asleep PROVE slots'[ptr[u]] = slots[ptr[u]]
  <2>1. CASE Clear
    <3>1. slots' = Emptied({i \in 1 .. nslots : slots[i].used /\ slots[i].ready})
      BY <2>1 DEF Clear
    <3> QED BY <1>1, <3>1 DEF Emptied, Used
  <2>2. CASE ~Clear
    BY <2>2 DEF SpuriousWakeup, EndOp, StartOp, Reload, vars, cacheVars
  <2> QED BY <2>1, <2>2
<1> QED BY <1>2, <1>3, <1>4, SleepsOn DEF SleepersWait

LEMMA SleepersWaitAlways == ASSUME Calm PROVE Spec => []SleepersWait
<1>1. Init => SleepersWait
  BY DEF Init, SleepersWait
<1>2. UInv /\ SleepersWait /\ [Next]_vars => SleepersWait'
  <2> SUFFICES ASSUME UInv, SleepersWait, [Next]_vars PROVE SleepersWait'
    OBVIOUS
  <2>1. ASSUME NEW t \in Thread, ThreadStep(t) PROVE SleepersWait'
    BY <2>1, PublishersWake, OthersSleepOn
  <2> QED BY <2>1, CallersLetSleep DEF Next
<1> QED BY <1>1, <1>2, UseInvariance, PTL DEF Spec

\* Whatever the scheduler does, a thread in pthread_cond_wait has missed no
\* broadcast, and an awake thread still has to pack for it: in publish and
\* slice_done the wakeup cannot get lost, and the wait cannot become a circle.
THEOREM NobodyIsForgotten == ASSUME Calm PROVE Spec => []NobodyWaitsInVain
<1>1. ASSUME UInv, SleepersWait, NEW t \in asleep
      PROVE  \E u \in Thread \ asleep :
                /\ TensorOf(u) = TensorOf(t)
                /\ pc[u] \in {"pack", "packed"} \/ (pc[u] = "acquire" /\ TensorOf(t) \in Par)
  <2> DEFINE x == TensorOf(t)
  <2>1. ptr[t] \in Used /\ slots[ptr[t]].tensor = x /\ ~slots[ptr[t]].ready
        /\ (x \in Serial \/ x \in Par)
    BY <1>1, SleepersSlot
  <2>2. /\ x \in Serial => \E u \in Thread : Fills(u, x)
        /\ x \in Par => \E c \in Ctx : /\ op[c] = x
                                       /\ slots[ptr[t]].pending = Cardinality(Outstanding(c))
                                       /\ slots[ptr[t]].pending > 0
    BY <1>1, <2>1 DEF UInv, SlotOK
  <2>3. \A u \in asleep : pc[u] \notin {"acquire", "pack", "packed"}
    BY <1>1 DEF SleepersWait
  <2>4. CASE x \in Serial
    BY <2>2, <2>3, <2>4 DEF Fills
  <2>5. CASE x \in Par
    <3>1. PICK c \in Ctx : op[c] = x /\ Cardinality(Outstanding(c)) > 0
      BY <2>2, <2>5
    <3>2. Outstanding(c) # {}
      BY <3>1, FS_EmptySet
    <3>3. PICK u \in Outstanding(c) : TRUE
      BY <3>2
    <3>4. u \in Thread /\ TensorOf(u) = x /\ pc[u] \in {"acquire", "pack", "packed"}
      BY <3>1, <3>3 DEF Outstanding, Threads, TensorOf
    <3> QED BY <2>3, <2>5, <3>4
  <2> QED BY <2>1, <2>4, <2>5
<1>2. UInv /\ SleepersWait => NobodyWaitsInVain
  BY <1>1 DEF NobodyWaitsInVain, SleepersWait
<1> QED BY <1>2, UseInvariance, SleepersWaitAlways, PTL

-----------------------------------------------------------------------------
(***************************************************************************)
(* The cache does what the per-call path does: under Calm every behaviour  *)
(* of PackCache is one of DirectPack, step by step.  A thread repacks for  *)
(* the abstract operation at the step at which it leaves the cache, with   *)
(* its pack or with the refusal.                                           *)
(***************************************************************************)
Direct == INSTANCE DirectPack WITH view <- View, NoView <- Junk

\* Where a thread has what it multiplies with.
Seen == {"use", "fallback", "done"}
Shown == [t \in Thread |-> IF pc[t] \in Seen THEN Whole(content[TensorOf(t)]) ELSE Junk]

LEMMA ViewIsShown ==
  /\ UsersSeeWholePack => View = Shown
  /\ UsersSeeWholePack' => View' = Shown'
<1>1. ASSUME UsersSeeWholePack PROVE View = Shown
  <2>1. \A t \in Thread : pc[t] = "use" => mem[buf[t]] = Whole(content[TensorOf(t)])
    BY <1>1 DEF UsersSeeWholePack
  <2> QED BY <2>1 DEF View, Shown, Seen
<1>2. ASSUME UsersSeeWholePack' PROVE View' = Shown'
  <2>1. \A t \in Thread : pc'[t] = "use" => mem'[buf'[t]] = Whole(content'[TensorOf(t)'])
    BY <1>2 DEF UsersSeeWholePack, Whole
  <2> QED BY <2>1 DEF View, Shown, Seen, Whole
<1> QED BY <1>1, <1>2

\* A step of a thread shows it its pack, or nobody anything.
LEMMA ThreadMoves ==
  ASSUME UInv, NEW t \in Thread, ThreadStep(t) \/ SpuriousWakeup(t)
  PROVE  /\ content' = content /\ op' = op
         /\ \E p : pc' = [pc EXCEPT ![t] = p] /\ (pc[t] \in Seen => p \in Seen)
         /\ pc[t] = "idle" => pc' = pc
<1>1. content' = content /\ op' = op
  BY DEF ThreadStep, SpuriousWakeup, Bypass, Hit, WaitForPack, Join, WaitForStale, Refuse,
         Admit, Pack, Publish, SliceDone, WakeHit, WakeSlice, SleepAgain, Multiply
<1>2. CASE SleepAgain(t) \/ SpuriousWakeup(t)
  <2>1. pc' = [pc EXCEPT ![t] = pc[t]] /\ pc' = pc
    BY <1>2 DEF SleepAgain, SpuriousWakeup, UInv, IInv, TypeOK
  <2> QED BY <1>1, <2>1
<1>3. CASE Multiply(t)
  <2>1. pc' = [pc EXCEPT ![t] = "done"] /\ pc[t] # "idle"
    BY <1>3 DEF Multiply, Return
  <2> QED BY <1>1, <2>1 DEF Seen
<1>4. CASE ~(SleepAgain(t) \/ SpuriousWakeup(t) \/ Multiply(t))
  <2>1. pc[t] \notin Seen /\ pc[t] # "idle"
    BY <1>4 DEF ThreadStep, Bypass, Hit, WaitForPack, Join, WaitForStale, Refuse,
                Admit, Pack, Publish, SliceDone, WakeHit, WakeSlice, Scanning, Seen
  <2>2. \E p : pc' = [pc EXCEPT ![t] = p]
    BY <1>4 DEF ThreadStep, Bypass, Hit, WaitForPack, Join, WaitForStale, Refuse, Return, Sleep,
                Admit, Pack, Publish, SliceDone, WakeHit, WakeSlice
  <2> QED BY <1>1, <2>1, <2>2
<1> QED BY <1>2, <1>3, <1>4

LEMMA ThreadImplements ==
  ASSUME UInv, UsersSeeWholePack, UsersSeeWholePack', NEW t \in Thread,
         ThreadStep(t) \/ SpuriousWakeup(t)
  PROVE  Direct!Repack(t) \/ UNCHANGED <<content, op, View>>
<1>1. PICK p : pc' = [pc EXCEPT ![t] = p] /\ (pc[t] \in Seen => p \in Seen)
  BY ThreadMoves
<1>2. content' = content /\ op' = op /\ View = Shown /\ View' = Shown'
  BY ThreadMoves, ViewIsShown
<1>3. pc'[t] = p /\ \A u \in Thread \ {t} : pc'[u] = pc[u]
  BY <1>1 DEF UInv, IInv, TypeOK
<1>4. \A u \in Thread : TensorOf(u)' = TensorOf(u)
  BY <1>2 DEF TensorOf
<1>5. CASE pc[t] \notin Seen /\ p \in Seen
  <2>1. TensorOf(t) # NoTensor
    <3>1. pc[t] # "idle"
      BY <1>3, <1>5, ThreadMoves
    <3> QED BY <3>1 DEF UInv, ThreadOK
  <2>2. Shown[t] = Junk /\ Shown \in [Thread -> {Shown[u] : u \in Thread}]
    BY <1>5 DEF Shown
  <2>3. Shown' = [Shown EXCEPT ![t] = Whole(content[TensorOf(t)])]
    <3>1. Shown'[t] = Whole(content[TensorOf(t)])
      BY <1>2, <1>3, <1>4, <1>5 DEF Shown, Whole
    <3>2. \A u \in Thread \ {t} : Shown'[u] = Shown[u]
      BY <1>2, <1>3, <1>4 DEF Shown, Whole
    <3>3. /\ Shown' = [u \in Thread |-> Shown'[u]]
          /\ [Shown EXCEPT ![t] = Whole(content[TensorOf(t)])]
                = [u \in Thread |-> IF u = t THEN Whole(content[TensorOf(t)]) ELSE Shown[u]]
      BY DEF Shown
    <3> QED BY <3>1, <3>2, <3>3
  <2>4. TensorOf(t) = op[CtxOf[t]]
    BY DEF TensorOf
  <2> QED BY <1>2, <2>1, <2>2, <2>3, <2>4 DEF Direct!Repack, Direct!Whole, Whole
<1>6. CASE ~(pc[t] \notin Seen /\ p \in Seen)
  <2>1. Shown' = Shown
    BY <1>1, <1>2, <1>3, <1>4, <1>6 DEF Shown, Whole
  <2> QED BY <1>2, <2>1
<1> QED BY <1>5, <1>6

LEMMA CallersImplement ==
  ASSUME UInv, Calm, UsersSeeWholePack, UsersSeeWholePack',
         \A d \in Content : Whole(d) # Junk
  PROVE  /\ \A c \in Ctx, x \in Tensor : StartOp(c, x) => Direct!StartOp(c, x)
         /\ \A c \in Ctx : EndOp(c) => Direct!EndOp(c)
         /\ \A x \in Tensor : Reload(x) => \E d \in Content : Direct!Reload(x, d)
         /\ Clear => UNCHANGED <<content, op, View>>
<1>1. View = Shown /\ View' = Shown'
  BY ViewIsShown
<1>2. ASSUME NEW c \in Ctx, NEW x \in Tensor, StartOp(c, x)
      PROVE  Direct!StartOp(c, x)
  <2>1. /\ op[c] = NoTensor /\ x \in Uses[c] /\ op' = [op EXCEPT ![c] = x] /\ content' = content
        /\ pc' = [t \in Thread |-> IF CtxOf[t] = c THEN "acquire" ELSE pc[t]]
    BY <1>2 DEF StartOp
  <2>2. \A t \in Thread : CtxOf[t] = c => pc[t] = "idle"
    BY <2>1 DEF UInv, ThreadOK, TensorOf
  <2>3. \A t \in Thread : CtxOf[t] # c => TensorOf(t)' = TensorOf(t)
    BY <2>1, ThreadsAssumption DEF TensorOf, UInv, IInv, TypeOK
  <2>4. Shown' = Shown
    BY <2>1, <2>2, <2>3 DEF Shown, Seen, Whole
  <2> QED BY <1>1, <2>1, <2>4 DEF Direct!StartOp
<1>3. ASSUME NEW c \in Ctx, EndOp(c)
      PROVE  Direct!EndOp(c)
  <2>1. /\ op[c] # NoTensor /\ op' = [op EXCEPT ![c] = NoTensor] /\ content' = content
        /\ \A t \in Threads(c) : pc[t] = "done"
        /\ pc' = [t \in Thread |-> IF CtxOf[t] = c THEN "idle" ELSE pc[t]]
    BY <1>3 DEF EndOp
  <2>2. \A t \in Thread : CtxOf[t] # c => TensorOf(t)' = TensorOf(t)
    BY <2>1, ThreadsAssumption DEF TensorOf, UInv, IInv, TypeOK
  <2>3. \A t \in Threads(c) : Shown[t] # Junk
    <3>1. ASSUME NEW t \in Threads(c) PROVE Shown[t] # Junk
      <4>1. pc[t] = "done" /\ t \in Thread
        BY <2>1 DEF Threads
      <4>2. content[TensorOf(t)] \in Content
        BY <4>1 DEF UInv, IInv, TypeOK, PlacesInv
      <4> QED BY <4>1, <4>2 DEF Shown, Seen
    <3> QED BY <3>1
  <2>4. Shown' = [t \in Thread |-> IF CtxOf[t] = c THEN Junk ELSE Shown[t]]
    BY <2>1, <2>2 DEF Shown, Seen, Whole
  <2> QED BY <1>1, <2>1, <2>3, <2>4 DEF Direct!EndOp, Direct!Threads, Threads
<1>4. ASSUME NEW x \in Tensor, Reload(x)
      PROVE  \E d \in Content : Direct!Reload(x, d)
  <2>1. PICK d \in Content : content' = [content EXCEPT ![x] = d]
    BY <1>4 DEF Reload
  <2>2. /\ \A c \in Ctx : op[c] # x
        /\ op' = op /\ pc' = pc
    BY <1>4 DEF Reload, Calm, threadVars
  <2>3. ASSUME NEW t \in Thread, pc[t] # "idle"
        PROVE  content'[TensorOf(t)'] = content[TensorOf(t)]
    <3>1. TensorOf(t)' = TensorOf(t) /\ TensorOf(t) \in Tensor \ {x}
      BY <2>2, <2>3, ThreadsAssumption DEF UInv, IInv, PlacesInv, TensorOf
    <3> QED BY <2>1, <3>1 DEF UInv, IInv, TypeOK
  <2>4. Shown' = Shown
    BY <2>2, <2>3 DEF Shown, Seen, Whole
  <2> QED BY <1>1, <2>1, <2>2, <2>4 DEF Direct!Reload
<1>5. ASSUME Clear
      PROVE  UNCHANGED <<content, op, View>>
  <2>1. content' = content /\ op' = op /\ pc' = pc
    BY <1>5 DEF Clear, threadVars
  <2>2. Shown' = Shown
    BY <2>1 DEF Shown, TensorOf, Whole
  <2> QED BY <1>1, <2>1, <2>2
<1> QED BY <1>2, <1>3, <1>4, <1>5

\* "Never wrong, only slower", without the fairness: what the operations of the
\* cached drivers multiply with is what those of the per-call path do.  (What a
\* pack holds is not the mark of a thread that has none.)
THEOREM CacheStepsAreDirect ==
  ASSUME Calm, \A d \in Content : Whole(d) # Junk
  PROVE  Spec => Direct!Init /\ [][Direct!Next]_<<content, op, View>>
<1>1. Init => Direct!Init
  BY DEF Init, Direct!Init, View
<1>2. ASSUME UInv, UsersSeeWholePack, UsersSeeWholePack', [Next]_vars
      PROVE  [Direct!Next]_<<content, op, View>>
  <2>1. ASSUME NEW t \in Thread, ThreadStep(t) \/ SpuriousWakeup(t)
        PROVE  [Direct!Next]_<<content, op, View>>
    BY <1>2, <2>1, ThreadImplements DEF Direct!Next
  <2>2. ASSUME NEW c \in Ctx, EndOp(c) \/ \E x \in Tensor : StartOp(c, x)
        PROVE  [Direct!Next]_<<content, op, View>>
    BY <1>2, <2>2, CallersImplement DEF Direct!Next
  <2>3. ASSUME NEW x \in Tensor, Reload(x)
        PROVE  [Direct!Next]_<<content, op, View>>
    BY <1>2, <2>3, CallersImplement DEF Direct!Next
  <2>4. CASE Clear
    BY <1>2, <2>4, CallersImplement
  <2>5. CASE UNCHANGED vars
    BY <2>5 DEF vars, threadVars, View, TensorOf, Whole
  <2> QED BY <1>2, <2>1, <2>2, <2>3, <2>4, <2>5 DEF Next
<1>3. UInv /\ UsersSeeWholePack /\ UsersSeeWholePack' /\ [Next]_vars
         => [Direct!Next]_<<content, op, View>>
  BY <1>2
<1> QED BY <1>1, <1>3, UseInvariance, PacksAreWhole, PTL DEF Spec
=============================================================================
