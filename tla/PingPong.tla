------------------------------ MODULE PingPong ------------------------------
(***************************************************************************)
(* The accumulator schedules of the grid kernels: two sets of accumulators *)
(* used in turn, so that the outer products of one chunk are issued before *)
(* the results of the chunk before it are drained and added up.  Schedule  *)
(* "gemv" is grid16_gemv_packed, "gemm" is kernel_grid_8x8_pp (the build   *)
(* with IQGRID_PINGPONG) under the slab loop of grid_gemm_packed.  An      *)
(* accumulator set holds the number of the chunk it was filled with; what  *)
(* the products of a chunk are is the subject of the module Grid.          *)
(***************************************************************************)
EXTENDS Integers, Sequences

CONSTANTS
    KC,      \* chunks of a full slab (KC_CH16, KC_CH)
    Depths,  \* depths of the weights, in chunks
    Junk     \* an accumulator before its first use

ASSUME PingPongAssumption ==
    /\ KC \in Nat \ {0}
    /\ Depths \subseteq Nat
    /\ Junk \notin Nat

VARIABLES
    schedule, \* "gemv" or "gemm"; constant
    total,    \* the depth (ncht, kb); constant
    s,        \* the slab
    ch,       \* the chunk of the slab the loop is at
    live,     \* "P" or "Q": the set that holds the next chunk to drain (p, aLive)
    acc,      \* the chunk each set was last filled with
    fin,      \* what was added to the result: <<the set's chunk, the chunk whose
              \* scales and corrections were applied to it>>
    pc        \* "slab", "issue" or "drain"
vars == <<schedule, total, s, ch, live, acc, fin, pc>>

FullSlab == KC  \* mutant: a ragged slab is run like a full one

First  == s * KC                                             \* c0, b0
Length == IF total - First < KC THEN total - First ELSE KC   \* nch

SameSet(set) == set  \* mutant: the next chunk goes into the set about to be drained

Other(set) == IF set = "P" THEN "Q" ELSE "P"

\* xxsetaccz and the outer products of a chunk; the drain with the scales of
\* a chunk.
Fill(set, c)  == acc' = [acc EXCEPT ![set] = First + c]
Drain(set, c) == fin' = Append(fin, <<acc[set], First + c>>)

Init ==
    /\ schedule \in {"gemv", "gemm"} /\ total \in Depths
    /\ s = 0 /\ ch = 0 /\ live = "P" /\ fin = <<>> /\ pc = "slab"
    /\ acc = [set \in {"P", "Q"} |-> Junk]

\* A slab starts with its chunk 0 in the first set.
StartSlab ==
    /\ pc = "slab" /\ First < total
    /\ Fill("P", 0)
    /\ live' = "P"
    /\ ch' = IF schedule = "gemv" THEN 0 ELSE 1
    /\ pc' = "issue"
    /\ UNCHANGED <<schedule, total, s, fin>>

\* Issue the next chunk, if there is one, into the set not waiting to be
\* drained: ch + 1 in the GEMV, whose loop counts the chunk it drains, and ch
\* in the GEMM, whose loop counts the chunk it issues.
Issue ==
    /\ pc = "issue" /\ ch < Length
    /\ IF schedule = "gemm" THEN Fill(Other(live), ch)
       ELSE IF ch + 1 < Length THEN Fill(Other(live), ch + 1)
       ELSE UNCHANGED acc
    /\ pc' = "drain"
    /\ UNCHANGED <<schedule, total, s, ch, live, fin>>

DrainOne ==
    /\ pc = "drain"
    /\ Drain(live, IF schedule = "gemv" THEN ch ELSE ch - 1)
    /\ live' = Other(live)
    /\ ch' = ch + 1
    /\ pc' = "issue"
    /\ UNCHANGED <<schedule, total, s, acc>>

\* The end of the loop: the GEMM drains its last chunk behind it.
EndSlab ==
    /\ pc = "issue" /\ ch = Length
    /\ IF schedule = "gemm" THEN Drain(live, Length - 1) ELSE UNCHANGED fin
    /\ s' = s + 1
    /\ pc' = "slab"
    /\ UNCHANGED <<schedule, total, ch, live, acc>>

Done == pc = "slab" /\ First >= total

Next == StartSlab \/ Issue \/ DrainOne \/ EndSlab \/ (Done /\ UNCHANGED vars)

Spec == Init /\ [][Next]_vars

-----------------------------------------------------------------------------

\* Every set is drained before it is filled again, with the scales of the
\* chunk it was filled with, in the order of the chunks: grid16_gemv_packed
\* and kernel_grid_8x8_pp add up what the plain loop adds up.
DrainedInOrder == \A i \in 1 .. Len(fin) : fin[i] = <<i - 1, i - 1>>

\* No chunk is left in an accumulator or drained twice: at the end of the
\* depth as many chunks were added as it has, the last, ragged slab included.
NothingLeftBehind == Done => Len(fin) = total
=============================================================================
