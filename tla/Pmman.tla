------------------------------- MODULE Pmman -------------------------------
(***************************************************************************)
(* Allocation and release of physical memory (pmman_alloc, pmman_free) by  *)
(* threads the scheduler may switch between at any point.  The code takes  *)
(* no lock: every look at a bit and every write of one is a step.          *)
(*                                                                         *)
(* reserved, live, asked and raced belong to the model only: the blocks    *)
(* that were in use from the start, the ranges handed out and not given    *)
(* back, the bytes a call was made for, and whether a call ever began while*)
(* another was in progress.                                                *)
(***************************************************************************)
EXTENDS PmmanMap, FiniteSets

CONSTANTS
    Threads,   \* the threads that allocate
    Sizes,     \* bytes asked for
    MaxLive    \* bound: no call begins with MaxLive ranges handed out

ASSUME SizesAssumption == Sizes \subseteq 0 .. AddrMod - 1
ASSUME MaxLiveAssumption == MaxLive \in Nat

VARIABLES
    bits,      \* map->bits
    pc,        \* per thread: where it is in the code
    blocks, start, i,  \* per thread: the locals of pmman_alloc, pmman_mark_range
                       \* and pmman_clear_range
    asked, live, raced, reserved

vars == <<bits, pc, blocks, start, i, asked, live, raced, reserved>>

Pcs == {"out", "for", "while", "mark", "null", "clear"}

Range(r) == r[1] .. r[1] + r[2] - 1

(* A map as pmman_initialize leaves it: any set of blocks may be usable.   *)
Init ==
    /\ bits \in [Blocks -> BOOLEAN]
    /\ pc = [t \in Threads |-> "out"]
    /\ blocks = [t \in Threads |-> 0]
    /\ start = [t \in Threads |-> 0]
    /\ i = [t \in Threads |-> 0]
    /\ asked = [t \in Threads |-> 0]
    /\ live = {}
    /\ raced = FALSE
    /\ reserved = {b \in Blocks : bits[b]}

Goto(t, l) == pc' = [pc EXCEPT ![t] = l]

(* A call begins; remember whether another one is in progress.             *)
Enter(t) ==
    /\ pc[t] = "out"
    /\ raced' = (raced \/ \E u \in Threads \ {t} : pc[u] # "out")

(* A call returns and its locals are gone.                                 *)
Leave(t) ==
    /\ Goto(t, "out")
    /\ blocks' = [blocks EXCEPT ![t] = 0]
    /\ start' = [start EXCEPT ![t] = 0]
    /\ i' = [i EXCEPT ![t] = 0]
    /\ asked' = [asked EXCEPT ![t] = 0]

(* pmman_alloc up to its first loop.                                       *)
AllocCall(t, size) ==
    /\ Enter(t)
    /\ Cardinality(live) < MaxLive
    /\ asked' = [asked EXCEPT ![t] = size]
    /\ blocks' = [blocks EXCEPT ![t] = to_blocks(size)]
    /\ start' = [start EXCEPT ![t] = 0]
    /\ i' = [i EXCEPT ![t] = 0]
    /\ Goto(t, IF to_blocks(size) > PMMAN_BITS THEN "null" ELSE "for")
    /\ UNCHANGED <<bits, live, reserved>>

(* Mutant: the outer loop ends one position too early. *)
AllocForShort(t) ==
    /\ pc[t] = "for"
    /\ IF i[t] < PMMAN_BITS - blocks[t]
       THEN /\ start' = [start EXCEPT ![t] = i[t]]
            /\ Goto(t, "while")
       ELSE /\ Goto(t, "null")
            /\ UNCHANGED start
    /\ UNCHANGED <<bits, blocks, i, asked, live, raced, reserved>>

(* The test of the outer loop, and start = i.                              *)
AllocFor(t) ==
    /\ pc[t] = "for"
    /\ IF i[t] <= PMMAN_BITS - blocks[t]
       THEN /\ start' = [start EXCEPT ![t] = i[t]]
            /\ Goto(t, "while")
       ELSE /\ Goto(t, "null")
            /\ UNCHANGED start
    /\ UNCHANGED <<bits, blocks, i, asked, live, raced, reserved>>

(* Mutant: the inner loop does not step over the set bit. *)
AllocWhileStuck(t) ==
    /\ pc[t] = "while"
    /\ IF i[t] < PMMAN_BITS /\ ~bits[i[t]]
       THEN IF i[t] + 1 - start[t] = blocks[t]
            THEN i' = [i EXCEPT ![t] = start[t]] /\ Goto(t, "mark")
            ELSE i' = [i EXCEPT ![t] = @ + 1] /\ UNCHANGED pc
       ELSE UNCHANGED i /\ Goto(t, "for")
    /\ UNCHANGED <<bits, blocks, start, asked, live, raced, reserved>>

(* One turn of the inner loop: a clear bit that completes the run (and     *)
(* pmman_mark_range starts over at start), a clear bit that does not, or   *)
(* the end of the run, after which the outer loop steps over i.            *)
AllocWhile(t) ==
    /\ pc[t] = "while"
    /\ IF i[t] < PMMAN_BITS /\ ~bits[i[t]]
       THEN IF i[t] + 1 - start[t] = blocks[t]
            THEN i' = [i EXCEPT ![t] = start[t]] /\ Goto(t, "mark")
            ELSE i' = [i EXCEPT ![t] = @ + 1] /\ UNCHANGED pc
       ELSE i' = [i EXCEPT ![t] = @ + 1] /\ Goto(t, "for")
    /\ UNCHANGED <<bits, blocks, start, asked, live, raced, reserved>>

(* Mutants: the last block of a range is left out; one too many is written.*)
EndShort(t) == start[t] + blocks[t] - 1
EndClosed(t) == start[t] + blocks[t] + 1

End(t) == start[t] + blocks[t]

(* One turn of the loop of pmman_mark_range or pmman_clear_range.          *)
WriteBit(t, b) ==
    /\ i[t] < End(t)
    /\ bits' = [bits EXCEPT ![i[t]] = b]
    /\ i' = [i EXCEPT ![t] = @ + 1]
    /\ UNCHANGED <<pc, blocks, start, asked, live, raced, reserved>>

AllocMark(t) ==
    /\ pc[t] = "mark"
    /\ WriteBit(t, TRUE)

AllocReturn(t) ==
    /\ pc[t] = "mark"
    /\ i[t] >= End(t)
    /\ live' = live \cup {<<start[t], blocks[t]>>}
    /\ Leave(t)
    /\ UNCHANGED <<bits, raced, reserved>>

ReturnNull(t) ==
    /\ pc[t] = "null"
    /\ Leave(t)
    /\ UNCHANGED <<bits, live, raced, reserved>>

(* pmman_free of a range that was handed out, with the size it was asked   *)
(* for.  The owner has given it up before the first bit is cleared.        *)
FreeCall(t, r) ==
    /\ Enter(t)
    /\ live' = live \ {r}
    /\ start' = [start EXCEPT ![t] = r[1]]
    /\ blocks' = [blocks EXCEPT ![t] = r[2]]
    /\ i' = [i EXCEPT ![t] = r[1]]
    /\ Goto(t, "clear")
    /\ UNCHANGED <<bits, asked, reserved>>

FreeClear(t) ==
    /\ pc[t] = "clear"
    /\ WriteBit(t, FALSE)

FreeReturn(t) ==
    /\ pc[t] = "clear"
    /\ i[t] >= End(t)
    /\ Leave(t)
    /\ UNCHANGED <<bits, live, raced, reserved>>

Step(t) ==
    \/ AllocFor(t) \/ AllocWhile(t) \/ AllocMark(t) \/ AllocReturn(t)
    \/ ReturnNull(t)
    \/ FreeClear(t) \/ FreeReturn(t)

Call(t) ==
    \/ \E size \in Sizes : AllocCall(t, size)
    \/ \E r \in live : FreeCall(t, r)

Next == \E t \in Threads : Step(t) \/ Call(t)

Spec == Init /\ [][Next]_vars

(* A thread that has entered pmman is scheduled again until it returns.    *)
FairSpec == Spec /\ \A t \in Threads : WF_vars(Step(t))

-----------------------------------------------------------------------------
(* Properties.                                                             *)

(* The types, and that the locals of a call stay within the map.           *)
TypeOK ==
    /\ bits \in [Blocks -> BOOLEAN]
    /\ pc \in [Threads -> Pcs]
    /\ blocks \in [Threads -> Nat]
    /\ start \in [Threads -> 0 .. PMMAN_BITS]
    /\ i \in [Threads -> 0 .. PMMAN_BITS + 1]
    /\ asked \in [Threads -> Nat]
    /\ live \subseteq (Blocks \X (1 .. PMMAN_BITS))
    /\ raced \in BOOLEAN
    /\ reserved \subseteq Blocks

Fits(s, n) == s + n <= PMMAN_BITS /\ \A b \in s .. s + n - 1 : ~bits[b]

(* Whatever the interleaving, the range a call is about to mark or clear   *)
(* lies inside the map: no word beyond map->bits is written.               *)
InsideMap ==
    \A t \in Threads : pc[t] \in {"mark", "clear"} => End(t) <= PMMAN_BITS

(* The blocks found are worth the bytes asked for, also where rounding the *)
(* size up wraps: pmman_alloc returns null then, never a range too small.  *)
SizeCovered ==
    \A t \in Threads :
      pc[t] = "mark" => blocks[t] * PMMAN_BLOCK_SIZE >= asked[t]

(* While calls do not overlap in time, the ranges handed out are disjoint, *)
(* none holds a reserved block, and between calls the marked blocks are    *)
(* exactly those: nothing is handed out twice and nothing leaks.           *)
SerialAllocation ==
    ~raced =>
      /\ \A r1, r2 \in live : r1 # r2 => Range(r1) \cap Range(r2) = {}
      /\ \A r \in live : Range(r) \cap reserved = {}
      /\ (\A t \in Threads : pc[t] = "out") =>
           {b \in Blocks : bits[b]} = reserved \cup UNION {Range(r) : r \in live}

(* While calls do not overlap, pmman_alloc finds the lowest run of clear   *)
(* blocks there is, and returns null only when there is none.              *)
FirstFit ==
    ~raced =>
      \A t \in Threads :
        /\ pc[t] = "mark" /\ i[t] = start[t] =>
             Fits(start[t], blocks[t]) /\ \A s \in 0 .. start[t] - 1 : ~Fits(s, blocks[t])
        /\ pc[t] = "null" /\ blocks[t] > 0 =>
             \A s \in Blocks : ~Fits(s, blocks[t])

(* Every call returns, even while other threads mark and clear bits.       *)
CallsReturn == \A t \in Threads : pc[t] # "out" ~> pc[t] = "out"
=============================================================================
