---------------------------- MODULE PmmanProofs ----------------------------
(***************************************************************************)
(* Proofs about pmman_alloc and pmman_free, for any number of threads and  *)
(* blocks.  LocalsOK says where the locals of a call are at each point of  *)
(* the code, whatever other threads do to the bits; SerialOK relates the   *)
(* bits to the ranges handed out while calls do not overlap.               *)
(***************************************************************************)
EXTENDS Pmman, TLAPS

Active == {"for", "while", "mark"}

LocalOK(t) ==
    /\ pc[t] \in {"for", "while"} => blocks[t] <= PMMAN_BITS
    /\ pc[t] = "while" =>
         /\ start[t] <= i[t]
         /\ i[t] <= PMMAN_BITS
         /\ blocks[t] = 0 \/ i[t] - start[t] < blocks[t]
    /\ pc[t] \in {"mark", "clear"} =>
         /\ blocks[t] > 0
         /\ start[t] + blocks[t] <= PMMAN_BITS
         /\ start[t] <= i[t]
         /\ i[t] <= start[t] + blocks[t]

AskedOK(t) ==
    pc[t] \in Active => asked[t] < AddrMod /\ blocks[t] = to_blocks(asked[t])

LiveOK == \A r \in live : r[1] + r[2] <= PMMAN_BITS

LocalsOK == TypeOK /\ LiveOK /\ \A t \in Threads : LocalOK(t) /\ AskedOK(t)

(* The blocks a call in progress has marked so far, or has yet to clear.   *)
Held(t, b) ==
    \/ pc[t] = "mark" /\ start[t] <= b /\ b < i[t]
    \/ pc[t] = "clear" /\ i[t] <= b /\ b < start[t] + blocks[t]

InLive(b) == \E r \in live : b \in Range(r)

(* At most one call is in progress.                                        *)
Alone == \A t, u \in Threads : t # u => pc[t] = "out" \/ pc[u] = "out"

Disjoint ==
    \A r1, r2 \in live : r1 # r2 => \A b \in Range(r1) : b \notin Range(r2)

Unreserved == \A r \in live : \A b \in Range(r) : b \notin reserved

Accounted ==
    \A b \in Blocks :
      bits[b] <=> (b \in reserved \/ InLive(b) \/ \E t \in Threads : Held(t, b))

(* What the bits say about the range a call works on.                      *)
OwnRange(t) ==
    /\ pc[t] = "while" => \A b \in Blocks : start[t] <= b /\ b < i[t] => ~bits[b]
    /\ pc[t] \in {"mark", "clear"} =>
         \A b \in Blocks :
           start[t] <= b /\ b < start[t] + blocks[t] => b \notin reserved /\ ~InLive(b)

SerialOK ==
    ~raced =>
      /\ Alone
      /\ Disjoint
      /\ Unreserved
      /\ Accounted
      /\ \A t \in Threads : OwnRange(t)

-----------------------------------------------------------------------------
(* Rounding a size up to blocks.                                           *)

(* A quotient and its remainder.                                           *)
LEMMA DivMod ==
    ASSUME NEW m \in Nat, NEW b \in Nat \ {0}
    PROVE  /\ m \div b \in Nat
           /\ m % b \in 0 .. b - 1
           /\ m = b * (m \div b) + (m % b)
BY Z3

(* A size is worth a natural number of blocks.                             *)
LEMMA ToBlocksType == ASSUME NEW n \in Nat PROVE to_blocks(n) \in Nat
<1>. DEFINE m == (n + PMMAN_BLOCK_SIZE - 1) % AddrMod
<1>1. n + PMMAN_BLOCK_SIZE - 1 \in Nat /\ AddrMod \in Nat \ {0}
  BY MapAssumption
<1>2. m \in Nat
  BY <1>1, DivMod
<1>3. m \div PMMAN_BLOCK_SIZE \in Nat
  BY <1>2, DivMod, MapAssumption
<1>. QED BY <1>3 DEF to_blocks

(* If rounding gives any block, it gives enough of them: where it wraps it *)
(* gives none.                                                             *)
LEMMA ToBlocksCover ==
    ASSUME NEW n \in Nat, n < AddrMod, to_blocks(n) > 0
    PROVE  to_blocks(n) * PMMAN_BLOCK_SIZE >= n
<1>. DEFINE a == n + PMMAN_BLOCK_SIZE - 1
            m == a % AddrMod
            q == m \div PMMAN_BLOCK_SIZE
<1>0. a \in Nat /\ AddrMod \in Nat \ {0} /\ PMMAN_BLOCK_SIZE \in Nat \ {0}
  BY MapAssumption
<1>1. m \in Nat
  BY <1>0, DivMod
<1>2. /\ q \in Nat
      /\ m % PMMAN_BLOCK_SIZE \in 0 .. PMMAN_BLOCK_SIZE - 1
      /\ m = PMMAN_BLOCK_SIZE * q + (m % PMMAN_BLOCK_SIZE)
  <2>. HIDE DEF m
  <2>1. \A b \in Nat \ {0} : /\ m \div b \in Nat
                             /\ m % b \in 0 .. b - 1
                             /\ m = b * (m \div b) + (m % b)
    BY <1>1, DivMod, Zenon
  <2>. QED BY <2>1, <1>0, Zenon
<1>3. CASE a < AddrMod
  <2>1. m = a
    BY <1>0, <1>3, Z3
  <2>. QED BY <1>0, <1>2, <2>1, Z3 DEF to_blocks
<1>4. CASE a >= AddrMod
  <2>1. m = a - AddrMod
    BY <1>0, <1>4, MapAssumption, Z3
  <2>2. m < PMMAN_BLOCK_SIZE
    BY <2>1, <1>0, Z3
  <2>3. q = 0
    BY <2>2, <1>0, <1>1, Z3
  <2>. QED BY <2>3, <1>0 DEF to_blocks
<1>. QED BY <1>3, <1>4, <1>0

-----------------------------------------------------------------------------
(* The locals of a call.                                                   *)

(* The outer loop of pmman_alloc.                                          *)
LEMMA AllocForLocal ==
    ASSUME LocalsOK, NEW t \in Threads, AllocFor(t)
    PROVE  LocalsOK'
<1>. USE MapAssumption DEF LocalsOK, TypeOK, Blocks, Pcs, AllocFor, Goto
<1>1. TypeOK'
  <2>1. i[t] \in Nat /\ blocks[t] \in Nat /\ blocks[t] <= PMMAN_BITS
    BY LocalOK(t) DEF LocalOK
  <2>2. CASE i[t] <= PMMAN_BITS - blocks[t]
    <3>1. i[t] \in 0 .. PMMAN_BITS
      BY <2>1, <2>2
    <3>. QED BY <2>2, <3>1
  <2>3. CASE ~(i[t] <= PMMAN_BITS - blocks[t])
    BY <2>3
  <2>. QED BY <2>2, <2>3
<1>2. LiveOK'
  BY <1>1 DEF LiveOK, LocalOK
<1>3. ASSUME NEW u \in Threads PROVE LocalOK(u)'
  BY <1>1, LocalOK(u), LiveOK, SMTT(20) DEF LocalOK, LiveOK
<1>4. ASSUME NEW u \in Threads PROVE AskedOK(u)'
  BY <1>1, AskedOK(u) DEF AskedOK, Active
<1>. QED BY <1>1, <1>2, <1>3, <1>4

(* The inner loop of pmman_alloc.                                          *)
LEMMA AllocWhileLocal ==
    ASSUME LocalsOK, NEW t \in Threads, AllocWhile(t)
    PROVE  LocalsOK'
<1>. USE MapAssumption DEF LocalsOK, TypeOK, Blocks, Pcs, AllocWhile, Goto
<1>0. /\ i[t] \in Nat /\ start[t] \in Nat /\ blocks[t] \in Nat
      /\ start[t] <= i[t] /\ i[t] <= PMMAN_BITS
      /\ blocks[t] = 0 \/ i[t] - start[t] < blocks[t]
      /\ blocks[t] <= PMMAN_BITS
  BY LocalOK(t) DEF LocalOK
<1>. DEFINE clear == i[t] < PMMAN_BITS /\ ~bits[i[t]]
            found == clear /\ i[t] + 1 - start[t] = blocks[t]
<1>a. CASE found
  <2>0. i' = [i EXCEPT ![t] = start[t]] /\ pc' = [pc EXCEPT ![t] = "mark"]
    BY <1>a
  <2>1. TypeOK'
    BY <2>0, <1>0, SMTT(20)
  <2>2. ASSUME NEW u \in Threads PROVE LocalOK(u)'
    BY <1>0, <1>a, <2>0, LocalOK(u) DEF LocalOK
  <2>3. ASSUME NEW u \in Threads PROVE AskedOK(u)'
    BY <2>0, AskedOK(u) DEF AskedOK, Active
  <2>. QED BY <2>1, <2>2, <2>3 DEF LiveOK
<1>b. CASE clear /\ ~found
  <2>a. i[t] + 1 \in 0 .. PMMAN_BITS
    BY <1>0, <1>b
  <2>b. i' = [i EXCEPT ![t] = i[t] + 1] /\ pc' = pc
    BY <1>b
  <2>0. i[t] + 1 \in 0 .. PMMAN_BITS + 1 /\ i' = [i EXCEPT ![t] = i[t] + 1] /\ pc' = pc
    BY <2>a, <2>b
  <2>1. TypeOK'
    BY <2>0
  <2>2. ASSUME NEW u \in Threads PROVE LocalOK(u)'
    <3>1. i[t] + 1 - start[t] # blocks[t]
      BY <1>b
    <3>2. CASE u = t
      BY <3>1, <3>2, <1>0, <2>a, <2>0, LocalOK(u) DEF LocalOK
    <3>3. CASE u # t
      BY <3>3, <2>0, LocalOK(u) DEF LocalOK
    <3>. QED BY <3>2, <3>3
  <2>3. ASSUME NEW u \in Threads PROVE AskedOK(u)'
    BY <2>0, AskedOK(u) DEF AskedOK, Active
  <2>. QED BY <2>1, <2>2, <2>3 DEF LiveOK
<1>c. CASE ~clear
  <2>0. i[t] + 1 \in 0 .. PMMAN_BITS + 1 /\ i' = [i EXCEPT ![t] = i[t] + 1]
        /\ pc' = [pc EXCEPT ![t] = "for"]
    BY <1>0, <1>c
  <2>1. TypeOK'
    BY <2>0
  <2>2. ASSUME NEW u \in Threads PROVE LocalOK(u)'
    BY <1>0, <2>0, LocalOK(u) DEF LocalOK
  <2>3. ASSUME NEW u \in Threads PROVE AskedOK(u)'
    BY <2>0, AskedOK(u) DEF AskedOK, Active
  <2>. QED BY <2>1, <2>2, <2>3 DEF LiveOK
<1>. QED BY <1>a, <1>b, <1>c

(* A bit is set.                                                            *)
LEMMA AllocMarkLocal ==
    ASSUME LocalsOK, NEW t \in Threads, AllocMark(t)
    PROVE  LocalsOK'
<1>. USE MapAssumption DEF LocalsOK, TypeOK, Blocks, Pcs, AllocMark, WriteBit, End
<1>1. TypeOK'
  BY LocalsOK, LocalOK(t) DEF TypeOK, LocalOK, LiveOK
<1>2. LiveOK'
  BY <1>1 DEF LiveOK, LocalOK
<1>3. ASSUME NEW u \in Threads PROVE LocalOK(u)'
  BY <1>1, LocalOK(u), LiveOK, SMTT(20) DEF LocalOK, LiveOK
<1>4. ASSUME NEW u \in Threads PROVE AskedOK(u)'
  BY <1>1, AskedOK(u) DEF AskedOK, Active
<1>. QED BY <1>1, <1>2, <1>3, <1>4

(* A bit is cleared.                                                        *)
LEMMA FreeClearLocal ==
    ASSUME LocalsOK, NEW t \in Threads, FreeClear(t)
    PROVE  LocalsOK'
<1>. USE MapAssumption DEF LocalsOK, TypeOK, Blocks, Pcs, FreeClear, WriteBit, End
<1>1. TypeOK'
  BY LocalsOK, LocalOK(t), SMTT(20) DEF TypeOK, LocalOK, LiveOK
<1>2. LiveOK'
  BY <1>1 DEF LiveOK, LocalOK
<1>3. ASSUME NEW u \in Threads PROVE LocalOK(u)'
  BY <1>1, LocalOK(u), LiveOK, SMTT(20) DEF LocalOK, LiveOK
<1>4. ASSUME NEW u \in Threads PROVE AskedOK(u)'
  BY <1>1, AskedOK(u) DEF AskedOK, Active
<1>. QED BY <1>1, <1>2, <1>3, <1>4

(* The range found is handed out.                                           *)
LEMMA AllocReturnLocal ==
    ASSUME LocalsOK, NEW t \in Threads, AllocReturn(t)
    PROVE  LocalsOK'
<1>. USE MapAssumption DEF LocalsOK, TypeOK, Blocks, Pcs, AllocReturn, Leave, Goto, End
<1>1. TypeOK'
  BY LocalsOK, LocalOK(t) DEF TypeOK, LocalOK, LiveOK
<1>2. LiveOK'
  BY <1>1 DEF LiveOK, LocalOK
<1>3. ASSUME NEW u \in Threads PROVE LocalOK(u)'
  BY <1>1, LocalOK(u), LiveOK DEF LocalOK, LiveOK
<1>4. ASSUME NEW u \in Threads PROVE AskedOK(u)'
  BY <1>1, AskedOK(u) DEF AskedOK, Active
<1>. QED BY <1>1, <1>2, <1>3, <1>4

(* No range was found.                                                      *)
LEMMA ReturnNullLocal ==
    ASSUME LocalsOK, NEW t \in Threads, ReturnNull(t)
    PROVE  LocalsOK'
<1>. USE MapAssumption DEF LocalsOK, TypeOK, Blocks, Pcs, ReturnNull, Leave, Goto
<1>1. TypeOK'
  BY LocalsOK, LocalOK(t) DEF TypeOK, LocalOK, LiveOK
<1>2. LiveOK'
  BY <1>1 DEF LiveOK, LocalOK
<1>3. ASSUME NEW u \in Threads PROVE LocalOK(u)'
  BY <1>1, LocalOK(u), LiveOK DEF LocalOK, LiveOK
<1>4. ASSUME NEW u \in Threads PROVE AskedOK(u)'
  BY <1>1, AskedOK(u) DEF AskedOK, Active
<1>. QED BY <1>1, <1>2, <1>3, <1>4

(* pmman_free returns.                                                      *)
LEMMA FreeReturnLocal ==
    ASSUME LocalsOK, NEW t \in Threads, FreeReturn(t)
    PROVE  LocalsOK'
<1>. USE MapAssumption DEF LocalsOK, TypeOK, Blocks, Pcs, FreeReturn, Leave, Goto
<1>1. TypeOK'
  BY LocalsOK, LocalOK(t) DEF TypeOK, LocalOK, LiveOK
<1>2. LiveOK'
  BY <1>1 DEF LiveOK, LocalOK
<1>3. ASSUME NEW u \in Threads PROVE LocalOK(u)'
  BY <1>1, LocalOK(u), LiveOK DEF LocalOK, LiveOK
<1>4. ASSUME NEW u \in Threads PROVE AskedOK(u)'
  BY <1>1, AskedOK(u) DEF AskedOK, Active
<1>. QED BY <1>1, <1>2, <1>3, <1>4

(* pmman_alloc is called.                                                   *)
LEMMA AllocCallLocal ==
    ASSUME LocalsOK, NEW t \in Threads, NEW size \in Sizes, AllocCall(t, size)
    PROVE  LocalsOK'
<1>. USE MapAssumption DEF LocalsOK, TypeOK, Blocks, Pcs, AllocCall, Enter, Goto
<1>0. size \in Nat /\ size < AddrMod /\ to_blocks(size) \in Nat
  BY ToBlocksType, SizesAssumption
<1>1. TypeOK'
  <2>1. raced' \in BOOLEAN
    BY Zenon
  <2>. QED BY <1>0, <2>1
<1>3. ASSUME NEW u \in Threads PROVE LocalOK(u)'
  BY <1>0, LocalOK(u) DEF LocalOK
<1>4. ASSUME NEW u \in Threads PROVE AskedOK(u)'
  <2>1. asked'[u] = IF u = t THEN size ELSE asked[u]
    OBVIOUS
  <2>2. blocks'[u] = IF u = t THEN to_blocks(size) ELSE blocks[u]
    OBVIOUS
  <2>3. u # t => pc'[u] = pc[u]
    OBVIOUS
  <2>4. CASE u = t
    BY <2>1, <2>2, <2>4, <1>0 DEF AskedOK, Active
  <2>5. CASE u # t
    BY <2>1, <2>2, <2>3, <2>5, AskedOK(u) DEF AskedOK, Active
  <2>. QED BY <2>4, <2>5
<1>. QED BY <1>1, <1>3, <1>4 DEF LiveOK

(* pmman_free is called.                                                    *)
LEMMA FreeCallLocal ==
    ASSUME LocalsOK, NEW t \in Threads, NEW r \in live, FreeCall(t, r)
    PROVE  LocalsOK'
<1>. USE MapAssumption DEF LocalsOK, TypeOK, Blocks, Pcs, FreeCall, Enter, Goto
<1>1. TypeOK'
  BY LocalsOK, LocalOK(t), SMTT(20) DEF TypeOK, LocalOK, LiveOK
<1>2. LiveOK'
  BY <1>1 DEF LiveOK, LocalOK
<1>3. ASSUME NEW u \in Threads PROVE LocalOK(u)'
  BY <1>1, LocalOK(u), LiveOK DEF LocalOK, LiveOK
<1>4. ASSUME NEW u \in Threads PROVE AskedOK(u)'
  BY <1>1, AskedOK(u) DEF AskedOK, Active
<1>. QED BY <1>1, <1>2, <1>3, <1>4

-----------------------------------------------------------------------------
(* The locals are in range to begin with.                                  *)
LEMMA InitLocal == Init => LocalsOK
<1>. SUFFICES ASSUME Init PROVE LocalsOK
  OBVIOUS
<1>1. TypeOK
  <2>1. raced \in BOOLEAN /\ bits \in [Blocks -> BOOLEAN]
    BY DEF Init
  <2>2. live \subseteq (Blocks \X (1 .. PMMAN_BITS)) /\ reserved \subseteq Blocks
    BY DEF Init
  <2>3. pc \in [Threads -> Pcs]
    BY DEF Init, Pcs
  <2>4. 0 \in Nat /\ 0 \in 0 .. PMMAN_BITS /\ 0 \in 0 .. PMMAN_BITS + 1
    BY MapAssumption
  <2>. QED BY <2>1, <2>2, <2>3, <2>4 DEF Init, TypeOK
<1>2. LiveOK /\ \A t \in Threads : LocalOK(t) /\ AskedOK(t)
  BY DEF Init, LiveOK, LocalOK, AskedOK, Active
<1>. QED BY <1>1, <1>2 DEF LocalsOK

(* LocalsOK is inductive.                                                  *)
LEMMA NextLocal == LocalsOK /\ [Next]_vars => LocalsOK'
<1>. SUFFICES ASSUME LocalsOK, [Next]_vars PROVE LocalsOK'
  OBVIOUS
<1>1. CASE Next
  BY <1>1, AllocForLocal, AllocWhileLocal, AllocMarkLocal, AllocReturnLocal,
     ReturnNullLocal, FreeClearLocal, FreeReturnLocal, AllocCallLocal,
     FreeCallLocal DEF Next, Step, Call
<1>2. CASE UNCHANGED vars
  BY <1>2 DEF vars, LocalsOK, TypeOK, LiveOK, LocalOK, AskedOK
<1>. QED BY <1>1, <1>2

-----------------------------------------------------------------------------
(* The bits, while calls do not overlap.                                   *)

(* Every other thread is outside pmman while t is inside.                  *)
LEMMA OthersOut ==
    ASSUME Alone, NEW t \in Threads, pc[t] # "out"
    PROVE  \A u \in Threads \ {t} : pc[u] = "out" /\ \A b \in Blocks : ~Held(u, b)
BY DEF Alone, Held

(* The loops of pmman_alloc only read the bits.                            *)
LEMMA AllocForSerial ==
    ASSUME LocalsOK, SerialOK, NEW t \in Threads, AllocFor(t)
    PROVE  SerialOK'
<1>. SUFFICES ASSUME ~raced'
              PROVE  /\ Alone' /\ Disjoint' /\ Unreserved' /\ Accounted'
                     /\ \A u \in Threads : OwnRange(u)'
  BY DEF SerialOK
<1>. USE DEF AllocFor, Goto, LocalsOK, TypeOK
<1>0. Alone /\ Disjoint /\ Unreserved /\ Accounted /\ \A u \in Threads : OwnRange(u)
  BY DEF SerialOK
<1>1. Alone'
  BY <1>0 DEF Alone
<1>2. Disjoint' /\ Unreserved'
  BY <1>0 DEF Disjoint, Unreserved, Range
<1>3. \A u \in Threads, b \in Blocks : Held(u, b)' <=> Held(u, b)
  BY DEF Held
<1>4. Accounted'
  BY <1>0, <1>3 DEF Accounted, InLive, Range
<1>5. ASSUME NEW u \in Threads PROVE OwnRange(u)'
  <2>1. OwnRange(u)
    BY <1>0
  <2>2. CASE u = t
    BY <2>2, <2>1 DEF OwnRange, InLive, Blocks
  <2>3. CASE u # t
    BY <2>3, <2>1 DEF OwnRange, InLive
  <2>. QED BY <2>2, <2>3
<1>. QED BY <1>1, <1>2, <1>4, <1>5

(* The inner loop passes over clear bits only.                             *)
LEMMA AllocWhileSerial ==
    ASSUME LocalsOK, SerialOK, NEW t \in Threads, AllocWhile(t)
    PROVE  SerialOK'
<1>. SUFFICES ASSUME ~raced'
              PROVE  /\ Alone' /\ Disjoint' /\ Unreserved' /\ Accounted'
                     /\ \A u \in Threads : OwnRange(u)'
  BY DEF SerialOK
<1>. USE DEF AllocWhile, Goto, LocalsOK, TypeOK
<1>0. Alone /\ Disjoint /\ Unreserved /\ Accounted /\ \A u \in Threads : OwnRange(u)
  BY DEF SerialOK
<1>1. Alone'
  BY <1>0 DEF Alone
<1>2. Disjoint' /\ Unreserved'
  BY <1>0 DEF Disjoint, Unreserved, Range
<1>3. \A u \in Threads, b \in Blocks : Held(u, b)' <=> Held(u, b)
  <2>. TAKE u \in Threads, b \in Blocks
  <2>1. CASE u # t
    BY <2>1 DEF Held
  <2>2. CASE u = t
    <3>1. ~Held(u, b)
      BY <2>2 DEF Held
    <3>2. pc'[t] \in {"for", "while"} \/ (i'[t] = start'[t] /\ pc'[t] = "mark")
      <4>0. pc[t] = "while" /\ pc \in [Threads -> Pcs]
        OBVIOUS
      <4>1. CASE ~(i[t] < PMMAN_BITS /\ ~bits[i[t]])
        <5>1. pc' = [pc EXCEPT ![t] = "for"]
          BY <4>1, Zenon
        <5>. QED BY <5>1, <4>0
      <4>2. CASE /\ i[t] < PMMAN_BITS /\ ~bits[i[t]]
                 /\ i[t] + 1 - start[t] = blocks[t]
        BY <4>2
      <4>3. CASE /\ i[t] < PMMAN_BITS /\ ~bits[i[t]]
                 /\ i[t] + 1 - start[t] # blocks[t]
        <5>1. pc' = pc
          BY <4>3, Zenon
        <5>. QED BY <5>1, <4>0
      <4>. QED BY <4>1, <4>2, <4>3
    <3>3. start'[t] \in Nat /\ b \in Nat
      BY DEF Blocks
    <3>4. ~Held(u, b)'
      BY <2>2, <3>2, <3>3 DEF Held
    <3>. QED BY <3>1, <3>4
  <2>. QED BY <2>1, <2>2
<1>4. Accounted'
  BY <1>0, <1>3 DEF Accounted, InLive, Range
<1>5. ASSUME NEW u \in Threads PROVE OwnRange(u)'
  <2>1. OwnRange(u)
    BY <1>0
  <2>2. CASE u # t
    BY <2>2, <2>1 DEF OwnRange, InLive
  <2>3. CASE u = t
    <3>1. \A b \in Blocks : start[t] <= b /\ b < i[t] => ~bits[b]
      BY <2>1, <2>3 DEF OwnRange
    <3>2. CASE ~(i[t] < PMMAN_BITS /\ ~bits[i[t]])
      BY <3>2, <2>3 DEF OwnRange
    <3>3. CASE i[t] < PMMAN_BITS /\ ~bits[i[t]]
      <4>1. \A b \in Blocks : start[t] <= b /\ b < i[t] + 1 => ~bits[b]
        BY <3>1, <3>3 DEF Blocks
      <4>2. CASE i[t] + 1 - start[t] # blocks[t]
        BY <4>1, <4>2, <3>3, <2>3 DEF OwnRange
      <4>3. CASE i[t] + 1 - start[t] = blocks[t]
        <5>1. \A b \in Blocks : start[t] <= b /\ b < start[t] + blocks[t] =>
                b \notin reserved /\ ~InLive(b)
          BY <4>1, <4>3, <1>0 DEF Accounted
        <5>. QED BY <5>1, <4>3, <3>3, <2>3 DEF OwnRange, InLive
      <4>. QED BY <4>2, <4>3
    <3>. QED BY <3>2, <3>3
  <2>. QED BY <2>2, <2>3
<1>. QED BY <1>1, <1>2, <1>4, <1>5

(* The bit set is one of the range found, and accounted for at once.       *)
LEMMA AllocMarkSerial ==
    ASSUME LocalsOK, SerialOK, NEW t \in Threads, AllocMark(t)
    PROVE  SerialOK'
<1>. SUFFICES ASSUME ~raced'
              PROVE  /\ Alone' /\ Disjoint' /\ Unreserved' /\ Accounted'
                     /\ \A u \in Threads : OwnRange(u)'
  BY DEF SerialOK
<1>. USE DEF AllocMark, WriteBit, End, LocalsOK, TypeOK
<1>0. Alone /\ Disjoint /\ Unreserved /\ Accounted /\ \A u \in Threads : OwnRange(u)
  BY DEF SerialOK
<1>1. Alone'
  BY <1>0 DEF Alone
<1>2. Disjoint' /\ Unreserved'
  BY <1>0 DEF Disjoint, Unreserved, Range
<1>3. \A u \in Threads \ {t} : pc[u] = "out"
  BY <1>0, OthersOut
<1>4. i[t] \in Blocks /\ start[t] <= i[t]
  BY LocalOK(t), MapAssumption DEF LocalOK, Blocks
<1>5. \A u \in Threads, b \in Blocks : Held(u, b)' <=> (Held(u, b) \/ (u = t /\ b = i[t]))
  BY <1>3, <1>4 DEF Held, Blocks
<1>6. \A b \in Blocks : bits'[b] = (bits[b] \/ b = i[t])
  BY <1>4
<1>7. Accounted'
  BY <1>0, <1>5, <1>6 DEF Accounted, InLive, Range
<1>8. ASSUME NEW u \in Threads PROVE OwnRange(u)'
  BY <1>0, <1>3 DEF OwnRange, InLive
<1>. QED BY <1>1, <1>2, <1>7, <1>8

(* The bit cleared is one of the range given up.                           *)
LEMMA FreeClearSerial ==
    ASSUME LocalsOK, SerialOK, NEW t \in Threads, FreeClear(t)
    PROVE  SerialOK'
<1>. SUFFICES ASSUME ~raced'
              PROVE  /\ Alone' /\ Disjoint' /\ Unreserved' /\ Accounted'
                     /\ \A u \in Threads : OwnRange(u)'
  BY DEF SerialOK
<1>. USE DEF FreeClear, WriteBit, End, LocalsOK, TypeOK
<1>0. Alone /\ Disjoint /\ Unreserved /\ Accounted /\ \A u \in Threads : OwnRange(u)
  BY DEF SerialOK
<1>1. Alone'
  BY <1>0 DEF Alone
<1>2. Disjoint' /\ Unreserved'
  BY <1>0 DEF Disjoint, Unreserved, Range
<1>3. \A u \in Threads \ {t} : pc[u] = "out"
  BY <1>0, OthersOut
<1>4. i[t] \in Blocks /\ start[t] <= i[t]
  BY LocalOK(t), MapAssumption DEF LocalOK, Blocks
<1>5. \A u \in Threads, b \in Blocks : Held(u, b)' <=> (Held(u, b) /\ b # i[t])
  BY <1>3, <1>4 DEF Held, Blocks
<1>6. \A b \in Blocks : bits'[b] = (bits[b] /\ b # i[t])
  BY <1>4
<1>7. i[t] \notin reserved /\ ~InLive(i[t])
  BY <1>0, <1>4 DEF OwnRange
<1>8. Accounted'
  BY <1>0, <1>5, <1>6, <1>7 DEF Accounted, InLive, Range
<1>9. ASSUME NEW u \in Threads PROVE OwnRange(u)'
  BY <1>0, <1>3 DEF OwnRange, InLive
<1>. QED BY <1>1, <1>2, <1>8, <1>9

(* The range found becomes one that is handed out.                         *)
LEMMA AllocReturnSerial ==
    ASSUME LocalsOK, SerialOK, NEW t \in Threads, AllocReturn(t)
    PROVE  SerialOK'
<1>. SUFFICES ASSUME ~raced'
              PROVE  /\ Alone' /\ Disjoint' /\ Unreserved' /\ Accounted'
                     /\ \A u \in Threads : OwnRange(u)'
  BY DEF SerialOK
<1>. USE DEF AllocReturn, Leave, Goto, End, LocalsOK, TypeOK
<1>0. Alone /\ Disjoint /\ Unreserved /\ Accounted /\ \A u \in Threads : OwnRange(u)
  BY DEF SerialOK
<1>. DEFINE r == <<start[t], blocks[t]>>
<1>1. Alone'
  BY <1>0 DEF Alone
<1>2. \A u \in Threads \ {t} : pc[u] = "out"
  BY <1>0, OthersOut
<1>3. /\ start[t] \in Nat /\ blocks[t] \in Nat /\ i[t] \in Nat
      /\ start[t] + blocks[t] <= PMMAN_BITS
      /\ i[t] = start[t] + blocks[t]
  BY LocalOK(t) DEF LocalOK
<1>4. \A b : b \in Range(r) <=> (b \in Blocks /\ start[t] <= b /\ b < start[t] + blocks[t])
  BY <1>3, MapAssumption DEF Range, Blocks
<1>5. \A b \in Range(r) : b \in Blocks /\ b \notin reserved /\ ~InLive(b)
  BY <1>0, <1>4 DEF OwnRange
<1>6. live' = live \cup {r}
  OBVIOUS
<1>. HIDE DEF r
<1>7. \A b : InLive(b)' <=> (InLive(b) \/ b \in Range(r))
  BY <1>6 DEF InLive, Range
<1>8. Disjoint'
  BY <1>0, <1>5, <1>6 DEF Disjoint, InLive, Range
<1>9. Unreserved'
  BY <1>0, <1>5, <1>6 DEF Unreserved, Range
<1>10. \A b \in Blocks : (\E u \in Threads : Held(u, b)) <=> b \in Range(r)
  BY <1>2, <1>3, <1>4 DEF Held
<1>11. \A b \in Blocks, u \in Threads : ~Held(u, b)'
  BY <1>2 DEF Held
<1>12. Accounted'
  BY <1>0, <1>7, <1>10, <1>11 DEF Accounted
<1>13. ASSUME NEW u \in Threads PROVE OwnRange(u)'
  BY <1>2 DEF OwnRange
<1>. QED BY <1>1, <1>8, <1>9, <1>12, <1>13

(* A call that found nothing changes nothing.                              *)
LEMMA ReturnNullSerial ==
    ASSUME LocalsOK, SerialOK, NEW t \in Threads, ReturnNull(t)
    PROVE  SerialOK'
<1>. SUFFICES ASSUME ~raced'
              PROVE  /\ Alone' /\ Disjoint' /\ Unreserved' /\ Accounted'
                     /\ \A u \in Threads : OwnRange(u)'
  BY DEF SerialOK
<1>. USE DEF ReturnNull, Leave, Goto, LocalsOK, TypeOK
<1>0. Alone /\ Disjoint /\ Unreserved /\ Accounted /\ \A u \in Threads : OwnRange(u)
  BY DEF SerialOK
<1>1. Alone'
  BY <1>0 DEF Alone
<1>2. Disjoint' /\ Unreserved'
  BY <1>0 DEF Disjoint, Unreserved, Range
<1>3. \A u \in Threads, b \in Blocks : Held(u, b)' <=> Held(u, b)
  BY DEF Held
<1>4. Accounted'
  BY <1>0, <1>3 DEF Accounted, InLive, Range
<1>5. ASSUME NEW u \in Threads PROVE OwnRange(u)'
  BY <1>0 DEF OwnRange, InLive
<1>. QED BY <1>1, <1>2, <1>4, <1>5

(* pmman_free returns when nothing is left to clear.                       *)
LEMMA FreeReturnSerial ==
    ASSUME LocalsOK, SerialOK, NEW t \in Threads, FreeReturn(t)
    PROVE  SerialOK'
<1>. SUFFICES ASSUME ~raced'
              PROVE  /\ Alone' /\ Disjoint' /\ Unreserved' /\ Accounted'
                     /\ \A u \in Threads : OwnRange(u)'
  BY DEF SerialOK
<1>. USE DEF FreeReturn, Leave, Goto, End, LocalsOK, TypeOK
<1>0. Alone /\ Disjoint /\ Unreserved /\ Accounted /\ \A u \in Threads : OwnRange(u)
  BY DEF SerialOK
<1>1. Alone'
  BY <1>0 DEF Alone
<1>2. Disjoint' /\ Unreserved'
  BY <1>0 DEF Disjoint, Unreserved, Range
<1>3. \A u \in Threads, b \in Blocks : Held(u, b)' <=> Held(u, b)
  BY DEF Held, Blocks
<1>4. Accounted'
  BY <1>0, <1>3 DEF Accounted, InLive, Range
<1>5. ASSUME NEW u \in Threads PROVE OwnRange(u)'
  BY <1>0 DEF OwnRange, InLive
<1>. QED BY <1>1, <1>2, <1>4, <1>5

(* pmman_alloc is called while no other call is in progress.               *)
LEMMA AllocCallSerial ==
    ASSUME LocalsOK, SerialOK, NEW t \in Threads, NEW size \in Sizes, AllocCall(t, size)
    PROVE  SerialOK'
<1>. USE DEF AllocCall, Enter, Goto, LocalsOK, TypeOK
<1>a. ~raced' => ~raced /\ \A u \in Threads : pc[u] = "out"
  BY Zenon
<1>. SUFFICES ASSUME ~raced'
              PROVE  /\ Alone' /\ Disjoint' /\ Unreserved' /\ Accounted'
                     /\ \A u \in Threads : OwnRange(u)'
  BY DEF SerialOK
<1>b. \A u \in Threads : pc[u] = "out"
  BY <1>a
<1>0. Alone /\ Disjoint /\ Unreserved /\ Accounted /\ \A u \in Threads : OwnRange(u)
  BY <1>a DEF SerialOK
<1>c. pc'[t] \in {"for", "null"} /\ \A u \in Threads \ {t} : pc'[u] = "out"
  BY <1>b
<1>d. UNCHANGED <<bits, live, reserved>>
  OBVIOUS
<1>1. Alone'
  BY <1>c DEF Alone
<1>2. Disjoint' /\ Unreserved'
  BY <1>0, <1>d DEF Disjoint, Unreserved, Range
<1>3. \A u \in Threads, b \in Blocks : ~Held(u, b)' /\ ~Held(u, b)
  BY <1>b, <1>c DEF Held
<1>4. Accounted'
  BY <1>0, <1>3, <1>d DEF Accounted, InLive, Range
<1>5. ASSUME NEW u \in Threads PROVE OwnRange(u)'
  BY <1>c DEF OwnRange
<1>. QED BY <1>1, <1>2, <1>4, <1>5

(* pmman_free is called: the range is no longer handed out but still held. *)
LEMMA FreeCallSerial ==
    ASSUME LocalsOK, SerialOK, NEW t \in Threads, NEW r \in live, FreeCall(t, r)
    PROVE  SerialOK'
<1>. USE DEF FreeCall, Enter, Goto, LocalsOK, TypeOK
<1>a. ~raced' => ~raced /\ \A u \in Threads : pc[u] = "out"
  BY Zenon
<1>. SUFFICES ASSUME ~raced'
              PROVE  /\ Alone' /\ Disjoint' /\ Unreserved' /\ Accounted'
                     /\ \A u \in Threads : OwnRange(u)'
  BY DEF SerialOK
<1>b. \A u \in Threads : pc[u] = "out"
  BY <1>a
<1>0. Alone /\ Disjoint /\ Unreserved /\ Accounted /\ \A u \in Threads : OwnRange(u)
  BY <1>a DEF SerialOK
<1>c. pc'[t] = "clear" /\ \A u \in Threads \ {t} : pc'[u] = "out"
  BY <1>b
<1>d. live' = live \ {r} /\ bits' = bits /\ reserved' = reserved
  OBVIOUS
<1>e. start'[t] = r[1] /\ i'[t] = r[1] /\ blocks'[t] = r[2]
  OBVIOUS
<1>f. r[1] \in Nat /\ r[2] \in Nat /\ r[1] + r[2] <= PMMAN_BITS
  BY DEF LiveOK, Blocks
<1>g. \A b : b \in Range(r) <=> (b \in Blocks /\ r[1] <= b /\ b < r[1] + r[2])
  BY <1>f, MapAssumption DEF Range, Blocks
<1>1. Alone'
  BY <1>c DEF Alone
<1>2. Disjoint' /\ Unreserved'
  BY <1>0, <1>d DEF Disjoint, Unreserved, Range
<1>3. \A b : InLive(b) <=> (InLive(b)' \/ b \in Range(r))
  BY <1>d DEF InLive, Range
<1>4. \A b \in Blocks : (\E u \in Threads : Held(u, b)') <=> b \in Range(r)
  BY <1>c, <1>e, <1>g DEF Held
<1>5. \A b \in Blocks, u \in Threads : ~Held(u, b)
  BY <1>b DEF Held
<1>6. Accounted'
  BY <1>0, <1>3, <1>4, <1>5, <1>d DEF Accounted
<1>7. \A b \in Range(r) : b \notin reserved' /\ ~InLive(b)'
  BY <1>0, <1>d DEF Disjoint, Unreserved, InLive, Range
<1>8. ASSUME NEW u \in Threads PROVE OwnRange(u)'
  BY <1>c, <1>e, <1>g, <1>7 DEF OwnRange
<1>. QED BY <1>1, <1>2, <1>6, <1>8

-----------------------------------------------------------------------------
(* The bits agree with the ranges to begin with.                           *)
LEMMA InitSerial == Init => SerialOK
<1>. SUFFICES ASSUME Init PROVE SerialOK
  OBVIOUS
<1>1. \A t \in Threads : pc[t] = "out"
  BY DEF Init
<1>2. live = {} /\ reserved = {b \in Blocks : bits[b]} /\ bits \in [Blocks -> BOOLEAN]
  BY DEF Init
<1>3. Alone /\ Disjoint /\ Unreserved /\ \A t \in Threads : OwnRange(t)
  BY <1>1, <1>2 DEF Alone, Disjoint, Unreserved, OwnRange
<1>4. \A b \in Blocks : ~InLive(b) /\ \A t \in Threads : ~Held(t, b)
  BY <1>1, <1>2 DEF InLive, Held
<1>5. Accounted
  BY <1>2, <1>4 DEF Accounted
<1>. QED BY <1>3, <1>5 DEF SerialOK

(* SerialOK is inductive.                                                  *)
LEMMA NextSerial == LocalsOK /\ SerialOK /\ [Next]_vars => SerialOK'
<1>. SUFFICES ASSUME LocalsOK, SerialOK, [Next]_vars PROVE SerialOK'
  OBVIOUS
<1>1. CASE Next
  BY <1>1, AllocForSerial, AllocWhileSerial, AllocMarkSerial, AllocReturnSerial,
     ReturnNullSerial, FreeClearSerial, FreeReturnSerial, AllocCallSerial,
     FreeCallSerial DEF Next, Step, Call
<1>2. CASE UNCHANGED vars
  <2>. USE <1>2 DEF vars
  <2>1. \A t \in Threads, b \in Blocks : Held(t, b)' <=> Held(t, b)
    BY DEF Held
  <2>2. \A b : InLive(b)' <=> InLive(b)
    BY DEF InLive, Range
  <2>3. Accounted => Accounted'
    BY <2>1, <2>2 DEF Accounted
  <2>4. /\ Alone => Alone'
        /\ Disjoint => Disjoint'
        /\ Unreserved => Unreserved'
    BY DEF Alone, Disjoint, Unreserved, Range
  <2>5. \A t \in Threads : OwnRange(t) => OwnRange(t)'
    BY <2>2 DEF OwnRange
  <2>. QED BY <2>3, <2>4, <2>5 DEF SerialOK
<1>. QED BY <1>1, <1>2

(* In every reachable state the locals of pmman_alloc and pmman_free are in*)
(* range, and the bits agree with the ranges while calls do not overlap.   *)
THEOREM PmmanInvariant == Spec => [](LocalsOK /\ SerialOK)
<1>1. Init => LocalsOK /\ SerialOK
  BY InitLocal, InitSerial
<1>2. LocalsOK /\ SerialOK /\ [Next]_vars => (LocalsOK /\ SerialOK)'
  BY NextLocal, NextSerial
<1>. QED BY <1>1, <1>2, PTL DEF Spec

(* The bits, the locals and the ranges handed out keep their types: no call*)
(* of pmman_alloc leaves the map with its loops.                           *)
THEOREM TypeCorrect == Spec => []TypeOK
<1>1. LocalsOK => TypeOK
  BY DEF LocalsOK
<1>. QED BY <1>1, PmmanInvariant, PTL

(* No call of pmman_mark_range or pmman_clear_range that pmman_alloc or    *)
(* pmman_free makes writes beyond map->bits, under any interleaving.       *)
THEOREM AlwaysInsideMap == Spec => []InsideMap
<1>1. LocalsOK => InsideMap
  BY DEF LocalsOK, LocalOK, InsideMap, End
<1>. QED BY <1>1, PmmanInvariant, PTL

(* The range that pmman_alloc found is worth the bytes it was asked for.   *)
THEOREM AlwaysSizeCovered == Spec => []SizeCovered
<1>1. LocalsOK => SizeCovered
  <2>. SUFFICES ASSUME LocalsOK, NEW t \in Threads, pc[t] = "mark"
                PROVE  blocks[t] * PMMAN_BLOCK_SIZE >= asked[t]
    BY DEF SizeCovered
  <2>1. asked[t] \in Nat /\ asked[t] < AddrMod /\ blocks[t] = to_blocks(asked[t])
    BY DEF LocalsOK, TypeOK, AskedOK, Active
  <2>2. to_blocks(asked[t]) > 0
    BY <2>1 DEF LocalsOK, LocalOK
  <2>3. to_blocks(asked[t]) * PMMAN_BLOCK_SIZE >= asked[t]
    BY <2>1, <2>2, ToBlocksCover
  <2>. QED BY <2>1, <2>3
<1>. QED BY <1>1, PmmanInvariant, PTL

(* While calls do not overlap, no block is handed out twice, none that was *)
(* reserved is, and none leaks.                                            *)
THEOREM AlwaysSerialAllocation == Spec => []SerialAllocation
<1>1. LocalsOK /\ SerialOK => SerialAllocation
  <2>. SUFFICES ASSUME LocalsOK, Disjoint, Unreserved, Accounted
                PROVE  /\ \A r1, r2 \in live : r1 # r2 => Range(r1) \cap Range(r2) = {}
                       /\ \A r \in live : Range(r) \cap reserved = {}
                       /\ (\A t \in Threads : pc[t] = "out") =>
                            {b \in Blocks : bits[b]} =
                              reserved \cup UNION {Range(r) : r \in live}
    BY DEF SerialOK, SerialAllocation
  <2>1. \A r1, r2 \in live : r1 # r2 => Range(r1) \cap Range(r2) = {}
    BY DEF Disjoint
  <2>2. \A r \in live : Range(r) \cap reserved = {}
    BY DEF Unreserved
  <2>3. ASSUME \A t \in Threads : pc[t] = "out"
        PROVE  {b \in Blocks : bits[b]} = reserved \cup UNION {Range(r) : r \in live}
    <3>1. \A b \in Blocks : bits[b] <=> (b \in reserved \/ InLive(b))
      BY <2>3 DEF Accounted, Held
    <3>2. \A r \in live : Range(r) \subseteq Blocks
      <4>. SUFFICES ASSUME NEW r \in live PROVE Range(r) \subseteq Blocks
        OBVIOUS
      <4>1. r[1] \in Nat /\ r[2] \in Nat /\ r[1] + r[2] <= PMMAN_BITS
        BY DEF LocalsOK, TypeOK, LiveOK, Blocks
      <4>. QED BY <4>1, MapAssumption DEF Range, Blocks
    <3>3. reserved \subseteq Blocks
      BY DEF LocalsOK, TypeOK
    <3>. QED BY <3>1, <3>2, <3>3 DEF InLive
  <2>. QED BY <2>1, <2>2, <2>3
<1>. QED BY <1>1, PmmanInvariant, PTL

-----------------------------------------------------------------------------
(* The search of pmman_alloc, while calls do not overlap.                  *)

NoneBelow(n, top) == \A s \in Nat : s < top => ~Fits(s, n)

(* How far a call has ruled out a run of its size.                         *)
SearchOK(t) ==
    blocks[t] > 0 =>
      /\ pc[t] = "for" => NoneBelow(blocks[t], i[t])
      /\ pc[t] = "while" => NoneBelow(blocks[t], start[t])
      /\ pc[t] = "mark" /\ i[t] = start[t] =>
           Fits(start[t], blocks[t]) /\ NoneBelow(blocks[t], start[t])
      /\ pc[t] = "null" => NoneBelow(blocks[t], PMMAN_BITS)

Search == ~raced => \A t \in Threads : SearchOK(t)

(* A thread that is outside pmman, or in pmman_free, is not searching.     *)
LEMMA NotSearching ==
    ASSUME NEW t, pc[t] \in {"out", "clear"}
    PROVE  SearchOK(t)
BY DEF SearchOK

(* A set bit, or the end of the map, ends every run that begins at or after*)
(* start and has not been completed before it.                             *)
LEMMA RunEnds ==
    ASSUME LocalsOK, NEW n \in Nat, NEW lo \in Nat, NEW j \in Nat,
           lo <= j, j - lo < n, j <= PMMAN_BITS, j = PMMAN_BITS \/ bits[j],
           NoneBelow(n, lo)
    PROVE  NoneBelow(n, j + 1)
<1>. SUFFICES ASSUME NEW s \in Nat, s < j + 1, lo <= s, Fits(s, n) PROVE FALSE
  BY DEF NoneBelow
<1>1. s + n <= PMMAN_BITS /\ \A b \in s .. s + n - 1 : ~bits[b]
  BY DEF Fits
<1>2. j < s + n /\ PMMAN_BITS \in Nat
  BY MapAssumption
<1>3. j # PMMAN_BITS
  BY <1>1, <1>2
<1>4. j \in s .. s + n - 1
  BY <1>2
<1>. QED BY <1>1, <1>3, <1>4

(* Where the locals of the other threads do not matter: they are outside.  *)
LEMMA OthersIdle ==
    ASSUME LocalsOK, SerialOK, NEW t \in Threads, pc[t] # "out", ~raced
    PROVE  \A u \in Threads \ {t} : pc[u] = "out"
BY OthersOut DEF SerialOK

(* The outer loop: what is ruled out carries over, and past the last       *)
(* position a run could begin at none is left.                             *)
LEMMA AllocForSearch ==
    ASSUME LocalsOK, SerialOK, Search, NEW t \in Threads, AllocFor(t)
    PROVE  Search'
<1>. SUFFICES ASSUME ~raced', NEW u \in Threads PROVE SearchOK(u)'
  BY DEF Search
<1>. USE DEF AllocFor, Goto, LocalsOK, TypeOK
<1>1. ~raced /\ SearchOK(t) /\ bits' = bits /\ blocks' = blocks /\ i' = i
  BY DEF Search
<1>2. CASE u # t
  <2>1. pc'[u] = "out"
    BY <1>1, <1>2, OthersIdle
  <2>. QED BY <2>1 DEF SearchOK
<1>3. CASE u = t
  <2>0. \A n, top : NoneBelow(n, top)' <=> NoneBelow(n, top)
    BY <1>1 DEF NoneBelow, Fits
  <2>1. CASE i[t] <= PMMAN_BITS - blocks[t]
    <3>1. pc'[t] = "while" /\ start'[t] = i[t]
      BY <2>1
    <3>. QED BY <1>1, <1>3, <2>0, <3>1 DEF SearchOK
  <2>2. CASE ~(i[t] <= PMMAN_BITS - blocks[t])
    <3>1. pc'[t] = "null"
      BY <2>2
    <3>2. NoneBelow(blocks[t], i[t]) => NoneBelow(blocks[t], PMMAN_BITS)
      BY <2>2, MapAssumption DEF NoneBelow, Fits
    <3>. QED BY <1>1, <1>3, <2>0, <3>1, <3>2 DEF SearchOK
  <2>. QED BY <2>1, <2>2
<1>. QED BY <1>2, <1>3

(* The inner loop: a clear bit may complete the first run; anything else   *)
(* rules out every position up to it.                                      *)
LEMMA AllocWhileSearch ==
    ASSUME LocalsOK, SerialOK, Search, NEW t \in Threads, AllocWhile(t)
    PROVE  Search'
<1>. SUFFICES ASSUME ~raced', NEW u \in Threads PROVE SearchOK(u)'
  BY DEF Search
<1>. USE DEF AllocWhile, Goto
<1>1. /\ ~raced /\ SearchOK(t) /\ OwnRange(t) /\ pc[t] = "while"
      /\ bits' = bits /\ blocks' = blocks /\ start' = start
  BY DEF Search, SerialOK
<1>t. /\ pc \in [Threads -> Pcs] /\ i \in [Threads -> 0 .. PMMAN_BITS + 1]
      /\ PMMAN_BITS \in Nat
  BY MapAssumption DEF LocalsOK, TypeOK
<1>2. CASE u # t
  <2>1. pc'[u] = "out"
    BY <1>1, <1>2, <1>t, OthersIdle
  <2>. QED BY <2>1 DEF SearchOK
<1>3. CASE u = t
  <2>. SUFFICES ASSUME blocks[t] > 0 PROVE SearchOK(t)'
    BY <1>1, <1>3 DEF SearchOK
  <2>0. \A n, top : NoneBelow(n, top)' <=> NoneBelow(n, top)
    BY <1>1 DEF NoneBelow, Fits
  <2>1. /\ i[t] \in Nat /\ start[t] \in Nat /\ blocks[t] \in Nat
        /\ start[t] <= i[t] /\ i[t] <= PMMAN_BITS /\ i[t] - start[t] < blocks[t]
    BY <1>1, LocalOK(t) DEF LocalsOK, TypeOK, LocalOK
  <2>2. NoneBelow(blocks[t], start[t])
    BY <1>1 DEF SearchOK
  <2>3. CASE i[t] < PMMAN_BITS /\ ~bits[i[t]] /\ i[t] + 1 - start[t] = blocks[t]
    <3>1. pc'[t] = "mark"
      BY <2>3, <1>t
    <3>2. \A b \in Blocks : start[t] <= b /\ b < i[t] => ~bits[b]
      BY <1>1 DEF OwnRange
    <3>3. Fits(start[t], blocks[t])
      <4>1. start[t] + blocks[t] = i[t] + 1 /\ ~bits[i[t]]
        BY <2>1, <2>3
      <4>2. ASSUME NEW b \in start[t] .. i[t] PROVE ~bits[b]
        <5>1. b \in Blocks /\ start[t] <= b /\ (b < i[t] \/ b = i[t])
          BY <2>1, <2>3, <1>t DEF Blocks
        <5>. QED BY <5>1, <3>2, <4>1
      <4>3. start[t] + blocks[t] - 1 = i[t] /\ start[t] + blocks[t] <= PMMAN_BITS
        BY <2>1, <2>3, <1>t
      <4>. QED BY <4>2, <4>3 DEF Fits
    <3>4. Fits(start[t], blocks[t])'
      BY <1>1, <3>3 DEF Fits
    <3>. QED BY <1>1, <2>0, <2>2, <3>1, <3>4 DEF SearchOK
  <2>4. CASE i[t] < PMMAN_BITS /\ ~bits[i[t]] /\ i[t] + 1 - start[t] # blocks[t]
    <3>1. pc' = pc
      BY <2>4
    <3>. QED BY <1>1, <2>0, <2>2, <3>1 DEF SearchOK
  <2>5. CASE ~(i[t] < PMMAN_BITS /\ ~bits[i[t]])
    <3>1. pc'[t] = "for" /\ i'[t] = i[t] + 1
      BY <2>5, <1>t
    <3>2. i[t] = PMMAN_BITS \/ bits[i[t]]
      BY <2>1, <2>5, <1>t
    <3>3. NoneBelow(blocks[t], i[t] + 1)
      BY <2>1, <2>2, <3>2, RunEnds
    <3>. QED BY <1>1, <2>0, <3>1, <3>3 DEF SearchOK
  <2>. QED BY <2>3, <2>4, <2>5
<1>. QED BY <1>2, <1>3

(* Once the first bit is set the search is over; clearing is no search.    *)
LEMMA WriteSearch ==
    ASSUME LocalsOK, SerialOK, Search, NEW t \in Threads,
           AllocMark(t) \/ FreeClear(t)
    PROVE  Search'
<1>. SUFFICES ASSUME ~raced', NEW u \in Threads PROVE SearchOK(u)'
  BY DEF Search
<1>. USE DEF AllocMark, FreeClear, WriteBit
<1>1. ~raced /\ pc[t] \in {"mark", "clear"} /\ pc' = pc /\ start' = start
  OBVIOUS
<1>2. i'[t] # start'[t]
  BY <1>1, LocalOK(t) DEF LocalsOK, TypeOK, LocalOK
<1>3. CASE u # t
  <2>1. pc'[u] = "out"
    BY <1>1, <1>3, OthersIdle
  <2>. QED BY <2>1 DEF SearchOK
<1>4. CASE u = t
  BY <1>1, <1>2, <1>4 DEF SearchOK
<1>. QED BY <1>3, <1>4

(* A call that returns is no longer searching.                             *)
LEMMA ReturnSearch ==
    ASSUME LocalsOK, SerialOK, Search, NEW t \in Threads,
           AllocReturn(t) \/ ReturnNull(t) \/ FreeReturn(t)
    PROVE  Search'
<1>. SUFFICES ASSUME ~raced', NEW u \in Threads PROVE SearchOK(u)'
  BY DEF Search
<1>1. ~raced /\ pc[t] # "out" /\ pc' = [pc EXCEPT ![t] = "out"] /\ pc \in [Threads -> Pcs]
  BY DEF AllocReturn, ReturnNull, FreeReturn, Leave, Goto, LocalsOK, TypeOK
<1>2. pc'[u] = "out"
  BY <1>1, OthersIdle
<1>. QED BY <1>2 DEF SearchOK

(* A call begins with nothing ruled out, or with more blocks than there are*)
LEMMA AllocCallSearch ==
    ASSUME LocalsOK, NEW t \in Threads, NEW size \in Sizes, AllocCall(t, size)
    PROVE  Search'
<1>. SUFFICES ASSUME ~raced', NEW u \in Threads PROVE SearchOK(u)'
  BY DEF Search
<1>. USE DEF AllocCall, Enter, Goto, LocalsOK, TypeOK
<1>1. \A v \in Threads \ {t} : pc[v] = "out"
  BY Zenon
<1>2. size \in Nat /\ to_blocks(size) \in Nat /\ PMMAN_BITS \in Nat
  BY ToBlocksType, SizesAssumption, MapAssumption
<1>3. blocks'[t] = to_blocks(size) /\ i'[t] = 0
  OBVIOUS
<1>4. CASE u # t
  <2>1. pc'[u] = "out"
    BY <1>1, <1>4
  <2>. QED BY <2>1 DEF SearchOK
<1>5. CASE u = t /\ to_blocks(size) > PMMAN_BITS
  <2>1. pc'[t] = "null"
    BY <1>5
  <2>2. NoneBelow(to_blocks(size), PMMAN_BITS)'
    BY <1>2, <1>5 DEF NoneBelow, Fits
  <2>. QED BY <1>3, <1>5, <2>1, <2>2 DEF SearchOK, NoneBelow
<1>6. CASE u = t /\ ~(to_blocks(size) > PMMAN_BITS)
  <2>1. pc'[t] = "for"
    BY <1>6
  <2>. QED BY <1>3, <1>6, <2>1 DEF SearchOK, NoneBelow
<1>. QED BY <1>4, <1>5, <1>6

(* pmman_free searches nothing.                                            *)
LEMMA FreeCallSearch ==
    ASSUME LocalsOK, NEW t \in Threads, NEW r \in live, FreeCall(t, r)
    PROVE  Search'
<1>. SUFFICES ASSUME ~raced', NEW u \in Threads PROVE SearchOK(u)'
  BY DEF Search
<1>. USE DEF FreeCall, Enter, Goto, LocalsOK, TypeOK
<1>1. \A v \in Threads \ {t} : pc[v] = "out"
  BY Zenon
<1>2. pc'[u] \in {"out", "clear"}
  BY <1>1
<1>. QED BY <1>2 DEF SearchOK

(* Search is inductive relative to LocalsOK and SerialOK.                  *)
LEMMA NextSearch == LocalsOK /\ SerialOK /\ Search /\ [Next]_vars => Search'
<1>. SUFFICES ASSUME LocalsOK, SerialOK, Search, [Next]_vars PROVE Search'
  OBVIOUS
<1>1. CASE Next
  BY <1>1, AllocForSearch, AllocWhileSearch, WriteSearch, ReturnSearch,
     AllocCallSearch, FreeCallSearch DEF Next, Step, Call
<1>2. CASE UNCHANGED vars
  BY <1>2 DEF vars, Search, SearchOK, NoneBelow, Fits
<1>. QED BY <1>1, <1>2

(* While calls do not overlap, pmman_alloc hands out the lowest run of     *)
(* clear blocks that is long enough, and null only when there is no such   *)
(* run, whatever the sequence of earlier allocations and releases.         *)
THEOREM AlwaysFirstFit == Spec => []FirstFit
<1>1. Init => Search
  BY DEF Init, Search, SearchOK
<1>2. LocalsOK /\ SerialOK /\ Search => FirstFit
  <2>. SUFFICES ASSUME LocalsOK, Search, ~raced, NEW t \in Threads
                PROVE  /\ pc[t] = "mark" /\ i[t] = start[t] =>
                            /\ Fits(start[t], blocks[t])
                            /\ \A s \in 0 .. start[t] - 1 : ~Fits(s, blocks[t])
                       /\ pc[t] = "null" /\ blocks[t] > 0 =>
                            \A s \in Blocks : ~Fits(s, blocks[t])
    BY DEF FirstFit
  <2>1. pc[t] = "mark" => blocks[t] > 0
    BY DEF LocalsOK, LocalOK
  <2>2. SearchOK(t) /\ start[t] \in Nat /\ PMMAN_BITS \in Nat
    BY MapAssumption DEF Search, LocalsOK, TypeOK
  <2>3. \A n : NoneBelow(n, start[t]) => \A s \in 0 .. start[t] - 1 : ~Fits(s, n)
    BY <2>2 DEF NoneBelow
  <2>4. \A n : NoneBelow(n, PMMAN_BITS) => \A s \in Blocks : ~Fits(s, n)
    BY <2>2 DEF NoneBelow, Blocks
  <2>. QED BY <2>1, <2>2, <2>3, <2>4 DEF SearchOK
<1>. QED BY <1>1, <1>2, NextSearch, PmmanInvariant, PTL DEF Spec

=============================================================================
