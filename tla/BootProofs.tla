----------------------------- MODULE BootProofs -----------------------------
(***************************************************************************)
(* Proofs about the start of the kernel, for every memory map and every    *)
(* image: the bitmap that pmman_initialize and kernel_enter leave to       *)
(* pmman_alloc, and that the loader's kernel is kept by it.                *)
(*                                                                         *)
(* The invariant of the bitmap follows the phases of the code: while       *)
(* entries are sorted the prefix before pass is final and the set of       *)
(* entries is the firmware's (SortOK); while they are cleared a bit is     *)
(* clear exactly if one of the entries looked at covers its block          *)
(* (ClearOK); then what has been marked stays marked (MarkOK).             *)
(***************************************************************************)
EXTENDS Boot, TLAPS, WellFoundedInduction

Pcs == {"e820", "sort", "clear", "kernel", "low", "memmap", "done"}

TypeOK ==
    /\ e820 \in Maps
    /\ kernel \in Kernels
    /\ bits \in [Blocks -> BOOLEAN]
    /\ pass \in Nat \ {0}
    /\ i \in Nat \ {0}
    /\ pc \in Pcs

(* What stage 2 hands over.                                                *)
MemmapOK ==
    pc # "e820" =>
      /\ memmap \in Seq(Entries)
      /\ Len(memmap) = Len(e820)
      /\ memmap_count = Len(e820) - 1

(* No entry from position p on has a smaller base than one before p.       *)
SortedUpTo(p) ==
    \A j, k \in 1 .. memmap_count : j < p /\ j < k => memmap[j].base <= memmap[k].base

SameEntries == Counted = {e820[k] : k \in 1 .. memmap_count}

SortOK ==
    /\ pc = "e820" => pass = 1
    /\ pc = "sort" => pass <= memmap_count /\ SortedUpTo(pass)
    /\ pc \notin {"e820", "sort"} => SortedUpTo(memmap_count)
    /\ pc # "e820" => SameEntries

(* Entry j makes block b available.                                        *)
ClearedBy(j, b) ==
    IsCleared(memmap[j]) /\ b \in BlockRange(memmap[j].base, Clipped(memmap[j]))

ClearOK ==
    /\ pc \in {"e820", "sort"} => i = 1
    /\ pc = "sort" => \A b \in Blocks : bits[b]
    /\ pc = "clear" =>
         /\ i <= memmap_count + 1
         /\ \A b \in Blocks : bits[b] <=> ~\E j \in 1 .. i - 1 : ClearedBy(j, b)
    /\ pc = "kernel" =>
         \A b \in Blocks : bits[b] <=> ~\E j \in 1 .. memmap_count : ClearedBy(j, b)

Marked(addr, len) == \A b \in Blocks : b \in BlockRange(addr, len) => bits[b]

MarkOK ==
    /\ pc \in {"low", "memmap", "done"} => Marked(kernel.start, kernel.end - kernel.start)
    /\ pc \in {"memmap", "done"} => Marked(0, LowEnd)
    /\ pc = "done" => Marked(MemmapStart, EntrySize * memmap_count)

MapInv == TypeOK /\ MemmapOK /\ SortOK /\ ClearOK /\ MarkOK

-----------------------------------------------------------------------------
(* Arithmetic of blocks and bytes.                                         *)

(* A set of naturals that is not empty has a least element.                *)
LEMMA NatMin ==
    ASSUME NEW T \in SUBSET Nat, T # {}
    PROVE  \E x \in T : \A y \in T : x <= y
<1>. DEFINE R == OpToRel(<, Nat)
<1>1. IsWellFoundedOn(R, Nat)
  BY NatLessThanWellFounded
<1>2. \A x, y \in Nat : <<x, y>> \in R <=> x < y
  BY DEF OpToRel
<1>. HIDE DEF R
<1>3. PICK x \in T : \A y \in T : ~(<<y, x>> \in R)
  BY <1>1, WFMin
<1>4. ASSUME NEW y \in T PROVE x <= y
  <2>1. x \in Nat /\ y \in Nat
    OBVIOUS
  <2>2. ~(<<y, x>> \in R)
    BY <1>3
  <2>3. ~(y < x)
    BY <1>2, <2>1, <2>2
  <2>. QED BY <2>1, <2>3
<1>. QED BY <1>4

(* A quotient and its remainder.                                           *)
LEMMA DivMod ==
    ASSUME NEW m \in Nat, NEW b \in Nat \ {0}
    PROVE  /\ m \div b \in Nat
           /\ m % b \in 0 .. b - 1
           /\ m = b * (m \div b) + (m % b)
BY Z3

(* Multiples of a block size are ordered as their factors are.             *)
LEMMA MulOrder ==
    ASSUME NEW x \in Int, NEW y \in Int, NEW b \in Nat \ {0}, x * b < y * b
    PROVE  x < y
<1>. SUFFICES ASSUME y <= x PROVE FALSE
  OBVIOUS
<1>1. PICK d \in Nat : x = y + d
  BY Z3
<1>2. x * b = y * b + d * b
  BY <1>1, Z3
<1>3. d * b >= 0
  BY <1>1, Z3
<1>. QED BY <1>2, <1>3, Z3

(* The size of the map and of a block as plain numbers.                    *)
LEMMA Sizes ==
    /\ PMMAN_BITS \in Nat \ {0} /\ PMMAN_BLOCK_SIZE \in Nat \ {0} /\ AddrMod \in Nat \ {0}
    /\ PMMAN_SIZE \in Nat /\ PMMAN_SIZE = PMMAN_BITS * PMMAN_BLOCK_SIZE
    /\ PMMAN_BLOCK_SIZE <= PMMAN_SIZE
    /\ PMMAN_SIZE + PMMAN_BLOCK_SIZE <= AddrMod
<1>1. PMMAN_BITS \in Nat \ {0} /\ PMMAN_BLOCK_SIZE \in Nat \ {0}
  BY MapAssumption
<1>2. /\ PMMAN_BITS * PMMAN_BLOCK_SIZE \in Nat
      /\ PMMAN_BLOCK_SIZE <= PMMAN_BITS * PMMAN_BLOCK_SIZE
  <2>. DEFINE n == PMMAN_BITS - 1
  <2>1. n \in Nat /\ PMMAN_BITS = n + 1
    BY <1>1
  <2>. HIDE DEF n
  <2>2. (n + 1) * PMMAN_BLOCK_SIZE = n * PMMAN_BLOCK_SIZE + PMMAN_BLOCK_SIZE
    BY <1>1, <2>1, Z3
  <2>3. n * PMMAN_BLOCK_SIZE \in Nat
    BY <1>1, <2>1, Z3
  <2>. QED BY <1>1, <2>1, <2>2, <2>3
<1>3. PMMAN_SIZE + PMMAN_BLOCK_SIZE <= AddrMod /\ AddrMod \in Nat
  BY LayoutAssumption, MapAssumption
<1>. QED BY <1>1, <1>2, <1>3 DEF PMMAN_SIZE

(* The block an address lies in, and how many blocks a length is rounded   *)
(* up to where the rounding does not wrap.                                 *)
LEMMA Rounding ==
    ASSUME NEW addr \in Nat, NEW len \in Nat, len <= PMMAN_SIZE
    PROVE  /\ to_block(addr) \in Nat /\ to_blocks(len) \in Nat
           /\ to_block(addr) * PMMAN_BLOCK_SIZE <= addr
           /\ addr < (to_block(addr) + 1) * PMMAN_BLOCK_SIZE
           /\ len <= to_blocks(len) * PMMAN_BLOCK_SIZE
           /\ to_blocks(len) * PMMAN_BLOCK_SIZE < len + PMMAN_BLOCK_SIZE
<1>. DEFINE B == PMMAN_BLOCK_SIZE
<1>0. B \in Nat \ {0} /\ AddrMod \in Nat \ {0} /\ len + B <= AddrMod
  BY Sizes
<1>. HIDE DEF B
<1>1. ASSUME NEW m \in Nat
      PROVE  m \div B \in Nat /\ (m \div B) * B <= m /\ m < ((m \div B) + 1) * B
  <2>1. PICK q \in Nat, r \in Nat : q = m \div B /\ r < B /\ m = B * q + r
    BY <1>0, DivMod
  <2>2. q * B = B * q /\ (q + 1) * B = B * q + B
    BY <1>0, <2>1, Z3
  <2>. QED BY <1>0, <2>1, <2>2
<1>2. (len + B - 1) % AddrMod = len + B - 1
  BY <1>0, Z3
<1>3. to_block(addr) = addr \div B /\ to_blocks(len) = (len + B - 1) \div B
  BY <1>2 DEF to_block, to_blocks, B
<1>4. len + B - 1 \in Nat
  BY <1>0
<1>5. PICK n \in Nat : n = (len + B - 1) \div B /\ n * B <= len + B - 1 /\ len + B - 1 < (n + 1) * B
  BY <1>1, <1>4
<1>6. (n + 1) * B = n * B + B /\ n * B \in Nat
  BY <1>0, <1>5, Z3
<1>7. len <= n * B /\ n * B < len + B
  BY <1>0, <1>5, <1>6
<1>. QED BY <1>1, <1>3, <1>5, <1>7 DEF B

(* A range that ends within the map is made of blocks of the map.          *)
LEMMA RangeInside ==
    ASSUME NEW addr \in Nat, NEW len \in Nat, addr + len <= PMMAN_SIZE
    PROVE  BlockRange(addr, len) \subseteq Blocks
<1>. DEFINE B == PMMAN_BLOCK_SIZE
            q == to_block(addr)
            n == to_blocks(len)
<1>0. B \in Nat \ {0} /\ PMMAN_BITS \in Nat /\ PMMAN_SIZE = PMMAN_BITS * B /\ len <= PMMAN_SIZE
  BY Sizes
<1>1. q \in Nat /\ n \in Nat /\ q * B <= addr /\ n * B < len + B
  BY <1>0, Rounding
<1>. HIDE DEF q, n, B
<1>2. (q + n) * B = q * B + n * B /\ (PMMAN_BITS + 1) * B = PMMAN_BITS * B + B
      /\ q * B \in Nat /\ n * B \in Nat /\ PMMAN_BITS * B \in Nat
  BY <1>0, <1>1, Z3
<1>3. (q + n) * B < (PMMAN_BITS + 1) * B
  BY <1>0, <1>1, <1>2
<1>4. q + n < PMMAN_BITS + 1
  BY <1>0, <1>1, <1>3, MulOrder
<1>5. q .. q + n - 1 \subseteq 0 .. PMMAN_BITS - 1
  BY <1>0, <1>1, <1>4
<1>. QED BY <1>5 DEF q, n, BlockRange, Blocks

(* Every block of a range holds a byte of it: rounding invents nothing.    *)
LEMMA RangeTouches ==
    ASSUME NEW addr \in Nat, NEW len \in Nat, len <= PMMAN_SIZE,
           NEW b \in BlockRange(addr, len)
    PROVE  \E a \in BytesOf(b) : addr <= a /\ a < addr + len
<1>. DEFINE B == PMMAN_BLOCK_SIZE
            q == to_block(addr)
            n == to_blocks(len)
<1>0. B \in Nat \ {0}
  BY Sizes
<1>1. q \in Nat /\ n \in Nat /\ q * B <= addr /\ addr < (q + 1) * B /\ n * B < len + B
  BY Rounding
<1>2. b \in Nat /\ q <= b /\ b <= q + n - 1
  BY <1>1 DEF BlockRange
<1>a. BytesOf(b) = b * B .. (b + 1) * B - 1
  BY DEF BytesOf
<1>. HIDE DEF q, n, B
<1>3. PICK d \in Nat : b = q + d
  BY <1>1, <1>2, Z3
<1>4. PICK e \in Nat : q + n = b + 1 + e
  BY <1>1, <1>2, Z3
<1>5. /\ b * B = q * B + d * B /\ d * B \in Nat /\ q * B \in Nat
      /\ (q + 1) * B = q * B + B /\ (b + 1) * B = b * B + B
      /\ q * B + n * B = b * B + B + e * B /\ e * B \in Nat /\ n * B \in Nat
  <2>1. (q + n) * B = q * B + n * B /\ (b + 1 + e) * B = b * B + B + e * B
    BY <1>0, <1>1, <1>2, <1>4, Z3
  <2>2. b * B = q * B + d * B
    BY <1>0, <1>1, <1>3, Z3
  <2>3. (q + 1) * B = q * B + B /\ (b + 1) * B = b * B + B
    BY <1>0, <1>1, <1>2, Z3
  <2>4. d * B \in Nat /\ q * B \in Nat /\ e * B \in Nat /\ n * B \in Nat
    BY <1>0, <1>1, <1>3, <1>4, Z3
  <2>. QED BY <1>4, <2>1, <2>2, <2>3, <2>4
<1>6. b * B \in Nat /\ b * B < addr + len /\ addr < b * B + B
  BY <1>0, <1>1, <1>5
<1>b. BytesOf(b) = b * B .. b * B + B - 1
  <2>1. (b + 1) * B = b * B + B
    BY <1>5
  <2>2. (b + 1) * B - 1 = b * B + B - 1
    BY <2>1, <1>0, <1>2, Z3
  <2>. QED BY <1>a, <2>2, Zenon
<1>7. CASE addr <= b * B
  <2>1. b * B \in b * B .. b * B + B - 1
    BY <1>0, <1>6
  <2>2. b * B \in BytesOf(b)
    BY <1>b, <2>1, Zenon
  <2>. QED BY <1>6, <1>7, <2>2
<1>8. CASE b * B < addr
  <2>1. addr \in b * B .. b * B + B - 1
    BY <1>0, <1>6, <1>8
  <2>2. addr < addr + len
    <3>1. n # 0
      BY <1>1, <1>2
    <3>2. n * B >= B
      BY <1>0, <1>1, <3>1, Z3
    <3>. QED BY <1>0, <1>1, <3>2, <1>5
  <2>3. addr \in BytesOf(b)
    BY <1>b, <2>1, Zenon
  <2>. QED BY <2>2, <2>3
<1>. QED BY <1>6, <1>7, <1>8

(* A block that holds a byte of a range which begins with a block, or lies *)
(* in one block, is a block of the range.                                  *)
LEMMA RangeCovers ==
    ASSUME NEW addr \in Nat, NEW len \in Nat, len <= PMMAN_SIZE,
           NEW b \in Blocks, NEW a \in BytesOf(b), addr <= a, a < addr + len,
           \/ addr % PMMAN_BLOCK_SIZE = 0
           \/ (addr % PMMAN_BLOCK_SIZE) + len <= PMMAN_BLOCK_SIZE
           \/ (b + 1) * PMMAN_BLOCK_SIZE <= addr + len
    PROVE  b \in BlockRange(addr, len)
<1>. DEFINE B == PMMAN_BLOCK_SIZE
            q == to_block(addr)
            n == to_blocks(len)
            r == addr % PMMAN_BLOCK_SIZE
<1>0. B \in Nat \ {0} /\ b \in Nat /\ PMMAN_BITS \in Nat
  BY Sizes DEF Blocks
<1>1. /\ q \in Nat /\ n \in Nat /\ q * B <= addr /\ addr < (q + 1) * B
      /\ len <= n * B
  BY Rounding
<1>2. r \in Nat /\ addr = B * q + r /\ r < B
  BY <1>0, DivMod DEF to_block
<1>3. /\ b * B \in Nat /\ (b + 1) * B = b * B + B /\ (q + 1) * B = q * B + B
      /\ q * B = B * q /\ q * B \in Nat /\ n * B \in Nat
      /\ (q + n) * B = q * B + n * B /\ (q + n + 1) * B = q * B + n * B + B
  <2>. HIDE DEF q, n, B
  <2>1. b * B \in Nat /\ q * B \in Nat /\ n * B \in Nat /\ q * B = B * q
    BY <1>0, <1>1, Z3
  <2>2. (b + 1) * B = b * B + B /\ (q + 1) * B = q * B + B
    BY <1>0, <1>1, Z3
  <2>3. (q + n) * B = q * B + n * B /\ (q + n + 1) * B = q * B + n * B + B
    BY <1>0, <1>1, Z3
  <2>. QED BY <2>1, <2>2, <2>3
<1>4. a \in Nat /\ b * B <= a /\ a < b * B + B
  BY <1>0, <1>3 DEF BytesOf
<1>5. r = 0 \/ r + len <= B \/ b * B + B <= addr + len
  BY <1>3
<1>. HIDE DEF q, n, B, r
<1>6. q <= b
  <2>1. q * B < (b + 1) * B
    BY <1>0, <1>1, <1>3, <1>4
  <2>2. q < b + 1
    BY <1>0, <1>1, <2>1, MulOrder
  <2>. QED BY <1>0, <1>1, <2>2
<1>7. b < q + n
  <2>1. CASE r = 0
    <3>1. b * B < (q + n) * B
      BY <1>0, <1>1, <1>2, <1>3, <1>4, <2>1
    <3>. QED BY <1>0, <1>1, <3>1, MulOrder
  <2>2. CASE r + len <= B
    <3>1. b * B < (q + 1) * B
      BY <1>0, <1>1, <1>2, <1>3, <1>4, <2>2
    <3>2. b < q + 1
      BY <1>0, <1>1, <3>1, MulOrder
    <3>3. n # 0
      BY <1>0, <1>1, <1>4
    <3>. QED BY <1>0, <1>1, <3>2, <3>3
  <2>3. CASE b * B + B <= addr + len
    <3>1. (b + 1) * B < (q + n + 1) * B
      BY <1>0, <1>1, <1>3, <2>3
    <3>2. b + 1 < q + n + 1
      BY <1>0, <1>1, <3>1, MulOrder
    <3>. QED BY <1>0, <1>1, <3>2
  <2>. QED BY <1>5, <2>1, <2>2, <2>3
<1>. QED BY <1>0, <1>1, <1>6, <1>7 DEF BlockRange, q, n

-----------------------------------------------------------------------------
(* The sort.                                                               *)

(* The search for the smallest base finds the first entry that has it.     *)
LEMMA MinIndexLeast ==
    ASSUME memmap \in Seq(Entries), memmap_count \in Nat, memmap_count <= Len(memmap),
           NEW k \in 1 .. memmap_count
    PROVE  /\ MinIndex(k) \in k .. memmap_count
           /\ \A n \in k .. memmap_count : memmap[MinIndex(k)].base <= memmap[n].base
<1>0. \A n \in k .. memmap_count : memmap[n] \in Entries /\ n \in Nat
  OBVIOUS
<1>1. \A n \in k .. memmap_count : memmap[n].base \in Nat
  BY <1>0 DEF Entries
<1>. DEFINE T == {memmap[n].base : n \in k .. memmap_count}
<1>2. T \in SUBSET Nat /\ T # {}
  BY <1>1
<1>3. PICK v \in T : \A y \in T : v <= y
  <2>. HIDE DEF T
  <2>. QED BY <1>2, NatMin
<1>4. \A n \in k .. memmap_count : v <= memmap[n].base
  BY <1>3
<1>. DEFINE U == {n \in k .. memmap_count : memmap[n].base = v}
<1>5. U \in SUBSET Nat /\ U # {}
  BY <1>3
<1>6. PICK m \in U : \A n \in U : m <= n
  <2>. HIDE DEF U
  <2>. QED BY <1>5, NatMin
<1>7. m \in k .. memmap_count /\ memmap[m].base = v
  BY <1>6
<1>8. ASSUME NEW n \in k .. memmap_count
      PROVE  memmap[m].base < memmap[n].base \/ (memmap[m].base = memmap[n].base /\ m <= n)
  <2>1. CASE memmap[n].base = v
    <3>1. n \in U
      BY <2>1
    <3>2. m <= n
      BY <1>6, <3>1
    <3>. QED BY <1>7, <2>1, <3>2
  <2>2. CASE memmap[n].base # v
    <3>1. v <= memmap[n].base /\ v \in Nat /\ memmap[n].base \in Nat
      BY <1>1, <1>2, <1>3, <1>4
    <3>. QED BY <1>7, <2>2, <3>1
  <2>. QED BY <2>1, <2>2
<1>9. \E x \in k .. memmap_count :
        \A n \in k .. memmap_count :
          memmap[x].base < memmap[n].base \/ (memmap[x].base = memmap[n].base /\ x <= n)
  BY <1>7, <1>8, Zenon
<1>10. /\ MinIndex(k) \in k .. memmap_count
       /\ \A n \in k .. memmap_count :
            \/ memmap[MinIndex(k)].base < memmap[n].base
            \/ memmap[MinIndex(k)].base = memmap[n].base /\ MinIndex(k) <= n
  BY <1>9, Zenon DEF MinIndex
<1>. QED BY <1>1, <1>10, SMTT(20)

(* t is s with two entries exchanged.                                      *)
Swapped(s, a, b, t) ==
    /\ t \in Seq(Entries)
    /\ Len(t) = Len(s)
    /\ \A k \in 1 .. Len(s) : t[k] = IF k = b THEN s[a] ELSE IF k = a THEN s[b] ELSE s[k]

(* What a swap of two entries does.                                        *)
LEMMA SwapFacts ==
    ASSUME NEW s \in Seq(Entries), NEW a \in 1 .. Len(s), NEW b \in 1 .. Len(s)
    PROVE  Swapped(s, a, b, Swap(s, a, b))
<1>1. Len(s) \in Nat /\ s \in [1 .. Len(s) -> Entries]
  OBVIOUS
<1>2. s[a] \in Entries /\ s[b] \in Entries
  BY <1>1
<1>3. Swap(s, a, b) \in [1 .. Len(s) -> Entries]
  BY <1>1, <1>2 DEF Swap
<1>4. Swap(s, a, b) \in Seq(Entries) /\ Len(Swap(s, a, b)) = Len(s)
  BY <1>1, <1>3
<1>5. \A k \in 1 .. Len(s) :
        Swap(s, a, b)[k] = IF k = b THEN s[a] ELSE IF k = a THEN s[b] ELSE s[k]
  BY <1>1 DEF Swap
<1>. QED BY <1>4, <1>5 DEF Swapped

-----------------------------------------------------------------------------
(* The steps.                                                              *)

(* The map of the firmware as the proofs use it.                           *)
LEMMA FirmwareMap ==
    ASSUME TypeOK
    PROVE  e820 \in Seq(Entries) /\ Len(e820) \in Nat /\ Len(e820) > 1
BY MapsAssumption DEF TypeOK

(* The blocks of the map the memory map is kept in.                        *)
LEMMA CountType ==
    ASSUME TypeOK, MemmapOK, pc # "e820"
    PROVE  /\ memmap_count \in Nat \ {0} /\ memmap_count < Len(memmap)
           /\ memmap \in Seq(Entries) /\ Len(memmap) \in Nat
           /\ \A k \in 1 .. memmap_count : memmap[k] \in Entries
<1>1. memmap \in Seq(Entries) /\ Len(memmap) = Len(e820) /\ memmap_count = Len(e820) - 1
  BY DEF MemmapOK
<1>2. memmap_count \in Nat \ {0} /\ memmap_count < Len(memmap) /\ Len(memmap) \in Nat
  BY <1>1, FirmwareMap
<1>. QED BY <1>1, <1>2

(* What is said of the entries holds on while they are left alone.         *)
LEMMA EntriesKept ==
    ASSUME UNCHANGED <<e820, memmap, memmap_count>>
    PROVE  /\ \A p : SortedUpTo(p)' <=> SortedUpTo(p)
           /\ SameEntries' <=> SameEntries
           /\ \A j, b : ClearedBy(j, b)' <=> ClearedBy(j, b)
BY DEF SortedUpTo, SameEntries, Counted, ClearedBy, IsCleared, Clipped, BlockRange

(* The map is fetched.                                                     *)
LEMMA BuildStep ==
    ASSUME MapInv, BuildMemoryMap
    PROVE  MapInv'
<1>0. TypeOK /\ pc = "e820" /\ pass = 1 /\ i = 1
  BY DEF MapInv, BuildMemoryMap, SortOK, ClearOK
<1>1. /\ memmap' = e820 /\ memmap_count' = Len(e820) - 1 /\ pc' = "sort"
      /\ bits' = [b \in Blocks |-> TRUE] /\ e820' = e820 /\ pass' = 1 /\ i' = 1
      /\ kernel' = kernel
  BY <1>0 DEF BuildMemoryMap
<1>2. e820 \in Seq(Entries) /\ Len(e820) \in Nat /\ Len(e820) > 1
  BY <1>0, FirmwareMap
<1>3. TypeOK'
  BY <1>0, <1>1 DEF TypeOK, Pcs
<1>4. MemmapOK'
  BY <1>1, <1>2 DEF MemmapOK
<1>5. SortOK'
  <2>1. SortedUpTo(1)'
    BY DEF SortedUpTo
  <2>2. SameEntries'
    BY <1>1 DEF SameEntries, Counted
  <2>3. pass' <= memmap_count'
    BY <1>1, <1>2
  <2>. QED BY <1>1, <2>1, <2>2, <2>3 DEF SortOK
<1>6. ClearOK' /\ MarkOK'
  BY <1>1 DEF ClearOK, MarkOK
<1>. QED BY <1>3, <1>4, <1>5, <1>6 DEF MapInv

(* One pass of the selection sort.                                         *)
LEMMA SortStep ==
    ASSUME MapInv, SortPass
    PROVE  MapInv'
<1>. DEFINE m == MinIndex(pass)
<1>0. /\ TypeOK /\ MemmapOK /\ pc = "sort" /\ pass < memmap_count /\ i = 1
      /\ SortedUpTo(pass) /\ SameEntries /\ pass \in Nat \ {0}
  BY DEF MapInv, SortPass, SortOK, ClearOK, TypeOK
<1>1. /\ memmap' = Swap(memmap, pass, m) /\ pass' = pass + 1
      /\ UNCHANGED <<e820, kernel, memmap_count, bits, i, pc>>
  BY DEF SortPass
<1>2. /\ memmap_count \in Nat /\ memmap_count < Len(memmap) /\ memmap \in Seq(Entries)
      /\ Len(memmap) \in Nat
      /\ \A k \in 1 .. memmap_count : memmap[k] \in Entries
  BY <1>0, CountType
<1>3. /\ m \in pass .. memmap_count
      /\ \A n \in pass .. memmap_count : memmap[m].base <= memmap[n].base
  BY <1>0, <1>2, MinIndexLeast
<1>. HIDE DEF m
<1>4. pass \in 1 .. Len(memmap) /\ m \in 1 .. Len(memmap)
  BY <1>0, <1>2, <1>3
<1>5. /\ memmap' \in Seq(Entries) /\ Len(memmap') = Len(memmap)
      /\ \A k \in 1 .. Len(memmap) :
           memmap'[k] = IF k = m THEN memmap[pass] ELSE IF k = pass THEN memmap[m] ELSE memmap[k]
  <2>1. Swapped(memmap, pass, m, Swap(memmap, pass, m))
    BY <1>2, <1>4, SwapFacts
  <2>2. Swapped(memmap, pass, m, memmap')
    BY <1>1, <2>1
  <2>. QED BY <2>2 DEF Swapped
<1>6. \A k \in 1 .. memmap_count :
        memmap'[k] = IF k = m THEN memmap[pass] ELSE IF k = pass THEN memmap[m] ELSE memmap[k]
  BY <1>2, <1>5
<1>7. TypeOK'
  BY <1>0, <1>1 DEF TypeOK
<1>8. MemmapOK'
  BY <1>0, <1>1, <1>5 DEF MemmapOK
<1>9. SortedUpTo(pass)'
  <2>. SUFFICES ASSUME NEW j \in 1 .. memmap_count, NEW k \in 1 .. memmap_count,
                       j < pass + 1, j < k
                PROVE  memmap'[j].base <= memmap'[k].base
    BY <1>1 DEF SortedUpTo
  <2>1. m \in 1 .. memmap_count /\ pass \in 1 .. memmap_count
    BY <1>0, <1>2, <1>3
  <2>2. CASE j < pass
    <3>1. j # m /\ j # pass /\ j < m
      BY <1>0, <1>3, <2>2
    <3>2. memmap'[j] = memmap[j]
      BY <1>6, <3>1
    <3>3. \A n \in 1 .. memmap_count : j < n => memmap[j].base <= memmap[n].base
      BY <1>0, <2>2 DEF SortedUpTo
    <3>4. PICK n \in 1 .. memmap_count : j < n /\ memmap'[k] = memmap[n]
      BY <1>6, <2>1, <2>2, <3>1
    <3>. QED BY <3>2, <3>3, <3>4
  <2>3. CASE j = pass
    <3>1. memmap'[j] = memmap[m]
      BY <1>6, <2>1, <2>3
    <3>2. PICK n \in pass .. memmap_count : memmap'[k] = memmap[n]
      <4>1. k \in pass .. memmap_count /\ m \in pass .. memmap_count
            /\ pass \in pass .. memmap_count
        BY <1>0, <1>2, <1>3, <2>3
      <4>. QED BY <1>6, <4>1
    <3>. QED BY <1>3, <3>1, <3>2
  <2>. QED BY <1>0, <2>2, <2>3
<1>10. SameEntries'
  <2>1. m \in 1 .. memmap_count /\ pass \in 1 .. memmap_count
    BY <1>0, <1>2, <1>3
  <2>2. ASSUME NEW k \in 1 .. memmap_count
        PROVE  \E n \in 1 .. memmap_count : memmap'[k] = memmap[n]
    BY <1>6, <2>1
  <2>3. ASSUME NEW k \in 1 .. memmap_count
        PROVE  \E n \in 1 .. memmap_count : memmap[k] = memmap'[n]
    <3>1. memmap'[m] = memmap[pass] /\ memmap'[pass] = memmap[m]
      BY <1>6, <2>1
    <3>2. k # m /\ k # pass => memmap'[k] = memmap[k]
      BY <1>6
    <3>. QED BY <2>1, <3>1, <3>2
  <2>4. {memmap'[k] : k \in 1 .. memmap_count} = {memmap[k] : k \in 1 .. memmap_count}
    BY <2>2, <2>3
  <2>. QED BY <1>0, <1>1, <2>4 DEF SameEntries, Counted
<1>11. SortOK'
  <2>1. pass' <= memmap_count'
    BY <1>0, <1>1, <1>2
  <2>. QED BY <1>0, <1>1, <1>9, <1>10, <2>1 DEF SortOK
<1>12. ClearOK' /\ MarkOK'
  BY <1>0, <1>1 DEF MapInv, ClearOK, MarkOK
<1>. QED BY <1>7, <1>8, <1>11, <1>12 DEF MapInv

(* The entries are sorted.                                                 *)
LEMMA SortDoneStep ==
    ASSUME MapInv, SortDone
    PROVE  MapInv'
<1>0. /\ TypeOK /\ MemmapOK /\ pc = "sort" /\ pass = memmap_count /\ i = 1
      /\ SortedUpTo(pass) /\ SameEntries /\ \A b \in Blocks : bits[b]
  <2>1. /\ TypeOK /\ MemmapOK /\ pc = "sort" /\ pass >= memmap_count /\ i = 1
        /\ SortedUpTo(pass) /\ SameEntries /\ \A b \in Blocks : bits[b]
        /\ pass <= memmap_count
    BY DEF MapInv, SortDone, SortOK, ClearOK
  <2>2. pass \in Nat /\ memmap_count \in Nat
    BY <2>1, CountType DEF TypeOK
  <2>. QED BY <2>1, <2>2
<1>1. pc' = "clear" /\ UNCHANGED <<e820, kernel, memmap, memmap_count, bits, pass, i>>
  BY DEF SortDone
<1>2. TypeOK' /\ MemmapOK'
  BY <1>0, <1>1 DEF TypeOK, MemmapOK, Pcs
<1>3. SortOK'
  BY <1>0, <1>1, EntriesKept DEF SortOK
<1>4. ClearOK'
  <2>1. i' = 1 /\ i' <= memmap_count' + 1
    BY <1>0, <1>1, CountType
  <2>. QED BY <1>0, <1>1, <2>1 DEF ClearOK
<1>5. MarkOK'
  BY <1>1 DEF MarkOK
<1>. QED BY <1>2, <1>3, <1>4, <1>5 DEF MapInv

(* The blocks of one entry are cleared, or the entry is passed over.       *)
LEMMA ClearStep ==
    ASSUME MapInv, ClearEntry
    PROVE  MapInv'
<1>0. /\ TypeOK /\ MemmapOK /\ SortOK /\ pc = "clear" /\ i <= memmap_count /\ i \in Nat \ {0}
      /\ \A b \in Blocks : bits[b] <=> ~\E j \in 1 .. i - 1 : ClearedBy(j, b)
  BY DEF MapInv, ClearEntry, ClearOK, TypeOK
<1>1. i' = i + 1 /\ UNCHANGED <<e820, kernel, memmap, memmap_count, pass, pc>>
  BY DEF ClearEntry
<1>2. /\ bits' \in [Blocks -> BOOLEAN]
      /\ \A b \in Blocks : bits'[b] <=> bits[b] /\ ~ClearedBy(i, b)
  <2>0. bits \in [Blocks -> BOOLEAN]
    BY <1>0 DEF TypeOK
  <2>1. CASE IsCleared(memmap[i])
    <3>. DEFINE R == BlockRange(memmap[i].base, Clipped(memmap[i]))
    <3>1. bits' = [k \in Blocks |-> IF k \in R THEN FALSE ELSE bits[k]]
      BY <2>1 DEF ClearEntry, WriteRange
    <3>2. \A b : ClearedBy(i, b) <=> b \in R
      BY <2>1 DEF ClearedBy
    <3>. HIDE DEF R
    <3>. QED BY <2>0, <3>1, <3>2
  <2>2. CASE ~IsCleared(memmap[i])
    <3>1. bits' = bits
      BY <2>2 DEF ClearEntry
    <3>2. \A b : ~ClearedBy(i, b)
      BY <2>2 DEF ClearedBy
    <3>. QED BY <2>0, <3>1, <3>2
  <2>. QED BY <2>1, <2>2
<1>3. TypeOK' /\ MemmapOK'
  BY <1>0, <1>1, <1>2 DEF TypeOK, MemmapOK
<1>4. SortOK'
  BY <1>0, <1>1, EntriesKept DEF SortOK
<1>5. ClearOK'
  <2>1. memmap_count \in Nat
    BY <1>0, CountType
  <2>2. i' <= memmap_count' + 1
    BY <1>0, <1>1, <2>1
  <2>3. \A j : j \in 1 .. i' - 1 <=> (j \in 1 .. i - 1 \/ j = i)
    BY <1>0, <1>1
  <2>4. \A j, b : ClearedBy(j, b)' <=> ClearedBy(j, b)
    BY <1>1, EntriesKept
  <2>5. \A b \in Blocks : bits'[b] <=> ~\E j \in 1 .. i' - 1 : ClearedBy(j, b)
    BY <1>0, <1>2, <2>3
  <2>6. \A b \in Blocks : bits'[b] <=> ~\E j \in 1 .. i' - 1 : ClearedBy(j, b)'
    BY <2>4, <2>5
  <2>. QED BY <1>0, <1>1, <2>2, <2>6 DEF ClearOK
<1>6. MarkOK'
  BY <1>0, <1>1 DEF MarkOK
<1>. QED BY <1>3, <1>4, <1>5, <1>6 DEF MapInv

(* Every entry has been looked at.                                         *)
LEMMA ClearDoneStep ==
    ASSUME MapInv, ClearDone
    PROVE  MapInv'
<1>0. /\ TypeOK /\ MemmapOK /\ SortOK /\ pc = "clear" /\ i - 1 = memmap_count
      /\ \A b \in Blocks : bits[b] <=> ~\E j \in 1 .. i - 1 : ClearedBy(j, b)
  <2>1. /\ TypeOK /\ MemmapOK /\ SortOK /\ pc = "clear" /\ i > memmap_count
        /\ \A b \in Blocks : bits[b] <=> ~\E j \in 1 .. i - 1 : ClearedBy(j, b)
        /\ i <= memmap_count + 1
    BY DEF MapInv, ClearDone, ClearOK
  <2>2. i \in Nat /\ memmap_count \in Nat
    BY <2>1, CountType DEF TypeOK
  <2>3. i - 1 = memmap_count
    BY <2>1, <2>2
  <2>. QED BY <2>1, <2>3
<1>1. pc' = "kernel" /\ UNCHANGED <<e820, kernel, memmap, memmap_count, bits, pass, i>>
  BY DEF ClearDone
<1>2. TypeOK' /\ MemmapOK'
  BY <1>0, <1>1 DEF TypeOK, MemmapOK, Pcs
<1>3. SortOK'
  BY <1>0, <1>1, EntriesKept DEF SortOK
<1>4. ClearOK'
  <2>1. \A j, b : ClearedBy(j, b)' <=> ClearedBy(j, b)
    BY <1>1, EntriesKept
  <2>2. \A b \in Blocks : bits[b] <=> ~\E j \in 1 .. memmap_count : ClearedBy(j, b)
    BY <1>0
  <2>3. \A b \in Blocks : bits'[b] <=> ~\E j \in 1 .. memmap_count' : ClearedBy(j, b)'
    BY <1>1, <2>1, <2>2
  <2>. QED BY <1>1, <2>3 DEF ClearOK
<1>5. MarkOK'
  BY <1>1 DEF MarkOK
<1>. QED BY <1>2, <1>3, <1>4, <1>5 DEF MapInv

(* kernel_enter marks a range: it is marked, and what was marked stays so. *)
LEMMA MarkFacts ==
    ASSUME TypeOK, NEW from, NEW to, NEW addr, NEW len, Mark(from, to, addr, len)
    PROVE  /\ bits' \in [Blocks -> BOOLEAN]
           /\ Marked(addr, len)'
           /\ \A a, n : Marked(a, n) => Marked(a, n)'
<1>. DEFINE R == BlockRange(addr, len)
<1>1. bits' = [k \in Blocks |-> IF k \in R THEN TRUE ELSE bits[k]]
  BY DEF Mark, WriteRange
<1>2. bits \in [Blocks -> BOOLEAN]
  BY DEF TypeOK
<1>3. \A b \in Blocks : (b \in R => bits'[b]) /\ (bits[b] => bits'[b])
  <2>. HIDE DEF R
  <2>. QED BY <1>1, <1>2
<1>4. bits' \in [Blocks -> BOOLEAN]
  <2>. HIDE DEF R
  <2>. QED BY <1>1, <1>2
<1>. QED BY <1>3, <1>4 DEF Marked, BlockRange

(* The kernel, the low BIOS area and the memory map are marked.            *)
LEMMA MarkStep ==
    ASSUME MapInv, MarkKernel \/ MarkLowBios \/ MarkMemmap
    PROVE  MapInv'
<1>0. TypeOK /\ MemmapOK /\ SortOK /\ MarkOK
  BY DEF MapInv
<1>1. /\ UNCHANGED <<e820, kernel, memmap, memmap_count, pass, i>>
      /\ pc \in {"kernel", "low", "memmap"} /\ pc' \in {"low", "memmap", "done"}
  BY DEF MarkKernel, MarkLowBios, MarkMemmap, Mark
<1>2. bits' \in [Blocks -> BOOLEAN] /\ \A a, n : Marked(a, n) => Marked(a, n)'
  BY <1>0, MarkFacts DEF MarkKernel, MarkLowBios, MarkMemmap
<1>3. TypeOK'
  BY <1>0, <1>1, <1>2 DEF TypeOK, Pcs
<1>4. MemmapOK'
  BY <1>0, <1>1 DEF MemmapOK
<1>5. SortOK'
  BY <1>0, <1>1, EntriesKept DEF SortOK
<1>6. ClearOK'
  BY <1>1 DEF ClearOK
<1>7. MarkOK'
  <2>1. CASE MarkKernel
    <3>1. Marked(kernel.start, kernel.end - kernel.start)' /\ pc' = "low"
      BY <1>0, <2>1, MarkFacts DEF MarkKernel, Mark
    <3>. QED BY <3>1 DEF MarkOK
  <2>2. CASE MarkLowBios
    <3>1. Marked(0, LowEnd)' /\ pc = "low" /\ pc' = "memmap"
      BY <1>0, <2>2, MarkFacts DEF MarkLowBios, Mark
    <3>2. Marked(kernel.start, kernel.end - kernel.start)'
      BY <1>0, <1>1, <1>2, <3>1 DEF MarkOK
    <3>. QED BY <3>1, <3>2 DEF MarkOK
  <2>3. CASE MarkMemmap
    <3>1. Marked(MemmapStart, EntrySize * memmap_count)' /\ pc = "memmap" /\ pc' = "done"
      BY <1>0, <2>3, MarkFacts DEF MarkMemmap, Mark
    <3>2. Marked(kernel.start, kernel.end - kernel.start)' /\ Marked(0, LowEnd)'
      BY <1>0, <1>1, <1>2, <3>1 DEF MarkOK
    <3>. QED BY <3>1, <3>2 DEF MarkOK
  <2>. QED BY <2>1, <2>2, <2>3
<1>. QED BY <1>3, <1>4, <1>5, <1>6, <1>7 DEF MapInv

(* Every step of the memory manager's start keeps the invariant.           *)
LEMMA MapStep == MapInv /\ [Next]_vars => MapInv'
<1>. SUFFICES ASSUME MapInv, [Next]_vars PROVE MapInv'
  OBVIOUS
<1>1. CASE Next
  BY <1>1, BuildStep, SortStep, SortDoneStep, ClearStep, ClearDoneStep, MarkStep DEF Next
<1>2. CASE UNCHANGED vars
  <2>1. TypeOK' /\ MemmapOK'
    BY <1>2 DEF vars, MapInv, TypeOK, MemmapOK
  <2>2. SortOK' /\ ClearOK'
    BY <1>2, EntriesKept DEF vars, MapInv, SortOK, ClearOK
  <2>3. MarkOK'
    BY <1>2 DEF vars, MapInv, MarkOK, Marked, BlockRange
  <2>. QED BY <2>1, <2>2, <2>3 DEF MapInv
<1>. QED BY <1>1, <1>2

(* The invariant of the start of the memory manager holds throughout.      *)
THEOREM InitialMapInvariant == Spec => []MapInv
<1>1. Init => MapInv
  <2>. SUFFICES ASSUME Init PROVE MapInv
    OBVIOUS
  <2>1. TypeOK
    BY DEF Init, TypeOK, Pcs
  <2>2. MemmapOK /\ SortOK /\ ClearOK /\ MarkOK
    BY DEF Init, MemmapOK, SortOK, ClearOK, MarkOK
  <2>. QED BY <2>1, <2>2 DEF MapInv
<1>. QED BY <1>1, MapStep, PTL DEF Spec

-----------------------------------------------------------------------------
(* What the map is worth.                                                  *)

(* When the passes are over, all of the entries are sorted.                *)
LEMMA SortedSound == MapInv => SortedPermutation
<1>. SUFFICES ASSUME MapInv, pc \notin {"e820", "sort"}
              PROVE  /\ \A j, k \in 1 .. memmap_count :
                          j < k => memmap[j].base <= memmap[k].base
                     /\ Counted = {e820[k] : k \in 1 .. memmap_count}
  BY DEF SortedPermutation
<1>1. SortedUpTo(memmap_count) /\ SameEntries /\ memmap_count \in Nat
  BY CountType DEF MapInv, SortOK
<1>2. \A j, k \in 1 .. memmap_count : j < k => memmap[j].base <= memmap[k].base
  BY <1>1 DEF SortedUpTo
<1>. QED BY <1>1, <1>2 DEF SameEntries

(* The selection sort of pmman_initialize leaves the entries ordered, and  *)
(* neither loses nor repeats one, whatever the firmware reports.           *)
THEOREM AlwaysSorted == Spec => []SortedPermutation
BY SortedSound, InitialMapInvariant, PTL

(* The part of an entry that lies within the map.                          *)
LEMMA ClippedFacts ==
    ASSUME NEW e \in Entries, e.base < PMMAN_SIZE
    PROVE  /\ e.base \in Nat /\ e.len \in Nat /\ Clipped(e) \in Nat
           /\ Clipped(e) <= e.len /\ Clipped(e) <= PMMAN_SIZE
           /\ e.base + Clipped(e) <= PMMAN_SIZE
           /\ Clipped(e) = e.len \/ e.base + Clipped(e) = PMMAN_SIZE
<1>1. e.base \in Nat /\ e.len \in Nat /\ PMMAN_SIZE \in Nat
  BY Sizes DEF Entries
<1>. QED BY <1>1 DEF Clipped

(* An entry that is cut off at the end of the map ends inside it.          *)
LEMMA ClearSound == MapInv => ClearInsideMap
<1>. SUFFICES ASSUME MapInv, pc = "clear", i <= memmap_count, IsCleared(memmap[i])
              PROVE  BlockRange(memmap[i].base, Clipped(memmap[i])) \subseteq Blocks
  BY DEF ClearInsideMap
<1>1. i \in 1 .. memmap_count
  BY CountType DEF MapInv, TypeOK
<1>2. memmap[i] \in Entries /\ memmap[i].base < PMMAN_SIZE
  BY <1>1, CountType DEF MapInv, IsCleared
<1>. QED BY <1>2, ClippedFacts, RangeInside

(* No word beyond pmman_kernel_map.bits is written while the usable memory *)
(* is cleared, where an entry starts inside a block or ends behind the map *)
(* neither.                                                                *)
THEOREM AlwaysClearInsideMap == Spec => []ClearInsideMap
BY ClearSound, InitialMapInvariant, PTL

(* A block of the map as an interval of bytes.                             *)
LEMMA BlockBytes ==
    ASSUME NEW b \in Blocks
    PROVE  /\ b \in Nat /\ b * PMMAN_BLOCK_SIZE \in Nat
           /\ (b + 1) * PMMAN_BLOCK_SIZE = b * PMMAN_BLOCK_SIZE + PMMAN_BLOCK_SIZE
           /\ (b + 1) * PMMAN_BLOCK_SIZE <= PMMAN_SIZE
           /\ \A a : a \in BytesOf(b) <=>
                /\ a \in Nat
                /\ b * PMMAN_BLOCK_SIZE <= a
                /\ a < b * PMMAN_BLOCK_SIZE + PMMAN_BLOCK_SIZE
<1>. DEFINE B == PMMAN_BLOCK_SIZE
<1>0. /\ B \in Nat \ {0} /\ PMMAN_BITS \in Nat /\ PMMAN_SIZE = PMMAN_BITS * B
      /\ b \in Nat /\ b + 1 <= PMMAN_BITS
  BY Sizes DEF Blocks
<1>a. BytesOf(b) = b * B .. (b + 1) * B - 1
  BY DEF BytesOf
<1>. HIDE DEF B
<1>1. b * B \in Nat /\ (b + 1) * B = b * B + B
  BY <1>0, Z3
<1>2. (b + 1) * B <= PMMAN_SIZE
  <2>1. ~(PMMAN_BITS * B < (b + 1) * B)
    <3>. SUFFICES ASSUME PMMAN_BITS * B < (b + 1) * B PROVE FALSE
      OBVIOUS
    <3>1. PMMAN_BITS < b + 1
      BY <1>0, MulOrder
    <3>. QED BY <1>0, <3>1
  <2>2. PMMAN_BITS * B \in Nat
    BY <1>0, Z3
  <2>. QED BY <1>0, <1>1, <2>1, <2>2
<1>3. (b + 1) * B - 1 = b * B + B - 1
  BY <1>0, <1>1, Z3
<1>4. BytesOf(b) = b * B .. b * B + B - 1
  BY <1>a, <1>3, Zenon
<1>5. \A a : a \in BytesOf(b) <=> a \in Nat /\ b * B <= a /\ a < b * B + B
  BY <1>0, <1>1, <1>4
<1>. QED BY <1>0, <1>1, <1>2, <1>5 DEF B

(* A block inside a usable entry is one of those the entry clears.         *)
LEMMA InsideCleared ==
    ASSUME NEW e \in Entries, e.type = "usable", NEW b \in Blocks,
           BytesOf(b) \subseteq Bytes(e)
    PROVE  IsCleared(e) /\ b \in BlockRange(e.base, Clipped(e))
<1>. DEFINE B == PMMAN_BLOCK_SIZE
            first == b * PMMAN_BLOCK_SIZE
<1>0. B \in Nat \ {0} /\ PMMAN_SIZE \in Nat /\ e.base \in Nat /\ e.len \in Nat
  BY Sizes DEF Entries
<1>1. /\ b \in Nat /\ first \in Nat /\ (b + 1) * B = first + B /\ first + B <= PMMAN_SIZE
      /\ \A a : a \in BytesOf(b) <=> a \in Nat /\ first <= a /\ a < first + B
  BY BlockBytes
<1>. HIDE DEF first
<1>2. first \in BytesOf(b) /\ first + B - 1 \in BytesOf(b)
  BY <1>0, <1>1
<1>3. e.base <= first /\ first + B <= e.base + e.len
  BY <1>0, <1>1, <1>2 DEF Bytes
<1>4. e.base < PMMAN_SIZE
  BY <1>0, <1>1, <1>3
<1>5. /\ Clipped(e) \in Nat /\ Clipped(e) <= PMMAN_SIZE
      /\ Clipped(e) = e.len \/ e.base + Clipped(e) = PMMAN_SIZE
  BY <1>4, ClippedFacts
<1>6. first + B <= e.base + Clipped(e)
  BY <1>0, <1>1, <1>3, <1>5
<1>7. e.base <= first /\ first < e.base + Clipped(e)
      /\ (b + 1) * PMMAN_BLOCK_SIZE <= e.base + Clipped(e)
  BY <1>0, <1>1, <1>3, <1>5, <1>6
<1>8. b \in BlockRange(e.base, Clipped(e))
  BY <1>0, <1>2, <1>5, <1>7, RangeCovers
<1>. QED BY <1>4, <1>8 DEF IsCleared

(* A block that an entry clears holds a usable byte of it.                 *)
LEMMA ClearedUsable ==
    ASSUME NEW e \in Entries, IsCleared(e), NEW b \in BlockRange(e.base, Clipped(e))
    PROVE  \E a \in BytesOf(b) : a \in Bytes(e)
<1>1. e.base < PMMAN_SIZE
  BY DEF IsCleared
<1>2. /\ e.base \in Nat /\ e.len \in Nat /\ Clipped(e) \in Nat
      /\ Clipped(e) <= e.len /\ Clipped(e) <= PMMAN_SIZE
  BY <1>1, ClippedFacts
<1>3. PICK a \in BytesOf(b) : e.base <= a /\ a < e.base + Clipped(e)
  BY <1>2, RangeTouches
<1>4. a \in Int
  BY DEF BytesOf
<1>5. a \in Bytes(e)
  BY <1>2, <1>3, <1>4 DEF Bytes
<1>. QED BY <1>5

(* Rounding an entry wastes no whole usable block and frees no block       *)
(* without a usable byte.                                                  *)
LEMMA FreeSound == MapInv => FreeIsUsable
<1>. SUFFICES ASSUME MapInv, pc = "kernel", NEW b \in Blocks
              PROVE  /\ (\E e \in Counted : e.type = "usable" /\ BytesOf(b) \subseteq Bytes(e))
                          => ~bits[b]
                     /\ BytesOf(b) \cap Usable = {} => bits[b]
  BY DEF FreeIsUsable
<1>1. bits[b] <=> ~\E j \in 1 .. memmap_count : ClearedBy(j, b)
  BY DEF MapInv, ClearOK
<1>2. \A j \in 1 .. memmap_count : memmap[j] \in Entries
  BY CountType DEF MapInv
<1>3. ASSUME NEW e \in Counted, e.type = "usable", BytesOf(b) \subseteq Bytes(e)
      PROVE  ~bits[b]
  <2>1. PICK j \in 1 .. memmap_count : e = memmap[j]
    BY DEF Counted
  <2>2. e \in Entries
    BY <1>2, <2>1
  <2>3. IsCleared(e) /\ b \in BlockRange(e.base, Clipped(e))
    BY <1>3, <2>2, InsideCleared
  <2>4. ClearedBy(j, b)
    BY <2>1, <2>3 DEF ClearedBy
  <2>. QED BY <1>1, <2>4
<1>4. ASSUME ~bits[b] PROVE BytesOf(b) \cap Usable # {}
  <2>1. PICK j \in 1 .. memmap_count : ClearedBy(j, b)
    BY <1>1, <1>4
  <2>. DEFINE e == memmap[j]
  <2>2. /\ e \in Entries /\ IsCleared(e) /\ b \in BlockRange(e.base, Clipped(e))
        /\ e \in Counted
    BY <1>2, <2>1 DEF ClearedBy, Counted
  <2>. HIDE DEF e
  <2>3. PICK a \in BytesOf(b) : a \in Bytes(e)
    BY <2>2, ClearedUsable
  <2>4. e.type = "usable"
    BY <2>2 DEF IsCleared
  <2>5. a \in Usable
    BY <2>2, <2>3, <2>4 DEF Usable
  <2>. QED BY <2>3, <2>5
<1>. QED BY <1>3, <1>4

(* The kernel begins with a block, the low BIOS area at address 0, and the *)
(* memory map lies in one block: marking them leaves no byte out.          *)
LEMMA MarkedSound == MapInv => KernelProtected
<1>. SUFFICES ASSUME MapInv, pc = "done", NEW b \in Blocks, ~bits[b], NEW a \in BytesOf(b)
              PROVE  /\ a \notin kernel.start .. kernel.end - 1
                     /\ a \notin 0 .. LowEnd - 1
                     /\ a \notin MemmapStart .. MemmapStart + EntrySize * memmap_count - 1
  BY DEF KernelProtected
<1>0. /\ PMMAN_BLOCK_SIZE \in Nat \ {0} /\ PMMAN_SIZE \in Nat
      /\ PMMAN_BLOCK_SIZE <= PMMAN_SIZE /\ a \in Nat
  BY Sizes, BlockBytes
<1>1. /\ b \notin BlockRange(kernel.start, kernel.end - kernel.start)
      /\ b \notin BlockRange(0, LowEnd)
      /\ b \notin BlockRange(MemmapStart, EntrySize * memmap_count)
  BY DEF MapInv, MarkOK, Marked
<1>2. a \notin kernel.start .. kernel.end - 1
  <2>. SUFFICES ASSUME a \in kernel.start .. kernel.end - 1 PROVE FALSE
    OBVIOUS
  <2>1. /\ kernel.start \in Nat /\ kernel.end \in Nat /\ kernel.start <= kernel.end
        /\ kernel.end <= PMMAN_SIZE /\ kernel.start % PMMAN_BLOCK_SIZE = 0
    BY LayoutAssumption DEF MapInv, TypeOK
  <2>2. /\ kernel.end - kernel.start \in Nat /\ kernel.end - kernel.start <= PMMAN_SIZE
        /\ kernel.start <= a /\ a < kernel.start + (kernel.end - kernel.start)
    BY <1>0, <2>1
  <2>3. b \in BlockRange(kernel.start, kernel.end - kernel.start)
    BY <2>1, <2>2, RangeCovers
  <2>. QED BY <1>1, <2>3
<1>3. a \notin 0 .. LowEnd - 1
  <2>. SUFFICES ASSUME a \in 0 .. LowEnd - 1 PROVE FALSE
    OBVIOUS
  <2>1. LowEnd \in Nat /\ LowEnd <= PMMAN_SIZE
    BY <1>0, LayoutAssumption
  <2>2. 0 % PMMAN_BLOCK_SIZE = 0
    BY <1>0, Z3
  <2>3. 0 <= a /\ a < 0 + LowEnd
    BY <1>0, <2>1
  <2>4. b \in BlockRange(0, LowEnd)
    BY <2>1, <2>2, <2>3, RangeCovers
  <2>. QED BY <1>1, <2>4
<1>4. a \notin MemmapStart .. MemmapStart + EntrySize * memmap_count - 1
  <2>. DEFINE len == EntrySize * memmap_count
              r == MemmapStart % PMMAN_BLOCK_SIZE
  <2>. SUFFICES ASSUME a \in MemmapStart .. MemmapStart + len - 1 PROVE FALSE
    OBVIOUS
  <2>1. /\ MemmapStart \in Nat /\ EntrySize \in Nat
        /\ r + Len(e820) * EntrySize <= PMMAN_BLOCK_SIZE
    BY LayoutAssumption DEF MapInv, TypeOK
  <2>2. memmap_count \in Nat /\ Len(e820) = memmap_count + 1
    BY CountType DEF MapInv, MemmapOK
  <2>3. len \in Nat /\ Len(e820) * EntrySize = len + EntrySize
    BY <2>1, <2>2, Z3
  <2>4. r \in Nat
    BY <1>0, <2>1, DivMod
  <2>. HIDE DEF len, r
  <2>5. r + len <= PMMAN_BLOCK_SIZE /\ len <= PMMAN_SIZE
    BY <1>0, <2>1, <2>3, <2>4
  <2>6. MemmapStart <= a /\ a < MemmapStart + len
    BY <1>0, <2>1, <2>3
  <2>7. b \in BlockRange(MemmapStart, len)
    BY <2>1, <2>3, <2>5, <2>6, RangeCovers DEF r
  <2>. QED BY <1>1, <2>7 DEF len
<1>. QED BY <1>2, <1>3, <1>4

(* pmman_alloc starts from a sound map: every whole block of usable memory *)
(* is free, no block without a usable byte is, and no byte of the kernel,  *)
(* of the low BIOS area or of the memory map lies in a free block.         *)
THEOREM InitialMapAlwaysSound == Spec => []InitialMapSound
<1>1. MapInv => InitialMapSound
  BY FreeSound, MarkedSound DEF InitialMapSound
<1>. QED BY <1>1, InitialMapInvariant, PTL

-----------------------------------------------------------------------------
(* From the loader to the kernel.  The invariant says which sections are   *)
(* in place and how far they reach while load_elf_kernel goes through them,*)
(* and, once the kernel has been entered, that the bitmap is being made    *)
(* for just that extent.                                                   *)

(* Section k of the image is in its place.                                 *)
Content(k) == IF elf[k].type = "NOBITS" THEN 0 ELSE k
InPlace(k) ==
    \A a \in elf[k].addr .. elf[k].addr + elf[k].size - 1 : mem[a] = Content(k)

(* The first n sections have been looked at.                               *)
LoadedUpTo(n) ==
    /\ \A k \in DOMAIN elf : k <= n /\ elf[k].alloc =>
         InPlace(k) /\ klow <= elf[k].addr /\ elf[k].addr + elf[k].size <= khigh
    /\ \/ klow = L!UINT32_MAX
       \/ \E k \in DOMAIN elf : elf[k].alloc /\ elf[k].addr = klow
    /\ \/ khigh = 0
       \/ \E k \in DOMAIN elf : elf[k].alloc /\ elf[k].addr + elf[k].size = khigh

LoaderOK ==
    /\ elf \in Elfs
    /\ DOMAIN mem = 0 .. TMP_ELF_ADDR - 1
    /\ klow \in Int /\ khigh \in Int
    /\ lpc \notin {"section", "jump", "entered"} =>
         sh = 1 /\ klow = L!UINT32_MAX /\ khigh = 0
    /\ lpc = "section" => sh \in 1 .. Len(elf) + 1 /\ LoadedUpTo(sh - 1)
    /\ lpc \in {"jump", "entered"} => LoadedUpTo(Len(elf))

EnteredOK ==
    /\ lpc = "entered" <=> pc # "off"
    /\ pc = "off" =>
         bits \in [Blocks -> BOOLEAN] /\ pass = 1 /\ i = 1 /\ memmap_count = 0
    /\ pc # "off" => MapInv /\ kernel.start = klow /\ kernel.end = khigh

BootInv == LoaderOK /\ EnteredOK

(* The image is read to a place below klow's first value.                  *)
LEMMA TmpBounds ==
    TMP_ELF_ADDR \in Nat /\ L!UINT32_MAX \in Nat /\ TMP_ELF_ADDR < L!UINT32_MAX
<1>1. TMP_ELF_ADDR \in 0 .. L!UINT32_MAX - 1
  BY ImageAssumption, Zenon
<1>2. L!UINT32_MAX \in Nat
  BY SMT DEF L!UINT32_MAX
<1>. QED BY <1>1, <1>2

(* What linker.ld makes of an image, for the section at hand.              *)
LEMMA ImageFacts ==
    ASSUME NEW e \in Elfs
    PROVE  /\ Len(e) \in Nat /\ DOMAIN e = 1 .. Len(e)
           /\ \A k \in DOMAIN e :
                /\ e[k].addr \in Nat /\ e[k].size \in Nat /\ e[k].alloc \in BOOLEAN
                /\ e[k].addr + e[k].size <= TMP_ELF_ADDR
                /\ e[k].alloc <=> L!Loaded(e[k])
           /\ \A j, k \in DOMAIN e : e[j].alloc /\ e[k].alloc /\ j # k =>
                \/ e[j].addr + e[j].size <= e[k].addr
                \/ e[k].addr + e[k].size <= e[j].addr
           /\ \E p \in Kernels :
                /\ \A k \in DOMAIN e : e[k].alloc =>
                     p.start <= e[k].addr /\ e[k].addr + e[k].size <= p.end
                /\ \E k \in DOMAIN e : e[k].alloc /\ e[k].addr = p.start
                /\ \E k \in DOMAIN e : e[k].alloc /\ e[k].addr + e[k].size = p.end
<1>. DEFINE Headers == [type : STRING, addr : Nat, size : Nat, alloc : BOOLEAN]
<1>1. e \in Seq(Headers)
  BY ImageAssumption
<1>2. Len(e) \in Nat /\ DOMAIN e = 1 .. Len(e) /\ \A k \in DOMAIN e : e[k] \in Headers
  <2>. HIDE DEF Headers
  <2>. QED BY <1>1
<1>3. \A k \in DOMAIN e : e[k].addr \in Nat /\ e[k].size \in Nat /\ e[k].alloc \in BOOLEAN
  BY <1>2
<1>4. \A k \in DOMAIN e : e[k].addr + e[k].size <= TMP_ELF_ADDR
  BY LoaderAssumption DEF L!MachineAssumption
<1>5. \A k \in DOMAIN e : e[k].alloc <=> L!Loaded(e[k])
  BY ImageAssumption
<1>6. \A j, k \in DOMAIN e : e[j].alloc /\ e[k].alloc /\ j # k =>
        \/ e[j].addr + e[j].size <= e[k].addr
        \/ e[k].addr + e[k].size <= e[j].addr
  BY ImageAssumption
<1>7. \E p \in Kernels :
        /\ \A k \in DOMAIN e : e[k].alloc =>
             p.start <= e[k].addr /\ e[k].addr + e[k].size <= p.end
        /\ \E k \in DOMAIN e : e[k].alloc /\ e[k].addr = p.start
        /\ \E k \in DOMAIN e : e[k].alloc /\ e[k].addr + e[k].size = p.end
  BY ImageAssumption
<1>. HIDE DEF Headers
<1>. QED BY <1>2, <1>3, <1>4, <1>5, <1>6, <1>7

(* When all sections are loaded, the extent is one of the kernel's places. *)
LEMMA ExtentExact ==
    ASSUME elf \in Elfs, klow \in Int, khigh \in Int, LoadedUpTo(Len(elf))
    PROVE  /\ [start |-> klow, end |-> khigh] \in Kernels
           /\ \E k \in DOMAIN elf : elf[k].alloc /\ elf[k].addr = klow
           /\ \E k \in DOMAIN elf : elf[k].alloc /\ elf[k].addr + elf[k].size = khigh
<1>1. /\ Len(elf) \in Nat /\ DOMAIN elf = 1 .. Len(elf)
      /\ \A k \in DOMAIN elf :
           elf[k].addr \in Nat /\ elf[k].size \in Nat /\ elf[k].addr + elf[k].size <= TMP_ELF_ADDR
  BY ImageFacts
<1>2. PICK p \in Kernels :
        /\ \A k \in DOMAIN elf : elf[k].alloc =>
             p.start <= elf[k].addr /\ elf[k].addr + elf[k].size <= p.end
        /\ \E k \in DOMAIN elf : elf[k].alloc /\ elf[k].addr = p.start
        /\ \E k \in DOMAIN elf : elf[k].alloc /\ elf[k].addr + elf[k].size = p.end
  BY ImageFacts
<1>3. p \in [start : Nat, end : Nat]
  BY LayoutAssumption
<1>4. p.start \in Nat /\ p.end \in Nat /\ p = [start |-> p.start, end |-> p.end]
  BY <1>3
<1>5. \A k \in DOMAIN elf : elf[k].alloc =>
        klow <= elf[k].addr /\ elf[k].addr + elf[k].size <= khigh
  BY <1>1 DEF LoadedUpTo
<1>6. klow = p.start
  <2>1. PICK k \in DOMAIN elf : elf[k].alloc /\ elf[k].addr = p.start
    BY <1>2
  <2>2. klow <= p.start /\ p.start <= TMP_ELF_ADDR
    BY <1>1, <1>5, <2>1, TmpBounds
  <2>3. klow # L!UINT32_MAX
    BY <1>4, <2>2, TmpBounds
  <2>4. PICK n \in DOMAIN elf : elf[n].alloc /\ elf[n].addr = klow
    BY <2>3 DEF LoadedUpTo
  <2>. QED BY <1>2, <1>4, <2>2, <2>4
<1>7. khigh = p.end
  <2>1. PICK k \in DOMAIN elf : elf[k].alloc /\ elf[k].addr + elf[k].size = p.end
    BY <1>2
  <2>2. p.end <= khigh
    BY <1>5, <2>1
  <2>3. khigh = 0 \/ khigh <= p.end
    BY <1>2 DEF LoadedUpTo
  <2>. QED BY <1>4, <2>2, <2>3
<1>. QED BY <1>2, <1>4, <1>6, <1>7

(* load_elf_kernel: a section goes to its place and to no other's.         *)
LEMMA LoadSectionInv ==
    ASSUME BootInv, L!LoadSection
    PROVE  LoaderOK' /\ lpc' # "entered"
<1>1. /\ lpc = "section" /\ elf' = elf /\ elf \in Elfs
      /\ sh \in 1 .. Len(elf) + 1 /\ LoadedUpTo(sh - 1)
      /\ klow \in Int /\ khigh \in Int /\ DOMAIN mem = 0 .. TMP_ELF_ADDR - 1
  BY DEF L!LoadSection, BootInv, LoaderOK
<1>2. /\ Len(elf) \in Nat /\ DOMAIN elf = 1 .. Len(elf)
      /\ \A k \in DOMAIN elf :
           /\ elf[k].addr \in Nat /\ elf[k].size \in Nat /\ elf[k].alloc \in BOOLEAN
           /\ elf[k].addr + elf[k].size <= TMP_ELF_ADDR
           /\ elf[k].alloc <=> L!Loaded(elf[k])
      /\ \A j, k \in DOMAIN elf : elf[j].alloc /\ elf[k].alloc /\ j # k =>
           \/ elf[j].addr + elf[j].size <= elf[k].addr
           \/ elf[k].addr + elf[k].size <= elf[j].addr
  BY <1>1, ImageFacts
<1>3. CASE sh > Len(elf)
  <2>1. lpc' = "jump" /\ UNCHANGED <<sh, klow, khigh, mem>>
    BY <1>3 DEF L!LoadSection, L!image
  <2>2. sh - 1 = Len(elf)
    BY <1>1, <1>2, <1>3
  <2>3. LoadedUpTo(Len(elf))
    BY <1>1, <2>2
  <2>4. LoadedUpTo(Len(elf))'
    BY <1>1, <2>1, <2>3 DEF LoadedUpTo, InPlace, Content
  <2>. QED BY <1>1, <2>1, <2>4 DEF LoaderOK
<1>4. CASE ~(sh > Len(elf))
  <2>0. sh \in DOMAIN elf /\ sh \in 1 .. Len(elf) /\ sh \in Nat
    BY <1>1, <1>2, <1>4
  <2>1. lpc' = lpc /\ sh' = sh + 1 /\ sh' - 1 = sh /\ sh' \in 1 .. Len(elf) + 1
    BY <1>2, <1>4, <2>0 DEF L!LoadSection
  <2>2. CASE ~elf[sh].alloc
    <3>1. UNCHANGED <<klow, khigh, mem>>
      BY <1>2, <1>4, <2>0, <2>2 DEF L!LoadSection
    <3>2. \A k \in DOMAIN elf : k <= sh /\ elf[k].alloc => k <= sh - 1
      BY <1>2, <2>0, <2>2
    <3>3. LoadedUpTo(sh)
      BY <1>1, <3>2 DEF LoadedUpTo
    <3>4. LoadedUpTo(sh - 1)'
      BY <1>1, <2>1, <3>1, <3>3 DEF LoadedUpTo, InPlace, Content
    <3>. QED BY <1>1, <2>1, <3>1, <3>4 DEF LoaderOK
  <2>3. CASE elf[sh].alloc
    <3>. DEFINE lo == elf[sh].addr
                hi == elf[sh].addr + elf[sh].size
                v == IF elf[sh].type = "NOBITS" THEN 0 ELSE sh
    <3>1. /\ klow' = IF lo < klow THEN lo ELSE klow
          /\ khigh' = IF hi > khigh THEN hi ELSE khigh
      BY <1>2, <1>4, <2>0, <2>3 DEF L!LoadSection, L!Low, L!High
    <3>2. mem' = [a \in DOMAIN mem |-> IF a \in lo .. hi - 1 THEN v ELSE mem[a]]
      BY <1>2, <1>4, <2>0, <2>3 DEF L!LoadSection
    <3>3. lo \in Nat /\ hi \in Nat /\ hi <= TMP_ELF_ADDR /\ TMP_ELF_ADDR \in Nat
      BY <1>2, <2>0, TmpBounds
    <3>4. \A k \in DOMAIN elf : elf[k].alloc /\ k # sh =>
            elf[k].addr + elf[k].size <= lo \/ hi <= elf[k].addr
      BY <1>2, <2>0, <2>3
    <3>5. klow' = L!UINT32_MAX \/ \E k \in DOMAIN elf : elf[k].alloc /\ elf[k].addr = klow'
      BY <1>1, <2>0, <2>3, <3>1 DEF LoadedUpTo
    <3>6. khigh' = 0 \/ \E k \in DOMAIN elf : elf[k].alloc /\ elf[k].addr + elf[k].size = khigh'
      BY <1>1, <2>0, <2>3, <3>1 DEF LoadedUpTo
    <3>7. elf[sh].addr = lo /\ elf[sh].addr + elf[sh].size = hi
          /\ v = Content(sh)
      BY DEF Content
    <3>. HIDE DEF lo, hi, v
    <3>8. /\ klow' \in Int /\ khigh' \in Int /\ klow' <= klow /\ khigh <= khigh'
          /\ klow' <= lo /\ hi <= khigh'
      BY <1>1, <3>1, <3>3
    <3>9. DOMAIN mem' = 0 .. TMP_ELF_ADDR - 1
      BY <1>1, <3>2
    <3>10. ASSUME NEW k \in DOMAIN elf, k <= sh, elf[k].alloc
           PROVE  InPlace(k)' /\ klow' <= elf[k].addr /\ elf[k].addr + elf[k].size <= khigh'
      <4>1. CASE k = sh
        <5>1. ASSUME NEW a \in lo .. hi - 1 PROVE mem'[a] = v
          <6>1. a \in DOMAIN mem
            BY <1>1, <3>3
          <6>. QED BY <3>2, <6>1
        <5>2. \A a \in elf[k].addr .. elf[k].addr + elf[k].size - 1 : mem'[a] = Content(k)
          BY <1>2, <3>3, <3>7, <4>1, <5>1
        <5>3. Content(k)' = Content(k)
          BY <1>1 DEF Content
        <5>4. InPlace(k)'
          BY <1>1, <5>2, <5>3 DEF InPlace
        <5>. QED BY <3>7, <3>8, <4>1, <5>4
      <4>2. CASE k # sh
        <5>. DEFINE klo == elf[k].addr
                    khi == elf[k].addr + elf[k].size
        <5>1. klo \in Nat /\ khi \in Nat /\ khi <= TMP_ELF_ADDR
          BY <1>2
        <5>2. k <= sh - 1
          BY <1>2, <2>0, <3>10, <4>2
        <5>3. InPlace(k) /\ klow <= klo /\ khi <= khigh
          BY <1>1, <3>10, <5>2 DEF LoadedUpTo
        <5>4. khi <= lo \/ hi <= klo
          BY <3>4, <3>10, <4>2
        <5>5. \A a \in klo .. khi - 1 : mem[a] = Content(k)
          BY <1>2, <5>3 DEF InPlace
        <5>6. ASSUME \A a \in klo .. khi - 1 : mem'[a] = mem[a] PROVE InPlace(k)'
          <6>1. Content(k)' = Content(k)
            BY <1>1 DEF Content
          <6>2. \A a \in elf[k].addr .. elf[k].addr + elf[k].size - 1 : mem'[a] = Content(k)
            BY <1>2, <5>5, <5>6
          <6>. QED BY <1>1, <6>1, <6>2 DEF InPlace
        <5>. HIDE DEF klo, khi
        <5>7. ASSUME NEW a \in klo .. khi - 1 PROVE mem'[a] = mem[a]
          <6>1. a \in DOMAIN mem /\ a \notin lo .. hi - 1
            BY <1>1, <3>3, <5>1, <5>4
          <6>. QED BY <3>2, <6>1
        <5>8. klow' <= klo /\ khi <= khigh'
          BY <1>1, <3>8, <5>1, <5>3
        <5>. QED BY <5>6, <5>7, <5>8 DEF klo, khi
      <4>. QED BY <4>1, <4>2
    <3>11. LoadedUpTo(sh - 1)'
      <4>1. \A k \in DOMAIN elf' : k <= sh' - 1 /\ elf'[k].alloc =>
              InPlace(k)' /\ klow' <= elf'[k].addr /\ elf'[k].addr + elf'[k].size <= khigh'
        BY <1>1, <2>1, <3>10
      <4>. QED BY <1>1, <3>5, <3>6, <4>1 DEF LoadedUpTo
    <3>. QED BY <1>1, <2>1, <3>8, <3>9, <3>11 DEF LoaderOK
  <2>. QED BY <1>2, <2>0, <2>2, <2>3
<1>. QED BY <1>3, <1>4

(* The steps before leave the kernel's memory to load_elf_kernel.          *)
LEMMA LoaderStepInv ==
    ASSUME BootInv, LoaderStep
    PROVE  BootInv'
<1>1. L!Next /\ UNCHANGED vars
  BY DEF LoaderStep
<1>2. lpc # "entered" /\ pc = "off"
  BY <1>1 DEF BootInv, EnteredOK, L!Next, L!SetTextMode, L!ReadStage2Size, L!ReadStage2, L!SetMode,
       L!BuildMemoryMap, L!FirmwareCall, L!EnableA20, L!EnumerateAndInitialize, L!NextDrive, L!ReadHeader, L!CompareName, L!ReadElf, L!LoadSection
<1>3. LoaderOK' /\ lpc' # "entered"
  <2>1. CASE L!LoadSection
    BY <2>1, LoadSectionInv
  <2>2. CASE ~L!LoadSection
    <3>1. /\ UNCHANGED <<elf, sh, klow, khigh, mem>>
          /\ lpc \notin {"section", "jump", "entered"} /\ lpc' \notin {"jump", "entered"}
      BY <1>1, <2>2
         DEF L!Next, L!SetTextMode, L!ReadStage2Size, L!ReadStage2, L!SetMode, L!BuildMemoryMap,
             L!FirmwareCall, L!EnableA20, L!EnumerateAndInitialize, L!NextDrive, L!ReadHeader, L!CompareName, L!ReadElf, L!image, L!Panic
    <3>2. elf \in Elfs /\ sh = 1 /\ klow = L!UINT32_MAX /\ khigh = 0
      BY <3>1 DEF BootInv, LoaderOK
    <3>3. sh - 1 = 0 /\ sh \in 1 .. Len(elf) + 1 /\ \A k \in DOMAIN elf : ~(k <= 0)
      BY <3>2, ImageFacts
    <3>4. LoadedUpTo(0)
      BY <3>2, <3>3 DEF LoadedUpTo
    <3>5. LoadedUpTo(sh - 1)'
      BY <3>1, <3>3, <3>4 DEF LoadedUpTo, InPlace, Content
    <3>. QED BY <3>1, <3>2, <3>3, <3>5 DEF BootInv, LoaderOK
  <2>. QED BY <2>1, <2>2
<1>4. EnteredOK'
  BY <1>1, <1>2, <1>3 DEF BootInv, EnteredOK, vars
<1>. QED BY <1>3, <1>4 DEF BootInv

(* The kernel is told its extent, and starts the memory manager with it.   *)
LEMMA EnterKernelInv ==
    ASSUME BootInv, EnterKernel
    PROVE  BootInv'
<1>1. /\ lpc = "jump" /\ lpc' = "entered" /\ pc' = "e820"
      /\ kernel' = [start |-> klow, end |-> khigh] /\ e820' \in Maps
      /\ UNCHANGED <<bits, pass, i, elf, klow, khigh, mem>>
  BY DEF EnterKernel
<1>2. LoaderOK /\ LoadedUpTo(Len(elf)) /\ elf \in Elfs /\ klow \in Int /\ khigh \in Int
  BY <1>1 DEF BootInv, LoaderOK
<1>3. LoadedUpTo(Len(elf))'
  BY <1>1, <1>2 DEF LoadedUpTo, InPlace, Content
<1>4. LoaderOK'
  BY <1>1, <1>2, <1>3 DEF LoaderOK
<1>5. kernel' \in Kernels /\ kernel'.start = klow /\ kernel'.end = khigh
  BY <1>1, <1>2, ExtentExact
<1>6. pc = "off" /\ bits \in [Blocks -> BOOLEAN] /\ pass = 1 /\ i = 1
  BY <1>1 DEF BootInv, EnteredOK
<1>7. TypeOK'
  BY <1>1, <1>5, <1>6 DEF TypeOK, Pcs
<1>8. MemmapOK' /\ SortOK' /\ ClearOK' /\ MarkOK'
  BY <1>1, <1>6 DEF MemmapOK, SortOK, ClearOK, MarkOK
<1>9. EnteredOK'
  BY <1>1, <1>5, <1>7, <1>8 DEF EnteredOK, MapInv
<1>. QED BY <1>4, <1>9 DEF BootInv

(* The kernel's steps keep what it was told.                               *)
LEMMA KernelStepInv ==
    ASSUME BootInv, KernelStep
    PROVE  BootInv'
<1>1. Next /\ UNCHANGED <<elf, lpc, sh, klow, khigh, mem>>
  BY DEF KernelStep, lvars
<1>2. pc # "off" /\ MapInv /\ lpc = "entered"
  BY <1>1 DEF BootInv, EnteredOK, Next, BuildMemoryMap, SortPass, SortDone, ClearEntry, ClearDone,
              MarkKernel, MarkLowBios, MarkMemmap, Mark
<1>3. MapInv'
  BY <1>1, <1>2, MapStep
<1>4. pc' # "off"
  BY <1>3 DEF MapInv, TypeOK, Pcs
<1>5. kernel' = kernel
  BY <1>1 DEF Next, BuildMemoryMap, SortPass, SortDone, ClearEntry, ClearDone,
              MarkKernel, MarkLowBios, MarkMemmap, Mark
<1>6. EnteredOK'
  BY <1>1, <1>2, <1>3, <1>4, <1>5 DEF BootInv, EnteredOK
<1>7. LoaderOK'
  <2>1. LoadedUpTo(Len(elf))'
    BY <1>1, <1>2 DEF BootInv, LoaderOK, LoadedUpTo, InPlace, Content
  <2>. QED BY <1>1, <1>2, <2>1 DEF BootInv, LoaderOK
<1>. QED BY <1>6, <1>7 DEF BootInv

(* From the boot sector to the bitmap: the loader's progress, and then the *)
(* memory manager's, are as the invariant says.                            *)
THEOREM BootInvariant == BootSpec => []BootInv
<1>1. BootInit => BootInv
  <2>. SUFFICES ASSUME BootInit PROVE BootInv
    OBVIOUS
  <2>1. LoaderOK
    <3>1. /\ elf \in Elfs /\ lpc = "boot sector" /\ sh = 1 /\ klow = L!UINT32_MAX /\ khigh = 0
          /\ mem = [a \in 0 .. TMP_ELF_ADDR - 1 |-> -1]
      BY DEF BootInit, L!Init
    <3>2. DOMAIN mem = 0 .. TMP_ELF_ADDR - 1
      BY <3>1
    <3>3. klow \in Int /\ khigh \in Int
      <4>1. klow = L!UINT32_MAX /\ khigh = 0
        BY <3>1
      <4>. QED BY <4>1, TmpBounds
    <3>. QED BY <3>1, <3>2, <3>3 DEF LoaderOK
  <2>2. EnteredOK
    BY DEF BootInit, L!Init, EnteredOK
  <2>. QED BY <2>1, <2>2 DEF BootInv
<1>2. BootInv /\ [BootNext]_allvars => BootInv'
  <2>. SUFFICES ASSUME BootInv, [BootNext]_allvars PROVE BootInv'
    OBVIOUS
  <2>1. CASE BootNext
    BY <2>1, LoaderStepInv, EnterKernelInv, KernelStepInv DEF BootNext
  <2>2. CASE UNCHANGED allvars
    <3>1. UNCHANGED vars /\ UNCHANGED <<elf, lpc, sh, klow, khigh, mem>>
      BY <2>2 DEF allvars, lvars
    <3>2. LoaderOK'
      BY <3>1 DEF BootInv, LoaderOK, LoadedUpTo, InPlace, Content
    <3>3. MapInv => MapInv'
      BY <3>1, MapStep
    <3>4. EnteredOK'
      BY <3>1, <3>3 DEF BootInv, EnteredOK, vars
    <3>. QED BY <3>2, <3>4 DEF BootInv
  <2>. QED BY <2>1, <2>2
<1>. QED BY <1>1, <1>2, PTL DEF BootSpec

(* Every byte of the map lies in the block that it is counted to.          *)
LEMMA OwnBlock ==
    ASSUME NEW a \in Nat, a < PMMAN_SIZE
    PROVE  to_block(a) \in Blocks /\ a \in BytesOf(to_block(a))
<1>. DEFINE B == PMMAN_BLOCK_SIZE
            q == a \div B
            r == a % B
<1>1. /\ B \in Nat \ {0} /\ PMMAN_BITS \in Nat \ {0}
      /\ PMMAN_SIZE = PMMAN_BITS * B
  BY Sizes
<1>2. q \in Nat /\ r \in 0 .. B - 1 /\ a = B * q + r
  BY <1>1, DivMod
<1>. HIDE DEF B, q, r
<1>3. q * B <= a /\ a < q * B + B /\ (q + 1) * B = q * B + B
  BY <1>1, <1>2, Z3
<1>4. q * B < PMMAN_BITS * B
  BY <1>1, <1>2, <1>3, Z3
<1>5. q < PMMAN_BITS
  BY <1>1, <1>2, <1>4, MulOrder
<1>6. q \in Blocks
  BY <1>1, <1>2, <1>5 DEF Blocks
<1>7. a \in BytesOf(q)
  BY <1>3, <1>6, BlockBytes DEF B
<1>. QED BY <1>6, <1>7 DEF to_block, q, B

(* The kernel is entered with every section in place, and no byte of them  *)
(* is ever in a block that pmman_alloc may hand out, for every image,      *)
(* machine and memory map (load_elf_kernel, kernel_enter).                 *)
THEOREM KernelAlwaysKept == BootSpec => []KernelKept
<1>1. BootInv => KernelKept
  <2>. SUFFICES ASSUME BootInv PROVE KernelKept
    OBVIOUS
  <2>1. L!KernelIntact
    <3>. DEFINE Alloc == {elf[k] : k \in {n \in DOMAIN elf : elf[n].alloc}}
    <3>. SUFFICES ASSUME lpc = "jump"
                  PROVE  /\ \A k \in DOMAIN elf : elf[k].alloc => InPlace(k)
                         /\ \A s \in Alloc : klow <= s.addr /\ s.addr + s.size <= khigh
                         /\ \E s \in Alloc : s.addr = klow
                         /\ \E s \in Alloc : s.addr + s.size = khigh
      BY DEF L!KernelIntact, InPlace, Content
    <3>1. LoadedUpTo(Len(elf)) /\ elf \in Elfs /\ klow \in Int /\ khigh \in Int
      BY DEF BootInv, LoaderOK
    <3>2. DOMAIN elf = 1 .. Len(elf) /\ Len(elf) \in Nat
      BY <3>1, ImageFacts
    <3>3. \A k \in DOMAIN elf : elf[k].alloc =>
            InPlace(k) /\ klow <= elf[k].addr /\ elf[k].addr + elf[k].size <= khigh
      BY <3>1, <3>2 DEF LoadedUpTo
    <3>4. /\ \E k \in DOMAIN elf : elf[k].alloc /\ elf[k].addr = klow
          /\ \E k \in DOMAIN elf : elf[k].alloc /\ elf[k].addr + elf[k].size = khigh
      BY <3>1, ExtentExact
    <3>. QED BY <3>3, <3>4
  <2>2. ASSUME pc = "done", NEW k \in DOMAIN elf, elf[k].alloc,
               NEW a \in elf[k].addr .. elf[k].addr + elf[k].size - 1
        PROVE  bits[to_block(a)]
    <3>1. /\ MapInv /\ kernel.start = klow /\ kernel.end = khigh
          /\ LoadedUpTo(Len(elf)) /\ elf \in Elfs /\ klow \in Int /\ khigh \in Int
      BY <2>2 DEF BootInv, EnteredOK, LoaderOK
    <3>2. /\ k <= Len(elf) /\ elf[k].addr \in Nat /\ elf[k].size \in Nat
      BY <2>2, <3>1, ImageFacts
    <3>3. klow <= elf[k].addr /\ elf[k].addr + elf[k].size <= khigh
      BY <2>2, <3>1, <3>2 DEF LoadedUpTo
    <3>4. a \in kernel.start .. kernel.end - 1 /\ a \in Nat
      BY <2>2, <3>1, <3>2, <3>3
    <3>5. kernel.end <= PMMAN_SIZE /\ kernel.end \in Nat
      BY <3>1, LayoutAssumption DEF MapInv, TypeOK
    <3>6. a < PMMAN_SIZE
      BY <3>1, <3>4, <3>5, Sizes
    <3>7. to_block(a) \in Blocks /\ a \in BytesOf(to_block(a))
      BY <3>4, <3>6, OwnBlock
    <3>8. KernelProtected
      BY <3>1, MarkedSound
    <3>. QED BY <2>2, <3>4, <3>7, <3>8 DEF KernelProtected
  <2>. QED BY <2>1, <2>2 DEF KernelKept
<1>. QED BY <1>1, BootInvariant, PTL

(* What is proved of the memory manager's start holds of the whole boot:   *)
(* the kernel's extent that the loader hands over is one it can rely on.   *)
THEOREM BootMapSound == BootSpec => [](SortedPermutation /\ ClearInsideMap /\ InitialMapSound)
<1>1. BootInv => SortedPermutation /\ ClearInsideMap /\ InitialMapSound
  <2>. SUFFICES ASSUME BootInv PROVE SortedPermutation /\ ClearInsideMap /\ InitialMapSound
    OBVIOUS
  <2>1. CASE pc # "off"
    BY <2>1, SortedSound, ClearSound, FreeSound, MarkedSound DEF BootInv, EnteredOK, InitialMapSound
  <2>2. CASE pc = "off"
    <3>1. memmap_count = 0
      BY <2>2 DEF BootInv, EnteredOK
    <3>2. \A k : k \notin 1 .. memmap_count
      BY <3>1
    <3>3. SortedPermutation
      BY <3>2 DEF SortedPermutation, Counted
    <3>. QED BY <2>2, <3>3 DEF ClearInsideMap, InitialMapSound, FreeIsUsable, KernelProtected
  <2>. QED BY <2>1, <2>2
<1>. QED BY <1>1, BootInvariant, PTL
=============================================================================
