----------------------------- MODULE DfsProofs -----------------------------
(***************************************************************************)
(* Proofs about the file system, for every command line of write_img, any  *)
(* size of sectors, any paths and any failures of the drive: it implements *)
(* FileStore, and what is read is whole and fits.                          *)
(*                                                                         *)
(* The invariant: there is a list at of LBAs, one per argument, such that  *)
(* the header of argument k is at at[k] and leads to at[k + 1], an option  *)
(* taking no room (Laid); and dfs_fread is at the LBA of an argument before*)
(* which no file has the name it looks for (SearchOK).                     *)
(***************************************************************************)
EXTENDS Dfs, TLAPS, WellFoundedInduction, SequenceTheorems

Sector ==
    {[kind |-> "boot"]}
      \cup [kind : {"header"}, sectors : Nat, next_lba : Nat, name : Names \cup {NoName}]
      \cup [kind : {"data"}, file : Nat, part : Nat]

Calls == [path : Paths, want : BOOLEAN]
Count(k) == SectorCount(args[k].len)

DfsTypeOK ==
    /\ args \in ArgLists
    /\ phase \in {"boot", "files", "ready", "failed"}
    /\ next \in 1 .. Len(args) + 1
    /\ phase = "boot" => next = 1 /\ disk = <<>>
    /\ phase = "ready" => next = Len(args) + 1
    /\ disk \in Seq(Sector)
    /\ call \in Calls \cup {NoCall}
    /\ last \in Calls \cup {NoCall}
    /\ phase # "ready" => call = NoCall /\ last = NoCall
    /\ fresh \in BOOLEAN /\ found \in BOOLEAN /\ faulty \in BOOLEAN

(* File k is on the disk behind LBA at[k].                                 *)
Stored(at, k) ==
    /\ at[k + 1] = at[k] + 1 + Count(k)
    /\ at[k + 1] <= Len(disk)
    /\ disk[at[k] + 1] =
         Header(Count(k), IF k = Len(args) THEN 0 ELSE at[k + 1], args[k].name)
    /\ \A j \in 1 .. Count(k) : disk[at[k] + 1 + j] = Data(k, j)

(* The arguments before next are on the disk.                              *)
Laid(at) ==
    /\ at \in [1 .. next -> Nat \ {0}]
    /\ at[1] = 1
    /\ \A k \in 1 .. next - 1 : IsFile(k) => Stored(at, k)
    /\ \A j, k \in 1 .. next :
         (j < k /\ \A l \in j .. k - 1 : ~IsFile(l)) => at[j] = at[k]
    /\ (phase # "ready" /\ next <= Len(args)) => current_lba = at[next]
    /\ phase = "files" => Len(disk) = at[next]
    /\ phase = "ready" => Len(disk) > at[next] /\ disk[at[next] + 1] = Zero

(* No file before argument k has the name.                                 *)
NoneBefore(k, path) == \A j \in 1 .. k - 1 : IsFile(j) => args[j].name # path

(* Argument k is the first file of the name.                               *)
IsFirst(k, path) ==
    /\ k \in 1 .. Len(args) /\ IsFile(k) /\ args[k].name = path
    /\ NoneBefore(k, path)

(* dfs_fread has come to argument k, or behind the last one.  A header in  *)
(* buf from the drive is the one that led to lba.                          *)
SearchOK(at) ==
    (call # NoCall /\ ~found) =>
      /\ \E k \in 1 .. Len(args) + 1 : lba = at[k] /\ NoneBefore(k, call.path)
      /\ fresh => buf.name # call.path /\ buf.next_lba = lba

FoundOK(at) ==
    (call # NoCall /\ found) =>
      /\ call.want
      /\ \E k \in 1 .. Len(args) :
           IsFirst(k, call.path) /\ lba = at[k] /\ buf.sectors = Count(k)

(* The caller has as much room as the file has sectors.                    *)
RoomOK ==
    (call # NoCall /\ call.want) => \E k \in 1 .. Len(args) : IsFirst(k, call.path) /\ room = Count(k)

ReplyOK ==
    (last # NoCall /\ reply.status = "OK") =>
      \E k \in 1 .. Len(args) : IsFirst(k, last.path) /\ reply.size = Count(k)

FreadOK(at) == SearchOK(at) /\ FoundOK(at) /\ RoomOK /\ ReplyOK

DfsInv ==
    /\ DfsTypeOK
    /\ \E at : Laid(at) /\ (~faulty => FreadOK(at))
-----------------------------------------------------------------------------
(* Numbers and sequences.                                                  *)

(* A set of naturals that is not empty has a least element.                *)
LEMMA NatMin ==
    ASSUME NEW T \in SUBSET Nat, T # {}
    PROVE  \E x \in T : \A y \in T : x <= y
<1>. DEFINE R == OpToRel(<, Nat)
<1>1. IsWellFoundedOn(R, Nat)
  BY NatLessThanWellFounded
<1>2. \A x, y \in Nat : <<x, y>> \in R <=> x < y
  BY DEF OpToRel
<1>. HIDE DEF R
<1>3. PICK x \in T : \A y \in T : ~(<<y, x>> \in R)
  BY <1>1, WFMin
<1>4. ASSUME NEW y \in T PROVE x <= y
  <2>1. x \in Nat /\ y \in Nat
    OBVIOUS
  <2>2. ~(<<y, x>> \in R)
    BY <1>3
  <2>3. ~(y < x)
    BY <1>2, <2>1, <2>2
  <2>. QED BY <2>1, <2>3
<1>. QED BY <1>4

(* A quotient and its remainder.                                           *)
LEMMA DivMod ==
    ASSUME NEW m \in Nat, NEW b \in Nat \ {0}
    PROVE  /\ m \div b \in Nat
           /\ m % b \in 0 .. b - 1
           /\ m = b * (m \div b) + (m % b)
BY Z3

(* write_img's sectors are enough for a file.                              *)
LEMMA SectorsCover ==
    ASSUME NEW len \in Nat
    PROVE  SectorCount(len) \in Nat \ {0} /\ SectorCount(len) * SECTOR >= len
<1>1. SECTOR \in Nat \ {0}
  BY DfsAssumption
<1>. DEFINE q == len \div SECTOR
            r == len % SECTOR
<1>2. q \in Nat /\ r \in 0 .. SECTOR - 1 /\ len = SECTOR * q + r
  BY <1>1, DivMod
<1>3. SectorCount(len) = q + 1
  BY DEF SectorCount
<1>. HIDE DEF q, r
<1>4. (q + 1) * SECTOR = SECTOR * q + SECTOR
  BY <1>1, <1>2, Z3
<1>. QED BY <1>1, <1>2, <1>3, <1>4

(* A sequence with an element and another sequence behind it.              *)
LEMMA Behind ==
    ASSUME NEW S, NEW s \in Seq(S), NEW h \in S, NEW t \in Seq(S)
    PROVE  /\ s \o <<h>> \o t \in Seq(S)
           /\ Len(s \o <<h>> \o t) = Len(s) + 1 + Len(t)
           /\ \A n \in 1 .. Len(s) : (s \o <<h>> \o t)[n] = s[n]
           /\ (s \o <<h>> \o t)[Len(s) + 1] = h
           /\ \A n \in 1 .. Len(t) : (s \o <<h>> \o t)[Len(s) + 1 + n] = t[n]
<1>. DEFINE u == s \o <<h>>
<1>1. u \in Seq(S) /\ Len(u) = Len(s) + 1
  OBVIOUS
<1>2. \A n \in 1 .. Len(s) : u[n] = s[n]
  OBVIOUS
<1>3. u[Len(s) + 1] = h
  OBVIOUS
<1>4. Len(s) \in Nat /\ Len(t) \in Nat
  OBVIOUS
<1>. HIDE DEF u
<1>5. /\ u \o t \in Seq(S)
      /\ Len(u \o t) = Len(u) + Len(t)
  BY <1>1
<1>6. \A n \in 1 .. Len(u) : (u \o t)[n] = u[n]
  BY <1>1
<1>7. \A n \in 1 .. Len(t) : (u \o t)[Len(u) + n] = t[n]
  BY <1>1
<1>. QED BY <1>1, <1>2, <1>3, <1>4, <1>5, <1>6, <1>7 DEF u

-----------------------------------------------------------------------------
(* The command line and the sectors of the image.                          *)

(* The arguments are a sequence of options and of files with a size.       *)
LEMMA ArgFacts ==
    ASSUME args \in ArgLists
    PROVE  /\ Len(args) \in Nat
           /\ \A k \in 1 .. Len(args) : IsFile(k) =>
                args[k].name \in Names /\ args[k].len \in Nat /\ Count(k) \in Nat \ {0}
<1>1. args \in Seq({Option} \cup [name : Names, len : Nat])
  BY DfsAssumption
<1>2. Len(args) \in Nat /\ \A k \in 1 .. Len(args) : args[k] \in {Option} \cup [name : Names, len : Nat]
  BY <1>1
<1>3. ASSUME NEW k \in 1 .. Len(args), IsFile(k)
      PROVE  args[k].name \in Names /\ args[k].len \in Nat /\ Count(k) \in Nat \ {0}
  <2>1. args[k] \in [name : Names, len : Nat]
    BY <1>2, <1>3 DEF IsFile
  <2>2. args[k].name \in Names /\ args[k].len \in Nat
    BY <2>1
  <2>. QED BY <2>2, SectorsCover DEF Count
<1>. QED BY <1>2, <1>3

(* The fields of a header.                                                 *)
LEMMA HeaderFields ==
    ASSUME NEW n, NEW l, NEW name
    PROVE  /\ Header(n, l, name).kind = "header"
           /\ Header(n, l, name).sectors = n
           /\ Header(n, l, name).next_lba = l
           /\ Header(n, l, name).name = name
           /\ (n \in Nat /\ l \in Nat /\ name \in Names \cup {NoName}) =>
                Header(n, l, name) \in Sector
BY DEF Header, Sector

(* The data of a file are a sequence of as many sectors.                   *)
LEMMA ContentsFacts ==
    ASSUME args \in ArgLists, NEW k \in 1 .. Len(args), IsFile(k)
    PROVE  /\ Contents(k) \in Seq(Sector)
           /\ Len(Contents(k)) = Count(k)
           /\ \A j \in 1 .. Count(k) : Contents(k)[j] = Data(k, j)
<1>1. Count(k) \in Nat \ {0} /\ k \in Nat
  BY ArgFacts
<1>2. \A j \in 1 .. Count(k) : Data(k, j) \in Sector
  BY <1>1 DEF Data, Sector
<1>3. Contents(k) = [j \in 1 .. Count(k) |-> Data(k, j)]
  BY DEF Contents, Count
<1>. DEFINE c == Count(k)
<1>. HIDE DEF c
<1>4. c \in Nat /\ [j \in 1 .. c |-> Data(k, j)] \in [1 .. c -> Sector]
  BY <1>1, <1>2 DEF c
<1>5. [j \in 1 .. c |-> Data(k, j)] \in Seq(Sector) /\ Len([j \in 1 .. c |-> Data(k, j)]) = c
  BY <1>4
<1>. QED BY <1>3, <1>5 DEF c

-----------------------------------------------------------------------------
(* write_img.                                                              *)

(* A list of LBAs with one more.                                           *)
Extends(at, n, v) ==
    \E new \in [1 .. n + 1 -> Nat \ {0}] :
        (\A k \in 1 .. n : new[k] = at[k]) /\ new[n + 1] = v

LEMMA OneMore ==
    ASSUME NEW n \in Nat \ {0}, NEW at \in [1 .. n -> Nat \ {0}], NEW v \in Nat \ {0}
    PROVE  Extends(at, n, v)
<1>. DEFINE new == [k \in 1 .. n + 1 |-> IF k <= n THEN at[k] ELSE v]
<1>1. new \in [1 .. n + 1 -> Nat \ {0}]
  OBVIOUS
<1>2. (\A k \in 1 .. n : new[k] = at[k]) /\ new[n + 1] = v
  OBVIOUS
<1>. QED BY <1>1, <1>2, Zenon DEF Extends

(* While the image is written nobody reads.                                *)
LEMMA NotReading ==
    ASSUME NEW at, call = NoCall, last = NoCall
    PROVE  FreadOK(at)
BY DEF FreadOK, SearchOK, FoundOK, RoomOK, ReplyOK

LEMMA InitInv == Init => DfsInv
<1>. SUFFICES ASSUME Init PROVE DfsInv
  OBVIOUS
<1>. USE DEF Init
<1>1. Len(args) \in Nat
  BY ArgFacts
<1>2. DfsTypeOK
  <2>1. next \in 1 .. Len(args) + 1
    BY <1>1
  <2>2. disk \in Seq(Sector) /\ disk = <<>>
    OBVIOUS
  <2>3. call = NoCall /\ last = NoCall /\ fresh = FALSE /\ found = FALSE /\ faulty = FALSE
    OBVIOUS
  <2>4. phase = "boot" /\ phase # "ready" /\ next = 1 /\ args \in ArgLists
    OBVIOUS
  <2>. QED BY <2>1, <2>2, <2>3, <2>4 DEF DfsTypeOK
<1>. DEFINE at == [k \in 1 .. 1 |-> 1]
<1>3. at \in [1 .. next -> Nat \ {0}] /\ at[1] = 1
  OBVIOUS
<1>. HIDE DEF at
<1>4. Laid(at)
  BY <1>1, <1>3 DEF Laid
<1>. QED BY <1>2, <1>4, NotReading DEF DfsInv

LEMMA WriteBootsectorInv == DfsInv /\ WriteBootsector => DfsInv'
<1>. SUFFICES ASSUME DfsInv, WriteBootsector PROVE DfsInv'
  OBVIOUS
<1>. USE DEF WriteBootsector, wvars, rvars
<1>1. PICK at : Laid(at)
  BY DEF DfsInv
<1>2. DfsTypeOK /\ Len(args) \in Nat
  BY ArgFacts DEF DfsInv, DfsTypeOK
<1>3. next = 1
  BY <1>2 DEF DfsTypeOK
<1>4. disk' \in Seq(Sector) /\ Len(disk') = 1
  BY DEF Sector
<1>5. DfsTypeOK'
  BY <1>2, <1>4 DEF DfsTypeOK
<1>6. Laid(at)'
  BY <1>1, <1>2, <1>3, <1>4 DEF Laid
<1>7. call' = NoCall /\ last' = NoCall
  BY <1>2 DEF DfsTypeOK
<1>8. FreadOK(at)'
  BY <1>7 DEF FreadOK, SearchOK, FoundOK, RoomOK, ReplyOK
<1>. QED BY <1>5, <1>6, <1>8 DEF DfsInv

(* What is on the disk stays there when it grows.                          *)
LEMMA StaysStored ==
    ASSUME DfsTypeOK, NEW at, NEW at2, NEW k \in 1 .. Len(args), IsFile(k), Stored(at, k),
           UNCHANGED args, Len(disk') \in Nat, Len(disk') >= Len(disk),
           \A n \in 1 .. Len(disk) : disk'[n] = disk[n],
           at[k] \in Nat, at2[k] = at[k], at2[k + 1] = at[k + 1]
    PROVE  Stored(at2, k)'
<1>1. Count(k) \in Nat \ {0} /\ Len(args) \in Nat /\ Len(disk) \in Nat
  BY ArgFacts DEF DfsTypeOK
<1>2. Count(k)' = Count(k)
  BY DEF Count
<1>3. at[k] + 1 \in 1 .. Len(disk) /\ \A j \in 1 .. Count(k) : at[k] + 1 + j \in 1 .. Len(disk)
  <2>1. at[k + 1] = at[k] + 1 + Count(k) /\ at[k + 1] <= Len(disk)
    BY DEF Stored
  <2>. QED BY <1>1, <2>1, SMTT(20)
<1>4. disk'[at[k] + 1] = disk[at[k] + 1]
  BY <1>3
<1>5. \A j \in 1 .. Count(k) : disk'[at[k] + 1 + j] = disk[at[k] + 1 + j]
  BY <1>3
<1>6. /\ at2[k + 1] = at2[k] + 1 + Count(k)
      /\ at2[k + 1] <= Len(disk')
      /\ at2[k + 1] = at[k] + 1 + Count(k)
  BY <1>1 DEF Stored
<1>7. disk'[at2[k] + 1] = Header(Count(k), IF k = Len(args) THEN 0 ELSE at2[k + 1], args[k].name)
  BY <1>4 DEF Stored
<1>8. \A j \in 1 .. Count(k) : disk'[at2[k] + 1 + j] = Data(k, j)
  BY <1>5 DEF Stored
<1>. QED BY <1>2, <1>6, <1>7, <1>8 DEF Stored

LEMMA WriteFileInv == DfsInv /\ WriteFile => DfsInv'
<1>. SUFFICES ASSUME DfsInv, WriteFile PROVE DfsInv'
  OBVIOUS
<1>0. PICK m : m = next
  OBVIOUS
<1>1. PICK at : Laid(at)
  BY DEF DfsInv
<1>2. DfsTypeOK /\ Len(args) \in Nat /\ next \in 1 .. Len(args) /\ IsFile(next) /\ phase = "files"
  BY ArgFacts DEF DfsInv, DfsTypeOK, WriteFile
<1>3. /\ at \in [1 .. next -> Nat \ {0}]
      /\ current_lba = at[next] /\ Len(disk) = at[next] /\ at[next] \in Nat \ {0}
  BY <1>1, <1>2 DEF Laid
<1>4. Count(next) \in Nat \ {0} /\ args[next].name \in Names
  BY <1>2, ArgFacts DEF DfsTypeOK
<1>. DEFINE new_lba == at[next] + 1 + Count(next)
            next_lba == IF next = Len(args) THEN 0 ELSE new_lba
            h == Header(Count(next), next_lba, args[next].name)
<1>5. new_lba \in Nat \ {0} /\ next_lba \in Nat
  BY <1>3, <1>4
<1>6. /\ UNCHANGED <<args, phase, rvars>>
      /\ next' = next + 1
      /\ current_lba' = next_lba
      /\ disk' = disk \o <<h>> \o Contents(next)
  BY <1>2, <1>3 DEF WriteFile, NextLba, Count
<1>7. h \in Sector /\ disk \in Seq(Sector)
  BY <1>2, <1>4, <1>5, HeaderFields DEF DfsTypeOK
<1>8. /\ Contents(next) \in Seq(Sector)
      /\ Len(Contents(next)) = Count(next)
      /\ \A j \in 1 .. Count(next) : Contents(next)[j] = Data(next, j)
  BY <1>2, ContentsFacts DEF DfsTypeOK
<1>. DEFINE c == Contents(next)
<1>. HIDE DEF h, next_lba, new_lba, c
<1>9. /\ disk' \in Seq(Sector)
      /\ Len(disk') = Len(disk) + 1 + Count(next)
      /\ \A n \in 1 .. Len(disk) : disk'[n] = disk[n]
      /\ disk'[Len(disk) + 1] = h
      /\ \A j \in 1 .. Count(next) : disk'[Len(disk) + 1 + j] = Contents(next)[j]
  <2>1. c \in Seq(Sector) /\ Len(c) = Count(next) /\ disk' = disk \o <<h>> \o c
    BY <1>6, <1>8 DEF c
  <2>2. /\ disk \o <<h>> \o c \in Seq(Sector)
        /\ Len(disk \o <<h>> \o c) = Len(disk) + 1 + Len(c)
        /\ \A n \in 1 .. Len(disk) : (disk \o <<h>> \o c)[n] = disk[n]
        /\ (disk \o <<h>> \o c)[Len(disk) + 1] = h
        /\ \A n \in 1 .. Len(c) : (disk \o <<h>> \o c)[Len(disk) + 1 + n] = c[n]
    BY <1>7, <2>1, Behind
  <2>. QED BY <2>1, <2>2 DEF c
<1>10. PICK at2 \in [1 .. next + 1 -> Nat \ {0}] :
         (\A k \in 1 .. next : at2[k] = at[k]) /\ at2[next + 1] = new_lba
  <2>1. next \in Nat \ {0}
    BY <1>2
  <2>2. Extends(at, next, new_lba)
    BY <2>1, <1>3, <1>5, OneMore
  <2>. QED BY <2>2, Zenon DEF Extends
<1>11. Stored(at2, m)'
  <2>1. Count(m)' = Count(m)
    BY <1>6 DEF Count
  <2>2. at2[m] = at[m] /\ at2[m + 1] = at[m] + 1 + Count(m) /\ at2[m + 1] = Len(disk')
    BY <1>2, <1>0, <1>3, <1>9, <1>10 DEF new_lba
  <2>3. disk'[at2[m] + 1] =
          Header(Count(m), IF m = Len(args) THEN 0 ELSE at2[m + 1], args[m].name)
    BY <2>2, <1>0, <1>3, <1>9, <1>10 DEF h, next_lba
  <2>4. \A j \in 1 .. Count(m) : disk'[at2[m] + 1 + j] = Data(m, j)
    <3>1. at2[m] = Len(disk)
      BY <2>2, <1>0, <1>3
    <3>2. ASSUME NEW j \in 1 .. Count(next) PROVE disk'[Len(disk) + 1 + j] = Data(next, j)
      BY <1>8, <1>9, Zenon
    <3>. QED BY <3>1, <3>2, <1>0, Zenon
  <2>5. at2[m + 1] <= Len(disk')
    BY <2>2, <1>0, <1>3, <1>4
  <2>. QED BY <2>1, <2>2, <2>3, <2>4, <2>5, <1>6 DEF Stored
<1>12. \A k \in 1 .. next : IsFile(k)' => Stored(at2, k)'
  <2>. SUFFICES ASSUME NEW k \in 1 .. next, IsFile(k)' PROVE Stored(at2, k)'
    OBVIOUS
  <2>1. IsFile(k)
    BY <1>6 DEF IsFile
  <2>2. CASE k = m
    BY <1>11, <2>2
  <2>3. CASE k # m
    <3>1. k \in 1 .. next - 1 /\ k \in 1 .. Len(args) /\ k + 1 \in 1 .. next /\ k \in 1 .. next
      BY <1>0, <1>2, <2>3
    <3>2. Stored(at, k) /\ at[k] \in Nat
      BY <1>1, <1>3, <2>1, <3>1 DEF Laid
    <3>3. at2[k] = at[k] /\ at2[k + 1] = at[k + 1]
      BY <1>10, <3>1
    <3>4. Len(disk') \in Nat /\ Len(disk') >= Len(disk) /\ UNCHANGED args
      BY <1>3, <1>4, <1>6, <1>9
    <3>. QED BY <1>2, <1>9, <2>1, <3>1, <3>2, <3>3, <3>4, StaysStored
  <2>. QED BY <2>2, <2>3
<1>13. \A j, k \in 1 .. next + 1 :
         (j < k /\ \A l \in j .. k - 1 : ~IsFile(l)) => at2[j] = at2[k]
  <2>. SUFFICES ASSUME NEW j \in 1 .. next + 1, NEW k \in 1 .. next + 1, j < k,
                       \A l \in j .. k - 1 : ~IsFile(l)
                PROVE  at2[j] = at2[k]
    OBVIOUS
  <2>1. k # next + 1
    BY <1>2
  <2>2. j \in 1 .. next /\ k \in 1 .. next
    BY <1>2, <2>1
  <2>3. at[j] = at[k]
    BY <1>1, <2>2 DEF Laid
  <2>. QED BY <2>2, <2>3, <1>10
<1>14. \A k : IsFile(k)' <=> IsFile(k)
  BY <1>6 DEF IsFile
<1>15. DfsTypeOK'
  BY <1>2, <1>6, <1>9 DEF DfsTypeOK, rvars
<1>16. Laid(at2)'
  <2>1. next' - 1 = next /\ 1 \in 1 .. next
    BY <1>2, <1>6
  <2>2. at2[1] = 1
    BY <2>1, <1>1, <1>10 DEF Laid
  <2>3. \A k \in 1 .. next' - 1 : IsFile(k)' => Stored(at2, k)'
    BY <2>1, <1>12
  <2>4. \A j, k \in 1 .. next' :
          (j < k /\ \A l \in j .. k - 1 : ~IsFile(l)') => at2[j] = at2[k]
    BY <1>6, <1>13, <1>14
  <2>5. next' <= Len(args)' => current_lba' = at2[next']
    BY <1>2, <1>6, <1>10 DEF next_lba
  <2>6. Len(disk') = at2[next'] /\ phase' = "files"
    BY <1>2, <1>3, <1>6, <1>9, <1>10 DEF new_lba
  <2>7. at2 \in [1 .. next' -> Nat \ {0}]
    BY <1>6, <1>10
  <2>. QED BY <2>2, <2>3, <2>4, <2>5, <2>6, <2>7 DEF Laid
<1>17. call' = NoCall /\ last' = NoCall
  BY <1>2, <1>6 DEF DfsTypeOK, rvars
<1>18. FreadOK(at2)'
  BY <1>17 DEF FreadOK, SearchOK, FoundOK, RoomOK, ReplyOK
<1>. QED BY <1>15, <1>16, <1>18 DEF DfsInv

LEMMA SkipOptionInv == DfsInv /\ SkipOption => DfsInv'
<1>. SUFFICES ASSUME DfsInv, SkipOption PROVE DfsInv'
  OBVIOUS
<1>1. PICK at : Laid(at)
  BY DEF DfsInv
<1>2. DfsTypeOK /\ Len(args) \in Nat /\ next \in 1 .. Len(args) /\ ~IsFile(next) /\ phase = "files"
  BY ArgFacts DEF DfsInv, DfsTypeOK, SkipOption
<1>3. /\ at \in [1 .. next -> Nat \ {0}]
      /\ current_lba = at[next] /\ Len(disk) = at[next] /\ at[next] \in Nat \ {0}
  BY <1>1, <1>2 DEF Laid
<1>4. /\ UNCHANGED <<args, current_lba, disk, phase, rvars>>
      /\ next' = next + 1
  BY DEF SkipOption
<1>5. PICK at2 \in [1 .. next + 1 -> Nat \ {0}] :
         (\A k \in 1 .. next : at2[k] = at[k]) /\ at2[next + 1] = at[next]
  <2>1. next \in Nat \ {0}
    BY <1>2
  <2>2. Extends(at, next, at[next])
    BY <2>1, <1>3, OneMore
  <2>. QED BY <2>2, Zenon DEF Extends
<1>6. \A k \in 1 .. next : IsFile(k)' => Stored(at2, k)'
  <2>. SUFFICES ASSUME NEW k \in 1 .. next, IsFile(k)' PROVE Stored(at2, k)'
    OBVIOUS
  <2>1. IsFile(k)
    BY <1>4 DEF IsFile
  <2>2. k \in 1 .. next - 1 /\ k \in 1 .. Len(args) /\ k + 1 \in 1 .. next /\ k \in 1 .. next
    BY <1>2, <2>1
  <2>3. Stored(at, k) /\ at[k] \in Nat
    BY <1>1, <1>3, <2>1, <2>2 DEF Laid
  <2>4. at2[k] = at[k] /\ at2[k + 1] = at[k + 1]
    BY <1>5, <2>2
  <2>5. /\ Len(disk') \in Nat /\ Len(disk') >= Len(disk) /\ UNCHANGED args
        /\ \A n \in 1 .. Len(disk) : disk'[n] = disk[n]
    BY <1>3, <1>4
  <2>. QED BY <1>2, <2>1, <2>2, <2>3, <2>4, <2>5, StaysStored
<1>7. \A j, k \in 1 .. next + 1 :
         (j < k /\ \A l \in j .. k - 1 : ~IsFile(l)) => at2[j] = at2[k]
  <2>. SUFFICES ASSUME NEW j \in 1 .. next + 1, NEW k \in 1 .. next + 1, j < k,
                       \A l \in j .. k - 1 : ~IsFile(l)
                PROVE  at2[j] = at2[k]
    OBVIOUS
  <2>1. j \in 1 .. next /\ next \in 1 .. next
    BY <1>2
  <2>2. CASE k # next + 1
    <3>1. k \in 1 .. next
      BY <1>2, <2>2
    <3>2. at[j] = at[k]
      BY <1>1, <2>1, <3>1 DEF Laid
    <3>. QED BY <2>1, <3>1, <3>2, <1>5
  <2>3. CASE k = next + 1 /\ j = next
    BY <1>5, <2>1, <2>3
  <2>4. CASE k = next + 1 /\ j # next
    <3>1. j < next /\ \A l \in j .. next - 1 : l \in j .. k - 1
      BY <1>2, <2>1, <2>4
    <3>2. at[j] = at[next]
      BY <1>1, <2>1, <3>1 DEF Laid
    <3>. QED BY <2>1, <2>4, <3>2, <1>5
  <2>. QED BY <2>2, <2>3, <2>4
<1>8. \A k : IsFile(k)' <=> IsFile(k)
  BY <1>4 DEF IsFile
<1>9. DfsTypeOK'
  BY <1>2, <1>4 DEF DfsTypeOK, rvars
<1>10. Laid(at2)'
  <2>1. next' - 1 = next /\ 1 \in 1 .. next /\ next \in 1 .. next
    BY <1>2, <1>4
  <2>2. at2[1] = 1
    BY <2>1, <1>1, <1>5 DEF Laid
  <2>3. \A k \in 1 .. next' - 1 : IsFile(k)' => Stored(at2, k)'
    BY <2>1, <1>6
  <2>4. \A j, k \in 1 .. next' :
          (j < k /\ \A l \in j .. k - 1 : ~IsFile(l)') => at2[j] = at2[k]
    BY <1>4, <1>7, <1>8
  <2>5. current_lba' = at2[next'] /\ Len(disk') = at2[next'] /\ phase' = "files"
    BY <1>2, <1>3, <1>4, <1>5
  <2>6. at2 \in [1 .. next' -> Nat \ {0}]
    BY <1>4, <1>5
  <2>. QED BY <2>2, <2>3, <2>4, <2>5, <2>6 DEF Laid
<1>11. call' = NoCall /\ last' = NoCall
  BY <1>2, <1>4 DEF DfsTypeOK, rvars
<1>12. FreadOK(at2)'
  BY <1>11 DEF FreadOK, SearchOK, FoundOK, RoomOK, ReplyOK
<1>. QED BY <1>9, <1>10, <1>12 DEF DfsInv

LEMMA WritePaddingInv == DfsInv /\ WritePadding => DfsInv'
<1>. SUFFICES ASSUME DfsInv, WritePadding PROVE DfsInv'
  OBVIOUS
<1>1. PICK at : Laid(at)
  BY DEF DfsInv
<1>2. DfsTypeOK /\ Len(args) \in Nat /\ next = Len(args) + 1 /\ phase = "files"
  BY ArgFacts DEF DfsInv, DfsTypeOK, WritePadding
<1>3. at \in [1 .. next -> Nat \ {0}] /\ Len(disk) = at[next] /\ at[next] \in Nat \ {0}
  BY <1>1, <1>2 DEF Laid
<1>. DEFINE zeros == [k \in 1 .. PADDING |-> Zero]
<1>4. UNCHANGED <<args, next, current_lba, rvars>> /\ disk' = disk \o zeros /\ phase' = "ready"
  BY DEF WritePadding
<1>5. PADDING \in Nat \ {0}
  BY DfsAssumption
<1>6. Zero \in Sector
  BY HeaderFields DEF Zero
<1>7. zeros \in Seq(Sector) /\ Len(zeros) = PADDING /\ zeros[1] = Zero
  BY <1>5, <1>6
<1>8. disk \in Seq(Sector)
  BY <1>2 DEF DfsTypeOK
<1>. HIDE DEF zeros
<1>9. /\ disk' \in Seq(Sector)
      /\ Len(disk') = Len(disk) + PADDING
      /\ \A n \in 1 .. Len(disk) : disk'[n] = disk[n]
      /\ disk'[Len(disk) + 1] = Zero
  <2>1. disk \o zeros \in Seq(Sector) /\ Len(disk \o zeros) = Len(disk) + Len(zeros)
    BY <1>7, <1>8
  <2>2. \A n \in 1 .. Len(disk) : (disk \o zeros)[n] = disk[n]
    BY <1>7, <1>8
  <2>3. \A n \in 1 .. Len(zeros) : (disk \o zeros)[Len(disk) + n] = zeros[n]
    BY <1>7, <1>8
  <2>4. 1 \in 1 .. Len(zeros)
    BY <1>5, <1>7
  <2>5. (disk \o zeros)[Len(disk) + 1] = Zero
    BY <1>7, <2>3, <2>4
  <2>. QED BY <1>4, <1>7, <2>1, <2>2, <2>5, Zenon
<1>10. DfsTypeOK'
  BY <1>2, <1>4, <1>9 DEF DfsTypeOK, rvars
<1>11. \A k \in 1 .. next - 1 : IsFile(k)' => Stored(at, k)'
  <2>. SUFFICES ASSUME NEW k \in 1 .. next - 1, IsFile(k)' PROVE Stored(at, k)'
    OBVIOUS
  <2>1. IsFile(k)
    BY <1>4 DEF IsFile
  <2>2. k \in 1 .. Len(args) /\ k \in 1 .. next
    BY <1>2
  <2>3. Stored(at, k) /\ at[k] \in Nat
    BY <1>1, <1>3, <2>1, <2>2 DEF Laid
  <2>4. Len(disk') \in Nat /\ Len(disk') >= Len(disk)
    <3>1. Len(disk) \in Nat
      BY <1>3
    <3>. QED BY <1>5, <1>9, <3>1
  <2>5. UNCHANGED args
    BY <1>4
  <2>. QED BY <1>2, <1>9, <2>5, <2>1, <2>2, <2>3, <2>4, StaysStored
<1>12. \A k : IsFile(k)' <=> IsFile(k)
  BY <1>4 DEF IsFile
<1>13. Laid(at)'
  <2>1. \A k \in 1 .. next' - 1 : IsFile(k)' => Stored(at, k)'
    BY <1>4, <1>11
  <2>2. \A j, k \in 1 .. next' :
          (j < k /\ \A l \in j .. k - 1 : ~IsFile(l)') => at[j] = at[k]
    BY <1>1, <1>4, <1>12 DEF Laid
  <2>3. Len(disk') > at[next'] /\ disk'[at[next'] + 1] = Zero /\ phase' = "ready"
    BY <1>3, <1>4, <1>5, <1>9
  <2>4. at \in [1 .. next' -> Nat \ {0}] /\ at[1] = 1
    BY <1>1, <1>4 DEF Laid
  <2>. QED BY <2>1, <2>2, <2>3, <2>4 DEF Laid
<1>14. call' = NoCall /\ last' = NoCall
  BY <1>2, <1>4 DEF DfsTypeOK, rvars
<1>15. FreadOK(at)'
  BY <1>14 DEF FreadOK, SearchOK, FoundOK, RoomOK, ReplyOK
<1>. QED BY <1>10, <1>13, <1>15 DEF DfsInv

(* Giving up leaves the chain as far as it is, and nobody reads it.        *)
LEMMA WriteFailsInv == DfsInv /\ WriteFails => DfsInv'
<1>. SUFFICES ASSUME DfsInv, WriteFails PROVE DfsInv'
  OBVIOUS
<1>1. PICK at : Laid(at)
  BY DEF DfsInv
<1>2. DfsTypeOK /\ phase # "ready"
  BY DEF DfsInv, WriteFails
<1>3. UNCHANGED <<args, next, current_lba, disk, rvars>> /\ phase' = "failed"
  BY DEF WriteFails
<1>4. DfsTypeOK'
  BY <1>2, <1>3 DEF DfsTypeOK, rvars
<1>5. \A k : (IsFile(k)' <=> IsFile(k)) /\ (Stored(at, k)' <=> Stored(at, k))
  BY <1>3 DEF IsFile, Stored, Count
<1>6. Laid(at)'
  BY <1>1, <1>2, <1>3, <1>5 DEF Laid
<1>7. call' = NoCall /\ last' = NoCall
  BY <1>2, <1>3 DEF DfsTypeOK, rvars
<1>8. FreadOK(at)'
  BY <1>7 DEF FreadOK, SearchOK, FoundOK, RoomOK, ReplyOK
<1>. QED BY <1>4, <1>6, <1>8 DEF DfsInv

-----------------------------------------------------------------------------
(* dfs_fread.                                                              *)

(* Reading changes nothing on the disk.                                    *)
LEMMA SameDisk ==
    ASSUME NEW at, Laid(at), UNCHANGED wvars
    PROVE  Laid(at)'
<1>1. UNCHANGED <<args, next, current_lba, disk, phase>>
  BY DEF wvars
<1>2. \A k : (IsFile(k)' <=> IsFile(k)) /\ Count(k)' = Count(k)
  BY <1>1 DEF IsFile, Count
<1>3. \A k : Stored(at, k)' <=> Stored(at, k)
  BY <1>1, <1>2 DEF Stored
<1>. QED BY <1>1, <1>2, <1>3 DEF Laid

LEMMA SameFiles ==
    ASSUME UNCHANGED wvars, NEW k, NEW path
    PROVE  /\ IsFirst(k, path)' <=> IsFirst(k, path)
           /\ NoneBefore(k, path)' <=> NoneBefore(k, path)
           /\ Count(k)' = Count(k)
           /\ UNCHANGED args
BY DEF wvars, IsFirst, NoneBefore, IsFile, Count

(* From an LBA of the list, skipping options: that of a file or of the end.*)
LEMMA NextHeader ==
    ASSUME DfsTypeOK, NEW at, Laid(at), phase = "ready",
           NEW path, NEW k \in 1 .. Len(args) + 1, NoneBefore(k, path)
    PROVE  \E m \in 1 .. Len(args) + 1 :
             /\ at[m] = at[k] /\ NoneBefore(m, path)
             /\ m <= Len(args) => IsFile(m)
<1>1. Len(args) \in Nat /\ next = Len(args) + 1
  BY ArgFacts DEF DfsTypeOK
<1>. DEFINE T == {m \in k .. Len(args) + 1 : m <= Len(args) => IsFile(m)}
<1>2. Len(args) + 1 \in T /\ T \in SUBSET Nat
  BY <1>1
<1>3. \A m : m \in T <=> m \in k .. Len(args) + 1 /\ (m <= Len(args) => IsFile(m))
  OBVIOUS
<1>. HIDE DEF T
<1>4. PICK m \in T : \A l \in T : m <= l
  BY <1>2, NatMin
<1>5. m \in k .. Len(args) + 1 /\ (m <= Len(args) => IsFile(m)) /\ m \in 1 .. Len(args) + 1
  BY <1>1, <1>3, <1>4
<1>6. \A l \in k .. m - 1 : ~IsFile(l)
  <2>. SUFFICES ASSUME NEW l \in k .. m - 1, IsFile(l) PROVE FALSE
    OBVIOUS
  <2>1. l \in k .. Len(args) + 1 /\ l < m
    BY <1>1, <1>5
  <2>2. l \in T
    BY <1>3, <2>1
  <2>3. m <= l
    BY <1>4, <2>2
  <2>. QED BY <1>5, <2>1, <2>3
<1>7. at[k] = at[m]
  <2>1. CASE k = m
    BY <2>1
  <2>2. CASE k # m
    <3>1. k < m /\ k \in 1 .. next /\ m \in 1 .. next
      BY <1>1, <1>5, <2>2
    <3>. QED BY <1>6, <3>1 DEF Laid
  <2>. QED BY <2>1, <2>2
<1>8. NoneBefore(m, path)
  <2>. SUFFICES ASSUME NEW j \in 1 .. m - 1, IsFile(j) PROVE args[j].name # path
    BY DEF NoneBefore
  <2>1. j \notin k .. m - 1
    BY <1>6
  <2>2. j \in 1 .. k - 1
    BY <1>1, <1>5, <2>1
  <2>. QED BY <2>2 DEF NoneBefore
<1>. QED BY <1>5, <1>7, <1>8

(* What the header at an LBA of the list says.                             *)
Leads(at, s, l, path) ==
    /\ s.kind = "header"
    /\ s.name = path =>
         \E m \in 1 .. Len(args) : IsFirst(m, path) /\ l = at[m] /\ s.sectors = Count(m)
    /\ (s.name # path /\ s.next_lba = 0) => NoneBefore(Len(args) + 1, path)
    /\ (s.name # path /\ s.next_lba # 0) =>
         \E m \in 1 .. Len(args) + 1 : s.next_lba = at[m] /\ NoneBefore(m, path)

LEMMA HeaderLeads ==
    ASSUME DfsTypeOK, NEW at, Laid(at), phase = "ready",
           NEW path \in Paths, NEW k \in 1 .. Len(args) + 1, NoneBefore(k, path)
    PROVE  Leads(at, disk[at[k] + 1], at[k], path)
<1>1. Len(args) \in Nat /\ next = Len(args) + 1
  BY ArgFacts DEF DfsTypeOK
<1>2. PICK m \in 1 .. Len(args) + 1 :
        /\ at[m] = at[k] /\ NoneBefore(m, path)
        /\ m <= Len(args) => IsFile(m)
  BY NextHeader
<1>. DEFINE s == disk[at[m] + 1]
<1>3. CASE m = Len(args) + 1
  <2>1. s = Zero
    BY <1>1, <1>3 DEF Laid
  <2>2. s.kind = "header" /\ s.name = NoName /\ s.next_lba = 0
    BY <2>1, HeaderFields DEF Zero
  <2>3. NoName # path
    BY DfsAssumption
  <2>. HIDE DEF s
  <2>4. Leads(at, s, at[k], path)
    BY <1>2, <1>3, <2>2, <2>3 DEF Leads
  <2>. QED BY <1>2, <2>4 DEF s
<1>4. CASE m # Len(args) + 1
  <2>1. m \in 1 .. Len(args) /\ IsFile(m) /\ m \in 1 .. next - 1 /\ m + 1 \in 1 .. Len(args) + 1
    BY <1>1, <1>2, <1>4
  <2>2. Stored(at, m)
    BY <2>1 DEF Laid
  <2>3. /\ s.kind = "header" /\ s.name = args[m].name /\ s.sectors = Count(m)
        /\ s.next_lba = IF m = Len(args) THEN 0 ELSE at[m + 1]
    BY <2>2, HeaderFields DEF Stored
  <2>. HIDE DEF s
  <2>4. s.name = path => IsFirst(m, path)
    BY <1>2, <2>1, <2>3 DEF IsFirst
  <2>5. s.name # path => NoneBefore(m + 1, path)
    <3>. SUFFICES ASSUME s.name # path, NEW j \in 1 .. m, IsFile(j) PROVE args[j].name # path
      BY <1>1, <2>1 DEF NoneBefore
    <3>1. CASE j = m
      BY <2>3, <3>1
    <3>2. CASE j # m
      <4>1. j \in 1 .. m - 1
        BY <2>1, <3>2
      <4>. QED BY <1>2, <4>1 DEF NoneBefore
    <3>. QED BY <3>1, <3>2
  <2>6. at[m + 1] # 0
    BY <1>1, <2>1 DEF Laid
  <2>7. (s.name # path /\ s.next_lba = 0) => NoneBefore(Len(args) + 1, path)
    BY <2>3, <2>5, <2>6
  <2>8. (s.name # path /\ s.next_lba # 0) =>
          \E n \in 1 .. Len(args) + 1 : s.next_lba = at[n] /\ NoneBefore(n, path)
    BY <2>1, <2>3, <2>5
  <2>9. s.name = path =>
          \E n \in 1 .. Len(args) : IsFirst(n, path) /\ at[k] = at[n] /\ s.sectors = Count(n)
    BY <1>2, <2>1, <2>3, <2>4
  <2>10. Leads(at, s, at[k], path)
    BY <2>3, <2>7, <2>8, <2>9 DEF Leads
  <2>. QED BY <1>2, <2>10 DEF s
<1>. QED BY <1>3, <1>4

(* What a step leaves alone.                                               *)
LEMMA KeepRoom == RoomOK /\ UNCHANGED <<wvars, call, room>> => RoomOK'
BY DEF RoomOK, IsFirst, NoneBefore, IsFile, Count, wvars

LEMMA KeepReply == ReplyOK /\ UNCHANGED <<wvars, last, reply>> => ReplyOK'
BY DEF ReplyOK, IsFirst, NoneBefore, IsFile, Count, wvars

(* A call begins: at the first LBA, with what the caller has room for.     *)
LEMMA FreadInv ==
    ASSUME DfsInv, phase = "ready", NEW path \in Paths, NEW want \in BOOLEAN, Fread(path, want),
           (~faulty /\ want) =>
             \E k \in 1 .. Len(args) : IsFirst(k, path) /\ room' = Count(k)
    PROVE  DfsInv'
<1>1. PICK at : Laid(at) /\ (~faulty => FreadOK(at))
  BY DEF DfsInv
<1>2. DfsTypeOK /\ Len(args) \in Nat
  BY ArgFacts DEF DfsInv, DfsTypeOK
<1>3. /\ UNCHANGED wvars /\ last' = last /\ reply' = reply /\ faulty' = faulty
      /\ call' = [path |-> path, want |-> want] /\ lba' = 1 /\ fresh' = FALSE /\ found' = FALSE
  BY DEF Fread
<1>4. call' \in Calls /\ call'.path = path /\ call'.want = want
  BY <1>3 DEF Calls
<1>5. UNCHANGED <<args, next, current_lba, disk, phase>>
  BY <1>3 DEF wvars
<1>6. DfsTypeOK'
  BY <1>2, <1>3, <1>4, <1>5 DEF DfsTypeOK
<1>7. Laid(at)'
  BY <1>1, <1>3, SameDisk
<1>8. ASSUME ~faulty' PROVE FreadOK(at)'
  <2>1. SearchOK(at)'
    <3>1. at[1] = 1 /\ 1 \in 1 .. Len(args)' + 1
      BY <1>1, <1>2, <1>5 DEF Laid
    <3>2. NoneBefore(1, call.path)'
      BY DEF NoneBefore
    <3>. QED BY <1>3, <3>1, <3>2 DEF SearchOK
  <2>2. FoundOK(at)'
    BY <1>3 DEF FoundOK
  <2>3. RoomOK'
    BY <1>3, <1>4, <1>5, <1>8 DEF RoomOK, IsFirst, NoneBefore, IsFile, Count
  <2>4. ReplyOK'
    BY <1>1, <1>3, <1>8, KeepReply DEF FreadOK
  <2>. QED BY <2>1, <2>2, <2>3, <2>4 DEF FreadOK
<1>. QED BY <1>6, <1>7, <1>8 DEF DfsInv

LEMMA FreadSizeInv == DfsInv /\ FreadSize => DfsInv'
<1>. SUFFICES ASSUME DfsInv, FreadSize PROVE DfsInv'
  OBVIOUS
<1>1. PICK path \in Paths : Fread(path, FALSE)
  BY DEF FreadSize
<1>. QED BY <1>1, FreadInv DEF FreadSize

LEMMA FreadDataInv == DfsInv /\ FreadData => DfsInv'
<1>. SUFFICES ASSUME DfsInv, FreadData PROVE DfsInv'
  OBVIOUS
<1>1. last \in Calls /\ last # NoCall /\ phase = "ready" /\ reply.status = "OK" /\ room' = reply.size
  BY DEF DfsInv, DfsTypeOK, FreadData
<1>2. PICK path : path = last.path
  OBVIOUS
<1>3. path \in Paths /\ Fread(path, TRUE)
  BY <1>1, <1>2 DEF FreadData, Calls
<1>4. ~faulty => \E k \in 1 .. Len(args) : IsFirst(k, path) /\ room' = Count(k)
  BY <1>1, <1>2 DEF DfsInv, FreadOK, ReplyOK
<1>. QED BY <1>1, <1>3, <1>4, FreadInv

(* The header that is read is the one that the list of LBAs has there.     *)
LEMMA HeaderRead ==
    ASSUME DfsTypeOK, NEW at, Laid(at), FreadOK(at), phase = "ready",
           call \in Calls, call # NoCall, ~found,
           NEW path, path = call.path, NEW h \in AsHeader(disk[lba + 1])
    PROVE  Leads(at, h, lba, path)
<1>1. path \in Paths
  BY DEF Calls
<1>2. PICK k \in 1 .. Len(args) + 1 : lba = at[k] /\ NoneBefore(k, path)
  BY DEF FreadOK, SearchOK
<1>3. Leads(at, disk[lba + 1], lba, path)
  BY <1>1, <1>2, HeaderLeads
<1>4. disk[lba + 1].kind = "header"
  BY <1>3 DEF Leads
<1>5. h = disk[lba + 1]
  BY <1>4 DEF AsHeader
<1>. QED BY <1>3, <1>5

(* One turn of the loop with the header at lba.                            *)
LEMMA ReadHeaderInv == DfsInv /\ ReadHeader => DfsInv'
<1>. SUFFICES ASSUME DfsInv, ReadHeader PROVE DfsInv'
  OBVIOUS
<1>1. PICK at : Laid(at) /\ (~faulty => FreadOK(at))
  BY DEF DfsInv
<1>2. /\ DfsTypeOK /\ Len(args) \in Nat /\ call \in Calls /\ call # NoCall /\ ~found
      /\ phase = "ready" /\ next = Len(args) + 1
  BY ArgFacts DEF DfsInv, DfsTypeOK, ReadHeader
<1>3. PICK h \in AsHeader(disk[lba + 1]) : LookAt(h)
  BY DEF ReadHeader
<1>4. UNCHANGED wvars /\ room' = room /\ faulty' = faulty /\ fresh' = TRUE /\ buf' = h
  BY <1>3 DEF ReadHeader, LookAt
<1>5. UNCHANGED <<args, next, current_lba, disk, phase>>
  BY <1>4 DEF wvars
<1>6. PICK path : path = call.path
  OBVIOUS
<1>8. Laid(at)'
  BY <1>1, <1>4, SameDisk
<1>9. ASSUME ~faulty PROVE Leads(at, h, lba, path)
  BY <1>1, <1>2, <1>3, <1>6, <1>9, HeaderRead
<1>10. CASE h.name = path /\ call.want
  <2>1. UNCHANGED <<call, last, reply, lba>> /\ found' = TRUE
    BY <1>3, <1>6, <1>10 DEF LookAt
  <2>2. DfsTypeOK'
    BY <1>2, <1>4, <1>5, <2>1 DEF DfsTypeOK
  <2>3. ASSUME ~faulty' PROVE FreadOK(at)'
    <3>1. SearchOK(at)'
      BY <2>1 DEF SearchOK
    <3>2. PICK m \in 1 .. Len(args) : IsFirst(m, path) /\ lba = at[m] /\ h.sectors = Count(m)
      BY <1>4, <1>9, <1>10, <2>3 DEF Leads
    <3>3. FoundOK(at)'
      BY <1>4, <1>5, <1>6, <1>10, <2>1, <3>2 DEF FoundOK, IsFirst, NoneBefore, IsFile, Count
    <3>4. RoomOK' /\ ReplyOK'
      BY <1>1, <1>4, <2>1, <2>3, KeepRoom, KeepReply DEF FreadOK
    <3>. QED BY <3>1, <3>3, <3>4 DEF FreadOK
  <2>. QED BY <1>8, <2>2, <2>3 DEF DfsInv
<1>11. CASE h.name = path /\ ~call.want
  <2>1. /\ reply' = [status |-> "OK", size |-> h.sectors, data |-> <<>>]
        /\ call' = NoCall /\ last' = call /\ found' = found
    BY <1>3, <1>6, <1>11 DEF LookAt, Return, FileSize
  <2>2. DfsTypeOK'
    BY <1>2, <1>4, <1>5, <2>1 DEF DfsTypeOK
  <2>3. ASSUME ~faulty' PROVE FreadOK(at)'
    <3>1. PICK m \in 1 .. Len(args) : IsFirst(m, path) /\ h.sectors = Count(m)
      BY <1>4, <1>9, <1>11, <2>3 DEF Leads
    <3>2. reply'.size = h.sectors
      BY <2>1
    <3>3. ReplyOK'
      BY <1>5, <1>6, <2>1, <3>1, <3>2 DEF ReplyOK, IsFirst, NoneBefore, IsFile, Count
    <3>4. (SearchOK(at) /\ FoundOK(at) /\ RoomOK)'
      BY <2>1 DEF SearchOK, FoundOK, RoomOK
    <3>. QED BY <3>3, <3>4 DEF FreadOK
  <2>. QED BY <1>8, <2>2, <2>3 DEF DfsInv
<1>12. CASE h.name # path /\ h.next_lba = 0
  <2>1. /\ reply' = [status |-> "ERR_NOTFOUND", size |-> 0, data |-> <<>>]
        /\ call' = NoCall /\ last' = call /\ found' = found
    BY <1>3, <1>6, <1>12 DEF LookAt, Return
  <2>2. DfsTypeOK'
    BY <1>2, <1>4, <1>5, <2>1 DEF DfsTypeOK
  <2>3. reply'.status # "OK"
    BY <2>1
  <2>4. FreadOK(at)'
    BY <2>1, <2>3 DEF FreadOK, SearchOK, FoundOK, RoomOK, ReplyOK
  <2>. QED BY <1>8, <2>2, <2>4 DEF DfsInv
<1>13. CASE h.name # path /\ h.next_lba # 0
  <2>1. UNCHANGED <<call, last, reply, found>> /\ lba' = h.next_lba
    BY <1>3, <1>6, <1>13 DEF LookAt
  <2>2. DfsTypeOK'
    BY <1>2, <1>4, <1>5, <2>1 DEF DfsTypeOK
  <2>3. ASSUME ~faulty' PROVE FreadOK(at)'
    <3>1. PICK m \in 1 .. Len(args) + 1 : h.next_lba = at[m] /\ NoneBefore(m, path)
      BY <1>4, <1>9, <1>13, <2>3 DEF Leads
    <3>2. SearchOK(at)'
      BY <1>4, <1>5, <1>6, <1>13, <2>1, <3>1 DEF SearchOK, NoneBefore, IsFile
    <3>3. FoundOK(at)'
      BY <1>2, <2>1 DEF FoundOK
    <3>4. RoomOK' /\ ReplyOK'
      BY <1>1, <1>4, <2>1, <2>3, KeepRoom, KeepReply DEF FreadOK
    <3>. QED BY <3>2, <3>3, <3>4 DEF FreadOK
  <2>. QED BY <1>8, <2>2, <2>3 DEF DfsInv
<1>. QED BY <1>10, <1>11, <1>12, <1>13

(* A header that is not read leaves the search where it is, since the one  *)
(* in the buffer leads there again.                                        *)
LEMMA StaleHeader ==
    ASSUME DfsInv, ReadHeaderFails, ~faulty'
    PROVE  UNCHANGED <<call, last, reply, found, lba, buf, fresh>> /\ ~faulty
<1>1. PICK at : Laid(at) /\ (~faulty => FreadOK(at))
  BY DEF DfsInv
<1>2. /\ DfsTypeOK /\ Len(args) \in Nat /\ call # NoCall /\ ~found
      /\ phase = "ready" /\ next = Len(args) + 1
  BY ArgFacts DEF DfsInv, DfsTypeOK, ReadHeaderFails
<1>3. ~faulty /\ fresh /\ fresh' = fresh
  BY DEF ReadHeaderFails
<1>4. buf.name # call.path /\ buf.next_lba = lba
  BY <1>1, <1>2, <1>3 DEF FreadOK, SearchOK
<1>5. PICK k \in 1 .. Len(args) + 1 : lba = at[k]
  BY <1>1, <1>2, <1>3 DEF FreadOK, SearchOK
<1>6. lba # 0
  BY <1>1, <1>2, <1>5 DEF Laid
<1>7. UNCHANGED <<call, last, reply, found>> /\ lba' = buf.next_lba /\ buf' = buf
  BY <1>4, <1>6 DEF ReadHeaderFails, LookAt
<1>. QED BY <1>3, <1>4, <1>7

LEMMA ReadHeaderFailsInv == DfsInv /\ ReadHeaderFails => DfsInv'
<1>. SUFFICES ASSUME DfsInv, ReadHeaderFails PROVE DfsInv'
  OBVIOUS
<1>1. PICK at : Laid(at) /\ (~faulty => FreadOK(at))
  BY DEF DfsInv
<1>2. DfsTypeOK /\ phase = "ready" /\ call \in Calls
  BY DEF DfsInv, DfsTypeOK, ReadHeaderFails
<1>3. UNCHANGED wvars /\ fresh' = fresh /\ room' = room /\ faulty' \in BOOLEAN
  BY <1>2 DEF ReadHeaderFails, DfsTypeOK
<1>4. UNCHANGED <<args, next, current_lba, disk, phase>>
  BY <1>3 DEF wvars
<1>5. call' \in {call, NoCall} /\ last' \in {last, call} /\ found' \in BOOLEAN
  BY <1>2 DEF ReadHeaderFails, LookAt, Return, DfsTypeOK
<1>6. DfsTypeOK'
  BY <1>2, <1>3, <1>4, <1>5 DEF DfsTypeOK
<1>7. Laid(at)'
  BY <1>1, <1>3, SameDisk
<1>8. ASSUME ~faulty' PROVE FreadOK(at)'
  <2>1. UNCHANGED <<call, last, reply, found, lba, buf, fresh>> /\ ~faulty
    BY <1>8, StaleHeader
  <2>2. FreadOK(at)
    BY <1>1, <2>1
  <2>3. RoomOK' /\ ReplyOK'
    BY <1>3, <2>1, <2>2, KeepRoom, KeepReply DEF FreadOK
  <2>4. SearchOK(at)'
    BY <1>4, <2>1, <2>2 DEF FreadOK, SearchOK, NoneBefore, IsFile
  <2>5. FoundOK(at)'
    BY <1>4, <2>1, <2>2 DEF FreadOK, FoundOK, IsFirst, NoneBefore, IsFile, Count
  <2>. QED BY <2>3, <2>4, <2>5 DEF FreadOK
<1>. QED BY <1>6, <1>7, <1>8 DEF DfsInv

LEMMA ReadDataInv == DfsInv /\ (ReadData \/ ReadDataFails) => DfsInv'
<1>. SUFFICES ASSUME DfsInv, ReadData \/ ReadDataFails PROVE DfsInv'
  OBVIOUS
<1>1. PICK at : Laid(at) /\ (~faulty => FreadOK(at))
  BY DEF DfsInv
<1>2. DfsTypeOK /\ phase = "ready" /\ call \in Calls /\ call # NoCall /\ found
  BY DEF DfsInv, DfsTypeOK, ReadData, ReadDataFails
<1>3. /\ UNCHANGED wvars /\ UNCHANGED <<fresh, found, room, faulty>>
      /\ call' = NoCall /\ last' = call /\ reply'.size = buf.sectors
  BY DEF ReadData, ReadDataFails, Return
<1>4. UNCHANGED <<args, next, current_lba, disk, phase>>
  BY <1>3 DEF wvars
<1>5. DfsTypeOK'
  BY <1>2, <1>3, <1>4 DEF DfsTypeOK
<1>6. Laid(at)'
  BY <1>1, <1>3, SameDisk
<1>7. ASSUME ~faulty' PROVE FreadOK(at)'
  <2>1. PICK k \in 1 .. Len(args) : IsFirst(k, call.path) /\ buf.sectors = Count(k)
    BY <1>1, <1>2, <1>3, <1>7 DEF FreadOK, FoundOK
  <2>2. ReplyOK'
    BY <1>3, <1>4, <2>1 DEF ReplyOK, IsFirst, NoneBefore, IsFile, Count
  <2>3. (SearchOK(at) /\ FoundOK(at) /\ RoomOK)'
    BY <1>3 DEF SearchOK, FoundOK, RoomOK
  <2>. QED BY <2>2, <2>3 DEF FreadOK
<1>. QED BY <1>5, <1>6, <1>7 DEF DfsInv

LEMMA StutterInv == DfsInv /\ UNCHANGED vars => DfsInv'
<1>. SUFFICES ASSUME DfsInv, UNCHANGED vars PROVE DfsInv'
  OBVIOUS
<1>1. PICK at : Laid(at) /\ (~faulty => FreadOK(at))
  BY DEF DfsInv
<1>2. UNCHANGED wvars /\ UNCHANGED rvars
  BY DEF vars
<1>3. UNCHANGED <<args, next, current_lba, disk, phase>>
  BY <1>2 DEF wvars
<1>4. UNCHANGED <<call, lba, buf, fresh, found, last, room, reply, faulty>>
  BY <1>2 DEF rvars
<1>5. DfsTypeOK'
  BY <1>3, <1>4 DEF DfsInv, DfsTypeOK
<1>6. Laid(at)'
  BY <1>1, <1>2, SameDisk
<1>7. ASSUME ~faulty' PROVE FreadOK(at)'
  <2>1. RoomOK' /\ ReplyOK'
    BY <1>1, <1>2, <1>4, <1>7, KeepRoom, KeepReply DEF FreadOK
  <2>2. SearchOK(at)'
    BY <1>1, <1>3, <1>4, <1>7 DEF FreadOK, SearchOK, NoneBefore, IsFile
  <2>3. FoundOK(at)'
    BY <1>1, <1>3, <1>4, <1>7 DEF FreadOK, FoundOK, IsFirst, NoneBefore, IsFile, Count
  <2>. QED BY <2>1, <2>2, <2>3 DEF FreadOK
<1>. QED BY <1>5, <1>6, <1>7 DEF DfsInv

-----------------------------------------------------------------------------
(* The chain of headers that write_img lays out is complete, and dfs_fread *)
(* is never beside it, for every command line and any failures of the drive*)
(* but one of a first header.                                              *)
THEOREM ChainInvariant == Spec => []DfsInv
<1>1. DfsInv /\ [Next]_vars => DfsInv'
  BY WriteBootsectorInv, WriteFileInv, SkipOptionInv, WritePaddingInv, WriteFailsInv, FreadSizeInv,
     FreadDataInv, ReadHeaderInv, ReadHeaderFailsInv, ReadDataInv, StutterInv DEF Next, WriteImg, Read
<1>. QED BY <1>1, InitInv, PTL DEF Spec

(* A file that is the first of its name is what the store calls first.     *)
LEMMA FirstOfStore ==
    ASSUME DfsTypeOK, NEW path, NEW k, IsFirst(k, path)
    PROVE  /\ Store!First(path) = k
           /\ k \in Store!Named(path)
<1>1. Len(args) \in Nat
  BY ArgFacts DEF DfsTypeOK
<1>2. \A j : j \in Store!Named(path) <=>
              j \in 1 .. Len(args) /\ IsFile(j) /\ args[j].name = path
  BY DEF Store!Named, Files, FileArgs
<1>3. k \in Store!Named(path)
  BY <1>2 DEF IsFirst
<1>4. \A j \in Store!Named(path) : k <= j
  <2>. SUFFICES ASSUME NEW j \in Store!Named(path), ~(k <= j) PROVE FALSE
    OBVIOUS
  <2>1. j \in 1 .. Len(args) /\ IsFile(j) /\ args[j].name = path /\ k \in 1 .. Len(args)
    BY <1>2 DEF IsFirst
  <2>2. j \in 1 .. k - 1
    BY <1>1, <2>1
  <2>. QED BY <2>1, <2>2 DEF IsFirst, NoneBefore
<1>. DEFINE f == CHOOSE m \in Store!Named(path) : \A j \in Store!Named(path) : m <= j
<1>5. f \in Store!Named(path) /\ \A j \in Store!Named(path) : f <= j
  BY <1>3, <1>4, Zenon
<1>6. f <= k /\ k <= f
  BY <1>3, <1>4, <1>5
<1>7. f \in Int /\ k \in Int
  <2>. HIDE DEF f
  <2>. QED BY <1>1, <1>2, <1>3, <1>5
<1>8. f = k
  <2>. HIDE DEF f
  <2>. QED BY <1>6, <1>7
<1>. QED BY <1>3, <1>8 DEF Store!First

(* What dfs_fread gives back is the whole file, and it fits where the      *)
(* caller has it read to (ws_load_font, ws_load_img).                      *)
THEOREM AlwaysReadsWhole == Spec => []ReadsWhole
<1>1. ASSUME DfsInv PROVE NothingCutOff
  <2>. SUFFICES ASSUME last # NoCall, reply.status = "OK", ~faulty
                PROVE  reply.size * SECTOR >= args[Store!First(last.path)].len
    BY DEF NothingCutOff
  <2>1. DfsTypeOK
    BY <1>1 DEF DfsInv
  <2>2. PICK k \in 1 .. Len(args) : IsFirst(k, last.path) /\ reply.size = Count(k)
    BY <1>1 DEF DfsInv, FreadOK, ReplyOK
  <2>3. Store!First(last.path) = k
    BY <2>1, <2>2, FirstOfStore
  <2>4. args[k].len \in Nat
    BY <2>1, <2>2, ArgFacts DEF DfsTypeOK, IsFirst
  <2>. QED BY <2>2, <2>3, <2>4, SectorsCover DEF Count
<1>2. ASSUME DfsInv PROVE DataFits
  <2>. SUFFICES ASSUME found, call # NoCall, ~faulty PROVE buf.sectors <= room
    BY DEF DataFits
  <2>1. DfsTypeOK
    BY <1>2 DEF DfsInv
  <2>2. PICK k \in 1 .. Len(args) : IsFirst(k, call.path) /\ buf.sectors = Count(k)
    BY <1>2 DEF DfsInv, FreadOK, FoundOK
  <2>3. PICK m \in 1 .. Len(args) : IsFirst(m, call.path) /\ room = Count(m)
    BY <1>2 DEF DfsInv, FreadOK, RoomOK, FoundOK
  <2>4. k = m
    BY <2>1, <2>2, <2>3, FirstOfStore
  <2>5. Count(k) \in Nat
    BY <2>1, <2>2, ArgFacts DEF DfsTypeOK, IsFirst
  <2>. QED BY <2>2, <2>3, <2>4, <2>5
<1>. QED BY <1>1, <1>2, ChainInvariant, PTL DEF ReadsWhole

-----------------------------------------------------------------------------
(* The refinement.                                                         *)

(* The store's files are those of the command line, whatever is done.      *)
LEMMA SameStore == UNCHANGED args => UNCHANGED Files
BY DEF Files, FileArgs, IsFile, Contents

LEMMA FoundOutcomes ==
    ASSUME DfsTypeOK, NEW c, NEW k, IsFirst(k, c.path)
    PROVE  /\ c.want =>
                /\ [status |-> "OK", size |-> Count(k), data |-> Contents(k)] \in Store!Outcomes(c)
                /\ [status |-> "ERR_UNKNHRDW", size |-> Count(k), data |-> <<>>] \in Store!Outcomes(c)
           /\ ~c.want =>
                [status |-> "OK", size |-> Count(k), data |-> <<>>] \in Store!Outcomes(c)
<1>1. Store!First(c.path) = k /\ k \in Store!Named(c.path)
  BY FirstOfStore
<1>2. Files[k].data = Contents(k)
  BY DEF IsFirst, Files, FileArgs
<1>3. Len(Contents(k)) = Count(k)
  BY ContentsFacts DEF IsFirst, DfsTypeOK
<1>4. Store!Named(c.path) # {}
  BY <1>1
<1>. QED BY <1>1, <1>2, <1>3, <1>4, Zenon DEF Store!Outcomes

LEMMA MissingOutcome ==
    ASSUME DfsTypeOK, NEW c, NoneBefore(Len(args) + 1, c.path)
    PROVE  [status |-> "ERR_NOTFOUND", size |-> 0, data |-> <<>>] \in Store!Outcomes(c)
<1>1. Len(args) \in Nat
  BY ArgFacts DEF DfsTypeOK
<1>2. Store!Named(c.path) = {}
  BY <1>1 DEF Store!Named, Files, FileArgs, NoneBefore
<1>. QED BY <1>2, Zenon DEF Store!Outcomes

LEMMA AskStep ==
    ASSUME DfsInv, FreadSize \/ FreadData
    PROVE  Store!Ask
<1>1. DfsTypeOK
  BY DEF DfsInv
<1>2. call = NoCall
  BY DEF FreadSize, FreadData
<1>3. PICK path \in Paths, want \in BOOLEAN : Fread(path, want)
  <2>1. CASE FreadSize
    BY <2>1 DEF FreadSize
  <2>2. CASE FreadData
    <3>1. last.path \in Paths /\ Fread(last.path, TRUE)
      BY <1>1, <2>2 DEF FreadData, DfsTypeOK, Calls
    <3>. QED BY <3>1
  <2>. QED BY <2>1, <2>2
<1>4. call' = [path |-> path, want |-> want] /\ UNCHANGED <<reply, faulty, args>>
  BY <1>3 DEF Fread, wvars
<1>. QED BY <1>2, <1>4, SameStore DEF Store!Ask

(* An answer in the sense of the store.                                    *)
LEMMA AnswerStep ==
    ASSUME call # NoCall, UNCHANGED args, call' = NoCall, faulty => faulty',
           faulty' \/ reply' \in Store!Outcomes(call)
    PROVE  Store!Answer
BY SameStore DEF Store!Answer

LEMMA HeaderStep ==
    ASSUME DfsInv, ReadHeader
    PROVE  Store!Answer \/ UNCHANGED Store!vars
<1>1. PICK at : Laid(at) /\ (~faulty => FreadOK(at))
  BY DEF DfsInv
<1>2. DfsTypeOK /\ call \in Calls /\ call # NoCall /\ ~found /\ phase = "ready"
  BY DEF DfsInv, DfsTypeOK, ReadHeader
<1>3. PICK h \in AsHeader(disk[lba + 1]) : LookAt(h)
  BY DEF ReadHeader
<1>4. UNCHANGED wvars /\ UNCHANGED args /\ faulty' = faulty
  BY <1>3 DEF ReadHeader, wvars
<1>5. PICK path : path = call.path
  OBVIOUS
<1>6. ASSUME ~faulty PROVE Leads(at, h, lba, path)
  BY <1>1, <1>2, <1>3, <1>5, <1>6, HeaderRead
<1>7. CASE h.name = path /\ call.want
  <2>1. UNCHANGED <<call, reply>>
    BY <1>3, <1>5, <1>7 DEF LookAt
  <2>. QED BY <1>4, <2>1, SameStore DEF Store!vars
<1>8. CASE h.name = path /\ ~call.want
  <2>1. /\ reply' = [status |-> "OK", size |-> h.sectors, data |-> <<>>]
        /\ call' = NoCall
    BY <1>3, <1>5, <1>8 DEF LookAt, Return, FileSize
  <2>2. ASSUME ~faulty PROVE reply' \in Store!Outcomes(call)
    <3>1. PICK m \in 1 .. Len(args) : IsFirst(m, path) /\ h.sectors = Count(m)
      BY <1>6, <1>8, <2>2 DEF Leads
    <3>2. reply' = [status |-> "OK", size |-> Count(m), data |-> <<>>]
      BY <2>1, <3>1
    <3>. QED BY <1>2, <1>5, <1>8, <3>1, <3>2, FoundOutcomes
  <2>. QED BY <1>2, <1>4, <2>1, <2>2, AnswerStep
<1>9. CASE h.name # path /\ h.next_lba = 0
  <2>1. /\ reply' = [status |-> "ERR_NOTFOUND", size |-> 0, data |-> <<>>]
        /\ call' = NoCall
    BY <1>3, <1>5, <1>9 DEF LookAt, Return
  <2>2. ASSUME ~faulty PROVE reply' \in Store!Outcomes(call)
    <3>1. NoneBefore(Len(args) + 1, path)
      BY <1>6, <1>9, <2>2 DEF Leads
    <3>. QED BY <1>2, <1>5, <2>1, <3>1, MissingOutcome
  <2>. QED BY <1>2, <1>4, <2>1, <2>2, AnswerStep
<1>10. CASE h.name # path /\ h.next_lba # 0
  <2>1. UNCHANGED <<call, reply>>
    BY <1>3, <1>5, <1>10 DEF LookAt
  <2>. QED BY <1>4, <2>1, SameStore DEF Store!vars
<1>. QED BY <1>7, <1>8, <1>9, <1>10

LEMMA FailedHeaderStep ==
    ASSUME DfsInv, ReadHeaderFails
    PROVE  Store!Next \/ UNCHANGED Store!vars
<1>1. DfsTypeOK /\ call # NoCall /\ UNCHANGED args /\ faulty' \in BOOLEAN /\ (faulty => faulty')
  BY DEF DfsInv, DfsTypeOK, ReadHeaderFails, wvars
<1>2. CASE ~faulty'
  <2>1. UNCHANGED <<call, reply>> /\ ~faulty
    BY <1>2, StaleHeader
  <2>2. faulty' = faulty
    BY <1>1, <1>2, <2>1 DEF DfsTypeOK
  <2>. QED BY <1>1, <2>1, <2>2, SameStore DEF Store!vars
<1>3. CASE faulty'
  <2>1. faulty' = TRUE
    BY <1>1, <1>3
  <2>2. call' = NoCall \/ UNCHANGED <<call, reply>>
    BY DEF ReadHeaderFails, LookAt, Return
  <2>3. CASE call' = NoCall
    BY <1>1, <1>3, <2>3, AnswerStep DEF Store!Next
  <2>4. CASE UNCHANGED <<call, reply>>
    BY <1>1, <2>1, <2>4, SameStore DEF Store!Next, Store!Fail
  <2>. QED BY <2>2, <2>3, <2>4
<1>. QED BY <1>2, <1>3

LEMMA DataStep ==
    ASSUME DfsInv, ReadData \/ ReadDataFails
    PROVE  Store!Answer
<1>1. PICK at : Laid(at) /\ (~faulty => FreadOK(at))
  BY DEF DfsInv
<1>2. /\ DfsTypeOK /\ call # NoCall /\ found /\ phase = "ready"
      /\ Len(args) \in Nat /\ next = Len(args) + 1
  BY ArgFacts DEF DfsInv, DfsTypeOK, ReadData, ReadDataFails
<1>3. UNCHANGED args /\ faulty' = faulty /\ call' = NoCall
  BY DEF ReadData, ReadDataFails, Return, wvars
<1>4. ASSUME ~faulty PROVE reply' \in Store!Outcomes(call)
  <2>1. call.want /\ \E k \in 1 .. Len(args) :
          IsFirst(k, call.path) /\ lba = at[k] /\ buf.sectors = Count(k)
    BY <1>1, <1>2, <1>4 DEF FreadOK, FoundOK
  <2>2. PICK k \in 1 .. Len(args) : IsFirst(k, call.path) /\ lba = at[k] /\ buf.sectors = Count(k)
    BY <2>1
  <2>3. CASE ReadDataFails
    <3>1. reply' = [status |-> "ERR_UNKNHRDW", size |-> Count(k), data |-> <<>>]
      BY <2>2, <2>3 DEF ReadDataFails, Return
    <3>. QED BY <1>2, <2>1, <2>2, <3>1, FoundOutcomes
  <2>4. CASE ReadData
    <3>1. reply' = [status |-> "OK", size |-> Count(k),
                    data |-> SubSeq(disk, lba + 2, lba + 1 + Count(k))]
      BY <2>2, <2>4 DEF ReadData, Return
    <3>2. IsFile(k) /\ k \in 1 .. next - 1 /\ Count(k) \in Nat \ {0} /\ lba \in Nat
      <4>1. IsFile(k) /\ k \in 1 .. next - 1 /\ k \in 1 .. next
        BY <1>2, <2>2 DEF IsFirst
      <4>2. Count(k) \in Nat \ {0}
        BY <1>2, <4>1, ArgFacts DEF DfsTypeOK
      <4>3. at[k] \in Nat
        BY <1>1, <4>1 DEF Laid
      <4>. QED BY <2>2, <4>1, <4>2, <4>3
    <3>3. /\ lba + 1 + Count(k) <= Len(disk) /\ disk \in Seq(Sector)
          /\ \A j \in 1 .. Count(k) : disk[lba + 1 + j] = Data(k, j)
      BY <1>1, <1>2, <2>2, <3>2 DEF Laid, Stored, DfsTypeOK
    <3>4. SubSeq(disk, lba + 2, lba + 1 + Count(k)) = Contents(k)
      <4>. DEFINE d == SubSeq(disk, lba + 2, lba + 1 + Count(k))
      <4>1. d = [j \in 1 .. Count(k) |-> disk[lba + 1 + j]]
        BY <3>2, <3>3
      <4>2. Contents(k) = [j \in 1 .. Count(k) |-> Data(k, j)]
        BY DEF Contents, Count
      <4>. QED BY <3>3, <4>1, <4>2
    <3>. QED BY <1>2, <2>1, <2>2, <3>1, <3>4, FoundOutcomes
  <2>. QED BY <2>3, <2>4
<1>. QED BY <1>2, <1>3, <1>4, AnswerStep

(* The image of write_img with dfs_fread over it is a file store, for every*)
(* command line, any paths and any failures: the first file of a name is   *)
(* answered with its own size and data, and ERR_NOTFOUND is the answer     *)
(* only for a name that was not stored.                                    *)
THEOREM FilesAreStored == Spec => ImplementsStore
<1>1. Init => Store!Init
  BY DEF Init, Store!Init
<1>2. DfsInv /\ [Next]_vars => [Store!Next]_(Store!vars)
  <2>. SUFFICES ASSUME DfsInv, [Next]_vars PROVE Store!Next \/ UNCHANGED Store!vars
    OBVIOUS
  <2>1. CASE WriteImg \/ UNCHANGED vars
    <3>1. UNCHANGED <<args, call, reply, faulty>>
      BY <2>1 DEF WriteImg, WriteBootsector, WriteFile, SkipOption, WritePadding, WriteFails,
                  vars, wvars, rvars
    <3>. QED BY <3>1, SameStore DEF Store!vars
  <2>2. CASE FreadSize \/ FreadData
    BY <2>2, AskStep DEF Store!Next
  <2>3. CASE Read
    BY <2>3, HeaderStep, FailedHeaderStep, DataStep DEF Read, Store!Next
  <2>. QED BY <2>1, <2>2, <2>3 DEF Next
<1>. QED BY <1>1, <1>2, ChainInvariant, PTL DEF Spec, ImplementsStore, Store!Spec
=============================================================================
