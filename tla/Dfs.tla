-------------------------------- MODULE Dfs --------------------------------
(***************************************************************************)
(* The file system on the boot disk: write_img lays the files out, one     *)
(* header sector and the data sectors after it each, and dfs_fread follows *)
(* the chain of headers (write_img/write_img.c, drivers/dfs.c).  A file is *)
(* read as ws_load_font and ws_load_img do (kernel.c): once for its size,  *)
(* then, with that much memory, for its contents.  Any read of the drive   *)
(* may fail.                                                               *)
(***************************************************************************)
EXTENDS Integers, Sequences

CONSTANTS
    ArgLists,    \* command lines of write_img: files and options
    Option,      \* what stands for an option in them
    Names,       \* names of files
    Paths,       \* paths asked for
    NoName,      \* the empty name
    NoCall,
    SECTOR,      \* bytes in a sector (512)
    PADDING,     \* empty sectors behind the last file (2048)
    Junk         \* what the uninitialised buffer may look like as a header

(* Arguments are options or files.  A path that is asked for is not empty. *)
ASSUME DfsAssumption ==
    /\ SECTOR \in Nat \ {0}
    /\ PADDING \in Nat \ {0}
    /\ ArgLists \subseteq Seq({Option} \cup [name : Names, len : Nat])
    /\ NoName \notin Paths
    /\ NoCall \notin [path : Paths, want : BOOLEAN]

VARIABLES
    args,        \* the arguments of write_img
    next,        \* the argument its second loop has come to
    current_lba,
    disk,        \* the sectors of the image; LBA n is disk[n + 1]
    phase,       \* "boot", "files", "ready" or "failed"
    call,        \* the arguments of the dfs_fread in progress, or NoCall
    lba, buf,    \* its locals
    fresh,       \* buf has been read from the drive
    found,       \* its search is over and the data is to be read
    last,        \* the arguments of the call that returned last
    room,        \* sectors of memory the caller has for the contents
    reply,       \* what dfs_fread returned and stored
    faulty       \* a first header could not be read

wvars == <<args, next, current_lba, disk, phase>>
rvars == <<call, lba, buf, fresh, found, last, room, reply, faulty>>
vars == <<wvars, rvars>>

Header(sectors, next_lba, name) ==
    [kind |-> "header", sectors |-> sectors, next_lba |-> next_lba, name |-> name]
Data(k, part) == [kind |-> "data", file |-> k, part |-> part]
(* A sector of zero bytes, which is a header without a name.               *)
Zero == Header(0, 0, NoName)

IsFile(k) == args[k] # Option

Init ==
    /\ args \in ArgLists
    /\ next = 1
    /\ current_lba = 1
    /\ disk = <<>>
    /\ phase = "boot"
    /\ call = NoCall
    /\ lba = 0
    /\ buf = Zero
    /\ fresh = FALSE
    /\ found = FALSE
    /\ last = NoCall
    /\ room = 0
    /\ reply = [status |-> "none", size |-> 0, data |-> <<>>]
    /\ faulty = FALSE

-----------------------------------------------------------------------------
(* write_img.                                                              *)

WriteBootsector ==
    /\ phase = "boot"
    /\ disk' = <<[kind |-> "boot"]>>
    /\ phase' = "files"
    /\ UNCHANGED <<args, next, current_lba, rvars>>

(* Mutant: a file that fills its last sector gets no further one, but one  *)
(* that does not is cut off. *)
SectorCountDown(len) == len \div SECTOR

SectorCount(len) == len \div SECTOR + 1

(* The data of argument k; its end is filled up with zero bytes.           *)
Contents(k) == [j \in 1 .. SectorCount(args[k].len) |-> Data(k, j)]

(* Mutants: the header's own sector is not counted; current_lba is not     *)
(* moved on.                                                               *)
NextLbaNoHeader(at, count) == IF at = 0 THEN 0 ELSE at + count
NextLbaSame(at, count) == at

(* next_lba for a file of count sectors, current_lba being at.             *)
NextLba(at, count) == IF at = 0 THEN 0 ELSE at + 1 + count

(* The last argument ends the chain.                                       *)
WriteFile ==
    /\ phase = "files"
    /\ next <= Len(args)
    /\ IsFile(next)
    /\ LET at == IF next = Len(args) THEN 0 ELSE current_lba
           count == SectorCount(args[next].len)
       IN  /\ current_lba' = NextLba(at, count)
           /\ disk' = disk \o <<Header(count, NextLba(at, count), args[next].name)>>
                           \o Contents(next)
    /\ next' = next + 1
    /\ UNCHANGED <<args, phase, rvars>>

SkipOption ==
    /\ phase = "files"
    /\ next <= Len(args)
    /\ ~IsFile(next)
    /\ next' = next + 1
    /\ UNCHANGED <<args, current_lba, disk, phase, rvars>>

WritePadding ==
    /\ phase = "files"
    /\ next > Len(args)
    /\ disk' = disk \o [k \in 1 .. PADDING |-> Zero]
    /\ phase' = "ready"
    /\ UNCHANGED <<args, next, current_lba, rvars>>

(* write_img gives up: before it writes anything, for an option it does not*)
(* know, an image it cannot create, or a boot sector that cannot be opened *)
(* or is too long; then for a file that cannot be opened.  The image stays *)
(* as it is, without the rest.                                             *)
WriteFails ==
    /\ phase \in {"boot", "files"}
    /\ phase = "files" => next <= Len(args) /\ IsFile(next)
    /\ phase' = "failed"
    /\ UNCHANGED <<args, next, current_lba, disk, rvars>>

-----------------------------------------------------------------------------
(* dfs_fread.                                                              *)

Fread(path, want) ==
    /\ call' = [path |-> path, want |-> want]
    /\ lba' = 1
    /\ buf' \in Junk
    /\ fresh' = FALSE
    /\ found' = FALSE
    /\ UNCHANGED <<wvars, last, reply, faulty>>

(* fread(path, null, &file_size), by a process or for SYS_FREAD.           *)
FreadSize ==
    /\ phase = "ready"
    /\ call = NoCall
    /\ \E path \in Paths : Fread(path, FALSE)
    /\ room' = 0

(* fread(path, file_data, &file_size), after the size is known.            *)
FreadData ==
    /\ phase = "ready"
    /\ call = NoCall
    /\ last # NoCall
    /\ ~last.want
    /\ reply.status = "OK"
    /\ room' = reply.size
    /\ Fread(last.path, TRUE)

Return(status, size, data) ==
    /\ reply' = [status |-> status, size |-> size, data |-> data]
    /\ call' = NoCall
    /\ last' = call

(* filesz, in sectors.                                                     *)
FileSize(h) == h.sectors

(* One turn of the loop, once the header is in h.                          *)
LookAt(h) ==
    /\ buf' = h
    /\ IF h.name = call.path
       THEN /\ IF call.want
               THEN found' = TRUE /\ UNCHANGED <<call, last, reply>>
               ELSE Return("OK", FileSize(h), <<>>) /\ UNCHANGED found
            /\ UNCHANGED lba
       ELSE /\ lba' = h.next_lba
            /\ IF h.next_lba = 0
               THEN Return("ERR_NOTFOUND", 0, <<>>)
               ELSE UNCHANGED <<call, last, reply>>
            /\ UNCHANGED found

(* What a sector reads as when it is taken for a header.                   *)
AsHeader(s) == IF s.kind = "header" THEN {s} ELSE Junk

OnDisk(n, count) == n + count <= Len(disk)

ReadHeader ==
    /\ call # NoCall
    /\ ~found
    /\ OnDisk(lba, 1)
    /\ \E h \in AsHeader(disk[lba + 1]) : LookAt(h)
    /\ fresh' = TRUE
    /\ UNCHANGED <<wvars, room, faulty>>

(* drive_read fails and its result is ignored: the loop goes on with what  *)
(* the buffer had before.                                                  *)
ReadHeaderFails ==
    /\ call # NoCall
    /\ ~found
    /\ LookAt(buf)
    /\ faulty' = (faulty \/ ~fresh)
    /\ UNCHANGED <<wvars, fresh, room>>

(* The data sectors, all of them or an error.                              *)
ReadData ==
    /\ call # NoCall
    /\ found
    /\ OnDisk(lba + 1, buf.sectors)
    /\ Return("OK", buf.sectors, SubSeq(disk, lba + 2, lba + 1 + buf.sectors))
    /\ UNCHANGED <<wvars, lba, buf, fresh, found, room, faulty>>

ReadDataFails ==
    /\ call # NoCall
    /\ found
    /\ Return("ERR_UNKNHRDW", buf.sectors, <<>>)
    /\ UNCHANGED <<wvars, lba, buf, fresh, found, room, faulty>>

WriteImg ==
    WriteBootsector \/ WriteFile \/ SkipOption \/ WritePadding \/ WriteFails
Read == ReadHeader \/ ReadHeaderFails \/ ReadData \/ ReadDataFails

Next == WriteImg \/ FreadSize \/ FreadData \/ Read

Spec == Init /\ [][Next]_vars

(* The code goes on, and a header that is read again and again is read     *)
(* some time.                                                              *)
FairSpec == Spec /\ WF_vars(WriteImg) /\ WF_vars(Read) /\ SF_vars(ReadHeader)

-----------------------------------------------------------------------------
(* Properties.                                                             *)

(* The files write_img was given, in order, with the sectors it makes of   *)
(* them.                                                                   *)
FileArgs == {k \in 1 .. Len(args) : IsFile(k)}
Files == [k \in FileArgs |-> [name |-> args[k].name, data |-> Contents(k)]]

Store == INSTANCE FileStore WITH files <- Files

(* The chain that write_img lays out and the search of dfs_fread together  *)
(* are a file store: the first file of a name is found with its own data,  *)
(* and ERR_NOTFOUND is returned only for files that are not there, although*)
(* any read but that of the first header may fail any number of times.     *)
ImplementsStore == Store!Spec

(* A file that is read has all the bytes that write_img was given.         *)
NothingCutOff ==
    (last # NoCall /\ last.want /\ reply.status = "OK" /\ ~faulty) =>
      reply.size * SECTOR >= args[Store!First(last.path)].len

(* dfs_fread never writes more than the caller's memory for the file, which*)
(* has the size an earlier dfs_fread gave.                                 *)
DataFits == (found /\ call # NoCall /\ ~faulty) => buf.sectors <= room

(* The two calls of ws_load_font and ws_load_img belong together: what is  *)
(* read is the whole file and fits where it is read to.                    *)
ReadsWhole == NothingCutOff /\ DataFits

(* Every call returns: a header that cannot be read is read again, since   *)
(* the old one in the buffer leads to it once more.                        *)
FreadReturns == call # NoCall ~> (call = NoCall \/ faulty)
=============================================================================
