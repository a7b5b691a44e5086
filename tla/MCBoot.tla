------------------------------- MODULE MCBoot -------------------------------
(* Machines and kernel images for TLC.                                     *)
EXTENDS Boot, MCPmmanInit

H(n, nx) == [name |-> n, next |-> nx, sectors |-> 2]
Disk(hs) == [kind |-> "ata", sectors |-> hs]
None == [kind |-> "none", sectors |-> <<>>]
Cdrom == [kind |-> "atapi", sectors |-> <<>>]
Silent == [kind |-> "silent", sectors |-> <<>>]

(* Stage 2, the kernel and a file, each of a header and a sector of data.  *)
BootDisk == Disk([n \in 1 .. 6 |-> CASE n = 1 -> H("other", 3) [] n = 3 -> H("kernel.bin", 5)
                                 [] OTHER -> H("other", 0)])
LastFile == Disk([n \in 1 .. 6 |-> CASE n = 1 -> H("other", 3) [] n = 3 -> H("other", 5)
                                     [] n = 5 -> H("kernel.bin", 0) [] OTHER -> H("other", 0)])
Blank == Disk([n \in 1 .. 3 |-> H("other", 0)])

Mode(b, x, y) == [bits |-> b, x |-> x, y |-> y]
Modes == <<Mode(8, 1280, 1024), Mode(32, 800, 600), Mode(32, 1024, 768)>>
M(modes, a20, pci, ds) == [modes |-> modes, a20 |-> a20, pci |-> pci, drives |-> ds]

MCMachines == {
    M(Modes, {2, 3}, <<FALSE, TRUE, TRUE>>, <<BootDisk, None, Cdrom, None>>),
    M(Modes, {1, 2, 3}, <<TRUE>>, <<LastFile, Blank, None, None>>),
    M(Modes, {3}, <<TRUE>>, <<Blank, Cdrom, LastFile, None>>),
    M(Modes, {1, 2, 3}, <<TRUE>>, <<Blank, None, None, Cdrom>>),
    M(Modes, {1}, <<TRUE>>, <<BootDisk, Silent, None, None>>),
    M(Modes, {}, <<TRUE>>, <<BootDisk, None, None, None>>),
    M(<<Mode(32, 800, 600)>>, {1}, <<TRUE>>, <<BootDisk, None, None, None>>),
    M(Modes, {1}, <<FALSE>>, <<BootDisk, None, None, None>>) }

S(t, a, z, al) == [type |-> t, addr |-> a, size |-> z, alloc |-> al]

(* Text, data and bss; then what is not loaded.                            *)
MCElfs == {
    <<S("NULL", 0, 0, FALSE), S("PROGBITS", 12, 2, TRUE), S("PROGBITS", 15, 1, TRUE),
      S("NOBITS", 16, 1, TRUE), S("PROGBITS", 0, 5, FALSE), S("SYMTAB", 0, 6, FALSE)>>,
    <<S("NULL", 0, 0, FALSE), S("PROGBITS", 0, 3, FALSE), S("NOBITS", 14, 6, TRUE), S("PROGBITS", 12, 1, TRUE)>> }
=============================================================================
