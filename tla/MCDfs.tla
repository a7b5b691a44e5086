------------------------------- MODULE MCDfs -------------------------------
(* An instance of Dfs for TLC: sectors of two bytes, up to three arguments *)
(* with files of none to three bytes, names that occur twice, and options  *)
(* anywhere among them.                                                    *)
EXTENDS Dfs

CONSTANTS a, b, c

MCNames == {a, b}
MCPaths == {a, b, c}
MCArgs == {Option} \cup [name : MCNames, len : 0 .. 3]
MCArgLists == UNION {[1 .. n -> MCArgs] : n \in 1 .. 3}
(* Zero bytes, the header of a file that is asked for, and one that leads  *)
(* behind the disk.                                                        *)
MCJunk == {Zero, Header(1, 2, a), Header(9, 40, NoName)}
=============================================================================
