----------------------------- MODULE FileStore -----------------------------
(***************************************************************************)
(* What the file system promises its callers (fs.h's fread): a call for a  *)
(* path is answered with the size and, if asked for, the contents of the   *)
(* first file of that name, or with the news that there is none.  Reading  *)
(* the contents may fail.  Once the drive has failed where the code cannot *)
(* tell (faulty) nothing is promised any more.                             *)
(***************************************************************************)
EXTENDS Integers, Sequences

CONSTANTS Paths, NoCall

VARIABLES
    files,     \* name and contents of the files, numbered in the order they were stored
    call,      \* the call in progress
    reply,     \* the answer to the last one
    faulty

vars == <<files, call, reply, faulty>>

Named(path) == {k \in DOMAIN files : files[k].name = path}

First(path) == CHOOSE k \in Named(path) : \A j \in Named(path) : k <= j

Outcomes(c) ==
    IF Named(c.path) = {}
    THEN {[status |-> "ERR_NOTFOUND", size |-> 0, data |-> <<>>]}
    ELSE LET contents == files[First(c.path)].data IN
         IF c.want
         THEN {[status |-> "OK", size |-> Len(contents), data |-> contents],
               [status |-> "ERR_UNKNHRDW", size |-> Len(contents), data |-> <<>>]}
         ELSE {[status |-> "OK", size |-> Len(contents), data |-> <<>>]}

Init ==
    /\ call = NoCall
    /\ reply = [status |-> "none", size |-> 0, data |-> <<>>]
    /\ faulty = FALSE

Ask ==
    /\ call = NoCall
    /\ \E path \in Paths, want \in BOOLEAN : call' = [path |-> path, want |-> want]
    /\ UNCHANGED <<files, reply, faulty>>

Answer ==
    /\ call # NoCall
    /\ call' = NoCall
    /\ faulty => faulty'
    /\ faulty' \/ reply' \in Outcomes(call)
    /\ UNCHANGED files

Fail ==
    /\ call # NoCall
    /\ faulty' = TRUE
    /\ UNCHANGED <<files, call, reply>>

Next == Ask \/ Answer \/ Fail

Spec == Init /\ [][Next]_vars
=============================================================================
