---------------------------- MODULE MCPmmanInit ----------------------------
(* Instances of PmmanInit for TLC: six blocks of four bytes.               *)
EXTENDS PmmanInit

(* Three regions side by side at every choice of the four ends, every type *)
(* and order of them, and a region behind the map that is not counted.     *)
Ends == {0, 3, 8, 10, 13, 16, 19, 24, 26}

Region(lo, hi, t) == [base |-> lo, len |-> hi - lo, type |-> t]

Orders == {f \in [1 .. 3 -> 1 .. 3] : IsInjective(f)}

MCMaps ==
    {<<r[f[1]], r[f[2]], r[f[3]], Region(30, 31, "reserved")>> :
       f \in Orders,
       r \in {<<Region(c[1], c[2], t[1]), Region(c[2], c[3], t[2]),
                Region(c[3], c[4], t[3])>> :
                c \in {x \in [1 .. 4 -> Ends] : x[1] < x[2] /\ x[2] < x[3] /\ x[3] < x[4]},
                t \in [1 .. 3 -> Types]}}

(* Two kernels, one of which ends with its block.                          *)
MCKernels == {[start |-> 12, end |-> 17], [start |-> 12, end |-> 20]}
=============================================================================
