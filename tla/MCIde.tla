------------------------------- MODULE MCIde -------------------------------
(* Instances of Ide for TLC: every pair of drives on the first channel,    *)
(* and, behind an ATA drive, one on the second.                            *)
EXTENDS Ide

CONSTANTS t1, t2

MCThreads == {t1, t2}
Kinds == {"none", "ata", "atapi", "other", "abort", "silent"}
MCMachines ==
    {[p \in ToSet(Positions) |->
        CASE p = <<0, 0>> -> k1 [] p = <<0, 1>> -> k2
          [] p = <<1, 0>> -> k3 [] OTHER -> "none"] :
       <<k1, k2, k3>> \in {k \in Kinds \X Kinds \X {"none", "ata"} :
                            k[3] = "ata" => k[1] = "ata"}}
=============================================================================
