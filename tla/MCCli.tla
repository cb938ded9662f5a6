-------------------------------- MODULE MCCli --------------------------------
(***************************************************************************)
(* Instances of Cli for TLC: where the pools start.                        *)
(***************************************************************************)
EXTENDS Cli, TLC

CONSTANTS p1, p2, x1, x2

Blank == [ExportedPool(NoPass) EXCEPT !.at = "absent"]
SomePools == {Blank, ExportedPool(x1), ExportedPool(NoPass), LockedPool(x1)}

MCSymmetry == Permutations(Users)
=============================================================================
