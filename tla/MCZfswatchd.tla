---------------------------- MODULE MCZfswatchd ----------------------------
(***************************************************************************)
(* Instances of Zfswatchd for TLC: where the pools start.                  *)
(***************************************************************************)
EXTENDS Zfswatchd, TLC

CONSTANTS c1, c2, p1, p2, x1, x2

OpenPool(x) == [LockedPool(x) EXCEPT !.loaded = x # NoPass, !.mounted = TRUE]

LockedOrExported == {LockedPool(x1), ExportedPool(x1), ExportedPool(NoPass)}

Mountable == {LockedPool(x1), LockedPool(NoPass)}

OpenOrPlain == {OpenPool(x1), ExportedPool(NoPass)}

(* Connections are interchangeable, and so are pools, which all start in   *)
(* any of the same states; used only where no liveness is checked.         *)
MCSymmetry == Permutations(Conns) \cup Permutations(Pools)
=============================================================================
