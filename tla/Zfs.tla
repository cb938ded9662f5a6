--------------------------------- MODULE Zfs ---------------------------------
(***************************************************************************)
(* The ZFS tools and kernel module, seen through the commands zfswatchd    *)
(* runs (`zpool ...' and `zfs ...').  None of this code is in src/: the    *)
(* guards and effects are those crates/zfswatch-zfs relies on, and every   *)
(* definition here is external in the map.                                 *)
(*                                                                         *)
(* A pool stands for its root dataset (zfswatchd mounts, unlocks and lists *)
(* pools by that name) on a device of its own.  A command that ends as it  *)
(* should is atomic: it is refused (non-zero exit status, no effect) or    *)
(* takes its effect.  One that is killed or gives up may leave less.       *)
(***************************************************************************)
EXTENDS Naturals

CONSTANTS
    Passphrases,    \* passphrases ZFS accepts
    NoPass          \* "no passphrase": an unencrypted pool, an Option::None

ASSUME NoPassAssumption == NoPass \notin Passphrases

Keys == Passphrases \cup {NoPass}

PoolStates ==
    [at : {"absent", "exported", "imported"},
     encrypted : BOOLEAN,
     pass : Keys,           \* the passphrase that unwraps the dataset's key
     loaded : BOOLEAN,      \* keystatus = available
     mounted : BOOLEAN]

(* The states a pool can really be in: the kernel keeps a key only for an  *)
(* imported encrypted dataset and mounts one only while its key is loaded. *)
Consistent(s) ==
    /\ s.at = "absent" => ~s.encrypted
    /\ s.encrypted <=> s.pass \in Passphrases
    /\ s.loaded => s.encrypted /\ s.at = "imported"
    /\ s.mounted => s.at = "imported"
    /\ s.mounted /\ s.encrypted => s.loaded

ExportedPool(x) ==
    [at |-> "exported", encrypted |-> x # NoPass, pass |-> x,
     loaded |-> FALSE, mounted |-> FALSE]

LockedPool(x) == [ExportedPool(x) EXCEPT !.at = "imported"]

(* Commands that change a pool; flag is `unmount -u', or encryption=on of  *)
(* `zpool create', and pass is the line written to the command's stdin.    *)
Mutations == {"import", "export", "create", "load-key", "mount", "unmount", "change-key"}

MutationCommands(Pools) ==
    [op : Mutations, pool : Pools, pass : Keys, flag : BOOLEAN]

Imported(s) == s.at = "imported"

Allowed(s, k) ==
    CASE k.op = "import"     -> s.at = "exported"
      [] k.op = "export"     -> Imported(s)
      [] k.op = "create"     -> ~Imported(s) /\ (k.flag => k.pass \in Passphrases)
      [] k.op = "load-key"   -> Imported(s) /\ s.encrypted /\ ~s.loaded /\ k.pass = s.pass
      [] k.op = "mount"      -> Imported(s) /\ ~s.mounted /\ (s.encrypted => s.loaded)
      [] k.op = "unmount"    -> s.mounted
      [] k.op = "change-key" -> s.encrypted /\ s.loaded /\ k.pass \in Passphrases
      [] OTHER               -> FALSE

(* `zpool import' mounts what needs no key; `zpool export' unmounts and    *)
(* unloads; `zpool create' leaves the new pool mounted with its key loaded.*)
Effect(s, k) ==
    CASE k.op = "import"     -> [s EXCEPT !.at = "imported", !.mounted = ~s.encrypted]
      [] k.op = "export"     -> [s EXCEPT !.at = "exported", !.mounted = FALSE, !.loaded = FALSE]
      [] k.op = "create"     -> [at |-> "imported", encrypted |-> k.flag,
                                 pass |-> IF k.flag THEN k.pass ELSE NoPass,
                                 loaded |-> k.flag, mounted |-> TRUE]
      [] k.op = "load-key"   -> [s EXCEPT !.loaded = TRUE]
      [] k.op = "mount"      -> [s EXCEPT !.mounted = TRUE]
      [] k.op = "unmount"    -> [s EXCEPT !.mounted = FALSE, !.loaded = s.loaded /\ ~k.flag]
      [] k.op = "change-key" -> [s EXCEPT !.pass = k.pass]
      [] OTHER               -> s

(* What a command leaves that is killed or gives up on the way: `zpool    *)
(* import' and `zpool create' mount last, `zpool export' and `zfs unmount  *)
(* -u' unmount first.                                                      *)
Halfway(s, k) ==
    CASE k.op = "import"               -> [s EXCEPT !.at = "imported"]
      [] k.op = "create"               -> [Effect(s, k) EXCEPT !.mounted = FALSE]
      [] k.op \in {"export", "unmount"} -> [s EXCEPT !.mounted = FALSE]
      [] OTHER                         -> Effect(s, k)

LeftBehind(s, k) == {Effect(s, k), Halfway(s, k)}
=============================================================================
