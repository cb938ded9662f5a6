------------------------------ MODULE Protocol ------------------------------
(***************************************************************************)
(* The requests of crates/zfswatch-core/src/protocol.rs, and what each of  *)
(* them asks of the pools.  A dataset is named by its pool.  One record    *)
(* shape serves all requests: a field a request lacks is NoPool, NoPass or *)
(* FALSE.                                                                  *)
(***************************************************************************)
EXTENDS Zfs, Sequences

CONSTANTS Pools, NoPool

ASSUME NoPoolAssumption == NoPool \notin Pools

AllOps == {"invalid", "Ping", "Status", "ListPools", "ListDevices", "ImportPool",
           "ExportPool", "Mount", "Unmount", "InitPool", "ChangeKey",
           "SubscribeEvents", "ReloadConfig"}

Requests ==
    [op : AllOps \cup {"none"}, pool : Pools \cup {NoPool},
     pass : Keys, new : Keys, flag : BOOLEAN]

Request(op) == [op |-> op, pool |-> NoPool, pass |-> NoPass, new |-> NoPass, flag |-> FALSE]
PoolRequest(op, p) == [Request(op) EXCEPT !.pool = p]

ImportPool(p) == PoolRequest("ImportPool", p)
ExportPool(p) == PoolRequest("ExportPool", p)
Mount(p, x) == [PoolRequest("Mount", p) EXCEPT !.pass = x]
Unmount(p, unload_key) == [PoolRequest("Unmount", p) EXCEPT !.flag = unload_key]
InitPool(p, x, encryption) ==
    [PoolRequest("InitPool", p) EXCEPT !.pass = x, !.flag = encryption]
ChangeKey(p, old, new) == [PoolRequest("ChangeKey", p) EXCEPT !.pass = old, !.new = new]

(* The effects a request asks for, in order.                               *)
Effects(r) ==
    CASE r.op = "ImportPool" -> <<"import">>
      [] r.op = "ExportPool" -> <<"export">>
      [] r.op = "Unmount"    -> <<"unmount">>
      [] r.op = "InitPool"   -> <<"create">>
      [] r.op = "Mount"      -> IF r.pass = NoPass THEN <<"mount">> ELSE <<"load-key", "mount">>
      [] r.op = "ChangeKey"  -> <<"load-key", "change-key">>
      [] OTHER               -> <<>>

(* Faulty variant: ChangeKey presents the new passphrase to load-key.      *)
CommandFor_new(r, op) ==
    [op |-> op, pool |-> r.pool,
     pass |-> IF r.op = "ChangeKey" THEN r.new ELSE r.pass,
     flag |-> r.flag]

(* The command that has effect op of request r: ChangeKey feeds change-key *)
(* the new passphrase.                                                     *)
CommandFor(r, op) ==
    [op |-> op, pool |-> r.pool,
     pass |-> IF op = "change-key" THEN r.new ELSE r.pass,
     flag |-> r.flag]
=============================================================================
