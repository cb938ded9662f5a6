--------------------------- MODULE ZfswatchdProofs ---------------------------
(***************************************************************************)
(* Theorems about Zfswatchd, for any connections, pools, passphrases and   *)
(* bounds.  In order:                                                      *)
(*                                                                         *)
(*   Types        what the variables hold (TypeOK is inductive), who holds *)
(*                the state mutex, and which configuration is used         *)
(*   Progress     what Success and Error tell: ProgressOK ties the await   *)
(*                point of each handler to the effects its request had     *)
(*   Listing      what PoolList tells: ListOK ties what a handler has found*)
(*                to the states the pools went through while it asked      *)
(*   Causes       why the daemon refuses, and what ChangeKey knew: CausesOK*)
(*                ties each handler to the states its pool went through    *)
(*                since the request was read                               *)
(*   Service      the daemon implements PoolService: each of its steps is a*)
(*                step of PoolService, or changes nothing a client can see *)
(***************************************************************************)
EXTENDS Zfswatchd, SequenceTheorems, TLAPS

-----------------------------------------------------------------------------
(* Type correctness.                                                       *)

LEMMA EffectType ==
    ASSUME NEW s \in PoolStates, NEW k, k.op \in Mutations, k.pass \in Keys, k.flag \in BOOLEAN
    PROVE  Effect(s, k) \in PoolStates
BY DEF PoolStates, Effect, Mutations, Keys

LEMMA LeftBehindType ==
    ASSUME NEW s \in PoolStates, NEW k, k.op \in Mutations, k.pass \in Keys, k.flag \in BOOLEAN
    PROVE  LeftBehind(s, k) \subseteq PoolStates
<1>1. Effect(s, k) \in PoolStates
  BY EffectType
<1>2. Halfway(s, k) \in PoolStates
  BY <1>1 DEF Halfway, PoolStates
<1> QED BY <1>1, <1>2 DEF LeftBehind

LEMMA AllowedType ==
    ASSUME NEW s \in PoolStates, NEW k, k.flag \in BOOLEAN
    PROVE  Allowed(s, k) \in BOOLEAN
BY DEF PoolStates, Allowed, Imported

LEMMA RequestType ==
    ASSUME NEW op \in AllOps \cup {"none"}
    PROVE  Request(op) \in Requests
BY DEF Request, Requests, Keys

LEMMA ConstructorTypes ==
    ASSUME NEW p \in Pools, NEW x \in Keys, NEW y \in Keys, NEW b \in BOOLEAN
    PROVE  /\ ImportPool(p) \in Requests
           /\ ExportPool(p) \in Requests
           /\ Mount(p, x) \in Requests
           /\ Unmount(p, b) \in Requests
           /\ InitPool(p, x, b) \in Requests
           /\ ChangeKey(p, x, y) \in Requests
BY DEF ImportPool, ExportPool, Mount, Unmount, InitPool, ChangeKey, PoolRequest, Request,
       Requests, AllOps, Keys

LEMMA CommandType ==
    ASSUME TypeOK, NEW c \in Conns, pc[c] \in Mutations
    PROVE  /\ Command(c) \in MutationCommands(Pools)
           /\ Command(c).op = pc[c]
           /\ Command(c).pool = req[c].pool
BY DEF TypeOK, HasPool, Command, CommandFor, MutationCommands, Requests

LEMMA WindowType ==
    ASSUME TypeOK, NEW z \in [Pools -> PoolStates]
    PROVE  Window(z) \in [Conns -> [Pools -> SUBSET PoolStates]]
BY DEF TypeOK, Window

(* The history of how commands ended.                                      *)
LEMMA MishapType ==
    ASSUME TypeOK, NEW c \in Conns, NEW m \in Mishaps,
           mishap' \in {mishap, [mishap EXCEPT ![c] = @ \cup {m}]}
    PROVE  mishap' \in [Conns -> SUBSET Mishaps]
<1>1. mishap \in [Conns -> SUBSET Mishaps]
  BY DEF TypeOK
<1>2. mishap[c] \cup {m} \in SUBSET Mishaps
  BY <1>1
<1> QED BY <1>1, <1>2

(* The end of a command keeps the types of what it changes.                *)
LEMMA ExitType ==
    ASSUME TypeOK, NEW c \in Conns, pc[c] \in Mutations,
           NEW o \in Outcomes(Command(c)), Exit(c, o)
    PROVE  /\ zfs' \in [Pools -> PoolStates]
           /\ seen' \in [Conns -> [Pools -> SUBSET PoolStates]]
           /\ done' \in [Conns -> Seq(Mutations)]
           /\ mishap' \in [Conns -> SUBSET Mishaps]
           /\ faults' \in Nat
           /\ orphans' \subseteq MutationCommands(Pools)
<1> DEFINE k == Command(c)
<1>k. k \in MutationCommands(Pools) /\ k.op = pc[c]
  BY CommandType
<1>1. zfs' \in [Pools -> PoolStates]
  <2>1. k.pool \in Pools /\ LeftBehind(zfs[k.pool], k) \subseteq PoolStates
    BY <1>k, LeftBehindType DEF TypeOK, MutationCommands
  <2>2. o.acts => o.after \in PoolStates
    BY <2>1 DEF Outcomes
  <2>3. zfs' = IF o.acts THEN [zfs EXCEPT ![k.pool] = o.after] ELSE zfs
    BY DEF Exit
  <2> HIDE DEF k
  <2> QED BY <2>1, <2>2, <2>3 DEF TypeOK
<1>2. seen' \in [Conns -> [Pools -> SUBSET PoolStates]]
  BY <1>1, WindowType DEF Exit
<1>3. done' \in [Conns -> Seq(Mutations)]
  BY <1>k DEF Exit, TypeOK
<1>4. o.abnormal \in BOOLEAN /\ (o.abnormal => <<k.op, o.status>> \in Mishaps)
  BY <1>k DEF Outcomes, Mishaps
<1>5. mishap' \in [Conns -> SUBSET Mishaps] /\ faults' \in Nat
  <2>1. mishap' = IF o.abnormal
                  THEN [mishap EXCEPT ![c] = @ \cup {<<k.op, o.status>>}]
                  ELSE mishap
    BY DEF Exit
  <2>2. faults' \in Nat
    BY <1>4 DEF Exit, TypeOK
  <2> HIDE DEF k
  <2>3. CASE o.abnormal
    <3>1. mishap' = [mishap EXCEPT ![c] = @ \cup {<<k.op, o.status>>}]
      BY <2>1, <2>3
    <3> QED BY <1>4, <2>2, <2>3, <3>1, MishapType
  <2>4. CASE ~o.abnormal
    <3>1. mishap \in [Conns -> SUBSET Mishaps]
      BY DEF TypeOK
    <3> QED BY <2>1, <2>2, <2>4, <3>1
  <2> QED BY <1>4, <2>2, <2>3, <2>4
<1>6. orphans' \subseteq MutationCommands(Pools)
  BY <1>k DEF Exit, TypeOK
<1> QED BY <1>1, <1>2, <1>3, <1>5, <1>6

LEMMA InitType == Init => TypeOK
<1> SUFFICES ASSUME Init PROVE TypeOK
  OBVIOUS
<1>1. zfs \in [Pools -> PoolStates]
  BY ConstantsAssumption DEF Init
<1>2. Request("none") \in Requests
  BY RequestType
<1>3. \A c \in Conns : HasPool(c)
  BY DEF Init, HasPool, Mutations
<1> QED BY <1>1, <1>2, <1>3 DEF Init, TypeOK, PCs, NoEntry, Entries, Response, Responses,
          ResponseKinds, NoText, Files, FileKinds, NoWindow

LEMMA ForgetType ==
    ASSUME TypeOK, NEW c \in Conns, Forget(c)
    PROVE  /\ seen' \in [Conns -> [Pools -> SUBSET PoolStates]]
           /\ resp' \in [Conns -> Responses]
           /\ req' \in [Conns -> Requests]
           /\ \A d \in Conns : d # c => req'[d] = req[d]
           /\ list' \in [Conns -> SUBSET PoolInfo]
           /\ done' \in [Conns -> Seq(Mutations)]
           /\ mishap' \in [Conns -> SUBSET Mishaps]
<1>1. NoWindow \in [Pools -> SUBSET PoolStates]
  BY DEF NoWindow
<1>2. Response("none") \in Responses
  BY DEF Response, Responses, ResponseKinds
<1>3. Request("none") \in Requests
  BY RequestType
<1>4. seen' \in [Conns -> [Pools -> SUBSET PoolStates]]
  BY <1>1 DEF Forget, TypeOK
<1>5. resp' \in [Conns -> Responses]
  BY <1>2 DEF Forget, TypeOK
<1>6. req' \in [Conns -> Requests] /\ \A d \in Conns : d # c => req'[d] = req[d]
  BY <1>3 DEF Forget, TypeOK
<1>7. list' \in [Conns -> SUBSET PoolInfo] /\ mishap' \in [Conns -> SUBSET Mishaps]
  BY DEF Forget, TypeOK
<1>8. done' \in [Conns -> Seq(Mutations)]
  BY DEF Forget, TypeOK
<1> QED BY <1>4, <1>5, <1>6, <1>7, <1>8

LEMMA ConnectionType ==
    ASSUME TypeOK, NEW c \in Conns,
           \/ Connect(c) \/ HangUp(c) \/ EndOfFile(c) \/ ReadFails(c)
           \/ Reply(c) \/ ReplyFails(c)
    PROVE  TypeOK'
<1> USE DEF conn, scan, history, shared, budget, HasPool
<1>1. CASE Connect(c)
  BY <1>1 DEF Connect, TypeOK, PCs, Mutations
<1>2. CASE HangUp(c)
  BY <1>2 DEF HangUp, TypeOK
<1>3. CASE EndOfFile(c) \/ ReadFails(c)
  BY <1>3 DEF EndOfFile, ReadFails, TypeOK, PCs, Mutations
<1>4. CASE Reply(c) \/ ReplyFails(c)
  <2>1. Forget(c)
    BY <1>4 DEF Reply, ReplyFails
  <2>2. /\ pc' \in [Conns -> PCs]
        /\ pc'[c] \in {"idle", "free"}
        /\ \A d \in Conns : d # c => pc'[d] = pc[d]
    BY <1>4 DEF Reply, ReplyFails, TypeOK, PCs
  <2>3. \A d \in Conns : HasPool(d)'
    BY <1>4, <2>1, <2>2, ForgetType DEF Reply, ReplyFails, TypeOK, Mutations
  <2> QED BY <1>4, <2>1, <2>2, <2>3, ForgetType DEF Reply, ReplyFails, TypeOK
<1> QED BY <1>1, <1>2, <1>3, <1>4

(* Reading a request keeps the types, given those of what it starts.       *)
LEMMA ReceiveType ==
    ASSUME TypeOK, NEW c \in Conns, NEW r \in Requests, NEW next \in PCs,
           next \in Mutations => r.pool \in Pools, next \notin {"mounted", "datasets"},
           Receive(c, r, next),
           lockq' \in Seq(Conns),
           resp' \in [Conns -> Responses]
    PROVE  TypeOK'
<1>1. seen' \in [Conns -> [Pools -> SUBSET PoolStates]]
  <2>1. [p \in Pools |-> IF r.pool = p \/ r.op \in {"ListPools", "Status"} THEN {zfs[p]} ELSE {}]
           \in [Pools -> SUBSET PoolStates]
    BY DEF TypeOK
  <2> QED BY <2>1 DEF Receive, TypeOK
<1>2. /\ pc' \in [Conns -> PCs]
      /\ req' \in [Conns -> Requests]
      /\ \A d \in Conns : HasPool(d)'
  BY DEF Receive, TypeOK, HasPool, scan
<1>3. sent' \in Nat
  BY DEF Receive, TypeOK
<1> QED BY <1>1, <1>2, <1>3 DEF Receive, TypeOK, scan

LEMMA ReceiveAnyType ==
    ASSUME TypeOK, NEW c \in Conns, ReceiveAny(c)
    PROVE  TypeOK'
<1>q. lockq \in Seq(Conns) /\ resp \in [Conns -> Responses]
  BY DEF TypeOK
<1>pc. /\ \A next \in {"reply", "lock", "zpool list", "scan"} : next \in PCs /\ next \notin Mutations
       /\ \A next \in Mutations : next \in PCs /\ next \notin {"mounted", "datasets"}
  BY DEF PCs, Mutations, Queries
<1>op. \A op \in AllOps : Request(op) \in Requests
  BY RequestType
<1>k. \A p \in Pools, r \in Requests, next \in Mutations :
        r.pool = p /\ ReceiveCommand(c, r, next) => TypeOK'
  BY <1>q, <1>pc, ReceiveType DEF ReceiveCommand
<1>1. ASSUME NEW op \in AllOps, NEW kind \in ResponseKinds, AnswerAtOnce(c, op, kind)
      PROVE  TypeOK'
  <2>1. Response(kind) \in Responses
    BY DEF Response, Responses
  <2>2. resp' \in [Conns -> Responses] /\ lockq' = lockq
    BY <1>1, <1>q, <2>1 DEF AnswerAtOnce
  <2>3. Receive(c, Request(op), "reply")
    BY <1>1 DEF AnswerAtOnce
  <2>4. "reply" \in PCs /\ "reply" \notin Mutations /\ Request(op) \in Requests /\ lockq' \in Seq(Conns)
    BY <1>q, <1>pc, <1>op, <2>2
  <2> QED BY <2>2, <2>3, <2>4, ReceiveType
<1>2. ASSUME NEW op \in AllOps, ReceiveLocking(c, op)
      PROVE  TypeOK'
  <2>1. lockq' \in Seq(Conns) /\ resp' = resp
    BY <1>2, <1>q DEF ReceiveLocking
  <2>2. Receive(c, Request(op), "lock")
    BY <1>2 DEF ReceiveLocking
  <2> QED BY <2>1, <2>2, <1>q, <1>pc, <1>op, ReceiveType
<1>3. ASSUME ReceiveListPools(c) \/ ReceiveListDevices(c)
      PROVE  TypeOK'
  BY <1>3, <1>q, <1>pc, <1>op, ReceiveType DEF ReceiveListPools, ReceiveListDevices, ReceiveCommand,
     AllOps
<1>4. ASSUME NEW p \in Pools, NEW x \in Keys, NEW y \in Keys, NEW b \in BOOLEAN
      PROVE  /\ ImportPool(p) \in Requests /\ ImportPool(p).pool = p
             /\ ExportPool(p) \in Requests /\ ExportPool(p).pool = p
             /\ Mount(p, x) \in Requests /\ Mount(p, x).pool = p
             /\ Unmount(p, b) \in Requests /\ Unmount(p, b).pool = p
             /\ InitPool(p, x, b) \in Requests /\ InitPool(p, x, b).pool = p
             /\ ChangeKey(p, x, y) \in Requests /\ ChangeKey(p, x, y).pool = p
  BY ConstructorTypes DEF ImportPool, ExportPool, Mount, Unmount, InitPool, ChangeKey,
     PoolRequest, Request
<1>5. Passphrases \subseteq Keys
  BY DEF Keys
<1>6. CASE ReceiveInvalid(c) \/ ReceivePing(c) \/ ReceiveSubscribeEvents(c)
  BY <1>1, <1>6 DEF ReceiveInvalid, ReceivePing, ReceiveSubscribeEvents, AllOps, ResponseKinds
<1>7. CASE ReceiveStatus(c) \/ ReceiveReloadConfig(c)
  BY <1>2, <1>7 DEF ReceiveStatus, ReceiveReloadConfig, AllOps
<1>8. CASE ReceiveListPools(c) \/ ReceiveListDevices(c)
  BY <1>3, <1>8
<1>9. CASE ReceiveImportPool(c) \/ ReceiveExportPool(c)
  BY <1>k, <1>4, <1>9 DEF ReceiveImportPool, ReceiveExportPool, Mutations, Keys
<1>10. CASE ReceiveMount(c)
  BY <1>k, <1>4, <1>10 DEF ReceiveMount, Mutations
<1>11. CASE ReceiveUnmount(c)
  BY <1>k, <1>4, <1>11 DEF ReceiveUnmount, Mutations, Keys
<1>12. CASE ReceiveInitPool(c)
  BY <1>k, <1>4, <1>5, <1>12 DEF ReceiveInitPool, Mutations
<1>13. CASE ReceiveChangeKey(c)
  BY <1>k, <1>4, <1>5, <1>13 DEF ReceiveChangeKey, Mutations
<1> QED BY <1>6, <1>7, <1>8, <1>9, <1>10, <1>11, <1>12, <1>13 DEF ReceiveAny

LEMMA ResponseType ==
    ASSUME NEW kind \in ResponseKinds
    PROVE  Response(kind) \in Responses
BY DEF Response, Responses

(* A step of c's task that ends a command or a query and then waits again  *)
(* or answers keeps pc and resp well typed.                                *)
LEMMA AdvanceType ==
    ASSUME TypeOK, NEW c \in Conns, req' = req,
           \A d \in Conns : d # c => entry'[d] = entry[d],
           \/ \E op \in PCs :
                /\ StartNext(c, op)
                /\ op \in Mutations => pc[c] \in Mutations
                /\ op \in {"mounted", "datasets"} => entry'[c].pool \in Pools
           \/ \E r \in Responses : Answer(c, r)
    PROVE  /\ pc' \in [Conns -> PCs]
           /\ resp' \in [Conns -> Responses]
           /\ \A d \in Conns : HasPool(d)'
<1>1. "reply" \in PCs /\ "reply" \notin Mutations
  BY DEF PCs, Mutations
<1>2. ASSUME NEW op \in PCs, StartNext(c, op), op \in Mutations => pc[c] \in Mutations,
             op \in {"mounted", "datasets"} => entry'[c].pool \in Pools
      PROVE  /\ pc' \in [Conns -> PCs]
             /\ resp' \in [Conns -> Responses]
             /\ \A d \in Conns : HasPool(d)'
  BY <1>2 DEF StartNext, TypeOK, HasPool
<1>3. ASSUME NEW r \in Responses, Answer(c, r)
      PROVE  /\ pc' \in [Conns -> PCs]
             /\ resp' \in [Conns -> Responses]
             /\ \A d \in Conns : HasPool(d)'
  BY <1>1, <1>3 DEF Answer, TypeOK, HasPool
<1> QED BY <1>2, <1>3

LEMMA MutationType ==
    ASSUME TypeOK, NEW c \in Conns, pc[c] \in Mutations,
           NEW o \in Outcomes(Command(c)), Exit(c, o),
           \/ \E op \in Mutations \cup {"mountpoint"} : StartNext(c, op)
           \/ \E kind \in ResponseKinds : Answer(c, Response(kind))
    PROVE  TypeOK'
<1>1. req' = req /\ entry' = entry
  BY DEF Exit, scan
<1>m. \A op \in Mutations \cup {"mountpoint"} : op \in PCs /\ op \notin {"mounted", "datasets"}
  BY DEF Mutations, PCs, Queries
<1>2. /\ pc' \in [Conns -> PCs]
      /\ resp' \in [Conns -> Responses]
      /\ \A d \in Conns : HasPool(d)'
  BY <1>1, <1>m, AdvanceType, ResponseType
<1>3. /\ zfs' \in [Pools -> PoolStates]
      /\ seen' \in [Conns -> [Pools -> SUBSET PoolStates]]
      /\ done' \in [Conns -> Seq(Mutations)]
      /\ mishap' \in [Conns -> SUBSET Mishaps]
      /\ faults' \in Nat
      /\ orphans' \subseteq MutationCommands(Pools)
  BY ExitType
<1> QED BY <1>2, <1>3 DEF Exit, TypeOK, shared, scan

LEMMA CommandStepsType ==
    ASSUME TypeOK, NEW c \in Conns,
           \/ import_pool(c) \/ export_pool(c) \/ create_pool(c) \/ unmount(c)
           \/ change_key(c) \/ load_key(c) \/ mount(c)
    PROVE  TypeOK'
<1>kinds. "Success" \in ResponseKinds /\ "Error" \in ResponseKinds
  BY DEF ResponseKinds
<1>pcs. "mount" \in Mutations /\ "change-key" \in Mutations
  BY DEF Mutations
<1>1. ASSUME NEW op \in Mutations, OneCommand(c, op)
      PROVE  TypeOK'
  <2>1. pc[c] \in Mutations
    BY <1>1 DEF OneCommand, Await
  <2>2. PICK o \in Outcomes(Command(c)) :
            /\ Exit(c, o)
            /\ Answer(c, Response(IF o.status = "ok" THEN "Success" ELSE "Error"))
    BY <1>1 DEF OneCommand
  <2>3. \E kind \in ResponseKinds : Answer(c, Response(kind))
    BY <1>kinds, <2>2
  <2> QED BY <2>1, <2>2, <2>3, MutationType
<1>2. CASE load_key(c)
  <2>1. pc[c] \in Mutations
    BY <1>2 DEF load_key, Await, Mutations
  <2>2. PICK o \in Outcomes(Command(c)) :
            /\ Exit(c, o)
            /\ IF o.status = "ok"
               THEN StartNext(c, IF req[c].op = "Mount" THEN "mount" ELSE "change-key")
               ELSE Answer(c, Response("Error"))
    BY <1>2 DEF load_key
  <2>3. \/ \E op \in Mutations \cup {"mountpoint"} : StartNext(c, op)
        \/ \E kind \in ResponseKinds : Answer(c, Response(kind))
    BY <1>kinds, <1>pcs, <2>2
  <2> QED BY <2>1, <2>2, <2>3, MutationType
<1>3. CASE mount(c)
  <2>1. pc[c] \in Mutations
    BY <1>3 DEF mount, Await, Mutations
  <2>2. PICK o \in Outcomes(Command(c)) :
            /\ Exit(c, o)
            /\ IF o.status = "ok" THEN StartNext(c, "mountpoint") ELSE Answer(c, Response("Error"))
    BY <1>3 DEF mount
  <2>3. \/ \E op \in Mutations \cup {"mountpoint"} : StartNext(c, op)
        \/ \E kind \in ResponseKinds : Answer(c, Response(kind))
    BY <1>kinds, <1>pcs, <2>2
  <2> QED BY <2>1, <2>2, <2>3, MutationType
<1>4. CASE import_pool(c) \/ export_pool(c) \/ create_pool(c) \/ unmount(c) \/ change_key(c)
  BY <1>1, <1>4 DEF import_pool, export_pool, create_pool, unmount, change_key, Mutations
<1> QED BY <1>2, <1>3, <1>4

(* What a query changes, besides the scan it belongs to.                   *)
LEMMA QueryType ==
    ASSUME TypeOK, NEW c \in Conns, NEW st \in QueryOutcomes, QueryExit(c, st),
           pc[c] \in Queries,
           \/ \E op \in PCs \ Mutations :
                /\ StartNext(c, op)
                /\ op \in {"mounted", "datasets"} => entry'[c].pool \in Pools
           \/ \E r \in Responses : Answer(c, r),
           todo' \in [Conns -> SUBSET Pools],
           entry' \in [Conns -> Entries],
           \A d \in Conns : d # c => entry'[d] = entry[d],
           list' \in [Conns -> SUBSET PoolInfo],
           text' = text
    PROVE  TypeOK'
<1>1. mishap' \in [Conns -> SUBSET Mishaps] /\ faults' \in Nat
  <2>1. st # "ok" => <<pc[c], st>> \in Mishaps
    BY DEF Mishaps, QueryOutcomes
  <2>2. mishap' = IF st # "ok" THEN [mishap EXCEPT ![c] = @ \cup {<<pc[c], st>>}] ELSE mishap
    BY DEF QueryExit
  <2>3. CASE st # "ok"
    <3>1. mishap' = [mishap EXCEPT ![c] = @ \cup {<<pc[c], st>>}]
      BY <2>2, <2>3
    <3>2. mishap' \in [Conns -> SUBSET Mishaps]
      BY <2>1, <2>3, <3>1, MishapType
    <3> QED BY <3>2 DEF QueryExit, TypeOK
  <2>4. CASE st = "ok"
    BY <2>4 DEF QueryExit, TypeOK
  <2> QED BY <2>3, <2>4
<1>2. /\ pc' \in [Conns -> PCs]
      /\ resp' \in [Conns -> Responses]
      /\ \A d \in Conns : HasPool(d)'
  BY AdvanceType DEF QueryExit
<1> QED BY <1>1, <1>2 DEF QueryExit, TypeOK, shared

LEMMA QueryStepsType ==
    ASSUME TypeOK, NEW c \in Conns, mountpoint(c) \/ scan_devices(c)
    PROVE  TypeOK'
<1>1. \A kind \in {"Error", "Success", "DeviceList"} :
        Response(kind) \in Responses
  BY ResponseType DEF ResponseKinds
<1>2. PICK st \in QueryOutcomes : QueryExit(c, st)
        /\ \E kind \in {"Error", "Success", "DeviceList"} : Answer(c, Response(kind))
  BY DEF mountpoint, scan_devices
<1>3. /\ todo' = todo /\ entry' = entry /\ list' = list /\ text' = text
      /\ pc[c] \in Queries
  BY DEF mountpoint, scan_devices, scan, Await, Queries
<1> QED BY <1>1, <1>2, <1>3, QueryType DEF TypeOK

LEMMA ListingStepsType ==
    ASSUME TypeOK, NEW c \in Conns,
           list_pools(c) \/ is_encrypted(c) \/ get_mount_info(c) \/ list_datasets(c)
    PROVE  TypeOK'
<1>pcs. /\ {"encryption", "mounted", "datasets"} \subseteq PCs \ Mutations
        /\ pc[c] \in Queries
  BY DEF PCs, Mutations, Queries, list_pools, is_encrypted, get_mount_info, list_datasets, Await
<1>z. \A p \in Pools : zfs[p] \in PoolStates
  BY DEF TypeOK
<1>1. CASE list_pools(c)
  <2>1. PICK st \in QueryOutcomes :
          /\ QueryExit(c, st)
          /\ LET names == {p \in Pools : Imported(zfs[p])}
             IN  IF st = "ok" /\ names # {}
                 THEN todo' = [todo EXCEPT ![c] = names] /\ StartNext(c, "encryption")
                 ELSE /\ Answer(c, IF st = "ok" THEN PoolList({}) ELSE Response("Error"))
                      /\ UNCHANGED todo
    BY <1>1 DEF list_pools
  <2>2. PoolList({}) \in Responses /\ Response("Error") \in Responses
    BY DEF PoolList, Response, Responses, ResponseKinds
  <2>3. \/ StartNext(c, "encryption")
        \/ \E r \in Responses : Answer(c, r)
    BY <2>1, <2>2
  <2>4. todo' \in [Conns -> SUBSET Pools]
    <3>1. {p \in Pools : Imported(zfs[p])} \in SUBSET Pools
      OBVIOUS
    <3>2. todo' = todo \/ todo' = [todo EXCEPT ![c] = {p \in Pools : Imported(zfs[p])}]
      BY <2>1
    <3> QED BY <3>1, <3>2 DEF TypeOK
  <2>5. entry' = entry /\ list' = list /\ text' = text
    BY <1>1 DEF list_pools
  <2> QED BY <1>pcs, <2>1, <2>3, <2>4, <2>5, QueryType DEF TypeOK
<1>2. CASE is_encrypted(c)
  <2>1. PICK st \in QueryOutcomes, p \in todo[c] :
          /\ QueryExit(c, st)
          /\ entry' = [entry EXCEPT ![c] =
                 [NoEntry EXCEPT !.pool = p, !.encrypted = Answers(p, st) /\ zfs[p].encrypted]]
          /\ todo' = [todo EXCEPT ![c] = @ \ {p}]
          /\ StartNext(c, "mounted")
    BY <1>2 DEF is_encrypted
  <2> DEFINE e == [NoEntry EXCEPT !.pool = p, !.encrypted = Answers(p, st) /\ zfs[p].encrypted]
  <2>2. e \in Entries /\ e.pool \in Pools
    BY DEF TypeOK, NoEntry, Entries
  <2>3. /\ entry' \in [Conns -> Entries]
        /\ entry'[c].pool \in Pools
        /\ \A d \in Conns : d # c => entry'[d] = entry[d]
    <3> HIDE DEF e
    <3> QED BY <2>1, <2>2 DEF TypeOK, e
  <2>4. todo' \in [Conns -> SUBSET Pools]
    BY <2>1 DEF TypeOK
  <2>5. list' = list /\ text' = text
    BY <1>2 DEF is_encrypted
  <2> QED BY <1>pcs, <2>1, <2>3, <2>4, <2>5, QueryType DEF TypeOK
<1>3. CASE get_mount_info(c)
  <2>1. PICK st \in QueryOutcomes :
          /\ QueryExit(c, st)
          /\ entry' = [entry EXCEPT ![c].mounted =
                 Answers(entry[c].pool, st) /\ zfs[entry[c].pool].mounted]
          /\ StartNext(c, "datasets")
    BY <1>3 DEF get_mount_info
  <2>2. entry[c] \in Entries /\ entry[c].pool \in Pools
    BY <1>3 DEF TypeOK, HasPool, get_mount_info, Await
  <2> DEFINE m == Answers(entry[c].pool, st) /\ zfs[entry[c].pool].mounted
             e == [entry[c] EXCEPT !.mounted = m]
  <2>3. e \in Entries /\ e.pool \in Pools
    BY <2>2 DEF Entries
  <2>4. entry' = [entry EXCEPT ![c] = e]
    BY <2>1
  <2>5. /\ entry' \in [Conns -> Entries]
        /\ entry'[c].pool \in Pools
        /\ \A d \in Conns : d # c => entry'[d] = entry[d]
    <3> HIDE DEF e
    <3> QED BY <2>3, <2>4 DEF TypeOK
  <2>6. todo' = todo /\ list' = list /\ text' = text
    BY <1>3 DEF get_mount_info
  <2> QED BY <1>pcs, <2>1, <2>5, <2>6, QueryType DEF TypeOK
<1>4. CASE list_datasets(c)
  <2> DEFINE p == entry[c].pool
             found(st) == IF Answers(p, st)
                          THEN {[encrypted |-> zfs[p].encrypted, mounted |-> zfs[p].mounted]}
                          ELSE {}
             info(st) == [pool |-> p, encrypted |-> entry[c].encrypted,
                          mounted |-> entry[c].mounted, datasets |-> found(st)]
             all(st) == list[c] \cup {info(st)}
  <2>1. PICK st \in QueryOutcomes :
          /\ QueryExit(c, st)
          /\ list' = [list EXCEPT ![c] = all(st)]
          /\ IF todo[c] # {} THEN StartNext(c, "encryption") ELSE Answer(c, PoolList(all(st)))
    BY <1>4 DEF list_datasets
  <2>2. entry' = [entry EXCEPT ![c] = NoEntry] /\ todo' = todo /\ text' = text
    BY <1>4 DEF list_datasets
  <2>3. entry[c] \in Entries /\ p \in Pools
    BY <1>4 DEF TypeOK, HasPool, list_datasets, Await
  <2>4. found(st) \in SUBSET DatasetInfo
    BY <1>z, <2>3 DEF DatasetInfo, PoolStates
  <2>5. info(st) \in PoolInfo
    <3> HIDE DEF found
    <3> QED BY <2>3, <2>4 DEF PoolInfo, Entries
  <2>6. all(st) \in SUBSET PoolInfo
    BY <2>5 DEF TypeOK
  <2> HIDE DEF all
  <2>7. list' \in [Conns -> SUBSET PoolInfo]
    BY <2>1, <2>6 DEF TypeOK
  <2>8. PoolList(all(st)) \in Responses
    BY <2>6 DEF PoolList, PoolInfo, Responses, ResponseKinds
  <2>9. entry' \in [Conns -> Entries] /\ \A d \in Conns : d # c => entry'[d] = entry[d]
    BY <2>2 DEF TypeOK, NoEntry, Entries
  <2>10. \/ StartNext(c, "encryption")
         \/ \E r \in Responses : Answer(c, r)
    BY <2>1, <2>8
  <2> QED BY <1>pcs, <2>1, <2>2, <2>7, <2>9, <2>10, QueryType DEF TypeOK
<1> QED BY <1>1, <1>2, <1>3, <1>4

(* A step of c's task that touches nothing but the configuration, the      *)
(* mutex, and how far c's own request got.                                 *)
LEMMA ConfigStepsType ==
    ASSUME TypeOK, NEW c \in Conns, lockq # <<>>,
           status(c) \/ reload_exists(c) \/ reload_read(c) \/ reload_parse(c)
    PROVE  TypeOK'
<1>1. req' = req /\ entry' = entry
  BY DEF status, reload_exists, reload_read, reload_parse, scan
<1>pcs. {"read", "parse"} \subseteq PCs \ (Mutations \cup {"mounted", "datasets"})
  BY DEF PCs, Mutations
<1>2. [kind |-> "Status", pools |-> imported_pools] \in Responses
      /\ Response("Success") \in Responses /\ Response("Error") \in Responses
  BY DEF Response, Responses, ResponseKinds, TypeOK
<1>3. \/ \E op \in {"read", "parse"} : StartNext(c, op)
      \/ \E r \in Responses : Answer(c, r)
  BY <1>2 DEF status, reload_exists, reload_read, reload_parse
<1>4. /\ pc' \in [Conns -> PCs]
      /\ resp' \in [Conns -> Responses]
      /\ \A d \in Conns : HasPool(d)'
  BY <1>1, <1>pcs, <1>3, AdvanceType
<1>5. lockq' \in Seq(Conns)
  <2>1. Tail(lockq) \in Seq(Conns) /\ lockq \in Seq(Conns)
    BY DEF TypeOK
  <2>2. lockq' = lockq \/ lockq' = Tail(lockq)
    BY DEF status, reload_exists, reload_read, reload_parse, unlock
  <2> QED BY <2>1, <2>2
<1>6. config' \in Nat
  BY DEF status, reload_exists, reload_read, reload_parse, TypeOK, Files
<1>7. text' \in [Conns -> Files]
  <2>1. text \in [Conns -> Files] /\ file \in Files /\ NoText \in Files
    BY DEF TypeOK, NoText, Files, FileKinds
  <2>2. \/ text' = text
        \/ text' = [text EXCEPT ![c] = file]
        \/ text' = [text EXCEPT ![c] = NoText]
    BY DEF status, reload_exists, reload_read, reload_parse, scan
  <2> QED BY <2>1, <2>2
<1>8. UNCHANGED <<zfs, up, imported_pools, peer, hung, todo, entry, list, orphans, file, budget, history>>
  BY DEF status, reload_exists, reload_read, reload_parse, scan
<1> QED BY <1>1, <1>4, <1>5, <1>6, <1>7, <1>8 DEF TypeOK, budget, history

LEMMA EnvironmentType ==
    ASSUME TypeOK, (\E c \in Conns : Hang(c)) \/ EditConfig \/ Crash \/ Restart \/ OrphanEnds
    PROVE  TypeOK'
<1> USE DEF conn, scan, history, shared, budget
<1>1. CASE \E c \in Conns : Hang(c)
  <2>1. orphans' \subseteq MutationCommands(Pools)
    BY <1>1, CommandType DEF Hang, TypeOK
  <2> QED BY <1>1, <2>1 DEF Hang, TypeOK, HasPool
<1>2. CASE EditConfig
  BY <1>2 DEF EditConfig, TypeOK, Files, HasPool
<1>3. CASE Crash
  <2>1. orphans' \subseteq MutationCommands(Pools)
    BY <1>3, CommandType DEF Crash, TypeOK
  <2>2. \A c \in Conns : HasPool(c)'
    BY <1>3 DEF Crash, HasPool, Mutations
  <2>3. Request("none") \in Requests
    BY RequestType
  <2>4. Response("none") \in Responses
    BY ResponseType DEF ResponseKinds
  <2>5. /\ pc' \in [Conns -> PCs] /\ NoText \in Files /\ NoEntry \in Entries
        /\ NoWindow \in [Pools -> SUBSET PoolStates]
    BY <1>3 DEF Crash, PCs, NoText, Files, FileKinds, NoEntry, Entries, NoWindow
  <2>6. /\ req' \in [Conns -> Requests] /\ resp' \in [Conns -> Responses]
        /\ text' \in [Conns -> Files] /\ entry' \in [Conns -> Entries]
        /\ seen' \in [Conns -> [Pools -> SUBSET PoolStates]]
    BY <1>3, <2>3, <2>4, <2>5 DEF Crash
  <2>7. /\ peer' \in [Conns -> BOOLEAN] /\ hung' \in [Conns -> BOOLEAN]
        /\ todo' \in [Conns -> SUBSET Pools] /\ list' \in [Conns -> SUBSET PoolInfo]
        /\ mishap' \in [Conns -> SUBSET Mishaps] /\ up' \in BOOLEAN
    BY <1>3 DEF Crash
  <2>9. done' \in [Conns -> Seq(Mutations)] /\ lockq' \in Seq(Conns)
    BY <1>3 DEF Crash
  <2>8. {sent', faults', hangs', crashes'} \subseteq Nat
    BY <1>3 DEF Crash, TypeOK
  <2> QED BY <1>3, <2>1, <2>2, <2>5, <2>6, <2>7, <2>8, <2>9 DEF Crash, TypeOK
<1>4. CASE Restart
  BY <1>4 DEF Restart, TypeOK, Files, HasPool
<1>5. CASE OrphanEnds
  <2>1. PICK k \in orphans :
          /\ orphans' = orphans \ {k}
          /\ \/ \E s \in LeftBehind(zfs[k.pool], k) : zfs' = [zfs EXCEPT ![k.pool] = s]
             \/ zfs' = zfs
          /\ seen' = Window(zfs')
    BY <1>5 DEF OrphanEnds
  <2>2. k.op \in Mutations /\ k.pool \in Pools /\ k.pass \in Keys /\ k.flag \in BOOLEAN
    BY DEF TypeOK, MutationCommands
  <2>3. LeftBehind(zfs[k.pool], k) \subseteq PoolStates
    BY <2>2, LeftBehindType DEF TypeOK
  <2>4. zfs' \in [Pools -> PoolStates]
    BY <2>1, <2>2, <2>3 DEF TypeOK
  <2>5. seen' \in [Conns -> [Pools -> SUBSET PoolStates]]
    BY <2>1, <2>4, WindowType
  <2> QED BY <1>5, <2>1, <2>4, <2>5 DEF OrphanEnds, TypeOK, HasPool
<1> QED BY <1>1, <1>2, <1>3, <1>4, <1>5

-----------------------------------------------------------------------------
(* The mutex.                                                              *)

LEMMA TailElements ==
    ASSUME NEW S, NEW q \in Seq(S), q # <<>>,
           \A i, j \in DOMAIN q : q[i] = q[j] => i = j
    PROVE  /\ \A x : (\E i \in DOMAIN Tail(q) : Tail(q)[i] = x)
                   <=> x # Head(q) /\ \E i \in DOMAIN q : q[i] = x
           /\ \A i, j \in DOMAIN Tail(q) : Tail(q)[i] = Tail(q)[j] => i = j
           /\ \A i \in DOMAIN Tail(q) : i + 1 \in DOMAIN q /\ i + 1 # 1 /\ Tail(q)[i] = q[i + 1]
<1>1. /\ Len(q) \in Nat /\ Len(q) > 0 /\ DOMAIN q = 1..Len(q) /\ Head(q) = q[1]
      /\ DOMAIN Tail(q) = 1..(Len(q) - 1)
      /\ \A i \in 1..(Len(q) - 1) : Tail(q)[i] = q[i + 1]
  OBVIOUS
<1>2. \A i \in DOMAIN Tail(q) : i + 1 \in DOMAIN q /\ i + 1 # 1 /\ Tail(q)[i] = q[i + 1]
  BY <1>1
<1>3. \A i, j \in DOMAIN Tail(q) : Tail(q)[i] = Tail(q)[j] => i = j
  BY <1>1, <1>2
<1>4. ASSUME NEW i \in DOMAIN Tail(q)
      PROVE  Tail(q)[i] # Head(q) /\ \E j \in DOMAIN q : q[j] = Tail(q)[i]
  BY <1>1, <1>2
<1>5. ASSUME NEW i \in DOMAIN q, q[i] # Head(q)
      PROVE  \E j \in DOMAIN Tail(q) : Tail(q)[j] = q[i]
  <2>1. i - 1 \in DOMAIN Tail(q) /\ Tail(q)[i - 1] = q[i]
    BY <1>1, <1>5
  <2> QED BY <2>1
<1> QED BY <1>2, <1>3, <1>4, <1>5

(* The holder leaves its critical section.                                 *)
LEMMA UnlockMutex ==
    ASSUME TypeOK, MutexOK, NEW c \in Conns, Holds(c), unlock, ~Locking(c)',
           \A d \in Conns : d # c => pc'[d] = pc[d]
    PROVE  MutexOK'
<1>1. /\ \A x : (\E i \in DOMAIN lockq' : lockq'[i] = x)
               <=> x # c /\ \E i \in DOMAIN lockq : lockq[i] = x
      /\ \A i, j \in DOMAIN lockq' : lockq'[i] = lockq'[j] => i = j
      /\ \A i \in DOMAIN lockq' : i + 1 \in DOMAIN lockq /\ i + 1 # 1 /\ lockq'[i] = lockq[i + 1]
  <2>1. /\ lockq \in Seq(Conns) /\ lockq # <<>> /\ Head(lockq) = c /\ lockq' = Tail(lockq)
        /\ \A i, j \in DOMAIN lockq : lockq[i] = lockq[j] => i = j
    BY DEF TypeOK, MutexOK, Holds, unlock
  <2> HIDE DEF Holds
  <2> QED BY <2>1, TailElements
<1>2. \A d \in Conns : Locking(d)' <=> \E i \in DOMAIN lockq' : lockq'[i] = d
  BY <1>1 DEF MutexOK, Locking
<1>3. ASSUME NEW i \in DOMAIN lockq' PROVE pc'[lockq'[i]] = "lock"
  <2>1. i + 1 \in DOMAIN lockq /\ lockq'[i] = lockq[i + 1] /\ i + 1 # 1
    BY <1>1
  <2>2. lockq'[i] # c
    BY <1>1
  <2>3. lockq'[i] \in Conns
    BY <2>1 DEF TypeOK
  <2> QED BY <2>1, <2>2, <2>3 DEF MutexOK
<1> QED BY <1>1, <1>2, <1>3 DEF MutexOK

(* A handler queues for the mutex.                                         *)
LEMMA LockMutex ==
    ASSUME TypeOK, MutexOK, NEW c \in Conns, ~Locking(c), lockq' = Append(lockq, c),
           pc' = [pc EXCEPT ![c] = "lock"]
    PROVE  MutexOK'
<1>1. /\ Len(lockq) \in Nat /\ DOMAIN lockq = 1..Len(lockq)
      /\ DOMAIN lockq' = 1..(Len(lockq) + 1)
      /\ lockq'[Len(lockq) + 1] = c
      /\ \A i \in DOMAIN lockq : lockq'[i] = lockq[i] /\ lockq[i] \in Conns
  BY DEF TypeOK
<1>2. \A i \in DOMAIN lockq : lockq[i] # c /\ pc'[lockq[i]] = pc[lockq[i]]
  BY <1>1 DEF MutexOK, TypeOK
<1>3. \A d \in Conns : Locking(d)' <=> d = c \/ Locking(d)
  BY DEF Locking, TypeOK
<1>4. \A d : (\E i \in DOMAIN lockq' : lockq'[i] = d) <=> d = c \/ \E i \in DOMAIN lockq : lockq[i] = d
  BY <1>1
<1>5. \A i, j \in DOMAIN lockq' : lockq'[i] = lockq'[j] => i = j
  BY <1>1, <1>2 DEF MutexOK
<1>6. \A i \in DOMAIN lockq' : i # 1 => pc'[lockq'[i]] = "lock"
  BY <1>1, <1>2 DEF MutexOK, TypeOK
<1> QED BY <1>3, <1>4, <1>5, <1>6 DEF MutexOK

(* Nobody starts or stops needing the mutex.                               *)
LEMMA KeepMutex ==
    ASSUME TypeOK, MutexOK, lockq' = lockq,
           \A d \in Conns : pc'[d] = pc[d] \/ (~Locking(d) /\ ~Locking(d)')
    PROVE  MutexOK'
<1>1. \A d \in Conns : Locking(d)' <=> Locking(d)
  BY DEF Locking
<1>2. \A i \in DOMAIN lockq : lockq[i] \in Conns /\ Locking(lockq[i])
  BY DEF MutexOK, TypeOK
<1> QED BY <1>1, <1>2 DEF MutexOK, Locking

(* Whoever is in ReloadConfig's file access, or takes a locked step, holds *)
(* the mutex.                                                              *)
LEMMA MutexHolder ==
    ASSUME TypeOK, MutexOK, NEW c \in Conns, pc[c] \in {"read", "parse"} \/ Holds(c)
    PROVE  Holds(c) /\ lockq # <<>>
<1>1. CASE Holds(c)
  BY <1>1 DEF Holds
<1>2. CASE pc[c] \in {"read", "parse"}
  <2>1. PICK i \in DOMAIN lockq : lockq[i] = c
    BY <1>2 DEF MutexOK, Locking
  <2>2. i = 1
    BY <1>2, <2>1 DEF MutexOK
  <2> QED BY <2>1, <2>2 DEF Holds, TypeOK
<1> QED BY <1>1, <1>2

(* TypeOK is preserved by every step, once only the holder of the mutex is *)
(* in its critical section (MutexOK).                                      *)
LEMMA NextType ==
    ASSUME TypeOK, MutexOK, [Next]_vars
    PROVE  TypeOK'
<1>q. ASSUME NEW c \in Conns, status(c) \/ reload_exists(c) \/ reload_read(c) \/ reload_parse(c)
      PROVE  lockq # <<>>
  BY <1>q, MutexHolder DEF status, reload_exists, reload_read, reload_parse
<1>1. ASSUME NEW c \in Conns, Handle(c)
      PROVE  TypeOK'
  BY <1>1, <1>q, ConnectionType, CommandStepsType, QueryStepsType, ListingStepsType,
     ConfigStepsType DEF Handle
<1>2. CASE \E c \in Conns : \/ Connect(c) \/ HangUp(c) \/ ReadFails(c) \/ ReceiveAny(c)
                            \/ Handle(c) \/ Hang(c)
  BY <1>1, <1>2, ConnectionType, ReceiveAnyType, EnvironmentType
<1>3. CASE EditConfig \/ Crash \/ Restart \/ OrphanEnds
  BY <1>3, EnvironmentType
<1>4. CASE UNCHANGED vars
  BY <1>4 DEF vars, conn, scan, history, shared, budget, TypeOK, HasPool
<1> QED BY <1>2, <1>3, <1>4 DEF Next

(* The await points of a handler that runs commands.                       *)
LEMMA CommandPoints ==
    /\ \A op \in Mutations \cup Queries : op \notin {"lock", "read", "parse", "reply", "idle", "free"}
    /\ {"import", "export", "create", "load-key", "mount", "unmount", "change-key"} = Mutations
    /\ {"mountpoint", "zpool list", "encryption", "mounted", "datasets", "scan"} = Queries
BY DEF Mutations, Queries

LEMMA HandleMutex ==
    ASSUME TypeOK, MutexOK, NEW c \in Conns, Handle(c)
    PROVE  MutexOK'
<1>1. CASE EndOfFile(c) \/ Reply(c) \/ ReplyFails(c)
  <2>1. lockq' = lockq /\ \A d \in Conns : pc'[d] = pc[d] \/ (~Locking(d) /\ ~Locking(d)')
    BY <1>1 DEF EndOfFile, Reply, ReplyFails, shared, Locking, TypeOK
  <2> QED BY <2>1, KeepMutex
<1>2. CASE \/ import_pool(c) \/ export_pool(c) \/ create_pool(c) \/ unmount(c)
           \/ load_key(c) \/ change_key(c) \/ mount(c)
  <2>1. pc[c] \in Mutations
    BY <1>2, CommandPoints DEF import_pool, export_pool, create_pool, unmount, load_key, change_key,
       mount, OneCommand, Await
  <2>2. lockq' = lockq
    BY <1>2 DEF import_pool, export_pool, create_pool, unmount, load_key, change_key, mount,
       OneCommand, Exit, shared
  <2>3. \E next \in {"reply", "mount", "change-key", "mountpoint"} : pc' = [pc EXCEPT ![c] = next]
    BY <1>2 DEF import_pool, export_pool, create_pool, unmount, load_key, change_key, mount,
       OneCommand, Answer, StartNext
  <2>4. \A d \in Conns : pc'[d] = pc[d] \/ (~Locking(d) /\ ~Locking(d)')
    BY <2>1, <2>3, CommandPoints DEF Locking, TypeOK
  <2> QED BY <2>2, <2>4, KeepMutex
<1>3. CASE \/ mountpoint(c) \/ scan_devices(c) \/ list_pools(c) \/ is_encrypted(c)
           \/ get_mount_info(c) \/ list_datasets(c)
  <2>1. pc[c] \in Queries
    BY <1>3, CommandPoints DEF mountpoint, scan_devices, list_pools, is_encrypted, get_mount_info,
       list_datasets, Await
  <2>2. lockq' = lockq
    BY <1>3 DEF mountpoint, scan_devices, list_pools, is_encrypted, get_mount_info, list_datasets,
       QueryExit, shared
  <2>3. \E next \in {"reply", "encryption", "mounted", "datasets"} : pc' = [pc EXCEPT ![c] = next]
    BY <1>3 DEF mountpoint, scan_devices, list_pools, is_encrypted, get_mount_info, list_datasets,
       Answer, StartNext
  <2>4. \A d \in Conns : pc'[d] = pc[d] \/ (~Locking(d) /\ ~Locking(d)')
    BY <2>1, <2>3, CommandPoints DEF Locking, TypeOK
  <2> QED BY <2>2, <2>4, KeepMutex
<1>4. CASE status(c) \/ reload_exists(c) \/ reload_read(c) \/ reload_parse(c)
  <2>1. Holds(c)
    BY <1>4, MutexHolder DEF status, reload_exists, reload_read, reload_parse
  <2>2. CASE unlock /\ pc' = [pc EXCEPT ![c] = "reply"]
    BY <2>1, <2>2, UnlockMutex DEF Locking, TypeOK
  <2>3. CASE lockq' = lockq /\ \E next \in {"read", "parse"} : pc' = [pc EXCEPT ![c] = next]
    BY <2>1, <2>3, <1>4 DEF MutexOK, Holds, Locking, TypeOK, status, reload_exists, reload_read,
       reload_parse
  <2> QED BY <1>4, <2>2, <2>3 DEF status, reload_exists, reload_read, reload_parse, Answer, StartNext
<1> QED BY <1>1, <1>2, <1>3, <1>4 DEF Handle

LEMMA NextMutex ==
    ASSUME TypeOK, MutexOK, [Next]_vars
    PROVE  MutexOK'
<1> USE DEF shared, conn
<1>1. ASSUME NEW c \in Conns, Connect(c) \/ HangUp(c) \/ ReadFails(c) \/ Hang(c)
      PROVE  MutexOK'
  <2>1. lockq' = lockq /\ \A d \in Conns : pc'[d] = pc[d] \/ (~Locking(d) /\ ~Locking(d)')
    BY <1>1 DEF Connect, HangUp, ReadFails, Hang, Locking, TypeOK
  <2> QED BY <2>1, KeepMutex
<1>2. ASSUME NEW c \in Conns, ReceiveAny(c)
      PROVE  MutexOK'
  <2>1. ~Locking(c)
    BY <1>2 DEF ReceiveAny, ReceiveInvalid, ReceivePing, ReceiveSubscribeEvents, ReceiveStatus,
       ReceiveReloadConfig, ReceiveListPools, ReceiveListDevices, ReceiveImportPool,
       ReceiveExportPool, ReceiveMount, ReceiveUnmount, ReceiveInitPool, ReceiveChangeKey,
       AnswerAtOnce, ReceiveLocking, ReceiveCommand, Receive, Locking
  <2>2. CASE ReceiveStatus(c) \/ ReceiveReloadConfig(c)
    BY <2>1, <2>2, LockMutex DEF ReceiveStatus, ReceiveReloadConfig, ReceiveLocking, Receive
  <2>3. CASE ~(ReceiveStatus(c) \/ ReceiveReloadConfig(c))
    <3>1. lockq' = lockq /\ \E next \in {"reply"} \cup Mutations \cup Queries : pc' = [pc EXCEPT ![c] = next]
      BY <1>2, <2>3, CommandPoints
      DEF ReceiveAny, ReceiveInvalid, ReceivePing, ReceiveSubscribeEvents, ReceiveListPools,
       ReceiveListDevices, ReceiveImportPool, ReceiveExportPool, ReceiveMount, ReceiveUnmount,
       ReceiveInitPool, ReceiveChangeKey, AnswerAtOnce, ReceiveCommand, Receive
    <3>2. \A d \in Conns : pc'[d] = pc[d] \/ (~Locking(d) /\ ~Locking(d)')
      BY <2>1, <3>1, CommandPoints DEF Locking, TypeOK
    <3> QED BY <3>1, <3>2, KeepMutex
  <2> QED BY <2>2, <2>3
<1>3. CASE Crash
  BY <1>3 DEF Crash, MutexOK, Locking
<1>4. CASE EditConfig \/ Restart \/ OrphanEnds \/ UNCHANGED vars
  <2>1. lockq' = lockq /\ pc' = pc
    BY <1>4 DEF EditConfig, Restart, OrphanEnds, vars
  <2> QED BY <2>1, KeepMutex
<1> QED BY <1>1, <1>2, <1>3, <1>4, HandleMutex DEF Next

(* Every behaviour of the daemon is well typed, for any number of          *)
(* connections, pools and passphrases and any bounds.                      *)
THEOREM TypeCorrect == Spec => []TypeOK
<1>1. Init => TypeOK /\ MutexOK
  <2>1. Init => MutexOK
    BY DEF Init, MutexOK, Locking
  <2> QED BY <2>1, InitType
<1>2. TypeOK /\ MutexOK /\ [Next]_vars => (TypeOK /\ MutexOK)'
  BY NextType, NextMutex
<1> QED BY <1>1, <1>2, PTL DEF Spec

(* The mutex of the daemon's state is held by one handler at a time and    *)
(* its queue holds each handler that needs it once.                        *)
THEOREM MutexCorrect == Spec => []MutexOK
<1>1. Init => TypeOK /\ MutexOK
  <2>1. Init => MutexOK
    BY DEF Init, MutexOK, Locking
  <2> QED BY <2>1, InitType
<1>2. TypeOK /\ MutexOK /\ [Next]_vars => (TypeOK /\ MutexOK)'
  BY NextType, NextMutex
<1> QED BY <1>1, <1>2, PTL DEF Spec

-----------------------------------------------------------------------------
(* Reloads.  What a handler has read of the file is no older than the      *)
(* configuration, for the mutex keeps the other reloads away; no handler   *)
(* outlives the daemon.                                                    *)
ConfigOK ==
    /\ config <= file.ver
    /\ \A c \in Conns : pc[c] = "parse" => config <= text[c].ver /\ text[c].ver <= file.ver
    /\ ~up => \A c \in Conns : pc[c] = "free"

(* What leaves the configuration, the file and its readers alone.          *)
LEMMA ConfigFrame ==
    ASSUME TypeOK, ConfigOK, config' = config, file' = file, text' = text, up' = up,
           \A c \in Conns : pc'[c] = "parse" => pc[c] = "parse",
           up \/ pc' = pc
    PROVE  ConfigOK' /\ config' >= config
<1>1. config' >= config
  BY DEF TypeOK
<1> QED BY <1>1 DEF ConfigOK

(* A step of the task of c.                                                *)
LEMMA TaskConfig ==
    ASSUME TypeOK, ConfigOK, NEW c \in Conns, NEW next,
           pc[c] # "free" \/ up, next # "parse", pc' = [pc EXCEPT ![c] = next],
           config' = config, file' = file, text' = text, up' = up
    PROVE  ConfigOK' /\ config' >= config
<1>1. config \in Nat /\ up
  BY DEF TypeOK, ConfigOK
<1> QED BY <1>1 DEF ConfigOK, TypeOK

LEMMA ReceiveConfig ==
    ASSUME TypeOK, ConfigOK, NEW c \in Conns, ReceiveAny(c)
    PROVE  ConfigOK' /\ config' >= config
<1>1. \E next \in {"reply", "lock"} \cup Mutations \cup Queries : \E r : Receive(c, r, next)
  BY CommandPoints
  DEF ReceiveAny, ReceiveInvalid, ReceivePing, ReceiveSubscribeEvents, ReceiveStatus,
      ReceiveReloadConfig, ReceiveListPools, ReceiveListDevices, ReceiveImportPool,
      ReceiveExportPool, ReceiveMount, ReceiveUnmount, ReceiveInitPool, ReceiveChangeKey,
      AnswerAtOnce, ReceiveLocking, ReceiveCommand
<1>2. "parse" \notin {"reply", "lock"} \cup Mutations \cup Queries
  BY DEF Mutations, Queries
<1> QED BY <1>1, <1>2, TaskConfig DEF Receive, scan

LEMMA CommandConfig ==
    ASSUME TypeOK, ConfigOK, NEW c \in Conns,
           \/ import_pool(c) \/ export_pool(c) \/ create_pool(c) \/ unmount(c)
           \/ load_key(c) \/ change_key(c) \/ mount(c)
    PROVE  ConfigOK' /\ config' >= config
<1>1. pc[c] # "free"
  BY DEF import_pool, export_pool, create_pool, unmount, load_key, change_key, mount, OneCommand, Await
<1>2. config' = config /\ file' = file /\ text' = text /\ up' = up
  BY DEF import_pool, export_pool, create_pool, unmount, load_key, change_key, mount, OneCommand,
     Exit, shared, scan
<1>3. \E next \in {"reply", "mount", "change-key", "mountpoint"} : pc' = [pc EXCEPT ![c] = next]
  BY DEF import_pool, export_pool, create_pool, unmount, load_key, change_key, mount, OneCommand,
     Answer, StartNext
<1> QED BY <1>1, <1>2, <1>3, TaskConfig

LEMMA QueryConfig ==
    ASSUME TypeOK, ConfigOK, NEW c \in Conns,
           \/ mountpoint(c) \/ scan_devices(c) \/ list_pools(c) \/ is_encrypted(c)
           \/ get_mount_info(c) \/ list_datasets(c)
    PROVE  ConfigOK' /\ config' >= config
<1>1. pc[c] # "free"
  BY DEF mountpoint, scan_devices, list_pools, is_encrypted, get_mount_info, list_datasets, Await
<1>2. config' = config /\ file' = file /\ text' = text /\ up' = up
  BY DEF mountpoint, scan_devices, list_pools, is_encrypted, get_mount_info, list_datasets,
     QueryExit, shared, scan
<1>3. \E next \in {"reply", "encryption", "mounted", "datasets"} : pc' = [pc EXCEPT ![c] = next]
  BY DEF mountpoint, scan_devices, list_pools, is_encrypted, get_mount_info, list_datasets,
     Answer, StartNext
<1> QED BY <1>1, <1>2, <1>3, TaskConfig

(* Status and ReloadConfig, under the mutex.                               *)
LEMMA LockedConfig ==
    ASSUME TypeOK, MutexOK, ConfigOK, NEW c \in Conns,
           status(c) \/ reload_exists(c) \/ reload_read(c) \/ reload_parse(c)
    PROVE  ConfigOK' /\ config' >= config
<1>1. pc[c] # "free" /\ up
  BY DEF status, reload_exists, reload_read, reload_parse, ConfigOK
<1>2. \A d \in Conns : d # c => pc[d] # "parse"
  <2>1. Holds(c)
    BY MutexHolder DEF status, reload_exists, reload_read, reload_parse
  <2> QED BY <2>1, MutexHolder DEF Holds
<1>3. /\ config \in Nat /\ file.ver \in Nat /\ text[c].ver \in Nat
      /\ file' = file /\ up' = up
  BY DEF status, reload_exists, reload_read, reload_parse, TypeOK, Files
<1>4. CASE status(c)
  BY <1>1, <1>4, TaskConfig DEF status, Answer, scan
<1>5. CASE reload_exists(c)
  <2>1. (config' = config \/ config' = file.ver) /\ \A d \in Conns : pc'[d] # "parse"
    BY <1>2, <1>5 DEF reload_exists, Answer, StartNext, TypeOK
  <2> QED BY <1>1, <1>3, <2>1 DEF ConfigOK
<1>6. CASE reload_read(c)
  <2>1. config' = config /\ \A d \in Conns : pc'[d] = "parse" => text'[d] = file
    BY <1>2, <1>6 DEF reload_read, Answer, StartNext, TypeOK
  <2> QED BY <1>1, <1>3, <2>1 DEF ConfigOK
<1>7. CASE reload_parse(c)
  BY <1>1, <1>2, <1>3, <1>7 DEF reload_parse, Answer, ConfigOK, TypeOK
<1> QED BY <1>4, <1>5, <1>6, <1>7

LEMMA NextConfig ==
    ASSUME TypeOK, MutexOK, ConfigOK, [Next]_vars
    PROVE  ConfigOK' /\ config' >= config
<1> USE DEF shared, conn, scan
<1>0. config \in Nat /\ file.ver \in Nat /\ \A c \in Conns : text[c].ver \in Nat
  BY DEF TypeOK, Files
<1>1. ASSUME NEW c \in Conns,
             Connect(c) \/ EndOfFile(c) \/ ReadFails(c) \/ Reply(c) \/ ReplyFails(c)
      PROVE  ConfigOK' /\ config' >= config
  BY <1>1, TaskConfig DEF Connect, EndOfFile, ReadFails, Reply, ReplyFails
<1>2. CASE (\E c \in Conns : HangUp(c) \/ Hang(c)) \/ OrphanEnds \/ UNCHANGED vars
  BY <1>0, <1>2, ConfigFrame DEF HangUp, Hang, OrphanEnds, vars
<1>3. ASSUME NEW c \in Conns, Handle(c)
      PROVE  ConfigOK' /\ config' >= config
  BY <1>1, <1>3, CommandConfig, QueryConfig, LockedConfig DEF Handle
<1>4. CASE EditConfig
  <2>1. config' = config /\ text' = text /\ up' = up /\ pc' = pc /\ file'.ver = file.ver + 1
    BY <1>4 DEF EditConfig
  <2> QED BY <1>0, <2>1 DEF ConfigOK
<1>5. CASE Crash
  BY <1>0, <1>5 DEF Crash, ConfigOK
<1>6. CASE Restart
  BY <1>0, <1>6 DEF Restart, ConfigOK
<1> QED BY <1>1, <1>2, <1>3, <1>4, <1>5, <1>6, ReceiveConfig DEF Next

(* No reload and no restart brings an older configuration back, however    *)
(* reloads and edits of the file interleave.                               *)
THEOREM ConfigIsMonotone == Spec => ConfigMonotone
<1>1. Init => TypeOK /\ MutexOK /\ ConfigOK
  <2>1. Init => MutexOK
    BY DEF Init, MutexOK, Locking
  <2>2. Init => ConfigOK
    BY DEF Init, ConfigOK
  <2> QED BY <2>1, <2>2, InitType
<1>2. TypeOK /\ MutexOK /\ ConfigOK /\ [Next]_vars =>
          (TypeOK /\ MutexOK /\ ConfigOK)' /\ [config' >= config]_vars
  BY NextType, NextMutex, NextConfig
<1> QED BY <1>1, <1>2, PTL DEF Spec, ConfigMonotone

(********************************* Progress ********************************)

(* The second effect of a request comes after the first.                   *)
LEMMA AppendSecond ==
    ASSUME NEW S, NEW x \in S, NEW y \in S
    PROVE  Append(<<x>>, y) = <<x, y>>
<1>1. <<x>> \in Seq(S) /\ <<x, y>> \in Seq(S)
  OBVIOUS
<1>2. Append(<<x>>, y) \in Seq(S) /\ Len(Append(<<x>>, y)) = 2 /\ Len(<<x, y>>) = 2
  BY <1>1
<1>3. Append(<<x>>, y)[1] = x /\ Append(<<x>>, y)[2] = y
  BY <1>1
<1>4. \A i \in 1 .. 2 : Append(<<x>>, y)[i] = <<x, y>>[i]
  BY <1>3
<1> QED BY <1>1, <1>2, <1>4, SeqEqual

(* A handler whose request, answer, effects and await point do not change  *)
(* stays where its effects say.                                            *)
LEMMA ProgressFrame ==
    ASSUME NEW d \in Conns, Progress(d), pc'[d] = pc[d], req'[d] = req[d],
           resp'[d] = resp[d], done'[d] = done[d], mishap'[d] = mishap[d]
    PROVE  Progress(d)'
BY DEF Progress, AtMutation, Answered, Undone

(* What the end of a command tells.                                        *)
LEMMA OutcomeFacts ==
    ASSUME TypeOK, NEW c \in Conns, pc[c] \in Mutations, NEW o \in Outcomes(Command(c)),
           Exit(c, o)
    PROVE  /\ o.status \in {"ok", "fail", "err"}
           /\ done'[c] = IF o.acts THEN Append(done[c], pc[c]) ELSE done[c]
           /\ o.status = "ok" => o.acts
           /\ o.acts /\ o.status # "ok" => <<pc[c], o.status>> \in mishap'[c]
           /\ req' = req
           /\ \A d \in Conns : d # c => done'[d] = done[d] /\ mishap'[d] = mishap[d]
<1>1. Command(c).op = pc[c]
  BY CommandType
<1>2. /\ o.acts \in BOOLEAN /\ o.abnormal \in BOOLEAN /\ o.status \in {"ok", "fail", "err"}
      /\ o.status = "ok" => o.acts
      /\ o.acts /\ o.status # "ok" => o.abnormal
  BY DEF Outcomes
<1>3. done'[c] = IF o.acts THEN Append(done[c], pc[c]) ELSE done[c]
  BY <1>1 DEF Exit, TypeOK
<1>4. o.abnormal => <<pc[c], o.status>> \in mishap'[c]
  BY <1>1 DEF Exit, TypeOK
<1>5. req' = req /\ \A d \in Conns : d # c => done'[d] = done[d] /\ mishap'[d] = mishap[d]
  BY DEF Exit, TypeOK
<1> QED BY <1>2, <1>3, <1>4, <1>5

(* A command that does not end with "ok" has had no effect, or ended       *)
(* abnormally; before it there was a load-key at most.                     *)
LEMMA FailureUndone ==
    ASSUME TypeOK, NEW c \in Conns, pc[c] \in Mutations, NEW o \in Outcomes(Command(c)),
           Exit(c, o), o.status # "ok", done[c] \in {<<>>, <<"load-key">>}
    PROVE  Undone(c)'
<1>1. o.acts => <<pc[c], o.status>> \in mishap'[c] /\ o.status \in {"err", "fail"}
  BY OutcomeFacts
<1>2. \A i \in DOMAIN done'[c] : done'[c][i] = "load-key" \/ (o.acts /\ done'[c][i] = pc[c])
  <2>1. done'[c] = IF o.acts THEN Append(done[c], pc[c]) ELSE done[c]
    BY OutcomeFacts
  <2>2. done[c] \in Seq(Mutations) /\ \A i \in DOMAIN done[c] : done[c][i] = "load-key"
    BY DEF TypeOK
  <2>3. /\ DOMAIN Append(done[c], pc[c]) = 1 .. (Len(done[c]) + 1)
        /\ Append(done[c], pc[c])[Len(done[c]) + 1] = pc[c]
        /\ \A i \in 1 .. Len(done[c]) : Append(done[c], pc[c])[i] = done[c][i]
    BY <2>2
  <2>4. DOMAIN done[c] = 1 .. Len(done[c]) /\ Len(done[c]) \in Nat
    BY <2>2
  <2> QED BY <2>1, <2>2, <2>3, <2>4
<1> QED BY <1>1, <1>2 DEF Undone

(* An answer puts the handler at "reply", one more command elsewhere.      *)
LEMMA AnswerFacts ==
    ASSUME TypeOK, NEW c \in Conns, NEW r, Answer(c, r)
    PROVE  /\ pc'[c] = "reply" /\ resp'[c] = r
           /\ \A d \in Conns : d # c => pc'[d] = pc[d] /\ resp'[d] = resp[d]
BY DEF Answer, TypeOK

LEMMA StartFacts ==
    ASSUME TypeOK, NEW c \in Conns, NEW op, StartNext(c, op)
    PROVE  /\ pc'[c] = op /\ resp' = resp
           /\ \A d \in Conns : d # c => pc'[d] = pc[d]
BY DEF StartNext, TypeOK

(* A handler at a mutation has a request, and its last effect completes it *)
(* unless the mutation is a load-key.                                      *)
LEMMA MutationFacts ==
    ASSUME NEW c \in Conns, Progress(c), pc[c] \in Mutations
    PROVE  /\ req[c].op # "none"
           /\ done[c] \in {<<>>, <<"load-key">>}
           /\ pc[c] # "load-key" => Append(done[c], pc[c]) = Effects(req[c])
           /\ resp[c] = Response("none")
BY CommandPoints DEF Progress, AtMutation

(* Requests that are one command, and change-key: done or not.             *)
LEMMA OneCommandProgress ==
    ASSUME TypeOK, ProgressOK, NEW c \in Conns,
           \E op \in Mutations \ {"load-key"} : OneCommand(c, op)
    PROVE  ProgressOK'
<1>1. pc[c] \in Mutations /\ pc[c] # "load-key" /\ Progress(c)
  BY DEF OneCommand, Await, ProgressOK
<1>2. PICK o \in Outcomes(Command(c)) :
          /\ Exit(c, o)
          /\ Answer(c, Response(IF o.status = "ok" THEN "Success" ELSE "Error"))
  BY DEF OneCommand
<1>3. /\ pc'[c] = "reply"
      /\ resp'[c] = Response(IF o.status = "ok" THEN "Success" ELSE "Error")
      /\ \A d \in Conns : d # c => pc'[d] = pc[d] /\ resp'[d] = resp[d]
  BY <1>2, AnswerFacts
<1>4. Progress(c)'
  <2>1. resp'[c].kind = IF o.status = "ok" THEN "Success" ELSE "Error"
    BY <1>3 DEF Response
  <2>2. "reply" \notin Mutations \cup {"mountpoint", "free", "idle"}
    BY DEF Mutations
  <2>3. o.status # "ok" => Undone(c)'
    BY <1>1, <1>2, FailureUndone, MutationFacts
  <2> QED BY <1>1, <1>2, <1>3, <2>1, <2>2, <2>3, OutcomeFacts, MutationFacts DEF Progress, Answered
<1>5. \A d \in Conns : d # c => Progress(d)'
  BY <1>1, <1>2, <1>3, OutcomeFacts, ProgressFrame DEF ProgressOK
<1> QED BY <1>4, <1>5 DEF ProgressOK

(* load-key, the first of two commands.                                    *)
LEMMA LoadKeyProgress ==
    ASSUME TypeOK, ProgressOK, NEW c \in Conns, load_key(c)
    PROVE  ProgressOK'
<1> DEFINE next == IF req[c].op = "Mount" THEN "mount" ELSE "change-key"
<1>1. /\ pc[c] = "load-key" /\ pc[c] \in Mutations /\ Progress(c)
  BY DEF load_key, Await, ProgressOK, Mutations
<1>2. PICK o \in Outcomes(Command(c)) :
          /\ Exit(c, o)
          /\ IF o.status = "ok" THEN StartNext(c, next) ELSE Answer(c, Response("Error"))
  BY DEF load_key
<1>3. /\ done[c] = <<>> /\ req[c].op # "none" /\ resp[c] = Response("none")
      /\ Effects(req[c]) = <<"load-key", next>>
  BY <1>1, CommandPoints DEF Progress, AtMutation
<1>4. CASE o.status = "ok"
  <2>1. pc'[c] = next /\ resp' = resp /\ \A d \in Conns : d # c => pc'[d] = pc[d]
    BY <1>2, <1>4, StartFacts
  <2>2. done'[c] = <<"load-key">> /\ req' = req
    <3>1. done'[c] = Append(<<>>, "load-key") /\ req' = req
      BY <1>1, <1>2, <1>3, <1>4, OutcomeFacts
    <3> QED BY <3>1
  <2>3. /\ next \in Mutations /\ next # "load-key" /\ "load-key" \in Mutations
        /\ next \notin {"reply", "mountpoint", "free", "idle"}
    BY DEF Mutations
  <2>4. Append(<<"load-key">>, next) = <<"load-key", next>>
    <3> HIDE DEF next
    <3> QED BY <2>3, AppendSecond
  <2>5. Progress(c)'
    BY <1>3, <2>1, <2>2, <2>3, <2>4 DEF Progress, AtMutation, Answered
  <2>6. \A d \in Conns : d # c => Progress(d)'
    BY <1>1, <1>2, <2>1, OutcomeFacts, ProgressFrame DEF ProgressOK
  <2> QED BY <2>5, <2>6 DEF ProgressOK
<1>5. CASE o.status # "ok"
  <2>1. /\ pc'[c] = "reply" /\ resp'[c] = Response("Error")
        /\ \A d \in Conns : d # c => pc'[d] = pc[d] /\ resp'[d] = resp[d]
    BY <1>2, <1>5, AnswerFacts
  <2>2. resp'[c].kind = "Error" /\ "reply" \notin Mutations \cup {"mountpoint", "free", "idle"}
    BY <2>1 DEF Response, Mutations
  <2>5. Undone(c)'
    BY <1>1, <1>2, <1>3, <1>5, FailureUndone
  <2>3. Progress(c)'
    BY <1>1, <1>2, <1>3, <1>5, <2>1, <2>2, <2>5, OutcomeFacts DEF Progress, Answered
  <2>4. \A d \in Conns : d # c => Progress(d)'
    BY <1>1, <1>2, <2>1, OutcomeFacts, ProgressFrame DEF ProgressOK
  <2> QED BY <2>3, <2>4 DEF ProgressOK
<1> QED BY <1>4, <1>5

(* mount: once the dataset is mounted the request has all its effects.     *)
LEMMA MountProgress ==
    ASSUME TypeOK, ProgressOK, NEW c \in Conns, mount(c)
    PROVE  ProgressOK'
<1>1. pc[c] = "mount" /\ pc[c] \in Mutations /\ Progress(c)
  BY DEF mount, Await, ProgressOK, Mutations
<1>2. PICK o \in Outcomes(Command(c)) :
          /\ Exit(c, o)
          /\ IF o.status = "ok" THEN StartNext(c, "mountpoint") ELSE Answer(c, Response("Error"))
  BY DEF mount
<1>3. /\ "mountpoint" \notin Mutations \cup {"reply", "free", "idle"}
      /\ "reply" \notin Mutations \cup {"mountpoint", "free", "idle"}
  BY DEF Mutations
<1>4. CASE o.status = "ok"
  <2>1. pc'[c] = "mountpoint" /\ resp' = resp /\ \A d \in Conns : d # c => pc'[d] = pc[d]
    BY <1>2, <1>4, StartFacts
  <2>2. Progress(c)'
    BY <1>1, <1>2, <1>3, <1>4, <2>1, OutcomeFacts, MutationFacts DEF Progress, Answered
  <2>3. \A d \in Conns : d # c => Progress(d)'
    BY <1>1, <1>2, <2>1, OutcomeFacts, ProgressFrame DEF ProgressOK
  <2> QED BY <2>2, <2>3 DEF ProgressOK
<1>5. CASE o.status # "ok"
  <2>1. /\ pc'[c] = "reply" /\ resp'[c] = Response("Error")
        /\ \A d \in Conns : d # c => pc'[d] = pc[d] /\ resp'[d] = resp[d]
    BY <1>2, <1>5, AnswerFacts
  <2>2. resp'[c].kind = "Error"
    BY <2>1 DEF Response
  <2>5. Undone(c)'
    BY <1>1, <1>2, <1>5, FailureUndone, MutationFacts
  <2>3. Progress(c)'
    BY <1>1, <1>2, <1>3, <1>5, <2>1, <2>2, <2>5, OutcomeFacts, MutationFacts DEF Progress, Answered
  <2>4. \A d \in Conns : d # c => Progress(d)'
    BY <1>1, <1>2, <2>1, OutcomeFacts, ProgressFrame DEF ProgressOK
  <2> QED BY <2>3, <2>4 DEF ProgressOK
<1> QED BY <1>4, <1>5

-----------------------------------------------------------------------------
(* Requests without effects.                                               *)

(* A handler of a request that asks for no effect answers what it likes.   *)
LEMMA NoEffectProgress ==
    ASSUME NEW c \in Conns, Progress(c),
           pc[c] \notin Mutations \cup {"mountpoint", "reply", "free", "idle"},
           pc'[c] \notin Mutations \cup {"mountpoint", "free", "idle"},
           req'[c] = req[c], done'[c] = done[c],
           pc'[c] # "reply" => resp'[c] = resp[c]
    PROVE  Progress(c)'
BY DEF Progress, Answered, Undone

(* The steps of c's task touch no other connection.                        *)
LEMMA OthersProgress ==
    ASSUME ProgressOK, NEW c \in Conns, Progress(c)',
           \A d \in Conns : d # c =>
               /\ pc'[d] = pc[d] /\ req'[d] = req[d] /\ resp'[d] = resp[d]
               /\ done'[d] = done[d] /\ mishap'[d] = mishap[d]
    PROVE  ProgressOK'
BY ProgressFrame DEF ProgressOK

LEMMA QueryFacts ==
    ASSUME TypeOK, NEW c \in Conns, NEW st, QueryExit(c, st)
    PROVE  /\ req' = req /\ done' = done
           /\ \A d \in Conns : d # c => mishap'[d] = mishap[d]
           /\ st # "ok" => <<pc[c], st>> \in mishap'[c]
BY DEF QueryExit, TypeOK

(* DatasetManager::mount ends: the dataset was mounted already.            *)
LEMMA MountpointProgress ==
    ASSUME TypeOK, ProgressOK, NEW c \in Conns, mountpoint(c)
    PROVE  ProgressOK'
<1>1. pc[c] = "mountpoint" /\ Progress(c)
  BY DEF mountpoint, Await, ProgressOK
<1>2. PICK st \in QueryOutcomes :
          /\ QueryExit(c, st)
          /\ Answer(c, Response(IF st = "err" THEN "Error" ELSE "Success"))
  BY DEF mountpoint
<1>3. /\ pc'[c] = "reply" /\ resp'[c] = Response(IF st = "err" THEN "Error" ELSE "Success")
      /\ \A d \in Conns : d # c => pc'[d] = pc[d] /\ resp'[d] = resp[d]
  BY <1>2, AnswerFacts
<1>4. resp'[c].kind = IF st = "err" THEN "Error" ELSE "Success"
  BY <1>3 DEF Response
<1>5. "reply" \notin Mutations \cup {"mountpoint", "free", "idle"} /\ "mountpoint" \notin Mutations
  BY DEF Mutations
<1>6. Progress(c)'
  BY <1>1, <1>2, <1>3, <1>4, <1>5, QueryFacts DEF Progress, Answered, Undone
<1> QED BY <1>2, <1>3, <1>6, QueryFacts, OthersProgress

(* ListDevices and ListPools.                                              *)
LEMMA ListingProgress ==
    ASSUME TypeOK, ProgressOK, NEW c \in Conns,
           \/ scan_devices(c) \/ list_pools(c) \/ is_encrypted(c)
           \/ get_mount_info(c) \/ list_datasets(c)
    PROVE  ProgressOK'
<1>1. PICK st \in QueryOutcomes : QueryExit(c, st)
  BY DEF scan_devices, list_pools, is_encrypted, get_mount_info, list_datasets
<1>2. pc[c] \in Queries \ {"mountpoint"}
  BY DEF scan_devices, list_pools, is_encrypted, get_mount_info, list_datasets, Await, Queries
<1>3. \/ \E op \in {"encryption", "mounted", "datasets"} : StartNext(c, op)
      \/ \E r : Answer(c, r)
  BY DEF scan_devices, list_pools, is_encrypted, get_mount_info, list_datasets
<1>4. /\ pc'[c] \in {"reply", "encryption", "mounted", "datasets"}
      /\ pc'[c] # "reply" => resp'[c] = resp[c]
      /\ \A d \in Conns : d # c => pc'[d] = pc[d] /\ resp'[d] = resp[d]
  BY <1>3, AnswerFacts, StartFacts
<1>5. /\ \A op \in Queries \ {"mountpoint"} :
             op \notin Mutations \cup {"mountpoint", "reply", "free", "idle"}
      /\ {"reply", "encryption", "mounted", "datasets"}
             \cap (Mutations \cup {"mountpoint", "free", "idle"}) = {}
  BY DEF Queries, Mutations
<1>6. Progress(c)'
  BY <1>1, <1>2, <1>4, <1>5, QueryFacts, NoEffectProgress DEF ProgressOK
<1> QED BY <1>1, <1>4, <1>6, QueryFacts, OthersProgress

(* Status and ReloadConfig.                                                *)
LEMMA ConfigProgress ==
    ASSUME TypeOK, ProgressOK, NEW c \in Conns,
           status(c) \/ reload_exists(c) \/ reload_read(c) \/ reload_parse(c)
    PROVE  ProgressOK'
<1>1. pc[c] \in {"lock", "read", "parse"}
  BY DEF status, reload_exists, reload_read, reload_parse
<1>2. (\E op \in {"read", "parse"} : StartNext(c, op)) \/ (\E r : Answer(c, r))
  BY DEF status, reload_exists, reload_read, reload_parse
<1>3. /\ pc'[c] \in {"reply", "read", "parse"}
      /\ pc'[c] # "reply" => resp'[c] = resp[c]
      /\ \A d \in Conns : d # c => pc'[d] = pc[d] /\ resp'[d] = resp[d]
  BY <1>2, AnswerFacts, StartFacts
<1>4. req' = req /\ done' = done /\ mishap' = mishap
  BY DEF status, reload_exists, reload_read, reload_parse, history
<1>5. {"lock", "reply", "read", "parse"} \cap (Mutations \cup {"mountpoint", "free", "idle"}) = {}
  BY DEF Mutations
<1>6. Progress(c)'
  BY <1>1, <1>3, <1>4, <1>5, NoEffectProgress DEF ProgressOK
<1> QED BY <1>3, <1>4, <1>6, OthersProgress

-----------------------------------------------------------------------------
(* The beginning and the end of a request.                                 *)

(* A connection without a request.                                         *)
LEMMA IdleProgress ==
    ASSUME NEW c \in Conns, pc[c] \in {"free", "idle"},
           req[c] = Request("none"), resp[c] = Response("none"), done[c] = <<>>
    PROVE  Progress(c)
BY DEF Progress, Answered, Request, Effects, Mutations

LEMMA IdleFacts ==
    ASSUME NEW c \in Conns, Progress(c), pc[c] \in {"free", "idle"}
    PROVE  /\ req[c].op = "none" /\ resp[c] = Response("none")
           /\ done[c] = <<>> /\ Effects(req[c]) = <<>>
BY DEF Progress, Mutations

(* A request is read: its first command is its first effect.               *)
LEMMA ReceiveProgress ==
    ASSUME TypeOK, ProgressOK, NEW c \in Conns, NEW r, NEW next, Receive(c, r, next),
           r.op # "none", next \notin {"free", "idle", "mountpoint"},
           IF next \in Mutations
           THEN \/ next # "load-key" /\ Effects(r) = <<next>>
                \/ next = "load-key" /\ r.op = "Mount" /\ Effects(r) = <<"load-key", "mount">>
                \/ next = "load-key" /\ r.op = "ChangeKey"
                      /\ Effects(r) = <<"load-key", "change-key">>
           ELSE Effects(r) = <<>>,
           next # "reply" => resp'[c] = resp[c],
           \A d \in Conns : d # c => resp'[d] = resp[d]
    PROVE  ProgressOK'
<1>1. /\ pc'[c] = next /\ req'[c] = r /\ done' = done /\ mishap' = mishap
      /\ \A d \in Conns : d # c => pc'[d] = pc[d] /\ req'[d] = req[d]
  BY DEF Receive, TypeOK
<1>2. done[c] = <<>> /\ resp[c] = Response("none")
  BY IdleFacts DEF Receive, ProgressOK
<1>3. CASE next \in Mutations
  <2>1. next # "reply"
    BY <1>3 DEF Mutations
  <2>2. Append(<<>>, next) = <<next>>
    OBVIOUS
  <2>3. AtMutation(c)'
    BY <1>1, <1>2, <1>3, <2>2 DEF AtMutation
  <2>4. Progress(c)'
    BY <1>1, <1>2, <1>3, <2>1, <2>3 DEF Progress, Answered
  <2> QED BY <1>1, <2>4, OthersProgress
<1>4. CASE next \notin Mutations
  <2>1. Progress(c)'
    BY <1>1, <1>2, <1>4 DEF Progress, Answered, Undone
  <2> QED BY <1>1, <2>1, OthersProgress
<1> QED BY <1>3, <1>4

(* What each request asks for, and the command it starts with.             *)
LEMMA RequestEffects ==
    /\ \A op \in {"invalid", "Ping", "Status", "ListPools", "ListDevices", "SubscribeEvents",
                  "ReloadConfig"} : Request(op).op = op /\ Effects(Request(op)) = <<>>
    /\ \A p \in Pools, x \in Keys, y \in Keys, b \in BOOLEAN :
         /\ ImportPool(p).op = "ImportPool" /\ Effects(ImportPool(p)) = <<"import">>
         /\ ExportPool(p).op = "ExportPool" /\ Effects(ExportPool(p)) = <<"export">>
         /\ Unmount(p, b).op = "Unmount" /\ Effects(Unmount(p, b)) = <<"unmount">>
         /\ InitPool(p, x, b).op = "InitPool" /\ Effects(InitPool(p, x, b)) = <<"create">>
         /\ Mount(p, x).op = "Mount"
         /\ Effects(Mount(p, x)) = IF x = NoPass THEN <<"mount">> ELSE <<"load-key", "mount">>
         /\ ChangeKey(p, x, y).op = "ChangeKey"
         /\ Effects(ChangeKey(p, x, y)) = <<"load-key", "change-key">>
BY DEF Request, ImportPool, ExportPool, Unmount, InitPool, Mount, ChangeKey, PoolRequest, Effects

LEMMA ReceiveAnyProgress ==
    ASSUME TypeOK, ProgressOK, NEW c \in Conns, ReceiveAny(c)
    PROVE  ProgressOK'
<1>pc. /\ {"import", "export", "create", "unmount", "load-key", "mount"} \subseteq Mutations
       /\ {"reply", "lock", "zpool list", "scan"} \cap Mutations = {}
       /\ Mutations \cap {"free", "idle", "mountpoint", "reply"} = {}
  BY DEF Mutations
<1>1. ASSUME NEW op \in {"invalid", "Ping", "SubscribeEvents"}, NEW kind,
             AnswerAtOnce(c, op, kind)
      PROVE  ProgressOK'
  <2>1. Receive(c, Request(op), "reply") /\ \A d \in Conns : d # c => resp'[d] = resp[d]
    BY <1>1 DEF AnswerAtOnce, TypeOK
  <2>2. Request(op).op # "none" /\ Effects(Request(op)) = <<>>
    BY RequestEffects
  <2> QED BY <1>pc, <2>1, <2>2, ReceiveProgress
<1>2. ASSUME NEW op \in {"Status", "ReloadConfig"}, ReceiveLocking(c, op)
      PROVE  ProgressOK'
  <2>1. Receive(c, Request(op), "lock") /\ resp' = resp
    BY <1>2 DEF ReceiveLocking
  <2>2. Request(op).op # "none" /\ Effects(Request(op)) = <<>>
    BY RequestEffects
  <2> QED BY <1>pc, <2>1, <2>2, ReceiveProgress
<1>3. ASSUME NEW op \in {"ListPools", "ListDevices"}, NEW first \in {"zpool list", "scan"},
             ReceiveCommand(c, Request(op), first)
      PROVE  ProgressOK'
  <2>1. Receive(c, Request(op), first) /\ resp' = resp
    BY <1>3 DEF ReceiveCommand
  <2>2. Request(op).op # "none" /\ Effects(Request(op)) = <<>>
    BY RequestEffects
  <2> QED BY <1>pc, <2>1, <2>2, ReceiveProgress
<1>4. ASSUME NEW r, NEW first \in Mutations \ {"load-key"}, r.op # "none",
             Effects(r) = <<first>>, ReceiveCommand(c, r, first)
      PROVE  ProgressOK'
  <2>1. Receive(c, r, first) /\ resp' = resp
    BY <1>4 DEF ReceiveCommand
  <2> QED BY <1>4, <1>pc, <2>1, ReceiveProgress
<1>5. ASSUME NEW r, ReceiveCommand(c, r, "load-key"),
             \/ r.op = "Mount" /\ Effects(r) = <<"load-key", "mount">>
             \/ r.op = "ChangeKey" /\ Effects(r) = <<"load-key", "change-key">>
      PROVE  ProgressOK'
  <2>1. Receive(c, r, "load-key") /\ resp' = resp
    BY <1>5 DEF ReceiveCommand
  <2> QED BY <1>5, <1>pc, <2>1, ReceiveProgress
<1>6. Passphrases \subseteq Keys /\ NoPass \in Keys
  BY DEF Keys
<1>7. CASE ReceiveInvalid(c) \/ ReceivePing(c) \/ ReceiveSubscribeEvents(c)
  BY <1>1, <1>7 DEF ReceiveInvalid, ReceivePing, ReceiveSubscribeEvents
<1>8. CASE ReceiveStatus(c) \/ ReceiveReloadConfig(c)
  BY <1>2, <1>8 DEF ReceiveStatus, ReceiveReloadConfig
<1>9. CASE ReceiveListPools(c) \/ ReceiveListDevices(c)
  BY <1>3, <1>9 DEF ReceiveListPools, ReceiveListDevices
<1>10. CASE ReceiveImportPool(c)
  <2>1. PICK p \in Pools : ReceiveCommand(c, ImportPool(p), "import")
    BY <1>10 DEF ReceiveImportPool
  <2>2. ImportPool(p).op # "none" /\ Effects(ImportPool(p)) = <<"import">>
    BY <1>6, RequestEffects
  <2> QED BY <1>4, <1>pc, <2>1, <2>2
<1>11. CASE ReceiveExportPool(c)
  <2>1. PICK p \in Pools : ReceiveCommand(c, ExportPool(p), "export")
    BY <1>11 DEF ReceiveExportPool
  <2>2. ExportPool(p).op # "none" /\ Effects(ExportPool(p)) = <<"export">>
    BY <1>6, RequestEffects
  <2> QED BY <1>4, <1>pc, <2>1, <2>2
<1>12. CASE ReceiveUnmount(c)
  <2>1. PICK p \in Pools, u \in BOOLEAN : ReceiveCommand(c, Unmount(p, u), "unmount")
    BY <1>12 DEF ReceiveUnmount
  <2>2. Unmount(p, u).op # "none" /\ Effects(Unmount(p, u)) = <<"unmount">>
    BY <1>6, RequestEffects
  <2> QED BY <1>4, <1>pc, <2>1, <2>2
<1>13. CASE ReceiveInitPool(c)
  <2>1. PICK p \in Pools, x \in Passphrases, e \in BOOLEAN :
            ReceiveCommand(c, InitPool(p, x, e), "create")
    BY <1>13 DEF ReceiveInitPool
  <2>2. InitPool(p, x, e).op # "none" /\ Effects(InitPool(p, x, e)) = <<"create">>
    BY <1>6, RequestEffects
  <2> QED BY <1>4, <1>pc, <2>1, <2>2
<1>14. CASE ReceiveMount(c)
  <2>1. PICK p \in Pools, x \in Keys :
            ReceiveCommand(c, Mount(p, x), IF x = NoPass THEN "mount" ELSE "load-key")
    BY <1>14 DEF ReceiveMount
  <2>2. /\ Mount(p, x).op = "Mount"
        /\ Effects(Mount(p, x)) = IF x = NoPass THEN <<"mount">> ELSE <<"load-key", "mount">>
    BY RequestEffects
  <2>3. CASE x = NoPass
    BY <1>4, <1>pc, <2>1, <2>2, <2>3
  <2>4. CASE x # NoPass
    BY <1>5, <2>1, <2>2, <2>4
  <2> QED BY <2>3, <2>4
<1>15. CASE ReceiveChangeKey(c)
  <2>1. PICK p \in Pools, old \in Passphrases, new \in Passphrases :
            ReceiveCommand(c, ChangeKey(p, old, new), "load-key")
    BY <1>15 DEF ReceiveChangeKey
  <2>2. /\ ChangeKey(p, old, new).op = "ChangeKey"
        /\ Effects(ChangeKey(p, old, new)) = <<"load-key", "change-key">>
    BY <1>6, RequestEffects
  <2> QED BY <1>5, <2>1, <2>2
<1> QED BY <1>7, <1>8, <1>9, <1>10, <1>11, <1>12, <1>13, <1>14, <1>15 DEF ReceiveAny

(* A request ends, with its answer or with the connection.                 *)
LEMMA ConnectionProgress ==
    ASSUME TypeOK, ProgressOK, NEW c \in Conns,
           \/ Connect(c) \/ HangUp(c) \/ EndOfFile(c) \/ ReadFails(c)
           \/ Reply(c) \/ ReplyFails(c)
    PROVE  ProgressOK'
<1>1. CASE HangUp(c)
  BY <1>1, ProgressFrame DEF HangUp, history, ProgressOK
<1>2. CASE Connect(c) \/ EndOfFile(c) \/ ReadFails(c)
  <2>1. /\ pc[c] \in {"free", "idle"} /\ pc'[c] \in {"free", "idle"}
        /\ \A d \in Conns : d # c => pc'[d] = pc[d]
        /\ req' = req /\ resp' = resp /\ done' = done /\ mishap' = mishap
    BY <1>2 DEF Connect, EndOfFile, ReadFails, history, TypeOK
  <2>2. Progress(c)'
    BY <2>1 DEF ProgressOK, Progress, Answered, Mutations
  <2> QED BY <2>1, <2>2, OthersProgress
<1>3. CASE Reply(c) \/ ReplyFails(c)
  <2>1. /\ pc'[c] \in {"free", "idle"} /\ req'[c] = Request("none")
        /\ resp'[c] = Response("none") /\ done'[c] = <<>>
        /\ \A d \in Conns : d # c =>
             /\ pc'[d] = pc[d] /\ req'[d] = req[d] /\ resp'[d] = resp[d]
             /\ done'[d] = done[d] /\ mishap'[d] = mishap[d]
    BY <1>3 DEF Reply, ReplyFails, Forget, TypeOK
  <2>2. Progress(c)'
    BY <2>1, IdleProgress DEF Progress, Answered, AtMutation, Request, Effects, Mutations
  <2> QED BY <2>1, <2>2, OthersProgress
<1> QED BY <1>1, <1>2, <1>3

LEMMA HandleProgress ==
    ASSUME TypeOK, ProgressOK, NEW c \in Conns, Handle(c)
    PROVE  ProgressOK'
<1>1. CASE EndOfFile(c) \/ Reply(c) \/ ReplyFails(c)
  BY <1>1, ConnectionProgress
<1>2. CASE import_pool(c) \/ export_pool(c) \/ create_pool(c) \/ unmount(c) \/ change_key(c)
  <2>1. \E op \in Mutations \ {"load-key"} : OneCommand(c, op)
    BY <1>2 DEF import_pool, export_pool, create_pool, unmount, change_key, Mutations
  <2> QED BY <2>1, OneCommandProgress
<1>3. CASE load_key(c) \/ mount(c) \/ mountpoint(c)
  BY <1>3, LoadKeyProgress, MountProgress, MountpointProgress
<1>4. CASE \/ scan_devices(c) \/ list_pools(c) \/ is_encrypted(c)
           \/ get_mount_info(c) \/ list_datasets(c)
  BY <1>4, ListingProgress
<1>5. CASE status(c) \/ reload_exists(c) \/ reload_read(c) \/ reload_parse(c)
  BY <1>5, ConfigProgress
<1> QED BY <1>1, <1>2, <1>3, <1>4, <1>5 DEF Handle

(* ProgressOK is preserved by every step.                                  *)
LEMMA NextProgress ==
    ASSUME TypeOK, ProgressOK, [Next]_vars
    PROVE  ProgressOK'
<1>1. ASSUME NEW c \in Conns, Hang(c)
      PROVE  ProgressOK'
  BY <1>1, ProgressFrame DEF Hang, conn, history, ProgressOK
<1>2. CASE EditConfig \/ Restart \/ OrphanEnds \/ UNCHANGED vars
  <2>1. pc' = pc /\ req' = req /\ resp' = resp /\ done' = done /\ mishap' = mishap
    BY <1>2 DEF EditConfig, Restart, OrphanEnds, vars, conn, history
  <2> QED BY <2>1, ProgressFrame DEF ProgressOK
<1>3. CASE Crash
  <2>1. ASSUME NEW c \in Conns
        PROVE  /\ pc'[c] \in {"free", "idle"} /\ req'[c] = Request("none")
               /\ resp'[c] = Response("none") /\ done'[c] = <<>>
    BY <1>3 DEF Crash
  <2>2. ASSUME NEW c \in Conns
        PROVE  Progress(c)'
    BY <2>1 DEF Progress, Answered, AtMutation, Request, Effects, Mutations
  <2> QED BY <2>2 DEF ProgressOK
<1> QED BY <1>1, <1>2, <1>3, ConnectionProgress, ReceiveAnyProgress, HandleProgress DEF Next

LEMMA InitProgress == Init => ProgressOK
BY DEF Init, ProgressOK, Progress, Answered, Request, Effects, Mutations

-----------------------------------------------------------------------------
(* The await point of every handler tells the effects its request had.     *)
THEOREM ProgressCorrect == Spec => []ProgressOK
<1>1. Init => TypeOK /\ MutexOK /\ ProgressOK
  <2>1. Init => MutexOK
    BY DEF Init, MutexOK, Locking
  <2> QED BY <2>1, InitType, InitProgress
<1>2. TypeOK /\ MutexOK /\ ProgressOK /\ [Next]_vars => (TypeOK /\ MutexOK /\ ProgressOK)'
  BY NextType, NextMutex, NextProgress
<1> QED BY <1>1, <1>2, PTL DEF Spec

(* Whatever the other handlers do, a Success answers a request whose       *)
(* effects all took place, once and in order.                              *)
THEOREM SuccessIsTrue == Spec => []SuccessMeansDone
<1>1. ProgressOK => SuccessMeansDone
  BY DEF ProgressOK, Progress, SuccessMeansDone
<1> QED BY <1>1, ProgressCorrect, PTL

(* An Error answers a request none of whose commands changed a pool, but   *)
(* for a load-key, a command that acted and failed all the same, and a     *)
(* mount whose mountpoint query run() gave up.                             *)
THEOREM ErrorIsTrue == Spec => []ErrorMeansUndone
<1>1. ProgressOK => ErrorMeansUndone
  BY DEF ProgressOK, Progress, ErrorMeansUndone
<1> QED BY <1>1, ProgressCorrect, PTL

(********************************* Listing *********************************)

-----------------------------------------------------------------------------
(* What PoolList tells.  A handler that lists has each pool in one place:  *)
(* done, in hand, or still to query, each of them imported at some moment; *)
(* every other pool was not, at some moment.                               *)

Scanning == {"encryption", "mounted", "datasets"}

Was(c, p) == {s \in seen[c][p] : Imported(s)}

EntryTrue(c, e) ==
    /\ Was(c, e.pool) # {}
    /\ e.encrypted => \E s \in Was(c, e.pool) : s.encrypted
    /\ e.mounted => \E s \in Was(c, e.pool) : s.mounted

Listed(c) == {e.pool : e \in list[c]}

InHand(c) == IF pc[c] \in {"mounted", "datasets"} THEN {entry[c].pool} ELSE {}

LeftOut(c, P) == \A p \in Pools \ P : \E s \in seen[c][p] : ~Imported(s)

Listing(c) ==
    /\ pc[c] \in Scanning \cup {"zpool list"} =>
          req[c].op = "ListPools" /\ \A p \in Pools : zfs[p] \in seen[c][p]
    /\ pc[c] \notin Scanning \cup {"reply"} => list[c] = {}
    /\ \A e \in list[c] :
          /\ e.pool \in Pools /\ EntryTrue(c, e)
          /\ \A d \in e.datasets :
                \E s \in Was(c, e.pool) : d = [encrypted |-> s.encrypted, mounted |-> s.mounted]
    /\ \A e, f \in list[c] : f.pool = e.pool => f = e
    /\ pc[c] \in Scanning =>
          /\ \A p \in todo[c] : Was(c, p) # {} /\ p \notin Listed(c) \cup InHand(c)
          /\ InHand(c) \cap Listed(c) = {}
          /\ InHand(c) # {} => EntryTrue(c, entry[c])
          /\ LeftOut(c, todo[c] \cup InHand(c) \cup Listed(c))
    /\ Answered(c, "PoolList") => resp[c].pools = Listed(c) /\ LeftOut(c, Listed(c))

ListOK == \A c \in Conns : Listing(c)

(* A handler that does not move keeps what it found.                       *)
LEMMA ListingFrame ==
    ASSUME NEW c \in Conns, Listing(c),
           pc'[c] = pc[c], req'[c] = req[c], resp'[c] = resp[c],
           list'[c] = list[c], todo'[c] = todo[c], entry'[c] = entry[c],
           \A p \in Pools : seen[c][p] \subseteq seen'[c][p],
           pc[c] \in Scanning \cup {"zpool list"} => \A p \in Pools : zfs'[p] \in seen'[c][p],
           todo[c] \subseteq Pools, InHand(c) \subseteq Pools
    PROVE  Listing(c)'
<1>1. \A p \in Pools : Was(c, p) \subseteq Was(c, p)'
  BY DEF Was
<1>2. \A e : e.pool \in Pools /\ EntryTrue(c, e) => EntryTrue(c, e)'
  BY <1>1 DEF EntryTrue
<1>3. /\ Listed(c)' = Listed(c) /\ InHand(c)' = InHand(c)
      /\ Answered(c, "PoolList")' <=> Answered(c, "PoolList")
  BY DEF Listed, InHand, Answered
<1>4. InHand(c) # {} => entry[c].pool \in Pools
  BY DEF InHand
<1>5. \A e \in list[c] : e.pool \in Pools /\ EntryTrue(c, e)'
  BY <1>2 DEF Listing
<1>6. \A e \in list[c] : \A d \in e.datasets :
          \E s \in Was(c, e.pool)' : d = [encrypted |-> s.encrypted, mounted |-> s.mounted]
  BY <1>1 DEF Listing
<1>7. pc[c] \in Scanning =>
          /\ \A p \in todo[c] : Was(c, p)' # {}
          /\ InHand(c) # {} => EntryTrue(c, entry[c])'
  BY <1>1, <1>2, <1>4 DEF Listing
<1>8. pc[c] \in Scanning => LeftOut(c, todo[c] \cup InHand(c) \cup Listed(c))'
  BY <1>3 DEF Listing, LeftOut
<1>9. Answered(c, "PoolList") => LeftOut(c, Listed(c))'
  BY <1>3 DEF Listing, LeftOut
<1> QED BY <1>3, <1>5, <1>6, <1>7, <1>8, <1>9 DEF Listing

(* The window of a handler that lists holds the present states.            *)
LEMMA WindowHolds ==
    ASSUME TypeOK, NEW d \in Conns, (zfs' = zfs /\ seen'[d] = seen[d]) \/ seen' = Window(zfs'),
           pc[d] \in Scanning \cup {"zpool list"} =>
              req[d].op = "ListPools" /\ \A p \in Pools : zfs[p] \in seen[d][p]
    PROVE  /\ \A p \in Pools : seen[d][p] \subseteq seen'[d][p]
           /\ pc[d] \in Scanning \cup {"zpool list"} => \A p \in Pools : zfs'[p] \in seen'[d][p]
<1>1. CASE zfs' = zfs /\ seen'[d] = seen[d]
  BY <1>1
<1>2. CASE seen' = Window(zfs')
  BY <1>2 DEF Window, Busy, Scanning
<1> QED BY <1>1, <1>2

LEMMA PlacesType ==
    ASSUME TypeOK, NEW d \in Conns
    PROVE  todo[d] \subseteq Pools /\ InHand(d) \subseteq Pools
BY DEF TypeOK, HasPool, InHand

(* A handler that does not list.                                           *)
LEMMA NotListing ==
    ASSUME NEW c \in Conns, pc[c] \notin Scanning \cup {"zpool list"}, list[c] = {},
           ~Answered(c, "PoolList")
    PROVE  Listing(c)
BY DEF Listing

(* What the task of c does leaves the other handlers' findings alone.      *)
LEMMA OthersListing ==
    ASSUME TypeOK, ListOK, NEW c \in Conns, Listing(c)',
           \A d \in Conns : d # c =>
               /\ pc'[d] = pc[d] /\ req'[d] = req[d] /\ resp'[d] = resp[d]
               /\ list'[d] = list[d] /\ todo'[d] = todo[d] /\ entry'[d] = entry[d],
           \A d \in Conns : d # c => (zfs' = zfs /\ seen'[d] = seen[d]) \/ seen' = Window(zfs')
    PROVE  ListOK'
<1>1. ASSUME NEW d \in Conns, d # c
      PROVE  Listing(d)'
  <2>1. /\ \A p \in Pools : seen[d][p] \subseteq seen'[d][p]
        /\ pc[d] \in Scanning \cup {"zpool list"} => \A p \in Pools : zfs'[p] \in seen'[d][p]
    BY <1>1, WindowHolds DEF ListOK, Listing
  <2> QED BY <1>1, <2>1, PlacesType, ListingFrame DEF ListOK
<1> QED BY <1>1 DEF ListOK

(* Nobody moves.                                                           *)
LEMMA AllListing ==
    ASSUME TypeOK, ListOK, pc' = pc, req' = req, resp' = resp, list' = list, todo' = todo,
           entry' = entry, (zfs' = zfs /\ seen' = seen) \/ seen' = Window(zfs')
    PROVE  ListOK'
<1>1. ASSUME NEW d \in Conns
      PROVE  Listing(d)'
  <2>1. /\ \A p \in Pools : seen[d][p] \subseteq seen'[d][p]
        /\ pc[d] \in Scanning \cup {"zpool list"} => \A p \in Pools : zfs'[p] \in seen'[d][p]
    BY WindowHolds DEF ListOK, Listing
  <2> QED BY <2>1, PlacesType, ListingFrame DEF ListOK
<1> QED BY <1>1 DEF ListOK

(* Steps that are not about a listing.                                     *)
LEMMA NoListing ==
    ASSUME TypeOK, ListOK, NEW c \in Conns, NEW next, pc' = [pc EXCEPT ![c] = next],
           next \notin Scanning \cup {"zpool list"}, list'[c] = {},
           next = "reply" => resp'[c].kind # "PoolList",
           \A d \in Conns : d # c =>
               /\ req'[d] = req[d] /\ resp'[d] = resp[d]
               /\ list'[d] = list[d] /\ todo'[d] = todo[d] /\ entry'[d] = entry[d],
           \A d \in Conns : d # c => (zfs' = zfs /\ seen'[d] = seen[d]) \/ seen' = Window(zfs')
    PROVE  ListOK'
<1>1. pc'[c] = next /\ \A d \in Conns : d # c => pc'[d] = pc[d]
  BY DEF TypeOK
<1>2. Listing(c)'
  BY <1>1, NotListing DEF Answered, Listing
<1> QED BY <1>1, <1>2, OthersListing

(* `zpool list' ends.                                                      *)
LEMMA ListPoolsListing ==
    ASSUME TypeOK, ListOK, NEW c \in Conns, list_pools(c)
    PROVE  ListOK'
<1> DEFINE names == {p \in Pools : Imported(zfs[p])}
<1>1. PICK st \in QueryOutcomes :
          /\ QueryExit(c, st)
          /\ IF st = "ok" /\ names # {}
             THEN todo' = [todo EXCEPT ![c] = names] /\ StartNext(c, "encryption")
             ELSE /\ Answer(c, IF st = "ok" THEN PoolList({}) ELSE Response("Error"))
                  /\ UNCHANGED todo
  BY DEF list_pools
<1>2. /\ pc[c] = "zpool list" /\ entry' = entry /\ list' = list
      /\ zfs' = zfs /\ seen' = seen /\ req' = req
  BY <1>1 DEF list_pools, Await, QueryExit
<1>3. list[c] = {} /\ req[c].op = "ListPools" /\ \A p \in Pools : zfs[p] \in seen[c][p]
  BY <1>2 DEF ListOK, Listing, Scanning
<1>4. Listed(c)' = {}
  BY <1>2, <1>3 DEF Listed
<1>5. CASE st = "ok" /\ names # {}
  <2>1. /\ pc'[c] = "encryption" /\ resp' = resp /\ todo'[c] = names
        /\ \A d \in Conns : d # c => pc'[d] = pc[d] /\ todo'[d] = todo[d]
    BY <1>1, <1>5, StartFacts DEF TypeOK
  <2>2. InHand(c)' = {}
    BY <2>1 DEF InHand
  <2>3. \A p \in names : Was(c, p)' # {}
    BY <1>2, <1>3 DEF Was
  <2>4. \A p \in Pools \ names : \E s \in seen'[c][p] : ~Imported(s)
    BY <1>2, <1>3
  <2> HIDE DEF names
  <2>5. LeftOut(c, todo[c] \cup InHand(c) \cup Listed(c))'
    BY <1>4, <2>1, <2>2, <2>4 DEF LeftOut
  <2>6. Listing(c)'
    BY <1>2, <1>3, <1>4, <2>1, <2>2, <2>3, <2>5 DEF Listing, Answered, Scanning
  <2> QED BY <1>2, <2>1, <2>6, OthersListing
<1>6. CASE ~(st = "ok" /\ names # {})
  <2>1. /\ pc'[c] = "reply" /\ resp'[c] = (IF st = "ok" THEN PoolList({}) ELSE Response("Error"))
        /\ todo' = todo /\ \A d \in Conns : d # c => pc'[d] = pc[d] /\ resp'[d] = resp[d]
    BY <1>1, <1>6, AnswerFacts
  <2>2. /\ Response("Error").kind = "Error"
        /\ PoolList({}).pools = {}
    BY DEF Response, PoolList
  <2>3. st = "ok" => \A p \in Pools : \E s \in seen'[c][p] : ~Imported(s)
    BY <1>2, <1>3, <1>6
  <2>4. Answered(c, "PoolList")' => resp'[c].pools = Listed(c)' /\ LeftOut(c, Listed(c))'
    BY <1>4, <2>1, <2>2, <2>3 DEF Answered, LeftOut
  <2>5. Listing(c)'
    BY <1>2, <1>3, <2>1, <2>4 DEF Listing, Scanning
  <2> QED BY <1>2, <2>1, <2>5, OthersListing
<1> QED BY <1>5, <1>6

(* A pool is taken in hand: is it encrypted?                               *)
LEMMA EncryptionListing ==
    ASSUME TypeOK, ListOK, NEW c \in Conns, is_encrypted(c)
    PROVE  ListOK'
<1>1. PICK st \in QueryOutcomes, p \in todo[c] :
          /\ QueryExit(c, st)
          /\ entry' = [entry EXCEPT ![c] =
                 [NoEntry EXCEPT !.pool = p, !.encrypted = Answers(p, st) /\ zfs[p].encrypted]]
          /\ todo' = [todo EXCEPT ![c] = todo[c] \ {p}]
          /\ StartNext(c, "mounted")
  BY DEF is_encrypted
<1>2. /\ pc[c] = "encryption" /\ list' = list /\ zfs' = zfs /\ seen' = seen /\ req' = req
      /\ pc'[c] = "mounted" /\ resp' = resp /\ p \in Pools
      /\ \A d \in Conns : d # c => pc'[d] = pc[d]
  BY <1>1, StartFacts DEF is_encrypted, Await, QueryExit, TypeOK
<1>3. /\ entry'[c].pool = p /\ entry'[c].encrypted = (Answers(p, st) /\ zfs[p].encrypted)
      /\ entry'[c].mounted = FALSE
      /\ todo'[c] = todo[c] \ {p}
      /\ \A d \in Conns : d # c => entry'[d] = entry[d] /\ todo'[d] = todo[d]
  BY <1>1 DEF TypeOK, NoEntry
<1>4. Listing(c) /\ pc[c] \in Scanning /\ InHand(c) = {}
  BY <1>2 DEF ListOK, Scanning, InHand
<1>5. InHand(c)' = {p} /\ Listed(c)' = Listed(c) /\ \A q : Was(c, q)' = Was(c, q)
  BY <1>2, <1>3 DEF InHand, Listed, Was
<1>6. EntryTrue(c, entry[c])'
  <2>1. Was(c, p) # {} /\ zfs[p] \in seen[c][p]
    BY <1>2, <1>4 DEF Listing
  <2>2. entry'[c].encrypted => zfs[p] \in Was(c, p) /\ zfs[p].encrypted
    BY <1>3, <2>1 DEF Answers, Was
  <2> QED BY <1>3, <1>5, <2>1, <2>2 DEF EntryTrue
<1>7. LeftOut(c, todo[c] \cup InHand(c) \cup Listed(c))'
  BY <1>2, <1>3, <1>4, <1>5 DEF Listing, LeftOut
<1>8. \A e : EntryTrue(c, e) => EntryTrue(c, e)'
  BY <1>5 DEF EntryTrue
<1>9. Listing(c)'
  BY <1>2, <1>3, <1>4, <1>5, <1>6, <1>7, <1>8 DEF Listing, Scanning, Answered
<1> QED BY <1>2, <1>3, <1>9, OthersListing

(* Is it mounted?                                                          *)
LEMMA MountedListing ==
    ASSUME TypeOK, ListOK, NEW c \in Conns, get_mount_info(c)
    PROVE  ListOK'
<1> DEFINE p == entry[c].pool
<1>1. PICK st \in QueryOutcomes :
          /\ QueryExit(c, st)
          /\ entry' = [entry EXCEPT ![c].mounted = Answers(p, st) /\ zfs[p].mounted]
          /\ StartNext(c, "datasets")
  BY DEF get_mount_info
<1>2. /\ pc[c] = "mounted" /\ list' = list /\ todo' = todo /\ zfs' = zfs /\ seen' = seen
      /\ req' = req /\ pc'[c] = "datasets" /\ resp' = resp
      /\ \A d \in Conns : d # c => pc'[d] = pc[d]
  BY <1>1, StartFacts DEF get_mount_info, Await, QueryExit
<1>3. /\ entry'[c].pool = p /\ entry'[c].encrypted = entry[c].encrypted
      /\ entry'[c].mounted = (Answers(p, st) /\ zfs[p].mounted)
      /\ \A d \in Conns : d # c => entry'[d] = entry[d]
  BY <1>1 DEF TypeOK, Entries
<1>4. Listing(c) /\ pc[c] \in Scanning /\ InHand(c) = {p} /\ p \in Pools
  BY <1>2, PlacesType DEF ListOK, Scanning, InHand
<1>5. InHand(c)' = InHand(c) /\ Listed(c)' = Listed(c) /\ \A q : Was(c, q)' = Was(c, q)
  BY <1>2, <1>3, <1>4 DEF InHand, Listed, Was
<1>6. EntryTrue(c, entry[c])'
  <2>1. EntryTrue(c, entry[c]) /\ zfs[p] \in seen[c][p]
    BY <1>4 DEF Listing
  <2>2. entry'[c].mounted => zfs[p] \in Was(c, p) /\ zfs[p].mounted
    BY <1>3, <2>1 DEF Answers, Was
  <2> QED BY <1>3, <1>5, <2>1, <2>2 DEF EntryTrue
<1>7. LeftOut(c, todo[c] \cup InHand(c) \cup Listed(c))'
  BY <1>2, <1>4, <1>5 DEF Listing, LeftOut
<1>8. \A e : EntryTrue(c, e) => EntryTrue(c, e)'
  BY <1>5 DEF EntryTrue
<1>9. Listing(c)'
  BY <1>2, <1>3, <1>4, <1>5, <1>6, <1>7, <1>8 DEF Listing, Scanning, Answered
<1> QED BY <1>2, <1>3, <1>9, OthersListing

(* Its datasets, and the pool is done.                                     *)
LEMMA DatasetsListing ==
    ASSUME TypeOK, ListOK, NEW c \in Conns, list_datasets(c)
    PROVE  ListOK'
<1>1. PICK st, info :
          /\ st \in QueryOutcomes /\ QueryExit(c, st)
          /\ info.pool = entry[c].pool
          /\ info.encrypted = entry[c].encrypted /\ info.mounted = entry[c].mounted
          /\ \A d \in info.datasets :
                /\ Answers(entry[c].pool, st)
                /\ d = [encrypted |-> zfs[entry[c].pool].encrypted,
                        mounted |-> zfs[entry[c].pool].mounted]
          /\ list' = [list EXCEPT ![c] = list[c] \cup {info}]
          /\ IF todo[c] # {} THEN StartNext(c, "encryption")
                             ELSE Answer(c, PoolList(list[c] \cup {info}))
  <2> DEFINE p == entry[c].pool
             entry_of(st) ==
                 [pool |-> p, encrypted |-> entry[c].encrypted, mounted |-> entry[c].mounted,
                  datasets |-> IF Answers(p, st)
                               THEN {[encrypted |-> zfs[p].encrypted, mounted |-> zfs[p].mounted]}
                               ELSE {}]
  <2>1. PICK st \in QueryOutcomes :
            /\ QueryExit(c, st)
            /\ list' = [list EXCEPT ![c] = list[c] \cup {entry_of(st)}]
            /\ IF todo[c] # {} THEN StartNext(c, "encryption")
                               ELSE Answer(c, PoolList(list[c] \cup {entry_of(st)}))
    BY DEF list_datasets
  <2>2. /\ entry_of(st).pool = p
        /\ entry_of(st).encrypted = entry[c].encrypted /\ entry_of(st).mounted = entry[c].mounted
        /\ \A d \in entry_of(st).datasets :
              Answers(p, st) /\ d = [encrypted |-> zfs[p].encrypted, mounted |-> zfs[p].mounted]
    OBVIOUS
  <2> HIDE DEF entry_of
  <2> QED BY <2>1, <2>2
<1>2. /\ pc[c] = "datasets" /\ todo' = todo /\ zfs' = zfs /\ seen' = seen /\ req' = req
      /\ entry' = [entry EXCEPT ![c] = NoEntry]
  BY <1>1 DEF list_datasets, Await, QueryExit
<1>3. /\ list'[c] = list[c] \cup {info}
      /\ \A d \in Conns : d # c => list'[d] = list[d] /\ entry'[d] = entry[d]
  BY <1>1, <1>2 DEF TypeOK
<1>4. /\ pc'[c] = (IF todo[c] # {} THEN "encryption" ELSE "reply")
      /\ todo[c] = {} => resp'[c] = PoolList(list[c] \cup {info})
      /\ todo[c] # {} => resp'[c] = resp[c]
      /\ \A d \in Conns : d # c => pc'[d] = pc[d] /\ resp'[d] = resp[d]
  BY <1>1, StartFacts, AnswerFacts
<1>5. Listing(c) /\ pc[c] \in Scanning /\ InHand(c) = {info.pool} /\ info.pool \in Pools
  BY <1>1, <1>2, PlacesType DEF ListOK, Scanning, InHand
<1>6. /\ \A q : Was(c, q)' = Was(c, q)
      /\ \A q \in Pools : zfs[q] \in seen[c][q]
  BY <1>2, <1>5 DEF Was, Listing
<1>7. EntryTrue(c, info) /\ \A d \in info.datasets :
          \E s \in Was(c, info.pool) : d = [encrypted |-> s.encrypted, mounted |-> s.mounted]
  <2>1. EntryTrue(c, entry[c])
    BY <1>5 DEF Listing
  <2>2. Answers(info.pool, st) => zfs[info.pool] \in Was(c, info.pool)
    BY <1>5, <1>6 DEF Answers, Was
  <2> QED BY <1>1, <2>1, <2>2 DEF EntryTrue
<1>8. Listed(c)' = Listed(c) \cup {info.pool} /\ InHand(c)' = {}
  <2>1. {e.pool : e \in list[c] \cup {info}} = {e.pool : e \in list[c]} \cup {info.pool}
    OBVIOUS
  <2>2. InHand(c)' = {}
    BY <1>4 DEF InHand
  <2> QED BY <1>3, <2>1, <2>2 DEF Listed
<1>9. \A e \in list[c] \cup {info} : e.pool \in Pools /\ EntryTrue(c, e)' /\ \A d \in e.datasets :
          \E s \in Was(c, e.pool)' : d = [encrypted |-> s.encrypted, mounted |-> s.mounted]
  <2>1. \A e : EntryTrue(c, e) => EntryTrue(c, e)'
    BY <1>6 DEF EntryTrue
  <2>2. \A e \in list[c] : e.pool \in Pools /\ EntryTrue(c, e) /\ \A d \in e.datasets :
          \E s \in Was(c, e.pool) : d = [encrypted |-> s.encrypted, mounted |-> s.mounted]
    BY <1>5 DEF Listing
  <2> QED BY <1>5, <1>6, <1>7, <2>1, <2>2
<1>10. \A e, f \in list[c] \cup {info} : f.pool = e.pool => f = e
  <2>1. \A e \in list[c] : e.pool # info.pool
    <3>1. info.pool \notin Listed(c)
      BY <1>5 DEF Listing
    <3> QED BY <3>1 DEF Listed
  <2>2. \A e, f \in list[c] : f.pool = e.pool => f = e
    BY <1>5 DEF Listing
  <2> QED BY <2>1, <2>2
<1>11. pc'[c] \in Scanning =>
          /\ \A q \in todo'[c] : Was(c, q)' # {} /\ q \notin Listed(c)'
          /\ LeftOut(c, todo[c] \cup InHand(c) \cup Listed(c))'
  BY <1>2, <1>5, <1>6, <1>8 DEF Listing, LeftOut
<1>12. Answered(c, "PoolList")' => resp'[c].pools = Listed(c)' /\ LeftOut(c, Listed(c))'
  <2>1. Answered(c, "PoolList")' => todo[c] = {}
    BY <1>4 DEF Answered
  <2>2. PoolList(list[c] \cup {info}).pools = {e.pool : e \in list[c] \cup {info}}
    BY DEF PoolList
  <2>3. Listed(c)' = {e.pool : e \in list[c] \cup {info}}
    BY <1>3 DEF Listed
  <2>4. todo[c] = {} => LeftOut(c, Listed(c))'
    BY <1>2, <1>5, <1>8 DEF Listing, LeftOut
  <2> QED BY <1>4, <2>1, <2>2, <2>3, <2>4
<1>13. Listing(c)'
  <2>1. req'[c].op = "ListPools" /\ \A q \in Pools : zfs'[q] \in seen'[c][q]
    BY <1>2, <1>5 DEF Listing
  <2>2. pc'[c] \in {"encryption", "reply"}
    BY <1>4
  <2> QED BY <1>3, <1>8, <1>9, <1>10, <1>11, <1>12, <2>1, <2>2 DEF Listing, Scanning
<1> QED BY <1>2, <1>3, <1>4, <1>13, OthersListing

-----------------------------------------------------------------------------
(* All the other steps.                                                    *)
LEMMA CommandListing ==
    ASSUME TypeOK, ListOK, NEW c \in Conns,
           \/ import_pool(c) \/ export_pool(c) \/ create_pool(c) \/ unmount(c)
           \/ load_key(c) \/ change_key(c) \/ mount(c)
    PROVE  ListOK'
<1>1. /\ pc[c] \notin Scanning \cup {"reply"}
      /\ \E o \in Outcomes(Command(c)) : Exit(c, o)
  BY DEF import_pool, export_pool, create_pool, unmount, load_key, change_key, mount, OneCommand,
     Await, Scanning
<1>2. \/ \E kind \in {"Success", "Error"} : Answer(c, Response(kind))
      \/ \E op \in {"mount", "change-key", "mountpoint"} : StartNext(c, op)
  BY DEF import_pool, export_pool, create_pool, unmount, load_key, change_key, mount, OneCommand
<1>3. req' = req /\ list' = list /\ todo' = todo /\ entry' = entry /\ seen' = Window(zfs')
  BY <1>1 DEF Exit, scan
<1>4. list'[c] = {}
  BY <1>1, <1>3 DEF ListOK, Listing
<1>5. \A kind \in {"Success", "Error"} : Response(kind).kind # "PoolList"
  BY DEF Response
<1>6. ASSUME NEW kind \in {"Success", "Error"}, Answer(c, Response(kind))
      PROVE  ListOK'
  <2>1. /\ pc' = [pc EXCEPT ![c] = "reply"] /\ resp'[c].kind # "PoolList"
        /\ \A d \in Conns : d # c => resp'[d] = resp[d]
    BY <1>5, <1>6, AnswerFacts DEF Answer
  <2> QED BY <1>3, <1>4, <2>1, NoListing DEF Scanning
<1>7. ASSUME NEW op \in {"mount", "change-key", "mountpoint"}, StartNext(c, op)
      PROVE  ListOK'
  BY <1>3, <1>4, <1>7, NoListing DEF StartNext, Scanning
<1> QED BY <1>2, <1>6, <1>7

LEMMA QueryListing ==
    ASSUME TypeOK, ListOK, NEW c \in Conns, mountpoint(c) \/ scan_devices(c)
    PROVE  ListOK'
<1>1. /\ pc[c] \notin Scanning \cup {"reply"}
      /\ \E st \in QueryOutcomes : QueryExit(c, st)
      /\ \E kind \in {"Success", "Error", "DeviceList"} : Answer(c, Response(kind))
  BY DEF mountpoint, scan_devices, Await, Scanning
<1>2. /\ req' = req /\ list' = list /\ todo' = todo /\ entry' = entry
      /\ zfs' = zfs /\ seen' = seen
  BY <1>1 DEF mountpoint, scan_devices, QueryExit, scan
<1>3. list'[c] = {}
  BY <1>1, <1>2 DEF ListOK, Listing
<1>4. \A kind \in {"Success", "Error", "DeviceList"} : Response(kind).kind # "PoolList"
  BY DEF Response
<1>5. PICK kind \in {"Success", "Error", "DeviceList"} : Answer(c, Response(kind))
  BY <1>1
<1>6. pc' = [pc EXCEPT ![c] = "reply"]
  BY <1>5 DEF Answer
<1>7. resp'[c].kind # "PoolList" /\ \A d \in Conns : d # c => resp'[d] = resp[d]
  BY <1>4, <1>5, AnswerFacts
<1> QED BY <1>1, <1>2, <1>3, <1>6, <1>7, NoListing DEF Scanning

LEMMA ConfigListing ==
    ASSUME TypeOK, ListOK, NEW c \in Conns,
           status(c) \/ reload_exists(c) \/ reload_read(c) \/ reload_parse(c)
    PROVE  ListOK'
<1>1. pc[c] \notin Scanning \cup {"reply"}
  BY DEF status, reload_exists, reload_read, reload_parse, Scanning
<1>2. /\ req' = req /\ list' = list /\ todo' = todo /\ entry' = entry
      /\ zfs' = zfs /\ seen' = seen
  BY DEF status, reload_exists, reload_read, reload_parse, scan, history
<1>3. list'[c] = {}
  BY <1>1, <1>2 DEF ListOK, Listing
<1>4. \/ \E r : r.kind \in {"Status", "Success", "Error"} /\ Answer(c, r)
      \/ \E op \in {"read", "parse"} : StartNext(c, op)
  BY DEF status, reload_exists, reload_read, reload_parse, Response
<1>5. ASSUME NEW r, r.kind \in {"Status", "Success", "Error"}, Answer(c, r)
      PROVE  ListOK'
  BY <1>2, <1>3, <1>5, AnswerFacts, NoListing DEF Answer, Scanning
<1>6. ASSUME NEW op \in {"read", "parse"}, StartNext(c, op)
      PROVE  ListOK'
  BY <1>2, <1>3, <1>6, NoListing DEF StartNext, Scanning
<1> QED BY <1>4, <1>5, <1>6

LEMMA ConnectionListing ==
    ASSUME TypeOK, ListOK, NEW c \in Conns,
           \/ Connect(c) \/ HangUp(c) \/ EndOfFile(c) \/ ReadFails(c)
           \/ Reply(c) \/ ReplyFails(c) \/ Hang(c)
    PROVE  ListOK'
<1>1. CASE HangUp(c) \/ Hang(c)
  BY <1>1, AllListing DEF HangUp, Hang, conn, scan, history
<1>2. CASE Connect(c) \/ EndOfFile(c) \/ ReadFails(c)
  <2>1. \E next \in {"free", "idle"} : pc' = [pc EXCEPT ![c] = next]
    BY <1>2 DEF Connect, EndOfFile, ReadFails
  <2>2. /\ pc[c] \in {"free", "idle"} /\ zfs' = zfs /\ seen' = seen
        /\ req' = req /\ resp' = resp /\ list' = list /\ todo' = todo /\ entry' = entry
    BY <1>2 DEF Connect, EndOfFile, ReadFails, scan, history
  <2>3. list'[c] = {}
    BY <2>2 DEF ListOK, Listing, Scanning
  <2> QED BY <2>1, <2>2, <2>3, NoListing DEF Scanning
<1>3. CASE Reply(c) \/ ReplyFails(c)
  <2>1. \E next \in {"free", "idle"} : pc' = [pc EXCEPT ![c] = next]
    BY <1>3 DEF Reply, ReplyFails
  <2>2. /\ zfs' = zfs /\ todo' = todo /\ entry' = entry /\ list'[c] = {}
        /\ \A d \in Conns : d # c =>
             req'[d] = req[d] /\ resp'[d] = resp[d] /\ list'[d] = list[d] /\ seen'[d] = seen[d]
    BY <1>3 DEF Reply, ReplyFails, Forget, TypeOK
  <2> QED BY <2>1, <2>2, NoListing DEF Scanning
<1> QED BY <1>1, <1>2, <1>3

(* A request is read.                                                      *)
LEMMA ReceiveListing ==
    ASSUME TypeOK, ListOK, NEW c \in Conns, ReceiveAny(c)
    PROVE  ListOK'
<1>1. ASSUME NEW r, NEW next, Receive(c, r, next)
      PROVE  /\ pc' = [pc EXCEPT ![c] = next] /\ pc'[c] = next /\ req'[c] = r
             /\ zfs' = zfs /\ list' = list /\ list[c] = {}
             /\ r.op = "ListPools" => \A p \in Pools : zfs'[p] \in seen'[c][p]
             /\ \A d \in Conns : d # c =>
                  /\ pc'[d] = pc[d] /\ req'[d] = req[d] /\ seen'[d] = seen[d]
                  /\ todo'[d] = todo[d] /\ entry'[d] = entry[d]
  <2>1. pc[c] = "idle"
    BY <1>1 DEF Receive
  <2>2. list[c] = {}
    BY <2>1 DEF ListOK, Listing, Scanning
  <2> QED BY <1>1, <2>2 DEF Receive, TypeOK, scan
<1>2. CASE ReceiveListPools(c)
  <2>1. Receive(c, Request("ListPools"), "zpool list") /\ resp' = resp
    BY <1>2 DEF ReceiveListPools, ReceiveCommand
  <2>2. Request("ListPools").op = "ListPools"
    BY DEF Request
  <2>3. /\ pc'[c] = "zpool list" /\ req'[c].op = "ListPools" /\ list'[c] = {}
        /\ \A p \in Pools : zfs'[p] \in seen'[c][p]
    BY <1>1, <2>1, <2>2
  <2>4. Listing(c)'
    BY <2>3 DEF Listing, Answered, Scanning
  <2> QED BY <1>1, <2>1, <2>4, OthersListing
<1>3. CASE ReceiveInvalid(c) \/ ReceivePing(c) \/ ReceiveSubscribeEvents(c)
  <2>1. \E op, kind : kind # "PoolList" /\ AnswerAtOnce(c, op, kind)
    BY <1>3 DEF ReceiveInvalid, ReceivePing, ReceiveSubscribeEvents
  <2>2. PICK op, kind : kind # "PoolList" /\ Receive(c, Request(op), "reply")
                          /\ resp' = [resp EXCEPT ![c] = Response(kind)]
    BY <2>1 DEF AnswerAtOnce
  <2>3. resp'[c].kind # "PoolList" /\ \A d \in Conns : d # c => resp'[d] = resp[d]
    BY <2>2 DEF Response, TypeOK
  <2>4. pc' = [pc EXCEPT ![c] = "reply"] /\ list'[c] = {} /\ zfs' = zfs
        /\ \A d \in Conns : d # c =>
             /\ req'[d] = req[d] /\ list'[d] = list[d] /\ todo'[d] = todo[d] /\ entry'[d] = entry[d]
             /\ seen'[d] = seen[d]
    BY <1>1, <2>2
  <2> QED BY <2>3, <2>4, NoListing DEF Scanning
<1>4. CASE ~ \/ ReceiveListPools(c)
             \/ ReceiveInvalid(c) \/ ReceivePing(c) \/ ReceiveSubscribeEvents(c)
  <2>1. \E r, next : /\ next \in Mutations \cup {"lock", "scan"}
                     /\ Receive(c, r, next) /\ resp' = resp
    BY <1>4, CommandPoints
    DEF ReceiveAny, ReceiveStatus, ReceiveReloadConfig, ReceiveListDevices, ReceiveImportPool,
        ReceiveExportPool, ReceiveMount, ReceiveUnmount, ReceiveInitPool, ReceiveChangeKey,
        ReceiveLocking, ReceiveCommand
  <2>2. (Mutations \cup {"lock", "scan"}) \cap (Scanning \cup {"zpool list", "reply"}) = {}
    BY DEF Mutations, Scanning
  <2>3. PICK r, next : /\ next \in Mutations \cup {"lock", "scan"}
                       /\ Receive(c, r, next) /\ resp' = resp
    BY <2>1
  <2>4. pc' = [pc EXCEPT ![c] = next] /\ list'[c] = {} /\ zfs' = zfs
        /\ \A d \in Conns : d # c =>
             /\ req'[d] = req[d] /\ list'[d] = list[d] /\ todo'[d] = todo[d] /\ entry'[d] = entry[d]
             /\ seen'[d] = seen[d]
    BY <1>1, <2>3
  <2>5. next \notin Scanning \cup {"zpool list"} /\ next # "reply"
    BY <2>2, <2>3
  <2> QED BY <2>3, <2>4, <2>5, NoListing
<1> QED BY <1>2, <1>3, <1>4

(* ListOK is preserved by every step.                                      *)
LEMMA NextListing ==
    ASSUME TypeOK, ListOK, [Next]_vars
    PROVE  ListOK'
<1>1. ASSUME NEW c \in Conns, Handle(c)
      PROVE  ListOK'
  BY <1>1, ConnectionListing, CommandListing, QueryListing, ConfigListing, ListPoolsListing,
     EncryptionListing, MountedListing, DatasetsListing DEF Handle
<1>2. CASE EditConfig \/ Restart \/ OrphanEnds \/ UNCHANGED vars
  <2>1. /\ pc' = pc /\ req' = req /\ resp' = resp /\ list' = list /\ todo' = todo /\ entry' = entry
        /\ (zfs' = zfs /\ seen' = seen) \/ seen' = Window(zfs')
    BY <1>2 DEF EditConfig, Restart, OrphanEnds, vars, conn, scan, history
  <2> QED BY <2>1, AllListing
<1>3. CASE Crash
  <2>1. ASSUME NEW c \in Conns
        PROVE  pc'[c] = "free" /\ list'[c] = {}
    BY <1>3 DEF Crash
  <2>2. ASSUME NEW c \in Conns
        PROVE  Listing(c)'
    BY <2>1 DEF Listing, Answered, Scanning
  <2> QED BY <2>2 DEF ListOK
<1> QED BY <1>1, <1>2, <1>3, ConnectionListing, ReceiveListing DEF Next

(* However pools come and go while ListPools asks about them one by one,   *)
(* what it answers was so at some moment of the request.                   *)
THEOREM ListingIsTrue == Spec => []ListingWithinWindow
<1>1. Init => TypeOK /\ MutexOK /\ ListOK
  <2>1. Init => MutexOK
    BY DEF Init, MutexOK, Locking
  <2>2. Init => ListOK
    BY DEF Init, ListOK, Listing, Answered, Scanning
  <2> QED BY <2>1, <2>2, InitType
<1>2. TypeOK /\ MutexOK /\ ListOK /\ [Next]_vars => (TypeOK /\ MutexOK /\ ListOK)'
  BY NextType, NextMutex, NextListing
<1>3. ListOK => ListingWithinWindow
  <2> SUFFICES ASSUME NEW c \in Conns, Listing(c), Answered(c, "PoolList")
               PROVE  /\ \A e \in list[c] :
                           /\ EntryTrue(c, e)
                           /\ \A d \in e.datasets : \E s \in Was(c, e.pool) :
                                 d = [encrypted |-> s.encrypted, mounted |-> s.mounted]
                           /\ \A f \in list[c] : f.pool = e.pool => f = e
                      /\ LeftOut(c, resp[c].pools)
    BY DEF ListOK, ListingWithinWindow, EntryTrue, Was, LeftOut
  <2> QED BY DEF Listing
<1> QED BY <1>1, <1>2, <1>3, PTL DEF Spec

(********************************** Causes *********************************)

(* Where a handler that awaits a mutation is in its request.               *)
LEMMA PositionFacts ==
    ASSUME NEW c \in Conns, Progress(c), pc[c] \in Mutations, req[c] \in Requests
    PROVE  \/ pc[c] = "import" /\ req[c].op = "ImportPool"
           \/ pc[c] = "export" /\ req[c].op = "ExportPool"
           \/ pc[c] = "unmount" /\ req[c].op = "Unmount"
           \/ pc[c] = "create" /\ req[c].op = "InitPool"
           \/ /\ pc[c] = "load-key" /\ done[c] = <<>>
              /\ \/ req[c].op = "Mount" /\ req[c].pass # NoPass
                 \/ req[c].op = "ChangeKey"
           \/ /\ pc[c] = "mount" /\ req[c].op = "Mount"
              /\ done[c] = <<>> => req[c].pass = NoPass
           \/ pc[c] = "change-key" /\ req[c].op = "ChangeKey" /\ done[c] # <<>>
<1>1. CASE pc[c] = "load-key"
  <2>1. /\ done[c] = <<>>
        /\ \/ req[c].op = "Mount" /\ Effects(req[c]) = <<"load-key", "mount">>
           \/ req[c].op = "ChangeKey"
    BY <1>1 DEF Progress, AtMutation
  <2>2. req[c].op = "Mount" /\ req[c].pass = NoPass => Effects(req[c]) = <<"mount">>
    BY DEF Effects
  <2>3. <<"mount">> # <<"load-key", "mount">>
    OBVIOUS
  <2> QED BY <1>1, <2>1, <2>2, <2>3
<1>2. CASE pc[c] # "load-key"
  <2>1. done[c] \in {<<>>, <<"load-key">>} /\ Append(done[c], pc[c]) = Effects(req[c])
    BY <1>2 DEF Progress, AtMutation
  <2>2. Append(<<>>, pc[c]) = <<pc[c]>>
    OBVIOUS
  <2>3. Append(<<"load-key">>, pc[c]) = <<"load-key", pc[c]>>
    BY AppendSecond DEF Mutations
  <2>4. <<pc[c]>> = Effects(req[c]) \/ <<"load-key", pc[c]>> = Effects(req[c])
    BY <2>1, <2>2, <2>3
  <2>5. /\ Effects(req[c]) = <<>> \/ req[c].op \in {"ImportPool", "ExportPool", "Unmount", "InitPool",
                                                   "Mount", "ChangeKey"}
        /\ req[c].op = "ImportPool" => Effects(req[c]) = <<"import">>
        /\ req[c].op = "ExportPool" => Effects(req[c]) = <<"export">>
        /\ req[c].op = "Unmount" => Effects(req[c]) = <<"unmount">>
        /\ req[c].op = "InitPool" => Effects(req[c]) = <<"create">>
        /\ req[c].op = "Mount" => Effects(req[c]) = IF req[c].pass = NoPass THEN <<"mount">>
                                                  ELSE <<"load-key", "mount">>
        /\ req[c].op = "ChangeKey" => Effects(req[c]) = <<"load-key", "change-key">>
    BY DEF Effects
  <2>6. \A x : <<x>> # <<>> /\ <<"load-key", x>> # <<>> /\ \A y : <<x>> # <<"load-key", y>>
    OBVIOUS
  <2>7. \A x, y : (<<x>> = <<y>> => x = y) /\ (<<"load-key", x>> = <<"load-key", y>> => x = y)
    OBVIOUS
  <2>8. req[c].op = "Mount" /\ req[c].pass # NoPass => done[c] # <<>>
    BY <2>1, <2>2, <2>5, <2>6
  <2>9. req[c].op = "ChangeKey" => done[c] # <<>>
    BY <2>1, <2>2, <2>5, <2>6
  <2> QED BY <1>2, <2>4, <2>5, <2>6, <2>7, <2>8, <2>9
<1> QED BY <1>1, <1>2

(* What lets each command through.                                         *)
LEMMA Conditions ==
    ASSUME NEW s, NEW k
    PROVE  /\ k.op = "import" /\ s.at = "exported" => Allowed(s, k)
           /\ k.op = "export" /\ Imported(s) => Allowed(s, k)
           /\ k.op = "create" /\ ~Imported(s) /\ k.pass \in Passphrases => Allowed(s, k)
           /\ k.op = "load-key" /\ Imported(s) /\ s.encrypted /\ ~s.loaded /\ k.pass = s.pass
                  => Allowed(s, k)
           /\ k.op = "mount" /\ Imported(s) /\ ~s.mounted /\ (s.encrypted => s.loaded)
                  => Allowed(s, k)
           /\ k.op = "unmount" /\ s.mounted => Allowed(s, k)
           /\ k.op = "change-key" /\ s.encrypted /\ s.loaded /\ k.pass \in Passphrases
                  => Allowed(s, k)
BY DEF Allowed

(* A command refused in the present state of its pool is a cause.          *)
LEMMA RefusalCause ==
    ASSUME TypeOK, NEW c \in Conns, Progress(c), Accounted(c), pc[c] \in Mutations,
           ~Allowed(zfs[req[c].pool], Command(c))
    PROVE  Cause(req[c], done[c], zfs[req[c].pool])
<1> DEFINE s == zfs[req[c].pool]
<1>1. req[c] \in Requests /\ s \in PoolStates
  BY DEF TypeOK, HasPool
<1>2. /\ Command(c).op = pc[c]
      /\ Command(c).pass = IF pc[c] = "change-key" THEN req[c].new ELSE req[c].pass
  BY DEF Command, CommandFor
<1>3. /\ req[c].op = "InitPool" => req[c].pass \in Passphrases
      /\ req[c].op = "ChangeKey" => req[c].pass # NoPass /\ req[c].new \in Passphrases
  BY NoPassAssumption DEF Accounted
<1> QED BY <1>1, <1>2, <1>3, PositionFacts, Conditions DEF Cause

(* The window of a request in progress only grows, and holds the states    *)
(* its pool gets.                                                          *)
LEMMA WindowGrows ==
    ASSUME TypeOK, NEW d \in Conns, Busy(d), req[d].pool \in Pools, seen' = Window(zfs')
    PROVE  /\ seen[d][req[d].pool] \subseteq seen'[d][req[d].pool]
           /\ zfs'[req[d].pool] \in seen'[d][req[d].pool]
BY DEF TypeOK, Window

(* A handler that does not move stays accounted for, whatever its pool     *)
(* goes through.                                                           *)
LEMMA AccountedFrame ==
    ASSUME TypeOK, NEW d \in Conns, Accounted(d),
           pc'[d] = pc[d], req'[d] = req[d], resp'[d] = resp[d], done'[d] = done[d],
           mishap'[d] = mishap[d],
           \/ zfs' = zfs /\ seen'[d] = seen[d]
           \/ seen' = Window(zfs')
    PROVE  Accounted(d)'
<1>1. Answered(d, "Error")' <=> Answered(d, "Error")
  BY DEF Answered
<1>2. (Busy(d)' <=> Busy(d)) /\ (Locking(d)' <=> Locking(d))
  BY DEF Busy, Locking
<1>3. Answered(d, "Error") => Busy(d)
  BY DEF Answered, Busy
<1>4. Busy(d) /\ req[d].pool \in Pools =>
          /\ zfs[req[d].pool] \in seen[d][req[d].pool]
                 => zfs'[req[d].pool] \in seen'[d][req[d].pool]
          /\ seen[d][req[d].pool] \subseteq seen'[d][req[d].pool]
  BY WindowGrows
<1> QED BY <1>1, <1>2, <1>3, <1>4 DEF Accounted

(* The steps of c's task: the other handlers do not move.                  *)
LEMMA OthersAccounted ==
    ASSUME TypeOK, CausesOK, NEW c \in Conns, Accounted(c)',
           \A d \in Conns : d # c =>
               /\ pc'[d] = pc[d] /\ req'[d] = req[d] /\ resp'[d] = resp[d]
               /\ done'[d] = done[d] /\ mishap'[d] = mishap[d]
               /\ (zfs' = zfs /\ seen'[d] = seen[d]) \/ seen' = Window(zfs')
    PROVE  CausesOK'
BY AccountedFrame DEF CausesOK

-----------------------------------------------------------------------------
(* A command ends, and the handler runs the next one or answers.           *)
LEMMA MutationAccounted ==
    ASSUME TypeOK, ProgressOK, CausesOK, NEW c \in Conns, pc[c] \in Mutations,
           NEW o \in Outcomes(Command(c)), Exit(c, o),
           \/ \E op \in Mutations \cup {"mountpoint"} : StartNext(c, op)
           \/ \E kind \in ResponseKinds :
                 Answer(c, Response(kind)) /\ (kind = "Error" => o.status # "ok")
    PROVE  CausesOK'
<1> DEFINE p == req[c].pool
<1>1. Progress(c) /\ Accounted(c) /\ p \in Pools /\ req[c] \in Requests /\ zfs[p] \in PoolStates
  BY DEF ProgressOK, CausesOK, TypeOK, HasPool
<1>2. /\ pc'[c] \in Mutations \cup {"mountpoint", "reply"}
      /\ Answered(c, "Error")' => o.status # "ok"
      /\ \A d \in Conns : d # c => pc'[d] = pc[d] /\ resp'[d] = resp[d]
  <2>1. CASE \E op \in Mutations \cup {"mountpoint"} : StartNext(c, op)
    BY <2>1, StartFacts, CommandPoints DEF Answered
  <2>2. CASE \E kind \in ResponseKinds :
                 Answer(c, Response(kind)) /\ (kind = "Error" => o.status # "ok")
    BY <2>2, AnswerFacts DEF Answered, Response
  <2> QED BY <2>1, <2>2
<1>3. /\ req' = req /\ seen' = Window(zfs')
      /\ \A d \in Conns : d # c => done'[d] = done[d] /\ mishap'[d] = mishap[d]
      /\ done'[c] = IF o.acts THEN Append(done[c], pc[c]) ELSE done[c]
      /\ o.abnormal => mishap'[c] # {}
  BY OutcomeFacts DEF Exit, TypeOK
<1>4. /\ seen[c][p] \subseteq seen'[c][p] /\ zfs'[p] \in seen'[c][p] /\ zfs[p] \in seen'[c][p]
  <2>1. Busy(c)
    BY CommandPoints DEF Busy
  <2> QED BY <1>1, <1>3, <2>1, WindowGrows DEF Accounted
<1>5. /\ o.acts => Allowed(zfs[p], Command(c))
      /\ ~o.abnormal /\ o.status # "ok" => ~o.acts /\ ~Allowed(zfs[p], Command(c))
  <2>1. Command(c).pool = p /\ Command(c).flag \in BOOLEAN
    BY CommandType DEF MutationCommands
  <2>2. Allowed(zfs[p], Command(c)) \in BOOLEAN
    BY <1>1, <2>1, AllowedType
  <2>3. /\ o.acts \in BOOLEAN /\ o.abnormal \in BOOLEAN
        /\ o.abnormal => (o.acts => Allowed(zfs[p], Command(c)))
        /\ ~o.abnormal => /\ o.acts <=> Allowed(zfs[p], Command(c))
                          /\ o.status = IF o.acts THEN "ok" ELSE "fail"
    BY <2>1 DEF Outcomes
  <2> QED BY <2>2, <2>3
<1>6. ASSUME Answered(c, "Error")', mishap'[c] = {}
      PROVE  \E s \in seen'[c][p] : Cause(req[c], done'[c], s)
  BY <1>1, <1>2, <1>3, <1>4, <1>5, <1>6, RefusalCause
<1>7. ASSUME req[c].op = "ChangeKey", done'[c] # <<>>
      PROVE  \E s \in seen'[c][p] : Imported(s) /\ s.pass = req[c].pass
  <2>1. CASE done[c] # <<>>
    BY <1>1, <1>4, <1>7, <2>1, CommandPoints DEF Accounted, Busy
  <2>2. CASE done[c] = <<>>
    <3>1. pc[c] = "load-key" /\ o.acts
      BY <1>1, <1>3, <1>7, <2>2, PositionFacts
    <3>2. Command(c).op = "load-key" /\ Command(c).pass = req[c].pass
      BY <3>1 DEF Command, CommandFor
    <3>3. Imported(zfs[p]) /\ zfs[p].pass = req[c].pass
      BY <1>5, <3>1, <3>2 DEF Allowed
    <3> QED BY <1>4, <3>3
  <2> QED BY <2>1, <2>2
<1>8. ~Locking(c)'
  BY <1>2, CommandPoints DEF Locking
<1>9. Accounted(c)'
  BY <1>1, <1>3, <1>4, <1>6, <1>7, <1>8 DEF Accounted
<1> QED BY <1>2, <1>3, <1>9, OthersAccounted

LEMMA CommandStepsAccounted ==
    ASSUME TypeOK, ProgressOK, CausesOK, NEW c \in Conns,
           \/ import_pool(c) \/ export_pool(c) \/ create_pool(c) \/ unmount(c)
           \/ change_key(c) \/ load_key(c) \/ mount(c)
    PROVE  CausesOK'
<1>k. "Success" \in ResponseKinds /\ "Error" \in ResponseKinds
  BY DEF ResponseKinds
<1>1. CASE import_pool(c) \/ export_pool(c) \/ create_pool(c) \/ unmount(c) \/ change_key(c)
  <2>1. PICK op \in Mutations : OneCommand(c, op)
    BY <1>1, CommandPoints DEF import_pool, export_pool, create_pool, unmount, change_key
  <2>2. pc[c] \in Mutations
    BY <2>1 DEF OneCommand, Await
  <2>3. PICK o \in Outcomes(Command(c)) :
            /\ Exit(c, o)
            /\ Answer(c, Response(IF o.status = "ok" THEN "Success" ELSE "Error"))
    BY <2>1 DEF OneCommand
  <2> QED BY <1>k, <2>2, <2>3, MutationAccounted
<1>2. CASE load_key(c)
  <2>1. pc[c] \in Mutations /\ {"mount", "change-key"} \subseteq Mutations
    BY <1>2, CommandPoints DEF load_key, Await
  <2>2. PICK o \in Outcomes(Command(c)) :
            /\ Exit(c, o)
            /\ IF o.status = "ok"
               THEN StartNext(c, IF req[c].op = "Mount" THEN "mount" ELSE "change-key")
               ELSE Answer(c, Response("Error"))
    BY <1>2 DEF load_key
  <2> QED BY <1>k, <2>1, <2>2, MutationAccounted
<1>3. CASE mount(c)
  <2>1. pc[c] \in Mutations
    BY <1>3, CommandPoints DEF mount, Await
  <2>2. PICK o \in Outcomes(Command(c)) :
            /\ Exit(c, o)
            /\ IF o.status = "ok" THEN StartNext(c, "mountpoint") ELSE Answer(c, Response("Error"))
    BY <1>3 DEF mount
  <2> QED BY <1>k, <2>1, <2>2, MutationAccounted
<1> QED BY <1>1, <1>2, <1>3

-----------------------------------------------------------------------------
(* Queries refuse nothing: an error of theirs is a mishap.                 *)
LEMMA QueryAccounted ==
    ASSUME TypeOK, CausesOK, NEW c \in Conns, NEW st, QueryExit(c, st), pc[c] \in Queries,
           \/ \E op \in Queries : StartNext(c, op)
           \/ \E r : Answer(c, r) /\ (r.kind = "Error" => st # "ok")
    PROVE  CausesOK'
<1>1. /\ pc'[c] \in Queries \cup {"reply"}
      /\ Answered(c, "Error")' => st # "ok"
      /\ \A d \in Conns : d # c => pc'[d] = pc[d] /\ resp'[d] = resp[d]
  <2>1. CASE \E op \in Queries : StartNext(c, op)
    BY <2>1, StartFacts, CommandPoints DEF Answered
  <2>2. CASE \E r : Answer(c, r) /\ (r.kind = "Error" => st # "ok")
    BY <2>2, AnswerFacts DEF Answered
  <2> QED BY <2>1, <2>2
<1>2. zfs' = zfs /\ seen' = seen
  BY DEF QueryExit
<1>3. /\ req' = req /\ done' = done /\ (st # "ok" => mishap'[c] # {})
      /\ \A d \in Conns : d # c => mishap'[d] = mishap[d]
  BY QueryFacts
<1>4. Busy(c) /\ ~Locking(c)'
  BY <1>1, CommandPoints DEF Busy, Locking
<1>5. Accounted(c)'
  BY <1>1, <1>2, <1>3, <1>4 DEF Accounted, CausesOK
<1> QED BY <1>1, <1>2, <1>3, <1>5, OthersAccounted

LEMMA QueryStepsAccounted ==
    ASSUME TypeOK, CausesOK, NEW c \in Conns,
           \/ mountpoint(c) \/ scan_devices(c) \/ list_pools(c) \/ is_encrypted(c)
           \/ get_mount_info(c) \/ list_datasets(c)
    PROVE  CausesOK'
<1>k. \A kind : Response(kind).kind = kind /\ \A e : PoolList(e).kind = "PoolList"
  BY DEF Response, PoolList
<1>q. {"mountpoint", "zpool list", "encryption", "mounted", "datasets", "scan"} = Queries
  BY CommandPoints
<1>1. CASE mountpoint(c)
  BY <1>1, <1>k, <1>q, QueryAccounted DEF mountpoint, Await
<1>2. CASE scan_devices(c)
  BY <1>2, <1>k, <1>q, QueryAccounted DEF scan_devices, Await
<1>3. CASE list_pools(c)
  <2>1. PICK st \in QueryOutcomes :
            /\ QueryExit(c, st)
            /\ \/ StartNext(c, "encryption")
               \/ Answer(c, IF st = "ok" THEN PoolList({}) ELSE Response("Error"))
    BY <1>3 DEF list_pools
  <2>2. pc[c] \in Queries
    BY <1>3, <1>q DEF list_pools, Await
  <2> QED BY <1>k, <1>q, <2>1, <2>2, QueryAccounted
<1>4. CASE is_encrypted(c)
  BY <1>4, <1>q, QueryAccounted DEF is_encrypted, Await
<1>5. CASE get_mount_info(c)
  BY <1>5, <1>q, QueryAccounted DEF get_mount_info, Await
<1>6. CASE list_datasets(c)
  <2>1. PICK st \in QueryOutcomes :
            /\ QueryExit(c, st)
            /\ StartNext(c, "encryption") \/ \E all : Answer(c, PoolList(all))
    BY <1>6 DEF list_datasets
  <2>2. pc[c] \in Queries
    BY <1>6, <1>q DEF list_datasets, Await
  <2> QED BY <1>k, <1>q, <2>1, <2>2, QueryAccounted
<1> QED BY <1>1, <1>2, <1>3, <1>4, <1>5, <1>6

(* Status and ReloadConfig are about no pool.                              *)
LEMMA ConfigAccounted ==
    ASSUME TypeOK, CausesOK, NEW c \in Conns,
           status(c) \/ reload_exists(c) \/ reload_read(c) \/ reload_parse(c)
    PROVE  CausesOK'
<1>1. Locking(c)
  BY DEF status, reload_exists, reload_read, reload_parse, Locking
<1>2. (\E op \in {"read", "parse"} : StartNext(c, op)) \/ (\E r : Answer(c, r))
  BY DEF status, reload_exists, reload_read, reload_parse
<1>3. \A d \in Conns : d # c => pc'[d] = pc[d] /\ resp'[d] = resp[d]
  BY <1>2, AnswerFacts, StartFacts
<1>4. zfs' = zfs /\ req' = req /\ done' = done /\ mishap' = mishap /\ seen' = seen
  BY DEF status, reload_exists, reload_read, reload_parse, history
<1>5. req[c].pool \notin Pools /\ req[c].pool = NoPool
  BY <1>1, NoPoolAssumption DEF CausesOK, Accounted
<1>6. Accounted(c)'
  BY <1>4, <1>5 DEF CausesOK, Accounted
<1> QED BY <1>3, <1>4, <1>6, OthersAccounted

-----------------------------------------------------------------------------
(* The beginning and the end of a request.                                 *)

LEMMA ReceiveAccounted ==
    ASSUME TypeOK, ProgressOK, CausesOK, NEW c \in Conns, NEW r, NEW next, Receive(c, r, next),
           next \in {"lock", "reply"} => r.pool = NoPool,
           r.op \in {"InitPool", "ChangeKey"} => r.pool \in Pools /\ r.pass \in Passphrases,
           r.op = "ChangeKey" => r.new \in Passphrases,
           next \notin {"read", "parse"},
           \A d \in Conns : d # c => resp'[d] = resp[d]
    PROVE  CausesOK'
<1>1. /\ pc'[c] = next /\ req'[c] = r /\ done' = done /\ mishap' = mishap /\ zfs' = zfs
      /\ \A d \in Conns : d # c => pc'[d] = pc[d] /\ req'[d] = req[d] /\ seen'[d] = seen[d]
  BY DEF Receive, TypeOK
<1>2. r.pool \in Pools => zfs'[r.pool] \in seen'[c][r.pool]
  BY DEF Receive, TypeOK
<1>3. done[c] = <<>>
  BY IdleFacts DEF Receive, ProgressOK
<1>4. Accounted(c)'
  BY <1>1, <1>2, <1>3, NoPoolAssumption DEF Accounted, Locking, Answered
<1> QED BY <1>1, <1>4, OthersAccounted

(* What each request is about.                                             *)
LEMMA RequestPools ==
    /\ \A op : Request(op).op = op /\ Request(op).pool = NoPool
    /\ \A p \in Pools, x \in Keys, y \in Keys, b \in BOOLEAN :
         /\ ImportPool(p).op = "ImportPool" /\ ExportPool(p).op = "ExportPool"
         /\ Unmount(p, b).op = "Unmount" /\ Mount(p, x).op = "Mount"
         /\ InitPool(p, x, b).pool = p /\ InitPool(p, x, b).pass = x
         /\ InitPool(p, x, b).op = "InitPool"
         /\ ChangeKey(p, x, y).pool = p /\ ChangeKey(p, x, y).pass = x
         /\ ChangeKey(p, x, y).new = y
BY DEF Request, ImportPool, ExportPool, Unmount, InitPool, Mount, ChangeKey, PoolRequest

LEMMA ReceiveAnyAccounted ==
    ASSUME TypeOK, ProgressOK, CausesOK, NEW c \in Conns, ReceiveAny(c)
    PROVE  CausesOK'
<1>k. Passphrases \subseteq Keys /\ NoPass \in Keys
  BY DEF Keys
<1>1. ASSUME NEW op \in {"invalid", "Ping", "SubscribeEvents"}, NEW kind,
             AnswerAtOnce(c, op, kind)
      PROVE  CausesOK'
  <2>1. Receive(c, Request(op), "reply") /\ \A d \in Conns : d # c => resp'[d] = resp[d]
    BY <1>1 DEF AnswerAtOnce, TypeOK
  <2> QED BY <2>1, RequestPools, ReceiveAccounted
<1>2. ASSUME NEW op \in {"Status", "ReloadConfig"}, ReceiveLocking(c, op)
      PROVE  CausesOK'
  BY <1>2, RequestPools, ReceiveAccounted DEF ReceiveLocking
<1>3. ASSUME NEW r, NEW first, ReceiveCommand(c, r, first),
             first \notin {"lock", "reply", "read", "parse"},
             r.op \in {"InitPool", "ChangeKey"} => r.pool \in Pools /\ r.pass \in Passphrases,
             r.op = "ChangeKey" => r.new \in Passphrases
      PROVE  CausesOK'
  BY <1>3, ReceiveAccounted DEF ReceiveCommand
<1>4. CASE ReceiveInvalid(c) \/ ReceivePing(c) \/ ReceiveSubscribeEvents(c)
  BY <1>1, <1>4 DEF ReceiveInvalid, ReceivePing, ReceiveSubscribeEvents
<1>5. CASE ReceiveStatus(c) \/ ReceiveReloadConfig(c)
  BY <1>2, <1>5 DEF ReceiveStatus, ReceiveReloadConfig
<1>6. CASE ReceiveListPools(c) \/ ReceiveListDevices(c)
  <2>1. ASSUME NEW op \in {"ListPools", "ListDevices"}, NEW first, ReceiveCommand(c, Request(op), first),
               first \notin {"lock", "reply", "read", "parse"}
        PROVE  CausesOK'
    <3>1. Request(op).op = op
      BY RequestPools
    <3> QED BY <1>3, <2>1, <3>1
  <2> QED BY <1>6, <2>1 DEF ReceiveListPools, ReceiveListDevices
<1>7. CASE ReceiveImportPool(c)
  BY <1>3, <1>7, <1>k, RequestPools DEF ReceiveImportPool
<1>8. CASE ReceiveExportPool(c)
  BY <1>3, <1>8, <1>k, RequestPools DEF ReceiveExportPool
<1>9. CASE ReceiveUnmount(c)
  BY <1>3, <1>9, <1>k, RequestPools DEF ReceiveUnmount
<1>10. CASE ReceiveMount(c)
  BY <1>3, <1>10, <1>k, RequestPools DEF ReceiveMount
<1>11. CASE ReceiveInitPool(c)
  BY <1>3, <1>11, <1>k, RequestPools DEF ReceiveInitPool
<1>12. CASE ReceiveChangeKey(c)
  <2>1. PICK p \in Pools, old \in Passphrases, new \in Passphrases :
           ReceiveCommand(c, ChangeKey(p, old, new), "load-key")
    BY <1>12 DEF ReceiveChangeKey
  <2>2. /\ ChangeKey(p, old, new).pool = p /\ ChangeKey(p, old, new).pass = old
        /\ ChangeKey(p, old, new).new = new
    BY DEF ChangeKey, PoolRequest, Request
  <2> QED BY <1>3, <2>1, <2>2
<1> QED BY <1>4, <1>5, <1>6, <1>7, <1>8, <1>9, <1>10, <1>11, <1>12 DEF ReceiveAny

(* A connection without a request in progress.                             *)
LEMMA RestAccounted ==
    ASSUME NEW c \in Conns, pc[c] \in {"free", "idle"}, req[c].op \notin {"InitPool", "ChangeKey"}
    PROVE  Accounted(c)
BY DEF Accounted, Busy, Locking, Answered

LEMMA ConnectionAccounted ==
    ASSUME TypeOK, ProgressOK, CausesOK, NEW c \in Conns,
           \/ Connect(c) \/ HangUp(c) \/ EndOfFile(c) \/ ReadFails(c)
           \/ Reply(c) \/ ReplyFails(c)
    PROVE  CausesOK'
<1>1. CASE HangUp(c)
  BY <1>1, AccountedFrame DEF HangUp, history, CausesOK
<1>2. CASE Connect(c) \/ EndOfFile(c) \/ ReadFails(c)
  <2>1. /\ pc[c] \in {"free", "idle"} /\ pc'[c] \in {"free", "idle"}
        /\ \A d \in Conns : d # c => pc'[d] = pc[d]
        /\ req' = req /\ resp' = resp /\ done' = done /\ mishap' = mishap
        /\ zfs' = zfs /\ seen' = seen
    BY <1>2 DEF Connect, EndOfFile, ReadFails, history, TypeOK
  <2>2. Accounted(c)'
    BY <2>1 DEF CausesOK, Accounted, Busy, Locking, Answered
  <2> QED BY <2>1, <2>2, OthersAccounted
<1>3. CASE Reply(c) \/ ReplyFails(c)
  <2>1. /\ pc'[c] \in {"free", "idle"} /\ req'[c] = Request("none") /\ zfs' = zfs
        /\ \A d \in Conns : d # c =>
             /\ pc'[d] = pc[d] /\ req'[d] = req[d] /\ resp'[d] = resp[d]
             /\ done'[d] = done[d] /\ mishap'[d] = mishap[d] /\ seen'[d] = seen[d]
    BY <1>3 DEF Reply, ReplyFails, Forget, TypeOK
  <2>2. Accounted(c)'
    BY <2>1, RequestPools DEF Accounted, Busy, Locking, Answered
  <2> QED BY <2>1, <2>2, OthersAccounted
<1> QED BY <1>1, <1>2, <1>3

(* CausesOK is preserved by every step.                                    *)
LEMMA NextAccounted ==
    ASSUME TypeOK, ProgressOK, CausesOK, [Next]_vars
    PROVE  CausesOK'
<1>1. ASSUME NEW c \in Conns, Handle(c)
      PROVE  CausesOK'
  BY <1>1, ConnectionAccounted, CommandStepsAccounted, QueryStepsAccounted, ConfigAccounted
     DEF Handle
<1>2. ASSUME NEW c \in Conns, Hang(c)
      PROVE  CausesOK'
  BY <1>2, AccountedFrame DEF Hang, conn, history, CausesOK
<1>3. CASE EditConfig \/ Restart \/ UNCHANGED vars
  <2>1. /\ pc' = pc /\ req' = req /\ resp' = resp /\ done' = done /\ mishap' = mishap
        /\ zfs' = zfs /\ seen' = seen
    BY <1>3 DEF EditConfig, Restart, vars, conn, history
  <2> QED BY <2>1, AccountedFrame DEF CausesOK
<1>4. CASE OrphanEnds
  <2>1. /\ pc' = pc /\ req' = req /\ resp' = resp /\ done' = done /\ mishap' = mishap
        /\ seen' = Window(zfs')
    BY <1>4 DEF OrphanEnds, conn
  <2> QED BY <2>1, AccountedFrame DEF CausesOK
<1>5. CASE Crash
  <2>1. ASSUME NEW c \in Conns
        PROVE  pc'[c] = "free" /\ req'[c] = Request("none")
    BY <1>5 DEF Crash
  <2>2. ASSUME NEW c \in Conns
        PROVE  Accounted(c)'
    BY <2>1, RequestPools DEF Accounted, Busy, Locking, Answered
  <2> QED BY <2>2 DEF CausesOK
<1> QED BY <1>1, <1>2, <1>3, <1>4, <1>5, ConnectionAccounted, ReceiveAnyAccounted DEF Next

LEMMA InitAccounted == Init => CausesOK
<1> SUFFICES ASSUME Init, NEW c \in Conns PROVE Accounted(c)
  BY DEF CausesOK
<1>1. pc[c] = "free" /\ req[c].op = "none"
  BY RequestPools DEF Init
<1> QED BY <1>1, RestAccounted

-----------------------------------------------------------------------------
(* The window of every request in progress tells why it may be refused and *)
(* what its ChangeKey has known.                                           *)
THEOREM CausesCorrect == Spec => []CausesOK
<1>1. Init => TypeOK /\ MutexOK /\ ProgressOK /\ CausesOK
  <2>1. Init => MutexOK
    BY DEF Init, MutexOK, Locking
  <2> QED BY <2>1, InitType, InitProgress, InitAccounted
<1>2. /\ TypeOK /\ MutexOK /\ ProgressOK /\ CausesOK /\ [Next]_vars
      => (TypeOK /\ MutexOK /\ ProgressOK /\ CausesOK)'
  BY NextType, NextMutex, NextProgress, NextAccounted
<1> QED BY <1>1, <1>2, PTL DEF Spec

(* A request that met no accident is refused only for a cause its pool     *)
(* gave at some moment since the request was read.                         *)
THEOREM RefusalIsCaused == Spec => []RefusedForCause
<1>1. CausesOK => RefusedForCause
  BY DEF CausesOK, Accounted, RefusedForCause
<1> QED BY <1>1, CausesCorrect, PTL

(* A ChangeKey that rewraps the key has presented a passphrase that was    *)
(* the pool's at some moment since the request was read.                   *)
THEOREM ChangeKeyIsKnowing == Spec => []ChangeKeyKnewPassphrase
<1>1. \A c \in Conns : "change-key" \in {done[c][i] : i \in DOMAIN done[c]} => done[c] # <<>>
  OBVIOUS
<1>2. CausesOK => ChangeKeyKnewPassphrase
  BY <1>1 DEF CausesOK, Accounted, ChangeKeyKnewPassphrase
<1> QED BY <1>2, CausesCorrect, PTL

(********************************* Service *********************************)

(* A handler that replies has something to say, and only one that awaits a *)
(* command hangs.                                                          *)
ReplyOK ==
    \A c \in Conns : /\ pc[c] = "reply" => resp[c].kind # "none"
                     /\ hung[c] => pc[c] \in Mutations \cup Queries

(* What PoolService sees of the responses.                                 *)
answers == [c \in Conns |-> IF hung[c] THEN "Lost" ELSE Answer_of(resp[c].kind)]

seenByClients == <<zfs, req, done, answers, orphans>>

-----------------------------------------------------------------------------
LEMMA AnswerValues ==
    /\ Answer_of("none") = "none"
    /\ \A kind \in ResponseKinds \ {"none"} :
        /\ Answer_of(kind) \in {"Success", "Error", "Data"} /\ Answer_of(kind) # "none"
        /\ Answer_of(kind) = "Success" => kind = "Success"
    /\ \A kind \in ResponseKinds : Response(kind).kind = kind
    /\ Answer_of("Success") = "Success" /\ Answer_of("Error") = "Error"
BY DEF Answer_of, ResponseKinds, Response

(* A response is an answer.                                                *)
LEMMA AnswersAfter ==
    ASSUME TypeOK, NEW c \in Conns, NEW r, resp' = [resp EXCEPT ![c] = r],
           ~hung[c], hung' = hung
    PROVE  answers' = [answers EXCEPT ![c] = Answer_of(r.kind)]
BY DEF answers, TypeOK

(* A handler at work has a request and has not answered.                   *)
LEMMA AtWork ==
    ASSUME ProgressOK, NEW c \in Conns, pc[c] \notin {"free", "idle", "reply"}, ~hung[c]
    PROVE  /\ answers[c] = "none" /\ req[c].op # "none" /\ ~Service!Idle(c)
           /\ resp[c] = Response("none")
BY AnswerValues DEF ProgressOK, Progress, answers, Service!Idle, ResponseKinds

(* The command a handler awaits has the next effect of its request, and no *)
(* other command has.                                                      *)
LEMMA NextEffect ==
    ASSUME TypeOK, ProgressOK, NEW c \in Conns, pc[c] \in Mutations
    PROVE  Service!Pending(c) = {Command(c)}
<1> DEFINE es == Effects(req[c])
           n == Len(done[c]) + 1
<1>1. Progress(c) /\ AtMutation(c)
  BY DEF ProgressOK, Progress
<1>2. n \in DOMAIN es /\ es[n] = pc[c]
  <2>1. CASE pc[c] = "load-key"
    <3>1. done[c] = <<>> /\ (es = <<"load-key", "mount">> \/ es = <<"load-key", "change-key">>)
      BY <1>1, <2>1 DEF AtMutation
    <3>2. n = 1
      BY <3>1
    <3> QED BY <2>1, <3>1, <3>2
  <2>2. CASE pc[c] # "load-key"
    <3>1. done[c] \in {<<>>, <<"load-key">>} /\ Append(done[c], pc[c]) = es
      BY <1>1, <2>2 DEF AtMutation
    <3>2. done[c] \in Seq(Mutations)
      BY DEF TypeOK
    <3>3. Len(es) = n /\ es[n] = pc[c] /\ es \in Seq(Mutations) /\ Len(done[c]) \in Nat
      BY <3>1, <3>2
    <3> QED BY <3>3
  <2> QED BY <2>1, <2>2
<1>3. {j \in DOMAIN es : j = n} = {n}
  BY <1>2
<1> HIDE DEF es, n
<1>4. {CommandFor(req[c], es[i]) : i \in {j \in DOMAIN es : j = n}} = {CommandFor(req[c], pc[c])}
  BY <1>2, <1>3
<1> QED BY <1>4 DEF Service!Pending, Service!CommandFor, Service!Effects, Command, CommandFor, Effects, es, n

(* The operators of PoolService are those of the daemon's modules.         *)
LEMMA SameOperators ==
    /\ \A r : Service!Effects(r) = Effects(r)
    /\ \A s, k : Service!Allowed(s, k) = Allowed(s, k) /\ Service!Effect(s, k) = Effect(s, k)
    /\ \A s, k : Service!LeftBehind(s, k) = LeftBehind(s, k)
    /\ \A op : Service!Request(op) = Request(op)
    /\ Service!Requests = Requests
<1>1. \A r : Service!Effects(r) = Effects(r)
  BY DEF Service!Effects, Effects
<1>2. \A s, k : Service!Allowed(s, k) = Allowed(s, k)
  BY DEF Service!Allowed, Service!Imported, Allowed, Imported
<1>3. \A s, k : Service!Effect(s, k) = Effect(s, k)
  BY DEF Service!Effect, Effect
<1>5. \A s, k : Service!LeftBehind(s, k) = LeftBehind(s, k)
  BY <1>3 DEF Service!LeftBehind, LeftBehind, Service!Halfway, Halfway
<1>4. (\A op : Service!Request(op) = Request(op)) /\ Service!Requests = Requests
  BY DEF Service!Request, Request, Service!Requests, Requests, Service!AllOps, AllOps,
     Service!Keys, Keys
<1> QED BY <1>1, <1>2, <1>3, <1>4, <1>5

(* Nothing a client can see changes.                                       *)
LEMMA Waits ==
    ASSUME zfs' = zfs, req' = req, done' = done, orphans' = orphans, resp' = resp, hung' = hung
    PROVE  UNCHANGED Service!vars
BY DEF Service!vars

(* A handler answers without an effect; one that gives a command up may    *)
(* leave it behind.                                                        *)
LEMMA Concludes ==
    ASSUME TypeOK, ProgressOK, ProgressOK', NEW c \in Conns,
           pc[c] \notin {"free", "idle", "reply"}, ~hung[c], hung' = hung,
           NEW r, r.kind \in ResponseKinds \ {"none"}, Answer(c, r),
           zfs' = zfs, req' = req, done' = done,
           \/ orphans' = orphans
           \/ r.kind = "Error" /\ orphans' = orphans \cup Service!Pending(c)
    PROVE  Service!Conclude(c)
<1> DEFINE a == Answer_of(r.kind)
<1>1. answers' = [answers EXCEPT ![c] = a]
  BY AnswersAfter DEF Answer
<1>2. a \in {"Error", "Data", "Success"} /\ (r.kind = "Error" => a = "Error")
  BY AnswerValues
<1>3. a = "Success" => done[c] = Effects(req[c])
  <2>1. a = "Success" => r.kind = "Success"
    BY AnswerValues
  <2>2. pc'[c] = "reply" /\ resp'[c] = r
    BY AnswerFacts
  <2>3. Progress(c)'
    BY DEF ProgressOK
  <2> QED BY <2>1, <2>2, <2>3 DEF Progress, Answered
<1>4. answers[c] = "none" /\ ~Service!Idle(c)
  BY AtWork
<1>5. orphans' \in {orphans} \cup IF a \in {"Error", "Lost"}
                                THEN {orphans \cup Service!Pending(c)} ELSE {}
  BY <1>2
<1> HIDE DEF a
<1> QED BY <1>1, <1>2, <1>3, <1>4, <1>5, SameOperators DEF Service!Conclude, answers

(* The command of a handler ends: an effect, which may come with the       *)
(* answer, or none.                                                        *)
LEMMA Takes ==
    ASSUME TypeOK, ProgressOK, ProgressOK', NEW c \in Conns, pc[c] \in Mutations, ~hung[c],
           NEW o \in Outcomes(Command(c)), Exit(c, o),
           IF o.status = "ok"
           THEN resp' = resp \/ Answer(c, Response("Success"))
           ELSE Answer(c, Response("Error"))
    PROVE  Service!Take(c) \/ Service!Conclude(c) \/ UNCHANGED Service!vars
<1> DEFINE k == Command(c)
<1>1. pc[c] \notin {"free", "idle", "reply"}
  BY DEF Mutations
<1>2. req' = req /\ hung' = hung
  BY DEF Exit
<1>p. Service!Pending(c) = {k}
  BY NextEffect
<1>3. CASE ~o.acts
  <2>1. zfs' = zfs /\ done' = done /\ o.status # "ok"
    BY <1>3 DEF Exit, Outcomes
  <2>2. Response("Error").kind = "Error" /\ "Error" \in ResponseKinds \ {"none"}
    BY DEF Response, ResponseKinds
  <2>3. orphans' = orphans \/ orphans' = orphans \cup Service!Pending(c)
    BY <1>p DEF Exit
  <2> HIDE DEF k
  <2> QED BY <1>1, <1>2, <2>1, <2>2, <2>3, Concludes
<1>4. CASE o.acts
  <2>1. /\ zfs' = [zfs EXCEPT ![k.pool] = o.after]
        /\ done' = [done EXCEPT ![c] = Append(done[c], k.op)]
        /\ orphans' = orphans
    BY <1>4 DEF Exit, Outcomes
  <2>2. /\ Allowed(zfs[k.pool], k)
        /\ o.after \in LeftBehind(zfs[k.pool], k)
        /\ o.status = "ok" => o.after = Effect(zfs[k.pool], k)
    BY <1>4 DEF Outcomes
  <2>4. \E a \in {"none", "Error", "Success"} :
          /\ a = "Success" => done'[c] = Effects(req[c])
          /\ a # "Error" => o.status = "ok"
          /\ answers' = [answers EXCEPT ![c] = a]
    <3>1. CASE resp' = resp /\ o.status = "ok"
      <4>1. answers' = answers /\ answers[c] = "none" /\ answers = [d \in Conns |-> answers[d]]
        BY <1>1, <1>2, <3>1, AtWork DEF answers
      <4>2. answers' = [answers EXCEPT ![c] = "none"]
        BY <4>1
      <4> QED BY <3>1, <4>2
    <3>2. ASSUME NEW kind \in {"Success", "Error"}, Answer(c, Response(kind))
          PROVE  /\ kind = "Success" => done'[c] = Effects(req[c])
                 /\ answers' = [answers EXCEPT ![c] = kind]
      <4>1. Response(kind).kind = kind /\ Answer_of(kind) = kind
        BY AnswerValues DEF ResponseKinds
      <4>2. answers' = [answers EXCEPT ![c] = kind]
        <5>1. resp' = [resp EXCEPT ![c] = Response(kind)]
          BY <3>2 DEF Answer
        <5>2. answers' = [answers EXCEPT ![c] = Answer_of(Response(kind).kind)]
          BY <1>2, <5>1, AnswersAfter
        <5> QED BY <4>1, <5>2
      <4>3. pc'[c] = "reply" /\ resp'[c].kind = kind
        BY <3>2, <4>1, AnswerFacts
      <4>4. Progress(c)'
        BY DEF ProgressOK
      <4> QED BY <1>2, <4>2, <4>3, <4>4 DEF Progress, Answered
    <3>3. CASE o.status = "ok" /\ Answer(c, Response("Success"))
      BY <3>2, <3>3
    <3>4. CASE o.status # "ok"
      BY <3>2, <3>4
    <3> QED BY <3>1, <3>3, <3>4
  <2>5. answers[c] = "none"
    BY <1>1, AtWork
  <2> HIDE DEF k
  <2>6. Service!Take(c)
    <3>1. PICK a \in {"none", "Error", "Success"} :
            /\ a = "Success" => done'[c] = Effects(req[c])
            /\ a # "Error" => o.status = "ok"
            /\ answers' = [answers EXCEPT ![c] = a]
      BY <2>4
    <3>2. a # "Error" => o.after = Effect(zfs[k.pool], k)
      BY <2>2, <3>1
    <3> QED BY <1>2, <1>p, <2>1, <2>2, <2>5, <3>1, <3>2, SameOperators DEF Service!Take, answers
  <2> QED BY <2>6
<1> QED BY <1>3, <1>4

-----------------------------------------------------------------------------
(* The steps of a handler that runs commands.                              *)

LEMMA CommandService ==
    ASSUME TypeOK, ProgressOK, ProgressOK', NEW c \in Conns,
           \/ import_pool(c) \/ export_pool(c) \/ create_pool(c) \/ unmount(c)
           \/ load_key(c) \/ change_key(c) \/ mount(c)
    PROVE  Service!Take(c) \/ Service!Conclude(c) \/ UNCHANGED Service!vars
<1>1. pc[c] \in Mutations /\ ~hung[c]
  BY CommandPoints DEF import_pool, export_pool, create_pool, unmount, load_key, change_key,
     mount, OneCommand, Await
<1>2. PICK o \in Outcomes(Command(c)) :
          /\ Exit(c, o)
          /\ IF o.status = "ok"
             THEN resp' = resp \/ Answer(c, Response("Success"))
             ELSE Answer(c, Response("Error"))
  BY DEF import_pool, export_pool, create_pool, unmount, load_key, change_key, mount,
     OneCommand, StartNext
<1> QED BY <1>1, <1>2, Takes

LEMMA QueryService ==
    ASSUME TypeOK, ProgressOK, ProgressOK', NEW c \in Conns,
           \/ mountpoint(c) \/ scan_devices(c) \/ list_pools(c) \/ is_encrypted(c)
           \/ get_mount_info(c) \/ list_datasets(c)
    PROVE  Service!Conclude(c) \/ UNCHANGED Service!vars
<1>1. pc[c] \in Queries /\ pc[c] \notin {"free", "idle", "reply"} /\ ~hung[c]
  BY CommandPoints DEF mountpoint, scan_devices, list_pools, is_encrypted, get_mount_info,
     list_datasets, Await
<1>2. zfs' = zfs /\ req' = req /\ done' = done /\ orphans' = orphans /\ hung' = hung
  BY DEF mountpoint, scan_devices, list_pools, is_encrypted, get_mount_info, list_datasets, QueryExit
<1>3. \/ resp' = resp
      \/ \E r : r.kind \in {"Success", "Error", "DeviceList", "PoolList"} /\ Answer(c, r)
  <2>1. \/ resp' = resp
        \/ \E kind \in {"Success", "Error", "DeviceList"} : Answer(c, Response(kind))
        \/ \E entries : Answer(c, PoolList(entries))
    BY DEF mountpoint, scan_devices, list_pools, is_encrypted, get_mount_info, list_datasets, StartNext
  <2>2. /\ \A kind : Response(kind).kind = kind
        /\ \A entries : PoolList(entries).kind = "PoolList"
    BY DEF Response, PoolList
  <2> QED BY <2>1, <2>2
<1>4. {"Success", "Error", "DeviceList", "PoolList"} \subseteq ResponseKinds \ {"none"}
  BY DEF ResponseKinds
<1> QED BY <1>1, <1>2, <1>3, <1>4, Waits, Concludes

LEMMA ConfigService ==
    ASSUME TypeOK, ProgressOK, ProgressOK', ReplyOK, NEW c \in Conns,
           status(c) \/ reload_exists(c) \/ reload_read(c) \/ reload_parse(c)
    PROVE  Service!Conclude(c) \/ UNCHANGED Service!vars
<1>1. pc[c] \notin {"free", "idle", "reply"} /\ ~hung[c]
  BY CommandPoints DEF status, reload_exists, reload_read, reload_parse, ReplyOK
<1>2. zfs' = zfs /\ req' = req /\ done' = done /\ orphans' = orphans /\ hung' = hung
  BY DEF status, reload_exists, reload_read, reload_parse, history
<1>3. resp' = resp \/ \E r : r.kind \in {"Success", "Error", "Status"} /\ Answer(c, r)
  BY DEF status, reload_exists, reload_read, reload_parse, StartNext, Response
<1>4. {"Success", "Error", "Status"} \subseteq ResponseKinds \ {"none"}
  BY DEF ResponseKinds
<1> QED BY <1>1, <1>2, <1>3, <1>4, Waits, Concludes

-----------------------------------------------------------------------------
(* The beginning and the end of a request.                                 *)

(* How a request that was read goes on.                                    *)
ReceivedFor(c, next) ==
    \/ next \in Mutations \cup {"zpool list", "scan", "lock"} /\ resp' = resp
    \/ /\ next = "reply"
       /\ \E kind \in {"Error", "Pong", "EventStream"} : resp' = [resp EXCEPT ![c] = Response(kind)]

LEMMA ReceiveAnyForms ==
    ASSUME NEW c \in Conns, ReceiveAny(c)
    PROVE  \E r, next : Receive(c, r, next) /\ ReceivedFor(c, next)
<1> USE DEF ReceivedFor
<1>1. CASE ReceiveInvalid(c) \/ ReceivePing(c) \/ ReceiveSubscribeEvents(c)
  BY <1>1 DEF ReceiveInvalid, ReceivePing, ReceiveSubscribeEvents, AnswerAtOnce
<1>2. CASE ReceiveStatus(c) \/ ReceiveReloadConfig(c)
  BY <1>2 DEF ReceiveStatus, ReceiveReloadConfig, ReceiveLocking
<1>3. CASE ~ \/ ReceiveInvalid(c) \/ ReceivePing(c) \/ ReceiveSubscribeEvents(c)
             \/ ReceiveStatus(c) \/ ReceiveReloadConfig(c)
  <2>1. \E r, next : next \in Mutations \cup {"zpool list", "scan"} /\ ReceiveCommand(c, r, next)
    BY <1>3 DEF ReceiveAny, ReceiveListPools, ReceiveListDevices, ReceiveImportPool,
       ReceiveExportPool, ReceiveMount, ReceiveUnmount, ReceiveInitPool, ReceiveChangeKey, Mutations
  <2> QED BY <2>1 DEF ReceiveCommand
<1> QED BY <1>1, <1>2, <1>3

LEMMA ReceiveService ==
    ASSUME TypeOK, TypeOK', ProgressOK, ProgressOK', ReplyOK, NEW c \in Conns, ReceiveAny(c)
    PROVE  Service!Ask(c)
<1>1. PICK r, next : Receive(c, r, next) /\ ReceivedFor(c, next)
  BY ReceiveAnyForms
<1>2. /\ zfs' = zfs /\ done' = done /\ orphans' = orphans
      /\ req' = [req EXCEPT ![c] = r] /\ req'[c] = r /\ pc'[c] = next /\ pc[c] = "idle"
      /\ ~hung[c] /\ hung' = hung
  BY <1>1, CommandPoints DEF Receive, TypeOK, ReplyOK
<1>3. r \in Requests /\ r.op # "none" /\ Service!Idle(c)
  <2>1. req' \in [Conns -> Requests] /\ Progress(c) /\ Progress(c)'
    BY DEF TypeOK, ProgressOK
  <2>2. next \notin {"free", "idle"}
    BY <1>1 DEF ReceivedFor, Mutations
  <2> QED BY <1>2, <2>1, <2>2 DEF Progress, Service!Idle
<1>4. \E a \in {"none", "Error", "Data"} : answers' = [answers EXCEPT ![c] = a]
  <2>1. \/ resp' = resp
        \/ \E kind \in {"Error", "Pong", "EventStream"} : resp' = [resp EXCEPT ![c] = Response(kind)]
    BY <1>1 DEF ReceivedFor
  <2>2. CASE resp' = resp
    <3>1. resp[c] = Response("none")
      BY <1>2, IdleFacts DEF ProgressOK
    <3>2. answers' = answers /\ answers[c] = "none" /\ answers = [d \in Conns |-> answers[d]]
      BY <1>2, <2>2, <3>1, AnswerValues DEF answers, ResponseKinds
    <3>3. answers' = [answers EXCEPT ![c] = "none"]
      BY <3>2
    <3> QED BY <3>3
  <2>3. ASSUME NEW kind \in {"Error", "Pong", "EventStream"},
               resp' = [resp EXCEPT ![c] = Response(kind)]
        PROVE  \E a \in {"none", "Error", "Data"} : answers' = [answers EXCEPT ![c] = a]
    <3>1. answers' = [answers EXCEPT ![c] = Answer_of(Response(kind).kind)]
      BY <1>2, <2>3, AnswersAfter
    <3>2. Answer_of(Response(kind).kind) \in {"none", "Error", "Data"}
      BY DEF Answer_of, Response
    <3> QED BY <3>1, <3>2
  <2> QED BY <2>1, <2>2, <2>3
<1> QED BY <1>2, <1>3, <1>4, SameOperators DEF Service!Ask, answers

LEMMA ReplyService ==
    ASSUME TypeOK, ReplyOK, NEW c \in Conns, Reply(c) \/ ReplyFails(c)
    PROVE  Service!Return(c)
<1>1. /\ pc[c] = "reply" /\ Forget(c) /\ zfs' = zfs /\ orphans' = orphans
      /\ ~hung[c] /\ hung' = hung
  BY CommandPoints DEF Reply, ReplyFails, ReplyOK
<1>2. answers[c] \notin {"none", "Lost"}
  <2>1. resp[c].kind \in ResponseKinds \ {"none"}
    BY <1>1 DEF ReplyOK, TypeOK, Responses
  <2> QED BY <1>1, <2>1, AnswerValues DEF answers
<1>3. answers' = [answers EXCEPT ![c] = "none"]
  <2>1. answers' = [answers EXCEPT ![c] = Answer_of(Response("none").kind)]
    BY <1>1, AnswersAfter DEF Forget
  <2> QED BY <2>1, AnswerValues DEF ResponseKinds
<1> QED BY <1>1, <1>2, <1>3, SameOperators DEF Forget, Service!Return, answers

(* The daemon dies: of each request, at most the next effect remains.      *)
LEMMA CrashService ==
    ASSUME TypeOK, ProgressOK, Crash
    PROVE  Service!Die
<1> DEFINE cs == {d \in Conns : pc[d] \in Mutations /\ ~hung[d]}
<1>1. \A c \in cs : Service!Pending(c) = {Command(c)} /\ answers[c] = "none"
  BY NextEffect, AtWork, CommandPoints
<1>2. {Command(c) : c \in cs} = UNION {Service!Pending(c) : c \in cs}
  BY <1>1
<1>3. cs \in SUBSET {c \in Conns : answers[c] = "none"}
  BY <1>1
<1>4. orphans' = orphans \cup {Command(c) : c \in cs}
  BY DEF Crash
<1>5. answers' = [c \in Conns |-> "none"]
  BY AnswerValues DEF Crash, answers, ResponseKinds
<1>6. /\ req' = [c \in Conns |-> Service!Request("none")]
      /\ done' = [c \in Conns |-> <<>>] /\ zfs' = zfs
  BY SameOperators DEF Crash
<1> HIDE DEF cs
<1> QED BY <1>2, <1>3, <1>4, <1>5, <1>6 DEF Service!Die, answers

LEMMA EnvironmentService ==
    ASSUME TypeOK,
           \/ \E c \in Conns : Connect(c) \/ HangUp(c) \/ EndOfFile(c) \/ ReadFails(c)
           \/ EditConfig \/ Restart \/ UNCHANGED vars
    PROVE  UNCHANGED Service!vars
<1>1. /\ zfs' = zfs /\ req' = req /\ done' = done /\ orphans' = orphans /\ resp' = resp
      /\ hung' = hung
  BY DEF Connect, HangUp, EndOfFile, ReadFails, EditConfig, Restart, vars, conn, history
<1> QED BY <1>1, Waits

(* A command hangs: its request is lost, its effect may come late.         *)
LEMMA HangService ==
    ASSUME TypeOK, ProgressOK, NEW c \in Conns, Hang(c)
    PROVE  Service!Conclude(c)
<1>1. /\ pc[c] \in Mutations \cup Queries /\ ~hung[c] /\ hung' = [hung EXCEPT ![c] = TRUE]
      /\ zfs' = zfs /\ req' = req /\ done' = done /\ resp' = resp
  BY DEF Hang, conn, history
<1>2. answers[c] = "none" /\ ~Service!Idle(c)
  BY <1>1, AtWork, CommandPoints
<1>3. answers' = [answers EXCEPT ![c] = "Lost"]
  BY <1>1 DEF answers, TypeOK
<1>4. orphans' = orphans \/ orphans' = orphans \cup Service!Pending(c)
  BY NextEffect DEF Hang
<1> QED BY <1>1, <1>2, <1>3, <1>4 DEF Service!Conclude, answers

LEMMA OrphanService ==
    ASSUME OrphanEnds
    PROVE  Service!Late
<1>1. req' = req /\ done' = done /\ resp' = resp /\ hung' = hung
  BY DEF OrphanEnds, conn
<1>2. answers' = answers
  BY <1>1 DEF answers
<1>3. \E k \in orphans :
          /\ orphans' = orphans \ {k}
          /\ \/ /\ Allowed(zfs[k.pool], k)
                /\ \E s \in LeftBehind(zfs[k.pool], k) : zfs' = [zfs EXCEPT ![k.pool] = s]
             \/ zfs' = zfs
  BY DEF OrphanEnds
<1> QED BY <1>1, <1>2, <1>3, SameOperators DEF Service!Late, answers

-----------------------------------------------------------------------------
LEMMA NextService ==
    ASSUME TypeOK, TypeOK', ProgressOK, ProgressOK', ReplyOK, [Next]_vars
    PROVE  [Service!Next]_(Service!vars)
<1>1. ASSUME NEW c \in Conns, Handle(c)
      PROVE  Service!Next \/ UNCHANGED Service!vars
  BY <1>1, CommandService, QueryService, ConfigService, ReplyService, EnvironmentService
  DEF Handle, Service!Next
<1>2. ASSUME NEW c \in Conns, ReceiveAny(c)
      PROVE  Service!Next
  BY <1>2, ReceiveService DEF Service!Next
<1>3. CASE Crash \/ OrphanEnds
  BY <1>3, CrashService, OrphanService DEF Service!Next
<1>4. ASSUME NEW c \in Conns, Hang(c)
      PROVE  Service!Next
  BY <1>4, HangService DEF Service!Next
<1> QED BY <1>1, <1>2, <1>3, <1>4, EnvironmentService DEF Next

(* A handler that goes on answers something or waits for something else.   *)
LEMMA HandlerReply ==
    ASSUME TypeOK, ReplyOK, NEW c \in Conns, ~hung[c], hung' = hung,
           \/ \E r : r.kind # "none" /\ Answer(c, r)
           \/ \E op : op # "reply" /\ StartNext(c, op)
    PROVE  ReplyOK'
<1>1. ASSUME NEW r, r.kind # "none", Answer(c, r)
      PROVE  ReplyOK'
  BY <1>1, AnswerFacts DEF ReplyOK
<1>2. ASSUME NEW op, op # "reply", StartNext(c, op)
      PROVE  ReplyOK'
  BY <1>2, StartFacts DEF ReplyOK
<1> QED BY <1>1, <1>2

LEMMA HandleReply ==
    ASSUME TypeOK, ReplyOK, NEW c \in Conns, Handle(c)
    PROVE  ReplyOK'
<1>0. ~hung[c] /\ hung' = hung
  BY CommandPoints DEF Handle, EndOfFile, Reply, ReplyFails, import_pool, export_pool, create_pool,
     unmount, load_key, change_key, mount, OneCommand, Await, Exit, mountpoint, scan_devices,
     list_pools, is_encrypted, get_mount_info, list_datasets, QueryExit, status, reload_exists,
     reload_read, reload_parse, ReplyOK
<1>1. CASE EndOfFile(c)
  BY <1>0, <1>1 DEF EndOfFile, TypeOK, ReplyOK
<1>2. CASE Reply(c) \/ ReplyFails(c)
  BY <1>0, <1>2 DEF Reply, ReplyFails, Forget, TypeOK, ReplyOK
<1>3. CASE \/ import_pool(c) \/ export_pool(c) \/ create_pool(c) \/ unmount(c)
           \/ load_key(c) \/ change_key(c) \/ mount(c)
  <2>1. \/ \E kind \in {"Success", "Error"} : Answer(c, Response(kind))
        \/ \E op \in {"mount", "change-key", "mountpoint"} : StartNext(c, op)
    BY <1>3 DEF import_pool, export_pool, create_pool, unmount, load_key, change_key, mount, OneCommand
  <2> QED BY <1>0, <2>1, HandlerReply DEF Response
<1>4. CASE mountpoint(c) \/ scan_devices(c)
  <2>1. \E kind \in {"Success", "Error", "DeviceList"} : Answer(c, Response(kind))
    BY <1>4 DEF mountpoint, scan_devices
  <2> QED BY <1>0, <2>1, HandlerReply DEF Response
<1>5. CASE list_pools(c) \/ is_encrypted(c) \/ get_mount_info(c) \/ list_datasets(c)
  <2>1. \/ Answer(c, Response("Error"))
        \/ \E entries : Answer(c, PoolList(entries))
        \/ \E op \in {"encryption", "mounted", "datasets"} : StartNext(c, op)
    BY <1>5 DEF list_pools, is_encrypted, get_mount_info, list_datasets
  <2> QED BY <1>0, <2>1, HandlerReply DEF Response, PoolList
<1>6. CASE status(c) \/ reload_exists(c) \/ reload_read(c) \/ reload_parse(c)
  <2>1. \/ \E r : r.kind \in {"Success", "Error", "Status"} /\ Answer(c, r)
        \/ \E op \in {"read", "parse"} : StartNext(c, op)
    BY <1>6 DEF status, reload_exists, reload_read, reload_parse, Response
  <2> QED BY <1>0, <2>1, HandlerReply
<1> QED BY <1>1, <1>2, <1>3, <1>4, <1>5, <1>6 DEF Handle

(* A request is read: its handler waits, or has its answer already.        *)
LEMMA ReceiveReply ==
    ASSUME TypeOK, ReplyOK, NEW c \in Conns, ReceiveAny(c)
    PROVE  ReplyOK'
<1>1. PICK r, next : Receive(c, r, next) /\ ReceivedFor(c, next)
  BY ReceiveAnyForms
<1>2. /\ pc'[c] = next /\ \A d \in Conns : d # c => pc'[d] = pc[d]
      /\ hung' = hung /\ ~hung[c]
  BY <1>1, CommandPoints DEF Receive, TypeOK, ReplyOK
<1>3. /\ next = "reply" => resp'[c].kind # "none"
      /\ \A d \in Conns : d # c => resp'[d] = resp[d]
  <2>1. "reply" \notin Mutations \cup {"zpool list", "scan", "lock"}
    BY DEF Mutations
  <2>2. \A kind : Response(kind).kind = kind
    BY DEF Response
  <2> QED BY <1>1, <2>1, <2>2 DEF ReceivedFor, TypeOK
<1> QED BY <1>2, <1>3 DEF ReplyOK

LEMMA NextReply ==
    ASSUME TypeOK, ReplyOK, [Next]_vars
    PROVE  ReplyOK'
<1>1. ASSUME NEW c \in Conns, Connect(c) \/ HangUp(c) \/ ReadFails(c) \/ Hang(c)
      PROVE  ReplyOK'
  BY <1>1, CommandPoints DEF Connect, HangUp, ReadFails, Hang, conn, TypeOK, ReplyOK
<1>2. CASE EditConfig \/ Restart \/ OrphanEnds \/ UNCHANGED vars
  <2>1. pc' = pc /\ resp' = resp /\ hung' = hung
    BY <1>2 DEF EditConfig, Restart, OrphanEnds, vars, conn
  <2> QED BY <2>1 DEF ReplyOK
<1>3. CASE Crash
  BY <1>3 DEF Crash, ReplyOK
<1> QED BY <1>1, <1>2, <1>3, HandleReply, ReceiveReply DEF Next

LEMMA InitService == Init => Service!Init /\ ReplyOK
<1> SUFFICES ASSUME Init PROVE Service!Init /\ ReplyOK
  OBVIOUS
<1>1. zfs \in [Pools -> {s \in Service!PoolStates : Service!Consistent(s)}]
  <2>1. zfs \in [Pools -> {s \in PoolStates : Consistent(s)}]
    BY ConstantsAssumption DEF Init
  <2> QED BY <2>1 DEF Service!PoolStates, PoolStates, Service!Consistent, Consistent,
        Service!Keys, Keys
<1>2. answers = [c \in Conns |-> "none"]
  BY AnswerValues DEF Init, answers, ResponseKinds
<1> QED BY <1>1, <1>2, SameOperators DEF Init, ReplyOK, Service!Init, answers

(* Requests take effect as PoolService says, for any number of clients.    *)
THEOREM DaemonImplements == Spec => ImplementsPoolService
<1> DEFINE IInv == TypeOK /\ MutexOK /\ ProgressOK /\ ReplyOK
<1>1. Init => IInv /\ Service!Init
  <2>1. Init => MutexOK
    BY DEF Init, MutexOK, Locking
  <2> QED BY <2>1, InitType, InitProgress, InitService
<1>2. IInv /\ [Next]_vars => IInv' /\ [Service!Next]_(Service!vars)
  <2>1. TypeOK /\ MutexOK /\ ProgressOK /\ [Next]_vars => TypeOK' /\ MutexOK' /\ ProgressOK'
    BY NextType, NextMutex, NextProgress
  <2> QED BY <2>1, NextService, NextReply
<1> HIDE DEF IInv
<1> QED BY <1>1, <1>2, PTL DEF Spec, ImplementsPoolService, Service!Spec
=============================================================================
