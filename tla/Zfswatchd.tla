------------------------------ MODULE Zfswatchd ------------------------------
(***************************************************************************)
(* The daemon of crates/zfswatchd/src/main.rs together with the managers   *)
(* of crates/zfswatch-zfs it calls: one task per connection, each a loop   *)
(* that reads a request line, awaits the child processes the request needs *)
(* one after the other, and writes one response line.                      *)
(*                                                                         *)
(* pc[c] names the await point at which the handler of connection c waits: *)
(* the operation of the child process, "lock" for the state mutex, "idle"  *)
(* for read_line and "reply" for the write of the response.  An action is  *)
(* what happens between two awaits, with the effect of the child process   *)
(* whose exit ends the first.  Tasks interleave at every await.            *)
(*                                                                         *)
(* done, mishap and seen are history variables: the effects the current    *)
(* request had, those of its commands that ended abnormally and how, and   *)
(* the states its pools went through since the request was read.           *)
(***************************************************************************)
EXTENDS Protocol, FiniteSets

CONSTANTS
    Conns,          \* connections, reused when they close
    Ops,            \* the requests clients send, a subset of AllOps
    InitialPools,   \* the states a pool may be in when the daemon starts
    MaxRequests,    \* bound: requests sent in a behaviour
    MaxFaults,      \* bound: commands that end abnormally
    MaxHangs,       \* bound: commands that never exit
    MaxCrashes,     \* bound: daemon crashes
    MaxEdits        \* bound: changes of the configuration file

ASSUME ConstantsAssumption ==
    /\ Ops \subseteq AllOps
    /\ InitialPools \subseteq {s \in PoolStates : Consistent(s)}
    /\ {MaxRequests, MaxFaults, MaxHangs, MaxCrashes, MaxEdits} \subseteq Nat

VARIABLES
    zfs,            \* pool -> its state in the kernel
    up,             \* the daemon process is running
    imported_pools, \* DaemonState.imported_pools
    config,         \* DaemonState.config, as the version of the file it reflects
    lockq,          \* the tokio Mutex<DaemonState>: its holder, then the waiters in order
    pc, peer, req,  \* connection -> await point, client still there, request
    hung,           \* connection -> its child process never exits
    todo, entry, list, \* ListPools: pools still to query, the one being filled, those done
    resp,           \* connection -> response
    text,           \* connection -> the configuration file as ReloadConfig read it
    orphans,        \* commands nobody waits for that may still act
    file,           \* the configuration file
    sent, faults, hangs, crashes,  \* counters of the bounds
    done, mishap, seen             \* history

conn == <<pc, peer, req, resp>>
scan == <<todo, entry, list, text>>
history == <<done, mishap, seen>>
shared == <<imported_pools, config, lockq>>
budget == <<sent, faults, hangs, crashes>>
vars == <<zfs, up, shared, conn, hung, scan, orphans, file, budget, history>>

-----------------------------------------------------------------------------
(* The commands handlers run, and what they keep of their output.          *)

Queries == {"mountpoint", "zpool list", "encryption", "mounted", "datasets", "scan"}

(* How a command ends abnormally: run() returns Err, or a bad exit status. *)
Mishaps == (Mutations \cup Queries) \X {"err", "fail"}

(* The child process the handler of c awaits when pc[c] \in Mutations.     *)
Command(c) == CommandFor(req[c], pc[c])

NoEntry == [pool |-> NoPool, encrypted |-> FALSE, mounted |-> FALSE]
DatasetInfo == [encrypted : BOOLEAN, mounted : BOOLEAN]
PoolInfo == [pool : Pools, encrypted : BOOLEAN, mounted : BOOLEAN,
             datasets : SUBSET DatasetInfo]

Response(kind) == [kind |-> kind, pools |-> {}]

Busy(c) == pc[c] \notin {"free", "idle"}

(* The windows of requests in progress, after the pools become z.          *)
Window(z) ==
    [c \in Conns |-> [p \in Pools |->
        IF Busy(c) /\ (req[c].pool = p \/ req[c].op \in {"ListPools", "Status"})
        THEN seen[c][p] \cup {z[p]}
        ELSE seen[c][p]]]

NoWindow == [p \in Pools |-> {}]

(* The file does not exist, toml does not accept it, or it is usable; a    *)
(* version stands for the contents.                                        *)
FileKinds == {"absent", "bad", "good"}
Files == [kind : FileKinds, ver : Nat]
NoText == [kind |-> "absent", ver |-> 0]

-----------------------------------------------------------------------------
Init ==
    /\ zfs \in [Pools -> InitialPools]
    /\ up = TRUE
    /\ imported_pools = {}
    /\ file \in [kind : FileKinds, ver : {0}]
    /\ config = 0
    /\ lockq = <<>>
    /\ pc = [c \in Conns |-> "free"]
    /\ peer = [c \in Conns |-> FALSE]
    /\ req = [c \in Conns |-> Request("none")]
    /\ hung = [c \in Conns |-> FALSE]
    /\ todo = [c \in Conns |-> {}]
    /\ entry = [c \in Conns |-> NoEntry]
    /\ list = [c \in Conns |-> {}]
    /\ resp = [c \in Conns |-> Response("none")]
    /\ text = [c \in Conns |-> NoText]
    /\ orphans = {}
    /\ sent = 0 /\ faults = 0 /\ hangs = 0 /\ crashes = 0
    /\ done = [c \in Conns |-> <<>>]
    /\ mishap = [c \in Conns |-> {}]
    /\ seen = [c \in Conns |-> NoWindow]

PCs == {"free", "idle", "lock", "read", "parse", "reply"} \cup Mutations \cup Queries

ResponseKinds == {"none", "Pong", "Status", "PoolList", "DeviceList",
                  "Success", "Error", "EventStream"}

(* A handler that awaits a command on a pool knows which.                  *)
HasPool(c) ==
    /\ pc[c] \in Mutations => req[c].pool \in Pools
    /\ pc[c] \in {"mounted", "datasets"} => entry[c].pool \in Pools

Entries == [pool : Pools \cup {NoPool}, encrypted : BOOLEAN, mounted : BOOLEAN]
Responses == [kind : ResponseKinds, pools : SUBSET Pools]

(* Every variable holds a value of its type, and no command lacks a pool.  *)
TypeOK ==
    /\ zfs \in [Pools -> PoolStates]
    /\ up \in BOOLEAN
    /\ imported_pools \subseteq Pools
    /\ config \in Nat
    /\ lockq \in Seq(Conns)
    /\ pc \in [Conns -> PCs]
    /\ peer \in [Conns -> BOOLEAN]
    /\ req \in [Conns -> Requests]
    /\ \A c \in Conns : HasPool(c)
    /\ hung \in [Conns -> BOOLEAN]
    /\ todo \in [Conns -> SUBSET Pools]
    /\ entry \in [Conns -> Entries]
    /\ list \in [Conns -> SUBSET PoolInfo]
    /\ resp \in [Conns -> Responses]
    /\ text \in [Conns -> Files]
    /\ orphans \subseteq MutationCommands(Pools)
    /\ file \in Files
    /\ {sent, faults, hangs, crashes} \subseteq Nat
    /\ done \in [Conns -> Seq(Mutations)]
    /\ mishap \in [Conns -> SUBSET Mishaps]
    /\ seen \in [Conns -> [Pools -> SUBSET PoolStates]]

-----------------------------------------------------------------------------
(* Connections: accept and spawn, end of file, a client that goes away.    *)

Connect(c) ==
    /\ up /\ pc[c] = "free"
    /\ pc' = [pc EXCEPT ![c] = "idle"]
    /\ peer' = [peer EXCEPT ![c] = TRUE]
    /\ UNCHANGED <<zfs, up, shared, req, resp, hung, scan, orphans, file, budget, history>>

HangUp(c) ==
    /\ peer[c]
    /\ peer' = [peer EXCEPT ![c] = FALSE]
    /\ UNCHANGED <<zfs, up, shared, pc, req, resp, hung, scan, orphans, file, budget, history>>

(* read_line returns 0: the loop ends and the task with it.                *)
EndOfFile(c) ==
    /\ pc[c] = "idle" /\ ~peer[c]
    /\ pc' = [pc EXCEPT ![c] = "free"]
    /\ UNCHANGED <<zfs, up, shared, peer, req, resp, hung, scan, orphans, file, budget, history>>

(* read_line fails on a line that is not UTF-8: `?' ends handle_client.    *)
ReadFails(c) ==
    /\ pc[c] = "idle" /\ peer[c]
    /\ pc' = [pc EXCEPT ![c] = "free"]
    /\ peer' = [peer EXCEPT ![c] = FALSE]
    /\ UNCHANGED <<zfs, up, shared, req, resp, hung, scan, orphans, file, budget, history>>

(* What the task of c forgets when the request r has been dealt with.      *)
Forget(c) ==
    /\ req' = [req EXCEPT ![c] = Request("none")]
    /\ resp' = [resp EXCEPT ![c] = Response("none")]
    /\ list' = [list EXCEPT ![c] = {}]
    /\ done' = [done EXCEPT ![c] = <<>>]
    /\ mishap' = [mishap EXCEPT ![c] = {}]
    /\ seen' = [seen EXCEPT ![c] = NoWindow]

(* send_response, and read_line again.                                     *)
Reply(c) ==
    /\ pc[c] = "reply" /\ peer[c]
    /\ pc' = [pc EXCEPT ![c] = "idle"]
    /\ Forget(c)
    /\ UNCHANGED <<zfs, up, shared, peer, hung, todo, entry, text, orphans, file, budget>>

(* The write fails: `?' ends handle_client.                                *)
ReplyFails(c) ==
    /\ pc[c] = "reply" /\ ~peer[c]
    /\ pc' = [pc EXCEPT ![c] = "free"]
    /\ Forget(c)
    /\ UNCHANGED <<zfs, up, shared, peer, hung, todo, entry, text, orphans, file, budget>>

-----------------------------------------------------------------------------
(* Requests: the line is read, parsed, and process_request runs up to its  *)
(* first await.                                                            *)

Receive(c, r, next) ==
    /\ pc[c] = "idle" /\ peer[c]
    /\ r.op \in Ops /\ sent < MaxRequests
    /\ sent' = sent + 1
    /\ pc' = [pc EXCEPT ![c] = next]
    /\ req' = [req EXCEPT ![c] = r]
    /\ seen' = [seen EXCEPT ![c] = [p \in Pools |->
           IF r.pool = p \/ r.op \in {"ListPools", "Status"} THEN {zfs[p]} ELSE {}]]
    /\ UNCHANGED <<zfs, up, imported_pools, config, peer, hung, scan, orphans, file,
                   faults, hangs, crashes, done, mishap>>

(* A response needs no await: no command, no lock.                         *)
AnswerAtOnce(c, op, kind) ==
    /\ Receive(c, Request(op), "reply")
    /\ resp' = [resp EXCEPT ![c] = Response(kind)]
    /\ UNCHANGED lockq

ReceiveInvalid(c) == AnswerAtOnce(c, "invalid", "Error")
ReceivePing(c) == AnswerAtOnce(c, "Ping", "Pong")
ReceiveSubscribeEvents(c) == AnswerAtOnce(c, "SubscribeEvents", "EventStream")

(* state.lock().await: tokio's mutex serves its waiters in order.          *)
ReceiveLocking(c, op) ==
    /\ Receive(c, Request(op), "lock")
    /\ lockq' = Append(lockq, c)
    /\ UNCHANGED resp

ReceiveStatus(c) == ReceiveLocking(c, "Status")
ReceiveReloadConfig(c) == ReceiveLocking(c, "ReloadConfig")

ReceiveCommand(c, r, first) == Receive(c, r, first) /\ UNCHANGED <<lockq, resp>>

ReceiveListPools(c) == ReceiveCommand(c, Request("ListPools"), "zpool list")
ReceiveListDevices(c) == ReceiveCommand(c, Request("ListDevices"), "scan")
ReceiveImportPool(c) == \E p \in Pools : ReceiveCommand(c, ImportPool(p), "import")
ReceiveExportPool(c) == \E p \in Pools : ReceiveCommand(c, ExportPool(p), "export")
(* Faulty variant: a passphrase goes to mount_with_keyload.                *)
ReceiveMount_keyload(c) ==
    \E p \in Pools, x \in Keys :
        ReceiveCommand(c, Mount(p, x), IF x = NoPass THEN "mount" ELSE "mount -l")

ReceiveMount(c) ==
    \E p \in Pools, x \in Keys :
        ReceiveCommand(c, Mount(p, x), IF x = NoPass THEN "mount" ELSE "load-key")
ReceiveUnmount(c) ==
    \E p \in Pools, u \in BOOLEAN : ReceiveCommand(c, Unmount(p, u), "unmount")
ReceiveInitPool(c) ==
    \E p \in Pools, x \in Passphrases, e \in BOOLEAN :
        ReceiveCommand(c, InitPool(p, x, e), "create")
ReceiveChangeKey(c) ==
    \E p \in Pools, old, new \in Passphrases :
        ReceiveCommand(c, ChangeKey(p, old, new), "load-key")

ReceiveAny(c) ==
    \/ ReceiveInvalid(c) \/ ReceivePing(c) \/ ReceiveSubscribeEvents(c)
    \/ ReceiveStatus(c) \/ ReceiveReloadConfig(c)
    \/ ReceiveListPools(c) \/ ReceiveListDevices(c)
    \/ ReceiveImportPool(c) \/ ReceiveExportPool(c)
    \/ ReceiveMount(c) \/ ReceiveUnmount(c)
    \/ ReceiveInitPool(c) \/ ReceiveChangeKey(c)

-----------------------------------------------------------------------------
(* Child processes (RealCommandRunner::run).  An outcome is the status the *)
(* handler sees, "ok", "fail" for a bad exit and "err" when run() itself   *)
(* returns Err, whether the command acted, and the pool it leaves.  Besides*)
(* its normal end a command may fail to spawn or be refused for reasons    *)
(* outside the model; it may be killed or give up once it has acted, fully *)
(* or halfway; and its pipes may fail run() then (write_all when it ended  *)
(* without reading its line, wait_with_output, output), or while it is     *)
(* still running, to act when nobody waits for it any more.                *)

Outcomes(k) ==
    LET s == zfs[k.pool]
    IN  {o \in [status : {"ok", "fail", "err"}, abnormal : BOOLEAN, acts : BOOLEAN,
                after : {s} \cup LeftBehind(s, k), runs_on : BOOLEAN] :
           /\ o.acts => Allowed(s, k) /\ o.after \in LeftBehind(s, k)
           /\ ~o.acts => o.after = s
           /\ o.runs_on => o.status = "err" /\ ~o.acts
           /\ IF o.abnormal
              THEN faults < MaxFaults /\ o.status # "ok"
              ELSE /\ o.acts <=> Allowed(s, k)
                   /\ o.acts => o.after = Effect(s, k)
                   /\ o.status = IF o.acts THEN "ok" ELSE "fail"}

(* The command of c ends with outcome o, or is given up.                   *)
Exit(c, o) ==
    LET k == Command(c)
    IN  /\ zfs' = IF o.acts THEN [zfs EXCEPT ![k.pool] = o.after] ELSE zfs
        /\ seen' = Window(zfs')
        /\ done' = IF o.acts THEN [done EXCEPT ![c] = Append(@, k.op)] ELSE done
        /\ orphans' = IF o.runs_on THEN orphans \cup {k} ELSE orphans
        /\ mishap' = IF o.abnormal
                     THEN [mishap EXCEPT ![c] = @ \cup {<<k.op, o.status>>}]
                     ELSE mishap
        /\ faults' = IF o.abnormal THEN faults + 1 ELSE faults
        /\ UNCHANGED <<up, shared, peer, req, hung, scan, file, sent, hangs, crashes>>

Await(c, op) == pc[c] = op /\ ~hung[c]

StartNext(c, op) == pc' = [pc EXCEPT ![c] = op] /\ UNCHANGED resp

Answer(c, response) ==
    /\ pc' = [pc EXCEPT ![c] = "reply"]
    /\ resp' = [resp EXCEPT ![c] = response]

(* Requests that are one command: its status is the response.              *)
OneCommand(c, op) ==
    /\ Await(c, op)
    /\ \E o \in Outcomes(Command(c)) :
        /\ Exit(c, o)
        /\ Answer(c, Response(IF o.status = "ok" THEN "Success" ELSE "Error"))

import_pool(c) == OneCommand(c, "import")
export_pool(c) == OneCommand(c, "export")
create_pool(c) == OneCommand(c, "create")
unmount(c) == OneCommand(c, "unmount")

(* Faulty variant: a failed load-key, which may just mean that the key is  *)
(* loaded already, does not stop the request.                              *)
load_key_unchecked(c) ==
    /\ Await(c, "load-key")
    /\ \E o \in Outcomes(Command(c)) :
        /\ Exit(c, o)
        /\ StartNext(c, IF req[c].op = "Mount" THEN "mount" ELSE "change-key")

(* EncryptionManager::load_key, awaited by Mount and by change_key.        *)
load_key(c) ==
    /\ Await(c, "load-key")
    /\ \E o \in Outcomes(Command(c)) :
        /\ Exit(c, o)
        /\ IF o.status = "ok"
           THEN StartNext(c, IF req[c].op = "Mount" THEN "mount" ELSE "change-key")
           ELSE Answer(c, Response("Error"))

change_key(c) == OneCommand(c, "change-key")

(* DatasetManager::mount: `zfs mount', then the mountpoint is looked up.   *)
mount(c) ==
    /\ Await(c, "mount")
    /\ \E o \in Outcomes(Command(c)) :
        /\ Exit(c, o)
        /\ IF o.status = "ok" THEN StartNext(c, "mountpoint") ELSE Answer(c, Response("Error"))

(* Queries: what they print is used when they exit with 0, a fault makes   *)
(* them exit otherwise, or not run.                                        *)
QueryOutcomes == {"ok"} \cup IF faults < MaxFaults THEN {"fail", "err"} ELSE {}

QueryExit(c, st) ==
    /\ mishap' = IF st = "ok"
                 THEN mishap
                 ELSE [mishap EXCEPT ![c] = @ \cup {<<pc[c], st>>}]
    /\ faults' = IF st = "ok" THEN faults ELSE faults + 1
    /\ UNCHANGED <<zfs, up, shared, peer, req, hung, orphans, file, sent, hangs, crashes,
                   done, seen>>

(* Faulty variant: the exit status of `zfs get mountpoint' decides.        *)
mountpoint_checked(c) ==
    /\ Await(c, "mountpoint")
    /\ \E st \in QueryOutcomes :
        /\ QueryExit(c, st)
        /\ Answer(c, Response(IF st = "ok" THEN "Success" ELSE "Error"))
    /\ UNCHANGED scan

(* mount() looks at what `zfs get mountpoint' printed, not at its status.  *)
mountpoint(c) ==
    /\ Await(c, "mountpoint")
    /\ \E st \in QueryOutcomes :
        /\ QueryExit(c, st)
        /\ Answer(c, Response(IF st = "err" THEN "Error" ELSE "Success"))
    /\ UNCHANGED scan

(* The platform backend's scan, which touches none of this state.          *)
scan_devices(c) ==
    /\ Await(c, "scan")
    /\ \E st \in QueryOutcomes :
        /\ QueryExit(c, st)
        /\ Answer(c, Response(IF st = "err" THEN "Error" ELSE "DeviceList"))
    /\ UNCHANGED scan

-----------------------------------------------------------------------------
(* PoolManager::list_imported_pools: a snapshot of the pool names, then    *)
(* three more commands for each of them, in the order `zpool list' printed *)
(* the pools (any order here).  A failed query yields its default.         *)

PoolList(entries) == [kind |-> "PoolList", pools |-> {e.pool : e \in entries}]

list_pools(c) ==
    /\ Await(c, "zpool list")
    /\ \E st \in QueryOutcomes :
        /\ QueryExit(c, st)
        /\ LET names == {p \in Pools : Imported(zfs[p])}
           IN  IF st = "ok" /\ names # {}
               THEN todo' = [todo EXCEPT ![c] = names] /\ StartNext(c, "encryption")
               ELSE /\ Answer(c, IF st = "ok" THEN PoolList({}) ELSE Response("Error"))
                    /\ UNCHANGED todo
    /\ UNCHANGED <<entry, list, text>>

(* Whether `zfs get' or `zfs list' on pool p prints something usable.      *)
Answers(p, st) == st = "ok" /\ Imported(zfs[p])

(* Faulty variant: without `if !success', no output is not "off".          *)
is_encrypted_unchecked(c) ==
    /\ Await(c, "encryption")
    /\ \E st \in QueryOutcomes, p \in todo[c] :
        /\ QueryExit(c, st)
        /\ entry' = [entry EXCEPT ![c] = [NoEntry EXCEPT !.pool = p,
               !.encrypted = Answers(p, st) => zfs[p].encrypted]]
        /\ todo' = [todo EXCEPT ![c] = @ \ {p}]
        /\ StartNext(c, "mounted")
    /\ UNCHANGED <<list, text>>

is_encrypted(c) ==
    /\ Await(c, "encryption")
    /\ \E st \in QueryOutcomes, p \in todo[c] :
        /\ QueryExit(c, st)
        /\ entry' = [entry EXCEPT ![c] =
               [NoEntry EXCEPT !.pool = p, !.encrypted = Answers(p, st) /\ zfs[p].encrypted]]
        /\ todo' = [todo EXCEPT ![c] = @ \ {p}]
        /\ StartNext(c, "mounted")
    /\ UNCHANGED <<list, text>>

get_mount_info(c) ==
    /\ Await(c, "mounted")
    /\ \E st \in QueryOutcomes :
        /\ QueryExit(c, st)
        /\ entry' = [entry EXCEPT ![c].mounted =
               Answers(entry[c].pool, st) /\ zfs[entry[c].pool].mounted]
        /\ StartNext(c, "datasets")
    /\ UNCHANGED <<todo, list, text>>

list_datasets(c) ==
    /\ Await(c, "datasets")
    /\ \E st \in QueryOutcomes :
        LET p == entry[c].pool
            info == [pool |-> p, encrypted |-> entry[c].encrypted, mounted |-> entry[c].mounted,
                     datasets |-> IF Answers(p, st)
                                  THEN {[encrypted |-> zfs[p].encrypted, mounted |-> zfs[p].mounted]}
                                  ELSE {}]
            all == list[c] \cup {info}
        IN  /\ QueryExit(c, st)
            /\ list' = [list EXCEPT ![c] = all]
            /\ IF todo[c] # {} THEN StartNext(c, "encryption") ELSE Answer(c, PoolList(all))
    /\ entry' = [entry EXCEPT ![c] = NoEntry]
    /\ UNCHANGED <<todo, text>>

-----------------------------------------------------------------------------
(* The state mutex.  Status and ReloadConfig hold it, neither across an    *)
(* await; Config::resolve looks whether the file exists, then reads it.    *)

unlock == lockq' = Tail(lockq)

(* Faulty variants: the configuration is resolved before the mutex is      *)
(* taken; handlers keep the mutex while their commands run.                *)
Holds_late(c) == lockq # <<>>
Holds_long(c) ==
    lockq # <<>> /\ Head(lockq) = c /\ \A d \in Conns : pc[d] \notin Mutations \cup Queries

Holds(c) == lockq # <<>> /\ Head(lockq) = c

status(c) ==
    /\ pc[c] = "lock" /\ req[c].op = "Status" /\ Holds(c)
    /\ Answer(c, [kind |-> "Status", pools |-> imported_pools])
    /\ unlock
    /\ UNCHANGED <<zfs, up, imported_pools, config, peer, req, hung, scan, orphans, file,
                   budget, history>>

reload_exists(c) ==
    /\ pc[c] = "lock" /\ req[c].op = "ReloadConfig" /\ Holds(c)
    /\ IF file.kind = "absent"
       THEN /\ config' = file.ver       \* Config::default()
            /\ Answer(c, Response("Success"))
            /\ unlock
       ELSE StartNext(c, "read") /\ UNCHANGED <<config, lockq>>
    /\ UNCHANGED <<zfs, up, imported_pools, peer, req, hung, scan, orphans, file,
                   budget, history>>

(* Faulty variant: the error path leaves with the mutex held.              *)
reload_read_leak(c) ==
    /\ pc[c] = "read"
    /\ IF file.kind = "absent"
       THEN Answer(c, Response("Error")) /\ UNCHANGED text
       ELSE StartNext(c, "parse") /\ text' = [text EXCEPT ![c] = file]
    /\ UNCHANGED <<zfs, up, shared, peer, req, hung, todo, entry, list, orphans, file,
                   budget, history>>

reload_read(c) ==
    /\ pc[c] = "read"
    /\ IF file.kind = "absent"           \* removed since: read_to_string fails
       THEN Answer(c, Response("Error")) /\ unlock /\ UNCHANGED text
       ELSE StartNext(c, "parse") /\ text' = [text EXCEPT ![c] = file] /\ UNCHANGED lockq
    /\ UNCHANGED <<zfs, up, imported_pools, config, peer, req, hung, todo, entry, list,
                   orphans, file, budget, history>>

reload_parse(c) ==
    /\ pc[c] = "parse"
    /\ IF text[c].kind = "good"
       THEN config' = text[c].ver /\ Answer(c, Response("Success"))
       ELSE UNCHANGED config /\ Answer(c, Response("Error"))
    /\ text' = [text EXCEPT ![c] = NoText]
    /\ unlock
    /\ UNCHANGED <<zfs, up, imported_pools, peer, req, hung, todo, entry, list, orphans,
                   file, budget, history>>

-----------------------------------------------------------------------------
(* The environment: a child that never exits (run() has no timeout), an    *)
(* administrator who edits the configuration, a crash of the daemon.       *)

(* A command that never exits may still act, whenever it likes.            *)
Hang(c) ==
    /\ pc[c] \in Mutations \cup Queries /\ ~hung[c] /\ hangs < MaxHangs
    /\ hung' = [hung EXCEPT ![c] = TRUE]
    /\ hangs' = hangs + 1
    /\ orphans' = IF pc[c] \in Mutations THEN orphans \cup {Command(c)} ELSE orphans
    /\ UNCHANGED <<zfs, up, shared, conn, scan, file, sent, faults, crashes, history>>

EditConfig ==
    /\ file.ver < MaxEdits
    /\ \E k \in FileKinds : file' = [kind |-> k, ver |-> file.ver + 1]
    /\ UNCHANGED <<zfs, up, shared, conn, hung, scan, orphans, budget, history>>

(* Tasks and connections are gone; child processes are not, for nothing    *)
(* sets kill_on_drop and a killed process does not take them along.        *)
Crash ==
    /\ up /\ crashes < MaxCrashes
    /\ up' = FALSE
    /\ crashes' = crashes + 1
    /\ orphans' = orphans \cup
           {Command(c) : c \in {d \in Conns : pc[d] \in Mutations /\ ~hung[d]}}
    /\ pc' = [c \in Conns |-> "free"]
    /\ peer' = [c \in Conns |-> FALSE]
    /\ req' = [c \in Conns |-> Request("none")]
    /\ resp' = [c \in Conns |-> Response("none")]
    /\ hung' = [c \in Conns |-> FALSE]
    /\ todo' = [c \in Conns |-> {}]
    /\ entry' = [c \in Conns |-> NoEntry]
    /\ list' = [c \in Conns |-> {}]
    /\ text' = [c \in Conns |-> NoText]
    /\ lockq' = <<>>
    /\ done' = [c \in Conns |-> <<>>]
    /\ mishap' = [c \in Conns |-> {}]
    /\ seen' = [c \in Conns |-> NoWindow]
    /\ UNCHANGED <<zfs, imported_pools, config, file, sent, faults, hangs>>

(* The service manager starts main() again: a file it cannot use gives the *)
(* defaults, and nothing remembers the pools of the previous process.      *)
Restart ==
    /\ ~up
    /\ up' = TRUE
    /\ config' = file.ver
    /\ imported_pools' = {}
    /\ UNCHANGED <<zfs, lockq, conn, hung, scan, orphans, file, budget, history>>

(* Faulty variant: a command left behind is run once more when it ends.    *)
OrphanEnds_again ==
    \E k \in orphans :
        /\ Allowed(zfs[k.pool], k)
        /\ \E s \in LeftBehind(zfs[k.pool], k) : zfs' = [zfs EXCEPT ![k.pool] = s]
        /\ seen' = Window(zfs')
        /\ UNCHANGED <<orphans, up, shared, conn, hung, scan, file, budget, done, mishap>>

(* A command left behind by a crash, by an Err of run() or by its own hang *)
(* acts, fully or halfway, or never will: the passphrase may not have been *)
(* written to its stdin.                                                   *)
OrphanEnds ==
    \E k \in orphans :
        /\ orphans' = orphans \ {k}
        /\ \/ /\ Allowed(zfs[k.pool], k)
              /\ \E s \in LeftBehind(zfs[k.pool], k) : zfs' = [zfs EXCEPT ![k.pool] = s]
           \/ UNCHANGED zfs
        /\ seen' = Window(zfs')
        /\ UNCHANGED <<up, shared, conn, hung, scan, file, budget, done, mishap>>

-----------------------------------------------------------------------------
(* What the daemon does for a connection without its client's help.        *)
Handle(c) ==
    \/ EndOfFile(c) \/ Reply(c) \/ ReplyFails(c)
    \/ import_pool(c) \/ export_pool(c) \/ create_pool(c) \/ unmount(c)
    \/ load_key(c) \/ change_key(c) \/ mount(c) \/ mountpoint(c)
    \/ scan_devices(c) \/ list_pools(c) \/ is_encrypted(c)
    \/ get_mount_info(c) \/ list_datasets(c)
    \/ status(c) \/ reload_exists(c) \/ reload_read(c) \/ reload_parse(c)

Next ==
    \/ \E c \in Conns : Connect(c) \/ HangUp(c) \/ ReadFails(c) \/ ReceiveAny(c) \/ Handle(c) \/ Hang(c)
    \/ EditConfig \/ Crash \/ Restart \/ OrphanEnds

Spec == Init /\ [][Next]_vars

(* Tokio runs every task that can proceed, a command that does not hang    *)
(* ends, and the service manager restarts the daemon (Restart=on-failure,  *)
(* KeepAlive).  Clients, edits, faults, hangs and crashes need not happen. *)
FairSpec == Spec /\ (\A c \in Conns : WF_vars(Handle(c))) /\ WF_vars(Restart)

-----------------------------------------------------------------------------
(* Properties.  A response is looked at when it is about to be sent.       *)

Answered(c, kind) == pc[c] = "reply" /\ resp[c].kind = kind

Locking(c) == pc[c] \in {"lock", "read", "parse"}

(* The mutex is held by one handler, in ReloadConfig's file access or about *)
(* to run, and every other handler in need of it is queued exactly once.   *)
MutexOK ==
    /\ \A c \in Conns : Locking(c) <=> \E i \in DOMAIN lockq : lockq[i] = c
    /\ \A i, j \in DOMAIN lockq : lockq[i] = lockq[j] => i = j
    /\ \A i \in DOMAIN lockq : i # 1 => pc[lockq[i]] = "lock"

(* A handler answers Success only when every effect its request asks for   *)
(* took place, once and in order, whatever the other handlers and the      *)
(* commands did meanwhile.                                                 *)
SuccessMeansDone ==
    \A c \in Conns : Answered(c, "Success") => done[c] = Effects(req[c])

(* Each effect c's request had is a load-key, or the work of a command     *)
(* that ended abnormally; or run() returned Err for the mountpoint query.  *)
Undone(c) ==
    \A i \in DOMAIN done[c] :
        \/ done[c][i] = "load-key"
        \/ \E how \in {"err", "fail"} : <<done[c][i], how>> \in mishap[c]
        \/ <<"mountpoint", "err">> \in mishap[c]

(* An Error answer means the request changed no pool, except that the key  *)
(* it presented may be left loaded; unless a command acted and then failed *)
(* all the same (a bad exit, or Err from run()), or run() returned Err for *)
(* the query mount() ends with.  A bad exit of that query is no such case. *)
ErrorMeansUndone == \A c \in Conns : Answered(c, "Error") => Undone(c)

(* Nobody replaces a passphrase without knowing one: by the time ChangeKey *)
(* rewraps the key, the current passphrase it presents has been the pool's *)
(* at some moment since the request was read.                              *)
ChangeKeyKnewPassphrase ==
    \A c \in Conns :
        Busy(c) /\ req[c].op = "ChangeKey" /\ "change-key" \in {done[c][i] : i \in DOMAIN done[c]} =>
            \E s \in seen[c][req[c].pool] : Imported(s) /\ s.pass = req[c].pass

(* Why the request r, with the effects so far, may be refused in state s.  *)
Cause(r, so_far, s) ==
    \/ r.op = "ImportPool" /\ s.at # "exported"
    \/ r.op = "ExportPool" /\ ~Imported(s)
    \/ r.op = "InitPool" /\ Imported(s)
    \/ r.op = "Unmount" /\ ~s.mounted
    \/ /\ r.op \in {"Mount", "ChangeKey"} /\ so_far = <<>> /\ r.pass # NoPass
       /\ ~Imported(s) \/ ~s.encrypted \/ s.pass # r.pass \/ s.loaded
    \/ /\ r.op = "Mount" /\ (so_far = <<>> => r.pass = NoPass)
       /\ ~Imported(s) \/ s.mounted \/ (s.encrypted /\ ~s.loaded)
    \/ r.op = "ChangeKey" /\ so_far # <<>> /\ (~s.encrypted \/ ~s.loaded)

(* No refusal without a cause in the pool, at some moment of the request:  *)
(* above all, Mount and ChangeKey refuse the pool's own passphrase only    *)
(* when the key is loaded already, and after a load-key that succeeded     *)
(* only when another request undid it or mounted first.                    *)
RefusedForCause ==
    \A c \in Conns :
        Answered(c, "Error") /\ mishap[c] = {} /\ req[c].pool \in Pools =>
            \E s \in seen[c][req[c].pool] : Cause(req[c], done[c], s)

(* ListPools asks for each pool's properties after its list of names, and  *)
(* pools come and go in between.  Each pool it reports was imported while  *)
(* the request ran and is reported once; an encrypted or mounted pool, or  *)
(* root dataset, was so at some moment; a pool left out was not imported   *)
(* at some moment.                                                         *)
ListingWithinWindow ==
    \A c \in Conns : Answered(c, "PoolList") =>
        /\ \A e \in list[c] :
             LET was == {s \in seen[c][e.pool] : Imported(s)}
             IN  /\ was # {}
                 /\ e.encrypted => \E s \in was : s.encrypted
                 /\ e.mounted => \E s \in was : s.mounted
                 /\ \A d \in e.datasets :
                      \E s \in was : d = [encrypted |-> s.encrypted, mounted |-> s.mounted]
                 /\ \A f \in list[c] : f.pool = e.pool => f = e
        /\ \A p \in Pools \ resp[c].pools : \E s \in seen[c][p] : ~Imported(s)

(* Reloads never bring back an older configuration: the file is read and   *)
(* the result stored under one hold of the mutex.                          *)
ConfigMonotone == [][config' >= config]_vars

(* Every request is answered, or dies with the daemon, even while commands *)
(* of other requests hang; only a request whose own command hangs is not.  *)
RequestsAnswered == \A c \in Conns : Busy(c) ~> (~Busy(c) \/ hung[c])

-----------------------------------------------------------------------------
(* The daemon implements PoolService: a request in progress is the one its *)
(* handler works on, a response is an answer, a hung request is lost.      *)

Answer_of(kind) ==
    CASE kind = "none"                 -> "none"
      [] kind \in {"Success", "Error"} -> kind
      [] OTHER                         -> "Data"

Service == INSTANCE PoolService WITH
    asked <- req, effects <- done, late <- orphans,
    answer <- [c \in Conns |-> IF hung[c] THEN "Lost" ELSE Answer_of(resp[c].kind)]

(* Requests take effect as PoolService says, between question and answer,  *)
(* through every interleaving, fault and crash.                            *)
ImplementsPoolService == Service!Spec

-----------------------------------------------------------------------------
(* Why the answers tell the effects: the await point of a handler tells    *)
(* them.  The handler of a request that changes pools awaits the next      *)
(* effect it asks for, never more than a load-key after the first.         *)
AtMutation(c) ==
    IF pc[c] = "load-key"
    THEN /\ done[c] = <<>>
         /\ \/ req[c].op = "Mount" /\ Effects(req[c]) = <<"load-key", "mount">>
            \/ req[c].op = "ChangeKey" /\ Effects(req[c]) = <<"load-key", "change-key">>
    ELSE /\ done[c] \in {<<>>, <<"load-key">>}
         /\ Append(done[c], pc[c]) = Effects(req[c])

Progress(c) ==
    /\ pc[c] \in {"free", "idle"} <=> req[c].op = "none"
    /\ pc[c] # "reply" => resp[c] = Response("none")
    /\ pc[c] \in Mutations => AtMutation(c)
    /\ pc[c] = "mountpoint" => done[c] = Effects(req[c])
    /\ pc[c] \notin Mutations \cup {"mountpoint", "reply"} =>
          done[c] = <<>> /\ Effects(req[c]) = <<>>
    /\ Answered(c, "Success") => done[c] = Effects(req[c])
    /\ Answered(c, "Error") => Undone(c)

(* The inductive invariant of the proofs: each handler is where its done   *)
(* effects say.                                                            *)
ProgressOK == \A c \in Conns : Progress(c)

(* Why refusals have a cause: the window of a request in progress holds    *)
(* the present state of its pool, and once ChangeKey has loaded the key, a *)
(* state with the passphrase it presented; a handler in need of the mutex  *)
(* has no pool, and what must be a passphrase is one.                      *)
Accounted(c) ==
    /\ Busy(c) /\ req[c].pool \in Pools => zfs[req[c].pool] \in seen[c][req[c].pool]
    /\ Busy(c) /\ req[c].op = "ChangeKey" /\ done[c] # <<>> =>
          \E s \in seen[c][req[c].pool] : Imported(s) /\ s.pass = req[c].pass
    /\ Locking(c) => req[c].pool = NoPool
    /\ req[c].op \in {"InitPool", "ChangeKey"} =>
          req[c].pool \in Pools /\ req[c].pass \in Passphrases
    /\ req[c].op = "ChangeKey" => req[c].new \in Passphrases
    /\ Answered(c, "Error") /\ mishap[c] = {} /\ req[c].pool \in Pools =>
          \E s \in seen[c][req[c].pool] : Cause(req[c], done[c], s)

CausesOK == \A c \in Conns : Accounted(c)

-----------------------------------------------------------------------------
(* What the documentation says and the code does not do (PROJECT.json,     *)
(* "findings").                                                            *)

(* The CLI's "Current passphrase": the passphrase ChangeKey replaces is    *)
(* the one it presents.                                                    *)
ChangeKeyReplacesPresented ==
    [][\A c \in Conns :
          pc[c] = "change-key" /\ done'[c] # done[c] /\ Busy(c)' =>
              zfs[req[c].pool].pass = req[c].pass]_vars
=============================================================================
