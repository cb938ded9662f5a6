---------------------------- MODULE UsbMonitorMac ----------------------------
(***************************************************************************)
(* MacOsBackend::start_monitoring of crates/zfswatch-platform/src/macos.rs:*)
(* a task that asks diskutil every two seconds which disks there are and   *)
(* sends the difference with the poll before.  Disks come and go between   *)
(* and during polls.  diskutil names a disk by its device node, which the  *)
(* next disk may get again; that name is the event's stable_id.            *)
(*                                                                         *)
(* detached is a history variable: the names that were without a disk at   *)
(* some moment since the last poll that showed them.                       *)
(***************************************************************************)
EXTENDS DeviceFeed

CONSTANTS
    Disks, NoDisk,      \* the physical disks
    MaxMoves,           \* bound: disks attached or detached
    MaxSpawnErrors,     \* bound: diskutil does not start
    MaxExitFailures     \* bound: diskutil fails, printing nothing

ASSUME MacAssumption ==
    /\ NoDisk \notin Disks
    /\ {MaxMoves, MaxSpawnErrors, MaxExitFailures} \subseteq Nat

VARIABLES
    attached,           \* id -> the disk attached under it
    pc,                 \* "poll", "report" or "sleep"
    known_devices,
    scanned,            \* what diskutil printed: id -> disk
    inserted, removed,  \* ids of this poll still to be reported
    moves, spawn_errors, exit_failures,  \* counters of the bounds
    detached            \* history

machine == <<attached, moves>>
task == <<pc, known_devices, scanned, inserted, removed>>
vars == <<feed, machine, task, spawn_errors, exit_failures, detached>>

NoDisks == [i \in Ids |-> NoDisk]
Shown(s) == {i \in Ids : s[i] # NoDisk}

Init ==
    /\ FeedInit
    /\ attached \in {a \in [Ids -> Disks \cup {NoDisk}] :
                        \A i, j \in Shown(a) : a[i] = a[j] => i = j}
    /\ pc = "poll"
    /\ known_devices = {} /\ scanned = NoDisks /\ inserted = {} /\ removed = {}
    /\ moves = 0 /\ spawn_errors = 0 /\ exit_failures = 0
    /\ detached = Ids

(* Every variable holds a value of its type; a poll reports only what it   *)
(* saw appear or disappear.                                                *)
TypeOK ==
    /\ FeedTypeOK
    /\ attached \in [Ids -> Disks \cup {NoDisk}]
    /\ pc \in {"poll", "report", "sleep"}
    /\ known_devices \subseteq Ids
    /\ scanned \in [Ids -> Disks \cup {NoDisk}]
    /\ inserted \subseteq Ids \ known_devices
    /\ removed \subseteq known_devices
    /\ pc # "report" => inserted = {} /\ removed = {}
    /\ {moves, spawn_errors, exit_failures} \subseteq Nat
    /\ detached \subseteq Ids

-----------------------------------------------------------------------------
(* The machine.                                                            *)

Attach ==
    /\ moves < MaxMoves /\ moves' = moves + 1
    /\ \E i \in Ids \ Shown(attached), d \in Disks :
        /\ \A j \in Ids : attached[j] # d
        /\ attached' = [attached EXCEPT ![i] = d]
    /\ UNCHANGED <<feed, task, spawn_errors, exit_failures, detached>>

Detach ==
    /\ moves < MaxMoves /\ moves' = moves + 1
    /\ \E i \in Shown(attached) :
        /\ attached' = [attached EXCEPT ![i] = NoDisk]
        /\ detached' = detached \cup {i}
    /\ UNCHANGED <<feed, task, spawn_errors, exit_failures>>

-----------------------------------------------------------------------------
(* The task.  Its stop signal never comes: the sender is gone, a closed    *)
(* channel is not Ok(()), and stop_monitoring finds no stop_tx.            *)

(* diskutil has printed s: what is new is inserted, what is missing removed.*)
Show(s) ==
    /\ scanned' = s
    /\ inserted' = Shown(s) \ known_devices
    /\ removed' = known_devices \ Shown(s)
    /\ detached' = detached \ Shown(s)
    /\ pc' = "report"
    /\ UNCHANGED known_devices

Scan ==
    /\ pc = "poll"
    /\ Show(attached)
    /\ UNCHANGED <<feed, machine, spawn_errors, exit_failures>>

(* output() is Ok whatever the exit status, which is not looked at.        *)
ScanExitFails ==
    /\ pc = "poll" /\ exit_failures < MaxExitFailures
    /\ exit_failures' = exit_failures + 1
    /\ Show(NoDisks)
    /\ UNCHANGED <<feed, machine, spawn_errors>>

(* Faulty variant: an error is an empty list.                              *)
ScanSpawnFails_empty ==
    /\ pc = "poll" /\ spawn_errors < MaxSpawnErrors
    /\ spawn_errors' = spawn_errors + 1
    /\ Show(NoDisks)
    /\ UNCHANGED <<feed, machine, exit_failures>>

ScanSpawnFails ==
    /\ pc = "poll" /\ spawn_errors < MaxSpawnErrors
    /\ spawn_errors' = spawn_errors + 1
    /\ pc' = "sleep"
    /\ UNCHANGED <<feed, machine, known_devices, scanned, inserted, removed,
                   exit_failures, detached>>

(* Faulty variant: try_send drops an event when the channel is full.       *)
ReportInserted_try ==
    /\ pc = "report"
    /\ \E i \in inserted :
        /\ IF CanSend THEN Send(DeviceInserted(i)) ELSE UNCHANGED feed
        /\ inserted' = inserted \ {i}
    /\ UNCHANGED <<machine, pc, known_devices, scanned, removed, spawn_errors,
                   exit_failures, detached>>

ReportInserted ==
    /\ pc = "report"
    /\ \E i \in inserted :
        /\ Send(DeviceInserted(i))
        /\ inserted' = inserted \ {i}
    /\ UNCHANGED <<machine, pc, known_devices, scanned, removed, spawn_errors,
                   exit_failures, detached>>

ReportRemoved ==
    /\ pc = "report" /\ inserted = {}
    /\ \E i \in removed :
        /\ Send(DeviceRemoved(i))
        /\ removed' = removed \ {i}
    /\ UNCHANGED <<machine, pc, known_devices, scanned, inserted, spawn_errors,
                   exit_failures, detached>>

(* Faulty variant: known_devices only grows.                               *)
Reported_grow ==
    /\ pc = "report" /\ inserted = {} /\ removed = {}
    /\ known_devices' = known_devices \cup Shown(scanned)
    /\ pc' = "sleep"
    /\ UNCHANGED <<feed, machine, scanned, inserted, removed, spawn_errors,
                   exit_failures, detached>>

Reported ==
    /\ pc = "report" /\ inserted = {} /\ removed = {}
    /\ known_devices' = Shown(scanned)
    /\ pc' = "sleep"
    /\ UNCHANGED <<feed, machine, scanned, inserted, removed, spawn_errors,
                   exit_failures, detached>>

Wake ==
    /\ pc = "sleep" /\ pc' = "poll"
    /\ UNCHANGED <<feed, machine, known_devices, scanned, inserted, removed,
                   spawn_errors, exit_failures, detached>>

-----------------------------------------------------------------------------
Consumer ==
    /\ Receive \/ DropReceiver
    /\ UNCHANGED <<machine, task, spawn_errors, exit_failures, detached>>

Consume == Receive /\ Consumer

Poll == Scan \/ ScanExitFails \/ ScanSpawnFails
Task == Poll \/ ReportInserted \/ ReportRemoved \/ Reported \/ Wake

Next == Attach \/ Detach \/ Task \/ Consumer

Spec == Init /\ [][Next]_vars

(* The runtime runs the task, and the consumer receives as long as it has  *)
(* not dropped the receiver.                                               *)
FairSpec == Spec /\ WF_vars(Task) /\ WF_vars(Consume)

-----------------------------------------------------------------------------
(* Each event is news to the consumer: no insertion of a disk it knows, no *)
(* removal of one it does not, however polls, sends and receipts interleave.*)
EventsAreNews ==
    channel # <<>> => (Head(channel).kind = "DeviceInserted" <=> Head(channel).id \notin view)

(* As long as every diskutil that starts succeeds, a removal is reported   *)
(* only of a disk that was detached since it was last seen; a diskutil     *)
(* that does not start loses no disk.                                      *)
RemovedWasDetached == pc = "report" /\ exit_failures = 0 => removed \subseteq detached

(* Once disks no longer come and go, a consumer that keeps receiving ends  *)
(* up with exactly those attached.                                         *)
ViewConverges == <>[](rx_open => view = Shown(attached))
=============================================================================
