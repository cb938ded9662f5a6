--------------------------- MODULE UsbMonitorLinux ---------------------------
(***************************************************************************)
(* LinuxBackend::start_monitoring of crates/zfswatch-platform/src/linux.rs:*)
(* a blocking thread that turns the udev events of block disks into        *)
(* UsbEvents.  The monitor socket queues the events of the kernel from the *)
(* moment listen() returns.  returned tells whether start_monitoring has   *)
(* returned, and so dropped stop_tx: from then on try_recv on the stop     *)
(* channel says Closed.                                                    *)
(***************************************************************************)
EXTENDS DeviceFeed

CONSTANTS
    Disks, NoDisk,
    Names,          \* kernel names of whole disks (sd*, nvme*, vd*), ids themselves
    NoId,
    Serial, Wwn,    \* disk -> ID_SERIAL_SHORT, ID_WWN, or NoId
    Listed,         \* the disks device_from_udev accepts: on USB or removable
    MaxMoves        \* bound: disks attached or detached

ASSUME LinuxAssumption ==
    /\ NoDisk \notin Disks /\ NoId \notin Ids /\ Names \subseteq Ids
    /\ Serial \in [Disks -> (Ids \ Names) \cup {NoId}]
    /\ Wwn \in [Disks -> (Ids \ Names) \cup {NoId}]
    /\ Listed \subseteq Disks
    /\ MaxMoves \in Nat

(* Serial numbers and WWNs identify a disk, which is what stable_id takes  *)
(* them for.                                                               *)
ASSUME IdsAssumption ==
    \A d, e \in Disks : d # e => {Serial[d], Wwn[d]} \cap {Serial[e], Wwn[e]} \subseteq {NoId}

VARIABLES
    attached,   \* kernel name -> the disk attached under it
    udev,       \* the events queued in the monitor socket
    pc,         \* "listen", "check", "receive", "send", "ended"
    sending,    \* the event in blocking_send
    returned,   \* start_monitoring has returned: stop_tx is dropped
    moves       \* counter of the bound

thread == <<pc, sending>>
vars == <<feed, attached, udev, thread, returned, moves>>

UdevEvent == [action : {"add", "remove"}, name : Names, disk : Disks]
NoEvent == [kind |-> "none", id |-> NoId]

Shown == {n \in Names : attached[n] # NoDisk}

Init ==
    /\ FeedInit
    /\ attached \in {a \in [Names -> Disks \cup {NoDisk}] :
                        \A m, n \in Names : a[m] = a[n] /\ a[m] # NoDisk => m = n}
    /\ udev = <<>>
    /\ pc = "listen" /\ sending = NoEvent
    /\ returned = FALSE
    /\ moves = 0

(* Every variable holds a value of its type; only a thread that sends has  *)
(* an event to send.                                                       *)
TypeOK ==
    /\ FeedTypeOK
    /\ attached \in [Names -> Disks \cup {NoDisk}]
    /\ udev \in Seq(UdevEvent)
    /\ pc \in {"listen", "check", "receive", "send", "ended"}
    /\ IF pc = "send" THEN sending \in UsbEvent ELSE sending = NoEvent
    /\ returned \in BOOLEAN
    /\ moves \in Nat

-----------------------------------------------------------------------------
(* The kernel: an event for a socket that listens.                         *)

Emit(action, n, d) ==
    udev' = IF pc \in {"listen", "ended"} THEN udev
            ELSE Append(udev, [action |-> action, name |-> n, disk |-> d])

Attach ==
    /\ moves < MaxMoves /\ moves' = moves + 1
    /\ \E n \in Names \ Shown, d \in Disks :
        /\ \A m \in Names : attached[m] # d
        /\ attached' = [attached EXCEPT ![n] = d]
        /\ Emit("add", n, d)
    /\ UNCHANGED <<feed, thread, returned>>

Detach ==
    /\ moves < MaxMoves /\ moves' = moves + 1
    /\ \E n \in Shown :
        /\ attached' = [attached EXCEPT ![n] = NoDisk]
        /\ Emit("remove", n, attached[n])
    /\ UNCHANGED <<feed, thread, returned>>

-----------------------------------------------------------------------------
(* device_from_udev: the id of an inserted disk.                           *)
stable_id(n, d) ==
    IF Serial[d] # NoId THEN Serial[d] ELSE IF Wwn[d] # NoId THEN Wwn[d] ELSE n

(* Faulty variant: the kernel name alone.                                  *)
removed_id_name(n, d) == n

(* The id of a removed disk, listed or not.                                *)
removed_id(n, d) == IF Serial[d] # NoId THEN Serial[d] ELSE n

listen ==
    /\ pc = "listen"
    /\ \/ pc' = "check"
       \/ pc' = "ended"
    /\ UNCHANGED <<feed, attached, udev, sending, returned, moves>>

(* start_monitoring returns while the thread it spawned runs.              *)
Return ==
    /\ ~returned /\ returned' = TRUE
    /\ UNCHANGED <<feed, attached, udev, thread, moves>>

(* Faulty variant: Closed is as good as Empty.                             *)
CheckStop_open ==
    /\ pc = "check"
    /\ pc' = "receive"
    /\ UNCHANGED <<feed, attached, udev, sending, returned, moves>>

CheckStop ==
    /\ pc = "check"
    /\ pc' = IF returned THEN "ended" ELSE "receive"
    /\ UNCHANGED <<feed, attached, udev, sending, returned, moves>>

NoUdevEvent ==
    /\ pc = "receive" /\ udev = <<>>
    /\ pc' = "check"
    /\ UNCHANGED <<feed, attached, udev, sending, returned, moves>>

receive_event ==
    /\ pc = "receive" /\ udev # <<>>
    /\ udev' = Tail(udev)
    /\ LET e == Head(udev)
       IN  \/ /\ e.action = "add" /\ e.disk \in Listed
              /\ pc' = "send" /\ sending' = DeviceInserted(stable_id(e.name, e.disk))
           \/ /\ e.action = "add" /\ e.disk \notin Listed
              /\ pc' = "check" /\ UNCHANGED sending
           \/ /\ e.action = "remove"
              /\ pc' = "send" /\ sending' = DeviceRemoved(removed_id(e.name, e.disk))
    /\ UNCHANGED <<feed, attached, returned, moves>>

blocking_send ==
    /\ pc = "send"
    /\ Send(sending)
    /\ pc' = IF rx_open THEN "check" ELSE "ended"
    /\ sending' = NoEvent
    /\ UNCHANGED <<attached, udev, returned, moves>>

Thread == listen \/ CheckStop \/ NoUdevEvent \/ receive_event \/ blocking_send

Consumer == (Receive \/ DropReceiver) /\ UNCHANGED <<attached, udev, thread, returned, moves>>

(* The thread has ended and start_monitoring has returned.                 *)
Over == pc = "ended" /\ returned /\ UNCHANGED vars

Next == Attach \/ Detach \/ Thread \/ Return \/ Consumer \/ Over

Spec == Init /\ [][Next]_vars

(* The thread runs and start_monitoring returns; the consumer may neither  *)
(* receive nor drop the receiver.                                          *)
FairSpec == Spec /\ WF_vars(Thread) /\ WF_vars(Return)

-----------------------------------------------------------------------------
(* The ids of listed disks whose removal is reported under the same id: a  *)
(* disk known by its WWN is removed under its kernel name.                 *)
PairedIds ==
    {stable_id(n, d) : n \in Names, d \in {d \in Listed : Serial[d] # NoId \/ Wwn[d] = NoId}}

(* No disk with a serial number, or with neither that nor a WWN, is        *)
(* reported inserted while the consumer believes it present, whatever came *)
(* and went in between, under whichever name.                              *)
InsertedOnce ==
    /\ channel # <<>>
    /\ Head(channel).kind = "DeviceInserted" /\ Head(channel).id \in PairedIds
    => Head(channel).id \notin view

(* A monitor whose receiver is gone does not hold its thread for ever, not *)
(* even one that waits for room in the channel or for an event.            *)
DroppedEndsThread == ~rx_open ~> pc = "ended"
=============================================================================
