----------------------------- MODULE DeviceFeed -----------------------------
(***************************************************************************)
(* The channel between a USB monitor and the consumer of its events, as    *)
(* start_monitoring of crates/zfswatch-platform creates it: a tokio mpsc   *)
(* channel that holds Capacity events and makes senders wait when full.    *)
(* A disk is known by an id.  The consumer keeps the set of disks the      *)
(* events tell it are there, which is all it can know about them.          *)
(***************************************************************************)
EXTENDS Naturals, Sequences

CONSTANTS
    Ids,        \* the values of stable_id
    Capacity    \* bound of the channel (100 in the code)

ASSUME CapacityAssumption == Capacity \in Nat \ {0}

VARIABLES
    channel,    \* the events on their way
    rx_open,    \* the receiver has not been dropped
    view        \* the ids the consumer believes present

feed == <<channel, rx_open, view>>

UsbEvent == [kind : {"DeviceInserted", "DeviceRemoved"}, id : Ids]
DeviceInserted(i) == [kind |-> "DeviceInserted", id |-> i]
DeviceRemoved(i) == [kind |-> "DeviceRemoved", id |-> i]

FeedInit == channel = <<>> /\ rx_open = TRUE /\ view = {}

FeedTypeOK ==
    /\ channel \in Seq(UsbEvent) /\ Len(channel) <= Capacity
    /\ rx_open \in BOOLEAN
    /\ view \subseteq Ids

(* send().await ends: there is room, or it fails for want of a receiver.   *)
CanSend == rx_open => Len(channel) < Capacity

(* Faulty variant: the channel has no bound.                               *)
Send_unbounded(e) ==
    /\ channel' = IF rx_open THEN Append(channel, e) ELSE channel
    /\ UNCHANGED <<rx_open, view>>

Send(e) ==
    /\ CanSend
    /\ channel' = IF rx_open THEN Append(channel, e) ELSE channel
    /\ UNCHANGED <<rx_open, view>>

(* What the consumer believes after event e.                               *)
After(v, e) == IF e.kind = "DeviceInserted" THEN v \cup {e.id} ELSE v \ {e.id}

Receive ==
    /\ rx_open /\ channel # <<>>
    /\ view' = After(view, Head(channel))
    /\ channel' = Tail(channel)
    /\ UNCHANGED rx_open

DropReceiver ==
    /\ rx_open
    /\ rx_open' = FALSE /\ channel' = <<>>
    /\ UNCHANGED view
=============================================================================
