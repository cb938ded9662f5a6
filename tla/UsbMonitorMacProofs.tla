------------------------- MODULE UsbMonitorMacProofs -------------------------
(***************************************************************************)
(* What the macOS monitor tells its consumer, for any disks, names and     *)
(* capacity of the channel.  The events under way lead, each as news, from *)
(* what the consumer believes to what the task has told it so far          *)
(* (ChainOK).                                                              *)
(***************************************************************************)
EXTENDS UsbMonitorMac, TLAPS

(* From belief v, the events of q lead to t, and each of them is news.     *)
Chain(q, v, t) ==
    \E V \in [0 .. Len(q) -> SUBSET Ids] :
        /\ V[0] = v /\ V[Len(q)] = t
        /\ \A k \in 1 .. Len(q) :
            /\ V[k] = After(V[k - 1], q[k])
            /\ q[k].kind = "DeviceInserted" <=> q[k].id \notin V[k - 1]

(* The disks the task has told its channel of, and not told to be gone.    *)
Told ==
    IF pc = "report"
    THEN (known_devices \cup (Shown(scanned) \ inserted))
            \ ((known_devices \ Shown(scanned)) \ removed)
    ELSE known_devices

ChainOK == IF rx_open THEN Chain(channel, view, Told) ELSE channel = <<>>

(* What is still to be reported is what this poll saw change.              *)
PollOK ==
    /\ inserted \subseteq Shown(scanned) \ known_devices
    /\ removed \subseteq known_devices \ Shown(scanned)

(* A disk that was seen is still there, or was detached since.             *)
SeenOK ==
    exit_failures = 0 =>
        /\ known_devices \subseteq Shown(attached) \cup detached
        /\ pc = "report" =>
            /\ Shown(scanned) \subseteq Shown(attached) \cup detached
            /\ removed \subseteq detached

MacOK == TypeOK /\ PollOK /\ ChainOK /\ SeenOK

-----------------------------------------------------------------------------
(* The channel.                                                            *)

LEMMA EmptyChain == \A v \in SUBSET Ids : Chain(<<>>, v, v)
<1> SUFFICES ASSUME NEW v \in SUBSET Ids PROVE Chain(<<>>, v, v)
  OBVIOUS
<1> DEFINE V == [k \in 0 .. 0 |-> v]
<1>1. Len(<<>>) = 0 /\ V \in [0 .. 0 -> SUBSET Ids] /\ V[0] = v
  OBVIOUS
<1> HIDE DEF V
<1>2. \A k \in 1 .. 0 : FALSE
  OBVIOUS
<1> QED BY <1>1, <1>2 DEF Chain

LEMMA ChainAppend ==
    ASSUME NEW q \in Seq(UsbEvent), NEW v, NEW t \in SUBSET Ids, Chain(q, v, t),
           NEW e \in UsbEvent, e.kind = "DeviceInserted" <=> e.id \notin t
    PROVE  Chain(Append(q, e), v, After(t, e))
<1> DEFINE n == Len(q)
           p == Append(q, e)
<1>1. PICK V \in [0 .. n -> SUBSET Ids] :
        /\ V[0] = v /\ V[n] = t
        /\ \A k \in 1 .. n :
            /\ V[k] = After(V[k - 1], q[k])
            /\ q[k].kind = "DeviceInserted" <=> q[k].id \notin V[k - 1]
  BY DEF Chain
<1> DEFINE W == [k \in 0 .. n + 1 |-> IF k = n + 1 THEN After(t, e) ELSE V[k]]
<1>2. n \in Nat /\ Len(p) = n + 1 /\ p[n + 1] = e /\ \A k \in 1 .. n : p[k] = q[k]
  OBVIOUS
<1>3. After(t, e) \in SUBSET Ids
  BY DEF After, UsbEvent
<1>4. W \in [0 .. n + 1 -> SUBSET Ids] /\ W[0] = v /\ W[n + 1] = After(t, e)
  BY <1>1, <1>2, <1>3
<1>5. ASSUME NEW k \in 1 .. n + 1
      PROVE  /\ W[k] = After(W[k - 1], p[k])
             /\ p[k].kind = "DeviceInserted" <=> p[k].id \notin W[k - 1]
  <2>1. CASE k = n + 1
    <3>1. k - 1 = n /\ W[n] = t
      BY <1>1, <1>2, <2>1
    <3> QED BY <1>2, <1>4, <2>1, <3>1
  <2>2. CASE k \in 1 .. n
    <3>1. W[k] = V[k] /\ W[k - 1] = V[k - 1]
      BY <1>2, <2>2
    <3> QED BY <1>1, <1>2, <2>2, <3>1
  <2> QED BY <1>2, <2>1, <2>2
<1> HIDE DEF W, p
<1>6. Chain(p, v, After(t, e))
  BY <1>2, <1>4, <1>5 DEF Chain
<1> QED BY <1>6 DEF p

LEMMA ChainTail ==
    ASSUME NEW q \in Seq(UsbEvent), q # <<>>, NEW v, NEW t, Chain(q, v, t)
    PROVE  /\ Chain(Tail(q), After(v, Head(q)), t)
           /\ Head(q).kind = "DeviceInserted" <=> Head(q).id \notin v
<1> DEFINE n == Len(q)
           p == Tail(q)
<1>1. PICK V \in [0 .. n -> SUBSET Ids] :
        /\ V[0] = v /\ V[n] = t
        /\ \A k \in 1 .. n :
            /\ V[k] = After(V[k - 1], q[k])
            /\ q[k].kind = "DeviceInserted" <=> q[k].id \notin V[k - 1]
  BY DEF Chain
<1> DEFINE W == [k \in 0 .. n - 1 |-> V[k + 1]]
<1>2. /\ n \in Nat /\ n >= 1 /\ Len(p) = n - 1 /\ Head(q) = q[1]
      /\ \A k \in 1 .. n - 1 : p[k] = q[k + 1]
  OBVIOUS
<1>3. /\ V[1] = After(V[0], q[1])
      /\ q[1].kind = "DeviceInserted" <=> q[1].id \notin V[0]
  BY <1>1, <1>2
<1>4. /\ W \in [0 .. n - 1 -> SUBSET Ids]
      /\ W[0] = After(v, Head(q)) /\ W[n - 1] = t
  BY <1>1, <1>2, <1>3
<1>5. ASSUME NEW k \in 1 .. n - 1
      PROVE  /\ W[k] = After(W[k - 1], p[k])
             /\ p[k].kind = "DeviceInserted" <=> p[k].id \notin W[k - 1]
  <2>1. k + 1 \in 1 .. n /\ (k + 1) - 1 = k /\ W[k] = V[k + 1] /\ W[k - 1] = V[k]
    BY <1>2
  <2> QED BY <1>1, <1>2, <2>1
<1> HIDE DEF W, p
<1>6. Chain(p, After(v, Head(q)), t)
  BY <1>2, <1>4, <1>5 DEF Chain
<1> QED BY <1>1, <1>2, <1>3, <1>6 DEF p
-----------------------------------------------------------------------------
(* The steps.                                                              *)

LEMMA EventFacts ==
    \A i \in Ids :
        /\ DeviceInserted(i) \in UsbEvent /\ DeviceInserted(i).kind = "DeviceInserted"
        /\ DeviceInserted(i).id = i
        /\ DeviceRemoved(i) \in UsbEvent /\ DeviceRemoved(i).kind # "DeviceInserted"
        /\ DeviceRemoved(i).id = i
        /\ \A v : /\ After(v, DeviceInserted(i)) = v \cup {i}
                 /\ After(v, DeviceRemoved(i)) = v \ {i}
BY DEF DeviceInserted, DeviceRemoved, UsbEvent, After

LEMMA ToldType == TypeOK => Told \in SUBSET Ids
BY DEF TypeOK, Told, Shown

(* Sending an event that is news to whoever was told what was told so far. *)
LEMMA SendOK ==
    ASSUME MacOK, NEW e \in UsbEvent, Send(e),
           e.kind = "DeviceInserted" <=> e.id \notin Told, Told' = After(Told, e)
    PROVE  FeedTypeOK' /\ ChainOK'
<1>1. FeedTypeOK /\ Capacity \in Nat
  BY CapacityAssumption DEF MacOK, TypeOK
<1>2. FeedTypeOK'
  BY <1>1 DEF Send, CanSend, FeedTypeOK
<1>3. ChainOK'
  BY <1>1, ChainAppend, ToldType DEF MacOK, ChainOK, Send, FeedTypeOK
<1> QED BY <1>2, <1>3

LEMMA ConsumerOK == MacOK /\ Consumer => MacOK'
<1> SUFFICES ASSUME MacOK, Consumer PROVE MacOK'
  OBVIOUS
<1>1. UNCHANGED <<machine, task, spawn_errors, exit_failures, detached>>
  BY DEF Consumer
<1>2. FeedTypeOK
  BY DEF MacOK, TypeOK
<1>3. CASE Receive
  <2>1. /\ channel \in Seq(UsbEvent) /\ channel # <<>> /\ channel' = Tail(channel)
        /\ view' = After(view, Head(channel)) /\ rx_open /\ rx_open' = rx_open
    BY <1>2, <1>3 DEF Receive, FeedTypeOK
  <2>2. Tail(channel) \in Seq(UsbEvent) /\ Len(Tail(channel)) <= Len(channel)
        /\ Head(channel) \in UsbEvent /\ Len(channel) \in Nat /\ Len(Tail(channel)) \in Nat
    BY <2>1
  <2>3. FeedTypeOK'
    BY <1>2, <2>1, <2>2, CapacityAssumption DEF FeedTypeOK, After, UsbEvent
  <2>4. ChainOK'
    BY <1>1, <2>1, ChainTail DEF MacOK, ChainOK, Told, task, Shown
  <2> QED BY <1>1, <2>3, <2>4 DEF MacOK, TypeOK, PollOK, SeenOK, machine, task, Shown
<1>4. CASE DropReceiver
  <2>1. channel' = <<>> /\ rx_open' = FALSE /\ view' = view /\ Len(<<>>) = 0 /\ <<>> \in Seq(UsbEvent)
    BY <1>4 DEF DropReceiver
  <2>2. FeedTypeOK'
    <3>1. channel' \in Seq(UsbEvent)
      BY <2>1
    <3>2. Len(channel') <= Capacity
      BY <2>1, CapacityAssumption
    <3>3. view' \subseteq Ids /\ rx_open' \in BOOLEAN
      BY <1>2, <2>1 DEF FeedTypeOK
    <3> QED BY <3>1, <3>2, <3>3 DEF FeedTypeOK
  <2>3. ChainOK'
    BY <2>1 DEF ChainOK
  <2> QED BY <1>1, <2>2, <2>3 DEF MacOK, TypeOK, PollOK, SeenOK, machine, task, Shown
<1> QED BY <1>3, <1>4 DEF Consumer

LEMMA MachineOK == MacOK /\ (Attach \/ Detach) => MacOK'
<1> SUFFICES ASSUME MacOK, Attach \/ Detach PROVE MacOK'
  OBVIOUS
<1>1. /\ UNCHANGED <<feed, task, spawn_errors, exit_failures>> /\ moves' \in Nat
      /\ attached' \in [Ids -> Disks \cup {NoDisk}] /\ detached' \subseteq Ids
      /\ detached \subseteq detached'
      /\ Shown(attached) \cup detached \subseteq Shown(attached)' \cup detached'
  <2>1. CASE Attach
    BY <2>1, MacAssumption DEF Attach, MacOK, TypeOK, Shown
  <2>2. CASE Detach
    BY <2>2 DEF Detach, MacOK, TypeOK, Shown
  <2> QED BY <2>1, <2>2
<1> QED BY <1>1 DEF MacOK, TypeOK, FeedTypeOK, PollOK, ChainOK, SeenOK, Told, feed, task, Shown

(* A poll: what it found will be told.                                     *)
LEMMA ShowOK ==
    ASSUME MacOK, pc # "report", NEW s \in [Ids -> Disks \cup {NoDisk}], Show(s),
           UNCHANGED <<feed, machine, spawn_errors>>, exit_failures' \in Nat,
           exit_failures' = 0 => exit_failures = 0 /\ s = attached
    PROVE  MacOK'
<1>1. /\ pc' = "report" /\ known_devices' = known_devices /\ scanned' = s
      /\ inserted' = Shown(s) \ known_devices /\ removed' = known_devices \ Shown(s)
      /\ detached' = detached \ Shown(s)
  BY DEF Show
<1>2. TypeOK' /\ PollOK'
  BY <1>1 DEF MacOK, TypeOK, FeedTypeOK, PollOK, Shown, feed, machine
<1>3. Told' = Told
  <2>1. (known_devices \cup (Shown(s) \ inserted')) \ ((known_devices \ Shown(s)) \ removed')
            = known_devices
    BY <1>1
  <2> QED BY <1>1, <2>1 DEF Told, Shown
<1>4. ChainOK'
  BY <1>3 DEF MacOK, ChainOK, feed
<1>5. SeenOK'
  BY <1>1 DEF MacOK, SeenOK, Shown, machine
<1> QED BY <1>2, <1>4, <1>5 DEF MacOK

LEMMA TaskOK == MacOK /\ Task => MacOK'
<1> SUFFICES ASSUME MacOK, Task PROVE MacOK'
  OBVIOUS
<1>t. TypeOK /\ PollOK /\ ChainOK /\ SeenOK
  BY DEF MacOK
<1>1. CASE Scan
  BY <1>t, <1>1, ShowOK DEF Scan, TypeOK
<1>2. CASE ScanExitFails
  <2>1. NoDisks \in [Ids -> Disks \cup {NoDisk}] /\ exit_failures' \in Nat /\ exit_failures' # 0
    BY <1>t, <1>2 DEF ScanExitFails, NoDisks, TypeOK
  <2> QED BY <1>2, <2>1, ShowOK DEF ScanExitFails
<1>3. CASE ScanSpawnFails \/ Wake
  <2>1. /\ UNCHANGED <<feed, machine, known_devices, scanned, inserted, removed, exit_failures,
                       detached>>
        /\ pc # "report" /\ pc' \in {"poll", "sleep"} /\ spawn_errors' \in Nat
    BY <1>t, <1>3 DEF ScanSpawnFails, Wake, TypeOK
  <2> QED BY <1>t, <2>1 DEF MacOK, TypeOK, FeedTypeOK, PollOK, ChainOK, SeenOK, Told, feed, machine, Shown
<1>4. CASE ReportInserted
  <2>1. PICK i \in inserted : Send(DeviceInserted(i)) /\ inserted' = inserted \ {i}
    BY <1>4 DEF ReportInserted
  <2>2. /\ UNCHANGED <<machine, pc, known_devices, scanned, removed, spawn_errors, exit_failures,
                       detached>>
        /\ pc = "report" /\ i \in Ids /\ i \in Shown(scanned) \ known_devices
    BY <1>t, <1>4, <2>1 DEF ReportInserted, TypeOK, PollOK
  <2>3. i \notin Told /\ Told' = Told \cup {i}
    BY <2>1, <2>2 DEF Told, Shown
  <2>4. FeedTypeOK' /\ ChainOK'
    BY <2>1, <2>2, <2>3, EventFacts, SendOK
  <2> QED BY <1>t, <2>1, <2>2, <2>4 DEF MacOK, TypeOK, PollOK, SeenOK, machine, Shown
<1>5. CASE ReportRemoved
  <2>1. PICK i \in removed : Send(DeviceRemoved(i)) /\ removed' = removed \ {i}
    BY <1>5 DEF ReportRemoved
  <2>2. /\ UNCHANGED <<machine, pc, known_devices, scanned, inserted, spawn_errors, exit_failures,
                       detached>>
        /\ pc = "report" /\ i \in Ids /\ i \in known_devices \ Shown(scanned)
    BY <1>t, <1>5, <2>1 DEF ReportRemoved, TypeOK, PollOK
  <2>3. i \in Told /\ Told' = Told \ {i}
    BY <2>1, <2>2 DEF Told, Shown
  <2>4. FeedTypeOK' /\ ChainOK'
    BY <2>1, <2>2, <2>3, EventFacts, SendOK
  <2> QED BY <1>t, <2>1, <2>2, <2>4 DEF MacOK, TypeOK, PollOK, SeenOK, machine, Shown
<1>6. CASE Reported
  <2>1. /\ pc = "report" /\ inserted = {} /\ removed = {} /\ pc' = "sleep"
        /\ known_devices' = Shown(scanned) /\ Shown(scanned) \subseteq Ids
        /\ UNCHANGED <<feed, machine, scanned, inserted, removed, spawn_errors, exit_failures,
                       detached>>
    BY <1>6 DEF Reported, Shown
  <2>2. Told' = Told
    BY <2>1 DEF Told, Shown
  <2>3. ChainOK'
    BY <1>t, <2>1, <2>2 DEF ChainOK, feed
  <2> QED BY <1>t, <2>1, <2>3 DEF MacOK, TypeOK, FeedTypeOK, PollOK, SeenOK, feed, machine, Shown
<1> QED BY <1>1, <1>2, <1>3, <1>4, <1>5, <1>6 DEF Task, Poll

LEMMA MacNext == MacOK /\ [Next]_vars => MacOK'
<1>1. MacOK /\ UNCHANGED vars => MacOK'
  BY DEF vars, machine, task, feed, MacOK, TypeOK, FeedTypeOK, PollOK, ChainOK, SeenOK, Told, Shown
<1> QED BY <1>1, ConsumerOK, MachineOK, TaskOK DEF Next

LEMMA MacInit == Init => MacOK
<1> SUFFICES ASSUME Init PROVE MacOK
  OBVIOUS
<1>1. TypeOK
  BY CapacityAssumption DEF Init, FeedInit, TypeOK, FeedTypeOK, NoDisks
<1>2. Told = {}
  BY DEF Init, Told
<1> QED BY <1>1, <1>2, EmptyChain DEF Init, FeedInit, MacOK, PollOK, ChainOK, SeenOK

(* MacOK holds in every reachable state.                                   *)
THEOREM MacCorrect == Spec => []MacOK
BY MacInit, MacNext, PTL DEF Spec

(* The variables keep their types.                                         *)
THEOREM MacTypeCorrect == Spec => []TypeOK
<1>1. MacOK => TypeOK
  BY DEF MacOK
<1> QED BY <1>1, MacCorrect, PTL

(* Each event is news to the consumer, whatever interleaves.               *)
THEOREM EventsNews == Spec => []EventsAreNews
<1>1. MacOK => EventsAreNews
  <2> SUFFICES ASSUME MacOK, channel # <<>>
               PROVE  Head(channel).kind = "DeviceInserted" <=> Head(channel).id \notin view
    BY DEF EventsAreNews
  <2>1. channel \in Seq(UsbEvent) /\ Chain(channel, view, Told)
    BY DEF MacOK, TypeOK, FeedTypeOK, ChainOK
  <2> QED BY <2>1, ChainTail
<1> QED BY <1>1, MacCorrect, PTL

(* As long as diskutil succeeds, only detached disks are reported removed. *)
THEOREM RemovedDetached == Spec => []RemovedWasDetached
<1>1. MacOK => RemovedWasDetached
  BY DEF MacOK, SeenOK, RemovedWasDetached
<1> QED BY <1>1, MacCorrect, PTL

(* Nothing is lost on the way: a consumer that has received all there is   *)
(* knows the disks of the last poll that could list them, and as long as   *)
(* diskutil succeeds each of these is attached, or was detached since.     *)
CaughtUp ==
    rx_open /\ channel = <<>> /\ pc # "report" =>
        /\ view = known_devices
        /\ exit_failures = 0 => view \subseteq Shown(attached) \cup detached

(* A consumer of the macOS monitor that has caught up knows what the task  *)
(* knows, however its receiving, polls and a full channel interleave.      *)
THEOREM ConsumerCatchesUp == Spec => []CaughtUp
<1>1. MacOK => CaughtUp
  <2> SUFFICES ASSUME MacOK, rx_open, channel = <<>>, pc # "report"
               PROVE  /\ view = known_devices
                      /\ exit_failures = 0 => view \subseteq Shown(attached) \cup detached
    BY DEF CaughtUp
  <2>1. Chain(<<>>, view, known_devices)
    BY DEF MacOK, ChainOK, Told
  <2>2. view = known_devices
    BY <2>1 DEF Chain
  <2> QED BY <2>2 DEF MacOK, SeenOK
<1> QED BY <1>1, MacCorrect, PTL
=============================================================================
