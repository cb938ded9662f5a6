------------------------ MODULE UsbMonitorLinuxProofs ------------------------
(***************************************************************************)
(* What the Linux monitor tells its consumer, for any disks, names and     *)
(* capacity of the channel.  The events in the channel, the one in         *)
(* blocking_send and those udev has queued lead, one after the other, from *)
(* what the consumer believes to what is attached (Linked); on the way no  *)
(* disk whose removal is reported under its own id is inserted twice.      *)
(***************************************************************************)
EXTENDS UsbMonitorLinux, SequenceTheorems, TLAPS

Step == UsbEvent \cup {NoEvent}

(* e does not insert a paired id that v already has.                       *)
News(e, v) == e.kind = "DeviceInserted" /\ e.id \in PairedIds => e.id \notin v

(* From belief v, the events of q lead to t, and each of them is news.     *)
Chain(q, v, t) ==
    \E V \in [0 .. Len(q) -> SUBSET Ids] :
        /\ V[0] = v /\ V[Len(q)] = t
        /\ \A k \in 1 .. Len(q) : V[k] = After(V[k - 1], q[k]) /\ News(q[k], V[k - 1])

(* What the thread makes of an udev event.                                 *)
EventOf(e) ==
    IF e.action = "remove" THEN DeviceRemoved(removed_id(e.name, e.disk))
    ELSE IF e.disk \in Listed THEN DeviceInserted(stable_id(e.name, e.disk)) ELSE NoEvent

Events(q) == [k \in 1 .. Len(q) |-> EventOf(q[k])]

(* The ids of the disks attached.                                          *)
Present(a) == {stable_id(n, a[n]) : n \in {n \in Names : a[n] # NoDisk}}

(* From belief v, once what udev has queued in q is told, no paired id is  *)
(* left that is not attached in a.                                         *)
Settles(q, v, a) ==
    \E t \in SUBSET Ids : Chain(Events(q), v, t) /\ t \cap PairedIds \subseteq Present(a)

Linked ==
    \E v \in SUBSET Ids :
        /\ Chain(channel, view, v)
        /\ pc # "ended" => News(sending, v) /\ Settles(udev, After(v, sending), attached)

LinuxOK ==
    /\ TypeOK
    /\ pc = "listen" => channel = <<>> /\ view = {} /\ udev = <<>>
    /\ IF rx_open THEN Linked ELSE channel = <<>>

-----------------------------------------------------------------------------
(* Chains of events.                                                       *)

LEMMA EmptyChain == \A v \in SUBSET Ids : Chain(<<>>, v, v)
<1> SUFFICES ASSUME NEW v \in SUBSET Ids PROVE Chain(<<>>, v, v)
  OBVIOUS
<1> DEFINE V == [k \in 0 .. 0 |-> v]
<1>1. Len(<<>>) = 0 /\ V \in [0 .. 0 -> SUBSET Ids] /\ V[0] = v
  OBVIOUS
<1> HIDE DEF V
<1>2. \A k \in 1 .. 0 : FALSE
  OBVIOUS
<1> QED BY <1>1, <1>2 DEF Chain

LEMMA AfterType == \A v \in SUBSET Ids, e \in Step : After(v, e) \in SUBSET Ids
BY LinuxAssumption DEF After, Step, UsbEvent, NoEvent

LEMMA ChainAppend ==
    ASSUME NEW q \in Seq(Step), NEW v, NEW t \in SUBSET Ids, Chain(q, v, t),
           NEW e \in Step, News(e, t)
    PROVE  Chain(Append(q, e), v, After(t, e))
<1> DEFINE n == Len(q)
           p == Append(q, e)
<1>1. PICK V \in [0 .. n -> SUBSET Ids] :
        /\ V[0] = v /\ V[n] = t
        /\ \A k \in 1 .. n : V[k] = After(V[k - 1], q[k]) /\ News(q[k], V[k - 1])
  BY DEF Chain
<1> DEFINE W == [k \in 0 .. n + 1 |-> IF k = n + 1 THEN After(t, e) ELSE V[k]]
<1>2. n \in Nat /\ Len(p) = n + 1 /\ p[n + 1] = e /\ \A k \in 1 .. n : p[k] = q[k]
  OBVIOUS
<1>3. After(t, e) \in SUBSET Ids
  BY AfterType
<1>4. W \in [0 .. n + 1 -> SUBSET Ids] /\ W[0] = v /\ W[n + 1] = After(t, e)
  BY <1>1, <1>2, <1>3
<1>5. ASSUME NEW k \in 1 .. n + 1
      PROVE  W[k] = After(W[k - 1], p[k]) /\ News(p[k], W[k - 1])
  <2>1. CASE k = n + 1
    <3>1. k - 1 = n /\ W[n] = t
      BY <1>1, <1>2, <2>1
    <3> QED BY <1>2, <1>4, <2>1, <3>1
  <2>2. CASE k \in 1 .. n
    <3>1. W[k] = V[k] /\ W[k - 1] = V[k - 1]
      BY <1>2, <2>2
    <3> QED BY <1>1, <1>2, <2>2, <3>1
  <2> QED BY <1>2, <2>1, <2>2
<1> HIDE DEF W, p
<1>6. Chain(p, v, After(t, e))
  BY <1>2, <1>4, <1>5 DEF Chain
<1> QED BY <1>6 DEF p

LEMMA ChainTail ==
    ASSUME NEW q \in Seq(Step), q # <<>>, NEW v, NEW t, Chain(q, v, t)
    PROVE  Chain(Tail(q), After(v, Head(q)), t) /\ News(Head(q), v)
<1> DEFINE n == Len(q)
           p == Tail(q)
<1>1. PICK V \in [0 .. n -> SUBSET Ids] :
        /\ V[0] = v /\ V[n] = t
        /\ \A k \in 1 .. n : V[k] = After(V[k - 1], q[k]) /\ News(q[k], V[k - 1])
  BY DEF Chain
<1> DEFINE W == [k \in 0 .. n - 1 |-> V[k + 1]]
<1>2. /\ n \in Nat /\ n >= 1 /\ Len(p) = n - 1 /\ Head(q) = q[1]
      /\ \A k \in 1 .. n - 1 : p[k] = q[k + 1]
  OBVIOUS
<1>3. V[1] = After(V[0], q[1]) /\ News(q[1], V[0])
  BY <1>1, <1>2
<1>4. /\ W \in [0 .. n - 1 -> SUBSET Ids]
      /\ W[0] = After(v, Head(q)) /\ W[n - 1] = t
  BY <1>1, <1>2, <1>3
<1>5. ASSUME NEW k \in 1 .. n - 1
      PROVE  W[k] = After(W[k - 1], p[k]) /\ News(p[k], W[k - 1])
  <2>1. k + 1 \in 1 .. n /\ (k + 1) - 1 = k /\ W[k] = V[k + 1] /\ W[k - 1] = V[k]
    BY <1>2
  <2> QED BY <1>1, <1>2, <2>1
<1> HIDE DEF W, p
<1>6. Chain(p, After(v, Head(q)), t)
  BY <1>2, <1>4, <1>5 DEF Chain
<1> QED BY <1>1, <1>2, <1>3, <1>6 DEF p

-----------------------------------------------------------------------------
(* Ids, and the events that carry them.                                    *)

LEMMA IdFacts ==
    ASSUME NEW n \in Names, NEW d \in Disks
    PROVE  /\ stable_id(n, d) \in Ids /\ removed_id(n, d) \in Ids
           /\ stable_id(n, d) \in Names =>
                stable_id(n, d) = n /\ Serial[d] = NoId /\ Wwn[d] = NoId
           /\ stable_id(n, d) \notin Names => stable_id(n, d) \in {Serial[d], Wwn[d]} \ {NoId}
BY LinuxAssumption DEF stable_id, removed_id

(* Two disks of one id are one disk, or were seen under one name.          *)
LEMMA SameId ==
    ASSUME NEW n \in Names, NEW m \in Names, NEW d \in Disks, NEW e \in Disks,
           stable_id(n, d) = stable_id(m, e)
    PROVE  d = e \/ (n = m /\ stable_id(n, d) = n)
<1>1. CASE stable_id(n, d) \in Names
  BY <1>1, IdFacts
<1>2. CASE stable_id(n, d) \notin Names
  <2>1. stable_id(n, d) \in ({Serial[d], Wwn[d]} \cap {Serial[e], Wwn[e]}) \ {NoId}
    BY <1>2, IdFacts
  <2> QED BY <2>1, IdsAssumption
<1> QED BY <1>1, <1>2

(* The removal of a disk of a paired id is reported under that id.         *)
LEMMA PairedRemoved ==
    ASSUME NEW n \in Names, NEW d \in Disks, stable_id(n, d) \in PairedIds
    PROVE  removed_id(n, d) = stable_id(n, d)
<1>1. PICK m \in Names, e \in Listed :
        stable_id(n, d) = stable_id(m, e) /\ (Serial[e] # NoId \/ Wwn[e] = NoId)
  BY DEF PairedIds
<1>2. e \in Disks
  BY LinuxAssumption
<1>3. d = e \/ stable_id(n, d) = n
  BY <1>1, <1>2, SameId
<1>4. CASE d = e
  BY <1>1, <1>4 DEF stable_id, removed_id
<1>5. CASE stable_id(n, d) = n
  <2>1. Serial[d] = NoId
    BY <1>5, IdFacts
  <2> QED BY <1>5, <2>1 DEF removed_id
<1> QED BY <1>3, <1>4, <1>5

LEMMA EventFacts ==
    \A i \in Ids :
        /\ DeviceInserted(i) \in UsbEvent /\ DeviceInserted(i).kind = "DeviceInserted"
        /\ DeviceInserted(i).id = i
        /\ DeviceRemoved(i) \in UsbEvent /\ DeviceRemoved(i).kind # "DeviceInserted"
        /\ DeviceRemoved(i).id = i
        /\ \A v : /\ After(v, DeviceInserted(i)) = v \cup {i}
                 /\ After(v, DeviceRemoved(i)) = v \ {i}
BY DEF DeviceInserted, DeviceRemoved, UsbEvent, After

LEMMA NoEventFacts ==
    NoEvent \in Step /\ \A v \in SUBSET Ids : After(v, NoEvent) = v /\ News(NoEvent, v)
BY LinuxAssumption DEF NoEvent, Step, After, News

LEMMA EventType == \A e \in UdevEvent : EventOf(e) \in Step
<1> SUFFICES ASSUME NEW e \in UdevEvent PROVE EventOf(e) \in Step
  OBVIOUS
<1>1. e.name \in Names /\ e.disk \in Disks
  BY DEF UdevEvent
<1> QED BY <1>1, IdFacts, EventFacts, NoEventFacts DEF EventOf, Step

LEMMA EventsType == \A q \in Seq(UdevEvent) : Events(q) \in Seq(Step) /\ Len(Events(q)) = Len(q)
<1> SUFFICES ASSUME NEW q \in Seq(UdevEvent)
             PROVE  Events(q) \in Seq(Step) /\ Len(Events(q)) = Len(q)
  OBVIOUS
<1>1. Len(q) \in Nat /\ \A k \in 1 .. Len(q) : EventOf(q[k]) \in Step
  BY EventType
<1>2. Events(q) \in [1 .. Len(q) -> Step]
  BY <1>1 DEF Events
<1> QED BY <1>1, <1>2, IsASeq, LenProperties DEF Events

LEMMA EventsAppend ==
    ASSUME NEW q \in Seq(UdevEvent), NEW e \in UdevEvent
    PROVE  Events(Append(q, e)) = Append(Events(q), EventOf(e))
<1> DEFINE s == Events(Append(q, e))
           t == Append(Events(q), EventOf(e))
<1>1. Append(q, e) \in Seq(UdevEvent) /\ Len(Append(q, e)) = Len(q) + 1 /\ Len(q) \in Nat
  OBVIOUS
<1>2. s \in Seq(Step) /\ Len(s) = Len(q) + 1
  BY <1>1, EventsType
<1>3. t \in Seq(Step) /\ Len(t) = Len(q) + 1
  BY EventsType, EventType
<1>4. \A k \in 1 .. Len(q) + 1 : s[k] = EventOf(Append(q, e)[k])
  BY <1>1 DEF Events
<1>5. Append(q, e)[Len(q) + 1] = e /\ t[Len(q) + 1] = EventOf(e)
  BY <1>1, EventsType, EventType
<1>6. ASSUME NEW k \in 1 .. Len(q) PROVE Append(q, e)[k] = q[k] /\ t[k] = EventOf(q[k])
  <2>1. Events(q)[k] = EventOf(q[k])
    BY DEF Events
  <2>2. Events(q) \in Seq(Step) /\ Len(Events(q)) = Len(q)
    BY EventsType
  <2>3. t[k] = Events(q)[k]
    BY <2>2
  <2> QED BY <2>1, <2>3
<1> HIDE DEF s, t
<1>7. \A k \in 1 .. Len(q) + 1 : k = Len(q) + 1 \/ k \in 1 .. Len(q)
  BY <1>1
<1>8. \A k \in 1 .. Len(q) + 1 : s[k] = t[k]
  BY <1>4, <1>5, <1>6, <1>7
<1>9. s = t
  BY <1>1, <1>2, <1>3, <1>8, SeqEqual
<1> QED BY <1>9 DEF s, t

LEMMA EventsTail ==
    ASSUME NEW q \in Seq(UdevEvent), q # <<>>
    PROVE  /\ Events(Tail(q)) = Tail(Events(q)) /\ Events(q) # <<>>
           /\ Head(Events(q)) = EventOf(Head(q))
<1> DEFINE s == Events(Tail(q))
           t == Tail(Events(q))
<1>1. /\ Tail(q) \in Seq(UdevEvent) /\ Len(Tail(q)) = Len(q) - 1 /\ Len(q) \in Nat /\ Len(q) >= 1
      /\ Head(q) = q[1]
  OBVIOUS
<1>2. Events(q) \in Seq(Step) /\ Len(Events(q)) = Len(q) /\ Events(q) # <<>>
  BY <1>1, EventsType
<1>3. s \in Seq(Step) /\ Len(s) = Len(q) - 1
  BY <1>1, EventsType
<1>4. t \in Seq(Step) /\ Len(t) = Len(q) - 1
  BY <1>2
<1>5. ASSUME NEW k \in 1 .. Len(q) - 1 PROVE s[k] = t[k]
  <2>1. s[k] = EventOf(Tail(q)[k]) /\ Tail(q)[k] = q[k + 1]
    BY <1>1 DEF Events
  <2>2. t[k] = Events(q)[k + 1]
    BY <1>1, <1>2
  <2>3. Events(q)[k + 1] = EventOf(q[k + 1])
    BY <1>1 DEF Events
  <2> QED BY <2>1, <2>2, <2>3
<1>6. Head(Events(q)) = Events(q)[1] /\ Events(q)[1] = EventOf(q[1])
  BY <1>1, <1>2 DEF Events
<1> HIDE DEF s, t
<1>7. s = t
  BY <1>1, <1>3, <1>4, <1>5, SeqEqual
<1> QED BY <1>1, <1>2, <1>6, <1>7 DEF s, t

-----------------------------------------------------------------------------
(* The steps.                                                              *)

(* A thread that does not listen yet has told nothing, and has nothing to  *)
(* tell.                                                                   *)
LEMMA NothingTold ==
    /\ Chain(<<>>, {}, {}) /\ News(NoEvent, {}) /\ After({}, NoEvent) = {}
    /\ \A a : Settles(<<>>, {}, a)
<1>1. Chain(<<>>, {}, {}) /\ <<>> \in Seq(UdevEvent) /\ Len(<<>>) = 0
  BY EmptyChain
<1>2. Events(<<>>) = <<>>
  <2>1. Events(<<>>) \in Seq(Step) /\ Len(Events(<<>>)) = 0
    BY <1>1, EventsType
  <2> QED BY <2>1
<1>3. \A a : Settles(<<>>, {}, a)
  BY <1>1, <1>2 DEF Settles
<1> QED BY <1>1, <1>3, NoEventFacts

LEMMA InitLinux == Init => LinuxOK
<1> SUFFICES ASSUME Init PROVE LinuxOK
  OBVIOUS
<1>1. /\ channel = <<>> /\ rx_open = TRUE /\ view = {} /\ udev = <<>> /\ pc = "listen"
      /\ sending = NoEvent /\ <<>> \in Seq(UdevEvent) /\ <<>> \in Seq(UsbEvent) /\ Len(<<>>) = 0
  BY DEF Init, FeedInit
<1>2. TypeOK
  <2>1. FeedTypeOK
    BY <1>1, CapacityAssumption DEF FeedTypeOK
  <2>2. udev \in Seq(UdevEvent)
    BY <1>1
  <2> QED BY <1>1, <2>1, <2>2 DEF Init, TypeOK
<1>3. Linked
  BY <1>1, NothingTold DEF Linked
<1> QED BY <1>1, <1>2, <1>3 DEF LinuxOK

(* An event queued by udev, from a belief that settles.                    *)
LEMMA EmitChain ==
    ASSUME NEW e \in UdevEvent, udev \in Seq(UdevEvent), udev' = Append(udev, e),
           NEW v, NEW t \in SUBSET Ids, Chain(Events(udev), v, t), News(EventOf(e), t)
    PROVE  Chain(Events(udev'), v, After(t, EventOf(e))) /\ After(t, EventOf(e)) \in SUBSET Ids
<1>1. EventOf(e) \in Step /\ Events(udev) \in Seq(Step)
  BY EventType, EventsType
<1>2. Events(udev') = Append(Events(udev), EventOf(e))
  BY EventsAppend
<1> QED BY <1>1, <1>2, ChainAppend, AfterType

LEMMA AttachSettles ==
    ASSUME TypeOK, NEW n \in Names \ Shown, NEW d \in Disks, \A m \in Names : attached[m] # d,
           attached' = [attached EXCEPT ![n] = d],
           udev' = Append(udev, [action |-> "add", name |-> n, disk |-> d]),
           NEW v, Settles(udev, v, attached)
    PROVE  Settles(udev', v, attached')
<1> DEFINE e == [action |-> "add", name |-> n, disk |-> d]
           i == stable_id(n, d)
<1>1. PICK t \in SUBSET Ids : Chain(Events(udev), v, t) /\ t \cap PairedIds \subseteq Present(attached)
  BY DEF Settles
<1>2. /\ e \in UdevEvent /\ e.action # "remove" /\ e.name = n /\ e.disk = d /\ i \in Ids
      /\ udev \in Seq(UdevEvent)
  BY IdFacts DEF UdevEvent, TypeOK
<1>3. i \notin Present(attached)
  <2> SUFFICES ASSUME NEW m \in Shown, i = stable_id(m, attached[m]) PROVE FALSE
    BY DEF Present, Shown
  <2>1. m \in Names /\ attached[m] \in Disks
    BY DEF Shown, TypeOK
  <2> QED BY <2>1, SameId
<1>4. Present(attached) \cup {i} \subseteq Present(attached')
  <2>1. n \in Shown' /\ attached'[n] = d
    BY LinuxAssumption DEF Shown, TypeOK
  <2>2. \A m \in Shown : m \in Shown' /\ attached'[m] = attached[m]
    BY DEF Shown, TypeOK
  <2> QED BY <2>1, <2>2 DEF Present, Shown
<1>5. EventOf(e) = IF d \in Listed THEN DeviceInserted(i) ELSE NoEvent
  BY <1>2 DEF EventOf
<1> HIDE DEF e, i
<1>6. News(EventOf(e), t) /\ After(t, EventOf(e)) \subseteq t \cup {i}
  <2>1. CASE d \in Listed
    BY <1>1, <1>2, <1>3, <1>5, <2>1, EventFacts DEF News
  <2>2. CASE d \notin Listed
    BY <1>5, <2>2, NoEventFacts
  <2> QED BY <2>1, <2>2
<1>7. udev' = Append(udev, e)
  BY DEF e
<1>8. Chain(Events(udev'), v, After(t, EventOf(e))) /\ After(t, EventOf(e)) \in SUBSET Ids
  BY <1>1, <1>2, <1>6, <1>7, EmitChain
<1>9. After(t, EventOf(e)) \cap PairedIds \subseteq Present(attached')
  BY <1>1, <1>4, <1>6
<1> QED BY <1>8, <1>9 DEF Settles

LEMMA DetachSettles ==
    ASSUME TypeOK, NEW n \in Shown, attached' = [attached EXCEPT ![n] = NoDisk],
           udev' = Append(udev, [action |-> "remove", name |-> n, disk |-> attached[n]]),
           NEW v, Settles(udev, v, attached)
    PROVE  Settles(udev', v, attached')
<1> DEFINE d == attached[n]
           e == [action |-> "remove", name |-> n, disk |-> d]
<1>1. PICK t \in SUBSET Ids : Chain(Events(udev), v, t) /\ t \cap PairedIds \subseteq Present(attached)
  BY DEF Settles
<1>2. n \in Names /\ d \in Disks
  BY DEF Shown, TypeOK
<1>3. /\ e \in UdevEvent /\ e.action = "remove" /\ e.name = n /\ e.disk = d
      /\ removed_id(n, d) \in Ids /\ udev \in Seq(UdevEvent)
  BY <1>2, IdFacts DEF UdevEvent, TypeOK
<1>4. Present(attached) \subseteq Present(attached') \cup {stable_id(n, d)}
  <2>1. \A m \in Shown : m # n => m \in Shown' /\ attached'[m] = attached[m]
    BY DEF Shown, TypeOK
  <2> QED BY <2>1 DEF Present, Shown
<1>5. EventOf(e) = DeviceRemoved(removed_id(n, d))
  BY <1>3 DEF EventOf
<1>6. stable_id(n, d) \in PairedIds => removed_id(n, d) = stable_id(n, d)
  BY <1>2, PairedRemoved
<1>7. udev' = Append(udev, e)
  OBVIOUS
<1> HIDE DEF d, e
<1>8. News(EventOf(e), t) /\ After(t, EventOf(e)) = t \ {removed_id(n, d)}
  BY <1>3, <1>5, EventFacts DEF News
<1>9. Chain(Events(udev'), v, After(t, EventOf(e))) /\ After(t, EventOf(e)) \in SUBSET Ids
  BY <1>1, <1>3, <1>7, <1>8, EmitChain
<1>10. After(t, EventOf(e)) \cap PairedIds \subseteq Present(attached')
  BY <1>1, <1>4, <1>6, <1>8
<1> QED BY <1>9, <1>10 DEF Settles

(* A disk comes or goes.                                                   *)
LEMMA MachineOK == LinuxOK /\ (Attach \/ Detach) => LinuxOK'
<1> SUFFICES ASSUME LinuxOK, Attach \/ Detach PROVE LinuxOK'
  OBVIOUS
<1>1. /\ channel' = channel /\ rx_open' = rx_open /\ view' = view /\ pc' = pc /\ sending' = sending
      /\ returned' = returned /\ moves' = moves + 1
  BY DEF Attach, Detach, feed, thread
<1>2. TypeOK /\ FeedTypeOK /\ udev \in Seq(UdevEvent)
  BY DEF LinuxOK, TypeOK
<1>3. /\ attached' \in [Names -> Disks \cup {NoDisk}] /\ udev' \in Seq(UdevEvent)
      /\ pc \in {"listen", "ended"} => udev' = udev
      /\ pc \notin {"listen", "ended"} 
           => \A v : Settles(udev, v, attached) => Settles(udev', v, attached')
  <2>1. CASE Attach
    <3>1. PICK n \in Names \ Shown, d \in Disks :
            /\ \A m \in Names : attached[m] # d
            /\ attached' = [attached EXCEPT ![n] = d] /\ Emit("add", n, d)
      BY <2>1 DEF Attach
    <3>2. [action |-> "add", name |-> n, disk |-> d] \in UdevEvent
      BY DEF UdevEvent
    <3>3. udev' \in Seq(UdevEvent)
      BY <1>2, <3>1, <3>2 DEF Emit
    <3>4. attached' \in [Names -> Disks \cup {NoDisk}]
      BY <1>2, <3>1 DEF TypeOK
    <3>5. ASSUME pc \notin {"listen", "ended"}, NEW v, Settles(udev, v, attached)
          PROVE  Settles(udev', v, attached')
      BY <1>2, <3>1, <3>5, AttachSettles DEF Emit
    <3> QED BY <3>1, <3>3, <3>4, <3>5 DEF Emit
  <2>2. CASE Detach
    <3>1. PICK n \in Shown :
            attached' = [attached EXCEPT ![n] = NoDisk] /\ Emit("remove", n, attached[n])
      BY <2>2 DEF Detach
    <3>2. [action |-> "remove", name |-> n, disk |-> attached[n]] \in UdevEvent
      BY <1>2 DEF UdevEvent, Shown, TypeOK
    <3>3. udev' \in Seq(UdevEvent)
      BY <1>2, <3>1, <3>2 DEF Emit
    <3>4. attached' \in [Names -> Disks \cup {NoDisk}]
      BY <1>2, <3>1 DEF TypeOK
    <3>5. ASSUME pc \notin {"listen", "ended"}, NEW v, Settles(udev, v, attached)
          PROVE  Settles(udev', v, attached')
      BY <1>2, <3>1, <3>5, DetachSettles DEF Emit
    <3> QED BY <3>1, <3>3, <3>4, <3>5 DEF Emit
  <2> QED BY <2>1, <2>2
<1>4. TypeOK'
  BY <1>1, <1>2, <1>3 DEF TypeOK, FeedTypeOK
<1>5. ASSUME rx_open PROVE Linked'
  <2>1. CASE pc = "listen"
    <3>1. channel = <<>> /\ view = {} /\ udev = <<>> /\ sending = NoEvent
      BY <1>2, <2>1 DEF LinuxOK, TypeOK
    <3> QED BY <1>1, <1>3, <2>1, <3>1, NothingTold DEF Linked
  <2>2. CASE pc # "listen"
    <3>1. PICK v \in SUBSET Ids :
            /\ Chain(channel, view, v)
            /\ pc # "ended" => News(sending, v) /\ Settles(udev, After(v, sending), attached)
      BY <1>5 DEF LinuxOK, Linked
    <3>2. Chain(channel', view', v)
      BY <1>1, <3>1
    <3>3. pc' # "ended" => News(sending', v) /\ Settles(udev', After(v, sending'), attached')
      BY <1>1, <1>3, <2>2, <3>1
    <3> QED BY <3>2, <3>3 DEF Linked
  <2> QED BY <2>1, <2>2
<1> QED BY <1>1, <1>3, <1>4, <1>5 DEF LinuxOK

LEMMA ConsumerOK == LinuxOK /\ Consumer => LinuxOK'
<1> SUFFICES ASSUME LinuxOK, Consumer PROVE LinuxOK'
  OBVIOUS
<1>1. UNCHANGED <<attached, udev, thread, returned, moves>> /\ pc' = pc /\ sending' = sending
  BY DEF Consumer, thread
<1>2. FeedTypeOK /\ TypeOK
  BY DEF LinuxOK, TypeOK
<1>3. CASE Receive
  <2>1. /\ channel \in Seq(UsbEvent) /\ channel # <<>> /\ channel' = Tail(channel)
        /\ view' = After(view, Head(channel)) /\ rx_open /\ rx_open' = rx_open
    BY <1>2, <1>3 DEF Receive, FeedTypeOK
  <2>2. Tail(channel) \in Seq(UsbEvent) /\ Len(Tail(channel)) <= Len(channel)
        /\ Head(channel) \in UsbEvent /\ Len(channel) \in Nat /\ Len(Tail(channel)) \in Nat
    BY <2>1
  <2>3. FeedTypeOK'
    BY <1>2, <2>1, <2>2, CapacityAssumption DEF FeedTypeOK, After, UsbEvent
  <2>4. Linked'
    <3>1. PICK v \in SUBSET Ids :
            /\ Chain(channel, view, v)
            /\ pc # "ended" => News(sending, v) /\ Settles(udev, After(v, sending), attached)
      BY <2>1 DEF LinuxOK, Linked
    <3>2. channel \in Seq(Step)
      BY <2>1 DEF Step
    <3>3. Chain(channel', view', v)
      BY <2>1, <3>1, <3>2, ChainTail
    <3> QED BY <1>1, <3>1, <3>3 DEF Linked
  <2> QED BY <1>1, <1>2, <2>1, <2>3, <2>4 DEF LinuxOK, TypeOK
<1>4. CASE DropReceiver
  <2>1. channel' = <<>> /\ rx_open' = FALSE /\ view' = view
    BY <1>4 DEF DropReceiver
  <2>2. FeedTypeOK'
    <3>1. channel' \in Seq(UsbEvent) /\ Len(channel') <= Capacity
      <4>1. <<>> \in Seq(UsbEvent) /\ Len(<<>>) = 0 /\ 0 <= Capacity
        BY CapacityAssumption
      <4> QED BY <2>1, <4>1
    <3>2. view' \subseteq Ids /\ rx_open' \in BOOLEAN
      BY <1>2, <2>1 DEF FeedTypeOK
    <3> QED BY <3>1, <3>2 DEF FeedTypeOK
  <2> QED BY <1>1, <1>2, <2>1, <2>2 DEF LinuxOK, TypeOK
<1> QED BY <1>3, <1>4 DEF Consumer

LEMMA SendOK == LinuxOK /\ blocking_send => LinuxOK'
<1> SUFFICES ASSUME LinuxOK, blocking_send PROVE LinuxOK'
  OBVIOUS
<1>1. /\ pc = "send" /\ CanSend /\ channel' = IF rx_open THEN Append(channel, sending) ELSE channel
      /\ rx_open' = rx_open /\ view' = view /\ pc' = IF rx_open THEN "check" ELSE "ended"
      /\ sending' = NoEvent /\ attached' = attached /\ udev' = udev /\ returned' = returned
      /\ moves' = moves
  BY DEF blocking_send, Send
<1>2. TypeOK /\ FeedTypeOK /\ sending \in UsbEvent
  BY <1>1 DEF LinuxOK, TypeOK
<1>3. channel \in Seq(UsbEvent) /\ Len(channel) \in Nat /\ Capacity \in Nat
  BY <1>2, CapacityAssumption DEF FeedTypeOK
<1>4. TypeOK'
  <2>1. FeedTypeOK'
    <3>1. CASE rx_open
      <4>1. Append(channel, sending) \in Seq(UsbEvent) /\ Len(Append(channel, sending)) = Len(channel) + 1
        BY <1>2, <1>3
      <4> QED BY <1>1, <1>2, <1>3, <3>1, <4>1 DEF FeedTypeOK, CanSend
    <3>2. CASE ~rx_open
      BY <1>1, <1>2, <3>2 DEF FeedTypeOK
    <3> QED BY <3>1, <3>2
  <2> QED BY <1>1, <1>2, <2>1 DEF TypeOK
<1>5. ASSUME rx_open PROVE Linked'
  <2>1. PICK v \in SUBSET Ids :
          Chain(channel, view, v) /\ News(sending, v) /\ Settles(udev, After(v, sending), attached)
    BY <1>1, <1>5 DEF LinuxOK, Linked
  <2>2. channel \in Seq(Step) /\ sending \in Step
    BY <1>2, <1>3 DEF Step
  <2> DEFINE w == After(v, sending)
  <2>3. w \in SUBSET Ids /\ Chain(channel', view', w)
    BY <1>1, <1>5, <2>1, <2>2, ChainAppend, AfterType
  <2>4. News(sending', w) /\ After(w, sending') = w
    BY <1>1, <2>3, NoEventFacts
  <2>5. Settles(udev', w, attached')
    BY <1>1, <2>1
  <2> HIDE DEF w
  <2> QED BY <2>3, <2>4, <2>5 DEF Linked
<1> QED BY <1>1, <1>4, <1>5 DEF LinuxOK

(* The thread takes an event from udev's queue: it tells of it, or not.    *)
LEMMA ReceiveEventOK == LinuxOK /\ receive_event => LinuxOK'
<1> SUFFICES ASSUME LinuxOK, receive_event PROVE LinuxOK'
  OBVIOUS
<1> DEFINE e == Head(udev)
<1>1. /\ pc = "receive" /\ udev # <<>> /\ udev' = Tail(udev) /\ channel' = channel
      /\ rx_open' = rx_open /\ view' = view /\ attached' = attached /\ returned' = returned
      /\ moves' = moves
      /\ \/ /\ e.action = "add" /\ e.disk \in Listed
            /\ pc' = "send" /\ sending' = DeviceInserted(stable_id(e.name, e.disk))
         \/ /\ e.action = "add" /\ e.disk \notin Listed
            /\ pc' = "check" /\ UNCHANGED sending
         \/ /\ e.action = "remove"
            /\ pc' = "send" /\ sending' = DeviceRemoved(removed_id(e.name, e.disk))
  BY DEF receive_event, feed
<1>2. TypeOK /\ FeedTypeOK /\ sending = NoEvent /\ udev \in Seq(UdevEvent)
  BY <1>1 DEF LinuxOK, TypeOK
<1>3. e \in UdevEvent /\ e.name \in Names /\ e.disk \in Disks /\ udev' \in Seq(UdevEvent)
  <2>1. Head(udev) \in UdevEvent /\ Tail(udev) \in Seq(UdevEvent)
    BY <1>1, <1>2
  <2> QED BY <1>1, <2>1 DEF UdevEvent
<1>4. /\ sending' = EventOf(e) /\ pc' \in {"check", "send"}
      /\ IF pc' = "send" THEN sending' \in UsbEvent ELSE sending' = NoEvent
  BY <1>1, <1>2, <1>3, IdFacts, EventFacts DEF EventOf
<1>5. TypeOK'
  BY <1>1, <1>2, <1>3, <1>4 DEF TypeOK, FeedTypeOK
<1>6. ASSUME rx_open PROVE Linked'
  <2>1. PICK v \in SUBSET Ids :
          /\ Chain(channel, view, v) /\ News(sending, v)
          /\ Settles(udev, After(v, sending), attached)
    BY <1>1, <1>6 DEF LinuxOK, Linked
  <2>2. After(v, sending) = v
    BY <1>2, NoEventFacts
  <2>3. PICK t \in SUBSET Ids :
          Chain(Events(udev), v, t) /\ t \cap PairedIds \subseteq Present(attached)
    BY <2>1, <2>2 DEF Settles
  <2>4. /\ Events(udev') = Tail(Events(udev)) /\ Events(udev) # <<>>
        /\ Head(Events(udev)) = EventOf(e) /\ Events(udev) \in Seq(Step)
    BY <1>1, <1>2, EventsTail, EventsType
  <2>5. Chain(Events(udev'), After(v, sending'), t) /\ News(sending', v)
    BY <1>4, <2>3, <2>4, ChainTail
  <2>6. Settles(udev', After(v, sending'), attached')
    BY <1>1, <2>3, <2>5 DEF Settles
  <2> QED BY <1>1, <2>1, <2>5, <2>6 DEF Linked
<1> QED BY <1>1, <1>4, <1>5, <1>6 DEF LinuxOK

(* The steps of the thread that touch neither an event nor the channel,    *)
(* and those that touch nothing.                                           *)
LEMMA QuietOK ==
    ASSUME LinuxOK, UNCHANGED <<feed, attached, udev, sending, moves>>, returned' \in BOOLEAN,
           \/ pc' = pc
           \/ pc \in {"listen", "check", "receive"} /\ pc' \in {"check", "receive", "ended"}
    PROVE  LinuxOK'
<1>1. /\ channel' = channel /\ rx_open' = rx_open /\ view' = view /\ attached' = attached
      /\ udev' = udev /\ sending' = sending /\ moves' = moves
  BY DEF feed
<1>2. TypeOK
  BY DEF LinuxOK
<1>3. TypeOK'
  BY <1>1, <1>2 DEF TypeOK, FeedTypeOK
<1>4. pc' # "ended" => pc # "ended"
  OBVIOUS
<1>5. Linked => Linked'
  BY <1>1, <1>4 DEF Linked
<1> QED BY <1>1, <1>3, <1>5 DEF LinuxOK

LEMMA NextLinux == LinuxOK /\ [Next]_vars => LinuxOK'
<1> SUFFICES ASSUME LinuxOK, [Next]_vars PROVE LinuxOK'
  OBVIOUS
<1>1. returned \in BOOLEAN
  BY DEF LinuxOK, TypeOK
<1>2. CASE Attach \/ Detach
  BY <1>2, MachineOK
<1>3. CASE Consumer
  BY <1>3, ConsumerOK
<1>4. CASE blocking_send
  BY <1>4, SendOK
<1>5. CASE receive_event
  BY <1>5, ReceiveEventOK
<1>6. CASE listen \/ CheckStop \/ NoUdevEvent
  <2>1. UNCHANGED <<feed, attached, udev, sending, moves>> /\ returned' = returned
    BY <1>6 DEF listen, CheckStop, NoUdevEvent
  <2>2. pc \in {"listen", "check", "receive"} /\ pc' \in {"check", "receive", "ended"}
    BY <1>6 DEF listen, CheckStop, NoUdevEvent
  <2> QED BY <1>1, <2>1, <2>2, QuietOK
<1>7. CASE Return
  BY <1>7, QuietOK DEF Return, thread
<1>8. CASE UNCHANGED vars
  BY <1>1, <1>8, QuietOK DEF vars, thread
<1> QED BY <1>2, <1>3, <1>4, <1>5, <1>6, <1>7, <1>8 DEF Next, Thread, Over

-----------------------------------------------------------------------------
(* LinuxOK holds in every reachable state.                                 *)
THEOREM LinuxCorrect == Spec => []LinuxOK
BY InitLinux, NextLinux, PTL DEF Spec

(* The variables of the monitor, its thread and its channel keep their     *)
(* types: the channel never holds more than its capacity.                  *)
THEOREM LinuxTypeCorrect == Spec => []TypeOK
<1>1. LinuxOK => TypeOK
  BY DEF LinuxOK
<1> QED BY <1>1, LinuxCorrect, PTL

(* A disk whose removal is reported under its own id is never reported     *)
(* inserted to a consumer that believes it present.                        *)
THEOREM InsertedIsNews == Spec => []InsertedOnce
<1>1. LinuxOK => InsertedOnce
  <2> SUFFICES ASSUME LinuxOK, channel # <<>>, Head(channel).kind = "DeviceInserted",
                      Head(channel).id \in PairedIds
               PROVE  Head(channel).id \notin view
    BY DEF InsertedOnce
  <2>1. channel \in Seq(Step) /\ rx_open
    <3>1. channel \in Seq(UsbEvent)
      BY DEF LinuxOK, TypeOK, FeedTypeOK
    <3> QED BY <3>1 DEF LinuxOK, Step
  <2>2. PICK v \in SUBSET Ids : Chain(channel, view, v)
    BY <2>1 DEF LinuxOK, Linked
  <2> QED BY <2>1, <2>2, ChainTail DEF News
<1> QED BY <1>1, LinuxCorrect, PTL

(* Once udev has nothing queued and the consumer has received all there is,*)
(* it believes no disk present that is gone, if the removal of the disk is *)
(* reported under its own id.                                              *)
NoGhosts ==
    rx_open /\ channel = <<>> /\ udev = <<>> /\ pc \in {"check", "receive"} =>
        view \cap PairedIds \subseteq Present(attached)

(* A consumer of the Linux monitor that has caught up keeps no such disk   *)
(* in its view, whatever was taken away and put back under which name, as  *)
(* long as the thread lives.                                               *)
THEOREM RemovalsArrive == Spec => []NoGhosts
<1>1. LinuxOK => NoGhosts
  <2> SUFFICES ASSUME LinuxOK, rx_open, channel = <<>>, udev = <<>>, pc \in {"check", "receive"}
               PROVE  view \cap PairedIds \subseteq Present(attached)
    BY DEF NoGhosts
  <2>1. sending = NoEvent /\ NoId \notin Ids /\ view \in SUBSET Ids
    BY LinuxAssumption DEF LinuxOK, TypeOK, FeedTypeOK
  <2>2. PICK v \in SUBSET Ids : Chain(<<>>, view, v) /\ Settles(<<>>, After(v, NoEvent), attached)
    BY <2>1 DEF LinuxOK, Linked
  <2>3. v = view /\ After(v, NoEvent) = view
    BY <2>1, <2>2 DEF Chain, After, NoEvent
  <2>4. PICK t \in SUBSET Ids : Chain(Events(<<>>), view, t) /\ t \cap PairedIds \subseteq Present(attached)
    BY <2>2, <2>3 DEF Settles
  <2>5. Len(Events(<<>>)) = 0
    BY DEF Events
  <2>6. t = view
    BY <2>4, <2>5 DEF Chain
  <2> QED BY <2>4, <2>6
<1> QED BY <1>1, LinuxCorrect, PTL
=============================================================================
