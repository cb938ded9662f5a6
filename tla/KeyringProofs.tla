---------------------------- MODULE KeyringProofs ----------------------------
(***************************************************************************)
(* The key storage for any number of callers, pools, keys, strings and     *)
(* pages: KeyringOK is inductive.  A key that was found is still that of   *)
(* the pool, unless it was revoked (FoundOK); so a call in two steps has   *)
(* its effect at the second or fails, and a keyring whose keys are all     *)
(* found implements KeyStorage.                                            *)
(***************************************************************************)
EXTENDS Keyring, FiniteSetTheorems, TLAPS

(* A call on its way has found the key of its pool, or one revoked since.  *)
FoundOK ==
    \A c \in Callers : found[c] # 0 =>
        /\ call[c] \in Storage!Calls /\ call[c].op \in {"retrieve", "remove"}
        /\ found[c] = ring[call[c].pool] \/ found[c] \in revoked

KeyringOK == TypeOK /\ FoundOK /\ holds = locked /\ LocksReleased

-----------------------------------------------------------------------------
(* The strings.                                                            *)

(* The Cardinality that SecureString sees is that of the theorems.         *)
LEMMA SameCardinality == \A S : Memory!Cardinality(S) = Cardinality(S)
BY DEF Cardinality, Memory!Cardinality

LEMMA FewerPages ==
    ASSUME NEW S \in SUBSET Pages, NEW T \in SUBSET S, Memory!Cardinality(S) <= MemLock
    PROVE  Memory!Cardinality(T) <= MemLock
<1>1. IsFiniteSet(S) /\ IsFiniteSet(T)
  BY KeyringAssumption, FS_Subset
<1>2. Cardinality(S) \in Nat /\ Cardinality(T) \in Nat /\ Cardinality(T) <= Cardinality(S)
  BY <1>1, FS_Subset, FS_CardinalityType
<1> QED BY <1>2, SameCardinality, KeyringAssumption

LEMMA EmptySpan == {} \in Memory!Spans /\ Memory!Cardinality({}) = 0
BY KeyringAssumption, FS_EmptySet, SameCardinality DEF Memory!Spans

(* What the strings keep among themselves.                                 *)
MemoryOK == Memory!TypeOK /\ holds = locked /\ Memory!LocksReleased

LEMMA NewOK ==
    ASSUME MemoryOK, NEW s \in Strings, NEW spans, spans \subseteq Memory!Spans,
           Memory!new(s, spans)
    PROVE  MemoryOK' /\ alive \subseteq alive' /\ kernel_locked \subseteq kernel_locked'
<1>1. PICK span \in spans :
        /\ pages' = [pages EXCEPT ![s] = span]
        /\ \/ /\ span # {} /\ Memory!Cardinality(kernel_locked \cup span) <= MemLock
              /\ kernel_locked' = kernel_locked \cup span
              /\ locked' = locked \cup {s} /\ holds' = holds \cup {s}
           \/ UNCHANGED <<kernel_locked, locked, holds>>
  BY DEF Memory!new
<1>2. span \subseteq Pages /\ span \in Memory!Spans
  BY DEF Memory!Spans
<1>3. s \notin alive /\ alive' = alive \cup {s} /\ leaked' = leaked
  BY DEF Memory!new
<1>4. /\ pages' \in [Strings -> Memory!Spans] /\ pages'[s] = span
      /\ \A t \in locked : t # s /\ pages'[t] = pages[t]
  BY <1>1, <1>2, <1>3 DEF MemoryOK, Memory!TypeOK
<1>5. Memory!TypeOK'
  BY <1>1, <1>2, <1>3, <1>4 DEF MemoryOK, Memory!TypeOK
<1>6. UNION {pages[t] : t \in locked} \subseteq UNION {pages'[t] : t \in locked}
  BY <1>4
<1>7. /\ (holds = locked)' /\ locked \subseteq locked'
      /\ kernel_locked' = kernel_locked \/ (s \in locked' /\ kernel_locked' = kernel_locked \cup span)
  BY <1>1 DEF MemoryOK
<1>8. Memory!LocksReleased'
  BY <1>3, <1>4, <1>6, <1>7 DEF MemoryOK, Memory!LocksReleased
<1> QED BY <1>1, <1>3, <1>5, <1>7, <1>8 DEF MemoryOK

LEMMA UnlockOK ==
    ASSUME MemoryOK, NEW s \in Strings, Memory!unlock(s)
    PROVE  MemoryOK' /\ alive' = alive
<1>1. s \in alive /\ alive' = alive /\ pages' = pages /\ leaked' = leaked
  BY DEF Memory!unlock
<1>2. \/ /\ s \in locked /\ kernel_locked' = kernel_locked \ pages[s]
         /\ holds' = holds \ {s} /\ locked' = locked \ {s}
      \/ s \notin locked /\ kernel_locked' = kernel_locked /\ holds' = holds /\ locked' = locked
  BY DEF Memory!unlock, Memory!munlock, MemoryOK, Memory!TypeOK
<1>3. kernel_locked' \subseteq kernel_locked
  BY <1>2
<1>4. Memory!Cardinality(kernel_locked') <= MemLock
  BY <1>3, FewerPages DEF MemoryOK, Memory!TypeOK
<1>5. Memory!TypeOK'
  BY <1>1, <1>2, <1>3, <1>4 DEF MemoryOK, Memory!TypeOK
<1>6. Memory!LocksReleased' /\ (holds = locked)'
  BY <1>1, <1>2 DEF MemoryOK, Memory!LocksReleased
<1> QED BY <1>1, <1>5, <1>6 DEF MemoryOK

LEMMA GoneOK ==
    ASSUME MemoryOK, NEW s \in Strings, Memory!drop(s) \/ Memory!into_string(s)
    PROVE  MemoryOK' /\ alive' = alive \ {s}
<1>1. /\ alive' = alive \ {s} /\ locked' = locked \ {s}
      /\ pages' = [pages EXCEPT ![s] = {}]
  BY DEF Memory!drop, Memory!into_string, Memory!Gone
<1>2. /\ \/ holds' = holds \ {s}
         \/ s \notin locked /\ holds' = holds
      /\ \/ s \in locked /\ kernel_locked' = kernel_locked \ pages[s] /\ leaked' = leaked
         \/ s \notin locked /\ kernel_locked' = kernel_locked /\ leaked' = leaked
         \/ s \in locked /\ kernel_locked' = kernel_locked /\ leaked' = leaked \cup pages[s]
  BY DEF Memory!drop, Memory!into_string, Memory!munlock, MemoryOK, Memory!TypeOK
<1>3. s \in alive /\ pages[s] \subseteq Pages
  BY DEF Memory!drop, Memory!into_string, MemoryOK, Memory!TypeOK, Memory!Spans
<1>4. holds' \subseteq alive'
  BY <1>1, <1>2, <1>3 DEF MemoryOK, Memory!TypeOK
<1>5. Memory!Cardinality(kernel_locked') <= MemLock
  <2>1. kernel_locked' \subseteq kernel_locked
    BY <1>2
  <2> QED BY <2>1, FewerPages DEF MemoryOK, Memory!TypeOK
<1>6. pages' \in [Strings -> Memory!Spans] /\ \A t \in locked' : pages'[t] = pages[t]
  BY <1>1, EmptySpan DEF MemoryOK, Memory!TypeOK
<1>7. Memory!TypeOK'
  BY <1>1, <1>2, <1>3, <1>4, <1>5, <1>6 DEF MemoryOK, Memory!TypeOK
<1>8. Memory!LocksReleased' /\ (holds = locked)'
  BY <1>1, <1>2, <1>6 DEF MemoryOK, Memory!LocksReleased
<1> QED BY <1>1, <1>7, <1>8 DEF MemoryOK
-----------------------------------------------------------------------------
(* Every step makes at most one step of the strings.                       *)
MemoryStep ==
    \/ \E s \in Strings :
        \/ Memory!new(s, Memory!Spans) \/ Memory!from_str(s) \/ \E t \in Strings : Memory!clone(t, s)
        \/ Memory!unlock(s)
        \/ /\ \A c \in Callers : borrowed[c] # s
           /\ Memory!drop(s) \/ Memory!into_string(s)
           /\ UNCHANGED borrowed
    \/ UNCHANGED memory

LEMMA StepsOfMemory == [Next]_vars => MemoryStep
<1> SUFFICES ASSUME [Next]_vars PROVE MemoryStep
  OBVIOUS
<1>1. CASE UNCHANGED vars
  BY <1>1 DEF vars, memory, MemoryStep
<1>2. CASE Owner
  BY <1>2 DEF Owner, MemoryStep
<1>3. ASSUME NEW c \in Callers,
             \/ Start(c) \/ Finish(c)
             \/ store(c) \/ request_key(c) \/ keyctl_read(c) \/ keyctl_revoke(c)
             \/ MemoryKeyVault(c)
      PROVE  MemoryStep
  BY <1>3 DEF Start, Finish, store, request_key, keyctl_read, keyctl_revoke, MemoryKeyVault,
              MemoryStep
<1> QED BY <1>1, <1>2, <1>3 DEF Next

LEMMA MemoryPreserved ==
    ASSUME MemoryOK, MemoryStep, borrowed \in [Callers -> alive \cup {NoString}]
    PROVE  /\ MemoryOK'
           /\ \/ alive \subseteq alive'
              \/ UNCHANGED borrowed /\ borrowed' \in [Callers -> alive' \cup {NoString}]
<1>1. ASSUME NEW s \in Strings, NEW spans, spans \subseteq Memory!Spans, Memory!new(s, spans)
      PROVE  MemoryOK' /\ alive \subseteq alive'
  BY <1>1, NewOK
<1>2. ASSUME NEW s \in Strings,
             Memory!new(s, Memory!Spans) \/ Memory!from_str(s) \/ \E t \in Strings : Memory!clone(t, s)
      PROVE  MemoryOK' /\ alive \subseteq alive'
  BY <1>1, <1>2 DEF Memory!from_str, Memory!clone
<1>3. CASE UNCHANGED memory
  BY <1>3 DEF memory, MemoryOK, Memory!TypeOK, Memory!LocksReleased
<1>4. ASSUME NEW s \in Strings, Memory!unlock(s)
      PROVE  MemoryOK' /\ alive \subseteq alive'
  BY <1>4, UnlockOK
<1>5. ASSUME NEW s \in Strings, \A c \in Callers : borrowed[c] # s,
             Memory!drop(s) \/ Memory!into_string(s), UNCHANGED borrowed
      PROVE  MemoryOK' /\ UNCHANGED borrowed /\ borrowed' \in [Callers -> alive' \cup {NoString}]
  BY <1>5, GoneOK
<1> QED BY <1>2, <1>3, <1>4, <1>5 DEF MemoryStep

(* A page is unlocked only by the string that holds it.                    *)
LEMMA UnlockingStep ==
    ASSUME MemoryOK, MemoryStep
    PROVE  \A p \in kernel_locked \ kernel_locked' : \E s \in holds \ holds' : p \in pages[s]
<1>1. ASSUME NEW s \in Strings, NEW spans, spans \subseteq Memory!Spans, Memory!new(s, spans)
      PROVE  kernel_locked \subseteq kernel_locked'
  BY <1>1, NewOK
<1>2. ASSUME NEW s \in Strings,
             Memory!new(s, Memory!Spans) \/ Memory!from_str(s) \/ \E t \in Strings : Memory!clone(t, s)
      PROVE  kernel_locked \subseteq kernel_locked'
  BY <1>1, <1>2 DEF Memory!from_str, Memory!clone
<1>3. ASSUME NEW s \in Strings, Memory!unlock(s) \/ Memory!drop(s) \/ Memory!into_string(s)
      PROVE  \/ kernel_locked' = kernel_locked
             \/ s \in holds \ holds' /\ kernel_locked' = kernel_locked \ pages[s]
  BY <1>3 DEF Memory!unlock, Memory!drop, Memory!into_string, Memory!munlock, MemoryOK
<1> QED BY <1>2, <1>3 DEF MemoryStep, memory
-----------------------------------------------------------------------------
(* The calls.                                                              *)

Calling(c) ==
    \/ Start(c) \/ Finish(c)
    \/ store(c) \/ request_key(c) \/ keyctl_read(c) \/ keyctl_revoke(c)
    \/ MemoryKeyVault(c)

Reply == {Storage!NoAnswer, Storage!Failure} \cup
         [kind : {"Ok"}, pass : Passphrases \cup {NoPass, Garbage}]

LEMMA Answers ==
    /\ \A x \in Passphrases \cup {NoPass, Garbage} :
        Storage!Answered(x) \in Reply /\ Storage!Answered(x) # Storage!NoAnswer
    /\ Storage!Failure \in Reply /\ Storage!NoAnswer \in Reply
    /\ Storage!Failure # Storage!NoAnswer
    /\ \A x : Storage!Answered(x).pass = x
BY DEF Reply, Storage!Answered, Storage!Failure, Storage!NoAnswer

LEMMA CallFacts ==
    /\ Storage!NoCall \notin Storage!Calls /\ Storage!NoCall.op = "none"
    /\ \A k \in Storage!Calls :
        /\ k.pool \in Pools /\ k.op \in {"store", "retrieve", "remove"}
        /\ k.op = "store" => k.pass \in Passphrases
        /\ k.op # "store" => k.pass = NoPass
BY DEF Storage!Calls, Storage!NoCall

(* A call that runs is one of the three.                                   *)
LEMMA RunsFacts ==
    ASSUME TypeOK, NEW c \in Callers, NEW op \in {"store", "retrieve", "remove"}, NEW by,
           Runs(c, op, by)
    PROVE  /\ call[c] \in Storage!Calls /\ call[c].op = op /\ call[c].pool \in Pools
           /\ answer[c] = Storage!NoAnswer /\ backend = by
BY CallFacts DEF Runs, TypeOK

(* A key that is found and is not revoked is the live key of its pool.     *)
LEMMA FoundLive ==
    ASSUME TypeOK, FoundOK, NEW c \in Callers, found[c] # 0
    PROVE  /\ call[c] \in Storage!Calls /\ call[c].pool \in Pools
           /\ found[c] \in 1 .. keys
           /\ found[c] \notin revoked =>
                 found[c] = ring[call[c].pool] /\ Live(call[c].pool)
BY CallFacts DEF FoundOK, TypeOK, Live

(* The user keyring after store, call by call.                             *)
LEMMA StoreFacts ==
    ASSUME TypeOK, NEW c \in Callers, store(c)
    PROVE  LET p == call[c].pool
           IN  /\ call[c] \in Storage!Calls /\ call[c].op = "store" /\ p \in Pools
               /\ answer[c] = Storage!NoAnswer /\ backend = "linux"
               /\ \/ /\ answer' = [answer EXCEPT ![c] = Storage!Failure]
                     /\ UNCHANGED <<ring, payload, keys>>
                  \/ /\ answer' = [answer EXCEPT ![c] = Storage!Answered(NoPass)]
                     /\ \/ /\ Live(p) /\ UNCHANGED <<ring, keys>>
                           /\ payload' = [payload EXCEPT ![ring[p]] = call[c].pass]
                        \/ /\ ~Live(p) /\ keys < MaxKeys /\ keys' = keys + 1
                           /\ ring' = [ring EXCEPT ![p] = keys + 1]
                           /\ payload' = [payload EXCEPT ![keys + 1] = call[c].pass]
<1>1. Runs(c, "store", "linux")
  BY DEF store
<1>2. /\ call[c] \in Storage!Calls /\ call[c].op = "store" /\ call[c].pool \in Pools
      /\ answer[c] = Storage!NoAnswer /\ backend = "linux"
  BY <1>1, RunsFacts
<1> QED BY <1>2 DEF store, Ok, Error

(* The ring stays well formed.                                             *)
RingOK ==
    /\ ring \in [Pools -> 0 .. keys]
    /\ \A p, q \in Pools : ring[p] = ring[q] /\ ring[p] # 0 => p = q
    /\ payload \in [1 .. MaxKeys -> Passphrases \cup {NoPass}]
    /\ keys \in 0 .. MaxKeys /\ revoked \subseteq 1 .. keys

LEMMA RingPreserved ==
    ASSUME TypeOK, FoundOK, NEW c \in Callers, Calling(c)
    PROVE  RingOK' /\ keys <= keys'
<1>1. RingOK /\ keys \in Nat /\ MaxKeys \in Nat
  BY KeyringAssumption DEF TypeOK, RingOK
<1>2. CASE UNCHANGED kernel
  BY <1>1, <1>2 DEF kernel, RingOK
<1>3. CASE keyctl_revoke(c)
  <2>1. found[c] \in 1 .. keys
    BY <1>3, FoundLive DEF keyctl_revoke
  <2>2. revoked' \subseteq revoked \cup {found[c]} /\ UNCHANGED <<ring, payload, keys>>
    BY <1>3 DEF keyctl_revoke
  <2> QED BY <1>1, <2>1, <2>2 DEF RingOK
<1>4. CASE store(c)
  <2> DEFINE p == call[c].pool
             pass == call[c].pass
  <2>1. p \in Pools /\ pass \in Passphrases /\ revoked' = revoked
    BY <1>4, StoreFacts, CallFacts DEF store
  <2>2. CASE UNCHANGED <<ring, payload, keys>>
    BY <1>1, <2>1, <2>2 DEF RingOK
  <2>3. CASE Live(p) /\ UNCHANGED <<ring, keys>> /\ payload' = [payload EXCEPT ![ring[p]] = pass]
    <3>1. ring[p] \in 1 .. MaxKeys
      BY <1>1, <2>1, <2>3 DEF Live, RingOK
    <3> QED BY <1>1, <2>1, <2>3, <3>1 DEF RingOK
  <2>4. CASE /\ keys < MaxKeys /\ keys' = keys + 1
             /\ ring' = [ring EXCEPT ![p] = keys + 1]
             /\ payload' = [payload EXCEPT ![keys + 1] = pass]
    <3>1. /\ ring' \in [Pools -> 0 .. keys'] /\ ring'[p] = keys + 1
          /\ \A q \in Pools \ {p} : ring'[q] = ring[q] /\ ring[q] \in 0 .. keys
      BY <1>1, <2>1, <2>4 DEF RingOK
    <3>2. \A q, r \in Pools : ring'[q] = ring'[r] /\ ring'[q] # 0 => q = r
      BY <1>1, <2>1, <3>1 DEF RingOK
    <3>3. payload' \in [1 .. MaxKeys -> Passphrases \cup {NoPass}]
      BY <1>1, <2>1, <2>4 DEF RingOK
    <3>4. keys' \in 0 .. MaxKeys /\ revoked' \subseteq 1 .. keys' /\ keys <= keys'
      BY <1>1, <2>1, <2>4 DEF RingOK
    <3> QED BY <3>1, <3>2, <3>3, <3>4 DEF RingOK
  <2> QED BY <1>4, <2>2, <2>3, <2>4, StoreFacts
<1>5. CASE ~store(c) /\ ~keyctl_revoke(c)
  BY <1>2, <1>5 DEF Calling, Start, Finish, request_key, keyctl_read, MemoryKeyVault, kernel
<1> QED BY <1>3, <1>4, <1>5

(* What each step does to the call it belongs to; the others stay.         *)
LEMMA CallPreserved ==
    ASSUME TypeOK, FoundOK, NEW c \in Callers, Calling(c)
    PROVE  /\ call' \in [Callers -> Storage!Calls \cup {Storage!NoCall}]
           /\ answer' \in [Callers -> Reply]
           /\ found' \in [Callers -> 0 .. keys]
           /\ borrowed' \in [Callers -> alive \cup {NoString}]
           /\ \A d \in Callers \ {c} :
                 call'[d] = call[d] /\ answer'[d] = answer[d] /\ found'[d] = found[d]
<1>1. /\ call \in [Callers -> Storage!Calls \cup {Storage!NoCall}]
      /\ answer \in [Callers -> Reply] /\ found \in [Callers -> 0 .. keys]
      /\ borrowed \in [Callers -> alive \cup {NoString}] /\ keys \in Nat
  BY DEF TypeOK, Reply
<1>2. CASE Start(c)
  BY <1>1, <1>2 DEF Start
<1>3. CASE Finish(c)
  BY <1>1, <1>3, Answers DEF Finish
<1>4. CASE store(c)
  <2>1. UNCHANGED <<call, found, borrowed>>
    BY <1>4 DEF store
  <2>2. \/ answer' = [answer EXCEPT ![c] = Storage!Failure]
        \/ answer' = [answer EXCEPT ![c] = Storage!Answered(NoPass)]
    BY <1>4, StoreFacts
  <2> QED BY <1>1, <2>1, <2>2, Answers
<1>5. CASE request_key(c)
  <2>1. UNCHANGED <<call, borrowed>>
    BY <1>5 DEF request_key
  <2>2. call[c] \in Storage!Calls /\ ring[call[c].pool] \in 0 .. keys
    BY <1>5, RunsFacts DEF request_key, TypeOK
  <2>3. \/ found' = [found EXCEPT ![c] = ring[call[c].pool]] /\ answer' = answer
        \/ found' = found /\ answer' = [answer EXCEPT ![c] = Storage!Answered(NoPass)]
    BY <1>5 DEF request_key, Ok
  <2> QED BY <1>1, <2>1, <2>2, <2>3, Answers
<1>6. CASE keyctl_read(c)
  <2>1. UNCHANGED <<call, found, borrowed>>
    BY <1>6 DEF keyctl_read
  <2>2. found[c] \in 1 .. keys /\ payload[found[c]] \in Passphrases \cup {NoPass}
    <3>1. found[c] \in 1 .. keys
      BY <1>6, FoundLive DEF keyctl_read
    <3> QED BY <3>1, KeyringAssumption DEF TypeOK
  <2>3. \/ answer' = [answer EXCEPT ![c] = Storage!Failure]
        \/ answer' = [answer EXCEPT ![c] = Storage!Answered(payload[found[c]])]
    BY <1>6 DEF keyctl_read, Ok, Error
  <2> QED BY <1>1, <2>1, <2>2, <2>3, Answers
<1>7. CASE keyctl_revoke(c) \/ MemoryKeyVault(c)
  <2>1. UNCHANGED <<call, found, borrowed>>
    BY <1>7 DEF keyctl_revoke, MemoryKeyVault
  <2>2. \/ answer' = [answer EXCEPT ![c] = Storage!Failure]
        \/ answer' = [answer EXCEPT ![c] = Storage!Answered(NoPass)]
    BY <1>7 DEF keyctl_revoke, MemoryKeyVault, Ok, Error
  <2> QED BY <1>1, <2>1, <2>2, Answers
<1> QED BY <1>2, <1>3, <1>4, <1>5, <1>6, <1>7 DEF Calling

(* A key once found stays the key of its pool until it is revoked: store   *)
(* takes another one for the pool only when the present one is.            *)
LEMMA FoundPreserved ==
    ASSUME TypeOK, FoundOK, NEW c \in Callers, Calling(c)
    PROVE  FoundOK'
<1>1. \A p \in Pools : ring'[p] = ring[p] \/ ring[p] = 0 \/ ring[p] \in revoked
  <2>1. CASE store(c)
    <3>1. \A p \in Pools : ring'[p] = ring[p] \/ (p = call[c].pool /\ ~Live(p))
      BY <2>1, StoreFacts DEF TypeOK
    <3> QED BY <3>1 DEF Live
  <2>2. CASE ~store(c)
    BY <2>2 DEF Calling, Start, Finish, request_key, keyctl_read, keyctl_revoke,
                MemoryKeyVault, kernel
  <2> QED BY <2>1, <2>2
<1>2. revoked \subseteq revoked'
  BY DEF Calling, Start, Finish, store, request_key, keyctl_read, keyctl_revoke,
         MemoryKeyVault, kernel
<1>3. ASSUME NEW d \in Callers, found'[d] # 0, found'[d] = found[d], call'[d] = call[d]
      PROVE  /\ call'[d] \in Storage!Calls /\ call'[d].op \in {"retrieve", "remove"}
             /\ found'[d] = ring'[call'[d].pool] \/ found'[d] \in revoked'
  BY <1>1, <1>2, <1>3, CallFacts DEF FoundOK
<1>4. ASSUME found'[c] # 0
      PROVE  /\ call'[c] \in Storage!Calls /\ call'[c].op \in {"retrieve", "remove"}
             /\ found'[c] = ring'[call'[c].pool] \/ found'[c] \in revoked'
  <2>1. CASE Start(c)
    <3>1. found'[c] = found[c] /\ call[c] = Storage!NoCall
      BY <2>1 DEF Start
    <3> QED BY <1>4, <3>1, CallFacts DEF FoundOK
  <2>2. CASE Finish(c)
    BY <1>4, <2>2 DEF Finish, TypeOK
  <2>3. CASE request_key(c)
    <3>1. /\ call[c] \in Storage!Calls /\ call[c].op \in {"retrieve", "remove"}
          /\ call[c].pool \in Pools /\ found[c] = 0 /\ call' = call /\ ring' = ring
      BY <2>3, RunsFacts DEF request_key, kernel
    <3>2. found'[c] = ring[call[c].pool] \/ found' = found
      BY <2>3 DEF request_key, TypeOK
    <3> QED BY <1>4, <3>1, <3>2
  <2>4. CASE ~Start(c) /\ ~Finish(c) /\ ~request_key(c)
    <3>1. found' = found /\ call' = call
      BY <2>4 DEF Calling, store, keyctl_read, keyctl_revoke, MemoryKeyVault
    <3> QED BY <1>3, <1>4, <3>1
  <2> QED BY <2>1, <2>2, <2>3, <2>4
<1>5. \A d \in Callers \ {c} : found'[d] = found[d] /\ call'[d] = call[d]
  BY CallPreserved
<1> QED BY <1>3, <1>4, <1>5 DEF FoundOK

LEMMA NextOK == KeyringOK /\ [Next]_vars => KeyringOK'
<1> SUFFICES ASSUME KeyringOK, [Next]_vars PROVE KeyringOK'
  OBVIOUS
<1>1. MemoryOK /\ MemoryStep /\ TypeOK /\ FoundOK
      /\ borrowed \in [Callers -> alive \cup {NoString}]
  BY StepsOfMemory DEF KeyringOK, TypeOK, MemoryOK, LocksReleased
<1>2. MemoryOK'
  BY <1>1, MemoryPreserved
<1>3. UNCHANGED setting
  BY DEF Next, vars
<1>4. ASSUME NEW c \in Callers, Calling(c)
      PROVE  KeyringOK'
  <2>1. RingOK' /\ keys <= keys' /\ keys \in Nat /\ keys' \in Nat
    <3>1. RingOK' /\ keys <= keys'
      BY <1>1, <1>4, RingPreserved
    <3> QED BY <1>1, <3>1 DEF TypeOK, RingOK
  <2>2. alive \subseteq alive'
    BY <1>4 DEF Calling, Start, Finish, store, request_key, keyctl_read, keyctl_revoke,
                MemoryKeyVault, memory, Memory!from_str, Memory!new
  <2>3. TypeOK'
    BY <1>1, <1>2, <1>3, <1>4, <2>1, <2>2, CallPreserved DEF TypeOK, MemoryOK, RingOK, Reply, setting
  <2> QED BY <1>1, <1>2, <1>4, <2>3, FoundPreserved DEF KeyringOK, MemoryOK, LocksReleased
<1>5. CASE Owner \/ UNCHANGED vars
  <2>1. UNCHANGED <<kernel, call, found, answer, borrowed>>
    BY <1>5 DEF Owner, vars
  <2>2. borrowed' \in [Callers -> alive' \cup {NoString}]
    <3>1. CASE alive \subseteq alive'
      BY <1>1, <2>1, <3>1
    <3> QED BY <1>1, <3>1, MemoryPreserved
  <2>3. TypeOK'
    BY <1>1, <1>2, <1>3, <2>1, <2>2 DEF TypeOK, MemoryOK, kernel, setting
  <2>4. FoundOK'
    BY <1>1, <2>1 DEF FoundOK, kernel
  <2> QED BY <1>2, <2>3, <2>4 DEF KeyringOK, MemoryOK, LocksReleased
<1> QED BY <1>4, <1>5 DEF Next, Calling

LEMMA InitOK == Init => KeyringOK
<1> SUFFICES ASSUME Init PROVE KeyringOK
  OBVIOUS
<1>1. Memory!TypeOK /\ locked = holds /\ LocksReleased
  BY EmptySpan, KeyringAssumption DEF Init, Memory!Init, Memory!TypeOK, LocksReleased, Memory!LocksReleased
<1>2. TypeOK
  BY <1>1, KeyringAssumption, Answers DEF Init, TypeOK, Reply
<1> QED BY <1>1, <1>2 DEF Init, KeyringOK, FoundOK

(* KeyringOK holds in every reachable state.                               *)
THEOREM KeyringCorrect == Spec => []KeyringOK
BY InitOK, NextOK, PTL DEF Spec

(* The variables of both backends and of the strings keep their types.     *)
THEOREM KeyringTypeCorrect == Spec => []TypeOK
<1>1. KeyringOK => TypeOK
  BY DEF KeyringOK
<1> QED BY <1>1, KeyringCorrect, PTL

(* A locked page has a locked string on it, or had one when into_string    *)
(* turned that into a plain String: the one way locks are left behind.     *)
THEOREM LocksAccountedFor == Spec => []LocksReleased
<1>1. KeyringOK => LocksReleased
  BY DEF KeyringOK
<1> QED BY <1>1, KeyringCorrect, PTL

(* A step unlocks only pages of a string that holds a lock itself.         *)
THEOREM UnlocksOwnPages == Spec => UnlockedByHolder
<1>1. KeyringOK /\ [Next]_vars =>
        [\A p \in kernel_locked \ kernel_locked' : \E s \in holds \ holds' : p \in pages[s]]_(Memory!vars)
  BY StepsOfMemory, UnlockingStep DEF KeyringOK, TypeOK, MemoryOK, LocksReleased
<1> QED BY <1>1, KeyringCorrect, PTL DEF Spec, UnlockedByHolder, Memory!UnlockedByHolder

-----------------------------------------------------------------------------
(* What is stored after each step.                                         *)

LEMMA StoredSame ==
    ASSUME UNCHANGED <<ring, payload, revoked>>
    PROVE  stored' = stored
BY DEF stored, Live

LEMMA StoreStored ==
    ASSUME TypeOK, NEW c \in Callers, store(c)
    PROVE  Storage!Succeed(c) \/ Storage!Fail(c)
<1> DEFINE p == call[c].pool
           pass == call[c].pass
<1>1. /\ call[c] \in Storage!Calls /\ call[c].op = "store" /\ p \in Pools
      /\ Storage!Pending(c) /\ call' = call /\ revoked' = revoked /\ pass \in Passphrases
  BY StoreFacts, CallFacts DEF store, Storage!Pending
<1>2. CASE answer' = [answer EXCEPT ![c] = Storage!Failure] /\ UNCHANGED <<ring, payload, keys>>
  BY <1>1, <1>2, StoredSame DEF Storage!Fail
<1>3. ASSUME answer' = [answer EXCEPT ![c] = Storage!Answered(NoPass)],
             stored' = [stored EXCEPT ![p] = pass]
      PROVE  Storage!Succeed(c)
  BY <1>1, <1>3 DEF Storage!Succeed
<1>4. CASE /\ answer' = [answer EXCEPT ![c] = Storage!Answered(NoPass)]
           /\ Live(p) /\ UNCHANGED <<ring, keys>>
           /\ payload' = [payload EXCEPT ![ring[p]] = pass]
  <2>1. ring[p] \in 1 .. MaxKeys
    BY <1>1, <1>4, KeyringAssumption DEF TypeOK, Live
  <2>2. \A q \in Pools : Live(q)' <=> Live(q)
    BY <1>1, <1>4 DEF Live
  <2>3. payload'[ring'[p]] = pass
    BY <1>1, <1>4, <2>1 DEF TypeOK
  <2>4. \A q \in Pools \ {p} : Live(q) => payload'[ring'[q]] = payload[ring[q]]
    BY <1>1, <1>4, <2>1, KeyringAssumption DEF TypeOK, Live
  <2>5. stored' = [stored EXCEPT ![p] = pass]
    BY <1>1, <1>4, <2>2, <2>3, <2>4 DEF stored
  <2> QED BY <1>3, <1>4, <2>5
<1>5. CASE /\ answer' = [answer EXCEPT ![c] = Storage!Answered(NoPass)]
           /\ keys < MaxKeys /\ keys' = keys + 1
           /\ ring' = [ring EXCEPT ![p] = keys + 1]
           /\ payload' = [payload EXCEPT ![keys + 1] = pass]
  <2>1. keys + 1 \in 1 .. MaxKeys /\ keys \in Nat /\ keys + 1 \notin revoked
    BY <1>5, KeyringAssumption DEF TypeOK
  <2>2. Live(p)' /\ payload'[ring'[p]] = pass
    BY <1>1, <1>5, <2>1 DEF TypeOK, Live
  <2>3. \A q \in Pools \ {p} : (Live(q)' <=> Live(q)) /\ ring'[q] = ring[q]
    BY <1>1, <1>5 DEF TypeOK, Live
  <2>4. \A q \in Pools \ {p} : Live(q) => payload'[ring'[q]] = payload[ring[q]]
    BY <1>1, <1>5, <2>1, <2>3 DEF TypeOK, Live
  <2>5. stored' = [stored EXCEPT ![p] = pass]
    BY <1>1, <2>2, <2>3, <2>4 DEF stored
  <2> QED BY <1>3, <1>5, <2>5
<1> QED BY <1>2, <1>4, <1>5, StoreFacts

(* Not found: nothing is stored, if request_key finds every live key.      *)
LEMMA RequestStored ==
    ASSUME TypeOK, NEW c \in Callers, request_key(c), finds_all
    PROVE  Storage!Succeed(c) \/ UNCHANGED <<stored, call, answer>>
<1> DEFINE p == call[c].pool
<1>1. /\ call[c] \in Storage!Calls /\ call[c].op \in {"retrieve", "remove"} /\ p \in Pools
      /\ Storage!Pending(c) /\ call' = call /\ stored' = stored /\ call[c].pass = NoPass
  BY RunsFacts, CallFacts, StoredSame DEF request_key, kernel, Storage!Pending
<1>2. CASE UNCHANGED answer
  BY <1>1, <1>2
<1>3. CASE ~Live(p) /\ Ok(c, NoPass)
  <2>1. stored[p] = NoPass /\ answer' = [answer EXCEPT ![c] = Storage!Answered(NoPass)]
    BY <1>1, <1>3 DEF request_key, stored, Ok
  <2>2. stored = [stored EXCEPT ![p] = NoPass]
    BY <1>1, <2>1 DEF stored
  <2> QED BY <1>1, <2>1, <2>2 DEF Storage!Succeed
<1> QED BY <1>2, <1>3 DEF request_key

(* What is read is what is stored at that moment.                          *)
LEMMA ReadStored ==
    ASSUME TypeOK, FoundOK, NEW c \in Callers, keyctl_read(c)
    PROVE  Storage!Succeed(c) \/ Storage!Fail(c)
<1>1. /\ call[c] \in Storage!Calls /\ call[c].op = "retrieve" /\ call[c].pool \in Pools
      /\ Storage!Pending(c) /\ call' = call /\ stored' = stored
  BY RunsFacts, CallFacts, StoredSame DEF keyctl_read, kernel, Storage!Pending
<1>2. CASE Error(c)
  BY <1>1, <1>2 DEF Error, Storage!Fail
<1>3. CASE found[c] \notin revoked /\ Ok(c, payload[found[c]])
  <2>1. payload[found[c]] = stored[call[c].pool]
    BY <1>1, <1>3, FoundLive DEF keyctl_read, stored
  <2> QED BY <1>1, <1>3, <2>1 DEF Ok, Storage!Succeed
<1> QED BY <1>2, <1>3 DEF keyctl_read

LEMMA RevokeStored ==
    ASSUME TypeOK, FoundOK, NEW c \in Callers, keyctl_revoke(c)
    PROVE  Storage!Succeed(c) \/ Storage!Fail(c)
<1> DEFINE p == call[c].pool
<1>1. /\ call[c] \in Storage!Calls /\ call[c].op = "remove" /\ p \in Pools
      /\ call[c].pass = NoPass
      /\ Storage!Pending(c) /\ call' = call /\ UNCHANGED <<ring, payload>>
  BY RunsFacts, CallFacts DEF keyctl_revoke, Storage!Pending
<1>2. CASE Error(c) /\ UNCHANGED revoked
  <2>1. stored' = stored
    BY <1>1, <1>2, StoredSame
  <2> QED BY <1>1, <1>2, <2>1 DEF Error, Storage!Fail
<1>3. CASE found[c] \notin revoked /\ revoked' = revoked \cup {found[c]} /\ Ok(c, NoPass)
  <2>1. found[c] = ring[p] /\ Live(p) /\ revoked' = revoked \cup {ring[p]}
    BY <1>1, <1>3, FoundLive DEF keyctl_revoke
  <2>2. ~Live(p)' /\ \A q \in Pools \ {p} : Live(q)' <=> Live(q)
    BY <1>1, <2>1 DEF Live, TypeOK
  <2>3. stored' = [stored EXCEPT ![p] = NoPass]
    BY <1>1, <2>2 DEF stored
  <2> QED BY <1>1, <1>3, <2>3 DEF Ok, Storage!Succeed
<1> QED BY <1>2, <1>3 DEF keyctl_revoke

(* Each step over a keyring whose keys are found is one of KeyStorage.     *)
LEMMA StorageStep ==
    KeyringOK /\ [Next]_vars => [backend = "linux" /\ finds_all => Storage!Next]_<<stored, call, answer>>
<1> SUFFICES ASSUME KeyringOK, [Next]_vars, backend = "linux", finds_all
             PROVE  Storage!Next \/ UNCHANGED <<stored, call, answer>>
  OBVIOUS
<1>1. TypeOK /\ FoundOK
  BY DEF KeyringOK
<1>2. ASSUME NEW c \in Callers, Start(c) \/ Finish(c)
      PROVE  Storage!Next
  <2>1. stored' = stored
    BY <1>2, StoredSame DEF Start, Finish, kernel
  <2> QED BY <1>2, <2>1 DEF Start, Finish, Storage!Start, Storage!Finish, Storage!Next
<1>3. ASSUME NEW c \in Callers, store(c) \/ keyctl_read(c) \/ keyctl_revoke(c)
      PROVE  Storage!Next
  BY <1>1, <1>3, StoreStored, ReadStored, RevokeStored DEF Storage!Next
<1>4. ASSUME NEW c \in Callers, request_key(c)
      PROVE  Storage!Next \/ UNCHANGED <<stored, call, answer>>
  BY <1>1, <1>4, RequestStored DEF Storage!Next
<1>5. ASSUME NEW c \in Callers, MemoryKeyVault(c)
      PROVE  FALSE
  BY <1>5 DEF MemoryKeyVault, Runs
<1>6. CASE Owner \/ UNCHANGED vars
  <2>1. UNCHANGED <<ring, payload, revoked, call, answer>>
    BY <1>6 DEF Owner, vars, kernel
  <2> QED BY <2>1, StoredSame
<1> QED BY <1>2, <1>3, <1>4, <1>5, <1>6 DEF Next

(* The keyring, if request_key finds every live key, implements            *)
(* KeyStorage: each call has its effect at one moment or fails without.    *)
THEOREM KeyringImplements == Spec => ImplementsKeyStorage
<1>1. Init => Storage!Init
  BY DEF Init, Storage!Init, stored, Live
<1> QED BY <1>1, StorageStep, KeyringCorrect, PTL DEF Spec, ImplementsKeyStorage

(* What retrieve returns, whatever is found and from either backend.       *)
LEMMA RetrieveStep ==
    ASSUME KeyringOK, [Next]_vars, NEW c \in Callers,
           call[c] \in Storage!Calls, call[c].op = "retrieve", answer[c] = Storage!NoAnswer,
           answer'[c] \notin {Storage!NoAnswer, Storage!Failure}
    PROVE  answer'[c].pass \in {NoPass, stored[call[c].pool]}
<1>1. TypeOK /\ FoundOK
  BY DEF KeyringOK
<1>2. answer \in [Callers -> Reply] /\ call[c] # Storage!NoCall
  BY <1>1, CallFacts DEF TypeOK, Reply
<1>3. ASSUME NEW d \in Callers, Calling(d), d # c
      PROVE  FALSE
  BY <1>1, <1>3, CallPreserved
<1>4. CASE keyctl_read(c)
  <2>1. Storage!Succeed(c) \/ Storage!Fail(c)
    BY <1>1, <1>4, ReadStored
  <2> QED BY <1>2, <2>1, Answers DEF Storage!Succeed, Storage!Fail
<1>5. CASE request_key(c) \/ MemoryKeyVault(c)
  <2>1. answer' = answer \/ answer' = [answer EXCEPT ![c] = Storage!Answered(NoPass)]
    BY <1>5 DEF request_key, MemoryKeyVault, Ok
  <2> QED BY <1>2, <2>1, Answers
<1>6. CASE Start(c) \/ Finish(c) \/ store(c) \/ keyctl_revoke(c)
  BY <1>1, <1>2, <1>6, RunsFacts DEF Start, Finish, store, keyctl_revoke, Runs
<1>7. CASE Owner \/ UNCHANGED vars
  BY <1>7 DEF Owner, vars
<1> QED BY <1>3, <1>4, <1>5, <1>6, <1>7 DEF Next, Calling

(* No backend makes a passphrase up or returns one of another pool.        *)
THEOREM RetrieveIsTrue == Spec => RetrieveTrue
<1>1. KeyringOK /\ [Next]_vars =>
        [\A c \in Callers :
            /\ call[c] \in Storage!Calls /\ call[c].op = "retrieve"
            /\ answer[c] = Storage!NoAnswer /\ answer'[c] \notin {Storage!NoAnswer, Storage!Failure}
            => answer'[c].pass \in {NoPass, stored[call[c].pool]}]_vars
  BY RetrieveStep
<1> QED BY <1>1, KeyringCorrect, PTL DEF Spec, RetrieveTrue
=============================================================================
