------------------------------ MODULE Keyring ------------------------------
(***************************************************************************)
(* The backends of KeyStorage: LinuxKeyring of src/linux_keyring.rs, which *)
(* keeps passphrases as "user" keys of the kernel's user keyring, and      *)
(* MemoryKeyVault of src/lib.rs (crates/zfswatch-keys), and the            *)
(* SecureStrings that carry passphrases to them and back.  retrieve and    *)
(* remove make two system calls, between which others may do anything.     *)
(*                                                                         *)
(* The kernel: add_key updates a key of the same description or makes a    *)
(* new one in the place of a revoked one; request_key searches the session *)
(* keyring, where it misses a live key if that has no link to the user     *)
(* keyring, or for any other reason; a key revoked can neither be found,   *)
(* read nor revoked again.  Every call of the kernel may fail.             *)
(***************************************************************************)
EXTENDS Naturals, FiniteSets

CONSTANTS
    Callers, Pools, Passphrases, NoPass,
    Garbage,        \* what is in a buffer nothing was read into
    Backends,       \* "linux", "memory", or either
    FindsAll,       \* whether request_key finds every live key, or either
    MaxKeys,        \* bound: the user's quota of keys
    Strings, NoString, Pages, MaxSpan, MemLock  \* of SecureString

ASSUME KeyringAssumption ==
    /\ NoPass \notin Passphrases /\ NoString \notin Strings
    /\ IsFiniteSet(Pages) /\ {MaxSpan, MemLock} \subseteq Nat
    /\ Backends \subseteq {"linux", "memory"} /\ FindsAll \subseteq BOOLEAN
    /\ MaxKeys \in Nat

VARIABLES
    backend, finds_all, \* which of them: they never change
    ring,       \* pool -> the key of its description in the user keyring, or 0
    payload,    \* key -> the passphrase in it
    revoked,    \* the keys revoked
    keys,       \* the number of keys made
    call,       \* caller -> the call it makes
    found,      \* caller -> the key request_key found, or 0
    answer,     \* caller -> what the call it makes will return
    borrowed,   \* caller -> the string it passes to store, or NoString
    alive, pages, locked, kernel_locked, holds, leaked  \* of SecureString

Memory == INSTANCE SecureString

kernel == <<ring, payload, revoked, keys>>
setting == <<backend, finds_all>>
memory == <<alive, pages, locked, kernel_locked, holds, leaked>>
vars == <<setting, kernel, call, found, answer, borrowed, memory>>

Live(p) == ring[p] # 0 /\ ring[p] \notin revoked

(* What is stored, as far as the kernel is concerned.                      *)
stored == [p \in Pools |-> IF Live(p) THEN payload[ring[p]] ELSE NoPass]

Storage == INSTANCE KeyStorage

Init ==
    /\ backend \in Backends /\ finds_all \in FindsAll
    /\ ring = [p \in Pools |-> 0]
    /\ payload = [k \in 1 .. MaxKeys |-> NoPass]
    /\ revoked = {} /\ keys = 0
    /\ call = [c \in Callers |-> Storage!NoCall]
    /\ found = [c \in Callers |-> 0]
    /\ answer = [c \in Callers |-> Storage!NoAnswer]
    /\ borrowed = [c \in Callers |-> NoString]
    /\ Memory!Init

(* Every variable holds a value of its type; each key made holds the       *)
(* passphrase of one pool, and no two pools share a key.                   *)
TypeOK ==
    /\ backend \in Backends /\ finds_all \in FindsAll
    /\ ring \in [Pools -> 0 .. keys]
    /\ \A p, q \in Pools : ring[p] = ring[q] /\ ring[p] # 0 => p = q
    /\ payload \in [1 .. MaxKeys -> Passphrases \cup {NoPass}]
    /\ keys \in 0 .. MaxKeys /\ revoked \subseteq 1 .. keys
    /\ call \in [Callers -> Storage!Calls \cup {Storage!NoCall}]
    /\ found \in [Callers -> 0 .. keys]
    /\ answer \in [Callers ->
          {Storage!NoAnswer, Storage!Failure} \cup
          [kind : {"Ok"}, pass : Passphrases \cup {NoPass, Garbage}]]
    /\ borrowed \in [Callers -> alive \cup {NoString}]
    /\ Memory!TypeOK

-----------------------------------------------------------------------------
(* store borrows a string that is not empty: the kernel takes no empty key. *)
Start(c) ==
    /\ call[c] = Storage!NoCall
    /\ \E k \in Storage!Calls :
        /\ call' = [call EXCEPT ![c] = k]
        /\ IF k.op = "store"
           THEN \E s \in alive : pages[s] # {} /\ borrowed' = [borrowed EXCEPT ![c] = s]
           ELSE UNCHANGED borrowed
    /\ UNCHANGED <<kernel, found, answer, memory>>

Finish(c) ==
    /\ call[c] # Storage!NoCall /\ answer[c] # Storage!NoAnswer
    /\ call' = [call EXCEPT ![c] = Storage!NoCall]
    /\ answer' = [answer EXCEPT ![c] = Storage!NoAnswer]
    /\ found' = [found EXCEPT ![c] = 0]
    /\ borrowed' = [borrowed EXCEPT ![c] = NoString]
    /\ UNCHANGED <<kernel, memory>>

Runs(c, op, by) ==
    call[c].op = op /\ answer[c] = Storage!NoAnswer /\ backend = by

Ok(c, pass) == answer' = [answer EXCEPT ![c] = Storage!Answered(pass)]
Error(c) == answer' = [answer EXCEPT ![c] = Storage!Failure]

(* Faulty variant: a failed add_key is not noticed.                        *)
store_unchecked(c) ==
    /\ Runs(c, "store", "linux")
    /\ LET p == call[c].pool
       IN  IF Live(p)
           THEN /\ payload' = [payload EXCEPT ![ring[p]] = call[c].pass]
                /\ UNCHANGED <<ring, keys>>
           ELSE IF keys < MaxKeys
           THEN /\ keys' = keys + 1
                /\ ring' = [ring EXCEPT ![p] = keys']
                /\ payload' = [payload EXCEPT ![keys'] = call[c].pass]
           ELSE UNCHANGED <<ring, payload, keys>>
    /\ Ok(c, NoPass)
    /\ UNCHANGED <<revoked, call, found, borrowed, memory>>

(* Faulty variant: one description for all pools.                          *)
store_one_key(c) ==
    /\ Runs(c, "store", "linux") /\ keys < MaxKeys
    /\ keys' = keys + 1
    /\ ring' = [p \in Pools |-> keys']
    /\ payload' = [payload EXCEPT ![keys'] = call[c].pass]
    /\ Ok(c, NoPass)
    /\ UNCHANGED <<revoked, call, found, borrowed, memory>>

(* add_key: an update, a new key, or an error, of quota or another.        *)
store(c) ==
    /\ Runs(c, "store", "linux")
    /\ LET p == call[c].pool
       IN  \/ /\ Live(p)
              /\ payload' = [payload EXCEPT ![ring[p]] = call[c].pass]
              /\ Ok(c, NoPass) /\ UNCHANGED <<ring, keys>>
           \/ /\ ~Live(p) /\ keys < MaxKeys
              /\ keys' = keys + 1
              /\ ring' = [ring EXCEPT ![p] = keys']
              /\ payload' = [payload EXCEPT ![keys'] = call[c].pass]
              /\ Ok(c, NoPass)
           \/ Error(c) /\ UNCHANGED <<ring, payload, keys>>
    /\ UNCHANGED <<revoked, call, found, borrowed, memory>>

(* A key id below 0, for whatever reason, is taken for not found: None, or *)
(* nothing to remove.                                                      *)
request_key(c) ==
    /\ \E op \in {"retrieve", "remove"} : Runs(c, op, "linux")
    /\ found[c] = 0
    /\ LET p == call[c].pool
       IN  \/ Live(p) /\ found' = [found EXCEPT ![c] = ring[p]] /\ UNCHANGED answer
           \/ ~(Live(p) /\ finds_all) /\ Ok(c, NoPass) /\ UNCHANGED found
    /\ UNCHANGED <<kernel, call, borrowed, memory>>

(* Faulty variant: a negative length is taken for one.                     *)
keyctl_read_unchecked(c) ==
    /\ Runs(c, "retrieve", "linux") /\ found[c] # 0
    /\ Ok(c, IF found[c] \in revoked THEN Garbage ELSE payload[found[c]])
    /\ \E s \in Strings : Memory!from_str(s)
    /\ UNCHANGED <<kernel, call, found, borrowed>>

(* What is read is returned in a SecureString, in a place that is free; a  *)
(* read that fails and bytes that are no UTF-8 are errors.                 *)
keyctl_read(c) ==
    /\ Runs(c, "retrieve", "linux") /\ found[c] # 0
    /\ \/ Error(c) /\ UNCHANGED memory
       \/ /\ found[c] \notin revoked
          /\ Ok(c, payload[found[c]])
          /\ \E s \in Strings : Memory!from_str(s)
    /\ UNCHANGED <<kernel, call, found, borrowed>>

keyctl_revoke(c) ==
    /\ Runs(c, "remove", "linux") /\ found[c] # 0
    /\ \/ /\ found[c] \notin revoked
          /\ revoked' = revoked \cup {found[c]} /\ Ok(c, NoPass)
       \/ Error(c) /\ UNCHANGED revoked
    /\ UNCHANGED <<ring, payload, keys, call, found, borrowed, memory>>

(* MemoryKeyVault: every call is Ok, and nothing is kept.                  *)
MemoryKeyVault(c) ==
    /\ \E op \in {"store", "retrieve", "remove"} : Runs(c, op, "memory")
    /\ Ok(c, NoPass)
    /\ UNCHANGED <<kernel, call, found, borrowed, memory>>

(* Whoever owns a string makes, clones, unlocks, drops or consumes it, the *)
(* last three only when no store borrows it.                               *)
Owner ==
    /\ \E s \in Strings :
        \/ Memory!new(s, Memory!Spans)
        \/ \E t \in Strings : Memory!clone(t, s)
        \/ /\ \A c \in Callers : borrowed[c] # s
           /\ Memory!unlock(s) \/ Memory!drop(s) \/ Memory!into_string(s)
    /\ UNCHANGED <<kernel, call, found, answer, borrowed>>

Next ==
    /\ \/ \E c \in Callers :
            \/ Start(c) \/ Finish(c)
            \/ store(c) \/ request_key(c) \/ keyctl_read(c) \/ keyctl_revoke(c)
            \/ MemoryKeyVault(c)
       \/ Owner
    /\ UNCHANGED setting

Spec == Init /\ [][Next]_vars

-----------------------------------------------------------------------------
(* Whatever happens between two system calls of one call, each call has    *)
(* its effect at one moment or fails without any: a retrieve never returns *)
(* what was not stored at some moment during it, and a remove takes effect *)
(* on what is stored then.  So the kernel keyring, if request_key finds    *)
(* every live key; if it does not, retrieve and remove may do nothing and  *)
(* say Ok, and MemoryKeyVault keeps nothing.                               *)
ImplementsKeyStorage ==
    /\ Storage!Init
    /\ [][backend = "linux" /\ finds_all => Storage!Next]_<<stored, call, answer>>

(* No backend makes up a passphrase or returns that of another pool, or    *)
(* one removed or replaced before the call, whatever request_key finds.    *)
RetrieveTrue ==
    [][\A c \in Callers :
          /\ call[c] \in Storage!Calls /\ call[c].op = "retrieve"
          /\ answer[c] = Storage!NoAnswer /\ answer'[c] \notin {Storage!NoAnswer, Storage!Failure}
          => answer'[c].pass \in {NoPass, stored[call[c].pool]}]_vars

(* What SecureString keeps, whoever uses the strings.                      *)
UnlockedByHolder == Memory!UnlockedByHolder
LocksReleased == Memory!LocksReleased
=============================================================================
