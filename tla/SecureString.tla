---------------------------- MODULE SecureString ----------------------------
(***************************************************************************)
(* SecureString of crates/zfswatch-keys/src/memory.rs: strings whose pages *)
(* are locked in memory.  mlock and munlock work on whole pages, do not    *)
(* nest, and several strings may lie on a page, as the allocator pleases.  *)
(* The bytes of a string never move while it lives.                        *)
(*                                                                         *)
(* holds and leaked are history variables: the strings whose mlock was not *)
(* matched by a munlock yet, and the pages of strings turned into a plain  *)
(* String while locked.                                                    *)
(***************************************************************************)
EXTENDS Naturals, FiniteSets

CONSTANTS
    Strings,    \* places for a string
    Pages,
    MaxSpan,    \* bound: pages a string lies on
    MemLock     \* RLIMIT_MEMLOCK in pages

VARIABLES
    alive,          \* the SecureStrings there are
    pages,          \* string -> the pages it lies on; none when empty
    locked,         \* the strings whose field locked is true
    kernel_locked,  \* the pages the kernel keeps in memory
    holds, leaked   \* history

vars == <<alive, pages, locked, kernel_locked, holds, leaked>>

Spans == {span \in SUBSET Pages : Cardinality(span) <= MaxSpan}

Init ==
    /\ alive = {} /\ locked = {} /\ holds = {}
    /\ pages = [s \in Strings |-> {}]
    /\ kernel_locked = {} /\ leaked = {}

(* Every variable holds a value of its type; only live strings that are    *)
(* not empty are locked, and the kernel keeps to its limit.                *)
TypeOK ==
    /\ alive \subseteq Strings
    /\ pages \in [Strings -> Spans]
    /\ locked \subseteq {s \in alive : pages[s] # {}}
    /\ kernel_locked \subseteq Pages /\ Cardinality(kernel_locked) <= MemLock
    /\ holds \subseteq alive
    /\ leaked \subseteq Pages

-----------------------------------------------------------------------------
(* mlock locks all pages, or none for want of room or of the right.        *)
new(s, spans) ==
    /\ s \notin alive /\ alive' = alive \cup {s}
    /\ \E span \in spans :
        /\ pages' = [pages EXCEPT ![s] = span]
        /\ \/ /\ span # {} /\ Cardinality(kernel_locked \cup span) <= MemLock
              /\ kernel_locked' = kernel_locked \cup span
              /\ locked' = locked \cup {s} /\ holds' = holds \cup {s}
           \/ UNCHANGED <<kernel_locked, locked, holds>>
    /\ UNCHANGED leaked

(* from_str of a text that is not empty.                                   *)
from_str(s) == new(s, Spans \ {{}})

(* The copy in s lies elsewhere, and is as empty as the original t.        *)
clone(t, s) ==
    /\ t \in alive
    /\ new(s, {span \in Spans : span = {} <=> pages[t] = {}})

munlock(s) ==
    IF s \in locked /\ pages[s] # {}
    THEN kernel_locked' = kernel_locked \ pages[s] /\ holds' = holds \ {s}
    ELSE UNCHANGED <<kernel_locked, holds>>

(* Faulty variant: the field is left as it is.                             *)
unlock_keep(s) ==
    /\ s \in alive
    /\ munlock(s)
    /\ UNCHANGED <<alive, pages, locked, leaked>>

unlock(s) ==
    /\ s \in alive
    /\ munlock(s)
    /\ locked' = IF pages[s] = {} THEN locked ELSE locked \ {s}
    /\ UNCHANGED <<alive, pages, leaked>>

Gone(s) ==
    /\ alive' = alive \ {s} /\ locked' = locked \ {s}
    /\ pages' = [pages EXCEPT ![s] = {}]

(* Faulty variant: unlock() is left to the caller.                         *)
drop_locked(s) ==
    /\ s \in alive
    /\ Gone(s) /\ holds' = holds \ {s}
    /\ UNCHANGED <<kernel_locked, leaked>>

drop(s) ==
    /\ s \in alive
    /\ munlock(s)
    /\ Gone(s)
    /\ UNCHANGED leaked

(* The bytes go to the caller; drop then finds an empty string.            *)
into_string(s) ==
    /\ s \in alive
    /\ Gone(s) /\ holds' = holds \ {s}
    /\ leaked' = IF s \in locked THEN leaked \cup pages[s] ELSE leaked
    /\ UNCHANGED kernel_locked

-----------------------------------------------------------------------------
(* A page is unlocked only by a string on it that locked it and has not    *)
(* unlocked it before: a string whose mlock failed, or one unlocked and    *)
(* then dropped, unlocks nothing.  A string that does hold a lock unlocks  *)
(* its pages for its neighbours too: munlock does not nest.                *)
UnlockedByHolder ==
    [][\A p \in kernel_locked \ kernel_locked' : \E s \in holds \ holds' : p \in pages[s]]_vars

(* Drop and unlock leave no lock behind: a locked page has a locked string *)
(* on it, or had one when into_string turned that into a plain String,     *)
(* which is the one way in which locks do pile up.                         *)
LocksReleased == kernel_locked \subseteq leaked \cup UNION {pages[s] : s \in locked}
=============================================================================
