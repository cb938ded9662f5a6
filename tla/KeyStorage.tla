----------------------------- MODULE KeyStorage -----------------------------
(***************************************************************************)
(* What the trait KeyStorage of crates/zfswatch-keys/src/lib.rs promises:  *)
(* a map from pools to passphrases.  Callers call store, retrieve and      *)
(* remove at the same time; each call has its effect at one moment between *)
(* its start and its return, or fails and has none.                        *)
(***************************************************************************)
CONSTANTS Callers, Pools, Passphrases, NoPass

VARIABLES
    stored,     \* pool -> the passphrase stored for it, or NoPass
    call,       \* caller -> the call it makes, or NoCall
    answer      \* caller -> what the call it makes will return

vars == <<stored, call, answer>>

Calls ==
    [op : {"store"}, pool : Pools, pass : Passphrases]
        \cup [op : {"retrieve", "remove"}, pool : Pools, pass : {NoPass}]
NoCall == [op |-> "none"]

NoAnswer == [kind |-> "none"]
Failure == [kind |-> "Err"]
Answered(pass) == [kind |-> "Ok", pass |-> pass]

Init ==
    /\ stored = [p \in Pools |-> NoPass]
    /\ call = [c \in Callers |-> NoCall]
    /\ answer = [c \in Callers |-> NoAnswer]

Start(c) ==
    /\ call[c] = NoCall
    /\ \E k \in Calls : call' = [call EXCEPT ![c] = k]
    /\ UNCHANGED <<stored, answer>>

Finish(c) ==
    /\ call[c] # NoCall /\ answer[c] # NoAnswer
    /\ call' = [call EXCEPT ![c] = NoCall]
    /\ answer' = [answer EXCEPT ![c] = NoAnswer]
    /\ UNCHANGED stored

Pending(c) == call[c] # NoCall /\ answer[c] = NoAnswer

Succeed(c) ==
    /\ Pending(c)
    /\ LET k == call[c]
       IN  /\ stored' = IF k.op = "retrieve" THEN stored ELSE [stored EXCEPT ![k.pool] = k.pass]
           /\ answer' = [answer EXCEPT
                ![c] = Answered(IF k.op = "retrieve" THEN stored[k.pool] ELSE NoPass)]
    /\ UNCHANGED call

Fail(c) ==
    /\ Pending(c)
    /\ answer' = [answer EXCEPT ![c] = Failure]
    /\ UNCHANGED <<stored, call>>

Next == \E c \in Callers : Start(c) \/ Succeed(c) \/ Fail(c) \/ Finish(c)

Spec == Init /\ [][Next]_vars
=============================================================================
