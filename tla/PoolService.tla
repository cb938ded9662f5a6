----------------------------- MODULE PoolService -----------------------------
(***************************************************************************)
(* What a client of zfswatchd may rely on, whatever the daemon does inside:*)
(* a request has the effects it asks for one after the other, each at most *)
(* once, between the moment it is asked and the moment it is answered; the *)
(* answer Success means it had all of them.  An Error promises little: the *)
(* effects so far stay, the last may be halfway, and the next may still    *)
(* happen later, as it may when a request is lost (never answered) or the  *)
(* daemon dies; nothing beyond that next effect does.                      *)
(***************************************************************************)
EXTENDS Protocol

CONSTANT Conns

VARIABLES
    zfs,        \* pool -> its state
    asked,      \* connection -> the request in progress
    effects,    \* connection -> the effects it had so far
    answer,     \* connection -> "none", "Success", "Error", "Data", "Lost"
    late        \* commands that may outlive their request

vars == <<zfs, asked, effects, answer, late>>

Init ==
    /\ zfs \in [Pools -> {s \in PoolStates : Consistent(s)}]
    /\ asked = [c \in Conns |-> Request("none")]
    /\ effects = [c \in Conns |-> <<>>]
    /\ answer = [c \in Conns |-> "none"]
    /\ late = {}

Idle(c) == asked[c].op = "none"

(* The command, if any, that would have the next effect of c's request.    *)
Pending(c) ==
    {CommandFor(asked[c], Effects(asked[c])[i]) :
        i \in {j \in DOMAIN Effects(asked[c]) : j = Len(effects[c]) + 1}}

(* A request that asks for no effect may be answered right away.           *)
Ask(c) ==
    /\ Idle(c)
    /\ \E r \in Requests :
        /\ r.op # "none"
        /\ asked' = [asked EXCEPT ![c] = r]
        /\ \E a \in {"none", "Error", "Data"} : answer' = [answer EXCEPT ![c] = a]
    /\ UNCHANGED <<zfs, effects, late>>

(* The effect may come with the answer; an Error may come with the effect  *)
(* or half of it, when its command ends abnormally.                        *)
Take(c) ==
    /\ answer[c] = "none"
    /\ \E k \in Pending(c), a \in {"none", "Error", "Success"} :
        /\ Allowed(zfs[k.pool], k)
        /\ \E s \in LeftBehind(zfs[k.pool], k) :
            /\ a # "Error" => s = Effect(zfs[k.pool], k)
            /\ zfs' = [zfs EXCEPT ![k.pool] = s]
        /\ effects' = [effects EXCEPT ![c] = Append(@, k.op)]
        /\ a = "Success" => effects'[c] = Effects(asked[c])
        /\ answer' = [answer EXCEPT ![c] = a]
    /\ UNCHANGED <<asked, late>>

(* Queries, failures and the end of a request have no effect, but the next *)
(* one may come late when the request fails or is lost.                    *)
Conclude(c) ==
    /\ ~Idle(c) /\ answer[c] = "none"
    /\ \E a \in {"Error", "Data", "Success", "Lost"} :
        /\ a = "Success" => effects[c] = Effects(asked[c])
        /\ answer' = [answer EXCEPT ![c] = a]
        /\ late' \in {late} \cup IF a \in {"Error", "Lost"} THEN {late \cup Pending(c)} ELSE {}
    /\ UNCHANGED <<zfs, asked, effects>>

Return(c) ==
    /\ answer[c] \notin {"none", "Lost"}
    /\ asked' = [asked EXCEPT ![c] = Request("none")]
    /\ effects' = [effects EXCEPT ![c] = <<>>]
    /\ answer' = [answer EXCEPT ![c] = "none"]
    /\ UNCHANGED <<zfs, late>>

Die ==
    /\ \E cs \in SUBSET {c \in Conns : answer[c] = "none"} :
        late' = late \cup UNION {Pending(c) : c \in cs}
    /\ asked' = [c \in Conns |-> Request("none")]
    /\ effects' = [c \in Conns |-> <<>>]
    /\ answer' = [c \in Conns |-> "none"]
    /\ UNCHANGED zfs

Late ==
    /\ \E k \in late :
        /\ late' = late \ {k}
        /\ \/ /\ Allowed(zfs[k.pool], k)
              /\ \E s \in LeftBehind(zfs[k.pool], k) : zfs' = [zfs EXCEPT ![k.pool] = s]
           \/ UNCHANGED zfs
    /\ UNCHANGED <<asked, effects, answer>>

Next == (\E c \in Conns : Ask(c) \/ Take(c) \/ Conclude(c) \/ Return(c)) \/ Die \/ Late

Spec == Init /\ [][Next]_vars
=============================================================================
