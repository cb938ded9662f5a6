---------------------------- MODULE CommandRunner ----------------------------
(***************************************************************************)
(* RealCommandRunner::run of crates/zfswatch-zfs/src/command.rs: one call, *)
(* the child process it spawns and the pipes between them.  Given a line   *)
(* for the child's stdin, only stdin is a pipe and what the child prints   *)
(* goes where the daemon's own output goes; otherwise output() makes pipes *)
(* of stdout and stderr and reads both until every writer has closed them, *)
(* a descendant that outlives the child included.                          *)
(*                                                                         *)
(* A child that wants a line or all of its stdin does what it is for only  *)
(* after it has read that; effect says that it has.  Data are counted in   *)
(* units of which a pipe holds PipeCapacity.                               *)
(***************************************************************************)
EXTENDS Naturals

CONSTANTS
    InputLen,       \* units of the line and its newline
    OutputLen,      \* bound: units a child prints to each stream
    PipeCapacity

ASSUME RunnerAssumption ==
    /\ InputLen \in Nat \ {0} /\ PipeCapacity \in Nat \ {0}
    /\ OutputLen \in Nat

VARIABLES
    input,      \* stdin_input is Some
    pc,         \* "spawn", "write", "shutdown", "wait", "returned"
    written,    \* units of the line written so far
    stdin,      \* units in the stdin pipe
    stdin_open, \* the runner has not closed its end
    kept,       \* stream -> units the runner has read
    result,     \* what run() returned
    child,      \* "none", "running", "ended"
    wants,      \* what the child reads before its effect: "nothing", "line", "all"
    got,        \* units of stdin it has read
    todo,       \* stream -> units it has yet to print
    said,       \* stream -> units it has printed
    pipe,       \* stream -> units in the pipe
    effect, status,     \* of the child
    heir        \* a descendant that still holds the child's stdout and stderr

runner == <<pc, written, stdin_open, kept, result>>
process == <<child, wants, got, todo, said, effect, status, heir>>
vars == <<input, runner, process, stdin, pipe>>

Streams == {"stdout", "stderr"}

NoResult == [kind |-> "none"]
Stages == {"spawn", "write", "wait"}    \* of run(), each with its own Err
Err(stage) == [kind |-> "err", at |-> stage]
Output(streams, ok) == [kind |-> "ok", stdout |-> streams["stdout"], stderr |-> streams["stderr"], success |-> ok]

Nothing == [s \in Streams |-> 0]

Init ==
    /\ input \in BOOLEAN
    /\ pc = "spawn" /\ written = 0 /\ stdin_open = TRUE
    /\ kept = Nothing /\ result = NoResult
    /\ child = "none" /\ got = 0
    /\ wants \in IF input THEN {"nothing", "line", "all"} ELSE {"nothing"}
    /\ todo \in [Streams -> 0 .. OutputLen]
    /\ said = Nothing /\ pipe = Nothing /\ stdin = 0
    /\ effect = FALSE /\ status = "none" /\ heir = FALSE

(* Every variable holds a value of its type; no unit of the line is in two *)
(* places, and no pipe holds more than it can.                             *)
TypeOK ==
    /\ input \in BOOLEAN
    /\ pc \in {"spawn", "write", "shutdown", "wait", "returned"}
    /\ written \in 0 .. InputLen /\ stdin \in 0 .. PipeCapacity /\ got \in 0 .. InputLen
    /\ got + stdin = written
    /\ stdin_open \in BOOLEAN
    /\ kept \in [Streams -> Nat] /\ said \in [Streams -> Nat] /\ todo \in [Streams -> Nat]
    /\ pipe \in [Streams -> 0 .. PipeCapacity]
    /\ result \in {NoResult} \cup {Err(stage) : stage \in Stages}
                   \cup [kind : {"ok"}, stdout : Nat, stderr : Nat, success : BOOLEAN]
    /\ pc = "returned" <=> result # NoResult
    /\ child \in {"none", "running", "ended"}
    /\ wants \in {"nothing", "line", "all"}
    /\ effect \in BOOLEAN /\ heir \in BOOLEAN
    /\ status \in {"none", "zero", "nonzero"}

-----------------------------------------------------------------------------
(* The runner.                                                             *)

Return(r) == pc' = "returned" /\ result' = r

spawn ==
    /\ pc = "spawn"
    /\ \/ /\ child' = "running"
          /\ pc' = IF input THEN "write" ELSE "wait"
          /\ UNCHANGED result
       \/ Return(Err("spawn")) /\ UNCHANGED child
    /\ UNCHANGED <<input, written, stdin_open, kept, wants, got, todo, said, effect, status,
                   heir, stdin, pipe>>

(* Faulty variant: the error is noted, and the call goes on.               *)
write_all_go_on ==
    /\ pc = "write"
    /\ IF child = "running"
       THEN /\ stdin < PipeCapacity
            /\ stdin' = stdin + 1 /\ written' = written + 1 /\ UNCHANGED result
            /\ pc' = IF written' = InputLen THEN "shutdown" ELSE pc
       ELSE /\ result' = Err("write") /\ pc' = "shutdown" /\ UNCHANGED <<stdin, written>>
    /\ UNCHANGED <<input, stdin_open, kept, process, pipe>>

(* write_all waits for room; the end of its only reader is an error, and   *)
(* the child, dropped, is not killed.                                      *)
write_all ==
    /\ pc = "write"
    /\ \/ /\ child = "running" /\ stdin < PipeCapacity
          /\ stdin' = stdin + 1 /\ written' = written + 1
          /\ pc' = IF written' = InputLen THEN "shutdown" ELSE pc
          /\ UNCHANGED <<result, stdin_open>>
       \/ /\ child = "ended"
          /\ Return(Err("write")) /\ stdin_open' = FALSE
          /\ UNCHANGED <<stdin, written>>
    /\ UNCHANGED <<input, kept, process, pipe>>

(* Faulty variant: an error of shutdown counts.                            *)
shutdown_checked ==
    /\ pc = "shutdown" /\ stdin_open' = FALSE
    /\ IF child = "ended" THEN Return(Err("write")) ELSE pc' = "wait" /\ UNCHANGED result
    /\ UNCHANGED <<input, written, kept, process, stdin, pipe>>

(* The end of the block drops stdin, whatever shutdown() said.             *)
shutdown ==
    /\ pc = "shutdown"
    /\ pc' = "wait" /\ stdin_open' = FALSE
    /\ UNCHANGED <<input, written, kept, result, process, stdin, pipe>>

(* Faulty variant: stdout is read to its end before stderr.                *)
drain_in_turn(s) ==
    /\ pc = "wait" /\ pipe[s] > 0
    /\ s = "stderr" => child = "ended" /\ pipe["stdout"] = 0
    /\ pipe' = [pipe EXCEPT ![s] = @ - 1]
    /\ kept' = [kept EXCEPT ![s] = @ + 1]
    /\ UNCHANGED <<input, pc, written, stdin_open, result, process, stdin>>

drain(s) ==
    /\ pc = "wait" /\ pipe[s] > 0
    /\ pipe' = [pipe EXCEPT ![s] = @ - 1]
    /\ kept' = [kept EXCEPT ![s] = @ + 1]
    /\ UNCHANGED <<input, pc, written, stdin_open, result, process, stdin>>

(* Faulty variant: the end of the child is enough.                         *)
wait_with_output_early ==
    /\ pc = "wait" /\ child = "ended"
    /\ Return(Output(kept, status = "zero"))
    /\ UNCHANGED <<input, written, stdin_open, kept, process, stdin, pipe>>

(* Faulty variant: a command that complains has failed, others have not.   *)
wait_with_output_quiet ==
    /\ pc = "wait" /\ child = "ended"
    /\ ~input => ~heir /\ pipe = Nothing
    /\ Return(Output(kept, kept["stderr"] = 0))
    /\ UNCHANGED <<input, written, stdin_open, kept, process, stdin, pipe>>

(* The child has ended, and its streams, where they are pipes, are empty   *)
(* and closed.                                                             *)
wait_with_output ==
    /\ pc = "wait" /\ child = "ended"
    /\ ~input => ~heir /\ pipe = Nothing
    /\ Return(Output(kept, status = "zero"))
    /\ UNCHANGED <<input, written, stdin_open, kept, process, stdin, pipe>>

(* The child cannot be waited for or its output not read: run() is over    *)
(* with an Err, whatever the child does or has done.                       *)
wait_fails ==
    /\ pc = "wait" /\ Return(Err("wait"))
    /\ UNCHANGED <<input, written, stdin_open, kept, process, stdin, pipe>>

Runner ==
    \/ spawn \/ write_all \/ shutdown \/ wait_with_output
    \/ \E s \in Streams : drain(s)

-----------------------------------------------------------------------------
(* The child.                                                              *)

HasRead ==
    CASE wants = "nothing" -> TRUE
      [] wants = "line"    -> got = InputLen
      [] wants = "all"     -> got = InputLen /\ ~stdin_open

Read ==
    /\ child = "running" /\ wants # "nothing" /\ stdin > 0
    /\ stdin' = stdin - 1 /\ got' = got + 1
    /\ UNCHANGED <<input, runner, child, wants, todo, said, effect, status, heir, pipe>>

Act ==
    /\ child = "running" /\ HasRead /\ ~effect
    /\ effect' = TRUE
    /\ UNCHANGED <<input, runner, child, wants, got, todo, said, status, heir, stdin, pipe>>

(* To a pipe it waits for room, as long as run() keeps the other end: what *)
(* it prints after an Err is lost.                                         *)
Say(s) ==
    /\ child = "running" /\ todo[s] > 0
    /\ todo' = [todo EXCEPT ![s] = @ - 1]
    /\ said' = [said EXCEPT ![s] = @ + 1]
    /\ IF input \/ result.kind = "err" THEN UNCHANGED pipe
       ELSE pipe[s] < PipeCapacity /\ pipe' = [pipe EXCEPT ![s] = @ + 1]
    /\ UNCHANGED <<input, runner, child, wants, got, effect, status, heir, stdin>>

(* It exits with 0 only when it did what it is for; it may refuse before   *)
(* it reads, fail after it acted, and leave a descendant behind.           *)
End ==
    /\ child = "running" /\ todo = Nothing
    /\ child' = "ended"
    /\ status' \in {"zero", "nonzero"} /\ (status' = "zero" => effect)
    /\ heir' \in BOOLEAN
    /\ UNCHANGED <<input, runner, wants, got, todo, said, effect, stdin, pipe>>

Kill ==
    /\ child = "running"
    /\ child' = "ended" /\ status' = "nonzero"
    /\ UNCHANGED <<input, runner, wants, got, todo, said, effect, heir, stdin, pipe>>

HeirEnds ==
    /\ heir /\ heir' = FALSE
    /\ UNCHANGED <<input, runner, child, wants, got, todo, said, effect, status, stdin, pipe>>

Child == Read \/ Act \/ (\E s \in Streams : Say(s)) \/ End \/ Kill \/ HeirEnds

(* run() has returned and no process is left.                              *)
Over == pc = "returned" /\ child # "running" /\ ~heir /\ UNCHANGED vars

Next == Runner \/ wait_fails \/ Child \/ Over

Spec == Init /\ [][Next]_vars

(* The runtime polls the call, and no wait has to fail; a child reads,     *)
(* acts and prints as long as it can and then ends, unless it waits for    *)
(* the end of its stdin.                                                   *)
Ends ==
    /\ wants # "nothing" => HasRead
    /\ End

FairSpec ==
    /\ Spec
    /\ WF_vars(Runner) /\ WF_vars(Read) /\ WF_vars(Ends) /\ WF_vars(HeirEnds)
    /\ \A s \in Streams : WF_vars(Say(s))

-----------------------------------------------------------------------------
(* run() says the truth of a child it waited for: success if and only if   *)
(* the child exited with 0, which it does only after its effect, whatever  *)
(* it printed.                                                             *)
SuccessMeansEffect ==
    result.kind = "ok" => /\ result.success => effect
                          /\ ~result.success => status = "nonzero"

(* An Err of run() before it waits says what the child did: one that reads *)
(* its stdin has had no effect and never will.  After an Err of the wait   *)
(* itself it may have had it, or have it yet.                              *)
ErrMeansNoEffect ==
    result \in {Err("spawn"), Err("write")} /\ wants # "nothing" =>
        ~effect /\ child # "running"

(* Captured output is complete: all the child printed, however the reading *)
(* of two streams, the end of the child and of its descendants fall out.   *)
OutputComplete ==
    result.kind = "ok" /\ ~input =>
        result.stdout = said["stdout"] /\ result.stderr = said["stderr"]

(* run() returns: child and runner never wait for each other, not over     *)
(* pipes that are full or empty nor over an end of file.                   *)
RunReturns == <>(result # NoResult)
=============================================================================
