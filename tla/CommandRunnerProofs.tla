------------------------- MODULE CommandRunnerProofs -------------------------
(***************************************************************************)
(* What RealCommandRunner::run returns is true of its child, for lines,    *)
(* outputs and pipes of any size: RunnerOK, the strengthening, is          *)
(* inductive together with TypeOK, and the three properties follow.        *)
(* The last part is about why it returns.                                  *)
(***************************************************************************)
EXTENDS CommandRunner, TLAPS

(* What the child has done by what it has read and how it ended, and what  *)
(* the runner has written and read by where it is.                         *)
ChildOK ==
    /\ child = "none" => ~effect
    /\ pc = "spawn" <=> child = "none" /\ result = NoResult
    /\ effect /\ wants # "nothing" => got = InputLen
    /\ child = "ended" => status # "none" /\ (status = "zero" => effect)

WriteOK ==
    /\ pc \in {"spawn", "write"} => written < InputLen
    /\ result = Err("spawn") => child = "none"
    /\ result = Err("write") => child = "ended" /\ written < InputLen

OutputOK ==
    /\ ~input /\ result.kind # "err" => \A s \in Streams : said[s] = kept[s] + pipe[s]
    /\ result.kind = "ok" =>
        /\ child = "ended"
        /\ result.success = (status = "zero")
        /\ ~input => \A s \in Streams : pipe[s] = 0
        /\ result.stdout = kept["stdout"] /\ result.stderr = kept["stderr"]

RunnerOK == TypeOK /\ ChildOK /\ WriteOK /\ OutputOK

-----------------------------------------------------------------------------
(* The results a call may have differ.                                     *)
LEMMA ResultsDiffer ==
    ASSUME NEW k, NEW b
    PROVE  /\ NoResult.kind = "none"
           /\ \A at : /\ Err(at).kind = "err" /\ Err(at).at = at
                     /\ NoResult # Err(at) /\ Output(k, b) # Err(at)
           /\ Output(k, b).kind = "ok" /\ Output(k, b) # NoResult
           /\ Output(k, b).success = b
           /\ Output(k, b).stdout = k["stdout"] /\ Output(k, b).stderr = k["stderr"]
BY DEF NoResult, Err, Output

LEMMA ResultsTyped == \A r : r \in {NoResult, Err("spawn"), Err("write"), Err("wait")} =>
                        r \in {NoResult} \cup {Err(stage) : stage \in Stages}
BY DEF Stages

LEMMA RunnerInit == Init => RunnerOK
<1> SUFFICES ASSUME Init PROVE RunnerOK
    OBVIOUS
<1> USE RunnerAssumption
<1>1. TypeOK
  <2>1. /\ Nothing \in [Streams -> Nat] /\ Nothing \in [Streams -> 0 .. PipeCapacity]
        /\ todo \in [Streams -> Nat]
      BY DEF Init, Nothing
  <2>2. wants \in {"nothing", "line", "all"}
      BY DEF Init
  <2>3. /\ 0 \in 0 .. InputLen /\ 0 \in 0 .. PipeCapacity /\ 0 + 0 = 0
        /\ "spawn" # "returned"
      OBVIOUS
  <2> QED
      BY <2>1, <2>2, <2>3, Zenon DEF Init, TypeOK
<1>2. ChildOK
    BY DEF Init, ChildOK
<1>3. WriteOK
    BY ResultsDiffer DEF Init, WriteOK
<1>4. OutputOK
    BY ResultsDiffer DEF Init, OutputOK, Nothing, Streams
<1> QED
    BY <1>1, <1>2, <1>3, <1>4 DEF RunnerOK

(* The runner's steps up to its wait: none touches what the child printed. *)
LEMMA WriterStep ==
    ASSUME RunnerOK, spawn \/ write_all \/ shutdown
    PROVE  RunnerOK'
<1> USE RunnerAssumption DEF RunnerOK
<1>1. CASE spawn
  <2>0. /\ pc' \in {"write", "wait", "returned"} /\ result' \in {NoResult, Err("spawn")}
        /\ pc' = "returned" <=> result' # NoResult
        /\ child' \in {"none", "running", "ended"}
      BY <1>1, ResultsDiffer DEF spawn, Return, TypeOK
  <2>1. TypeOK'
      BY <1>1, <2>0, ResultsTyped DEF spawn, TypeOK
  <2>2. ChildOK'
      BY <1>1, ResultsDiffer DEF spawn, Return, TypeOK, ChildOK
  <2>3. WriteOK'
      BY <1>1, ResultsDiffer DEF spawn, Return, TypeOK, ChildOK, WriteOK
  <2>4. OutputOK'
      BY <1>1, ResultsDiffer DEF spawn, Return, TypeOK, ChildOK, OutputOK
  <2> QED
      BY <2>1, <2>2, <2>3, <2>4
<1>2. CASE write_all
  <2>a. /\ pc' \in {"write", "shutdown", "returned"} /\ result' \in {NoResult, Err("write")}
        /\ pc' = "returned" <=> result' # NoResult
        /\ stdin_open' \in BOOLEAN
    <3>1. result = NoResult /\ stdin_open \in BOOLEAN /\ NoResult # Err("write")
        BY <1>2, ResultsDiffer DEF write_all, TypeOK
    <3> QED
        BY <1>2, <3>1 DEF write_all, Return
  <2>b. /\ written' \in 0 .. InputLen /\ stdin' \in 0 .. PipeCapacity
        /\ got' = got /\ got' + stdin' = written'
      BY <1>2 DEF write_all, TypeOK, WriteOK, process
  <2>1. TypeOK'
      BY <1>2, <2>a, <2>b, ResultsTyped DEF write_all, TypeOK, process
  <2>2. ChildOK'
      BY <1>2, ResultsDiffer DEF write_all, Return, TypeOK, ChildOK, process
  <2>3. WriteOK'
      BY <1>2, ResultsDiffer DEF write_all, Return, TypeOK, ChildOK, WriteOK, process
  <2>4. OutputOK'
      BY <1>2, ResultsDiffer DEF write_all, Return, TypeOK, OutputOK, process
  <2> QED
      BY <2>1, <2>2, <2>3, <2>4
<1>3. CASE shutdown
    BY <1>3 DEF shutdown, TypeOK, ChildOK, WriteOK, OutputOK, process
<1> QED
    BY <1>1, <1>2, <1>3

LEMMA WaiterStep ==
    ASSUME RunnerOK, wait_with_output \/ wait_fails \/ \E s \in Streams : drain(s)
    PROVE  RunnerOK'
<1> USE RunnerAssumption DEF RunnerOK
<1>1. CASE wait_with_output
  <2> DEFINE r == Output(kept, status = "zero")
  <2>0. result' = r /\ pc' = "returned" /\ pc = "wait" /\ child = "ended"
        /\ (~input => \A s \in Streams : pipe[s] = 0)
      BY <1>1 DEF wait_with_output, Return, Nothing, Streams
  <2>1. r \in [kind : {"ok"}, stdout : Nat, stderr : Nat, success : BOOLEAN]
      BY DEF Output, TypeOK, Streams
  <2>2. TypeOK'
      BY <1>1, <2>0, <2>1, ResultsDiffer DEF wait_with_output, TypeOK, process
  <2>3. ChildOK'
      BY <1>1, <2>0, ResultsDiffer DEF wait_with_output, ChildOK, process
  <2>4. WriteOK'
    <3>1. r # Err("spawn") /\ r # Err("write")
        BY DEF Output, Err
    <3>2. result' # Err("spawn") /\ result' # Err("write")
        BY <2>0, <3>1, Zenon
    <3>3. pc' \notin {"spawn", "write"}
        BY <2>0
    <3> QED
        BY <3>2, <3>3, Zenon DEF WriteOK
  <2>5. OutputOK'
    <3>1. result.kind = "none"
        BY <2>0, ResultsDiffer DEF TypeOK
    <3> QED
        BY <1>1, <2>0, <3>1, ResultsDiffer DEF wait_with_output, OutputOK, process
  <2> QED
      BY <2>2, <2>3, <2>4, <2>5
<1>2. ASSUME NEW s \in Streams, drain(s) PROVE RunnerOK'
  <2>0. result = NoResult
      BY <1>2 DEF drain, TypeOK
  <2>1. TypeOK'
      BY <1>2 DEF drain, TypeOK, process
  <2>2. ChildOK' /\ WriteOK'
      BY <1>2 DEF drain, ChildOK, WriteOK, process
  <2>3. OutputOK'
      BY <1>2, <2>0, ResultsDiffer DEF drain, OutputOK, TypeOK, process
  <2> QED
      BY <2>1, <2>2, <2>3
<1>3. CASE wait_fails
  <2>0. result' = Err("wait") /\ pc' = "returned" /\ pc = "wait" /\ result = NoResult
      BY <1>3 DEF wait_fails, Return, TypeOK
  <2>1. TypeOK'
      BY <1>3, <2>0, ResultsDiffer, ResultsTyped DEF wait_fails, TypeOK, process
  <2>2. ChildOK'
      BY <1>3, <2>0, ResultsDiffer DEF wait_fails, ChildOK, process
  <2>3. WriteOK'
      BY <1>3, <2>0, ResultsDiffer DEF wait_fails, WriteOK, process
  <2>4. OutputOK'
      BY <1>3, <2>0, ResultsDiffer DEF wait_fails, OutputOK, process
  <2> QED
      BY <2>1, <2>2, <2>3, <2>4
<1> QED
    BY <1>1, <1>2, <1>3

(* The child's steps: it runs, so run() has not returned, or only because  *)
(* it could not wait.                                                      *)
LEMMA ChildStep ==
    ASSUME RunnerOK, Child
    PROVE  RunnerOK'
<1> USE RunnerAssumption DEF RunnerOK
<1>1. CASE Read
  <2>1. TypeOK'
      BY <1>1 DEF Read, TypeOK, runner
  <2>2. ChildOK' /\ WriteOK' /\ OutputOK'
      BY <1>1 DEF Read, TypeOK, ChildOK, WriteOK, OutputOK, runner
  <2> QED
      BY <2>1, <2>2
<1>2. CASE Act
  <2>1. TypeOK'
      BY <1>2 DEF Act, TypeOK, runner
  <2>2. ChildOK' /\ WriteOK' /\ OutputOK'
      BY <1>2 DEF Act, HasRead, TypeOK, ChildOK, WriteOK, OutputOK, runner
  <2> QED
      BY <2>1, <2>2
<1>3. ASSUME NEW s \in Streams, Say(s) PROVE RunnerOK'
  <2>1. TypeOK'
      BY <1>3 DEF Say, TypeOK, runner
  <2>2. ChildOK' /\ WriteOK'
      BY <1>3 DEF Say, ChildOK, WriteOK, runner
  <2>3. OutputOK'
      BY <1>3 DEF Say, OutputOK, TypeOK, runner
  <2> QED
      BY <2>1, <2>2, <2>3
<1>4. CASE End
    BY <1>4 DEF End, TypeOK, ChildOK, WriteOK, OutputOK, runner
<1>5. CASE Kill
    BY <1>5 DEF Kill, TypeOK, ChildOK, WriteOK, OutputOK, runner
<1>6. CASE HeirEnds
  <2>0. heir' \in BOOLEAN
      BY <1>6 DEF HeirEnds
  <2>1. TypeOK'
      BY <1>6, <2>0 DEF HeirEnds, TypeOK, runner
  <2>2. ChildOK' /\ WriteOK' /\ OutputOK'
      BY <1>6 DEF HeirEnds, ChildOK, WriteOK, OutputOK, runner
  <2> QED
      BY <2>1, <2>2
<1> QED
    BY <1>1, <1>2, <1>3, <1>4, <1>5, <1>6 DEF Child

LEMMA RunnerNext == RunnerOK /\ [Next]_vars => RunnerOK'
<1> SUFFICES ASSUME RunnerOK, [Next]_vars PROVE RunnerOK'
    OBVIOUS
<1>1. CASE Runner
    BY <1>1, WriterStep, WaiterStep DEF Runner
<1>2. CASE Child
    BY <1>2, ChildStep
<1>3. CASE UNCHANGED vars
    BY <1>3 DEF vars, runner, process, RunnerOK, TypeOK, ChildOK, WriteOK, OutputOK
<1> QED
    BY <1>1, <1>2, <1>3, WaiterStep DEF Next, Over

(* The strengthening: at every step of run() and of its child, bytes are   *)
(* accounted for and the effect is known from what was read.               *)
THEOREM RunnerCorrect == Spec => []RunnerOK
BY RunnerInit, RunnerNext, PTL DEF Spec

(* run() and its child are well typed: no byte is read that was not        *)
(* written, whatever the pipe's capacity.                                  *)
THEOREM RunnerTypeCorrect == Spec => []TypeOK
<1>1. RunnerOK => TypeOK
    BY DEF RunnerOK
<1> QED
    BY <1>1, RunnerCorrect, PTL

(* run() reports success if and only if the child exited with 0, and then  *)
(* the child did what it is for.                                           *)
THEOREM SuccessIsEffect == Spec => []SuccessMeansEffect
<1>1. RunnerOK => SuccessMeansEffect
    BY DEF RunnerOK, TypeOK, ChildOK, OutputOK, SuccessMeansEffect
<1> QED
    BY <1>1, RunnerCorrect, PTL

(* After an Err of run() that is not of its wait a child that reads its    *)
(* stdin has had no effect and, having ended, never will.                  *)
THEOREM ErrIsNoEffect == Spec => []ErrMeansNoEffect
<1>1. RunnerOK => ErrMeansNoEffect
    BY RunnerAssumption DEF RunnerOK, TypeOK, ChildOK, WriteOK, ErrMeansNoEffect
<1> QED
    BY <1>1, RunnerCorrect, PTL

(* Output that is captured is all the child has printed.                   *)
THEOREM OutputIsComplete == Spec => []OutputComplete
<1>1. RunnerOK => OutputComplete
    BY DEF RunnerOK, TypeOK, OutputOK, OutputComplete, Streams
<1> QED
    BY <1>1, RunnerCorrect, PTL

-----------------------------------------------------------------------------
(* Why run() returns: as long as it has not, its own next step or one of   *)
(* its child can be taken, and every step leaves less to be done.  What    *)
(* remains for RunReturns is fairness.                                     *)

(* Only input is written, and all of it, its end included, before run()    *)
(* waits for the child.                                                    *)
PhaseOK ==
    /\ pc = "write" => input
    /\ pc \in {"shutdown", "wait"} /\ input => written = InputLen
    /\ pc = "wait" /\ input => ~stdin_open
    /\ wants # "nothing" => input

LEMMA PhaseInit == Init => PhaseOK
BY DEF Init, PhaseOK

LEMMA PhaseNext == RunnerOK /\ PhaseOK /\ [Next]_vars => PhaseOK'
<1> SUFFICES ASSUME RunnerOK, PhaseOK, [Next]_vars PROVE PhaseOK'
    OBVIOUS
<1>1. CASE spawn
    BY <1>1 DEF spawn, Return, PhaseOK
<1>2. CASE write_all
    BY <1>2 DEF write_all, Return, PhaseOK, process
<1>3. CASE shutdown
    BY <1>3 DEF shutdown, PhaseOK, process
<1>4. CASE wait_with_output
    BY <1>4 DEF wait_with_output, Return, PhaseOK, process
<1>8. CASE wait_fails
    BY <1>8 DEF wait_fails, Return, PhaseOK, process
<1>5. CASE \E s \in Streams : drain(s)
    BY <1>5 DEF drain, PhaseOK, process
<1>6. CASE Child
    BY <1>6 DEF Child, Read, Act, Say, End, Kill, HeirEnds, PhaseOK, runner
<1>7. CASE UNCHANGED vars
    BY <1>7 DEF vars, runner, process, PhaseOK
<1> QED
    BY <1>1, <1>2, <1>3, <1>4, <1>5, <1>6, <1>7, <1>8 DEF Next, Runner, Over

(* The guards of the runner's steps, and of those of its child that it     *)
(* takes without being killed: Read, Say, End and HeirEnds.                *)
RunnerCan ==
    \/ pc = "spawn"
    \/ pc = "write" /\ (child = "ended" \/ (child = "running" /\ stdin < PipeCapacity))
    \/ pc = "shutdown"
    \/ pc = "wait" /\ \E s \in Streams : pipe[s] > 0
    \/ pc = "wait" /\ child = "ended" /\ (~input => ~heir /\ pipe = Nothing)

ChildCan ==
    \/ child = "running" /\ wants # "nothing" /\ stdin > 0
    \/ child = "running" /\ \E s \in Streams : todo[s] > 0 /\ (input \/ pipe[s] < PipeCapacity)
    \/ child = "running" /\ todo = Nothing /\ (wants # "nothing" => HasRead)
    \/ heir

NeverStuck == result = NoResult => RunnerCan \/ ChildCan

(* Until run() returns, it and its child never wait for each other: not    *)
(* over a full pipe, nor an empty one, nor an end of file.                 *)
THEOREM NobodyWaitsForEver == Spec => []NeverStuck
<1>1. RunnerOK /\ PhaseOK => NeverStuck
  <2> SUFFICES ASSUME RunnerOK, PhaseOK, result = NoResult, ~RunnerCan, ~ChildCan PROVE FALSE
      BY DEF NeverStuck
  <2> USE RunnerAssumption
  <2>1. /\ stdin \in 0 .. PipeCapacity /\ got + stdin = written /\ got \in 0 .. InputLen
        /\ pipe \in [Streams -> 0 .. PipeCapacity] /\ todo \in [Streams -> Nat]
        /\ child \in {"none", "running", "ended"} /\ wants \in {"nothing", "line", "all"}
        /\ input \in BOOLEAN
      BY DEF RunnerOK, TypeOK
  <2>2. pc \in {"write", "wait"} /\ child # "none"
      BY DEF RunnerOK, TypeOK, ChildOK, RunnerCan
  <2>3. ASSUME todo # Nothing PROVE \E s \in Streams : todo[s] > 0
    <3>1. PICK s \in Streams : todo[s] # 0
        BY <2>1, <2>3 DEF Nothing
    <3> QED
        BY <2>1, <3>1
  <2>4. CASE pc = "write"
    <3>1. child = "running" /\ stdin > 0 /\ input
        BY <2>1, <2>2, <2>4 DEF RunnerCan, PhaseOK
    <3>2. wants = "nothing" /\ todo = Nothing
        BY <2>3, <3>1 DEF ChildCan
    <3> QED
        BY <3>1, <3>2 DEF ChildCan
  <2>5. CASE pc = "wait"
    <3>1. \A s \in Streams : pipe[s] = 0
        BY <2>1, <2>5 DEF RunnerCan
    <3>2. pipe = Nothing
        BY <2>1, <3>1 DEF Nothing
    <3>3. child = "running"
        BY <2>1, <2>2, <2>5, <3>2 DEF RunnerCan, ChildCan
    <3>4. todo = Nothing
        BY <2>3, <3>1, <3>3 DEF ChildCan
    <3>5. wants # "nothing" /\ ~HasRead /\ stdin = 0
        BY <2>1, <3>3, <3>4 DEF ChildCan
    <3>6. got = InputLen /\ ~stdin_open
        BY <2>1, <2>5, <3>5 DEF PhaseOK
    <3> QED
        BY <2>1, <3>5, <3>6 DEF HasRead
  <2> QED
      BY <2>2, <2>4, <2>5
<1>2. RunnerOK /\ PhaseOK /\ [Next]_vars => PhaseOK'
    BY PhaseNext
<1> QED
    BY <1>1, <1>2, PhaseInit, RunnerCorrect, PTL DEF Spec

(* How much is still to be done: steps of run(), units to be written and   *)
(* read, to be printed and drained, and the ends of the processes.         *)
Phases(p) ==
    CASE p = "spawn" -> 4 [] p = "write" -> 3 [] p = "shutdown" -> 2 [] p = "wait" -> 1 [] p = "returned" -> 0

Alive == (IF effect THEN 0 ELSE 1) + (IF child = "ended" THEN 0 ELSE 2) + (IF heir THEN 1 ELSE 0)

Line == (InputLen - written) + (InputLen - got)

Printing(s) == 2 * todo[s] + pipe[s]

Remaining == Phases(pc) + Alive + Line + Printing("stdout") + Printing("stderr")

LEMMA RemainingParts ==
    ASSUME TypeOK
    PROVE  /\ Phases(pc) \in 0 .. 4 /\ Alive \in 0 .. 4 /\ Line \in Nat
           /\ Printing("stdout") \in Nat /\ Printing("stderr") \in Nat
<1> USE RunnerAssumption
<1>1. Phases(pc) \in 0 .. 4
    BY DEF TypeOK, Phases
<1>2. Alive \in 0 .. 4
    BY DEF TypeOK, Alive
<1>3. Line \in Nat
    BY DEF TypeOK, Line
<1>4. \A s \in Streams : Printing(s) \in Nat
  <2> TAKE s \in Streams
  <2>1. todo[s] \in Nat /\ pipe[s] \in Nat
      BY DEF TypeOK
  <2> QED
      BY <2>1 DEF Printing
<1> QED
    BY <1>1, <1>2, <1>3, <1>4 DEF Streams

(* A step changes some of the parts; each lemma is about one process.      *)
LEMMA RunnerDwindles ==
    ASSUME RunnerOK, TypeOK', Runner \/ wait_fails
    PROVE  Remaining' < Remaining
<1> USE RunnerAssumption
<1>1. /\ Phases(pc) \in 0 .. 4 /\ Alive \in 0 .. 4 /\ Line \in Nat
      /\ Printing("stdout") \in Nat /\ Printing("stderr") \in Nat
    BY RemainingParts DEF RunnerOK
<1>2. /\ written \in 0 .. InputLen /\ got \in 0 .. InputLen
      /\ todo \in [Streams -> Nat] /\ pipe \in [Streams -> 0 .. PipeCapacity]
      /\ pc \in {"spawn", "write", "shutdown", "wait", "returned"}
    BY DEF RunnerOK, TypeOK
<1>3. CASE spawn
  <2>1. Phases(pc') < Phases(pc) /\ Phases(pc') \in Nat
      BY <1>2, <1>3 DEF spawn, Return, Phases
  <2>2. Alive' = Alive /\ Line' = Line /\ \A s \in {"stdout", "stderr"} : Printing(s)' = Printing(s)
    <3>1. child = "none" /\ child' \in {"none", "running"} /\ effect' = effect /\ heir' = heir
        BY <1>3 DEF spawn, RunnerOK, ChildOK
    <3> QED
        BY <1>3, <3>1 DEF spawn, Alive, Line, Printing
  <2> QED
      BY <1>1, <2>1, <2>2 DEF Remaining
<1>4. CASE write_all
  <2>1. Alive' = Alive /\ \A s \in {"stdout", "stderr"} : Printing(s)' = Printing(s)
      BY <1>4 DEF write_all, process, Alive, Printing
  <2>2. /\ Phases(pc) = 3 /\ Phases(pc') \in {0, 2, 3}
        /\ written' = written \/ written' = written + 1
        /\ written' = written => Phases(pc') = 0
        /\ got' = got
      BY <1>2, <1>4 DEF write_all, Return, Phases, process
  <2> QED
      BY <1>1, <1>2, <2>1, <2>2 DEF Remaining, Line
<1>5. CASE shutdown
  <2>1. Phases(pc') = 1 /\ Phases(pc) = 2
      BY <1>5 DEF shutdown, Phases
  <2>2. Alive' = Alive /\ Line' = Line /\ \A s \in {"stdout", "stderr"} : Printing(s)' = Printing(s)
      BY <1>5 DEF shutdown, process, Alive, Line, Printing
  <2> QED
      BY <1>1, <2>1, <2>2 DEF Remaining
<1>6. CASE wait_with_output \/ wait_fails
  <2>1. Phases(pc') = 0 /\ Phases(pc) = 1
      BY <1>6 DEF wait_with_output, wait_fails, Return, Phases
  <2>2. Alive' = Alive /\ Line' = Line /\ \A s \in {"stdout", "stderr"} : Printing(s)' = Printing(s)
      BY <1>6 DEF wait_with_output, wait_fails, process, Alive, Line, Printing
  <2> QED
      BY <1>1, <2>1, <2>2 DEF Remaining
<1>7. ASSUME NEW s \in Streams, drain(s) PROVE Remaining' < Remaining
  <2>1. Phases(pc') = Phases(pc) /\ Alive' = Alive /\ Line' = Line
      BY <1>7 DEF drain, process, Alive, Line
  <2>2. /\ todo' = todo
        /\ pipe'["stdout"] + pipe'["stderr"] = pipe["stdout"] + pipe["stderr"] - 1
      BY <1>2, <1>7 DEF drain, process, Streams
  <2>3. \A t \in Streams : todo[t] \in Nat /\ pipe[t] \in Nat /\ pipe'[t] \in Nat
      BY <1>2 DEF TypeOK
  <2> QED
      BY <1>1, <2>1, <2>2, <2>3 DEF Remaining, Printing, Streams
<1> QED
    BY <1>3, <1>4, <1>5, <1>6, <1>7 DEF Runner

LEMMA ChildDwindles ==
    ASSUME RunnerOK, TypeOK', Child
    PROVE  Remaining' < Remaining
<1> USE RunnerAssumption
<1>1. /\ Phases(pc) \in 0 .. 4 /\ Alive \in 0 .. 4 /\ Line \in Nat
      /\ Printing("stdout") \in Nat /\ Printing("stderr") \in Nat
    BY RemainingParts DEF RunnerOK
<1>2. /\ written \in 0 .. InputLen /\ got \in 0 .. InputLen
      /\ todo \in [Streams -> Nat] /\ pipe \in [Streams -> 0 .. PipeCapacity]
      /\ effect \in BOOLEAN /\ heir \in BOOLEAN
    BY DEF RunnerOK, TypeOK
<1>3. Phases(pc') = Phases(pc) /\ written' = written
    BY DEF Child, Read, Act, Say, End, Kill, HeirEnds, runner
<1>4. CASE Read
  <2>1. Alive' = Alive /\ got' = got + 1 /\ \A s \in {"stdout", "stderr"} : Printing(s)' = Printing(s)
      BY <1>4 DEF Read, Alive, Printing
  <2> QED
      BY <1>1, <1>2, <1>3, <2>1 DEF Remaining, Line
<1>5. CASE Act \/ End \/ Kill \/ HeirEnds
  <2>1. Line' = Line /\ \A s \in {"stdout", "stderr"} : Printing(s)' = Printing(s)
      BY <1>3, <1>5 DEF Act, End, Kill, HeirEnds, Line, Printing
  <2>2. heir' \in BOOLEAN
      BY DEF TypeOK
  <2>3. CASE Act
      BY <1>1, <1>3, <2>1, <2>3 DEF Act, Alive, Remaining
  <2>4. CASE End
      BY <1>1, <1>2, <1>3, <2>1, <2>2, <2>4 DEF End, Alive, Remaining
  <2>5. CASE Kill
      BY <1>1, <1>2, <1>3, <2>1, <2>5 DEF Kill, Alive, Remaining
  <2>6. CASE HeirEnds
      BY <1>1, <1>2, <1>3, <2>1, <2>6 DEF HeirEnds, Alive, Remaining
  <2> QED
      BY <1>5, <2>3, <2>4, <2>5, <2>6
<1>6. ASSUME NEW s \in Streams, Say(s) PROVE Remaining' < Remaining
  <2>1. Alive' = Alive /\ Line' = Line
      BY <1>3, <1>6 DEF Say, Alive, Line
  <2>2. /\ todo'["stdout"] + todo'["stderr"] = todo["stdout"] + todo["stderr"] - 1
        /\ \/ pipe' = pipe
           \/ pipe'["stdout"] + pipe'["stderr"] = pipe["stdout"] + pipe["stderr"] + 1
      BY <1>2, <1>6 DEF Say, Streams
  <2>3. \A t \in Streams :
            todo[t] \in Nat /\ pipe[t] \in Nat /\ todo'[t] \in Nat /\ pipe'[t] \in Nat
      BY <1>2 DEF TypeOK
  <2> QED
      BY <1>1, <1>3, <2>1, <2>2, <2>3 DEF Remaining, Printing, Streams
<1> QED
    BY <1>4, <1>5, <1>6 DEF Child

Dwindles == Remaining \in Nat /\ Remaining' < Remaining

(* Every step of run() and of its child leaves less to be done, so there   *)
(* are finitely many, and with NeverStuck the last one is run()'s return   *)
(* or comes after it.                                                      *)
THEOREM StepsAreFinite == Spec => [][Dwindles]_vars
<1>1. RunnerOK /\ RunnerOK' /\ [Next]_vars => [Dwindles]_vars
  <2> SUFFICES ASSUME RunnerOK, RunnerOK', [Next]_vars PROVE [Dwindles]_vars
      OBVIOUS
  <2>1. TypeOK /\ TypeOK'
      BY DEF RunnerOK
  <2>2. Remaining \in Nat
      BY <2>1, RemainingParts DEF Remaining
  <2> QED
      BY <2>1, <2>2, RunnerDwindles, ChildDwindles DEF Next, Over, Dwindles
<1> QED
    BY <1>1, RunnerCorrect, PTL DEF Spec
=============================================================================
