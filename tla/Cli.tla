--------------------------------- MODULE Cli ---------------------------------
(***************************************************************************)
(* The command line client of crates/zfswatch/src/main.rs: prompts, checks *)
(* what was typed, sends one request (import: perhaps a second), and exits *)
(* with a status.  Several users run commands at the same time.  The       *)
(* daemon is seen from outside: it has the effects of a request one after  *)
(* the other, stops at the first that is refused, and answers; by accident *)
(* it may answer an error for what it has done, or die.                    *)
(*                                                                         *)
(* The last four are history variables: all effects of a command, whether  *)
(* an accident befell it in the daemon, whether its pool was imported at   *)
(* some moment since it started, and the passphrases typed twice at the    *)
(* prompts for a new one.                                                  *)
(***************************************************************************)
EXTENDS Protocol, FiniteSets

CONSTANTS
    Users,
    Short, Empty,   \* lines shorter than 8 bytes, the empty one among them
    KeyNamed,       \* pools whose name contains "key" or "encryption"
    InitialPools,   \* the states a pool may be in
    MaxRuns,        \* bound: commands started
    MaxFaults       \* bound: accidents in the daemon, connections refused

ASSUME CliAssumption ==
    /\ Empty \in Short /\ Short \cap Keys = {}
    /\ InitialPools \subseteq {s \in PoolStates : Consistent(s)}
    /\ {MaxRuns, MaxFaults} \subseteq Nat

VARIABLES
    zfs,                    \* pool -> its state
    cmd,                    \* user -> the command line
    pc,                     \* "shell", "prompt", "send", "serve", "finish", "fallback"
    typed,                  \* user -> the lines typed at the prompts
    request, done, answer,  \* user -> the request, the effects it had, the answer
    exit,                   \* user -> how its last command exited
    runs, faults,           \* counters of the bounds
    did, accident, was_imported, confirmed \* history

history == <<did, accident, was_imported>>
vars == <<zfs, cmd, pc, typed, request, done, answer, exit, runs, faults, history, confirmed>>

Lines == Passphrases \cup Short

Verbs == {"init", "init --no-encrypt", "list", "devices", "status", "import", "export",
          "mount", "unmount", "unmount --unload-key", "change-key"}

CommandLines == [verb : Verbs, pool : Pools]

Prompts(verb) ==
    CASE verb = "init" -> 2 [] verb = "mount" -> 1 [] verb = "change-key" -> 3 [] OTHER -> 0

(* Faulty variant: the new passphrase is compared with the old one.        *)
Accepted_old(verb, t) ==
    CASE verb = "init"       -> t[1] = t[2] /\ t[1] \notin Short
      [] verb = "change-key" -> t[1] # t[2]
      [] OTHER               -> TRUE

(* passphrase != confirm, len() < 8; new_pass != confirm.                  *)
Accepted(verb, t) ==
    CASE verb = "init"       -> t[1] = t[2] /\ t[1] \notin Short
      [] verb = "change-key" -> t[2] = t[3]
      [] OTHER               -> TRUE

(* --no-encrypt sends an empty passphrase, which is not used.              *)
RequestOf(c, t) ==
    CASE c.verb = "init"                 -> InitPool(c.pool, t[1], TRUE)
      [] c.verb = "init --no-encrypt"    -> InitPool(c.pool, Empty, FALSE)
      [] c.verb = "import"               -> ImportPool(c.pool)
      [] c.verb = "export"               -> ExportPool(c.pool)
      [] c.verb = "mount"                -> Mount(c.pool, IF t[1] = Empty THEN NoPass ELSE t[1])
      [] c.verb = "unmount"              -> Unmount(c.pool, FALSE)
      [] c.verb = "unmount --unload-key" -> Unmount(c.pool, TRUE)
      [] c.verb = "change-key"           -> ChangeKey(c.pool, t[1], t[2])
      [] c.verb = "list"                 -> Request("ListPools")
      [] c.verb = "devices"              -> Request("ListDevices")
      [] c.verb = "status"               -> Request("Status")

NewPassphrase(c, t) ==
    CASE c.verb = "init"       -> {t[1]} \cap {t[2]}
      [] c.verb = "change-key" -> {t[2]} \cap {t[3]}
      [] OTHER                 -> {}

Init ==
    /\ zfs \in [Pools -> InitialPools]
    /\ cmd = [u \in Users |-> [verb |-> "status", pool |-> NoPool]]
    /\ pc = [u \in Users |-> "shell"]
    /\ typed = [u \in Users |-> <<>>]
    /\ request = [u \in Users |-> Request("none")]
    /\ done = [u \in Users |-> <<>>]
    /\ answer = [u \in Users |-> "none"]
    /\ exit = [u \in Users |-> "running"]
    /\ runs = 0 /\ faults = 0
    /\ did = [u \in Users |-> {}]
    /\ accident = [u \in Users |-> FALSE] /\ was_imported = [u \in Users |-> FALSE]
    /\ confirmed = {}

(* Every variable holds a value of its type, and the lines typed are those *)
(* the command prompts for.                                                *)
TypeOK ==
    /\ zfs \in [Pools -> PoolStates]
    /\ cmd \in [Users -> [verb : Verbs, pool : Pools \cup {NoPool}]]
    /\ pc \in [Users -> {"shell", "prompt", "send", "serve", "finish", "fallback"}]
    /\ typed \in [Users -> Seq(Lines)]
    /\ request \in [Users -> [op : AllOps \cup {"none"}, pool : Pools \cup {NoPool},
                              pass : Keys \cup Short, new : Keys \cup Short, flag : BOOLEAN]]
    /\ \A u \in Users :
        /\ pc[u] \in {"send", "serve", "finish"} => Len(typed[u]) >= Prompts(cmd[u].verb)
        /\ pc[u] = "serve" => request[u].op # "none"
    /\ done \in [Users -> Seq(Mutations)]
    /\ answer \in [Users -> {"none", "Success", "Data", "Error", "KeyError", "eof"}]
    /\ exit \in [Users -> {"running", "success", "failure"}]
    /\ runs \in 0 .. MaxRuns /\ faults \in 0 .. MaxFaults
    /\ did \in [Users -> SUBSET Mutations]
    /\ accident \in [Users -> BOOLEAN] /\ was_imported \in [Users -> BOOLEAN]
    /\ confirmed \subseteq Lines

-----------------------------------------------------------------------------
(* The user.                                                               *)

Goto(u, where) == pc' = [pc EXCEPT ![u] = where]

Exit(u, status) == exit' = [exit EXCEPT ![u] = status] /\ Goto(u, "shell")

Start(u) ==
    /\ pc[u] = "shell" /\ runs < MaxRuns
    /\ runs' = runs + 1
    /\ \E c \in CommandLines :
        /\ cmd' = [cmd EXCEPT ![u] = c]
        /\ Goto(u, IF Prompts(c.verb) > 0 THEN "prompt" ELSE "send")
        /\ was_imported' = [was_imported EXCEPT ![u] = Imported(zfs[c.pool])]
    /\ typed' = [typed EXCEPT ![u] = <<>>]
    /\ request' = [request EXCEPT ![u] = Request("none")]
    /\ done' = [done EXCEPT ![u] = <<>>]
    /\ answer' = [answer EXCEPT ![u] = "none"]
    /\ did' = [did EXCEPT ![u] = {}]
    /\ accident' = [accident EXCEPT ![u] = FALSE]
    /\ exit' = [exit EXCEPT ![u] = "running"]
    /\ UNCHANGED <<zfs, faults, confirmed>>

(* Faulty variant: one line is enough.                                     *)
Prompt_once(u) ==
    /\ pc[u] = "prompt"
    /\ \E x \in Lines : typed' = [typed EXCEPT ![u] = Append(@, x)]
    /\ Goto(u, "send")
    /\ UNCHANGED <<zfs, cmd, request, done, answer, exit, runs, faults, history, confirmed>>

(* rpassword reads a line, or fails: no terminal.                          *)
Prompt(u) ==
    /\ pc[u] = "prompt"
    /\ \/ \E x \in Lines :
            /\ typed' = [typed EXCEPT ![u] = Append(@, x)]
            /\ IF Len(typed[u]) + 1 = Prompts(cmd[u].verb)
               THEN /\ Goto(u, "send")
                    /\ confirmed' = confirmed \cup NewPassphrase(cmd[u], typed'[u])
               ELSE UNCHANGED <<pc, confirmed>>
            /\ UNCHANGED exit
       \/ Exit(u, "failure") /\ UNCHANGED <<typed, confirmed>>
    /\ UNCHANGED <<zfs, cmd, request, done, answer, runs, faults, history>>

(* What was typed is refused, or sent; or no daemon listens.               *)
Send(u) ==
    /\ pc[u] = "send"
    /\ \/ /\ ~Accepted(cmd[u].verb, typed[u])
          /\ Exit(u, "failure") /\ UNCHANGED <<request, faults>>
       \/ /\ Accepted(cmd[u].verb, typed[u])
          /\ request' = [request EXCEPT ![u] = RequestOf(cmd[u], typed[u])]
          /\ Goto(u, "serve") /\ UNCHANGED <<exit, faults>>
       \/ /\ Accepted(cmd[u].verb, typed[u]) /\ faults < MaxFaults
          /\ faults' = faults + 1
          /\ Exit(u, "failure") /\ UNCHANGED request
    /\ UNCHANGED <<zfs, cmd, typed, done, answer, runs, history, confirmed>>

-----------------------------------------------------------------------------
(* The daemon, as process_request does each request.                       *)

NextCommand(u) == CommandFor(request[u], Effects(request[u])[Len(done[u]) + 1])

Unfinished(u) == Len(done[u]) < Len(Effects(request[u]))

Answer(u, a) == answer' = [answer EXCEPT ![u] = a] /\ Goto(u, "finish")

(* The errors whose message has "key" or "encryption" in it: zpool import  *)
(* repeats the pool's name, and may speak of an encrypted pool's key.      *)
ErrorKinds(u) ==
    LET p == request[u].pool
    IN  IF request[u].op # "ImportPool" THEN {"Error"}
        ELSE IF p \in KeyNamed THEN {"KeyError"}
        ELSE IF zfs[p].encrypted THEN {"Error", "KeyError"} ELSE {"Error"}

(* The pool of command k becomes s.                                        *)
Becomes(u, k, s) ==
    /\ zfs' = [zfs EXCEPT ![k.pool] = s]
    /\ did' = [did EXCEPT ![u] = @ \cup {k.op}]
    /\ was_imported' =
         [v \in Users |-> was_imported[v] \/ (cmd[v].pool \in Pools /\ Imported(zfs'[cmd[v].pool]))]

Take(u) ==
    /\ pc[u] = "serve" /\ Unfinished(u)
    /\ LET k == NextCommand(u)
       IN  /\ Allowed(zfs[k.pool], k)
           /\ Becomes(u, k, Effect(zfs[k.pool], k))
           /\ done' = [done EXCEPT ![u] = Append(@, k.op)]
    /\ UNCHANGED <<cmd, pc, typed, request, answer, exit, runs, faults, accident, confirmed>>

Refuse(u) ==
    /\ pc[u] = "serve" /\ Unfinished(u)
    /\ ~Allowed(zfs[NextCommand(u).pool], NextCommand(u))
    /\ \E a \in ErrorKinds(u) : Answer(u, a)
    /\ UNCHANGED <<zfs, cmd, typed, request, done, exit, runs, faults, history, confirmed>>

(* A command of the request cannot be run or waited for, is killed, or     *)
(* fails after it acted; or the daemon dies, and the command ends by       *)
(* itself.  It may have had its effect or part of it.                      *)
Accident(u) ==
    /\ faults < MaxFaults /\ faults' = faults + 1
    /\ accident' = [accident EXCEPT ![u] = TRUE]
    /\ \/ UNCHANGED <<zfs, did, was_imported>>
       \/ LET k == NextCommand(u)
          IN  /\ Unfinished(u) /\ Allowed(zfs[k.pool], k)
              /\ \E s \in LeftBehind(zfs[k.pool], k) : Becomes(u, k, s)

(* Every request but Status asks a command that may fail, be it after the  *)
(* last effect, as the query of Mount for the mountpoint does.             *)
Fail(u) ==
    /\ pc[u] = "serve" /\ request[u].op # "Status"
    /\ Accident(u)
    /\ \E a \in ErrorKinds(u) \cup {"Error"} : Answer(u, a)
    /\ UNCHANGED <<cmd, typed, request, done, exit, runs, confirmed>>

Conclude(u) ==
    /\ pc[u] = "serve" /\ ~Unfinished(u)
    /\ Answer(u, IF Effects(request[u]) = <<>> THEN "Data" ELSE "Success")
    /\ UNCHANGED <<zfs, cmd, typed, request, done, exit, runs, faults, history, confirmed>>

(* The daemon dies: read_line returns an empty line.                       *)
Lose(u) ==
    /\ pc[u] = "serve"
    /\ Accident(u)
    /\ Answer(u, "eof")
    /\ UNCHANGED <<cmd, typed, request, done, exit, runs, confirmed>>

-----------------------------------------------------------------------------
(* The answer: an exit status, or import's second attempt.                 *)

(* Faulty variant: an encrypted pool that was imported is mounted, too.    *)
FallsBack_encrypted(u) ==
    /\ request[u].op = "ImportPool"
    /\ answer[u] = "KeyError" \/ (answer[u] = "Success" /\ zfs[request[u].pool].encrypted)

FallsBack(u) == request[u].op = "ImportPool" /\ answer[u] = "KeyError"

(* Faulty variant: only the import's own error counts.                     *)
Finish_import(u) ==
    /\ pc[u] = "finish"
    /\ IF FallsBack(u)
       THEN Goto(u, "fallback") /\ UNCHANGED exit
       ELSE Exit(u, IF answer[u] \in {"Success", "Data"} \/ cmd[u].verb = "import" THEN "success" ELSE "failure")
    /\ UNCHANGED <<zfs, cmd, typed, request, done, answer, runs, faults, history, confirmed>>

Finish(u) ==
    /\ pc[u] = "finish"
    /\ IF FallsBack(u)
       THEN Goto(u, "fallback") /\ UNCHANGED exit
       ELSE Exit(u, IF answer[u] \in {"Success", "Data"} THEN "success" ELSE "failure")
    /\ UNCHANGED <<zfs, cmd, typed, request, done, answer, runs, faults, history, confirmed>>

(* "Pool appears to be encrypted.": its passphrase, and Mount.             *)
Fallback(u) ==
    /\ pc[u] = "fallback"
    /\ \/ \E x \in Lines :
            /\ typed' = [typed EXCEPT ![u] = Append(@, x)]
            /\ request' = [request EXCEPT ![u] = Mount(cmd[u].pool, x)]
            /\ done' = [done EXCEPT ![u] = <<>>]
            /\ answer' = [answer EXCEPT ![u] = "none"]
            /\ Goto(u, "serve") /\ UNCHANGED exit
       \/ Exit(u, "failure") /\ UNCHANGED <<typed, request, done, answer>>
    /\ UNCHANGED <<zfs, cmd, runs, faults, history, confirmed>>

(* All commands have run.                                                  *)
Over == runs = MaxRuns /\ (\A u \in Users : pc[u] = "shell") /\ UNCHANGED vars

Next ==
    \/ \E u \in Users :
        \/ Start(u) \/ Prompt(u) \/ Send(u) \/ Finish(u) \/ Fallback(u)
        \/ Take(u) \/ Refuse(u) \/ Fail(u) \/ Conclude(u) \/ Lose(u)
    \/ Over

Spec == Init /\ [][Next]_vars

-----------------------------------------------------------------------------
(* A command that exits with 0 did what it says: its last request had all  *)
(* its effects, and import leaves a pool that was imported while it ran.   *)
ExitZeroMeansDone ==
    \A u \in Users : exit[u] = "success" =>
        /\ done[u] = Effects(request[u])
        /\ cmd[u].verb = "import" => was_imported[u]

(* A command that exits with 1 without an accident in the daemon changed   *)
(* no pool by any of its requests, except that the key it presented may be *)
(* left loaded.                                                            *)
ExitOneMeansUndone ==
    \A u \in Users :
        exit[u] = "failure" /\ ~accident[u] => did[u] \subseteq {"load-key"}

(* A pool is never encrypted with a passphrase nobody typed twice, unless  *)
(* it was before; a typing error locks nobody out.                         *)
PassphraseConfirmed ==
    \A p \in Pools :
        zfs[p].encrypted => zfs[p].pass \in confirmed \cup {s.pass : s \in InitialPools}
=============================================================================
