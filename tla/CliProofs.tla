------------------------------ MODULE CliProofs ------------------------------
(***************************************************************************)
(* What the exit status of zfswatch tells, and that no pool is encrypted   *)
(* with a passphrase typed only once, for any number of users, pools and   *)
(* commands.  CliOK is inductive: it ties each command to what was typed   *)
(* for it, to the request it sent, and to the effects that request had.    *)
(***************************************************************************)
EXTENDS Cli, SequenceTheorems, TLAPS

(* A command on its way has a pool and has read no more lines than it      *)
(* prompts for; once it has them, what it asks for twice is confirmed.     *)
Typed(u) ==
    /\ pc[u] # "shell" => cmd[u].pool \in Pools
    /\ pc[u] = "prompt" => Len(typed[u]) < Prompts(cmd[u].verb)
    /\ pc[u] = "send" =>
          /\ Len(typed[u]) = Prompts(cmd[u].verb)
          /\ NewPassphrase(cmd[u], typed[u]) \subseteq confirmed
    /\ pc[u] \in {"prompt", "send"} => request[u].op = "none"

(* The request of a command is about the command's pool, and sets only     *)
(* passphrases that were confirmed.                                        *)
Sent(u) ==
    /\ Effects(request[u]) # <<>> => request[u].pool = cmd[u].pool /\ request[u].pool \in Pools
    /\ request[u].op = "InitPool" /\ request[u].flag => request[u].pass \in confirmed
    /\ request[u].op = "ChangeKey" => request[u].new \in confirmed
    /\ request[u].op = "ImportPool" => cmd[u].verb = "import"
    /\ cmd[u].verb = "import" => request[u].op \in {"none", "ImportPool", "Mount"}

(* The effects so far are the first ones of the request.                   *)
Begun(u) ==
    \/ done[u] = <<>>
    \/ done[u] = Effects(request[u])
    \/ /\ done[u] = <<"load-key">>
       /\ Effects(request[u]) \in {<<"load-key", "mount">>, <<"load-key", "change-key">>}

(* What the answer says of the effects is true, and so is the exit status. *)
Told(u) ==
    /\ pc[u] \in {"prompt", "send", "serve"} => answer[u] = "none"
    /\ pc[u] \in {"finish", "fallback"} => answer[u] # "none"
    /\ pc[u] = "fallback" => cmd[u].verb = "import" /\ answer[u] = "KeyError"
    /\ answer[u] = "none" /\ pc[u] # "serve" => done[u] = <<>>
    /\ answer[u] \in {"Error", "KeyError"} => accident[u] \/ done[u] \in {<<>>, <<"load-key">>}
    /\ answer[u] = "eof" => accident[u]
    /\ answer[u] \in {"Success", "Data"} => done[u] = Effects(request[u]) /\ request[u].op # "none"
    /\ pc[u] # "shell" => exit[u] = "running"
    /\ exit[u] = "success" => answer[u] \in {"Success", "Data"}
    /\ exit[u] = "failure" => answer[u] \notin {"Success", "Data"}

(* Without an accident a command has had no effect but those in done.      *)
Had(u) ==
    ~accident[u] /\ done[u] \in {<<>>, <<"load-key">>} => did[u] \subseteq {"load-key"}

Effected(u) ==
    /\ Begun(u) /\ Told(u) /\ Had(u)
    /\ cmd[u].verb = "import" /\ done[u] # <<>> => was_imported[u]

Command(u) == Typed(u) /\ Sent(u) /\ Effected(u)

CliOK == TypeOK /\ PassphraseConfirmed /\ \A u \in Users : Command(u)

-----------------------------------------------------------------------------
(* The requests, and their effects.                                        *)

Sendable == [op : AllOps \cup {"none"}, pool : Pools \cup {NoPool},
             pass : Keys \cup Short, new : Keys \cup Short, flag : BOOLEAN]

LEMMA RequestShapes ==
    /\ \A p \in Pools :
        /\ ImportPool(p) \in Sendable /\ ImportPool(p).pool = p /\ ImportPool(p).op = "ImportPool"
        /\ ExportPool(p) \in Sendable /\ ExportPool(p).pool = p /\ ExportPool(p).op = "ExportPool"
    /\ \A p \in Pools, b \in BOOLEAN :
        Unmount(p, b) \in Sendable /\ Unmount(p, b).pool = p /\ Unmount(p, b).op = "Unmount"
    /\ \A p \in Pools, x \in Keys \cup Short :
        Mount(p, x) \in Sendable /\ Mount(p, x).pool = p /\ Mount(p, x).op = "Mount"
    /\ \A p \in Pools, x \in Keys \cup Short, y \in Keys \cup Short :
        /\ ChangeKey(p, x, y) \in Sendable /\ ChangeKey(p, x, y).pool = p
        /\ ChangeKey(p, x, y).op = "ChangeKey" /\ ChangeKey(p, x, y).new = y
<1>1. ASSUME NEW p \in Pools
      PROVE  /\ ImportPool(p) \in Sendable /\ ImportPool(p).pool = p
             /\ ImportPool(p).op = "ImportPool"
             /\ ExportPool(p) \in Sendable /\ ExportPool(p).pool = p
             /\ ExportPool(p).op = "ExportPool"
  BY DEF Request, PoolRequest, ImportPool, ExportPool, Sendable, AllOps, Keys
<1>2. ASSUME NEW p \in Pools, NEW b \in BOOLEAN
      PROVE  Unmount(p, b) \in Sendable /\ Unmount(p, b).pool = p /\ Unmount(p, b).op = "Unmount"
  BY DEF Request, PoolRequest, Unmount, Sendable, AllOps, Keys
<1>3. ASSUME NEW p \in Pools, NEW x \in Keys \cup Short
      PROVE  Mount(p, x) \in Sendable /\ Mount(p, x).pool = p /\ Mount(p, x).op = "Mount"
  BY DEF Request, PoolRequest, Mount, Sendable, AllOps, Keys
<1>4. ASSUME NEW p \in Pools, NEW x \in Keys \cup Short, NEW y \in Keys \cup Short
      PROVE  /\ ChangeKey(p, x, y) \in Sendable /\ ChangeKey(p, x, y).pool = p
             /\ ChangeKey(p, x, y).op = "ChangeKey" /\ ChangeKey(p, x, y).new = y
  BY DEF Request, PoolRequest, ChangeKey, Sendable, AllOps, Keys
<1> QED BY <1>1, <1>2, <1>3, <1>4

LEMMA PlainInit ==
    ASSUME NEW p \in Pools, NEW x \in Keys \cup Short, NEW r, r = InitPool(p, x, FALSE)
    PROVE  r \in Sendable /\ r.pool = p /\ r.op = "InitPool" /\ ~r.flag
BY DEF Request, PoolRequest, InitPool, Sendable, AllOps, Keys

LEMMA BareRequests ==
    \A op \in AllOps \cup {"none"} : Request(op) \in Sendable /\ Request(op).op = op
BY DEF Request, Sendable, Keys

LEMMA EffectCases ==
    ASSUME NEW r
    PROVE  /\ r.op = "ImportPool" => Effects(r) = <<"import">>
           /\ r.op = "ExportPool" => Effects(r) = <<"export">>
           /\ r.op = "Unmount" => Effects(r) = <<"unmount">>
           /\ r.op = "InitPool" => Effects(r) = <<"create">>
           /\ r.op = "Mount" => Effects(r) \in {<<"mount">>, <<"load-key", "mount">>}
           /\ r.op = "ChangeKey" => Effects(r) = <<"load-key", "change-key">>
           /\ r.op \notin {"ImportPool", "ExportPool", "Unmount", "InitPool", "Mount", "ChangeKey"}
                => Effects(r) = <<>>
<1>1. r.op = "ImportPool" => Effects(r) = <<"import">>
  BY DEF Effects
<1>2. r.op = "ExportPool" => Effects(r) = <<"export">>
  BY DEF Effects
<1>3. r.op = "Unmount" => Effects(r) = <<"unmount">>
  BY DEF Effects
<1>4. r.op = "InitPool" => Effects(r) = <<"create">>
  BY DEF Effects
<1>5. r.op = "Mount" => Effects(r) \in {<<"mount">>, <<"load-key", "mount">>}
  BY DEF Effects
<1>6. r.op = "ChangeKey" => Effects(r) = <<"load-key", "change-key">>
  BY DEF Effects
<1>7. r.op \notin {"ImportPool", "ExportPool", "Unmount", "InitPool", "Mount", "ChangeKey"}
        => Effects(r) = <<>>
  BY DEF Effects
<1> QED BY <1>1, <1>2, <1>3, <1>4, <1>5, <1>6, <1>7

LEMMA EffectValues ==
    ASSUME NEW r
    PROVE  /\ Effects(r) \in {<<>>, <<"import">>, <<"export">>, <<"unmount">>, <<"create">>,
                              <<"mount">>, <<"load-key", "mount">>, <<"load-key", "change-key">>}
           /\ r.op \in {"ImportPool", "InitPool", "Mount", "ChangeKey"} => Effects(r) # <<>>
           /\ r.op = "none" => Effects(r) = <<>>
<1>1. \A x, y : <<x>> # <<>> /\ <<x, y>> # <<>>
  OBVIOUS
<1> QED BY <1>1, EffectCases

(* The commands that prompt, and what is typed twice.                      *)
LEMMA PromptFacts ==
    /\ Prompts("init") = 2 /\ Prompts("mount") = 1 /\ Prompts("change-key") = 3
    /\ \A v \in Verbs \ {"init", "mount", "change-key"} : Prompts(v) = 0
    /\ \A t : Accepted("init", t) => t[1] = t[2]
    /\ \A t : Accepted("change-key", t) => t[2] = t[3]
    /\ \A c, t : c.verb \notin {"init", "change-key"} => NewPassphrase(c, t) = {}
<1>1. \A v \in Verbs \ {"init", "mount", "change-key"} : Prompts(v) = 0
  BY DEF Prompts
<1>2. \A t : Accepted("init", t) => t[1] = t[2]
  BY DEF Accepted
<1>3. \A t : Accepted("change-key", t) => t[2] = t[3]
  BY DEF Accepted
<1>4. \A c, t : c.verb \notin {"init", "change-key"} => NewPassphrase(c, t) = {}
  BY DEF NewPassphrase
<1> QED BY <1>1, <1>2, <1>3, <1>4 DEF Prompts

(* What Send sends, if the lines typed are accepted.                       *)
LEMMA SendFacts ==
    ASSUME NEW c \in CommandLines, NEW t \in Seq(Lines), Len(t) = Prompts(c.verb),
           Accepted(c.verb, t), NEW r, r = RequestOf(c, t)
    PROVE  /\ r \in Sendable /\ r.op # "none"
           /\ Effects(r) # <<>> => r.pool = c.pool
           /\ r.op = "InitPool" /\ r.flag => r.pass \in NewPassphrase(c, t)
           /\ r.op = "ChangeKey" => r.new \in NewPassphrase(c, t)
           /\ r.op = "ImportPool" <=> c.verb = "import"
<1>1. c.verb \in Verbs /\ c.pool \in Pools
  BY DEF CommandLines
<1>2. NoPass \in Keys \cup Short /\ Empty \in Keys \cup Short /\ \A x \in Lines : x \in Keys \cup Short
  BY CliAssumption DEF Lines, Keys
<1>3. CASE c.verb = "init"
  <2>1. r = InitPool(c.pool, t[1], TRUE) /\ NewPassphrase(c, t) = {t[1]} \cap {t[2]}
    BY <1>3 DEF RequestOf, NewPassphrase, CommandLines
  <2>2. t[1] = t[2] /\ t[1] \in Lines
    BY <1>3, PromptFacts
  <2>3. /\ r \in Sendable /\ r.pool = c.pool /\ r.op = "InitPool"
        /\ r.pass = t[1]
    BY <1>1, <1>2, <2>1, <2>2
       DEF Request, PoolRequest, InitPool, Sendable, AllOps, Keys
  <2>4. r.pass \in NewPassphrase(c, t)
    BY <2>1, <2>2, <2>3
  <2>5. r.op \notin {"none", "ImportPool", "ChangeKey"} /\ c.verb # "import"
    BY <1>3, <2>3
  <2> QED BY <2>3, <2>4, <2>5, Zenon
<1>4. CASE c.verb = "change-key"
  <2>1. r = ChangeKey(c.pool, t[1], t[2]) /\ NewPassphrase(c, t) = {t[2]} \cap {t[3]}
    BY <1>4 DEF RequestOf, NewPassphrase
  <2>2. t[2] = t[3] /\ t[1] \in Lines /\ t[2] \in Lines
    BY <1>4, PromptFacts
  <2>3. /\ r \in Sendable /\ r.pool = c.pool /\ r.op = "ChangeKey"
        /\ r.new = t[2]
    BY <1>1, <1>2, <2>1, <2>2, RequestShapes
  <2> QED BY <1>4, <2>1, <2>2, <2>3
<1>5. CASE c.verb = "mount"
  <2>1. t[1] \in Lines
    BY <1>5, PromptFacts
  <2>2. r = Mount(c.pool, IF t[1] = Empty THEN NoPass ELSE t[1])
    BY <1>5 DEF RequestOf
  <2>3. PICK x \in Keys \cup Short : r = Mount(c.pool, x)
    BY <1>2, <2>1, <2>2
  <2>4. r \in Sendable /\ r.pool = c.pool /\ r.op = "Mount"
    BY <1>1, <2>3, RequestShapes
  <2> QED BY <1>5, <2>4
<1>6. CASE c.verb = "init --no-encrypt"
  <2>1. r = InitPool(c.pool, Empty, FALSE)
    BY <1>6 DEF RequestOf
  <2>2. r \in Sendable /\ r.pool = c.pool /\ r.op = "InitPool" /\ ~r.flag
    BY <1>1, <1>2, <2>1, PlainInit
  <2>3. r.op \notin {"none", "ImportPool", "ChangeKey"} /\ c.verb # "import"
    BY <1>6, <2>2
  <2> QED BY <2>2, <2>3, Zenon
<1>7. CASE c.verb = "import"
  <2>1. r = ImportPool(c.pool)
    BY <1>7 DEF RequestOf
  <2> QED BY <1>1, <1>7, <2>1, RequestShapes
<1>8. CASE c.verb = "export"
  <2>1. r = ExportPool(c.pool)
    BY <1>8 DEF RequestOf
  <2>2. r \in Sendable /\ r.pool = c.pool /\ r.op = "ExportPool"
    BY <1>1, <2>1, RequestShapes
  <2> QED BY <1>8, <2>2
<1>9. CASE c.verb \in {"unmount", "unmount --unload-key"}
  <2>1. \E b \in BOOLEAN : r = Unmount(c.pool, b)
    BY <1>9 DEF RequestOf
  <2>2. r \in Sendable /\ r.pool = c.pool /\ r.op = "Unmount"
    BY <1>1, <2>1, RequestShapes
  <2> QED BY <1>9, <2>2
<1>10. CASE c.verb \in {"list", "devices", "status"}
  <2>1. \E op \in {"ListPools", "ListDevices", "Status"} : r = Request(op)
    BY <1>10 DEF RequestOf
  <2>2. r \in Sendable /\ r.op \in {"ListPools", "ListDevices", "Status"}
    BY <2>1, BareRequests DEF AllOps
  <2> QED BY <1>10, <2>2, EffectCases
<1> QED BY <1>1, <1>3, <1>4, <1>5, <1>6, <1>7, <1>8, <1>9, <1>10 DEF Verbs

-----------------------------------------------------------------------------
(* The step of one user: what it leaves of the others.                     *)

(* The types alone, without what TypeOK says of the lines typed.           *)
Types ==
    /\ zfs \in [Pools -> PoolStates]
    /\ cmd \in [Users -> [verb : Verbs, pool : Pools \cup {NoPool}]]
    /\ pc \in [Users -> {"shell", "prompt", "send", "serve", "finish", "fallback"}]
    /\ typed \in [Users -> Seq(Lines)]
    /\ request \in [Users -> Sendable]
    /\ done \in [Users -> Seq(Mutations)]
    /\ answer \in [Users -> {"none", "Success", "Data", "Error", "KeyError", "eof"}]
    /\ exit \in [Users -> {"running", "success", "failure"}]
    /\ runs \in 0 .. MaxRuns /\ faults \in 0 .. MaxFaults
    /\ did \in [Users -> SUBSET Mutations]
    /\ accident \in [Users -> BOOLEAN] /\ was_imported \in [Users -> BOOLEAN]
    /\ confirmed \subseteq Lines

Aimed(u) ==
    /\ pc[u] \in {"send", "serve", "finish"} => Len(typed[u]) >= Prompts(cmd[u].verb)
    /\ pc[u] = "serve" => request[u].op # "none"

LEMMA TypeParts == TypeOK <=> Types /\ \A u \in Users : Aimed(u)
BY DEF TypeOK, Types, Aimed, Sendable

Undisturbed(v) ==
    /\ cmd'[v] = cmd[v] /\ pc'[v] = pc[v] /\ typed'[v] = typed[v] /\ request'[v] = request[v]
    /\ done'[v] = done[v] /\ answer'[v] = answer[v] /\ exit'[v] = exit[v]
    /\ did'[v] = did[v] /\ accident'[v] = accident[v]
    /\ (was_imported[v] => was_imported'[v]) /\ confirmed \subseteq confirmed'

(* What holds of a command holds while others take a step.                 *)
LEMMA Frame ==
    ASSUME NEW v \in Users, Aimed(v), Command(v), Undisturbed(v)
    PROVE  (Aimed(v) /\ Command(v))'
<1>1. Aimed(v)'
  BY DEF Aimed, Undisturbed
<1>2. Typed(v)'
  BY DEF Command, Typed, Undisturbed
<1>3. Sent(v)'
  BY DEF Command, Sent, Undisturbed
<1>4. Begun(v)'
  BY DEF Command, Effected, Begun, Undisturbed
<1>5. Told(v)' /\ Had(v)'
  BY DEF Command, Effected, Told, Had, Undisturbed
<1>6. (cmd[v].verb = "import" /\ done[v] # <<>> => was_imported[v])'
  BY DEF Command, Effected, Undisturbed
<1> QED BY <1>1, <1>2, <1>3, <1>4, <1>5, <1>6 DEF Command, Effected

(* So a step has to be looked at for its own user only.                    *)
LEMMA OneUser ==
    ASSUME CliOK, NEW u \in Users, Types', PassphraseConfirmed', Aimed(u)', Command(u)',
           \A v \in Users \ {u} : Undisturbed(v)
    PROVE  CliOK'
<1>1. \A v \in Users : Aimed(v) /\ Command(v)
  BY TypeParts DEF CliOK
<1>2. ASSUME NEW v \in Users PROVE (Aimed(v) /\ Command(v))'
  BY <1>1, Frame
<1>3. TypeOK' <=> Types' /\ \A v \in Users : Aimed(v)'
  BY DEF TypeOK, Types, Aimed, Sendable
<1> QED BY <1>2, <1>3 DEF CliOK

(* zfs and confirmed are left alone, or confirmed grows.                   *)
LEMMA ConfirmedKept ==
    ASSUME PassphraseConfirmed, UNCHANGED zfs, confirmed \subseteq confirmed'
    PROVE  PassphraseConfirmed'
BY DEF PassphraseConfirmed

LEMMA InitEstablishesCliOK == Init => CliOK
<1> SUFFICES ASSUME Init PROVE CliOK
  OBVIOUS
<1>1. Request("none") \in Sendable /\ Request("none").op = "none"
  BY BareRequests
<1>2. Types
  <2>1. zfs \in [Pools -> PoolStates] /\ {MaxRuns, MaxFaults} \subseteq Nat
    BY CliAssumption DEF Init
  <2>2. 0 \in 0 .. MaxRuns /\ 0 \in 0 .. MaxFaults
    BY CliAssumption
  <2> QED BY <1>1, <2>1, <2>2 DEF Init, Types, Verbs
<1>3. PassphraseConfirmed
  BY DEF Init, PassphraseConfirmed
<1>4. ASSUME NEW u \in Users PROVE Aimed(u) /\ Command(u)
  <2>1. /\ pc[u] = "shell" /\ cmd[u].verb = "status" /\ request[u] = Request("none")
        /\ done[u] = <<>> /\ answer[u] = "none" /\ exit[u] = "running" /\ did[u] = {}
    BY DEF Init
  <2>2. Effects(request[u]) = <<>> /\ request[u].op = "none"
    BY <1>1, <2>1, EffectValues
  <2>3. Typed(u) /\ Aimed(u)
    BY <2>1 DEF Typed, Aimed
  <2>4. Sent(u)
    BY <2>1, <2>2 DEF Sent
  <2>5. Begun(u) /\ Told(u) /\ Had(u)
    BY <2>1 DEF Begun, Told, Had
  <2> QED BY <2>1, <2>3, <2>4, <2>5 DEF Command, Effected
<1> QED BY <1>2, <1>3, <1>4, TypeParts DEF CliOK

LEMMA StartPreservesCliOK ==
    ASSUME CliOK, NEW u \in Users, Start(u)
    PROVE  CliOK'
<1>1. Types
  BY TypeParts DEF CliOK
<1>2. PICK c \in CommandLines :
        /\ cmd' = [cmd EXCEPT ![u] = c]
        /\ pc' = [pc EXCEPT ![u] = IF Prompts(c.verb) > 0 THEN "prompt" ELSE "send"]
        /\ was_imported' = [was_imported EXCEPT ![u] = Imported(zfs[c.pool])]
  BY DEF Start, Goto
<1>3. c \in [verb : Verbs, pool : Pools \cup {NoPool}] /\ c.verb \in Verbs /\ c.pool \in Pools
  BY DEF CommandLines
<1>4. Request("none") \in Sendable /\ Request("none").op = "none"
  BY BareRequests
<1>5. Effects(Request("none")) = <<>>
  BY <1>4, EffectValues
<1>6. /\ cmd'[u] = c /\ typed'[u] = <<>> /\ request'[u] = Request("none") /\ done'[u] = <<>>
      /\ answer'[u] = "none" /\ exit'[u] = "running" /\ did'[u] = {}
      /\ pc'[u] = IF Prompts(c.verb) > 0 THEN "prompt" ELSE "send"
  BY <1>1, <1>2 DEF Start, Types
<1>7. Types'
  <2>1. cmd' \in [Users -> [verb : Verbs, pool : Pools \cup {NoPool}]]
    BY <1>1, <1>2, <1>3 DEF Types
  <2>2. pc' \in [Users -> {"shell", "prompt", "send", "serve", "finish", "fallback"}]
    BY <1>1, <1>2 DEF Types
  <2>3. /\ was_imported' \in [Users -> BOOLEAN] /\ accident' \in [Users -> BOOLEAN]
        /\ did' \in [Users -> SUBSET Mutations]
    BY <1>1, <1>2 DEF Types, Start, Imported
  <2>4. typed' \in [Users -> Seq(Lines)] /\ done' \in [Users -> Seq(Mutations)]
    BY <1>1 DEF Types, Start
  <2>5. request' \in [Users -> Sendable]
    BY <1>1, <1>4 DEF Types, Start
  <2>6. /\ answer' \in [Users -> {"none", "Success", "Data", "Error", "KeyError", "eof"}]
        /\ exit' \in [Users -> {"running", "success", "failure"}]
    BY <1>1 DEF Types, Start
  <2>7. runs' \in 0 .. MaxRuns
    BY <1>1, CliAssumption DEF Types, Start
  <2> QED BY <1>1, <2>1, <2>2, <2>3, <2>4, <2>5, <2>6, <2>7 DEF Types, Start
<1>8. Typed(u)' /\ Aimed(u)'
  <2>1. Prompts(c.verb) \in Nat
        /\ (Prompts(c.verb) = 0 => NewPassphrase(c, <<>>) = {})
    BY <1>3, PromptFacts
  <2>2. CASE Prompts(c.verb) > 0
    BY <1>3, <1>4, <1>6, <2>2 DEF Typed, Aimed
  <2>3. CASE Prompts(c.verb) = 0
    <3>1. Len(<<>>) = 0 /\ NewPassphrase(c, <<>>) \subseteq confirmed'
      BY <2>1, <2>3
    <3> QED BY <1>3, <1>4, <1>6, <2>3, <3>1 DEF Typed, Aimed
  <2> QED BY <2>1, <2>2, <2>3
<1>9. Sent(u)'
  BY <1>4, <1>5, <1>6 DEF Sent
<1>10. Effected(u)'
  <2>1. pc'[u] \in {"prompt", "send"}
    BY <1>6
  <2>2. Begun(u)' /\ Told(u)' /\ Had(u)'
    BY <1>6, <2>1 DEF Begun, Told, Had
  <2> QED BY <1>6, <2>2 DEF Effected
<1>11. \A v \in Users \ {u} : Undisturbed(v)
  BY <1>1, <1>2 DEF Start, Undisturbed, Types
<1>12. PassphraseConfirmed'
  BY ConfirmedKept DEF CliOK, Start
<1> QED BY <1>7, <1>8, <1>9, <1>10, <1>11, <1>12, OneUser DEF Command

(* What the prompts have confirmed is something they have read.            *)
LEMMA NewPassphraseTyped ==
    ASSUME NEW c, NEW t \in Seq(Lines), Len(t) = Prompts(c.verb)
    PROVE  NewPassphrase(c, t) \subseteq Lines
<1>1. CASE c.verb = "init"
  <2>1. NewPassphrase(c, t) = {t[1]} \cap {t[2]}
    BY <1>1 DEF NewPassphrase
  <2>2. t[1] \in Lines
    BY <1>1, PromptFacts
  <2> QED BY <2>1, <2>2
<1>2. CASE c.verb = "change-key"
  <2>1. NewPassphrase(c, t) = {t[2]} \cap {t[3]}
    BY <1>2 DEF NewPassphrase
  <2>2. t[2] \in Lines
    BY <1>2, PromptFacts
  <2> QED BY <2>1, <2>2
<1>3. CASE c.verb \notin {"init", "change-key"}
  BY <1>3, PromptFacts
<1> QED BY <1>1, <1>2, <1>3

LEMMA PromptPreservesCliOK ==
    ASSUME CliOK, NEW u \in Users, Prompt(u)
    PROVE  CliOK'
<1>1. Types /\ Aimed(u) /\ Command(u) /\ PassphraseConfirmed
  BY TypeParts DEF CliOK
<1>2. /\ pc[u] = "prompt" /\ cmd' = cmd /\ zfs' = zfs /\ request' = request /\ done' = done
      /\ answer' = answer /\ runs' = runs /\ faults' = faults /\ history' = history
      /\ did' = did /\ accident' = accident /\ was_imported' = was_imported
  BY DEF Prompt, history
<1>3. /\ cmd[u].pool \in Pools /\ Len(typed[u]) < Prompts(cmd[u].verb) /\ request[u].op = "none"
      /\ done[u] = <<>> /\ answer[u] = "none" /\ exit[u] = "running" /\ Had(u)
  BY <1>1, <1>2 DEF Command, Typed, Effected, Told
<1>4. cmd[u].verb \in Verbs /\ typed[u] \in Seq(Lines) /\ Prompts(cmd[u].verb) \in Nat
  <2>1. cmd[u].verb \in Verbs /\ typed[u] \in Seq(Lines)
    BY <1>1 DEF Types
  <2> QED BY <2>1, PromptFacts
<1>5. CASE \E x \in Lines :
             /\ typed' = [typed EXCEPT ![u] = Append(@, x)]
             /\ IF Len(typed[u]) + 1 = Prompts(cmd[u].verb)
                THEN /\ Goto(u, "send")
                     /\ confirmed' = confirmed \cup NewPassphrase(cmd[u], typed'[u])
                ELSE UNCHANGED <<pc, confirmed>>
             /\ UNCHANGED exit
  <2>1. PICK x \in Lines :
             /\ typed' = [typed EXCEPT ![u] = Append(@, x)]
             /\ IF Len(typed[u]) + 1 = Prompts(cmd[u].verb)
                THEN /\ Goto(u, "send")
                     /\ confirmed' = confirmed \cup NewPassphrase(cmd[u], typed'[u])
                ELSE UNCHANGED <<pc, confirmed>>
             /\ UNCHANGED exit
    BY <1>5
  <2> DEFINE t == Append(typed[u], x)
  <2>2. t \in Seq(Lines) /\ Len(t) = Len(typed[u]) + 1 /\ typed'[u] = t
    BY <1>1, <1>4, <2>1 DEF Types
  <2> HIDE DEF t
  <2>3. confirmed \subseteq confirmed'
    BY <2>1
  <2>4. Len(t) = Prompts(cmd[u].verb) => NewPassphrase(cmd[u], t) \subseteq Lines
    BY <2>2, NewPassphraseTyped
  <2>5. Types'
    <3>1. typed' \in [Users -> Seq(Lines)]
      BY <1>1, <2>1 DEF Types
    <3>2. pc' \in [Users -> {"shell", "prompt", "send", "serve", "finish", "fallback"}]
      BY <1>1, <2>1 DEF Types, Goto
    <3>3. confirmed' \subseteq Lines
      BY <1>1, <2>1, <2>2, <2>4 DEF Types
    <3> QED BY <1>1, <1>2, <2>1, <3>1, <3>2, <3>3 DEF Types
  <2>6. ASSUME Len(t) = Prompts(cmd[u].verb) PROVE Typed(u)' /\ Aimed(u)'
    <3>1. pc'[u] = "send" /\ NewPassphrase(cmd[u], t) \subseteq confirmed'
      BY <1>1, <2>1, <2>2, <2>6 DEF Goto, Types
    <3>2. cmd'[u] = cmd[u] /\ request'[u].op = "none" /\ Len(t) >= Prompts(cmd[u].verb)
      BY <1>2, <1>3, <1>4, <2>6
    <3>3. Typed(u)'
      BY <1>3, <2>2, <2>6, <3>1, <3>2 DEF Typed
    <3>4. Aimed(u)'
      BY <2>2, <3>1, <3>2 DEF Aimed
    <3> QED BY <3>3, <3>4
  <2>7. ASSUME Len(t) # Prompts(cmd[u].verb) PROVE Typed(u)' /\ Aimed(u)'
    <3>1. pc'[u] = "prompt" /\ Len(t) < Prompts(cmd[u].verb)
      BY <1>2, <1>3, <1>4, <2>1, <2>2, <2>7
    <3>2. cmd'[u] = cmd[u] /\ request'[u].op = "none"
      BY <1>2, <1>3
    <3>3. Typed(u)'
      BY <1>3, <2>2, <3>1, <3>2 DEF Typed
    <3>4. Aimed(u)'
      BY <3>1 DEF Aimed
    <3> QED BY <3>3, <3>4
  <2>8. pc'[u] \in {"prompt", "send"} /\ exit' = exit
    BY <1>1, <1>2, <2>1 DEF Goto, Types
  <2>9. Begun(u)' /\ Told(u)' /\ Had(u)'
    BY <1>2, <1>3, <2>8 DEF Begun, Told, Had
  <2>10. Effected(u)'
    BY <1>2, <1>3, <2>9 DEF Effected
  <2>11. \A v \in Users \ {u} : Undisturbed(v)
    BY <1>1, <1>2, <2>1, <2>3 DEF Undisturbed, Types, Goto
  <2>12. PassphraseConfirmed'
    BY <1>1, <1>2, <2>3, ConfirmedKept
  <2>13. Sent(u)'
    BY <1>1, <1>2, <2>3 DEF Sent, Command
  <2> QED BY <2>5, <2>6, <2>7, <2>10, <2>11, <2>12, <2>13, OneUser DEF Command
<1>6. CASE Exit(u, "failure") /\ UNCHANGED <<typed, confirmed>>
  <2>1. pc'[u] = "shell" /\ exit'[u] = "failure" /\ typed' = typed /\ confirmed' = confirmed
    BY <1>1, <1>6 DEF Exit, Goto, Types
  <2>2. Types'
    <3>1. pc' \in [Users -> {"shell", "prompt", "send", "serve", "finish", "fallback"}]
      BY <1>1, <1>6 DEF Types, Exit, Goto
    <3>2. exit' \in [Users -> {"running", "success", "failure"}]
      BY <1>1, <1>6 DEF Types, Exit
    <3> QED BY <1>1, <1>2, <2>1, <3>1, <3>2 DEF Types
  <2>3. Typed(u)' /\ Aimed(u)'
    BY <2>1 DEF Typed, Aimed
  <2>4. Begun(u)' /\ Told(u)' /\ Had(u)'
    BY <1>2, <1>3, <2>1 DEF Begun, Told, Had
  <2>5. Effected(u)'
    BY <1>2, <1>3, <2>4 DEF Effected
  <2>6. \A v \in Users \ {u} : Undisturbed(v)
    BY <1>1, <1>2, <1>6 DEF Undisturbed, Types, Exit, Goto
  <2>7. PassphraseConfirmed'
    BY <1>1, <1>2, <2>1, ConfirmedKept
  <2>8. Sent(u)'
    BY <1>1, <1>2, <2>1 DEF Sent, Command
  <2> QED BY <2>2, <2>3, <2>5, <2>8, <2>6, <2>7, OneUser DEF Command
<1> QED BY <1>5, <1>6 DEF Prompt

LEMMA SendPreservesCliOK ==
    ASSUME CliOK, NEW u \in Users, Send(u)
    PROVE  CliOK'
<1>1. Types /\ Aimed(u) /\ Command(u) /\ PassphraseConfirmed
  BY TypeParts DEF CliOK
<1>2. /\ pc[u] = "send" /\ cmd' = cmd /\ zfs' = zfs /\ typed' = typed /\ done' = done
      /\ answer' = answer /\ runs' = runs /\ confirmed' = confirmed
      /\ did' = did /\ accident' = accident /\ was_imported' = was_imported
  BY DEF Send, history
<1>3. /\ cmd[u].pool \in Pools /\ Len(typed[u]) = Prompts(cmd[u].verb)
      /\ NewPassphrase(cmd[u], typed[u]) \subseteq confirmed
      /\ done[u] = <<>> /\ answer[u] = "none" /\ exit[u] = "running" /\ Had(u)
      /\ Len(typed[u]) >= Prompts(cmd[u].verb)
  BY <1>1, <1>2 DEF Command, Typed, Effected, Told, Aimed
<1>4. PassphraseConfirmed'
  BY <1>1, <1>2, ConfirmedKept
<1>5. ASSUME pc'[u] \in {"shell", "serve"}, exit'[u] = IF pc'[u] = "shell" THEN "failure" ELSE "running"
      PROVE  Effected(u)'
  <2>1. Begun(u)' /\ Told(u)' /\ Had(u)'
    BY <1>2, <1>3, <1>5 DEF Begun, Told, Had
  <2> QED BY <1>2, <1>3, <2>1 DEF Effected
<1>6. CASE Exit(u, "failure") /\ UNCHANGED request /\ faults' \in {faults, faults + 1} \cap (0 .. MaxFaults)
  <2>1. pc'[u] = "shell" /\ exit'[u] = "failure"
    BY <1>1, <1>6 DEF Exit, Goto, Types
  <2>2. Types'
    <3>1. pc' \in [Users -> {"shell", "prompt", "send", "serve", "finish", "fallback"}]
      BY <1>1, <1>6 DEF Types, Exit, Goto
    <3>2. exit' \in [Users -> {"running", "success", "failure"}]
      BY <1>1, <1>6 DEF Types, Exit
    <3> QED BY <1>1, <1>2, <1>6, <3>1, <3>2 DEF Types
  <2>3. Typed(u)' /\ Aimed(u)'
    BY <2>1 DEF Typed, Aimed
  <2>4. Sent(u)'
    BY <1>1, <1>2, <1>6 DEF Sent, Command
  <2>5. \A v \in Users \ {u} : Undisturbed(v)
    BY <1>1, <1>2, <1>6 DEF Undisturbed, Types, Exit, Goto
  <2> QED BY <1>4, <1>5, <2>1, <2>2, <2>3, <2>4, <2>5, OneUser DEF Command
<1>7. CASE /\ Accepted(cmd[u].verb, typed[u])
           /\ request' = [request EXCEPT ![u] = RequestOf(cmd[u], typed[u])]
           /\ Goto(u, "serve") /\ UNCHANGED <<exit, faults>>
  <2>1. pc'[u] = "serve" /\ exit'[u] = "running" /\ request'[u] = RequestOf(cmd[u], typed[u])
    BY <1>1, <1>3, <1>7 DEF Goto, Types
  <2>2. cmd[u] \in CommandLines /\ typed[u] \in Seq(Lines)
    BY <1>1, <1>3 DEF Types, CommandLines
  <2>3. /\ request'[u] \in Sendable /\ request'[u].op # "none"
        /\ Effects(request'[u]) # <<>> => request'[u].pool = cmd[u].pool
        /\ request'[u].op = "InitPool" /\ request'[u].flag
             => request'[u].pass \in NewPassphrase(cmd[u], typed[u])
        /\ request'[u].op = "ChangeKey" => request'[u].new \in NewPassphrase(cmd[u], typed[u])
        /\ request'[u].op = "ImportPool" <=> cmd[u].verb = "import"
    BY <1>3, <1>7, <2>1, <2>2, SendFacts
  <2>4. Types'
    <3>1. pc' \in [Users -> {"shell", "prompt", "send", "serve", "finish", "fallback"}]
      BY <1>1, <1>7 DEF Types, Goto
    <3>2. request' \in [Users -> Sendable]
      BY <1>1, <1>7, <2>1, <2>3 DEF Types
    <3> QED BY <1>1, <1>2, <1>7, <3>1, <3>2 DEF Types
  <2>5. Typed(u)' /\ Aimed(u)'
    BY <1>2, <1>3, <2>1, <2>3 DEF Typed, Aimed
  <2>6. Sent(u)'
    BY <1>2, <1>3, <2>3 DEF Sent
  <2>7. \A v \in Users \ {u} : Undisturbed(v)
    BY <1>1, <1>2, <1>7 DEF Undisturbed, Types, Goto
  <2> QED BY <1>4, <1>5, <2>1, <2>4, <2>5, <2>6, <2>7, OneUser DEF Command
<1>8. faults \in {faults, faults + 1} \cap (0 .. MaxFaults)
      /\ (faults < MaxFaults => faults + 1 \in {faults, faults + 1} \cap (0 .. MaxFaults))
  BY <1>1, CliAssumption DEF Types
<1> QED BY <1>6, <1>7, <1>8 DEF Send

(* What is known of the effects while some are missing, and when none is.  *)
LEMMA Progress ==
    ASSUME NEW u \in Users, Begun(u), done[u] \in Seq(Mutations)
    PROVE  /\ Unfinished(u) =>
                \/ /\ done[u] = <<>>
                   /\ Effects(request[u]) # <<>>
                \/ /\ done[u] = <<"load-key">>
                   /\ Effects(request[u]) \in {<<"load-key", "mount">>, <<"load-key", "change-key">>}
           /\ ~Unfinished(u) => done[u] = Effects(request[u])
<1>1. /\ Len(<<>>) = 0 /\ Len(<<"load-key">>) = 1
      /\ Len(<<"load-key", "mount">>) = 2 /\ Len(<<"load-key", "change-key">>) = 2
  OBVIOUS
<1>2. Len(Effects(request[u])) \in Nat
      /\ (Len(Effects(request[u])) = 0 => Effects(request[u]) = <<>>)
  BY EffectValues
<1>3. CASE done[u] = Effects(request[u])
  BY <1>2, <1>3 DEF Unfinished
<1>4. CASE done[u] = <<>> /\ done[u] # Effects(request[u])
  BY <1>1, <1>2, <1>4 DEF Unfinished
<1>5. CASE /\ done[u] = <<"load-key">>
           /\ Effects(request[u]) \in {<<"load-key", "mount">>, <<"load-key", "change-key">>}
  BY <1>1, <1>5 DEF Unfinished
<1> QED BY <1>3, <1>4, <1>5 DEF Begun

LEMMA FinishPreservesCliOK ==
    ASSUME CliOK, NEW u \in Users, Finish(u)
    PROVE  CliOK'
<1>1. Types /\ Aimed(u) /\ Command(u) /\ PassphraseConfirmed
  BY TypeParts DEF CliOK
<1>2. /\ pc[u] = "finish" /\ cmd' = cmd /\ zfs' = zfs /\ typed' = typed /\ done' = done
      /\ request' = request /\ answer' = answer /\ runs' = runs /\ faults' = faults
      /\ did' = did /\ accident' = accident /\ was_imported' = was_imported
      /\ confirmed' = confirmed
  BY DEF Finish, history
<1>3. cmd[u].pool \in Pools /\ answer[u] # "none" /\ exit[u] = "running"
  BY <1>1, <1>2 DEF Command, Typed, Effected, Told
<1>4. PassphraseConfirmed'
  BY <1>1, <1>2, ConfirmedKept
<1>5. Sent(u)' /\ Begun(u)' /\ Had(u)' /\ (cmd[u].verb = "import" /\ done[u] # <<>> => was_imported[u])'
  <2>1. Sent(u)'
    BY <1>1, <1>2 DEF Sent, Command
  <2>2. Begun(u)' /\ Had(u)'
    BY <1>1, <1>2 DEF Begun, Had, Command, Effected
  <2> QED BY <1>1, <1>2, <2>1, <2>2 DEF Command, Effected
<1>6. CASE FallsBack(u) /\ Goto(u, "fallback") /\ UNCHANGED exit
  <2>1. pc'[u] = "fallback" /\ exit'[u] = "running" /\ answer[u] = "KeyError"
    BY <1>1, <1>3, <1>6 DEF Goto, Types, FallsBack
  <2>2. cmd[u].verb = "import"
    BY <1>1, <1>6 DEF Command, Sent, FallsBack
  <2>3. Types'
    <3>1. pc' \in [Users -> {"shell", "prompt", "send", "serve", "finish", "fallback"}]
      BY <1>1, <1>6 DEF Types, Goto
    <3> QED BY <1>1, <1>2, <1>6, <3>1 DEF Types
  <2>4. Typed(u)' /\ Aimed(u)'
    BY <1>2, <1>3, <2>1 DEF Typed, Aimed
  <2>5. Told(u)'
    BY <1>1, <1>2, <1>3, <2>1, <2>2 DEF Told, Command, Effected
  <2>6. \A v \in Users \ {u} : Undisturbed(v)
    BY <1>1, <1>2, <1>6 DEF Undisturbed, Types, Goto
  <2> QED BY <1>4, <1>5, <2>3, <2>4, <2>5, <2>6, OneUser DEF Command, Effected
<1>7. CASE Exit(u, IF answer[u] \in {"Success", "Data"} THEN "success" ELSE "failure")
  <2>1. /\ pc'[u] = "shell"
        /\ exit'[u] = IF answer[u] \in {"Success", "Data"} THEN "success" ELSE "failure"
    BY <1>1, <1>7 DEF Exit, Goto, Types
  <2>2. Types'
    <3>1. pc' \in [Users -> {"shell", "prompt", "send", "serve", "finish", "fallback"}]
      BY <1>1, <1>7 DEF Types, Exit, Goto
    <3>2. exit' \in [Users -> {"running", "success", "failure"}]
      BY <1>1, <1>7 DEF Types, Exit
    <3> QED BY <1>1, <1>2, <3>1, <3>2 DEF Types
  <2>3. Typed(u)' /\ Aimed(u)'
    BY <2>1 DEF Typed, Aimed
  <2>4. Told(u)'
    BY <1>1, <1>2, <1>3, <2>1 DEF Told, Command, Effected
  <2>5. \A v \in Users \ {u} : Undisturbed(v)
    BY <1>1, <1>2, <1>7 DEF Undisturbed, Types, Exit, Goto
  <2> QED BY <1>4, <1>5, <2>2, <2>3, <2>4, <2>5, OneUser DEF Command, Effected
<1> QED BY <1>6, <1>7 DEF Finish

LEMMA FallbackPreservesCliOK ==
    ASSUME CliOK, NEW u \in Users, Fallback(u)
    PROVE  CliOK'
<1>1. Types /\ Aimed(u) /\ Command(u) /\ PassphraseConfirmed
  BY TypeParts DEF CliOK
<1>2. /\ pc[u] = "fallback" /\ cmd' = cmd /\ zfs' = zfs /\ runs' = runs /\ faults' = faults
      /\ did' = did /\ accident' = accident /\ was_imported' = was_imported
      /\ confirmed' = confirmed
  BY DEF Fallback, history
<1>3. cmd[u].pool \in Pools /\ cmd[u].verb = "import" /\ exit[u] = "running"
  BY <1>1, <1>2 DEF Command, Typed, Effected, Told
<1>4. PassphraseConfirmed'
  BY <1>1, <1>2, ConfirmedKept
<1>5. CASE \E x \in Lines :
             /\ typed' = [typed EXCEPT ![u] = Append(@, x)]
             /\ request' = [request EXCEPT ![u] = Mount(cmd[u].pool, x)]
             /\ done' = [done EXCEPT ![u] = <<>>]
             /\ answer' = [answer EXCEPT ![u] = "none"]
             /\ Goto(u, "serve") /\ UNCHANGED exit
  <2>1. PICK x \in Lines :
             /\ typed' = [typed EXCEPT ![u] = Append(@, x)]
             /\ request' = [request EXCEPT ![u] = Mount(cmd[u].pool, x)]
             /\ done' = [done EXCEPT ![u] = <<>>]
             /\ answer' = [answer EXCEPT ![u] = "none"]
             /\ Goto(u, "serve") /\ UNCHANGED exit
    BY <1>5
  <2>2. typed[u] \in Seq(Lines) /\ x \in Keys \cup Short
    BY <1>1 DEF Types, Lines, Keys
  <2>3. /\ pc'[u] = "serve" /\ done'[u] = <<>> /\ answer'[u] = "none" /\ exit'[u] = "running"
        /\ request'[u] = Mount(cmd[u].pool, x) /\ typed'[u] = Append(typed[u], x)
    BY <1>1, <1>3, <2>1 DEF Goto, Types
  <2>4. request'[u] \in Sendable /\ request'[u].op = "Mount" /\ request'[u].pool = cmd[u].pool
    BY <1>3, <2>2, <2>3, RequestShapes
  <2>5. Types'
    <3>1. pc' \in [Users -> {"shell", "prompt", "send", "serve", "finish", "fallback"}]
      BY <1>1, <2>1 DEF Types, Goto
    <3>2. request' \in [Users -> Sendable]
      BY <1>1, <2>1, <2>3, <2>4 DEF Types
    <3>3. typed' \in [Users -> Seq(Lines)] /\ done' \in [Users -> Seq(Mutations)]
      BY <1>1, <2>1 DEF Types
    <3>4. answer' \in [Users -> {"none", "Success", "Data", "Error", "KeyError", "eof"}]
      BY <1>1, <2>1 DEF Types
    <3> QED BY <1>1, <1>2, <2>1, <3>1, <3>2, <3>3, <3>4 DEF Types
  <2>6. Prompts("import") = 0 /\ Len(typed'[u]) \in Nat
    <3>1. "import" \in Verbs \ {"init", "mount", "change-key"}
      BY DEF Verbs
    <3>2. Append(typed[u], x) \in Seq(Lines)
      BY <2>2
    <3> QED BY <2>3, <3>1, <3>2, PromptFacts
  <2>7. Typed(u)' /\ Aimed(u)'
    BY <1>2, <1>3, <2>3, <2>4, <2>6 DEF Typed, Aimed
  <2>8. Sent(u)'
    BY <1>2, <1>3, <2>4 DEF Sent
  <2>9. Begun(u)' /\ Told(u)' /\ Had(u)'
    <3>1. ~accident[u] => done[u] \in {<<>>, <<"load-key">>}
      BY <1>1, <1>2 DEF Command, Effected, Told
    <3>2. Had(u)'
      BY <1>1, <1>2, <2>3, <3>1 DEF Had, Command, Effected
    <3> QED BY <2>3, <3>2 DEF Begun, Told
  <2>10. \A v \in Users \ {u} : Undisturbed(v)
    BY <1>1, <1>2, <2>1 DEF Undisturbed, Types, Goto
  <2> QED BY <1>4, <2>3, <2>5, <2>7, <2>8, <2>9, <2>10, OneUser DEF Command, Effected
<1>6. CASE Exit(u, "failure") /\ UNCHANGED <<typed, request, done, answer>>
  <2>1. pc'[u] = "shell" /\ exit'[u] = "failure"
    BY <1>1, <1>6 DEF Exit, Goto, Types
  <2>2. Types'
    <3>1. pc' \in [Users -> {"shell", "prompt", "send", "serve", "finish", "fallback"}]
      BY <1>1, <1>6 DEF Types, Exit, Goto
    <3>2. exit' \in [Users -> {"running", "success", "failure"}]
      BY <1>1, <1>6 DEF Types, Exit
    <3> QED BY <1>1, <1>2, <1>6, <3>1, <3>2 DEF Types
  <2>3. Typed(u)' /\ Aimed(u)'
    BY <2>1 DEF Typed, Aimed
  <2>4. Sent(u)'
    BY <1>1, <1>2, <1>6 DEF Sent, Command
  <2>5. Begun(u)' /\ Had(u)'
    BY <1>1, <1>2, <1>6 DEF Begun, Had, Command, Effected
  <2>6. Told(u)'
    BY <1>1, <1>2, <1>6, <2>1 DEF Told, Command, Effected
  <2>7. (cmd[u].verb = "import" /\ done[u] # <<>> => was_imported[u])'
    BY <1>1, <1>2, <1>6 DEF Command, Effected
  <2>8. \A v \in Users \ {u} : Undisturbed(v)
    BY <1>1, <1>2, <1>6 DEF Undisturbed, Types, Exit, Goto
  <2> QED BY <1>4, <2>2, <2>3, <2>4, <2>5, <2>6, <2>7, <2>8, OneUser DEF Command, Effected
<1> QED BY <1>5, <1>6 DEF Fallback

-----------------------------------------------------------------------------
(* The daemon takes one more effect of a request.                          *)

(* What a pool becomes: encrypted with what create or change-key were fed. *)
LEMMA EffectFacts ==
    ASSUME NEW s \in PoolStates, NEW k, k.pass \in Keys \cup Short, k.flag \in BOOLEAN,
           k.op \in Mutations, Allowed(s, k)
    PROVE  /\ Effect(s, k) \in PoolStates
           /\ k.op \in {"import", "load-key", "mount"} => Imported(Effect(s, k))
           /\ Effect(s, k).encrypted =>
                \/ s.encrypted /\ Effect(s, k).pass = s.pass
                \/ k.op = "create" /\ k.flag /\ Effect(s, k).pass = k.pass
                \/ k.op = "change-key" /\ Effect(s, k).pass = k.pass
<1>1. CASE k.op = "create"
  <2>1. Effect(s, k) = [at |-> "imported", encrypted |-> k.flag,
                        pass |-> IF k.flag THEN k.pass ELSE NoPass,
                        loaded |-> k.flag, mounted |-> TRUE]
    BY <1>1 DEF Effect
  <2>2. k.flag => k.pass \in Passphrases
    BY <1>1 DEF Allowed
  <2>3. Effect(s, k) \in PoolStates
    BY <2>1, <2>2 DEF PoolStates, Keys
  <2>4. Effect(s, k).encrypted => k.flag /\ Effect(s, k).pass = k.pass
    BY <2>1
  <2> QED BY <1>1, <2>3, <2>4
<1>2. CASE k.op = "change-key"
  <2>1. Effect(s, k) = [s EXCEPT !.pass = k.pass] /\ k.pass \in Passphrases
    BY <1>2 DEF Effect, Allowed
  <2>2. Effect(s, k) \in PoolStates /\ Effect(s, k).pass = k.pass
    BY <2>1 DEF PoolStates, Keys
  <2> QED BY <1>2, <2>2
<1>3. CASE k.op \in Mutations \ {"create", "change-key"}
  <2>1. Effect(s, k) \in PoolStates
    BY <1>3 DEF Effect, PoolStates, Mutations
  <2>2. Effect(s, k).pass = s.pass
    BY <1>3 DEF Effect, PoolStates, Mutations
  <2>3. Effect(s, k).encrypted => s.encrypted
    BY <1>3 DEF Effect, PoolStates, Mutations
  <2>4. k.op \in {"import", "load-key", "mount"} => Imported(Effect(s, k))
    BY <1>3 DEF Effect, PoolStates, Mutations, Allowed, Imported
  <2> QED BY <1>3, <2>1, <2>2, <2>3, <2>4
<1> QED BY <1>1, <1>2, <1>3

(* The same of what a command leaves that ends abnormally.                 *)
LEMMA LeftFacts ==
    ASSUME NEW s \in PoolStates, NEW k, k.pass \in Keys \cup Short, k.flag \in BOOLEAN,
           k.op \in Mutations, Allowed(s, k), NEW t \in LeftBehind(s, k)
    PROVE  /\ t \in PoolStates
           /\ t.encrypted =>
                \/ s.encrypted /\ t.pass = s.pass
                \/ k.op = "create" /\ k.flag /\ t.pass = k.pass
                \/ k.op = "change-key" /\ t.pass = k.pass
<1>1. CASE t = Effect(s, k)
  BY <1>1, EffectFacts
<1>2. CASE t = Halfway(s, k)
  <2>1. CASE k.op = "create"
    <3>1. t = [Effect(s, k) EXCEPT !.mounted = FALSE]
      BY <1>2, <2>1 DEF Halfway
    <3>2. Effect(s, k) \in PoolStates
      BY EffectFacts
    <3>3. t \in PoolStates /\ t.encrypted = Effect(s, k).encrypted /\ t.pass = Effect(s, k).pass
      BY <3>1, <3>2 DEF PoolStates
    <3> QED BY <2>1, <3>3, EffectFacts
  <2>2. CASE k.op \in {"import", "export", "unmount"}
    <3>1. t \in {[s EXCEPT !.at = "imported"], [s EXCEPT !.mounted = FALSE]}
      BY <1>2, <2>2 DEF Halfway
    <3> QED BY <3>1 DEF PoolStates
  <2>3. CASE k.op \notin {"create", "import", "export", "unmount"}
    <3>1. t = Effect(s, k)
      BY <1>2, <2>3 DEF Halfway
    <3> QED BY <3>1, EffectFacts
  <2> QED BY <2>1, <2>2, <2>3
<1> QED BY <1>1, <1>2 DEF LeftBehind

LEMMA AppendFirst ==
    ASSUME NEW S, NEW x \in S
    PROVE  Append(<<>>, x) = <<x>>
<1>1. <<>> \in Seq(S) /\ <<x>> \in Seq(S)
  OBVIOUS
<1>2. Append(<<>>, x) \in Seq(S) /\ Len(Append(<<>>, x)) = 1 /\ Len(<<x>>) = 1
  BY <1>1
<1>3. \A i \in 1 .. 1 : Append(<<>>, x)[i] = <<x>>[i]
  BY <1>1
<1> QED BY <1>1, <1>2, <1>3, SeqEqual

LEMMA AppendSecond ==
    ASSUME NEW S, NEW x \in S, NEW y \in S
    PROVE  Append(<<x>>, y) = <<x, y>>
<1>1. <<x>> \in Seq(S) /\ <<x, y>> \in Seq(S)
  OBVIOUS
<1>2. Append(<<x>>, y) \in Seq(S) /\ Len(Append(<<x>>, y)) = 2 /\ Len(<<x, y>>) = 2
  BY <1>1
<1>3. Append(<<x>>, y)[1] = x /\ Append(<<x>>, y)[2] = y
  BY <1>1
<1>4. \A i \in 1 .. 2 : Append(<<x>>, y)[i] = <<x, y>>[i]
  BY <1>3
<1> QED BY <1>1, <1>2, <1>4, SeqEqual

(* Which effect comes next, and what has been had once it is.              *)
LEMMA NextFacts ==
    ASSUME NEW u \in Users, Begun(u), Unfinished(u), done[u] \in Seq(Mutations),
           NEW k, k = NextCommand(u)
    PROVE  /\ k.op \in Mutations /\ k.pool = request[u].pool /\ k.flag = request[u].flag
           /\ k.op = "create" => k.pass = request[u].pass /\ request[u].op = "InitPool"
           /\ k.op = "change-key" => k.pass = request[u].new /\ request[u].op = "ChangeKey"
           /\ k.pass \in {request[u].pass, request[u].new}
           /\ request[u].op \in {"ImportPool", "Mount"} => k.op \in {"import", "load-key", "mount"}
           /\ \/ Append(done[u], k.op) = Effects(request[u])
              \/ /\ Append(done[u], k.op) = <<"load-key">>
                 /\ Effects(request[u]) \in {<<"load-key", "mount">>, <<"load-key", "change-key">>}
<1> DEFINE e == Effects(request[u])
           o == e[Len(done[u]) + 1]
<1>1. /\ k.op = o /\ k.pool = request[u].pool /\ k.flag = request[u].flag
      /\ k.pass = IF o = "change-key" THEN request[u].new ELSE request[u].pass
  BY DEF NextCommand, CommandFor
<1>2. \/ done[u] = <<>> /\ e # <<>>
      \/ done[u] = <<"load-key">> /\ e \in {<<"load-key", "mount">>, <<"load-key", "change-key">>}
  BY Progress
<1>3. /\ e = <<"create">> => request[u].op = "InitPool"
      /\ e = <<"load-key", "change-key">> => request[u].op = "ChangeKey"
      /\ request[u].op \in {"ImportPool", "Mount"}
           => e \in {<<"import">>, <<"mount">>, <<"load-key", "mount">>}
  BY EffectCases
<1>4. CASE done[u] = <<>>
  <2>1. e \in {<<"import">>, <<"export">>, <<"unmount">>, <<"create">>,
               <<"mount">>, <<"load-key", "mount">>, <<"load-key", "change-key">>}
    BY <1>2, <1>4, EffectValues
  <2>2. o = e[1]
    BY <1>4
  <2>3. o \in Mutations \ {"change-key"}
    BY <2>1, <2>2 DEF Mutations
  <2>4. Append(<<>>, o) = <<o>>
    BY <2>3, AppendFirst
  <2>5. \/ Append(done[u], o) = e
        \/ /\ Append(done[u], o) = <<"load-key">>
           /\ e \in {<<"load-key", "mount">>, <<"load-key", "change-key">>}
    BY <1>4, <2>1, <2>2, <2>4
  <2>6. o = "create" => request[u].op = "InitPool"
    <3>1. CASE e = <<"create">>
      BY <1>3, <3>1
    <3>2. CASE e \in {<<"import">>, <<"export">>, <<"unmount">>, <<"mount">>,
                      <<"load-key", "mount">>, <<"load-key", "change-key">>}
      <4>1. e[1] # "create"
        BY <3>2
      <4> QED BY <2>2, <4>1
    <3> QED BY <2>1, <3>1, <3>2
  <2>7. request[u].op \in {"ImportPool", "Mount"} => o \in {"import", "load-key", "mount"}
    BY <1>3, <2>2
  <2> QED BY <1>1, <2>3, <2>5, <2>6, <2>7
<1>5. CASE done[u] = <<"load-key">> /\ e \in {<<"load-key", "mount">>, <<"load-key", "change-key">>}
  <2>1. o = e[2]
    BY <1>5
  <2>2. o \in {"mount", "change-key"} /\ e = <<"load-key", o>>
    BY <1>5, <2>1
  <2>3. "load-key" \in Mutations /\ o \in Mutations
    BY <2>2 DEF Mutations
  <2>4. Append(<<"load-key">>, o) = <<"load-key", o>>
    BY <2>3, AppendSecond
  <2> QED BY <1>1, <1>3, <1>5, <2>2, <2>3, <2>4 DEF Mutations
<1> QED BY <1>2, <1>4, <1>5

(* A step that leaves pools and histories as they should be.               *)
Kept(u) ==
    /\ zfs' \in [Pools -> PoolStates] /\ PassphraseConfirmed'
    /\ did' \in [Users -> SUBSET Mutations] /\ accident' \in [Users -> BOOLEAN]
    /\ was_imported' \in [Users -> BOOLEAN]
    /\ \A v \in Users : was_imported[v] => was_imported'[v]
    /\ \A v \in Users \ {u} : did'[v] = did[v] /\ accident'[v] = accident[v]

(* What the next command of a request makes of its pool.                   *)
LEMMA PoolChanges ==
    ASSUME CliOK, NEW u \in Users, pc[u] = "serve", Unfinished(u), NEW k, k = NextCommand(u),
           Allowed(zfs[k.pool], k), NEW s \in LeftBehind(zfs[k.pool], k), Becomes(u, k, s),
           UNCHANGED <<cmd, confirmed>>,
           accident' \in [Users -> BOOLEAN], \A v \in Users \ {u} : accident'[v] = accident[v]
    PROVE  /\ Kept(u)
           /\ zfs'[k.pool] = s /\ did'[u] = did[u] \cup {k.op} /\ k.pool = cmd[u].pool
           /\ was_imported'[u] <=> was_imported[u] \/ Imported(s)
<1>1. Types /\ Aimed(u) /\ Command(u) /\ PassphraseConfirmed
  BY TypeParts DEF CliOK
<1>2. Begun(u) /\ done[u] \in Seq(Mutations)
  BY <1>1 DEF Command, Effected, Types
<1>3. /\ k.op \in Mutations /\ k.pool = request[u].pool /\ k.flag = request[u].flag
      /\ k.op = "create" => k.pass = request[u].pass /\ request[u].op = "InitPool"
      /\ k.op = "change-key" => k.pass = request[u].new /\ request[u].op = "ChangeKey"
      /\ k.pass \in {request[u].pass, request[u].new}
  BY <1>2, NextFacts
<1>4. Effects(request[u]) # <<>>
  <2>1. <<"load-key", "mount">> # <<>> /\ <<"load-key", "change-key">> # <<>>
    OBVIOUS
  <2> QED BY <1>2, <2>1, Progress
<1>5. k.pool = cmd[u].pool /\ k.pool \in Pools /\ request[u] \in Sendable
  BY <1>1, <1>3, <1>4 DEF Command, Sent, Types
<1>6. k.pass \in Keys \cup Short /\ k.flag \in BOOLEAN /\ zfs[k.pool] \in PoolStates
  BY <1>1, <1>3, <1>5 DEF Types, Sendable
<1>7. /\ s \in PoolStates
      /\ s.encrypted =>
           \/ zfs[k.pool].encrypted /\ s.pass = zfs[k.pool].pass
           \/ k.op = "create" /\ k.flag /\ s.pass = k.pass
           \/ k.op = "change-key" /\ s.pass = k.pass
  BY <1>3, <1>6, LeftFacts
<1>8. /\ zfs' = [zfs EXCEPT ![k.pool] = s]
      /\ did' = [did EXCEPT ![u] = @ \cup {k.op}]
      /\ was_imported' =
           [v \in Users |->
              was_imported[v] \/ (cmd[v].pool \in Pools /\ Imported(zfs'[cmd[v].pool]))]
  BY DEF Becomes
<1>9. zfs'[k.pool] = s /\ did'[u] = did[u] \cup {k.op}
  BY <1>1, <1>5, <1>8 DEF Types
<1>10. PassphraseConfirmed'
  <2> SUFFICES ASSUME NEW p \in Pools, zfs'[p].encrypted
               PROVE  zfs'[p].pass \in confirmed \cup {t.pass : t \in InitialPools}
    BY DEF PassphraseConfirmed
  <2>1. CASE p # k.pool
    <3>1. zfs'[p] = zfs[p]
      BY <1>1, <1>8, <2>1 DEF Types
    <3> QED BY <1>1, <3>1 DEF PassphraseConfirmed
  <2>2. CASE p = k.pool
    <3>1. CASE zfs[p].encrypted /\ zfs'[p].pass = zfs[p].pass
      BY <1>1, <3>1 DEF PassphraseConfirmed
    <3>2. CASE k.op = "create" /\ k.flag /\ zfs'[p].pass = k.pass
      <4>1. request[u].op = "InitPool" /\ k.pass = request[u].pass
        BY <1>3, <3>2
      <4>2. request[u].flag
        BY <1>3, <3>2, Zenon
      <4>3. request[u].pass \in confirmed
        BY <1>1, <4>1, <4>2 DEF Command, Sent
      <4> QED BY <3>2, <4>1, <4>3
    <3>3. CASE k.op = "change-key" /\ zfs'[p].pass = k.pass
      BY <1>1, <1>3, <3>3 DEF Command, Sent
    <3> QED BY <1>7, <1>9, <2>2, <3>1, <3>2, <3>3
  <2> QED BY <2>1, <2>2
<1>11. zfs' \in [Pools -> PoolStates] /\ did' \in [Users -> SUBSET Mutations]
  BY <1>1, <1>3, <1>5, <1>7, <1>8 DEF Types
<1>12. /\ was_imported' \in [Users -> BOOLEAN]
       /\ \A v \in Users : was_imported[v] => was_imported'[v]
       /\ was_imported'[u] <=> was_imported[u] \/ Imported(s)
  <2>1. was_imported'[u] <=> was_imported[u] \/ Imported(s)
    BY <1>5, <1>8, <1>9
  <2>2. was_imported' \in [Users -> BOOLEAN]
    BY <1>1, <1>8 DEF Types, Imported
  <2> QED BY <1>8, <2>1, <2>2
<1>13. \A v \in Users \ {u} : did'[v] = did[v]
  BY <1>1, <1>8 DEF Types
<1> QED BY <1>5, <1>9, <1>10, <1>11, <1>12, <1>13 DEF Kept

LEMMA TakePreservesCliOK ==
    ASSUME CliOK, NEW u \in Users, Take(u)
    PROVE  CliOK'
<1> DEFINE k == NextCommand(u)
<1>1. Types /\ Aimed(u) /\ Command(u)
  BY TypeParts DEF CliOK
<1>2. /\ pc[u] = "serve" /\ Unfinished(u) /\ Allowed(zfs[k.pool], k)
      /\ Becomes(u, k, Effect(zfs[k.pool], k))
      /\ done' = [done EXCEPT ![u] = Append(@, k.op)]
      /\ cmd' = cmd /\ pc' = pc /\ typed' = typed /\ request' = request /\ answer' = answer
      /\ exit' = exit /\ runs' = runs /\ faults' = faults /\ confirmed' = confirmed
      /\ accident' = accident
  BY DEF Take
<1>3. /\ k.op \in Mutations
      /\ request[u].op \in {"ImportPool", "Mount"} => k.op \in {"import", "load-key", "mount"}
      /\ \/ Append(done[u], k.op) = Effects(request[u])
         \/ /\ Append(done[u], k.op) = <<"load-key">>
            /\ Effects(request[u]) \in {<<"load-key", "mount">>, <<"load-key", "change-key">>}
  <2>1. Begun(u) /\ done[u] \in Seq(Mutations)
    BY <1>1 DEF Command, Effected, Types
  <2> QED BY <1>2, <2>1, NextFacts
<1>4. done[u] \in {<<>>, <<"load-key">>}
  BY <1>1, <1>2, Progress DEF Command, Effected, Types
<1>5. /\ Kept(u) /\ did'[u] = did[u] \cup {k.op}
      /\ was_imported'[u] <=> was_imported[u] \/ Imported(Effect(zfs[k.pool], k))
      /\ k.pool = cmd[u].pool
  <2>1. Effect(zfs[k.pool], k) \in LeftBehind(zfs[k.pool], k)
    BY DEF LeftBehind
  <2>2. accident' \in [Users -> BOOLEAN] /\ \A v \in Users \ {u} : accident'[v] = accident[v]
    BY <1>1, <1>2 DEF Types
  <2> QED BY <1>2, <2>1, <2>2, PoolChanges
<1> HIDE DEF k
<1>6. done'[u] = Append(done[u], k.op)
  BY <1>1, <1>2 DEF Types
<1>7. Types'
  <2>1. done' \in [Users -> Seq(Mutations)]
    BY <1>1, <1>2, <1>3 DEF Types
  <2> QED BY <1>1, <1>2, <1>5, <2>1 DEF Types, Kept
<1>8. Typed(u)' /\ Aimed(u)'
  BY <1>1, <1>2 DEF Typed, Aimed, Command
<1>9. Sent(u)'
  BY <1>1, <1>2 DEF Sent, Command
<1>10. Begun(u)'
  BY <1>2, <1>3, <1>6 DEF Begun
<1>11. Told(u)'
  <2>1. answer[u] = "none" /\ exit[u] = "running"
    BY <1>1, <1>2 DEF Told, Command, Effected
  <2> QED BY <1>2, <2>1 DEF Told
<1>12. Had(u)'
  <2> SUFFICES ASSUME ~accident[u], done'[u] \in {<<>>, <<"load-key">>}
               PROVE  did'[u] \subseteq {"load-key"}
    BY <1>2 DEF Had
  <2>1. did[u] \subseteq {"load-key"}
    BY <1>1, <1>4 DEF Had, Command, Effected
  <2>2. k.op = "load-key"
    <3>1. CASE done[u] = <<>>
      <4>1. done'[u] = <<k.op>>
        BY <1>3, <1>6, <3>1, AppendFirst
      <4>2. <<k.op>> = <<"load-key">>
        BY <4>1
      <4> QED BY <4>2
    <3>2. CASE done[u] = <<"load-key">>
      <4>1. "load-key" \in Mutations
        BY DEF Mutations
      <4>2. done'[u] = <<"load-key", k.op>>
        BY <1>3, <1>6, <3>2, <4>1, AppendSecond
      <4> QED BY <4>2
    <3> QED BY <1>4, <3>1, <3>2
  <2> QED BY <1>5, <2>1, <2>2
<1>13. (cmd[u].verb = "import" /\ done[u] # <<>> => was_imported[u])'
  <2> SUFFICES ASSUME cmd[u].verb = "import" PROVE was_imported'[u]
    BY <1>2
  <2>1. request[u].op \in {"ImportPool", "Mount"}
    BY <1>1, <1>2 DEF Command, Sent, Aimed
  <2>2. Imported(Effect(zfs[k.pool], k))
    <3>1. k.op \in {"import", "load-key", "mount"} /\ Allowed(zfs[k.pool], k)
      BY <1>2, <1>3, <2>1 DEF k
    <3>2. k.pool \in Pools /\ zfs[k.pool] \in PoolStates
      BY <1>1, <1>2, <1>5 DEF Command, Typed, Types
    <3> QED BY <3>1, <3>2 DEF Effect, PoolStates, Allowed, Imported
  <2> QED BY <1>5, <2>2
<1>14. \A v \in Users \ {u} : Undisturbed(v)
  BY <1>1, <1>2, <1>5 DEF Undisturbed, Types, Kept
<1>15. PassphraseConfirmed'
  BY <1>5 DEF Kept
<1> QED
  BY <1>7, <1>8, <1>9, <1>10, <1>11, <1>12, <1>13, <1>14, <1>15, OneUser DEF Command, Effected

(* The daemon's answer: a success only of what is done, and but for an     *)
(* accident an error only of what is not.                                  *)
LEMMA AnswerPreservesCliOK ==
    ASSUME CliOK, NEW u \in Users, pc[u] = "serve",
           NEW a \in {"Success", "Data", "Error", "KeyError", "eof"}, Answer(u, a),
           UNCHANGED <<cmd, typed, request, done, exit, runs, confirmed>>,
           Kept(u), Had(u)', faults' \in {faults, faults + 1} \cap (0 .. MaxFaults),
           a \in {"Error", "KeyError"} => accident'[u] \/ done[u] \in {<<>>, <<"load-key">>},
           a = "eof" => accident'[u],
           a \in {"Success", "Data"} => done[u] = Effects(request[u])
    PROVE  CliOK'
<1>1. Types /\ Aimed(u) /\ Command(u)
  BY TypeParts DEF CliOK
<1>2. pc'[u] = "finish" /\ answer'[u] = a
  BY <1>1 DEF Answer, Goto, Types
<1>3. /\ cmd[u].pool \in Pools /\ request[u].op # "none" /\ exit[u] = "running"
      /\ Len(typed[u]) >= Prompts(cmd[u].verb)
  BY <1>1 DEF Command, Typed, Effected, Told, Aimed
<1>4. Types'
  <2>1. pc' \in [Users -> {"shell", "prompt", "send", "serve", "finish", "fallback"}]
    BY <1>1 DEF Types, Answer, Goto
  <2>2. answer' \in [Users -> {"none", "Success", "Data", "Error", "KeyError", "eof"}]
    BY <1>1 DEF Types, Answer
  <2> QED BY <1>1, <2>1, <2>2 DEF Types, Kept
<1>5. Typed(u)' /\ Aimed(u)'
  BY <1>2, <1>3 DEF Typed, Aimed
<1>6. Sent(u)'
  BY <1>1 DEF Sent, Command
<1>7. Begun(u)'
  BY <1>1 DEF Begun, Effected, Command
<1>8. Told(u)'
  BY <1>2, <1>3 DEF Told
<1>9. (cmd[u].verb = "import" /\ done[u] # <<>> => was_imported[u])'
  BY <1>1 DEF Command, Effected, Kept
<1>10. \A v \in Users \ {u} : Undisturbed(v)
  BY <1>1 DEF Undisturbed, Types, Answer, Goto, Kept
<1>11. PassphraseConfirmed'
  BY DEF Kept
<1> QED BY <1>4, <1>5, <1>6, <1>7, <1>8, <1>9, <1>10, <1>11, OneUser DEF Command, Effected

LEMMA NothingChanges ==
    ASSUME CliOK, NEW u \in Users, UNCHANGED <<zfs, did, was_imported, confirmed>>,
           accident' \in [Users -> BOOLEAN], \A v \in Users \ {u} : accident'[v] = accident[v]
    PROVE  Kept(u)
<1>1. Types /\ PassphraseConfirmed
  BY TypeParts DEF CliOK
<1> QED BY <1>1, ConfirmedKept DEF Kept, Types

LEMMA RefusePreservesCliOK ==
    ASSUME CliOK, NEW u \in Users, Refuse(u)
    PROVE  CliOK'
<1>1. Types /\ Command(u)
  BY TypeParts DEF CliOK
<1>2. done[u] \in {<<>>, <<"load-key">>}
  BY <1>1, Progress DEF Refuse, Command, Effected, Types
<1>3. faults' \in {faults, faults + 1} \cap (0 .. MaxFaults)
  BY <1>1, CliAssumption DEF Refuse, Types
<1>4. PICK a \in ErrorKinds(u) : Answer(u, a)
  BY DEF Refuse
<1>5. a \in {"Error", "KeyError"}
  BY DEF ErrorKinds
<1>6. /\ pc[u] = "serve"
      /\ UNCHANGED <<zfs, cmd, typed, request, done, exit, runs, did, accident, was_imported, confirmed>>
  BY DEF Refuse, history
<1>7. Kept(u)
  BY <1>1, <1>6, NothingChanges DEF Types
<1>8. Had(u)'
  BY <1>1, <1>6 DEF Had, Command, Effected
<1> QED BY <1>2, <1>3, <1>4, <1>5, <1>6, <1>7, <1>8, AnswerPreservesCliOK

LEMMA ConcludePreservesCliOK ==
    ASSUME CliOK, NEW u \in Users, Conclude(u)
    PROVE  CliOK'
<1>1. Types /\ Command(u)
  BY TypeParts DEF CliOK
<1>2. done[u] = Effects(request[u])
  BY <1>1, Progress DEF Conclude, Command, Effected, Types
<1>3. faults' \in {faults, faults + 1} \cap (0 .. MaxFaults)
  BY <1>1, CliAssumption DEF Conclude, Types
<1>4. PICK a \in {"Success", "Data"} : Answer(u, a)
  BY DEF Conclude
<1>5. /\ pc[u] = "serve"
      /\ UNCHANGED <<zfs, cmd, typed, request, done, exit, runs, did, accident, was_imported, confirmed>>
  BY DEF Conclude, history
<1>6. Kept(u)
  BY <1>1, <1>5, NothingChanges DEF Types
<1>7. Had(u)'
  BY <1>1, <1>5 DEF Had, Command, Effected
<1> QED BY <1>2, <1>3, <1>4, <1>5, <1>6, <1>7, AnswerPreservesCliOK

(* An accident, whatever is answered after it.                             *)
LEMMA AccidentPreservesCliOK ==
    ASSUME CliOK, NEW u \in Users, Fail(u) \/ Lose(u)
    PROVE  CliOK'
<1>1. Types /\ Command(u)
  BY TypeParts DEF CliOK
<1>2. /\ pc[u] = "serve" /\ Accident(u)
      /\ UNCHANGED <<cmd, typed, request, done, exit, runs, confirmed>>
  BY DEF Fail, Lose
<1>3. faults' \in {faults, faults + 1} \cap (0 .. MaxFaults)
  BY <1>1, <1>2, CliAssumption DEF Accident, Types
<1>4. PICK a \in {"Error", "KeyError", "eof"} : Answer(u, a)
  BY DEF Fail, Lose, ErrorKinds
<1>5. /\ accident' \in [Users -> BOOLEAN] /\ accident'[u]
      /\ \A v \in Users \ {u} : accident'[v] = accident[v]
  BY <1>1, <1>2 DEF Accident, Types
<1>6. Kept(u)
  <2>1. CASE UNCHANGED <<zfs, did, was_imported>>
    BY <1>2, <1>5, <2>1, NothingChanges
  <2>2. CASE LET k == NextCommand(u)
             IN  /\ Unfinished(u) /\ Allowed(zfs[k.pool], k)
                 /\ \E s \in LeftBehind(zfs[k.pool], k) : Becomes(u, k, s)
    BY <1>2, <1>5, <2>2, PoolChanges
  <2> QED BY <1>2, <2>1, <2>2 DEF Accident
<1>7. Had(u)'
  BY <1>5 DEF Had
<1> QED BY <1>2, <1>3, <1>4, <1>5, <1>6, <1>7, AnswerPreservesCliOK

LEMMA NextPreservesCliOK ==
    ASSUME CliOK, [Next]_vars
    PROVE  CliOK'
<1>1. CASE \E u \in Users :
             \/ Start(u) \/ Prompt(u) \/ Send(u) \/ Finish(u) \/ Fallback(u)
             \/ Take(u) \/ Refuse(u) \/ Fail(u) \/ Conclude(u) \/ Lose(u)
  BY <1>1, StartPreservesCliOK, PromptPreservesCliOK, SendPreservesCliOK, FinishPreservesCliOK,
     FallbackPreservesCliOK, TakePreservesCliOK, RefusePreservesCliOK,
     ConcludePreservesCliOK, AccidentPreservesCliOK
<1>2. CASE UNCHANGED vars
  <2>1. Types /\ (\A u \in Users : Aimed(u) /\ Command(u)) /\ PassphraseConfirmed
    BY TypeParts DEF CliOK
  <2>2. Types'
    BY <1>2, <2>1 DEF vars, history, Types
  <2>3. \A u \in Users : Undisturbed(u)
    BY <1>2 DEF vars, history, Undisturbed
  <2>4. ASSUME NEW u \in Users PROVE (Aimed(u) /\ Command(u))'
    BY <2>1, <2>3, Frame
  <2>5. PassphraseConfirmed'
    BY <1>2, <2>1, ConfirmedKept DEF vars
  <2>6. TypeOK' <=> Types' /\ \A u \in Users : Aimed(u)'
    BY DEF TypeOK, Types, Aimed, Sendable
  <2> QED BY <2>2, <2>4, <2>5, <2>6 DEF CliOK
<1> QED BY <1>1, <1>2 DEF Next, Over

-----------------------------------------------------------------------------
(* CliOK holds in every reachable state.                                   *)
THEOREM CliCorrect == Spec => []CliOK
BY InitEstablishesCliOK, NextPreservesCliOK, PTL DEF Spec

(* The variables keep their types, and a request is sent only once the     *)
(* lines its command prompts for have been read (ask_passphrase in         *)
(* main.rs).                                                               *)
THEOREM CliTypeCorrect == Spec => []TypeOK
<1>1. CliOK => TypeOK
  BY DEF CliOK
<1> QED BY <1>1, CliCorrect, PTL

(* Exit status 0: the command's last request had all its effects, and an   *)
(* import left a pool that was imported meanwhile.                         *)
THEOREM ExitZeroIsDone == Spec => []ExitZeroMeansDone
<1>1. CliOK => ExitZeroMeansDone
  <2> SUFFICES ASSUME CliOK, NEW u \in Users, exit[u] = "success"
               PROVE  /\ done[u] = Effects(request[u])
                      /\ cmd[u].verb = "import" => was_imported[u]
    BY DEF ExitZeroMeansDone
  <2>1. Sent(u) /\ Effected(u)
    BY DEF CliOK, Command
  <2>2. done[u] = Effects(request[u]) /\ request[u].op # "none"
    BY <2>1 DEF Effected, Told
  <2>3. ASSUME cmd[u].verb = "import" PROVE was_imported[u]
    <3>1. Effects(request[u]) # <<>>
      BY <2>1, <2>2, <2>3, EffectValues DEF Sent
    <3> QED BY <2>1, <2>2, <2>3, <3>1 DEF Effected
  <2> QED BY <2>2, <2>3
<1> QED BY <1>1, CliCorrect, PTL

(* Exit status 1 and no accident in the daemon: the command changed no     *)
(* pool, but for a key that may be left loaded.                            *)
THEOREM ExitOneIsUndone == Spec => []ExitOneMeansUndone
<1>1. CliOK => ExitOneMeansUndone
  <2> SUFFICES ASSUME CliOK, NEW u \in Users, exit[u] = "failure", ~accident[u]
               PROVE  did[u] \subseteq {"load-key"}
    BY DEF ExitOneMeansUndone
  <2>1. Told(u) /\ Had(u) /\ Types
    BY TypeParts DEF CliOK, Command, Effected
  <2>2. answer[u] \in {"none", "Error", "KeyError"} /\ pc[u] = "shell"
    BY <2>1 DEF Told, Types
  <2>3. done[u] \in {<<>>, <<"load-key">>}
    BY <2>1, <2>2 DEF Told
  <2> QED BY <2>1, <2>3 DEF Had
<1> QED BY <1>1, CliCorrect, PTL

(* No pool is encrypted with a passphrase that was not typed twice, unless *)
(* it was before the commands began.                                       *)
THEOREM PassphraseIsConfirmed == Spec => []PassphraseConfirmed
<1>1. CliOK => PassphraseConfirmed
  BY DEF CliOK
<1> QED BY <1>1, CliCorrect, PTL
=============================================================================
