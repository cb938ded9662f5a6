-------------------------------- MODULE Doctor --------------------------------
(***************************************************************************)
(* `zfswatch doctor': SystemPrerequisiteChecker::check_all and the report  *)
(* of crates/zfswatch-core/src/prereqs.rs, and the exit status main gives  *)
(* it; beside it the two looks a starting zfswatchd takes at zpool: at the *)
(* first it refuses and says "Run 'zfswatch doctor' for a full system      *)
(* diagnostic", at the second it fails with no more than the error.  Each  *)
(* check looks at the system at a moment of its own, and the system        *)
(* changes in between: packages, modules and disks come and go.            *)
(***************************************************************************)
EXTENDS Naturals, Sequences, SequencesExt

CONSTANT MaxChanges     \* bound: changes of the system

ASSUME DoctorAssumption == MaxChanges \in Nat

VARIABLES
    system,         \* what there is to be found
    changes,        \* how often it has changed; counter of the bound
    root, target,   \* doctor runs as root; a disk is named
    pc,             \* the check that is next, "print", "exit", "exited"
    report,         \* the checks made: their names and statuses
    overall_ok,
    verdict, exit,  \* the line printed last, the exit status
    daemon,         \* "starting", "checked", "serves", "refuses", "fails"
    seen,           \* history: the systems the checks looked at
    from, until, refused \* history: changes until the first check, the verdict, the refusal

doctor == <<root, target, pc, report, overall_ok, verdict, exit, seen, from, until>>
vars == <<system, changes, doctor, daemon, refused>>

(* zpool --version: missing, failing, or what it prints, perhaps nothing.  *)
Systems ==
    [zpool : {"missing", "failing", "silent", "supported", "other"},
     module : BOOLEAN,
     disk : {"missing", "file", "device"}]

Checks == <<"privileges", "tools", "module", "version", "disk">>

(* Faulty variant: without a disk the version is not looked at either.     *)
After_short(c) ==
    LET i == CHOOSE i \in 1 .. 5 : Checks[i] = c
    IN  IF c = "disk" \/ (c = "module" /\ ~target) THEN "print" ELSE Checks[i + 1]

After(c) ==
    LET i == CHOOSE i \in 1 .. 5 : Checks[i] = c
    IN  IF c = "disk" \/ (c = "version" /\ ~target) THEN "print" ELSE Checks[i + 1]

(* What check c finds in system s.                                         *)
Status(c, s) ==
    CASE c = "privileges" -> IF root THEN "Ok" ELSE "Warning"
      [] c = "tools"      -> IF s.zpool \in {"missing", "failing"} THEN "Error" ELSE "Ok"
      [] c = "module"     -> IF s.module THEN "Ok" ELSE "Error"
      [] c = "version"    -> IF s.zpool = "supported" THEN "Ok"
                             ELSE IF s.zpool = "other" THEN "Warning" ELSE "Error"
      [] c = "disk"       -> IF s.disk = "device" THEN "Ok"
                             ELSE IF s.disk = "file" THEN "Warning" ELSE "Error"

Statuses == {"Ok", "Warning", "Error"}

Count(st) == Cardinality({i \in DOMAIN report : report[i].status = st})

Init ==
    /\ system \in Systems /\ changes = 0
    /\ root \in BOOLEAN /\ target \in BOOLEAN
    /\ pc = "privileges" /\ report = <<>> /\ overall_ok = TRUE
    /\ verdict = "none" /\ exit = "none"
    /\ daemon = "starting"
    /\ seen = {} /\ from = 0 /\ until = 0 /\ refused = 0

(* Every variable holds a value of its type; the report lists the checks   *)
(* made so far in their order, and in the end all of them.                 *)
TypeOK ==
    /\ system \in Systems /\ changes \in 0 .. MaxChanges
    /\ root \in BOOLEAN /\ target \in BOOLEAN
    /\ pc \in ToSet(Checks) \cup {"print", "exit", "exited"}
    /\ report \in Seq([check : ToSet(Checks), status : Statuses])
    /\ \A i \in 1 .. Len(report) : report[i].check = Checks[i]
    /\ pc \in ToSet(Checks) => Len(report) < 5 /\ Checks[Len(report) + 1] = pc
    /\ pc \notin ToSet(Checks) => Len(report) = IF target THEN 5 ELSE 4
    /\ overall_ok \in BOOLEAN
    /\ verdict \in {"none", "Ready to use", "Usable with warnings", "BLOCKED"}
    /\ exit \in {"none", "success", "failure"}
    /\ daemon \in {"starting", "checked", "serves", "refuses", "fails"}
    /\ seen \subseteq Systems
    /\ {from, until, refused} \subseteq 0 .. changes

-----------------------------------------------------------------------------
Change ==
    /\ changes < MaxChanges /\ changes' = changes + 1
    /\ system' \in Systems \ {system}
    /\ UNCHANGED <<doctor, daemon, refused>>

(* Faulty variant: overall_ok is the result of the last check.             *)
add_last(c) ==
    /\ pc = c
    /\ report' = Append(report, [check |-> c, status |-> Status(c, system)])
    /\ overall_ok' = (Status(c, system) # "Error")
    /\ pc' = After(c)
    /\ seen' = seen \cup {system}
    /\ from' = IF report = <<>> THEN changes ELSE from
    /\ UNCHANGED <<system, changes, root, target, verdict, exit, until, daemon, refused>>

(* A check of check_all and its add.                                       *)
add(c) ==
    /\ pc = c
    /\ report' = Append(report, [check |-> c, status |-> Status(c, system)])
    /\ overall_ok' = (overall_ok /\ Status(c, system) # "Error")
    /\ pc' = After(c)
    /\ seen' = seen \cup {system}
    /\ from' = IF report = <<>> THEN changes ELSE from
    /\ UNCHANGED <<system, changes, root, target, verdict, exit, until, daemon, refused>>

print ==
    /\ pc = "print" /\ pc' = "exit"
    /\ verdict' = IF overall_ok /\ Count("Error") = 0 THEN "Ready to use"
                  ELSE IF Count("Error") = 0 THEN "Usable with warnings" ELSE "BLOCKED"
    /\ until' = changes
    /\ UNCHANGED <<system, changes, root, target, report, overall_ok, exit, seen, from,
                   daemon, refused>>

(* Faulty variant: the exit status only says that the report is printed.   *)
finish_printed ==
    /\ pc = "exit" /\ pc' = "exited"
    /\ exit' = "success"
    /\ UNCHANGED <<system, changes, root, target, report, overall_ok, verdict, seen, from,
                   until, daemon, refused>>

finish ==
    /\ pc = "exit" /\ pc' = "exited"
    /\ exit' = IF overall_ok THEN "success" ELSE "failure"
    /\ UNCHANGED <<system, changes, root, target, report, overall_ok, verdict, seen, from,
                   until, daemon, refused>>

(* zfswatchd: check_zfs_installed, then zfs_version; both run zpool, and   *)
(* only the first tells its user what to do when that does not work.       *)
Runs == system.zpool \notin {"missing", "failing"}

check_zfs_installed ==
    /\ daemon = "starting"
    /\ daemon' = IF Runs THEN "checked" ELSE "refuses"
    /\ refused' = IF Runs THEN refused ELSE changes
    /\ UNCHANGED <<system, changes, doctor>>

zfs_version ==
    /\ daemon = "checked"
    /\ daemon' = IF Runs THEN "serves" ELSE "fails"
    /\ refused' = IF Runs THEN refused ELSE changes
    /\ UNCHANGED <<system, changes, doctor>>

(* Both have done what they do.                                            *)
Over == pc = "exited" /\ daemon \in {"serves", "refuses", "fails"} /\ UNCHANGED vars

Next ==
    \/ Change
    \/ \E c \in ToSet(Checks) : add(c)
    \/ print \/ finish
    \/ check_zfs_installed \/ zfs_version
    \/ Over

Spec == Init /\ [][Next]_vars

-----------------------------------------------------------------------------
(* What zfswatch needs and does not find in system s.                      *)
Missing(s) ==
    (IF s.zpool \in {"missing", "failing", "silent"} THEN {"zpool"} ELSE {})
        \cup (IF s.module THEN {} ELSE {"module"})
        \cup (IF target /\ s.disk = "missing" THEN {"disk"} ELSE {})

(* However the system changes while the checks look at it: doctor fails    *)
(* only if something was missing at a moment of its checks, and passes     *)
(* only if each thing was there at one, whichever checks pass after a      *)
(* failed one.  So the verdict is that of a system that stays as it is;    *)
(* one that changed may have been broken at all moments though each check  *)
(* passed, and no more can be said of it.                                  *)
VerdictTrue ==
    pc = "exited" =>
        /\ exit = "failure" => \E s \in seen : Missing(s) # {}
        /\ exit = "success" =>
              \A thing \in {"zpool", "module", "disk"} : \E s \in seen : thing \notin Missing(s)

(* A daemon that does not start because zpool does not run is explained by *)
(* doctor, unless the system changed in between.                           *)
RefusalExplained ==
    /\ daemon \in {"refuses", "fails"}
    /\ pc = "exited" /\ from = until /\ refused = from
    => exit = "failure" /\ verdict = "BLOCKED"
=============================================================================
