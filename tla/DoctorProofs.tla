----------------------------- MODULE DoctorProofs -----------------------------
(***************************************************************************)
(* What `zfswatch doctor' says, however often the system changes while it  *)
(* looks.  DoctorOK is inductive: each status in the report is true of a   *)
(* system that was looked at (SeenOK), all of them are true of the system  *)
(* as it is if nothing changed (ReportTrue), and then the report explains  *)
(* why a daemon that looked at the same system did not start (RefusalOK).  *)
(***************************************************************************)
EXTENDS Doctor, FiniteSetTheorems, TLAPS

CheckNames == {"privileges", "tools", "module", "version", "disk"}

Failed == \E i \in 1 .. Len(report) : report[i].status = "Error"

(* Each status in the report is that of a system that was looked at.       *)
SeenOK ==
    \A i \in 1 .. Len(report) : \E s \in seen : report[i].status = Status(Checks[i], s)

(* If nothing has changed since the first check, the report is still true. *)
ReportTrue ==
    from = changes => \A i \in 1 .. Len(report) : report[i].status = Status(Checks[i], system)

(* overall_ok, the verdict and the exit status say whether a check failed. *)
VerdictOK ==
    /\ overall_ok <=> ~Failed
    /\ pc \in {"exit", "exited"} /\ Failed => verdict = "BLOCKED"
    /\ pc = "exited" => (exit = "failure" <=> Failed)

(* A daemon does not start because zpool does not run, which a report on   *)
(* the same system has found as well.                                      *)
RefusalOK ==
    daemon \in {"refuses", "fails"} =>
        /\ refused = changes => ~Runs
        /\ pc \in {"exit", "exited"} /\ from = until /\ refused = from => Failed

DoctorOK == TypeOK /\ (pc = "disk" => target) /\ SeenOK /\ ReportTrue /\ VerdictOK /\ RefusalOK

-----------------------------------------------------------------------------
LEMMA ChecksFacts ==
    /\ ToSet(Checks) = CheckNames
    /\ Checks[1] = "privileges" /\ Checks[2] = "tools" /\ Checks[3] = "module"
    /\ Checks[4] = "version" /\ Checks[5] = "disk"
<1>1. /\ Checks[1] = "privileges" /\ Checks[2] = "tools" /\ Checks[3] = "module"
      /\ Checks[4] = "version" /\ Checks[5] = "disk"
  BY DEF Checks
<1>2. DOMAIN Checks = 1 .. 5
  BY DEF Checks
<1>3. 1 .. 5 = {1, 2, 3, 4, 5}
  OBVIOUS
<1>4. ToSet(Checks) = {Checks[i] : i \in {1, 2, 3, 4, 5}}
  BY <1>2, <1>3 DEF ToSet
<1> QED BY <1>1, <1>4 DEF CheckNames

(* The check that follows another.                                         *)
LEMMA AfterFacts ==
    /\ After("privileges") = "tools" /\ After("tools") = "module" /\ After("module") = "version"
    /\ After("version") = IF target THEN "disk" ELSE "print"
    /\ After("disk") = "print"
<1>1. /\ \A i \in 1 .. 5 : Checks[i] = "privileges" <=> i = 1
      /\ \A i \in 1 .. 5 : Checks[i] = "tools" <=> i = 2
      /\ \A i \in 1 .. 5 : Checks[i] = "module" <=> i = 3
      /\ \A i \in 1 .. 5 : Checks[i] = "version" <=> i = 4
  <2>1. \A i \in 1 .. 5 : i = 1 \/ i = 2 \/ i = 3 \/ i = 4 \/ i = 5
    OBVIOUS
  <2> QED BY <2>1, ChecksFacts
<1>2. (CHOOSE i \in 1 .. 5 : Checks[i] = "privileges") = 1
  BY <1>1
<1>3. (CHOOSE i \in 1 .. 5 : Checks[i] = "tools") = 2
  BY <1>1
<1>4. (CHOOSE i \in 1 .. 5 : Checks[i] = "module") = 3
  BY <1>1
<1>5. (CHOOSE i \in 1 .. 5 : Checks[i] = "version") = 4
  BY <1>1
<1>6. After("privileges") = "tools"
  BY <1>2, ChecksFacts DEF After
<1>7. After("tools") = "module"
  BY <1>3, ChecksFacts DEF After
<1>8. After("module") = "version"
  BY <1>4, ChecksFacts DEF After
<1>9. After("version") = IF target THEN "disk" ELSE "print"
  BY <1>5, ChecksFacts DEF After
<1>10. After("disk") = "print"
  BY DEF After
<1> QED BY <1>6, <1>7, <1>8, <1>9, <1>10

LEMMA StatusFacts ==
    ASSUME NEW s \in Systems
    PROVE  /\ \A c \in CheckNames : Status(c, s) \in Statuses
           /\ Status("privileges", s) # "Error"
           /\ Status("tools", s) = "Error" <=> s.zpool \in {"missing", "failing"}
           /\ Status("module", s) = "Error" <=> ~s.module
           /\ Status("version", s) = "Error" <=> s.zpool \in {"missing", "failing", "silent"}
           /\ Status("disk", s) = "Error" <=> s.disk = "missing"
<1>1. \A c \in CheckNames : Status(c, s) \in Statuses
  BY DEF CheckNames, Status, Statuses
<1>2. Status("privileges", s) # "Error"
  BY DEF Status
<1>3. Status("tools", s) = "Error" <=> s.zpool \in {"missing", "failing"}
  BY DEF Status
<1>4. Status("module", s) = "Error" <=> ~s.module
  BY DEF Status
<1>5. Status("version", s) = "Error" <=> s.zpool \in {"missing", "failing", "silent"}
  BY DEF Status, Systems
<1>6. Status("disk", s) = "Error" <=> s.disk = "missing"
  BY DEF Status, Systems
<1> QED BY <1>1, <1>2, <1>3, <1>4, <1>5, <1>6

(* Counting the errors finds none if and only if no check failed.          *)
LEMMA CountErrors ==
    ASSUME NEW S, report \in Seq(S)
    PROVE  Count("Error") = 0 <=> ~Failed
<1> DEFINE E == {i \in DOMAIN report : report[i].status = "Error"}
<1>1. DOMAIN report = 1 .. Len(report) /\ Len(report) \in Nat
  OBVIOUS
<1>2. IsFiniteSet(1 .. Len(report))
  BY <1>1, FS_Interval
<1>3. IsFiniteSet(E)
  BY <1>1, <1>2, FS_Subset
<1>4. Cardinality(E) = 0 <=> E = {}
  BY <1>3, FS_EmptySet
<1>5. E = {} <=> ~Failed
  BY <1>1 DEF Failed
<1> QED BY <1>4, <1>5 DEF Count

-----------------------------------------------------------------------------
LEMMA Counters == TypeOK => {changes, from, until, refused} \subseteq 0 .. changes
<1> SUFFICES ASSUME TypeOK PROVE {changes, from, until, refused} \subseteq 0 .. changes
  OBVIOUS
<1>1. changes \in 0 .. MaxChanges /\ {from, until, refused} \subseteq 0 .. changes
  BY DEF TypeOK
<1>2. changes \in 0 .. changes
  BY <1>1, DoctorAssumption
<1> QED BY <1>1, <1>2

LEMMA InitOK == Init => DoctorOK
<1> SUFFICES ASSUME Init PROVE DoctorOK
  OBVIOUS
<1>1. /\ report = <<>> /\ pc = "privileges" /\ overall_ok = TRUE /\ daemon = "starting"
      /\ changes = 0 /\ from = 0 /\ until = 0 /\ refused = 0 /\ seen = {}
  BY DEF Init
<1>2. Len(report) = 0 /\ report \in Seq([check : ToSet(Checks), status : Statuses])
  BY <1>1
<1>3. TypeOK
  BY <1>1, <1>2, ChecksFacts, DoctorAssumption DEF Init, TypeOK, CheckNames
<1>4. ~Failed /\ SeenOK /\ ReportTrue
  BY <1>2 DEF Failed, SeenOK, ReportTrue
<1>5. VerdictOK /\ RefusalOK
  BY <1>1, <1>4 DEF VerdictOK, RefusalOK
<1> QED BY <1>1, <1>3, <1>4, <1>5 DEF DoctorOK

LEMMA ChangeOK == DoctorOK /\ Change => DoctorOK'
<1> SUFFICES ASSUME DoctorOK, Change PROVE DoctorOK'
  OBVIOUS
<1>1. /\ changes' = changes + 1 /\ changes \in Nat /\ changes' \in 0 .. MaxChanges
      /\ {from, until, refused} \subseteq 0 .. changes /\ system' \in Systems
      /\ UNCHANGED <<doctor, daemon, refused>>
  <2>1. changes \in 0 .. MaxChanges /\ changes < MaxChanges /\ changes' = changes + 1
    BY DEF Change, DoctorOK, TypeOK
  <2>2. changes \in Nat /\ changes' \in 0 .. MaxChanges
    BY <2>1, DoctorAssumption
  <2>3. system' \in Systems /\ UNCHANGED <<doctor, daemon, refused>>
    BY DEF Change
  <2> QED BY <2>1, <2>2, <2>3 DEF DoctorOK, TypeOK
<1>2. /\ root' = root /\ target' = target /\ pc' = pc /\ report' = report /\ daemon' = daemon
      /\ overall_ok' = overall_ok /\ verdict' = verdict /\ exit' = exit /\ from' = from
      /\ until' = until /\ refused' = refused /\ seen' = seen
  BY <1>1 DEF doctor
<1>3. from' # changes' /\ refused' # changes' /\ {from', until', refused'} \subseteq 0 .. changes'
  BY <1>1, <1>2
<1>4. TypeOK'
  BY <1>1, <1>2, <1>3 DEF DoctorOK, TypeOK
<1>5. Failed' <=> Failed
  BY <1>2 DEF Failed
<1>6. ReportTrue' /\ VerdictOK' /\ RefusalOK'
  BY <1>2, <1>3, <1>5 DEF DoctorOK, ReportTrue, VerdictOK, RefusalOK
<1>7. SeenOK'
  BY <1>2 DEF DoctorOK, SeenOK, Status
<1> QED BY <1>2, <1>4, <1>6, <1>7 DEF DoctorOK

LEMMA AddOK ==
    ASSUME DoctorOK, NEW c \in CheckNames, add(c)
    PROVE  DoctorOK'
<1> DEFINE n == Len(report)
           r == [check |-> c, status |-> Status(c, system)]
<1>1. /\ pc = c /\ report' = Append(report, r) /\ overall_ok' = (overall_ok /\ Status(c, system) # "Error")
      /\ pc' = After(c) /\ seen' = seen \cup {system} /\ from' = IF report = <<>> THEN changes ELSE from
      /\ system' = system /\ changes' = changes /\ root' = root /\ target' = target
      /\ verdict' = verdict /\ exit' = exit /\ until' = until /\ daemon' = daemon
      /\ refused' = refused
  BY DEF add
<1>2. TypeOK /\ report \in Seq([check : ToSet(Checks), status : Statuses])
      /\ n \in 0 .. 4 /\ Checks[n + 1] = c /\ c \in ToSet(Checks)
  <2>1. TypeOK /\ c \in ToSet(Checks)
    BY ChecksFacts DEF DoctorOK
  <2>2. /\ report \in Seq([check : ToSet(Checks), status : Statuses])
        /\ Checks[n + 1] = c
    BY <1>1, <2>1 DEF TypeOK
  <2>3. n < 5
    BY <1>1, <2>1 DEF TypeOK
  <2>4. \A k \in Nat : k < 5 => k \in 0 .. 4
    OBVIOUS
  <2>5. Len(report) \in Nat
    BY <2>2
  <2> QED BY <2>1, <2>2, <2>3, <2>4, <2>5
<1>3. /\ r \in [check : ToSet(Checks), status : Statuses] /\ r.check = c /\ r.status = Status(c, system)
  BY <1>2, ChecksFacts, StatusFacts DEF TypeOK
<1> HIDE DEF r
<1>4. /\ report' \in Seq([check : ToSet(Checks), status : Statuses]) /\ Len(report') = n + 1
      /\ report'[n + 1] = r /\ \A i \in 1 .. n : report'[i] = report[i]
  BY <1>1, <1>2, <1>3
<1>5. /\ n = 0 \/ n = 1 \/ n = 2 \/ n = 3 \/ n = 4
      /\ \A i \in 1 .. n + 1 : i \in 1 .. n \/ i = n + 1
  BY <1>2
<1>6. /\ pc' \in CheckNames \cup {"print"} /\ (pc' = "disk" => target)
      /\ pc' \in CheckNames => n + 1 < 5 /\ Checks[n + 2] = pc'
      /\ pc' \notin CheckNames => n + 1 = IF target THEN 5 ELSE 4
  <2>1. c = "disk" => target
    BY <1>1 DEF DoctorOK
  <2>2. CASE n = 0
    BY <1>1, <1>2, <2>2, AfterFacts, ChecksFacts DEF CheckNames
  <2>3. CASE n = 1
    BY <1>1, <1>2, <2>3, AfterFacts, ChecksFacts DEF CheckNames
  <2>4. CASE n = 2
    BY <1>1, <1>2, <2>4, AfterFacts, ChecksFacts DEF CheckNames
  <2>5. CASE n = 3
    BY <1>1, <1>2, <2>5, AfterFacts, ChecksFacts DEF CheckNames
  <2>6. CASE n = 4
    BY <1>1, <1>2, <2>1, <2>6, AfterFacts, ChecksFacts DEF CheckNames
  <2> QED BY <1>5, <2>2, <2>3, <2>4, <2>5, <2>6
<1>7. TypeOK'
  <2>1. \A i \in 1 .. Len(report') : report'[i].check = Checks[i]
    BY <1>2, <1>3, <1>4, <1>5 DEF TypeOK
  <2>2. {from', until', refused'} \subseteq 0 .. changes'
    BY <1>1, <1>2, Counters
  <2>3. /\ pc' \in ToSet(Checks) => Len(report') < 5 /\ Checks[Len(report') + 1] = pc'
        /\ pc' \notin ToSet(Checks) => Len(report') = IF target' THEN 5 ELSE 4
    BY <1>1, <1>2, <1>4, <1>6, ChecksFacts
  <2>4. pc' \in ToSet(Checks) \cup {"print", "exit", "exited"} /\ overall_ok' \in BOOLEAN
    BY <1>1, <1>2, <1>6, ChecksFacts DEF TypeOK
  <2>5. seen' \subseteq Systems
    BY <1>1, <1>2 DEF TypeOK
  <2> QED BY <1>1, <1>2, <1>4, <2>1, <2>2, <2>3, <2>4, <2>5 DEF TypeOK
<1>8. SeenOK'
  <2> SUFFICES ASSUME NEW i \in 1 .. Len(report')
               PROVE  (\E s \in seen : report[i].status = Status(Checks[i], s))'
    BY DEF SeenOK
  <2>1. CASE i \in 1 .. n
    <3>1. PICK s \in seen : report[i].status = Status(Checks[i], s)
      BY <2>1 DEF DoctorOK, SeenOK
    <3> QED BY <1>1, <1>4, <2>1, <3>1 DEF Status
  <2>2. CASE i = n + 1
    BY <1>1, <1>2, <1>3, <1>4, <2>2 DEF Status
  <2> QED BY <1>4, <1>5, <2>1, <2>2
<1>9. ReportTrue'
  <2> SUFFICES ASSUME from' = changes', NEW i \in 1 .. Len(report')
               PROVE  report'[i].status = Status(Checks[i], system)'
    BY DEF ReportTrue
  <2>1. CASE i \in 1 .. n
    <3>1. from = changes
      <4>1. report # <<>>
        BY <1>2, <2>1
      <4> QED BY <1>1, <4>1
    <3> QED BY <1>1, <1>4, <2>1, <3>1 DEF DoctorOK, ReportTrue, Status
  <2>2. CASE i = n + 1
    BY <1>1, <1>2, <1>3, <1>4, <2>2 DEF Status
  <2> QED BY <1>4, <1>5, <2>1, <2>2
<1>10. Failed' <=> Failed \/ Status(c, system) = "Error"
  BY <1>2, <1>3, <1>4, <1>5 DEF Failed
<1>11. VerdictOK'
  <2>1. overall_ok' <=> ~Failed'
    BY <1>1, <1>10 DEF DoctorOK, VerdictOK
  <2>2. pc' \notin {"exit", "exited"}
    BY <1>6 DEF CheckNames
  <2> QED BY <2>1, <2>2 DEF VerdictOK
<1>12. RefusalOK'
  <2>1. pc' \notin {"exit", "exited"} /\ Runs' = Runs
    BY <1>1, <1>6 DEF CheckNames, Runs
  <2> QED BY <1>1, <2>1 DEF DoctorOK, RefusalOK
<1> QED BY <1>1, <1>6, <1>7, <1>8, <1>9, <1>11, <1>12 DEF DoctorOK

(* A complete report on a system whose zpool does not run has an error.    *)
LEMMA ToolsFail ==
    ASSUME TypeOK, ReportTrue, pc \notin CheckNames, from = changes, ~Runs
    PROVE  Failed
<1>1. Len(report) \in {4, 5}
  BY ChecksFacts DEF TypeOK
<1>2. 2 \in 1 .. Len(report)
  BY <1>1
<1>3. report[2].status = "Error"
  BY <1>2, ChecksFacts, StatusFacts DEF TypeOK, ReportTrue, Runs
<1> QED BY <1>2, <1>3 DEF Failed

LEMMA PrintOK == DoctorOK /\ print => DoctorOK'
<1> SUFFICES ASSUME DoctorOK, print PROVE DoctorOK'
  OBVIOUS
<1>1. /\ pc = "print" /\ pc' = "exit" /\ until' = changes
      /\ verdict' = IF overall_ok /\ Count("Error") = 0 THEN "Ready to use"
                    ELSE IF Count("Error") = 0 THEN "Usable with warnings" ELSE "BLOCKED"
      /\ system' = system /\ changes' = changes /\ root' = root /\ target' = target
      /\ report' = report /\ overall_ok' = overall_ok /\ exit' = exit /\ from' = from
      /\ daemon' = daemon /\ refused' = refused /\ seen' = seen
  BY DEF print
<1>2. TypeOK /\ report \in Seq([check : ToSet(Checks), status : Statuses])
  BY DEF DoctorOK, TypeOK
<1>3. TypeOK'
  <2>1. pc \notin ToSet(Checks) /\ pc' \notin ToSet(Checks)
    BY <1>1, ChecksFacts DEF CheckNames
  <2>2. {from', until', refused'} \subseteq 0 .. changes'
    BY <1>1, <1>2, Counters
  <2>3. verdict' \in {"none", "Ready to use", "Usable with warnings", "BLOCKED"}
    BY <1>1
  <2> QED BY <1>1, <1>2, <2>1, <2>2, <2>3 DEF TypeOK
<1>4. (Failed' <=> Failed) /\ (Runs' <=> Runs)
  BY <1>1 DEF Failed, Runs
<1>5. SeenOK'
  BY <1>1 DEF DoctorOK, SeenOK, Status
<1>6. ReportTrue'
  BY <1>1 DEF DoctorOK, ReportTrue, Status
<1>7. VerdictOK'
  <2>1. Failed => verdict' = "BLOCKED"
    BY <1>1, <1>2, CountErrors
  <2> QED BY <1>1, <1>4, <2>1 DEF DoctorOK, VerdictOK
<1>8. RefusalOK'
  <2> SUFFICES ASSUME daemon \in {"refuses", "fails"}
               PROVE  /\ refused = changes => ~Runs
                      /\ from = changes /\ refused = from => Failed
    BY <1>1, <1>4 DEF RefusalOK
  <2>1. refused = changes => ~Runs
    BY DEF DoctorOK, RefusalOK
  <2>2. from = changes /\ refused = from => Failed
    BY <1>1, <2>1, ToolsFail DEF DoctorOK, CheckNames
  <2> QED BY <2>1, <2>2
<1> QED BY <1>1, <1>3, <1>5, <1>6, <1>7, <1>8 DEF DoctorOK

LEMMA FinishOK == DoctorOK /\ finish => DoctorOK'
<1> SUFFICES ASSUME DoctorOK, finish PROVE DoctorOK'
  OBVIOUS
<1>1. /\ pc = "exit" /\ pc' = "exited" /\ exit' = IF overall_ok THEN "success" ELSE "failure"
      /\ system' = system /\ changes' = changes /\ root' = root /\ target' = target
      /\ report' = report /\ overall_ok' = overall_ok /\ verdict' = verdict /\ from' = from
      /\ until' = until /\ daemon' = daemon /\ refused' = refused /\ seen' = seen
  BY DEF finish
<1>2. TypeOK'
  <2>1. pc \notin ToSet(Checks) /\ pc' \notin ToSet(Checks)
    BY <1>1, ChecksFacts DEF CheckNames
  <2> QED BY <1>1, <2>1 DEF DoctorOK, TypeOK
<1>3. (Failed' <=> Failed) /\ (Runs' <=> Runs)
  BY <1>1 DEF Failed, Runs
<1>4. SeenOK' /\ ReportTrue'
  BY <1>1 DEF DoctorOK, SeenOK, ReportTrue, Status
<1>5. VerdictOK'
  BY <1>1, <1>3 DEF DoctorOK, VerdictOK
<1>6. RefusalOK'
  BY <1>1, <1>3 DEF DoctorOK, RefusalOK
<1> QED BY <1>1, <1>2, <1>4, <1>5, <1>6 DEF DoctorOK

(* The daemon looks, and does not start if zpool does not run.             *)
LEMMA DaemonOK == DoctorOK /\ (check_zfs_installed \/ zfs_version) => DoctorOK'
<1> SUFFICES ASSUME DoctorOK, check_zfs_installed \/ zfs_version PROVE DoctorOK'
  OBVIOUS
<1>1. /\ daemon' \in IF Runs THEN {"checked", "serves"} ELSE {"refuses", "fails"}
      /\ refused' = IF Runs THEN refused ELSE changes
      /\ system' = system /\ changes' = changes /\ UNCHANGED doctor
  BY DEF check_zfs_installed, zfs_version
<1>2. /\ root' = root /\ target' = target /\ pc' = pc /\ report' = report
      /\ overall_ok' = overall_ok /\ verdict' = verdict /\ exit' = exit /\ from' = from
      /\ until' = until /\ seen' = seen
  BY <1>1 DEF doctor
<1>3. TypeOK'
  <2>1. {from', until', refused'} \subseteq 0 .. changes'
    BY <1>1, <1>2, Counters DEF DoctorOK
  <2>2. daemon' \in {"starting", "checked", "serves", "refuses", "fails"}
    BY <1>1
  <2> QED BY <1>1, <1>2, <2>1, <2>2 DEF DoctorOK, TypeOK
<1>4. (Failed' <=> Failed) /\ (Runs' <=> Runs)
  BY <1>1, <1>2 DEF Failed, Runs
<1>5. SeenOK' /\ ReportTrue'
  BY <1>1, <1>2 DEF DoctorOK, SeenOK, ReportTrue, Status
<1>6. VerdictOK'
  BY <1>2, <1>4 DEF DoctorOK, VerdictOK
<1>7. RefusalOK'
  <2>1. CASE Runs
    BY <1>1, <2>1 DEF RefusalOK
  <2>2. CASE ~Runs
    <3>1. pc \in {"exit", "exited"} /\ from = changes => Failed
      <4>1. \A q \in {"exit", "exited"} : q \notin CheckNames
        BY DEF CheckNames
      <4> QED BY <2>2, <4>1, ToolsFail DEF DoctorOK
    <3> QED BY <1>1, <1>2, <1>4, <2>2, <3>1 DEF RefusalOK
  <2> QED BY <2>1, <2>2
<1> QED BY <1>2, <1>3, <1>5, <1>6, <1>7 DEF DoctorOK

LEMMA NextOK == DoctorOK /\ [Next]_vars => DoctorOK'
<1> SUFFICES ASSUME DoctorOK, [Next]_vars PROVE DoctorOK'
  OBVIOUS
<1>1. CASE \E c \in ToSet(Checks) : add(c)
  BY <1>1, AddOK, ChecksFacts
<1>2. CASE UNCHANGED vars
  <2>1. (Failed' <=> Failed) /\ (Runs' <=> Runs)
    BY <1>2 DEF vars, doctor, Failed, Runs
  <2>2. TypeOK'
    BY <1>2 DEF vars, doctor, DoctorOK, TypeOK
  <2>3. SeenOK' /\ ReportTrue' /\ VerdictOK' /\ RefusalOK'
    BY <1>2, <2>1 DEF vars, doctor, DoctorOK, SeenOK, ReportTrue, VerdictOK, RefusalOK, Status
  <2> QED BY <1>2, <2>2, <2>3 DEF vars, doctor, DoctorOK
<1> QED BY <1>1, <1>2, ChangeOK, PrintOK, FinishOK, DaemonOK DEF Next, Over

-----------------------------------------------------------------------------
(* DoctorOK holds in every reachable state.                                *)
THEOREM DoctorCorrect == Spec => []DoctorOK
BY InitOK, NextOK, PTL DEF Spec

(* The variables keep their types; the report lists the checks of          *)
(* check_all in their order, and all of them once it is printed.           *)
THEOREM DoctorTypeCorrect == Spec => []TypeOK
<1>1. DoctorOK => TypeOK
  BY DEF DoctorOK
<1> QED BY <1>1, DoctorCorrect, PTL

(* `zfswatch doctor' fails only if something zfswatch needs was missing at *)
(* a moment of its checks, and passes only if each thing was there at one. *)
THEOREM VerdictIsTrue == Spec => []VerdictTrue
<1>1. DoctorOK => VerdictTrue
  <2> SUFFICES ASSUME DoctorOK, pc = "exited"
               PROVE  /\ exit = "failure" => \E s \in seen : Missing(s) # {}
                      /\ exit = "success" => \A thing \in {"zpool", "module", "disk"} :
                            \E s \in seen : thing \notin Missing(s)
    BY DEF VerdictTrue
  <2>1. exit = "failure" <=> Failed
    BY DEF DoctorOK, VerdictOK
  <2>2. Len(report) = (IF target THEN 5 ELSE 4) /\ seen \subseteq Systems
    <3>1. pc \notin ToSet(Checks)
      BY ChecksFacts DEF CheckNames
    <3> QED BY <3>1 DEF DoctorOK, TypeOK
  <2>3. ASSUME NEW i \in 1 .. Len(report)
        PROVE  \E s \in seen : report[i].status = Status(Checks[i], s)
    BY DEF DoctorOK, SeenOK
  <2>4. ASSUME Failed
        PROVE  \E s \in seen : Missing(s) # {}
    <3>1. PICK i \in 1 .. Len(report) : report[i].status = "Error"
      BY <2>4 DEF Failed
    <3>2. PICK s \in seen : Status(Checks[i], s) = "Error"
      BY <2>3, <3>1
    <3>3. s \in Systems
      BY <2>2
    <3>4. i = 1 \/ i = 2 \/ i = 3 \/ i = 4 \/ (i = 5 /\ target)
      BY <2>2
    <3>5. \/ s.zpool \in {"missing", "failing", "silent"} \/ ~s.module
          \/ target /\ s.disk = "missing"
      BY <3>2, <3>3, <3>4, ChecksFacts, StatusFacts
    <3>6. Missing(s) # {}
      BY <3>5 DEF Missing
    <3> QED BY <3>6
  <2>5. ASSUME ~Failed
        PROVE  /\ \E s \in seen : "zpool" \notin Missing(s)
               /\ \E s \in seen : "module" \notin Missing(s)
               /\ \E s \in seen : "disk" \notin Missing(s)
    <3>1. 3 \in 1 .. Len(report) /\ 4 \in 1 .. Len(report) /\ (target => 5 \in 1 .. Len(report))
      BY <2>2
    <3>2. PICK m \in seen : Status("module", m) # "Error"
      BY <2>3, <2>5, <3>1, ChecksFacts DEF Failed
    <3>3. PICK v \in seen : Status("version", v) # "Error"
      BY <2>3, <2>5, <3>1, ChecksFacts DEF Failed
    <3>4. "module" \notin Missing(m) /\ "zpool" \notin Missing(v)
      BY <2>2, <3>2, <3>3, StatusFacts DEF Missing
    <3>5. CASE target
      <4>1. PICK d \in seen : Status("disk", d) # "Error"
        BY <2>3, <2>5, <3>1, <3>5, ChecksFacts DEF Failed
      <4>2. "disk" \notin Missing(d)
        BY <2>2, <4>1, StatusFacts DEF Missing
      <4> QED BY <3>4, <4>2
    <3>6. CASE ~target
      BY <3>4, <3>6 DEF Missing
    <3> QED BY <3>5, <3>6
  <2>6. exit = "success" => ~Failed
    BY <2>1
  <2> QED BY <2>1, <2>4, <2>5, <2>6
<1> QED BY <1>1, DoctorCorrect, PTL

(* A daemon that does not start because zpool does not run is explained by *)
(* doctor, which says BLOCKED and fails, unless the system changed.        *)
THEOREM RefusalIsExplained == Spec => []RefusalExplained
<1>1. DoctorOK => RefusalExplained
  BY DEF DoctorOK, VerdictOK, RefusalOK, RefusalExplained
<1> QED BY <1>1, DoctorCorrect, PTL
=============================================================================
