---------------------------- MODULE SocketProofs ----------------------------
(***************************************************************************)
(* Who can be reached over a socket path, for any number of daemons, users *)
(* and paths: SocketOK is inductive.                                       *)
(***************************************************************************)
EXTENDS SocketLifecycle, TLAPS

(* A socket file is at the path of the daemon that made it.                *)
FileOK == \A p \in Paths : file[p] # NoDaemon => socket_path(file[p]) = p

(* A daemon past its bind has the file, unless another one has removed it. *)
BoundOK ==
    \A d \in listening : (Leads(d) <=> remover[d] = NoDaemon) /\ remover[d] # d

SocketOK == TypeOK /\ FileOK /\ BoundOK /\ ReachableIsPermitted

-----------------------------------------------------------------------------
LEMMA PathFacts == \A d \in Daemons : socket_path(d) \in Paths
BY SocketAssumption DEF socket_path

(* A process that ends takes its connections along.                        *)
LEMMA ExitFacts ==
    ASSUME TypeOK, NEW d \in Daemons, Exit(d)
    PROVE  /\ pc' = [pc EXCEPT ![d] = "down"] /\ listening' = listening \ {d}
           /\ UNCHANGED <<platform, file, mode, dirs, started, server, remover>>
           /\ client' \in [Users -> {"idle", "queued", "accepted", "answered", "refused", "closed"}]
           /\ \A u \in Users : client'[u] \in {"queued", "accepted"}
                  => client[u] \in {"queued", "accepted"} /\ server[u] # d
BY DEF Exit, Goto, files, TypeOK

(* What the steps of a daemon leave of the types.                          *)
LEMMA ExitOK ==
    ASSUME SocketOK, NEW d \in Daemons, Exit(d), faults' \in 0 .. MaxFaults
    PROVE  SocketOK'
<1>1. TypeOK'
  BY ExitFacts DEF SocketOK, TypeOK
<1>2. FileOK' /\ BoundOK' /\ ReachableIsPermitted'
  <2>1. UNCHANGED <<platform, file, mode, remover>> /\ listening' \subseteq listening
        /\ \A e \in listening' : pc'[e] = pc[e]
    BY ExitFacts DEF SocketOK, TypeOK
  <2> QED BY <2>1 DEF SocketOK, FileOK, BoundOK, ReachableIsPermitted, Leads, socket_path
<1> QED BY <1>1, <1>2 DEF SocketOK

(* The listening daemons follow the program counters.                      *)
LEMMA GotoOK ==
    ASSUME TypeOK, NEW d \in Daemons,
           NEW w \in {"down", "check", "remove", "mkdir", "bind", "chmod", "serve"}, Goto(d, w)
    PROVE  /\ pc' \in [Daemons -> {"down", "check", "remove", "mkdir", "bind", "chmod", "serve"}]
           /\ pc'[d] = w /\ \A e \in Daemons \ {d} : pc'[e] = pc[e]
           /\ w \in {"chmod", "serve"} =>
                 listening \cup {d} = {e \in Daemons : pc'[e] \in {"chmod", "serve"}}
           /\ w \notin {"chmod", "serve"} =>
                 listening \ {d} = {e \in Daemons : pc'[e] \in {"chmod", "serve"}}
BY DEF TypeOK, Goto

LEMMA SameLeads ==
    ASSUME UNCHANGED file, NEW e \in Daemons
    PROVE  Leads(e)' <=> Leads(e)
BY DEF Leads, socket_path

(* A step of main that neither binds nor ends.                             *)
LEMMA OnTheWay ==
    ASSUME SocketOK, NEW d \in Daemons, d \notin listening,
           NEW w \in {"check", "remove", "mkdir", "bind"}, Goto(d, w),
           UNCHANGED <<platform, listening, clients, mode>>,
           dirs' \subseteq Paths, started' \subseteq Daemons, faults' \in 0 .. MaxFaults,
           file' \in [Paths -> Daemons \cup {NoDaemon}],
           \A q \in Paths : file'[q] \in {file[q], NoDaemon},
           remover' \in [Daemons -> Daemons \cup {NoDaemon}],
           \A e \in Daemons \ {d} :
              \/ /\ Leads(e)' <=> Leads(e)
                 /\ remover'[e] = remover[e]
              \/ ~Leads(e)' /\ remover'[e] = d
    PROVE  SocketOK'
<1>1. TypeOK'
  BY GotoOK DEF SocketOK, TypeOK, clients
<1>2. BoundOK' /\ FileOK'
  <2>1. FileOK'
    BY DEF SocketOK, FileOK, socket_path
  <2>2. BoundOK'
    <3> SUFFICES ASSUME NEW e \in listening
                 PROVE  (Leads(e)' <=> remover'[e] = NoDaemon) /\ remover'[e] # e
      BY DEF BoundOK
    <3>1. e \in Daemons \ {d} /\ d # NoDaemon
      BY SocketAssumption DEF SocketOK, TypeOK
    <3> QED BY <3>1 DEF SocketOK, BoundOK
  <2> QED BY <2>1, <2>2
<1>3. ReachableIsPermitted'
  <2> SUFFICES ASSUME platform = "linux", NEW e \in listening, Leads(e)', pc'[e] # "chmod"
               PROVE  mode[socket_path(e)] = "0660"
    BY DEF ReachableIsPermitted, socket_path
  <2>1. e \in Daemons /\ e # d /\ pc[e] # "chmod"
    BY GotoOK DEF SocketOK, TypeOK
  <2>2. Leads(e)
    BY <2>1
  <2> QED BY <2>1, <2>2 DEF SocketOK, ReachableIsPermitted
<1> QED BY <1>1, <1>2, <1>3 DEF SocketOK
-----------------------------------------------------------------------------
LEMMA StartOK ==
    ASSUME SocketOK, NEW d \in Daemons, Start(d)
    PROVE  SocketOK'
<1>1. d \notin listening
  BY DEF Start, SocketOK, TypeOK
<1> QED BY <1>1, OnTheWay, SameLeads DEF Start, SocketOK, TypeOK, files, clients

LEMMA CheckOK ==
    ASSUME SocketOK, NEW d \in Daemons, check_zfs_installed(d)
    PROVE  SocketOK'
<1>1. CASE Goto(d, "remove") /\ UNCHANGED <<platform, files, listening, started, clients, faults, remover>>
  <2>1. d \notin listening
    BY DEF check_zfs_installed, SocketOK, TypeOK
  <2> QED BY <1>1, <2>1, OnTheWay, SameLeads DEF SocketOK, TypeOK, files, clients
<1>2. CASE faults < MaxFaults /\ faults' = faults + 1 /\ Exit(d)
  <2>1. faults' \in 0 .. MaxFaults
    BY <1>2, SocketAssumption DEF SocketOK, TypeOK
  <2> QED BY <1>2, <2>1, ExitOK
<1> QED BY <1>1, <1>2 DEF check_zfs_installed

LEMMA CrashOK ==
    ASSUME SocketOK, NEW d \in Daemons, Crash(d)
    PROVE  SocketOK'
<1>1. faults' \in 0 .. MaxFaults
  BY SocketAssumption DEF Crash, SocketOK, TypeOK
<1> QED BY <1>1, ExitOK DEF Crash

(* The file that is removed leads to the daemon that bound it, if that one *)
(* still listens, and to no other.                                         *)
LEMMA RemoveOK ==
    ASSUME SocketOK, NEW d \in Daemons, remove_file(d)
    PROVE  SocketOK'
<1> DEFINE p == socket_path(d)
<1>1. d \notin listening /\ p \in Paths
  BY PathFacts DEF remove_file, SocketOK, TypeOK
<1>2. /\ file' \in [Paths -> Daemons \cup {NoDaemon}]
      /\ remover' \in [Daemons -> Daemons \cup {NoDaemon}]
  BY <1>1 DEF remove_file, SocketOK, TypeOK
<1>3. ASSUME NEW e \in Daemons
      PROVE  \/ (Leads(e)' <=> Leads(e)) /\ remover'[e] = remover[e]
             \/ ~Leads(e)' /\ remover'[e] = d
  <2>1. socket_path(e) \in Paths /\ NoDaemon \notin Daemons
    BY PathFacts, SocketAssumption
  <2>2. CASE UNCHANGED <<file, remover>>
    BY <2>2 DEF Leads, socket_path
  <2>3. CASE /\ file[p] # NoDaemon /\ file' = [file EXCEPT ![p] = NoDaemon]
             /\ remover' = [remover EXCEPT ![file[p]] = d]
    <3>1. file[p] \in Daemons
      BY <1>1, <2>3 DEF SocketOK, TypeOK
    <3>2. CASE file[p] = e
      <4>1. remover'[e] = d
        BY <2>3, <3>1, <3>2 DEF SocketOK, TypeOK
      <4>2. socket_path(e) = p
        BY <1>1, <2>1, <3>2 DEF SocketOK, FileOK
      <4>3. ~Leads(e)'
        BY <1>1, <2>1, <2>3, <4>2 DEF Leads, SocketOK, TypeOK, socket_path
      <4> QED BY <4>1, <4>3
    <3>3. CASE file[p] # e
      <4>1. remover'[e] = remover[e]
        BY <2>3, <3>1, <3>3 DEF SocketOK, TypeOK
      <4>2. Leads(e)' <=> Leads(e)
        BY <1>1, <2>1, <2>3, <3>3 DEF Leads, SocketOK, TypeOK, socket_path
      <4> QED BY <4>1, <4>2
    <3> QED BY <3>2, <3>3
  <2> QED BY <2>2, <2>3 DEF remove_file
<1>4. \A q \in Paths : file'[q] \in {file[q], NoDaemon}
  BY <1>1 DEF remove_file, SocketOK, TypeOK
<1> QED BY <1>1, <1>2, <1>3, <1>4, OnTheWay DEF remove_file, SocketOK, TypeOK, clients

LEMMA MkdirOK ==
    ASSUME SocketOK, NEW d \in Daemons, create_dir_all(d)
    PROVE  SocketOK'
<1>1. faults' \in 0 .. MaxFaults
  BY DEF create_dir_all, SocketOK, TypeOK
<1>2. CASE Exit(d)
  BY <1>1, <1>2, ExitOK
<1>3. CASE ~Exit(d)
  <2>1. d \notin listening /\ socket_path(d) \in Paths
    BY PathFacts DEF create_dir_all, SocketOK, TypeOK
  <2> QED BY <1>1, <1>3, <2>1, OnTheWay, SameLeads DEF create_dir_all, SocketOK, TypeOK, clients
<1> QED BY <1>2, <1>3

(* bind takes a path nobody has a file at.                                 *)
LEMMA BindOK ==
    ASSUME SocketOK, NEW d \in Daemons, bind(d)
    PROVE  SocketOK'
<1> DEFINE p == socket_path(d)
<1>1. faults' \in 0 .. MaxFaults /\ p \in Paths /\ d \notin listening /\ TypeOK
  BY PathFacts DEF bind, SocketOK, TypeOK
<1>2. CASE Exit(d)
  BY <1>1, <1>2, ExitOK
<1>3. CASE ~Exit(d)
  <2>1. /\ file[p] = NoDaemon /\ file' = [file EXCEPT ![p] = d]
        /\ mode' = [mode EXCEPT ![p] = "umask"] /\ listening' = listening \cup {d}
        /\ remover' = [remover EXCEPT ![d] = NoDaemon]
        /\ Goto(d, IF platform = "linux" THEN "chmod" ELSE "serve")
        /\ UNCHANGED <<platform, dirs, started, clients, faults>>
    BY <1>3 DEF bind
  <2>2. TypeOK'
    BY <1>1, <2>1, GotoOK DEF TypeOK, clients
  <2>3. FileOK'
    BY <1>1, <2>1 DEF SocketOK, FileOK, TypeOK, socket_path
  <2>4. BoundOK'
    <3> SUFFICES ASSUME NEW e \in listening'
                 PROVE  (Leads(e)' <=> remover'[e] = NoDaemon) /\ remover'[e] # e
      BY DEF BoundOK
    <3>0. e \in Daemons /\ e # NoDaemon /\ socket_path(e) \in Paths
      BY <1>1, <2>1, SocketAssumption, PathFacts DEF TypeOK
    <3>1. CASE e = d
      BY <1>1, <2>1, <3>0, <3>1 DEF TypeOK, Leads, socket_path
    <3>2. CASE e # d
      <4>1. e \in listening /\ remover'[e] = remover[e]
        BY <1>1, <2>1, <3>0, <3>2 DEF TypeOK
      <4>2. Leads(e)' <=> Leads(e)
        BY <1>1, <2>1, <3>0, <3>2 DEF TypeOK, Leads, socket_path
      <4> QED BY <4>1, <4>2 DEF SocketOK, BoundOK
    <3> QED BY <3>1, <3>2
  <2>5. ReachableIsPermitted'
    <3> SUFFICES ASSUME platform = "linux", NEW e \in listening', Leads(e)', pc'[e] # "chmod"
                 PROVE  mode'[socket_path(e)] = "0660"
      BY <2>1 DEF ReachableIsPermitted, socket_path
    <3>1. e \in Daemons /\ e # d /\ e \in listening /\ pc[e] # "chmod"
      BY <1>1, <2>1, GotoOK DEF TypeOK
    <3>2. socket_path(e) # p /\ Leads(e)
      BY <1>1, <2>1, <3>1, PathFacts DEF Leads, TypeOK, socket_path
    <3> QED BY <1>1, <2>1, <3>1, <3>2, PathFacts DEF SocketOK, ReachableIsPermitted, TypeOK
  <2> QED BY <2>2, <2>3, <2>4, <2>5 DEF SocketOK
<1> QED BY <1>2, <1>3

(* set_permissions changes the file at its path, whoever made it.          *)
LEMMA ChmodOK ==
    ASSUME SocketOK, NEW d \in Daemons, set_permissions(d)
    PROVE  SocketOK'
<1> DEFINE p == socket_path(d)
<1>1. faults' \in 0 .. MaxFaults /\ p \in Paths /\ d \in listening /\ TypeOK
  BY PathFacts DEF set_permissions, SocketOK, TypeOK
<1>2. CASE Exit(d)
  BY <1>1, <1>2, ExitOK
<1>3. CASE ~Exit(d)
  <2>1. /\ mode' = [mode EXCEPT ![p] = "0660"] /\ Goto(d, "serve")
        /\ UNCHANGED <<platform, file, dirs, listening, started, clients, faults, remover>>
    BY <1>3 DEF set_permissions
  <2>2. TypeOK'
    <3>1. listening' = {e \in Daemons : pc'[e] \in {"chmod", "serve"}}
      BY <1>1, <2>1, GotoOK
    <3> QED BY <1>1, <2>1, <3>1, GotoOK DEF TypeOK, clients
  <2>3. BoundOK' /\ FileOK'
    BY <2>1 DEF SocketOK, BoundOK, FileOK, Leads, socket_path
  <2>4. ReachableIsPermitted'
    BY <1>1, <2>1, GotoOK, PathFacts DEF SocketOK, ReachableIsPermitted, Leads, TypeOK, socket_path
  <2> QED BY <2>2, <2>3, <2>4 DEF SocketOK
<1> QED BY <1>2, <1>3

(* The steps of a user touch no file.                                      *)
LEMMA UserOK ==
    ASSUME SocketOK, NEW u \in Users,
           connect(u) \/ accept(u) \/ handle_client(u) \/ HangUp(u) \/ Done(u)
    PROVE  SocketOK'
<1>1. UNCHANGED <<platform, files, pc, listening, started, faults, remover>> /\ TypeOK
  BY DEF connect, accept, handle_client, HangUp, Done, Turn, SocketOK
<1>2. TypeOK'
  <2>1. CASE connect(u)
    BY <1>1, <2>1 DEF connect, Turn, TypeOK, files
  <2>2. CASE accept(u) \/ handle_client(u)
    BY <1>1, <2>2 DEF accept, handle_client, Turn, TypeOK, files
  <2>3. CASE HangUp(u) \/ Done(u)
    BY <1>1, <2>3 DEF HangUp, Done, Turn, TypeOK, files
  <2> QED BY <2>1, <2>2, <2>3
<1>3. FileOK' /\ BoundOK' /\ ReachableIsPermitted'
  BY <1>1 DEF SocketOK, FileOK, BoundOK, ReachableIsPermitted, Leads, files, socket_path
<1> QED BY <1>2, <1>3 DEF SocketOK

LEMMA SocketNext == SocketOK /\ [Next]_vars => SocketOK'
<1> SUFFICES ASSUME SocketOK, [Next]_vars PROVE SocketOK'
  OBVIOUS
<1>1. CASE UNCHANGED vars
  BY <1>1 DEF vars, files, clients, SocketOK, TypeOK, FileOK, BoundOK, ReachableIsPermitted, Leads,
              socket_path
<1>2. ASSUME NEW d \in Daemons, Start(d) \/ Main(d) \/ Crash(d)
      PROVE  SocketOK'
  BY <1>2, StartOK, CrashOK, CheckOK, RemoveOK, MkdirOK, BindOK, ChmodOK DEF Main
<1> QED BY <1>1, <1>2, UserOK DEF Next

LEMMA SocketInit == Init => SocketOK
BY SocketAssumption DEF Init, SocketOK, TypeOK, FileOK, BoundOK, ReachableIsPermitted, Leads

(* SocketOK holds in every reachable state.                                *)
THEOREM SocketCorrect == Spec => []SocketOK
BY SocketInit, SocketNext, PTL DEF Spec

(* The variables keep their types, and who listens is who has bound.       *)
THEOREM SocketTypeCorrect == Spec => []TypeOK
<1>1. SocketOK => TypeOK
  BY DEF SocketOK
<1> QED BY <1>1, SocketCorrect, PTL

(* A serving daemon is hidden if and only if another one has removed its   *)
(* socket file.                                                            *)
THEOREM OnlyRemovalHides == Spec => []HiddenIffRemoved
<1>1. SocketOK => HiddenIffRemoved
  BY DEF SocketOK, TypeOK, BoundOK, HiddenIffRemoved
<1> QED BY <1>1, SocketCorrect, PTL

(* On Linux, a socket file that leads to a listening daemon has mode 0660  *)
(* from that daemon's own set_permissions on.                              *)
THEOREM ReachableHasMode == Spec => []ReachableIsPermitted
<1>1. SocketOK => ReachableIsPermitted
  BY DEF SocketOK
<1> QED BY <1>1, SocketCorrect, PTL
=============================================================================
