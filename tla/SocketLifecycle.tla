--------------------------- MODULE SocketLifecycle ---------------------------
(***************************************************************************)
(* How a zfswatchd process gets its Unix socket and a CLI finds it: main   *)
(* of crates/zfswatchd/src/main.rs up to its accept loop, the socket path  *)
(* of crates/zfswatch/src/main.rs, and the supervisor that starts a failed *)
(* daemon again.  Several daemons may run, started by the supervisor or by *)
(* hand.  Nothing removes the socket file when a daemon ends.              *)
(*                                                                         *)
(* remover is a history variable: who removed the socket file that a       *)
(* daemon has bound.                                                       *)
(***************************************************************************)
EXTENDS Naturals, FiniteSets

CONSTANTS
    Platforms,          \* subset of {"linux", "macos"}: what the daemons may be built for
    Daemons, NoDaemon,
    Supervised,         \* daemons that systemd or launchd starts again
    Users,
    Paths, NoPath,
    EnvSocket,          \* daemon -> ZFSWATCH_SOCKET, or NoPath
    ConfigDirSocket,    \* zfswatch.sock beside the default configuration file
    SocketArg,          \* user -> --socket, or NoPath
    SocketSetting,      \* daemon.socket_path, or NoPath: the configuration does not resolve
    DefaultSocket,      \* the CLI's own default
    Writable,           \* daemon -> paths in directories it may write
    MaxFaults           \* bound: failed ZFS checks and crashes

ASSUME SocketAssumption ==
    /\ Platforms \subseteq {"linux", "macos"}
    /\ NoDaemon \notin Daemons /\ NoPath \notin Paths
    /\ Supervised \subseteq Daemons
    /\ EnvSocket \in [Daemons -> Paths \cup {NoPath}]
    /\ SocketArg \in [Users -> Paths \cup {NoPath}]
    /\ ConfigDirSocket \in Paths /\ DefaultSocket \in Paths
    /\ SocketSetting \in Paths \cup {NoPath}
    /\ Writable \in [Daemons -> SUBSET Paths]
    /\ MaxFaults \in Nat

VARIABLES
    platform,   \* of all daemons
    file,       \* path -> the daemon that made the socket file there
    mode,       \* path -> its permissions: "umask" or "0660"
    dirs,       \* the paths whose directory exists
    pc,         \* daemon -> what main does
    listening,  \* the daemons whose listener is bound
    started,    \* the daemons started at least once
    client,     \* user -> "idle", "queued", "accepted", "answered", "refused", "closed"
    server,     \* user -> the daemon the connection leads to
    faults,     \* counter of the bound
    remover     \* history: daemon -> daemon, or NoDaemon

files == <<file, mode, dirs>>
clients == <<client, server>>
vars == <<platform, files, pc, listening, started, clients, faults, remover>>

socket_path(d) == IF EnvSocket[d] # NoPath THEN EnvSocket[d] ELSE ConfigDirSocket

cli_socket_path(u) ==
    IF SocketArg[u] # NoPath THEN SocketArg[u]
    ELSE IF SocketSetting # NoPath THEN SocketSetting ELSE DefaultSocket

Init ==
    /\ platform \in Platforms
    /\ file = [p \in Paths |-> NoDaemon]
    /\ mode = [p \in Paths |-> "umask"]
    /\ dirs \in SUBSET Paths
    /\ pc = [d \in Daemons |-> "down"]
    /\ listening = {} /\ started = {}
    /\ client = [u \in Users |-> "idle"]
    /\ server = [u \in Users |-> NoDaemon]
    /\ faults = 0
    /\ remover = [d \in Daemons |-> NoDaemon]

(* Every variable holds a value of its type; the listening daemons are     *)
(* those past bind, and a connection under way leads to one of them.       *)
TypeOK ==
    /\ platform \in {"linux", "macos"}
    /\ file \in [Paths -> Daemons \cup {NoDaemon}]
    /\ mode \in [Paths -> {"umask", "0660"}]
    /\ dirs \subseteq Paths
    /\ pc \in [Daemons -> {"down", "check", "remove", "mkdir", "bind", "chmod", "serve"}]
    /\ listening = {d \in Daemons : pc[d] \in {"chmod", "serve"}}
    /\ started \subseteq Daemons
    /\ client \in [Users -> {"idle", "queued", "accepted", "answered", "refused", "closed"}]
    /\ server \in [Users -> Daemons \cup {NoDaemon}]
    /\ \A u \in Users : client[u] \in {"queued", "accepted"} => server[u] \in listening
    /\ faults \in 0 .. MaxFaults
    /\ remover \in [Daemons -> Daemons \cup {NoDaemon}]

-----------------------------------------------------------------------------
(* The daemon.                                                             *)

Goto(d, where) == pc' = [pc EXCEPT ![d] = where]

(* A process is started again only by its supervisor.                      *)
Start(d) ==
    /\ pc[d] = "down"
    /\ d \in Supervised \/ d \notin started
    /\ started' = started \cup {d}
    /\ Goto(d, "check")
    /\ UNCHANGED <<platform, files, listening, clients, faults, remover>>

(* Faulty variant: the socket file is removed on the way out.              *)
Exit_unlink(d) ==
    /\ Goto(d, "down")
    /\ listening' = listening \ {d}
    /\ client' = [u \in Users |->
                    IF server[u] = d /\ client[u] \in {"queued", "accepted"}
                    THEN "closed" ELSE client[u]]
    /\ file' = [file EXCEPT ![socket_path(d)] = NoDaemon]
    /\ UNCHANGED <<platform, mode, dirs, started, server, remover>>

(* The process ends: its listener and its connections are closed.          *)
Exit(d) ==
    /\ Goto(d, "down")
    /\ listening' = listening \ {d}
    /\ client' = [u \in Users |->
                    IF server[u] = d /\ client[u] \in {"queued", "accepted"}
                    THEN "closed" ELSE client[u]]
    /\ UNCHANGED <<platform, files, started, server, remover>>

Crash(d) ==
    /\ pc[d] # "down" /\ faults < MaxFaults
    /\ faults' = faults + 1
    /\ Exit(d)

check_zfs_installed(d) ==
    /\ pc[d] = "check"
    /\ \/ /\ Goto(d, "remove")
          /\ UNCHANGED <<platform, files, listening, started, clients, faults, remover>>
       \/ faults < MaxFaults /\ faults' = faults + 1 /\ Exit(d)

(* Faulty variant: the file is left where it is.                           *)
remove_file_not(d) ==
    /\ pc[d] = "remove"
    /\ Goto(d, "mkdir")
    /\ UNCHANGED <<platform, files, listening, started, clients, faults, remover>>

(* Errors are ignored: nothing to remove, or a read-only directory.        *)
remove_file(d) ==
    /\ pc[d] = "remove"
    /\ LET p == socket_path(d)
           maker == file[p]
       IN  IF p \in Writable[d] \cap dirs /\ maker # NoDaemon
           THEN /\ file' = [file EXCEPT ![p] = NoDaemon]
                /\ remover' = [remover EXCEPT ![maker] = d]
           ELSE UNCHANGED <<file, remover>>
    /\ Goto(d, "mkdir")
    /\ UNCHANGED <<platform, mode, dirs, listening, started, clients, faults>>

create_dir_all(d) ==
    /\ pc[d] = "mkdir"
    /\ LET p == socket_path(d)
       IN  \/ /\ p \in dirs \cup Writable[d]
              /\ dirs' = dirs \cup {p}
              /\ Goto(d, "bind")
              /\ UNCHANGED <<platform, file, mode, listening, started, clients, remover>>
           \/ p \notin dirs \cup Writable[d] /\ Exit(d)
    /\ UNCHANGED faults

(* Faulty variant: an error of bind is ignored too.                        *)
bind_ignored(d) ==
    /\ pc[d] = "bind"
    /\ LET p == socket_path(d)
       IN  IF p \in Writable[d] /\ file[p] = NoDaemon
           THEN /\ file' = [file EXCEPT ![p] = d]
                /\ listening' = listening \cup {d}
           ELSE UNCHANGED <<file, listening>>
    /\ Goto(d, "chmod")
    /\ UNCHANGED <<platform, mode, dirs, started, clients, faults, remover>>

bind(d) ==
    /\ pc[d] = "bind"
    /\ LET p == socket_path(d)
       IN  \/ /\ p \in Writable[d] /\ file[p] = NoDaemon
              /\ file' = [file EXCEPT ![p] = d]
              /\ mode' = [mode EXCEPT ![p] = "umask"]
              /\ listening' = listening \cup {d}
              /\ remover' = [remover EXCEPT ![d] = NoDaemon]
              /\ Goto(d, IF platform = "linux" THEN "chmod" ELSE "serve")
              /\ UNCHANGED <<platform, dirs, started, clients>>
           \/ (p \notin Writable[d] \/ file[p] # NoDaemon) /\ Exit(d)
    /\ UNCHANGED faults

(* Faulty variant: the permissions are left to the umask.                  *)
set_permissions_skip(d) ==
    /\ pc[d] = "chmod"
    /\ Goto(d, "serve")
    /\ UNCHANGED <<platform, files, listening, started, clients, faults, remover>>

(* Faulty variant: it waits for the file to be there.                      *)
set_permissions_wait(d) ==
    /\ pc[d] = "chmod" /\ file[socket_path(d)] # NoDaemon
    /\ mode' = [mode EXCEPT ![socket_path(d)] = "0660"]
    /\ Goto(d, "serve")
    /\ UNCHANGED <<platform, file, dirs, listening, started, clients, faults, remover>>

(* On Linux only.  By path: the file may be gone, or be another daemon's,  *)
(* by now.                                                                 *)
set_permissions(d) ==
    /\ pc[d] = "chmod"
    /\ LET p == socket_path(d)
       IN  \/ /\ file[p] # NoDaemon
              /\ mode' = [mode EXCEPT ![p] = "0660"]
              /\ Goto(d, "serve")
              /\ UNCHANGED <<platform, file, dirs, listening, started, clients, remover>>
           \/ file[p] = NoDaemon /\ Exit(d)
    /\ UNCHANGED faults

Main(d) ==
    \/ check_zfs_installed(d) \/ remove_file(d) \/ create_dir_all(d)
    \/ bind(d) \/ set_permissions(d)

Turn(u, s) ==
    /\ client' = [client EXCEPT ![u] = s]
    /\ UNCHANGED <<platform, files, pc, listening, started, faults, remover>>

(* The accept loop takes a connection, and its handler answers.            *)
accept(u) ==
    /\ client[u] = "queued" /\ pc[server[u]] = "serve"
    /\ Turn(u, "accepted") /\ UNCHANGED server

handle_client(u) == client[u] = "accepted" /\ Turn(u, "answered") /\ UNCHANGED server

-----------------------------------------------------------------------------
(* The CLI: connects, or is refused: no file, or nobody listens behind it. *)

connect(u) ==
    /\ client[u] = "idle"
    /\ LET d == file[cli_socket_path(u)]
       IN  IF d \in listening
           THEN Turn(u, "queued") /\ server' = [server EXCEPT ![u] = d]
           ELSE Turn(u, "refused") /\ server' = [server EXCEPT ![u] = NoDaemon]

(* The CLI is interrupted.                                                 *)
HangUp(u) == client[u] \in {"queued", "accepted"} /\ Turn(u, "closed") /\ UNCHANGED server

Done(u) ==
    /\ client[u] \in {"answered", "refused", "closed"}
    /\ Turn(u, "idle") /\ server' = [server EXCEPT ![u] = NoDaemon]

Next ==
    \/ \E d \in Daemons : Start(d) \/ Main(d) \/ Crash(d)
    \/ \E u \in Users : connect(u) \/ accept(u) \/ handle_client(u) \/ HangUp(u) \/ Done(u)

Spec == Init /\ [][Next]_vars

(* A process that runs gets on, the supervisor starts its daemons again    *)
(* (Restart=on-failure, KeepAlive).  A handler need not ever answer: it    *)
(* waits for commands, and nothing bounds their time.                      *)
FairSpec ==
    /\ Spec
    /\ \A d \in Daemons : WF_vars(Main(d))
    /\ \A d \in Supervised : WF_vars(Start(d))
    /\ \A u \in Users : WF_vars(accept(u))

-----------------------------------------------------------------------------
Leads(d) == file[socket_path(d)] = d

(* A serving daemon can be connected to until another daemon, on its way   *)
(* to the same path, removes the file: one started before or after it, and *)
(* one that may end before it serves itself.  No other step of a daemon,   *)
(* and no way to end, hides one that stays.                                *)
HiddenIffRemoved ==
    \A d \in Daemons : pc[d] = "serve" =>
        /\ Leads(d) <=> remover[d] = NoDaemon
        /\ remover[d] # d

(* On Linux a socket file that leads to a listening daemon has mode 0660,  *)
(* although set_permissions names it by its path: but for the window       *)
(* between that daemon's bind and its own set_permissions, when the mode   *)
(* is the umask's and connections are taken into the queue.  On macOS the  *)
(* mode stays the umask's.                                                 *)
ReachableIsPermitted ==
    platform = "linux" =>
        \A d \in listening : Leads(d) => mode[socket_path(d)] = "0660" \/ pc[d] = "chmod"

(* Stale socket files, failed checks, crashes and daemons that get in the  *)
(* way of each other delay a supervised daemon, but in the end it serves   *)
(* for good.                                                               *)
SupervisedServes == <>[](\A d \in Supervised : pc[d] = "serve")

(* A connection made to a daemon that is replaced, fails in its start-up   *)
(* or dies does not stay in the queue: it is accepted or closed.           *)
ConnectionsAccepted == \A u \in Users : client[u] = "queued" ~> client[u] # "queued"

(* zfswatch main.rs: "On Linux: sudo systemctl start zfswatchd" starts it. *)
SystemdServes == <>(\E d \in Supervised : pc[d] = "serve")
=============================================================================
