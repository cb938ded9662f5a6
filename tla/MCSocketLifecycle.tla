-------------------------- MODULE MCSocketLifecycle --------------------------
(***************************************************************************)
(* Instances of SocketLifecycle for TLC: the socket in /run and the one in *)
(* /etc, with ZFSWATCH_SOCKET set or not, as root or under the unit file   *)
(* (ProtectSystem=strict, ReadWritePaths=/run/zfswatch).                   *)
(***************************************************************************)
EXTENDS SocketLifecycle

CONSTANTS run, etc

EnvRun == [d \in Daemons |-> run]
EnvUnset == [d \in Daemons |-> NoPath]
NoArg == [u \in Users |-> NoPath]
AsRoot == [d \in Daemons |-> Paths]
UnderUnit == [d \in Daemons |-> {run}]
=============================================================================
