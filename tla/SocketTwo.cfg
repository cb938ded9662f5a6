SPECIFICATION FairSpec
CONSTANTS
  Platforms = {"linux", "macos"}
  run = run
  etc = etc
  Daemons = {d1, d2}
  NoDaemon = NoDaemon
  Supervised = {d1}
  Users = {u1, u2}
  Paths = {run, etc}
  NoPath = NoPath
  EnvSocket <- EnvRun
  ConfigDirSocket = etc
  SocketArg <- NoArg
  SocketSetting = run
  DefaultSocket = run
  Writable <- AsRoot
  MaxFaults = 2
INVARIANTS
  TypeOK
  HiddenIffRemoved
  ReachableIsPermitted
PROPERTIES
  ConnectionsAccepted
  SupervisedServes
