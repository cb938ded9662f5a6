SPECIFICATION FairSpec
CONSTANTS
  Platforms = {"linux"}
  run = run
  etc = etc
  Daemons = {d1}
  NoDaemon = NoDaemon
  Supervised = {d1}
  Users = {u1}
  Paths = {run, etc}
  NoPath = NoPath
  EnvSocket <- EnvUnset
  ConfigDirSocket = etc
  SocketArg <- NoArg
  SocketSetting = run
  DefaultSocket = run
  Writable <- UnderUnit
  MaxFaults = 0
PROPERTIES
  SystemdServes
