CONSTANTS
  Path <- MCPath
  Relative <- MCRelative
  Parts <- MCParts
  MaxMs = 3
  DefaultTimeout = 1
  Inode <- MCInode
  Slash = "slash"
  Kind <- MCKind
  Owner <- MCOwner
  Mode <- MCMode
  Reads <- MCReads
  Name <- MCName
  Fresh <- MCFresh
  Partial = "part"
  NewDir = {"etcA", "etcB"}
  Installed <- MCInstalled
  Sources <- MCSources
  CliPaths = {"key"}
  SocketArgs = {"/home/key", "/home/../etc/key"}
  UserTree <- MCUserTree
  LastMs = 1
  Changes <- MCChanges
  MaxEdits = 1
  MaxInstalls = 2
SPECIFICATION Spec
INVARIANTS TypeOK OnlyRootsFiles InstallKeepsSettings
PROPERTY InstalledStarts
