CONSTANTS
  Name <- MCName
  Disk <- MCDisk
  Part = {lima_yaml, diffdisk}
  NoDisk = NoDisk
  Final = final
  Candidate = candidate
  Backup = backup
  Original = original
  New = new
  Foreign = foreign
  MountSet = {expected, other}
  Expected = expected
  Commands <- MCCommands
SPECIFICATION RaceSpec
INVARIANT OriginalLostOnlyOnRequest
INVARIANT StopAllKeepsOriginal
