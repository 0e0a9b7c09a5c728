CONSTANTS
  Name = {vm}
  Disk <- MCDisk
  Part = {files}
  MountSet <- MCMountSet
  NoDisk = NoDisk
  Commands <- MCCommands
  Invocation = {i1, i2}
  LockFile <- MCLockFile
  NoDirectory = NoDirectory
  Inside <- MCInside
  Vm = vm
  Project <- MCProject
  StateRoots <- MCStateRoots
  Temporary <- MCTemporary
  Fallbacks <- MCFallbacks
  HasAgents = FALSE
  FirstDisk = FirstDisk
SPECIFICATION Spec
INVARIANT MutualExclusion
