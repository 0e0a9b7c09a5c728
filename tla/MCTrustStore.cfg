CONSTANTS
  Invocation <- MCInvocation
  LockFile <- MCLockFile
  Projects <- MCProjects
  ProjectOf <- MCProjectOf
  LockDirectories <- MCLockDirectories
  Temporary <- MCTemporary
  Fallbacks <- MCFallbacks
  Mounts <- MCMounts
  Inside <- MCInside
  NoDirectory = NoDirectory
  Dir <- MCDir
  Directories <- MCDirectories
  Requested <- MCRequested
  InitialFiles <- MCInitialFiles
  MaxVersion = 1
  MaxWrites = 1
SPECIFICATION FairSpec
INVARIANT TypeOK
INVARIANT NoLostTrust
PROPERTY OnlyWantedChanges
PROPERTY PreparationsEnd
