CONSTANTS
  Name <- MCName
  Disk <- MCDisk
  Part = {lima_yaml, diffdisk}
  NoDisk = NoDisk
  Final = final
  Candidate = candidate
  Backup = backup
  Original = original
  New = new
  Foreign = foreign
  MountSet = {expected, other}
  Expected = expected
SPECIFICATION Spec
INVARIANT TypeOK
INVARIANT OriginalRecoverable
INVARIANT LeftoversReported
INVARIANT FailureRestoresOriginal
INVARIANT SuccessLeavesReplacement
PROPERTY ForeignUntouched
PROPERTY FrozenAfterRenameError
PROPERTY NoBootUnvalidated
PROPERTY SessionClosedFirst
PROPERTY ImplementsSafeReplacement
