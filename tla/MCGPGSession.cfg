CONSTANTS
  VM = {candidate, final}
  NoVM = NoVM
  MaxUses = 3
SPECIFICATION FairSpec
INVARIANT TypeOK
INVARIANT SessionOfRightVM
INVARIANT CleanedUpOrReported
INVARIANT NoSelfCancel
PROPERTY AccessEnds
