CONSTANTS Conn = {c1, c2}
SPECIFICATION FairSpec
INVARIANT TypeOK
INVARIANT AccessRevoked
INVARIANT NoSpuriousFailure
PROPERTY CloseReturns
