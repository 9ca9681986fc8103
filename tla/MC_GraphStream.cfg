CONSTANTS
  None = None
  Lifetime = 0
  Leeway = 1
  Broken = {1}
  Text <- MCText
  Results <- MCResults
  Bare <- MCBare
  MaxTime = 2
  MaxKey = 2
  MaxItems = 2
SPECIFICATION Spec
INVARIANT TypeOK
INVARIANT VerdictsOld
INVARIANT NoDataAfterExpiry
INVARIANT LogIntact
PROPERTY LogEnds
