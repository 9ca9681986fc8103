CONSTANTS
  Subjects = {s1}
  MaxRefreshTokens = 2
  None = None
  Calls = {c1, c2}
  LockIds = {l1, l2, l3}
  Grace = 1
  Lifetimes <- MCLifetimes
  MaxNow = 1
SPECIFICATION FairSpec
INVARIANT TypeOK
INVARIANT SingleRefresh
INVARIANT NoRedundantRefresh
INVARIANT RefreshTokenKept
INVARIANT LocksReleased
PROPERTY EveryCallAnswered
PROPERTY RefreshIsShared
