CONSTANTS
  Names = {n1, n2}
  StaticNames = {n2}
  Rows = {row1}
  Groups = {g1, g2}
  None = None
  MaxChanges = 3
  MaxFaults = 2
  MaxRestarts = 1
SPECIFICATION FairSpec
INVARIANT TypeOK
INVARIANT MemoryTrue
PROPERTY DeletedOnlyIfGone
PROPERTY StaticStays
PROPERTY Converges
