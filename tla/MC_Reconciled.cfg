CONSTANTS
  Names = {n1}
  StaticNames = {}
  Rows = {row1}
  Groups = {g1}
  None = None
  MaxChanges = 2
  MaxFaults = 0
  MaxRestarts = 1
SPECIFICATION FairSpec
PROPERTY Reconciled
