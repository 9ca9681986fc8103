CONSTANTS
  Uids = {u1, u2, u3}
  None = None
  Nil = Nil
  MaxLen = 2
  MaxMessages = 5
  Pauses <- MCPauses
  TriggerNames = {t1, t2}
  TriggerSpecs <- MCSpecs
  SourceTypes <- MCSourceTypes
  Beamline = "i15-1"
  Visit = "visit"
  MaxEdits = 2
  MaxMixed = 2
SYMMETRY Interchangeable
SPECIFICATION EventsSpec
CHECK_DEADLOCK FALSE
INVARIANT InOrder
INVARIANT MergedOnce
INVARIANT Fires
PROPERTY RecentStartFound
