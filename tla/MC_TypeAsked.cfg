CONSTANTS
  Uids = {u1}
  None = None
  Nil = Nil
  MaxLen = 1
  MaxMessages = 2
  Pauses = {}
  TriggerNames = {t1}
  TriggerSpecs <- MCSpecs
  SourceTypes <- MCSourceTypes
  Beamline = "i15-1"
  Visit = "visit"
  MaxEdits = 1
  MaxMixed = 2
SPECIFICATION EventsSpec
CHECK_DEADLOCK FALSE
INVARIANT TypeAsked
