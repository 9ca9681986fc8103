CONSTANTS
  None = None
  JsonKind <- MCJsonKind
  Malformed = Malformed
  Users <- MCUsers
  Me = "u1"
  Nameless <- MCNameless
  Catalog <- MCCatalog
  Filters <- MCFilters
  GroupFilters <- MCGroupFilters
  Limits <- MCLimits
  FormValues <- MCFormValues
  TriggerNames <- MCTriggerNames
  Shape <- MCShape
  MaxUid = 3
SPECIFICATION Spec
CONSTRAINT OneList
INVARIANT TypeOK
INVARIANT WalkComplete
INVARIANT WalkDrift
INVARIANT TasksFaithful
INVARIANT SubmittedOnce
INVARIANT FormFaithful
