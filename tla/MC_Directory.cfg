CONSTANTS
  None = None
  Subjects <- MCSubjects
  GroupNames <- MCGroupNames
  Ids = {1}
  Proposals = {1, 2}
  StaticEntries <- MCStatic
  MaxChanges = 2
  MaxFaults = 1
SPECIFICATION DirectorySpec
INVARIANT MembershipSound
PROPERTY IdentitiesKept
PROPERTY Synced
CHECK_DEADLOCK FALSE
