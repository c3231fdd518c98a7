CONSTANTS
  me = me
  b = b
  Me = me
  Others = {b}
  Creator = me
  Namespaces = {"auth", "data"}
  AuthKeys <- MCAuthKeys
  MaxRecords = 2
  MaxDisables = 2
  MaxCrashes = 2
  MaxDeletions = 1
SPECIFICATION Spec
CHECK_DEADLOCK FALSE
INVARIANTS
  OwnershipIsFirst
  CoresAreAdded
  EnabledIsReplicated
PROPERTIES
  KnownIsKept
