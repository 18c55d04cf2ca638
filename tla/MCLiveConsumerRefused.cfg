SPECIFICATION LiveSpec
CONSTANTS
  MaxRevision = 1
  MaxEventId = 2
  PageLimit = 2
PROPERTIES
  ConvergesAfterRefusal
CHECK_DEADLOCK FALSE
