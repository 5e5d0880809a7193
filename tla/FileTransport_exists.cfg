\* Unpacking to a name that a file already has.
SPECIFICATION FileSpec
CONSTANTS
  Names = {"f"}
  PakSize = 1
  MaxSize = 1
PROPERTIES ExistingKept
CHECK_DEADLOCK FALSE
