\* Flags that are false.
\* One document is generated and read: then there is nothing left to do.
CONSTANTS
  Texts = {"word"}
  Names = {"word"}
  Flags = {TRUE, FALSE, Unset}
  MaxItems = 1
  MaxFiles = 0
  MaxLines = 1
  MaxUsers = 1
  MaxCommands = 0
  Unset = Unset
SPECIFICATION Spec
INVARIANTS FlagsKept
CHECK_DEADLOCK FALSE
