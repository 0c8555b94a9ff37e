\* Files with an indented first line.
\* One document is generated and read: then there is nothing left to do.
CONSTANTS
  Texts = {"word"}
  Names = {"word"}
  Flags = {Unset}
  MaxItems = 1
  MaxFiles = 1
  MaxLines = 2
  MaxUsers = 0
  MaxCommands = 0
  Unset = Unset
SPECIFICATION Spec
INVARIANTS ContentKept
CHECK_DEADLOCK FALSE
