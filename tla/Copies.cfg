\* Every type, with all references set and with each one nil.
\* When the writes are used up there is nothing left to do.
CONSTANTS
  MaxWrites = 2
  MaxDepth = 6
SPECIFICATION Spec
PROPERTIES CopiesApart
CHECK_DEADLOCK FALSE
