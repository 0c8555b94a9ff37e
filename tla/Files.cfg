\* Any two of two files of up to two lines, a user, two commands and NTP.
\* One document is generated and read: then there is nothing left to do.
CONSTANTS
  Texts = {"word", "no", "a: b", "@x", "{{ a }}"}
  Names = {"word", "no"}
  Flags = {FALSE, Unset}
  MaxItems = 2
  MaxFiles = 2
  MaxLines = 2
  MaxUsers = 1
  MaxCommands = 2
  Unset = Unset
SPECIFICATION Spec
INVARIANTS FilesArrive CommandsArrive UsersArrive
CHECK_DEADLOCK FALSE
