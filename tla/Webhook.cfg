\* Every checksum file of up to five tokens, as long as what md5sum prints,
\* and what it prints for up to three images.
\* There is one request: the webhook stops when it has answered.
CONSTANTS
  MaxTokens = 5
  MaxImages = 3
SPECIFICATION Spec
INVARIANTS MD5SumAccepted AcceptedOneImage
CHECK_DEADLOCK FALSE
