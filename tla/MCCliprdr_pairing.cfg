\* The server's user copies, the client's pastes.
SPECIFICATION Spec
CONSTANTS
  Flags <- Everything
  Copiers <- ServerOnly
  Pasters <- ClientOnly
  Rejecting <- NoEnd
  Formats <- AllFormats
  MaxCopies = 2
  MaxPastes = 2
  MaxRequests = 0
  IdSpace = 3
  MAX_OUTGOING_LOCKS = 2
  MAX_LOCKED_FILE_LISTS = 2
  MAX_PENDING_FORMAT_DATA_REQUESTS = 2
  MAX_PENDING_FILE_REQUESTS = 2
INVARIANT ResponsesPaired
CHECK_DEADLOCK FALSE
