\* Contents of every length that DOC_CONTENT_LENGTH allows.
CONSTANTS
  RequestLength = 12
  ContentLength = 4
  Names = {"a"}
  MaxContent = 4
  MaxRequests = 3
SPECIFICATION Spec
INVARIANTS
  ReadAsWritten
  StandsAtARequest
CHECK_DEADLOCK FALSE
