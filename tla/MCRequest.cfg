CONSTANTS
  Unset = Unset
  LF = "LF"
  CR = "CR"
  Colon = ":"
  Space = " "
  Star = "*"
  Get = "GET"
  Slash = "/"
  RequestKey = "Request"
  Signs <- MCSigns
  Requests <- MCRequests
  Index <- MCIndex
  Types <- MCTypes
SPECIFICATION RequestSpec
INVARIANTS RequestTypeOK HeadersAreTheText CutAnywhere
CHECK_DEADLOCK FALSE
