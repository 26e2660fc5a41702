CONSTANTS
  Signs <- MCSigns
  Texts <- MCTexts
  LF = "LF"
  CR = "CR"
  Eq = "="
  Hash = "#"
  Unset = Unset
  Default = Default
  Folders <- MCFolders
SPECIFICATION ConfigSpec
CHECK_DEADLOCK FALSE
INVARIANTS ConfigTypeOK LinesAreTheFile ReadAsWritten
PROPERTY ReadingEnds
