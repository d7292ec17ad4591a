SPECIFICATION Spec
CONSTANTS
  Raw <- MCRaw
  MaxChars = 2
  MaxBytes = 7
INVARIANTS NameIsDisplayable NameIsDisplayName
CHECK_DEADLOCK FALSE
