CONSTANTS
  MaxIdent = 5
  ReadsFail = FALSE
SPECIFICATION Spec
INVARIANTS IdIsCommonName
