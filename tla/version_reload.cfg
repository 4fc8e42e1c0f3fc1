\* User schemas of up to two tokens over one token; up to three wrappers.
CONSTANTS
  Tokens = {"t"}
  Fragment = Fragment
  MaxLen = 2
  MaxMade = 3
SPECIFICATION Spec
\* Only finitely many wrappers are made; the model stops at MaxMade.
CHECK_DEADLOCK FALSE
INVARIANT VersionIdentifiesSchema
