SPECIFICATION Spec
CONSTANTS
  Alphabet <- Byte
  MaxLen = 2
INVARIANT MatchesPolynomial
INVARIANT SelfChecking
CHECK_DEADLOCK FALSE
