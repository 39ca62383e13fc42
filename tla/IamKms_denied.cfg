SPECIFICATION Spec
CONSTANTS
  N = 2
  Rules <- MCMfaRule
  Denials <- MCLookDenials
  MaxDrift = 0
INVARIANT DenialNeverRaises
CHECK_DEADLOCK FALSE
