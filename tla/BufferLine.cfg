CONSTANTS
  SIZE = 4
  Small = 4
  Large = 14
  Grow = 4
  MaxNumeric = 3
  Lengths <- MCLengths
  Digits <- MCDigits
  MaxText = 18
SPECIFICATION Spec
CHECK_DEADLOCK FALSE
INVARIANTS TypeOK PrefixKept TextEndsAtLen
