SPECIFICATION Spec
CONSTANTS
  Bits <- MCBits
  LongValues <- MCLongValues
  DigitValues = {0, 5, 9}
  MaxShift = 11
  MaxSwaps = 2
INVARIANTS
    NumbersExact
    ShiftsExact
    DivisionsExact
    FieldsExact
    SharedExact
CHECK_DEADLOCK FALSE
