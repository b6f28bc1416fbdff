SPECIFICATION Spec
CONSTANTS
  KeyOrder <- MCKeyOrder
  Handles = {h1, h2}
  Keys <- MCKeys
  Scalars <- MCScalars
  MaxSize = 6
SYMMETRY Symmetry
CHECK_DEADLOCK FALSE
INVARIANTS RoundTrip ReaderFinds
