SPECIFICATION Spec
CONSTANTS
  a = a
  b = b
  stamper = stamper
  Nothing = Nothing
  Recorders <- Three
  Stampers <- OneStamper
  Reports <- Life
  StampReport <- Answer
  Reconciles = TRUE
SYMMETRY Alike
CHECK_DEADLOCK FALSE
INVARIANTS
  TypeOK
  FillsStayRecorded
  OneRowInTheEnd
PROPERTY
  NeverFallsBack
