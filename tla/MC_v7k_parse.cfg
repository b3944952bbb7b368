\* The two readers of V7000 CLI output over every listing of up to two
\* columns and two objects, and every detailed view of up to three lines.
CONSTANTS
  Names <- MC_Names
  Values <- MC_Values
  BangVals <- MC_BangVals
  MaxRows = 2
  MaxLines = 3
SPECIFICATION Spec
INVARIANT TypeOK
INVARIANT ConciseRoundTrip
INVARIANT DetailedRoundTrip
CHECK_DEADLOCK FALSE
