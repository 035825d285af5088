\* Four files; a machine with size_t up to 63, a first buffer of 4 and limits
\* below it, between powers of two, and at the end of the range.
CONSTANTS
  N = 4
  SizeMax = 63
  FirstCap = 4
  Limits = {1, 3, 21, 32, 62, 63}
SPECIFICATION ExportSpec
INVARIANTS CrashSafe AllOrNothing BufferSound RefusedForSize
CHECK_DEADLOCK FALSE
