SPECIFICATION Spec
CONSTANTS
  a = a
  b = b
  Byte = {a, b}
  Files <- MCFiles
  MAXBUF = 2
  UNCOMPRESS_BOUND = 2
  CompressTypes = {"COMPRESS_NONE", "COMPRESS_GZIP"}
INVARIANTS TypeOK RoundTrip
PROPERTIES ImplementsStream TripEnds
CHECK_DEADLOCK FALSE
