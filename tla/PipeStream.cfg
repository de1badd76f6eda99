SPECIFICATION FairSpec
CONSTANTS
  BufSize = 4
  MaxSent = 9
INVARIANTS HeadsInBuffer Recycles
PROPERTIES ImplementsStream Delivered
