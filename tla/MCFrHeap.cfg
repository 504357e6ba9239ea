SPECIFICATION Spec
CONSTANTS
  HEAP_SIZE = 192
  NUM_BINS = 9
  HeaderSize = 24
  MinBin = 4
  Size = {0, 8, 40, 100, 300}
INVARIANTS TypeOK Disjoint Conserved Chained PayloadFits
PROPERTIES ReallocCopyFits
