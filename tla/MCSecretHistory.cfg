SPECIFICATION HistorySpec
CONSTANTS
  a = a  b = b  d1 = d1  d2 = d2  m0 = m0  m1 = m1
  x1 = x1  x2 = x2  x3 = x3  x4 = x4  x5 = x5  x6 = x6  x7 = x7  x8 = x8
  None = None
  Path <- Paths
  Data <- OneValue
  Array <- Arrays
  Map <- FewMaps
  NilMeta = m0
  Limit = 2
  Meta <- OneMeta
  MaxVersion = 6
  MayCopy = TRUE
INVARIANTS HistoryTypeOK 
SYMMETRY PathSymmetry
