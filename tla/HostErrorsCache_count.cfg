SPECIFICATION Spec
CONSTANTS
  w1 = w1
  w2 = w2
  k1 = k1
  k2 = k2
  i1 = i1
  i2 = i2
  i3 = i3
  i4 = i4
  Workers <- TwoWorkers
  Keys <- TwoKeys
  Items <- FourItems
  NoItem = NoItem
  MaxHostError = 2
  Capacity = 1
INVARIANTS TypeOK NeverSkippedEarly
PROPERTIES EventuallySkipped
