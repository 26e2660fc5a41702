SPECIFICATION Spec
CONSTANTS
  a = a
  b = b
  c = c
  d = d
  Keys = {a, b, c, d}
  Data = {1, 2}
  Hash <- MCHash
  BucketCount = 2
  OnRefusal <- MCOnRefusal
INVARIANTS TypeOK Linked
PROPERTIES KeepsFirst CallsReturn
CHECK_DEADLOCK FALSE
