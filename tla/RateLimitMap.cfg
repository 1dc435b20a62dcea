SPECIFICATION Spec
CONSTANTS
  a = a
  b = b
  c = c
  Addrs <- ThreeAddrs
  Capacity = 2
  Full = 4
  Cost = 2
  IdleTTL = 4
  MaxTime = 8
SYMMETRY Symmetry
CHECK_DEADLOCK FALSE
INVARIANTS Lossless WithinRate
