SPECIFICATION Spec
SYMMETRY Symmetry
CONSTANTS
  w1 = w1
  w2 = w2
  a = a
  b = b
  f1 = f1
  f2 = f2
  f3 = f3
  f4 = f4
  f5 = f5
  None = None
  Partial = Partial
  Garbage = Garbage
  Writers = {w1, w2}
  p1 = p1
  p2 = p2
  Pids = {p1, p2}
  MayBeDamaged = {b}
  Addresses = {a, b}
  Puts <- MCPuts
  Path <- MCPath
  MaxSerial = 2
  Files = {f1, f2, f3, f4, f5}
  MaxCrashes = 1
INVARIANT SeenIsWhole
PROPERTY ImplementsDurableStore
