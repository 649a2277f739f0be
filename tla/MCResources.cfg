\* Two Resources on two devices, two objects, three addresses.
CONSTANTS
  Handles = {h1, h2}
  Objects = {o1, o2}
  Buffers = {b1, b2}
  Devices = {gpu0, gpu1}
  Places = {p1, p2, p3}
  None = None
SYMMETRY Symmetry
SPECIFICATION Spec
INVARIANTS
  MemoryKept
  NothingLost
\* The process ends when a destructor throws.
CHECK_DEADLOCK FALSE
