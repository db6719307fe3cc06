SPECIFICATION Spec
CONSTANTS
  Threads = {t1, t2, t3}
  Streams = {s1}
  Buffers = {b1, b2, b3}
  NoBuffer = NoBuffer
  NoStream = NoStream
INVARIANTS
  ClientsShareOneBuffer
SYMMETRY Symmetry
