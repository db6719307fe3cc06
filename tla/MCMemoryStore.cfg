SPECIFICATION FairSpec
CONSTANTS
  Threads = {t1, t2}
  Streams = {s1}
  Buffers = {b1, b2, b3}
  NoBuffer = NoBuffer
  NoStream = NoStream
INVARIANTS
  TypeOK
  NoIdleBuffer
  FinishedBuffersLeave
PROPERTIES
  NeverReplaced
  CallsReturn
  ReadsEnd
