SPECIFICATION FairSpec
PROPERTIES
  EofReported
