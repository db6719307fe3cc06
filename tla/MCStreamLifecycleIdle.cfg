SPECIFICATION Spec
PROPERTIES
  StopsOnlyIdle
