SPECIFICATION Spec
CONSTANTS
  Items = {i1, i2, i3, i4, i5}
  NULL = NULL
  InitSize = 2
  Increment = 2
  NoMemory = {"create", "item", "grow"}
INVARIANTS
  TypeOK
  NeverOverruns
  NothingForgotten
PROPERTY
  ImplementsLifo
