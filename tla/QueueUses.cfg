CONSTANTS
  Capacity = 3
  Item = {"a", "b"}
  None = None
SPECIFICATION UsesSpec
INVARIANTS
  TypeOK
  NoSlotRace
  TestsStayTrue
  WindowTypeOK
PROPERTIES
  ImplementsFifo
  FullDrains
  ImplementsWindow
