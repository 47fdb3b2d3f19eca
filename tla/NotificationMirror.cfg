SPECIFICATION Spec
CONSTANTS
  Note = {n1}
  Task = {t1, t2}
  MaxRev = 2
  MaxEvents = 2
  MaxGestures = 1
  MaxCrashes = 1
INVARIANTS
  TypeOK
  NoConflict
  NativeUpToDate
  OnlyUserDismisses
PROPERTIES
  KeepsContract
  ViewedAsOpened
SYMMETRY TaskSymmetry
CHECK_DEADLOCK FALSE
