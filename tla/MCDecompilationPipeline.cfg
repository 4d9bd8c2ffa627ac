SPECIFICATION Spec
CONSTANTS
  Relaxations = 4
  Duplications = 64
  Groups <- MCGroups
INVARIANTS AnalysesCurrent
PROPERTIES Terminates
CHECK_DEADLOCK FALSE
