SPECIFICATION Spec
CONSTANTS
  Keys = {a, b}
  Rows = {r1}
  Targets = {t}
  Views = {f}
  Clients = {u, v}
  Number = Number
  Option = Option
  Kinds = {"number", "select", "relation", "rollup", "formula"}
  MaxRows = 1
  MaxViews = 1
  MaxIds = 3
  MaxVersion = 3
  MaxNamed = 1
SYMMETRY Symmetry
ACTION_CONSTRAINT Parts
INVARIANTS
  TypeOK
  StraysComeFromOvertakenChecks
  EdgesFollowCells
  CyclesComeFromOvertakenChecks
PROPERTIES
  RowsKeepWhatIsNotNamed
