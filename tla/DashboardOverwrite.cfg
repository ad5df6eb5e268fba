SPECIFICATION Spec
CONSTANTS
  None = None
  a = a
  b = b
  Flags = {a}
  Envs = {"development"}
  Editors = {"rules"}
  Wires <- MCWires
  Drafts <- MCDrafts
  Rollouts = {0, 5}
  Contested = {"rules"}
  Numerals = {"1"}
  MaxGestures = 2
  MaxWrites = 1
  MaxTrouble = 0
  MaxVisits = 3
PROPERTIES NeverSilentOverwrite
CHECK_DEADLOCK FALSE
