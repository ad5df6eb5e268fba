SPECIFICATION Spec
CONSTANTS
  None = None
  a = a
  b = b
  Flags = {a, b}
  Envs = {"development", "production"}
  Editors = {"rules"}
  Wires <- MCWires
  Drafts <- MCDrafts
  Rollouts = {0, 5}
  Contested = {"rollout"}
  Numerals = {"1"}
  MaxGestures = 2
  MaxWrites = 1
  MaxTrouble = 1
  MaxVisits = 2
INVARIANTS SettledShowsReplies
PROPERTIES ProductionNeedsConfirmation SliderSendsOnlyWhatWasDragged
CHECK_DEADLOCK FALSE
SYMMETRY Symmetry
