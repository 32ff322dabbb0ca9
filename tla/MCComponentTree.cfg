CONSTANTS
  None = None
  Components = {a, b}
  States = {file, directory}
  MaxNodes = 4
SPECIFICATION TreeSpec
INVARIANTS
  CountsActiveChildren
PROPERTIES
  ImplementsPathStates
