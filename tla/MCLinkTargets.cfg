SPECIFICATION Spec
CONSTANTS
  Members <- MCMembers
  Policies <- MCPolicies
  NameBytes <- MCNameBytes
  MAX_MEMBERS = 3
  MAX_SYMLINK_EXPANSIONS = 2
  MAX_SYMLINK_RESOLUTION_WORK_BYTES = 32
  MAX_LOOKUP_STEPS = 40
INVARIANTS
  LinksStayInside
  LinksLeadAsJudged
  RefusalIsDeserved
  WorkIsBounded
CHECK_DEADLOCK FALSE
