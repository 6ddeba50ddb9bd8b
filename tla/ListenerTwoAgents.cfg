CONSTANTS
  Proc = {"p1", "p2"}
  Order <- MCOrder
  Backlog = 1
  Limits = {2}
  MaxChanges = 0
SPECIFICATION Spec
INVARIANT LiveNeverUnlinked
