CONSTANTS
  Proc = {"p1", "p2", "p3"}
  Order <- MCOrder
  Backlog = 1
  Limits = {1, 2}
  MaxChanges = 2
SPECIFICATION FairSpec
INVARIANTS TypeOK SuccessorsSpareListeners ShutdownRemovesOwn
PROPERTY RecoversAlone
