CONSTANTS
  p1 = p1
  u1 = u1
  Requests <- MCRequests
  Upgrades <- MCUpgrades
  MaxServes = 2
SPECIFICATION Spec
INVARIANTS TableInv HandledOnce ServersInv
PROPERTIES EveryWaitEnds StopIsForGood RefinesRequestReply
CHECK_DEADLOCK FALSE
