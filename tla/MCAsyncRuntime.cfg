CONSTANTS
  s1 = s1
  s2 = s2
  a1 = a1
  a2 = a2
  a3 = a3
  SyncCalls <- MCSync
  AsyncCalls <- MCAsync
  Callers <- MCCallers
SPECIFICATION Spec
INVARIANTS InCallOrder ResultOnItsWay
PROPERTIES CallsEnd
CHECK_DEADLOCK FALSE
