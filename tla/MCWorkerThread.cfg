CONSTANTS
  MaxUp = 2
  MaxDown = 2
SPECIFICATION Spec
INVARIANTS EventsInOrder AtMostOneAfterTerminate NoEntryLeaks MessagesAccounted
PROPERTIES ExitIsReported
CHECK_DEADLOCK FALSE
