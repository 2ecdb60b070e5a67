\* A struct is forgotten by a promise that has no room for it, and the process
\* ends once libuv has nothing to do.
CONSTANTS
  Programs <- MCPrograms
  Vars <- MCVars
  MaxConts = 2
  Threads = 2
SPECIFICATION ProcessSpec
INVARIANTS WakesOnce NothingForgotten GoesWrongOnly
PROPERTIES Ends
CHECK_DEADLOCK FALSE
