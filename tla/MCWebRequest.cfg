CONSTANTS
  b1 = b1
  b2 = b2
  Home = Home
  News = News
  Broken = Broken
  Frame = Frame
  Gone = Gone
  Browsers <- MCBrowsers
  Requests <- MCRequests
  Visits <- MCVisits
  Routes <- MCRoutes
  Behaviours <- MCBehaviours
  Stack <- MCStack
  Fate <- MCFate
  Given <- MCGiven
  GlobalLayout = 0
  ErrorComponent = Broken
  NotFound = Gone
  PoolSize = 2
  DevMode = TRUE
  MaxEntries = 1
  MaxEvents = 1
SPECIFICATION Spec
INVARIANTS OwnPageIsNeverRefused FlashIsReadOnce NeverMissing
