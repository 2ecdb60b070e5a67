CONSTANTS
  b1 = b1
  b2 = b2
  Browsers <- MCBrowsers
  MaxEdits = 2
  Contents = 3
  Broken <- MCBroken
SPECIFICATION Spec
INVARIANTS LoadedIsRenderable CacheIsCurrent
PROPERTIES IslandNeverOlder EditReloadsConnected
