SPECIFICATION FairSpec
CONSTANTS
  None = None
  Sessions = {}
  Keys = {}
  Refs <- MCRefs
  Events <- MCEvents
  Past <- MCPast
  Announces <- MCAnnounces
  Tolerance = 0
  Leads = {0, 1}
  Seals = {"good"}
  MaxCrashes = 1
INVARIANTS
  HeardIsKept
PROPERTIES
  EveryEventTakesEffect
  EffectsFollowLifecycle
