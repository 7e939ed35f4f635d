SPECIFICATION Spec
CONSTANTS
  s1 = s1  s2 = s2  s3 = s3  s4 = s4  None = None
  Sessions = {s1, s2, s3, s4}
  Requests <- ProcessorRequests
  Keys = {"k1"}
  Events <- ProcessorEvents
  Refs <- MCRefs
  Terms <- ProcessorTerms
  Past <- SecondHeld
  Opening <- MCOpening
  Records <- MCRecords
  Users <- MCUsers
  Price <- MCPrice
  Accounts <- MCAccounts
  UserAccount <- MCUserAccount
  ArchiveAccount <- MCArchiveAccount
  ScribeAccount <- MCScribeAccount
  PlatformAccount = "platform"
  Bps <- MCBps
  Engine = "postgres"
  MaxCents = 15
  Serial = {"approved", "declined"}
  MaxCrashes = 0
INVARIANTS
  EventsMatchEffects
  PostedOnce
  MoneyIsConserved
  SettledIsAuthorized
PROPERTIES
  DecisionIsFinal
  ImplementsLifecycle
SYMMETRY SessionSymmetry
