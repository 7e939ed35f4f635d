SPECIFICATION FairSpec
CONSTANTS
  s1 = s1  s2 = s2  s3 = s3  s4 = s4  None = None
  Sessions = {s1, s2, s3}
  Requests <- SqliteRequests
  Keys = {"k1"}
  Events <- SqliteEvents
  Refs <- MCRefs
  Terms <- BadTerms
  Past <- PendingAndAbsent
  Opening <- MCOpening
  Records <- MCRecords
  Users <- MCUsers
  Price <- MCPrice
  Accounts <- MCAccounts
  UserAccount <- MCUserAccount
  ArchiveAccount <- MCArchiveAccount
  ScribeAccount <- MCScribeAccount
  PlatformAccount = "platform"
  Bps <- MCBps
  Engine = "sqlite"
  MaxCents = 1000
  Serial = {}
  MaxCrashes = 0
INVARIANTS
  SettledIsAuthorized
PROPERTIES
  DecisionIsFinal
  EveryRequestEnds
CHECK_DEADLOCK FALSE
