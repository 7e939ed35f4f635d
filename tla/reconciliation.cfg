SPECIFICATION SpecCheck
CONSTANTS
  s1 = s1  s2 = s2  s3 = s3  s4 = s4  None = None
  Sessions = {s1, s2}
  Edits = {1}
  MaxEdits = 1
  Requests <- OverlapRequests
  Keys = {"k1"}
  Events <- OverlapEvents
  Refs <- MCRefs
  Terms <- CentTerms
  Past <- SettledAndPending
  Opening <- MCOpening
  Records <- MCRecords
  Users <- MCUsers
  Price <- MCPrice
  Accounts <- MCAccounts
  UserAccount <- MCUserAccount
  ArchiveAccount <- MCArchiveAccount
  ScribeAccount <- MCScribeAccount
  PlatformAccount = "platform"
  Bps <- MCBps
  Engine = "postgres"
  MaxCents = 9
  Serial = {}
  MaxCrashes = 0
INVARIANTS
  TypeOK
  OnlyEditsDrift
  NeverUnbalanced
PROPERTIES
  DriftIsExplained
SYMMETRY SessionSymmetry
CHECK_DEADLOCK FALSE
