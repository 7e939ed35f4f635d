SPECIFICATION FairSpec
CONSTANTS
  s1 = s1  s2 = s2  s3 = s3  s4 = s4  None = None
  Sessions = {s1, s2}
  Requests <- CardPurchases
  Keys = {"k1"}
  Events = {}
  Refs <- MCRefs
  Terms <- MCTerms
  Past <- NoPast
  Opening <- MCOpening
  Records <- MCRecords
  Users <- MCUsers
  Price <- MCPrice
  Accounts <- MCAccounts
  UserAccount <- MCUserAccount
  ArchiveAccount <- MCArchiveAccount
  ScribeAccount <- MCScribeAccount
  PlatformAccount = "platform"
  Bps <- MCBps
  Engine = "postgres"
  MaxCents = 1000
  Serial = {}
  MaxCrashes = 0
PROPERTIES
  CardAuthEnds
CHECK_DEADLOCK FALSE
