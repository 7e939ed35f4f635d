SPECIFICATION Spec
CONSTANTS
  s1 = s1  s2 = s2  s3 = s3  s4 = s4  None = None
  Sessions = {s1, s2, s3}
  Requests <- RefundRequests
  Keys = {"k1"}
  Events = {}
  Refs <- MCRefs
  Terms <- MCTerms
  Past <- FirstSettled
  Opening <- MCOpening
  Records <- MCRecords
  Users <- MCUsers
  Price <- MCPrice
  Accounts <- MCAccounts
  UserAccount <- MCUserAccount
  ArchiveAccount <- MCArchiveAccount
  ScribeAccount <- MCScribeAccount
  PlatformAccount = "platform"
  Bps <- MCBps
  Engine = "postgres"
  MaxCents = 1000
  Serial = {"refund"}
  MaxCrashes = 1
INVARIANTS
  KeyBuysOnce
  PurchaseIsWhole
  RefundRestores
  BalancesShowStages
PROPERTIES
  TrailIsAdditive
  ImplementsLifecycle
SYMMETRY SessionSymmetry
