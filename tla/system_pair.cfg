SPECIFICATION SysSpec
CONSTANTS
  e1 = e1
  e2 = e2
  w1 = w1
  w2 = w2
  p1 = p1
  p2 = p2
  s1 = s1
  camp = camp
  Emails = {e1}
  Workers = {w1, w2}
  Processes = {p1, p2}
  Campaigns = {camp}
  Senders = {s1}
  GlobalScope = GlobalScope
  NoOverride = NoOverride
  NoWorker = NoWorker
  Strategy = "per_sender"
  HourlyLimit <- MCHourlyLimit
  SenderDefault = 2
  GlobalLimit = 1
  MaxHour = 0
  procOf <- MCProcOf
  campaignOf <- OneCampaign
  senderOf <- OneSender
  MaxDeferrals = 1
  MaxJobAttempts = 3
  MaxAttempts = 2
  MaxStalls = 1
  Skew = 0
  MishapBound <- MCMishaps
  Crashes = 1
  LiveStalls = 1
  DbErrors = 1
  LostAcks = 1
  MaxMishaps = 1
  position <- InOrder
  PageSize = 1
  Overlap = FALSE
  Hasty = TRUE
  EventBound <- MCEvents
  SlowSends = 0
  RedisLosses = 1
  Shutdowns = 1
  MaxEvents = 1
  MaxCancels = 1
  MaxApiCrashes = 0
CHECK_DEADLOCK FALSE
INVARIANTS
  ClaimExclusive
  ExtraSendsBounded
  CompletedIsSettled
PROPERTIES
  VerdictIsFinal
  CancelledForGood
  CancelledStays
  UntriedIsNeverTried
