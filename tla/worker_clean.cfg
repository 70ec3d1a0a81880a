SPECIFICATION FairSpec
CONSTANTS
  e1 = e1
  e2 = e2
  w1 = w1
  w2 = w2
  p1 = p1
  p2 = p2
  s1 = s1
  camp = camp
  Emails = {e1, e2}
  Workers = {w1, w2}
  Processes = {p1, p2}
  Campaigns = {camp}
  Senders = {s1}
  GlobalScope = GlobalScope
  NoOverride = NoOverride
  NoWorker = NoWorker
  Strategy = "per_sender"
  HourlyLimit <- MCHourlyLimit
  SenderDefault = 2
  GlobalLimit = 1
  MaxHour = 2
  procOf <- MCProcOf
  campaignOf <- OneCampaign
  senderOf <- OneSender
  MaxDeferrals = 3
  MaxJobAttempts = 3
  MaxAttempts = 2
  MaxStalls = 1
  Skew = 0
  MishapBound <- MCMishaps
  Crashes = 0
  LiveStalls = 0
  DbErrors = 0
  LostAcks = 1
  MaxMishaps = 1
CHECK_DEADLOCK FALSE
INVARIANTS
  NoneStranded
  ProcessingIsOwned
  AttemptsBounded
PROPERTIES
  EventuallySettled
  EventuallyCompleted
