SPECIFICATION Spec
CONSTANTS
  low = low
  cap = cap
  odd = odd
  typo = typo
  m1 = m1
  m2 = m2
  text = text
  none = none
  Address = {low, cap, odd, typo}
  KeyOf <- MCKeyOf
  Matching = {low, cap, odd}
  Accepted = {low, cap}
  NoText = NoText
  Drafts = {low, typo}
  NoFile = NoFile
  Pastes <- MCPastes
  Files <- MCFiles
  Mail = {m1, m2}
  Searches = {text, none}
  NoSearch = none
  Hit <- MCHit
  PageLimit = 1
  MaxActs = 4
CHECK_DEADLOCK FALSE
INVARIANTS
  EmptyMeansNone
  OneCampaignPerForm
  ShownIsSent
PROPERTIES
  NeverOlder
  NothingVanishes
  AllSettle
