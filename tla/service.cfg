SPECIFICATION Spec
CONSTANTS
  s1 = s1
  s2 = s2
  s3 = s3
  MaxLen = 4
  Allowed = {"a", "b", "br"}
  Dropped = {"script", "form", "meta"}
  Void = {"br", "meta"}
  RawText = {"script", "title"}
  AllowedAttrs <- MCAttrs
  NoTag = ""
  Requests = {1, 2}
  Senders = {s1, s2, s3}
  SenderOrder <- MCOrder
  Bodies <- MCBodies
  PlainBody <- MCPlain
  Recipients = 4
  MaxJobs = 2
  MaxEvents = 2
INVARIANTS
  CleanMeansClean
  TextKept
  FairSpread
  DrainedBeforeTeardown
PROPERTIES
  StopsInTheEnd
