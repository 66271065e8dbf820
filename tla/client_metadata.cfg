SPECIFICATION FairSpec
CONSTANTS
  key = key
  alias = alias
  other = other
  p1 = p1
  p2 = p2
  ClientIds <- Ids
  UrlForm <- Ids
  KeyOf <- MCKeyOf
  BaseOf <- MCBaseOf
  NoneIds = {other}
  HostOf <- MCHostOf
  PublicHosts = {"claude.ai"}
  AllowedHosts = {"claude.ai", "chatgpt.com"}
  AnyHost = "*"
  ConfigIds = {alias}
  broken = broken
  DocOf <- MCDocOf
  Documents = {broken, d1}
  Content <- MCContent
  Procs = {p1, p2}
  Asks <- MCAsks
  Headers <- MCHeaders
  DurationSpan = 16
  CacheMax = 1
  NegativeTTL = 1
  FloorTTL = 1
  CeilTTL = 2
  DefaultTTL = 1
  FailureLimit = 2
  FailureWindow = 2
  FetchTimeout = 1
  MaxChanges = 1
  MaxFaults = 1
  Watched = key
  Nil = Nil
INVARIANTS TypeOK QuotaHolds
PROPERTIES WithdrawnIsForgotten DocumentReachesCallers
