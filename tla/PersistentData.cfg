\* Two paths, and everything which may happen to them.
SPECIFICATION FairSpec
CONSTANTS
  Paths = {p1, p2}
  Values = {v1, v2}
  None = None
  Faults = {"fail", "rewrite", "remove", "crash", "reload"}
  MaxAdds = 3
INVARIANTS StoreConverges CrashSafe
PROPERTIES FlushDrains
