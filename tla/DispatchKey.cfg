\* Two repositories over two CodeCommit regions: does an event run its own?
CONSTANTS
  p1 = p1
  p2 = p2
  NoHost = "none"
  Elsewhere = "elsewhere"
  Provider <- Regions
  TypeOf <- RegionType
  BaseURLs <- RegionURLs
  Path <- TwoPaths
  MaxRepos = 2
SPECIFICATION Spec
INVARIANTS DispatchKey
