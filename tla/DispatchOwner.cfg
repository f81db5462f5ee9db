\* Two repositories over three GitLab instances and one CodeCommit.
CONSTANTS
  p1 = p1
  p2 = p2
  NoHost = "none"
  Elsewhere = "elsewhere"
  Provider <- Instances
  TypeOf <- InstanceType
  BaseURLs <- InstanceURLs
  Path <- TwoPaths
  MaxRepos = 2
SPECIFICATION Spec
SYMMETRY PathSymmetry
INVARIANTS TypeOK NarrowedToSender ReachesOwner SQSReachesOwner RowWritesItsSide AutoRetryRuns
