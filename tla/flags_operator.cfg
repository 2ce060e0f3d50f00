SPECIFICATION FairSpec
CONSTANTS
  Managed = TRUE
  MaxChanges = 3
  MaxFaults = 1
  MaxReleases = 2
INVARIANTS TypeOK ClusterMatches AnnouncedIsShown
PROPERTY FlagReachesCluster
