SPECIFICATION FairSpec
CONSTANTS
  u = u
  v = v
  None = None
  URLs = {u, v}
  MaxSessions = 2
INVARIANTS TypeOK TimerRuns PendingIsWatched ToldWhatIsTracked
PROPERTIES SettledIsTold
CHECK_DEADLOCK FALSE
