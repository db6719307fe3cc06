SPECIFICATION FairSpec
CONSTANTS
  Pids = {1, 2, 3}
  ForkMayFail = TRUE
INVARIANTS TypeOK ScriptsReaped FailedNotLive NoneLeftOpen LiveFromAnswer
PROPERTIES PollsReturn RunningIsLive
