\* Two pods, two crons, a webhook to send and one that has failed, one fault.
SPECIFICATION FairSpec
CONSTANTS
  p1 = p1
  p2 = p2
  w1 = w1
  w2 = w2
  NoHook = NoHook
  NoCron = NoCron
  Hook = {h1, h2}
  Unsent = {h1}
  Former = {old}
  Worker = {w1, w2}
  PageLimit = 1
  MaxJobs = 1
  MaxFaults = 1
  Pod = {p1, p2}
  Cron = {old, new}
  old = old
  new = new
  Release <- Releases
  PodOf <- WorkerOf
  MaxStarts = 2
INVARIANTS TypeOK SentTwiceExplained MissingExplained OldCronGone ClosedIsIdle
PROPERTIES FailureRetried
CHECK_DEADLOCK FALSE
