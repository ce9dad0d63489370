\* A watched row and a refresh_token row, two handlers that may overlap, one fault.
SPECIFICATION FairSpec
CONSTANTS
  j1 = j1
  j2 = j2
  Nobody = Nobody
  Job = {j1, j2}
  TypeOf <- MetadataAndRefresh
  Execution = {e1, e2}
  Take = 2
  MaxAttempts = 1
  MaxFaults = 1
INVARIANTS TypeOK ExclusiveExecution
PROPERTIES BackoffRespected ImplementsLifecycle WatchedJobsClose UnwatchedJobsCloseOrOrphan
