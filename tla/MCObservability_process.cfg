SPECIFICATION Spec
CONSTANTS
  chains = chains  custom = custom  o1 = o1
  None = None
  Labels <- HostLabels
  Threads <- TwoThreads
  ProgramOf <- Programs
  InRuntime <- Async
  Observers <- OneObserver
  MaxEvents = 2
INVARIANTS TypeOK OnePerDomain FinishedIsUsable SnapshotComplete MaxWithinCall WeightedWithinCall SnapshotWithinCall
PROPERTIES OwnConfigUnlessOvertaken
