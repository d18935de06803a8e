\* Two sign-ins at a time, one failure, one kill.
SPECIFICATION FairSpec
CONSTANTS
  MaxViews = 6
  MaxSignIns = 2
  MaxFaults = 1
  MaxRestarts = 1
INVARIANTS
  TypeOK
  TopIsCurrent
  NothingLeftBehind
  HomeMeansRegistered
  StrandedOnlyByMishap
  OverlayWhileRegistering
PROPERTY
  SignInReachesHome
CHECK_DEADLOCK FALSE
