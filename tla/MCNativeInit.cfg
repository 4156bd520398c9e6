CONSTANTS
  Threads = {t1, t2, t3}
  VM = vm
  Steps <- CodeSteps
SPECIFICATION NativeSpec
INVARIANTS
  ReleasedOnce
  CallsSafe
  CallbackLive
  RteUsable
  NothingLeft
PROPERTIES
  DeinitReleases
CHECK_DEADLOCK FALSE
