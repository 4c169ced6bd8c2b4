SPECIFICATION Spec
CONSTANTS
  default = default
  tuned = tuned
  refused = refused
  Documents <- MCDocuments
  DefaultDocument = default
  HooksAccept <- MCHooksAccept
  DeviceOf <- MCDeviceOf
  Stack <- MCStack
  TwoPart <- MCTwoPart
  Kept <- MCKept
  MaximumBackoffShift = 1
  MaxFailures = 2
  MaxLaunches = 2
INVARIANTS
  Standing
  SettingsHold
  OncePerPress
PROPERTIES
  LockedStartsNothing
  RecoveryEnds
\* A process that has ended and is not replaced does nothing more.
CHECK_DEADLOCK FALSE
