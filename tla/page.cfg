CONSTANTS
  MaxFailures = 1
  Settings <- MCSettings
  MaxTasks = 2
SPECIFICATION FairSpec
INVARIANTS NothingCapturedAfterwards CameraOffIsOff MutedIsSilent SharingIsAllowed
PROPERTY RestoredOrGivenUp
CHECK_DEADLOCK FALSE
