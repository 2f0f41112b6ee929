SPECIFICATION Spec
CONSTANTS
  linux = linux
  efi = efi
  GuestMarkers <- MCGuestMarkers
  FirmwareMarkers <- MCFirmwareMarkers
  Timeouts <- MCTimeouts
  LaunchGrace = 5
  GracePoll = 1
  PollInterval = 2
  TermGrace = 2
  TermPoll = 1
  KillWait = 1
  MaxLag = 1
  Horizon = 13
INVARIANTS
  TypeOK
  PassMeansThisGuestBooted
  ReturnReapsQemu
  NoMarkerLostOnExit
  LaunchErrorMeansEarlyExit
  TimelyMarkerPasses
PROPERTIES
  KeepsContract
  AttemptEnds
CHECK_DEADLOCK FALSE
