SPECIFICATION Spec
CONSTANTS
  linux = linux
  efi = efi
  GuestMarkers <- MCGuestMarkers
  FirmwareMarkers <- MCFirmwareMarkers
  Timeouts <- MCLongTimeouts
  LaunchGrace = 5
  GracePoll = 1
  PollInterval = 2
  TermGrace = 2
  TermPoll = 1
  KillWait = 1
  MaxLag = 1
  Horizon = 13
INVARIANTS
  TimeoutWithoutMarkers
CHECK_DEADLOCK FALSE
