SPECIFICATION HostMediaSpec
CONSTANTS
  \* AdaptiveBitrate
  MinKbps = 2000
  MaxKbps = 3000
  DownStreakNeeded = 3
  UpStreakNeeded = 10
  CooldownSamples = 2
  Samples <- LinkSamples
  Requests <- SomeRates
  \* VideoEncoder
  MinRate = 2
  MaxRate = 3
  FirstRate = 2
  AskedRates = {5}
  MaxFaults = 1
  \* Letterbox
  Widths <- MCWidths
  Heights <- MCHeights
  TargetW = 8
  TargetH = 6
  \* HostStreamer
  Stoppers = {"qt", "io"}
  MaxFailures = 3
  MaxStops = 3
INVARIANTS
  SteadyLinkSettles
  PictureFits
  CaptureKeepsMembers
  TeardownIsComplete
PROPERTIES
  StepsFollowStreaks
  ChangesAreSpaced
  KeyframeServed
  QtStopReturns
\* A stream that was stopped, or that gave its encoder up, stays so.
CHECK_DEADLOCK FALSE
