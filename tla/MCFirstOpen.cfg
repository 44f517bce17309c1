SPECIFICATION SecSpec
CONSTANTS
  WindowSize = 2
  MaxCounter = 3
  Senders = {"host"}
  Codes = {code}
  Headers = {header}
INVARIANT
  FirstOpenSucceeds
CHECK_DEADLOCK FALSE
