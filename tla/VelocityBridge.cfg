\* Two axes, a queue of two commands, a watchdog of two periods.
CONSTANTS
  forward = forward
  angular = angular
  Axes = {forward, angular}
  Commands <- Sent
  MaxSpeed <- Upper
  MinSpeed <- Lower
  Dead = 2
  Depth = 2
  Watchdog = 2
  MaxWaits = 2
  Attempts = 2
SPECIFICATION FairSpec
INVARIANTS SpeedsStartable SignalStops FreshOnceSpinning
PROPERTIES NavGoneStops
CHECK_DEADLOCK FALSE
