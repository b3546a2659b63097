\* Two lidars share the semaphore, with a slot each; one frame value, as contents do not matter.
CONSTANTS
  LidarCount = 2
  Size = 1
  Width = 2
  Frames = {f1}
  NoFrame = NoFrame
  Setups <- Served
SPECIFICATION FairSpec
INVARIANTS NoLostWakeup
PROPERTIES QuietMeansDrained StreamIsServed ShutdownCompletes SpinStillExits
CHECK_DEADLOCK FALSE
