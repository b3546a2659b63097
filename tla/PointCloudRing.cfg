\* One ring on a machine with store buffers: two slots, indices that wrap at 6.
CONSTANTS
  LidarCount = 1
  Size = 2
  Width = 6
  Frames = {f1, f2}
  NoFrame = NoFrame
  Setups <- Delaying
SPECIFICATION Spec
INVARIANTS RingWindow NoSlotRace
PROPERTIES ImplementsFrameChannel
CHECK_DEADLOCK FALSE
