SPECIFICATION Spec
CONSTANTS
  Users = {u1, u2}
  Loop = Loop
  Sources = {s1, s2}
  NoSource = NoSource
  MaxFrames = 1
  MaxPlays = 1
INVARIANTS FinishOncePerPlay ActiveSourceOpen OverlappingCloseWindow NoLeak
PROPERTIES PlaybackEnds KeepsPromise
