SPECIFICATION FairSpec
CONSTANTS
  Tests = 3
  MaxRetry = 5
  MaxFrames = 3
  Platforms = {"win32", "x11"}
CHECK_DEADLOCK FALSE
INVARIANTS
  TypeOK
  CallbackQueued
  ShotOfItsTest
  ExitTells
PROPERTY
  RunnerEnds
