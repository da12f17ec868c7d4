SPECIFICATION FairSpec
CONSTANTS
  RafTasks = {"raf1", "raf2", "raf3"}
  XrTasks = {"xr1", "xr2"}
  Tasks = {"raf1", "raf2", "raf3", "xr1", "xr2"}
  BeforeConts = {"raf", "xr"}
  AfterConts = {"schedule", "endFrame"}
  NoCont = "none"
  MaxRaces = 1
  MaxEnds = 1
INVARIANT
  EndSessionBetweenFrames
