SPECIFICATION MCSpec
CONSTANTS
  Jobs = {j1, j2}
  Attempts = {a1}
  Uploads = {u1}
  Pictures = {p1}
  Gifs <- PipelineGifs
  MAX_FRAMES = 2
  NoJob = NoJob
  NoRun = NoRun
  NoFile = NoFile
  Inline = Inline
  ProcessorGifs <- LimitGifs
  OldDurations <- RecordedDurations
  FrameLimits = {1, 2, 3, 7, 19, 20, 21}
SYMMETRY Symmetry
INVARIANTS
  ResultIsWhole
  RunFindsItsFiles
  TimingIsKept
CONSTRAINTS
  FewCalls
  FewStages
CHECK_DEADLOCK FALSE
