SPECIFICATION VisionSpec
CONSTANTS
  Threshold <- MCThreshold
  Covers <- MCCovers
  Accepts <- MCAccepts
  Frames <- MCFrames
  Zones = {"door", "desk"}
  Configured <- MCConfigured
  MaxMissed = 1
  HitsBound = 2
  MinimumHits = 1
  ZoneMissed = 1
  EnterConfirm = 2
  ExitConfirm = 2
  DwellTime = 1
  PeopleHits = 2
  Grace = 0
  MaxTracks = 2
  Classes = {"bottle"}
  MaxVisible = 2
  AppearConfirm = 1
  RemoveConfirm = 2
  LeftConfirm = 2
  RearmPeople = 2
  CheckpointEvery = 2
  MaxEvents = 3
  MaxLives = 2
  s1 = s1
  s2 = s2
  v1 = v1
  v2 = v2
  bad = bad
  list = list
  Savers = {s1, s2}
  Good = {v1, v2}
  Broken = {bad}
  Alien = {list}
  MaxSaves = 2
  MaxEdits = 2
INVARIANTS
    ImageBeforeShowsTheCount
CHECK_DEADLOCK FALSE
