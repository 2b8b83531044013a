SPECIFICATION TrackerSpec
CONSTANTS
  FieldUpdateDelay = 20
  MaxBehind = 3
  MaxFrame = 37
  HistoryCount = 3
  BallSpeedCount = 6
  GoalMissing = 1
  FramesApart = 2
  WarmUp = 2
  BarThreshold = 2
  FPS = {4, 6}
  SignalDelay = 5
  GoalGap = 10
  PlayerWindow = 5
  SpeedWindow = 10
  Position <- MCPosition
  Speed = {0, 20, 40}
  MaxFrames = 9
  MaxShots = 1
  Width = 24
  Height = 18
  Settled = 16
  Word = 1048576
  MaxChanges = 2
  Table <- MCTable
  Bars <- MCBars
  Scenes <- MCScenes
  InitialCrops <- MCCrops
  UserSettings <- MCUserSettings
  Pictures <- MCPictures
INVARIANTS
  FieldReadoutIntact
  ReadoutDefined
  PlayerByReference
  MaxSpeedIsRecentMax
  FieldOpen
  FieldTracksTable
  BallOnTable
  DemoOverrides
PROPERTIES
  SignalsNotInterrupted
  OneGoalPerDisappearance
CHECK_DEADLOCK FALSE
