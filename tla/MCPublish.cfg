SPECIFICATION FairSpec
CONSTANTS
  Edits <- TwoEdits
  Scenes <- TwoScenes
  Policies <- OnePolicy
  Interval = 2
  Heartbeat = 3
  Lasts = 2
  MaxLost = 1
  Torn = Torn
  Tiles = Tiles
  Absent = Absent
  Nothing = Nothing
PROPERTIES HidesAtOnce RoomCatchesUp
