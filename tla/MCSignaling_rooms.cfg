SPECIFICATION FairSpec
CONSTANTS
  Peers = {1, 2}
  r1 = r1
  r2 = r2
  y1 = y1
  y2 = y2
  Rooms = {r1, r2}
  Relays = {y1}
  Handles = {1, 2, 3, 4, 5}
  Settings <- RoomsSettings
PROPERTIES EverybodyConnects
CHECK_DEADLOCK FALSE
