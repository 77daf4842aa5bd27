SPECIFICATION FairSpec
CONSTANTS
  none = none
  x = x
  y = y
  Peers = {1, 2}
  Passwords <- NoPasswords
  NoPassword = none
  MaxNonce = 4
  MaxFrames = 1
  MaxAttaches = 3
  Faults = {"leave"}
  MaxFaults = 1
PROPERTY DepartedForgotten
