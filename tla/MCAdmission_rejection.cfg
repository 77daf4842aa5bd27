SPECIFICATION Spec
CONSTANTS
  none = none
  x = x
  y = y
  Peers = {1, 2}
  Passwords <- OnePassword
  NoPassword = none
  MaxNonce = 4
  MaxFrames = 1
  MaxAttaches = 3
  Faults = {"timeout"}
  MaxFaults = 2
INVARIANT RejectionMeansWrongPassword
