SPECIFICATION FairSpec
CONSTANTS
  none = none
  x = x
  y = y
  Peers = {1, 2}
  Passwords <- TwoPasswords
  NoPassword = none
  MaxNonce = 6
  MaxFrames = 2
  MaxAttaches = 2
  Faults = {"timeout", "reject", "leave", "loss"}
  MaxFaults = 2
CHECK_DEADLOCK FALSE
INVARIANTS
  TypeOK
  PasswordGate
  AdmissionAgreement
  NoDataDropped
  NoFalseRejection
PROPERTY EverybodyMeets
