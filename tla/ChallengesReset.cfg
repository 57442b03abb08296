SPECIFICATION Spec
CONSTANTS
  Requests = {r1, r2}
  Devices = {d1}
  Credentials = {c1}
  MaxDevices = 1
  First = First
  None = None
SYMMETRY Symmetry
PROPERTIES RegistrationResetsNonce
CHECK_DEADLOCK FALSE
