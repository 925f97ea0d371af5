SPECIFICATION Spec
CONSTANTS
  Devices = {d1, d2}
  MaxInputs = 4
PROPERTY LateIceHarmless
CHECK_DEADLOCK FALSE
