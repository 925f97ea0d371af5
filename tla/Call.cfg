SPECIFICATION Spec
CONSTANTS
  Devices = {d1, d2}
  MaxInputs = 5
SYMMETRY Symmetry
INVARIANTS MediaOnlyOnActive OneDeviceRemains
CHECK_DEADLOCK FALSE
