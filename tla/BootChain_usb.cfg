SPECIFICATION Spec
CONSTANTS
  MaxTries = 3
  Images = 3
INVARIANTS UsbBootcmdRunsUsb
