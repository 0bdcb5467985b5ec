SPECIFICATION Spec
CONSTANTS
  b0 = b0
  b1 = b1
  p0 = p0
  p1 = p1
  p2 = p2
  BadPin = BadPin
  Banks <- OneBank
  Pins = {p0, p1, p2}
  Reserved <- FirstLine
  Handlers = {h1, h2}
  Requests <- Pulses
  Failures = FALSE
INVARIANT PulsesLeaveNoOutput
