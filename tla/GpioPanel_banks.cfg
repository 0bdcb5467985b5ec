SPECIFICATION Spec
CONSTANTS
  b0 = b0
  b1 = b1
  p0 = p0
  p1 = p1
  p2 = p2
  BadPin = BadPin
  Banks <- TwoBanks
  Pins = {p1}
  Reserved <- NoLine
  Handlers = {h1, h2}
  Requests <- TwoBanksRequests
  Failures = TRUE
PROPERTIES PulsePutsDirectionsBack DirectTakesEffect
SYMMETRY Symmetry
