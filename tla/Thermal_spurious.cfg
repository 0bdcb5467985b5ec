SPECIFICATION Spec
CONSTANTS
  Callers = {"zone"}
  Codes = {806, 807, 833, 834, 1023}
INVARIANT NoSpuriousShutdown
