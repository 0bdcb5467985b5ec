---------------------------- MODULE MCGpioPanel ----------------------------
(***************************************************************************)
(* Instances of GpioPanel for TLC.  Two requests at a time are enough for  *)
(* one to make the other's copy of GPIODIR stale; two banks or three pins  *)
(* for a line or bank that only one of them names.                         *)
(***************************************************************************)
EXTENDS GpioPanel, FiniteSets, TLC

CONSTANTS b0, b1, p0, p1, p2

Pulse(b, p) ==
  [kind |-> "pulse", bank |-> b, pin |-> p, direction |-> "none", level |-> "none"]
Direct(b, p, d, l) ==
  [kind |-> "direct", bank |-> b, pin |-> p, direction |-> d, level |-> l]
RestoreAll ==
  [kind |-> "restore", bank |-> b0, pin |-> p1, direction |-> "none", level |-> "none"]

\* Those that make each other's copies of GPIODIR stale, refused ones, and the
\* restore.
RacingRequests ==
  {Pulse(b0, p) : p \in {p0, p1, BadPin}} \cup {Direct(b0, p2, "in", "bad"), RestoreAll}

\* Two banks, so that one request need not disturb another.
TwoBanksRequests ==
  {Pulse(b0, p1), Direct(b0, p1, "out", "1"), Direct(b0, p1, "in", "none"),
   Direct(b0, p1, "out", "nan"), Pulse(b1, p1)}

Pulses == {Pulse(b0, p1), Pulse(b0, p2)}
PulseAndRestore == {Direct(b0, p1, "out", "none"), RestoreAll}

NoLine == {}
FirstLine == {<<b0, p0>>}
OneBank == {b0}
TwoBanks == {b0, b1}

Symmetry == Permutations(Handlers)

=============================================================================
