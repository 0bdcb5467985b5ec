------------------------------ MODULE MCParts -------------------------------
(* An instance of BoxParts for TLC.                                            *)
EXTENDS BoxParts

(* Remote control: bytes of one bit, and a limit that a frame fits in but two  *)
(* messages without a gap do not.                                              *)
Standard(address, command) ==
  [kind |-> "frame", address |-> <<address>>, second |-> <<1 - address>>, command |-> <<command>>]
Extended(low, high, command) ==
  [kind |-> "frame", address |-> <<low>>, second |-> <<high>>, command |-> <<command>>]
SomeMessages == {Repeat, Standard(0, 1), Extended(0, 0, 1)}
Speeds == {70, 130}

(* Scancodes of two bits: two have the same key, one another and one none.     *)
CONSTANTS k1, k2
SomeKeymap == [s \in 0..3 |-> CASE s \in {0, 2} -> k1 [] s = 1 -> k2 [] s = 3 -> NoKey]

(* Rates below and above the limits and one between two steps.  A divider of 1 *)
(* keeps the walks short.                                                      *)
SomeRates == {100000, 600000, 700000, 1400000}

(* The ends of the scale, 40 degrees, and both sides of 99 and 105 degrees.    *)
SomeCodes == {0, 124, 125, 516, 806, 807, 833, 834, 1023}

(* All images of up to five cells with headers of two and trees of three.      *)
SomeImages == UNION {[1..n -> {-1, 0, 3, 4, 5, 6}] : n \in 0..5}
SomeContainers == UNION {[1..n -> {"fdt", "junk", "cut"}] : n \in 0..3}

(* Requests of either file; two loads under way can overtake each other.       *)
SomePayloads == {[trigger |-> "none", brightness |-> 1], [trigger |-> "heartbeat", brightness |-> 0]}

-----------------------------------------------------------------------------
(* Where the parts that are not chosen stay.                                   *)
Parked ==
  /\ part = "pll"  \/ (div = 1 /\ tuned = TRUE /\ en = TRUE)
  /\ part = "heat" \/ code = 516
  /\ part = "uart" \/ box = "running"
  /\ part = "dtb"  \/ (kind = "raw" /\ image = <<>>)
  /\ part = "led"  \/ led = [trigger |-> "none", brightness |-> 0]

MCInit == part \in PartNames /\ Parked /\ PartsInit
MCSpec == MCInit /\ [][PartsNext]_allVars /\ Fairness
=============================================================================
