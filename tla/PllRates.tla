------------------------------ MODULE PllRates ------------------------------
(* The arithmetic of the CPU PLL (kernel patch 0010), in kHz: the kernel's is  *)
(* in Hz and in 64 bits, with the same quotients for rates of whole kHz.       *)
EXTENDS Integers

CONSTANTS
  Parent, RateMin, RateMax,  \* 24000, 400000 and 1200000
  Divs,      \* postdiv1 * postdiv2 * refdiv, as the boot loader may leave it
  BootCfg1,  \* the divider it leaves in PLL_CFG1 if it has tuned the PLL
  Requests   \* rates that cpufreq asks for

FbdivMax == 4095

(* The upper bound is a rate the PLL can have exactly, whatever its divider.   *)
ASSUME RatesAssumption ==
  /\ Parent \in Nat \ {0} /\ RateMin \in Nat \ {0} /\ RateMax \in Nat
  /\ RateMin <= RateMax /\ RateMax % Parent = 0
(* The boot loader leaves the PLL at the upper bound, in a field of 12 bits.    *)
ASSUME DivsAssumption ==
  /\ Divs \subseteq Nat \ {0}
  /\ \A d \in Divs : (RateMax * d) \div Parent <= FbdivMax
ASSUME RegistersAssumption == BootCfg1 \in 1..FbdivMax /\ Requests \subseteq Nat

RoundClosest(x, d) == (x + d \div 2) \div d
Clamp(x, lo, hi) == IF x < lo THEN lo ELSE IF x > hi THEN hi ELSE x

Rate(fbdiv, div) == RoundClosest(Parent * fbdiv, div)

\* Mutant: the rate is not clamped, only the divider.
PickUnclamped(rate, div) ==
  Clamp(RoundClosest(rate * div, Parent), 1, FbdivMax)

(* cpu_pll_pick: the feedback divider of a requested rate                      *)
Pick(rate, div) ==
  Clamp(RoundClosest(Clamp(rate, RateMin, RateMax) * div, Parent), 1, FbdivMax)
=============================================================================
