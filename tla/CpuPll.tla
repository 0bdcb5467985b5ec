------------------------------- MODULE CpuPll -------------------------------
(* The CPU PLL of kernel patch 0010 under the kernel's clock core: the driver  *)
(* writes a target and strobes the tune enable, and the PLL walks to the       *)
(* target one step at a time while the CPU runs from it.                       *)
EXTENDS PllRates

VARIABLES
  div,                    \* constant after boot
  tuned, cfg1,            \* TUNE_STAT shows the divider; the one in PLL_CFG1
  live, goal, busy,       \* the PLL: what it runs at and walks to, its busy bit
  tuneInt, en,            \* CRG105; the enable bit in CRG109
  pc, want, result,       \* cpu_pll_set_rate: step, fbdiv, return value
  cached                  \* the clock core's rate of the PLL

driver == <<pc, want, result>>
vars == <<div, tuned, cfg1, live, goal, busy, tuneInt, en, driver, cached>>

TypeOK ==
  /\ div \in Divs /\ {live, goal, tuneInt, want, cfg1} \subseteq 1..FbdivMax
  /\ {tuned, busy, en} \subseteq BOOLEAN
  /\ pc \in {"idle", "target", "low", "high", "poll", "recalc"}
  /\ result \in {"none", "ok", "timeout"}
  /\ cached \in Nat

(* The boot loader leaves 1.2 GHz, with the tune registers or without.         *)
Init ==
  /\ div \in Divs /\ tuned \in BOOLEAN
  /\ live = (RateMax * div) \div Parent /\ goal = live /\ busy = FALSE
  /\ cfg1 = IF tuned THEN BootCfg1 ELSE live
  /\ tuneInt = live /\ want = live /\ en \in BOOLEAN
  /\ pc = "idle" /\ result = "none"
  /\ cached = Rate(live, div)

(* cpu_pll_recalc_rate *)
Recalc == Rate(IF tuned THEN live ELSE cfg1, div)

-----------------------------------------------------------------------------
(* The clock core: cpu_pll_determine_rate rounds; a rate it believes to have   *)
(* is not set again; what set_rate returns is not looked at.                   *)

SetRate(r) ==
  LET rounded == Rate(Pick(r, div), div)
  IN /\ pc = "idle" /\ rounded # cached
     /\ want' = Pick(rounded, div) /\ pc' = "target" /\ result' = "none"
     /\ UNCHANGED <<div, tuned, cfg1, live, goal, busy, tuneInt, en, cached>>

CoreRecalcs ==
  /\ pc = "recalc" /\ pc' = "idle" /\ cached' = Recalc
  /\ UNCHANGED <<div, tuned, cfg1, live, goal, busy, tuneInt, en, want, result>>

(* cpu_pll_set_rate *)

WriteTarget ==
  /\ pc = "target" /\ pc' = "low" /\ tuneInt' = want
  /\ UNCHANGED <<div, tuned, cfg1, live, goal, busy, en, want, result, cached>>

\* Mutant: the enable bit stays as it is.
NotLowered ==
  /\ pc = "low" /\ pc' = "high"
  /\ UNCHANGED <<div, tuned, cfg1, live, goal, busy, tuneInt, en, want, result, cached>>

(* "The tune starts on the rising edge, so it has to be lowered first."        *)
LowerEnable ==
  /\ pc = "low" /\ pc' = "high" /\ en' = FALSE
  /\ UNCHANGED <<div, tuned, cfg1, live, goal, busy, tuneInt, want, result, cached>>

RaiseEnable ==
  /\ pc = "high" /\ pc' = "poll" /\ en' = TRUE
  /\ IF en THEN UNCHANGED <<goal, busy, tuned>>
           ELSE goal' = tuneInt /\ busy' = TRUE /\ tuned' = TRUE
  /\ UNCHANGED <<div, cfg1, live, tuneInt, want, result, cached>>

\* Mutant: the poll stops at the busy bit.
NotBusy == ~busy

Arrived == ~busy /\ live = want

(* readl_poll_timeout_atomic *)
Poll ==
  /\ pc = "poll" /\ pc' = "recalc"
  /\ \/ Arrived /\ result' = "ok"
     \/ ~Arrived /\ result' = "timeout"
  /\ UNCHANGED <<div, tuned, cfg1, live, goal, busy, tuneInt, en, want, cached>>

-----------------------------------------------------------------------------
(* The PLL.  Busy drops before the walk is over.                               *)

Walk ==
  /\ live # goal /\ live' = IF live < goal THEN live + 1 ELSE live - 1
  /\ UNCHANGED <<div, tuned, cfg1, goal, busy, tuneInt, en, driver, cached>>

BusyDrops ==
  /\ busy /\ busy' = FALSE
  /\ UNCHANGED <<div, tuned, cfg1, live, goal, tuneInt, en, driver, cached>>

DriverStep == WriteTarget \/ LowerEnable \/ RaiseEnable \/ Poll

Next == (\E r \in Requests : SetRate(r)) \/ DriverStep \/ CoreRecalcs \/ Walk \/ BusyDrops

Spec == Init /\ [][Next]_vars

-----------------------------------------------------------------------------
(* The cores never run above 1.2 GHz, the rate the supply voltage was chosen   *)
(* for, whatever is asked for and at every step of a walk (lines 121-129).     *)
NeverOverclocks == Rate(live, div) <= RateMax

(* Once set_rate has returned 0, the rate that the clock core reports is the   *)
(* one the cores run at and stay at, not one they pass through (lines 230-235).*)
BelievedIsReal ==
  pc = "idle" /\ result = "ok" => cached = Rate(live, div) /\ live = want /\ goal = want

(* A tune that has been started arrives, also one that set_rate has given up   *)
(* on, unless another rate is set.                                             *)
Arrives == []<>(live = want \/ pc = "target")
=============================================================================
