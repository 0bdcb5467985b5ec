---------------------------- MODULE CpuPllProofs ----------------------------
(* The CPU PLL for every parent rate, every pair of limits of which the upper  *)
(* is a multiple of the parent rate, every divider the boot loader may leave   *)
(* and every rate that is asked for.                                           *)
(*                                                                             *)
(* NeverOverclocks speaks of where the PLL is.  It is an invariant because no  *)
(* register the PLL may walk to ever holds more than the divider of RateMax    *)
(* (Bounded); BelievedIsReal, because of what each step of the tune sequence   *)
(* has established (Tuned).                                                    *)
EXTENDS CpuPll, TLAPS

(* The divider that makes RateMax, without a rest.                             *)
Top(d) == (RateMax * d) \div Parent

Bounded == {live, goal, tuneInt, want} \subseteq 1..Top(div)

Tuned ==
  /\ pc \in {"target", "low", "high", "poll"} => result = "none"
  /\ pc \in {"low", "high"} => tuneInt = want
  /\ pc = "high" => ~en
  /\ pc \in {"poll", "recalc"} => goal = want /\ tuned
  /\ pc = "recalc" /\ result = "ok" => live = want

IInv == TypeOK /\ Bounded /\ Tuned /\ BelievedIsReal

-----------------------------------------------------------------------------
(* Arithmetic.                                                                 *)

LEMMA FieldType == FbdivMax \in Nat /\ FbdivMax >= 1
  BY DEF FbdivMax

LEMMA DivIsNat ==
  ASSUME NEW x \in Nat, NEW d \in Nat \ {0}
  PROVE  x \div d \in Nat
  OBVIOUS

LEMMA DivBound ==
  ASSUME NEW x \in Nat, NEW d \in Nat \ {0}, NEW q \in Nat, x < q * d + d
  PROVE  x \div d <= q
  OBVIOUS

(* Rounding to the closest multiple does not go past a multiple above.         *)
LEMMA RoundBound ==
  ASSUME NEW x \in Nat, NEW d \in Nat \ {0}, NEW q \in Nat, x <= q * d
  PROVE  RoundClosest(x, d) \in 0..q
<1>1. d \div 2 \in Nat /\ d \div 2 < d
  OBVIOUS
<1>2. q * d \in Nat
  OBVIOUS
<1>3. x + d \div 2 \in Nat /\ x + d \div 2 < q * d + d
  BY <1>1, <1>2
<1> QED  BY <1>3, DivIsNat, DivBound DEF RoundClosest

LEMMA TimesMonotone ==
  ASSUME NEW m \in Nat, NEW a \in Nat, NEW b \in Nat, a <= b
  PROVE  m * a <= m * b /\ m * a \in Nat
  OBVIOUS

LEMMA TimesCommutes ==
  ASSUME NEW a \in Nat, NEW b \in Nat
  PROVE  a * b = b * a
  OBVIOUS

LEMMA TopBound ==
  ASSUME NEW d \in Divs
  PROVE  /\ Top(d) \in 1..FbdivMax
         /\ Parent * Top(d) = RateMax * d
<1> DEFINE k == RateMax \div Parent
<1>1. k \in Nat /\ k >= 1 /\ RateMax = k * Parent
  BY RatesAssumption
<1>2. d \in Nat /\ d >= 1 /\ RateMax * d = (k * d) * Parent /\ k * d \in Nat /\ k * d >= 1
  BY <1>1, DivsAssumption, RatesAssumption
<1>3. Top(d) = k * d
  BY <1>2, RatesAssumption DEF Top
<1>4. Top(d) <= FbdivMax
  BY DivsAssumption DEF Top
<1> HIDE DEF k
<1>5. Top(d) \in 1..FbdivMax
  BY <1>2, <1>3, <1>4, FieldType
<1>6. Parent * (k * d) = (k * d) * Parent
  BY <1>1, <1>2, RatesAssumption
<1> QED  BY <1>2, <1>3, <1>5, <1>6

(* cpu_pll_pick never chooses a divider above that of the upper bound.         *)
LEMMA PickBound ==
  ASSUME NEW r \in Nat, NEW d \in Divs
  PROVE  Pick(r, d) \in 1..Top(d)
<1> DEFINE c == Clamp(r, RateMin, RateMax)
<1>1. c \in Nat /\ c <= RateMax /\ d \in Nat /\ Parent \in Nat \ {0}
  BY RatesAssumption, DivsAssumption DEF Clamp
<1> HIDE DEF c
<1>2. c * d \in Nat /\ c * d <= RateMax * d
  BY <1>1, RatesAssumption
<1>3. Top(d) \in Nat /\ Top(d) \in 1..FbdivMax /\ c * d <= Top(d) * Parent
  <2>1. Top(d) \in 1..FbdivMax /\ Parent * Top(d) = RateMax * d
    BY TopBound
  <2>2. Top(d) \in Nat
    BY <2>1, FieldType
  <2>3. Top(d) * Parent = Parent * Top(d)
    BY <1>1, <2>2, TimesCommutes
  <2> QED  BY <1>2, <2>1, <2>2, <2>3
<1>4. RoundClosest(c * d, Parent) \in 0..Top(d)
  BY <1>1, <1>2, <1>3, RoundBound
<1>5. Pick(r, d) = Clamp(RoundClosest(c * d, Parent), 1, FbdivMax)
  BY DEF Pick, c
<1> QED  BY <1>3, <1>4, <1>5, FieldType DEF Clamp

(* A divider up to that of the upper bound makes a rate up to it.              *)
LEMMA RateBound ==
  ASSUME NEW d \in Divs, NEW f \in 1..Top(d)
  PROVE  Rate(f, d) \in 0..RateMax
<1>1. /\ Top(d) \in 1..FbdivMax /\ Parent * Top(d) = RateMax * d
      /\ Parent \in Nat \ {0} /\ RateMax \in Nat /\ d \in Nat \ {0}
  BY TopBound, RatesAssumption, DivsAssumption
<1>2. f \in Nat /\ f <= Top(d) /\ Top(d) \in Nat
  BY <1>1, FieldType
<1>3. Parent * f \in Nat /\ Parent * f <= RateMax * d
  <2>1. Parent * f <= Parent * Top(d) /\ Parent * f \in Nat
    BY <1>1, <1>2, TimesMonotone
  <2> QED  BY <1>1, <2>1
<1> QED  BY <1>1, <1>3, RoundBound DEF Rate

LEMMA RateIsNat ==
  ASSUME NEW d \in Divs, NEW f \in Nat
  PROVE  Rate(f, d) \in Nat
<1>1. d \in Nat \ {0} /\ Parent * f + d \div 2 \in Nat
  BY DivsAssumption, RatesAssumption
<1> QED  BY <1>1, DivIsNat DEF Rate, RoundClosest

-----------------------------------------------------------------------------
(* The inductive invariant: one step per action, for each of its parts.        *)

LEMMA RecalcIsNat ==
  ASSUME TypeOK
  PROVE  Recalc \in Nat
<1>1. live \in Nat /\ cfg1 \in Nat /\ div \in Divs
  BY FieldType DEF TypeOK
<1> QED  BY <1>1, RateIsNat DEF Recalc

LEMMA InitIInv == Init => IInv
<1> SUFFICES ASSUME Init PROVE IInv
  OBVIOUS
<1>1. div \in Divs /\ live = Top(div) /\ goal = Top(div) /\ tuneInt = Top(div) /\ want = Top(div)
  BY DEF Init, Top
<1>2. Top(div) \in Nat /\ Top(div) \in 1..FbdivMax
  BY <1>1, TopBound, FieldType
<1>3. Bounded
  BY <1>1, <1>2 DEF Bounded
<1>4. TypeOK
  BY <1>1, <1>2, RateIsNat, RegistersAssumption DEF Init, TypeOK
<1> QED  BY <1>3, <1>4 DEF Init, IInv, Tuned, BelievedIsReal

(* What is asked for is rounded, twice, to a divider within the bounds.        *)
LEMMA WantBounded ==
  ASSUME TypeOK, NEW r \in Requests
  PROVE  Pick(Rate(Pick(r, div), div), div) \in 1..Top(div)
<1>1. div \in Divs /\ r \in Nat
  BY RegistersAssumption DEF TypeOK
<1>2. Pick(r, div) \in 1..Top(div) /\ Top(div) \in Nat
  BY <1>1, PickBound, TopBound, FieldType
<1>3. Rate(Pick(r, div), div) \in Nat
  BY <1>1, <1>2, RateIsNat
<1> QED  BY <1>1, <1>3, PickBound

LEMMA BoundedStep ==
  ASSUME TypeOK, Bounded, [Next]_vars
  PROVE  TypeOK' /\ Bounded'
<1> USE DEF TypeOK, Bounded
<1>0. Top(div) \in Nat /\ Top(div) <= FbdivMax
  BY TopBound, FieldType
<1>1. CASE UNCHANGED vars
  BY <1>1 DEF vars, driver
<1>2. ASSUME NEW r \in Requests, SetRate(r) PROVE TypeOK' /\ Bounded'
  <2>1. want' \in 1..Top(div)
    BY <1>2, WantBounded DEF SetRate
  <2> QED  BY <1>0, <1>2, <2>1, FieldType DEF SetRate
<1>3. CASE WriteTarget
  BY <1>3 DEF WriteTarget
<1>4. CASE LowerEnable
  BY <1>4 DEF LowerEnable
<1>5. CASE RaiseEnable
  BY <1>5 DEF RaiseEnable
<1>6. CASE Poll
  BY <1>6 DEF Poll
<1>7. CASE CoreRecalcs
  BY <1>7, RecalcIsNat DEF CoreRecalcs
<1>8. CASE Walk
  <2>1. live' \in 1..Top(div)
    BY <1>0, <1>8 DEF Walk
  <2> QED  BY <1>0, <1>8, <2>1, FieldType DEF Walk, driver
<1>9. CASE BusyDrops
  BY <1>9 DEF BusyDrops, driver
<1> QED
  BY <1>1, <1>2, <1>3, <1>4, <1>5, <1>6, <1>7, <1>8, <1>9 DEF Next, DriverStep

LEMMA TunedStep ==
  ASSUME TypeOK, Tuned, BelievedIsReal, [Next]_vars
  PROVE  Tuned' /\ BelievedIsReal'
<1> USE DEF Tuned, BelievedIsReal
<1>1. CASE UNCHANGED vars
  BY <1>1 DEF vars, driver
<1>2. ASSUME NEW r \in Requests, SetRate(r) PROVE Tuned' /\ BelievedIsReal'
  BY <1>2 DEF SetRate
<1>3. CASE WriteTarget
  BY <1>3 DEF WriteTarget
<1>4. CASE LowerEnable
  BY <1>4 DEF LowerEnable
<1>5. CASE RaiseEnable
  BY <1>5 DEF RaiseEnable
<1>6. CASE Poll
  BY <1>6 DEF Poll, Arrived
<1>7. CASE CoreRecalcs
  BY <1>7 DEF CoreRecalcs, Recalc
<1>8. CASE Walk
  BY <1>8 DEF Walk, driver
<1>9. CASE BusyDrops
  BY <1>9 DEF BusyDrops, driver
<1> QED
  BY <1>1, <1>2, <1>3, <1>4, <1>5, <1>6, <1>7, <1>8, <1>9 DEF Next, DriverStep

LEMMA IInvStep == IInv /\ [Next]_vars => IInv'
  BY BoundedStep, TunedStep DEF IInv

LEMMA Invariance == Spec => []IInv
  BY InitIInv, IInvStep, PTL DEF Spec

(* The variables have their types.                                             *)
THEOREM TypeCorrect == Spec => []TypeOK
<1>1. IInv => TypeOK
  BY DEF IInv
<1> QED  BY <1>1, Invariance, PTL

(* The cores never run above the upper bound, whatever rates are asked for, in *)
(* whatever order and however far the PLL is on its way.                       *)
THEOREM CoresStayInBounds == Spec => []NeverOverclocks
<1>1. IInv => NeverOverclocks
  <2> SUFFICES ASSUME IInv PROVE NeverOverclocks
    OBVIOUS
  <2>1. div \in Divs /\ live \in 1..Top(div)
    BY DEF IInv, TypeOK, Bounded
  <2>2. Rate(live, div) \in 0..RateMax
    BY <2>1, RateBound
  <2> QED  BY <2>2, RatesAssumption DEF NeverOverclocks
<1> QED  BY <1>1, Invariance, PTL

(* After a set_rate that returned 0 the reported rate is the real one.         *)
THEOREM ReportedRateIsReal == Spec => []BelievedIsReal
<1>1. IInv => BelievedIsReal
  BY DEF IInv
<1> QED  BY <1>1, Invariance, PTL

=============================================================================
