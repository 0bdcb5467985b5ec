------------------------------ MODULE Thermal -------------------------------
(* hi3798_thermal_get_temp of kernel patch 0008: callers share one sensor,     *)
(* which has to be enabled and to settle before its eight samples are valid.   *)
(* One sample of the eight may be spurious.                                    *)
EXTENDS Integers

CONSTANTS
  Callers,  \* the thermal core's work queue, readers of sysfs
  Codes     \* what a good sample may be, of 0..1023

Samples == 8
SampleMax == 1023
Critical == 105   \* the zone's critical trip, which powers the board off

VARIABLES
  code,     \* constant: the board's temperature, as the sensor shows it
  enabled,  \* HI3798_TSENSOR_CTRL
  lock,     \* who holds the mutex
  step, temp \* by caller

vars == <<code, enabled, lock, step, temp>>

NoTemp == -1000   \* -EAGAIN, or nothing yet

(* C's division rounds towards zero.                                           *)
Quotient(x, d) == IF x < 0 THEN -(-x \div d) ELSE x \div d

Celsius(avg) == Quotient((avg - 125) * 165, 806) - 40
Reading(sum) ==
  LET t == Celsius(sum \div Samples) IN IF t < -40 \/ t > 150 THEN NoTemp ELSE t

TypeOK ==
  /\ code \in Codes /\ enabled \in BOOLEAN
  /\ step \in [Callers -> {"idle", "enable", "sample", "disable", "unlock"}]
  /\ lock \subseteq Callers /\ temp \in [Callers -> {NoTemp} \cup -40..150]

Init ==
  /\ code \in Codes /\ enabled = FALSE /\ lock = {}
  /\ step = [c \in Callers |-> "idle"] /\ temp = [c \in Callers |-> NoTemp]

\* Mutant: no mutex.
AlwaysFree == TRUE

Free == lock = {}

Lock(c) ==
  /\ step[c] = "idle" /\ Free /\ lock' = {c}
  /\ step' = [step EXCEPT ![c] = "enable"]
  /\ UNCHANGED <<code, enabled, temp>>

Enable(c) ==
  /\ step[c] = "enable" /\ enabled' = TRUE
  /\ step' = [step EXCEPT ![c] = "sample"]
  /\ UNCHANGED <<code, lock, temp>>

(* A sensor that is off returns anything.                                      *)
Sum == IF enabled
         THEN {(Samples - 1) * code + v : v \in {0, code, SampleMax}}
         ELSE {Samples * v : v \in {0, code, SampleMax}}

Sample(c) ==
  /\ step[c] = "sample" /\ \E s \in Sum : temp' = [temp EXCEPT ![c] = Reading(s)]
  /\ step' = [step EXCEPT ![c] = "disable"]
  /\ UNCHANGED <<code, enabled, lock>>

Disable(c) ==
  /\ step[c] = "disable" /\ enabled' = FALSE
  /\ step' = [step EXCEPT ![c] = "unlock"]
  /\ UNCHANGED <<code, lock, temp>>

Unlock(c) ==
  /\ step[c] = "unlock" /\ lock' = lock \ {c}
  /\ step' = [step EXCEPT ![c] = "idle"]
  /\ UNCHANGED <<code, enabled, temp>>

Next == \E c \in Callers : Lock(c) \/ Enable(c) \/ Sample(c) \/ Disable(c) \/ Unlock(c)

Spec == Init /\ [][Next]_vars

-----------------------------------------------------------------------------
(* The mean of the eight dilutes the one bad sample, and the mutex keeps other  *)
(* callers out: no board below 99 degrees is powered off by one reading        *)
(* (hi3798_thermal_get_temp).                                                  *)
OneSampleIsDiluted ==
  \A c \in Callers : temp[c] >= Critical => Celsius(code) >= 99

(* The comment above the limits, for which they are there: "the zone's         *)
(* critical trip powers the board off, and a single spurious sample should not *)
(* do that".                                                                   *)
NoSpuriousShutdown ==
  \A c \in Callers : temp[c] >= Critical => Celsius(code) >= Critical
=============================================================================
