---------------------------- MODULE MCEventBus ----------------------------
(***************************************************************************)
(* Instances of EventBus for TLC.  A put that raises Full needs a full     *)
(* queue, so queues of one or two events stand for those of 256.           *)
(***************************************************************************)
EXTENDS EventBus

CONSTANTS lirc, input, c1, c2

BothReaders == <<lirc, input>>
OneReader == <<lirc>>

\* Two readers and one browser, or one reader and two browsers: the second reader
\* does not start where the second browser connects.  It gets two events.
EitherSecond ==
  /\ pc'[input] = "start" \/ stage'[c2] = "new"
  /\ seq'[input] <= 2

EitherSpec == Init /\ [][Next /\ EitherSecond]_vars /\ PublisherFairness

=============================================================================
