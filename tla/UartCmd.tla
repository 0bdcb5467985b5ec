------------------------------ MODULE UartCmd -------------------------------
(* run() of scripts/uart-cmd.py: types a command at the box's shell over the   *)
(* serial port and decides from the output alone when it has finished.  Time   *)
(* is counted in reads: each takes its timeout of half a second and returns    *)
(* what came in the meantime.                                                  *)
EXTENDS Naturals

CONSTANTS MaxReads, IdleReads   \* max_seconds and idle_seconds: 120 and 40

VARIABLES
  box,     \* what the shell is doing
  tail,    \* how the output read so far ends: "prompt" (PROMPT_TAIL), "text" or "none"
  now,     \* reads since the command was typed
  last,    \* the last of them that returned something
  exit     \* "running", or the exit code

vars == <<box, tail, now, last, exit>>

TypeOK ==
  /\ box \in {"earlier", "prompting", "running", "finished"}
  /\ tail \in {"none", "text", "prompt"} /\ exit \in {"running", "0", "2"}
  /\ now \in 0..MaxReads /\ last \in 0..now

(* The input is discarded before the command is typed.  A command that an      *)
(* earlier call gave up on may still run on the box: the shell gets to ours    *)
(* when it has finished.                                                       *)
Init ==
  /\ box \in {"earlier", "running"}
  /\ tail = "none" /\ now = 0 /\ last = 0 /\ exit = "running"

(* What the box does during one read, and how that leaves the output; kernel   *)
(* messages may come at any time.  A command's own output has no prompt in it. *)
Chunks ==
  {<<b, b, "text">> : b \in {"earlier", "running", "finished"}} \cup
  {<<"earlier", "prompting", "prompt">>, <<"earlier", "running", "text">>,
   <<"earlier", "finished", "prompt">>,
   <<"prompting", "running", "text">>, <<"prompting", "finished", "prompt">>,
   <<"running", "finished", "prompt">>, <<"running", "finished", "text">>}

(* A shell that prompts takes up the line that waits for it within a second.   *)
MaySayNothing == box = "prompting" => now = last

ReadChunk ==
  /\ exit = "running" /\ now < MaxReads
  /\ \E c \in Chunks : c[1] = box /\ box' = c[2] /\ tail' = c[3]
  /\ now' = now + 1 /\ last' = now'
  /\ UNCHANGED exit

\* Mutant: the prompt alone is enough.
Back(t) == tail = "prompt"

(* "Stop once the prompt has been back for a moment": two empty reads take     *)
(* more than the second it asks for.                                           *)
BackForAMoment(t) == tail = "prompt" /\ t - last >= 2

ReadNothing ==
  /\ exit = "running" /\ now < MaxReads
  /\ MaySayNothing
  /\ now' = now + 1
  /\ exit' = IF BackForAMoment(now') THEN "0"
               ELSE IF now' - last > IdleReads THEN "2" ELSE "running"
  /\ UNCHANGED <<box, tail, last>>

MaxTimeout ==
  /\ exit = "running" /\ now = MaxReads
  /\ exit' = "2" /\ UNCHANGED <<box, tail, now, last>>

Next == ReadChunk \/ ReadNothing \/ MaxTimeout

Spec == Init /\ [][Next]_vars

-----------------------------------------------------------------------------
(* Exit code 0 means that the command has run to its end: neither the prompt   *)
(* of an earlier command nor a pause is taken for it.                          *)
ZeroMeansFinished == exit = "0" => box = "finished"
=============================================================================
