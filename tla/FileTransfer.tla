---------------------------- MODULE FileTransfer ----------------------------
(***************************************************************************)
(* What a TFTP read promises its clients: a client stores the blocks of    *)
(* the file one after the other, each once and in order, and the server    *)
(* reports a transfer as done only to a client that has stored them all.   *)
(***************************************************************************)
EXTENDS Naturals

CONSTANTS Clients, Blocks

VARIABLES
  stored,   \* stored[c]: the blocks 1 .. stored[c] of the file are c's
  reported  \* the clients whose transfer the server has reported as done

Init == stored = [c \in Clients |-> 0] /\ reported = {}

Store(c) ==
  /\ stored[c] < Blocks
  /\ stored' = [stored EXCEPT ![c] = @ + 1]
  /\ UNCHANGED reported

Report(c) ==
  /\ stored[c] = Blocks
  /\ reported' = reported \cup {c}
  /\ UNCHANGED stored

Next == \E c \in Clients : Store(c) \/ Report(c)

Spec == Init /\ [][Next]_<<stored, reported>>

=============================================================================
