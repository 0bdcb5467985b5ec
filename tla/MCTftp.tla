------------------------------- MODULE MCTftp -------------------------------
(***************************************************************************)
(* An instance of Tftp for TLC.  The block numbers wrap at 2, 3 or 4       *)
(* instead of 65536, and a block is sent three times instead of five.      *)
(***************************************************************************)
EXTENDS Tftp

CONSTANTS c1, c2

\* One client on networks that lose: with reordering, numbers that do not wrap,
\* without, some that wrap at once.
Lossy(r, m) ==
  [reorder |-> r, reliable |-> FALSE, strays |-> FALSE, modulus |-> m,
   clients |-> {c1}, transfers |-> 2]

\* The same where strangers send, too.
Strange(r) ==
  [reorder |-> r, reliable |-> FALSE, strays |-> TRUE, modulus |-> 4,
   clients |-> {c1}, transfers |-> 1]

\* Two clients, each of which may ask twice, on networks that do not.
Reliable(m) ==
  [reorder |-> FALSE, reliable |-> TRUE, strays |-> FALSE, modulus |-> m,
   clients |-> {c1, c2}, transfers |-> 4]

SomeNetworks == {Lossy(TRUE, 4), Lossy(FALSE, 2), Strange(FALSE), Reliable(2), Reliable(3)}

=============================================================================
