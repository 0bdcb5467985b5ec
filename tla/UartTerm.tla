------------------------------ MODULE UartTerm ------------------------------
(* scripts/uart-term.py --catch: the terminal that stops the boot loader by    *)
(* hammering Ctrl-C at it.  Of the text that passes through the port only the  *)
(* marks the tool looks for are kept: unread and window are sets of marks.     *)
(* The box at the other end of the cable is BootChain.                         *)

VARIABLES
  term,     \* the tool runs and holds the port
  unread,   \* marks the box has printed that the tool has not read
  window,   \* marks in the last 4096 bytes the tool has read
  armed,    \* the tool is hammering
  heard     \* a Ctrl-C waits in the box's input

termVars == <<term, unread, window, armed, heard>>

Banners == {"Bootrom start", "Fastboot 3.3.0"}
Prompt == "fastboot#"
TooLate == {"Starting kernel"}    \* mainline U-Boot prints this, not "Uncompressing"
Marks == Banners \cup {Prompt} \cup TooLate

TermTypeOK ==
  /\ term \in BOOLEAN /\ armed \in BOOLEAN /\ heard \in BOOLEAN
  /\ unread \subseteq Marks /\ window \subseteq Marks

TermInit ==
  /\ term = FALSE /\ armed = FALSE /\ heard = FALSE
  /\ unread = {} /\ window = {}

(* Opening the port discards what is waiting in it. *)
Open ==
  /\ ~term /\ term' = TRUE
  /\ unread' = {} /\ window' = {} /\ armed' = FALSE
  /\ UNCHANGED heard

(* Some mark of the set has been read. *)
Seen(marks, text) == marks \cap text # {}

\* Mutant: only "too late" ends the hammering.
OverPromptIgnored(text) == Seen(TooLate, text)

(* The hammering ends at the prompt, or when it is too late for one, and the   *)
(* text that ended it must not end the next one.                               *)
Over(text) == Seen(TooLate \cup {Prompt}, text)

\* Mutant: the window is not emptied.
KeepAll(text) == text

Keep(text) == IF Over(text) THEN {} ELSE text

(* One turn of the loop, at most 20 ms after the one before: read what is      *)
(* there, arm at a banner, disarm at the prompt, hammer.                       *)
Turn ==
  LET text == window \cup unread
      arms == ~armed /\ Seen(Banners, text)
  IN /\ term
     /\ unread' = {}
     /\ IF unread = {}
          THEN UNCHANGED <<window, armed>> /\ heard' = (heard \/ armed)
          ELSE /\ armed' = ((armed \/ arms) /\ ~Over(text))
               /\ window' = Keep(text)
               /\ heard' = (heard \/ arms \/ armed')
     /\ UNCHANGED term

(* Ctrl-] *)
Quit == term /\ term' = FALSE /\ UNCHANGED <<unread, window, armed, heard>>
=============================================================================
