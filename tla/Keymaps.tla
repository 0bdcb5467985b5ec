------------------------------ MODULE Keymaps -------------------------------
(* What InputReader needs to know of scancodes, keys and the input device.     *)
EXTENDS Integers

CONSTANTS
  ScanSize,    \* how many values a scancode and an event's value have (2^32)
  Keymap,      \* the key of a scancode, or NoKey (RC_MAP_EMPTY has no keys)
  NoKey,
  None,        \* Python's None
  BufferSize   \* what the device's buffer holds

Scancodes == 0 .. ScanSize - 1
Keys == {Keymap[s] : s \in DOMAIN Keymap} \ {NoKey}

ASSUME ScanAssumption == ScanSize \in Nat \ {0}
ASSUME KeymapAssumption ==
  /\ DOMAIN Keymap = Scancodes /\ NoKey # None
  /\ None \notin Scancodes \cup Keys
  /\ None \notin [scancode : Scancodes, keycode : Keys \cup {None}, pressed : BOOLEAN \cup {None}]
ASSUME BufferAssumption == BufferSize \in Nat /\ BufferSize >= 2
=============================================================================
