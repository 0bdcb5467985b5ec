----------------------------- MODULE BootChain ------------------------------
(* The box from power-on to a running root file system: the vendor boot loader *)
(* with its Ctrl-C window, the initramfs that mk-initramfs.sh builds, and      *)
(* install-to-emmc.sh, which copies the system that runs from the USB stick to *)
(* the eMMC.  Power may fail between any two steps.  uart-term.py watches the  *)
(* serial port (UartTerm).                                                     *)
EXTENDS Naturals, UartTerm

CONSTANTS
  MaxTries,  \* passes of the initramfs over the devices: 30 in the script
  Images     \* images install-to-emmc.sh writes, in this order: 1..3

ASSUME BootAssumption == MaxTries \in Nat \ {0} /\ Images \in Nat \ {0}

VARIABLES
  phase,     \* what the box is doing
  turned,    \* the tool has had a turn since the Ctrl-C window opened
  catching,  \* the tool has been running since the box was switched on
  bootcmd,   \* in the boot loader's environment: "usb", "emmc", or "quoted",
             \* which is "emmc" in double quotes
  stick,     \* the stick is plugged in
  ready,     \* the kernel has enumerated it
  try,       \* pass of the initramfs
  root,      \* how much of a root file system the eMMC shows
  synced,    \* how much of it would survive a power failure
  good,      \* which images are whole on the eMMC
  installer, \* step of install-to-emmc.sh, or "none"
  next,      \* the image it writes
  done       \* its last run that wrote anything has reported success

boxVars  == <<phase, turned, catching, ready, try>>
emmcVars == <<root, synced, good, installer, next, done>>
vars == <<termVars, boxVars, emmcVars, bootcmd, stick>>

Phases == {"off", "rom", "fastboot", "window", "prompt", "dead",
           "initramfs", "shell", "usb", "emmc"}

(* The eMMC's root: nothing the initramfs would take, a part without           *)
(* /sbin/init, a part with it, all of it.                                      *)
Empty == 0    HasInit == 2    Whole == 3

TypeOK ==
  /\ TermTypeOK
  /\ phase \in Phases /\ bootcmd \in {"usb", "emmc", "quoted"}
  /\ {turned, catching, stick, ready, done} \subseteq BOOLEAN
  /\ try \in 0..MaxTries
  /\ synced \in Empty..Whole /\ root \in synced..Whole
  /\ good \subseteq 1..Images /\ next \in 1..Images
  /\ installer \in {"none", "mkfs", "rsync", "sync", "write", "verify", "done"}

Init ==
  /\ TermInit
  /\ phase = "off" /\ turned = FALSE /\ catching = FALSE /\ ready = FALSE /\ try = 0
  /\ bootcmd = "usb" /\ stick \in BOOLEAN
  /\ root = Empty /\ synced = Empty /\ good = {}
  /\ installer = "none" /\ next = 1 /\ done = FALSE

-----------------------------------------------------------------------------
(* The box, up to the kernel.  What it prints is lost when nobody listens.     *)

Prints(mark) == unread' = IF term THEN unread \cup {mark} ELSE unread

(* Cold start or reset; the tool has been there from the banner on or has not. *)
Start ==
  /\ phase' = "rom" /\ Prints("Bootrom start")
  /\ catching' = term
  /\ turned' = FALSE /\ heard' = FALSE /\ ready' = FALSE /\ try' = 0
  /\ UNCHANGED <<term, window, armed, emmcVars, bootcmd, stick>>

(* A hand at the plug is slower than a turn of the tool.                       *)
PowerOn == phase = "off" /\ (term => unread = {}) /\ Start

Fastboot ==
  /\ phase = "rom" /\ phase' = "fastboot"
  /\ Prints("Fastboot 3.3.0")
  /\ UNCHANGED <<term, window, armed, heard, turned, catching, ready, try, emmcVars, bootcmd, stick>>

(* The boot loader drains its input and then looks for Ctrl-C.                 *)
OpenWindow ==
  /\ phase = "fastboot" /\ phase' = "window"
  /\ heard' = FALSE /\ turned' = FALSE
  /\ UNCHANGED <<term, unread, window, armed, catching, ready, try, emmcVars, bootcmd, stick>>

(* The images are where bootcmd looks for them.  In double quotes its first    *)
(* command, which reads the kernel, is unknown to the boot loader.             *)
Loadable ==
  \/ bootcmd = "usb" /\ stick
  \/ bootcmd = "emmc" /\ good = 1..Images

Load ==
  IF Loadable
    THEN phase' = "initramfs" /\ try' = 1 /\ Prints("Starting kernel")
    ELSE phase' = "dead" /\ UNCHANGED <<unread, try>>

(* bootdelay=3 leaves room for many turns of the tool.                         *)
CloseWindow ==
  /\ phase = "window" /\ (term => turned)
  /\ IF heard THEN phase' = "prompt" /\ Prints(Prompt) /\ UNCHANGED try ELSE Load
  /\ UNCHANGED <<term, window, armed, heard, turned, catching, ready, emmcVars, bootcmd, stick>>

(* At the prompt a person resets the box, or sets bootcmd: to read the eMMC    *)
(* once install-to-emmc.sh has said how, or back to what it was.  The script   *)
(* prints the value in double quotes and then says not to type them.           *)
AtPrompt == phase = "prompt" /\ term /\ unread = {} /\ ~armed

Reset == AtPrompt /\ Start

SetBootcmd ==
  /\ AtPrompt
  /\ \/ bootcmd' = "usb"
     \/ done /\ bootcmd' \in {"emmc", "quoted"}
  /\ UNCHANGED <<termVars, boxVars, emmcVars, stick>>

(* What has been written but not synced is kept in part.                       *)
PowerFails ==
  /\ phase # "off" /\ phase' = "off"
  /\ \E kept \in synced..root : root' = kept /\ synced' = kept
  /\ installer' = "none"
  /\ turned' = FALSE /\ catching' = FALSE /\ heard' = FALSE /\ ready' = FALSE /\ try' = 0
  /\ UNCHANGED <<term, unread, window, armed, good, next, done, bootcmd, stick>>

-----------------------------------------------------------------------------
(* The initramfs.  The eMMC is there at once; the stick takes its time.        *)

Enumerate ==
  /\ phase = "initramfs" /\ stick /\ ~ready /\ ready' = TRUE
  /\ UNCHANGED <<termVars, phase, turned, catching, try, emmcVars, bootcmd, stick>>

\* Mutant: the loop waits without counting.
SleepUncounted(n) == n

Sleep(n) == n + 1

(* The root of this pass, in the order of the loop: /dev/sd?, /dev/mmcblk0p*.  *)
Found == IF ready THEN "usb" ELSE IF root >= HasInit THEN "emmc" ELSE "none"

(* One pass.  The mount for writing that follows may fail.                     *)
Look ==
  /\ phase = "initramfs"
  /\ IF Found # "none"
       THEN phase' \in {Found, "shell"} /\ UNCHANGED try
       ELSE IF try = MaxTries
         THEN phase' = "shell" /\ UNCHANGED try
         ELSE UNCHANGED phase /\ try' = Sleep(try)
  /\ UNCHANGED <<termVars, turned, catching, ready, emmcVars, bootcmd, stick>>

-----------------------------------------------------------------------------
(* install-to-emmc.sh.  set -e: any failure ends it.                           *)

Step(from, to) ==
  /\ installer = from /\ installer' = to
  /\ UNCHANGED <<termVars, boxVars, bootcmd, stick>>

(* Root on the eMMC: refused.                                                  *)
Checks ==
  /\ phase = "usb"
  /\ Step("none", "mkfs") /\ next' = 1 /\ UNCHANGED <<root, synced, good, done>>

Mkfs ==
  /\ Step("mkfs", "rsync")
  /\ root' = Empty /\ synced' = Empty /\ done' = FALSE /\ UNCHANGED <<good, next>>

(* rsync, with fstab and the removal of growroot as its last part.             *)
Copy ==
  /\ root < Whole /\ root' = root + 1
  /\ Step("rsync", IF root' = Whole THEN "sync" ELSE "rsync")
  /\ UNCHANGED <<synced, good, next, done>>

\* Mutant: the installer does not sync.
NotWritten(r) == synced

Written(r) == r

(* sync; umount                                                                *)
Sync ==
  /\ Step("sync", "write")
  /\ synced' = Written(root) /\ UNCHANGED <<root, good, next, done>>

(* dd conv=fsync over whatever the partition held                              *)
Write ==
  /\ Step("write", "verify")
  /\ good' = good \ {next} /\ UNCHANGED <<root, synced, next, done>>

\* Mutant: off by one.
OneMore(n) == n <= Images

More(n) == n < Images

(* cmp: only what reads back as written counts, the rest is fatal.             *)
Verify ==
  /\ \/ Step("verify", "none") /\ UNCHANGED <<good, next>>
     \/ /\ good' = good \cup {next}
        /\ IF More(next)
             THEN Step("verify", "write") /\ next' = next + 1
             ELSE Step("verify", "done") /\ UNCHANGED next
  /\ UNCHANGED <<root, synced, done>>

Finish == Step("done", "none") /\ done' = TRUE /\ UNCHANGED <<root, synced, good, next>>

Fails ==
  /\ \E at \in {"mkfs", "rsync", "sync", "write"} : Step(at, "none")
  /\ UNCHANGED <<root, synced, good, next, done>>

-----------------------------------------------------------------------------
(* The person: opens and closes the tool, plugs and pulls the stick.           *)

ToolStep ==
  /\ Turn
  /\ turned' = (turned \/ phase = "window")
  /\ UNCHANGED <<phase, catching, ready, try, emmcVars, bootcmd, stick>>

Person ==
  \/ /\ Open /\ UNCHANGED <<boxVars, emmcVars, bootcmd, stick>>
  \/ /\ Quit /\ catching' = FALSE
     /\ UNCHANGED <<phase, turned, ready, try, emmcVars, bootcmd, stick>>
  \/ /\ phase = "off" /\ stick' = ~stick
     /\ UNCHANGED <<termVars, boxVars, emmcVars, bootcmd>>

BoxStep == Fastboot \/ OpenWindow \/ CloseWindow \/ Look
Install == Checks \/ Mkfs \/ Copy \/ Sync \/ Write \/ Verify \/ Finish \/ Fails

Next ==
  \/ PowerOn \/ PowerFails \/ Reset \/ SetBootcmd
  \/ BoxStep \/ Enumerate \/ Install
  \/ ToolStep \/ Person

(* The box and the tool go on; nobody need switch on, type or install, and the *)
(* stick may never enumerate.                                                  *)
Spec == Init /\ [][Next]_vars /\ WF_vars(BoxStep) /\ WF_vars(ToolStep)

-----------------------------------------------------------------------------
(* A box that is switched on while the tool watches leaves the Ctrl-C window   *)
(* at the prompt and nowhere else (unless power fails): the tool hammers after *)
(* the box has drained its input and before the window closes, whatever it     *)
(* read in the boots before (docs/uart-access.md, lines 113-121).              *)
CatchWins ==
  [][catching /\ catching' /\ phase = "window" => phase' \in {"window", "prompt"}]_vars

(* The hammering ends where it would be in the way: at the prompt and in the   *)
(* running system, if the tool is left open.                                   *)
HammeringEnds ==
  armed /\ phase \in {"prompt", "usb", "emmc", "shell"}
    ~> ~armed \/ phase \in {"off", "rom"} \/ ~term

(* Once install-to-emmc.sh has reported success, and until it runs again, a    *)
(* box whose bootcmd, unquoted, reads the eMMC finds its images, and a box     *)
(* that takes the eMMC's root has the whole of it, wherever power failed.      *)
DoneBootsWhole ==
  /\ done /\ bootcmd = "emmc" => phase # "dead"
  /\ done /\ phase = "emmc" => root = Whole

(* The initramfs comes to an end: a root file system or a shell, also if no    *)
(* root ever appears ("a board that hangs with no prompt tells you nothing",   *)
(* mk-initramfs.sh, lines 8-9).                                                *)
BootSettles == phase = "initramfs" ~> phase \in {"usb", "emmc", "shell", "off"}

(* What install-to-emmc.sh says when it is done (lines 122-123) and how it says*)
(* to go back (lines 18-19): the box runs from the eMMC's root only once       *)
(* bootcmd reads the eMMC.                                                     *)
UsbBootcmdRunsUsb == done /\ bootcmd = "usb" => phase # "emmc"
=============================================================================
