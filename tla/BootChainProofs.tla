-------------------------- MODULE BootChainProofs ---------------------------
(***************************************************************************)
(* TypeOK, DoneBootsWhole and CatchWins of BootChain, for any number of    *)
(* images and of passes of the initramfs, and wherever power fails.        *)
(*                                                                         *)
(* What the installer promises has to be kept through its steps: what it   *)
(* has already synced, written and verified (Progress), and that a finished*)
(* one stays whole until the next mkfs (Finished).  The Ctrl-C window is   *)
(* won because the banners are on their way to the tool from the moment of *)
(* switching on, and nothing older can end the hammering (Catch).          *)
(***************************************************************************)
EXTENDS BootChain, TLAPS

\* The images of the eMMC are those of the last run of the installer.
Everything == root = Whole /\ synced = Whole /\ good = 1..Images

Progress ==
  /\ installer # "none" => phase = "usb"
  /\ installer \in {"mkfs", "rsync", "sync"} => next = 1
  /\ installer = "sync" => root = Whole
  /\ installer \in {"write", "verify", "done"} => root = Whole /\ synced = Whole
  /\ installer \in {"write", "verify"} => \A i \in 1..Images : i < next => i \in good
  /\ installer = "done" => good = 1..Images

Finished == done => installer \in {"none", "mkfs"} /\ Everything

BootInv == TypeOK /\ Progress /\ Finished /\ DoneBootsWhole

\* Nothing that ends the hammering has been kept from an earlier boot.
Catch ==
  /\ ~Over(window)
  /\ catching => term
  /\ catching /\ phase \in {"rom", "fastboot", "window"}
       => unread \subseteq Banners /\ (armed \/ unread # {})
  /\ catching /\ phase = "window" /\ turned => heard

-----------------------------------------------------------------------------
\* The steps that leave the eMMC, the installer and bootcmd alone.
LEMMA EmmcUntouched ==
  ASSUME BootInv, TypeOK', UNCHANGED <<emmcVars, bootcmd>>,
         installer # "none" => phase' = phase,
         done /\ bootcmd = "emmc" => phase' # "dead",
         done /\ phase' = "emmc" => root = Whole
  PROVE  BootInv'
  BY DEF BootInv, Progress, Finished, Everything, DoneBootsWhole, emmcVars

LEMMA TurnType ==
  ASSUME TermTypeOK, Turn
  PROVE  TermTypeOK'
  BY DEF TermTypeOK, Turn, Keep

\* What the box prints is a mark, and it may be lost.
LEMMA PrintsType ==
  ASSUME TermTypeOK, NEW mark \in Marks, Prints(mark)
  PROVE  unread' \subseteq Marks
  BY DEF TermTypeOK, Prints

LEMMA StartKeeps ==
  ASSUME BootInv, Start, installer = "none"
  PROVE  BootInv'
<1>1. TypeOK'
  <2>1. unread' \subseteq Marks
    BY PrintsType DEF Start, BootInv, TypeOK, Marks, Banners
  <2>2. TermTypeOK'
    BY <2>1 DEF Start, BootInv, TypeOK, TermTypeOK
  <2>3. phase' \in Phases /\ {turned, catching, stick, ready, done}' \subseteq BOOLEAN
    BY DEF Start, BootInv, TypeOK, TermTypeOK, Phases, emmcVars
  <2>4. try' \in 0..MaxTries
    <3>1. try' = 0
      BY DEF Start
    <3> QED  BY <3>1, BootAssumption
  <2> QED  BY <2>2, <2>3, <2>4 DEF Start, BootInv, TypeOK, emmcVars
<1> QED  BY <1>1, EmmcUntouched DEF Start

LEMMA BootInit ==
  ASSUME Init
  PROVE  BootInv
<1>1. TypeOK
  <2>1. TermTypeOK
    BY DEF Init, TermInit, TermTypeOK
  <2>2. try \in 0..MaxTries /\ next \in 1..Images
    BY BootAssumption DEF Init
  <2>3. synced \in Empty..Whole /\ root \in synced..Whole
    BY DEF Init, Empty, Whole
  <2>4. phase \in Phases /\ {turned, catching, stick, ready, done} \subseteq BOOLEAN
    BY DEF Init, Phases
  <2> QED  BY <2>1, <2>2, <2>3, <2>4 DEF Init, TypeOK
<1> QED  BY <1>1 DEF Init, BootInv, Progress, Finished, DoneBootsWhole

-----------------------------------------------------------------------------
LEMMA PowerFailsKeeps ==
  ASSUME BootInv, PowerFails
  PROVE  BootInv'
<1>1. PICK kept \in synced..root : root' = kept /\ synced' = kept
  BY DEF PowerFails
<1>2. /\ synced \in Nat /\ root \in Nat /\ root <= Whole /\ Whole \in Nat
      /\ kept \in Nat /\ synced <= kept /\ kept <= root
  BY <1>1 DEF BootInv, TypeOK, Empty, Whole
<1>3. TypeOK'
  <2>1. TermTypeOK' /\ phase' \in Phases /\ {turned, catching, stick, ready, done}' \subseteq BOOLEAN
    BY DEF PowerFails, BootInv, TypeOK, TermTypeOK, Phases
  <2>2. try' \in 0..MaxTries
    BY BootAssumption DEF PowerFails
  <2>3. synced' \in Empty..Whole /\ root' \in synced'..Whole
    BY <1>1, <1>2 DEF Empty
  <2> QED  BY <2>1, <2>2, <2>3 DEF PowerFails, BootInv, TypeOK
<1>4. done => kept = Whole
  BY <1>2 DEF BootInv, Finished, Everything
<1> QED
  BY <1>1, <1>3, <1>4
     DEF PowerFails, BootInv, Progress, Finished, Everything, DoneBootsWhole

LEMMA BoxKeeps ==
  ASSUME BootInv, BoxStep \/ Enumerate \/ ToolStep \/ Person
  PROVE  BootInv'
<1> USE BootAssumption
<1>1. CASE Fastboot
  <2>1. TypeOK'
    BY <1>1 DEF Fastboot, Prints, BootInv, TypeOK, TermTypeOK, Marks, Banners, emmcVars, Phases
  <2> QED  BY <1>1, <2>1, EmmcUntouched DEF Fastboot, BootInv, Progress
<1>2. CASE OpenWindow
  <2>1. TypeOK'
    BY <1>2 DEF OpenWindow, BootInv, TypeOK, TermTypeOK, emmcVars, Phases
  <2> QED  BY <1>2, <2>1, EmmcUntouched DEF OpenWindow, BootInv, Progress
<1>3. CASE CloseWindow
  <2>1. TypeOK'
    <3>1. unread' \subseteq Marks
      <4>1. \/ Prints(Prompt) \/ Prints("Starting kernel") \/ unread' = unread
        BY <1>3 DEF CloseWindow, Load
      <4> QED  BY <4>1, PrintsType DEF BootInv, TypeOK, TermTypeOK, Marks, TooLate
    <3>2. try' \in 0..MaxTries /\ phase' \in Phases
      <4>1. phase' \in {"prompt", "initramfs", "dead"} /\ (try' = try \/ try' = 1)
        BY <1>3 DEF CloseWindow, Load
      <4>2. 1 \in 0..MaxTries
        BY BootAssumption
      <4> QED  BY <4>1, <4>2 DEF BootInv, TypeOK, Phases
    <3> QED
      BY <1>3, <3>1, <3>2 DEF CloseWindow, BootInv, TypeOK, TermTypeOK, emmcVars
  <2>2. done /\ bootcmd = "emmc" => phase' # "dead"
    BY <1>3 DEF CloseWindow, Load, Loadable, BootInv, Finished, Everything
  <2>3. phase' # "emmc" /\ installer = "none"
    BY <1>3 DEF CloseWindow, Load, BootInv, Progress
  <2> QED  BY <1>3, <2>1, <2>2, <2>3, EmmcUntouched DEF CloseWindow
<1>4. CASE Look
  <2>1. TypeOK'
    BY <1>4 DEF Look, Found, Sleep, BootInv, TypeOK, TermTypeOK, termVars, emmcVars, Phases
  <2>2. phase' # "dead" /\ installer = "none"
    BY <1>4 DEF Look, Found, BootInv, Progress
  <2>3. done => root = Whole
    BY DEF BootInv, Finished, Everything
  <2> QED  BY <1>4, <2>1, <2>2, <2>3, EmmcUntouched DEF Look
<1>5. CASE Enumerate
  <2>1. TypeOK'
    BY <1>5 DEF Enumerate, BootInv, TypeOK, TermTypeOK, termVars, emmcVars
  <2> QED  BY <1>5, <2>1, EmmcUntouched DEF Enumerate
<1>6. CASE ToolStep
  <2>1. TypeOK'
    BY <1>6, TurnType DEF ToolStep, BootInv, TypeOK, emmcVars
  <2> QED  BY <1>6, <2>1, EmmcUntouched DEF ToolStep, BootInv, DoneBootsWhole
<1>7. CASE Person
  <2>1. TypeOK'
    BY <1>7 DEF Person, Open, Quit, BootInv, TypeOK, TermTypeOK, termVars, boxVars, emmcVars
  <2>2. UNCHANGED <<phase, emmcVars, bootcmd>>
    BY <1>7 DEF Person, boxVars
  <2> QED  BY <2>1, <2>2, EmmcUntouched DEF BootInv, DoneBootsWhole
<1> QED  BY <1>1, <1>2, <1>3, <1>4, <1>5, <1>6, <1>7 DEF BoxStep

LEMMA SetBootcmdKeeps ==
  ASSUME BootInv, SetBootcmd
  PROVE  BootInv'
  BY DEF SetBootcmd, AtPrompt, BootInv, TypeOK, TermTypeOK, Progress, Finished, Everything,
         DoneBootsWhole, termVars, boxVars, emmcVars

-----------------------------------------------------------------------------
\* A step of the installer.  The box stays where it is, under the system of
\* the stick.
LEMMA InstallKeeps ==
  ASSUME BootInv, Install
  PROVE  BootInv'
<1>0. /\ synced \in Nat /\ root \in Nat /\ synced <= root /\ root <= 3
      /\ next \in Nat /\ 1 <= next /\ next <= Images /\ Images \in Nat
  BY BootAssumption DEF BootInv, TypeOK, Empty, Whole
<1> USE BootAssumption, <1>0
    DEF Step, TypeOK, Progress, Finished, Everything, DoneBootsWhole, Empty, Whole
<1>1. CASE Checks
  BY <1>1 DEF Checks, BootInv, TermTypeOK, termVars, boxVars
<1>2. CASE Mkfs
  <2>1. synced' \in 0..3 /\ root' \in synced'..3
    BY <1>2 DEF Mkfs
  <2> QED  BY <1>2, <2>1 DEF Mkfs, BootInv, TermTypeOK, termVars, boxVars
<1>3. CASE Copy
  BY <1>3 DEF Copy, BootInv, TermTypeOK, termVars, boxVars
<1>4. CASE Sync
  <2>1. root = 3 /\ synced' = 3 /\ root' = 3
    BY <1>4 DEF Sync, Written, BootInv
  <2>2. synced' \in 0..3 /\ root' \in synced'..3
    BY <2>1
  <2>3. /\ installer = "sync" /\ installer' = "write"
        /\ UNCHANGED <<termVars, boxVars, bootcmd, stick, good, next, done>>
    BY <1>4 DEF Sync
  <2>4. TypeOK'
    BY <2>2, <2>3 DEF BootInv, TermTypeOK, termVars, boxVars
  <2> QED  BY <2>1, <2>3, <2>4 DEF BootInv, boxVars
<1>5. CASE Write
  BY <1>5 DEF Write, BootInv, TermTypeOK, termVars, boxVars
<1>6. CASE Verify
  <2>0. UNCHANGED <<root, synced, done, termVars, boxVars, bootcmd, stick>> /\ installer = "verify"
    BY <1>6 DEF Verify
  <2>1. CASE installer' = "none" /\ UNCHANGED <<good, next>>
    BY <2>0, <2>1 DEF BootInv, TermTypeOK, termVars, boxVars
  <2>2. CASE good' = good \cup {next} /\ next < Images /\ installer' = "write" /\ next' = next + 1
    <3>1. \A i \in 1..Images : i < next' => i \in good'
      BY <2>0, <2>2 DEF BootInv
    <3> QED  BY <2>0, <2>2, <3>1 DEF BootInv, TermTypeOK, termVars, boxVars
  <2>3. CASE good' = good \cup {next} /\ ~(next < Images) /\ installer' = "done" /\ UNCHANGED next
    <3>1. \A i \in 1..Images : i \in good'
      <4>1. \A i \in 1..Images : i < next \/ i = next
        BY <2>3
      <4> QED  BY <2>0, <2>3, <4>1 DEF BootInv
    <3>2. good' \subseteq 1..Images
      BY <2>3 DEF BootInv
    <3>3. good' = 1..Images
      BY <3>1, <3>2
    <3> QED  BY <2>0, <2>3, <3>3 DEF BootInv, TermTypeOK, termVars, boxVars
  <2> QED  BY <1>6, <2>1, <2>2, <2>3 DEF Verify, More
<1>7. CASE Finish
  BY <1>7 DEF Finish, BootInv, TermTypeOK, termVars, boxVars
<1>8. CASE Fails
  BY <1>8 DEF Fails, BootInv, TermTypeOK, termVars, boxVars
<1> QED  BY <1>1, <1>2, <1>3, <1>4, <1>5, <1>6, <1>7, <1>8 DEF Install

LEMMA BootStep ==
  ASSUME BootInv, [Next]_vars
  PROVE  BootInv'
<1>1. CASE UNCHANGED vars
  BY <1>1 DEF vars, termVars, boxVars, emmcVars, BootInv, TypeOK, TermTypeOK, Progress,
              Finished, Everything, DoneBootsWhole
<1>2. CASE PowerOn \/ Reset
  <2>1. installer = "none"
    BY <1>2 DEF PowerOn, Reset, AtPrompt, BootInv, Progress
  <2> QED  BY <1>2, <2>1, StartKeeps DEF PowerOn, Reset
<1> QED
  BY <1>1, <1>2, PowerFailsKeeps, BoxKeeps, SetBootcmdKeeps, InstallKeeps DEF Next

-----------------------------------------------------------------------------
LEMMA Invariance == Spec => []BootInv
<1>1. BootInv /\ [Next]_vars => BootInv'
  BY BootStep
<1> QED  BY <1>1, BootInit, PTL DEF Spec

\* The variables have their types.
THEOREM TypeCorrect == Spec => []TypeOK
<1>1. BootInv => TypeOK
  BY DEF BootInv
<1> QED  BY <1>1, Invariance, PTL

\* What install-to-emmc.sh has reported as installed boots, and as a whole,
\* wherever power failed before, during or after (set -e, sync, cmp).
THEOREM InstalledBootsWhole == Spec => []DoneBootsWhole
<1>1. BootInv => DoneBootsWhole
  BY DEF BootInv
<1> QED  BY <1>1, Invariance, PTL

-----------------------------------------------------------------------------
\* The tool, with a banner to read or hammering already, hears nothing that
\* would end it: after its turn a Ctrl-C waits in the box's input.
LEMMA TurnCatches ==
  ASSUME TermTypeOK, Turn, ~Over(window)
  PROVE  /\ ~Over(window')
         /\ unread \subseteq Banners /\ (armed \/ unread # {})
              => armed' = TRUE /\ heard' = TRUE
<1> USE DEF Over, Seen, TooLate, Prompt, Banners
<1>1. CASE unread = {}
  BY <1>1 DEF Turn, TermTypeOK
<1>2. CASE unread # {}
  <2>1. /\ armed' = ((armed \/ (~armed /\ Seen(Banners, window \cup unread))) /\ ~Over(window \cup unread))
        /\ heard' = (heard \/ (~armed /\ Seen(Banners, window \cup unread)) \/ armed')
        /\ window' = Keep(window \cup unread)
    BY <1>2 DEF Turn
  <2>2. ~Over(window')
    BY <2>1 DEF Keep
  <2>3. ASSUME unread \subseteq Banners PROVE Seen(Banners, window \cup unread) /\ ~Over(window \cup unread)
    BY <1>2, <2>3
  <2>4. ASSUME unread \subseteq Banners PROVE armed' = TRUE /\ heard' = TRUE
    BY <2>1, <2>3, <2>4 DEF TermTypeOK
  <2> QED  BY <2>2, <2>4
<1> QED  BY <1>1, <1>2

LEMMA CatchInit ==
  ASSUME Init
  PROVE  Catch
  BY DEF Init, TermInit, Catch, Over, Seen

LEMMA CatchStep ==
  ASSUME TypeOK, Catch, [Next]_vars
  PROVE  Catch'
<1> USE DEF Catch
<1>1. CASE UNCHANGED <<termVars, boxVars>>
  BY <1>1 DEF termVars, boxVars, Over, Seen
<1>2. CASE PowerOn \/ Reset
  <2>1. term => unread = {}
    BY <1>2 DEF PowerOn, Reset, AtPrompt
  <2>2. Start
    BY <1>2 DEF PowerOn, Reset
  <2>3. /\ UNCHANGED <<term, window>> /\ catching' = term /\ phase' = "rom"
        /\ term => unread' = {"Bootrom start"}
    BY <2>1, <2>2 DEF Start, Prints
  <2> QED  BY <2>3 DEF Over, Seen, Banners
<1>3. CASE PowerFails
  BY <1>3 DEF PowerFails, Over, Seen
<1>4. CASE Fastboot
  <2>1. term => unread' = unread \cup {"Fastboot 3.3.0"}
    BY <1>4 DEF Fastboot, Prints
  <2> QED  BY <1>4, <2>1 DEF Fastboot, Over, Seen, Banners
<1>5. CASE OpenWindow
  BY <1>5 DEF OpenWindow, Over, Seen
<1>6. CASE CloseWindow
  <2>1. phase' \in {"prompt", "initramfs", "dead"} /\ UNCHANGED <<term, window, catching>>
    BY <1>6 DEF CloseWindow, Load
  <2> QED  BY <2>1 DEF Over, Seen
<1>7. CASE Look
  <2>1. phase' \in {"usb", "emmc", "shell", "initramfs"} /\ UNCHANGED <<term, window, catching>>
    BY <1>7 DEF Look, Found, termVars
  <2> QED  BY <2>1 DEF Over, Seen
<1>8. CASE Enumerate
  BY <1>8 DEF Enumerate, termVars, Over, Seen
<1>9. CASE ToolStep
  <2>1. Turn /\ TermTypeOK
    BY <1>9 DEF ToolStep, TypeOK
  <2>2. UNCHANGED <<phase, catching, term>> /\ unread' = {}
    BY <1>9, <2>1 DEF ToolStep, Turn
  <2> QED  BY <2>1, <2>2, TurnCatches
<1>10. CASE Person
  <2>1. CASE Open /\ UNCHANGED <<boxVars, emmcVars, bootcmd, stick>>
    BY <2>1 DEF Open, boxVars, Over, Seen
  <2>2. CASE Quit /\ catching' = FALSE
    BY <2>2 DEF Quit, Over, Seen
  <2> QED  BY <1>1, <1>10, <2>1, <2>2 DEF Person
<1>11. CASE SetBootcmd \/ Install \/ UNCHANGED vars
  BY <1>1, <1>11
     DEF SetBootcmd, Install, Checks, Mkfs, Copy, Sync, Write, Verify, Finish, Fails, Step, vars
<1> QED
  BY <1>2, <1>3, <1>4, <1>5, <1>6, <1>7, <1>8, <1>9, <1>10, <1>11 DEF Next, BoxStep

\* A box that is switched on while the tool watches leaves the Ctrl-C window
\* at the prompt, whatever was read in earlier boots and is kept of it.
THEOREM TheWindowIsCaught == Spec => CatchWins
<1>1. Catch /\ [Next]_vars
        => (catching /\ catching' /\ phase = "window" => phase' \in {"window", "prompt"})
  <2> SUFFICES ASSUME Catch, [Next]_vars, catching, catching', phase = "window"
               PROVE  phase' \in {"window", "prompt"}
    OBVIOUS
  <2>1. CASE CloseWindow
    BY <2>1 DEF CloseWindow, Catch
  <2>2. CASE UNCHANGED phase
    BY <2>2
  <2>3. CASE PowerFails
    BY <2>3 DEF PowerFails
  <2>4. Person \/ Install \/ Enumerate \/ ToolStep \/ SetBootcmd \/ UNCHANGED vars => UNCHANGED phase
    BY DEF Person, Install, Checks, Mkfs, Copy, Sync, Write, Verify, Finish, Fails, Step,
           Enumerate, ToolStep, SetBootcmd, vars, boxVars
  <2>5. ~(PowerOn \/ Reset \/ Fastboot \/ OpenWindow \/ Look)
    BY DEF PowerOn, Reset, AtPrompt, Fastboot, OpenWindow, Look
  <2> QED  BY <2>1, <2>2, <2>3, <2>4, <2>5 DEF Next, BoxStep
<1>2. TypeOK /\ Catch /\ [Next]_vars => Catch'
  BY CatchStep
<1> QED  BY <1>1, <1>2, CatchInit, TypeCorrect, PTL DEF Spec, CatchWins

=============================================================================
