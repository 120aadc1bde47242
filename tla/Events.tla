------------------------------- MODULE Events -------------------------------
(***************************************************************************)
(* Events of the MCU on their way to the program of the ARM11: the event   *)
(* register behind the I2C bus, the interrupt and the flag its handler     *)
(* sets (mcu.c), the two readers that share them, the input (hid.c) and    *)
(* the screens that wait for their power and for a copy to be shown        *)
(* (gfx.c), and the loops of the menus that wait for a key to be released  *)
(* or the shell to be opened (menu_util.c, menu.c).                        *)
(***************************************************************************)
EXTENDS Naturals, Sequences, FiniteSets

CONSTANTS MaxMoves,      \* bound on what the user does to keys and shell
          Earlier        \* events an earlier program may have left unread

ASSUME MovesAssumption == MaxMoves \in Nat
ASSUME EarlierAssumption ==
  Earlier \subseteq {"power", "lcdOn", "lightsOn", "lightsOff", "lcdOff"}

VARIABLES
  register,    \* MCU_REG_EVENTS; reading it clears it
  line,        \* an interrupt the CPU has not taken yet
  armed,       \* the pin raises interrupts and the MCU has the mask of events
  g_mcuIrq,    \* set by the interrupt handler
  getter,      \* MCU_getEvents: where it is and what it has read
  g_extraKeys, \* power, HOME and shell as the program knows them
  pc,          \* what the program is doing
  gfxOn,       \* GFX_init is done and GFX_deinit is not
  waiting,     \* the CPU is in WFI
  request,     \* the LCD commands the MCU has not answered yet, oldest first
  copy,        \* the transfer engine: none, busy, or done too early to be seen
  closed, home,      \* the shell and the HOME button of the console
  moves,
  pressed,     \* history: POWER was pressed and the program has not cleared the key
  swallowed,   \* history: events read by the one reader, meant for the other
  missed,      \* history: a race lost sight of what is in the register
  unsent,      \* history: the last LCD command did not reach the MCU
  undrained    \* history: what MCU_init failed to drop may meet a wait for the screens

program == <<g_mcuIrq, getter, g_extraKeys, pc, gfxOn, waiting>>
user == <<closed, home, moves, pressed>>
vars == <<register, line, armed, program, request, copy, user, swallowed, missed,
          unsent, undrained>>

HidEvents == {"power", "home", "homeUp", "close", "open"}
LcdEvents == {"lcdOn", "lightsOn", "lightsOff", "lcdOff"}

(* The command and then the answer GFX_init and GFX_deinit wait for. *)
Expected == [gfxPower |-> "lcdOn",     gfxLights |-> "lightsOn",
             gfxDim   |-> "lightsOff", gfxDark   |-> "lcdOff"]
Waits == DOMAIN Expected
Loops == {"sleep", "release"}

Mask == IF pc \in Waits THEN LcdEvents
        ELSE IF pc = "drain" THEN HidEvents \cup LcdEvents ELSE HidEvents

-----------------------------------------------------------------------------
(* The MCU. An event that finds the register empty pulls the line, one that *)
(* does not may leave it as it is.                                          *)
Raise(e) ==
  /\ register' = register \cup {e}
  /\ \E edge \in BOOLEAN :
       /\ register = {} => edge
       /\ line' = (line \/ (armed /\ edge))

PressPower ==
  /\ Raise("power")
  /\ pressed' = TRUE
  /\ UNCHANGED <<closed, home, swallowed>>

MoveShell ==
  /\ Raise(IF closed THEN "open" ELSE "close")
  /\ closed' = ~closed
  /\ swallowed' = swallowed \ {"open", "close"}
  /\ UNCHANGED <<home, pressed>>

MoveHome ==
  /\ Raise(IF home THEN "homeUp" ELSE "home")
  /\ home' = ~home
  /\ swallowed' = swallowed \ {"home", "homeUp"}
  /\ UNCHANGED <<closed, pressed>>

Move ==
  /\ moves < MaxMoves
  /\ moves' = moves + 1
  /\ PressPower \/ MoveShell \/ MoveHome
  /\ UNCHANGED <<armed, program, request, unsent, undrained, missed, copy>>

Answer ==
  /\ request # <<>>
  /\ Raise(Head(request))
  /\ request' = Tail(request)
  /\ UNCHANGED <<armed, program, user, swallowed, missed, unsent, undrained, copy>>

-----------------------------------------------------------------------------
(* Interrupts of the MCU and of the vertical blank end a WFI. *)
HandlerBusy ==  \* mutant: leaves the flag alone while the register is read
  /\ line
  /\ line' = FALSE
  /\ g_mcuIrq' = (g_mcuIrq \/ getter.at = "idle")
  /\ waiting' = FALSE
  /\ UNCHANGED <<register, armed, getter, g_extraKeys, pc, gfxOn, request, unsent, undrained, user,
                 swallowed, missed, copy>>

mcuIrqHandler ==
  /\ line
  /\ line' = FALSE
  /\ g_mcuIrq' = TRUE
  /\ waiting' = FALSE
  /\ UNCHANGED <<register, armed, getter, g_extraKeys, pc, gfxOn, request, unsent, undrained, user,
                 swallowed, missed, copy>>

VBlank ==
  /\ waiting
  /\ waiting' = FALSE
  /\ UNCHANGED <<register, line, armed, g_mcuIrq, getter, g_extraKeys, pc, gfxOn,
                 request, unsent, undrained, user, swallowed, missed, copy>>

-----------------------------------------------------------------------------
(* MCU_getEvents. The flag is cleared before the register is read, so that  *)
(* an event that comes later sets it again.                                 *)
Scans == pc \in Waits \cup Loops \cup {"drain", "run"}

TestFlag ==
  /\ Scans /\ ~waiting /\ getter.at = "idle"
  /\ getter' = [at |-> IF g_mcuIrq THEN "read" ELSE "store", data |-> {}]
  /\ g_mcuIrq' = FALSE
  /\ UNCHANGED <<register, line, armed, g_extraKeys, pc, gfxOn, waiting, request, unsent, undrained,
                 user, swallowed, missed, copy>>

ReadRegister ==
  /\ getter.at = "read"
  /\ getter' = [at |-> "store", data |-> register]
  /\ register' = {}
  /\ missed' = FALSE
  /\ pressed' = (pressed /\ pc # "drain")
  /\ UNCHANGED <<line, armed, g_mcuIrq, g_extraKeys, pc, gfxOn, waiting, request, unsent, undrained,
                 closed, home, moves, swallowed, copy>>

(* A failed transfer: 0 is returned with the flag cleared. In MCU_init it *)
(* leaves what an earlier program had not read.                            *)
ReadFails ==
  /\ getter.at = "read"
  /\ getter' = [at |-> "return", data |-> {}]
  /\ missed' = (missed \/ register # {})
  /\ undrained' = (undrained \/ (pc = "drain" /\ register \cap LcdEvents # {}))
  /\ UNCHANGED <<register, line, armed, g_mcuIrq, g_extraKeys, pc, gfxOn, waiting,
                 request, unsent, user, swallowed, copy>>

(* The flag is overwritten: events of the other reader set it, an interrupt *)
(* since the test or the read is forgotten. Once hid.c has read the LCD     *)
(* events away no wait can meet an old one.                                 *)
LeftOver == getter.data \ Mask
StoreFlag ==
  /\ getter.at = "store"
  /\ g_mcuIrq' = (LeftOver # {})
  /\ getter' = [at |-> "return", data |-> getter.data \cap Mask]
  /\ swallowed' = swallowed \cup LeftOver
  /\ missed' = (missed \/ (g_mcuIrq /\ LeftOver = {} /\ register # {}))
  /\ undrained' = (undrained /\ (pc \in Waits \/ request # <<>> \/ register \cap LcdEvents # {}))
  /\ UNCHANGED <<register, line, armed, g_extraKeys, pc, gfxOn, waiting, request, unsent,
                 user, copy>>

-----------------------------------------------------------------------------
(* hid.c: the state the events add up to; opened wins over closed and        *)
(* released over pressed when one read has both.                             *)
Set(events) ==
  (events \cap {"power", "home"}) \cup {"shell" : e \in events \cap {"close"}}
ClearedHome(events) ==  \* mutant: the shell key stays
  {"home" : e \in events \cap {"homeUp"}}

Cleared(events) ==
  {"home" : e \in events \cap {"homeUp"}} \cup {"shell" : e \in events \cap {"open"}}
KeysAfterSetLast(events) ==  \* mutant: closed wins over opened
  (g_extraKeys \ Cleared(events)) \cup Set(events)
KeysAfter(events) == (g_extraKeys \cup Set(events)) \ Cleared(events)
updateMcuHidState == g_extraKeys' = KeysAfter(getter.data)

Idle == [at |-> "idle", data |-> {}]

(* The loops poll once per interrupt (sleepmode) or vertical blank. *)
LoopKey == [sleep |-> "shell", release |-> "home"]
Scanned ==
  /\ getter.at = "return" /\ pc \in Loops \cup {"run"}
  /\ getter' = Idle
  /\ updateMcuHidState
  /\ IF pc \in Loops /\ LoopKey[pc] \in g_extraKeys'
     THEN pc' = pc /\ waiting' = TRUE
     ELSE pc' = "run" /\ waiting' = FALSE
  /\ UNCHANGED <<register, line, armed, g_mcuIrq, gfxOn, request, unsent, undrained, user, swallowed, missed, copy>>

Sleep ==
  /\ pc = "run" /\ getter.at = "idle" /\ gfxOn
  /\ "shell" \in g_extraKeys
  /\ pc' = "sleep" /\ waiting' = TRUE
  /\ UNCHANGED <<register, line, armed, g_mcuIrq, getter, g_extraKeys, gfxOn, request, unsent, undrained,
                 user, swallowed, missed, copy>>

AwaitRelease ==
  /\ pc = "run" /\ getter.at = "idle" /\ gfxOn
  /\ pc' = "release" /\ waiting' = TRUE
  /\ UNCHANGED <<register, line, armed, g_mcuIrq, getter, g_extraKeys, gfxOn, request, unsent, undrained,
                 user, swallowed, missed, copy>>

(* userCancelHandler: the power button was answered with "continue". *)
PowerRefused ==
  /\ pc = "run" /\ getter.at = "idle" /\ gfxOn
  /\ "power" \in g_extraKeys
  /\ g_extraKeys' = g_extraKeys \ {"power"}
  /\ pressed' = FALSE
  /\ UNCHANGED <<register, line, armed, g_mcuIrq, getter, pc, gfxOn, waiting, request, unsent, undrained,
                 closed, home, moves, swallowed, missed, copy>>

-----------------------------------------------------------------------------
(* The screens: a command to the MCU, whose result nobody looks at, then    *)
(* MCU_waitEvents for the answer.                                           *)
Command(p) ==
  /\ pc' = p
  /\ \E reached \in BOOLEAN :
       /\ unsent' = ~reached
       /\ request' = IF reached THEN Append(request, Expected[p]) ELSE request

GFX_init ==
  /\ pc = "run" /\ getter.at = "idle" /\ ~gfxOn
  /\ Command("gfxPower")
  /\ UNCHANGED <<register, line, armed, g_mcuIrq, getter, g_extraKeys, gfxOn, waiting,
                 user, swallowed, missed, undrained, copy>>

GFX_deinit ==
  /\ pc = "run" /\ getter.at = "idle" /\ gfxOn
  /\ Command("gfxDim")
  /\ UNCHANGED <<register, line, armed, g_mcuIrq, getter, g_extraKeys, gfxOn, waiting,
                 user, swallowed, missed, undrained, copy>>

NextWait == [gfxPower |-> "gfxLights", gfxDim |-> "gfxDark"]

WaitAgain ==
  /\ getter.at = "return" /\ pc \in Waits
  /\ getter.data = {}
  /\ getter' = Idle
  /\ waiting' = TRUE
  /\ UNCHANGED <<register, line, armed, g_mcuIrq, g_extraKeys, pc, gfxOn, request, unsent, undrained, user,
                 swallowed, missed, copy>>

Answered ==
  /\ getter.at = "return" /\ pc \in Waits
  /\ getter.data # {}
  /\ getter' = Idle
  /\ IF getter.data # {Expected[pc]}
     THEN pc' = "panicked" /\ UNCHANGED <<gfxOn, request, unsent>>
     ELSE IF pc \in DOMAIN NextWait
     THEN Command(NextWait[pc]) /\ UNCHANGED gfxOn
     ELSE /\ pc' = IF gfxOn THEN "ended" ELSE "run"
          /\ gfxOn' = ~gfxOn
          /\ UNCHANGED <<request, unsent>>
  /\ UNCHANGED <<register, line, armed, g_mcuIrq, g_extraKeys, waiting, user, swallowed, missed,
                 undrained, copy>>

-----------------------------------------------------------------------------
(* updateScreens: a copy is started, and GFX_waitForEvent drops what is     *)
(* known of its event before it waits for it; then for the next frame.      *)
UpdateScreens ==
  /\ pc = "run" /\ getter.at = "idle" /\ gfxOn
  /\ pc' = "discard" /\ copy' = "busy"
  /\ UNCHANGED <<register, line, armed, g_mcuIrq, getter, g_extraKeys, gfxOn, waiting, request, unsent, undrained,
                 user, swallowed, missed>>

(* The interrupt of the copy may have come before this. *)
Discard ==
  /\ pc = "discard"
  /\ pc' = "copy"
  /\ copy' \in {"busy", "lost"}
  /\ UNCHANGED <<register, line, armed, g_mcuIrq, getter, g_extraKeys, gfxOn, waiting, request, unsent, undrained,
                 user, swallowed, missed>>

(* The interrupts of the copy and of the next frame. *)
CopyShown ==
  /\ pc = "copy" /\ copy = "busy"
  /\ pc' = "run" /\ copy' = "none"
  /\ UNCHANGED <<register, line, armed, g_mcuIrq, getter, g_extraKeys, gfxOn, waiting, request, unsent, undrained,
                 user, swallowed, missed>>

-----------------------------------------------------------------------------
(* MCU_init: what an earlier program left is read and dropped before the    *)
(* pin is armed, which is of no use when the mask of events did not reach    *)
(* the MCU: nobody looks at the result. hidInit then asks for the state of   *)
(* the shell and of HOME; a failed transfer reads as open and not held.      *)
Drain ==
  /\ pc = "drain" /\ getter.at = "return"
  /\ getter' = Idle
  /\ pc' = "arm"
  /\ swallowed' = {}
  /\ UNCHANGED <<register, line, armed, g_mcuIrq, g_extraKeys, gfxOn, waiting, request, unsent, undrained,
                 user, missed, copy>>

Arm ==
  /\ pc = "arm"
  /\ armed' \in BOOLEAN
  /\ missed' = (register # {})
  /\ pc' = "sampleShell"
  /\ UNCHANGED <<register, line, g_mcuIrq, getter, g_extraKeys, gfxOn, waiting, request, unsent, undrained,
                 user, swallowed, copy>>

SampleShell ==
  /\ pc = "sampleShell"
  /\ g_extraKeys' \in {IF closed THEN {"shell"} ELSE {}, {}}
  /\ pc' = "sampleHome"
  /\ UNCHANGED <<register, line, armed, g_mcuIrq, getter, gfxOn, waiting, request, unsent, undrained, user,
                 swallowed, missed, copy>>

SampleHome ==
  /\ pc = "sampleHome"
  /\ g_extraKeys' \in {IF home THEN g_extraKeys \cup {"home"} ELSE g_extraKeys, g_extraKeys}
  /\ pc' = "run"
  /\ UNCHANGED <<register, line, armed, g_mcuIrq, getter, gfxOn, waiting, request, unsent, undrained, user,
                 swallowed, missed, copy>>

ReadAtInit == TRUE

(* The MCU has its history, the screens are as the last program left them. *)
Init ==
  /\ register \in SUBSET Earlier
  /\ line = FALSE /\ armed = FALSE
  /\ g_mcuIrq = ReadAtInit
  /\ getter = Idle
  /\ g_extraKeys = {}
  /\ pc = "drain"
  /\ gfxOn = FALSE /\ waiting = FALSE
  /\ request = <<>> /\ copy = "none"
  /\ closed \in BOOLEAN /\ home \in BOOLEAN
  /\ moves = 0
  /\ pressed = FALSE /\ swallowed = {} /\ missed = FALSE
  /\ unsent = FALSE /\ undrained = FALSE

Hid == Scanned \/ Sleep \/ AwaitRelease \/ PowerRefused
Gfx == GFX_init \/ GFX_deinit \/ WaitAgain \/ Answered
Update == Discard \/ CopyShown
Boot == Drain \/ Arm \/ SampleShell \/ SampleHome
Get == TestFlag \/ ReadRegister \/ ReadFails \/ StoreFlag

(* What the program does without being asked. *)
Go == TestFlag \/ ReadRegister \/ StoreFlag \/ Scanned \/ WaitAgain \/ Answered
        \/ Boot \/ Update

Next == Move \/ Answer \/ mcuIrqHandler \/ VBlank \/ Get \/ Hid \/ Gfx \/ Boot
          \/ UpdateScreens \/ Update

(* The CPU and the MCU go on, interrupts are taken, the screen draws frames. *)
(* Nothing makes the user act or a transfer fail.                            *)
Fairness ==
  /\ WF_vars(Answer) /\ WF_vars(mcuIrqHandler) /\ WF_vars(VBlank)
  /\ WF_vars(Go)

Spec == Init /\ [][Next]_vars /\ Fairness

-----------------------------------------------------------------------------
EventsTypeOK ==
  /\ register \subseteq HidEvents \cup LcdEvents
  /\ {line, armed, g_mcuIrq, gfxOn, waiting, closed, home, pressed, missed, unsent,
      undrained} \subseteq BOOLEAN
  /\ getter.at \in {"idle", "read", "store", "return"}
  /\ getter.data \subseteq HidEvents \cup LcdEvents
  /\ g_extraKeys \subseteq {"power", "home", "shell"}
  /\ pc \in Waits \cup Loops \cup {"drain", "arm", "sampleShell", "sampleHome", "run",
                                  "discard", "copy", "panicked", "ended"}
  /\ request \in Seq(LcdEvents)
  /\ moves \in 0..MaxMoves
  /\ swallowed \subseteq HidEvents \cup LcdEvents
  /\ copy \in {"none", "busy", "lost"}

(* An event in the register is known of: its interrupt is on the way, the    *)
(* flag is set or a read is about to take it. There are three ways to lose   *)
(* sight of it: it came before the pin was armed, its interrupt came between *)
(* the test and the last store of MCU_getEvents, which overwrites the flag   *)
(* (mcu.c:74), or the transfer failed.                                       *)
Noticed ==
  armed /\ register # {} => line \/ g_mcuIrq \/ getter.at = "read" \/ missed

Coming(e) == e \in register \cup getter.data \cup swallowed

(* The keys of hid.c are wrong only for as long as an event is on its way, or *)
(* after the wait for the screens took it (gfx.c:175, 186): the shell is never *)
(* taken for closed and HOME never for held by an order of events in one read, *)
(* and a press of POWER stays until the program takes it back.                 *)
KeysHonest ==
  armed /\ pc \notin {"drain", "arm", "sampleShell", "sampleHome"} =>
    /\ "shell" \in g_extraKeys /\ ~closed => Coming("open")
    /\ "home" \in g_extraKeys /\ ~home => Coming("homeUp")
    /\ pressed => "power" \in g_extraKeys \/ Coming("power")

(* The screens never answer with anything but what GFX_init and GFX_deinit   *)
(* wait for, whatever an earlier program left in the register, for as long   *)
(* as MCU_init could read it (mcu.c:42 ignores a failure) or hid.c has since. *)
NoScreenPanic == pc = "panicked" => undrained

(* sleepmode ends when the shell is open, the wait in the menu when HOME is  *)
(* released, the waits for the screens end whatever keys are pressed          *)
(* meanwhile, and so does updateScreens, unless something was lost: sight of  *)
(* the register, the mask or the LCD command on its way to the MCU (mcu.c:44, *)
(* mcu.h:101), or the event of a copy that was done before it was dropped.    *)
Blind == missed \/ ~armed
LoopEnds ==
  /\ \A l \in Loops :
       LET over == IF l = "sleep" THEN ~closed ELSE ~home
           event == IF l = "sleep" THEN "open" ELSE "homeUp"
       IN (pc = l /\ over /\ event \notin swallowed) ~> (pc # l \/ ~over \/ Blind)
  /\ pc \in Waits ~> (pc \notin Waits \/ Blind \/ unsent)
  /\ pc = "discard" ~> (pc = "run" \/ copy = "lost")

(* No event is overlooked but by a race that is known, and GFX_init is only *)
(* surprised by what MCU_init failed to drop.                                *)
EventsInv == EventsTypeOK /\ Noticed /\ NoScreenPanic
=============================================================================
