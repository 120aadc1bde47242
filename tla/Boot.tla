-------------------------------- MODULE Boot --------------------------------
(***************************************************************************)
(* The boot flow of the ARM11 (main.c) with the boot slot it keeps in the  *)
(* MCU (bootslot.c), the menu entries that end it (menu_func.c, menu.c),   *)
(* and the firmware the ARM9 has in its buffer: which firmware is launched *)
(* with which screens, what the stored slot says of it, and when the menu  *)
(* is shown.                                                               *)
(***************************************************************************)
EXTENDS Naturals

CONSTANTS
  N_BOOTSLOTS,
  Firms,          \* the firmware files
  ScreenInit,     \* those that want the screens as they are
  Combos,         \* what can be held of the buttons; "none" is no button
  MaxChanges      \* bound on what the user changes, presses and chooses

\* A slot number is a byte, and INVALID_BOOT_SLOT, 255, is none.
ASSUME BootAssumption ==
  /\ N_BOOTSLOTS \in 1..254 /\ MaxChanges \in Nat
  /\ ScreenInit \subseteq Firms /\ "none" \in Combos

Slots == 1..N_BOOTSLOTS
NoFirm == "none"
AutoKeys == "auto"

VARIABLES
  env,         \* how the console came here: a cold boot, NATIVE_FIRM or another firmware
  slots,       \* slot -> [firm, keys] of the configuration, keys is AutoKeys without a combo
  bootmode, ramBoot,
  broken,      \* the firmware files that cannot be loaded or verified now
  register,    \* BOOTSLOT_STORE_REG of the MCU
  stored_slot, \* its copy in memory
  buffer,      \* what FIRM_LOAD_ADDR holds: [firm, ok]
  home, power, pad,       \* HOME, POWER and the buttons of the console
  powerSeen,   \* hidScanInput has seen POWER
  pc,
  kHeld,       \* the buttons held at the start
  startFirmLaunch, show_menu, nextBootSlot, menu_ret, firm_err, err_string,
  screens,     \* off, or the format of the framebuffers
  next,        \* the slot the search tries next
  changes,
  launched,    \* history: what the buffer was loaded from, [firm, slot]
  menuShown, homeAtStart,  \* history
  coldSlot     \* history: the slot of the firmware the last cold boot launched

config == <<slots, bootmode, ramBoot>>
input == <<home, power, pad, broken, changes>>
locals == <<kHeld, startFirmLaunch, show_menu, nextBootSlot, menu_ret, firm_err, err_string, next>>
slotStore == <<register, stored_slot>>
history == <<launched, menuShown, homeAtStart, coldSlot>>
vars == <<env, config, input, slotStore, buffer, powerSeen, pc, locals, screens, history>>

Envs == {"cold", "native", "other"}
Cold == env = "cold"
Stops == {"off", "rebooted", "firm", "codeEnd"}

-----------------------------------------------------------------------------
(* The user: HOME and the buttons go up and down, POWER is pressed, cards  *)
(* come and go.                                                            *)
User ==
  /\ pc \notin Stops
  /\ changes < MaxChanges
  /\ changes' = changes + 1
  /\ \/ home' = ~home /\ UNCHANGED <<power, pad, broken>>
     \/ power' = TRUE /\ UNCHANGED <<home, pad, broken>>
     \/ pad' \in Combos \ {pad} /\ UNCHANGED <<home, power, broken>>
     \/ broken' \in SUBSET Firms \ {broken} /\ UNCHANGED <<home, power, pad>>
  /\ UNCHANGED <<env, config, slotStore, buffer, powerSeen, pc, locals, screens, history>>

(* hidScanInput: POWER stays once seen, until a NAND tool forgets it; HOME  *)
(* and the buttons are used at once.                                        *)
hidScanInput == powerSeen' = (powerSeen \/ power)

-----------------------------------------------------------------------------
(* The ARM9 loads and verifies a file. A file that fails may have           *)
(* overwritten the buffer.                                                  *)
Loads(f) == f \notin broken
Loaded(f) == IF Loads(f) THEN [firm |-> f, ok |-> TRUE] ELSE [firm |-> NoFirm, ok |-> FALSE]
ErrorOf(f) == IF ~Loads(f) THEN "failed" ELSE IF f \in ScreenInit THEN "init" ELSE "ok"

loadVerifyFirm(f, slot) ==
  /\ buffer' = Loaded(f)
  /\ launched' = IF Loads(f) THEN [firm |-> f, slot |-> slot] ELSE launched

(* bootslot.c. A failed transfer is not noticed. *)
storeBootslotUnlessNone(slot) ==   \* mutant: no slot is not stored
  IF ~Cold \/ slot = stored_slot \/ slot = 0 THEN UNCHANGED slotStore
  ELSE stored_slot' = slot /\ register' = slot
storeBootslot(slot) ==
  IF ~Cold \/ slot = stored_slot THEN UNCHANGED slotStore
  ELSE stored_slot' = slot /\ register' = slot

readStoredBootslotBelow ==   \* mutant: the last slot is beyond the limit
  IF Cold THEN 0 ELSE IF register >= N_BOOTSLOTS THEN 0 ELSE register
readStoredBootslot ==
  IF Cold THEN 0 ELSE IF register > N_BOOTSLOTS THEN 0 ELSE register

HasFirm(s) == slots[s].firm # NoFirm
IsAutoboot(s) == HasFirm(s) /\ slots[s].keys = AutoKeys

RemainingAfter(n) == {s \in Slots : s > n /\ IsAutoboot(s)}   \* mutant: starts one too far
Remaining(n) == {s \in Slots : s >= n /\ IsAutoboot(s)}

First(S) == CHOOSE s \in S : \A o \in S : s <= o

ScreensUp == screens' = IF screens = "off" THEN "RGB565" ELSE screens
Goto(p) == pc' = p

-----------------------------------------------------------------------------
(* From the start to the splash screen. *)
ShowsMenuByMode(slot) == slot = 0 /\ bootmode = "normal"   \* mutant: HOME is not looked at
ShowsMenu(slot) == (slot = 0 /\ bootmode = "normal") \/ home

Start ==
  /\ pc = "start"
  /\ hidScanInput /\ kHeld' = pad
  /\ homeAtStart' = home
  /\ nextBootSlot' = readStoredBootslot
  /\ stored_slot' = IF Cold THEN stored_slot ELSE readStoredBootslot
  /\ show_menu' = ShowsMenu(nextBootSlot')
  /\ IF show_menu' \/ (nextBootSlot' = 0 /\ bootmode # "quiet")
     THEN /\ ScreensUp
          /\ \/ Goto("splash") /\ UNCHANGED err_string
             \/ Goto("combo") /\ err_string' \in {err_string, TRUE}    \* no splash, told or not
     ELSE Goto("combo") /\ UNCHANGED <<screens, err_string>>
  /\ UNCHANGED <<env, config, input, register, buffer, startFirmLaunch, menu_ret, firm_err,
                 next, launched, menuShown, coldSlot>>

(* One frame of the splash, or its end. *)
Splash ==
  /\ pc = "splash"
  /\ hidScanInput
  /\ show_menu' = (show_menu \/ home)
  /\ \/ Goto("splash") /\ UNCHANGED kHeld
     \/ Goto("combo") /\ kHeld' = IF pad = "none" THEN kHeld ELSE pad
  /\ UNCHANGED <<env, config, input, slotStore, buffer, startFirmLaunch, nextBootSlot,
                 menu_ret, firm_err, err_string, next, screens, history>>

(* Buttons held: the first slot with that combination is loaded. *)
Matching == {s \in Slots : HasFirm(s) /\ slots[s].keys = kHeld}
Combo ==
  /\ pc = "combo"
  /\ Goto("ram")
  /\ IF ~err_string /\ kHeld # "none" /\ Matching # {}
     THEN LET s == First(Matching)
              f == slots[s].firm
          IN /\ loadVerifyFirm(f, s)
             /\ firm_err' = ErrorOf(f)
             /\ startFirmLaunch' = Loads(f)
             /\ err_string' = ~Loads(f)
             /\ IF Loads(f) THEN storeBootslot(s) ELSE UNCHANGED slotStore
     ELSE UNCHANGED <<buffer, launched, firm_err, startFirmLaunch, err_string, slotStore>>
  /\ UNCHANGED <<env, config, input, powerSeen, kHeld, show_menu, nextBootSlot, menu_ret, next, screens,
                 menuShown, homeAtStart, coldSlot>>

(* A firmware that NATIVE_FIRM left in FCRAM, there or not. *)
RamFirm ==
  /\ pc = "ram"
  /\ Goto("loop")
  /\ IF ~startFirmLaunch /\ ramBoot /\ env = "native"
     THEN \/ \E f \in Firms :
               /\ loadVerifyFirm(f, 0)
               /\ firm_err' = ErrorOf(f)
               /\ startFirmLaunch' = Loads(f)
          \/ firm_err' = "failed" /\ UNCHANGED <<buffer, launched, startFirmLaunch>>
     ELSE UNCHANGED <<buffer, launched, firm_err, startFirmLaunch>>
  /\ UNCHANGED <<env, config, input, slotStore, powerSeen, kHeld, show_menu, nextBootSlot, menu_ret,
                 err_string, next, screens, menuShown, homeAtStart, coldSlot>>

-----------------------------------------------------------------------------
(* The main loop: an error is shown until a key is pressed, then the menu;  *)
(* without either the boot slots are searched.                              *)
Loop ==
  /\ pc = "loop"
  /\ IF startFirmLaunch THEN Goto("end") /\ UNCHANGED screens
     ELSE IF err_string THEN ScreensUp /\ Goto("error")
     ELSE IF show_menu THEN ScreensUp /\ Goto("menu")
     ELSE Goto("search") /\ UNCHANGED screens
  /\ menuShown' = (menuShown \/ pc' = "menu")
  /\ next' = 1
  /\ menu_ret' = IF pc' = "menu" THEN "ok" ELSE menu_ret
  /\ UNCHANGED <<env, config, input, slotStore, buffer, powerSeen, kHeld, startFirmLaunch, show_menu,
                 nextBootSlot, firm_err, err_string, launched, homeAtStart, coldSlot>>

(* outputEndWait ends with B, HOME or POWER. *)
ShowError ==
  /\ pc = "error"
  /\ hidScanInput
  /\ show_menu' = TRUE /\ err_string' = FALSE
  /\ menuShown' = (menuShown \/ ~powerSeen')
  /\ IF powerSeen' THEN Goto("end") /\ UNCHANGED menu_ret
     ELSE Goto("menu") /\ menu_ret' = "ok"
  /\ UNCHANGED <<env, config, input, slotStore, buffer, kHeld, startFirmLaunch, nextBootSlot,
                 firm_err, next, screens, launched, homeAtStart, coldSlot>>

-----------------------------------------------------------------------------
(* The entries of the menu. Afterwards menuProcess waits until HOME is      *)
(* released, and ends when POWER was pressed or the entry says so.          *)
Chosen ==
  /\ pc = "menu"
  /\ changes < MaxChanges
  /\ changes' = changes + 1
  /\ UNCHANGED <<home, pad, broken>>

EntryEnds(ret) ==
  /\ ~home
  /\ hidScanInput
  /\ menu_ret' = ret
  /\ IF ret = "ok" /\ ~powerSeen' THEN Goto("menu") ELSE Goto("menuEnd")

Launch(f, s) ==
  /\ Chosen
  /\ loadVerifyFirm(f, s)
  /\ IF Loads(f)
     THEN storeBootslot(s) /\ EntryEnds(IF ErrorOf(f) = "init" THEN "loadedInit" ELSE "loaded")
     ELSE UNCHANGED slotStore /\ EntryEnds("ok")
  /\ UNCHANGED config
menuLaunchFirm ==
  \/ \E f \in Firms : Launch(f, 0)
  \/ \E s \in Slots : HasFirm(s) /\ Launch(slots[s].firm, s)
  \/ /\ \E s \in Slots : ~HasFirm(s)
     /\ Chosen /\ EntryEnds("ok")
     /\ UNCHANGED <<config, slotStore, buffer, launched>>

(* The file of a slot, or the slot emptied; its buttons; the modes. *)
menuSetupBootSlot(s) ==
  /\ \E f \in Firms \cup {NoFirm} :
       slots' = [slots EXCEPT ![s] = [firm |-> f, keys |-> IF f = NoFirm THEN AutoKeys ELSE @.keys]]
  /\ UNCHANGED <<bootmode, ramBoot>>
menuSetupBootKeys(s) ==
  /\ HasFirm(s)
  /\ \E k \in {AutoKeys} \cup (Combos \ {"none"}) : slots' = [slots EXCEPT ![s] = [@ EXCEPT !.keys = k]]
  /\ UNCHANGED <<bootmode, ramBoot>>
menuSetBootMode == bootmode' \in {"normal", "quick", "quiet"} /\ UNCHANGED <<slots, ramBoot>>
menuSwitchFcramBoot == ramBoot' = ~ramBoot /\ UNCHANGED <<slots, bootmode>>

Setup ==
  /\ Chosen /\ EntryEnds("ok")
  /\ \/ menuSetBootMode \/ menuSwitchFcramBoot
     \/ \E s \in Slots : menuSetupBootSlot(s) \/ menuSetupBootKeys(s)
  /\ UNCHANGED <<slotStore, buffer, launched>>

(* Updates and installed firmware go through the same buffer. *)
Flash ==
  /\ Chosen
  /\ \E f \in Firms : loadVerifyFirm(f, 0)
  /\ EntryEnds("ok") \/ (buffer'.ok /\ EntryEnds("reboot"))
  /\ UNCHANGED <<config, slotStore>>

Continue == Chosen /\ EntryEnds("continue") /\ UNCHANGED <<config, slotStore, buffer, launched>>

(* A NAND tool: userCancelHandler clears POWER when the tool is not to end.  *)
NandTool ==
  /\ Chosen
  /\ \/ EntryEnds("ok") /\ UNCHANGED power
     \/ ~home /\ power' = FALSE /\ powerSeen' = FALSE /\ menu_ret' = "ok" /\ Goto("menu")
  /\ UNCHANGED <<config, slotStore, buffer, launched>>

MenuEntry ==
  /\ \/ (menuLaunchFirm \/ Setup \/ Flash \/ Continue) /\ UNCHANGED power
     \/ NandTool
  /\ UNCHANGED <<env, kHeld, startFirmLaunch, show_menu, nextBootSlot, firm_err, err_string, next,
                 screens, menuShown, homeAtStart, coldSlot>>

MenuPower ==
  /\ pc = "menu" /\ power
  /\ hidScanInput
  /\ Goto("menuEnd")
  /\ UNCHANGED <<env, config, input, slotStore, buffer, locals, screens, history>>

MenuEndKeepsErr ==   \* mutant: the result of the last load stays
  /\ pc = "menuEnd"
  /\ IF powerSeen \/ menu_ret = "reboot"
     THEN Goto("end") /\ UNCHANGED <<startFirmLaunch, firm_err>>
     ELSE IF menu_ret \in {"loaded", "loadedInit"}
     THEN /\ Goto("loop")
          /\ startFirmLaunch' = TRUE
          /\ UNCHANGED firm_err
     ELSE Goto("search") /\ UNCHANGED <<startFirmLaunch, firm_err>>
  /\ UNCHANGED <<env, config, input, slotStore, buffer, powerSeen, kHeld, show_menu, nextBootSlot,
                 menu_ret, err_string, next, screens, history>>

MenuEnd ==
  /\ pc = "menuEnd"
  /\ IF powerSeen \/ menu_ret = "reboot"
     THEN Goto("end") /\ UNCHANGED <<startFirmLaunch, firm_err>>
     ELSE IF menu_ret \in {"loaded", "loadedInit"}
     THEN /\ Goto("loop")
          /\ startFirmLaunch' = TRUE
          /\ firm_err' = IF menu_ret = "loadedInit" THEN "init" ELSE "ok"
     ELSE Goto("search") /\ UNCHANGED <<startFirmLaunch, firm_err>>
  /\ UNCHANGED <<env, config, input, slotStore, buffer, powerSeen, kHeld, show_menu, nextBootSlot,
                 menu_ret, err_string, next, screens, history>>

-----------------------------------------------------------------------------
(* The search: every autoboot slot in their order, or the slot of the last  *)
(* boot alone. Then the last chance for HOME, or an error.                  *)
NotFound ==
  /\ Goto("loop")
  /\ err_string' = TRUE
  /\ UNCHANGED <<slotStore, buffer, launched, firm_err, startFirmLaunch, next>>

Try(s) ==
  LET f == slots[s].firm
  IN /\ loadVerifyFirm(f, s)
     /\ firm_err' = ErrorOf(f)
     /\ startFirmLaunch' = Loads(f)
     /\ IF Loads(f) /\ nextBootSlot = 0 THEN storeBootslot(s) ELSE UNCHANGED slotStore
     /\ IF Loads(f) THEN Goto("chance") /\ UNCHANGED <<err_string, next>>
        ELSE IF nextBootSlot = 0
        THEN Goto("search") /\ next' = s + 1 /\ UNCHANGED err_string
        ELSE Goto("loop") /\ err_string' = TRUE /\ UNCHANGED next

Search ==
  /\ pc = "search"
  /\ IF nextBootSlot # 0
     THEN IF HasFirm(nextBootSlot) THEN Try(nextBootSlot) ELSE NotFound
     ELSE IF Remaining(next) = {} THEN NotFound ELSE Try(First(Remaining(next)))
  /\ UNCHANGED <<env, config, input, powerSeen, kHeld, show_menu, nextBootSlot, menu_ret, screens,
                 menuShown, homeAtStart, coldSlot>>

LastChance ==
  /\ pc = "chance"
  /\ hidScanInput
  /\ show_menu' = (show_menu \/ home)
  /\ startFirmLaunch' = ~home
  /\ Goto("loop")
  /\ UNCHANGED <<env, config, input, slotStore, buffer, kHeld, nextBootSlot, menu_ret, firm_err,
                 err_string, next, screens, history>>

-----------------------------------------------------------------------------
(* menu_end: the configuration, the screens, the file systems, and then off, *)
(* a reboot or the firmware.                                                 *)
FormatFor == IF firm_err = "init" THEN "BGR8" ELSE "off"
PowersOff == powerSeen
Reboots == menu_ret = "reboot"

End ==
  /\ pc = "end"
  /\ IF PowersOff \/ Reboots
     THEN /\ storeBootslot(0)
          /\ screens' = IF screens = "off" THEN "off" ELSE FormatFor
          /\ Goto(IF PowersOff THEN "off" ELSE "rebooted")
          /\ coldSlot' = IF Cold THEN 0 ELSE coldSlot
     ELSE /\ UNCHANGED slotStore
          /\ screens' = FormatFor
          /\ Goto(IF startFirmLaunch THEN "firm" ELSE "codeEnd")
          /\ coldSlot' = IF Cold THEN launched.slot ELSE coldSlot
  /\ UNCHANGED <<env, slots, bootmode, ramBoot, input, buffer, powerSeen, locals, launched,
                 menuShown, homeAtStart>>

(* A reboot, or the launched firmware starts this program again. *)
Again ==
  /\ pc \in {"rebooted", "firm"}
  /\ changes < MaxChanges
  /\ changes' = changes + 1
  /\ pc' = "start"
  /\ env' \in Envs
  /\ stored_slot' = 255
  /\ buffer' = [firm |-> NoFirm, ok |-> FALSE]
  /\ power' = FALSE /\ powerSeen' = FALSE
  /\ kHeld' = "none" /\ startFirmLaunch' = FALSE /\ show_menu' = FALSE /\ nextBootSlot' = 0
  /\ menu_ret' = "ok" /\ firm_err' = "ok" /\ err_string' = FALSE /\ next' = 1
  /\ screens' = "off"
  /\ launched' = [firm |-> NoFirm, slot |-> 0] /\ menuShown' = FALSE /\ homeAtStart' = FALSE
  /\ UNCHANGED <<config, home, pad, broken, register, coldSlot>>

Init ==
  /\ env \in Envs \ {"native"}    \* NATIVE_FIRM comes Again
  /\ slots \in [Slots -> [firm : Firms \cup {NoFirm}, keys : {AutoKeys} \cup (Combos \ {"none"})]]
  /\ \A s \in Slots : slots[s].firm = NoFirm => slots[s].keys = AutoKeys
  /\ bootmode \in {"normal", "quick", "quiet"}
  /\ ramBoot = TRUE
  /\ broken = {}
  /\ register \in {0, N_BOOTSLOTS, 254} /\ (Cold => register = N_BOOTSLOTS) /\ stored_slot = 255
  /\ buffer = [firm |-> NoFirm, ok |-> FALSE]
  /\ home \in BOOLEAN /\ power = FALSE /\ pad \in Combos
  /\ powerSeen = FALSE
  /\ pc = "start"
  /\ kHeld = "none" /\ startFirmLaunch = FALSE /\ show_menu = FALSE /\ nextBootSlot = 0
  /\ menu_ret = "ok" /\ firm_err = "ok" /\ err_string = FALSE /\ next = 1
  /\ screens = "off"
  /\ changes = 0
  /\ launched = [firm |-> NoFirm, slot |-> 0]
  /\ menuShown = FALSE /\ homeAtStart = FALSE /\ coldSlot = 0

Program ==
  \/ Start \/ Splash \/ Combo \/ RamFirm \/ Loop \/ ShowError
  \/ MenuPower \/ MenuEnd \/ Search \/ LastChance \/ End
Next == User \/ Program \/ MenuEntry \/ Again

(* The program goes on and the splash ends; nothing makes the user act. *)
Fairness == WF_vars(Program /\ pc # "error") /\ WF_vars(Splash /\ pc' = "combo")
Spec == Init /\ [][Next]_vars /\ Fairness

-----------------------------------------------------------------------------
BootTypeOK ==
  /\ env \in Envs /\ pc \in Stops \cup {"start", "splash", "combo", "ram", "loop", "error", "menu",
                                      "menuEnd", "search", "chance", "end"}
  /\ slots \in [Slots -> [firm : Firms \cup {NoFirm}, keys : {AutoKeys} \cup (Combos \ {"none"})]]
  /\ bootmode \in {"normal", "quick", "quiet"} /\ ramBoot \in BOOLEAN
  /\ broken \subseteq Firms
  /\ register \in 0..255 /\ stored_slot \in Slots \cup {0, 255}
  /\ buffer \in [firm : Firms \cup {NoFirm}, ok : BOOLEAN]
  /\ home \in BOOLEAN /\ power \in BOOLEAN /\ pad \in Combos
  /\ powerSeen \in BOOLEAN /\ kHeld \in Combos
  /\ startFirmLaunch \in BOOLEAN /\ show_menu \in BOOLEAN /\ err_string \in BOOLEAN
  /\ nextBootSlot \in Slots \cup {0} /\ next \in 1..(N_BOOTSLOTS + 1)
  /\ menu_ret \in {"ok", "continue", "loaded", "loadedInit", "reboot"}
  /\ firm_err \in {"ok", "init", "failed"} /\ screens \in {"off", "RGB565", "BGR8"}
  /\ changes \in 0..MaxChanges

(* What is launched is what the last successful load put into the buffer:   *)
(* no later load of another file, failed or given up, is in between, and    *)
(* the screens are as this firmware, and no other, wants them.              *)
LaunchesWhatItSays ==
  pc = "firm" =>
    /\ buffer = [firm |-> launched.firm, ok |-> TRUE]
    /\ screens = IF launched.firm \in ScreenInit THEN "BGR8" ELSE "off"

(* After a cold boot the MCU holds the slot the firmware came from, none if *)
(* it did not come from a slot, was given up, or the console stops.          *)
SlotMatches ==
  Cold => /\ pc = "firm" => register = launched.slot
          /\ pc \in {"off", "rebooted"} => register = 0

(* A firmware that reboots comes back, however often: as long as no menu     *)
(* and no buttons intervene, what runs is the slot of the last cold boot.    *)
Unattended == ~menuShown /\ launched.slot # 0 /\ kHeld = "none"
RebootReturns == pc = "firm" /\ Unattended /\ coldSlot # 0 => launched.slot = coldSlot

(* main.c never reaches its "Reached code end!". *)
NoCodeEnd == pc # "codeEnd"

(* HOME held when the console is powered on leads to the menu, whatever the *)
(* boot mode and the slots say, unless buttons are held with it.             *)
HomeShowsMenu == pc = "firm" /\ homeAtStart /\ Cold /\ kHeld = "none" => menuShown

(* A quiet boot without input launches an autoboot slot that can be loaded; *)
(* another one before it that cannot be does not keep it from it (main.c's   *)
(* search; README: the console "will silently boot").                        *)
CanAutoboot ==
  /\ pc = "start" /\ Cold /\ bootmode = "quiet"
  /\ ~home /\ ~power /\ pad = "none"
  /\ \E s \in Slots : IsAutoboot(s) /\ Loads(slots[s].firm)
AutobootLaunches ==
  \A n \in 0..(MaxChanges - 1) :
    CanAutoboot /\ changes = n ~> (pc = "firm" \/ changes > n)

(* What is launched is what was loaded last, on screens that suit it, and   *)
(* something is launched or the console stops.                              *)
BootInv == BootTypeOK /\ LaunchesWhatItSays /\ NoCodeEnd

=============================================================================
