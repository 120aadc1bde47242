------------------------------ MODULE BootProofs ------------------------------
(***************************************************************************)
(* Theorems about Boot, for any number of boot slots, any firmware files   *)
(* and any number of changes by the user.                                  *)
(***************************************************************************)
EXTENDS Boot, WellFoundedInduction, TLAPS

LEMMA Limits == /\ N_BOOTSLOTS \in Nat /\ 1 <= N_BOOTSLOTS /\ N_BOOTSLOTS <= 254
                /\ MaxChanges \in Nat /\ ScreenInit \subseteq Firms /\ "none" \in Combos
BY BootAssumption

\* The search tries a slot of its set: a nonempty set of slots has a first one.
LEMMA FirstIsThere ==
  ASSUME NEW S, S \subseteq Slots, S # {}
  PROVE  First(S) \in S
<1>1. \E x \in S : \A y \in S : ~(<<y, x>> \in OpToRel(<, Nat))
  <2>1. S \subseteq Nat
    BY Limits DEF Slots
  <2> QED BY <2>1, NatLessThanWellFounded, WFMin
<1>2. PICK x \in S : \A y \in S : ~(<<y, x>> \in OpToRel(<, Nat))
  BY <1>1
<1>3. \A y \in S : x <= y
  <2> TAKE y \in S
  <2>1. x \in Nat /\ y \in Nat
    BY Limits DEF Slots
  <2>2. ~(y < x)
    BY <1>2, <2>1 DEF OpToRel
  <2> QED BY <2>1, <2>2
<1> QED BY <1>3 DEF First

-----------------------------------------------------------------------------
(* The inductive invariant.                                                *)

HistoryTypeOK ==
  /\ launched \in [firm : Firms \cup {NoFirm}, slot : Slots \cup {0}]
  /\ menuShown \in BOOLEAN /\ homeAtStart \in BOOLEAN
  /\ coldSlot \in Slots \cup {0}

\* The buffer holds the firmware of the last successful load, and the MCU its
\* slot when this is a cold boot.
InBuffer ==
  /\ buffer = [firm |-> launched.firm, ok |-> TRUE]
  /\ Cold => register = launched.slot

\* startFirmLaunch is set only while the buffer holds that firmware, and
\* firm_err then says what screens it wants; in the menu it is not set, and
\* what the last entry returned takes its place.
ReadyMatches ==
  /\ startFirmLaunch => pc \in {"ram", "loop", "chance", "end"} \cup Stops
  /\ startFirmLaunch /\ pc \notin {"off", "rebooted"} =>
       /\ InBuffer
       /\ firm_err = IF launched.firm \in ScreenInit THEN "init" ELSE "ok"
  /\ pc = "menuEnd" /\ menu_ret \in {"loaded", "loadedInit"} =>
       /\ InBuffer
       /\ menu_ret = IF launched.firm \in ScreenInit THEN "loadedInit" ELSE "loaded"
  /\ pc = "menu" => menu_ret = "ok"
  /\ pc = "chance" => startFirmLaunch
  /\ pc = "end" => startFirmLaunch \/ powerSeen \/ menu_ret = "reboot"

\* The copy in memory of the register, and the slot the search is for: of the
\* register as it was at the start, none after a cold boot.
StoreMatches ==
  /\ Cold => stored_slot \in {255, register} /\ nextBootSlot = 0
  /\ ~Cold /\ pc # "start" => nextBootSlot = readStoredBootslot

\* Unless a menu or buttons intervene, a warm boot is for the slot in the
\* register, which is the slot of the last cold boot.
ReturnsTo ==
  /\ ~Cold \/ pc \in {"start", "firm", "rebooted"} => coldSlot \in {0, register}
  /\ ~Cold /\ startFirmLaunch /\ Unattended /\ nextBootSlot # 0 => launched.slot = nextBootSlot
  /\ pc \in {"menu", "menuEnd"} => menuShown

\* HOME held at the start leads to the menu before anything is searched.
HomeLeads ==
  /\ homeAtStart /\ pc # "start" => show_menu
  /\ Cold /\ homeAtStart /\ kHeld = "none" /\ ~menuShown =>
       ~startFirmLaunch /\ pc \notin {"menuEnd", "menu", "search", "chance", "firm"}

\* Where the boot flow stops.
StopsRight ==
  /\ pc = "firm" =>
       /\ startFirmLaunch
       /\ screens = IF launched.firm \in ScreenInit THEN "BGR8" ELSE "off"
       /\ Cold => coldSlot = launched.slot
  /\ Cold /\ pc \in {"off", "rebooted"} => register = 0
  /\ NoCodeEnd

Types == BootTypeOK /\ HistoryTypeOK

BootIInv == Types /\ ReadyMatches /\ StoreMatches /\ ReturnsTo /\ HomeLeads /\ StopsRight

-----------------------------------------------------------------------------
(* What the operators of Boot do to the types.                             *)

Keys == {AutoKeys} \cup (Combos \ {"none"})
SlotRecord == [firm : Firms \cup {NoFirm}, keys : Keys]

LEMMA LoadKeepsTypes ==
  ASSUME NEW f \in Firms, NEW s \in Slots \cup {0}, HistoryTypeOK, loadVerifyFirm(f, s)
  PROVE  /\ buffer' \in [firm : Firms \cup {NoFirm}, ok : BOOLEAN]
         /\ launched' \in [firm : Firms \cup {NoFirm}, slot : Slots \cup {0}]
         /\ ErrorOf(f) \in {"ok", "init", "failed"}
BY DEF HistoryTypeOK, loadVerifyFirm, Loaded, Loads, ErrorOf

LEMMA StoreKeepsTypes ==
  ASSUME NEW s \in Slots \cup {0}, BootTypeOK, storeBootslot(s)
  PROVE  register' \in 0..255 /\ stored_slot' \in Slots \cup {0, 255}
<1>1. s \in 0..255
  BY Limits DEF Slots
<1> QED BY <1>1 DEF BootTypeOK, storeBootslot, slotStore

LEMMA ReadStoredType ==
  ASSUME BootTypeOK
  PROVE  readStoredBootslot \in Slots \cup {0}
BY Limits DEF BootTypeOK, readStoredBootslot, Slots

LEMMA SlotFirm ==
  ASSUME BootTypeOK, NEW s \in Slots, HasFirm(s)
  PROVE  slots[s].firm \in Firms
BY DEF BootTypeOK, HasFirm

\* What a menu entry does to the configuration keeps its type.
LEMMA SetupKeepsTypes ==
  ASSUME BootTypeOK,
         menuSetBootMode \/ menuSwitchFcramBoot
           \/ \E s \in Slots : menuSetupBootSlot(s) \/ menuSetupBootKeys(s)
  PROVE  /\ slots' \in [Slots -> SlotRecord]
         /\ bootmode' \in {"normal", "quick", "quiet"} /\ ramBoot' \in BOOLEAN
<1>1. slots \in [Slots -> SlotRecord] /\ bootmode \in {"normal", "quick", "quiet"} /\ ramBoot \in BOOLEAN
  BY DEF BootTypeOK, SlotRecord, Keys
<1>2. CASE menuSetBootMode
  BY <1>1, <1>2 DEF menuSetBootMode
<1>3. CASE menuSwitchFcramBoot
  BY <1>1, <1>3 DEF menuSwitchFcramBoot
<1>4. ASSUME NEW s \in Slots, menuSetupBootSlot(s)
      PROVE  slots' \in [Slots -> SlotRecord]
  <2>1. PICK f \in Firms \cup {NoFirm} :
          slots' = [slots EXCEPT ![s] = [firm |-> f, keys |-> IF f = NoFirm THEN AutoKeys ELSE @.keys]]
    BY <1>4 DEF menuSetupBootSlot
  <2>2. slots[s].keys \in Keys /\ AutoKeys \in Keys
    BY <1>1 DEF SlotRecord, Keys
  <2>3. [firm |-> f, keys |-> IF f = NoFirm THEN AutoKeys ELSE slots[s].keys] \in SlotRecord
    BY <2>2 DEF SlotRecord
  <2> QED BY <1>1, <2>1, <2>3
<1>5. ASSUME NEW s \in Slots, menuSetupBootKeys(s)
      PROVE  slots' \in [Slots -> SlotRecord]
  <2>1. PICK k \in Keys : slots' = [slots EXCEPT ![s] = [@ EXCEPT !.keys = k]]
    BY <1>5 DEF menuSetupBootKeys, Keys
  <2>2. [slots[s] EXCEPT !.keys = k] \in SlotRecord
    BY <1>1 DEF SlotRecord
  <2> QED BY <1>1, <2>1, <2>2
<1>6. ASSUME NEW s \in Slots, menuSetupBootSlot(s) \/ menuSetupBootKeys(s)
      PROVE  UNCHANGED <<bootmode, ramBoot>>
  BY <1>6 DEF menuSetupBootSlot, menuSetupBootKeys
<1> QED BY <1>1, <1>2, <1>3, <1>4, <1>5, <1>6

-----------------------------------------------------------------------------
(* Types.                                                                  *)

\* The screens, the locals and the buttons keep their types in every step of
\* the program.
LEMMA ProgramKeepsTypes ==
  ASSUME Types, Program
  PROVE  Types'
<1> USE DEF Types
<1>1. CASE Start
  <2>1. nextBootSlot' \in Slots \cup {0} /\ stored_slot' \in Slots \cup {0, 255}
    BY <1>1, ReadStoredType DEF Start, BootTypeOK
  <2>2. show_menu' \in BOOLEAN
    BY <1>1 DEF Start, ShowsMenu, BootTypeOK
  <2>3. pc' \in {"splash", "combo"} /\ err_string' \in BOOLEAN
        /\ screens' \in {"off", "RGB565", "BGR8"}
    BY <1>1 DEF Start, Goto, ScreensUp, BootTypeOK
  <2> QED BY <1>1, <2>1, <2>2, <2>3
          DEF Start, hidScanInput, config, input, BootTypeOK, HistoryTypeOK
<1>2. CASE Splash
  BY <1>2 DEF Splash, hidScanInput, Goto, config, input, slotStore, history, BootTypeOK,
       HistoryTypeOK
<1>3. CASE Combo
  <2>1. CASE ~err_string /\ kHeld # "none" /\ Matching # {}
    <3> DEFINE s == First(Matching)
               f == slots[s].firm
    <3>1. s \in Slots /\ HasFirm(s)
      BY <2>1, FirstIsThere DEF Matching
    <3>2. f \in Firms
      BY <3>1, SlotFirm
    <3>3. /\ loadVerifyFirm(f, s) /\ firm_err' = ErrorOf(f)
          /\ startFirmLaunch' = Loads(f) /\ err_string' = ~Loads(f)
          /\ IF Loads(f) THEN storeBootslot(s) ELSE UNCHANGED slotStore
      BY <1>3, <2>1 DEF Combo
    <3> HIDE DEF s, f
    <3>4. register' \in 0..255 /\ stored_slot' \in Slots \cup {0, 255}
      BY <3>1, <3>3, StoreKeepsTypes DEF slotStore, BootTypeOK
    <3>5. startFirmLaunch' \in BOOLEAN /\ err_string' \in BOOLEAN
      BY <3>3 DEF Loads
    <3> QED BY <1>3, <3>1, <3>2, <3>3, <3>4, <3>5, LoadKeepsTypes
            DEF Combo, Goto, config, input, BootTypeOK, HistoryTypeOK
  <2>2. CASE ~(~err_string /\ kHeld # "none" /\ Matching # {})
    BY <1>3, <2>2 DEF Combo, Goto, config, input, slotStore, BootTypeOK, HistoryTypeOK
  <2> QED BY <2>1, <2>2
<1>4. CASE RamFirm
  <2>1. CASE \E f \in Firms : loadVerifyFirm(f, 0) /\ firm_err' = ErrorOf(f) /\ startFirmLaunch' = Loads(f)
    BY <1>4, <2>1, LoadKeepsTypes
    DEF RamFirm, Loads, Goto, config, input, slotStore, BootTypeOK, HistoryTypeOK
  <2>2. CASE firm_err' \in {firm_err, "failed"} /\ UNCHANGED <<buffer, launched, startFirmLaunch>>
    BY <1>4, <2>2 DEF RamFirm, Goto, config, input, slotStore, BootTypeOK, HistoryTypeOK
  <2> QED BY <1>4, <2>1, <2>2 DEF RamFirm
<1>5. CASE Loop
  BY <1>5, Limits DEF Loop, Goto, ScreensUp, config, input, slotStore, BootTypeOK,
       HistoryTypeOK, Stops
<1>6. CASE ShowError
  <2>1. powerSeen' \in BOOLEAN /\ menuShown' \in BOOLEAN
    BY <1>6 DEF ShowError, hidScanInput, BootTypeOK, HistoryTypeOK
  <2>2. pc' \in {"end", "menu"} /\ menu_ret' \in {menu_ret, "ok"}
    BY <1>6 DEF ShowError, Goto
  <2>3. /\ show_menu' \in BOOLEAN /\ err_string' \in BOOLEAN
        /\ UNCHANGED <<env, config, input, slotStore, buffer, kHeld, startFirmLaunch, nextBootSlot,
                       firm_err, next, screens, launched, homeAtStart, coldSlot>>
    BY <1>6 DEF ShowError
  <2> QED BY <2>1, <2>2, <2>3 DEF config, input, slotStore, BootTypeOK, HistoryTypeOK
<1>7. CASE MenuPower
  BY <1>7 DEF MenuPower, hidScanInput, Goto, config, input, slotStore, locals, history,
       BootTypeOK, HistoryTypeOK
<1>8. CASE MenuEnd
  <2>1. pc' \in {"end", "loop", "search"} /\ startFirmLaunch' \in BOOLEAN
        /\ firm_err' \in {firm_err, "ok", "init"}
    BY <1>8 DEF MenuEnd, Goto, BootTypeOK
  <2> QED BY <1>8, <2>1 DEF MenuEnd, config, input, slotStore, history, BootTypeOK,
         HistoryTypeOK
<1>9. CASE Search
  <2>1. ASSUME NEW s \in Slots, HasFirm(s), Try(s)
        PROVE  Types'
    <3> DEFINE f == slots[s].firm
    <3>1. f \in Firms
      BY <2>1, SlotFirm
    <3>2. /\ loadVerifyFirm(f, s) /\ firm_err' = ErrorOf(f) /\ startFirmLaunch' = Loads(f)
          /\ IF Loads(f) /\ nextBootSlot = 0 THEN storeBootslot(s) ELSE UNCHANGED slotStore
          /\ pc' \in {"chance", "search", "loop"} /\ err_string' \in BOOLEAN
          /\ next' \in {next, s + 1}
      BY <2>1 DEF Try, Goto, BootTypeOK
    <3> HIDE DEF f
    <3>3. register' \in 0..255 /\ stored_slot' \in Slots \cup {0, 255}
      BY <3>2, StoreKeepsTypes DEF slotStore, BootTypeOK
    <3>4. startFirmLaunch' \in BOOLEAN /\ s + 1 \in 1..(N_BOOTSLOTS + 1)
      BY <3>2, Limits DEF Loads, Slots
    <3> QED BY <1>9, <3>1, <3>2, <3>3, <3>4, LoadKeepsTypes
            DEF Search, config, input, BootTypeOK, HistoryTypeOK
  <2>2. CASE NotFound
    BY <1>9, <2>2 DEF Search, NotFound, Goto, config, input, slotStore, BootTypeOK,
         HistoryTypeOK
  <2>3. CASE nextBootSlot # 0
    BY <1>9, <2>1, <2>2, <2>3 DEF Search, BootTypeOK
  <2>4. CASE nextBootSlot = 0 /\ Remaining(next) # {}
    <3>1. First(Remaining(next)) \in Slots /\ HasFirm(First(Remaining(next)))
      BY <2>4, FirstIsThere DEF Remaining, IsAutoboot
    <3> QED BY <1>9, <2>1, <2>4, <3>1 DEF Search
  <2> QED BY <1>9, <2>2, <2>3, <2>4 DEF Search
<1>10. CASE LastChance
  BY <1>10 DEF LastChance, hidScanInput, Goto, config, input, slotStore, history,
       BootTypeOK, HistoryTypeOK
<1>11. CASE End
  <2>1. register' \in 0..255 /\ stored_slot' \in Slots \cup {0, 255}
    BY <1>11, StoreKeepsTypes DEF End, slotStore, BootTypeOK
  <2>2. screens' \in {"off", "RGB565", "BGR8"} /\ pc' \in Stops
        /\ coldSlot' \in Slots \cup {0}
    BY <1>11 DEF End, FormatFor, Goto, Stops, HistoryTypeOK
  <2> QED BY <1>11, <2>1, <2>2 DEF End, input, locals, BootTypeOK, HistoryTypeOK
<1> QED BY <1>1, <1>2, <1>3, <1>4, <1>5, <1>6, <1>7, <1>8, <1>9, <1>10, <1>11 DEF Program

\* So do the user, the menu entries and a restart.
LEMMA OthersKeepTypes ==
  ASSUME Types, User \/ MenuEntry \/ Again
  PROVE  Types'
<1> USE DEF Types
<1>1. CASE User
  <2>1. changes' \in 0..MaxChanges
    BY <1>1, Limits DEF User, BootTypeOK
  <2>2. home' \in BOOLEAN /\ power' \in BOOLEAN
    BY <1>1 DEF User, BootTypeOK
  <2>3. pad' \in Combos /\ broken' \subseteq Firms
    BY <1>1 DEF User, BootTypeOK
  <2> QED BY <1>1, <2>1, <2>2, <2>3
          DEF User, config, slotStore, locals, history, BootTypeOK, HistoryTypeOK
<1>2. CASE MenuEntry
  <2>1. ASSUME Chosen PROVE changes' \in 0..MaxChanges /\ UNCHANGED <<home, pad, broken>>
    BY <2>1, Limits DEF Chosen, BootTypeOK
  <2>2. ASSUME NEW ret \in {"ok", "continue", "loaded", "loadedInit", "reboot"}, EntryEnds(ret)
        PROVE  menu_ret' = ret /\ powerSeen' \in BOOLEAN /\ pc' \in {"menu", "menuEnd"}
    BY <2>2 DEF EntryEnds, hidScanInput, Goto, BootTypeOK
  <2> DEFINE entry == /\ slots' \in [Slots -> SlotRecord]
                      /\ bootmode' \in {"normal", "quick", "quiet"} /\ ramBoot' \in BOOLEAN
                      /\ register' \in 0..255 /\ stored_slot' \in Slots \cup {0, 255}
                      /\ buffer' \in [firm : Firms \cup {NoFirm}, ok : BOOLEAN]
                      /\ launched' \in [firm : Firms \cup {NoFirm}, slot : Slots \cup {0}]
                      /\ home' \in BOOLEAN /\ pad' \in Combos
                      /\ broken' \subseteq Firms /\ changes' \in 0..MaxChanges
                      /\ menu_ret' \in {"ok", "continue", "loaded", "loadedInit", "reboot"}
                      /\ powerSeen' \in BOOLEAN /\ pc' \in {"menu", "menuEnd"}
  <2>3. slots \in [Slots -> SlotRecord]
    BY DEF BootTypeOK, SlotRecord, Keys
  <2>4. ASSUME NEW f \in Firms, NEW s \in Slots \cup {0}, Launch(f, s) PROVE entry
    <3>1. CASE Loads(f)
      <4>1. storeBootslot(s) /\ EntryEnds(IF ErrorOf(f) = "init" THEN "loadedInit" ELSE "loaded")
        BY <2>4, <3>1 DEF Launch
      <4> QED BY <2>1, <2>2, <2>3, <2>4, <4>1, LoadKeepsTypes, StoreKeepsTypes
              DEF Launch, config, BootTypeOK
    <3>2. CASE ~Loads(f)
      BY <2>1, <2>2, <2>3, <2>4, <3>2, LoadKeepsTypes DEF Launch, config, slotStore,
           BootTypeOK
    <3> QED BY <3>1, <3>2
  <2>5. ASSUME menuLaunchFirm PROVE entry
    <3>1. CASE \E f \in Firms : Launch(f, 0)
      BY <3>1, <2>4
    <3>2. CASE \E s \in Slots : HasFirm(s) /\ Launch(slots[s].firm, s)
      BY <3>2, <2>4, SlotFirm
    <3>3. CASE Chosen /\ EntryEnds("ok") /\ UNCHANGED <<config, slotStore, buffer, launched>>
      BY <3>3, <2>1, <2>2, <2>3 DEF config, slotStore, BootTypeOK, HistoryTypeOK
    <3> HIDE DEF entry
    <3> QED BY <2>5, <3>1, <3>2, <3>3 DEF menuLaunchFirm
  <2>6. ASSUME Setup PROVE entry
    BY <2>6, <2>1, <2>2, SetupKeepsTypes DEF Setup, slotStore, BootTypeOK, HistoryTypeOK
  <2>7. ASSUME Flash PROVE entry
    <3>1. PICK f \in Firms : loadVerifyFirm(f, 0)
      BY <2>7 DEF Flash
    <3> QED BY <2>7, <3>1, <2>1, <2>2, <2>3, LoadKeepsTypes DEF Flash, config, slotStore,
           BootTypeOK
  <2>8. ASSUME Continue PROVE entry
    BY <2>8, <2>1, <2>2, <2>3 DEF Continue, config, slotStore, BootTypeOK, HistoryTypeOK
  <2>9. ASSUME NandTool PROVE entry
    <3>1. CASE EntryEnds("ok")
      BY <2>9, <3>1, <2>1, <2>2, <2>3 DEF NandTool, config, slotStore, BootTypeOK, HistoryTypeOK
    <3>2. CASE powerSeen' = FALSE /\ menu_ret' = "ok" /\ pc' = "menu"
      <4>1. Chosen /\ UNCHANGED <<config, slotStore, buffer, launched>>
        BY <2>9 DEF NandTool
      <4>2. /\ menu_ret' \in {"ok", "continue", "loaded", "loadedInit", "reboot"}
            /\ powerSeen' \in BOOLEAN /\ pc' \in {"menu", "menuEnd"}
        BY ONLY <3>2
      <4>3. UNCHANGED <<slots, bootmode, ramBoot, register, stored_slot, buffer, launched>>
        BY ONLY <4>1 DEF config, slotStore
      <4>4. home' \in BOOLEAN /\ pad' \in Combos /\ broken' \subseteq Firms
        BY <4>1, <2>1 DEF BootTypeOK
      <4> QED BY <2>1, <2>3, <4>1, <4>2, <4>3, <4>4 DEF BootTypeOK, HistoryTypeOK
    <3> HIDE DEF entry
    <3> QED BY <2>9, <3>1, <3>2 DEF NandTool, Goto
  <2>10. entry
    <3> HIDE DEF entry
    <3> QED BY <1>2, <2>5, <2>6, <2>7, <2>8, <2>9 DEF MenuEntry
  <2>11. power' \in BOOLEAN
    BY <1>2 DEF MenuEntry, NandTool, BootTypeOK
  <2> QED BY <1>2, <2>10, <2>11 DEF MenuEntry, BootTypeOK, HistoryTypeOK, SlotRecord, Keys
<1>3. CASE Again
  <2>1. changes' \in 0..MaxChanges
    BY <1>3, Limits DEF Again, BootTypeOK
  <2>2. /\ power' \in BOOLEAN /\ powerSeen' \in BOOLEAN /\ startFirmLaunch' \in BOOLEAN
        /\ show_menu' \in BOOLEAN /\ err_string' \in BOOLEAN
        /\ menuShown' \in BOOLEAN /\ homeAtStart' \in BOOLEAN
    BY <1>3 DEF Again
  <2>3. /\ buffer' \in [firm : Firms \cup {NoFirm}, ok : BOOLEAN]
        /\ launched' \in [firm : Firms \cup {NoFirm}, slot : Slots \cup {0}]
    BY <1>3 DEF Again
  <2>4. /\ env' \in Envs /\ pc' = "start" /\ stored_slot' = 255 /\ kHeld' = "none"
        /\ nextBootSlot' = 0 /\ menu_ret' = "ok" /\ firm_err' = "ok" /\ next' = 1
        /\ screens' = "off"
        /\ UNCHANGED <<config, home, pad, broken, register, coldSlot>>
    BY <1>3 DEF Again
  <2> QED BY <2>1, <2>2, <2>3, <2>4, Limits DEF config, BootTypeOK, HistoryTypeOK
<1> QED BY <1>1, <1>2, <1>3

LEMMA TypeStep ==
  ASSUME Types, [Next]_vars
  PROVE  Types'
<1>1. CASE UNCHANGED vars
  BY <1>1 DEF Types, vars, config, input, slotStore, locals, history, BootTypeOK,
       HistoryTypeOK
<1> QED BY <1>1, ProgramKeepsTypes, OthersKeepTypes DEF Next

LEMMA TypeInit ==
  ASSUME Init
  PROVE  Types
<1>1. register \in 0..255
  BY Limits DEF Init
<1>2. /\ ramBoot \in BOOLEAN /\ power \in BOOLEAN /\ powerSeen \in BOOLEAN
      /\ startFirmLaunch \in BOOLEAN /\ show_menu \in BOOLEAN /\ err_string \in BOOLEAN
      /\ menuShown \in BOOLEAN /\ homeAtStart \in BOOLEAN
  BY DEF Init
<1>3. /\ buffer \in [firm : Firms \cup {NoFirm}, ok : BOOLEAN]
      /\ launched \in [firm : Firms \cup {NoFirm}, slot : Slots \cup {0}]
  BY DEF Init
<1>4. /\ env \in Envs /\ pc = "start" /\ stored_slot = 255 /\ kHeld = "none"
      /\ nextBootSlot = 0 /\ menu_ret = "ok" /\ firm_err = "ok" /\ next = 1
      /\ screens = "off" /\ changes = 0 /\ coldSlot = 0 /\ broken = {}
      /\ home \in BOOLEAN /\ pad \in Combos
      /\ bootmode \in {"normal", "quick", "quiet"}
      /\ slots \in [Slots -> [firm : Firms \cup {NoFirm}, keys : {AutoKeys} \cup (Combos \ {"none"})]]
  BY DEF Init
<1> QED BY <1>1, <1>2, <1>3, <1>4, Limits DEF Types, BootTypeOK, HistoryTypeOK

\* Every variable keeps its type.
THEOREM BootTypeCorrect == Spec => []BootTypeOK
<1>1. Init => Types
  BY TypeInit
<1>2. Types /\ [Next]_vars => Types'
  BY TypeStep
<1>3. Types => BootTypeOK
  BY DEF Types
<1> QED BY <1>1, <1>2, <1>3, PTL DEF Spec

-----------------------------------------------------------------------------
(* A load and a store.                                                     *)

LEMMA LoadFills ==
  ASSUME NEW f, NEW s, loadVerifyFirm(f, s), Loads(f)
  PROVE  /\ launched' = [firm |-> f, slot |-> s]
         /\ buffer' = [firm |-> launched'.firm, ok |-> TRUE]
         /\ ErrorOf(f) = IF f \in ScreenInit THEN "init" ELSE "ok"
BY DEF loadVerifyFirm, Loaded, ErrorOf

LEMMA StoreStores ==
  ASSUME Types, StoreMatches, NEW s \in Slots \cup {0}, storeBootslot(s)
  PROVE  /\ Cold => register' = s /\ stored_slot' = s
         /\ ~Cold => UNCHANGED slotStore
<1>1. s # 255
  BY Limits DEF Slots
<1> QED BY <1>1 DEF Types, BootTypeOK, StoreMatches, storeBootslot, slotStore

\* What a load followed by the store of its slot leaves.
LEMMA LoadedAndStored ==
  ASSUME Types, StoreMatches, NEW f \in Firms, NEW s \in Slots \cup {0},
         env' = env, loadVerifyFirm(f, s), Loads(f), storeBootslot(s)
  PROVE  /\ InBuffer' /\ launched' = [firm |-> f, slot |-> s]
         /\ Cold => stored_slot' \in {255, register'}
         /\ ~Cold => UNCHANGED slotStore
         /\ ErrorOf(f) = IF launched'.firm \in ScreenInit THEN "init" ELSE "ok"
BY LoadFills, StoreStores DEF InBuffer, Cold

-----------------------------------------------------------------------------
(* The steps of the program.                                               *)

Core == ReadyMatches /\ StoreMatches /\ ReturnsTo /\ HomeLeads /\ StopsRight

LEMMA StartStep ==
  ASSUME Types, Core, Start
  PROVE  Core'
<1> USE DEF Core
<1>1. /\ pc = "start" /\ pc' \in {"splash", "combo"} /\ ~startFirmLaunch
      /\ UNCHANGED <<env, register, buffer, launched, startFirmLaunch, menuShown, coldSlot>>
      /\ nextBootSlot' = readStoredBootslot
      /\ stored_slot' = IF Cold THEN stored_slot ELSE readStoredBootslot
      /\ homeAtStart' = home /\ show_menu' = ShowsMenu(nextBootSlot')
  BY DEF Start, Goto, ReadyMatches, Stops
<1>2. ReadyMatches' /\ StopsRight'
  BY <1>1 DEF ReadyMatches, StopsRight, NoCodeEnd
<1>3. StoreMatches'
  BY <1>1 DEF StoreMatches, readStoredBootslot, Cold
<1>4. ReturnsTo'
  BY <1>1 DEF ReturnsTo, Cold
<1>5. HomeLeads'
  BY <1>1 DEF HomeLeads, ShowsMenu
<1> QED BY <1>2, <1>3, <1>4, <1>5

LEMMA SplashStep ==
  ASSUME Types, Core, Splash
  PROVE  Core'
<1> USE DEF Core
<1>1. /\ pc = "splash" /\ pc' \in {"splash", "combo"} /\ ~startFirmLaunch
      /\ show_menu' = (show_menu \/ home)
      /\ UNCHANGED <<env, slotStore, buffer, startFirmLaunch, nextBootSlot, history>>
  BY DEF Splash, Goto, ReadyMatches, Stops
<1>2. ReadyMatches' /\ StopsRight'
  BY <1>1 DEF ReadyMatches, StopsRight, NoCodeEnd
<1>3. StoreMatches' /\ ReturnsTo' /\ HomeLeads'
  BY <1>1 DEF slotStore, history, StoreMatches, readStoredBootslot, ReturnsTo, HomeLeads,
       Cold
<1> QED BY <1>2, <1>3

LEMMA ComboStep ==
  ASSUME Types, Core, Combo
  PROVE  Core'
<1> USE DEF Core
<1>1. /\ pc = "combo" /\ pc' = "ram" /\ ~startFirmLaunch
      /\ UNCHANGED <<env, kHeld, show_menu, nextBootSlot, menuShown, homeAtStart, coldSlot>>
  BY DEF Combo, Goto, ReadyMatches, Stops
<1>2. CASE ~err_string /\ kHeld # "none" /\ Matching # {}
  <2> DEFINE s == First(Matching)
             f == slots[s].firm
  <2>1. s \in Slots /\ f \in Firms
    <3>1. s \in Slots /\ HasFirm(s)
      BY <1>2, FirstIsThere DEF Matching
    <3> QED BY <3>1, SlotFirm DEF Types
  <2>2. /\ loadVerifyFirm(f, s) /\ firm_err' = ErrorOf(f) /\ startFirmLaunch' = Loads(f)
        /\ IF Loads(f) THEN storeBootslot(s) ELSE UNCHANGED slotStore
    BY <1>2 DEF Combo
  <2> HIDE DEF s, f
  <2>3. CASE Loads(f)
    <3>1. /\ InBuffer' /\ firm_err' = IF launched'.firm \in ScreenInit THEN "init" ELSE "ok"
          /\ Cold => stored_slot' \in {255, register'}
          /\ ~Cold => UNCHANGED slotStore
      BY <1>1, <2>1, <2>2, <2>3, LoadedAndStored
    <3>2. ReadyMatches' /\ StopsRight'
      BY <1>1, <3>1 DEF ReadyMatches, StopsRight, NoCodeEnd
    <3>3. StoreMatches'
      BY <1>1, <3>1 DEF StoreMatches, readStoredBootslot, slotStore, Cold
    <3>4. ReturnsTo' /\ HomeLeads'
      BY <1>1, <1>2, <3>1 DEF ReturnsTo, HomeLeads, Unattended, slotStore, Cold
    <3> QED BY <3>2, <3>3, <3>4
  <2>4. CASE ~Loads(f)
    <3>1. ~startFirmLaunch' /\ UNCHANGED slotStore
      BY <2>2, <2>4
    <3>2. ReadyMatches' /\ StopsRight'
      BY <1>1, <3>1 DEF ReadyMatches, StopsRight, NoCodeEnd
    <3>3. StoreMatches' /\ ReturnsTo' /\ HomeLeads'
      BY <1>1, <3>1 DEF StoreMatches, readStoredBootslot, slotStore, ReturnsTo,
           HomeLeads, Cold
    <3> QED BY <3>2, <3>3
  <2> QED BY <2>3, <2>4
<1>3. CASE ~(~err_string /\ kHeld # "none" /\ Matching # {})
  <2>1. UNCHANGED <<startFirmLaunch, slotStore>>
    BY <1>3 DEF Combo
  <2>2. ReadyMatches' /\ StopsRight'
    BY <1>1, <2>1 DEF ReadyMatches, StopsRight, NoCodeEnd
  <2>3. StoreMatches' /\ ReturnsTo' /\ HomeLeads'
    BY <1>1, <2>1 DEF StoreMatches, readStoredBootslot, slotStore, ReturnsTo, HomeLeads,
         Cold
  <2> QED BY <2>2, <2>3
<1> QED BY <1>2, <1>3

LEMMA RamFirmStep ==
  ASSUME Types, Core, RamFirm
  PROVE  Core'
<1> USE DEF Core
<1>1. /\ pc = "ram" /\ pc' = "loop"
      /\ UNCHANGED <<env, slotStore, kHeld, show_menu, nextBootSlot, menuShown, homeAtStart, coldSlot>>
  BY DEF RamFirm, Goto
<1>2. CASE ~startFirmLaunch /\ ramBoot /\ env = "native"
  <2>1. CASE \E f \in Firms : loadVerifyFirm(f, 0) /\ firm_err' = ErrorOf(f) /\ startFirmLaunch' = Loads(f)
    <3>1. PICK f \in Firms : loadVerifyFirm(f, 0) /\ firm_err' = ErrorOf(f) /\ startFirmLaunch' = Loads(f)
      BY <2>1
    <3>2. startFirmLaunch' =>
            /\ InBuffer'
            /\ firm_err' = IF launched'.firm \in ScreenInit THEN "init" ELSE "ok"
            /\ launched'.slot = 0
      <4>1. ~Loads(f) => ~startFirmLaunch'
        BY <3>1
      <4>2. Loads(f) => /\ launched' = [firm |-> f, slot |-> 0]
                        /\ buffer' = [firm |-> launched'.firm, ok |-> TRUE]
                        /\ firm_err' = IF f \in ScreenInit THEN "init" ELSE "ok"
        BY <3>1, LoadFills
      <4> QED BY <1>1, <1>2, <4>1, <4>2 DEF InBuffer, Cold
    <3>3. ReadyMatches' /\ StopsRight'
      BY <1>1, <3>2 DEF ReadyMatches, StopsRight, NoCodeEnd
    <3>4. StoreMatches' /\ ReturnsTo' /\ HomeLeads'
      BY <1>1, <1>2, <3>2
      DEF StoreMatches, readStoredBootslot, slotStore, ReturnsTo, HomeLeads, Unattended,
      Cold
    <3> QED BY <3>3, <3>4
  <2>2. CASE UNCHANGED <<buffer, launched, startFirmLaunch>>
    <3>1. ReadyMatches' /\ StopsRight'
      BY <1>1, <1>2, <2>2 DEF ReadyMatches, StopsRight, NoCodeEnd
    <3>2. StoreMatches' /\ ReturnsTo' /\ HomeLeads'
      BY <1>1, <1>2, <2>2
      DEF StoreMatches, readStoredBootslot, slotStore, ReturnsTo, HomeLeads, Unattended,
      Cold
    <3> QED BY <3>1, <3>2
  <2> QED BY <1>2, <2>1, <2>2 DEF RamFirm
<1>3. CASE ~(~startFirmLaunch /\ ramBoot /\ env = "native")
  <2>1. UNCHANGED <<buffer, launched, firm_err, startFirmLaunch>>
    BY <1>3 DEF RamFirm
  <2>2. ReadyMatches' /\ StopsRight'
    BY <1>1, <2>1 DEF ReadyMatches, StopsRight, NoCodeEnd, InBuffer, slotStore, Cold
  <2>3. StoreMatches' /\ ReturnsTo' /\ HomeLeads'
    BY <1>1, <2>1 DEF StoreMatches, readStoredBootslot, slotStore, ReturnsTo, HomeLeads,
         Unattended, Cold
  <2> QED BY <2>2, <2>3
<1> QED BY <1>2, <1>3

LEMMA LoopStep ==
  ASSUME Types, Core, Loop
  PROVE  Core'
<1> USE DEF Core
<1>1. /\ pc = "loop" /\ pc' \in {"end", "error", "menu", "search"}
      /\ pc' = "end" <=> startFirmLaunch
      /\ pc' = "search" => ~show_menu
      /\ menuShown' = (menuShown \/ pc' = "menu")
      /\ pc' = "menu" => menu_ret' = "ok"
      /\ UNCHANGED <<env, slotStore, buffer, kHeld, startFirmLaunch, show_menu,
                     nextBootSlot, firm_err, launched, homeAtStart, coldSlot>>
  BY DEF Loop, Goto
<1>2. ReadyMatches'
  BY <1>1 DEF ReadyMatches, InBuffer, slotStore, Cold
<1>3. StoreMatches' /\ StopsRight'
  BY <1>1 DEF StoreMatches, readStoredBootslot, slotStore, StopsRight, NoCodeEnd, Cold
<1>4. ReturnsTo'
  BY <1>1 DEF ReturnsTo, Unattended, slotStore, Cold
<1>5. HomeLeads'
  BY <1>1 DEF HomeLeads, Cold
<1> QED BY <1>2, <1>3, <1>4, <1>5

LEMMA ShowErrorStep ==
  ASSUME Types, Core, ShowError
  PROVE  Core'
<1> USE DEF Core
<1>1. /\ pc = "error" /\ pc' \in {"end", "menu"} /\ ~startFirmLaunch
      /\ pc' = "end" => powerSeen'
      /\ pc' = "menu" => menu_ret' = "ok" /\ menuShown'
      /\ menuShown => menuShown'
      /\ show_menu'
      /\ UNCHANGED <<env, slotStore, kHeld, startFirmLaunch, nextBootSlot, homeAtStart, coldSlot>>
  BY DEF ShowError, Goto, ReadyMatches, Stops
<1>2. ReadyMatches' /\ StopsRight'
  BY <1>1 DEF ReadyMatches, StopsRight, NoCodeEnd
<1>3. StoreMatches' /\ ReturnsTo' /\ HomeLeads'
  BY <1>1 DEF StoreMatches, readStoredBootslot, slotStore, ReturnsTo, HomeLeads, Cold
<1> QED BY <1>2, <1>3

LEMMA MenuPowerStep ==
  ASSUME Types, Core, MenuPower
  PROVE  Core'
<1> USE DEF Core
<1>1. /\ pc = "menu" /\ pc' = "menuEnd" /\ ~startFirmLaunch /\ menu_ret' = "ok" /\ menuShown
      /\ UNCHANGED <<env, slotStore, buffer, locals, history>>
  BY DEF MenuPower, Goto, ReadyMatches, ReturnsTo, Stops, locals
<1>2. ReadyMatches' /\ StopsRight'
  BY <1>1 DEF locals, ReadyMatches, StopsRight, NoCodeEnd
<1>3. StoreMatches' /\ ReturnsTo' /\ HomeLeads'
  BY <1>1 DEF locals, history, StoreMatches, readStoredBootslot, slotStore, ReturnsTo,
       HomeLeads, Cold
<1> QED BY <1>2, <1>3

LEMMA MenuEndStep ==
  ASSUME Types, Core, MenuEnd
  PROVE  Core'
<1> USE DEF Core
<1>1. /\ pc = "menuEnd" /\ ~startFirmLaunch /\ menuShown
      /\ UNCHANGED <<env, slotStore, buffer, powerSeen, kHeld, show_menu, nextBootSlot, menu_ret, history>>
  BY DEF MenuEnd, ReadyMatches, ReturnsTo, Stops
<1>2. \/ /\ pc' = "end" /\ ~startFirmLaunch' /\ (powerSeen \/ menu_ret = "reboot")
      \/ /\ pc' = "loop" /\ startFirmLaunch' /\ menu_ret \in {"loaded", "loadedInit"}
         /\ firm_err' = IF menu_ret = "loadedInit" THEN "init" ELSE "ok"
      \/ pc' = "search" /\ ~startFirmLaunch'
  BY <1>1 DEF MenuEnd, Goto
<1>3. ReadyMatches' /\ StopsRight'
  BY <1>1, <1>2 DEF ReadyMatches, InBuffer, slotStore, history, Cold, StopsRight, NoCodeEnd
<1>4. StoreMatches'
  BY <1>1, <1>2 DEF StoreMatches, readStoredBootslot, slotStore, Cold
<1>5. ReturnsTo'
  BY <1>1, <1>2 DEF ReturnsTo, Unattended, slotStore, history, Cold
<1>6. HomeLeads'
  BY <1>1, <1>2 DEF HomeLeads, history, Cold
<1> QED BY <1>3, <1>4, <1>5, <1>6

\* Before the search, HOME was not held at the start of a cold boot, or there
\* were buttons or a menu.
LEMMA SearchStep ==
  ASSUME Types, Core, Search
  PROVE  Core'
<1> USE DEF Core
<1>1. /\ pc = "search" /\ ~startFirmLaunch
      /\ UNCHANGED <<env, kHeld, show_menu, nextBootSlot, menuShown, homeAtStart, coldSlot>>
  BY DEF Search, ReadyMatches, Stops
<1>2. ~(Cold /\ homeAtStart /\ kHeld = "none" /\ ~menuShown)
  BY <1>1 DEF HomeLeads
<1>3. ASSUME NEW s \in Slots, HasFirm(s), Try(s), nextBootSlot \in {0, s}
      PROVE  Core'
  <2> DEFINE f == slots[s].firm
  <2>1. f \in Firms
    BY <1>3, SlotFirm DEF Types
  <2>2. /\ loadVerifyFirm(f, s) /\ firm_err' = ErrorOf(f) /\ startFirmLaunch' = Loads(f)
        /\ IF Loads(f) /\ nextBootSlot = 0 THEN storeBootslot(s) ELSE UNCHANGED slotStore
        /\ pc' = IF Loads(f) THEN "chance" ELSE IF nextBootSlot = 0 THEN "search" ELSE "loop"
    BY <1>3 DEF Try, Goto
  <2> HIDE DEF f
  <2>3. CASE Loads(f)
    <3>1. /\ launched' = [firm |-> f, slot |-> s]
          /\ buffer' = [firm |-> launched'.firm, ok |-> TRUE]
          /\ firm_err' = IF launched'.firm \in ScreenInit THEN "init" ELSE "ok"
      BY <2>2, <2>3, LoadFills
    <3>2. /\ Cold => register' = s /\ stored_slot' = s
          /\ ~Cold => UNCHANGED slotStore
      BY <2>2, <2>3, StoreStores DEF StoreMatches
    <3>3. ReadyMatches'
      BY <1>1, <2>2, <2>3, <3>1, <3>2 DEF ReadyMatches, InBuffer, Cold
    <3>4. StoreMatches' /\ StopsRight'
      BY <1>1, <2>2, <2>3, <3>2 DEF StoreMatches, readStoredBootslot, slotStore,
           StopsRight, NoCodeEnd, Cold
    <3>5. ReturnsTo'
      BY <1>1, <1>3, <2>2, <2>3, <3>1, <3>2 DEF ReturnsTo, slotStore, Cold
    <3>6. HomeLeads'
      BY <1>1, <1>2, <2>2, <2>3 DEF HomeLeads, Cold
    <3> QED BY <3>3, <3>4, <3>5, <3>6
  <2>4. CASE ~Loads(f)
    <3>1. ~startFirmLaunch' /\ pc' \in {"search", "loop"} /\ UNCHANGED slotStore
      BY <2>2, <2>4
    <3>2. ReadyMatches' /\ StopsRight'
      BY <1>1, <3>1 DEF ReadyMatches, StopsRight, NoCodeEnd
    <3>3. StoreMatches' /\ ReturnsTo'
      BY <1>1, <3>1 DEF StoreMatches, readStoredBootslot, slotStore, ReturnsTo, Cold
    <3>4. HomeLeads'
      BY <1>1, <1>2, <3>1 DEF HomeLeads, Cold
    <3> QED BY <3>2, <3>3, <3>4
  <2> QED BY <2>3, <2>4
<1>4. CASE NotFound
  <2>1. ~startFirmLaunch' /\ pc' = "loop" /\ UNCHANGED slotStore
    BY <1>1, <1>4 DEF NotFound, Goto
  <2>2. ReadyMatches' /\ StopsRight'
    BY <1>1, <2>1 DEF ReadyMatches, StopsRight, NoCodeEnd
  <2>3. StoreMatches' /\ ReturnsTo'
    BY <1>1, <2>1 DEF StoreMatches, readStoredBootslot, slotStore, ReturnsTo, Cold
  <2>4. HomeLeads'
    BY <1>1, <1>2, <2>1 DEF HomeLeads, Cold
  <2> QED BY <2>2, <2>3, <2>4
<1>5. CASE nextBootSlot # 0
  <2>1. nextBootSlot \in Slots
    BY <1>5 DEF Types, BootTypeOK
  <2> QED BY <1>3, <1>4, <1>5, <2>1 DEF Search
<1>6. CASE nextBootSlot = 0 /\ Remaining(next) # {}
  <2>1. First(Remaining(next)) \in Slots /\ HasFirm(First(Remaining(next)))
    BY <1>6, FirstIsThere DEF Remaining, IsAutoboot
  <2> QED BY <1>3, <1>6, <2>1 DEF Search
<1> QED BY <1>4, <1>5, <1>6 DEF Search

LEMMA LastChanceStep ==
  ASSUME Types, Core, LastChance
  PROVE  Core'
<1> USE DEF Core
<1>1. /\ pc = "chance" /\ pc' = "loop" /\ startFirmLaunch
      /\ show_menu => show_menu'
      /\ UNCHANGED <<env, slotStore, buffer, kHeld, nextBootSlot, firm_err, history>>
  BY DEF LastChance, Goto, ReadyMatches
<1>2. ReadyMatches' /\ StopsRight'
  BY <1>1 DEF ReadyMatches, InBuffer, slotStore, history, Cold, StopsRight, NoCodeEnd
<1>3. StoreMatches' /\ ReturnsTo'
  BY <1>1 DEF StoreMatches, readStoredBootslot, slotStore, history, ReturnsTo,
       Unattended, Cold
<1>4. HomeLeads'
  BY <1>1 DEF HomeLeads, history, Cold
<1> QED BY <1>2, <1>3, <1>4

LEMMA EndStep ==
  ASSUME Types, Core, End
  PROVE  Core'
<1> USE DEF Core
<1>1. /\ pc = "end"
      /\ UNCHANGED <<env, buffer, powerSeen, locals, launched, menuShown, homeAtStart>>
  BY DEF End
<1>2. CASE PowersOff \/ Reboots
  <2>1. /\ pc' \in {"off", "rebooted"} /\ coldSlot' = IF Cold THEN 0 ELSE coldSlot
        /\ storeBootslot(0)
    BY <1>2 DEF End, Goto
  <2>2. /\ Cold => register' = 0 /\ stored_slot' = 0
        /\ ~Cold => UNCHANGED slotStore
    BY <2>1, StoreStores
  <2>3. ReadyMatches' /\ StopsRight'
    BY <1>1, <2>1, <2>2 DEF ReadyMatches, StopsRight, NoCodeEnd, Cold, Stops, locals
  <2>4. StoreMatches' /\ ReturnsTo' /\ HomeLeads'
    BY <1>1, <2>1, <2>2
    DEF StoreMatches, readStoredBootslot, slotStore, locals, ReturnsTo, Unattended,
    HomeLeads, Cold
  <2> QED BY <2>3, <2>4
<1>3. CASE ~(PowersOff \/ Reboots)
  <2>1. startFirmLaunch
    BY <1>1, <1>3 DEF ReadyMatches, PowersOff, Reboots
  <2>2. /\ pc' = "firm" /\ coldSlot' = IF Cold THEN launched.slot ELSE coldSlot
        /\ screens' = FormatFor /\ UNCHANGED slotStore
    BY <1>3, <2>1 DEF End, Goto
  <2>3. ReadyMatches' /\ StopsRight'
    BY <1>1, <2>1, <2>2
    DEF ReadyMatches, InBuffer, StopsRight, NoCodeEnd, FormatFor, Cold, Stops, locals,
    slotStore
  <2>4. StoreMatches' /\ ReturnsTo' /\ HomeLeads'
    BY <1>1, <2>1, <2>2
    DEF StoreMatches, ReadyMatches, InBuffer, readStoredBootslot, slotStore, locals,
    ReturnsTo, Unattended,
        HomeLeads, Cold
  <2> QED BY <2>3, <2>4
<1> QED BY <1>2, <1>3

-----------------------------------------------------------------------------
(* The steps of the user, the menu entries and a restart.                  *)

LEMMA UserStep ==
  ASSUME Types, Core, User
  PROVE  Core'
<1> USE DEF Core
<1>1. /\ pc' = pc
      /\ UNCHANGED <<env, slotStore, buffer, powerSeen, locals, screens, history>>
  BY DEF User
<1> QED BY <1>1 DEF ReadyMatches, InBuffer, StoreMatches, readStoredBootslot, ReturnsTo,
       Unattended,
                    HomeLeads, StopsRight, NoCodeEnd, Cold, slotStore, locals, history

\* An entry that loads a firmware stores its slot and says so; one that does
\* not leaves the buffer to the next load.
LEMMA MenuEntryStep ==
  ASSUME Types, Core, MenuEntry
  PROVE  Core'
<1> USE DEF Core
<1>1. /\ pc = "menu" /\ ~startFirmLaunch /\ menuShown
      /\ UNCHANGED <<env, kHeld, startFirmLaunch, show_menu, nextBootSlot, screens,
                     menuShown, homeAtStart, coldSlot>>
  <2>1. pc = "menu"
    BY DEF MenuEntry, menuLaunchFirm, Launch, Setup, Flash, Continue, NandTool, Chosen
  <2> QED BY <2>1 DEF MenuEntry, ReadyMatches, ReturnsTo, Stops
<1>2. ASSUME NEW ret, EntryEnds(ret)
      PROVE  /\ pc' \in {"menu", "menuEnd"} /\ menu_ret' = ret
             /\ pc' = "menu" => ret = "ok"
  BY <1>2 DEF EntryEnds, Goto
<1> DEFINE entry == /\ pc' \in {"menu", "menuEnd"}
                    /\ pc' = "menu" => menu_ret' = "ok"
                    /\ menu_ret' \in {"loaded", "loadedInit"} =>
                         /\ InBuffer'
                         /\ menu_ret' = IF launched'.firm \in ScreenInit THEN "loadedInit" ELSE "loaded"
                    /\ Cold => stored_slot' \in {255, register'}
                    /\ ~Cold => UNCHANGED slotStore
<1>3. Cold => stored_slot \in {255, register}
  BY DEF StoreMatches
<1>4. ASSUME UNCHANGED slotStore PROVE Cold => stored_slot' \in {255, register'}
  BY <1>3, <1>4 DEF slotStore
<1>5. ASSUME NEW f \in Firms, NEW s \in Slots \cup {0}, Launch(f, s) PROVE entry
  <2>1. CASE Loads(f)
    <3>1. /\ loadVerifyFirm(f, s) /\ storeBootslot(s)
          /\ EntryEnds(IF ErrorOf(f) = "init" THEN "loadedInit" ELSE "loaded")
      BY <1>5, <2>1 DEF Launch
    <3>2. /\ InBuffer'
          /\ ErrorOf(f) = IF launched'.firm \in ScreenInit THEN "init" ELSE "ok"
          /\ Cold => stored_slot' \in {255, register'}
          /\ ~Cold => UNCHANGED slotStore
      BY <1>1, <2>1, <3>1, LoadedAndStored
    <3> QED BY <1>2, <3>1, <3>2
  <2>2. CASE ~Loads(f)
    <3>1. EntryEnds("ok") /\ UNCHANGED slotStore
      BY <1>5, <2>2 DEF Launch
    <3> QED BY <1>2, <1>4, <3>1
  <2> QED BY <2>1, <2>2
<1>6. ASSUME NEW ret \in {"ok", "continue", "reboot"}, EntryEnds(ret), UNCHANGED slotStore PROVE entry
  BY <1>2, <1>4, <1>6
<1>7. entry
  <2> HIDE DEF entry
  <2>1. CASE menuLaunchFirm
    <3>1. CASE \E f \in Firms : Launch(f, 0)
      BY <3>1, <1>5
    <3>2. CASE \E s \in Slots : HasFirm(s) /\ Launch(slots[s].firm, s)
      BY <3>2, <1>5, SlotFirm DEF Types
    <3>3. CASE EntryEnds("ok") /\ UNCHANGED slotStore
      BY <3>3, <1>6
    <3> QED BY <2>1, <3>1, <3>2, <3>3 DEF menuLaunchFirm
  <2>2. CASE Setup
    BY <2>2, <1>6 DEF Setup
  <2>3. CASE Flash
    BY <2>3, <1>6 DEF Flash
  <2>4. CASE Continue
    BY <2>4, <1>6 DEF Continue
  <2>5. CASE NandTool
    <3>1. CASE EntryEnds("ok")
      BY <2>5, <3>1, <1>6 DEF NandTool
    <3>2. CASE menu_ret' = "ok" /\ pc' = "menu"
      BY <2>5, <3>2, <1>4 DEF NandTool, entry
    <3> QED BY <2>5, <3>1, <3>2 DEF NandTool, Goto
  <2> QED BY <2>1, <2>2, <2>3, <2>4, <2>5 DEF MenuEntry
<1>8. ReadyMatches' /\ StopsRight'
  BY <1>1, <1>7 DEF ReadyMatches, StopsRight, NoCodeEnd
<1>9. StoreMatches'
  BY <1>1, <1>7 DEF StoreMatches, readStoredBootslot, slotStore, Cold
<1>10. ReturnsTo' /\ HomeLeads'
  BY <1>1, <1>7 DEF ReturnsTo, Unattended, HomeLeads, slotStore, Cold
<1> QED BY <1>8, <1>9, <1>10

LEMMA AgainStep ==
  ASSUME Types, Core, Again
  PROVE  Core'
<1> USE DEF Core
<1>1. /\ pc \in {"rebooted", "firm"} /\ pc' = "start"
      /\ stored_slot' = 255 /\ nextBootSlot' = 0 /\ ~startFirmLaunch' /\ ~homeAtStart'
      /\ UNCHANGED <<register, coldSlot>>
  BY DEF Again
<1>2. ReadyMatches' /\ StopsRight'
  BY <1>1 DEF ReadyMatches, StopsRight, NoCodeEnd
<1>3. StoreMatches' /\ ReturnsTo' /\ HomeLeads'
  BY <1>1 DEF StoreMatches, ReturnsTo, HomeLeads
<1> QED BY <1>2, <1>3

-----------------------------------------------------------------------------
(* The theorems.                                                           *)

LEMMA BootInductive ==
  ASSUME BootIInv, [Next]_vars
  PROVE  BootIInv'
<1>1. Types' /\ Types /\ Core
  BY TypeStep DEF BootIInv, Core
<1>2. CASE UNCHANGED vars
  <2>1. Core'
    BY <1>1, <1>2
    DEF vars, config, input, slotStore, locals, history, Core, ReadyMatches, InBuffer,
    StoreMatches,
        readStoredBootslot, ReturnsTo, Unattended, HomeLeads, StopsRight, NoCodeEnd, Cold
  <2> QED BY <1>1, <2>1 DEF BootIInv, Core
<1>3. CASE Program
  <2>1. Core'
    BY <1>1, <1>3, StartStep, SplashStep, ComboStep, RamFirmStep, LoopStep, ShowErrorStep,
       MenuPowerStep, MenuEndStep, SearchStep, LastChanceStep, EndStep DEF Program
  <2> QED BY <1>1, <2>1 DEF BootIInv, Core
<1>4. CASE User \/ MenuEntry \/ Again
  <2>1. Core'
    BY <1>1, <1>4, UserStep, MenuEntryStep, AgainStep
  <2> QED BY <1>1, <2>1 DEF BootIInv, Core
<1> QED BY <1>2, <1>3, <1>4 DEF Next

LEMMA BootInitially ==
  ASSUME Init
  PROVE  BootIInv
<1>1. Types
  BY TypeInit
<1>2. /\ pc = "start" /\ ~startFirmLaunch /\ stored_slot = 255 /\ nextBootSlot = 0
      /\ coldSlot = 0 /\ ~homeAtStart
  BY DEF Init
<1> QED BY <1>1, <1>2
        DEF BootIInv, ReadyMatches, StoreMatches, ReturnsTo, HomeLeads, StopsRight,
        NoCodeEnd

LEMMA BootInvariant == Spec => []BootIInv
<1>1. Init => BootIInv
  BY BootInitially
<1>2. BootIInv /\ [Next]_vars => BootIInv'
  BY BootInductive
<1> QED BY <1>1, <1>2, PTL DEF Spec

\* A launched firmware is the one the last successful load put into the
\* buffer, on the screens it wants, and the program does not fall off its end,
\* whatever the user does in the menu and however often the console restarts.
THEOREM BootInvHolds == Spec => []BootInv
<1>1. BootIInv => BootInv
  <2> SUFFICES ASSUME BootIInv PROVE BootInv
    OBVIOUS
  <2>1. LaunchesWhatItSays
    BY DEF BootIInv, StopsRight, ReadyMatches, InBuffer, LaunchesWhatItSays
  <2> QED BY <2>1 DEF BootIInv, Types, StopsRight, BootInv
<1> QED BY <1>1, BootInvariant, PTL

\* After a cold boot the MCU says which slot the running firmware came from.
THEOREM SlotMatchesHolds == Spec => []SlotMatches
<1>1. BootIInv => SlotMatches
  BY DEF BootIInv, StopsRight, ReadyMatches, InBuffer, SlotMatches
<1> QED BY <1>1, BootInvariant, PTL

\* A firmware that reboots without anyone at the console comes back.
THEOREM RebootReturnsHolds == Spec => []RebootReturns
<1>1. BootIInv => RebootReturns
  <2> SUFFICES ASSUME BootIInv, pc = "firm", Unattended, coldSlot # 0
               PROVE  launched.slot = coldSlot
    BY DEF RebootReturns
  <2>1. CASE Cold
    BY <2>1 DEF BootIInv, StopsRight
  <2>2. CASE ~Cold
    <3>1. register = coldSlot /\ coldSlot \in Slots
      BY DEF BootIInv, ReturnsTo, Types, HistoryTypeOK
    <3>2. nextBootSlot = coldSlot
      BY <2>2, <3>1, Limits DEF BootIInv, StoreMatches, readStoredBootslot, Slots
    <3> QED BY <2>2, <3>2 DEF BootIInv, StopsRight, ReturnsTo
  <2> QED BY <2>1, <2>2
<1> QED BY <1>1, BootInvariant, PTL

\* HOME held when the console is powered on is not overlooked.
THEOREM HomeShowsMenuHolds == Spec => []HomeShowsMenu
<1>1. BootIInv => HomeShowsMenu
  BY DEF BootIInv, HomeLeads, HomeShowsMenu
<1> QED BY <1>1, BootInvariant, PTL

=============================================================================
