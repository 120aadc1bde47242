----------------------------- MODULE EventsProofs -----------------------------
(***************************************************************************)
(* Theorems about Events, for any number of moves by the user.             *)
(***************************************************************************)
EXTENDS Events, TLAPS

-----------------------------------------------------------------------------
(* The inductive invariant.                                                *)

BootSteps == {"arm", "sampleShell", "sampleHome"}

\* The reader has nothing before it has read, and does nothing while the keys
\* are sampled or after a panic.
ReaderOK ==
  /\ getter \in [at : {"idle", "read", "store", "return"}, data : SUBSET (HidEvents \cup LcdEvents)]
  /\ getter.at \in {"idle", "read"} => getter.data = {}
  /\ pc \in BootSteps \cup {"panicked"} => getter.at = "idle"

\* What an earlier program left in the register is read and dropped, or the
\* transfer failed.
DrainOK ==
  pc = "drain" =>
    /\ request = <<>>
    /\ getter.at = "idle" => g_mcuIrq
    /\ getter.at \in {"store", "return"} => register \cap LcdEvents = {} \/ undrained

\* The answer to a command is in one place at a time: not given yet, in the
\* register, or read.  Elsewhere the MCU has nothing to say of the screens.
OneAnswer ==
  pc # "drain" /\ ~undrained =>
    /\ pc \in Waits => /\ register \cap LcdEvents \subseteq {Expected[pc]}
                       /\ getter.data \cap LcdEvents \subseteq {Expected[pc]}
                       /\ request \in {<<>>, <<Expected[pc]>>}
    /\ pc \notin Waits => register \cap LcdEvents = {} /\ request = <<>>
                          /\ getter.data \cap LcdEvents = {}
    /\ register \cap LcdEvents # {} => request = <<>> /\ getter.data \cap LcdEvents = {}
    /\ getter.data \cap LcdEvents # {} => request = <<>>

\* The screens' waits keep what is theirs only.
WaitsKeep == pc \in Waits /\ getter.at = "return" => getter.data \subseteq LcdEvents

\* Whoever has an event that closes has the later one that opens, or it comes.
OpensLater(down, up) ==
  /\ down \in register => up \in register
  /\ down \in getter.data => up \in getter.data \cup register
ShellOK ==
  ~closed => /\ OpensLater("close", "open")
             /\ pc \notin {"drain", "arm", "sampleShell"} /\ "shell" \in g_extraKeys => Coming("open")
HomeOK ==
  /\ ~home => /\ OpensLater("home", "homeUp")
              /\ pc \notin {"drain"} \cup BootSteps /\ "home" \in g_extraKeys => Coming("homeUp")
  /\ pc = "sampleHome" => "home" \notin g_extraKeys
PowerOK ==
  pressed => IF pc \in {"drain"} \cup BootSteps THEN "power" \in register
             ELSE "power" \in g_extraKeys \/ Coming("power")

EventsIInv ==
  /\ EventsInv
  /\ ReaderOK /\ DrainOK /\ OneAnswer /\ WaitsKeep
  /\ ShellOK /\ HomeOK /\ PowerOK

Calm == mcuIrqHandler \/ VBlank \/ Sleep \/ AwaitRelease \/ UpdateScreens \/ Discard \/ CopyShown

\* Interrupts, the loops' entries and the copies leave events and keys alone.
LEMMA CalmSteps ==
  ASSUME Calm
  PROVE  /\ UNCHANGED <<register, armed, getter, g_extraKeys, gfxOn, request, unsent, undrained, user,
                        swallowed, missed>>
         /\ pc' = pc \/ ({pc, pc'} \subseteq Loops \cup {"run", "discard", "copy"})
         /\ g_mcuIrq => g_mcuIrq'
<1>1. CASE mcuIrqHandler
  BY <1>1 DEF mcuIrqHandler
<1>2. CASE VBlank
  BY <1>2 DEF VBlank, user
<1>3. CASE Sleep
  BY <1>3 DEF Sleep, Loops
<1>4. CASE AwaitRelease
  BY <1>4 DEF AwaitRelease, Loops
<1>5. CASE UpdateScreens
  BY <1>5 DEF UpdateScreens
<1>6. CASE Discard
  BY <1>6 DEF Discard
<1>7. CASE CopyShown
  BY <1>7 DEF CopyShown
<1> QED BY <1>1, <1>2, <1>3, <1>4, <1>5, <1>6, <1>7 DEF Calm

LEMMA NextSteps ==
  ASSUME [Next]_vars
  PROVE  \/ Move \/ Answer \/ TestFlag \/ ReadRegister \/ ReadFails \/ StoreFlag
         \/ Scanned \/ PowerRefused \/ GFX_init \/ GFX_deinit \/ WaitAgain \/ Answered
         \/ Drain \/ Arm \/ SampleShell \/ SampleHome \/ Calm \/ UNCHANGED vars
BY DEF Next, Get, Hid, Gfx, Boot, Update, Calm

\* What a move of the user does.
LEMMA MoveSteps ==
  ASSUME Move
  PROVE  /\ UNCHANGED <<armed, program, request, unsent, undrained, missed, copy>>
         /\ \E e \in HidEvents : Raise(e)
         /\ \/ PressPower \/ MoveShell \/ MoveHome
BY DEF Move, PressPower, MoveShell, MoveHome, HidEvents

-----------------------------------------------------------------------------
(* Types.                                                                  *)

Bits == /\ line \in BOOLEAN /\ armed \in BOOLEAN /\ g_mcuIrq \in BOOLEAN /\ gfxOn \in BOOLEAN
        /\ waiting \in BOOLEAN /\ closed \in BOOLEAN /\ home \in BOOLEAN
        /\ pressed \in BOOLEAN /\ missed \in BOOLEAN /\ unsent \in BOOLEAN
        /\ undrained \in BOOLEAN

LEMMA BitsAreTypes == Bits <=> {line, armed, g_mcuIrq, gfxOn, waiting, closed, home, pressed, missed,
             unsent, undrained} \subseteq BOOLEAN
BY DEF Bits

LEMMA BitsStep ==
  ASSUME Bits, [Next]_vars
  PROVE  Bits'
<1> USE DEF Bits
<1>1. CASE Move
  <2>1. line' \in BOOLEAN
    BY <1>1, MoveSteps DEF Raise
  <2>2. closed' \in BOOLEAN /\ home' \in BOOLEAN /\ pressed' \in BOOLEAN
    BY <1>1 DEF Move, PressPower, MoveShell, MoveHome
  <2> QED BY <1>1, <2>1, <2>2 DEF Move, program
<1>2. CASE Answer
  <2>1. line' \in BOOLEAN
    BY <1>2 DEF Answer, Raise
  <2> QED BY <1>2, <2>1 DEF Answer, program, user
<1>3. CASE TestFlag
  BY <1>3 DEF TestFlag, user
<1>4. CASE ReadRegister
  BY <1>4 DEF ReadRegister
<1>5. CASE ReadFails
  BY <1>5 DEF ReadFails, user
<1>6. CASE StoreFlag
  BY <1>6 DEF StoreFlag, user
<1>7. CASE Scanned
  BY <1>7 DEF Scanned, user
<1>8. CASE PowerRefused
  BY <1>8 DEF PowerRefused
<1>9. CASE GFX_init \/ GFX_deinit \/ WaitAgain
  <2>1. CASE GFX_init
    BY <2>1 DEF GFX_init, Command, user
  <2>2. CASE GFX_deinit \/ WaitAgain
    BY <2>2 DEF GFX_deinit, Command, WaitAgain, user
  <2> QED BY <1>9, <2>1, <2>2
<1>10. CASE Answered
  BY <1>10 DEF Answered, Command, user
<1>11. CASE Drain \/ Arm \/ SampleShell \/ SampleHome
  <2>1. CASE Drain \/ Arm
    BY <2>1 DEF Drain, Arm, user
  <2>2. CASE SampleShell \/ SampleHome
    BY <2>2 DEF SampleShell, SampleHome, user
  <2> QED BY <1>11, <2>1, <2>2
<1>12. CASE Calm
  <2>1. CASE mcuIrqHandler \/ VBlank \/ Sleep \/ AwaitRelease
    BY <2>1 DEF mcuIrqHandler, VBlank, Sleep, AwaitRelease, user
  <2>2. CASE UpdateScreens \/ Discard \/ CopyShown
    BY <2>2 DEF UpdateScreens, Discard, CopyShown, user
  <2> QED BY <1>12, <2>1, <2>2 DEF Calm
<1>13. CASE UNCHANGED vars
  BY <1>13 DEF vars, program, user
<1> QED BY <1>1, <1>2, <1>3, <1>4, <1>5, <1>6, <1>7, <1>8, <1>9, <1>10, <1>11, <1>12,
       <1>13, NextSteps

LEMMA WaitsAre ==
  /\ Waits = {"gfxPower", "gfxLights", "gfxDim", "gfxDark"}
  /\ DOMAIN NextWait = {"gfxPower", "gfxDim"}
  /\ NextWait["gfxPower"] = "gfxLights" /\ NextWait["gfxDim"] = "gfxDark"
  /\ \A p \in Waits : Expected[p] \in LcdEvents
BY DEF Waits, Expected, LcdEvents, NextWait

Sets == /\ register \subseteq HidEvents \cup LcdEvents
        /\ g_extraKeys \subseteq {"power", "home", "shell"}
        /\ pc \in Waits \cup Loops \cup {"drain", "arm", "sampleShell", "sampleHome", "run",
                                        "discard", "copy", "panicked", "ended"}
        /\ request \in Seq(LcdEvents)
        /\ moves \in 0..MaxMoves
        /\ swallowed \subseteq HidEvents \cup LcdEvents
        /\ copy \in {"none", "busy", "lost"}

LEMMA TypesAre ==
  ASSUME ReaderOK
  PROVE  EventsTypeOK <=> Bits /\ Sets
BY BitsAreTypes DEF EventsTypeOK, ReaderOK, Sets

LEMMA SetsStep ==
  ASSUME Sets, ReaderOK, [Next]_vars
  PROVE  Sets'
<1> USE DEF Sets
<1>1. CASE Move
  <2>1. register' \subseteq HidEvents \cup LcdEvents
    BY <1>1, MoveSteps DEF Raise
  <2>2. moves' \in 0..MaxMoves
    BY <1>1, MovesAssumption DEF Move
  <2>3. swallowed' \subseteq HidEvents \cup LcdEvents
    BY <1>1 DEF Move, PressPower, MoveShell, MoveHome
  <2> QED BY <1>1, <2>1, <2>2, <2>3 DEF Move, program
<1>2. CASE Answer
  BY <1>2 DEF Answer, Raise, program, user
<1>3. CASE TestFlag \/ ReadRegister \/ ReadFails
  BY <1>3 DEF TestFlag, ReadRegister, ReadFails, user
<1>4. CASE StoreFlag
  BY <1>4 DEF StoreFlag, ReaderOK, LeftOver, user
<1>5. CASE Scanned
  <2>1. g_extraKeys' \subseteq {"power", "home", "shell"}
    BY <1>5 DEF Scanned, updateMcuHidState, KeysAfter, Set
  <2>2. pc' \in Loops \cup {"run"}
    BY <1>5 DEF Scanned
  <2>3. UNCHANGED <<register, request, moves, swallowed, copy>>
    BY <1>5 DEF Scanned, user
  <2> QED BY <2>1, <2>2, <2>3
<1>6. CASE PowerRefused
  BY <1>6 DEF PowerRefused
<1>7. CASE GFX_init \/ GFX_deinit
  <2>1. /\ pc' \in Waits
        /\ \E p \in Waits : request' \in {request, Append(request, Expected[p])}
        /\ UNCHANGED <<register, g_extraKeys, moves, swallowed, copy>>
    BY <1>7, WaitsAre DEF GFX_init, GFX_deinit, Command, user
  <2>2. request' \in Seq(LcdEvents)
    BY <2>1, WaitsAre
  <2> QED BY <2>1, <2>2
<1>8. CASE WaitAgain
  BY <1>8 DEF WaitAgain, user
<1>9. CASE Answered
  <2>1. /\ pc' \in Waits \cup {"run", "ended", "panicked"}
        /\ request' \in Seq(LcdEvents)
    BY <1>9, WaitsAre DEF Answered, Command
  <2> QED BY <1>9, <2>1 DEF Answered, user
<1>10. CASE Drain \/ Arm \/ SampleShell \/ SampleHome
  BY <1>10 DEF Drain, Arm, SampleShell, SampleHome, user
<1>11. CASE Calm
  <2>1. copy' \in {"none", "busy", "lost"}
    BY <1>11 DEF Calm, mcuIrqHandler, VBlank, Sleep, AwaitRelease, UpdateScreens,
         Discard, CopyShown
  <2> QED BY <1>11, <2>1, CalmSteps DEF user
<1>12. CASE UNCHANGED vars
  BY <1>12 DEF vars, program, user
<1> QED BY <1>1, <1>2, <1>3, <1>4, <1>5, <1>6, <1>7, <1>8, <1>9, <1>10, <1>11, <1>12,
       NextSteps

LEMMA ReaderStep ==
  ASSUME Sets, ReaderOK, [Next]_vars
  PROVE  ReaderOK'
<1> USE DEF ReaderOK
<1>0. \A b \in BOOLEAN : [at |-> IF b THEN "read" ELSE "store", data |-> {}]
        \in [at : {"idle", "read", "store", "return"}, data : SUBSET (HidEvents \cup LcdEvents)]
  OBVIOUS
<1>1. CASE Move \/ Answer
  BY <1>1 DEF Move, Answer, program
<1>2. CASE TestFlag
  <2>1. getter' = [at |-> IF g_mcuIrq THEN "read" ELSE "store", data |-> {}] /\ pc' = pc /\ Scans
    BY <1>2 DEF TestFlag
  <2> QED BY <2>1, WaitsAre DEF Scans, Loops, BootSteps
<1>3. CASE ReadRegister
  BY <1>3 DEF ReadRegister, Sets
<1>4. CASE ReadFails
  BY <1>4 DEF ReadFails
<1>5. CASE StoreFlag
  BY <1>5 DEF StoreFlag
<1>6. CASE Scanned \/ WaitAgain \/ Answered \/ Drain
  <2>1. getter' = Idle
    BY <1>6 DEF Scanned, WaitAgain, Answered, Drain
  <2> QED BY <2>1 DEF Idle
<1>7. CASE PowerRefused \/ GFX_init \/ GFX_deinit
  BY <1>7 DEF PowerRefused, GFX_init, GFX_deinit
<1>8. CASE Arm \/ SampleShell \/ SampleHome
  BY <1>8 DEF Arm, SampleShell, SampleHome, BootSteps
<1>9. CASE Calm
  BY <1>9, CalmSteps DEF Loops, BootSteps
<1>10. CASE UNCHANGED vars
  BY <1>10 DEF vars, program
<1> QED BY <1>1, <1>2, <1>3, <1>4, <1>5, <1>6, <1>7, <1>8, <1>9, <1>10, NextSteps

-----------------------------------------------------------------------------
(* The flag and the line.                                                  *)

LEMMA NoticedStep ==
  ASSUME Noticed, [Next]_vars
  PROVE  Noticed'
<1> USE DEF Noticed
<1>1. ASSUME NEW e, Raise(e), UNCHANGED <<armed, program, missed>>
      PROVE  Noticed'
  BY <1>1 DEF Raise, program
<1>2. CASE Move \/ Answer
  BY <1>1, <1>2, MoveSteps DEF Answer
<1>3. CASE TestFlag
  BY <1>3 DEF TestFlag
<1>4. CASE ReadRegister
  BY <1>4 DEF ReadRegister
<1>5. CASE ReadFails
  BY <1>5 DEF ReadFails
<1>6. CASE StoreFlag
  BY <1>6 DEF StoreFlag
<1>7. CASE Scanned \/ WaitAgain \/ Answered \/ Drain
  BY <1>7 DEF Scanned, WaitAgain, Answered, Drain
<1>8. CASE PowerRefused \/ GFX_init \/ GFX_deinit
  BY <1>8 DEF PowerRefused, GFX_init, GFX_deinit
<1>9. CASE Arm \/ SampleShell \/ SampleHome
  BY <1>9 DEF Arm, SampleShell, SampleHome
<1>10. CASE mcuIrqHandler
  BY <1>10 DEF mcuIrqHandler
<1>11. CASE VBlank \/ Sleep \/ AwaitRelease \/ UpdateScreens \/ Discard \/ CopyShown
  BY <1>11 DEF VBlank, Sleep, AwaitRelease, UpdateScreens, Discard, CopyShown
<1>12. CASE UNCHANGED vars
  BY <1>12 DEF vars, program
<1> QED BY <1>2, <1>3, <1>4, <1>5, <1>6, <1>7, <1>8, <1>9, <1>10, <1>11, <1>12,
       NextSteps DEF Calm

-----------------------------------------------------------------------------
(* The answers of the screens.                                             *)

\* No event of the keys is one of the screens.
LEMMA TwoKinds == HidEvents \cap LcdEvents = {}
BY DEF HidEvents, LcdEvents

\* Where the program does not sample at boot, the drain stays over.
LEMMA DrainStays ==
  ASSUME ReaderOK, [Next]_vars, pc # "drain"
  PROVE  pc' # "drain"
<1>1. CASE Move \/ Answer \/ TestFlag \/ ReadRegister \/ ReadFails \/ StoreFlag
  BY <1>1 DEF Move, Answer, TestFlag, ReadRegister, ReadFails, StoreFlag, program
<1>2. CASE Scanned \/ PowerRefused \/ WaitAgain
  BY <1>2 DEF Scanned, PowerRefused, WaitAgain, Loops
<1>3. CASE GFX_init \/ GFX_deinit \/ Answered
  BY <1>3, WaitsAre DEF GFX_init, GFX_deinit, Answered, Command
<1>4. CASE Drain \/ Arm \/ SampleShell \/ SampleHome
  BY <1>4 DEF Drain, Arm, SampleShell, SampleHome
<1>5. CASE Calm
  BY <1>5, CalmSteps DEF Loops
<1>6. CASE UNCHANGED vars
  BY <1>6 DEF vars, program
<1> QED BY <1>1, <1>2, <1>3, <1>4, <1>5, <1>6, NextSteps

LEMMA DrainStep ==
  ASSUME ReaderOK, DrainOK, [Next]_vars
  PROVE  DrainOK'
<1> SUFFICES ASSUME pc' = "drain", pc = "drain" PROVE DrainOK'
  BY DrainStays DEF DrainOK
<1> USE DEF DrainOK
<1>1. CASE Move
  <2>1. PICK e \in HidEvents : register' = register \cup {e}
    BY <1>1, MoveSteps DEF Raise
  <2> QED BY <1>1, <2>1, TwoKinds DEF Move, program
<1>2. CASE TestFlag
  BY <1>2 DEF TestFlag
<1>3. CASE ReadRegister
  BY <1>3 DEF ReadRegister
<1>4. CASE StoreFlag
  BY <1>4 DEF StoreFlag
<1>5. CASE Calm
  BY <1>5, CalmSteps DEF Loops
<1>6. CASE UNCHANGED vars
  BY <1>6 DEF vars, program
<1>9. CASE ReadFails
  BY <1>9 DEF ReadFails
<1>7. ~Answer /\ ~Scanned /\ ~PowerRefused /\ ~GFX_init /\ ~GFX_deinit /\ ~WaitAgain /\ ~Answered
  BY WaitsAre DEF Answer, Scanned, Loops, PowerRefused, GFX_init, GFX_deinit,
       WaitAgain, Answered
<1>8. ~Drain /\ ~Arm /\ ~SampleShell /\ ~SampleHome
  BY DEF Drain, Arm, SampleShell, SampleHome
<1> QED BY <1>1, <1>2, <1>3, <1>4, <1>5, <1>6, <1>7, <1>8, <1>9, NextSteps

\* The LCD commands that are on their way: none or one.
LEMMA OneInLine ==
  /\ \A e : Append(<<>>, e) = <<e>> /\ <<e>> # <<>> /\ Head(<<e>>) = e /\ Tail(<<e>>) = <<>>
  /\ \A e : <<e>> \in Seq(LcdEvents) => e \in LcdEvents
OBVIOUS

\* What MCU_init failed to drop stays a danger until hid.c has read it away.
LEMMA UndrainedSteps ==
  ASSUME [Next]_vars
  PROVE  undrained' = undrained \/ ReadFails \/ StoreFlag
<1>1. CASE Move \/ Answer \/ TestFlag \/ ReadRegister
  BY <1>1 DEF Move, Answer, TestFlag, ReadRegister
<1>2. CASE Scanned \/ PowerRefused \/ WaitAgain \/ GFX_init \/ GFX_deinit \/ Answered
  BY <1>2 DEF Scanned, PowerRefused, WaitAgain, GFX_init, GFX_deinit, Answered
<1>3. CASE Drain \/ Arm \/ SampleShell \/ SampleHome
  BY <1>3 DEF Drain, Arm, SampleShell, SampleHome
<1>4. CASE Calm
  BY <1>4, CalmSteps
<1>5. CASE UNCHANGED vars
  BY <1>5 DEF vars
<1> QED BY <1>1, <1>2, <1>3, <1>4, <1>5, NextSteps

LEMMA WaitsKeepStep ==
  ASSUME Sets, ReaderOK, WaitsKeep, [Next]_vars
  PROVE  WaitsKeep'
<1> USE DEF WaitsKeep
<1>1. CASE Move \/ Answer
  BY <1>1 DEF Move, Answer, program
<1>2. CASE TestFlag
  BY <1>2 DEF TestFlag
<1>3. CASE ReadRegister
  BY <1>3 DEF ReadRegister
<1>4. CASE ReadFails
  BY <1>4 DEF ReadFails
<1>5. CASE StoreFlag
  BY <1>5 DEF StoreFlag, Mask
<1>6. CASE Scanned \/ WaitAgain \/ Answered \/ Drain
  <2>1. getter'.at = "idle"
    BY <1>6 DEF Scanned, WaitAgain, Answered, Drain, Idle
  <2> QED BY <2>1
<1>7. CASE PowerRefused
  BY <1>7 DEF PowerRefused
<1>8. CASE GFX_init \/ GFX_deinit
  BY <1>8 DEF GFX_init, GFX_deinit
<1>9. CASE Arm \/ SampleShell \/ SampleHome
  BY <1>9, WaitsAre DEF Arm, SampleShell, SampleHome
<1>10. CASE Calm
  BY <1>10, CalmSteps, WaitsAre DEF Loops
<1>11. CASE UNCHANGED vars
  BY <1>11 DEF vars, program
<1> QED BY <1>1, <1>2, <1>3, <1>4, <1>5, <1>6, <1>7, <1>8, <1>9, <1>10, <1>11, NextSteps

\* Neither the flag nor the reader of another wait loses or invents an answer.
LEMMA AnswerStep ==
  ASSUME Sets, ReaderOK, DrainOK, OneAnswer, WaitsKeep, [Next]_vars
  PROVE  OneAnswer'
<1> SUFFICES ASSUME ~undrained', pc' # "drain" PROVE OneAnswer'
  BY DEF OneAnswer
<1> USE DEF OneAnswer, WaitsKeep
<1>16. CASE undrained
  <2>1. StoreFlag
    BY <1>16, UndrainedSteps DEF ReadFails
  <2>2. /\ pc \notin Waits /\ request = <<>> /\ register \cap LcdEvents = {}
        /\ UNCHANGED <<pc, request, register>> /\ getter'.data = getter.data \cap Mask
    BY <1>16, <2>1 DEF StoreFlag
  <2>3. getter'.data \cap LcdEvents = {}
    BY <2>2, TwoKinds DEF Mask
  <2> QED BY <2>2, <2>3
<1> SUFFICES ASSUME ~undrained PROVE OneAnswer'
  BY <1>16
<1>1. CASE Move
  <2>1. PICK e \in HidEvents : register' = register \cup {e}
    BY <1>1, MoveSteps DEF Raise
  <2>2. register' \cap LcdEvents = register \cap LcdEvents
    BY <2>1, TwoKinds
  <2> QED BY <1>1, <2>2 DEF Move, program
<1>2. CASE Answer
  <2>0. /\ request # <<>> /\ request' = Tail(request)
        /\ register' = register \cup {Head(request)}
        /\ UNCHANGED program
    BY <1>2 DEF Answer, Raise
  <2>2. pc \in Waits /\ request = <<Expected[pc]>>
    BY <2>0 DEF DrainOK
  <2>1. /\ request # <<>> /\ request' = <<>> /\ register' = register \cup {Expected[pc]}
        /\ UNCHANGED program
    BY <2>0, <2>2, OneInLine
  <2>3. register \cap LcdEvents = {} /\ getter.data \cap LcdEvents = {}
    BY <2>1, <2>2, WaitsAre
  <2>4. register' \cap LcdEvents = {Expected[pc]}
    BY <2>1, <2>2, <2>3, WaitsAre
  <2> QED BY <2>1, <2>2, <2>3, <2>4 DEF program
<1>3. CASE TestFlag
  BY <1>3 DEF TestFlag
<1>4. CASE ReadRegister
  BY <1>4 DEF ReadRegister, ReaderOK
<1>5. CASE ReadFails
  BY <1>5 DEF ReadFails
<1>6. CASE StoreFlag
  BY <1>6 DEF StoreFlag
<1>7. CASE Scanned
  BY <1>7, WaitsAre DEF Scanned, Idle, Loops
<1>8. CASE PowerRefused
  BY <1>8 DEF PowerRefused
<1>9. CASE GFX_init \/ GFX_deinit
  <2>1. /\ pc = "run" /\ pc' \in Waits /\ getter.at = "idle"
        /\ request' \in {request, Append(request, Expected[pc'])}
        /\ UNCHANGED <<register, getter>>
    BY <1>9, WaitsAre DEF GFX_init, GFX_deinit, Command
  <2>2. request' \in {<<>>, <<Expected[pc']>>}
    BY <2>1, WaitsAre, OneInLine
  <2> QED BY <2>1, <2>2, WaitsAre
<1>10. CASE WaitAgain
  BY <1>10 DEF WaitAgain, Idle
<1>11. CASE Answered
  <2>1. /\ pc \in Waits /\ getter.at = "return" /\ getter.data # {} /\ getter' = Idle
        /\ UNCHANGED register
    BY <1>11 DEF Answered
  <2>2. getter.data = {Expected[pc]}
    BY <2>1, WaitsAre
  <2>3. request = <<>> /\ register \cap LcdEvents = {}
    BY <2>1, <2>2, WaitsAre
  <2>4. \/ pc' \in Waits /\ request' \in {<<>>, <<Expected[pc']>>}
        \/ pc' \in {"run", "ended"} /\ request' = <<>>
    BY <1>11, <2>2, <2>3, WaitsAre, OneInLine DEF Answered, Command
  <2> QED BY <2>1, <2>3, <2>4, WaitsAre DEF Idle
<1>12. CASE Drain
  BY <1>12, WaitsAre DEF Drain, Idle, DrainOK
<1>13. CASE Arm \/ SampleShell \/ SampleHome
  BY <1>13, WaitsAre DEF Arm, SampleShell, SampleHome
<1>14. CASE Calm
  BY <1>14, CalmSteps, WaitsAre DEF Loops
<1>15. CASE UNCHANGED vars
  BY <1>15 DEF vars, program
<1> QED BY <1>1, <1>2, <1>3, <1>4, <1>5, <1>6, <1>7, <1>8, <1>9, <1>10, <1>11, <1>12, <1>13,
           <1>14, <1>15, NextSteps

LEMMA NoPanicStep ==
  ASSUME ReaderOK, OneAnswer, WaitsKeep, NoScreenPanic, [Next]_vars
  PROVE  NoScreenPanic'
<1> USE DEF NoScreenPanic
<1>1. CASE Move \/ Answer \/ TestFlag \/ ReadRegister \/ ReadFails \/ StoreFlag
  BY <1>1 DEF Move, Answer, TestFlag, ReadRegister, ReadFails, StoreFlag, program, ReaderOK
<1>2. CASE Scanned \/ PowerRefused \/ WaitAgain
  BY <1>2 DEF Scanned, PowerRefused, WaitAgain, Loops
<1>3. CASE GFX_init \/ GFX_deinit
  BY <1>3, WaitsAre DEF GFX_init, GFX_deinit, Command
<1>4. CASE Answered
  <2>1. ~undrained => getter.data = {Expected[pc]}
    BY <1>4, WaitsAre DEF Answered, OneAnswer, WaitsKeep
  <2> QED BY <1>4, <2>1, WaitsAre DEF Answered, Command
<1>5. CASE Drain \/ Arm \/ SampleShell \/ SampleHome
  BY <1>5 DEF Drain, Arm, SampleShell, SampleHome
<1>6. CASE Calm
  BY <1>6, CalmSteps DEF Loops
<1>7. CASE UNCHANGED vars
  BY <1>7 DEF vars, program
<1> QED BY <1>1, <1>2, <1>3, <1>4, <1>5, <1>6, <1>7, NextSteps

-----------------------------------------------------------------------------
(* The keys.  A reading moves the whole register, the other reader's share *)
(* is swallowed, and hid.c lets what opens win over what closes.           *)

LEMMA EventsAre ==
  /\ HidEvents = {"power", "home", "homeUp", "close", "open"}
  /\ LcdEvents = {"lcdOn", "lightsOn", "lightsOff", "lcdOff"}
BY DEF HidEvents, LcdEvents

\* The mask takes the events of the keys together or leaves them together.
LEMMA MaskIsWhole == HidEvents \subseteq Mask \/ HidEvents \cap Mask = {}
BY EventsAre DEF Mask

\* Steps that move no event and change no key.
Rests == UNCHANGED <<register, getter, g_extraKeys, swallowed, closed, home, pressed>>

LEMMA RestingSteps ==
  ASSUME ReaderOK, WaitsKeep,
         Calm \/ Arm \/ GFX_init \/ GFX_deinit \/ UNCHANGED vars
  PROVE  /\ Rests
         /\ \/ pc' = pc
            \/ pc = "arm" /\ pc' = "sampleShell"
            \/ {pc, pc'} \cap ({"drain"} \cup BootSteps) = {}
<1>1. CASE Calm
  BY <1>1, CalmSteps DEF Rests, user, Loops, BootSteps
<1>2. CASE Arm
  BY <1>2 DEF Arm, Rests, user
<1>3. CASE GFX_init \/ GFX_deinit
  BY <1>3 DEF GFX_init, GFX_deinit, Command, Rests, user, BootSteps
<1>4. CASE UNCHANGED vars
  BY <1>4 DEF vars, program, user, Rests
<1> QED BY <1>1, <1>2, <1>3, <1>4

\* Steps of the reader that give up what it has: nothing that is about a key.
LEMMA ForgettingSteps ==
  ASSUME ReaderOK, WaitsKeep,
         TestFlag \/ ReadFails \/ WaitAgain \/ Answered
  PROVE  /\ getter.data \cap HidEvents = {} /\ getter'.data = {}
         /\ UNCHANGED <<register, g_extraKeys, swallowed, closed, home, pressed>>
         /\ pc' = pc \/ {pc, pc'} \cap ({"drain"} \cup BootSteps) = {}
<1>1. CASE TestFlag
  BY <1>1 DEF TestFlag, ReaderOK, user
<1>2. CASE ReadFails
  BY <1>2 DEF ReadFails, ReaderOK, user
<1>3. CASE WaitAgain
  BY <1>3 DEF WaitAgain, Idle, user
<1>4. CASE Answered
  BY <1>4, WaitsAre, EventsAre DEF Answered, Idle, WaitsKeep, user, Command, BootSteps
<1> QED BY <1>1, <1>2, <1>3, <1>4

LEMMA ShellStep ==
  ASSUME Sets, ReaderOK, WaitsKeep, ShellOK, [Next]_vars
  PROVE  ShellOK'
<1> USE DEF ShellOK, OpensLater, Coming
<1>1. CASE Move
  <2>1. CASE MoveShell
    BY <1>1, <2>1 DEF Move, MoveShell, Raise, program
  <2>2. CASE PressPower \/ MoveHome
    <3>1. /\ UNCHANGED <<closed, program>>
          /\ \E e \in {"power", "home", "homeUp"} : register' = register \cup {e}
          /\ swallowed \ {"home", "homeUp"} \subseteq swallowed'
      BY <1>1, <2>2 DEF Move, PressPower, MoveHome, Raise
    <3> QED BY <3>1 DEF program
  <2> QED BY <1>1, <2>1, <2>2, MoveSteps
<1>2. CASE Answer
  BY <1>2, EventsAre DEF Answer, Raise, program, user, Sets
<1>3. CASE TestFlag \/ ReadFails \/ WaitAgain \/ Answered
  BY <1>3, ForgettingSteps, EventsAre DEF BootSteps
<1>4. CASE ReadRegister
  BY <1>4 DEF ReadRegister, ReaderOK
<1>5. CASE StoreFlag
  <2>1. /\ getter' = [at |-> "return", data |-> getter.data \cap Mask]
        /\ swallowed' = swallowed \cup (getter.data \ Mask)
        /\ UNCHANGED <<register, g_extraKeys, pc, closed>>
    BY <1>5 DEF StoreFlag, LeftOver, user
  <2> QED BY <2>1, MaskIsWhole, EventsAre
<1>6. CASE Scanned
  <2>1. /\ getter'.data = {} /\ UNCHANGED <<register, closed, swallowed>>
        /\ g_extraKeys' = KeysAfter(getter.data)
        /\ pc \in Loops \cup {"run"} /\ pc' \in Loops \cup {"run"}
    BY <1>6 DEF Scanned, Idle, updateMcuHidState, user
  <2>2. "shell" \in g_extraKeys' =>
           /\ "open" \notin getter.data
           /\ "shell" \in g_extraKeys \/ "close" \in getter.data
    BY <2>1 DEF KeysAfter, Set, Cleared
  <2> QED BY <2>1, <2>2 DEF Loops
<1>7. CASE PowerRefused
  BY <1>7 DEF PowerRefused
<1>8. CASE Drain
  BY <1>8 DEF Drain, Idle, user
<1>9. CASE SampleShell
  BY <1>9 DEF SampleShell, user
<1>10. CASE SampleHome
  BY <1>10 DEF SampleHome, user
<1>11. CASE Calm \/ Arm \/ GFX_init \/ GFX_deinit \/ UNCHANGED vars
  BY <1>11, RestingSteps DEF Rests, BootSteps
<1> QED BY <1>1, <1>2, <1>3, <1>4, <1>5, <1>6, <1>7, <1>8, <1>9, <1>10, <1>11, NextSteps

LEMMA HomeStep ==
  ASSUME Sets, ReaderOK, WaitsKeep, HomeOK, [Next]_vars
  PROVE  HomeOK'
<1> USE DEF HomeOK, OpensLater, Coming
<1>1. CASE Move
  <2>1. CASE MoveHome
    BY <1>1, <2>1 DEF Move, MoveHome, Raise, program
  <2>2. CASE PressPower \/ MoveShell
    <3>1. /\ UNCHANGED <<home, program>>
          /\ \E e \in {"power", "close", "open"} : register' = register \cup {e}
          /\ swallowed \ {"close", "open"} \subseteq swallowed'
      BY <1>1, <2>2 DEF Move, PressPower, MoveShell, Raise
    <3> QED BY <3>1 DEF program
  <2> QED BY <1>1, <2>1, <2>2, MoveSteps
<1>2. CASE Answer
  BY <1>2, EventsAre DEF Answer, Raise, program, user, Sets
<1>3. CASE TestFlag \/ ReadFails \/ WaitAgain \/ Answered
  BY <1>3, ForgettingSteps, EventsAre DEF BootSteps
<1>4. CASE ReadRegister
  BY <1>4 DEF ReadRegister, ReaderOK
<1>5. CASE StoreFlag
  <2>1. /\ getter' = [at |-> "return", data |-> getter.data \cap Mask]
        /\ swallowed' = swallowed \cup (getter.data \ Mask)
        /\ UNCHANGED <<register, g_extraKeys, pc, home>>
    BY <1>5 DEF StoreFlag, LeftOver, user
  <2> QED BY <2>1, MaskIsWhole, EventsAre
<1>6. CASE Scanned
  <2>1. /\ getter'.data = {} /\ UNCHANGED <<register, home, swallowed>>
        /\ g_extraKeys' = KeysAfter(getter.data)
        /\ pc \in Loops \cup {"run"} /\ pc' \in Loops \cup {"run"}
    BY <1>6 DEF Scanned, Idle, updateMcuHidState, user
  <2>2. "home" \in g_extraKeys' =>
           /\ "homeUp" \notin getter.data
           /\ "home" \in g_extraKeys \/ "home" \in getter.data
    BY <2>1 DEF KeysAfter, Set, Cleared
  <2> QED BY <2>1, <2>2 DEF Loops, BootSteps
<1>7. CASE PowerRefused
  BY <1>7 DEF PowerRefused
<1>8. CASE Drain
  BY <1>8 DEF Drain, Idle, user, BootSteps
<1>9. CASE SampleShell
  BY <1>9 DEF SampleShell, user, BootSteps
<1>10. CASE SampleHome
  BY <1>10 DEF SampleHome, user
<1>11. CASE Calm \/ Arm \/ GFX_init \/ GFX_deinit \/ UNCHANGED vars
  BY <1>11, RestingSteps DEF Rests, BootSteps
<1> QED BY <1>1, <1>2, <1>3, <1>4, <1>5, <1>6, <1>7, <1>8, <1>9, <1>10, <1>11, NextSteps

LEMMA PowerStep ==
  ASSUME Sets, ReaderOK, WaitsKeep, PowerOK, [Next]_vars
  PROVE  PowerOK'
<1> USE DEF PowerOK, Coming
<1>1. CASE Move
  <2>1. CASE PressPower
    BY <1>1, <2>1 DEF Move, PressPower, Raise, program
  <2>2. CASE MoveShell \/ MoveHome
    <3>1. /\ UNCHANGED <<pressed, program>> /\ register \subseteq register'
          /\ swallowed \ {"close", "open", "home", "homeUp"} \subseteq swallowed'
      BY <1>1, <2>2 DEF Move, MoveShell, MoveHome, Raise
    <3> QED BY <3>1 DEF program
  <2> QED BY <1>1, <2>1, <2>2, MoveSteps
<1>2. CASE Answer
  BY <1>2 DEF Answer, Raise, program, user
<1>3. CASE TestFlag \/ ReadFails \/ WaitAgain \/ Answered
  BY <1>3, ForgettingSteps, EventsAre
<1>4. CASE ReadRegister
  BY <1>4 DEF ReadRegister, ReaderOK
<1>5. CASE StoreFlag
  BY <1>5 DEF StoreFlag, LeftOver, user
<1>6. CASE Scanned
  BY <1>6 DEF Scanned, Idle, updateMcuHidState, KeysAfter, Set, Cleared, user, Loops,
       BootSteps
<1>7. CASE PowerRefused
  BY <1>7 DEF PowerRefused
<1>8. CASE Drain
  BY <1>8 DEF Drain, user, BootSteps
<1>9. CASE SampleShell \/ SampleHome
  BY <1>9 DEF SampleShell, SampleHome, user, BootSteps
<1>10. CASE Calm \/ Arm \/ GFX_init \/ GFX_deinit \/ UNCHANGED vars
  BY <1>10, RestingSteps DEF Rests, BootSteps
<1> QED BY <1>1, <1>2, <1>3, <1>4, <1>5, <1>6, <1>7, <1>8, <1>9, <1>10, NextSteps

-----------------------------------------------------------------------------
(* The theorems.                                                           *)

LEMMA EventsInitially ==
  ASSUME Init
  PROVE  EventsIInv
<1>1. Bits
  BY DEF Init, Bits, ReadAtInit
<1>2. Sets
  <2>1. register \subseteq HidEvents \cup LcdEvents
    BY EarlierAssumption, EventsAre DEF Init
  <2> QED BY MovesAssumption, <2>1 DEF Init, Sets
<1>3. ReaderOK
  BY DEF Init, ReaderOK, Idle, BootSteps
<1>4. EventsTypeOK
  BY <1>1, <1>2, <1>3, TypesAre
<1>5. Noticed /\ NoScreenPanic
  BY DEF Init, Noticed, NoScreenPanic
<1>6. DrainOK /\ OneAnswer /\ WaitsKeep
  BY WaitsAre DEF Init, DrainOK, OneAnswer, WaitsKeep, Idle, ReadAtInit
<1>7. ShellOK /\ HomeOK /\ PowerOK
  <2>1. "close" \notin register /\ "home" \notin register
    BY EarlierAssumption DEF Init
  <2> QED BY <2>1 DEF Init, ShellOK, HomeOK, PowerOK, OpensLater, Idle
<1> QED BY <1>3, <1>4, <1>5, <1>6, <1>7 DEF EventsIInv, EventsInv

LEMMA EventsInductive ==
  ASSUME EventsIInv, [Next]_vars
  PROVE  EventsIInv'
<1>1. /\ Bits /\ Sets /\ Noticed /\ NoScreenPanic
      /\ ReaderOK /\ DrainOK /\ OneAnswer /\ WaitsKeep
      /\ ShellOK /\ HomeOK /\ PowerOK
  BY TypesAre DEF EventsIInv, EventsInv
<1>2. Bits' /\ Sets' /\ ReaderOK'
  BY <1>1, BitsStep, SetsStep, ReaderStep
<1>3. EventsTypeOK'
  <2>1. EventsTypeOK' <=> Bits' /\ Sets'
    <3>1. Bits' <=> {line, armed, g_mcuIrq, gfxOn, waiting, closed, home, pressed, missed,
                       unsent, undrained}' \subseteq BOOLEAN
      BY DEF Bits
    <3> QED BY <1>2, <3>1 DEF EventsTypeOK, ReaderOK, Sets
  <2> QED BY <1>2, <2>1
<1>4. /\ Noticed' /\ NoScreenPanic' /\ DrainOK' /\ OneAnswer' /\ WaitsKeep'
      /\ ShellOK' /\ HomeOK' /\ PowerOK'
  BY <1>1, NoticedStep, NoPanicStep, DrainStep, AnswerStep, WaitsKeepStep, ShellStep,
       HomeStep, PowerStep
<1> QED BY <1>2, <1>3, <1>4 DEF EventsIInv, EventsInv

LEMMA EventsInvariant == Spec => []EventsIInv
<1>1. Init => EventsIInv
  BY EventsInitially
<1>2. EventsIInv /\ [Next]_vars => EventsIInv'
  BY EventsInductive
<1> QED BY <1>1, <1>2, PTL DEF Spec

\* No event is overlooked but by the three races that are known, and the
\* screens never answer with what GFX_init and GFX_deinit do not wait for
\* unless MCU_init failed to drop it, for any interleaving of the MCU, the
\* interrupt and the two readers and whichever transfers fail.
THEOREM EventsInvHolds == Spec => []EventsInv
<1>1. EventsIInv => EventsInv
  BY DEF EventsIInv
<1> QED BY <1>1, EventsInvariant, PTL

\* The keys of hid.c are what the console's are, or an event that corrects
\* them is on its way or was taken by the wait for the screens.
THEOREM KeysHonestHolds == Spec => []KeysHonest
<1>1. EventsIInv => KeysHonest
  BY DEF EventsIInv, ShellOK, HomeOK, PowerOK, BootSteps, KeysHonest
<1> QED BY <1>1, EventsInvariant, PTL

\* MCU_waitEvents returns what the screens were told to do and nothing else,
\* whichever commands are lost, unless an event that MCU_init failed to drop
\* is still about.
THEOREM AnswersExpected ==
  Spec => [](pc \in Waits /\ getter.at = "return" /\ ~undrained => getter.data \subseteq {Expected[pc]})
<1>1. EventsIInv => (pc \in Waits /\ getter.at = "return" /\ ~undrained
                       => getter.data \subseteq {Expected[pc]})
  BY WaitsAre DEF EventsIInv, OneAnswer, WaitsKeep
<1> QED BY <1>1, EventsInvariant, PTL

=============================================================================
