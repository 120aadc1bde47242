# A verification project for fastboot3DS

fastboot3DS is a bootloader for the Nintendo 3DS. It runs on two CPUs: the ARM9
owns the storage hardware (SD card, NAND, crypto engine) and serves files; the
ARM11 owns the screens, the buttons and the menu, and reaches storage only by
commands it sends to the ARM9. This directory models the parts whose mistakes are
expensive (a console whose NAND was overwritten does not boot) and hard to test
(a card pulled at one particular instruction).

Contents: [the system](#the-system) - [modules](#modules) - [runs](#runs) -
[proofs](#proofs) - [what the checks found](#what-the-checks-found) -
[what is not modelled](#what-is-not-modelled) - [plan](#plan).

Run a configuration with `tlc -config X.cfg M`, check proofs with
`tlapm ToolsProofs.tla`.

## The system

| Part | Source (under `src/source`) | State it keeps | Operations | Hard behaviour |
|---|---|---|---|---|
| SD, raw NAND, decrypted NAND | `arm9/dev.c` | `initialized` of each | init, read, write, close | the two share one controller: initialising SD closes NAND, initialising NAND initialises SD first |
| Partition table | `arm9/partitions.c` | `partitions[]`, `numPartitions` | reset, add, find, get | refilled whenever the decrypted NAND is initialised |
| Mounts | `arm9/fs.c`, FatFs | `fsStatTable`, volumes of FatFs | mount, unmount, path accesses | the SDIO interrupt unmounts the SD drive between any two steps |
| Raw access, device buffer | `arm9/fs.c` | `devStatTable`, `fsStatBackupTable`, `devBuf` | prepare, read, write, finalize | NAND drives must stay away during a transfer and come back after it |
| Write protection | `arm9/fs.c` | `protNandRegions` | switch on, switch off, lookup | unsigned interval arithmetic, regions from a table that changes |
| Handles | `arm9/fs.c` | slot tables and counts | open, read, write, close, deinit | closing out of order, card pulled under an open file |
| Backup and restore tools | `arm11/menu/menu_func.c` | their locals | one tool at a time | every call may fail, every failure has its own way out |
| PXI | `hardware/pxi.c`, `ipc_handler.c` | FIFOs, `g_lastResp` | command, response, panic | two CPUs and two interrupt handlers |
| Launch | `firm.c` of both CPUs, `arm9/main.c` | `g_startFirmLaunch` | launch stubs | each CPU replaces the code of the other |
| Firmware files | `arm9/firm.c`, `firmwriter.c` | header, hashes | verify, write | a partition written in parts |
| Configuration | `arm11/config.c` | text and attribute table | load, change, write, move | a file that is deleted before its copy exists |
| Boot | `arm11/main.c`, `menu/bootslot.c` | boot slot in MCU memory | choose slot, menu fallback | the choice depends on the last boot |
| MCU events, input | `arm11/hardware/mcu.c`, `hid.c` | event words | scan, wait | an interrupt between test and update |
| Menus, file selector | `arm11/menu/menu.c`, `menu_fsel.c` | menu stack, cursor, directory buffer, path | navigate, read a directory, choose | cards that go while a directory is read |
| Screens, console, drivers | the rest of `hardware/` | - | - | see [below](#what-is-not-modelled) |

How they meet: a menu tool (ARM11) calls `fMount`, `fOpen`, ... ; each is one
`PXI_sendCmd`, executed by `IPC_handleCmd` in the interrupt handler of the ARM9,
one at a time; inside it `fs.c` calls FatFs, FatFs calls `diskio.c`, that calls
`dev.c`, and `sdmmc_sd_init` calls back into `fUnmount` and `fMount`. The SDIO
interrupt preempts all of it on the ARM9 and touches the SD device and its mount.

What makes each part correct:

* protection: with protection on, no write reaches sector 0, sector 0x96 or a
  firmware partition; everything else of an image arrives, unshifted;
* devices and mounts: what `fsStatTable`, FatFs and the devices say about a drive
  agrees at every instruction, and no volume is used on another medium;
* raw access: exclusive while it lasts, and what was mounted comes back;
* tools: every way out frees the buffer, closes the file, deletes an incomplete
  backup, and gives the NAND back;
* PXI: every call ends with its own result; a panic closes the files;
* launch: code is overwritten only when nobody runs it, and both CPUs jump;
* configuration: the text, the attributes that point into it and the files agree,
  an edit touches nothing else, and what was saved stays readable except while its
  only copy is being written (the code keeps no second one);
* firmware: what is reported as written starts, a failed or interrupted write
  leaves the other partition alone, and updates never lead to something older;
* boot: what is launched is what was loaded last, with the slot and the screens
  that belong to it, and HOME leads to the menu unless other buttons are held with it
  or a firmware was left in FCRAM;
* MCU events: no event is overlooked, and every loop that waits for one ends;
* menus and file selector: the cursor is on what is shown, B goes back the way the
  user came, no directory stays open, and the answer fits the question.

## Modules

| Module | Models |
|---|---|
| `NandProtect` | the restore tool, the device buffer and write protection, sector by sector |
| `NandImage` | abstract: a restore writes any writable sectors of an image to their places and may stop anywhere |
| `MCNandProtect` | partition tables for TLC |
| `NandProtectProofs` | theorems about `NandProtect` |
| `Storage` | devices, partition table, mounts, raw access, SDIO interrupt, the file server used by any client |
| `NandTools` | `EXTENDS Storage`: backup and restore as its clients |
| `ToolsProofs` | theorems about `Storage` and `NandTools` |
| `Handles` | file and directory slots, handle checks, `fsDeinit` |
| `Browser`, `MCBrowser` | `EXTENDS Handles`: the menus and the file selector, next to other callers |
| `BrowserProofs` | theorems about `Handles` and `Browser` |
| `Rpc` | abstract: a call is called, served once, returns |
| `Pxi`, `MCPxi` | handshake, commands, panics, assertions and launch across the two CPUs |
| `PxiProofs` | theorems about `Pxi`, with the refinement of `Rpc` |
| `ConfigText` | pure operators: parser and editor of the text of the configuration |
| `Config`, `MCConfig` | `EXTENDS ConfigText`: loading, creating, editing, moving and saving |
| `ConfigProofs` | theorems about `ConfigText` and `Config` |
| `Events` | MCU events, input, and the waits for keys, shell, screens and copies |
| `EventsProofs` | theorems about `Events` |
| `Firm`, `MCFirm` | loading, verifying and writing firmware, updates, superhax, the boot ROM |
| `FirmProofs` | theorems about `Firm` |
| `Boot` | `main()` of the ARM11 with the boot slots and the menu entries that end it |
| `BootProofs` | theorems about `Boot` |

### NandProtect

One sector of the chip is a number, and its content is `Kept` or the image sector
that was written to it, so a shifted write is visible. `regions`/`numRegions` are
`protNandRegions`/`numProtNandRegions`; `parts` is the table of `partitions.c`,
`header` the one on the chip. `fSetNandProtection` takes one step per partition
(`SkipPartition`, `MergeRegion`, `AppendRegion`), `fsWriteFromDeviceBuffer` one
step per pass of its loop (`SkipRegion`, `WriteGap`, `WriteRest`), because the
chip can fail or the power can go between them (`WriteFails`, `PowerLoss`).
`getNandProtRegion` returns the first region of the table, as the code does, not
the nearest one: that this is the same for tables in ascending order is part of
what is proved. A forced restore (protection off) writes sector 0 too and with
that may replace `header`. Between restores the devices may be closed and opened
again (`SdCardInit`, `DnandInit`), which refills `parts`.

`CoversTable` is `calcNandImageMinSize` with all its refusals: an image is accepted
only if it is as long as the sectors the table uses, an empty table is refused, and so
is one whose last partition is longer than the header's media size (`Oversized`).

`FirmAscending` says of the tables that firmware partitions lie behind sector
0x96, on the chip and in ascending order, which holds for every console; with
other tables the write loop would compute a negative gap.

### Storage

`dev` is a record of everything that device initialisations change; operators on
it (`SdInit`, `RnandInit`, `DnandInit`, `RemountNand`, `FindVolume`,
`MountVolume`) follow the call chain of the code, and `n` is what the NAND
answers while the command runs. `vol[i]` is the medium a FatFs volume was read
from, the ghost that makes a stale volume visible. The recursion
`dnand_init -> rnand_init -> sd_init -> fMount -> dnand_init` is one level deep,
because the SD card is initialised when it is entered a second time;
`NestedDnandInit` is that level.

A mount is split after `f_mount` (`MountOk`) and before the store to
`fsStatTable` (`StoreMounted`); `fFinalizeRawAccess` takes one such pair per
drive. Elsewhere the interrupt commutes with the rest of the command.
`PullDuringMount` allows a card to be pulled in the gap of a mount; the runs of
`Storage` do, those of the tools do not. Clients may use paths on any drive, mounted
or not: a volume whose mount failed stays registered with FatFs, and the next path
access reads it. When the interrupt then comes it finds the drive unmounted and leaves
the volume as it is; `dev.missed` records that, until the volume is dropped.

### NandTools

`pc` follows `menuBackupNand` and `menuRestoreNand`; they have the same skeleton, so
`tool` selects the differences. The steps that call the server are conjoined with the
operation of `Storage` they call. Between asking for the size of the NAND and opening the
image, a restore is in the file selector (`select`), which mounts every drive it can
(`Browse`) while cards come and go; the user may stay there for ever. A card that is
initialised there closes the raw NAND, and nothing asks for it again (`menu_func.c:747`
asks before the selector), so a restore can reach its transfer with the device closed:
every write then fails and the tool says so. `TransferExclusive` therefore claims the open
device for backups only. The transfer counts chunks (`pos`); a file handle is `open` or,
when the interrupt dropped its volume, `stale` (`validate` of FatFs compares mount ids).
`images` and `partial` are the cards with a whole or an incomplete backup; `home` is the
card `fpath` was created or selected on. `StackSurvives` lets the uninitialised `fpath` of
a backup that fails early hold the path of the previous backup: undefined behaviour that
does produce that value when the stack was not reused.

### Handles

`fTable`/`fStatTable`/`fHandles` and their directory counterparts, with a FatFs
object reduced to whether it holds unwritten data and whether its volume is still
there. `fsDeinit` takes one step per slot, because what it closes depends on what
the handle check accepts after the closes before. `held` is what the callers keep;
`Nested` says that they close the last file first, `MaxHeld` how many they keep.
Every caller in the repository opens one file, or one directory, at a time and
closes it before the next, so the run and the theorems ask for more than is used:
two files. The limits are sharp: with three files open `fsDeinit` leaves one open
(set `MaxHeld = 3`), and with two of which the first was closed it leaves the
second open, which is why `DeinitFlushes` asks for the open files to be in the
first slots (`Packed`; under `Nested` they always are). No caller in the code
gets there.

### Browser

`pc` follows `menuFileSelector` and `readDirToBuffer`; the calls of the file server
are the actions of `Handles`, so a directory that is not closed stays in its table.
Before a selection the other entries of the menu (`OtherEntry`) run any steps of
`Handles`. A path is a model value: `Parent`, `Drive`, `Folders`, `Fitting` and `Place`
say what the code gets from its string (the last slash, the drive, the attribute of the
entry, the pattern, where the sort puts it). `ReadChunk` is one `fReadDir` of several entries; which
of them come first is open, as it is on a card. The card may be pulled and another
one inserted before every step, and every open and read may fail. `astray` and
`lost` record what went wrong on the way, and the properties name them. The
function keys of the list, the path bar and sleeping are left out; names are never
too long and `malloc` never fails.

### Pxi

One thread per CPU and the handlers of its interrupt, which preempt the thread. The
ARM9 acknowledges an interrupt and enables interrupts again before it runs the handler
(`exception.s:66-94`), so a second sync interrupt suspends the handler of the first
(`Enter9`, `outer`) until it returns (`Return9`, `resumed`); the ARM11 does not nest. A word in a
FIFO says what it is, so a word taken for another one is visible. Both CPUs start
in `PXI_init`, in any order and with words of the program before in the FIFOs
(`Leftover`). `CheckResp` and `Wfi11` are two steps, because the interrupt may come
between them; so are `CheckLaunch` and `Wfi9`. The handlers spin on the FIFO
(`Recv9` is not enabled while it is empty). `GfxSwitch` turns the screens, and with
them the frame interrupt, on or off between two calls.

The ARM11 may panic anywhere (`Panic11`), in a call or a handler too: an exception does
not wait, and `guruMeditation` sends a word just as `panic` does; `cut` records that it
left a call. Its word then meets a handler that may be anywhere in the cut command: it is
read as an argument or as part of a response (`eaten`), or a nested handler takes an
argument for a command (`Misread`: any command, with any number of words, or a panic of
the ARM9). A suspended handler that finds its FIFO emptied by the nested one panics
(`RecvEmpty`). The abstract `Rpc` calls such a call `lost`: it never returns. The ARM9
also panics while it executes a command or in its main loop. A panic keeps interrupts off
and drops words until its response comes; an assertion (`Assert11`, `Assert9`) uses
`PXI_sendCmd` and waits for a handler that cannot run any more. Release builds have no
assertions (`NDEBUG`).

### ConfigText and Config

A text is a sequence of tokens: a key with its `=`, a part of a path, a button, a
word, a number, a line break. That is as much as the code tells apart: it searches
for keys at the start of a line, copies values whole, and converts them by tables
(`parseBootMode`, the pad buttons) or by `atoi`, which skips line breaks and so
reads an empty number on into the next line. `Tokens` is the set of all
tokens; the assumptions ask only that keys and the line break are different members
of it, and that no value is written with a line break. `writeUpdateDefinitionText` refuses a
value for which there is no room *beside* the old one; the data is then changed
and the text is not (`refused`). `Shift` is the pointer arithmetic on
`attributes`. A file is written by three steps (`CreateFile` truncates,
`WriteData` does not touch the directory entry, `Sync` does), between which the
power goes or the card is pulled; a failed write leaves whole sectors. `fStat` may
fail at a file that is there: the code takes that for a missing file, goes on to
the other drive and in the end creates, and truncates, a new one. `files` is
what a reset would find. `malloc` never fails; `configRestoreDefaults` and
`debugSettingsView` have no caller.

### Events

`register` is the event register of the MCU, which a read clears; `line`, the
interrupt; `g_mcuIrq`, the flag. `MCU_getEvents` takes several steps (`getter`),
as the interrupt may come after each. An event that finds the register not empty
may or may not pulse the line: the source does not say, so both are allowed. The
LCD events of one command are taken to arrive together. Every transfer with the MCU
may fail: reading the register, in `MCU_init`'s first read too (`undrained`: what an
earlier program left may meet a wait for the screens), setting the mask (`armed`),
sampling shell and HOME, and a command for the screens (`unsent`: its answer never
comes, `mcu.h:101`). `swallowed` and `missed` record that a race or a failed read lost an
event, and the properties name exactly these losses.
`UpdateScreens` starts a copy whose interrupt may come before `Discard` drops it
(`copy` is then `lost`).

### Firm

Lengths are halves of a sector, and a piece of an image is `<<image, half>>`, so that a
block that was written at the wrong place or from the wrong file is visible, and so is a
ragged end. `firm_size` is the greatest end of the sections the code counts: walking from
the last, those that begin behind all it has counted (`Counted`); `VerifyFirm` checks
magic, sections, whitelists and hashes; `WriteBlock` writes one block and can fail, and
the power can go between sectors. `Boot9` is the boot ROM: firm0 if it is whole, otherwise
firm1. Superhax is a bit of the header. `running` is what the console runs, which need not
be what is installed, and how far it is with a dump of the boot ROMs (`at`): a start with
superhax dumps, or with HOME held only switches superhax off (`StartDump`); after the dump
(`DumpBootroms`) a key is waited for (`outputEndWait`) before the console is switched off,
and the power may go at each of these places (`Restart`). The menu may repeat the dump
(`menuDumpBootrom`), and so does the main loop when the menu is left with nothing to
launch (`ContinueBoot`). Updates and installations come from files, or from firm1, which
the selector offers in developer mode. `lost` says that firmware was installed or launched
by hand, `cut` that an update was not completed.

### Boot

`pc` follows `main()`: `start`, `splash`, `combo`, `ram`, `loop`, `error`, `menu`,
`menuEnd`, `search`, `chance`, `end`. `register` is the byte in the MCU that outlives a
reboot, `stored_slot` the copy in memory. `buffer` is what the ARM9 holds at
`FIRM_LOAD_ADDR`; `firm_err` is the result of the load that was noted last, which need not
be the load of `buffer`. `Loads` says whether a file can be loaded and verified now
(`Firm` says what that means), and the user may change it, press HOME, POWER and buttons
at every step. An entry of the menu is one step, taken when HOME is released after it; a
NAND tool that the user lets go on clears POWER (`menu_util.c:411`). The custom splash
ends shown, with an error, or without either. The launched firmware may start the program
again with any boot environment (`Again`).

## Runs

| Run | Instance | Shows |
|---|---|---|
| `restore` | 8 sectors, secret sector 2, 3 table entries, buffer of 3; tables with merged, separate and adjacent firmware regions, an empty and an oversized one | `RestoreInv` (`TypeOK`, `InductiveInv`, `NoShift`), `OkIsComplete`, `ProtectedKept`, `FirmKept`, `ImplementsImage`, `RestoreEnds` |
| `storage` | two cards and one without a FAT, pulled and put back at any time, the gap of a mount included; two NAND drives; all client sequences, a NAND that may stop answering | `StorageInv` (`StorageTypeOK`, `MountedRegistered`, `DnandHasTable`), `VolumeOfMedium`, `ReleaseRestores` |
| `nested_init` | two cards, three NAND drives | `NoPanic` violated |
| `tools` | two cards, two chunks | `ToolsInv` (`ToolsTypeOK`, `TransferExclusive`, `NoLeak`), `LeavesNoTrace`, `ImagesKept`, `ToolsEnd` |
| `raw_stuck` | one card | `RawReleased` violated |
| `menus` | three file and two directory slots, two of each used by other callers in any order; two cards pulled and exchanged at every step, lists longer than the buffer and the window | `HandlesInv` (`HandlesTypeOK`, `HandleExclusive`, `HeldIsValid`, `DeinitFlushes`), `BrowserInv` (`TrailLeads`, `CursorShown`, `DirClosed`, `PanicIsLoss`, `AnswerFits`), `CancelEnds` |
| `pxi` | a command with two arguments and the launch, FIFO of 2, 3 calls, old words in the FIFOs, screens switched on and off between calls, panics and assertions of either CPU at any point | `PxiInv` (`PxiTypeOK`, `CommandWhole`, `OwnResult`), `LaunchOrder`, `ImplementsRpc`, `CallEnds`, `PanicClosesFiles`, `LaunchEndsOrSleeps` |
| `config` | four kinds of keys, texts of up to 14 tokens, 3 edits, 2 starts | `ConfigInv` (`ConfigTypeOK`, `AttributesPoint`), `RoundTrip`, `EditsKeepOthers`, `CleanIsStored`, `SavedSurvives` |
| `config_moved` | the same without edits | `MovedIsFound` violated |
| `events` | 2 moves of keys and shell at any step, two events of an earlier program, any transfer failing | `EventsInv` (`EventsTypeOK`, `Noticed`, `NoScreenPanic`), `KeysHonest`, `LoopEnds` |
| `firm` | nine images, files and partitions as the source, 3 jobs, blocks of 2 sectors in partitions of 5 | `FirmInv` (`FirmTypeOK`, `ReportedBoots`), `Isolated`, `NeverOlder`, `NoBootloop` |
| `boot` | 2 slots, 2 firmware files, one button combination, 2 changes by the user | `BootInv` (`BootTypeOK`, `LaunchesWhatItSays`, `NoCodeEnd`), `SlotMatches`, `RebootReturns`, `HomeShowsMenu`, `AutobootLaunches` |

Why the bounds are enough. `restore`: images are of every size from 0 to one sector more
than the chip, so that chunk borders fall before, inside, at the end of and behind every
kind of region; a ragged last sector is included; after a restore the next one starts from
any state the first left. `storage`: two cards tell a stale volume from a fresh one, a
third adds nothing because only equality of cards is used; the card without a FAT is one
whose mount fails; the three NAND drives behave alike, but `fFinalizeRawAccess` mounts
them in order and one mount may unmount another, which takes two (`nested_init` has all
three, and the theorems any number). `tools`: two chunks make a first and a last one.
`pxi`: `FifoWords` is smaller than a command so that both CPUs must work on it at once;
three calls make a repeated command and a call after it; with a FIFO of 4 words the result
is the same. `menus`: a directory of five files is read by two and cut off at three, and a
window of two scrolls over them; `dir` is on one of the two cards only; the requests start
in a directory, at a file, at the root and in a directory to be chosen; two card changes
are a pull and an exchange, or a card that comes back; three menus with a stack of two are
one level more than a submenu. `config`: one key per way of converting (a path, buttons, a
word, a number); three edits add, change and delete a key that lies before another one; 14
tokens are few enough for edits to meet a full buffer; two starts tell what was stored
from what was in memory; `SectorSize` is less than a text, so that a failed write leaves
part of one. `events`: two moves are a press and a release, or a shell that closes and
opens. `firm`: images of one, two and three blocks, one that fills its partition; three
jobs are an update, something that spoils it, and an update again, or a dump that is
switched on, run and run again. `boot`: with two slots a slot can be before, at or behind
the one that matters; two changes are a file that goes bad or a key that is let go, and a
restart.

Where a bound ends the run (`pxi`, `menus`, `events`, `firm`, `boot`) deadlock
is not checked: the program ends, or waits for a user who has no moves left.
`storage`, `tools`, `restore` and `config` check deadlock.

Fairness. `NandProtect`: a restore that was started continues (`WF(SetProtection \/
TransferChunk)`); the tool is a loop of one thread. `NandTools`: `WF` of the tool's steps
and of the server's steps; none for the user, who may never press a button or leave the
file selector, and none for the card and its interrupt. `Pxi`: `WF` of each CPU's steps
and of taking a pending interrupt; while the screens are on, `WF` of the frame interrupt
of the ARM11 (`gfx.c:153`). The ARM9 has no periodic interrupt (only PXI, SDIO and the
ones drivers wait for themselves), so `OtherIrq9` has no fairness, and
`LaunchEndsOrSleeps` has to allow for an ARM9 that sleeps through the launch. `Events`:
`WF` of the steps of the loops, of the interrupt handler, of the MCU's answer to an LCD
command, and of the frame interrupt (`gfx.c:153`) that wakes the loops; one `WF` for the
program (`Go`), because it is one thread; none for the user. `Browser`: `WF` of the
selector's own steps; no key is ever forced, and a card may be pulled or not. `Firm`: `WF`
of writing on, of a start with superhax and of the dump up to its last message; none for
the key that message waits for. `Boot`: `WF` of the program's steps and of the end of the
splash, which counts frames; none for the user, so an error may be shown and the menu be
open for ever.

## Proofs

TLAPS checks, for every value of the constants that satisfies the named
assumptions:

* `NandProtectProofs`: `RestoreInv` (`TypeOK`, `NoShift`, `InductiveInv`) and `OkIsComplete` as
  invariants, `ProtectedKept` and (under `~ForeignImages` and `~HeaderReadFails`)
  `FirmKept` as action properties, and the refinement of `NandImage`.
* `ToolsProofs`: of `Storage`, `StorageInv` (`StorageTypeOK`, `MountedRegistered`,
  `DnandHasTable`), `VolumeOfMedium` and the action property `ReleaseRestores`, with no
  condition on cards, clients or the NAND. Of `NandTools`: under `~PullDuringMount`
  `ToolsInv` (`TransferExclusive`, `NoLeak`) and `LeavesNoTrace`; with
  `~StackSurvives` also the action property `ImagesKept`.
* `BrowserProofs`: of `Handles`, `HandlesTypeOK`; under `Nested` (last opened, first
  closed), or with `MaxHeld <= 2` in any order, `HandleExclusive` and `HeldIsValid`, for
  any number of slots; with `MaxHeld <= 2` also `DeinitFlushes`, and with that all of
  `HandlesInv`. Of `Browser`:
  `BrowserTypeOK`, `TrailLeads`, `CursorShown`, `PanicIsLoss` and `AnswerFits` without a
  condition on the callers (`AnswerFitsHolds`); under `Nested \/ MaxHeld <= 2`, which the run
  satisfies, also `DirClosed`, and with that all of `BrowserInv`.
* `PxiProofs`: `PxiInv` (`CommandWhole`, `OwnResult`), `LaunchOrder`, and the
  refinement of `Rpc` (`ImplementsRpc`), for any commands, numbers of arguments,
  depth of the FIFOs and number of calls, with panics of either CPU or without.
* `ConfigProofs`: `ConfigInv`, `CleanIsStored` and `SavedSurvives`, for any keys,
  values, texts and sizes; `RoundTrip` under `NumbersApart` (no line of a text that is put
  on a drive begins with a number), which the run satisfies.
* `EventsProofs`: `EventsInv`, `KeysHonest`, and that each wait for the screens
  goes on with its own answer only, whichever transfers fail, unless something
  `MCU_init` failed to drop is still about (`AnswersExpected`).
* `FirmProofs`: `FirmInv` (`FirmTypeOK`, `ReportedBoots`), `Isolated` and `NeverOlder`, for
  any images with any number of sections, any size of partitions and blocks, any
  number of updates, installations, launches and dumps, and writes that fail or lose power anywhere.
* `BootProofs`: `BootInv`, `SlotMatches`, `RebootReturns` and `HomeShowsMenu`, for
  any firmware files and button combinations and up to 254 slots (a slot is a byte, and
  255 is what `main` takes for none).

*Restore.* The invariant of the write loop is about three things that only
together are inductive (`InductiveInv`): `RegionInv` says that the regions in
force cover exactly the sectors that must be covered so far, are in ascending
order and fit on the chip; `TransferInv` says which sectors up to `Reached` were
written and which were spared; `ControlInv` ties the cursor, the buffer pointer
and the chunk together. The merge step needs `FirmAscending`: a region that holds
the sector before a partition must be the last one, otherwise growing it would
swallow a gap. `TableInv` relates the table the regions were built from to the
one on the chip, which `FirmKept` needs and `ProtectedKept` does not.

*Storage.* Every operator on `dev` is shown once to preserve `Good` (a mounted
drive is registered; a usable decrypted NAND has its table; NAND volumes hold the
chip) and `Kept` (no initialisation changes the SD volume, mounts a drive that was
not mounted or drops a registered volume), in the order of the call chain. `Inv`
adds `Mount`: the drive whose volume was read and not yet stored as mounted is
registered and not mounted, which is why the interrupt cannot drop it.
`MountedRegistered` is not inductive without it. `SdVolume` then says that the SD
volume, when it is there, belongs to the card in the slot or to one whose
interrupt is pending, or that the interrupt missed it (`dev.missed`). `ReleaseRestores`
is about a loop that runs inside one step: mounting a NAND drive may unmount the others,
but a drive that does get mounted costs no other its mount, because the remount and the
drive itself see the same answer of the NAND (`MountRestores`); so the loop has mounted
again every drive it has passed (`Restored`).

*Handles.* There are two reasons why no slot has two owners. Under `Nested` the open
files fill the first slots in the order of opening (`FileStack`). With at most two open
a new one gets the first free slot, so they are in the first two slots, whichever of
them was closed before (`FilePair`). In both cases the counter is their number
(`Owned`), which is what the handle check needs. `Draining` adds what `fsDeinit` has
left to do; it is inductive only for at most two files, because the counter falls by one
while the index rises by one, so that the check `handle > fHandles` stops the loop in
the middle of three. `Packed`, the condition of `DeinitFlushes`, turns `FilePair` into the
`FirstSlots` it starts from.

*Menus and selector.* Below them the invariant of `Handles` holds, because they open and
close only as its clients. `Trail` bounds the
stack by the depth of the menu that is shown, so that `Enter` finds room;
`MenusAssumption` is what makes that possible: entries lead to deeper menus only, and
no menu of `menu_fb3ds.h` is deeper than `MENU_MAX_DEPTH`. `DirHeld` says that exactly
one directory is open while the selector reads one and none otherwise; it needs nothing
of the callers before, because the selector starts when none is open. The rest is in
`SelectorInv`: `PathOK` (where the selector is, and that it is a directory that is there
or was lost with the card), `NamesOK` (every name in the buffer was in that directory
and is asked for, and the buffer does not overflow), `RootListed` (the root shows a drive,
so it is never empty, and `ChooseEmpty` never answers it) and `AnswerOK`. A card that
goes weakens them by `lost` only (`KnownStays`). The list shows each name once
(`SortedShowsAll`): the number of names in front of it is its rank, and ranks map the
names one to one onto the places of the list (`RankIsOnto`). Assumed of the constants is
what the code has: names in one directory differ for `strnicmp` (`PathsAssumption`), a
file is in a directory of its medium and some drive of the NAND is listed
(`MediaAssumption`), the root fits into the buffer (`SelectorAssumption`).

*Tools.* Whatever a tool does, the server makes a step of `StorageNext` or none, so the
invariant of the server holds below the tools (`ToolsKeepInv`). `SdMounted` adds what that
invariant does not say: while the SD drive is mounted, the card that was mounted is in the
slot or its interrupt is pending. `SdKnown` is the core of `TransferExclusive`: when the
tool has ensured that the SD drive is mounted, FatFs knows its volume only as long as it
is, so no path access initialises the card, which would close the NAND. For a restore that
is so up to the file selector only. `Undisturbed` says where a tool whose card stays has
the file, the buffer, raw access and the incomplete backup, step by step; `LeavesNoTrace`
is what remains of it in the menu. `~PullDuringMount` is needed because a card that leaves
in the gap of `fMount` is taken for mounted, and `~StackSurvives` because `ImagesKept`
fails with it (see [below](#what-the-checks-found)).

*PXI.* The invariant says of every place of the two CPUs which words are in which
FIFO. `CallsOK`: the words to the ARM9 and the ones its handler has read are together
those the call has sent. `PanicsOK`: the word of a panic between calls is alone, and its
interrupt finds no handler running. `RepliesOK`: the
response is not there, half sent, on its way, half read, or read, and it is the
one of the call; behind it there can only be words of a dead ARM9 or of its stub.
All of this holds until a panic of the ARM11 cuts a call (`PxiPlain`). That no handler of
the ARM9 is suspended by another is then part of what is proved: a second sync interrupt
needs a second command or panic, which the ARM11 sends only when the first handler has
answered, or when a panic has cut the call. For a cut call remains what bounds the nesting to
two handlers (`NestOK`: nobody raises a third interrupt) and keeps `LaunchOrder`
(`NoReady`, `CutOK`: no word is taken for that of the stub).
`LaunchOK`: how far the stub of the ARM9 may be ahead of the other one. `CountOK`
(the ARM9 has served this call or the one before) is what the refinement needs. Words
of the handshake and of the program before are in `HandshakeOK`.

*Configuration.* Most of it is about the text alone. A definition is described by
its line (`LineEndIs`, `DefinitionIs`), a changed text by what is before, at and behind the
change (`SpliceIs`), and then a definition that ends before the change stays
(`KeptBefore`) and one behind it moves (`KeptBehind`). So the pointers of all keys
are right after a value is replaced, a definition added or a line removed, with room
in the buffer or without (`WritePoints`, `DeletePoints`); the one position where a line
does not begin behind a line break, the start of the text, needs a case of its
own (`LineBeginIs`). `SavedOK` then follows the stored text through each job: it is in the
file that is not being written, or in the one being created and already synced.
`MemoryOK`, `JobOK`, `CleanIsStored` and `SavedOK` are only together inductive.
Where an argument about lines wants induction it takes a least or greatest element
instead, which exists by the library's theorem about well-founded inclusion.
`RoundTrip` needs more than pointers: that its key has no other definition, and that the
value there reads as the data in the table (`ReadsAs`). For the key that was edited this
is `SetReads`: what the write functions make of the data the menus set
(`DataAssumption`) is what the parser made it from, for buttons by way of the names that
the loop over `convTable` has written after each of its entries (`PadReads`). For the
others, every line of an edited text is one of the old text or the new definition
(`LinesUpdated`, `LinesRemoved`, `LinesAdded`), so no key gains a definition, and an
untouched value reads the same at its new place (`ParseSame`). The last is where
`NumbersApart` is needed: `atoi` skips line breaks, so a number without digits takes its
value from the next line, and an edit can put another line there. It is a condition on
the user's text, not on the code: with an empty duration, a definition behind it and a line
`5` behind that one among `MCTexts`, TLC deletes the definition and finds `RoundTrip`
violated; `MCConfig` therefore asserts that its texts satisfy the condition. No edit
makes such a line (`WriteNumbers`, `DeleteNumbers`), so `ReadIInv` keeps the condition for
the text in memory and for both files.

*Events.* An event is in the register, with the reader, or in the keys; the
invariant says which of these a pressed or released key may be missing from
(`ShellOK`, `HomeOK`, `PowerOK`: whoever has the event that closes has the later one that
opens, or that one comes), that the answer to a command for the screens is in one
place only (`OneAnswer`), and what may be there before the register is drained.

*Firmware.* The model's `firm_size` takes the maximum of the ends it counts, which is the
greatest of them because they are bounded (`MaxIsGreatest`). Of sections that do not
overlap none ends behind it (`FirmSizeCovers`): one that the walk skips begins before a
counted one, so it ends before it. `Writing` says of a job at which block it is, that the
buffer holds the verified image, and that everything before that block is in the
partition; a job that is done leaves `Holds`, and a partition that holds a regular image
is whole (`HoldsWhole`). `Current` says that, as long as nothing is installed or launched
by hand, firm0 holds a release not older than what runs, or is being written with one, or
was left half written, and then it does not start: the header goes first, and its hashes
are not those of the old sections. Failed writes and power loss are part of that. Only
`Types /\ Writing /\ Current /\ ReportedBoots` is inductive. Three assumptions are about
the images: `ImagesAssumption` (types), `InstalledAssumption` (the console starts with a
fastboot3DS that passed verification when it was installed) and `ReleaseAssumption` (what
carries the release signature was built by the makefile: its sections are regular and
superhax, if it has one, lies between its two programs). The last is needed because
superhax has size 0 while an update is verified and written, so its sector is on the NAND
only when a later section makes `firm_size` reach over it.

*Boot.* `ReadyMatches` ties `startFirmLaunch` to the buffer and to the screens that
`firm_err` asks for, `InBuffer` the buffer to the MCU's slot. The search for a
slot is bounded by the slots behind the current one, so that its first element
exists (`FirstIsThere`).

Each inductive invariant was checked by TLC, on the instance of its run or a smaller
one, before it was proved.

Only model-checked:

* liveness (`RestoreEnds`, `ToolsEnd`, `CallEnds`, `PanicClosesFiles`,
  `LaunchEndsOrSleeps`, `LoopEnds`, `NoBootloop`, `AutobootLaunches`, `CancelEnds`),
  which needs `ENABLED` and is out of the prover's reach;
* `EditsKeepOthers`, which compares lines in their order by `SetToSortSeq`, of which the
  library states nothing.

The prover has no induction over data, so what a recursive definition computes is proved
for one only: the loop of `writeBootOptionPad`, a function of the number of entries of
`convTable` it has passed, by taking the least number for which the claim fails
(`NamesExist`, `NamesAre`).

## What the checks found

The runs that expect a violation:

* `nested_init`: a NAND access after a failed SD initialisation, with NAND drives
  mounted and a card inserted since, fills the partition table twice and panics.
* `raw_stuck`: a card pulled during a backup or restore makes
  `fFinalizeRawAccess` fail; the NAND stays reserved until power-off, and the
  next restore deletes the image that was selected for it.
* `config_moved`: `moveConfigFile` ignores that the file on the SD card could not
  be deleted (`config.c:378`, though the comment at 371-372 says it is); the move is
  reported as done and the next start prefers the old file.

What the properties had to leave out, each by a named condition:

* `ForeignImages`, `HeaderReadFails` (`restore`): `fSetNandProtection(true)` does
  nothing when protection is on, so regions from an empty or replaced table stay
  in force; `FirmKept` fails with either.
* `dev.missed` (`storage`): after a failed mount the volume stays registered with FatFs,
  the next path access reads it, and the interrupt does not drop it when the card is
  pulled, nor does it when the card is pulled between `f_mount` and the store to
  `fsStatTable`: the volume is then used on the next card.
* `PullDuringMount` (`tools`): a card pulled in that gap is taken for mounted, and
  `ToolsInv`, `LeavesNoTrace` and `ImagesKept` rely on a mounted card being there.
* the open raw device (`tools`): a restore may start its transfer with the NAND closed
  (`menu_func.c:747`, see [NandTools](#nandtools)).
* `StackSurvives` (`tools`): with a leftover path a backup that fails early deletes
  the previous backup; `ImagesKept` fails with it.
* `LaunchEndsOrSleeps`, `CallEnds` (`pxi`): flags are tested outside a critical
  section before WFI. The ARM9 can sleep through the launch; on the ARM11 the
  frame interrupt hides the same window while the screens are on.
* `PanicLost`, `asserted` (`pxi`): a panic or exception of the ARM11 inside a call can be
  lost: its word is taken for an argument (the last one even lets the command be executed
  with it) or for part of a response, its interrupt merges with that of the call, or the
  launch stub drops it. A handler nested in the cut command can read an argument as a
  command (`CommandWhole` stops at `cut`). The ARM9 then waits for ever, no file is
  closed, and the ARM11 does not get to the keys that switch the console off. A failed
  assertion of the ARM9 closes no file (`fb_assert.c:42`), whatever the ARM11 does after
  it.
* `lost`, `astray` (`menus`): a card pulled between `fStat` and `fOpenDir` of the
  start file panics with "Filesystem corruption" (`menu_fsel.c:354`); when the start
  is missing or a directory cannot be read the selector goes to the root also for a
  caller that did not allow it, so that a file of the NAND can be answered. The names
  already read are not freed when a read fails half-way (the heap is not modelled).
* `copy = "lost"` (`events`): `GFX_waitForEvent` drops its event before it waits
  (`gfx.c:492`); a copy that is done before that leaves `updateScreens` waiting for
  ever.
* `undrained`, `unsent`, `armed` (`events`): `MCU_init` and `GFX_init` do not look at the
  result of their transfers (`mcu.c:42`, `mcu.c:44`, `mcu.h:101`). An old LCD event that
  was not dropped makes `GFX_init` panic (`gfx.c:175`), a command or a mask that did
  not arrive leaves it waiting for ever.
* `missed`, `swallowed` (`events`): the last store of `MCU_getEvents` overwrites a
  flag that was set since the test (`mcu.c:74`); the waits for the screens drop the
  events of the keys (`gfx.c:175`).
* `AtRisk` (`config`): there is no second copy while the only one is rewritten or moved
  off the card, and at a start whose `fStat` fails (`config.c:160`, `162`, `178`) an
  existing file is truncated by `createConfigFile`; `SavedSurvives` stops there.
* `twice`, `refused` (`config`): deleting a key brings its second definition to
  light; an edit for which there is no room is reported as done.
* `Regular` (`firm`): images with overlapping sections, with sections that begin or end
  in the middle of a sector, or with sections in FCRAM, pass the verification of
  `menuInstallFirm` and may not start. That an offset in the middle of a sector is
  enough came out of the proof: the size of the sections is then even but the end is not, and
  the last half sector is not written.
* `NeverOlder` (`firm`) is about consoles on which nothing is installed or launched by
  hand: the version is compared with the running program (`firmwriter.c:186`), which a
  launch from a file may have replaced. In developer mode `accept_downgrades` is asked for
  and then no downgrade is let through (`menu_func.c:1081`).
* `kHeld` (`boot`): a key combination, or a firmware in FCRAM, wins over HOME; after
  an error of the custom splash the combination is not looked at.

## What is not modelled

Not at all: the SD/MMC controller, crypto, NDMA, I2C, SPI, codec, GPU and LCD drivers,
whose correctness is a matter of hardware registers; rendering, fonts, the splash decoder
and the formatter; FatFs apart from the rules that decide when a volume is read; the
linker scripts, start code and exception vectors, except that ARM9 interrupts nest and
that `start.s` sets the request for a dump; the `superhax` payload. A large part of the
source is data or vendored: the code page tables (`ffunicode.c`), FatFs, the font.

Not yet: a media error in `fClose` after a backup (`menu_func.c:698`); a failed transfer
of the boot slot (`main.c:412` ignores it); what is copied when a firmware is launched
(`CopySections` is one step); `pxiFifoError` on the ARM11. `malloc` never fails outside
the tools. Data is abstract: sectors, names and files are values that are only compared.

## Plan

1. Timeouts and wake-ups of I2C, SPI and timers.
