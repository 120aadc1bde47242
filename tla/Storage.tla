------------------------------- MODULE Storage -------------------------------
(***************************************************************************)
(* The storage stack of the ARM9 file server: the SD, raw NAND and         *)
(* decrypted NAND devices (dev.c), the partition table (partitions.c), the *)
(* mount table and raw access of fs.c, and the part of FatFs that decides  *)
(* when a volume is read again (f_mount, find_volume; external).           *)
(*                                                                         *)
(* The card may be pulled and swapped at any time.  The SDIO interrupt     *)
(* closes the SD device and unmounts its drive, and may preempt the file   *)
(* server between its steps.  A command of the server is split where the   *)
(* interrupt can change what the rest of the command does; the rest of a   *)
(* command, nested device initialisations included, is one operator.       *)
(***************************************************************************)
EXTENDS Integers

CONSTANTS
  Cards,           \* the SD cards a user may insert
  FatCards,        \* those of them that hold a FAT file system
  NoCard,          \* the empty slot
  Chip,            \* the NAND chip, the medium of the NAND drives
  Unread,          \* fs_type = 0: the volume was not read
  MaxPartitions,   \* MAX_PARTITIONS
  NandOutcomes,    \* what the NAND may answer: "ok", or no answer to
                   \* Nand_Init, to the header read or to sdmmc_get_cid
  PullDuringMount, \* may a card be pulled between find_volume and the store
                   \* to fsStatTable in fMount(FS_DRIVE_SDMC)?
  LastDrive        \* the last NAND drive, FS_MAX_DRIVES - 1

SDMC == 0
NandDrives == 1 .. LastDrive   \* TWLN, TWLP and NAND
Drives == {SDMC} \cup NandDrives

ASSUME CardAssumption ==
  /\ FatCards \subseteq Cards
  /\ Cards \cap {NoCard, Chip, Unread} = {}
  /\ NoCard # Chip /\ NoCard # Unread /\ Chip # Unread
ASSUME PartitionAssumption == MaxPartitions \in Nat \ {0}
ASSUME DriveAssumption == LastDrive \in Nat \ {0}
ASSUME OutcomeAssumption ==
  /\ NandOutcomes \subseteq {"ok", "noNand", "noHeader", "noCid"}
  /\ PullDuringMount \in BOOLEAN

VARIABLES
  card,      \* the card in the slot
  pulled,    \* an SDIO interrupt is pending
  dev,       \* devices and volumes, see Device
  raw,       \* devStatTable[FS_DEVICE_NAND]
  backup,    \* fsStatBackupTable
  op, drive, got,  \* the command in progress, the drive it mounts, and
                   \* whether that drive's volume was just read
  ret        \* what the last command returned

server == <<raw, backup, op, drive, got, ret>>
storageVars == <<card, pulled, dev, server>>

Device == [
  sd : BOOLEAN,              \* dev_sd.initialized
  irq : BOOLEAN,             \* sdioHandler is registered
  rnand : BOOLEAN,           \* dev_rnand.initialized
  dnand : BOOLEAN,           \* dev_dnand.dev.initialized
  nparts : 0 .. MaxPartitions,  \* numPartitions
  mounted : SUBSET Drives,   \* fsStatTable
  reg : SUBSET Drives,       \* FatFs[vol] # NULL
  vol : [Drives -> Cards \cup {Chip, Unread}],  \* the medium a volume was read from
  panic : BOOLEAN,           \* partitionAdd called panic()
  missed : BOOLEAN]          \* history: the interrupt came while the SD volume was
                             \* read and its drive not mounted, and left it as it was

-----------------------------------------------------------------------------
(* Devices.  n is what the NAND answers during the command.                *)

\* fs_type = 0: the volume is read again before it is used.
Drop(d, drives) ==
  [d EXCEPT !.vol = [v \in Drives |-> IF v \in drives THEN Unread ELSE @[v]],
            !.missed = @ /\ SDMC \notin drives]

\* f_mount(NULL) of a set of volumes.
Unmount(d, drives) ==
  [Drop(d, drives) EXCEPT !.mounted = @ \ drives, !.reg = @ \ drives]

\* The table is filled entry by entry; partitionAdd panics on a full one.
FillPartitions(d) ==
  IF d.nparts = 0 THEN [d EXCEPT !.nparts = MaxPartitions]
                  ELSE [d EXCEPT !.panic = TRUE]
\* The end of sdmmc_dnand_init: header, table, CID.
ReadHeader(d, n) ==
  LET f == FillPartitions(d) IN
  IF ~d.rnand \/ n \in {"noNand", "noHeader"} THEN d
  ELSE IF f.panic \/ n = "noCid" THEN f ELSE [f EXCEPT !.dnand = TRUE]

NandInit(d, n) == IF n = "noNand" THEN d ELSE [d EXCEPT !.rnand = TRUE]

\* sdmmc_dnand_init once the SD card is initialised, so that sdmmc_rnand_init
\* has no card to look for.
NestedDnandInit(d, n) ==
  IF d.dnand THEN d ELSE ReadHeader(NandInit([d EXCEPT !.nparts = 0], n), n)

\* Mutant: the remount forgets the mounts it could not restore.
RemountKeepsFlag(d, n) ==
  LET up == d.mounted \cap NandDrives
      e == NestedDnandInit(Unmount(d, up), n)
  IN IF up = {} THEN d ELSE [e EXCEPT !.mounted = @ \cup up]
\* fUnmount and fMount of the NAND drives that are mounted, by sdmmc_sd_init.
\* f_mount registers a volume before it reads it.
RemountNand(d, n) ==
  LET up == d.mounted \cap NandDrives
      e == NestedDnandInit(Unmount(d, up), n)
      r == [e EXCEPT !.reg = @ \cup up]
  IN IF up = {} THEN d
     ELSE IF r.dnand THEN [r EXCEPT !.mounted = @ \cup up,
                             !.vol = [v \in Drives |-> IF v \in up THEN Chip ELSE @[v]]]
          ELSE r

\* sdmmc_sd_init: the controller is shared, so the NAND devices are closed;
\* without a card the poll times out and they stay closed.
SdInit(d, c, n) ==
  IF d.sd THEN d
  ELSE LET closed == [d EXCEPT !.dnand = FALSE, !.rnand = FALSE] IN
       IF c = NoCard THEN closed
       ELSE RemountNand([closed EXCEPT !.sd = TRUE, !.irq = TRUE], n)

RnandInit(d, c, n) == IF d.rnand THEN d ELSE NandInit(SdInit(d, c, n), n)

\* sdmmc_dnand_init.
DnandInit(d, c, n) ==
  IF d.dnand THEN d
  ELSE LET e == RnandInit([d EXCEPT !.nparts = 0], c, n) IN
       IF e.panic THEN e ELSE ReadHeader(e, n)

\* disk_status and disk_initialize.
Active(d, c, i) == IF i = SDMC THEN d.sd /\ c # NoCard ELSE d.rnand /\ d.dnand
DiskInit(d, c, n, i) == IF i = SDMC THEN SdInit(d, c, n) ELSE DnandInit(d, c, n)
Medium(c, i) == IF i = SDMC THEN c ELSE Chip
HasFat(c, i) == i = SDMC => c \in FatCards

\* find_volume: a volume that was read, on a drive that is initialised, is
\* taken as it is; any other is read again.
FindVolume(d, c, n, i) ==
  IF d.vol[i] # Unread /\ Active(d, c, i) THEN d
  ELSE LET e == DiskInit(Drop(d, {i}), c, n, i) IN
       IF Active(e, c, i) /\ HasFat(c, i)
       THEN [e EXCEPT !.vol = [@ EXCEPT ![i] = Medium(c, i)]] ELSE e

\* f_mount(fs, path, 1).
MountVolume(d, c, n, i) ==
  FindVolume(Drop([d EXCEPT !.reg = @ \cup {i}], {i}), c, n, i)

-----------------------------------------------------------------------------
(* The card and its interrupt.                                             *)

CardRemove ==
  /\ card # NoCard
  /\ got => PullDuringMount
  /\ card' = NoCard
  /\ pulled' = dev.irq
  /\ UNCHANGED <<dev, server>>

\* The interrupt is served long before a hand can insert the next card.
CardInsert ==
  /\ card = NoCard /\ ~pulled
  /\ card' \in Cards
  /\ UNCHANGED <<pulled, dev, server>>

\* Mutant: the interrupt closes the device and leaves the drive mounted.
SdioHandlerClosesOnly ==
  /\ pulled
  /\ pulled' = FALSE
  /\ dev' = [dev EXCEPT !.sd = FALSE]
  /\ UNCHANGED <<card, server>>
\* sdioHandler: fUnmount returns early when the drive is not mounted.
SdioHandler ==
  /\ pulled
  /\ pulled' = FALSE
  /\ LET closed == [dev EXCEPT !.sd = FALSE] IN
     dev' = IF SDMC \in dev.mounted THEN Unmount(closed, {SDMC})
            ELSE [closed EXCEPT !.missed = dev.vol[SDMC] # Unread]
  /\ UNCHANGED <<card, server>>

-----------------------------------------------------------------------------
(* Commands of the file server.                                            *)

Idle == op = "idle" /\ ~dev.panic
Return(r) == op' = "idle" /\ drive' = SDMC /\ got' = FALSE /\ ret' = r

\* fMount of a drive that is not mounted.
CallMount(i) ==
  /\ Idle /\ i \notin dev.mounted
  /\ op' = "mount" /\ drive' = i
  /\ UNCHANGED <<card, pulled, dev, raw, backup, got, ret>>

\* fUnmount.
CallUnmount(i) ==
  /\ Idle /\ i \in dev.mounted
  /\ dev' = Unmount(dev, {i})
  /\ Return("ok")
  /\ UNCHANGED <<card, pulled, raw, backup>>

\* fOpen, fStat, fOpenDir, ...: every call with a path asks find_volume, which
\* knows what is registered but not what is mounted.
CallAccess(i) ==
  /\ Idle /\ i \in dev.reg
  /\ \E n \in NandOutcomes : dev' = FindVolume(dev, card, n, i)
  /\ Return(IF dev'.vol[i] # Unread THEN "ok" ELSE "error")
  /\ UNCHANGED <<card, pulled, raw, backup>>

\* Mutant: the NAND drives stay mounted during raw access.
CallPrepareKeepsMounts ==
  /\ Idle /\ ~raw
  /\ backup' = dev.mounted
  /\ raw' = TRUE
  /\ Return("ok")
  /\ UNCHANGED <<card, pulled, dev>>
\* fPrepareRawAccess(FS_DEVICE_NAND).
CallPrepare ==
  /\ Idle /\ ~raw
  /\ backup' = dev.mounted
  /\ dev' = Unmount(dev, dev.mounted \cap NandDrives)
  /\ raw' = TRUE
  /\ Return("ok")
  /\ UNCHANGED <<card, pulled>>

PrepareRefused ==
  /\ Idle /\ raw
  /\ Return("error")
  /\ UNCHANGED <<card, pulled, dev, raw, backup>>

\* fFinalizeRawAccess, one step per drive of fsStatBackupTable.
CallFinalize ==
  /\ Idle /\ raw
  /\ op' = "finalize" /\ drive' = SDMC
  /\ UNCHANGED <<card, pulled, dev, raw, backup, got, ret>>

Mounting == op \in {"mount", "finalize"} /\ ~got /\ ~dev.panic
Wanted(i) == i \in Drives \ dev.mounted /\ (op = "finalize" => i \in backup)

\* f_mount succeeded; its caller has not set fsStatTable yet.
MountOk ==
  /\ Mounting /\ Wanted(drive)
  /\ \E n \in NandOutcomes : dev' = MountVolume(dev, card, n, drive)
  /\ dev'.vol[drive] # Unread
  /\ got' = TRUE
  /\ UNCHANGED <<card, pulled, raw, backup, op, drive, ret>>

\* The drive was not mounted before, or is mounted again already.
SkipDrive ==
  /\ op = "finalize" /\ ~got /\ ~dev.panic
  /\ drive \in Drives /\ ~Wanted(drive)
  /\ drive' = drive + 1
  /\ UNCHANGED <<card, pulled, dev, raw, backup, op, got, ret>>

\* Mutant: a failed finalize gives up the raw access all the same.
MountFailsReleases ==
  /\ Mounting /\ Wanted(drive)
  /\ \E n \in NandOutcomes : dev' = MountVolume(dev, card, n, drive)
  /\ dev'.vol[drive] = Unread
  /\ Return(IF op = "finalize" THEN "ok" ELSE "error")
  /\ raw' = (raw /\ op # "finalize")
  /\ UNCHANGED <<card, pulled, backup>>
\* fMount fails; in fFinalizeRawAccess this is the goto fail.
MountFails ==
  /\ Mounting /\ Wanted(drive)
  /\ \E n \in NandOutcomes : dev' = MountVolume(dev, card, n, drive)
  /\ dev'.vol[drive] = Unread
  /\ Return("error")
  /\ UNCHANGED <<card, pulled, raw, backup>>

StoreMounted ==
  /\ got
  /\ dev' = [dev EXCEPT !.mounted = @ \cup {drive}]
  /\ IF op = "mount" THEN Return("ok")
     ELSE drive' = drive + 1 /\ got' = FALSE /\ UNCHANGED <<op, ret>>
  /\ UNCHANGED <<card, pulled, raw, backup>>

FinalizeDone ==
  /\ op = "finalize" /\ drive \notin Drives
  /\ raw' = FALSE
  /\ Return("ok")
  /\ UNCHANGED <<card, pulled, dev, backup>>

-----------------------------------------------------------------------------
(* The server used by any client.                                          *)

StorageInit ==
  /\ card \in Cards \cup {NoCard}
  /\ pulled = FALSE
  /\ dev = [sd |-> FALSE, irq |-> FALSE, rnand |-> FALSE, dnand |-> FALSE,
            nparts |-> 0, mounted |-> {}, reg |-> {},
            vol |-> [i \in Drives |-> Unread], panic |-> FALSE, missed |-> FALSE]
  /\ raw = FALSE /\ backup = {}
  /\ op = "idle" /\ drive = SDMC /\ got = FALSE /\ ret = "ok"

Card == CardRemove \/ CardInsert
ServerStep == \/ MountOk \/ MountFails \/ StoreMounted
              \/ SkipDrive \/ FinalizeDone
Client == \/ \E i \in Drives : CallMount(i) \/ CallUnmount(i) \/ CallAccess(i)
          \/ CallPrepare \/ PrepareRefused \/ CallFinalize

StorageNext == Card \/ SdioHandler \/ ServerStep \/ Client
StorageSpec == StorageInit /\ [][StorageNext]_storageVars

-----------------------------------------------------------------------------
(* Properties.                                                             *)

StorageTypeOK ==
  /\ card \in Cards \cup {NoCard} /\ pulled \in BOOLEAN
  /\ dev \in Device
  /\ raw \in BOOLEAN /\ backup \subseteq Drives
  /\ op \in {"idle", "mount", "finalize"} /\ drive \in 0 .. LastDrive + 1
  /\ got \in BOOLEAN /\ ret \in {"ok", "error"}

\* A drive the server reports as mounted has a volume registered with FatFs,
\* whatever interrupts, nested remounts and failed mounts came before: a call
\* with a path on it never meets FR_NOT_ENABLED.
MountedRegistered == dev.mounted \subseteq dev.reg

\* Whenever the decrypted NAND device claims to be usable, the raw device below
\* it is open and the partition table is complete, although both are closed,
\* reset and filled again behind the back of a mounted drive.
DnandHasTable == dev.dnand /\ ~dev.panic => dev.rnand /\ dev.nparts = MaxPartitions

\* A volume that find_volume takes as it is was read from the medium that is
\* there now.  In particular no FAT of a card that was swapped is used on the
\* next card, except in one way: the interrupt came between find_volume and the
\* store to fsStatTable, or after a call with a path on the drive a failed mount
\* has left registered, and took the drive for unmounted (fs.c:118).
VolumeOfMedium ==
  \A i \in Drives : dev.vol[i] # Unread /\ Active(dev, card, i)
                       => dev.vol[i] = Medium(card, i) \/ (i = SDMC /\ dev.missed)

\* When a call gives raw access back, every NAND drive that was mounted before
\* the raw access is mounted again.
ReleaseRestores ==
  [][raw /\ ~raw' => backup \cap NandDrives \subseteq dev'.mounted]_storageVars

\* partitionAdd panics when the table is full: "if(numPartitions >=
\* MAX_PARTITIONS) panic();".  It takes eight entries of a header to fill it
\* after a reset, so the assertion should never fire.
NoPanic == ~dev.panic

\* What fs.c, FatFs and dev.c say about a drive agrees, at every instruction at
\* which the interrupt may come.
StorageInv == StorageTypeOK /\ MountedRegistered /\ DnandHasTable

=============================================================================
