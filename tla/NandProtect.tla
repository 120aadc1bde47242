----------------------------- MODULE NandProtect -----------------------------
(***************************************************************************)
(* Restoring a NAND image with the write protection of the ARM9 file       *)
(* server: the restore tool of the ARM11 menu (menuRestoreNand), the       *)
(* device-buffer calls it makes (fVerifyNandImage, fSetNandProtection,     *)
(* fReadToDeviceBuffer, fsWriteFromDeviceBuffer) and the partition table   *)
(* that sdmmc_dnand_init keeps in memory.                                  *)
(*                                                                         *)
(* A sector is a number.  The contents of a sector are tracked relative to *)
(* the restore in progress (or the last one): Kept, or the number of the   *)
(* image sector that was written there.  Handles, mounts and the lifetime  *)
(* of the device buffer are left to modules Storage and NandTools.         *)
(***************************************************************************)
EXTENDS Integers

CONSTANTS
  NandSectors,      \* sectors of the NAND chip
  SecretSector,     \* 0x96, the second sector that is always protected
  MaxPartitions,    \* MAX_PARTITIONS, entries of an NCSD partition table
  BufSectors,       \* DEVICE_BUFSIZE in sectors
  WordSize,         \* 2^32, sector arithmetic is on u32
  PartTables,       \* the partition tables an NCSD header may hold
  Oversized,        \* those that reach past the mediaSize of their header, or
                    \* past UINT32_MAX / 0x200 sectors
  ForeignImages,    \* may a forced image hold another table than the NAND?
  HeaderReadFails,  \* may sdmmc_dnand_init fail after partitionsReset?
  Kept              \* contents of a sector the restore did not write

Sectors == 0 .. NandSectors - 1
Partitions == 0 .. MaxPartitions - 1
Entry == [sector : Nat, count : Nat, firm : BOOLEAN]
Table == [Partitions -> Entry]

\* partitionsReset leaves eight empty entries of type 0.
NoTable == [i \in Partitions |-> [sector |-> 0, count |-> 0, firm |-> FALSE]]

\* Firmware partitions lie behind 0x96, on the chip, in ascending order: true
\* of every console's table, and what the write loop silently relies on.
FirmAscending(t) ==
  /\ \A i \in Partitions : t[i].firm =>
        /\ SecretSector < t[i].sector
        /\ 0 < t[i].count
        /\ t[i].sector + t[i].count <= NandSectors
  /\ \A i, j \in Partitions : i < j /\ t[i].firm /\ t[j].firm =>
        t[i].sector + t[i].count <= t[j].sector

ASSUME SizeAssumption ==
  /\ NandSectors \in Nat /\ WordSize \in Nat /\ NandSectors < WordSize
  /\ SecretSector \in Nat \ {0} /\ SecretSector < NandSectors
  /\ MaxPartitions \in Nat \ {0}
  /\ BufSectors \in Nat \ {0}
ASSUME KeptAssumption == Kept \notin Nat
ASSUME FlagAssumption == ForeignImages \in BOOLEAN /\ HeaderReadFails \in BOOLEAN
ASSUME TableAssumption ==
  /\ \A t \in PartTables : t \in Table /\ FirmAscending(t)
  /\ Oversized \subseteq PartTables

VARIABLES
  header,       \* the partition table in sector 0 of the NAND
  parts,        \* partitions[], the table sdmmc_dnand_init built in memory
  nandActive,   \* dev_rnand.initialized
  regions,      \* protNandRegions[]
  numRegions,   \* numProtNandRegions
  part,         \* i of the loop in fSetNandProtection
  guarded,      \* history: the table the regions in force were built from
  nand,         \* contents of each sector, relative to the current restore
  forced, fileSectors, tail, imgTable,  \* the restore: mode, image size in
                                        \* whole sectors, a ragged last sector,
                                        \* the table in the image
  pos,          \* p of menuRestoreNand, in sectors
  bufBase,      \* image sector at devBuf.mem[0]
  dataSize,     \* devBuf.dataSize, in sectors
  sector, toWrite, bufPtr,  \* locals of the protected write, in sectors
  pc,           \* where the restore stands
  result        \* what the last restore reported

table == <<header, parts, nandActive>>
protection == <<regions, numRegions, part, guarded>>
job == <<forced, fileSectors, tail, imgTable>>
chunk == <<pos, bufBase, dataSize>>
cursor == <<sector, toWrite, bufPtr>>
vars == <<table, protection, nand, job, chunk, cursor, pc, result>>

-----------------------------------------------------------------------------
(* Protected regions.                                                      *)

RegionIds == 0 .. MaxPartitions + 1
RegionEnd(i) == regions[i].sector + regions[i].count

isNandProtected == numRegions # 0

\* Mutant: a region hit by the last sector of the range only is missed.
OverlapsOffByOne(i, start, size) ==
  /\ start + size < WordSize
  /\ size > 0
  /\ start < RegionEnd(i)
  /\ regions[i].sector + 1 < start + size
\* getNandProtRegion(start, size) returns region i: the first in table order
\* that overlaps the sectors start .. start + size - 1.
Overlaps(i, start, size) ==
  /\ start + size < WordSize
  /\ size > 0
  /\ start < RegionEnd(i)
  /\ regions[i].sector < start + size
getNandProtRegion(i, start, size) ==
  /\ i \in 0 .. numRegions - 1
  /\ Overlaps(i, start, size)
  /\ \A j \in 0 .. i - 1 : ~Overlaps(j, start, size)
NoRegion(start, size) == \A i \in 0 .. numRegions - 1 : ~Overlaps(i, start, size)

SmallerOf(a, b) == IF a < b THEN a ELSE b

-----------------------------------------------------------------------------
(* Devices: what happens to the partition table between two restores.      *)

\* Mutant: the table is not read again from the header.
FillTableStale == nandActive' = TRUE /\ parts' = parts

\* sdmmc_dnand_init: reset the table, then fill it from the NAND header.
FillTable ==
  /\ nandActive' = TRUE
  /\ \/ parts' = header
     \/ HeaderReadFails /\ parts' = NoTable

\* A mount of a NAND drive initialises the NAND devices.
DnandInit ==
  /\ pc = "idle" /\ ~nandActive
  /\ FillTable
  /\ UNCHANGED <<header, protection, nand, job, chunk, cursor, pc, result>>

\* Mounting a swapped SD card runs sdmmc_sd_init, which closes the NAND
\* devices and remounts the NAND drives that are mounted.
SdCardInit ==
  /\ pc = "idle" /\ nandActive
  /\ \/ FillTable
     \/ nandActive' = FALSE /\ parts' = parts
  /\ UNCHANGED <<header, protection, nand, job, chunk, cursor, pc, result>>

-----------------------------------------------------------------------------
(* The restore tool.                                                       *)

\* calcNandImageMinSize gives the end of the last partition, or 0, which its
\* caller refuses, for an oversized or empty table and one with a sum past
\* 2^32 (no size covers that).
CoversTable(size, t) ==
  /\ t \notin Oversized
  /\ \E i \in Partitions : 0 < t[i].sector + t[i].count
  /\ \A i \in Partitions : t[i].sector + t[i].count <= size

\* Sectors of a file, the ragged one included.
FileEnd(size, ragged) == size + (IF ragged THEN 1 ELSE 0)

\* fVerifyNandImage: sizes, the header without its signature, minimum size.
fVerifyNandImage(size, ragged, t) ==
  /\ 1 <= size /\ FileEnd(size, ragged) <= NandSectors
  /\ t = header
  /\ CoversTable(size, t)

Fails == pc' = "idle" /\ result' = "fail"

\* From the menu entry to the check of the file size.  A restore that a check
\* refuses before the raw access is not a step of this module.
StartRestore ==
  /\ pc = "idle" /\ nandActive
  /\ forced' \in BOOLEAN
  /\ fileSectors' \in 0 .. NandSectors + 1
  /\ tail' \in BOOLEAN
  /\ imgTable' \in (IF ForeignImages THEN PartTables ELSE {header})
  /\ ~forced' => fVerifyNandImage(fileSectors', tail', imgTable')
  /\ nand' = [s \in Sectors |-> Kept]
  /\ pos' = 0
  /\ IF FileEnd(fileSectors', tail') > NandSectors
       THEN Fails
       ELSE pc' = "protect" /\ result' = "none"
  /\ UNCHANGED <<table, protection, bufBase, dataSize, cursor>>

\* fSetNandProtection(!forced), first the early return.
ProtectionUnchanged ==
  /\ pc = "protect" /\ (forced <=> ~isNandProtected)
  /\ pc' = "loop"
  /\ UNCHANGED <<table, protection, nand, job, chunk, cursor, result>>

ProtectionOff ==
  /\ pc = "protect" /\ forced /\ isNandProtected
  /\ numRegions' = 0
  /\ pc' = "loop"
  /\ UNCHANGED <<table, regions, part, guarded, nand, job, chunk, cursor, result>>

\* The two default regions; "register" then visits the partition table.
ProtectionOn ==
  /\ pc = "protect" /\ ~forced /\ ~isNandProtected
  /\ numRegions' = 2
  /\ regions' = [regions EXCEPT ![0] = [sector |-> 0, count |-> 1],
                                ![1] = [sector |-> SecretSector, count |-> 1]]
  /\ part' = 0
  /\ guarded' = parts
  /\ pc' = "register"
  /\ UNCHANGED <<table, nand, job, chunk, cursor, result>>

NextPartition ==
  /\ part' = part + 1
  /\ pc' = IF part + 1 = MaxPartitions THEN "loop" ELSE "register"
  /\ UNCHANGED <<table, guarded, nand, job, chunk, cursor, result>>

SkipPartition ==
  /\ pc = "register" /\ ~parts[part].firm
  /\ NextPartition
  /\ UNCHANGED <<regions, numRegions>>

\* Mutant: the merge replaces the length of the region.
MergeReplaces ==
  /\ pc = "register" /\ parts[part].firm
  /\ \E i \in RegionIds :
       /\ getNandProtRegion(i, parts[part].sector - 1, 1)
       /\ regions' = [regions EXCEPT ![i] =
            [sector |-> @.sector, count |-> parts[part].count]]
  /\ NextPartition
  /\ UNCHANGED numRegions

\* A region that holds the sector before the partition grows over it.
MergeRegion ==
  /\ pc = "register" /\ parts[part].firm
  /\ \E i \in RegionIds :
       /\ getNandProtRegion(i, parts[part].sector - 1, 1)
       /\ regions' = [regions EXCEPT ![i] =
            [sector |-> @.sector, count |-> @.count + parts[part].count]]
  /\ NextPartition
  /\ UNCHANGED numRegions

AppendRegion ==
  /\ pc = "register" /\ parts[part].firm
  /\ NoRegion(parts[part].sector - 1, 1)
  /\ regions' = [regions EXCEPT ![numRegions] =
                   [sector |-> parts[part].sector, count |-> parts[part].count]]
  /\ numRegions' = numRegions + 1
  /\ NextPartition

\* The loop over the file, p < file_size.
MoreToRestore == pos < fileSectors \/ (pos = fileSectors /\ tail)

FinishRestore ==
  /\ pc = "loop" /\ ~MoreToRestore
  /\ pc' = "idle" /\ result' = "ok"
  /\ UNCHANGED <<table, protection, nand, job, chunk, cursor>>

ChunkSectors == SmallerOf(BufSectors, fileSectors - pos)
ChunkIsRagged == tail /\ fileSectors - pos < BufSectors

\* fReadToDeviceBuffer of the next chunk; a file needs no alignment.
ReadChunk ==
  /\ pc = "loop" /\ MoreToRestore
  /\ bufBase' = pos
  /\ dataSize' = ChunkSectors
  /\ pc' = "chunk"
  /\ UNCHANGED <<table, protection, nand, job, pos, cursor, result>>

ReadFails ==
  /\ pc = "loop" /\ MoreToRestore
  /\ Fails
  /\ UNCHANGED <<table, protection, nand, job, chunk, cursor>>

\* fsWriteFromDeviceBuffer takes multiples of 0x200 bytes only.
RefuseRagged ==
  /\ pc = "chunk" /\ ChunkIsRagged
  /\ Fails
  /\ UNCHANGED <<table, protection, nand, job, chunk, cursor>>

BeginWrite ==
  /\ pc = "chunk" /\ ~ChunkIsRagged
  /\ sector' = pos /\ toWrite' = dataSize /\ bufPtr' = 0
  /\ pc' = "write"
  /\ UNCHANGED <<table, protection, nand, job, chunk, result>>

-----------------------------------------------------------------------------
(* fsWriteFromDeviceBuffer, one step per pass of its loop.                 *)

\* write_sector(sector, n, devBufPtr).  A forced write of sector 0 also
\* replaces the partition table on the chip.
WriteSectors(n) ==
  /\ nand' = [s \in Sectors |-> IF s \in sector .. sector + n - 1
                                  THEN bufBase + bufPtr + (s - sector)
                                  ELSE nand[s]]
  /\ header' = IF 0 \in sector .. sector + n - 1 THEN imgTable ELSE header

Advance(count) ==
  /\ bufPtr' = bufPtr + count
  /\ sector' = sector + count
  /\ toWrite' = toWrite - count
  /\ IF toWrite = count THEN pc' = "poll" /\ dataSize' = 0
                        ELSE pc' = "write" /\ dataSize' = dataSize
  /\ UNCHANGED <<parts, nandActive, protection, job, pos, bufBase, result>>

\* Mutants: a skip that is one sector too long; a gap that does not stop at the
\* region.
SkipOneMore(i) == SmallerOf(RegionEnd(i) + 1, sector + toWrite) - sector
GapUnbounded(i) == toWrite

\* How far the next pass of the loop goes, when region i is in the way.
SkipCount(i) == SmallerOf(RegionEnd(i), sector + toWrite) - sector
GapCount(i) == SmallerOf(toWrite, regions[i].sector - sector)

SkipRegion ==
  /\ pc = "write" /\ isNandProtected
  /\ \E i \in RegionIds :
       /\ getNandProtRegion(i, sector, toWrite)
       /\ regions[i].sector <= sector
       /\ Advance(SkipCount(i))
  /\ UNCHANGED <<nand, header>>

WriteGap ==
  /\ pc = "write" /\ isNandProtected
  /\ \E i \in RegionIds :
       /\ getNandProtRegion(i, sector, toWrite)
       /\ regions[i].sector > sector
       /\ WriteSectors(GapCount(i))
       /\ Advance(GapCount(i))

\* No region ahead, or no protection at all: the rest in one write.
WriteRest ==
  /\ pc = "write"
  /\ NoRegion(sector, toWrite)
  /\ WriteSectors(toWrite)
  /\ Advance(toWrite)

\* write_sector returns false, having written any part of its sectors.
WriteFails ==
  /\ pc = "write"
  /\ \E n \in 0 .. toWrite :
       /\ \/ NoRegion(sector, toWrite)
          \/ \E i \in RegionIds : /\ getNandProtRegion(i, sector, toWrite)
                                  /\ regions[i].sector > sector
                                  /\ n <= GapCount(i)
       /\ WriteSectors(n)
  /\ Fails
  /\ UNCHANGED <<parts, nandActive, protection, job, chunk, cursor>>

\* Mutant: the next chunk starts where this one did.
ContinueInPlace ==
  /\ pc = "poll"
  /\ pos' = pos
  /\ pc' = "loop"
  /\ UNCHANGED <<table, protection, nand, job, bufBase, dataSize, cursor, result>>

\* userCancelHandler(false): the restore goes on unless POWER is held.
ContinueRestore ==
  /\ pc = "poll"
  /\ pos' = pos + BufSectors
  /\ pc' = "loop"
  /\ UNCHANGED <<table, protection, nand, job, bufBase, dataSize, cursor, result>>

PowerHeld ==
  /\ pc = "poll"
  /\ Fails
  /\ UNCHANGED <<table, protection, nand, job, chunk, cursor>>

-----------------------------------------------------------------------------
\* Power is lost at any moment and the console boots again: statics are zero.
PowerLoss ==
  /\ numRegions' = 0 /\ part' = 0
  /\ regions' = [i \in RegionIds |-> [sector |-> 0, count |-> 0]]
  /\ nandActive' = FALSE /\ parts' = NoTable
  /\ dataSize' = 0 /\ bufBase' = 0
  /\ pc' = "idle" /\ result' = "none"
  /\ UNCHANGED <<header, guarded, nand, job, pos, cursor>>

Init ==
  /\ header \in PartTables
  /\ parts = NoTable /\ nandActive = FALSE
  /\ regions = [i \in RegionIds |-> [sector |-> 0, count |-> 0]]
  /\ numRegions = 0 /\ part = 0 /\ guarded = NoTable
  /\ nand = [s \in Sectors |-> Kept]
  /\ forced = FALSE /\ fileSectors = 0 /\ tail = FALSE /\ imgTable = header
  /\ pos = 0 /\ bufBase = 0 /\ dataSize = 0
  /\ sector = 0 /\ toWrite = 0 /\ bufPtr = 0
  /\ pc = "idle" /\ result = "none"

Environment == DnandInit \/ SdCardInit \/ StartRestore \/ PowerLoss

SetProtection ==
  ProtectionUnchanged \/ ProtectionOff \/ ProtectionOn
    \/ SkipPartition \/ MergeRegion \/ AppendRegion

TransferChunk ==
  \/ ReadChunk \/ ReadFails \/ RefuseRagged \/ BeginWrite
  \/ SkipRegion \/ WriteGap \/ WriteRest \/ WriteFails
  \/ ContinueRestore \/ PowerHeld \/ FinishRestore

Next == Environment \/ SetProtection \/ TransferChunk

\* The two processors keep running the restore; nothing else is promised.
Fairness == WF_vars(SetProtection \/ TransferChunk)

Spec == Init /\ [][Next]_vars /\ Fairness

-----------------------------------------------------------------------------
(* Properties.                                                             *)

FirmSectors(t) ==
  UNION {t[i].sector .. t[i].sector + t[i].count - 1 : i \in {k \in Partitions : t[k].firm}}
Protected(t) == {0, SecretSector} \cup FirmSectors(t)

Region == [sector : Nat, count : Nat]
RestorePoints == {"protect", "register", "loop", "chunk", "write", "poll"}

\* Types of the variables.  The bound of numRegions is the size of the array
\* protNandRegions: fSetNandProtection must never run past it.
TypeOK ==
  /\ header \in PartTables
  /\ parts \in PartTables \cup {NoTable} /\ nandActive \in BOOLEAN
  /\ regions \in [RegionIds -> Region] /\ numRegions \in 0 .. MaxPartitions + 2
  /\ part \in 0 .. MaxPartitions /\ guarded \in PartTables \cup {NoTable}
  /\ nand \in [Sectors -> Nat \cup {Kept}]
  /\ forced \in BOOLEAN /\ fileSectors \in 0 .. NandSectors + 1 /\ tail \in BOOLEAN /\ imgTable \in PartTables
  /\ pos \in Nat /\ bufBase \in Nat /\ dataSize \in Nat
  /\ sector \in Nat /\ toWrite \in Nat /\ bufPtr \in Nat
  /\ pc \in {"idle"} \cup RestorePoints
  /\ result \in {"none", "ok", "fail"}

-----------------------------------------------------------------------------
(* What holds in every reachable state, in named parts.                    *)

\* Where control can be: the loop over the partition table stays inside the
\* two arrays, a job that is past fSetNandProtection is unforced exactly when
\* regions are in force, and the NAND stays active during a restore.
ControlInv ==
  /\ pc # "idle" => nandActive /\ fileSectors <= NandSectors /\ result = "none"
  /\ pc \in {"protect", "register"} => pos = 0
  /\ pc = "register" => /\ part < MaxPartitions
                        /\ numRegions \in 2 .. part + 2
                        /\ guarded = parts /\ ~forced
  /\ pc \in {"loop", "chunk", "write", "poll"} => (forced <=> numRegions = 0)

\* The partitions the regions already account for.
Registered == IF pc = "register" THEN 0 .. part - 1 ELSE Partitions

InEntry(s, e) == e.sector <= s /\ s < e.sector + e.count
Covered(s) == \E i \in 0 .. numRegions - 1 : InEntry(s, regions[i])
MustCover(s) == \/ s \in {0, SecretSector}
                \/ \E i \in Registered : guarded[i].firm /\ InEntry(s, guarded[i])

\* The regions lie on the chip, are ascending and disjoint, and cover exactly
\* the sectors that must not be written: no merge of fSetNandProtection loses
\* a sector or protects one too many.  While the table is being read, every
\* region ends before the firmware partitions still to come.
RegionsFit ==
  \A i \in 0 .. numRegions - 1 : regions[i].count > 0 /\ RegionEnd(i) <= NandSectors
RegionsAscending ==
  \A i, j \in 0 .. numRegions - 1 : i < j => RegionEnd(i) <= regions[j].sector
RegionsExact ==
  numRegions > 0 => \A s \in Sectors : Covered(s) <=> MustCover(s)
RegionsBehind ==
  pc = "register" =>
    \A i \in 0 .. numRegions - 1, k \in part .. MaxPartitions - 1 :
      guarded[k].firm => RegionEnd(i) <= guarded[k].sector
RegionInv == RegionsFit /\ RegionsAscending /\ RegionsExact /\ RegionsBehind

\* The sectors the current restore must leave alone.
Spared == IF forced THEN {}
          ELSE Protected(IF pc = "protect" /\ ~isNandProtected THEN parts ELSE guarded)

\* How far the restore has come: everything below is on the chip or spared.
Reached == CASE pc = "write" -> sector
             [] pc = "poll" -> SmallerOf(pos + BufSectors, fileSectors)
             [] OTHER -> pos

TransferInv ==
  /\ pc = "loop" /\ tail => pos <= fileSectors
  /\ pc = "chunk" => MoreToRestore /\ bufBase = pos /\ dataSize = ChunkSectors
  /\ pc = "write" => /\ ~ChunkIsRagged /\ pos < fileSectors
                     /\ bufBase = pos /\ dataSize = ChunkSectors
                     /\ sector = pos + bufPtr /\ toWrite > 0
                     /\ sector + toWrite = pos + dataSize
  /\ pc = "poll" => ~ChunkIsRagged /\ pos < fileSectors
  /\ pc # "idle" => \A s \in Sectors : s < Reached /\ s < fileSectors =>
                       nand[s] = s \/ s \in Spared

\* With images of this console only, all tables in play are the chip's.
TableInv ==
  ~ForeignImages /\ ~HeaderReadFails =>
    /\ imgTable = header
    /\ nandActive => parts = header
    /\ numRegions > 0 => guarded = header

\* The conjunction is inductive together with TypeOK and NoShift.
InductiveInv == ControlInv /\ RegionInv /\ TransferInv /\ TableInv

\* A restored sector holds the image sector of the same number: skipping a
\* protected region in fsWriteFromDeviceBuffer never shifts the image.
NoShift == \A s \in Sectors : nand[s] \in {Kept, s}

\* menuRestoreNand reports success only when the whole image is on the NAND,
\* except for the protected sectors when the restore was not forced.
OkIsComplete ==
  result = "ok" =>
    /\ ~tail
    /\ \A s \in 0 .. fileSectors - 1 : nand[s] = s \/ (~forced /\ s \in Protected(guarded))

\* An unforced restore never changes sector 0, sector 0x96 or a sector of a
\* firmware partition of the table its regions were built from, in whatever
\* pieces fsWriteFromDeviceBuffer and the failing driver write the image.
Untouched(S) == \A s \in S : nand'[s] = nand[s] \/ nand'[s] = Kept
ProtectedKept == [][~forced' => Untouched(Protected(guarded'))]_vars

\* An unforced restore never changes a firmware sector of the table that is
\* on the chip, as long as images carry the chip's own table and the header
\* can be read: then no swap of the SD card and no earlier restore can leave
\* regions behind that fSetNandProtection takes for current.
FirmKept == [][~forced' => Untouched(Protected(header))]_vars

\* The sectors the current restore is for, and the mapping to NandImage.
Writable == IF pc = "idle" THEN {} ELSE (0 .. fileSectors - 1) \ Spared

Image == INSTANCE NandImage WITH
  contents <- nand, writable <- Writable, busy <- pc # "idle", outcome <- result

\* The restore implements NandImage: it burns image sectors to their own
\* numbers, spares the protected ones, and says "ok" for a whole image only.
ImplementsImage == Image!Spec

\* Every restore ends, whatever regions lie in its way.
RestoreEnds == pc \in RestorePoints ~> pc = "idle"

\* The state of a restore: its variables in range (protNandRegions has room for
\* every partition), regions that cover what must be covered, the chip as the
\* cursor says, and no sector shifted.
RestoreInv == TypeOK /\ InductiveInv /\ NoShift

=============================================================================
