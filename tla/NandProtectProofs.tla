-------------------------- MODULE NandProtectProofs --------------------------
(***************************************************************************)
(* Proofs about NandProtect for every size of the chip, the buffer and the *)
(* partition table.                                                        *)
(***************************************************************************)
EXTENDS NandProtect, TLAPS

USE DEF Sectors, Partitions, RegionIds

\* The assumptions every step needs.
LEMMA Sizes ==
  /\ NandSectors \in Nat /\ WordSize \in Nat /\ NandSectors < WordSize
  /\ SecretSector \in Nat /\ 0 < SecretSector /\ SecretSector < NandSectors
  /\ MaxPartitions \in Nat /\ 0 < MaxPartitions
  /\ BufSectors \in Nat /\ 0 < BufSectors
  BY SizeAssumption

\* Every table the console can hold in memory has the shape the code relies on.
LEMMA Tables ==
  ASSUME NEW t \in PartTables \cup {NoTable}
  PROVE  t \in Table /\ FirmAscending(t)
<1>1. NoTable \in Table /\ FirmAscending(NoTable)
  BY Sizes DEF NoTable, Table, Entry, FirmAscending
<1> QED BY <1>1, TableAssumption

\* Entries and regions of a table have natural numbers for bounds.
LEMMA EntryTypes ==
  ASSUME NEW t \in PartTables \cup {NoTable}, NEW i \in Partitions
  PROVE  t[i].sector \in Nat /\ t[i].count \in Nat /\ t[i].firm \in BOOLEAN
BY Tables DEF Table, Entry

-----------------------------------------------------------------------------
(* Types.                                                                  *)

LEMMA TypeInit == Init => TypeOK
<1> SUFFICES ASSUME Init PROVE TypeOK
  OBVIOUS
<1>1. regions \in [RegionIds -> Region]
  BY DEF Init, Region
<1>2. nand \in [Sectors -> Nat \cup {Kept}]
  BY DEF Init
<1>3. header \in PartTables /\ imgTable \in PartTables
  BY DEF Init
<1>4. parts \in PartTables \cup {NoTable} /\ guarded \in PartTables \cup {NoTable}
  BY DEF Init
<1>5. /\ numRegions \in 0 .. MaxPartitions + 2 /\ part \in 0 .. MaxPartitions
      /\ fileSectors \in 0 .. NandSectors + 1
  BY Sizes DEF Init
<1> QED BY <1>1, <1>2, <1>3, <1>4, <1>5, Zenon DEF Init, TypeOK

LEMMA TypeStep == TypeOK /\ ControlInv /\ TransferInv /\ [Next]_vars => TypeOK'
<1> SUFFICES ASSUME TypeOK, ControlInv, TransferInv, [Next]_vars PROVE TypeOK'
  OBVIOUS
<1> USE Sizes
<1>1. CASE UNCHANGED vars
  BY <1>1 DEF TypeOK, vars, table, protection, job, chunk, cursor
<1>2. CASE DnandInit
  BY <1>2 DEF DnandInit, FillTable, TypeOK, protection, job, chunk, cursor
<1>3. CASE SdCardInit
  BY <1>3 DEF SdCardInit, FillTable, TypeOK, protection, job, chunk, cursor
<1>4. CASE StartRestore
  <2>1. imgTable' \in PartTables
    BY <1>4, FlagAssumption DEF StartRestore, TypeOK
  <2> QED
    BY <1>4, <2>1 DEF StartRestore, Fails, TypeOK, RestorePoints, table, protection, cursor
<1>5. CASE PowerLoss
  <2>1. regions' \in [RegionIds -> Region]
    BY <1>5 DEF PowerLoss, Region
  <2>2. numRegions' \in 0 .. MaxPartitions + 2 /\ part' \in 0 .. MaxPartitions
    BY <1>5 DEF PowerLoss
  <2>3. dataSize' \in Nat /\ bufBase' \in Nat
    BY <1>5 DEF PowerLoss
  <2>4. parts' \in PartTables \cup {NoTable}
    BY <1>5 DEF PowerLoss
  <2> QED BY <1>5, <2>1, <2>2, <2>3, <2>4, Zenon DEF PowerLoss, TypeOK, job, cursor
<1>6. CASE ProtectionUnchanged
  BY <1>6 DEF ProtectionUnchanged, TypeOK, RestorePoints, table, protection, job, chunk, cursor
<1>7. CASE ProtectionOff
  BY <1>7 DEF ProtectionOff, TypeOK, RestorePoints, table, job, chunk, cursor
<1>8. CASE ProtectionOn
  <2>1. regions' \in [RegionIds -> Region]
    BY <1>8 DEF ProtectionOn, TypeOK, Region
  <2>2. numRegions' \in 0 .. MaxPartitions + 2 /\ part' \in 0 .. MaxPartitions
    BY <1>8 DEF ProtectionOn
  <2> QED
    BY <1>8, <2>1, <2>2 DEF ProtectionOn, TypeOK, RestorePoints, table, job, chunk, cursor
<1>9. CASE SkipPartition
  <2>1. part' \in 0 .. MaxPartitions /\ pc' \in {"idle"} \cup RestorePoints
    BY <1>9 DEF SkipPartition, NextPartition, RestorePoints, TypeOK, ControlInv
  <2> QED
    BY <1>9, <2>1, Zenon DEF SkipPartition, NextPartition, TypeOK, table, job, chunk, cursor
<1>10. CASE MergeRegion
  <2>. pc = "register"
    BY <1>10 DEF MergeRegion
  <2>0. parts \in PartTables \cup {NoTable} /\ part \in Partitions
    BY DEF TypeOK, ControlInv
  <2>1. parts[part].count \in Nat
    BY <2>0, EntryTypes
  <2>2. regions' \in [RegionIds -> Region]
    <3>1. PICK i \in RegionIds :
            regions' = [regions EXCEPT ![i] =
              [sector |-> regions[i].sector, count |-> regions[i].count + parts[part].count]]
      BY <1>10 DEF MergeRegion
    <3>2. regions \in [RegionIds -> Region]
      BY DEF TypeOK
    <3>3. regions[i] \in Region
      BY <3>2
    <3>4. regions[i].sector \in Nat /\ regions[i].count \in Nat
      BY <3>3 DEF Region
    <3>5. regions[i].count + parts[part].count \in Nat
      BY <2>1, <3>4
    <3>6. [sector |-> regions[i].sector, count |-> regions[i].count + parts[part].count] \in Region
      BY <3>4, <3>5 DEF Region
    <3> QED BY <3>1, <3>2, <3>6, Zenon
  <2>3. numRegions' = numRegions
    BY <1>10 DEF MergeRegion
  <2>4. NextPartition
    BY <1>10 DEF MergeRegion
  <2>5. part' \in 0 .. MaxPartitions /\ pc' \in {"idle"} \cup RestorePoints
    BY <2>0, <2>4 DEF NextPartition, RestorePoints, Partitions
  <2> QED
    BY <2>2, <2>3, <2>4, <2>5, Zenon DEF NextPartition, TypeOK, table, job, chunk, cursor
<1>11. CASE AppendRegion
  <2>. pc = "register"
    BY <1>11 DEF AppendRegion
  <2>0. parts \in PartTables \cup {NoTable} /\ part \in Partitions
    BY DEF TypeOK, ControlInv, Partitions
  <2>1. parts[part].count \in Nat /\ parts[part].sector \in Nat
    BY <2>0, EntryTypes
  <2>2. regions' \in [RegionIds -> Region]
    <3>1. [sector |-> parts[part].sector, count |-> parts[part].count] \in Region
      BY <2>1 DEF Region
    <3>2. regions \in [RegionIds -> Region]
      BY DEF TypeOK
    <3> QED BY <1>11, <3>1, <3>2, Zenon DEF AppendRegion
  <2>3. numRegions' \in 0 .. MaxPartitions + 2
    BY <1>11, <2>0 DEF AppendRegion, ControlInv, Partitions
  <2>4. NextPartition
    BY <1>11 DEF AppendRegion
  <2>5. part' \in 0 .. MaxPartitions /\ pc' \in {"idle"} \cup RestorePoints
    BY <2>0, <2>4 DEF NextPartition, RestorePoints, Partitions
  <2> QED
    BY <2>2, <2>3, <2>4, <2>5, Zenon DEF NextPartition, TypeOK, table, job, chunk, cursor
<1>12. CASE ReadChunk
  BY <1>12 DEF ReadChunk, MoreToRestore, ChunkSectors, SmallerOf, TypeOK, RestorePoints, table, protection, job, cursor
<1>13. CASE ReadFails
  BY <1>13 DEF ReadFails, Fails, TypeOK, table, protection, job, chunk, cursor
<1>14. CASE RefuseRagged
  BY <1>14 DEF RefuseRagged, Fails, TypeOK, table, protection, job, chunk, cursor
<1>15. CASE BeginWrite
  BY <1>15 DEF BeginWrite, TypeOK, RestorePoints, table, protection, job, chunk
<1>16. ASSUME NEW n \in Nat, pc = "write", WriteSectors(n)
       PROVE  nand' \in [Sectors -> Nat \cup {Kept}] /\ header' \in PartTables
  BY <1>16 DEF WriteSectors, TypeOK
<1>17. ASSUME NEW n \in 0 .. toWrite, Advance(n), pc = "write",
              nand' \in [Sectors -> Nat \cup {Kept}], header' \in PartTables
       PROVE  TypeOK'
  BY <1>17 DEF Advance, TypeOK, RestorePoints, protection, job
<1>18. ASSUME NEW i \in RegionIds, getNandProtRegion(i, sector, toWrite), pc = "write"
       PROVE  /\ regions[i].sector <= sector => SkipCount(i) \in 0 .. toWrite
              /\ regions[i].sector > sector => GapCount(i) \in 0 .. toWrite
  <2>1. regions[i].sector \in Nat /\ regions[i].count \in Nat
    BY DEF TypeOK, Region
  <2> QED
    BY <1>18, <2>1 DEF getNandProtRegion, Overlaps, RegionEnd, SkipCount, GapCount, SmallerOf, TypeOK
<1>19. CASE SkipRegion
  BY <1>17, <1>18, <1>19 DEF SkipRegion, TypeOK
<1>20. CASE WriteGap
  BY <1>16, <1>17, <1>18, <1>20 DEF WriteGap
<1>21. CASE WriteRest
  BY <1>16, <1>17, <1>21 DEF WriteRest, TypeOK
<1>22. CASE WriteFails
  <2>1. PICK n \in 0 .. toWrite : WriteSectors(n)
    BY <1>22 DEF WriteFails
  <2>2. n \in Nat /\ pc = "write"
    BY <1>22 DEF WriteFails, TypeOK
  <2>3. nand' \in [Sectors -> Nat \cup {Kept}] /\ header' \in PartTables
    BY <2>1, <2>2, <1>16
  <2> QED
    BY <1>22, <2>3 DEF WriteFails, Fails, TypeOK, protection, job, chunk, cursor
<1>23. CASE ContinueRestore
  BY <1>23 DEF ContinueRestore, TypeOK, RestorePoints, table, protection, job, cursor
<1>24. CASE PowerHeld
  BY <1>24 DEF PowerHeld, Fails, TypeOK, table, protection, job, chunk, cursor
<1>25. CASE FinishRestore
  BY <1>25 DEF FinishRestore, TypeOK, table, protection, job, chunk, cursor
<1> QED
  BY <1>1, <1>2, <1>3, <1>4, <1>5, <1>6, <1>7, <1>8, <1>9, <1>10, <1>11, <1>12, <1>13,
     <1>14, <1>15, <1>19, <1>20, <1>21, <1>22, <1>23, <1>24, <1>25
  DEF Next, Environment, SetProtection, TransferChunk

-----------------------------------------------------------------------------
(* Control.                                                                *)

IInv == TypeOK /\ InductiveInv /\ NoShift

LEMMA ControlStep == IInv /\ [Next]_vars => ControlInv'
<1> SUFFICES ASSUME IInv, [Next]_vars PROVE ControlInv'
  OBVIOUS
<1>a. TypeOK /\ ControlInv
  BY DEF IInv, InductiveInv
<1> USE <1>a, Sizes
<1>1. CASE UNCHANGED vars
  BY <1>1 DEF ControlInv, vars, table, protection, job, chunk, cursor
<1>2. CASE DnandInit \/ SdCardInit \/ PowerLoss
  BY <1>2 DEF DnandInit, SdCardInit, PowerLoss, ControlInv
<1>3. CASE StartRestore
  <2>1. /\ nandActive' = TRUE /\ pos' = 0 /\ pc' \in {"idle", "protect"}
        /\ pc' = "protect" => result' = "none"
    BY <1>3 DEF StartRestore, Fails, table
  <2>2. pc' = "protect" => fileSectors' <= NandSectors
    <3>1. /\ fileSectors' \in 0 .. NandSectors + 1 /\ tail' \in BOOLEAN
          /\ FileEnd(fileSectors', tail') > NandSectors => pc' = "idle"
      BY <1>3 DEF StartRestore, Fails
    <3>2. \/ FileEnd(fileSectors', tail') = fileSectors' + 1
          \/ FileEnd(fileSectors', tail') = fileSectors' + 0
      BY Zenon DEF FileEnd
    <3> QED BY <3>1, <3>2
  <2> QED BY <2>1, <2>2 DEF ControlInv
<1>4. CASE ProtectionUnchanged \/ ProtectionOff
  BY <1>4 DEF ProtectionUnchanged, ProtectionOff, isNandProtected, ControlInv, TypeOK,
     table, protection, job, chunk, cursor
<1>5. CASE ProtectionOn
  BY <1>5 DEF ProtectionOn, ControlInv, TypeOK, table, job, chunk, cursor
<1>6. CASE SkipPartition \/ MergeRegion \/ AppendRegion
  <2>1. /\ pc = "register" /\ NextPartition
        /\ numRegions' = numRegions \/ numRegions' = numRegions + 1
    BY <1>6 DEF SkipPartition, MergeRegion, AppendRegion
  <2> QED BY <2>1 DEF NextPartition, ControlInv, TypeOK, table, job, chunk, cursor
<1>7. CASE ReadChunk \/ ReadFails \/ RefuseRagged \/ BeginWrite \/ ContinueRestore
           \/ PowerHeld \/ FinishRestore
  BY <1>7 DEF ReadChunk, ReadFails, RefuseRagged, BeginWrite, ContinueRestore, PowerHeld,
     FinishRestore, Fails, ControlInv, table, protection, job, chunk, cursor
<1>8. CASE SkipRegion \/ WriteGap \/ WriteRest
  <2>1. /\ pc = "write" /\ pc' \in {"write", "poll"}
        /\ UNCHANGED <<nandActive, numRegions, forced, fileSectors, result>>
    BY <1>8 DEF SkipRegion, WriteGap, WriteRest, Advance, protection, job
  <2> QED BY <2>1 DEF ControlInv
<1>9. CASE WriteFails
  BY <1>9 DEF WriteFails, Fails, ControlInv
<1> QED
  BY <1>1, <1>2, <1>3, <1>4, <1>5, <1>6, <1>7, <1>8, <1>9
  DEF Next, Environment, SetProtection, TransferChunk

-----------------------------------------------------------------------------
(* Regions.                                                                *)

\* Reading one more entry of the table adds that entry, if it is firmware, to
\* the sectors to cover.
LEMMA NextMustCover ==
  ASSUME IInv, pc = "register", NextPartition, NEW s \in Sectors
  PROVE  MustCover(s)' <=> MustCover(s) \/ (parts[part].firm /\ InEntry(s, parts[part]))
<1>1. part \in Nat /\ part < MaxPartitions /\ guarded = parts /\ guarded' = guarded
  BY DEF IInv, InductiveInv, ControlInv, TypeOK, NextPartition
<1>2. Registered = 0 .. part - 1 /\ Registered' = 0 .. part
  BY <1>1, Sizes DEF Registered, NextPartition
<1>3. \A i : i \in 0 .. part <=> i \in 0 .. part - 1 \/ i = part
  BY <1>1
<1> QED BY <1>1, <1>2, <1>3, Zenon DEF MustCover

\* What the invariant says of the regions and of the entry being read.
LEMMA RegisterFacts ==
  ASSUME IInv, pc = "register", parts[part].firm
  PROVE  /\ numRegions \in Nat /\ 2 <= numRegions /\ numRegions <= MaxPartitions + 1
         /\ part \in Partitions /\ guarded = parts /\ FirmAscending(parts)
         /\ parts[part].sector \in Nat /\ parts[part].count \in Nat
         /\ SecretSector < parts[part].sector /\ 0 < parts[part].count
         /\ parts[part].sector + parts[part].count <= NandSectors
         /\ \A i \in 0 .. numRegions - 1 :
              /\ regions[i].sector \in Nat /\ regions[i].count \in Nat
              /\ regions[i].count > 0 /\ RegionEnd(i) <= parts[part].sector
<1>1. /\ numRegions \in Nat /\ 2 <= numRegions /\ numRegions <= MaxPartitions + 1
      /\ part \in Partitions /\ guarded = parts /\ parts \in PartTables \cup {NoTable}
  BY Sizes DEF IInv, InductiveInv, ControlInv, TypeOK
<1>2. FirmAscending(parts)
  BY <1>1, Tables
<1>3. parts[part].sector \in Nat /\ parts[part].count \in Nat
  BY <1>1, EntryTypes
<1>4. \A i \in 0 .. numRegions - 1 : regions[i].sector \in Nat /\ regions[i].count \in Nat
  BY <1>1, Sizes DEF IInv, TypeOK, Region
<1>5. \A i \in 0 .. numRegions - 1 : regions[i].count > 0 /\ RegionEnd(i) <= parts[part].sector
  BY <1>1, Sizes DEF IInv, InductiveInv, RegionInv, RegionsFit, RegionsBehind
<1> QED BY <1>1, <1>2, <1>3, <1>4, <1>5 DEF FirmAscending

LEMMA RegionOn == IInv /\ ProtectionOn => RegionInv'
<1> SUFFICES ASSUME IInv, ProtectionOn PROVE RegionInv'
  OBVIOUS
<1> USE Sizes
<1>1. /\ numRegions' = 2 /\ pc' = "register" /\ part' = 0 /\ guarded' = parts
      /\ regions'[0] = [sector |-> 0, count |-> 1]
      /\ regions'[1] = [sector |-> SecretSector, count |-> 1]
  BY DEF ProtectionOn, IInv, TypeOK
<1>2. FirmAscending(parts) /\ \A k \in Partitions : parts[k].sector \in Nat
  BY Tables, EntryTypes DEF IInv, TypeOK
<1>3. \A i : i \in 0 .. numRegions' - 1 <=> i = 0 \/ i = 1
  BY <1>1
<1>4. RegionsFit' /\ RegionsAscending'
  BY <1>1, <1>3 DEF RegionsFit, RegionsAscending, RegionEnd
<1>5. RegionsExact'
  BY <1>1, <1>3 DEF RegionsExact, Covered, MustCover, InEntry, Registered
<1>6. RegionsBehind'
  BY <1>1, <1>2, <1>3 DEF RegionsBehind, RegionEnd, FirmAscending
<1> QED BY <1>4, <1>5, <1>6 DEF RegionInv

LEMMA RegionSkip == IInv /\ SkipPartition => RegionInv'
<1> SUFFICES ASSUME IInv, SkipPartition PROVE RegionInv'
  OBVIOUS
<1> USE Sizes
<1>1. /\ pc = "register" /\ ~parts[part].firm /\ NextPartition
      /\ regions' = regions /\ numRegions' = numRegions
      /\ part' = part + 1 /\ guarded' = guarded
  BY DEF SkipPartition, NextPartition
<1>2. \A s \in Sectors : MustCover(s)' <=> MustCover(s)
  BY <1>1, NextMustCover
<1>3. RegionsExact'
  BY <1>1, <1>2 DEF RegionsExact, Covered, IInv, InductiveInv, RegionInv
<1>4. RegionsFit /\ RegionsAscending /\ RegionsBehind /\ part \in Nat
  BY DEF IInv, InductiveInv, RegionInv, TypeOK
<1>5. RegionsFit' /\ RegionsAscending'
  BY <1>1, <1>4 DEF RegionsFit, RegionsAscending, RegionEnd
<1>6. RegionsBehind'
  BY <1>1, <1>4 DEF RegionsBehind, RegionEnd
<1> QED BY <1>3, <1>5, <1>6 DEF RegionInv

LEMMA RegionMerge == IInv /\ MergeRegion => RegionInv'
<1> SUFFICES ASSUME IInv, MergeRegion PROVE RegionInv'
  OBVIOUS
<1> USE Sizes
<1> DEFINE e == parts[part]
<1>1. /\ pc = "register" /\ e.firm /\ NextPartition /\ numRegions' = numRegions
      /\ part' = part + 1 /\ guarded' = guarded
  BY DEF MergeRegion, NextPartition
<1>2. PICK r \in RegionIds :
        /\ getNandProtRegion(r, e.sector - 1, 1)
        /\ regions' = [regions EXCEPT ![r] =
             [sector |-> regions[r].sector, count |-> regions[r].count + e.count]]
  BY DEF MergeRegion
<1>f. /\ numRegions \in Nat /\ 2 <= numRegions /\ numRegions <= MaxPartitions + 1
      /\ part \in Partitions /\ guarded = parts /\ FirmAscending(parts)
      /\ e.sector \in Nat /\ e.count \in Nat
      /\ SecretSector < e.sector /\ 0 < e.count /\ e.sector + e.count <= NandSectors
      /\ \A i \in 0 .. numRegions - 1 :
           /\ regions[i].sector \in Nat /\ regions[i].count \in Nat
           /\ regions[i].count > 0 /\ RegionEnd(i) <= e.sector
  BY <1>1, RegisterFacts, Zenon
<1> HIDE DEF e
<1>3. /\ r \in 0 .. numRegions - 1 /\ RegionEnd(r) = e.sector
  BY <1>2, <1>f DEF getNandProtRegion, Overlaps, RegionEnd
<1>4. \A i \in 0 .. numRegions - 1 :
        /\ regions'[i].sector = regions[i].sector
        /\ i # r => regions'[i] = regions[i]
        /\ i = r => regions'[i].count = regions[i].count + e.count
  <2>1. regions \in [RegionIds -> Region]
    BY DEF IInv, TypeOK
  <2> SUFFICES ASSUME NEW i \in 0 .. numRegions - 1
               PROVE  /\ regions'[i].sector = regions[i].sector
                      /\ i # r => regions'[i] = regions[i]
                      /\ i = r => regions'[i].count = regions[i].count + e.count
    OBVIOUS
  <2>2. i \in RegionIds
    BY <1>f
  <2>3. CASE i = r
    BY <1>2, <2>1, <2>2, <2>3
  <2>4. CASE i # r
    BY <1>2, <2>1, <2>2, <2>4
  <2> QED BY <2>3, <2>4
<1>5. \A i \in 0 .. numRegions - 1 :
        RegionEnd(i)' = IF i = r THEN e.sector + e.count ELSE RegionEnd(i)
  BY <1>3, <1>4, <1>f DEF RegionEnd
<1>6. RegionsFit'
  BY <1>1, <1>4, <1>5, <1>f DEF RegionsFit, IInv, InductiveInv, RegionInv
<1>7. \A i \in 0 .. numRegions - 1 : i <= r
  BY <1>3, <1>f DEF RegionsAscending, RegionEnd, IInv, InductiveInv, RegionInv
<1>8. RegionsAscending'
  BY <1>1, <1>3, <1>4, <1>5, <1>7, <1>f DEF RegionsAscending, IInv, InductiveInv, RegionInv
<1>9. RegionsExact'
  <2> SUFFICES ASSUME NEW s \in Sectors PROVE Covered(s)' <=> MustCover(s)'
    BY DEF RegionsExact
  <2>1. MustCover(s)' <=> MustCover(s) \/ InEntry(s, e)
    BY <1>1, NextMustCover DEF e
  <2>2. Covered(s) <=> MustCover(s)
    BY <1>f DEF RegionsExact, IInv, InductiveInv, RegionInv
  <2>3. Covered(s)' <=> Covered(s) \/ InEntry(s, e)
    BY <1>1, <1>3, <1>4, <1>f DEF Covered, InEntry, RegionEnd
  <2> QED BY <2>1, <2>2, <2>3
<1>10. RegionsBehind'
  <2> SUFFICES ASSUME NEW i \in 0 .. numRegions - 1, NEW k \in part + 1 .. MaxPartitions - 1,
                      parts[k].firm
               PROVE  RegionEnd(i)' <= parts[k].sector
    BY <1>1, <1>f DEF RegionsBehind
  <2>1. RegionEnd(i) <= parts[k].sector
    BY <1>1, <1>f DEF RegionsBehind, IInv, InductiveInv, RegionInv
  <2>2. e.sector + e.count <= parts[k].sector
    BY <1>1, <1>f DEF FirmAscending, e
  <2> QED BY <1>5, <2>1, <2>2
<1> QED BY <1>6, <1>8, <1>9, <1>10 DEF RegionInv

LEMMA RegionAppend == IInv /\ AppendRegion => RegionInv'
<1> SUFFICES ASSUME IInv, AppendRegion PROVE RegionInv'
  OBVIOUS
<1> USE Sizes
<1> DEFINE e == parts[part]
<1>1. /\ pc = "register" /\ e.firm /\ NextPartition /\ numRegions' = numRegions + 1
      /\ part' = part + 1 /\ guarded' = guarded
      /\ regions' = [regions EXCEPT ![numRegions] = [sector |-> e.sector, count |-> e.count]]
  BY DEF AppendRegion, NextPartition
<1>f. /\ numRegions \in Nat /\ 2 <= numRegions /\ numRegions <= MaxPartitions + 1
      /\ part \in Partitions /\ guarded = parts /\ FirmAscending(parts)
      /\ e.sector \in Nat /\ e.count \in Nat
      /\ SecretSector < e.sector /\ 0 < e.count /\ e.sector + e.count <= NandSectors
      /\ \A i \in 0 .. numRegions - 1 :
           /\ regions[i].sector \in Nat /\ regions[i].count \in Nat
           /\ regions[i].count > 0 /\ RegionEnd(i) <= e.sector
  BY <1>1, RegisterFacts, Zenon
<1> HIDE DEF e
<1>2. /\ \A i \in 0 .. numRegions - 1 : regions'[i] = regions[i]
      /\ regions'[numRegions] = [sector |-> e.sector, count |-> e.count]
  BY <1>1, <1>f DEF IInv, TypeOK
<1>3. \A i : i \in 0 .. numRegions' - 1 <=> i \in 0 .. numRegions - 1 \/ i = numRegions
  BY <1>1, <1>f
<1>4. /\ \A i \in 0 .. numRegions - 1 : RegionEnd(i)' = RegionEnd(i)
      /\ \A i \in RegionIds : i = numRegions => RegionEnd(i)' = e.sector + e.count
  BY <1>2, <1>f DEF RegionEnd
<1>5. \A i \in 0 .. numRegions : i \in RegionIds
  BY <1>f
<1>6. RegionsFit'
  BY <1>2, <1>3, <1>4, <1>5, <1>f DEF RegionsFit, IInv, InductiveInv, RegionInv
<1>8. RegionsAscending'
  BY <1>2, <1>3, <1>4, <1>5, <1>f DEF RegionsAscending, IInv, InductiveInv, RegionInv
<1>9. RegionsExact'
  <2> SUFFICES ASSUME NEW s \in Sectors PROVE Covered(s)' <=> MustCover(s)'
    BY DEF RegionsExact
  <2>1. MustCover(s)' <=> MustCover(s) \/ InEntry(s, e)
    BY <1>1, NextMustCover DEF e
  <2>2. Covered(s) <=> MustCover(s)
    BY <1>f DEF RegionsExact, IInv, InductiveInv, RegionInv
  <2>3. Covered(s)' <=> Covered(s) \/ InEntry(s, e)
    BY <1>2, <1>3, <1>f DEF Covered, InEntry
  <2> QED BY <2>1, <2>2, <2>3
<1>10. RegionsBehind'
  <2> SUFFICES ASSUME NEW i \in 0 .. numRegions, NEW k \in part + 1 .. MaxPartitions - 1,
                      parts[k].firm
               PROVE  RegionEnd(i)' <= parts[k].sector
    BY <1>1, <1>f DEF RegionsBehind
  <2>1. i # numRegions => RegionEnd(i) <= parts[k].sector
    BY <1>1, <1>f DEF RegionsBehind, IInv, InductiveInv, RegionInv
  <2>2. e.sector + e.count <= parts[k].sector
    BY <1>1, <1>f DEF FirmAscending, e
  <2>3. i \in RegionIds
    BY <1>f
  <2> QED BY <1>4, <1>f, <2>1, <2>2, <2>3
<1> QED BY <1>6, <1>8, <1>9, <1>10 DEF RegionInv

LEMMA RegionStep == IInv /\ [Next]_vars => RegionInv'
<1> SUFFICES ASSUME IInv, [Next]_vars PROVE RegionInv'
  OBVIOUS
<1>1. ASSUME UNCHANGED <<regions, numRegions, guarded>>, pc # "register", pc' # "register"
      PROVE  RegionInv'
  BY <1>1 DEF IInv, InductiveInv, RegionInv, RegionsFit, RegionsAscending, RegionsExact,
     RegionsBehind, RegionEnd, Covered, MustCover, Registered
<1>2. CASE UNCHANGED vars
  BY <1>2 DEF vars, table, protection, job, chunk, cursor, IInv, InductiveInv, RegionInv,
     RegionsFit, RegionsAscending, RegionsExact, RegionsBehind, RegionEnd, Covered,
     MustCover, Registered
<1>3. CASE DnandInit \/ SdCardInit \/ StartRestore
  BY <1>1, <1>3 DEF DnandInit, SdCardInit, StartRestore, Fails, protection
<1>4. CASE PowerLoss \/ ProtectionOff
  BY <1>4 DEF PowerLoss, ProtectionOff, RegionInv, RegionsFit, RegionsAscending,
     RegionsExact, RegionsBehind
<1>5. CASE ProtectionUnchanged
  BY <1>1, <1>5 DEF ProtectionUnchanged, protection
<1>6. CASE TransferChunk
  BY <1>1, <1>6 DEF TransferChunk, ReadChunk, ReadFails, RefuseRagged, BeginWrite,
     SkipRegion, WriteGap, WriteRest, WriteFails, ContinueRestore, PowerHeld,
     FinishRestore, Advance, Fails, protection
<1> QED
  BY <1>2, <1>3, <1>4, <1>5, <1>6, RegionOn, RegionSkip, RegionMerge, RegionAppend
  DEF Next, Environment, SetProtection

-----------------------------------------------------------------------------
(* Tables.                                                                 *)

LEMMA TableStep == IInv /\ [Next]_vars => TableInv'
<1> SUFFICES ASSUME IInv, [Next]_vars, ~ForeignImages, ~HeaderReadFails
             PROVE  /\ imgTable' = header'
                    /\ nandActive' => parts' = header'
                    /\ numRegions' > 0 => guarded' = header'
  BY DEF TableInv
<1>a. /\ imgTable = header
      /\ numRegions > 0 => guarded = header
      /\ nandActive => parts = header
      /\ pc # "idle" => nandActive
  BY DEF IInv, InductiveInv, TableInv, ControlInv
<1>b. numRegions \in Nat /\ part \in Nat
  BY DEF IInv, TypeOK
<1> USE <1>a, <1>b
<1>1. CASE UNCHANGED vars
  BY <1>1 DEF vars, table, protection, job
<1>2. CASE DnandInit \/ SdCardInit \/ PowerLoss
  BY <1>2 DEF DnandInit, SdCardInit, PowerLoss, FillTable, protection, job
<1>3. CASE StartRestore
  BY <1>3 DEF StartRestore, table, protection
<1>4. CASE ProtectionUnchanged \/ ProtectionOff \/ ProtectionOn
  BY <1>4 DEF ProtectionUnchanged, ProtectionOff, ProtectionOn, table, protection, job
<1>5. CASE SkipPartition \/ MergeRegion \/ AppendRegion
  <2>1. numRegions > 0
    BY <1>5 DEF SkipPartition, MergeRegion, AppendRegion, IInv, InductiveInv, ControlInv
  <2> QED
    BY <1>5, <2>1 DEF SkipPartition, MergeRegion, AppendRegion, NextPartition, table, job
<1>6. CASE ReadChunk \/ ReadFails \/ RefuseRagged \/ BeginWrite \/ ContinueRestore
           \/ PowerHeld \/ FinishRestore
  BY <1>6 DEF ReadChunk, ReadFails, RefuseRagged, BeginWrite, ContinueRestore, PowerHeld,
     FinishRestore, table, protection, job
<1>7. CASE SkipRegion \/ WriteGap \/ WriteRest \/ WriteFails
  <2>1. header' = header
    BY <1>7 DEF SkipRegion, WriteGap, WriteRest, WriteFails, WriteSectors
  <2> QED
    BY <1>7, <2>1 DEF SkipRegion, WriteGap, WriteRest, WriteFails, Advance, protection, job
<1> QED
  BY <1>1, <1>2, <1>3, <1>4, <1>5, <1>6, <1>7
  DEF Next, Environment, SetProtection, TransferChunk

-----------------------------------------------------------------------------
(* The protected write.                                                    *)

\* The write loop stays inside the image and inside the chip.
LEMMA WriteBounds ==
  ASSUME IInv, pc = "write"
  PROVE  /\ sector \in Nat /\ toWrite \in Nat /\ pos \in Nat /\ dataSize \in Nat
         /\ bufPtr \in Nat /\ fileSectors \in Nat /\ numRegions \in Nat
         /\ toWrite > 0 /\ bufBase + bufPtr = sector
         /\ sector + toWrite = SmallerOf(pos + BufSectors, fileSectors)
         /\ sector + toWrite <= fileSectors /\ fileSectors <= NandSectors
         /\ sector + toWrite = pos + dataSize
         /\ forced <=> numRegions = 0
         /\ \A i \in 0 .. numRegions - 1 :
              regions[i].sector \in Nat /\ regions[i].count \in Nat
<1> USE Sizes
<1>1. /\ sector \in Nat /\ toWrite \in Nat /\ pos \in Nat /\ dataSize \in Nat
      /\ bufPtr \in Nat /\ fileSectors \in Nat /\ numRegions \in 0 .. MaxPartitions + 2
      /\ fileSectors <= NandSectors /\ forced \in BOOLEAN
  BY DEF IInv, TypeOK, InductiveInv, ControlInv
<1>2. /\ pos < fileSectors /\ bufBase = pos /\ dataSize = ChunkSectors
      /\ sector = pos + bufPtr /\ toWrite > 0 /\ sector + toWrite = pos + dataSize
  BY DEF IInv, InductiveInv, TransferInv
<1>3. forced <=> numRegions = 0
  BY Zenon DEF IInv, InductiveInv, ControlInv
<1>4. \A i \in 0 .. numRegions - 1 : regions[i].sector \in Nat /\ regions[i].count \in Nat
  BY <1>1 DEF IInv, TypeOK, Region
<1>5. sector + toWrite = SmallerOf(pos + BufSectors, fileSectors)
  BY <1>1, <1>2 DEF ChunkSectors, SmallerOf
<1>6. sector + toWrite <= fileSectors
  BY <1>1, <1>5 DEF SmallerOf
<1> QED BY <1>1, <1>2, <1>3, <1>4, <1>5, <1>6

\* Once the table has been read, the sectors to cover are the protected ones.
LEMMA MustCoverIsProtected ==
  ASSUME IInv, pc # "register", NEW s \in Sectors
  PROVE  MustCover(s) <=> s \in Protected(guarded)
<1>1. \A i \in Partitions : guarded[i].sector \in Nat /\ guarded[i].count \in Nat
  BY EntryTypes DEF IInv, TypeOK
<1>2. \A i \in Partitions : InEntry(s, guarded[i])
        <=> s \in guarded[i].sector .. guarded[i].sector + guarded[i].count - 1
  BY <1>1, Sizes DEF InEntry
<1>3. s \in FirmSectors(guarded)
        <=> \E i \in Partitions : guarded[i].firm /\ InEntry(s, guarded[i])
  BY <1>2, Zenon DEF FirmSectors
<1>4. Registered = Partitions
  BY DEF Registered
<1> QED BY <1>3, <1>4, Zenon DEF MustCover, Protected

\* With regions in force, a sector is protected exactly when a region has it.
LEMMA CoveredIsProtected ==
  ASSUME IInv, pc = "write", numRegions > 0, NEW s \in Sectors
  PROVE  Covered(s) <=> s \in Protected(guarded)
<1>1. Covered(s) <=> MustCover(s)
  BY DEF IInv, InductiveInv, RegionInv, RegionsExact
<1> QED BY <1>1, MustCoverIsProtected

\* What the loop skips is protected.
LEMMA SkipIsSpared ==
  ASSUME IInv, pc = "write", NEW i \in RegionIds,
         getNandProtRegion(i, sector, toWrite), regions[i].sector <= sector,
         NEW s \in Sectors, s \in sector .. sector + SkipCount(i) - 1
  PROVE  s \in Spared
<1>1. i \in 0 .. numRegions - 1 /\ numRegions > 0
  BY WriteBounds DEF getNandProtRegion
<1>2. InEntry(s, regions[i])
  BY <1>1, WriteBounds, Sizes DEF InEntry, SkipCount, SmallerOf, RegionEnd
<1>3. s \in Protected(guarded)
  BY <1>1, <1>2, CoveredIsProtected DEF Covered
<1>4. ~forced
  BY <1>1, WriteBounds
<1> QED BY <1>3, <1>4 DEF Spared

\* What the loop writes in front of the first region ahead is not protected:
\* the first region in table order is the nearest one.
LEMMA GapIsFree ==
  ASSUME IInv, pc = "write", NEW i \in RegionIds,
         getNandProtRegion(i, sector, toWrite), regions[i].sector > sector,
         NEW s \in Sectors, s \in sector .. sector + GapCount(i) - 1
  PROVE  s \notin Protected(guarded)
<1>1. i \in 0 .. numRegions - 1 /\ numRegions > 0
  BY WriteBounds DEF getNandProtRegion
<1>2. s < regions[i].sector /\ sector <= s /\ s < sector + toWrite
  BY <1>1, WriteBounds, Sizes DEF GapCount, SmallerOf
<1>3. SUFFICES ASSUME NEW j \in 0 .. numRegions - 1, InEntry(s, regions[j])
               PROVE  FALSE
  BY <1>1, CoveredIsProtected DEF Covered
<1>4. j < i
  BY <1>1, <1>2, <1>3, WriteBounds DEF IInv, InductiveInv, RegionInv, RegionsAscending,
     RegionEnd, InEntry
<1>5. Overlaps(j, sector, toWrite)
  BY <1>2, <1>3, WriteBounds, Sizes DEF Overlaps, RegionEnd, InEntry
<1> QED BY <1>1, <1>4, <1>5, WriteBounds DEF getNandProtRegion

\* Without a region ahead, the rest of the chunk is free.
LEMMA RestIsFree ==
  ASSUME IInv, pc = "write", numRegions > 0, NoRegion(sector, toWrite),
         NEW s \in Sectors, s \in sector .. sector + toWrite - 1
  PROVE  s \notin Protected(guarded)
<1>1. SUFFICES ASSUME NEW j \in 0 .. numRegions - 1, InEntry(s, regions[j])
               PROVE  FALSE
  BY CoveredIsProtected DEF Covered
<1>2. Overlaps(j, sector, toWrite)
  BY <1>1, WriteBounds, Sizes DEF Overlaps, RegionEnd, InEntry
<1> QED BY <1>2 DEF NoRegion

\* What a pass of the write loop does to the sectors of the chip: it writes
\* image sectors to their own numbers, inside the restore's own sectors.
WritesOwn(S) ==
  /\ \A s \in Sectors : s \in S => nand'[s] = s /\ s < fileSectors
  /\ \A s \in Sectors : s \notin S => nand'[s] = nand[s]
  /\ ~forced => \A s \in S : s \notin Protected(guarded)

LEMMA WriteSectorsOwn ==
  ASSUME IInv, pc = "write", NEW n \in 0 .. toWrite, WriteSectors(n)
  PROVE  /\ \A s \in Sectors : s \in sector .. sector + n - 1 =>
                nand'[s] = s /\ s < fileSectors
         /\ \A s \in Sectors : s \notin sector .. sector + n - 1 => nand'[s] = nand[s]
<1> SUFFICES ASSUME NEW s \in Sectors
             PROVE  /\ s \in sector .. sector + n - 1 => nand'[s] = s /\ s < fileSectors
                    /\ s \notin sector .. sector + n - 1 => nand'[s] = nand[s]
  OBVIOUS
<1>1. nand'[s] = IF s \in sector .. sector + n - 1
                   THEN bufBase + bufPtr + (s - sector) ELSE nand[s]
  BY DEF WriteSectors
<1>2. s \in sector .. sector + n - 1 => s < fileSectors
  BY WriteBounds, Sizes
<1>3. bufBase \in Nat
  BY DEF IInv, TypeOK
<1>4. bufBase + bufPtr + (s - sector) = s
  BY <1>3, WriteBounds, Sizes
<1> QED BY <1>1, <1>2, <1>4

LEMMA GapRange ==
  ASSUME IInv, pc = "write", NEW i \in RegionIds,
         getNandProtRegion(i, sector, toWrite)
  PROVE  /\ regions[i].sector <= sector => SkipCount(i) \in 0 .. toWrite
         /\ regions[i].sector > sector => GapCount(i) \in 0 .. toWrite
<1>1. i \in 0 .. numRegions - 1
  BY DEF getNandProtRegion
<1> QED
  BY <1>1, WriteBounds, Sizes
  DEF getNandProtRegion, Overlaps, RegionEnd, SkipCount, GapCount, SmallerOf

\* Every step that touches the chip is one of these.
LEMMA WriteStep ==
  ASSUME IInv, WriteGap \/ WriteRest \/ WriteFails
  PROVE  \E n \in 0 .. toWrite : WriteSectors(n) /\ WritesOwn(sector .. sector + n - 1)
<1>0. pc = "write"
  BY DEF WriteGap, WriteRest, WriteFails
<1>a. toWrite \in Nat /\ sector \in Nat /\ numRegions \in Nat /\ (forced <=> numRegions = 0)
  BY <1>0, WriteBounds
<1>b. sector + toWrite <= NandSectors
  BY <1>0, <1>a, WriteBounds, Sizes
<1>1. CASE WriteGap
  <2>1. PICK i \in RegionIds : /\ getNandProtRegion(i, sector, toWrite)
                               /\ regions[i].sector > sector
                               /\ WriteSectors(GapCount(i))
    BY <1>1 DEF WriteGap
  <2>2. GapCount(i) \in 0 .. toWrite
    BY <1>0, <2>1, GapRange
  <2>3. \A s \in sector .. sector + GapCount(i) - 1 : s \in Sectors
    BY <1>a, <1>b, <2>2, Sizes
  <2>4. \A s \in sector .. sector + GapCount(i) - 1 : s \notin Protected(guarded)
    BY <1>0, <2>1, <2>3, GapIsFree
  <2>5. WritesOwn(sector .. sector + GapCount(i) - 1)
    BY <1>0, <2>1, <2>2, <2>4, WriteSectorsOwn, Zenon DEF WritesOwn
  <2> QED BY <2>1, <2>2, <2>5
<1>2. ASSUME NEW n \in 0 .. toWrite, NoRegion(sector, toWrite), WriteSectors(n)
      PROVE  WritesOwn(sector .. sector + n - 1)
  <2>1. \A s \in sector .. sector + n - 1 :
          s \in Sectors /\ s \in sector .. sector + toWrite - 1
    BY <1>a, <1>b, Sizes
  <2>2. ~forced => numRegions > 0
    BY <1>a
  <2>3. ~forced => \A s \in sector .. sector + n - 1 : s \notin Protected(guarded)
    BY <1>0, <1>2, <2>1, <2>2, RestIsFree
  <2> QED BY <1>0, <1>2, <2>3, WriteSectorsOwn, Zenon DEF WritesOwn
<1>3. CASE WriteRest
  <2>1. NoRegion(sector, toWrite) /\ WriteSectors(toWrite) /\ toWrite \in 0 .. toWrite
    BY <1>3, <1>a DEF WriteRest
  <2> QED BY <1>2, <2>1
<1>4. CASE WriteFails
  <2>1. PICK n \in 0 .. toWrite :
          /\ \/ NoRegion(sector, toWrite)
             \/ \E i \in RegionIds : /\ getNandProtRegion(i, sector, toWrite)
                                     /\ regions[i].sector > sector
                                     /\ n <= GapCount(i)
          /\ WriteSectors(n)
    BY <1>4 DEF WriteFails
  <2>2. CASE NoRegion(sector, toWrite)
    BY <1>2, <2>1, <2>2
  <2>3. ASSUME NEW i \in RegionIds, getNandProtRegion(i, sector, toWrite),
               regions[i].sector > sector, n <= GapCount(i)
        PROVE  WritesOwn(sector .. sector + n - 1)
    <3>1. GapCount(i) \in 0 .. toWrite
      BY <1>0, <2>3, GapRange
    <3>2. \A s \in sector .. sector + n - 1 :
            s \in Sectors /\ s \in sector .. sector + GapCount(i) - 1
      BY <1>a, <1>b, <2>3, <3>1, Sizes
    <3>3. \A s \in sector .. sector + n - 1 : s \notin Protected(guarded)
      BY <1>0, <2>3, <3>2, GapIsFree
    <3> QED BY <1>0, <2>1, <3>3, WriteSectorsOwn, Zenon DEF WritesOwn
  <2> QED BY <2>1, <2>2, <2>3
<1> QED BY <1>1, <1>3, <1>4

\* Steps that leave the chip alone.
LEMMA OtherStep ==
  ASSUME [Next]_vars, ~(WriteGap \/ WriteRest \/ WriteFails)
  PROVE  nand' = nand \/ (StartRestore /\ nand' = [s \in Sectors |-> Kept])
BY DEF Next, Environment, SetProtection, TransferChunk, DnandInit, SdCardInit, StartRestore,
   PowerLoss, ProtectionUnchanged, ProtectionOff, ProtectionOn, SkipPartition, MergeRegion,
   AppendRegion, NextPartition, ReadChunk, ReadFails, RefuseRagged, BeginWrite, SkipRegion,
   ContinueRestore, PowerHeld, FinishRestore, vars

LEMMA NoShiftStep == IInv /\ [Next]_vars => NoShift'
<1> SUFFICES ASSUME IInv, [Next]_vars, NEW s \in Sectors PROVE nand'[s] \in {Kept, s}
  BY DEF NoShift
<1>1. nand[s] \in {Kept, s}
  BY DEF IInv, NoShift
<1>2. CASE WriteGap \/ WriteRest \/ WriteFails
  BY <1>1, <1>2, WriteStep DEF WritesOwn
<1> QED BY <1>1, <1>2, OtherStep

\* One pass of the write loop over n sectors, each now restored or spared.
LEMMA AdvanceStep ==
  ASSUME IInv, pc = "write", NEW n \in 0 .. toWrite, Advance(n),
         \A s \in Sectors : s \in sector .. sector + n - 1 => nand'[s] = s \/ s \in Spared,
         \A s \in Sectors : s \notin sector .. sector + n - 1 => nand'[s] = nand[s]
  PROVE  TransferInv'
<1> USE Sizes
<1>1. /\ bufPtr' = bufPtr + n /\ sector' = sector + n /\ toWrite' = toWrite - n
      /\ pos' = pos /\ bufBase' = bufBase /\ fileSectors' = fileSectors /\ tail' = tail
      /\ forced' = forced /\ guarded' = guarded /\ numRegions' = numRegions
      /\ \/ toWrite = n /\ pc' = "poll"
         \/ toWrite # n /\ pc' = "write" /\ dataSize' = dataSize
  BY DEF Advance, protection, job
<1>2. /\ ~ChunkIsRagged /\ pos < fileSectors /\ bufBase = pos /\ dataSize = ChunkSectors
      /\ sector = pos + bufPtr
  BY DEF IInv, InductiveInv, TransferInv
<1>3. pc' = "write" => /\ sector' = pos' + bufPtr' /\ toWrite' > 0
                       /\ sector' + toWrite' = pos' + dataSize'
  BY <1>1, <1>2, WriteBounds
<1>4. ChunkIsRagged' = ChunkIsRagged /\ (pc' = "write" => ChunkSectors' = ChunkSectors)
  BY <1>1 DEF ChunkIsRagged, ChunkSectors
<1>5. Spared' = Spared
  BY <1>1 DEF Spared
<1>6. Reached' = sector + n
  BY <1>1, WriteBounds DEF Reached
<1>7. \A s \in Sectors : s < sector /\ s < fileSectors => nand[s] = s \/ s \in Spared
  BY DEF IInv, InductiveInv, TransferInv, Reached
<1>8. \A s \in Sectors : s < Reached' /\ s < fileSectors' => nand'[s] = s \/ s \in Spared'
  <2> SUFFICES ASSUME NEW s \in Sectors, s < sector + n, s < fileSectors
               PROVE  nand'[s] = s \/ s \in Spared
    BY <1>1, <1>5, <1>6
  <2>1. n \in Nat /\ sector \in Nat
    BY WriteBounds
  <2>2. CASE s < sector
    BY <1>7, <2>1, <2>2
  <2>3. CASE s >= sector
    BY <2>1, <2>3
  <2> QED BY <2>1, <2>2, <2>3
<1> QED BY <1>1, <1>2, <1>3, <1>4, <1>8 DEF TransferInv

LEMMA TransferStep == IInv /\ [Next]_vars => TransferInv'
<1> SUFFICES ASSUME IInv, [Next]_vars PROVE TransferInv'
  OBVIOUS
<1> USE Sizes
<1>t. /\ pos \in Nat /\ fileSectors \in Nat /\ tail \in BOOLEAN /\ dataSize \in Nat
      /\ numRegions \in Nat
  BY DEF IInv, TypeOK
<1>1. CASE UNCHANGED vars
  BY <1>1 DEF vars, table, protection, job, chunk, cursor, IInv, InductiveInv, TransferInv,
     Reached, MoreToRestore, ChunkSectors, ChunkIsRagged, Spared, isNandProtected
<1>2. CASE DnandInit \/ SdCardInit \/ PowerLoss
  BY <1>2 DEF DnandInit, SdCardInit, PowerLoss, TransferInv
<1>3. ASSUME pc' \in {"protect", "register", "loop"}, pos' = 0, fileSectors' \in Nat
      PROVE  TransferInv'
  BY <1>3 DEF TransferInv, Reached
<1>4. CASE StartRestore
  <2>1. CASE pc' = "idle"
    BY <2>1 DEF TransferInv
  <2> QED BY <1>3, <1>4, <2>1 DEF StartRestore, Fails
<1>5. CASE SetProtection
  <2>1. pc \in {"protect", "register"}
    BY <1>5 DEF SetProtection, ProtectionUnchanged, ProtectionOff, ProtectionOn,
       SkipPartition, MergeRegion, AppendRegion
  <2>2. pos = 0
    BY <2>1 DEF IInv, InductiveInv, ControlInv
  <2>3. pc' \in {"register", "loop"} /\ pos' = pos /\ fileSectors' = fileSectors
    BY <1>5 DEF SetProtection, ProtectionUnchanged, ProtectionOff, ProtectionOn,
       SkipPartition, MergeRegion, AppendRegion, NextPartition, job, chunk
  <2> QED BY <1>3, <1>t, <2>2, <2>3
<1>6. CASE ReadFails \/ RefuseRagged \/ WriteFails \/ PowerHeld \/ FinishRestore
  BY <1>6 DEF ReadFails, RefuseRagged, WriteFails, PowerHeld, FinishRestore, Fails, TransferInv
<1>7. ASSUME UNCHANGED <<nand, job, protection>>, pc \in {"loop", "chunk"}, pc' # "protect"
      PROVE  /\ Spared' = Spared
             /\ \A s \in Sectors : s < pos /\ s < fileSectors =>
                  nand'[s] = s \/ s \in Spared'
  BY <1>7 DEF job, protection, Spared, IInv, InductiveInv, TransferInv, Reached
<1>8. CASE ReadChunk
  <2>1. \A s \in Sectors : s < pos /\ s < fileSectors => nand'[s] = s \/ s \in Spared'
    BY <1>7, <1>8 DEF ReadChunk
  <2> QED
    BY <1>8, <2>1 DEF ReadChunk, TransferInv, Reached, MoreToRestore, ChunkSectors, job
<1>9. CASE BeginWrite
  <2>1. \A s \in Sectors : s < pos /\ s < fileSectors => nand'[s] = s \/ s \in Spared'
    BY <1>7, <1>9 DEF BeginWrite
  <2>2. MoreToRestore /\ bufBase = pos /\ dataSize = ChunkSectors /\ ~ChunkIsRagged
    BY <1>9 DEF BeginWrite, IInv, InductiveInv, TransferInv
  <2>3. pos < fileSectors
    BY <1>t, <2>2 DEF MoreToRestore, ChunkIsRagged
  <2>4. dataSize > 0
    BY <1>t, <2>2, <2>3 DEF ChunkSectors, SmallerOf
  <2>5. /\ pc' = "write" /\ pos' = pos /\ fileSectors' = fileSectors /\ tail' = tail
        /\ bufBase' = bufBase /\ dataSize' = dataSize
        /\ sector' = pos /\ toWrite' = dataSize /\ bufPtr' = 0
    BY <1>9 DEF BeginWrite, job, chunk
  <2>6. ChunkIsRagged' = ChunkIsRagged /\ ChunkSectors' = ChunkSectors
    BY <2>5 DEF ChunkIsRagged, ChunkSectors
  <2> QED BY <1>t, <2>1, <2>2, <2>3, <2>4, <2>5, <2>6 DEF TransferInv, Reached
<1>10. CASE SkipRegion
  <2>1. PICK i \in RegionIds : /\ getNandProtRegion(i, sector, toWrite)
                               /\ regions[i].sector <= sector /\ Advance(SkipCount(i))
    BY <1>10 DEF SkipRegion
  <2>2. pc = "write" /\ nand' = nand
    BY <1>10 DEF SkipRegion
  <2> QED BY <2>1, <2>2, GapRange, SkipIsSpared, AdvanceStep
<1>11. CASE WriteGap
  <2>1. PICK i \in RegionIds : /\ getNandProtRegion(i, sector, toWrite)
                               /\ regions[i].sector > sector
                               /\ WriteSectors(GapCount(i)) /\ Advance(GapCount(i))
    BY <1>11 DEF WriteGap
  <2> QED BY <1>11, <2>1, GapRange, WriteSectorsOwn, AdvanceStep DEF WriteGap
<1>12. CASE WriteRest
  <2>1. toWrite \in 0 .. toWrite
    BY <1>12, WriteBounds DEF WriteRest
  <2> QED BY <1>12, <2>1, WriteSectorsOwn, AdvanceStep DEF WriteRest
<1>13. CASE ContinueRestore
  <2>1. /\ pc = "poll" /\ pc' = "loop" /\ pos' = pos + BufSectors /\ nand' = nand
        /\ fileSectors' = fileSectors /\ tail' = tail
    BY <1>13 DEF ContinueRestore, job
  <2>2. ~ChunkIsRagged /\ pos < fileSectors
    BY <2>1 DEF IInv, InductiveInv, TransferInv
  <2>3. tail' => pos' <= fileSectors'
    BY <1>t, <2>1, <2>2 DEF ChunkIsRagged
  <2>4. Spared' = Spared
    BY <1>13 DEF ContinueRestore, Spared, job, protection
  <2>5. \A s \in Sectors : s < SmallerOf(pos + BufSectors, fileSectors) /\ s < fileSectors
          => nand[s] = s \/ s \in Spared
    BY <2>1 DEF IInv, InductiveInv, TransferInv, Reached
  <2>6. \A s \in Sectors : s < pos' /\ s < fileSectors' => nand'[s] = s \/ s \in Spared'
    BY <1>t, <2>1, <2>4, <2>5 DEF SmallerOf
  <2> QED BY <2>1, <2>3, <2>6 DEF TransferInv, Reached
<1> QED
  BY <1>1, <1>2, <1>4, <1>5, <1>6, <1>8, <1>9, <1>10, <1>11, <1>12, <1>13
  DEF Next, Environment, TransferChunk

-----------------------------------------------------------------------------
(* The theorems.                                                           *)

LEMMA InvInit == Init => IInv
<1> SUFFICES ASSUME Init PROVE IInv
  OBVIOUS
<1>1. pc = "idle" /\ numRegions = 0 /\ nandActive = FALSE /\ imgTable = header
      /\ nand = [s \in Sectors |-> Kept]
  BY DEF Init
<1>2. ControlInv /\ TransferInv /\ TableInv
  BY <1>1 DEF ControlInv, TransferInv, TableInv
<1>3. RegionInv
  BY <1>1 DEF RegionInv, RegionsFit, RegionsAscending, RegionsExact, RegionsBehind
<1>4. NoShift
  BY <1>1 DEF NoShift
<1> QED BY <1>2, <1>3, <1>4, TypeInit DEF IInv, InductiveInv

LEMMA InvStep == IInv /\ [Next]_vars => IInv'
<1> SUFFICES ASSUME IInv, [Next]_vars PROVE IInv'
  OBVIOUS
<1>1. TypeOK'
  BY TypeStep DEF IInv, InductiveInv
<1> QED
  BY <1>1, ControlStep, RegionStep, TransferStep, TableStep, NoShiftStep DEF IInv, InductiveInv

\* The inductive invariant holds: types, the bounds of protNandRegions, and
\* regions that are ascending, disjoint and exact, for every table, chip and
\* buffer.  TLC checks it as InductiveInv.
LEMMA Invariant == Spec => []IInv
BY InvInit, InvStep, PTL DEF Spec

\* The regions cover exactly the protected sectors of the table entries
\* scanned so far, and what lies behind the cursor was written or skipped as
\* they ask for: the invariant that the properties of the restore rest on.
THEOREM InductiveInvHolds == Spec => []InductiveInv
<1>1. IInv => InductiveInv
  BY DEF IInv
<1> QED BY <1>1, Invariant, PTL

\* No run of the restore indexes protNandRegions or the partition table
\* outside its bounds, or leaves the type of a variable.
THEOREM TypeCorrect == Spec => []TypeOK
<1>1. IInv => TypeOK
  BY DEF IInv
<1> QED BY <1>1, Invariant, PTL

\* A restored sector holds the image sector of the same number.
THEOREM NoShiftHolds == Spec => []NoShift
<1>1. IInv => NoShift
  BY DEF IInv
<1> QED BY <1>1, Invariant, PTL

\* An unforced restore spares every protected sector of the table its regions
\* were built from, in every interleaving of skips, writes, failing writes,
\* swaps of the SD card and power losses.
LEMMA KeptStep == IInv /\ [Next]_vars => (~forced' => Untouched(Protected(guarded')))
<1> SUFFICES ASSUME IInv, [Next]_vars, ~forced', NEW s \in Protected(guarded')
             PROVE  nand'[s] = nand[s] \/ nand'[s] = Kept
  BY DEF Untouched
<1>1. guarded' \in PartTables \cup {NoTable}
  BY InvStep DEF IInv, TypeOK
<1>2. s \in Sectors
  <2>1. FirmAscending(guarded') /\ \A i \in Partitions : guarded'[i].sector \in Nat
                                                     /\ guarded'[i].count \in Nat
    BY <1>1, Tables, EntryTypes
  <2>2. CASE s \in {0, SecretSector}
    BY <2>2, Sizes
  <2>3. ASSUME NEW i \in Partitions, guarded'[i].firm,
               s \in guarded'[i].sector .. guarded'[i].sector + guarded'[i].count - 1
        PROVE  s \in Sectors
    BY <2>1, <2>3, Sizes DEF FirmAscending
  <2> QED BY <2>2, <2>3, Zenon DEF Protected, FirmSectors
<1>3. CASE WriteGap \/ WriteRest \/ WriteFails
  <2>1. PICK n \in 0 .. toWrite : WritesOwn(sector .. sector + n - 1)
    BY <1>3, WriteStep
  <2>2. forced' = forced /\ guarded' = guarded
    BY <1>3 DEF WriteGap, WriteRest, WriteFails, Advance, job, protection
  <2>3. s \notin sector .. sector + n - 1
    BY <2>1, <2>2 DEF WritesOwn
  <2> QED BY <1>2, <2>1, <2>3 DEF WritesOwn
<1> QED BY <1>2, <1>3, OtherStep

THEOREM ProtectedKeptHolds == Spec => ProtectedKept
<1>1. IInv /\ [Next]_vars => [~forced' => Untouched(Protected(guarded'))]_vars
  BY KeptStep
<1> QED BY <1>1, Invariant, PTL DEF Spec, ProtectedKept

\* With images of this console and a readable header, an unforced restore
\* spares every firmware sector of the table that is on the chip.
LEMMA FirmStep ==
  ASSUME ~ForeignImages, ~HeaderReadFails
  PROVE  IInv /\ [Next]_vars => [~forced' => Untouched(Protected(header))]_vars
<1> SUFFICES ASSUME IInv, [Next]_vars, ~forced', vars' # vars,
                    NEW s \in Protected(header)
             PROVE  nand'[s] = nand[s] \/ nand'[s] = Kept
  BY DEF Untouched
<1>1. CASE WriteGap \/ WriteRest \/ WriteFails
  <2>1. forced' = forced /\ guarded' = guarded /\ pc = "write"
    BY <1>1 DEF WriteGap, WriteRest, WriteFails, Advance, job, protection
  <2>2. numRegions > 0
    BY <2>1, WriteBounds
  <2>3. guarded = header
    BY <2>2 DEF IInv, InductiveInv, TableInv
  <2> QED BY <2>1, <2>3, KeptStep DEF Untouched
<1>2. s \in Sectors
  <2>1. header \in PartTables \cup {NoTable}
    BY DEF IInv, TypeOK
  <2>2. FirmAscending(header) /\ \A i \in Partitions : header[i].sector \in Nat
                                                    /\ header[i].count \in Nat
    BY <2>1, Tables, EntryTypes
  <2>3. CASE s \in {0, SecretSector}
    BY <2>3, Sizes
  <2>4. ASSUME NEW i \in Partitions, header[i].firm,
               s \in header[i].sector .. header[i].sector + header[i].count - 1
        PROVE  s \in Sectors
    BY <2>2, <2>4, Sizes DEF FirmAscending
  <2> QED BY <2>3, <2>4, Zenon DEF Protected, FirmSectors
<1> QED BY <1>1, <1>2, OtherStep

THEOREM FirmKeptHolds == ~ForeignImages /\ ~HeaderReadFails => (Spec => FirmKept)
<1> SUFFICES ASSUME ~ForeignImages, ~HeaderReadFails PROVE Spec => FirmKept
  OBVIOUS
<1>1. IInv /\ [Next]_vars => [~forced' => Untouched(Protected(header))]_vars
  BY FirmStep
<1> QED BY <1>1, Invariant, PTL DEF Spec, FirmKept

\* "ok" is reported for a complete restore only.
LEMMA OkStep == IInv /\ OkIsComplete /\ [Next]_vars => OkIsComplete'
<1> SUFFICES ASSUME IInv, OkIsComplete, [Next]_vars, result' = "ok"
             PROVE  /\ ~tail'
                    /\ \A s \in 0 .. fileSectors' - 1 :
                         nand'[s] = s \/ (~forced' /\ s \in Protected(guarded'))
  BY DEF OkIsComplete
<1>1. CASE FinishRestore
  <2>1. /\ pc = "loop" /\ ~MoreToRestore
        /\ UNCHANGED <<nand, forced, fileSectors, tail, guarded>>
    BY <1>1 DEF FinishRestore, job, protection
  <2>2. pos \in Nat /\ fileSectors \in Nat /\ fileSectors <= NandSectors
    BY <2>1 DEF IInv, TypeOK, InductiveInv, ControlInv
  <2>3. pos >= fileSectors /\ ~tail
    BY <2>1, <2>2 DEF MoreToRestore, IInv, InductiveInv, TransferInv
  <2>4. \A s \in 0 .. fileSectors - 1 : nand[s] = s \/ s \in Spared
    BY <2>1, <2>2, <2>3, Sizes DEF IInv, InductiveInv, TransferInv, Reached
  <2>5. \A s \in 0 .. fileSectors - 1 :
          nand[s] = s \/ (~forced /\ s \in Protected(guarded))
    BY <2>1, <2>4 DEF Spared
  <2> QED BY <2>1, <2>3, <2>5, Zenon
<1>2. CASE ~FinishRestore
  <2>1. result = "ok" /\ UNCHANGED <<nand, forced, fileSectors, tail, guarded>>
    <3>1. CASE UNCHANGED vars
      BY <3>1 DEF vars, job, protection
    <3>2. CASE DnandInit \/ SdCardInit
      BY <3>2 DEF DnandInit, SdCardInit, job, protection
    <3>3. pc # "idle" => result = "none"
      BY DEF IInv, InductiveInv, ControlInv
    <3>4. CASE SetProtection
      BY <3>3, <3>4 DEF SetProtection, ProtectionUnchanged, ProtectionOff, ProtectionOn,
         SkipPartition, MergeRegion, AppendRegion, NextPartition
    <3>5. CASE TransferChunk
      BY <3>3, <3>5, <1>2 DEF TransferChunk, ReadChunk, ReadFails, RefuseRagged, BeginWrite,
         SkipRegion, WriteGap, WriteRest, WriteFails, ContinueRestore, PowerHeld, Advance, Fails
    <3>6. ~StartRestore /\ ~PowerLoss
      BY DEF StartRestore, PowerLoss, Fails
    <3> QED BY <3>1, <3>2, <3>4, <3>5, <3>6 DEF Next, Environment
  <2> QED BY <2>1, Zenon DEF OkIsComplete
<1> QED BY <1>1, <1>2

THEOREM OkIsCompleteHolds == Spec => []OkIsComplete
<1>1. Init => OkIsComplete
  BY DEF Init, OkIsComplete
<1> QED BY <1>1, OkStep, Invariant, PTL DEF Spec

-----------------------------------------------------------------------------
(* The restore implements NandImage.                                       *)

LEMMA ImageInit == Init => Image!Init
BY DEF Init, Image!Init, Image!Blank, Writable

\* The fields of the mapping that no step of the kind changes.
LEMMA WritableStays ==
  ASSUME UNCHANGED <<forced, fileSectors>>, Spared' = Spared, pc # "idle", pc' # "idle"
  PROVE  Writable' = Writable
BY DEF Writable

LEMMA ImageSetProtection ==
  ASSUME IInv, SetProtection
  PROVE  UNCHANGED Image!vars
<1>1. /\ pc \in {"protect", "register"} /\ pc' \in {"register", "loop"}
      /\ UNCHANGED <<nand, result, forced, fileSectors>>
  BY DEF SetProtection, ProtectionUnchanged, ProtectionOff, ProtectionOn, SkipPartition,
     MergeRegion, AppendRegion, NextPartition, job
<1>2. Spared' = Spared
  <2>1. CASE forced
    BY <1>1, <2>1 DEF Spared
  <2>2. CASE ProtectionOn
    BY <1>1, <2>2 DEF ProtectionOn, Spared
  <2>3. CASE ProtectionUnchanged /\ ~forced
    <3>1. isNandProtected /\ pc' = "loop" /\ guarded' = guarded
      BY <2>3 DEF ProtectionUnchanged, protection, isNandProtected
    <3> QED BY <1>1, <2>3, <3>1 DEF Spared
  <2>4. CASE SkipPartition \/ MergeRegion \/ AppendRegion
    BY <1>1, <2>4 DEF SkipPartition, MergeRegion, AppendRegion, NextPartition, Spared
  <2>5. ProtectionOff => forced
    BY DEF ProtectionOff
  <2> QED BY <2>1, <2>2, <2>3, <2>4, <2>5, Zenon DEF SetProtection
<1> QED BY <1>1, <1>2, WritableStays DEF Image!vars

LEMMA ImageQuiet ==
  ASSUME IInv, ReadChunk \/ BeginWrite \/ SkipRegion \/ ContinueRestore
  PROVE  UNCHANGED Image!vars
<1>1. /\ pc \notin {"idle", "protect"} /\ pc' \notin {"idle", "protect"}
      /\ UNCHANGED <<nand, result, forced, fileSectors, guarded>>
  BY DEF ReadChunk, BeginWrite, SkipRegion, ContinueRestore, Advance, job, protection
<1>2. Spared' = Spared
  BY <1>1 DEF Spared
<1> QED BY <1>1, <1>2, WritableStays DEF Image!vars

\* The sectors a pass of the write loop changes belong to the restore.
LEMMA OwnIsWritable ==
  ASSUME IInv, WriteGap \/ WriteRest \/ WriteFails
  PROVE  \E S \in SUBSET Writable : Image!Burn(S)
<1>0. pc = "write"
  BY DEF WriteGap, WriteRest, WriteFails
<1>1. PICK n \in 0 .. toWrite : WriteSectors(n) /\ WritesOwn(sector .. sector + n - 1)
  BY WriteStep
<1> DEFINE S == sector .. sector + n - 1
<1>2. \A s \in S : s \in Sectors /\ s \in 0 .. fileSectors - 1
  BY <1>0, WriteBounds, Sizes
<1>3. Writable = (0 .. fileSectors - 1) \ (IF forced THEN {} ELSE Protected(guarded))
  BY <1>0 DEF Writable, Spared
<1>4. S \subseteq Writable
  BY <1>1, <1>2, <1>3 DEF WritesOwn
<1>5. nand' = [s \in Sectors |-> IF s \in S THEN s ELSE nand[s]]
  <2>1. nand' = [s \in Sectors |-> nand'[s]]
    BY <1>1 DEF WriteSectors
  <2>2. \A s \in Sectors : nand'[s] = IF s \in S THEN s ELSE nand[s]
    BY <1>1 DEF WritesOwn
  <2> HIDE DEF S
  <2> QED BY <2>1, <2>2, Zenon
<1> QED BY <1>4, <1>5 DEF Image!Burn

LEMMA ImageStep == IInv /\ [Next]_vars => [Image!Next]_(Image!vars)
<1> SUFFICES ASSUME IInv, [Next]_vars PROVE Image!Next \/ UNCHANGED Image!vars
  OBVIOUS
<1>1. CASE UNCHANGED vars
  BY <1>1 DEF vars, table, protection, job, chunk, cursor, Image!vars, Writable, Spared,
     isNandProtected
<1>2. CASE DnandInit \/ SdCardInit
  <2>1. pc = "idle" /\ pc' = "idle" /\ nand' = nand /\ result' = result
    BY <1>2 DEF DnandInit, SdCardInit
  <2> QED BY <2>1 DEF Image!vars, Writable
<1>3. CASE StartRestore
  <2>1. /\ pc = "idle" /\ nand' = Image!Blank
        /\ \/ pc' = "idle" /\ result' = "fail"
           \/ pc' = "protect" /\ result' = "none"
    BY <1>3 DEF StartRestore, Fails, Image!Blank
  <2>2. CASE pc' = "idle"
    BY <2>1, <2>2 DEF Image!Next, Image!Refuse, Writable
  <2>3. CASE pc' = "protect"
    <3>1. fileSectors' <= NandSectors /\ fileSectors' \in 0 .. NandSectors + 1
      BY <2>3, InvStep DEF IInv, InductiveInv, ControlInv, TypeOK
    <3>2. Writable' \subseteq Sectors
      BY <2>3, <3>1, Sizes DEF Writable
    <3> QED BY <2>1, <2>3, <3>2 DEF Image!Next, Image!Begin
  <2> QED BY <2>1, <2>2, <2>3
<1>4. CASE PowerLoss
  BY <1>4 DEF PowerLoss, Image!Next, Image!PowerLoss, Writable
<1>5. CASE SetProtection
  BY <1>5, ImageSetProtection
<1>6. CASE ReadChunk \/ BeginWrite \/ SkipRegion \/ ContinueRestore
  BY <1>6, ImageQuiet
<1>7. CASE WriteGap \/ WriteRest
  <2>1. /\ pc \notin {"idle", "protect"} /\ pc' \notin {"idle", "protect"}
        /\ UNCHANGED <<result, forced, fileSectors, guarded>>
    BY <1>7 DEF WriteGap, WriteRest, Advance, job, protection
  <2>2. Spared' = Spared
    BY <2>1 DEF Spared
  <2>3. Writable' = Writable
    BY <2>1, <2>2, WritableStays
  <2> QED BY <1>7, <2>1, <2>3, OwnIsWritable DEF Image!Next, Image!Write
<1>8. CASE WriteFails
  <2>1. pc # "idle" /\ pc' = "idle" /\ result' = "fail"
    BY <1>8 DEF WriteFails, Fails
  <2> QED BY <1>8, <2>1, OwnIsWritable DEF Image!Next, Image!Fail, Writable
<1>9. CASE ReadFails \/ RefuseRagged \/ PowerHeld
  <2>1. pc # "idle" /\ pc' = "idle" /\ result' = "fail" /\ nand' = nand
    BY <1>9 DEF ReadFails, RefuseRagged, PowerHeld, Fails
  <2>2. nand = [s \in Sectors |-> nand[s]]
    BY DEF IInv, TypeOK
  <2>3. Image!Burn({})
    BY <2>1, <2>2 DEF Image!Burn
  <2> QED BY <2>1, <2>3 DEF Image!Next, Image!Fail, Writable
<1>10. CASE FinishRestore
  <2>1. pc = "loop" /\ pc' = "idle" /\ result' = "ok" /\ nand' = nand /\ ~MoreToRestore
    BY <1>10 DEF FinishRestore
  <2>2. pos \in Nat /\ fileSectors \in Nat /\ fileSectors <= NandSectors
    BY <2>1 DEF IInv, TypeOK, InductiveInv, ControlInv
  <2>3. pos >= fileSectors
    BY <2>1, <2>2 DEF MoreToRestore
  <2>4. \A s \in 0 .. fileSectors - 1 : nand[s] = s \/ s \in Spared
    BY <2>1, <2>2, <2>3, Sizes DEF IInv, InductiveInv, TransferInv, Reached
  <2>5. \A s \in Writable : nand[s] = s
    BY <2>1, <2>4 DEF Writable
  <2> QED BY <2>1, <2>5 DEF Image!Next, Image!Finish, Writable
<1> QED
  BY <1>1, <1>2, <1>3, <1>4, <1>5, <1>6, <1>7, <1>8, <1>9, <1>10
  DEF Next, Environment, TransferChunk

\* Every behaviour of the restore is one of NandImage: only the sectors of
\* the job are written, each with its own image sector, and "ok" means all.
THEOREM Implementation == Spec => ImplementsImage
<1>1. Init /\ [][Next]_vars /\ []IInv => Image!Spec
  BY ImageInit, ImageStep, PTL DEF Image!Spec
<1> QED BY <1>1, Invariant, PTL DEF Spec, ImplementsImage

\* What the runs check of the state of a restore, for any chip, table, buffer
\* and image.
THEOREM RestoreInvHolds == Spec => []RestoreInv
<1>1. IInv => RestoreInv
  BY DEF IInv, RestoreInv
<1> QED BY <1>1, Invariant, PTL

=============================================================================
