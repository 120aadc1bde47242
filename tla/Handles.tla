------------------------------- MODULE Handles -------------------------------
(***************************************************************************)
(* File and directory handles of the ARM9 file server (fs.c): the tables   *)
(* of slots, their counters, the check a handle must pass, and fsDeinit,   *)
(* which closes by index whatever is still open.                           *)
(*                                                                         *)
(* A slot holds a FatFs object.  "dirty" has data or a directory entry     *)
(* that is not on the medium, "broken" is one whose flush the medium       *)
(* refused, "stale" belongs to a volume that is gone.  The callers keep    *)
(* what fOpen returned in the order in which they opened it.               *)
(***************************************************************************)
EXTENDS Integers, SequencesExt

CONSTANTS
  MaxFiles,   \* FS_MAX_FILES
  MaxDirs,    \* FS_MAX_DIRS
  MaxHeld,    \* files, and directories, that callers keep open at a time
  Nested      \* do callers close the file they opened last first?

ASSUME LimitAssumption ==
  /\ MaxFiles \in Nat \ {0} /\ MaxDirs \in Nat \ {0}
  /\ MaxHeld \in Nat /\ MaxHeld <= MaxFiles
  /\ Nested \in BOOLEAN

Files == 0 .. MaxFiles - 1
Dirs == 0 .. MaxDirs - 1
Objects == {"closed", "clean", "dirty", "broken", "stale"}

VARIABLES
  fTable, fStatTable, fHandles,   \* file slots
  held,                           \* handles of open files, the last one last
  dTable, dStatTable, dHandles,   \* directory slots
  dheld,
  deinit                          \* index of fsDeinit, -1 before it
files == <<fTable, fStatTable, fHandles, held>>
dirs == <<dTable, dStatTable, dHandles, dheld>>
vars == <<files, dirs, deinit>>

Running == deinit = -1

-----------------------------------------------------------------------------
(* Slots.                                                                  *)

\* The first unused slot, if the counter allows one.
findUnusedFileSlot(i) ==
  /\ fHandles < MaxFiles /\ i \in Files
  /\ ~fStatTable[i] /\ \A j \in 0 .. i - 1 : fStatTable[j]
findUnusedDirSlot(i) ==
  /\ dHandles < MaxDirs /\ i \in Dirs
  /\ ~dStatTable[i] /\ \A j \in 0 .. i - 1 : dStatTable[j]

\* Mutant: a handle has to be smaller than the number of open files.
HandleBelowCount(h) == h < fHandles

\* "(u32)handle > fHandles" is refused: a handle equal to the number of open
\* files passes.
isFileHandleValid(h) == h <= fHandles
isDirHandleValid(h) == h <= dHandles

\* Where a handle stands in the order in which files were opened.
Mine(seq, k) == k \in 1 .. Len(seq) /\ (Nested => k = Len(seq))

-----------------------------------------------------------------------------
(* Files.                                                                  *)

\* f_open, with or without FA_MODIFIED set by the creation of the file.
fOpen ==
  /\ Running /\ Len(held) < MaxHeld
  /\ \E i \in Files, o \in {"clean", "dirty"} :
       /\ findUnusedFileSlot(i)
       /\ fTable' = [fTable EXCEPT ![i] = o]
       /\ fStatTable' = [fStatTable EXCEPT ![i] = TRUE]
       /\ held' = Append(held, i)
  /\ fHandles' = fHandles + 1
  /\ UNCHANGED <<dirs, deinit>>

\* f_open invalidates the object when it fails.
fOpenFails ==
  /\ Running /\ Len(held) < MaxHeld
  /\ \E i \in Files : findUnusedFileSlot(i) /\ fTable' = [fTable EXCEPT ![i] = "closed"]
  /\ UNCHANGED <<fStatTable, fHandles, held, dirs, deinit>>

\* f_write, f_expand and f_sync on a valid object; f_read, f_lseek, f_size and
\* f_tell change no object here.
fWrite ==
  /\ Running
  /\ \E k \in 1 .. Len(held) :
       /\ isFileHandleValid(held[k])
       /\ fTable[held[k]] \in {"clean", "dirty", "broken"}
       /\ \E o \in {fTable[held[k]], "dirty"} : fTable' = [fTable EXCEPT ![held[k]] = o]
  /\ UNCHANGED <<fStatTable, fHandles, held, dirs, deinit>>

fSync ==
  /\ Running
  /\ \E k \in 1 .. Len(held) :
       /\ isFileHandleValid(held[k])
       /\ fTable[held[k]] \in {"dirty", "broken"}
       /\ \E o \in {"clean", "broken"} : fTable' = [fTable EXCEPT ![held[k]] = o]
  /\ UNCHANGED <<fStatTable, fHandles, held, dirs, deinit>>

\* f_close flushes first; the object stays when the flush fails or its volume
\* is gone.
f_close(o, p) == \/ o \in {"closed", "clean"} /\ p = "closed"
                 \/ o \in {"dirty", "broken"} /\ p \in {"closed", "broken"}
                 \/ o = "stale" /\ p = "stale"

\* The slot is free and the counter is lower whatever f_close returned.
CloseSlot(h) ==
  /\ \E p \in Objects : f_close(fTable[h], p) /\ fTable' = [fTable EXCEPT ![h] = p]
  /\ fStatTable' = [fStatTable EXCEPT ![h] = FALSE]
  /\ fHandles' = fHandles - 1
CloseRefused(h) == fHandles = 0 \/ ~isFileHandleValid(h)

fCloseAt(h) == \/ CloseRefused(h) /\ UNCHANGED <<fTable, fStatTable, fHandles>>
               \/ ~CloseRefused(h) /\ CloseSlot(h)

\* The caller forgets the handle whatever fClose returned.
fClose ==
  /\ Running
  /\ \E k \in 1 .. Len(held) :
       Mine(held, k) /\ fCloseAt(held[k]) /\ held' = RemoveAt(held, k)
  /\ UNCHANGED <<dirs, deinit>>

-----------------------------------------------------------------------------
(* Directories: read only, so their objects are never dirty.               *)

fOpenDir ==
  /\ Running /\ Len(dheld) < MaxHeld
  /\ \E i \in Dirs :
       /\ findUnusedDirSlot(i)
       /\ dTable' = [dTable EXCEPT ![i] = "clean"]
       /\ dStatTable' = [dStatTable EXCEPT ![i] = TRUE]
       /\ dheld' = Append(dheld, i)
  /\ dHandles' = dHandles + 1
  /\ UNCHANGED <<files, deinit>>

fOpenDirFails ==
  /\ Running /\ Len(dheld) < MaxHeld
  /\ \E i \in Dirs : findUnusedDirSlot(i) /\ dTable' = [dTable EXCEPT ![i] = "closed"]
  /\ UNCHANGED <<dStatTable, dHandles, dheld, files, deinit>>

fCloseDirAt(h) ==
  \/ /\ dHandles = 0 \/ ~isDirHandleValid(h)
     /\ UNCHANGED <<dTable, dStatTable, dHandles>>
  \/ /\ dHandles # 0 /\ isDirHandleValid(h)
     /\ \E p \in Objects : f_close(dTable[h], p) /\ dTable' = [dTable EXCEPT ![h] = p]
     /\ dStatTable' = [dStatTable EXCEPT ![h] = FALSE]
     /\ dHandles' = dHandles - 1

fCloseDir ==
  /\ Running
  /\ \E k \in 1 .. Len(dheld) :
       Mine(dheld, k) /\ fCloseDirAt(dheld[k]) /\ dheld' = RemoveAt(dheld, k)
  /\ UNCHANGED <<files, deinit>>

-----------------------------------------------------------------------------
(* Volumes and the end.                                                    *)

\* A volume is unmounted, or its card is pulled: the objects on it, in use or
\* not, no longer pass validate().
Gone(table, lost) == [i \in DOMAIN table |->
  IF i \in lost /\ table[i] # "closed" THEN "stale" ELSE table[i]]
VolumeGone ==
  /\ deinit <= MaxFiles
  /\ \E f \in SUBSET Files, d \in SUBSET Dirs :
       fTable' = Gone(fTable, f) /\ dTable' = Gone(dTable, d)
  /\ UNCHANGED <<fStatTable, fHandles, held, dStatTable, dHandles, dheld, deinit>>

\* fsDeinit: fClose(0) to fClose(MaxFiles - 1), then every drive is unmounted.
\* Panics, exceptions and IPC_CMD9_PREPARE_POWER call it; no command follows.
StartDeinit ==
  /\ Running
  /\ deinit' = 0
  /\ UNCHANGED <<files, dirs>>
DeinitFile ==
  /\ deinit \in Files
  /\ fCloseAt(deinit)
  /\ deinit' = deinit + 1
  /\ UNCHANGED <<held, dirs>>
DeinitDrives ==
  /\ deinit = MaxFiles
  /\ fTable' = Gone(fTable, Files) /\ dTable' = Gone(dTable, Dirs)
  /\ deinit' = deinit + 1
  /\ UNCHANGED <<fStatTable, fHandles, held, dStatTable, dHandles, dheld>>

-----------------------------------------------------------------------------
(* Specification.                                                          *)

Init ==
  /\ fTable = [i \in Files |-> "closed"] /\ fStatTable = [i \in Files |-> FALSE]
  /\ fHandles = 0 /\ held = << >>
  /\ dTable = [i \in Dirs |-> "closed"] /\ dStatTable = [i \in Dirs |-> FALSE]
  /\ dHandles = 0 /\ dheld = << >>
  /\ deinit = -1

Next == \/ fOpen \/ fOpenFails \/ fWrite \/ fSync \/ fClose
        \/ fOpenDir \/ fOpenDirFails \/ fCloseDir
        \/ VolumeGone \/ StartDeinit \/ DeinitFile \/ DeinitDrives
Spec == Init /\ [][Next]_vars

-----------------------------------------------------------------------------
(* Properties.                                                             *)

HandlesTypeOK ==
  /\ fTable \in [Files -> Objects] /\ fStatTable \in [Files -> BOOLEAN]
  /\ fHandles \in 0 .. MaxFiles /\ held \in Seq(Files)
  /\ dTable \in [Dirs -> Objects] /\ dStatTable \in [Dirs -> BOOLEAN]
  /\ dHandles \in 0 .. MaxDirs /\ dheld \in Seq(Dirs)
  /\ deinit \in -1 .. MaxFiles + 1

\* A slot belongs to one caller: no file or directory is opened over an object
\* that another caller still uses, although the first free slot and the
\* counter are found separately.
HandleExclusive ==
  Running => /\ \A k \in 1 .. Len(held) : fStatTable[held[k]]
             /\ \A j, k \in 1 .. Len(held) : held[j] = held[k] => j = k
             /\ \A k \in 1 .. Len(dheld) : dStatTable[dheld[k]]
             /\ \A j, k \in 1 .. Len(dheld) : dheld[j] = dheld[k] => j = k

\* What fOpen returned stays a valid handle, in whatever order the files around
\* it are closed: the check against the counter never refuses a read, a write
\* or the close of an open file, so no slot and no cached data is left behind.
HeldIsValid ==
  Running => /\ \A k \in 1 .. Len(held) : isFileHandleValid(held[k]) /\ fHandles > 0
             /\ \A k \in 1 .. Len(dheld) : isDirHandleValid(dheld[k]) /\ dHandles > 0

\* When fsDeinit comes to unmount the drives, no file has data left that was
\* not even tried to be written: "avoid fs corruptions" of guruMeditation.  That
\* holds if the open files are in the first slots, in any order.
Packed == \A k \in 1 .. Len(held) : held[k] < Len(held)
DeinitFlushes == deinit = MaxFiles /\ Packed => \A i \in Files : fTable[i] # "dirty"

\* Slots and counters stay in range, no slot has two owners, no open handle is
\* refused and no file stays unflushed.
HandlesInv == HandlesTypeOK /\ HandleExclusive /\ HeldIsValid /\ DeinitFlushes

=============================================================================
