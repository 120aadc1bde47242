---------------------------- MODULE BrowserProofs ----------------------------
(***************************************************************************)
(* Theorems about Handles, for any number of slots, and about the menus    *)
(* and the file selector of Browser on top of them.                        *)
(***************************************************************************)
EXTENDS Browser, FiniteSetTheorems, SequenceTheorems, TLAPS

LEMMA Limits == /\ MaxFiles \in Nat /\ MaxFiles > 0 /\ MaxDirs \in Nat /\ MaxDirs > 0
                /\ MaxHeld \in Nat /\ MaxHeld <= MaxFiles
BY LimitAssumption

\* Dropping one element of a sequence.
LEMMA RemoveAtProperties ==
  ASSUME NEW S, NEW s \in Seq(S), NEW k \in 1 .. Len(s)
  PROVE  /\ RemoveAt(s, k) \in Seq(S)
         /\ Len(RemoveAt(s, k)) = Len(s) - 1
         /\ \A i \in 1 .. k - 1 : RemoveAt(s, k)[i] = s[i]
         /\ \A i \in k .. Len(s) - 1 : RemoveAt(s, k)[i] = s[i + 1]
<1>0. /\ Len(s) \in Nat /\ \A i \in 1 .. Len(s) : s[i] \in S
  BY LenProperties, ElementOfSeq
<1> DEFINE a == SubSeq(s, 1, k - 1)
           b == SubSeq(s, k + 1, Len(s))
<1>1. a \in Seq(S) /\ Len(a) = k - 1 /\ \A i \in 1 .. k - 1 : a[i] = s[i]
  <2>1. \A i \in 1 .. k - 1 : s[i] \in S
    BY <1>0
  <2>2. /\ SubSeq(s, 1, k - 1) \in Seq(S)
        /\ Len(SubSeq(s, 1, k - 1)) = IF 1 <= k - 1 THEN (k - 1) - 1 + 1 ELSE 0
        /\ \A i \in 1 .. (k - 1) - 1 + 1 : SubSeq(s, 1, k - 1)[i] = s[1 + i - 1]
    BY <1>0, <2>1, SubSeqProperties
  <2> QED BY <1>0, <2>2
<1>2. b \in Seq(S) /\ Len(b) = Len(s) - k /\ \A i \in 1 .. Len(s) - k : b[i] = s[i + k]
  <2>1. \A i \in k + 1 .. Len(s) : s[i] \in S
    BY <1>0
  <2>2. /\ SubSeq(s, k + 1, Len(s)) \in Seq(S)
        /\ Len(SubSeq(s, k + 1, Len(s))) = IF k + 1 <= Len(s) THEN Len(s) - (k + 1) + 1 ELSE 0
        /\ \A i \in 1 .. Len(s) - (k + 1) + 1 : SubSeq(s, k + 1, Len(s))[i] = s[k + 1 + i - 1]
    BY <1>0, <2>1, SubSeqProperties
  <2> QED BY <1>0, <2>2
<1>3. RemoveAt(s, k) = a \o b
  BY DEF RemoveAt
<1> HIDE DEF a, b
<1>4. /\ a \o b \in Seq(S) /\ Len(a \o b) = Len(a) + Len(b)
      /\ \A i \in 1 .. Len(a) + Len(b) : (a \o b)[i] = IF i <= Len(a) THEN a[i] ELSE b[i - Len(a)]
  BY <1>1, <1>2, ConcatProperties
<1>5. Len(a \o b) = Len(s) - 1
  BY <1>0, <1>1, <1>2, <1>4
<1>6. ASSUME NEW i \in 1 .. k - 1 PROVE (a \o b)[i] = s[i]
  BY <1>0, <1>1, <1>2, <1>4
<1>7. ASSUME NEW i \in k .. Len(s) - 1 PROVE (a \o b)[i] = s[i + 1]
  <2>1. i - (k - 1) \in 1 .. Len(s) - k /\ (i - (k - 1)) + k = i + 1
    BY <1>0
  <2>2. b[i - (k - 1)] = s[i + 1]
    BY <1>2, <2>1
  <2>3. i \in 1 .. Len(a) + Len(b) /\ ~(i <= Len(a)) /\ i - Len(a) = i - (k - 1)
    BY <1>0, <1>1, <1>2
  <2> QED BY <1>4, <2>2, <2>3
<1> QED BY <1>3, <1>4, <1>5, <1>6, <1>7

-----------------------------------------------------------------------------
(* Types.                                                                  *)

\* The tables keep their types and the counters stay between zero and the
\* number of slots, for callers that open and close in any order.
THEOREM HandlesTypeCorrect == Spec => []HandlesTypeOK
<1>1. Init => HandlesTypeOK
  <2> SUFFICES ASSUME Init PROVE HandlesTypeOK
    OBVIOUS
  <2>1. << >> \in Seq(Files) /\ << >> \in Seq(Dirs)
    BY EmptySeq
  <2> QED BY <2>1, Limits DEF Init, HandlesTypeOK, Objects
<1>2. HandlesTypeOK /\ [Next]_vars => HandlesTypeOK'
  <2> SUFFICES ASSUME HandlesTypeOK, [Next]_vars PROVE HandlesTypeOK'
    OBVIOUS
  <2> USE Limits
  <2>0. \A h, p : p \in Objects => [fTable EXCEPT ![h] = p] \in [Files -> Objects]
    BY DEF HandlesTypeOK
  <2>1. CASE fOpen
    <3>1. PICK i \in Files, o \in {"clean", "dirty"} :
            /\ fTable' = [fTable EXCEPT ![i] = o]
            /\ fStatTable' = [fStatTable EXCEPT ![i] = TRUE]
            /\ held' = Append(held, i)
            /\ fHandles < MaxFiles
      BY <2>1 DEF fOpen, findUnusedFileSlot
    <3>2. held' \in Seq(Files)
      BY <3>1, AppendProperties DEF HandlesTypeOK
    <3>3. fTable' \in [Files -> Objects]
      BY <3>1, <2>0 DEF Objects
    <3>4. fStatTable' \in [Files -> BOOLEAN]
      BY <3>1, Zenon DEF HandlesTypeOK
    <3>5. fHandles' \in 0 .. MaxFiles
      BY <2>1, <3>1 DEF fOpen, HandlesTypeOK
    <3> QED BY <2>1, <3>2, <3>3, <3>4, <3>5, Zenon DEF fOpen, HandlesTypeOK, dirs
  <2>2. CASE fOpenFails
    <3>1. fTable' \in [Files -> Objects]
      BY <2>2, <2>0 DEF fOpenFails, Objects
    <3> QED BY <2>2, <3>1, Zenon DEF fOpenFails, HandlesTypeOK, dirs
  <2>3. CASE fWrite
    <3>1. fTable' \in [Files -> Objects]
      <4>1. PICK k \in 1 .. Len(held) : /\ fTable[held[k]] \in {"clean", "dirty", "broken"}
              /\ \E o \in {fTable[held[k]], "dirty"} : fTable' = [fTable EXCEPT ![held[k]] = o]
        BY <2>3 DEF fWrite
      <4> QED BY <4>1, <2>0 DEF Objects
    <3> QED BY <2>3, <3>1, Zenon DEF fWrite, HandlesTypeOK, dirs
  <2>4. CASE fSync
    <3>1. fTable' \in [Files -> Objects]
      BY <2>4, <2>0 DEF fSync, Objects
    <3> QED BY <2>4, <3>1, Zenon DEF fSync, HandlesTypeOK, dirs
  <2>5. ASSUME NEW h \in Files, fCloseAt(h)
        PROVE  /\ fTable' \in [Files -> Objects] /\ fStatTable' \in [Files -> BOOLEAN]
               /\ fHandles' \in 0 .. MaxFiles
    <3>1. CASE CloseRefused(h) /\ UNCHANGED <<fTable, fStatTable, fHandles>>
      BY <3>1 DEF HandlesTypeOK
    <3>2. CASE ~CloseRefused(h) /\ CloseSlot(h)
      <4>1. fTable' \in [Files -> Objects]
        BY <3>2, <2>0 DEF CloseSlot
      <4>2. fStatTable' \in [Files -> BOOLEAN]
        BY <3>2, Zenon DEF CloseSlot, HandlesTypeOK
      <4>3. fHandles' \in 0 .. MaxFiles
        BY <3>2 DEF CloseSlot, CloseRefused, HandlesTypeOK
      <4> QED BY <4>1, <4>2, <4>3
    <3> QED BY <2>5, <3>1, <3>2 DEF fCloseAt
  <2>6. CASE fClose
    <3>1. PICK k \in 1 .. Len(held) : fCloseAt(held[k]) /\ held' = RemoveAt(held, k)
      BY <2>6 DEF fClose
    <3>2. held[k] \in Files /\ held' \in Seq(Files)
      BY <3>1, ElementOfSeq, RemoveAtProperties DEF HandlesTypeOK
    <3> QED BY <2>6, <2>5, <3>1, <3>2, Zenon DEF fClose, HandlesTypeOK, dirs
  <2>7. CASE fOpenDir
    <3>1. PICK i \in Dirs :
            /\ dTable' = [dTable EXCEPT ![i] = "clean"]
            /\ dStatTable' = [dStatTable EXCEPT ![i] = TRUE]
            /\ dheld' = Append(dheld, i)
            /\ dHandles < MaxDirs
      BY <2>7 DEF fOpenDir, findUnusedDirSlot
    <3>2. dheld' \in Seq(Dirs)
      BY <3>1, AppendProperties DEF HandlesTypeOK
    <3>3. dTable' \in [Dirs -> Objects]
      BY <3>1 DEF HandlesTypeOK, Objects
    <3>4. dStatTable' \in [Dirs -> BOOLEAN]
      BY <3>1, Zenon DEF HandlesTypeOK
    <3>5. dHandles' \in 0 .. MaxDirs
      BY <2>7, <3>1 DEF fOpenDir, HandlesTypeOK
    <3> QED BY <2>7, <3>2, <3>3, <3>4, <3>5, Zenon DEF fOpenDir, HandlesTypeOK, files
  <2>8. CASE fOpenDirFails
    <3>1. dTable' \in [Dirs -> Objects]
      BY <2>8 DEF fOpenDirFails, HandlesTypeOK, Objects
    <3> QED BY <2>8, <3>1, Zenon DEF fOpenDirFails, HandlesTypeOK, files
  <2>9. CASE fCloseDir
    <3>1. PICK k \in 1 .. Len(dheld) : fCloseDirAt(dheld[k]) /\ dheld' = RemoveAt(dheld, k)
      BY <2>9 DEF fCloseDir
    <3>2. dheld[k] \in Dirs /\ dheld' \in Seq(Dirs)
      BY <3>1, ElementOfSeq, RemoveAtProperties DEF HandlesTypeOK
    <3>3. dTable' \in [Dirs -> Objects]
      BY <3>1 DEF fCloseDirAt, HandlesTypeOK
    <3>4. dStatTable' \in [Dirs -> BOOLEAN]
      BY <3>1, Zenon DEF fCloseDirAt, HandlesTypeOK
    <3>5. dHandles' \in 0 .. MaxDirs
      BY <3>1 DEF fCloseDirAt, HandlesTypeOK
    <3> QED BY <2>9, <3>2, <3>3, <3>4, <3>5, Zenon DEF fCloseDir, HandlesTypeOK, files
  <2>10. \A f, d : Gone(fTable, f) \in [Files -> Objects] /\ Gone(dTable, d) \in [Dirs -> Objects]
    BY DEF Gone, HandlesTypeOK, Objects
  <2>11. CASE VolumeGone
    <3>1. fTable' \in [Files -> Objects] /\ dTable' \in [Dirs -> Objects]
      BY <2>10, <2>11 DEF VolumeGone
    <3> QED BY <2>11, <3>1, Zenon DEF VolumeGone, HandlesTypeOK
  <2>12. CASE StartDeinit
    <3>1. deinit' \in -1 .. MaxFiles + 1
      BY <2>12 DEF StartDeinit
    <3> QED BY <2>12, <3>1, Zenon DEF StartDeinit, HandlesTypeOK, files, dirs
  <2>13. CASE DeinitFile
    <3>1. deinit' \in -1 .. MaxFiles + 1
      BY <2>13 DEF DeinitFile, Files
    <3>2. deinit \in Files /\ fCloseAt(deinit)
      BY <2>13 DEF DeinitFile
    <3> QED BY <2>13, <2>5, <3>1, <3>2, Zenon DEF DeinitFile, HandlesTypeOK, dirs
  <2>14. CASE DeinitDrives
    <3>1. deinit' \in -1 .. MaxFiles + 1
      BY <2>14 DEF DeinitDrives
    <3>2. fTable' \in [Files -> Objects] /\ dTable' \in [Dirs -> Objects]
      BY <2>10, <2>14 DEF DeinitDrives
    <3> QED BY <2>14, <3>1, <3>2, Zenon DEF DeinitDrives, HandlesTypeOK
  <2>15. CASE UNCHANGED vars
    BY <2>15 DEF vars, files, dirs, HandlesTypeOK
  <2> QED
    BY <2>1, <2>2, <2>3, <2>4, <2>6, <2>7, <2>8, <2>9, <2>11, <2>12, <2>13, <2>14,
         <2>15 DEF Next
<1> QED BY <1>1, <1>2, PTL DEF Spec

-----------------------------------------------------------------------------
(* Callers that close the last file first.                                 *)

\* What is open fills the first slots in the order in which it was opened, and
\* the counter is its number.
FileStack ==
  /\ \A k \in 1 .. Len(held) : held[k] = k - 1
  /\ Running => /\ fHandles = Len(held)
                /\ \A i \in Files : fStatTable[i] <=> i < Len(held)
DirStack ==
  /\ \A k \in 1 .. Len(dheld) : dheld[k] = k - 1
  /\ Running => /\ dHandles = Len(dheld)
                /\ \A i \in Dirs : dStatTable[i] <=> i < Len(dheld)

LEMMA StackInit == Init => FileStack /\ DirStack
<1> SUFFICES ASSUME Init PROVE FileStack /\ DirStack
  OBVIOUS
<1>1. Len(<< >>) = 0
  BY EmptySeq
<1>2. Len(held) = 0 /\ Len(dheld) = 0 /\ fHandles = 0 /\ dHandles = 0
  BY <1>1 DEF Init
<1>3. \A i \in Files : fTable[i] = "closed" /\ ~fStatTable[i] /\ ~(i < 0)
  BY Limits DEF Init, Files
<1>4. \A i \in Dirs : ~dStatTable[i] /\ ~(i < 0)
  BY Limits DEF Init, Dirs
<1> QED BY <1>2, <1>3, <1>4, Limits DEF FileStack, DirStack

\* A file that is opened gets the slot behind the open ones.
LEMMA OpenStack == HandlesTypeOK /\ FileStack /\ fOpen => FileStack'
<1> SUFFICES ASSUME HandlesTypeOK, FileStack, fOpen PROVE FileStack'
  OBVIOUS
<1> USE Limits
<1>0. held \in Seq(Files) /\ Len(held) \in Nat
  BY LenProperties DEF HandlesTypeOK
<1>1. PICK i \in Files, o \in {"clean", "dirty"} :
        /\ findUnusedFileSlot(i)
        /\ fTable' = [fTable EXCEPT ![i] = o]
        /\ fStatTable' = [fStatTable EXCEPT ![i] = TRUE]
        /\ held' = Append(held, i)
  BY DEF fOpen
<1>2. fHandles = Len(held) /\ \A j \in Files : fStatTable[j] <=> j < Len(held)
  BY DEF fOpen, FileStack
<1>3. i = Len(held)
  <2>1. ~(i < Len(held))
    BY <1>1, <1>2 DEF findUnusedFileSlot
  <2>2. fHandles < MaxFiles
    BY <1>1 DEF findUnusedFileSlot
  <2>3. ~(Len(held) < i)
    <3> SUFFICES ASSUME Len(held) < i PROVE FALSE
      OBVIOUS
    <3>1. Len(held) \in Files /\ Len(held) \in 0 .. i - 1
      BY <1>0, <1>2, <2>2 DEF Files
    <3>2. fStatTable[Len(held)]
      BY <1>1, <3>1 DEF findUnusedFileSlot
    <3> QED BY <1>0, <1>2, <3>1, <3>2
  <2> QED BY <1>0, <2>1, <2>3 DEF Files
<1>4. /\ Len(held') = Len(held) + 1
      /\ \A k \in 1 .. Len(held) : held'[k] = held[k]
      /\ held'[Len(held) + 1] = i
  BY <1>0, <1>1, AppendProperties
<1>5. \A k \in 1 .. Len(held') : held'[k] = k - 1
  BY <1>0, <1>3, <1>4 DEF FileStack
<1>8. fHandles' = Len(held')
  BY <1>0, <1>2, <1>4 DEF fOpen
<1>9. \A j \in Files : fStatTable'[j] <=> (j = i \/ fStatTable[j])
  BY <1>1, Zenon DEF HandlesTypeOK
<1>10. \A j \in Files : (j < Len(held')) <=> (j = i \/ j < Len(held))
  BY <1>0, <1>3, <1>4 DEF Files
<1>11. \A j \in Files : fStatTable'[j] <=> j < Len(held')
  BY <1>2, <1>9, <1>10
<1> QED BY <1>5, <1>8, <1>11 DEF FileStack

\* A file that is closed leaves the slots before it as they were.
LEMMA CloseStack == Nested /\ HandlesTypeOK /\ FileStack /\ fClose => FileStack'
<1> SUFFICES ASSUME Nested, HandlesTypeOK, FileStack, fClose PROVE FileStack'
  OBVIOUS
<1> USE Limits
<1> DEFINE n == Len(held)
<1>0. held \in Seq(Files) /\ n \in Nat
  BY LenProperties DEF HandlesTypeOK
<1>1. n \in 1 .. n /\ fCloseAt(held[n]) /\ held' = RemoveAt(held, n)
  BY <1>0 DEF fClose, Mine
<1>2. fHandles = n /\ \A j \in Files : fStatTable[j] <=> j < n
  BY DEF fClose, FileStack
<1>3. held[n] = n - 1 /\ n - 1 \in Files
  BY <1>0, <1>1, ElementOfSeq DEF FileStack
<1>4. CloseSlot(n - 1)
  BY <1>0, <1>1, <1>2, <1>3 DEF fCloseAt, CloseRefused, isFileHandleValid
<1>5. /\ Len(held') = n - 1
      /\ \A k \in 1 .. n - 1 : held'[k] = held[k]
  BY <1>0, <1>1, RemoveAtProperties
<1>6. \A k \in 1 .. Len(held') : held'[k] = k - 1
  BY <1>0, <1>5 DEF FileStack
<1>8. fHandles' = n - 1
  BY <1>2, <1>4 DEF CloseSlot
<1>9. \A j \in Files : fStatTable'[j] <=> (j # n - 1 /\ fStatTable[j])
  BY <1>4, Zenon DEF CloseSlot, HandlesTypeOK
<1>10. \A j \in Files : (j < n - 1) <=> (j # n - 1 /\ j < n)
  BY <1>0 DEF Files
<1>11. \A j \in Files : fStatTable'[j] <=> j < n - 1
  BY <1>2, <1>9, <1>10
<1> QED BY <1>5, <1>6, <1>8, <1>11 DEF FileStack

LEMMA StackStep ==
  Nested /\ HandlesTypeOK /\ FileStack /\ [Next]_vars => FileStack'
<1> SUFFICES ASSUME Nested, HandlesTypeOK, FileStack, [Next]_vars PROVE FileStack'
  OBVIOUS
<1>1. CASE fOpen
  BY <1>1, OpenStack
<1>2. CASE fClose
  BY <1>2, CloseStack
<1>3. ASSUME UNCHANGED <<held, fHandles, fStatTable>>, Running' => Running
      PROVE  FileStack'
  BY <1>3 DEF FileStack
<1>4. CASE fOpenFails \/ fWrite \/ fSync \/ fOpenDir \/ fOpenDirFails \/ fCloseDir \/ VolumeGone
  BY <1>3, <1>4 DEF fOpenFails, fWrite, fSync, fOpenDir, fOpenDirFails, fCloseDir,
       VolumeGone,
                    files, Running
<1>5. CASE StartDeinit \/ DeinitFile \/ DeinitDrives
  <2>1. ~Running' /\ held' = held
    BY <1>5, Limits DEF StartDeinit, DeinitFile, DeinitDrives, Running, Files, files
  <2> QED BY <2>1 DEF FileStack
<1>6. CASE UNCHANGED vars
  BY <1>3, <1>6 DEF vars, files, Running
<1> QED BY <1>1, <1>2, <1>4, <1>5, <1>6 DEF Next

LEMMA DirStackStep ==
  Nested /\ HandlesTypeOK /\ DirStack /\ [Next]_vars => DirStack'
<1> SUFFICES ASSUME Nested, HandlesTypeOK, DirStack, [Next]_vars PROVE DirStack'
  OBVIOUS
<1> USE Limits
<1> DEFINE n == Len(dheld)
<1>0. dheld \in Seq(Dirs) /\ n \in Nat
  BY LenProperties DEF HandlesTypeOK
<1>1. CASE fOpenDir
  <2>1. PICK i \in Dirs :
          /\ findUnusedDirSlot(i)
          /\ dStatTable' = [dStatTable EXCEPT ![i] = TRUE]
          /\ dheld' = Append(dheld, i)
    BY <1>1 DEF fOpenDir
  <2>2. dHandles = n /\ \A j \in Dirs : dStatTable[j] <=> j < n
    BY <1>1 DEF fOpenDir, DirStack
  <2>3. ~(i < n) /\ dHandles < MaxDirs
    BY <2>1, <2>2 DEF findUnusedDirSlot
  <2>4. ~(n < i)
    <3> SUFFICES ASSUME n < i PROVE FALSE
      OBVIOUS
    <3>1. n \in Dirs /\ n \in 0 .. i - 1
      BY <1>0, <2>2, <2>3 DEF Dirs
    <3>2. dStatTable[n]
      BY <2>1, <3>1 DEF findUnusedDirSlot
    <3> QED BY <1>0, <2>2, <3>1, <3>2
  <2>5. i = n
    BY <1>0, <2>3, <2>4 DEF Dirs
  <2>6. /\ Len(dheld') = n + 1
        /\ \A k \in 1 .. n : dheld'[k] = dheld[k]
        /\ dheld'[n + 1] = i
    BY <1>0, <2>1, AppendProperties
  <2>7. \A k \in 1 .. n + 1 : dheld'[k] = k - 1
    BY <1>0, <2>5, <2>6 DEF DirStack
  <2>8. dHandles' = n + 1
    BY <1>1, <2>2 DEF fOpenDir
  <2>9. \A j \in Dirs : dStatTable'[j] <=> (j = i \/ dStatTable[j])
    BY <2>1, Zenon DEF HandlesTypeOK
  <2>10. \A j \in Dirs : (j < n + 1) <=> (j = i \/ j < n)
    BY <1>0, <2>5 DEF Dirs
  <2>11. \A j \in Dirs : dStatTable'[j] <=> j < n + 1
    BY <2>2, <2>9, <2>10
  <2> QED BY <2>6, <2>7, <2>8, <2>11 DEF DirStack
<1>2. CASE fCloseDir
  <2>1. n \in 1 .. n /\ fCloseDirAt(dheld[n]) /\ dheld' = RemoveAt(dheld, n)
    BY <1>0, <1>2 DEF fCloseDir, Mine
  <2>2. dHandles = n /\ \A j \in Dirs : dStatTable[j] <=> j < n
    BY <1>2 DEF fCloseDir, DirStack
  <2>3. dheld[n] = n - 1
    BY <2>1 DEF DirStack
  <2>4. /\ dStatTable' = [dStatTable EXCEPT ![n - 1] = FALSE]
        /\ dHandles' = n - 1
    BY <1>0, <2>1, <2>2, <2>3 DEF fCloseDirAt, isDirHandleValid
  <2>5. /\ Len(dheld') = n - 1
        /\ \A k \in 1 .. n - 1 : dheld'[k] = dheld[k]
    BY <1>0, <2>1, RemoveAtProperties
  <2>6. \A k \in 1 .. n - 1 : dheld'[k] = k - 1
    BY <1>0, <2>5 DEF DirStack
  <2>7. \A j \in Dirs : dStatTable'[j] <=> (j # n - 1 /\ dStatTable[j])
    BY <2>4, Zenon DEF HandlesTypeOK
  <2>8. \A j \in Dirs : (j < n - 1) <=> (j # n - 1 /\ j < n)
    BY <1>0 DEF Dirs
  <2>9. \A j \in Dirs : dStatTable'[j] <=> j < n - 1
    BY <2>2, <2>7, <2>8
  <2> QED BY <2>4, <2>5, <2>6, <2>9 DEF DirStack
<1>3. ASSUME UNCHANGED <<dheld, dHandles, dStatTable>>, Running' => Running
      PROVE  DirStack'
  BY <1>3 DEF DirStack
<1>4. CASE fOpen \/ fOpenFails \/ fWrite \/ fSync \/ fClose \/ fOpenDirFails \/ VolumeGone
  BY <1>3, <1>4 DEF fOpen, fOpenFails, fWrite, fSync, fClose, fOpenDirFails, VolumeGone,
       dirs, Running
<1>5. CASE StartDeinit \/ DeinitFile \/ DeinitDrives
  <2>1. ~Running'
    BY <1>5 DEF StartDeinit, DeinitFile, DeinitDrives, Running, Files
  <2> QED BY <1>3, <1>5, <2>1 DEF StartDeinit, DeinitFile, DeinitDrives, dirs
<1>6. CASE UNCHANGED vars
  BY <1>3, <1>6 DEF vars, dirs, Running
<1> QED BY <1>1, <1>2, <1>4, <1>5, <1>6 DEF Next

LEMMA StackAlways == Nested => (Spec => [](HandlesTypeOK /\ FileStack /\ DirStack))
<1> SUFFICES ASSUME Nested PROVE Spec => [](HandlesTypeOK /\ FileStack /\ DirStack)
  OBVIOUS
<1>1. FileStack /\ DirStack /\ HandlesTypeOK /\ [Next]_vars => (FileStack /\ DirStack)'
  BY StackStep, DirStackStep
<1> QED BY <1>1, StackInit, HandlesTypeCorrect, PTL DEF Spec

-----------------------------------------------------------------------------
(* Callers that keep at most two things open, in any order.                *)

\* They are in the first two slots, and the counter is their number.
Has(h, i) == \E k \in 1 .. Len(h) : h[k] = i
Pair(h) == /\ Len(h) <= 2 /\ \A k \in 1 .. Len(h) : h[k] \in {0, 1}
           /\ \A j, k \in 1 .. Len(h) : h[j] = h[k] => j = k
PairUsed(used, n, h) == n = Len(h) /\ \A i \in DOMAIN used : used[i] <=> Has(h, i)

LEMMA PairEmpty == Pair(<< >>) /\ Len(<< >>) = 0 /\ \A i : ~Has(<< >>, i)
BY DEF Pair, Has

LEMMA PairOpen ==
  ASSUME NEW m \in Nat, NEW used \in [0 .. m - 1 -> BOOLEAN], NEW h \in Seq(0 .. m - 1), NEW n,
         Pair(h), PairUsed(used, n, h), Len(h) < 2,
         NEW i \in 0 .. m - 1, ~used[i], \A j \in 0 .. i - 1 : used[j]
  PROVE  /\ Pair(Append(h, i))
         /\ PairUsed([used EXCEPT ![i] = TRUE], n + 1, Append(h, i))
         /\ \A j : Has(Append(h, i), j) <=> Has(h, j) \/ j = i
<1> DEFINE g == Append(h, i)
           l == Len(h)
<1>1. /\ l \in Nat /\ Len(g) = l + 1 /\ g[l + 1] = i
      /\ \A k \in 1 .. l : g[k] = h[k]
  BY LenProperties, AppendProperties
<1>2. ~Has(h, i) /\ n = l
  BY DEF PairUsed
<1>3. i \in {0, 1}
  <2> SUFFICES ASSUME i > 1 PROVE FALSE
    OBVIOUS
  <2>1. 0 \in 0 .. i - 1 /\ 1 \in 0 .. i - 1 /\ 0 \in 0 .. m - 1 /\ 1 \in 0 .. m - 1
    OBVIOUS
  <2>2. Has(h, 0) /\ Has(h, 1)
    BY <2>1 DEF PairUsed
  <2>3. PICK j, k \in 1 .. l : h[j] = 0 /\ h[k] = 1
    BY <2>2 DEF Has
  <2> QED BY <1>1, <2>3
<1>4. \A j : Has(g, j) <=> Has(h, j) \/ j = i
  <2> HIDE DEF g
  <2>1. \A j : Has(h, j) \/ j = i => Has(g, j)
    BY <1>1 DEF Has
  <2>2. ASSUME NEW j, Has(g, j) PROVE Has(h, j) \/ j = i
    <3>1. PICK k \in 1 .. l + 1 : g[k] = j
      BY <1>1, <2>2 DEF Has
    <3>2. k = l + 1 \/ k \in 1 .. l
      BY <1>1
    <3> QED BY <1>1, <3>1, <3>2 DEF Has
  <2> QED BY <2>1, <2>2
<1>5. Pair(g)
  <2>1. \A k \in 1 .. l : h[k] \in {0, 1} /\ h[k] # i
    BY <1>2 DEF Pair, Has
  <2> HIDE DEF g
  <2>2. \A k \in 1 .. l + 1 : k \in 1 .. l \/ k = l + 1
    BY <1>1
  <2>3. \A k \in 1 .. l + 1 : g[k] \in {0, 1}
    BY <1>1, <1>3, <2>1, <2>2
  <2>4. \A j, k \in 1 .. l + 1 : g[j] = g[k] => j = k
    BY <1>1, <2>1, <2>2 DEF Pair
  <2> QED BY <1>1, <2>3, <2>4 DEF Pair
<1>6. PairUsed([used EXCEPT ![i] = TRUE], n + 1, g)
  <2> HIDE DEF g
  <2>1. \A j \in 0 .. m - 1 : [used EXCEPT ![i] = TRUE][j] <=> Has(g, j)
    BY <1>4 DEF PairUsed
  <2> QED BY <1>1, <1>2, <2>1 DEF PairUsed
<1> QED BY <1>4, <1>5, <1>6

LEMMA PairClose ==
  ASSUME NEW m \in Nat, NEW h \in Seq(0 .. m - 1), Pair(h), NEW k \in 1 .. Len(h)
  PROVE  /\ Pair(RemoveAt(h, k)) /\ Len(h) > 0 /\ h[k] <= Len(h) /\ h[k] \in 0 .. m - 1
         /\ Len(RemoveAt(h, k)) = Len(h) - 1
         /\ \A j : Has(RemoveAt(h, k), j) <=> Has(h, j) /\ j # h[k]
<1> DEFINE g == RemoveAt(h, k)
           l == Len(h)
<1>1. /\ l \in 1 .. 2 /\ h[k] \in {0, 1} /\ h[k] \in 0 .. m - 1
      /\ \A i \in 1 .. l : h[i] \in {0, 1}
      /\ \A i, j \in 1 .. l : h[i] = h[j] => i = j
  <2>1. l \in Nat /\ h[k] \in 0 .. m - 1 /\ k \in 1 .. l
    BY LenProperties, ElementOfSeq
  <2>2. l <= 2
    BY DEF Pair
  <2>3. \A x \in Nat : \A y \in 1 .. x : x <= 2 => x \in 1 .. 2
    OBVIOUS
  <2>4. l \in 1 .. 2
    BY <2>1, <2>2, <2>3
  <2> QED BY <2>1, <2>4 DEF Pair
<1>2. /\ g \in Seq(0 .. m - 1) /\ Len(g) = l - 1
      /\ \A i \in 1 .. k - 1 : g[i] = h[i]
      /\ \A i \in k .. l - 1 : g[i] = h[i + 1]
  BY RemoveAtProperties
<1> HIDE DEF g
<1>3. CASE l = 1
  BY <1>1, <1>2, <1>3 DEF Pair, Has, g
<1>4. CASE l = 2
  <2>1. Len(g) = 1 /\ (k = 1 => g[1] = h[2]) /\ (k = 2 => g[1] = h[1]) /\ k \in {1, 2}
    BY <1>1, <1>2, <1>4
  <2>2. Pair(g)
    BY <1>1, <1>4, <2>1 DEF Pair
  <2>3. \A j : Has(g, j) <=> g[1] = j
    BY <2>1 DEF Has
  <2>4. \A j : Has(h, j) <=> h[1] = j \/ h[2] = j
    BY <1>4 DEF Has
  <2>5. h[1] # h[2]
    BY <1>1, <1>4
  <2>6. \A j : Has(g, j) <=> Has(h, j) /\ j # h[k]
    BY <2>1, <2>3, <2>4, <2>5
  <2> QED BY <1>1, <1>4, <2>1, <2>2, <2>6 DEF g
<1> QED BY <1>1, <1>3, <1>4

FilePair ==
  /\ Pair(held) /\ (Running => PairUsed(fStatTable, fHandles, held))
  /\ \A i \in Files : fTable[i] = "dirty" => Has(held, i)
DirPair == Pair(dheld) /\ (Running => PairUsed(dStatTable, dHandles, dheld))

LEMMA PairInit == Init => FilePair /\ DirPair
<1> SUFFICES ASSUME Init PROVE FilePair /\ DirPair
  OBVIOUS
<1>1. /\ \A i \in Files : fTable[i] = "closed" /\ ~fStatTable[i]
      /\ \A i \in Dirs : ~dStatTable[i]
      /\ DOMAIN fStatTable = Files /\ DOMAIN dStatTable = Dirs
  BY DEF Init
<1> QED BY <1>1, PairEmpty DEF Init, FilePair, DirPair, PairUsed

\* Closing a slot never leaves unwritten data that was not there.
LEMMA CloseClean ==
  ASSUME HandlesTypeOK, NEW h \in Files, fCloseAt(h), NEW i \in Files, fTable'[i] = "dirty"
  PROVE  fTable[i] = "dirty" /\ (~CloseRefused(h) => i # h)
<1>1. CASE CloseRefused(h) /\ UNCHANGED <<fTable, fStatTable, fHandles>>
  BY <1>1
<1>2. CASE ~CloseRefused(h) /\ CloseSlot(h)
  <2>1. PICK p \in Objects : f_close(fTable[h], p) /\ fTable' = [fTable EXCEPT ![h] = p]
    BY <1>2 DEF CloseSlot
  <2>2. p # "dirty"
    BY <2>1 DEF f_close
  <2> QED BY <2>1, <2>2 DEF HandlesTypeOK
<1> QED BY <1>1, <1>2 DEF fCloseAt

LEMMA FilePairStep ==
  MaxHeld <= 2 /\ HandlesTypeOK /\ FilePair /\ [Next]_vars => FilePair'
<1> SUFFICES ASSUME MaxHeld <= 2, HandlesTypeOK, FilePair, [Next]_vars PROVE FilePair'
  OBVIOUS
<1>0. /\ held \in Seq(0 .. MaxFiles - 1) /\ Len(held) \in Nat /\ MaxFiles \in Nat
      /\ fStatTable \in [0 .. MaxFiles - 1 -> BOOLEAN] /\ fTable \in [Files -> Objects]
      /\ MaxHeld \in Nat
  BY Limits, LenProperties DEF HandlesTypeOK, Files
<1>1. CASE fOpen
  <2>1. PICK i \in Files, o \in {"clean", "dirty"} :
          /\ findUnusedFileSlot(i)
          /\ fTable' = [fTable EXCEPT ![i] = o]
          /\ fStatTable' = [fStatTable EXCEPT ![i] = TRUE]
          /\ held' = Append(held, i)
    BY <1>1 DEF fOpen
  <2>2. /\ Pair(held) /\ PairUsed(fStatTable, fHandles, held) /\ Len(held) < 2
        /\ fHandles' = fHandles + 1
    BY <1>0, <1>1 DEF fOpen, FilePair
  <2>3. i \in 0 .. MaxFiles - 1 /\ ~fStatTable[i] /\ \A j \in 0 .. i - 1 : fStatTable[j]
    BY <2>1 DEF findUnusedFileSlot, Files
  <2>4. /\ Pair(Append(held, i))
        /\ PairUsed([fStatTable EXCEPT ![i] = TRUE], fHandles + 1, Append(held, i))
        /\ \A j : Has(Append(held, i), j) <=> Has(held, j) \/ j = i
    <3> DEFINE m == MaxFiles  used == fStatTable  h == held  n == fHandles
    <3>1. /\ m \in Nat /\ used \in [0 .. m - 1 -> BOOLEAN] /\ h \in Seq(0 .. m - 1)
          /\ Pair(h) /\ PairUsed(used, n, h) /\ Len(h) < 2
          /\ i \in 0 .. m - 1 /\ ~used[i] /\ \A j \in 0 .. i - 1 : used[j]
      BY <1>0, <2>2, <2>3
    <3> HIDE DEF m, used, h, n
    <3>2. /\ Pair(Append(h, i)) /\ PairUsed([used EXCEPT ![i] = TRUE], n + 1, Append(h, i))
          /\ \A j : Has(Append(h, i), j) <=> Has(h, j) \/ j = i
      BY <3>1, PairOpen, Zenon
    <3> QED BY <3>2 DEF m, used, h, n
  <2>5. \A j \in Files : fTable'[j] = "dirty" => j = i \/ fTable[j] = "dirty"
    BY <1>0, <2>1
  <2>6. /\ Pair(held') /\ PairUsed(fStatTable', fHandles', held')
        /\ \A j : Has(held', j) <=> Has(held, j) \/ j = i
    BY <2>1, <2>2, <2>4
  <2> QED BY <2>5, <2>6 DEF FilePair
<1>2. CASE fClose
  <2>1. PICK k \in 1 .. Len(held) : fCloseAt(held[k]) /\ held' = RemoveAt(held, k)
    BY <1>2 DEF fClose
  <2> DEFINE h == held[k]
  <2>2. Pair(held) /\ PairUsed(fStatTable, fHandles, held)
    BY <1>2 DEF fClose, FilePair
  <2>3. /\ Pair(held') /\ Len(held) > 0 /\ h <= Len(held) /\ h \in Files
        /\ Len(held') = Len(held) - 1
        /\ \A j : Has(held', j) <=> Has(held, j) /\ j # h
    BY <1>0, <2>1, <2>2, PairClose DEF Files
  <2> HIDE DEF h
  <2>4. fCloseAt(h)
    BY <2>1 DEF h
  <2>5. fHandles = Len(held) /\ ~CloseRefused(h)
    BY <1>0, <2>2, <2>3 DEF PairUsed, CloseRefused, isFileHandleValid
  <2>6. fStatTable' = [fStatTable EXCEPT ![h] = FALSE] /\ fHandles' = fHandles - 1
    BY <2>4, <2>5 DEF fCloseAt, CloseSlot
  <2>7. \A j \in Files : fTable'[j] = "dirty" => fTable[j] = "dirty" /\ j # h
    BY <2>3, <2>4, <2>5, CloseClean
  <2>8. \A j \in 0 .. MaxFiles - 1 : fStatTable'[j] <=> Has(held', j)
    BY <1>0, <2>2, <2>3, <2>6 DEF PairUsed
  <2>9. DOMAIN fStatTable' = 0 .. MaxFiles - 1
    BY <1>0, <2>6
  <2>10. PairUsed(fStatTable', fHandles', held')
    BY <2>3, <2>5, <2>6, <2>8, <2>9 DEF PairUsed
  <2> QED BY <2>3, <2>7, <2>10 DEF FilePair
<1>3. ASSUME UNCHANGED <<held, fHandles, fStatTable>>, Running' => Running,
             \A i \in Files : fTable'[i] = "dirty" => fTable[i] = "dirty" \/ Has(held, i)
      PROVE  FilePair'
  BY <1>3 DEF FilePair
<1>4. CASE fWrite \/ fSync
  <2>1. PICK k \in 1 .. Len(held) : \E o : fTable' = [fTable EXCEPT ![held[k]] = o]
    BY <1>4 DEF fWrite, fSync
  <2>2. PICK o : fTable' = [fTable EXCEPT ![held[k]] = o]
    BY <2>1
  <2>3. Has(held, held[k])
    BY DEF Has
  <2>4. \A i \in Files : fTable'[i] = "dirty" => fTable[i] = "dirty" \/ i = held[k]
    BY <1>0, <2>2
  <2> QED BY <1>3, <1>4, <2>3, <2>4 DEF fWrite, fSync, Running
<1>5. CASE fOpenFails \/ fOpenDir \/ fOpenDirFails \/ fCloseDir \/ VolumeGone
  <2>1. \A i \in Files : fTable'[i] = "dirty" => fTable[i] = "dirty"
    BY <1>0, <1>5 DEF fOpenFails, fOpenDir, fOpenDirFails, fCloseDir, VolumeGone, Gone,
         files
  <2> QED BY <1>3, <1>5, <2>1 DEF fOpenFails, fOpenDir, fOpenDirFails, fCloseDir,
         VolumeGone, files,
                                  Running
<1>6. CASE StartDeinit \/ DeinitFile \/ DeinitDrives
  <2>1. ~Running' /\ held' = held
    BY <1>6, Limits DEF StartDeinit, DeinitFile, DeinitDrives, Running, Files, files
  <2>2. \A i \in Files : fTable'[i] = "dirty" => fTable[i] = "dirty"
    <3>1. CASE DeinitFile
      BY <3>1, CloseClean DEF DeinitFile
    <3>2. CASE StartDeinit \/ DeinitDrives
      BY <1>0, <3>2 DEF StartDeinit, DeinitDrives, Gone, files
    <3> QED BY <1>6, <3>1, <3>2
  <2> QED BY <2>1, <2>2 DEF FilePair
<1>7. CASE UNCHANGED vars
  BY <1>3, <1>7 DEF vars, files, Running
<1> QED BY <1>1, <1>2, <1>4, <1>5, <1>6, <1>7 DEF Next

LEMMA DirPairStep ==
  MaxHeld <= 2 /\ HandlesTypeOK /\ DirPair /\ [Next]_vars => DirPair'
<1> SUFFICES ASSUME MaxHeld <= 2, HandlesTypeOK, DirPair, [Next]_vars PROVE DirPair'
  OBVIOUS
<1>0. /\ dheld \in Seq(0 .. MaxDirs - 1) /\ Len(dheld) \in Nat /\ MaxDirs \in Nat
      /\ dStatTable \in [0 .. MaxDirs - 1 -> BOOLEAN] /\ MaxHeld \in Nat
  BY Limits, LenProperties DEF HandlesTypeOK, Dirs
<1>1. CASE fOpenDir
  <2>1. PICK i \in Dirs :
          /\ findUnusedDirSlot(i)
          /\ dStatTable' = [dStatTable EXCEPT ![i] = TRUE]
          /\ dheld' = Append(dheld, i)
    BY <1>1 DEF fOpenDir
  <2>2. /\ Pair(dheld) /\ PairUsed(dStatTable, dHandles, dheld) /\ Len(dheld) < 2
        /\ dHandles' = dHandles + 1
    BY <1>0, <1>1 DEF fOpenDir, DirPair
  <2>3. i \in 0 .. MaxDirs - 1 /\ ~dStatTable[i] /\ \A j \in 0 .. i - 1 : dStatTable[j]
    BY <2>1 DEF findUnusedDirSlot, Dirs
  <2>4. Pair(dheld') /\ PairUsed(dStatTable', dHandles', dheld')
    BY <1>0, <2>1, <2>2, <2>3, PairOpen
  <2> QED BY <2>4 DEF DirPair
<1>2. CASE fCloseDir
  <2>1. PICK k \in 1 .. Len(dheld) : fCloseDirAt(dheld[k]) /\ dheld' = RemoveAt(dheld, k)
    BY <1>2 DEF fCloseDir
  <2> DEFINE h == dheld[k]
  <2>2. Pair(dheld) /\ PairUsed(dStatTable, dHandles, dheld)
    BY <1>2 DEF fCloseDir, DirPair
  <2>3. /\ Pair(dheld') /\ Len(dheld) > 0 /\ h <= Len(dheld) /\ h \in Dirs
        /\ Len(dheld') = Len(dheld) - 1
        /\ \A j : Has(dheld', j) <=> Has(dheld, j) /\ j # h
    BY <1>0, <2>1, <2>2, PairClose DEF Dirs
  <2> HIDE DEF h
  <2>4. fCloseDirAt(h)
    BY <2>1 DEF h
  <2>5. dHandles = Len(dheld) /\ dHandles # 0 /\ isDirHandleValid(h)
    BY <1>0, <2>2, <2>3 DEF PairUsed, isDirHandleValid
  <2>6. dStatTable' = [dStatTable EXCEPT ![h] = FALSE] /\ dHandles' = dHandles - 1
    BY <2>4, <2>5 DEF fCloseDirAt
  <2>7. \A j \in 0 .. MaxDirs - 1 : dStatTable'[j] <=> Has(dheld', j)
    BY <1>0, <2>2, <2>3, <2>6 DEF PairUsed
  <2>8. DOMAIN dStatTable' = 0 .. MaxDirs - 1
    BY <1>0, <2>6
  <2>9. PairUsed(dStatTable', dHandles', dheld')
    BY <2>3, <2>5, <2>6, <2>7, <2>8 DEF PairUsed
  <2> QED BY <2>3, <2>9 DEF DirPair
<1>3. ASSUME UNCHANGED <<dheld, dHandles, dStatTable>>, Running' => Running
      PROVE  DirPair'
  BY <1>3 DEF DirPair
<1>4. CASE fOpen \/ fOpenFails \/ fWrite \/ fSync \/ fClose \/ fOpenDirFails \/ VolumeGone
  BY <1>3, <1>4 DEF fOpen, fOpenFails, fWrite, fSync, fClose, fOpenDirFails, VolumeGone,
       dirs,
                    Running
<1>5. CASE StartDeinit \/ DeinitFile \/ DeinitDrives
  <2>1. ~Running' /\ dheld' = dheld
    BY <1>5, Limits DEF StartDeinit, DeinitFile, DeinitDrives, Running, Files, dirs
  <2> QED BY <2>1 DEF DirPair
<1>6. CASE UNCHANGED vars
  BY <1>3, <1>6 DEF vars, dirs, Running
<1> QED BY <1>1, <1>2, <1>4, <1>5, <1>6 DEF Next

LEMMA PairAlways == MaxHeld <= 2 => (Spec => [](HandlesTypeOK /\ FilePair /\ DirPair))
<1> SUFFICES ASSUME MaxHeld <= 2 PROVE Spec => [](HandlesTypeOK /\ FilePair /\ DirPair)
  OBVIOUS
<1>1. FilePair /\ DirPair /\ HandlesTypeOK /\ [Next]_vars => (FilePair /\ DirPair)'
  BY FilePairStep, DirPairStep
<1> QED BY <1>1, PairInit, HandlesTypeCorrect, PTL DEF Spec

-----------------------------------------------------------------------------
(* What both have in common.                                               *)

\* While the server runs, no slot has two owners, and every handle is one of
\* those that the counter admits.
Own(used, n, h) ==
  /\ n = Len(h) /\ \A k \in 1 .. Len(h) : used[h[k]] /\ h[k] <= n
  /\ \A j, k \in 1 .. Len(h) : h[j] = h[k] => j = k
Owned == Running => Own(fStatTable, fHandles, held) /\ Own(dStatTable, dHandles, dheld)

LEMMA OwnedAlways ==
  ASSUME Nested \/ MaxHeld <= 2
  PROVE  Spec => []Owned
<1>0. HandlesTypeOK => /\ Len(held) \in Nat /\ Len(dheld) \in Nat
                       /\ \A k \in 1 .. Len(held) : held[k] \in Files
                       /\ \A k \in 1 .. Len(dheld) : dheld[k] \in Dirs
  BY LenProperties, ElementOfSeq DEF HandlesTypeOK
<1>1. CASE Nested
  <2>1. HandlesTypeOK /\ FileStack /\ DirStack => Owned
    <3> SUFFICES ASSUME HandlesTypeOK, FileStack, DirStack, Running
                 PROVE  Own(fStatTable, fHandles, held) /\ Own(dStatTable, dHandles, dheld)
      BY DEF Owned
    <3>1. Own(fStatTable, fHandles, held)
      BY <1>0 DEF FileStack, Own
    <3>2. Own(dStatTable, dHandles, dheld)
      BY <1>0 DEF DirStack, Own
    <3> QED BY <3>1, <3>2
  <2>2. Spec => [](HandlesTypeOK /\ FileStack /\ DirStack)
    BY <1>1, StackAlways
  <2> QED BY <2>1, <2>2, PTL
<1>2. CASE MaxHeld <= 2
  <2>1. HandlesTypeOK /\ FilePair /\ DirPair => Owned
    <3> SUFFICES ASSUME HandlesTypeOK, FilePair, DirPair, Running
                 PROVE  Own(fStatTable, fHandles, held) /\ Own(dStatTable, dHandles, dheld)
      BY DEF Owned
    <3>0. DOMAIN fStatTable = Files /\ DOMAIN dStatTable = Dirs
      BY DEF HandlesTypeOK
    <3>1. Own(fStatTable, fHandles, held)
      BY <1>0, <3>0 DEF FilePair, Pair, PairUsed, Has, Own
    <3>2. Own(dStatTable, dHandles, dheld)
      BY <1>0, <3>0 DEF DirPair, Pair, PairUsed, Has, Own
    <3> QED BY <3>1, <3>2
  <2>2. Spec => [](HandlesTypeOK /\ FilePair /\ DirPair)
    BY <1>2, PairAlways
  <2> QED BY <2>1, <2>2, PTL
<1> QED BY <1>1, <1>2

\* Callers that close last what they opened first, or that keep at most two
\* things open, never share a slot, for any number of slots.
THEOREM HandleExclusiveHolds ==
  ASSUME Nested \/ MaxHeld <= 2
  PROVE  Spec => []HandleExclusive
<1>1. Owned => HandleExclusive
  BY DEF Owned, Own, HandleExclusive
<1> QED BY <1>1, OwnedAlways, PTL

\* Under the same discipline the check against the counter refuses no handle
\* that is open.
THEOREM HeldIsValidHolds ==
  ASSUME Nested \/ MaxHeld <= 2
  PROVE  Spec => []HeldIsValid
<1>1. HandlesTypeOK /\ Owned => HeldIsValid
  <2> SUFFICES ASSUME HandlesTypeOK, Owned, Running PROVE HeldIsValid
    BY DEF HeldIsValid
  <2>1. Len(held) \in Nat /\ Len(dheld) \in Nat
    BY LenProperties DEF HandlesTypeOK
  <2> QED BY <2>1 DEF Owned, Own, HeldIsValid, isFileHandleValid, isDirHandleValid
<1> QED BY <1>1, OwnedAlways, HandlesTypeCorrect, PTL

-----------------------------------------------------------------------------
(* fsDeinit.                                                               *)

\* With at most two files open, closing by index ascends as fast as the counter
\* falls, and the handle check never stops it before the last open file.
Draining ==
  deinit \in 0 .. MaxFiles =>
    /\ fHandles = IF deinit < Len(held) THEN Len(held) - deinit ELSE 0
    /\ \A i \in Files : fTable[i] = "dirty" => deinit <= i

\* The files are in the first slots.
FirstSlots ==
  /\ Len(held) <= 2 /\ (Running => fHandles = Len(held))
  /\ \A i \in Files : fTable[i] = "dirty" => i < Len(held)

LEMMA DrainStep ==
  ASSUME HandlesTypeOK, FirstSlots, Draining, [Next]_vars
  PROVE  Draining'
<1> USE Limits
<1>0. Len(held) \in 0 .. 2 /\ deinit \in -1 .. MaxFiles + 1
  <2>1. held \in Seq(Files) /\ deinit \in -1 .. MaxFiles + 1
    BY DEF HandlesTypeOK
  <2>2. Len(held) \in Nat
    BY <2>1, LenProperties
  <2>3. Len(held) <= 2 /\ \A x \in Nat : x <= 2 => x \in 0 .. 2
    BY DEF FirstSlots
  <2> QED BY <2>1, <2>2, <2>3
<1>1. CASE fOpen \/ fOpenFails \/ fWrite \/ fSync \/ fClose \/ fOpenDir \/ fOpenDirFails \/ fCloseDir
  <2>1. deinit' = -1
    BY <1>1 DEF fOpen, fOpenFails, fWrite, fSync, fClose, fOpenDir, fOpenDirFails,
         fCloseDir, Running
  <2> QED BY <2>1 DEF Draining
<1>2. CASE VolumeGone
  BY <1>2 DEF VolumeGone, Gone, Draining, HandlesTypeOK
<1>3. CASE StartDeinit
  <2>1. fHandles' = Len(held') /\ deinit' = 0 /\ held' = held
    BY <1>3 DEF StartDeinit, files, FirstSlots, Running
  <2>2. \A i \in Files : 0 <= i
    BY DEF Files
  <2> QED BY <1>0, <2>1, <2>2 DEF Draining
<1>4. CASE DeinitFile
  <2>1. /\ deinit \in Files /\ deinit \in 0 .. MaxFiles /\ fCloseAt(deinit)
        /\ deinit' = deinit + 1 /\ held' = held
    BY <1>4 DEF DeinitFile, Files
  <2>2. fHandles = IF deinit < Len(held) THEN Len(held) - deinit ELSE 0
    BY <2>1 DEF Draining
  <2>3. CloseRefused(deinit) <=> ~(deinit < Len(held))
    <3>1. CloseRefused(deinit) <=> fHandles = 0 \/ ~(deinit <= fHandles)
      BY DEF CloseRefused, isFileHandleValid
    <3>2. CASE deinit < Len(held)
      <4>1. deinit \in Nat /\ fHandles = Len(held) - deinit
        BY <2>1, <2>2, <3>2 DEF Files
      <4>2. \A x \in 0 .. 2, y \in Nat : y < x => y <= 1 /\ x - y # 0 /\ y <= x - y
        OBVIOUS
      <4> QED BY <1>0, <3>1, <3>2, <4>1, <4>2
    <3>3. CASE ~(deinit < Len(held))
      BY <2>2, <3>1, <3>3
    <3> QED BY <3>2, <3>3
  <2>4. fHandles' = IF deinit + 1 < Len(held) THEN Len(held) - (deinit + 1) ELSE 0
    BY <1>0, <2>1, <2>2, <2>3 DEF fCloseAt, CloseSlot, Files
  <2>5. ASSUME NEW i \in Files, fTable'[i] = "dirty" PROVE deinit + 1 <= i
    <3>1. fTable[i] = "dirty" /\ (~CloseRefused(deinit) => i # deinit)
      BY <2>1, <2>5, CloseClean
    <3>2. i < Len(held) /\ deinit <= i
      BY <2>1, <3>1 DEF FirstSlots, Draining
    <3> QED BY <1>0, <2>1, <2>3, <3>1, <3>2 DEF Files
  <2> QED BY <2>1, <2>4, <2>5 DEF Draining
<1>5. CASE DeinitDrives
  <2>1. deinit' = MaxFiles + 1
    BY <1>5 DEF DeinitDrives
  <2> QED BY <2>1 DEF Draining
<1>6. CASE UNCHANGED vars
  BY <1>6 DEF vars, files, Draining
<1> QED BY <1>1, <1>2, <1>3, <1>4, <1>5, <1>6 DEF Next

\* When callers keep at most two files open and these are in the first slots, no
\* file still has unwritten data when fsDeinit unmounts the drives; a third
\* file would stay open.
THEOREM DeinitFlushesHolds ==
  ASSUME MaxHeld <= 2
  PROVE  Spec => []DeinitFlushes
<1>1. Init => (Packed => Draining)
  BY DEF Init, Draining
<1>2. HandlesTypeOK /\ FilePair /\ (Packed => Draining) /\ [Next]_vars => (Packed => Draining)'
  <2> SUFFICES ASSUME HandlesTypeOK, FilePair, Packed => Draining, [Next]_vars, Packed'
               PROVE  Draining'
    OBVIOUS
  <2>1. CASE held' = held
    <3>1. Packed /\ Draining
      BY <2>1 DEF Packed
    <3>2. FirstSlots
      BY <3>1 DEF FilePair, Pair, PairUsed, Has, Packed, FirstSlots
    <3> QED BY <3>1, <3>2, DrainStep
  <2>2. CASE held' # held
    <3>1. deinit' = -1
      BY <2>2 DEF Next, fOpen, fClose, fOpenFails, fWrite, fSync, fOpenDir,
           fOpenDirFails, fCloseDir,
                  VolumeGone, StartDeinit, DeinitFile, DeinitDrives, Running, files, vars
    <3> QED BY <3>1 DEF Draining
  <2> QED BY <2>1, <2>2
<1>3. HandlesTypeOK /\ (Packed => Draining) => DeinitFlushes
  BY Limits DEF Draining, DeinitFlushes, Files
<1>4. Spec => [](HandlesTypeOK /\ FilePair /\ DirPair)
  BY PairAlways
<1> QED BY <1>1, <1>2, <1>3, <1>4, PTL DEF Spec

\* Slots and counters stay in range, no slot has two owners, no open handle is
\* refused and no file stays unflushed, for callers that keep at most two files
\* and two directories open, in any order.
THEOREM HandlesInvHolds ==
  ASSUME MaxHeld <= 2
  PROVE  Spec => []HandlesInv
<1>1. Spec => []HandlesTypeOK
  BY HandlesTypeCorrect
<1>2. Spec => []HandleExclusive
  BY HandleExclusiveHolds
<1>3. Spec => []HeldIsValid
  BY HeldIsValidHolds
<1>4. Spec => []DeinitFlushes
  BY DeinitFlushesHolds
<1> QED
  BY <1>1, <1>2, <1>3, <1>4, PTL DEF HandlesInv

-----------------------------------------------------------------------------
(* Browser: the steps of the server below it.                              *)

\* Whatever the menus and the selector do, the file server makes a step of
\* Handles or none: they open and close directories only as its clients.
LEMMA UsesHandles == BrowserSpec => Spec
<1>1. BrowserInit => Init
  BY DEF BrowserInit
<1>2. [BrowserNext]_bvars => [Next]_vars
  <2> SUFFICES ASSUME [BrowserNext]_bvars PROVE [Next]_vars
    OBVIOUS
  <2> DEFINE Stays == UNCHANGED vars
  <2>1. CASE OtherEntry
    BY <2>1 DEF OtherEntry
  <2>2. CASE Pull
    BY <2>2 DEF Pull, Next
  <2>3. CASE IsDir \/ OpenParent \/ OpenList
    BY <2>3 DEF IsDir, OpenParent, OpenList, OpenPath, Next
  <2>4. CASE WasDir \/ ReadDone \/ ReadFails
    BY <2>4 DEF WasDir, ReadDone, ReadFails, CloseDir, Next
  <2>5. CASE panicMsg
    BY <2>5 DEF panicMsg, Next
  <2>6. CASE menuProcess \/ menuFileSelector \/ Insert \/ Cancel \/ IsFile \/ ListRoot \/ ReadChunk
    BY <2>6 DEF menuProcess, menuFileSelector, Insert, Cancel, IsFile, ListRoot, ReadChunk,
                handles, vars
  <2>7. CASE Keys \/ Cancelled \/ Done \/ UNCHANGED bvars
    BY <2>7 DEF Keys, MoveIndex, Choose, ChooseEmpty, Back, Cancelled, Done, handles,
         vars, bvars
  <2> QED BY <2>1, <2>2, <2>3, <2>4, <2>5, <2>6, <2>7 DEF BrowserNext, Reading
<1> QED BY <1>1, <1>2, PTL DEF BrowserSpec, Spec

-----------------------------------------------------------------------------
(* Lists.                                                                  *)

LEMMA PathTypes ==
  /\ Root \notin Paths /\ NoName \notin Paths /\ IsFiniteSet(Paths)
  /\ Folders \subseteq Paths /\ Fitting \subseteq Paths
  /\ \A p \in Paths : /\ Parent[p] \in Folders \cup {Root} /\ Drive[p] \in Paths
                      /\ Parent[p] = Root => Drive[p] = p
                      /\ Parent[p] # Root => Parent[p] \in Paths /\ Drive[p] = Drive[Parent[p]]
BY PathsAssumption

\* How many paths of S come before p.
Rank(S, p) == Cardinality({q \in S : Place[q] < Place[p]})

LEMMA RankRises ==
  ASSUME NEW S \in SUBSET Paths, NEW p \in S, NEW q \in S, Place[p] < Place[q]
  PROVE  Rank(S, p) \in Nat /\ Rank(S, q) \in Nat /\ Rank(S, p) < Rank(S, q)
<1> DEFINE P == {r \in S : Place[r] < Place[p]}
           Q == {r \in S : Place[r] < Place[q]}
<1>1. IsFiniteSet(S)
  BY PathTypes, FS_Subset
<1>2. \A r \in S : Place[r] \in Nat
  BY PathsAssumption
<1>3. P \subseteq Q /\ p \in Q /\ p \notin P
  BY <1>2
<1>4. IsFiniteSet(P) /\ IsFiniteSet(Q)
  BY <1>1, FS_Subset
<1> HIDE DEF P, Q
<1>5. Cardinality(P) \in Nat /\ Cardinality(Q) \in Nat
  BY <1>4, FS_CardinalityType
<1>6. Cardinality(P) <= Cardinality(Q) /\ (Cardinality(Q) = Cardinality(P) => Q = P)
  BY <1>3, <1>4, FS_Subset
<1>7. Cardinality(P) < Cardinality(Q)
  BY <1>3, <1>5, <1>6
<1> QED BY <1>5, <1>7 DEF Rank, P, Q

\* Each number below the number of paths is the rank of one of them.
LEMMA RankIsOnto ==
  ASSUME NEW S \in SUBSET Paths
  PROVE  /\ IsFiniteSet(S) /\ Cardinality(S) \in Nat
         /\ \A p \in S : Rank(S, p) \in 0 .. Cardinality(S) - 1
         /\ \A p, q \in S : Rank(S, p) = Rank(S, q) => p = q
         /\ \A i \in 0 .. Cardinality(S) - 1 : \E p \in S : Rank(S, p) = i
<1> DEFINE n == Cardinality(S)
           rank == [p \in S |-> Rank(S, p)]
<1>1. IsFiniteSet(S) /\ n \in Nat
  BY PathTypes, FS_Subset, FS_CardinalityType
<1>2. ASSUME NEW p \in S PROVE Rank(S, p) \in 0 .. n - 1
  <2> DEFINE P == {r \in S : Place[r] < Place[p]}
  <2>1. P \subseteq S \ {p}
    BY PathsAssumption
  <2>2. IsFiniteSet(S \ {p}) /\ Cardinality(S \ {p}) = n - 1
    BY <1>1, FS_RemoveElement
  <2> HIDE DEF P
  <2>3. IsFiniteSet(P) /\ Cardinality(P) <= n - 1
    BY <2>1, <2>2, FS_Subset
  <2>4. Cardinality(P) \in Nat
    BY <2>3, FS_CardinalityType
  <2>5. Cardinality(P) \in 0 .. n - 1
    BY <1>1, <2>3, <2>4
  <2> QED BY <2>5 DEF Rank, P
<1>3. ASSUME NEW p \in S, NEW q \in S, Rank(S, p) = Rank(S, q) PROVE p = q
  <2>1. Place[p] \in Nat /\ Place[q] \in Nat /\ (Place[p] = Place[q] => p = q)
    BY PathsAssumption
  <2>2. ~(Place[p] < Place[q])
    BY <1>3, RankRises
  <2>3. ~(Place[q] < Place[p])
    BY <1>3, RankRises
  <2> QED BY <2>1, <2>2, <2>3
<1>4. rank \in Injection(S, 0 .. n - 1)
  <2>1. rank \in [S -> 0 .. n - 1]
    BY <1>2
  <2>2. \A p, q \in S : rank[p] = rank[q] => p = q
    BY <1>3
  <2> HIDE DEF rank
  <2> QED BY <2>1, <2>2 DEF Injection, IsInjective
<1>5. IsFiniteSet(0 .. n - 1) /\ Cardinality(0 .. n - 1) = n
  BY <1>1, FS_Interval
<1>6. rank \in Surjection(S, 0 .. n - 1)
  <2> HIDE DEF rank
  <2> QED BY <1>4, <1>5, FS_Injection
<1>7. \A i \in 0 .. n - 1 : \E p \in S : Rank(S, p) = i
  BY <1>6 DEF Surjection
<1> QED BY <1>1, <1>2, <1>3, <1>7

\* The list shows every path of S once.
LEMMA SortedShowsAll ==
  ASSUME NEW S \in SUBSET Paths
  PROVE  /\ IsFiniteSet(S) /\ Cardinality(S) \in Nat
         /\ Sorted(S) \in Seq(Paths) /\ Len(Sorted(S)) = Cardinality(S)
         /\ DOMAIN Sorted(S) = 1 .. Cardinality(S)
         /\ \A i \in 1 .. Cardinality(S) : Sorted(S)[i] \in S
         /\ \A p \in S : \E i \in 1 .. Cardinality(S) : Sorted(S)[i] = p
<1> DEFINE n == Cardinality(S)
           At(i) == CHOOSE p \in S : Rank(S, p) = i - 1
<1>1. n \in Nat /\ IsFiniteSet(S)
  BY RankIsOnto
<1>2. ASSUME NEW i \in 1 .. n PROVE At(i) \in S /\ Rank(S, At(i)) = i - 1
  <2>1. i - 1 \in 0 .. n - 1
    BY <1>1
  <2>2. \E p \in S : Rank(S, p) = i - 1
    BY <2>1, RankIsOnto
  <2> QED BY <2>2
<1>3. Sorted(S) = [i \in 1 .. n |-> At(i)]
  BY DEF Sorted, Rank
<1>4. ASSUME NEW p \in S PROVE \E i \in 1 .. n : At(i) = p
  <2>1. Rank(S, p) \in 0 .. n - 1
    BY RankIsOnto
  <2>2. Rank(S, p) + 1 \in 1 .. n /\ Rank(S, p) + 1 - 1 = Rank(S, p)
    BY <1>1, <2>1
  <2>3. At(Rank(S, p) + 1) = p
    BY <1>2, <2>2, RankIsOnto
  <2> QED BY <2>2, <2>3
<1> HIDE DEF At
<1>5. \A i \in 1 .. n : At(i) \in Paths
  BY <1>2
<1>6. [i \in 1 .. n |-> At(i)] \in Seq(Paths)
  BY <1>1, <1>5, IsASeq
<1>7. Len(Sorted(S)) = n
  BY <1>1, <1>3
<1> QED BY <1>1, <1>2, <1>3, <1>4, <1>6, <1>7

-----------------------------------------------------------------------------
(* The menus.                                                              *)

\* How deep a menu is at most.
Levels == [DOMAIN Menus -> 0 .. MENU_MAX_DEPTH]
Rising(level) ==
  \A m \in DOMAIN Menus : \A i \in DOMAIN Menus[m] :
    Entry(m, i) # 0 => level[m] < level[Entry(m, i)]
Level == CHOOSE level \in Levels : Rising(level)

\* The stack has entries of menus on it, and room for one more wherever there
\* is a submenu to enter.
Trail ==
  /\ curr_menu \in DOMAIN Menus /\ cursor \in DOMAIN Menus[curr_menu]
  /\ prev \in Seq([menu : DOMAIN Menus, index : Nat \ {0}])
  /\ \A k \in DOMAIN prev :
       prev[k].index \in DOMAIN Menus[prev[k].menu] /\ k - 1 <= Level[prev[k].menu]
  /\ Len(prev) <= Level[curr_menu]
  /\ TrailLeads

LEMMA MenuTypes ==
  /\ Len(Menus) \in Nat /\ DOMAIN Menus = 1 .. Len(Menus) /\ Top \in DOMAIN Menus
  /\ \A m \in DOMAIN Menus :
       /\ DOMAIN Menus[m] = 1 .. Len(Menus[m]) /\ Len(Menus[m]) \in Nat /\ Len(Menus[m]) > 0
       /\ \A i \in DOMAIN Menus[m] : Entry(m, i) # 0 => Entry(m, i) \in DOMAIN Menus
<1> DEFINE T == Seq(0 .. Len(Menus)) \ {<< >>}
<1>1. Menus \in Seq(T) /\ Menus # << >>
  BY MenusAssumption
<1>2. Len(Menus) \in Nat \ {0} /\ DOMAIN Menus = 1 .. Len(Menus)
  <2> HIDE DEF T
  <2> QED BY <1>1, LenProperties, EmptySeq
<1>3. ASSUME NEW m \in DOMAIN Menus
      PROVE  /\ DOMAIN Menus[m] = 1 .. Len(Menus[m]) /\ Len(Menus[m]) \in Nat /\ Len(Menus[m]) > 0
             /\ \A i \in DOMAIN Menus[m] : Entry(m, i) # 0 => Entry(m, i) \in DOMAIN Menus
  <2>1. Menus[m] \in T
    <3> HIDE DEF T
    <3> QED BY <1>1, <1>2, ElementOfSeq
  <2>2. Menus[m] \in Seq(0 .. Len(Menus)) /\ Menus[m] # << >>
    BY <2>1
  <2>3. DOMAIN Menus[m] = 1 .. Len(Menus[m]) /\ Len(Menus[m]) \in Nat \ {0}
    BY <2>2, LenProperties, EmptySeq
  <2>4. \A i \in DOMAIN Menus[m] : Menus[m][i] \in 0 .. Len(Menus)
    BY <2>2, <2>3, ElementOfSeq
  <2> QED BY <1>2, <2>3, <2>4 DEF Entry
<1> QED BY <1>2, <1>3 DEF Top

LEMMA LevelRises ==
  /\ \A m \in DOMAIN Menus : Level[m] \in 0 .. MENU_MAX_DEPTH
  /\ \A m \in DOMAIN Menus : \A i \in DOMAIN Menus[m] :
       Entry(m, i) # 0 => Level[m] < Level[Entry(m, i)]
  /\ MENU_MAX_DEPTH \in Nat
<1>1. \E level \in Levels : Rising(level)
  BY MenusAssumption DEF Levels, Rising
<1>2. Level \in Levels /\ Rising(Level)
  BY <1>1 DEF Level
<1> QED BY <1>2, MenusAssumption DEF Levels, Rising

LEMMA TrailInit == BrowserInit => Trail
<1> SUFFICES ASSUME BrowserInit PROVE Trail
  OBVIOUS
<1>1. curr_menu = Top /\ cursor = 1 /\ prev = << >>
  BY DEF BrowserInit
<1>2. << >> \in Seq([menu : DOMAIN Menus, index : Nat \ {0}]) /\ Len(<< >>) = 0
      /\ DOMAIN << >> = {}
  BY EmptySeq
<1> QED BY <1>1, <1>2, MenuTypes, LevelRises DEF Trail, TrailLeads

\* What the stack looks like when nothing is on it.
LEMMA TrailTop ==
  ASSUME curr_menu' = Top, cursor' = 1, prev' = << >>
  PROVE  Trail'
<1>1. << >> \in Seq([menu : DOMAIN Menus, index : Nat \ {0}]) /\ Len(<< >>) = 0
      /\ DOMAIN << >> = {}
  BY EmptySeq
<1> QED BY <1>1, MenuTypes, LevelRises DEF Trail, TrailLeads

\* A submenu is entered: the stack is not full.
LEMMA TrailEnter ==
  ASSUME Trail, Entry(curr_menu, cursor) # 0, Enter(Entry(curr_menu, cursor))
  PROVE  Trail'
<1> DEFINE m == Entry(curr_menu, cursor)
           e == [menu |-> curr_menu, index |-> cursor]
           E == [menu : DOMAIN Menus, index : Nat \ {0}]
           n == Len(prev)
<1>1. /\ curr_menu \in DOMAIN Menus /\ cursor \in DOMAIN Menus[curr_menu]
      /\ cursor \in Nat \ {0} /\ prev \in Seq(E) /\ n \in Nat /\ DOMAIN prev = 1 .. n
  BY MenuTypes, LenProperties DEF Trail
<1>2. m \in DOMAIN Menus /\ Level[curr_menu] < Level[m] /\ Level[m] <= MENU_MAX_DEPTH
      /\ Level[curr_menu] \in Nat /\ Level[m] \in Nat /\ n <= Level[curr_menu]
  BY <1>1, MenuTypes, LevelRises DEF Trail
<1>3. prev' = Append(prev, e) /\ curr_menu' = m /\ cursor' = 1
  BY <1>1, <1>2, LevelRises DEF Enter
<1>4. e \in E
  BY <1>1
<1> HIDE DEF e, E
<1>5. /\ prev' \in Seq(E) /\ Len(prev') = n + 1 /\ DOMAIN prev' = 1 .. n + 1
      /\ \A k \in 1 .. n : prev'[k] = prev[k]
      /\ prev'[n + 1] = e
  BY <1>1, <1>3, <1>4, AppendProperties, LenProperties
<1>6. e.menu = curr_menu /\ e.index = cursor
  BY DEF e
<1>7. ASSUME NEW k \in 1 .. n + 1
      PROVE  /\ prev'[k].index \in DOMAIN Menus[prev'[k].menu]
             /\ k - 1 <= Level[prev'[k].menu]
             /\ Entry(prev'[k].menu, prev'[k].index) = IF k = n + 1 THEN m ELSE prev'[k + 1].menu
  <2>1. CASE k = n + 1
    BY <1>1, <1>2, <1>5, <1>6, <2>1
  <2>2. CASE k # n + 1
    <3>1. k \in 1 .. n /\ k + 1 \in 1 .. n + 1
      BY <1>1, <2>2
    <3>2. /\ prev[k].index \in DOMAIN Menus[prev[k].menu] /\ k - 1 <= Level[prev[k].menu]
          /\ Entry(prev[k].menu, prev[k].index) = IF k = n THEN curr_menu ELSE prev[k + 1].menu
      BY <1>1, <3>1 DEF Trail, TrailLeads
    <3>3. prev'[k + 1].menu = IF k = n THEN curr_menu ELSE prev[k + 1].menu
      BY <1>1, <1>5, <1>6, <3>1
    <3> QED BY <1>5, <2>2, <3>1, <3>2, <3>3
  <2> QED BY <2>1, <2>2
<1>8. Len(prev') <= Level[m]
  BY <1>1, <1>2, <1>5
<1>9. 1 \in DOMAIN Menus[m]
  BY <1>2, MenuTypes
<1> HIDE DEF m, n
<1>10. TrailLeads'
  BY <1>3, <1>5, <1>7 DEF TrailLeads
<1> QED BY <1>2, <1>3, <1>5, <1>7, <1>8, <1>9, <1>10 DEF Trail, E

\* B goes back to the menu the user came from.
LEMMA TrailReturn ==
  ASSUME Trail, Return
  PROVE  Trail'
<1> DEFINE E == [menu : DOMAIN Menus, index : Nat \ {0}]
           n == Len(prev)
<1>1. prev \in Seq(E) /\ prev # << >>
  BY DEF Trail, Return
<1>2. n \in Nat \ {0} /\ DOMAIN prev = 1 .. n /\ \A k \in 1 .. n : prev[k] \in E
  <2> HIDE DEF E
  <2> QED BY <1>1, LenProperties, EmptySeq, ElementOfSeq
<1>3. /\ curr_menu' = prev[n].menu /\ cursor' = prev[n].index
      /\ prev' = SubSeq(prev, 1, n - 1)
  BY DEF Return, Last, Front
<1>4. /\ prev' \in Seq(E) /\ Len(prev') = n - 1 /\ \A k \in 1 .. n - 1 : prev'[k] = prev[k]
  <2>1. \A k \in 1 .. n - 1 : prev[k] \in E
    BY <1>2
  <2> HIDE DEF E
  <2>2. /\ SubSeq(prev, 1, n - 1) \in Seq(E)
        /\ Len(SubSeq(prev, 1, n - 1)) = IF 1 <= n - 1 THEN n - 1 - 1 + 1 ELSE 0
        /\ \A k \in 1 .. n - 1 - 1 + 1 : SubSeq(prev, 1, n - 1)[k] = prev[1 + k - 1]
    BY <1>2, <2>1, SubSeqProperties
  <2> QED BY <1>2, <1>3, <2>2
<1>5. DOMAIN prev' = 1 .. n - 1
  <2> HIDE DEF E
  <2> QED BY <1>4, LenProperties
<1>6. /\ \A k \in 1 .. n : /\ prev[k].index \in DOMAIN Menus[prev[k].menu]
                           /\ k - 1 <= Level[prev[k].menu]
      /\ \A k \in 1 .. n : Entry(prev[k].menu, prev[k].index)
                             = IF k = n THEN curr_menu ELSE prev[k + 1].menu
  BY <1>2 DEF Trail, TrailLeads
<1>7. /\ curr_menu' \in DOMAIN Menus /\ cursor' \in DOMAIN Menus[curr_menu']
      /\ Len(prev') <= Level[curr_menu']
  <2>1. n \in 1 .. n /\ n \in Nat /\ prev[n].menu \in DOMAIN Menus
    BY <1>2
  <2> HIDE DEF n, E
  <2> QED BY <1>3, <1>4, <1>6, <2>1
<1> HIDE DEF n, E
<1>8. \A k \in 1 .. n - 1 :
        /\ prev'[k].index \in DOMAIN Menus[prev'[k].menu] /\ k - 1 <= Level[prev'[k].menu]
        /\ Entry(prev'[k].menu, prev'[k].index) = IF k = n - 1 THEN curr_menu' ELSE prev'[k + 1].menu
  <2> TAKE k \in 1 .. n - 1
  <2>1. k \in 1 .. n /\ k # n /\ k + 1 \in 1 .. n /\ (k = n - 1 <=> k + 1 = n)
        /\ (k # n - 1 => k + 1 \in 1 .. n - 1)
    <3>1. n \in Nat
      BY <1>2
    <3> QED BY <3>1
  <2>2. Entry(prev[k].menu, prev[k].index) = prev[k + 1].menu
    BY <1>6, <2>1
  <2>3. prev'[k] = prev[k] /\ (k # n - 1 => prev'[k + 1] = prev[k + 1])
    BY <1>4, <2>1
  <2>4. k = n - 1 => prev[k + 1].menu = curr_menu'
    BY <1>3, <2>1
  <2>5. prev[k].index \in DOMAIN Menus[prev[k].menu] /\ k - 1 <= Level[prev[k].menu]
    BY <1>6, <2>1
  <2> QED BY <2>2, <2>3, <2>4, <2>5
<1>9. TrailLeads'
  BY <1>4, <1>5, <1>8 DEF TrailLeads
<1> QED BY <1>4, <1>5, <1>7, <1>8, <1>9 DEF Trail, E

LEMMA TrailStep == Trail /\ [BrowserNext]_bvars => Trail'
<1> SUFFICES ASSUME Trail, [BrowserNext]_bvars PROVE Trail'
  OBVIOUS
<1>1. CASE UNCHANGED menu
  BY <1>1 DEF menu, Trail, TrailLeads
<1>2. CASE menuProcess
  <2>1. CASE MoveCursor
    <3> DEFINE n == Len(Menus[curr_menu])
    <3>1. /\ curr_menu' = curr_menu /\ prev' = prev
          /\ cursor' \in {IF cursor = n THEN 1 ELSE cursor + 1, IF cursor = 1 THEN n ELSE cursor - 1}
      BY <2>1 DEF MoveCursor
    <3>2. n \in Nat /\ n > 0 /\ DOMAIN Menus[curr_menu] = 1 .. n /\ cursor \in 1 .. n
      BY MenuTypes DEF Trail
    <3> HIDE DEF n
    <3>3. cursor' \in 1 .. n
      BY <3>1, <3>2
    <3>4. cursor' \in DOMAIN Menus[curr_menu']
      BY <3>1, <3>2, <3>3
    <3> QED BY <3>1, <3>4 DEF Trail, TrailLeads
  <2>2. CASE HomeMenu
    BY <2>2, TrailTop DEF HomeMenu
  <2> QED BY <1>2, <2>1, <2>2, TrailEnter, TrailReturn DEF menuProcess
<1>3. CASE OtherEntry \/ menuFileSelector \/ Pull \/ Insert \/ Cancel \/ panicMsg \/ Cancelled \/ Done
  <2>1. UNCHANGED menu
    BY <1>3 DEF OtherEntry, menuFileSelector, Pull, Insert, Cancel, panicMsg, Cancelled,
         Done, menu
  <2> QED BY <1>1, <2>1
<1>4. CASE Reading
  <2>1. UNCHANGED menu
    BY <1>4 DEF Reading, IsDir, IsFile, OpenParent, WasDir, ListRoot, OpenList,
         ReadChunk, ReadDone,
                ReadFails, menu
  <2> QED BY <1>1, <2>1
<1>5. CASE Keys
  <2>1. UNCHANGED menu
    BY <1>5 DEF Keys, MoveIndex, Choose, ChooseEmpty, Back, menu
  <2> QED BY <1>1, <2>1
<1>6. CASE UNCHANGED bvars
  BY <1>1, <1>6 DEF bvars, menu
<1> QED BY <1>2, <1>3, <1>4, <1>5, <1>6 DEF BrowserNext

-----------------------------------------------------------------------------
(* The selector.                                                           *)

SelectorTypes ==
  /\ pc \in Unlisted \cup {"menu", "browse", "answer", "refused", "panic"}
  /\ request \in Requests
  /\ res_path \in Paths \cup {Root} /\ lastname \in Paths \cup {NoName}
  /\ unread \subseteq Paths /\ dir_buffer \subseteq Paths /\ list \in Seq(Paths)
  /\ index \in Nat \ {0} /\ scroll \in Nat
  /\ card \in Cards \cup {NoCard} /\ changes \in 0 .. MaxCards
  /\ {sdMounted, cancel, astray, lost} \subseteq BOOLEAN
  /\ sdMounted => card \in Cards

\* The selector has a directory open where it reads one, and only there.
DirHeld ==
  /\ pc \in {"wasDir", "read", "close"} => Len(dheld) = 1
  /\ pc \notin {"wasDir", "read", "close", "menu"} => dheld = << >>

\* Something is there, as far as anybody can know.
Known(p) == Here(p) \/ lost

\* A caller that did not allow the root is on the card, and what is read is a
\* directory.
PathOK ==
  /\ pc # "menu" /\ ~request.allow_root /\ ~astray => res_path # Root /\ Drive[res_path] = Sdmc
  /\ pc = "parent" => Opens(res_path) \/ lost
  /\ pc \in {"read", "close"} => res_path # Root
  /\ pc \in {"read", "close", "browse"} /\ res_path # Root => res_path \in Folders /\ Known(res_path)

\* What was read is in the directory, and what was taken over is asked for.
NamesOK ==
  /\ pc \in {"read", "close", "browse"} =>
       /\ Cardinality(dir_buffer) <= MAX_DIR_ENTRIES
       /\ \A p \in dir_buffer : Listed(p)
       /\ \A p \in unread \cup dir_buffer : Parent[p] = res_path /\ (p # Firm1 => Known(p))
  /\ pc = "browse" => list = Sorted(dir_buffer)

\* The root is never empty, so that only a directory is chosen for its own sake.
AnswerOK ==
  pc = "answer" =>
    /\ IF request.select_dirs THEN res_path \in Folders ELSE res_path \in Fitting
    /\ res_path # Firm1 => Known(res_path)
RootListed == pc = "browse" /\ res_path = Root => dir_buffer # {}

SelectorInv == /\ SelectorTypes /\ PathOK /\ NamesOK /\ RootListed /\ AnswerOK
               /\ CursorShown /\ PanicIsLoss
BrowserIndInv == Trail /\ DirHeld /\ SelectorInv

LEMMA DirOpened ==
  ASSUME HandlesTypeOK, dheld = << >>, fOpenDir
  PROVE  Len(dheld') = 1
<1>1. PICK i \in Dirs : dheld' = Append(dheld, i)
  BY DEF fOpenDir
<1>2. dheld \in Seq(Dirs) /\ Len(dheld) = 0
  BY EmptySeq DEF HandlesTypeOK
<1> QED BY <1>1, <1>2, AppendProperties

LEMMA DirShut ==
  ASSUME HandlesTypeOK, Len(dheld) = 1, fCloseDir
  PROVE  dheld' = << >>
<1>1. PICK k \in 1 .. Len(dheld) : dheld' = RemoveAt(dheld, k)
  BY DEF fCloseDir
<1>2. dheld \in Seq(Dirs)
  BY DEF HandlesTypeOK
<1>3. dheld' \in Seq(Dirs) /\ Len(dheld') = 0
  BY <1>1, <1>2, RemoveAtProperties
<1> QED BY <1>3, EmptySeq

LEMMA DirHeldStep == HandlesTypeOK /\ DirHeld /\ [BrowserNext]_bvars => DirHeld'
<1> SUFFICES ASSUME HandlesTypeOK, DirHeld, [BrowserNext]_bvars PROVE DirHeld'
  OBVIOUS
<1>1. CASE OtherEntry \/ menuProcess
  <2>1. pc' = "menu"
    BY <1>1 DEF OtherEntry, menuProcess
  <2> QED BY <2>1 DEF DirHeld
<1>2. CASE menuFileSelector
  <2>1. dheld' = << >> /\ pc' \in {"list", "isDir"}
    BY <1>2 DEF menuFileSelector, handles, dirs, Goto
  <2> QED BY <2>1 DEF DirHeld
<1>3. CASE Pull \/ Insert \/ Cancel \/ panicMsg
  <2>1. dheld' = dheld /\ pc' = pc
    BY <1>3 DEF Pull, Insert, Cancel, panicMsg, VolumeGone, StartDeinit, DeinitFile,
         DeinitDrives,
                handles, dirs
  <2> QED BY <2>1 DEF DirHeld
<1>4. CASE IsDir \/ OpenParent \/ OpenList
  <2>1. dheld = << >>
    BY <1>4 DEF IsDir, OpenParent, OpenList, DirHeld
  <2>2. \/ fOpenDir /\ pc' \in {"wasDir", "read"}
        \/ fOpenDirFails /\ pc' \in {"isFile", "panic", "list"}
    BY <1>4 DEF IsDir, OpenParent, OpenList, OpenPath, Goto
  <2>3. CASE fOpenDir /\ pc' \in {"wasDir", "read"}
    BY <2>1, <2>3, DirOpened DEF DirHeld
  <2>4. CASE fOpenDirFails /\ pc' \in {"isFile", "panic", "list"}
    BY <2>1, <2>4 DEF fOpenDirFails, DirHeld
  <2> QED BY <2>2, <2>3, <2>4
<1>5. CASE WasDir \/ ReadDone \/ ReadFails
  <2>1. Len(dheld) = 1 /\ fCloseDir /\ pc' \in {"list", "browse"}
    BY <1>5 DEF WasDir, ReadDone, ReadFails, CloseDir, Browse, Goto, DirHeld
  <2> QED BY <2>1, DirShut DEF DirHeld
<1>6. CASE IsFile \/ ListRoot
  <2>1. dheld = << >> /\ dheld' = dheld /\ pc' \in {"parent", "list", "browse"}
    BY <1>6 DEF IsFile, ListRoot, Browse, Goto, DirHeld, handles, dirs
  <2> QED BY <2>1 DEF DirHeld
<1>7. CASE ReadChunk
  <2>1. Len(dheld) = 1 /\ dheld' = dheld /\ pc' \in {"read", "close"}
    BY <1>7 DEF ReadChunk, Goto, DirHeld, handles, dirs
  <2> QED BY <2>1 DEF DirHeld
<1>8. CASE Keys
  <2>1. dheld = << >> /\ dheld' = dheld /\ pc' \in {"browse", "list", "answer", "refused"}
    BY <1>8 DEF Keys, Key, MoveIndex, Choose, ChooseEmpty, Back, Leave, Goto, DirHeld,
         handles, dirs
  <2> QED BY <2>1 DEF DirHeld
<1>9. CASE Cancelled \/ Done
  <2>1. dheld = << >> /\ dheld' = dheld /\ pc' \in {"menu", "refused"}
    BY <1>9 DEF Cancelled, Done, Goto, DirHeld, handles, dirs
  <2> QED BY <2>1 DEF DirHeld
<1>10. CASE UNCHANGED bvars
  <2>1. dheld' = dheld /\ pc' = pc
    BY <1>10 DEF bvars, handles, dirs
  <2> QED BY <2>1 DEF DirHeld
<1> QED BY <1>1, <1>2, <1>3, <1>4, <1>5, <1>6, <1>7, <1>8, <1>9, <1>10 DEF BrowserNext,
       Reading

-----------------------------------------------------------------------------
(* The path, the list and the cursor of the selector.                      *)

LEMMA MediaFacts ==
  /\ Sdmc \in Drives /\ Sdmc \in Paths /\ Sdmc \in Folders /\ Parent[Sdmc] = Root
  /\ Drive[Sdmc] = Sdmc
  /\ Firm1 \in Paths /\ Firm1 \notin Folders /\ Parent[Firm1] = Root
  /\ System \subseteq Paths /\ \A c \in Cards : Contents[c] \subseteq Paths
  /\ NoCard \notin Cards
BY MediaAssumption, PathTypes DEF Drives

LEMMA SelectorFacts ==
  /\ MAX_DIR_ENTRIES \in Nat /\ MAX_DIR_ENTRIES > 0
  /\ BRWS_MAX_ENTRIES \in Nat /\ BRWS_MAX_ENTRIES > 0 /\ MaxCards \in Nat
  /\ \A r \in Requests : /\ r.start \in Paths \cup {Root}
                         /\ {r.allow_root, r.select_dirs, r.devmode} \subseteq BOOLEAN
  /\ (CHOOSE r \in Requests : TRUE) \in Requests
BY SelectorAssumption

\* What is there is a path, and so is the directory it is in.
LEMMA HereIsPath ==
  ASSUME SelectorTypes, NEW p, Here(p)
  PROVE  p \in Paths
BY MediaFacts DEF Here, SelectorTypes

LEMMA ParentOpens ==
  ASSUME SelectorTypes, NEW p \in Paths, p \notin Drives, Here(p)
  PROVE  Parent[p] # Root /\ Opens(Parent[p])
<1>1. CASE p \in System
  <2>1. Parent[p] # Root /\ Parent[p] \in System
    BY <1>1, MediaAssumption DEF Drives
  <2> QED BY <2>1, PathTypes DEF Opens, Here
<1>2. CASE sdMounted /\ Drive[p] = Sdmc /\ p \in Contents[card] \cup {Sdmc}
  <2>1. card \in Cards /\ p \in Contents[card]
    BY <1>2, MediaFacts DEF SelectorTypes
  <2>2. Parent[p] \in Contents[card] \cup {Sdmc}
    BY <2>1, MediaAssumption
  <2>3. Parent[p] # Root
    BY <2>1, <2>2, MediaFacts, PathTypes
  <2>4. Drive[Parent[p]] = Sdmc /\ Parent[p] \in Folders
    BY <1>2, <2>3, PathTypes
  <2> QED BY <1>2, <2>2, <2>3, <2>4 DEF Opens, Here
<1> QED BY <1>1, <1>2 DEF Here

\* The cursor stays in the window and the window on the list.
LEMMA ScrollFollows ==
  ASSUME NEW n \in Nat, NEW s \in Nat, NEW i \in Nat \ {0}, i <= n \/ (n = 0 /\ i = 1),
         s = 0 \/ s + BRWS_MAX_ENTRIES <= n
  PROVE  /\ FixScroll(s, i) \in Nat
         /\ FixScroll(s, i) < i /\ i <= FixScroll(s, i) + BRWS_MAX_ENTRIES
         /\ FixScroll(s, i) = 0 \/ FixScroll(s, i) + BRWS_MAX_ENTRIES <= n
BY SelectorFacts DEF FixScroll

\* A list that is shown has the cursor on it.
LEMMA BrowseShows ==
  ASSUME NEW S \in SUBSET Paths, Cardinality(S) <= MAX_DIR_ENTRIES, Browse(S)
  PROVE  /\ pc' = "browse" /\ list' = Sorted(S) /\ list' \in Seq(Paths)
         /\ dir_buffer' = S /\ unread' = {} /\ lastname' = NoName
         /\ index' \in Nat \ {0} /\ scroll' \in Nat
         /\ CursorShown'
<1> DEFINE n == Cardinality(S)
<1>1. /\ pc' = "browse" /\ list' = Sorted(S)
      /\ index' = IF lastname \in S THEN CHOOSE i \in DOMAIN list' : list'[i] = lastname ELSE 1
      /\ scroll' = FixScroll(0, index')
      /\ lastname' = NoName /\ unread' = {} /\ dir_buffer' = S
  BY DEF Browse, Goto
<1>2. /\ n \in Nat /\ list' \in Seq(Paths) /\ Len(list') = n /\ DOMAIN list' = 1 .. n
      /\ IsFiniteSet(S) /\ \A p \in S : \E i \in 1 .. n : list'[i] = p
  BY <1>1, SortedShowsAll
<1>3. IF n = 0 THEN index' = 1 ELSE index' \in 1 .. n
  <2>1. CASE lastname \in S
    <3>1. index' \in 1 .. n
      BY <1>1, <1>2, <2>1
    <3> QED BY <1>2, <3>1
  <2>2. CASE lastname \notin S
    BY <1>1, <1>2, <2>2
  <2> QED BY <2>1, <2>2
<1> HIDE DEF n
<1>4. index' \in Nat \ {0} /\ (index' <= n \/ (n = 0 /\ index' = 1))
  <2>1. n \in Nat
    BY <1>2
  <2>2. CASE n = 0
    BY <1>3, <2>2
  <2>3. CASE n # 0
    BY <1>3, <2>1, <2>3
  <2> QED BY <2>2, <2>3
<1>5. /\ scroll' \in Nat /\ scroll' < index' /\ index' <= scroll' + BRWS_MAX_ENTRIES
      /\ scroll' = 0 \/ scroll' + BRWS_MAX_ENTRIES <= n
  BY <1>1, <1>2, <1>4, ScrollFollows
<1>6. list' = << >> <=> n = 0
  BY <1>2, EmptySeq
<1>7. CursorShown'
  BY <1>1, <1>2, <1>3, <1>5, <1>6 DEF CursorShown, n
<1> QED BY <1>1, <1>2, <1>4, <1>5, <1>7

\* The card and its history, while nothing else changes.
MediumStep == lost' \/ (lost' = lost /\ sdMounted' = sdMounted /\ (sdMounted => card' = card))

LEMMA KnownStays ==
  ASSUME MediumStep, SelectorTypes, NEW p
  PROVE  /\ Known(p) => Here(p)' \/ lost'
         /\ Opens(p) \/ lost => Opens(p)' \/ lost'
         /\ lost => lost'
BY DEF MediumStep, SelectorTypes, Known, Opens, Here

LEMMA QuietSelector ==
  ASSUME SelectorInv, UNCHANGED <<pc, request, res_path, lastname, buffer, astray>>,
         SelectorTypes', MediumStep
  PROVE  SelectorInv'
<1>0. /\ pc' = pc /\ request' = request /\ res_path' = res_path /\ lastname' = lastname
      /\ unread' = unread /\ dir_buffer' = dir_buffer /\ list' = list /\ index' = index
      /\ scroll' = scroll /\ astray' = astray /\ SelectorTypes
  BY DEF buffer, SelectorInv
<1>1. \A p : /\ Known(p) => Here(p)' \/ lost'
             /\ Opens(p) \/ lost => Opens(p)' \/ lost'
             /\ lost => lost'
  BY <1>0, KnownStays
<1>2. PathOK'
  BY <1>0, <1>1 DEF SelectorInv, PathOK, Known, Opens, Here
<1>3. NamesOK'
  BY <1>0, <1>1 DEF SelectorInv, NamesOK, Known, Here, Listed
<1>4. AnswerOK'
  BY <1>0, <1>1 DEF SelectorInv, AnswerOK, Known, Here
<1>5. RootListed' /\ CursorShown' /\ PanicIsLoss'
  BY <1>0, <1>1 DEF SelectorInv, RootListed, CursorShown, PanicIsLoss
<1> QED BY <1>2, <1>3, <1>4, <1>5 DEF SelectorInv

\* Between the lists only the path counts.
Elsewhere == {"menu", "isDir", "isFile", "wasDir", "list", "refused"}
LEMMA NotReading ==
  ASSUME pc' \in Elsewhere, SelectorTypes',
         pc' # "menu" /\ ~request'.allow_root /\ ~astray' =>
           res_path' # Root /\ Drive[res_path'] = Sdmc
  PROVE  SelectorInv'
<1>1. PathOK'
  BY DEF Elsewhere, PathOK
<1>2. NamesOK' /\ RootListed' /\ AnswerOK' /\ CursorShown' /\ PanicIsLoss'
  BY DEF Elsewhere, NamesOK, RootListed, AnswerOK, CursorShown, PanicIsLoss
<1> QED BY <1>1, <1>2 DEF SelectorInv

LEMMA SelectorInit == BrowserInit => SelectorInv
<1> SUFFICES ASSUME BrowserInit PROVE SelectorInv
  OBVIOUS
<1>1. SelectorTypes
  <2>1. << >> \in Seq(Paths)
    BY EmptySeq
  <2>2. 0 \in 0 .. MaxCards
    BY SelectorFacts
  <2>3. request \in Requests
    BY SelectorFacts DEF BrowserInit
  <2>4. {sdMounted, cancel, astray, lost} \subseteq BOOLEAN /\ (sdMounted => card \in Cards)
    BY DEF BrowserInit
  <2>5. index \in Nat \ {0} /\ scroll \in Nat /\ list \in Seq(Paths)
    BY <2>1 DEF BrowserInit
  <2> QED BY <2>2, <2>3, <2>4, <2>5 DEF BrowserInit, SelectorTypes
<1>2. pc = "menu"
  BY DEF BrowserInit
<1>3. PathOK /\ NamesOK /\ RootListed /\ AnswerOK /\ CursorShown /\ PanicIsLoss
  BY <1>2 DEF PathOK, NamesOK, RootListed, AnswerOK, CursorShown, PanicIsLoss
<1> QED BY <1>1, <1>3 DEF SelectorInv

\* The selector is asked for a path.
LEMMA StartStep ==
  ASSUME SelectorInv, menuFileSelector
  PROVE  SelectorInv'
<1>1. /\ request' \in Requests
      /\ res_path' = IF request'.allow_root \/ (request'.start # Root /\ Drive[request'.start] = Sdmc)
                     THEN request'.start ELSE Sdmc
      /\ lastname' = NoName /\ pc' \in {"list", "isDir"}
      /\ unread' = {} /\ dir_buffer' = {} /\ list' = << >> /\ index' = 1 /\ scroll' = 0
      /\ changes' = 0 /\ cancel' = FALSE /\ astray' = FALSE /\ lost' = FALSE
      /\ card' \in Cards \cup {NoCard} /\ sdMounted' \in BOOLEAN /\ (sdMounted' => card' # NoCard)
  BY DEF menuFileSelector, Empty, Goto
<1>2. /\ request'.start \in Paths \cup {Root} /\ request'.allow_root \in BOOLEAN
  BY <1>1, SelectorFacts
<1>3. res_path' \in Paths \cup {Root}
      /\ (~request'.allow_root => res_path' # Root /\ Drive[res_path'] = Sdmc)
  BY <1>1, <1>2, MediaFacts, PathTypes
<1>4. << >> \in Seq(Paths)
  BY EmptySeq
<1>5. SelectorTypes'
  <2>1. changes' \in 0 .. MaxCards
    BY <1>1, SelectorFacts
  <2>2. sdMounted' => card' \in Cards
    BY <1>1
  <2>3. {sdMounted', cancel', astray', lost'} \subseteq BOOLEAN
    BY <1>1
  <2>4. index' \in Nat \ {0} /\ scroll' \in Nat /\ list' \in Seq(Paths)
    BY <1>1, <1>4
  <2> QED BY <1>1, <1>3, <2>1, <2>2, <2>3, <2>4 DEF SelectorTypes, Unlisted
<1> QED BY <1>1, <1>3, <1>5, NotReading DEF Elsewhere

\* The start is looked at.
LEMMA StartPathStep ==
  ASSUME SelectorInv, IsDir \/ OpenParent \/ WasDir
  PROVE  SelectorInv'
<1>1. /\ request' = request /\ res_path' = res_path /\ lastname' = lastname
      /\ unread' = unread /\ dir_buffer' = dir_buffer /\ list' = list /\ index' = index
      /\ scroll' = scroll /\ card' = card /\ sdMounted' = sdMounted /\ changes' = changes
      /\ cancel' = cancel /\ astray' = astray /\ SelectorTypes /\ PathOK
  BY DEF IsDir, OpenParent, WasDir, buffer, medium, SelectorInv
<1>2. /\ pc' \in {"wasDir", "isFile", "list", "panic"}
      /\ pc \in {"isDir", "parent", "wasDir"}
      /\ lost' = lost \/ lost' = (lost \/ Opens(res_path))
  BY DEF IsDir, OpenParent, WasDir, OpenPath, CloseDir, Goto
<1>3. SelectorTypes'
  BY <1>1, <1>2 DEF SelectorTypes, Unlisted
<1>4. CASE pc' # "panic"
  BY <1>1, <1>2, <1>3, <1>4, NotReading DEF PathOK, Elsewhere
<1>5. CASE pc' = "panic"
  <2>1. pc = "parent" /\ lost' = (lost \/ Opens(res_path))
    BY <1>5 DEF IsDir, OpenParent, WasDir, OpenPath, CloseDir, Goto
  <2>2. lost'
    BY <1>1, <2>1 DEF PathOK
  <2>3. PanicIsLoss' /\ NamesOK' /\ RootListed' /\ AnswerOK' /\ CursorShown'
    BY <1>5, <2>2 DEF PanicIsLoss, NamesOK, RootListed, AnswerOK, CursorShown
  <2>4. PathOK'
    BY <1>1, <1>5, <2>1 DEF PathOK
  <2> QED BY <1>3, <2>3, <2>4 DEF SelectorInv
<1> QED BY <1>4, <1>5

LEMMA IsFileStep ==
  ASSUME SelectorInv, IsFile
  PROVE  SelectorInv'
<1>1. /\ request' = request /\ pc = "isFile"
      /\ unread' = unread /\ dir_buffer' = dir_buffer /\ list' = list /\ index' = index
      /\ scroll' = scroll /\ card' = card /\ sdMounted' = sdMounted /\ changes' = changes
      /\ cancel' = cancel /\ lost' = lost /\ SelectorTypes /\ PathOK
  BY DEF IsFile, buffer, medium, SelectorInv
<1>2. CASE res_path \notin Drives /\ Here(res_path)
  <2>1. lastname' = res_path /\ res_path' = Parent[res_path] /\ pc' = "parent" /\ astray' = astray
    BY <1>2 DEF IsFile, Goto
  <2>2. res_path \in Paths
    BY <1>1, <1>2, HereIsPath
  <2>3. Parent[res_path] # Root /\ Opens(Parent[res_path])
    BY <1>1, <1>2, <2>2, ParentOpens
  <2>4. Parent[res_path] \in Paths
    BY <2>2, <2>3, PathTypes
  <2>5. SelectorTypes'
    BY <1>1, <2>1, <2>2, <2>4 DEF SelectorTypes, Unlisted
  <2>6. ~request.allow_root /\ ~astray => Drive[Parent[res_path]] = Sdmc
    BY <1>1, <2>2, <2>3, PathTypes DEF PathOK
  <2>7. Opens(res_path)'
    BY <1>1, <2>1, <2>3 DEF Opens, Here
  <2>8. PathOK'
    BY <1>1, <2>1, <2>3, <2>6, <2>7 DEF PathOK
  <2>9. PanicIsLoss' /\ NamesOK' /\ RootListed' /\ AnswerOK' /\ CursorShown'
    BY <2>1 DEF PanicIsLoss, NamesOK, RootListed, AnswerOK, CursorShown
  <2> QED BY <2>5, <2>8, <2>9 DEF SelectorInv
<1>3. CASE ~(res_path \notin Drives /\ Here(res_path))
  <2>1. lastname' = NoName /\ res_path' = Root /\ pc' = "list" /\ astray' = TRUE
    BY <1>3 DEF IsFile, Goto, ToRoot
  <2>2. SelectorTypes'
    BY <1>1, <2>1 DEF SelectorTypes, Unlisted
  <2> QED BY <2>1, <2>2, NotReading DEF Elsewhere
<1> QED BY <1>2, <1>3

\* The root is listed.
LEMMA ListRootStep ==
  ASSUME SelectorInv, ListRoot
  PROVE  SelectorInv'
<1> DEFINE names == (System \cap Drives) \cup (IF sdMounted' THEN {Sdmc} ELSE {})
                      \cup (IF request.devmode /\ Listed(Firm1) THEN {Firm1} ELSE {})
           all == (System \cap Drives) \cup {Sdmc, Firm1}
<1>1. /\ request' = request /\ res_path = Root /\ res_path' = Root /\ pc = "list"
      /\ card' = card /\ changes' = changes /\ cancel' = cancel /\ astray' = astray
      /\ sdMounted' = (sdMounted \/ card # NoCard) /\ lost' = FALSE
      /\ Browse(names) /\ SelectorTypes /\ PathOK
  BY DEF ListRoot, SelectorInv
<1>2. names \subseteq all /\ names \in SUBSET Paths /\ all \subseteq Paths
  BY MediaFacts
<1>3. Cardinality(names) <= MAX_DIR_ENTRIES
  <2> HIDE DEF names, all
  <2>1. IsFiniteSet(all)
    BY <1>2, PathTypes, FS_Subset
  <2>2. Cardinality(names) <= Cardinality(all)
    BY <1>2, <2>1, FS_Subset
  <2>3. Cardinality(all) <= MAX_DIR_ENTRIES
    BY SelectorAssumption DEF all
  <2>4. Cardinality(all) \in Nat /\ Cardinality(names) \in Nat /\ MAX_DIR_ENTRIES \in Nat
    BY <1>2, <2>1, FS_CardinalityType, SortedShowsAll, SelectorFacts
  <2> QED BY <2>2, <2>3, <2>4
<1>4. /\ pc' = "browse" /\ list' = Sorted(names) /\ list' \in Seq(Paths)
      /\ dir_buffer' = names /\ unread' = {} /\ lastname' = NoName
      /\ index' \in Nat \ {0} /\ scroll' \in Nat
      /\ CursorShown'
  <2> HIDE DEF names
  <2> QED BY <1>1, <1>2, <1>3, BrowseShows
<1>5. SelectorTypes'
  <2> HIDE DEF names
  <2>1. sdMounted' \in BOOLEAN /\ (sdMounted' => card' \in Cards)
    BY <1>1 DEF SelectorTypes
  <2> QED BY <1>1, <1>2, <1>4, <2>1 DEF SelectorTypes, Unlisted
<1>6. names # {}
  BY MediaAssumption
<1>7. ASSUME NEW p \in names
      PROVE  Listed(p) /\ Parent[p] = Root /\ (p # Firm1 => Here(p)')
  <2>1. CASE p \in System \cap Drives
    BY <2>1 DEF Listed, Here, Drives
  <2>2. CASE p = Sdmc /\ sdMounted'
    BY <2>2, MediaFacts DEF Listed, Here
  <2>3. CASE p = Firm1 /\ Listed(Firm1)
    BY <2>3, MediaFacts
  <2> QED BY <1>7, <2>1, <2>2, <2>3
<1> HIDE DEF names
<1>8. NamesOK'
  BY <1>1, <1>3, <1>4, <1>7 DEF NamesOK, Known, Listed, Here
<1>9. PathOK'
  BY <1>1, <1>4 DEF PathOK
<1>10. RootListed' /\ AnswerOK' /\ PanicIsLoss'
  BY <1>4, <1>6 DEF RootListed, AnswerOK, PanicIsLoss
<1> QED BY <1>4, <1>5, <1>8, <1>9, <1>10 DEF SelectorInv

LEMMA OpenListStep ==
  ASSUME SelectorInv, OpenList
  PROVE  SelectorInv'
<1>1. /\ request' = request /\ pc = "list" /\ res_path # Root
      /\ list' = list /\ index' = index /\ scroll' = scroll
      /\ card' = card /\ sdMounted' = sdMounted /\ changes' = changes
      /\ cancel' = cancel /\ SelectorTypes /\ PathOK
  BY DEF OpenList, medium, SelectorInv
<1>2. CASE /\ Opens(res_path) /\ pc' = "read" /\ unread' = Entries(res_path) /\ dir_buffer' = {}
           /\ lost' = FALSE /\ res_path' = res_path /\ lastname' = lastname
           /\ astray' = astray
  <2>1. SelectorTypes'
    BY <1>1, <1>2 DEF SelectorTypes, Unlisted, Entries
  <2>2. PathOK'
    BY <1>1, <1>2 DEF PathOK, Known, Opens, Here
  <2>3. NamesOK'
    <3>1. Cardinality({}) = 0
      BY FS_EmptySet
    <3>2. \A p \in Entries(res_path) : Parent[p] = res_path /\ Here(p)
      BY DEF Entries
    <3> QED BY <1>1, <1>2, <3>1, <3>2, SelectorFacts DEF NamesOK, Known, Here
  <2>4. RootListed' /\ AnswerOK' /\ CursorShown' /\ PanicIsLoss'
    BY <1>2 DEF RootListed, AnswerOK, CursorShown, PanicIsLoss
  <2> QED BY <2>1, <2>2, <2>3, <2>4 DEF SelectorInv
<1>3. CASE /\ pc' = "list" /\ res_path' = Root /\ lastname' = NoName /\ astray' = TRUE
           /\ unread' = unread /\ dir_buffer' = dir_buffer /\ lost' = lost
  <2>1. SelectorTypes'
    BY <1>1, <1>3 DEF SelectorTypes, Unlisted
  <2> QED BY <1>3, <2>1, NotReading DEF Elsewhere
<1> QED BY <1>2, <1>3 DEF OpenList, ToRoot, Goto

\* Some of the directory is read: what there is room for is taken over.
LEMMA ReadChunkStep ==
  ASSUME SelectorInv, ReadChunk
  PROVE  SelectorInv'
<1>1. /\ request' = request /\ res_path' = res_path /\ lastname' = lastname /\ pc = "read"
      /\ list' = list /\ index' = index /\ scroll' = scroll
      /\ card' = card /\ sdMounted' = sdMounted /\ changes' = changes
      /\ cancel' = cancel /\ astray' = astray /\ lost' = lost
      /\ SelectorTypes /\ PathOK /\ NamesOK /\ pc' \in {"read", "close"}
  BY DEF ReadChunk, medium, SelectorInv, Goto
<1>2. /\ unread \in SUBSET Paths /\ dir_buffer \in SUBSET Paths
      /\ Cardinality(dir_buffer) <= MAX_DIR_ENTRIES
      /\ \A p \in dir_buffer : Listed(p)
      /\ \A p \in unread \cup dir_buffer : Parent[p] = res_path /\ (p # Firm1 => Known(p))
  BY <1>1 DEF SelectorTypes, NamesOK
<1>3. /\ unread' \subseteq unread
      /\ dir_buffer' \subseteq unread \cup dir_buffer
      /\ \A p \in dir_buffer' : Listed(p)
      /\ Cardinality(dir_buffer') <= MAX_DIR_ENTRIES
  <2>1. CASE unread' = unread /\ dir_buffer' = dir_buffer
    BY <1>2, <2>1
  <2>2. CASE unread # {}
    <3>1. PICK chunk \in kSubset(Atmost(N_DIR_READ, Cardinality(unread)), unread) :
            LET fits == {p \in chunk : Listed(p)}
            IN /\ unread' = unread \ chunk
               /\ \E more \in kSubset(Atmost(Room, Cardinality(fits)), fits) :
                    dir_buffer' = dir_buffer \cup more
      BY <2>2 DEF ReadChunk
    <3> DEFINE fits == {p \in chunk : Listed(p)}
    <3>2. PICK more \in kSubset(Atmost(Room, Cardinality(fits)), fits) :
            dir_buffer' = dir_buffer \cup more
      BY <3>1
    <3>3. chunk \subseteq unread /\ fits \in SUBSET Paths
      BY <1>2 DEF kSubset
    <3>4. \A p \in fits : Listed(p) /\ p \in unread
      BY <3>3
    <3> HIDE DEF fits
    <3>5. more \subseteq fits /\ Cardinality(more) = Atmost(Room, Cardinality(fits))
      BY DEF kSubset
    <3>6. /\ IsFiniteSet(dir_buffer) /\ IsFiniteSet(more)
          /\ Cardinality(dir_buffer) \in Nat /\ Cardinality(fits) \in Nat
          /\ Cardinality(more) \in Nat
      BY <1>2, <3>3, <3>5, SortedShowsAll
    <3>7. Cardinality(more) <= MAX_DIR_ENTRIES - Cardinality(dir_buffer)
      BY <3>5, <3>6, SelectorFacts DEF Atmost, Room
    <3>8. /\ Cardinality(dir_buffer \cup more)
               = Cardinality(dir_buffer) + Cardinality(more) - Cardinality(dir_buffer \cap more)
          /\ Cardinality(dir_buffer \cap more) \in Nat
      BY <3>6, FS_Union, FS_Intersection, FS_CardinalityType
    <3>9. Cardinality(dir_buffer') <= MAX_DIR_ENTRIES
      BY <3>2, <3>6, <3>7, <3>8, SelectorFacts
    <3>10. unread' \subseteq unread
      BY <3>1
    <3> QED BY <1>2, <3>2, <3>4, <3>5, <3>9, <3>10
  <2> QED BY <2>1, <2>2 DEF ReadChunk
<1>4. SelectorTypes'
  BY <1>1, <1>2, <1>3 DEF SelectorTypes, Unlisted
<1>5. PathOK'
  BY <1>1 DEF PathOK, Known, Here
<1>6. NamesOK'
  <2>1. \A p : Known(p) => Known(p)'
    BY <1>1 DEF Known, Here
  <2>2. \A p : Listed(p) => Listed(p)'
    BY <1>1 DEF Listed
  <2> QED BY <1>1, <1>2, <1>3, <2>1, <2>2 DEF NamesOK
<1>7. RootListed' /\ AnswerOK' /\ CursorShown' /\ PanicIsLoss'
  BY <1>1 DEF RootListed, AnswerOK, CursorShown, PanicIsLoss
<1> QED BY <1>4, <1>5, <1>6, <1>7 DEF SelectorInv

LEMMA ReadDoneStep ==
  ASSUME SelectorInv, ReadDone
  PROVE  SelectorInv'
<1>1. /\ request' = request /\ res_path' = res_path /\ pc = "close"
      /\ card' = card /\ sdMounted' = sdMounted /\ changes' = changes
      /\ cancel' = cancel /\ astray' = astray /\ lost' = lost
      /\ Browse(dir_buffer) /\ SelectorTypes /\ PathOK /\ NamesOK
  BY DEF ReadDone, medium, SelectorInv
<1>2. dir_buffer \in SUBSET Paths /\ Cardinality(dir_buffer) <= MAX_DIR_ENTRIES
  BY <1>1 DEF SelectorTypes, NamesOK
<1>3. /\ pc' = "browse" /\ list' = Sorted(dir_buffer) /\ list' \in Seq(Paths)
      /\ dir_buffer' = dir_buffer /\ unread' = {} /\ lastname' = NoName
      /\ index' \in Nat \ {0} /\ scroll' \in Nat
      /\ CursorShown'
  BY <1>1, <1>2, BrowseShows
<1>4. SelectorTypes'
  BY <1>1, <1>2, <1>3 DEF SelectorTypes, Unlisted
<1>5. PathOK'
  BY <1>1, <1>3 DEF PathOK, Known, Here
<1>6. NamesOK'
  <2>1. \A p : Known(p) => Known(p)'
    BY <1>1 DEF Known, Here
  <2>2. \A p : Listed(p) => Listed(p)'
    BY <1>1 DEF Listed
  <2> QED BY <1>1, <1>3, <2>1, <2>2 DEF NamesOK
<1>7. RootListed' /\ AnswerOK' /\ PanicIsLoss'
  BY <1>1, <1>3 DEF RootListed, AnswerOK, PanicIsLoss, PathOK
<1> QED BY <1>3, <1>4, <1>5, <1>6, <1>7 DEF SelectorInv

LEMMA ReadFailsStep ==
  ASSUME SelectorInv, ReadFails
  PROVE  SelectorInv'
<1>1. /\ request' = request /\ res_path' = Root /\ lastname' = NoName /\ pc' = "list"
      /\ list' = list /\ index' = index /\ scroll' = scroll
      /\ card' = card /\ sdMounted' = sdMounted /\ changes' = changes
      /\ cancel' = cancel /\ astray' = TRUE /\ lost' = lost
      /\ unread' = {} /\ dir_buffer' = {} /\ SelectorTypes
  BY DEF ReadFails, CloseDir, ToRoot, Goto, medium, SelectorInv
<1>2. SelectorTypes'
  BY <1>1 DEF SelectorTypes, Unlisted
<1> QED BY <1>1, <1>2, NotReading DEF Elsewhere

\* What is shown while a key is waited for.
LEMMA Shown ==
  ASSUME SelectorInv, pc = "browse"
  PROVE  /\ list = Sorted(dir_buffer) /\ n_entries \in Nat /\ DOMAIN list = 1 .. n_entries
         /\ n_entries > 0 => index \in 1 .. n_entries
         /\ n_entries = 0 => index = 1 /\ dir_buffer = {} /\ res_path # Root
         /\ \A i \in 1 .. n_entries : list[i] \in dir_buffer /\ list[i] \in Paths
         /\ scroll = 0 \/ scroll + BRWS_MAX_ENTRIES <= n_entries
<1>1. list = Sorted(dir_buffer) /\ dir_buffer \in SUBSET Paths /\ CursorShown /\ RootListed
  BY DEF SelectorInv, NamesOK, SelectorTypes
<1>2. /\ n_entries \in Nat /\ DOMAIN list = 1 .. n_entries
      /\ n_entries = Cardinality(dir_buffer)
      /\ \A i \in 1 .. n_entries : list[i] \in dir_buffer /\ list[i] \in Paths
      /\ IsFiniteSet(dir_buffer)
  BY <1>1, SortedShowsAll DEF n_entries
<1>3. list = << >> <=> n_entries = 0
  BY <1>1, SortedShowsAll, EmptySeq DEF n_entries
<1>4. n_entries = 0 => dir_buffer = {}
  BY <1>2, FS_EmptySet
<1> QED BY <1>1, <1>2, <1>3, <1>4 DEF CursorShown, RootListed, n_entries

LEMMA MoveIndexStep ==
  ASSUME SelectorInv, MoveIndex
  PROVE  SelectorInv'
<1> DEFINE n == n_entries
<1>1. /\ pc = "browse" /\ n > 0 /\ n \in Nat /\ index \in 1 .. n /\ DOMAIN list = 1 .. n
      /\ scroll = 0 \/ scroll + BRWS_MAX_ENTRIES <= n
      /\ scroll \in Nat /\ CursorShown
  BY Shown DEF MoveIndex, Key, SelectorInv, SelectorTypes
<1>2. /\ index' \in {IF index = n THEN 1 ELSE index + 1, IF index = 1 THEN n ELSE index - 1,
                     Atmost(index + BRWS_MAX_ENTRIES, n),
                     IF index - BRWS_MAX_ENTRIES < 1 THEN 1 ELSE index - BRWS_MAX_ENTRIES}
      /\ scroll' = FixScroll(scroll, index')
      /\ pc' = pc /\ request' = request /\ res_path' = res_path /\ lastname' = lastname
      /\ unread' = unread /\ dir_buffer' = dir_buffer /\ list' = list
      /\ card' = card /\ sdMounted' = sdMounted /\ changes' = changes
      /\ cancel' = cancel /\ astray' = astray /\ lost' = lost
  BY DEF MoveIndex, medium
<1>3. index' \in 1 .. n
  <2> HIDE DEF n
  <2> QED BY <1>1, <1>2, SelectorFacts DEF Atmost
<1>4. n = Len(list) /\ n = Len(list')
  BY <1>2 DEF n_entries
<1> HIDE DEF n
<1>5. index' \in Nat \ {0} /\ index' <= n
  BY <1>1, <1>3
<1>6. /\ scroll' \in Nat /\ scroll' < index' /\ index' <= scroll' + BRWS_MAX_ENTRIES
      /\ scroll' = 0 \/ scroll' + BRWS_MAX_ENTRIES <= n
  BY <1>1, <1>2, <1>5, ScrollFollows
<1>7. list # << >>
  BY <1>1, <1>4, EmptySeq
<1>8. CursorShown'
  BY <1>1, <1>2, <1>3, <1>4, <1>6, <1>7 DEF CursorShown
<1>9. SelectorTypes'
  BY <1>2, <1>5, <1>6 DEF SelectorInv, SelectorTypes
<1>10. PathOK' /\ AnswerOK' /\ RootListed' /\ PanicIsLoss'
  BY <1>2 DEF SelectorInv, PathOK, AnswerOK, RootListed, PanicIsLoss, Known, Opens, Here
<1>11. NamesOK'
  BY <1>2 DEF SelectorInv, NamesOK, Known, Here, Listed
<1> QED BY <1>8, <1>9, <1>10, <1>11 DEF SelectorInv

\* The list is left for another path.
LEMMA LeaveStep ==
  ASSUME SelectorInv, NEW p \in Paths \cup {Root}, NEW q \in Paths \cup {NoName}, Leave(p, q),
         UNCHANGED <<request, medium, cancel, astray, lost>>,
         ~request.allow_root /\ ~astray => p # Root /\ Drive[p] = Sdmc
  PROVE  SelectorInv'
<1>1. /\ res_path' = p /\ lastname' = q /\ pc' = "list"
      /\ unread' = {} /\ dir_buffer' = {} /\ list' = << >> /\ index' = 1 /\ scroll' = 0
      /\ request' = request /\ card' = card /\ sdMounted' = sdMounted /\ changes' = changes
      /\ cancel' = cancel /\ astray' = astray /\ lost' = lost
  BY DEF Leave, Empty, Goto, medium
<1>2. << >> \in Seq(Paths)
  BY EmptySeq
<1>3. index' \in Nat \ {0} /\ scroll' \in Nat /\ list' \in Seq(Paths)
  BY <1>1, <1>2
<1>4. SelectorTypes'
  BY <1>1, <1>3 DEF SelectorInv, SelectorTypes, Unlisted
<1> QED BY <1>1, <1>4, NotReading DEF Elsewhere

\* A path is answered.
LEMMA AnswerStep ==
  ASSUME SelectorInv, NEW p \in Paths, res_path' = p, lastname' = NoName, pc' = "answer",
         UNCHANGED <<request, buffer, medium, cancel, astray, lost>>,
         IF request.select_dirs THEN p \in Folders ELSE p \in Fitting,
         p # Firm1 => Known(p),
         ~request.allow_root /\ ~astray => p # Root /\ Drive[p] = Sdmc
  PROVE  SelectorInv'
<1>1. /\ request' = request /\ card' = card /\ sdMounted' = sdMounted /\ changes' = changes
      /\ cancel' = cancel /\ astray' = astray /\ lost' = lost
      /\ unread' = unread /\ dir_buffer' = dir_buffer /\ list' = list /\ index' = index
      /\ scroll' = scroll
  BY DEF medium, buffer
<1>2. SelectorTypes'
  BY <1>1 DEF SelectorInv, SelectorTypes
<1>3. PathOK' /\ NamesOK' /\ RootListed' /\ CursorShown' /\ PanicIsLoss'
  BY <1>1 DEF PathOK, NamesOK, RootListed, CursorShown, PanicIsLoss
<1>4. AnswerOK'
  BY <1>1 DEF AnswerOK, Known, Here
<1> QED BY <1>2, <1>3, <1>4 DEF SelectorInv

\* The path under the cursor is one level below the one that is shown.
LEMMA ChooseStep ==
  ASSUME SelectorInv, Choose
  PROVE  SelectorInv'
<1> DEFINE p == list[index]
<1>1. pc = "browse" /\ p \in dir_buffer /\ p \in Paths /\ res_path \in Paths \cup {Root}
  BY Shown DEF Choose, Key, SelectorInv, SelectorTypes
<1>2. Listed(p) /\ Parent[p] = res_path /\ (p # Firm1 => Known(p))
  BY <1>1 DEF SelectorInv, NamesOK
<1>3. ~request.allow_root /\ ~astray => p # Root /\ Drive[p] = Sdmc
  BY <1>1, <1>2, PathTypes DEF SelectorInv, PathOK
<1>4. UNCHANGED <<request, medium, cancel, astray, lost>>
  BY DEF Choose
<1> HIDE DEF p
<1>5. CASE Leave(p, NoName)
  BY <1>1, <1>3, <1>4, <1>5, LeaveStep
<1>6. ASSUME NEW x \in BOOLEAN, ~(p \in Folders /\ ~(request.select_dirs /\ x)),
             res_path' = p, lastname' = NoName, pc' = "answer", UNCHANGED buffer
      PROVE  SelectorInv'
  <2>1. IF request.select_dirs THEN p \in Folders ELSE p \in Fitting
    BY <1>2, <1>6 DEF Listed
  <2> QED BY <1>1, <1>2, <1>3, <1>4, <1>6, <2>1, AnswerStep
<1> QED BY <1>5, <1>6 DEF Choose, Goto, p

\* An empty directory is chosen for its own sake.
LEMMA ChooseEmptyStep ==
  ASSUME SelectorInv, ChooseEmpty
  PROVE  SelectorInv'
<1>1. /\ pc = "browse" /\ n_entries = 0 /\ request.select_dirs /\ pc' = "answer"
      /\ res_path' = res_path /\ lastname' = NoName
      /\ UNCHANGED <<request, buffer, medium, cancel, astray, lost>>
  BY DEF ChooseEmpty, Key, Goto
<1>2. res_path # Root /\ res_path \in Paths
  BY <1>1, Shown DEF SelectorInv, SelectorTypes
<1>3. res_path \in Folders /\ Known(res_path)
  BY <1>1, <1>2 DEF SelectorInv, PathOK
<1>4. ~request.allow_root /\ ~astray => res_path # Root /\ Drive[res_path] = Sdmc
  BY <1>1 DEF SelectorInv, PathOK
<1>5. \A p \in Paths : p = res_path => SelectorInv'
  BY <1>1, <1>3, <1>4, AnswerStep
<1> QED BY <1>2, <1>5

\* B leaves the directory, or the selector at the drive of a caller that did
\* not allow the root.
LEMMA BackStep ==
  ASSUME SelectorInv, Back
  PROVE  SelectorInv'
<1>1. /\ pc = "browse" /\ request' = request /\ SelectorTypes /\ PathOK
      /\ UNCHANGED <<request, medium, cancel, astray, lost>>
  BY DEF Back, Key, SelectorInv
<1>2. CASE pc' = "refused" /\ UNCHANGED <<res_path, lastname, buffer>>
  <2>1. SelectorTypes'
    BY <1>1, <1>2 DEF SelectorTypes, buffer, medium
  <2> QED BY <1>1, <1>2, <2>1, NotReading DEF Elsewhere, PathOK
<1>3. CASE /\ res_path # Root /\ ~(Parent[res_path] = Root /\ ~request.allow_root)
           /\ Leave(Parent[res_path], IF Parent[res_path] = Root THEN NoName ELSE res_path)
  <2> DEFINE p == Parent[res_path]
             q == IF Parent[res_path] = Root THEN NoName ELSE res_path
  <2>1. res_path \in Paths
    BY <1>1, <1>3 DEF SelectorTypes
  <2>2. p \in Paths \cup {Root} /\ q \in Paths \cup {NoName}
    BY <2>1, PathTypes
  <2>3. ~request.allow_root /\ ~astray => p # Root /\ Drive[p] = Sdmc
    BY <1>1, <1>3, <2>1, PathTypes DEF PathOK
  <2> HIDE DEF p, q
  <2>4. Leave(p, q)
    BY <1>3 DEF p, q
  <2> QED BY <1>1, <2>2, <2>3, <2>4, LeaveStep
<1> QED BY <1>2, <1>3 DEF Back, Goto

LEMMA EndStep ==
  ASSUME SelectorInv, Cancelled \/ Done
  PROVE  SelectorInv'
<1>1. CASE Cancelled
  <2>1. /\ pc = "browse" /\ pc' = "refused"
        /\ UNCHANGED <<request, res_path, lastname, buffer, medium, cancel, astray, lost>>
    BY <1>1 DEF Cancelled, Goto
  <2>2. SelectorTypes'
    BY <2>1 DEF SelectorInv, SelectorTypes, buffer, medium
  <2> QED BY <2>1, <2>2, NotReading DEF Elsewhere, SelectorInv, PathOK
<1>2. CASE Done
  <2>1. /\ pc' = "menu" /\ res_path' = Root /\ lastname' = NoName
        /\ unread' = {} /\ dir_buffer' = {} /\ list' = << >> /\ index' = 1 /\ scroll' = 0
        /\ request' = (CHOOSE r \in Requests : TRUE)
        /\ card' = NoCard /\ sdMounted' = FALSE /\ changes' = 0
        /\ cancel' = FALSE /\ astray' = FALSE /\ lost' = FALSE
    BY <1>2 DEF Done, Empty, Goto
  <2>2. << >> \in Seq(Paths) /\ request' \in Requests /\ changes' \in 0 .. MaxCards
    BY <2>1, EmptySeq, SelectorFacts
  <2>3. index' \in Nat \ {0} /\ scroll' \in Nat /\ list' \in Seq(Paths)
    BY <2>1, <2>2
  <2>4. {sdMounted', cancel', astray', lost'} \subseteq BOOLEAN /\ (sdMounted' => card' \in Cards)
    BY <2>1
  <2>5. SelectorTypes'
    BY <2>1, <2>2, <2>3, <2>4 DEF SelectorTypes
  <2> QED BY <2>1, <2>5, NotReading DEF Elsewhere
<1> QED BY <1>1, <1>2

\* Cards come and go, HOME is pressed, other entries of the menu run.
LEMMA OutsideStep ==
  ASSUME SelectorInv, OtherEntry \/ menuProcess \/ Pull \/ Insert \/ Cancel \/ panicMsg
  PROVE  SelectorInv'
<1>1. /\ UNCHANGED <<pc, request, res_path, lastname, buffer, astray>> /\ SelectorTypes
  BY DEF OtherEntry, menuProcess, Pull, Insert, Cancel, panicMsg, SelectorInv
<1>2. SelectorTypes' /\ MediumStep
  <2>1. CASE OtherEntry \/ menuProcess \/ panicMsg
    BY <1>1, <2>1 DEF OtherEntry, menuProcess, panicMsg, SelectorTypes, MediumStep,
         medium, buffer
  <2>2. CASE Cancel
    BY <1>1, <2>2 DEF Cancel, SelectorTypes, MediumStep, medium, buffer
  <2>3. CASE Pull \/ Insert
    <3>1. /\ changes' = changes + 1 /\ changes < MaxCards /\ cancel' = cancel
          /\ \/ card' = NoCard /\ sdMounted' = FALSE /\ lost' = TRUE
             \/ card' \in Cards /\ sdMounted' = sdMounted /\ lost' = lost /\ card = NoCard
      BY <2>3 DEF Pull, Insert
    <3>2. changes' \in 0 .. MaxCards
      BY <1>1, <3>1, SelectorFacts DEF SelectorTypes
    <3>3. ~sdMounted'
      BY <1>1, <3>1, MediaFacts DEF SelectorTypes
    <3>4. sdMounted' \in BOOLEAN /\ card' \in Cards \cup {NoCard}
          /\ {cancel', astray', lost'} \subseteq BOOLEAN
      BY <1>1, <3>1 DEF SelectorTypes
    <3>5. MediumStep
      BY <1>1, <3>1, <3>3, MediaFacts DEF MediumStep, SelectorTypes
    <3>6. SelectorTypes'
      BY <1>1, <3>2, <3>3, <3>4 DEF SelectorTypes, buffer
    <3> QED BY <3>5, <3>6
  <2> QED BY <2>1, <2>2, <2>3
<1> QED BY <1>1, <1>2, QuietSelector

LEMMA SelectorStep == SelectorInv /\ [BrowserNext]_bvars => SelectorInv'
<1> SUFFICES ASSUME SelectorInv, [BrowserNext]_bvars PROVE SelectorInv'
  OBVIOUS
<1>1. CASE OtherEntry \/ menuProcess \/ Pull \/ Insert \/ Cancel \/ panicMsg
  BY <1>1, OutsideStep
<1>2. CASE menuFileSelector
  BY <1>2, StartStep
<1>3. CASE Reading
  BY <1>3, StartPathStep, IsFileStep, ListRootStep, OpenListStep, ReadChunkStep,
       ReadDoneStep,
     ReadFailsStep DEF Reading
<1>4. CASE Keys
  BY <1>4, MoveIndexStep, ChooseStep, ChooseEmptyStep, BackStep DEF Keys
<1>5. CASE Cancelled \/ Done
  BY <1>5, EndStep
<1>6. CASE UNCHANGED bvars
  <2>1. /\ UNCHANGED <<pc, request, res_path, lastname, buffer, astray>>
        /\ UNCHANGED <<medium, cancel, lost>> /\ SelectorTypes
    BY <1>6 DEF bvars, SelectorInv
  <2>2. SelectorTypes' /\ MediumStep
    BY <2>1 DEF SelectorTypes, MediumStep, medium, buffer
  <2> QED BY <2>1, <2>2, QuietSelector
<1> QED BY <1>1, <1>2, <1>3, <1>4, <1>5, <1>6 DEF BrowserNext

-----------------------------------------------------------------------------
(* Theorems about Browser.                                                 *)

\* The inductive invariant, for callers that close in any order.
LEMMA BrowserAlways == BrowserSpec => []BrowserIndInv
<1>1. BrowserInit => BrowserIndInv
  <2>1. BrowserInit => DirHeld
    BY DEF BrowserInit, DirHeld
  <2> QED BY <2>1, TrailInit, SelectorInit DEF BrowserIndInv
<1>2. HandlesTypeOK /\ BrowserIndInv /\ [BrowserNext]_bvars => BrowserIndInv'
  BY TrailStep, DirHeldStep, SelectorStep DEF BrowserIndInv
<1>3. BrowserSpec => []HandlesTypeOK
  BY UsesHandles, HandlesTypeCorrect, PTL
<1> QED BY <1>1, <1>2, <1>3, PTL DEF BrowserSpec

LEMMA Implies ==
  BrowserIndInv => BrowserTypeOK /\ TrailLeads /\ CursorShown /\ PanicIsLoss /\ AnswerFits
<1> SUFFICES ASSUME BrowserIndInv
             PROVE  BrowserTypeOK /\ TrailLeads /\ CursorShown /\ PanicIsLoss /\ AnswerFits
  OBVIOUS
<1>1. BrowserTypeOK
  BY DEF BrowserIndInv, Trail, SelectorInv, SelectorTypes, BrowserTypeOK
<1>2. TrailLeads /\ CursorShown /\ PanicIsLoss
  BY DEF BrowserIndInv, Trail, SelectorInv
<1>3. AnswerFits
  BY DEF BrowserIndInv, SelectorInv, PathOK, AnswerOK, Known, AnswerFits
<1> QED BY <1>1, <1>2, <1>3

\* The cursor and the way back are right and the answer is what the caller asked
\* for, wherever the card is pulled and whatever cannot be read, for any menus,
\* media, sizes of the list and the window.
THEOREM AnswerFitsHolds ==
  BrowserSpec => [](BrowserTypeOK /\ TrailLeads /\ CursorShown /\ PanicIsLoss /\ AnswerFits)
BY BrowserAlways, Implies, PTL

\* When all callers close first what they opened last, or keep at most two
\* directories open, the selector also leaves none open, however the reading of
\* one ends.
THEOREM BrowserInvHolds ==
  ASSUME Nested \/ MaxHeld <= 2
  PROVE  BrowserSpec => []BrowserInv
<1>1. Owned /\ BrowserIndInv => DirClosed
  <2> SUFFICES ASSUME Owned, BrowserIndInv, Running, pc \notin {"wasDir", "read", "close", "menu"}
               PROVE  dheld = << >> /\ dHandles = 0
    BY DEF DirClosed
  <2>1. dheld = << >>
    BY DEF BrowserIndInv, DirHeld
  <2>2. dHandles = Len(dheld)
    BY DEF Owned, Own
  <2> QED BY <2>1, <2>2, EmptySeq
<1>2. BrowserSpec => []Owned
  BY UsesHandles, OwnedAlways, PTL
<1>3. Owned /\ BrowserIndInv => BrowserInv
  BY <1>1, Implies DEF BrowserInv
<1> QED BY <1>2, <1>3, BrowserAlways, PTL

=============================================================================
