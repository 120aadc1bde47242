------------------------------ MODULE NandTools ------------------------------
(***************************************************************************)
(* The NAND backup and restore tools of the ARM11 menu (menuBackupNand,    *)
(* menuRestoreNand) as clients of the storage stack: the calls they make,  *)
(* in order, and every way out of them, while the user may pull, insert    *)
(* and swap the SD card.  Module NandProtect looks at which sectors a      *)
(* restore writes; here a chunk is only written or not.                    *)
(***************************************************************************)
EXTENDS Storage

CONSTANTS
  Chunks,        \* DEVICE_BUFSIZE blocks in a NAND image
  StackSurvives  \* may an uninitialised fpath hold the path of the last backup?

ASSUME ChunkAssumption == Chunks \in Nat \ {0}
ASSUME StackAssumption == StackSurvives \in BOOLEAN

VARIABLES
  tool,      \* "backup" or "restore"
  pc,        \* where the tool stands; "menu" when none runs
  file,      \* fHandle: "closed", "open", or "stale" when its volume is gone
  buf,       \* devBuf.mem # NULL
  pos,       \* chunks transferred, p in the loop
  outcome,   \* the tool's result, MENU_OK or MENU_FAIL
  home,      \* fpath: the card that holds the file of that name
  images,    \* cards that hold a whole NAND image
  partial,   \* cards that hold an incomplete backup
  upset      \* history: the card was pulled while a tool ran, or raw access
             \* could not be given back

toolVars == <<tool, pc, file, buf, pos, outcome, home, images, partial, upset>>
vars == <<storageVars, toolVars>>

Transfer == {"read", "write", "poll"}
Exits == {"finalize", "finalizing", "close", "giveUp", "discard", "prompt", "unlink"}
Steps == {"menu", "ensure", "ensuring", "size", "serial", "select", "open", "reserve", "prepare", "buffer"}
           \cup Transfer \cup Exits

CtrNand == LastDrive

Goto(s) == pc' = s

-----------------------------------------------------------------------------
(* Calls of the server that return at once; the guards come from Idle.     *)

\* A call with a path on the SD card succeeds if its volume can be used.
AccessSd == CallAccess(SDMC) /\ ret' = "ok"
NoAccessSd ==
  \/ CallAccess(SDMC) /\ ret' = "error"
  \/ Idle /\ SDMC \notin dev.reg /\ UNCHANGED storageVars  \* FR_NOT_ENABLED

\* The file's volume was not dropped and its device is there (validate).
FileUsable == file = "open" /\ Active(dev, card, SDMC)

-----------------------------------------------------------------------------
(* The tools up to the transfer.                                           *)

\* fpath is not initialised, and menuBackupNand unlinks it on every failure.
StartTool(t) ==
  /\ pc = "menu" /\ Idle
  /\ tool' = t /\ Goto("ensure")
  /\ pos' = 0 /\ outcome' = "fail"
  /\ home' \in {NoCard} \cup
       (IF StackSurvives /\ t = "backup" /\ tool = "backup" THEN {home} ELSE {})
  /\ UNCHANGED <<storageVars, file, buf, images, partial, upset>>

\* fsEnsureMounted("sdmc:").
EnsureSd ==
  /\ pc = "ensure" /\ Idle
  /\ IF SDMC \in dev.mounted THEN Goto("size") /\ UNCHANGED storageVars
     ELSE Goto("ensuring") /\ CallMount(SDMC)
  /\ UNCHANGED <<tool, file, buf, pos, outcome, home, images, partial, upset>>

\* Mutant: the tool tries until there is a card.
EnsuredSdRetries ==
  /\ pc = "ensuring" /\ Idle
  /\ Goto(IF ret = "ok" THEN "size" ELSE "ensure")
  /\ UNCHANGED <<storageVars, tool, file, buf, pos, outcome, home, images, partial, upset>>
EnsuredSd ==
  /\ pc = "ensuring" /\ Idle
  /\ Goto(IF ret = "ok" THEN "size" ELSE "prompt")
  /\ UNCHANGED <<storageVars, tool, file, buf, pos, outcome, home, images, partial, upset>>

\* fGetDeviceSize returns 0 while the raw NAND device is closed.
NandSize ==
  /\ pc = "size" /\ Idle
  /\ Goto(IF ~dev.rnand THEN "prompt" ELSE IF tool = "backup" THEN "serial" ELSE "select")
  /\ UNCHANGED <<storageVars, tool, file, buf, pos, outcome, home, images, partial, upset>>

\* fsQuickRead of nand:/rw/sys/SecureInfo_A or _B, for the name of a backup.
ReadSerial ==
  /\ pc = "serial"
  /\ \/ CallAccess(CtrNand)
     \/ Idle /\ CtrNand \notin dev.reg /\ UNCHANGED storageVars
  /\ Goto("open")
  /\ UNCHANGED <<tool, file, buf, pos, outcome, home, images, partial, upset>>

\* The user leaves the file selector of a restore, with an image or with HOME;
\* askConfirmation is left with B the same way.
Select ==
  /\ pc = "select" /\ Idle
  /\ Goto("open") \/ Goto("menu")
  /\ UNCHANGED <<storageVars, tool, file, buf, pos, outcome, home, images, partial, upset>>

\* fsCreateFileWithPath and fOpen of a new backup; fVerifyNandImage and fOpen of
\* the image to restore.
OpenFile ==
  /\ pc = "open" /\ AccessSd
  /\ tool = "restore" => card \in images
  /\ file' = "open" /\ home' = card
  /\ partial' = IF tool = "backup" THEN partial \cup {card} ELSE partial
  /\ Goto(IF tool = "backup" THEN "reserve" ELSE "prepare")
  /\ UNCHANGED <<tool, buf, pos, outcome, images, upset>>

\* Not an image of this console, or the file cannot be opened.
OpenFails ==
  /\ pc = "open"
  /\ AccessSd \/ NoAccessSd
  /\ Goto("prompt")
  /\ UNCHANGED <<tool, file, buf, pos, outcome, home, images, partial, upset>>

\* fLseek to the size of the NAND allocates the clusters of the backup.
Reserve ==
  /\ pc = "reserve" /\ Idle
  /\ \/ FileUsable /\ Goto("prepare")
     \/ Goto("giveUp")
  /\ UNCHANGED <<storageVars, tool, file, buf, pos, outcome, home, images, partial, upset>>

Prepare ==
  /\ pc = "prepare" /\ CallPrepare
  /\ Goto("buffer")
  /\ UNCHANGED <<tool, file, buf, pos, outcome, home, images, partial, upset>>

\* Raw access is still held: both tools close and delete the file, the restore
\* tool the image the user selected.
PrepareFails ==
  /\ pc = "prepare" /\ PrepareRefused
  /\ Goto("giveUp")
  /\ UNCHANGED <<tool, file, buf, pos, outcome, home, images, partial, upset>>

\* fCreateDeviceBuffer, then the size check and fSetNandProtection of a restore.
Buffer ==
  /\ pc = "buffer" /\ Idle /\ ~buf
  /\ buf' = TRUE
  /\ \/ Goto("read")
     \/ tool = "restore" /\ Goto("finalize")
  /\ UNCHANGED <<storageVars, tool, file, pos, outcome, home, images, partial, upset>>

-----------------------------------------------------------------------------
(* The transfer.                                                           *)

\* fReadToDeviceBuffer: from the raw NAND, or from the image.
Source == IF tool = "backup" THEN raw /\ dev.rnand ELSE FileUsable
\* fsWriteFromDeviceBuffer: to the file, or to the raw NAND.
Target == IF tool = "backup" THEN FileUsable ELSE raw /\ dev.rnand

ReadChunk ==
  /\ pc = "read" /\ Idle
  /\ \/ Source /\ Goto("write")
     \/ Goto("finalize")
  /\ UNCHANGED <<storageVars, tool, file, buf, pos, outcome, home, images, partial, upset>>

WriteChunk ==
  /\ pc = "write" /\ Idle
  /\ \/ Target /\ Goto("poll") /\ pos' = pos + 1
     \/ Goto("finalize") /\ pos' = pos
  /\ UNCHANGED <<storageVars, tool, file, buf, outcome, home, images, partial, upset>>

\* userCancelHandler: a backup may be cancelled, both stop when the power
\* button is held.
Poll ==
  /\ pc = "poll" /\ Idle
  /\ \/ Goto("finalize") /\ outcome' = "cancel"
     \/ pos < Chunks /\ Goto("read") /\ outcome' = outcome
     \/ pos = Chunks /\ Goto("finalize") /\ outcome' = "ok"
  /\ UNCHANGED <<storageVars, tool, file, buf, pos, home, images, partial, upset>>

-----------------------------------------------------------------------------
(* The ways out.                                                           *)

Finalize ==
  /\ pc = "finalize" /\ CallFinalize
  /\ Goto("finalizing")
  /\ UNCHANGED <<tool, file, buf, pos, outcome, home, images, partial, upset>>

\* The result of fFinalizeRawAccess is printed at most; fFreeDeviceBuffer.
Finalized ==
  /\ pc = "finalizing" /\ Idle
  /\ buf' = FALSE
  /\ upset' = (upset \/ ret = "error")
  /\ Goto("close")
  /\ UNCHANGED <<storageVars, tool, file, pos, outcome, home, images, partial>>

\* Mutant: the file of a failed backup is not deleted.
NextAfterCloseForgets == IF outcome = "cancel" THEN "menu" ELSE "prompt"
\* A cancelled tool skips the prompt; a cancelled backup is deleted.
NextAfterClose ==
  IF outcome # "cancel" THEN "prompt"
  ELSE IF tool = "backup" THEN "unlink" ELSE "menu"

\* fClose writes the directory entry of a backup, if it still can.
Commit ==
  IF tool = "backup" /\ outcome = "ok" /\ FileUsable
  THEN images' = images \cup {home} /\ partial' = partial \ {home}
  ELSE UNCHANGED <<images, partial>>

Close ==
  /\ pc \in {"close", "giveUp"} /\ Idle
  /\ file' = "closed"
  /\ Commit
  /\ Goto(IF pc = "close" THEN NextAfterClose ELSE "discard")
  /\ UNCHANGED <<storageVars, tool, buf, pos, outcome, home, upset>>

\* Mutant: the restore tool leaves like the backup tool does.
PromptAlwaysUnlinks ==
  /\ pc = "prompt" /\ Idle
  /\ Goto(IF outcome # "ok" THEN "unlink" ELSE "menu")
  /\ UNCHANGED <<storageVars, tool, file, buf, pos, outcome, home, images, partial, upset>>
\* outputEndWait returns when the user presses B or HOME.
Prompt ==
  /\ pc = "prompt" /\ Idle
  /\ Goto(IF tool = "backup" /\ outcome # "ok" THEN "unlink" ELSE "menu")
  /\ UNCHANGED <<storageVars, tool, file, buf, pos, outcome, home, images, partial, upset>>

\* fUnlink(fpath): on whatever card is in the slot.  A backup's path names the
\* incomplete file, or, if it was left over from an earlier run, a whole one.
Unlink ==
  /\ pc \in {"discard", "unlink"}
  /\ \/ /\ AccessSd /\ card = home
        /\ home' = NoCard
        /\ IF tool = "backup" /\ home \in partial
           THEN partial' = partial \ {home} /\ UNCHANGED images
           ELSE images' = images \ {home} /\ UNCHANGED partial
     \/ AccessSd /\ card # home /\ UNCHANGED <<home, images, partial>>
     \/ NoAccessSd /\ UNCHANGED <<home, images, partial>>
  /\ Goto(IF pc = "discard" THEN "prompt" ELSE "menu")
  /\ UNCHANGED <<tool, file, buf, pos, outcome, upset>>

-----------------------------------------------------------------------------
(* The rest of the system.                                                 *)

\* The file selector, of the menu or of a restore, mounts every drive it can.
Browse ==
  /\ pc \in {"menu", "select"} /\ \E i \in Drives : CallMount(i)
  /\ UNCHANGED toolVars

ServerSteps == ServerStep /\ UNCHANGED toolVars

PullCard ==
  /\ CardRemove
  /\ upset' = (upset \/ pc # "menu")
  /\ UNCHANGED <<tool, pc, file, buf, pos, outcome, home, images, partial>>
InsertCard == CardInsert /\ UNCHANGED toolVars

\* The interrupt drops the volume and with it every open file of the drive.
Interrupt ==
  /\ SdioHandler
  /\ file' = IF file = "open" /\ SDMC \in dev.mounted THEN "stale" ELSE file
  /\ UNCHANGED <<tool, pc, buf, pos, outcome, home, images, partial, upset>>

Init ==
  /\ StorageInit
  /\ tool = "backup" /\ pc = "menu"
  /\ file = "closed" /\ buf = FALSE /\ pos = 0 /\ outcome = "fail"
  /\ home = NoCard /\ images = FatCards /\ partial = {} /\ upset = FALSE

ToolStep ==
  \/ EnsureSd \/ EnsuredSd \/ NandSize \/ ReadSerial \/ OpenFile \/ OpenFails
  \/ Reserve \/ Prepare \/ PrepareFails \/ Buffer
  \/ ReadChunk \/ WriteChunk \/ Poll
  \/ Finalize \/ Finalized \/ Close \/ Unlink

Next ==
  \/ ToolStep \/ ServerSteps \/ Select \/ Prompt
  \/ \E t \in {"backup", "restore"} : StartTool(t)
  \/ Browse \/ PullCard \/ InsertCard \/ Interrupt

\* The CPUs keep running; the user may never press a button or touch the card.
Fairness == WF_vars(ToolStep) /\ WF_vars(ServerSteps)
Spec == Init /\ [][Next]_vars /\ Fairness

-----------------------------------------------------------------------------
(* Properties.                                                             *)

ToolTypes ==
  /\ tool \in {"backup", "restore"} /\ pc \in Steps
  /\ file \in {"closed", "open", "stale"} /\ buf \in BOOLEAN
  /\ pos \in 0 .. Chunks /\ outcome \in {"ok", "fail", "cancel"}
  /\ home \in Cards \cup {NoCard}
  /\ images \subseteq FatCards /\ partial \subseteq FatCards
  /\ upset \in BOOLEAN
ToolsTypeOK == StorageTypeOK /\ ToolTypes

\* From fPrepareRawAccess to fFinalizeRawAccess the tool has the NAND for
\* itself: no NAND drive is mounted and the raw device a backup reads stays
\* open, although an initialisation of the SD card would close it and mount NAND
\* drives.  A restore may find it closed: nothing asks for the NAND again behind
\* the file selector, where a swapped card can have been initialised.
TransferExclusive ==
  pc \in Transfer \cup {"buffer", "finalize"} =>
    /\ raw /\ dev.mounted \cap NandDrives = {}
    /\ tool = "backup" => dev.rnand

\* No way out of a tool leaves the device buffer or a file handle behind: the
\* next tool would panic with "Out of memory" or run out of handles.
NoLeak == pc = "menu" => file = "closed" /\ ~buf

\* As long as nobody pulls the card under a tool and the NAND answers, every
\* way out gives raw access back and leaves no incomplete backup, and a backup
\* that was reported as finished is on its card.
LeavesNoTrace ==
  ~upset => /\ pc = "menu" => ~raw /\ partial = {}
            /\ pc = "prompt" /\ tool = "backup" /\ outcome = "ok" => home \in images

\* A tool deletes a whole image in one situation only: fPrepareRawAccess has
\* refused a restore because raw access is still held from an earlier tool.
ImagesKept == [][images \subseteq images' \/ raw]_vars

\* A tool that was started, and one that was given its image, ends at its prompt
\* or in the menu or asks for an image, unless the ARM9 panics: no loss of the
\* card keeps it from getting there.
ToolsEnd == pc \in {"ensure", "open"} ~> (pc \in {"prompt", "menu", "select"} \/ dev.panic)

\* Behind the transfer, "// NAND access finalized".
RawReleased == pc = "prompt" => ~raw

\* A tool has the NAND for itself while it works, and back in the menu it
\* holds nothing.
ToolsInv == ToolsTypeOK /\ TransferExclusive /\ NoLeak

=============================================================================
