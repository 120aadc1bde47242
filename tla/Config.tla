------------------------------- MODULE Config -------------------------------
(***************************************************************************)
(* The configuration of fastboot3DS (config.c): loaded at the start from   *)
(* the SD card or the NAND, edited in memory by the menus together with    *)
(* its text, moved between the two drives, and written back when the       *)
(* program is left.                                                        *)
(*                                                                         *)
(* Writing a file takes three steps, between which the power may be lost   *)
(* and the card pulled: fsCreateFileWithPath truncates the file, fWrite    *)
(* leaves the directory entry alone, fSync (or fClose) updates it.         *)
(***************************************************************************)
EXTENDS ConfigText

CONSTANTS
  ButtonsOf,      \* the buttons key of every path key that is a boot slot
  DataOf,         \* the data the menus may set, by key
  Texts,          \* texts a user may have put on a drive
  DefaultText,    \* "BOOT_MODE = Normal"
  NoFile,
  SectorSize,     \* a write that fails leaves whole sectors
  MaxEdits,       \* bound: edits of a behaviour
  MaxStarts       \* bound: starts of the program

\* A value is written in one line, and no file and no buffer are not texts.
ASSUME ValueAssumption ==
  \A key \in Keys : \A data \in DataOf[key] :
    Accepts(key, data) => Format(key, data) \in Seq(Tokens \ {EOL})
\* The menus set numbers, and combinations of the buttons in convTable.
ASSUME DataAssumption ==
  /\ \A key \in IntKeys : DataOf[key] \subseteq Digits
  /\ \A key \in PadKeys : DataOf[key] \subseteq SUBSET ToSet(Buttons)
ASSUME FileAssumption ==
  /\ Texts \union {DefaultText} \subseteq Seq(Tokens)
  /\ NoFile \notin Seq(Tokens) /\ Null \notin Seq(Tokens)
ASSUME ConfigAssumption ==
  /\ DOMAIN ButtonsOf \subseteq PathKeys
  /\ \A key \in DOMAIN ButtonsOf : ButtonsOf[key] \in PadKeys
  /\ SectorSize \in Nat \ {0} /\ MaxEdits \in Nat /\ MaxStarts \in Nat

VARIABLES
  filebuf,        \* the text in memory, Null if not allocated
  attributes,
  configLoaded,
  configDirty,
  filepath,       \* "sd" or "nand"
  files,          \* the file on each drive, as it would be after a reset
  sdPresent,
  job,            \* why a file is written: "create", "move" or "save", or
                  \* "replace": created although it is there
  at,             \* the next step of the job
  edits, starts,
  refused,        \* history: a write found no room in the buffer
  twice,          \* history: the keys the loaded text defines twice
  saved           \* history: the text that was last loaded or stored

memory == <<filebuf, attributes, configLoaded, configDirty>>
history == <<edits, starts, refused, twice>>
vars == <<memory, filepath, files, sdPresent, job, at, history, saved>>

Drives == {"sd", "nand"}
OtherDrive == IF filepath = "sd" THEN "nand" ELSE "sd"
Reachable == filepath = "sd" => sdPresent
Idle == job = "none"
Creates == {"create", "replace"}

-----------------------------------------------------------------------------
(* Loading.                                                                *)

\* unloadConfigFile, and what a reset leaves.
Unload ==
  /\ filebuf' = Null
  /\ attributes' = [key \in Keys |-> NoAttribute]
  /\ configLoaded' = FALSE /\ configDirty' = FALSE /\ refused' = FALSE
  /\ twice' = {}

TurnOff == /\ Unload
           /\ job' = "off" /\ at' = "none" /\ filepath' = "nand"

\* The drive whose file is used; with no file at all one is created there.
LoadPath(content, present) ==
  IF present /\ (content["sd"] # NoFile \/ content["nand"] = NoFile)
  THEN "sd" ELSE "nand"

\* Reads the file of a drive.  It may be too large, or not readable.
ReadFile(drive) ==
  /\ job' = "none" /\ at' = "none" /\ UNCHANGED <<files, sdPresent, edits>>
  /\ \/ /\ Len(files[drive]) <= MaxFileSize
        /\ filebuf' = files[drive] /\ saved' = files[drive]
        /\ attributes' = parseConfigFile(files[drive])
        /\ configLoaded' = TRUE /\ configDirty' = FALSE /\ refused' = FALSE
        /\ twice' = DefinedTwice(files[drive])
     \/ Unload /\ UNCHANGED saved

\* main calls loadConfigFile.  A file that fStat fails on, for whatever
\* reason, counts as missing, and the one to use is then created.
PowerOn ==
  /\ job = "off" /\ starts < MaxStarts /\ starts' = starts + 1
  /\ \E found \in SUBSET {drive \in Drives : files[drive] # NoFile} :
       /\ filepath' = LoadPath([drive \in Drives |->
                                 IF drive \in found THEN files[drive] ELSE NoFile], sdPresent)
       /\ IF filepath' \in found THEN ReadFile(filepath')
          ELSE /\ Unload /\ at' = "create"
               /\ job' = IF files[filepath'] = NoFile THEN "create" ELSE "replace"
               /\ UNCHANGED <<files, sdPresent, edits, saved>>

\* The file that was created is read like any other.
LoadCreated ==
  /\ at = "load"
  /\ IF Reachable THEN ReadFile(filepath)
     ELSE /\ Unload /\ job' = "none" /\ at' = "none"
          /\ UNCHANGED <<files, sdPresent, edits, saved>>
  /\ UNCHANGED <<filepath, starts>>

-----------------------------------------------------------------------------
(* writeConfigFile, and what its callers do with the result.               *)

TextToWrite == IF job \in Creates THEN DefaultText ELSE filebuf

\* Mutant: the change is forgotten.
MoveEndsClean(ok) ==
  /\ filepath' = IF ok THEN filepath ELSE OtherDrive
  /\ configDirty' = FALSE

\* moveConfigFile takes the location back if the write failed.
MoveEnds(ok) ==
  /\ filepath' = IF ok THEN filepath ELSE OtherDrive
  /\ configDirty' = ~ok

\* The only copy is being rewritten, moved off the SD card, or replaced by a
\* new file because the start could not look at it.
AtRisk == \/ job = "save"
          \/ job = "move" /\ filepath = "nand"
          \/ job = "replace" /\ at # "load"

EndWrite(ok) ==
  /\ saved' = IF ok THEN TextToWrite ELSE IF AtRisk THEN Null ELSE saved
  /\ UNCHANGED <<sdPresent, edits, starts>>
  /\ \/ /\ job \in Creates /\ UNCHANGED <<memory, filepath, refused, twice>>
        /\ IF ok THEN at' = "load" /\ UNCHANGED job
           ELSE at' = "none" /\ job' = "none"
     \/ /\ job = "move" /\ MoveEnds(ok)
        /\ job' = "none" /\ at' = "none"
        /\ UNCHANGED <<filebuf, attributes, configLoaded, refused, twice>>
     \/ job = "save" /\ TurnOff

GoOn(next) ==
  /\ at' = next
  /\ UNCHANGED <<memory, filepath, sdPresent, job, history, saved>>

Truncated == [files EXCEPT ![filepath] = <<>>]

\* fsCreateFileWithPath.  A failure may come after the file was truncated.
CreateFile ==
  /\ at = "create"
  /\ \/ /\ Reachable /\ files' = Truncated
        /\ GoOn(IF TextToWrite = <<>> THEN "sync" ELSE "write")
     \/ /\ files' \in {files} \union IF Reachable THEN {Truncated} ELSE {}
        /\ EndWrite(FALSE)

\* fOpen and fWrite.  fClose keeps what a failed fWrite had written.
WriteData ==
  /\ at = "write"
  /\ \/ Reachable /\ GoOn("sync") /\ UNCHANGED files
     \/ ~Reachable /\ EndWrite(FALSE) /\ UNCHANGED files
     \/ /\ Reachable /\ EndWrite(FALSE)
        /\ \E n \in 0 .. Len(TextToWrite) :
             /\ n % SectorSize = 0
             /\ files' = [files EXCEPT ![filepath] = SubSeq(TextToWrite, 1, n)]

Stored == [files EXCEPT ![filepath] = TextToWrite]

\* Mutant: no fSync, the data is written some time after fClose.
SyncMissing ==
  /\ at = "sync"
  /\ files' \in {files, Stored} /\ EndWrite(TRUE)

\* fSync.  The failed one may have updated the directory entry.
Sync ==
  /\ at = "sync"
  /\ \/ Reachable /\ files' = Stored /\ EndWrite(TRUE)
     \/ /\ files' \in {files} \union IF Reachable THEN {Stored} ELSE {}
        /\ EndWrite(FALSE)

\* menuMoveConfig: both drives are mounted.  On the SD card the file is
\* deleted first; the result of fUnlink is ignored.
Move ==
  /\ Idle /\ configLoaded /\ sdPresent
  /\ job' = "move"
  /\ IF filepath = "sd" THEN at' = "unlink" /\ UNCHANGED filepath
     ELSE at' = "create" /\ filepath' = "sd"
  /\ UNCHANGED <<memory, files, sdPresent, history, saved>>

Unlink ==
  /\ at = "unlink"
  /\ files' \in {files} \union IF sdPresent
                               THEN {[files EXCEPT !["sd"] = NoFile]} ELSE {}
  /\ filepath' = "nand" /\ at' = "create"
  /\ UNCHANGED <<memory, sdPresent, job, history, saved>>

\* The end of main: power off, reboot or launch.
Leave ==
  /\ Idle
  /\ IF configDirty
     THEN /\ job' = "save" /\ at' = "create"
          /\ UNCHANGED <<memory, filepath, refused, twice>>
     ELSE TurnOff
  /\ UNCHANGED <<files, sdPresent, edits, starts, saved>>

-----------------------------------------------------------------------------
(* Edits.                                                                  *)

State == [text |-> filebuf, attributes |-> attributes]

Edited(state) ==
  /\ filebuf' = state.text /\ attributes' = state.attributes
  /\ configDirty' = TRUE /\ edits' = edits + 1
  /\ UNCHANGED <<starts, twice, saved, configLoaded, filepath, files,
                 sdPresent, job, at>>

MayEdit == Idle /\ configLoaded /\ edits < MaxEdits

\* configSetKeyData; data that the write function refuses changes nothing.
SetKey(key) ==
  /\ MayEdit
  /\ \E data \in DataOf[key] :
       /\ Accepts(key, data)
       /\ Edited(writeAttribute(State, key, data))
       /\ refused' = (refused \/ ~HasRoom(State, key, data))

\* configDeleteKey.
Deleted(state, key) ==
  IF Removable(state.attributes[key]) THEN removeDefinition(state, key)
  ELSE state
DeleteKey(key) ==
  /\ MayEdit /\ Removable(attributes[key])
  /\ Edited(Deleted(State, key)) /\ UNCHANGED refused

\* menuSetupBootSlot with bit 4 of its parameter: both keys of a slot.
ResetSlot(key) ==
  /\ MayEdit
  /\ Removable(attributes[key]) \/ Removable(attributes[ButtonsOf[key]])
  /\ Edited(Deleted(Deleted(State, ButtonsOf[key]), key))
  /\ UNCHANGED refused

-----------------------------------------------------------------------------
(* The world around it.                                                    *)

PowerLoss ==
  /\ job # "off" /\ TurnOff
  /\ saved' = IF AtRisk THEN Null ELSE saved
  /\ UNCHANGED <<files, sdPresent, edits, starts>>

MoveCard ==
  /\ sdPresent' = ~sdPresent
  /\ UNCHANGED <<memory, filepath, files, job, at, history, saved>>

Init ==
  /\ filebuf = Null /\ attributes = [key \in Keys |-> NoAttribute]
  /\ configLoaded = FALSE /\ configDirty = FALSE /\ filepath = "nand"
  /\ files \in {f \in [Drives -> Texts \union {NoFile}] :
                  f["sd"] = NoFile \/ f["nand"] \in {NoFile, DefaultText}}
  /\ sdPresent \in BOOLEAN /\ job = "off" /\ at = "none"
  /\ edits = 0 /\ starts = 0 /\ refused = FALSE /\ twice = {} /\ saved = Null

Next ==
  \/ PowerOn \/ LoadCreated
  \/ CreateFile \/ WriteData \/ Sync
  \/ Move \/ Unlink \/ Leave
  \/ \E key \in Keys : SetKey(key) \/ DeleteKey(key)
  \/ \E key \in DOMAIN ButtonsOf : ResetSlot(key)
  \/ PowerLoss \/ MoveCard

Spec == Init /\ [][Next]_vars

-----------------------------------------------------------------------------
(* Properties.                                                             *)

\* The text in memory never outgrows its buffer, and a file is written only
\* while there is a text to write.
ConfigTypeOK ==
  /\ configLoaded <=> filebuf # Null
  /\ configLoaded => Len(filebuf) <= MaxFileSize
  /\ DOMAIN attributes = Keys
  /\ \A key \in Keys : attributes[key].textData \in Nat
                    /\ attributes[key].textLength \in Nat
  /\ configDirty => configLoaded
  /\ filepath \in Drives /\ DOMAIN files = Drives
  /\ job \in {"off", "none", "create", "replace", "move", "save"}
  /\ at \in {"none", "unlink", "create", "write", "sync", "load"}
  /\ job \in {"off", "none"} <=> at = "none"
  /\ job \in {"move", "save"} => configLoaded

\* The pointers that every edit shifts keep pointing at the value of a
\* definition of their key, and, if no write found the buffer full, the
\* length is that of the value and all data has its text.
AttributesPoint ==
  configLoaded =>
    \A key \in Keys :
      LET attr == attributes[key]
      IN /\ attr.textData # 0 => attr.textData \in Definitions(filebuf, key)
         /\ ~refused =>
              IF attr.textData = 0 THEN attr = NoAttribute
              ELSE attr.textLength = parseDefinition(filebuf, attr.textData)

\* The texts that are put on the drives have no line that begins with a number.
NumbersApart == \A text \in Texts \union {DefaultText} : NoNumbers(text)

\* What the menus show is what the next start will load: parsing the text
\* anew gives the attributes that the edits have left in memory.  Keys that
\* the loaded text defines twice are excepted (the second definition comes to
\* light when the first is deleted), and so are full buffers.  It is said of
\* texts with NumbersApart: atoi reads an empty number on in the next line,
\* which may be another one after an edit.
RoundTrip ==
  configLoaded /\ ~refused =>
    \A key \in Keys \ twice :
      attributes[key] = parseConfigFile(filebuf)[key]

\* An edit of a key changes no other line of the text, comments, unknown
\* lines and unused duplicates included.
EditsKeepOthers ==
  [][edits' > edits =>
       LET changed == {key \in Keys :
                         \/ attributes[key].data # attributes'[key].data
                         \/ ValueText(filebuf, attributes[key].textData)
                              # ValueText(filebuf', attributes'[key].textData)}
       IN LinesBeside(filebuf, {attributes[key].textData : key \in changed})
          = LinesBeside(filebuf',
                        {attributes'[key].textData : key \in changed})]_vars

\* A configuration without unsaved changes is the one in the file it came
\* from, whatever failed before.
CleanIsStored ==
  configLoaded /\ Idle /\ ~configDirty => files[filepath] = filebuf

\* A configuration that was loaded or stored survives whatever happens, power
\* losses, pulled cards and failed writes included, at any time but while it is
\* rewritten in place, moved off the SD card, or taken for missing at a start:
\* config.c:160, 162 and 178 do not ask why fStat failed before config.c:188
\* truncates the file.  In these three intervals the code keeps no copy.
SavedSurvives ==
  saved # Null => AtRisk \/ \E drive \in Drives : files[drive] = saved

\* A configuration that was moved successfully is the one the next start
\* finds.
MovedIsFound ==
  [][job = "move" /\ Idle' /\ ~configDirty' =>
       LoadPath(files', TRUE) = filepath']_vars

\* The text fits the buffer, and the pointers point at the values of their keys.
ConfigInv == ConfigTypeOK /\ AttributesPoint

=============================================================================
