-------------------------------- MODULE Firm --------------------------------
(***************************************************************************)
(* Firmware images: how the ARM9 loads and verifies one (arm9/firm.c), how *)
(* it is written to a FIRM partition block by block and how an update of   *)
(* fastboot3DS is checked (arm9/firmwriter.c), the switch that makes the   *)
(* next start dump the boot ROMs, the menu functions that use them         *)
(* (menu_func.c), and power loss at every sector.                          *)
(*                                                                         *)
(* Lengths are in halves of a sector. Contents are pieces: piece <<f, u>>  *)
(* is the half sector u of image f, the header is the first two.           *)
(***************************************************************************)
EXTENDS Naturals, Sequences, FiniteSetsExt

CONSTANTS
  Images,          \* name -> what is in the file
  MaxSize,         \* FIRM_MAX_SIZE, and the size of a FIRM partition
  BlkSize,         \* FIRMWRITER_BLK_SIZE
  Installed,       \* partition -> the image it holds at the start
  VERS,            \* image -> its version, 0 for other firmware
  MaxJobs          \* bound on what the user asks for

Header == 2
Parts == {"firm0", "firm1"}
NoImage == "none"
Names == DOMAIN Images

ASSUME SizesAssumption ==
  /\ {MaxSize, BlkSize} \subseteq Nat /\ MaxSize > Header /\ BlkSize % 2 = 0 /\ BlkSize > 0
  /\ MaxJobs \in Nat

(* A section has its place in the file and one in memory. What the header    *)
(* says of a file need not be true of it.                                    *)
Addresses == {"ram", "io", "fcram"}
firm_sectionheader == [offset : Nat, size : Nat, address : Addresses]
ASSUME ImagesAssumption ==
  /\ \A f \in Names : Images[f] \in [sections : Seq(firm_sectionheader), size : Nat,
                                    signed : BOOLEAN, intact : BOOLEAN, entry9 : BOOLEAN]
  /\ NoImage \notin Names
  /\ VERS \in [Names -> Nat] /\ Installed \in [Parts -> Names]

VARIABLES
  nand,        \* the pieces of firm0 and behind it firm1
  shax,        \* partition -> section 1 in the header in it has a size
  buffer,      \* the pieces at FIRM_LOAD_ADDR
  running,     \* the program the console runs, and where its dump of the boot ROMs is
  job,         \* what writeFirmPartition is doing
  report,      \* what the last menu function told the user
  jobs,
  lost,        \* history: firmware was installed or launched by hand
  cut          \* history: the last update of firm0 was not completed

vars == <<nand, shax, buffer, running, job, report, jobs, lost, cut>>

-----------------------------------------------------------------------------
(* Images. Superhax lives in section 1 of fastboot3DS: with size 0 it is     *)
(* not there.                                                                *)
Version(f) == IF f \in Names THEN VERS[f] ELSE 0
IsFastboot(f) == Version(f) > 0
Sections(f, hax) ==
  [i \in DOMAIN Images[f].sections |->
     IF IsFastboot(f) /\ i = 2 /\ ~hax
     THEN [Images[f].sections[i] EXCEPT !.size = 0] ELSE Images[f].sections[i]]

Present(s) == s.size # 0
End(s) == s.offset + s.size
Pieces(s) == s.offset .. End(s) - 1
Piece(f, u) == <<f, u>>

(* firm_size: from the last section to the first, those that begin behind *)
(* the ones seen so far.                                                   *)
firm_sizeFirst(secs) ==  \* mutant: ends with the first section
  IF Present(secs[1]) THEN End(secs[1]) ELSE Header

Counted(secs) ==
  {i \in DOMAIN secs :
     /\ Present(secs[i]) /\ secs[i].offset > 0
     /\ \A j \in DOMAIN secs : j > i /\ Present(secs[j]) => secs[j].offset < secs[i].offset}
firm_size(secs) ==
  IF \A i \in Counted(secs) : secs[i].offset < MaxSize /\ End(secs[i]) <= MaxSize
  THEN Max({Header} \cup {End(secs[i]) : i \in Counted(secs)})
  ELSE 0

BootWhitelist == {"ram", "fcram"}
InstallWhitelist == {"ram", "io"}

(* Sections of whole sectors that do not overlap and that the boot ROM can   *)
(* reach: loadVerifyFirm demands neither of an image for menuInstallFirm.    *)
Regular(f) ==
  LET secs == Images[f].sections
  IN \A i \in DOMAIN secs :
       /\ secs[i].offset % 2 = 0 /\ secs[i].size % 2 = 0
       /\ secs[i].address \in InstallWhitelist
       /\ \A j \in DOMAIN secs \ {i} : Pieces(secs[i]) \cap Pieces(secs[j]) = {}

(* The makefile builds a fastboot3DS with superhax between its two programs  *)
(* (src/Makefile:47) before it is signed.                                    *)
Release(f) == IsFastboot(f) /\ Images[f].signed
ASSUME ReleaseAssumption ==
  \A f \in Names : Release(f) =>
    LET secs == Images[f].sections
    IN /\ Regular(f) /\ Images[f].intact
       /\ 2 \in DOMAIN secs =>
            \E i \in DOMAIN secs : Present(secs[i]) /\ secs[i].offset > secs[2].offset

(* The image whose header lies at the begin of some memory. *)
HeaderAt(mem, base) ==
  LET f == mem[base][1]
  IN IF f \in Names /\ mem[base] = Piece(f, 0) /\ mem[base + 1] = Piece(f, 1)
     THEN f ELSE NoImage

BaseShort(p) == IF p = "firm0" THEN 0 ELSE MaxSize - 2  \* mutant: one sector too early
Base(p) == IF p = "firm0" THEN 0 ELSE MaxSize

-----------------------------------------------------------------------------
(* loadVerifyFirm: from a partition as many sectors as firm_size says, from *)
(* a file all of it. What was in the buffer behind it stays. In a partition *)
(* the signature is the one the writer puts in (firmwriter.c:113), not that *)
(* of an update.                                                            *)
Sectors(n) == n \div 2
Covered(n) == 2 * Sectors(n)

LoadPartition(p) ==
  LET f == HeaderAt(nand, Base(p))
      n == IF f = NoImage THEN 0 ELSE firm_size(Sections(f, shax[p]))
  IN [size |-> n, signed |-> FALSE,
      buffer |-> [u \in DOMAIN buffer |->
                    IF u < Header \/ u < Covered(n) THEN nand[Base(p) + u] ELSE buffer[u]]]

LoadFile(f) ==
  LET n == Images[f].size
  IN IF n > MaxSize THEN [size |-> 0, signed |-> FALSE, buffer |-> buffer]
     ELSE [size |-> n, signed |-> Images[f].signed,
           buffer |-> [u \in DOMAIN buffer |-> IF u < n THEN Piece(f, u) ELSE buffer[u]]]

SectionOK(s, size, whitelist) ==
  /\ s.offset < size /\ s.offset >= Header
  /\ s.size < size /\ End(s) <= size
  /\ s.address \in whitelist

(* The console has one of those in firm0, that passed when it was installed. *)
ASSUME InstalledAssumption ==
  LET f == Installed["firm0"]
      secs == Sections(f, FALSE)
  IN /\ Release(f) /\ Images[f].entry9
     /\ \A i \in DOMAIN secs :
          Present(secs[i]) => SectionOK(secs[i], MaxSize, InstallWhitelist)

HashOK(mem, f, s) == Images[f].intact /\ \A u \in Pieces(s) : mem[u] = Piece(f, u)

VerifyFirm(loaded, hax, whitelist) ==
  LET f == HeaderAt(loaded.buffer, 0)
  IN /\ loaded.size > Header
     /\ f # NoImage
     /\ Images[f].entry9
     /\ LET secs == Sections(f, hax)
        IN \A i \in DOMAIN secs :
             Present(secs[i]) => /\ SectionOK(secs[i], loaded.size, whitelist)
                                 /\ HashOK(loaded.buffer, f, secs[i])

-----------------------------------------------------------------------------
(* The boot ROM starts the first partition that is whole. It cannot reach   *)
(* FCRAM; the signature is the one the writer puts in.                      *)
Whole(n, hax, p) ==
  LET f == HeaderAt(n, Base(p))
  IN /\ f # NoImage /\ Images[f].entry9
     /\ LET secs == Sections(f, hax[p])
        IN \A i \in DOMAIN secs :
             Present(secs[i]) =>
               /\ secs[i].address \in InstallWhitelist /\ End(secs[i]) <= MaxSize
               /\ Images[f].intact
               /\ \A u \in Pieces(secs[i]) : n[Base(p) + u] = Piece(f, u)

(* With superhax the boot ROMs stay readable, which a fastboot3DS takes for  *)
(* a request to dump them (start.s:186): __superhaxEnabled, hax here.        *)
Program(f, hax) ==
  [image |-> f, hax |-> hax, dump_bootroms |-> hax,
   at |-> IF hax /\ IsFastboot(f) THEN "start" ELSE "menu"]
Boot9(n, hax) ==
  IF Whole(n, hax, "firm0") THEN Program(HeaderAt(n, 0), hax["firm0"])
  ELSE IF Whole(n, hax, "firm1") THEN Program(HeaderAt(n, MaxSize), hax["firm1"])
  ELSE Program(NoImage, FALSE)

-----------------------------------------------------------------------------
NoJob == [op |-> "none", part |-> "firm0", pos |-> 0, left |-> 0]
NoReport == [op |-> "none", part |-> "firm0", image |-> NoImage, ok |-> FALSE]

InMenu == IsFastboot(running.image) /\ running.at = "menu"
Asked ==
  /\ InMenu /\ job = NoJob
  /\ jobs < MaxJobs
  /\ jobs' = jobs + 1

Failed(op) == report' = [NoReport EXCEPT !.op = op] /\ job' = NoJob

(* "fastboot3DS" at the begin of the second sector of firm0. *)
FastbootInFirm0 == IsFastboot(nand[2][1]) /\ nand[2][2] = 2

(* The size is what firm_size says of the header in the buffer. *)
StartWrite(op, part, mem) ==
  LET n == firm_size(Sections(HeaderAt(mem, 0), FALSE))
  IN IF n = 0 THEN Failed(op)
     ELSE /\ job' = [op |-> op, part |-> part, pos |-> 0, left |-> n]
          /\ report' = NoReport

(* loadVerifyUpdate and menuUpdateFastboot3ds. Dev mode changes only the   *)
(* text of the error when the version is lower than the running one.        *)
UpdateAnyVersion(loaded) ==  \* mutant: the version is not compared
  /\ VerifyFirm(loaded, FALSE, InstallWhitelist)
  /\ loaded.signed /\ IsFastboot(HeaderAt(loaded.buffer, 0))

UpdateOK(loaded) ==
  LET f == HeaderAt(loaded.buffer, 0)
  IN /\ VerifyFirm(loaded, FALSE, InstallWhitelist)
     /\ loaded.signed /\ IsFastboot(f)
     /\ FastbootInFirm0
     /\ VERS[f] >= VERS[running.image]

(* In dev mode the file selector also offers firm1 (menu_fsel.c:152-178).   *)
menuUpdateFastboot3ds(loaded) ==
  /\ Asked
  /\ buffer' = loaded.buffer
  /\ IF UpdateOK(loaded) THEN StartWrite("update", "firm0", loaded.buffer)
     ELSE Failed("update")
  /\ UNCHANGED <<nand, shax, running, lost, cut>>

menuInstallFirm(loaded, p) ==
  /\ Asked
  /\ buffer' = loaded.buffer
  /\ IF VerifyFirm(loaded, FALSE, BootWhitelist)
     THEN StartWrite("install", p, loaded.buffer) ELSE Failed("install")
  /\ lost' = TRUE
  /\ UNCHANGED <<nand, shax, running, cut>>

-----------------------------------------------------------------------------
(* writeFirmPartition, one block per step.                                   *)
WriteSize == IF job.left < BlkSize THEN job.left ELSE BlkSize
Written(sectors) ==
  [u \in DOMAIN nand |->
     LET b == u - Base(job.part)
     IN IF u >= Base(job.part) + job.pos /\ b < job.pos + 2 * sectors
        THEN buffer[b] ELSE nand[u]]
HeaderWritten(sectors) ==
  IF job.pos = 0 /\ sectors > 0 THEN [shax EXCEPT ![job.part] = FALSE] ELSE shax

Reboot(n, hax) ==
  /\ running' = Boot9(n, hax)
  /\ job' = NoJob

Done ==
  /\ report' = [op |-> job.op, part |-> job.part, image |-> HeaderAt(buffer, 0), ok |-> TRUE]
  /\ IF job.op = "update" THEN Reboot(nand', shax') /\ cut' = FALSE
     ELSE job' = NoJob /\ UNCHANGED <<running, cut>>

(* The halves of a sector that were not read back are compared with what    *)
(* malloc left there.                                                       *)
WriteBlock ==
  /\ job # NoJob
  /\ nand' = Written(Sectors(WriteSize))
  /\ shax' = HeaderWritten(Sectors(WriteSize))
  /\ \E same \in BOOLEAN :
       /\ Covered(WriteSize) = WriteSize => same
       /\ IF ~same THEN Failed(job.op) /\ UNCHANGED running /\ cut' = TRUE
          ELSE IF job.left = WriteSize THEN Done
          ELSE /\ job' = [job EXCEPT !.pos = @ + WriteSize, !.left = @ - WriteSize]
               /\ UNCHANGED <<running, report, cut>>
  /\ UNCHANGED <<buffer, jobs, lost>>

WriteFails ==
  /\ job # NoJob
  /\ \E sectors \in 0..Sectors(WriteSize) :
       nand' = Written(sectors) /\ shax' = HeaderWritten(sectors)
  /\ Failed(job.op)
  /\ cut' = TRUE
  /\ UNCHANGED <<buffer, running, jobs, lost>>

PowerLoss ==
  /\ job # NoJob
  /\ \E sectors \in 0..Sectors(WriteSize) :
       nand' = Written(sectors) /\ shax' = HeaderWritten(sectors)
  /\ Reboot(nand', shax')
  /\ report' = NoReport
  /\ cut' = TRUE
  /\ UNCHANGED <<buffer, jobs, lost>>

-----------------------------------------------------------------------------
(* toggleSuperhax writes one sector, the header of firm0. When it fails that *)
(* may have been written all the same.                                       *)
Toggled(enable) == FastbootInFirm0 /\ shax' = [shax EXCEPT !["firm0"] = enable]
NotToggled(enable) == UNCHANGED shax \/ Toggled(enable)

(* menuDumpBootrom without superhax: it is switched on and the console       *)
(* restarted. With it, in the menu after a dump that could not switch it     *)
(* off, the dump is made again.                                              *)
menuDumpBootrom ==
  /\ Asked
  /\ \/ /\ ~running.hax /\ Toggled(TRUE)
        /\ Reboot(nand, shax')
        /\ report' = NoReport
     \/ ~running.hax /\ NotToggled(TRUE) /\ Failed("superhax") /\ UNCHANGED running
     \/ /\ running.hax
        /\ running' = [running EXCEPT !.at = "dump"]
        /\ report' = NoReport /\ UNCHANGED <<shax, job>>
  /\ UNCHANGED <<nand, buffer, lost, cut>>

At(place) == running' = [running EXCEPT !.at = place] /\ UNCHANGED job

(* A start with superhax: the dump, or with HOME held only the switch.       *)
StartDump ==
  /\ running.at = "start"
  /\ \/ At("dump") /\ UNCHANGED shax
     \/ Toggled(FALSE) /\ Reboot(nand, shax')
     \/ /\ NotToggled(FALSE)
        /\ running' = [running EXCEPT !.at = "menu", !.dump_bootroms = FALSE]
        /\ UNCHANGED job
  /\ report' = NoReport
  /\ UNCHANGED <<nand, buffer, jobs, lost, cut>>

(* The files of the dump may be written or not; then superhax is switched    *)
(* off, and the user is waited for.                                          *)
DumpAgain ==  \* mutant: superhax stays on
  /\ running.at = "dump"
  /\ At("off")
  /\ report' = NoReport
  /\ UNCHANGED <<nand, shax, buffer, jobs, lost, cut>>

DumpBootroms ==
  /\ running.at = "dump"
  /\ \/ Toggled(FALSE) /\ At("off")
     \/ NotToggled(FALSE) /\ At("failed")
  /\ report' = NoReport
  /\ UNCHANGED <<nand, buffer, jobs, lost, cut>>

(* A key ends the wait: power off, and the next start, or the menu. Nobody   *)
(* need press it.                                                            *)
outputEndWait ==
  /\ \/ running.at = "off" /\ Reboot(nand, shax)
     \/ running.at = "failed" /\ At("menu")
  /\ report' = NoReport
  /\ UNCHANGED <<nand, shax, buffer, jobs, lost, cut>>

(* The menu is left and nothing is found to launch: the main loop dumps      *)
(* again.                                                                    *)
ContinueBoot ==
  /\ Asked /\ running.dump_bootroms
  /\ At("dump")
  /\ report' = NoReport
  /\ UNCHANGED <<nand, shax, buffer, lost, cut>>

(* A file or a partition is launched from the menu; a fastboot3DS among     *)
(* them is then the running program. The boot ROMs stay as readable as they *)
(* were.                                                                    *)
Launch(loaded, hax) ==
  /\ Asked
  /\ buffer' = loaded.buffer
  /\ IF VerifyFirm(loaded, hax, BootWhitelist)
     THEN /\ running' = Program(HeaderAt(loaded.buffer, 0), running.hax)
          /\ report' = NoReport
          /\ lost' = TRUE
          /\ UNCHANGED job
     ELSE Failed("launch") /\ UNCHANGED <<running, lost>>
  /\ UNCHANGED <<nand, shax, cut>>

(* The user restarts the console, or the power is lost, with no write going  *)
(* on.                                                                       *)
Restart ==
  /\ job = NoJob
  /\ jobs < MaxJobs
  /\ jobs' = jobs + 1
  /\ Reboot(nand, shax)
  /\ report' = NoReport
  /\ UNCHANGED <<nand, shax, buffer, lost, cut>>

Init ==
  /\ nand = [u \in 0..2 * MaxSize - 1 |->
               IF u < MaxSize THEN Piece(Installed["firm0"], u)
               ELSE Piece(Installed["firm1"], u - MaxSize)]
  /\ shax = [p \in Parts |-> FALSE]
  /\ buffer = [u \in 0..MaxSize - 1 |-> Piece(NoImage, u)]
  /\ running = Boot9(nand, shax)
  /\ job = NoJob /\ report = NoReport
  /\ jobs = 0 /\ lost = FALSE /\ cut = FALSE

Next ==
  \/ \E f \in Names : menuUpdateFastboot3ds(LoadFile(f)) \/ Launch(LoadFile(f), FALSE)
  \/ \E f \in Names, p \in Parts : menuInstallFirm(LoadFile(f), p)
  \/ menuUpdateFastboot3ds(LoadPartition("firm1"))
  \/ \E p \in Parts : menuInstallFirm(LoadPartition("firm1"), p)
  \/ \E p \in Parts : Launch(LoadPartition(p), shax[p])
  \/ WriteBlock \/ WriteFails \/ PowerLoss
  \/ menuDumpBootrom \/ StartDump \/ DumpBootroms \/ outputEndWait \/ ContinueBoot
  \/ Restart

Spec ==
  Init /\ [][Next]_vars /\ WF_vars(WriteBlock) /\ WF_vars(StartDump) /\ WF_vars(DumpBootroms)

-----------------------------------------------------------------------------
(* Superhax is never on in firm1.                                            *)
Contents == (Names \cup {NoImage}) \X (0..MaxSize - 1)

FirmTypeOK ==
  /\ nand \in [0..2 * MaxSize - 1 -> Contents] /\ buffer \in [0..MaxSize - 1 -> Contents]
  /\ shax \in [Parts -> BOOLEAN] /\ ~shax["firm1"]
  /\ running.image \in Names \cup {NoImage}
  /\ running.at \in {"start", "dump", "off", "failed", "menu"}
  /\ running.at # "menu" => running.hax /\ job = NoJob
  /\ job.part \in Parts /\ {job.pos, job.left, job.pos + job.left} \subseteq 0..MaxSize
  /\ jobs \in 0..MaxJobs /\ lost \in BOOLEAN /\ cut \in BOOLEAN

(* A partition reported as written holds the image and starts, though the   *)
(* size comes from the header and not from what was verified (firm.c:88,    *)
(* firmwriter.c:109).                                                       *)
ReportedBoots ==
  report.ok /\ report.op \in {"update", "install"} /\ Regular(report.image) =>
    /\ Whole(nand, shax, report.part)
    /\ HeaderAt(nand, Base(report.part)) = report.image

(* Writing the one partition leaves the other as it is, so that it can start *)
(* when power is lost.                                                       *)
Isolated ==
  [][\A u \in DOMAIN nand : nand'[u] # nand[u] =>
       (job.part = "firm0") = (u < MaxSize)]_vars

(* As long as nothing is installed or launched by hand, what starts next is  *)
(* a fastboot3DS not older than the running one, also when a write failed or *)
(* the power was lost in the middle of an update (firmwriter.c:186, 118),    *)
(* or firm0 does not start at all, which takes an update not completed.      *)
NeverOlder ==
  [][~lost' /\ running'.image # running.image =>
       \/ IsFastboot(running'.image) /\ Version(running'.image) >= Version(running.image)
       \/ cut' /\ ~Whole(nand', shax', "firm0")]_vars

(* "carefull not to introduce a potential bootloop here!" (menu_func.c:971):  *)
(* a start with superhax comes, if the power is not lost again and again, to *)
(* the menu or a message on the way to it, or the next start has none.       *)
NoBootloop ==
  running.at = "start" ~> \/ running.at \in {"failed", "menu"}
                          \/ ~Boot9(nand, shax).hax

(* The chip and the writer stay in range, and what was reported as written  *)
(* starts.                                                                  *)
FirmInv == FirmTypeOK /\ ReportedBoots

=============================================================================
