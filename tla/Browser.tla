------------------------------- MODULE Browser -------------------------------
(***************************************************************************)
(* The menus (menu.c) and the file selector their entries call             *)
(* (menu_fsel.c), on top of the directory handles of Handles: where the    *)
(* cursor is, how a directory gets into the buffer, and which path is      *)
(* answered while cards come and go.                                       *)
(*                                                                         *)
(* A path is a model value; what its string says of it is in Parent,       *)
(* Drive, Folders, Fitting and Place.                                      *)
(***************************************************************************)
EXTENDS Handles

CONSTANTS
  Paths, Root,          \* files and directories, and the empty path above the drives
  Parent, Drive,        \* path -> the path one level up; the drive it is on
  Folders, Fitting,     \* directories, and files that match the pattern
  Place,                \* path -> where sortDirBuffer puts it among all paths
  Sdmc,                 \* the drive of the card
  Cards, Contents,      \* card -> the paths on it
  System,               \* the paths of the other drives
  Firm1,                \* "firm1:", listed in the root in devmode
  Menus,                \* menu -> entries; an entry is a menu or 0 for a function
  MENU_MAX_DEPTH, MAX_DIR_ENTRIES, N_DIR_READ, BRWS_MAX_ENTRIES,
  Requests,             \* [start, allow_root, select_dirs, devmode] of the callers
  MaxCards              \* bound on card changes during one selection

Drives == {p \in Folders : Parent[p] = Root}
NoName == "no name"
NoCard == "no card"
Entry(m, i) == Menus[m][i]
Top == 1

(* Names in one directory differ for strnicmp.                              *)
ASSUME PathsAssumption ==
  /\ Root \notin Paths /\ NoName \notin Paths /\ IsFiniteSet(Paths)
  /\ Folders \subseteq Paths /\ Fitting \subseteq Paths \ Folders
  /\ Parent \in [Paths -> Folders \cup {Root}] /\ Drive \in [Paths -> Paths]
  /\ \A p \in Paths : Drive[p] = IF Parent[p] = Root THEN p ELSE Drive[Parent[p]]
  /\ Place \in [Paths -> Nat] /\ \A p, q \in Paths : Place[p] = Place[q] => p = q

(* A file is in a directory of the same medium. The root shows the drives and *)
(* perhaps firm1, and some drive of the NAND is always there.                 *)
ASSUME MediaAssumption ==
  /\ Sdmc \in Drives /\ Firm1 \in Paths \ Folders /\ Parent[Firm1] = Root
  /\ Contents \in [Cards -> SUBSET Paths] /\ NoCard \notin Cards
  /\ \A c \in Cards : \A p \in Contents[c] : Parent[p] \in Contents[c] \cup {Sdmc}
  /\ System \subseteq Paths
  /\ \A p \in System : IF Parent[p] = Root THEN p \in Folders ELSE Parent[p] \in System
  /\ System \cap Drives # {}

(* The menus are not deeper than the stack.                                  *)
ASSUME MenusAssumption ==
  /\ Menus \in Seq(Seq(0 .. Len(Menus)) \ {<< >>}) /\ Menus # << >>
  /\ MENU_MAX_DEPTH \in Nat
  /\ \E level \in [DOMAIN Menus -> 0 .. MENU_MAX_DEPTH] :
       \A m \in DOMAIN Menus : \A i \in DOMAIN Menus[m] :
         Entry(m, i) # 0 => level[m] < level[Entry(m, i)]

ASSUME SelectorAssumption ==
  /\ {MAX_DIR_ENTRIES, N_DIR_READ, BRWS_MAX_ENTRIES} \subseteq Nat \ {0} /\ MaxCards \in Nat
  /\ Cardinality((System \cap Drives) \cup {Sdmc, Firm1}) <= MAX_DIR_ENTRIES
  /\ Requests # {}
  /\ Requests \subseteq [start : Paths \cup {Root}, allow_root : BOOLEAN,
                         select_dirs : BOOLEAN, devmode : BOOLEAN]

VARIABLES
  curr_menu, cursor, prev,   \* the menu, its index, and the stack of [menu, index]
  pc,                        \* where the selector is; "menu" outside of it
  request,
  res_path, lastname,
  unread, dir_buffer,        \* what fReadDir has not returned yet; the names taken over
  list,                      \* dir_buffer sorted
  index, scroll,
  card, sdMounted, changes,
  cancel,                    \* HOME is held or POWER was pressed
  astray,                    \* history: a path could not be read, the selector went to the root
  lost                       \* history: the card was pulled or failed since the path was read
menu == <<curr_menu, cursor, prev>>
buffer == <<unread, dir_buffer, list, index, scroll>>
medium == <<card, sdMounted, changes>>
handles == <<files, dirs, deinit>>
bvars == <<handles, menu, pc, request, res_path, lastname, buffer, medium, cancel, astray, lost>>

Goto(p) == pc' = p

-----------------------------------------------------------------------------
(* Files and cards. *)
Here(p) == \/ p \in System
           \/ sdMounted /\ Drive[p] = Sdmc /\ p \in Contents[card] \cup {Sdmc}
Entries(d) == {p \in Paths : Parent[p] = d /\ Here(p)}

(* sdioHandler: the drive is gone and an open directory of it is stale. *)
Pull ==
  /\ pc # "menu" /\ card # NoCard /\ changes < MaxCards
  /\ card' = NoCard /\ sdMounted' = FALSE
  /\ changes' = changes + 1
  /\ VolumeGone
  /\ dheld # << >> => dTable'[Last(dheld)] =
                        IF Drive[res_path] = Sdmc THEN "stale" ELSE dTable[Last(dheld)]
  /\ lost' = TRUE
  /\ UNCHANGED <<menu, pc, request, res_path, lastname, buffer, cancel, astray>>

Insert ==
  /\ pc # "menu" /\ card = NoCard /\ changes < MaxCards
  /\ card' \in Cards
  /\ changes' = changes + 1
  /\ UNCHANGED <<handles, menu, pc, request, res_path, lastname, buffer, sdMounted, cancel,
                 astray, lost>>

Cancel ==
  /\ pc # "menu" /\ ~cancel
  /\ cancel' = TRUE
  /\ UNCHANGED <<handles, menu, pc, request, res_path, lastname, buffer, medium, astray, lost>>

-----------------------------------------------------------------------------
(* menuProcess.                                                            *)
Enter(m) ==
  /\ prev' = IF Len(prev) < MENU_MAX_DEPTH
             THEN Append(prev, [menu |-> curr_menu, index |-> cursor]) ELSE prev
  /\ curr_menu' = m /\ cursor' = 1

Return ==
  /\ prev # << >>
  /\ curr_menu' = Last(prev).menu /\ cursor' = Last(prev).index
  /\ prev' = Front(prev)

HomeMenu ==
  /\ prev # << >>
  /\ curr_menu' = Top /\ cursor' = 1 /\ prev' = << >>

MoveCursor ==
  /\ LET n == Len(Menus[curr_menu])
     IN cursor' \in {IF cursor = n THEN 1 ELSE cursor + 1, IF cursor = 1 THEN n ELSE cursor - 1}
  /\ UNCHANGED <<curr_menu, prev>>

menuProcess ==
  /\ pc = "menu" /\ Running
  /\ \/ Entry(curr_menu, cursor) # 0 /\ Enter(Entry(curr_menu, cursor))
     \/ Return \/ HomeMenu \/ MoveCursor
  /\ UNCHANGED <<handles, pc, request, res_path, lastname, buffer, medium, cancel, astray, lost>>

(* Other entries open and close files as they like. *)
OtherEntry ==
  /\ pc = "menu" /\ Entry(curr_menu, cursor) = 0
  /\ Next
  /\ UNCHANGED <<menu, pc, request, res_path, lastname, buffer, medium, cancel, astray, lost>>

-----------------------------------------------------------------------------
(* menuFileSelector: the path to begin with. Whatever is found in an empty *)
(* path, it stays the root.                                                *)
Empty ==
  /\ unread' = {} /\ dir_buffer' = {} /\ list' = << >> /\ index' = 1 /\ scroll' = 0

menuFileSelector ==
  /\ pc = "menu" /\ Running
  /\ Entry(curr_menu, cursor) = 0
  /\ held = << >> /\ dheld = << >>
  /\ request' \in Requests
  /\ LET start == request'.start
     IN res_path' = IF request'.allow_root \/ (start # Root /\ Drive[start] = Sdmc)
                    THEN start ELSE Sdmc
  /\ lastname' = NoName
  /\ Goto(IF res_path' = Root THEN "list" ELSE "isDir")
  /\ changes' = 0 /\ cancel' = FALSE /\ astray' = FALSE /\ lost' = FALSE
  /\ card' \in Cards \cup {NoCard} /\ sdMounted' \in BOOLEAN /\ (sdMounted' => card' # NoCard)
  /\ Empty
  /\ UNCHANGED <<handles, menu>>

(* fOpenDir of the path finds a directory or not. *)
Opens(p) == p \in Folders /\ Here(p)
OpenPath(found, otherwise) ==
  \/ Opens(res_path) /\ fOpenDir /\ Goto(found) /\ UNCHANGED lost
  \/ fOpenDirFails /\ Goto(otherwise) /\ lost' = (lost \/ Opens(res_path))

IsDir ==
  /\ pc = "isDir"
  /\ OpenPath("wasDir", "isFile")
  /\ UNCHANGED <<menu, request, res_path, lastname, buffer, medium, cancel, astray>>

\* Mutant: the path stays when it cannot be read.
ToRootKeepsPath ==
  /\ UNCHANGED res_path /\ lastname' = NoName
  /\ astray' = TRUE
ToRoot ==
  /\ res_path' = Root /\ lastname' = NoName
  /\ astray' = TRUE

(* Not a directory: the cursor goes to the file, in the directory it is in. *)
(* fStat knows no drives.                                                   *)
IsFile ==
  /\ pc = "isFile"
  /\ IF res_path \notin Drives /\ Here(res_path)
     THEN /\ lastname' = res_path /\ res_path' = Parent[res_path]
          /\ Goto("parent")
          /\ UNCHANGED astray
     ELSE ToRoot /\ Goto("list")
  /\ UNCHANGED <<handles, menu, request, buffer, medium, cancel, lost>>

OpenParent ==
  /\ pc = "parent"
  /\ OpenPath("wasDir", "panic")
  /\ UNCHANGED <<menu, request, res_path, lastname, buffer, medium, cancel, astray>>

CloseDir(next) ==
  /\ fCloseDir
  /\ Goto(next)

WasDir ==
  /\ pc = "wasDir"
  /\ CloseDir("list")
  /\ UNCHANGED <<menu, request, res_path, lastname, buffer, medium, cancel, astray, lost>>

panicMsg ==
  /\ pc = "panic"
  /\ StartDeinit \/ DeinitFile \/ DeinitDrives
  /\ UNCHANGED <<menu, pc, request, res_path, lastname, buffer, medium, cancel, astray, lost>>

-----------------------------------------------------------------------------
(* readDirToBuffer.                                                        *)
Listed(p) == p \in Folders \/ (~request.select_dirs /\ p \in Fitting)
Sorted(S) ==
  [i \in 1 .. Cardinality(S) |->
     CHOOSE p \in S : Cardinality({q \in S : Place[q] < Place[p]}) = i - 1]

FixScroll(s, i) == IF i - 1 < s THEN i - 1
                   ELSE IF s + BRWS_MAX_ENTRIES <= i - 1 THEN i - BRWS_MAX_ENTRIES ELSE s

(* The list is shown with the cursor on the name it came from. *)
Browse(names) ==
  /\ Goto("browse")
  /\ list' = Sorted(names)
  /\ index' = IF lastname \in names THEN CHOOSE i \in DOMAIN list' : list'[i] = lastname ELSE 1
  /\ scroll' = FixScroll(0, index')
  /\ lastname' = NoName
  /\ unread' = {} /\ dir_buffer' = names

ListRoot ==
  /\ pc = "list" /\ res_path = Root
  /\ sdMounted' = (sdMounted \/ card # NoCard)
  /\ lost' = FALSE
  /\ Browse((System \cap Drives) \cup (IF sdMounted' THEN {Sdmc} ELSE {})
              \cup (IF request.devmode /\ Listed(Firm1) THEN {Firm1} ELSE {}))
  /\ UNCHANGED <<handles, menu, request, res_path, card, changes, cancel, astray>>

OpenList ==
  /\ pc = "list" /\ res_path # Root
  /\ \/ /\ Opens(res_path)
        /\ fOpenDir /\ Goto("read")
        /\ unread' = Entries(res_path) /\ dir_buffer' = {}
        /\ lost' = FALSE
        /\ UNCHANGED <<res_path, lastname, astray>>
     \/ fOpenDirFails /\ Goto("list") /\ ToRoot /\ UNCHANGED <<unread, dir_buffer, lost>>
  /\ UNCHANGED <<menu, request, list, index, scroll, medium, cancel>>

Atmost(n, m) == IF n < m THEN n ELSE m
\* Mutant: the limit is tested before the entry is counted.
RoomOneMore == MAX_DIR_ENTRIES + 1 - Cardinality(dir_buffer)
Room == MAX_DIR_ENTRIES - Cardinality(dir_buffer)
ReadChunk ==
  /\ pc = "read" /\ dTable[Last(dheld)] # "stale"
  /\ IF unread = {} THEN Goto("close") /\ UNCHANGED <<unread, dir_buffer>>
     ELSE \E chunk \in kSubset(Atmost(N_DIR_READ, Cardinality(unread)), unread) :
            LET fits == {p \in chunk : Listed(p)}
            IN /\ unread' = unread \ chunk
               /\ \E more \in kSubset(Atmost(Room, Cardinality(fits)), fits) :
                    dir_buffer' = dir_buffer \cup more
               /\ Goto(IF Cardinality(fits) >= Room THEN "close" ELSE "read")
  /\ UNCHANGED <<handles, menu, request, res_path, lastname, list, index, scroll, medium, cancel,
                 astray, lost>>

ReadDone ==
  /\ pc = "close"
  /\ fCloseDir
  /\ Browse(dir_buffer)
  /\ UNCHANGED <<menu, request, res_path, medium, cancel, astray, lost>>

(* The card is gone or cannot be read. The entries read so far are dropped. *)
ReadFails ==
  /\ pc = "read"
  /\ CloseDir("list")
  /\ ToRoot
  /\ unread' = {} /\ dir_buffer' = {}
  /\ UNCHANGED <<menu, request, list, index, scroll, medium, cancel, lost>>

-----------------------------------------------------------------------------
(* The keys.                                                               *)
Key == pc = "browse" /\ ~cancel
n_entries == Len(list)

Leave(path, name) ==
  /\ res_path' = path /\ lastname' = name
  /\ Goto("list") /\ Empty

MoveIndex ==
  /\ Key /\ n_entries > 0
  /\ index' \in {IF index = n_entries THEN 1 ELSE index + 1,
                 IF index = 1 THEN n_entries ELSE index - 1,
                 Atmost(index + BRWS_MAX_ENTRIES, n_entries),
                 IF index - BRWS_MAX_ENTRIES < 1 THEN 1 ELSE index - BRWS_MAX_ENTRIES}
  /\ scroll' = FixScroll(scroll, index')
  /\ UNCHANGED <<handles, menu, pc, request, res_path, lastname, unread, dir_buffer, list, medium,
                 cancel, astray, lost>>

\* A enters a directory, X chooses it when directories are asked for.
Choose ==
  /\ Key /\ n_entries > 0
  /\ \E x \in BOOLEAN :
       IF list[index] \in Folders /\ ~(request.select_dirs /\ x)
       THEN Leave(list[index], NoName)
       ELSE res_path' = list[index] /\ lastname' = NoName /\ Goto("answer") /\ UNCHANGED buffer
  /\ UNCHANGED <<handles, menu, request, medium, cancel, astray, lost>>

ChooseEmpty ==
  /\ Key /\ n_entries = 0 /\ request.select_dirs
  /\ Goto("answer") /\ lastname' = NoName
  /\ UNCHANGED <<handles, menu, request, res_path, buffer, medium, cancel, astray, lost>>

Back ==
  /\ Key
  /\ IF res_path = Root \/ (Parent[res_path] = Root /\ ~request.allow_root)
     THEN Goto("refused") /\ UNCHANGED <<res_path, lastname, buffer>>
     ELSE Leave(Parent[res_path], IF Parent[res_path] = Root THEN NoName ELSE res_path)
  /\ UNCHANGED <<handles, menu, request, medium, cancel, astray, lost>>

Cancelled ==
  /\ pc = "browse" /\ cancel
  /\ Goto("refused")
  /\ UNCHANGED <<handles, menu, request, res_path, lastname, buffer, medium, cancel, astray, lost>>

Done ==
  /\ pc \in {"answer", "refused"}
  /\ Goto("menu") /\ Empty
  /\ res_path' = Root /\ lastname' = NoName
  /\ request' = CHOOSE r \in Requests : TRUE
  /\ card' = NoCard /\ sdMounted' = FALSE /\ changes' = 0
  /\ cancel' = FALSE /\ astray' = FALSE /\ lost' = FALSE
  /\ UNCHANGED <<handles, menu>>

-----------------------------------------------------------------------------
BrowserInit ==
  /\ Init
  /\ curr_menu = Top /\ cursor = 1 /\ prev = << >>
  /\ pc = "menu"
  /\ request = CHOOSE r \in Requests : TRUE
  /\ res_path = Root /\ lastname = NoName
  /\ unread = {} /\ dir_buffer = {} /\ list = << >> /\ index = 1 /\ scroll = 0
  /\ card = NoCard /\ sdMounted = FALSE /\ changes = 0
  /\ cancel = FALSE /\ astray = FALSE /\ lost = FALSE

Reading == IsDir \/ IsFile \/ OpenParent \/ WasDir \/ ListRoot \/ OpenList
             \/ ReadChunk \/ ReadDone \/ ReadFails
Keys == MoveIndex \/ Choose \/ ChooseEmpty \/ Back
BrowserNext ==
  \/ OtherEntry \/ menuProcess \/ menuFileSelector
  \/ Pull \/ Insert \/ Cancel
  \/ Reading \/ panicMsg \/ Keys \/ Cancelled \/ Done

(* The program goes on; nothing makes the user press a key. *)
BrowserSpec == BrowserInit /\ [][BrowserNext]_bvars /\ WF_bvars(Reading \/ Cancelled \/ Done)

-----------------------------------------------------------------------------
Unlisted == {"isDir", "isFile", "parent", "wasDir", "list", "read", "close"}
BrowserTypeOK ==
  /\ curr_menu \in DOMAIN Menus /\ cursor \in DOMAIN Menus[curr_menu]
  /\ prev \in Seq([menu : DOMAIN Menus, index : Nat \ {0}])
  /\ pc \in Unlisted \cup {"menu", "browse", "answer", "refused", "panic"}
  /\ request \in Requests
  /\ res_path \in Paths \cup {Root} /\ lastname \in Paths \cup {NoName}
  /\ unread \subseteq Paths /\ dir_buffer \subseteq Paths /\ list \in Seq(Paths)
  /\ index \in Nat \ {0} /\ scroll \in Nat
  /\ card \in Cards \cup {NoCard} /\ changes \in 0..MaxCards
  /\ {sdMounted, cancel, astray, lost} \subseteq BOOLEAN

(* The stack leads from the main menu to the one that is shown, so that B    *)
(* goes back the way the user came, to the entry that was taken.             *)
TrailLeads ==
  \A k \in DOMAIN prev :
    Entry(prev[k].menu, prev[k].index) = IF k = Len(prev) THEN curr_menu ELSE prev[k + 1].menu

(* The cursor is on an entry, the entry is in the window, and the window     *)
(* has no empty lines while there are entries above it.                      *)
CursorShown ==
  pc = "browse" =>
    /\ Len(list) = Cardinality(dir_buffer) /\ Len(list) <= MAX_DIR_ENTRIES
    /\ IF list = << >> THEN index = 1 ELSE index \in DOMAIN list
    /\ scroll < index /\ index <= scroll + BRWS_MAX_ENTRIES
    /\ scroll = 0 \/ scroll + BRWS_MAX_ENTRIES <= Len(list)

(* Every way out of a directory closes it: however the reading ends, at the  *)
(* limit, with an error or with the card gone, its slot is free afterwards.  *)
DirClosed == Running /\ pc \notin {"wasDir", "read", "close", "menu"} => dheld = << >> /\ dHandles = 0

(* "Filesystem corruption" is said of a file whose directory does not open:  *)
(* only of one that was pulled, or could not be read, in between.            *)
PanicIsLoss == pc = "panic" => lost

(* What is answered is what the caller asked for: a file that fits its       *)
(* pattern, or a directory for a caller that wants one; on the card, if the  *)
(* root is not allowed and no path was lost on the way; and it is there      *)
(* unless the card was pulled since it was listed.                           *)
AnswerFits ==
  pc = "answer" =>
    /\ IF request.select_dirs THEN res_path \in Folders ELSE res_path \in Fitting
    /\ ~request.allow_root /\ ~astray => Drive[res_path] = Sdmc
    /\ res_path # Firm1 => Here(res_path) \/ lost

(* HOME and POWER end the selector, also while cards come and go and         *)
(* directories cannot be read (menu_fsel.c:367, 374).                        *)
CancelEnds == cancel ~> pc = "menu" \/ pc = "panic"

(* The cursor and the way back are right, no directory stays open, and the   *)
(* answer is what the caller asked for.                                      *)
BrowserInv ==
  /\ BrowserTypeOK /\ TrailLeads /\ CursorShown /\ DirClosed /\ PanicIsLoss /\ AnswerFits

=============================================================================
