----------------------------- MODULE MCBrowser -----------------------------
(***************************************************************************)
(* A card with a directory, another one without it, two other drives, and  *)
(* a main menu with a submenu.                                             *)
(***************************************************************************)
EXTENDS Browser

MCParent == [p \in Paths |->
  CASE p \in {"sdmc", "nand", "firm1"} -> Root
    [] p \in {"dir", "a", "old"} -> "sdmc"
    [] p \in {"b", "c", "d", "e", "f"} -> "dir"
    [] p = "n" -> "nand"]
MCDrive == [p \in Paths |->
  CASE p \in {"dir", "a", "old", "b", "c", "d", "e", "f"} -> "sdmc"
    [] p = "n" -> "nand"
    [] OTHER -> p]
MCOrder == <<"sdmc", "nand", "firm1", "dir", "a", "b", "c", "d", "e", "f", "n", "old">>
MCPlace == [p \in Paths |-> CHOOSE i \in DOMAIN MCOrder : MCOrder[i] = p]
MCContents == [one |-> {"dir", "a", "b", "c", "d", "e", "f"}, two |-> {"a"}]
MCMenus == << <<2>>, <<3, 0>>, <<0>> >>
Ask(start, root, folders, dev) ==
  [start |-> start, allow_root |-> root, select_dirs |-> folders, devmode |-> dev]
MCRequests == {Ask("dir", FALSE, FALSE, FALSE), Ask("b", TRUE, FALSE, TRUE),
               Ask(Root, TRUE, FALSE, FALSE), Ask("dir", TRUE, TRUE, FALSE)}
=============================================================================
