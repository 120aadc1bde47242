------------------------------- MODULE MCFirm -------------------------------
(* Images of five sectors at most and blocks of two: updates and firmware of *)
(* one, two and three blocks, one that fills the partition, and the ones     *)
(* that fail each check or slip through it.                                  *)
EXTENDS Firm

Section(offset, size, address) == [offset |-> offset, size |-> size, address |-> address]
Image(sections, size, signed) ==
  [sections |-> sections, size |-> size, signed |-> signed, intact |-> TRUE, entry9 |-> TRUE]

MCImages ==
  [old     |-> Image(<<Section(2, 2, "ram"), Section(4, 2, "io"), Section(6, 2, "ram")>>, 8, TRUE),
   new     |-> Image(<<Section(2, 2, "ram"), Section(4, 2, "io"), Section(6, 4, "ram")>>, 10, TRUE),
   native  |-> Image(<<Section(2, 2, "ram"), Section(4, 6, "ram")>>, 10, FALSE),
   overlap |-> Image(<<Section(2, 6, "ram"), Section(4, 2, "ram")>>, 8, FALSE),
   ragged  |-> Image(<<Section(2, 5, "ram")>>, 7, FALSE),
   fcram   |-> Image(<<Section(2, 2, "fcram")>>, 4, FALSE),
   bad     |-> [Image(<<Section(2, 2, "ram")>>, 4, TRUE) EXCEPT !.intact = FALSE],
   shifted |-> Image(<<Section(3, 2, "ram")>>, 5, FALSE),
   big     |-> Image(<<Section(2, 9, "ram")>>, 11, FALSE)]

MCInstalled == [firm0 |-> "old", firm1 |-> "new"]
MCVERS == [f \in DOMAIN MCImages |-> IF f = "old" THEN 1 ELSE IF f = "new" THEN 2 ELSE 0]
=============================================================================
