------------------------------ MODULE NandImage ------------------------------
(***************************************************************************)
(* What a NAND restore promises its user, whatever pieces it writes in.    *)
(* A restore is given the sectors it may write.  It only ever writes such  *)
(* a sector, and only the image sector of the same number; it reports "ok" *)
(* only when it has written all of them, and may fail at any moment.       *)
(***************************************************************************)
EXTENDS Integers

CONSTANTS Sectors, Kept

VARIABLES contents, writable, busy, outcome
vars == <<contents, writable, busy, outcome>>

Blank == [s \in Sectors |-> Kept]

Init == contents = Blank /\ writable = {} /\ busy = FALSE /\ outcome = "none"

Begin ==
  /\ ~busy
  /\ busy' = TRUE /\ outcome' = "none"
  /\ writable' \in SUBSET Sectors
  /\ contents' = Blank

\* A restore refused before its first write.
Refuse ==
  /\ ~busy
  /\ busy' = FALSE /\ outcome' = "fail"
  /\ writable' = {}
  /\ contents' = Blank

\* One write of the driver; the header sector may be among its sectors.
Burn(S) == contents' = [s \in Sectors |-> IF s \in S THEN s ELSE contents[s]]

Write ==
  /\ busy /\ busy' = busy /\ outcome' = outcome
  /\ \E S \in SUBSET writable : Burn(S)
  /\ writable' = writable

Finish ==
  /\ busy /\ \A s \in writable : contents[s] = s
  /\ busy' = FALSE /\ outcome' = "ok"
  /\ writable' = {}
  /\ contents' = contents

\* A failing write may still have written some of its sectors.
Fail ==
  /\ busy /\ busy' = FALSE /\ outcome' = "fail"
  /\ \E S \in SUBSET writable : Burn(S)
  /\ writable' = {}

PowerLoss ==
  /\ busy' = FALSE /\ outcome' = "none"
  /\ writable' = {}
  /\ contents' = contents

Next == Begin \/ Refuse \/ Write \/ Finish \/ Fail \/ PowerLoss

Spec == Init /\ [][Next]_vars
=============================================================================
