---------------------------- MODULE MCNandProtect ----------------------------
(***************************************************************************)
(* Small instances of NandProtect for TLC: eight sectors, three partition  *)
(* table entries and a buffer of three sectors.                            *)
(***************************************************************************)
EXTENDS NandProtect

Firm(s, n) == [sector |-> s, count |-> n, firm |-> TRUE]
Data(s, n) == [sector |-> s, count |-> n, firm |-> FALSE]

MCTable(a, b, c) == [i \in Partitions |-> IF i = 0 THEN a ELSE IF i = 1 THEN b ELSE c]

MCOversized == { MCTable(Firm(4, 2), Data(6, 1), Data(6, 2)) }

\* Adjacent firmware partitions (merged), separate ones, one right behind
\* sector 0x96, one across the end of a buffer; an empty table and one whose
\* last partition is longer than the header's mediaSize.
MCPartTables ==
  { MCTable(Data(0, 2), Firm(4, 1), Firm(5, 2)),
    MCTable(Firm(4, 1), Firm(6, 1), Data(7, 1)),
    MCTable(Firm(3, 2), Data(5, 1), Firm(7, 1)) } \cup { NoTable } \cup MCOversized

MCTwoTables ==
  { MCTable(Data(0, 2), Firm(4, 1), Firm(5, 2)),
    MCTable(Data(0, 2), Firm(4, 1), Firm(6, 1)) }
=============================================================================
