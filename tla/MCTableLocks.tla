---------------------------- MODULE MCTableLocks ----------------------------
(* Three clients and two tables, one of them with two spellings.           *)
EXTENDS TableLocks

CONSTANTS docs, docsPadded, notes

MCNames == {docs, docsPadded, notes}
MCTrim == [n \in MCNames |-> IF n = docsPadded THEN docs ELSE n]
=============================================================================
