-------------------------- MODULE MCNonblockingCache --------------------------
(***************************************************************************)
(* NonblockingCache with three lines that compete for the two ways of set  *)
(* 0, one of which is stored to, and a line in set 1: an eviction of dirty *)
(* data beside a miss in another set.                                      *)
(***************************************************************************)
EXTENDS NonblockingCache

LineAt(t, s) == [tag |-> t, set |-> s]
Lines == {LineAt(0, 0), LineAt(1, 0), LineAt(2, 0), LineAt(0, 1)}

LoadOf(l) == [write |-> FALSE, line |-> l, word |-> 0, data |-> 0]
StoreTo(l) == [write |-> TRUE, line |-> l, word |-> 0, data |-> 1]
Accesses == {LoadOf(l) : l \in Lines} \cup {StoreTo(LineAt(0, 0))}
=============================================================================
