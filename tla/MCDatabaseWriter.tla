------------------------- MODULE MCDatabaseWriter -------------------------
(***************************************************************************)
(* Small instances of the database writer.                                 *)
(***************************************************************************)
EXTENDS DatabaseWriter

OnTime(second) == [id |-> 1, second |-> second]
Later(second)  == [id |-> 2, second |-> second]

(***************************************************************************)
(* A second with two trades, either of which may be late, and an empty one.*)
(***************************************************************************)
TwoTrades == {OnTime(1), Later(1)}
=============================================================================
