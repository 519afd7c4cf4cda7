--------------------------- MODULE MCQueryExecutor ---------------------------
(***************************************************************************)
(* Two threads share the connection.  With a cap of one row: no row, the   *)
(* cap, one row more; without end before the first row and beyond the cap; *)
(* failing on a value that is too big, and on a column "interrupted".      *)
(***************************************************************************)
EXTENDS QueryExecutor

CONSTANTS q1, q2        \* threads

S(n, e, m) == [rows |-> n, end |-> e, says |-> m]

SomeStatements ==
    {S(0, "invalid", "other"), S(0, "denied", "other"),
     S(0, "done", "other"), S(1, "done", "other"), S(2, "done", "other"),
     S(0, "endless", "other"), S(2, "endless", "other"),
     S(2, "fails", "too big"), S(0, "fails", "interrupted")}

=============================================================================
