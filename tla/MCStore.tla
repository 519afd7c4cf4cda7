------------------------------- MODULE MCStore -------------------------------
(***************************************************************************)
(* Small instances of Store.  "nf" plays the part of a table that a caller *)
(* names "<n>_fts", the name of n's own index.                             *)
(***************************************************************************)
EXTENDS Store

CONSTANTS n, nf, ff,        \* table names
          mcp, console,     \* processes
          m1, c1, c2        \* the MCP server's thread, two console threads

OneName == {n}
OneFtsName == [t \in {n} |-> nf]

TwoNames == {n, nf}
TwoFtsNames == [t \in {n, nf} |-> IF t = n THEN nf ELSE ff]

HomeOf == [w \in Workers |-> IF w = m1 THEN mcp ELSE console]

=============================================================================
