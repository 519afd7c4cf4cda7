------------------------------ MODULE MCInstaller ------------------------------
(***************************************************************************)
(* Small instances of Installer: two runs, which install this server under *)
(* one name or under two, beside an entry of somebody else.                *)
(***************************************************************************)
EXTENDS Installer

CONSTANTS r1, r2,           \* runs
          ours, second, other   \* server names

NamesOf == [r \in Runs |-> IF r = r1 THEN ours ELSE second]

=============================================================================
