------------------------------- MODULE MCUpload -------------------------------
(***************************************************************************)
(* Small instances of Upload: two requests for the same or for different   *)
(* file and table names beside one reader.  A user may well upload a file  *)
(* whose own name is another one's suffixed form.                          *)
(***************************************************************************)
EXTENDS Upload

CONSTANTS f, f1, f2     \* a file name, and two suffixed forms of it

SuffixesOf == [x \in {f, f1} |-> IF x = f THEN {f1, f2} ELSE {f2}]

=============================================================================
