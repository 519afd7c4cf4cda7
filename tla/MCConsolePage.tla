----------------------------- MODULE MCConsolePage -----------------------------
(***************************************************************************)
(* Two tables and three requests in flight, so that two lists and a schema *)
(* overlap, or a click (two requests) overlaps an upload.  The user waits  *)
(* for every answer, or clicks on in the list, with files or with queries. *)
(***************************************************************************)
EXTENDS ConsolePage

CONSTANTS t1, t2

SomeHabits == {{}, {"list", "describe"}, {"list", "upload"}, {"query"}}

=============================================================================
