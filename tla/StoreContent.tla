---------------------------- MODULE StoreContent ----------------------------
(***************************************************************************)
(* What the SQLite file holds, as far as the store's own promises can tell *)
(* two files apart: which names are tables and of what kind, how many rows *)
(* each holds, which tables carry the search triggers and which row count  *)
(* the catalog table _mcp_datasets records.  Pure operators, no state.     *)
(*                                                                         *)
(* One unit of "rows" stands for one batch of DataIngestor.ingest: the     *)
(* code commits, rolls back and counts whole batches only.                 *)
(***************************************************************************)
EXTENDS Naturals

CONSTANTS
    Names,      \* the table names that callers pass to the tools
    FtsName     \* FtsName[t] is the name "<t>_fts" of t's search index

\* A suffix never maps two names to one, nor a name to itself.  FtsName[t]
\* may itself be in Names: nothing stops a caller from loading a "t_fts".
ASSUME FtsNameAssumption ==
    /\ DOMAIN FtsName = Names
    /\ \A t \in Names : FtsName[t] # t
    /\ \A t, u \in Names : FtsName[t] = FtsName[u] => t = u

AllNames == Names \cup {FtsName[t] : t \in Names}

Kinds == {"none", "data", "fts"}

\* count[t] = 0 stands for "no catalog entry": an ingest that read no row is
\* refused before it creates anything, so a recorded count is positive.
Content == [kind  : [AllNames -> Kinds],
            rows  : [AllNames -> Nat],
            trig  : SUBSET Names,
            count : [Names -> Nat]]

EmptyContent == [kind  |-> [x \in AllNames |-> "none"],
                 rows  |-> [x \in AllNames |-> 0],
                 trig  |-> {},
                 count |-> [t \in Names |-> 0]]

-----------------------------------------------------------------------------
(* Queries on a content. *)

TableExists(d, x) == d.kind[x] # "none"

\* is_enabled only asks whether a table of that name exists.
IsEnabled(d, t) == TableExists(d, FtsName[t])

-----------------------------------------------------------------------------
(* The statements the managers execute, as functions of the content. *)

WithTable(d, t) == [d EXCEPT !.kind[t] = "data"]

\* Dropping a table drops its triggers with it, and leaves its index behind.
WithoutTable(d, t) == [d EXCEPT !.kind[t] = "none",
                                !.rows[t] = 0,
                                !.trig = @ \ {t}]

\* Bug: the insert trigger has the 'delete' command of the other triggers.
WithBatch_TriggerDeletes(d, t) ==
    [d EXCEPT !.rows = [x \in AllNames |->
                          IF x = t THEN @[x] + 1
                          ELSE IF t \in d.trig /\ x = FtsName[t]
                               THEN @[x] - 1
                               ELSE @[x]]]

\* One executemany; the insert trigger repeats it on the index.
WithBatch(d, t) ==
    [d EXCEPT !.rows = [x \in AllNames |->
                          IF x = t \/ (t \in d.trig /\ x = FtsName[t])
                          THEN @[x] + 1
                          ELSE @[x]]]

WithDataset(d, t, n) == [d EXCEPT !.count[t] = n]

WithIndex(d, t) == [d EXCEPT !.kind[FtsName[t]] = "fts"]

WithIndexFilled(d, t) == [d EXCEPT !.rows[FtsName[t]] = @ + d.rows[t]]

WithTriggers(d, t) == [d EXCEPT !.trig = @ \cup {t}]

=============================================================================
