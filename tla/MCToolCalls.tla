----------------------------- MODULE MCToolCalls -----------------------------
(***************************************************************************)
(* Two calls to each program.  The allowed directory holds a link to a     *)
(* file elsewhere, a file no parser takes, the uploads, and a file that is *)
(* the store in some environments, as written or by way of a link: else    *)
(* the store is outside.                                                   *)
(***************************************************************************)
EXTENDS ToolCalls

CONSTANTS m1, m2, k1, k2        \* calls, to the MCP server and the console
CONSTANTS folder, link, notes, upload, secret, db, inner, alias     \* places

Tree == {folder, link, notes, upload, secret, db, inner, alias}

LinksTo == [p \in Tree |-> CASE p = link  -> secret
                             [] p = alias -> inner
                             [] OTHER     -> p]

In == [p \in Tree |-> IF p \in {link, notes, upload, inner}
                      THEN {folder}
                      ELSE {}]

Environs == {[db |-> d, dirs |-> {folder}] : d \in {db, inner, alias}}
            \cup {[db |-> db, dirs |-> {}]}

Program == [c \in Calls |-> IF c \in {m1, m2} THEN "mcp" ELSE "console"]

Text(trees, root, nodes, calls, acts, kind, blob) ==
    [trees |-> trees, root |-> root, nodes |-> nodes \cup {root},
     calls |-> calls, acts |-> acts, kind |-> kind, blob |-> blob]

Reads == {<<"select", "">>, <<"read", "t">>}

Plain   == Text(1, "Select", {}, {}, Reads, "plain", FALSE)
Bytes   == Text(1, "Select", {}, {}, {<<"select", "">>}, "plain", TRUE)
Match   == Text(1, "Select", {"Match"}, {},
                Reads \cup {<<"function", "match">>, <<"pragma", "data_version">>}
                      \cup Opening,
                "plain", FALSE)
Erase   == Text(1, "Delete", {"With", "Select"}, {}, {<<"delete", "t">>},
                "write", FALSE)
Make    == Text(1, "Create", {"Select"}, {}, {<<"insert", "sqlite_master">>},
                "write", FALSE)
Describe == Text(1, "Select", {}, {},
                {<<"select", "">>, <<"read", "pragma_table_info">>,
                 <<"pragma", "table_info">>}, "other", FALSE)
Extend  == Text(1, "Select", {"Anonymous"}, {"load_extension"},
                {<<"select", "">>, <<"function", "load_extension">>},
                "other", FALSE)
Edit    == Text(1, "Select", {"Anonymous"}, {"edit"},
                {<<"select", "">>, <<"function", "edit">>}, "other", FALSE)
Minus   == Text(1, "Except", {"Select"}, {}, Reads, "other", FALSE)
Two     == Text(2, "Select", {}, {}, Reads, "other", FALSE)

SomeTexts == {Plain, Bytes, Match, Erase, Make, Describe, Extend, Edit, Minus,
              Two}

\* SQLite 3.40.1 asks this of the connection that opens a virtual table.
UpdateSchema == {<<"update", "sqlite_master">>}

Ask(tool, args, path, sql) ==
    [tool |-> tool, args |-> args, path |-> path, table |-> "t", sql |-> sql]

Paths == {Ask("ingest_file", "fine", p, Plain) : p \in {inner, link, notes}}
Upload == Ask("ingest_file", "fine", upload, Plain)
Queries(texts) == {Ask("query", "fine", inner, q) : q \in texts}

Asked ==
    [c \in Calls |->
        CASE c = m1 -> Paths
          [] c = m2 -> Queries({Bytes, Two}) \cup
                       {Ask("enable", "fine", inner, Plain),
                        Ask("other", "fine", inner, Plain)}
          [] c = k1 -> {Upload}
          [] c = k2 -> Queries({Match, Erase, Describe, Extend, Edit, Minus})
                       \cup {Ask("query", "nobody", inner, Plain),
                             Ask("list_datasets", "fine", inner, Plain)}]

Asks == UNION {Asked[c] : c \in Calls}

=============================================================================
