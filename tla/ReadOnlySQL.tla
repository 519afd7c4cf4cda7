----------------------------- MODULE ReadOnlySQL -----------------------------
(***************************************************************************)
(* The two layers a statement passes before it runs: SQLValidator looks at *)
(* the syntax tree sqlglot makes of the text, QueryAuthorizer at the       *)
(* actions SQLite asks leave for while it prepares the statement.          *)
(***************************************************************************)
EXTENDS Naturals

CONSTANTS
    Texts,      \* the statements of the model
    Opening     \* what SQLite asks leave for, as <<code, object>>, when a
                \* connection opens a virtual table for the first time

\* Node types of sqlglot, and action codes of SQLite with what they act on.
AllowedRoots == {"Select", "With", "Union", "Subquery"}
ForbiddenNodes == {"Insert", "Update", "Delete", "Drop", "Create", "Alter",
                   "Command", "Pragma", "Attach", "Merge", "Into"}
ForbiddenFunctions == {"load_extension"}

AllowedActions == {"select", "read", "function", "recursive"}

\* Bug: the functions of stock SQLite only.
DeniedFunctions_Stock == {"fts3_tokenizer", "load_extension"}

DeniedFunctions == {"fts3_tokenizer", "load_extension", "readfile",
                    "writefile", "edit"}
\* The tables whose names begin with pragma_.
PragmaTables == {"pragma_table_info", "pragma_database_list"}

\* Bug: no pragma at all.
AllowedPragmas_None == {}

AllowedPragmas == {"data_version"}

(***************************************************************************)
(* A statement is a record of what is found of it.                         *)
(* trees: how many statements the text parses to, 0 if it does not parse.  *)
(* root, nodes: types of the first tree's root and of all its nodes.       *)
(* calls: the functions in it that sqlglot does not know (Anonymous).      *)
(* acts: the actions asked for if each is granted, as <<code, object>>.    *)
(* kind: "plain" if it is a SELECT or a UNION of some that reads tables,   *)
(* search indexes or the schema and does nothing else, "write" if it would *)
(* change a database or its transaction, else "other".                     *)
(* blob: its rows hold a value that is bytes.                              *)
(***************************************************************************)
ValidatorAccepts(q) ==
    /\ q.trees = 1
    /\ q.root \in AllowedRoots
    /\ q.nodes \cap ForbiddenNodes = {}
    /\ q.calls \cap ForbiddenFunctions = {}

Denied(action, object) ==
    \/ action = "pragma" /\ object \notin AllowedPragmas
    \/ action \notin AllowedActions \cup {"pragma"}
    \/ action = "function" /\ object \in DeniedFunctions
    \/ action = "read" /\ object \in PragmaTables

AuthorizerAccepts(q) == \A a \in q.acts : ~Denied(a[1], a[2])

-----------------------------------------------------------------------------
(***************************************************************************)
(* What the two programs outside report of a statement of each kind, in    *)
(* words of their own: sqlglot's types of what is no query, SQLite's codes *)
(* of what changes something, and what else a query may reach.             *)
(***************************************************************************)
QueryRoots == {"Select", "With", "Union", "Subquery"}
ChangeRoots == {"Insert", "Update", "Delete", "Merge", "Create", "Drop", "Alter",
                "Pragma", "Attach", "Detach", "Analyze", "Transaction", "Commit",
                "Rollback", "Command"}
ChangeActions ==
    {"insert", "update", "delete", "create_table", "create_index", "create_view",
     "create_trigger", "create_vtable", "drop_table", "drop_index", "drop_view",
     "drop_trigger", "drop_vtable", "alter_table", "attach", "detach", "reindex",
     "analyze", "transaction", "savepoint"}
Reaching == {"fts3_tokenizer", "load_extension", "readfile", "writefile", "edit"}

OnlyReads(action, object) ==
    \/ action \in {"select", "recursive"}
    \/ action = "function" /\ object \notin Reaching
    \/ action = "read" /\ object \notin PragmaTables
    \/ action = "pragma" /\ object = "data_version"

KindOK(q) ==
    /\ q.kind \in {"plain", "write", "other"}
    /\ q.kind = "plain" =>
          /\ q.trees = 1 /\ q.root \in QueryRoots
          /\ q.nodes \cap (ChangeRoots \cup {"Into"}) = {}
          /\ q.calls \cap Reaching = {}
          /\ \A a \in q.acts : OnlyReads(a[1], a[2]) \/ a \in Opening
    /\ q.kind = "write" =>
          /\ q.trees # 1 \/ q.root \in ChangeRoots
          /\ \E a \in q.acts : \/ a[1] \in ChangeActions
                               \/ a[1] = "pragma" /\ a[2] # "data_version"
    /\ q.kind = "other" =>
          \/ q.trees # 1 \/ q.root \notin QueryRoots
          \/ \E a \in q.acts : ~OnlyReads(a[1], a[2])

ASSUME KindAssumption == \A q \in Texts : KindOK(q)

=============================================================================
