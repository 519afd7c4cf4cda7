-------------------------------- MODULE Upload --------------------------------
(***************************************************************************)
(* The upload handler of the console (src/src/webui/server.py): a request  *)
(* is guarded, its file is saved under a name nobody uses, the saved file  *)
(* is ingested, and a file whose ingest failed is removed again.  Flask    *)
(* runs each request in a thread of its own, and the MCP server process    *)
(* may ingest any file of the directory at any moment, half saved or not.  *)
(*                                                                         *)
(* The store is the abstract one: a table appears in one step (see Catalog *)
(* and Store), loaded from what its reader found in the file.              *)
(***************************************************************************)
CONSTANTS
    Requests,       \* upload requests, each with a file of its own
    Readers,        \* calls of ingest_file in the MCP server process
    FileNames,      \* file names after secure_filename
    Suffixed,       \* Suffixed[f]: "<stem>-<8 hex digits><suffix>" of name f
    Tables,         \* table names
    Nothing         \* no file, no table, no answer

Paths == FileNames \cup UNION {Suffixed[f] : f \in FileNames}

\* A file holds what one request sent, all of it or a part; it may also be one
\* that the user put there.
File == [from : Requests \cup {"user"}, whole : BOOLEAN]
Load == [source : Paths, from : Requests \cup {"user"}, whole : BOOLEAN]

Answers == {"ok", "forbidden", "badRequest", "rejected", "error"}

ASSUME UploadAssumption ==
    /\ Requests \cap Readers = {}
    /\ "user" \notin Requests
    /\ Nothing \notin File \cup Load \cup Answers
    /\ DOMAIN Suffixed = FileNames

VARIABLES
    pc,         \* pc[r]: where request r is
    name,       \* name[r]: its sanitized file name
    target,     \* target[r]: its sanitized table name
    path,       \* path[r]: the path it tries, then the one it saved to
    got,        \* got[r]: what the ingest of call r found in its file
    answer,     \* answer[r]: how the request was answered
    disk,       \* disk[p]: the file at p, or Nothing
    tables      \* tables[t]: what table t was loaded from, or Nothing

call == <<name, target>>
vars == <<pc, call, path, got, answer, disk, tables>>

Init ==
    /\ pc = [r \in Requests \cup Readers |-> "idle"]
    /\ name \in [Requests -> FileNames]
    /\ target \in [Requests \cup Readers -> Tables]
    /\ path \in [Requests \cup Readers -> Paths]
    /\ \A r \in Requests : path[r] = name[r]
    /\ got = [r \in Requests \cup Readers |-> Nothing]
    /\ answer = [r \in Requests |-> Nothing]
    /\ disk \in [Paths -> {Nothing, [from |-> "user", whole |-> TRUE]}]
    /\ tables = [t \in Tables |-> Nothing]

-----------------------------------------------------------------------------
Go(r, place) == pc' = [pc EXCEPT ![r] = place]

Reply(r, a) ==
    /\ Go(r, "answered")
    /\ answer' = [answer EXCEPT ![r] = a]

\* A foreign Host or Origin, no file, or no usable file or table name.
Refuse(r) ==
    /\ pc[r] = "idle"
    /\ \E a \in {"forbidden", "badRequest"} : Reply(r, a)
    /\ UNCHANGED <<call, path, got, disk, tables>>

Accept(r) ==
    /\ pc[r] = "idle"
    /\ Go(r, "create")
    /\ UNCHANGED <<call, path, got, answer, disk, tables>>

\* Bug: open(path, "wb").
Create_Overwrite(r) ==
    /\ pc[r] = "create"
    /\ Go(r, "save")
    /\ disk' = [disk EXCEPT ![path[r]] = [from |-> r, whole |-> FALSE]]
    /\ UNCHANGED <<call, path, got, answer, tables>>

\* open(path, "xb")
Create(r) ==
    /\ pc[r] = "create"
    /\ disk[path[r]] = Nothing
    /\ Go(r, "save")
    /\ disk' = [disk EXCEPT ![path[r]] = [from |-> r, whole |-> FALSE]]
    /\ UNCHANGED <<call, path, got, answer, tables>>

\* FileExistsError: try a random name instead.
Collide(r) ==
    /\ pc[r] = "create"
    /\ disk[path[r]] # Nothing
    /\ \E p \in Suffixed[name[r]] : path' = [path EXCEPT ![r] = p]
    /\ UNCHANGED <<pc, call, got, answer, disk, tables>>

Save(r) ==
    /\ pc[r] = "save"
    /\ Go(r, "ingest")
    /\ disk' = [disk EXCEPT ![path[r]] = [from |-> r, whole |-> TRUE]]
    /\ UNCHANGED <<call, path, got, answer, tables>>

\* file.save raises: nothing catches it, and the file stays as it is.
SaveFails(r) ==
    /\ pc[r] = "save"
    /\ Reply(r, "error")
    /\ UNCHANGED <<call, path, got, disk, tables>>

-----------------------------------------------------------------------------
(* ingest_file, called by a request on the file it saved and by the MCP    *)
(* server on any file.                                                     *)

\* The parser opens the file, under the store's lock but not under any of the
\* file system's.
ReadFile(r) ==
    /\ pc[r] = "ingest"
    /\ disk[path[r]] # Nothing
    /\ Go(r, "load")
    /\ got' = [got EXCEPT ![r] = disk[path[r]]]
    /\ UNCHANGED <<call, path, answer, disk, tables>>

Loaded(r) == [source |-> path[r], from |-> got[r].from, whole |-> got[r].whole]

LoadTable(r) ==
    /\ pc[r] = "load"
    /\ tables[target[r]] = Nothing
    /\ tables' = [tables EXCEPT ![target[r]] = Loaded(r)]
    /\ IF r \in Requests THEN Reply(r, "ok")
                         ELSE Go(r, "answered") /\ UNCHANGED answer
    /\ UNCHANGED <<call, path, got, disk>>

\* The rows are committed, then the catalog entry fails (Store, RecordFails).
LoadUnlisted(r) ==
    /\ pc[r] = "load"
    /\ tables[target[r]] = Nothing
    /\ tables' = [tables EXCEPT ![target[r]] = Loaded(r)]
    /\ IF r \in Requests THEN Go(r, "unlink") ELSE Go(r, "answered")
    /\ UNCHANGED <<call, path, got, answer, disk>>

\* No such file, a parse error, a table name in use, a busy database.
IngestFails(r) ==
    /\ pc[r] \in {"ingest", "load"}
    /\ IF r \in Requests THEN Go(r, "unlink") ELSE Go(r, "answered")
    /\ UNCHANGED <<call, path, got, answer, disk, tables>>

\* Bug: the name that was asked for, not the one that was saved.
Unlink_Asked(r) ==
    /\ pc[r] = "unlink"
    /\ Reply(r, "rejected")
    /\ disk' = [disk EXCEPT ![name[r]] = Nothing]
    /\ UNCHANGED <<call, path, got, tables>>

\* Bug: rejected files are left behind.
Unlink_Skipped(r) ==
    /\ pc[r] = "unlink"
    /\ Reply(r, "rejected")
    /\ UNCHANGED <<call, path, got, disk, tables>>

\* saved_path.unlink(missing_ok=True)
Unlink(r) ==
    /\ pc[r] = "unlink"
    /\ Reply(r, "rejected")
    /\ disk' = [disk EXCEPT ![path[r]] = Nothing]
    /\ UNCHANGED <<call, path, got, tables>>

\* The MCP server is asked for a file that exists.
StartReader(r) ==
    /\ pc[r] = "idle"
    /\ disk[path[r]] # Nothing
    /\ Go(r, "ingest")
    /\ UNCHANGED <<call, path, got, answer, disk, tables>>

-----------------------------------------------------------------------------
Ingest(r) == \/ ReadFile(r) \/ LoadTable(r) \/ LoadUnlisted(r)
             \/ IngestFails(r)

Handle(r) == \/ Refuse(r) \/ Accept(r) \/ Create(r) \/ Collide(r)
             \/ Save(r) \/ SaveFails(r) \/ Ingest(r) \/ Unlink(r)

Next ==
    \/ \E r \in Requests : Handle(r)
    \/ \E r \in Readers : StartReader(r) \/ Ingest(r)

Spec == Init /\ [][Next]_vars

-----------------------------------------------------------------------------
(* Properties *)

\* Every variable keeps its type.
TypeOK ==
    /\ pc \in [Requests \cup Readers ->
                 {"idle", "create", "save", "ingest", "load", "unlink",
                  "answered"}]
    /\ name \in [Requests -> FileNames]
    /\ target \in [Requests \cup Readers -> Tables]
    /\ path \in [Requests \cup Readers -> Paths]
    /\ got \in [Requests \cup Readers -> File \cup {Nothing}]
    /\ answer \in [Requests -> Answers \cup {Nothing}]
    /\ disk \in [Paths -> File \cup {Nothing}]
    /\ tables \in [Tables -> Load \cup {Nothing}]

\* No upload replaces a file, and no upload removes one but its own.
NeverReplaced ==
    [][\A p \in Paths : disk[p] # Nothing =>
          \/ disk'[p] # Nothing /\ disk'[p].from = disk[p].from
          \/ disk'[p] = Nothing /\ disk[p].from \in Requests
                                /\ pc[disk[p].from] = "unlink"]_vars

Kept(r) ==
    /\ tables[target[r]] = [source |-> path[r], from |-> r, whole |-> TRUE]
    /\ disk[path[r]] = [from |-> r, whole |-> TRUE]

\* An upload answered with success has loaded its own file, all of it, and that
\* file is still where the table's source says, whatever other uploads of the
\* same file name or the same table name did meanwhile.
UploadKept == \A r \in Requests : answer[r] = "ok" => Kept(r)

\* A rejected upload leaves no file of its own behind.
RejectedRemoved ==
    \A r \in Requests : answer[r] = "rejected" =>
        \A p \in Paths : disk[p] # Nothing => disk[p].from # r

=============================================================================
