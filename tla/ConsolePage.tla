------------------------------ MODULE ConsolePage ------------------------------
(***************************************************************************)
(* The script of the console page (webui/static/app.js).  The user's       *)
(* actions send requests and go on; the rest of each handler runs when the *)
(* answer is there.  The console answers requests in threads, so answers   *)
(* arrive in any order, each made from what was loaded when its request    *)
(* was served, and a request may also be refused or break.  The rows of a  *)
(* query, and the text in the SQL box, are not told apart.                 *)
(***************************************************************************)
EXTENDS Naturals, Sequences, Bags, BagsExt

CONSTANTS
    Tables,     \* the tables that uploads and the MCP server may load
    Habits,     \* what users may do without waiting for answers
    MaxCalls    \* bound: requests in flight

NoTable == "no table"
Error == "error"

Kinds == {"list", "describe", "upload", "query"}

ASSUME PageAssumption ==
    /\ Tables \cap {NoTable, Error, "none", "uploading"} = {}
    /\ Habits \subseteq SUBSET Kinds
    /\ MaxCalls \in Nat

VARIABLES
    hasty,      \* the requests the user makes while others are in flight
    loaded,     \* the server: the tables in its catalog
    calls,      \* the requests in flight, a bag
    activeTable,
    list,       \* #datasets: the names drawn and the one drawn as active
    schema,     \* #schema: what was appended since it was last emptied
    picked,     \* #file: the file in the file input, as the table it becomes
    uploadMsg,  \* #uploadMsg: "none", "uploading", Error or the table loaded
    results,    \* #queryResult: the same as schema, for answers to queries
    listLost    \* history: the last answer to a list request was lost

upload == <<picked, uploadMsg>>
drawn == <<list, schema, upload, results, listLost>>
vars == <<hasty, loaded, calls, activeTable, drawn>>

\* A request; "names" is the answer to a list request.
Request(kind, arg) == [kind |-> kind, arg |-> arg, state |-> "sent", names |-> {}]

ListRequest == Request("list", NoTable)

InFlight == DOMAIN calls

Waiting(kind) == \E c \in InFlight : c.kind = kind

Quiet == InFlight = {}

\* The page calls loadDatasets() when it starts.
Init ==
    /\ hasty \in Habits
    /\ loaded \in SUBSET Tables
    /\ calls = BagAdd(EmptyBag, ListRequest)
    /\ activeTable = NoTable
    /\ list = [names |-> {}, active |-> NoTable]
    /\ schema = <<>> /\ results = <<>>
    /\ picked = NoTable /\ uploadMsg = "none"
    /\ listLost = FALSE

-----------------------------------------------------------------------------
(* What the user does. *)

\* The user may make n more requests, by a click for one of some kind.
Ready(kind, n) ==
    /\ kind \notin hasty => Quiet
    /\ BagCardinality(calls) + n <= MaxCalls

Send(request) == Ready(request.kind, 1) /\ calls' = BagAdd(calls, request)

Refresh == Send(ListRequest) /\ UNCHANGED <<loaded, activeTable, drawn>>

\* Bug: the panel is not emptied.
Describe_Append(name) ==
    /\ Ready("describe", 2)
    /\ name \in list.names
    /\ activeTable' = name
    /\ calls' = BagAdd(BagAdd(calls, ListRequest), Request("describe", name))
    /\ UNCHANGED <<loaded, drawn>>

\* A click on a list entry: loadDatasets(), empty the panel, fetch.
Describe(name) ==
    /\ Ready("describe", 2)
    /\ name \in list.names
    /\ activeTable' = name
    /\ calls' = BagAdd(BagAdd(calls, ListRequest), Request("describe", name))
    /\ schema' = <<>>
    /\ UNCHANGED <<loaded, list, upload, results, listLost>>

UploadFile(name) ==
    /\ Send(Request("upload", name))
    /\ uploadMsg' = "uploading"
    /\ UNCHANGED <<loaded, activeTable, list, schema, results, listLost>>

\* A file dropped on the page, for the table name.
Drop(name) == UploadFile(name) /\ UNCHANGED picked

\* A file chosen with the file input, which sends no event for the file that
\* it has already.
Pick(name) ==
    /\ picked # name
    /\ picked' = name
    /\ UploadFile(name)

RunQuery ==
    /\ Send(Request("query", NoTable))
    /\ results' = <<>>
    /\ UNCHANGED <<loaded, activeTable, list, schema, upload, listLost>>

-----------------------------------------------------------------------------
(* The server. *)

Answer(c, state, names) ==
    calls' = BagAdd(BagRemove(calls, c), [c EXCEPT !.state = state, !.names = names])

ServeUpload(c) ==
    /\ c.kind = "upload" /\ c.state = "sent"
    /\ c.arg \notin loaded
    /\ loaded' = loaded \cup {c.arg}
    /\ Answer(c, "ok", {})
    /\ UNCHANGED <<activeTable, drawn>>

\* Of the answers that only read, the list is the one for which it matters
\* when it is made; the others are made when they arrive.
ServeRead(c) ==
    /\ c.kind = "list" /\ c.state = "sent"
    /\ Answer(c, "ok", loaded)
    /\ UNCHANGED <<loaded, activeTable, drawn>>

\* {"success": false}: a taken name, a busy database.
RefuseCall(c) ==
    /\ c.kind \in {"list", "upload"} /\ c.state = "sent"
    /\ Answer(c, "refused", {})
    /\ UNCHANGED <<loaded, activeTable, drawn>>

\* ingest_file of the MCP server.
OtherLoads(name) ==
    /\ name \notin loaded
    /\ loaded' = loaded \cup {name}
    /\ UNCHANGED <<calls, activeTable, drawn>>

-----------------------------------------------------------------------------
(* The page when the answer to request c is there. *)

Done(c) == calls' = BagRemove(calls, c)

\* Bug: the entry that was active stays so.
DrawList_Inactive(c) ==
    /\ c.kind = "list" /\ c.state = "ok"
    /\ list' = [names |-> c.names,
                active |-> IF list.active \in c.names THEN list.active ELSE NoTable]
    /\ listLost' = FALSE
    /\ Done(c)
    /\ UNCHANGED <<loaded, activeTable, schema, upload, results>>

DrawList(c) ==
    /\ c.kind = "list" /\ c.state = "ok"
    /\ list' = [names |-> c.names,
                active |-> IF activeTable \in c.names THEN activeTable ELSE NoTable]
    /\ listLost' = FALSE
    /\ Done(c)
    /\ UNCHANGED <<loaded, activeTable, schema, upload, results>>

ClearList(c) ==
    /\ c.kind = "list" /\ c.state = "refused"
    /\ list' = [names |-> {}, active |-> NoTable]
    /\ listLost' = FALSE
    /\ uploadMsg' = Error
    /\ Done(c)
    /\ UNCHANGED <<loaded, activeTable, schema, picked, results>>

\* (It also puts a statement for the table into the SQL box.)
DrawSchema(c) ==
    /\ c.kind = "describe"
    /\ schema' = Append(schema, c.arg)
    /\ Done(c)
    /\ UNCHANGED <<loaded, activeTable, list, upload, results, listLost>>

\* Bug: the list is not asked for again.
Uploaded_NoReload(c) ==
    /\ c.kind = "upload" /\ c.state = "ok"
    /\ uploadMsg' = c.arg
    /\ picked' = NoTable
    /\ Done(c)
    /\ UNCHANGED <<loaded, activeTable, list, schema, results, listLost>>

Uploaded(c) ==
    /\ c.kind = "upload" /\ c.state = "ok"
    /\ uploadMsg' = c.arg
    /\ picked' = NoTable
    /\ calls' = BagAdd(BagRemove(calls, c), ListRequest)
    /\ UNCHANGED <<loaded, activeTable, list, schema, results, listLost>>

\* Rows are appended; the message that they were cut off replaces what is there.
DrawResult(c) ==
    /\ c.kind = "query"
    /\ results' \in {Append(results, "rows"), <<"rows">>}
    /\ Done(c)
    /\ UNCHANGED <<loaded, activeTable, list, schema, upload, listLost>>

\* Bug: an exception is not caught.
ShowError_NoCatch(c) == Done(c) /\ UNCHANGED <<loaded, activeTable, drawn>>

\* showMsg replaces what is there: for {"success": false}, and in every catch,
\* when the connection breaks (before or after the server acted) or the
\* answer is not JSON.
ShowError(c) ==
    /\ ~(c.kind = "list" /\ c.state = "refused")
    /\ Done(c)
    /\ uploadMsg' = IF c.kind \in {"list", "upload"} THEN Error ELSE uploadMsg
    /\ schema' = IF c.kind = "describe" THEN <<Error>> ELSE schema
    /\ results' = IF c.kind = "query" THEN <<Error>> ELSE results
    /\ listLost' = (c.kind = "list" \/ listLost)
    /\ UNCHANGED <<loaded, activeTable, list, picked>>

-----------------------------------------------------------------------------

Page(c) == \/ DrawList(c) \/ ClearList(c) \/ DrawSchema(c) \/ DrawResult(c)
           \/ Uploaded(c) \/ ShowError(c)

Network(c) == ServeUpload(c) \/ ServeRead(c) \/ RefuseCall(c)

User == \/ Refresh \/ RunQuery
        \/ \E name \in Tables : Describe(name) \/ Drop(name) \/ Pick(name)

Next == /\ UNCHANGED hasty
        /\ \/ User
           \/ \E c \in InFlight : Network(c) \/ Page(c)
           \/ \E name \in Tables : OtherLoads(name)

Spec == Init /\ [][Next]_vars

Served(kind) ==
    UNCHANGED hasty /\ \E c \in InFlight : c.kind = kind /\ Network(c)

Answered(kind) ==
    /\ UNCHANGED hasty
    /\ \E c \in InFlight : /\ c.kind = kind
                           /\ c.state # "sent" \/ kind \in {"describe", "query"}
                           /\ Page(c)

\* Requests of each kind are answered, and the page's event loop runs their
\* handlers.
FairSpec ==
    /\ Spec
    /\ \A kind \in {"list", "upload"} : WF_vars(Served(kind))
    /\ \A kind \in Kinds : WF_vars(Answered(kind))

-----------------------------------------------------------------------------
(* Properties *)

\* A user who does nothing while an answer is on its way.
Patient == hasty = {}

\* The list draws the entry of the chosen table as active, and no other,
\* unless its redrawing is still under way or broke: whatever order answers
\* arrive in, loadDatasets reads activeTable when it draws.
HighlightMatches ==
    \/ list.active = (IF activeTable \in list.names THEN activeTable ELSE NoTable)
    \/ Waiting("list")
    \/ listLost

\* A user who does not click on while an answer is on its way sees what was
\* asked for last: the columns and rows of the selected dataset and only those,
\* and one result.  (With clicks in between, answers pile up in the panels.)
PanelsShowLatest ==
    Patient =>
        /\ ~Waiting("describe") => schema \in {<<>>, <<Error>>, <<activeTable>>}
        /\ ~Waiting("query") => Len(results) <= 1

\* When the page says that a table was loaded, the file input is empty, so that
\* any file can be chosen next; and for a patient user, once nothing is under
\* way, the table is in the list.
UploadedIsListed ==
    uploadMsg \in Tables =>
        /\ picked = NoTable
        /\ Patient /\ Quiet => uploadMsg \in list.names

\* "Uploading" does not stay: every upload ends in a table or an error.
UploadIsReported == uploadMsg = "uploading" ~> uploadMsg # "uploading"

=============================================================================
