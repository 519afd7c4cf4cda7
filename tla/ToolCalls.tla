------------------------------ MODULE ToolCalls ------------------------------
(***************************************************************************)
(* The way of a call through the two programs, from the transport to its   *)
(* answer.  MCPServer handles the calls of its client on one event loop,   *)
(* one at a time; the console handles each request on a thread of its own. *)
(* Both dispatch to the same five tools (ToolRegistry), over a SQLiteStore *)
(* per program and one database file.                                      *)
(*                                                                         *)
(* What the store does under its locks is one step here, with the outcomes *)
(* that module Store shows it to have.                                     *)
(***************************************************************************)
EXTENDS AllowedPaths, ReadOnlySQL

CONSTANTS
    Calls, NoCall,
    Via,            \* Via[c]: "mcp" or "console", the program that is called
    Requests,       \* what may be asked
    MayAsk,         \* MayAsk[c]: what call c may ask
    Tables,
    Environments,   \* what the environment may say
    OnDisk,         \* the files there are at the start
    Fleeting        \* bound: the files that others may remove

Programs == {"mcp", "console"}

\* enable stands for the tool search with its action "enable", other for any
\* name that is no tool's.
Tools == {"ingest_file", "list_datasets", "describe_table", "query", "search",
          "enable", "other"}

\* Arguments the tool takes; that it refuses or that raise in it; or, on the
\* console, a request body that is no JSON object.
Arguments == {"fine", "bad", "nobody"}

Changes(r) == r.tool \in {"ingest_file", "enable"}

ASSUME CallsAssumption ==
    /\ NoCall \notin Calls
    /\ Via \in [Calls -> Programs]
    /\ \A r \in Requests : /\ r.tool \in Tools
                           /\ r.args \in Arguments
                           /\ r.path \in Places
                           /\ r.table \in Tables
                           /\ r.sql \in Texts
                           /\ r.args = "nobody" => r.tool = "query"
    /\ MayAsk \in [Calls -> SUBSET Requests]
    /\ \A c \in Calls : \A r \in MayAsk[c] :
          IF Via[c] = "console"
          THEN r.tool \in {"ingest_file", "list_datasets", "describe_table",
                           "query"}
          ELSE r.args # "nobody"
    /\ Environments \subseteq Environment
    /\ OnDisk \subseteq Places
    /\ Fleeting \subseteq Places

VARIABLES
    env,        \* the environment of both programs
    server,     \* server[p]: "starting", "up" or "refused"
    req,        \* req[c]: what is asked
    pc,         \* pc[c]: where the call is
    loop,       \* the call on the event loop of the MCP server
    wlock,      \* wlock[p]: holder of the program's _write_lock
    qlock,      \* qlock[p]: holder of the program's _query_lock
    files,      \* the places that hold a file
    source,     \* source[c]: the file the call is to ingest, once accepted
    tables,     \* tables[t]: the file that was loaded into t
    result,     \* result[c]: what the tool returned
    status,     \* status[c]: how the call ended, for the caller
    effects     \* the calls that took effect

outside == <<env, server, req>>
data == <<files, source, tables, effects>>
vars == <<outside, pc, loop, wlock, qlock, data, result, status>>

Stages == {"sent", "dispatch", "path", "wantwrite", "write", "wantquery",
            "validate", "authorize", "run", "encode", "gone"}

Init ==
    /\ env \in Environments
    /\ server = [p \in Programs |-> "starting"]
    /\ req \in [Calls -> Requests] /\ \A c \in Calls : req[c] \in MayAsk[c]
    /\ pc = [c \in Calls |-> "sent"]
    /\ loop = NoCall
    /\ wlock = [p \in Programs |-> NoCall]
    /\ qlock = [p \in Programs |-> NoCall]
    /\ files = OnDisk
    /\ source = [c \in Calls |-> NoPlace]
    /\ tables = [t \in Tables |-> NoPlace]
    /\ result = [c \in Calls |-> "none"]
    /\ status = [c \in Calls |-> "open"]
    /\ effects = {}

-----------------------------------------------------------------------------
Go(c, place) == pc' = [pc EXCEPT ![c] = place]

Return(c, r) == Go(c, "encode") /\ result' = [result EXCEPT ![c] = r]

End(c, s) == Go(c, "gone") /\ status' = [status EXCEPT ![c] = s]

IsUpload(c) == Via[c] = "console" /\ req[c].tool = "ingest_file"

\* main(): a configuration that is not accepted ends the program.
Start(p) ==
    /\ server[p] = "starting"
    /\ server' = [server EXCEPT
                    ![p] = IF ConfigAccepts(env) THEN "up" ELSE "refused"]
    /\ UNCHANGED <<env, req, pc, loop, wlock, qlock, data, result, status>>

\* The event loop takes the next call: _call_tool has no await, so the loop
\* is back when the call is over.
TakeMCP(c) ==
    /\ pc[c] = "sent"
    /\ Via[c] = "mcp"
    /\ server["mcp"] = "up"
    /\ loop = NoCall
    /\ loop' = c
    /\ Go(c, "dispatch")
    /\ UNCHANGED <<outside, wlock, qlock, data, result, status>>

\* A thread of the console takes a request; an upload is saved first.
TakeConsole(c) ==
    /\ pc[c] = "sent"
    /\ Via[c] = "console"
    /\ server["console"] = "up"
    /\ req[c].args # "nobody"
    /\ files' = IF IsUpload(c) THEN files \cup {req[c].path} ELSE files
    /\ Go(c, "dispatch")
    /\ UNCHANGED <<outside, loop, wlock, qlock, source, tables, effects, result,
                   status>>

\* The route itself raises: the body has no get(), or saving the upload fails.
TakeFails(c) ==
    /\ pc[c] = "sent"
    /\ Via[c] = "console"
    /\ server["console"] = "up"
    /\ req[c].args = "nobody" \/ IsUpload(c)
    /\ End(c, "broken")
    /\ UNCHANGED <<outside, loop, wlock, qlock, data, result>>

\* ToolRegistry.call and the checks the tool makes of its arguments.
Dispatch(c) ==
    /\ pc[c] = "dispatch"
    /\ IF req[c].tool = "other" \/ req[c].args = "bad"
       THEN Return(c, "failed")
       ELSE /\ Go(c, CASE req[c].tool = "ingest_file" -> "path"
                       [] req[c].tool = "query" -> "wantquery"
                       [] OTHER -> "wantwrite")
            /\ UNCHANGED result
    /\ UNCHANGED <<outside, loop, wlock, qlock, data, status>>

-----------------------------------------------------------------------------
(* ingest_file *)

CheckPath(c) ==
    /\ pc[c] = "path"
    /\ IF PathAccepted(env, req[c].path, files)
       THEN /\ Go(c, "wantwrite")
            /\ source' = [source EXCEPT ![c] = Candidate(req[c].path)]
            /\ UNCHANGED result
       ELSE Return(c, "failed") /\ UNCHANGED source
    /\ UNCHANGED <<outside, loop, wlock, qlock, files, tables, effects, status>>

EnterWrite(c) ==
    /\ pc[c] = "wantwrite"
    /\ wlock[Via[c]] = NoCall
    /\ wlock' = [wlock EXCEPT ![Via[c]] = c]
    /\ Go(c, "write")
    /\ UNCHANGED <<outside, loop, qlock, data, result, status>>

LeaveWrite(c, r) ==
    /\ Return(c, r)
    /\ wlock' = [wlock EXCEPT ![Via[c]] = NoCall]

InWrite(c, tools) == pc[c] = "write" /\ req[c].tool \in tools

\* The rows are committed, and the catalog entry is too, or fails.
Load(c) ==
    /\ InWrite(c, {"ingest_file"})
    /\ tables[req[c].table] = NoPlace
    /\ Resolve(source[c]) \in files
    /\ tables' = [tables EXCEPT ![req[c].table] = source[c]]
    /\ effects' = effects \cup {c}
    /\ \E r \in {"ok", "failed"} : LeaveWrite(c, r)
    /\ UNCHANGED <<outside, loop, qlock, files, source, status>>

\* Bug: the lock is not released by a with statement.
IngestFails_KeepLock(c) ==
    /\ InWrite(c, {"ingest_file"})
    /\ Return(c, "failed")
    /\ UNCHANGED <<outside, loop, wlock, qlock, data, status>>

\* The name is taken, the file, which is opened only now, is gone, its
\* content does not parse, a statement fails.
IngestFails(c) ==
    /\ InWrite(c, {"ingest_file"})
    /\ LeaveWrite(c, "failed")
    /\ UNCHANGED <<outside, loop, qlock, data, status>>

-----------------------------------------------------------------------------
(* The other tools *)

\* An index is built; the call may fail after that.
Enable(c) ==
    /\ InWrite(c, {"enable"})
    /\ \E r \in {"ok", "failed"} :
          /\ LeaveWrite(c, r)
          /\ effects' \in {effects \cup {c}} \cup
                          (IF r = "failed" THEN {effects} ELSE {})
    /\ UNCHANGED <<outside, loop, qlock, files, source, tables, status>>

ServeRead(c) ==
    /\ InWrite(c, {"list_datasets", "describe_table", "search"})
    /\ \E r \in {"ok", "failed"} : LeaveWrite(c, r)
    /\ UNCHANGED <<outside, loop, qlock, data, status>>

\* Bug: one lock for both connections.
EnterQuery_WriteLock(c) ==
    /\ pc[c] = "wantquery"
    /\ wlock[Via[c]] = NoCall
    /\ qlock[Via[c]] = NoCall
    /\ qlock' = [qlock EXCEPT ![Via[c]] = c]
    /\ Go(c, "validate")
    /\ UNCHANGED <<outside, loop, wlock, data, result, status>>

EnterQuery(c) ==
    /\ pc[c] = "wantquery"
    /\ qlock[Via[c]] = NoCall
    /\ qlock' = [qlock EXCEPT ![Via[c]] = c]
    /\ Go(c, "validate")
    /\ UNCHANGED <<outside, loop, wlock, data, result, status>>

LeaveQuery(c, r) ==
    /\ Return(c, r)
    /\ qlock' = [qlock EXCEPT ![Via[c]] = NoCall]

Validate(c) ==
    /\ pc[c] = "validate"
    /\ IF ValidatorAccepts(req[c].sql)
       THEN Go(c, "authorize") /\ UNCHANGED <<qlock, result>>
       ELSE LeaveQuery(c, "refused")
    /\ UNCHANGED <<outside, loop, wlock, data, status>>

\* While SQLite prepares the statement.
Authorize(c) ==
    /\ pc[c] = "authorize"
    /\ IF AuthorizerAccepts(req[c].sql)
       THEN Go(c, "run") /\ UNCHANGED <<qlock, result>>
       ELSE LeaveQuery(c, "refused")
    /\ UNCHANGED <<outside, loop, wlock, data, status>>

\* It yields rows, or fails, in the time module QueryExecutor allows it.
Run(c) ==
    /\ pc[c] = "run"
    /\ \E r \in {"ok", "failed"} : LeaveQuery(c, r)
    /\ UNCHANGED <<outside, loop, wlock, data, status>>

-----------------------------------------------------------------------------
(* The answer *)

\* Bug: the result of an ingest holds the Path of its file, not its name.
Encodes_NoPath(c) == ~(req[c].tool = "ingest_file" /\ result[c] = "ok")

\* A value that is bytes has no JSON form.
Encodes(c) == ~(req[c].tool = "query" /\ result[c] = "ok" /\ req[c].sql.blob)

\* The result becomes JSON, outside the registry's try; a rejected upload is
\* removed before.
Answer(c) ==
    /\ pc[c] = "encode"
    /\ End(c, CASE ~Encodes(c) -> "broken"
                [] Encodes(c) /\ result[c] = "ok" -> "ok"
                [] OTHER -> "failed")
    /\ files' = IF IsUpload(c) /\ result[c] # "ok"
                THEN files \ {req[c].path}
                ELSE files
    /\ loop' = IF Via[c] = "mcp" THEN NoCall ELSE loop
    /\ UNCHANGED <<outside, wlock, qlock, source, tables, effects, result>>

\* Somebody removes a file, with any program but these two.
Remove(f) ==
    /\ f \in files \cap Fleeting
    /\ files' = files \ {f}
    /\ UNCHANGED <<outside, pc, loop, wlock, qlock, source, tables, effects,
                   result, status>>

-----------------------------------------------------------------------------
\* The steps of a call outside an ingest.
Step(c) ==
    \/ TakeMCP(c) \/ TakeConsole(c) \/ TakeFails(c) \/ Dispatch(c)
    \/ CheckPath(c) \/ EnterWrite(c) \/ Enable(c) \/ ServeRead(c)
    \/ EnterQuery(c) \/ Validate(c) \/ Authorize(c) \/ Run(c) \/ Answer(c)

\* The end of an ingest.
Ingest(c) == Load(c) \/ IngestFails(c)

Next ==
    \/ \E p \in Programs : Start(p)
    \/ \E c \in Calls : Step(c) \/ Ingest(c)
    \/ \E f \in Places : Remove(f)

Spec == Init /\ [][Next]_vars

\* The programs start and every call that can go on does, but an ingest may
\* take for ever: nothing bounds the length of a file or the wait for it.
FairSpec == /\ Spec
            /\ \A p \in Programs : WF_vars(Start(p))
            /\ \A c \in Calls : WF_vars(Step(c))

-----------------------------------------------------------------------------
(* Properties *)

\* Every variable keeps its type.
TypeOK ==
    /\ env \in Environments
    /\ server \in [Programs -> {"starting", "up", "refused"}]
    /\ req \in [Calls -> Requests]
    /\ pc \in [Calls -> Stages]
    /\ loop \in Calls \cup {NoCall}
    /\ wlock \in [Programs -> Calls \cup {NoCall}]
    /\ qlock \in [Programs -> Calls \cup {NoCall}]
    /\ files \subseteq Places
    /\ source \in [Calls -> Places \cup {NoPlace}]
    /\ tables \in [Tables -> Places \cup {NoPlace}]
    /\ result \in [Calls -> {"none", "ok", "failed", "refused"}]
    /\ status \in [Calls -> {"open", "ok", "failed", "broken"}]
    /\ effects \subseteq Calls

\* Whatever is loaded was a file in an allowed directory with its links
\* followed, and never the store itself, however the caller wrote the path:
\* the check of the configuration at the start and that of the path at the
\* call exclude the store together.
SourcesAllowed ==
    \A t \in Tables : tables[t] # NoPlace =>
        /\ tables[t] # StorePlace(env)
        /\ tables[t] = Leads[tables[t]]
        /\ \E d \in Allowed(env) : Inside(tables[t], d)

\* A statement that runs only reads, and each layer refuses every write, so
\* that either may err.
OnlyReadsPass ==
    /\ \A c \in Calls : req[c].tool = "query" /\ pc[c] = "run" =>
          req[c].sql.kind = "plain"
    /\ \A q \in Texts : q.kind = "write" =>
          ~ValidatorAccepts(q) /\ ~AuthorizerAccepts(q)

\* A statement that only reads, a search in a full-text index included, is
\* refused by neither layer.
ReadsAreServed ==
    \A c \in Calls : req[c].tool = "query" /\ result[c] = "refused" =>
        req[c].sql.kind # "plain"

\* Each call keeps the contract of CallContract.
Contract == INSTANCE CallContract
              WITH changing <- {c \in Calls : Changes(req[c])}

ImplementsContract == Contract!Spec

\* A query to the console is answered although an ingest on the console never
\* ends: the two use different connections and locks.
QueriesPassIngests ==
    <>(\A c \in Calls : Via[c] = "console" /\ req[c].tool = "query" =>
                           server["console"] = "refused" \/ status[c] # "open")

\* Unless an ingest goes on for ever, every call to a program that started is
\* answered: whatever fails gives back the lock and the event loop.
EveryCallAnswered ==
    \/ <>[](\E c \in Calls : InWrite(c, {"ingest_file"}))
    \/ <>(\A c \in Calls : server[Via[c]] = "refused" \/ status[c] # "open")

-----------------------------------------------------------------------------
(* What the repository says and the code does not keep with every SQLite.  *)

\* "test_search_tables_remain_queryable": what reads a full-text index, and so
\* asks for data_version, is refused by neither layer.
SearchTablesQueryable ==
    \A c \in Calls : <<"pragma", "data_version">> \in req[c].sql.acts =>
        result[c] # "refused"

=============================================================================
