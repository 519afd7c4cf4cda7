# A verification model of generic-data-mcp

generic-data-mcp loads files into one SQLite database and offers five tools over
it (`ingest_file`, `list_datasets`, `describe_table`, `query`, `search`). The
same tools are served by two programs: the MCP server, which talks to a client
over stdio, and the ingestion console, a local web server with one page. Both
may run at once, as two processes on one database file and one directory of
uploads. This directory holds TLA+ models of the parts of it that keep state,
the TLC runs that check them, and TLAPS proofs.

Paths below are relative to the repository (`src/...`).

## 1. Inventory

| Part | State | Operations | Talks to |
|------|-------|-----------|----------|
| `storage/sqlite_store.py` `SQLiteStore` | a read-write and a read-only connection, `_write_lock`, `_query_lock` | one method per tool, each under a lock | the managers below; used by the tools |
| `storage/ingest.py` `DataIngestor` | none of its own; the connection's transaction | `ingest`: check, sample, create table, batches, commit, catalog entry; drop on failure | `TableManager`, `MetadataStore`, `TypeInferrer`, a parser |
| `storage/metadata.py` `MetadataStore` | the table `_mcp_datasets` | `record`, `list_all` | the read-write connection |
| `storage/search.py` `SearchIndex` | an FTS5 table and three triggers per indexed table | `enable`, `search`, `is_enabled` | the read-write connection |
| `storage/query.py` `QueryExecutor` | progress handler of the read-only connection | `execute` | `SQLValidator`, `QueryAuthorizer` |
| `parsers/*` | position in a file | lazy `parse` | pulled by `DataIngestor` under the write lock |
| `storage/types.py`, `_normalize_columns` | none (pure) | types and names of columns | `DataIngestor` |
| `tools/*`, `server.py`, `app.py` | the event loop of the MCP server | dispatch, exceptions to replies, results to JSON | the store |
| `webui/server.py` | the uploads directory | `upload`, three read routes, request guard | the tool registry |
| `webui/static/app.js` | the page: active table, panels, message, file input | upload, list, describe, query | the routes, by `fetch` |
| `validators/*`, `config.py`, `authorizer.py` | none (pure) | accept or refuse | the tools, the query connection |
| `scripts/install_claude_desktop_config.py` | a configuration file, its backup, a temporary file | one run | Claude Desktop, which owns the file |

What is hard, and what must hold:

* **Two processes, one file.** The locks of the facade are per process. Between
  processes there is only SQLite: one writer, snapshots, a five second busy
  timeout, DDL that commits by itself and DML that begins a transaction by
  itself. *Must hold:* the catalog never lies; an acknowledged ingest stays; a
  dataset is never seen in part; an index with triggers matches its table; no
  call hangs.
* **Threads of the console on one connection.** One connection means one
  transaction, one progress handler, one snapshot. *Must hold:* no call's
  rollback, deadline or cursor reaches another call.
* **Failure in the middle, and death.** Any statement may be busy, a parser may
  raise after a thousand rows, a process may die. *Must hold:* what was there
  stays, and what failed leaves nothing that others take for a success.
* **Files without locks.** Uploads, and the configuration, are changed by check
  and act in separate system calls. *Must hold:* nobody's file is replaced,
  removed or cut off.
* **Answers in any order.** The page sends requests and handles answers when
  they come. *Must hold:* what it shows belongs together.
* **Checks in layers.** The store is kept from the ingests by the check of the
  configuration at the start and that of the path at the call together; a write
  by the syntax tree and by the actions SQLite asks leave for. *Must hold:* no
  layer trusts the other with something it does not do, and none refuses what the
  product offers.
* **The way back.** A result has to become JSON after the work is done, in a loop
  or a thread that others wait for. *Must hold:* an answer says what was done, and
  whatever fails gives back locks and loop.
* **Boundaries.** The row cap with its extra row, the sample with its batches,
  suffixes that collide with headers, texts that Python and SQLite read
  differently.

`PROJECT.json` lists each hazard with its line and the properties that watch it.

## 2. Modules

| Module | Models | Runs |
|--------|--------|------|
| `StoreContent` | what the file holds, and each statement as a function of it | (below) |
| `SharedDatabase` | SQLite in WAL mode under Python's `sqlite3`: external to the repository | (below) |
| `Store` | `SQLiteStore`, `DataIngestor`, `MetadataStore`, `TableManager`, `SearchIndex` | `store_*` |
| `Catalog` | what the store promises of datasets, abstractly | refined by `Store` |
| `QueryExecutor` | `query.py` under `_query_lock` | `query` |
| `Upload` | `upload` and `_save_unique`, and ingests of the other process | `upload_requests` |
| `ColumnNames` | `_normalize_columns` | `ingest_rows`, as part of: |
| `IngestRows` | parser, sample, names, types, batches and stored values of one ingest | `ingest_rows` |
| `AllowedPaths` | `config.py`, `PathValidator`, `ParserRegistry` | (below) |
| `ReadOnlySQL` | `SQLValidator`, `QueryAuthorizer` | (below) |
| `CallContract` | what a caller of a tool may rely on, abstractly | refined by `ToolCalls` |
| `ToolCalls` | both programs from the transport to the answer: `server.py`, `ToolRegistry`, the tools, the routes, the two locks | `tool_calls` |
| `ConsolePage` | `app.js` and the routes as it sees them | `console_page` |
| `Installer` | the installer script | `installer` |

`StoreContent` <- `SharedDatabase` <- `Store` are layered by EXTENDS, so are
`ColumnNames` <- `IngestRows`, and `AllowedPaths` and `ReadOnlySQL` <- `ToolCalls`.
`Store` INSTANCEs `Catalog`, and `ToolCalls` `CallContract`, with a refinement
mapping. `MC*` modules only name the
constants of the small instances. `*Proofs` modules hold the theorems;
`IngestRowsProofs` EXTENDS `ColumnNamesProofs`, as its module does the other's.

Operators whose name has a suffix and whose comment begins with "Bug:"
(`Enter_NoLock`, `Create_Overwrite`) are not part of any specification.
Each is a plausible mistake in the definition it is named after, and the run
named with it in `PROJECT.json` finds its property violated when it is put in
place of that definition.

### Store, SharedDatabase, StoreContent

One action per statement whose effect or failure another process can tell apart.
`pc[w]` is the statement thread `w` executes next; `lock[p]` is the write lock
of process `p`; `db` the committed content; `conn[p]` and `view[p]` the state and
the snapshot of its connection. A failing statement is an action of its own
(`InsertFails`, `RecordFails`...), so is what the handler then does (`DropTable`,
`DropFails`). One unit of rows is one batch: the code commits, counts and rolls
back whole batches only. A call enters at any time (`StartIngest`...), waits for
the lock in the guard of `Enter`, and leaves with `reply[w]`.

`SharedDatabase` is the least obvious part. A connection is in `"begun"` after a
DML statement timed out: the driver has issued BEGIN, SQLite has taken neither
lock nor snapshot. The next read in it pins a snapshot (`"reading"`); a commit by
the other process makes that snapshot `"stale"`, and every write then fails at
once with BUSY_SNAPSHOT. The module was compared with the real `sqlite3` module
for each of these transitions.

The table names include a `t_fts` that a caller may ingest as a table of its own.

### QueryExecutor

`lock`, `handler` (whose deadline the connection's progress handler tests),
`left` (ticks of a deadline), `pinned` (the snapshot of a cursor that still has
rows). A statement is a record of what becomes of it: how many rows it yields;
how it ends (refused by the validator or, when it is prepared, by the authorizer;
done; endless; failing); and, if it fails, which of the words that `execute`
looks for its message holds. `Kind` is that lookup. It cannot tell SQLite's own
"interrupted" from a column of that name in "no such column": `Misread` are the
statements for which it errs. `Tick` is the clock. `held`, `called`, `seen` are
history variables for the properties.

### Upload

`disk` maps paths to files (who wrote it, whole or not), `tables` maps names to
what they were loaded from. A request goes guard, `Create` (exclusive) or
`Collide`, `Save` or `SaveFails`, ingest, `Unlink` on failure, answer. `Readers`
are ingests by the MCP process, of any file, also one half saved.

### ColumnNames and IngestRows

A name is a stem with its suffixes as a sequence (`<<id, 2>>` is `id_2`), so that
a suffix the loop adds and one that the header already has are the same name.
`Fold` is the case folding SQLite applies to names, and the code does not.

A file is a sequence of records, blank and broken lines; a record maps keys to
texts. The parser's position `pos` is shared between the sample and the batches,
as the generator is in the code. `InFile`, the records of a file in order, is what
the properties compare with: the n-th record is in the line that is n-th among
those that hold one, which says nothing of how they are pulled. `parser` tells parsers that fail at the broken
line from the one that fails before its first record (JSON). A row with more
cells than the header has the key `Ragged`.

A cell is one text of each kind that `int()`, `float()` and SQLite's column
affinity tell apart: `7`, `007`, `1_000`, `1.5`, `nan`, a number too wide for an
INTEGER and one too huge for a REAL, a word, nothing. `IntTexts` and
`NumberTexts` say what Python accepts, `Stored` what SQLite makes of it.

### AllowedPaths, ReadOnlySQL, ToolCalls

A place is an absolute path as written; `Leads` follows its links, `Parents` are
the directories above it. `ConfigAccepts` and `PathAccepted` are the two checks. A
statement is a record of what sqlglot finds in its text (number of trees, root,
node types, unknown functions) and of the actions SQLite asks leave for;
`ValidatorAccepts` and `AuthorizerAccepts` are the code's conditions on them,
with its own lists. `kind` says what the statement really does, which is what the
verdicts are compared with: "plain" is a SELECT, or a UNION of some, that only
reads; "write" would change a database or its transaction; the rest is "other".
`KindOK` is what is trusted of sqlglot and SQLite: which trees and actions a
statement of each kind shows. It has lists of its own, of what changes something
and what reaches out of the database, taken from the two libraries and not from
the code's lists; `KindAssumption` says that every statement of the model is so.
`MATCH` asks for `PRAGMA data_version`, which is why that one is allowed.
`Opening` is what SQLite asks leave for when a connection first opens a virtual
table, as it does for each search index: nothing in some builds, an update of
`sqlite_master` in 3.40.1.

In `ToolCalls` each call has a place `pc[c]` on its way from the transport to the
answer. `loop` is the event loop of the MCP server, which `_call_tool` holds
until its answer, as nothing in it awaits; the console has a thread per request.
`wlock` and `qlock` are the two locks of each program's store. Arguments are
`"fine"`, `"bad"` (the tool refuses them or raises) or `"nobody"` (the body of
`/api/query` is not an object, and the route itself raises). What the store does
under `_write_lock` is one step with the outcomes `Store` shows it to have: an
ingest that fails after its rows were committed among them. The clean-up of a
rejected upload is taken not to fail; `Upload` has its details.

`CallContract` says what all this is for: a call takes effect at most once and
before its answer, "ok" says that it did, and a call that breaks, because its
answer has no JSON form or its route raised, did nothing.

### ConsolePage

`calls` is the bag of requests in flight: sent, answered ("ok" or "refused"), and
gone when the page has handled them. The server answers in any order, from what
was loaded at that moment; any request may also break, before or after the server
acted. Only for a list, and for an upload, does it matter when the server acts:
the other answers are made as they arrive. `schema` and `results` are what is in
the two panels, in order; `picked` is the file in the file input, which tells the
page nothing when it is chosen again. `hasty`, chosen once and for all in `Init`
from `Habits`, are the requests that the user makes while others are in flight; a
patient user has none, and some properties are promised to that one only. The
text in the SQL box, which a selection overwrites, and the values of rows are not
told apart.

### Installer

`config`, `backup`, `tmp[r]`; a version number per server entry tells old from
new content. `mode`, chosen in `Init`, says whether runs and the changes of
others take turns (`"serial"`) or overlap (`"racing"`). Every system call may fail (`Fail`), the process may be killed
(`Kill`), and others may change the file (`Edit`).

## 3. Runs

Passing runs:

| Run | Bounds | Shows |
|-----|--------|-------|
| `store_shared` | 2 processes, 1 thread each, 2 names, 1 batch, crashes, fairness | `ListedMatches`, `AckedIngest`, `IndexInSync`, the invariant `StoreInv` they follow from, that `Store` implements `Catalog`; `SearchStays`: search once enabled on a listed table stays; what failure or death leaves behind is not repaired by any later call: `UnlistedStays`, `UntriggeredStays`; each call that got its lock ends, though the other process may keep the file locked: `CallsAreAnswered` |
| `store_console` | 1 process, 2 threads, 2 names, 2 batches | with no second process the clean-up is complete: `NoOrphans`, `EnabledIsComplete`, and the invariant `OneProcessInv` they follow from |
| `query` | 2 threads, cap 1, 9 statements (up to 2 rows, every end, every message), budget 1 tick, 1 commit, fairness | `FullBudget`, `CapExact`, `FreshResult`, `NoStrayHandler`; a query that got the connection is answered, also an endless one |
| `upload_requests` | 2 uploads, 1 reader, 2 names with suffixes, 2 tables | `UploadKept`, `RejectedRemoved`, `NeverReplaced` |
| `ingest_rows` | sample 2, batch 3; all files of up to 4 lines over two records, blank and broken lines; four headers out of 6; all columns of up to 3 cells over all texts; long rows; fairness | `Distinct`, `FirstFree`, `RowsExact`, `TypesFit`, `ValuesKept`, `Terminates` |
| `tool_calls` | 2 calls to each program, 1 table, 4 environments, 8 places with 2 links, 10 statements, a SQLite that asks no leave to open an index, fairness | `SourcesAllowed`, `OnlyReadsPass`, `ReadsAreServed`, `QueriesPassIngests`, `EveryCallAnswered`, and that `ToolCalls` implements `CallContract` |
| `console_page` | 3 requests in flight, 2 tables, 4 habits, fairness | `HighlightMatches`, `UploadIsReported`; `PanelsShowLatest` for the patient user, `UploadedIsListed` |
| `installer` | 2 runs and 2 edits, in turns and all at once | `NeverCorrupted`, `NoLitter`; in turns `OthersUntouched`, `BackedUp` |

Runs that find a violation; each quotes what the repository says, and is a
finding in `PROJECT.json`:

| Run | Property | What happens |
|-----|----------|--------------|
| `store_unlisted` | `LoadedIsListed` | the catalog entry fails after the rows were committed: the table is loaded, unlisted, and blocks its name |
| `store_untriggered` | `EnabledHasTriggers` | `CREATE VIRTUAL TABLE` commits by itself; a later failure leaves an index without triggers that cannot be enabled again |
| `store_wedged` | `RecoversFromFailure` | a timed out write leaves a transaction open; after the next read and the other's commit the connection can never write again |
| `tool_calls_search` | `SearchTablesQueryable` | SQLite 3.40.1 asks leave to update `sqlite_master` when a connection first opens a search index; the authorizer denies it, and the query fails with "vtable constructor failed" (seen with the repository's `QueryAuthorizer` on a fresh `mode=ro` connection) |

Other limits of the code that the models contain, and that no property excludes:

* a table whose ingest ended without listing it stays unlisted and its name taken
  (`UnlistedStays`), an index without triggers stays so (`UntriggeredStays`), and a
  stale connection stays stale until its process restarts (`StaleUntilRestart`);
* a query that is an EXCEPT, an INTERSECT or a VALUES is refused, as the validator
  lists UNION only (`AllowedRoots`);
* a dataset named `t_fts` passes for the index of `t`: `enable` refuses with
  "already enabled" although there is nothing to search (`IsEnabled`);
* if saving an upload raises, the partial file stays in the directory from which
  files may be ingested (`SaveFails`);
* headers that differ in case only keep their names, and `CREATE TABLE` refuses
  the file as a whole (`CreateTableFails`);
* `007` becomes 7 in a column of integers, `1_000` stays a text in one, and a
  number out of range is rounded or infinite (`Stored`; `ValuesKept` names the
  exceptions);
* a query whose failure mentions a word of `execute`'s list, as the name of a
  column may, is reported as what the word stands for (`Misread`);
* a query with a BLOB in its result breaks the reply on either transport
  (`Encodes`);
* every call to the MCP server waits for the ingest before it, however long
  (`loop`);
* two quick selections on the page leave the columns of both tables in the
  panel, two quick queries both results, and an old list may be drawn over a new
  one;
* after a refused upload the file input keeps its file, and choosing the same
  again does nothing (`Pick`);
* an entry that another program adds to the configuration between the read and
  the rename of the installer is lost.

`NoOrphans` and `EnabledIsComplete` are checked with one process because across
processes they fail, in the way `store_unlisted` and `store_untriggered` show: a
second process can take the file's lock between two statements of a call.
`OthersUntouched`, `BackedUp` and the panel properties likewise hold without
overlap and fail with it, which is why they name the mode or the user.

**Why the bounds are enough to be interesting.** Two processes are what the
product runs; one of them with two threads is the console, and more threads of
one process wait for the same lock. Two batches tell "first", "later" and "all"
apart (`store_console`); across processes one is enough, as a call that has put its
first batch holds the file until it ends (`NeverBusyMidway`) and may fail after it,
and all the safety properties of `store_shared` are proved for any number; two names, one the other's index name, give the collision. Two rows
against a cap of one is under, at and over it. Four lines against a sample of two
and a batch of three is shorter than the sample, as long, between the two, a full
batch, and a rest. Of two calls to each program one may hold its lock or the loop
while the other waits, and the two programs meet in the file and the directory;
the environments have the store outside the allowed directory, in it, and in it by
way of a link, and one allows nothing. Three requests are one selection (two requests) and another
request, or three lists. Two uploads with a name and its two suffixed forms
collide twice. The proofs lift most of the invariants to all sizes.

Bounds that are named constants: `MaxBatches`, `MaxCommits`, `MaxCalls`,
`MaxEdits`, `SampleSize` and `BatchSize`; the sets of statements, files, records,
environments and habits; what each call may ask (`MayAsk`) and which files others
may remove (`Fleeting`); and the sets of workers, requests and calls.
Runs of `Upload`, `Installer`, `IngestRows` and `ToolCalls` end by design and do
not check deadlock; the others do.

**Fairness.** `Store`: weak fairness of each thread inside a call. A call inside
the lock waits for nothing but the database, and that wait is bounded by
`busy_timeout`; nothing is assumed of threads that wait for the lock, as
`RLock` is not fair. Starting a call is never fair, except in `RetrySpec`
(`store_wedged`), where callers retry for ever: even then the connection does
not recover. `QueryExecutor`: weak fairness of the steps of a thread, and of the
clock. `IngestRows`: one thread runs to its end. `ToolCalls`: a program starts, and
every call that can take a step does, except that an ingest need not end, which
is what `QueriesPassIngests` is about; each call is made once, so that a call that
waits for a lock gets it when the others are through. `ConsolePage`: a
request is answered or refused in the end (which `CallsAreAnswered` and
`QueryIsAnswered` are about) and the event loop runs the handler of an answer, of
each kind of request;
breaking a connection, and the user, are not fair.

## 4. Proofs

All theorems are proved by TLAPS for all values of the constants that meet the
named assumptions; the assumptions only say that constants are of the right kind
(a bound is a positive number, "nobody" is no thread, appending `_fts` to two
names gives two names, a record has one heading for each key) and what the two
libraries report of a statement of each kind (`KindAssumption`). Two sets of
theorems have a hypothesis of their own: those about a console that runs alone
(`OneProcess`), and `ReadsAreServedCorrect` (`Opening = {}`, without which it is
false, as `tool_calls_search` shows).

* `StoreProofs`. `IInv == TypeOK /\ OneCallPerProcess /\ ConnInv /\ DataInv`.
  `OneCallPerProcess`: a thread in a call holds its process's lock.
  `ConnInv`: at most one connection is writing, and one without a transaction has
  no view. `DataInv` relates the file to the calls under way: a listed table has
  the rows listed; a table that some call is filling is that call's alone, empty
  on file until it commits, and what the open transaction sees differs from the
  file only in what its call did. `ListedMatches` and `AckedIngest` are not
  inductive without this, since a rollback or a `DROP TABLE` is harmless only
  because the table dropped is the dropper's own. From it follow
  `ListedMatchesCorrect`, `AckedIngestCorrect` and, step by step,
  `StoreImplementsCatalog`: a commit of rows is `Load`, the catalog entry is
  `List`, everything else stutters.

  `IndexInv` does the same for the search index. `IndexInSync` speaks of committed
  triggers only; what keeps it is that triggers and rows agree in every transaction
  that may still commit, and that the index a call created stays empty, in whatever
  snapshot, until that call fills it (`FillOK`): another ingest cannot write into
  it, as its table has no trigger yet, and no other call builds it (`OneFiller`).
  From there to the triggers the file is locked by the call's own transaction.
  `StoreInv` is `TypeOK` and these two.

  `OneProcessInv` adds what only a process without company has (`OneProcess`: one
  process, not killed): a connection is never left in a transaction that cannot
  write, so an unlisted table has an ingest that is still running, and a table with
  triggers is listed, so that no ingest's clean-up drops it. `NoOrphansCorrect` and
  `EnabledIsCompleteCorrect` follow, for any number of threads.

  `OwnWorkOnly` says of one step what it may do to the file at all: only to the
  table and the index of its own call. With `TrigInv` (triggers appear in the
  statement that commits them, never earlier in a transaction) it gives the three
  action properties about what calls leave to others: `SearchStaysCorrect`, and
  for what failure or death left behind `UnlistedStaysCorrect` and
  `UntriggeredStaysCorrect`. `NeverBusyMidway`: between its first batch and its
  commit, or its filling of an index and its triggers, a call holds the file and
  waits for nobody. `StaleUntilRestart` is why `store_wedged` fails: a stale
  connection stays so, with its old snapshot, and every ingest and enable of its
  process fails, until the process dies.
* `QueryExecutorProofs`. The invariant ties lock, handler and place together
  (who holds the lock is who is armed), relates budget used and budget left
  (`held + left > Timeout` while armed), counts fetched rows, and bounds the age
  of the snapshot; `FullBudget`, `CapExact`, `FreshResult`, `NoStrayHandler` follow.
  `QueriesCountDown`: each step of the query that has the lock brings its answer
  nearer, and no step of anybody else sends it back or puts its deadline off.
* `UploadProofs`. A request between create and answer owns the file at its path,
  and no file has two owners; `UploadKept`, `RejectedRemoved`, `NeverReplaced`.
* `InstallerProofs`. A temporary file that is about to be renamed is whole;
  `NeverCorrupted`, `NoLitter`. A second invariant, of turns: at most one run is
  under way, what it read is what is in the file, and once its backup is made
  the backup equals the file; `OthersUntouched`, `BackedUp`.
* `ColumnNamesProofs`. `seen` is exactly what was handed out; `Distinct`. That the
  first free suffix of column `i` is at most `i` needs a count: the names tried so
  far are pairwise distinct (`TriedDistinct`) and all among the names handed out
  (`SuffixInv`), so they are no more than those (`TriesBounded`, by the pigeonhole
  principle); `FirstFree`.
* `IngestRowsProofs`. `RowsInv`: rows inserted, batch and rest of the sample are,
  one after the other, the records up to the parser's position, none twice and
  none left out; the sample is the leading records, and the types are inferred from
  it. `Rank` counts the records up to a line, and every rank is that of one line
  (`InFileType`). At the end of the file nothing is left in batch and sample:
  `RowsExact`, for any file, sample size and batch size. The sample is what the
  types should fit (`LeadingIsSampled`): `TypesFit`, and cell by cell
  `ValuesKept`. The steps of an ingest are steps of the naming loop or leave it
  alone, so `Distinct` and `FirstFree` hold here as well, and `ColumnsNamed` says
  that names, types and values are of one number.
* `ConsolePageProofs`. A list that is out of date has its redrawing under way:
  `HighlightMatches`. What is said to be loaded is loaded, and a patient user has
  at most one click's requests in flight, so that the panels are empty until their
  one answer comes and the list that follows an upload has its table:
  `PanelsShowLatest`, `UploadedIsListed`. "Uploading" is on the page only while an
  upload is under way, whatever ends in whichever order: `UploadingCorrect`.
* `ToolCallsProofs`. A call is served only by a program that accepted its
  configuration; a source is set only by the check of the path, and what passed
  both is allowed and not the store, whatever the tree: `SourcesAllowed`. A call
  whose result is "ok" took effect, if it had one to take, and a query has none at
  any stage: `CallsImplementContract`. `LayersCorrect`: a statement that runs was
  accepted by the validator and then the authorizer, one that is refused was not.
  With `KindAssumption` this becomes `OnlyReadsPassCorrect`, for all statements of
  which it is true: what runs is plain, and each layer alone refuses every write;
  and `ReadsAreServedCorrect`: neither refuses a plain one.
  `LocksGivenBack`: who holds a lock, or the event loop, is where it is needed, and
  never waits for another lock there. So `WaitsAreShort`: whoever a call waits for is
  a call to the same program that waits for nobody, and a query waits for no ingest.

Type correctness of `Store`, `QueryExecutor`, `Upload`, `Installer` and
`ToolCalls` is proved along with these. The runs leave it to the proofs, but for that of
`Store`, which is part of `StoreInv`.

Only model-checked: liveness (`CallsAreAnswered`, `QueryIsAnswered`, `Terminates`,
`UploadIsReported`, `QueriesPassIngests`, `EveryCallAnswered`), as TLAPS does not do
fairness. Every other property of the passing runs is stated by a theorem.
What the theorems about statements trust is in `KindAssumption`, and TLC
evaluates it on the ten statements of `MCToolCalls` only.

Of the liveness properties, one half is proved: what is under way cannot go on
for ever. `CallsCountDown` (behind `CallsAreAnswered`) gives each call of the store
a number of statements left, which its own steps lower and no other step raises;
`QueriesCountDown` (behind `QueryIsAnswered`) does the same for a query, whose
endless computing the clock ends;
`CallsAdvance` (behind `EveryCallAnswered` and `QueriesPassIngests`) has each step
take one call further and no call start again, and `WaitsAreShort` rules out that
calls wait in a ring; `UploadingCorrect` (behind `UploadIsReported`) has an upload
under way for as long as the page says so; `NamesEnd` and `IngestEnds` (behind
`Terminates`) count down the tries, columns, lines and batches of an ingest. That a
thread can always take its next step is left to TLC.

## 5. Not modelled

SQLite and Python's `sqlite3` are assumptions (`SharedDatabase`), as are Flask,
the browser and the MCP library. What sqlglot and SQLite find in a
statement is an input of the model: the actions of the ten statements of
`MCToolCalls` were taken from SQLite's authorizer callback (`edit` exists in some
builds only), their trees follow sqlglot's node types as the validator and its
tests name them. Links and directories do not change while the
programs run: a file exchanged for a link between its check and its reading is
outside the model, and the code does not look again. File formats, the regular
expressions of `normalize_identifier`, headers that a format has already merged
(two equal ones in a CSV file), ranking of matches, response headers, styles and
wording are left out. The evaluation harness keeps no state and is not part of
the program. `SQLiteStore.close` has no caller while the servers run. Durations
on the write connection are not modelled: a slow search there blocks ingests, and
the code sets it no limit.

## 6. Plan

Done: the store with its abstract catalog, query executor, upload, installer,
column names within the rows of an ingest, values and their types, paths and
statements within the calls of both programs with their abstract contract, the
page with all its panels.

Next, in this order:

1. `IngestRows` composed with `Store`: a batch of `Store` refined by its rows.
2. `ToolCalls` with the statements of `Store` in place of its one step.
3. Proofs: a count like that of `CallsCountDown` for the requests of the page.
