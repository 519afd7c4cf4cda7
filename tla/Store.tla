-------------------------------- MODULE Store --------------------------------
(***************************************************************************)
(* SQLiteStore and the managers behind its read-write connection           *)
(* (TableManager, DataIngestor, MetadataStore, SearchIndex), run by the    *)
(* threads of the processes that share the file: the MCP server, which     *)
(* serves one call at a time, and the web console, which serves requests   *)
(* on parallel threads.  Each process has one connection and one           *)
(* _write_lock; the lock says nothing to the other process.                *)
(*                                                                         *)
(* A call runs as a sequence of actions, one per statement whose effect or *)
(* failure another process could tell apart.                               *)
(***************************************************************************)
EXTENDS SharedDatabase

CONSTANTS
    Workers,    \* the threads that serve calls
    Home,       \* Home[w]: the process that thread w belongs to
    NoWorker,   \* holder of a lock nobody holds
    MaxBatches, \* bound: batches one ingest may insert
    Crashing    \* whether a process may die at any point

ASSUME HomeAssumption == Home \in [Workers -> Procs]
ASSUME NoWorkerAssumption == NoWorker \notin Workers
ASSUME MaxBatchesAssumption == MaxBatches \in Nat \ {0}
ASSUME CrashingAssumption == Crashing \in BOOLEAN

VARIABLES
    lock,   \* lock[p]: which thread holds p's _write_lock
    pc,     \* pc[w]: the statement w executes next
    tbl,    \* tbl[w]: the table_name argument of w's latest call
    got,    \* got[w]: row_count of w's latest ingest, in batches
    reply   \* reply[w]: what w's latest call returned

vars == <<db, conn, view, lock, pc, tbl, got, reply>>

IngestSteps == {"exists", "sample", "insert", "drop", "record"}
EnableSteps == {"schema", "enabled", "index", "fill", "triggers"}

\* The steps of an ingest that has created its table.
Owning == {"insert", "drop", "record"}

Replies == {"none", "ingested", "enabled", "already", "read", "failed"}

\* Types of the variables.
TypeOK ==
    /\ DatabaseTypeOK
    /\ lock \in [Procs -> Workers \cup {NoWorker}]
    /\ pc \in [Workers -> {"idle"} \cup IngestSteps \cup EnableSteps]
    /\ tbl \in [Workers -> Names]
    /\ got \in [Workers -> 0..MaxBatches]
    /\ reply \in [Workers -> Replies]

Init ==
    /\ DatabaseInit
    /\ lock = [p \in Procs |-> NoWorker]
    /\ pc = [w \in Workers |-> "idle"]
    /\ tbl \in {[w \in Workers |-> t] : t \in Names}
    /\ got = [w \in Workers |-> 0]
    /\ reply = [w \in Workers |-> "none"]

-----------------------------------------------------------------------------
(* Control flow of a call. *)

conVars == <<db, conn, view>>

Goto(w, next) ==
    /\ pc' = [pc EXCEPT ![w] = next]
    /\ UNCHANGED <<lock, tbl, got, reply>>

\* The call returns r (or raises, which the tool layer turns into a failed
\* reply) and the `with self._write_lock` block is left.
Answer(w, r) ==
    /\ pc' = [pc EXCEPT ![w] = "idle"]
    /\ lock' = [lock EXCEPT ![Home[w]] = NoWorker]
    /\ reply' = [reply EXCEPT ![w] = r]
    /\ UNCHANGED <<tbl, got>>

\* Bug: the facade forgets its lock.
Enter_NoLock(w, t, first) ==
    /\ pc[w] = "idle"
    /\ lock' = [lock EXCEPT ![Home[w]] = w]
    /\ pc' = [pc EXCEPT ![w] = first]
    /\ tbl' = [tbl EXCEPT ![w] = t]
    /\ got' = [got EXCEPT ![w] = 0]
    /\ reply' = [reply EXCEPT ![w] = "none"]
    /\ UNCHANGED conVars

\* A call on table t arrives and obtains its process's lock.
Enter(w, t, first) ==
    /\ pc[w] = "idle"
    /\ lock[Home[w]] = NoWorker
    /\ lock' = [lock EXCEPT ![Home[w]] = w]
    /\ pc' = [pc EXCEPT ![w] = first]
    /\ tbl' = [tbl EXCEPT ![w] = t]
    /\ got' = [got EXCEPT ![w] = 0]
    /\ reply' = [reply EXCEPT ![w] = "none"]
    /\ UNCHANGED conVars

\* A call that only reads takes the lock, reads and answers: another process
\* can tell only that it may have pinned a snapshot.
ReadOnly(w, t) ==
    /\ pc[w] = "idle"
    /\ lock[Home[w]] = NoWorker
    /\ Read(Home[w])
    /\ tbl' = [tbl EXCEPT ![w] = t]
    /\ reply' = [reply EXCEPT ![w] = "read"]
    /\ UNCHANGED <<lock, pc, got>>

-----------------------------------------------------------------------------
(* ingest *)

StartIngest(w, t) == Enter(w, t, "exists")

\* table_exists: one read, then a refusal or the next step.
CheckAbsent(w) ==
    /\ pc[w] = "exists"
    /\ Read(Home[w])
    /\ IF TableExists(Seen(Home[w]), tbl[w])
       THEN Answer(w, "failed")
       ELSE Goto(w, "sample")

\* Reading the sample raises or yields no row, or no table can have its
\* headers as columns.  None of these reaches the transaction.
SampleFails(w) ==
    /\ pc[w] = "sample"
    /\ Answer(w, "failed")
    /\ UNCHANGED conVars

\* Bug: CREATE TABLE IF NOT EXISTS.
CreateTable_IfNotExists(w) ==
    /\ pc[w] = "sample"
    /\ WriteAndCommit(Home[w], WithTable(Seen(Home[w]), tbl[w]))
    /\ Goto(w, "insert")

\* create_table commits whatever its connection had open, too.
CreateTable(w) ==
    /\ pc[w] = "sample"
    /\ ~TableExists(Seen(Home[w]), tbl[w])
    /\ WriteAndCommit(Home[w], WithTable(Seen(Home[w]), tbl[w]))
    /\ Goto(w, "insert")

\* Bug: create_table inside the try block, so its failure drops the table.
CreateTableFails_InsideTry(w) ==
    /\ pc[w] = "sample"
    /\ Rollback(Home[w])
    /\ Goto(w, "drop")

\* Another process made the table meanwhile, or the file stayed busy.
CreateTableFails(w) ==
    /\ pc[w] = "sample"
    /\ TableExists(Seen(Home[w]), tbl[w]) \/ ~CanWrite(Home[w])
    /\ Answer(w, "failed")
    /\ UNCHANGED conVars

\* Bug: a commit behind every batch.
InsertBatch_CommitEach(w) ==
    /\ pc[w] = "insert"
    /\ got[w] < MaxBatches
    /\ WriteAndCommit(Home[w], WithBatch(Seen(Home[w]), tbl[w]))
    /\ got' = [got EXCEPT ![w] = @ + 1]
    /\ UNCHANGED <<lock, pc, tbl, reply>>

InsertBatch(w) ==
    /\ pc[w] = "insert"
    /\ got[w] < MaxBatches
    /\ Write(Home[w], WithBatch(Seen(Home[w]), tbl[w]))
    /\ got' = [got EXCEPT ![w] = @ + 1]
    /\ UNCHANGED <<lock, pc, tbl, reply>>

\* The rows end (the sample alone is a batch) and the load commits.
FinishRows(w) ==
    /\ pc[w] = "insert"
    /\ got[w] > 0
    /\ Commit(Home[w])
    /\ Goto(w, "record")

\* Bug: a batch that fails is skipped but counted.
InsertFails_SkipBatch(w) ==
    /\ pc[w] = "insert"
    /\ got[w] < MaxBatches
    /\ got' = [got EXCEPT ![w] = @ + 1]
    /\ UNCHANGED <<db, conn, view, lock, pc, tbl, reply>>

\* Bug: the except branch forgets to drop the table it created.
InsertFails_NoDrop(w) ==
    /\ pc[w] = "insert"
    /\ Rollback(Home[w])
    /\ Answer(w, "failed")

\* The parser raises, a value does not convert or the file stays busy.
InsertFails(w) ==
    /\ pc[w] = "insert"
    /\ Rollback(Home[w])
    /\ Goto(w, "drop")

DropTable(w) ==
    /\ pc[w] = "drop"
    /\ WriteAndCommit(Home[w], WithoutTable(Seen(Home[w]), tbl[w]))
    /\ Answer(w, "failed")

\* Bug: no busy timeout, so DROP waits as long as the other process writes.
DropFails_NoTimeout(w) ==
    /\ pc[w] = "drop"
    /\ conn[Home[w]] = "stale"
    /\ Answer(w, "failed")
    /\ UNCHANGED conVars

\* The file is busy: the exception of DROP replaces the one being handled.
DropFails(w) ==
    /\ pc[w] = "drop"
    /\ ~CanWrite(Home[w])
    /\ Answer(w, "failed")
    /\ UNCHANGED conVars

RecordDataset(w) ==
    /\ pc[w] = "record"
    /\ WriteAndCommit(Home[w], WithDataset(Seen(Home[w]), tbl[w], got[w]))
    /\ Answer(w, "ingested")

\* record is outside the try block: nothing rolls its transaction back.
RecordFails(w) ==
    /\ pc[w] = "record"
    /\ TimeOutDML(Home[w])
    /\ Answer(w, "failed")

-----------------------------------------------------------------------------
(* enable_search *)

StartEnable(w, t) == Enter(w, t, "schema")

\* get_schema, then the check of the requested columns, which may refuse.
GetSchema(w) ==
    /\ pc[w] = "schema"
    /\ Read(Home[w])
    /\ \/ /\ Seen(Home[w]).kind[tbl[w]] = "data"
          /\ Goto(w, "enabled")
       \/ Answer(w, "failed")

CheckEnabled(w) ==
    /\ pc[w] = "enabled"
    /\ Read(Home[w])
    /\ IF IsEnabled(Seen(Home[w]), tbl[w])
       THEN Answer(w, "already")
       ELSE Goto(w, "index")

\* Bug: CREATE VIRTUAL TABLE IF NOT EXISTS.
CreateIndex_IfNotExists(w) ==
    /\ pc[w] = "index"
    /\ WriteDDL(Home[w], WithIndex(Seen(Home[w]), tbl[w]))
    /\ Goto(w, "fill")

\* CREATE VIRTUAL TABLE: commits by itself unless a transaction is open.
CreateIndex(w) ==
    /\ pc[w] = "index"
    /\ ~IsEnabled(Seen(Home[w]), tbl[w])
    /\ WriteDDL(Home[w], WithIndex(Seen(Home[w]), tbl[w]))
    /\ Goto(w, "fill")

\* Refused before it runs (busy, name taken), or by FTS5 (column names it
\* reserves): the latter inside an open transaction has taken the lock.
CreateIndexFails(w) ==
    /\ pc[w] = "index"
    /\ \/ UNCHANGED conVars
       \/ conn[Home[w]] # "auto" /\ Write(Home[w], Seen(Home[w]))
    /\ Answer(w, "failed")

\* Bug: the index is committed before its triggers exist.
FillIndex_CommitEarly(w) ==
    /\ pc[w] = "fill"
    /\ TableExists(Seen(Home[w]), tbl[w])
    /\ WriteAndCommit(Home[w], WithIndexFilled(Seen(Home[w]), tbl[w]))
    /\ Goto(w, "triggers")

\* INSERT INTO fts SELECT ...: begins a transaction and takes the lock.
FillIndex(w) ==
    /\ pc[w] = "fill"
    /\ TableExists(Seen(Home[w]), tbl[w])
    /\ Write(Home[w], WithIndexFilled(Seen(Home[w]), tbl[w]))
    /\ Goto(w, "triggers")

\* The file stays busy; or the statement itself fails (the table is gone, or
\* has a column named rowid that is no integer) with the lock taken.  Nothing
\* rolls back, and the index table stays.
FillIndexFails(w) ==
    /\ pc[w] = "fill"
    /\ \/ TimeOutDML(Home[w])
       \/ Write(Home[w], Seen(Home[w]))
    /\ Answer(w, "failed")

\* Bug: the commit at the end of enable is missing.
CreateTriggers_NoCommit(w) ==
    /\ pc[w] = "triggers"
    /\ Write(Home[w], WithTriggers(Seen(Home[w]), tbl[w]))
    /\ Answer(w, "enabled")

\* The three triggers and the commit; the lock is held since FillIndex.
CreateTriggers(w) ==
    /\ pc[w] = "triggers"
    /\ Seen(Home[w]).kind[tbl[w]] = "data"
    /\ WriteAndCommit(Home[w], WithTriggers(Seen(Home[w]), tbl[w]))
    /\ Answer(w, "enabled")

\* The table is by now another table's index: SQLite refuses the triggers and
\* what FillIndex inserted stays pending.
CreateTriggersFail(w) ==
    /\ pc[w] = "triggers"
    /\ Seen(Home[w]).kind[tbl[w]] # "data"
    /\ Answer(w, "failed")
    /\ UNCHANGED conVars

-----------------------------------------------------------------------------
(* Calls that only read, and the death of a process. *)

Search(w, t) == ReadOnly(w, t)

DescribeTable(w, t) == ReadOnly(w, t)

ListDatasets(w) == ReadOnly(w, tbl[w])

\* The process dies with its calls, and a new one opens the file.
Crash(p) ==
    LET dead == {w \in Workers : Home[w] = p} IN
    /\ Crashing
    /\ Abandon(p)
    /\ lock' = [lock EXCEPT ![p] = NoWorker]
    /\ pc' = [w \in Workers |-> IF w \in dead THEN "idle" ELSE pc[w]]
    /\ reply' = [w \in Workers |-> IF w \in dead /\ pc[w] # "idle"
                                   THEN "none" ELSE reply[w]]
    /\ UNCHANGED <<tbl, got>>

IngestStep(w) ==
    \/ CheckAbsent(w) \/ SampleFails(w)
    \/ CreateTable(w) \/ CreateTableFails(w)
    \/ InsertBatch(w) \/ FinishRows(w) \/ InsertFails(w)
    \/ DropTable(w)   \/ DropFails(w)
    \/ RecordDataset(w) \/ RecordFails(w)

EnableStep(w) ==
    \/ GetSchema(w)   \/ CheckEnabled(w)
    \/ CreateIndex(w) \/ CreateIndexFails(w)
    \/ FillIndex(w)   \/ FillIndexFails(w)
    \/ CreateTriggers(w) \/ CreateTriggersFail(w)

Call(w) ==
    \/ \E t \in Names : \/ StartIngest(w, t) \/ StartEnable(w, t)
                        \/ Search(w, t) \/ DescribeTable(w, t)
    \/ ListDatasets(w)

Step(w) == IngestStep(w) \/ EnableStep(w)

Next ==
    \/ \E w \in Workers : Call(w) \/ Step(w)
    \/ \E p \in Procs : Crash(p)

Spec == Init /\ [][Next]_vars

\* A thread that is inside a call keeps running: every wait for the other
\* process ends with the busy timeout, and no other wait is inside the lock.
FairSpec == Spec /\ \A w \in Workers : WF_vars(Step(w))

-----------------------------------------------------------------------------
(* What the store promises. *)

AllIdle == \A w \in Workers : pc[w] = "idle"

\* Whatever two processes, their failures and their deaths do to each other,
\* the catalog never names a table that is gone, or that has other rows than
\* the catalog says (MetadataStore.record after DataIngestor's commit).
ListedMatches ==
    \A t \in Names : db.count[t] > 0 =>
        db.kind[t] = "data" /\ db.rows[t] = db.count[t]

\* A caller told that its file was ingested keeps exactly that dataset, listed
\* with the rows its own call counted: no other thread's rollback, no other
\* process's DROP or re-ingest, and no crash takes it back.
AckedIngest ==
    \A w \in Workers : reply[w] = "ingested" =>
        /\ db.count[tbl[w]] = got[w]
        /\ db.kind[tbl[w]] = "data"
        /\ db.rows[tbl[w]] = got[w]

\* A table whose triggers exist is indexed row for row, also while another
\* process was loading it as the index was built.
IndexInSync ==
    \A t \in db.trig :
        /\ db.kind[t] = "data"
        /\ db.kind[FtsName[t]] = "fts"
        /\ db.rows[FtsName[t]] = db.rows[t]

\* One process alone cleans up after itself: with no call running, every table
\* on file is listed, whichever of its ingests failed and wherever.
NoOrphans ==
    AllIdle => \A t \in Names : db.kind[t] = "data" => db.count[t] > 0

\* One process alone: a caller told that search is enabled has an index with
\* its triggers on file, whatever the other threads' failing calls roll back.
EnabledIsComplete ==
    \A w \in Workers : reply[w] = "enabled" => tbl[w] \in db.trig

\* Seen from outside, datasets appear whole and never change: the store
\* implements the abstract catalog.
RowsOf(d) == [t \in Names |-> IF d.kind[t] = "data" THEN d.rows[t] ELSE 0]

C == INSTANCE Catalog WITH loaded <- RowsOf(db), listed <- db.count

ImplementsCatalog == C!Spec

\* Search that was enabled on a listed table stays: no failing call, no other
\* process and no crash takes its triggers away (with IndexInSync, its index
\* stays complete).
SearchStays ==
    [][\A t \in db.trig : db.count[t] > 0 => t \in db'.trig]_vars

\* A table that no running ingest answers for is left alone for good: no clean-up
\* drops it, no ingest adds to it or lists it, whatever process made it and
\* however its call ended (DROP TABLE in the except branch of ingest).
Running(steps, t) == \E w \in Workers : pc[w] \in steps /\ tbl[w] = t

Unlisted(t) == db.kind[t] = "data" /\ db.count[t] = 0 /\ ~Running(Owning, t)

UnlistedStays ==
    [][\A t \in Names : Unlisted(t) =>
          Unlisted(t)' /\ db'.rows[t] = db.rows[t]]_vars

\* Nor does any call take over an index whose own call ended before it made the
\* triggers, to fill it a second time (CREATE VIRTUAL TABLE in enable).
Untriggered(t) ==
    /\ db.kind[FtsName[t]] = "fts"
    /\ t \notin db.trig
    /\ ~Running({"fill", "triggers"}, t)

UntriggeredStays ==
    [][\A t \in Names : Untriggered(t) => Untriggered(t)']_vars

\* Every call that got its process's lock is answered and gives the lock back,
\* also when the other process never releases the file.
CallsAreAnswered == \A w \in Workers : pc[w] # "idle" ~> pc[w] = "idle"

-----------------------------------------------------------------------------
(* What the repository says and the code does not keep. *)

\* "List every dataset currently loaded": with no call running, a table that
\* has rows is listed.
LoadedIsListed ==
    AllIdle => \A t \in Names :
        db.kind[t] = "data" /\ db.rows[t] > 0 => db.count[t] > 0

\* "triggers so the index stays in sync with the source table": with no call
\* running, a table that has an index has the triggers that keep it in sync.
EnabledHasTriggers ==
    AllIdle => \A t \in Names :
        db.kind[t] = "data" /\ db.kind[FtsName[t]] = "fts" => t \in db.trig

\* "any tool failure becomes a ToolResult the LLM can recover from": a process
\* whose connection was left on an old snapshot by a failed call gets off it,
\* its callers retrying.
RetrySpec ==
    /\ FairSpec
    /\ \A w \in Workers, t \in Names : SF_vars(StartIngest(w, t))

RecoversFromFailure ==
    \A p \in Procs : conn[p] = "stale" ~> conn[p] # "stale"

-----------------------------------------------------------------------------
(* The inductive invariant behind the promises, proved in StoreProofs. *)

\* A name that is no table has no rows; triggers write into an index.
FileOK(d) ==
    /\ \A x \in AllNames : d.kind[x] = "none" => d.rows[x] = 0
    /\ \A t \in d.trig : d.kind[FtsName[t]] = "fts"

Inserting(p, x) ==
    \E w \in Workers : Home[w] = p /\ pc[w] = "insert" /\ tbl[w] = x

\* An open transaction has at most created indexes and inserted into the table
\* of the ingest that runs in it.
PendingOK(p) == conn[p] = "writing" =>
    /\ FileOK(view[p])
    /\ view[p].count = db.count
    /\ \A x \in AllNames :
        /\ \/ view[p].kind[x] = db.kind[x]
           \/ db.kind[x] = "none" /\ view[p].kind[x] = "fts"
        /\ view[p].kind[x] = "data" /\ ~Inserting(p, x) =>
              view[p].rows[x] = db.rows[x]

\* The table of a running ingest is on file, unlisted, and holds nothing until
\* the ingest commits everything.
IngestOK(w) ==
    /\ pc[w] \in {"exists", "sample"} => got[w] = 0
    /\ pc[w] \in Owning =>
         /\ db.kind[tbl[w]] = "data"
         /\ db.count[tbl[w]] = 0
         /\ pc[w] \in {"insert", "drop"} => db.rows[tbl[w]] = 0
         /\ pc[w] = "insert" => \/ conn[Home[w]] = "auto" /\ got[w] = 0
                                \/ /\ conn[Home[w]] = "writing"
                                   /\ view[Home[w]].rows[tbl[w]] = got[w]
         /\ pc[w] \in {"drop", "record"} => conn[Home[w]] = "auto"
         /\ pc[w] = "record" => got[w] > 0 /\ db.rows[tbl[w]] = got[w]

EnableOK(w) ==
    /\ pc[w] \in {"fill", "triggers"} =>
          Seen(Home[w]).kind[FtsName[tbl[w]]] = "fts"
    /\ pc[w] = "triggers" => conn[Home[w]] = "writing"

\* Two running ingests never own the same table.
OneOwner == \A v, w \in Workers :
    pc[v] \in Owning /\ pc[w] \in Owning /\ tbl[v] = tbl[w] => v = w

Acked(w) == reply[w] = "ingested" => got[w] > 0 /\ db.count[tbl[w]] = got[w]

\* How the committed tables, the catalog, the open transactions and the
\* running calls of both processes fit together at every step.
DataInv ==
    /\ FileOK(db)
    /\ ListedMatches
    /\ OneOwner
    /\ \A p \in Procs : PendingOK(p)
    /\ \A w \in Workers : IngestOK(w) /\ EnableOK(w) /\ Acked(w)

-----------------------------------------------------------------------------
(* The stronger invariants behind IndexInSync and, for one process alone,  *)
(* NoOrphans and EnabledIsComplete.                                        *)

Synced(d) == \A t \in d.trig :
    d.kind[t] = "data" /\ d.rows[FtsName[t]] = d.rows[t]

\* t's index is there, empty, and no trigger writes into it.
Fresh(d, t) == /\ d.kind[FtsName[t]] = "fts"
               /\ d.rows[FtsName[t]] = 0
               /\ t \notin d.trig

\* The index a call created stays empty, on file and in every transaction that
\* may yet commit, until the call fills it; from then on the file is locked.
FillOK(w) ==
    /\ pc[w] = "fill" =>
         /\ conn[Home[w]] \in {"auto", "writing"}
         /\ Fresh(Seen(Home[w]), tbl[w])
         /\ conn[Home[w]] = "auto" =>
              \A q \in Procs : conn[q] = "writing" => Fresh(view[q], tbl[w])
    /\ pc[w] = "triggers" =>
         view[Home[w]].rows[FtsName[tbl[w]]] = view[Home[w]].rows[tbl[w]]

\* Two running calls never build the same index.
OneFiller == \A v, w \in Workers :
    /\ pc[v] \in {"fill", "triggers"} /\ pc[w] \in {"fill", "triggers"}
    /\ tbl[v] = tbl[w]
    => v = w

\* How the triggers and the rows of an index stay with those of its table, on
\* file and in the open transactions.
IndexInv ==
    /\ Synced(db)
    /\ \A p \in Procs : conn[p] = "writing" => Synced(view[p])
    /\ OneFiller
    /\ \A w \in Workers : FillOK(w)

\* Types, and everything about the data, that every step keeps.
StoreInv == TypeOK /\ DataInv /\ IndexInv

\* One process whose calls are never cut short.
OneProcess == (\A p, q \in Procs : p = q) /\ ~Crashing

\* One process alone: an unlisted table belongs to the ingest that is running,
\* and only listed tables, which no ingest drops, have triggers.
OneProcessInv ==
    /\ \A p \in Procs :
         /\ conn[p] \in {"auto", "writing"}
         /\ conn[p] = "writing" => view[p].trig = db.trig
    /\ \A t \in Names : db.kind[t] = "data" /\ db.count[t] = 0 =>
         \E w \in Workers : pc[w] \in Owning /\ tbl[w] = t
    /\ \A t \in db.trig : db.count[t] > 0
    /\ EnabledIsComplete

=============================================================================
