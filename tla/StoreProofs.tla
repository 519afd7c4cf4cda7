----------------------------- MODULE StoreProofs -----------------------------
(***************************************************************************)
(* Theorems about Store for every set of processes, threads and names and  *)
(* every bound: types, mutual exclusion of the calls of one process, the   *)
(* connection invariant, the data invariant that relates the catalog, the  *)
(* tables and the open transactions, the refinement of Catalog, the search *)
(* index in step with its table, and what one process alone promises.      *)
(***************************************************************************)
EXTENDS Store, TLAPS

-----------------------------------------------------------------------------
(* What the content operators return. *)

LEMMA FtsNameType == \A t \in Names : FtsName[t] \in AllNames /\ t \in AllNames
  BY DEF AllNames

LEMMA EmptyContentType == EmptyContent \in Content
  BY DEF EmptyContent, Content, Kinds

LEMMA WithTableFacts ==
  ASSUME NEW d \in Content, NEW t \in Names
  PROVE  /\ WithTable(d, t) \in Content
         /\ WithTable(d, t).rows = d.rows
         /\ WithTable(d, t).trig = d.trig
         /\ WithTable(d, t).count = d.count
         /\ \A x \in AllNames : WithTable(d, t).kind[x] =
                                  IF x = t THEN "data" ELSE d.kind[x]
  BY FtsNameType DEF WithTable, Content, Kinds

LEMMA WithoutTableFacts ==
  ASSUME NEW d \in Content, NEW t \in Names
  PROVE  /\ WithoutTable(d, t) \in Content
         /\ WithoutTable(d, t).trig = d.trig \ {t}
         /\ WithoutTable(d, t).count = d.count
         /\ \A x \in AllNames :
              /\ WithoutTable(d, t).kind[x] = IF x = t THEN "none" ELSE d.kind[x]
              /\ WithoutTable(d, t).rows[x] = IF x = t THEN 0 ELSE d.rows[x]
  BY FtsNameType DEF WithoutTable, Content, Kinds

LEMMA WithBatchFacts ==
  ASSUME NEW d \in Content, NEW t \in Names
  PROVE  /\ WithBatch(d, t) \in Content
         /\ WithBatch(d, t).kind = d.kind
         /\ WithBatch(d, t).trig = d.trig
         /\ WithBatch(d, t).count = d.count
         /\ \A x \in AllNames : WithBatch(d, t).rows[x] =
               IF x = t \/ (t \in d.trig /\ x = FtsName[t])
               THEN d.rows[x] + 1 ELSE d.rows[x]
  BY FtsNameType DEF WithBatch, Content

LEMMA WithDatasetFacts ==
  ASSUME NEW d \in Content, NEW t \in Names, NEW n \in Nat
  PROVE  /\ WithDataset(d, t, n) \in Content
         /\ WithDataset(d, t, n).kind = d.kind
         /\ WithDataset(d, t, n).rows = d.rows
         /\ WithDataset(d, t, n).trig = d.trig
         /\ WithDataset(d, t, n).count = [d.count EXCEPT ![t] = n]
  BY DEF WithDataset, Content

LEMMA WithIndexFacts ==
  ASSUME NEW d \in Content, NEW t \in Names
  PROVE  /\ WithIndex(d, t) \in Content
         /\ WithIndex(d, t).rows = d.rows
         /\ WithIndex(d, t).trig = d.trig
         /\ WithIndex(d, t).count = d.count
         /\ \A x \in AllNames : WithIndex(d, t).kind[x] =
                                  IF x = FtsName[t] THEN "fts" ELSE d.kind[x]
  BY FtsNameType DEF WithIndex, Content, Kinds

LEMMA WithIndexFilledFacts ==
  ASSUME NEW d \in Content, NEW t \in Names
  PROVE  /\ WithIndexFilled(d, t) \in Content
         /\ WithIndexFilled(d, t).kind = d.kind
         /\ WithIndexFilled(d, t).trig = d.trig
         /\ WithIndexFilled(d, t).count = d.count
         /\ WithIndexFilled(d, t).rows[FtsName[t]] =
              d.rows[FtsName[t]] + d.rows[t]
         /\ \A x \in AllNames : x # FtsName[t] =>
                                  WithIndexFilled(d, t).rows[x] = d.rows[x]
  BY FtsNameType DEF WithIndexFilled, Content

LEMMA WithTriggersFacts ==
  ASSUME NEW d \in Content, NEW t \in Names
  PROVE  /\ WithTriggers(d, t) \in Content
         /\ WithTriggers(d, t).kind = d.kind
         /\ WithTriggers(d, t).rows = d.rows
         /\ WithTriggers(d, t).count = d.count
         /\ WithTriggers(d, t).trig = d.trig \cup {t}
  BY DEF WithTriggers, Content

-----------------------------------------------------------------------------
(* What the connection operators keep of the database's types. *)

LEMMA SeenType ==
  ASSUME DatabaseTypeOK, NEW p \in Procs
  PROVE  Seen(p) \in Content
  BY DEF DatabaseTypeOK, Seen

LEMMA ReadType ==
  ASSUME DatabaseTypeOK, NEW p \in Procs, Read(p)
  PROVE  DatabaseTypeOK'
  BY DEF DatabaseTypeOK, Read, ConnStates

LEMMA WriteType ==
  ASSUME DatabaseTypeOK, NEW p \in Procs, NEW d \in Content, Write(p, d)
  PROVE  DatabaseTypeOK'
  BY DEF DatabaseTypeOK, Write, ConnStates

LEMMA PublishType ==
  ASSUME DatabaseTypeOK, NEW p \in Procs, NEW d \in Content, Publish(p, d)
  PROVE  DatabaseTypeOK'
  <1>1. conn' \in [Procs -> ConnStates]
    BY DEF DatabaseTypeOK, Publish, ConnStates
  <1>2. db' \in Content /\ view' \in [Procs -> Content]
    BY EmptyContentType DEF DatabaseTypeOK, Publish
  <1>3. QED  BY <1>1, <1>2 DEF DatabaseTypeOK

LEMMA AbandonType ==
  ASSUME DatabaseTypeOK, NEW p \in Procs, Abandon(p)
  PROVE  DatabaseTypeOK'
  BY EmptyContentType DEF DatabaseTypeOK, Abandon, ConnStates

LEMMA TimeOutType ==
  ASSUME DatabaseTypeOK, NEW p \in Procs, TimeOutDML(p)
  PROVE  DatabaseTypeOK'
  BY DEF DatabaseTypeOK, TimeOutDML, ConnStates

-----------------------------------------------------------------------------

ControlTypeOK ==
    /\ lock \in [Procs -> Workers \cup {NoWorker}]
    /\ pc \in [Workers -> {"idle"} \cup IngestSteps \cup EnableSteps]
    /\ tbl \in [Workers -> Names]
    /\ got \in [Workers -> 0..MaxBatches]
    /\ reply \in [Workers -> Replies]

LEMMA AnswerType ==
  ASSUME ControlTypeOK, NEW w \in Workers, NEW r \in Replies, Answer(w, r)
  PROVE  ControlTypeOK'
  BY HomeAssumption DEF ControlTypeOK, Answer

LEMMA GotoType ==
  ASSUME ControlTypeOK, NEW w \in Workers,
         NEW s \in IngestSteps \cup EnableSteps, Goto(w, s)
  PROVE  ControlTypeOK'
  BY DEF ControlTypeOK, Goto

LEMMA EnterType ==
  ASSUME ControlTypeOK, NEW w \in Workers, NEW t \in Names,
         NEW s \in IngestSteps \cup EnableSteps, Enter(w, t, s)
  PROVE  ControlTypeOK'
  <1>1. 0 \in 0..MaxBatches
    BY MaxBatchesAssumption
  <1>2. got' \in [Workers -> 0..MaxBatches]
    BY <1>1 DEF ControlTypeOK, Enter
  <1>3. QED  BY <1>2, HomeAssumption DEF ControlTypeOK, Enter, Replies

LEMMA ReadOnlyType ==
  ASSUME ControlTypeOK, NEW w \in Workers, NEW t \in Names, ReadOnly(w, t)
  PROVE  ControlTypeOK'
  BY DEF ControlTypeOK, ReadOnly, Replies

-----------------------------------------------------------------------------
(* Types. *)

LEMMA TypeOKParts == TypeOK <=> DatabaseTypeOK /\ ControlTypeOK
  BY DEF TypeOK, ControlTypeOK

LEMMA StepType ==
  ASSUME TypeOK, NEW w \in Workers, Step(w)
  PROVE  TypeOK'
  <1> DEFINE p == Home[w]  t == tbl[w]  s == Seen(p)
  <1>1. DatabaseTypeOK /\ ControlTypeOK
    BY TypeOKParts
  <1>2. p \in Procs /\ t \in Names /\ s \in Content /\ got[w] \in Nat
    BY <1>1, HomeAssumption, MaxBatchesAssumption, SeenType DEF ControlTypeOK
  <1>3. DatabaseTypeOK'
    <2>1. CASE UNCHANGED conVars
      BY <2>1, <1>1 DEF conVars, DatabaseTypeOK
    <2>2. CASE Read(p) \/ Abandon(p) \/ TimeOutDML(p) \/ Write(p, s)
      BY <2>2, <1>1, <1>2, ReadType, AbandonType, TimeOutType, WriteType
    <2>3. ASSUME NEW d \in Content, Write(p, d) \/ Publish(p, d)
          PROVE  DatabaseTypeOK'
      BY <2>3, <1>1, <1>2, WriteType, PublishType
    <2>4. CASE CreateTable(w)
      BY <2>4, <2>3, <1>2, WithTableFacts DEF CreateTable, WriteAndCommit
    <2>5. CASE InsertBatch(w)
      BY <2>5, <2>3, <1>2, WithBatchFacts DEF InsertBatch
    <2>6. CASE FinishRows(w)
      BY <2>6, <2>2, <2>3, <1>1, <1>2 DEF FinishRows, Commit, DatabaseTypeOK
    <2>7. CASE DropTable(w)
      BY <2>7, <2>3, <1>2, WithoutTableFacts DEF DropTable, WriteAndCommit
    <2>8. CASE RecordDataset(w)
      BY <2>8, <2>3, <1>2, WithDatasetFacts DEF RecordDataset, WriteAndCommit
    <2>9. CASE CreateIndex(w)
      BY <2>9, <2>3, <1>2, WithIndexFacts
         DEF CreateIndex, WriteDDL, WriteAndCommit
    <2>10. CASE FillIndex(w)
      BY <2>10, <2>3, <1>2, WithIndexFilledFacts DEF FillIndex
    <2>11. CASE CreateTriggers(w)
      BY <2>11, <2>3, <1>2, WithTriggersFacts DEF CreateTriggers, WriteAndCommit
    <2>12. QED
      BY <2>1, <2>2, <2>4, <2>5, <2>6, <2>7, <2>8, <2>9, <2>10, <2>11
         DEF Step, IngestStep, EnableStep, CheckAbsent, SampleFails,
             CreateTableFails, InsertFails, Rollback, DropFails, RecordFails,
             GetSchema, CheckEnabled, CreateIndexFails, FillIndexFails,
             CreateTriggersFail
  <1>4. ControlTypeOK'
    <2>1. ASSUME NEW r \in Replies, Answer(w, r)
          PROVE  ControlTypeOK'
      BY <2>1, <1>1, AnswerType
    <2>2. ASSUME NEW n \in IngestSteps \cup EnableSteps, Goto(w, n)
          PROVE  ControlTypeOK'
      BY <2>2, <1>1, GotoType
    <2>3. CASE InsertBatch(w)
      BY <2>3, <1>1, MaxBatchesAssumption DEF InsertBatch, ControlTypeOK
    <2>4. CASE IngestStep(w) /\ ~InsertBatch(w)
      BY <2>4, <2>1, <2>2
         DEF IngestStep, CheckAbsent, SampleFails, CreateTable,
             CreateTableFails, FinishRows, InsertFails, DropTable, DropFails,
             RecordDataset, RecordFails, Replies, IngestSteps
    <2>5. CASE EnableStep(w)
      BY <2>5, <2>1, <2>2
         DEF EnableStep, GetSchema, CheckEnabled, CreateIndex,
             CreateIndexFails, FillIndex, FillIndexFails, CreateTriggers,
             CreateTriggersFail, Replies, EnableSteps
    <2>6. QED  BY <2>3, <2>4, <2>5 DEF Step
  <1>5. QED  BY <1>3, <1>4 DEF TypeOK, ControlTypeOK

LEMMA CallType ==
  ASSUME TypeOK, NEW w \in Workers, Call(w)
  PROVE  TypeOK'
  <1>1. DatabaseTypeOK /\ ControlTypeOK /\ Home[w] \in Procs /\ tbl[w] \in Names
    BY TypeOKParts, HomeAssumption DEF ControlTypeOK
  <1>2. ASSUME NEW t \in Names, ReadOnly(w, t)
        PROVE  TypeOK'
    BY <1>1, <1>2, ReadType, ReadOnlyType
       DEF ReadOnly, TypeOK, ControlTypeOK
  <1>3. ASSUME NEW t \in Names, NEW n \in {"exists", "schema"}, Enter(w, t, n)
        PROVE  TypeOK'
    <2>1. ControlTypeOK'
      BY <1>1, <1>3, EnterType DEF IngestSteps, EnableSteps
    <2>2. DatabaseTypeOK'
      BY <1>1, <1>3 DEF Enter, conVars, DatabaseTypeOK
    <2>3. QED  BY <2>1, <2>2 DEF TypeOK, ControlTypeOK
  <1>4. QED
    BY <1>1, <1>2, <1>3
       DEF Call, StartIngest, StartEnable, Search, DescribeTable, ListDatasets

LEMMA CrashType ==
  ASSUME TypeOK, NEW p \in Procs, Crash(p)
  PROVE  TypeOK'
  <1>1. DatabaseTypeOK /\ ControlTypeOK
    BY TypeOKParts
  <1>2. DatabaseTypeOK'
    BY <1>1, AbandonType DEF Crash
  <1>3. ControlTypeOK'
    BY <1>1 DEF Crash, ControlTypeOK, Replies
  <1>4. QED  BY <1>2, <1>3 DEF TypeOK, ControlTypeOK

\* Every variable keeps its type, for any processes, threads and names.
THEOREM TypeCorrect == Spec => []TypeOK
  <1>1. Init => TypeOK
    BY EmptyContentType, MaxBatchesAssumption
       DEF Init, DatabaseInit, TypeOK, DatabaseTypeOK, ConnStates, Replies
  <1>2. TypeOK /\ [Next]_vars => TypeOK'
    <2> SUFFICES ASSUME TypeOK, [Next]_vars  PROVE TypeOK'
      OBVIOUS
    <2>1. CASE UNCHANGED vars
      BY <2>1 DEF vars, TypeOK, DatabaseTypeOK
    <2>2. QED
      BY <2>1, StepType, CallType, CrashType DEF Next
  <1>3. QED  BY <1>1, <1>2, PTL DEF Spec

-----------------------------------------------------------------------------
(* The locks. *)

\* Only the holder of its process's lock is inside a call, so one process has
\* at most one call between its statements.
OneCallPerProcess == \A w \in Workers : pc[w] # "idle" => lock[Home[w]] = w

\* The two halves of the lock protocol: Enter takes a free lock, Answer gives
\* it back, and every statement in between leaves it alone.
LEMMA StepKeepsLock ==
  ASSUME TypeOK, OneCallPerProcess, NEW w \in Workers, Step(w)
  PROVE  OneCallPerProcess'
  <1>1. lock \in [Procs -> Workers \cup {NoWorker}] /\ Home[w] \in Procs
        /\ pc \in [Workers -> {"idle"} \cup IngestSteps \cup EnableSteps]
    BY HomeAssumption DEF TypeOK
  <1>2. pc[w] # "idle"
    BY DEF Step, IngestStep, EnableStep, CheckAbsent, SampleFails,
           CreateTable, CreateTableFails, InsertBatch, FinishRows,
           InsertFails, DropTable, DropFails, RecordDataset, RecordFails,
           GetSchema, CheckEnabled, CreateIndex, CreateIndexFails, FillIndex,
           FillIndexFails, CreateTriggers, CreateTriggersFail
  <1>3. ASSUME NEW r, Answer(w, r)  PROVE OneCallPerProcess'
    BY <1>1, <1>2, <1>3, HomeAssumption DEF Answer, OneCallPerProcess
  <1>4. ASSUME NEW n, Goto(w, n)  PROVE OneCallPerProcess'
    BY <1>1, <1>2, <1>4 DEF Goto, OneCallPerProcess
  <1>5. CASE InsertBatch(w)
    BY <1>5 DEF InsertBatch, OneCallPerProcess
  <1>6. QED
    BY <1>3, <1>4, <1>5
       DEF Step, IngestStep, EnableStep, CheckAbsent, SampleFails,
           CreateTable, CreateTableFails, FinishRows,
           InsertFails, DropTable, DropFails, RecordDataset, RecordFails,
           GetSchema, CheckEnabled, CreateIndex, CreateIndexFails, FillIndex,
           FillIndexFails, CreateTriggers, CreateTriggersFail

\* At every moment each process runs at most one call, whatever its threads do.
THEOREM CallsExclude == Spec => []OneCallPerProcess
  <1>1. Init => OneCallPerProcess
    BY DEF Init, OneCallPerProcess
  <1>2. TypeOK /\ OneCallPerProcess /\ [Next]_vars => OneCallPerProcess'
    <2> SUFFICES ASSUME TypeOK, OneCallPerProcess, [Next]_vars
                 PROVE  OneCallPerProcess'
      OBVIOUS
    <2>1. ASSUME NEW w \in Workers, Call(w)  PROVE OneCallPerProcess'
      <3>1. ASSUME NEW t, NEW n, Enter(w, t, n)  PROVE OneCallPerProcess'
        BY <3>1, HomeAssumption, NoWorkerAssumption
           DEF Enter, OneCallPerProcess, TypeOK
      <3>2. ASSUME NEW t, ReadOnly(w, t)  PROVE OneCallPerProcess'
        BY <3>2 DEF ReadOnly, OneCallPerProcess
      <3>3. QED
        BY <2>1, <3>1, <3>2
           DEF Call, StartIngest, StartEnable, Search, DescribeTable,
               ListDatasets
    <2>2. ASSUME NEW p \in Procs, Crash(p)  PROVE OneCallPerProcess'
      BY <2>2, HomeAssumption DEF Crash, OneCallPerProcess, TypeOK
    <2>3. CASE UNCHANGED vars
      BY <2>3 DEF vars, OneCallPerProcess
    <2>4. QED  BY <2>1, <2>2, <2>3, StepKeepsLock DEF Next
  <1>3. QED  BY <1>1, <1>2, TypeCorrect, PTL DEF Spec

-----------------------------------------------------------------------------
(* The connections. *)

\* One transaction writes, and an up-to-date snapshot is the content itself.
ConnInv ==
    /\ \A p, q \in Procs : conn[p] = "writing" /\ conn[q] = "writing" => p = q
    /\ \A p \in Procs : conn[p] = "reading" => view[p] = db

LEMMA ReadConn ==
  ASSUME DatabaseTypeOK, ConnInv, NEW p \in Procs, Read(p)
  PROVE  ConnInv'
  BY DEF DatabaseTypeOK, ConnInv, Read

LEMMA WriteConn ==
  ASSUME DatabaseTypeOK, ConnInv, NEW p \in Procs, NEW d, Write(p, d)
  PROVE  ConnInv'
  BY DEF DatabaseTypeOK, ConnInv, Write, CanWrite

LEMMA AbandonConn ==
  ASSUME DatabaseTypeOK, ConnInv, NEW p \in Procs, Abandon(p)
  PROVE  ConnInv'
  BY DEF DatabaseTypeOK, ConnInv, Abandon

LEMMA TimeOutConn ==
  ASSUME DatabaseTypeOK, ConnInv, NEW p \in Procs, TimeOutDML(p)
  PROVE  ConnInv'
  BY DEF DatabaseTypeOK, ConnInv, TimeOutDML

LEMMA PublishConn ==
  ASSUME DatabaseTypeOK, ConnInv, NEW p \in Procs, NEW d, Publish(p, d)
  PROVE  ConnInv'
  BY DEF DatabaseTypeOK, ConnInv, Publish

LEMMA StepKeepsConn ==
  ASSUME TypeOK, ConnInv, NEW w \in Workers, Step(w)
  PROVE  ConnInv'
  <1>1. DatabaseTypeOK /\ Home[w] \in Procs
    BY HomeAssumption DEF TypeOK
  <1>2. ASSUME NEW d, Write(Home[w], d) \/ Publish(Home[w], d)
        PROVE  ConnInv'
    BY <1>1, <1>2, WriteConn, PublishConn
  <1>3. CASE \/ Read(Home[w]) \/ Abandon(Home[w]) \/ TimeOutDML(Home[w])
    BY <1>1, <1>3, ReadConn, AbandonConn, TimeOutConn
  <1>4. CASE UNCHANGED conVars
    BY <1>4 DEF conVars, ConnInv
  <1>5. CASE IngestStep(w)
    BY <1>5, <1>2, <1>3, <1>4
       DEF IngestStep, CheckAbsent, SampleFails, CreateTable,
           CreateTableFails, InsertBatch, FinishRows, InsertFails, DropTable,
           DropFails, RecordDataset, RecordFails, WriteAndCommit, Rollback,
           Commit
  <1>6. CASE EnableStep(w)
    BY <1>6, <1>2, <1>3, <1>4
       DEF EnableStep, GetSchema, CheckEnabled, CreateIndex,
           CreateIndexFails, FillIndex, FillIndexFails, CreateTriggers,
           CreateTriggersFail, WriteAndCommit, WriteDDL
  <1>7. QED  BY <1>5, <1>6 DEF Step

\* The connection invariant holds in every reachable state.
THEOREM ConnectionsCorrect == Spec => []ConnInv
  <1>1. Init => ConnInv
    BY DEF Init, DatabaseInit, ConnInv
  <1>2. TypeOK /\ ConnInv /\ [Next]_vars => ConnInv'
    <2> SUFFICES ASSUME TypeOK, ConnInv, [Next]_vars  PROVE ConnInv'
      OBVIOUS
    <2>1. DatabaseTypeOK
      BY DEF TypeOK
    <2>2. ASSUME NEW w \in Workers, Call(w)  PROVE ConnInv'
      <3>1. Home[w] \in Procs
        BY HomeAssumption
      <3>2. CASE Read(Home[w])
        BY <3>1, <3>2, <2>1, ReadConn
      <3>3. CASE UNCHANGED conVars
        BY <3>3 DEF conVars, ConnInv
      <3>4. QED
        BY <2>2, <3>2, <3>3
           DEF Call, StartIngest, StartEnable, Search, DescribeTable,
               ListDatasets, Enter, ReadOnly
    <2>3. ASSUME NEW p \in Procs, Crash(p)  PROVE ConnInv'
      BY <2>1, <2>3, AbandonConn DEF Crash
    <2>4. CASE UNCHANGED vars
      BY <2>4 DEF vars, ConnInv
    <2>5. QED  BY <2>2, <2>3, <2>4, StepKeepsConn DEF Next
  <1>3. QED  BY <1>1, <1>2, TypeCorrect, PTL DEF Spec

-----------------------------------------------------------------------------
(* The data. *)

IInv == TypeOK /\ OneCallPerProcess /\ ConnInv /\ DataInv

Others(w) == Workers \ {w}

ControlKept(v) ==
    /\ pc'[v] = pc[v] /\ tbl'[v] = tbl[v]
    /\ got'[v] = got[v] /\ reply'[v] = reply[v]

\* A step at p's connection leaves the other connections their transactions.
ConnsKept(p) == \A q \in Procs \ {p} :
    /\ view'[q] = view[q]
    /\ conn'[q] = conn[q] \/ (conn[q] = "reading" /\ conn'[q] = "stale")

\* No committed table outside T changes its kind, its rows or its catalog
\* entry; an index stays one.
FileKeptBut(T) ==
    /\ \A x \in AllNames \ T :
         /\ db.kind[x] # "none" => db'.kind[x] = db.kind[x]
         /\ db.kind[x] = "data" => db'.rows[x] = db.rows[x]
    /\ \A x \in Names \ T : db'.count[x] = db.count[x]
    /\ \A x \in AllNames : db.kind[x] = "fts" => db'.kind[x] = "fts"

\* A thread that owns no table of T, in another process, keeps its part of DataInv.
LEMMA OthersKeep ==
  ASSUME IInv, NEW p \in Procs, NEW v \in Workers, NEW T,
         ControlKept(v), ConnsKept(p), FileKeptBut(T),
         pc[v] # "idle" => Home[v] # p,
         pc[v] \in Owning => tbl[v] \notin T,
         reply[v] = "ingested" => tbl[v] \notin T
  PROVE  IngestOK(v)' /\ EnableOK(v)' /\ Acked(v)'
  <1>1. /\ v \in Workers /\ Home[v] \in Procs
        /\ tbl[v] \in Names /\ tbl[v] \in AllNames /\ FtsName[tbl[v]] \in AllNames
        /\ IngestOK(v) /\ EnableOK(v) /\ Acked(v)
    BY HomeAssumption, FtsNameType DEF IInv, TypeOK, DataInv
  <1>2. IngestOK(v)'
    BY <1>1 DEF IngestOK, ControlKept, ConnsKept, FileKeptBut, Owning
  <1>3. EnableOK(v)'
    BY <1>1 DEF EnableOK, ControlKept, ConnsKept, FileKeptBut, Seen, NotPinned
  <1>4. Acked(v)'
    BY <1>1 DEF Acked, ControlKept, FileKeptBut
  <1>5. QED  BY <1>2, <1>3, <1>4

\* A step that commits nothing: the committed half of DataInv is untouched,
\* and so is every thread of another process.
LEMMA QuietKeeps ==
  ASSUME IInv, NEW p \in Procs, UNCHANGED db, ConnsKept(p)
  PROVE  /\ FileOK(db)' /\ ListedMatches'
         /\ \A v \in Workers : ControlKept(v) /\ (pc[v] # "idle" => Home[v] # p)
               => IngestOK(v)' /\ EnableOK(v)' /\ Acked(v)'
  <1>1. FileOK(db)' /\ ListedMatches'
    BY DEF IInv, DataInv, FileOK, ListedMatches
  <1>2. ASSUME NEW v \in Workers, ControlKept(v), pc[v] # "idle" => Home[v] # p
        PROVE  IngestOK(v)' /\ EnableOK(v)' /\ Acked(v)'
    <2>1. Home[v] \in Procs /\ IngestOK(v) /\ EnableOK(v) /\ Acked(v)
      BY HomeAssumption DEF IInv, DataInv
    <2>2. IngestOK(v)'
      BY <1>2, <2>1 DEF IngestOK, ControlKept, ConnsKept, Owning
    <2>3. EnableOK(v)'
      BY <1>2, <2>1 DEF EnableOK, ControlKept, ConnsKept, Seen, NotPinned
    <2>4. Acked(v)'
      BY <1>2, <2>1 DEF Acked, ControlKept
    <2>5. QED  BY <2>2, <2>3, <2>4
  <1>3. QED  BY <1>1, <1>2

\* What the connection operators leave alone.
LEMMA QuietConns ==
  ASSUME TypeOK, NEW p \in Procs,
         \/ Read(p) \/ TimeOutDML(p) \/ UNCHANGED conVars \/ Abandon(p)
         \/ \E d : Write(p, d)
  PROVE  ConnsKept(p) /\ db' = db
  BY DEF TypeOK, DatabaseTypeOK, ConnsKept, Read, TimeOutDML, conVars, Abandon,
         Write

LEMMA PublishConns ==
  ASSUME TypeOK, NEW p \in Procs, NEW d, Publish(p, d)
  PROVE  ConnsKept(p) /\ db' = d /\ conn'[p] = "auto"
  BY DEF TypeOK, DatabaseTypeOK, ConnsKept, Publish

\* A transaction of another process stays consistent with the file: it sees no
\* commit, because it would hold the lock that the commit needed.
LEMMA PendingOthers ==
  ASSUME IInv, NEW w \in Workers, ConnsKept(Home[w]),
         \A v \in Others(w) : ControlKept(v),
         db' = db \/ \A q \in Procs \ {Home[w]} : conn[q] # "writing"
  PROVE  \A q \in Procs \ {Home[w]} : PendingOK(q)'
  <1> SUFFICES ASSUME NEW q \in Procs \ {Home[w]}, conn'[q] = "writing"
               PROVE  PendingOK(q)'
    BY DEF PendingOK
  <1>1. conn[q] = "writing" /\ view'[q] = view[q] /\ db' = db
    BY DEF ConnsKept
  <1>2. \A x : Inserting(q, x)' <=> Inserting(q, x)
    BY DEF Inserting, ControlKept, Others
  <1>3. PendingOK(q)
    BY DEF IInv, DataInv
  <1>4. QED  BY <1>1, <1>2, <1>3 DEF PendingOK, FileOK

\* With w at any statement but an insert, nothing of p is being inserted.
LEMMA NotInserting ==
  ASSUME IInv, NEW w \in Workers, pc[w] # "idle", pc[w] # "insert"
  PROVE  \A x : ~Inserting(Home[w], x)
  BY DEF IInv, OneCallPerProcess, Inserting

\* A transaction that is not writing yet sees the committed content.
LEMMA SeenCommitted ==
  ASSUME IInv, NEW p \in Procs, conn[p] # "stale", conn[p] # "writing"
  PROVE  Seen(p) = db
  BY DEF IInv, TypeOK, DatabaseTypeOK, ConnInv, ConnStates, Seen, NotPinned

\* Whatever p's next statement sees, if p can write, satisfies PendingOK.
LEMMA SeenPending ==
  ASSUME IInv, NEW w \in Workers, pc[w] # "idle", pc[w] # "insert",
         CanWrite(Home[w])
  PROVE  LET d == Seen(Home[w]) IN
           /\ FileOK(d)
           /\ d.count = db.count
           /\ \A x \in AllNames :
                /\ d.kind[x] = db.kind[x] \/ (db.kind[x] = "none" /\ d.kind[x] = "fts")
                /\ d.kind[x] = "data" => d.rows[x] = db.rows[x]
  <1>1. Home[w] \in Procs /\ PendingOK(Home[w]) /\ FileOK(db)
    BY HomeAssumption DEF IInv, DataInv
  <1>2. CASE conn[Home[w]] = "writing"
    BY <1>1, <1>2, NotInserting DEF PendingOK, Seen, NotPinned
  <1>3. CASE conn[Home[w]] # "writing"
    BY <1>1, <1>3, SeenCommitted DEF CanWrite
  <1>4. QED  BY <1>2, <1>3

\* Checks, refusals and time-outs, which commit nothing and end the call or
\* lead to another check.
LEMMA QuietStep ==
  ASSUME IInv, NEW w \in Workers, pc[w] # "idle", pc[w] # "insert",
         \/ Read(Home[w]) \/ TimeOutDML(Home[w]) \/ UNCHANGED conVars
         \/ Write(Home[w], Seen(Home[w])),
         \A v \in Others(w) : ControlKept(v),
         pc'[w] \notin Owning \cup {"fill", "triggers"},
         pc'[w] \in {"exists", "sample"} => got'[w] = 0,
         Acked(w)'
  PROVE  DataInv'
  <1> DEFINE p == Home[w]
  <1>1. p \in Procs /\ PendingOK(p) /\ FileOK(db)
    BY HomeAssumption DEF IInv, DataInv
  <1>2. ConnsKept(p) /\ db' = db
    BY <1>1, QuietConns DEF IInv
  <1>3. \A v \in Others(w) : pc[v] # "idle" => Home[v] # p
    BY DEF IInv, OneCallPerProcess, Others
  <1>4. FileOK(db)' /\ ListedMatches'
    BY <1>1, <1>2, QuietKeeps
  <1>5. \A v \in Workers : IngestOK(v)' /\ EnableOK(v)' /\ Acked(v)'
    <2>1. \A v \in Others(w) : IngestOK(v)' /\ EnableOK(v)' /\ Acked(v)'
      BY <1>1, <1>2, <1>3, QuietKeeps DEF Others
    <2>2. IngestOK(w)' /\ EnableOK(w)' /\ Acked(w)'
      BY DEF IngestOK, EnableOK, Acked, Owning
    <2>3. QED  BY <2>1, <2>2 DEF Others
  <1>6. OneOwner'
    BY DEF IInv, DataInv, OneOwner, ControlKept, Others, Owning
  <1>7. PendingOK(p)'
    <2>1. CASE conn'[p] # "writing"
      BY <2>1 DEF PendingOK
    <2>2. CASE conn'[p] = "writing" /\ ~Write(p, Seen(p))
      <3>1. conn[p] = "writing" /\ view'[p] = view[p]
        BY <1>1, <2>2
           DEF IInv, TypeOK, DatabaseTypeOK, Read, TimeOutDML, conVars
      <3>2. \A x : ~Inserting(p, x)
        BY NotInserting
      <3>3. QED  BY <1>1, <1>2, <3>1, <3>2 DEF PendingOK, FileOK
    <2>3. CASE Write(p, Seen(p))
      <3>1. view'[p] = Seen(p)
        BY <1>1, <2>3 DEF IInv, TypeOK, DatabaseTypeOK, Write
      <3>2. QED
        BY <1>2, <2>3, <3>1, SeenPending DEF PendingOK, FileOK, Write
    <2>4. QED  BY <2>1, <2>2, <2>3
  <1>8. \A q \in Procs : PendingOK(q)'
    BY <1>2, <1>7, PendingOthers
  <1>9. QED  BY <1>4, <1>5, <1>6, <1>8 DEF DataInv

\* A commit by w that disturbs only tables of T, which no other thread owns.
LEMMA PublishStep ==
  ASSUME IInv, NEW w \in Workers, pc[w] # "idle", CanWrite(Home[w]),
         NEW d, Publish(Home[w], d), NEW T, FileKeptBut(T),
         FileOK(db)', ListedMatches', OneOwner',
         IngestOK(w)', EnableOK(w)', Acked(w)',
         \A v \in Others(w) : /\ ControlKept(v)
                              /\ pc[v] \in Owning => tbl[v] \notin T
                              /\ reply[v] = "ingested" => tbl[v] \notin T
  PROVE  DataInv'
  <1> DEFINE p == Home[w]
  <1>1. p \in Procs
    BY HomeAssumption
  <1>2. ConnsKept(p) /\ conn'[p] = "auto"
    BY <1>1, PublishConns DEF IInv
  <1>3. \A v \in Others(w) : pc[v] # "idle" => Home[v] # p
    BY DEF IInv, OneCallPerProcess, Others
  <1>4. \A v \in Others(w) : IngestOK(v)' /\ EnableOK(v)' /\ Acked(v)'
    BY <1>1, <1>2, <1>3, OthersKeep DEF Others
  <1>5. \A q \in Procs : PendingOK(q)'
    <2>1. \A q \in Procs \ {p} : conn[q] # "writing"
      BY DEF CanWrite
    <2>2. \A q \in Procs \ {p} : PendingOK(q)'
      BY <1>2, <2>1, PendingOthers
    <2>3. PendingOK(p)'
      BY <1>2 DEF PendingOK
    <2>4. QED  BY <2>2, <2>3
  <1>6. QED  BY <1>4, <1>5 DEF DataInv, Others

\* The facts about w's own call that the steps below start from.
LEMMA Own ==
  ASSUME IInv, NEW w \in Workers
  PROVE  /\ Home[w] \in Procs /\ tbl[w] \in Names /\ tbl[w] \in AllNames
         /\ FtsName[tbl[w]] \in AllNames /\ FtsName[tbl[w]] # tbl[w]
         /\ got[w] \in Nat /\ db \in Content /\ Seen(Home[w]) \in Content
         /\ TypeOK /\ DatabaseTypeOK
         /\ FileOK(db) /\ ListedMatches /\ OneOwner
         /\ IngestOK(w) /\ EnableOK(w) /\ Acked(w) /\ PendingOK(Home[w])
  BY HomeAssumption, MaxBatchesAssumption, FtsNameType, FtsNameAssumption,
     SeenType DEF IInv, TypeOK, DatabaseTypeOK, DataInv

\* Goto and Answer touch no other thread.
LEMMA ControlOthers ==
  ASSUME TypeOK, NEW w \in Workers,
         (\E n : Goto(w, n)) \/ (\E r : Answer(w, r))
  PROVE  /\ \A v \in Others(w) : ControlKept(v)
         /\ tbl' = tbl /\ got' = got
  BY DEF TypeOK, Goto, Answer, Others, ControlKept

LEMMA CreateTableData ==
  ASSUME IInv, NEW w \in Workers, CreateTable(w)
  PROVE  DataInv'
  <1> DEFINE p == Home[w]  t == tbl[w]  s == Seen(p)  d == WithTable(s, t)
  <1>1. pc[w] = "sample" /\ CanWrite(p) /\ Publish(p, d) /\ s.kind[t] = "none"
    BY DEF CreateTable, WriteAndCommit, TableExists
  <1>2. /\ pc'[w] = "insert" /\ reply'[w] = reply[w] /\ tbl' = tbl /\ got' = got
        /\ \A v \in Others(w) : ControlKept(v)
    BY ControlOthers DEF CreateTable, Goto, IInv, TypeOK
  <1>3. db' = d /\ conn'[p] = "auto"
    BY <1>1, Own, PublishConns
  <1>4. /\ d.rows = s.rows /\ d.trig = s.trig /\ d.count = s.count
        /\ \A x \in AllNames : d.kind[x] = IF x = t THEN "data" ELSE s.kind[x]
    BY Own, WithTableFacts
  <1>5. db.kind[t] = "none" /\ db.rows[t] = 0 /\ db.count[t] = 0 /\ s.rows[t] = 0
    BY <1>1, Own, SeenPending DEF FileOK, ListedMatches, Content
  <1>6. FileKeptBut({t})
    BY <1>1, <1>3, <1>4, <1>5, Own, SeenPending DEF FileKeptBut
  <1>7. FileOK(db)'
    BY <1>1, <1>3, <1>4, Own, FtsNameType, SeenPending DEF FileOK, Content
  <1>8. ListedMatches'
    <2>1. db'.count = db.count
      BY <1>1, <1>3, <1>4, SeenPending
    <2>2. QED
      BY <1>5, <1>6, <2>1, Own, FtsNameType DEF ListedMatches, FileKeptBut
  <1>9. \A v \in Others(w) : /\ pc[v] \in Owning => tbl[v] \notin {t}
                             /\ reply[v] = "ingested" => tbl[v] \notin {t}
    BY <1>5 DEF Others, IInv, DataInv, IngestOK, Acked
  <1>10. OneOwner'
    BY <1>2, <1>9, Own DEF OneOwner, ControlKept, Others
  <1>11. IngestOK(w)' /\ EnableOK(w)' /\ Acked(w)'
    <2>1. db'.kind[t] = "data" /\ db'.rows[t] = 0 /\ db'.count[t] = 0
      BY <1>1, <1>3, <1>4, <1>5, Own, SeenPending
    <2>2. got[w] = 0 /\ reply[w] # "ingested"
      BY <1>1, <1>5, Own DEF IngestOK, Acked
    <2>3. QED  BY <1>2, <1>3, <2>1, <2>2 DEF IngestOK, EnableOK, Acked
  <1>12. QED
    BY <1>1, <1>2, <1>6, <1>7, <1>8, <1>9, <1>10, <1>11, PublishStep

LEMMA InsertBatchData ==
  ASSUME IInv, NEW w \in Workers, InsertBatch(w)
  PROVE  DataInv'
  <1> DEFINE p == Home[w]  t == tbl[w]  s == Seen(p)  d == WithBatch(s, t)
  <1>1. pc[w] = "insert" /\ Write(p, d)
    BY DEF InsertBatch
  <1>2. /\ pc' = pc /\ reply' = reply /\ tbl' = tbl /\ got'[w] = got[w] + 1
        /\ \A v \in Others(w) : ControlKept(v)
    BY DEF InsertBatch, IInv, TypeOK, ControlKept, Others
  <1>3. /\ ConnsKept(p) /\ db' = db /\ conn'[p] = "writing" /\ view'[p] = d
    BY <1>1, Own, QuietConns DEF Write, DatabaseTypeOK
  <1>4. /\ d.kind = s.kind /\ d.trig = s.trig /\ d.count = s.count
        /\ \A x \in AllNames : d.rows[x] =
              IF x = t \/ (t \in s.trig /\ x = FtsName[t])
              THEN s.rows[x] + 1 ELSE s.rows[x]
    BY Own, WithBatchFacts
  <1>5. /\ db.kind[t] = "data" /\ db.count[t] = 0 /\ db.rows[t] = 0
        /\ conn[p] \in {"auto", "writing"}
        /\ s.rows[t] = got[w]
    BY <1>1, Own DEF IngestOK, Owning, Seen, NotPinned
  <1>6. /\ FileOK(s) /\ s.count = db.count
        /\ \A x \in AllNames :
             /\ s.kind[x] = db.kind[x] \/ (db.kind[x] = "none" /\ s.kind[x] = "fts")
             /\ s.kind[x] = "data" /\ x # t => s.rows[x] = db.rows[x]
    <2>1. CASE conn[p] = "auto"
      BY <2>1, Own DEF Seen, NotPinned
    <2>2. CASE conn[p] = "writing"
      <3>1. \A x : Inserting(p, x) => x = t
        BY <1>1 DEF IInv, OneCallPerProcess, Inserting
      <3>2. QED  BY <2>2, <3>1, Own DEF PendingOK, Seen, NotPinned
    <2>3. QED  BY <1>5, <2>1, <2>2
  <1>7. PendingOK(p)'
    <2>1. FileOK(d)
      BY <1>4, <1>5, <1>6, Own, FtsNameType DEF FileOK
    <2>2. \A x : ~Inserting(p, x)' => x # t
      BY <1>1, <1>2 DEF Inserting
    <2>3. ASSUME NEW x \in AllNames, d.kind[x] = "data", x # t
          PROVE  d.rows[x] = db.rows[x]
      BY <2>3, <1>4, <1>6 DEF FileOK
    <2>4. \A x \in AllNames :
            /\ d.kind[x] = db.kind[x] \/ (db.kind[x] = "none" /\ d.kind[x] = "fts")
            /\ d.kind[x] = "data" /\ ~Inserting(p, x)' => d.rows[x] = db.rows[x]
      BY <1>4, <1>6, <2>2, <2>3
    <2>5. d.count = db.count
      BY <1>4, <1>6
    <2>6. FileOK(view[p])'
      BY <1>3, <2>1 DEF FileOK
    <2> HIDE DEF d, s
    <2>7. QED  BY <1>3, <2>4, <2>5, <2>6 DEF PendingOK
  <1>8. FileOK(db)' /\ ListedMatches'
    BY <1>3, Own, QuietKeeps
  <1>9. \A v \in Others(w) : IngestOK(v)' /\ EnableOK(v)' /\ Acked(v)'
    <2>1. \A v \in Others(w) : pc[v] # "idle" => Home[v] # p
      BY <1>1 DEF IInv, OneCallPerProcess, Others
    <2>2. QED  BY <1>2, <1>3, <2>1, Own, QuietKeeps DEF Others
  <1>10. IngestOK(w)' /\ EnableOK(w)' /\ Acked(w)'
    <2>1. reply[w] # "ingested"
      BY <1>5, Own DEF Acked
    <2>2. d.rows[t] = got[w] + 1
      BY <1>4, <1>5, Own
    <2>3. QED
      BY <1>1, <1>2, <1>3, <1>5, <2>1, <2>2 DEF IngestOK, EnableOK, Acked
  <1>11. OneOwner'
    BY <1>2, Own DEF OneOwner
  <1>12. \A q \in Procs : PendingOK(q)'
    BY <1>2, <1>3, <1>7, PendingOthers
  <1>13. QED  BY <1>8, <1>9, <1>10, <1>11, <1>12 DEF DataInv, Others

LEMMA FinishRowsData ==
  ASSUME IInv, NEW w \in Workers, FinishRows(w)
  PROVE  DataInv'
  <1> DEFINE p == Home[w]  t == tbl[w]  d == view[p]
  <1>1. pc[w] = "insert" /\ got[w] > 0 /\ Commit(p)
    BY DEF FinishRows
  <1>2. /\ db.kind[t] = "data" /\ db.count[t] = 0 /\ db.rows[t] = 0
        /\ conn[p] = "writing" /\ d.rows[t] = got[w]
    BY <1>1, Own DEF IngestOK, Owning
  <1>3. CanWrite(p) /\ Publish(p, d)
    BY <1>1, <1>2, Own DEF Commit, CanWrite, IInv, ConnInv
  <1>4. /\ pc'[w] = "record" /\ reply'[w] = reply[w] /\ tbl' = tbl /\ got' = got
        /\ \A v \in Others(w) : ControlKept(v)
    BY ControlOthers DEF FinishRows, Goto, IInv, TypeOK
  <1>5. db' = d /\ conn'[p] = "auto"
    BY <1>3, Own, PublishConns
  <1>6. /\ FileOK(d) /\ d.count = db.count
        /\ \A x \in AllNames :
             /\ d.kind[x] = db.kind[x] \/ (db.kind[x] = "none" /\ d.kind[x] = "fts")
             /\ d.kind[x] = "data" /\ x # t => d.rows[x] = db.rows[x]
    <2>1. \A x : Inserting(p, x) => x = t
      BY <1>1 DEF IInv, OneCallPerProcess, Inserting
    <2>2. QED  BY <1>2, <2>1, Own DEF PendingOK
  <1>7. FileKeptBut({t}) /\ FileOK(db)'
    BY <1>2, <1>5, <1>6 DEF FileKeptBut, FileOK
  <1>8. ListedMatches'
    BY <1>2, <1>5, <1>6, <1>7, Own, FtsNameType DEF ListedMatches, FileKeptBut
  <1>9. \A v \in Others(w) : /\ pc[v] \in Owning => tbl[v] \notin {t}
                             /\ reply[v] = "ingested" => tbl[v] \notin {t}
    BY <1>1, <1>2, Own DEF Others, IInv, DataInv, OneOwner, Owning, Acked
  <1>10. OneOwner'
    BY <1>4, <1>9, Own DEF OneOwner, ControlKept, Others
  <1>11. IngestOK(w)' /\ EnableOK(w)' /\ Acked(w)'
    <2>1. db'.kind[t] = "data" /\ db'.rows[t] = got[w] /\ db'.count[t] = 0
      BY <1>2, <1>5, <1>6, Own
    <2>2. reply[w] # "ingested"
      BY <1>2, Own DEF Acked
    <2>3. QED
      BY <1>1, <1>4, <1>5, <2>1, <2>2 DEF IngestOK, EnableOK, Acked
  <1>12. QED
    BY <1>1, <1>3, <1>4, <1>7, <1>8, <1>9, <1>10, <1>11, PublishStep

LEMMA InsertFailsData ==
  ASSUME IInv, NEW w \in Workers, InsertFails(w)
  PROVE  DataInv'
  <1> DEFINE p == Home[w]  t == tbl[w]
  <1>1. pc[w] = "insert" /\ Abandon(p)
    BY DEF InsertFails, Rollback
  <1>2. /\ pc'[w] = "drop" /\ reply'[w] = reply[w] /\ tbl' = tbl /\ got' = got
        /\ \A v \in Others(w) : ControlKept(v)
    BY ControlOthers DEF InsertFails, Goto, IInv, TypeOK
  <1>3. ConnsKept(p) /\ db' = db /\ conn'[p] = "auto"
    BY <1>1, Own, QuietConns DEF Abandon, DatabaseTypeOK
  <1>4. FileOK(db)' /\ ListedMatches'
    BY <1>3, Own, QuietKeeps
  <1>5. \A v \in Others(w) : IngestOK(v)' /\ EnableOK(v)' /\ Acked(v)'
    <2>1. \A v \in Others(w) : pc[v] # "idle" => Home[v] # p
      BY <1>1 DEF IInv, OneCallPerProcess, Others
    <2>2. QED  BY <1>2, <1>3, <2>1, Own, QuietKeeps DEF Others
  <1>6. IngestOK(w)' /\ EnableOK(w)' /\ Acked(w)'
    <2>1. reply[w] # "ingested"
      BY <1>1, Own DEF Acked, IngestOK, Owning
    <2>2. QED
      BY <1>1, <1>2, <1>3, <2>1, Own DEF IngestOK, EnableOK, Acked, Owning
  <1>7. OneOwner'
    BY <1>1, <1>2, Own DEF OneOwner, ControlKept, Others, Owning
  <1>8. \A q \in Procs : PendingOK(q)'
    <2>1. PendingOK(p)'
      BY <1>3 DEF PendingOK
    <2>2. QED  BY <1>2, <1>3, <2>1, PendingOthers
  <1>9. QED  BY <1>4, <1>5, <1>6, <1>7, <1>8 DEF DataInv, Others

LEMMA DropTableData ==
  ASSUME IInv, NEW w \in Workers, DropTable(w)
  PROVE  DataInv'
  <1> DEFINE p == Home[w]  t == tbl[w]  d == WithoutTable(db, t)
  <1>1. /\ pc[w] = "drop" /\ CanWrite(p)
        /\ db.kind[t] = "data" /\ db.count[t] = 0 /\ conn[p] = "auto"
    BY Own DEF DropTable, WriteAndCommit, IngestOK, Owning
  <1>2. Publish(p, d)
    BY <1>1 DEF DropTable, WriteAndCommit, Seen, NotPinned
  <1>3. /\ pc'[w] = "idle" /\ reply'[w] = "failed" /\ tbl' = tbl
        /\ \A v \in Others(w) : ControlKept(v)
    BY ControlOthers DEF DropTable, Answer, IInv, TypeOK
  <1>4. db' = d
    BY <1>2, Own, PublishConns
  <1>5. /\ d.trig = db.trig \ {t} /\ d.count = db.count
        /\ \A x \in AllNames :
             /\ d.kind[x] = IF x = t THEN "none" ELSE db.kind[x]
             /\ d.rows[x] = IF x = t THEN 0 ELSE db.rows[x]
    BY Own, WithoutTableFacts
  <1>6. FileKeptBut({t})
    BY <1>1, <1>4, <1>5, Own DEF FileKeptBut
  <1>7. FileOK(db)'
    BY <1>1, <1>4, <1>5, Own, FtsNameType DEF FileOK, Content
  <1>8. ListedMatches'
    BY <1>1, <1>4, <1>5, Own, FtsNameType DEF ListedMatches
  <1>9. \A v \in Others(w) : /\ pc[v] \in Owning => tbl[v] \notin {t}
                             /\ reply[v] = "ingested" => tbl[v] \notin {t}
    BY <1>1, Own DEF Others, IInv, DataInv, OneOwner, Owning, Acked
  <1>10. OneOwner'
    BY <1>3, Own DEF OneOwner, ControlKept, Others, Owning
  <1>11. IngestOK(w)' /\ EnableOK(w)' /\ Acked(w)'
    BY <1>3 DEF IngestOK, EnableOK, Acked, Owning
  <1>12. QED
    BY <1>1, <1>2, <1>3, <1>6, <1>7, <1>8, <1>9, <1>10, <1>11, PublishStep

LEMMA RecordDatasetData ==
  ASSUME IInv, NEW w \in Workers, RecordDataset(w)
  PROVE  DataInv'
  <1> DEFINE p == Home[w]  t == tbl[w]  d == WithDataset(db, t, got[w])
  <1>1. /\ pc[w] = "record" /\ CanWrite(p) /\ conn[p] = "auto"
        /\ db.kind[t] = "data" /\ db.count[t] = 0
        /\ got[w] > 0 /\ db.rows[t] = got[w]
    BY Own DEF RecordDataset, WriteAndCommit, IngestOK, Owning
  <1>2. Publish(p, d)
    BY <1>1 DEF RecordDataset, WriteAndCommit, Seen, NotPinned
  <1>3. /\ pc'[w] = "idle" /\ reply'[w] = "ingested" /\ tbl' = tbl /\ got' = got
        /\ \A v \in Others(w) : ControlKept(v)
    BY ControlOthers DEF RecordDataset, Answer, IInv, TypeOK
  <1>4. db' = d
    BY <1>2, Own, PublishConns
  <1>5. /\ d.kind = db.kind /\ d.rows = db.rows /\ d.trig = db.trig
        /\ d.count = [db.count EXCEPT ![t] = got[w]]
    BY Own, WithDatasetFacts
  <1>6. FileKeptBut({t})
    BY <1>4, <1>5, Own DEF FileKeptBut, Content
  <1>7. FileOK(db)'
    BY <1>4, <1>5, Own DEF FileOK
  <1>8. ListedMatches'
    BY <1>1, <1>4, <1>5, Own DEF ListedMatches, Content
  <1>9. \A v \in Others(w) : /\ pc[v] \in Owning => tbl[v] \notin {t}
                             /\ reply[v] = "ingested" => tbl[v] \notin {t}
    BY <1>1, Own DEF Others, IInv, DataInv, OneOwner, Owning, Acked
  <1>10. OneOwner'
    BY <1>3, Own DEF OneOwner, ControlKept, Others, Owning
  <1>11. IngestOK(w)' /\ EnableOK(w)' /\ Acked(w)'
    <2>1. db'.count[t] = got[w]
      BY <1>4, <1>5, Own DEF Content
    <2>2. QED
      BY <1>1, <1>3, <2>1 DEF IngestOK, EnableOK, Acked, Owning
  <1>12. QED
    BY <1>1, <1>2, <1>3, <1>6, <1>7, <1>8, <1>9, <1>10, <1>11, PublishStep

LEMMA CreateIndexData ==
  ASSUME IInv, NEW w \in Workers, CreateIndex(w)
  PROVE  DataInv'
  <1> DEFINE p == Home[w]  f == FtsName[tbl[w]]  s == Seen(p)
             d == WithIndex(s, tbl[w])
  <1>1. pc[w] = "index" /\ CanWrite(p) /\ s.kind[f] = "none"
    BY DEF CreateIndex, WriteDDL, WriteAndCommit, Write, IsEnabled, TableExists
  <1>2. /\ pc'[w] = "fill" /\ reply'[w] = reply[w] /\ tbl' = tbl /\ got' = got
        /\ \A v \in Others(w) : ControlKept(v)
    BY ControlOthers DEF CreateIndex, Goto, IInv, TypeOK
  <1>3. /\ d.rows = s.rows /\ d.trig = s.trig /\ d.count = s.count
        /\ \A x \in AllNames : d.kind[x] = IF x = f THEN "fts" ELSE s.kind[x]
    BY Own, WithIndexFacts
  <1>4. /\ FileOK(s) /\ s.count = db.count /\ db.kind[f] = "none"
        /\ \A x \in AllNames :
             /\ s.kind[x] = db.kind[x] \/ (db.kind[x] = "none" /\ s.kind[x] = "fts")
             /\ s.kind[x] = "data" => s.rows[x] = db.rows[x]
    BY <1>1, Own, SeenPending
  <1>5. FileOK(d)
    BY <1>3, <1>4, Own, FtsNameType DEF FileOK, Content
  <1>6. OneOwner'
    BY <1>2, Own DEF OneOwner, ControlKept, Others, Owning
  <1>7. IngestOK(w)' /\ Acked(w)' <=> Acked(w)'
    BY <1>2 DEF IngestOK, Owning
  <1>8. CASE conn[p] = "auto"
    <2>1. Publish(p, d) /\ s = db
      BY <1>8 DEF CreateIndex, WriteDDL, WriteAndCommit, Seen, NotPinned
    <2>2. db' = d /\ conn'[p] = "auto"
      BY <2>1, Own, PublishConns
    <2>3. FileKeptBut({}) /\ FileOK(db)'
      BY <1>3, <1>4, <1>5, <2>1, <2>2 DEF FileKeptBut, FileOK
    <2>4. ListedMatches'
      BY <1>3, <2>1, <2>2, <2>3, Own, FtsNameType DEF ListedMatches, FileKeptBut
    <2>5. Acked(w)'
      BY <1>2, <1>3, <2>1, <2>2, Own DEF Acked
    <2>6. EnableOK(w)'
      BY <1>2, <1>3, <2>2, Own DEF EnableOK, Seen, NotPinned
    <2>7. QED
      BY <1>1, <1>2, <1>6, <1>7, <2>1, <2>3, <2>4, <2>5, <2>6, PublishStep
  <1>9. CASE conn[p] # "auto"
    <2>1. Write(p, d)
      BY <1>9 DEF CreateIndex, WriteDDL
    <2>2. ConnsKept(p) /\ db' = db /\ conn'[p] = "writing" /\ view'[p] = d
      BY <2>1, Own, QuietConns DEF Write, DatabaseTypeOK
    <2>3. FileOK(db)' /\ ListedMatches'
      BY <2>2, Own, QuietKeeps
    <2>4. \A v \in Others(w) : IngestOK(v)' /\ EnableOK(v)' /\ Acked(v)'
      <3>1. \A v \in Others(w) : pc[v] # "idle" => Home[v] # p
        BY <1>1 DEF IInv, OneCallPerProcess, Others
      <3>2. QED  BY <1>2, <2>2, <3>1, Own, QuietKeeps DEF Others
    <2>5. Acked(w)'
      BY <1>2, <2>2, Own DEF Acked
    <2>6. EnableOK(w)'
      BY <1>2, <1>3, <2>2, Own DEF EnableOK, Seen, NotPinned
    <2>7. PendingOK(p)'
      <3>1. \A x \in AllNames :
              /\ d.kind[x] = db.kind[x] \/ (db.kind[x] = "none" /\ d.kind[x] = "fts")
              /\ d.kind[x] = "data" => d.rows[x] = db.rows[x]
        BY <1>3, <1>4
      <3>2. d.count = db.count
        BY <1>3, <1>4
      <3>3. FileOK(view[p])'
        BY <1>5, <2>2 DEF FileOK
      <3> HIDE DEF d, s
      <3>4. QED  BY <2>2, <3>1, <3>2, <3>3 DEF PendingOK
    <2>8. \A q \in Procs : PendingOK(q)'
      BY <1>2, <2>2, <2>7, PendingOthers
    <2>9. QED
      BY <1>6, <1>7, <2>3, <2>4, <2>5, <2>6, <2>8 DEF DataInv, Others
  <1>10. QED  BY <1>8, <1>9

LEMMA FillIndexData ==
  ASSUME IInv, NEW w \in Workers, FillIndex(w)
  PROVE  DataInv'
  <1> DEFINE p == Home[w]  f == FtsName[tbl[w]]  s == Seen(p)
             d == WithIndexFilled(s, tbl[w])
  <1>1. pc[w] = "fill" /\ CanWrite(p) /\ Write(p, d) /\ s.kind[f] = "fts"
    BY Own DEF FillIndex, Write, EnableOK
  <1>2. /\ pc'[w] = "triggers" /\ reply'[w] = reply[w] /\ tbl' = tbl /\ got' = got
        /\ \A v \in Others(w) : ControlKept(v)
    BY ControlOthers DEF FillIndex, Goto, IInv, TypeOK
  <1>3. ConnsKept(p) /\ db' = db /\ conn'[p] = "writing" /\ view'[p] = d
    BY <1>1, Own, QuietConns DEF Write, DatabaseTypeOK
  <1>4. /\ d.kind = s.kind /\ d.trig = s.trig /\ d.count = s.count
        /\ \A x \in AllNames : x # f => d.rows[x] = s.rows[x]
    BY Own, WithIndexFilledFacts
  <1>5. /\ FileOK(s) /\ s.count = db.count
        /\ \A x \in AllNames :
             /\ s.kind[x] = db.kind[x] \/ (db.kind[x] = "none" /\ s.kind[x] = "fts")
             /\ s.kind[x] = "data" => s.rows[x] = db.rows[x]
    BY <1>1, Own, SeenPending
  <1>6. PendingOK(p)'
    <2>1. FileOK(d)
      BY <1>1, <1>4, <1>5, Own DEF FileOK
    <2>2. \A x \in AllNames :
            /\ d.kind[x] = db.kind[x] \/ (db.kind[x] = "none" /\ d.kind[x] = "fts")
            /\ d.kind[x] = "data" => d.rows[x] = db.rows[x]
      BY <1>1, <1>4, <1>5
    <2>3. d.count = db.count
      BY <1>4, <1>5
    <2>4. FileOK(view[p])'
      BY <1>3, <2>1 DEF FileOK
    <2> HIDE DEF d, s
    <2>5. QED  BY <1>3, <2>2, <2>3, <2>4 DEF PendingOK
  <1>7. FileOK(db)' /\ ListedMatches'
    BY <1>3, Own, QuietKeeps
  <1>8. \A v \in Others(w) : IngestOK(v)' /\ EnableOK(v)' /\ Acked(v)'
    <2>1. \A v \in Others(w) : pc[v] # "idle" => Home[v] # p
      BY <1>1 DEF IInv, OneCallPerProcess, Others
    <2>2. QED  BY <1>2, <1>3, <2>1, Own, QuietKeeps DEF Others
  <1>9. IngestOK(w)' /\ Acked(w)'
    BY <1>2, <1>3, Own DEF IngestOK, Acked, Owning
  <1>10. EnableOK(w)'
    BY <1>1, <1>2, <1>3, <1>4, Own DEF EnableOK, Seen, NotPinned
  <1>11. OneOwner'
    BY <1>2, Own DEF OneOwner, ControlKept, Others, Owning
  <1>12. \A q \in Procs : PendingOK(q)'
    BY <1>2, <1>3, <1>6, PendingOthers
  <1>13. QED
    BY <1>7, <1>8, <1>9, <1>10, <1>11, <1>12 DEF DataInv, Others

LEMMA CreateTriggersData ==
  ASSUME IInv, NEW w \in Workers, CreateTriggers(w)
  PROVE  DataInv'
  <1> DEFINE p == Home[w]  t == tbl[w]  s == Seen(p)  d == WithTriggers(s, t)
  <1>1. /\ pc[w] = "triggers" /\ CanWrite(p) /\ Publish(p, d)
        /\ s.kind[FtsName[t]] = "fts"
    BY Own DEF CreateTriggers, WriteAndCommit, EnableOK
  <1>2. /\ pc'[w] = "idle" /\ reply'[w] = "enabled" /\ tbl' = tbl
        /\ \A v \in Others(w) : ControlKept(v)
    BY ControlOthers DEF CreateTriggers, Answer, IInv, TypeOK
  <1>3. db' = d
    BY <1>1, Own, PublishConns
  <1>4. /\ d.kind = s.kind /\ d.rows = s.rows /\ d.count = s.count
        /\ d.trig = s.trig \cup {t}
    BY Own, WithTriggersFacts
  <1>5. /\ FileOK(s) /\ s.count = db.count
        /\ \A x \in AllNames :
             /\ s.kind[x] = db.kind[x] \/ (db.kind[x] = "none" /\ s.kind[x] = "fts")
             /\ s.kind[x] = "data" => s.rows[x] = db.rows[x]
    BY <1>1, Own, SeenPending
  <1>6. FileKeptBut({})
    BY <1>3, <1>4, <1>5 DEF FileKeptBut
  <1>7. FileOK(db)'
    BY <1>1, <1>3, <1>4, <1>5 DEF FileOK
  <1>8. ListedMatches'
    BY <1>3, <1>4, <1>5, <1>6, Own, FtsNameType DEF ListedMatches, FileKeptBut
  <1>9. OneOwner'
    BY <1>2, Own DEF OneOwner, ControlKept, Others, Owning
  <1>10. IngestOK(w)' /\ EnableOK(w)' /\ Acked(w)'
    BY <1>2 DEF IngestOK, EnableOK, Acked, Owning
  <1>11. QED
    BY <1>1, <1>2, <1>6, <1>7, <1>8, <1>9, <1>10, PublishStep

\* Every statement of a call keeps the data invariant.
LEMMA StepKeepsData ==
  ASSUME IInv, NEW w \in Workers, Step(w)
  PROVE  DataInv'
  <1>1. /\ TypeOK /\ pc \in [Workers -> {"idle"} \cup IngestSteps \cup EnableSteps]
        /\ reply \in [Workers -> Replies]
    BY DEF IInv, TypeOK
  <1>2. ASSUME pc[w] \in {"exists", "sample", "drop", "record", "schema",
                          "enabled", "index", "fill", "triggers"},
               \/ Read(Home[w]) \/ TimeOutDML(Home[w]) \/ UNCHANGED conVars
               \/ Write(Home[w], Seen(Home[w])),
               \/ \E r \in {"failed", "already"} : Answer(w, r)
               \/ Goto(w, "enabled") \/ Goto(w, "index")
               \/ pc[w] = "exists" /\ Goto(w, "sample")
        PROVE  DataInv'
    <2>1. /\ \A v \in Others(w) : ControlKept(v)
          /\ got' = got
      BY <1>1, <1>2, ControlOthers
    <2>2. /\ pc'[w] \notin Owning \cup {"fill", "triggers", "exists"}
          /\ pc'[w] = "sample" => pc[w] = "exists"
      BY <1>1, <1>2 DEF Answer, Goto, Owning
    <2>3. Acked(w)'
      <3>1. CASE \E r \in {"failed", "already"} : Answer(w, r)
        BY <1>1, <3>1 DEF Answer, Acked
      <3>2. CASE \E n : Goto(w, n)
        <4>1. db' = db
          BY <1>1, <1>2, Own, QuietConns
        <4>2. QED  BY <3>2, <4>1, Own DEF Goto, Acked
      <3>3. QED  BY <1>2, <3>1, <3>2
    <2>4. QED  BY <1>2, <2>1, <2>2, <2>3, Own, QuietStep DEF IngestOK
  <1>3. CASE CheckAbsent(w)
    BY <1>2, <1>3 DEF CheckAbsent
  <1>4. CASE SampleFails(w) \/ CreateTableFails(w) \/ DropFails(w)
    BY <1>2, <1>4 DEF SampleFails, CreateTableFails, DropFails
  <1>5. CASE RecordFails(w)
    BY <1>2, <1>5 DEF RecordFails
  <1>6. CASE GetSchema(w) \/ CheckEnabled(w)
    BY <1>2, <1>6 DEF GetSchema, CheckEnabled
  <1>7. CASE CreateIndexFails(w)
    BY <1>2, <1>7 DEF CreateIndexFails
  <1>8. CASE FillIndexFails(w) \/ CreateTriggersFail(w)
    BY <1>2, <1>8 DEF FillIndexFails, CreateTriggersFail
  <1>9. QED
    BY <1>3, <1>4, <1>5, <1>6, <1>7, <1>8, CreateTableData, InsertBatchData,
       FinishRowsData, InsertFailsData, DropTableData, RecordDatasetData,
       CreateIndexData, FillIndexData, CreateTriggersData
       DEF Step, IngestStep, EnableStep

LEMMA CallKeepsData ==
  ASSUME IInv, NEW w \in Workers, Call(w)
  PROVE  DataInv'
  <1> DEFINE p == Home[w]
  <1>1. ConnsKept(p) /\ db' = db /\ pc[w] = "idle"
    <2>1. Read(p) \/ UNCHANGED conVars
      BY DEF Call, StartIngest, StartEnable, Search, DescribeTable,
             ListDatasets, Enter, ReadOnly
    <2>2. QED
      BY <2>1, Own, QuietConns
         DEF Call, StartIngest, StartEnable, Search, DescribeTable,
             ListDatasets, Enter, ReadOnly
  <1>2. \A v \in Others(w) : ControlKept(v) /\ (pc[v] # "idle" => Home[v] # p)
    <2>1. lock[p] = NoWorker
      BY DEF Call, StartIngest, StartEnable, Search, DescribeTable,
             ListDatasets, Enter, ReadOnly
    <2>2. \A v \in Others(w) : pc[v] # "idle" => Home[v] # p
      BY <2>1, NoWorkerAssumption DEF IInv, OneCallPerProcess, Others
    <2>3. \A v \in Others(w) : ControlKept(v)
      BY DEF Call, StartIngest, StartEnable, Search, DescribeTable,
             ListDatasets, Enter, ReadOnly, ControlKept, Others, IInv, TypeOK
    <2>4. QED  BY <2>2, <2>3
  <1>3. /\ pc'[w] \in {"idle", "exists", "schema"} /\ reply'[w] \in {"none", "read"}
        /\ pc'[w] = "exists" => got'[w] = 0
    BY DEF Call, StartIngest, StartEnable, Search, DescribeTable,
           ListDatasets, Enter, ReadOnly, IInv, TypeOK
  <1>4. FileOK(db)' /\ ListedMatches'
    BY <1>1, Own, QuietKeeps
  <1>5. \A v \in Workers : IngestOK(v)' /\ EnableOK(v)' /\ Acked(v)'
    <2>1. \A v \in Others(w) : IngestOK(v)' /\ EnableOK(v)' /\ Acked(v)'
      BY <1>1, <1>2, Own, QuietKeeps DEF Others
    <2>2. IngestOK(w)' /\ EnableOK(w)' /\ Acked(w)'
      BY <1>3 DEF IngestOK, EnableOK, Acked, Owning
    <2>3. QED  BY <2>1, <2>2 DEF Others
  <1>6. OneOwner'
    BY <1>2, <1>3, Own DEF OneOwner, ControlKept, Others, Owning
  <1>7. PendingOK(p)'
    <2>1. conn'[p] = "writing" => conn[p] = "writing" /\ view'[p] = view[p]
      BY Own DEF Call, StartIngest, StartEnable, Search, DescribeTable,
             ListDatasets, Enter, ReadOnly, Read, conVars, DatabaseTypeOK
    <2>2. \A x : Inserting(p, x)' <=> Inserting(p, x)
      BY <1>1, <1>2, <1>3 DEF Inserting, ControlKept, Others
    <2>3. QED  BY <1>1, <2>1, <2>2, Own DEF PendingOK, FileOK
  <1>8. \A q \in Procs : PendingOK(q)'
    BY <1>1, <1>2, <1>7, PendingOthers
  <1>9. QED  BY <1>4, <1>5, <1>6, <1>8 DEF DataInv

LEMMA CrashKeepsData ==
  ASSUME IInv, NEW p \in Procs, Crash(p)
  PROVE  DataInv'
  <1>1. ConnsKept(p) /\ db' = db /\ conn'[p] = "auto"
    BY QuietConns DEF Crash, IInv, TypeOK, DatabaseTypeOK, Abandon
  <1>2. ASSUME NEW v \in Workers
        PROVE  /\ Home[v] # p => ControlKept(v)
               /\ Home[v] = p => pc'[v] = "idle" /\ tbl'[v] = tbl[v]
                                 /\ got'[v] = got[v]
                                 /\ reply'[v] \in {reply[v], "none"}
    BY DEF Crash, ControlKept
  <1>3. FileOK(db)' /\ ListedMatches'
    BY <1>1, QuietKeeps
  <1>4. ASSUME NEW v \in Workers
        PROVE  IngestOK(v)' /\ EnableOK(v)' /\ Acked(v)'
    <2>1. CASE Home[v] # p
      BY <1>1, <1>2, <2>1, QuietKeeps
    <2>2. CASE Home[v] = p
      BY <1>1, <1>2, <2>2, Own DEF IngestOK, EnableOK, Acked, Owning
    <2>3. QED  BY <2>1, <2>2
  <1>5. OneOwner'
    BY <1>2 DEF IInv, DataInv, OneOwner, ControlKept, Owning
  <1>6. \A q \in Procs : PendingOK(q)'
    <2> SUFFICES ASSUME NEW q \in Procs, conn'[q] = "writing"
                 PROVE  PendingOK(q)'
      BY DEF PendingOK
    <2>1. q # p /\ conn[q] = "writing" /\ view'[q] = view[q]
      BY <1>1 DEF ConnsKept
    <2>2. \A x : Inserting(q, x)' <=> Inserting(q, x)
      BY <1>2, <2>1 DEF Inserting, ControlKept
    <2>3. QED  BY <1>1, <2>1, <2>2 DEF IInv, DataInv, PendingOK, FileOK
  <1>7. QED  BY <1>3, <1>4, <1>5, <1>6 DEF DataInv

\* The data invariant holds in every reachable state, with any number of
\* processes and threads, and with processes dying at any point or never.
THEOREM DataCorrect == Spec => []DataInv
  <1>1. Init => DataInv
    BY FtsNameType
       DEF Init, DatabaseInit, EmptyContent, DataInv, FileOK, ListedMatches,
           OneOwner, PendingOK, IngestOK, EnableOK, Acked, Owning
  <1>2. TypeOK /\ OneCallPerProcess /\ ConnInv /\ DataInv /\ [Next]_vars
          => DataInv'
    <2> SUFFICES ASSUME IInv, [Next]_vars  PROVE DataInv'
      BY DEF IInv
    <2>1. CASE UNCHANGED vars
      BY <2>1 DEF vars, IInv, DataInv, FileOK, ListedMatches, OneOwner,
                  PendingOK, Inserting, IngestOK, EnableOK, Acked, Owning,
                  Seen, NotPinned
    <2>2. QED
      BY <2>1, StepKeepsData, CallKeepsData, CrashKeepsData DEF Next
  <1>3. QED
    BY <1>1, <1>2, TypeCorrect, CallsExclude, ConnectionsCorrect, PTL DEF Spec

\* The catalog never names a table that is gone or has other rows than listed.
THEOREM ListedMatchesCorrect == Spec => []ListedMatches
  <1>1. DataInv => ListedMatches
    BY DEF DataInv
  <1>2. QED  BY <1>1, DataCorrect, PTL

\* An acknowledged ingest stays listed with the rows its caller's call counted.
THEOREM AckedIngestCorrect == Spec => []AckedIngest
  <1>1. TypeOK /\ DataInv => AckedIngest
    BY DEF TypeOK, DataInv, Acked, ListedMatches, AckedIngest
  <1>2. QED  BY <1>1, TypeCorrect, DataCorrect, PTL

-----------------------------------------------------------------------------
(* The refinement. *)

\* A commit of d changes nothing that the abstract catalog shows.
Unseen(d) ==
    /\ d.count = db.count
    /\ \A x \in Names : \/ d.kind[x] = db.kind[x] /\ d.rows[x] = db.rows[x]
                        \/ db.kind[x] # "data" /\ d.kind[x] # "data"
                        \/ /\ db.kind[x] = "data" => db.rows[x] = 0
                           /\ d.kind[x] = "data" => d.rows[x] = 0

LEMMA UnseenStutters ==
  ASSUME NEW d, db' = d, Unseen(d)
  PROVE  UNCHANGED C!vars
  <1>1. RowsOf(d) = RowsOf(db)
    BY DEF Unseen, RowsOf
  <1>2. RowsOf(db)' = RowsOf(d)
    BY DEF RowsOf
  <1>3. QED  BY <1>1, <1>2 DEF Unseen, C!vars

\* What p's next statement sees differs from the file in nothing the catalog
\* shows, unless an ingest is inserting.
LEMMA SeenUnseen ==
  ASSUME IInv, NEW w \in Workers, pc[w] # "idle", pc[w] # "insert",
         CanWrite(Home[w])
  PROVE  Unseen(Seen(Home[w]))
  BY SeenPending, FtsNameType DEF Unseen

LEMMA FinishRowsLoads ==
  ASSUME IInv, NEW w \in Workers, FinishRows(w)
  PROVE  C!Load(tbl[w])
  <1> DEFINE p == Home[w]  t == tbl[w]  d == view[p]
  <1>1. pc[w] = "insert" /\ got[w] > 0 /\ Commit(p)
    BY DEF FinishRows
  <1>2. /\ db.kind[t] = "data" /\ db.count[t] = 0 /\ db.rows[t] = 0
        /\ conn[p] = "writing" /\ d.rows[t] = got[w]
    BY <1>1, Own DEF IngestOK, Owning
  <1>3. db' = d
    BY <1>1, <1>2 DEF Commit, Publish
  <1>4. /\ d.count = db.count /\ d.kind[t] = "data"
        /\ \A x \in AllNames :
             /\ d.kind[x] = "data" <=> db.kind[x] = "data"
             /\ d.kind[x] = "data" /\ x # t => d.rows[x] = db.rows[x]
    <2>1. \A x : Inserting(p, x) => x = t
      BY <1>1 DEF IInv, OneCallPerProcess, Inserting
    <2>2. QED  BY <1>2, <2>1, Own DEF PendingOK
  <1>5. RowsOf(d) = [RowsOf(db) EXCEPT ![t] = got[w]]
    BY <1>2, <1>4, Own, FtsNameType DEF RowsOf
  <1>6. RowsOf(db)[t] = 0 /\ RowsOf(db)' = RowsOf(d) /\ RowsOf(d)[t] = got[w]
    BY <1>2, <1>3, <1>4, Own DEF RowsOf
  <1>7. got[w] \in Nat \ {0}
    BY <1>1, Own
  <1>8. QED
    BY <1>2, <1>3, <1>4, <1>5, <1>6, <1>7 DEF C!Load

LEMMA RecordDatasetLists ==
  ASSUME IInv, NEW w \in Workers, RecordDataset(w)
  PROVE  C!List(tbl[w])
  <1> DEFINE p == Home[w]  t == tbl[w]  d == WithDataset(db, t, got[w])
  <1>1. /\ pc[w] = "record" /\ conn[p] = "auto"
        /\ db.kind[t] = "data" /\ db.count[t] = 0
        /\ got[w] > 0 /\ db.rows[t] = got[w]
    BY Own DEF RecordDataset, IngestOK, Owning
  <1>2. db' = d
    BY <1>1 DEF RecordDataset, WriteAndCommit, Publish, Seen, NotPinned
  <1>3. /\ d.kind = db.kind /\ d.rows = db.rows
        /\ d.count = [db.count EXCEPT ![t] = got[w]]
    BY Own, WithDatasetFacts
  <1>4. RowsOf(db)' = RowsOf(db) /\ RowsOf(db)[t] = got[w]
    BY <1>1, <1>2, <1>3, Own DEF RowsOf
  <1>5. QED
    BY <1>1, <1>2, <1>3, <1>4 DEF C!List

\* Every other statement either commits nothing or something not shown.
LEMMA OtherStepsStutter ==
  ASSUME IInv, NEW w \in Workers, Step(w), ~FinishRows(w), ~RecordDataset(w)
  PROVE  UNCHANGED C!vars
  <1> DEFINE p == Home[w]  t == tbl[w]  s == Seen(p)
  <1>1. CASE db' = db
    BY <1>1, UnseenStutters DEF Unseen
  <1>2. ASSUME pc[w] # "idle", pc[w] # "insert", CanWrite(p)
        PROVE  Unseen(s) /\ s \in Content
    BY <1>2, SeenUnseen, Own
  <1>3. CASE CreateTable(w)
    <2>1. s.kind[t] = "none" /\ FileOK(s) /\ Unseen(s) /\ db' = WithTable(s, t)
          /\ db.kind[t] = "none"
      BY <1>2, <1>3, Own, SeenPending
         DEF CreateTable, WriteAndCommit, Publish, TableExists
    <2>2. Unseen(WithTable(s, t))
      BY <2>1, Own, FtsNameType, WithTableFacts DEF Unseen, FileOK
    <2>3. QED  BY <2>1, <2>2, UnseenStutters
  <1>4. CASE DropTable(w)
    <2>1. db' = WithoutTable(db, t) /\ db.rows[t] = 0 /\ db.kind[t] = "data"
      BY <1>4, Own DEF DropTable, WriteAndCommit, Publish, IngestOK, Owning,
                       Seen, NotPinned
    <2>2. Unseen(WithoutTable(db, t))
      BY <2>1, Own, FtsNameType, WithoutTableFacts DEF Unseen
    <2>3. QED  BY <2>1, <2>2, UnseenStutters
  <1>5. CASE CreateIndex(w) /\ conn[p] = "auto"
    <2>1. s.kind[FtsName[t]] = "none" /\ Unseen(s) /\ db' = WithIndex(s, t)
          /\ s = db
      BY <1>2, <1>5, Own
         DEF CreateIndex, WriteDDL, WriteAndCommit, Publish, IsEnabled,
             TableExists, Seen, NotPinned
    <2>2. Unseen(WithIndex(s, t))
      BY <2>1, Own, FtsNameType, WithIndexFacts DEF Unseen
    <2>3. QED  BY <2>1, <2>2, UnseenStutters
  <1>6. CASE CreateTriggers(w)
    <2>1. Unseen(s) /\ db' = WithTriggers(s, t)
      BY <1>2, <1>6, Own DEF CreateTriggers, WriteAndCommit, Publish
    <2>2. Unseen(WithTriggers(s, t))
      BY <2>1, Own, WithTriggersFacts DEF Unseen
    <2>3. QED  BY <2>1, <2>2, UnseenStutters
  <1>7. QED
    BY <1>1, <1>3, <1>4, <1>5, <1>6
       DEF Step, IngestStep, EnableStep, CheckAbsent, SampleFails,
           CreateTableFails, InsertBatch, InsertFails, DropFails, RecordFails,
           GetSchema, CheckEnabled, CreateIndex, CreateIndexFails, FillIndex,
           FillIndexFails, CreateTriggersFail, Read, Write, Rollback, Abandon,
           TimeOutDML, WriteDDL, conVars

\* The store implements the abstract catalog: datasets appear whole, under a
\* free name, are listed once with the rows they have, and never change.
THEOREM StoreImplementsCatalog == Spec => ImplementsCatalog
  <1>1. Init => C!Init
    BY FtsNameType DEF Init, DatabaseInit, EmptyContent, C!Init, RowsOf
  <1>2. TypeOK /\ OneCallPerProcess /\ ConnInv /\ DataInv /\ [Next]_vars
          => [C!Next]_(C!vars)
    <2> SUFFICES ASSUME IInv, [Next]_vars  PROVE [C!Next]_(C!vars)
      BY DEF IInv
    <2>1. ASSUME NEW w \in Workers, Step(w)  PROVE [C!Next]_(C!vars)
      <3>1. tbl[w] \in Names
        BY Own
      <3>2. CASE FinishRows(w)
        BY <3>1, <3>2, FinishRowsLoads DEF C!Next
      <3>3. CASE RecordDataset(w)
        BY <3>1, <3>3, RecordDatasetLists DEF C!Next
      <3>4. QED  BY <2>1, <3>2, <3>3, OtherStepsStutter
    <2>2. ASSUME NEW w \in Workers, Call(w)  PROVE UNCHANGED C!vars
      <3>1. db' = db
        BY <2>2 DEF Call, StartIngest, StartEnable, Search, DescribeTable,
                    ListDatasets, Enter, ReadOnly, Read, conVars
      <3>2. QED  BY <3>1, UnseenStutters DEF Unseen
    <2>3. ASSUME NEW p \in Procs, Crash(p)  PROVE UNCHANGED C!vars
      BY <2>3, UnseenStutters DEF Crash, Abandon, Unseen
    <2>4. CASE UNCHANGED vars
      BY <2>4, UnseenStutters DEF vars, Unseen
    <2>5. QED  BY <2>1, <2>2, <2>3, <2>4 DEF Next
  <1>3. QED
    BY <1>1, <1>2, TypeCorrect, CallsExclude, ConnectionsCorrect, DataCorrect,
       PTL DEF Spec, ImplementsCatalog, C!Spec

-----------------------------------------------------------------------------
(* The search index. *)

\* What w's next statement sees, if w can write: a content in sync, in which
\* the index that another call is about to fill is untouched.
LEMMA SeenIndex ==
  ASSUME IInv, IndexInv, NEW w \in Workers, pc[w] # "idle", CanWrite(Home[w])
  PROVE  /\ FileOK(Seen(Home[w])) /\ Synced(Seen(Home[w]))
         /\ \A v \in Others(w) :
              /\ pc[v] # "triggers"
              /\ pc[v] = "fill" => /\ conn[Home[v]] = "auto"
                                   /\ Fresh(Seen(Home[w]), tbl[v])
  <1> DEFINE p == Home[w]
  <1>1. p \in Procs /\ FileOK(db) /\ PendingOK(p)
    BY Own
  <1>2. conn[p] # "writing" => Seen(p) = db
    BY <1>1, SeenCommitted DEF CanWrite
  <1>3. conn[p] = "writing" => Seen(p) = view[p]
    BY DEF Seen, NotPinned
  <1>4. FileOK(Seen(p)) /\ Synced(Seen(p))
    BY <1>1, <1>2, <1>3 DEF PendingOK, IndexInv
  <1>5. ASSUME NEW v \in Others(w)
        PROVE  /\ pc[v] # "triggers"
               /\ pc[v] = "fill" => conn[Home[v]] = "auto" /\ Fresh(Seen(p), tbl[v])
    <2>1. v \in Workers /\ Home[v] \in Procs /\ EnableOK(v) /\ FillOK(v)
      BY Own DEF Others, IndexInv
    <2>2. pc[v] # "idle" => Home[v] # p
      BY <2>1 DEF IInv, OneCallPerProcess, Others
    <2>3. pc[v] # "idle" => conn[Home[v]] # "writing"
      BY <2>1, <2>2 DEF CanWrite
    <2>4. pc[v] # "triggers"
      BY <2>1, <2>3 DEF EnableOK
    <2>5. CASE pc[v] = "fill"
      <3>1. conn[Home[v]] = "auto" /\ Fresh(db, tbl[v])
        BY <2>1, <2>3, <2>5 DEF FillOK, Seen, NotPinned
      <3>2. conn[p] = "writing" => Fresh(view[p], tbl[v])
        BY <1>1, <2>1, <2>5, <3>1 DEF FillOK
      <3>3. QED  BY <1>2, <1>3, <2>4, <3>1, <3>2
    <2>6. QED  BY <2>4, <2>5
  <1>6. QED  BY <1>4, <1>5

\* A step that writes d, pending or committed: it is enough that d is in sync
\* and leaves alone the index that another call is about to fill.
LEMMA WriteIndex ==
  ASSUME IInv, IndexInv, NEW w \in Workers, pc[w] # "idle",
         CanWrite(Home[w]), NEW d,
         Write(Home[w], d) \/ Publish(Home[w], d), Synced(d),
         \A v \in Others(w) : /\ ControlKept(v)
                              /\ pc[v] = "fill" => Fresh(d, tbl[v]),
         OneFiller', FillOK(w)'
  PROVE  IndexInv'
  <1> DEFINE p == Home[w]
  <1>1. p \in Procs /\ TypeOK /\ DatabaseTypeOK
    BY Own
  <1>2. ConnsKept(p)
    BY <1>1, QuietConns, PublishConns
  <1>3. \/ db' = db /\ conn'[p] = "writing" /\ view'[p] = d
        \/ db' = d /\ conn'[p] = "auto"
    BY <1>1, PublishConns DEF Write, DatabaseTypeOK
  <1>4. \A q \in Procs \ {p} : conn[q] # "writing" /\ conn'[q] # "writing"
    BY <1>2 DEF CanWrite, ConnsKept
  <1>5. Synced(db)'
    BY <1>3 DEF IndexInv, Synced
  <1>6. \A q \in Procs : conn'[q] = "writing" => Synced(view[q])'
    BY <1>3, <1>4 DEF Synced
  <1>7. ASSUME NEW v \in Others(w)  PROVE FillOK(v)'
    <2>1. v \in Workers /\ ControlKept(v) /\ Home[v] \in Procs
      BY Own DEF Others
    <2>2. pc'[v] # "triggers"
      BY <2>1, SeenIndex DEF ControlKept
    <2>3. CASE pc'[v] = "fill"
      <3>1. /\ pc[v] = "fill" /\ tbl'[v] = tbl[v]
            /\ conn[Home[v]] = "auto" /\ Fresh(d, tbl[v]) /\ FillOK(v)
        BY <2>1, <2>3, SeenIndex DEF ControlKept, IndexInv
      <3>2. Home[v] # p
        BY <3>1 DEF IInv, OneCallPerProcess, Others
      <3>3. conn'[Home[v]] = "auto"
        BY <1>2, <2>1, <3>1, <3>2 DEF ConnsKept
      <3>4. Fresh(db', tbl[v])
        BY <1>3, <3>1 DEF FillOK, Seen, NotPinned
      <3>5. \A q \in Procs : conn'[q] = "writing" => Fresh(view'[q], tbl[v])
        BY <1>3, <1>4, <3>1
      <3>6. QED
        BY <2>3, <3>1, <3>3, <3>4, <3>5 DEF FillOK, Seen, NotPinned, Fresh
    <2>4. QED  BY <2>2, <2>3 DEF FillOK
  <1>8. QED  BY <1>5, <1>6, <1>7 DEF IndexInv, Others

\* A step that writes nothing.
LEMMA QuietIndex ==
  ASSUME IInv, IndexInv, NEW p \in Procs, db' = db, ConnsKept(p),
         conn'[p] = "writing" => conn[p] = "writing" /\ view'[p] = view[p],
         \A v \in Workers : \/ pc'[v] \notin {"fill", "triggers"}
                            \/ ControlKept(v) /\ Home[v] # p
  PROVE  IndexInv'
  <1>1. \A q \in Procs : conn'[q] = "writing" =>
           conn[q] = "writing" /\ view'[q] = view[q]
    BY DEF ConnsKept
  <1>2. Synced(db)' /\ \A q \in Procs : conn'[q] = "writing" => Synced(view[q])'
    BY <1>1 DEF IndexInv, Synced
  <1>3. OneFiller'
    BY DEF IndexInv, OneFiller, ControlKept
  <1>4. ASSUME NEW v \in Workers  PROVE FillOK(v)'
    <2>1. CASE pc'[v] \notin {"fill", "triggers"}
      BY <2>1 DEF FillOK
    <2>2. CASE pc'[v] \in {"fill", "triggers"}
      <3>1. /\ Home[v] \in Procs \ {p} /\ FillOK(v) /\ EnableOK(v)
            /\ pc'[v] = pc[v] /\ tbl'[v] = tbl[v]
        BY <2>2, Own DEF ControlKept, IndexInv
      <3>2. conn[Home[v]] \in {"auto", "writing"}
        BY <2>2, <3>1 DEF FillOK, EnableOK
      <3>3. conn'[Home[v]] = conn[Home[v]] /\ view'[Home[v]] = view[Home[v]]
        BY <3>1, <3>2 DEF ConnsKept
      <3>4. Seen(Home[v])' = Seen(Home[v])
        BY <3>3 DEF Seen, NotPinned
      <3>5. QED
        BY <1>1, <2>2, <3>1, <3>3, <3>4 DEF FillOK, Fresh
    <2>3. QED  BY <2>1, <2>2
  <1>5. QED  BY <1>2, <1>3, <1>4 DEF IndexInv

\* A call that leaves the building of the index, or is elsewhere.
LEMMA NotFiller ==
  ASSUME IndexInv, NEW w \in Workers, \A v \in Others(w) : ControlKept(v),
         pc'[w] \notin {"fill", "triggers"}
  PROVE  OneFiller' /\ FillOK(w)'
  <1>1. OneFiller'
    BY DEF IndexInv, OneFiller, ControlKept, Others
  <1>2. QED  BY <1>1 DEF FillOK

LEMMA CreateTableIndex ==
  ASSUME IInv, IndexInv, NEW w \in Workers, CreateTable(w)
  PROVE  IndexInv'
  <1> DEFINE p == Home[w]  t == tbl[w]  s == Seen(p)  d == WithTable(s, t)
  <1>1. pc[w] = "sample" /\ CanWrite(p) /\ Publish(p, d) /\ s.kind[t] = "none"
    BY DEF CreateTable, WriteAndCommit, TableExists
  <1>2. pc'[w] = "insert" /\ \A v \in Others(w) : ControlKept(v)
    BY ControlOthers DEF CreateTable, Goto, IInv, TypeOK
  <1>3. /\ d.rows = s.rows /\ d.trig = s.trig
        /\ \A x \in AllNames : d.kind[x] = IF x = t THEN "data" ELSE s.kind[x]
    BY Own, WithTableFacts
  <1>4. /\ Synced(s)
        /\ \A v \in Others(w) : pc[v] = "fill" => Fresh(s, tbl[v])
    BY <1>1, SeenIndex
  <1>5. Synced(d)
    BY <1>1, <1>3, <1>4, Own, FtsNameType DEF Synced, Content
  <1>6. \A v \in Others(w) : pc[v] = "fill" => Fresh(d, tbl[v])
    BY <1>1, <1>3, <1>4, Own, FtsNameType DEF Fresh, Others
  <1>7. QED
    BY <1>1, <1>2, <1>5, <1>6, NotFiller, WriteIndex

\* The insert trigger keeps an index in step; no other call's index is touched,
\* because it is no table that an ingest loads and has no triggers yet.
LEMMA InsertBatchIndex ==
  ASSUME IInv, IndexInv, NEW w \in Workers, InsertBatch(w)
  PROVE  IndexInv'
  <1> DEFINE p == Home[w]  t == tbl[w]  s == Seen(p)  d == WithBatch(s, t)
  <1>1. pc[w] = "insert" /\ Write(p, d) /\ CanWrite(p)
    BY DEF InsertBatch, Write
  <1>2. pc'[w] = "insert" /\ \A v \in Others(w) : ControlKept(v)
    BY <1>1 DEF InsertBatch, IInv, TypeOK, ControlKept, Others
  <1>3. /\ d.kind = s.kind /\ d.trig = s.trig
        /\ \A x \in AllNames : d.rows[x] =
              IF x = t \/ (t \in s.trig /\ x = FtsName[t])
              THEN s.rows[x] + 1 ELSE s.rows[x]
    BY Own, WithBatchFacts
  <1>4. /\ FileOK(s) /\ Synced(s)
        /\ \A v \in Others(w) : pc[v] = "fill" => Fresh(s, tbl[v])
    BY <1>1, SeenIndex
  <1>5. s.kind[t] = "data"
    BY <1>1, Own DEF IngestOK, Owning, PendingOK, Seen, NotPinned
  <1>6. Synced(d)
    <2> SUFFICES ASSUME NEW u \in s.trig
                 PROVE  d.kind[u] = "data" /\ d.rows[FtsName[u]] = d.rows[u]
      BY <1>3 DEF Synced
    <2>1. /\ u \in Names /\ u \in AllNames /\ FtsName[u] \in AllNames
          /\ FtsName[u] # u /\ (FtsName[u] = FtsName[t] => u = t)
      BY Own, FtsNameType, FtsNameAssumption DEF Content
    <2>2. /\ s.kind[u] = "data" /\ s.rows[FtsName[u]] = s.rows[u]
          /\ s.kind[FtsName[u]] = "fts"
      BY <1>4 DEF Synced, FileOK
    <2>3. FtsName[t] \in s.trig => s.kind[FtsName[t]] = "data"
      BY <1>4 DEF Synced
    <2>4. t \in s.trig => s.kind[FtsName[t]] = "fts"
      BY <1>4 DEF FileOK
    <2> HIDE DEF d, s
    <2>5. QED  BY <1>3, <1>5, <2>1, <2>2, <2>3, <2>4
  <1>7. ASSUME NEW v \in Others(w), pc[v] = "fill"
        PROVE  Fresh(d, tbl[v])
    <2>1. /\ tbl[v] \in Names /\ FtsName[tbl[v]] \in AllNames
          /\ (FtsName[tbl[v]] = FtsName[t] => tbl[v] = t)
      BY Own, FtsNameAssumption DEF Others
    <2>2. Fresh(s, tbl[v])
      BY <1>4, <1>7
    <2> HIDE DEF d, s
    <2>3. QED  BY <1>3, <1>5, <2>1, <2>2 DEF Fresh
  <1>8. QED
    BY <1>1, <1>2, <1>6, <1>7, NotFiller, WriteIndex

LEMMA FinishRowsIndex ==
  ASSUME IInv, IndexInv, NEW w \in Workers, FinishRows(w)
  PROVE  IndexInv'
  <1> DEFINE p == Home[w]
  <1>1. pc[w] = "insert" /\ conn[p] = "writing" /\ CanWrite(p) /\ Publish(p, view[p])
    BY Own DEF FinishRows, IngestOK, Owning, Commit, CanWrite, IInv, ConnInv
  <1>2. pc'[w] = "record" /\ \A v \in Others(w) : ControlKept(v)
    BY ControlOthers DEF FinishRows, Goto, IInv, TypeOK
  <1>3. Seen(p) = view[p]
    BY <1>1 DEF Seen, NotPinned
  <1>4. /\ Synced(view[p])
        /\ \A v \in Others(w) : pc[v] = "fill" => Fresh(view[p], tbl[v])
    BY <1>1, <1>3, SeenIndex
  <1>5. QED  BY <1>1, <1>2, <1>4, NotFiller, WriteIndex

\* A table takes its triggers with it, and no index is dropped.
LEMMA DropTableIndex ==
  ASSUME IInv, IndexInv, NEW w \in Workers, DropTable(w)
  PROVE  IndexInv'
  <1> DEFINE p == Home[w]  t == tbl[w]  d == WithoutTable(db, t)
  <1>1. /\ pc[w] = "drop" /\ CanWrite(p) /\ Publish(p, d)
        /\ db.kind[t] = "data" /\ Seen(p) = db
    BY Own DEF DropTable, WriteAndCommit, IngestOK, Owning, Seen, NotPinned
  <1>2. pc'[w] = "idle" /\ \A v \in Others(w) : ControlKept(v)
    BY ControlOthers DEF DropTable, Answer, IInv, TypeOK
  <1>3. /\ d.trig = db.trig \ {t}
        /\ \A x \in AllNames :
             /\ d.kind[x] = IF x = t THEN "none" ELSE db.kind[x]
             /\ d.rows[x] = IF x = t THEN 0 ELSE db.rows[x]
    BY Own, WithoutTableFacts
  <1>4. /\ FileOK(db) /\ Synced(db)
        /\ \A v \in Others(w) : pc[v] = "fill" => Fresh(db, tbl[v])
    BY <1>1, SeenIndex
  <1>5. Synced(d)
    <2> SUFFICES ASSUME NEW u \in db.trig \ {t}
                 PROVE  d.kind[u] = "data" /\ d.rows[FtsName[u]] = d.rows[u]
      BY <1>3 DEF Synced
    <2>1. u \in Names /\ u \in AllNames /\ FtsName[u] \in AllNames
      BY Own, FtsNameType DEF Content
    <2>2. /\ db.kind[u] = "data" /\ db.rows[FtsName[u]] = db.rows[u]
          /\ db.kind[FtsName[u]] = "fts"
      BY <1>4 DEF Synced, FileOK
    <2> HIDE DEF d
    <2>3. QED  BY <1>1, <1>3, <2>1, <2>2
  <1>6. \A v \in Others(w) : pc[v] = "fill" => Fresh(d, tbl[v])
    BY <1>1, <1>3, <1>4, Own, FtsNameType DEF Fresh, Others
  <1>7. QED
    BY <1>1, <1>2, <1>5, <1>6, NotFiller, WriteIndex

LEMMA RecordDatasetIndex ==
  ASSUME IInv, IndexInv, NEW w \in Workers, RecordDataset(w)
  PROVE  IndexInv'
  <1> DEFINE p == Home[w]  t == tbl[w]  s == Seen(p)
             d == WithDataset(s, t, got[w])
  <1>1. pc[w] = "record" /\ CanWrite(p) /\ Publish(p, d)
    BY DEF RecordDataset, WriteAndCommit
  <1>2. pc'[w] = "idle" /\ \A v \in Others(w) : ControlKept(v)
    BY ControlOthers DEF RecordDataset, Answer, IInv, TypeOK
  <1>3. d.kind = s.kind /\ d.rows = s.rows /\ d.trig = s.trig
    <2>1. s \in Content /\ t \in Names /\ got[w] \in Nat
      BY Own
    <2> HIDE DEF s, t
    <2>2. QED  BY <2>1, WithDatasetFacts
  <1>4. /\ Synced(s)
        /\ \A v \in Others(w) : pc[v] = "fill" => Fresh(s, tbl[v])
    BY <1>1, SeenIndex
  <1>5. Synced(d) /\ \A v \in Others(w) : pc[v] = "fill" => Fresh(d, tbl[v])
    BY <1>3, <1>4 DEF Synced, Fresh
  <1>6. QED  BY <1>1, <1>2, <1>5, NotFiller, WriteIndex

\* The name was free, so no other call is building this index.
LEMMA CreateIndexIndex ==
  ASSUME IInv, IndexInv, NEW w \in Workers, CreateIndex(w)
  PROVE  IndexInv'
  <1> DEFINE p == Home[w]  t == tbl[w]  s == Seen(p)  d == WithIndex(s, t)
  <1>1. /\ pc[w] = "index" /\ CanWrite(p) /\ s.kind[FtsName[t]] = "none"
        /\ \/ conn[p] = "auto" /\ Publish(p, d)
           \/ conn[p] # "auto" /\ Write(p, d)
    <2>1. WriteDDL(p, d) /\ pc[w] = "index" /\ ~IsEnabled(s, t)
      BY DEF CreateIndex
    <2>2. CanWrite(p) /\ s.kind[FtsName[t]] = "none"
      BY <2>1 DEF WriteDDL, WriteAndCommit, Write, IsEnabled, TableExists
    <2> HIDE DEF d, s
    <2>3. QED  BY <2>1, <2>2 DEF WriteDDL, WriteAndCommit
  <1>2. /\ pc'[w] = "fill" /\ tbl' = tbl
        /\ \A v \in Others(w) : ControlKept(v)
    BY ControlOthers DEF CreateIndex, Goto, IInv, TypeOK
  <1>3. /\ d.rows = s.rows /\ d.trig = s.trig
        /\ \A x \in AllNames : d.kind[x] =
             IF x = FtsName[t] THEN "fts" ELSE s.kind[x]
    BY Own, WithIndexFacts
  <1>4. /\ FileOK(s) /\ Synced(s)
        /\ \A v \in Others(w) : /\ pc[v] # "triggers"
                                /\ pc[v] = "fill" => Fresh(s, tbl[v])
    BY <1>1, SeenIndex
  <1>5. Synced(d)
    <2> SUFFICES ASSUME NEW u \in s.trig
                 PROVE  d.kind[u] = "data" /\ d.rows[FtsName[u]] = d.rows[u]
      BY <1>3 DEF Synced
    <2>1. u \in Names /\ u \in AllNames
      BY Own, FtsNameType DEF Content
    <2>2. s.kind[u] = "data" /\ s.rows[FtsName[u]] = s.rows[u]
      BY <1>4 DEF Synced
    <2> HIDE DEF d, s
    <2>3. QED  BY <1>1, <1>3, <2>1, <2>2
  <1>6. \A v \in Others(w) : pc[v] = "fill" => Fresh(d, tbl[v]) /\ tbl[v] # t
    <2> SUFFICES ASSUME NEW v \in Others(w), pc[v] = "fill"
                 PROVE  Fresh(d, tbl[v]) /\ tbl[v] # t
      OBVIOUS
    <2>1. Fresh(s, tbl[v])
      BY <1>4
    <2>2. /\ tbl[v] \in Names /\ tbl[v] \in AllNames
          /\ FtsName[tbl[v]] \in AllNames
      BY Own, FtsNameType DEF Others
    <2> HIDE DEF d, s
    <2>3. QED  BY <1>1, <1>3, <2>1, <2>2 DEF Fresh
  <1>7. OneFiller'
    BY <1>2, <1>4, <1>6 DEF IndexInv, OneFiller, ControlKept, Others
  <1>8. Fresh(d, t)
    BY <1>1, <1>3, <1>4, Own DEF Fresh, FileOK
  <1>9. FillOK(w)'
    <2>1. \/ conn'[p] = "auto" /\ db' = d
          \/ conn'[p] = "writing" /\ view'[p] = d
      BY <1>1, Own, PublishConns DEF Write, DatabaseTypeOK
    <2>2. Seen(p)' = d
      BY <2>1 DEF Seen, NotPinned
    <2>3. conn'[p] = "auto" => \A q \in Procs : conn'[q] # "writing"
      BY <1>1, <2>1, Own, PublishConns, QuietConns DEF ConnsKept, CanWrite
    <2>4. QED  BY <1>2, <1>8, <2>1, <2>2, <2>3 DEF FillOK, Fresh
  <1>10. QED
    BY <1>1, <1>2, <1>5, <1>6, <1>7, <1>9, WriteIndex

\* The index was empty, so it now holds what the table holds.
LEMMA FillIndexIndex ==
  ASSUME IInv, IndexInv, NEW w \in Workers, FillIndex(w)
  PROVE  IndexInv'
  <1> DEFINE p == Home[w]  t == tbl[w]  s == Seen(p)  d == WithIndexFilled(s, t)
  <1>1. pc[w] = "fill" /\ CanWrite(p) /\ Write(p, d)
    BY DEF FillIndex, Write
  <1>2. /\ pc'[w] = "triggers" /\ tbl' = tbl
        /\ \A v \in Others(w) : ControlKept(v)
    BY ControlOthers DEF FillIndex, Goto, IInv, TypeOK
  <1>3. /\ d.kind = s.kind /\ d.trig = s.trig
        /\ d.rows[FtsName[t]] = s.rows[FtsName[t]] + s.rows[t]
        /\ \A x \in AllNames : x # FtsName[t] => d.rows[x] = s.rows[x]
    BY Own, WithIndexFilledFacts
  <1>4. /\ FileOK(s) /\ Synced(s) /\ Fresh(s, t)
        /\ \A v \in Others(w) : pc[v] = "fill" => Fresh(s, tbl[v])
    BY <1>1, SeenIndex DEF IndexInv, FillOK
  <1>5. Synced(d)
    <2> SUFFICES ASSUME NEW u \in s.trig
                 PROVE  d.kind[u] = "data" /\ d.rows[FtsName[u]] = d.rows[u]
      BY <1>3 DEF Synced
    <2>1. /\ u \in Names /\ u \in AllNames /\ FtsName[u] \in AllNames
          /\ (FtsName[u] = FtsName[t] => u = t)
      BY Own, FtsNameType, FtsNameAssumption DEF Content
    <2>2. s.kind[u] = "data" /\ s.rows[FtsName[u]] = s.rows[u]
      BY <1>4 DEF Synced
    <2> HIDE DEF d, s
    <2>3. QED  BY <1>3, <1>4, <2>1, <2>2 DEF Fresh
  <1>6. \A v \in Others(w) : pc[v] = "fill" => Fresh(d, tbl[v])
    <2> SUFFICES ASSUME NEW v \in Others(w), pc[v] = "fill"
                 PROVE  Fresh(d, tbl[v])
      OBVIOUS
    <2>1. tbl[v] # t /\ tbl[v] \in Names /\ FtsName[tbl[v]] \in AllNames
      BY <1>1, Own DEF IndexInv, OneFiller, Others
    <2>2. FtsName[tbl[v]] # FtsName[t]
      BY <2>1, Own, FtsNameAssumption
    <2>3. QED  BY <1>3, <1>4, <2>1, <2>2 DEF Fresh
  <1>7. OneFiller'
    BY <1>1, <1>2 DEF IndexInv, OneFiller, ControlKept, Others
  <1>8. FillOK(w)'
    <2>1. view'[p] = d
      BY <1>1, Own DEF Write, DatabaseTypeOK
    <2>2. d.rows[FtsName[t]] = d.rows[t]
      BY <1>3, <1>4, Own DEF Fresh, Content
    <2>3. QED  BY <1>2, <2>1, <2>2 DEF FillOK
  <1>9. QED
    BY <1>1, <1>2, <1>5, <1>6, <1>7, <1>8, WriteIndex

LEMMA CreateTriggersIndex ==
  ASSUME IInv, IndexInv, NEW w \in Workers, CreateTriggers(w)
  PROVE  IndexInv'
  <1> DEFINE p == Home[w]  t == tbl[w]  s == Seen(p)  d == WithTriggers(s, t)
  <1>1. /\ pc[w] = "triggers" /\ s.kind[t] = "data"
        /\ CanWrite(p) /\ Publish(p, d)
    BY DEF CreateTriggers, WriteAndCommit
  <1>2. pc'[w] = "idle" /\ \A v \in Others(w) : ControlKept(v)
    BY ControlOthers DEF CreateTriggers, Answer, IInv, TypeOK
  <1>3. d.kind = s.kind /\ d.rows = s.rows /\ d.trig = s.trig \cup {t}
    BY Own, WithTriggersFacts
  <1>4. /\ Synced(s)
        /\ \A v \in Others(w) : pc[v] = "fill" => Fresh(s, tbl[v])
    BY <1>1, SeenIndex
  <1>5. s.rows[FtsName[t]] = s.rows[t]
    BY <1>1, Own DEF IndexInv, FillOK, EnableOK, Seen, NotPinned
  <1>6. Synced(d)
    BY <1>1, <1>3, <1>4, <1>5 DEF Synced
  <1>7. \A v \in Others(w) : pc[v] = "fill" => Fresh(d, tbl[v])
    BY <1>1, <1>3, <1>4 DEF Fresh, IndexInv, OneFiller, Others
  <1>8. QED
    BY <1>1, <1>2, <1>6, <1>7, NotFiller, WriteIndex

\* Every other statement of a call writes what it sees, or nothing.
LEMMA OtherStepsIndex ==
  ASSUME IInv, IndexInv, NEW w \in Workers, pc[w] # "idle",
         \/ Read(Home[w]) \/ TimeOutDML(Home[w]) \/ UNCHANGED conVars
         \/ Abandon(Home[w]) \/ Write(Home[w], Seen(Home[w])),
         \/ \E r : Answer(w, r)
         \/ \E n : Goto(w, n) /\ n \notin {"fill", "triggers"}
  PROVE  IndexInv'
  <1> DEFINE p == Home[w]
  <1>1. /\ p \in Procs /\ TypeOK /\ DatabaseTypeOK
        /\ \A v \in Others(w) : ControlKept(v)
        /\ pc'[w] \notin {"fill", "triggers"}
    BY Own, ControlOthers DEF Answer, Goto, TypeOK
  <1>2. CASE Write(p, Seen(p))
    <2>1. CanWrite(p)
      BY <1>2 DEF Write
    <2>2. QED  BY <1>1, <1>2, <2>1, SeenIndex, NotFiller, WriteIndex
  <1>3. CASE ~Write(p, Seen(p))
    <2>1. ConnsKept(p) /\ db' = db
      BY <1>1, <1>3, QuietConns
    <2>2. conn'[p] = "writing" => conn[p] = "writing" /\ view'[p] = view[p]
      BY <1>1, <1>3 DEF DatabaseTypeOK, Read, TimeOutDML, conVars, Abandon
    <2>3. \A v \in Others(w) : pc'[v] \in {"fill", "triggers"} => Home[v] # p
      BY <1>1 DEF IInv, OneCallPerProcess, Others, ControlKept
    <2>4. QED  BY <1>1, <2>1, <2>2, <2>3, QuietIndex DEF Others
  <1>4. QED  BY <1>2, <1>3

\* Every statement of a call keeps the index invariant.
LEMMA StepKeepsIndex ==
  ASSUME IInv, IndexInv, NEW w \in Workers, Step(w)
  PROVE  IndexInv'
  <1>1. CASE CheckAbsent(w) \/ SampleFails(w) \/ CreateTableFails(w)
             \/ InsertFails(w) \/ DropFails(w) \/ RecordFails(w)
    BY <1>1, OtherStepsIndex
       DEF CheckAbsent, SampleFails, CreateTableFails, InsertFails, Rollback,
           DropFails, RecordFails
  <1>2. CASE GetSchema(w) \/ CheckEnabled(w) \/ CreateIndexFails(w)
             \/ FillIndexFails(w) \/ CreateTriggersFail(w)
    BY <1>2, OtherStepsIndex
       DEF GetSchema, CheckEnabled, CreateIndexFails, FillIndexFails,
           CreateTriggersFail
  <1>3. QED
    BY <1>1, <1>2, CreateTableIndex, InsertBatchIndex, FinishRowsIndex,
       DropTableIndex, RecordDatasetIndex, CreateIndexIndex, FillIndexIndex,
       CreateTriggersIndex DEF Step, IngestStep, EnableStep

LEMMA CallKeepsIndex ==
  ASSUME IInv, IndexInv, NEW w \in Workers, Call(w)
  PROVE  IndexInv'
  <1> DEFINE p == Home[w]
  <1>1. /\ Read(p) \/ UNCHANGED conVars
        /\ lock[p] = NoWorker
        /\ pc'[w] \notin {"fill", "triggers"}
        /\ \A v \in Others(w) : ControlKept(v)
    BY DEF Call, StartIngest, StartEnable, Search, DescribeTable,
           ListDatasets, Enter, ReadOnly, ControlKept, Others, IInv, TypeOK
  <1>2. p \in Procs /\ TypeOK /\ DatabaseTypeOK
    BY Own
  <1>3. ConnsKept(p) /\ db' = db
    BY <1>1, <1>2, QuietConns
  <1>4. conn'[p] = "writing" => conn[p] = "writing" /\ view'[p] = view[p]
    BY <1>1, <1>2 DEF DatabaseTypeOK, Read, conVars
  <1>5. \A v \in Others(w) : pc'[v] \in {"fill", "triggers"} => Home[v] # p
    BY <1>1, NoWorkerAssumption
       DEF IInv, OneCallPerProcess, Others, ControlKept
  <1>6. QED  BY <1>1, <1>2, <1>3, <1>4, <1>5, QuietIndex DEF Others

LEMMA CrashKeepsIndex ==
  ASSUME IInv, IndexInv, NEW p \in Procs, Crash(p)
  PROVE  IndexInv'
  <1>1. ConnsKept(p) /\ db' = db /\ conn'[p] = "auto"
    BY QuietConns DEF Crash, IInv, TypeOK, DatabaseTypeOK, Abandon
  <1>2. \A v \in Workers : \/ pc'[v] = "idle"
                           \/ ControlKept(v) /\ Home[v] # p
    BY DEF Crash, ControlKept
  <1>3. QED  BY <1>1, <1>2, QuietIndex

\* The index invariant holds in every reachable state: no crash, no other
\* process and no failing call takes an index out of step with its table.
THEOREM IndexCorrect == Spec => []IndexInv
  <1>1. Init => IndexInv
    BY DEF Init, DatabaseInit, EmptyContent, IndexInv, Synced, OneFiller, FillOK
  <1>2. TypeOK /\ OneCallPerProcess /\ ConnInv /\ DataInv /\ IndexInv
          /\ [Next]_vars => IndexInv'
    <2> SUFFICES ASSUME IInv, IndexInv, [Next]_vars  PROVE IndexInv'
      BY DEF IInv
    <2>1. CASE UNCHANGED vars
      BY <2>1 DEF vars, IndexInv, Synced, OneFiller, FillOK, Fresh, Seen,
                  NotPinned
    <2>2. QED
      BY <2>1, StepKeepsIndex, CallKeepsIndex, CrashKeepsIndex DEF Next
  <1>3. QED
    BY <1>1, <1>2, TypeCorrect, CallsExclude, ConnectionsCorrect, DataCorrect,
       PTL DEF Spec

\* The invariant that TLC checks as one.
THEOREM StoreInvCorrect == Spec => []StoreInv
  BY TypeCorrect, DataCorrect, IndexCorrect, PTL DEF StoreInv

\* A table with triggers is indexed row for row, whoever was loading it while
\* the index was built and wherever a call or a process failed.
THEOREM IndexInSyncCorrect == Spec => []IndexInSync
  <1>1. DataInv /\ IndexInv => IndexInSync
    BY DEF DataInv, FileOK, IndexInv, Synced, IndexInSync
  <1>2. QED  BY <1>1, DataCorrect, IndexCorrect, PTL

-----------------------------------------------------------------------------
(* One process alone. *)

\* No statement waits: whoever else has the lock on the file is the same
\* process, and a transaction that is open sees the triggers on file.
LEMMA AloneFacts ==
  ASSUME IInv, OneProcess, OneProcessInv, NEW w \in Workers, pc[w] # "idle"
  PROVE  /\ CanWrite(Home[w]) /\ Seen(Home[w]).trig = db.trig
         /\ conn[Home[w]] \in {"auto", "writing"}
         /\ \A v \in Workers : pc[v] # "idle" => v = w
  <1>1. Home[w] \in Procs /\ \A v \in Workers : Home[v] = Home[w]
    BY HomeAssumption DEF OneProcess
  <1>2. conn[Home[w]] \in {"auto", "writing"}
    BY <1>1 DEF OneProcessInv
  <1>3. CanWrite(Home[w])
    BY <1>1, <1>2 DEF OneProcess, CanWrite
  <1>4. Seen(Home[w]).trig = db.trig
    BY <1>1, <1>2 DEF OneProcessInv, Seen, NotPinned
  <1>5. \A v \in Workers : pc[v] # "idle" => v = w
    BY <1>1 DEF IInv, OneCallPerProcess
  <1>6. QED  BY <1>2, <1>3, <1>4, <1>5

\* What a statement of w has to keep: no table becomes unlisted but w's own,
\* w stays with the one it owns, and no trigger goes.
LEMMA AloneStep ==
  ASSUME IInv, OneProcess, OneProcessInv, NEW w \in Workers, pc[w] # "idle",
         \A v \in Others(w) : ControlKept(v), tbl' = tbl,
         conn'[Home[w]] \in {"auto", "writing"},
         conn'[Home[w]] = "writing" => view'[Home[w]].trig = db'.trig,
         \A t \in Names : db'.kind[t] = "data" /\ db'.count[t] = 0 =>
           \/ pc'[w] \in Owning /\ tbl[w] = t
           \/ /\ db.kind[t] = "data" /\ db.count[t] = 0
              /\ pc[w] \notin Owning \/ tbl[w] # t,
         db.trig \subseteq db'.trig,
         \A t \in db'.trig : db'.count[t] > 0,
         reply'[w] = "enabled" => tbl[w] \in db'.trig
  PROVE  OneProcessInv'
  <1>1. \A p \in Procs : p = Home[w]
    BY HomeAssumption DEF OneProcess
  <1>2. \A p \in Procs : /\ conn'[p] \in {"auto", "writing"}
                         /\ conn'[p] = "writing" => view'[p].trig = db'.trig
    BY <1>1
  <1>3. ASSUME NEW t \in Names, db'.kind[t] = "data", db'.count[t] = 0
        PROVE  \E v \in Workers : pc'[v] \in Owning /\ tbl'[v] = t
    <2>1. CASE pc'[w] \in Owning /\ tbl[w] = t
      BY <2>1
    <2>2. CASE ~(pc'[w] \in Owning /\ tbl[w] = t)
      <3>1. PICK v \in Workers : pc[v] \in Owning /\ tbl[v] = t
        BY <1>3, <2>2 DEF OneProcessInv
      <3>2. v # w
        BY <1>3, <2>2, <3>1
      <3>3. QED  BY <3>1, <3>2 DEF ControlKept, Others
    <2>3. QED  BY <2>1, <2>2
  <1>4. EnabledIsComplete'
    BY DEF OneProcessInv, EnabledIsComplete, ControlKept, Others
  <1>5. QED  BY <1>2, <1>3, <1>4 DEF OneProcessInv

\* Statements that commit nothing.
LEMMA AlonePending ==
  ASSUME IInv, OneProcess, OneProcessInv, NEW w \in Workers, pc[w] # "idle",
         \A v \in Others(w) : ControlKept(v), tbl' = tbl,
         \/ Read(Home[w]) \/ UNCHANGED conVars \/ Abandon(Home[w])
         \/ \E d : Write(Home[w], d) /\ d.trig = db.trig,
         pc[w] \in Owning => pc'[w] \in Owning,
         reply'[w] = "enabled" => reply[w] = "enabled"
  PROVE  OneProcessInv'
  <1> DEFINE p == Home[w]
  <1>1. p \in Procs /\ TypeOK /\ DatabaseTypeOK
    BY Own
  <1>2. db' = db
    BY <1>1, QuietConns
  <1>3. /\ conn'[p] \in {"auto", "writing"}
        /\ conn'[p] = "writing" => view'[p].trig = db.trig
    BY <1>1 DEF OneProcessInv, DatabaseTypeOK, Read, conVars, Abandon, Write
  <1>4. QED
    BY <1>2, <1>3, AloneStep DEF OneProcessInv, EnabledIsComplete

LEMMA AloneCreateTable ==
  ASSUME IInv, OneProcess, OneProcessInv, NEW w \in Workers, CreateTable(w)
  PROVE  OneProcessInv'
  <1> DEFINE p == Home[w]  t == tbl[w]  s == Seen(p)  d == WithTable(s, t)
  <1>1. pc[w] = "sample" /\ CanWrite(p) /\ Publish(p, d) /\ s.trig = db.trig
    BY AloneFacts DEF CreateTable, WriteAndCommit
  <1>2. /\ pc'[w] = "insert" /\ reply'[w] = reply[w] /\ tbl' = tbl
        /\ \A v \in Others(w) : ControlKept(v)
    BY ControlOthers DEF CreateTable, Goto, IInv, TypeOK
  <1>3. db' = d /\ conn'[p] = "auto"
    BY <1>1, Own, PublishConns
  <1>4. /\ d.trig = db.trig /\ d.count = db.count
        /\ \A x \in AllNames : x # t /\ d.kind[x] = "data" => db.kind[x] = "data"
    BY <1>1, Own, WithTableFacts, SeenPending
  <1>5. \A u \in Names : db'.kind[u] = "data" /\ db'.count[u] = 0 =>
           \/ pc'[w] \in Owning /\ t = u
           \/ /\ db.kind[u] = "data" /\ db.count[u] = 0
              /\ pc[w] \notin Owning \/ t # u
    BY <1>1, <1>2, <1>3, <1>4, FtsNameType DEF Owning
  <1>6. QED
    BY <1>1, <1>2, <1>3, <1>4, <1>5, AloneStep
       DEF OneProcessInv, EnabledIsComplete

LEMMA AloneFinishRows ==
  ASSUME IInv, OneProcess, OneProcessInv, NEW w \in Workers, FinishRows(w)
  PROVE  OneProcessInv'
  <1> DEFINE p == Home[w]  t == tbl[w]  d == view[p]
  <1>1. /\ pc[w] = "insert" /\ conn[p] = "writing" /\ Publish(p, d)
        /\ d.trig = db.trig
    BY Own DEF FinishRows, IngestOK, Owning, Commit, OneProcessInv
  <1>2. /\ pc'[w] = "record" /\ reply'[w] = reply[w] /\ tbl' = tbl
        /\ \A v \in Others(w) : ControlKept(v)
    BY ControlOthers DEF FinishRows, Goto, IInv, TypeOK
  <1>3. db' = d /\ conn'[p] = "auto"
    BY <1>1, Own, PublishConns
  <1>4. /\ d.count = db.count
        /\ \A x \in AllNames : d.kind[x] = "data" => db.kind[x] = "data"
    BY <1>1, Own DEF PendingOK
  <1>5. \A u \in Names : db'.kind[u] = "data" /\ db'.count[u] = 0 =>
           \/ pc'[w] \in Owning /\ t = u
           \/ /\ db.kind[u] = "data" /\ db.count[u] = 0
              /\ pc[w] \notin Owning \/ t # u
    BY <1>1, <1>2, <1>3, <1>4, FtsNameType DEF Owning
  <1>6. QED
    BY <1>1, <1>2, <1>3, <1>4, <1>5, AloneStep
       DEF OneProcessInv, EnabledIsComplete

\* The table that an ingest drops is unlisted, so it has no triggers to lose.
LEMMA AloneDropTable ==
  ASSUME IInv, OneProcess, OneProcessInv, NEW w \in Workers, DropTable(w)
  PROVE  OneProcessInv'
  <1> DEFINE p == Home[w]  t == tbl[w]  d == WithoutTable(db, t)
  <1>1. /\ pc[w] = "drop" /\ Publish(p, d) /\ db.count[t] = 0
    BY Own DEF DropTable, WriteAndCommit, IngestOK, Owning, Seen, NotPinned
  <1>2. /\ pc'[w] = "idle" /\ reply'[w] = "failed" /\ tbl' = tbl
        /\ \A v \in Others(w) : ControlKept(v)
    BY ControlOthers DEF DropTable, Answer, IInv, TypeOK
  <1>3. db' = d /\ conn'[p] = "auto"
    BY <1>1, Own, PublishConns
  <1>4. /\ d.trig = db.trig \ {t} /\ d.count = db.count
        /\ \A x \in AllNames : d.kind[x] = IF x = t THEN "none" ELSE db.kind[x]
    BY Own, WithoutTableFacts
  <1>5. db'.trig = db.trig
    BY <1>1, <1>3, <1>4 DEF OneProcessInv
  <1>6. \A u \in Names : db'.kind[u] = "data" /\ db'.count[u] = 0 =>
           db.kind[u] = "data" /\ db.count[u] = 0 /\ t # u
    BY <1>3, <1>4, FtsNameType
  <1>7. QED
    BY <1>1, <1>2, <1>3, <1>4, <1>5, <1>6, AloneStep DEF OneProcessInv

LEMMA AloneRecordDataset ==
  ASSUME IInv, OneProcess, OneProcessInv, NEW w \in Workers, RecordDataset(w)
  PROVE  OneProcessInv'
  <1> DEFINE p == Home[w]  t == tbl[w]  d == WithDataset(db, t, got[w])
  <1>1. pc[w] = "record" /\ Publish(p, d) /\ got[w] > 0
    BY Own DEF RecordDataset, WriteAndCommit, IngestOK, Owning, Seen, NotPinned
  <1>2. /\ pc'[w] = "idle" /\ reply'[w] = "ingested" /\ tbl' = tbl
        /\ \A v \in Others(w) : ControlKept(v)
    BY ControlOthers DEF RecordDataset, Answer, IInv, TypeOK
  <1>3. db' = d /\ conn'[p] = "auto"
    BY <1>1, Own, PublishConns
  <1>4. /\ d.kind = db.kind /\ d.trig = db.trig
        /\ d.count = [db.count EXCEPT ![t] = got[w]]
    BY Own, WithDatasetFacts
  <1>5. \A u \in Names : d.count[u] = IF u = t THEN got[w] ELSE db.count[u]
    BY <1>4, Own DEF Content
  <1>6. \A u \in Names : db'.kind[u] = "data" /\ db'.count[u] = 0 =>
           db.kind[u] = "data" /\ db.count[u] = 0 /\ t # u
    BY <1>1, <1>3, <1>4, <1>5
  <1>7. \A u \in db'.trig : db'.count[u] > 0
    BY <1>1, <1>3, <1>4, <1>5, Own DEF OneProcessInv, Content
  <1>8. QED
    BY <1>1, <1>2, <1>3, <1>4, <1>6, <1>7, AloneStep

LEMMA AloneCreateIndex ==
  ASSUME IInv, OneProcess, OneProcessInv, NEW w \in Workers, CreateIndex(w)
  PROVE  OneProcessInv'
  <1> DEFINE p == Home[w]  t == tbl[w]  s == Seen(p)  d == WithIndex(s, t)
  <1>1. pc[w] = "index" /\ CanWrite(p) /\ s.trig = db.trig /\ WriteDDL(p, d)
    BY AloneFacts DEF CreateIndex
  <1>2. /\ pc'[w] = "fill" /\ reply'[w] = reply[w] /\ tbl' = tbl
        /\ \A v \in Others(w) : ControlKept(v)
    BY ControlOthers DEF CreateIndex, Goto, IInv, TypeOK
  <1>3. /\ d.trig = db.trig /\ d.count = db.count
        /\ \A x \in AllNames : d.kind[x] = "data" => db.kind[x] = "data"
    BY <1>1, Own, WithIndexFacts, SeenPending
  <1>4. CASE Write(p, d)
    BY <1>1, <1>2, <1>3, <1>4, AlonePending DEF Owning
  <1>5. CASE Publish(p, d)
    <2>1. db' = d /\ conn'[p] = "auto"
      BY <1>5, Own, PublishConns
    <2>2. \A u \in Names : db'.kind[u] = "data" /\ db'.count[u] = 0 =>
             db.kind[u] = "data" /\ db.count[u] = 0 /\ pc[w] \notin Owning
      BY <1>1, <1>3, <2>1, FtsNameType DEF Owning
    <2>3. QED
      BY <1>1, <1>2, <1>3, <2>1, <2>2, AloneStep
         DEF OneProcessInv, EnabledIsComplete
  <1>6. QED  BY <1>1, <1>4, <1>5 DEF WriteDDL, WriteAndCommit

\* No ingest is running, so a table that is there is listed.
LEMMA AloneCreateTriggers ==
  ASSUME IInv, OneProcess, OneProcessInv, NEW w \in Workers, CreateTriggers(w)
  PROVE  OneProcessInv'
  <1> DEFINE p == Home[w]  t == tbl[w]  s == Seen(p)  d == WithTriggers(s, t)
  <1>1. /\ pc[w] = "triggers" /\ CanWrite(p) /\ s.kind[t] = "data"
        /\ s.trig = db.trig /\ Publish(p, d)
    BY AloneFacts DEF CreateTriggers, WriteAndCommit
  <1>2. /\ pc'[w] = "idle" /\ tbl' = tbl
        /\ \A v \in Others(w) : ControlKept(v)
    BY ControlOthers DEF CreateTriggers, Answer, IInv, TypeOK
  <1>3. db' = d /\ conn'[p] = "auto"
    BY <1>1, Own, PublishConns
  <1>4. /\ d.trig = db.trig \cup {t} /\ d.count = db.count
        /\ \A x \in AllNames : d.kind[x] = "data" => db.kind[x] = "data"
    BY <1>1, Own, WithTriggersFacts, SeenPending
  <1>5. \A v \in Workers : pc[v] \notin Owning
    BY <1>1, AloneFacts DEF Owning
  <1>6. db.kind[t] = "data" /\ db.count[t] > 0
    BY <1>1, <1>5, Own, SeenPending DEF OneProcessInv, Content
  <1>7. \A u \in Names : db'.kind[u] = "data" /\ db'.count[u] = 0 =>
           db.kind[u] = "data" /\ db.count[u] = 0 /\ pc[w] \notin Owning
    BY <1>3, <1>4, <1>5, FtsNameType
  <1>8. \A u \in db'.trig : db'.count[u] > 0
    BY <1>3, <1>4, <1>6 DEF OneProcessInv
  <1>9. QED
    BY <1>1, <1>2, <1>3, <1>4, <1>7, <1>8, AloneStep

\* Every statement of a call keeps the invariant of the lone process.
LEMMA StepKeepsAlone ==
  ASSUME IInv, OneProcess, OneProcessInv, NEW w \in Workers, Step(w)
  PROVE  OneProcessInv'
  <1> DEFINE p == Home[w]  t == tbl[w]  s == Seen(p)
  <1>1. TypeOK /\ s \in Content /\ t \in Names
    BY Own
  <1>2. ASSUME pc[w] \in {"exists", "sample", "schema", "enabled", "index",
                          "fill", "triggers"},
               Read(p) \/ UNCHANGED conVars \/ Write(p, s),
               \/ \E r \in {"failed", "already"} : Answer(w, r)
               \/ \E n : Goto(w, n)
        PROVE  OneProcessInv'
    <2>1. /\ \A v \in Others(w) : ControlKept(v)
          /\ tbl' = tbl
      BY <1>1, <1>2, ControlOthers
    <2>2. pc[w] \notin Owning /\ pc[w] # "idle"
      BY <1>2 DEF Owning
    <2>3. reply'[w] = "enabled" => reply[w] = "enabled"
      BY <1>1, <1>2 DEF Answer, Goto, TypeOK
    <2>4. s.trig = db.trig
      BY <2>2, AloneFacts
    <2>5. QED  BY <1>2, <2>1, <2>2, <2>3, <2>4, AlonePending
  <1>3. CASE CheckAbsent(w)
    BY <1>2, <1>3 DEF CheckAbsent
  <1>4. CASE SampleFails(w) \/ CreateTableFails(w)
    BY <1>2, <1>4 DEF SampleFails, CreateTableFails
  <1>5. CASE InsertBatch(w)
    <2>1. WithBatch(s, t).trig = db.trig /\ pc[w] = "insert"
      BY <1>1, <1>5, AloneFacts, WithBatchFacts DEF InsertBatch
    <2>2. QED
      BY <1>1, <1>5, <2>1, AlonePending
         DEF InsertBatch, TypeOK, ControlKept, Others
  <1>6. CASE InsertFails(w)
    BY <1>1, <1>6, ControlOthers, AlonePending
       DEF InsertFails, Rollback, Goto, TypeOK, Owning
  <1>7. ~DropFails(w) /\ ~RecordFails(w)
    BY AloneFacts DEF DropFails, RecordFails, TimeOutDML
  <1>8. CASE GetSchema(w) \/ CheckEnabled(w)
    BY <1>2, <1>8 DEF GetSchema, CheckEnabled
  <1>9. CASE CreateIndexFails(w)
    BY <1>2, <1>9 DEF CreateIndexFails
  <1>10. CASE FillIndex(w)
    <2>1. WithIndexFilled(s, t).trig = db.trig /\ pc[w] = "fill"
      BY <1>1, <1>10, AloneFacts, WithIndexFilledFacts DEF FillIndex
    <2>2. QED
      BY <1>1, <1>10, <2>1, ControlOthers, AlonePending
         DEF FillIndex, Goto, Owning
  <1>11. CASE FillIndexFails(w)
    <2>1. ~TimeOutDML(p)
      BY <1>11, AloneFacts DEF FillIndexFails, TimeOutDML
    <2>2. QED  BY <1>2, <1>11, <2>1 DEF FillIndexFails
  <1>12. CASE CreateTriggersFail(w)
    BY <1>2, <1>12 DEF CreateTriggersFail
  <1>13. QED
    BY <1>3, <1>4, <1>5, <1>6, <1>7, <1>8, <1>9, <1>10, <1>11, <1>12,
       AloneCreateTable, AloneFinishRows, AloneDropTable, AloneRecordDataset,
       AloneCreateIndex, AloneCreateTriggers DEF Step, IngestStep, EnableStep

LEMMA CallKeepsAlone ==
  ASSUME IInv, OneProcess, OneProcessInv, NEW w \in Workers, Call(w)
  PROVE  OneProcessInv'
  <1> DEFINE p == Home[w]
  <1>1. /\ Read(p) \/ UNCHANGED conVars
        /\ pc[w] = "idle" /\ reply'[w] \in {"none", "read"}
        /\ \A v \in Others(w) : ControlKept(v)
    BY DEF Call, StartIngest, StartEnable, Search, DescribeTable,
           ListDatasets, Enter, ReadOnly, ControlKept, Others, IInv, TypeOK
  <1>2. db' = db /\ \A q \in Procs : conn'[q] = conn[q] /\ view'[q] = view[q]
    BY <1>1, Own
       DEF OneProcess, OneProcessInv, DatabaseTypeOK, Read, conVars
  <1>3. \A v \in Workers : pc[v] \in Owning =>
           pc'[v] = pc[v] /\ tbl'[v] = tbl[v]
    BY <1>1 DEF Owning, ControlKept, Others
  <1>4. EnabledIsComplete'
    BY <1>1, <1>2 DEF OneProcessInv, EnabledIsComplete, ControlKept, Others
  <1>5. ASSUME NEW t \in Names, db'.kind[t] = "data", db'.count[t] = 0
        PROVE  \E v \in Workers : pc'[v] \in Owning /\ tbl'[v] = t
    BY <1>2, <1>3, <1>5 DEF OneProcessInv
  <1>6. QED  BY <1>2, <1>4, <1>5 DEF OneProcessInv

\* With one process whose calls run to their end, the invariant of the lone
\* process holds in every reachable state, for any number of threads.
THEOREM OneProcessCorrect ==
  ASSUME OneProcess
  PROVE  Spec => []OneProcessInv
  <1>1. Init => OneProcessInv
    BY FtsNameType
       DEF Init, DatabaseInit, EmptyContent, OneProcessInv,
           EnabledIsComplete
  <1>2. TypeOK /\ OneCallPerProcess /\ ConnInv /\ DataInv /\ OneProcessInv
          /\ [Next]_vars => OneProcessInv'
    <2> SUFFICES ASSUME IInv, OneProcessInv, [Next]_vars
                 PROVE  OneProcessInv'
      BY DEF IInv
    <2>1. CASE UNCHANGED vars
      BY <2>1 DEF vars, OneProcessInv, EnabledIsComplete
    <2>2. \A p \in Procs : ~Crash(p)
      BY DEF OneProcess, Crash
    <2>3. QED
      BY <2>1, <2>2, StepKeepsAlone, CallKeepsAlone DEF Next
  <1>3. QED
    BY <1>1, <1>2, TypeCorrect, CallsExclude, ConnectionsCorrect, DataCorrect,
       PTL DEF Spec

\* One process leaves no table behind that its catalog does not list.
THEOREM NoOrphansCorrect ==
  ASSUME OneProcess
  PROVE  Spec => []NoOrphans
  <1>1. TypeOK /\ OneProcessInv => NoOrphans
    BY DEF TypeOK, DatabaseTypeOK, Content, OneProcessInv, NoOrphans, AllIdle,
           Owning
  <1>2. QED  BY <1>1, TypeCorrect, OneProcessCorrect, PTL

\* One process keeps the triggers of every search it reported as enabled.
THEOREM EnabledIsCompleteCorrect ==
  ASSUME OneProcess
  PROVE  Spec => []EnabledIsComplete
  <1>1. OneProcessInv => EnabledIsComplete
    BY DEF OneProcessInv
  <1>2. QED  BY <1>1, OneProcessCorrect, PTL

-----------------------------------------------------------------------------
(* A call inside the lock ends. *)

\* The most statements that thread w has left in its call.
StatementsLeft(w) ==
    CASE pc[w] = "idle" -> 0
      [] pc[w] = "exists" -> MaxBatches + 5
      [] pc[w] = "sample" -> MaxBatches + 4
      [] pc[w] = "insert" -> MaxBatches - got[w] + 3
      [] pc[w] \in {"drop", "record", "triggers"} -> 1
      [] pc[w] = "fill" -> 2
      [] pc[w] = "index" -> 3
      [] pc[w] = "enabled" -> 4
      [] pc[w] = "schema" -> 5

\* A call under way stays where it is, or has less left.
GoesOn(w) == pc[w] # "idle" => \/ pc'[w] = pc[w] /\ got'[w] = got[w]
                              \/ StatementsLeft(w)' < StatementsLeft(w)

\* Every statement of a call, done or failed, is one less.
LEMMA StepCountsDown ==
  ASSUME TypeOK, NEW w \in Workers, Step(w)
  PROVE  GoesOn(w) /\ (\A v \in Workers \ {w} : pc'[v] = pc[v] /\ got'[v] = got[v])
  <1>1. /\ pc \in [Workers -> {"idle"} \cup IngestSteps \cup EnableSteps]
        /\ got \in [Workers -> 0 .. MaxBatches] /\ MaxBatches \in Nat
        /\ got[w] \in Nat /\ got[w] <= MaxBatches
    BY MaxBatchesAssumption DEF TypeOK
  <1> DEFINE others == \A v \in Workers \ {w} : pc'[v] = pc[v] /\ got'[v] = got[v]
  <1>2. ASSUME NEW r, Answer(w, r), pc[w] # "idle"  PROVE GoesOn(w) /\ others
    <2>1. pc'[w] = "idle" /\ others
      BY <1>1, <1>2 DEF Answer
    <2>2. StatementsLeft(w)' = 0
      BY <2>1 DEF StatementsLeft
    <2>3. StatementsLeft(w) > 0
      BY <1>1, <1>2 DEF StatementsLeft, IngestSteps, EnableSteps
    <2> QED
      BY <2>1, <2>2, <2>3 DEF GoesOn
  <1>3. ASSUME NEW next \in IngestSteps \cup EnableSteps, Goto(w, next),
               <<pc[w], next>> \in
                  {<<"exists", "sample">>, <<"sample", "insert">>,
                   <<"insert", "record">>, <<"insert", "drop">>,
                   <<"schema", "enabled">>, <<"enabled", "index">>,
                   <<"index", "fill">>, <<"fill", "triggers">>}
        PROVE  GoesOn(w) /\ others
    <2>1. pc'[w] = next /\ got' = got /\ others
      BY <1>1, <1>3 DEF Goto
    <2>2. got'[w] = got[w]
      BY <2>1
    <2>3. StatementsLeft(w)' < StatementsLeft(w)
      BY <1>1, <1>3, <2>1, <2>2 DEF StatementsLeft
    <2> QED
      BY <2>1, <2>3 DEF GoesOn
  <1>4. CASE InsertBatch(w)
    <2>1. /\ pc[w] = "insert" /\ pc' = pc /\ got'[w] = got[w] + 1 /\ others
      BY <1>1, <1>4 DEF InsertBatch
    <2>2. pc'[w] = "insert"
      BY <2>1
    <2>3. StatementsLeft(w)' < StatementsLeft(w)
      BY <1>1, <2>1, <2>2 DEF StatementsLeft
    <2> QED
      BY <2>1, <2>3 DEF GoesOn
  <1> USE DEF IngestSteps, EnableSteps
  <1>5. CASE \/ SampleFails(w) \/ CreateTableFails(w) \/ DropTable(w)
             \/ DropFails(w) \/ RecordDataset(w) \/ RecordFails(w)
             \/ CreateIndexFails(w) \/ FillIndexFails(w)
             \/ CreateTriggers(w) \/ CreateTriggersFail(w)
    <2>1. pc[w] # "idle" /\ \E r : Answer(w, r)
      BY <1>5 DEF SampleFails, CreateTableFails, DropTable, DropFails,
                  RecordDataset, RecordFails, CreateIndexFails, FillIndexFails,
                  CreateTriggers, CreateTriggersFail
    <2> QED
      BY <1>2, <2>1
  <1>6. CASE CheckAbsent(w) \/ GetSchema(w) \/ CheckEnabled(w)
    <2>1. \/ \E r : Answer(w, r) /\ pc[w] # "idle"
          \/ pc[w] = "exists" /\ Goto(w, "sample")
          \/ pc[w] = "schema" /\ Goto(w, "enabled")
          \/ pc[w] = "enabled" /\ Goto(w, "index")
      BY <1>6 DEF CheckAbsent, GetSchema, CheckEnabled
    <2> QED
      BY <1>2, <1>3, <2>1
  <1>7. CASE CreateTable(w) \/ FinishRows(w) \/ InsertFails(w)
    <2>1. \/ pc[w] = "sample" /\ Goto(w, "insert")
          \/ pc[w] = "insert" /\ Goto(w, "record")
          \/ pc[w] = "insert" /\ Goto(w, "drop")
      BY <1>7 DEF CreateTable, FinishRows, InsertFails
    <2> QED
      BY <1>3, <2>1
  <1>8. CASE CreateIndex(w) \/ FillIndex(w)
    <2>1. \/ pc[w] = "index" /\ Goto(w, "fill")
          \/ pc[w] = "fill" /\ Goto(w, "triggers")
      BY <1>8 DEF CreateIndex, FillIndex
    <2> QED
      BY <1>3, <2>1
  <1> QED
    BY <1>4, <1>5, <1>6, <1>7, <1>8 DEF Step, IngestStep, EnableStep

\* A call that has its process's lock is never sent back, by its own failing
\* statements, by the other threads, by the other process or by a crash: each
\* statement lowers the number of those left, and at most MaxBatches + 5 follow.
THEOREM CallsCountDown ==
    Spec => [][\A w \in Workers : GoesOn(w)]_vars
  <1>1. TypeOK /\ [Next]_vars => [\A w \in Workers : GoesOn(w)]_vars
    <2> SUFFICES ASSUME TypeOK, Next, NEW w \in Workers  PROVE GoesOn(w)
      OBVIOUS
    <2>1. ASSUME NEW v \in Workers, Step(v)  PROVE GoesOn(w)
      BY <2>1, StepCountsDown DEF GoesOn
    <2>2. ASSUME NEW v \in Workers, Call(v)  PROVE GoesOn(w)
      <3>1. /\ pc[v] = "idle"
            /\ \A u \in Workers \ {v} : pc'[u] = pc[u] /\ got'[u] = got[u]
        BY <2>2 DEF Call, StartIngest, StartEnable, Search, DescribeTable,
                    ListDatasets, Enter, ReadOnly, TypeOK
      <3> QED
        BY <3>1 DEF GoesOn
    <2>3. ASSUME NEW p \in Procs, Crash(p)  PROVE GoesOn(w)
      <3>1. got' = got /\ pc'[w] \in {"idle", pc[w]}
        BY <2>3 DEF Crash
      <3>2. CASE pc'[w] = "idle" /\ pc[w] # "idle"
        <4>1. StatementsLeft(w)' = 0
          BY <3>2 DEF StatementsLeft
        <4>2. StatementsLeft(w) > 0
          BY <3>2, MaxBatchesAssumption
             DEF StatementsLeft, TypeOK, IngestSteps, EnableSteps
        <4> QED
          BY <4>1, <4>2 DEF GoesOn
      <3> QED
        BY <3>1, <3>2 DEF GoesOn
    <2> QED
      BY <2>1, <2>2, <2>3 DEF Next
  <1> QED
    BY <1>1, TypeCorrect, PTL DEF Spec

-----------------------------------------------------------------------------
(* What a failed call leaves behind. *)

\* Triggers are created in the statement that commits them.
TrigInv == \A p \in Procs : conn[p] = "writing" => view[p].trig = db.trig

\* w runs one of the steps on table x.
At(w, steps, x) == pc[w] \in steps /\ tbl[w] = x

\* What a step of thread w may do to the file: it changes the rows or the kind
\* of no table, and the entry of no name, but that of its own ingest, makes no
\* triggers but those of its own enable and drops none but its own ingest's, and
\* comes to own a table, or to fill an index, only under a name that was free.
OwnWorkOnly(w) ==
    /\ \A x \in AllNames :
         /\ db.kind[x] = "data" /\ ~At(w, Owning, x) =>
              db'.kind[x] = "data" /\ db'.rows[x] = db.rows[x]
         /\ db.kind[x] = "fts" => db'.kind[x] = "fts"
    /\ \A x \in Names :
         /\ ~At(w, Owning, x) => db'.count[x] = db.count[x]
         /\ x \in db'.trig => x \in db.trig \/ At(w, {"triggers"}, x)
         /\ x \in db.trig => x \in db'.trig \/ At(w, {"drop"}, x)
         /\ At(w, Owning, x)' => At(w, Owning, x) \/ db.kind[x] = "none"
         /\ At(w, {"fill", "triggers"}, x)' =>
              At(w, {"fill", "triggers"}, x) \/ db.kind[FtsName[x]] = "none"

\* What a transaction that can still commit sees differs from the file in new
\* indexes, and in the rows of the table that it loads, only.
LEMMA SeenFile ==
  ASSUME IInv, TrigInv, NEW w \in Workers, pc[w] # "idle", CanWrite(Home[w])
  PROVE  LET d == Seen(Home[w]) IN
           /\ d.count = db.count /\ d.trig = db.trig
           /\ \A x \in AllNames :
                /\ d.kind[x] = db.kind[x] \/ (db.kind[x] = "none" /\ d.kind[x] = "fts")
                /\ d.kind[x] = "data" /\ ~At(w, {"insert"}, x) =>
                     d.rows[x] = db.rows[x]
  <1>1. Home[w] \in Procs /\ PendingOK(Home[w])
    BY Own
  <1>2. CASE conn[Home[w]] = "writing"
    <2>1. \A x : Inserting(Home[w], x) => At(w, {"insert"}, x)
      BY DEF IInv, OneCallPerProcess, Inserting, At
    <2>2. Seen(Home[w]) = view[Home[w]]
      BY <1>2 DEF Seen, NotPinned
    <2> QED
      BY <1>1, <1>2, <2>1, <2>2 DEF PendingOK, TrigInv
  <1>3. CASE conn[Home[w]] # "writing"
    BY <1>1, <1>3, SeenCommitted DEF CanWrite
  <1> QED
    BY <1>2, <1>3

\* A step that commits nothing and leads to no new table or index.
LEMMA QuietOwn ==
  ASSUME db' = db, NEW w \in Workers, tbl'[w] = tbl[w],
         pc'[w] \in Owning => pc[w] \in Owning,
         pc'[w] \in {"fill", "triggers"} => pc[w] \in {"fill", "triggers"}
  PROVE  OwnWorkOnly(w)
  BY DEF OwnWorkOnly, At

LEMMA CreateTableOwn ==
  ASSUME IInv, TrigInv, NEW w \in Workers, CreateTable(w)
  PROVE  OwnWorkOnly(w)
  <1> DEFINE t == tbl[w]  s == Seen(Home[w])  d == WithTable(s, t)
  <1>1. pc[w] = "sample" /\ CanWrite(Home[w]) /\ Publish(Home[w], d) /\ s.kind[t] = "none"
    BY DEF CreateTable, WriteAndCommit, TableExists
  <1>2. pc'[w] = "insert" /\ tbl' = tbl /\ db' = d
    BY <1>1, Own, PublishConns, ControlOthers DEF CreateTable, Goto, IInv, TypeOK
  <1>3. /\ d.rows = s.rows /\ d.trig = s.trig /\ d.count = s.count
        /\ \A x \in AllNames : d.kind[x] = IF x = t THEN "data" ELSE s.kind[x]
    BY Own, WithTableFacts
  <1>4. /\ s.count = db.count /\ s.trig = db.trig /\ db.kind[t] = "none"
        /\ \A x \in AllNames :
             /\ s.kind[x] = db.kind[x] \/ (db.kind[x] = "none" /\ s.kind[x] = "fts")
             /\ s.kind[x] = "data" => s.rows[x] = db.rows[x]
    BY <1>1, Own, SeenFile DEF At
  <1>5. t \in Names /\ t \in AllNames
    BY Own
  <1> QED
    BY <1>1, <1>2, <1>3, <1>4, <1>5 DEF OwnWorkOnly, At, Owning

LEMMA FinishRowsOwn ==
  ASSUME IInv, TrigInv, NEW w \in Workers, FinishRows(w)
  PROVE  OwnWorkOnly(w)
  <1> DEFINE t == tbl[w]  p == Home[w]  s == Seen(p)
  <1>1. pc[w] = "insert" /\ got[w] > 0 /\ Commit(p)
    BY DEF FinishRows
  <1>2. conn[p] = "writing" /\ p \in Procs
    BY <1>1, Own DEF IngestOK, Owning
  <1>3. CanWrite(p) /\ Publish(p, s)
    BY <1>1, <1>2 DEF Commit, CanWrite, IInv, ConnInv, Seen, NotPinned
  <1>4. pc'[w] = "record" /\ tbl' = tbl /\ db' = s
    BY <1>1, <1>2, <1>3, PublishConns DEF FinishRows, Goto, IInv, TypeOK
  <1>5. /\ s.count = db.count /\ s.trig = db.trig
        /\ \A x \in AllNames :
             /\ s.kind[x] = db.kind[x] \/ (db.kind[x] = "none" /\ s.kind[x] = "fts")
             /\ s.kind[x] = "data" /\ x # t => s.rows[x] = db.rows[x]
    BY <1>1, <1>3, SeenFile DEF At
  <1> QED
    BY <1>1, <1>4, <1>5 DEF OwnWorkOnly, At, Owning

LEMMA DropTableOwn ==
  ASSUME IInv, TrigInv, NEW w \in Workers, DropTable(w)
  PROVE  OwnWorkOnly(w)
  <1> DEFINE t == tbl[w]  s == Seen(Home[w])  d == WithoutTable(s, t)
  <1>1. pc[w] = "drop" /\ CanWrite(Home[w]) /\ Publish(Home[w], d)
    BY DEF DropTable, WriteAndCommit
  <1>2. pc'[w] = "idle" /\ db' = d
    BY <1>1, Own, PublishConns DEF DropTable, Answer, IInv, TypeOK
  <1>3. /\ d.trig = s.trig \ {t} /\ d.count = s.count
        /\ \A x \in AllNames : /\ d.kind[x] = IF x = t THEN "none" ELSE s.kind[x]
                               /\ d.rows[x] = IF x = t THEN 0 ELSE s.rows[x]
    BY Own, WithoutTableFacts
  <1>4. /\ s.count = db.count /\ s.trig = db.trig /\ db.kind[t] = "data"
        /\ \A x \in AllNames :
             /\ s.kind[x] = db.kind[x] \/ (db.kind[x] = "none" /\ s.kind[x] = "fts")
             /\ s.kind[x] = "data" => s.rows[x] = db.rows[x]
    BY <1>1, Own, SeenFile DEF At, IngestOK, Owning
  <1> QED
    BY <1>1, <1>2, <1>3, <1>4 DEF OwnWorkOnly, At, Owning

LEMMA RecordDatasetOwn ==
  ASSUME IInv, TrigInv, NEW w \in Workers, RecordDataset(w)
  PROVE  OwnWorkOnly(w)
  <1> DEFINE t == tbl[w]  s == Seen(Home[w])  d == WithDataset(s, t, got[w])
  <1>1. pc[w] = "record" /\ CanWrite(Home[w]) /\ Publish(Home[w], d)
    BY DEF RecordDataset, WriteAndCommit
  <1>2. pc'[w] = "idle" /\ db' = d
    BY <1>1, Own, PublishConns DEF RecordDataset, Answer, IInv, TypeOK
  <1>3. /\ d.kind = s.kind /\ d.rows = s.rows /\ d.trig = s.trig
        /\ \A x \in Names : x # t => d.count[x] = s.count[x]
    <2>1. s \in Content /\ t \in Names /\ got[w] \in Nat
      BY Own
    <2>2. s.count \in [Names -> Nat]
      BY <2>1 DEF Content
    <2>3. /\ d.kind = s.kind /\ d.rows = s.rows /\ d.trig = s.trig
          /\ d.count = [s.count EXCEPT ![t] = got[w]]
      BY <2>1, WithDatasetFacts
    <2> HIDE DEF d, s, t
    <2> QED
      BY <2>2, <2>3
  <1>4. /\ s.count = db.count /\ s.trig = db.trig
        /\ \A x \in AllNames :
             /\ s.kind[x] = db.kind[x] \/ (db.kind[x] = "none" /\ s.kind[x] = "fts")
             /\ s.kind[x] = "data" => s.rows[x] = db.rows[x]
    BY <1>1, Own, SeenFile DEF At
  <1> QED
    BY <1>1, <1>2, <1>3, <1>4 DEF OwnWorkOnly, At, Owning

LEMMA CreateIndexOwn ==
  ASSUME IInv, TrigInv, NEW w \in Workers, CreateIndex(w)
  PROVE  OwnWorkOnly(w)
  <1> DEFINE t == tbl[w]  s == Seen(Home[w])  d == WithIndex(s, t)
  <1>1. pc[w] = "index" /\ CanWrite(Home[w]) /\ s.kind[FtsName[t]] = "none"
    BY DEF CreateIndex, WriteDDL, WriteAndCommit, Write, IsEnabled, TableExists
  <1>2. pc'[w] = "fill" /\ tbl' = tbl /\ (db' = db \/ db' = d)
    BY Own, PublishConns
       DEF CreateIndex, WriteDDL, WriteAndCommit, Write, Goto, IInv, TypeOK
  <1>3. /\ d.rows = s.rows /\ d.trig = s.trig /\ d.count = s.count
        /\ \A x \in AllNames : d.kind[x] = IF x = FtsName[t] THEN "fts" ELSE s.kind[x]
    BY Own, WithIndexFacts
  <1>4. /\ s.count = db.count /\ s.trig = db.trig /\ db.kind[FtsName[t]] = "none"
        /\ \A x \in AllNames :
             /\ s.kind[x] = db.kind[x] \/ (db.kind[x] = "none" /\ s.kind[x] = "fts")
             /\ s.kind[x] = "data" => s.rows[x] = db.rows[x]
    BY <1>1, Own, SeenFile DEF At
  <1> QED
    BY <1>1, <1>2, <1>3, <1>4 DEF OwnWorkOnly, At, Owning

LEMMA CreateTriggersOwn ==
  ASSUME IInv, TrigInv, NEW w \in Workers, CreateTriggers(w)
  PROVE  OwnWorkOnly(w)
  <1> DEFINE t == tbl[w]  s == Seen(Home[w])  d == WithTriggers(s, t)
  <1>1. pc[w] = "triggers" /\ CanWrite(Home[w]) /\ Publish(Home[w], d)
    BY DEF CreateTriggers, WriteAndCommit
  <1>2. pc'[w] = "idle" /\ db' = d
    BY <1>1, Own, PublishConns DEF CreateTriggers, Answer, IInv, TypeOK
  <1>3. /\ d.kind = s.kind /\ d.rows = s.rows /\ d.count = s.count
        /\ d.trig = s.trig \cup {t}
    BY Own, WithTriggersFacts
  <1>4. /\ s.count = db.count /\ s.trig = db.trig
        /\ \A x \in AllNames :
             /\ s.kind[x] = db.kind[x] \/ (db.kind[x] = "none" /\ s.kind[x] = "fts")
             /\ s.kind[x] = "data" => s.rows[x] = db.rows[x]
    BY <1>1, Own, SeenFile DEF At
  <1> QED
    BY <1>1, <1>2, <1>3, <1>4 DEF OwnWorkOnly, At, Owning

LEMMA StepOwn ==
  ASSUME IInv, TrigInv, NEW w \in Workers, Step(w)
  PROVE  OwnWorkOnly(w)
  <1>1. CASE \/ CheckAbsent(w) \/ SampleFails(w) \/ CreateTableFails(w)
             \/ InsertBatch(w) \/ InsertFails(w) \/ DropFails(w) \/ RecordFails(w)
             \/ GetSchema(w) \/ CheckEnabled(w) \/ CreateIndexFails(w)
             \/ FillIndex(w) \/ FillIndexFails(w) \/ CreateTriggersFail(w)
    <2>1. db' = db /\ tbl' = tbl
      BY <1>1 DEF CheckAbsent, SampleFails, CreateTableFails, InsertBatch,
                  InsertFails, DropFails, RecordFails, GetSchema, CheckEnabled,
                  CreateIndexFails, FillIndex, FillIndexFails,
                  CreateTriggersFail, Read, Write, Rollback, Abandon,
                  TimeOutDML, conVars, Answer, Goto
    <2>2. /\ pc'[w] \in Owning => pc[w] \in Owning
          /\ pc'[w] \in {"fill", "triggers"} => pc[w] \in {"fill", "triggers"}
      BY <1>1 DEF CheckAbsent, SampleFails, CreateTableFails, InsertBatch,
                  InsertFails, DropFails, RecordFails, GetSchema, CheckEnabled,
                  CreateIndexFails, FillIndex, FillIndexFails,
                  CreateTriggersFail, Answer, Goto, Owning, IInv, TypeOK
    <2> QED
      BY <2>1, <2>2, QuietOwn
  <1> QED
    BY <1>1, CreateTableOwn, FinishRowsOwn, DropTableOwn, RecordDatasetOwn,
       CreateIndexOwn, CreateTriggersOwn DEF Step, IngestStep, EnableStep

LEMMA TrigWrite ==
  ASSUME IInv, TrigInv, NEW w \in Workers, pc[w] # "idle",
         NEW d, Write(Home[w], d), d.trig = Seen(Home[w]).trig
  PROVE  TrigInv'
  <1>1. /\ Home[w] \in Procs /\ db' = db /\ ConnsKept(Home[w])
        /\ view'[Home[w]] = d
    BY Own, QuietConns DEF Write, DatabaseTypeOK
  <1>2. d.trig = db.trig
    BY SeenFile DEF Write
  <1> QED
    BY <1>1, <1>2 DEF TrigInv, ConnsKept

LEMMA TrigPublish ==
  ASSUME IInv, NEW p \in Procs, CanWrite(p), NEW d, Publish(p, d)
  PROVE  TrigInv'
  <1>1. ConnsKept(p) /\ conn'[p] = "auto"
    BY PublishConns DEF IInv
  <1> QED
    BY <1>1 DEF TrigInv, ConnsKept, CanWrite

LEMMA TrigQuiet ==
  ASSUME IInv, TrigInv, NEW p \in Procs,
         Read(p) \/ TimeOutDML(p) \/ UNCHANGED conVars \/ Abandon(p)
  PROVE  TrigInv'
  <1>1. ConnsKept(p) /\ db' = db
    BY QuietConns DEF IInv
  <1>2. conn'[p] = "writing" => conn[p] = "writing" /\ view'[p] = view[p]
    BY DEF Read, TimeOutDML, conVars, Abandon, IInv, TypeOK, DatabaseTypeOK
  <1> QED
    BY <1>1, <1>2 DEF TrigInv, ConnsKept

LEMMA StepKeepsTrig ==
  ASSUME IInv, TrigInv, NEW w \in Workers, Step(w)
  PROVE  TrigInv'
  <1>1. Home[w] \in Procs /\ Seen(Home[w]) \in Content /\ tbl[w] \in Names
    BY Own
  <1>2. CASE \/ CheckAbsent(w) \/ SampleFails(w) \/ CreateTableFails(w)
             \/ InsertFails(w) \/ DropFails(w) \/ RecordFails(w)
             \/ GetSchema(w) \/ CheckEnabled(w) \/ CreateTriggersFail(w)
    BY <1>1, <1>2, TrigQuiet
       DEF CheckAbsent, SampleFails, CreateTableFails, InsertFails, Rollback,
           DropFails, RecordFails, GetSchema, CheckEnabled, CreateTriggersFail
  <1>3. CASE \/ CreateTable(w) \/ DropTable(w) \/ RecordDataset(w)
             \/ CreateTriggers(w)
    BY <1>1, <1>3, TrigPublish
       DEF CreateTable, DropTable, RecordDataset, CreateTriggers,
           WriteAndCommit
  <1>4. CASE FinishRows(w)
    <2>1. pc[w] = "insert" /\ got[w] > 0 /\ Commit(Home[w])
      BY <1>4 DEF FinishRows
    <2>2. conn[Home[w]] = "writing"
      BY <2>1, Own DEF IngestOK, Owning
    <2>3. CanWrite(Home[w]) /\ Publish(Home[w], view[Home[w]])
      BY <1>1, <2>1, <2>2 DEF Commit, CanWrite, IInv, ConnInv
    <2> QED
      BY <1>1, <2>3, TrigPublish
  <1>5. CASE InsertBatch(w)
    BY <1>1, <1>5, TrigWrite, WithBatchFacts DEF InsertBatch
  <1>6. CASE FillIndex(w)
    BY <1>1, <1>6, TrigWrite, WithIndexFilledFacts DEF FillIndex
  <1>7. CASE CreateIndex(w)
    BY <1>1, <1>7, TrigWrite, TrigPublish, WithIndexFacts
       DEF CreateIndex, WriteDDL, WriteAndCommit
  <1>8. CASE CreateIndexFails(w) \/ FillIndexFails(w)
    BY <1>1, <1>8, TrigWrite, TrigQuiet DEF CreateIndexFails, FillIndexFails
  <1> QED
    BY <1>2, <1>3, <1>4, <1>5, <1>6, <1>7, <1>8 DEF Step, IngestStep, EnableStep

\* A call that begins, or one that only reads, and the death of a process.
LEMMA OtherStepsQuiet ==
  ASSUME IInv, (\E w \in Workers : Call(w)) \/ (\E p \in Procs : Crash(p))
  PROVE  /\ \E p \in Procs : Read(p) \/ UNCHANGED conVars \/ Abandon(p)
         /\ db' = db
         /\ \A v \in Workers, S \in {Owning, {"fill", "triggers"}}, x \in Names :
               At(v, S, x)' => At(v, S, x)
  <1>1. ASSUME NEW w \in Workers, Call(w)
        PROVE  /\ Read(Home[w]) \/ UNCHANGED conVars
               /\ pc'[w] \in {"idle", "exists", "schema"}
               /\ \A v \in Others(w) : ControlKept(v)
    BY <1>1 DEF Call, StartIngest, StartEnable, Search, DescribeTable,
                ListDatasets, Enter, ReadOnly, IInv, TypeOK, Others, ControlKept
  <1>2. ASSUME NEW p \in Procs, Crash(p)
        PROVE  /\ Abandon(p)
               /\ tbl' = tbl
               /\ \A v \in Workers : pc'[v] \in {"idle", pc[v]}
    BY <1>2 DEF Crash
  <1>3. CASE \E w \in Workers : Call(w)
    <2>1. PICK w \in Workers : Call(w)
      BY <1>3
    <2>2. Home[w] \in Procs /\ db' = db
      BY <1>1, <2>1, Own DEF Read, conVars
    <2>3. ASSUME NEW v \in Workers, NEW S \in {Owning, {"fill", "triggers"}},
                 NEW x \in Names, At(v, S, x)'
          PROVE  At(v, S, x)
      BY <1>1, <2>1, <2>3 DEF At, Owning, Others, ControlKept
    <2> QED
      BY <1>1, <2>1, <2>2, <2>3
  <1>4. CASE \E p \in Procs : Crash(p)
    BY <1>2, <1>4 DEF At, Owning, Abandon
  <1> QED
    BY <1>3, <1>4

THEOREM TrigCorrect == Spec => []TrigInv
  <1>1. Init => TrigInv
    BY DEF Init, DatabaseInit, TrigInv
  <1>2. TypeOK /\ OneCallPerProcess /\ ConnInv /\ DataInv /\ TrigInv
          /\ [Next]_vars => TrigInv'
    <2> SUFFICES ASSUME IInv, TrigInv, [Next]_vars  PROVE TrigInv'
      BY DEF IInv
    <2>1. CASE UNCHANGED vars
      BY <2>1 DEF vars, TrigInv
    <2>2. CASE \E w \in Workers : Step(w)
      BY <2>2, StepKeepsTrig
    <2>3. CASE (\E w \in Workers : Call(w)) \/ (\E p \in Procs : Crash(p))
      BY <2>3, OtherStepsQuiet, TrigQuiet
    <2> QED
      BY <2>1, <2>2, <2>3 DEF Next
  <1> QED
    BY <1>1, <1>2, TypeCorrect, CallsExclude, ConnectionsCorrect, DataCorrect,
       PTL DEF Spec

\* Whatever a call does or fails to do, with any number of processes and
\* threads, it changes only what is its own.
LEMMA NextOwn ==
  ASSUME IInv, TrigInv, Next
  PROVE  \/ \E w \in Workers : /\ OwnWorkOnly(w)
                               /\ \A v \in Others(w) : ControlKept(v)
         \/ /\ db' = db
            /\ \A v \in Workers, S \in {Owning, {"fill", "triggers"}}, x \in Names :
                  At(v, S, x)' => At(v, S, x)
  <1>1. ASSUME NEW w \in Workers, Step(w)
        PROVE  \A v \in Others(w) : ControlKept(v)
    BY <1>1
       DEF Step, IngestStep, EnableStep, CheckAbsent, SampleFails, CreateTable,
           CreateTableFails, InsertBatch, FinishRows, InsertFails, DropTable,
           DropFails, RecordDataset, RecordFails, GetSchema, CheckEnabled,
           CreateIndex, CreateIndexFails, FillIndex, FillIndexFails,
           CreateTriggers, CreateTriggersFail, Goto, Answer, Others,
           ControlKept, IInv, TypeOK
  <1> QED
    BY <1>1, StepOwn, OtherStepsQuiet DEF Next

\* What a failed ingest, or a process that died, left under a name stays as it
\* is: the other calls neither clean it up nor add to it nor list it.
THEOREM UnlistedStaysCorrect == Spec => UnlistedStays
  <1> DEFINE Kept == \A t \in Names :
                Unlisted(t) => Unlisted(t)' /\ db'.rows[t] = db.rows[t]
  <1>1. TypeOK /\ OneCallPerProcess /\ ConnInv /\ DataInv /\ TrigInv
          /\ [Next]_vars => [Kept]_vars
    <2> SUFFICES ASSUME IInv, TrigInv, Next, NEW t \in Names, Unlisted(t)
                 PROVE  Unlisted(t)' /\ db'.rows[t] = db.rows[t]
      BY DEF IInv
    <2>1. /\ t \in AllNames /\ db.kind[t] = "data" /\ db.count[t] = 0
          /\ \A w \in Workers : ~At(w, Owning, t)
      BY FtsNameType DEF Unlisted, Running, At
    <2>2. ASSUME NEW w \in Workers, OwnWorkOnly(w),
                 \A v \in Others(w) : ControlKept(v)
          PROVE  /\ db'.kind[t] = "data" /\ db'.rows[t] = db.rows[t]
                 /\ db'.count[t] = 0
                 /\ \A v \in Workers : ~At(v, Owning, t)'
      <3>1. \A v \in Others(w) : ~At(v, Owning, t)'
        BY <2>1, <2>2 DEF Others, ControlKept, At
      <3> QED
        BY <2>1, <2>2, <3>1 DEF OwnWorkOnly, Others
    <2>3. /\ db'.kind[t] = "data" /\ db'.rows[t] = db.rows[t]
          /\ db'.count[t] = 0
          /\ \A v \in Workers : ~At(v, Owning, t)'
      BY <2>1, <2>2, NextOwn
    <2> QED
      BY <2>3 DEF Unlisted, Running, At
  <1> QED
    BY <1>1, TypeCorrect, CallsExclude, ConnectionsCorrect, DataCorrect,
       TrigCorrect, PTL DEF Spec, UnlistedStays

\* A listed table that has search keeps it: only the ingest that owns a table,
\* which is not listed yet, drops it and its triggers.
THEOREM SearchStaysCorrect == Spec => SearchStays
  <1> DEFINE Kept == \A t \in db.trig : db.count[t] > 0 => t \in db'.trig
  <1>1. TypeOK /\ OneCallPerProcess /\ ConnInv /\ DataInv /\ TrigInv
          /\ [Next]_vars => [Kept]_vars
    <2> SUFFICES ASSUME IInv, TrigInv, Next, NEW t \in db.trig, db.count[t] > 0
                 PROVE  t \in db'.trig
      BY DEF IInv
    <2>1. t \in Names
      BY DEF IInv, TypeOK, DatabaseTypeOK, Content
    <2>2. ASSUME NEW w \in Workers, OwnWorkOnly(w)  PROVE t \in db'.trig
      <3>1. ~At(w, {"drop"}, t)
        BY Own DEF At, IngestOK, Owning
      <3> QED
        BY <2>1, <2>2, <3>1 DEF OwnWorkOnly
    <2> QED
      BY <2>2, NextOwn
  <1> QED
    BY <1>1, TypeCorrect, CallsExclude, ConnectionsCorrect, DataCorrect,
       TrigCorrect, PTL DEF Spec, SearchStays

\* An index whose call ended before its triggers never gets any.
THEOREM UntriggeredStaysCorrect == Spec => UntriggeredStays
  <1> DEFINE Kept == \A t \in Names : Untriggered(t) => Untriggered(t)'
  <1>1. TypeOK /\ OneCallPerProcess /\ ConnInv /\ DataInv /\ TrigInv
          /\ [Next]_vars => [Kept]_vars
    <2> SUFFICES ASSUME IInv, TrigInv, Next, NEW t \in Names, Untriggered(t)
                 PROVE  Untriggered(t)'
      BY DEF IInv
    <2>1. /\ FtsName[t] \in AllNames /\ db.kind[FtsName[t]] = "fts"
          /\ t \notin db.trig
          /\ \A w \in Workers : ~At(w, {"fill", "triggers"}, t)
      BY FtsNameType DEF Untriggered, Running, At
    <2>2. ASSUME NEW w \in Workers, OwnWorkOnly(w),
                 \A v \in Others(w) : ControlKept(v)
          PROVE  /\ db'.kind[FtsName[t]] = "fts" /\ t \notin db'.trig
                 /\ \A v \in Workers : ~At(v, {"fill", "triggers"}, t)'
      <3>1. \A v \in Others(w) : ~At(v, {"fill", "triggers"}, t)'
        BY <2>1, <2>2 DEF Others, ControlKept, At
      <3>2. ~At(w, {"triggers"}, t)
        BY <2>1 DEF At
      <3> QED
        BY <2>1, <2>2, <3>1, <3>2 DEF OwnWorkOnly, Others
    <2>3. /\ db'.kind[FtsName[t]] = "fts" /\ t \notin db'.trig
          /\ \A v \in Workers : ~At(v, {"fill", "triggers"}, t)'
      BY <2>1, <2>2, NextOwn
    <2> QED
      BY <2>3 DEF Untriggered, Running, At
  <1> QED
    BY <1>1, TypeCorrect, CallsExclude, ConnectionsCorrect, DataCorrect,
       TrigCorrect, PTL DEF Spec, UntriggeredStays

-----------------------------------------------------------------------------
(* Who waits for whom, and who never stops waiting. *)

\* Between its first batch and its commit, or between the filling of an index
\* and its triggers.
Midway(w) == pc[w] = "triggers" \/ (pc[w] = "insert" /\ got[w] > 0)

\* A call that began to write waits for nobody until it commits: it cannot find
\* the file busy halfway, so only its own failure makes it roll back.
THEOREM NeverBusyMidway ==
    Spec => [](\A w \in Workers : Midway(w) => CanWrite(Home[w]))
  <1>1. TypeOK /\ OneCallPerProcess /\ ConnInv /\ DataInv
          => \A w \in Workers : Midway(w) => CanWrite(Home[w])
    <2> SUFFICES ASSUME IInv, NEW w \in Workers, Midway(w)
                 PROVE  CanWrite(Home[w])
      BY DEF IInv
    <2>1. conn[Home[w]] = "writing" /\ Home[w] \in Procs
      BY Own DEF Midway, IngestOK, EnableOK, Owning
    <2> QED
      BY <2>1 DEF IInv, ConnInv, CanWrite
  <1> QED
    BY <1>1, TypeCorrect, CallsExclude, ConnectionsCorrect, DataCorrect, PTL

\* p's connection, once left on an old snapshot, stays on it and no call of p
\* that writes succeeds, until p dies.
StaleUntilCrash(p) == conn[p] = "stale" =>
    \/ Crash(p)
    \/ /\ conn'[p] = "stale" /\ view'[p] = view[p]
       /\ \A w \in Workers : Home[w] = p /\ reply'[w] \in {"ingested", "enabled"}
             => reply'[w] = reply[w]

\* Only its own commit or rollback ends a transaction, and a stale one gets to
\* neither: the calls that come to it have written before, with a connection
\* that could.
LEMMA StepKeepsStale ==
  ASSUME IInv, NEW p \in Procs, conn[p] = "stale", NEW w \in Workers, Step(w)
  PROVE  StaleUntilCrash(p)
  <1>1. /\ Home[w] \in Procs
        /\ \A v \in Others(w) : ControlKept(v)
        /\ conn \in [Procs -> ConnStates] /\ view \in [Procs -> Content]
        /\ reply \in [Workers -> Replies]
    <2>1. \A v \in Others(w) : ControlKept(v)
      BY DEF Step, IngestStep, EnableStep, CheckAbsent, SampleFails, CreateTable,
             CreateTableFails, InsertBatch, FinishRows, InsertFails, DropTable,
             DropFails, RecordDataset, RecordFails, GetSchema, CheckEnabled,
             CreateIndex, CreateIndexFails, FillIndex, FillIndexFails,
             CreateTriggers, CreateTriggersFail, Goto, Answer, Others,
             ControlKept, IInv, TypeOK
    <2> QED
      BY <2>1, Own DEF IInv, TypeOK, DatabaseTypeOK
  <1>2. ASSUME NEW q \in Procs, q # p,
               ConnsKept(q)
        PROVE  conn'[p] = "stale" /\ view'[p] = view[p]
    BY <1>2 DEF ConnsKept
  <1>3. CASE Home[w] # p
    <2>1. ConnsKept(Home[w])
      <3>1. CASE \/ \E d : Publish(Home[w], d)
                 \/ Read(Home[w]) \/ TimeOutDML(Home[w]) \/ UNCHANGED conVars
                 \/ Abandon(Home[w]) \/ \E d : Write(Home[w], d)
        BY <1>1, <3>1, Own, QuietConns, PublishConns
      <3> QED
        BY <3>1 DEF Step, IngestStep, EnableStep, CheckAbsent, SampleFails,
             CreateTable, CreateTableFails, InsertBatch, FinishRows,
             InsertFails, Rollback, DropTable, DropFails, RecordDataset,
             RecordFails, GetSchema, CheckEnabled, CreateIndex,
             CreateIndexFails, FillIndex, FillIndexFails, CreateTriggers,
             CreateTriggersFail, WriteAndCommit, WriteDDL, Commit
    <2> QED
      BY <1>1, <1>2, <1>3, <2>1 DEF StaleUntilCrash, Others, ControlKept
  <1>4. CASE Home[w] = p
    <2>1. pc[w] \notin {"insert", "drop", "record", "triggers"} /\ ~CanWrite(p)
      BY <1>4, Own DEF IngestOK, EnableOK, Owning, CanWrite
    <2>2. /\ \/ Read(p) \/ TimeOutDML(p) \/ UNCHANGED conVars
          /\ \/ \E r \in {"failed", "already"} : Answer(w, r)
             \/ \E n : Goto(w, n)
      BY <1>4, <2>1
         DEF Step, IngestStep, EnableStep, CheckAbsent, SampleFails,
             CreateTable, CreateTableFails, InsertBatch, FinishRows,
             InsertFails, DropTable, DropFails, RecordDataset, RecordFails,
             GetSchema, CheckEnabled, CreateIndex, CreateIndexFails, FillIndex,
             FillIndexFails, CreateTriggers, CreateTriggersFail,
             WriteAndCommit, WriteDDL, Write
    <2>3. conn'[p] = "stale" /\ view'[p] = view[p]
      BY <1>1, <2>2 DEF Read, TimeOutDML, conVars
    <2>4. reply'[w] \notin {"ingested", "enabled"} \/ reply'[w] = reply[w]
      BY <1>1, <2>2 DEF Answer, Goto
    <2> QED
      BY <1>1, <2>3, <2>4 DEF StaleUntilCrash, Others, ControlKept
  <1> QED
    BY <1>3, <1>4

\* What RecoversFromFailure asks for never happens by itself: a process that a
\* failed call left on an old snapshot answers from it, and makes every ingest
\* and enable_search fail, until it is restarted.
THEOREM StaleUntilRestart ==
    Spec => [][\A p \in Procs : StaleUntilCrash(p)]_vars
  <1>1. TypeOK /\ OneCallPerProcess /\ ConnInv /\ DataInv
          /\ [Next]_vars => [\A p \in Procs : StaleUntilCrash(p)]_vars
    <2> SUFFICES ASSUME IInv, Next, NEW p \in Procs, conn[p] = "stale"
                 PROVE  StaleUntilCrash(p)
      BY DEF IInv, StaleUntilCrash
    <2>1. ASSUME NEW w \in Workers, Call(w)  PROVE StaleUntilCrash(p)
      <3>1. /\ Read(Home[w]) \/ UNCHANGED conVars
            /\ reply'[w] \in {"none", "read"}
            /\ \A v \in Others(w) : reply'[v] = reply[v]
        BY <2>1 DEF Call, StartIngest, StartEnable, Search, DescribeTable,
                    ListDatasets, Enter, ReadOnly, Others, IInv, TypeOK
      <3>2. conn'[p] = "stale" /\ view'[p] = view[p]
        BY <3>1, Own DEF Read, conVars, IInv, TypeOK, DatabaseTypeOK
      <3> QED
        BY <3>1, <3>2 DEF StaleUntilCrash, Others
    <2>2. ASSUME NEW q \in Procs, q # p, Crash(q)  PROVE StaleUntilCrash(p)
      BY <2>2 DEF Crash, Abandon, StaleUntilCrash, IInv, TypeOK, DatabaseTypeOK
    <2>3. ASSUME Crash(p)  PROVE StaleUntilCrash(p)
      BY <2>3 DEF StaleUntilCrash
    <2> QED
      BY <2>1, <2>2, <2>3, StepKeepsStale DEF Next
  <1> QED
    BY <1>1, TypeCorrect, CallsExclude, ConnectionsCorrect, DataCorrect,
       PTL DEF Spec

=============================================================================
