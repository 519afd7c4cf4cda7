--------------------------- MODULE QueryExecutor ---------------------------
(***************************************************************************)
(* SQLiteStore.query and QueryExecutor.execute: the threads of one process *)
(* run caller-written SELECTs on one shared read-only connection, one at a *)
(* time under _query_lock.  The wall-clock budget is a progress handler,   *)
(* a property of the connection and not of the statement, and the row cap  *)
(* reads one row more than it returns to tell "cut off" from "complete".   *)
(*                                                                         *)
(* The database is a version number here: other connections commit, and a  *)
(* statement reads the version it pinned when it started.                  *)
(***************************************************************************)
EXTENDS Integers

CONSTANTS
    Workers,        \* the threads that call query
    NoWorker,       \* no thread: the free lock, the absent handler
    Timeout,        \* timeout_seconds, in ticks of the clock
    RowLimit,       \* _ROW_LIMIT
    Statements,     \* the statements of the model
    MaxCommits      \* bound: commits of other connections

ASSUME QueryAssumption ==
    /\ NoWorker \notin Workers
    /\ Timeout \in Nat
    /\ RowLimit \in Nat \ {0}
    /\ MaxCommits \in Nat

NoSnapshot == -1

\* What becomes of a statement: refused by SQLValidator.validate, refused by
\* the authorizer while it is prepared, or it produces some rows and then
\* ends, computes without end, or fails with a message.
Ends == {"invalid", "denied", "done", "endless", "fails"}

\* The first of the texts that execute() looks for in a message, if any.  The
\* database's own messages contain them, but so does "no such column: x" when
\* x is named like one of them.
Messages == {"not authorized", "interrupted", "too big", "other"}

Statement == [rows : Nat, end : Ends, says : Messages]

ASSUME StatementsAssumption == Statements \subseteq Statement

VARIABLES
    pc,         \* pc[w]: where thread w is
    query,      \* query[w]: the statement it was called with
    lock,       \* holder of _query_lock
    handler,    \* the thread whose deadline the progress handler tests
    left,       \* left[w]: ticks until w's deadline is past, 0 when it is
    fetched,    \* fetched[w]: rows read so far
    pinned,     \* version the connection's open statement reads, if any
    reply,      \* reply[w]: kind, rows and truncation of the answer
    version,    \* version of the file: number of commits so far
    held,       \* history: ticks since w got the lock, up to Timeout + 1
    called,     \* history: version of the file when w was called
    seen        \* history: version w's statement read

ledger == <<called, seen, held>>
vars == <<pc, query, lock, handler, left, fetched, pinned, reply, version,
          ledger>>

Inside == {"validate", "arm", "execute", "fetch", "disarm", "return"}

NoQuery == [rows |-> 0, end |-> "done", says |-> "other"]
Failure(k) == [kind |-> k, rows |-> 0, truncated |-> FALSE]
NoReply == Failure("none")

\* The error that a message is turned into.
Kind(message) ==
    CASE message = "not authorized" -> "refused"
      [] message = "interrupted"    -> "timeout"
      [] message = "too big"        -> "toobig"
      [] message = "other"          -> "error"

Init ==
    /\ pc = [w \in Workers |-> "idle"]
    /\ query = [w \in Workers |-> NoQuery]
    /\ lock = NoWorker
    /\ handler = NoWorker
    /\ left = [w \in Workers |-> 0]
    /\ fetched = [w \in Workers |-> 0]
    /\ pinned = NoSnapshot
    /\ reply = [w \in Workers |-> NoReply]
    /\ version = 0
    /\ held = [w \in Workers |-> 0]
    /\ called = [w \in Workers |-> 0]
    /\ seen = [w \in Workers |-> 0]

-----------------------------------------------------------------------------
Go(w, place) == pc' = [pc EXCEPT ![w] = place]

\* A thread calls the query tool with any statement.
Submit(w, q) ==
    /\ pc[w] = "idle"
    /\ Go(w, "waiting")
    /\ query' = [query EXCEPT ![w] = q]
    /\ called' = [called EXCEPT ![w] = version]
    /\ UNCHANGED <<lock, handler, left, fetched, pinned, reply, version, seen,
                   held>>

Acquire(w) ==
    /\ pc[w] = "waiting"
    /\ lock = NoWorker
    /\ Go(w, "validate")
    /\ lock' = w
    /\ UNCHANGED <<query, handler, left, fetched, pinned, reply, version,
                   ledger>>

Validate(w) ==
    /\ pc[w] = "validate"
    /\ IF query[w].end = "invalid"
       THEN Go(w, "return") /\ reply' = [reply EXCEPT ![w] = Failure("refused")]
       ELSE Go(w, "arm") /\ UNCHANGED reply
    /\ UNCHANGED <<query, lock, handler, left, fetched, pinned, version,
                   ledger>>

\* Bug: a deadline kept from the thread's last query while it is not past.
Arm_KeepDeadline(w) ==
    /\ pc[w] = "arm"
    /\ Go(w, "execute")
    /\ left' = [left EXCEPT ![w] = IF @ = 0 THEN Timeout + 1 ELSE @]
    /\ handler' = w
    /\ UNCHANGED <<query, lock, fetched, pinned, reply, version, ledger>>

Arm(w) ==
    /\ pc[w] = "arm"
    /\ Go(w, "execute")
    /\ left' = [left EXCEPT ![w] = Timeout + 1]
    /\ handler' = w
    /\ UNCHANGED <<query, lock, fetched, pinned, reply, version, ledger>>

\* The statement is prepared, which the authorizer may refuse, and started:
\* it reads the snapshot its connection has pinned, else the current version.
Execute(w) ==
    /\ pc[w] = "execute"
    /\ \/ /\ query[w].end = "denied"
          /\ Go(w, "disarm")
          /\ reply' = [reply EXCEPT ![w] = Failure(Kind("not authorized"))]
          /\ UNCHANGED <<pinned, seen>>
       \/ /\ query[w].end # "denied"
          /\ Go(w, "fetch")
          /\ pinned' = IF pinned = NoSnapshot THEN version ELSE pinned
          /\ seen' = [seen EXCEPT ![w] = pinned']
          /\ UNCHANGED reply
    /\ UNCHANGED <<query, lock, handler, left, fetched, version, called, held>>

-----------------------------------------------------------------------------
(* fetchmany(_ROW_LIMIT + 1) *)

\* Bug: no extra row.
Wanted_OneShort == RowLimit
Wanted == RowLimit + 1

Exhausted(w) == fetched[w] = query[w].rows

FetchRow(w) ==
    /\ pc[w] = "fetch"
    /\ ~Exhausted(w)
    /\ fetched[w] < Wanted
    /\ fetched' = [fetched EXCEPT ![w] = @ + 1]
    /\ UNCHANGED <<pc, query, lock, handler, left, pinned, reply, version,
                   ledger>>

\* Enough rows or no more rows.  Lines 78 to 81 follow the finally block but
\* read only the rows, so the answer is fixed here.
FetchDone(w) ==
    /\ pc[w] = "fetch"
    /\ \/ fetched[w] = Wanted
       \/ Exhausted(w) /\ query[w].end = "done"
    /\ Go(w, "disarm")
    /\ LET cut == fetched[w] > RowLimit IN
       reply' = [reply EXCEPT ![w] =
                   [kind |-> "rows",
                    rows |-> IF cut THEN RowLimit ELSE fetched[w],
                    truncated |-> cut]]
    /\ UNCHANGED <<query, lock, handler, left, fetched, pinned, version,
                   ledger>>

\* The statement itself fails.
Fail(w) ==
    /\ pc[w] = "fetch"
    /\ fetched[w] < Wanted
    /\ Exhausted(w)
    /\ query[w].end = "fails"
    /\ Go(w, "disarm")
    /\ reply' = [reply EXCEPT ![w] = Failure(Kind(query[w].says))]
    /\ UNCHANGED <<query, lock, handler, left, fetched, pinned, version,
                   ledger>>

\* Bug: a statement out of time is tried again.
Interrupt_Retry(w) ==
    /\ pc[w] = "fetch"
    /\ handler # NoWorker
    /\ left[handler] = 0
    /\ Go(w, "arm")
    /\ UNCHANGED <<query, lock, handler, left, fetched, pinned, reply, version,
                   ledger>>

\* The progress handler, called between instructions, finds its deadline past.
Interrupt(w) ==
    /\ pc[w] = "fetch"
    /\ handler # NoWorker
    /\ left[handler] = 0
    /\ Go(w, "disarm")
    /\ reply' = [reply EXCEPT ![w] = Failure(Kind("interrupted"))]
    /\ UNCHANGED <<query, lock, handler, left, fetched, pinned, version,
                   ledger>>

\* Bug: no finally.
Disarm_OnlyOnSuccess(w) ==
    /\ pc[w] = "disarm"
    /\ Go(w, "return")
    /\ handler' = IF reply[w].kind = "rows" THEN NoWorker ELSE handler
    /\ UNCHANGED <<query, lock, left, fetched, pinned, reply, version, ledger>>

\* finally
Disarm(w) ==
    /\ pc[w] = "disarm"
    /\ Go(w, "return")
    /\ handler' = NoWorker
    /\ UNCHANGED <<query, lock, left, fetched, pinned, reply, version, ledger>>

\* Bug: a generator instead of a list: the cursor outlives the call.
Return_KeepCursor(w) ==
    /\ pc[w] = "return"
    /\ Go(w, "answered")
    /\ lock' = NoWorker
    /\ pinned' = IF reply[w].truncated THEN pinned ELSE NoSnapshot
    /\ UNCHANGED <<query, handler, left, fetched, reply, version, ledger>>

\* The cursor is local: leaving execute() finalizes a statement that still
\* had rows, and with it the snapshot.  Then the lock is released.
Return(w) ==
    /\ pc[w] = "return"
    /\ Go(w, "answered")
    /\ lock' = NoWorker
    /\ pinned' = NoSnapshot
    /\ UNCHANGED <<query, handler, left, fetched, reply, version, ledger>>

\* The caller takes the answer; nothing of the call remains.
Collect(w) ==
    /\ pc[w] = "answered"
    /\ Go(w, "idle")
    /\ query' = [query EXCEPT ![w] = NoQuery]
    /\ fetched' = [fetched EXCEPT ![w] = 0]
    /\ reply' = [reply EXCEPT ![w] = NoReply]
    /\ held' = [held EXCEPT ![w] = 0]
    /\ called' = [called EXCEPT ![w] = 0]
    /\ seen' = [seen EXCEPT ![w] = 0]
    /\ UNCHANGED <<lock, handler, left, pinned, version>>

-----------------------------------------------------------------------------
Step(w) == \/ Acquire(w) \/ Validate(w) \/ Arm(w) \/ Execute(w)
           \/ FetchRow(w) \/ FetchDone(w) \/ Fail(w) \/ Interrupt(w)
           \/ Disarm(w) \/ Return(w)

\* Another connection commits.
OtherCommit ==
    /\ version < MaxCommits
    /\ version' = version + 1
    /\ UNCHANGED <<pc, query, lock, handler, left, fetched, pinned, reply,
                   ledger>>

\* The clock.  It stops for a thread once its deadline, or its budget, is past.
Tick ==
    /\ \E w \in Workers : left[w] > 0 \/ (pc[w] \in Inside /\ held[w] <= Timeout)
    /\ left' = [w \in Workers |-> IF left[w] > 0 THEN left[w] - 1 ELSE 0]
    /\ held' = [w \in Workers |->
                  IF pc[w] \in Inside /\ held[w] <= Timeout
                  THEN held[w] + 1
                  ELSE held[w]]
    /\ UNCHANGED <<pc, query, lock, handler, fetched, pinned, reply, version,
                   called, seen>>

Next ==
    \/ \E w \in Workers : \/ \E q \in Statements : Submit(w, q)
                          \/ Step(w)
                          \/ Collect(w)
    \/ OtherCommit
    \/ Tick

Spec == Init /\ [][Next]_vars

\* Every thread that can go on does, and time passes.  A thread that waits for
\* the lock is promised nothing: threading.Lock is not fair.
FairSpec == /\ Spec
            /\ \A w \in Workers : WF_vars(Step(w))
            /\ WF_vars(Tick)

-----------------------------------------------------------------------------
(* Properties *)

\* Every variable keeps its type.
TypeOK ==
    /\ pc \in [Workers -> Inside \cup {"idle", "waiting", "answered"}]
    /\ query \in [Workers -> Statements \cup {NoQuery}]
    /\ lock \in Workers \cup {NoWorker}
    /\ handler \in Workers \cup {NoWorker}
    /\ left \in [Workers -> 0 .. Timeout + 1]
    /\ fetched \in [Workers -> 0 .. RowLimit + 1]
    /\ pinned \in 0 .. MaxCommits \cup {NoSnapshot}
    /\ reply \in [Workers ->
                    [kind : {"none", "refused", "rows", "timeout",
                             "toobig", "error"},
                     rows : 0 .. RowLimit,
                     truncated : BOOLEAN]]
    /\ version \in 0 .. MaxCommits
    /\ held \in [Workers -> 0 .. Timeout + 1]
    /\ called \in [Workers -> 0 .. MaxCommits]
    /\ seen \in [Workers -> 0 .. MaxCommits]

\* A query that is told it exceeded the limit has had the connection for more
\* than the whole limit: neither the wait for the threads before it nor the
\* deadline of one of them shortens its budget.  The one exception is a
\* statement whose own error message has the word "interrupted" in it.
Misread(q) == q.end = "fails" /\ q.says = "interrupted"

FullBudget ==
    \A w \in Workers :
        reply[w].kind = "timeout" => held[w] > Timeout \/ Misread(query[w])

\* An answer with rows holds all of them up to the cap, and says "truncated"
\* exactly when the statement had more.
CapExact ==
    \A w \in Workers : reply[w].kind = "rows" =>
        /\ reply[w].truncated <=> query[w].rows > RowLimit
        /\ reply[w].rows = IF query[w].rows > RowLimit
                           THEN RowLimit
                           ELSE query[w].rows

\* A query sees everything that was committed before it was called: no earlier
\* query, cut off or failed, leaves the connection on an old snapshot.
FreshResult ==
    \A w \in Workers : reply[w].kind = "rows" => seen[w] >= called[w]

\* Between two queries no deadline is armed on the connection.
NoStrayHandler == lock = NoWorker => handler = NoWorker

\* Every query that got the connection gives it back with an answer, also when
\* its statement would run for ever.
QueryIsAnswered ==
    \A w \in Workers : lock = w ~> pc[w] = "answered"

=============================================================================
