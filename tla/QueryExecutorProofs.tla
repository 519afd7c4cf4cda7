------------------------- MODULE QueryExecutorProofs -------------------------
(***************************************************************************)
(* For every number of threads, every timeout and every row cap: the       *)
(* answers of QueryExecutor are what they claim to be.                     *)
(*                                                                         *)
(* The properties speak of the answers; what makes them inductive is what  *)
(* the lock guarantees about the one connection in between: at most one    *)
(* thread is inside, the armed deadline is that thread's own, and a        *)
(* snapshot is pinned only while a statement runs.                         *)
(***************************************************************************)
EXTENDS QueryExecutor, TLAPS

Armed == {"execute", "fetch", "disarm"}
Ran == {"fetch", "disarm", "return"}
Replied == {"disarm", "return", "answered"}

LockInv == \A w \in Workers : pc[w] \in Inside <=> lock = w

HandlerInv == /\ \A w \in Workers : pc[w] \in Armed => handler = w
              /\ handler # NoWorker => pc[handler] \in Armed

\* Time with the connection and time to the deadline always cover the limit.
BudgetInv == \A w \in Workers :
    /\ pc[w] \in Armed => held[w] + left[w] > Timeout
    /\ reply[w].kind = "timeout" => held[w] > Timeout \/ Misread(query[w])

RowsInv == \A w \in Workers :
    /\ reply[w].kind # "none" => pc[w] \in Replied
    /\ pc[w] = "idle" => fetched[w] = 0
    /\ fetched[w] <= query[w].rows

SnapshotInv ==
    /\ pinned # NoSnapshot => \E w \in Workers : pc[w] \in Ran
    /\ \A w \in Workers :
          /\ called[w] <= version
          /\ pc[w] = "fetch" => seen[w] >= called[w]

IInv == /\ TypeOK /\ LockInv /\ HandlerInv /\ BudgetInv /\ RowsInv
        /\ SnapshotInv /\ CapExact /\ FreshResult

-----------------------------------------------------------------------------
\* The invariant holds initially.
LEMMA InitIInv == Init => IInv
  BY QueryAssumption
  DEF Init, IInv, TypeOK, LockInv, HandlerInv, BudgetInv, RowsInv, SnapshotInv,
      CapExact, FreshResult, Statement, Ends, NoQuery, NoReply, Failure,
      NoSnapshot,
      Inside, Armed, Ran, Replied

Refused == Failure("refused")

\* What a refusal looks like to the caller.
LEMMA RefusedReply ==
    /\ Refused.kind = "refused"
    /\ Refused \in [kind : {"none", "refused", "rows", "timeout", "toobig",
                            "error"},
                    rows : 0 .. RowLimit,
                    truncated : BOOLEAN]
  BY QueryAssumption DEF Refused, Failure, Kind

\* A message becomes an answer without rows; "exceeded the limit" stands for
\* the message "interrupted" only.
LEMMA FailureReply ==
  ASSUME NEW m \in Messages
  PROVE  /\ Failure(Kind(m)).kind \in {"refused", "timeout", "toobig", "error"}
         /\ (Failure(Kind(m)).kind = "timeout") <=> (m = "interrupted")
         /\ Failure(Kind(m)) \in [kind : {"none", "refused", "rows", "timeout",
                                         "toobig", "error"},
                                  rows : 0 .. RowLimit,
                                  truncated : BOOLEAN]
  <1>1. /\ Kind(m) \in {"refused", "timeout", "toobig", "error"}
        /\ (Kind(m) = "timeout") <=> (m = "interrupted")
    BY DEF Messages, Kind
  <1> HIDE DEF Kind
  <1> QED
    BY <1>1, QueryAssumption DEF Failure

\* Whatever a thread was called with is a statement.
LEMMA QueryType == TypeOK => query \in [Workers -> Statement]
  <1>1. NoQuery \in Statement
    BY DEF NoQuery, Statement, Ends, Messages
  <1> QED
    BY <1>1, StatementsAssumption DEF TypeOK

\* Every step keeps every variable's type.
LEMMA StepType == TypeOK /\ RowsInv /\ [Next]_vars => TypeOK'
  <1> SUFFICES ASSUME TypeOK, RowsInv, [Next]_vars PROVE TypeOK'
    OBVIOUS
  <1> USE QueryAssumption, StatementsAssumption DEF TypeOK, Inside, NoSnapshot
  <1>1. ASSUME NEW w \in Workers, NEW q \in Statements, Submit(w, q)
        PROVE TypeOK'
    BY <1>1 DEF Submit, Go
  <1>2. ASSUME NEW w \in Workers, Acquire(w) PROVE TypeOK'
    BY <1>2 DEF Acquire, Go, ledger
  <1>3. ASSUME NEW w \in Workers, Validate(w) PROVE TypeOK'
    <2> UNCHANGED <<query, lock, handler, left, fetched, pinned, version,
                    called, seen, held>>
      BY <1>3 DEF Validate, ledger
    <2>1. CASE query[w].end = "invalid"
      <3>1. /\ pc' = [pc EXCEPT ![w] = "return"]
            /\ reply' = [reply EXCEPT ![w] = Refused]
        BY <1>3, <2>1 DEF Validate, Go, Refused, Kind
      <3> QED
        BY <3>1, RefusedReply
    <2>2. CASE query[w].end # "invalid"
      BY <1>3, <2>2 DEF Validate, Go
    <2> QED
      BY <2>1, <2>2
  <1>4. ASSUME NEW w \in Workers, Arm(w) PROVE TypeOK'
    BY <1>4 DEF Arm, Go, ledger
  <1>5. ASSUME NEW w \in Workers, Execute(w) PROVE TypeOK'
    <2> UNCHANGED <<query, lock, handler, left, fetched, version, called,
                    held>>
      BY <1>5 DEF Execute
    <2>1. CASE query[w].end = "denied"
      <3>1. /\ pc' = [pc EXCEPT ![w] = "disarm"]
            /\ reply' = [reply EXCEPT ![w] = Refused]
            /\ UNCHANGED <<pinned, seen>>
        BY <1>5, <2>1 DEF Execute, Go, Refused, Kind
      <3> QED
        BY <3>1, RefusedReply
    <2>2. CASE query[w].end # "denied"
      <3>1. /\ pinned' = IF pinned = NoSnapshot THEN version ELSE pinned
            /\ seen' = [seen EXCEPT ![w] = pinned']
            /\ pc' = [pc EXCEPT ![w] = "fetch"]
            /\ UNCHANGED reply
        BY <1>5, <2>2 DEF Execute, Go
      <3>2. pinned' \in 0 .. MaxCommits
        BY <3>1
      <3> QED
        BY <3>1, <3>2
    <2> QED
      BY <2>1, <2>2
  <1>6. ASSUME NEW w \in Workers, FetchRow(w) PROVE TypeOK'
    BY <1>6 DEF FetchRow, Wanted, ledger
  <1>7. ASSUME NEW w \in Workers, FetchDone(w) PROVE TypeOK'
    BY <1>7 DEF FetchDone, Go, ledger
  <1>8. ASSUME NEW w \in Workers, Fail(w) PROVE TypeOK'
    <2> DEFINE answer == Failure(Kind(query[w].says))
    <2>1. query[w].says \in Messages
      BY QueryType DEF Statement
    <2>2. /\ pc' = [pc EXCEPT ![w] = "disarm"]
          /\ reply' = [reply EXCEPT ![w] = answer]
          /\ UNCHANGED <<query, lock, handler, left, fetched, pinned, version,
                         called, seen, held>>
      BY <1>8 DEF Fail, Go, ledger
    <2>3. answer \in [kind : {"none", "refused", "rows", "timeout", "toobig",
                              "error"},
                      rows : 0 .. RowLimit,
                      truncated : BOOLEAN]
      BY <2>1, FailureReply
    <2> HIDE DEF answer
    <2> QED
      BY <2>2, <2>3
  <1>9. ASSUME NEW w \in Workers, Interrupt(w) PROVE TypeOK'
    BY <1>9 DEF Interrupt, Go, ledger, Failure, Kind
  <1>10. ASSUME NEW w \in Workers, Disarm(w) PROVE TypeOK'
    BY <1>10 DEF Disarm, Go, ledger
  <1>11. ASSUME NEW w \in Workers, Return(w) PROVE TypeOK'
    BY <1>11 DEF Return, Go, ledger
  <1>12. ASSUME NEW w \in Workers, Collect(w) PROVE TypeOK'
    BY <1>12 DEF Collect, Go, NoQuery, NoReply, Failure
  <1>13. CASE OtherCommit
    BY <1>13 DEF OtherCommit, ledger
  <1>14. CASE Tick
    BY <1>14 DEF Tick
  <1>15. CASE UNCHANGED vars
    BY <1>15 DEF vars, ledger
  <1> QED
    BY <1>1, <1>2, <1>3, <1>4, <1>5, <1>6, <1>7, <1>8, <1>9, <1>10, <1>11,
       <1>12, <1>13, <1>14, <1>15 DEF Next, Step

\* A statement never yields more rows than it has.
LEMMA RowsRead ==
  ASSUME TypeOK, RowsInv, NEW w \in Workers
  PROVE  /\ query[w].rows \in Nat
         /\ fetched[w] \in Nat
         /\ fetched[w] <= query[w].rows
         /\ fetched[w] # query[w].rows => fetched[w] < query[w].rows
  <1>1. query[w].rows \in Nat /\ fetched[w] \in Nat
    BY QueryAssumption, QueryType DEF TypeOK, Statement
  <1>2. fetched[w] <= query[w].rows
    BY DEF RowsInv
  <1> QED
    BY <1>1, <1>2

\* Every step keeps the rest of the invariant.
LEMMA StepIInv == IInv /\ [Next]_vars => IInv'
  <1> SUFFICES ASSUME IInv, [Next]_vars PROVE IInv'
    OBVIOUS
  <1>0. TypeOK'
    BY StepType DEF IInv
  <1> DEFINE Rest == LockInv /\ HandlerInv /\ BudgetInv /\ RowsInv
                     /\ SnapshotInv /\ CapExact /\ FreshResult
  <1> SUFFICES Rest'
    BY <1>0 DEF IInv
  <1>00. \A w \in Workers : query[w].rows \in Nat /\ query[w].says \in Messages
    BY QueryType DEF IInv, Statement
  <1>000. \A q \in Statements : q.rows \in Nat
    BY StatementsAssumption DEF Statement
  <1> USE <1>0, <1>00, QueryAssumption
      DEF IInv, TypeOK, LockInv, HandlerInv, BudgetInv, RowsInv, SnapshotInv,
          CapExact, FreshResult, Inside, Armed, Ran, Replied, NoSnapshot
  <1>1. ASSUME NEW w \in Workers, NEW q \in Statements, Submit(w, q)
        PROVE Rest'
    BY <1>1, <1>000 DEF Submit, Go
  <1>2. ASSUME NEW w \in Workers, Acquire(w) PROVE Rest'
    BY <1>2 DEF Acquire, Go, ledger
  <1>3. ASSUME NEW w \in Workers, Validate(w) PROVE Rest'
    <2> UNCHANGED <<query, lock, handler, left, fetched, pinned, version,
                    called, seen, held>>
      BY <1>3 DEF Validate, ledger
    <2>1. CASE query[w].end = "invalid"
      <3>1. /\ pc[w] = "validate"
            /\ pc' = [pc EXCEPT ![w] = "return"]
            /\ reply' = [reply EXCEPT ![w] = Refused]
        BY <1>3, <2>1 DEF Validate, Go, Refused, Kind
      <3>2. reply'[w].kind = "refused"
        BY <3>1, RefusedReply
      <3>3. \A v \in Workers \ {w} : pc'[v] = pc[v] /\ reply'[v] = reply[v]
        BY <3>1
      <3>4. LockInv' /\ HandlerInv' /\ SnapshotInv'
        BY <3>1
      <3>5. BudgetInv' /\ RowsInv' /\ CapExact' /\ FreshResult'
        BY <3>1, <3>2, <3>3
      <3> QED
        BY <3>4, <3>5
    <2>2. CASE query[w].end # "invalid"
      <3>1. /\ pc[w] = "validate"
            /\ pc' = [pc EXCEPT ![w] = "arm"]
            /\ UNCHANGED reply
        BY <1>3, <2>2 DEF Validate, Go
      <3> QED
        BY <3>1
    <2> QED
      BY <2>1, <2>2
  <1>4. ASSUME NEW w \in Workers, Arm(w) PROVE Rest'
    BY <1>4 DEF Arm, Go, ledger
  <1>5. ASSUME NEW w \in Workers, Execute(w) PROVE Rest'
    <2> UNCHANGED <<query, lock, handler, left, fetched, version, called,
                    held>>
      BY <1>5 DEF Execute
    <2>1. CASE query[w].end = "denied"
      <3>1. /\ pc' = [pc EXCEPT ![w] = "disarm"]
            /\ reply' = [reply EXCEPT ![w] = Refused]
            /\ UNCHANGED <<pinned, seen>>
            /\ pc[w] = "execute"
        BY <1>5, <2>1 DEF Execute, Go, Refused, Kind
      <3>2. /\ reply'[w].kind = "refused"
            /\ \A v \in Workers \ {w} : reply'[v] = reply[v]
        BY <3>1, RefusedReply
      <3>3. LockInv' /\ HandlerInv' /\ SnapshotInv'
        BY <3>1
      <3>4. BudgetInv' /\ RowsInv' /\ CapExact' /\ FreshResult'
        BY <3>1, <3>2
      <3> QED
        BY <3>3, <3>4
    <2>2. CASE query[w].end # "denied"
      <3>1. /\ pinned' = IF pinned = NoSnapshot THEN version ELSE pinned
            /\ seen' = [seen EXCEPT ![w] = pinned']
            /\ pc' = [pc EXCEPT ![w] = "fetch"]
            /\ UNCHANGED reply
        BY <1>5, <2>2 DEF Execute, Go
      <3>2. pinned' \in 0 .. MaxCommits
        BY <3>1
      <3>3. pc[w] = "execute"
        BY <1>5 DEF Execute
      <3>4. pinned = NoSnapshot
        BY <3>3
      <3>5. seen' = [seen EXCEPT ![w] = version]
        BY <3>1, <3>4
      <3> QED
        BY <3>1, <3>2, <3>3, <3>5
    <2> QED
      BY <2>1, <2>2
  <1>6. ASSUME NEW w \in Workers, FetchRow(w) PROVE Rest'
    <2> UNCHANGED <<pc, query, lock, handler, left, pinned, reply, version,
                    called, seen, held>>
      BY <1>6 DEF FetchRow, ledger
    <2>1. /\ pc[w] = "fetch"
          /\ fetched[w] < query[w].rows
          /\ fetched' = [fetched EXCEPT ![w] = @ + 1]
      <3>1. /\ pc[w] = "fetch" /\ fetched[w] # query[w].rows
            /\ fetched' = [fetched EXCEPT ![w] = @ + 1]
        BY <1>6 DEF FetchRow, Exhausted
      <3> QED
        BY <3>1, RowsRead
    <2>2. RowsInv'
      BY <2>1
    <2> QED
      BY <2>1, <2>2
  <1>7. ASSUME NEW w \in Workers, FetchDone(w) PROVE Rest'
    <2> DEFINE cut == fetched[w] > RowLimit
               answer == [kind |-> "rows",
                          rows |-> IF cut THEN RowLimit ELSE fetched[w],
                          truncated |-> cut]
    <2>1. /\ pc[w] = "fetch"
          /\ pc' = [pc EXCEPT ![w] = "disarm"]
          /\ reply' = [reply EXCEPT ![w] = answer]
          /\ UNCHANGED <<query, lock, handler, left, fetched, pinned, version,
                         called, seen, held>>
      BY <1>7 DEF FetchDone, Go, ledger
    <2>2. fetched[w] = RowLimit + 1 \/ fetched[w] = query[w].rows
      BY <1>7 DEF FetchDone, Wanted, Exhausted
    <2>3. /\ answer.kind = "rows"
          /\ answer.truncated <=> query[w].rows > RowLimit
          /\ answer.rows = IF query[w].rows > RowLimit
                           THEN RowLimit
                           ELSE query[w].rows
      <3>1. RowLimit \in Nat
        OBVIOUS
      <3>2. cut <=> query[w].rows > RowLimit
        BY <2>2, <3>1, RowsRead
      <3>3. ~cut => fetched[w] = query[w].rows
        BY <2>2, <3>1, RowsRead
      <3> QED
        BY <3>2, <3>3
    <2> HIDE DEF answer
    <2>4. reply'[w] = answer /\ \A v \in Workers \ {w} : reply'[v] = reply[v]
      BY <2>1
    <2>5. CapExact'
      BY <2>1, <2>3, <2>4
    <2>6. BudgetInv' /\ RowsInv' /\ FreshResult'
      BY <2>1, <2>3, <2>4
    <2> QED
      BY <2>1, <2>5, <2>6
  <1>8. ASSUME NEW w \in Workers, Fail(w) PROVE Rest'
    <2> DEFINE answer == Failure(Kind(query[w].says))
    <2>1. /\ pc[w] = "fetch" /\ query[w].end = "fails"
          /\ pc' = [pc EXCEPT ![w] = "disarm"]
          /\ reply' = [reply EXCEPT ![w] = answer]
          /\ UNCHANGED <<query, lock, handler, left, fetched, pinned, version,
                         called, seen, held>>
      BY <1>8 DEF Fail, Go, ledger
    <2>2. /\ answer.kind \notin {"rows", "none"}
          /\ (answer.kind = "timeout") <=> (query[w].says = "interrupted")
      <3>1. query[w].says \in Messages
        BY <1>00
      <3> HIDE <1>0, <1>00, QueryAssumption
      <3> QED
        BY <3>1, FailureReply
    <2> HIDE DEF answer
    <2>3. /\ reply'[w] = answer
          /\ \A v \in Workers \ {w} : reply'[v] = reply[v]
      BY <2>1
    <2>4. LockInv' /\ HandlerInv' /\ SnapshotInv'
      BY <2>1
    <2>5. BudgetInv'
      BY <2>1, <2>2, <2>3 DEF Misread
    <2>6. RowsInv' /\ CapExact' /\ FreshResult'
      BY <2>1, <2>2, <2>3
    <2> QED
      BY <2>4, <2>5, <2>6
  <1>9. ASSUME NEW w \in Workers, Interrupt(w) PROVE Rest'
    BY <1>9 DEF Interrupt, Go, ledger, Failure, Kind
  <1>10. ASSUME NEW w \in Workers, Disarm(w) PROVE Rest'
    BY <1>10 DEF Disarm, Go, ledger
  <1>11. ASSUME NEW w \in Workers, Return(w) PROVE Rest'
    BY <1>11 DEF Return, Go, ledger
  <1>12. ASSUME NEW w \in Workers, Collect(w) PROVE Rest'
    BY <1>12 DEF Collect, Go, NoQuery, NoReply, Failure
  <1>13. CASE OtherCommit
    BY <1>13 DEF OtherCommit, ledger
  <1>14. CASE Tick
    BY <1>14 DEF Tick
  <1>15. CASE UNCHANGED vars
    BY <1>15 DEF vars, ledger
  <1> QED
    BY <1>1, <1>2, <1>3, <1>4, <1>5, <1>6, <1>7, <1>8, <1>9, <1>10, <1>11,
       <1>12, <1>13, <1>14, <1>15 DEF Next, Step

\* The invariant holds in every state of every behaviour.
THEOREM QueriesCorrect == Spec => []IInv
  BY InitIInv, StepIInv, PTL DEF Spec

\* Every variable keeps its type, for every set of statements.
THEOREM TypeCorrect == Spec => []TypeOK
  <1>1. IInv => TypeOK
    BY DEF IInv
  <1> QED
    BY <1>1, QueriesCorrect, PTL

\* "Exceeded the limit" is only said of a query that had the connection for
\* more than the limit (QueryExecutor.execute's deadline is its own).
THEOREM FullBudgetCorrect == Spec => []FullBudget
  <1>1. IInv => FullBudget
    BY DEF IInv, BudgetInv, FullBudget
  <1> QED
    BY <1>1, QueriesCorrect, PTL

\* The returned rows and the truncated flag are those of the statement.
THEOREM CapExactCorrect == Spec => []CapExact
  <1>1. IInv => CapExact
    BY DEF IInv
  <1> QED
    BY <1>1, QueriesCorrect, PTL

\* A query never answers from a snapshot older than its call.
THEOREM FreshResultCorrect == Spec => []FreshResult
  <1>1. IInv => FreshResult
    BY DEF IInv
  <1> QED
    BY <1>1, QueriesCorrect, PTL

\* The free connection has no deadline armed.
THEOREM NoStrayHandlerCorrect == Spec => []NoStrayHandler
  <1>1. IInv => NoStrayHandler
    BY QueryAssumption
    DEF IInv, TypeOK, LockInv, HandlerInv, NoStrayHandler, Inside, Armed
  <1> QED
    BY <1>1, QueriesCorrect, PTL

-----------------------------------------------------------------------------
(* A query that got the connection ends. *)

\* The most steps that thread w has left until it gives the lock back.
StepsLeft(w) ==
    CASE pc[w] = "validate" -> RowLimit + 7
      [] pc[w] = "arm" -> RowLimit + 6
      [] pc[w] = "execute" -> RowLimit + 5
      [] pc[w] = "fetch" -> RowLimit + 1 - fetched[w] + 3
      [] pc[w] = "disarm" -> 2
      [] pc[w] = "return" -> 1
      [] pc[w] \in {"idle", "waiting", "answered"} -> 0

\* The holder of the lock gets nearer to its answer, or stays where it is and
\* its deadline is not put off.
GoesOn(w) == lock = w =>
    \/ StepsLeft(w)' < StepsLeft(w)
    \/ pc'[w] = pc[w] /\ fetched'[w] = fetched[w] /\ left'[w] <= left[w]

\* The ways on through execute(), all of them forward.
Leads(from, to) == <<from, to>> \in
    {<<"validate", "arm">>, <<"validate", "return">>, <<"arm", "execute">>,
     <<"execute", "fetch">>, <<"execute", "disarm">>, <<"fetch", "disarm">>,
     <<"disarm", "return">>, <<"return", "answered">>}

\* A thread's own steps; the others' leave it where it is.
LEMMA StepGoesOn ==
  ASSUME IInv, NEW v \in Workers, Step(v), NEW w \in Workers
  PROVE  GoesOn(w)
  <1>0. \/ Acquire(v) \/ FetchRow(v)
        \/ /\ \E to : Leads(pc[v], to) /\ Go(v, to)
           /\ fetched' = fetched
           /\ left' = left \/ left' = [left EXCEPT ![v] = Timeout + 1]
    <2>1. CASE Validate(v)
      <3>1. /\ pc[v] = "validate" /\ (Go(v, "return") \/ Go(v, "arm"))
            /\ fetched' = fetched /\ left' = left
        BY <2>1, Zenon DEF Validate
      <3> QED
        BY <3>1 DEF Leads
    <2>2. CASE Arm(v)
      BY <2>2 DEF Arm, Leads
    <2>3. CASE Execute(v)
      <3>1. /\ pc[v] = "execute" /\ (Go(v, "disarm") \/ Go(v, "fetch"))
            /\ fetched' = fetched /\ left' = left
        BY <2>3, Zenon DEF Execute
      <3> QED
        BY <3>1 DEF Leads
    <2>4. CASE FetchDone(v)
      BY <2>4 DEF FetchDone, Leads
    <2>5. CASE Fail(v) \/ Interrupt(v)
      BY <2>5 DEF Fail, Interrupt, Leads
    <2>6. CASE Disarm(v) \/ Return(v)
      BY <2>6 DEF Disarm, Return, Leads
    <2> QED
      BY <2>1, <2>2, <2>3, <2>4, <2>5, <2>6 DEF Step
  <1>1. /\ RowLimit \in Nat /\ fetched[w] \in 0 .. RowLimit + 1
        /\ left[w] \in 0 .. Timeout + 1 /\ Timeout \in Nat
        /\ pc \in [Workers -> Inside \cup {"idle", "waiting", "answered"}]
        /\ fetched \in [Workers -> 0 .. RowLimit + 1]
        /\ left \in [Workers -> 0 .. Timeout + 1]
        /\ lock = w => pc[w] \in Inside
    BY QueryAssumption DEF IInv, TypeOK, LockInv
  <1>2. left[w] <= left[w]
    BY <1>1
  <1>3. CASE v # w
    <2>1. pc'[w] = pc[w] /\ fetched'[w] = fetched[w] /\ left'[w] = left[w]
      <3>1. /\ \/ fetched' = fetched
               \/ fetched' = [fetched EXCEPT ![v] = @ + 1]
            /\ left' = left \/ left' = [left EXCEPT ![v] = Timeout + 1]
            /\ pc' = pc \/ \E place : Go(v, place)
        BY <1>0 DEF Acquire, FetchRow
      <3> QED
        BY <1>1, <1>3, <3>1 DEF Go
    <2> QED
      BY <1>2, <2>1 DEF GoesOn
  <1>4. CASE v = w
    <2> SUFFICES ASSUME lock = w  PROVE StepsLeft(w)' < StepsLeft(w)
      BY DEF GoesOn
    <2>1. CASE Acquire(w)
      BY <2>1, QueryAssumption DEF Acquire
    <2>2. CASE FetchRow(w)
      <3>1. /\ pc[w] = "fetch" /\ pc'[w] = "fetch" /\ fetched'[w] = fetched[w] + 1
        BY <1>1, <2>2 DEF FetchRow
      <3> QED
        BY <1>1, <3>1 DEF StepsLeft
    <2>3. CASE \E to : Leads(pc[w], to) /\ Go(w, to) /\ fetched' = fetched
      <3> PICK to : Leads(pc[w], to) /\ Go(w, to) /\ fetched' = fetched
        BY <2>3
      <3>1. Leads(pc[w], pc'[w]) /\ fetched'[w] = fetched[w]
        BY <1>1 DEF Go
      <3> QED
        BY <1>1, <3>1 DEF StepsLeft, Leads
    <2> QED
      BY <1>0, <1>4, <2>1, <2>2, <2>3
  <1> QED
    BY <1>3, <1>4

\* Whatever the other threads, the clock and the other connections do, a query
\* inside the lock is never sent back and its deadline never put off: at most
\* RowLimit + 7 steps of its own follow, those that compute without end cut off
\* by a deadline that is its own (HandlerInv).
THEOREM QueriesCountDown ==
    Spec => [][\A w \in Workers : GoesOn(w)]_vars
  <1>1. IInv /\ [Next]_vars => [\A w \in Workers : GoesOn(w)]_vars
    <2> SUFFICES ASSUME IInv, Next, NEW w \in Workers  PROVE GoesOn(w)
      OBVIOUS
    <2>1. /\ left[w] \in 0 .. Timeout + 1 /\ Timeout \in Nat
          /\ lock = w => pc[w] \in Inside
      BY QueryAssumption DEF IInv, TypeOK, LockInv
    <2>2. ASSUME NEW v \in Workers,
                 Collect(v) \/ \E q \in Statements : Submit(v, q)
          PROVE  GoesOn(w)
      <3>1. pc[v] \in {"idle", "answered"} /\ left' = left
        BY <2>2 DEF Collect, Submit
      <3>2. v # w => pc'[w] = pc[w] /\ fetched'[w] = fetched[w]
        BY <2>2 DEF Collect, Submit, Go, IInv, TypeOK
      <3> QED
        BY <2>1, <3>1, <3>2 DEF GoesOn, Inside
    <2>3. CASE OtherCommit
      BY <2>1, <2>3 DEF OtherCommit, GoesOn
    <2>4. CASE Tick
      BY <2>1, <2>4 DEF Tick, GoesOn
    <2> QED
      BY <2>2, <2>3, <2>4, StepGoesOn DEF Next
  <1> QED
    BY <1>1, QueriesCorrect, PTL DEF Spec

=============================================================================
