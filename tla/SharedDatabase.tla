--------------------------- MODULE SharedDatabase ---------------------------
(***************************************************************************)
(* SQLite in WAL mode under Python's sqlite3 module, as the read-write     *)
(* connections of the processes that share the file see it.  Nothing of    *)
(* this is in src/: it is the environment that src/src/storage runs in.    *)
(*                                                                         *)
(* A connection is                                                         *)
(*   "auto"     not in a transaction;                                      *)
(*   "begun"    in a transaction that holds neither snapshot nor lock:     *)
(*              the driver issued BEGIN for a DML statement that then      *)
(*              timed out on another process's write lock;                 *)
(*   "reading"  in a transaction whose snapshot is the current content;    *)
(*   "stale"    the same after another process committed: reads still      *)
(*              answer from the old snapshot, every write fails at once;   *)
(*   "writing"  in a transaction that holds the file's one write lock.     *)
(* A DDL statement outside a transaction commits by itself; a DML          *)
(* statement outside a transaction begins one first.                       *)
(***************************************************************************)
EXTENDS StoreContent

CONSTANT Procs      \* the processes with a connection to the file

VARIABLES
    db,     \* the committed content of the file
    conn,   \* conn[p]: state of p's read-write connection
    view    \* view[p]: what p's open transaction sees, if it pinned anything

ConnStates == {"auto", "begun", "reading", "stale", "writing"}

NotPinned == {"auto", "begun"}

DatabaseTypeOK ==
    /\ db \in Content
    /\ conn \in [Procs -> ConnStates]
    /\ view \in [Procs -> Content]

DatabaseInit ==
    /\ db = EmptyContent
    /\ conn = [p \in Procs |-> "auto"]
    /\ view = [p \in Procs |-> EmptyContent]

\* The content p's next statement sees.
Seen(p) == IF conn[p] \in NotPinned THEN db ELSE view[p]

\* Whether a write by p succeeds within the busy timeout.
CanWrite(p) == /\ conn[p] # "stale"
               /\ \A q \in Procs \ {p} : conn[q] # "writing"

-----------------------------------------------------------------------------
\* A read pins a snapshot if a transaction was begun, and changes nothing else.
Read(p) ==
    /\ conn' = [conn EXCEPT ![p] = IF @ = "begun" THEN "reading" ELSE @]
    /\ view' = [view EXCEPT ![p] = IF conn[p] = "begun" THEN db ELSE @]
    /\ UNCHANGED db

\* p's open transaction now sees d and holds the write lock.
Write(p, d) ==
    /\ CanWrite(p)
    /\ conn' = [conn EXCEPT ![p] = "writing"]
    /\ view' = [view EXCEPT ![p] = d]
    /\ UNCHANGED db

\* d becomes the committed content; snapshots taken before are now old.
Publish(p, d) ==
    /\ db' = d
    /\ conn' = [q \in Procs |-> IF q = p THEN "auto"
                                ELSE IF conn[q] = "reading" /\ d # db
                                     THEN "stale"
                                     ELSE conn[q]]
    /\ view' = [view EXCEPT ![p] = EmptyContent]

\* Leave the transaction without changing the file.
Abandon(p) ==
    /\ conn' = [conn EXCEPT ![p] = "auto"]
    /\ view' = [view EXCEPT ![p] = EmptyContent]
    /\ UNCHANGED db

Rollback(p) == Abandon(p)

Commit(p) == IF conn[p] = "writing" THEN Publish(p, view[p]) ELSE Abandon(p)

\* One statement and the commit() behind it: nobody sees a state between.
WriteAndCommit(p, d) == CanWrite(p) /\ Publish(p, d)

\* One DDL statement without a commit() behind it.
WriteDDL(p, d) == IF conn[p] = "auto" THEN WriteAndCommit(p, d) ELSE Write(p, d)

\* A DML statement that timed out: only the driver's BEGIN has happened.
TimeOutDML(p) ==
    /\ ~CanWrite(p)
    /\ conn' = [conn EXCEPT ![p] = IF @ = "auto" THEN "begun" ELSE @]
    /\ UNCHANGED <<db, view>>

=============================================================================
