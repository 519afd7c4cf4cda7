------------------------------- MODULE IngestRows -------------------------------
(***************************************************************************)
(* The data path of one ingest: a parser yields records lazily, the first  *)
(* SAMPLE_SIZE of them are buffered to find the columns, their names       *)
(* (ColumnNames) and their types, and the sample followed by the rest of   *)
(* the stream is inserted in batches within one transaction.  (Store has   *)
(* the transactions, locks and catalog of the same calls; here it is the   *)
(* rows that count.)                                                       *)
(*                                                                         *)
(* A file is a sequence of lines: records (what a line of CSV, an element  *)
(* of a JSON array or a row of a sheet becomes), blank lines, and lines    *)
(* that do not parse.  A cell is one text of each kind that int(), float() *)
(* and SQLite tell apart.                                                  *)
(***************************************************************************)
EXTENDS ColumnNames, FiniteSets

CONSTANTS
    KeyOrder,       \* the headers and JSON keys, in the order records have them
    Ragged,         \* the key of the cells that a row has beyond the header
    Records,        \* the records of the files of the model
    Headings,       \* Headings[r]: what the headers of record r may normalize to
    Fold,           \* Fold[s]: stem s as SQLite compares names, in lower case
    Files,          \* the files of the model
    SampleSize,     \* TypeInferrer.SAMPLE_SIZE
    BatchSize,      \* _BATCH_SIZE
    Blank, Broken   \* the two other kinds of line

Keys == {KeyOrder[i] : i \in 1 .. Len(KeyOrder)}

\* "wide" is an integer of more than 64 bits, "huge" a number like 1e999.
IntTexts == {"7", "007", "1_000", "wide"}
NumberTexts == IntTexts \cup {"1.5", "huge", "nan"}
Texts == NumberTexts \cup {"abc", ""}

Lines == Records \cup {Blank, Broken}

SourceOrder(r) == SelectSeq(KeyOrder, LAMBDA k : k \in DOMAIN r)

ASSUME RowsAssumption ==
    /\ Ragged \in Keys
    /\ \A r \in Records : DOMAIN r \subseteq Keys /\ \A k \in DOMAIN r : r[k] \in Texts
    /\ \A r \in Records : \A h \in Headings[r] :
          h \in Seq(Normalized) /\ Len(h) = Len(SourceOrder(r))
    /\ {Blank, Broken} \cap Records = {}
    /\ Files \subseteq Seq(Lines)
    /\ SampleSize \in Nat \ {0}
    /\ BatchSize \in Nat \ {0}

\* "stream" parsers (CSV, JSONL, XLSX; JSON at an element that is no object)
\* fail at the line that is broken, the "whole" one (JSON that does not parse)
\* before it yields anything.  Blank lines and rows longer than the header do
\* not occur in JSON.
Parsers == {"stream", "whole"}

VARIABLES
    parser,     \* the kind of parser the extension selected
    file,       \* the lines
    pos,        \* the parser's next line
    sample,     \* sample_rows
    order,      \* source_order: the keys of the first record
    types,      \* types[i]: declared type of column i
    queue,      \* the records of the sample that are not in a batch yet
    batch,      \* the batch being filled
    pending,    \* rows inserted, not committed
    table,      \* rows committed
    count,      \* row_count
    pc          \* "sample", "names", "insert", "done" or "failed"

input == <<parser, file>>
output == <<pending, table, count>>
rowVars == <<input, pos, sample, order, types, queue, batch, output, pc>>
vars == <<namesVars, rowVars>>

\* The lines of f that hold a record, and how many of them are up to line p.
Recorded(f) == {p \in 1 .. Len(f) : f[p] \notin {Blank, Broken}}

Rank(f, p) == Cardinality({q \in Recorded(f) : q <= p})

\* The records of f, in order.
InFile(f) == [n \in 1 .. Cardinality(Recorded(f)) |->
                f[CHOOSE p \in Recorded(f) : Rank(f, p) = n]]

TooLong(line) == line \in Records /\ Ragged \in DOMAIN line

HeadingsOf(f) == IF InFile(f) = <<>> THEN {<<>>} ELSE Headings[InFile(f)[1]]

Init ==
    /\ parser \in Parsers
    /\ file \in Files
    /\ parser = "whole" => \A i \in 1 .. Len(file) : file[i] # Blank /\ ~TooLong(file[i])
    /\ headers \in HeadingsOf(file)
    /\ result = <<>> /\ seen = {} /\ unique = Unusable /\ suffix = 2
    /\ pos = 1
    /\ sample = <<>> /\ queue = <<>> /\ batch = <<>>
    /\ order = <<>>
    /\ types = <<>>
    /\ pending = <<>> /\ table = <<>> /\ count = 0
    /\ pc = "sample"

-----------------------------------------------------------------------------
(* The parser, as its consumer pulls it. *)

Ended == pos > Len(file)

Wanted == \/ pc = "sample" /\ Len(sample) < SampleSize
          \/ pc = "insert" /\ queue = <<>> /\ Len(batch) < BatchSize

BrokenHere == \/ ~Ended /\ file[pos] = Broken
              \/ parser = "whole" /\ \E i \in 1 .. Len(file) : file[i] = Broken

Yields == Wanted /\ ~Ended /\ ~BrokenHere /\ file[pos] # Blank

SkipBlank ==
    /\ Wanted /\ ~Ended /\ ~BrokenHere
    /\ file[pos] = Blank
    /\ pos' = pos + 1
    /\ UNCHANGED <<namesVars, input, sample, order, types, queue, batch, output, pc>>

Abort ==
    /\ pc' = "failed"
    /\ pending' = <<>>
    /\ UNCHANGED <<namesVars, input, pos, sample, order, types, queue, batch, table, count>>

ParseFails == Wanted /\ BrokenHere /\ Abort

\* The file is gone, has no header row, or is over a parser's size limit.
OpenFails == pc = "sample" /\ pos = 1 /\ sample = <<>> /\ Abort

-----------------------------------------------------------------------------
(* TypeInferrer *)

\* Bug: the empty values of a column count as text.
Sampled_WithEmpty(rows, k) == {rows[i][k] : i \in {j \in 1 .. Len(rows) : k \in DOMAIN rows[j]}}

\* The non-empty values of key k in some records.
Sampled(rows, k) ==
    {rows[i][k] : i \in {j \in 1 .. Len(rows) : k \in DOMAIN rows[j]}} \ {""}

\* Bug: any() for all().
TypeOf_Any(values) ==
    IF values \cap IntTexts # {} THEN "INTEGER"
    ELSE IF values \cap NumberTexts # {} THEN "REAL"
    ELSE "TEXT"

TypeOf(values) ==
    IF values = {} THEN "TEXT"
    ELSE IF values \subseteq IntTexts THEN "INTEGER"
    ELSE IF values \subseteq NumberTexts THEN "REAL"
    ELSE "TEXT"

-----------------------------------------------------------------------------
(* DataIngestor.ingest *)

SampleRow ==
    /\ pc = "sample"
    /\ Yields
    /\ sample' = Append(sample, file[pos])
    /\ pos' = pos + 1
    /\ UNCHANGED <<namesVars, input, order, types, queue, batch, output, pc>>

SampleDone == pc = "sample" /\ (Len(sample) = SampleSize \/ Ended) /\ ~(Wanted /\ BrokenHere)

Unnamed(r) == DOMAIN r = {} \/ Ragged \in DOMAIN r

\* No row; or no table can be made: a key that is no string, or no key at all.
SampleUnusable ==
    /\ SampleDone
    /\ IF sample = <<>> THEN TRUE ELSE Unnamed(sample[1])
    /\ Abort

\* The first record's keys become the headers of _normalize_columns.
TakeHeaders ==
    /\ SampleDone
    /\ sample # <<>>
    /\ ~Unnamed(sample[1])
    /\ order' = SourceOrder(sample[1])
    /\ pc' = "names"
    /\ UNCHANGED <<namesVars, input, pos, sample, types, queue, batch, output>>

NameColumn == pc = "names" /\ NamesNext /\ UNCHANGED rowVars

\* As SQLite compares them.
Folded(name) == IF name = <<>> THEN name ELSE [name EXCEPT ![1] = Fold[name[1]]]

SameForSQLite == \E i, j \in 1 .. Len(result) :
                    i # j /\ Folded(result[i]) = Folded(result[j])

\* Bug: the generator goes on where the sample stopped.
CreateTable_NoChain ==
    /\ pc = "names" /\ NamesDone /\ ~SameForSQLite
    /\ types' = [i \in 1 .. Len(order) |-> TypeOf(Sampled(sample, order[i]))]
    /\ queue' = <<>>
    /\ pc' = "insert"
    /\ UNCHANGED <<namesVars, input, pos, sample, order, batch, output>>

\* infer, create_table, and chain(sample_rows, rows)
CreateTable ==
    /\ pc = "names" /\ NamesDone /\ ~SameForSQLite
    /\ types' = [i \in 1 .. Len(order) |-> TypeOf(Sampled(sample, order[i]))]
    /\ queue' = sample
    /\ pc' = "insert"
    /\ UNCHANGED <<namesVars, input, pos, sample, order, batch, output>>

\* "duplicate column name"
CreateTableFails == pc = "names" /\ NamesDone /\ SameForSQLite /\ Abort

\* islice over chain(sample_rows, rows)
BatchRow ==
    /\ pc = "insert"
    /\ Len(batch) < BatchSize
    /\ \/ /\ queue # <<>>
          /\ batch' = Append(batch, Head(queue))
          /\ queue' = Tail(queue)
          /\ UNCHANGED pos
       \/ /\ Yields
          /\ batch' = Append(batch, file[pos])
          /\ pos' = pos + 1
          /\ UNCHANGED queue
    /\ UNCHANGED <<namesVars, input, sample, order, types, output, pc>>

Exhausted == queue = <<>> /\ Ended /\ ~BrokenHere

\* row.get(col, "")
Cell(r, k) == IF k \in DOMAIN r THEN r[k] ELSE ""

\* What SQLite reads as a number, and the number it keeps for it.
Read == [t \in {"7", "007", "1.5", "wide", "huge"} |->
            CASE t \in {"7", "007"} -> "7"
              [] t = "1.5"  -> "1.5"
              [] t = "wide" -> "rounded"
              [] t = "huge" -> "Inf"]

AsText(t) == [form |-> "text", value |-> t]
AsNumber(t) == [form |-> "number", value |-> Read[t]]

\* Column affinity: text that is a number becomes one, other text stays text.
Stored(type, t) ==
    IF type # "TEXT" /\ t \in DOMAIN Read THEN AsNumber(t) ELSE AsText(t)

\* A record's other keys are not stored.
Row(r) == [i \in 1 .. Len(order) |-> Stored(types[i], Cell(r, order[i]))]

FlushBatch ==
    /\ pc = "insert"
    /\ batch # <<>>
    /\ Len(batch) = BatchSize \/ Exhausted
    /\ pending' = pending \o [i \in 1 .. Len(batch) |-> Row(batch[i])]
    /\ count' = count + Len(batch)
    /\ batch' = <<>>
    /\ UNCHANGED <<namesVars, input, pos, sample, order, types, queue, table, pc>>

\* A value that cannot be bound, or the database fails.
InsertFails == pc = "insert" /\ batch # <<>> /\ Abort

\* Bug: the empty batch at the end of the stream is not recognized.
Finish_NoEmptyCheck ==
    /\ pc = "insert"
    /\ batch # <<>> /\ Exhausted
    /\ table' = pending
    /\ pending' = <<>>
    /\ pc' = "done"
    /\ UNCHANGED <<namesVars, input, pos, sample, order, types, queue, batch, count>>

Finish ==
    /\ pc = "insert"
    /\ batch = <<>> /\ Exhausted
    /\ table' = pending
    /\ pending' = <<>>
    /\ pc' = "done"
    /\ UNCHANGED <<namesVars, input, pos, sample, order, types, queue, batch, count>>

Next == \/ SkipBlank \/ ParseFails \/ OpenFails
        \/ SampleRow \/ SampleUnusable \/ TakeHeaders
        \/ NameColumn \/ CreateTable \/ CreateTableFails
        \/ BatchRow \/ FlushBatch \/ InsertFails \/ Finish

Spec == Init /\ [][Next]_vars

\* One thread runs the call to its end.
FairSpec == Spec /\ WF_vars(Next)

-----------------------------------------------------------------------------
(* Properties *)

RowCount == Len(InFile(file))

\* The text in the file for row i and column k.
Original(i, k) == Cell(InFile(file)[i], order[k])

\* A finished ingest holds every record of the file once and in order, whether
\* it came through the sample, a full batch or the last one, and counted it; a
\* file with a line that does not parse never finishes.
RowsExact ==
    pc = "done" =>
        /\ Len(table) = RowCount /\ count = RowCount
        /\ \A i \in 1 .. RowCount, k \in 1 .. Len(order) :
              table[i][k] \in {AsText(Original(i, k)), Stored("REAL", Original(i, k))}
        /\ \A i \in 1 .. Len(file) : file[i] # Broken

\* The non-empty cells of column k among the first SampleSize records of the
\* file, blank lines apart.
Leading(k) ==
    {Original(i, k) : i \in {j \in 1 .. RowCount : j <= SampleSize}} \ {""}

\* The declared type of a column is the narrowest that fits all of these.
TypesFit ==
    pc \in {"insert", "done"} => \A k \in 1 .. Len(order) :
        /\ types[k] = "INTEGER" <=> Leading(k) # {} /\ Leading(k) \subseteq IntTexts
        /\ types[k] = "TEXT" <=> Leading(k) = {} \/ ~(Leading(k) \subseteq NumberTexts)

\* A cell loses its spelling only in a column that started with numbers, and
\* to the number it denotes; nowhere does it become another one, unless it is
\* out of range.  What such a column started with is stored as numbers, save
\* what only Python reads as one.
ValuesKept ==
    pc = "done" => \A i \in 1 .. RowCount, k \in 1 .. Len(order) :
        LET text == Original(i, k)
            numbers == Leading(k) # {} /\ Leading(k) \subseteq NumberTexts IN
        /\ \/ table[i][k] = AsText(text)
           \/ numbers /\ text \in {"7", "007", "1.5"} /\ table[i][k] = AsNumber(text)
           \/ numbers /\ text \in {"wide", "huge"}
        /\ numbers /\ i <= SampleSize /\ text \notin {"", "1_000", "nan"} =>
              table[i][k].form = "number"

\* Every ingest comes to an end: rows on file, or none and an error.
Terminates == <>(pc \in {"done", "failed"})

=============================================================================
