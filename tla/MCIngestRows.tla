------------------------------ MODULE MCIngestRows ------------------------------
(***************************************************************************)
(* Files for three questions, with a sample of two and batches of three.   *)
(* Boundaries: all files of up to four lines over a record with two keys,  *)
(* one with another pair, blank and broken lines: shorter than the sample, *)
(* as long, between sample and batch, a full batch, and more than one.     *)
(* Names: one line with four keys whose headers are any of six.  Values:   *)
(* all columns of up to three cells.                                       *)
(***************************************************************************)
EXTENDS IngestRows, TLC

CONSTANTS a, b, c, d, extra,    \* keys
          id, ID                \* stems

SomeOrder == <<a, b, c, d, extra>>

SomeHeaders == {<<>>, <<id>>, <<ID>>, <<id, 2>>, <<id, 3>>, <<Column, 2>>}

SomeFold == [s \in {id, ID, Column} |-> IF s = ID THEN id ELSE s]

Narrow == a :> "7" @@ b :> "abc"
Other == a :> "" @@ c :> "7"
Four == a :> "7" @@ b :> "7" @@ c :> "7" @@ d :> "7"
LongRow == a :> "007" @@ extra :> "abc"
Single == {a :> t : t \in Texts}

SomeRecords == {Narrow, Other, Four, LongRow} \cup Single

SomeHeadings == [r \in SomeRecords |->
    IF r = Four THEN [1 .. 4 -> SomeHeaders]
    ELSE IF r = Narrow THEN [1 .. 2 -> {<<>>, <<id>>, <<Column, 2>>}]
    ELSE {[i \in 1 .. Len(SourceOrder(r)) |-> IF i = 1 THEN <<id>> ELSE <<id, 2>>]}]

UpTo(n, lines) == UNION {[1 .. k -> lines] : k \in 0 .. n}

SomeFiles == UpTo(4, {Narrow, Other, Blank, Broken})
             \cup UpTo(3, {LongRow, Narrow, Blank})
             \cup UpTo(3, Single)
             \cup {<<Four>>}

=============================================================================
