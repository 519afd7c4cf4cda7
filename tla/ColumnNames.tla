------------------------------ MODULE ColumnNames ------------------------------
(***************************************************************************)
(* _normalize_columns of src/src/storage/ingest.py: the headers of a file, *)
(* in order, become the column names of its table.  A header that leaves   *)
(* no usable character falls back to its position, and a name that an      *)
(* earlier column has taken gets the first free numeric suffix.            *)
(*                                                                         *)
(* A column name is a sequence: a stem and the numbers appended to it with *)
(* underscores, <<a, 2>> for "a_2".  A file may well bring a header "a_2"  *)
(* of its own, or "column_2".  IngestRows runs the loop as a part of an    *)
(* ingest.                                                                 *)
(***************************************************************************)
EXTENDS Naturals, Sequences

CONSTANTS
    Stems,          \* the stems of normalized headers
    Column,         \* the stem of the positional fallback
    Normalized      \* what normalize_identifier returns for the headers

\* An unusable header normalizes to the empty name.
Unusable == <<>>

ASSUME ColumnAssumption == Normalized \subseteq Seq(Stems \cup {Column} \cup Nat)

VARIABLES
    headers,    \* the normalized headers, in file order
    result,     \* the column names so far
    seen,       \* the same as a set
    unique,     \* the name being tried for the next header, or Unusable
    suffix      \* the number to try next

namesVars == <<headers, result, seen, unique, suffix>>

NamesInit ==
    /\ headers \in Seq(Normalized)
    /\ result = <<>>
    /\ seen = {}
    /\ unique = Unusable
    /\ suffix = 2

Index == Len(result) + 1

CandidateOf(i) == IF headers[i] = Unusable THEN <<Column, i>> ELSE headers[i]

\* The loop takes the next header.
Take ==
    /\ unique = Unusable
    /\ Index <= Len(headers)
    /\ unique' = CandidateOf(Index)
    /\ suffix' = 2
    /\ UNCHANGED <<headers, result, seen>>

\* Bug: suffixes pile up on the last try instead of the candidate.
Retry_PileUp ==
    /\ unique # Unusable
    /\ unique \in seen
    /\ unique' = Append(unique, suffix)
    /\ suffix' = suffix + 1
    /\ UNCHANGED <<headers, result, seen>>

\* while unique in seen
Retry ==
    /\ unique # Unusable
    /\ unique \in seen
    /\ unique' = Append(CandidateOf(Index), suffix)
    /\ suffix' = suffix + 1
    /\ UNCHANGED <<headers, result, seen>>

\* Bug: the header is remembered instead of the name it got.
Accept_SeenCandidate ==
    /\ unique # Unusable
    /\ unique \notin seen
    /\ seen' = seen \cup {CandidateOf(Index)}
    /\ result' = Append(result, unique)
    /\ unique' = Unusable
    /\ UNCHANGED <<headers, suffix>>

Accept ==
    /\ unique # Unusable
    /\ unique \notin seen
    /\ seen' = seen \cup {unique}
    /\ result' = Append(result, unique)
    /\ unique' = Unusable
    /\ UNCHANGED <<headers, suffix>>

NamesNext == Take \/ Retry \/ Accept

NamesSpec == NamesInit /\ [][NamesNext]_namesVars

\* The loop has ended.
NamesDone == unique = Unusable /\ Len(result) = Len(headers)

-----------------------------------------------------------------------------
(* Properties *)

\* No two columns get one name, although a suffixed name may be the header of
\* another column.
Distinct ==
    \A i, j \in 1 .. Len(result) : i # j => result[i] # result[j]

\* A suffix is only given where it is needed: a name differs from its own
\* candidate only if an earlier column has that name, and then by one number
\* for which every smaller one is taken.
FirstFree ==
    \A i \in 1 .. Len(result) :
        LET taken == {result[j] : j \in 1 .. i - 1}
            mine == CandidateOf(i) IN
        result[i] # mine =>
            /\ mine \in taken
            /\ \E k \in 2 .. i :
                  /\ result[i] = Append(mine, k)
                  /\ \A m \in 2 .. k - 1 : Append(mine, m) \in taken

=============================================================================
