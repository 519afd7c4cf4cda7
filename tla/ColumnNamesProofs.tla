--------------------------- MODULE ColumnNamesProofs ---------------------------
(***************************************************************************)
(* For any headers: the column names are pairwise distinct, because "seen" *)
(* is exactly the set of the names given so far, and a suffix is the first *)
(* free one.  That it is at most the column's own number is a counting     *)
(* argument: all the names tried before it are among those of the earlier  *)
(* columns.                                                                *)
(***************************************************************************)
EXTENDS ColumnNames, FiniteSetTheorems, TLAPS

Names == Seq(Stems \cup {Column} \cup Nat)

SeenInv == /\ result \in Seq(Names)
           /\ seen = {result[i] : i \in 1 .. Len(result)}
           /\ unique \in Names
           /\ suffix \in Nat
           /\ unique # Unusable => Index <= Len(headers)
           /\ headers \in Seq(Normalized)

IInv == SeenInv /\ Distinct

\* The m-th name that the loop tries for candidate c.
Tried(c, m) == IF m = 1 THEN c ELSE Append(c, m)

\* The name being tried is the candidate or its next suffix, and all that were
\* tried before are taken.
SuffixInv == unique # Unusable =>
    /\ suffix >= 2
    /\ unique = Tried(CandidateOf(Index), suffix - 1)
    /\ suffix - 1 <= Index
    /\ \A m \in 1 .. suffix - 2 : Tried(CandidateOf(Index), m) \in seen

-----------------------------------------------------------------------------
\* Candidates are names.
LEMMA CandidateIsName ==
  ASSUME headers \in Seq(Normalized), NEW i \in 1 .. Len(headers)
  PROVE  CandidateOf(i) \in Names
  <1>1. CASE headers[i] = Unusable
    BY <1>1 DEF CandidateOf, Names
  <1>2. CASE headers[i] # Unusable
    BY <1>2, ColumnAssumption DEF CandidateOf, Names
  <1> QED
    BY <1>1, <1>2

\* The invariant holds initially.
LEMMA InitIInv == NamesInit => IInv
  <1> SUFFICES ASSUME NamesInit PROVE IInv
    OBVIOUS
  <1>1. headers \in Seq(Normalized)
    BY ColumnAssumption DEF NamesInit
  <1> QED
    BY <1>1 DEF NamesInit, IInv, SeenInv, Distinct, Unusable, Names

\* Every step keeps the invariant.
LEMMA StepIInv == IInv /\ [NamesNext]_namesVars => IInv'
  <1> SUFFICES ASSUME IInv, [NamesNext]_namesVars PROVE IInv'
    OBVIOUS
  <1> USE DEF IInv, SeenInv, Distinct
  <1>1. CASE Take
    <2>1. CandidateOf(Index) \in Names
      BY <1>1, CandidateIsName DEF Take, Index
    <2> QED
      BY <1>1, <2>1 DEF Take, Index
  <1>2. CASE Retry
    <2>1. Index \in 1 .. Len(headers)
      BY <1>2 DEF Retry, Index
    <2>2. CandidateOf(Index) \in Names /\ suffix \in Nat
      BY <2>1, CandidateIsName
    <2>3. unique' \in Names
      BY <1>2, <2>2 DEF Retry, Names
    <2> QED
      BY <1>2, <2>1, <2>3 DEF Retry, Index
  <1>3. CASE Accept
    <2>1. /\ unique \notin seen
          /\ result' = Append(result, unique)
          /\ seen' = seen \cup {unique}
          /\ unique' = Unusable
          /\ UNCHANGED <<headers, suffix>>
      BY <1>3 DEF Accept
    <2>2. /\ result' \in Seq(Names) /\ Len(result') = Len(result) + 1
          /\ \A i \in 1 .. Len(result) : result'[i] = result[i]
          /\ result'[Len(result) + 1] = unique
      BY <2>1
    <2>3. seen' = {result'[i] : i \in 1 .. Len(result')}
      BY <2>1, <2>2
    <2>4. Distinct'
      BY <2>1, <2>2
    <2>5. unique' \in Names
      BY <2>1 DEF Unusable, Names
    <2> QED
      BY <2>1, <2>2, <2>3, <2>4, <2>5
  <1>4. CASE UNCHANGED namesVars
    BY <1>4 DEF namesVars, Index
  <1> QED
    BY <1>1, <1>2, <1>3, <1>4 DEF NamesNext

\* Every column of a table has a name of its own (_normalize_columns).
THEOREM DistinctCorrect == NamesSpec => []Distinct
  <1>1. IInv => Distinct
    BY DEF IInv
  <1> QED
    BY <1>1, InitIInv, StepIInv, PTL DEF NamesSpec

-----------------------------------------------------------------------------
(* First free suffix. *)

\* No two tries give the same name.
LEMMA TriedDistinct ==
  ASSUME NEW c \in Names, NEW m \in Nat \ {0}, NEW n \in Nat \ {0},
         Tried(c, m) = Tried(c, n)
  PROVE  m = n
  <1>1. c \in Seq(Stems \cup {Column} \cup Nat)
    BY DEF Names
  <1>2. \A k \in Nat \ {0} : /\ Len(Append(c, k)) = Len(c) + 1
                             /\ Append(c, k)[Len(c) + 1] = k
    BY <1>1
  <1>3. Len(c) \in Nat
    BY <1>1
  <1>4. CASE m # 1 /\ n # 1
    BY <1>2, <1>4 DEF Tried
  <1>5. \A k \in Nat \ {0} : Append(c, k) # c
    BY <1>2, <1>3
  <1>6. CASE m = 1
    BY <1>5, <1>6 DEF Tried
  <1>7. CASE n = 1
    BY <1>5, <1>7 DEF Tried
  <1> QED
    BY <1>4, <1>6, <1>7

\* Distinct tries that are all taken are no more than the columns so far.
LEMMA TriesBounded ==
  ASSUME IInv, NEW c \in Names, NEW n \in Nat,
         \A m \in 1 .. n : Tried(c, m) \in seen
  PROVE  n <= Len(result)
  <1> DEFINE f == [m \in 1 .. n |->
                     CHOOSE j \in 1 .. Len(result) : result[j] = Tried(c, m)]
  <1>1. Len(result) \in Nat
    BY DEF IInv, SeenInv
  <1>2. \A m \in 1 .. n : \E j \in 1 .. Len(result) : result[j] = Tried(c, m)
    BY DEF IInv, SeenInv
  <1>3. \A m \in 1 .. n : f[m] \in 1 .. Len(result) /\ result[f[m]] = Tried(c, m)
    BY <1>2
  <1>4. f \in [1 .. n -> 1 .. Len(result)]
    BY <1>3
  <1> HIDE DEF f
  <1>5. \A k \in Nat : IsFiniteSet(1 .. k) /\ Cardinality(1 .. k) = k
    BY FS_Interval
  <1>6. SUFFICES ASSUME Len(result) < n  PROVE FALSE
    BY <1>1
  <1>7. PICK x \in 1 .. n, y \in 1 .. n : x # y /\ f[x] = f[y]
    BY <1>4, <1>5, <1>6, FS_PigeonHole
  <1>8. Tried(c, x) = Tried(c, y)
    BY <1>3, <1>7
  <1> QED
    BY <1>7, <1>8, TriedDistinct

\* Every step keeps the suffix invariant.
LEMMA StepSuffixInv ==
  ASSUME IInv, SuffixInv, [NamesNext]_namesVars
  PROVE  SuffixInv'
  <1> USE DEF IInv, SeenInv
  <1>1. CASE Take
    <2>1. /\ suffix' = 2 /\ unique' = CandidateOf(Index)
          /\ UNCHANGED <<headers, result, seen>>
      BY <1>1 DEF Take
    <2> QED
      BY <2>1 DEF SuffixInv, Tried, Index, CandidateOf
  <1>2. CASE Retry
    <2> DEFINE c == CandidateOf(Index)
    <2>1. /\ unique # Unusable /\ unique \in seen
          /\ unique' = Append(c, suffix) /\ suffix' = suffix + 1
          /\ UNCHANGED <<headers, result, seen>>
      BY <1>2 DEF Retry
    <2>2. c \in Names /\ suffix \in Nat /\ suffix >= 2
      BY <2>1, CandidateIsName DEF SuffixInv, Index
    <2>3. CandidateOf(Index)' = c /\ Index' = Index
      BY <2>1 DEF CandidateOf, Index
    <2> HIDE DEF c
    <2>4. \A m \in 1 .. suffix - 1 : Tried(c, m) \in seen
      <3>1. \A m \in 1 .. suffix - 2 : Tried(c, m) \in seen
        BY <2>1 DEF SuffixInv, c
      <3>2. Tried(c, suffix - 1) \in seen
        BY <2>1 DEF SuffixInv, c
      <3> QED
        BY <2>2, <3>1, <3>2
    <2>5. suffix - 1 <= Len(result)
      <3>1. suffix - 1 \in Nat
        BY <2>2
      <3> QED
        BY <2>2, <2>4, <3>1, TriesBounded
    <2>6. unique' = Tried(c, suffix' - 1)
      <3>1. unique' = Append(c, suffix) /\ suffix' - 1 = suffix /\ suffix # 1
        BY <2>1, <2>2 DEF c
      <3> QED
        BY <3>1 DEF Tried
    <2>7. /\ suffix' >= 2 /\ suffix' - 1 <= Index /\ suffix' - 2 = suffix - 1
          /\ seen' = seen
      BY <2>1, <2>2, <2>5 DEF Index
    <2> QED
      BY <2>3, <2>4, <2>6, <2>7 DEF SuffixInv
  <1>3. CASE Accept
    BY <1>3 DEF Accept, SuffixInv
  <1>4. CASE UNCHANGED namesVars
    BY <1>4 DEF namesVars, SuffixInv, Index, CandidateOf
  <1> QED
    BY <1>1, <1>2, <1>3, <1>4 DEF NamesNext

\* What FirstFree says of the i-th of the names r, whose candidate is c.
FreeAt(r, c, i) ==
    LET taken == {r[j] : j \in 1 .. i - 1} IN
    r[i] # c => /\ c \in taken
                /\ \E k \in 2 .. i : /\ r[i] = Append(c, k)
                                    /\ \A m \in 2 .. k - 1 : Append(c, m) \in taken

LEMMA FirstFreeAt ==
  FirstFree <=> \A i \in 1 .. Len(result) : FreeAt(result, CandidateOf(i), i)
  BY DEF FirstFree, FreeAt

\* It depends on the first i names only.
LEMMA FreeAtPrefix ==
  ASSUME NEW r, NEW q, NEW c, NEW i \in Nat, \A j \in 1 .. i : q[j] = r[j],
         i > 0, FreeAt(r, c, i)
  PROVE  FreeAt(q, c, i)
  <1>1. {q[j] : j \in 1 .. i - 1} = {r[j] : j \in 1 .. i - 1}
    OBVIOUS
  <1>2. q[i] = r[i]
    OBVIOUS
  <1> QED
    BY <1>1, <1>2 DEF FreeAt

\* A name is given with the first suffix that is free when it is given, and
\* what is taken then stays taken.
LEMMA StepFirstFree ==
  ASSUME IInv, SuffixInv, FirstFree, [NamesNext]_namesVars
  PROVE  FirstFree'
  <1> USE DEF IInv, SeenInv
  <1> SUFFICES ASSUME NEW i \in 1 .. Len(result')
               PROVE  FreeAt(result', CandidateOf(i)', i)
    BY DEF FirstFree, FreeAt
  <1>1. headers' = headers /\ (result' = result \/ Accept)
    BY DEF NamesNext, Take, Retry, Accept, namesVars
  <1>2. CandidateOf(i)' = CandidateOf(i)
    BY <1>1 DEF CandidateOf
  <1>3. CASE result' = result
    BY <1>2, <1>3, FirstFreeAt
  <1>4. CASE Accept
    <2>1. unique # Unusable /\ result' = Append(result, unique)
      BY <1>4 DEF Accept
    <2>2. /\ Len(result') = Len(result) + 1 /\ Len(result) \in Nat
          /\ \A j \in 1 .. Len(result) : result'[j] = result[j]
          /\ result'[Len(result) + 1] = unique
      BY <2>1
    <2>3. CASE i <= Len(result)
      <3>1. i \in 1 .. Len(result) /\ \A j \in 1 .. i : result'[j] = result[j]
        BY <2>2, <2>3
      <3>2. FreeAt(result, CandidateOf(i), i)
        BY <3>1, FirstFreeAt
      <3> QED
        BY <1>2, <3>1, <3>2, FreeAtPrefix
    <2>4. CASE i = Len(result) + 1
      <3> DEFINE c == CandidateOf(i)
      <3>1. result'[i] = unique /\ i = Index
        BY <2>2, <2>4 DEF Index
      <3>2. seen = {result'[j] : j \in 1 .. i - 1}
        BY <2>2, <2>4
      <3>3. /\ suffix >= 2 /\ suffix \in Nat /\ unique = Tried(c, suffix - 1)
            /\ suffix - 1 <= i
            /\ \A m \in 1 .. suffix - 2 : Tried(c, m) \in seen
        BY <2>1, <3>1 DEF SuffixInv
      <3> HIDE DEF c
      <3>4. SUFFICES ASSUME unique # c  PROVE FreeAt(result', c, i)
        BY <1>2, <3>1 DEF FreeAt, c
      <3>5. suffix # 2 /\ suffix - 1 \in 2 .. i
        BY <3>3, <3>4 DEF Tried
      <3>6. unique = Append(c, suffix - 1)
        BY <3>3, <3>5 DEF Tried
      <3>7. c \in seen
        <4>1. 1 \in 1 .. suffix - 2 /\ Tried(c, 1) = c
          BY <3>5 DEF Tried
        <4> QED
          BY <3>3, <4>1
      <3>8. \A m \in 2 .. suffix - 1 - 1 : Append(c, m) \in seen
        <4> SUFFICES ASSUME NEW m \in 2 .. suffix - 1 - 1
                     PROVE  Append(c, m) \in seen
          OBVIOUS
        <4>1. m \in 1 .. suffix - 2 /\ Tried(c, m) = Append(c, m)
          BY <3>3 DEF Tried
        <4> QED
          BY <3>3, <4>1
      <3> QED
        BY <3>1, <3>2, <3>5, <3>6, <3>7, <3>8 DEF FreeAt
    <2> QED
      BY <2>2, <2>3, <2>4
  <1> QED
    BY <1>1, <1>3, <1>4

\* A suffix is given only where the plain name is taken, it is the smallest
\* free one, and at most the number of the column (_normalize_columns).
THEOREM FirstFreeCorrect == NamesSpec => []FirstFree
  <1>1. NamesInit => SuffixInv /\ FirstFree
    BY DEF NamesInit, SuffixInv, FirstFree
  <1>2. IInv /\ SuffixInv /\ FirstFree /\ [NamesNext]_namesVars
          => SuffixInv' /\ FirstFree'
    BY StepSuffixInv, StepFirstFree
  <1> QED
    BY <1>1, <1>2, InitIInv, StepIInv, PTL DEF NamesSpec

-----------------------------------------------------------------------------
(* The loop ends. *)

\* More than the tries that the column under way, and each later one, may need.
TriesLeft == IF unique = Unusable THEN Len(headers) + 3
                                  ELSE Len(headers) + 2 - suffix

NamesLeft == (Len(headers) - Len(result)) * (Len(headers) + 4) + TriesLeft

NoMoreNames == Len(result) <= Len(headers)

\* The sizes that the count is made of.
LEMMA SizesOfNames ==
  ASSUME IInv, SuffixInv, NoMoreNames
  PROVE  /\ Len(headers) \in Nat /\ Len(result) \in Nat /\ suffix \in Nat
         /\ Len(headers) - Len(result) \in Nat
         /\ unique # Unusable => /\ suffix >= 2
                                 /\ suffix <= Len(result) + 2
                                 /\ Len(result) + 1 <= Len(headers)
         /\ TriesLeft \in Nat
         /\ NamesLeft \in Nat
  <1>1. /\ Len(headers) \in Nat /\ Len(result) \in Nat /\ suffix \in Nat
        /\ Len(headers) - Len(result) \in Nat
        /\ unique # Unusable => /\ suffix >= 2
                                /\ suffix <= Len(result) + 2
                                /\ Len(result) + 1 <= Len(headers)
    BY DEF IInv, SeenInv, SuffixInv, NoMoreNames, Index
  <1>2. TriesLeft \in Nat
    BY <1>1 DEF TriesLeft
  <1>3. \A k, m \in Nat : k * m \in Nat
    OBVIOUS
  <1>4. (Len(headers) - Len(result)) * (Len(headers) + 4) \in Nat
    BY <1>1, <1>3
  <1> QED
    BY <1>1, <1>2, <1>4 DEF NamesLeft

\* Every step of the loop leaves less to do, and a column more pays for the
\* tries of the next one.
LEMMA StepNamesLeft ==
  ASSUME IInv, SuffixInv, NoMoreNames, NamesNext
  PROVE  /\ NoMoreNames'
         /\ NamesLeft' < NamesLeft
  <1> DEFINE n == Len(headers)
             r == Len(result)
  <1>1. /\ n \in Nat /\ r \in Nat /\ suffix \in Nat /\ n - r \in Nat
        /\ unique # Unusable => suffix <= r + 2 /\ r + 1 <= n
        /\ NamesLeft \in Nat
    BY SizesOfNames
  <1>2. headers' = headers
    BY DEF NamesNext, Take, Retry, Accept
  <1>3. CASE Take
    <2>1. CandidateOf(Index) # Unusable
      BY DEF CandidateOf, Unusable
    <2>2. /\ unique = Unusable /\ unique' # Unusable /\ suffix' = 2
          /\ result' = result
      BY <1>3, <2>1 DEF Take
    <2>3. TriesLeft' < TriesLeft
      BY <1>1, <1>2, <2>2 DEF TriesLeft
    <2> QED
      BY <1>1, <1>2, <2>2, <2>3, SizesOfNames DEF NamesLeft, NoMoreNames, TriesLeft
  <1>4. CASE Retry
    <2>1. /\ unique # Unusable /\ result' = result /\ suffix' = suffix + 1
          /\ unique' = Append(CandidateOf(Index), suffix)
      BY <1>4 DEF Retry
    <2>2. unique' # Unusable
      <3>1. CandidateOf(Index) \in Names
        BY <2>1, CandidateIsName DEF IInv, SeenInv, Index
      <3>2. Len(unique') = Len(CandidateOf(Index)) + 1
                /\ Len(CandidateOf(Index)) \in Nat
        BY <2>1, <3>1 DEF Names
      <3> QED
        BY <3>2 DEF Unusable
    <2>3. /\ TriesLeft = n + 2 - suffix
          /\ TriesLeft' = n + 2 - (suffix + 1)
      BY <1>2, <2>1, <2>2 DEF TriesLeft
    <2>4. NamesLeft = (n - r) * (n + 4) + TriesLeft
      BY DEF NamesLeft
    <2>5. NamesLeft' = (n - r) * (n + 4) + TriesLeft'
      BY <1>2, <2>1 DEF NamesLeft
    <2>6. (n - r) * (n + 4) \in Int
      BY <1>1
    <2> HIDE DEF n, r
    <2>7. NamesLeft' < NamesLeft
      BY <1>1, <2>3, <2>4, <2>5, <2>6
    <2> QED
      BY <1>2, <2>1, <2>7 DEF NoMoreNames
  <1>5. CASE Accept
    <2>1. /\ unique # Unusable /\ unique' = Unusable
          /\ result' = Append(result, unique)
      BY <1>5 DEF Accept
    <2>2. Len(result') = r + 1
      BY <2>1 DEF IInv, SeenInv
    <2>3. /\ TriesLeft = n + 2 - suffix
          /\ TriesLeft' = n + 3
      BY <1>2, <2>1 DEF TriesLeft
    <2>4. NamesLeft = (n - r) * (n + 4) + TriesLeft
      BY DEF NamesLeft
    <2>5. NamesLeft' = (n - (r + 1)) * (n + 4) + TriesLeft'
      BY <1>2, <2>2 DEF NamesLeft
    <2> HIDE DEF n, r
    <2>6. (n - (r + 1)) * (n + 4) = (n - r) * (n + 4) - (n + 4)
      BY <1>1
    <2>7. (n - r) * (n + 4) \in Int
      BY <1>1
    <2>8. NamesLeft' < NamesLeft
      BY <1>1, <2>1, <2>3, <2>4, <2>5, <2>6, <2>7
    <2> QED
      BY <1>1, <1>2, <2>1, <2>2, <2>8 DEF NoMoreNames, n
  <1> QED
    BY <1>3, <1>4, <1>5 DEF NamesNext

\* However headers and suffixes collide, the loop of _normalize_columns ends:
\* each of its steps lowers a number that is never negative.
THEOREM NamesEnd ==
    NamesSpec => [](NamesLeft \in Nat) /\ [][NamesLeft' < NamesLeft]_namesVars
  <1> DEFINE Inv == IInv /\ SuffixInv /\ NoMoreNames
  <1>1. NamesInit => NoMoreNames /\ SuffixInv
    BY DEF NamesInit, NoMoreNames, SuffixInv
  <1>2. Inv /\ [NamesNext]_namesVars => NoMoreNames'
    BY StepNamesLeft DEF NoMoreNames, namesVars
  <1>3. Inv /\ [NamesNext]_namesVars => SuffixInv'
    BY StepSuffixInv
  <1>4. Inv /\ [NamesNext]_namesVars => [NamesLeft' < NamesLeft]_namesVars
    BY StepNamesLeft
  <1>5. Inv => NamesLeft \in Nat
    BY SizesOfNames
  <1> QED
    BY <1>1, <1>2, <1>3, <1>4, <1>5, InitIInv, StepIInv, PTL DEF NamesSpec

=============================================================================
